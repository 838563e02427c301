------------------------------- MODULE MCExec -------------------------------
(***************************************************************************)
(* The two loaders of programs side by side: a behaviour follows execve    *)
(* (Loader) or the in-kernel userland (Userland), the other one rests.     *)
(***************************************************************************)
EXTENDS MCLoader

CONSTANTS AddressSpace, ArenaSize, Disks, Xsh

VARIABLES part, disk, boot, calls, command_running, load, arenas, result

userland == <<disk, boot, calls, command_running, load, arenas, result>>

U == INSTANCE Userland WITH SPACE <- AddressSpace

Inputs == INSTANCE MCUserland WITH SPACE <- AddressSpace, Disks <- <<>>, Xsh <- "none"
MCDisks == Inputs!MCDisks
MCXsh == Inputs!MCXsh

LoaderRests ==
    /\ request = "none" /\ at = "none" /\ argc = 0 /\ envc = 0 /\ mem = Nothing /\ segment = 0
    /\ stack = 0 /\ addresses = <<>> /\ words = 0
UserlandRests ==
    /\ disk = 1 /\ boot = "none" /\ calls = <<>> /\ command_running = FALSE
    /\ load = U!NoLoad /\ arenas = "none" /\ result = "none"

MCInit ==
    \/ part = "execve" /\ Init /\ UserlandRests
    \/ part = "userland" /\ U!Init /\ LoaderRests
MCNext ==
    \/ part = "execve" /\ Next /\ UNCHANGED <<part, userland>>
    \/ part = "userland" /\ U!Next /\ UNCHANGED <<part, vars>>
MCSpec == MCInit /\ [][MCNext]_<<part, vars, userland>>

(* No way out of user_api_exec leaves command_running set (Userland). *)
FlagTellsCommand == U!FlagTellsCommand

(* What runs from an arena is the image of its file (Userland). *)
ImageInArena == U!ImageInArena
=============================================================================
