------------------------------ MODULE Userland ------------------------------
(***************************************************************************)
(* Programs that run inside the kernel (kernel/userland.c, fs/elf.c): the  *)
(* shell xsh is loaded into an arena of its own and called; it runs        *)
(* commands through user_api_exec, one at a time, in a second arena.       *)
(*                                                                         *)
(* A file is its loadable segments; sums of 64 bits wrap at SPACE.  Files  *)
(* are looked up as in module Ramdisk, the console is module Console.      *)
(***************************************************************************)
EXTENDS Integers, Sequences

CONSTANTS
    SPACE,          \* 2^64
    ArenaSize,      \* bytes of each arena
    Disks,          \* RAMDISKs, each the files at its paths
    Xsh             \* "/bin/xsh"

VARIABLES
    disk,           \* the RAMDISK there is
    boot,           \* "off", "running", "failed", "returned"
    calls,          \* images running, the innermost last
    command_running,
    load,           \* the image being loaded
    arenas,         \* bytes of the two arenas
    result          \* what the last call of the API returned

vars == <<disk, boot, calls, command_running, load, arenas, result>>

Files == Disks[disk]

Zero == <<Xsh, -1>>
Byte(path, k) == <<path, k>>
Offsets == 0 .. ArenaSize - 1
NoLoad == [pass |-> "none"]

Running == boot = "running" /\ calls # <<>> /\ load = NoLoad
Innermost == calls[Len(calls)]

-----------------------------------------------------------------------------
(* The loader.                                                             *)

validate_elf_header(file) == ~file.directory /\ file.elf64 /\ Len(file.segments) # 0

add_overflows_u64(lhs, rhs) == (SPACE - 1) - lhs < rhs

BeginLoad(arena, path) ==
    load' = [pass |-> "header", arena |-> arena, path |-> path, next |-> 1,
             min_vaddr |-> SPACE - 1, max_vaddr |-> 0, found |-> FALSE]

(* Mutant: a command that cannot be run leaves the flag set. *)
command_done_Early == command_running
(* user_api_exec clears the flag on its way out. *)
command_done == IF load.arena = "cmd" THEN FALSE ELSE command_running

(* The load is given up: exec returns the error, start returns false. *)
LoadFails(error) ==
    /\ load' = NoLoad
    /\ command_running' = command_done
    /\ result' = error
    /\ boot' = IF load.arena = "xsh" THEN "failed" ELSE boot
    /\ UNCHANGED <<calls, arenas>>

LoadGoesOn(changed) == load' = changed /\ UNCHANGED <<boot, calls, command_running, result>>

(* run_loaded_image, for commands, and the header of the file. *)
run_loaded_image ==
    /\ load.pass = "header"
    /\ LET file == Files[load.path]
           command == load.arena = "cmd"
       IN  \/ command /\ file.directory /\ LoadFails("EISDIR")
           \/ command /\ ~file.directory /\ ~file.executable /\ LoadFails("EACCES")
           \/ /\ command => ~file.directory /\ file.executable
              /\ ~validate_elf_header(file)
              /\ LoadFails("ENOEXEC")
           \/ /\ command => ~file.directory /\ file.executable
              /\ validate_elf_header(file)
              /\ LoadGoesOn([load EXCEPT !.pass = "first"]) /\ UNCHANGED arenas

Segment == Files[load.path].segments[load.next]

(* Mutant: the end of a segment is not checked for overflow. *)
segment_is_valid_Wraps(s, size) ==
    /\ s.p_memsz >= s.p_filesz
    /\ ~add_overflows_u64(s.p_offset, s.p_filesz) /\ s.p_offset + s.p_filesz <= size
segment_is_valid(s, size) ==
    /\ s.p_memsz >= s.p_filesz
    /\ ~add_overflows_u64(s.p_offset, s.p_filesz) /\ s.p_offset + s.p_filesz <= size
    /\ ~add_overflows_u64(s.p_vaddr, s.p_memsz)

Lesser(m, n) == IF m < n THEN m ELSE n
Greater(m, n) == IF m < n THEN n ELSE m

(* The first pass over the program headers measures the image. *)
measure_segment ==
    /\ load.pass = "first" /\ load.next <= Len(Files[load.path].segments)
    /\ \/ /\ Segment.p_type # 1
          /\ LoadGoesOn([load EXCEPT !.next = @ + 1]) /\ UNCHANGED arenas
       \/ /\ Segment.p_type = 1 /\ ~segment_is_valid(Segment, Files[load.path].size)
          /\ LoadFails("ENOEXEC")
       \/ /\ Segment.p_type = 1 /\ segment_is_valid(Segment, Files[load.path].size)
          /\ LoadGoesOn([load EXCEPT !.next = @ + 1, !.found = TRUE,
                                     !.min_vaddr = Lesser(@, Segment.p_vaddr),
                                     !.max_vaddr = Greater(@, (Segment.p_vaddr + Segment.p_memsz) % SPACE)])
          /\ UNCHANGED arenas

(* Mutant: what the last image left stays. *)
cleared_Kept(arena) == arenas[arena]
cleared(arena) == [k \in Offsets |-> Zero]

(* The image has to fit and hold its entry; then the arena is cleared. *)
clear_arena ==
    /\ load.pass = "first" /\ load.next > Len(Files[load.path].segments)
    /\ LET entry == Files[load.path].e_entry
       IN  IF /\ load.found /\ load.max_vaddr >= load.min_vaddr
              /\ load.max_vaddr - load.min_vaddr <= ArenaSize
              /\ entry >= load.min_vaddr /\ entry < load.max_vaddr
           THEN /\ LoadGoesOn([load EXCEPT !.pass = "second", !.next = 1])
                /\ arenas' = [arenas EXCEPT ![load.arena] = cleared(load.arena)]
           ELSE LoadFails("ENOEXEC")

SegmentFits(s) ==
    LET relative_vaddr == (s.p_vaddr - load.min_vaddr) % SPACE
    IN  relative_vaddr <= ArenaSize /\ s.p_memsz <= ArenaSize - relative_vaddr

(* The second pass copies. *)
copy_segment ==
    /\ load.pass = "second" /\ load.next <= Len(Files[load.path].segments)
    /\ \/ /\ Segment.p_type # 1
          /\ LoadGoesOn([load EXCEPT !.next = @ + 1]) /\ UNCHANGED arenas
       \/ /\ Segment.p_type = 1
          /\ LET from == Segment.p_vaddr - load.min_vaddr
             IN  IF SegmentFits(Segment)
                 THEN /\ arenas' = [arenas EXCEPT ![load.arena] =
                             [k \in Offsets |-> IF k \in from .. from + Segment.p_filesz - 1
                                                THEN Byte(load.path, Segment.p_offset + k - from) ELSE @[k]]]
                      /\ LoadGoesOn([load EXCEPT !.next = @ + 1])
                 ELSE LoadFails("ENOEXEC")

(* The image is called at its entry. *)
call_entry ==
    /\ load.pass = "second" /\ load.next > Len(Files[load.path].segments)
    /\ calls' = Append(calls, [arena |-> load.arena, path |-> load.path,
                               entry |-> Files[load.path].e_entry - load.min_vaddr, base |-> load.min_vaddr])
    /\ load' = NoLoad
    /\ UNCHANGED <<boot, command_running, arenas, result>>

-----------------------------------------------------------------------------

xbks_userland_start ==
    /\ boot = "off"
    /\ \/ Xsh \notin DOMAIN Files /\ boot' = "failed" /\ UNCHANGED load
       \/ Xsh \in DOMAIN Files /\ boot' = "running" /\ BeginLoad("xsh", Xsh)
    /\ UNCHANGED <<calls, command_running, arenas, result>>

(* Mutant: a command may run a command. *)
busy_Never == FALSE
busy == command_running

user_api_exec ==
    /\ Running
    /\ \/ result' = "EFAULT" /\ UNCHANGED <<load, command_running>>
       \/ busy /\ result' = "EBUSY" /\ UNCHANGED <<load, command_running>>
       \/ ~busy /\ result' = "ENOENT" /\ UNCHANGED <<load, command_running>>
       \/ /\ ~busy
          /\ \E path \in DOMAIN Files : BeginLoad("cmd", path)
          /\ command_running' = TRUE /\ UNCHANGED result
    /\ UNCHANGED <<boot, calls, arenas>>

(* External: the innermost image returns to its caller. *)
image_returns ==
    /\ Running
    /\ calls' = SubSeq(calls, 1, Len(calls) - 1)
    /\ \/ /\ Innermost.arena = "cmd"
          /\ command_running' = FALSE /\ result' = "status" /\ UNCHANGED boot
       \/ /\ Innermost.arena = "xsh"
          /\ boot' = "returned" /\ UNCHANGED <<command_running, result>>
    /\ UNCHANGED <<load, arenas>>

Init ==
    /\ disk \in DOMAIN Disks
    /\ boot = "off" /\ calls = <<>> /\ command_running = FALSE
    /\ load = NoLoad /\ result = "none"
    /\ arenas = [a \in {"xsh", "cmd"} |-> [k \in Offsets |-> Zero]]

Next ==
    /\ UNCHANGED disk
    /\ \/ xbks_userland_start \/ user_api_exec \/ image_returns
       \/ run_loaded_image \/ measure_segment \/ clear_arena \/ copy_segment \/ call_entry

Spec == Init /\ [][Next]_vars

-----------------------------------------------------------------------------
(* Properties.                                                             *)

(* command_running says whether a command is being loaded or runs: no way  *)
(* out of user_api_exec leaves it set, or every later one would be EBUSY.  *)
FlagTellsCommand ==
    command_running <=> \/ load # NoLoad /\ load.arena = "cmd"
                        \/ \E i \in DOMAIN calls : calls[i].arena = "cmd"

(* What runs is the image of its file, laid out from its lowest address,   *)
(* later segments over earlier ones, and zero everywhere else: nothing of  *)
(* the command before it is left, and its arena is not written while it    *)
(* runs.  It is entered inside its arena, and a file that passed the first *)
(* pass is loaded: no segment is refused once the arena has been cleared   *)
(* (xbks_elf_load_image, run_loaded_image).                                *)
Covers(s, at) == s.p_type = 1 /\ at \in s.p_vaddr .. s.p_vaddr + s.p_filesz - 1
Expected(call, k) ==
    LET segments == Files[call.path].segments
        over == {i \in DOMAIN segments : Covers(segments[i], call.base + k)}
    IN  IF over = {} THEN Zero
        ELSE LET s == segments[CHOOSE i \in over : \A j \in over : j <= i]
             IN  Byte(call.path, s.p_offset + call.base + k - s.p_vaddr)
ImageInArena ==
    /\ load.pass = "second" =>
           \A i \in DOMAIN Files[load.path].segments :
               Files[load.path].segments[i].p_type = 1 => SegmentFits(Files[load.path].segments[i])
    /\ \A i \in DOMAIN calls : calls[i].entry \in Offsets
    /\ \A i \in DOMAIN calls : \A k \in Offsets : arenas[calls[i].arena][k] = Expected(calls[i], k)

=============================================================================
