----------------------------- MODULE MCProcess -----------------------------
(***************************************************************************)
(* Instances of Process for TLC: pages of two bytes, a heap of pages 2, 3  *)
(* and 4, the stack on page 6.                                             *)
(***************************************************************************)
EXTENDS ProcessRefinement, TLC

MCEntry ==
    [directory |-> FALSE, executable |-> TRUE, elf |-> TRUE, size |-> 2, children |-> 0,
     pages |-> {0}, entry |-> 1]

(* init, and a program with a page in the middle of the heap. *)
MCPrograms == InitPath :> MCEntry @@ "/bin/big" :> [MCEntry EXCEPT !.pages = {0, 3}, !.entry = 2]

(* The same with one user context. *)
MCOnePoint == [path \in DOMAIN MCPrograms |-> [MCPrograms[path] EXCEPT !.entry = 1]]

(* init, a data file and the root directory. *)
MCFiles ==
    InitPath :> MCEntry
    @@ "/motd" :> [MCEntry EXCEPT !.executable = FALSE, !.elf = FALSE]
    @@ "/" :> [MCEntry EXCEPT !.directory = TRUE, !.size = 0, !.children = 2]

MCSymmetry == Permutations(Cr3)
=============================================================================
