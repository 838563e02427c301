-------------------------------- MODULE MCMm --------------------------------
(***************************************************************************)
(* Instances of Mm for TLC: tables of two entries, the second one of the   *)
(* pml4 for the kernel; frames of four bytes.                              *)
(***************************************************************************)
EXTENDS Mm

(* A usable range that starts at address 0, a reserved hole, and a usable  *)
(* range whose bounds are not multiples of the frame size.                 *)
MCMemoryMap(last) ==
    << [usable |-> TRUE, base |-> 0, length |-> 12],
       [usable |-> FALSE, base |-> 12, length |-> 4],
       [usable |-> TRUE, base |-> 13, length |-> 4 * last - 13 + 6] >>
MCMap == MCMemoryMap(LastFrame)

(* Two pages of one page table, and a page of another. *)
MCNeighbours == {[l \in Levels |-> 0], [l \in Levels |-> IF l = 1 THEN 1 ELSE 0]}
MCPages == MCNeighbours \cup {[l \in Levels |-> IF l = 2 THEN 1 ELSE 0]}
=============================================================================
