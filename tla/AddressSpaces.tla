--------------------------- MODULE AddressSpaces ---------------------------
(***************************************************************************)
(* What mm/mm.c promises to process.c: address spaces are independent      *)
(* partial maps from user pages to contents.  A mapped page starts zeroed, *)
(* a clone is complete and equal to its source at the moment it appears,   *)
(* and an operation on one space is never seen in another.                 *)
(***************************************************************************)
CONSTANTS Fresh, Written  \* contents of a page: zeroed, and written by user code

VARIABLE spaces           \* space -> (mapped page -> content)

Init == spaces = [s \in {} |-> <<>>]

New(s) == spaces' = [r \in DOMAIN spaces \cup {s} |-> IF r = s THEN [p \in {} |-> Fresh] ELSE spaces[r]]

Fork(s, t) == spaces' = [r \in DOMAIN spaces \cup {t} |-> IF r = t THEN spaces[s] ELSE spaces[r]]

Map(s, page) ==
    /\ page \notin DOMAIN spaces[s]
    /\ spaces' = [spaces EXCEPT ![s] =
           [p \in DOMAIN spaces[s] \cup {page} |-> IF p = page THEN Fresh ELSE spaces[s][p]]]

Write(s, page) == spaces' = [spaces EXCEPT ![s][page] = Written]

Drop(s) == spaces' = [r \in DOMAIN spaces \ {s} |-> spaces[r]]

Next ==
    \/ \E s \in DOMAIN spaces' \ DOMAIN spaces : New(s) \/ \E r \in DOMAIN spaces : Fork(r, s)
    \/ \E s \in DOMAIN spaces \cap DOMAIN spaces' :
          \/ \E page \in DOMAIN spaces'[s] : Map(s, page)
          \/ \E page \in DOMAIN spaces[s] : Write(s, page)
    \/ \E s \in DOMAIN spaces : Drop(s)

Spec == Init /\ [][Next]_spaces
=============================================================================
