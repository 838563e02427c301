------------------------------ MODULE MCLoader ------------------------------
(***************************************************************************)
(* Programs for Loader: pairs of segments that lie apart, share a page,    *)
(* touch the stack, run into a limit or wrap around, in the address space  *)
(* or in the file, each with the longest arguments; and every list of      *)
(* arguments with one program.                                             *)
(***************************************************************************)
EXTENDS Loader

Segment(v, m, o, f) == [p_type |-> 1, p_vaddr |-> v, p_memsz |-> m, p_offset |-> o, p_filesz |-> f]
Segments ==
    {Segment(v, m, o, f) : v \in {7, 8, 9, 10, 15, 27, 28}, m \in {0, 1, 3, 6}, o \in {0, 2}, f \in {0, 1, 3}}
        \cup {Segment(v, m, 5, f) : v \in {8, 10, 56, 62, 63, 64}, m \in {1, 2, 5, 127}, f \in {0, 1, 125}}
        \cup {Segment(v, 3, o, f) : v \in {8, 28}, o \in {4, 5, 6, 125, 126, 127}, f \in 0 .. 3}
        \cup {[Segment(8, 4, 0, 4) EXCEPT !.p_type = 2]}

Request(argv, envp, segments) ==
    [argv |-> argv, envp |-> envp, segments |-> segments, size |-> 6,
     found |-> TRUE, executable |-> TRUE, directory |-> FALSE, elf64 |-> TRUE, phdrs_inside |-> TRUE]

One == Segment(9, 6, 1, 3)
Second == {One} \cup {Segment(v, 2, 1, 1) : v \in {8, 11, 12, 26, 31, 56, 60}} \cup {Segment(10, 127, 0, 1)}
Strings == {Outside, 0, 1, 2, 3}
Lists(n) == UNION {[1 .. k -> Strings] : k \in 0 .. n}

MCRequests ==
    {Request(<<2, 0>>, <<1>>, <<s, t>>) : s \in Segments, t \in Second}
        \cup {Request(a, e, <<One>>) : a \in Lists(3), e \in Lists(1) \cup {<<1, 2>>, <<2, 2>>, <<0, 0, 0>>}}
        \cup {Request([i \in 1 .. n |-> 0], [i \in 1 .. m |-> 2], <<One>>) : n \in 0 .. 5, m \in 0 .. 5}
        \cup {Request(<<1>>, <<>>, <<>>)}
        \cup {[Request(<<1>>, <<>>, <<One>>) EXCEPT !.found = f, !.executable = x, !.directory = d, !.elf64 = e, !.phdrs_inside = p] :
                  f \in BOOLEAN, x \in BOOLEAN, d \in BOOLEAN, e \in BOOLEAN, p \in BOOLEAN}
=============================================================================
