------------------------------- MODULE MCFont -------------------------------
(***************************************************************************)
(* Files for Font: one that is accepted, and all that differ from it in    *)
(* the size of one or two tables, in where a table starts, or in a field   *)
(* of a header, to one off the limits the parser checks.                   *)
(***************************************************************************)
EXTENDS Font

(* Five glyphs, three with metrics of their own. *)
Lengths == [tag \in {Wanted[i] : i \in 1 .. 8} |->
    CASE tag = "head" -> 54 [] tag = "hhea" -> 36 [] tag = "maxp" -> 6 [] tag = "OS/2" -> 74
      [] tag = "loca" -> 12 [] tag = "hmtx" -> 12 [] OTHER -> 10]
Size == 240

(* Tables overlap: each ends where the file does, so that a read past its  *)
(* table is a read past the file.                                          *)
Directory(order, lengths, gap) ==
    [i \in 1 .. Len(order) |-> [tag |-> order[i], offset |-> Size - lengths[order[i]] + gap, length |-> lengths[order[i]]]]

Good == [units_per_em |-> 8, index_to_loc_format |-> 0, number_of_hmetrics |-> 3, num_glyphs |-> 5]

Visits == [c \in Codepoints |-> CASE c = 0 -> {} [] c = 1 -> {4} [] c = 2 -> {0, 1, 2, 3} [] c = 3 -> {5} [] c = 4 -> {2, 70}
                                  [] OTHER -> {1}]

File(size, directory, fields, drawable) ==
    [address |-> TRUE, named |-> TRUE, scaler |-> TRUE, cmap |-> TRUE, size |-> size, directory |-> directory,
     fields |-> fields, visits |-> Visits, drawable |-> drawable]

Plain == Directory(Wanted, Lengths, 0)
Drawables == SUBSET {1, 2, 3, 5}

Resized == {Directory(Wanted, [[Lengths EXCEPT ![t] = @ + d] EXCEPT ![u] = @ + e], 0) :
               t \in DOMAIN Lengths, u \in DOMAIN Lengths, d \in {-1, 0, 1}, e \in {-2, 0}}
Orders == {<<>>, Tail(Wanted), SubSeq(Wanted, 1, 7), <<"loca">> \o Wanted, Wanted \o <<"head">>}
Fieldss == {[[Good EXCEPT ![f] = v] EXCEPT ![g] = w] : f \in Fields, g \in Fields, v \in 0 .. 6, w \in {1, 3}}

Files ==
    {File(Size, Plain, Good, d) : d \in Drawables}
        \cup {File(Size, d, Good, {1}) : d \in Resized}
        \cup {File(s, Directory(o, Lengths, g), Good, {2}) :
                  s \in {0, 11, 12, 139, 140, 155, Size - 2, Size}, o \in Orders, g \in {0, 1}}
        \cup {File(Size, Plain, f, {5}) : f \in Fieldss}
        \cup {File(Size, Directory(Wanted, [Lengths EXCEPT !["loca"] = l, !["hmtx"] = m], 0), f, {5}) :
                  f \in {[Good EXCEPT !["index_to_loc_format"] = i] : i \in {0, 1}}, l \in 9 .. 25, m \in 9 .. 13}

Base == File(Size, Plain, Good, {1, 2})
MCModules ==
    {<<f>> : f \in Files}
        \cup {<<>>, <<[Base EXCEPT !.named = FALSE]>>, <<[Base EXCEPT !.address = FALSE], Base>>,
              <<[Base EXCEPT !.size = 0], [Base EXCEPT !.scaler = FALSE], Base>>, <<[Base EXCEPT !.cmap = FALSE]>>}
=============================================================================
