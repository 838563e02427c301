------------------------------- MODULE MCCmap -------------------------------
(***************************************************************************)
(* Instances of Cmap for TLC.  A table is written from a list of subtables *)
(* and each of those from its ranges of characters.                        *)
(***************************************************************************)
EXTENDS Cmap, SequencesExt, FiniteSetsExt

Long(v) == <<v \div 65536, v % 65536>>

(* A range: its first and last character, and either the glyph of the      *)
(* first one or a list of all its glyphs, which is stored less delta.      *)
Run(first, last, glyph, list, delta) ==
    [first |-> first, last |-> last, glyph |-> glyph, list |-> list, delta |-> delta]

Total(ns) == FoldSeq(LAMBDA n, sum : n + sum, 0, ns)

Format4(ranges) ==
    LET n == Len(ranges)
        stored(r) == [k \in DOMAIN r.list |-> IF r.list[k] = 0 THEN 0 ELSE (r.list[k] - r.delta) % 65536]
        before(i) == Total([j \in 1 .. i - 1 |-> Len(ranges[j].list)])
        each(Field(_)) == [i \in 1 .. n |-> Field(i)]
        body == each(LAMBDA i : ranges[i].last) \o <<0>> \o each(LAMBDA i : ranges[i].first)
                \o each(LAMBDA i : IF ranges[i].list = <<>> THEN (ranges[i].glyph - ranges[i].first) % 65536
                                   ELSE ranges[i].delta)
                \o each(LAMBDA i : IF ranges[i].list = <<>> THEN 0 ELSE 2 * (n - i + 1) + 2 * before(i))
                \o FlattenSeq(each(LAMBDA i : stored(ranges[i])))
    IN  <<4, 14 + 2 * Len(body), 0, 2 * n, 0, 0, 0>> \o body

Format12(ranges) ==
    <<12, 0>> \o Long(16 + 12 * Len(ranges)) \o <<0, 0>> \o Long(Len(ranges))
    \o FlattenSeq([i \in DOMAIN ranges |-> Long(ranges[i].first) \o Long(ranges[i].last) \o Long(ranges[i].glyph)])

GlyphOf(ranges, codepoint) ==
    LET hits == {i \in DOMAIN ranges : codepoint \in ranges[i].first .. ranges[i].last}
    IN  IF hits = {} THEN 0
        ELSE LET r == ranges[CHOOSE i \in hits : TRUE]
                 k == codepoint - r.first
             IN  IF r.list = <<>> THEN (IF r.glyph + k > 65535 THEN 0 ELSE r.glyph + k) ELSE r.list[k + 1]

(* A subtable: platform, encoding, format, ranges, and whether its length  *)
(* field says more than there is.                                          *)
Sub(pl, en, fm, ranges, whole) ==
    [platform |-> pl, encoding |-> en, format |-> fm, ranges |-> ranges, whole |-> whole]

SubWords(sub) ==
    LET words == CASE sub.format = 4 -> Format4(sub.ranges)
                   [] sub.format = 12 -> Format12(sub.ranges)
                   [] OTHER -> <<sub.format, 8, 0, 0>>
    IN  IF sub.whole THEN words ELSE [words EXCEPT ![IF sub.format = 12 THEN 4 ELSE 2] = 1000]

Table(subs) ==
    LET words == [i \in DOMAIN subs |-> SubWords(subs[i])]
        at(i) == 4 + 8 * Len(subs) + 2 * Total([j \in 1 .. i - 1 |-> Len(words[j])])
        good == {i \in DOMAIN subs : subs[i].whole /\ subs[i].format \in {4, 12}}
        best == {i \in good : <<subs[i].platform, subs[i].encoding>> \in {<<0, 3>>, <<3, 1>>, <<3, 10>>}}
        chosen == IF best # {} THEN Min(best) ELSE Min(good)
    IN  [words |-> <<0, Len(subs)>>
                   \o FlattenSeq([i \in DOMAIN subs |-> <<subs[i].platform, subs[i].encoding>> \o Long(at(i))])
                   \o FlattenSeq(words),
         chosen |-> IF good = {} THEN None ELSE at(chosen),
         glyphs |-> [c \in Codepoints |-> IF good = {} THEN 0 ELSE GlyphOf(subs[chosen].ranges, c)]]

(* Up to three ranges in order, some adjacent, with glyphs that wrap.      *)
MCRanges ==
    { <<>>, <<Run(1, 3, 5, <<>>, 0)>>, <<Run(2, 2, 1, <<>>, 0), Run(3, 6, 40, <<>>, 0)>>,
      <<Run(0, 4, 9, <<>>, 0), Run(6, 6, 3, <<>>, 0), Run(65535, 65535, 0, <<>>, 0)>> }
MCRanges4 ==
    MCRanges
    \cup { <<Run(1, 3, 0, <<7, 0, 8>>, 0)>>, <<Run(1, 2, 0, <<7, 3>>, 5), Run(4, 6, 0, <<0, 9, 2>>, 65535)>>,
           <<Run(0, 0, 4, <<>>, 0), Run(2, 4, 0, <<6, 5, 4>>, 1), Run(5, 7, 0, <<1, 2, 3>>, 0)>> }
MCRanges12 == MCRanges \cup { <<Run(5, 65540, 1, <<>>, 0)>>, <<Run(3, 5, 65534, <<>>, 0)>> }

MCSubs ==
    {Sub(3, en, 4, ranges, whole) : en \in {0, 1}, ranges \in MCRanges4, whole \in BOOLEAN}
    \cup {Sub(pl, 3, 12, ranges, TRUE) : pl \in {0, 1}, ranges \in MCRanges12}
    \cup {Sub(3, 10, 12, <<Run(2, 2, 1, <<>>, 0)>>, FALSE), Sub(0, 3, 6, <<>>, TRUE)}

(* Every list of two, and tables too short for their count. *)
NoTable(words) == [words |-> words, chosen |-> None, glyphs |-> [c \in Codepoints |-> 0]]
MCCmaps == {Table(subs) : subs \in SeqOf(MCSubs, 2)} \cup {NoTable(<<0>>), NoTable(<<0, 1, 3, 1, 0>>)}
=============================================================================
