------------------------------ MODULE MCGlyph ------------------------------
(***************************************************************************)
(* Instances of Glyph for TLC.  Fonts are written from what their glyphs   *)
(* are meant to be, in every way the format has, and some are cut short.   *)
(***************************************************************************)
EXTENDS Glyph, SequencesExt, FiniteSetsExt

Word(v) == <<(v % 65536) \div 256, v % 256>>
Words(vs) == FlattenSeq([i \in DOMAIN vs |-> Word(vs[i])])
BoxWords(box) == Words(<<box.x_min, box.y_min, box.x_max, box.y_max>>)

(* How a coordinate that differs by d from the one before is written: its  *)
(* bits in the flag (short, same) and its bytes.                           *)
Coordinate(d, style) ==
    IF style = "words" \/ d \notin -255 .. 255 THEN [short |-> 0, same |-> 0, bytes |-> Word(d)]
    ELSE IF d = 0 THEN [short |-> 0, same |-> 1, bytes |-> <<>>]
    ELSE [short |-> 1, same |-> IF d > 0 THEN 1 ELSE 0, bytes |-> <<IF d > 0 THEN d ELSE -d>>]

(* Flags one by one, or the first with a repeat when all are the same,     *)
(* in style "over" one repeat too many.                                    *)
FlagBytes(flagbytes, style) ==
    CASE style = "repeat" /\ Cardinality(ToSet(flagbytes)) = 1 -> <<Head(flagbytes) + 8, Len(flagbytes) - 1>>
      [] style = "over" -> <<Head(flagbytes) + 8, Len(flagbytes)>>
      [] OTHER -> flagbytes

BoxOf(points) ==
    [x_min |-> Min({points[i].x : i \in DOMAIN points}), y_min |-> Min({points[i].y : i \in DOMAIN points}),
     x_max |-> Max({points[i].x : i \in DOMAIN points}), y_max |-> Max({points[i].y : i \in DOMAIN points})]

SimpleBytes(ends, points, style) ==
    LET before(i, f) == IF i = 1 THEN 0 ELSE points[i - 1][f]
        xs == [i \in DOMAIN points |-> Coordinate(points[i].x - before(i, "x"), style)]
        ys == [i \in DOMAIN points |-> Coordinate(points[i].y - before(i, "y"), style)]
        bits == [i \in DOMAIN points |-> (IF points[i].on_curve THEN 1 ELSE 0) + 2 * xs[i].short
                                         + 4 * ys[i].short + 16 * xs[i].same + 32 * ys[i].same]
        bytes(cs) == FlattenSeq([i \in DOMAIN cs |-> cs[i].bytes])
    IN  Word(Len(ends)) \o BoxWords(BoxOf(points)) \o Words(ends)
        \o (IF style = "words" THEN <<0, 1, 64>> ELSE <<0, 0>>)     \* with or without an instruction
        \o FlagBytes(bits, style) \o bytes(xs) \o bytes(ys)

(* parts: the components as [glyph, dx, dy]; a box of its own that may be  *)
(* too small; offsets in bytes or words, with or without a scale.          *)
CompositeBytes(parts, box, style) ==
    LET last(i) == i = Len(parts)
        code(i) == (IF style = "words" THEN 1 ELSE 0) + 2 + (IF style = "repeat" THEN 64 ELSE 0)
                   + (IF last(i) THEN 0 ELSE 32) + (IF last(i) /\ style = "words" THEN 256 ELSE 0)
        part(i) == Words(<<code(i), parts[i].glyph>>)
                   \o (IF style = "words" THEN Words(<<parts[i].dx, parts[i].dy>>)
                       ELSE <<parts[i].dx % 256, parts[i].dy % 256>>)
                   \o (IF style = "repeat" THEN <<64, 0, 64, 0>> ELSE <<>>)
    IN  Word(-1) \o BoxWords(box) \o FlattenSeq([i \in DOMAIN parts |-> part(i)])
        \o (IF style = "words" THEN <<0, 2, 64, 64>> ELSE <<>>)

-----------------------------------------------------------------------------
(* A glyph of a font: a description, the style it is written in, and how   *)
(* many of its bytes are missing.                                          *)

GlyphBytes(g) ==
    LET whole == CASE g.kind = "empty" -> <<>>
                   [] g.kind = "blank" -> Word(0) \o BoxWords(NoBox)
                   [] g.kind = "simple" -> SimpleBytes(g.ends, g.points, g.style)
                   [] g.kind = "composite" -> CompositeBytes(g.parts, g.box, g.style)
    IN  SubSeq(whole, 1, Len(whole) - g.missing)

Even(bytes) == IF Len(bytes) % 2 = 0 THEN bytes ELSE Append(bytes, 0)

RECURSIVE Meaning(_, _, _)
Meaning(glyphs, g, depth) ==
    IF g >= Len(glyphs) \/ depth > MAX_COMPONENT_DEPTH \/ glyphs[g + 1].missing > 0 THEN Refused
    ELSE LET it == glyphs[g + 1]
             empty == [points |-> <<>>, contours |-> <<>>, box |-> NoBox, has_bounds |-> it.kind # "empty",
                       advance_width |-> it.advance]
             parts == [i \in DOMAIN it.parts |-> Meaning(glyphs, it.parts[i].glyph, depth + 1)]
             moved(i) == [p \in DOMAIN parts[i].points |->
                             [parts[i].points[p] EXCEPT !.x = @ + it.parts[i].dx, !.y = @ + it.parts[i].dy]]
             points == FlattenSeq([i \in DOMAIN parts |-> moved(i)])
             before(i) == Len(FlattenSeq([j \in 1 .. i - 1 |-> moved(j)]))
             ends == FlattenSeq([i \in DOMAIN parts |->
                                    [c \in DOMAIN parts[i].contours |-> before(i) + parts[i].contours[c]]])
             boxes(f, d) == {parts[i].box[f] + it.parts[i][d] : i \in {j \in DOMAIN parts : parts[j].has_bounds}}
                            \cup {it.box[f]}
         IN  CASE it.kind \in {"empty", "blank"} -> empty
               [] it.kind = "simple" ->
                     IF Len(it.points) > MAX_GLYPH_POINTS \/ Len(it.ends) > MAX_GLYPH_CONTOURS
                        \/ ~Increasing(it.ends) \/ it.style = "over"
                     THEN Refused
                     ELSE [empty EXCEPT !.points = it.points, !.contours = it.ends, !.box = BoxOf(it.points)]
               [] it.kind = "composite" ->
                     IF (\E i \in DOMAIN parts : parts[i] = Refused) \/ Len(points) > MAX_GLYPH_POINTS
                        \/ Len(ends) > MAX_GLYPH_CONTOURS
                     THEN Refused
                     ELSE [empty EXCEPT !.points = points, !.contours = ends,
                                        !.box = [x_min |-> Min(boxes("x_min", "dx")), x_max |-> Max(boxes("x_max", "dx")),
                                                 y_min |-> Min(boxes("y_min", "dy")), y_max |-> Max(boxes("y_max", "dy"))]]

FontOf(glyphs, long) ==
    LET bytes == [i \in DOMAIN glyphs |-> IF long THEN GlyphBytes(glyphs[i]) ELSE Even(GlyphBytes(glyphs[i]))]
        offset(i) == Len(FlattenSeq([j \in 1 .. i - 1 |-> bytes[j]]))
    IN  [glyf |-> FlattenSeq(bytes), long |-> long,
         loca |-> [i \in 1 .. Len(glyphs) + 1 |-> offset(i) \div (IF long THEN 1 ELSE 2)],
         hmtx |-> [i \in DOMAIN glyphs |-> glyphs[i].advance],
         expected |-> [g \in 0 .. Len(glyphs) |-> Meaning(glyphs, g, 0)]]

-----------------------------------------------------------------------------

Point(x, y, on) == [x |-> x, y |-> y, on_curve |-> on]
Bare == [kind |-> "empty", missing |-> 0, advance |-> 5, parts |-> <<>>, ends |-> <<>>, points |-> <<>>,
         style |-> "bytes", box |-> NoBox]
Simple(ends, points, style) == [Bare EXCEPT !.kind = "simple", !.ends = ends, !.points = points, !.style = style]
Composite(parts, style) ==
    [Bare EXCEPT !.kind = "composite", !.parts = parts, !.style = style, !.box.x_max = 2]

Styles == {"bytes", "words", "repeat"}

(* Simple glyphs of three points in up to three contours, complete or      *)
(* short of one or two bytes; ends out of order; a repeat too many; more   *)
(* points or contours than there is room for; a header cut short.          *)
MCPoints == {Point(0, 0, TRUE), Point(-3, 300, FALSE), Point(200, -3, TRUE)}
Diagonal(n) == [i \in 1 .. n |-> Point(i, i, TRUE)]
MCSimpleFonts ==
    {FontOf(<<[Simple(ends, points, style) EXCEPT !.missing = missing]>>, TRUE) :
        style \in Styles, missing \in 0 .. 2,
        ends \in {<<2>>, <<0, 2>>, <<0, 1, 2>>, <<1, 1, 2>>}, points \in [1 .. 3 -> MCPoints]}
    \cup {FontOf(<<Simple(<<n - 1>>, Diagonal(n), style)>>, TRUE) : n \in 4 .. 6, style \in Styles \cup {"over"}}
    \cup {FontOf(<<Simple([i \in 1 .. n |-> i - 1], Diagonal(n), "bytes")>>, TRUE) : n \in 4 .. 5}
    \cup {FontOf(<<[Bare EXCEPT !.kind = "blank", !.missing = missing]>>, TRUE) : missing \in 1 .. 9}

(* Two composite glyphs that refer to each other, to themselves, to a      *)
(* simple, a blank, an empty and to no glyph at all, complete or without   *)
(* their last two bytes.                                                   *)
Part(g, dx, dy) == [glyph |-> g, dx |-> dx, dy |-> dy]
MCParts == {Part(0, 0, 0), Part(1, 0, 0), Part(2, -3, 4), Part(3, 1, 0), Part(4, 100, -100), Part(5, 0, 0)}
MCLists == {parts \in SeqOf(MCParts, 2) : parts # <<>>}
MCFirst == {<<Part(2, -3, 4)>>, <<Part(2, 0, 1), Part(2, -3, 4)>>, <<Part(0, 0, 0), Part(4, 0, 0)>>, <<Part(4, 1, 1)>>,
            <<Part(1, 7, 7), Part(2, 0, 0)>>}
MCCompositeFont(first, second, style, missing) ==
    FontOf(<<Bare, [Bare EXCEPT !.kind = "blank"],
             Simple(<<0, 1>>, <<Point(1, 2, TRUE), Point(4, 0, FALSE)>>, "bytes"),
             Composite(first, style), [Composite(second, style) EXCEPT !.missing = missing]>>, FALSE)
MCCompositeFonts ==
    {MCCompositeFont(first, second, style, 0) : first \in MCFirst, second \in MCLists, style \in Styles}
    \cup {MCCompositeFont(<<Part(2, 0, 0)>>, second, style, 2) : second \in MCLists, style \in Styles}

MCFonts == MCSimpleFonts \cup MCCompositeFonts
=============================================================================
