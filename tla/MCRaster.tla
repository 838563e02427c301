------------------------------ MODULE MCRaster ------------------------------
(***************************************************************************)
(* Glyphs for Raster: triangles on a grid of three by three whose points   *)
(* are on or off the curve, contours of one and two points, all            *)
(* rectangles, and outlines of two contours; and rectangles under many     *)
(* choices of the vertical metrics of a font.                              *)
(***************************************************************************)
EXTENDS Raster

Grid == {0, 4, 8}
Corners == [x : Grid, y : Grid, on_curve : {TRUE}]
Spots == [x : Grid, y : Grid, on_curve : BOOLEAN]

Triangles == {t \in Spots \X Spots \X Spots : t[1].x = 0 /\ t[1].y # 4 /\ t[2].y # t[1].y /\ t[3].x # t[1].x}
Short == {<<p>> : p \in Spots} \cup (Spots \X Spots)
Rectangle(p, q) ==
    <<p, [x |-> p.x, y |-> q.y, on_curve |-> TRUE], q, [x |-> q.x, y |-> p.y, on_curve |-> TRUE]>>
Turned(ps) == Tail(ps) \o <<Head(ps)>>
Rectangles == {Rectangle(p, q) : p \in Corners, q \in Corners} \cup {Turned(Rectangle(p, q)) : p \in Corners, q \in Corners}
Inner == {<<p, q, r>> \in Spots \X Spots \X Spots : p.x = 0 /\ q.x = 4 /\ r.x = 8 /\ q.y = 4}
Frame == Rectangle([x |-> 0, y |-> 8, on_curve |-> TRUE], [x |-> 8, y |-> 0, on_curve |-> TRUE])

Bounds(ps) == [y_min |-> Lowest({ps[i].y : i \in DOMAIN ps}), y_max |-> Highest({ps[i].y : i \in DOMAIN ps})]

Face(ps, cs, typo, hhea, advance, ascii, others) ==
    [points |-> ps, contours |-> cs, advance_width |-> advance, units_per_em |-> 8,
     typo_ascent |-> typo[1], typo_descent |-> typo[2], typo_line_gap |-> typo[3],
     ascent |-> hhea[1], descent |-> hhea[2], line_gap |-> hhea[3],
     ascii |-> ascii, boxes |-> others \cup (IF ascii THEN {Bounds(ps)} ELSE {})]

Plain(ps, cs) == Face(ps, cs, <<8, 0, 0>>, <<0, 0, 0>>, 8, TRUE, {})

Vertical == {<<0, 0, 0>>, <<6, -2, 0>>, <<3, 0, 3>>, <<2, 4, 1>>, <<5, 1, -3>>}
Others == {{}, {[y_min |-> -5, y_max |-> 9]}}
Tall == {Rectangle([x |-> 0, y |-> a, on_curve |-> TRUE], [x |-> 3, y |-> b, on_curve |-> TRUE]) : a \in {-5, -1, 8}, b \in {-7, 3, 11}}

MCFaces ==
    {Plain(ps, <<Len(ps) - 1>>) : ps \in Triangles \cup Short \cup Rectangles}
        \cup {Plain(Frame \o ps, <<3, 6>>) : ps \in Inner}
        \cup {Face(ps, <<3>>, t, h, a, ascii, o) :
                  ps \in Tall, t \in Vertical, h \in Vertical, a \in {-1, 20}, ascii \in {TRUE}, o \in Others}

(* The same rectangles drawn for characters outside printable ASCII. *)
MCLatinFaces == {Face(ps, <<3>>, <<6, -2, 0>>, <<6, -2, 0>>, 8, FALSE, o) : ps \in Tall, o \in Others}
=============================================================================
