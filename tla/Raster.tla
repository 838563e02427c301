------------------------------- MODULE Raster -------------------------------
(***************************************************************************)
(* Drawing a glyph into its terminal cell (drivers/font_ttf.c, from        *)
(* scale_design to scale_outline_to_cell): the line box of the font, the   *)
(* outline scaled into the cell, its contours cut into straight edges, and *)
(* the coverage of a pixel counted at sixteen sample points.               *)
(*                                                                         *)
(* One step is one turn of the loop of contour_to_edges.                   *)
(***************************************************************************)
EXTENDS Integers, Sequences, FiniteSets, SequencesExt

CONSTANTS
    XBKS_TTY_FONT_WIDTH,    \* 13
    XBKS_TTY_FONT_HEIGHT,   \* 28
    MAX_RASTER_EDGES,       \* 768
    Faces                   \* a font's vertical metrics and boxes, and a glyph to draw

VARIABLES
    face,
    at,         \* "metrics", "scale", "contour", "points", "drawn", "failed"
    metrics,    \* scale, design_top, design_span and origin_y
    points,     \* scaled points
    contour,    \* number of finished contours
    index,      \* next point of the contour, from 1
    first, current,
    edges

vars == <<face, at, metrics, points, contour, index, first, current, edges>>

(* The quotient of C, for a divisor above 0. *)
Quotient(a, b) == IF a >= 0 THEN a \div b ELSE -((-a) \div b)

-----------------------------------------------------------------------------
(* The line box.                                                           *)

scale_design(value, scale, units) ==
    IF value >= 0 THEN (value * scale + units \div 2) \div units
    ELSE -((-value * scale + units \div 2) \div units)

positive_or_default(value, fallback) == IF value > 0 THEN value ELSE fallback

Or(value, fallback) == IF value # 0 THEN value ELSE fallback

(* Typographic metrics, else those of hhea, else the em square. *)
DesignBox ==
    LET typo == [top |-> Or(face.typo_ascent, face.ascent), bottom |-> Or(face.typo_descent, face.descent),
                 gap |-> Or(face.typo_line_gap, face.line_gap)]
        hhea == [top |-> face.ascent, bottom |-> face.descent, gap |-> face.line_gap]
    IN  IF typo.top > typo.bottom THEN typo
        ELSE IF hhea.top > hhea.bottom THEN hhea
        ELSE [top |-> face.units_per_em, bottom |-> 0, gap |-> 0]

Lowest(ns) == CHOOSE n \in ns : \A m \in ns : n <= m
Highest(ns) == CHOOSE n \in ns : \A m \in ns : n >= m

(* Mutant: glyphs that reach below the line box do not widen it. *)
include_outline_bounds_NoDescent(box) ==
    [min_y |-> box.bottom, max_y |-> Highest({box.top} \cup {b.y_max : b \in face.boxes})]
(* The boxes of the printable ASCII glyphs that have points. *)
include_outline_bounds(box) ==
    [min_y |-> Lowest({box.bottom} \cup {b.y_min : b \in face.boxes}),
     max_y |-> Highest({box.top} \cup {b.y_max : b \in face.boxes})]

build_font_metrics ==
    /\ at = "metrics"
    /\ LET box == DesignBox
           bounds == include_outline_bounds(box)
           gap == positive_or_default(box.gap, 0)
           target_height == XBKS_TTY_FONT_HEIGHT - 4
       IN  IF bounds.max_y <= bounds.min_y
           THEN at' = "failed" /\ UNCHANGED metrics
           ELSE /\ at' = "scale"
                /\ metrics' = [scale |-> target_height,
                               design_top |-> bounds.max_y + gap \div 2,
                               design_span |-> bounds.max_y - bounds.min_y + gap,
                               origin_y |-> (XBKS_TTY_FONT_HEIGHT - target_height) \div 2]
    /\ UNCHANGED <<face, points, contour, index, first, current, edges>>

-----------------------------------------------------------------------------
(* The outline in the cell, in sixteenths of a pixel.                      *)

ToCell(value) == scale_design(value, metrics.scale, metrics.design_span)

glyph_width ==
    LET advance == IF face.advance_width > 0 THEN face.advance_width ELSE face.units_per_em \div 2
        width == positive_or_default(ToCell(advance), 1)
    IN  Lowest({width, XBKS_TTY_FONT_WIDTH - 1})

offset_x == (XBKS_TTY_FONT_WIDTH - glyph_width) \div 2

scale_point(point) ==
    [x |-> 16 * (offset_x + ToCell(point.x)),
     y |-> 16 * (metrics.origin_y + ToCell(metrics.design_top - point.y)),
     on_curve |-> point.on_curve]

scale_outline_to_cell ==
    /\ at = "scale"
    /\ points' = [i \in DOMAIN face.points |-> scale_point(face.points[i])]
    /\ at' = "contour"
    /\ UNCHANGED <<face, metrics, contour, index, first, current, edges>>

-----------------------------------------------------------------------------
(* Contours to edges.                                                      *)

point_midpoint(lhs, rhs) ==
    [x |-> Quotient(lhs.x + rhs.x, 2), y |-> Quotient(lhs.y + rhs.y, 2), on_curve |-> TRUE]

Edge(from, to) == [x0 |-> from.x, y0 |-> from.y, x1 |-> to.x, y1 |-> to.y]

(* add_edge for each of a list of edges, horizontal ones left out. *)
Sloped(list) == SelectSeq(list, LAMBDA edge : edge.y0 # edge.y1)
add_edges(list) == edges' = edges \o Sloped(list)
(* Mutant: room is looked for before a curve, not before each of its steps. *)
Fits_Once(list) == Sloped(list) # <<>> => Len(edges) < MAX_RASTER_EDGES
(* The edges added before the one that does not fit go unused: the glyph   *)
(* is given up.                                                            *)
Fits(list) == Len(edges) + Len(Sloped(list)) <= MAX_RASTER_EDGES

STEPS == 8

(* Mutant: the last step is left out. *)
add_quadratic_Short(p0, p1, p2) ==
    LET on(p, q, r, t) == Quotient((STEPS - t) * (STEPS - t) * p + 2 * (STEPS - t) * t * q + t * t * r, STEPS * STEPS)
        spot(t) == [x |-> on(p0.x, p1.x, p2.x, t), y |-> on(p0.y, p1.y, p2.y, t)]
    IN  [t \in 1 .. STEPS - 1 |-> Edge(spot(t - 1), spot(t))]
(* A curve from p0 to p2 in straight steps. *)
add_quadratic(p0, p1, p2) ==
    LET on(p, q, r, t) == Quotient((STEPS - t) * (STEPS - t) * p + 2 * (STEPS - t) * t * q + t * t * r, STEPS * STEPS)
        spot(t) == [x |-> on(p0.x, p1.x, p2.x, t), y |-> on(p0.y, p1.y, p2.y, t)]
    IN  [t \in 1 .. STEPS |-> Edge(spot(t - 1), spot(t))]

(* Points of the contour at hand, counted from 1. *)
start == IF contour = 0 THEN 1 ELSE face.contours[contour] + 2
end == face.contours[contour + 1] + 1

(* Mutant: a contour that starts off the curve starts there all the same. *)
contour_first_Off(from, to) == from
contour_first(from, to) ==
    IF from.on_curve THEN from
    ELSE IF to.on_curve THEN to ELSE point_midpoint(to, from)

(* Mutant: a contour is left open. *)
closing_Open(from, to) == <<>>
closing(from, to) == <<Edge(from, to)>>

(* Mutant: a contour may not reach the last point. *)
out_of_points_Early(from, to) == from > to \/ to >= Len(points)
out_of_points(from, to) == from > to \/ to > Len(points)

(* outline_edges begins a contour, or is done. *)
outline_edges ==
    /\ at = "contour"
    /\ \/ /\ contour = Len(face.contours)
          /\ at' = "drawn"
          /\ UNCHANGED <<index, first, current>>
       \/ /\ contour < Len(face.contours)
          /\ IF out_of_points(start, end)
             THEN at' = "failed" /\ UNCHANGED <<index, first, current>>
             ELSE /\ at' = "points"
                  /\ index' = start
                  /\ first' = contour_first(points[start], points[end])
                  /\ current' = first'
    /\ UNCHANGED <<face, metrics, points, contour, edges>>

(* Mutant: before another point off the curve the index stays. *)
points_used_None(following) == IF following.on_curve THEN 2 ELSE 0
(* Points a curve takes: the one it ends at too, when that is on the curve. *)
points_used(following) == IF following.on_curve THEN 2 ELSE 1

(* The next point of the contour, or the edge that closes it. *)
contour_to_edges ==
    /\ at = "points"
    /\ LET control == points[index]
           following == points[start + ((index - start + 1) % (end - start + 1))]
           next == IF following.on_curve THEN following ELSE point_midpoint(control, following)
           add(list, point, count) ==
               IF Fits(list) THEN /\ add_edges(list) /\ current' = point /\ index' = index + count
                                  /\ UNCHANGED <<at, contour>>
               ELSE at' = "failed" /\ UNCHANGED <<edges, current, index, contour>>
       IN  \/ /\ index <= end /\ control.on_curve
              /\ add(<<Edge(current, control)>>, control, 1)
           \/ /\ index <= end /\ ~control.on_curve
              /\ add(add_quadratic(current, control, next), next, points_used(following))
           \/ /\ index > end
              /\ IF Fits(closing(current, first))
                 THEN add_edges(closing(current, first)) /\ at' = "contour" /\ contour' = contour + 1
                 ELSE at' = "failed" /\ UNCHANGED <<edges, contour>>
              /\ UNCHANGED <<current, index>>
    /\ UNCHANGED <<face, metrics, points, first>>

-----------------------------------------------------------------------------
(* Pixels.                                                                 *)

(* Where an edge crosses the height y, from its upper end. *)
Upper(edge) == IF edge.y0 > edge.y1 THEN [x0 |-> edge.x1, y0 |-> edge.y1, x1 |-> edge.x0, y1 |-> edge.y0] ELSE edge
intersection(edge, y) == LET e == Upper(edge) IN e.x0 + Quotient((y - e.y0) * (e.x1 - e.x0), e.y1 - e.y0)

(* Mutant: both ends of an edge belong to it. *)
Crosses_Closed(edge, y) == Upper(edge).y0 <= y /\ y <= Upper(edge).y1
Crosses(edge, y) == Upper(edge).y0 <= y /\ y < Upper(edge).y1

point_inside_outline(x, y) ==
    Cardinality({i \in DOMAIN edges : Crosses(edges[i], y) /\ x >= intersection(edges[i], y)}) % 2 = 1

Samples == {2, 6, 10, 14}

rasterize_coverage(x, y) ==
    LET covered == Cardinality({s \in Samples \X Samples : point_inside_outline(16 * x + s[1], 16 * y + s[2])})
    IN  (covered * 255 + 8) \div 16

-----------------------------------------------------------------------------

Init ==
    /\ face \in Faces
    /\ at = "metrics"
    /\ metrics = [scale |-> 0, design_top |-> 0, design_span |-> 0, origin_y |-> 0]
    /\ points = <<>> /\ edges = <<>>
    /\ contour = 0 /\ index = 1
    /\ first = [x |-> 0, y |-> 0, on_curve |-> TRUE] /\ current = first

Next == build_font_metrics \/ scale_outline_to_cell \/ outline_edges \/ contour_to_edges

Spec == Init /\ [][Next]_vars /\ WF_vars(Next)

-----------------------------------------------------------------------------
(* Properties.                                                             *)

(* Types, the room of the array of edges, and points that exist. *)
EdgesFit ==
    /\ at \in {"metrics", "scale", "contour", "points", "drawn", "failed"}
    /\ contour \in 0 .. Len(face.contours)
    /\ Len(edges) <= MAX_RASTER_EDGES
    /\ \A i \in DOMAIN edges : edges[i].y0 # edges[i].y1
    /\ at = "points" => index \in start .. end + 2

(* The contours of a drawn glyph are closed: every height is crossed an    *)
(* even number of times, so the even-odd rule finds nothing inside beyond  *)
(* the last edge (contour_to_edges, add_quadratic).                        *)
Heights == -16 .. 16 * XBKS_TTY_FONT_HEIGHT + 16
EvenCrossings ==
    at = "drawn" => \A y \in {h \in Heights : h % 4 = 2} :
                        Cardinality({i \in DOMAIN edges : Crosses(edges[i], y)}) % 2 = 0

(* No pixel outside the box of the points gets ink: a curve stays within   *)
(* its control points and rounding does not leave it (rasterize_coverage). *)
InkInsideBox ==
    at = "drawn" =>
        \A x \in 0 .. XBKS_TTY_FONT_WIDTH - 1, y \in 0 .. XBKS_TTY_FONT_HEIGHT - 1 :
            (\/ \A i \in DOMAIN points : points[i].x >= 16 * (x + 1)
             \/ \A i \in DOMAIN points : points[i].x <= 16 * x
             \/ \A i \in DOMAIN points : points[i].y >= 16 * (y + 1)
             \/ \A i \in DOMAIN points : points[i].y <= 16 * y)
            => rasterize_coverage(x, y) = 0

(* A rectangle is filled exactly: a pixel is opaque when it lies in it and *)
(* blank when it does not.  Scaled corners lie on pixel boundaries.        *)
IsRectangle ==
    /\ Len(points) = 4 /\ Len(face.contours) = 1
    /\ \A i \in 1 .. 4 : points[i].on_curve
    /\ \/ points[1].x = points[2].x /\ points[2].y = points[3].y /\ points[3].x = points[4].x /\ points[4].y = points[1].y
       \/ points[1].y = points[2].y /\ points[2].x = points[3].x /\ points[3].y = points[4].y /\ points[4].x = points[1].x
FillsRectangles ==
    at = "drawn" /\ IsRectangle =>
        LET xs == {points[i].x : i \in 1 .. 4}
            ys == {points[i].y : i \in 1 .. 4}
        IN  \A x \in 0 .. XBKS_TTY_FONT_WIDTH - 1, y \in 0 .. XBKS_TTY_FONT_HEIGHT - 1 :
                rasterize_coverage(x, y) =
                    IF 16 * x \in Lowest(xs) .. Highest(xs) - 1 /\ 16 * y \in Lowest(ys) .. Highest(ys) - 1
                    THEN 255 ELSE 0

(* The edges are those of the outline whatever point a contour starts at:  *)
(* between two points on the curve a line, around each point off it a      *)
(* curve from the point before, or the middle of the way to it, to the     *)
(* point after, or the middle of the way there (contour_to_edges).         *)
Piece(c, i) ==
    LET low == IF c = 1 THEN 1 ELSE face.contours[c - 1] + 2
        high == face.contours[c] + 1
        before == points[IF i = low THEN high ELSE i - 1]
        after == points[IF i = high THEN low ELSE i + 1]
        here == points[i]
        Joint(p) == IF p.on_curve THEN p ELSE point_midpoint(p, here)
    IN  IF i \notin low .. high THEN <<>>
        ELSE IF ~here.on_curve THEN add_quadratic(Joint(before), here, Joint(after))
        ELSE IF after.on_curve THEN <<Edge(here, after)>> ELSE <<>>
OutlinePieces ==
    FlattenSeq([c \in DOMAIN face.contours |-> FlattenSeq([i \in DOMAIN points |-> Sloped(Piece(c, i))])])
DrawsOutline ==
    at = "drawn" =>
        LET pieces == OutlinePieces
            Count(list, e) == Cardinality({i \in DOMAIN list : list[i] = e})
        IN  \A e \in ToSet(edges) \cup ToSet(pieces) : Count(edges, e) = Count(pieces, e)

(* A glyph whose box was taken into the line box is not cropped at the top *)
(* or the bottom of its cell (build_font_metrics, scale_outline_to_cell).  *)
NotCropped == \A i \in DOMAIN points : points[i].y \in 0 .. 16 * XBKS_TTY_FONT_HEIGHT
AsciiNotCropped == face.ascii => NotCropped

(* A glyph of a font that was accepted is given up for want of room for    *)
(* its edges and for no other reason: there is always a line box, and the  *)
(* contours of an outline are never out of its points.                     *)
GivenUpForRoom == at = "failed" => Len(edges) + STEPS > MAX_RASTER_EDGES

(* The edges of a glyph are those of its closed outline, or there was no   *)
(* room for them.                                                          *)
OutlineDrawn == EdgesFit /\ EvenCrossings /\ DrawsOutline /\ GivenUpForRoom

(* Ink is where the outline is: nowhere outside its box, everywhere inside *)
(* a rectangle, and not cut off at the top or the bottom of the cell when  *)
(* the character is an ASCII one.                                          *)
PixelsInked == InkInsideBox /\ FillsRectangles /\ AsciiNotCropped

(* Drawing comes to an end. *)
DrawEnds == <>(at \in {"drawn", "failed"})
=============================================================================
