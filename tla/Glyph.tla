------------------------------- MODULE Glyph -------------------------------
(***************************************************************************)
(* Reading a glyph of a TrueType font (drivers/font_ttf.c, from            *)
(* glyph_bounds to load_glyph_outline): the bytes of the glyf table are    *)
(* decoded into points, contours and a bounding box; a composite glyph     *)
(* calls the same function for each of its components.                     *)
(*                                                                         *)
(* One step is one turn of a loop of the code.  stack holds a frame per    *)
(* call of load_glyph_outline; when a call fails each of its callers       *)
(* fails at once, so a failure ends them all in one step.                  *)
(***************************************************************************)
EXTENDS Integers, Sequences

CONSTANTS
    MAX_GLYPH_POINTS,       \* 384
    MAX_GLYPH_CONTOURS,     \* 64
    MAX_COMPONENT_DEPTH,    \* 8
    Fonts,                  \* fonts parse_ttf accepts, with what their glyphs mean
    None, Refused

VARIABLES
    font,       \* tables glyf (bytes), loca and hmtx (entries), and long, the loca format
    asked,      \* the glyph the caller wants
    stack,      \* the active calls, the innermost last
    result      \* None, Refused or an outline

vars == <<font, asked, stack, result>>

-----------------------------------------------------------------------------
(* Bytes.                                                                  *)

(* Mutant: one byte too many. *)
range_is_valid_Loose(size, offset, length) == offset <= size /\ length <= size - offset + 1
range_is_valid(size, offset, length) == offset <= size /\ length <= size - offset

(* The two's complement reading of the low width bits. *)
Signed(value, width) ==
    LET low == value % 2^width
    IN  IF low >= 2^(width - 1) THEN low - 2^width ELSE low
Bit(flags, k) == (flags \div 2^k) % 2 = 1

Top == stack[Len(stack)]
num_glyphs == Len(font.loca) - 1

(* Byte k of the glyph of the innermost call.  What lies behind the table  *)
(* is taken to be 0; ReadsInside says that it is never read.               *)
Byte(k) == IF Top.start + k < Len(font.glyf) THEN font.glyf[Top.start + k + 1] ELSE 0
read_u16(k) == 256 * Byte(k) + Byte(k + 1)
read_s16(k) == Signed(read_u16(k), 16)

glyph_advance(glyph) ==
    Signed(font.hmtx[IF glyph < Len(font.hmtx) THEN glyph + 1 ELSE Len(font.hmtx)], 16)

(* First byte of a glyph and the one after its last. *)
glyph_start(glyph) == font.loca[glyph + 1] * (IF font.long THEN 1 ELSE 2)
glyph_end(glyph) == font.loca[glyph + 2] * (IF font.long THEN 1 ELSE 2)
glyph_bounds(glyph) ==
    /\ glyph < num_glyphs
    /\ glyph_end(glyph) >= glyph_start(glyph)
    /\ range_is_valid(Len(font.glyf), glyph_start(glyph), glyph_end(glyph) - glyph_start(glyph))

-----------------------------------------------------------------------------
(* Calls and returns.                                                      *)

NoBox == [x_min |-> 0, y_min |-> 0, x_max |-> 0, y_max |-> 0]
HeaderBox == [x_min |-> read_s16(2), y_min |-> read_s16(4), x_max |-> read_s16(6), y_max |-> read_s16(8)]

Outline(glyph) == [points |-> <<>>, contours |-> <<>>, box |-> NoBox, has_bounds |-> FALSE,
                   advance_width |-> glyph_advance(glyph)]

Frame(glyph) == [glyph |-> glyph, at |-> "enter", start |-> 0, size |-> 0, cursor |-> 0,
                 count |-> 0, done |-> 0, ends |-> <<>>, flags |-> <<>>, outline |-> Outline(glyph),
                 part |-> None, component |-> None]

Continue(frame) ==
    /\ stack' = [stack EXCEPT ![Len(stack)] = frame]
    /\ UNCHANGED <<font, asked, result>>

Fail ==
    /\ stack' = <<>>
    /\ result' = Refused
    /\ UNCHANGED <<font, asked>>

Return(outline) ==
    /\ UNCHANGED <<font, asked>>
    /\ LET callers == SubSeq(stack, 1, Len(stack) - 1)
       IN  IF callers = <<>>
           THEN stack' = <<>> /\ result' = outline
           ELSE /\ stack' = [callers EXCEPT ![Len(callers)].at = "append", ![Len(callers)].component = outline]
                /\ UNCHANGED result

(* Mutant: the depth is not looked at. *)
TooDeep_Never == FALSE
TooDeep == Len(stack) - 1 > MAX_COMPONENT_DEPTH

load_glyph_outline ==
    /\ stack # <<>> /\ Top.at = "enter"
    /\ LET glyph == Top.glyph
           frame == [Top EXCEPT !.start = glyph_start(glyph), !.size = glyph_end(glyph) - glyph_start(glyph)]
       IN  \/ (TooDeep \/ ~glyph_bounds(glyph)) /\ Fail
           \/ /\ ~TooDeep /\ glyph_bounds(glyph)
              /\ \/ frame.size = 0 /\ Return(Top.outline)
                 \/ frame.size \in 1 .. 9 /\ Fail
                 \/ frame.size >= 10 /\ Continue([frame EXCEPT !.at = "header", !.cursor = 10])

-----------------------------------------------------------------------------
(* A simple glyph: ends of contours, flags, then x and y of every point.   *)

EndPoints(count) == [i \in 1 .. count |-> read_u16(10 + 2 * (i - 1))]
Increasing(ends) == \A i \in 2 .. Len(ends) : ends[i] > ends[i - 1]

load_simple_outline ==
    /\ stack # <<>> /\ Top.at = "header" /\ read_s16(0) >= 0
    /\ LET count == read_s16(0)
           bounded == [Top.outline EXCEPT !.box = HeaderBox, !.has_bounds = TRUE]
           ends == EndPoints(count)
           points == ends[count] + 1
           cursor == 10 + 2 * count
       IN  \/ count > MAX_GLYPH_CONTOURS /\ Fail
           \/ count = 0 /\ Return(bounded)
           \/ /\ count \in 1 .. MAX_GLYPH_CONTOURS
              /\ IF /\ range_is_valid(Top.size, 10, 2 * count)
                    /\ Increasing(ends)
                    /\ points <= MAX_GLYPH_POINTS
                    /\ range_is_valid(Top.size, cursor, 2)
                    /\ range_is_valid(Top.size, cursor + 2, read_u16(cursor))
                 THEN Continue([Top EXCEPT !.at = "flags", !.outline = bounded, !.ends = ends,
                                           !.count = points, !.cursor = cursor + 2 + read_u16(cursor)])
                 ELSE Fail

(* Mutant: a repeat may run past the last point. *)
flag_repeats_Over(repeat) == TRUE
(* The copies of a flag must not run past the last point. *)
flag_repeats(repeat) == Len(Top.flags) + 1 + repeat <= Top.count

simple_flags ==
    /\ stack # <<>> /\ Top.at = "flags"
    /\ LET flag == Byte(Top.cursor)
           repeat == Byte(Top.cursor + 1)
           store(copies, cursor) ==
               LET flags == Top.flags \o [i \in 1 .. copies |-> flag]
               IN  Continue([Top EXCEPT !.flags = flags, !.cursor = cursor,
                                        !.at = IF Len(flags) < Top.count THEN "flags" ELSE "x"])
       IN  \/ ~range_is_valid(Top.size, Top.cursor, 1) /\ Fail
           \/ /\ range_is_valid(Top.size, Top.cursor, 1)
              /\ \/ ~Bit(flag, 3) /\ store(1, Top.cursor + 1)
                 \/ /\ Bit(flag, 3)
                    /\ IF range_is_valid(Top.size, Top.cursor + 1, 1) /\ flag_repeats(repeat)
                       THEN store(1 + repeat, Top.cursor + 2) ELSE Fail

(* Bytes a coordinate takes: short, the same as before, or a word. *)
delta_size(flag, short, same) == IF Bit(flag, short) THEN 1 ELSE IF Bit(flag, same) THEN 0 ELSE 2
delta(flag, short, same) ==
    CASE delta_size(flag, short, same) = 0 -> 0
      [] delta_size(flag, short, same) = 1 -> IF Bit(flag, same) THEN Byte(Top.cursor) ELSE -Byte(Top.cursor)
      [] delta_size(flag, short, same) = 2 -> read_s16(Top.cursor)

Before(seq, field) == IF seq = <<>> THEN 0 ELSE seq[Len(seq)][field]

simple_x ==
    /\ stack # <<>> /\ Top.at = "x"
    /\ LET points == Top.outline.points
           flag == Top.flags[Len(points) + 1]
           point == [x |-> Before(points, "x") + delta(flag, 1, 4), y |-> 0, on_curve |-> FALSE]
       IN  IF range_is_valid(Top.size, Top.cursor, delta_size(flag, 1, 4))
           THEN Continue([Top EXCEPT !.cursor = @ + delta_size(flag, 1, 4),
                                     !.outline.points = Append(@, point),
                                     !.at = IF Len(points) + 1 < Top.count THEN "x" ELSE "y"])
           ELSE Fail

simple_y ==
    /\ stack # <<>> /\ Top.at = "y"
    /\ LET i == Top.done + 1
           flag == Top.flags[i]
           y == Before(SubSeq(Top.outline.points, 1, Top.done), "y") + delta(flag, 2, 5)
           outline == [Top.outline EXCEPT !.points[i].y = y, !.points[i].on_curve = Bit(flag, 0)]
       IN  IF ~range_is_valid(Top.size, Top.cursor, delta_size(flag, 2, 5)) THEN Fail
           ELSE IF i < Top.count
                THEN Continue([Top EXCEPT !.cursor = @ + delta_size(flag, 2, 5), !.done = i, !.outline = outline])
                ELSE Return([outline EXCEPT !.contours = Top.ends])

-----------------------------------------------------------------------------
(* A composite glyph: for every component a call, then append_outline.     *)

Least(a, b) == IF a < b THEN a ELSE b
Greatest(a, b) == IF a > b THEN a ELSE b

(* Mutant: the box of the component is taken where it stands. *)
append_box_Unmoved(dest, src, dx, dy) ==
    [x_min |-> Least(dest.x_min, src.x_min), x_max |-> Greatest(dest.x_max, src.x_max),
     y_min |-> Least(dest.y_min, src.y_min), y_max |-> Greatest(dest.y_max, src.y_max)]
append_box(dest, src, dx, dy) ==
    [x_min |-> IF src.x_min + dx < dest.x_min THEN Signed(src.x_min + dx, 16) ELSE dest.x_min,
     x_max |-> IF src.x_max + dx > dest.x_max THEN Signed(src.x_max + dx, 16) ELSE dest.x_max,
     y_min |-> IF src.y_min + dy < dest.y_min THEN Signed(src.y_min + dy, 16) ELSE dest.y_min,
     y_max |-> IF src.y_max + dy > dest.y_max THEN Signed(src.y_max + dy, 16) ELSE dest.y_max]

(* Mutant: the ends of the component's contours are copied as they are. *)
append_contours_Plain(dest, src) == dest.contours \o src.contours
append_contours(dest, src) ==
    dest.contours \o [i \in DOMAIN src.contours |-> (Len(dest.points) + src.contours[i]) % 65536]

(* Mutant: the points of the component alone are counted. *)
append_fits_Alone(dest, src) ==
    Len(src.points) <= MAX_GLYPH_POINTS /\ Len(src.contours) <= MAX_GLYPH_CONTOURS
append_fits(dest, src) ==
    /\ Len(dest.points) + Len(src.points) <= MAX_GLYPH_POINTS
    /\ Len(dest.contours) + Len(src.contours) <= MAX_GLYPH_CONTOURS

(* A composite has its own box before anything is appended to it. *)
append_outline(dest, src, dx, dy) ==
    [dest EXCEPT !.points = @ \o [i \in DOMAIN src.points |->
                                      [src.points[i] EXCEPT !.x = @ + dx, !.y = @ + dy]],
                 !.contours = append_contours(dest, src),
                 !.box = IF src.has_bounds THEN append_box(@, src.box, dx, dy) ELSE @]

(* Fields of the component at the cursor. *)
flags == read_u16(Top.cursor)
arguments_size == IF Bit(flags, 0) THEN 4 ELSE 2
scale_size == IF Bit(flags, 3) THEN 2 ELSE IF Bit(flags, 6) THEN 4 ELSE IF Bit(flags, 7) THEN 8 ELSE 0
(* Mutant: the cursor stays at the component. *)
component_size_Stuck == 0
component_size == 4 + arguments_size + scale_size
argument(k) ==
    IF Bit(flags, 0) THEN read_s16(Top.cursor + 2 + 2 * k) ELSE Signed(Byte(Top.cursor + 3 + k), 8)

(* Reads a component, whose scale is passed over, and calls for it. *)
load_composite_outline ==
    /\ stack # <<>>
    /\ Top.at = "component" \/ (Top.at = "header" /\ read_s16(0) < 0)
    /\ LET outline == IF Top.at = "component" THEN Top.outline
                      ELSE [Top.outline EXCEPT !.box = HeaderBox, !.has_bounds = TRUE]
           moved == Bit(flags, 1)
           frame == [Top EXCEPT !.at = "call", !.outline = outline, !.cursor = @ + component_size,
                                !.part = [flags |-> flags, dx |-> IF moved THEN argument(1) ELSE 0,
                                                           dy |-> IF moved THEN argument(2) ELSE 0]]
       IN  IF range_is_valid(Top.size, Top.cursor, 4) /\ range_is_valid(Top.size, Top.cursor, component_size)
           THEN /\ stack' = Append([stack EXCEPT ![Len(stack)] = frame], Frame(read_u16(Top.cursor + 2)))
                /\ UNCHANGED <<font, asked, result>>
           ELSE Fail

(* The component is back: append it, then the next one or the end. *)
composite_append ==
    /\ stack # <<>> /\ Top.at = "append"
    /\ LET outline == append_outline(Top.outline, Top.component, Top.part.dx, Top.part.dy)
           instructed == Bit(Top.part.flags, 8)
       IN  \/ ~append_fits(Top.outline, Top.component) /\ Fail
           \/ /\ append_fits(Top.outline, Top.component)
              /\ \/ /\ Bit(Top.part.flags, 5)
                    /\ Continue([Top EXCEPT !.at = "component", !.outline = outline, !.component = None])
                 \/ /\ ~Bit(Top.part.flags, 5)
                    /\ IF \/ ~instructed
                          \/ /\ range_is_valid(Top.size, Top.cursor, 2)
                             /\ range_is_valid(Top.size, Top.cursor + 2, read_u16(Top.cursor))
                       THEN Return(outline) ELSE Fail

-----------------------------------------------------------------------------

Init ==
    /\ font \in Fonts
    /\ asked \in 0 .. num_glyphs
    /\ stack = <<Frame(asked)>>
    /\ result = None

Next ==
    \/ load_glyph_outline
    \/ load_simple_outline \/ simple_flags \/ simple_x \/ simple_y
    \/ load_composite_outline \/ composite_append

Spec == Init /\ [][Next]_vars /\ WF_vars(Next)

-----------------------------------------------------------------------------
(* Properties.                                                             *)

IsOutline(outline) ==
    /\ Len(outline.points) <= MAX_GLYPH_POINTS
    /\ Len(outline.contours) <= MAX_GLYPH_CONTOURS

(* The calls and what they have built so far; in particular every array of *)
(* the code has room and no more calls are active than MAX_COMPONENT_DEPTH *)
(* allows, one refused call included.                                      *)
ArraysHold ==
    /\ asked \in 0 .. num_glyphs
    /\ Len(stack) <= MAX_COMPONENT_DEPTH + 2
    /\ \A k \in DOMAIN stack :
          /\ stack[k].at \in {"enter", "header", "flags", "x", "y", "component", "call", "append"}
          /\ Len(stack[k].flags) <= MAX_GLYPH_POINTS /\ Len(stack[k].ends) <= MAX_GLYPH_CONTOURS
          /\ IsOutline(stack[k].outline)
    /\ result \in {None, Refused} \/ IsOutline(result)

(* Whatever the counts, repeats and lengths in a glyph say, only bytes of  *)
(* that glyph are read, and the glyph lies in its table (range_is_valid    *)
(* and the cursors of load_simple_outline and load_composite_outline).     *)
ReadsInside ==
    \A k \in DOMAIN stack :
        stack[k].at # "enter" => /\ stack[k].cursor <= stack[k].size
                                 /\ stack[k].start + stack[k].size <= Len(font.glyf)

(* A glyph is decoded to the points, contours, box and advance the font    *)
(* was made from, components moved and one after the other; it is refused  *)
(* when it is cut short, too deep, cyclic or too large.                    *)
DecodesGlyph == result # None => result = font.expected[asked]

(* What contour_to_edges relies on: the contours of an outline divide its  *)
(* points, none is empty, and no point is left over.                       *)
ContoursDividePoints ==
    result \notin {None, Refused} =>
        LET ends == result.contours
        IN  /\ Increasing(ends)
            /\ ends # <<>> => ends[1] >= 0 /\ ends[Len(ends)] = Len(result.points) - 1
            /\ ends = <<>> => result.points = <<>>

(* Every glyph of a font, well made or not, is decoded to what it was made *)
(* from or refused, without a read outside it or an array overrun.         *)
GlyphDecoded == ArraysHold /\ ReadsInside /\ DecodesGlyph /\ ContoursDividePoints

(* A call always comes to its end: a cycle of components runs into the     *)
(* depth, and no loop turns without reading (load_glyph_outline).          *)
LoadReturns == <>(result # None)
=============================================================================
