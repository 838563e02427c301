----------------------------- MODULE MCTypeface -----------------------------
(***************************************************************************)
(* The four parts of the TrueType renderer side by side: a behaviour loads *)
(* a font file (Font), looks characters up (Cmap), decodes one glyph       *)
(* (Glyph) or draws one (Raster) while the other three rest.               *)
(***************************************************************************)
EXTENDS MCFont

CONSTANTS
    Cmaps, Characters, None,
    MAX_GLYPH_POINTS, MAX_GLYPH_CONTOURS, MAX_COMPONENT_DEPTH, Fonts, Refused,
    XBKS_TTY_FONT_WIDTH, XBKS_TTY_FONT_HEIGHT, MAX_RASTER_EDGES, Faces

VARIABLES
    part,
    cmap, subtable, selected, lookup,
    font, asked, stack, result,
    face, draw_at, metrics, points, contour, index, first, current, edges

lookups == <<cmap, subtable, selected, lookup>>
glyphs == <<font, asked, stack, result>>
drawing_vars == <<face, draw_at, metrics, points, contour, index, first, current, edges>>

C == INSTANCE Cmap WITH Codepoints <- Characters
G == INSTANCE Glyph
R == INSTANCE Raster WITH at <- draw_at

CmapInputs == INSTANCE MCCmap WITH Codepoints <- Characters, Cmaps <- {}
GlyphInputs == INSTANCE MCGlyph WITH Fonts <- {}
RasterInputs == INSTANCE MCRaster WITH Faces <- {}, at <- draw_at
MCCmaps == CmapInputs!MCCmaps
MCFonts == GlyphInputs!MCFonts
MCFaces == RasterInputs!MCFaces

FontRests ==
    /\ modules = <<>> /\ file = [size |-> 0] /\ at = "none" /\ found = <<>> /\ codepoint = 0
    /\ cells = <<>> /\ rendered = 0 /\ failed_ascii = <<>> /\ reads = {}
CmapRests == cmap = None /\ subtable = None /\ selected = FALSE /\ lookup = None
GlyphRests == font = None /\ asked = 0 /\ stack = <<>> /\ result = None
RasterRests ==
    /\ face = None /\ draw_at = "none" /\ metrics = None /\ points = <<>> /\ contour = 0 /\ index = 0
    /\ first = None /\ current = None /\ edges = <<>>

MCInit ==
    \/ part = "font" /\ Init /\ CmapRests /\ GlyphRests /\ RasterRests
    \/ part = "cmap" /\ C!Init /\ FontRests /\ GlyphRests /\ RasterRests
    \/ part = "glyph" /\ G!Init /\ FontRests /\ CmapRests /\ RasterRests
    \/ part = "raster" /\ R!Init /\ FontRests /\ CmapRests /\ GlyphRests
MCNext ==
    \/ part = "font" /\ Next /\ UNCHANGED <<part, lookups, glyphs, drawing_vars>>
    \/ part = "cmap" /\ C!Next /\ UNCHANGED <<part, vars, glyphs, drawing_vars>>
    \/ part = "glyph" /\ G!Next /\ UNCHANGED <<part, vars, lookups, drawing_vars>>
    \/ part = "raster" /\ R!Next /\ UNCHANGED <<part, vars, lookups, glyphs>>
all == <<part, vars, lookups, glyphs, drawing_vars>>
MCSpec == MCInit /\ [][MCNext]_all /\ WF_all(MCNext)

(* Each character gets the glyph the font maps it to (Cmap). *)
CharactersFound == part = "cmap" => C!CharactersFound

(* A glyph is decoded to what it was made from, or refused, with no read   *)
(* outside it and no array overrun (Glyph).                                *)
GlyphDecoded == part = "glyph" => G!GlyphDecoded

(* The edges of a glyph are those of its closed outline (Raster). *)
OutlineDrawn == part = "raster" => R!OutlineDrawn

(* Ink is where the outline is (Raster). *)
PixelsInked == part = "raster" => R!PixelsInked

(* Loading, decoding and drawing come to an end: a cycle of components     *)
(* runs into the depth, no loop turns without reading, and the walk over a *)
(* contour closes (Font, Glyph, Raster).                                   *)
RenderingEnds ==
    /\ part = "font" => LoadingEnds
    /\ part = "glyph" => G!LoadReturns
    /\ part = "raster" => R!DrawEnds
=============================================================================
