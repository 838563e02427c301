SPECIFICATION MCSpec
CONSTANTS
    XBKS_TTY_FONT_GLYPHS = 7
    FirstAscii = 1
    LastAscii = 4
    Space = 0
    FAILED_ASCII = 6
    Modules <- MCModules
    None = None
    Cmaps <- MCCmaps
    Characters = {0, 1, 2, 3, 4, 5, 6, 7, 8, 65535, 65536, 65540}
    MAX_GLYPH_POINTS = 5
    MAX_GLYPH_CONTOURS = 4
    MAX_COMPONENT_DEPTH = 2
    Refused = Refused
    Fonts <- MCFonts
    XBKS_TTY_FONT_WIDTH = 4
    XBKS_TTY_FONT_HEIGHT = 8
    MAX_RASTER_EDGES = 20
    Faces <- MCFaces
INVARIANTS
    ReadsInside
    CharactersFound
    GlyphDecoded
    OutlineDrawn
    PixelsInked
PROPERTIES
    RenderingEnds
\* a glyph or a font is followed to its end
CHECK_DEADLOCK FALSE
