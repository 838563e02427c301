SPECIFICATION Spec
CONSTANTS
    XBKS_TTY_FONT_WIDTH = 4
    XBKS_TTY_FONT_HEIGHT = 8
    MAX_RASTER_EDGES = 20
    Faces <- MCLatinFaces
INVARIANT NotCropped
CHECK_DEADLOCK FALSE
