SPECIFICATION Spec
CONSTANTS
    LINE_SIZE = 3
    FIFO_SIZE = 2
    commands <- MCCommands
    SerialBytes <- MCSerialBytes
    Scancodes <- MCScancodes
    Counts <- MCCounts
    Texts <- MCTexts
    MaxInput = 3
    MaxCalls = 2
INVARIANTS KeystrokesDecoded ScreenShowsLine OutputsAgree
PROPERTIES InputServed
