SPECIFICATION MCSpec
CONSTANTS
    SPACE = 128
    XBKS_PAGE_SIZE = 4
    WORD = 2
    USER_IMAGE_MIN = 8
    XBKS_USER_TOP = 64
    XBKS_USER_STACK_TOP = 56
    XBKS_USER_STACK_SIZE = 28
    MAX_ARGS = 4
    MAX_ENV = 4
    MAX_STRING = 3
    FRAMES = 11
    Requests <- MCRequests
    AddressSpace = 16
    ArenaSize = 4
    Disks <- MCDisks
    Xsh <- MCXsh
INVARIANTS
    
    ImageLoaded
    StackHoldsArguments
    FlagTellsCommand
    ImageInArena
\* an execve is followed to its end
CHECK_DEADLOCK FALSE
