SPECIFICATION Spec
CONSTANTS
    MAX_PROCESSES = 2
    MAX_FDS = 5
    Cr3 = {c1, c2, c3}
    NoCr3 = NoCr3
    PAGE_SIZE = 2
    Page = {0, 2, 3, 4, 6}
    StackPages = {6}
    HEAP_BASE = 4
    HEAP_LIMIT = 10
    WORD = 4
    Ramdisk <- MCFiles
    Paths = {"/bin/none", "/motd", "/"}
    Points = {1}
    FdArgs = {0, 1, 3, 4, 5}
    Counts = {0, 2}
    SeekArgs = {3}
    BrkArgs = {}
    Statuses = {0}
    MaxPid = 2
SYMMETRY MCSymmetry
INVARIANTS DescriptorsSound
PROPERTIES BlockedFrozen OffsetsTold
