SPECIFICATION Spec
CONSTANTS
    MAX_PROCESSES = 3
    MAX_FDS = 3
    Cr3 = {c1, c2, c3}
    NoCr3 = NoCr3
    PAGE_SIZE = 2
    Page = {0, 2, 3, 4, 6}
    StackPages = {6}
    HEAP_BASE = 4
    HEAP_LIMIT = 10
    WORD = 16
    Ramdisk <- MCOnePoint
    Paths = {"/bin/xsh", "/bin/big"}
    Points = {1}
    FdArgs = {}
    Counts = {}
    SeekArgs = {}
    BrkArgs = {0, 3, 5, 6, 8, 9, 10}
    Statuses = {0}
    MaxPid = 4
SYMMETRY MCSymmetry
INVARIANTS HeapBacked
PROPERTIES HeapStuck BlockedFrozen
