SPECIFICATION Spec
CONSTANTS
    MAX_PROCESSES = 3
    MAX_FDS = 3
    Cr3 = {c1, c2, c3, c4}
    NoCr3 = NoCr3
    PAGE_SIZE = 2
    Page = {0, 2, 3, 4, 6}
    StackPages = {6}
    HEAP_BASE = 4
    HEAP_LIMIT = 10
    WORD = 16
    Ramdisk <- MCPrograms
    Paths = {"/bin/xsh", "/bin/big"}
    Points = {1, 2}
    FdArgs = {}
    Counts = {}
    SeekArgs = {}
    BrkArgs = {}
    Statuses = {0, 257}
    MaxPid = 5
SYMMETRY MCSymmetry
INVARIANTS OneRunning NobodyStranded VforkChain HaltsAlone SpacesOwned
PROPERTIES ImplementsVforkCalls
