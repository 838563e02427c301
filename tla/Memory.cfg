SPECIFICATION Spec
CONSTANTS
    LEVELS = 4
    ENTRIES = 2
    USER_ENTRIES = 1
    PAGE_SIZE = 4
    LastFrame = 12
    KernelTable = 99
    MemoryMap <- MCMap
    VPages <- MCPages
    MaxRequests = 5
INVARIANTS OneUse KernelStaysMapped CloneNeverCollides
