SPECIFICATION MCSpec
CONSTANTS
    Size = 4
    BYTE = 3
    Ints <- MCInts
    Calls <- MCCalls
    Capacities = {0, 1, 2, 3, 4, 5}
    INT = 32
    LONG = 1024
    NUL = NUL
    Null = Null
    Old = Old
INVARIANTS
    WritesExactly
    ComparesFirstDifference
    BufferHoldsPrefix
    NumbersReadBack
\* one call is followed to its return
CHECK_DEADLOCK FALSE
