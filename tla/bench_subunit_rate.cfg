\* --max-requests 2 with --rps 10 -d 50ms (half a request) or with a rate
\* and duration whose product overflows an IntBits-bit int.
CONSTANTS
    Callers <- MCWorkers2
    Options <- CapEdgeOptions
    DefaultProcs = 1
    TimeBound = 50
    CallsInWindow = 3
    IntBits = 8
SPECIFICATION Spec
INVARIANT CapNeverLoosens
CHECK_DEADLOCK FALSE
