\* -n -1 with a working service: invalid benchmark options.
CONSTANTS
    Callers <- MCWorkers2
    Options <- MCOptions
    Invocations <- MCInvocations
    DefaultProcs = 1
    TimeBound = 200
    CallsInWindow = 3
    IntBits = 16
SPECIFICATION ProgramSpec
INVARIANT ConfigErrorBeforeAnyCall
CHECK_DEADLOCK FALSE
