\* --format json -d 200ms, interrupted with Ctrl-C before it ends.
CONSTANTS
    Callers <- MCWorkers2
    Options <- JsonDurationOptions
    DefaultProcs = 1
    TimeBound = 200
    CallsInWindow = 3
    IntBits = 16
SPECIFICATION Spec
INVARIANT SingleJSONBlob
CHECK_DEADLOCK FALSE
