\* --concurrency 0 or -1 with a request budget: validate() lets both through.
CONSTANTS
    Callers <- MCWorkers2
    Options <- BadConcurrencyOptions
    DefaultProcs = 1
    TimeBound = 0
    CallsInWindow = 3
    IntBits = 16
SPECIFICATION Spec
INVARIANT NoPanic
CHECK_DEADLOCK FALSE
