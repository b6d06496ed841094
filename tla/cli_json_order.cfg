\* The legacy program with --format JSON: a report's latencies decoded
\* with LatencyMap.UnmarshalJSON.
CONSTANTS
    Callers <- MCWorkers2
    Options <- MCOptions
    Invocations <- MCInvocations
    DefaultProcs = 1
    TimeBound = 200
    CallsInWindow = 3
    IntBits = 16
SPECIFICATION ProgramSpec
INVARIANT JsonReportKeepsOrder
CHECK_DEADLOCK FALSE
