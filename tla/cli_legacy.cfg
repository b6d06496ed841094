\* The whole legacy program: every exit of parseAndRun, positional
\* argument lists up to five long, then runWithOptions' call and the
\* legacy benchmark with two workers on one connection.
CONSTANTS
    Callers <- MCWorkers2
    Options <- MCOptions
    Invocations <- MCInvocations
    DefaultProcs = 1
    TimeBound = 200
    CallsInWindow = 3
    IntBits = 16
SPECIFICATION ProgramSpec
INVARIANT LegacyReportMatchesWork
INVARIANT PositionalMatchesUsage
INVARIANT CurlLike
INVARIANT LegacyTextReport
PROPERTY ProgramImplementsAbstractRun
\* A finished program is a terminal state: the process exits.
CHECK_DEADLOCK FALSE
