\* Two workers on one connection: every bounded kind of run (count, time,
\* rate; unary and streaming), and the invalid, disabled, failing-warm-up
\* and default-connection runs. The 250ms deadline falls between the
\* third and the fourth 100ms token.
CONSTANTS
    Callers <- MCWorkers2
    Options <- CoreAndEdgeOptions
    DefaultProcs = 1
    TimeBound = 250
    CallsInWindow = 3
    IntBits = 16
SPECIFICATION Spec
INVARIANT BenchTypeOK
INVARIANT ReportMatchesWork
INVARIANT NoGrantAfterStop
INVARIANT BudgetHonoured
INVARIANT PacedByRate
INVARIANT JsonLatenciesComplete
PROPERTY RunTerminates
PROPERTY ImplementsAbstractRun
\* A finished run is a terminal state: the process exits.
CHECK_DEADLOCK FALSE
