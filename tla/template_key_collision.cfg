\* request: {x: ..., "${a}": ...} with a = "x": two keys render equal.
CONSTANTS
    Requests <- CollidingRequests
    ArgSets <- AllArgs
SPECIFICATION Spec
INVARIANT OrderIndependent
CHECK_DEADLOCK FALSE
