\* request: {x: "1"}, a quoted string with no reference in it.
CONSTANTS
    Requests <- PlainRequests
    ArgSets <- AllArgs
SPECIFICATION Spec
INVARIANT ResultMatchesReference
CHECK_DEADLOCK FALSE
