\* request: {"${a}": x} with a = "[x]": the key renders to a list.
CONSTANTS
    Requests <- KeyRequests
    ArgSets <- AllArgs
SPECIFICATION Spec
INVARIANT NoPanic
CHECK_DEADLOCK FALSE
