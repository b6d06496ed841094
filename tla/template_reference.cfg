\* Every request of up to two entries over plain keys, against every args
\* map: ProcessMap agrees with the substitution its comment describes.
CONSTANTS
    Requests <- PassRequests
    ArgSets <- AllArgs
SPECIFICATION Spec
INVARIANT ResultMatchesReference
INVARIANT FailsExactlyWhenUnprocessable
\* ProcessMap returns; nothing follows it in this model.
CHECK_DEADLOCK FALSE
