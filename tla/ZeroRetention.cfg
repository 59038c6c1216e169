SPECIFICATION Spec
CONSTANTS
    Starts <- MCStarts
    Requests <- MCRequests
CHECK_DEADLOCK FALSE
INVARIANT ZeroRetentionKeeps
