SPECIFICATION Spec
CONSTANTS
    Starts <- MCStarts
    Requests <- MCRequests
\* A process whose configuration is refused ends.
CHECK_DEADLOCK FALSE
INVARIANTS
    ValidatedIsUsable
    HandledIffGranted
