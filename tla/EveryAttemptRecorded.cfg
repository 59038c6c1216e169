SPECIFICATION Spec
CONSTANTS
    Reqs = {r1, r2}
    Queries = {q1}
    NoQuery = NoQuery
    MemCap = 1
    DiskFaults = FALSE
    MaxPolls = 1
INVARIANT EveryAttemptRecorded
