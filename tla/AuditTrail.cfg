SPECIFICATION FairSpec
CONSTANTS
    Reqs = {r1, r2}
    Queries = {q1}
    NoQuery = NoQuery
    MemCap = 0
    DiskFaults = TRUE
    MaxPolls = 1
INVARIANTS
    AnsweredIsRecorded
    DeliveredIsTrue
    RecentNewestFirst
    ActionsCounted
PROPERTIES
    TrailKeepsOrder
    RequestsEnd
