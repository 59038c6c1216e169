SPECIFICATION MCSpec
CONSTANTS
    Chars <- MCChars
    Bytes <- MCBytes
    Inputs <- MCInputs
    Backends = {1, 2, 3}
    Clients = {1, 2}
    Pids = {1, 2, 3}
    MaxBlockers = 2
    t1 = t1
    t2 = t2
    xid = xid
    Objects = {t1, t2, xid}
    Relations = {t1, t2}
    NoRelation = NoRelation
    RelationOf <- MCRelationOf
    share = share
    excl = excl
    Modes = {share, excl}
    Conflicts <- MCConflicts
    MaxLocks = 4
    MaxChanges = 1
\* Mask and Build return.
CHECK_DEADLOCK FALSE
INVARIANTS
    ValuesMasked
    StructureKept
    LabelsExplainEdges
    ViewsAgree
    EdgesAreConfirmed
    WaitersHaveRoots
PROPERTY MaskEnds
