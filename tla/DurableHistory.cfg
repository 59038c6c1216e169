SPECIFICATION Spec
CONSTANTS
    RingSize = 2
    MaxDur = 5
    MaxTime = 5
    Retention = 1
    PruneEvery = 2
    SaveTime = 1
    Asked <- MCAsked
INVARIANTS
    RingWithinDurable
    RetentionHeld
    RingAtIsNearest
PROPERTIES
    OnlyExpiredPruned
    AtIsNearest
