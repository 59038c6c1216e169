SPECIFICATION Spec
CONSTANTS
    RingSize = 2
    MaxDur = 100
    MaxPolls = 2
    MaxConns = 2
INVARIANT ConcurrencySafe
