SPECIFICATION MetricsSpec
CONSTANTS
    RingSize = 2
    MaxDur = 100
    MaxPolls = 3
    MaxConns = 1
    MaxErrors = 1
INVARIANT MonitoringAgrees
PROPERTIES
    PutEnds
    GoneIsReleased
    NextFrameArrives
