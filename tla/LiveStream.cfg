SPECIFICATION Spec
CONSTANTS
    RingSize = 2
    MaxDur = 100
    MaxPolls = 3
    MaxConns = 2
INVARIANTS
    SubscribersAreLive
    RingHasNewest
    PushesAdvance
PROPERTIES
    BackOnlyFromFirst
    RingIsWindow
