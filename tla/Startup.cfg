SPECIFICATION StartupSpec
CONSTANTS
    Intervals = {1, 3, 9}
    MaxBackoff = 7
    MaxPoll = 2
    FailsCap = 5
INVARIANTS
    BackoffLaw
    PollsSpaced
    StatusHonest
    AdviceSuffices
PROPERTIES
    PollsUntilCancelled
    SignalEnds
