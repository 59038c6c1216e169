SPECIFICATION MCSpec
CONSTANTS
    Proxy = TRUE
    MaxDelay = 5
    MaxWire = 2
    MaxSeeds = 2
    TriesCap = 4
    Width = 3
    MaxPolls = 4
    MaxFetch = 2
    MaxClicks = 4
INVARIANTS
    StreamWhileSignedIn
    ReconnectLaw
    PausedViewSettles
PROPERTIES
    DisplayFollows
    ReplayEnds
