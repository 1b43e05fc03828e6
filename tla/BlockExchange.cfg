CONSTANTS
    O = O
    P = P
    Z = Z
    Authorities <- MCAuthorities
    Byzantine <- MCByzantine
    Stake <- MCStake
    Own = O
    Blocks <- MCBlocks
    Ancestors <- MCAncestors
    Broadcasts <- MCBroadcasts
    Stores <- MCStores
    ByzantineAnswers <- MCByzantineAnswers
    MaxPerFetch = 1
    MaxPerBlock = 2
    Concurrency = 1
    MaxRetries = 1
    MaxPeers = 2
    MaxAdditional = 1
    MaxFailures = 1
    Capacity = 1
    CachedRounds = 1
    MaxRound = 2
    MaxFaults = 2
    MaxPushes = 2
    MaxBroadcasts = 4
    MaxCrashes = 2
SPECIFICATION MCFairSpec
CHECK_DEADLOCK FALSE
INVARIANTS
    LocksMatchGuards
    StreamHasNoGap
PROPERTIES
    MissingArrives
    OwnBlocksArrive
