SPECIFICATION FairSpec
CHECK_DEADLOCK FALSE
CONSTANTS
    Blocks <- MCBlocks
    Genesis <- MCGenesis
    Ancestors <- MCAncestors
    Round <- MCRound
    Timestamp <- MCTimestamp
    MaxBatch = 2
    MaxRestarts = 1
INVARIANTS
    TypeOK
    CausallyClosed
    SomethingToFetch
    MapsAgree
    ReturnedAreAbsent
    PanicOnlyAfterRejection
PROPERTIES
    SuspendedIsAccepted
