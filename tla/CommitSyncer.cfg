CONSTANTS
    O = O
    P = P
    Q = Q
    Z = Z
    MaxCommit = 4
    QServes = 1
    Authorities <- MCAuthorities
    Byzantine <- MCByzantine
    Stake <- MCStake
    Own = O
    Commits <- MCCommits
    Index <- MCIndex
    Previous <- MCPrevious
    Chain <- MCChain
    Certified <- MCCertified
    ByzantineAnswers <- MCByzantineAnswers
    BlockVotes <- MCBlockVotes
    BatchSize = 2
    ParallelFetches = 2
    BatchesAhead = 2
    LagMultiplier = 1
    Trail = 1
    MaxFailures = 0
SPECIFICATION FairSpec
CHECK_DEADLOCK FALSE
INVARIANTS
    NoCommitIsForgotten
    SyncedWithoutGap
    FetchedAreCertified
PROPERTIES
    CatchesUp
    AcceptsAgain
