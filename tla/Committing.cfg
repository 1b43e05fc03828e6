CONSTANTS
    A = A
    B = B
    C = C
    D = D
    Authorities <- MCAuthorities
    Byzantine <- MCByzantine
    Stake <- MCStake
    Leader <- MCLeader
    Proposals <- MCProposals
    BaseLeader <- MCBaseLeader
    Shuffle <- MCShuffle
    Draw <- MCDraw
    SwapThreshold = 33
    Parents <- MCParents
    Past <- MCPast
    Timestamp <- MCTimestamp
    Batches <- MCBatches
    CommitsPerSchedule = 2
    FirstAuthority = A
    MaxRound = 9
    MaxRestarts = 2
SPECIFICATION MCFairSpec
CHECK_DEADLOCK FALSE
INVARIANTS
    OneCertifiedLeader
    ViewsAgree
    BlocksCommittedOnce
    NoCorrectBlockIsPassedOver
    ScoresCoverCommits
    ScheduleFollowsCommits
PROPERTIES
    DecisionsAreFinal
    EquivocatedLeaderGetsDecided
    ImplementsCommitLog
    CommitsReachConsumer
