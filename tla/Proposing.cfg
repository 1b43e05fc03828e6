SPECIFICATION MCFairSpec
CONSTANTS
    A = A
    B = B
    C = C
    D = D
    Authorities <- MCAuthorities
    Byzantine <- MCByzantine
    Stake <- MCStake
    Leader <- MCLeader
    Own = A
    Rounds = 2
    OtherBlocks <- MCOtherBlocks
    OtherParents <- MCOtherParents
    MaxRestarts = 1
    Batches <- MCBatches
    Size <- MCSize
    MaxTxSize = 4
    MaxBytes = 4
    MaxCount = 2
    Capacity = 2
    Drift = 1
    Setback = 2
    MaxTime = 2
    MaxPending = 1
INVARIANTS
    NoEquivocatingBroadcast
    OwnSlotIsFree
    OwnBlocksVerify
    AncestorsAreStored
    AcknowledgedIsWritten
    TransactionsAreKept
    ClockPanicNeedsTwoChains
PROPERTIES
    ProposesEveryRound
    SubmittedIsAnswered
CHECK_DEADLOCK FALSE
