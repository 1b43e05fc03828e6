SPECIFICATION CoreSpec
CONSTANTS
    A = A
    B = B
    C = C
    D = D
    Authorities <- MCAuthorities
    Byzantine <- MCByzantine
    Stake <- MCStake
    Leader <- MCLeader
    Own = A
    Rounds = 3
    OtherBlocks <- MCOtherBlocks
    OtherParents <- MCOtherParents
    MaxRestarts = 1
    Batches <- MCBatches
    Size <- MCSize
    MaxTxSize = 4
    MaxBytes = 4
    MaxCount = 2
    Capacity = 2
    Drift = 1
    Setback = 2
    MaxTime = 2
    MaxPending = 1
INVARIANT QuorumAdvancesClock
CHECK_DEADLOCK FALSE
