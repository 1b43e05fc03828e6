CONSTANTS
    Txs = {1, 2, 3}
    Inputs <- MCInputs
    Outputs <- MCOutputs
    EpochOf <- MCEpochs
    Genesis <- MCGenesis
    CacheSize = 1
    Threads = {"m", "n"}
    Recovery = "m"
    MaxEpoch = 1
    MaxRestarts = 1
    MaxSubmits = 3
SPECIFICATION FairSpec
INVARIANTS
    MapsAgree
    ExecutingIsTracked
    ReadyHasInputs
    LostOnlyWhenLowered
PROPERTY
    SequencedIsExecuted
CHECK_DEADLOCK FALSE
