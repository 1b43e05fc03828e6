SPECIFICATION Spec
CONSTANTS
    Capacity = 1
    CachedRounds = 1
    MaxRound = 1
    MaxFaults = 1
INVARIANTS
    OneBlockPerRound
