SPECIFICATION Spec
CONSTANTS
    Blocks <- MCBlocks
    Genesis <- MCGenesis
    Ancestors <- MCAncestors
    Round <- MCRound
    Timestamp <- MCTimestamp
    MaxBatch = 1
    MaxRestarts = 0
INVARIANTS
    NoMissingAncestorPanic
