CONSTANTS
    MaxHeight = 9
    Interval = 3
    RetentionBlocks = 4
    BatchSize = 2
    KeepLast = 1
    Tallies <- MCTallies
    Radix = 4
    MaxFaults = 2
    NoCheckpoint = NoCheckpoint
SPECIFICATION Spec
INVARIANTS TypeOK PrunedIsFinal DiskMirrorsMemory FinalityBacked
