SPECIFICATION CopySpec
CONSTANTS
    m1 = m1
    m2 = m2
    Materializers <- MCMaterializers
    LogIndexes = {0, 1}
    BlockLogs <- MCBlockLogs
    MaxBlock = 3
    MaxForks = 0
    MaxReorgDepth = 0
    MaxReindexes = 0
    BatchSize = 2
    MaxFaults = 2
INVARIANTS NoEventSkipped
PROPERTIES ImplementsPrefixCopy EveryEventCopied
