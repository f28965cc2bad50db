SPECIFICATION Spec
CONSTANTS
    m1 = m1
    m2 = m2
    Materializers <- TwoStreams
    LogIndexes = {0, 1}
    BlockLogs <- SmallTwo
    MaxBlock = 3
    MaxForks = 1
    MaxReorgDepth = 2
    MaxReindexes = 0
    BatchSize = 2
    MaxFaults = 1
    SafetyMargin = 1
    CacheDepth = 3
    Reconciling <- NoStream
    NewContracts = FALSE
    Visibility = "prompt"
PROPERTIES ResetOnlyRewinds
