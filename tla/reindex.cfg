SPECIFICATION Spec
CONSTANTS
    m1 = m1
    m2 = m2
    Materializers <- TwoStreams
    LogIndexes = {0, 1}
    BlockLogs <- SmallTwo
    MaxBlock = 3
    MaxForks = 1
    MaxReorgDepth = 1
    MaxReindexes = 1
    BatchSize = 2
    MaxFaults = 1
    SafetyMargin = 1
    CacheDepth = 1
    Reconciling <- NoStream
    NewContracts = FALSE
    Visibility = "prompt"
PROPERTIES EventuallyComplete
