SPECIFICATION Spec
CONSTANTS
    m1 = m1
    m2 = m2
    Materializers <- OneStream
    LogIndexes = {0, 1}
    BlockLogs <- DenseOne
    MaxBlock = 3
    MaxForks = 1
    MaxReorgDepth = 2
    MaxReindexes = 0
    BatchSize = 2
    MaxFaults = 0
    SafetyMargin = 1
    CacheDepth = 2
    Reconciling <- NoStream
    NewContracts = FALSE
    Visibility = "any"
PROPERTIES CachedReorgCaught
