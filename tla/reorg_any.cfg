SPECIFICATION Spec
CONSTANTS
    m1 = m1
    m2 = m2
    Materializers <- OneStream
    LogIndexes = {0, 1}
    BlockLogs <- DenseOne
    MaxBlock = 3
    MaxForks = 1
    MaxReorgDepth = 2
    MaxReindexes = 1
    BatchSize = 2
    MaxFaults = 1
    SafetyMargin = 1
    CacheDepth = 1
    Reconciling <- OneStream
    NewContracts = TRUE
    Visibility = "any"
INVARIANTS CacheBounded
PROPERTIES RecoverySettles ReconciledComplete
