SPECIFICATION Spec
CONSTANTS
    m1 = m1
    m2 = m2
    Materializers <- OneStream
    LogIndexes = {0, 1}
    BlockLogs <- DenseOne
    MaxBlock = 5
    MaxForks = 2
    MaxReorgDepth = 5
    MaxReindexes = 0
    BatchSize = 2
    MaxFaults = 1
    SafetyMargin = 2
    CacheDepth = 5
    Reconciling <- NoStream
    NewContracts = FALSE
    Visibility = "late"
PROPERTIES OldForkForgotten
