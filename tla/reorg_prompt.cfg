SPECIFICATION Spec
CONSTANTS
    m1 = m1
    m2 = m2
    Materializers <- TwoStreams
    LogIndexes = {0, 1}
    BlockLogs <- SmallTwo
    MaxBlock = 4
    MaxForks = 2
    MaxReorgDepth = 3
    MaxReindexes = 0
    BatchSize = 2
    MaxFaults = 1
    SafetyMargin = 2
    CacheDepth = 3
    Reconciling <- NoStream
    NewContracts = FALSE
    Visibility = "prompt"
INVARIANTS NoStaleRow LossOnlyByJump RecoveryComplete CacheMirrorsChain
