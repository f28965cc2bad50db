SPECIFICATION Spec
CONSTANTS
    s1 = s1
    s2 = s2
    Stakers <- OneStaker
    EventKinds <- QueueAndDeposit
    Views <- Viewed
    Collected <- OneStaker
    BatchSize = 2
    MaxEvents = 4
    MaxFaults = 1
    MaxReorgs = 1
    MaxRewinds = 1
INVARIANTS QueueIsReplay NoGhostEntry
CHECK_DEADLOCK FALSE
