SPECIFICATION SettlingSpec
CONSTANTS
    s1 = s1
    s2 = s2
    Stakers <- OneStaker
    EventKinds <- QueueAndDeposits
    Views <- BothViews
    Collected <- OneStaker
    BatchSize = 2
    MaxEvents = 4
    MaxFaults = 1
    MaxReorgs = 0
    MaxRewinds = 1
INVARIANT ActivationIsLastDeposit
PROPERTY EventuallyReplayed
CHECK_DEADLOCK FALSE
