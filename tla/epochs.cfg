SPECIFICATION EpochSpec
CONSTANTS
    v1 = v1
    v2 = v2
    r1 = r1
    r2 = r2
    Collectors <- ThreeCollectors
    Awaiting <- StatsAwaits
    Runs = {r1, r2}
    Deployments <- ThreeDeployments
INVARIANTS FrozenComplete NoOverlapUnlessAwaited
PROPERTIES NoRegression EventuallyCounted EventuallyStored
CHECK_DEADLOCK FALSE
