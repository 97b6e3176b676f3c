SPECIFICATION RootfsSpec
CONSTANTS
    Version = {v1, bad}
    FirstVersion = v1
    Broken = {bad}
    Regular = 0
    Platforms <- Both
    MaxEvents = 1
    MaxRequests = 2
    MAX_RESET_COUNT = 1
    RetryMax = 3
    Override = {"B"}
    None = None
    Torn = Torn
INVARIANTS
    RetriesBounded
    KernelFollowsChain
    RecoveryIsLast
PROPERTIES
    UnbootableMeansTried
    Settles
CHECK_DEADLOCK FALSE
