SPECIFICATION Spec
CONSTANTS
    Version = {v1, v2, bad}
    FirstVersion = v1
    Broken = {bad}
    Regular = 1
    Platforms <- Both
    MaxEvents = 2
    MaxRequests = 2
    MAX_RESET_COUNT = 1
    None = None
    Torn = Torn
INVARIANTS
    TypeOK
    WholeChains
    CanStart
    RestoresOriginal
    SuccessMeansSwitched


PROPERTIES
    RequestEnds
    AcceptedSwitchCompletes
CHECK_DEADLOCK FALSE
