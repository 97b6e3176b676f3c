CONSTANTS
    NumBlocks = 2
    BlockUnits = 2
    NumSockets = 2
    RasSockets = {1}
    RasSizes = {1, 2}
    EarlySize = 1
    MaxEvents = 2
    MaxRequests = 5
SPECIFICATION Spec
INVARIANTS
    NothingStale
    NoneSkipped
    CmetCopySurvives
CHECK_DEADLOCK FALSE
