CONSTANTS
    NumBlocks = 2
    PerBlock = 2
    Content = {c0, c1, c2}
    Fresh = c0
    NoStore = NoStore
    Garbage = Garbage
    AssertOnFail = FALSE
    MaxFaults = 2
SPECIFICATION FairSpec
INVARIANTS
    StoreAccepted
    OneRecordWhenIdle
PROPERTIES
    Recovers
