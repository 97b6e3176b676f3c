CONSTANTS
    NumBlocks = 3
    BlockSize = 5
    HdrSize = 2
    RecLen = {2, 3}
    Id = {i1, i2, i3}
    Val = {{1}}
    NoId = NoId
    NoVal = NoVal
    NoOff = NoOff
    NoReq = NoReq
    Word = 65536
    Ops = {"write", "read", "clear"}
    MaxCrashes = 0
    MaxFaults = 0
SPECIFICATION OrderSpec
SYMMETRY IdSymmetry
INVARIANTS
    TypeOK
    RecordsTracked
    SpaceTracked
    OneFreeBlock
    EnumerationComplete
PROPERTIES
    RefusedOnlyWhenFull
    OrderKept
