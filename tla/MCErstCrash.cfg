CONSTANTS
    NumBlocks = 3
    BlockSize = 4
    HdrSize = 1
    RecLen = {2}
    Id = {i1, i2}
    Val = {{1}, {1, 2}}
    NoId = NoId
    NoVal = NoVal
    NoOff = NoOff
    NoReq = NoReq
    Word = 65536
    Ops = {"write", "clear"}
    MaxCrashes = 1
    MaxFaults = 0
SPECIFICATION Spec
SYMMETRY IdSymmetry
INVARIANTS
    RecordsTracked
    ShadowInSync
