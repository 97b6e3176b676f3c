CONSTANTS
    NumBlocks = 2
    BlockSize = 3
    HdrSize = 1
    RecLen = {1}
    Id = {i1, i2}
    Val = {{1}}
    NoId = NoId
    NoVal = NoVal
    NoOff = NoOff
    NoReq = NoReq
    Word = 65536
    Ops = {"write", "clear"}
    MaxCrashes = 1
    MaxFaults = 0
SPECIFICATION Spec
SYMMETRY IdSymmetry
INVARIANT FreeBlockAfterInit
