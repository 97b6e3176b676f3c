CONSTANTS
    NumBlocks = 3
    BlockSize = 5
    HdrSize = 2
    RecLen = {2, 3}
    Id = {i1, i2}
    Val = {{1}}
    NoId = NoId
    NoVal = NoVal
    NoOff = NoOff
    NoReq = NoReq
    Word = 65536
    Ops = {"write"}
    MaxCrashes = 1
    MaxFaults = 0
SPECIFICATION Spec
SYMMETRY IdSymmetry
INVARIANT NeverOverwrite
