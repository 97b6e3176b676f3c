CONSTANTS
    NumBlocks = 2
    BlockSize = 4
    HdrSize = 1
    RecLen = {2}
    Id = {i1, i2}
    Val = {{1}}
    NoId = NoId
    NoVal = NoVal
    NoOff = NoOff
    NoReq = NoReq
    Word = 65536
    Ops = {"write", "read", "clear", "dummy"}
    MaxCrashes = 1
    MaxFaults = 1
SPECIFICATION FairSpec
INVARIANTS
    RecordsTracked
    NeverOverwrite
PROPERTIES
    RecordsSpec
    RequestAnswered
