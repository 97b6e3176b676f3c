CONSTANTS
    Slot = {s1, s2, s3, s4}
    Id = {i1, i2}
    Val = {v1, v2}
    NoSlot = NoSlot
    NoId = NoId
    NoVal = NoVal
    NoReq = NoReq
SYMMETRY Symmetry
SPECIFICATION Spec
INVARIANTS
    AtMostOneInFlight
    OutgoingHasSuccessor
    OneValidPerId
    SettledWhenReady
    ProtocolInv
PROPERTY StoreSpec
