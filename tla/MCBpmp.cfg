SPECIFICATION FairSpec
CONSTANTS
    Call = {k1, k2, k3}
    DeviceCount = 1
    MaxSockets = 1
    AsyncTpl = {16}
    None = None
INVARIANTS
    QueueInv
    AnswersMatch
PROPERTY CallsEnd
