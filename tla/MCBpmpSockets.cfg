SPECIFICATION Spec
CONSTANTS
    Call = {k1, k2}
    DeviceCount = 2
    MaxSockets = 2
    AsyncTpl = {16}
    None = None
INVARIANT AnswersMatch
