CONSTANTS
    a = a
    b = b
    Streams = {a, b}
    Receivers = {b}
    Ancillary = {a}
    Contents = {x, y, bad}
    Unusable = {bad}
    Absent = Absent
    MaxCalls = 3
    MaxRestarts = 2
SPECIFICATION Spec
INVARIANTS
    CacheMatchesModel
    NoHalfUpdate
    SendersAreComplete
PROPERTIES
    ImplementsNodeContract
    RestartsKeepStreams
    CallsDoAsTold
CHECK_DEADLOCK FALSE
