CONSTANTS
    a = a
    b = b
    Streams = {a}
    Receivers = {}
    Ancillary = {}
    Contents = {x, bad}
    Unusable = {bad}
    Absent = Absent
    MaxCalls = 3
    MaxRestarts = 2
SPECIFICATION FairSpec
INVARIANTS
    TypeOK
PROPERTIES
    CallsReturn
CHECK_DEADLOCK FALSE
