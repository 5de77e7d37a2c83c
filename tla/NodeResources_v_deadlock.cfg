CONSTANTS
    a = a
    b = b
    Streams = {a, b}
    Receivers = {a, b}
    Ancillary = {}
    Contents = {x}
    Unusable = {}
    Absent = Absent
    MaxCalls = 3
    MaxRestarts = 0
SPECIFICATION Spec
INVARIANTS
    LocksAreOrdered
CHECK_DEADLOCK FALSE
