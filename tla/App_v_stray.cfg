CONSTANTS
    a = a
    b = b
    Streams <- OneStream
    Contents = {ok}
    Absent = Absent
    NoSnapshot = NoSnapshot
    Unusable = {}
    ListOf <- OneList
    Revisions = {1}
    MaxChanges = 1
    MaxMessages = 1
    MaxConnects = 1
    MaxRestarts = 1
    MayStop = FALSE
SPECIFICATION Spec
INVARIANTS
    StateMatchesAppliedResult
CHECK_DEADLOCK FALSE
