CONSTANTS
    a = a
    b = b
    Streams <- MCStreams
    Contents = {ok}
    Absent = Absent
    NoSnapshot = NoSnapshot
    Unusable = {}
    ListOf <- MCListOf
    Revisions = {0}
    MaxChanges = 1
    MaxMessages = 0
    MaxConnects = 1
    MaxRestarts = 2
    MayStop = FALSE
SPECIFICATION Spec
INVARIANTS
    OnlyStrayedStreamsDiffer
CHECK_DEADLOCK FALSE
