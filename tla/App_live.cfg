CONSTANTS
    a = a
    b = b
    Streams <- OneStream
    Contents = {ok, bad}
    Absent = Absent
    NoSnapshot = NoSnapshot
    Unusable = {bad}
    ListOf <- OneList
    Revisions = {0}
    MaxChanges = 1
    MaxMessages = 1
    MaxConnects = 0
    MaxRestarts = 2
    MayStop = FALSE
SPECIFICATION FairSpec
PROPERTIES
    EverySignalIsServed
CHECK_DEADLOCK FALSE
