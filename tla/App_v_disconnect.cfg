CONSTANTS
    a = a
    b = b
    Streams <- OneStream
    Contents = {ok}
    Absent = Absent
    NoSnapshot = NoSnapshot
    Unusable = {}
    ListOf <- OneList
    Revisions = {1}
    MaxChanges = 0
    MaxMessages = 0
    MaxConnects = 2
    MaxRestarts = 0
    MayStop = FALSE
SPECIFICATION FairSpec
PROPERTIES
    DisconnectDrains
CHECK_DEADLOCK FALSE
