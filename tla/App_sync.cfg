CONSTANTS
    a = a
    b = b
    Streams <- OneStream
    Contents = {ok, bad}
    Absent = Absent
    NoSnapshot = NoSnapshot
    Unusable = {bad}
    ListOf <- OneList
    Revisions = {1}
    MaxChanges = 1
    MaxMessages = 2
    MaxConnects = 1
    MaxRestarts = 0
    MayStop = TRUE
SPECIFICATION Spec
INVARIANTS
    TypeOK
    NoSignalForgotten
    DegradedIsRetried
    ReportedRegistrationIsTrue
CHECK_DEADLOCK FALSE
