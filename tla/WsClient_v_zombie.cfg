CONSTANTS
    MaxConnects = 1
    MaxTexts = 0
    MaxQueue = 1
SPECIFICATION FairSpec
PROPERTIES
    Reconnects
CHECK_DEADLOCK FALSE
