CONSTANTS
    MaxConnects = 1
    MaxTexts = 1
    MaxQueue = 2
SPECIFICATION FairSpec
INVARIANTS
    SenderIsWoken
    OneStaleMessagePerSender
PROPERTIES
    ImplementsConnection
    LostLinkIsNoticed
    IdleLinkIsDropped
    StopReturnsFromConnection
CHECK_DEADLOCK FALSE
