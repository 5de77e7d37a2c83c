CONSTANTS
    Clients = {r1, r2, main}
    Requests = {r1, r2}
    Main = main
    Nobody = Nobody
    r1 = r1
    r2 = r2
    main = main
    x = x
    y = y
    Registries = {x, y}
    Malformed = Malformed
    Null = Null
    Torn = Torn
    MaxCalls = 10
    MaxEvents = 2
    Payloads <- MCPayloads
SPECIFICATION ConfigFairSpec
INVARIANTS
    RunningServes
    FileIsWhatWasAccepted
    RunningNodeHasTheFile
    ReportedNodeStateIsTrue
    SelectedRegistryIsNamed
    RegistrationIsOfThisNode
PROPERTIES
    ImplementsNodePhases
    OneWorker
    RequestsAreAnswered
    DaemonEnds
    StartTellsTheTruth
    ReadersSeeWhatWasAccepted
CHECK_DEADLOCK FALSE
