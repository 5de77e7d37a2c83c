CONSTANTS
    v = v
    r = r
    d1 = d1
    d2 = d2
    a1 = a1
    a2 = a2
    a3 = a3
    g = g
    Streams = {v, r}
    Receivers = {r}
    Destinations = {d1, d2}
    Addresses = {a1, a2, a3}
    Interfaces = {"eth0", "eth1"}
    Gmids = {g}
    Malformed = Malformed
    Unset = Unset
    Automatic = Automatic
    Absent = Absent
    Host <- MCHost
    ListOf <- MCListOf
    Offers <- MCOffers
    MaxSyncs = 2
    MaxPatches = 1
    MaxRestarts = 2
SPECIFICATION FairSpec
INVARIANTS
    SnapshotIsApplied
    SendersSettle
    SendersUseAnInterface
    LegsAgree
    TransportFilesAreCurrent
PROPERTIES
    SyncsKeepConnections
    SendersGoOut
CHECK_DEADLOCK FALSE
