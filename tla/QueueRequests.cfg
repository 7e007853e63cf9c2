CONSTANTS
    g1 = g1
    g2 = g2
    g3 = g3
    c1 = c1
    c2 = c2
    NoGid = NoGid
    Ticker = Ticker
    Gid <- MCTwo
    Torrents <- MCSecond
    Parent <- MCNoParents
    Clients <- MCTwoClients
    MaxBatch = 0
    Slots = 1
    MaxRequests = 2
    MaxTimeouts = 0
    MaxAriaExits = 0
    MaxDaemonExits = 0
SPECIFICATION CalmSpec
INVARIANTS
    TypeOK
    OwnedPauses
PROPERTIES
    PausesHaveOwners
SYMMETRY AnyClient
VIEW CalmView
