CONSTANTS
    g1 = g1
    g2 = g2
    g3 = g3
    c1 = c1
    c2 = c2
    NoGid = NoGid
    Ticker = Ticker
    Gid <- MCOne
    Torrents = {}
    Parent <- MCNoParents
    Clients <- MCOneClient
    MaxBatch = 0
    Slots = 1
    MaxRequests = 2
    MaxTimeouts = 1
    MaxAriaExits = 1
    MaxDaemonExits = 1
SPECIFICATION Spec
INVARIANTS
    AckedPausesHold
    SavedUnlessApplying
SYMMETRY AnyGid
