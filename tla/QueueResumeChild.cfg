CONSTANTS
    g1 = g1
    g2 = g2
    g3 = g3
    c1 = c1
    c2 = c2
    NoGid = NoGid
    Ticker = Ticker
    Gid <- MCThree
    Torrents = {}
    Parent <- MCFollows
    Clients <- MCOneClient
    MaxBatch = 1
    Slots = 2
    MaxRequests = 1
    MaxTimeouts = 0
    MaxAriaExits = 0
    MaxDaemonExits = 0
SPECIFICATION CalmSpec
INVARIANTS
    ResumeStartsTheDownload
VIEW CalmView
