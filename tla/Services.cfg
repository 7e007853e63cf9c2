CONSTANTS
    Job = {"j1"}
    Big = {"j1"}
    MaxAttempts = 3
    DailyAfter = 0
    MaxResults = 2
    MaxAdds = 1
    MaxMeddling = 2
    Client = {"u1"}
    Limit = {0, 1}
    Slots = {2, 3}
    MaxChanges = 2
    MaxFaults = 2
    Browser = {"b1", "b2"}
    Pin = {"p1", "p2"}
    MaxTokens = 2
    MaxDaemonRuns = 2
    WebConfig = {"a", "b"}
    MaxWebChanges = 3
    MaxWebFaults = 2
    Scope = {"user"}
    MaxStarts = 3
    Handler = {"c1", "c2"}
    Key = {"k"}
    MaxGids = 2
    MaxAddFaults = 1
    Hash = {"h1"}
    Cap = {1, 2, 3}
    Unlimited = 3
    MaxTorrentOps = 3
    MaxTorrentFaults = 1
SPECIFICATION Spec
CHECK_DEADLOCK FALSE
INVARIANTS
    ServicesTypeOK
    OneAttemptEach
    AnnouncedOnce
    SettingsInForce
    ReadyHasProcess
    SettingsAreSaved
    RevokedStaysOut
    TorrentsUnderLimit
    ShownSequentialIsRead
    PreparedServiceIsReplaced
PROPERTIES
    DailyIsAnnounced
    FailedIsRetried
    DaemonRegainsAria
    SessionsSurvive
    WebServerFollows
    AnsweredKeyAddsNothing
