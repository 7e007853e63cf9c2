CONSTANTS
    Gid = {"d1", "d2", "d3"}
    Rule = {"r1", "r2"}
    NoGid = "none"
    About <- RowsAbout
    Ends <- RowsEnd
    MaxOutside = 1
    MaxKeys = 3
    MaxLosses = 1
    MaxVersion = 2
    MaxInteractions = 2
    MaxEdits = 1
    MaxNetFaults = 1
    Watched = {"w1", "w2"}
    Subject = "w1"
    Goal = {"complete", "error"}
    MaxMoves = 2
    Editor = {"page", "command", "terminal"}
    ProgramOf <- Program
    FirstRules <- TwoRules
    NewRule = "n"
    BadRule = "x"
    Hours = 2
    MaxRules = 3
    MaxSettings = 2
    MaxRefreshFaults = 1
    Usual = 100
    Rate = {10, 100, 1000}
    ChangeConfirmation = 3
    MaxRates = 45
    MaxRefreshes = 9
    MaxOddities = 3
    Item = {1, 2, 3}
    SizeOf <- Sizes
    WeightOf <- Weights
    BatchNo = {0, 1}
    Capacities = {0, 1, 2}
    SlotCounts = {1, 2}
    Scale = 12
    HourLength = 2
    Clock = 2
SPECIFICATION Spec
CHECK_DEADLOCK FALSE
INVARIANTS
    FrontEndsTypeOK
    EventsReplay
    OwnEditsVisible
    DraggedLandsBeside
    OutliersNeedConfirmation
    BatchEndsWithItsBytes
PROPERTIES
    TerminalReconnects
    ViewNeverGoesBack
    UnsavedTextStays
    ShownPageCatchesUp
