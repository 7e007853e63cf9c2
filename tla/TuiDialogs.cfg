CONSTANTS
    Gid = {"d1", "d2", "d3"}
    Rule = {"r1"}
    NoGid = "none"
    About <- RowsAbout
    Ends <- RowsEnd
    MaxOutside = 1
    MaxKeys = 2
    MaxLosses = 0
SPECIFICATION TuiSpec
CHECK_DEADLOCK FALSE
INVARIANTS
    DialogsActOnTheirDownload
