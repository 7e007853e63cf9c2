CONSTANTS
    Editor = {"page"}
    ProgramOf <- OneProgram
    FirstRules <- TwoRules
    NewRule = "n"
    BadRule = "x"
    Hours = 1
    MaxRules = 3
    MaxSettings = 1
    MaxRefreshFaults = 0
SPECIFICATION SettingsSpec
CHECK_DEADLOCK FALSE
PROPERTIES
    DeleteRemovesItsRow
