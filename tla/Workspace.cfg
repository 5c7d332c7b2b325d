SPECIFICATION Spec
CONSTANTS
    MaxSpawn = 3
    MaxRemote = 1
    MaxTabs = 2
    MaxMoves = 3
INVARIANTS TypeOK OnePanePerSession
PROPERTIES ShellsKeepTheirPane ExitedLeave
CHECK_DEADLOCK FALSE
