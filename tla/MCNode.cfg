SPECIFICATION NodeFairSpec
CONSTANTS
    Launches <- AllLaunches
    MaxLaunches = 2
INVARIANTS
    AuthoringReady
PROPERTIES
    PurgeUndoesLaunch
    EssentialFailureEndsNode
CHECK_DEADLOCK FALSE
