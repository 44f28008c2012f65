\* Three things the user does, one that another tab does, one failure.
SPECIFICATION FairSpec
CONSTANTS
    Root = Root
    Login = Login
    None = None
    Limit = 2
    MaxSessions = 3
    MaxClicks = 3
    MaxTroubles = 1
INVARIANTS
    TypeOK
    RemovedIsLeft
PROPERTY NothingHangs
CHECK_DEADLOCK FALSE
