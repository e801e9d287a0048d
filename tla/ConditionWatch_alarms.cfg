SPECIFICATION FairSpec
CONSTANTS
    Conditions = {c1, c2}
    Renotify = TRUE
    Deleted = Deleted
    NoEntry = NoEntry
    MaxFeed = 2
    MaxFaults = 2
    MaxRestarts = 1
INVARIANT WatchTypeOK
INVARIANT AlarmsMatchRegistry
PROPERTY ConditionTold
PROPERTY ActiveToldAgain
PROPERTY StopIsTold
CHECK_DEADLOCK FALSE
