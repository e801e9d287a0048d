SPECIFICATION Spec
CONSTANTS
    a1 = a1
    a2 = a2
    j1 = j1
    j2 = j2
    Agents = {a1}
    Jobs = {j1}
    Api = "_api"
    NoJob = NoJob
    NoOutcome = NoOutcome
    Slots = {1}
    Matches <- AllMatch
    Rejects <- NoneRejected
    AckWait = 4
    BackOff <- NoBackOff
    MaxDeliver = 2
    SlowKV = FALSE
    MaxCrashes = 1
    MaxFaults = 0
INVARIANT SkippedJobHasTerminalStatus
CHECK_DEADLOCK FALSE
