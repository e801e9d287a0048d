SPECIFICATION PollSpec
CONSTANTS
    a1 = a1
    a2 = a2
    j1 = j1
    j2 = j2
    Agents = {a1}
    Jobs = {j1, j2}
    Api = "_api"
    NoJob = NoJob
    NoOutcome = NoOutcome
    Slots = {1}
    Matches <- AllMatch
    Rejects <- RejectsSecond
    AckWait = 4
    BackOff <- NoBackOff
    MaxDeliver = 2
    SlowKV = FALSE
    MaxCrashes = 1
    MaxFaults = 0
    Polled = {j1}
INVARIANT PolledOutcomeHasResponse
PROPERTY SettledIsFinal
CHECK_DEADLOCK FALSE
