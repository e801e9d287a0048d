SPECIFICATION Spec
CONSTANTS
    a1 = a1
    a2 = a2
    j1 = j1
    j2 = j2
    Agents = {a1}
    Jobs = {j1}
    Api = "_api"
    NoJob = NoJob
    NoOutcome = NoOutcome
    Slots = {1, 2}
    Matches <- AllMatch
    Rejects <- NoneRejected
    AckWait = 4
    BackOff <- ShippedBackOff
    MaxDeliver = 2
    SlowKV = FALSE
    MaxCrashes = 0
    MaxFaults = 0
INVARIANT NotRedeliveredMidFlight
CHECK_DEADLOCK FALSE
