SPECIFICATION FairSpec
CONSTANTS
    a1 = a1
    a2 = a2
    j1 = j1
    j2 = j2
    Agents = {a1}
    Jobs = {j1}
    Api = "_api"
    NoJob = NoJob
    NoOutcome = NoOutcome
    Slots = {1, 2}
    Matches <- AllMatch
    Rejects <- NoneRejected
    AckWait = 4
    BackOff <- NoBackOff
    MaxDeliver = 4
    SlowKV = FALSE
    MaxCrashes = 2
    MaxFaults = 4
INVARIANT NotRedeliveredMidFlight
INVARIANT ExtraExecutionsPaidFor
INVARIANT DeadLetteredOnlyAfterFailures
PROPERTY ImplementsContract
PROPERTY EveryNotificationEnds
CHECK_DEADLOCK FALSE
