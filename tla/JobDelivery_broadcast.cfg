SPECIFICATION Spec
CONSTANTS
    a1 = a1
    a2 = a2
    j1 = j1
    j2 = j2
    Agents = {a1, a2}
    Jobs = {j1, j2}
    Api = "_api"
    NoJob = NoJob
    NoOutcome = NoOutcome
    Slots = {1}
    Matches <- FirstMatches
    Rejects <- NoneRejected
    AckWait = 4
    BackOff <- NoBackOff
    MaxDeliver = 2
    SlowKV = TRUE
    MaxCrashes = 0
    MaxFaults = 1
SYMMETRY AgentSymmetry
INVARIANT TypeOK
INVARIANT TerminalEventHasResponse
INVARIANT AcknowledgedOnlyWhenDecided
INVARIANT ListAgreesWithGet
CHECK_DEADLOCK FALSE
