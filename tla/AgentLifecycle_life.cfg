SPECIFICATION FairSpec
CONSTANTS
    PKI = TRUE
    MaxMessages = 2
    MaxLost = 2
    MaxFaults = 1
    MaxDrains = 2
    MaxRestarts = 1
INVARIANT TypeOK
INVARIANT DrainedAgentIsIdle
INVARIANT ReadyMeansStarted
INVARIANT LeakHasCause
INVARIANT ConsumesOnlyWithKey
PROPERTY DrainEnds
PROPERTY EnrollmentCompletes
CHECK_DEADLOCK FALSE
