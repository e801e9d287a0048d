SPECIFICATION Spec
CONSTANTS
    PKI = FALSE
    MaxMessages = 2
    MaxLost = 0
    MaxFaults = 0
    MaxDrains = 1
    MaxRestarts = 1
INVARIANT CordonedMeansIdle
CHECK_DEADLOCK FALSE
