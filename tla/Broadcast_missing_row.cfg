SPECIFICATION Spec
CONSTANTS
    h1 = h1
    h2 = h2
    Machines = {1, 2}
    HostOf <- OwnHosts
    LabelOf <- OwnLabels
    Unverifiable = {}
    Asked <- ToAll
    MaxAnswers = 2
INVARIANT EveryExpectedHasRow
CHECK_DEADLOCK FALSE
