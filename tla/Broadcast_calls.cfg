SPECIFICATION FairSpec
CONSTANTS
    h1 = h1
    h2 = h2
    Machines = {1, 2, 3}
    HostOf <- SharedHost
    LabelOf <- NestedLabels
    Unverifiable = {1}
    Asked <- EveryKind
    MaxAnswers = 5
INVARIANT TypeOK
INVARIANT RowsTellTheAnswers
INVARIANT ReportsAsManyAsExpected
INVARIANT WaitsOnlyForTheMissing
INVARIANT OnlyNamedHostsReported
INVARIANT ExpectedReceive
INVARIANT ValidTargetIsRouted
PROPERTY CallReturns
CHECK_DEADLOCK FALSE
