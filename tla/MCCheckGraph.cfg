CONSTANTS
    MaxChecks = 3
    MaxPrereqs = 2
    Inputs <- MCInputs
SPECIFICATION GraphSpec
INVARIANTS
    ValidationInv
    Topological
    CycleIsReal
    AcceptsExactlyDAGs
    SortedUnlessRequired
PROPERTY
    ValidationEnds
CHECK_DEADLOCK FALSE
