CONSTANTS
    Inputs <- MCInputs
    CheckStatuses = {"PASS", "FAIL", "NOT_APPLICABLE", "INSUFFICIENT_DATA", "ERROR"}
    Setups <- MCSetups
SPECIFICATION FairSpec
INVARIANTS
    EngineInv
    GateHolds
    GatingKeepsExitCode
    AnswersAreOwn
    OnlyAbandonedOverlap
    GatedForCause
PROPERTIES
    ResultsOnlyGrow
    RunEnds
    KeepsContract
CHECK_DEADLOCK FALSE
