CONSTANTS
    Inputs <- MCInputs
    CheckStatuses = {"PASS", "FAIL", "ERROR"}
    Setups <- CommandLine
    Jobs <- MCJobs
    MaxRun = 5
SPECIFICATION PlannedSpec
INVARIANTS
    PlansAreAccepted
    NothingIsJudgedElsewhere
CHECK_DEADLOCK FALSE
