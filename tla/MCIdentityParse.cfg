CONSTANTS
    Siblings = 3
    Kind <- MCKind
    Declared <- MCDeclared
    Pids = {1}
    Credentials <- MCCredentials
    StatusFile <- MCStatusFile
    OtherStatus <- MCOtherStatus
    OtherCgroups = {}
    OtherAnswers = {}
    StartFailures = {}
    ProcFailures = {}
    MaxChanges = 0
    MaxEvents = 3
SPECIFICATION Spec
INVARIANT ParseErrorHasOutput
CHECK_DEADLOCK FALSE
