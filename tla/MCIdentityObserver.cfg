\* Three checks of one service, so that two can be given up on and still be at
\* work when the third starts; its one PID can be freed and taken again.
CONSTANTS
    Siblings = 3
    Kind <- MCKind
    Declared <- MCDeclared
    Pids = {1}
    Credentials <- MCCredentials
    StatusFile <- MCStatusFile
    OtherStatus <- MCOtherStatus
    OtherCgroups <- MCOtherCgroups
    OtherAnswers <- MCAnswers
    StartFailures = {"gone"}
    ProcFailures = {"other"}
    MaxChanges = 2
    MaxEvents = 3
SPECIFICATION Spec
INVARIANTS
    ObserverInv
    VerdictIsGrounded
    WorkIsShared
    OneObservation
    TimeoutHasACause
CHECK_DEADLOCK FALSE
