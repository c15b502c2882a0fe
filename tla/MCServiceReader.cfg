\* The five checks of a service; the unit may change twice while they run.
CONSTANTS
    Ids = {7, 8}
    Words = {"app", "root"}
    Numerals = {"7", "8"}
    Number <- NumberOf
    Last = 5
    Kind <- AllKinds
    Declared <- Contract
    Passwd <- PasswdTable
    Group <- GroupTable
    Units <- MCUnits
    OtherAnswers <- MCAnswers
    StartFailures = {"other"}
    MaxChanges = 2
SPECIFICATION Spec
INVARIANTS
    ReaderInv
    OneSnapshot
    OneShow
    TimeoutIsOwn
PROPERTY CacheWrittenOnce
CHECK_DEADLOCK FALSE
