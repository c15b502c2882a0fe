\* Two ids, two words and two numerals, one of which is no id; the host may
\* change once while up to four checks run.
CONSTANTS
    Ids = {0, 1}
    Words = {"root", "bob"}
    Numerals = {"1", "-1"}
    Number <- MCNumber
    Paths = {1, 2}
    Sections <- MCSections
    Files <- MCFiles
    LstatFailures = {"permission", "other"}
    Passwds <- MCPasswds
    Groups <- MCGroups
    MaxChanges = 1
SPECIFICATION Spec
INVARIANTS
    ResolverInv
    OwnershipIsGrounded
    AnswersAreForced
PROPERTY LoadsEnd
CHECK_DEADLOCK FALSE
