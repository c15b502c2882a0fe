CONSTANTS
    KnownCapabilities <- Capabilities
    Texts <- ShortTexts
    Documents <- AllDocuments
    MaxValue = 4
    MaxLines = 4
SPECIFICATION Spec
INVARIANTS ParsesOutlines QuotesAreExact EveryFieldIsAsked
CHECK_DEADLOCK FALSE
