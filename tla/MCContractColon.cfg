CONSTANTS
    KnownCapabilities <- Capabilities
    Texts <- ShortTexts
    Documents <- PlainKeys
    MaxValue = 4
    MaxLines = 1
SPECIFICATION Spec
INVARIANT ColonsAreQuoted
CHECK_DEADLOCK FALSE
