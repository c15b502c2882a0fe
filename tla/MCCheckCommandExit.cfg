CONSTANTS
    Contracts <- MCContracts
    Filters <- MCFilters
    Raws <- MCRaws
    MaxShown = 2
    RawLimit = 8
    SuffixSize = 2
    MarkSize = 3
SPECIFICATION Spec
INVARIANT ThreeIsBeforeTheEngine
CHECK_DEADLOCK FALSE
