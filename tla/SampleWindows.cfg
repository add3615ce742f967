SPECIFICATION FairSpec
CONSTANTS
    All = All
    Tagged = Tagged
    None = None
    Filters <- MCFilters
    Count <- MCCount
    Columns <- MCColumns
    CHUNK_SIZE = 2
    Rows = 1
    MaxVersion = 1
INVARIANTS
    NeededIsVisible
    SettledIsShown
PROPERTIES
    OutdatedIsReplaced
