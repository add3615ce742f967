SPECIFICATION FairSpec
CONSTANTS
    NoFilter = NoFilter
    Tagged = Tagged
    None = None
    Samples = {1, 2}
    Filters <- MCFilters
    Lists <- MCLists
    LabelsOf <- MCLabelsOf
    Number <- MCNumber
    Inherited <- MCInherited
    ChunkSize = 2
    MaxTasks = 3
INVARIANTS
    
    SpinnersAreTrue
    CocoFilesMatch
    YoloFilesMatch
PROPERTIES
    SpinnersStop
