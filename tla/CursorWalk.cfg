SPECIFICATION FairSpec
CONSTANTS
    N = 5
    Limit = 2
    MaxMutations = 3
INVARIANTS NeverSkips RepeatsNeedMutations
PROPERTIES WalkEnds
