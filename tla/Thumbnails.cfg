SPECIFICATION FairSpec
CONSTANTS
    Requests = {r1, r2, r3}
    Blocks = 2
    NoFile = NoFile
INVARIANTS PartialOnlyUnderOverlap NoLeftovers
PROPERTIES CacheBecomesWhole
