SPECIFICATION Spec
CONSTANTS
    s1 = s1
    s2 = s2
    s3 = s3
    None = None
    Samples <- MCSamples
    Positions <- MCPositions
    Lists <- MCLists
    Views <- MCViews
    MAX_TEXTURES = 2
    MaxLoads = 4
INVARIANT
    CellsShowTheirSamples
