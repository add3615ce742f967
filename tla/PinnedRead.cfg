SPECIFICATION PinnedSpec
CONSTANTS
    Ids <- MCIds
    IdWidth = 2
    Samples <- MCSamples
    Tags = {cat}
    Fields = {boxes}
    LabelValues = {x, y}
    NoLabel = NoLabel
    MaxIdx = 1
    MaxCommits = 3
    MaxPatches = 2
    DistinctEdits = TRUE
SYMMETRY LabelSymmetry
CHECK_DEADLOCK FALSE
INVARIANTS PinnedReadIsExact PinnedReadSucceeds
