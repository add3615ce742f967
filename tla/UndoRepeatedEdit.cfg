SPECIFICATION Spec
CONSTANTS
    Ids <- MCIds
    IdWidth = 4
    Samples <- MCOneSample
    Tags = {cat}
    Fields = {boxes}
    LabelValues = {x, y}
    NoLabel = NoLabel
    MaxIdx = 1
    MaxCommits = 2
    MaxPatches = 2
    DistinctEdits = FALSE
INVARIANT LabelsAreHeads
CHECK_DEADLOCK FALSE
