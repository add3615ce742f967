SPECIFICATION Spec
CONSTANTS
    Ids <- MCIds
    IdWidth = 4
    Samples <- MCSamples
    Tags = {cat}
    Fields = {boxes}
    LabelValues = {x, y}
    NoLabel = NoLabel
    MaxIdx = 1
    MaxCommits = 3
    MaxPatches = 2
    DistinctEdits = TRUE
INVARIANTS TypeOK TagsAreHeads LabelsAreHeads EveryCommitInverts PlaceIsIndex
PROPERTIES ImplementsVersionedDataset LogOnlyGrows
CHECK_DEADLOCK FALSE
