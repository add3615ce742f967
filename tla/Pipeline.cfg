SPECIFICATION QuerySpec
CONSTANTS
    NumSamples = 4
    Tags = {"t"}
    Labels = {"cat"}
    Datasets <- MCDatasets
    Values = {1, 2}
    Sizes = {1, 3}
    Tables <- MCTables
    MaxStages = 3
    MaxCommits = 2
CHECK_DEADLOCK FALSE
INVARIANTS NoSampleTwice ResultIsOrdered RowsOfOneVersion BalancedDraws
