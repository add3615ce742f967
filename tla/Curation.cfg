SPECIFICATION Spec
CONSTANTS
    Dashboards = {d1}
    Scripts = {s1}
    MaxCommits = 3
    MaxLooks = 2
    MaxRequests = 5
CHECK_DEADLOCK FALSE
INVARIANTS UndoErasesOnlyShown OneUndoPerLook OnlyUndoneLeavesHistory
