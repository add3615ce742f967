SPECIFICATION FairSpec
CONSTANTS
    Jobs = {commit, index}
    Mutations = {commit}
    MaxFiles = 2
    MaxCrashes = 1
INVARIANTS ResultIsTrue TableFollowsMemory NoOrphans
PROPERTIES NoLateEffect OnlyRestartRewrites RefusedIsOver EveryJobEnds
