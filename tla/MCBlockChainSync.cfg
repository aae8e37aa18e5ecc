SPECIFICATION MCSpec
CONSTANTS
    Blocks = {"g", "a1", "a2", "b2", "b3", "x1", "h1"}
    Genesis = "g"
    Parent <- MCParent
    Height <- MCHeight
    Anc <- MCAnc
    Work <- MCWork
    Bad = {"b3", "x1"}
    Ops = {"block", "header"}
    Procs = {"sync", "rpc"}
    NetSync = "sync"
    NoProc = "none"
    NoBlock = "nil"
    MaxOrphans = 2
    MaxBusy = 1
    MaxCrashes = 1
    Scenes <- MCWhole
CHECK_DEADLOCK FALSE
INVARIANTS
    BestChainClean
    ValidMarkSound
    MostWork
    HeaderLeads
    OrphanOrStored
    DiskFollows
