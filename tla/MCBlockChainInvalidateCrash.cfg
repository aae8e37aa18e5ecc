SPECIFICATION MCSpec
CONSTANTS
    Blocks = {"g", "a1", "a2"}
    Genesis = "g"
    Parent <- MCParent
    Height <- MCHeight
    Anc <- MCAnc
    Work <- MCWork
    Bad = {}
    Ops = {"block", "invalidate"}
    Procs = {"sync", "rpc"}
    NetSync = "sync"
    NoProc = "none"
    NoBlock = "nil"
    MaxOrphans = 1
    MaxBusy = 1
    MaxCrashes = 1
    Scenes <- MCWhole
CHECK_DEADLOCK FALSE
INVARIANT
    BestChainClean
