SPECIFICATION MCSpec
CONSTANTS
    Blocks = {"g", "a1", "a2", "b2", "c1"}
    Genesis = "g"
    Parent <- MCParent
    Height <- MCHeight
    Anc <- MCAnc
    Work <- MCWork
    Bad = {}
    Ops = {"block", "invalidate"}
    Procs = {"sync", "rpc"}
    NetSync = "sync"
    NoProc = "none"
    NoBlock = "nil"
    MaxOrphans = 1
    MaxBusy = 1
    MaxCrashes = 0
    Scenes <- MCWhole
CHECK_DEADLOCK FALSE
INVARIANT
    SideBranchTakesOver
