SPECIFICATION MCFairSpec
CONSTANTS
    Blocks = {"g", "a1", "a2", "b2", "b3", "c1", "c2", "x1"}
    Genesis = "g"
    Parent <- MCParent
    Height <- MCHeight
    Anc <- MCAnc
    Work <- MCWork
    Bad = {"b3", "x1"}
    Ops = {"block", "invalidate", "reconsider"}
    Procs = {"sync", "rpc"}
    NetSync = "sync"
    NoProc = "none"
    NoBlock = "nil"
    MaxOrphans = 1
    MaxBusy = 2
    MaxCrashes = 0
    Scenes <- MCCalls
CHECK_DEADLOCK FALSE
INVARIANTS
    InductiveInv
    CleanAlone
PROPERTY
    CallsReturn
