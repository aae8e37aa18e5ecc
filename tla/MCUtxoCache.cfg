SPECIFICATION MCFairSpec
CONSTANTS
    Blocks <- MCBlocks
    Genesis = "g"
    Parent <- MCParent
    Height <- MCHeight
    Anc <- MCAnc
    Outpoints <- MCOutpoints
    Spends <- MCSpends
    Creates <- MCCreates
    Transient <- MCTransient
    UtxoAt <- MCUtxoAt
    Procs = {sync, rpc}
    NetSync = sync
    NoProc = NoProc
    NoBlock = NoBlock
    Pruning = FALSE
    KeepBlocks = 1
    MaxCrashes = 1
    Scenes <- MCScenes
INVARIANTS
    Consistent
    Recoverable
    InductiveInv
PROPERTIES
    ImplementsUtxoSet
    RecoveryCompletesUnpruned
