SPECIFICATION MCSpec
CONSTANTS
    Blocks <- MCBlocks
    Genesis = "g"
    Parent <- MCParent
    Height <- MCHeight
    Anc <- MCAnc
    MaxBlockFileSize <- MCMaxBlockFileSize
    PruneTarget = 0
    KeepBlocks = 1
    NoFile = NoFile
    NoLoc = NoLoc
    NoBlock = NoBlock
    Utreexo = TRUE
    Zeros = Zeros
    MaxFile = 3
    MaxJournals = 3
    MaxRestarts = 2
INVARIANT Reopens
CHECK_DEADLOCK FALSE
