SPECIFICATION MCSpec
CONSTANTS
    Blocks <- MCBlocks
    Genesis = "g"
    Parent <- MCParent
    Height <- MCHeight
    Anc <- MCAnc
    MaxBlockFileSize <- MCMaxBlockFileSize
    PruneTarget = 3
    KeepBlocks = 1
    NoFile = NoFile
    NoLoc = NoLoc
    NoBlock = NoBlock
    Utreexo = TRUE
    Zeros = Zeros
    MaxFile = 3
    MaxJournals = 4
    MaxRestarts = 1
INVARIANTS
    RecordsReadable
    EntriesKept
    
    AnswersSound
    
    DatabaseSound
CHECK_DEADLOCK FALSE
