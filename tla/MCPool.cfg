SPECIFICATION MCSpec
CONSTANTS
    Transactions <- MCTx
    MaxSatoshi = 20
    BaseSubsidy = 8
    SubsidyInterval = 3
    CoinbaseMaturity = 1
    MaxBlockBaseSize = 300
    MaxBlockWeight = 900
    MaxBlockSigOpsCost = 400
    LockTimeThreshold = 3
    Granularity = 2
    MaxStandardTxWeight = 400
    MaxStandardSigScriptSize = 10
    MaxStandardP2SHSigOps = 2
    MaxStandardMultiSigKeys = 3
    MinHighPriority = 0
    FreeSize = 61
    Policies <- MCPolicies
    BlockList <- MCBlocks
    Genesis = 1
    MaxReplacementEvictions = 2
    CoinbaseId = 105
    HeaderWeight = 40
INVARIANTS
    
    EstimatorSound
PROPERTIES
    FeesNeverFall
    RollbackRestores
CHECK_DEADLOCK FALSE
