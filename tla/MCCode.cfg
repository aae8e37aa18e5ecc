SPECIFICATION MCSpec
CONSTANTS
    Programs <- ScriptPrograms
    Vocabularies <- ScriptVocabularies
    RuleSets <- ScriptRuleSets
    SequenceBits <- ScriptSequenceBits
    MaxStackSize = 9
    MaxOpsPerScript = 4
    MaxScriptElementSize = 100
    MaxPubKeysPerMultiSig = 3
    maxScriptNumLen = 2
    cltvMaxScriptNumLen = 3
    LockTimeThreshold = 50
    Samples <- WireSamples
    Pvers <- WirePvers
    Probe <- WireProbe
INVARIANTS
    EnginesSound
    
    HeadersSound
    
CHECK_DEADLOCK FALSE
