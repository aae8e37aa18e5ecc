SPECIFICATION MCSpec
CONSTANTS
    Peers = {"a", "b"}
    NoPeer = "nil"
    MaxHeight = 2
    Has <- MCHas
    Services <- MCServices
    Witness = {"a", "b"}
    Utreexo = {"a"}
    Txs = {9}
    Configs <- MCConfigs
    CurrentFrom = 1
    LimitedBlocks = 1
    MaxInvPerMsg = 2
    MaxTTLs = 1
    MaxRequested = 2
    ChanCap = 1
    MaxQueued = 1
    MaxFaults = 2
INVARIANTS
    PeersAccounted
    
    ClientServed
    
    MinerSound
    

    
CHECK_DEADLOCK FALSE
