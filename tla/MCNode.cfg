SPECIFICATION MCSpec
CONSTANTS
    Parent <- ParentOf
    Tips = {2, 5}
    Requests <- GetData
    MaxBlocksPerMsg = 2
    MaxRange = 2
    Askers = {1}
    MaxMoves = 7
CONSTRAINT Few
INVARIANTS
    PeersExact
    
    
    
    ListenersBounded
CHECK_DEADLOCK FALSE
