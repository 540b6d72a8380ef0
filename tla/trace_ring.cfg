SPECIFICATION RingSpec
CONSTANTS
    NrPages = 2
    PageSize = 3
    MinSize = 1
    MaxNest = 2
    Loads <- MixedLoads
INVARIANTS
    RingTypeOK
    RingIsWhole
    
    
    NothingLeftBehind

    
CONSTRAINT NotTorn
