SPECIFICATION LiveSourceSpec
CONSTANTS
    Modes <- AllModes
    Resolved = {2}
    Step = 2
    MaxUpstream = 2
    MaxMade = 2
INVARIANTS
    SourceTypeOK
    
    NeverGrafted
PROPERTIES
    OnlyForceRewrites
    EveryRunEnds
CHECK_DEADLOCK FALSE
