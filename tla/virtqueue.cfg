SPECIFICATION Spec
CONSTANTS
    b1 = b1
    b2 = b2
    Data = {b1, b2}
    NoData = NoData
    Sizes = {1, 2}
    IdxMod = 4
    MaxSg = 2
    Layouts = {TRUE, FALSE}
    Features <- Crossed
    Faults = {"map", "alloc", "notify", "enable"}
SYMMETRY Tokens
VIEW View
INVARIANTS
    RingTypeOK
    NothingLeaks
    NoLostInterrupt
    

    
CHECK_DEADLOCK FALSE
