CONSTANTS
    alice = alice
    bob = bob
    Side = {alice, bob}
    Modulus = 8
    TxWin = 3
    First = 6
    MaxTx = {0, 1}
    Sdus <- SdusOfEach
    MaxLost = 2
    MaxFull = 1
    MaxEarly = 1
SPECIFICATION LiveErtmSpec
CHECK_DEADLOCK FALSE
INVARIANTS
    ErtmTypeOK
    AckedHasArrived
    WaitingIsTimed
    NothingLooksWrong
PROPERTIES
    
    ComesToRest
