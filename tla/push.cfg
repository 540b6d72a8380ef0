SPECIFICATION LivePushSpec
CONSTANTS
    Key = {fork, susfs}
    Job = {j1, j2}
    MaxRef = 1
    MaxAttempts = 2
    Faults = {"fetch", "push", "reply", "kill"}
    Outside = {"commit", "flag"}
    InitTrees <- StartTrees
INVARIANTS
    PushTypeOK
    TipCommitIsPatchOfMain
PROPERTIES
    NoLostUpdate
    EveryCallReturns
