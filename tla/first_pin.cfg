SPECIFICATION LiveSpec
CONSTANTS
    fork = fork
    susfs = susfs
    fork2 = fork2
    susfs2 = susfs2
    fork3 = fork3
    susfs3 = susfs3
    j1 = j1
    j2 = j2
    j3 = j3
    Key = {fork, susfs}
    Job = {j1}
    KeysOf <- LinkedKeys
    Susfs = {susfs}
    MaxRef = 1
    MaxAttempts = 5
    InitTrees <- FirstTree
    Modes = {"candidates"}
    Faults = {}
    Outside = {}
    Broken = {}
    Rerun = TRUE
PROPERTIES
    EveryKeyGetsAPin
