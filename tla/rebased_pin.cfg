SPECIFICATION Spec
CONSTANTS
    fork = fork
    susfs = susfs
    fork2 = fork2
    susfs2 = susfs2
    fork3 = fork3
    susfs3 = susfs3
    j1 = j1
    j2 = j2
    j3 = j3
    Key = {fork}
    Job = {j1}
    KeysOf <- SingleKeys
    Susfs = {fork}
    MaxRef = 3
    MaxAttempts = 5
    InitTrees <- PinnedTree
    Modes = {"candidates"}
    Faults = {"rebase"}
    Outside = {}
    Broken = {}
    Rerun = FALSE
INVARIANTS
    PinsBuilt
CHECK_DEADLOCK FALSE
