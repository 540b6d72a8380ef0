SPECIFICATION Spec
CONSTANTS
    fork = fork
    susfs = susfs
    fork2 = fork2
    susfs2 = susfs2
    fork3 = fork3
    susfs3 = susfs3
    j1 = j1
    j2 = j2
    j3 = j3
    Key = {fork, susfs}
    Job = {j1, j2}
    KeysOf <- LinkedKeys
    Susfs = {susfs}
    MaxRef = 2
    MaxAttempts = 5
    InitTrees <- PinnedTree
    Modes = {"candidates"}
    Faults = {"lookup"}
    Outside = {}
    Broken = {}
    Rerun = FALSE
INVARIANTS
    PinnedPairsTested
CHECK_DEADLOCK FALSE
