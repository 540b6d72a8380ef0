SPECIFICATION Spec
CONSTANTS
    fork = fork
    susfs = susfs
    fork2 = fork2
    susfs2 = susfs2
    fork3 = fork3
    susfs3 = susfs3
    j1 = j1
    j2 = j2
    j3 = j3
    Key = {fork, susfs, fork2, susfs2, fork3, susfs3}
    Job = {j1, j2, j3}
    KeysOf <- MatrixKeys
    Susfs = {susfs, susfs2, susfs3}
    MaxRef = 1
    MaxAttempts = 5
    InitTrees <- BlockedTree
    Modes = {"candidates"}
    Faults = {}
    Outside = {}
    Broken = {}
    Rerun = FALSE
INVARIANTS
    ConflictsNeverExhaust
CHECK_DEADLOCK FALSE
