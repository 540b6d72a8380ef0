SPECIFICATION Spec
CONSTANTS
    fork = fork
    susfs = susfs
    fork2 = fork2
    susfs2 = susfs2
    fork3 = fork3
    susfs3 = susfs3
    j1 = j1
    j2 = j2
    j3 = j3
    Key = {fork}
    Job = {j1, j2}
    KeysOf <- SingleKeys
    Susfs = {fork}
    MaxRef = 2
    MaxAttempts = 2
    InitTrees <- MixedTrees
    Modes = {"release", "pinned", "candidates", "dry"}
    Faults = {"fetch", "push", "reply", "kill", "lookup", "infra", "rebase", "issue"}
    Outside = {"commit", "flag"}
    Broken = {}
    Rerun = FALSE
INVARIANTS
    TypeOK
    PinsTested
    
    VerdictsFitTheFailure
CHECK_DEADLOCK FALSE
