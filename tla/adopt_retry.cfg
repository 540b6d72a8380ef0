SPECIFICATION SourceSpec
CONSTANTS
    Modes = {"adopt"}
    Resolved = {}
    Step = 1
    MaxUpstream = 1
    MaxMade = 1
INVARIANTS
    AdoptRetriesFailedPushes
CHECK_DEADLOCK FALSE
