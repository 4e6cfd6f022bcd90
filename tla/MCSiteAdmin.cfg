\* Two requests at a time, on one site, safety and liveness.
CONSTANTS
    Sites = {s1}
    Configs <- ThreeConfigs
    MaxLoops = 3
    StorageFails = TRUE
    Handlers = {h1, h2}
    Keys = {"k1"}
    Requests <- SomeRequests
    MaxRequests = 3
    MaxRestarts = 1
    DrainTimeouts = FALSE
\* The process may stop.
CHECK_DEADLOCK FALSE
SPECIFICATION FairSpec
INVARIANTS
    InSync
    StoreIsLive
    OneLiveLoop
PROPERTIES
    KeyIsPreserved
    CancelledLoopEnds
    ProcessStops
