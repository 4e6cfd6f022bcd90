\* One request at a time; an update or a stop comes while a check is under way.
CONSTANTS
    Sites = {s1}
    Configs <- OneConfig
    MaxLoops = 3
    StorageFails = FALSE
    Handlers = {h1}
    Keys = {}
    Requests <- PlainRequests
    MaxRequests = 3
    MaxRestarts = 0
    DrainTimeouts = FALSE
\* The process may stop.
CHECK_DEADLOCK FALSE
SPECIFICATION Spec
INVARIANT NoFalseIncident
