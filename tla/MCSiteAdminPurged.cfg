\* One request at a time; the purge runs before the loop has opened its database.
CONSTANTS
    Sites = {s1}
    Configs <- OneConfig
    MaxLoops = 3
    StorageFails = FALSE
    Handlers = {h1}
    Keys = {}
    Requests <- PlainRequests
    MaxRequests = 3
    MaxRestarts = 0
    DrainTimeouts = FALSE
\* The process may stop.
CHECK_DEADLOCK FALSE
SPECIFICATION Spec
INVARIANT PurgedIsGone
