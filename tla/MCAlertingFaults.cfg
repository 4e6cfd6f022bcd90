\* Two workers; the registry, the relay and the process all fail, and the
\* queue overflows.
CONSTANTS
    s1 = s1
    c1 = c1
    Sites = {s1}
    Channels = {c1}
    Workers = {W1, W2}
    QueueSize = 1
    Retries = 1
    Rules <- AllKinds
    NearExpiry = {3}
    Replies = {"ok", "refused", "lost"}
    DbFails = TRUE
    Outcomes <- BadOrCert
    MaxRows = 2
    MaxRestarts = 1
    Stops = TRUE
    Crashes = TRUE
\* A stopped process that is not started again has nothing left to do, nor
\* has a site at MaxRows.
CHECK_DEADLOCK FALSE
SYMMETRY WorkersAlike
SPECIFICATION Spec
INVARIANTS
    TypeOK
    OneDeliverer
    LogIsTrue
    RecoveryFollowsDown
PROPERTIES
    DeliversAtMostOnce
