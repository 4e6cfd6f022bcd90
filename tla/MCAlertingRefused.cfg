\* The relay refuses the down message.
CONSTANTS
    s1 = s1
    c1 = c1
    Sites = {s1}
    Channels = {c1}
    Workers = {W1, W2}
    QueueSize = 5
    Retries = 1
    Rules <- PairedFirst
    NearExpiry = {}
    Replies = {"ok", "refused"}
    DbFails = FALSE
    Outcomes <- GoodOrBad
    MaxRows = 5
    MaxRestarts = 0
    Stops = FALSE
    Crashes = FALSE
\* A stopped process that is not started again has nothing left to do, nor
\* has a site at MaxRows.
CHECK_DEADLOCK FALSE
SPECIFICATION Spec
INVARIANTS
    RecoveryOnlyIfTold
