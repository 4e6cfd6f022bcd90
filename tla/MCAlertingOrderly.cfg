\* The two workers of the program, a working registry, no crash: outages,
\* certificates that expire and are replaced, a relay that may refuse, a
\* stop and a restart.
CONSTANTS
    s1 = s1
    c1 = c1
    Sites = {s1}
    Channels = {c1}
    Workers = {W1, W2}
    QueueSize = 3
    Retries = 1
    Rules <- DownAndSsl
    NearExpiry = {3, 4}
    Replies = {"ok", "refused"}
    DbFails = FALSE
    Outcomes <- BadOrTwoCerts
    MaxRows = 3
    MaxRestarts = 1
    Stops = TRUE
    Crashes = FALSE
\* A stopped process that is not started again has nothing left to do, nor
\* has a site at MaxRows.
CHECK_DEADLOCK FALSE
SPECIFICATION FairSpec
INVARIANTS
    DownIsAnnounced
    OneDownPerIncident
    CertificateIsAnnounced
PROPERTY StopEnds
