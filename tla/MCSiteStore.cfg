\* One loop, up to four rows over six instants.  It stops there: no action is
\* enabled once the clock and the rows are spent, hence no deadlock check.
CONSTANTS
    Loops = {L1}
    Outcomes <- SomeOutcomes
    MaxRows = 4
    MaxTime = 5
    MinIntervalSeconds = 1
    DefaultIntervalSeconds = 1
    DefaultSlowIntervalSeconds = 2
    MaxIntervalSeconds = 8
    DefaultSSLWarnDays = 1
    SecondsPerDay = 1
    Slugs = {"shop"}
    Submitted <- SomeSites
    Worlds <- SomeWorlds
    BrokenWorlds <- SomeBroken
    HealthyWorlds <- SomeHealthy
    MaxChanges = 1
    MaxFaults = 1
    Timeout = 1
    Starts = {0, 2}
    BucketCounts = {3}
    Percents = {0, 50, 66, 95}
    ListLimits = {1, 5}
SPECIFICATION CheckingSpec
INVARIANTS
    IncidentAgreement
    TrailingFailures
    IncidentsAreFailingRuns
    IncidentsArePeriods
    SlowChecksKeepUp
    HealthIsSeen
    PercentileIsQuantile
    SeriesSummarisesWindow
    OngoingHeadsTheList
PROPERTIES
    HistoryIsAppendOnly
CHECK_DEADLOCK FALSE
