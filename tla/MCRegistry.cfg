\* Two requests at a time, five in all, with one fault, on every release's file.
\* Once the bounds are spent a serving registry has nothing left to do.
CONSTANTS
    History <- registryMigrations
    MaxFaults = 1
    Clients = {P1, P2}
    SiteIds = {"shop"}
    Kinds = {"site_down"}
    ChannelInputs <- SomeChannels
    RuleInputs <- SomeRules
    TargetIds = {1, 2}
    MaxRequests = 5
    MaxSiteChanges = 1
SPECIFICATION FairSpec
INVARIANTS
    SchemaMatchesVersion
    RulesHaveChannels
    SettingsAreAsAsked
    EventsFindWhatWasAsked
PROPERTIES
    RegistryServes
CHECK_DEADLOCK FALSE
