SPECIFICATION FairSpec
CONSTANTS
    Configs <- MCConfigs
    NumApps = 5
    MaxRuns = 3
    None = None
INVARIANTS
    StampsAreOwn
PROPERTIES
    StartsClean
    QuietUntilActivation
    SettingsAreOwn
    ValidServes
CHECK_DEADLOCK FALSE
