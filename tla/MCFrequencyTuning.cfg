SPECIFICATION Spec
CONSTANTS
    WarmUp = 100
    SyncLimit = 100
    OutlierLimit = 150
    Capacity = 3
    Adjustment <- MCAdjustment
    FineStep = 1
    Gains <- MCGains
    FirstErrors <- MCFirstErrors
    Noise <- MCNoise
    MaxFailures = 1
INVARIANT LockedAfterWarmUp
