SPECIFICATION FairSpec
CONSTANTS
    WarmUp = 1
    SyncLimit = 2
    OutlierLimit = 3
    BaseLimit = 20
    Epochs <- MCEpochs
    Noise <- MCNoise
    MaxDrift = 4
    MaxLag = 1
    MaxTime = 7
    None = None
    Target = 5
    SpinWindow = 1
PROPERTIES
    EnabledOnTime
    EnabledOnlyInSync
    CorrectionConverges
    ActivationHappens
