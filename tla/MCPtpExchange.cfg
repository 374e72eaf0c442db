SPECIFICATION FairSpec
CONSTANTS
    SeqMod = 4
    HwMod = 4
    UpperMod = 2
    ReadAttempts = 2
    MaxDisturbances = 2
    MaxQueued = 2
    MaxLosses = 1
    None = None
INVARIANTS
    NoHalfSample
    SampleFromOneExchange
    TimesExact
PROPERTIES
    KeepsSampling
