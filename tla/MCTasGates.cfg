SPECIFICATION FairSpec
CONSTANTS
    ClockMod = 64
    MaxUnderflow = 32
    SwitchUnderflow = 2
    NumBatches = 2
    NumQueues = 2
    Gcl <- MCGcl
    StartTimes <- MCStartTimes
    MaxGap = 1
    EarlyBy = 1
    LateBy = 1
    Skew = 2
    TmDepth = 2
INVARIANTS
    TypeOK
    NoMissedTimeSlot
    GatesExclusive
PROPERTIES
    DiffIsPosition
    GatesFollowSchedule
    GatesKeepSwitching
