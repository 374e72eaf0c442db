SPECIFICATION MSpec
CONSTANTS
    ClockMod = 64
    MaxUnderflow = 32
    SwitchUnderflow = 2
    NumBatches = 1
    NumQueues = 2
    Gcl <- MCGcl
    StartTimes <- MCStartTimes
    MaxGap = 2
    EarlyBy = 1
    LateBy = 1
    Skew = 2
    TmDepth = 2
INVARIANT FirstPacketOnly
CHECK_DEADLOCK FALSE
