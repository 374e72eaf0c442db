SPECIFICATION OctetsSpec
CONSTANTS
    ClockMod = 32
    MaxUnderflow = 16
    SwitchUnderflow = 2
    StreamGates <- MCStreamGates
    Schedules <- MCSchedules
    FlowMeters <- MCFlowMeters
    StreamHandles <- MCStreamHandles
    Frames <- MCFrames
    MatchRange = 8
    StartTimes <- MCStartTimes
    EarlyBy = 1
    LateBy = 1
    Skew = 2
    FrameLength = 1
INVARIANTS
    OctetsBounded
