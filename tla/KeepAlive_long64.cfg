SPECIFICATION KeepSpec
CONSTANTS
    Period = 1
    PollGap = 2
    CopyLimit = 2
    CountLimit = 8
    MaxClock = 24
    MaxSent = 9
INVARIANT TwoPeriods
