SPECIFICATION PartsSpec
CONSTANTS
    a1 = a1
    a2 = a2
    a3 = a3
    t1 = t1
    t2 = t2
    Callers = {a1, a2, a3}
    NoTid = NoTid
    PoolSize = 2
    MaxRounds = 2
    MaxEntries = 1
    Threads = {t1, t2}
    TicksPerSec = 2
    StartSec = 1
    IntLimit = 3
    CounterLimit = 2
    MaxTime = 5
    MaxShift = 2
    MaxCalls = 3
    MaxOvertaken = 2
    Period = 1
    PollGap = 2
    CopyLimit = 2
    CountLimit = 4
    MaxClock = 24
    MaxSent = 9
SYMMETRY PartsSymmetry
INVARIANTS
    SharedOnlyIfMet
    SentOwn
    PacedOnAverage
    IdsRepeatOnlyAfterSetback
    SleepsBounded
    TwoPeriods
    OnePeriod
