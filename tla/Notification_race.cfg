SPECIFICATION PoolSpec
CONSTANTS
    a1 = a1
    a2 = a2
    Callers = {a1, a2}
    NoTid = NoTid
    PoolSize = 2
    MaxRounds = 1
    MaxEntries = 1
SYMMETRY CallerSymmetry
INVARIANT PacketsPrivate
