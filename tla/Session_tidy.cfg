SPECIFICATION FairSpec
CONSTANTS
    t1 = t1
    t2 = t2
    b1 = b1
    b2 = b2
    Threads = {t1, t2}
    MaxHandle = 1
    Blocks = {b1, b2}
    MaxFd = 2
    Null = Null
    InitsApart = TRUE
    Joined = TRUE
    Tidy = TRUE
INVARIANTS
    OneSessionEach
    SlotsComeBack
    OwnSocketOnly
    NoSocketLost
PROPERTY HangUpNoticed
