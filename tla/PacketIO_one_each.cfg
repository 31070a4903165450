SPECIFICATION IoFairSpec
CONSTANTS
    t1 = t1
    t2 = t2
    t3 = t3
    p1 = p1
    p2 = p2
    Threads = {t1, t2}
    Senders = {t1}
    Receivers = {t2}
    OutPackets = {p1, p2}
    InPackets = {m1, m2}
    Size <- MCSize
    Null = Null
    MaxOut = 2
    MaxIn = 3
INVARIANTS
    MutualExclusion
    CountNeverAhead
    FramesIntact
    DecodedInOrder
PROPERTIES
    ImplementsChannel
    MutexReleased
