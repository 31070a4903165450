SPECIFICATION FairSpec
CONSTANTS
    app = app
    poller = poller
    Threads = {app}
    Senders = {app}
    Receivers = {app}
    Apps = {app}
    Pollers = {app}
    ResponseWait = TRUE
    MaxCalls = 2
    MaxRequests = 2
    MaxId = 4
    MaxOut = 6
    MaxIn = 2
    OutPackets <- MCOutPackets
    InPackets <- MCInPackets
    Size <- MCSize
    Null = Null
INVARIANTS
    NoFalseSuccess
    ControlProtocol
    CallbacksOnceInOrder
    PollFailsForCause
PROPERTIES
    EveryMessageRead
    CallsReturn
