SPECIFICATION Spec
CONSTANTS
    app = app
    poller = poller
    Threads = {app, poller}
    Senders = {app, poller}
    Receivers = {poller}
    Apps = {app}
    Pollers = {poller}
    ResponseWait = FALSE
    MaxCalls = 1
    MaxRequests = 2
    MaxId = 4
    MaxOut = 6
    MaxIn = 2
    OutPackets <- MCOutPackets
    InPackets <- MCInPackets
    Size <- MCSize
    Null = Null
INVARIANTS
    CallbacksOnceInOrder
    PollFailsForCause
