SPECIFICATION Spec
CONSTANTS
    app = app
    poller = poller
    Threads = {app, poller}
    Senders = {app, poller}
    Receivers = {app, poller}
    Apps = {app}
    Pollers = {poller}
    ResponseWait = TRUE
    MaxCalls = 1
    MaxRequests = 0
    MaxId = 1
    MaxOut = 1
    MaxIn = 1
    OutPackets <- MCOutPackets
    InPackets <- MCInPackets
    Size <- MCSize
    Null = Null
INVARIANT PollFailsForCause
