------------------------------ MODULE ImClient ------------------------------
(***************************************************************************)
(* The client session above the packet layer: notifications and their      *)
(* acknowledgements (client/api_device.c), im_poll() with its keepalive,   *)
(* the request/response transaction, the dispatch of the server's requests *)
(* (client/client.c) and the control (525) and retrieve (711) handlers.    *)
(*                                                                         *)
(* Every thread runs one API call at a time; ctl[t] is the point the call  *)
(* has reached and op[t] the call.  A transaction that reads somebody      *)
(* else's message dispatches it in place, so a handler may run inside      *)
(* im_resource_notification_send() as well as inside im_poll().  The calls *)
(* into PacketIO are its actions: a step here that needs the connection is *)
(* a conjunction with BeginSend, BeginWait or BeginRecv.                   *)
(*                                                                         *)
(* The System interface (api_system.c) has the same handlers under other   *)
(* message types; one of the two is modelled.                              *)
(***************************************************************************)
EXTENDS PacketIO

CONSTANTS
    Apps,          \* threads that send notifications
    Pollers,       \* threads that call im_poll()
    ResponseWait,  \* cli->response_wait_sw
    MaxCalls,      \* bound: notifications and keepalives started
    MaxRequests,   \* bound: requests of the server
    MaxId          \* bound: messageIds the client draws

NoId == 0   \* a message without a messageId in its extended header

ASSUME ClientAssumption ==
    /\ Apps \union Pollers = Threads
    /\ Senders = Threads
    /\ Pollers \subseteq Receivers
    /\ ResponseWait => Apps \subseteq Receivers
    /\ ResponseWait \in BOOLEAN
    /\ MaxCalls \in Nat
    /\ MaxRequests \in Nat
    /\ MaxId \in Nat

VARIABLES
    ctl,        \* ctl[t]: where t is in its API call
    op,         \* op[t]: "notify", "keepalive" (of im_poll) or "poll"
    req,        \* req[t]: the request a transaction waits an answer for
    nextId,     \* the next messageId of im_head_init()
    calls,      \* notifications and keepalives started
    returned,   \* outcomes of im_resource_notification_send()
    callbacks,  \* the application's handler calls, oldest first
    stopped,    \* stopped[t]: why im_poll() returned -1, "no" if it did not
    served,     \* server: frames it has read
    asked       \* server: requests it has made

clientVars == <<ctl, op, req, nextId, calls, returned, callbacks, stopped>>
serverVars == <<served, asked>>
vars == <<ioVars, clientVars, serverVars>>

Types == {"notify", "keepalive", "control", "retrieve"}
Packet(ty, ex, i) == [type |-> ty, exch |-> ex, id |-> i]

\* ok: the responseCode is 2000 (of a response), the "to" URL of the resource
\* can be parsed (of a request).
Message(ty, ex, i, ok) == [type |-> ty, exch |-> ex, id |-> i, ok |-> ok]

\* The client numbers its messages upwards from 1, the server its own
\* downwards from -1: the two never choose the same messageId.
PacketIds == -MaxRequests .. MaxId
ClientPackets == [type : Types, exch : {"request", "response", "report"},
                  id : PacketIds]
ServerMessages == [type : Types, exch : {"request", "response"},
                   id : PacketIds, ok : BOOLEAN]

ASSUME AlphabetAssumption ==
    /\ OutPackets = ClientPackets
    /\ InPackets = ServerMessages

TypeOK ==
    /\ IoTypeOK
    /\ ctl \in [Threads -> {"idle", "sending", "waiting", "receiving",
                            "responding", "reporting"}]
    /\ op \in [Threads -> {"none", "notify", "keepalive", "poll"}]
    /\ req \in [Threads -> ClientPackets \union {Null}]
    /\ nextId \in 1..MaxId + 1
    /\ calls \in 0..MaxCalls
    /\ returned \subseteq [req : ClientPackets, rc : {0, -1}]
    /\ callbacks \in Seq([head : ServerMessages, body : ServerMessages])
    /\ stopped \in [Threads -> {"no", "keepalive", "poll", "interrupted"}]
    /\ served \in 0..Len(wire)
    /\ asked \in 0..MaxRequests

Init ==
    /\ IoInit
    /\ ctl = [t \in Threads |-> "idle"]
    /\ op = [t \in Threads |-> "none"]
    /\ req = [t \in Threads |-> Null]
    /\ nextId = 1
    /\ calls = 0
    /\ returned = {}
    /\ callbacks = <<>>
    /\ stopped = [t \in Threads |-> "no"]
    /\ served = 0
    /\ asked = 0

At(t, from, to) ==
    /\ ctl[t] = from
    /\ ctl' = [ctl EXCEPT ![t] = to]

-----------------------------------------------------------------------------
(* The calls of the application                                            *)

\* im_resource_notification_send(): the packet was prepared by
\* im_resource_notification_init(), which drew its messageId.
Notify(t) ==
    /\ t \in Apps
    /\ calls < MaxCalls
    /\ nextId <= MaxId
    /\ At(t, "idle", "sending")
    /\ op' = [op EXCEPT ![t] = "notify"]
    /\ req' = [req EXCEPT ![t] = Packet("notify", "request", nextId)]
    /\ BeginSend(t, Packet("notify", "request", nextId))
    /\ nextId' = nextId + 1
    /\ calls' = calls + 1
    /\ UNCHANGED <<returned, callbacks, stopped, serverVars>>

\* im_poll() that goes straight to check_again.
Poll(t) ==
    /\ t \in Pollers
    /\ stopped[t] = "no"
    /\ At(t, "idle", "waiting")
    /\ op' = [op EXCEPT ![t] = "poll"]
    /\ BeginWait(t)
    /\ UNCHANGED <<req, nextId, calls, returned, callbacks, stopped, serverVars>>

\* im_poll() whose keepalive timer has run out: im_session_keepalive() first.
\* The timer is the subject of KeepAlive; here it runs out at any time.
PollKeepalive(t) ==
    /\ t \in Pollers
    /\ stopped[t] = "no"
    /\ calls < MaxCalls
    /\ nextId <= MaxId
    /\ At(t, "idle", "sending")
    /\ op' = [op EXCEPT ![t] = "keepalive"]
    /\ req' = [req EXCEPT ![t] = Packet("keepalive", "request", nextId)]
    /\ BeginSend(t, Packet("keepalive", "request", nextId))
    /\ nextId' = nextId + 1
    /\ calls' = calls + 1
    /\ UNCHANGED <<returned, callbacks, stopped, serverVars>>

\* Why a call fails: a signal that interrupted its wait, or what it was doing.
Cause(t) == IF io[t] = "interrupted" THEN "interrupted" ELSE op[t]

\* The call returns rc.  The samples leave their loop when im_poll() fails.
Return(t, rc) ==
    /\ ctl' = [ctl EXCEPT ![t] = "idle"]
    /\ op' = [op EXCEPT ![t] = "none"]
    /\ req' = [req EXCEPT ![t] = Null]
    /\ returned' = IF op[t] = "notify"
                   THEN returned \union {[req |-> req[t], rc |-> rc]}
                   ELSE returned
    /\ stopped' = IF op[t] # "notify" /\ rc < 0
                  THEN [stopped EXCEPT ![t] = Cause(t)]
                  ELSE stopped
    /\ UNCHANGED <<nextId, calls, callbacks, ioVars, serverVars>>

\* Back to wait_data or to check_again.
WaitAgain(t) ==
    /\ ctl' = [ctl EXCEPT ![t] = "waiting"]
    /\ BeginWait(t)

-----------------------------------------------------------------------------
(* im_transact_packet_with_response_handler() and the loop of im_poll()    *)

\* A notification expects an answer only when response_wait_sw is on, a
\* keepalive always does.
ExpectsAnswer(t) == op[t] = "keepalive" \/ ResponseWait

Sent(t) ==
    /\ ctl[t] = "sending"
    /\ \/ /\ io[t] = "send_failed"
          /\ Return(t, -1)
       \/ /\ io[t] = "sent" /\ ~ExpectsAnswer(t)
          /\ Return(t, 0)
       \/ /\ io[t] = "sent" /\ ExpectsAnswer(t)
          /\ WaitAgain(t)
          /\ UNCHANGED <<op, req, nextId, calls, returned, callbacks, stopped,
                         serverVars>>

\* Mutant: a timeout (0) taken for an error (< 0).
NothingFails(t) == FALSE

NothingIsNormal(t) == op[t] = "poll"

\* For im_poll() an empty connection is the normal end, for a transaction it
\* is a failure.
Waited(t) ==
    /\ ctl[t] = "waiting"
    /\ \/ /\ io[t] = "ready"
          /\ ctl' = [ctl EXCEPT ![t] = "receiving"]
          /\ BeginRecv(t)
          /\ UNCHANGED <<op, req, nextId, calls, returned, callbacks, stopped,
                         serverVars>>
       \/ /\ io[t] = "nothing" /\ NothingIsNormal(t)
          /\ Return(t, 0)
       \/ /\ \/ io[t] \in {"broken", "interrupted"}
             \/ io[t] = "nothing" /\ ~NothingIsNormal(t)
          /\ Return(t, -1)

ReceiveFailed(t) ==
    /\ ctl[t] = "receiving"
    /\ io[t] = "recv_failed"
    /\ Return(t, -1)

\* What a thread does with the message it has received.

\* Mutant: any response answers the request, the messageId is not compared.
AnyAnswer(t) == op[t] # "poll" /\ got[t].head.exch = "response"

IsAnswer(t) == op[t] # "poll" /\ got[t].head.id = req[t].id
IsDropped(t) == op[t] # "poll" /\ got[t].head.id = NoId
IsDispatched(t) == ~IsAnswer(t) /\ ~IsDropped(t)

HasMessage(t) == ctl[t] = "receiving" /\ io[t] = "received"

\* The answer: response_packet_handler_411() wants the code 2000,
\* response_packet_handler_231() takes any; im_poll() goes on after its
\* keepalive.
Answered(t) ==
    /\ HasMessage(t)
    /\ IsAnswer(t)
    /\ \/ /\ op[t] = "notify"
          /\ Return(t, IF got[t].head.ok THEN 0 ELSE -1)
       \/ /\ op[t] = "keepalive"
          /\ op' = [op EXCEPT ![t] = "poll"]
          /\ req' = [req EXCEPT ![t] = Null]
          /\ WaitAgain(t)
          /\ UNCHANGED <<nextId, calls, returned, callbacks, stopped, serverVars>>

Dropped(t) ==
    /\ HasMessage(t)
    /\ IsDropped(t)
    /\ WaitAgain(t)
    /\ UNCHANGED <<op, req, nextId, calls, returned, callbacks, stopped,
                   serverVars>>

-----------------------------------------------------------------------------
(* packet_handler(): the message type alone selects the handler            *)

Callback(t) == callbacks' = Append(callbacks, got[t])

\* request_packet525_handler(): the Response comes first.  For a request
\* without messageId it carries the number im_head_init() drew.
DispatchControl(t) ==
    /\ HasMessage(t)
    /\ IsDispatched(t)
    /\ got[t].head.type = "control"
    /\ ctl' = [ctl EXCEPT ![t] = "responding"]
    /\ \/ /\ got[t].head.id # NoId
          /\ BeginSend(t, Packet("control", "response", got[t].head.id))
          /\ UNCHANGED nextId
       \/ /\ got[t].head.id = NoId
          /\ nextId <= MaxId
          /\ BeginSend(t, Packet("control", "response", nextId))
          /\ nextId' = nextId + 1
    /\ UNCHANGED <<op, req, calls, returned, callbacks, stopped, serverVars>>

\* Mutant: the handler runs whether or not the Response could be sent.
HandledAnyway(t) == got[t].head.id # NoId /\ got[t].head.ok

\* The early returns between the Response and the application's handler.
Handled(t) == io[t] = "sent" /\ got[t].head.id # NoId /\ got[t].head.ok

\* im_packet525_request_handler_simple(), once the Response is out: the
\* application's handler, then the Report.
Responded(t) ==
    /\ ctl[t] = "responding"
    /\ io[t] \in {"sent", "send_failed"}
    /\ \/ /\ ~Handled(t)
          /\ WaitAgain(t)
          /\ UNCHANGED callbacks
       \/ /\ Handled(t)
          /\ Callback(t)
          /\ ctl' = [ctl EXCEPT ![t] = "reporting"]
          /\ BeginSend(t, Packet("control", "report", got[t].head.id))
    /\ UNCHANGED <<op, req, nextId, calls, returned, stopped, serverVars>>

\* The 711 handlers: the application's handler, then the Response.
DispatchRetrieve(t) ==
    /\ HasMessage(t)
    /\ IsDispatched(t)
    /\ got[t].head.type = "retrieve"
    /\ \/ /\ got[t].head.id = NoId \/ ~got[t].head.ok
          /\ WaitAgain(t)
          /\ UNCHANGED callbacks
       \/ /\ got[t].head.id # NoId /\ got[t].head.ok
          /\ Callback(t)
          /\ ctl' = [ctl EXCEPT ![t] = "reporting"]
          /\ BeginSend(t, Packet("retrieve", "response", got[t].head.id))
    /\ UNCHANGED <<op, req, nextId, calls, returned, stopped, serverVars>>

\* Acknowledgements that reach packet_handler() are logged and forgotten.
DispatchOther(t) ==
    /\ HasMessage(t)
    /\ IsDispatched(t)
    /\ got[t].head.type \in {"notify", "keepalive"}
    /\ WaitAgain(t)
    /\ UNCHANGED <<op, req, nextId, calls, returned, callbacks, stopped,
                   serverVars>>

\* Whether the last packet of a handler went out or not, the handler is done.
Reported(t) ==
    /\ ctl[t] = "reporting"
    /\ io[t] \in {"sent", "send_failed"}
    /\ WaitAgain(t)
    /\ UNCHANGED <<op, req, nextId, calls, returned, callbacks, stopped,
                   serverVars>>

-----------------------------------------------------------------------------
(* The server: it reads the frames in order and answers the requests among *)
(* them, sooner or later or not at all; it refuses some, and it may accept *)
(* a frame whose body is another packet's.                                 *)

\* A code or URL that the client never looks at has one value for both.
Verdicts(looked) == IF looked THEN BOOLEAN ELSE {TRUE}

Serve ==
    /\ ~peerClosed
    /\ served < Len(wire)
    /\ served' = served + 1
    /\ LET p == wire[served + 1].head IN
          \/ /\ p.exch = "request"
             /\ \E ok \in Verdicts(p.type # "keepalive") :
                Push(Message(p.type, "response", p.id, ok))
          \/ UNCHANGED ioVars
    /\ UNCHANGED <<asked, clientVars>>

Ask ==
    /\ asked < MaxRequests
    /\ asked' = asked + 1
    /\ \E ty \in {"control", "retrieve"}, i \in {NoId, -(asked + 1)} :
          \E ok \in Verdicts(i # NoId) : Push(Message(ty, "request", i, ok))
    /\ UNCHANGED <<served, clientVars>>

Close == PeerClose /\ UNCHANGED <<clientVars, serverVars>>

-----------------------------------------------------------------------------

InCall(t) ==
    \/ IoStep(t) /\ UNCHANGED <<clientVars, serverVars>>
    \/ Sent(t) \/ Waited(t) \/ ReceiveFailed(t) \/ Answered(t) \/ Dropped(t)
    \/ DispatchControl(t) \/ Responded(t)
    \/ DispatchRetrieve(t) \/ DispatchOther(t) \/ Reported(t)

\* An application may stay outside the API for ever (its loop has ended, or the
\* bounds of the model are reached); a thread stuck inside a call is a deadlock.
Rest ==
    /\ \A t \in Threads : ctl[t] = "idle"
    /\ UNCHANGED vars

Next ==
    \/ \E t \in Threads : Notify(t) \/ Poll(t) \/ PollKeepalive(t) \/ InCall(t)
    \/ Serve
    \/ Ask
    \/ Close
    \/ Rest

Spec == Init /\ [][Next]_vars

\* A thread inside a call goes on, and a polling thread calls im_poll() again
\* (the loop of the samples).  The server owes nothing, and nobody has to send
\* a notification or a signal.
Fairness ==
    \A t \in Threads : WF_vars(InCall(t) /\ Undisturbed(t)) /\ WF_vars(Poll(t))

FairSpec == Spec /\ Fairness
-----------------------------------------------------------------------------
(* Properties                                                              *)

WireHeads == {wire[i].head : i \in 1..Len(wire)}

\* The server took notification p whole, and acknowledged it with 2000.
Accepted(p) ==
    /\ \E i \in 1..Len(wire) : wire[i] = [head |-> p, body |-> p]
    /\ \E i \in 1..Len(pushed) :
          pushed[i] = Message("notify", "response", p.id, TRUE)

\* In response-wait mode im_resource_notification_send() returns 0 only for a
\* notification whose whole frame the server has acknowledged with 2000: not
\* for somebody else's answer, a late one of an earlier call, or a refusal.
NoFalseSuccess ==
    \A r \in returned : r.rc = 0 => Accepted(r.req)

\* A control request is answered in the order of client.c:843-851 and
\* api_device.c:397-430: the application's handler runs only after the Response
\* is on the connection, the Report goes out only after the handler ran.
ControlProtocol ==
    /\ \A k \in 1..Len(callbacks) :
          callbacks[k].head.type = "control" =>
             Packet("control", "response", callbacks[k].head.id) \in WireHeads
    /\ \A p \in WireHeads :
          p.exch = "report" =>
             \E k \in 1..Len(callbacks) : callbacks[k].head.id = p.id

\* The application's handlers run at most once per request of the server and in
\* the order of the requests, also when some are read by im_poll() and others
\* inside a transaction, and each gets the body of its own request.
CallbacksOnceInOrder ==
    /\ \A j, k \in 1..Len(callbacks) :
          j < k => callbacks[j].head.id > callbacks[k].head.id
    /\ \A k \in 1..Len(callbacks) : callbacks[k].body = callbacks[k].head

\* Apart from a keepalive without answer and a signal that interrupts its own
\* wait, im_poll() fails, and a sample's loop ends, only when the connection is
\* gone: never because another thread has read the message it saw.
PollFailsForCause ==
    \A t \in Threads : stopped[t] = "poll" => peerClosed

\* The acknowledgement of a notification never reaches packet_handler()
\* (client.c:396).
NoAckDispatched ==
    \A t \in Threads :
        HasMessage(t) /\ IsDispatched(t) => got[t].head.type # "notify"

\* A message of the server is read sooner or later, in im_poll() or in a
\* transaction, unless the connection is closed or im_poll() gave up.
EveryMessageRead ==
    \A n \in 1..MaxIn :
        Len(pushed) >= n ~> \/ Len(decoded) >= n
                            \/ peerClosed
                            \/ \E t \in Threads : stopped[t] # "no"

\* Every API call returns, whatever the server answers or leaves unanswered.
CallsReturn ==
    \A t \in Threads : ctl[t] # "idle" ~> ctl[t] = "idle"

\* The client's use of the packet layer is a behaviour of PacketIO.
UsesPacketIO == IoSpec
=============================================================================
