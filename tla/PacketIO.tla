------------------------------ MODULE PacketIO ------------------------------
(***************************************************************************)
(* The packet layer of a client session: im_conn_send_packet() and         *)
(* im_conn_recv_packet() (client/packet_io.c), the availability test that  *)
(* im_poll() and im_transact_packet_with_response_handler() make before a  *)
(* receive, the session mutex (util/thread.c) and the TCP socket below     *)
(* (deps/netio) seen at the level of whole frames.                         *)
(*                                                                         *)
(* One session has one send buffer, one receive buffer and one mutex.  A   *)
(* packet is serialised into the send buffer BEFORE the mutex is taken and *)
(* a frame is decoded from the receive buffer AFTER it is released, so     *)
(* each buffer is modelled as two regions, the head and the body (with the *)
(* length prefix), that are written and read in separate steps.            *)
(*                                                                         *)
(* Abstractions: a packet is a value, a region of a buffer holds the       *)
(* packet it was last written by, and the socket moves whole frames (the   *)
(* loops over send() and recv() are those of TcpSend and TcpRecv).         *)
(***************************************************************************)
EXTENDS Integers, Sequences

CONSTANTS
    Threads,     \* the application's threads that use this session
    Senders,     \* those that may send
    Receivers,   \* those that may wait for data and receive
    OutPackets,  \* packets the client sends
    InPackets,   \* messages the server sends
    Size,        \* Size[p]: length of the serialised packet p, prefix included
    Null,        \* nobody, nothing
    MaxOut,      \* bound: no new send once this many frames are on the wire
    MaxIn        \* bound: the server sends no more than this many messages

ASSUME ThreadAssumption ==
    /\ Senders \subseteq Threads
    /\ Receivers \subseteq Threads
    /\ Null \notin Threads

ASSUME PacketAssumption ==
    /\ Null \notin OutPackets
    /\ Null \notin InPackets
    /\ Size \in [OutPackets -> Nat]

ASSUME BoundAssumption == MaxOut \in Nat /\ MaxIn \in Nat

VARIABLES
    mutex,       \* cli->mutex_sock_send: its holder, or Null
    sock,        \* TRUE until net_tcp_recv_with_length() closes the socket
    io,          \* io[t]: where t is in the packet layer, or its last result
    pkt,         \* pkt[t]: the packet t is sending
    sent,        \* sent[t]: sent_bytes, the result of netio_send_buffer()
    got,         \* got[t]: the packet t decodes or has decoded
    sendBuff,    \* conn_ctx.send_buff
    recvBuff,    \* conn_ctx.recv_buff
    wire,        \* every frame the socket accepted, oldest first
    inbox,       \* frames in the kernel's receive queue
    pushed,      \* every message the server sent, oldest first
    decoded,     \* every packet handed to a caller, oldest first
    peerClosed,  \* the server closed the connection
    packetCountOut  \* cli->packet_count_out

ioVars == <<mutex, sock, io, pkt, sent, got, sendBuff, recvBuff, wire, inbox,
            pushed, decoded, peerClosed, packetCountOut>>

\* The results a call leaves in io[t]; a new call may start from any of them.
Results == {"idle", "sent", "send_failed", "received", "recv_failed",
            "ready", "nothing", "broken", "interrupted"}

Outbound(S) == [head : S \union {Null}, body : S \union {Null}]

Empty == [head |-> Null, body |-> Null]

IoTypeOK ==
    /\ mutex \in Threads \union {Null}
    /\ sock \in BOOLEAN
    /\ io \in [Threads -> Results \union
                 {"body", "lock_send", "send", "check",
                  "lock_wait", "wait", "lock_recv", "recv",
                  "decode_head", "decode_body"}]
    /\ pkt \in [Threads -> OutPackets \union {Null}]
    /\ sent \in [Threads -> Int]
    /\ got \in [Threads -> Outbound(InPackets)]
    /\ sendBuff \in Outbound(OutPackets)
    /\ recvBuff \in Outbound(InPackets)
    /\ wire \in Seq([head : OutPackets, body : OutPackets])
    /\ inbox \in Seq(InPackets)
    /\ pushed \in Seq(InPackets)
    /\ decoded \in Seq([head : InPackets, body : InPackets])
    /\ peerClosed \in BOOLEAN
    /\ packetCountOut \in Nat

IoInit ==
    /\ mutex = Null
    /\ sock = TRUE
    /\ io = [t \in Threads |-> "idle"]
    /\ pkt = [t \in Threads |-> Null]
    /\ sent = [t \in Threads |-> 0]
    /\ got = [t \in Threads |-> Empty]
    /\ sendBuff = Empty
    /\ recvBuff = Empty
    /\ wire = <<>>
    /\ inbox = <<>>
    /\ pushed = <<>>
    /\ decoded = <<>>
    /\ peerClosed = FALSE
    /\ packetCountOut = 0

Goto(t, from, to) ==
    /\ io[t] = from
    /\ io' = [io EXCEPT ![t] = to]

-----------------------------------------------------------------------------
(* im_conn_send_packet()                                                   *)

\* What a call that has touched nothing but io leaves alone.
exceptIo == <<mutex, sock, pkt, sent, got, sendBuff, recvBuff, wire, inbox,
              pushed, decoded, peerClosed, packetCountOut>>

\* im_packet_get_serialized_to_buff(): the head goes into the shared buffer,
\* with no lock held.
BeginSend(t, p) ==
    /\ t \in Senders
    /\ Len(wire) < MaxOut
    /\ io[t] \in Results
    /\ io' = [io EXCEPT ![t] = "body"]
    /\ pkt' = [pkt EXCEPT ![t] = p]
    /\ sendBuff' = [sendBuff EXCEPT !.head = p]
    /\ UNCHANGED <<mutex, sock, sent, got, recvBuff, wire, inbox, pushed,
                   decoded, peerClosed, packetCountOut>>

\* Mutant: a body that is already in the buffer is left there.
SerializeNoBody(t) ==
    /\ Goto(t, "body", "lock_send")
    /\ sendBuff' = IF sendBuff.body = Null
                   THEN [sendBuff EXCEPT !.body = pkt[t]] ELSE sendBuff
    /\ UNCHANGED <<mutex, sock, pkt, sent, got, recvBuff, wire, inbox, pushed,
                   decoded, peerClosed, packetCountOut>>

\* ... then the body, the length prefix and send_buff.length, still with no
\* lock held.
SerializeBody(t) ==
    /\ Goto(t, "body", "lock_send")
    /\ sendBuff' = [sendBuff EXCEPT !.body = pkt[t]]
    /\ UNCHANGED <<mutex, sock, pkt, sent, got, recvBuff, wire, inbox, pushed,
                   decoded, peerClosed, packetCountOut>>

\* Mutant: the lock call returns without waiting for the holder.
TakeMutexAtOnce(t) == mutex' = t

\* thread_lock_mutex()
TakeMutex(t) ==
    /\ mutex = Null
    /\ mutex' = t

Lock(t, from, to) ==
    /\ Goto(t, from, to)
    /\ TakeMutex(t)
    /\ UNCHANGED <<sock, pkt, sent, got, sendBuff, recvBuff, wire, inbox,
                   pushed, decoded, peerClosed, packetCountOut>>

LockSend(t) == Lock(t, "lock_send", "send")

\* netio_send_buffer(): whatever the buffer holds now is sent.  It fails when
\* the socket was closed, when the peer is gone or when the send buffer of
\* the kernel stays full for the 3 s write timeout.
NetioSend(t) ==
    /\ Goto(t, "send", "check")
    /\ \/ /\ sock
          /\ wire' = Append(wire, sendBuff)
          /\ sent' = [sent EXCEPT ![t] = Size[sendBuff.body]]
       \/ /\ sent' = [sent EXCEPT ![t] = -1]
          /\ UNCHANGED wire
    /\ UNCHANGED <<mutex, sock, pkt, got, sendBuff, recvBuff, inbox, pushed,
                   decoded, peerClosed, packetCountOut>>

\* Mutant: the result of netio_send_buffer() is not looked at.
NeverShort(t) == TRUE

\* The number of bytes sent is compared with the length the buffer has NOW.
AllSent(t) == sent[t] = Size[sendBuff.body]

FinishSend(t) ==
    /\ io[t] = "check"
    /\ \/ /\ AllSent(t)
          /\ packetCountOut' = packetCountOut + 1
          /\ io' = [io EXCEPT ![t] = "sent"]
       \/ /\ ~AllSent(t)
          /\ io' = [io EXCEPT ![t] = "send_failed"]
          /\ UNCHANGED packetCountOut
    /\ mutex' = Null
    /\ pkt' = [pkt EXCEPT ![t] = Null]
    /\ UNCHANGED <<sock, sent, got, sendBuff, recvBuff, wire, inbox, pushed,
                   decoded, peerClosed>>

-----------------------------------------------------------------------------
(* netio_available() of im_poll(), netio_available_timeout() of            *)
(* im_transact_packet_with_response_handler(): poll() for 1 ms or 3 s      *)
(* with the mutex held.                                                    *)

BeginWait(t) ==
    /\ t \in Receivers
    /\ io[t] \in Results
    /\ io' = [io EXCEPT ![t] = "lock_wait"]
    /\ UNCHANGED exceptIo

LockWait(t) == Lock(t, "lock_wait", "wait")

\* Mutant: poll() waits without a timeout.
NeverTimesOut == FALSE

\* poll() returns 0.
TimedOut == sock /\ inbox = <<>> /\ ~peerClosed

\* Data to read, nothing within the timeout, or an error: the socket is
\* closed (sock < 0), the peek of net_fd_available...() sees the peer's end of
\* file, or poll() itself fails, as it does when a signal interrupts it.
FinishWait(t) ==
    /\ io[t] = "wait"
    /\ \/ /\ sock /\ inbox # <<>>
          /\ io' = [io EXCEPT ![t] = "ready"]
       \/ /\ TimedOut
          /\ io' = [io EXCEPT ![t] = "nothing"]
       \/ /\ ~sock \/ (inbox = <<>> /\ peerClosed)
          /\ io' = [io EXCEPT ![t] = "broken"]
       \/ /\ sock
          /\ io' = [io EXCEPT ![t] = "interrupted"]
    /\ mutex' = Null
    /\ UNCHANGED <<sock, pkt, sent, got, sendBuff, recvBuff, wire, inbox,
                   pushed, decoded, peerClosed, packetCountOut>>

-----------------------------------------------------------------------------
(* im_conn_recv_packet()                                                   *)

BeginRecv(t) ==
    /\ t \in Receivers
    /\ io[t] \in Results
    /\ io' = [io EXCEPT ![t] = "lock_recv"]
    /\ UNCHANGED exceptIo

LockRecv(t) == Lock(t, "lock_recv", "recv")

\* Mutant: only the length prefix and the head are read.
HeadOnly(m) == [head |-> m, body |-> recvBuff.body]

\* net_tcp_recv_packet_with_header(): the receive buffer after frame m.
Arrived(m) == [head |-> m, body |-> m]

\* Mutant: the frame is only peeked at.
Peek == UNCHANGED inbox

\* Mutant: one recv() with room for a whole buffer, which swallows the frames
\* behind the first, as net_tcp_recv_buffer_one() does.
TakeAll == inbox' = <<>>

\* Exactly one frame leaves the kernel's queue: its length is read first.
TakeOne == inbox' = Tail(inbox)

\* netio_recv_buffer() with the mutex held: a frame, the end of the connection
\* (the socket is closed and sock set to -1), or the 3 s read timeout.  The
\* connection may end within the prefix of the frame that is there; where it
\* ends within the body is the subject of TcpRecv.
NetioRecv(t) ==
    /\ io[t] = "recv"
    /\ \/ /\ sock /\ inbox # <<>>
          /\ recvBuff' = Arrived(Head(inbox))
          /\ TakeOne
          /\ io' = [io EXCEPT ![t] = "decode_head"]
          /\ UNCHANGED sock
       \/ /\ ~sock \/ inbox = <<>> \/ peerClosed
          /\ sock' = (sock /\ ~peerClosed)
          /\ io' = [io EXCEPT ![t] = "recv_failed"]
          /\ UNCHANGED <<recvBuff, inbox>>
    /\ mutex' = Null
    /\ UNCHANGED <<pkt, sent, got, sendBuff, wire, pushed, decoded,
                   peerClosed, packetCountOut>>

\* im_packet_get_deserialized_from_buff(): the head, then the body, read from
\* the shared buffer after the mutex was released.
DecodeHead(t) ==
    /\ Goto(t, "decode_head", "decode_body")
    /\ got' = [got EXCEPT ![t].head = recvBuff.head]
    /\ UNCHANGED <<mutex, sock, pkt, sent, sendBuff, recvBuff, wire, inbox,
                   pushed, decoded, peerClosed, packetCountOut>>

\* A body that does not belong to the head starts at the wrong offset: it may
\* still parse as JSON, or the decoding fails.
DecodeBody(t) ==
    /\ io[t] = "decode_body"
    /\ got' = [got EXCEPT ![t].body = recvBuff.body]
    /\ \/ /\ io' = [io EXCEPT ![t] = "received"]
          /\ decoded' = Append(decoded, [head |-> got[t].head,
                                         body |-> recvBuff.body])
       \/ /\ got[t].head # recvBuff.body
          /\ io' = [io EXCEPT ![t] = "recv_failed"]
          /\ UNCHANGED decoded
    /\ UNCHANGED <<mutex, sock, pkt, sent, sendBuff, recvBuff, wire, inbox,
                   pushed, peerClosed, packetCountOut>>

-----------------------------------------------------------------------------
(* The server's end of the connection                                      *)

Push(m) ==
    /\ ~peerClosed
    /\ Len(pushed) < MaxIn
    /\ inbox' = Append(inbox, m)
    /\ pushed' = Append(pushed, m)
    /\ UNCHANGED <<mutex, sock, io, pkt, sent, got, sendBuff, recvBuff, wire,
                   decoded, peerClosed, packetCountOut>>

PeerClose ==
    /\ ~peerClosed
    /\ peerClosed' = TRUE
    /\ UNCHANGED <<mutex, sock, io, pkt, sent, got, sendBuff, recvBuff, wire,
                   inbox, pushed, decoded, packetCountOut>>

-----------------------------------------------------------------------------

\* The steps of a call after its first one.
IoStep(t) ==
    \/ SerializeBody(t) \/ LockSend(t) \/ NetioSend(t) \/ FinishSend(t)
    \/ LockWait(t) \/ FinishWait(t)
    \/ LockRecv(t) \/ NetioRecv(t) \/ DecodeHead(t) \/ DecodeBody(t)

IoNext ==
    \/ \E t \in Threads :
          \/ \E p \in OutPackets : BeginSend(t, p)
          \/ BeginWait(t)
          \/ BeginRecv(t)
          \/ IoStep(t)
    \/ \E m \in InPackets : Push(m)
    \/ PeerClose

IoSpec == IoInit /\ [][IoNext]_ioVars

\* A wait does not end by a signal.
Undisturbed(t) == io[t] = "wait" => io'[t] # "interrupted"

\* poll(), send() and recv() come back within their timeouts and a thread that
\* holds the mutex is not stopped, so every step inside the critical section
\* is eventually taken.  No signal has to come, and nothing is assumed of who
\* gets the mutex next.
IoFairness ==
    \A t \in Threads :
        WF_ioVars(/\ NetioSend(t) \/ FinishSend(t) \/ FinishWait(t) \/ NetioRecv(t)
                  /\ Undisturbed(t))

IoFairSpec == IoSpec /\ IoFairness

-----------------------------------------------------------------------------
(* Properties                                                              *)

InCritical(t) == io[t] \in {"send", "check", "wait", "recv"}

\* Never two threads inside netio_send_buffer(), netio_recv_buffer() or
\* netio_available() of one session: the mutex of util/thread.c, taken and
\* released on every path of packet_io.c, im_poll() and the transaction.
MutualExclusion ==
    \A t, u \in Threads : InCritical(t) /\ InCritical(u) => t = u

\* packet_count_out, which im_poll() reads to decide whether a keepalive is
\* due, never counts a frame the socket has not accepted.
CountNeverAhead ==
    packetCountOut <= Len(wire)

\* Every frame on the connection is one packet: its head, its body and its
\* length come from the same im_conn_send_packet() call.
FramesIntact ==
    \A i \in 1..Len(wire) : wire[i].head = wire[i].body

\* Every packet im_conn_recv_packet() hands out is one message of the server,
\* head and body.
DecodedWhole ==
    \A i \in 1..Len(decoded) : decoded[i].head = decoded[i].body

\* The messages come out once each and in the order the server sent them; one
\* that is not out yet is in the receive buffer or in the kernel's queue.
DecodedInOrder ==
    /\ Len(decoded) + Len(inbox) <= Len(pushed)
    /\ \A i \in 1..Len(decoded) : decoded[i].head = pushed[i]

\* The session mutex is always released again, whatever the server does: no
\* wait with the mutex held is unbounded.
MutexReleased == []<>(mutex = Null)

-----------------------------------------------------------------------------
(* FrameChannel is what the layer promises.  A packet counts as out when   *)
(* the socket accepts the frame, a message as delivered when it is decoded.*)

Progress(t) ==
    CASE io[t] \in {"body", "lock_send", "send"}   -> "pending"
      [] io[t] = "check" /\ sent[t] # -1           -> "done"
      [] io[t] = "check" /\ sent[t] = -1           -> "pending"
      [] io[t] = "sent"                            -> "sent"
      [] io[t] = "send_failed"                     -> "failed"
      [] OTHER                                     -> "none"

Channel == INSTANCE FrameChannel WITH
    call      <- [t \in Threads |-> Progress(t)],
    arg       <- pkt,
    outgoing  <- [i \in 1..Len(wire) |-> wire[i].head],
    delivered <- [i \in 1..Len(decoded) |-> decoded[i].head]

\* One sender and one receiver: the buffers, the late lock and the early unlock
\* cannot be told from a channel that moves whole packets.
ImplementsChannel == Channel!Spec
=============================================================================
