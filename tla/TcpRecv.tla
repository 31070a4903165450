------------------------------ MODULE TcpRecv ------------------------------
(***************************************************************************)
(* net_tcp_recv_buffer() (deps/netio/tcp_io.c), byte by byte: one recv()   *)
(* of whatever is there until the device is authenticated, afterwards the  *)
(* length prefix and then as many bytes as it says.                        *)
(*                                                                         *)
(* TCP keeps the order of the bytes and forgets how they were written:     *)
(* recv() returns any number of bytes, up to the one asked for, of those   *)
(* under way.  The caller holds the session mutex, so calls follow each    *)
(* other.                                                                  *)
(*                                                                         *)
(* What im_conn_recv_packet() makes of a result is the subject of          *)
(* PacketIO: a negative one is a failure, any other a packet to decode.    *)
(***************************************************************************)
EXTENDS Integers, Sequences

CONSTANTS
    HeadLen,    \* head_len_bytes, the length of the length prefix
    MaxBody,    \* bound: bytes of a message, or misread as its length
    BuffSize,   \* IOBUFF_MAX_SIZE
    MaxFrames,  \* bound: messages of the server
    AuthAnswer, \* "alone": the answer to the authentication comes whole, and
                \* nothing behind it before it is read; "any": cut or joined
    RestComes   \* when a part of a message is there the rest follows in time

ASSUME RecvAssumption ==
    /\ HeadLen \in Nat \ {0}
    /\ MaxBody \in Nat \ {0}
    /\ BuffSize \in Nat /\ BuffSize > HeadLen + MaxBody
    /\ MaxFrames \in Nat
    /\ AuthAnswer \in {"alone", "any"}
    /\ RestComes \in BOOLEAN

VARIABLES
    sizes,      \* sizes[i]: the length of the server's message i
    stream,     \* bytes sent by the server and not yet read
    closed,     \* the server has closed the connection
    headed,     \* netio_set_read_head_length_4() was called
    sock,       \* FALSE once the socket is closed
    pc,         \* where net_tcp_recv_buffer() is
    buff,       \* what this call has read into recv_buff
    want,       \* the packetLen this call has read
    delivered,  \* the contents of the results that were not negative
    trouble     \* the authentication answer did not come alone and whole, or
                \* the rest of a message not in time

vars == <<sizes, stream, closed, headed, sock, pc, buff, want, delivered,
          trouble>>

Byte == [frame : 1..MaxFrames, pos : 1..HeadLen + MaxBody]

Message(i, n) == [j \in 1..HeadLen + n |-> [frame |-> i, pos |-> j]]

TypeOK ==
    /\ sizes \in Seq(1..MaxBody)
    /\ stream \in Seq(Byte)
    /\ closed \in BOOLEAN
    /\ headed \in BOOLEAN
    /\ sock \in BOOLEAN
    /\ pc \in {"idle", "one", "head", "body"}
    /\ buff \in Seq(Byte) /\ Len(buff) <= BuffSize
    /\ want \in 0..MaxBody
    /\ delivered \in Seq(Seq(Byte))
    /\ trouble \in BOOLEAN

Init ==
    /\ sizes = <<>>
    /\ stream = <<>>
    /\ closed = FALSE
    /\ headed = FALSE
    /\ sock = TRUE
    /\ pc = "idle"
    /\ buff = <<>>
    /\ want = 0
    /\ delivered = <<>>
    /\ trouble = FALSE

-----------------------------------------------------------------------------
(* The server                                                              *)

\* A message.  The first one answers the authentication.
Write(n) ==
    /\ ~closed
    /\ Len(sizes) < MaxFrames
    /\ AuthAnswer = "alone" /\ sizes # <<>> => headed
    /\ sizes' = Append(sizes, n)
    /\ stream' = stream \o Message(Len(sizes) + 1, n)
    /\ UNCHANGED <<closed, headed, sock, pc, buff, want, delivered, trouble>>

Close ==
    /\ ~closed
    /\ closed' = TRUE
    /\ UNCHANGED <<sizes, stream, headed, sock, pc, buff, want, delivered, trouble>>

\* The connection is lost with the end of a message still under way.
Lose ==
    /\ ~RestComes
    /\ headed
    /\ stream # <<>>
    /\ closed' = TRUE
    /\ stream' = SubSeq(stream, 1, Len(stream) - 1)
    /\ trouble' = TRUE
    /\ UNCHANGED <<sizes, headed, sock, pc, buff, want, delivered>>

-----------------------------------------------------------------------------
(* The client                                                              *)

\* After the answer: im_auth_device_with_nic_desc()
Authenticated ==
    /\ pc = "idle"
    /\ ~headed
    /\ delivered # <<>>
    /\ headed' = TRUE
    /\ UNCHANGED <<sizes, stream, closed, sock, pc, buff, want, delivered, trouble>>

Call ==
    /\ pc = "idle"
    /\ sock
    /\ headed \/ delivered = <<>>
    /\ pc' = IF headed THEN "head" ELSE "one"
    /\ buff' = <<>>
    /\ UNCHANGED <<sizes, stream, closed, headed, sock, want, delivered, trouble>>

\* The call returns a length, whatever it is.
Deliver(bytes) ==
    /\ pc' = "idle"
    /\ delivered' = Append(delivered, bytes)

\* Mutant: recv() with MSG_PEEK, as in net_fd_available_for_read_timeout_msec().
PeekBytes(k) == UNCHANGED stream

\* Mutant: recv() is given room for more, and what is not used is dropped.
DropRest(k) == stream' = <<>>

\* recv() returns the next k bytes.
Take(k) == stream' = SubSeq(stream, k + 1, Len(stream))
Taken(k) == SubSeq(stream, 1, k)

Least(a, b) == IF a < b THEN a ELSE b

\* net_tcp_recv_buffer_one(): whatever is there.  A full buffer is taken for an
\* overflow and the call fails.
RecvOne ==
    /\ pc = "one"
    /\ \E k \in 1..Least(Len(stream), BuffSize) :
          /\ AuthAnswer = "alone" => k = HeadLen + sizes[1]
          /\ Take(k)
          /\ buff' = Taken(k)
          /\ \/ k < BuffSize /\ Deliver(buff')
             \/ k = BuffSize /\ pc' = "idle" /\ UNCHANGED delivered
          /\ trouble' = (trouble \/ buff' # Message(1, sizes[1]))
    /\ UNCHANGED <<sizes, closed, headed, sock, want>>

\* Mutant: the length in a prefix is taken to include the prefix.
LengthWithPrefix(bytes) ==
    IF bytes = Message(bytes[1].frame, 0)
    THEN {sizes[bytes[1].frame] + HeadLen}
    ELSE 0..MaxBody

\* The length a prefix says: misread when the bytes are not a prefix.
LengthIn(bytes) ==
    IF bytes = Message(bytes[1].frame, 0)
    THEN {sizes[bytes[1].frame]}
    ELSE 0..MaxBody

\* Mutant: one recv() is enough.
FirstRecvEnds(bytes, n) == TRUE

\* The loop of net_tcp_recv_with_length() ends.
Complete(bytes, n) == Len(bytes) = n

\* A piece of the length prefix; when it is complete the body is next, or the
\* call fails because the packet would not fit.
RecvHead ==
    /\ pc = "head"
    /\ \E k \in 1..Least(Len(stream), HeadLen - Len(buff)) :
          /\ Take(k)
          /\ buff' = buff \o Taken(k)
          /\ \/ /\ ~Complete(buff', HeadLen)
                /\ UNCHANGED <<pc, want>>
             \/ /\ Complete(buff', HeadLen)
                /\ want' \in LengthIn(buff')
                /\ pc' = "body"
             \/ /\ Complete(buff', HeadLen)
                /\ buff' # Message(buff'[1].frame, 0)
                /\ pc' = "idle"
                /\ UNCHANGED want
    /\ UNCHANGED <<sizes, closed, headed, sock, delivered, trouble>>

RecvBody ==
    /\ pc = "body"
    /\ \E k \in 1..Least(Len(stream), HeadLen + want - Len(buff)) :
          /\ Take(k)
          /\ buff' = buff \o Taken(k)
          /\ \/ /\ ~Complete(buff', HeadLen + want)
                /\ UNCHANGED <<pc, delivered>>
             \/ /\ Complete(buff', HeadLen + want)
                /\ Deliver(buff')
    /\ UNCHANGED <<sizes, closed, headed, sock, want, trouble>>

\* recv() returns 0, the end of the stream or the answer to a request for 0
\* bytes, and the socket is closed.
EndOfStream ==
    \/ stream = <<>> /\ closed
    \/ pc = "body" /\ want = 0

\* Mutant: no read timeout on the socket.
NeverTimesOut == FALSE

\* recv() fails: nothing within the 3 s read timeout.
ReadTimeout ==
    /\ stream = <<>> \/ ~RestComes
    /\ buff = <<>> \/ ~RestComes
    /\ ~closed

\* net_tcp_recv_with_length() or net_tcp_recv_buffer_one() returns -1.  For
\* the prefix that is the result; for the body it is added to the length of
\* the prefix, and the result is a length: one less than the prefix.
RecvFails ==
    /\ pc # "idle"
    /\ EndOfStream \/ ReadTimeout
    /\ sock' = (sock /\ ~EndOfStream)
    /\ trouble' = (trouble \/ (stream \o buff # <<>> /\ ~EndOfStream))
    /\ \/ /\ pc \in {"one", "head"}
          /\ pc' = "idle"
          /\ UNCHANGED delivered
       \/ /\ pc = "body"
          /\ Deliver(SubSeq(buff, 1, HeadLen - 1))
    /\ UNCHANGED <<sizes, stream, closed, headed, buff, want>>

Rest == pc = "idle" /\ UNCHANGED vars

Client == Authenticated \/ Call \/ RecvOne \/ RecvHead \/ RecvBody \/ RecvFails

Next == (\E n \in 1..MaxBody : Write(n)) \/ Close \/ Lose \/ Client \/ Rest

Spec == Init /\ [][Next]_vars
-----------------------------------------------------------------------------
(* Properties                                                              *)

\* Every result that is not negative is one whole message of the server, and
\* the messages come out in order with none left out.
WholeMessagesInOrder ==
    \A k \in 1..Len(delivered) :
        k <= Len(sizes) /\ delivered[k] = Message(k, sizes[k])

\* ... however TCP cuts them, as long as nothing went wrong on the way.
WholeWithoutTrouble == ~trouble => WholeMessagesInOrder

\* ... and none is left out: between two calls, when nothing is under way, all
\* that the server has sent was handed up.
NothingLost ==
    ~trouble /\ stream = <<>> /\ pc = "idle" => Len(delivered) = Len(sizes)

\* The receiving half of FrameChannel: what the server writes is pushed there.
Channel ==
    INSTANCE FrameChannel WITH
        Threads <- {}, OutPackets <- {}, Null <- 0,
        InPackets <- {Message(i, n) : i \in 1..MaxFrames, n \in 1..MaxBody},
        call <- [t \in {} |-> "none"],
        arg <- [t \in {} |-> 0],
        outgoing <- <<>>,
        pushed <- [i \in 1..Len(sizes) |-> Message(i, sizes[i])]

\* Until something goes wrong each step of the byte-wise loop does what the
\* channel of whole messages does, or nothing that can be seen there.
ChannelUntilTrouble == [][trouble' \/ Channel!Next]_(Channel!vars)

\* The server has written byte x before byte y.
Before(x, y) == x.frame < y.frame \/ (x.frame = y.frame /\ x.pos < y.pos)

\* Whatever is lost and however a prefix is misread, no byte of the server is
\* handed up twice or out of order, within a result or from one to a later one.
BytesOnceInOrder ==
    \A k, n \in 1..Len(delivered) :
        \A i \in 1..Len(delivered[k]), j \in 1..Len(delivered[n]) :
            (k < n \/ (k = n /\ i < j)) => Before(delivered[k][i], delivered[n][j])

\* Every call returns, whatever is under way and whatever length it has read.
CallReturns == pc # "idle" ~> pc = "idle"

\* A message of the server is read, unless the connection is closed or
\* something went wrong before.
EveryMessageArrives ==
    \A n \in 1..MaxFrames :
        Len(sizes) >= n ~> Len(delivered) >= n \/ closed \/ trouble
=============================================================================
