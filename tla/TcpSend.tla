------------------------------ MODULE TcpSend ------------------------------
(***************************************************************************)
(* net_tcp_send_buffer() (deps/netio/tcp_io.c), byte by byte: the loop     *)
(* that hands a frame to the socket in as many pieces as the kernel takes. *)
(*                                                                         *)
(* The result of send() is kept in a size_t, so an error is not seen by    *)
(* the test for a negative value but added to bytes_sent, where it counts  *)
(* as minus one.  The arithmetic is the one of size_t: SIZE_MAX follows    *)
(* below zero and is not less than the length of any frame.                *)
(*                                                                         *)
(* An error may be the end of the connection or pass: the 3 s write        *)
(* timeout that connecting sets, or a signal.  The loop cannot tell.       *)
(*                                                                         *)
(* The caller holds the session mutex, so calls follow each other.         *)
(***************************************************************************)
EXTENDS Integers, Sequences

CONSTANTS
    FrameLen,    \* bytes of a frame
    SizeLimit,   \* 2^32 or 2^64: a size_t is below it
    MaxErrors,   \* bound: errors that pass
    MaxSends     \* bound: calls

ASSUME SendAssumption ==
    /\ FrameLen \in Nat \ {0}
    /\ SizeLimit \in Nat
    /\ FrameLen < SizeLimit - 1
    /\ MaxErrors \in Nat
    /\ MaxSends \in Nat

VARIABLES
    written,    \* the bytes the kernel has accepted, oldest first
    frame,      \* the number of the frame of this call, 0 before the first
    bytesSent,  \* bytes_sent
    sendPc,     \* where net_tcp_send_buffer() is
    broken,     \* the connection is gone: every send() fails
    passed,     \* errors that have passed
    marred,     \* the frames in the middle of which send() failed
    whole       \* the frames net_tcp_send_buffer() reported as sent

sendVars == <<written, frame, bytesSent, sendPc, broken, passed, marred, whole>>

SentByte == [frame : 1..MaxSends, pos : 1..FrameLen]

SendTypeOK ==
    /\ written \in Seq(SentByte)
    /\ frame \in 0..MaxSends
    /\ bytesSent \in 0..FrameLen \union {SizeLimit - 1}
    /\ sendPc \in {"idle", "send", "return"}
    /\ broken \in BOOLEAN
    /\ passed \in 0..MaxErrors
    /\ marred \subseteq 1..MaxSends
    /\ whole \subseteq 1..MaxSends

SendInit ==
    /\ written = <<>>
    /\ frame = 0
    /\ bytesSent = 0
    /\ sendPc = "idle"
    /\ broken = FALSE
    /\ passed = 0
    /\ marred = {}
    /\ whole = {}

\* A socket that is closed already is reported at once.
BeginSend ==
    /\ sendPc = "idle"
    /\ frame < MaxSends
    /\ frame' = frame + 1
    /\ \/ bytesSent' = 0 /\ sendPc' = "send"
       \/ broken /\ bytesSent' = SizeLimit - 1 /\ sendPc' = "return"
    /\ UNCHANGED <<written, broken, passed, marred, whole>>

\* Mutant: the loop ends after its first send().
Once(n) == "return"

\* The loop condition, on unsigned numbers.
Continue(n) == IF n < FrameLen THEN "send" ELSE "return"

Piece(k) == [i \in 1..k |-> [frame |-> frame, pos |-> bytesSent + i]]

\* Mutant: the whole rest is taken for sent.
TakeRest(k) == FrameLen

AddSent(k) == (bytesSent + k) % SizeLimit

\* send() accepts k bytes.
Accept(k) ==
    /\ sendPc = "send"
    /\ ~broken
    /\ written' = written \o Piece(k)
    /\ bytesSent' = AddSent(k)
    /\ sendPc' = Continue(bytesSent')
    /\ UNCHANGED <<frame, broken, passed, marred, whole>>

\* Mutant: an error leaves bytes_sent as it is, and send() is tried again.
RetryError == bytesSent

\* Mutant: an error counts as plus one.
ErrorAsByte == bytesSent + 1

\* bytes_sent += (size_t)-1
AddError == (bytesSent + SizeLimit - 1) % SizeLimit

\* send() fails, for this time or for good.
FailSend ==
    /\ sendPc = "send"
    /\ bytesSent' = AddError
    /\ sendPc' = Continue(bytesSent')
    /\ marred' = IF bytesSent > 0 THEN marred \union {frame} ELSE marred
    /\ \/ broken' = TRUE /\ UNCHANGED passed
       \/ ~broken /\ passed < MaxErrors /\ passed' = passed + 1 /\ UNCHANGED broken
    /\ UNCHANGED <<written, frame, whole>>

\* Mutant: a part of the frame is enough.
PartReported == bytesSent > 0

Reported == bytesSent = FrameLen

\* im_conn_send_packet() compares the result, an int, with the length.
EndSend ==
    /\ sendPc = "return"
    /\ whole' = IF Reported THEN whole \union {frame} ELSE whole
    /\ sendPc' = "idle"
    /\ UNCHANGED <<written, frame, bytesSent, broken, passed, marred>>

SendRest == sendPc = "idle" /\ UNCHANGED sendVars

InSend == (\E k \in 1..FrameLen - bytesSent : Accept(k)) \/ FailSend \/ EndSend

SendNext == BeginSend \/ InSend \/ SendRest

SendSpec == SendInit /\ [][SendNext]_sendVars

\* send() returns within the write timeout.
SendFairness == WF_sendVars(InSend)

(* Properties                                                              *)

\* The bytes of frame f on the connection are the n + 1st to the mth.
Between(f, n, m) ==
    \A j \in 1..Len(written) : written[j].frame = f <=> j \in n + 1..m

\* Frame f is on the connection in one piece: once, complete and in order.
InOnePiece(f) ==
    \E n \in 0..Len(written) - FrameLen :
        /\ Between(f, n, n + FrameLen)
        /\ \A i \in 1..FrameLen : written[n + i].pos = i

\* Every frame reported as sent is (tcp_io.c:314, which means to end the call
\* at the first error).
SentIsWhole == \A f \in whole : InOnePiece(f)

\* ... if no error has struck in its middle, whatever happened to the others.
CleanIsWhole == \A f \in whole \ marred : InOnePiece(f)

\* A frame reported as sent has no gap, however many errors have passed: what
\* an error spoils is that bytes come again, one for each of them.
NothingLeftOut ==
    \A f \in whole :
        \E n, m \in 0..Len(written) :
            /\ n < m /\ m - n <= FrameLen + passed
            /\ Between(f, n, m)
            /\ written[n + 1].pos = 1 /\ written[m].pos = FrameLen
            /\ \A j \in n + 1..m - 1 : written[j + 1].pos <= written[j].pos + 1

\* The calls of a session leave half a frame in front of another one only if an
\* error has struck in its middle and its call has said that it failed: up to
\* there the server can split the stream at the frames' lengths.
NoFrameBehindHalf ==
    \A j \in 1..Len(written) - 1 :
        \/ written[j].frame = written[j + 1].frame
        \/ written[j].pos = FrameLen
        \/ written[j].frame \in marred \ whole

\* What the caller can know of its frame: whether it is out, and whether the
\* call has said so.
Outcome ==
    IF sendPc = "idle"
    THEN IF frame = 0 THEN "none" ELSE IF frame \in whole THEN "sent" ELSE "failed"
    ELSE IF bytesSent = FrameLen THEN "done" ELSE "pending"

\* The sending half of FrameChannel: a packet is out with the last byte of its
\* frame.
SendChannel ==
    INSTANCE FrameChannel WITH
        Threads <- {1}, OutPackets <- 1..MaxSends, InPackets <- {}, Null <- 0,
        call <- [t \in {1} |-> Outcome],
        arg <- [t \in {1} |-> IF sendPc = "idle" THEN 0 ELSE frame],
        outgoing <- [n \in 1..Len(written) \div FrameLen |->
                       written[n * FrameLen].frame],
        pushed <- <<>>,
        delivered <- <<>>

\* Until an error strikes in the middle of a frame, the loop over send() puts
\* each frame on the connection at once or not at all, as far as its caller can
\* tell: with errors before the first byte of a frame, passing ones and the end
\* of the connection.
ChannelUntilMarred ==
    SendChannel!Init /\ [][marred' # {} \/ SendChannel!Next]_(SendChannel!vars)

\* Every call returns, also on a connection that is gone: the errors count
\* bytes_sent down until it wraps.
SendReturns == sendPc = "send" ~> sendPc = "idle"
=============================================================================
