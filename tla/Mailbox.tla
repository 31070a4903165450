------------------------------ MODULE Mailbox ------------------------------
(***************************************************************************)
(* The receiving side of the MQTT transport (deps/netio/mqtt_io.c).        *)
(*                                                                         *)
(* The MQTT library has a thread of its own.  It hands every message to    *)
(* im_mqtt_onMsgarrvd(), which copies it into __data_recv, the only one    *)
(* the process has: first the bytes, then the length.  im_poll() and       *)
(* transactions look at the length and, in another call, copy all of       *)
(* __data_recv, bytes first, and set the length to 0.  They lock the       *)
(* session's mutex, the callback does not.                                 *)
(*                                                                         *)
(* A payload is copied in pieces; another thread can come between two.     *)
(***************************************************************************)
EXTENDS Integers, Sequences

CONSTANTS
    Readers,     \* the threads that poll or wait for an answer
    Messages,    \* what the server may send
    Pieces,      \* Pieces[m]: in how many pieces m is copied
    Size,        \* pieces of IOBUFF_MAX_SIZE
    Nothing,     \* no message, no thread
    MaxArrivals  \* bound: messages that arrive

ASSUME MailboxAssumption ==
    /\ Size \in Nat \ {0}
    /\ Pieces \in [Messages -> 1..Size]
    /\ Nothing \notin Messages /\ Nothing \notin Readers
    /\ MaxArrivals \in Nat

VARIABLES
    apart,    \* the server's next message waits until the last one was read
    up,       \* the connection is there
    arrived,  \* the messages handed to the callback
    writing,  \* the piece im_mqtt_onMsgarrvd() copies next, 0 outside of it
    data,     \* __data_recv.data
    length,   \* __data_recv.length
    mutex,    \* mutex_sock_send
    pc,       \* pc[r]: where r is inside a call
    reading,  \* reading[r]: the piece net_mqtt_recv_buffer() copies next
    copy,     \* copy[r]: what r has copied
    copied,   \* copied[r]: the length r has copied
    read      \* the messages handed to the callers

vars == <<apart, up, arrived, writing, data, length, mutex, pc, reading, copy,
          copied, read>>

reader == <<mutex, pc, reading, copy, copied, read>>

Buffers == [1..Size -> Messages \union {Nothing}]

TypeOK ==
    /\ apart \in BOOLEAN /\ up \in BOOLEAN
    /\ arrived \in Seq(Messages)
    /\ writing \in 0..Size + 1
    /\ data \in Buffers
    /\ length \in 0..Size
    /\ mutex \in Readers \union {Nothing}
    /\ pc \in [Readers -> {"out", "wait", "seen", "copy", "clear", "failed"}]
    /\ reading \in [Readers -> 1..Size + 1]
    /\ copy \in [Readers -> Buffers]
    /\ copied \in [Readers -> 0..Size]
    /\ read \in Seq([data : Buffers, length : 1..Size])

Empty == [k \in 1..Size |-> Nothing]

\* net_mqtt_connect() leaves no message in the mailbox.
Init ==
    /\ apart \in BOOLEAN /\ up = TRUE
    /\ arrived = <<>>
    /\ writing = 0
    /\ data = Empty /\ length = 0
    /\ mutex = Nothing
    /\ pc = [r \in Readers |-> "out"]
    /\ reading = [r \in Readers |-> 1]
    /\ copy = [r \in Readers |-> Empty]
    /\ copied = [r \in Readers |-> 0]
    /\ read = <<>>

-----------------------------------------------------------------------------
(* The MQTT library's thread                                               *)

Arrive(m) ==
    /\ up /\ writing = 0
    /\ Len(arrived) < MaxArrivals
    /\ apart => /\ length = 0
                /\ \A r \in Readers : pc[r] \notin {"copy", "clear"}
    /\ arrived' = Append(arrived, m)
    /\ writing' = 1
    /\ UNCHANGED <<apart, up, data, length, reader>>

Current == arrived[Len(arrived)]

\* Mutant: the length is set as soon as the copying begins.
LengthFirst == IF writing = 1 THEN length' = Pieces[Current] ELSE UNCHANGED length

LengthLater == UNCHANGED length

\* im_mqtt_onMsgarrvd(): the bytes ...
WritePiece ==
    /\ writing > 0
    /\ writing <= Pieces[Current]
    /\ data' = [data EXCEPT ![writing] = Current]
    /\ writing' = writing + 1
    /\ LengthLater
    /\ UNCHANGED <<apart, up, arrived, reader>>

\* ... and the length.
WriteLength ==
    /\ writing > 0
    /\ writing > Pieces[Current]
    /\ length' = Pieces[Current]
    /\ writing' = 0
    /\ UNCHANGED <<apart, up, arrived, data, reader>>

\* im_mqtt_onConnlost() writes a line into the log.
Lose ==
    /\ up
    /\ up' = FALSE
    /\ UNCHANGED <<apart, arrived, writing, data, length, reader>>

-----------------------------------------------------------------------------
(* im_poll() and transactions                                              *)

LockWait(r) ==
    /\ pc[r] = "out"
    /\ mutex = Nothing
    /\ mutex' = r
    /\ pc' = [pc EXCEPT ![r] = "wait"]
    /\ UNCHANGED <<apart, up, arrived, writing, data, length, reading, copy,
                   copied, read>>

\* Mutants: the caller reads without a message; a lost connection hides it.
AnyAvailable == TRUE

AvailableIfUp == up /\ length > 0

Available == length > 0

\* net_mqtt_available_timeout_msec() never returns a negative number: a lost
\* connection looks like one without messages.
FinishWait(r) ==
    /\ pc[r] = "wait"
    /\ mutex' = Nothing
    /\ pc' = [pc EXCEPT ![r] = IF Available THEN "seen" ELSE "out"]
    /\ UNCHANGED <<apart, up, arrived, writing, data, length, reading, copy,
                   copied, read>>

LockRecv(r) ==
    /\ pc[r] = "seen"
    /\ mutex = Nothing
    /\ mutex' = r
    /\ pc' = [pc EXCEPT ![r] = "copy"]
    /\ reading' = [reading EXCEPT ![r] = 1]
    /\ UNCHANGED <<apart, up, arrived, writing, data, length, copy, copied, read>>

\* net_mqtt_recv_buffer(): the bytes, the length ...
ReadPiece(r) ==
    /\ pc[r] = "copy"
    /\ reading[r] <= Size
    /\ copy' = [copy EXCEPT ![r][reading[r]] = data[reading[r]]]
    /\ reading' = [reading EXCEPT ![r] = @ + 1]
    /\ UNCHANGED <<apart, up, arrived, writing, data, length, mutex, pc, copied,
                   read>>

ReadLength(r) ==
    /\ pc[r] = "copy"
    /\ reading[r] > Size
    /\ copied' = [copied EXCEPT ![r] = length]
    /\ pc' = [pc EXCEPT ![r] = "clear"]
    /\ UNCHANGED <<apart, up, arrived, writing, data, length, mutex, reading,
                   copy, read>>

\* What the first n pieces of a buffer hold.
Contents(b, n) ==
    [data |-> [k \in 1..Size |-> IF k <= n THEN b[k] ELSE Nothing], length |-> n]

Cleared == 0

\* ... and the mailbox is empty.  A length of 0 is taken for the end of the
\* connection, and the caller fails.
Clear(r) ==
    /\ pc[r] = "clear"
    /\ length' = Cleared
    /\ mutex' = Nothing
    /\ IF copied[r] > 0
       THEN /\ read' = Append(read, Contents(copy[r], copied[r]))
            /\ pc' = [pc EXCEPT ![r] = "out"]
       ELSE /\ pc' = [pc EXCEPT ![r] = "failed"]
            /\ UNCHANGED read
    /\ UNCHANGED <<apart, up, arrived, writing, data, reading, copy, copied>>

Rest == (\A r \in Readers : pc[r] \in {"out", "failed"}) /\ UNCHANGED vars

Step(r) ==
    \/ LockWait(r) \/ FinishWait(r) \/ LockRecv(r)
    \/ ReadPiece(r) \/ ReadLength(r) \/ Clear(r)

Callback == WritePiece \/ WriteLength

Next ==
    \/ \E r \in Readers : Step(r)
    \/ \E m \in Messages : Arrive(m)
    \/ Callback
    \/ Lose
    \/ Rest

Spec == Init /\ [][Next]_vars

\* The threads of the library and of the application keep running, and the
\* application keeps polling.
FairSpec == Spec /\ WF_vars(Callback) /\ \A r \in Readers : WF_vars(Step(r))
-----------------------------------------------------------------------------
(* Properties                                                              *)

Whole(m) ==
    [data   |-> [k \in 1..Size |-> IF k <= Pieces[m] THEN m ELSE Nothing],
     length |-> Pieces[m]]

\* If messages do not overlap and one thread reads, every read gives one message,
\* whole, and each message is given once and in its turn.  (Otherwise one is
\* lost, given twice or mixed with another: a second reader that has seen the
\* message the first one takes copies the bytes of the next one too early.)
ReadWholeInOrder ==
    apart =>
        /\ Len(read) <= Len(arrived)
        /\ \A i \in 1..Len(read) : read[i] = Whole(arrived[i])

\* The receiving half of FrameChannel: a message is pushed when it arrives.
Channel ==
    INSTANCE FrameChannel WITH
        Threads <- {}, OutPackets <- {}, Null <- 0,
        InPackets <- {Whole(m) : m \in Messages},
        call <- [t \in {} |-> "none"],
        arg <- [t \in {} |-> 0],
        outgoing <- <<>>,
        pushed <- [i \in 1..Len(arrived) |-> Whole(arrived[i])],
        delivered <- read

\* Then each step does what the channel of whole messages does, or nothing that
\* can be seen there.
ChannelIfApart == [][apart => Channel!Next]_(Channel!vars)

\* One thread that reads never finds the mailbox empty after it has seen a
\* message there, whatever arrives meanwhile: im_poll() does not fail.
NeverEmptyHanded == \A r \in Readers : pc[r] # "failed"

\* If messages do not overlap each is read sooner or later, also when the
\* connection is lost behind it.
EveryMessageRead ==
    \A n \in 1..MaxArrivals :
        apart /\ Len(arrived) >= n ~> Len(read) >= n
=============================================================================
