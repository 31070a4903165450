--------------------------- MODULE ImClient_proofs ---------------------------
(***************************************************************************)
(* The packet layer and the client session that uses it.                   *)
(*                                                                         *)
(* First what holds of PacketIO for any set of threads, any packets and    *)
(* any length of the run; then what one sending and one receiving thread   *)
(* per session make of it: every packet is kept whole, and FrameChannel is *)
(* implemented, although the send buffer is filled before the mutex is     *)
(* taken and the receive buffer emptied after it is released.              *)
(*                                                                         *)
(* Then the client session, for any threads, any calls and any server.  It *)
(* uses the packet layer as PacketIO describes it, so the theorems about   *)
(* PacketIO hold of it.  What has to be shown is that every packet the     *)
(* client sends, and every message the server sends, is one of the         *)
(* alphabet.  The client copies the messageId of the message it handles,   *)
(* so the message must still be in the thread's hands (Held): the layer    *)
(* does not touch it during a send.                                        *)
(***************************************************************************)
EXTENDS ImClient, SequenceTheorems, TLAPS

-----------------------------------------------------------------------------
(* The packet layer                                                        *)

Sending == {"body", "lock_send", "send", "check"}
Decoding == {"decode_head", "decode_body"}

\* A thread past a step that wrote a region of a buffer, or its own packet,
\* finds something there.
Written ==
    \A t \in Threads :
        /\ io[t] \in Sending => pkt[t] \in OutPackets /\ sendBuff.head \in OutPackets
        /\ io[t] \in Sending \ {"body"} => sendBuff.body \in OutPackets
        /\ io[t] \in Decoding => recvBuff.head \in InPackets /\ recvBuff.body \in InPackets
        /\ io[t] = "decode_body" => got[t].head \in InPackets

\* The mutex and the program counters agree on who is in the critical section.
MutexHeld ==
    \A t \in Threads : InCritical(t) <=> mutex = t

TypeInv == IoTypeOK /\ Written /\ MutexHeld

LEMMA TypeInvInit == IoInit => TypeInv
<1> SUFFICES ASSUME IoInit PROVE TypeInv
  OBVIOUS
<1> USE ThreadAssumption, PacketAssumption DEF IoInit
<1>1. IoTypeOK
  <2>1. wire \in Seq([head : OutPackets, body : OutPackets])
    BY EmptySeq
  <2>2. inbox \in Seq(InPackets) /\ pushed \in Seq(InPackets)
    BY EmptySeq
  <2>3. decoded \in Seq([head : InPackets, body : InPackets])
    BY EmptySeq
  <2>4. got \in [Threads -> Outbound(InPackets)]
    BY DEF Outbound, Empty
  <2>5. sendBuff \in Outbound(OutPackets) /\ recvBuff \in Outbound(InPackets)
    BY DEF Outbound, Empty
  <2>6. QED
    <3>1. io \in [Threads -> Results]
      BY DEF Results
    <3>2. pkt \in [Threads -> OutPackets \union {Null}] /\ sent \in [Threads -> Int]
      OBVIOUS
    <3>3. QED
      BY <2>1, <2>2, <2>3, <2>4, <2>5, <3>1, <3>2 DEF IoTypeOK
<1>2. Written
  BY DEF Written, Sending, Decoding
<1>3. MutexHeld
  BY DEF MutexHeld, InCritical
<1>4. QED
  BY <1>1, <1>2, <1>3 DEF TypeInv

LEMMA TypeInvStep == TypeInv /\ [IoNext]_ioVars => TypeInv'
<1> SUFFICES ASSUME TypeInv, [IoNext]_ioVars PROVE TypeInv'
  OBVIOUS
<1> USE ThreadAssumption, PacketAssumption
    DEF TypeInv, IoTypeOK, Written, MutexHeld, InCritical, Results, Sending,
        Decoding, Empty, Outbound, Goto, exceptIo
<1>1. ASSUME NEW t \in Threads, NEW p \in OutPackets, BeginSend(t, p)
      PROVE  TypeInv'
  BY <1>1, ZenonT(40) DEF BeginSend
<1>2. ASSUME NEW t \in Threads, BeginWait(t) PROVE TypeInv'
  BY <1>2 DEF BeginWait
<1>3. ASSUME NEW t \in Threads, BeginRecv(t) PROVE TypeInv'
  BY <1>3 DEF BeginRecv
<1>4. ASSUME NEW t \in Threads, SerializeBody(t) PROVE TypeInv'
  BY <1>4 DEF SerializeBody
<1>5. ASSUME NEW t \in Threads, LockSend(t) PROVE TypeInv'
  BY <1>5 DEF LockSend, Lock, TakeMutex
<1>6. ASSUME NEW t \in Threads, NetioSend(t) PROVE TypeInv'
  <2>1. sendBuff \in [head : OutPackets, body : OutPackets]
    BY <1>6 DEF NetioSend
  <2>2. Append(wire, sendBuff) \in Seq([head : OutPackets, body : OutPackets])
    BY <2>1
  <2>3. wire' \in Seq([head : OutPackets, body : OutPackets])
    BY <1>6, <2>2 DEF NetioSend
  <2>4. sent' \in [Threads -> Int]
    BY <1>6, <2>1 DEF NetioSend
  <2>5. QED
    BY <1>6, <2>3, <2>4 DEF NetioSend
<1>7. ASSUME NEW t \in Threads, FinishSend(t) PROVE TypeInv'
  <2>1. PICK r \in {"sent", "send_failed"} : io' = [io EXCEPT ![t] = r]
    BY <1>7 DEF FinishSend
  <2>2. packetCountOut' \in Nat
    BY <1>7 DEF FinishSend
  <2>3. io[t] = "check" /\ mutex' = Null /\ pkt' = [pkt EXCEPT ![t] = Null]
        /\ UNCHANGED <<sock, sent, got, sendBuff, recvBuff, wire, inbox, pushed,
                       decoded, peerClosed>>
    BY <1>7 DEF FinishSend
  <2>4. QED
    BY <2>1, <2>2, <2>3
<1>8. ASSUME NEW t \in Threads, LockWait(t) PROVE TypeInv'
  BY <1>8 DEF LockWait, Lock, TakeMutex
<1>9. ASSUME NEW t \in Threads, FinishWait(t) PROVE TypeInv'
  <2>1. PICK r \in {"ready", "nothing", "broken", "interrupted"} :
          io' = [io EXCEPT ![t] = r]
    BY <1>9 DEF FinishWait
  <2>2. io[t] = "wait" /\ mutex' = Null
        /\ UNCHANGED <<sock, pkt, sent, got, sendBuff, recvBuff, wire, inbox,
                       pushed, decoded, peerClosed, packetCountOut>>
    BY <1>9 DEF FinishWait
  <2>3. QED
    BY <2>1, <2>2
<1>10. ASSUME NEW t \in Threads, LockRecv(t) PROVE TypeInv'
  BY <1>10 DEF LockRecv, Lock, TakeMutex
<1>11. ASSUME NEW t \in Threads, NetioRecv(t) PROVE TypeInv'
  <2>1. CASE sock /\ inbox # <<>> /\ io' = [io EXCEPT ![t] = "decode_head"]
             /\ recvBuff' = Arrived(Head(inbox)) /\ TakeOne /\ UNCHANGED sock
    <3>1. Head(inbox) \in InPackets /\ Tail(inbox) \in Seq(InPackets)
      BY <2>1, HeadTailProperties
    <3>2. QED
      BY <1>11, <2>1, <3>1 DEF NetioRecv, Arrived, TakeOne
  <2>2. CASE io' = [io EXCEPT ![t] = "recv_failed"] /\ UNCHANGED <<recvBuff, inbox>>
             /\ sock' = (sock /\ ~peerClosed)
    BY <1>11, <2>2 DEF NetioRecv
  <2>3. QED
    BY <1>11, <2>1, <2>2 DEF NetioRecv
<1>12. ASSUME NEW t \in Threads, DecodeHead(t) PROVE TypeInv'
  BY <1>12 DEF DecodeHead
<1>13. ASSUME NEW t \in Threads, DecodeBody(t) PROVE TypeInv'
  <2> DEFINE item == [head |-> got[t].head, body |-> recvBuff.body]
  <2>1. item \in [head : InPackets, body : InPackets]
    BY <1>13 DEF DecodeBody
  <2>2. Append(decoded, item) \in Seq([head : InPackets, body : InPackets])
    BY <2>1
  <2>3. decoded' \in Seq([head : InPackets, body : InPackets])
    BY <1>13, <2>2 DEF DecodeBody
  <2>4. got' \in [Threads -> Outbound(InPackets)]
    BY <1>13 DEF DecodeBody
  <2>5. IoTypeOK'
    BY <1>13, <2>3, <2>4 DEF DecodeBody
  <2>6. Written'
    BY <1>13 DEF DecodeBody
  <2>7. MutexHeld'
    BY <1>13 DEF DecodeBody
  <2>8. QED
    BY <2>5, <2>6, <2>7
<1>14. ASSUME NEW m \in InPackets, Push(m) PROVE TypeInv'
  BY <1>14 DEF Push
<1>15. CASE PeerClose
  BY <1>15 DEF PeerClose
<1>16. CASE UNCHANGED ioVars
  BY <1>16 DEF ioVars
<1>17. QED
  BY <1>1, <1>2, <1>3, <1>4, <1>5, <1>6, <1>7, <1>8, <1>9, <1>10, <1>11,
     <1>12, <1>13, <1>14, <1>15, <1>16 DEF IoNext, IoStep

LEMMA TypeInvariance == IoSpec => []TypeInv
  BY TypeInvInit, TypeInvStep, PTL DEF IoSpec

\* Type correctness of the packet layer (client/packet_io.c): every variable
\* stays within its type, and no buffer is sent or decoded before something was
\* written to it.
THEOREM IoTypeCorrect == IoSpec => []IoTypeOK
<1>1. TypeInv => IoTypeOK
  BY DEF TypeInv
<1>2. QED
  BY <1>1, TypeInvariance, PTL

\* The mutex of util/thread.c keeps any number of threads apart in the socket
\* calls of one session.
THEOREM IoMutualExclusion == IoSpec => []MutualExclusion
<1>1. TypeInv => MutualExclusion
  BY DEF TypeInv, MutexHeld, MutualExclusion
<1>2. QED
  BY <1>1, TypeInvariance, PTL

-----------------------------------------------------------------------------
(* How long the mutex is held                                              *)

\* What is left to do with the mutex held: netio_send_buffer() and the look at
\* its result, or one netio_recv_buffer() or netio_available().
HoldLeft(t) ==
    CASE io[t] = "send"                       -> 2
      [] io[t] \in {"check", "wait", "recv"}  -> 1
      [] OTHER                                -> 0

\* A holder keeps the mutex or hands it back, it is not taken from it; and a
\* step that moves the holder on and leaves it the mutex brings it nearer to
\* the unlock.
HoldShrinks ==
    [][\A t \in Threads : mutex = t =>
          \/ mutex' = Null
          \/ mutex' = t /\ (io'[t] = io[t] \/ HoldLeft(t)' < HoldLeft(t))]_ioVars

HolderInside == \A t \in Threads : mutex = t => HoldLeft(t) \in 1..2

LEMMA HolderIsInside == TypeInv => HolderInside
  BY DEF TypeInv, MutexHeld, InCritical, HolderInside, HoldLeft

LEMMA HoldStep ==
  ASSUME TypeInv, [IoNext]_ioVars, NEW t \in Threads, mutex = t
  PROVE  \/ mutex' = Null
         \/ mutex' = t /\ (io'[t] = io[t] \/ HoldLeft(t)' < HoldLeft(t))
<1>a. /\ io = [u \in Threads |-> io[u]]
      /\ io[t] \in {"send", "check", "wait", "recv"}
      /\ \A u \in Threads : u # t => ~InCritical(u)
      /\ mutex # Null
  BY ThreadAssumption DEF TypeInv, IoTypeOK, MutexHeld, InCritical
<1> USE DEF Goto, exceptIo, Results
<1>1. ASSUME NEW u \in Threads,
             \/ \E p \in OutPackets : BeginSend(u, p)
             \/ BeginWait(u) \/ BeginRecv(u)
             \/ SerializeBody(u) \/ DecodeHead(u) \/ DecodeBody(u)
      PROVE  mutex' = t /\ io'[t] = io[t]
  BY <1>1, <1>a
     DEF BeginSend, BeginWait, BeginRecv, SerializeBody, DecodeHead, DecodeBody
<1>2. ASSUME NEW u \in Threads, LockSend(u) \/ LockWait(u) \/ LockRecv(u)
      PROVE  FALSE
  BY <1>2, <1>a DEF LockSend, LockWait, LockRecv, Lock, TakeMutex
<1>3. ASSUME NEW u \in Threads, NetioSend(u)
      PROVE  mutex' = t /\ HoldLeft(t)' < HoldLeft(t)
  <2>1. u = t /\ io[t] = "send" /\ io'[t] = "check" /\ mutex' = t
    BY <1>3, <1>a DEF NetioSend, InCritical
  <2> QED
    BY <2>1 DEF HoldLeft
<1>4. ASSUME NEW u \in Threads, FinishSend(u) \/ FinishWait(u) \/ NetioRecv(u)
      PROVE  mutex' = Null
  BY <1>4 DEF FinishSend, FinishWait, NetioRecv
<1>5. ASSUME PeerClose \/ (\E m \in InPackets : Push(m)) \/ UNCHANGED ioVars
      PROVE  mutex' = t /\ io'[t] = io[t]
  BY <1>5 DEF PeerClose, Push, ioVars
<1> QED
  BY <1>1, <1>2, <1>3, <1>4, <1>5 DEF IoNext, IoStep

\* No return path of packet_io.c, im_poll() or the transaction leaks the mutex
\* or goes round with it: who holds it is inside a socket call or just after
\* one, and at most two of its own steps from the unlock, for any number of
\* threads and whatever the socket does (packet_io.c:40-54, packet_io.c:69-93,
\* client.c:467, client.c:536).
THEOREM IoHoldEnds == IoSpec => []HolderInside /\ HoldShrinks
<1>1. TypeInv /\ [IoNext]_ioVars
      => [\A t \in Threads : mutex = t =>
             \/ mutex' = Null
             \/ mutex' = t /\ (io'[t] = io[t] \/ HoldLeft(t)' < HoldLeft(t))]_ioVars
  BY HoldStep
<1> QED
  BY TypeInvariance, HolderIsInside, <1>1, PTL DEF IoSpec, HoldShrinks

-----------------------------------------------------------------------------
(* packet_count_out                                                        *)

\* The thread in the critical section has put a frame on the wire and has not
\* counted it yet.
Uncounted == \E t \in Threads : io[t] = "check" /\ sent[t] # -1

\* CountNeverAhead alone is not inductive: the step that counts must know that
\* the frame it counts has not been counted before.
CountInv == packetCountOut + (IF Uncounted THEN 1 ELSE 0) <= Len(wire)

LEMMA CountInit == IoInit => CountInv
  BY DEF IoInit, CountInv, Uncounted

\* A step that neither sends nor counts, and takes no thread to "check".
LEMMA CountStutter ==
  ASSUME UNCHANGED <<sent, wire, packetCountOut>>, CountInv,
         IoTypeOK,
         \A t \in Threads : io'[t] = "check" => io[t] = "check"
  PROVE  CountInv'
<1>1. Uncounted' => Uncounted
  BY DEF Uncounted
<1>2. packetCountOut \in Nat /\ Len(wire) \in Nat
  BY DEF IoTypeOK
<1>3. QED
  BY <1>1, <1>2 DEF CountInv

LEMMA CountStep == TypeInv /\ CountInv /\ [IoNext]_ioVars => CountInv'
<1> SUFFICES ASSUME TypeInv, CountInv, [IoNext]_ioVars PROVE CountInv'
  OBVIOUS
<1>a. IoTypeOK /\ MutexHeld /\ Written
  BY DEF TypeInv
<1>b. packetCountOut \in Nat /\ Len(wire) \in Nat /\ DOMAIN io = Threads
      /\ io = [t \in Threads |-> io[t]]
  BY <1>a DEF IoTypeOK
<1> USE DEF Goto, exceptIo, Results
<1>1. ASSUME NEW t \in Threads, NEW p \in OutPackets, BeginSend(t, p)
      PROVE  CountInv'
  BY <1>1, <1>a, <1>b, CountStutter DEF BeginSend
<1>2. ASSUME NEW t \in Threads, BeginWait(t) PROVE CountInv'
  BY <1>2, <1>a, <1>b, CountStutter DEF BeginWait
<1>3. ASSUME NEW t \in Threads, BeginRecv(t) PROVE CountInv'
  BY <1>3, <1>a, <1>b, CountStutter DEF BeginRecv
<1>4. ASSUME NEW t \in Threads, SerializeBody(t) PROVE CountInv'
  BY <1>4, <1>a, <1>b, CountStutter DEF SerializeBody
<1>5. ASSUME NEW t \in Threads, LockSend(t) \/ LockWait(t) \/ LockRecv(t)
      PROVE  CountInv'
  BY <1>5, <1>a, <1>b, CountStutter DEF LockSend, LockWait, LockRecv, Lock
<1>6. ASSUME NEW t \in Threads, NetioSend(t) PROVE CountInv'
  <2>1. mutex = t /\ \A u \in Threads : io[u] # "check"
    BY <1>6, <1>a DEF NetioSend, MutexHeld, InCritical
  <2>2. ~Uncounted
    BY <2>1 DEF Uncounted
  <2>3. packetCountOut' = packetCountOut
    BY <1>6 DEF NetioSend
  <2>4. CASE wire' = Append(wire, sendBuff)
    <3>1. Len(wire') = Len(wire) + 1
      BY <2>4, <1>a DEF IoTypeOK
    <3>2. QED
      BY <2>2, <2>3, <3>1, <1>b DEF CountInv
  <2>5. CASE sent' = [sent EXCEPT ![t] = -1] /\ UNCHANGED wire
    <3>1. \A u \in Threads : io'[u] = "check" => sent'[u] = -1
      BY <1>6, <2>1, <2>5, <1>a, <1>b DEF NetioSend, IoTypeOK
    <3>2. ~Uncounted'
      BY <3>1 DEF Uncounted
    <3>3. QED
      BY <2>2, <2>3, <2>5, <3>2, <1>b DEF CountInv
  <2>6. QED
    BY <1>6, <2>4, <2>5 DEF NetioSend
<1>7. ASSUME NEW t \in Threads, FinishSend(t) PROVE CountInv'
  <2>1. mutex = t /\ \A u \in Threads : u # t => io[u] # "check"
    BY <1>7, <1>a DEF FinishSend, MutexHeld, InCritical
  <2>2. \A u \in Threads : io'[u] # "check"
    BY <1>7, <2>1, <1>b DEF FinishSend
  <2>3. ~Uncounted'
    BY <2>2 DEF Uncounted
  <2>4. wire' = wire
    BY <1>7 DEF FinishSend
  <2>5. CASE AllSent(t) /\ packetCountOut' = packetCountOut + 1
    <3>1. sendBuff.body \in OutPackets
      BY <1>7, <1>a DEF FinishSend, Written, Sending
    <3>2. sent[t] \in Nat
      BY <2>5, <3>1, PacketAssumption DEF AllSent
    <3>3. Uncounted
      BY <1>7, <3>2 DEF FinishSend, Uncounted
    <3>4. QED
      BY <2>3, <2>4, <2>5, <3>3, <1>b DEF CountInv
  <2>6. CASE UNCHANGED packetCountOut
    BY <2>3, <2>4, <2>6, <1>b DEF CountInv
  <2>7. QED
    BY <1>7, <2>5, <2>6 DEF FinishSend
<1>8. ASSUME NEW t \in Threads, FinishWait(t) PROVE CountInv'
  BY <1>8, <1>a, <1>b, CountStutter DEF FinishWait
<1>9. ASSUME NEW t \in Threads, NetioRecv(t) PROVE CountInv'
  BY <1>9, <1>a, <1>b, CountStutter DEF NetioRecv
<1>10. ASSUME NEW t \in Threads, DecodeHead(t) \/ DecodeBody(t) PROVE CountInv'
  BY <1>10, <1>a, <1>b, CountStutter DEF DecodeHead, DecodeBody
<1>11. ASSUME NEW m \in InPackets, Push(m) PROVE CountInv'
  BY <1>11, <1>a, <1>b, CountStutter DEF Push
<1>12. CASE PeerClose
  BY <1>12, <1>a, <1>b, CountStutter DEF PeerClose
<1>13. CASE UNCHANGED ioVars
  BY <1>13, <1>a, <1>b, CountStutter DEF ioVars
<1>14. QED
  BY <1>1, <1>2, <1>3, <1>4, <1>5, <1>6, <1>7, <1>8, <1>9, <1>10, <1>11,
     <1>12, <1>13 DEF IoNext, IoStep

\* For any number of threads, packet_count_out (packet_io.c:46) counts only
\* frames the socket has accepted, each at most once.
THEOREM IoCountNeverAhead == IoSpec => []CountNeverAhead
<1>1. TypeInv /\ CountInv => CountNeverAhead
  <2> SUFFICES ASSUME TypeInv, CountInv PROVE CountNeverAhead
    OBVIOUS
  <2>1. packetCountOut \in Nat /\ Len(wire) \in Nat
    BY DEF TypeInv, IoTypeOK
  <2>2. QED
    BY <2>1 DEF CountInv, CountNeverAhead
<1>2. QED
  BY <1>1, TypeInvariance, CountInit, CountStep, PTL DEF IoSpec

-----------------------------------------------------------------------------
(* One sending and one receiving thread                                    *)

OneSender == \A s, u \in Senders : s = u
OneReceiver == \A r, u \in Receivers : r = u

-----------------------------------------------------------------------------
(* The send side                                                           *)

\* From the serialisation to the end of the call the send buffer holds the
\* sender's own packet, and the result of netio_send_buffer() is about it.
SendInv ==
    \A t \in Threads :
        /\ io[t] \in Sending => t \in Senders /\ sendBuff.head = pkt[t]
        /\ io[t] \in Sending \ {"body"} => sendBuff.body = pkt[t]
        /\ io[t] = "check" => sent[t] \in {-1, Size[pkt[t]]}

LEMMA SendInit == IoInit => SendInv /\ FramesIntact
  BY DEF IoInit, SendInv, FramesIntact, Sending

\* A step of somebody who is not sending.
LEMMA SendStutter ==
  ASSUME UNCHANGED <<sendBuff, pkt, sent, wire>>, SendInv, FramesIntact,
         \A t \in Threads : io'[t] \in Sending => io'[t] = io[t]
  PROVE  SendInv' /\ FramesIntact'
<1>1. SendInv'
  BY DEF SendInv, Sending
<1>2. FramesIntact'
  BY DEF FramesIntact
<1>3. QED
  BY <1>1, <1>2

LEMMA SendStep ==
  ASSUME OneSender, TypeInv, SendInv, FramesIntact, [IoNext]_ioVars
  PROVE  SendInv' /\ FramesIntact'
<1>a. IoTypeOK /\ Written /\ MutexHeld
  BY DEF TypeInv
<1>b. io = [t \in Threads |-> io[t]] /\ pkt = [t \in Threads |-> pkt[t]]
      /\ sent = [t \in Threads |-> sent[t]]
  BY <1>a DEF IoTypeOK
<1>c. sendBuff \in [head : OutPackets \union {Null}, body : OutPackets \union {Null}]
  BY <1>a DEF IoTypeOK, Outbound
<1> USE DEF Goto, exceptIo, Sending
<1>1. ASSUME NEW t \in Threads, NEW p \in OutPackets, BeginSend(t, p)
      PROVE  SendInv' /\ FramesIntact'
  <2>1. t \in Senders /\ io[t] \in Results
    BY <1>1 DEF BeginSend
  <2>2. \A u \in Threads : u # t => io[u] \notin Sending
    BY <2>1 DEF SendInv, OneSender
  <2>3. \A u \in Threads : u # t => io'[u] \notin Sending
    BY <2>2, <1>1, <1>b DEF BeginSend
  <2>4. io'[t] = "body" /\ pkt'[t] = p /\ sendBuff'.head = p
    BY <1>1, <1>b, <1>c DEF BeginSend
  <2>5. SendInv'
    BY <2>1, <2>3, <2>4 DEF SendInv
  <2>6. wire' = wire
    BY <1>1 DEF BeginSend
  <2>7. QED
    BY <2>5, <2>6 DEF FramesIntact
<1>2. ASSUME NEW t \in Threads, BeginWait(t) \/ BeginRecv(t)
      PROVE  SendInv' /\ FramesIntact'
  BY <1>2, <1>b, SendStutter DEF BeginWait, BeginRecv
<1>3. ASSUME NEW t \in Threads, SerializeBody(t)
      PROVE  SendInv' /\ FramesIntact'
  <2>1. t \in Senders /\ sendBuff.head = pkt[t]
    BY <1>3 DEF SerializeBody, SendInv
  <2>2. \A u \in Threads : u # t => io'[u] \notin Sending
    BY <2>1, <1>3, <1>b DEF SendInv, OneSender, SerializeBody
  <2>3. io'[t] = "lock_send" /\ pkt' = pkt
    BY <1>3, <1>b DEF SerializeBody
  <2>4. sendBuff'.head = pkt[t] /\ sendBuff'.body = pkt[t]
    BY <1>3, <2>1, <1>c DEF SerializeBody
  <2>5. SendInv'
    BY <2>1, <2>2, <2>3, <2>4 DEF SendInv
  <2>6. wire' = wire
    BY <1>3 DEF SerializeBody
  <2>7. QED
    BY <2>5, <2>6 DEF FramesIntact
<1>4. ASSUME NEW t \in Threads, LockSend(t) PROVE SendInv' /\ FramesIntact'
  <2>1. io[t] = "lock_send" /\ io' = [io EXCEPT ![t] = "send"]
        /\ UNCHANGED <<sendBuff, pkt, sent, wire>>
    BY <1>4 DEF LockSend, Lock
  <2>2. SendInv'
    BY <2>1, <1>b DEF SendInv
  <2>3. QED
    BY <2>1, <2>2 DEF FramesIntact
<1>5. ASSUME NEW t \in Threads, NetioSend(t) PROVE SendInv' /\ FramesIntact'
  <2>1. io[t] = "send" /\ io' = [io EXCEPT ![t] = "check"]
        /\ UNCHANGED <<sendBuff, pkt>>
    BY <1>5 DEF NetioSend
  <2>2. t \in Senders /\ sendBuff.head = pkt[t] /\ sendBuff.body = pkt[t]
    BY <2>1 DEF SendInv
  <2>3. \A u \in Threads : u # t => io'[u] \notin Sending
    BY <2>1, <2>2, <1>b DEF SendInv, OneSender
  <2>4. sent'[t] \in {-1, Size[pkt[t]]}
    BY <1>5, <2>2, <1>b DEF NetioSend
  <2>5. SendInv'
    BY <2>1, <2>2, <2>3, <2>4, <1>b DEF SendInv
  <2>6. CASE wire' = Append(wire, sendBuff)
    <3>1. Len(wire') = Len(wire) + 1 /\ wire'[Len(wire) + 1] = sendBuff
      BY <2>6, <1>a DEF IoTypeOK
    <3>2. \A i \in 1..Len(wire) : wire'[i] = wire[i]
      BY <2>6, <1>a DEF IoTypeOK
    <3>3. Len(wire) \in Nat
      BY <1>a DEF IoTypeOK
    <3>4. \A i \in 1..Len(wire') : i \in 1..Len(wire) \/ i = Len(wire) + 1
      BY <3>1, <3>3
    <3>5. FramesIntact'
      BY <2>2, <3>1, <3>2, <3>4 DEF FramesIntact
    <3>6. QED
      BY <2>5, <3>5
  <2>7. CASE UNCHANGED wire
    BY <2>5, <2>7 DEF FramesIntact
  <2>8. QED
    BY <1>5, <2>6, <2>7 DEF NetioSend
<1>6. ASSUME NEW t \in Threads, FinishSend(t) PROVE SendInv' /\ FramesIntact'
  <2>1. t \in Senders /\ io[t] = "check"
    BY <1>6 DEF FinishSend, SendInv
  <2>2. \A u \in Threads : u # t => io[u] \notin Sending
    BY <2>1 DEF SendInv, OneSender
  <2>3. \A u \in Threads : io'[u] \notin Sending
    BY <1>6, <2>2, <1>b DEF FinishSend
  <2>4. SendInv'
    BY <2>3 DEF SendInv
  <2>5. wire' = wire
    BY <1>6 DEF FinishSend
  <2>6. QED
    BY <2>4, <2>5 DEF FramesIntact
<1>7. ASSUME NEW t \in Threads, LockWait(t) \/ LockRecv(t)
      PROVE  SendInv' /\ FramesIntact'
  BY <1>7, <1>b, SendStutter DEF LockWait, LockRecv, Lock
<1>8. ASSUME NEW t \in Threads, FinishWait(t) PROVE SendInv' /\ FramesIntact'
  BY <1>8, <1>b, SendStutter DEF FinishWait
<1>9. ASSUME NEW t \in Threads, NetioRecv(t) PROVE SendInv' /\ FramesIntact'
  BY <1>9, <1>b, SendStutter DEF NetioRecv
<1>10. ASSUME NEW t \in Threads, DecodeHead(t) \/ DecodeBody(t)
       PROVE  SendInv' /\ FramesIntact'
  BY <1>10, <1>b, SendStutter DEF DecodeHead, DecodeBody
<1>11. CASE (\E m \in InPackets : Push(m)) \/ PeerClose \/ UNCHANGED ioVars
  BY <1>11, SendStutter DEF Push, PeerClose, ioVars
<1>12. QED
  BY <1>1, <1>2, <1>3, <1>4, <1>5, <1>6, <1>7, <1>8, <1>9, <1>10, <1>11
     DEF IoNext, IoStep

LEMMA SendInvariance ==
  ASSUME OneSender
  PROVE  IoSpec => [](TypeInv /\ SendInv /\ FramesIntact)
<1>1. IoInit => TypeInv /\ SendInv /\ FramesIntact
  BY TypeInvInit, SendInit
<1>2. TypeInv /\ SendInv /\ FramesIntact /\ [IoNext]_ioVars
      => (TypeInv /\ SendInv /\ FramesIntact)'
  BY OneSender, TypeInvStep, SendStep
<1>3. QED
  BY <1>1, <1>2, PTL DEF IoSpec

\* One thread that sends, any number that receive: every frame on the
\* connection is one packet, head and body, although im_conn_send_packet()
\* serialises it outside the mutex (packet_io.c:30-36).
THEOREM IoFramesIntact ==
  ASSUME OneSender
  PROVE  IoSpec => []FramesIntact
  BY SendInvariance, PTL

-----------------------------------------------------------------------------
(* The receive side                                                        *)

\* A thread decodes the frame in the receive buffer.
InHand == \E t \in Threads : io[t] \in Decoding

\* The messages that have left the kernel's queue.
Taken == Len(decoded) + (IF InHand THEN 1 ELSE 0)

\* Every message the server sent is decoded, in the receive buffer or in the
\* kernel's queue, in the order of sending.
Accounted ==
    /\ Len(pushed) = Taken + Len(inbox)
    /\ \A i \in 1..Len(decoded) :
          decoded[i].head = pushed[i] /\ decoded[i].body = pushed[i]
    /\ \A i \in 1..Len(inbox) : inbox[i] = pushed[Taken + i]

\* The frame in the receive buffer is the oldest one not yet decoded.
RecvBuffered ==
    \A t \in Threads :
        /\ io[t] \in Decoding =>
              /\ recvBuff.head = pushed[Len(decoded) + 1]
              /\ recvBuff.body = pushed[Len(decoded) + 1]
        /\ io[t] = "decode_body" => got[t].head = pushed[Len(decoded) + 1]

ReceiversOnly ==
    \A t \in Threads :
        io[t] \in Decoding \union {"lock_recv", "recv"} => t \in Receivers

RecvInv == Accounted /\ RecvBuffered /\ ReceiversOnly

LEMMA RecvInit == IoInit => RecvInv
<1> SUFFICES ASSUME IoInit PROVE RecvInv
  OBVIOUS
<1>1. \A t \in Threads : io[t] = "idle"
  BY DEF IoInit
<1>2. ~InHand
  BY <1>1 DEF InHand, Decoding
<1>3. decoded = <<>> /\ inbox = <<>> /\ pushed = <<>>
  BY DEF IoInit
<1>4. Accounted
  BY <1>2, <1>3 DEF Accounted, Taken
<1>5. RecvBuffered /\ ReceiversOnly
  BY <1>1 DEF RecvBuffered, ReceiversOnly, Decoding
<1>6. QED
  BY <1>4, <1>5 DEF RecvInv

\* A step of somebody who is not receiving.
LEMMA RecvStutter ==
  ASSUME UNCHANGED <<got, recvBuff, inbox, pushed, decoded>>, RecvInv,
         \A t \in Threads : io'[t] \in Decoding <=> io[t] \in Decoding,
         \A t \in Threads : io'[t] \in Decoding => io'[t] = io[t],
         ReceiversOnly'
  PROVE  RecvInv'
<1>1. InHand' <=> InHand
  BY DEF InHand
<1>2. Taken' = Taken
  BY <1>1 DEF Taken
<1>3. Accounted'
  BY <1>2 DEF RecvInv, Accounted
<1>4. RecvBuffered'
  BY DEF RecvInv, RecvBuffered, Decoding
<1>5. QED
  BY <1>3, <1>4 DEF RecvInv

LEMMA ReceiversOnlyStep ==
  ASSUME TypeInv, ReceiversOnly, [IoNext]_ioVars
  PROVE  ReceiversOnly'
<1>b. io = [t \in Threads |-> io[t]]
  BY DEF TypeInv, IoTypeOK
<1> USE DEF ReceiversOnly, Decoding, Goto, exceptIo, Results
<1>1. ASSUME NEW t \in Threads, NEW p \in OutPackets, BeginSend(t, p)
      PROVE  ReceiversOnly'
  BY <1>1, <1>b DEF BeginSend
<1>2. ASSUME NEW t \in Threads, BeginWait(t) \/ BeginRecv(t) PROVE ReceiversOnly'
  BY <1>2, <1>b DEF BeginWait, BeginRecv
<1>3. ASSUME NEW t \in Threads,
             SerializeBody(t) \/ NetioSend(t) \/ FinishSend(t) \/ FinishWait(t)
      PROVE  ReceiversOnly'
  BY <1>3, <1>b DEF SerializeBody, NetioSend, FinishSend, FinishWait
<1>4. ASSUME NEW t \in Threads, LockSend(t) \/ LockWait(t) \/ LockRecv(t)
      PROVE  ReceiversOnly'
  BY <1>4, <1>b DEF LockSend, LockWait, LockRecv, Lock
<1>5. ASSUME NEW t \in Threads, NetioRecv(t) \/ DecodeHead(t) \/ DecodeBody(t)
      PROVE  ReceiversOnly'
  BY <1>5, <1>b DEF NetioRecv, DecodeHead, DecodeBody
<1>6. CASE (\E m \in InPackets : Push(m)) \/ PeerClose \/ UNCHANGED ioVars
  BY <1>6 DEF Push, PeerClose, ioVars
<1>7. QED
  BY <1>1, <1>2, <1>3, <1>4, <1>5, <1>6 DEF IoNext, IoStep

LEMMA RecvStep ==
  ASSUME OneReceiver, TypeInv, RecvInv, [IoNext]_ioVars
  PROVE  RecvInv'
<1>a. IoTypeOK /\ Accounted /\ RecvBuffered /\ ReceiversOnly
  BY DEF TypeInv, RecvInv
<1>b. io = [t \in Threads |-> io[t]] /\ got = [t \in Threads |-> got[t]]
  BY <1>a DEF IoTypeOK
<1>c. ReceiversOnly'
  BY <1>a, ReceiversOnlyStep
<1>d. Len(decoded) \in Nat /\ Len(inbox) \in Nat /\ Len(pushed) \in Nat
  BY <1>a DEF IoTypeOK
<1> USE DEF Goto, exceptIo, Decoding, Results
<1>1. ASSUME NEW t \in Threads, NEW p \in OutPackets, BeginSend(t, p)
      PROVE  RecvInv'
  BY <1>1, <1>b, <1>c, RecvStutter DEF BeginSend
<1>2. ASSUME NEW t \in Threads, BeginWait(t) \/ BeginRecv(t) PROVE RecvInv'
  BY <1>2, <1>b, <1>c, RecvStutter DEF BeginWait, BeginRecv
<1>3. ASSUME NEW t \in Threads, SerializeBody(t) \/ NetioSend(t) PROVE RecvInv'
  BY <1>3, <1>b, <1>c, RecvStutter DEF SerializeBody, NetioSend
<1>4. ASSUME NEW t \in Threads, FinishSend(t) \/ FinishWait(t) PROVE RecvInv'
  BY <1>4, <1>b, <1>c, RecvStutter DEF FinishSend, FinishWait
<1>5. ASSUME NEW t \in Threads, LockSend(t) \/ LockWait(t) \/ LockRecv(t)
      PROVE  RecvInv'
  BY <1>5, <1>b, <1>c, RecvStutter DEF LockSend, LockWait, LockRecv, Lock
<1>6. ASSUME NEW t \in Threads, NetioRecv(t) PROVE RecvInv'
  <2>1. CASE io' = [io EXCEPT ![t] = "recv_failed"] /\ UNCHANGED <<recvBuff, inbox>>
    BY <1>6, <2>1, <1>b, <1>c, RecvStutter DEF NetioRecv
  <2>2. CASE inbox # <<>> /\ io' = [io EXCEPT ![t] = "decode_head"]
             /\ recvBuff' = Arrived(Head(inbox)) /\ TakeOne
    <3>1. \A u \in Threads : io[u] \notin Decoding
      BY <1>6, <1>a DEF NetioRecv, ReceiversOnly, OneReceiver
    <3>2. ~InHand /\ Taken = Len(decoded)
      BY <3>1, <1>d DEF InHand, Taken
    <3>3. io'[t] = "decode_head" /\ \A u \in Threads : u # t => io'[u] \notin Decoding
      BY <3>1, <2>2, <1>b
    <3>4. decoded' = decoded /\ pushed' = pushed /\ inbox' = Tail(inbox)
      BY <1>6, <2>2 DEF NetioRecv, TakeOne
    <3>5. Taken' = Len(decoded) + 1
      BY <3>3, <3>4 DEF InHand, Taken
    <3>6. Len(inbox') = Len(inbox) - 1 /\ Len(inbox) >= 1 /\ Head(inbox) = inbox[1]
          /\ \A i \in 1..Len(inbox') : inbox'[i] = inbox[i + 1]
      BY <3>4, <2>2, <1>a, HeadTailProperties, EmptySeq DEF IoTypeOK
    <3>7. inbox[1] = pushed[Len(decoded) + 1]
      BY <3>2, <3>6, <1>a, <1>d DEF Accounted
    <3>8. Accounted'
      <4>1. Len(pushed') = Taken' + Len(inbox')
        <5>1. Len(pushed) = Len(decoded) + Len(inbox)
          BY <3>2, <1>a DEF Accounted
        <5>2. Len(pushed') = Len(pushed)
          BY <3>4
        <5>3. QED
          BY <3>5, <3>6, <5>1, <5>2, <1>d
      <4>2. \A i \in 1..Len(inbox') : inbox'[i] = pushed'[Taken' + i]
        <5> SUFFICES ASSUME NEW i \in 1..Len(inbox')
                     PROVE  inbox'[i] = pushed'[Taken' + i]
          OBVIOUS
        <5>1. i + 1 \in 1..Len(inbox) /\ inbox'[i] = inbox[i + 1]
          BY <3>6, <1>d
        <5>2. inbox[i + 1] = pushed[Len(decoded) + (i + 1)]
          BY <5>1, <3>2, <1>a DEF Accounted
        <5>3. Len(decoded) + (i + 1) = Taken' + i
          BY <3>5, <1>d, <5>1
        <5>4. QED
          BY <5>1, <5>2, <5>3, <3>4
      <4>3. \A i \in 1..Len(decoded') :
               decoded'[i].head = pushed'[i] /\ decoded'[i].body = pushed'[i]
        BY <3>4, <1>a DEF Accounted
      <4>4. QED
        BY <4>1, <4>2, <4>3 DEF Accounted
    <3>9. RecvBuffered'
      BY <2>2, <3>3, <3>4, <3>6, <3>7 DEF RecvBuffered, Arrived
    <3>10. QED
      BY <3>8, <3>9, <1>c DEF RecvInv
  <2>3. QED
    BY <1>6, <2>1, <2>2 DEF NetioRecv
<1>7. ASSUME NEW t \in Threads, DecodeHead(t) PROVE RecvInv'
  <2>1. UNCHANGED <<recvBuff, inbox, pushed, decoded>>
    BY <1>7 DEF DecodeHead
  <2>2. io[t] = "decode_head" /\ io' = [io EXCEPT ![t] = "decode_body"]
    BY <1>7 DEF DecodeHead
  <2>3. InHand /\ InHand'
    BY <2>2, <1>b DEF InHand
  <2>4. Accounted'
    BY <2>1, <2>3, <1>a DEF Accounted, Taken
  <2>5. recvBuff.head = pushed[Len(decoded) + 1] /\ recvBuff.body = pushed[Len(decoded) + 1]
    BY <2>2, <1>a DEF RecvBuffered
  <2>6. got'[t].head = recvBuff.head
    BY <1>7, <1>a, <1>b DEF DecodeHead, IoTypeOK, Outbound
  <2>7. \A u \in Threads : u # t => got'[u] = got[u] /\ io'[u] = io[u]
    BY <1>7, <1>b DEF DecodeHead
  <2>8. RecvBuffered'
    BY <2>1, <2>2, <2>5, <2>6, <2>7, <1>a DEF RecvBuffered
  <2>9. QED
    BY <2>4, <2>8, <1>c DEF RecvInv
<1>8. ASSUME NEW t \in Threads, DecodeBody(t) PROVE RecvInv'
  <2> DEFINE m == pushed[Len(decoded) + 1]
  <2>1. io[t] = "decode_body" /\ recvBuff.body = m /\ got[t].head = m
    BY <1>8, <1>a DEF DecodeBody, RecvBuffered
  <2>2. io' = [io EXCEPT ![t] = "received"]
        /\ decoded' = Append(decoded, [head |-> m, body |-> m])
    BY <1>8, <2>1 DEF DecodeBody
  <2>3. \A u \in Threads : io'[u] \notin Decoding
    BY <2>1, <2>2, <1>a, <1>b DEF ReceiversOnly, OneReceiver
  <2>4. InHand /\ ~InHand'
    BY <2>1, <2>3 DEF InHand
  <2>5. UNCHANGED <<inbox, pushed>>
    BY <1>8 DEF DecodeBody
  <2>6. Len(decoded') = Len(decoded) + 1
        /\ decoded'[Len(decoded) + 1] = [head |-> m, body |-> m]
        /\ \A i \in 1..Len(decoded) : decoded'[i] = decoded[i]
    BY <2>2, <1>a DEF IoTypeOK
  <2>7. Taken = Len(decoded) + 1 /\ Taken' = Len(decoded) + 1
    BY <2>4, <2>6, <1>d DEF Taken
  <2>8. \A i \in 1..Len(decoded') : i \in 1..Len(decoded) \/ i = Len(decoded) + 1
    BY <2>6, <1>d
  <2>9. \A i \in 1..Len(decoded') :
           decoded'[i].head = pushed[i] /\ decoded'[i].body = pushed[i]
    BY <2>6, <2>8, <1>a DEF Accounted
  <2>10. Accounted'
    BY <2>5, <2>7, <2>9, <1>a DEF Accounted
  <2>11. RecvBuffered'
    BY <2>3 DEF RecvBuffered
  <2>12. QED
    BY <2>10, <2>11, <1>c DEF RecvInv
<1>9. ASSUME NEW m \in InPackets, Push(m) PROVE RecvInv'
  <2>1. UNCHANGED <<io, got, recvBuff, decoded>>
        /\ inbox' = Append(inbox, m) /\ pushed' = Append(pushed, m)
    BY <1>9 DEF Push
  <2>2. Taken' = Taken /\ Taken \in Nat
    BY <2>1, <1>d DEF Taken, InHand
  <2>3. Len(inbox') = Len(inbox) + 1 /\ inbox'[Len(inbox) + 1] = m
        /\ \A i \in 1..Len(inbox) : inbox'[i] = inbox[i]
    BY <2>1, <1>a DEF IoTypeOK
  <2>4. Len(pushed') = Len(pushed) + 1 /\ pushed'[Len(pushed) + 1] = m
        /\ \A i \in 1..Len(pushed) : pushed'[i] = pushed[i]
    BY <2>1, <1>a DEF IoTypeOK
  <2>5. Len(pushed) = Taken + Len(inbox)
    BY <1>a DEF Accounted
  <2>6. \A i \in 1..Len(inbox') : inbox'[i] = pushed'[Taken' + i]
    <3> SUFFICES ASSUME NEW i \in 1..Len(inbox') PROVE inbox'[i] = pushed'[Taken' + i]
      OBVIOUS
    <3>1. CASE i = Len(inbox) + 1
      <4>1. Taken' + i = Len(pushed) + 1
        BY <3>1, <2>2, <2>5, <1>d
      <4>2. QED
        BY <3>1, <4>1, <2>3, <2>4
    <3>2. CASE i \in 1..Len(inbox)
      <4>1. Taken + i \in 1..Len(pushed)
        BY <3>2, <2>2, <2>5, <1>d
      <4>2. QED
        BY <3>2, <4>1, <2>2, <2>3, <2>4, <1>a DEF Accounted
    <3>3. QED
      BY <3>1, <3>2, <2>3, <1>d
  <2>7. Len(decoded) <= Len(pushed) /\ (InHand => Len(decoded) + 1 <= Len(pushed))
    BY <2>5, <1>d DEF Taken
  <2>8. \A i \in 1..Len(decoded) : pushed'[i] = pushed[i]
    BY <2>4, <2>7, <1>d
  <2>9. InHand => pushed'[Len(decoded) + 1] = pushed[Len(decoded) + 1]
    BY <2>4, <2>7, <1>d
  <2>10. Accounted'
    <3>1. Len(pushed') = Taken' + Len(inbox')
      BY <2>2, <2>3, <2>4, <2>5, <1>d
    <3>2. QED
      BY <3>1, <2>1, <2>6, <2>8, <1>a DEF Accounted
  <2>11. RecvBuffered'
    BY <2>1, <2>9, <1>a DEF RecvBuffered, InHand
  <2>12. QED
    BY <2>10, <2>11, <1>c DEF RecvInv
<1>10. CASE PeerClose \/ UNCHANGED ioVars
  BY <1>10, <1>c, RecvStutter DEF PeerClose, ioVars
<1>11. QED
  BY <1>1, <1>2, <1>3, <1>4, <1>5, <1>6, <1>7, <1>8, <1>9, <1>10
     DEF IoNext, IoStep

LEMMA RecvInvariance ==
  ASSUME OneReceiver
  PROVE  IoSpec => [](TypeInv /\ RecvInv)
<1>1. IoInit => TypeInv /\ RecvInv
  BY TypeInvInit, RecvInit
<1>2. TypeInv /\ RecvInv /\ [IoNext]_ioVars => (TypeInv /\ RecvInv)'
  BY OneReceiver, TypeInvStep, RecvStep
<1>3. QED
  BY <1>1, <1>2, PTL DEF IoSpec

LEMMA RecvInvImplies ==
  ASSUME TypeInv, RecvInv
  PROVE  DecodedWhole /\ DecodedInOrder
<1>1. Len(decoded) \in Nat /\ Len(inbox) \in Nat /\ Len(pushed) \in Nat
  BY DEF TypeInv, IoTypeOK
<1>2. Accounted
  BY DEF RecvInv
<1>3. DecodedWhole
  BY <1>2 DEF Accounted, DecodedWhole
<1>4. Len(decoded) + Len(inbox) <= Len(pushed)
  BY <1>1, <1>2 DEF Accounted, Taken
<1>5. QED
  BY <1>2, <1>3, <1>4 DEF Accounted, DecodedInOrder

\* One thread that receives, any number that send: im_conn_recv_packet()
\* decodes after it has released the mutex (packet_io.c:105-113) and still
\* hands out whole messages only.
THEOREM IoDecodedWhole ==
  ASSUME OneReceiver
  PROVE  IoSpec => []DecodedWhole
  BY RecvInvariance, RecvInvImplies, PTL

\* ... each of the server's messages once, and in the order it sent them.
THEOREM IoDecodedInOrder ==
  ASSUME OneReceiver
  PROVE  IoSpec => []DecodedInOrder
  BY RecvInvariance, RecvInvImplies, PTL

-----------------------------------------------------------------------------
(* The refinement of FrameChannel                                          *)

\* The abstract variables that are not variables of PacketIO.
Call == [t \in Threads |-> Progress(t)]
Outgoing == [i \in 1..Len(wire) |-> wire[i].head]
Delivered == [i \in 1..Len(decoded) |-> decoded[i].head]

LEMMA HeadsAppend ==
  ASSUME NEW T, NEW s \in Seq([head : T, body : T]), NEW e \in [head : T, body : T]
  PROVE  [i \in 1..Len(Append(s, e)) |-> Append(s, e)[i].head]
            = Append([i \in 1..Len(s) |-> s[i].head], e.head)
<1> DEFINE h == [i \in 1..Len(s) |-> s[i].head]
<1> DEFINE g == [i \in 1..Len(Append(s, e)) |-> Append(s, e)[i].head]
<1>1. Len(s) \in Nat /\ Len(Append(s, e)) = Len(s) + 1
      /\ Append(s, e)[Len(s) + 1] = e
      /\ \A i \in 1..Len(s) : Append(s, e)[i] = s[i]
  OBVIOUS
<1>2. h \in Seq(T)
  <2>1. \A i \in 1..Len(s) : s[i].head \in T
    <3> SUFFICES ASSUME NEW i \in 1..Len(s) PROVE s[i].head \in T
      OBVIOUS
    <3>1. s[i] \in [head : T, body : T]
      BY ElementOfSeq
    <3>2. QED
      BY <3>1
  <2>2. QED
    BY <2>1, <1>1, IsASeq
<1>3. Len(h) = Len(s)
  BY <1>1, <1>2
<1>4. e.head \in T
  OBVIOUS
<1>5. Append(h, e.head) \in Seq(T) /\ Len(Append(h, e.head)) = Len(s) + 1
      /\ Append(h, e.head)[Len(s) + 1] = e.head
      /\ \A i \in 1..Len(s) : Append(h, e.head)[i] = s[i].head
  BY <1>1, <1>2, <1>3, <1>4
<1>6. Append(h, e.head) = [i \in 1..Len(s) + 1 |-> Append(h, e.head)[i]]
  BY <1>5
<1>7. \A i \in 1..Len(s) + 1 : Append(s, e)[i].head = Append(h, e.head)[i]
  <2> SUFFICES ASSUME NEW i \in 1..Len(s) + 1
               PROVE  Append(s, e)[i].head = Append(h, e.head)[i]
    OBVIOUS
  <2>1. CASE i = Len(s) + 1
    BY <2>1, <1>1, <1>5
  <2>2. CASE i \in 1..Len(s)
    BY <2>2, <1>1, <1>5
  <2>3. QED
    BY <2>1, <2>2, <1>1
<1>8. g = [i \in 1..Len(s) + 1 |-> Append(h, e.head)[i]]
  BY <1>1, <1>7
<1>9. g = Append(h, e.head)
  BY <1>6, <1>8
<1>10. QED
  BY <1>9

\* A step of thread t moves only t's call.
LEMMA CallOfOne ==
  ASSUME NEW t \in Threads,
         \A u \in Threads : u # t => io'[u] = io[u] /\ sent'[u] = sent[u]
  PROVE  Call' = [Call EXCEPT ![t] = Progress(t)']
  BY DEF Call, Progress

LEMMA RefinementInit == IoInit => Channel!Init
  BY DEF IoInit, Channel!Init, Progress

\* A step that neither begins, transmits, finishes nor forgets a send, nor
\* pushes or delivers a message.
LEMMA RefinementStutter ==
  ASSUME UNCHANGED <<pkt, wire, pushed, decoded>>,
         \A t \in Threads : Progress(t)' = Progress(t)
  PROVE  UNCHANGED Channel!vars
  BY DEF Channel!vars

LEMMA RefinementStep ==
  ASSUME OneSender, OneReceiver, TypeInv, SendInv, RecvInv, [IoNext]_ioVars
  PROVE  [Channel!Next]_Channel!vars
<1>a. IoTypeOK /\ Written
  BY DEF TypeInv
<1>b. io = [t \in Threads |-> io[t]] /\ pkt = [t \in Threads |-> pkt[t]]
      /\ sent = [t \in Threads |-> sent[t]]
  BY <1>a DEF IoTypeOK
<1> USE DEF Goto, exceptIo
<1>1. ASSUME NEW t \in Threads, NEW p \in OutPackets, BeginSend(t, p)
      PROVE  Channel!Next
  <2>1. io[t] \in Results /\ io' = [io EXCEPT ![t] = "body"]
        /\ pkt' = [pkt EXCEPT ![t] = p]
        /\ UNCHANGED <<sent, wire, pushed, decoded>>
    BY <1>1 DEF BeginSend
  <2>2. Progress(t) \notin {"pending", "done"} /\ Progress(t)' = "pending"
    BY <2>1, <1>b DEF Progress, Results
  <2>3. Call' = [Call EXCEPT ![t] = "pending"]
    BY <2>1, <2>2, <1>b, CallOfOne
  <2>4. Channel!StartSend(t, p)
    BY <2>1, <2>2, <2>3 DEF Channel!StartSend, Call
  <2>5. QED
    BY <2>4 DEF Channel!Next
<1>2. ASSUME NEW t \in Threads, BeginWait(t) \/ BeginRecv(t)
      PROVE  [Channel!Next]_Channel!vars
  <2>1. PICK s \in {"lock_wait", "lock_recv"} : io' = [io EXCEPT ![t] = s]
    BY <1>2 DEF BeginWait, BeginRecv
  <2>2. io[t] \in Results /\ UNCHANGED <<pkt, sent, wire, pushed, decoded>>
    BY <1>2 DEF BeginWait, BeginRecv
  <2>3. Progress(t)' = "none"
    BY <2>1, <1>b DEF Progress
  <2>4. CASE io[t] \in {"sent", "send_failed"}
    <3>1. Progress(t) \in {"sent", "failed"}
      BY <2>4 DEF Progress
    <3>2. Call' = [Call EXCEPT ![t] = "none"]
      BY <2>1, <2>2, <2>3, <1>b, CallOfOne
    <3>3. Channel!Forget(t)
      BY <2>2, <3>1, <3>2 DEF Channel!Forget, Call
    <3>4. QED
      BY <3>3 DEF Channel!Next
  <2>5. CASE io[t] \notin {"sent", "send_failed"}
    <3>1. Progress(t) = "none"
      BY <2>2, <2>5 DEF Progress, Results
    <3>2. \A u \in Threads : Progress(u)' = Progress(u)
      BY <2>1, <2>2, <2>3, <3>1, <1>b DEF Progress
    <3>3. QED
      BY <2>2, <3>2, RefinementStutter
  <2>6. QED
    BY <2>4, <2>5
<1>3. ASSUME NEW t \in Threads, SerializeBody(t) \/ LockSend(t)
      PROVE  UNCHANGED Channel!vars
  <2>1. \A u \in Threads : Progress(u)' = Progress(u)
    BY <1>3, <1>b DEF SerializeBody, LockSend, Lock, Progress
  <2>2. QED
    BY <1>3, <2>1, RefinementStutter DEF SerializeBody, LockSend, Lock
<1>4. ASSUME NEW t \in Threads, NetioSend(t) PROVE [Channel!Next]_Channel!vars
  <2>1. io[t] = "send" /\ io' = [io EXCEPT ![t] = "check"]
        /\ UNCHANGED <<pkt, sendBuff, pushed, decoded>>
    BY <1>4 DEF NetioSend
  <2>2. sendBuff.head = pkt[t] /\ sendBuff.body = pkt[t]
    BY <2>1 DEF SendInv, Sending
  <2>3. sendBuff \in [head : OutPackets, body : OutPackets]
    BY <2>1, <1>a DEF Written, Sending, IoTypeOK, Outbound
  <2>4. Progress(t) = "pending"
    BY <2>1 DEF Progress
  <2>5. CASE wire' = Append(wire, sendBuff)
             /\ sent' = [sent EXCEPT ![t] = Size[sendBuff.body]]
    <3>1. Size[sendBuff.body] \in Nat
      BY <2>3, PacketAssumption
    <3>2. sent'[t] # -1
      BY <2>5, <3>1, <1>b
    <3>3. Progress(t)' = "done"
      BY <2>1, <3>2, <1>b DEF Progress
    <3>4. Call' = [Call EXCEPT ![t] = "done"]
      BY <2>1, <2>5, <3>3, <1>b, CallOfOne
    <3>5. Outgoing' = Append(Outgoing, pkt[t])
      BY <2>2, <2>3, <2>5, <1>a, HeadsAppend DEF Outgoing, IoTypeOK
    <3>6. Delivered' = Delivered
      BY <2>1 DEF Delivered
    <3>7. Channel!Transmit(t)
      BY <2>1, <2>4, <3>4, <3>5, <3>6 DEF Channel!Transmit, Call, Outgoing, Delivered
    <3>8. QED
      BY <3>7 DEF Channel!Next
  <2>6. CASE sent' = [sent EXCEPT ![t] = -1] /\ UNCHANGED wire
    <3>1. Progress(t)' = "pending"
      BY <2>1, <2>6, <1>b DEF Progress
    <3>2. \A u \in Threads : Progress(u)' = Progress(u)
      BY <2>1, <2>4, <2>6, <3>1, <1>b DEF Progress
    <3>3. QED
      BY <2>1, <2>6, <3>2, RefinementStutter
  <2>7. QED
    BY <1>4, <2>5, <2>6 DEF NetioSend
<1>5. ASSUME NEW t \in Threads, FinishSend(t) PROVE Channel!Next
  <2>1. io[t] = "check" /\ pkt' = [pkt EXCEPT ![t] = Null]
        /\ UNCHANGED <<sent, wire, pushed, decoded>>
    BY <1>5 DEF FinishSend
  <2>2. sendBuff.body = pkt[t] /\ pkt[t] \in OutPackets
        /\ sent[t] \in {-1, Size[pkt[t]]}
    BY <2>1, <1>a DEF SendInv, Written, Sending
  <2>3. Size[pkt[t]] \in Nat
    BY <2>2, PacketAssumption
  <2>4. AllSent(t) <=> sent[t] # -1
    BY <2>2, <2>3 DEF AllSent
  <2>5. CASE AllSent(t) /\ io' = [io EXCEPT ![t] = "sent"]
    <3>1. Progress(t) = "done" /\ Progress(t)' = "sent"
      BY <2>1, <2>4, <2>5, <1>b DEF Progress
    <3>2. Call' = [Call EXCEPT ![t] = "sent"]
      BY <2>1, <2>5, <3>1, <1>b, CallOfOne
    <3>3. Channel!Finish(t)
      BY <2>1, <3>1, <3>2 DEF Channel!Finish, Call
    <3>4. QED
      BY <3>3 DEF Channel!Next
  <2>6. CASE ~AllSent(t) /\ io' = [io EXCEPT ![t] = "send_failed"]
    <3>1. Progress(t) = "pending" /\ Progress(t)' = "failed"
      BY <2>1, <2>4, <2>6, <1>b DEF Progress
    <3>2. Call' = [Call EXCEPT ![t] = "failed"]
      BY <2>1, <2>6, <3>1, <1>b, CallOfOne
    <3>3. Channel!Finish(t)
      BY <2>1, <3>1, <3>2 DEF Channel!Finish, Call
    <3>4. QED
      BY <3>3 DEF Channel!Next
  <2>7. QED
    BY <1>5, <2>5, <2>6 DEF FinishSend
<1>6. ASSUME NEW t \in Threads, LockWait(t) \/ LockRecv(t) \/ FinishWait(t)
      PROVE  UNCHANGED Channel!vars
  <2>1. \A u \in Threads : Progress(u)' = Progress(u)
    BY <1>6, <1>b DEF LockWait, LockRecv, Lock, FinishWait, Progress
  <2>2. QED
    BY <1>6, <2>1, RefinementStutter DEF LockWait, LockRecv, Lock, FinishWait
<1>7. ASSUME NEW t \in Threads, NetioRecv(t) \/ DecodeHead(t)
      PROVE  UNCHANGED Channel!vars
  <2>1. \A u \in Threads : Progress(u)' = Progress(u)
    BY <1>7, <1>b DEF NetioRecv, DecodeHead, Progress
  <2>2. QED
    BY <1>7, <2>1, RefinementStutter DEF NetioRecv, DecodeHead
<1>8. ASSUME NEW t \in Threads, DecodeBody(t) PROVE Channel!Next
  <2> DEFINE m == pushed[Len(decoded) + 1]
  <2> DEFINE item == [head |-> m, body |-> m]
  <2>1. io[t] = "decode_body" /\ UNCHANGED <<pkt, sent, wire, pushed>>
    BY <1>8 DEF DecodeBody
  <2>2. recvBuff.body = m /\ got[t].head = m
    BY <2>1 DEF RecvInv, RecvBuffered, Decoding
  <2>3. io' = [io EXCEPT ![t] = "received"] /\ decoded' = Append(decoded, item)
    BY <1>8, <2>2 DEF DecodeBody
  <2>4. item \in [head : InPackets, body : InPackets]
    BY <2>1, <2>2, <1>a DEF Written, Decoding
  <2>5. Delivered' = Append(Delivered, m)
    BY <2>3, <2>4, <1>a, HeadsAppend DEF Delivered, IoTypeOK
  <2>6. InHand
    BY <2>1 DEF InHand, Decoding
  <2>7. Len(Delivered) = Len(decoded) /\ Len(decoded) < Len(pushed)
    <3>1. Len(decoded) \in Nat /\ Len(inbox) \in Nat
      BY <1>a DEF IoTypeOK
    <3>2. Len(pushed) = Len(decoded) + 1 + Len(inbox)
      BY <2>6 DEF RecvInv, Accounted, Taken
    <3>3. Len(Delivered) = Len(decoded)
      BY <3>1 DEF Delivered
    <3>4. QED
      BY <3>1, <3>2, <3>3
  <2>8. \A u \in Threads : Progress(u)' = Progress(u)
    BY <2>1, <2>3, <1>b DEF Progress
  <2>9. Call' = Call /\ Outgoing' = Outgoing
    BY <2>1, <2>8 DEF Call, Outgoing
  <2>10. Channel!Deliver
    BY <2>1, <2>5, <2>7, <2>9 DEF Channel!Deliver, Call, Outgoing, Delivered
  <2>11. QED
    BY <2>10 DEF Channel!Next
<1>9. ASSUME NEW m \in InPackets, Push(m) PROVE Channel!Next
  <2>1. pushed' = Append(pushed, m) /\ UNCHANGED <<io, pkt, sent, wire, decoded>>
    BY <1>9 DEF Push
  <2>2. Call' = Call /\ Outgoing' = Outgoing /\ Delivered' = Delivered
    BY <2>1 DEF Call, Progress, Outgoing, Delivered
  <2>3. Channel!Push(m)
    BY <2>1, <2>2 DEF Channel!Push, Call, Outgoing, Delivered
  <2>4. QED
    BY <2>3 DEF Channel!Next
<1>10. CASE PeerClose \/ UNCHANGED ioVars
  <2>1. UNCHANGED <<io, pkt, sent, wire, pushed, decoded>>
    BY <1>10 DEF PeerClose, ioVars
  <2>2. \A u \in Threads : Progress(u)' = Progress(u)
    BY <2>1 DEF Progress
  <2>3. QED
    BY <2>1, <2>2, RefinementStutter
<1>11. QED
  BY <1>1, <1>2, <1>3, <1>4, <1>5, <1>6, <1>7, <1>8, <1>9, <1>10
     DEF IoNext, IoStep

\* With one sender and one receiver client/packet_io.c implements FrameChannel:
\* whatever the interleaving of the two, a caller cannot tell its shared buffers
\* from a channel that moves whole packets.
THEOREM IoImplementsChannel ==
  ASSUME OneSender, OneReceiver
  PROVE  IoSpec => ImplementsChannel
<1>1. IoInit => Channel!Init
  BY RefinementInit
<1>2. TypeInv /\ SendInv /\ RecvInv /\ [IoNext]_ioVars => [Channel!Next]_Channel!vars
  BY OneSender, OneReceiver, RefinementStep
<1>3. QED
  BY <1>1, <1>2, SendInvariance, RecvInvariance, PTL
     DEF IoSpec, ImplementsChannel, Channel!Spec

-----------------------------------------------------------------------------
(* The client session                                                      *)

\* The ids the client and the server draw.
Numbers ==
    /\ nextId \in Nat /\ nextId >= 1
    /\ asked \in Nat
    /\ served \in Nat

\* A message is in the thread's hands when it was received, and while the
\* Response to it is sent.
Held ==
    \A t \in Threads :
        /\ io[t] = "received" => got[t].head \in InPackets /\ got[t].body \in InPackets
        /\ ctl[t] = "responding" =>
              /\ got[t].head \in InPackets /\ got[t].body \in InPackets
              /\ io[t] \in Sending \union {"sent", "send_failed"}

Shape == ctl \in [Threads -> {"idle", "sending", "waiting", "receiving",
                              "responding", "reporting"}]

ClientInv == TypeInv /\ Numbers /\ Held /\ Shape

LEMMA ClientInit == Init => ClientInv
<1> SUFFICES ASSUME Init PROVE ClientInv
  OBVIOUS
<1>1. TypeInv
  BY TypeInvInit DEF Init
<1>2. Numbers /\ Held /\ Shape
  BY DEF Init, IoInit, Numbers, Held, Shape
<1> QED
  BY <1>1, <1>2 DEF ClientInv

\* The packets the client makes are packets of its alphabet.
LEMMA ClientPacket ==
  ASSUME NEW ty \in Types, NEW ex \in {"request", "response", "report"},
         NEW i \in PacketIds
  PROVE  Packet(ty, ex, i) \in OutPackets
  BY AlphabetAssumption DEF Packet, ClientPackets

\* The messages the server makes are messages of its alphabet.
LEMMA ServerMessage ==
  ASSUME NEW ty \in Types, NEW ex \in {"request", "response"},
         NEW i \in PacketIds, NEW ok \in BOOLEAN
  PROVE  Message(ty, ex, i, ok) \in InPackets
  BY AlphabetAssumption DEF Message, ServerMessages

\* A step of the client is a step of the packet layer or none.
LEMMA ClientStep == ClientInv /\ [Next]_vars => [IoNext]_ioVars
<1> SUFFICES ASSUME ClientInv, [Next]_vars PROVE [IoNext]_ioVars
  OBVIOUS
<1> USE ClientAssumption DEF ClientInv
<1>1. ASSUME NEW i \in Nat, 1 <= i, i <= MaxId PROVE i \in PacketIds
  BY <1>1 DEF PacketIds
<1>2. ASSUME NEW m \in InPackets PROVE m.id \in PacketIds
  BY <1>2, AlphabetAssumption DEF ServerMessages
<1>3. ASSUME NEW t \in Threads, Notify(t) PROVE IoNext
  <2>1. Packet("notify", "request", nextId) \in OutPackets
    BY <1>1, <1>3, ClientPacket DEF Notify, Numbers, Types
  <2> QED
    BY <1>3, <2>1 DEF Notify, IoNext
<1>4. ASSUME NEW t \in Threads, PollKeepalive(t) PROVE IoNext
  <2>1. Packet("keepalive", "request", nextId) \in OutPackets
    BY <1>1, <1>4, ClientPacket DEF PollKeepalive, Numbers, Types
  <2> QED
    BY <1>4, <2>1 DEF PollKeepalive, IoNext
<1>5. ASSUME NEW t \in Threads, Poll(t) PROVE IoNext
  BY <1>5 DEF Poll, IoNext
<1>6. ASSUME NEW t \in Threads, WaitAgain(t) PROVE IoNext
  BY <1>6 DEF WaitAgain, IoNext
<1>7. ASSUME NEW t \in Threads, InCall(t) PROVE [IoNext]_ioVars
  <2>1. CASE IoStep(t)
    BY <2>1 DEF IoNext
  <2>2. CASE Sent(t) \/ ReceiveFailed(t) \/ Answered(t) \/ Dropped(t)
    BY <1>6, <2>2 DEF Sent, ReceiveFailed, Answered, Dropped, Return
  <2>3. CASE Waited(t)
    BY <2>3 DEF Waited, Return, IoNext
  <2>4. CASE DispatchControl(t)
    <3>1. got[t].head.id \in PacketIds
      BY <1>2, <2>4 DEF DispatchControl, HasMessage, Held
    <3>2. Packet("control", "response", got[t].head.id) \in OutPackets
      BY <3>1, ClientPacket DEF Types
    <3>3. ASSUME nextId <= MaxId
          PROVE  Packet("control", "response", nextId) \in OutPackets
      BY <1>1, <3>3, ClientPacket DEF Numbers, Types
    <3> QED
      BY <2>4, <3>2, <3>3 DEF DispatchControl, IoNext
  <2>5. CASE Responded(t)
    <3>1. got[t].head.id \in PacketIds
      BY <1>2, <2>5 DEF Responded, Held
    <3>2. Packet("control", "report", got[t].head.id) \in OutPackets
      BY <3>1, ClientPacket DEF Types
    <3> QED
      BY <1>6, <2>5, <3>2 DEF Responded, IoNext
  <2>6. CASE DispatchRetrieve(t)
    <3>1. got[t].head.id \in PacketIds
      BY <1>2, <2>6 DEF DispatchRetrieve, HasMessage, Held
    <3>2. Packet("retrieve", "response", got[t].head.id) \in OutPackets
      BY <3>1, ClientPacket DEF Types
    <3> QED
      BY <1>6, <2>6, <3>2 DEF DispatchRetrieve, IoNext
  <2>7. CASE DispatchOther(t) \/ Reported(t)
    BY <1>6, <2>7 DEF DispatchOther, Reported
  <2> QED
    BY <1>7, <2>1, <2>2, <2>3, <2>4, <2>5, <2>6, <2>7 DEF InCall
<1>8. CASE Serve
  <2> DEFINE p == wire[served + 1].head
  <2>1. p \in ClientPackets
    <3>1. served + 1 \in 1..Len(wire)
      BY <1>8 DEF Serve, Numbers, TypeInv, IoTypeOK
    <3>2. wire[served + 1] \in [head : OutPackets, body : OutPackets]
      BY <3>1, ElementOfSeq DEF TypeInv, IoTypeOK
    <3> QED
      BY <3>2, AlphabetAssumption
  <2>2. p.type \in Types /\ p.id \in PacketIds
    BY <2>1 DEF ClientPackets
  <2>3. \A ok \in BOOLEAN : Message(p.type, "response", p.id, ok) \in InPackets
    BY <2>2, ServerMessage
  <2> QED
    BY <1>8, <2>3 DEF Serve, Verdicts, IoNext
<1>9. CASE Ask
  <2>1. -(asked + 1) \in PacketIds /\ NoId \in PacketIds
    BY <1>9 DEF Ask, Numbers, PacketIds, NoId
  <2>2. \A ty \in {"control", "retrieve"}, i \in {NoId, -(asked + 1)},
           ok \in BOOLEAN : Message(ty, "request", i, ok) \in InPackets
    BY <2>1, ServerMessage DEF Types
  <2> QED
    BY <1>9, <2>2 DEF Ask, Verdicts, IoNext
<1>10. CASE Close
  BY <1>10 DEF Close, IoNext
<1>11. CASE UNCHANGED vars
  BY <1>11 DEF vars
<1> QED
  BY <1>3, <1>4, <1>5, <1>7, <1>8, <1>9, <1>10, <1>11 DEF Next, Rest

-----------------------------------------------------------------------------
(* The invariant is preserved.  The layer's step of a thread leaves the other *)
(* threads where they are, and what the thread holds while it sends.          *)

\* Nobody but t has moved, and what t received is a message of the server.
Touches(t) ==
    /\ \A u \in Threads \ {t} : io'[u] = io[u] /\ got'[u] = got[u]
    /\ io'[t] = "received" => got'[t].head \in InPackets /\ got'[t].body \in InPackets

LEMMA LayerStep ==
  ASSUME TypeInv, NEW t \in Threads, IoStep(t)
  PROVE  /\ Touches(t)
         /\ io[t] \notin {"sent", "send_failed"}
         /\ io[t] \in Sending =>
               got' = got /\ io'[t] \in Sending \union {"sent", "send_failed"}
<1> USE DEF TypeInv, IoTypeOK, Written, Touches, Sending, Decoding, Goto
<1>1. CASE SerializeBody(t)
  BY <1>1 DEF SerializeBody
<1>2. CASE LockSend(t) \/ LockWait(t) \/ LockRecv(t)
  BY <1>2 DEF LockSend, LockWait, LockRecv, Lock
<1>3. CASE NetioSend(t)
  BY <1>3 DEF NetioSend
<1>4. CASE FinishSend(t)
  <2>1. PICK r \in {"sent", "send_failed"} : io' = [io EXCEPT ![t] = r]
    BY <1>4 DEF FinishSend
  <2> QED
    BY <1>4, <2>1 DEF FinishSend
<1>5. CASE FinishWait(t)
  <2>1. PICK r \in {"ready", "nothing", "broken", "interrupted"} :
          io' = [io EXCEPT ![t] = r]
    BY <1>5 DEF FinishWait
  <2> QED
    BY <1>5, <2>1 DEF FinishWait
<1>6. CASE NetioRecv(t)
  <2>1. PICK r \in {"decode_head", "recv_failed"} : io' = [io EXCEPT ![t] = r]
    BY <1>6 DEF NetioRecv
  <2> QED
    BY <1>6, <2>1 DEF NetioRecv
<1>7. CASE DecodeHead(t)
  BY <1>7 DEF DecodeHead
<1>8. CASE DecodeBody(t)
  <2>1. /\ got[t].head \in InPackets /\ recvBuff.body \in InPackets
        /\ got' = [got EXCEPT ![t].body = recvBuff.body]
    BY <1>8 DEF DecodeBody
  <2>2. PICK r \in {"received", "recv_failed"} : io' = [io EXCEPT ![t] = r]
    BY <1>8 DEF DecodeBody
  <2> QED
    BY <1>8, <2>1, <2>2 DEF DecodeBody, Outbound
<1> QED
  BY <1>1, <1>2, <1>3, <1>4, <1>5, <1>6, <1>7, <1>8 DEF IoStep

\* A call into the layer starts: nothing is received yet.
LEMMA LayerCall ==
  ASSUME TypeInv, NEW t \in Threads,
         (\E p \in OutPackets : BeginSend(t, p)) \/ BeginWait(t) \/ BeginRecv(t)
  PROVE  Touches(t) /\ got' = got /\ io'[t] # "received"
  BY DEF TypeInv, IoTypeOK, Touches, BeginSend, BeginWait, BeginRecv, exceptIo

\* A step of t that is not the start of a Response keeps Held and Shape.
LEMMA KeepsHeld ==
  ASSUME ClientInv, NEW t \in Threads, Touches(t), NEW c,
         c \in {"idle", "sending", "waiting", "receiving", "reporting"},
         ctl' = [ctl EXCEPT ![t] = c]
  PROVE  Held' /\ Shape'
  BY DEF ClientInv, Held, Shape, Touches

\* A step of the server or of nobody keeps Held and Shape.
LEMMA OthersKeepHeld ==
  ASSUME ClientInv, UNCHANGED <<ctl, io, got>>
  PROVE  Held' /\ Shape'
  BY DEF ClientInv, Held, Shape

LEMMA NumbersStep == ClientInv /\ [Next]_vars => Numbers'
<1> SUFFICES ASSUME ClientInv, [Next]_vars PROVE Numbers'
  OBVIOUS
<1> USE DEF ClientInv, Numbers
<1>1. ASSUME NEW t \in Threads, Notify(t) \/ Poll(t) \/ PollKeepalive(t)
      PROVE  Numbers'
  BY <1>1 DEF Notify, Poll, PollKeepalive, serverVars
<1>2. ASSUME NEW t \in Threads, InCall(t) PROVE Numbers'
  <2>1. UNCHANGED serverVars /\ nextId' \in {nextId, nextId + 1}
    BY <1>2 DEF InCall, clientVars, serverVars, Sent, Waited, ReceiveFailed,
       Answered, Dropped, DispatchControl, Responded, DispatchRetrieve,
       DispatchOther, Reported, Return
  <2> QED
    BY <2>1 DEF serverVars
<1>3. CASE Serve \/ Ask \/ Close
  BY <1>3 DEF Serve, Ask, Close, clientVars, serverVars
<1>4. CASE UNCHANGED vars
  BY <1>4 DEF vars, clientVars, serverVars
<1> QED
  BY <1>1, <1>2, <1>3, <1>4 DEF Next, Rest

LEMMA HeldStep == ClientInv /\ [Next]_vars => Held' /\ Shape'
<1> SUFFICES ASSUME ClientInv, [Next]_vars PROVE Held' /\ Shape'
  OBVIOUS
<1>a. TypeInv
  BY DEF ClientInv
<1>1. ASSUME NEW t \in Threads, Notify(t) \/ Poll(t) \/ PollKeepalive(t)
      PROVE  Held' /\ Shape'
  <2>1. (\E p \in OutPackets : BeginSend(t, p)) \/ BeginWait(t)
    <3>1. nextId <= MaxId => nextId \in PacketIds
      BY ClientAssumption DEF ClientInv, Numbers, PacketIds
    <3>2. nextId <= MaxId => /\ Packet("notify", "request", nextId) \in OutPackets
                             /\ Packet("keepalive", "request", nextId) \in OutPackets
      BY <3>1, ClientPacket DEF Types
    <3> QED
      BY <1>1, <3>2 DEF Notify, Poll, PollKeepalive
  <2>2. Touches(t)
    BY <1>a, <2>1, LayerCall
  <2> QED
    BY <1>1, <2>2, KeepsHeld DEF Notify, Poll, PollKeepalive, At
<1>2. ASSUME NEW t \in Threads, WaitAgain(t) PROVE Held' /\ Shape'
  <2>1. Touches(t)
    BY <1>2, <1>a, LayerCall DEF WaitAgain
  <2> QED
    BY <1>2, <2>1, KeepsHeld DEF WaitAgain
<1>3. ASSUME NEW t \in Threads, NEW rc, Return(t, rc) PROVE Held' /\ Shape'
  <2>1. Touches(t)
    BY <1>3 DEF Return, ioVars, Touches, ClientInv, Held
  <2> QED
    BY <1>3, <2>1, KeepsHeld DEF Return
<1>4. ASSUME NEW t \in Threads, NEW p \in OutPackets, BeginSend(t, p),
             ctl' = [ctl EXCEPT ![t] = "reporting"]
      PROVE  Held' /\ Shape'
  <2>1. Touches(t)
    BY <1>4, <1>a, LayerCall
  <2> QED
    BY <1>4, <2>1, KeepsHeld
<1>5. ASSUME NEW t \in Threads, InCall(t) PROVE Held' /\ Shape'
  <2>1. CASE IoStep(t) /\ UNCHANGED <<clientVars, serverVars>>
    <3>1. ctl' = ctl
      BY <2>1 DEF clientVars
    <3> QED
      BY <2>1, <3>1, <1>a, LayerStep DEF Touches, ClientInv, Held, Shape
  <2>2. CASE Sent(t) \/ ReceiveFailed(t) \/ Answered(t) \/ Dropped(t)
             \/ DispatchOther(t) \/ Reported(t)
    BY <1>2, <1>3, <2>2 DEF Sent, ReceiveFailed, Answered, Dropped,
       DispatchOther, Reported
  <2>3. CASE Waited(t)
    <3>1. CASE ctl' = [ctl EXCEPT ![t] = "receiving"] /\ BeginRecv(t)
      <4>1. Touches(t)
        BY <3>1, <1>a, LayerCall
      <4> QED
        BY <3>1, <4>1, KeepsHeld
    <3> QED
      BY <1>3, <2>3, <3>1 DEF Waited
  <2>4. CASE DispatchControl(t)
    <3>1. got[t].head \in InPackets /\ got[t].body \in InPackets
      BY <2>4 DEF DispatchControl, HasMessage, ClientInv, Held
    <3>2. PICK p : BeginSend(t, p)
      BY <2>4 DEF DispatchControl
    <3>3. io' = [io EXCEPT ![t] = "body"] /\ got' = got
      BY <3>2 DEF BeginSend
    <3>4. ctl' = [ctl EXCEPT ![t] = "responding"]
      BY <2>4 DEF DispatchControl
    <3> QED
      BY <3>1, <3>3, <3>4, <1>a
      DEF ClientInv, Held, Shape, Sending, TypeInv, IoTypeOK
  <2>5. CASE Responded(t) \/ DispatchRetrieve(t)
    <3>1. got[t].head \in InPackets
      BY <2>5 DEF Responded, DispatchRetrieve, HasMessage, ClientInv, Held
    <3>2. got[t].head.id \in PacketIds
      BY <3>1, AlphabetAssumption DEF ServerMessages
    <3>3. /\ Packet("control", "report", got[t].head.id) \in OutPackets
          /\ Packet("retrieve", "response", got[t].head.id) \in OutPackets
      BY <3>2, ClientPacket DEF Types
    <3> QED
      BY <1>2, <1>4, <2>5, <3>3 DEF Responded, DispatchRetrieve
  <2> QED
    BY <1>5, <2>1, <2>2, <2>3, <2>4, <2>5 DEF InCall
<1>6. CASE Serve \/ Ask \/ Close
  BY <1>6, OthersKeepHeld
  DEF Serve, Ask, Close, Push, PeerClose, clientVars, ioVars
<1>7. CASE UNCHANGED vars
  BY <1>7, OthersKeepHeld DEF vars, clientVars, ioVars
<1> QED
  BY <1>1, <1>5, <1>6, <1>7 DEF Next, Rest

LEMMA ClientInvariance == Spec => []ClientInv
<1>1. ClientInv /\ [Next]_vars => ClientInv'
  <2>1. ClientInv /\ [Next]_vars => TypeInv'
    BY ClientStep, TypeInvStep DEF ClientInv
  <2> QED
    BY <2>1, NumbersStep, HeldStep DEF ClientInv
<1> QED
  BY <1>1, ClientInit, PTL DEF Spec

-----------------------------------------------------------------------------

\* Whatever the threads, the calls and the server, the client session
\* (client/client.c, client/api_device.c) uses the packet layer within the
\* rules of PacketIO: its behaviours are behaviours of IoSpec.
THEOREM ImClientUsesPacketIO == Spec => UsesPacketIO
<1>1. Init => IoInit
  BY DEF Init
<1> QED
  BY <1>1, ClientStep, ClientInvariance, PTL DEF Spec, UsesPacketIO, IoSpec

\* im_poll() holds the mutex for its availability test only, a transaction
\* takes it anew for each step and a handler sends from within a receive: for
\* all of these together, two threads are never in the socket calls of one
\* session at once (client.c:467, client.c:536, packet_io.c:40).
THEOREM ImClientMutualExclusion == Spec => []MutualExclusion
  BY ImClientUsesPacketIO, IoMutualExclusion, PTL DEF UsesPacketIO

\* Nor is the mutex ever leaked there: a handler that sends from within a
\* receive takes it anew after the receive has given it back, and each hold is
\* over after at most two steps of its thread.
THEOREM ImClientHoldEnds == Spec => []HolderInside /\ HoldShrinks
  BY ImClientUsesPacketIO, IoHoldEnds, PTL DEF UsesPacketIO

\* So a thread that has the session for itself sees the channel of FrameChannel:
\* its notifications with their waits, im_poll(), and the handlers both of them
\* run, which send from within a receive, move whole packets, none twice and
\* none out of order.
THEOREM ImClientImplementsChannel ==
  ASSUME OneSender, OneReceiver
  PROVE  Spec => ImplementsChannel
  BY OneSender, OneReceiver, ImClientUsesPacketIO, IoImplementsChannel, PTL DEF UsesPacketIO

-----------------------------------------------------------------------------
(* Types                                                                     *)

\* A call is one of the three, and the two that send a request have it at hand.
Calls ==
    /\ op \in [Threads -> {"none", "notify", "keepalive", "poll"}]
    /\ req \in [Threads -> ClientPackets \union {Null}]
    /\ \A t \in Threads :
          /\ ctl[t] # "idle" => op[t] # "none"
          /\ ctl[t] = "sending" => op[t] # "poll"
          /\ op[t] \in {"notify", "keepalive"} => req[t] \in ClientPackets

\* What the calls leave behind.
Outcomes ==
    /\ nextId \in 1..MaxId + 1
    /\ calls \in 0..MaxCalls
    /\ returned \subseteq [req : ClientPackets, rc : {0, -1}]
    /\ callbacks \in Seq([head : ServerMessages, body : ServerMessages])
    /\ stopped \in [Threads -> {"no", "keepalive", "poll", "interrupted"}]
    /\ served \in 0..Len(wire)
    /\ asked \in 0..MaxRequests

ClientTypes == ClientInv /\ Calls /\ Outcomes

LEMMA TypesInit == Init => ClientTypes
<1> SUFFICES ASSUME Init PROVE ClientTypes
  OBVIOUS
<1>1. ClientInv
  BY ClientInit
<1>2. Calls
  BY DEF Init, Calls
<1>3. Outcomes
  BY ClientAssumption, EmptySeq DEF Init, IoInit, Outcomes
<1> QED
  BY <1>1, <1>2, <1>3 DEF ClientTypes

\* The request of a new call.
LEMMA NewRequest ==
  ASSUME Numbers, nextId <= MaxId
  PROVE  /\ Packet("notify", "request", nextId) \in ClientPackets
         /\ Packet("keepalive", "request", nextId) \in ClientPackets
<1>1. nextId \in PacketIds
  BY ClientAssumption DEF Numbers, PacketIds
<1> QED
  BY <1>1 DEF Packet, ClientPackets, Types

LEMMA CallsNext == ClientTypes /\ [Next]_vars => Calls'
<1> SUFFICES ASSUME ClientTypes, [Next]_vars PROVE Calls'
  OBVIOUS
<1> USE DEF ClientTypes, Calls
<1>1. ASSUME NEW t \in Threads, Notify(t) \/ PollKeepalive(t) PROVE Calls'
  <2>1. /\ Packet("notify", "request", nextId) \in ClientPackets
        /\ Packet("keepalive", "request", nextId) \in ClientPackets
    BY <1>1, NewRequest DEF ClientInv, Notify, PollKeepalive
  <2>2. Shape
    BY DEF ClientInv
  <2> QED
    BY <1>1, <2>1, <2>2 DEF Notify, PollKeepalive, At, Shape
<1>2. ASSUME NEW t \in Threads, Poll(t) PROVE Calls'
  BY <1>2 DEF Poll, At, ClientInv, Shape
<1>3. ASSUME NEW t \in Threads, NEW c, c # "sending", ctl[t] # "idle",
             ctl' = [ctl EXCEPT ![t] = c], UNCHANGED <<op, req>>
      PROVE  Calls'
  BY <1>3 DEF ClientInv, Shape
<1>4. ASSUME NEW t \in Threads, NEW rc, Return(t, rc) PROVE Calls'
  BY <1>4 DEF Return, ClientInv, Shape
<1>5. ASSUME NEW t \in Threads, InCall(t) PROVE Calls'
  <2>1. CASE IoStep(t) /\ UNCHANGED <<clientVars, serverVars>>
    BY <2>1 DEF clientVars
  <2>2. CASE Sent(t) \/ Waited(t) \/ ReceiveFailed(t) \/ Dropped(t)
             \/ DispatchOther(t) \/ Reported(t)
    BY <1>3, <1>4, <2>2 DEF Sent, Waited, ReceiveFailed, Dropped, DispatchOther,
       Reported, WaitAgain, HasMessage
  <2>3. CASE Answered(t)
    <3>1. CASE ctl' = [ctl EXCEPT ![t] = "waiting"]
               /\ op' = [op EXCEPT ![t] = "poll"] /\ req' = [req EXCEPT ![t] = Null]
      BY <3>1 DEF ClientInv, Shape
    <3> QED
      BY <1>4, <2>3, <3>1 DEF Answered, WaitAgain
  <2>4. CASE DispatchControl(t) \/ Responded(t) \/ DispatchRetrieve(t)
    BY <1>3, <2>4 DEF DispatchControl, Responded, DispatchRetrieve, HasMessage,
       WaitAgain
  <2> QED
    BY <1>5, <2>1, <2>2, <2>3, <2>4 DEF InCall
<1>6. CASE Serve \/ Ask \/ Close \/ UNCHANGED vars
  BY <1>6 DEF Serve, Ask, Close, clientVars, vars
<1> QED
  BY <1>1, <1>2, <1>5, <1>6 DEF Next, Rest

\* Nothing is taken back from the connection.
LEMMA WireGrows ==
  ASSUME TypeInv, [IoNext]_ioVars
  PROVE  wire' = wire \/ wire' = Append(wire, sendBuff)
<1>1. ASSUME NEW t \in Threads, IoStep(t)
      PROVE  wire' = wire \/ wire' = Append(wire, sendBuff)
  BY <1>1 DEF IoStep, SerializeBody, LockSend, LockWait, LockRecv, Lock, NetioSend,
     FinishSend, FinishWait, NetioRecv, DecodeHead, DecodeBody
<1> QED
  BY <1>1 DEF IoNext, BeginSend, BeginWait, BeginRecv, exceptIo, Push, PeerClose,
     ioVars

LEMMA OutcomesNext == ClientTypes /\ [Next]_vars => Outcomes'
<1> SUFFICES ASSUME ClientTypes, [Next]_vars PROVE Outcomes'
  OBVIOUS
<1> USE DEF ClientTypes, Outcomes
<1>0. Len(wire) \in Nat /\ Len(wire)' \in Nat /\ Len(wire)' >= Len(wire)
  <2>1. TypeInv /\ [IoNext]_ioVars
    BY ClientStep DEF ClientInv
  <2>2. wire \in Seq([head : OutPackets, body : OutPackets])
    BY <2>1 DEF TypeInv, IoTypeOK
  <2> QED
    BY <2>1, <2>2, WireGrows
<1>1. ASSUME NEW t \in Threads, Notify(t) \/ Poll(t) \/ PollKeepalive(t)
      PROVE  Outcomes'
  BY <1>0, <1>1, ClientAssumption DEF Notify, Poll, PollKeepalive, serverVars
<1>2. ASSUME UNCHANGED <<calls, returned, callbacks, stopped, serverVars>>,
             nextId' \in {nextId, nextId + 1}, nextId' \in 1..MaxId + 1
      PROVE  Outcomes'
  BY <1>0, <1>2 DEF serverVars
<1>3. ASSUME NEW t \in Threads, NEW rc \in {0, -1}, Return(t, rc), ctl[t] # "idle"
      PROVE  Outcomes'
  <2>1. returned' \subseteq [req : ClientPackets, rc : {0, -1}]
    BY <1>3 DEF Return, Calls
  <2>2. stopped' \in [Threads -> {"no", "keepalive", "poll", "interrupted"}]
    BY <1>3 DEF Return, Cause, Calls
  <2> QED
    BY <1>0, <1>3, <2>1, <2>2 DEF Return, serverVars
<1>4. ASSUME NEW t \in Threads, Callback(t), io[t] = "received" \/ ctl[t] = "responding",
             UNCHANGED <<nextId, calls, returned, stopped, serverVars>>
      PROVE  Outcomes'
  <2>1. got[t] \in Outbound(InPackets)
    BY DEF ClientInv, TypeInv, IoTypeOK
  <2>2. got[t] = [head |-> got[t].head, body |-> got[t].body]
    BY <2>1 DEF Outbound
  <2>3. got[t] \in [head : ServerMessages, body : ServerMessages]
    BY <1>4, <2>2, AlphabetAssumption DEF ClientInv, Held
  <2>4. callbacks' \in Seq([head : ServerMessages, body : ServerMessages])
    BY <1>4, <2>3 DEF Callback
  <2> QED
    BY <1>0, <1>4, <2>4 DEF serverVars
<1>5. ASSUME NEW t \in Threads, InCall(t) PROVE Outcomes'
  <2>1. CASE IoStep(t) /\ UNCHANGED <<clientVars, serverVars>>
    BY <1>2, <2>1 DEF clientVars
  <2>2. CASE Sent(t) \/ Waited(t) \/ ReceiveFailed(t) \/ Dropped(t)
             \/ DispatchOther(t) \/ Reported(t)
    BY <1>2, <1>3, <2>2 DEF Sent, Waited, ReceiveFailed, Dropped, DispatchOther,
       Reported
  <2>3. CASE Answered(t)
    <3>1. CASE Return(t, IF got[t].head.ok THEN 0 ELSE -1)
      BY <1>3, <2>3, <3>1 DEF Answered, HasMessage
    <3> QED
      BY <1>2, <2>3, <3>1 DEF Answered
  <2>4. CASE DispatchControl(t)
    <3>1. UNCHANGED <<calls, returned, callbacks, stopped, serverVars>>
      BY <2>4 DEF DispatchControl
    <3>2. nextId' \in {nextId, nextId + 1} /\ nextId' \in 1..MaxId + 1
      <4>1. nextId' = nextId \/ (nextId <= MaxId /\ nextId' = nextId + 1)
        BY <2>4 DEF DispatchControl
      <4> QED
        BY <4>1, ClientAssumption
    <3> QED
      BY <1>2, <3>1, <3>2
  <2>5. CASE Responded(t) \/ DispatchRetrieve(t)
    BY <1>2, <1>4, <2>5 DEF Responded, DispatchRetrieve, HasMessage
  <2> QED
    BY <1>5, <2>1, <2>2, <2>3, <2>4, <2>5 DEF InCall
<1>6. CASE Serve \/ Ask \/ Close
  BY <1>0, <1>6, ClientAssumption DEF Serve, Ask, Close, clientVars, serverVars
<1>7. CASE UNCHANGED vars
  BY <1>2, <1>7 DEF vars, clientVars
<1> QED
  BY <1>1, <1>5, <1>6, <1>7 DEF Next, Rest

LEMMA TypesNext == ClientTypes /\ [Next]_vars => ClientTypes'
<1>1. ClientInv /\ [Next]_vars => ClientInv'
  <2>1. ClientInv /\ [Next]_vars => TypeInv'
    BY ClientStep, TypeInvStep DEF ClientInv
  <2> QED
    BY <2>1, NumbersStep, HeldStep DEF ClientInv
<1> QED
  BY <1>1, CallsNext, OutcomesNext DEF ClientTypes

\* Type correctness of the client session over the packet layer, for any threads
\* and any server: what a handler is called with is a message, what a call
\* returns for is the request it was made with.
THEOREM ImClientTypeCorrect == Spec => []TypeOK
<1>1. ClientTypes => TypeOK
  BY DEF ClientTypes, ClientInv, TypeInv, Shape, Calls, Outcomes, TypeOK
<1> QED
  BY TypesInit, TypesNext, <1>1, PTL DEF Spec

-----------------------------------------------------------------------------
(* A poll that fails                                                         *)

\* The requests of the client are notifications and keepalives, with a number
\* it has drawn.
FromClient(p) == p.exch = "request" => p.type \in {"notify", "keepalive"} /\ p.id >= 1

\* What the client makes of the packet layer: a receive starts only after the
\* availability test has found data.
Used(t) ==
    \/ \E p \in OutPackets : BeginSend(t, p) /\ FromClient(p)
    \/ BeginWait(t)
    \/ BeginRecv(t) /\ io[t] = "ready"
    \/ IoStep(t)

LEMMA CallUses ==
  ASSUME ClientInv, NEW t \in Threads,
         Notify(t) \/ Poll(t) \/ PollKeepalive(t) \/ InCall(t)
  PROVE  Used(t) \/ UNCHANGED ioVars
<1>1. ASSUME nextId <= MaxId, NEW ty \in Types, NEW ex \in {"request", "response"},
             ex = "request" => ty \in {"notify", "keepalive"}
      PROVE  Packet(ty, ex, nextId) \in OutPackets /\ FromClient(Packet(ty, ex, nextId))
  <2>1. nextId \in PacketIds /\ nextId >= 1
    BY <1>1, ClientAssumption DEF ClientInv, Numbers, PacketIds
  <2> QED
    BY <1>1, <2>1, ClientPacket DEF FromClient, Packet
<1>2. ASSUME got[t].head \in InPackets, NEW ty \in Types,
             NEW ex \in {"response", "report"}
      PROVE  /\ Packet(ty, ex, got[t].head.id) \in OutPackets
             /\ FromClient(Packet(ty, ex, got[t].head.id))
  BY <1>2, ClientPacket, AlphabetAssumption DEF ServerMessages, FromClient, Packet
<1>3. CASE Notify(t) \/ Poll(t) \/ PollKeepalive(t)
  BY <1>1, <1>3 DEF Notify, Poll, PollKeepalive, Used, Types
<1>4. CASE IoStep(t)
  BY <1>4 DEF Used
<1>5. CASE Sent(t) \/ Waited(t) \/ ReceiveFailed(t) \/ Answered(t) \/ Dropped(t)
           \/ DispatchOther(t) \/ Reported(t)
  BY <1>5 DEF Sent, Waited, ReceiveFailed, Answered, Dropped, DispatchOther,
     Reported, Return, WaitAgain, Used
<1>6. CASE DispatchControl(t) \/ Responded(t) \/ DispatchRetrieve(t)
  <2>1. got[t].head \in InPackets
    BY <1>6 DEF DispatchControl, Responded, DispatchRetrieve, HasMessage,
       ClientInv, Held
  <2> QED
    BY <1>1, <1>2, <1>6, <2>1 DEF DispatchControl, Responded, DispatchRetrieve,
       WaitAgain, Used, Types
<1> QED
  BY <1>3, <1>4, <1>5, <1>6 DEF InCall

LEMMA ClientUses ==
  ASSUME ClientInv, [Next]_vars
  PROVE  \/ \E t \in Threads : Used(t)
         \/ \E m \in InPackets : Push(m)
         \/ PeerClose
         \/ UNCHANGED ioVars
<1>1. CASE Serve \/ Ask
  <2>1. [IoNext]_ioVars
    BY ClientStep
  <2>2. (\E m : Push(m)) \/ UNCHANGED ioVars
    BY <1>1 DEF Serve, Ask
  <2>3. ASSUME NEW m, Push(m) PROVE \E n \in InPackets : Push(n)
    <3>1. pushed' \in Seq(InPackets) /\ pushed \in Seq(InPackets)
      BY <2>1, TypeInvStep DEF ClientInv, TypeInv, IoTypeOK
    <3>2. pushed' = Append(pushed, m)
      BY <2>3 DEF Push
    <3>3. Len(pushed) + 1 \in 1..Len(pushed')
      BY <3>1, <3>2
    <3>4. pushed'[Len(pushed) + 1] = m
      BY <3>1, <3>2
    <3>5. m \in InPackets
      BY <3>1, <3>3, <3>4, ElementOfSeq
    <3> QED
      BY <2>3, <3>5
  <2> QED
    BY <2>2, <2>3
<1>2. CASE Close \/ Rest \/ UNCHANGED vars
  BY <1>2 DEF Close, Rest, vars
<1> QED
  BY <1>1, <1>2, CallUses DEF Next

\* Where a thread waits for data or reads it.
Reading == {"lock_wait", "wait", "ready", "lock_recv", "recv"}

\* The session's socket is closed only because the server closed the connection;
\* what the availability test has found is still there when it is read.
Sound ==
    /\ ~sock => peerClosed
    /\ \A t \in Threads :
          /\ io[t] \in Reading => t \in Receivers
          /\ io[t] \in {"broken", "recv_failed"} => peerClosed
          /\ io[t] \in {"ready", "lock_recv", "recv"} =>
                (sock /\ inbox # <<>>) \/ peerClosed

LEMMA SoundInit == IoInit => Sound
  BY DEF IoInit, Sound, Reading

\* A step of t that leaves the connection alone.
LEMMA SoundMove ==
  ASSUME TypeInv, Sound, NEW t \in Threads, NEW to, io' = [io EXCEPT ![t] = to],
         UNCHANGED <<sock, inbox, peerClosed>>,
         to \notin Reading \union {"broken", "recv_failed"}
  PROVE  Sound'
  BY DEF TypeInv, IoTypeOK, Sound, Reading

LEMMA SoundUse ==
  ASSUME OneReceiver, TypeInv, RecvInv, Sound, NEW t \in Threads, Used(t)
  PROVE  Sound'
<1>a. io = [u \in Threads |-> io[u]]
  BY DEF TypeInv, IoTypeOK
<1>b. sock \in BOOLEAN /\ peerClosed \in BOOLEAN
  BY DEF TypeInv, IoTypeOK
<1>1. CASE \E p \in OutPackets : BeginSend(t, p)
  BY <1>1, SoundMove DEF BeginSend, Reading
<1>2. CASE BeginWait(t)
  BY <1>2, <1>a DEF BeginWait, exceptIo, Sound, Reading
<1>3. CASE BeginRecv(t) /\ io[t] = "ready"
  BY <1>3, <1>a DEF BeginRecv, exceptIo, Sound, Reading
<1>4. CASE SerializeBody(t) \/ LockSend(t) \/ NetioSend(t) \/ FinishSend(t)
  <2>1. \E to \in {"lock_send", "send", "check", "sent", "send_failed"} :
           io' = [io EXCEPT ![t] = to]
    BY <1>4 DEF SerializeBody, LockSend, Lock, NetioSend, FinishSend, Goto
  <2>2. UNCHANGED <<sock, inbox, peerClosed>>
    BY <1>4 DEF SerializeBody, LockSend, Lock, NetioSend, FinishSend
  <2> QED
    BY <2>1, <2>2, SoundMove DEF Reading
<1>5. CASE LockWait(t) \/ LockRecv(t)
  BY <1>5, <1>a DEF LockWait, LockRecv, Lock, Goto, Sound, Reading
<1>6. CASE FinishWait(t)
  <2>1. UNCHANGED <<sock, inbox, peerClosed>>
    BY <1>6 DEF FinishWait
  <2>2. CASE sock /\ inbox # <<>> /\ io' = [io EXCEPT ![t] = "ready"]
    BY <1>6, <2>1, <2>2, <1>a DEF FinishWait, Sound, Reading
  <2>3. ASSUME NEW r \in {"nothing", "interrupted"}, io' = [io EXCEPT ![t] = r]
        PROVE  Sound'
    BY <2>1, <2>3, SoundMove DEF Reading
  <2>4. CASE /\ ~sock \/ (inbox = <<>> /\ peerClosed)
             /\ io' = [io EXCEPT ![t] = "broken"]
    BY <2>1, <2>4, <1>a DEF Sound, Reading
  <2> QED
    BY <1>6, <2>2, <2>3, <2>4 DEF FinishWait
<1>7. CASE NetioRecv(t)
  <2>1. io[t] = "recv" /\ t \in Receivers /\ peerClosed' = peerClosed
    BY <1>7 DEF NetioRecv, Sound, Reading
  <2>2. \A u \in Threads : u # t => io[u] \notin Reading
    BY <2>1 DEF Sound, OneReceiver
  <2>3. CASE sock' = sock /\ io' = [io EXCEPT ![t] = "decode_head"]
    BY <2>1, <2>2, <2>3, <1>a DEF Sound, Reading
  <2>4. CASE /\ ~sock \/ inbox = <<>> \/ peerClosed
             /\ sock' = (sock /\ ~peerClosed)
             /\ io' = [io EXCEPT ![t] = "recv_failed"]
    <3>1. peerClosed
      BY <2>1, <2>4 DEF Sound
    <3> QED
      BY <2>1, <2>2, <2>4, <3>1, <1>a DEF Sound, Reading
  <2> QED
    BY <1>7, <2>3, <2>4 DEF NetioRecv
<1>8. CASE DecodeHead(t)
  BY <1>8, SoundMove DEF DecodeHead, Goto, Reading
<1>9. CASE DecodeBody(t)
  <2>1. got[t].head = recvBuff.body
    BY <1>9 DEF DecodeBody, RecvInv, RecvBuffered, Decoding
  <2>2. io' = [io EXCEPT ![t] = "received"]
    BY <1>9, <2>1 DEF DecodeBody
  <2> QED
    BY <1>9, <2>2, SoundMove DEF DecodeBody, Reading
<1> QED
  BY <1>1, <1>2, <1>3, <1>4, <1>5, <1>6, <1>7, <1>8, <1>9 DEF Used, IoStep

LEMMA SoundStep ==
  ASSUME OneReceiver, ClientInv, RecvInv, Sound, [Next]_vars
  PROVE  Sound'
<1>1. ASSUME NEW m \in InPackets, Push(m) PROVE Sound'
  <2>1. inbox' # <<>>
    BY <1>1 DEF Push, ClientInv, TypeInv, IoTypeOK
  <2> QED
    BY <1>1, <2>1 DEF Push, Sound
<1>2. CASE PeerClose \/ UNCHANGED ioVars
  BY <1>2 DEF PeerClose, ioVars, Sound
<1>3. ASSUME NEW t \in Threads, Used(t) PROVE Sound'
  BY <1>3, OneReceiver, SoundUse DEF ClientInv
<1> QED
  BY <1>1, <1>2, <1>3, ClientUses

LEMMA PollStep ==
  ASSUME ClientTypes, Sound, PollFailsForCause, [Next]_vars
  PROVE  PollFailsForCause'
<1>1. ASSUME peerClosed PROVE peerClosed'
  <2>1. [IoNext]_ioVars
    BY ClientStep DEF ClientTypes
  <2> QED
    BY <1>1, <2>1 DEF IoNext, IoStep, BeginSend, BeginWait, BeginRecv, exceptIo,
       SerializeBody, LockSend, LockWait, LockRecv, Lock, NetioSend, FinishSend,
       FinishWait, NetioRecv, DecodeHead, DecodeBody, Push, PeerClose, ioVars
<1>2. ASSUME stopped' = stopped PROVE PollFailsForCause'
  BY <1>1, <1>2 DEF PollFailsForCause
<1>3. ASSUME NEW t \in Threads, NEW rc, Return(t, rc),
             Cause(t) = "poll" /\ rc < 0 => peerClosed
      PROVE  PollFailsForCause'
  BY <1>1, <1>3 DEF Return, PollFailsForCause, ClientTypes, Outcomes
<1>4. ASSUME NEW t \in Threads, InCall(t) PROVE PollFailsForCause'
  <2>1. CASE Sent(t)
    BY <1>2, <1>3, <2>1 DEF Sent, Cause, ClientTypes, Calls
  <2>2. CASE Waited(t)
    BY <1>2, <1>3, <2>2 DEF Waited, Cause, Sound, NothingIsNormal
  <2>3. CASE ReceiveFailed(t)
    BY <1>3, <2>3 DEF ReceiveFailed, Sound
  <2>4. CASE Answered(t)
    BY <1>2, <1>3, <2>4 DEF Answered, Cause, HasMessage
  <2>5. CASE IoStep(t) /\ UNCHANGED <<clientVars, serverVars>>
    BY <1>2, <2>5 DEF clientVars
  <2>6. CASE Dropped(t) \/ DispatchControl(t) \/ Responded(t)
             \/ DispatchRetrieve(t) \/ DispatchOther(t) \/ Reported(t)
    BY <1>2, <2>6 DEF Dropped, DispatchControl, Responded, DispatchRetrieve,
       DispatchOther, Reported
  <2> QED
    BY <1>4, <2>1, <2>2, <2>3, <2>4, <2>5, <2>6 DEF InCall
<1>5. ASSUME NEW t \in Threads, Notify(t) \/ Poll(t) \/ PollKeepalive(t)
      PROVE  PollFailsForCause'
  BY <1>2, <1>5 DEF Notify, Poll, PollKeepalive
<1>6. CASE Serve \/ Ask \/ Close \/ Rest \/ UNCHANGED vars
  BY <1>2, <1>6 DEF Serve, Ask, Close, Rest, vars, clientVars
<1> QED
  BY <1>4, <1>5, <1>6 DEF Next

\* The client's own invariants, together with those of the layer below it.
LEMMA ReceiverInvariance ==
  ASSUME OneReceiver
  PROVE  Spec => [](ClientTypes /\ RecvInv /\ Sound /\ PollFailsForCause)
<1> DEFINE I == ClientTypes /\ RecvInv /\ Sound /\ PollFailsForCause
<1>1. Init => I
  <2>1. Init => PollFailsForCause
    BY DEF Init, PollFailsForCause
  <2>2. Init => IoInit
    BY DEF Init
  <2> QED
    BY <2>1, <2>2, TypesInit, RecvInit, SoundInit
<1>2. I /\ [Next]_vars => I'
  <2> SUFFICES ASSUME I, [Next]_vars PROVE I'
    OBVIOUS
  <2>1. ClientInv /\ TypeInv
    BY DEF ClientTypes, ClientInv
  <2>2. RecvInv'
    BY <2>1, OneReceiver, ClientStep, RecvStep
  <2>3. Sound'
    BY <2>1, OneReceiver, SoundStep
  <2> QED
    BY <2>2, <2>3, TypesNext, PollStep
<1> QED
  BY <1>1, <1>2, PTL DEF Spec

\* With one thread that receives, im_poll() fails without an interrupted wait of
\* its own, and a sample's loop ends, only when the connection is gone: a timeout
\* is no failure, and no message is refused for what other threads of the session
\* do meanwhile (client.c:466-505, fd_util.c:84-104).
THEOREM ImClientPollFailsForCause ==
  ASSUME OneReceiver
  PROVE  Spec => []PollFailsForCause
  BY ReceiverInvariance, PTL

-----------------------------------------------------------------------------
(* The callbacks                                                             *)

\* What is written for the socket, and what it took.
Requests ==
    /\ sendBuff.head # Null => FromClient(sendBuff.head)
    /\ \A j \in 1..Len(wire) : FromClient(wire[j].head)

LEMMA RequestsUse ==
  ASSUME TypeInv, Requests, NEW t \in Threads, Used(t)
  PROVE  Requests'
<1>a. sendBuff \in Outbound(OutPackets)
      /\ wire \in Seq([head : OutPackets, body : OutPackets])
  BY DEF TypeInv, IoTypeOK
<1>1. CASE \E p \in OutPackets : BeginSend(t, p) /\ FromClient(p)
  <2>1. PICK p \in OutPackets : /\ FromClient(p)
                                /\ sendBuff' = [sendBuff EXCEPT !.head = p]
                                /\ wire' = wire
    BY <1>1 DEF BeginSend
  <2>2. sendBuff'.head = p
    BY <2>1, <1>a DEF Outbound
  <2> QED
    BY <2>1, <2>2 DEF Requests
<1>2. CASE SerializeBody(t)
  <2>1. sendBuff'.head = sendBuff.head /\ wire' = wire
    BY <1>2, <1>a DEF SerializeBody, Outbound
  <2> QED
    BY <2>1 DEF Requests
<1>3. CASE NetioSend(t)
  <2>1. sendBuff' = sendBuff /\ (wire' = wire \/ wire' = Append(wire, sendBuff))
    BY <1>3 DEF NetioSend
  <2>2. sendBuff.head \in OutPackets
    BY <1>3 DEF NetioSend, Goto, TypeInv, Written, Sending
  <2>3. FromClient(sendBuff.head)
    BY <2>2, PacketAssumption DEF Requests
  <2>4. CASE wire' = Append(wire, sendBuff)
    <3>1. \A j \in 1..Len(wire') :
             wire'[j] = IF j = Len(wire) + 1 THEN sendBuff ELSE wire[j]
      BY <2>4, <1>a
    <3>2. \A j \in 1..Len(wire') : j # Len(wire) + 1 => j \in 1..Len(wire)
      BY <2>4, <1>a
    <3> QED
      BY <2>1, <2>3, <3>1, <3>2 DEF Requests
  <2> QED
    BY <2>1, <2>4 DEF Requests
<1>4. CASE BeginWait(t) \/ BeginRecv(t) \/ LockSend(t) \/ FinishSend(t) \/ LockWait(t)
           \/ FinishWait(t) \/ LockRecv(t) \/ NetioRecv(t) \/ DecodeHead(t)
           \/ DecodeBody(t)
  <2>1. UNCHANGED <<sendBuff, wire>>
    BY <1>4 DEF BeginWait, BeginRecv, LockSend, FinishSend, LockWait, FinishWait,
       LockRecv, Lock, NetioRecv, DecodeHead, DecodeBody, exceptIo
  <2> QED
    BY <2>1 DEF Requests
<1> QED
  BY <1>1, <1>2, <1>3, <1>4 DEF Used, IoStep

LEMMA RequestsStep == ClientInv /\ Requests /\ [Next]_vars => Requests'
<1> SUFFICES ASSUME ClientInv, Requests, [Next]_vars PROVE Requests'
  OBVIOUS
<1>1. ASSUME NEW m \in InPackets, Push(m) PROVE Requests'
  BY <1>1 DEF Push, Requests
<1>2. CASE PeerClose \/ UNCHANGED ioVars
  BY <1>2 DEF PeerClose, ioVars, Requests
<1> QED
  BY <1>1, <1>2, ClientUses, RequestsUse DEF ClientInv

LEMMA MessageFields ==
  ASSUME NEW m \in InPackets
  PROVE  m.id \in Int /\ m.exch \in {"request", "response"} /\ m.type \in Types
<1>1. m.id \in PacketIds /\ m.exch \in {"request", "response"} /\ m.type \in Types
  BY AlphabetAssumption DEF ServerMessages
<1> QED
  BY <1>1, ClientAssumption DEF PacketIds

\* The server's requests carry its own numbers, downwards, or none; its responses
\* carry a number of the client and the type of what they answer.
Responses ==
    \A i \in 1..Len(pushed) :
        /\ pushed[i].exch = "request" => pushed[i].id \in -asked .. 0
        /\ pushed[i].exch = "response" =>
              pushed[i].type \in {"notify", "keepalive"} /\ pushed[i].id >= 1

Descending ==
    \A i, j \in 1..Len(pushed) :
        i < j /\ pushed[i].id < 0 /\ pushed[j].id < 0 => pushed[i].id > pushed[j].id

Numbered == Responses /\ Descending

LEMMA NumberedStep == ClientInv /\ Requests /\ Numbered /\ [Next]_vars => Numbered'
<1> SUFFICES ASSUME ClientInv, Requests, Numbered, [Next]_vars PROVE Numbered'
  OBVIOUS
<1>a. pushed \in Seq(InPackets) /\ asked \in Nat
  BY DEF ClientInv, TypeInv, IoTypeOK, Numbers
<1>b. \A i \in 1..Len(pushed) :
         pushed[i].id \in Int /\ pushed[i].exch \in {"request", "response"}
  <2>1. \A i \in 1..Len(pushed) : pushed[i] \in InPackets
    BY <1>a, ElementOfSeq
  <2> QED
    BY <2>1, MessageFields
<1>1. ASSUME UNCHANGED <<pushed, asked>> PROVE Numbered'
  BY <1>1 DEF Numbered, Responses, Descending
<1>2. ASSUME NEW m, pushed' = Append(pushed, m)
      PROVE  /\ Len(pushed') = Len(pushed) + 1
             /\ pushed'[Len(pushed) + 1] = m
             /\ \A i \in 1..Len(pushed) : pushed'[i] = pushed[i]
             /\ \A i \in 1..Len(pushed') : i # Len(pushed) + 1 => i \in 1..Len(pushed)
  BY <1>2, <1>a
<1>3. CASE Serve
  <2> DEFINE p == wire[served + 1].head
  <2>1. asked' = asked
    BY <1>3 DEF Serve
  <2>2. CASE p.exch = "request" /\ \E ok \in BOOLEAN : Push(Message(p.type, "response", p.id, ok))
    <3>1. p.type \in {"notify", "keepalive"} /\ p.id >= 1
      <4>1. served + 1 \in 1..Len(wire)
        BY <1>3 DEF Serve, ClientInv, Numbers, TypeInv, IoTypeOK
      <4> QED
        BY <2>2, <4>1 DEF Requests, FromClient
    <3> HIDE DEF p
    <3>2. PICK ok \in BOOLEAN : pushed' = Append(pushed, Message(p.type, "response", p.id, ok))
      BY <2>2 DEF Push
    <3> DEFINE m == Message(p.type, "response", p.id, ok)
    <3>3. m.exch = "response" /\ m.type \in {"notify", "keepalive"} /\ m.id >= 1
          /\ m.id = p.id
      BY <3>1 DEF Message
    <3> HIDE DEF m
    <3>4. Responses'
      BY <2>1, <3>2, <3>3, <1>2 DEF Numbered, Responses, m
    <3>5. ~(m.id < 0)
      <4>1. m \in InPackets
        <5>1. pushed' \in Seq(InPackets)
          BY ClientStep, TypeInvStep DEF ClientInv, TypeInv, IoTypeOK
        <5>2. Len(pushed) + 1 \in 1..Len(pushed') /\ pushed'[Len(pushed) + 1] = m
          BY <3>2, <1>2, <1>a DEF m
        <5> QED
          BY <5>1, <5>2, ElementOfSeq
      <4>2. m.id \in Int
        BY <4>1, MessageFields
      <4> QED
        BY <4>2, <3>3
    <3>6. Descending'
      BY <3>2, <3>5, <1>a, <1>2 DEF Numbered, Descending, m
    <3> QED
      BY <3>4, <3>6 DEF Numbered
  <2>3. CASE UNCHANGED ioVars
    BY <2>1, <2>3, <1>1 DEF ioVars
  <2> QED
    BY <1>3, <2>2, <2>3 DEF Serve, Verdicts
<1>4. CASE Ask
  <2>1. PICK ty \in {"control", "retrieve"}, n \in {NoId, -(asked + 1)},
             ok \in BOOLEAN : pushed' = Append(pushed, Message(ty, "request", n, ok))
    BY <1>4 DEF Ask, Verdicts, Push
  <2> DEFINE m == Message(ty, "request", n, ok)
  <2>2. asked' = asked + 1
    BY <1>4 DEF Ask
  <2>3. m.exch = "request" /\ m.id = n /\ n \in {0, -(asked + 1)}
    BY DEF Message, NoId
  <2> HIDE DEF m
  <2>4. /\ Len(pushed') = Len(pushed) + 1
        /\ pushed'[Len(pushed) + 1] = m
        /\ \A i \in 1..Len(pushed) : pushed'[i] = pushed[i]
        /\ \A i \in 1..Len(pushed') : i # Len(pushed) + 1 => i \in 1..Len(pushed)
    BY <2>1, <1>2 DEF m
  <2>5. \A i \in 1..Len(pushed) : pushed[i].id < 0 => pushed[i].id >= -asked
    <3> SUFFICES ASSUME NEW i \in 1..Len(pushed), pushed[i].id < 0
                 PROVE  pushed[i].id >= -asked
      OBVIOUS
    <3>1. pushed[i].exch = "request"
      BY <1>b DEF Numbered, Responses
    <3> QED
      BY <3>1, <1>a, <1>b DEF Numbered, Responses
  <2>6. Responses'
    <3> SUFFICES ASSUME NEW i \in 1..Len(pushed')
                 PROVE  /\ pushed'[i].exch = "request" => pushed'[i].id \in -(asked') .. 0
                        /\ pushed'[i].exch = "response" =>
                              pushed'[i].type \in {"notify", "keepalive"} /\ pushed'[i].id >= 1
      BY DEF Responses
    <3>1. CASE i = Len(pushed) + 1
      BY <3>1, <2>2, <2>3, <2>4, <1>a
    <3>2. CASE i \in 1..Len(pushed)
      BY <3>2, <2>2, <2>4, <1>a DEF Numbered, Responses
    <3> QED
      BY <3>1, <3>2, <2>4
  <2>7. Descending'
    <3> SUFFICES ASSUME NEW i \in 1..Len(pushed'), NEW j \in 1..Len(pushed'), i < j,
                        pushed'[i].id < 0, pushed'[j].id < 0
                 PROVE  pushed'[i].id > pushed'[j].id
      BY DEF Descending
    <3>1. i \in 1..Len(pushed) /\ pushed'[i] = pushed[i]
      BY <2>4, <1>a
    <3>2. CASE j = Len(pushed) + 1
      BY <3>1, <3>2, <2>3, <2>4, <2>5, <1>a, <1>b
    <3>3. CASE j \in 1..Len(pushed)
      BY <3>1, <3>3, <2>4 DEF Numbered, Descending
    <3> QED
      BY <3>2, <3>3, <2>4
  <2> QED
    BY <2>6, <2>7 DEF Numbered
<1>5. ASSUME NEW t \in Threads, Used(t) \/ UNCHANGED ioVars, UNCHANGED serverVars
      PROVE  Numbered'
  <2>1. pushed' = pushed
    BY <1>5 DEF Used, IoStep, BeginSend, BeginWait, BeginRecv, SerializeBody, LockSend,
       LockWait, LockRecv, Lock, NetioSend, FinishSend, FinishWait, NetioRecv,
       DecodeHead, DecodeBody, exceptIo, ioVars
  <2> QED
    BY <1>1, <1>5, <2>1 DEF serverVars
<1>6. ASSUME NEW t \in Threads, Notify(t) \/ Poll(t) \/ PollKeepalive(t) \/ InCall(t)
      PROVE  Numbered'
  <2>1. UNCHANGED serverVars
    BY <1>6 DEF Notify, Poll, PollKeepalive, InCall, clientVars, serverVars, Sent,
       Waited, ReceiveFailed, Answered, Dropped, DispatchControl, Responded,
       DispatchRetrieve, DispatchOther, Reported, Return
  <2> QED
    BY <1>5, <1>6, <2>1, CallUses
<1>7. CASE Close
  BY <1>1, <1>7 DEF Close, PeerClose, serverVars
<1>8. CASE Rest \/ UNCHANGED vars
  BY <1>1, <1>8 DEF Rest, vars, ioVars, serverVars
<1> QED
  BY <1>3, <1>4, <1>6, <1>7, <1>8 DEF Next

\* Only a thread that may receive waits for data or handles a message.
Handlers ==
    \A t \in Threads :
        ctl[t] \in {"waiting", "receiving", "responding", "reporting"} => t \in Receivers

LEMMA HandlersStep == ClientInv /\ Handlers /\ [Next]_vars => Handlers'
<1> SUFFICES ASSUME ClientInv, Handlers, [Next]_vars PROVE Handlers'
  OBVIOUS
<1> USE DEF ClientInv, Shape, Handlers
<1>1. ASSUME NEW t \in Threads, NEW c, ctl' = [ctl EXCEPT ![t] = c],
             c \in {"idle", "sending"} \/ t \in Receivers
      PROVE  Handlers'
  BY <1>1
<1>2. ASSUME NEW t \in Threads, Notify(t) \/ Poll(t) \/ PollKeepalive(t)
      PROVE  Handlers'
  BY <1>1, <1>2 DEF Notify, Poll, PollKeepalive, At, BeginWait
<1>3. ASSUME NEW t \in Threads, InCall(t) PROVE Handlers'
  <2>1. CASE IoStep(t) /\ UNCHANGED <<clientVars, serverVars>>
    BY <2>1 DEF clientVars
  <2>2. CASE Sent(t) \/ ReceiveFailed(t) \/ Answered(t) \/ Dropped(t)
             \/ DispatchOther(t) \/ Reported(t)
    BY <1>1, <2>2 DEF Sent, ReceiveFailed, Answered, Dropped, DispatchOther, Reported,
       Return, WaitAgain, BeginWait
  <2>3. CASE Waited(t)
    BY <1>1, <2>3 DEF Waited, Return, BeginRecv
  <2>4. CASE DispatchControl(t)
    BY <1>1, <2>4 DEF DispatchControl, HasMessage
  <2>5. CASE Responded(t) \/ DispatchRetrieve(t)
    BY <1>1, <2>5 DEF Responded, DispatchRetrieve, HasMessage, WaitAgain, BeginWait
  <2> QED
    BY <1>3, <2>1, <2>2, <2>3, <2>4, <2>5 DEF InCall
<1>4. CASE Serve \/ Ask \/ Close \/ Rest \/ UNCHANGED vars
  BY <1>4 DEF Serve, Ask, Close, Rest, vars, clientVars
<1> QED
  BY <1>2, <1>3, <1>4 DEF Next

\* t has a message in its hands that its handler may still be called with.
InHands(t) == HasMessage(t) \/ ctl[t] = "responding"

\* It is the last one decoded, and no handler has been called with it yet.
Newest ==
    \A t \in Threads :
        /\ InHands(t) => Len(decoded) >= 1 /\ got[t] = decoded[Len(decoded)]
        /\ ctl[t] = "responding" => got[t].head.type = "control"

Called ==
    \A k \in 1..Len(callbacks) :
        \E i \in 1..Len(decoded) :
            /\ callbacks[k] = decoded[i]
            /\ callbacks[k].head.id < 0
            /\ \A t \in Threads : InHands(t) => i < Len(decoded)

CallbackInv == Newest /\ Called /\ CallbacksOnceInOrder

\* A step that decodes nothing and calls nobody, and takes no message in hand.
LEMMA CallbackStutter ==
  ASSUME CallbackInv, UNCHANGED <<decoded, callbacks>>,
         \A t \in Threads : InHands(t)' => InHands(t) /\ got'[t] = got[t],
         \A t \in Threads : ctl'[t] = "responding" =>
             got'[t] = got[t] /\ got[t].head.type = "control"
  PROVE  CallbackInv'
<1>1. Newest'
  BY DEF CallbackInv, Newest
<1>2. Called'
  BY DEF CallbackInv, Called
<1>3. CallbacksOnceInOrder'
  BY DEF CallbackInv, CallbacksOnceInOrder
<1> QED
  BY <1>1, <1>2, <1>3 DEF CallbackInv

\* The call starts anew, or begins another call into the layer.
LEMMA CallbackMove ==
  ASSUME ClientInv, CallbackInv, UNCHANGED callbacks, NEW t \in Threads,
         NEW c \in {"idle", "sending", "waiting", "receiving", "reporting"},
         ctl' = [ctl EXCEPT ![t] = c], c = "receiving" => io'[t] # "received",
         UNCHANGED <<got, decoded>>, \A u \in Threads \ {t} : io'[u] = io[u]
  PROVE  CallbackInv'
<1>1. \A u \in Threads : ctl'[u] = IF u = t THEN c ELSE ctl[u]
  BY DEF ClientInv, Shape
<1>2. \A u \in Threads : InHands(u)' => InHands(u)
  BY <1>1 DEF InHands, HasMessage
<1>3. \A u \in Threads : ctl'[u] = "responding" => got[u].head.type = "control"
  BY <1>1 DEF CallbackInv, Newest
<1> QED
  BY <1>2, <1>3, CallbackStutter

\* A handler is called with the newest message: it is younger than all before.
LEMMA CallbackCall ==
  ASSUME OneReceiver, ClientInv, RecvInv, Numbered, Handlers, CallbackInv,
         callbacks \in Seq([head : ServerMessages, body : ServerMessages]),
         NEW t \in Threads, InHands(t), got[t].head.type \in {"control", "retrieve"},
         got[t].head.id # NoId, Callback(t), ctl' = [ctl EXCEPT ![t] = "reporting"],
         UNCHANGED <<got, decoded>>, \A u \in Threads \ {t} : io'[u] = io[u]
  PROVE  CallbackInv'
<1> DEFINE n == Len(decoded)
           m == pushed[n]
<1>1. \A u \in Threads : ctl'[u] = IF u = t THEN "reporting" ELSE ctl[u]
  BY DEF ClientInv, Shape
<1>2. t \in Receivers
  BY DEF InHands, HasMessage, Handlers
<1>3. \A u \in Threads : ~InHands(u)'
  <2>1. \A u \in Threads : InHands(u) => u = t
    BY <1>2, OneReceiver DEF OneReceiver, InHands, HasMessage, Handlers
  <2> QED
    BY <1>1, <2>1 DEF InHands, HasMessage
<1>4. /\ decoded \in Seq([head : InPackets, body : InPackets])
      /\ pushed \in Seq(InPackets) /\ inbox \in Seq(InPackets)
  BY DEF ClientInv, TypeInv, IoTypeOK
<1>5. n \in 1..Len(decoded) /\ got[t] = decoded[n]
  BY <1>4 DEF CallbackInv, Newest
<1>6. \A i \in 1..Len(decoded) :
         /\ decoded[i].head = pushed[i] /\ decoded[i].body = pushed[i]
         /\ i \in 1..Len(pushed)
  <2>1. Len(decoded) <= Len(pushed)
    BY <1>4 DEF RecvInv, Accounted, Taken
  <2> QED
    BY <2>1, <1>4 DEF RecvInv, Accounted
<1>7. m.id < 0
  <2>1. m \in InPackets /\ n \in 1..Len(pushed)
    BY <1>4, <1>5, <1>6, ElementOfSeq
  <2>2. m.exch \in {"request", "response"} /\ m.id \in Int
    BY <2>1, MessageFields
  <2>3. m.type \in {"control", "retrieve"} /\ m.id # 0
    BY <1>5, <1>6 DEF NoId
  <2>4. m.exch = "request"
    BY <2>1, <2>2, <2>3 DEF Numbered, Responses
  <2> QED
    BY <2>1, <2>2, <2>3, <2>4 DEF Numbered, Responses, ClientInv, Numbers
<1>8. /\ Len(callbacks') = Len(callbacks) + 1
      /\ callbacks'[Len(callbacks) + 1] = decoded[n]
      /\ \A k \in 1..Len(callbacks) : callbacks'[k] = callbacks[k]
      /\ \A k \in 1..Len(callbacks') : k = Len(callbacks) + 1 \/ k \in 1..Len(callbacks)
  BY <1>5 DEF Callback
<1>9. \A k \in 1..Len(callbacks) :
         callbacks[k].head.id < 0 /\ callbacks[k].head.id > m.id
  <2> SUFFICES ASSUME NEW k \in 1..Len(callbacks)
               PROVE  callbacks[k].head.id < 0 /\ callbacks[k].head.id > m.id
    OBVIOUS
  <2>1. PICK i \in 1..Len(decoded) :
           callbacks[k] = decoded[i] /\ callbacks[k].head.id < 0 /\ i < n
    BY DEF CallbackInv, Called
  <2> QED
    BY <2>1, <1>5, <1>6, <1>7 DEF Numbered, Descending
<1>10. Newest'
  BY <1>1, <1>3, ClientAssumption DEF Newest, InHands
<1>11. Called'
  <2> SUFFICES ASSUME NEW k \in 1..Len(callbacks')
               PROVE  \E i \in 1..Len(decoded) :
                         callbacks'[k] = decoded[i] /\ callbacks'[k].head.id < 0
    BY <1>3 DEF Called
  <2>1. CASE k = Len(callbacks) + 1
    BY <2>1, <1>5, <1>6, <1>7, <1>8
  <2>2. CASE k \in 1..Len(callbacks)
    BY <2>2, <1>8 DEF CallbackInv, Called
  <2> QED
    BY <2>1, <2>2, <1>8
<1>12. CallbacksOnceInOrder'
  <2>1. \A k \in 1..Len(callbacks') : callbacks'[k].body = callbacks'[k].head
    BY <1>5, <1>6, <1>8 DEF CallbackInv, CallbacksOnceInOrder
  <2>2. ASSUME NEW j \in 1..Len(callbacks'), NEW k \in 1..Len(callbacks'), j < k
        PROVE  callbacks'[j].head.id > callbacks'[k].head.id
    <3>1. j \in 1..Len(callbacks)
      BY <2>2, <1>8
    <3>2. CASE k = Len(callbacks) + 1
      BY <3>1, <3>2, <1>5, <1>6, <1>8, <1>9
    <3>3. CASE k \in 1..Len(callbacks)
      BY <2>2, <3>1, <3>3, <1>8 DEF CallbackInv, CallbacksOnceInOrder
    <3> QED
      BY <3>2, <3>3, <1>8
  <2> QED
    BY <2>1, <2>2 DEF CallbacksOnceInOrder
<1> QED
  BY <1>10, <1>11, <1>12 DEF CallbackInv

\* A message is decoded.
LEMMA CallbackDecode ==
  ASSUME OneReceiver, ClientInv, RecvInv, Handlers, CallbackInv,
         NEW t \in Threads, DecodeBody(t), UNCHANGED <<ctl, callbacks>>
  PROVE  CallbackInv'
<1>1. decoded \in Seq([head : InPackets, body : InPackets])
      /\ io = [u \in Threads |-> io[u]] /\ got \in [Threads -> Outbound(InPackets)]
  BY DEF ClientInv, TypeInv, IoTypeOK
<1>2. t \in Receivers /\ ctl[t] # "responding" /\ ~InHands(t)
  BY DEF DecodeBody, RecvInv, ReceiversOnly, Decoding, ClientInv, Held, Sending,
     InHands, HasMessage
<1>3. \A u \in Threads : InHands(u)' => u = t
  <2> SUFFICES ASSUME NEW u \in Threads, InHands(u)', u # t PROVE FALSE
    OBVIOUS
  <2>1. io'[u] = io[u]
    BY <1>1 DEF DecodeBody
  <2>2. u \in Receivers
    BY <2>1 DEF InHands, HasMessage, Handlers
  <2> QED
    BY <1>2, <2>2, OneReceiver DEF OneReceiver
<1>4. /\ decoded' = Append(decoded, [head |-> got[t].head, body |-> recvBuff.body])
      /\ got'[t] = [head |-> got[t].head, body |-> recvBuff.body]
  <2>1. got[t].head = recvBuff.body
    BY DEF DecodeBody, RecvInv, RecvBuffered, Decoding
  <2> QED
    BY <2>1, <1>1 DEF DecodeBody, Outbound
<1>5. /\ Len(decoded') = Len(decoded) + 1 /\ Len(decoded) \in Nat
      /\ decoded'[Len(decoded) + 1] = got'[t]
      /\ \A i \in 1..Len(decoded) : decoded'[i] = decoded[i]
  BY <1>1, <1>4
<1>6. Newest'
  <2>1. \A u \in Threads : ctl'[u] = "responding" => InHands(u)'
    BY DEF InHands
  <2> QED
    BY <1>2, <1>3, <1>5, <2>1 DEF Newest
<1>7. Called'
  <2> SUFFICES ASSUME NEW k \in 1..Len(callbacks)
               PROVE  \E i \in 1..Len(decoded') :
                         /\ callbacks[k] = decoded'[i]
                         /\ callbacks[k].head.id < 0
                         /\ i < Len(decoded')
    BY DEF Called
  <2>1. PICK i \in 1..Len(decoded) :
           callbacks[k] = decoded[i] /\ callbacks[k].head.id < 0
    BY DEF CallbackInv, Called
  <2> QED
    BY <2>1, <1>5
<1>8. CallbacksOnceInOrder'
  BY DEF CallbackInv, CallbacksOnceInOrder
<1> QED
  BY <1>6, <1>7, <1>8 DEF CallbackInv

LEMMA CallbackStep ==
  ASSUME OneReceiver, ClientTypes, RecvInv, Numbered, Handlers, CallbackInv, [Next]_vars
  PROVE  CallbackInv'
<1>a. ClientInv /\ TypeInv
      /\ callbacks \in Seq([head : ServerMessages, body : ServerMessages])
  BY DEF ClientTypes, ClientInv, Outcomes
<1>1. ASSUME NEW t \in Threads,
             (\E p : BeginSend(t, p)) \/ BeginWait(t) \/ BeginRecv(t)
      PROVE  /\ UNCHANGED <<got, decoded>> /\ io'[t] # "received"
             /\ \A u \in Threads \ {t} : io'[u] = io[u]
  BY <1>1, <1>a DEF BeginSend, BeginWait, BeginRecv, exceptIo, TypeInv, IoTypeOK
<1>2. ASSUME NEW t \in Threads, NEW c \in {"idle", "sending", "waiting", "receiving", "reporting"},
             ctl' = [ctl EXCEPT ![t] = c], UNCHANGED callbacks,
             (\E p : BeginSend(t, p)) \/ BeginWait(t) \/ BeginRecv(t)
      PROVE  CallbackInv'
  BY <1>1, <1>2, <1>a, CallbackMove
<1>3. ASSUME NEW t \in Threads, NEW rc, Return(t, rc) PROVE CallbackInv'
  BY <1>3, <1>a, CallbackMove DEF Return, ioVars
<1>4. ASSUME NEW t \in Threads, Notify(t) \/ Poll(t) \/ PollKeepalive(t)
      PROVE  CallbackInv'
  BY <1>2, <1>4 DEF Notify, Poll, PollKeepalive, At
<1>5. ASSUME NEW t \in Threads, IoStep(t), UNCHANGED clientVars PROVE CallbackInv'
  <2>1. CASE DecodeBody(t)
    BY <1>5, <2>1, <1>a, OneReceiver, CallbackDecode DEF clientVars
  <2>2. CASE ~DecodeBody(t)
    <3>1. decoded' = decoded /\ io'[t] # "received"
      BY <1>5, <2>2, <1>a DEF IoStep, SerializeBody, LockSend, LockWait, LockRecv, Lock,
         NetioSend, FinishSend, FinishWait, NetioRecv, DecodeHead, Goto, TypeInv, IoTypeOK
    <3>2. /\ Touches(t) /\ io[t] \notin {"sent", "send_failed"}
          /\ io[t] \in Sending => got' = got
      BY <1>5, <1>a, LayerStep
    <3>3. \A u \in Threads : ctl[u] = "responding" => got'[u] = got[u]
      BY <3>2, <1>a DEF ClientInv, Held, Touches
    <3>4. \A u \in Threads : InHands(u)' => InHands(u) /\ got'[u] = got[u]
      BY <1>5, <3>1, <3>2, <3>3 DEF InHands, HasMessage, Touches, clientVars
    <3>5. UNCHANGED <<ctl, callbacks>>
      BY <1>5 DEF clientVars
    <3>6. \A u \in Threads : ctl'[u] = "responding" =>
             got'[u] = got[u] /\ got[u].head.type = "control"
      BY <3>3, <3>5 DEF CallbackInv, Newest
    <3> QED
      BY <3>1, <3>4, <3>5, <3>6, CallbackStutter
  <2> QED
    BY <2>1, <2>2
<1>6. ASSUME NEW t \in Threads, DispatchControl(t) PROVE CallbackInv'
  <2>1. /\ HasMessage(t) /\ got[t].head.type = "control"
        /\ ctl' = [ctl EXCEPT ![t] = "responding"] /\ UNCHANGED callbacks
        /\ \E p : BeginSend(t, p)
    BY <1>6 DEF DispatchControl
  <2>2. \A u \in Threads : ctl'[u] = IF u = t THEN "responding" ELSE ctl[u]
    BY <2>1, <1>a DEF ClientInv, Shape
  <2>3. UNCHANGED <<got, decoded>> /\ \A u \in Threads \ {t} : io'[u] = io[u]
    BY <1>1, <2>1
  <2>4. \A u \in Threads : InHands(u)' => InHands(u)
    BY <2>1, <2>2, <2>3 DEF InHands, HasMessage
  <2>5. \A u \in Threads : ctl'[u] = "responding" => got[u].head.type = "control"
    BY <2>1, <2>2 DEF CallbackInv, Newest
  <2> QED
    BY <2>1, <2>3, <2>4, <2>5, CallbackStutter
<1>7. ASSUME NEW t \in Threads, Responded(t) \/ DispatchRetrieve(t) PROVE CallbackInv'
  <2>1. CASE WaitAgain(t) /\ UNCHANGED callbacks
    BY <1>2, <2>1 DEF WaitAgain
  <2>2. CASE ~(WaitAgain(t) /\ UNCHANGED callbacks)
    <3>1. /\ InHands(t) /\ Callback(t) /\ ctl' = [ctl EXCEPT ![t] = "reporting"]
          /\ got[t].head.id # NoId
          /\ \E p : BeginSend(t, p)
      BY <1>7, <2>2 DEF Responded, DispatchRetrieve, Handled, InHands
    <3>2. got[t].head.type \in {"control", "retrieve"}
      BY <1>7 DEF Responded, DispatchRetrieve, CallbackInv, Newest
    <3> QED
      BY <3>1, <3>2, <1>1, <1>a, OneReceiver, CallbackCall
  <2> QED
    BY <2>1, <2>2
<1>8. ASSUME NEW t \in Threads, InCall(t) PROVE CallbackInv'
  <2>1. CASE Sent(t) \/ ReceiveFailed(t) \/ Answered(t) \/ Dropped(t)
             \/ DispatchOther(t) \/ Reported(t)
    BY <1>2, <1>3, <2>1 DEF Sent, ReceiveFailed, Answered, Dropped, DispatchOther,
       Reported, WaitAgain
  <2>2. CASE Waited(t)
    BY <1>2, <1>3, <2>2 DEF Waited
  <2> QED
    BY <1>5, <1>6, <1>7, <1>8, <2>1, <2>2 DEF InCall
<1>9. CASE Serve \/ Ask \/ Close \/ Rest \/ UNCHANGED vars
  <2>1. UNCHANGED <<ctl, callbacks, io, got, decoded>>
    BY <1>9 DEF Serve, Ask, Close, Rest, Push, PeerClose, vars, clientVars, ioVars
  <2>2. \A u \in Threads : InHands(u)' => InHands(u)
    BY <2>1 DEF InHands, HasMessage
  <2> QED
    BY <2>1, <2>2, CallbackStutter DEF CallbackInv, Newest
<1> QED
  BY <1>4, <1>8, <1>9 DEF Next

LEMMA CallbackInit == Init => Requests /\ Numbered /\ Handlers /\ CallbackInv
<1> SUFFICES ASSUME Init PROVE Requests /\ Numbered /\ Handlers /\ CallbackInv
  OBVIOUS
<1>1. sendBuff.head = Null /\ wire = <<>> /\ pushed = <<>> /\ callbacks = <<>>
  BY DEF Init, IoInit, Empty
<1>2. \A t \in Threads : ctl[t] = "idle"
  BY DEF Init
<1>3. Requests /\ Numbered
  BY <1>1 DEF Requests, Numbered, Responses, Descending
<1>4. Handlers /\ Newest
  BY <1>2 DEF Handlers, Newest, InHands, HasMessage
<1>5. Called /\ CallbacksOnceInOrder
  BY <1>1 DEF Called, CallbacksOnceInOrder
<1> QED
  BY <1>3, <1>4, <1>5 DEF CallbackInv

LEMMA CallbackInvariance ==
  ASSUME OneReceiver
  PROVE  Spec => [](/\ ClientTypes /\ RecvInv /\ Requests /\ Numbered
                    /\ Handlers /\ CallbackInv)
<1> DEFINE I == ClientTypes /\ RecvInv /\ Requests /\ Numbered /\ Handlers /\ CallbackInv
<1>1. Init => I
  BY TypesInit, RecvInit, CallbackInit DEF Init
<1>2. I /\ [Next]_vars => I'
  <2> SUFFICES ASSUME I, [Next]_vars PROVE I'
    OBVIOUS
  <2>1. ClientInv /\ TypeInv
    BY DEF ClientTypes, ClientInv
  <2>2. RecvInv'
    BY <2>1, OneReceiver, ClientStep, RecvStep
  <2>3. Requests' /\ Numbered' /\ Handlers'
    BY <2>1, RequestsStep, NumberedStep, HandlersStep
  <2>4. CallbackInv'
    BY OneReceiver, CallbackStep
  <2> QED
    BY <2>2, <2>3, <2>4, TypesNext
<1> QED
  BY <1>1, <1>2, PTL DEF Spec

\* With one thread that receives, whatever else the threads do, the application's
\* handlers run at most once per request of the server, in the order of the
\* requests and each with the body of its own: no matter whether im_poll() or a
\* transaction reads the request (client.c:585-593, client.c:831-890).
THEOREM ImClientCallbacksOnceInOrder ==
  ASSUME OneReceiver
  PROVE  Spec => []CallbacksOnceInOrder
<1>1. CallbackInv => CallbacksOnceInOrder
  BY DEF CallbackInv
<1> QED
  BY <1>1, CallbackInvariance, PTL

-----------------------------------------------------------------------------
(* No false success                                                          *)

\* The head of packet p is in the send buffer or was accepted by the socket.
InHeads(p) == sendBuff.head = p \/ \E j \in 1..Len(wire) : wire[j].head = p

\* What the socket took, and what the server sent, is never taken back.
LEMMA HistoryGrows ==
  ASSUME ClientInv, [Next]_vars
  PROVE  /\ \A j \in 1..Len(wire) : j \in 1..Len(wire') /\ wire'[j] = wire[j]
         /\ \A i \in 1..Len(pushed) : i \in 1..Len(pushed') /\ pushed'[i] = pushed[i]
<1>a. /\ wire \in Seq([head : OutPackets, body : OutPackets])
      /\ pushed \in Seq(InPackets) /\ TypeInv
  BY DEF ClientInv, TypeInv, IoTypeOK
<1>1. [IoNext]_ioVars
  BY ClientStep
<1>2. wire' = wire \/ wire' = Append(wire, sendBuff)
  BY <1>1, <1>a, WireGrows
<1>3. pushed' = pushed \/ \E m : pushed' = Append(pushed, m)
  <2>1. ASSUME NEW t \in Threads, Used(t) PROVE pushed' = pushed
    BY <2>1 DEF Used, IoStep, BeginSend, BeginWait, BeginRecv, SerializeBody, LockSend,
       LockWait, LockRecv, Lock, NetioSend, FinishSend, FinishWait, NetioRecv,
       DecodeHead, DecodeBody, exceptIo
  <2> QED
    BY <2>1, ClientUses DEF Push, PeerClose, ioVars
<1>4. \A j \in 1..Len(wire) : j \in 1..Len(wire') /\ wire'[j] = wire[j]
  <2>1. CASE wire' = Append(wire, sendBuff)
    BY <2>1, <1>a
  <2> QED
    BY <1>2, <2>1
<1>5. \A i \in 1..Len(pushed) : i \in 1..Len(pushed') /\ pushed'[i] = pushed[i]
  <2>1. ASSUME NEW m, pushed' = Append(pushed, m)
        PROVE  \A i \in 1..Len(pushed) : i \in 1..Len(pushed') /\ pushed'[i] = pushed[i]
    BY <2>1, <1>a
  <2> QED
    BY <1>3, <2>1
<1> QED
  BY <1>4, <1>5

\* A new head is one that a call has just put into the buffer.
LEMMA HeadsFromCalls ==
  ASSUME TypeInv, NEW p \in OutPackets, InHeads(p)',
         NEW t \in Threads,
         (\E q : BeginSend(t, q)) \/ BeginWait(t) \/ BeginRecv(t) \/ IoStep(t)
  PROVE  InHeads(p) \/ BeginSend(t, p)
<1>a. sendBuff \in Outbound(OutPackets)
      /\ wire \in Seq([head : OutPackets, body : OutPackets])
  BY DEF TypeInv, IoTypeOK
<1>1. ASSUME NEW q, BeginSend(t, q) PROVE InHeads(p) \/ BeginSend(t, p)
  <2>1. sendBuff'.head = q /\ wire' = wire
    BY <1>1, <1>a DEF BeginSend, Outbound
  <2> QED
    BY <1>1, <2>1 DEF InHeads
<1>2. CASE SerializeBody(t)
  <2>1. sendBuff'.head = sendBuff.head /\ wire' = wire
    BY <1>2, <1>a DEF SerializeBody, Outbound
  <2> QED
    BY <2>1 DEF InHeads
<1>3. CASE NetioSend(t)
  <2>1. sendBuff' = sendBuff /\ (wire' = wire \/ wire' = Append(wire, sendBuff))
    BY <1>3 DEF NetioSend
  <2>2. CASE wire' = Append(wire, sendBuff)
    <3>1. \A j \in 1..Len(wire') :
             wire'[j] = IF j = Len(wire) + 1 THEN sendBuff ELSE wire[j]
      BY <2>2, <1>a
    <3>2. \A j \in 1..Len(wire') : j # Len(wire) + 1 => j \in 1..Len(wire)
      BY <2>2, <1>a
    <3> QED
      BY <2>1, <3>1, <3>2 DEF InHeads
  <2> QED
    BY <2>1, <2>2 DEF InHeads
<1>4. CASE BeginWait(t) \/ BeginRecv(t) \/ LockSend(t) \/ FinishSend(t) \/ LockWait(t)
           \/ FinishWait(t) \/ LockRecv(t) \/ NetioRecv(t) \/ DecodeHead(t)
           \/ DecodeBody(t)
  <2>1. UNCHANGED <<sendBuff, wire>>
    BY <1>4 DEF BeginWait, BeginRecv, LockSend, FinishSend, LockWait, FinishWait,
       LockRecv, Lock, NetioRecv, DecodeHead, DecodeBody, exceptIo
  <2> QED
    BY <2>1 DEF InHeads
<1> QED
  BY <1>1, <1>2, <1>3, <1>4 DEF IoStep

\* Two calls into the layer at once are one call.
LEMMA OneBeginSend ==
  ASSUME TypeInv, NEW t, NEW p, NEW q, BeginSend(t, p), BeginSend(t, q)
  PROVE  p = q
<1>1. sendBuff'.head = p /\ sendBuff'.head = q
  BY DEF BeginSend, TypeInv, IoTypeOK, Outbound
<1> QED
  BY <1>1

Asking(t) == op[t] \in {"notify", "keepalive"}

\* The number of a request is used for no other: the request a thread waits for
\* is the only one on its way with its number.
FreshHeads ==
    \A p \in OutPackets : InHeads(p) /\ p.exch = "request" => p.id < nextId

FreshRequest(t) ==
    /\ req[t].exch = "request" /\ req[t].type = op[t] /\ req[t].id \in 1..nextId - 1
    /\ \A p \in OutPackets :
          InHeads(p) /\ p.exch = "request" /\ p.id = req[t].id => p = req[t]

Fresh == FreshHeads /\ \A t \in Threads : Asking(t) => FreshRequest(t)

\* A step that starts no request.
LEMMA FreshOther ==
  ASSUME Fresh, nextId \in Nat, nextId' \in {nextId, nextId + 1},
         \A p \in OutPackets : InHeads(p)' /\ p.exch = "request" => InHeads(p),
         \A t \in Threads : Asking(t)' => op'[t] = op[t] /\ req'[t] = req[t]
  PROVE  Fresh'
<1>1. \A p \in OutPackets : p.id \in Int
  <2>1. \A p \in OutPackets : p.id \in PacketIds
    BY AlphabetAssumption DEF ClientPackets
  <2> QED
    BY <2>1, ClientAssumption DEF PacketIds
<1>2. FreshHeads'
  BY <1>1 DEF Fresh, FreshHeads
<1>3. ASSUME NEW t \in Threads, Asking(t)' PROVE FreshRequest(t)'
  <2>1. FreshRequest(t) /\ op'[t] = op[t] /\ req'[t] = req[t]
    BY <1>3 DEF Fresh, Asking
  <2>2. req[t].id \in 1..nextId' - 1
    BY <2>1 DEF FreshRequest
  <2> QED
    BY <2>1, <2>2 DEF FreshRequest
<1> QED
  BY <1>2, <1>3 DEF Fresh

\* A notification or a keepalive starts.
LEMMA FreshCall ==
  ASSUME ClientTypes, Fresh, NEW t \in Threads, NEW ty \in {"notify", "keepalive"},
         nextId <= MaxId, op' = [op EXCEPT ![t] = ty],
         req' = [req EXCEPT ![t] = Packet(ty, "request", nextId)],
         BeginSend(t, Packet(ty, "request", nextId)), nextId' = nextId + 1
  PROVE  Fresh'
<1> DEFINE r == Packet(ty, "request", nextId)
<1>a. TypeInv /\ nextId \in Nat /\ nextId >= 1
      /\ op \in [Threads -> {"none", "notify", "keepalive", "poll"}]
      /\ req \in [Threads -> ClientPackets \union {Null}]
  BY DEF ClientTypes, ClientInv, Numbers, Calls
<1>1. \A p \in OutPackets : p.id \in Int
  <2>1. \A p \in OutPackets : p.id \in PacketIds
    BY AlphabetAssumption DEF ClientPackets
  <2> QED
    BY <2>1, ClientAssumption DEF PacketIds
<1>2. r.exch = "request" /\ r.type = ty /\ r.id = nextId
  BY DEF Packet
<1>3. ASSUME NEW p \in OutPackets, InHeads(p)' PROVE InHeads(p) \/ p = r
  BY <1>3, <1>a, HeadsFromCalls, OneBeginSend
<1> HIDE DEF r
<1>4. FreshHeads'
  BY <1>1, <1>2, <1>3, <1>a DEF Fresh, FreshHeads
<1>5. ASSUME NEW u \in Threads, Asking(u)' PROVE FreshRequest(u)'
  <2>1. CASE u = t
    <3>1. req'[u] = r /\ op'[u] = ty
      BY <2>1, <1>a DEF r
    <3>2. \A p \in OutPackets : InHeads(p) /\ p.exch = "request" => p.id # nextId
      BY <1>1, <1>a DEF Fresh, FreshHeads
    <3> QED
      BY <3>1, <3>2, <1>2, <1>3, <1>a DEF FreshRequest
  <2>2. CASE u # t
    <3>1. req'[u] = req[u] /\ op'[u] = op[u] /\ FreshRequest(u)
      BY <2>2, <1>5, <1>a DEF Fresh, Asking
    <3>2. req[u].id \in 1..nextId' - 1 /\ req[u].id # nextId
      BY <3>1, <1>a DEF FreshRequest
    <3> QED
      BY <3>1, <3>2, <1>2, <1>3 DEF FreshRequest
  <2> QED
    BY <2>1, <2>2
<1> QED
  BY <1>4, <1>5 DEF Fresh

LEMMA FreshStep == ClientTypes /\ Fresh /\ [Next]_vars => Fresh'
<1> SUFFICES ASSUME ClientTypes, Fresh, [Next]_vars PROVE Fresh'
  OBVIOUS
<1>a. ClientInv /\ TypeInv /\ nextId \in Nat
      /\ op \in [Threads -> {"none", "notify", "keepalive", "poll"}]
      /\ req \in [Threads -> ClientPackets \union {Null}]
  BY DEF ClientTypes, ClientInv, Numbers, Calls
<1>1. ASSUME NEW t \in Threads, Notify(t) PROVE Fresh'
  BY <1>1, FreshCall DEF Notify
<1>2. ASSUME NEW t \in Threads, PollKeepalive(t) PROVE Fresh'
  BY <1>2, FreshCall DEF PollKeepalive
<1>3. ASSUME NEW t \in Threads, BeginWait(t) \/ BeginRecv(t) \/ IoStep(t)
                                \/ (\E q : BeginSend(t, q) /\ q.exch # "request")
      PROVE  \A p \in OutPackets : InHeads(p)' /\ p.exch = "request" => InHeads(p)
  <2> SUFFICES ASSUME NEW p \in OutPackets, InHeads(p)', p.exch = "request"
               PROVE  InHeads(p)
    OBVIOUS
  <2>1. InHeads(p) \/ BeginSend(t, p)
    BY <1>3, <1>a, HeadsFromCalls
  <2>2. CASE \E q : BeginSend(t, q) /\ q.exch # "request"
    BY <2>1, <2>2, <1>a, OneBeginSend
  <2>3. CASE BeginWait(t) \/ BeginRecv(t) \/ IoStep(t)
    <3>1. ~BeginSend(t, p)
      <4>1. BeginSend(t, p) => io[t] \in Results /\ io'[t] = "body"
        BY <1>a DEF BeginSend, TypeInv, IoTypeOK
      <4>2. BeginWait(t) \/ BeginRecv(t) => io'[t] # "body"
        BY <1>a DEF BeginWait, BeginRecv, TypeInv, IoTypeOK
      <4>3. IoStep(t) => io[t] \notin Results
        BY DEF IoStep, SerializeBody, LockSend, LockWait, LockRecv, Lock, NetioSend,
           FinishSend, FinishWait, NetioRecv, DecodeHead, DecodeBody, Goto, Results
      <4> QED
        BY <2>3, <4>1, <4>2, <4>3
    <3> QED
      BY <2>1, <3>1
  <2> QED
    BY <1>3, <2>2, <2>3
<1>4. ASSUME UNCHANGED <<sendBuff, wire>>
      PROVE  \A p \in OutPackets : InHeads(p)' => InHeads(p)
  BY <1>4 DEF InHeads
<1>5. ASSUME NEW t \in Threads, Poll(t) PROVE Fresh'
  <2>1. \A u \in Threads : Asking(u)' => op'[u] = op[u] /\ req'[u] = req[u]
    BY <1>5, <1>a DEF Poll, Asking
  <2> QED
    BY <1>5, <1>3, <1>a, <2>1, FreshOther DEF Poll
<1>6. ASSUME NEW t \in Threads, NEW rc, Return(t, rc) PROVE Fresh'
  <2>1. \A u \in Threads : Asking(u)' => op'[u] = op[u] /\ req'[u] = req[u]
    BY <1>6, <1>a DEF Return, Asking
  <2> QED
    BY <1>6, <1>4, <1>a, <2>1, FreshOther DEF Return, ioVars
<1>7. ASSUME NEW t \in Threads, WaitAgain(t), UNCHANGED <<op, req, nextId>> PROVE Fresh'
  BY <1>7, <1>3, <1>a, FreshOther DEF WaitAgain, Asking
<1>8. ASSUME NEW t \in Threads, InCall(t) PROVE Fresh'
  <2>1. CASE IoStep(t) /\ UNCHANGED <<clientVars, serverVars>>
    BY <2>1, <1>3, <1>a, FreshOther DEF clientVars, Asking
  <2>2. CASE Sent(t) \/ ReceiveFailed(t) \/ Dropped(t) \/ DispatchOther(t) \/ Reported(t)
    BY <1>6, <1>7, <2>2 DEF Sent, ReceiveFailed, Dropped, DispatchOther, Reported
  <2>3. CASE Waited(t)
    <3>1. CASE BeginRecv(t) /\ UNCHANGED <<op, req, nextId>>
      BY <3>1, <1>3, <1>a, FreshOther DEF Asking
    <3> QED
      BY <1>6, <2>3, <3>1 DEF Waited
  <2>4. CASE Answered(t)
    <3>1. CASE /\ op' = [op EXCEPT ![t] = "poll"] /\ req' = [req EXCEPT ![t] = Null]
               /\ nextId' = nextId /\ BeginWait(t)
      <4>1. \A u \in Threads : Asking(u)' => op'[u] = op[u] /\ req'[u] = req[u]
        BY <3>1, <1>a DEF Asking
      <4> QED
        BY <3>1, <4>1, <1>3, <1>a, FreshOther
    <3> QED
      BY <1>6, <2>4, <3>1 DEF Answered, WaitAgain
  <2>5. CASE DispatchControl(t) \/ Responded(t) \/ DispatchRetrieve(t)
    <3>1. BeginWait(t) \/ \E q : BeginSend(t, q) /\ q.exch # "request"
      BY <2>5 DEF DispatchControl, Responded, DispatchRetrieve, WaitAgain, Packet
    <3>2. UNCHANGED <<op, req>> /\ nextId' \in {nextId, nextId + 1}
      BY <2>5 DEF DispatchControl, Responded, DispatchRetrieve
    <3> QED
      BY <3>1, <3>2, <1>3, <1>a, FreshOther DEF Asking
  <2> QED
    BY <1>8, <2>1, <2>2, <2>3, <2>4, <2>5 DEF InCall
<1>9. CASE Serve \/ Ask \/ Close \/ Rest \/ UNCHANGED vars
  <2>1. UNCHANGED <<sendBuff, wire, op, req, nextId>>
    BY <1>9 DEF Serve, Ask, Close, Rest, Push, PeerClose, vars, clientVars, ioVars
  <2> QED
    BY <2>1, <1>4, <1>a, FreshOther DEF Asking
<1> QED
  BY <1>1, <1>2, <1>5, <1>8, <1>9 DEF Next

\* Every response of the server answers a request it has read.
Answers ==
    \A i \in 1..Len(pushed) :
        pushed[i].exch = "response" =>
           \E j \in 1..Len(wire) :
              /\ wire[j].head.exch = "request"
              /\ wire[j].head.type = pushed[i].type
              /\ wire[j].head.id = pushed[i].id

LEMMA AnswersStep == ClientInv /\ Answers /\ [Next]_vars => Answers'
<1> SUFFICES ASSUME ClientInv, Answers, [Next]_vars PROVE Answers'
  OBVIOUS
<1>a. pushed \in Seq(InPackets)
  BY DEF ClientInv, TypeInv, IoTypeOK
<1>1. \A j \in 1..Len(wire) : j \in 1..Len(wire') /\ wire'[j] = wire[j]
  BY HistoryGrows
<1>2. ASSUME pushed' = pushed PROVE Answers'
  <2> SUFFICES ASSUME NEW i \in 1..Len(pushed), pushed[i].exch = "response"
               PROVE  \E j \in 1..Len(wire') :
                         /\ wire'[j].head.exch = "request"
                         /\ wire'[j].head.type = pushed[i].type
                         /\ wire'[j].head.id = pushed[i].id
    BY <1>2 DEF Answers
  <2> QED
    BY <1>1 DEF Answers
<1>3. ASSUME NEW m, pushed' = Append(pushed, m),
             m.exch = "response" => \E j \in 1..Len(wire) :
                 /\ wire[j].head.exch = "request"
                 /\ wire[j].head.type = m.type
                 /\ wire[j].head.id = m.id
      PROVE  Answers'
  <2> SUFFICES ASSUME NEW i \in 1..Len(pushed'), pushed'[i].exch = "response"
               PROVE  \E j \in 1..Len(wire') :
                         /\ wire'[j].head.exch = "request"
                         /\ wire'[j].head.type = pushed'[i].type
                         /\ wire'[j].head.id = pushed'[i].id
    BY DEF Answers
  <2>1. CASE i = Len(pushed) + 1
    <3>1. pushed'[i] = m
      BY <2>1, <1>3, <1>a
    <3> QED
      BY <3>1, <1>1, <1>3
  <2>2. CASE i # Len(pushed) + 1
    <3>1. i \in 1..Len(pushed) /\ pushed'[i] = pushed[i]
      BY <2>2, <1>3, <1>a
    <3> QED
      BY <3>1, <1>1 DEF Answers
  <2> QED
    BY <2>1, <2>2
<1>4. CASE Serve
  <2> DEFINE p == wire[served + 1].head
  <2>1. CASE p.exch = "request" /\ \E ok \in BOOLEAN : Push(Message(p.type, "response", p.id, ok))
    <3>1. served + 1 \in 1..Len(wire)
      BY <1>4 DEF Serve, ClientInv, Numbers, TypeInv, IoTypeOK
    <3>2. PICK ok \in BOOLEAN : pushed' = Append(pushed, Message(p.type, "response", p.id, ok))
      BY <2>1 DEF Push
    <3>3. /\ Message(p.type, "response", p.id, ok).type = p.type
          /\ Message(p.type, "response", p.id, ok).id = p.id
      BY DEF Message
    <3> QED
      BY <2>1, <3>1, <3>2, <3>3, <1>3
  <2>2. CASE UNCHANGED ioVars
    BY <2>2, <1>2 DEF ioVars
  <2> QED
    BY <1>4, <2>1, <2>2 DEF Serve, Verdicts
<1>5. CASE Ask
  <2>1. PICK ty \in {"control", "retrieve"}, n \in {NoId, -(asked + 1)},
             ok \in BOOLEAN : pushed' = Append(pushed, Message(ty, "request", n, ok))
    BY <1>5 DEF Ask, Verdicts, Push
  <2>2. Message(ty, "request", n, ok).exch # "response"
    BY DEF Message
  <2> QED
    BY <2>1, <2>2, <1>3
<1>6. ASSUME NEW t \in Threads, Used(t) \/ UNCHANGED ioVars PROVE Answers'
  <2>1. pushed' = pushed
    BY <1>6 DEF Used, IoStep, BeginSend, BeginWait, BeginRecv, SerializeBody, LockSend,
       LockWait, LockRecv, Lock, NetioSend, FinishSend, FinishWait, NetioRecv,
       DecodeHead, DecodeBody, exceptIo, ioVars
  <2> QED
    BY <1>2, <2>1
<1>7. CASE Close \/ Rest \/ UNCHANGED vars
  BY <1>2, <1>7 DEF Close, PeerClose, Rest, vars, ioVars
<1> QED
  BY <1>4, <1>5, <1>6, <1>7, CallUses DEF Next

\* What answers a notification with 2000 is the server's acceptance of it.
LEMMA AnswerIsAcceptance ==
  ASSUME ClientTypes, RecvInv, FramesIntact, Numbered, Newest, Fresh, Answers,
         NEW t \in Threads, HasMessage(t), op[t] = "notify", IsAnswer(t), got[t].head.ok
  PROVE  Accepted(req[t])
<1> DEFINE n == Len(decoded)
           m == pushed[n]
<1>a. /\ decoded \in Seq([head : InPackets, body : InPackets])
      /\ pushed \in Seq(InPackets) /\ inbox \in Seq(InPackets)
      /\ wire \in Seq([head : OutPackets, body : OutPackets])
  BY DEF ClientTypes, ClientInv, TypeInv, IoTypeOK
<1>1. n \in 1..Len(decoded) /\ got[t] = decoded[n]
  BY <1>a DEF Newest, InHands
<1>2. got[t].head = m /\ n \in 1..Len(pushed)
  BY <1>1, <1>a DEF RecvInv, Accounted, Taken
<1>3. m \in ServerMessages
  BY <1>2, <1>a, ElementOfSeq, AlphabetAssumption
<1>4. FreshRequest(t) /\ req[t].type = "notify"
  BY DEF Fresh, Asking, FreshRequest
<1>5. m.id = req[t].id /\ m.id >= 1 /\ m.ok = TRUE
  <2>1. req[t].id \in 1..nextId - 1
    BY <1>4 DEF FreshRequest
  <2>2. m.ok \in BOOLEAN /\ m.ok
    BY <1>2, <1>3 DEF ServerMessages
  <2> QED
    BY <1>2, <2>1, <2>2 DEF IsAnswer
<1>6. m.exch = "response"
  <2>1. m.exch \in {"request", "response"}
    BY <1>3 DEF ServerMessages
  <2>2. m.exch = "request" => m.id \in -asked .. 0
    BY <1>2 DEF Numbered, Responses
  <2> QED
    BY <2>1, <2>2, <1>5 DEF ClientTypes, ClientInv, Numbers
<1>7. PICK j \in 1..Len(wire) : /\ wire[j].head.exch = "request"
                                /\ wire[j].head.type = m.type
                                /\ wire[j].head.id = m.id
  BY <1>2, <1>6 DEF Answers
<1>8. wire[j] \in [head : OutPackets, body : OutPackets]
  BY <1>a, ElementOfSeq
<1>9. wire[j].head = req[t]
  BY <1>4, <1>5, <1>7, <1>8 DEF FreshRequest, InHeads
<1>10. wire[j] = [head |-> req[t], body |-> req[t]]
  BY <1>8, <1>9 DEF FramesIntact
<1>11. m = Message("notify", "response", req[t].id, TRUE)
  BY <1>3, <1>4, <1>5, <1>6, <1>7, <1>9 DEF ServerMessages, Message
<1> QED
  BY <1>2, <1>10, <1>11 DEF Accepted

LEMMA AcceptedStays ==
  ASSUME ClientInv, [Next]_vars, NEW p, Accepted(p)
  PROVE  Accepted(p)'
<1>1. /\ \A j \in 1..Len(wire) : j \in 1..Len(wire') /\ wire'[j] = wire[j]
      /\ \A i \in 1..Len(pushed) : i \in 1..Len(pushed') /\ pushed'[i] = pushed[i]
  BY HistoryGrows
<1>2. \E j \in 1..Len(wire') : wire'[j] = [head |-> p, body |-> p]
  BY <1>1 DEF Accepted
<1>3. \E i \in 1..Len(pushed') : pushed'[i] = Message("notify", "response", p.id, TRUE)
  BY <1>1 DEF Accepted
<1> QED
  BY <1>2, <1>3 DEF Accepted

LEMMA SuccessStep ==
  ASSUME ResponseWait, ClientTypes, RecvInv, FramesIntact, Numbered, Newest, Fresh,
         Answers, NoFalseSuccess, [Next]_vars
  PROVE  NoFalseSuccess'
<1>a. ClientInv
  BY DEF ClientTypes
<1>1. ASSUME returned' = returned PROVE NoFalseSuccess'
  BY <1>1, <1>a, AcceptedStays DEF NoFalseSuccess
<1>2. ASSUME NEW t \in Threads, NEW rc, Return(t, rc),
             op[t] = "notify" /\ rc = 0 => Accepted(req[t])
      PROVE  NoFalseSuccess'
  <2>1. returned' = returned \/ (op[t] = "notify"
                                 /\ returned' = returned \union {[req |-> req[t], rc |-> rc]})
    BY <1>2 DEF Return
  <2>2. ASSUME NEW r \in returned', r.rc = 0 PROVE Accepted(r.req)
    BY <1>2, <2>1, <2>2 DEF NoFalseSuccess
  <2> QED
    BY <2>2, <1>a, AcceptedStays DEF NoFalseSuccess
<1>3. ASSUME NEW t \in Threads, InCall(t) PROVE NoFalseSuccess'
  <2>1. CASE Sent(t)
    BY <1>1, <1>2, <2>1, ResponseWait DEF Sent, ExpectsAnswer
  <2>2. CASE Waited(t)
    BY <1>1, <1>2, <2>2 DEF Waited, NothingIsNormal
  <2>3. CASE ReceiveFailed(t)
    BY <1>2, <2>3 DEF ReceiveFailed
  <2>4. CASE Answered(t)
    <3>1. CASE op[t] = "notify" /\ Return(t, IF got[t].head.ok THEN 0 ELSE -1)
      <4>1. got[t].head.ok => Accepted(req[t])
        BY <2>4, <3>1, AnswerIsAcceptance DEF Answered
      <4>2. CASE got[t].head.ok
        BY <1>2, <3>1, <4>1, <4>2
      <4>3. CASE ~got[t].head.ok
        BY <1>2, <3>1, <4>3
      <4> QED
        BY <4>2, <4>3
    <3> QED
      BY <1>1, <2>4, <3>1 DEF Answered
  <2>5. CASE IoStep(t) /\ UNCHANGED <<clientVars, serverVars>>
    BY <1>1, <2>5 DEF clientVars
  <2>6. CASE Dropped(t) \/ DispatchControl(t) \/ Responded(t)
             \/ DispatchRetrieve(t) \/ DispatchOther(t) \/ Reported(t)
    BY <1>1, <2>6 DEF Dropped, DispatchControl, Responded, DispatchRetrieve,
       DispatchOther, Reported
  <2> QED
    BY <1>3, <2>1, <2>2, <2>3, <2>4, <2>5, <2>6 DEF InCall
<1>4. ASSUME NEW t \in Threads, Notify(t) \/ Poll(t) \/ PollKeepalive(t)
      PROVE  NoFalseSuccess'
  BY <1>1, <1>4 DEF Notify, Poll, PollKeepalive
<1>5. CASE Serve \/ Ask \/ Close \/ Rest \/ UNCHANGED vars
  BY <1>1, <1>5 DEF Serve, Ask, Close, Rest, vars, clientVars
<1> QED
  BY <1>3, <1>4, <1>5 DEF Next

LEMMA SuccessInit == Init => Fresh /\ Answers /\ NoFalseSuccess
<1> SUFFICES ASSUME Init PROVE Fresh /\ Answers /\ NoFalseSuccess
  OBVIOUS
<1>1. sendBuff.head = Null /\ wire = <<>> /\ pushed = <<>> /\ returned = {}
  BY DEF Init, IoInit, Empty
<1>2. \A p \in OutPackets : ~InHeads(p)
  BY <1>1, PacketAssumption DEF InHeads
<1>3. Fresh
  BY <1>2 DEF Init, Fresh, FreshHeads, Asking
<1>4. Answers /\ NoFalseSuccess
  BY <1>1 DEF Answers, NoFalseSuccess
<1> QED
  BY <1>3, <1>4

LEMMA OneThread == OneSender => OneReceiver
  BY ThreadAssumption, ClientAssumption DEF OneSender, OneReceiver

LEMMA SessionInvariance ==
  ASSUME OneSender
  PROVE  Spec => [](/\ ClientTypes /\ RecvInv /\ SendInv /\ FramesIntact /\ Requests
                    /\ Numbered /\ Handlers /\ CallbackInv /\ Fresh /\ Answers)
<1> DEFINE I == /\ ClientTypes /\ RecvInv /\ SendInv /\ FramesIntact /\ Requests
                /\ Numbered /\ Handlers /\ CallbackInv /\ Fresh /\ Answers
<1>1. Init => I
  BY TypesInit, RecvInit, SendInit, CallbackInit, SuccessInit DEF Init
<1>2. I /\ [Next]_vars => I'
  <2> SUFFICES ASSUME I, [Next]_vars PROVE I'
    OBVIOUS
  <2>1. ClientInv /\ TypeInv /\ OneReceiver
    BY OneThread, OneSender DEF ClientTypes, ClientInv
  <2>2. RecvInv' /\ SendInv' /\ FramesIntact'
    BY <2>1, OneSender, ClientStep, RecvStep, SendStep
  <2>3. Requests' /\ Numbered' /\ Handlers'
    BY <2>1, RequestsStep, NumberedStep, HandlersStep
  <2>4. CallbackInv'
    BY <2>1, CallbackStep
  <2>5. Fresh' /\ Answers'
    BY <2>1, FreshStep, AnswersStep
  <2> QED
    BY <2>2, <2>3, <2>4, <2>5, TypesNext
<1> QED
  BY <1>1, <1>2, PTL DEF Spec

\* With one thread per session and response wait on, as in the samples without
\* HAVE_THREAD, im_resource_notification_send() returns 0 only for one whose
\* whole frame the server has acknowledged with 2000: no late answer of an earlier
\* call, no answer to a keepalive, no request with the same number and no refusal
\* passes for it (client.c:515-600, api_device.c:196-250).
THEOREM ImClientNoFalseSuccess ==
  ASSUME OneSender, ResponseWait
  PROVE  Spec => []NoFalseSuccess
<1> DEFINE J == /\ ClientTypes /\ RecvInv /\ SendInv /\ FramesIntact /\ Requests
                /\ Numbered /\ Handlers /\ CallbackInv /\ Fresh /\ Answers
<1>1. Spec => []J
  BY OneSender, SessionInvariance
<1>2. J /\ NoFalseSuccess /\ [Next]_vars => NoFalseSuccess'
  BY ResponseWait, SuccessStep DEF CallbackInv
<1>3. Init => NoFalseSuccess
  BY SuccessInit
<1> QED
  BY <1>1, <1>2, <1>3, PTL DEF Spec

-----------------------------------------------------------------------------
(* The control protocol                                                      *)

\* The Response that request_packet525_handler() sends for the message in hand.
ResponseOf(t) == Packet("control", "response", got[t].head.id)

Out(p) == \E j \in 1..Len(wire) : wire[j].head = p

\* A Response counts as sent only once the socket has it.
Responding ==
    \A t \in Threads :
        ctl[t] = "responding" /\ got[t].head.id # NoId =>
            /\ io[t] \in Sending => pkt[t] = ResponseOf(t)
            /\ io[t] = "check" /\ sent[t] # -1 => Out(ResponseOf(t))
            /\ io[t] = "sent" => Out(ResponseOf(t))

\* A Report is made only after the application's handler has run.
Reports ==
    \A p \in OutPackets :
        InHeads(p) /\ p.exch = "report" =>
            \E k \in 1..Len(callbacks) : callbacks[k].head.id = p.id

ControlCalls ==
    \A k \in 1..Len(callbacks) :
        callbacks[k].head.type = "control" =>
            Out(Packet("control", "response", callbacks[k].head.id))

ControlInv == Responding /\ Reports /\ ControlCalls

LEMMA OutStays ==
  ASSUME ClientInv, [Next]_vars, NEW p, Out(p)
  PROVE  Out(p)'
<1>1. \A j \in 1..Len(wire) : j \in 1..Len(wire') /\ wire'[j] = wire[j]
  BY HistoryGrows
<1> QED
  BY <1>1 DEF Out

LEMMA RespondingLayer ==
  ASSUME OneSender, ClientInv, SendInv, Responding, [Next]_vars,
         NEW t \in Threads, IoStep(t), UNCHANGED ctl
  PROVE  Responding'
<1> SUFFICES ASSUME ctl[t] = "responding", got'[t].head.id # NoId
             PROVE  /\ io'[t] \in Sending => pkt'[t] = ResponseOf(t)'
                    /\ io'[t] = "check" /\ sent'[t] # -1 => Out(ResponseOf(t))'
                    /\ io'[t] = "sent" => Out(ResponseOf(t))'
  BY OneSender, ClientAssumption DEF Responding, OneSender
<1>a. /\ TypeInv /\ IoTypeOK
      /\ io = [u \in Threads |-> io[u]] /\ sent = [u \in Threads |-> sent[u]]
      /\ wire \in Seq([head : OutPackets, body : OutPackets])
  BY DEF ClientInv, TypeInv, IoTypeOK
<1>1. io[t] \in Sending /\ got' = got
  BY <1>a, LayerStep DEF ClientInv, Held
<1>2. ResponseOf(t)' = ResponseOf(t) /\ pkt[t] = ResponseOf(t)
      /\ (io[t] = "check" /\ sent[t] # -1 => Out(ResponseOf(t)))
  BY <1>1 DEF Responding, ResponseOf
<1>3. CASE SerializeBody(t) \/ LockSend(t)
  <2>1. pkt' = pkt /\ io'[t] \in {"lock_send", "send"}
    BY <1>3, <1>a DEF SerializeBody, LockSend, Lock, Goto
  <2> QED
    BY <1>2, <2>1
<1>4. CASE NetioSend(t)
  <2>1. io[t] = "send" /\ pkt' = pkt /\ io'[t] = "check" /\ sendBuff.head = pkt[t]
    BY <1>4, <1>a DEF NetioSend, Goto, SendInv, Sending
  <2>2. CASE wire' = Append(wire, sendBuff)
    <3>1. Len(wire) + 1 \in 1..Len(wire') /\ wire'[Len(wire) + 1] = sendBuff
      BY <2>2, <1>a
    <3> QED
      BY <1>2, <2>1, <3>1 DEF Out
  <2>3. CASE sent'[t] = -1
    BY <1>2, <2>1, <2>3
  <2> QED
    BY <1>4, <1>a, <2>2, <2>3 DEF NetioSend
<1>5. CASE FinishSend(t)
  <2>1. io[t] = "check" /\ io'[t] \in {"sent", "send_failed"}
    BY <1>5, <1>a DEF FinishSend
  <2>2. sendBuff.body \in OutPackets
    BY <2>1, <1>a DEF TypeInv, Written, Sending
  <2>3. Size[sendBuff.body] # -1
    BY <2>2, PacketAssumption
  <2>4. io'[t] = "sent" => Out(ResponseOf(t))
    BY <1>5, <1>a, <1>2, <2>1, <2>3 DEF FinishSend, AllSent
  <2>5. wire' = wire
    BY <1>5 DEF FinishSend
  <2> QED
    BY <1>2, <2>1, <2>4, <2>5 DEF Out, Sending
<1> QED
  BY <1>1, <1>3, <1>4, <1>5 DEF IoStep, LockWait, LockRecv, Lock, FinishWait, NetioRecv,
     DecodeHead, DecodeBody, Goto, Sending

\* Another step: the thread leaves its Response, or begins it.
LEMMA RespondingMove ==
  ASSUME OneSender, ClientInv, NEW t \in Threads, NEW c, ctl' = [ctl EXCEPT ![t] = c],
         c # "responding"
  PROVE  Responding'
  BY OneSender, ClientAssumption DEF Responding, OneSender, ClientInv, Shape

LEMMA RespondingStep ==
  OneSender /\ ClientInv /\ SendInv /\ Responding /\ [Next]_vars => Responding'
<1> SUFFICES ASSUME OneSender, ClientInv, SendInv, Responding, [Next]_vars
             PROVE  Responding'
  OBVIOUS
<1>1. ASSUME NEW t \in Threads, Notify(t) \/ Poll(t) \/ PollKeepalive(t)
      PROVE  Responding'
  BY <1>1, RespondingMove DEF Notify, Poll, PollKeepalive, At
<1>2. ASSUME NEW t \in Threads, InCall(t) PROVE Responding'
  <2>1. CASE IoStep(t) /\ UNCHANGED <<clientVars, serverVars>>
    BY <2>1, RespondingLayer DEF clientVars
  <2>2. CASE Sent(t) \/ ReceiveFailed(t) \/ Answered(t) \/ Dropped(t)
             \/ DispatchOther(t) \/ Reported(t) \/ Waited(t)
             \/ Responded(t) \/ DispatchRetrieve(t)
    BY <2>2, RespondingMove DEF Sent, ReceiveFailed, Answered, Dropped, DispatchOther,
       Reported, Waited, Responded, DispatchRetrieve, Return, WaitAgain
  <2>3. CASE DispatchControl(t)
    <3>1. got[t].head.id # NoId => BeginSend(t, ResponseOf(t))
      BY <2>3 DEF DispatchControl, ResponseOf
    <3>2. got' = got /\ \A u \in Threads : u = t
      BY <2>3, ClientAssumption DEF DispatchControl, BeginSend, OneSender
    <3>3. got[t].head.id # NoId => io'[t] = "body" /\ pkt'[t] = ResponseOf(t)
      BY <3>1 DEF BeginSend, ClientInv, TypeInv, IoTypeOK
    <3> QED
      BY <3>2, <3>3 DEF Responding, ResponseOf
  <2> QED
    BY <1>2, <2>1, <2>2, <2>3 DEF InCall
<1>3. CASE Serve \/ Ask \/ Close \/ Rest \/ UNCHANGED vars
  BY <1>3 DEF Serve, Ask, Close, Rest, Push, PeerClose, vars, clientVars, ioVars,
     Responding, ResponseOf, Out
<1> QED
  BY <1>1, <1>2, <1>3 DEF Next

\* A step that calls no handler and begins no Report.
LEMMA ReportsOther ==
  ASSUME ClientInv, [Next]_vars, Reports, ControlCalls, callbacks' = callbacks,
         \A p \in OutPackets : InHeads(p)' /\ p.exch = "report" => InHeads(p)
  PROVE  Reports' /\ ControlCalls'
<1>1. Reports'
  BY DEF Reports
<1>2. ControlCalls'
  BY OutStays DEF ControlCalls
<1> QED
  BY <1>1, <1>2

\* The application's handler is called, and the next packet is begun.
LEMMA ReportsCall ==
  ASSUME ClientTypes, [Next]_vars, Reports, ControlCalls, NEW t \in Threads,
         Callback(t), NEW q, BeginSend(t, q), q.id = got[t].head.id,
         got[t].head.type = "control" => Out(ResponseOf(t))
  PROVE  Reports' /\ ControlCalls'
<1>a. ClientInv /\ TypeInv
      /\ callbacks \in Seq([head : ServerMessages, body : ServerMessages])
  BY DEF ClientTypes, ClientInv, Outcomes
<1>1. /\ Len(callbacks') = Len(callbacks) + 1 /\ Len(callbacks) \in Nat
      /\ callbacks'[Len(callbacks) + 1] = got[t]
      /\ \A k \in 1..Len(callbacks) : callbacks'[k] = callbacks[k]
      /\ \A k \in 1..Len(callbacks') : k = Len(callbacks) + 1 \/ k \in 1..Len(callbacks)
  BY <1>a DEF Callback
<1>2. ASSUME NEW p \in OutPackets, InHeads(p)', p.exch = "report"
      PROVE  \E k \in 1..Len(callbacks') : callbacks'[k].head.id = p.id
  <2>1. InHeads(p) \/ p = q
    BY <1>2, <1>a, HeadsFromCalls, OneBeginSend
  <2>2. CASE InHeads(p)
    <3>1. PICK k \in 1..Len(callbacks) : callbacks[k].head.id = p.id
      BY <1>2, <2>2 DEF Reports
    <3> QED
      BY <3>1, <1>1
  <2>3. CASE p = q
    BY <2>3, <1>1
  <2> QED
    BY <2>1, <2>2, <2>3
<1>3. ASSUME NEW k \in 1..Len(callbacks'), callbacks'[k].head.type = "control"
      PROVE  Out(Packet("control", "response", callbacks[k].head.id))'
  <2> DEFINE p == Packet("control", "response", callbacks'[k].head.id)
  <2>1. PICK j \in 1..Len(wire) : wire[j].head = p
    BY <1>1, <1>3 DEF ControlCalls, ResponseOf, Out
  <2>2. j \in 1..Len(wire') /\ wire'[j].head = p
    BY <2>1, <1>a, HistoryGrows
  <2> QED
    BY <2>2 DEF Out, Packet
<1> QED
  BY <1>2, <1>3 DEF Reports, ControlCalls

LEMMA ReportsStep ==
  ASSUME ClientTypes, Newest, Responding, Reports, ControlCalls, [Next]_vars
  PROVE  Reports' /\ ControlCalls'
<1>a. ClientInv /\ TypeInv
  BY DEF ClientTypes, ClientInv
<1>1. ASSUME NEW t \in Threads, callbacks' = callbacks,
             BeginWait(t) \/ BeginRecv(t) \/ (\E q : BeginSend(t, q) /\ q.exch # "report")
      PROVE  Reports' /\ ControlCalls'
  <2>1. ASSUME NEW p \in OutPackets, InHeads(p)', p.exch = "report" PROVE InHeads(p)
    <3>1. InHeads(p) \/ BeginSend(t, p)
      BY <1>1, <2>1, <1>a, HeadsFromCalls
    <3>2. BeginSend(t, p) => io'[t] = "body"
      BY <1>a DEF BeginSend, TypeInv, IoTypeOK
    <3>3. BeginWait(t) \/ BeginRecv(t) => io'[t] # "body"
      BY <1>a DEF BeginWait, BeginRecv, TypeInv, IoTypeOK
    <3> QED
      BY <1>1, <2>1, <3>1, <3>2, <3>3, <1>a, OneBeginSend
  <2> QED
    BY <1>1, <2>1, <1>a, ReportsOther
<1>2. ASSUME NEW t \in Threads, IoStep(t), callbacks' = callbacks
      PROVE  Reports' /\ ControlCalls'
  <2>1. ASSUME NEW p \in OutPackets, InHeads(p)' PROVE InHeads(p)
    <3>1. InHeads(p) \/ BeginSend(t, p)
      BY <1>2, <2>1, <1>a, HeadsFromCalls
    <3>2. io[t] \notin Results
      BY <1>2 DEF IoStep, SerializeBody, LockSend, LockWait, LockRecv, Lock, NetioSend,
         FinishSend, FinishWait, NetioRecv, DecodeHead, DecodeBody, Goto, Results
    <3> QED
      BY <3>1, <3>2 DEF BeginSend
  <2> QED
    BY <1>2, <2>1, <1>a, ReportsOther
<1>3. ASSUME UNCHANGED <<sendBuff, wire, callbacks>> PROVE Reports' /\ ControlCalls'
  BY <1>3, <1>a, ReportsOther DEF InHeads
<1>4. ASSUME NEW t \in Threads, Notify(t) \/ Poll(t) \/ PollKeepalive(t)
      PROVE  Reports' /\ ControlCalls'
  BY <1>1, <1>4 DEF Notify, Poll, PollKeepalive, Packet
<1>5. ASSUME NEW t \in Threads, NEW rc, Return(t, rc) PROVE Reports' /\ ControlCalls'
  BY <1>3, <1>5 DEF Return, ioVars
<1>6. ASSUME NEW t \in Threads, InCall(t) PROVE Reports' /\ ControlCalls'
  <2>1. CASE IoStep(t) /\ UNCHANGED <<clientVars, serverVars>>
    BY <1>2, <2>1 DEF clientVars
  <2>2. CASE Sent(t) \/ ReceiveFailed(t) \/ Answered(t) \/ Dropped(t)
             \/ DispatchOther(t) \/ Reported(t)
    BY <1>1, <1>5, <2>2 DEF Sent, ReceiveFailed, Answered, Dropped, DispatchOther,
       Reported, WaitAgain
  <2>3. CASE Waited(t)
    BY <1>1, <1>5, <2>3 DEF Waited
  <2>4. CASE DispatchControl(t)
    BY <1>1, <2>4 DEF DispatchControl, Packet
  <2>5. CASE Responded(t)
    <3>1. CASE WaitAgain(t) /\ UNCHANGED callbacks
      BY <1>1, <3>1 DEF WaitAgain
    <3>2. CASE Handled(t) /\ Callback(t) /\ BeginSend(t, Packet("control", "report", got[t].head.id))
      <4>1. Out(ResponseOf(t))
        BY <2>5, <3>2 DEF Responded, Handled, Responding
      <4>2. Packet("control", "report", got[t].head.id).id = got[t].head.id
        BY DEF Packet
      <4> QED
        BY <3>2, <4>1, <4>2, ReportsCall
    <3> QED
      BY <2>5, <3>1, <3>2 DEF Responded
  <2>6. CASE DispatchRetrieve(t)
    <3>1. CASE WaitAgain(t) /\ UNCHANGED callbacks
      BY <1>1, <3>1 DEF WaitAgain
    <3>2. CASE Callback(t) /\ BeginSend(t, Packet("retrieve", "response", got[t].head.id))
      <4>1. Packet("retrieve", "response", got[t].head.id).id = got[t].head.id
        BY DEF Packet
      <4>2. got[t].head.type # "control"
        BY <2>6 DEF DispatchRetrieve
      <4> QED
        BY <3>2, <4>1, <4>2, ReportsCall
    <3> QED
      BY <2>6, <3>1, <3>2 DEF DispatchRetrieve
  <2> QED
    BY <1>6, <2>1, <2>2, <2>3, <2>4, <2>5, <2>6 DEF InCall
<1>7. CASE Serve \/ Ask \/ Close \/ Rest \/ UNCHANGED vars
  BY <1>3, <1>7 DEF Serve, Ask, Close, Rest, Push, PeerClose, vars, clientVars, ioVars
<1> QED
  BY <1>4, <1>6, <1>7 DEF Next

LEMMA ControlInit == Init => ControlInv
<1> SUFFICES ASSUME Init PROVE ControlInv
  OBVIOUS
<1>1. sendBuff.head = Null /\ wire = <<>> /\ callbacks = <<>>
      /\ \A t \in Threads : ctl[t] = "idle"
  BY DEF Init, IoInit, Empty
<1>2. \A p \in OutPackets : ~InHeads(p)
  BY <1>1, PacketAssumption DEF InHeads
<1> QED
  BY <1>1, <1>2 DEF ControlInv, Responding, Reports, ControlCalls

LEMMA ControlInvImplies == ClientInv /\ ControlInv => ControlProtocol
<1> SUFFICES ASSUME ClientInv, ControlInv PROVE ControlProtocol
  OBVIOUS
<1>1. ASSUME NEW p, Out(p) PROVE p \in WireHeads
  BY <1>1 DEF Out, WireHeads
<1>2. ASSUME NEW p \in WireHeads PROVE p \in OutPackets /\ InHeads(p)
  <2>1. wire \in Seq([head : OutPackets, body : OutPackets])
    BY DEF ClientInv, TypeInv, IoTypeOK
  <2>2. PICK j \in 1..Len(wire) : wire[j].head = p
    BY <1>2 DEF WireHeads
  <2>3. wire[j] \in [head : OutPackets, body : OutPackets]
    BY <2>1, ElementOfSeq
  <2>4. p \in OutPackets
    BY <2>2, <2>3
  <2> QED
    BY <2>2, <2>4 DEF InHeads
<1>3. \A k \in 1..Len(callbacks) :
         callbacks[k].head.type = "control" =>
            Packet("control", "response", callbacks[k].head.id) \in WireHeads
  BY <1>1 DEF ControlInv, ControlCalls
<1>4. \A p \in WireHeads :
         p.exch = "report" => \E k \in 1..Len(callbacks) : callbacks[k].head.id = p.id
  BY <1>2 DEF ControlInv, Reports
<1> QED
  BY <1>3, <1>4 DEF ControlProtocol

\* With one thread per session, the application's control handler runs only after
\* the Response to the request is on the connection, also when the connection
\* fails in between, and a Report goes out only for a request whose handler has
\* run (client.c:843-851, api_device.c:397-430).
THEOREM ImClientControlProtocol ==
  ASSUME OneSender
  PROVE  Spec => []ControlProtocol
<1> DEFINE J == /\ ClientTypes /\ RecvInv /\ SendInv /\ FramesIntact /\ Requests
                /\ Numbered /\ Handlers /\ CallbackInv /\ Fresh /\ Answers
<1>1. Spec => []J
  BY OneSender, SessionInvariance
<1>2. J /\ ControlInv /\ [Next]_vars => ControlInv'
  <2> SUFFICES ASSUME J, ControlInv, [Next]_vars PROVE ControlInv'
    OBVIOUS
  <2>1. ClientInv /\ Newest /\ Responding /\ Reports /\ ControlCalls
    BY DEF ClientTypes, CallbackInv, ControlInv
  <2>2. Responding'
    BY <2>1, OneSender, RespondingStep
  <2>3. Reports' /\ ControlCalls'
    BY <2>1, ReportsStep
  <2> QED
    BY <2>2, <2>3 DEF ControlInv
<1>3. J /\ ControlInv => ControlProtocol
  BY ControlInvImplies DEF ClientTypes
<1> QED
  BY <1>1, <1>2, <1>3, ControlInit, PTL DEF Spec
=============================================================================
