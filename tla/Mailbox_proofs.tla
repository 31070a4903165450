--------------------------- MODULE Mailbox_proofs ---------------------------
(***************************************************************************)
(* The mailbox of the MQTT transport, for any messages, any lengths of     *)
(* them and any number of arrivals: type correctness for any readers; for  *)
(* one reader, that im_poll() never fails over an empty mailbox and that,  *)
(* when messages do not overlap, each is handed up whole and in its turn.  *)
(*                                                                         *)
(* The callback locks nothing.  What keeps a message whole is that its     *)
(* length is written last and cleared last, and that nobody but the reader *)
(* sets it to 0 between "there is a message" and the copy.                 *)
(***************************************************************************)
EXTENDS Mailbox, TLAPS

USE MailboxAssumption

\* The callback copies a message that has arrived, and not beyond its end.
TypeInv ==
    /\ TypeOK
    /\ writing > 0 => Len(arrived) > 0 /\ writing <= Pieces[Current] + 1

\* A sequence with one more element.
LEMMA AppendOne ==
  ASSUME NEW S, NEW q \in Seq(S), NEW x \in S
  PROVE  /\ Append(q, x) \in Seq(S)
         /\ Len(Append(q, x)) = Len(q) + 1
         /\ \A i \in 1..Len(q) : Append(q, x)[i] = q[i]
         /\ Append(q, x)[Len(q) + 1] = x
  OBVIOUS

\* The length of the message that arrived last fits the mailbox.
LEMMA CurrentFits ==
  ASSUME TypeOK, Len(arrived) > 0
  PROVE  Current \in Messages /\ Pieces[Current] \in 1..Size
<1>1. arrived \in Seq(Messages) /\ Len(arrived) \in Nat
  BY DEF TypeOK
<1>2. Len(arrived) \in 1..Len(arrived)
  BY <1>1
<1>3. Current \in Messages
  BY <1>1, <1>2 DEF Current
<1> QED
  BY <1>3

\* What is handed up when something was copied.
LEMMA ContentsType ==
  ASSUME NEW b \in Buffers, NEW n \in 1..Size
  PROVE  Contents(b, n) \in [data : Buffers, length : 1..Size]
<1>1. [k \in 1..Size |-> IF k <= n THEN b[k] ELSE Nothing] \in Buffers
  BY DEF Buffers
<1> QED
  BY <1>1 DEF Contents

-----------------------------------------------------------------------------
(* Type correctness                                                        *)

LEMMA TypeInvInit == Init => TypeInv
<1> SUFFICES ASSUME Init PROVE TypeInv
  OBVIOUS
<1>1. Empty \in Buffers
  BY DEF Empty, Buffers
<1>2. <<>> \in Seq(Messages) /\ <<>> \in Seq([data : Buffers, length : 1..Size])
  OBVIOUS
<1>3. 0 \in 0..Size /\ 1 \in 1..Size + 1 /\ 0 \in 0..Size + 1
  OBVIOUS
<1> QED
  BY <1>1, <1>2, <1>3 DEF Init, TypeInv, TypeOK

LEMMA TypeInvStep == TypeInv /\ [Next]_vars => TypeInv'
<1> SUFFICES ASSUME TypeInv, [Next]_vars PROVE TypeInv'
  OBVIOUS
<1>t. TypeOK /\ Len(arrived) \in Nat /\ Size \in Nat /\ Size > 0
  BY DEF TypeInv, TypeOK
<1>c. writing > 0 => Pieces[Current] \in 1..Size /\ Current \in Messages
  BY <1>t, CurrentFits DEF TypeInv
<1>1. ASSUME NEW m \in Messages, Arrive(m) PROVE TypeInv'
  <2>1. /\ arrived' \in Seq(Messages) /\ Len(arrived') = Len(arrived) + 1
        /\ Current' = m /\ writing' = 1
    BY <1>t, <1>1, AppendOne DEF Arrive, TypeOK, Current
  <2>2. Pieces[m] \in 1..Size
    OBVIOUS
  <2>3. TypeOK'
    BY <1>t, <1>1, <2>1 DEF Arrive, TypeOK, reader
  <2> QED
    BY <1>t, <2>1, <2>2, <2>3 DEF TypeInv
<1>2. CASE WritePiece
  <2>1. writing \in 1..Size /\ Current \in Messages
    BY <1>2, <1>t, <1>c DEF WritePiece, TypeOK
  <2>2. data' \in Buffers
    BY <1>2, <1>t, <2>1 DEF WritePiece, TypeOK, Buffers
  <2>3. writing' = writing + 1 /\ writing' \in 0..Size + 1 /\ Current' = Current
    BY <1>2, <1>t, <2>1 DEF WritePiece, Current
  <2>4. TypeOK'
    BY <1>2, <1>t, <2>2, <2>3 DEF WritePiece, LengthLater, TypeOK, reader
  <2> QED
    BY <1>2, <1>c, <2>1, <2>3, <2>4 DEF WritePiece, TypeInv
<1>3. CASE WriteLength
  <2>1. length' \in 0..Size /\ writing' = 0
    BY <1>3, <1>c DEF WriteLength
  <2> QED
    BY <1>3, <1>t, <2>1 DEF WriteLength, TypeOK, TypeInv, reader
<1>4. CASE Lose
  BY <1>4, <1>t DEF Lose, TypeInv, TypeOK, Current, reader
<1>5. ASSUME NEW r \in Readers, LockWait(r) PROVE TypeInv'
  BY <1>5, <1>t DEF LockWait, TypeInv, TypeOK, Current
<1>6. ASSUME NEW r \in Readers, FinishWait(r) PROVE TypeInv'
  BY <1>6, <1>t DEF FinishWait, TypeInv, TypeOK, Current
<1>7. ASSUME NEW r \in Readers, LockRecv(r) PROVE TypeInv'
  BY <1>7, <1>t DEF LockRecv, TypeInv, TypeOK, Current
<1>8. ASSUME NEW r \in Readers, ReadPiece(r) PROVE TypeInv'
  <2>1. reading[r] \in 1..Size
    BY <1>8, <1>t DEF ReadPiece, TypeOK
  <2>2. data[reading[r]] \in Messages \union {Nothing}
    BY <1>t, <2>1 DEF TypeOK, Buffers
  <2>3. [copy[r] EXCEPT ![reading[r]] = data[reading[r]]] \in Buffers
    BY <1>t, <2>2 DEF TypeOK, Buffers
  <2>4. copy' \in [Readers -> Buffers]
    BY <1>8, <1>t, <2>3 DEF ReadPiece, TypeOK
  <2>5. reading' \in [Readers -> 1..Size + 1]
    BY <1>8, <1>t, <2>1 DEF ReadPiece, TypeOK
  <2> QED
    BY <1>8, <1>t, <2>4, <2>5 DEF ReadPiece, TypeInv, TypeOK, Current
<1>9. ASSUME NEW r \in Readers, ReadLength(r) PROVE TypeInv'
  BY <1>9, <1>t DEF ReadLength, TypeInv, TypeOK, Current
<1>10. ASSUME NEW r \in Readers, Clear(r) PROVE TypeInv'
  <2>1. length' = 0 /\ 0 \in 0..Size /\ mutex' = Nothing
    BY <1>10, <1>t DEF Clear, Cleared
  <2>p. pc' \in [Readers -> {"out", "wait", "seen", "copy", "clear", "failed"}]
    <3>1. \E x \in {"out", "failed"} : pc' = [pc EXCEPT ![r] = x]
      BY <1>10 DEF Clear
    <3> QED
      BY <3>1, <1>t DEF TypeOK
  <2>2. read' \in Seq([data : Buffers, length : 1..Size])
    <3>1. CASE copied[r] > 0
      <4>1. copied[r] \in 1..Size /\ copy[r] \in Buffers
        BY <3>1, <1>t DEF TypeOK
      <4>2. Contents(copy[r], copied[r]) \in [data : Buffers, length : 1..Size]
        BY <4>1, ContentsType
      <4>3. read' = Append(read, Contents(copy[r], copied[r]))
        BY <1>10, <3>1 DEF Clear
      <4> QED
        BY <1>t, <4>2, <4>3, AppendOne DEF TypeOK
    <3>2. CASE ~(copied[r] > 0)
      BY <1>10, <1>t, <3>2 DEF Clear, TypeOK
    <3> QED
      BY <3>1, <3>2
  <2> QED
    BY <1>10, <1>t, <2>1, <2>p, <2>2 DEF Clear, TypeInv, TypeOK, Current
<1>11. CASE UNCHANGED vars
  BY <1>11 DEF TypeInv, TypeOK, Current, vars
<1> QED
  BY <1>1, <1>2, <1>3, <1>4, <1>5, <1>6, <1>7, <1>8, <1>9, <1>10, <1>11
     DEF Next, Callback, Step, Rest

\* Type correctness: the callback and the copy stay inside the mailbox,
\* whatever interleaves, for any number of threads that read.
THEOREM MailboxTypeCorrect == Spec => []TypeOK
<1>1. TypeInv => TypeOK
  BY DEF TypeInv
<1> QED
  BY TypeInvInit, TypeInvStep, <1>1, PTL DEF Spec

-----------------------------------------------------------------------------
(* One thread that reads                                                   *)

OneReader == \A r, q \in Readers : r = q

\* Once the thread has seen a message there is one until it has copied it: the
\* callback only replaces it.
Seen ==
    \A r \in Readers :
        /\ pc[r] \in {"seen", "copy"} => length > 0
        /\ pc[r] = "clear" => copied[r] > 0
        /\ pc[r] # "failed"

SeenInv == TypeInv /\ Seen

LEMMA SeenInit == Init => SeenInv
  BY TypeInvInit DEF Init, SeenInv, Seen

LEMMA SeenStep ==
  ASSUME OneReader, SeenInv, [Next]_vars
  PROVE  SeenInv'
<1>a. TypeInv'
  BY TypeInvStep DEF SeenInv
<1>t. TypeInv /\ Seen /\ TypeOK
  BY DEF SeenInv, TypeInv
<1> SUFFICES ASSUME NEW q \in Readers
             PROVE  /\ pc'[q] \in {"seen", "copy"} => length' > 0
                    /\ pc'[q] = "clear" => copied'[q] > 0
                    /\ pc'[q] # "failed"
  BY <1>a DEF SeenInv, Seen
<1>s. /\ pc[q] \in {"seen", "copy"} => length > 0
      /\ pc[q] = "clear" => copied[q] > 0
      /\ pc[q] # "failed"
  BY <1>t DEF Seen
<1>o. \A r \in Readers : r = q
  BY DEF OneReader
<1>1. CASE WriteLength
  <2>1. Pieces[Current] \in 1..Size
    BY <1>1, <1>t, CurrentFits DEF WriteLength, TypeInv
  <2>2. length' > 0 /\ UNCHANGED <<pc, copied>>
    BY <1>1, <2>1 DEF WriteLength, reader
  <2> QED
    BY <2>2, <1>s
<1>2. CASE LockWait(q)
  BY <1>2, <1>t, <1>s DEF LockWait, TypeOK
<1>3. CASE FinishWait(q)
  BY <1>3, <1>t, <1>s DEF FinishWait, Available, TypeOK
<1>4. CASE LockRecv(q)
  BY <1>4, <1>t, <1>s DEF LockRecv, TypeOK
<1>5. CASE ReadPiece(q)
  BY <1>5, <1>t, <1>s DEF ReadPiece, TypeOK
<1>6. CASE ReadLength(q)
  BY <1>6, <1>t, <1>s DEF ReadLength, TypeOK
<1>7. CASE Clear(q)
  BY <1>7, <1>t, <1>s DEF Clear, TypeOK
<1>8. CASE UNCHANGED <<length, pc, copied>>
  BY <1>8, <1>s
<1>9. \/ UNCHANGED <<length, pc, copied>> \/ WriteLength \/ \E r \in Readers : Step(r)
  BY DEF Next, Callback, Arrive, WritePiece, LengthLater, Lose, Rest, vars, reader
<1> QED
  BY <1>1, <1>2, <1>3, <1>4, <1>5, <1>6, <1>7, <1>8, <1>9, <1>o DEF Step

\* net_mqtt_recv_buffer() does not find the mailbox empty after
\* net_mqtt_available_timeout_msec() has seen a message in it, whatever the
\* callback does between the two calls, when one thread reads.
THEOREM MailboxNeverEmptyHanded == ASSUME OneReader PROVE Spec => []NeverEmptyHanded
<1>1. SeenInv /\ [Next]_vars => SeenInv'
  BY SeenStep
<1>2. SeenInv => NeverEmptyHanded
  BY DEF SeenInv, Seen, NeverEmptyHanded
<1> QED
  BY SeenInit, <1>1, <1>2, PTL DEF Spec

-----------------------------------------------------------------------------
(* Every message whole and in its turn                                     *)

\* The messages that wait: the one in the mailbox or on its way there.
Pending == IF writing > 0 \/ length > 0 THEN 1 ELSE 0

\* What the callback has copied, and what the mailbox shows, is the message
\* that arrived last.
Shown ==
    /\ Len(arrived) = Len(read) + Pending
    /\ writing > 0 => length = 0 /\ \A k \in 1..writing - 1 : data[k] = Current
    /\ length > 0 => length = Pieces[Current] /\ \A k \in 1..length : data[k] = Current

\* What the reader has copied is what the mailbox shows.
Copied ==
    \A r \in Readers :
        /\ pc[r] \in {"seen", "copy", "clear"} => length > 0
        /\ pc[r] = "copy" => \A k \in 1..reading[r] - 1 : copy[r][k] = data[k]
        /\ pc[r] = "clear" => copied[r] = length /\ \A k \in 1..Size : copy[r][k] = data[k]

InTurn == \A i \in 1..Len(read) : read[i] = Whole(arrived[i])

OrderInv == TypeInv /\ (apart => Shown /\ Copied /\ InTurn)

LEMMA OrderInit == Init => OrderInv
<1> SUFFICES ASSUME Init PROVE Shown /\ Copied /\ InTurn
  BY TypeInvInit DEF OrderInv
<1>1. /\ writing = 0 /\ length = 0 /\ arrived = <<>> /\ read = <<>>
      /\ \A r \in Readers : pc[r] = "out"
  BY DEF Init
<1>2. Len(arrived) = 0 /\ Len(read) = 0
  BY <1>1
<1> QED
  BY <1>1, <1>2 DEF Shown, Copied, InTurn, Pending

\* A step of the callback leaves the reader alone.
LEMMA CopiedKept ==
  ASSUME TypeInv, Copied, UNCHANGED <<data, reader>>, length > 0 => length' = length
  PROVE  Copied'
<1>1. length \in Nat
  BY DEF TypeInv, TypeOK
<1>2. UNCHANGED <<data, pc, reading, copy, copied>>
  BY DEF reader
<1> SUFFICES ASSUME NEW r \in Readers
             PROVE  /\ pc'[r] \in {"seen", "copy", "clear"} => length' > 0
                    /\ pc'[r] = "copy" => \A k \in 1..reading'[r] - 1 : copy'[r][k] = data'[k]
                    /\ pc'[r] = "clear" =>
                          copied'[r] = length' /\ \A k \in 1..Size : copy'[r][k] = data'[k]
  BY DEF Copied
<1>3. /\ pc[r] \in {"seen", "copy", "clear"} => length > 0
      /\ pc[r] = "copy" => \A k \in 1..reading[r] - 1 : copy[r][k] = data[k]
      /\ pc[r] = "clear" => copied[r] = length /\ \A k \in 1..Size : copy[r][k] = data[k]
  BY DEF Copied
<1> QED
  BY <1>2, <1>3

\* A message arrives in an empty mailbox.
LEMMA OrderArrive ==
  ASSUME OrderInv, apart, NEW m \in Messages, Arrive(m)
  PROVE  Shown' /\ Copied' /\ InTurn'
<1>t. TypeInv /\ TypeOK /\ Shown /\ Copied /\ InTurn
  BY DEF OrderInv, TypeInv
<1>1. /\ Len(arrived') = Len(arrived) + 1 /\ \A i \in 1..Len(arrived) : arrived'[i] = arrived[i]
      /\ Len(arrived) \in Nat /\ Len(read) \in Nat
  BY <1>t, AppendOne DEF Arrive, TypeOK
<1>2. writing = 0 /\ length = 0 /\ writing' = 1 /\ length' = 0 /\ read' = read
  BY DEF Arrive, reader
<1>3. Len(arrived) = Len(read)
  BY <1>t, <1>1, <1>2 DEF Shown, Pending
<1>4. Shown'
  <2>1. Pending' = 1
    BY <1>2 DEF Pending
  <2>2. Len(arrived)' = Len(read)' + Pending'
    BY <1>1, <1>2, <1>3, <2>1
  <2> QED
    BY <1>2, <2>2 DEF Shown
<1>5. Copied'
  BY <1>t, <1>2, CopiedKept DEF Arrive
<1>6. InTurn'
  BY <1>t, <1>1, <1>2, <1>3 DEF InTurn
<1> QED
  BY <1>4, <1>5, <1>6

\* The callback copies a piece of it, and then its length.
LEMMA OrderWritePiece ==
  ASSUME OrderInv, apart, WritePiece
  PROVE  Shown' /\ Copied' /\ InTurn'
<1>t. TypeInv /\ TypeOK /\ Shown /\ Copied /\ InTurn
  BY DEF OrderInv, TypeInv
<1>1. /\ writing \in 1..Size /\ writing' = writing + 1 /\ length' = length
      /\ UNCHANGED <<arrived, read, pc, reading, copy, copied>> /\ Current' = Current
  <2>1. Pieces[Current] \in 1..Size
    BY <1>t, CurrentFits DEF WritePiece, TypeInv
  <2> QED
    BY <1>t, <2>1 DEF WritePiece, LengthLater, reader, TypeOK, Current
<1>2. length = 0 /\ \A k \in 1..writing - 1 : data[k] = Current
  BY <1>t, <1>1 DEF Shown
<1>3. data' = [data EXCEPT ![writing] = Current] /\ data \in Buffers
  BY <1>t DEF WritePiece, TypeOK
<1>4. \A k \in 1..writing' - 1 : data'[k] = Current
  <2> SUFFICES ASSUME NEW k \in 1..writing PROVE data'[k] = Current
    BY <1>1
  <2>1. k \in 1..Size /\ (k = writing \/ k \in 1..writing - 1)
    BY <1>1
  <2> QED
    BY <1>2, <1>3, <2>1 DEF Buffers
<1>5. Shown'
  <2>1. Pending' = 1 /\ Pending = 1
    BY <1>1 DEF Pending
  <2>2. Len(arrived)' = Len(read)' + Pending'
    BY <1>t, <1>1, <2>1 DEF Shown
  <2> QED
    BY <1>1, <1>2, <1>4, <2>2 DEF Shown
<1>6. Copied'
  <2>1. \A r \in Readers : pc'[r] \notin {"seen", "copy", "clear"}
    BY <1>t, <1>1, <1>2 DEF Copied
  <2> QED
    BY <2>1 DEF Copied
<1>7. InTurn'
  BY <1>t, <1>1 DEF InTurn
<1> QED
  BY <1>5, <1>6, <1>7

LEMMA OrderWriteLength ==
  ASSUME OrderInv, apart, WriteLength
  PROVE  Shown' /\ Copied' /\ InTurn'
<1>t. TypeInv /\ TypeOK /\ Shown /\ Copied /\ InTurn
  BY DEF OrderInv, TypeInv
<1>1. /\ Pieces[Current] \in 1..Size /\ writing > 0 /\ writing = Pieces[Current] + 1
  <2>1. Pieces[Current] \in 1..Size
    BY <1>t, CurrentFits DEF WriteLength, TypeInv
  <2>2. writing \in Nat
    BY <1>t DEF TypeOK
  <2> QED
    BY <1>t, <2>1, <2>2 DEF WriteLength, TypeInv
<1>2. /\ length' = Pieces[Current] /\ writing' = 0 /\ Current' = Current
      /\ UNCHANGED <<arrived, read, data, pc, reading, copy, copied>>
  BY DEF WriteLength, reader, Current
<1>3. length = 0 /\ \A k \in 1..writing - 1 : data[k] = Current
  BY <1>t, <1>1 DEF Shown
<1>4. Shown'
  <2>1. Pending' = 1 /\ Pending = 1
    BY <1>1, <1>2 DEF Pending
  <2>2. Len(arrived)' = Len(read)' + Pending'
    BY <1>t, <1>2, <2>1 DEF Shown
  <2>3. \A k \in 1..length' : data'[k] = Current'
    BY <1>1, <1>2, <1>3
  <2> QED
    BY <1>2, <2>2, <2>3 DEF Shown
<1>5. Copied'
  BY <1>t, <1>3, CopiedKept DEF WriteLength
<1>6. InTurn'
  BY <1>t, <1>2 DEF InTurn
<1> QED
  BY <1>4, <1>5, <1>6

\* The reader copies a piece, and then the length.
LEMMA OrderReads ==
  ASSUME OneReader, OrderInv, apart, NEW q \in Readers,
         LockWait(q) \/ FinishWait(q) \/ LockRecv(q) \/ ReadPiece(q) \/ ReadLength(q)
  PROVE  Shown' /\ Copied' /\ InTurn'
<1>t. TypeInv /\ TypeOK /\ Shown /\ Copied /\ InTurn
  BY DEF OrderInv, TypeInv
<1>1. UNCHANGED <<arrived, writing, data, length, read>>
  BY DEF LockWait, FinishWait, LockRecv, ReadPiece, ReadLength
<1>2. Shown' /\ InTurn'
  BY <1>t, <1>1 DEF Shown, InTurn, Pending, Current
<1>3. /\ pc[q] \in {"seen", "copy", "clear"} => length > 0
      /\ pc[q] = "copy" => \A k \in 1..reading[q] - 1 : copy[q][k] = data[k]
      /\ pc[q] = "clear" => copied[q] = length /\ \A k \in 1..Size : copy[q][k] = data[k]
  BY <1>t DEF Copied
<1>q. /\ pc'[q] \in {"seen", "copy", "clear"} => length > 0
      /\ pc'[q] = "copy" => \A k \in 1..reading'[q] - 1 : copy'[q][k] = data[k]
      /\ pc'[q] = "clear" => copied'[q] = length /\ \A k \in 1..Size : copy'[q][k] = data[k]
  <2>1. CASE LockWait(q)
    BY <2>1, <1>t DEF LockWait, TypeOK
  <2>2. CASE FinishWait(q)
    BY <2>2, <1>t DEF FinishWait, Available, TypeOK
  <2>3. CASE LockRecv(q)
    BY <2>3, <1>t, <1>3 DEF LockRecv, TypeOK
  <2>4. CASE ReadPiece(q)
    <3>1. /\ pc[q] = "copy" /\ pc'[q] = "copy" /\ reading[q] \in 1..Size
          /\ reading'[q] = reading[q] + 1
          /\ copy'[q] = [copy[q] EXCEPT ![reading[q]] = data[reading[q]]]
          /\ copy[q] \in Buffers
      BY <2>4, <1>t DEF ReadPiece, TypeOK
    <3>2. ASSUME NEW k \in 1..reading'[q] - 1 PROVE copy'[q][k] = data[k]
      <4>1. k \in 1..Size /\ (k = reading[q] \/ k \in 1..reading[q] - 1)
        BY <3>1
      <4> QED
        BY <3>1, <1>3, <4>1 DEF Buffers
    <3> QED
      BY <3>1, <3>2, <1>3
  <2>5. CASE ReadLength(q)
    <3>1. /\ pc[q] = "copy" /\ pc'[q] = "clear" /\ reading[q] = Size + 1
          /\ copied'[q] = length /\ copy' = copy
      BY <2>5, <1>t DEF ReadLength, TypeOK
    <3> QED
      BY <3>1, <1>3
  <2> QED
    BY <2>1, <2>2, <2>3, <2>4, <2>5
<1>4. Copied'
  BY <1>q, <1>1 DEF Copied, OneReader
<1> QED
  BY <1>2, <1>4

\* What was copied is handed up, and the mailbox is empty.
LEMMA HandsUp ==
  ASSUME OrderInv, apart, NEW q \in Readers, Clear(q)
  PROVE  /\ length' = 0 /\ writing' = 0 /\ UNCHANGED <<arrived, data>> /\ pc'[q] = "out"
         /\ Len(arrived) = Len(read) + 1
         /\ read' = Append(read, Whole(Current))
         /\ Whole(Current) \in [data : Buffers, length : 1..Size]
<1>t. TypeInv /\ TypeOK /\ Shown /\ Copied /\ InTurn
  BY DEF OrderInv, TypeInv
<1>1. /\ pc[q] = "clear" /\ length > 0 /\ copied[q] = length
      /\ \A k \in 1..Size : copy[q][k] = data[k]
  BY <1>t DEF Clear, Copied
<1>2. /\ length = Pieces[Current] /\ \A k \in 1..length : data[k] = Current
      /\ writing = 0 /\ Len(arrived) = Len(read) + 1
  <2>1. writing \in Nat /\ length \in Nat
    BY <1>t DEF TypeOK
  <2> QED
    BY <1>t, <1>1, <2>1 DEF Shown, Pending
<1>3. /\ length' = 0 /\ writing' = 0 /\ arrived' = arrived /\ data' = data
      /\ read' = Append(read, Contents(copy[q], copied[q])) /\ pc'[q] = "out"
  BY <1>t, <1>1, <1>2 DEF Clear, Cleared, TypeOK
<1>4. Contents(copy[q], copied[q]) = Whole(Current)
  <2>1. ASSUME NEW k \in 1..Size
        PROVE  (IF k <= length THEN copy[q][k] ELSE Nothing)
               = (IF k <= Pieces[Current] THEN Current ELSE Nothing)
    BY <1>1, <1>2, <1>t DEF TypeOK
  <2>2. [k \in 1..Size |-> IF k <= length THEN copy[q][k] ELSE Nothing]
        = [k \in 1..Size |-> IF k <= Pieces[Current] THEN Current ELSE Nothing]
    BY <2>1, SMTT(30)
  <2> QED
    BY <1>1, <1>2, <2>2, Zenon DEF Contents, Whole
<1>5. copied[q] \in 1..Size /\ copy[q] \in Buffers
  BY <1>t, <1>1 DEF TypeOK
<1>6. Contents(copy[q], copied[q]) \in [data : Buffers, length : 1..Size]
  BY <1>5, ContentsType
<1> QED
  BY <1>2, <1>3, <1>4, <1>6

LEMMA OrderClear ==
  ASSUME OneReader, OrderInv, apart, NEW q \in Readers, Clear(q)
  PROVE  Shown' /\ Copied' /\ InTurn'
<1>t. TypeInv /\ TypeOK /\ InTurn
  BY DEF OrderInv, TypeInv
<1>1. /\ length' = 0 /\ writing' = 0 /\ arrived' = arrived /\ data' = data /\ pc'[q] = "out"
      /\ Len(arrived) = Len(read) + 1
      /\ read' = Append(read, Whole(Current))
      /\ Whole(Current) \in [data : Buffers, length : 1..Size]
  BY HandsUp
<1>2. /\ Len(read') = Len(read) + 1 /\ \A i \in 1..Len(read) : read'[i] = read[i]
      /\ read'[Len(read) + 1] = Whole(Current) /\ Len(read) \in Nat
  <2> DEFINE R == [data : Buffers, length : 1..Size]
             w == Whole(Current)
  <2>1. w \in R /\ read \in Seq(R) /\ read' = Append(read, w)
    BY <1>t, <1>1 DEF TypeOK
  <2> HIDE DEF R, w
  <2>2. /\ Len(Append(read, w)) = Len(read) + 1
        /\ \A i \in 1..Len(read) : Append(read, w)[i] = read[i]
        /\ Append(read, w)[Len(read) + 1] = w
    BY <2>1, AppendOne
  <2>3. Len(read) \in Nat
    BY <2>1
  <2> QED
    BY <2>1, <2>2, <2>3 DEF w
<1>3. Shown'
  <2>1. Pending' = 0
    BY <1>1 DEF Pending
  <2>2. Len(arrived)' = Len(read)' + Pending'
    BY <1>1, <1>2, <2>1
  <2> QED
    BY <1>1, <2>2 DEF Shown
<1>4. Copied'
  BY <1>1 DEF Copied, OneReader
<1>5. InTurn'
  <2> SUFFICES ASSUME NEW i \in 1..Len(read') PROVE read'[i] = Whole(arrived[i])
    BY <1>1 DEF InTurn, Whole
  <2>1. i \in 1..Len(read) \/ i = Len(read) + 1
    BY <1>2
  <2>2. CASE i \in 1..Len(read)
    BY <2>2, <1>2, <1>t DEF InTurn
  <2>3. CASE i = Len(read) + 1
    BY <2>3, <1>1, <1>2 DEF Current
  <2> QED
    BY <2>1, <2>2, <2>3
<1> QED
  BY <1>3, <1>4, <1>5

LEMMA OrderStep ==
  ASSUME OneReader, OrderInv, [Next]_vars
  PROVE  OrderInv'
<1>a. TypeInv' /\ apart' = apart
  BY TypeInvStep DEF OrderInv, Next, Callback, Arrive, WritePiece, WriteLength, Lose, Step,
     LockWait, FinishWait, LockRecv, ReadPiece, ReadLength, Clear, Rest, vars
<1> SUFFICES ASSUME apart PROVE Shown' /\ Copied' /\ InTurn'
  BY <1>a DEF OrderInv
<1>1. CASE UNCHANGED <<arrived, writing, data, length, pc, reading, copy, copied, read>>
  BY <1>1 DEF OrderInv, Shown, Copied, InTurn, Pending, Current
<1>2. \/ UNCHANGED <<arrived, writing, data, length, pc, reading, copy, copied, read>>
      \/ \E m \in Messages : Arrive(m)
      \/ WritePiece \/ WriteLength
      \/ \E r \in Readers : Step(r)
  BY DEF Next, Callback, Lose, Rest, vars, reader
<1> QED
  BY <1>1, <1>2, OrderArrive, OrderWritePiece, OrderWriteLength, OrderReads, OrderClear
     DEF Step

\* If messages do not overlap, one thread that reads is given each message of
\* the server whole, once and in its turn: mqtt_io.c keeps the mailbox
\* consistent without a lock around the callback.
THEOREM MailboxReadWholeInOrder == ASSUME OneReader PROVE Spec => []ReadWholeInOrder
<1>1. OrderInv /\ [Next]_vars => OrderInv'
  BY OrderStep
<1>2. OrderInv => ReadWholeInOrder
  <2> SUFFICES ASSUME OrderInv, apart
               PROVE  /\ Len(read) <= Len(arrived)
                      /\ \A i \in 1..Len(read) : read[i] = Whole(arrived[i])
    BY DEF ReadWholeInOrder
  <2>1. Len(arrived) = Len(read) + Pending /\ InTurn
    BY DEF OrderInv, Shown
  <2>2. Len(read) \in Nat /\ Pending \in {0, 1}
    BY DEF OrderInv, TypeInv, TypeOK, Pending
  <2> QED
    BY <2>1, <2>2 DEF InTurn
<1> QED
  BY OrderInit, <1>1, <1>2, PTL DEF Spec

-----------------------------------------------------------------------------
(* The channel of whole messages                                           *)

Pushed == [i \in 1..Len(arrived) |-> Whole(arrived[i])]

\* A message that arrives is pushed behind the others.
LEMMA PushedArrive ==
  ASSUME TypeInv, NEW m \in Messages, Arrive(m)
  PROVE  Pushed' = Append(Pushed, Whole(m))
<1> DEFINE L == Len(arrived)
           w == Whole(m)
           p == Pushed
           q == Pushed'
<1>1. /\ Len(arrived') = L + 1 /\ \A i \in 1..L : arrived'[i] = arrived[i]
      /\ arrived'[L + 1] = m /\ L \in Nat
  BY AppendOne DEF Arrive, TypeInv, TypeOK
<1>2. p = [i \in 1..L |-> p[i]]
  BY DEF Pushed
<1>3. q = [i \in 1..L + 1 |-> q[i]]
  BY <1>1 DEF Pushed
<1>4. ASSUME NEW i \in 1..L + 1 PROVE q[i] = IF i \in 1..L THEN p[i] ELSE w
  <2>1. q[i] = Whole(arrived'[i])
    BY <1>1 DEF Pushed, Whole
  <2>2. CASE i \in 1..L
    BY <1>1, <2>1, <2>2 DEF Pushed
  <2>3. CASE i = L + 1
    BY <1>1, <2>1, <2>3
  <2> QED
    BY <1>1, <2>2, <2>3
<1> HIDE DEF p, q, w, L
<1>5. q = [i \in 1..L + 1 |-> IF i \in 1..L THEN p[i] ELSE w]
  BY <1>3, <1>4, Zenon
<1>6. Len(p) = L
  BY <1>1, <1>2
<1>7. Append(p, w) = [i \in 1..L + 1 |-> IF i \in 1..L THEN p[i] ELSE w]
  BY <1>1, <1>2, <1>6
<1> QED
  BY <1>5, <1>7 DEF p, q, w

\* A step of one reader and the callback is a step of the channel, or is not
\* seen there.
LEMMA ChannelStep ==
  ASSUME OneReader, OrderInv, [Next]_vars, apart
  PROVE  [Channel!Next]_(Channel!vars)
<1>t. TypeInv /\ OrderInv'
  BY OrderStep DEF OrderInv
<1>1. ASSUME NEW m \in Messages, Arrive(m) PROVE Channel!Next
  <2>1. Pushed' = Append(Pushed, Whole(m)) /\ read' = read
    BY <1>1, <1>t, PushedArrive DEF Arrive, reader
  <2>2. Channel!Push(Whole(m))
    BY <2>1 DEF Channel!Push, Pushed
  <2> QED
    BY <2>2 DEF Channel!Next
<1>2. ASSUME NEW r \in Readers, Clear(r) PROVE Channel!Next
  <2>1. /\ arrived' = arrived /\ Len(arrived) = Len(read) + 1
        /\ read' = Append(read, Whole(Current))
    BY <1>2, HandsUp
  <2>2. Len(read) \in Nat /\ Len(arrived) \in 1..Len(arrived)
    BY <1>t, <2>1 DEF TypeInv, TypeOK
  <2>3. Len(Pushed) = Len(arrived) /\ Pushed[Len(arrived)] = Whole(Current)
    BY <2>2 DEF Pushed, Current
  <2>4. Pushed' = Pushed
    BY <2>1 DEF Pushed, Whole
  <2>5. Len(read) < Len(Pushed) /\ read' = Append(read, Pushed[Len(read) + 1])
    BY <2>1, <2>2, <2>3
  <2>6. Channel!Deliver
    BY <2>4, <2>5 DEF Channel!Deliver, Pushed
  <2> QED
    BY <2>6 DEF Channel!Next
<1>3. CASE UNCHANGED <<arrived, read>>
  BY <1>3 DEF Channel!vars, Whole
<1>4. \/ UNCHANGED <<arrived, read>>
      \/ \E m \in Messages : Arrive(m)
      \/ \E r \in Readers : Clear(r)
  BY DEF Next, Step, LockWait, FinishWait, LockRecv, ReadPiece, ReadLength,
         Callback, WritePiece, WriteLength, Lose, Rest, vars, reader
<1> QED
  BY <1>1, <1>2, <1>3, <1>4

\* With one reader and messages that do not overlap, a caller cannot tell the
\* unlocked mailbox of mqtt_io.c from a channel that moves whole messages.
THEOREM MailboxChannelIfApart == ASSUME OneReader PROVE Spec => ChannelIfApart
<1>1. OrderInv /\ [Next]_vars => OrderInv'
  BY OrderStep
<1>2. OrderInv /\ [Next]_vars => [apart => Channel!Next]_(Channel!vars)
  BY ChannelStep
<1> QED
  BY OrderInit, <1>1, <1>2, PTL DEF Spec, ChannelIfApart
=============================================================================
