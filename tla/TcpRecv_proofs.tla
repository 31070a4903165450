--------------------------- MODULE TcpRecv_proofs ---------------------------
(* The receive loop, for messages of any length and any number of them, cut  *)
(* anywhere: types are kept whatever is lost or misread, and until then      *)
(* every result is one whole message, in order.                              *)
EXTENDS TcpRecv, SequenceTheorems, TLAPS

-----------------------------------------------------------------------------
(* Types                                                                     *)

\* A byte that is under way, or read, is one of a message the server wrote.
Written ==
    /\ \A i \in 1..Len(stream) : stream[i].frame <= Len(sizes)
    /\ \A i \in 1..Len(buff) : buff[i].frame <= Len(sizes)

\* How far a call is.
Reading ==
    /\ pc = "head" => Len(buff) < HeadLen
    /\ pc = "body" => /\ HeadLen <= Len(buff)
                      /\ Len(buff) < HeadLen + want \/ (want = 0 /\ Len(buff) = HeadLen)

TypeInv == TypeOK /\ Len(sizes) <= MaxFrames /\ Written /\ Reading

LEMMA TypeInvInit == Init => TypeInv
<1> SUFFICES ASSUME Init PROVE TypeInv
  OBVIOUS
<1>1. sizes \in Seq(1..MaxBody) /\ stream \in Seq(Byte) /\ buff \in Seq(Byte)
      /\ delivered \in Seq(Seq(Byte)) /\ Len(buff) = 0 /\ Len(stream) = 0 /\ Len(sizes) = 0
  BY EmptySeq DEF Init
<1>2. MaxBody \in Nat /\ BuffSize \in Nat /\ MaxFrames \in Nat
  BY RecvAssumption
<1>3. closed \in BOOLEAN /\ headed \in BOOLEAN /\ sock \in BOOLEAN /\ trouble \in BOOLEAN
      /\ pc = "idle" /\ want = 0
  BY Zenon DEF Init
<1>4. TypeOK
  <2>1. want \in 0..MaxBody /\ Len(buff) <= BuffSize
    BY <1>1, <1>2, <1>3
  <2> QED
    BY <1>1, <1>3, <2>1 DEF TypeOK
<1> QED
  BY <1>1, <1>2, <1>3, <1>4 DEF TypeInv, Written, Reading

LEMMA ByteFrame ==
  ASSUME NEW b \in Byte
  PROVE  b.frame \in Nat /\ b.frame >= 1
<1>1. b.frame \in 1..MaxFrames
  BY DEF Byte
<1> QED
  BY <1>1, RecvAssumption

\* What a call returns is added to what was delivered.
LEMMA AppendOne ==
  ASSUME NEW S, NEW s \in Seq(S), NEW e \in S
  PROVE  /\ Append(s, e) \in Seq(S) /\ Len(Append(s, e)) = Len(s) + 1
         /\ \A i \in 1..Len(s) : Append(s, e)[i] = s[i]
         /\ Append(s, e)[Len(s) + 1] = e
  BY AppendProperties

\* What recv() takes and what it leaves.
LEMMA TakenBytes ==
  ASSUME TypeInv, NEW k \in 1..Len(stream)
  PROVE  /\ Taken(k) \in Seq(Byte) /\ Len(Taken(k)) = k
         /\ \A i \in 1..k : Taken(k)[i] = stream[i]
         /\ SubSeq(stream, k + 1, Len(stream)) \in Seq(Byte)
         /\ Len(SubSeq(stream, k + 1, Len(stream))) = Len(stream) - k
         /\ \A i \in 1..Len(stream) - k :
               SubSeq(stream, k + 1, Len(stream))[i] = stream[k + i]
<1>1. stream \in Seq(Byte) /\ Len(stream) \in Nat
  BY DEF TypeInv, TypeOK
<1>2. \A i \in 1..Len(stream) : stream[i] \in Byte
  BY <1>1, ElementOfSeq
<1> DEFINE n == Len(stream)
           s == stream
<1>a. n \in Int /\ k \in Int /\ k <= n /\ 1 <= k
  BY <1>1
<1>b. \A i \in 1..k : s[i] \in Byte
  BY <1>2, <1>a
<1>c. \A i \in k + 1..n : s[i] \in Byte
  BY <1>2, <1>a
<1> HIDE DEF n, s
<1>3. /\ SubSeq(s, 1, k) \in Seq(Byte)
      /\ Len(SubSeq(s, 1, k)) = IF 1 <= k THEN k - 1 + 1 ELSE 0
      /\ \A i \in 1..k - 1 + 1 : SubSeq(s, 1, k)[i] = s[1 + i - 1]
  BY <1>a, <1>b, SubSeqProperties
<1>4. /\ SubSeq(s, k + 1, n) \in Seq(Byte)
      /\ Len(SubSeq(s, k + 1, n)) = IF k + 1 <= n THEN n - (k + 1) + 1 ELSE 0
      /\ \A i \in 1..n - (k + 1) + 1 : SubSeq(s, k + 1, n)[i] = s[k + 1 + i - 1]
  BY <1>a, <1>c, SubSeqProperties, SMTT(30)
<1>5. Len(SubSeq(s, 1, k)) = k /\ Len(SubSeq(s, k + 1, n)) = n - k
  BY <1>3, <1>4, <1>a
<1>6. \A i \in 1..k : SubSeq(s, 1, k)[i] = s[i]
  <2> SUFFICES ASSUME NEW i \in 1..k PROVE SubSeq(s, 1, k)[i] = s[i]
    OBVIOUS
  <2>1. i \in 1..k - 1 + 1 /\ 1 + i - 1 = i
    BY <1>a
  <2> QED
    BY <2>1, <1>3
<1>7. \A i \in 1..n - k : SubSeq(s, k + 1, n)[i] = s[k + i]
  <2> SUFFICES ASSUME NEW i \in 1..n - k PROVE SubSeq(s, k + 1, n)[i] = s[k + i]
    OBVIOUS
  <2>1. i \in 1..n - (k + 1) + 1 /\ k + 1 + i - 1 = k + i
    BY <1>a
  <2> QED
    BY <2>1, <1>4
<1> QED
  BY <1>3, <1>4, <1>5, <1>6, <1>7 DEF Taken, n, s

\* A call that has read so far and takes k bytes more.
LEMMA MoreBytes ==
  ASSUME TypeInv, NEW k \in 1..Len(stream), buff' = buff \o Taken(k)
  PROVE  /\ buff' \in Seq(Byte) /\ Len(buff') = Len(buff) + k
         /\ \A i \in 1..Len(buff) : buff'[i] = buff[i]
         /\ \A i \in 1..k : buff'[Len(buff) + i] = stream[i]
         /\ \A i \in 1..Len(buff') : buff'[i].frame <= Len(sizes)
<1>1. buff \in Seq(Byte)
  BY DEF TypeInv, TypeOK
<1>2. Taken(k) \in Seq(Byte) /\ Len(Taken(k)) = k /\ \A i \in 1..k : Taken(k)[i] = stream[i]
  BY TakenBytes
<1>3. /\ buff' \in Seq(Byte) /\ Len(buff') = Len(buff) + k
      /\ \A i \in 1..Len(buff) + k :
            buff'[i] = IF i <= Len(buff) THEN buff[i] ELSE Taken(k)[i - Len(buff)]
  <2> DEFINE t == Taken(k)
             b == buff
  <2> HIDE DEF t, b
  <2>1. /\ b \o t \in Seq(Byte) /\ Len(b \o t) = Len(b) + Len(t)
        /\ \A i \in 1..Len(b) + Len(t) :
              (b \o t)[i] = IF i <= Len(b) THEN b[i] ELSE t[i - Len(b)]
    BY <1>1, <1>2, ConcatProperties DEF t, b
  <2> QED
    BY <2>1, <1>2 DEF t, b
<1>4. Len(buff) \in Nat
  BY <1>1
<1>5. \A i \in 1..k : buff'[Len(buff) + i] = stream[i]
  <2> SUFFICES ASSUME NEW i \in 1..k PROVE buff'[Len(buff) + i] = stream[i]
    OBVIOUS
  <2>1. Len(buff) + i \in 1..Len(buff) + k /\ ~(Len(buff) + i <= Len(buff))
        /\ (Len(buff) + i) - Len(buff) = i
    BY <1>4
  <2> QED
    BY <2>1, <1>2, <1>3
<1>6. \A i \in 1..Len(buff') : buff'[i].frame <= Len(sizes)
  <2> SUFFICES ASSUME NEW i \in 1..Len(buff') PROVE buff'[i].frame <= Len(sizes)
    OBVIOUS
  <2>1. CASE i <= Len(buff)
    BY <2>1, <1>3, <1>4 DEF TypeInv, Written
  <2>2. CASE ~(i <= Len(buff))
    <3>1. i - Len(buff) \in 1..k /\ k <= Len(stream) /\ Len(stream) \in Nat
      BY <2>2, <1>3, <1>4 DEF TypeInv, TypeOK
    <3>2. buff'[i] = stream[i - Len(buff)]
      BY <2>2, <3>1, <1>2, <1>3
    <3> QED
      BY <3>1, <3>2 DEF TypeInv, Written
  <2> QED
    BY <2>1, <2>2
<1> QED
  BY <1>3, <1>4, <1>5, <1>6

\* Taking bytes keeps the stream what it is.
LEMMA TakeKeeps ==
  ASSUME TypeInv, NEW k \in 1..Len(stream), Take(k), UNCHANGED sizes
  PROVE  /\ stream' \in Seq(Byte) /\ Len(stream') = Len(stream) - k
         /\ \A i \in 1..Len(stream') : stream'[i] = stream[k + i]
         /\ \A i \in 1..Len(stream') : stream'[i].frame <= Len(sizes')
<1>1. /\ stream' \in Seq(Byte) /\ Len(stream') = Len(stream) - k
      /\ \A i \in 1..Len(stream') : stream'[i] = stream[k + i]
  BY TakenBytes DEF Take
<1>2. \A i \in 1..Len(stream') : k + i \in 1..Len(stream)
  BY <1>1 DEF TypeInv, TypeOK
<1> QED
  BY <1>1, <1>2 DEF TypeInv, Written

LEMMA TypeInvStep == TypeInv /\ [Next]_vars => TypeInv'
<1> SUFFICES ASSUME TypeInv, [Next]_vars PROVE TypeInv'
  OBVIOUS
<1>a. TypeOK /\ Len(sizes) <= MaxFrames /\ Written /\ Reading
      /\ HeadLen \in Nat \ {0} /\ MaxBody \in Nat \ {0} /\ MaxFrames \in Nat
      /\ BuffSize \in Nat /\ BuffSize > HeadLen + MaxBody
  BY RecvAssumption DEF TypeInv
<1>b. Len(sizes) \in Nat /\ Len(stream) \in Nat /\ Len(buff) \in Nat
  BY <1>a DEF TypeOK
<1>1. ASSUME NEW n \in 1..MaxBody, Write(n) PROVE TypeInv'
  <2>1. /\ sizes' = Append(sizes, n) /\ stream' = stream \o Message(Len(sizes) + 1, n)
        /\ Len(sizes) + 1 <= MaxFrames
        /\ UNCHANGED <<closed, headed, sock, pc, buff, want, delivered, trouble>>
    BY <1>1, <1>a, <1>b DEF Write
  <2>2. sizes' \in Seq(1..MaxBody) /\ Len(sizes') = Len(sizes) + 1
    BY <2>1, <1>a DEF TypeOK
  <2> DEFINE m == Message(Len(sizes) + 1, n)
  <2>3. HeadLen + n \in Nat
    BY <1>a
  <2>4. \A j \in 1..HeadLen + n : [frame |-> Len(sizes) + 1, pos |-> j] \in Byte
    BY <2>1, <1>a, <1>b DEF Byte
  <2>5. m \in Seq(Byte) /\ Len(m) = HeadLen + n
        /\ \A j \in 1..HeadLen + n : m[j].frame = Len(sizes) + 1
    BY <2>3, <2>4 DEF Message
  <2> HIDE DEF m
  <2>6. /\ stream' \in Seq(Byte) /\ Len(stream') = Len(stream) + Len(m)
        /\ \A i \in 1..Len(stream) + Len(m) :
              stream'[i] = IF i <= Len(stream) THEN stream[i] ELSE m[i - Len(stream)]
    BY <2>1, <2>5, <1>a, ConcatProperties DEF m, TypeOK
  <2>7. \A i \in 1..Len(stream') : stream'[i].frame <= Len(sizes')
    <3> SUFFICES ASSUME NEW i \in 1..Len(stream') PROVE stream'[i].frame <= Len(sizes')
      OBVIOUS
    <3>1. CASE i <= Len(stream)
      <4>1. stream'[i] = stream[i] /\ i \in 1..Len(stream)
        BY <3>1, <2>6, <1>b
      <4>2. stream[i].frame \in Nat
        BY <4>1, <1>a, ElementOfSeq, ByteFrame DEF TypeOK
      <4> QED
        BY <4>1, <4>2, <2>2, <1>a, <1>b DEF Written
    <3>2. CASE ~(i <= Len(stream))
      <4>1. i - Len(stream) \in 1..HeadLen + n
        BY <3>2, <2>3, <2>5, <2>6, <1>b
      <4>2. i \in 1..Len(stream) + Len(m)
        BY <2>6
      <4>3. stream'[i] = m[i - Len(stream)] /\ m[i - Len(stream)].frame = Len(sizes) + 1
        BY <3>2, <4>1, <4>2, <2>5, <2>6
      <4>4. Len(sizes) + 1 <= Len(sizes')
        BY <2>2, <1>b
      <4> QED
        BY <4>3, <4>4
    <3> QED
      BY <3>1, <3>2
  <2>8. \A i \in 1..Len(buff') : buff'[i].frame <= Len(sizes')
    <3> SUFFICES ASSUME NEW i \in 1..Len(buff) PROVE buff[i].frame <= Len(sizes')
      BY <2>1
    <3>1. buff[i].frame \in Nat
      BY <1>a, ElementOfSeq, ByteFrame DEF TypeOK
    <3> QED
      BY <3>1, <2>2, <1>a, <1>b DEF Written
  <2>9. TypeOK'
    BY <2>1, <2>2, <2>6, <1>a DEF TypeOK
  <2> QED
    BY <2>1, <2>2, <2>7, <2>8, <2>9, <1>a, <1>b DEF TypeInv, Written, Reading
<1>2. CASE Close \/ Authenticated
  BY <1>2, <1>a DEF Close, Authenticated, TypeInv, TypeOK, Written, Reading
<1>3. CASE Lose
  <2>1. /\ stream' = SubSeq(stream, 1, Len(stream) - 1) /\ stream # <<>>
        /\ closed' = TRUE /\ trouble' = TRUE
        /\ UNCHANGED <<sizes, headed, sock, pc, buff, want, delivered>>
    BY <1>3 DEF Lose
  <2>2. stream' \in Seq(Byte) /\ Len(stream') <= Len(stream)
        /\ \A i \in 1..Len(stream') : stream'[i] = stream[i]
    <3>1. Len(stream) - 1 \in 0..Len(stream)
      BY <2>1, <1>a, <1>b, EmptySeq DEF TypeOK
    <3>2. \A i \in 1..Len(stream) : stream[i] \in Byte
      BY <1>a, ElementOfSeq DEF TypeOK
    <3> QED
      BY <2>1, <3>1, <3>2, <1>a, <1>b, SubSeqProperties DEF TypeOK
  <2> QED
    BY <2>1, <2>2, <1>a, <1>b DEF TypeInv, TypeOK, Written, Reading
<1>4. CASE Call
  <2>1. buff' = <<>> /\ buff' \in Seq(Byte) /\ Len(buff') = 0
    BY <1>4, EmptySeq DEF Call
  <2>2. UNCHANGED <<sizes, stream, closed, headed, sock, want, delivered, trouble>>
        /\ pc' \in {"head", "one"}
    BY <1>4 DEF Call
  <2> QED
    BY <2>1, <2>2, <1>a DEF TypeInv, TypeOK, Written, Reading
<1>5. CASE RecvOne
  <2>1. PICK k \in 1..Least(Len(stream), BuffSize) :
           /\ Take(k) /\ buff' = Taken(k)
           /\ \/ k < BuffSize /\ Deliver(buff')
              \/ k = BuffSize /\ pc' = "idle" /\ UNCHANGED delivered
           /\ trouble' = (trouble \/ buff' # Message(1, sizes[1]))
    BY <1>5 DEF RecvOne
  <2>2. UNCHANGED <<sizes, closed, headed, sock, want>>
    BY <1>5 DEF RecvOne
  <2>3. k \in 1..Len(stream) /\ k <= BuffSize
    BY <2>1, <1>a, <1>b DEF Least
  <2>4. /\ buff' \in Seq(Byte) /\ Len(buff') = k
        /\ \A i \in 1..k : buff'[i] = stream[i] /\ i \in 1..Len(stream)
    <3>1. /\ Taken(k) \in Seq(Byte) /\ Len(Taken(k)) = k
          /\ \A i \in 1..k : Taken(k)[i] = stream[i]
      BY <2>3, TakenBytes
    <3>2. \A i \in 1..k : i \in 1..Len(stream)
      BY <2>3, <1>b
    <3>3. buff' = Taken(k)
      BY <2>1
    <3> QED
      BY <3>1, <3>2, <3>3
  <2>5. /\ stream' \in Seq(Byte)
        /\ \A i \in 1..Len(stream') : stream'[i].frame <= Len(sizes')
    BY <2>1, <2>2, <2>3, TakeKeeps
  <2>6. pc' = "idle" /\ delivered' \in Seq(Seq(Byte))
    <3>1. delivered \in Seq(Seq(Byte)) /\ buff' \in Seq(Byte)
      BY <2>4, <1>a DEF TypeOK
    <3>2. Append(delivered, buff') \in Seq(Seq(Byte))
      BY <3>1, AppendOne
    <3> QED
      BY <2>1, <3>1, <3>2 DEF Deliver
  <2>7. trouble' \in BOOLEAN
    BY <2>1, <1>a DEF TypeOK
  <2>8. TypeOK'
    BY <2>2, <2>3, <2>4, <2>5, <2>6, <2>7, <1>a DEF TypeOK
  <2> QED
    BY <2>2, <2>4, <2>5, <2>6, <2>8, <1>a DEF TypeInv, Written, Reading
<1>6. CASE RecvHead
  <2>1. PICK k \in 1..Least(Len(stream), HeadLen - Len(buff)) :
           /\ Take(k) /\ buff' = buff \o Taken(k)
           /\ \/ /\ ~Complete(buff', HeadLen)
                 /\ UNCHANGED <<pc, want>>
              \/ /\ Complete(buff', HeadLen)
                 /\ want' \in LengthIn(buff')
                 /\ pc' = "body"
              \/ /\ Complete(buff', HeadLen)
                 /\ pc' = "idle"
                 /\ UNCHANGED want
    BY <1>6 DEF RecvHead
  <2>2. UNCHANGED <<sizes, closed, headed, sock, delivered, trouble>> /\ pc = "head"
    BY <1>6 DEF RecvHead
  <2>3. k \in 1..Len(stream) /\ k <= HeadLen - Len(buff)
    <3>1. HeadLen - Len(buff) \in Int
      BY <1>a, <1>b
    <3> QED
      BY <2>1, <3>1, <1>b DEF Least
  <2>4. /\ buff' \in Seq(Byte) /\ Len(buff') = Len(buff) + k
        /\ \A i \in 1..Len(buff') : buff'[i].frame <= Len(sizes)
    BY <2>1, <2>3, MoreBytes
  <2>5. /\ stream' \in Seq(Byte)
        /\ \A i \in 1..Len(stream') : stream'[i].frame <= Len(sizes')
    BY <2>1, <2>2, <2>3, TakeKeeps
  <2>6. want' \in 0..MaxBody
    <3>1. CASE want' \in LengthIn(buff')
      <4>1. 1 \in 1..Len(buff')
        BY <2>3, <2>4, <1>b
      <4>2. buff'[1].frame \in 1..Len(sizes)
        <5>1. buff'[1] \in Byte
          BY <4>1, <2>4, ElementOfSeq
        <5> QED
          BY <4>1, <5>1, <2>4, <1>b, ByteFrame
      <4>3. sizes[buff'[1].frame] \in 1..MaxBody
        BY <4>2, <1>a, ElementOfSeq DEF TypeOK
      <4> QED
        BY <3>1, <4>3, <1>a DEF LengthIn
    <3> QED
      BY <2>1, <3>1, <1>a DEF TypeOK
  <2>7. Len(buff') <= HeadLen /\ Len(buff') <= BuffSize
    BY <2>3, <2>4, <1>a, <1>b
  <2>8. TypeOK'
    BY <2>1, <2>2, <2>4, <2>5, <2>6, <2>7, <1>a DEF TypeOK
  <2>9. Reading'
    <3>1. Len(buff') \in Nat /\ want' \in Nat
      BY <2>4, <2>6, <1>a
    <3>2. CASE ~Complete(buff', HeadLen)
      BY <2>1, <2>2, <2>7, <3>1, <3>2, <1>a DEF Reading, Complete
    <3>3. CASE Complete(buff', HeadLen)
      <4>1. Len(buff') = HeadLen /\ pc' \in {"body", "idle"}
        BY <2>1, <3>3 DEF Complete
      <4> QED
        <5> DEFINE w == want'
        <5>0. w \in Nat
          BY <3>1
        <5>1. HeadLen \in Nat
          BY <1>a
        <5> HIDE DEF w
        <5>a. HeadLen <= HeadLen /\ (HeadLen < HeadLen + w \/ w = 0)
          BY <5>0, <5>1
        <5>2. HeadLen <= Len(buff') /\ (HeadLen < HeadLen + want' \/ want' = 0)
          BY <4>1, <5>a DEF w
        <5>3. pc' # "head"
          BY <4>1
        <5> QED
          BY <4>1, <5>2, <5>3 DEF Reading
    <3> QED
      BY <3>2, <3>3
  <2> QED
    BY <2>2, <2>4, <2>5, <2>8, <2>9, <1>a DEF TypeInv, Written
<1>7. CASE RecvBody
  <2>1. PICK k \in 1..Least(Len(stream), HeadLen + want - Len(buff)) :
           /\ Take(k) /\ buff' = buff \o Taken(k)
           /\ \/ /\ ~Complete(buff', HeadLen + want)
                 /\ UNCHANGED <<pc, delivered>>
              \/ /\ Complete(buff', HeadLen + want)
                 /\ Deliver(buff')
    BY <1>7 DEF RecvBody
  <2>2. UNCHANGED <<sizes, closed, headed, sock, want, trouble>> /\ pc = "body"
    BY <1>7 DEF RecvBody
  <2>3. k \in 1..Len(stream) /\ k <= HeadLen + want - Len(buff)
    <3>1. HeadLen + want - Len(buff) \in Int
      BY <1>a, <1>b DEF TypeOK
    <3> QED
      BY <2>1, <3>1, <1>b DEF Least
  <2>4. /\ buff' \in Seq(Byte) /\ Len(buff') = Len(buff) + k
        /\ \A i \in 1..Len(buff') : buff'[i].frame <= Len(sizes)
    BY <2>1, <2>3, MoreBytes
  <2>5. /\ stream' \in Seq(Byte)
        /\ \A i \in 1..Len(stream') : stream'[i].frame <= Len(sizes')
    BY <2>1, <2>2, <2>3, TakeKeeps
  <2>6. Len(buff') <= HeadLen + want /\ Len(buff') <= BuffSize /\ HeadLen <= Len(buff')
    BY <2>2, <2>3, <2>4, <1>a, <1>b DEF TypeOK, Reading
  <2>7. delivered' \in Seq(Seq(Byte)) /\ pc' \in {"idle", "body"}
    <3>1. delivered \in Seq(Seq(Byte)) /\ buff' \in Seq(Byte)
      BY <2>4, <1>a DEF TypeOK
    <3>2. Append(delivered, buff') \in Seq(Seq(Byte))
      BY <3>1, AppendOne
    <3> QED
      BY <2>1, <2>2, <3>1, <3>2 DEF Deliver
  <2>8. TypeOK'
    BY <2>2, <2>4, <2>5, <2>6, <2>7, <1>a DEF TypeOK
  <2>9. Reading'
    <3>1. Len(buff') \in Nat /\ want \in Nat /\ want' = want
      BY <2>2, <2>4, <1>a DEF TypeOK
    <3>2. CASE ~Complete(buff', HeadLen + want)
      <4>1. HeadLen + want \in Nat /\ HeadLen \in Nat
        BY <3>1, <1>a
      <4>2. Len(buff') # HeadLen + want /\ pc' = "body"
        BY <2>1, <2>2, <3>2 DEF Complete
      <4>3. Len(buff') < HeadLen + want
        BY <2>6, <3>1, <4>1, <4>2
      <4> QED
        BY <2>6, <3>1, <4>2, <4>3 DEF Reading
    <3>3. CASE Complete(buff', HeadLen + want)
      BY <2>1, <3>3 DEF Reading, Deliver
    <3> QED
      BY <3>2, <3>3
  <2> QED
    BY <2>2, <2>4, <2>5, <2>8, <2>9, <1>a DEF TypeInv, Written
<1>8. CASE RecvFails
  <2>1. UNCHANGED <<sizes, stream, closed, headed, buff, want>> /\ pc' = "idle"
    BY <1>8 DEF RecvFails, Deliver
  <2>2. sock' \in BOOLEAN /\ trouble' \in BOOLEAN
    BY <1>8, <1>a DEF RecvFails, TypeOK
  <2>3. delivered' \in Seq(Seq(Byte))
    <3>1. CASE pc = "body"
      <4>1. HeadLen - 1 \in 0..Len(buff)
        BY <3>1, <1>a, <1>b DEF Reading
      <4>2. \A i \in 1..Len(buff) : buff[i] \in Byte
        BY <1>a, ElementOfSeq DEF TypeOK
      <4>3. SubSeq(buff, 1, HeadLen - 1) \in Seq(Byte)
        BY <4>1, <4>2, <1>a, <1>b, SubSeqProperties DEF TypeOK
      <4>4. Append(delivered, SubSeq(buff, 1, HeadLen - 1)) \in Seq(Seq(Byte))
        BY <4>3, <1>a, AppendOne DEF TypeOK
      <4> QED
        BY <3>1, <4>4, <1>8 DEF RecvFails, Deliver
    <3> QED
      BY <3>1, <1>8, <1>a DEF RecvFails, TypeOK
  <2> QED
    BY <2>1, <2>2, <2>3, <1>a DEF TypeInv, TypeOK, Written, Reading
<1>9. CASE Rest \/ UNCHANGED vars
  BY <1>9, <1>a DEF Rest, vars, TypeInv, TypeOK, Written, Reading
<1> QED
  BY <1>1, <1>2, <1>3, <1>4, <1>5, <1>6, <1>7, <1>8, <1>9 DEF Next, Client

\* Type correctness of the receive loop, for any messages however they are cut,
\* lost or misread: a call reads no more than the length it took from the prefix
\* (tcp_io.c:466).  RecvAssumption leaves out the lengths that pass the check of
\* tcp_io.c:461 although the prefix is in the buffer already.
THEOREM RecvTypeCorrect == Spec => []TypeOK
<1>1. TypeInv => TypeOK
  BY DEF TypeInv
<1> QED
  BY TypeInvInit, TypeInvStep, <1>1, PTL DEF Spec

-----------------------------------------------------------------------------
(* Whole messages                                                            *)
(*                                                                           *)
(* The messages of the server lie end to end in what was sent.  Counted from *)
(* the next byte under way, message f starts at s[f], those read before it   *)
(* at negative places; d of them are delivered, and b bytes of the next one  *)
(* are read.                                                                 *)

Placed(s, z, st, d, b) ==
    /\ s \in [1..Len(z) + 1 -> Int]
    /\ \A f \in 1..Len(z) : s[f + 1] = s[f] + HeadLen + z[f]
    /\ \A f \in 1..Len(z) + 1 : s[f] <= Len(st) + 1
    /\ s[Len(z) + 1] = Len(st) + 1
    /\ d <= Len(z)
    /\ s[d + 1] = 1 - b
    /\ \A f \in 1..Len(z) : \A i \in 1..Len(st) :
          (s[f] <= i /\ i < s[f + 1]) => st[i] = [frame |-> f, pos |-> i - s[f] + 1]

\* What is under way continues the message that is being read.
LEMMA PlacedNext ==
  ASSUME NEW z \in Seq(1..MaxBody), NEW st \in Seq(Byte), NEW d \in Nat, NEW b \in Nat,
         NEW s, Placed(s, z, st, d, b), Len(st) > 0
  PROVE  /\ d < Len(z)
         /\ \A i \in 1..Len(st) :
               i + b <= HeadLen + z[d + 1] => st[i] = [frame |-> d + 1, pos |-> i + b]
<1>1. Len(z) \in Nat /\ Len(st) \in Nat /\ HeadLen \in Nat
  BY RecvAssumption
<1>2. d <= Len(z) /\ s[Len(z) + 1] = Len(st) + 1 /\ s[d + 1] = 1 - b
  BY DEF Placed
<1>3. d # Len(z)
  BY <1>1, <1>2
<1>4. d < Len(z) /\ d + 1 \in 1..Len(z)
  BY <1>1, <1>2, <1>3
<1>5. z[d + 1] \in 1..MaxBody
  BY <1>4, ElementOfSeq
<1> SUFFICES ASSUME NEW i \in 1..Len(st), i + b <= HeadLen + z[d + 1]
             PROVE  st[i] = [frame |-> d + 1, pos |-> i + b]
  BY <1>4
<1>6. s[d + 1 + 1] = s[d + 1] + HeadLen + z[d + 1]
  BY <1>4 DEF Placed
<1>7. z[d + 1] \in Int
  BY <1>5, RecvAssumption
<1>8. s[d + 1] <= i /\ i < s[d + 1 + 1]
  BY <1>1, <1>2, <1>6, <1>7, SMTT(30)
<1>9. st[i] = [frame |-> d + 1, pos |-> i - s[d + 1] + 1]
  BY <1>4, <1>8 DEF Placed
<1>10. i - s[d + 1] + 1 = i + b
  BY <1>1, <1>2
<1> QED
  BY <1>9, <1>10

\* With nothing under way no message is read in part.
LEMMA PlacedEmpty ==
  ASSUME NEW z \in Seq(1..MaxBody), NEW st \in Seq(Byte), NEW d \in Nat, NEW b \in Nat,
         NEW s, Placed(s, z, st, d, b), Len(st) = 0
  PROVE  /\ d = Len(z) => b = 0
         /\ d < Len(z) => b >= HeadLen + z[d + 1]
<1>1. Len(z) \in Nat /\ HeadLen \in Nat
  BY RecvAssumption
<1>2. d <= Len(z) /\ s[Len(z) + 1] = 1 /\ s[d + 1] = 1 - b
  BY DEF Placed
<1>3. d = Len(z) => b = 0
  BY <1>1, <1>2
<1>4. ASSUME d < Len(z) PROVE b >= HeadLen + z[d + 1]
  <2>1. d + 1 \in 1..Len(z) /\ d + 1 + 1 \in 1..Len(z) + 1
    BY <1>1, <1>4
  <2>2. s[d + 1 + 1] = s[d + 1] + HeadLen + z[d + 1] /\ s[d + 1 + 1] <= 1
    BY <2>1 DEF Placed
  <2>3. z[d + 1] \in Int
    BY <2>1, ElementOfSeq, RecvAssumption
  <2> QED
    BY <1>1, <1>2, <2>2, <2>3
<1> QED
  BY <1>3, <1>4

\* recv() takes k bytes.
LEMMA PlacedTake ==
  ASSUME NEW z \in Seq(1..MaxBody), NEW st \in Seq(Byte), NEW d \in Nat, NEW b \in Nat,
         NEW s, Placed(s, z, st, d, b),
         NEW k \in 1..Len(st), NEW tk \in Seq(Byte), Len(tk) = Len(st) - k,
         \A i \in 1..Len(tk) : tk[i] = st[k + i]
  PROVE  \E t : Placed(t, z, tk, d, b + k)
<1> DEFINE t == [f \in 1..Len(z) + 1 |-> s[f] - k]
<1>1. Len(z) \in Nat /\ Len(st) \in Nat /\ HeadLen \in Nat /\ k \in Int
  BY RecvAssumption
<1>2. /\ s \in [1..Len(z) + 1 -> Int]
      /\ \A f \in 1..Len(z) : s[f + 1] = s[f] + HeadLen + z[f]
      /\ \A f \in 1..Len(z) + 1 : s[f] <= Len(st) + 1
      /\ s[Len(z) + 1] = Len(st) + 1 /\ d <= Len(z) /\ s[d + 1] = 1 - b
  BY DEF Placed
<1>3. \A f \in 1..Len(z) + 1 : s[f] \in Int /\ t[f] = s[f] - k
  BY <1>2
<1>4. t \in [1..Len(z) + 1 -> Int]
  BY <1>1, <1>3
<1> HIDE DEF t
<1>5. \A f \in 1..Len(z) : f \in 1..Len(z) + 1 /\ f + 1 \in 1..Len(z) + 1 /\ z[f] \in Int
  <2> SUFFICES ASSUME NEW f \in 1..Len(z)
               PROVE  f \in 1..Len(z) + 1 /\ f + 1 \in 1..Len(z) + 1 /\ z[f] \in Int
    OBVIOUS
  <2>1. z[f] \in 1..MaxBody
    BY ElementOfSeq
  <2>2. z[f] \in Int
    BY <2>1, RecvAssumption
  <2> QED
    BY <2>2, <1>1
<1>6. \A f \in 1..Len(z) : t[f + 1] = t[f] + HeadLen + z[f]
  <2> SUFFICES ASSUME NEW f \in 1..Len(z) PROVE t[f + 1] = t[f] + HeadLen + z[f]
    OBVIOUS
  <2>1. t[f] = s[f] - k /\ t[f + 1] = s[f + 1] - k /\ s[f] \in Int /\ z[f] \in Int
    BY <1>3, <1>5
  <2>2. s[f + 1] = s[f] + HeadLen + z[f]
    BY <1>2
  <2> QED
    BY <2>1, <2>2, <1>1, SMTT(30)
<1>7. \A f \in 1..Len(z) + 1 : t[f] <= Len(tk) + 1
  BY <1>1, <1>2, <1>3
<1>8. t[Len(z) + 1] = Len(tk) + 1
  <2>1. Len(z) + 1 \in 1..Len(z) + 1
    BY <1>1
  <2>2. t[Len(z) + 1] = s[Len(z) + 1] - k /\ s[Len(z) + 1] = Len(st) + 1
    BY <2>1, <1>2, <1>3
  <2> QED
    BY <2>2, <1>1
<1>9. t[d + 1] = 1 - (b + k)
  <2>1. d + 1 \in 1..Len(z) + 1
    BY <1>1, <1>2
  <2>2. t[d + 1] = s[d + 1] - k /\ s[d + 1] = 1 - b
    BY <2>1, <1>2, <1>3
  <2> QED
    BY <2>2, <1>1
<1>10. ASSUME NEW f \in 1..Len(z), NEW i \in 1..Len(tk), t[f] <= i, i < t[f + 1]
       PROVE  tk[i] = [frame |-> f, pos |-> i - t[f] + 1]
  <2>1. t[f] = s[f] - k /\ t[f + 1] = s[f + 1] - k /\ s[f] \in Int /\ s[f + 1] \in Int
    BY <1>3, <1>5
  <2>2. k + i \in 1..Len(st) /\ s[f] <= k + i /\ k + i < s[f + 1]
    BY <1>1, <2>1, <1>10, SMTT(30)
  <2> DEFINE j == k + i
  <2>3. j \in 1..Len(st) /\ s[f] <= j /\ j < s[f + 1]
    BY <2>2
  <2>4. j - s[f] + 1 = i - t[f] + 1 /\ tk[i] = st[j]
    BY <1>1, <2>1
  <2> HIDE DEF j
  <2>5. st[j] = [frame |-> f, pos |-> j - s[f] + 1]
    BY <2>3 DEF Placed
  <2> QED
    BY <2>4, <2>5
<1>11. Placed(t, z, tk, d, b + k)
  BY <1>2, <1>4, <1>6, <1>7, <1>8, <1>9, <1>10 DEF Placed
<1> QED
  BY <1>11

\* A message is read to its end.
LEMMA PlacedPass ==
  ASSUME NEW z \in Seq(1..MaxBody), NEW st \in Seq(Byte), NEW d \in Nat, NEW b \in Nat,
         NEW s, Placed(s, z, st, d, b), d < Len(z), b = HeadLen + z[d + 1]
  PROVE  Placed(s, z, st, d + 1, 0)
<1>1. Len(z) \in Nat /\ HeadLen \in Nat
  BY RecvAssumption
<1>2. d + 1 \in 1..Len(z) /\ d + 1 <= Len(z)
  BY <1>1
<1>3. z[d + 1] \in Int
  BY <1>2, ElementOfSeq, RecvAssumption
<1>4. s[d + 1 + 1] = s[d + 1] + HeadLen + z[d + 1] /\ s[d + 1] = 1 - b
  BY <1>2 DEF Placed
<1>5. s[d + 1 + 1] = 1 - 0
  BY <1>1, <1>3, <1>4, SMTT(30)
<1> QED
  BY <1>2, <1>5 DEF Placed

LEMMA MessageBytes ==
  ASSUME NEW f \in 1..MaxFrames, NEW n \in 0..MaxBody
  PROVE  /\ Message(f, n) \in Seq(Byte) /\ Len(Message(f, n)) = HeadLen + n
         /\ \A j \in 1..HeadLen + n : Message(f, n)[j] = [frame |-> f, pos |-> j]
<1>1. HeadLen + n \in Nat
  BY RecvAssumption
<1>2. \A j \in 1..HeadLen + n : [frame |-> f, pos |-> j] \in Byte
  BY RecvAssumption DEF Byte
<1> QED
  BY <1>1, <1>2 DEF Message

\* A sequence that reads like a message is that message.
LEMMA IsMessage ==
  ASSUME NEW f \in 1..MaxFrames, NEW n \in 0..MaxBody, NEW m \in Seq(Byte),
         Len(m) = HeadLen + n,
         \A j \in 1..HeadLen + n : m[j] = [frame |-> f, pos |-> j]
  PROVE  m = Message(f, n)
<1>1. Message(f, n) \in Seq(Byte) /\ Len(Message(f, n)) = Len(m)
      /\ \A j \in 1..Len(m) : Message(f, n)[j] = m[j]
  BY MessageBytes
<1> QED
  BY <1>1, SeqEqual

\* The server writes a message of n bytes.
LEMMA PlacedWrite ==
  ASSUME NEW z \in Seq(1..MaxBody), NEW st \in Seq(Byte), NEW d \in Nat, NEW b \in Nat,
         NEW s, Placed(s, z, st, d, b), NEW n \in 1..MaxBody, Len(z) < MaxFrames
  PROVE  \E t : Placed(t, Append(z, n), st \o Message(Len(z) + 1, n), d, b)
<1> DEFINE L == Len(z)
           m == Message(L + 1, n)
           y == Append(z, n)
           sm == st \o m
           t == [f \in 1..L + 2 |-> IF f <= L + 1 THEN s[f] ELSE Len(st) + 1 + HeadLen + n]
<1>1. L \in Nat /\ Len(st) \in Nat /\ HeadLen \in Nat /\ n \in Nat
  BY RecvAssumption
<1>2. L + 1 \in 1..MaxFrames /\ n \in 0..MaxBody
  BY <1>1, RecvAssumption
<1>3. m \in Seq(Byte) /\ Len(m) = HeadLen + n
      /\ \A j \in 1..HeadLen + n : m[j] = [frame |-> L + 1, pos |-> j]
  BY <1>2, MessageBytes
<1>4. Len(y) = L + 1 /\ (\A f \in 1..L : y[f] = z[f]) /\ y[L + 1] = n
  BY AppendOne
<1>5. /\ s \in [1..L + 1 -> Int]
      /\ \A f \in 1..L : s[f + 1] = s[f] + HeadLen + z[f]
      /\ \A f \in 1..L + 1 : s[f] <= Len(st) + 1
      /\ s[L + 1] = Len(st) + 1 /\ d <= L /\ s[d + 1] = 1 - b
      /\ \A f \in 1..L : \A i \in 1..Len(st) :
            (s[f] <= i /\ i < s[f + 1]) => st[i] = [frame |-> f, pos |-> i - s[f] + 1]
  BY DEF Placed
<1>6. /\ \A f \in 1..L + 1 : t[f] = s[f] /\ s[f] \in Int
      /\ t[L + 2] = Len(st) + 1 + HeadLen + n
      /\ t \in [1..L + 2 -> Int]
  <2>1. \A f \in 1..L + 1 : t[f] = s[f] /\ s[f] \in Int
    BY <1>1, <1>5
  <2>2. t[L + 2] = Len(st) + 1 + HeadLen + n
    BY <1>1
  <2>3. \A f \in 1..L + 2 :
           (IF f <= L + 1 THEN s[f] ELSE Len(st) + 1 + HeadLen + n) \in Int
    <3>1. Len(st) + 1 + HeadLen + n \in Int
      BY <1>1
    <3>2. \A f \in 1..L + 2 : f <= L + 1 => f \in 1..L + 1
      BY <1>1
    <3> HIDE DEF L
    <3> QED
      BY <2>1, <3>1, <3>2
  <2>4. t \in [1..L + 2 -> Int]
    BY <2>3
  <2> QED
    BY <2>1, <2>2, <2>4
<1> HIDE DEF t, m, y, L
<1>7. /\ Len(sm) = Len(st) + HeadLen + n
      /\ \A i \in 1..Len(st) + (HeadLen + n) :
            sm[i] = IF i <= Len(st) THEN st[i] ELSE m[i - Len(st)]
  <2>1. /\ Len(sm) = Len(st) + Len(m)
        /\ \A i \in 1..Len(st) + Len(m) :
              sm[i] = IF i <= Len(st) THEN st[i] ELSE m[i - Len(st)]
    BY <1>3, ConcatProperties
  <2> QED
    BY <2>1, <1>1, <1>3
<1> HIDE DEF sm
<1>8. t \in [1..Len(y) + 1 -> Int]
  <2>1. Len(y) + 1 = L + 2
    BY <1>1, <1>4
  <2> QED
    BY <2>1, <1>6
<1>9. ASSUME NEW f \in 1..Len(y) PROVE t[f + 1] = t[f] + HeadLen + y[f]
  <2>1. CASE f \in 1..L
    <3>1. f + 1 \in 1..L + 1 /\ f \in 1..L + 1
      BY <2>1, <1>1
    <3> QED
      BY <2>1, <3>1, <1>4, <1>5, <1>6
  <2>2. CASE f = L + 1
    <3>1. f + 1 = L + 2 /\ L + 1 \in 1..L + 1
      BY <2>2, <1>1
    <3>2. t[f] = Len(st) + 1 /\ t[f + 1] = Len(st) + 1 + HeadLen + n /\ y[f] = n
      BY <2>2, <3>1, <1>4, <1>5, <1>6
    <3> QED
      BY <3>2
  <2> QED
    BY <2>1, <2>2, <1>1, <1>4
<1>10. ASSUME NEW f \in 1..Len(y) + 1 PROVE t[f] <= Len(sm) + 1
  <2>1. CASE f \in 1..L + 1
    <3>1. t[f] = s[f] /\ s[f] \in Int /\ s[f] <= Len(st) + 1
      BY <2>1, <1>5, <1>6
    <3> QED
      BY <3>1, <1>1, <1>7
  <2>2. CASE f = L + 2
    BY <2>2, <1>1, <1>6, <1>7
  <2> QED
    BY <2>1, <2>2, <1>1, <1>4
<1>11. t[Len(y) + 1] = Len(sm) + 1
  <2>1. Len(y) + 1 = L + 2
    BY <1>1, <1>4
  <2> QED
    BY <2>1, <1>1, <1>6, <1>7
<1>12. d <= Len(y) /\ t[d + 1] = 1 - b
  <2>1. d + 1 \in 1..L + 1 /\ d <= Len(y)
    BY <1>1, <1>4, <1>5
  <2> QED
    BY <2>1, <1>5, <1>6
<1>13. ASSUME NEW f \in 1..Len(y), NEW i \in 1..Len(sm), t[f] <= i, i < t[f + 1]
       PROVE  sm[i] = [frame |-> f, pos |-> i - t[f] + 1]
  <2>1. CASE f \in 1..L
    <3>1. f + 1 \in 1..L + 1 /\ f \in 1..L + 1
      BY <2>1, <1>1
    <3>2. t[f] = s[f] /\ t[f + 1] = s[f + 1] /\ s[f + 1] \in Int /\ s[f + 1] <= Len(st) + 1
      BY <3>1, <1>5, <1>6
    <3>3. i \in 1..Len(st) /\ i \in 1..Len(st) + (HeadLen + n) /\ i <= Len(st)
      BY <3>2, <1>1, <1>7, <1>13, SMTT(30)
    <3>4. sm[i] = st[i]
      BY <3>3, <1>7
    <3> QED
      BY <2>1, <3>2, <3>3, <3>4, <1>5, <1>13
  <2>2. CASE f = L + 1
    <3>1. L + 1 \in 1..L + 1
      BY <1>1
    <3>2. t[f] = Len(st) + 1
      BY <2>2, <3>1, <1>5, <1>6
    <3>3. ~(i <= Len(st)) /\ i \in 1..Len(st) + (HeadLen + n)
          /\ i - Len(st) \in 1..HeadLen + n
      BY <3>2, <1>1, <1>7, <1>13, SMTT(30)
    <3>4. sm[i] = [frame |-> L + 1, pos |-> i - Len(st)]
      BY <3>3, <1>3, <1>7
    <3>5. i - t[f] + 1 = i - Len(st)
      BY <3>2, <1>1
    <3> QED
      BY <2>2, <3>4, <3>5
  <2> QED
    BY <2>1, <2>2, <1>1, <1>4
<1>14. Placed(t, y, sm, d, b)
  BY <1>8, <1>9, <1>10, <1>11, <1>12, <1>13 DEF Placed
<1> QED
  BY <1>14 DEF y, sm, m, L

\* The bytes of the message that is being read.
Partial == IF pc = "idle" THEN 0 ELSE Len(buff)

Lies(s) == Placed(s, sizes, stream, Len(delivered), Partial)

Steady ==
    /\ WholeMessagesInOrder
    /\ pc = "one" => delivered = <<>> /\ buff = <<>>
    /\ pc = "body" => /\ Len(delivered) < Len(sizes)
                      /\ want = sizes[Len(delivered) + 1]
    /\ pc # "idle" => \A j \in 1..Len(buff) :
                         buff[j] = [frame |-> Len(delivered) + 1, pos |-> j]
    /\ \E s : Lies(s)

WholeInv == TypeInv /\ (~trouble => Steady)

LEMMA WholeInvInit == Init => WholeInv
<1> SUFFICES ASSUME Init PROVE WholeInv
  OBVIOUS
<1>1. TypeInv
  BY TypeInvInit
<1>2. sizes = <<>> /\ stream = <<>> /\ delivered = <<>> /\ pc = "idle"
  BY DEF Init
<1>3. Len(sizes) = 0 /\ Len(stream) = 0 /\ Len(delivered) = 0
  BY <1>2, EmptySeq
<1> DEFINE t == [f \in 1..1 |-> 1]
<1>4. Placed(t, sizes, stream, 0, 0)
  <2>1. t \in [1..0 + 1 -> Int] /\ t[0 + 1] = 1
    OBVIOUS
  <2> HIDE DEF t
  <2>2. \A f \in 1..0 + 1 : t[f] <= 0 + 1
    BY <2>1
  <2> QED
    BY <1>3, <2>1, <2>2 DEF Placed
<1>5. Lies(t)
  BY <1>2, <1>3, <1>4 DEF Lies, Partial
<1> QED
  BY <1>1, <1>2, <1>3, <1>5 DEF WholeInv, Steady, WholeMessagesInOrder

\* What every step may use.
LEMMA SteadyFacts ==
  ASSUME WholeInv
  PROVE  /\ sizes \in Seq(1..MaxBody) /\ Len(sizes) \in Nat /\ Len(sizes) <= MaxFrames
         /\ stream \in Seq(Byte) /\ Len(stream) \in Nat
         /\ buff \in Seq(Byte) /\ Len(buff) \in Nat /\ Partial \in Nat
         /\ delivered \in Seq(Seq(Byte)) /\ Len(delivered) \in Nat
         /\ want \in Nat
         /\ \A f \in 1..Len(sizes) : sizes[f] \in 1..MaxBody /\ sizes[f] \in Nat
         /\ HeadLen \in Nat /\ HeadLen > 0 /\ MaxBody \in Nat /\ MaxFrames \in Nat
         /\ BuffSize \in Nat /\ BuffSize > HeadLen + MaxBody
<1>1. TypeOK /\ Len(sizes) <= MaxFrames
  BY DEF WholeInv, TypeInv
<1>2. HeadLen \in Nat /\ HeadLen > 0 /\ MaxBody \in Nat /\ MaxFrames \in Nat
      /\ BuffSize \in Nat /\ BuffSize > HeadLen + MaxBody
  BY RecvAssumption
<1>3. sizes \in Seq(1..MaxBody) /\ stream \in Seq(Byte) /\ buff \in Seq(Byte)
      /\ delivered \in Seq(Seq(Byte)) /\ want \in 0..MaxBody
  BY <1>1 DEF TypeOK
<1>4. \A f \in 1..Len(sizes) : sizes[f] \in 1..MaxBody /\ sizes[f] \in Nat
  BY <1>2, <1>3, ElementOfSeq
<1>5. want \in Nat
  BY <1>2, <1>3
<1>6. Len(sizes) \in Nat /\ Len(stream) \in Nat /\ Len(buff) \in Nat /\ Len(delivered) \in Nat
  BY <1>3
<1>7. Partial \in Nat
  BY <1>6 DEF Partial
<1> QED
  BY <1>1, <1>2, <1>3, <1>4, <1>5, <1>6, <1>7

\* The message that is read to its end is the next one.
LEMMA NextIsWhole ==
  ASSUME WholeInv, Steady, NEW m \in Seq(Byte), Len(delivered) < Len(sizes),
         Len(m) = HeadLen + sizes[Len(delivered) + 1],
         \A j \in 1..Len(m) : m[j] = [frame |-> Len(delivered) + 1, pos |-> j],
         delivered' = Append(delivered, m), UNCHANGED sizes
  PROVE  WholeMessagesInOrder' /\ Len(delivered') = Len(delivered) + 1
<1> DEFINE d == Len(delivered)
<1>1. d + 1 \in 1..MaxFrames /\ d + 1 \in 1..Len(sizes) /\ d \in Nat
  BY SteadyFacts, SMTT(30)
<1>2. sizes[d + 1] \in 0..MaxBody
  BY <1>1, SteadyFacts
<1>3. m = Message(d + 1, sizes[d + 1])
  BY <1>1, <1>2, IsMessage
<1>4. /\ Len(delivered') = d + 1 /\ \A i \in 1..d : delivered'[i] = delivered[i]
      /\ delivered'[d + 1] = m
  BY SteadyFacts, AppendOne
<1>5. \A k \in 1..d : k <= Len(sizes) /\ delivered[k] = Message(k, sizes[k])
  BY DEF Steady, WholeMessagesInOrder
<1> HIDE DEF d
<1>6. ASSUME NEW k \in 1..d + 1
      PROVE  k <= Len(sizes) /\ delivered'[k] = Message(k, sizes[k])
  <2>1. CASE k \in 1..d
    BY <2>1, <1>4, <1>5
  <2>2. CASE k = d + 1
    <3>1. k <= Len(sizes)
      BY <2>2, <1>1
    <3>2. delivered'[k] = m /\ m = Message(k, sizes[k])
      BY <2>2, <1>3, <1>4
    <3> QED
      BY <3>1, <3>2
  <2>3. d \in Nat
    BY <1>1
  <2>4. k \in 1..d \/ k = d + 1
    BY <2>3
  <2> QED
    BY <2>1, <2>2, <2>4
<1>7. WholeMessagesInOrder'
  BY <1>4, <1>6 DEF WholeMessagesInOrder
<1> QED
  BY <1>4, <1>7 DEF d

LEMMA SteadyWrite ==
  ASSUME WholeInv, Steady, NEW n \in 1..MaxBody, Write(n)
  PROVE  Steady'
<1>1. /\ sizes' = Append(sizes, n) /\ stream' = stream \o Message(Len(sizes) + 1, n)
      /\ Len(sizes) < MaxFrames
      /\ UNCHANGED <<pc, buff, want, delivered>>
  BY DEF Write
<1>2. /\ Len(sizes') = Len(sizes) + 1
      /\ \A i \in 1..Len(sizes) : sizes'[i] = sizes[i]
  BY <1>1, SteadyFacts, AppendOne
<1>3. PICK s : Lies(s)
  BY DEF Steady
<1>4. \E t : Placed(t, Append(sizes, n), stream \o Message(Len(sizes) + 1, n),
                    Len(delivered), Partial)
  BY <1>1, <1>3, SteadyFacts, PlacedWrite DEF Lies
<1>5. \E t : Lies(t)'
  BY <1>1, <1>4 DEF Lies, Partial
<1>6. WholeMessagesInOrder'
  <2> SUFFICES ASSUME NEW k \in 1..Len(delivered)
               PROVE  k <= Len(sizes') /\ delivered[k] = Message(k, sizes'[k])
    BY <1>1 DEF WholeMessagesInOrder
  <2>1. k <= Len(sizes) /\ delivered[k] = Message(k, sizes[k])
    BY DEF Steady, WholeMessagesInOrder
  <2>2. k \in 1..Len(sizes)
    BY <2>1, SteadyFacts
  <2> QED
    BY <2>1, <2>2, <1>2, SteadyFacts
<1>7. pc' = "body" => Len(delivered') < Len(sizes') /\ want' = sizes'[Len(delivered') + 1]
  <2> SUFFICES ASSUME pc = "body"
               PROVE  Len(delivered) < Len(sizes') /\ want = sizes'[Len(delivered) + 1]
    BY <1>1
  <2>1. Len(delivered) < Len(sizes) /\ want = sizes[Len(delivered) + 1]
    BY DEF Steady
  <2>2. Len(delivered) + 1 \in 1..Len(sizes)
    BY <2>1, SteadyFacts
  <2> QED
    BY <2>1, <2>2, <1>2, SteadyFacts, SMTT(30)
<1> QED
  BY <1>1, <1>5, <1>6, <1>7 DEF Steady

LEMMA SteadyCall ==
  ASSUME WholeInv, Steady, Call
  PROVE  Steady'
<1>1. /\ pc = "idle" /\ pc' \in {"one", "head"} /\ buff' = <<>>
      /\ pc' = "one" => delivered = <<>>
      /\ UNCHANGED <<sizes, stream, want, delivered>>
  BY DEF Call, Steady
<1>2. Len(buff') = 0 /\ Partial = 0 /\ Partial' = 0
  BY <1>1, EmptySeq DEF Partial
<1>3. \E s : Lies(s)'
  BY <1>1, <1>2 DEF Steady, Lies
<1>4. WholeMessagesInOrder'
  BY <1>1 DEF Steady, WholeMessagesInOrder
<1> QED
  BY <1>1, <1>2, <1>3, <1>4 DEF Steady

LEMMA SteadyRecvOne ==
  ASSUME WholeInv, Steady, RecvOne, ~trouble'
  PROVE  Steady'
<1>1. PICK k \in 1..Least(Len(stream), BuffSize) :
         /\ Take(k) /\ buff' = Taken(k)
         /\ \/ k < BuffSize /\ Deliver(buff')
            \/ k = BuffSize /\ pc' = "idle" /\ UNCHANGED delivered
         /\ trouble' = (trouble \/ buff' # Message(1, sizes[1]))
  BY DEF RecvOne
<1>2. UNCHANGED <<sizes, want>> /\ pc = "one"
  BY DEF RecvOne
<1>3. k \in 1..Len(stream)
  BY <1>1, SteadyFacts DEF Least
<1>4. Taken(k) \in Seq(Byte) /\ Len(Taken(k)) = k
  BY <1>3, TakenBytes DEF WholeInv
<1>5. buff' = Message(1, sizes[1])
  BY <1>1
<1>6. delivered = <<>> /\ Len(delivered) = 0 /\ Partial = 0
  BY <1>2, EmptySeq DEF Steady, Partial
<1>7. PICK s : Placed(s, sizes, stream, 0, 0)
  BY <1>6 DEF Steady, Lies
<1>8. 0 < Len(sizes)
  BY <1>3, <1>7, SteadyFacts, PlacedNext
<1>9. 1 \in 1..Len(sizes) /\ 1 \in 1..MaxFrames /\ sizes[1] \in 0..MaxBody /\ sizes[1] \in Nat
  BY <1>8, SteadyFacts
<1>10. /\ Len(buff') = HeadLen + sizes[1]
       /\ \A j \in 1..HeadLen + sizes[1] : buff'[j] = [frame |-> 1, pos |-> j]
  BY <1>5, <1>9, MessageBytes
<1>11. k = HeadLen + sizes[1] /\ k < BuffSize
  BY <1>1, <1>4, <1>9, <1>10, SteadyFacts, SMTT(30)
<1>12. pc' = "idle" /\ delivered' = Append(delivered, buff') /\ buff' \in Seq(Byte)
  BY <1>1, <1>4, <1>11 DEF Deliver
<1>13. WholeMessagesInOrder' /\ Len(delivered') = 0 + 1
  BY <1>2, <1>6, <1>8, <1>10, <1>12, NextIsWhole
<1>14. /\ stream' \in Seq(Byte) /\ Len(stream') = Len(stream) - k
       /\ \A i \in 1..Len(stream') : stream'[i] = stream[k + i]
  BY <1>1, <1>2, <1>3, TakeKeeps DEF WholeInv
<1>15. PICK t : Placed(t, sizes, stream', 0, 0 + k)
  BY <1>3, <1>7, <1>14, SteadyFacts, PlacedTake
<1>16. 0 + k = HeadLen + sizes[0 + 1] /\ 0 + k \in Nat
  BY <1>3, <1>11
<1>17. Placed(t, sizes, stream', 0 + 1, 0)
  BY <1>8, <1>14, <1>15, <1>16, SteadyFacts, PlacedPass
<1>18. Lies(t)'
  BY <1>2, <1>12, <1>13, <1>17 DEF Lies, Partial
<1> QED
  BY <1>12, <1>13, <1>18 DEF Steady

\* A call that takes k bytes more of the message it is reading.
LEMMA SteadyMore ==
  ASSUME WholeInv, Steady, NEW k \in 1..Len(stream), Take(k), buff' = buff \o Taken(k),
         pc # "idle", UNCHANGED sizes,
         Len(delivered) < Len(sizes) =>
             Len(buff) + k <= HeadLen + sizes[Len(delivered) + 1]
  PROVE  /\ Len(delivered) < Len(sizes)
         /\ buff' \in Seq(Byte) /\ Len(buff') = Len(buff) + k
         /\ \A j \in 1..Len(buff') : buff'[j] = [frame |-> Len(delivered) + 1, pos |-> j]
         /\ \E t : Placed(t, sizes, stream', Len(delivered), Len(buff'))
<1> DEFINE d == Len(delivered)
           b == Len(buff)
<1>1. PICK s : Placed(s, sizes, stream, d, b)
  BY DEF Steady, Lies, Partial
<1>2. /\ d < Len(sizes)
      /\ \A i \in 1..Len(stream) :
            i + b <= HeadLen + sizes[d + 1] => stream[i] = [frame |-> d + 1, pos |-> i + b]
  <2>1. Len(stream) > 0
    BY SteadyFacts
  <2> HIDE DEF d, b
  <2>2. d \in Nat /\ b \in Nat
    BY SteadyFacts DEF d, b
  <2>3. sizes \in Seq(1..MaxBody) /\ stream \in Seq(Byte)
    BY SteadyFacts
  <2> QED
    BY <1>1, <2>1, <2>2, <2>3, PlacedNext, ZenonT(30)
<1>3. /\ buff' \in Seq(Byte) /\ Len(buff') = b + k
      /\ \A i \in 1..b : buff'[i] = buff[i]
      /\ \A i \in 1..k : buff'[b + i] = stream[i]
  BY MoreBytes DEF WholeInv
<1>4. /\ stream' \in Seq(Byte) /\ Len(stream') = Len(stream) - k
      /\ \A i \in 1..Len(stream') : stream'[i] = stream[k + i]
  BY TakeKeeps DEF WholeInv
<1>5. \E t : Placed(t, sizes, stream', d, b + k)
  <2> HIDE DEF d, b
  <2>1. d \in Nat /\ b \in Nat
    BY SteadyFacts DEF d, b
  <2> QED
    BY <1>1, <1>4, <2>1, SteadyFacts, PlacedTake
<1>6. ASSUME NEW j \in 1..b + k PROVE buff'[j] = [frame |-> d + 1, pos |-> j]
  <2>1. CASE j <= b
    <3>1. j \in 1..b
      BY <2>1, SteadyFacts
    <3> QED
      BY <3>1, <1>3 DEF Steady
  <2>2. CASE ~(j <= b)
    <3> DEFINE i == j - b
    <3>1. i \in 1..k /\ b + i = j /\ i + b = j /\ i \in 1..Len(stream)
      BY <2>2, SteadyFacts
    <3>2. i + b <= HeadLen + sizes[d + 1]
      <4>1. d + 1 \in 1..Len(sizes)
        BY <1>2, SteadyFacts, SMTT(30)
      <4>2. sizes[d + 1] \in Nat /\ b + k <= HeadLen + sizes[d + 1]
        BY <4>1, <1>2, SteadyFacts
      <4>3. b \in Nat /\ k \in Nat /\ HeadLen \in Nat
        BY SteadyFacts
      <4>4. b + k \in Nat /\ HeadLen + sizes[d + 1] \in Nat /\ j \in Nat
        BY <4>2, <4>3
      <4>5. j <= b + k
        BY <4>3
      <4>6. i + b = j
        BY <3>1
      <4> QED
        BY <4>2, <4>4, <4>5, <4>6
    <3> HIDE DEF i
    <3>3. buff'[b + i] = stream[i] /\ stream[i] = [frame |-> d + 1, pos |-> i + b]
      BY <3>1, <3>2, <1>2, <1>3
    <3> QED
      BY <3>1, <3>3
  <2> QED
    BY <2>1, <2>2
<1> QED
  BY <1>2, <1>3, <1>5, <1>6

LEMMA SteadyRecvHead ==
  ASSUME WholeInv, Steady, RecvHead
  PROVE  Steady'
<1>1. PICK k \in 1..Least(Len(stream), HeadLen - Len(buff)) :
         /\ Take(k) /\ buff' = buff \o Taken(k)
         /\ \/ /\ ~Complete(buff', HeadLen)
               /\ UNCHANGED <<pc, want>>
            \/ /\ Complete(buff', HeadLen)
               /\ want' \in LengthIn(buff')
               /\ pc' = "body"
            \/ /\ Complete(buff', HeadLen)
               /\ buff' # Message(buff'[1].frame, 0)
               /\ pc' = "idle"
               /\ UNCHANGED want
  BY DEF RecvHead
<1>2. UNCHANGED <<sizes, delivered>> /\ pc = "head"
  BY DEF RecvHead
<1>3. k \in 1..Len(stream) /\ k <= HeadLen - Len(buff)
  <2>1. HeadLen - Len(buff) \in Int
    BY SteadyFacts
  <2> QED
    BY <2>1, <1>1, SteadyFacts, SMTT(30) DEF Least
<1>4. Len(delivered) < Len(sizes) => Len(buff) + k <= HeadLen + sizes[Len(delivered) + 1]
  <2> SUFFICES ASSUME Len(delivered) < Len(sizes)
               PROVE  Len(buff) + k <= HeadLen + sizes[Len(delivered) + 1]
    OBVIOUS
  <2>1. Len(delivered) + 1 \in 1..Len(sizes)
    BY SteadyFacts
  <2>2. sizes[Len(delivered) + 1] \in Nat
    BY <2>1, SteadyFacts
  <2> QED
    BY <2>2, <1>3, SteadyFacts, SMTT(30)
<1>5. /\ Len(delivered) < Len(sizes)
      /\ buff' \in Seq(Byte) /\ Len(buff') = Len(buff) + k
      /\ \A j \in 1..Len(buff') : buff'[j] = [frame |-> Len(delivered) + 1, pos |-> j]
      /\ \E t : Placed(t, sizes, stream', Len(delivered), Len(buff'))
  BY <1>1, <1>2, <1>3, <1>4, SteadyMore
<1>6. WholeMessagesInOrder'
  BY <1>2 DEF Steady, WholeMessagesInOrder
<1>7. ASSUME Complete(buff', HeadLen)
      PROVE  pc' = "body" /\ want' = sizes[Len(delivered) + 1]
  <2>1. Len(buff') = HeadLen + 0 /\ 1 \in 1..Len(buff') /\ 0 \in 0..MaxBody
    BY <1>7, SteadyFacts DEF Complete
  <2>2. Len(delivered) + 1 \in 1..MaxFrames
    BY <1>5, SteadyFacts, SMTT(30)
  <2>3. buff' = Message(Len(delivered) + 1, 0)
    BY <2>1, <2>2, <1>5, IsMessage
  <2>4. buff'[1].frame = Len(delivered) + 1
    BY <2>1, <1>5
  <2>5. LengthIn(buff') = {sizes[Len(delivered) + 1]}
    BY <2>3, <2>4 DEF LengthIn
  <2> QED
    BY <2>3, <2>4, <2>5, <1>1, <1>7
<1>8. pc' \in {"head", "body"} /\ Partial' = Len(buff')
  <2>1. pc' \in {"head", "body"}
    BY <1>1, <1>2, <1>7
  <2> QED
    BY <2>1 DEF Partial
<1>9. \E t : Lies(t)'
  BY <1>2, <1>5, <1>8 DEF Lies
<1>10. pc' = "body" => want' = sizes'[Len(delivered') + 1]
  BY <1>1, <1>2, <1>7
<1> QED
  BY <1>2, <1>5, <1>6, <1>8, <1>9, <1>10 DEF Steady

LEMMA SteadyRecvBody ==
  ASSUME WholeInv, Steady, RecvBody
  PROVE  Steady'
<1>1. PICK k \in 1..Least(Len(stream), HeadLen + want - Len(buff)) :
         /\ Take(k) /\ buff' = buff \o Taken(k)
         /\ \/ /\ ~Complete(buff', HeadLen + want)
               /\ UNCHANGED <<pc, delivered>>
            \/ /\ Complete(buff', HeadLen + want)
               /\ Deliver(buff')
  BY DEF RecvBody
<1>2. UNCHANGED <<sizes, want>> /\ pc = "body"
  BY DEF RecvBody
<1>3. Len(delivered) < Len(sizes) /\ want = sizes[Len(delivered) + 1]
  BY <1>2 DEF Steady
<1>4. k \in 1..Len(stream) /\ k <= HeadLen + want - Len(buff)
  <2>1. HeadLen + want - Len(buff) \in Int
    BY SteadyFacts
  <2> QED
    BY <2>1, <1>1, SteadyFacts, SMTT(30) DEF Least
<1>5. Len(buff) + k <= HeadLen + sizes[Len(delivered) + 1]
  <2>1. Len(buff) + k <= HeadLen + want
    BY <1>4, SteadyFacts
  <2> QED
    BY <2>1, <1>3
<1>6. /\ buff' \in Seq(Byte) /\ Len(buff') = Len(buff) + k
      /\ \A j \in 1..Len(buff') : buff'[j] = [frame |-> Len(delivered) + 1, pos |-> j]
      /\ \E t : Placed(t, sizes, stream', Len(delivered), Len(buff'))
  BY <1>1, <1>2, <1>4, <1>5, SteadyMore
<1>7. CASE ~Complete(buff', HeadLen + want)
  <2>1. UNCHANGED <<pc, delivered>>
    BY <1>1, <1>7
  <2>2. \E t : Lies(t)'
    BY <2>1, <1>2, <1>6 DEF Lies, Partial
  <2>3. WholeMessagesInOrder'
    BY <2>1, <1>2 DEF Steady, WholeMessagesInOrder
  <2> QED
    BY <2>1, <2>2, <2>3, <1>2, <1>3, <1>6 DEF Steady
<1>8. CASE Complete(buff', HeadLen + want)
  <2>1. pc' = "idle" /\ delivered' = Append(delivered, buff')
        /\ Len(buff') = HeadLen + sizes[Len(delivered) + 1]
    BY <1>1, <1>3, <1>8 DEF Deliver, Complete
  <2>2. WholeMessagesInOrder' /\ Len(delivered') = Len(delivered) + 1
    BY <2>1, <1>2, <1>3, <1>6, NextIsWhole
  <2>3. PICK t : Placed(t, sizes, stream', Len(delivered), Len(buff'))
    BY <1>6
  <2>4. stream' \in Seq(Byte) /\ Len(buff') \in Nat
    BY <1>1, <1>2, <1>4, <1>6, TakeKeeps DEF WholeInv
  <2>5. Placed(t, sizes, stream', Len(delivered) + 1, 0)
    BY <2>1, <2>3, <2>4, <1>3, SteadyFacts, PlacedPass
  <2>6. Lies(t)'
    BY <2>1, <2>2, <2>5, <1>2 DEF Lies, Partial
  <2> QED
    BY <2>1, <2>2, <2>6 DEF Steady
<1> QED
  BY <1>7, <1>8

\* A failure that leaves no trouble behind: nothing was read, nothing is under way.
LEMMA SteadyRecvFails ==
  ASSUME WholeInv, Steady, RecvFails, ~trouble'
  PROVE  Steady'
<1>1. UNCHANGED <<sizes, stream, buff, want>> /\ pc # "idle" /\ pc' = "idle"
  BY DEF RecvFails, Deliver
<1>2. PICK s : Placed(s, sizes, stream, Len(delivered), Len(buff))
  BY <1>1 DEF Steady, Lies, Partial
<1>3. pc = "body" => /\ Len(delivered) < Len(sizes)
                     /\ want = sizes[Len(delivered) + 1] /\ want # 0
                     /\ Len(buff) < HeadLen + want
  <2> SUFFICES ASSUME pc = "body"
               PROVE  /\ Len(delivered) < Len(sizes)
                      /\ want = sizes[Len(delivered) + 1] /\ want # 0
                      /\ Len(buff) < HeadLen + want
    OBVIOUS
  <2>1. Len(delivered) < Len(sizes) /\ want = sizes[Len(delivered) + 1]
    BY DEF Steady
  <2>2. Len(delivered) + 1 \in 1..Len(sizes)
    BY <2>1, SteadyFacts
  <2>3. want \in 1..MaxBody
    BY <2>1, <2>2, SteadyFacts
  <2>4. want # 0
    BY <2>3, SteadyFacts
  <2> QED
    BY <2>1, <2>4 DEF WholeInv, TypeInv, Reading
<1>4. Len(stream) = 0
  <2>1. CASE EndOfStream
    BY <2>1, <1>3, EmptySeq DEF EndOfStream
  <2>2. CASE ~EndOfStream
    <3>1. stream \o buff = <<>>
      BY <2>2 DEF RecvFails
    <3>2. Len(stream \o buff) = Len(stream) + Len(buff)
      BY SteadyFacts, ConcatProperties
    <3> QED
      BY <3>1, <3>2, EmptySeq, SteadyFacts
  <2> QED
    BY <2>1, <2>2
<1>5. /\ Len(delivered) = Len(sizes) => Len(buff) = 0
      /\ Len(delivered) < Len(sizes) => Len(buff) >= HeadLen + sizes[Len(delivered) + 1]
  BY <1>2, <1>4, SteadyFacts, PlacedEmpty
<1>6. pc # "body"
  <2> SUFFICES ASSUME pc = "body" PROVE FALSE
    OBVIOUS
  <2>1. Len(buff) < HeadLen + want /\ Len(buff) >= HeadLen + want
    BY <1>3, <1>5
  <2> QED
    BY <2>1, SteadyFacts
<1>7. pc \in {"one", "head"} /\ UNCHANGED delivered
  BY <1>6 DEF RecvFails
<1>8. Len(buff) = 0
  <2>1. Len(delivered) <= Len(sizes)
    BY <1>2 DEF Placed
  <2>2. CASE Len(delivered) < Len(sizes)
    <3>1. Len(delivered) + 1 \in 1..Len(sizes)
      BY <2>2, SteadyFacts
    <3>2. sizes[Len(delivered) + 1] \in Nat /\ Len(buff) >= HeadLen
      BY <2>2, <3>1, <1>5, SteadyFacts, SMTT(30)
    <3>3. pc = "one" => Len(buff) = 0
      BY EmptySeq DEF Steady
    <3>4. pc = "head" => Len(buff) < HeadLen
      BY DEF WholeInv, TypeInv, Reading
    <3> QED
      BY <3>2, <3>3, <3>4, <1>7, SteadyFacts
  <2> QED
    BY <2>1, <2>2, <1>5, SteadyFacts
<1>9. Lies(s)'
  BY <1>1, <1>2, <1>7, <1>8 DEF Lies, Partial
<1>10. WholeMessagesInOrder'
  BY <1>1, <1>7 DEF Steady, WholeMessagesInOrder
<1> QED
  BY <1>1, <1>9, <1>10 DEF Steady

LEMMA WholeInvStep == WholeInv /\ [Next]_vars => WholeInv'
<1> SUFFICES ASSUME WholeInv, [Next]_vars PROVE WholeInv'
  OBVIOUS
<1>1. TypeInv'
  BY TypeInvStep DEF WholeInv
<1> SUFFICES ASSUME ~trouble' PROVE Steady'
  BY <1>1 DEF WholeInv
<1>2. ~trouble /\ ~Lose
  <2>1. ~Lose
    BY DEF Lose
  <2>2. CASE UNCHANGED trouble
    BY <2>1, <2>2
  <2>3. CASE RecvOne \/ RecvFails
    BY <2>1, <2>3, Zenon DEF RecvOne, RecvFails
  <2>4. UNCHANGED trouble \/ RecvOne \/ RecvFails
    BY <2>1, Zenon DEF Next, Client, Write, Close, Authenticated, Call, RecvHead, RecvBody,
                       Rest, vars
  <2> QED
    BY <2>1, <2>2, <2>3, <2>4
<1>3. Steady
  BY <1>2 DEF WholeInv
<1>4. ASSUME NEW n \in 1..MaxBody, Write(n) PROVE Steady'
  BY <1>3, <1>4, SteadyWrite
<1>5. CASE Close \/ Authenticated \/ Rest \/ UNCHANGED vars
  <2>1. UNCHANGED <<sizes, stream, pc, buff, want, delivered>>
    BY <1>5 DEF Close, Authenticated, Rest, vars
  <2>2. WholeMessagesInOrder'
    BY <2>1, <1>3 DEF Steady, WholeMessagesInOrder
  <2>3. \E s : Lies(s)'
    BY <2>1, <1>3 DEF Steady, Lies, Partial
  <2> QED
    BY <2>1, <2>2, <2>3, <1>3 DEF Steady
<1>6. CASE Call
  BY <1>3, <1>6, SteadyCall
<1>7. CASE RecvOne
  BY <1>3, <1>7, SteadyRecvOne
<1>8. CASE RecvHead
  BY <1>3, <1>8, SteadyRecvHead
<1>9. CASE RecvBody
  BY <1>3, <1>9, SteadyRecvBody
<1>10. CASE RecvFails
  BY <1>3, <1>10, SteadyRecvFails
<1> QED
  BY <1>2, <1>4, <1>5, <1>6, <1>7, <1>8, <1>9, <1>10 DEF Next, Client

\* However TCP cuts the stream, the results of the receive loop are the whole
\* messages of the server in order, as long as the answer to the authentication
\* comes alone and the rest of a message in time (tcp_io.c:437-495).
THEOREM RecvWholeWithoutTrouble == Spec => []WholeWithoutTrouble
<1>1. WholeInv => WholeWithoutTrouble
  BY DEF WholeInv, Steady, WholeWithoutTrouble
<1> QED
  BY WholeInvInit, WholeInvStep, <1>1, PTL DEF Spec

\* Between two calls, when nothing is under way and nothing went wrong, every
\* message the server has sent was handed up: the loop of tcp_io.c:391-425 leaves
\* none out and keeps no part of one.
THEOREM RecvNothingLost == Spec => []NothingLost
<1>1. WholeInv => NothingLost
  <2> SUFFICES ASSUME WholeInv, ~trouble, stream = <<>>, pc = "idle"
               PROVE  Len(delivered) = Len(sizes)
    BY DEF NothingLost
  <2>1. /\ sizes \in Seq(1..MaxBody) /\ stream \in Seq(Byte) /\ Len(stream) = 0
        /\ Len(delivered) \in Nat /\ Len(sizes) \in Nat /\ HeadLen \in Nat \ {0} /\ 0 \in Nat
    BY SteadyFacts, EmptySeq
  <2>2. PICK s : Placed(s, sizes, stream, Len(delivered), 0)
    BY DEF WholeInv, Steady, Lies, Partial
  <2>3. Len(delivered) < Len(sizes) => 0 >= HeadLen + sizes[Len(delivered) + 1]
    BY <2>1, <2>2, PlacedEmpty
  <2>4. Len(delivered) <= Len(sizes)
    BY <2>2 DEF Placed
  <2>5. CASE Len(delivered) < Len(sizes)
    <3>1. Len(delivered) + 1 \in 1..Len(sizes)
      BY <2>1, <2>5
    <3>2. sizes[Len(delivered) + 1] \in Nat
      BY <3>1, SteadyFacts
    <3> QED
      BY <2>1, <2>3, <2>5, <3>2
  <2> QED
    BY <2>1, <2>4, <2>5
<1> QED
  BY WholeInvInit, WholeInvStep, <1>1, PTL DEF Spec

-----------------------------------------------------------------------------
(* Each byte once                                                            *)
(*                                                                           *)
(* What was delivered, what the call has read and what is under way is       *)
(* ascending, in this order, whatever was dropped in between.                *)

Ascending(s) == \A i, j \in 1..Len(s) : i < j => Before(s[i], s[j])

Precedes(s, t) == \A i \in 1..Len(s), j \in 1..Len(t) : Before(s[i], t[j])

\* Every result comes before a sequence of later bytes.
ResultsPrecede(t) == \A k \in 1..Len(delivered) : Precedes(delivered[k], t)

OrderInv ==
    /\ TypeInv
    /\ \A k \in 1..Len(delivered) :
          \A i \in 1..Len(delivered[k]) : delivered[k][i].frame <= Len(sizes)
    /\ BytesOnceInOrder
    /\ Ascending(stream)
    /\ ResultsPrecede(stream)
    /\ pc # "idle" => Ascending(buff) /\ Precedes(buff, stream) /\ ResultsPrecede(buff)

LEMMA OrderInit == Init => OrderInv
<1> SUFFICES ASSUME Init PROVE OrderInv
  OBVIOUS
<1>1. TypeInv
  BY TypeInvInit
<1>2. pc = "idle" /\ Len(delivered) = 0 /\ Len(stream) = 0
  BY EmptySeq DEF Init
<1> QED
  BY <1>1, <1>2 DEF OrderInv, BytesOnceInOrder, Ascending, ResultsPrecede

\* What the steps use of the types.
LEMMA OrderFacts ==
  ASSUME TypeInv
  PROVE  /\ Len(sizes) \in Nat /\ Len(stream) \in Nat /\ Len(buff) \in Nat
         /\ Len(delivered) \in Nat /\ delivered \in Seq(Seq(Byte))
         /\ stream \in Seq(Byte) /\ buff \in Seq(Byte)
         /\ \A i \in 1..Len(stream) : stream[i] \in Byte
         /\ \A i \in 1..Len(buff) : buff[i] \in Byte
         /\ \A k \in 1..Len(delivered) :
               delivered[k] \in Seq(Byte) /\ Len(delivered[k]) \in Nat
         /\ HeadLen \in Nat /\ HeadLen > 0 /\ MaxBody \in Nat /\ MaxFrames \in Nat
<1>1. sizes \in Seq(1..MaxBody) /\ stream \in Seq(Byte) /\ buff \in Seq(Byte)
      /\ delivered \in Seq(Seq(Byte))
  BY DEF TypeInv, TypeOK
<1>2. Len(sizes) \in Nat /\ Len(stream) \in Nat /\ Len(buff) \in Nat /\ Len(delivered) \in Nat
  BY <1>1
<1>3. /\ \A i \in 1..Len(stream) : stream[i] \in Byte
      /\ \A i \in 1..Len(buff) : buff[i] \in Byte
      /\ \A k \in 1..Len(delivered) : delivered[k] \in Seq(Byte)
  BY <1>1, ElementOfSeq
<1>4. \A k \in 1..Len(delivered) : Len(delivered[k]) \in Nat
  BY <1>3
<1> QED
  BY <1>1, <1>2, <1>3, <1>4, RecvAssumption

\* A result that comes after those before it.
LEMMA ResultInOrder ==
  ASSUME OrderInv, NEW b \in Seq(Byte), Ascending(b), ResultsPrecede(b),
         \A i \in 1..Len(b) : b[i].frame <= Len(sizes),
         delivered' = Append(delivered, b), UNCHANGED sizes,
         ResultsPrecede(stream'), Precedes(b, stream')
  PROVE  /\ BytesOnceInOrder'
         /\ \A k \in 1..Len(delivered') :
               \A i \in 1..Len(delivered'[k]) : delivered'[k][i].frame <= Len(sizes')
         /\ ResultsPrecede(stream)'
<1> DEFINE d == Len(delivered)
<1>1. d \in Nat
  BY OrderFacts DEF OrderInv
<1>2. /\ Len(delivered') = d + 1 /\ \A k \in 1..d : delivered'[k] = delivered[k]
      /\ delivered'[d + 1] = b
  BY OrderFacts, AppendOne DEF OrderInv
<1>3. BytesOnceInOrder
      /\ \A k \in 1..d : \A i \in 1..Len(delivered[k]) : delivered[k][i].frame <= Len(sizes)
  BY DEF OrderInv
<1>4. /\ \A k \in 1..d : Precedes(delivered[k], b)
      /\ \A k \in 1..d : Precedes(delivered[k], stream')
  BY DEF ResultsPrecede
<1>5. \A k, n \in 1..d :
          \A i \in 1..Len(delivered[k]), j \in 1..Len(delivered[n]) :
              (k < n \/ (k = n /\ i < j)) => Before(delivered[k][i], delivered[n][j])
  BY <1>3 DEF BytesOnceInOrder
<1> HIDE DEF d
<1>6. \A k \in 1..d + 1 : k \in 1..d \/ k = d + 1
  BY <1>1
<1>7. \A k \in 1..d : k # d + 1 /\ ~(d + 1 < k) /\ ~(d + 1 = k) /\ ~(d + 1 < d + 1)
  BY <1>1
<1>8. ASSUME NEW k \in 1..d + 1, NEW n \in 1..d + 1,
             NEW i \in 1..Len(delivered'[k]), NEW j \in 1..Len(delivered'[n]),
             k < n \/ (k = n /\ i < j)
      PROVE  Before(delivered'[k][i], delivered'[n][j])
  <2>1. CASE k \in 1..d /\ n \in 1..d
    BY <2>1, <1>2, <1>5, <1>8
  <2>2. CASE k \in 1..d /\ n = d + 1
    BY <2>2, <1>2, <1>4 DEF Precedes
  <2>3. CASE k = d + 1 /\ n = d + 1
    <3>1. i < j
      BY <2>3, <1>1, <1>8
    <3> QED
      BY <2>3, <3>1, <1>2 DEF Ascending
  <2>4. CASE k = d + 1 /\ n \in 1..d
    BY <2>4, <1>7, <1>8
  <2> QED
    BY <2>1, <2>2, <2>3, <2>4, <1>6
<1>9. BytesOnceInOrder'
  BY <1>2, <1>8 DEF BytesOnceInOrder
<1>10. ASSUME NEW k \in 1..d + 1
       PROVE  /\ \A i \in 1..Len(delivered'[k]) : delivered'[k][i].frame <= Len(sizes)
              /\ Precedes(delivered'[k], stream')
  BY <1>2, <1>3, <1>4, <1>6
<1>11. ResultsPrecede(stream)'
  BY <1>2, <1>10 DEF ResultsPrecede
<1> QED
  BY <1>2, <1>9, <1>10, <1>11

\* recv() takes bytes from the front: they precede those that stay.
LEMMA TakenInOrder ==
  ASSUME OrderInv, NEW k \in 1..Len(stream), Take(k), UNCHANGED sizes
  PROVE  /\ Ascending(stream') /\ ResultsPrecede(stream')
         /\ Taken(k) \in Seq(Byte) /\ Ascending(Taken(k)) /\ Precedes(Taken(k), stream')
         /\ ResultsPrecede(Taken(k))
         /\ pc # "idle" => Precedes(buff, Taken(k)) /\ Precedes(buff, stream')
<1> DEFINE t == Taken(k)
<1>1. /\ t \in Seq(Byte) /\ Len(t) = k
      /\ \A i \in 1..k : t[i] = stream[i]
  BY TakenBytes DEF OrderInv
<1>2. /\ Len(stream') = Len(stream) - k
      /\ \A i \in 1..Len(stream') : stream'[i] = stream[k + i]
  BY TakeKeeps DEF OrderInv
<1>3. Len(stream) \in Nat /\ k \in Nat /\ k <= Len(stream)
  BY OrderFacts DEF OrderInv
<1>4. /\ \A i, j \in 1..Len(stream) : i < j => Before(stream[i], stream[j])
      /\ \A n \in 1..Len(delivered) : Precedes(delivered[n], stream)
      /\ pc # "idle" => Precedes(buff, stream)
  BY DEF OrderInv, Ascending, ResultsPrecede
<1> HIDE DEF t
<1>5. \A i \in 1..k : i \in 1..Len(stream)
  BY <1>3
<1>6. \A i \in 1..Len(stream') : k + i \in 1..Len(stream)
  BY <1>2, <1>3
<1>7. \A i, j \in 1..Len(stream') : i < j => k + i < k + j
  BY <1>3
<1>8. \A i \in 1..k, j \in 1..Len(stream') : i < k + j
  BY <1>3
<1>9. Ascending(stream')
  BY <1>2, <1>4, <1>6, <1>7 DEF Ascending
<1>10. Ascending(t)
  BY <1>1, <1>4, <1>5 DEF Ascending
<1>11. Precedes(t, stream')
  BY <1>1, <1>2, <1>4, <1>5, <1>6, <1>8 DEF Precedes
<1>12. ASSUME NEW s, Precedes(s, stream) PROVE Precedes(s, t) /\ Precedes(s, stream')
  BY <1>1, <1>2, <1>5, <1>6, <1>12 DEF Precedes
<1>13. ResultsPrecede(t) /\ ResultsPrecede(stream')
  BY <1>4, <1>12 DEF ResultsPrecede
<1>14. pc # "idle" => Precedes(buff, t) /\ Precedes(buff, stream')
  BY <1>4, <1>12
<1> QED
  BY <1>1, <1>9, <1>10, <1>11, <1>13, <1>14 DEF t

\* A call that has read k bytes more is still in order.
LEMMA ReadInOrder ==
  ASSUME OrderInv, NEW k \in 1..Len(stream), Take(k), buff' = buff \o Taken(k),
         pc # "idle", UNCHANGED sizes
  PROVE  Ascending(buff') /\ Precedes(buff', stream') /\ ResultsPrecede(buff')
         /\ Ascending(stream') /\ ResultsPrecede(stream')
<1> DEFINE t == Taken(k)
           m == Len(buff)
<1>1. /\ buff' \in Seq(Byte) /\ Len(buff') = m + k
      /\ \A i \in 1..m : buff'[i] = buff[i]
      /\ \A i \in 1..k : buff'[m + i] = stream[i]
  BY MoreBytes DEF OrderInv
<1>2. Len(t) = k /\ \A i \in 1..k : t[i] = stream[i]
  BY TakenBytes DEF OrderInv
<1>3. /\ Ascending(stream') /\ ResultsPrecede(stream')
      /\ Ascending(t) /\ Precedes(t, stream') /\ ResultsPrecede(t)
      /\ Precedes(buff, t) /\ Precedes(buff, stream')
  BY TakenInOrder
<1>4. Ascending(buff) /\ ResultsPrecede(buff)
  BY DEF OrderInv
<1>5. m \in Nat /\ k \in Nat
  BY OrderFacts DEF OrderInv
<1> HIDE DEF t, m
<1>6. \A i \in 1..m + k : (i \in 1..m /\ buff'[i] = buff[i])
                           \/ (\E e \in 1..k : i = m + e /\ buff'[i] = t[e])
  <2> SUFFICES ASSUME NEW i \in 1..m + k, i \notin 1..m
               PROVE  \E e \in 1..k : i = m + e /\ buff'[i] = t[e]
    BY <1>1
  <2>1. i - m \in 1..k /\ i = m + (i - m)
    BY <1>5
  <2> QED
    BY <2>1, <1>1, <1>2
<1>7. \A i \in 1..m : i \in 1..Len(buff)
  BY DEF m
<1>8. Precedes(buff', stream')
  BY <1>1, <1>2, <1>3, <1>6, <1>7 DEF Precedes
<1>9. \A n \in 1..Len(delivered) : Precedes(delivered[n], buff')
  BY <1>1, <1>2, <1>3, <1>4, <1>6, <1>7 DEF Precedes, ResultsPrecede
<1>10. ASSUME NEW i \in 1..m + k, NEW j \in 1..m + k, i < j
       PROVE  Before(buff'[i], buff'[j])
  <2>1. CASE i \in 1..m /\ j \in 1..m
    BY <2>1, <1>1, <1>4, <1>7, <1>10 DEF Ascending
  <2>2. CASE i \in 1..m /\ j \notin 1..m
    <3>1. PICK e \in 1..k : buff'[j] = t[e]
      BY <2>2, <1>6
    <3> QED
      BY <2>2, <3>1, <1>1, <1>2, <1>3, <1>7 DEF Precedes
  <2>3. CASE i \notin 1..m /\ j \notin 1..m
    <3>1. PICK e \in 1..k : i = m + e /\ buff'[i] = t[e]
      BY <2>3, <1>6
    <3>2. PICK f \in 1..k : j = m + f /\ buff'[j] = t[f]
      BY <2>3, <1>6
    <3>3. e < f
      BY <3>1, <3>2, <1>5, <1>10
    <3> QED
      BY <3>1, <3>2, <3>3, <1>2, <1>3 DEF Ascending
  <2>4. CASE i \notin 1..m /\ j \in 1..m
    BY <2>4, <1>5, <1>10
  <2> QED
    BY <2>1, <2>2, <2>3, <2>4
<1>11. Ascending(buff')
  BY <1>1, <1>10 DEF Ascending
<1>12. ResultsPrecede(buff')
  BY <1>9 DEF ResultsPrecede
<1> QED
  BY <1>3, <1>8, <1>11, <1>12

\* A message is written behind all others.
LEMMA OrderWrite ==
  ASSUME OrderInv, NEW n \in 1..MaxBody, Write(n)
  PROVE  OrderInv'
<1> DEFINE L == Len(sizes)
           m == Message(L + 1, n)
<1>1. /\ sizes' = Append(sizes, n) /\ stream' = stream \o m /\ L < MaxFrames
      /\ UNCHANGED <<pc, buff, delivered>>
  BY DEF Write
<1>2. TypeInv'
  <2>1. [Next]_vars
    BY DEF Next
  <2> QED
    BY <2>1, TypeInvStep DEF OrderInv
<1>3. L \in Nat /\ Len(stream) \in Nat /\ stream \in Seq(Byte)
      /\ (\A i \in 1..Len(stream) : stream[i] \in Byte) /\ HeadLen \in Nat /\ MaxFrames \in Nat
  BY OrderFacts DEF OrderInv
<1>4. Len(sizes') = L + 1
  BY <1>1, AppendOne DEF OrderInv, TypeInv, TypeOK
<1>5. /\ m \in Seq(Byte) /\ Len(m) = HeadLen + n
      /\ \A j \in 1..HeadLen + n : m[j] = [frame |-> L + 1, pos |-> j]
  <2>1. L + 1 \in 1..MaxFrames /\ n \in 0..MaxBody
    BY <1>1, <1>3
  <2> QED
    BY <2>1, MessageBytes
<1>6. /\ Len(stream') = Len(stream) + Len(m)
      /\ \A i \in 1..Len(stream) + Len(m) :
            stream'[i] = IF i <= Len(stream) THEN stream[i] ELSE m[i - Len(stream)]
  BY <1>1, <1>3, <1>5, ConcatProperties
<1> HIDE DEF L, m
<1>7. HeadLen + n \in Nat
  BY <1>3
<1>8. \A i \in 1..Len(stream') :
         \/ i \in 1..Len(stream) /\ stream'[i] = stream[i]
         \/ /\ i \notin 1..Len(stream)
            /\ stream'[i] = [frame |-> L + 1, pos |-> i - Len(stream)]
  <2> SUFFICES ASSUME NEW i \in 1..Len(stream'), i \notin 1..Len(stream)
               PROVE  stream'[i] = [frame |-> L + 1, pos |-> i - Len(stream)]
    BY <1>3, <1>5, <1>6, <1>7
  <2>1. ~(i <= Len(stream)) /\ i - Len(stream) \in 1..HeadLen + n
        /\ i \in 1..Len(stream) + Len(m)
    BY <1>3, <1>5, <1>6, <1>7
  <2> QED
    BY <2>1, <1>5, <1>6
<1>9. /\ \A i \in 1..Len(stream) : stream[i].frame \in Nat /\ stream[i].frame <= L
      /\ \A i \in 1..Len(buff) : buff[i].frame \in Nat /\ buff[i].frame <= L
      /\ \A k \in 1..Len(delivered) : \A i \in 1..Len(delivered[k]) :
            delivered[k][i].frame \in Nat /\ delivered[k][i].frame <= L
  <2>1. /\ \A i \in 1..Len(stream) : stream[i] \in Byte
        /\ \A i \in 1..Len(buff) : buff[i] \in Byte
        /\ \A k \in 1..Len(delivered) : \A i \in 1..Len(delivered[k]) : delivered[k][i] \in Byte
    BY OrderFacts, ElementOfSeq DEF OrderInv
  <2>2. /\ \A i \in 1..Len(stream) : stream[i].frame \in Nat
        /\ \A i \in 1..Len(buff) : buff[i].frame \in Nat
        /\ \A k \in 1..Len(delivered) : \A i \in 1..Len(delivered[k]) :
              delivered[k][i].frame \in Nat
    BY <2>1, ByteFrame
  <2> QED
    BY <2>2 DEF OrderInv, TypeInv, Written, L
<1>10. \A f \in Nat : f <= L => f < L + 1 /\ f <= L + 1
  BY <1>3
<1>b. \A i \in 1..Len(stream') : i \notin 1..Len(stream) =>
          stream'[i].frame = L + 1 /\ stream'[i].pos = i - Len(stream)
  <2> SUFFICES ASSUME NEW i \in 1..Len(stream'), i \notin 1..Len(stream)
               PROVE  stream'[i].frame = L + 1 /\ stream'[i].pos = i - Len(stream)
    OBVIOUS
  <2>1. stream'[i] = [frame |-> L + 1, pos |-> i - Len(stream)]
    BY <1>8
  <2> QED
    BY <2>1
\* Everything written before precedes the new message.
<1>11. ASSUME NEW s, Precedes(s, stream),
              \A i \in 1..Len(s) : s[i].frame \in Nat /\ s[i].frame <= L
       PROVE  Precedes(s, stream')
  <2> SUFFICES ASSUME NEW i \in 1..Len(s), NEW j \in 1..Len(stream')
               PROVE  Before(s[i], stream'[j])
    BY DEF Precedes
  <2>1. CASE j \in 1..Len(stream)
    BY <2>1, <1>8, <1>11 DEF Precedes
  <2>2. CASE j \notin 1..Len(stream)
    <3>1. stream'[j].frame = L + 1
      BY <2>2, <1>b
    <3>2. s[i].frame < L + 1
      BY <1>10, <1>11
    <3> QED
      BY <3>1, <3>2 DEF Before
  <2> QED
    BY <2>1, <2>2
<1>12. ASSUME NEW i \in 1..Len(stream'), NEW j \in 1..Len(stream'), i < j
       PROVE  Before(stream'[i], stream'[j])
  <2>1. CASE i \in 1..Len(stream) /\ j \in 1..Len(stream)
    BY <2>1, <1>8, <1>12 DEF OrderInv, Ascending
  <2>2. CASE i \in 1..Len(stream) /\ j \notin 1..Len(stream)
    <3>1. stream'[j].frame = L + 1 /\ stream'[i].frame < L + 1
      BY <2>2, <1>8, <1>9, <1>10, <1>b
    <3> QED
      BY <3>1 DEF Before
  <2>3. CASE i \notin 1..Len(stream) /\ j \notin 1..Len(stream)
    <3>1. /\ stream'[i].frame = L + 1 /\ stream'[i].pos = i - Len(stream)
          /\ stream'[j].frame = L + 1 /\ stream'[j].pos = j - Len(stream)
      BY <2>3, <1>b
    <3>2. i - Len(stream) < j - Len(stream)
      BY <1>3, <1>12
    <3> QED
      BY <3>1, <3>2 DEF Before
  <2>4. CASE i \notin 1..Len(stream) /\ j \in 1..Len(stream)
    BY <2>4, <1>3, <1>12
  <2> QED
    BY <2>1, <2>2, <2>3, <2>4
<1>13. Ascending(stream')
  BY <1>12 DEF Ascending
<1>14. ResultsPrecede(stream)' /\ (pc # "idle" => Precedes(buff, stream'))
  BY <1>1, <1>9, <1>11 DEF OrderInv, ResultsPrecede
<1>15. \A k \in 1..Len(delivered) :
          \A i \in 1..Len(delivered[k]) : delivered[k][i].frame <= Len(sizes')
  BY <1>4, <1>9, <1>10
<1> QED
  BY <1>1, <1>2, <1>13, <1>14, <1>15
     DEF OrderInv, BytesOnceInOrder, ResultsPrecede

\* The loss of the last byte under way.
LEMMA OrderLose ==
  ASSUME OrderInv, Lose
  PROVE  Ascending(stream') /\ ResultsPrecede(stream')
         /\ (pc # "idle" => Precedes(buff, stream'))
<1>1. stream' = SubSeq(stream, 1, Len(stream) - 1) /\ stream # <<>>
  BY DEF Lose
<1>2. Len(stream) \in Nat /\ stream \in Seq(Byte) /\ \A i \in 1..Len(stream) : stream[i] \in Byte
  BY OrderFacts DEF OrderInv
<1>3. Len(stream) - 1 \in 0..Len(stream)
  BY <1>1, <1>2, EmptySeq
<1>4. /\ Len(stream') <= Len(stream) /\ Len(stream') \in Nat
      /\ \A i \in 1..Len(stream') : stream'[i] = stream[i]
  BY <1>1, <1>2, <1>3, SubSeqProperties
<1>5. \A i \in 1..Len(stream') : i \in 1..Len(stream)
  BY <1>2, <1>4
<1>6. ASSUME NEW s, Precedes(s, stream) PROVE Precedes(s, stream')
  BY <1>4, <1>5, <1>6 DEF Precedes
<1> QED
  BY <1>4, <1>5, <1>6 DEF OrderInv, Ascending, ResultsPrecede

\* A failed read of the body hands up the front of what was read.
LEMMA OrderFails ==
  ASSUME OrderInv, RecvFails, pc = "body"
  PROVE  OrderInv'
<1> DEFINE b == SubSeq(buff, 1, HeadLen - 1)
<1>1. /\ UNCHANGED <<sizes, stream, buff>> /\ pc' = "idle"
      /\ delivered' = Append(delivered, b)
  BY DEF RecvFails, Deliver
<1>2. TypeInv'
  BY TypeInvStep DEF OrderInv, Next, Client
<1>3. /\ Len(buff) \in Nat /\ buff \in Seq(Byte) /\ HeadLen \in Nat /\ HeadLen > 0
      /\ \A i \in 1..Len(buff) : buff[i] \in Byte
  BY OrderFacts DEF OrderInv
<1>4. HeadLen - 1 \in 0..Len(buff)
  BY <1>3 DEF OrderInv, TypeInv, Reading
<1>5. /\ b \in Seq(Byte) /\ Len(b) = HeadLen - 1
      /\ \A i \in 1..Len(b) : b[i] = buff[i] /\ i \in 1..Len(buff)
  <2>1. /\ b \in Seq(Byte)
        /\ Len(b) = IF 1 <= HeadLen - 1 THEN HeadLen - 1 - 1 + 1 ELSE 0
        /\ \A i \in 1..HeadLen - 1 - 1 + 1 : b[i] = buff[1 + i - 1]
    BY <1>3, <1>4, SubSeqProperties
  <2>2. Len(b) = HeadLen - 1
    BY <2>1, <1>3, <1>4
  <2> HIDE DEF b
  <2>3. ASSUME NEW i \in 1..Len(b) PROVE b[i] = buff[i] /\ i \in 1..Len(buff)
    <3>1. i \in 1..HeadLen - 1 - 1 + 1 /\ 1 + i - 1 = i
      BY <2>2, <1>3
    <3>2. i \in 1..Len(buff)
      BY <2>2, <1>3, <1>4
    <3> QED
      BY <2>1, <3>1, <3>2
  <2> QED
    BY <2>1, <2>2, <2>3
<1> HIDE DEF b
<1>6. Ascending(buff) /\ Precedes(buff, stream) /\ ResultsPrecede(buff)
      /\ ResultsPrecede(stream) /\ Ascending(stream)
      /\ \A i \in 1..Len(buff) : buff[i].frame <= Len(sizes)
  BY DEF OrderInv, TypeInv, Written
<1>7. Ascending(b) /\ Precedes(b, stream) /\ ResultsPrecede(b)
      /\ \A i \in 1..Len(b) : b[i].frame <= Len(sizes)
  BY <1>5, <1>6 DEF Ascending, Precedes, ResultsPrecede
<1>8. ResultsPrecede(stream') /\ Precedes(b, stream') /\ UNCHANGED sizes
  BY <1>1, <1>6, <1>7
<1>9. /\ BytesOnceInOrder'
      /\ \A k \in 1..Len(delivered') :
            \A i \in 1..Len(delivered'[k]) : delivered'[k][i].frame <= Len(sizes')
      /\ ResultsPrecede(stream)'
  BY <1>1, <1>5, <1>7, <1>8, ResultInOrder
<1> QED
  BY <1>1, <1>2, <1>6, <1>9 DEF OrderInv, Ascending

LEMMA OrderStep == OrderInv /\ [Next]_vars => OrderInv'
<1> SUFFICES ASSUME OrderInv, [Next]_vars PROVE OrderInv'
  OBVIOUS
<1>a. TypeInv'
  BY TypeInvStep DEF OrderInv
<1>1. ASSUME NEW n \in 1..MaxBody, Write(n) PROVE OrderInv'
  BY <1>1, OrderWrite
<1>2. CASE Close \/ Authenticated \/ Rest \/ UNCHANGED vars
  <2>1. UNCHANGED <<sizes, stream, pc, buff, delivered>>
    BY <1>2 DEF Close, Authenticated, Rest, vars
  <2>2. BytesOnceInOrder' /\ Ascending(stream)' /\ ResultsPrecede(stream)'
    BY <2>1 DEF OrderInv, BytesOnceInOrder, Ascending, ResultsPrecede
  <2>3. pc' # "idle" => Ascending(buff)' /\ Precedes(buff, stream)' /\ ResultsPrecede(buff)'
    BY <2>1 DEF OrderInv, Ascending, Precedes, ResultsPrecede
  <2>4. \A k \in 1..Len(delivered') :
           \A i \in 1..Len(delivered'[k]) : delivered'[k][i].frame <= Len(sizes')
    BY <2>1 DEF OrderInv
  <2> QED
    BY <2>2, <2>3, <2>4, <1>a DEF OrderInv
<1>3. CASE Lose
  <2>1. UNCHANGED <<sizes, pc, buff, delivered>>
    BY <1>3 DEF Lose
  <2>2. Ascending(stream') /\ ResultsPrecede(stream')
        /\ (pc # "idle" => Precedes(buff, stream'))
    BY <1>3, OrderLose
  <2> QED
    BY <2>1, <2>2, <1>a DEF OrderInv, BytesOnceInOrder, Ascending, Precedes, ResultsPrecede
<1>4. CASE Call
  <2>1. UNCHANGED <<sizes, stream, delivered>> /\ buff' = <<>> /\ Len(buff') = 0
    BY <1>4, EmptySeq DEF Call
  <2>2. BytesOnceInOrder' /\ Ascending(stream)' /\ ResultsPrecede(stream)'
    BY <2>1 DEF OrderInv, BytesOnceInOrder, Ascending, ResultsPrecede
  <2>3. Ascending(buff)' /\ Precedes(buff, stream)'
    BY <2>1 DEF Ascending, Precedes
  <2>4. ResultsPrecede(buff)'
    BY <2>1 DEF Precedes, ResultsPrecede
  <2>5. \A k \in 1..Len(delivered') :
           \A i \in 1..Len(delivered'[k]) : delivered'[k][i].frame <= Len(sizes')
    BY <2>1 DEF OrderInv
  <2> QED
    BY <2>2, <2>3, <2>4, <2>5, <1>a DEF OrderInv
<1>5. CASE RecvOne
  <2>1. PICK k \in 1..Least(Len(stream), BuffSize) :
           /\ Take(k) /\ buff' = Taken(k) /\ pc' = "idle"
           /\ UNCHANGED delivered \/ delivered' = Append(delivered, buff')
    BY <1>5 DEF RecvOne, Deliver
  <2>2. UNCHANGED sizes /\ pc' = "idle"
    BY <1>5, <2>1 DEF RecvOne
  <2>3. k \in 1..Len(stream)
    BY <2>1, RecvAssumption, OrderFacts DEF Least, OrderInv
  <2>4. /\ Ascending(stream') /\ ResultsPrecede(stream')
        /\ buff' \in Seq(Byte) /\ Ascending(buff') /\ Precedes(buff', stream')
        /\ ResultsPrecede(buff')
    BY <2>1, <2>2, <2>3, TakenInOrder
  <2>5. CASE UNCHANGED delivered
    BY <2>2, <2>4, <2>5, <1>a DEF OrderInv, BytesOnceInOrder, Ascending, ResultsPrecede
  <2>6. CASE delivered' = Append(delivered, buff')
    <3>1. \A i \in 1..Len(buff') : buff'[i].frame <= Len(sizes)
      BY <2>2, <1>a DEF TypeInv, Written
    <3> DEFINE b == buff'
    <3>2. b \in Seq(Byte) /\ Ascending(b) /\ ResultsPrecede(b) /\ Precedes(b, stream')
          /\ delivered' = Append(delivered, b) /\ \A i \in 1..Len(b) : b[i].frame <= Len(sizes)
      BY <2>4, <2>6, <3>1
    <3> HIDE DEF b
    <3>3. /\ BytesOnceInOrder'
          /\ \A n \in 1..Len(delivered') :
                \A i \in 1..Len(delivered'[n]) : delivered'[n][i].frame <= Len(sizes')
          /\ ResultsPrecede(stream)'
      BY <2>2, <2>4, <3>2, ResultInOrder
    <3> QED
      BY <2>2, <2>4, <3>3, <1>a DEF OrderInv, Ascending
  <2> QED
    BY <2>1, <2>5, <2>6
<1>6. CASE RecvHead
  <2>1. PICK k \in 1..Least(Len(stream), HeadLen - Len(buff)) :
           Take(k) /\ buff' = buff \o Taken(k)
    BY <1>6 DEF RecvHead
  <2>2. UNCHANGED <<sizes, delivered>> /\ pc # "idle"
    BY <1>6 DEF RecvHead
  <2>3. k \in 1..Len(stream)
    <3>1. HeadLen - Len(buff) \in Int /\ Len(stream) \in Nat
      BY OrderFacts DEF OrderInv
    <3> QED
      BY <2>1, <3>1 DEF Least
  <2>4. Ascending(buff') /\ Precedes(buff', stream') /\ ResultsPrecede(buff')
        /\ Ascending(stream') /\ ResultsPrecede(stream')
    BY <2>1, <2>2, <2>3, ReadInOrder
  <2> QED
    BY <2>2, <2>4, <1>a DEF OrderInv, BytesOnceInOrder, Ascending, Precedes, ResultsPrecede
<1>7. CASE RecvBody
  <2>1. PICK k \in 1..Least(Len(stream), HeadLen + want - Len(buff)) :
           /\ Take(k) /\ buff' = buff \o Taken(k)
           /\ \/ UNCHANGED <<pc, delivered>>
              \/ pc' = "idle" /\ delivered' = Append(delivered, buff')
    BY <1>7 DEF RecvBody, Deliver
  <2>2. UNCHANGED sizes /\ pc = "body"
    BY <1>7 DEF RecvBody
  <2>3. k \in 1..Len(stream)
    <3>1. HeadLen + want - Len(buff) \in Int /\ Len(stream) \in Nat
      BY OrderFacts, RecvAssumption DEF OrderInv, TypeInv, TypeOK
    <3> QED
      BY <2>1, <3>1 DEF Least
  <2>4. Ascending(buff') /\ Precedes(buff', stream') /\ ResultsPrecede(buff')
        /\ Ascending(stream') /\ ResultsPrecede(stream')
    BY <2>1, <2>2, <2>3, ReadInOrder
  <2>5. CASE UNCHANGED <<pc, delivered>>
    BY <2>2, <2>4, <2>5, <1>a
       DEF OrderInv, BytesOnceInOrder, Ascending, Precedes, ResultsPrecede
  <2>6. CASE pc' = "idle" /\ delivered' = Append(delivered, buff')
    <3>1. buff' \in Seq(Byte) /\ \A i \in 1..Len(buff') : buff'[i].frame <= Len(sizes)
      BY <2>2, <1>a DEF TypeInv, TypeOK, Written
    <3> DEFINE b == buff'
    <3>2. b \in Seq(Byte) /\ Ascending(b) /\ ResultsPrecede(b) /\ Precedes(b, stream')
          /\ delivered' = Append(delivered, b) /\ \A i \in 1..Len(b) : b[i].frame <= Len(sizes)
      BY <2>4, <2>6, <3>1
    <3> HIDE DEF b
    <3>3. /\ BytesOnceInOrder'
          /\ \A n \in 1..Len(delivered') :
                \A i \in 1..Len(delivered'[n]) : delivered'[n][i].frame <= Len(sizes')
          /\ ResultsPrecede(stream)'
      BY <2>2, <2>4, <3>2, ResultInOrder
    <3> QED
      BY <2>6, <2>4, <3>3, <1>a DEF OrderInv, Ascending
  <2> QED
    BY <2>1, <2>5, <2>6
<1>8. CASE RecvFails
  <2>1. CASE pc = "body"
    BY <2>1, <1>8, OrderFails
  <2>2. CASE pc # "body"
    <3>1. UNCHANGED <<sizes, stream, buff, delivered>> /\ pc' = "idle"
      BY <2>2, <1>8 DEF RecvFails
    <3> QED
      BY <3>1, <1>a DEF OrderInv, BytesOnceInOrder, Ascending, Precedes, ResultsPrecede
  <2> QED
    BY <2>1, <2>2
<1> QED
  BY <1>1, <1>2, <1>3, <1>4, <1>5, <1>6, <1>7, <1>8 DEF Next, Client

\* Whatever is cut, lost or misread, the receive loop hands up no byte of the
\* server twice and none out of order (tcp_io.c:437-495).
THEOREM RecvBytesOnceInOrder == Spec => []BytesOnceInOrder
<1>1. OrderInv => BytesOnceInOrder
  BY DEF OrderInv
<1> QED
  BY OrderInit, OrderStep, <1>1, PTL DEF Spec

-----------------------------------------------------------------------------
(* The channel of whole messages                                             *)

\* A step delivers one result or none, and no result while the server writes.
LEMMA OneResult ==
  ASSUME TypeInv, [Next]_vars
  PROVE  \/ UNCHANGED delivered
         \/ /\ UNCHANGED sizes
            /\ \E b \in Seq(Byte) : delivered' = Append(delivered, b)
<1>a. TypeInv'
  BY TypeInvStep
<1>1. CASE RecvOne \/ RecvBody
  <2>1. UNCHANGED sizes /\ buff' \in Seq(Byte)
    BY <1>1, <1>a DEF RecvOne, RecvBody, TypeInv, TypeOK
  <2>2. UNCHANGED delivered \/ delivered' = Append(delivered, buff')
    BY <1>1 DEF RecvOne, RecvBody, Deliver
  <2> QED
    BY <2>1, <2>2
<1>2. CASE RecvFails
  <2>1. CASE pc = "body"
    <3> DEFINE b == SubSeq(buff, 1, HeadLen - 1)
    <3>1. /\ Len(buff) \in Nat /\ buff \in Seq(Byte) /\ HeadLen \in Nat /\ HeadLen > 0
          /\ \A i \in 1..Len(buff) : buff[i] \in Byte
      BY OrderFacts
    <3>2. HeadLen - 1 \in 0..Len(buff)
      BY <2>1, <3>1 DEF TypeInv, Reading
    <3>3. b \in Seq(Byte)
      BY <3>1, <3>2, SubSeqProperties
    <3>4. UNCHANGED sizes /\ delivered' = Append(delivered, b)
      BY <2>1, <1>2 DEF RecvFails, Deliver
    <3> QED
      BY <3>3, <3>4
  <2>2. CASE pc # "body"
    BY <2>2, <1>2 DEF RecvFails
  <2> QED
    BY <2>1, <2>2
<1>3. UNCHANGED delivered \/ RecvOne \/ RecvBody \/ RecvFails
  BY DEF Next, Client, Write, Close, Lose, Authenticated, Call, RecvHead, Rest, vars
<1> QED
  BY <1>1, <1>2, <1>3

\* The length of what the server has written changes by one message at a time.
LEMMA OneMessage ==
  ASSUME [Next]_vars
  PROVE  \/ UNCHANGED sizes
         \/ /\ UNCHANGED delivered /\ Len(sizes) < MaxFrames
            /\ \E n \in 1..MaxBody : sizes' = Append(sizes, n)
  BY DEF Next, Client, Write, Close, Lose, Authenticated, Call, RecvOne, RecvHead, RecvBody,
         RecvFails, Rest, vars

PushedOf(z) == [i \in 1..Len(z) |-> Message(i, z[i])]
Pushed == PushedOf(sizes)

LEMMA PushedMessages ==
  ASSUME NEW z \in Seq(1..MaxBody), Len(z) <= MaxFrames
  PROVE  /\ PushedOf(z) \in Seq(Seq(Byte)) /\ Len(PushedOf(z)) = Len(z)
         /\ \A i \in 1..Len(z) : PushedOf(z)[i] = Message(i, z[i])
                                  /\ Message(i, z[i]) \in Seq(Byte)
<1>1. Len(z) \in Nat /\ MaxBody \in Nat /\ MaxFrames \in Nat
  BY RecvAssumption
<1>2. ASSUME NEW i \in 1..Len(z) PROVE Message(i, z[i]) \in Seq(Byte)
  <2>1. i \in 1..MaxFrames
    BY <1>1
  <2>2. z[i] \in 1..MaxBody
    BY <1>1, ElementOfSeq
  <2>3. z[i] \in 0..MaxBody
    BY <2>2, <1>1
  <2> QED
    BY <2>1, <2>3, MessageBytes
<1>3. PushedOf(z) \in [1..Len(z) -> Seq(Byte)]
  BY <1>2 DEF PushedOf
<1>4. PushedOf(z) \in Seq(Seq(Byte)) /\ Len(PushedOf(z)) = Len(z)
  BY <1>1, <1>3 DEF PushedOf
<1> QED
  BY <1>2, <1>4 DEF PushedOf

\* A message of the server is pushed behind the others.
LEMMA PushedWrite ==
  ASSUME TypeInv, TypeInv', NEW n \in 1..MaxBody, sizes' = Append(sizes, n)
  PROVE  Pushed' = Append(Pushed, Message(Len(sizes) + 1, n))
<1> DEFINE L == Len(sizes)
           p == PushedOf(sizes)
           q == PushedOf(sizes')
           m == Message(L + 1, n)
<1>1. /\ Len(sizes') = L + 1 /\ \A i \in 1..L : sizes'[i] = sizes[i]
      /\ sizes'[L + 1] = n /\ L \in Nat
  BY AppendOne, OrderFacts DEF TypeInv, TypeOK
<1>2. /\ p \in Seq(Seq(Byte)) /\ Len(p) = L
      /\ \A i \in 1..L : p[i] = Message(i, sizes[i])
  BY PushedMessages DEF TypeInv, TypeOK
<1>3. /\ q \in Seq(Seq(Byte)) /\ Len(q) = Len(sizes')
      /\ \A i \in 1..Len(sizes') : q[i] = Message(i, sizes'[i])
                                   /\ Message(i, sizes'[i]) \in Seq(Byte)
  BY PushedMessages DEF TypeInv, TypeOK
<1>4. m \in Seq(Byte)
  BY <1>1, <1>3
<1> HIDE DEF p, q, m, L
<1>5. /\ Append(p, m) \in Seq(Seq(Byte)) /\ Len(Append(p, m)) = L + 1
      /\ \A i \in 1..L : Append(p, m)[i] = p[i]
      /\ Append(p, m)[L + 1] = m
  BY <1>2, <1>4, AppendOne
<1>6. q \in Seq(Seq(Byte)) /\ Len(q) = L + 1
  BY <1>1, <1>3
<1>7. ASSUME NEW i \in 1..L + 1 PROVE q[i] = Append(p, m)[i]
  <2>1. q[i] = Message(i, sizes'[i])
    BY <1>1, <1>3
  <2>2. CASE i \in 1..L
    BY <2>1, <2>2, <1>1, <1>2, <1>5
  <2>3. CASE i = L + 1
    BY <2>1, <2>3, <1>1, <1>5 DEF m
  <2>4. i \in 1..L \/ i = L + 1
    BY <1>1
  <2> QED
    BY <2>2, <2>3, <2>4
<1>8. q = Append(p, m)
  BY <1>5, <1>6, <1>7, SeqEqual
<1> QED
  BY <1>8 DEF p, q, m, L, Pushed

\* Without trouble a step is one of the channel, or leaves it alone.
LEMMA ChannelStep ==
  ASSUME WholeInv, [Next]_vars, ~trouble'
  PROVE  [Channel!Next]_(Channel!vars)
<1>1. WholeInv' /\ TypeInv /\ TypeInv'
  BY WholeInvStep DEF WholeInv
<1>2. WholeMessagesInOrder'
  BY <1>1 DEF WholeInv, Steady
<1>3. CASE UNCHANGED <<sizes, delivered>>
  BY <1>3 DEF Channel!vars
<1>4. ASSUME NEW n \in 1..MaxBody, sizes' = Append(sizes, n), UNCHANGED delivered,
             Len(sizes) < MaxFrames
      PROVE  Channel!Next
  <2>1. Pushed' = Append(Pushed, Message(Len(sizes) + 1, n))
    BY <1>1, <1>4, PushedWrite
  <2>2. Len(sizes) + 1 \in 1..MaxFrames
    BY <1>1, <1>4, OrderFacts
  <2>3. Message(Len(sizes) + 1, n)
        \in {Message(i, k) : i \in 1..MaxFrames, k \in 1..MaxBody}
    BY <2>2
  <2>4. Channel!Push(Message(Len(sizes) + 1, n))
    BY <2>1, <1>4 DEF Channel!Push, Pushed, PushedOf
  <2> QED
    BY <2>3, <2>4 DEF Channel!Next
<1>5. ASSUME NEW b \in Seq(Byte), delivered' = Append(delivered, b), UNCHANGED sizes
      PROVE  Channel!Next
  <2> DEFINE d == Len(delivered)
  <2>1. /\ Len(delivered') = d + 1 /\ delivered'[d + 1] = b /\ d \in Nat
    BY <1>1, <1>5, AppendOne, OrderFacts
  <2>2. d + 1 \in 1..Len(delivered')
    BY <2>1
  <2>3. d + 1 <= Len(sizes) /\ b = Message(d + 1, sizes[d + 1])
    BY <2>1, <2>2, <1>2, <1>5 DEF WholeMessagesInOrder
  <2>4. d + 1 \in 1..Len(sizes) /\ d < Len(sizes)
    BY <2>1, <2>3, <1>1, OrderFacts
  <2>5. Len(Pushed) = Len(sizes) /\ Pushed[d + 1] = b
    BY <2>3, <2>4, <1>1, PushedMessages DEF Pushed, TypeInv, TypeOK
  <2>6. Channel!Deliver
    BY <2>4, <2>5, <1>5 DEF Channel!Deliver, Pushed, PushedOf
  <2> QED
    BY <2>6 DEF Channel!Next
<1> QED
  BY <1>1, <1>3, <1>4, <1>5, OneResult, OneMessage

\* Until something goes wrong the byte-wise receive loop takes the steps of the
\* channel of whole messages, however TCP cuts them (tcp_io.c:437-495).
THEOREM RecvChannelUntilTrouble == Spec => ChannelUntilTrouble
<1>1. WholeInv /\ [Next]_vars => [trouble' \/ Channel!Next]_(Channel!vars)
  BY ChannelStep
<1> QED
  BY WholeInvInit, WholeInvStep, <1>1, PTL DEF Spec, ChannelUntilTrouble

\* When the answer to the authentication comes alone and the rest of a message
\* in time, nothing goes wrong.
LEMMA NoTroubleStep ==
  ASSUME AuthAnswer = "alone", RestComes, WholeInv, ~trouble, [Next]_vars
  PROVE  ~trouble'
<1>1. CASE Lose
  BY <1>1 DEF Lose
<1>2. CASE RecvFails
  <2>1. trouble' = (trouble \/ (stream \o buff # <<>> /\ ~EndOfStream))
        /\ (EndOfStream \/ ReadTimeout)
    BY <1>2, Zenon DEF RecvFails
  <2>2. CASE EndOfStream
    BY <2>1, <2>2
  <2>3. CASE ReadTimeout
    <3>1. stream = <<>> /\ buff = <<>>
      BY <2>3 DEF ReadTimeout
    <3>2. stream \o buff = <<>>
      BY <3>1, EmptySeq, ConcatEmptySeq
    <3> QED
      BY <2>1, <3>2
  <2> QED
    BY <2>1, <2>2, <2>3
<1>3. CASE RecvOne
  <2>1. PICK k \in 1..Least(Len(stream), BuffSize) :
           /\ k = HeadLen + sizes[1] /\ buff' = Taken(k)
           /\ trouble' = (trouble \/ buff' # Message(1, sizes[1]))
    BY <1>3 DEF RecvOne
  <2>2. k \in 1..Len(stream) /\ Len(stream) > 0
    <3>1. Len(stream) \in Nat /\ BuffSize \in Nat
      BY SteadyFacts
    <3> QED
      BY <2>1, <3>1 DEF Least
  <2>3. Steady /\ pc = "one"
    BY <1>3 DEF WholeInv, RecvOne
  <2>4. delivered = <<>> /\ Len(delivered) = 0 /\ Partial = 0
    BY <2>3, EmptySeq DEF Steady, Partial
  <2>5. PICK s : Placed(s, sizes, stream, 0, 0)
    BY <2>3, <2>4 DEF Steady, Lies
  <2>a. /\ sizes \in Seq(1..MaxBody) /\ stream \in Seq(Byte)
        /\ 0 \in Nat /\ Len(stream) \in Nat
    BY SteadyFacts DEF TypeInv, TypeOK, WholeInv
  <2>6. /\ 0 < Len(sizes)
        /\ \A i \in 1..Len(stream) :
              i + 0 <= HeadLen + sizes[0 + 1] => stream[i] = [frame |-> 0 + 1, pos |-> i + 0]
    BY <2>2, <2>5, <2>a, PlacedNext, ZenonT(30)
  <2>7. 1 \in 1..MaxFrames /\ sizes[1] \in 0..MaxBody
    <3>1. 1 \in 1..Len(sizes) /\ 1 \in 1..MaxFrames
      BY <2>6, SteadyFacts
    <3> QED
      BY <3>1, SteadyFacts
  <2>8. /\ Taken(k) \in Seq(Byte) /\ Len(Taken(k)) = k
        /\ \A i \in 1..k : Taken(k)[i] = stream[i]
    BY <2>2, TakenBytes DEF WholeInv
  <2>9. \A j \in 1..HeadLen + sizes[1] : Taken(k)[j] = [frame |-> 1, pos |-> j]
    <3> SUFFICES ASSUME NEW j \in 1..k PROVE Taken(k)[j] = [frame |-> 1, pos |-> j]
      BY <2>1
    <3>1. j \in 1..Len(stream) /\ j + 0 = j /\ 0 + 1 = 1
      BY <2>2, SteadyFacts
    <3>2. j <= HeadLen + sizes[1]
      BY <2>1
    <3> QED
      BY <2>6, <2>8, <3>1, <3>2
  <2>10. Taken(k) = Message(1, sizes[1])
    BY <2>1, <2>7, <2>8, <2>9, IsMessage
  <2> QED
    BY <2>1, <2>10
<1>4. CASE UNCHANGED trouble
  BY <1>4
<1>5. UNCHANGED trouble \/ Lose \/ RecvOne \/ RecvFails
  BY Zenon DEF Next, Client, Write, Close, Authenticated, Call, RecvHead, RecvBody, Rest, vars
<1> QED
  BY <1>1, <1>2, <1>3, <1>4, <1>5

\* Then the receive loop over TCP implements the receiving half of FrameChannel,
\* which is what packet_io.c promises of it to its callers.
THEOREM RecvImplementsChannel ==
  ASSUME AuthAnswer = "alone", RestComes
  PROVE  Spec => Channel!Spec
<1>1. Init => Channel!Init
  <2> SUFFICES ASSUME Init PROVE Channel!Init
    OBVIOUS
  <2>1. sizes = <<>> /\ Len(sizes) = 0 /\ delivered = <<>>
    BY EmptySeq DEF Init
  <2>2. [i \in 1..Len(sizes) |-> Message(i, sizes[i])] = <<>>
    BY <2>1
  <2> QED
    BY <2>1, <2>2 DEF Channel!Init
<1>2. Init => WholeInv /\ ~trouble
  BY WholeInvInit DEF Init
<1>3. WholeInv /\ ~trouble /\ [Next]_vars => (WholeInv /\ ~trouble)'
  BY WholeInvStep, NoTroubleStep
<1>4. WholeInv /\ ~trouble /\ [Next]_vars => [Channel!Next]_(Channel!vars)
  BY ChannelStep, NoTroubleStep
<1> QED
  BY <1>1, <1>2, <1>3, <1>4, PTL DEF Spec, Channel!Spec

-----------------------------------------------------------------------------
(* How long a call can take                                                  *)

\* The calls of recv() that can still come: one for each byte that is missing,
\* and the one that fails.
Left ==
    IF pc = "idle" THEN 0
    ELSE IF pc = "one" THEN 1
    ELSE IF pc = "head" THEN HeadLen + MaxBody + 2 - Len(buff)
    ELSE HeadLen + want + 1 - Len(buff)

LeftShrinks == [][pc # "idle" => Left' < Left \/ UNCHANGED <<pc, buff, want>>]_vars

LEMMA LeftBound == TypeInv => Left \in 0..HeadLen + MaxBody + 2
<1> SUFFICES ASSUME TypeInv PROVE Left \in 0..HeadLen + MaxBody + 2
  OBVIOUS
<1>1. /\ Len(buff) \in Nat /\ HeadLen \in Nat \ {0} /\ MaxBody \in Nat
      /\ want \in 0..MaxBody /\ pc \in {"idle", "one", "head", "body"}
  BY RecvAssumption DEF TypeInv, TypeOK
<1>2. CASE pc = "idle" \/ pc = "one"
  BY <1>1, <1>2 DEF Left
<1>3. CASE pc = "head"
  BY <1>1, <1>3 DEF Left, TypeInv, Reading
<1>4. CASE pc = "body"
  BY <1>1, <1>4 DEF Left, TypeInv, Reading
<1> QED
  BY <1>1, <1>2, <1>3, <1>4

LEMMA LeftStep ==
  ASSUME TypeInv, [Next]_vars, pc # "idle"
  PROVE  Left' < Left \/ UNCHANGED <<pc, buff, want>>
<1>a. TypeInv'
  BY TypeInvStep
<1>1. /\ Len(buff) \in Nat /\ HeadLen \in Nat \ {0} /\ MaxBody \in Nat
      /\ want \in 0..MaxBody /\ want' \in 0..MaxBody
      /\ Len(stream) \in Nat
  BY <1>a, RecvAssumption DEF TypeInv, TypeOK
<1>2. Left \in Nat /\ Left > 0
  <2>1. CASE pc = "one"
    BY <2>1 DEF Left
  <2>2. CASE pc = "head"
    BY <1>1, <2>2 DEF Left, TypeInv, Reading
  <2>3. CASE pc = "body"
    BY <1>1, <2>3 DEF Left, TypeInv, Reading
  <2> QED
    BY <2>1, <2>2, <2>3 DEF TypeInv, TypeOK
<1>3. CASE pc' = "idle"
  BY <1>2, <1>3 DEF Left
<1>4. CASE RecvHead /\ pc' # "idle"
  <2>1. PICK k \in 1..Least(Len(stream), HeadLen - Len(buff)) :
           /\ buff' = buff \o Taken(k)
           /\ \/ UNCHANGED <<pc, want>>
              \/ Complete(buff', HeadLen) /\ pc' = "body"
    BY <1>4 DEF RecvHead
  <2>2. pc = "head" /\ Len(buff) < HeadLen
    BY <1>4 DEF RecvHead, TypeInv, Reading
  <2>3. k \in 1..Len(stream)
    BY <1>1, <2>1, <2>2 DEF Least
  <2>4. Len(buff') = Len(buff) + k /\ k \in Nat \ {0}
    BY <1>1, <2>1, <2>3, MoreBytes, SMTT(30)
  <2>5. CASE UNCHANGED <<pc, want>>
    BY <1>1, <2>2, <2>4, <2>5 DEF Left
  <2>6. CASE Complete(buff', HeadLen) /\ pc' = "body"
    <3>1. Len(buff') = HeadLen
      BY <2>6 DEF Complete
    <3> QED
      BY <1>1, <2>2, <2>6, <3>1 DEF Left
  <2> QED
    BY <2>1, <2>5, <2>6
<1>5. CASE RecvBody /\ pc' # "idle"
  <2>1. PICK k \in 1..Least(Len(stream), HeadLen + want - Len(buff)) :
           buff' = buff \o Taken(k)
    BY <1>5 DEF RecvBody
  <2>2. pc = "body" /\ pc' = "body" /\ want' = want
    BY <1>5 DEF RecvBody, Deliver
  <2>3. k \in 1..Len(stream)
    BY <1>1, <2>1 DEF Least
  <2>4. Len(buff') = Len(buff) + k /\ k \in Nat \ {0}
    BY <1>1, <2>1, <2>3, MoreBytes, SMTT(30)
  <2> QED
    BY <1>1, <2>2, <2>4 DEF Left
<1>6. CASE UNCHANGED <<pc, buff, want>>
  BY <1>6
<1>7. pc' = "idle" \/ RecvHead \/ RecvBody \/ UNCHANGED <<pc, buff, want>>
  <2>1. CASE RecvOne
    BY <2>1 DEF RecvOne, Deliver
  <2>2. CASE RecvFails
    BY <2>2 DEF RecvFails, Deliver
  <2>3. RecvOne \/ RecvFails \/ RecvHead \/ RecvBody \/ UNCHANGED <<pc, buff, want>>
    BY DEF Next, Client, Write, Close, Lose, Authenticated, Call, Rest, vars
  <2> QED
    BY <2>1, <2>2, <2>3
<1> QED
  BY <1>3, <1>4, <1>5, <1>6, <1>7

\* Whatever is cut, lost or misread, and whatever length a prefix says, each
\* recv() of a call brings it nearer to its end: net_tcp_recv_buffer() gives the
\* mutex back after at most HeadLen + MaxBody + 2 of them, and each returns
\* within the read timeout (tcp_io.c:391-425).
THEOREM RecvEnds == Spec => [](Left \in 0..HeadLen + MaxBody + 2) /\ LeftShrinks
<1>1. TypeInv /\ [Next]_vars
      => [pc # "idle" => Left' < Left \/ UNCHANGED <<pc, buff, want>>]_vars
  BY LeftStep
<1> QED
  BY TypeInvInit, TypeInvStep, LeftBound, <1>1, PTL DEF Spec, LeftShrinks
=============================================================================
