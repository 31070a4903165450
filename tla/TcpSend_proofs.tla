--------------------------- MODULE TcpSend_proofs ---------------------------
(* The send loop, for frames of any length cut anywhere, any number of       *)
(* calls, any width of size_t and any errors: types are kept, what is        *)
(* reported as sent is whole unless an error has struck in its middle, and   *)
(* the loop ends.                                                            *)
EXTENDS TcpSend, SequenceTheorems, TLAPS

LEMMA SumKept ==
  ASSUME NEW b \in 0..FrameLen, NEW k \in 1..FrameLen - b, bytesSent = b
  PROVE  AddSent(k) = b + k /\ b + k \in 0..FrameLen
<1>1. b + k \in Nat /\ b + k < SizeLimit /\ SizeLimit \in Nat \ {0}
  BY SendAssumption
<1>2. (b + k) % SizeLimit = b + k
  BY <1>1
<1> QED
  BY <1>2, SendAssumption DEF AddSent

\* An error counts as minus one, and wraps below zero.
LEMMA ErrorCounts ==
  ASSUME NEW b \in 0..FrameLen, bytesSent = b
  PROVE  /\ b = 0 => AddError = SizeLimit - 1
         /\ b > 0 => AddError = b - 1
<1>1. CASE b = 0
  <2>1. SizeLimit - 1 \in Nat /\ SizeLimit \in Nat \ {0} /\ SizeLimit - 1 < SizeLimit
    BY SendAssumption
  <2>2. (SizeLimit - 1) % SizeLimit = SizeLimit - 1
    BY <2>1
  <2>3. 0 + SizeLimit - 1 = SizeLimit - 1
    BY <2>1
  <2> QED
    BY <1>1, <2>2, <2>3 DEF AddError
<1>2. CASE b > 0
  <2>1. /\ SizeLimit \in Nat \ {0} /\ b - 1 \in Nat /\ b - 1 < SizeLimit
        /\ b + SizeLimit - 1 = SizeLimit + (b - 1)
    BY <1>2, SendAssumption
  <2>2. (SizeLimit + (b - 1)) % SizeLimit = b - 1
    BY <2>1
  <2> QED
    BY <1>2, <2>1, <2>2 DEF AddError
<1> QED
  BY <1>1, <1>2

-----------------------------------------------------------------------------
(* Types                                                                     *)

Counted ==
    /\ sendPc = "send" => bytesSent \in 0..FrameLen /\ bytesSent < FrameLen /\ frame >= 1
    /\ sendPc = "return" => frame >= 1 /\ bytesSent \in {FrameLen, SizeLimit - 1}

TypeInv == SendTypeOK /\ Counted

\* The pieces of a frame, and the stream with one of them.
LEMMA PieceBytes ==
  ASSUME TypeInv, sendPc = "send", NEW k \in 1..FrameLen - bytesSent
  PROVE  /\ Piece(k) \in Seq(SentByte) /\ Len(Piece(k)) = k
         /\ \A i \in 1..k : Piece(k)[i] = [frame |-> frame, pos |-> bytesSent + i]
<1>1. k \in Nat /\ bytesSent \in Nat /\ FrameLen \in Nat
  BY SendAssumption DEF TypeInv, Counted
<1>2. \A i \in 1..k : [frame |-> frame, pos |-> bytesSent + i] \in SentByte
  BY <1>1, SendAssumption DEF TypeInv, SendTypeOK, Counted, SentByte
<1> QED
  BY <1>1, <1>2 DEF Piece

LEMMA AcceptStep ==
  ASSUME TypeInv, NEW k \in 1..FrameLen - bytesSent, Accept(k)
  PROVE  /\ written' \in Seq(SentByte) /\ Len(written') = Len(written) + k
         /\ \A i \in 1..Len(written) : written'[i] = written[i]
         /\ \A i \in 1..k :
               written'[Len(written) + i] = [frame |-> frame, pos |-> bytesSent + i]
         /\ bytesSent' = bytesSent + k /\ bytesSent' \in 0..FrameLen
         /\ bytesSent \in 0..FrameLen /\ frame \in 1..MaxSends /\ sendPc = "send"
         /\ k \in Nat \ {0} /\ ~broken
         /\ \/ sendPc' = "send" /\ bytesSent' < FrameLen
            \/ sendPc' = "return" /\ bytesSent' = FrameLen
         /\ UNCHANGED <<frame, broken, passed, marred, whole>>
<1>1. /\ sendPc = "send" /\ bytesSent \in 0..FrameLen /\ frame \in 1..MaxSends
      /\ written \in Seq(SentByte) /\ k \in Nat \ {0}
  BY SendAssumption DEF Accept, TypeInv, SendTypeOK, Counted
<1>2. /\ Piece(k) \in Seq(SentByte) /\ Len(Piece(k)) = k
      /\ \A i \in 1..k : Piece(k)[i] = [frame |-> frame, pos |-> bytesSent + i]
  BY <1>1, PieceBytes
<1>3. bytesSent' = bytesSent + k /\ bytesSent' \in 0..FrameLen
  BY <1>1, SumKept DEF Accept
<1>4. written' = written \o Piece(k)
  BY DEF Accept
<1>5. /\ written' \in Seq(SentByte) /\ Len(written') = Len(written) + k
      /\ \A i \in 1..Len(written) : written'[i] = written[i]
      /\ \A i \in 1..k : written'[Len(written) + i] = Piece(k)[i]
  <2>1. ASSUME NEW p \in Seq(SentByte), written' = written \o p
        PROVE  /\ written' \in Seq(SentByte) /\ Len(written') = Len(written) + Len(p)
               /\ \A i \in 1..Len(written) : written'[i] = written[i]
               /\ \A i \in 1..Len(p) : written'[Len(written) + i] = p[i]
    <3>1. written \in Seq(SentByte)
      BY <1>1
    <3> QED
      BY <3>1, <2>1
  <2> QED
    BY <1>2, <1>4, <2>1
<1>6. \/ sendPc' = "send" /\ bytesSent' < FrameLen
      \/ sendPc' = "return" /\ bytesSent' = FrameLen
  BY <1>3, SendAssumption DEF Accept, Continue
<1> QED
  BY <1>1, <1>2, <1>3, <1>5, <1>6 DEF Accept

LEMMA FailStep ==
  ASSUME TypeInv, FailSend
  PROVE  /\ sendPc = "send" /\ UNCHANGED <<written, frame, whole>>
         /\ broken' \in BOOLEAN /\ passed' \in 0..MaxErrors
         /\ marred' = IF bytesSent > 0 THEN marred \union {frame} ELSE marred
         /\ frame \in 1..MaxSends /\ bytesSent \in 0..FrameLen /\ bytesSent < FrameLen
         /\ \/ /\ bytesSent > 0 /\ bytesSent' = bytesSent - 1 /\ sendPc' = "send"
               /\ bytesSent' \in 0..FrameLen /\ bytesSent' < FrameLen
            \/ bytesSent = 0 /\ bytesSent' = SizeLimit - 1 /\ sendPc' = "return"
<1>1. /\ sendPc = "send" /\ bytesSent \in 0..FrameLen /\ bytesSent < FrameLen
      /\ frame \in 1..MaxSends
  BY SendAssumption DEF FailSend, TypeInv, Counted, SendTypeOK
<1>2. passed' \in 0..MaxErrors /\ broken' \in BOOLEAN
  <2>1. passed \in 0..MaxErrors /\ MaxErrors \in Nat /\ broken \in BOOLEAN
    BY SendAssumption DEF TypeInv, SendTypeOK
  <2>2. CASE broken' = TRUE /\ UNCHANGED passed
    BY <2>1, <2>2
  <2>3. CASE ~broken /\ passed < MaxErrors /\ passed' = passed + 1 /\ UNCHANGED broken
    <3>1. passed' \in 0..MaxErrors
      BY <2>1, <2>3
    <3>2. broken' \in BOOLEAN
      BY <2>1, <2>3
    <3> QED
      BY <3>1, <3>2
  <2> QED
    BY <2>2, <2>3 DEF FailSend
<1>3. CASE bytesSent = 0
  <2>1. bytesSent' = SizeLimit - 1 /\ ~(bytesSent' < FrameLen)
    BY <1>1, <1>3, ErrorCounts, SendAssumption DEF FailSend
  <2> QED
    BY <1>1, <1>2, <1>3, <2>1 DEF FailSend, Continue
<1>4. CASE bytesSent > 0
  <2>1. bytesSent' = bytesSent - 1 /\ bytesSent' \in 0..FrameLen /\ bytesSent' < FrameLen
    BY <1>1, <1>4, ErrorCounts, SendAssumption DEF FailSend
  <2> QED
    BY <1>1, <1>2, <1>4, <2>1 DEF FailSend, Continue
<1> QED
  BY <1>1, <1>3, <1>4, SendAssumption

LEMMA TypeInit == SendInit => TypeInv
<1>1. <<>> \in Seq(SentByte)
  OBVIOUS
<1>2. 0 \in 0..FrameLen /\ 0 \in 0..MaxSends /\ 0 \in 0..MaxErrors
  BY SendAssumption
<1>3. ASSUME SendInit PROVE SendTypeOK /\ Counted
  BY <1>1, <1>2, <1>3 DEF SendInit, SendTypeOK, Counted
<1> QED
  BY <1>3 DEF TypeInv

LEMMA TypeNext == TypeInv /\ [SendNext]_sendVars => TypeInv'
<1> SUFFICES ASSUME TypeInv, [SendNext]_sendVars PROVE TypeInv'
  OBVIOUS
<1>1. CASE BeginSend
  BY <1>1, SendAssumption DEF BeginSend, TypeInv, SendTypeOK, Counted
<1>2. ASSUME NEW k \in 1..FrameLen - bytesSent, Accept(k) PROVE TypeInv'
  BY <1>2, AcceptStep, SendAssumption DEF TypeInv, SendTypeOK, Counted
<1>3. CASE FailSend
  <2>1. marred' \subseteq 1..MaxSends
    BY <1>3, FailStep DEF TypeInv, SendTypeOK
  <2>2. bytesSent' \in 0..FrameLen \union {SizeLimit - 1} /\ frame >= 1
    BY <1>3, FailStep
  <2> QED
    BY <1>3, <2>1, <2>2, FailStep DEF TypeInv, SendTypeOK, Counted
<1>4. CASE EndSend
  BY <1>4, SendAssumption DEF EndSend, Reported, TypeInv, SendTypeOK, Counted
<1>5. CASE UNCHANGED sendVars
  BY <1>5 DEF sendVars, TypeInv, SendTypeOK, Counted
<1> QED
  BY <1>1, <1>2, <1>3, <1>4, <1>5 DEF SendNext, InSend, SendRest

\* Type correctness of the send loop: bytes_sent stays within the frame until
\* it wraps to SIZE_MAX, and then the call is over.
THEOREM SendTypeCorrect == SendSpec => []SendTypeOK
<1>1. TypeInv => SendTypeOK
  BY DEF TypeInv
<1> QED
  BY TypeInit, TypeNext, <1>1, PTL DEF SendSpec

-----------------------------------------------------------------------------
(* Whole frames                                                              *)
(*                                                                           *)
(* Until an error strikes in its middle, the last bytesSent bytes on the     *)
(* connection are those of the frame, in order, and none of them is further  *)
(* back (Current).  Struck or not, the bytes of the frame are the last ones  *)
(* (Trailing), and what is in front of them is the end of a frame or a frame *)
(* whose call has failed (TailSettled).                                      *)

Older == \A j \in 1..Len(written) : written[j].frame < frame

Current ==
    /\ bytesSent \in 0..FrameLen
    /\ bytesSent <= Len(written)
    /\ \A i \in 1..bytesSent :
          written[Len(written) - bytesSent + i] = [frame |-> frame, pos |-> i]
    /\ \A j \in 1..Len(written) - bytesSent : written[j].frame < frame

Trailing ==
    \A j \in 1..Len(written) - 1 :
        written[j].frame = frame => written[j + 1].frame = frame

TailSettled ==
    Len(written) > 0 =>
        \/ written[Len(written)].pos = FrameLen
        \/ written[Len(written)].frame \in marred \ whole
        \/ sendPc # "idle" /\ written[Len(written)].frame = frame

SendInv ==
    /\ \A j \in 1..Len(written) : written[j].frame <= frame
    /\ \A f \in whole \union marred : f <= frame
    /\ sendPc # "idle" => frame \notin whole
    /\ sendPc = "send" /\ frame \notin marred => Current
    /\ sendPc = "return" /\ frame \notin marred =>
          (bytesSent = FrameLen /\ Current) \/ (bytesSent # FrameLen /\ Older)
    /\ sendPc = "return" /\ bytesSent = FrameLen =>
          Len(written) > 0 /\ written[Len(written)].pos = FrameLen
    /\ Trailing /\ TailSettled
    /\ CleanIsWhole /\ NoFrameBehindHalf

LEMMA WholeInit == SendInit => SendInv
BY DEF SendInit, SendInv, Trailing, TailSettled, CleanIsWhole, NoFrameBehindHalf

LEMMA Numbers ==
  ASSUME TypeInv
  PROVE  /\ Len(written) \in Nat /\ frame \in Nat /\ FrameLen \in Nat \ {0}
         /\ \A j \in 1..Len(written) : written[j] \in SentByte /\ written[j].frame \in Nat
         /\ \A f \in whole \union marred : f \in Nat
<1>1. /\ written \in Seq(SentByte) /\ frame \in 0..MaxSends
      /\ whole \subseteq 1..MaxSends /\ marred \subseteq 1..MaxSends
  BY DEF TypeInv, SendTypeOK
<1>2. ASSUME NEW j \in 1..Len(written)
      PROVE  written[j] \in SentByte /\ written[j].frame \in Nat
  <2>1. written[j] \in SentByte
    BY <1>1, <1>2, ElementOfSeq
  <2> QED
    BY <2>1 DEF SentByte
<1> QED
  BY <1>1, <1>2, SendAssumption

\* A frame in one piece stays so when bytes of others go behind it.
LEMMA PieceStays ==
  ASSUME NEW f, InOnePiece(f), Len(written) \in Nat, Len(written') \in Nat,
         FrameLen \in Nat \ {0}, Len(written) <= Len(written'),
         \A j \in 1..Len(written) : written'[j] = written[j],
         \A j \in 1..Len(written') : j > Len(written) => written'[j].frame # f
  PROVE  InOnePiece(f)'
<1>1. PICK n \in 0..Len(written) - FrameLen :
         /\ Between(f, n, n + FrameLen)
         /\ \A i \in 1..FrameLen : written[n + i].pos = i
  BY DEF InOnePiece
<1>2. n \in 0..Len(written') - FrameLen
  BY <1>1
<1>3. ASSUME NEW i \in 1..FrameLen PROVE written'[n + i].pos = i
  <2>1. n + i \in 1..Len(written)
    BY <1>1
  <2> QED
    BY <1>1, <2>1
<1>4. ASSUME NEW j \in 1..Len(written')
      PROVE  written'[j].frame = f <=> j \in n + 1..n + FrameLen
  <2>1. CASE j > Len(written)
    BY <1>1, <2>1
  <2>2. CASE j <= Len(written)
    <3>1. j \in 1..Len(written)
      BY <2>2
    <3> QED
      BY <1>1, <3>1 DEF Between
  <2> QED
    BY <2>1, <2>2
<1> QED
  BY <1>2, <1>3, <1>4 DEF InOnePiece, Between

\* What the kernel accepts goes behind the bytes of the same frame, or behind
\* what other calls have left there.
LEMMA WholeAccept ==
  ASSUME TypeInv, SendInv, NEW k \in 1..FrameLen - bytesSent, Accept(k)
  PROVE  SendInv'
<1>1. /\ written' \in Seq(SentByte) /\ Len(written') = Len(written) + k
      /\ \A i \in 1..Len(written) : written'[i] = written[i]
      /\ \A i \in 1..k :
            written'[Len(written) + i] = [frame |-> frame, pos |-> bytesSent + i]
      /\ bytesSent' = bytesSent + k /\ bytesSent' \in 0..FrameLen
      /\ bytesSent \in 0..FrameLen /\ frame \in 1..MaxSends /\ sendPc = "send"
      /\ k \in Nat \ {0}
      /\ \/ sendPc' = "send" /\ bytesSent' < FrameLen
         \/ sendPc' = "return" /\ bytesSent' = FrameLen
      /\ UNCHANGED <<frame, whole, marred>>
  BY AcceptStep DEF Accept
<1>2. Len(written) \in Nat /\ frame \in Nat /\ FrameLen \in Nat \ {0} /\ bytesSent \in Nat
  BY <1>1, Numbers
<1>4. ASSUME NEW j \in 1..Len(written'), j > Len(written)
      PROVE  /\ written'[j] = [frame |-> frame, pos |-> bytesSent + (j - Len(written))]
             /\ written'[j].frame = frame
             /\ written'[j].pos = bytesSent + (j - Len(written))
  <2>1. j - Len(written) \in 1..k /\ Len(written) + (j - Len(written)) = j
    BY <1>1, <1>2, <1>4
  <2>2. written'[j] = [frame |-> frame, pos |-> bytesSent + (j - Len(written))]
    BY <1>1, <2>1
  <2> QED
    BY <2>2
<1>5. \A j \in 1..Len(written') : written'[j].frame <= frame
  <2>1. ASSUME NEW j \in 1..Len(written') PROVE written'[j].frame <= frame
    <3>1. CASE j > Len(written)
      <4>1. written'[j].frame = frame
        BY <1>4, <3>1
      <4> QED
        BY <1>2, <4>1
    <3>2. CASE j <= Len(written)
      BY <1>1, <1>2, <3>2 DEF SendInv
    <3> QED
      BY <1>2, <3>1, <3>2
  <2> QED
    BY <2>1
<1>6. ASSUME frame \notin marred PROVE Current'
  <2>0. Current
    BY <1>1, <1>6 DEF SendInv
  <2>1. Len(written') - bytesSent' = Len(written) - bytesSent /\ bytesSent' <= Len(written')
    BY <1>1, <1>2, <2>0 DEF Current
  <2>2. ASSUME NEW i \in 1..bytesSent'
        PROVE  written'[Len(written') - bytesSent' + i] = [frame |-> frame, pos |-> i]
    <3>1. CASE i <= bytesSent
      <4>1. i \in 1..bytesSent /\ Len(written) - bytesSent + i \in 1..Len(written)
        BY <1>1, <1>2, <2>0, <3>1 DEF Current
      <4> QED
        BY <1>1, <2>0, <2>1, <4>1 DEF Current
    <3>2. CASE i > bytesSent
      <4>0. /\ i \in Nat /\ bytesSent \in Nat /\ k \in Nat /\ Len(written) \in Nat
            /\ i > bytesSent /\ i <= bytesSent + k /\ bytesSent <= Len(written)
            /\ Len(written') = Len(written) + k
        BY <1>1, <1>2, <2>0, <3>2 DEF Current
      <4>1. /\ Len(written) - bytesSent + i \in 1..Len(written')
            /\ Len(written) - bytesSent + i > Len(written)
            /\ bytesSent + ((Len(written) - bytesSent + i) - Len(written)) = i
        BY <4>0
      <4> QED
        BY <1>4, <2>1, <4>1
    <3> QED
      BY <1>1, <1>2, <3>1, <3>2
  <2>3. \A j \in 1..Len(written') - bytesSent' : written'[j].frame < frame
    <3>1. \A j \in 1..Len(written) - bytesSent : j \in 1..Len(written)
      BY <1>2, <2>0 DEF Current
    <3> QED
      BY <1>1, <2>0, <2>1, <3>1 DEF Current
  <2> QED
    BY <1>1, <2>1, <2>2, <2>3 DEF Current
<1>7. CleanIsWhole'
  <2>1. ASSUME NEW f \in whole \ marred PROVE InOnePiece(f)'
    <3>1. f # frame /\ InOnePiece(f)
      BY <1>1, <2>1 DEF SendInv, CleanIsWhole
    <3>2. \A j \in 1..Len(written') : j > Len(written) => written'[j].frame # f
      BY <1>4, <3>1
    <3>3. Len(written') \in Nat /\ Len(written) <= Len(written')
      BY <1>1, <1>2
    <3> QED
      BY <1>1, <1>2, <3>1, <3>2, <3>3, PieceStays
  <2> QED
    BY <1>1, <2>1 DEF CleanIsWhole
<1>8. NoFrameBehindHalf'
  <2>1. ASSUME NEW j \in 1..Len(written') - 1, written'[j].frame # written'[j + 1].frame
        PROVE  written'[j].pos = FrameLen \/ written'[j].frame \in marred \ whole
    <3>1. CASE j < Len(written)
      <4>1. j \in 1..Len(written) - 1 /\ j \in 1..Len(written) /\ j + 1 \in 1..Len(written)
        BY <1>2, <3>1
      <4> QED
        BY <1>1, <2>1, <4>1 DEF SendInv, NoFrameBehindHalf
    <3>2. CASE j = Len(written)
      <4>1. written'[j] = written[j] /\ Len(written) > 0
        BY <1>1, <1>2, <3>2
      <4>2. written'[j + 1].frame = frame
        BY <1>1, <1>2, <1>4, <3>2
      <4> QED
        BY <2>1, <3>2, <4>1, <4>2 DEF SendInv, TailSettled
    <3>3. CASE j > Len(written)
      <4>1. j \in 1..Len(written') /\ j + 1 \in 1..Len(written') /\ j + 1 > Len(written)
        BY <1>1, <1>2, <3>3
      <4>2. written'[j].frame = frame
        BY <1>4, <3>3, <4>1
      <4>3. written'[j + 1].frame = frame
        BY <1>4, <4>1
      <4> QED
        BY <2>1, <4>2, <4>3
    <3> QED
      BY <1>1, <1>2, <3>1, <3>2, <3>3
  <2> QED
    BY <1>1, <2>1 DEF NoFrameBehindHalf
<1>9. Trailing'
  <2>1. ASSUME NEW j \in 1..Len(written') - 1, written'[j].frame = frame
        PROVE  written'[j + 1].frame = frame
    <3>1. CASE j < Len(written)
      <4>1. j \in 1..Len(written) - 1 /\ j \in 1..Len(written) /\ j + 1 \in 1..Len(written)
        BY <1>2, <3>1
      <4> QED
        BY <1>1, <2>1, <4>1 DEF SendInv, Trailing
    <3>2. CASE j >= Len(written)
      <4>1. j + 1 \in 1..Len(written') /\ j + 1 > Len(written)
        BY <1>1, <1>2, <3>2
      <4> QED
        BY <1>4, <4>1
    <3> QED
      BY <1>1, <1>2, <3>1, <3>2
  <2> QED
    BY <1>1, <2>1 DEF Trailing
<1>10. /\ Len(written') \in 1..Len(written') /\ Len(written') > Len(written)
       /\ bytesSent + (Len(written') - Len(written)) = bytesSent'
  BY <1>1, <1>2
<1>11. written'[Len(written')].frame = frame /\ written'[Len(written')].pos = bytesSent'
  BY <1>4, <1>10
<1>12. TailSettled'
  BY <1>1, <1>11 DEF TailSettled
<1>13. sendPc' = "return" /\ bytesSent' = FrameLen =>
          Len(written') > 0 /\ written'[Len(written')].pos = FrameLen
  BY <1>10, <1>2, <1>11
<1>14. sendPc' = "return" /\ frame \notin marred =>
          (bytesSent' = FrameLen /\ Current') \/ (bytesSent' # FrameLen /\ Older')
  BY <1>1, <1>6, <1>2
<1>15. (\A f \in whole \union marred : f <= frame) /\ frame \notin whole
  BY <1>1 DEF SendInv
<1> QED
  BY <1>1, <1>5, <1>6, <1>7, <1>8, <1>9, <1>12, <1>13, <1>14, <1>15 DEF SendInv

\* An error leaves what is on the connection; the frame is marred if there is
\* some of it.
LEMMA WholeFail ==
  ASSUME TypeInv, SendInv, FailSend
  PROVE  SendInv'
<1>1. /\ sendPc = "send" /\ UNCHANGED <<written, frame, whole>> /\ sendPc' # "idle"
      /\ marred' = IF bytesSent > 0 THEN marred \union {frame} ELSE marred
      /\ \/ bytesSent > 0 /\ bytesSent' < FrameLen /\ sendPc' = "send"
         \/ bytesSent = 0 /\ bytesSent' = SizeLimit - 1 /\ sendPc' = "return"
      /\ FrameLen # SizeLimit - 1
  BY FailStep, SendAssumption
<1>2. marred \subseteq marred' /\ (bytesSent > 0 => frame \in marred')
  BY <1>1
<1>3. CleanIsWhole' /\ NoFrameBehindHalf' /\ Trailing' /\ TailSettled'
  <2>1. \A f : InOnePiece(f) => InOnePiece(f)'
    BY <1>1 DEF InOnePiece, Between
  <2>2. CleanIsWhole'
    BY <1>1, <1>2, <2>1 DEF SendInv, CleanIsWhole
  <2>3. NoFrameBehindHalf' /\ Trailing'
    BY <1>1, <1>2 DEF SendInv, NoFrameBehindHalf, Trailing
  <2>4. TailSettled'
    BY <1>1, <1>2 DEF SendInv, TailSettled
  <2> QED
    BY <2>2, <2>3, <2>4
<1>4. CASE bytesSent > 0
  <2>1. \A f \in whole' \union marred' : f <= frame'
    BY <1>1, <1>4, Numbers DEF SendInv
  <2>2. /\ \A j \in 1..Len(written') : written'[j].frame <= frame'
        /\ frame' \notin whole' /\ frame' \in marred' /\ sendPc' = "send"
    BY <1>1, <1>2, <1>4 DEF SendInv
  <2> QED
    BY <1>3, <2>1, <2>2 DEF SendInv
<1>5. CASE bytesSent = 0
  <2>1. /\ marred' = marred /\ sendPc' = "return" /\ bytesSent' # FrameLen
    BY <1>1, <1>5
  <2>2. frame \notin marred => Older
    BY <1>1, <1>5, Numbers DEF SendInv, Current, Older
  <2>3. Older => Older'
    BY <1>1 DEF Older
  <2> QED
    BY <1>1, <1>3, <2>1, <2>2, <2>3 DEF SendInv
<1> QED
  BY <1>1, <1>4, <1>5, FailStep

\* A call that returns has sent the frame as a whole, or bytes of it again, or
\* reports a failure.
LEMMA WholeReturn ==
  ASSUME TypeInv, SendInv, EndSend
  PROVE  SendInv'
<1>1. /\ sendPc = "return" /\ sendPc' = "idle"
      /\ UNCHANGED <<written, frame, bytesSent, marred>> /\ frame \notin whole
      /\ whole' = IF bytesSent = FrameLen THEN whole \union {frame} ELSE whole
  BY DEF EndSend, Reported, SendInv
<1>2. /\ Len(written) \in Nat /\ FrameLen \in Nat \ {0} /\ frame \in Nat
      /\ FrameLen # SizeLimit - 1 /\ bytesSent \in {FrameLen, SizeLimit - 1}
  BY <1>1, SendAssumption, Numbers DEF TypeInv, Counted
<1>3. \A f : InOnePiece(f) => InOnePiece(f)'
  BY <1>1 DEF InOnePiece, Between
<1>4. CASE bytesSent # FrameLen
  <2>1. whole' = whole
    BY <1>1, <1>4
  <2>2. CleanIsWhole' /\ NoFrameBehindHalf' /\ Trailing'
    BY <1>1, <1>3, <2>1 DEF SendInv, CleanIsWhole, NoFrameBehindHalf, Trailing
  <2>3. TailSettled'
    <3>1. SUFFICES ASSUME Len(written) > 0,
                          written[Len(written)].frame = frame, frame \notin marred
                   PROVE  FALSE
      BY <1>1, <2>1 DEF SendInv, TailSettled
    <3>2. Older /\ Len(written) \in 1..Len(written)
      BY <1>1, <1>2, <1>4, <3>1 DEF SendInv
    <3> QED
      BY <1>2, <3>1, <3>2 DEF Older
  <2> QED
    BY <1>1, <2>1, <2>2, <2>3 DEF SendInv
<1>5. CASE bytesSent = FrameLen
  <2>1. whole' = whole \union {frame}
    BY <1>1, <1>5
  <2>2. ASSUME frame \notin marred PROVE InOnePiece(frame)
    <3> DEFINE n == Len(written) - FrameLen
    <3>0. Current
      BY <1>1, <1>5, <2>2 DEF SendInv
    <3>1. n \in 0..Len(written) - FrameLen /\ n + FrameLen = Len(written)
      BY <1>2, <1>5, <3>0 DEF Current
    <3>2. \A i \in 1..FrameLen : written[n + i] = [frame |-> frame, pos |-> i]
      BY <1>5, <3>0 DEF Current
    <3>3. ASSUME NEW j \in 1..Len(written)
          PROVE  written[j].frame = frame <=> j \in n + 1..n + FrameLen
      <4>1. CASE j <= n
        <5>1. j \in 1..n
          BY <3>1, <4>1
        <5>2. written[j].frame < frame
          BY <1>5, <3>0, <5>1 DEF Current
        <5> QED
          BY <1>2, <3>1, <4>1, <5>2, Numbers
      <4>2. CASE j > n
        <5>1. j - n \in 1..FrameLen /\ n + (j - n) = j
          BY <1>2, <3>1, <4>2
        <5>2. written[j] = [frame |-> frame, pos |-> j - n]
          BY <3>2, <5>1
        <5> QED
          BY <1>2, <3>1, <4>2, <5>2
      <4> QED
        BY <1>2, <3>1, <4>1, <4>2
    <3>4. ASSUME NEW i \in 1..FrameLen PROVE written[n + i].pos = i
      <4>1. written[n + i] = [frame |-> frame, pos |-> i]
        BY <3>2
      <4> HIDE DEF n
      <4> QED
        BY <4>1
    <3> HIDE DEF n
    <3> QED
      BY <3>1, <3>3, <3>4 DEF InOnePiece, Between
  <2>3. CleanIsWhole'
    BY <1>1, <1>3, <2>1, <2>2 DEF SendInv, CleanIsWhole
  <2>4. NoFrameBehindHalf'
    BY <1>1, <2>1 DEF SendInv, NoFrameBehindHalf, Trailing
  <2>5. Trailing' /\ TailSettled'
    BY <1>1, <1>5 DEF SendInv, Trailing, TailSettled
  <2>6. \A f \in whole' \union marred : f <= frame
    BY <1>2, <2>1 DEF SendInv
  <2> QED
    BY <1>1, <2>3, <2>4, <2>5, <2>6 DEF SendInv
<1> QED
  BY <1>4, <1>5

LEMMA WholeNext == TypeInv /\ SendInv /\ [SendNext]_sendVars => SendInv'
<1> SUFFICES ASSUME TypeInv, SendInv, [SendNext]_sendVars PROVE SendInv'
  OBVIOUS
<1>n. /\ Len(written) \in Nat /\ frame \in Nat /\ FrameLen \in Nat \ {0}
      /\ \A j \in 1..Len(written) : written[j].frame \in Nat
      /\ \A f \in whole \union marred : f \in Nat
  BY Numbers
<1>1. CASE BeginSend
  <2>1. /\ sendPc = "idle" /\ frame' = frame + 1
        /\ UNCHANGED <<written, marred, whole>>
        /\ \/ bytesSent' = 0 /\ sendPc' = "send"
           \/ bytesSent' = SizeLimit - 1 /\ sendPc' = "return"
        /\ SizeLimit - 1 # FrameLen
    BY <1>1, SendAssumption DEF BeginSend
  <2>2. /\ \A j \in 1..Len(written) : written[j].frame < frame'
        /\ \A f \in whole \union marred : f < frame'
    BY <1>n, <2>1 DEF SendInv
  <2>3. /\ \A j \in 1..Len(written) : written[j].frame <= frame' /\ written[j].frame # frame'
        /\ \A f \in whole \union marred : f <= frame' /\ f # frame'
    BY <1>n, <2>1, <2>2
  <2>4. Older' /\ (bytesSent' = 0 => Current')
    BY <1>n, <2>1, <2>2 DEF Current, Older
  <2>5. CleanIsWhole' /\ NoFrameBehindHalf'
    <3>1. \A f : InOnePiece(f) => InOnePiece(f)'
      BY <2>1 DEF InOnePiece, Between
    <3> QED
      BY <2>1, <3>1 DEF SendInv, CleanIsWhole, NoFrameBehindHalf
  <2>6. Trailing'
    <3>1. \A j \in 1..Len(written) - 1 : j \in 1..Len(written)
      BY <1>n
    <3> QED
      BY <2>1, <2>3, <3>1 DEF Trailing
  <2>7. TailSettled'
    BY <2>1 DEF SendInv, TailSettled
  <2> QED
    BY <2>1, <2>3, <2>4, <2>5, <2>6, <2>7 DEF SendInv
<1>2. ASSUME NEW k \in 1..FrameLen - bytesSent, Accept(k) PROVE SendInv'
  BY <1>2, WholeAccept
<1>3. CASE FailSend
  BY <1>3, WholeFail
<1>4. CASE EndSend
  BY <1>4, WholeReturn
<1>5. CASE UNCHANGED sendVars
  BY <1>5 DEF sendVars, SendInv, Current, Older, Trailing, TailSettled,
              CleanIsWhole, InOnePiece, Between, NoFrameBehindHalf
<1> QED
  BY <1>1, <1>2, <1>3, <1>4, <1>5 DEF SendNext, InSend, SendRest

\* A frame that net_tcp_send_buffer() reports as sent is on the connection in
\* one piece unless send() failed between its bytes, whatever failed before or
\* after, passing errors and the end of the connection alike.
THEOREM SendWhole == SendSpec => []CleanIsWhole
<1>1. SendInv => CleanIsWhole
  BY DEF SendInv
<1> QED
  BY TypeInit, TypeNext, WholeInit, WholeNext, <1>1, PTL DEF SendSpec

\* Half a frame has another one behind it only if send() failed between its
\* bytes and its call has reported a failure, although the session stays open
\* and later calls may succeed.
THEOREM SendNoneBehindHalf == SendSpec => []NoFrameBehindHalf
<1>1. SendInv => NoFrameBehindHalf
  BY DEF SendInv
<1> QED
  BY TypeInit, TypeNext, WholeInit, WholeNext, <1>1, PTL DEF SendSpec

-----------------------------------------------------------------------------
(* The channel of whole frames                                               *)
(*                                                                           *)
(* Until an error strikes in the middle of a frame there are a number of     *)
(* whole frames on the connection and what is out of the current one         *)
(* (Aligned), so that the last byte of a frame makes one more.               *)

Begun == IF sendPc = "idle" \/ bytesSent = SizeLimit - 1 THEN 0 ELSE bytesSent

Aligned == marred = {} => \E n \in Nat : Len(written) = n * FrameLen + Begun

Whole == Len(written) \div FrameLen
Frames == [n \in 1..Whole |-> written[n * FrameLen].frame]
Call1 == [t \in {1} |-> Outcome]
Arg1 == [t \in {1} |-> IF sendPc = "idle" THEN 0 ELSE frame]

LEMMA Quotient ==
  ASSUME NEW n \in Nat, NEW r \in 0..FrameLen - 1, NEW m, m = n * FrameLen + r
  PROVE  m \div FrameLen = n
  BY SendAssumption

LEMMA OneMoreFrame ==
  ASSUME NEW n \in Nat
  PROVE  (n + 1) * FrameLen = n * FrameLen + FrameLen /\ n * FrameLen \in Nat
  BY SendAssumption

\* The end of a frame is a position of the written.
LEMMA FrameEnds ==
  ASSUME NEW n \in Nat, NEW i \in 1..n
  PROVE  i * FrameLen \in 1..n * FrameLen
<1>1. FrameLen \in Nat /\ FrameLen >= 1 /\ i \in Nat /\ i >= 1 /\ i <= n
  BY SendAssumption
<1>2. i * FrameLen \in Nat /\ n * FrameLen \in Nat /\ i * FrameLen >= 1
  BY <1>1
<1>3. i * FrameLen <= n * FrameLen
  BY <1>1
<1> QED
  BY <1>2, <1>3

LEMMA AlignedInit == SendInit => Aligned
<1> SUFFICES ASSUME SendInit PROVE Len(written) = 0 * FrameLen + Begun
  BY DEF Aligned
<1>1. 0 * FrameLen = 0
  BY SendAssumption
<1> QED
  BY <1>1 DEF SendInit, Begun

LEMMA AlignedNext ==
  ASSUME TypeInv, SendInv, Aligned, [SendNext]_sendVars
  PROVE  Aligned'
<1>1. CASE BeginSend
  <2>1. Begun = 0 /\ Begun' = 0 /\ UNCHANGED <<written, marred>>
    BY <1>1, SendAssumption DEF BeginSend, Begun
  <2> QED
    BY <2>1 DEF Aligned
<1>2. ASSUME NEW k \in 1..FrameLen - bytesSent, Accept(k) PROVE Aligned'
  <2> SUFFICES ASSUME marred = {}
               PROVE  \E n \in Nat : Len(written') = n * FrameLen + Begun'
    BY <1>2 DEF Accept, Aligned
  <2>1. /\ Len(written') = Len(written) + k /\ bytesSent' = bytesSent + k /\ sendPc = "send"
        /\ sendPc' # "idle" /\ k \in Nat /\ bytesSent \in 0..FrameLen
        /\ bytesSent' \in 0..FrameLen
    BY <1>2, AcceptStep
  <2>2. Begun = bytesSent /\ Begun' = bytesSent'
    BY <2>1, SendAssumption DEF Begun
  <2>3. PICK n \in Nat : Len(written) = n * FrameLen + bytesSent
    BY <2>2 DEF Aligned
  <2> DEFINE y == n * FrameLen
  <2>4. Len(written') = y + bytesSent'
    <3>1. y \in Nat /\ Len(written) = y + bytesSent
      BY <2>3, OneMoreFrame
    <3> HIDE DEF y
    <3> QED
      BY <2>1, <3>1
  <2> QED
    BY <2>2, <2>4
<1>3. CASE FailSend
  <2>1. CASE bytesSent > 0
    BY <1>3, <2>1, FailStep DEF Aligned
  <2>2. CASE bytesSent = 0
    <3>1. UNCHANGED <<written, marred>> /\ Begun = 0 /\ Begun' = 0
      BY <1>3, <2>2, FailStep, SendAssumption DEF Begun
    <3> QED
      BY <3>1 DEF Aligned
  <2> QED
    BY <1>3, <2>1, <2>2, FailStep
<1>4. CASE EndSend
  <2> SUFFICES ASSUME marred = {}
               PROVE  \E n \in Nat : Len(written') = n * FrameLen + Begun'
    BY <1>4 DEF EndSend, Aligned
  <2>1. /\ sendPc = "return" /\ sendPc' = "idle" /\ UNCHANGED <<written, bytesSent>>
        /\ bytesSent \in {FrameLen, SizeLimit - 1}
    BY <1>4 DEF EndSend, TypeInv, Counted
  <2>2. CASE bytesSent = FrameLen
    <3>1. Begun = FrameLen
      BY <2>1, <2>2, SendAssumption DEF Begun
    <3>2. PICK n \in Nat : Len(written) = n * FrameLen + FrameLen
      BY <3>1 DEF Aligned
    <3>3. Len(written') = (n + 1) * FrameLen + 0 /\ n + 1 \in Nat
      BY <2>1, <3>2, OneMoreFrame
    <3> QED
      BY <2>1, <3>3 DEF Begun
  <2>3. CASE bytesSent = SizeLimit - 1
    BY <2>1, <2>3 DEF Aligned, Begun
  <2> QED
    BY <2>1, <2>2, <2>3
<1>5. CASE UNCHANGED sendVars
  BY <1>5 DEF sendVars, Aligned, Begun
<1> QED
  BY <1>1, <1>2, <1>3, <1>4, <1>5 DEF SendNext, InSend, SendRest

\* The pieces of a frame are not seen, except the last one.
LEMMA AcceptMaps ==
  ASSUME TypeInv, SendInv, Aligned, marred = {}, NEW k \in 1..FrameLen - bytesSent, Accept(k)
  PROVE  [SendChannel!Next]_(SendChannel!vars)
<1>1. /\ written' \in Seq(SentByte) /\ Len(written') = Len(written) + k
      /\ \A i \in 1..Len(written) : written'[i] = written[i]
      /\ \A i \in 1..k :
            written'[Len(written) + i] = [frame |-> frame, pos |-> bytesSent + i]
      /\ bytesSent' = bytesSent + k /\ bytesSent \in 0..FrameLen /\ sendPc = "send"
      /\ k \in Nat \ {0}
      /\ \/ sendPc' = "send" /\ bytesSent' < FrameLen
         \/ sendPc' = "return" /\ bytesSent' = FrameLen
      /\ UNCHANGED <<frame, whole>>
  BY AcceptStep
<1>2. Len(written) \in Nat /\ FrameLen \in Nat \ {0} /\ bytesSent < FrameLen
  BY <1>1, SendAssumption DEF TypeInv, SendTypeOK, Counted
<1>3. PICK n \in Nat : Len(written) = n * FrameLen + bytesSent
  BY <1>1, <1>2, SendAssumption DEF Aligned, Begun
<1>4. n * FrameLen \in Nat /\ (n + 1) * FrameLen = n * FrameLen + FrameLen
  BY OneMoreFrame
<1>5. Whole = n
  BY <1>1, <1>2, <1>3, Quotient DEF Whole
<1>6. ASSUME NEW i \in 1..n
      PROVE  written'[i * FrameLen].frame = written[i * FrameLen].frame
  <2> DEFINE x == i * FrameLen
             y == n * FrameLen
  <2>1. x \in 1..y /\ y \in Nat /\ Len(written) = y + bytesSent
    BY <1>3, <1>4, FrameEnds
  <2>2. written'[x] = written[x]
    <3> HIDE DEF x, y
    <3>1. x \in 1..Len(written)
      BY <1>1, <2>1
    <3> QED
      BY <1>1, <3>1
  <2> QED
    BY <2>2
<1>7. Outcome = "pending" /\ Arg1' = Arg1 /\ Arg1[1] = frame
  BY <1>1, <1>2 DEF Outcome, Arg1
<1>8. CASE sendPc' = "send"
  <2>1. bytesSent' \in 0..FrameLen - 1 /\ Len(written') = n * FrameLen + bytesSent'
    BY <1>1, <1>2, <1>3, <1>4, <1>8
  <2>2. Whole' = n
    BY <2>1, Quotient DEF Whole
  <2>3. Frames' = Frames
    BY <1>5, <1>6, <2>2 DEF Frames
  <2>4. Outcome' = "pending"
    BY <1>2, <1>8, <2>1 DEF Outcome
  <2>5. Call1' = Call1
    BY <1>7, <2>4 DEF Call1
  <2> QED
    BY <1>7, <2>3, <2>5 DEF SendChannel!vars, Frames, Whole, Call1, Arg1
<1>9. CASE sendPc' = "return"
  <2>1. Len(written') = (n + 1) * FrameLen + 0 /\ 0 \in 0..FrameLen - 1 /\ n + 1 \in Nat
    BY <1>1, <1>2, <1>3, <1>4, <1>9
  <2>2. Whole' = n + 1
    BY <2>1, Quotient DEF Whole
  <2>3. written'[(n + 1) * FrameLen].frame = frame
    <3>1. k \in 1..k /\ Len(written) + k = (n + 1) * FrameLen
      BY <1>1, <1>2, <1>3, <1>4, <2>1
    <3>2. written'[Len(written) + k] = [frame |-> frame, pos |-> bytesSent + k]
      BY <1>1, <3>1
    <3> QED
      BY <3>1, <3>2
  <2>4. Frames' = Append(Frames, frame)
    <3>1. \A i \in 1..n + 1 : Frames'[i] = IF i \in 1..n THEN Frames[i] ELSE frame
      <4>1. ASSUME NEW i \in 1..n + 1
            PROVE  Frames'[i] = IF i \in 1..n THEN Frames[i] ELSE frame
        <5>1. Frames'[i] = written'[i * FrameLen].frame
          BY <2>2 DEF Frames
        <5>2. CASE i \in 1..n
          BY <1>5, <1>6, <5>1, <5>2 DEF Frames
        <5>3. CASE i = n + 1
          BY <2>3, <5>1, <5>3
        <5> QED
          BY <5>2, <5>3
      <4> QED
        BY <4>1
    <3>2. Frames' = [i \in 1..n + 1 |-> Frames'[i]]
      BY <2>2 DEF Frames
    <3>3. Frames = [i \in 1..n |-> Frames[i]]
      BY <1>5 DEF Frames
    <3> HIDE DEF Frames
    <3>4. Len(Frames) = n
      BY <3>3
    <3>5. Append(Frames, frame) = [i \in 1..n + 1 |-> IF i \in 1..n THEN Frames[i] ELSE frame]
      BY <3>3, <3>4
    <3> QED
      BY <3>1, <3>2, <3>5
  <2>5. Outcome' = "done"
    BY <1>1, <1>9 DEF Outcome
  <2>6. Call1[1] = "pending" /\ Call1' = [Call1 EXCEPT ![1] = "done"]
    BY <1>7, <2>5 DEF Call1
  <2>7. SendChannel!Transmit(1)
    BY <1>7, <2>4, <2>6 DEF SendChannel!Transmit, Frames, Whole, Call1, Arg1
  <2> QED
    BY <2>7 DEF SendChannel!Next
<1> QED
  BY <1>1, <1>8, <1>9

\* Every step of the loop is one of the channel, or is not seen there.
LEMMA SendMaps ==
  ASSUME TypeInv, SendInv, Aligned, [SendNext]_sendVars, marred' = {}
  PROVE  [SendChannel!Next]_(SendChannel!vars)
<1>0. marred = {}
  BY FailStep DEF SendNext, InSend, SendRest, BeginSend, Accept, EndSend, sendVars
<1>1. CASE BeginSend
  <2>1. /\ sendPc = "idle" /\ frame \in Nat /\ frame' = frame + 1 /\ frame' \in 1..MaxSends
        /\ sendPc' # "idle" /\ bytesSent' # FrameLen /\ UNCHANGED <<written, whole>>
    BY <1>1, SendAssumption DEF BeginSend, TypeInv, SendTypeOK
  <2>2. Outcome \in {"none", "sent", "failed"} /\ Outcome' = "pending"
    BY <2>1, SendAssumption DEF Outcome
  <2>3. Call1[1] \notin {"pending", "done"} /\ Call1' = [Call1 EXCEPT ![1] = "pending"]
    BY <2>2 DEF Call1
  <2>4. Arg1' = [Arg1 EXCEPT ![1] = frame'] /\ Frames' = Frames
    BY <2>1 DEF Arg1, Frames, Whole
  <2>5. SendChannel!StartSend(1, frame')
    BY <2>3, <2>4 DEF SendChannel!StartSend, Frames, Whole, Call1, Arg1
  <2> QED
    BY <2>1, <2>5 DEF SendChannel!Next
<1>2. ASSUME NEW k \in 1..FrameLen - bytesSent, Accept(k)
      PROVE  [SendChannel!Next]_(SendChannel!vars)
  BY <1>0, <1>2, AcceptMaps
<1>3. CASE FailSend
  <2>1. /\ sendPc = "send" /\ bytesSent # FrameLen /\ UNCHANGED <<written, frame, whole>>
        /\ sendPc' \in {"send", "return"} /\ bytesSent' # FrameLen
    BY <1>3, FailStep, SendAssumption DEF TypeInv, Counted
  <2>2. Call1' = Call1 /\ Arg1' = Arg1 /\ Frames' = Frames
    BY <2>1 DEF Call1, Outcome, Arg1, Frames, Whole
  <2> QED
    BY <2>2 DEF SendChannel!vars, Frames, Whole, Call1, Arg1
<1>4. CASE EndSend
  <2>1. /\ sendPc = "return" /\ sendPc' = "idle" /\ UNCHANGED <<written, frame, bytesSent>>
        /\ whole' = IF bytesSent = FrameLen THEN whole \union {frame} ELSE whole
        /\ frame \notin whole /\ frame # 0
    BY <1>4, SendAssumption DEF EndSend, Reported, SendInv, TypeInv, Counted
  <2>2. \/ Outcome = "done" /\ Outcome' = "sent"
        \/ Outcome = "pending" /\ Outcome' = "failed"
    BY <2>1 DEF Outcome
  <2>3. \/ Call1[1] = "done" /\ Call1' = [Call1 EXCEPT ![1] = "sent"]
        \/ Call1[1] = "pending" /\ Call1' = [Call1 EXCEPT ![1] = "failed"]
    BY <2>2 DEF Call1
  <2>4. Arg1' = [Arg1 EXCEPT ![1] = 0] /\ Frames' = Frames
    BY <2>1 DEF Arg1, Frames, Whole
  <2>5. SendChannel!Finish(1)
    BY <2>3, <2>4 DEF SendChannel!Finish, Frames, Whole, Call1, Arg1
  <2> QED
    BY <2>5 DEF SendChannel!Next
<1>5. CASE UNCHANGED sendVars
  <2>1. Call1' = Call1 /\ Arg1' = Arg1 /\ Frames' = Frames
    BY <1>5 DEF sendVars, Call1, Outcome, Arg1, Frames, Whole
  <2> QED
    BY <2>1 DEF SendChannel!vars, Frames, Whole, Call1, Arg1
<1> QED
  BY <1>1, <1>2, <1>3, <1>4, <1>5 DEF SendNext, InSend, SendRest

\* Until an error strikes between the bytes of a frame, the loop over send()
\* implements the sending half of FrameChannel, whatever fails elsewhere:
\* net_tcp_send_buffer() may be taken for one step that puts the whole frame on
\* the connection or nothing, as PacketIO takes it.
THEOREM SendImplementsChannel == SendSpec => ChannelUntilMarred
<1>1. SendInit => SendChannel!Init
  <2> SUFFICES ASSUME SendInit PROVE SendChannel!Init
    OBVIOUS
  <2>1. Len(written) = 0 * FrameLen + 0 /\ 0 \in 0..FrameLen - 1
    BY SendAssumption DEF SendInit
  <2>2. Whole = 0
    BY <2>1, Quotient DEF Whole
  <2>3. Frames = <<>>
    BY <2>2 DEF Frames
  <2>4. Call1 = [t \in {1} |-> "none"] /\ Arg1 = [t \in {1} |-> 0]
    BY DEF SendInit, Call1, Outcome, Arg1
  <2> QED
    BY <2>3, <2>4 DEF SendChannel!Init, Frames, Whole, Call1, Arg1
<1>2. TypeInv /\ SendInv /\ Aligned /\ [SendNext]_sendVars => Aligned'
  BY AlignedNext
<1>3. TypeInv /\ SendInv /\ Aligned /\ [SendNext]_sendVars =>
         [marred' # {} \/ SendChannel!Next]_(SendChannel!vars)
  BY SendMaps
<1> QED
  BY TypeInit, TypeNext, WholeInit, WholeNext, AlignedInit, <1>1, <1>2, <1>3, PTL
     DEF SendSpec, ChannelUntilMarred

-----------------------------------------------------------------------------
(* How long a call can take                                                  *)

\* The calls of send() that can still come: one for each byte that is not out,
\* two for each error that can still pass and, once the connection is gone, one
\* for each byte that was, as errors are counted down.
Left ==
    IF sendPc # "send" THEN 0
    ELSE IF broken THEN bytesSent + 1
    ELSE 2 * FrameLen + 1 - bytesSent + 2 * (MaxErrors - passed)

LeftShrinks == [][sendPc = "send" => Left' < Left]_sendVars

LEMMA LeftBound == TypeInv => Left \in 0..2 * FrameLen + 1 + 2 * MaxErrors
<1> SUFFICES ASSUME TypeInv, sendPc = "send"
             PROVE  Left \in 0..2 * FrameLen + 1 + 2 * MaxErrors
  BY SendAssumption DEF Left
<1>1. /\ bytesSent \in 0..FrameLen /\ FrameLen \in Nat /\ bytesSent < FrameLen
      /\ passed \in 0..MaxErrors /\ MaxErrors \in Nat
  BY SendAssumption DEF TypeInv, Counted, SendTypeOK
<1> QED
  BY <1>1 DEF Left

LEMMA LeftStep ==
  ASSUME TypeInv, [SendNext]_sendVars, sendPc = "send"
  PROVE  Left' < Left \/ UNCHANGED sendVars
<1>1. /\ bytesSent \in 0..FrameLen /\ FrameLen \in Nat \ {0} /\ bytesSent < FrameLen
      /\ passed \in 0..MaxErrors /\ MaxErrors \in Nat
  BY SendAssumption DEF TypeInv, Counted, SendTypeOK
<1>2. ASSUME NEW k \in 1..FrameLen - bytesSent, Accept(k) PROVE Left' < Left
  <2>1. /\ bytesSent' = bytesSent + k /\ k \in Nat \ {0} /\ ~broken /\ UNCHANGED <<broken, passed>>
        /\ sendPc' \in {"send", "return"} /\ (sendPc' = "send" => bytesSent' < FrameLen)
    BY <1>2, AcceptStep
  <2> QED
    BY <1>1, <2>1 DEF Left
<1>3. CASE FailSend
  <2>1. CASE bytesSent = 0
    <3>1. sendPc' = "return"
      BY <1>3, <2>1, FailStep
    <3> QED
      BY <1>1, <3>1 DEF Left
  <2>2. CASE bytesSent > 0
    <3>1. bytesSent' = bytesSent - 1 /\ sendPc' = "send"
      BY <1>3, <2>2, FailStep
    <3>2. CASE broken' = TRUE
      BY <1>1, <2>2, <3>1, <3>2 DEF Left
    <3>3. CASE ~broken /\ passed' = passed + 1 /\ UNCHANGED broken
      BY <1>1, <2>2, <3>1, <3>3 DEF Left
    <3> QED
      BY <1>3, <3>2, <3>3 DEF FailSend
  <2> QED
    BY <1>1, <2>1, <2>2
<1> QED
  BY <1>2, <1>3 DEF SendNext, BeginSend, InSend, EndSend, SendRest

\* net_tcp_send_buffer() gives the mutex back after at most one call of send()
\* for each byte, one to count it back and two for each error that passes,
\* although no error ends the loop (tcp_io.c:309-319).
THEOREM SendEnds ==
  SendSpec => [](Left \in 0..2 * FrameLen + 1 + 2 * MaxErrors) /\ LeftShrinks
<1>1. TypeInv /\ [SendNext]_sendVars => [sendPc = "send" => Left' < Left]_sendVars
  BY LeftStep
<1> QED
  BY TypeInit, TypeNext, LeftBound, <1>1, PTL DEF SendSpec, LeftShrinks
=============================================================================
