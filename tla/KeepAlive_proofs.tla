--------------------------- MODULE KeepAlive_proofs ---------------------------
(* The bounds on the client's silence, for every period, every delay of the  *)
(* polling and every width of the counters.                                  *)
(*                                                                           *)
(* The argument follows the timer.  Between two polls the timer is at most   *)
(* Delay old.  While the last packet is older than the timer the copy of the *)
(* counter equals the counter, so the next expiry sends a keepalive; hence   *)
(* the last packet is never older than one expiry before the last one.       *)
EXTENDS KeepAlive, TLAPS

Delay == Period + PollGap

Busy == {"expired", "keepalive", "answer", "record"}

\* Times are in order, and a poll that has found the timer expired has set it.
Clock ==
    /\ clock \in Nat /\ keepaliveTimestamp \in Nat
    /\ polled \in Nat /\ lastOut \in Nat
    /\ keepaliveTimestamp <= polled
    /\ polled <= clock
    /\ clock <= polled + PollGap
    /\ lastOut <= clock
    /\ pollAt \in Busy \union {"idle", "failed"}
    /\ pollAt = "idle" => polled <= keepaliveTimestamp + Period
    /\ pollAt \in Busy => keepaliveTimestamp = polled

\* No-wait mode: the last packet is at most one expiry old.
RecentNoWait ==
  ~responseWait =>
    /\ pollAt \in {"idle", "answer", "record"} => lastOut >= keepaliveTimestamp
    /\ pollAt \in {"expired", "keepalive"} =>
          lastOut + Delay >= keepaliveTimestamp

NoWaitInv == Clock /\ RecentNoWait

\* The counter keeps its width, and never counts more than was sent.
Counters ==
    /\ total \in Nat /\ packetCountOut \in Nat
    /\ packetCountOut <= total /\ total <= MaxSent
    /\ packetCountOut < CountLimit

\* Either mode: an old last packet means that the copy equals the counter.
RecentWait ==
    /\ pollAt = "idle" =>
          /\ lastOut + Delay >= keepaliveTimestamp
          /\ \/ Quiet
             \/ lastOut >= keepaliveTimestamp
    /\ pollAt = "expired" =>
          /\ lastOut + 2 * Delay >= keepaliveTimestamp
          /\ \/ Quiet
             \/ lastOut + Delay >= keepaliveTimestamp
    /\ pollAt = "keepalive" => lastOut + 2 * Delay >= keepaliveTimestamp
    /\ pollAt = "answer" => lastOut >= keepaliveTimestamp
    /\ pollAt = "record" => lastOut + Delay >= keepaliveTimestamp

WaitInv == Clock /\ Counters /\ RecentWait

-----------------------------------------------------------------------------

LEMMA ClockInit == KeepInit => Clock
  BY KeepAliveAssumption DEF KeepInit, Clock, Busy

LEMMA ClockNext == Clock /\ [KeepNext]_keepVars => Clock'
<1> SUFFICES ASSUME Clock, [KeepNext]_keepVars PROVE Clock'
  OBVIOUS
<1> USE KeepAliveAssumption DEF Clock, Busy
<1>1. CASE ClockTick
  BY <1>1 DEF ClockTick
<1>2. CASE OtherSend
  BY <1>2 DEF OtherSend, Out
<1>3. CASE Poll
  BY <1>3 DEF Poll, Expired
<1>4. CASE Decide
  BY <1>4 DEF Decide
<1>5. CASE Keepalive
  BY <1>5 DEF Keepalive, Out
<1>6. CASE Answer
  BY <1>6 DEF Answer
<1>7. CASE Record
  BY <1>7 DEF Record
<1>8. CASE UNCHANGED keepVars
  BY <1>8 DEF keepVars
<1> QED
  BY <1>1, <1>2, <1>3, <1>4, <1>5, <1>6, <1>7, <1>8
     DEF KeepNext, Failed, Bounded

-----------------------------------------------------------------------------
(* The no-wait mode                                                          *)

LEMMA NoWaitNext == NoWaitInv /\ [KeepNext]_keepVars => NoWaitInv'
<1> SUFFICES ASSUME NoWaitInv, [KeepNext]_keepVars PROVE RecentNoWait'
  BY ClockNext DEF NoWaitInv
<1> USE KeepAliveAssumption DEF NoWaitInv, RecentNoWait, Clock, Busy, Delay
<1>1. CASE ClockTick
  BY <1>1 DEF ClockTick
<1>2. CASE OtherSend
  BY <1>2 DEF OtherSend, Out
<1>3. CASE Poll
  BY <1>3 DEF Poll, Expired
<1>4. CASE Decide
  BY <1>4 DEF Decide, Needed
<1>5. CASE Keepalive
  BY <1>5 DEF Keepalive, Out
<1>6. CASE Answer
  BY <1>6 DEF Answer
<1>7. CASE Record
  BY <1>7 DEF Record
<1>8. CASE UNCHANGED keepVars
  BY <1>8 DEF keepVars
<1> QED
  BY <1>1, <1>2, <1>3, <1>4, <1>5, <1>6, <1>7, <1>8
     DEF KeepNext, Failed, Bounded

\* Without waiting for answers the client sends something in every period,
\* whatever the widths of the counters: im_poll() does not depend on them.
THEOREM KeepAliveOnePeriod == KeepSpec => []OnePeriod
<1>1. KeepInit => NoWaitInv
  BY ClockInit, KeepAliveAssumption DEF KeepInit, NoWaitInv, RecentNoWait
<1>2. NoWaitInv /\ [KeepNext]_keepVars => NoWaitInv'
  BY NoWaitNext
<1>3. NoWaitInv => OnePeriod
  BY KeepAliveAssumption
     DEF NoWaitInv, RecentNoWait, Clock, Busy, Delay, OnePeriod, Silence
<1> QED
  BY <1>1, <1>2, <1>3, PTL DEF KeepSpec

-----------------------------------------------------------------------------
(* Both modes                                                                *)

\* The counter is as wide as an int, or never counts farther than one.
CopyIsExact == CountLimit = 2 * CopyLimit \/ MaxSent < CopyLimit

\* Then the copy, converted back, is what was copied.
LEMMA RoundTrip ==
  ASSUME CopyIsExact, NEW c \in Nat, c < CountLimit, c <= MaxSent
  PROVE  ToLong(ToCopy(c)) = c
<1> USE KeepAliveAssumption
<1>1. CASE c < CopyLimit
  <2>1. (c + CopyLimit) % (2 * CopyLimit) = c + CopyLimit
    BY <1>1
  <2>2. c % CountLimit = c
    OBVIOUS
  <2> QED
    BY <2>1, <2>2 DEF ToCopy, ToLong
<1>2. CASE c >= CopyLimit
  <2>1. CountLimit = 2 * CopyLimit
    BY <1>2 DEF CopyIsExact
  <2>2. (c + CopyLimit) % (2 * CopyLimit) = c - CopyLimit
    <3>1. c - CopyLimit \in 0..2 * CopyLimit - 1
      BY <1>2, <2>1
    <3>2. ((c - CopyLimit) + 2 * CopyLimit) % (2 * CopyLimit) = c - CopyLimit
      BY <3>1
    <3>3. c + CopyLimit = (c - CopyLimit) + 2 * CopyLimit
      OBVIOUS
    <3> QED
      BY <3>2, <3>3
  <2>3. (c - 2 * CopyLimit) % CountLimit = c
    BY <1>2, <2>1
  <2>4. ToCopy(c) = c - 2 * CopyLimit
    BY <2>2 DEF ToCopy
  <2> QED
    BY <2>3, <2>4 DEF ToLong
<1> QED
  BY <1>1, <1>2

LEMMA CountersNext == Counters /\ [KeepNext]_keepVars => Counters'
<1> SUFFICES ASSUME Counters, [KeepNext]_keepVars PROVE Counters'
  OBVIOUS
<1> USE KeepAliveAssumption DEF Counters
<1>1. ASSUME Out
      PROVE  /\ total' = total + 1 /\ total' <= MaxSent
             /\ packetCountOut' \in Nat /\ packetCountOut' <= total'
             /\ packetCountOut' < CountLimit
  <2>1. /\ (packetCountOut + 1) % CountLimit \in Nat
        /\ (packetCountOut + 1) % CountLimit < CountLimit
        /\ (packetCountOut + 1) % CountLimit <= packetCountOut + 1
    <3>1. CASE packetCountOut + 1 < CountLimit
      BY <3>1
    <3>2. CASE packetCountOut + 1 = CountLimit
      BY <3>2
    <3> QED
      BY <3>1, <3>2
  <2> QED
    BY <1>1, <2>1 DEF Out
<1>2. CASE OtherSend
  BY <1>1, <1>2 DEF OtherSend
<1>3. CASE Keepalive
  BY <1>1, <1>3 DEF Keepalive
<1>4. CASE ClockTick \/ Poll \/ Decide \/ Answer \/ Record \/ UNCHANGED keepVars
  BY <1>4 DEF ClockTick, Poll, Decide, Answer, Record, keepVars
<1> QED
  BY <1>2, <1>3, <1>4 DEF KeepNext, Failed, Bounded

LEMMA WaitNext ==
  ASSUME CopyIsExact
  PROVE  WaitInv /\ [KeepNext]_keepVars => WaitInv'
<1> SUFFICES ASSUME WaitInv, [KeepNext]_keepVars PROVE RecentWait'
  BY ClockNext, CountersNext DEF WaitInv
<1>0. ToLong(ToCopy(packetCountOut)) = packetCountOut
  <2>1. /\ packetCountOut \in Nat /\ packetCountOut < CountLimit
        /\ packetCountOut <= MaxSent
    BY KeepAliveAssumption DEF WaitInv, Counters
  <2> QED
    BY <2>1, RoundTrip
<1> USE KeepAliveAssumption DEF WaitInv, RecentWait, Clock, Busy, Delay
<1>1. CASE ClockTick
  BY <1>1 DEF ClockTick, Quiet
<1>2. CASE OtherSend
  BY <1>2 DEF OtherSend, Out
<1>3. CASE Poll
  BY <1>3 DEF Poll, Expired, Quiet
<1>4. CASE Decide
  BY <1>4 DEF Decide, Needed
<1>5. CASE Keepalive
  BY <1>5 DEF Keepalive, Out
<1>6. CASE Answer
  BY <1>6 DEF Answer
<1>7. CASE Record
  <2>1. Quiet'
    BY <1>0, <1>7 DEF Record, CopyCount, Quiet, ToLong
  <2> QED
    BY <1>7, <2>1 DEF Record
<1>8. CASE UNCHANGED keepVars
  BY <1>8 DEF keepVars, Quiet
<1> QED
  BY <1>1, <1>2, <1>3, <1>4, <1>5, <1>6, <1>7, <1>8
     DEF KeepNext, Failed, Bounded

\* In either mode the client is never silent for longer than two periods, where
\* an unsigned long is as wide as an int, and otherwise as long as fewer packets
\* are sent than an int can count: the copy of a larger counter never equals it
\* again, which the run KeepAlive_long64 shows.
THEOREM KeepAliveTwoPeriods ==
  ASSUME CopyIsExact, MaxSent >= 1
  PROVE  KeepSpec => []TwoPeriods
<1>1. KeepInit => WaitInv
  <2>1. 1 % CountLimit = 1
    BY KeepAliveAssumption
  <2> QED
    BY <2>1, ClockInit, KeepAliveAssumption
       DEF KeepInit, WaitInv, RecentWait, Counters, Delay
<1>2. WaitInv /\ [KeepNext]_keepVars => WaitInv'
  BY WaitNext
<1>3. WaitInv => TwoPeriods
  BY KeepAliveAssumption
     DEF WaitInv, RecentWait, Clock, Busy, Delay, TwoPeriods, Silence
<1> QED
  BY <1>1, <1>2, <1>3, PTL DEF KeepSpec

-----------------------------------------------------------------------------
(* Types                                                                     *)

\* The conversions stay within their widths, whatever they are given.
LEMMA Width ==
  ASSUME NEW c \in Nat
  PROVE  ToCopy(c) \in -CopyLimit..CopyLimit - 1 /\ c % CountLimit \in 0..CountLimit - 1
<1>1. 2 * CopyLimit \in Nat /\ 2 * CopyLimit > 0 /\ CountLimit \in Nat /\ CountLimit > 0
  BY KeepAliveAssumption
<1>2. (c + CopyLimit) % (2 * CopyLimit) \in 0..2 * CopyLimit - 1
  BY <1>1, KeepAliveAssumption
<1>3. c % CountLimit \in 0..CountLimit - 1
  BY <1>1
<1> QED
  BY <1>2, <1>3, KeepAliveAssumption DEF ToCopy

LEMMA TypesNext == KeepTypeOK /\ [KeepNext]_keepVars => KeepTypeOK'
<1> SUFFICES ASSUME KeepTypeOK, [KeepNext]_keepVars PROVE KeepTypeOK'
  OBVIOUS
<1>a. CopyLimit \in Nat /\ CountLimit \in Nat /\ MaxClock \in Nat /\ MaxSent \in Nat
  BY KeepAliveAssumption
<1>b. packetCountOut \in Nat
  BY <1>a DEF KeepTypeOK
<1>c. ToCopy(packetCountOut) \in -CopyLimit..CopyLimit - 1
      /\ (packetCountOut + 1) % CountLimit \in 0..CountLimit - 1
  BY <1>b, Width
<1>d. ASSUME Out
      PROVE  packetCountOut' \in 0..CountLimit - 1 /\ total' \in 0..MaxSent
             /\ lastOut' \in 0..clock
  BY <1>a, <1>c, <1>d DEF Out, KeepTypeOK
<1>1. CASE ClockTick
  BY <1>1, <1>a DEF ClockTick, KeepTypeOK
<1>2. CASE OtherSend
  BY <1>2, <1>d DEF OtherSend, KeepTypeOK
<1>3. CASE Poll
  BY <1>3, <1>a DEF Poll, KeepTypeOK
<1>4. CASE Decide
  BY <1>4 DEF Decide, KeepTypeOK
<1>5. CASE Keepalive
  BY <1>5, <1>d DEF Keepalive, KeepTypeOK
<1>6. CASE Answer
  BY <1>6 DEF Answer, KeepTypeOK
<1>7. CASE Record
  BY <1>7, <1>c DEF Record, CopyCount, KeepTypeOK
<1>8. CASE Failed \/ Bounded \/ UNCHANGED keepVars
  BY <1>8 DEF Failed, Bounded, keepVars, KeepTypeOK
<1> QED
  BY <1>1, <1>2, <1>3, <1>4, <1>5, <1>6, <1>7, <1>8 DEF KeepNext

\* Type correctness of the keepalive, for counters of every width: a count
\* beyond an int is stored as one (client.c:458).
THEOREM KeepAliveTypeCorrect ==
  ASSUME MaxSent >= 1
  PROVE  KeepSpec => []KeepTypeOK
<1>1. KeepInit => KeepTypeOK
  <2> SUFFICES ASSUME KeepInit PROVE KeepTypeOK
    OBVIOUS
  <2>1. responseWait \in BOOLEAN /\ pollAt = "idle"
    BY DEF KeepInit
  <2>2. /\ clock \in 0..MaxClock /\ keepaliveTimestamp \in 0..clock
        /\ polled \in 0..clock /\ lastOut \in 0..clock /\ total \in 0..MaxSent
        /\ packetCountOutCheck \in -CopyLimit..CopyLimit - 1
    BY KeepAliveAssumption DEF KeepInit
  <2>3. packetCountOut \in 0..CountLimit - 1
    BY Width DEF KeepInit
  <2> QED
    BY <2>1, <2>2, <2>3 DEF KeepTypeOK
<1> QED
  BY <1>1, TypesNext, PTL DEF KeepSpec
=============================================================================
