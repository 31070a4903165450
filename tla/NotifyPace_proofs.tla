-------------------------- MODULE NotifyPace_proofs --------------------------
(* The pace of notifications, their ids and their delay, for every resolution *)
(* of the clock, every width of the counters and every setback.               *)
(*                                                                            *)
(* As long as no two calls of a kind have overlapped, one thread at a time is *)
(* between the two steps of a shared number, and what it has read is still    *)
(* what the number was.  The delay is bounded whatever calls overlap.         *)
EXTENDS NotifyPace, TLAPS

-----------------------------------------------------------------------------
(* Division                                                                  *)

\* a \div b is the number of whole b in a.
LEMMA DivFloor ==
  ASSUME NEW a \in Int, NEW b \in Nat \ {0}
  PROVE  /\ a \div b \in Int
         /\ (a \div b) * b <= a
         /\ a < (a \div b) * b + b
  BY SMT

\* Products with a positive factor keep the order of the other factor.
LEMMA Cancel ==
  ASSUME NEW p \in Int, NEW q \in Int, NEW b \in Nat \ {0}, p * b < q * b + b
  PROVE  p <= q
<1>1. SUFFICES ASSUME p >= q + 1 PROVE FALSE
  BY SMT
<1>2. (p - (q + 1)) * b >= 0
  BY <1>1, SMT
<1> QED
  BY <1>2, SMT

LEMMA DivMonotone ==
  ASSUME NEW a \in Int, NEW c \in Int, NEW b \in Nat \ {0}, a <= c
  PROVE  a \div b <= c \div b
<1>1. (a \div b) * b < (c \div b) * b + b
  BY DivFloor
<1> QED
  BY <1>1, DivFloor, Cancel

-----------------------------------------------------------------------------
(* Type correctness                                                          *)

LEMMA SecNat ==
  ASSUME now \in Nat, shift \in 0..MaxShift
  PROVE  /\ Sec \in Nat
         /\ (Sec - StartSec) * TicksPerSec <= now - shift
         /\ now - shift < (Sec - StartSec + 1) * TicksPerSec
<1> USE PaceAssumption
<1> DEFINE q == (now - shift) \div TicksPerSec
<1>1. q \in Int /\ q * TicksPerSec <= now - shift
      /\ now - shift < q * TicksPerSec + TicksPerSec
  BY DivFloor
<1>2. Sec = StartSec + q
  BY DEF Sec
<1> HIDE DEF q
<1>3. (-StartSec) * TicksPerSec < q * TicksPerSec + TicksPerSec
  BY <1>1, SMT
<1>4. -StartSec <= q
  BY <1>1, <1>3, Cancel
<1> QED
  BY <1>1, <1>2, <1>4, SMT

\* The cut to an int is the identity below the limit, and never adds.
LEMMA IntKept ==
  ASSUME NEW s \in Nat
  PROVE  /\ ToInt(s) \in -IntLimit..IntLimit - 1
         /\ ToInt(s) <= s
         /\ s < IntLimit => ToInt(s) = s
<1>1. 2 * IntLimit \in Nat \ {0}
  BY PaceAssumption
<1>2. (s + IntLimit) % (2 * IntLimit) <= s + IntLimit
  BY PaceAssumption, <1>1
<1>3. (s + IntLimit) % (2 * IntLimit) \in 0..2 * IntLimit - 1
  BY PaceAssumption, <1>1
<1>4. s < IntLimit => (s + IntLimit) % (2 * IntLimit) = s + IntLimit
  BY PaceAssumption, <1>1
<1> QED
  BY PaceAssumption, <1>2, <1>3, <1>4 DEF ToInt

LEMMA TypeInit == Init => TypeOK
  BY PaceAssumption DEF Init, TypeOK, Drawing, Sending, Waiting

LEMMA TypeNext == TypeOK /\ [Next]_vars => TypeOK'
<1> SUFFICES ASSUME TypeOK, [Next]_vars PROVE TypeOK'
  OBVIOUS
<1> USE PaceAssumption DEF TypeOK, Drawing, Sending, Waiting
<1>1. ASSUME NEW t \in Threads, Step(t) PROVE TypeOK'
  <2>1. CASE CallInit(t)
    BY <2>1 DEF CallInit, Enter
  <2>2. CASE ReadClock(t)
    BY <2>2, SecNat DEF ReadClock
  <2>3. CASE ReadCounter(t)
    <3>1. sec[t] + counter \in Nat
      OBVIOUS
    <3> QED
      BY <2>3, <3>1 DEF ReadCounter
  <2>4. CASE StoreCounter(t)
    <3>1. NextCount(count[t]) \in 0..CounterLimit - 1
      BY DEF NextCount
    <3> QED
      BY <2>4, <3>1 DEF StoreCounter
  <2>5. CASE CallSend(t)
    BY <2>5 DEF CallSend, Enter
  <2>6. CASE Sleep(t)
    BY <2>6 DEF Sleep
  <2>7. CASE Wake(t)
    BY <2>7 DEF Wake
  <2>8. CASE Pass(t)
    BY <2>8 DEF Pass
  <2>9. CASE ReadStamp(t)
    BY <2>9, SecNat DEF ReadStamp
  <2>10. CASE StoreStamp(t)
    <3>1. NewStamp(t) \in -IntLimit..IntLimit - 1
      BY IntKept DEF NewStamp
    <3> QED
      BY <2>10, <3>1 DEF StoreStamp
  <2>11. CASE Send(t)
    <3>1. Sec \in Nat
      BY SecNat
    <3>2. CASE sent' = Append(sent, Sec)
      <4>1. Append(sent, Sec) \in Seq(Nat)
        BY <3>1
      <4> QED
        BY <2>11, <3>2, <4>1 DEF Send
    <3>3. CASE UNCHANGED sent
      BY <2>11, <3>3 DEF Send
    <3> QED
      BY <2>11, <3>2, <3>3 DEF Send
  <2> QED
    BY <1>1, <2>1, <2>2, <2>3, <2>4, <2>5, <2>6, <2>7, <2>8, <2>9, <2>10, <2>11
       DEF Step
<1>2. CASE Tick
  BY <1>2 DEF Tick
<1>3. CASE SetBack
  <2>1. PICK s \in shift + 1..MaxShift : shift' = s
    BY <1>3 DEF SetBack
  <2> QED
    BY <1>3, <2>1 DEF SetBack
<1>4. CASE TurnOff
  BY <1>4 DEF TurnOff
<1>5. CASE UNCHANGED vars
  BY <1>5 DEF vars
<1> QED
  BY <1>1, <1>2, <1>3, <1>4, <1>5 DEF Next

\* The variables keep their types, the integers of the code their width: for
\* any threads, clock and bounds.
THEOREM PaceTypeCorrect == Spec => []TypeOK
  BY TypeInit, TypeNext, PTL DEF Spec

-----------------------------------------------------------------------------
(* One call of a kind at a time                                              *)

OneDraw ==
    "draw" \in apart =>
        \A t, u \in Threads : pc[t] \in Drawing /\ pc[u] \in Drawing => t = u

OneSend ==
    "send" \in apart =>
        \A t, u \in Threads : pc[t] \in Sending /\ pc[u] \in Sending => t = u

\* Who begins a call overlaps no other of its kind, or the kind is not apart.
LEMMA EnterApart ==
  ASSUME TypeOK, NEW t \in Threads, NEW where, Enter(t, where)
  PROVE  /\ apart' \subseteq apart
         /\ "draw" \in apart' /\ where \in Drawing =>
               \A u \in Threads : pc[u] \notin Drawing
         /\ "send" \in apart' /\ where \in Sending =>
               \A u \in Threads : pc[u] \notin Sending
<1>1. ASSUME NEW kind \in {"draw", "send"}, kind \in apart'
      PROVE  \A u \in Threads : ~({pc[u], where} \subseteq CallOf(kind))
  BY <1>1 DEF Enter
<1>2. CallOf("draw") = Drawing /\ CallOf("send") = Sending
  BY DEF CallOf
<1> QED
  BY <1>1, <1>2 DEF Enter

LEMMA OneCallNext ==
  ASSUME TypeOK, OneDraw, OneSend, [Next]_vars
  PROVE  OneDraw' /\ OneSend'
<1> USE DEF OneDraw, OneSend, TypeOK
<1>1. ASSUME NEW t \in Threads, CallInit(t) \/ CallSend(t)
      PROVE  OneDraw' /\ OneSend'
  <2>1. PICK where \in {"draw", "check", "send"} : Enter(t, where)
    BY <1>1 DEF CallInit, CallSend
  <2>2. pc' = [pc EXCEPT ![t] = where]
    BY <2>1 DEF Enter
  <2>3. /\ apart' \subseteq apart
        /\ "draw" \in apart' /\ where \in Drawing =>
              \A u \in Threads : pc[u] \notin Drawing
        /\ "send" \in apart' /\ where \in Sending =>
              \A u \in Threads : pc[u] \notin Sending
    BY <2>1, EnterApart
  <2> QED
    BY <2>2, <2>3
<1>2. ASSUME NEW t \in Threads, Step(t), ~CallInit(t), ~CallSend(t)
      PROVE  OneDraw' /\ OneSend'
  <2>1. /\ apart' = apart
        /\ \A u \in Threads : u # t => pc'[u] = pc[u]
        /\ pc'[t] \in Drawing => pc[t] \in Drawing
        /\ pc'[t] \in Sending => pc[t] \in Sending
    <3>1. CASE ReadClock(t) \/ ReadCounter(t) \/ StoreCounter(t)
      BY <3>1 DEF ReadClock, ReadCounter, StoreCounter, Drawing, Sending, Waiting
    <3>2. CASE Sleep(t) \/ Wake(t) \/ Pass(t)
      BY <3>2 DEF Sleep, Wake, Pass, Drawing, Sending, Waiting
    <3>3. CASE ReadStamp(t) \/ StoreStamp(t) \/ Send(t)
      BY <3>3 DEF ReadStamp, StoreStamp, Send, Drawing, Sending, Waiting
    <3> QED
      BY <1>2, <3>1, <3>2, <3>3 DEF Step
  <2> QED
    BY <2>1
<1>3. CASE Tick \/ SetBack \/ TurnOff \/ UNCHANGED vars
  BY <1>3 DEF Tick, SetBack, TurnOff, vars
<1> QED
  BY <1>1, <1>2, <1>3 DEF Next

-----------------------------------------------------------------------------
(* The delay                                                                 *)

\* The tick at which second s begins, on a clock that was never set back.
Begins(s) == (s - StartSec) * TicksPerSec

\* The bound on the number of sleeps.
Paid(n) == (n - BreakerSecs) * TicksPerSec < shift + TicksPerSec

LEMMA BeginsOrder ==
  ASSUME NEW p \in Int, NEW q \in Int, p <= q
  PROVE  Begins(p) \in Int /\ Begins(p) <= Begins(q)
<1>1. (q - p) * TicksPerSec >= 0
  BY PaceAssumption, SMT
<1> QED
  BY <1>1, PaceAssumption, SMT DEF Begins

LEMMA BeginsNext ==
  ASSUME NEW p \in Int
  PROVE  Begins(p + 1) = Begins(p) + TicksPerSec
  BY PaceAssumption, SMT DEF Begins

\* Who finds the second of the timestamp not over after n sleeps has not slept
\* longer than the clock was set back.
LEMMA StillPaid ==
  ASSUME NEW a \in Int, NEW n \in Int, NEW q \in Int, q <= a,
         now \in Nat, shift \in Nat,
         Begins(a + n) <= now, now - shift < Begins(q + 1)
  PROVE  Paid(n + 1)
<1>1. Begins(q + 1) <= Begins(a) + TicksPerSec
  BY BeginsOrder, BeginsNext, PaceAssumption
<1>2. Begins(a + n) = Begins(a) + n * TicksPerSec
  BY PaceAssumption, SMT DEF Begins
<1>3. n * TicksPerSec < shift + TicksPerSec
  BY <1>1, <1>2, BeginsOrder, PaceAssumption
<1> QED
  BY <1>3, PaceAssumption DEF Paid, BreakerSecs

LEMMA PaidAtOnce ==
  ASSUME shift \in Nat
  PROVE  Paid(0)
  BY PaceAssumption, SMT DEF Paid, BreakerSecs

LEMMA PaidLess ==
  ASSUME shift \in Nat, NEW n \in Int, NEW m \in Int, m <= n, Paid(n)
  PROVE  Paid(m)
<1>1. (n - m) * TicksPerSec >= 0
  BY PaceAssumption, SMT
<1> QED
  BY <1>1, PaceAssumption, SMT DEF Paid, BreakerSecs

\* Two seconds of what was slept are no more than the setback: what a thread
\* reads from the clock now is as many seconds ago as it has slept before.
LEMMA ReadLate ==
  ASSUME now \in Nat, shift \in Nat, NEW q \in Int, NEW n \in Int,
         Begins(q) <= now - shift, Paid(n)
  PROVE  Begins(q + n - 2) <= now
<1>1. Begins(q + n - 2) = Begins(q) + (n - 2) * TicksPerSec
  BY PaceAssumption, SMT DEF Begins
<1>2. (n - 2) * TicksPerSec < shift
  BY PaceAssumption, SMT DEF Paid, BreakerSecs
<1> QED
  BY <1>1, <1>2, BeginsOrder, PaceAssumption

\* What counts of a thread's sleeps.
Net(t) == sleeps[t] - 2 * overtaken[t]

\* The tick up to which a waiting thread is known to wait.
Until(t) == IF pc[t] = "asleep" /\ wake[t] > now THEN wake[t] ELSE now

\* Neither the timestamp nor a second read for it is of a time to come.  A
\* waiting thread has slept for as many seconds as count, and the sleep it is in
\* does not count yet; for a timestamp still to be stored two more do not.
Slept ==
    /\ Begins(stamp) <= now
    /\ \A t \in Threads :
          /\ pc[t] = "stamp" => Begins(sec[t]) <= now
          /\ pc[t] \in Waiting => Begins(stamp + Net(t)) <= Until(t)
          /\ pc[t] \notin Waiting => sleeps[t] = 0 /\ overtaken[t] = 0
          /\ Paid(Net(t))
    /\ \A t, u \in Threads :
          pc[t] \in Waiting /\ pc[u] = "stamp" =>
              Begins(sec[u] + Net(t) - 2) <= Until(t)

SleepInv == TypeOK /\ Slept

\* The types of what Slept compares.
LEMMA SleptTypes ==
  ASSUME TypeOK
  PROVE  /\ now \in Nat /\ shift \in Nat /\ stamp \in Int
         /\ Begins(stamp) \in Int
         /\ \A t \in Threads :
               /\ sec[t] \in Nat /\ sleeps[t] \in Nat /\ overtaken[t] \in Nat
               /\ Net(t) \in Int /\ Until(t) \in Nat /\ now <= Until(t)
               /\ Begins(sec[t]) \in Int
               /\ Begins(stamp + Net(t)) \in Int
         /\ \A t, u \in Threads : Begins(sec[u] + Net(t) - 2) \in Int
<1>1. /\ now \in Nat /\ shift \in Nat /\ stamp \in Int
      /\ \A t \in Threads : /\ sec[t] \in Nat /\ sleeps[t] \in Nat
                            /\ overtaken[t] \in Nat /\ wake[t] \in Nat
  BY PaceAssumption DEF TypeOK
<1>2. ASSUME NEW t \in Threads
      PROVE  Net(t) \in Int /\ Until(t) \in Nat /\ now <= Until(t)
  <2>1. Net(t) \in Int
    BY <1>1 DEF Net
  <2>2. Until(t) \in Nat /\ now <= Until(t)
    BY <1>1 DEF Until
  <2> QED
    BY <2>1, <2>2
<1>3. \A p \in Int : Begins(p) \in Int
  BY BeginsOrder
<1> QED
  BY <1>1, <1>2, <1>3

\* A step that leaves the waiting threads alone, and who reads no timestamp.
LEMMA SleptKept ==
  ASSUME TypeOK, Slept,
         UNCHANGED <<now, shift, stamp, sleeps, overtaken, wake>>,
         \A t \in Threads :
            \/ pc'[t] = pc[t] /\ (pc[t] = "stamp" => sec'[t] = sec[t])
            \/ {pc[t], pc'[t]} \cap (Waiting \cup {"stamp"}) = {}
  PROVE  Slept'
<1>1. \A t \in Threads : Net(t)' = Net(t) /\ (Paid(Net(t)) => Paid(Net(t))')
  BY DEF Net, Paid
<1>2. \A t \in Threads :
         /\ pc'[t] \in Waiting <=> pc[t] \in Waiting
         /\ pc'[t] \in Waiting => Until(t)' = Until(t)
         /\ pc'[t] = "stamp" => pc[t] = "stamp" /\ sec'[t] = sec[t]
  BY DEF Until, Waiting
<1> QED
  BY <1>1, <1>2 DEF Slept, Begins

LEMMA SleptCallSend ==
  ASSUME SleepInv, NEW t \in Threads, CallSend(t)
  PROVE  Slept'
<1> USE DEF SleepInv
<1>1. /\ UNCHANGED <<now, shift, stamp, sleeps, overtaken, wake, sec>>
      /\ pc[t] = "out"
      /\ \/ pc' = [pc EXCEPT ![t] = "check"]
         \/ pc' = [pc EXCEPT ![t] = "send"]
  BY DEF CallSend, Enter
<1>2. \A u \in Threads : Net(u)' = Net(u) /\ (Paid(Net(u)) => Paid(Net(u))')
  BY <1>1 DEF Net, Paid
<1>3. /\ pc \in [Threads -> {"out"} \cup Drawing \cup Sending]
      /\ Net(t) = 0 /\ Until(t)' = now
      /\ \A u \in Threads : u # t => pc'[u] = pc[u] /\ Until(u)' = Until(u)
  <2>1. pc \in [Threads -> {"out"} \cup Drawing \cup Sending]
    BY DEF TypeOK
  <2>2. Net(t) = 0
    <3>1. sleeps[t] = 0 /\ overtaken[t] = 0
      BY <1>1 DEF Slept, Waiting
    <3> QED
      BY <3>1 DEF Net
  <2>3. \A u \in Threads : u # t => pc'[u] = pc[u]
    BY <1>1, <2>1
  <2>4. pc'[t] # "asleep"
    BY <1>1, <2>1
  <2> QED
    BY <1>1, <2>1, <2>2, <2>3, <2>4 DEF Until
<1>4. ASSUME NEW u \in Threads, pc[u] = "stamp"
      PROVE  Begins(sec[u] + Net(t) - 2) <= now
  <2>1. /\ now \in Nat /\ sec[u] \in Nat /\ sec[u] - 2 \in Int
        /\ sec[u] + Net(t) - 2 = sec[u] - 2 /\ Begins(sec[u]) \in Int
    BY <1>3, SleptTypes
  <2>2. Begins(sec[u] - 2) <= Begins(sec[u]) /\ Begins(sec[u] - 2) \in Int
    BY <2>1, BeginsOrder
  <2>3. Begins(sec[u]) <= now
    BY <1>4 DEF Slept
  <2> QED
    BY <2>1, <2>2, <2>3
<1>5. Begins(stamp + Net(t)) <= now
  BY <1>3, SleptTypes DEF Slept
<1>6. pc'[t] \in {"check", "send"}
  BY <1>1, <1>3
<1> QED
  BY <1>1, <1>2, <1>3, <1>4, <1>5, <1>6 DEF Slept, Begins, Waiting

LEMMA SleptSleep ==
  ASSUME SleepInv, NEW t \in Threads, Sleep(t)
  PROVE  Slept'
<1> USE DEF SleepInv
<1>1. /\ UNCHANGED <<now, shift, stamp, overtaken, sec>>
      /\ pc[t] = "check" /\ pc' = [pc EXCEPT ![t] = "asleep"]
      /\ sleeps' = [sleeps EXCEPT ![t] = @ + 1]
      /\ wake' = [wake EXCEPT ![t] = now + TicksPerSec]
      /\ TooSoon
  BY DEF Sleep
<1>2. /\ Net(t)' = Net(t) + 1 /\ Until(t) = now /\ Until(t)' = now + TicksPerSec
      /\ \A u \in Threads : u # t => /\ Net(u)' = Net(u) /\ Until(u)' = Until(u)
                                     /\ pc'[u] = pc[u] /\ sleeps'[u] = sleeps[u]
  <2>1. /\ pc \in [Threads -> {"out"} \cup Drawing \cup Sending]
        /\ sleeps \in [Threads -> Nat] /\ wake \in [Threads -> Nat]
        /\ overtaken \in [Threads -> Nat] /\ now \in Nat
        /\ TicksPerSec \in Nat \ {0}
    BY PaceAssumption DEF TypeOK
  <2>2. Net(t)' = Net(t) + 1
    BY <1>1, <2>1 DEF Net
  <2>3. Until(t) = now /\ Until(t)' = now + TicksPerSec
    BY <1>1, <2>1 DEF Until
  <2>4. ASSUME NEW u \in Threads, u # t
        PROVE  /\ Net(u)' = Net(u) /\ Until(u)' = Until(u)
               /\ pc'[u] = pc[u] /\ sleeps'[u] = sleeps[u]
    BY <1>1, <2>1, <2>4 DEF Net, Until
  <2> QED
    BY <2>2, <2>3, <2>4
<1>3. Begins(stamp + Net(t)) <= now
  BY <1>1, <1>2 DEF Slept, Waiting
<1>4. Begins(stamp + (Net(t) + 1)) <= now + TicksPerSec
  <2>1. Begins((stamp + Net(t)) + 1) = Begins(stamp + Net(t)) + TicksPerSec
    BY SleptTypes, BeginsNext
  <2>2. (stamp + Net(t)) + 1 = stamp + (Net(t) + 1)
    BY SleptTypes
  <2> QED
    BY <1>3, <2>1, <2>2, SleptTypes, PaceAssumption
<1>5. ASSUME NEW u \in Threads, pc[u] = "stamp"
      PROVE  Begins(sec[u] + (Net(t) + 1) - 2) <= now + TicksPerSec
  <2>1. Begins(sec[u] + Net(t) - 2) <= now
    BY <1>1, <1>2, <1>5 DEF Slept, Waiting
  <2>2. Begins((sec[u] + Net(t) - 2) + 1) = Begins(sec[u] + Net(t) - 2) + TicksPerSec
    BY SleptTypes, BeginsNext
  <2>3. (sec[u] + Net(t) - 2) + 1 = sec[u] + (Net(t) + 1) - 2
    BY SleptTypes
  <2> QED
    BY <2>1, <2>2, <2>3, SleptTypes, PaceAssumption
<1>6. Paid(Net(t) + 1)
  <2>1. /\ now \in Nat /\ shift \in 0..MaxShift /\ shift \in Nat
        /\ stamp \in Int /\ Net(t) \in Int
    BY SleptTypes DEF TypeOK
  <2>2. Sec \in Nat /\ now - shift < (Sec - StartSec + 1) * TicksPerSec
    BY <2>1, SecNat
  <2>3. (Sec + 1) - StartSec = Sec - StartSec + 1
    BY <2>2, PaceAssumption
  <2>4. now - shift < Begins(Sec + 1)
    BY <2>2, <2>3 DEF Begins
  <2>5. Sec <= stamp
    BY <1>1, <2>1, <2>2 DEF TooSoon, BreakerSecs
  <2>6. \A a, n, q \in Int :
           q <= a /\ Begins(a + n) <= now /\ now - shift < Begins(q + 1)
               => Paid(n + 1)
    BY <2>1, StillPaid
  <2> QED
    BY <1>3, <2>1, <2>2, <2>4, <2>5, <2>6
<1>7. \A u \in Threads : Paid(Net(u)) => Paid(Net(u))' \/ u = t
  BY <1>1, <1>2 DEF Paid
<1>8. Paid(Net(t))'
  BY <1>1, <1>2, <1>6 DEF Paid
<1>9. pc'[t] = "asleep" /\ \A u \in Threads : pc'[u] = "stamp" => u # t
  BY <1>1 DEF TypeOK
<1> QED
  BY <1>1, <1>2, <1>4, <1>5, <1>7, <1>8, <1>9 DEF Slept, Begins, Waiting

LEMMA SleptWake ==
  ASSUME SleepInv, NEW t \in Threads, Wake(t)
  PROVE  Slept'
<1> USE DEF SleepInv
<1>1. /\ UNCHANGED <<now, shift, stamp, sleeps, overtaken, sec>>
      /\ pc[t] = "asleep" /\ pc' = [pc EXCEPT ![t] = "check"]
      /\ wake' = [wake EXCEPT ![t] = 0] /\ now >= wake[t]
  BY DEF Wake
<1>2. \A u \in Threads : Net(u)' = Net(u) /\ (Paid(Net(u)) => Paid(Net(u))')
  BY <1>1 DEF Net, Paid
<1>3. \A u \in Threads :
         /\ Until(u)' = Until(u)
         /\ pc'[u] \in Waiting <=> pc[u] \in Waiting
         /\ pc'[u] = "stamp" <=> pc[u] = "stamp"
  BY <1>1, PaceAssumption DEF TypeOK, Until, Waiting
<1> QED
  BY <1>1, <1>2, <1>3 DEF Slept, Begins

LEMMA SleptPass ==
  ASSUME SleepInv, NEW t \in Threads, Pass(t)
  PROVE  Slept'
<1> USE DEF SleepInv
<1>1. /\ UNCHANGED <<now, shift, stamp, wake, sec>>
      /\ pc[t] = "check" /\ pc' = [pc EXCEPT ![t] = "read"]
      /\ sleeps' = [sleeps EXCEPT ![t] = 0]
      /\ overtaken' = [overtaken EXCEPT ![t] = 0]
  BY DEF Pass
<1>2. /\ Net(t)' = 0 /\ pc'[t] = "read" /\ sleeps'[t] = 0 /\ overtaken'[t] = 0
      /\ \A u \in Threads : u # t => /\ Net(u)' = Net(u) /\ Until(u)' = Until(u)
                                     /\ pc'[u] = pc[u] /\ sleeps'[u] = sleeps[u]
                                     /\ overtaken'[u] = overtaken[u]
  BY <1>1 DEF TypeOK, Net, Until
<1>3. \A u \in Threads : u # t /\ Paid(Net(u)) => Paid(Net(u))'
  BY <1>1, <1>2 DEF Paid
<1>4. Paid(Net(t))'
  <2>1. Paid(0)
    BY PaidAtOnce, SleptTypes
  <2> QED
    BY <1>1, <1>2, <2>1 DEF Paid
<1> QED
  BY <1>1, <1>2, <1>3, <1>4 DEF Slept, Begins, Waiting

LEMMA SleptReadStamp ==
  ASSUME SleepInv, NEW t \in Threads, ReadStamp(t)
  PROVE  Slept'
<1> USE DEF SleepInv
<1>1. /\ UNCHANGED <<now, shift, stamp, wake, sleeps, overtaken>>
      /\ pc[t] = "read" /\ pc' = [pc EXCEPT ![t] = "stamp"]
      /\ sec' = [sec EXCEPT ![t] = Sec]
  BY DEF ReadStamp
<1>2. \A u \in Threads : Net(u)' = Net(u) /\ (Paid(Net(u)) => Paid(Net(u))')
  BY <1>1 DEF Net, Paid
<1>3. /\ pc'[t] = "stamp" /\ sec'[t] = Sec
      /\ \A u \in Threads : u # t => /\ pc'[u] = pc[u] /\ sec'[u] = sec[u]
                                     /\ Until(u)' = Until(u)
  BY <1>1 DEF TypeOK, Until
<1>4. Sec \in Nat /\ Begins(Sec) <= now - shift /\ Begins(Sec) \in Int
  BY SecNat, SleptTypes, BeginsOrder DEF TypeOK, Begins
<1>5. Begins(Sec) <= now
  BY <1>4, SleptTypes
<1>6. ASSUME NEW u \in Threads PROVE Begins(Sec + Net(u) - 2) <= Until(u)
  <2>1. Begins(Sec + Net(u) - 2) <= now /\ Begins(Sec + Net(u) - 2) \in Int
    BY <1>4, ReadLate, SleptTypes, BeginsOrder DEF Slept
  <2> QED
    BY <2>1, SleptTypes
<1> QED
  BY <1>1, <1>2, <1>3, <1>5, <1>6 DEF Slept, Begins, Waiting

LEMMA SleptStoreStamp ==
  ASSUME SleepInv, NEW t \in Threads, StoreStamp(t)
  PROVE  Slept'
<1> USE DEF SleepInv
<1>1. /\ UNCHANGED <<now, shift, wake, sleeps>>
      /\ pc[t] = "stamp" /\ pc' = [pc EXCEPT ![t] = "send"]
      /\ sec' = [sec EXCEPT ![t] = 0] /\ stamp' = NewStamp(t)
      /\ overtaken' = [u \in Threads |->
                          overtaken[u] + IF pc[u] \in Waiting THEN 1 ELSE 0]
  BY DEF StoreStamp
<1>2. /\ pc'[t] = "send"
      /\ \A u \in Threads : u # t => pc'[u] = pc[u] /\ sec'[u] = sec[u]
      /\ \A u \in Threads : pc'[u] \in Waiting => Until(u)' = Until(u)
  BY <1>1 DEF TypeOK, Until, Waiting
<1>3. \A u \in Threads :
         /\ pc[u] \in Waiting => Net(u)' = Net(u) - 2
         /\ pc[u] \notin Waiting => Net(u)' = Net(u) /\ overtaken'[u] = overtaken[u]
  BY <1>1, SleptTypes DEF Net
<1>4. NewStamp(t) <= sec[t] /\ NewStamp(t) \in Int
  BY IntKept, SleptTypes, PaceAssumption DEF NewStamp
<1>5. Begins(NewStamp(t)) <= now
  <2>1. Begins(NewStamp(t)) <= Begins(sec[t]) /\ Begins(NewStamp(t)) \in Int
    BY <1>4, SleptTypes, BeginsOrder
  <2> QED
    BY <1>1, <2>1, SleptTypes DEF Slept
<1>6. ASSUME NEW u \in Threads, pc[u] \in Waiting
      PROVE  Begins(NewStamp(t) + Net(u)') <= Until(u)
  <2>1. /\ Begins(NewStamp(t) + Net(u)') <= Begins(sec[t] + Net(u) - 2)
        /\ Begins(NewStamp(t) + Net(u)') \in Int
    BY <1>3, <1>4, <1>6, SleptTypes, BeginsOrder
  <2> QED
    BY <1>1, <1>6, <2>1, SleptTypes DEF Slept
<1>7. ASSUME NEW u \in Threads, NEW v \in Threads, pc[u] \in Waiting, pc[v] = "stamp"
      PROVE  Begins(sec[v] + Net(u)' - 2) <= Until(u)
  <2>1. /\ Begins(sec[v] + Net(u)' - 2) <= Begins(sec[v] + Net(u) - 2)
        /\ Begins(sec[v] + Net(u)' - 2) \in Int
    BY <1>3, <1>7, SleptTypes, BeginsOrder
  <2> QED
    BY <1>7, <2>1, SleptTypes DEF Slept
<1>8. ASSUME NEW u \in Threads PROVE Paid(Net(u))'
  <2>1. Net(u)' \in Int /\ Net(u)' <= Net(u) /\ Paid(Net(u))
    BY <1>3, SleptTypes DEF Slept
  <2>2. Paid(Net(u)')
    BY <2>1, PaidLess, SleptTypes
  <2> QED
    BY <1>1, <2>2 DEF Paid
<1>9. \A u \in Threads : pc[u] \in Waiting <=> pc'[u] \in Waiting
  BY <1>1, <1>2 DEF Waiting
<1> QED
  BY <1>1, <1>2, <1>3, <1>5, <1>6, <1>7, <1>8, <1>9 DEF Slept, Begins

LEMMA SleepNext == SleepInv /\ [Next]_vars => Slept'
<1> SUFFICES ASSUME SleepInv, [Next]_vars PROVE Slept'
  OBVIOUS
<1>0. TypeOK /\ Slept /\ pc \in [Threads -> {"out"} \cup Drawing \cup Sending]
      /\ sec \in [Threads -> Nat]
  BY DEF SleepInv, TypeOK
<1>1. ASSUME NEW t \in Threads,
             CallInit(t) \/ ReadClock(t) \/ ReadCounter(t) \/ StoreCounter(t)
      PROVE  Slept'
  BY <1>0, <1>1, SleptKept
     DEF CallInit, ReadClock, ReadCounter, StoreCounter, Enter, Waiting
<1>2. ASSUME NEW t \in Threads, Send(t) PROVE Slept'
  BY <1>0, <1>2, SleptKept DEF Send, Waiting
<1>3. ASSUME NEW t \in Threads, Step(t) PROVE Slept'
  BY <1>1, <1>2, <1>3, SleptCallSend, SleptSleep, SleptWake, SleptPass,
     SleptReadStamp, SleptStoreStamp DEF Step
<1>4. CASE Tick
  <2>1. /\ UNCHANGED <<shift, stamp, pc, sec, wake, sleeps, overtaken>>
        /\ now' = now + 1
    BY <1>4 DEF Tick
  <2>2. \A t \in Threads : Net(t)' = Net(t) /\ (Paid(Net(t)) => Paid(Net(t))')
    BY <2>1 DEF Net, Paid
  <2>3. \A t \in Threads : Until(t)' \in Nat /\ Until(t) <= Until(t)'
    BY <1>0, <2>1, PaceAssumption DEF Until, TypeOK
  <2>4. Begins(stamp) <= now'
    BY <1>0, <2>1, SleptTypes DEF Slept
  <2>5. ASSUME NEW t \in Threads
        PROVE  /\ pc[t] = "stamp" => Begins(sec[t]) <= now'
               /\ pc[t] \in Waiting => Begins(stamp + Net(t)) <= Until(t)'
    BY <1>0, <2>1, <2>3, SleptTypes DEF Slept
  <2>6. ASSUME NEW t \in Threads, NEW u \in Threads, pc[t] \in Waiting, pc[u] = "stamp"
        PROVE  Begins(sec[u] + Net(t) - 2) <= Until(t)'
    BY <1>0, <2>3, <2>6, SleptTypes DEF Slept
  <2> QED
    BY <1>0, <2>1, <2>2, <2>4, <2>5, <2>6 DEF Slept, Begins
<1>5. CASE SetBack
  <2>1. /\ UNCHANGED <<now, stamp, pc, sec, wake, sleeps, overtaken>>
        /\ shift \in Nat /\ shift' \in Nat /\ shift < shift'
    BY <1>0, <1>5, PaceAssumption DEF SetBack, TypeOK
  <2>2. ASSUME NEW t \in Threads
        PROVE  Net(t)' = Net(t) /\ Until(t)' = Until(t) /\ Paid(Net(t))'
    <3>1. Net(t) \in Int /\ (Net(t) - 1) * TicksPerSec \in Int
      BY <1>0, SleptTypes, PaceAssumption, SMT
    <3> QED
      BY <1>0, <2>1, <3>1, PaceAssumption DEF Net, Until, Paid, Slept, BreakerSecs
  <2> QED
    BY <1>0, <2>1, <2>2 DEF Slept, Begins
<1>6. CASE TurnOff \/ UNCHANGED vars
  BY <1>0, <1>6, SleptKept DEF TurnOff, vars
<1> QED
  BY <1>3, <1>4, <1>5, <1>6 DEF Next

\* The breaker sleeps at most once, once more for every second or part of one
\* that the clock was set back, and twice more for every timestamp that another
\* thread stores meanwhile: however calls overlap.
THEOREM PaceSleepsBounded == Spec => []SleepsBounded
<1>1. Init => SleepInv
  <2> SUFFICES ASSUME Init PROVE SleepInv
    OBVIOUS
  <2>1. Begins(0) <= 0
    BY PaceAssumption, SMT DEF Begins
  <2>2. ASSUME NEW t \in Threads PROVE Net(t) = 0 /\ pc[t] = "out"
    <3>1. sleeps[t] = 0 /\ overtaken[t] = 0 /\ pc[t] = "out"
      BY DEF Init
    <3> QED
      BY <3>1 DEF Net
  <2>3. Paid(0)
    BY PaidAtOnce DEF Init
  <2> QED
    BY <2>1, <2>2, <2>3, TypeInit DEF Init, SleepInv, Slept, Waiting
<1>2. SleepInv /\ [Next]_vars => SleepInv'
  BY TypeNext, SleepNext DEF SleepInv
<1>3. SleepInv => SleepsBounded
  BY DEF SleepInv, Slept, SleepsBounded, Paid, Net
<1> QED
  BY <1>1, <1>2, <1>3, PTL DEF Spec

-----------------------------------------------------------------------------
(* What a step never takes back                                              *)

LEMMA Onward ==
  ASSUME TypeOK, [Next]_vars
  PROVE  /\ now \in Nat /\ now' \in Nat /\ now <= now'
         /\ shift \in 0..MaxShift /\ shift' \in 0..MaxShift /\ shift <= shift'
         /\ apart' \subseteq apart
<1>1. ASSUME NEW t \in Threads, Step(t)
      PROVE  now' = now /\ shift' = shift /\ apart' \subseteq apart
  <2>1. CASE CallInit(t) \/ CallSend(t)
    BY <2>1 DEF CallInit, CallSend, Enter
  <2>2. CASE ~CallInit(t) /\ ~CallSend(t)
    BY <1>1, <2>2 DEF Step, ReadClock, ReadCounter, StoreCounter, Sleep, Wake,
                      Pass, ReadStamp, StoreStamp, Send
  <2> QED
    BY <2>1, <2>2
<1>2. CASE Tick \/ SetBack \/ TurnOff \/ UNCHANGED vars
  BY <1>2, PaceAssumption DEF Tick, SetBack, TurnOff, vars, TypeOK
<1> QED
  BY <1>1, <1>2, PaceAssumption DEF Next, TypeOK

-----------------------------------------------------------------------------
(* The ids                                                                   *)

\* The second in the i-th id, when the counter counts the ids.
Second(s, i) == s[i] - (i - 1)

\* Second p was read from the clock before second q.
Before(p, q) == Begins(p) < Begins(q + 1) + shift

\* The counter has counted the ids; the second of an id, or of the call under
\* way, was read after those of the ids before it.
Drawn ==
  "draw" \in apart /\ Len(ids) <= CounterLimit =>
    /\ \A i \in 1..Len(ids) : Begins(Second(ids, i)) <= now
    /\ \A i, j \in 1..Len(ids) : i < j => Before(Second(ids, i), Second(ids, j))
    /\ \A t \in Threads :
          /\ pc[t] = "count" =>
                /\ Begins(sec[t]) <= now
                /\ \A i \in 1..Len(ids) : Before(Second(ids, i), sec[t])
          /\ pc[t] = "store" => Len(ids) > 0 /\ count[t] = Len(ids) - 1
    /\ (\A t \in Threads : pc[t] # "store") =>
          counter = IF Len(ids) = CounterLimit THEN 0 ELSE Len(ids)

IdInv == TypeOK /\ OneDraw /\ OneSend /\ Drawn

\* Setbacks only loosen the order.
LEMMA BeforeKept ==
  ASSUME shift \in Nat, shift' \in Nat, shift <= shift',
         NEW p \in Int, NEW q \in Int, Begins(p) < Begins(q + 1) + shift
  PROVE  Begins(p) < Begins(q + 1) + shift'
<1>1. Begins(p) \in Int /\ Begins(q + 1) \in Int
  BY BeginsOrder
<1> QED
  BY <1>1

\* A step that leaves the ids and their threads alone keeps it.
LEMMA DrawnKept ==
  ASSUME TypeOK, Drawn, now \in Nat, now' \in Nat, now <= now',
         shift \in Nat, shift' \in Nat, shift <= shift', apart' \subseteq apart,
         UNCHANGED <<counter, ids, count>>,
         \A t \in Threads :
            \/ pc'[t] = pc[t] /\ (pc[t] = "count" => sec'[t] = sec[t])
            \/ {pc[t], pc'[t]} \cap {"count", "store"} = {}
  PROVE  Drawn'
<1>1. ids \in Seq(Nat) /\ Len(ids) \in Nat /\ sec \in [Threads -> Nat]
  BY DEF TypeOK
<1>2. SUFFICES ASSUME "draw" \in apart, Len(ids) <= CounterLimit PROVE Drawn'
  BY DEF Drawn
<1>3. ASSUME NEW i \in 1..Len(ids)
      PROVE  Second(ids, i) \in Int /\ Begins(Second(ids, i)) <= now'
  <2>1. Second(ids, i) \in Int
    BY <1>1 DEF Second
  <2>2. Begins(Second(ids, i)) <= now /\ Begins(Second(ids, i)) \in Int
    BY <1>2, <2>1, BeginsOrder DEF Drawn
  <2> QED
    BY <2>1, <2>2
<1>4. ASSUME NEW i \in 1..Len(ids), NEW j \in 1..Len(ids), i < j
      PROVE  Begins(Second(ids, i)) < Begins(Second(ids, j) + 1) + shift'
  BY <1>2, <1>3, <1>4, BeforeKept DEF Drawn, Before
<1>5. ASSUME NEW t \in Threads
      PROVE  /\ pc'[t] = "count" =>
                   /\ Begins(sec[t]) <= now' /\ sec'[t] = sec[t]
                   /\ \A i \in 1..Len(ids) :
                         Begins(Second(ids, i)) < Begins(sec[t] + 1) + shift'
             /\ pc'[t] = "store" => Len(ids) > 0 /\ count[t] = Len(ids) - 1
  <2>1. Begins(sec[t]) \in Int /\ sec[t] \in Int
    BY <1>1, BeginsOrder
  <2>2. CASE pc'[t] = "count"
    <3>1. /\ pc[t] = "count" /\ sec'[t] = sec[t] /\ Begins(sec[t]) <= now
          /\ \A i \in 1..Len(ids) : Begins(Second(ids, i)) < Begins(sec[t] + 1) + shift
      BY <1>2, <2>2 DEF Drawn, Before
    <3> QED
      BY <1>3, <2>1, <2>2, <3>1, BeforeKept
  <2>3. CASE pc'[t] = "store"
    BY <1>2, <2>3 DEF Drawn
  <2> QED
    BY <2>2, <2>3
<1>6. (\A t \in Threads : pc'[t] # "store") => \A t \in Threads : pc[t] # "store"
  OBVIOUS
<1> QED
  BY <1>2, <1>3, <1>4, <1>5, <1>6 DEF Drawn, Before, Second, Begins

LEMMA IdReadClock ==
  ASSUME IdInv, NEW t \in Threads, ReadClock(t), "draw" \in apart,
         Len(ids) <= CounterLimit
  PROVE  Drawn'
<1>1. /\ UNCHANGED <<now, shift, apart, ids, counter, count>>
      /\ sec' = [sec EXCEPT ![t] = Sec]
      /\ pc[t] = "draw" /\ pc' = [pc EXCEPT ![t] = "count"]
  BY DEF ReadClock
<1>2. /\ pc \in [Threads -> {"out"} \cup Drawing \cup Sending]
      /\ sec \in [Threads -> Nat] /\ ids \in Seq(Nat) /\ Len(ids) \in Nat
      /\ now \in Nat /\ shift \in 0..MaxShift /\ shift \in Nat
  BY PaceAssumption DEF IdInv, TypeOK
<1>3. \A u \in Threads : u # t => pc'[u] \notin Drawing
  BY <1>1, <1>2 DEF IdInv, OneDraw, Drawing
<1>4. /\ Sec \in Nat
      /\ (Sec - StartSec) * TicksPerSec <= now - shift
      /\ now - shift < (Sec - StartSec + 1) * TicksPerSec
  BY <1>2, SecNat
<1>5. Begins(Sec) <= now /\ now < Begins(Sec + 1) + shift
  <2>1. (Sec + 1) - StartSec = Sec - StartSec + 1
    BY <1>4, PaceAssumption
  <2>2. Begins(Sec) <= now - shift /\ now - shift < Begins(Sec + 1)
    BY <1>4, <2>1 DEF Begins
  <2>3. Begins(Sec) \in Int /\ Begins(Sec + 1) \in Int
    BY <1>4, BeginsOrder
  <2> QED
    BY <1>2, <2>2, <2>3
<1>6. \A i \in 1..Len(ids) : Before(Second(ids, i), Sec)
  <2>1. TAKE i \in 1..Len(ids)
  <2>2. Second(ids, i) \in Int
    BY <1>2 DEF Second
  <2>3. Begins(Second(ids, i)) \in Int /\ Begins(Second(ids, i)) <= now
    BY <2>2, BeginsOrder DEF IdInv, Drawn
  <2>4. Begins(Sec + 1) \in Int
    BY <1>4, BeginsOrder
  <2> QED
    BY <1>2, <1>5, <2>3, <2>4 DEF Before
<1>7. \A u \in Threads : pc[u] # "store"
  BY <1>1 DEF IdInv, OneDraw, Drawing
<1>8. pc'[t] = "count" /\ sec'[t] = Sec
  BY <1>1, <1>2
<1> QED
  BY <1>1, <1>3, <1>5, <1>6, <1>7, <1>8
     DEF IdInv, Drawn, Before, Second, Begins, Drawing

LEMMA IdReadCounter ==
  ASSUME IdInv, NEW t \in Threads, ReadCounter(t), "draw" \in apart,
         Len(ids') <= CounterLimit
  PROVE  Drawn'
<1> DEFINE n == Len(ids)
<1>1. /\ UNCHANGED <<now, shift, apart, counter, sec>>
      /\ ids' = Append(ids, sec[t] + counter)
      /\ count' = [count EXCEPT ![t] = counter]
      /\ pc[t] = "count" /\ pc' = [pc EXCEPT ![t] = "store"]
  BY DEF ReadCounter
<1>2. /\ pc \in [Threads -> {"out"} \cup Drawing \cup Sending]
      /\ sec \in [Threads -> Nat] /\ ids \in Seq(Nat) /\ n \in Nat
      /\ count \in [Threads -> 0..CounterLimit - 1] /\ counter \in Nat
      /\ CounterLimit \in Nat
  BY PaceAssumption DEF IdInv, TypeOK
<1>3. Len(ids') = n + 1 /\ n < CounterLimit
  BY <1>1, <1>2
<1>4. \A u \in Threads : pc[u] # "store"
  BY <1>1 DEF IdInv, OneDraw, Drawing
<1>5. /\ counter = n /\ Begins(sec[t]) <= now
      /\ \A i \in 1..n : /\ Begins(Second(ids, i)) <= now
                         /\ Before(Second(ids, i), sec[t])
      /\ \A i, j \in 1..n : i < j => Before(Second(ids, i), Second(ids, j))
  BY <1>1, <1>2, <1>3, <1>4 DEF IdInv, Drawn
<1>6. /\ \A i \in 1..n : Second(ids', i) = Second(ids, i)
      /\ Second(ids', n + 1) = sec[t]
  BY <1>1, <1>2, <1>5 DEF Second
<1>7. \A u \in Threads : u # t => pc'[u] \notin Drawing
  BY <1>1, <1>2 DEF IdInv, OneDraw, Drawing
<1>8. pc'[t] = "store" /\ count'[t] = n
  BY <1>1, <1>2, <1>5
<1> HIDE DEF n
<1>9. ASSUME NEW i \in 1..n + 1
      PROVE  /\ Begins(Second(ids', i)) <= now
             /\ \A j \in 1..n + 1 : i < j => Before(Second(ids', i), Second(ids', j))
  <2>1. CASE i = n + 1
    BY <1>2, <1>5, <1>6, <2>1
  <2>2. CASE i # n + 1
    <3>1. i \in 1..n
      BY <1>2, <2>2
    <3>2. ASSUME NEW j \in 1..n + 1, i < j
          PROVE  Before(Second(ids', i), Second(ids', j))
      <4>1. CASE j = n + 1
        BY <1>5, <1>6, <3>1, <4>1
      <4>2. CASE j # n + 1
        <5>1. j \in 1..n
          BY <1>2, <4>2
        <5> QED
          BY <1>5, <1>6, <3>1, <3>2, <5>1
      <4> QED
        BY <4>1, <4>2
    <3> QED
      BY <1>5, <1>6, <3>1, <3>2
  <2> QED
    BY <2>1, <2>2
<1>10. n + 1 > 0 /\ n = (n + 1) - 1
  BY <1>2
<1> QED
  BY <1>1, <1>3, <1>7, <1>8, <1>9, <1>10
     DEF Drawn, Before, Second, Begins, Drawing

LEMMA IdStoreCounter ==
  ASSUME IdInv, NEW t \in Threads, StoreCounter(t), "draw" \in apart,
         Len(ids) <= CounterLimit
  PROVE  Drawn'
<1>1. /\ UNCHANGED <<now, shift, apart, ids>>
      /\ counter' = NextCount(count[t])
      /\ pc[t] = "store" /\ pc' = [pc EXCEPT ![t] = "out"]
  BY DEF StoreCounter
<1>2. /\ pc \in [Threads -> {"out"} \cup Drawing \cup Sending]
      /\ CounterLimit \in Nat \ {0} /\ Len(ids) \in Nat
  BY PaceAssumption DEF IdInv, TypeOK
<1>3. Len(ids) > 0 /\ count[t] = Len(ids) - 1
  BY <1>1 DEF IdInv, Drawn
<1>4. counter' = IF Len(ids) = CounterLimit THEN 0 ELSE Len(ids)
  BY <1>1, <1>2, <1>3 DEF NextCount
<1>5. \A u \in Threads : pc'[u] \notin Drawing
  BY <1>1, <1>2 DEF IdInv, OneDraw, Drawing
<1> QED
  BY <1>1, <1>4, <1>5 DEF IdInv, Drawn, Before, Second, Begins, Drawing

LEMMA IdNext == IdInv /\ [Next]_vars => Drawn'
<1> SUFFICES ASSUME IdInv, [Next]_vars, "draw" \in apart',
                    Len(ids') <= CounterLimit
             PROVE  Drawn'
  BY DEF Drawn
<1>1. /\ TypeOK /\ Drawn
      /\ now \in Nat /\ now' \in Nat /\ now <= now'
      /\ shift \in Nat /\ shift' \in Nat /\ shift <= shift'
      /\ apart' \subseteq apart /\ "draw" \in apart
  BY Onward, PaceAssumption DEF IdInv
<1>2. /\ pc \in [Threads -> {"out"} \cup Drawing \cup Sending]
      /\ sec \in [Threads -> Nat] /\ overtaken \in [Threads -> Nat]
  BY <1>1 DEF TypeOK
<1>3. ASSUME NEW t \in Threads, Step(t) PROVE Drawn'
  <2>1. CASE CallInit(t) \/ CallSend(t)
    <3>1. /\ UNCHANGED <<counter, ids, count, sec>>
          /\ \A u \in Threads : \/ pc'[u] = pc[u]
                                \/ {pc[u], pc'[u]} \cap {"count", "store"} = {}
      BY <1>2, <2>1 DEF CallInit, CallSend, Enter
    <3> QED
      BY <1>1, <3>1, DrawnKept
  <2>2. CASE Sleep(t) \/ Wake(t) \/ Pass(t) \/ Send(t)
    <3>1. /\ UNCHANGED <<counter, ids, count, sec>>
          /\ \A u \in Threads : \/ pc'[u] = pc[u]
                                \/ {pc[u], pc'[u]} \cap {"count", "store"} = {}
      BY <1>2, <2>2 DEF Sleep, Wake, Pass, Send
    <3> QED
      BY <1>1, <3>1, DrawnKept
  <2>3. CASE ReadStamp(t) \/ StoreStamp(t)
    <3>1. /\ UNCHANGED <<counter, ids, count>>
          /\ \A u \in Threads :
                \/ pc'[u] = pc[u] /\ sec'[u] = sec[u]
                \/ {pc[u], pc'[u]} \cap {"count", "store"} = {}
      BY <1>2, <2>3 DEF ReadStamp, StoreStamp
    <3> QED
      BY <1>1, <3>1, DrawnKept
  <2>4. ReadClock(t) \/ StoreCounter(t) => ids' = ids
    BY DEF ReadClock, StoreCounter
  <2> QED
    BY <1>1, <1>3, <2>1, <2>2, <2>3, <2>4, IdReadClock, IdReadCounter,
       IdStoreCounter DEF Step
<1>4. CASE Tick \/ SetBack \/ TurnOff \/ UNCHANGED vars
  <2>1. UNCHANGED <<counter, ids, count, pc, sec>>
    BY <1>4 DEF Tick, SetBack, TurnOff, vars
  <2> QED
    BY <1>1, <2>1, DrawnKept
<1> QED
  BY <1>3, <1>4 DEF Next

\* As long as no two ids are drawn at once, an id comes again only within as many
\* ids as the clock was set back in seconds: for as many as an unsigned int
\* counts.
THEOREM PaceIdsRepeatOnlyAfterSetback == Spec => []IdsRepeatOnlyAfterSetback
<1>1. Init => IdInv
  BY TypeInit, PaceAssumption
     DEF Init, IdInv, OneDraw, OneSend, Drawn, Drawing, Sending, Waiting
<1>2. IdInv /\ [Next]_vars => IdInv'
  BY TypeNext, OneCallNext, IdNext DEF IdInv
<1>3. IdInv => IdsRepeatOnlyAfterSetback
  <2> SUFFICES ASSUME IdInv, "draw" \in apart, Len(ids) <= CounterLimit,
                      NEW i \in 1..Len(ids), NEW j \in 1..Len(ids),
                      i < j, ids[j] <= ids[i]
               PROVE  (j - i - 1) * TicksPerSec < shift
    BY DEF IdsRepeatOnlyAfterSetback
  <2> DEFINE p == Second(ids, i)
             q == Second(ids, j)
  <2>1. /\ p \in Int /\ q \in Int /\ q + (j - i) <= p /\ i \in Int /\ j \in Int
        /\ shift \in Int
    BY PaceAssumption DEF IdInv, TypeOK, Second
  <2>2. Begins(p) < Begins(q + 1) + shift
    BY DEF IdInv, Drawn, Before
  <2> HIDE DEF p, q
  <2>3. /\ Begins(q + (j - i)) <= Begins(p)
        /\ Begins(q + (j - i)) \in Int /\ Begins(p) \in Int /\ Begins(q + 1) \in Int
    BY <2>1, BeginsOrder
  <2>4. Begins(q + (j - i)) = Begins(q + 1) + (j - i - 1) * TicksPerSec
    BY <2>1, PaceAssumption, SMT DEF Begins
  <2>5. (j - i - 1) * TicksPerSec \in Int
    BY <2>1, PaceAssumption
  <2> QED
    BY <2>1, <2>2, <2>3, <2>4, <2>5
<1> QED
  BY <1>1, <1>2, <1>3, PTL DEF Spec

-----------------------------------------------------------------------------
(* The pace                                                                  *)

\* A clock that has not been set back does not go back.
LEMMA Forward ==
  ASSUME TypeOK, [Next]_vars, shift' = 0
  PROVE  /\ shift = 0
         /\ Sec \in Nat /\ Sec' \in Nat
         /\ Sec <= Sec'
<1>1. /\ shift = 0 /\ now \in Nat /\ now' \in Nat
      /\ now - shift \in Int /\ now' - shift' \in Int
      /\ now - shift <= now' - shift'
  BY Onward, PaceAssumption
<1>2. Sec' = StartSec + ((now' - shift') \div TicksPerSec)
  BY DEF Sec
<1>3. (now - shift) \div TicksPerSec <= (now' - shift') \div TicksPerSec
  BY <1>1, DivMonotone, PaceAssumption
<1>4. /\ (now - shift) \div TicksPerSec \in Int
      /\ (now' - shift') \div TicksPerSec \in Int
  BY <1>1, DivFloor, PaceAssumption
<1>5. Sec \in Nat
  BY <1>1, SecNat DEF TypeOK
<1>6. Sec <= Sec' /\ Sec' \in Int
  BY <1>2, <1>3, <1>4, PaceAssumption DEF Sec
<1> QED
  BY <1>1, <1>5, <1>6

\* Second s is late enough for one more notification after all that were sent.
Due(s) == \A i \in 1..Len(sent) : s - sent[i] >= Len(sent) - i

\* The timestamp is due but for the last notification, and due without an
\* exception for a thread that has stored it and not sent yet.
Paced ==
  Steady /\ breaker /\ "send" \in apart =>
    /\ stamp <= Sec
    /\ \A i \in 1..Len(sent) : sent[i] <= Sec
    /\ \A i, j \in 1..Len(sent) : i < j => sent[j] - sent[i] >= j - i - 1
    /\ \A i \in 1..Len(sent) :
          i < Len(sent) => stamp - sent[i] >= Len(sent) - i - 1
    /\ \A t \in Threads :
          /\ pc[t] = "read" => Due(Sec)
          /\ pc[t] = "stamp" => sec[t] <= Sec /\ Due(sec[t])
          /\ pc[t] = "send" => Due(stamp)

PaceInv == TypeOK /\ OneDraw /\ OneSend /\ Paced

\* A step that leaves the notifications, the timestamp and their threads alone
\* keeps it.
LEMMA PacedKept ==
  ASSUME TypeOK, Paced, Steady, breaker, "send" \in apart,
         Sec \in Int, Sec' \in Int, Sec <= Sec',
         UNCHANGED <<stamp, sent>>,
         \A t \in Threads :
            \/ pc'[t] = pc[t] /\ sec'[t] = sec[t]
            \/ pc'[t] \notin {"read", "stamp", "send"}
  PROVE  Paced'
<1>1. /\ sent \in Seq(Nat) /\ Len(sent) \in Nat /\ stamp \in Int
      /\ sec \in [Threads -> Nat]
  BY PaceAssumption DEF TypeOK
<1>2. \A i \in 1..Len(sent) : sent[i] \in Nat
  BY <1>1
<1>3. stamp <= Sec' /\ \A i \in 1..Len(sent) : sent[i] <= Sec'
  BY <1>1, <1>2 DEF Paced
<1>4. \A s : Due(s)' <=> \A i \in 1..Len(sent) : s' - sent[i] >= Len(sent) - i
  BY DEF Due
<1>5. ASSUME NEW t \in Threads
      PROVE  /\ pc'[t] = "read" => Due(Sec)'
             /\ pc'[t] = "stamp" => sec'[t] <= Sec' /\ Due(sec[t])'
             /\ pc'[t] = "send" => Due(stamp)'
  <2>1. CASE pc'[t] = "read"
    <3>1. Due(Sec)
      BY <2>1 DEF Paced
    <3> QED
      BY <1>1, <1>2, <2>1, <3>1 DEF Due
  <2>2. CASE pc'[t] = "stamp"
    <3>1. sec'[t] = sec[t] /\ sec[t] \in Nat /\ sec[t] <= Sec /\ Due(sec[t])
      BY <1>1, <2>2 DEF Paced
    <3> QED
      BY <1>1, <2>2, <3>1 DEF Due
  <2>3. CASE pc'[t] = "send"
    <3>1. Due(stamp)
      BY <2>3 DEF Paced
    <3> QED
      BY <2>3, <3>1 DEF Due
  <2> QED
    BY <2>1, <2>2, <2>3
<1> QED
  BY <1>3, <1>5 DEF Paced

LEMMA PaceNext == PaceInv /\ [Next]_vars => Paced'
<1> SUFFICES ASSUME PaceInv, [Next]_vars, Steady', breaker', "send" \in apart'
             PROVE  Paced'
  BY DEF Paced
<1>0. /\ TypeOK /\ OneSend /\ Paced /\ "send" \in apart
      /\ Sec \in Nat /\ Sec' \in Nat /\ Sec <= Sec' /\ shift = 0
  BY Forward, Onward DEF PaceInv, Steady
<1>1. Steady
  BY <1>0, PaceAssumption DEF Steady
<1>2. breaker
  <2>1. ASSUME NEW t \in Threads, Step(t) PROVE breaker' = breaker
    BY <2>1 DEF Step, CallInit, ReadClock, ReadCounter, StoreCounter, CallSend,
                Sleep, Wake, Pass, ReadStamp, StoreStamp, Send
  <2> QED
    BY <2>1 DEF Next, Tick, SetBack, TurnOff, vars
<1>3. /\ sent \in Seq(Nat) /\ Len(sent) \in Nat /\ stamp \in Int
      /\ pc \in [Threads -> {"out"} \cup Drawing \cup Sending]
      /\ sec \in [Threads -> Nat] /\ overtaken \in [Threads -> Nat]
  BY <1>0, PaceAssumption DEF TypeOK
<1>4. \A i \in 1..Len(sent) : sent[i] \in Nat
  BY <1>3
<1>5. ASSUME NEW t \in Threads, NEW u \in Threads, pc[t] \in Sending, u # t
      PROVE  pc[u] \notin Sending
  BY <1>0, <1>5 DEF OneSend
<1>6. /\ stamp <= Sec
      /\ \A i \in 1..Len(sent) : sent[i] <= Sec
      /\ \A i, j \in 1..Len(sent) : i < j => sent[j] - sent[i] >= j - i - 1
      /\ \A i \in 1..Len(sent) :
            i < Len(sent) => stamp - sent[i] >= Len(sent) - i - 1
  BY <1>0, <1>1, <1>2 DEF Paced
<1>7. ASSUME NEW t \in Threads, Step(t) PROVE Paced'
  <2>0. Sec' = Sec
    BY <1>7 DEF Step, CallInit, ReadClock, ReadCounter, StoreCounter, CallSend,
                Sleep, Wake, Pass, ReadStamp, StoreStamp, Send, Sec
  <2>1. CASE CallInit(t) \/ ReadClock(t) \/ ReadCounter(t) \/ StoreCounter(t)
    <3>1. \A u \in Threads : \/ pc'[u] = pc[u] /\ sec'[u] = sec[u]
                             \/ pc'[u] \notin {"read", "stamp", "send"}
      BY <1>3, <2>1 DEF CallInit, Enter, ReadClock, ReadCounter, StoreCounter
    <3> QED
      BY <1>0, <1>1, <1>2, <2>1, <3>1, PacedKept
         DEF CallInit, ReadClock, ReadCounter, StoreCounter
  <2>2. CASE CallSend(t) \/ Sleep(t) \/ Wake(t)
    <3>1. \A u \in Threads : \/ pc'[u] = pc[u] /\ sec'[u] = sec[u]
                             \/ pc'[u] \notin {"read", "stamp", "send"}
      BY <1>2, <1>3, <2>2 DEF CallSend, Enter, Sleep, Wake
    <3> QED
      BY <1>0, <1>1, <1>2, <2>2, <3>1, PacedKept DEF CallSend, Sleep, Wake
  <2>3. CASE Pass(t)
    <3>1. Sec >= stamp + 1
      BY <1>0, <1>3, <2>3 DEF Pass, TooSoon, BreakerSecs
    <3>2. ASSUME NEW i \in 1..Len(sent) PROVE Sec - sent[i] >= Len(sent) - i
      <4>1. CASE i = Len(sent)
        BY <1>0, <1>3, <1>4, <1>6, <4>1
      <4>2. CASE i # Len(sent)
        <5>1. i < Len(sent) /\ sent[i] \in Nat
          BY <1>3, <1>4, <4>2
        <5>2. stamp - sent[i] >= Len(sent) - i - 1
          BY <1>6, <5>1
        <5> QED
          BY <1>0, <1>3, <3>1, <5>1, <5>2
      <4> QED
        BY <4>1, <4>2
    <3>3. /\ pc'[t] = "read" /\ sent' = sent /\ stamp' = stamp
          /\ \A u \in Threads : u # t => pc'[u] \notin Sending
      BY <1>3, <1>5, <2>3 DEF Pass, Sending, Waiting
    <3> QED
      BY <1>6, <2>0, <3>2, <3>3 DEF Paced, Due, Sending, Waiting
  <2>4. CASE ReadStamp(t)
    <3>1. Due(Sec)
      BY <1>0, <1>1, <1>2, <2>4 DEF ReadStamp, Paced
    <3>2. /\ pc'[t] = "stamp" /\ sent' = sent /\ stamp' = stamp /\ sec'[t] = Sec
          /\ \A u \in Threads : u # t => pc'[u] \notin Sending
      BY <1>3, <1>5, <2>4 DEF ReadStamp, Sending, Waiting
    <3> QED
      BY <1>0, <1>6, <2>0, <3>1, <3>2 DEF Paced, Due, Sending, Waiting
  <2>5. CASE StoreStamp(t)
    <3>1. Due(sec[t]) /\ sec[t] <= Sec /\ sec[t] \in Nat
      BY <1>0, <1>1, <1>2, <1>3, <2>5 DEF StoreStamp, Paced
    <3>2. NewStamp(t) = sec[t]
      BY <1>0, <1>1, <3>1, IntKept, PaceAssumption DEF NewStamp, Steady
    <3>3. /\ pc'[t] = "send" /\ sent' = sent /\ stamp' = sec[t]
          /\ \A u \in Threads : u # t => pc'[u] \notin Sending
      BY <1>3, <1>5, <2>5, <3>2 DEF StoreStamp, Sending, Waiting
    <3>4. \A i \in 1..Len(sent) :
             i < Len(sent) => sec[t] - sent[i] >= Len(sent) - i - 1
      BY <1>3, <1>4, <3>1 DEF Due
    <3> QED
      BY <1>6, <2>0, <3>1, <3>3, <3>4 DEF Paced, Due, Sending, Waiting
  <2>6. CASE Send(t)
    <3> DEFINE n == Len(sent)
    <3>1. Due(stamp)
      BY <1>0, <1>1, <1>2, <2>6 DEF Send, Paced
    <3>2. stamp' = stamp /\ \A u \in Threads : pc'[u] \notin Sending
      BY <1>3, <1>5, <2>6 DEF Send, Sending, Waiting
    <3>3. CASE sent' = sent
      BY <1>6, <2>0, <3>2, <3>3 DEF Paced, Sending, Waiting
    <3>4. CASE sent' = Append(sent, Sec)
      <4>1. n \in Nat /\ Len(sent') = n + 1
        BY <1>3, <3>4
      <4>2. \A i \in 1..n : sent'[i] = sent[i]
        BY <1>3, <3>4
      <4>3. sent'[n + 1] = Sec
        BY <1>3, <3>4
      <4>4. \A i \in 1..n : stamp - sent[i] >= n - i
        BY <3>1 DEF Due
      <4>5. ASSUME NEW i \in 1..n + 1, i # n + 1
            PROVE  i \in 1..n /\ sent'[i] = sent[i] /\ sent[i] \in Nat
        <5>1. i \in 1..n
          BY <4>1, <4>5
        <5> QED
          BY <1>4, <4>2, <5>1
      <4> HIDE DEF n
      <4>6. \A i \in 1..n + 1 : sent'[i] <= Sec
        BY <1>0, <1>6, <4>3, <4>5 DEF n
      <4>7. ASSUME NEW i \in 1..n + 1, NEW j \in 1..n + 1, i < j
            PROVE  sent'[j] - sent'[i] >= j - i - 1
        <5>1. i \in 1..n /\ sent'[i] = sent[i] /\ sent[i] \in Nat
          BY <4>1, <4>5, <4>7
        <5>2. CASE j = n + 1
          BY <1>0, <1>3, <1>6, <4>1, <4>3, <4>4, <5>1, <5>2
        <5>3. CASE j # n + 1
          BY <1>6, <4>5, <4>7, <5>1, <5>3 DEF n
        <5> QED
          BY <5>2, <5>3
      <4>8. ASSUME NEW i \in 1..n + 1, i < n + 1
            PROVE  stamp - sent'[i] >= (n + 1) - i - 1
        <5>1. /\ i \in 1..n /\ sent'[i] = sent[i] /\ sent[i] \in Nat
              /\ stamp - sent[i] >= n - i
          BY <4>1, <4>4, <4>5, <4>8
        <5> QED
          BY <1>3, <4>1, <5>1
      <4> QED
        BY <1>6, <2>0, <3>2, <4>1, <4>6, <4>7, <4>8 DEF Paced, Sending, Waiting
    <3> QED
      BY <2>6, <3>3, <3>4 DEF Send
  <2> QED
    BY <1>7, <2>1, <2>2, <2>3, <2>4, <2>5, <2>6 DEF Step
<1>8. CASE Tick \/ SetBack \/ TurnOff \/ UNCHANGED vars
  BY <1>0, <1>1, <1>2, <1>8, PacedKept DEF Tick, SetBack, TurnOff, vars
<1> QED
  BY <1>7, <1>8 DEF Next

\* As long as no two notifications are sent at once the circuit breaker keeps its
\* promise on a steady clock, however long they wait for the mutex.
THEOREM PaceKept == Spec => []PacedOnAverage
<1>1. Init => PaceInv
  <2> SUFFICES ASSUME Init PROVE PaceInv
    OBVIOUS
  <2>1. Sec \in Nat
    BY SecNat, PaceAssumption DEF Init
  <2> QED
    BY <2>1, TypeInit
       DEF Init, PaceInv, OneDraw, OneSend, Paced, Drawing, Sending, Waiting
<1>2. PaceInv /\ [Next]_vars => PaceInv'
  BY TypeNext, OneCallNext, PaceNext DEF PaceInv
<1>3. PaceInv => PacedOnAverage
  <2> SUFFICES ASSUME PaceInv, Steady, breaker, "send" \in apart,
                      NEW i \in 1..Len(sent), NEW j \in 1..Len(sent), i < j
               PROVE  sent[j] - sent[i] >= (j - i - 1) * BreakerSecs
    BY DEF PacedOnAverage
  <2>1. sent[j] - sent[i] >= j - i - 1
    BY DEF PaceInv, Paced
  <2> QED
    BY <2>1 DEF BreakerSecs
<1> QED
  BY <1>1, <1>2, <1>3, PTL DEF Spec
=============================================================================
