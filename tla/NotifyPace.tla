----------------------------- MODULE NotifyPace -----------------------------
(***************************************************************************)
(* What of a notification depends on time: the id that                     *)
(* im_util_get_unique_number() draws for it, and the circuit breaker that  *)
(* lets at most one notification through per second (api_device.c:41).     *)
(*                                                                         *)
(* Both read the system's clock, which may be set back, and both keep a    *)
(* number in memory that all threads share and no lock protects: the       *)
(* static counter behind the ids, and circuit_breaker_timestamp.  Reading  *)
(* and writing such a number are two steps.                                *)
(*                                                                         *)
(* im_util_gettimeofday_as_sec() goes through a static variable as well;   *)
(* what another thread leaves there is a later reading of the clock, which *)
(* is the same as reading it later.                                        *)
(***************************************************************************)
EXTENDS Integers, Sequences

CONSTANTS
    Threads,       \* the application's threads
    TicksPerSec,   \* the resolution of the clock
    StartSec,      \* the second the clock shows at the beginning
    IntLimit,      \* circuit_breaker_timestamp is an int: -IntLimit..IntLimit - 1
    CounterLimit,  \* counter is an unsigned int: 0..CounterLimit - 1
    MaxTime,       \* bound: ticks observed
    MaxShift,      \* bound: ticks the clock is set back in total
    MaxCalls,      \* bound: ids drawn and notifications sent, together
    MaxOvertaken   \* bound: timestamps stored while another thread waits

ASSUME PaceAssumption ==
    /\ TicksPerSec \in Nat \ {0}
    /\ IntLimit \in Nat \ {0}
    /\ CounterLimit \in Nat \ {0}
    /\ MaxTime \in Nat /\ MaxShift \in Nat
    /\ StartSec \in Nat /\ StartSec * TicksPerSec >= MaxShift
    /\ MaxCalls \in Nat /\ MaxOvertaken \in Nat

\* IOTMAKERS_CIRCUIT_BREAKER_IN_SEC
BreakerSecs == 1

VARIABLES
    now,      \* ticks that have passed
    shift,    \* ticks the clock was set back
    breaker,  \* circuit_breaker_sw
    stamp,    \* circuit_breaker_timestamp
    counter,  \* im_util_get_unique_number(): the static counter
    pc,       \* pc[t]: where t is inside a call
    sec,      \* sec[t]: the second t has read from the clock, or 0
    count,    \* count[t]: the counter as t has read it, or 0
    wake,     \* wake[t]: when t's im_msleep() is over, or 0
    sleeps,   \* sleeps[t]: how often t has slept in the breaker
    ids,      \* the ids, in the order they were drawn
    sent,     \* the clock's seconds at which notifications were sent
    apart,    \* history: the kinds of calls of which no two have overlapped
    overtaken \* history: overtaken[t]: timestamps others stored while t waited

vars == <<now, shift, breaker, stamp, counter, pc, sec, count, wake, sleeps,
          ids, sent, apart, overtaken>>

Drawing == {"draw", "count", "store"}

Waiting == {"check", "asleep"}

Sending == Waiting \cup {"read", "stamp", "send"}

CallOf(kind) == IF kind = "draw" THEN Drawing ELSE Sending

TypeOK ==
    /\ now \in 0..MaxTime
    /\ shift \in 0..MaxShift
    /\ breaker \in BOOLEAN
    /\ stamp \in -IntLimit..IntLimit - 1
    /\ counter \in 0..CounterLimit - 1
    /\ pc \in [Threads -> {"out"} \cup Drawing \cup Sending]
    /\ sec \in [Threads -> Nat]
    /\ count \in [Threads -> 0..CounterLimit - 1]
    /\ wake \in [Threads -> Nat]
    /\ sleeps \in [Threads -> Nat]
    /\ ids \in Seq(Nat)
    /\ sent \in Seq(Nat)
    /\ apart \subseteq {"draw", "send"}
    /\ overtaken \in [Threads -> Nat]

Init ==
    /\ now = 0 /\ shift = 0
    /\ breaker = TRUE
    /\ stamp = 0
    /\ counter = 0
    /\ pc = [t \in Threads |-> "out"]
    /\ sec = [t \in Threads |-> 0]
    /\ count = [t \in Threads |-> 0]
    /\ wake = [t \in Threads |-> 0]
    /\ sleeps = [t \in Threads |-> 0]
    /\ ids = <<>> /\ sent = <<>>
    /\ apart = {"draw", "send"}
    /\ overtaken = [t \in Threads |-> 0]

-----------------------------------------------------------------------------
(* The clock                                                               *)

\* The second that gettimeofday() shows.
Sec == StartSec + ((now - shift) \div TicksPerSec)

\* What an int keeps of a number of seconds.
ToInt(s) == ((s + IntLimit) % (2 * IntLimit)) - IntLimit

Tick ==
    /\ now < MaxTime
    /\ now' = now + 1
    /\ UNCHANGED <<shift, breaker, stamp, counter, pc, sec, count, wake, sleeps,
                   ids, sent, apart, overtaken>>

SetBack ==
    /\ \E s \in shift + 1..MaxShift : shift' = s
    /\ UNCHANGED <<now, breaker, stamp, counter, pc, sec, count, wake, sleeps,
                   ids, sent, apart, overtaken>>

-----------------------------------------------------------------------------
(* im_util_get_unique_number(), for the packet of a new notification       *)

\* t begins a call; the calls of other threads it overlaps go on.
Enter(t, where) ==
    /\ pc[t] = "out"
    /\ pc' = [pc EXCEPT ![t] = where]
    /\ apart' = apart \ {kind \in {"draw", "send"} : \E u \in Threads :
                              {pc[u], where} \subseteq CallOf(kind)}

CallInit(t) ==
    /\ Len(ids) + Len(sent) < MaxCalls
    /\ Enter(t, "draw")
    /\ UNCHANGED <<now, shift, breaker, stamp, counter, sec, count, wake, sleeps,
                   ids, sent, overtaken>>

ReadClock(t) ==
    /\ pc[t] = "draw"
    /\ sec' = [sec EXCEPT ![t] = Sec]
    /\ pc' = [pc EXCEPT ![t] = "count"]
    /\ UNCHANGED <<now, shift, breaker, stamp, counter, count, wake, sleeps,
                   ids, sent, apart, overtaken>>

\* tv_sec + counter ...
ReadCounter(t) ==
    /\ pc[t] = "count"
    /\ Len(ids) + Len(sent) < MaxCalls
    /\ count' = [count EXCEPT ![t] = counter]
    /\ ids' = Append(ids, sec[t] + counter)
    /\ pc' = [pc EXCEPT ![t] = "store"]
    /\ UNCHANGED <<now, shift, breaker, stamp, counter, sec, wake, sleeps, sent,
                   apart, overtaken>>

\* Mutant: the counter is not incremented.
SameCount(c) == c

NextCount(c) == (c + 1) % CounterLimit

\* ... and the ++ of it.
StoreCounter(t) ==
    /\ pc[t] = "store"
    /\ counter' = NextCount(count[t])
    /\ sec' = [sec EXCEPT ![t] = 0]
    /\ count' = [count EXCEPT ![t] = 0]
    /\ pc' = [pc EXCEPT ![t] = "out"]
    /\ UNCHANGED <<now, shift, breaker, stamp, wake, sleeps, ids, sent, apart,
                   overtaken>>

-----------------------------------------------------------------------------
(* circuit_breaker(), and the transaction behind it                        *)

CallSend(t) ==
    /\ \A u \in Threads : overtaken[u] < MaxOvertaken
    /\ Len(ids) + Len(sent) < MaxCalls
    /\ Enter(t, IF breaker THEN "check" ELSE "send")
    /\ UNCHANGED <<now, shift, breaker, stamp, counter, sec, count, wake, sleeps,
                   ids, sent, overtaken>>

\* Mutant: <= in the place of <.
TooSoonInclusive == Sec - stamp <= BreakerSecs

TooSoon == Sec - stamp < BreakerSecs

Sleep(t) ==
    /\ pc[t] = "check"
    /\ TooSoon
    /\ wake' = [wake EXCEPT ![t] = now + TicksPerSec]
    /\ sleeps' = [sleeps EXCEPT ![t] = @ + 1]
    /\ pc' = [pc EXCEPT ![t] = "asleep"]
    /\ UNCHANGED <<now, shift, breaker, stamp, counter, sec, count, ids, sent,
                   apart, overtaken>>

Wake(t) ==
    /\ pc[t] = "asleep"
    /\ now >= wake[t]
    /\ wake' = [wake EXCEPT ![t] = 0]
    /\ pc' = [pc EXCEPT ![t] = "check"]
    /\ UNCHANGED <<now, shift, breaker, stamp, counter, sec, count, sleeps,
                   ids, sent, apart, overtaken>>

Pass(t) ==
    /\ pc[t] = "check"
    /\ ~TooSoon
    /\ sleeps' = [sleeps EXCEPT ![t] = 0]
    /\ overtaken' = [overtaken EXCEPT ![t] = 0]
    /\ pc' = [pc EXCEPT ![t] = "read"]
    /\ UNCHANGED <<now, shift, breaker, stamp, counter, sec, count, wake, ids, sent,
                   apart>>

\* The clock is read again for the timestamp ...
ReadStamp(t) ==
    /\ pc[t] = "read"
    /\ sec' = [sec EXCEPT ![t] = Sec]
    /\ pc' = [pc EXCEPT ![t] = "stamp"]
    /\ UNCHANGED <<now, shift, breaker, stamp, counter, count, wake, sleeps,
                   ids, sent, apart, overtaken>>

\* Mutant: the timestamp of the last notification stays.
OldStamp(t) == stamp

NewStamp(t) == ToInt(sec[t])

\* ... and stored.
StoreStamp(t) ==
    /\ pc[t] = "stamp"
    /\ stamp' = NewStamp(t)
    /\ sec' = [sec EXCEPT ![t] = 0]
    /\ pc' = [pc EXCEPT ![t] = "send"]
    /\ overtaken' = [u \in Threads |->
                        overtaken[u] + IF pc[u] \in Waiting THEN 1 ELSE 0]
    /\ UNCHANGED <<now, shift, breaker, counter, count, wake, sleeps, ids, sent,
                   apart>>

\* The transaction waits for the session's mutex and for the socket: any time
\* may pass before the notification is sent, if it is.
Send(t) ==
    /\ pc[t] = "send"
    /\ \/ sent' = Append(sent, Sec) /\ Len(ids) + Len(sent) < MaxCalls
       \/ UNCHANGED sent
    /\ pc' = [pc EXCEPT ![t] = "out"]
    /\ UNCHANGED <<now, shift, breaker, stamp, counter, sec, count, wake, sleeps,
                   ids, apart, overtaken>>

\* im_turn_circuit_breaker_off(); nothing turns it on again.
TurnOff ==
    /\ breaker' = FALSE
    /\ UNCHANGED <<now, shift, stamp, counter, pc, sec, count, wake, sleeps,
                   ids, sent, apart, overtaken>>

Step(t) ==
    \/ CallInit(t) \/ ReadClock(t) \/ ReadCounter(t) \/ StoreCounter(t)
    \/ CallSend(t) \/ Sleep(t) \/ Wake(t) \/ Pass(t)
    \/ ReadStamp(t) \/ StoreStamp(t) \/ Send(t)

Next == (\E t \in Threads : Step(t)) \/ Tick \/ SetBack \/ TurnOff

Spec == Init /\ [][Next]_vars
-----------------------------------------------------------------------------
(* Properties                                                              *)

\* The clock has not been set back, nor outgrown an int.
Steady == shift = 0 /\ Sec < IntLimit

\* The promise of the circuit breaker, on a steady clock and as long as no two
\* notifications are sent at once: n + 1 of them in a row take n - 1 seconds or
\* more.  Not n: the timestamp is taken before the transaction, and one that
\* waits for the mutex goes out shortly before the next.
PacedOnAverage ==
    Steady /\ breaker /\ "send" \in apart =>
        \A i, j \in 1..Len(sent) :
            i < j => sent[j] - sent[i] >= (j - i - 1) * BreakerSecs

\* An id is used again, so that a late answer is taken for that of a later
\* request, only within as many ids as the clock was set back in seconds, and
\* never on a clock that goes on: as long as no two ids are drawn at once, for
\* as many ids as an unsigned int counts.
IdsRepeatOnlyAfterSetback ==
    "draw" \in apart /\ Len(ids) <= CounterLimit =>
        \A i, j \in 1..Len(ids) :
            i < j /\ ids[j] <= ids[i] => (j - i - 1) * TicksPerSec < shift

\* The breaker delays a notification for its own period and for what the clock
\* was set back, no longer, and for two periods more with every timestamp that
\* another thread stores meanwhile, be it an old one: every other sleep is paid
\* for by a second of the setback.
SleepsBounded ==
    \A t \in Threads :
        (sleeps[t] - 2 * overtaken[t] - BreakerSecs) * TicksPerSec
            < shift + TicksPerSec
=============================================================================
