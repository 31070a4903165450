----------------------------- MODULE KeepAlive -----------------------------
(***************************************************************************)
(* The keepalive of im_poll() (client/client.c): a timer that runs out     *)
(* every IOTMAKERS_KEEPALIVE_IN_SEC seconds and a comparison of the packet *)
(* counter with its value when the timer last ran out.                     *)
(*                                                                         *)
(* One thread polls; any thread may send a packet at any time, also        *)
(* between the steps of im_poll(), which hold no lock.  Time is the clock  *)
(* in whole seconds that im_util_gettimeofday_as_sec() returns; it does    *)
(* not jump.                                                               *)
(*                                                                         *)
(* The counter is an unsigned long, its copy an int: both keep their       *)
(* width.                                                                  *)
(***************************************************************************)
EXTENDS Integers

CONSTANTS
    Period,        \* IOTMAKERS_KEEPALIVE_IN_SEC
    PollGap,       \* the application calls im_poll() every PollGap seconds
    CopyLimit,     \* 2^31: an int is below it
    CountLimit,    \* 2^32 or 2^64: an unsigned long is below it
    MaxClock,      \* bound: seconds the model runs
    MaxSent        \* bound: packets sent

ASSUME KeepAliveAssumption ==
    /\ Period \in Nat
    /\ PollGap \in Nat \ {0}
    /\ CopyLimit \in Nat \ {0}
    /\ CountLimit \in Nat
    /\ CountLimit >= 2 * CopyLimit
    /\ MaxClock \in Nat
    /\ MaxSent \in Nat

VARIABLES
    responseWait,         \* cli->response_wait_sw
    clock,                \* the clock's seconds
    keepaliveTimestamp,   \* cli->keepalive_timestamp
    packetCountOut,       \* cli->packet_count_out
    packetCountOutCheck,  \* cli->packet_count_out_check
    pollAt,               \* where im_poll() is
    polled,               \* when im_poll() was last called
    lastOut,              \* when the client last sent a packet
    total                 \* packets sent, without wrapping

keepVars == <<responseWait, clock, keepaliveTimestamp, packetCountOut,
              packetCountOutCheck, pollAt, polled, lastOut, total>>

\* The assignment of an unsigned long to an int, and the conversion back that
\* the comparison makes.
ToCopy(c) == ((c + CopyLimit) % (2 * CopyLimit)) - CopyLimit
ToLong(i) == i % CountLimit

KeepTypeOK ==
    /\ responseWait \in BOOLEAN
    /\ clock \in 0..MaxClock
    /\ keepaliveTimestamp \in 0..clock
    /\ packetCountOut \in 0..CountLimit - 1
    /\ packetCountOutCheck \in -CopyLimit..CopyLimit - 1
    /\ pollAt \in {"idle", "expired", "keepalive", "answer", "record", "failed"}
    /\ polled \in 0..clock
    /\ lastOut \in 0..clock
    /\ total \in 0..MaxSent

\* im_client_init() and the authentication, which is one packet; then
\* im_turn_response_wait_off() or not, as in the samples.
KeepInit ==
    /\ responseWait \in BOOLEAN
    /\ clock = 0
    /\ keepaliveTimestamp = 0
    /\ packetCountOut = 1 % CountLimit
    /\ packetCountOutCheck = 0
    /\ pollAt = "idle"
    /\ polled = 0
    /\ lastOut = 0
    /\ total = 1

\* Time passes, but the next im_poll() is never late.
ClockTick ==
    /\ clock < MaxClock
    /\ clock < polled + PollGap
    /\ clock' = clock + 1
    /\ UNCHANGED <<responseWait, keepaliveTimestamp, packetCountOut,
                   packetCountOutCheck, pollAt, polled, lastOut, total>>

\* A packet goes out: im_conn_send_packet() counts it.
Out ==
    /\ total < MaxSent
    /\ total' = total + 1
    /\ packetCountOut' = (packetCountOut + 1) % CountLimit
    /\ lastOut' = clock

\* A notification, or a reply of a request handler.
OtherSend ==
    /\ Out
    /\ UNCHANGED <<responseWait, clock, keepaliveTimestamp, packetCountOutCheck,
                   pollAt, polled>>

Expired == clock - keepaliveTimestamp > Period

\* im_poll() is called and looks at the timer.
Poll ==
    /\ pollAt = "idle"
    /\ polled' = clock
    /\ \/ /\ ~Expired
          /\ UNCHANGED <<keepaliveTimestamp, pollAt>>
       \/ /\ Expired
          /\ keepaliveTimestamp' = clock
          /\ pollAt' = "expired"
    /\ UNCHANGED <<responseWait, clock, packetCountOut, packetCountOutCheck,
                   lastOut, total>>

\* Nothing was sent since the timer ran out before.
Quiet == ToLong(packetCountOutCheck) = packetCountOut

\* Mutant: only the counter decides, as before version 1.1.8.
NeededByCounter == Quiet

Needed == Quiet \/ ~responseWait

Decide ==
    /\ pollAt = "expired"
    /\ pollAt' = IF Needed THEN "keepalive" ELSE "record"
    /\ UNCHANGED <<responseWait, clock, keepaliveTimestamp, packetCountOut,
                   packetCountOutCheck, polled, lastOut, total>>

\* im_session_keepalive(): the packet goes out, or the connection is broken.
Keepalive ==
    /\ pollAt = "keepalive"
    /\ \/ Out /\ pollAt' = "answer"
       \/ pollAt' = "failed" /\ UNCHANGED <<packetCountOut, lastOut, total>>
    /\ UNCHANGED <<responseWait, clock, keepaliveTimestamp, packetCountOutCheck,
                   polled>>

\* Its answer arrives, or not within the timeout.
Answer ==
    /\ pollAt = "answer"
    /\ pollAt' \in {"record", "failed"}
    /\ UNCHANGED <<responseWait, clock, keepaliveTimestamp, packetCountOut,
                   packetCountOutCheck, polled, lastOut, total>>

\* Mutant: the copy is never brought up to date.
KeepOldCheck == UNCHANGED packetCountOutCheck

CopyCount == packetCountOutCheck' = ToCopy(packetCountOut)

Record ==
    /\ pollAt = "record"
    /\ CopyCount
    /\ pollAt' = "idle"
    /\ UNCHANGED <<responseWait, clock, keepaliveTimestamp, packetCountOut,
                   polled, lastOut, total>>

\* im_poll() has failed, the loop of the samples has ended.
Failed == pollAt = "failed" /\ UNCHANGED keepVars

\* The bounds of the model are reached.
Bounded == (clock = MaxClock \/ total = MaxSent) /\ UNCHANGED keepVars

KeepNext ==
    \/ ClockTick \/ OtherSend
    \/ Poll \/ Decide \/ Keepalive \/ Answer \/ Record
    \/ Failed \/ Bounded

KeepSpec == KeepInit /\ [][KeepNext]_keepVars
-----------------------------------------------------------------------------
(* Properties                                                              *)

Silence == clock - lastOut

\* The client is never silent for more than two periods (and the delay of the
\* polling), although the counter is compared only when the timer runs out and
\* other threads send between the steps.
TwoPeriods ==
    pollAt # "failed" => Silence <= 2 * Period + 3 * PollGap

\* When answers are not waited for, every period brings a keepalive, busy
\* session or not (CHANGES 1.1.8: the session is checked in the no-wait mode).
OnePeriod ==
    ~responseWait /\ pollAt # "failed" => Silence <= Period + 2 * PollGap
=============================================================================
