---------------------------- MODULE Notification ----------------------------
(***************************************************************************)
(* Building a notification (client/api_device.c) in the packet that the    *)
(* pool of client/client.c keeps for every thread.                         *)
(*                                                                         *)
(* A thread is meant to call im_resource_notification_init(), then         *)
(* im_resource_notification_append_resource() any number of times, then    *)
(* im_resource_notification_send(); nothing keeps it from calling them in  *)
(* another order, or from going on after a failure.                        *)
(* im_resource_send_notification() is the three in one.  Every call looks  *)
(* its packet up by the thread's id: the slot that carries the id, or else *)
(* the first free slot, which it claims.  No lock is held.                 *)
(*                                                                         *)
(* The transaction itself is the subject of ImClient; here it is two       *)
(* steps, the serialisation of the packet and its release.                 *)
(***************************************************************************)
EXTENDS Integers, Sequences, Functions

CONSTANTS
    Callers,     \* the application's threads; their ids
    NoTid,       \* 0: the id of a free slot
    PoolSize,    \* IM_RESOURCE_PACKET_POOL_SIZE
    MaxRounds,   \* bound: no notification is started when there are so many
    MaxEntries   \* bound: resources appended to a notification

ASSUME PoolAssumption ==
    /\ NoTid \notin Callers
    /\ PoolSize \in Nat
    /\ MaxRounds \in Nat
    /\ MaxEntries \in Nat

Slots == 1..PoolSize

VARIABLES
    tid,       \* tid[i]: the thread slot i belongs to
    packet,    \* packet[i]: the resources in the packet of slot i
    at,        \* at[t]: where t is inside a call
    call,      \* call[t]: the call t is in
    slot,      \* slot[t]: the slot this call has found
    round,     \* round[t]: notifications t has initialised
    open,      \* open[t]: t has initialised one and neither sent nor spoiled it
    appended,  \* appended[t]: appends of t since then that returned 0
    met        \* the pairs of threads that saw the same slot free

poolVars == <<tid, packet, at, call, slot, round, open, appended, met>>

\* A packet that im_packet411_req_init() has not prepared, or that was
\* released, has no body: what is appended to it is lost, and what is
\* serialised from it is not a notification.
Released == [ready |-> FALSE, entries |-> <<>>]
Entry == [by : Callers, round : Nat]
Packets == [ready : BOOLEAN, entries : Seq(Entry)]

PoolTypeOK ==
    /\ tid \in [Slots -> Callers \union {NoTid}]
    /\ packet \in [Slots -> Packets]
    /\ at \in [Callers -> {"out", "claim", "work", "sending"}]
    /\ call \in [Callers -> {"none", "init", "append", "send"}]
    /\ slot \in [Callers -> Slots \union {0}]
    /\ round \in [Callers -> Nat]
    /\ appended \in [Callers -> Nat]
    /\ open \in [Callers -> BOOLEAN]
    /\ met \subseteq SUBSET Callers

PoolInit ==
    /\ tid = [i \in Slots |-> NoTid]
    /\ packet = [i \in Slots |-> Released]
    /\ at = [t \in Callers |-> "out"]
    /\ call = [t \in Callers |-> "none"]
    /\ slot = [t \in Callers |-> 0]
    /\ round = [t \in Callers |-> 0]
    /\ appended = [t \in Callers |-> 0]
    /\ open = [t \in Callers |-> FALSE]
    /\ met = {}

-----------------------------------------------------------------------------
(* im_found_resource_pkt_pool_by_tid()                                     *)

Owned(t) == {i \in Slots : tid[i] = t}

Free == {i \in Slots : tid[i] = NoTid}

First(S, i) == i \in S /\ \A j \in S : i <= j

FindOwn(t) ==
    /\ \E i \in Slots : First(Owned(t), i) /\ slot' = [slot EXCEPT ![t] = i]
    /\ at' = [at EXCEPT ![t] = "work"]
    /\ UNCHANGED met

\* A free slot is seen in one step ...
FindFree(t) ==
    /\ Owned(t) = {}
    /\ \E i \in Slots :
          /\ First(Free, i)
          /\ slot' = [slot EXCEPT ![t] = i]
          /\ met' = met \union {{t, u} : u \in {v \in Callers :
                                                   at[v] = "claim" /\ slot[v] = i}}
    /\ at' = [at EXCEPT ![t] = "claim"]

\* Mutant: the slot found is used but not marked.
ClaimNothing(t) == UNCHANGED tid

MarkSlot(t) == tid' = [tid EXCEPT ![slot[t]] = t]

\* ... and taken in another.
Claim(t) ==
    /\ at[t] = "claim"
    /\ MarkSlot(t)
    /\ at' = [at EXCEPT ![t] = "work"]
    /\ UNCHANGED <<packet, call, slot, round, open, appended, met>>

\* Each call starts with the search.
Begin(t, c) ==
    /\ at[t] = "out"
    /\ FindOwn(t) \/ FindFree(t)
    /\ call' = [call EXCEPT ![t] = c]
    /\ UNCHANGED <<tid, packet, round, open, appended>>

BeginInit(t) == SumFunction(round) < MaxRounds /\ Begin(t, "init")

\* Invalid arguments are refused before the search, and nothing has changed.
BeginAppend(t) == appended[t] < MaxEntries /\ Begin(t, "append")

BeginSending(t) == Begin(t, "send")

\* Out of slots: the call returns -1.
NoSlot(t) ==
    /\ at[t] = "out"
    /\ Owned(t) = {}
    /\ Free = {}
    /\ UNCHANGED poolVars

-----------------------------------------------------------------------------
(* What the calls do with the packet                                       *)

\* The call returns, and its local variables are gone.
Leave(t) ==
    /\ at' = [at EXCEPT ![t] = "out"]
    /\ call' = [call EXCEPT ![t] = "none"]
    /\ slot' = [slot EXCEPT ![t] = 0]

\* Mutant: im_packet_release() is left out, the old resources stay.
KeepEntries(t) == [packet[slot[t]] EXCEPT !.ready = TRUE]

Prepared(t) == [ready |-> TRUE, entries |-> <<>>]

\* im_packet_release(), im_packet411_req_init()
WorkInit(t) ==
    /\ at[t] = "work" /\ call[t] = "init"
    /\ packet' = [packet EXCEPT ![slot[t]] = Prepared(t)]
    /\ round' = [round EXCEPT ![t] = @ + 1]
    /\ appended' = [appended EXCEPT ![t] = 0]
    /\ open' = [open EXCEPT ![t] = TRUE]
    /\ Leave(t)
    /\ UNCHANGED <<tid, met>>

\* The packet of t with one more resource.
Extended(t) ==
    [ready |-> TRUE,
     entries |-> Append(packet[slot[t]].entries, [by |-> t, round |-> round[t]])]

\* im_body411_req_append_resource_representation() returns 0 also for a packet
\* without body.
WorkAppend(t) ==
    /\ at[t] = "work" /\ call[t] = "append"
    /\ packet' = IF packet[slot[t]].ready
                 THEN [packet EXCEPT ![slot[t]] = Extended(t)]
                 ELSE packet
    /\ appended' = [appended EXCEPT ![t] = @ + 1]
    /\ Leave(t)
    /\ UNCHANGED <<tid, round, open, met>>

\* im_packet_release()
Release(t) == packet' = [packet EXCEPT ![slot[t]] = Released]

\* The call returns without a notification in the making.
Finish(t) ==
    /\ open' = [open EXCEPT ![t] = FALSE]
    /\ Leave(t)
    /\ UNCHANGED <<tid, round, appended, met>>

\* Properties that are not JSON release the packet, and the call returns -1.
SpoilAppend(t) ==
    /\ at[t] = "work" /\ call[t] = "append"
    /\ Release(t)
    /\ Finish(t)

\* The packet is serialised for the connection, whatever is in it ...
WorkSend(t) ==
    /\ at[t] = "work" /\ call[t] = "send"
    /\ at' = [at EXCEPT ![t] = "sending"]
    /\ UNCHANGED <<tid, packet, call, slot, round, open, appended, met>>

\* ... and released when the transaction is over, whatever its result.
EndSending(t) ==
    /\ at[t] = "sending"
    /\ Release(t)
    /\ Finish(t)

PoolStep(t) ==
    \/ BeginInit(t) \/ BeginAppend(t) \/ BeginSending(t)
    \/ Claim(t) \/ NoSlot(t)
    \/ WorkInit(t) \/ WorkAppend(t) \/ SpoilAppend(t)
    \/ WorkSend(t) \/ EndSending(t)

PoolNext == \E t \in Callers : PoolStep(t)

PoolSpec == PoolInit /\ [][PoolNext]_poolVars
-----------------------------------------------------------------------------
(* Properties                                                              *)

Using(t) == at[t] \in {"work", "sending"}

\* No two threads ever work on the same packet of the pool, which is what the
\* pool is for (CHANGES 1.1.0: thread support).
PacketsPrivate ==
    \A t, u \in Callers : Using(t) /\ Using(u) /\ slot[t] = slot[u] => t = u

\* Two threads come to work on the same packet only if both had seen its slot
\* free before either took it: no other order of their calls brings them there.
SharedOnlyIfMet ==
    \A t, u \in Callers :
        Using(t) /\ Using(u) /\ slot[t] = slot[u] => t = u \/ {t, u} \in met

\* t has never seen a slot free beside another thread.
Alone(t) == \A u \in Callers : {t, u} \notin met

Filled(t) ==
    [ready |-> TRUE,
     entries |-> [k \in 1..appended[t] |-> [by |-> t, round |-> round[t]]]]

\* What such a thread sends are exactly the resources appended since its
\* im_resource_notification_init(): none of another thread or of an earlier
\* notification, none missing.  After a failed append, after a send and before
\* the first init it is an empty packet, although the appends there return 0.
SentOwn ==
    \A t \in Callers :
        at[t] = "work" /\ call[t] = "send" /\ Alone(t) =>
            packet[slot[t]] = IF open[t] THEN Filled(t) ELSE Released
=============================================================================
