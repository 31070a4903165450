------------------------- MODULE Notification_proofs -------------------------
(* The packet pool, for any number of threads, slots, notifications and      *)
(* resources, and for any order of the calls: two threads share a packet     *)
(* only if they have met at a free slot, and a thread that has met nobody    *)
(* sends what it has appended.                                               *)
(*                                                                           *)
(* The argument: whoever has a slot in hand or its id on it, holds it.  A    *)
(* free slot is empty and only threads about to claim it hold it (FreeSlot), *)
(* so that the first step to a slot that another thread holds is the one in  *)
(* which the two meet (Shared).  A thread that has met nobody therefore      *)
(* keeps its slot (Kept), and only its own calls change the packet there     *)
(* (Content).                                                                *)
EXTENDS Notification, TLAPS

Holds(t, i) == tid[i] = t \/ slot[t] = i

\* A thread inside a call has a slot in hand.
Placed ==
    \A t \in Callers :
        /\ at[t] = "out" => slot[t] = 0
        /\ at[t] # "out" => slot[t] \in Slots

Shared ==
    \A t, u \in Callers, i \in Slots :
        Holds(t, i) /\ Holds(u, i) => t = u \/ {t, u} \in met

FreeSlot ==
    \A i \in Slots :
        tid[i] = NoTid =>
            /\ packet[i] = Released
            /\ \A t \in Callers : slot[t] = i => at[t] = "claim"

Unclaimed == \A t \in Callers : at[t] = "claim" => \A i \in Slots : tid[i] # t

Unique == \A i, j \in Slots : tid[i] = tid[j] /\ tid[i] # NoTid => i = j

Kept == \A t \in Callers : Using(t) /\ Alone(t) => tid[slot[t]] = t

PoolInv ==
    /\ PoolTypeOK /\ Placed /\ Shared /\ FreeSlot /\ Unclaimed /\ Unique /\ Kept

\* What a packet may become is a packet.
LEMMA EmptyPackets ==
  Released \in Packets /\ \A t \in Callers : Prepared(t) \in Packets
<1>1. <<>> \in Seq(Entry)
  OBVIOUS
<1> QED
  BY <1>1 DEF Released, Prepared, Packets

LEMMA ExtendedPacket ==
  ASSUME PoolTypeOK, NEW t \in Callers, slot[t] \in Slots
  PROVE  Extended(t) \in Packets
<1>1. [by |-> t, round |-> round[t]] \in Entry
  BY DEF Entry, PoolTypeOK
<1>2. packet[slot[t]].entries \in Seq(Entry)
  BY DEF Packets, PoolTypeOK
<1>3. Append(packet[slot[t]].entries, [by |-> t, round |-> round[t]]) \in Seq(Entry)
  BY <1>1, <1>2
<1> QED
  BY <1>3 DEF Packets, Extended

\* The number of a slot is not the 0 of a thread without one.
LEMMA SlotNumbers == 0 \notin Slots
BY PoolAssumption DEF Slots

LEMMA PoolInvInit == PoolInit => PoolInv
<1> SUFFICES ASSUME PoolInit PROVE PoolInv
  OBVIOUS
<1>1. PoolTypeOK
  BY EmptyPackets DEF PoolInit, PoolTypeOK
<1>2. Placed /\ Unclaimed /\ Unique /\ Kept
  BY DEF PoolInit, Placed, Unclaimed, Unique, Kept, Using
<1>3. Shared /\ FreeSlot
  BY SlotNumbers, PoolAssumption DEF PoolInit, Shared, FreeSlot, Holds
<1> QED
  BY <1>1, <1>2, <1>3 DEF PoolInv

-----------------------------------------------------------------------------
(* The steps                                                                 *)

\* A call finds the slot that carries its thread's id ...
LEMMA BeginOwnStep ==
  ASSUME PoolInv, NEW t \in Callers, NEW c \in {"init", "append", "send"},
         Begin(t, c), FindOwn(t)
  PROVE  PoolInv'
<1>1. PICK i \in Slots : tid[i] = t /\ slot' = [slot EXCEPT ![t] = i]
  BY DEF FindOwn, First, Owned
<1>2. /\ at[t] = "out" /\ at' = [at EXCEPT ![t] = "work"]
      /\ call' = [call EXCEPT ![t] = c]
      /\ UNCHANGED <<tid, packet, round, open, appended, met>>
  BY DEF Begin, FindOwn
<1>3. PoolTypeOK /\ Placed /\ Shared /\ FreeSlot /\ Unclaimed /\ Unique /\ Kept
  BY DEF PoolInv
<1>4. PoolTypeOK'
  BY <1>1, <1>2, <1>3 DEF PoolTypeOK
<1>5. Placed' /\ Unclaimed' /\ Unique'
  BY <1>1, <1>2, <1>3 DEF PoolTypeOK, Placed, Unclaimed, Unique
<1>6. Shared'
  <2>1. \A u \in Callers, j \in Slots : Holds(u, j)' => Holds(u, j)
    BY <1>1, <1>2, <1>3 DEF Holds, PoolTypeOK
  <2> QED
    BY <1>2, <1>3, <2>1 DEF Shared
<1>7. FreeSlot'
  BY <1>1, <1>2, <1>3, PoolAssumption DEF FreeSlot, PoolTypeOK
<1>8. Kept'
  BY <1>1, <1>2, <1>3 DEF Kept, Using, Alone, PoolTypeOK
<1> QED
  BY <1>4, <1>5, <1>6, <1>7, <1>8 DEF PoolInv

\* ... or a free one, where it meets those that have found it as well.
LEMMA BeginFreeStep ==
  ASSUME PoolInv, NEW t \in Callers, NEW c \in {"init", "append", "send"},
         Begin(t, c), FindFree(t)
  PROVE  PoolInv'
<1>1. PICK i \in Slots :
         /\ tid[i] = NoTid /\ slot' = [slot EXCEPT ![t] = i]
         /\ met' = met \union {{t, u} : u \in {v \in Callers :
                                                  at[v] = "claim" /\ slot[v] = i}}
  BY DEF FindFree, First, Free
<1>2. /\ at[t] = "out" /\ at' = [at EXCEPT ![t] = "claim"]
      /\ call' = [call EXCEPT ![t] = c] /\ \A j \in Slots : tid[j] # t
      /\ UNCHANGED <<tid, packet, round, open, appended>>
  BY DEF Begin, FindFree, Owned
<1>3. PoolTypeOK /\ Placed /\ Shared /\ FreeSlot /\ Unclaimed /\ Unique /\ Kept
  BY DEF PoolInv
<1>4. PoolTypeOK'
  <2>1. met' \subseteq SUBSET Callers
    BY <1>1, <1>3 DEF PoolTypeOK
  <2> QED
    BY <1>1, <1>2, <1>3, <2>1 DEF PoolTypeOK
<1>5. Placed' /\ Unclaimed' /\ Unique'
  BY <1>1, <1>2, <1>3 DEF PoolTypeOK, Placed, Unclaimed, Unique
<1>6. met \subseteq met'
  BY <1>1
<1>7. ASSUME NEW u \in Callers, u # t, Holds(u, i) PROVE {t, u} \in met' /\ {u, t} \in met'
  <2>1. slot[u] = i /\ at[u] = "claim"
    BY <1>1, <1>3, <1>7, PoolAssumption DEF Holds, FreeSlot
  <2>2. {t, u} \in met'
    BY <1>1, <2>1
  <2>3. {u, t} = {t, u}
    OBVIOUS
  <2> QED
    BY <2>2, <2>3
<1>8. Shared'
  <2> SUFFICES ASSUME NEW u \in Callers, NEW v \in Callers, NEW j \in Slots, u # v,
                      Holds(u, j)', Holds(v, j)'
               PROVE  {u, v} \in met'
    BY DEF Shared
  <2>1. \A w \in Callers : Holds(w, j)' => Holds(w, j) \/ (w = t /\ j = i)
    BY <1>1, <1>2, <1>3 DEF Holds, PoolTypeOK
  <2>2. CASE Holds(u, j) /\ Holds(v, j)
    BY <1>3, <1>6, <2>2 DEF Shared
  <2>3. CASE u = t /\ j = i
    BY <1>7, <2>1, <2>3
  <2>4. CASE v = t /\ j = i
    BY <1>7, <2>1, <2>4
  <2> QED
    BY <2>1, <2>2, <2>3, <2>4
<1>9. FreeSlot'
  BY <1>1, <1>2, <1>3 DEF FreeSlot, PoolTypeOK
<1>10. Kept'
  <2>1. \A u \in Callers : Alone(u)' => Alone(u)
    BY <1>6 DEF Alone
  <2>2. \A u \in Callers : Using(u)' => Using(u) /\ u # t /\ slot'[u] = slot[u]
    BY <1>1, <1>2, <1>3 DEF Using, PoolTypeOK
  <2> QED
    BY <1>2, <1>3, <2>1, <2>2 DEF Kept
<1> QED
  BY <1>4, <1>5, <1>8, <1>9, <1>10 DEF PoolInv

\* Who else holds the slot of a thread that has met nobody?  No one.
LEMMA AloneHolds ==
  ASSUME PoolInv, NEW t \in Callers, NEW u \in Callers, NEW i \in Slots,
         Holds(t, i), Holds(u, i), Alone(t) \/ Alone(u)
  PROVE  t = u
<1>1. t = u \/ {t, u} \in met
  BY DEF PoolInv, Shared
<1>2. {t, u} = {u, t}
  OBVIOUS
<1> QED
  BY <1>1, <1>2 DEF Alone

LEMMA ClaimStep ==
  ASSUME PoolInv, NEW t \in Callers, Claim(t)
  PROVE  PoolInv'
<1>1. /\ at[t] = "claim" /\ slot[t] \in Slots /\ tid' = [tid EXCEPT ![slot[t]] = t]
      /\ at' = [at EXCEPT ![t] = "work"]
      /\ UNCHANGED <<packet, call, slot, round, open, appended, met>>
  BY DEF Claim, MarkSlot, PoolInv, Placed
<1>2. PoolTypeOK /\ Placed /\ Shared /\ FreeSlot /\ Unclaimed /\ Unique /\ Kept
  BY DEF PoolInv
<1>3. PoolTypeOK'
  BY <1>1, <1>2 DEF PoolTypeOK
<1>4. Placed' /\ Unclaimed'
  BY <1>1, <1>2 DEF PoolTypeOK, Placed, Unclaimed
<1>5. Unique'
  BY <1>1, <1>2 DEF PoolTypeOK, Unclaimed, Unique
<1>6. Shared'
  <2>1. \A u \in Callers, j \in Slots : Holds(u, j)' => Holds(u, j)
    BY <1>1, <1>2 DEF Holds, PoolTypeOK
  <2> QED
    BY <1>1, <1>2, <2>1 DEF Shared
<1>7. FreeSlot'
  BY <1>1, <1>2, PoolAssumption DEF FreeSlot, PoolTypeOK
<1>8. Kept'
  <2> SUFFICES ASSUME NEW u \in Callers, Using(u)', Alone(u)
               PROVE  tid'[slot[u]] = u
    BY <1>1 DEF Kept, Alone
  <2>1. CASE u = t
    BY <1>1, <1>2, <2>1 DEF PoolTypeOK
  <2>2. CASE u # t
    <3>1. Using(u) /\ slot[u] \in Slots /\ tid[slot[u]] = u
      BY <1>1, <1>2, <2>2 DEF Using, Kept, Placed, PoolTypeOK
    <3>2. slot[u] # slot[t]
      BY <1>1, <2>2, <3>1, AloneHolds DEF Holds
    <3> QED
      BY <1>1, <1>2, <3>1, <3>2 DEF PoolTypeOK
  <2> QED
    BY <2>1, <2>2
<1> QED
  BY <1>3, <1>4, <1>5, <1>6, <1>7, <1>8 DEF PoolInv

\* A step of t with its packet: it may go on to send it, or leave the call.
LEMMA WorkStep ==
  ASSUME PoolInv, NEW t \in Callers, Using(t),
         \/ Leave(t)
         \/ at' = [at EXCEPT ![t] = "sending"] /\ UNCHANGED <<slot, call>>,
         NEW p \in Packets,
         packet' = packet \/ packet' = [packet EXCEPT ![slot[t]] = p],
         round' \in [Callers -> Nat], appended' \in [Callers -> Nat],
         open' \in [Callers -> BOOLEAN], UNCHANGED <<tid, met>>
  PROVE  PoolInv'
<1>1. PoolTypeOK /\ Placed /\ Shared /\ FreeSlot /\ Unclaimed /\ Unique /\ Kept
  BY DEF PoolInv
<1>2. /\ slot[t] \in Slots /\ tid[slot[t]] # NoTid
      /\ \A u \in Callers : u # t => at'[u] = at[u] /\ slot'[u] = slot[u]
      /\ \/ at'[t] = "out" /\ slot'[t] = 0
         \/ at'[t] = "sending" /\ slot'[t] = slot[t]
  BY <1>1 DEF Using, Placed, FreeSlot, Leave, PoolTypeOK
<1>3. PoolTypeOK'
  BY <1>1, SlotNumbers DEF PoolTypeOK, Leave
<1>4. Placed' /\ Unclaimed' /\ Unique'
  BY <1>1, <1>2 DEF Placed, Unclaimed, Unique
<1>5. Shared'
  <2>1. \A u \in Callers, j \in Slots : Holds(u, j)' => Holds(u, j)
    BY <1>2, SlotNumbers DEF Holds
  <2> QED
    BY <1>1, <2>1 DEF Shared
<1>6. FreeSlot'
  <2>1. ASSUME NEW i \in Slots, tid[i] = NoTid
        PROVE  packet'[i] = packet[i]
    BY <1>1, <1>2, <2>1 DEF PoolTypeOK
  <2>2. ASSUME NEW i \in Slots, tid[i] = NoTid, NEW u \in Callers, slot'[u] = i
        PROVE  at'[u] = "claim"
    BY <1>1, <1>2, <2>2, SlotNumbers DEF FreeSlot
  <2> QED
    BY <1>1, <2>1, <2>2 DEF FreeSlot
<1>7. Kept'
  BY <1>1, <1>2 DEF Kept, Using, Alone
<1> QED
  BY <1>3, <1>4, <1>5, <1>6, <1>7 DEF PoolInv

LEMMA PoolInvNext == PoolInv /\ [PoolNext]_poolVars => PoolInv'
<1> SUFFICES ASSUME PoolInv, [PoolNext]_poolVars PROVE PoolInv'
  OBVIOUS
<1>0. /\ PoolTypeOK
      /\ \A t \in Callers : at[t] \in {"work", "sending"} => Using(t) /\ slot[t] \in Slots
  BY DEF PoolInv, Placed, Using
<1>1. ASSUME NEW t \in Callers, BeginInit(t) \/ BeginAppend(t) \/ BeginSending(t)
      PROVE  PoolInv'
  <2>1. PICK c \in {"init", "append", "send"} : Begin(t, c)
    BY <1>1 DEF BeginInit, BeginAppend, BeginSending
  <2> QED
    BY <2>1, BeginOwnStep, BeginFreeStep DEF Begin
<1>2. ASSUME NEW t \in Callers, Claim(t) PROVE PoolInv'
  BY <1>2, ClaimStep
<1>3. ASSUME NEW t \in Callers, WorkInit(t) PROVE PoolInv'
  <2>1. /\ Using(t) /\ Leave(t) /\ Prepared(t) \in Packets
        /\ packet' = [packet EXCEPT ![slot[t]] = Prepared(t)]
        /\ UNCHANGED <<tid, met>>
    BY <1>0, <1>3, EmptyPackets DEF WorkInit
  <2>2. /\ round' \in [Callers -> Nat] /\ appended' \in [Callers -> Nat]
        /\ open' \in [Callers -> BOOLEAN]
    BY <1>0, <1>3 DEF WorkInit, PoolTypeOK
  <2> QED
    BY <2>1, <2>2, WorkStep
<1>4. ASSUME NEW t \in Callers, WorkAppend(t) PROVE PoolInv'
  <2>1. /\ Using(t) /\ Leave(t) /\ Extended(t) \in Packets
        /\ packet' = packet \/ packet' = [packet EXCEPT ![slot[t]] = Extended(t)]
        /\ UNCHANGED <<tid, met>>
    BY <1>0, <1>4, ExtendedPacket DEF WorkAppend
  <2>2. /\ round' \in [Callers -> Nat] /\ appended' \in [Callers -> Nat]
        /\ open' \in [Callers -> BOOLEAN]
    BY <1>0, <1>4 DEF WorkAppend, PoolTypeOK
  <2> QED
    BY <2>1, <2>2, WorkStep
<1>5. ASSUME NEW t \in Callers, SpoilAppend(t) \/ EndSending(t) PROVE PoolInv'
  <2>1. /\ Using(t) /\ Leave(t) /\ Released \in Packets
        /\ packet' = [packet EXCEPT ![slot[t]] = Released]
        /\ UNCHANGED <<tid, met>>
    BY <1>0, <1>5, EmptyPackets DEF SpoilAppend, EndSending, Finish, Release
  <2>2. /\ round' \in [Callers -> Nat] /\ appended' \in [Callers -> Nat]
        /\ open' \in [Callers -> BOOLEAN]
    BY <1>0, <1>5 DEF SpoilAppend, EndSending, Finish, PoolTypeOK
  <2> QED
    BY <2>1, <2>2, WorkStep
<1>6. ASSUME NEW t \in Callers, WorkSend(t) PROVE PoolInv'
  <2>1. /\ Using(t) /\ at' = [at EXCEPT ![t] = "sending"]
        /\ UNCHANGED <<slot, call, packet, tid, met, round, open, appended>>
    BY <1>0, <1>6 DEF WorkSend
  <2>2. Released \in Packets
    BY EmptyPackets
  <2>3. /\ round' \in [Callers -> Nat] /\ appended' \in [Callers -> Nat]
        /\ open' \in [Callers -> BOOLEAN]
    BY <1>0, <2>1 DEF PoolTypeOK
  <2> QED
    BY <2>1, <2>2, <2>3, WorkStep
<1>7. CASE UNCHANGED poolVars
  BY <1>7 DEF poolVars, PoolInv, PoolTypeOK, Placed, Shared, Holds, FreeSlot,
              Unclaimed, Unique, Kept, Using, Alone
<1> QED
  BY <1>1, <1>2, <1>3, <1>4, <1>5, <1>6, <1>7 DEF PoolNext, PoolStep, NoSlot

\* Type correctness of the pool, for calls in any order and at the same time.
THEOREM NotificationTypeCorrect == PoolSpec => []PoolTypeOK
<1>1. PoolInv => PoolTypeOK
  BY DEF PoolInv
<1> QED
  BY PoolInvInit, PoolInvNext, <1>1, PTL DEF PoolSpec

\* Two threads work on one packet only if they have both seen its slot free
\* before either took it, however many threads call in whatever order.
THEOREM NotificationSharedOnlyIfMet == PoolSpec => []SharedOnlyIfMet
<1>1. PoolInv => SharedOnlyIfMet
  <2> SUFFICES ASSUME PoolInv, NEW t \in Callers, NEW u \in Callers,
                      Using(t), Using(u), slot[t] = slot[u]
               PROVE  t = u \/ {t, u} \in met
    BY DEF SharedOnlyIfMet
  <2>1. slot[t] \in Slots
    BY DEF PoolInv, Placed, Using
  <2> QED
    BY <2>1 DEF PoolInv, Shared, Holds
<1> QED
  BY PoolInvInit, PoolInvNext, <1>1, PTL DEF PoolSpec

-----------------------------------------------------------------------------
(* The contents                                                              *)

Proper(t) == IF open[t] THEN Filled(t) ELSE Released

Content ==
    \A t \in Callers :
        Alone(t) =>
            /\ \A i \in Slots : tid[i] = t => packet[i] = Proper(t)
            /\ (\A i \in Slots : tid[i] # t) => ~open[t]

LEMMA AppendSame ==
  ASSUME NEW e, NEW n \in Nat
  PROVE  Append([k \in 1..n |-> e], e) = [k \in 1..n + 1 |-> e]
<1> DEFINE s == [k \in 1..n |-> e]
           u == [k \in 1..n + 1 |-> e]
<1>1. s \in Seq({e}) /\ Len(s) = n
  OBVIOUS
<1>2. Append(s, e) \in Seq({e}) /\ Len(Append(s, e)) = n + 1
  BY <1>1
<1>3. u \in Seq({e}) /\ Len(u) = n + 1
  OBVIOUS
<1>4. \A k \in 1..n + 1 : Append(s, e)[k] = u[k]
  BY <1>1
<1> QED
  BY <1>2, <1>3, <1>4

\* A step of t with its packet concerns no other thread that is alone, and its
\* own packet is the one in hand.
LEMMA ContentStep ==
  ASSUME PoolInv, Content, NEW t \in Callers, Using(t), UNCHANGED <<tid, met>>,
         \A i \in Slots : i # slot[t] => packet'[i] = packet[i],
         \A u \in Callers : u # t =>
            round'[u] = round[u] /\ open'[u] = open[u] /\ appended'[u] = appended[u],
         Alone(t) => packet'[slot[t]] = Proper(t)'
  PROVE  Content'
<1> SUFFICES ASSUME NEW u \in Callers, Alone(u)
             PROVE  /\ \A i \in Slots : tid[i] = u => packet'[i] = Proper(u)'
                    /\ (\A i \in Slots : tid[i] # u) => ~open'[u]
  BY DEF Content, Alone
<1>1. slot[t] \in Slots
  BY DEF PoolInv, Placed, Using
<1>2. CASE u = t
  <2>1. tid[slot[t]] = t /\ t # NoTid
    BY <1>2, PoolAssumption DEF PoolInv, Kept
  <2>2. \A i \in Slots : tid[i] = t => i = slot[t]
    BY <1>1, <2>1 DEF PoolInv, Unique
  <2> QED
    BY <1>1, <1>2, <2>1, <2>2
<1>3. CASE u # t
  <2>1. ASSUME NEW i \in Slots, tid[i] = u PROVE packet'[i] = Proper(u)'
    <3>1. i # slot[t]
      BY <1>1, <1>3, <2>1, AloneHolds DEF Holds
    <3>2. packet[i] = Proper(u) /\ packet'[i] = packet[i]
      BY <2>1, <3>1 DEF Content
    <3>3. Proper(u)' = Proper(u)
      BY <1>3 DEF Proper, Filled
    <3> QED
      BY <3>2, <3>3
  <2> QED
    BY <1>3, <2>1 DEF Content
<1> QED
  BY <1>2, <1>3

\* The packet in hand of a thread that is alone.
LEMMA OwnPacket ==
  ASSUME PoolInv, Content, NEW t \in Callers, Using(t), Alone(t)
  PROVE  slot[t] \in Slots /\ packet[slot[t]] = Proper(t)
<1>1. slot[t] \in Slots /\ tid[slot[t]] = t
  BY DEF PoolInv, Placed, Kept, Using
<1> QED
  BY <1>1 DEF Content

LEMMA ContentNext == PoolInv /\ Content /\ [PoolNext]_poolVars => Content'
<1> SUFFICES ASSUME PoolInv, Content, [PoolNext]_poolVars PROVE Content'
  OBVIOUS
<1>0. /\ PoolTypeOK
      /\ \A t \in Callers : at[t] \in {"work", "sending"} => Using(t) /\ slot[t] \in Slots
  BY DEF PoolInv, Placed, Using
<1>1. ASSUME UNCHANGED <<tid, packet, round, open, appended>>, met \subseteq met'
      PROVE  Content'
  <2>1. \A t \in Callers : (Alone(t)' => Alone(t)) /\ Proper(t)' = Proper(t)
    BY <1>1 DEF Alone, Proper, Filled
  <2> QED
    BY <1>1, <2>1 DEF Content
<1>2. ASSUME NEW t \in Callers, BeginInit(t) \/ BeginAppend(t) \/ BeginSending(t)
      PROVE  Content'
  BY <1>1, <1>2 DEF BeginInit, BeginAppend, BeginSending, Begin, FindOwn, FindFree
<1>3. ASSUME NEW t \in Callers, Claim(t) PROVE Content'
  <2>1. /\ at[t] = "claim" /\ slot[t] \in Slots /\ tid' = [tid EXCEPT ![slot[t]] = t]
        /\ UNCHANGED <<packet, slot, round, open, appended, met>>
        /\ \A i \in Slots : tid[i] # t
    BY <1>3 DEF Claim, MarkSlot, PoolInv, Placed, Unclaimed
  <2>0. \A u \in Callers : (Alone(u)' <=> Alone(u)) /\ Proper(u)' = Proper(u)
    BY <2>1 DEF Alone, Proper, Filled
  <2> SUFFICES ASSUME NEW u \in Callers, Alone(u)
               PROVE  /\ \A i \in Slots : tid'[i] = u => packet[i] = Proper(u)
                      /\ (\A i \in Slots : tid'[i] # u) => ~open[u]
    BY <2>1, <2>0 DEF Content
  <2>2. CASE u = t
    <3>1. ~open[t]
      BY <2>1, <2>2 DEF Content
    <3>2. tid[slot[t]] = NoTid
      <4>1. tid[slot[t]] \in Callers \union {NoTid}
        BY <1>0, <2>1 DEF PoolTypeOK
      <4>2. ASSUME tid[slot[t]] \in Callers PROVE FALSE
        BY <2>1, <2>2, <4>2, AloneHolds DEF Holds
      <4> QED
        BY <4>1, <4>2
    <3>3. packet[slot[t]] = Released
      BY <2>1, <3>2 DEF PoolInv, FreeSlot
    <3>4. \A i \in Slots : tid'[i] = t => i = slot[t]
      BY <1>0, <2>1 DEF PoolTypeOK
    <3> QED
      BY <2>2, <3>1, <3>3, <3>4 DEF Proper
  <2>3. CASE u # t
    <3>1. tid[slot[t]] # u
      BY <2>1, <2>3, AloneHolds DEF Holds
    <3>2. \A i \in Slots : tid'[i] = u <=> tid[i] = u
      BY <1>0, <2>1, <2>3, <3>1 DEF PoolTypeOK
    <3> QED
      BY <3>2 DEF Content
  <2> QED
    BY <2>2, <2>3
<1>4. ASSUME NEW t \in Callers, WorkInit(t) PROVE Content'
  <2>1. /\ Using(t) /\ slot[t] \in Slots /\ UNCHANGED <<tid, met>>
        /\ \A i \in Slots : i # slot[t] => packet'[i] = packet[i]
        /\ packet'[slot[t]] = Prepared(t)
        /\ open'[t] = TRUE /\ appended'[t] = 0
        /\ \A u \in Callers : u # t =>
              round'[u] = round[u] /\ open'[u] = open[u] /\ appended'[u] = appended[u]
    BY <1>0, <1>4 DEF WorkInit, PoolTypeOK
  <2>2. Proper(t)' = Prepared(t)
    BY <2>1 DEF Proper, Filled, Prepared
  <2> QED
    BY <2>1, <2>2, ContentStep
<1>5. ASSUME NEW t \in Callers, WorkAppend(t) PROVE Content'
  <2>1. /\ Using(t) /\ slot[t] \in Slots /\ UNCHANGED <<tid, met, round, open>>
        /\ \A i \in Slots : i # slot[t] => packet'[i] = packet[i]
        /\ packet'[slot[t]] = IF packet[slot[t]].ready THEN Extended(t) ELSE packet[slot[t]]
        /\ appended[t] \in Nat /\ appended'[t] = appended[t] + 1
        /\ \A u \in Callers : u # t => appended'[u] = appended[u]
    BY <1>0, <1>5 DEF WorkAppend, PoolTypeOK
  <2>2. ASSUME Alone(t) PROVE packet'[slot[t]] = Proper(t)'
    <3>1. packet[slot[t]] = Proper(t)
      BY <2>1, <2>2, OwnPacket
    <3>2. CASE open[t]
      <4> DEFINE e == [by |-> t, round |-> round[t]]
      <4>1. /\ packet[slot[t]].ready
            /\ packet[slot[t]].entries = [k \in 1..appended[t] |-> e]
        BY <3>1, <3>2 DEF Proper, Filled
      <4>2. Append(packet[slot[t]].entries, e) = [k \in 1..appended[t] + 1 |-> e]
        BY <2>1, <4>1, AppendSame
      <4>3. Extended(t) = [ready |-> TRUE, entries |-> [k \in 1..appended[t] + 1 |-> e]]
        BY <4>2 DEF Extended
      <4> QED
        BY <2>1, <3>2, <4>1, <4>3 DEF Proper, Filled
    <3>3. CASE ~open[t]
      BY <2>1, <3>1, <3>3 DEF Proper, Released
    <3> QED
      BY <3>2, <3>3
  <2> QED
    BY <2>1, <2>2, ContentStep
<1>6. ASSUME NEW t \in Callers, SpoilAppend(t) \/ EndSending(t) PROVE Content'
  <2>1. /\ Using(t) /\ slot[t] \in Slots /\ UNCHANGED <<tid, met, round, appended>>
        /\ \A i \in Slots : i # slot[t] => packet'[i] = packet[i]
        /\ packet'[slot[t]] = Released /\ open'[t] = FALSE
        /\ \A u \in Callers : u # t => open'[u] = open[u]
    BY <1>0, <1>6 DEF SpoilAppend, EndSending, Finish, Release, PoolTypeOK
  <2>2. Proper(t)' = Released
    BY <2>1 DEF Proper
  <2> QED
    BY <2>1, <2>2, ContentStep
<1>7. ASSUME NEW t \in Callers, WorkSend(t) PROVE Content'
  BY <1>1, <1>7 DEF WorkSend
<1>8. CASE UNCHANGED poolVars
  BY <1>1, <1>8 DEF poolVars
<1> QED
  BY <1>2, <1>3, <1>4, <1>5, <1>6, <1>7, <1>8 DEF PoolNext, PoolStep, NoSlot

\* A thread that has never seen a slot free beside another one sends exactly
\* what it has appended since its im_resource_notification_init(), and nothing
\* after a failed append, after a send and before the first init.
THEOREM NotificationSentOwn == PoolSpec => []SentOwn
<1>1. PoolInit => Content
  BY PoolAssumption DEF PoolInit, Content, Proper
<1>2. PoolInv /\ Content => SentOwn
  <2> SUFFICES ASSUME PoolInv, Content, NEW t \in Callers, at[t] = "work", Alone(t)
               PROVE  packet[slot[t]] = Proper(t)
    BY DEF SentOwn, Proper
  <2> QED
    BY OwnPacket DEF Using
<1> QED
  BY PoolInvInit, PoolInvNext, ContentNext, <1>1, <1>2, PTL DEF PoolSpec
=============================================================================
