--------------------------- MODULE Session_proofs ---------------------------
(* Handles and sockets, for any number of threads, handles, sessions and     *)
(* descriptors.  Taken slots come back whatever the application does; what   *)
(* the other theorems assume of it they name.                                *)
EXTENDS Session, TLAPS

Stages == {"out"} \union InitStages \union IoStages \union SoleStages

Types ==
    /\ pool \in [Handles -> Blocks \union {Null}]
    /\ heap \in SUBSET Blocks
    /\ app \in [Handles -> {"none", "idle", "used"}]
    /\ lost \in SUBSET Handles
    /\ sock \in [Blocks -> -1..MaxFd]
    /\ mutex \in [Blocks -> Threads \union {Null}]
    /\ owner \in [Fds -> Blocks \union {Null}]
    /\ peer \in [Fds -> {"none", "up", "gone"}]
    /\ data \in [Fds -> BOOLEAN]
    /\ pc \in [Threads -> Stages]
    /\ handle \in [Threads -> Handles]
    /\ sess \in [Threads -> Blocks \union {Null}]
    /\ fd \in [Threads -> -1..MaxFd]
    /\ failed \in [Threads -> BOOLEAN]

\* A call knows its session.
Known ==
    \A t \in Threads :
        pc[t] \in {"init"} \union IoStages \union SoleStages => sess[t] \in Blocks

TypeInv == Types /\ Known

LEMMA TypeInvTypeOK == TypeInv => TypeOK
BY DEF TypeInv, Types, TypeOK, Stages

LEMMA TypeInit == Init => TypeInv
BY SessionAssumption
   DEF Init, TypeInv, Types, Known, Stages, Handles, Fds, InitStages, IoStages, SoleStages

LEMMA TypeLeave ==
  ASSUME TypeInv, NEW t \in Threads, Leave(t)
  PROVE  /\ pc' \in [Threads -> Stages]
         /\ handle' \in [Threads -> Handles]
         /\ sess' \in [Threads -> Blocks \union {Null}]
         /\ fd' \in [Threads -> -1..MaxFd]
         /\ Known'
BY SessionAssumption
   DEF TypeInv, Types, Known, Leave, Goto, Stages, Handles, InitStages, IoStages, SoleStages

LEMMA TypeNext == TypeInv /\ [Next]_vars => TypeInv'
<1> SUFFICES ASSUME TypeInv, [Next]_vars PROVE TypeInv'
  OBVIOUS
<1> USE SessionAssumption DEF TypeInv, Types, Stages, InitStages, IoStages, SoleStages,
        slots, session, kernel, local
<1>n. /\ -1 \in -1..MaxFd /\ 0 \in -1..MaxFd
      /\ \A f \in Fds : f \in -1..MaxFd
      /\ \A h \in Handles : h < MaxHandle => h + 1 \in Handles
  BY DEF Fds, Handles
<1>1. ASSUME NEW t \in Threads, InitStep(t) PROVE TypeInv'
  <2>1. CASE SkipSlot(t)
    <3>1. CASE Fail(t)
      BY <2>1, <3>1, TypeLeave DEF SkipSlot, Fail
    <3>2. CASE ~Fail(t)
      <4>1. handle' \in [Threads -> Handles]
        BY <2>1, <3>2, <1>n DEF SkipSlot
      <4> QED
        BY <2>1, <3>2, <4>1 DEF SkipSlot, Known
    <3> QED
      BY <3>1, <3>2
  <2>2. CASE TakeSlot(t)
    BY <2>2 DEF TakeSlot, Goto, Known
  <2>3. CASE Malloc(t)
    BY <2>3 DEF Malloc, Goto, Known
  <2>4. CASE LookUp(t)
    <3>1. CASE Fail(t)
      BY <2>4, <3>1, TypeLeave DEF LookUp, Fail
    <3>2. CASE ~Fail(t)
      BY <2>4, <3>2 DEF LookUp, Goto, Known
    <3> QED
      BY <3>1, <3>2
  <2>5. CASE ClientInit(t)
    <3>1. Leave(t) /\ failed' \in [Threads -> BOOLEAN]
      BY <2>5 DEF ClientInit, Return, Fail
    <3>2. /\ sock' \in [Blocks -> -1..MaxFd] /\ mutex' \in [Blocks -> Threads \union {Null}]
      BY <2>5, <1>n DEF ClientInit
    <3>4. app' \in [Handles -> {"none", "idle", "used"}] /\ lost' \in SUBSET Handles
      BY <2>5 DEF ClientInit
    <3>3. UNCHANGED <<pool, heap, owner, peer, data>>
      BY <2>5 DEF ClientInit
    <3> QED
      BY <3>1, <3>2, <3>3, <3>4, TypeLeave
  <2> QED
    BY <1>1, <2>1, <2>2, <2>3, <2>4, <2>5 DEF InitStep
<1>2. ASSUME NEW t \in Threads, Call(t) PROVE TypeInv'
  <2>1. CASE CallInit(t)
    BY <2>1 DEF CallInit, Goto, Known
  <2>2. ASSUME NEW h \in Handles,
               NEW stage \in {"open", "poll", "send", "close1", "free"}, Enter(t, h, stage),
               app' \in [Handles -> {"none", "idle", "used"}]
        PROVE  TypeInv'
    BY <2>2 DEF Enter, Goto, Known
  <2> QED
    BY <1>2, <2>1, <2>2
       DEF Call, CallConnect, CallPoll, CallSend, CallDisconnect, CallRelease
<1>3. ASSUME NEW t \in Threads, ConnectStep(t) PROVE TypeInv'
  <2>1. CASE OpenSocket(t)
    <3>1. CASE Fail(t)
      <4>1. sock' \in [Blocks -> -1..MaxFd] /\ owner' \in [Fds -> Blocks \union {Null}]
        BY <2>1, <1>n DEF OpenSocket, Known
      <4> QED
        BY <2>1, <3>1, <4>1, TypeLeave DEF OpenSocket, Fail
    <3>2. CASE ~Fail(t)
      <4>1. sock' \in [Blocks -> -1..MaxFd] /\ owner' \in [Fds -> Blocks \union {Null}]
        BY <2>1, <1>n DEF OpenSocket, Known
      <4> QED
        BY <2>1, <3>2, <4>1 DEF OpenSocket, Goto, Known
    <3> QED
      BY <3>1, <3>2
  <2>2. CASE Connect(t)
    BY <2>2, TypeLeave DEF Connect, Return, Fail, KeepSocket
  <2> QED
    BY <1>3, <2>1, <2>2 DEF ConnectStep
<1>4. ASSUME NEW t \in Threads, IoStep(t) PROVE TypeInv'
  <2>1. CASE LockWait(t) \/ LockSend(t) \/ LockRecv(t)
    BY <2>1 DEF LockWait, LockSend, LockRecv, Lock, Goto, Known
  <2>2. CASE NoSocket(t)
    BY <2>2, TypeLeave DEF NoSocket, Fail
  <2>3. CASE Wait(t)
    BY <2>3, TypeLeave DEF Wait, Return, Fail, Goto, Known, Unlock
  <2>4. CASE Recv(t)
    BY <2>4, TypeLeave DEF Recv, Fail, Goto, Known, Unlock
  <2>5. CASE SendBuffer(t)
    BY <2>5, TypeLeave DEF SendBuffer, Return, Fail, Unlock
  <2>6. CASE CloseBroken(t)
    BY <2>6 DEF CloseBroken, Close, Goto, Known
  <2>7. CASE ForgetBroken(t)
    <3>1. Leave(t) /\ failed' \in [Threads -> BOOLEAN]
      BY <2>7 DEF ForgetBroken, Fail
    <3>2. sock' \in [Blocks -> -1..MaxFd] /\ mutex' \in [Blocks -> Threads \union {Null}]
      BY <2>7, <1>n DEF ForgetBroken, Unlock
    <3> QED
      BY <2>7, <3>1, <3>2, TypeLeave DEF ForgetBroken
  <2> QED
    BY <1>4, <2>1, <2>2, <2>3, <2>4, <2>5, <2>6, <2>7 DEF IoStep
<1>5. ASSUME NEW t \in Threads, DisconnectStep(t) \/ ReleaseStep(t) PROVE TypeInv'
  <2>1. CASE CloseSocket(t)
    BY <2>1 DEF CloseSocket, Close, Closed, Goto, Known
  <2>2. CASE SkipClose(t)
    BY <2>2 DEF SkipClose, Then, Goto, Known
  <2>3. CASE ResetSock(t)
    BY <2>3 DEF ResetSock, NumberAfter, Then, Goto, Known
  <2>4. CASE Disconnected(t)
    BY <2>4, TypeLeave DEF Disconnected, Return
  <2>5. CASE Free(t)
    BY <2>5 DEF Free, Goto, Known
  <2>6. CASE ClearSlot(t)
    BY <2>6, TypeLeave DEF ClearSlot, EmptySlot, Return
  <2> QED
    BY <1>5, <2>1, <2>2, <2>3, <2>4, <2>5, <2>6 DEF DisconnectStep, ReleaseStep
<1>6. ASSUME NEW f \in Fds, Serve(f) \/ HangUp(f) PROVE TypeInv'
  BY <1>6 DEF Serve, HangUp, Known
<1>7. CASE UNCHANGED vars
  BY <1>7 DEF vars, Known
<1> QED
  BY <1>1, <1>2, <1>3, <1>4, <1>5, <1>6, <1>7 DEF Next, Step, Rest

LEMMA TypeAlways == Spec => []TypeInv
<1> QED
  BY TypeInit, TypeNext, PTL DEF Spec

\* Type correctness of sessions, handles and descriptors.
THEOREM SessionTypeCorrect == Spec => []TypeOK
<1> QED
  BY TypeAlways, TypeInvTypeOK, PTL
-----------------------------------------------------------------------------
(* Slots come back.                                                          *)

AtWork == {"lookup", "init", "free", "clear"}

\* A step that leaves the pool, and the threads at work on it, alone.
LEMMA SlotsKept ==
  ASSUME TypeInv, SlotsComeBack, NEW t \in Threads, UNCHANGED <<pool, lost>>,
         \A h \in Handles : app[h] # "none" => app'[h] # "none",
         pc[t] \notin AtWork,
         \E stage \in Stages : pc' = [pc EXCEPT ![t] = stage],
         \E h \in Handles : handle' = [handle EXCEPT ![t] = h]
  PROVE  SlotsComeBack'
BY DEF TypeInv, Types, SlotsComeBack, AtWork

LEMMA SlotsNext == TypeInv /\ SlotsComeBack /\ [Next]_vars => SlotsComeBack'
<1> SUFFICES ASSUME TypeInv, SlotsComeBack, [Next]_vars PROVE SlotsComeBack'
  OBVIOUS
<1> USE DEF slots, session, kernel, local
<1>h. /\ 0 \in Handles
      /\ \A h \in Handles : h < MaxHandle => h + 1 \in Handles
  BY SessionAssumption DEF Handles
<1>l. ASSUME NEW t \in Threads, Leave(t)
      PROVE  /\ \E stage \in Stages : pc' = [pc EXCEPT ![t] = stage]
             /\ \E h \in Handles : handle' = [handle EXCEPT ![t] = h]
  BY <1>l, <1>h DEF Leave, Goto, Stages
<1>s. ASSUME NEW t \in Threads, NEW stage \in Stages, Goto(t, stage), UNCHANGED handle
      PROVE  /\ \E st \in Stages : pc' = [pc EXCEPT ![t] = st]
             /\ \E h \in Handles : handle' = [handle EXCEPT ![t] = h]
  <2>1. handle' = [handle EXCEPT ![t] = handle[t]] /\ handle[t] \in Handles
    BY <1>s DEF TypeInv, Types
  <2> QED
    BY <1>s, <2>1 DEF Goto
<1>1. ASSUME NEW t \in Threads, InitStep(t) PROVE SlotsComeBack'
  <2>1. CASE SkipSlot(t)
    <3>1. CASE Fail(t)
      BY <2>1, <3>1, <1>l, SlotsKept DEF SkipSlot, Fail, AtWork
    <3>2. CASE ~Fail(t)
      <4>1. handle' = [handle EXCEPT ![t] = @ + 1] /\ handle[t] + 1 \in Handles /\ pc' = pc
        BY <2>1, <3>2, <1>h DEF SkipSlot, TypeInv, Types
      <4>2. pc' = [pc EXCEPT ![t] = "scan"] /\ "scan" \in Stages
        BY <2>1, <4>1 DEF SkipSlot, TypeInv, Types, Stages, InitStages
      <4> QED
        BY <2>1, <4>1, <4>2, SlotsKept DEF SkipSlot, AtWork
    <3> QED
      BY <3>1, <3>2
  <2>2. CASE TakeSlot(t)
    <3>1. "alloc" \in Stages
      BY DEF Stages, InitStages
    <3> QED
      BY <2>2, <3>1, <1>s, SlotsKept DEF TakeSlot, AtWork
  <2>3. CASE Malloc(t)
    BY <2>3 DEF Malloc, Goto, SlotsComeBack, TypeInv, Types
  <2>4. CASE LookUp(t)
    BY <2>4 DEF LookUp, Fail, Leave, Goto, SlotsComeBack, TypeInv, Types
  <2>5. CASE ClientInit(t)
    BY <2>5 DEF ClientInit, Return, Fail, Leave, Goto, SlotsComeBack, TypeInv, Types
  <2> QED
    BY <1>1, <2>1, <2>2, <2>3, <2>4, <2>5 DEF InitStep
<1>2. ASSUME NEW t \in Threads, Call(t) PROVE SlotsComeBack'
  <2>1. CASE CallInit(t)
    <3>1. "scan" \in Stages
      BY DEF Stages, InitStages
    <3> QED
      BY <2>1, <3>1, <1>s, SlotsKept DEF CallInit, AtWork
  <2>2. ASSUME NEW h \in Handles, CallRelease(t, h)
        PROVE  SlotsComeBack'
    BY <2>2 DEF CallRelease, Enter, Goto, SlotsComeBack, TypeInv, Types
  <2>3. ASSUME NEW h \in Handles, NEW stage \in {"open", "poll", "send", "close1"},
               Enter(t, h, stage), app' = app \/ app' = [app EXCEPT ![h] = "used"]
        PROVE  SlotsComeBack'
    <3>1. stage \in Stages
      BY DEF Stages, IoStages, SoleStages
    <3>2. \A g \in Handles : app[g] # "none" => app'[g] # "none"
      BY <2>3 DEF TypeInv, Types
    <3> QED
      BY <2>3, <3>1, <3>2, SlotsKept DEF Enter, Goto, AtWork
  <2> QED
    BY <1>2, <2>1, <2>2, <2>3 DEF Call, CallConnect, CallPoll, CallSend, CallDisconnect
<1>3. ASSUME NEW t \in Threads, ConnectStep(t) \/ IoStep(t), ~Leave(t)
      PROVE  SlotsComeBack'
  <2>1. /\ UNCHANGED <<pool, lost, app, handle>> /\ pc[t] \notin AtWork
        /\ \E stage \in {"connect", "wait", "sending", "recv", "seen", "poll",
                         "closing", "closed"} : Goto(t, stage)
    BY <1>3 DEF ConnectStep, OpenSocket, Connect, IoStep, LockWait, LockSend, LockRecv, Lock,
                NoSocket, Wait, Recv, SendBuffer, CloseBroken, ForgetBroken, Return, Fail,
                AtWork
  <2>2. {"connect", "wait", "sending", "recv", "seen", "poll", "closing", "closed"}
            \subseteq Stages
    BY DEF Stages, IoStages, SoleStages
  <2> QED
    BY <2>1, <2>2, <1>s, SlotsKept
<1>4. ASSUME NEW t \in Threads, ConnectStep(t) \/ IoStep(t), Leave(t)
      PROVE  SlotsComeBack'
  <2>1. UNCHANGED <<pool, lost, app>> /\ pc[t] \notin AtWork
    BY <1>4 DEF ConnectStep, OpenSocket, Connect, IoStep, LockWait, LockSend, LockRecv, Lock,
                NoSocket, Wait, Recv, SendBuffer, CloseBroken, ForgetBroken, Return, Fail,
                AtWork
  <2> QED
    BY <1>4, <2>1, <1>l, SlotsKept
<1>5. ASSUME NEW t \in Threads, DisconnectStep(t) PROVE SlotsComeBack'
  <2>1. CASE Disconnected(t)
    <3>1. \A g \in Handles : app[g] # "none" => app'[g] # "none"
      BY <2>1 DEF Disconnected, TypeInv, Types
    <3> QED
      BY <2>1, <3>1, <1>l, SlotsKept DEF Disconnected, Return, AtWork
  <2>2. CASE ~Disconnected(t)
    <3>1. /\ UNCHANGED <<pool, lost, app, handle>> /\ pc[t] \notin AtWork
          /\ \E stage \in {"reset1", "reset2", "close2", "done"} : Goto(t, stage)
      BY <1>5, <2>2 DEF DisconnectStep, CloseSocket, SkipClose, ResetSock, Closed, Then, AtWork
    <3>2. {"reset1", "reset2", "close2", "done"} \subseteq Stages
      BY DEF Stages, SoleStages
    <3> QED
      BY <3>1, <3>2, <1>s, SlotsKept
  <2> QED
    BY <2>1, <2>2
<1>6. ASSUME NEW t \in Threads, ReleaseStep(t) PROVE SlotsComeBack'
  BY <1>6 DEF ReleaseStep, Free, ClearSlot, EmptySlot, Return, Leave, Goto, SlotsComeBack,
              TypeInv, Types
<1>7. ASSUME UNCHANGED <<pool, app, lost, pc, handle>> PROVE SlotsComeBack'
  BY <1>7 DEF SlotsComeBack
<1> QED
  BY <1>1, <1>2, <1>3, <1>4, <1>5, <1>6, <1>7
     DEF Next, Step, Rest, Serve, HangUp, vars

\* A slot that is neither in use nor being worked on can be had again, unless
\* im_client_init() failed there: whatever the application does.
THEOREM SessionSlotsComeBack == Spec => []SlotsComeBack
<1>1. Init => SlotsComeBack
  BY DEF Init, SlotsComeBack
<1> QED
  BY <1>1, TypeAlways, SlotsNext, PTL DEF Spec

-----------------------------------------------------------------------------
(* Sessions apart.                                                           *)
(*                                                                           *)
(* A slot has one worker at most, and while it has one the application does  *)
(* not use it (OneWorker, Unused); what is in a slot is allocated, except    *)
(* between free() and the clearing of the slot, and in no other slot then    *)
(* (Allocated, Apart).                                                       *)

Search == {"scan", "alloc", "lookup"}
Work == {"alloc", "lookup", "init", "free", "clear"}
Sole == {"open", "connect", "close1", "reset1", "close2", "reset2", "done"}
Using == IoStages \union Sole

Alive(h) ==
    pool[h] # Null /\ \A t \in Threads : ~(pc[t] = "clear" /\ handle[t] = h)

OneSearch == \A t, u \in Threads : pc[t] \in Search /\ pc[u] \in Search => t = u

OneWorker ==
    \A t, u \in Threads :
        pc[t] \in Work /\ pc[u] \in Work /\ handle[t] = handle[u] => t = u

Unused == \A t \in Threads : pc[t] \in Work => app[handle[t]] = "none"

InUse == \A t \in Threads : pc[t] \in Using => app[handle[t]] # "none"

SessionOf ==
    \A t \in Threads :
        /\ pc[t] \in Using \union {"init", "free", "clear"} =>
              sess[t] = pool[handle[t]] /\ sess[t] \in Blocks
        /\ pc[t] = "alloc" => pool[handle[t]] = Null

HasSession == \A h \in Handles : app[h] # "none" => pool[h] # Null

Allocated == \A h \in Handles : Alive(h) => pool[h] \in heap

Apart == \A g, h \in Handles : Alive(g) /\ Alive(h) /\ pool[g] = pool[h] => g = h

SoleAlone ==
    \A t, u \in Threads :
        pc[t] \in Sole /\ pc[u] \in Using /\ handle[t] = handle[u] => t = u

HandleInv ==
    /\ OneSearch /\ OneWorker /\ Unused /\ InUse /\ SessionOf
    /\ HasSession /\ Allocated /\ Apart /\ SoleAlone

LEMMA HandleOneSessionEach == TypeInv /\ HandleInv => OneSessionEach
<1> SUFFICES ASSUME TypeInv, HandleInv PROVE OneSessionEach
  OBVIOUS
<1>1. \A h \in Handles : app[h] # "none" => Alive(h)
  BY DEF HandleInv, HasSession, Alive, Unused, Work, TypeInv, Types
<1> QED
  BY <1>1 DEF OneSessionEach, HandleInv, OneWorker, Unused, Work, Allocated, Apart

LEMMA HandleInit == Init => HandleInv
BY DEF Init, HandleInv, OneSearch, OneWorker, Unused, InUse, SessionOf, HasSession,
       Allocated, Apart, SoleAlone, Alive, Search, Work, Using, Sole, IoStages

\* A call goes on.
LEMMA HandleMove ==
  ASSUME TypeInv, HandleInv, NEW t \in Threads, NEW stage, Goto(t, stage),
         UNCHANGED <<pool, heap, app, handle, sess>>,
         \/ pc[t] \in IoStages /\ stage \in IoStages
         \/ pc[t] \in Sole /\ stage \in Sole
  PROVE  HandleInv'
BY DEF TypeInv, Types, HandleInv, OneSearch, OneWorker, Unused, InUse, SessionOf, HasSession,
       Allocated, Apart, SoleAlone, Alive, Search, Work, Using, Sole, IoStages, Goto

\* A call returns.
LEMMA HandleLeave ==
  ASSUME TypeInv, HandleInv, NEW t \in Threads, Leave(t), pc[t] # "clear",
         UNCHANGED <<pool, heap>>,
         \A h \in Handles : app[h] = "none" <=> app'[h] = "none"
  PROVE  HandleInv'
<1>1. /\ pc' \in [Threads -> Stages] /\ pc'[t] = "out"
      /\ \A u \in Threads : u # t =>
            pc'[u] = pc[u] /\ handle'[u] = handle[u] /\ sess'[u] = sess[u]
  BY DEF Leave, Goto, TypeInv, Types, Stages
<1>2. \A h \in Handles : Alive(h)' <=> Alive(h)
  BY <1>1 DEF Alive
<1>3. handle \in [Threads -> Handles]
  BY DEF TypeInv, Types
<1> QED
  BY <1>1, <1>2, <1>3
     DEF HandleInv, OneSearch, OneWorker, Unused, InUse, SessionOf, HasSession,
         Allocated, Apart, SoleAlone, Search, Work, Using, Sole, IoStages

\* ImInit(), with the calls of it apart.
LEMMA HandleInitStep ==
  ASSUME TypeInv, HandleInv, NEW t \in Threads, InitStep(t)
  PROVE  HandleInv'
<1> USE DEF slots, session, kernel, local
<1>1. CASE SkipSlot(t)
  <2>1. CASE Fail(t)
    BY <1>1, <2>1, HandleLeave DEF SkipSlot, Fail
  <2>2. CASE ~Fail(t)
    BY <1>1, <2>2
       DEF SkipSlot, TypeInv, Types, HandleInv, OneSearch, OneWorker, Unused, InUse,
           SessionOf, HasSession, Allocated, Apart, SoleAlone, Alive, Search, Work, Using,
           Sole, IoStages
  <2> QED
    BY <2>1, <2>2
<1>2. CASE TakeSlot(t)
  <2>1. pc[t] = "scan" /\ pool[handle[t]] = Null /\ pc' = [pc EXCEPT ![t] = "alloc"]
        /\ UNCHANGED <<pool, heap, app, handle, sess>>
    BY <1>2 DEF TakeSlot, FreeSlot, Goto
  <2>2. \A u \in Threads : pc[u] \in Work => handle[u] # handle[t]
    BY <2>1, SessionAssumption
       DEF HandleInv, OneSearch, SessionOf, Search, Work, TypeInv, Types, Using
  <2>3. app[handle[t]] = "none"
    BY <2>1 DEF HandleInv, HasSession, TypeInv, Types
  <2>4. \A h \in Handles : Alive(h)' <=> Alive(h)
    BY <2>1 DEF Alive, TypeInv, Types
  <2>5. OneSearch' /\ OneWorker' /\ Unused' /\ InUse' /\ SessionOf' /\ SoleAlone'
    BY <2>1, <2>2, <2>3
       DEF TypeInv, Types, HandleInv, OneSearch, OneWorker, Unused, InUse, SessionOf,
           SoleAlone, Search, Work, Using, Sole, IoStages
  <2>6. HasSession' /\ Allocated' /\ Apart'
    BY <2>1, <2>4 DEF HandleInv, HasSession, Allocated, Apart
  <2> QED
    BY <2>5, <2>6 DEF HandleInv
<1>3. CASE Malloc(t)
  <2>1. /\ pc[t] = "alloc" /\ pc' = [pc EXCEPT ![t] = "lookup"]
        /\ UNCHANGED <<app, handle, sess>>
        /\ \A h \in Handles : h # handle[t] => pool'[h] = pool[h]
    BY <1>3 DEF Malloc, Goto, TypeInv, Types
  <2>2. pool[handle[t]] = Null /\ app[handle[t]] = "none" /\ handle[t] \in Handles
    BY <2>1 DEF HandleInv, SessionOf, Unused, Work, TypeInv, Types
  <2>3. \A u \in Threads : pc[u] \in Work /\ handle[u] = handle[t] => u = t
    BY <2>1 DEF HandleInv, OneWorker, Work
  <2>4. \A u \in Threads : pc[u] \in Using => handle[u] # handle[t]
    BY <2>2 DEF HandleInv, InUse
  <2>5. OneSearch' /\ OneWorker' /\ Unused' /\ InUse' /\ SoleAlone'
    BY <2>1 DEF TypeInv, Types, HandleInv, OneSearch, OneWorker, Unused, InUse,
                SoleAlone, Search, Work, Using, Sole, IoStages
  <2>6. SessionOf'
    BY <2>1, <2>3, <2>4 DEF TypeInv, Types, HandleInv, SessionOf, Work, Using, Sole, IoStages
  <2>7. HasSession'
    BY <2>1, <2>2 DEF HandleInv, HasSession
  <2>8. \A h \in Handles : h # handle[t] => (Alive(h)' <=> Alive(h))
    BY <2>1 DEF Alive, TypeInv, Types
  <2>9. CASE UNCHANGED heap /\ pool'[handle[t]] = Null
    BY <2>1, <2>5, <2>6, <2>7, <2>8, <2>9 DEF HandleInv, Allocated, Apart, Alive
  <2>10. CASE \E b \in Blocks \ heap : heap' = heap \union {b} /\ pool'[handle[t]] = b
    <3>1. PICK b \in Blocks \ heap : heap' = heap \union {b} /\ pool'[handle[t]] = b
      BY <2>10
    <3>2. Allocated'
      BY <2>1, <2>8, <3>1 DEF HandleInv, Allocated
    <3>3. \A h \in Handles : h # handle[t] /\ Alive(h)' => pool'[h] # b
      BY <2>1, <2>8, <3>1 DEF HandleInv, Allocated
    <3>4. Apart'
      BY <2>1, <2>8, <3>1, <3>3 DEF HandleInv, Apart
    <3> QED
      BY <2>5, <2>6, <2>7, <3>2, <3>4 DEF HandleInv
  <2> QED
    BY <1>3, <2>2, <2>9, <2>10 DEF Malloc, TypeInv, Types
<1>4. CASE LookUp(t)
  <2>1. CASE Fail(t)
    BY <1>4, <2>1, HandleLeave DEF LookUp, Fail
  <2>2. CASE ~Fail(t)
    <3>1. /\ pc[t] = "lookup" /\ pc' = [pc EXCEPT ![t] = "init"]
          /\ pool[handle[t]] # Null /\ sess' = [sess EXCEPT ![t] = pool[handle[t]]]
          /\ UNCHANGED <<pool, heap, app, handle>>
      BY <1>4, <2>2 DEF LookUp, Goto
    <3>2. \A h \in Handles : Alive(h)' <=> Alive(h)
      BY <3>1 DEF Alive, TypeInv, Types
    <3>3. OneSearch' /\ OneWorker' /\ Unused' /\ InUse' /\ SessionOf' /\ SoleAlone'
      BY <3>1 DEF TypeInv, Types, HandleInv, OneSearch, OneWorker, Unused, InUse, SessionOf,
                  SoleAlone, Search, Work, Using, Sole, IoStages
    <3>4. HasSession' /\ Allocated' /\ Apart'
      BY <3>1, <3>2 DEF HandleInv, HasSession, Allocated, Apart
    <3> QED
      BY <3>3, <3>4 DEF HandleInv
  <2> QED
    BY <2>1, <2>2
<1>5. CASE ClientInit(t)
  <2>1. CASE UNCHANGED app
    BY <1>5, <2>1, HandleLeave DEF ClientInit, Return, Fail
  <2>2. CASE ~UNCHANGED app
    <3>1. /\ pc[t] = "init" /\ Leave(t) /\ app' = [app EXCEPT ![handle[t]] = "idle"]
          /\ UNCHANGED <<pool, heap>>
      BY <1>5, <2>2 DEF ClientInit, Return, Fail
    <3>2. /\ pc' = [pc EXCEPT ![t] = "out"]
          /\ \A u \in Threads : u # t => handle'[u] = handle[u] /\ sess'[u] = sess[u]
      BY <3>1 DEF Leave, Goto, TypeInv, Types
    <3>3. \A u \in Threads : pc[u] \in Work /\ handle[u] = handle[t] => u = t
      BY <3>1 DEF HandleInv, OneWorker, Work
    <3>4. \A h \in Handles : Alive(h)' <=> Alive(h)
      BY <3>1, <3>2 DEF Alive, TypeInv, Types
    <3>5. pool[handle[t]] # Null
      BY <3>1, SessionAssumption DEF HandleInv, SessionOf
    <3>6. OneSearch' /\ OneWorker' /\ SessionOf' /\ SoleAlone'
      BY <3>1, <3>2 DEF TypeInv, Types, HandleInv, OneSearch, OneWorker, SessionOf,
                        SoleAlone, Search, Work, Using, Sole, IoStages
    <3>7. Unused' /\ InUse'
      BY <3>1, <3>2, <3>3 DEF TypeInv, Types, HandleInv, Unused, InUse, Work, Using, Sole,
                              IoStages
    <3>8. HasSession' /\ Allocated' /\ Apart'
      BY <3>1, <3>4, <3>5 DEF HandleInv, HasSession, Allocated, Apart, TypeInv, Types
    <3> QED
      BY <3>6, <3>7, <3>8 DEF HandleInv
  <2> QED
    BY <2>1, <2>2
<1> QED
  BY <1>1, <1>2, <1>3, <1>4, <1>5 DEF InitStep

EnterStages == {"open", "poll", "send", "close1", "free"}

\* The beginning of a call, with calls that change a session apart from others.
LEMMA HandleCall ==
  ASSUME TypeInv, HandleInv, InitsApart, Joined, NEW t \in Threads, Call(t)
  PROVE  HandleInv'
<1> USE DEF slots, session, kernel, local
<1>1. CASE CallInit(t)
  <2>1. /\ pc[t] = "out" /\ \A u \in Threads : pc[u] \notin Search
        /\ pc' = [pc EXCEPT ![t] = "scan"] /\ UNCHANGED <<pool, heap, app, handle, sess>>
    BY <1>1 DEF CallInit, Goto, Search
  <2>2. \A h \in Handles : Alive(h)' <=> Alive(h)
    BY <2>1 DEF Alive, TypeInv, Types
  <2>3. OneSearch' /\ OneWorker' /\ Unused' /\ InUse' /\ SessionOf' /\ SoleAlone'
    BY <2>1 DEF TypeInv, Types, HandleInv, OneSearch, OneWorker, Unused, InUse, SessionOf,
                SoleAlone, Search, Work, Using, Sole, IoStages
  <2>4. HasSession' /\ Allocated' /\ Apart'
    BY <2>1, <2>2 DEF HandleInv, HasSession, Allocated, Apart
  <2> QED
    BY <2>3, <2>4 DEF HandleInv
<1>2. ASSUME NEW h \in Handles, NEW stage \in EnterStages, Enter(t, h, stage)
      PROVE  /\ pc[t] = "out" /\ pc' = [pc EXCEPT ![t] = stage]
             /\ handle' = [handle EXCEPT ![t] = h] /\ sess' = [sess EXCEPT ![t] = pool[h]]
             /\ app[h] # "none" /\ pool[h] \in Blocks /\ UNCHANGED <<pool, heap>>
             /\ \A u \in Threads : pc[u] \in Work => handle[u] # h
             /\ \A g \in Handles : Alive(g)' <=> Alive(g)
  <2>1. /\ pc[t] = "out" /\ pc' = [pc EXCEPT ![t] = stage]
        /\ handle' = [handle EXCEPT ![t] = h] /\ sess' = [sess EXCEPT ![t] = pool[h]]
        /\ app[h] # "none" /\ pool[h] \in Blocks /\ UNCHANGED <<pool, heap>>
    BY <1>2 DEF Enter, Goto, TypeInv, Types
  <2>2. \A u \in Threads : pc[u] \in Work => handle[u] # h
    BY <2>1 DEF HandleInv, Unused
  <2>3. stage # "clear"
    BY DEF EnterStages
  <2>4. \A g \in Handles : Alive(g)' <=> Alive(g)
    BY <2>1, <2>3 DEF Alive, TypeInv, Types
  <2> QED
    BY <2>1, <2>2, <2>4
<1>3. CASE \E h \in Handles : CallPoll(t, h) \/ CallSend(t, h)
  <2>1. PICK h \in Handles : CallPoll(t, h) \/ CallSend(t, h)
    BY <1>3
  <2>2. PICK stage \in {"poll", "send"} : Enter(t, h, stage)
    BY <2>1 DEF CallPoll, CallSend
  <2>3. UNCHANGED app
    BY <2>1 DEF CallPoll, CallSend
  <2>4. \A u \in Threads : pc[u] \in Using /\ handle[u] = h => pc[u] \notin Sole
    BY <2>1 DEF CallPoll, CallSend, NobodySole, InCallWith, Using, Sole, SoleStages, IoStages
  <2>5. stage \in EnterStages
    BY DEF EnterStages
  <2>6. OneSearch' /\ OneWorker' /\ Unused' /\ InUse' /\ SessionOf'
    BY <2>2, <2>3, <2>5, <1>2
       DEF TypeInv, Types, HandleInv, OneSearch, OneWorker, Unused, InUse, SessionOf,
           Search, Work, Using, Sole, IoStages
  <2>7. SoleAlone'
    BY <2>2, <2>4, <2>5, <1>2
       DEF TypeInv, Types, HandleInv, SoleAlone, Using, Sole, IoStages
  <2>8. HasSession' /\ Allocated' /\ Apart'
    BY <2>2, <2>3, <2>5, <1>2 DEF HandleInv, HasSession, Allocated, Apart
  <2> QED
    BY <2>6, <2>7, <2>8 DEF HandleInv
<1>4. CASE \E h \in Handles : CallConnect(t, h) \/ CallDisconnect(t, h)
  <2>1. PICK h \in Handles : CallConnect(t, h) \/ CallDisconnect(t, h)
    BY <1>4
  <2>2. PICK stage \in {"open", "close1"} : Enter(t, h, stage)
    BY <2>1 DEF CallConnect, CallDisconnect
  <2>3. \A g \in Handles : app[g] = "none" <=> app'[g] = "none"
    BY <2>1, <2>2, <1>2 DEF CallConnect, CallDisconnect, Enter, TypeInv, Types
  <2>4. \A u \in Threads : ~(pc[u] \in Using /\ handle[u] = h)
    BY <2>1 DEF CallConnect, CallDisconnect, Alone, InCallWith, Using, Sole, SoleStages
  <2>5. stage \in EnterStages
    BY DEF EnterStages
  <2>6. OneSearch' /\ OneWorker' /\ Unused' /\ InUse' /\ SessionOf'
    BY <2>2, <2>3, <2>5, <1>2
       DEF TypeInv, Types, HandleInv, OneSearch, OneWorker, Unused, InUse, SessionOf,
           Search, Work, Using, Sole, IoStages
  <2>7. SoleAlone'
    BY <2>2, <2>4, <2>5, <1>2
       DEF TypeInv, Types, HandleInv, SoleAlone, Using, Sole, IoStages
  <2>8. HasSession' /\ Allocated' /\ Apart'
    BY <2>2, <2>3, <2>5, <1>2 DEF HandleInv, HasSession, Allocated, Apart
  <2> QED
    BY <2>6, <2>7, <2>8 DEF HandleInv
<1>5. CASE \E h \in Handles : CallRelease(t, h)
  <2>1. PICK h \in Handles : CallRelease(t, h)
    BY <1>5
  <2>2. /\ Enter(t, h, "free") /\ app' = [app EXCEPT ![h] = "none"]
        /\ "free" \in EnterStages
    BY <2>1 DEF CallRelease, EnterStages
  <2>3. \A u \in Threads : ~(pc[u] \in Using /\ handle[u] = h)
    BY <2>1 DEF CallRelease, Alone, InCallWith, Using, Sole, SoleStages
  <2>4. OneSearch' /\ OneWorker' /\ SessionOf' /\ SoleAlone'
    BY <2>2, <1>2
       DEF TypeInv, Types, HandleInv, OneSearch, OneWorker, SessionOf, SoleAlone,
           Search, Work, Using, Sole, IoStages
  <2>5. Unused' /\ InUse'
    BY <2>2, <2>3, <1>2
       DEF TypeInv, Types, HandleInv, Unused, InUse, Work, Using, Sole, IoStages
  <2>6. HasSession' /\ Allocated' /\ Apart'
    BY <2>2, <1>2 DEF HandleInv, HasSession, Allocated, Apart, TypeInv, Types
  <2> QED
    BY <2>4, <2>5, <2>6 DEF HandleInv
<1> QED
  BY <1>1, <1>3, <1>4, <1>5 DEF Call

\* im_connect_to(), im_poll(), sending and im_disconnect() leave the slots alone.
LEMMA HandleCallGoesOn ==
  ASSUME TypeInv, HandleInv, NEW t \in Threads,
         ConnectStep(t) \/ IoStep(t) \/ DisconnectStep(t)
  PROVE  HandleInv'
<1> USE DEF slots, session, kernel, local
<1>1. CASE Disconnected(t)
  <2>1. app[handle[t]] # "none"
    BY <1>1 DEF Disconnected, HandleInv, InUse, Using, Sole
  <2>2. \A h \in Handles : app[h] = "none" <=> app'[h] = "none"
    BY <1>1, <2>1 DEF Disconnected, TypeInv, Types
  <2> QED
    BY <1>1, <2>2, HandleLeave DEF Disconnected, Return
<1>2. CASE Leave(t) /\ ~Disconnected(t)
  <2>1. UNCHANGED <<pool, heap, app>> /\ pc[t] # "clear"
    BY <1>2 DEF ConnectStep, OpenSocket, Connect, IoStep, LockWait, LockSend, LockRecv, Lock,
                NoSocket, Wait, Recv, SendBuffer, CloseBroken, ForgetBroken, DisconnectStep,
                CloseSocket, SkipClose, ResetSock
  <2> QED
    BY <1>2, <2>1, HandleLeave
<1>3. CASE ~Leave(t) /\ (ConnectStep(t) \/ DisconnectStep(t))
  <2>1. /\ UNCHANGED <<pool, heap, app, handle, sess>> /\ pc[t] \in Sole
        /\ \E stage \in Sole : Goto(t, stage)
    BY <1>3 DEF ConnectStep, OpenSocket, Connect, DisconnectStep, Disconnected, CloseSocket,
                SkipClose, ResetSock, Closed, Then, Return, Fail, Sole
  <2> QED
    BY <2>1, HandleMove
<1>4. CASE ~Leave(t) /\ IoStep(t)
  <2>1. /\ UNCHANGED <<pool, heap, app, handle, sess>> /\ pc[t] \in IoStages
        /\ \E stage \in IoStages : Goto(t, stage)
    BY <1>4 DEF IoStep, LockWait, LockSend, LockRecv, Lock, NoSocket, Wait, Recv, SendBuffer,
                CloseBroken, ForgetBroken, Return, Fail, IoStages
  <2> QED
    BY <2>1, HandleMove
<1> QED
  BY <1>1, <1>2, <1>3, <1>4

\* ImRelease() frees what no other slot leads to.
LEMMA HandleRelease ==
  ASSUME TypeInv, HandleInv, NEW t \in Threads, ReleaseStep(t)
  PROVE  HandleInv'
<1> USE DEF slots, session, kernel, local
<1>1. CASE Free(t)
  <2>1. /\ pc[t] = "free" /\ pc' = [pc EXCEPT ![t] = "clear"]
        /\ heap' = heap \ {sess[t]} /\ UNCHANGED <<pool, app, handle, sess>>
    BY <1>1 DEF Free, Goto
  <2>2. sess[t] = pool[handle[t]] /\ pool[handle[t]] # Null /\ handle[t] \in Handles
    BY <2>1, SessionAssumption DEF HandleInv, SessionOf, TypeInv, Types
  <2>3. \A u \in Threads : pc[u] = "clear" => handle[u] # handle[t]
    BY <2>1 DEF HandleInv, OneWorker, Work
  <2>4. Alive(handle[t]) /\ ~Alive(handle[t])'
    BY <2>1, <2>2, <2>3 DEF Alive, TypeInv, Types
  <2>5. \A h \in Handles : Alive(h)' => Alive(h) /\ h # handle[t]
    BY <2>1, <2>4 DEF Alive, TypeInv, Types
  <2>6. Allocated' /\ Apart'
    BY <2>1, <2>2, <2>4, <2>5 DEF HandleInv, Allocated, Apart
  <2>7. /\ OneSearch' /\ OneWorker' /\ Unused' /\ InUse' /\ SessionOf' /\ SoleAlone'
        /\ HasSession'
    BY <2>1 DEF TypeInv, Types, HandleInv, OneSearch, OneWorker, Unused, InUse, SessionOf,
                HasSession, SoleAlone, Search, Work, Using, Sole, IoStages
  <2> QED
    BY <2>6, <2>7 DEF HandleInv
<1>2. CASE ClearSlot(t)
  <2>1. /\ pc[t] = "clear" /\ Leave(t) /\ pool' = [pool EXCEPT ![handle[t]] = Null]
        /\ UNCHANGED <<heap, app>>
    BY <1>2 DEF ClearSlot, EmptySlot, Return
  <2>2. /\ pc' = [pc EXCEPT ![t] = "out"]
        /\ \A u \in Threads : u # t => handle'[u] = handle[u] /\ sess'[u] = sess[u]
    BY <2>1 DEF Leave, Goto, TypeInv, Types
  <2>3. /\ handle[t] \in Handles /\ app[handle[t]] = "none"
        /\ \A u \in Threads : pc[u] \in Work /\ handle[u] = handle[t] => u = t
        /\ \A u \in Threads : pc[u] \in Using => handle[u] # handle[t]
    BY <2>1 DEF HandleInv, OneWorker, Unused, InUse, Work, TypeInv, Types
  <2>4. \A h \in Handles : Alive(h)' => Alive(h) /\ pool'[h] = pool[h]
    BY <2>1, <2>2 DEF Alive, TypeInv, Types
  <2>5. OneSearch' /\ OneWorker' /\ Unused' /\ InUse' /\ SoleAlone'
    BY <2>1, <2>2 DEF TypeInv, Types, HandleInv, OneSearch, OneWorker, Unused, InUse,
                      SoleAlone, Search, Work, Using, Sole, IoStages
  <2>6. SessionOf'
    BY <2>1, <2>2, <2>3
       DEF TypeInv, Types, HandleInv, SessionOf, Work, Using, Sole, IoStages
  <2>7. HasSession' /\ Allocated' /\ Apart'
    BY <2>1, <2>3, <2>4 DEF HandleInv, HasSession, Allocated, Apart, TypeInv, Types
  <2> QED
    BY <2>5, <2>6, <2>7 DEF HandleInv
<1> QED
  BY <1>1, <1>2 DEF ReleaseStep

LEMMA HandleNext ==
  ASSUME InitsApart, Joined
  PROVE  TypeInv /\ HandleInv /\ [Next]_vars => HandleInv'
<1> SUFFICES ASSUME TypeInv, HandleInv, [Next]_vars PROVE HandleInv'
  OBVIOUS
<1>1. CASE UNCHANGED <<pool, heap, app, pc, handle, sess>>
  BY <1>1 DEF HandleInv, OneSearch, OneWorker, Unused, InUse, SessionOf, HasSession,
              Allocated, Apart, SoleAlone, Alive
<1>2. ASSUME NEW t \in Threads, Call(t) \/ Step(t) PROVE HandleInv'
  BY <1>2, HandleCall, HandleInitStep, HandleCallGoesOn, HandleRelease DEF Step
<1> QED
  BY <1>1, <1>2 DEF Next, Serve, HangUp, Rest, vars, slots, local

\* Handles lead to allocated sessions of their own if the calls of ImInit() are
\* apart, and nobody releases, connects or disconnects a session that another
\* thread is in a call with.
THEOREM SessionOneSessionEach ==
  ASSUME InitsApart, Joined
  PROVE  Spec => []OneSessionEach
<1>1. TypeInv /\ HandleInv /\ [Next]_vars => HandleInv'
  BY HandleNext
<1> QED
  BY <1>1, HandleInit, HandleOneSessionEach, TypeAlways, PTL DEF Spec

-----------------------------------------------------------------------------
(* Sockets.                                                                  *)
(*                                                                           *)
(* The number a session keeps is that of its socket, except between close()  *)
(* and the store that follows it (KnownOwned); the calls that hold the mutex *)
(* work on that number, and nobody opens a socket over another (ThreadOk).   *)

Holding == {"wait", "recv", "sending", "closing", "closed"}
JustClosed == {"closed", "reset1", "reset2"}

Owned(b) == \E f \in Fds : owner[f] = b

KnownOwned ==
    \A h \in Handles :
        app[h] # "none" /\ sock[pool[h]] \in Fds =>
            \/ owner[sock[pool[h]]] = pool[h]
            \/ \E t \in Threads : pc[t] \in JustClosed /\ handle[t] = h

IdleClosed == \A h \in Handles : app[h] = "idle" => sock[pool[h]] <= 0

ThreadOk(t) ==
    /\ pc[t] # "reset2"
    /\ pc[t] \in {"open", "close2", "done"} => sock[sess[t]] <= 0
    /\ pc[t] = "open" => app[handle[t]] = "used"
    /\ pc[t] \in Holding => mutex[sess[t]] = t
    /\ pc[t] \in Holding \ {"closed"} => fd[t] = sock[sess[t]]
    /\ pc[t] = "closing" => sock[sess[t]] \in Fds
    /\ pc[t] \in JustClosed => ~Owned(sess[t])

SocketInv ==
    NoSocketLost /\ KnownOwned /\ IdleClosed /\ \A t \in Threads : ThreadOk(t)

LEMMA SocketInit == Init => SocketInv
BY DEF Init, SocketInv, NoSocketLost, KnownOwned, IdleClosed, ThreadOk, Holding, JustClosed,
       Fds

\* A session in use is that of one handle.
LEMMA SessionHandle ==
  ASSUME TypeInv, HandleInv, NEW t \in Threads, pc[t] \in Using \union {"init"},
         NEW h \in Handles, app[h] # "none", pool[h] = sess[t]
  PROVE  h = handle[t] /\ pc[t] \in Using
<1>1. \A g \in Handles : app[g] # "none" => Alive(g)
  BY DEF HandleInv, HasSession, Alive, Unused, Work, TypeInv, Types
<1>2. sess[t] = pool[handle[t]] /\ sess[t] # Null /\ handle[t] \in Handles
  BY SessionAssumption DEF HandleInv, SessionOf, TypeInv, Types
<1>3. Alive(handle[t])
  BY <1>2 DEF Alive, HandleInv, OneWorker, InUse, Unused, Work, Using, Sole, IoStages
<1>4. h = handle[t]
  BY <1>1, <1>2, <1>3 DEF HandleInv, Apart
<1> QED
  BY <1>4 DEF HandleInv, Unused, Work

\* Two threads in calls with one session are in calls with one handle, and
\* neither changes what is connected.
LEMMA SameSession ==
  ASSUME TypeInv, HandleInv, NEW t \in Threads, NEW u \in Threads, t # u,
         pc[t] \in Using, pc[u] \in Using \union {"init"}, sess[t] = sess[u]
  PROVE  /\ handle[t] = handle[u] /\ pc[u] \in Using
         /\ pc[t] \notin Sole /\ pc[u] \notin Sole
<1>1. app[handle[t]] # "none" /\ pool[handle[t]] = sess[u] /\ handle[t] \in Handles
  BY DEF HandleInv, InUse, SessionOf, TypeInv, Types
<1>2. handle[t] = handle[u] /\ pc[u] \in Using
  BY <1>1, SessionHandle
<1> QED
  BY <1>2 DEF HandleInv, SoleAlone

\* Steps that open and close no socket.
LEMMA SocketFrame ==
  ASSUME TypeInv, HandleInv, SocketInv, NEW t \in Threads, UNCHANGED <<sock, owner>>,
         \A u \in Threads : u # t =>
            pc'[u] = pc[u] /\ handle'[u] = handle[u] /\ sess'[u] = sess[u] /\ fd'[u] = fd[u],
         \A b \in Blocks : mutex'[b] = mutex[b] \/ mutex[b] \in {t, Null},
         \A h \in Handles : app'[h] # "none" => app[h] # "none" /\ pool'[h] = pool[h],
         \A h \in Handles : app'[h] = "idle" => sock[pool[h]] <= 0,
         \A h \in Handles : app[h] = "used" =>
            (app'[h] = "used" /\ pool'[h] = pool[h]) \/ ~Owned(pool[h]),
         \A u \in Threads : u # t /\ pc[u] = "open" => app'[handle[u]] = "used",
         pc[t] \notin JustClosed, ThreadOk(t)'
  PROVE  SocketInv'
<1>1. NoSocketLost'
  BY DEF SocketInv, NoSocketLost, Owned
<1>2. KnownOwned'
  <2>1. \A u \in Threads : pc[u] \in JustClosed => u # t
    OBVIOUS
  <2> QED
    BY <2>1 DEF SocketInv, KnownOwned
<1>3. IdleClosed'
  BY DEF SocketInv, IdleClosed
<1>4. ASSUME NEW u \in Threads, u # t PROVE ThreadOk(u)'
  <2>1. ThreadOk(u)
    BY DEF SocketInv
  <2>2. pc[u] \in Holding => sess[u] \in Blocks
    BY DEF Holding, TypeInv, Known, IoStages
  <2>3. u # Null
    BY SessionAssumption
  <2> QED
    BY <1>4, <2>1, <2>2, <2>3 DEF ThreadOk, Owned
<1> QED
  BY <1>1, <1>2, <1>3, <1>4 DEF SocketInv

\* A thread at a number of its session, with nobody between close() and the
\* store that follows.
LEMMA NumberOwned ==
  ASSUME TypeInv, HandleInv, SocketInv, NEW t \in Threads, pc[t] \in Using,
         pc[t] \in Sole \/ pc[t] \in Holding, pc[t] \notin JustClosed,
         sock[sess[t]] \in Fds
  PROVE  owner[sock[sess[t]]] = sess[t]
<1>1. app[handle[t]] # "none" /\ pool[handle[t]] = sess[t] /\ handle[t] \in Handles
  BY DEF HandleInv, InUse, SessionOf, TypeInv, Types
<1>2. ASSUME NEW u \in Threads, pc[u] \in JustClosed, handle[u] = handle[t] PROVE FALSE
  <2>1. u # t
    BY <1>2
  <2>2. pc[u] \in Using
    BY <1>2 DEF JustClosed, Using, Sole, IoStages
  <2>3. sess[u] = sess[t]
    BY <1>1, <1>2, <2>2 DEF HandleInv, SessionOf
  <2>4. pc[t] \notin Sole /\ pc[u] \notin Sole
    BY <2>1, <2>2, <2>3, SameSession
  <2>5. pc[u] = "closed" /\ pc[t] \in Holding
    BY <1>2, <2>4 DEF JustClosed, Sole
  <2>6. mutex[sess[u]] = u /\ mutex[sess[t]] = t
    BY <2>5 DEF SocketInv, ThreadOk, Holding
  <2> QED
    BY <2>1, <2>3, <2>6
<1> QED
  BY <1>1, <1>2 DEF SocketInv, KnownOwned

LEMMA SocketOwn == TypeInv /\ HandleInv /\ SocketInv => OwnSocketOnly
<1> SUFFICES ASSUME TypeInv, HandleInv, SocketInv, NEW t \in Threads
             PROVE  /\ pc[t] \in {"wait", "recv", "sending"} /\ fd[t] \in Fds =>
                          owner[fd[t]] = sess[t]
                    /\ pc[t] \in {"connect", "closing", "close1", "close2"}
                          /\ sock[sess[t]] \in Fds => owner[sock[sess[t]]] = sess[t]
  BY DEF OwnSocketOnly
<1>1. ASSUME pc[t] \in {"wait", "recv", "sending"}, fd[t] \in Fds
      PROVE  owner[fd[t]] = sess[t]
  <2>1. /\ pc[t] \in Holding /\ pc[t] # "closed" /\ pc[t] \notin JustClosed
        /\ pc[t] \in Using
    BY <1>1 DEF Holding, JustClosed, Using, IoStages
  <2>2. fd[t] = sock[sess[t]]
    BY <2>1 DEF SocketInv, ThreadOk
  <2> QED
    BY <1>1, <2>1, <2>2, NumberOwned
<1>2. ASSUME pc[t] \in {"connect", "closing", "close1", "close2"}, sock[sess[t]] \in Fds
      PROVE  owner[sock[sess[t]]] = sess[t]
  <2>1. /\ pc[t] \in Holding \/ pc[t] \in Sole
        /\ pc[t] \notin JustClosed /\ pc[t] \in Using
    BY <1>2 DEF Holding, Sole, JustClosed, Using, IoStages
  <2> QED
    BY <1>2, <2>1, NumberOwned
<1> QED
  BY <1>1, <1>2

\* A step of t that keeps slots and sockets; t has not just closed one.
LEMMA SocketStep ==
  ASSUME TypeInv, HandleInv, SocketInv, NEW t \in Threads,
         UNCHANGED <<pool, app, sock, owner>>,
         \A u \in Threads : u # t =>
            pc'[u] = pc[u] /\ handle'[u] = handle[u] /\ sess'[u] = sess[u] /\ fd'[u] = fd[u],
         \A b \in Blocks : mutex'[b] = mutex[b] \/ mutex[b] \in {t, Null},
         pc[t] \notin JustClosed, ThreadOk(t)'
  PROVE  SocketInv'
<1>1. \A u \in Threads : u # t /\ pc[u] = "open" => app'[handle[u]] = "used"
  BY DEF SocketInv, ThreadOk
<1>2. \A h \in Handles : app'[h] = "idle" => sock[pool[h]] <= 0
  BY DEF SocketInv, IdleClosed
<1> QED
  BY <1>1, <1>2, SocketFrame

\* A call that returns has nothing left to do.
LEMMA OutOk ==
  ASSUME TypeInv, NEW t \in Threads, Leave(t)
  PROVE  /\ ThreadOk(t)'
         /\ \A u \in Threads : u # t =>
               pc'[u] = pc[u] /\ handle'[u] = handle[u] /\ sess'[u] = sess[u] /\ fd'[u] = fd[u]
<1>1. pc'[t] = "out"
  BY DEF Leave, Goto, TypeInv, Types
<1> QED
  BY <1>1 DEF Leave, Goto, ThreadOk, Holding, JustClosed, TypeInv, Types

\* ImInit() works on a slot and a session that nobody uses.
LEMMA SocketInitStep ==
  ASSUME TypeInv, HandleInv, SocketInv, NEW t \in Threads, InitStep(t)
  PROVE  SocketInv'
<1> USE DEF slots, session, kernel, local
<1>1. CASE SkipSlot(t) \/ TakeSlot(t) \/ LookUp(t)
  <2>1. /\ UNCHANGED <<pool, app, sock, owner, mutex>> /\ pc[t] \in {"scan", "lookup"}
        /\ \A u \in Threads : u # t =>
              pc'[u] = pc[u] /\ handle'[u] = handle[u] /\ sess'[u] = sess[u] /\ fd'[u] = fd[u]
    BY <1>1, OutOk DEF SkipSlot, TakeSlot, LookUp, Fail, Goto, TypeInv, Types
  <2>2. pc'[t] \in {"out", "scan", "alloc", "init"}
    BY <1>1 DEF SkipSlot, TakeSlot, LookUp, Fail, Leave, Goto, TypeInv, Types
  <2>3. ThreadOk(t)'
    BY <2>2 DEF ThreadOk, Holding, JustClosed
  <2>4. pc[t] \notin JustClosed
    BY <2>1 DEF JustClosed
  <2> QED
    BY <2>1, <2>3, <2>4, SocketStep
<1>2. CASE Malloc(t)
  <2>1. /\ UNCHANGED <<app, sock, owner, mutex, handle, sess, fd>> /\ pc[t] = "alloc"
        /\ pc' = [pc EXCEPT ![t] = "lookup"]
        /\ \A h \in Handles : h # handle[t] => pool'[h] = pool[h]
    BY <1>2 DEF Malloc, Goto, TypeInv, Types
  <2>2. app[handle[t]] = "none"
    BY <2>1 DEF HandleInv, Unused, Work
  <2>3. ThreadOk(t)' /\ pc[t] \notin JustClosed
    BY <2>1 DEF ThreadOk, Holding, JustClosed, TypeInv, Types
  <2>4. /\ \A h \in Handles : app'[h] # "none" => app[h] # "none" /\ pool'[h] = pool[h]
        /\ \A h \in Handles : app[h] = "used" => app'[h] = "used" /\ pool'[h] = pool[h]
    BY <2>1, <2>2
  <2>5. \A u \in Threads : u # t /\ pc[u] = "open" => app'[handle[u]] = "used"
    BY <2>1 DEF SocketInv, ThreadOk
  <2>6. \A h \in Handles : app'[h] = "idle" => sock[pool[h]] <= 0
    BY <2>1 DEF SocketInv, IdleClosed
  <2>7. \A u \in Threads : u # t => pc'[u] = pc[u]
    BY <2>1 DEF TypeInv, Types
  <2> QED
    BY <2>1, <2>3, <2>4, <2>5, <2>6, <2>7, SocketFrame
<1>3. CASE ClientInit(t)
  <2>1. /\ pc[t] = "init" /\ Leave(t) /\ sock' = [sock EXCEPT ![sess[t]] = 0]
        /\ mutex' = [mutex EXCEPT ![sess[t]] = Null] /\ UNCHANGED <<pool, owner>>
        /\ app' = app \/ app' = [app EXCEPT ![handle[t]] = "idle"]
    BY <1>3 DEF ClientInit, Return, Fail
  <2>2. /\ sess[t] \in Blocks /\ sess[t] = pool[handle[t]] /\ handle[t] \in Handles
        /\ app[handle[t]] = "none"
    BY <2>1 DEF HandleInv, SessionOf, Unused, Work, TypeInv, Types
  <2>3. \A h \in Handles : app[h] # "none" => pool[h] # sess[t]
    BY <2>1, <2>2, SessionHandle
  <2>4. \A h \in Handles : app[h] # "none" => sock'[pool[h]] = sock[pool[h]]
    BY <2>1, <2>3 DEF TypeInv, Types
  <2>5. ~Owned(sess[t])
    BY <2>2, <2>3, SessionAssumption DEF Owned, SocketInv, NoSocketLost
  <2>6. pc' = [pc EXCEPT ![t] = "out"] /\ ThreadOk(t)'
        /\ \A u \in Threads : u # t =>
              pc'[u] = pc[u] /\ handle'[u] = handle[u] /\ sess'[u] = sess[u] /\ fd'[u] = fd[u]
    BY <2>1, OutOk DEF Leave, Goto
  <2>7. \A h \in Handles : h # handle[t] => app'[h] = app[h]
    BY <2>1 DEF TypeInv, Types
  <2>8. NoSocketLost'
    <3>1. \A f \in Fds : owner[f] # Null => sock'[owner[f]] = sock[owner[f]]
      BY <2>1, <2>5 DEF Owned, TypeInv, Types
    <3> QED
      BY <2>1, <2>2, <2>7, <3>1 DEF SocketInv, NoSocketLost
  <2>9. KnownOwned' /\ IdleClosed'
    <3>1. sock'[pool[handle[t]]] = 0 /\ 0 \notin Fds
      BY <2>1, <2>2 DEF TypeInv, Types, Fds
    <3>2. KnownOwned'
      <4>1. ASSUME NEW h \in Handles, app'[h] # "none", sock'[pool[h]] \in Fds
            PROVE  \/ owner[sock'[pool[h]]] = pool[h]
                   \/ \E u \in Threads : pc'[u] \in JustClosed /\ handle'[u] = h
        <5>1. h # handle[t] /\ app[h] # "none" /\ sock'[pool[h]] = sock[pool[h]]
          BY <2>4, <2>7, <3>1, <4>1
        <5>2. pc[t] \notin JustClosed
          BY <2>1 DEF JustClosed
        <5> QED
          BY <2>6, <4>1, <5>1, <5>2 DEF SocketInv, KnownOwned
      <4> QED
        BY <2>1, <4>1 DEF KnownOwned
    <3>3. IdleClosed'
      BY <2>1, <2>4, <2>7, <3>1 DEF SocketInv, IdleClosed
    <3> QED
      BY <3>2, <3>3
  <2>10. ASSUME NEW u \in Threads, u # t PROVE ThreadOk(u)'
    <3>1. ThreadOk(u)
      BY DEF SocketInv
    <3>2. CASE pc[u] \in Using
      <4>1. sess[u] # sess[t] /\ sess[u] \in Blocks /\ app[handle[u]] # "none"
        BY <2>1, <2>10, <3>2, SameSession, SessionHandle, <2>2
           DEF HandleInv, InUse, SessionOf, TypeInv, Types
      <4>2. sock'[sess[u]] = sock[sess[u]] /\ mutex'[sess[u]] = mutex[sess[u]]
            /\ app'[handle[u]] = app[handle[u]]
        BY <2>1, <2>2, <2>7, <4>1 DEF TypeInv, Types
      <4> QED
        BY <2>1, <2>6, <2>10, <3>1, <4>2 DEF ThreadOk, Owned
    <3>3. CASE pc[u] \notin Using
      BY <2>6, <2>10, <3>3 DEF ThreadOk, Holding, JustClosed, Using, Sole, IoStages
    <3> QED
      BY <3>2, <3>3
  <2> QED
    BY <2>6, <2>8, <2>9, <2>10 DEF SocketInv
<1> QED
  BY <1>1, <1>2, <1>3 DEF InitStep

LEMMA SocketCall ==
  ASSUME TypeInv, HandleInv, SocketInv, Joined, Tidy, NEW t \in Threads, Call(t)
  PROVE  SocketInv'
<1> USE DEF slots, session, kernel, local
<1>1. CASE CallInit(t)
  <2>1. /\ UNCHANGED <<pool, app, sock, owner, mutex, handle, sess, fd>> /\ pc[t] = "out"
        /\ pc' = [pc EXCEPT ![t] = "scan"]
    BY <1>1 DEF CallInit, Goto
  <2>2. ThreadOk(t)' /\ pc[t] \notin JustClosed /\ \A u \in Threads : u # t => pc'[u] = pc[u]
    BY <2>1 DEF ThreadOk, Holding, JustClosed, TypeInv, Types
  <2> QED
    BY <2>1, <2>2, SocketStep
<1>2. ASSUME NEW h \in Handles, NEW stage \in EnterStages, Enter(t, h, stage)
      PROVE  /\ UNCHANGED <<pool, sock, owner, mutex>> /\ pc[t] \notin JustClosed
             /\ pc'[t] = stage /\ handle'[t] = h /\ sess'[t] = pool[h] /\ app[h] # "none"
             /\ \A u \in Threads : u # t =>
                   pc'[u] = pc[u] /\ handle'[u] = handle[u] /\ sess'[u] = sess[u]
                      /\ fd'[u] = fd[u]
  BY <1>2 DEF Enter, Goto, JustClosed, TypeInv, Types
<1>3. CASE \E h \in Handles : CallPoll(t, h) \/ CallSend(t, h) \/ CallDisconnect(t, h)
  <2>1. PICK h \in Handles, stage \in {"poll", "send", "close1"} :
            Enter(t, h, stage) /\ UNCHANGED app
    BY <1>3 DEF CallPoll, CallSend, CallDisconnect
  <2>2. stage \in EnterStages
    BY DEF EnterStages
  <2>3. ThreadOk(t)'
    BY <2>1, <2>2, <1>2 DEF ThreadOk, Holding, JustClosed
  <2> QED
    BY <2>1, <2>2, <2>3, <1>2, SocketStep
<1>4. CASE \E h \in Handles : CallConnect(t, h)
  <2>1. PICK h \in Handles : CallConnect(t, h)
    BY <1>4
  <2>2. /\ Enter(t, h, "open") /\ "open" \in EnterStages /\ app[h] = "idle"
        /\ app' = [app EXCEPT ![h] = "used"]
    BY <2>1 DEF CallConnect, EnterStages
  <2>3. sock[pool[h]] <= 0
    BY <2>2 DEF SocketInv, IdleClosed
  <2>4. app'[h] = "used" /\ \A g \in Handles : g # h => app'[g] = app[g]
    BY <2>2 DEF TypeInv, Types
  <2>5. ThreadOk(t)'
    BY <2>2, <2>3, <2>4, <1>2 DEF ThreadOk, Holding, JustClosed
  <2>6. \A u \in Threads : u # t /\ pc[u] = "open" => app'[handle[u]] = "used"
    BY <2>4 DEF SocketInv, ThreadOk, TypeInv, Types
  <2>7. \A g \in Handles : app'[g] = "idle" => sock[pool[g]] <= 0
    BY <2>4 DEF SocketInv, IdleClosed
  <2>8. \A g \in Handles : app'[g] # "none" => app[g] # "none"
    BY <2>2, <2>4
  <2>9. \A g \in Handles : app[g] = "used" => app'[g] = "used"
    BY <2>4
  <2> QED
    BY <2>2, <2>5, <2>6, <2>7, <2>8, <2>9, <1>2, SocketFrame
<1>5. CASE \E h \in Handles : CallRelease(t, h)
  <2>1. PICK h \in Handles : CallRelease(t, h)
    BY <1>5
  <2>2. /\ Enter(t, h, "free") /\ "free" \in EnterStages /\ app[h] = "idle"
        /\ app' = [app EXCEPT ![h] = "none"]
        /\ \A u \in Threads : ~(pc[u] \in Using /\ handle[u] = h)
    BY <2>1 DEF CallRelease, EnterStages, Alone, InCallWith, Using, Sole, SoleStages
  <2>4. app'[h] = "none" /\ \A g \in Handles : g # h => app'[g] = app[g]
    BY <2>2 DEF TypeInv, Types
  <2>5. ThreadOk(t)'
    BY <2>2, <1>2 DEF ThreadOk, Holding, JustClosed
  <2>6. \A u \in Threads : u # t /\ pc[u] = "open" => app'[handle[u]] = "used"
    BY <2>2, <2>4 DEF SocketInv, ThreadOk, TypeInv, Types, Using, Sole
  <2>7. \A g \in Handles : app'[g] = "idle" => sock[pool[g]] <= 0
    BY <2>4 DEF SocketInv, IdleClosed
  <2>8. \A g \in Handles : app'[g] # "none" => app[g] # "none"
    BY <2>4
  <2>9. \A g \in Handles : app[g] = "used" => app'[g] = "used"
    BY <2>2, <2>4
  <2> QED
    BY <2>2, <2>5, <2>6, <2>7, <2>8, <2>9, <1>2, SocketFrame
<1> QED
  BY <1>1, <1>3, <1>4, <1>5 DEF Call

\* Steps that keep the sockets.
LEMMA SocketQuietStep ==
  ASSUME TypeInv, HandleInv, SocketInv, NEW t \in Threads,
         \/ LockWait(t) \/ LockSend(t) \/ LockRecv(t) \/ NoSocket(t)
         \/ Wait(t) \/ Recv(t) \/ SendBuffer(t) \/ SkipClose(t) \/ Connect(t) \/ Free(t)
  PROVE  SocketInv'
<1> USE DEF slots, session, kernel, local
<1>1. ThreadOk(t) /\ sess[t] \in Blocks /\ t # Null
  BY SessionAssumption DEF SocketInv, TypeInv, Known, LockWait, LockSend, LockRecv, NoSocket,
     Wait, Recv, SendBuffer, SkipClose, Connect, Free, IoStages, SoleStages
<1>2. CASE LockWait(t) \/ LockSend(t) \/ LockRecv(t)
  <2>1. /\ pc[t] \in {"poll", "seen", "send"}
        /\ \E stage \in {"wait", "sending", "recv"} : Lock(t, stage)
    BY <1>2 DEF LockWait, LockSend, LockRecv
  <2>2. PICK stage \in {"wait", "sending", "recv"} : Lock(t, stage)
    BY <2>1
  <2>3. /\ UNCHANGED <<pool, app, sock, owner, handle, sess>> /\ mutex[sess[t]] = Null
        /\ mutex' = [mutex EXCEPT ![sess[t]] = t] /\ fd' = [fd EXCEPT ![t] = sock[sess[t]]]
        /\ pc' = [pc EXCEPT ![t] = stage]
    BY <2>2 DEF Lock, Goto
  <2>4. ThreadOk(t)'
    BY <2>3, <1>1 DEF ThreadOk, Holding, JustClosed, TypeInv, Types
  <2>5. /\ \A b \in Blocks : mutex'[b] = mutex[b] \/ mutex[b] \in {t, Null}
        /\ \A u \in Threads : u # t => pc'[u] = pc[u] /\ fd'[u] = fd[u]
    BY <2>3 DEF TypeInv, Types
  <2>6. pc[t] \notin JustClosed
    BY <2>1 DEF JustClosed
  <2> QED
    BY <2>3, <2>4, <2>5, <2>6, SocketStep
<1>3. CASE NoSocket(t) \/ Wait(t) \/ Recv(t) \/ SendBuffer(t) \/ Connect(t)
  <2>1. /\ UNCHANGED <<pool, app, sock, owner>>
        /\ pc[t] \in {"poll", "send", "wait", "recv", "sending", "connect"}
        /\ \/ mutex' = mutex
           \/ mutex' = [mutex EXCEPT ![sess[t]] = Null] /\ pc[t] \in Holding
        /\ \/ Leave(t)
           \/ /\ \E stage \in {"seen", "poll"} : Goto(t, stage)
              /\ UNCHANGED <<handle, sess, fd>>
           \/ /\ pc[t] = "recv" /\ Goto(t, "closing") /\ HungUp(fd[t])
              /\ UNCHANGED <<mutex, handle, sess, fd>>
    <3>1. CASE NoSocket(t)
      BY <3>1 DEF NoSocket, Fail
    <3>2. CASE Wait(t)
      BY <3>2 DEF Wait, Return, Fail, Unlock, Holding
    <3>3. CASE Recv(t)
      BY <3>3 DEF Recv, Fail, Unlock, Holding
    <3>4. CASE SendBuffer(t)
      BY <3>4 DEF SendBuffer, Return, Fail, Unlock, Holding
    <3>5. CASE Connect(t)
      BY <3>5 DEF Connect, KeepSocket, Return, Fail
    <3> QED
      BY <1>3, <3>1, <3>2, <3>3, <3>4, <3>5
  <2>2. \A b \in Blocks : mutex'[b] = mutex[b] \/ mutex[b] \in {t, Null}
    BY <2>1, <1>1 DEF ThreadOk, TypeInv, Types
  <2>3. CASE Leave(t)
    BY <2>1, <2>2, <2>3, OutOk, SocketStep DEF JustClosed
  <2>4. CASE (\E stage \in {"seen", "poll"} : Goto(t, stage)) /\ UNCHANGED <<handle, sess, fd>>
    <3>1. ThreadOk(t)' /\ \A u \in Threads : u # t => pc'[u] = pc[u]
      BY <2>4 DEF Goto, ThreadOk, Holding, JustClosed, TypeInv, Types
    <3> QED
      BY <2>1, <2>2, <2>4, <3>1, SocketStep DEF JustClosed
  <2>5. CASE /\ pc[t] = "recv" /\ Goto(t, "closing") /\ HungUp(fd[t])
             /\ UNCHANGED <<mutex, handle, sess, fd>>
    <3>1. fd[t] \in Fds /\ fd[t] = sock[sess[t]] /\ mutex[sess[t]] = t
      BY <2>5, <1>1 DEF HungUp, ThreadOk, Holding
    <3>2. pc' = [pc EXCEPT ![t] = "closing"]
      BY <2>5 DEF Goto
    <3>3. ThreadOk(t)' /\ \A u \in Threads : u # t => pc'[u] = pc[u]
      BY <2>1, <2>5, <3>1, <3>2 DEF ThreadOk, Holding, JustClosed, TypeInv, Types
    <3> QED
      BY <2>1, <2>2, <2>5, <3>3, SocketStep DEF JustClosed
  <2> QED
    BY <2>1, <2>3, <2>4, <2>5
<1>4. CASE SkipClose(t)
  <2>1. /\ UNCHANGED <<pool, app, sock, owner, mutex, handle, sess, fd>>
        /\ pc[t] \in {"close1", "close2"} /\ sock[sess[t]] <= 0
        /\ pc' = [pc EXCEPT ![t] = Then(pc[t])]
    BY <1>4 DEF SkipClose, Goto
  <2>2. Then(pc[t]) \in {"close2", "done"}
    BY DEF Then
  <2>3. ThreadOk(t)' /\ \A u \in Threads : u # t => pc'[u] = pc[u]
    BY <2>1, <2>2 DEF ThreadOk, Holding, JustClosed, TypeInv, Types
  <2> QED
    BY <2>1, <2>3, SocketStep DEF JustClosed
<1>5. CASE Free(t)
  <2>1. /\ UNCHANGED <<pool, app, sock, owner, mutex, handle, sess, fd>> /\ pc[t] = "free"
        /\ pc' = [pc EXCEPT ![t] = "clear"]
    BY <1>5 DEF Free, Goto
  <2>2. ThreadOk(t)' /\ \A u \in Threads : u # t => pc'[u] = pc[u]
    BY <2>1 DEF ThreadOk, Holding, JustClosed, TypeInv, Types
  <2> QED
    BY <2>1, <2>2, SocketStep DEF JustClosed
<1> QED
  BY <1>2, <1>3, <1>4, <1>5

\* Steps that change what the application has.
LEMMA SocketLastStep ==
  ASSUME TypeInv, HandleInv, SocketInv, NEW t \in Threads, Disconnected(t) \/ ClearSlot(t)
  PROVE  SocketInv'
<1> USE DEF slots, session, kernel, local
<1>1. /\ Leave(t) /\ UNCHANGED <<sock, owner, mutex>> /\ pc[t] \in {"done", "clear"}
      /\ pc[t] \notin JustClosed /\ handle[t] \in Handles
  BY DEF Disconnected, ClearSlot, Return, JustClosed, TypeInv, Types
<1>2. ThreadOk(t)' /\ \A u \in Threads : u # t =>
         pc'[u] = pc[u] /\ handle'[u] = handle[u] /\ sess'[u] = sess[u] /\ fd'[u] = fd[u]
  BY <1>1, OutOk
<1>3. CASE Disconnected(t)
  <2>1. pc[t] = "done" /\ UNCHANGED pool /\ app' = [app EXCEPT ![handle[t]] = "idle"]
    BY <1>3 DEF Disconnected
  <2>2. sess[t] = pool[handle[t]] /\ sess[t] \in Blocks /\ app[handle[t]] # "none"
    BY <2>1 DEF HandleInv, SessionOf, InUse, Using, Sole
  <2>3. sock[pool[handle[t]]] <= 0
    BY <2>1, <2>2 DEF SocketInv, ThreadOk
  <2>4. ~Owned(pool[handle[t]])
    BY <2>2, <2>3, SessionAssumption DEF Owned, SocketInv, NoSocketLost, Fds
  <2>5. app'[handle[t]] = "idle" /\ \A h \in Handles : h # handle[t] => app'[h] = app[h]
    BY <1>1, <2>1 DEF TypeInv, Types
  <2>6. ASSUME NEW u \in Threads, u # t, pc[u] = "open" PROVE app'[handle[u]] = "used"
    <3>1. handle[u] # handle[t]
      BY <2>1, <2>6 DEF HandleInv, SoleAlone, Sole, Using
    <3> QED
      BY <2>5, <2>6, <3>1 DEF SocketInv, ThreadOk, TypeInv, Types
  <2>7. \A h \in Handles : app'[h] # "none" => app[h] # "none"
    BY <2>2, <2>5
  <2>8. \A h \in Handles : app'[h] = "idle" => sock[pool[h]] <= 0
    BY <2>3, <2>5 DEF SocketInv, IdleClosed
  <2>9. \A h \in Handles : app[h] = "used" => app'[h] = "used" \/ ~Owned(pool[h])
    BY <2>4, <2>5
  <2> QED
    BY <1>1, <1>2, <2>1, <2>6, <2>7, <2>8, <2>9, SocketFrame
<1>4. CASE ClearSlot(t)
  <2>1. /\ pc[t] = "clear" /\ UNCHANGED app
        /\ \A h \in Handles : h # handle[t] => pool'[h] = pool[h]
    BY <1>4 DEF ClearSlot, TypeInv, Types
  <2>2. app[handle[t]] = "none"
    BY <2>1 DEF HandleInv, Unused, Work
  <2>3. \A h \in Handles : app[h] # "none" => pool'[h] = pool[h]
    BY <2>1, <2>2
  <2>4. \A u \in Threads : u # t /\ pc[u] = "open" => app'[handle[u]] = "used"
    BY <2>1 DEF SocketInv, ThreadOk
  <2>5. \A h \in Handles : app'[h] = "idle" => sock[pool[h]] <= 0
    BY <2>1 DEF SocketInv, IdleClosed
  <2> QED
    BY <1>1, <1>2, <2>1, <2>3, <2>4, <2>5, SocketFrame
<1> QED
  BY <1>3, <1>4

\* socket() for a session that has none.
LEMMA SocketOpen ==
  ASSUME TypeInv, HandleInv, SocketInv, NEW t \in Threads, OpenSocket(t)
  PROVE  SocketInv'
<1> USE DEF slots, session, kernel, local
<1>1. /\ pc[t] = "open" /\ UNCHANGED <<pool, app, mutex>>
      /\ sess[t] = pool[handle[t]] /\ sess[t] \in Blocks /\ handle[t] \in Handles
      /\ app[handle[t]] = "used" /\ sock[sess[t]] <= 0
  BY DEF OpenSocket, HandleInv, SessionOf, Using, Sole, SocketInv, ThreadOk, TypeInv, Types
<1>2. ~Owned(sess[t])
  BY <1>1, SessionAssumption DEF Owned, SocketInv, NoSocketLost, Fds
<1>3. \A h \in Handles : app[h] # "none" /\ pool[h] = sess[t] => h = handle[t]
  BY <1>1, SessionHandle DEF Using, Sole
<1>4. /\ pc'[t] \in {"connect", "out"} /\ pc[t] \notin JustClosed
      /\ \A u \in Threads : u # t =>
            pc'[u] = pc[u] /\ handle'[u] = handle[u] /\ sess'[u] = sess[u] /\ fd'[u] = fd[u]
  BY <1>1, OutOk DEF OpenSocket, Fail, Leave, Goto, JustClosed, TypeInv, Types
<1>5. ThreadOk(t)'
  BY <1>4 DEF ThreadOk, Holding, JustClosed
<1>6. ASSUME NEW n \in -1..MaxFd, sock' = [sock EXCEPT ![sess[t]] = n],
             \A f \in Fds : owner'[f] = owner[f] \/ (f = n /\ owner'[f] = sess[t]),
             n \in Fds => owner[n] = Null /\ owner'[n] = sess[t]
      PROVE  SocketInv'
  <2>1. sock'[sess[t]] = n /\ \A b \in Blocks : b # sess[t] => sock'[b] = sock[b]
    BY <1>1, <1>6 DEF TypeInv, Types
  <2>2. NoSocketLost'
    <3>1. ASSUME NEW f \in Fds, owner'[f] # Null
          PROVE  /\ sock'[owner'[f]] = f
                 /\ \E h \in Handles : app[h] = "used" /\ pool[h] = owner'[f]
      <4>1. CASE owner'[f] = sess[t]
        <5>1. f = n
          BY <1>2, <1>6, <4>1 DEF Owned
        <5> QED
          BY <1>1, <2>1, <4>1, <5>1
      <4>2. CASE owner'[f] # sess[t]
        <5>1. owner'[f] = owner[f] /\ owner[f] \in Blocks
          BY <1>6, <3>1, <4>2 DEF TypeInv, Types
        <5> QED
          BY <2>1, <3>1, <4>2, <5>1 DEF SocketInv, NoSocketLost
      <4> QED
        BY <4>1, <4>2
    <3> QED
      BY <1>1, <3>1 DEF NoSocketLost
  <2>3. KnownOwned'
    <3>1. ASSUME NEW h \in Handles, app[h] # "none", sock'[pool[h]] \in Fds
          PROVE  \/ owner'[sock'[pool[h]]] = pool[h]
                 \/ \E u \in Threads : pc'[u] \in JustClosed /\ handle'[u] = h
      <4>1. CASE h = handle[t]
        BY <1>1, <1>6, <2>1, <3>1, <4>1
      <4>2. CASE h # handle[t]
        <5>1. pool[h] \in Blocks /\ pool[h] # sess[t]
          BY <1>3, <3>1, <4>2 DEF HandleInv, HasSession, TypeInv, Types
        <5>2. sock'[pool[h]] = sock[pool[h]]
          BY <2>1, <5>1
        <5>3. CASE owner[sock[pool[h]]] = pool[h]
          <6>1. owner[sock[pool[h]]] # Null
            BY <5>1, <5>3, SessionAssumption
          <6> QED
            BY <1>6, <3>1, <5>2, <5>3, <6>1
        <5>4. CASE \E u \in Threads : pc[u] \in JustClosed /\ handle[u] = h
          BY <1>4, <5>4
        <5> QED
          BY <3>1, <5>2, <5>3, <5>4 DEF SocketInv, KnownOwned
      <4> QED
        BY <4>1, <4>2
    <3> QED
      BY <1>1, <3>1 DEF KnownOwned
  <2>4. IdleClosed'
    <3>1. ASSUME NEW h \in Handles, app[h] = "idle" PROVE sock'[pool[h]] <= 0
      <4>1. pool[h] \in Blocks /\ pool[h] # sess[t]
        BY <1>1, <1>3, <3>1 DEF HandleInv, HasSession, TypeInv, Types
      <4> QED
        BY <2>1, <3>1, <4>1 DEF SocketInv, IdleClosed
    <3> QED
      BY <1>1, <3>1 DEF IdleClosed
  <2>5. ASSUME NEW u \in Threads, u # t PROVE ThreadOk(u)'
    <3>1. ThreadOk(u)
      BY DEF SocketInv
    <3>2. CASE pc[u] \in Using
      <4>1. sess[u] # sess[t] /\ sess[u] \in Blocks
        BY <1>1, <2>5, <3>2, SameSession DEF HandleInv, SessionOf, Using, Sole
      <4>2. sock'[sess[u]] = sock[sess[u]] /\ (Owned(sess[u])' => Owned(sess[u]))
        BY <1>4, <1>6, <2>1, <2>5, <4>1 DEF Owned
      <4> QED
        BY <1>1, <1>4, <2>5, <3>1, <4>2 DEF ThreadOk
    <3>3. CASE pc[u] \notin Using
      BY <1>4, <2>5, <3>3 DEF ThreadOk, Holding, JustClosed, Using, Sole, IoStages
    <3> QED
      BY <3>2, <3>3
  <2> QED
    BY <1>5, <2>2, <2>3, <2>4, <2>5 DEF SocketInv
<1>7. CASE /\ sock' = [sock EXCEPT ![sess[t]] = -1]
           /\ UNCHANGED owner
  <2>1. -1 \in -1..MaxFd /\ -1 \notin Fds
    BY SessionAssumption DEF Fds
  <2> QED
    BY <1>6, <1>7, <2>1
<1>8. CASE \E f \in Fds : /\ owner[f] = Null
                          /\ owner' = [owner EXCEPT ![f] = sess[t]]
                          /\ sock' = [sock EXCEPT ![sess[t]] = f]
  <2>1. PICK f \in Fds : /\ owner[f] = Null
                         /\ owner' = [owner EXCEPT ![f] = sess[t]]
                         /\ sock' = [sock EXCEPT ![sess[t]] = f]
    BY <1>8
  <2>2. f \in -1..MaxFd
    BY DEF Fds
  <2>3. owner'[f] = sess[t] /\ \A g \in Fds : g # f => owner'[g] = owner[g]
    BY <2>1 DEF TypeInv, Types
  <2> QED
    BY <1>6, <2>1, <2>2, <2>3
<1> QED
  BY <1>7, <1>8 DEF OpenSocket

\* close() of the session's own socket, whose number stays for a moment.
LEMMA SocketClose ==
  ASSUME TypeInv, HandleInv, SocketInv, NEW t \in Threads, CloseBroken(t) \/ CloseSocket(t)
  PROVE  SocketInv'
<1> USE DEF slots, session, kernel, local
<1> DEFINE f == sock[sess[t]]
<1>1. /\ f \in Fds /\ Close(f) /\ UNCHANGED <<pool, app, sock, mutex, handle, sess, fd>>
      /\ pc[t] \in {"closing", "close1", "close2"}
      /\ \E stage \in {"closed", "reset1", "reset2"} : Goto(t, stage)
      /\ pc[t] = "closing" => Goto(t, "closed")
      /\ pc[t] = "close1" => Goto(t, "reset1")
  <2>1. sess[t] \in Blocks
    BY DEF CloseBroken, CloseSocket, TypeInv, Known, IoStages, SoleStages
  <2>2. sock[sess[t]] \in -1..MaxFd
    BY <2>1 DEF TypeInv, Types
  <2>3. f \in Fds
    BY <2>2, SessionAssumption DEF CloseBroken, CloseSocket, Fds
  <2> QED
    BY <2>3 DEF CloseBroken, CloseSocket, Closed
<1>2. /\ pc[t] \in Using /\ pc[t] \notin JustClosed /\ (pc[t] \in Sole \/ pc[t] \in Holding)
  BY <1>1 DEF Using, Sole, Holding, IoStages, JustClosed
<1>3. owner[f] = sess[t] /\ sess[t] # Null /\ sess[t] \in Blocks
  BY <1>1, <1>2, NumberOwned, SessionAssumption DEF HandleInv, SessionOf
<1>4. owner'[f] = Null /\ \A g \in Fds : g # f => owner'[g] = owner[g]
  BY <1>1 DEF Close, TypeInv, Types
<1>5. \A g \in Fds : owner[g] = sess[t] => g = f
  BY <1>3 DEF SocketInv, NoSocketLost
<1>6. ~Owned(sess[t])' /\ \A b \in Blocks : Owned(b)' => Owned(b)
  BY <1>1, <1>3, <1>4, <1>5, SessionAssumption DEF Owned
<1>7. pc[t] # "close2"
  BY <1>1 DEF SocketInv, ThreadOk, Fds
<1>8. /\ pc'[t] \in {"closed", "reset1"} /\ (pc'[t] = "closed" => pc[t] = "closing")
      /\ \A u \in Threads : u # t => pc'[u] = pc[u]
  BY <1>1, <1>7 DEF Goto, TypeInv, Types
<1>9. NoSocketLost'
  BY <1>1, <1>4 DEF SocketInv, NoSocketLost
<1>10. KnownOwned'
  <2>1. ASSUME NEW h \in Handles, app[h] # "none", sock[pool[h]] \in Fds
        PROVE  \/ owner'[sock[pool[h]]] = pool[h]
               \/ \E u \in Threads : pc'[u] \in JustClosed /\ handle[u] = h
    <3>1. CASE pool[h] = sess[t]
      <4>1. h = handle[t]
        BY <1>2, <2>1, <3>1, SessionHandle
      <4> QED
        BY <1>8, <4>1 DEF JustClosed
    <3>2. CASE pool[h] # sess[t] /\ owner[sock[pool[h]]] = pool[h]
      BY <1>3, <1>4, <2>1, <3>2
    <3>3. CASE \E u \in Threads : pc[u] \in JustClosed /\ handle[u] = h
      BY <1>2, <1>8, <3>3
    <3> QED
      BY <2>1, <3>1, <3>2, <3>3 DEF SocketInv, KnownOwned
  <2> QED
    BY <1>1, <2>1 DEF KnownOwned
<1>11. IdleClosed'
  BY <1>1 DEF SocketInv, IdleClosed
<1>12. ThreadOk(t)'
  BY <1>1, <1>6, <1>8 DEF SocketInv, ThreadOk, Holding, JustClosed
<1>13. ASSUME NEW u \in Threads, u # t PROVE ThreadOk(u)'
  <2>1. ThreadOk(u) /\ (pc[u] \in JustClosed => sess[u] \in Blocks)
    BY DEF SocketInv, JustClosed, TypeInv, Known, IoStages, SoleStages
  <2> QED
    BY <1>1, <1>6, <1>8, <1>13, <2>1 DEF ThreadOk
<1> QED
  BY <1>9, <1>10, <1>11, <1>12, <1>13 DEF SocketInv

\* The number of a closed socket is forgotten.
LEMMA SocketForget ==
  ASSUME TypeInv, HandleInv, SocketInv, NEW t \in Threads, ForgetBroken(t) \/ ResetSock(t)
  PROVE  SocketInv'
<1> USE DEF slots, session, kernel, local
<1>1. /\ pc[t] \in {"closed", "reset1", "reset2"} /\ UNCHANGED <<pool, app, owner>>
      /\ \E n \in {-1, 0} : sock' = [sock EXCEPT ![sess[t]] = n]
      /\ \/ UNCHANGED mutex
         \/ mutex' = [mutex EXCEPT ![sess[t]] = Null] /\ pc[t] = "closed"
  BY DEF ForgetBroken, ResetSock, NumberAfter, Unlock
<1>2. /\ pc[t] \in Using /\ pc[t] # "reset2" /\ ~Owned(sess[t]) /\ sess[t] \in Blocks
      /\ sess[t] = pool[handle[t]] /\ app[handle[t]] # "none" /\ handle[t] \in Handles
  <2>1. pc[t] \in Using
    BY <1>1 DEF Using, Sole, IoStages
  <2>2. ThreadOk(t)
    BY DEF SocketInv
  <2> QED
    BY <1>1, <2>1, <2>2 DEF ThreadOk, JustClosed, HandleInv, SessionOf, InUse, TypeInv, Types
<1>3. \A h \in Handles : app[h] # "none" /\ pool[h] = sess[t] => h = handle[t]
  BY <1>2, SessionHandle
<1>4. /\ sock'[sess[t]] <= 0 /\ sock'[sess[t]] \notin Fds
      /\ \A b \in Blocks : b # sess[t] => sock'[b] = sock[b]
  BY <1>1, <1>2 DEF Fds, TypeInv, Types
<1>5. /\ pc'[t] \in {"out", "close2"}
      /\ \A u \in Threads : u # t =>
            pc'[u] = pc[u] /\ handle'[u] = handle[u] /\ sess'[u] = sess[u] /\ fd'[u] = fd[u]
      /\ pc'[t] = "close2" => sess'[t] = sess[t]
  <2>1. CASE ForgetBroken(t)
    BY <2>1, OutOk DEF ForgetBroken, Fail, Leave, Goto, TypeInv, Types
  <2>2. CASE ResetSock(t)
    BY <2>2, <1>2 DEF ResetSock, Then, Goto, TypeInv, Types
  <2> QED
    BY <2>1, <2>2
<1>6. NoSocketLost'
  <2>1. \A g \in Fds : owner[g] # sess[t]
    BY <1>2 DEF Owned
  <2>2. \A g \in Fds : owner[g] # Null => sock'[owner[g]] = sock[owner[g]]
    BY <1>4, <2>1 DEF TypeInv, Types
  <2> QED
    BY <1>1, <2>2 DEF SocketInv, NoSocketLost
<1>7. \A h \in Handles : app[h] # "none" => pool[h] \in Blocks
  BY DEF HandleInv, HasSession, TypeInv, Types
<1>8. KnownOwned'
  <2>1. ASSUME NEW h \in Handles, app[h] # "none", sock'[pool[h]] \in Fds
        PROVE  \/ owner[sock'[pool[h]]] = pool[h]
               \/ \E u \in Threads : pc'[u] \in JustClosed /\ handle'[u] = h
    <3>1. pool[h] # sess[t] /\ h # handle[t] /\ sock'[pool[h]] = sock[pool[h]]
      BY <1>2, <1>4, <1>7, <2>1
    <3> QED
      BY <1>5, <2>1, <3>1 DEF SocketInv, KnownOwned
  <2> QED
    BY <1>1, <2>1 DEF KnownOwned
<1>9. IdleClosed'
  BY <1>1, <1>4, <1>7 DEF SocketInv, IdleClosed
<1>10. ThreadOk(t)'
  BY <1>4, <1>5 DEF ThreadOk, Holding, JustClosed
<1>11. ASSUME NEW u \in Threads, u # t PROVE ThreadOk(u)'
  <2>1. ThreadOk(u) /\ ThreadOk(t) /\ u # Null
    BY SessionAssumption DEF SocketInv
  <2>2. CASE pc[u] \notin Using
    BY <1>5, <1>11, <2>2 DEF ThreadOk, Holding, JustClosed, Using, Sole, IoStages
  <2>3. CASE pc[u] \in Using /\ sess[u] # sess[t]
    <3>1. sess[u] \in Blocks
      BY <2>3 DEF HandleInv, SessionOf
    <3>2. sock'[sess[u]] = sock[sess[u]] /\ mutex'[sess[u]] = mutex[sess[u]]
      BY <1>1, <1>2, <1>4, <2>3, <3>1 DEF TypeInv, Types
    <3> QED
      BY <1>1, <1>5, <1>11, <2>1, <3>2 DEF ThreadOk, Owned
  <2>4. CASE pc[u] \in Using /\ sess[u] = sess[t]
    <3>1. pc[t] \notin Sole /\ pc[u] \notin Sole
      BY <1>2, <1>11, <2>4, SameSession
    <3>2. pc[t] = "closed"
      BY <1>1, <3>1 DEF Sole
    <3>3. mutex[sess[t]] = t
      BY <2>1, <3>2 DEF ThreadOk, Holding
    <3>4. pc[u] \notin Holding
      BY <1>11, <2>1, <2>4, <3>3 DEF ThreadOk
    <3> QED
      BY <1>5, <1>11, <3>1, <3>4 DEF ThreadOk, Holding, JustClosed, Sole
  <2> QED
    BY <2>2, <2>3, <2>4
<1> QED
  BY <1>6, <1>8, <1>9, <1>10, <1>11 DEF SocketInv

LEMMA SocketNext ==
  ASSUME Joined, Tidy
  PROVE  TypeInv /\ HandleInv /\ SocketInv /\ [Next]_vars => SocketInv'
<1> SUFFICES ASSUME TypeInv, HandleInv, SocketInv, [Next]_vars PROVE SocketInv'
  OBVIOUS
<1>1. CASE UNCHANGED <<pool, app, sock, mutex, owner, pc, handle, sess, fd>>
  <2>1. NoSocketLost' /\ KnownOwned' /\ IdleClosed'
    BY <1>1 DEF SocketInv, NoSocketLost, KnownOwned, IdleClosed
  <2>2. ASSUME NEW t \in Threads PROVE ThreadOk(t)'
    <3>1. ThreadOk(t) /\ (Owned(sess[t])' <=> Owned(sess[t]))
      BY <1>1 DEF SocketInv, Owned
    <3> QED
      BY <1>1, <3>1 DEF ThreadOk
  <2> QED
    BY <2>1, <2>2 DEF SocketInv
<1>2. ASSUME NEW t \in Threads, Call(t) \/ Step(t) PROVE SocketInv'
  <2>1. CASE Call(t)
    BY <2>1, SocketCall
  <2>2. CASE InitStep(t)
    BY <2>2, SocketInitStep
  <2>3. CASE ConnectStep(t)
    BY <2>3, SocketQuietStep, SocketOpen DEF ConnectStep
  <2>4. CASE IoStep(t)
    BY <2>4, SocketQuietStep, SocketClose, SocketForget DEF IoStep
  <2>5. CASE DisconnectStep(t)
    BY <2>5, SocketQuietStep, SocketClose, SocketForget, SocketLastStep DEF DisconnectStep
  <2>6. CASE ReleaseStep(t)
    BY <2>6, SocketQuietStep, SocketLastStep DEF ReleaseStep
  <2> QED
    BY <1>2, <2>1, <2>2, <2>3, <2>4, <2>5, <2>6 DEF Step
<1>3. CASE (\E f \in Fds : Serve(f) \/ HangUp(f)) \/ Rest \/ UNCHANGED vars
  <2>1. UNCHANGED <<pool, app, sock, mutex, pc, handle, sess, fd>>
    BY <1>3 DEF Serve, HangUp, Rest, vars, slots, session, local
  <2>2. UNCHANGED owner
    BY <1>3 DEF Serve, HangUp, Rest, vars, kernel
  <2> QED
    BY <1>1, <2>1, <2>2
<1> QED
  BY <1>2, <1>3 DEF Next

\* No thread works on a socket of another session, and no socket is left behind,
\* if moreover a session is disconnected before it is connected again or
\* released.
THEOREM SessionOwnSocketOnly ==
  ASSUME InitsApart, Joined, Tidy
  PROVE  Spec => []OwnSocketOnly
<1>1. TypeInv /\ HandleInv /\ [Next]_vars => HandleInv'
  BY HandleNext
<1>2. TypeInv /\ HandleInv /\ SocketInv /\ [Next]_vars => SocketInv'
  BY SocketNext
<1> QED
  BY <1>1, <1>2, HandleInit, SocketInit, SocketOwn, TypeAlways, PTL DEF Spec

THEOREM SessionNoSocketLost ==
  ASSUME InitsApart, Joined, Tidy
  PROVE  Spec => []NoSocketLost
<1>1. TypeInv /\ HandleInv /\ [Next]_vars => HandleInv'
  BY HandleNext
<1>2. TypeInv /\ HandleInv /\ SocketInv /\ [Next]_vars => SocketInv'
  BY SocketNext
<1>3. SocketInv => NoSocketLost
  BY DEF SocketInv
<1> QED
  BY <1>1, <1>2, <1>3, HandleInit, SocketInit, TypeAlways, PTL DEF Spec
=============================================================================
