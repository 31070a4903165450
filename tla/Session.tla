------------------------------ MODULE Session ------------------------------
(***************************************************************************)
(* Handles, sessions and sockets of a process, in a build for TCP.         *)
(*                                                                         *)
(* The bindings keep the sessions in sess_pool[] and hand out the index:   *)
(* ImInit() searches a slot and allocates the session, ImRelease() frees   *)
(* it; neither takes a lock.  A session keeps the number of its socket in  *)
(* sock: 0 before im_connect_to() and after im_disconnect(), -1 after      *)
(* recv() saw the end of the connection.  The kernel gives the number of a *)
(* closed socket to the next one.  im_poll() and sending look at sock      *)
(* under the session's mutex, im_connect_to() and im_disconnect() do not.  *)
(*                                                                         *)
(* Only a negative sock is refused: a disconnected session works on        *)
(* descriptor 0.  What is read and sent is the subject of PacketIO,        *)
(* TcpRecv and TcpSend.                                                    *)
(***************************************************************************)
EXTENDS Integers

CONSTANTS
    Threads,     \* the threads of the application
    MaxHandle,   \* IM_SESS_MAX - 1
    Blocks,      \* the memory for sessions
    MaxFd,       \* descriptors up to this number; 0 is the standard input
    Null,        \* the null pointer, no thread
    InitsApart,  \* two calls of ImInit() do not look for a slot at once
    Joined,      \* no thread is in a call with a handle while another one
                 \* connects, disconnects or releases it
    Tidy         \* a session is disconnected before it is connected again or
                 \* released

ASSUME SessionAssumption ==
    /\ MaxHandle \in Nat
    /\ MaxFd \in Nat \ {0}
    /\ Null \notin Threads /\ Null \notin Blocks
    /\ InitsApart \in BOOLEAN /\ Joined \in BOOLEAN /\ Tidy \in BOOLEAN

VARIABLES
    pool,    \* sess_pool[]
    heap,    \* the allocated blocks
    app,     \* app[h]: what the application did with h: "none", "idle" (not
             \* connected) or "used"
    lost,    \* the slots at which im_client_init() failed
    sock,    \* sock[b]: tcp_channel.sock of the session in b
    mutex,   \* mutex[b]: the holder of mutex_sock_send
    owner,   \* owner[f]: the session socket f was opened for
    peer,    \* peer[f]: the connection: "none", "up" or "gone"
    data,    \* data[f]: there is something to read
    pc,      \* pc[t]: where t is inside a call
    handle,  \* handle[t]: the handle of the call, or the slot looked at
    sess,    \* sess[t]: its session
    fd,      \* fd[t]: the descriptor handed to poll(), recv() or send()
    failed   \* failed[t]: t's last call has failed, and t is in no other

slots == <<pool, heap, app, lost>>
session == <<sock, mutex>>
kernel == <<owner, peer, data>>
local == <<pc, handle, sess, fd>>
vars == <<slots, session, kernel, local, failed>>

Handles == 0..MaxHandle
Fds == 1..MaxFd

InitStages == {"scan", "alloc", "lookup", "init"}
IoStages == {"poll", "wait", "seen", "recv", "closing", "closed", "send", "sending"}
SoleStages == {"open", "connect", "close1", "reset1", "close2", "reset2", "done",
               "free", "clear"}

TypeOK ==
    /\ pool \in [Handles -> Blocks \union {Null}]
    /\ heap \subseteq Blocks
    /\ app \in [Handles -> {"none", "idle", "used"}]
    /\ lost \subseteq Handles
    /\ sock \in [Blocks -> -1..MaxFd]
    /\ mutex \in [Blocks -> Threads \union {Null}]
    /\ owner \in [Fds -> Blocks \union {Null}]
    /\ peer \in [Fds -> {"none", "up", "gone"}]
    /\ data \in [Fds -> BOOLEAN]
    /\ pc \in [Threads -> {"out"} \union InitStages \union IoStages \union SoleStages]
    /\ handle \in [Threads -> Handles]
    /\ sess \in [Threads -> Blocks \union {Null}]
    /\ fd \in [Threads -> -1..MaxFd]
    /\ failed \in [Threads -> BOOLEAN]

Init ==
    /\ pool = [h \in Handles |-> Null]
    /\ heap = {}
    /\ app = [h \in Handles |-> "none"]
    /\ lost = {}
    /\ sock = [b \in Blocks |-> 0]
    /\ mutex = [b \in Blocks |-> Null]
    /\ owner = [f \in Fds |-> Null]
    /\ peer = [f \in Fds |-> "none"]
    /\ data = [f \in Fds |-> FALSE]
    /\ pc = [t \in Threads |-> "out"]
    /\ handle = [t \in Threads |-> 0]
    /\ sess = [t \in Threads |-> Null]
    /\ fd = [t \in Threads |-> 0]
    /\ failed = [t \in Threads |-> FALSE]

Goto(t, stage) == pc' = [pc EXCEPT ![t] = stage]

Leave(t) ==
    /\ Goto(t, "out")
    /\ handle' = [handle EXCEPT ![t] = 0]
    /\ sess' = [sess EXCEPT ![t] = Null]
    /\ fd' = [fd EXCEPT ![t] = 0]

Return(t) == Leave(t) /\ UNCHANGED failed
Fail(t) == Leave(t) /\ failed' = [failed EXCEPT ![t] = TRUE]

-----------------------------------------------------------------------------
(* ImInit()                                                                *)

CallInit(t) ==
    /\ pc[t] = "out"
    /\ InitsApart => \A u \in Threads : pc[u] \notin {"scan", "alloc", "lookup"}
    /\ Goto(t, "scan")
    /\ failed' = [failed EXCEPT ![t] = FALSE]
    /\ UNCHANGED <<slots, session, kernel, handle, sess, fd>>

\* Mutant: a slot is free if the application does not use it, the one a failed
\* call has left behind included.
FreeOfUse(h) == app[h] = "none"

FreeSlot(h) == pool[h] = Null

SkipSlot(t) ==
    /\ pc[t] = "scan"
    /\ ~FreeSlot(handle[t])
    /\ \/ handle[t] = MaxHandle /\ Fail(t)
       \/ /\ handle[t] < MaxHandle
          /\ handle' = [handle EXCEPT ![t] = @ + 1]
          /\ UNCHANGED <<pc, sess, fd, failed>>
    /\ UNCHANGED <<slots, session, kernel>>

TakeSlot(t) ==
    /\ pc[t] = "scan"
    /\ FreeSlot(handle[t])
    /\ Goto(t, "alloc")
    /\ UNCHANGED <<slots, session, kernel, handle, sess, fd, failed>>

\* malloc() may fail, and the slot stays free.
Malloc(t) ==
    /\ pc[t] = "alloc"
    /\ Goto(t, "lookup")
    /\ \/ \E b \in Blocks \ heap :
             /\ heap' = heap \union {b}
             /\ pool' = [pool EXCEPT ![handle[t]] = b]
       \/ /\ pool' = [pool EXCEPT ![handle[t]] = Null]
          /\ UNCHANGED heap
    /\ UNCHANGED <<app, lost, session, kernel, handle, sess, fd, failed>>

\* sesspool_sess()
LookUp(t) ==
    /\ pc[t] = "lookup"
    /\ \/ pool[handle[t]] = Null /\ Fail(t)
       \/ /\ pool[handle[t]] # Null
          /\ sess' = [sess EXCEPT ![t] = pool[handle[t]]]
          /\ Goto(t, "init")
          /\ UNCHANGED <<handle, fd, failed>>
    /\ UNCHANGED <<slots, session, kernel>>

\* im_client_init().  When it fails ImInit() returns -1 and leaves the slot as
\* it is.
ClientInit(t) ==
    /\ pc[t] = "init"
    /\ sock' = [sock EXCEPT ![sess[t]] = 0]
    /\ mutex' = [mutex EXCEPT ![sess[t]] = Null]
    /\ \/ /\ app' = [app EXCEPT ![handle[t]] = "idle"]
          /\ Return(t)
          /\ UNCHANGED lost
       \/ /\ lost' = lost \union {handle[t]}
          /\ Fail(t)
          /\ UNCHANGED app
    /\ UNCHANGED <<pool, heap, kernel>>

-----------------------------------------------------------------------------
(* The other calls of the application                                      *)

InCallWith(u, h) == pc[u] \in IoStages \union SoleStages /\ handle[u] = h

Alone(h) == Joined => \A u \in Threads : ~InCallWith(u, h)

NobodySole(h) ==
    Joined => \A u \in Threads : InCallWith(u, h) => pc[u] \in IoStages

Enter(t, h, stage) ==
    /\ pc[t] = "out"
    /\ app[h] # "none"
    /\ pool[h] # Null
    /\ Goto(t, stage)
    /\ handle' = [handle EXCEPT ![t] = h]
    /\ sess' = [sess EXCEPT ![t] = pool[h]]
    /\ failed' = [failed EXCEPT ![t] = FALSE]
    /\ UNCHANGED <<pool, heap, lost, session, kernel, fd>>

CallConnect(t, h) ==
    /\ Enter(t, h, "open")
    /\ Alone(h)
    /\ Tidy => app[h] = "idle"
    /\ app' = [app EXCEPT ![h] = "used"]

CallPoll(t, h) ==
    Enter(t, h, "poll") /\ NobodySole(h) /\ UNCHANGED app

CallSend(t, h) ==
    Enter(t, h, "send") /\ NobodySole(h) /\ UNCHANGED app

CallDisconnect(t, h) ==
    Enter(t, h, "close1") /\ Alone(h) /\ UNCHANGED app

CallRelease(t, h) ==
    /\ Enter(t, h, "free")
    /\ Alone(h)
    /\ Tidy => app[h] = "idle"
    /\ app' = [app EXCEPT ![h] = "none"]

-----------------------------------------------------------------------------
(* im_connect_to()                                                         *)

\* socket() takes the lowest number, or fails.
OpenSocket(t) ==
    /\ pc[t] = "open"
    /\ \/ \E f \in Fds :
             /\ owner[f] = Null
             /\ \A g \in Fds : g < f => owner[g] # Null
             /\ owner' = [owner EXCEPT ![f] = sess[t]]
             /\ sock' = [sock EXCEPT ![sess[t]] = f]
             /\ Goto(t, "connect")
             /\ UNCHANGED <<handle, sess, fd, failed>>
       \/ /\ sock' = [sock EXCEPT ![sess[t]] = -1]
          /\ Fail(t)
          /\ UNCHANGED owner
    /\ UNCHANGED <<slots, mutex, peer, data>>

\* Mutant: a socket that could not be connected is forgotten.
DropSocket(b) == sock' = [sock EXCEPT ![b] = 0]

\* The socket stays when it cannot be connected.
KeepSocket(b) == UNCHANGED sock

Connect(t) ==
    /\ pc[t] = "connect"
    /\ \/ \E f \in Fds :
             /\ sock[sess[t]] = f
             /\ owner[f] # Null /\ peer[f] = "none"
             /\ peer' = [peer EXCEPT ![f] = "up"]
             /\ Return(t)
             /\ UNCHANGED sock
       \/ Fail(t) /\ KeepSocket(sess[t]) /\ UNCHANGED peer
    /\ UNCHANGED <<slots, mutex, owner, data>>

-----------------------------------------------------------------------------
(* im_poll(), and sending                                                  *)

Lock(t, stage) ==
    /\ mutex[sess[t]] = Null
    /\ mutex' = [mutex EXCEPT ![sess[t]] = t]
    /\ fd' = [fd EXCEPT ![t] = sock[sess[t]]]
    /\ Goto(t, stage)
    /\ UNCHANGED <<slots, sock, kernel, handle, sess, failed>>

Unlock(t) == mutex' = [mutex EXCEPT ![sess[t]] = Null]

LockWait(t) == pc[t] = "poll" /\ sock[sess[t]] >= 0 /\ Lock(t, "wait")
LockSend(t) == pc[t] = "send" /\ sock[sess[t]] >= 0 /\ Lock(t, "sending")

\* recv() is called on any number.
LockRecv(t) == pc[t] = "seen" /\ Lock(t, "recv")

NoSocket(t) ==
    /\ pc[t] \in {"poll", "send"}
    /\ mutex[sess[t]] = Null
    /\ sock[sess[t]] < 0
    /\ Fail(t)
    /\ UNCHANGED <<slots, session, kernel>>

\* What poll() and recv() find at a descriptor.
Quiet(f) ==
    \/ f = 0
    \/ f \in Fds /\ owner[f] # Null /\ peer[f] = "up" /\ ~data[f]
Readable(f) == f \in Fds /\ owner[f] # Null /\ data[f]
HungUp(f) == f \in Fds /\ owner[f] # Null /\ peer[f] = "gone" /\ ~data[f]

\* poll() also returns for what recv() will fail on: a closed or an
\* unconnected socket, input at descriptor 0.
Ready(f) ==
    \/ f = 0
    \/ Readable(f)
    \/ f \in Fds /\ (owner[f] = Null \/ peer[f] = "none")

\* Mutant: no look for the end of the connection.
NoPeek(f) == FALSE

\* recv() with MSG_PEEK returns 0.
Peek(f) == HungUp(f)

Wait(t) ==
    /\ pc[t] = "wait"
    /\ Unlock(t)
    /\ \/ /\ Quiet(fd[t]) \/ (HungUp(fd[t]) /\ ~Peek(fd[t]))
          /\ Return(t)
       \/ Ready(fd[t]) /\ Goto(t, "seen") /\ UNCHANGED <<handle, sess, fd, failed>>
       \/ Peek(fd[t]) /\ Fail(t)
    /\ UNCHANGED <<slots, sock, kernel>>

Recv(t) ==
    /\ pc[t] = "recv"
    /\ \/ /\ Readable(fd[t])
          /\ data' = [data EXCEPT ![fd[t]] = FALSE]
          /\ Unlock(t)
          /\ Goto(t, "poll")
          /\ UNCHANGED <<handle, sess, fd, failed>>
       \/ /\ HungUp(fd[t])
          /\ Goto(t, "closing")
          /\ UNCHANGED <<mutex, data, handle, sess, fd, failed>>
       \/ /\ ~Readable(fd[t]) /\ ~HungUp(fd[t])
          /\ Unlock(t)
          /\ Fail(t)
          /\ UNCHANGED data
    /\ UNCHANGED <<slots, sock, owner, peer>>

SendBuffer(t) ==
    /\ pc[t] = "sending"
    /\ Unlock(t)
    /\ \/ Return(t)
       \/ Fail(t)
    /\ UNCHANGED <<slots, sock, kernel>>

Close(f) ==
    /\ owner' = [owner EXCEPT ![f] = Null]
    /\ peer' = [peer EXCEPT ![f] = "none"]
    /\ data' = [data EXCEPT ![f] = FALSE]

\* recv() has returned 0: the socket is closed ...
CloseBroken(t) ==
    /\ pc[t] = "closing"
    /\ sock[sess[t]] \in Fds
    /\ Close(sock[sess[t]])
    /\ Goto(t, "closed")
    /\ UNCHANGED <<slots, session, handle, sess, fd, failed>>

\* ... and its number forgotten.
ForgetBroken(t) ==
    /\ pc[t] = "closed"
    /\ sock' = [sock EXCEPT ![sess[t]] = -1]
    /\ Unlock(t)
    /\ Fail(t)
    /\ UNCHANGED <<slots, kernel>>

-----------------------------------------------------------------------------
(* im_disconnect(): net_tcp_disconnect() and net_tcp_close_socket(), which  *)
(* do the same.                                                            *)

Closed(stage) == IF stage = "close1" THEN "reset1" ELSE "reset2"
Then(stage) == IF stage \in {"close1", "reset1"} THEN "close2" ELSE "done"

CloseSocket(t) ==
    /\ pc[t] \in {"close1", "close2"}
    /\ sock[sess[t]] > 0
    /\ Close(sock[sess[t]])
    /\ Goto(t, Closed(pc[t]))
    /\ UNCHANGED <<slots, session, handle, sess, fd, failed>>

SkipClose(t) ==
    /\ pc[t] \in {"close1", "close2"}
    /\ sock[sess[t]] <= 0
    /\ Goto(t, Then(pc[t]))
    /\ UNCHANGED <<slots, session, kernel, handle, sess, fd, failed>>

\* Mutant: the number stays.
KeepNumber(b) == sock[b]

NumberAfter(b) == 0

ResetSock(t) ==
    /\ pc[t] \in {"reset1", "reset2"}
    /\ sock' = [sock EXCEPT ![sess[t]] = NumberAfter(sess[t])]
    /\ Goto(t, Then(pc[t]))
    /\ UNCHANGED <<slots, mutex, kernel, handle, sess, fd, failed>>

Disconnected(t) ==
    /\ pc[t] = "done"
    /\ app' = [app EXCEPT ![handle[t]] = "idle"]
    /\ Return(t)
    /\ UNCHANGED <<pool, heap, lost, session, kernel>>

-----------------------------------------------------------------------------
(* ImRelease()                                                             *)

Free(t) ==
    /\ pc[t] = "free"
    /\ heap' = heap \ {sess[t]}
    /\ Goto(t, "clear")
    /\ UNCHANGED <<pool, app, lost, session, kernel, handle, sess, fd, failed>>

\* Mutant: the slot is left as it is.
KeepSlot(h) == pool[h]

EmptySlot(h) == Null

ClearSlot(t) ==
    /\ pc[t] = "clear"
    /\ pool' = [pool EXCEPT ![handle[t]] = EmptySlot(handle[t])]
    /\ Return(t)
    /\ UNCHANGED <<heap, app, lost, session, kernel>>

-----------------------------------------------------------------------------
(* The server                                                              *)

Serve(f) ==
    /\ peer[f] = "up" /\ owner[f] # Null
    /\ data' = [data EXCEPT ![f] = TRUE]
    /\ UNCHANGED <<slots, session, owner, peer, local, failed>>

HangUp(f) ==
    /\ peer[f] = "up" /\ owner[f] # Null
    /\ peer' = [peer EXCEPT ![f] = "gone"]
    /\ UNCHANGED <<slots, session, owner, data, local, failed>>

Rest == (\A t \in Threads : pc[t] = "out") /\ UNCHANGED vars

-----------------------------------------------------------------------------
InitStep(t) ==
    \/ SkipSlot(t) \/ TakeSlot(t) \/ Malloc(t) \/ LookUp(t) \/ ClientInit(t)

ConnectStep(t) == OpenSocket(t) \/ Connect(t)

IoStep(t) ==
    \/ LockWait(t) \/ LockSend(t) \/ LockRecv(t) \/ NoSocket(t)
    \/ Wait(t) \/ Recv(t) \/ SendBuffer(t) \/ CloseBroken(t) \/ ForgetBroken(t)

DisconnectStep(t) ==
    \/ CloseSocket(t) \/ SkipClose(t) \/ ResetSock(t) \/ Disconnected(t)

ReleaseStep(t) == Free(t) \/ ClearSlot(t)

Step(t) ==
    \/ InitStep(t) \/ ConnectStep(t) \/ IoStep(t) \/ DisconnectStep(t)
    \/ ReleaseStep(t)

Call(t) ==
    \/ CallInit(t)
    \/ \E h \in Handles :
          \/ CallConnect(t, h) \/ CallPoll(t, h) \/ CallSend(t, h)
          \/ CallDisconnect(t, h) \/ CallRelease(t, h)

Next ==
    \/ \E t \in Threads : Call(t) \/ Step(t)
    \/ \E f \in Fds : Serve(f) \/ HangUp(f)
    \/ Rest

Spec == Init /\ [][Next]_vars

\* Calls go on, and a thread that waits for a mutex gets it sooner or later.
FairSpec == Spec /\ \A t \in Threads : SF_vars(Step(t))

-----------------------------------------------------------------------------
(* Properties                                                              *)

\* The application's sessions are apart: each handle it holds leads to an
\* allocated session no other handle leads to, and ImInit() never works on the
\* slot of a handle in use.
OneSessionEach ==
    /\ \A h \in Handles : app[h] # "none" =>
          /\ pool[h] \in heap
          /\ \A g \in Handles : app[g] # "none" /\ pool[g] = pool[h] => g = h
    /\ \A t \in Threads : pc[t] \in {"alloc", "lookup", "init"} =>
          /\ app[handle[t]] = "none"
          /\ \A u \in Threads :
                pc[u] \in {"alloc", "lookup", "init"} /\ handle[u] = handle[t] => u = t

\* Every slot can be had again, except those at which im_client_init() failed:
\* a taken slot has a handle in use, or a call is working on it.
SlotsComeBack ==
    \A h \in Handles :
        pool[h] # Null =>
            \/ app[h] # "none" \/ h \in lost
            \/ \E t \in Threads : handle[t] = h /\ pc[t] \in {"lookup", "init", "free", "clear"}

\* No thread polls, reads, writes, connects or closes a socket of another
\* session, although numbers are used again as soon as they are free.
OwnSocketOnly ==
    \A t \in Threads :
        /\ pc[t] \in {"wait", "recv", "sending"} /\ fd[t] \in Fds =>
              owner[fd[t]] = sess[t]
        /\ pc[t] \in {"connect", "closing", "close1", "close2"} /\ sock[sess[t]] \in Fds =>
              owner[sock[sess[t]]] = sess[t]

\* No socket is left open that no session in use knows.
NoSocketLost ==
    \A f \in Fds : owner[f] # Null =>
        /\ sock[owner[f]] = f
        /\ \E h \in Handles : app[h] = "used" /\ pool[h] = owner[f]

Polls(t) == pc[t] \in {"poll", "wait", "seen", "recv", "closing", "closed"}

\* im_poll() fails on a connection the server has hung up, whatever was still
\* to be read and whoever reads it.
HangUpNoticed ==
    \A t \in Threads :
        Polls(t) /\ sock[sess[t]] \in Fds /\ peer[sock[sess[t]]] = "gone"
            ~> pc[t] = "out" /\ failed[t]
=============================================================================
