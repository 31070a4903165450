# A TLA+ verification of the IoTMakers device SDK

The IoTMakers SDK is a C client library.  A device opens one session with the
IoTMakers server (TCP, TLS, UDP, MQTT or HTTP), authenticates, sends
notifications of its resources (message 411) and answers the server's control
(525) and retrieve (711) requests.  The library has no thread of its own: the
application calls `im_resource_notification_send()` and `im_poll()`, from one
thread or from several (`samples/simple_app`, `samples/hello_pthread`).

This directory holds TLA+ modules for the parts where threads, the network and
the library's own bookkeeping meet, TLC runs over small instances of them and
TLAPS proofs of what matters most.  `PROJECT.json` maps every definition to the
lines of code it stands for, and lists the runs, hazards, findings and
theorems.  All paths below are relative to `src/project`.

## 1. Inventory

| component | state | operations | interacts with |
|---|---|---|---|
| client session (`src/client/client.c`, `client.h`) | `response_wait_sw`, counters, timestamps, handlers, tokens | `im_client_init`, `im_connect`, `im_auth_*`, `im_poll`, `im_transact_packet_with_response_handler`, `packet_handler`, `im_disconnect`, `im_client_release` | packet I/O, codec, application callbacks |
| device API (`api_device.c`) | the thread's notification packet | `im_resource_notification_init/append/send`, the 525 and 711 handlers, the circuit breaker | packet pool, transactions, callbacks |
| system API (`api_system.c`) | the same | the same, for gateways | the same |
| packet pool (`client.c:28-122`) | 64 slots: thread id, packet | find by id, claim, release (no caller) | device and system API |
| packet I/O (`packet_io.c`) | `send_buff`, `recv_buff`, `packet_count_in/out` | `im_conn_send_packet`, `im_conn_recv_packet` | codec, mutex, netio |
| mutex (`util/thread.c`) | `mutex_sock_send` | lock, unlock | packet I/O, `im_poll`, transactions |
| netio (`deps/netio/netio.c`) | `head_len_bytes`, channel type | connect, send, receive, available | one transport |
| TCP (`tcp_io.c`, `fd_util.c`) | `sock` | connect, disconnect, send loop, receive by prefix or at once, wait and peek | kernel |
| TLS, UDP | library session; `sock` | the same interface | OpenSSL or mbedTLS; kernel |
| MQTT, HTTP (`mqtt_io.c`, `http_io.c`) | one static mailbox each | publish or request, callback fills the mailbox | paho, http client |
| keepalive (`client.c:442-460`) | timestamp, counter, copy of the counter | a step of `im_poll` | packet I/O, clock |
| circuit breaker (`api_device.c:41-56`) | timestamp | a wait before each notification | clock |
| ids (`util.c:88`, `head.c`, `head_ext.c`) | static counter | a number from clock and counter | every request |
| codec (`src/packet`) | JSON trees, head fields | initialise, serialise, deserialise, release | everything above |
| bindings (`dynamic-library`, `java-jni`, `python-pni`) | pool of 128 sessions | allocate, release, forward | client session |
| vendored (`deps/parson`, paho, cipher, http-client-c) | | | |

How they interact: a notifying thread finds its packet in the pool, fills it,
and passes it to a transaction.  The transaction serialises it into the
session's send buffer, locks the mutex, sends, unlocks; if it waits for the
answer it locks, polls the socket for 3 s, unlocks, locks, reads, unlocks and
decodes.  A message that is not its answer is dispatched on the spot, so an
application callback may run inside `im_resource_notification_send()`.
`im_poll()` does the same with a wait of 1 ms until nothing is left.

What is hard, and what would make each part correct:

- *packet I/O*: serialisation precedes the lock and decoding follows the
  unlock.  Correct: a frame is one packet; messages come out whole, once and in
  order; the mutex is always released; the counter counts only what was sent.
- *transactions and dispatch*: late answers, answers to others, requests in
  between, two threads reading one connection.  Correct: success is reported
  only for an acknowledged notification; callbacks run once, in order, with
  their own body and after the Response; `im_poll()` fails only with the
  connection or for a signal in its own wait; every call returns; every message
  is read.
- *keepalive*: a counter that other threads increment, copied into a narrower
  type.  Correct: silence is bounded.
- *packet pool*: search and claim without a lock, calls in any order and after
  failures.  Correct: packets are private; a notification carries its own
  resources.
- *TCP*: pieces, joins, errors in the middle that pass or do not.  Correct: what
  is reported as sent is on the stream in one piece; what is handed up is one
  message.
- *circuit breaker*, *ids*: unlocked numbers and a clock that may be set back.
  Correct: notifications keep their pace; waits are bounded; ids grow.
- *MQTT mailbox*: filled by the library's thread, read and cleared by
  `im_poll()`, without a common lock.  Correct: messages come out whole, once
  and in order; what was seen is there when it is read.
- *handles, sessions, sockets*: slots taken and freed without a lock, sockets
  closed and their numbers forgotten in two steps while the kernel reuses them.
  Correct: sessions and sockets stay apart; slots and sockets come back; a
  hang-up ends `im_poll()`.
- *codec*: lengths that are not checked, JSON trees with owners.

Every such place is a row of `hazards`, with the properties that cover it or a
note saying why none does.

## 2. Modules

| module | models | composes |
|---|---|---|
| `FrameChannel` | what `packet_io.c` promises: packets out and messages in, whole and in order | |
| `PacketIO` | `im_conn_send_packet`, the waits, `im_conn_recv_packet`, mutex, whole-frame socket | implements `FrameChannel` |
| `ImClient` | notification, transaction, `im_poll`, dispatch, 525 and 711 handlers, a server | extends `PacketIO` |
| `KeepAlive` | the keepalive decision, with clock and integer widths | |
| `Notification` | pool slots and init, append, send by many threads | |
| `TcpSend` | `net_tcp_send_buffer`, byte by byte, with `size_t` arithmetic | implements `FrameChannel` (sending) |
| `TcpRecv` | `net_tcp_recv_buffer` and the three functions below it, byte by byte | implements `FrameChannel` (receiving) |
| `NotifyPace` | the circuit breaker and `im_util_get_unique_number`, with a clock that may be set back | |
| `Mailbox` | the receiving side of `mqtt_io.c` between the library's thread and `im_poll` | implements `FrameChannel` (receiving) |
| `Session` | handles of the bindings, sessions, sockets: init, connect, poll, send, disconnect, release | |
| `MC*` | instances of the above for TLC | |
| `*_proofs` | theorems | |

**PacketIO.**  `io[t]` is the point thread `t` has reached in a packet-layer
call, or the result of its last one; `mutex` its holder.  Each buffer has two
regions, head and body, and each region is written or read in a step of its
own, since that is where another thread can come between.  A packet is a
value.  The steps: `BeginSend`, `SerializeBody` (no lock), `LockSend`,
`NetioSend`, `FinishSend` (compares the result with the length the buffer has
*now*, counts, unlocks); `BeginWait`, `LockWait`, `FinishWait`; `BeginRecv`,
`LockRecv`, `NetioRecv` (unlocks), `DecodeHead`, `DecodeBody` (no lock).  `wire`,
`pushed` and `decoded` are histories.  `FinishWait` has every outcome of the
wait: data, timeout, the end of the connection, and a `poll()` that fails on a
healthy one, as it does when a signal interrupts it (`fd_util.c:84-88`).

A frame is sent as a whole or not at all, and later frames may follow one that
failed.  `TcpSend` shows when that is right: as long as no error strikes in the
middle of a frame (`ChannelUntilMarred`).  From then on the server may see half a
frame or bytes twice, and `PacketIO` says nothing of what it makes of them.  In
the same way a message is there as a whole, as `TcpRecv` shows until something
goes wrong (`ChannelUntilTrouble`).

**FrameChannel.**  `Progress(t)` and the heads of `wire` and `decoded` are the
refinement mapping of `PacketIO`: a packet is out when the socket accepts it, a
message is delivered when it is decoded.  In `TcpSend` it is out with the last
byte of its frame; in `TcpRecv` it is delivered when the call returns, and in
`Mailbox` when the mailbox is cleared.

**ImClient.**  `ctl[t]` is the point in the API call and `op[t]` the call; an
action that needs the connection is a conjunction with a `Begin...` action of
`PacketIO`.  The keepalive's timer may run out at any `im_poll()`.  The server
answers, refuses, stays silent, asks, hangs up.  Client ids go up from 1 and
server ids down from -1, so they never coincide; 0 is a missing id.

**KeepAlive.**  `Poll` looks at the timer, `Decide` compares, `Keepalive` and
`Answer` are the transaction, `Record` copies; `OtherSend` may come between any two
of them.  The counter is taken modulo `CountLimit` and its copy is an int of
`2 * CopyLimit` values.  The clock does not jump: a step of the system clock
moves the timer by as much, and nothing in the code prevents that.

**Notification.**  Every call looks up its slot again: `FindOwn`, or
`FindFree` and, as another step, `Claim`, or `NoSlot`.  Nothing keeps first calls
apart; `met` remembers which threads have seen one slot free together.  The three
calls may come in any order and go on after a failure: an append to a packet that
is not prepared returns 0 and is lost, one whose properties are not JSON releases
the packet (`SpoilAppend`), one with invalid arguments returns before the lookup
and changes nothing, and a send serialises and releases whatever is there.
`open` and `appended` remember what a thread may expect of its packet.

**TcpSend.**  `bytesSent` is modulo `SizeLimit`; an error adds `SizeLimit - 1`
(`FailSend`).  An error passes (write timeout, signal) or is the end of the
connection; the code cannot tell.  `marred` remembers the frames in whose middle
one struck.  The process is assumed to survive a send to a closed connection: the
library does not ignore SIGPIPE, so that is up to the application.

**TcpRecv.**  The stream is a sequence of bytes, each with its message and
position; `recv()` takes any number of those asked for.  `AuthAnswer` says how
the authentication answer, read before the length prefix is switched on,
arrives: alone and whole, or cut or joined with the next message.  `RestComes`
says that a message begun is completed in time.  `trouble` remembers that one of
the two failed: from then on the position in the stream may be lost for good,
and lengths are misread.

**NotifyPace.**  One tick is a fraction of a second.  `ReadClock`, `ReadCounter`
and `StoreCounter` are `im_util_get_unique_number()`; `Sleep`, `Wake`, `Pass`,
`ReadStamp` and `StoreStamp` the breaker; `Send` stands for the transaction,
before which any time may pass.  `Tick` and `SetBack` are the clock.  The calls
of all threads may overlap; `apart` remembers whether draws, or sends, ever have,
and `overtaken` how many timestamps others have stored while a thread waits in the
breaker.

**Mailbox.**  `WritePiece` and `WriteLength` are the two statements of the
callback, `ReadPiece`, `ReadLength` and `Clear` those of
`net_mqtt_recv_buffer()`; a payload is copied in pieces, since the other
thread may come between any two bytes.  `apart` says that the server sends the
next message only when the last one was read, as a server does that waits for
answers; the run has both cases.

**Session.**  `pool`, `heap` and `app` are the handles, `sock` the descriptor a
session believes it has, `owner`, `peer` and `data` what the kernel knows of
it.  `ImInit()` is five steps (`SkipSlot`, `TakeSlot`, `Malloc`, `LookUp`,
`ClientInit`), every close two, `ImRelease()` two.  A fresh descriptor is the
lowest free one, so that a number comes back at once.  Three constants are what
an application has to keep to: `InitsApart`, `Joined` (a thread that connects,
disconnects or releases a session is alone with it) and `Tidy` (disconnect
before the next connect or the release).  Handles that were never given out,
and calls on released ones, are refused by `sesspool_sess()` and left out.

### Plan

Written, in this order: `PacketIO`, `FrameChannel`, `ImClient`, `KeepAlive`,
`Notification`, `TcpSend`, `TcpRecv`, `NotifyPace`, `Mailbox`, `Session`, and the
theorems of section 5.  What would come next:

1. `Codec`: failed serialisation, lengths at the limit of the buffer, ownership
   and release of the JSON trees.
2. The assumption of `ImClient` on ids as a refinement of `NotifyPace`, and the
   authentication as two transactions of `ImClient`.
3. Theorems: what is left of `FrameChannel` over the racing calls of several
   receivers.

## 3. Runs

| run | expected | what it shows |
|---|---|---|
| `PacketIO_one_each` | pass | one sender, one receiver: packets stay whole and `FrameChannel` is implemented, late lock and early unlock included; socket calls exclude each other, the counter is never ahead, the mutex is released again and again |
| `PacketIO_two_senders` | violation | a frame with the head of one packet and the body of another |
| `ImClient_serial` | pass | the samples' one thread, answers waited for: no false success, control protocol, callbacks once and in order, `im_poll()` fails only with the connection or for a signal in its own wait, calls return, messages are read |
| `ImClient_nowait` | pass | a notifying and a polling thread, answers not waited for |
| `ImClient_collision` | violation | with answers waited for, the polling thread fails on a healthy connection |
| `TcpIO_both` | pass | sending: a frame reported as sent is whole unless an error struck in its middle, has no gap even then, only a frame whose call failed stays half, the loop is the sending half of `FrameChannel` until an error strikes in the middle of a frame, every call returns.  Receiving: until something goes wrong the steps of `FrameChannel`, whole messages, in order, all of them, however cut; always: no byte twice, every call returns |
| `TcpSend_timeout` | violation | an error that passes leaves a byte twice in a frame reported as sent |
| `ClientParts_all` | pass | pool: a packet is shared only by threads that saw its slot free together, everybody else sends exactly its own resources.  Pace: sleeps are bounded whatever overlaps; n + 1 notifications take n - 1 seconds while sends do not overlap; ids repeat only after a setback while draws do not overlap.  Keepalive: silence at most two periods, at most one when answers are not waited for, counter and copy wrapping as with a long of 32 bits |
| `Notification_race` | violation | two first calls claim one slot and share its packet |
| `KeepAlive_long64` | violation | with a long of 64 bits the keepalive ends once the counter has left the range of an int |
| `Mailbox_reader` | pass | messages that do not overlap are read whole, in order, all of them; `im_poll()` never finds an emptied mailbox, whatever overlaps |
| `Session_tidy` | pass | handles and sockets stay apart and come back, with every call that may fail failing; a hang-up is noticed |

`TcpIO_both` and `ClientParts_all` each instantiate modules that share no state
and are never at work at once as far as their properties can tell: in
`MCTcpIO` and `MCClientParts` one of them moves while the others rest at their
beginning.  Each part keeps all of its behaviours, and no property relates two.

Each run answers questions of its own.  Others are one edit of a `.cfg` away
and were asked while the modules were written:

- `TcpIO_both` with `WholeMessagesInOrder`: violated.  A body that does not
  come is reported as a packet of three bytes (`tcp_io.c:467-471`).
- `ClientParts_all` without `"draw" \in apart` or without `"send" \in apart`:
  `IdsRepeatOnlyAfterSetback` and `PacedOnAverage` are violated.  Two threads that
  overlap draw one id or lose an increment, and pass the breaker in one second,
  although `client.h:46` speaks of one notification per second.
- `SleepsBounded` with `overtaken` counted once in the place of twice: violated,
  when `NotifyPace` runs for 9 ticks.  A setback that had cost a sleep already
  is paid for with another when a new timestamp is stored behind it.
- `Mailbox_reader` with two readers: `NeverEmptyHanded` is violated, the same
  collision as `ImClient_collision`, and so is `ReadWholeInOrder`: a reader that
  saw the message the other one takes copies old bytes and then the length of
  the next message.  With one reader but without `apart =>`, `ReadWholeInOrder` is:
  a message is lost, read twice, or the front of one is followed by the end of
  another.
- `Session_tidy` with `InitsApart = FALSE`: `OneSessionEach` is violated (two
  handles, one session); with `Joined = FALSE`: `OneSessionEach`,
  `OwnSocketOnly` and `NoSocketLost` (a session freed under `im_poll()`, a socket
  of another session closed); with `Tidy = FALSE`: `NoSocketLost`.

- `PacketIO` with two receivers and `DecodedInOrder`: one message is decoded
  twice and one lost.
- `ImClient_serial` with `NoAckDispatched`: the acknowledgement of a
  notification that timed out reaches `packet_handler()`, of which
  `client.c:396` says it must not.
- `ClientParts_all` with `OnePeriod` for both modes: violated.  The comment at
  `client.c:444-449` speaks of one period without a packet, the code compares
  the counter only with its value at the previous expiry.
- `TcpIO_both` with `WholeMessagesInOrder` and the rest of every message in
  time: a message right behind the authentication answer is swallowed with it.

Bounds, and why they are enough.  Two packets tell a mixed frame from a pure
one, and two threads are needed for every interleaving the code's one mutex
leaves open.  `Notification` has three threads over two slots so that claim,
reuse and exhaustion all occur.  `MaxOut`, `MaxIn`, `MaxCalls`, `MaxRequests`
and `MaxId` of `ImClient` leave room for a call that times out and its late answer
in the next one, or for two requests of the server; the run with two threads
has three messages of the server.  `MaxRounds` of `Notification` bounds the
notifications of all threads together: two, so that one thread can build a second
one in its old packet, or two threads one each.  `MaxClock` of
`KeepAlive` covers several expiries, and `CopyLimit` and `CountLimit` stand for
2^31 and 2^32 or 2^64 with the relation that matters: twice as large, or more.
Three frames of a few bytes in `TcpSend` and `TcpRecv` give every cut inside and
between prefix and body; `SizeLimit` only has to be larger than a frame, and two
errors that pass (`MaxErrors`) strike one frame twice or two frames.  A
`Rest` action stands for an application that stays outside the API, so that
being stuck *inside* a call is a deadlock that TLC reports.  `NotifyPace` has two
ticks a second, a setback of up to a whole second and an int whose limit the
clock passes.  `MaxCalls` counts the ids drawn and the notifications sent: three,
one more than the counter of the run counts, and so the least with which the pace
says anything.  `MaxOvertaken` bounds the timestamps stored while another thread
waits.  `Mailbox` has a message of one piece and
two of two, so that a short one over a long one shows.  Two threads, handles,
blocks and descriptors in `Session` are the least with which a slot, a block and
a number can each go to another session; its run has no symmetry, because of the
liveness property.

Fairness.  `IoFairness`: the steps of a thread that holds the mutex are weakly
fair, since `poll`, `send` and `recv` have timeouts (1 ms, 3 s) and the library
never blocks otherwise while holding it; who gets the mutex next is left open.
No signal has to come to end a wait (`Undisturbed`).
`ImClient`'s liveness run has one thread; its steps inside a call are weakly
fair, as is calling `im_poll()` again, the loop of the samples.  `TcpRecv` and
`TcpSend` rest on the same timeouts.  `Mailbox`: the library's thread and the
reader go on (weak), the loop of the samples.  `Session`: a thread inside a call
gets the mutex sooner or later (strong fairness of its steps).  A pthread mutex
does not promise that to a thread whose rivals take it again at once; here they
work outside of it between two holds, and on a connection that is gone, of which
the property speaks, their calls end with an error as well.  The server and the network owe nothing.

## 4. Findings

Five runs refute what CHANGES, a comment or a check in the code says; `findings` has
the lines.

- Two senders of one session (CHANGES: "Thread 지원") corrupt frames, and two first
  notifications share a packet of the pool.
- With response wait on, a polling thread beside a notifying one can fail without
  cause (CHANGES: the collision fixed).
- A `send()` that fails does not end the call, as `tcp_io.c:314` means it to, and
  when the error passes a spoiled frame is reported as sent.
- With 64-bit longs and answers waited for, a quiet session is not checked any
  more (`client.c:449`) once 2^31 packets were sent.

The list of section 3 has what the code does outside the assumptions of the
other runs.

## 5. Proofs

| theorem | assumes | says |
|---|---|---|
| `IoTypeCorrect`, `IoMutualExclusion`, `IoCountNeverAhead` | | `PacketIO`, any threads |
| `IoHoldEnds`, `ImClientHoldEnds` | | the mutex is never leaked nor taken from its holder, who is at most two steps from the unlock |
| `IoFramesIntact` | one sender | frames are single packets |
| `IoDecodedWhole`, `IoDecodedInOrder` | one receiver | messages come out whole and in order |
| `IoImplementsChannel` | one sender and one receiver | `PacketIO` implements `FrameChannel` |
| `ImClientUsesPacketIO` | | a behaviour of the client is one of `PacketIO`, any threads, calls and server |
| `ImClientMutualExclusion` | | mutual exclusion in polls, transactions and nested handlers |
| `ImClientImplementsChannel` | one thread | the client implements `FrameChannel`, handlers that send from within a receive included |
| `ImClientTypeCorrect` | | type correctness, any threads and server |
| `ImClientCallbacksOnceInOrder`, `ImClientPollFailsForCause` | one receiver | the properties of the runs beside any number of notifying threads, waits that a signal interrupts included |
| `ImClientControlProtocol` | one thread | handler after Response, Report after handler |
| `ImClientNoFalseSuccess` | one thread, response wait on | 0 only for what the server took whole and accepted |
| `KeepAliveOnePeriod` | | when answers are not waited for, silence bounded by a period, for every width |
| `KeepAliveTypeCorrect` | | type correctness, every width |
| `KeepAliveTwoPeriods` | the counter is twice as wide as its copy (32-bit longs), or fewer than 2^31 packets sent | silence bounded by two periods |
| `NotificationTypeCorrect` | | type correctness, racing first calls included |
| `NotificationSharedOnlyIfMet` | | two threads work on one packet only if both saw its slot free before either took it |
| `NotificationSentOwn` | the thread saw no slot free beside another (`Alone`, in the property) | it sends its own resources, in whatever order it calls and fails |
| `SendTypeCorrect` | | type correctness of the send loop, any errors |
| `SendWhole` | no error in the middle of that frame (`marred`, in the property) | a frame reported as sent is on the stream in one piece |
| `SendNoneBehindHalf` | | only a frame whose call failed with an error in its middle stays half |
| `SendImplementsChannel` | no error in the middle of a frame so far (in the property) | the loop over `send()` implements the sending half of `FrameChannel` |
| `SendEnds` | | at most `2 * FrameLen + 1` calls of `send()`, and two more for every error that passes |
| `RecvTypeCorrect` | | type correctness of the receive loop, whatever is lost or misread |
| `RecvBytesOnceInOrder` | | no byte is handed up twice or out of order, whatever is lost or misread |
| `RecvEnds` | | a call makes at most `HeadLen + MaxBody + 2` calls of `recv()`, whatever is lost or misread |
| `RecvWholeWithoutTrouble`, `RecvNothingLost`, `RecvChannelUntilTrouble` | nothing went wrong so far (`trouble`, in the property) | results are whole messages, in order and with none left out; every step is one of `FrameChannel` |
| `RecvImplementsChannel` | `AuthAnswer = "alone"`, `RestComes` | the receive loop implements the receiving half of `FrameChannel` |
| `MailboxTypeCorrect` | | any readers |
| `MailboxNeverEmptyHanded` | one reader | what was seen is there when it is read |
| `MailboxReadWholeInOrder`, `MailboxChannelIfApart` | one reader; messages do not overlap (`apart`, in the property) | messages are read whole, once and in turn; every step is one of `FrameChannel` |
| `PaceTypeCorrect` | | type correctness, any widths, overlapping calls included |
| `PaceSleepsBounded` | | the property of the run, for any resolution, setbacks and overlapping calls |
| `PaceIdsRepeatOnlyAfterSetback` | no two draws overlapped so far (in the property) | ids repeat only after a setback |
| `PaceKept` | no two sends overlapped so far, clock not set back (in the property) | n + 1 notifications take n - 1 seconds |
| `SessionTypeCorrect`, `SessionSlotsComeBack` | | any threads and handles, all races included |
| `SessionOneSessionEach` | `InitsApart`, `Joined` | handles lead to sessions of their own |
| `SessionOwnSocketOnly`, `SessionNoSocketLost` | `InitsApart`, `Joined`, `Tidy` | sockets stay with their sessions |

The assumptions on the constants are the named `ASSUME`s of each module, which
TLC evaluates in the runs.  The violated runs and the list of section 3 show
that the extra assumptions of the table are needed.

*Packet I/O.*  Mutual exclusion is not inductive: `TypeInv` adds that the
holder of the mutex is exactly the thread in the critical section
(`MutexHeld`), and that a thread past a write finds something in the buffer
(`Written`).  `CountInv` counts the frame of a thread between `NetioSend` and
`FinishSend`.  `SendInv` says that the one sender's packet is what the send
buffer holds, region by region as they are written; from it a frame is one
packet.  `RecvInv` accounts for every message: decoded, in the one receiver's
hands, or in the kernel's queue.  The refinement takes each step to a step of
`FrameChannel` or a stutter, using both.

*Client.*  `ClientInv` adds to `TypeInv` that the ids drawn are in range
(`Numbers`) and that the message a handler answers is still in its thread's
hands (`Held`), from which every packet made of it is in the alphabet of
`PacketIO`.  Then each step of the client is a step of the packet layer or
leaves it alone, and the theorems of `PacketIO` hold of the client.  Those that
assume one sender hold of a client with one thread, since all of its threads
send; those that assume one receiver also of several notifying threads beside
one polling thread, when answers are not waited for.

On top of it, `Sound`: with one receiver what the availability test found is
still there when it is read, and the socket is closed only after the server did
it, so that a read fails only then.  `Numbered`: the numbers of the server's
requests descend, those of its responses are the client's.  `CallbackInv`: every
callback is a decoded message, older than the one in hand that still waits for
its handler (`Called`, `Newest`).  `Fresh`: a request's number is on no other
request, sent or about to be; `Answers`: every response has its request on the
connection.  With `FramesIntact` from the layer, the message that ends a
transaction is then the answer to the request it waits for.  `ControlInv`: the
packet under way while a handler runs is the Response to the message in hand.

*Keepalive.*  `Clock` bounds the age of the timer.  `RecentNoWait`: the last
packet is at most one expiry old.  `RecentWait`: while it is older than the
timer the copy equals the counter, so that the next expiry sends; this is what
the comparison is for.  It needs a copy that can tell the counter it was made of
(`CopyIsExact`), which `KeepAlive_long64` shows to be needed.

*Notification.*  Two threads that hold one slot, marked or in hand, have met there
(`Shared`): a free slot is empty and only threads about to claim it hold it
(`FreeSlot`), so that the first step to a slot that another thread holds is the
one `met` records.  A thread that has met nobody keeps its slot (`Kept`), and
`Content` says that the packet there is its own, as `open` and `appended` have it.

*Send loop.*  `TypeInv` adds that inside the loop less than a frame is counted,
and that it is left with a whole frame or with SIZE_MAX (`Counted`).  `SendInv`:
until an error strikes the frame in its middle, the last `bytes_sent` bytes of the
stream are those of the frame, in order (`Current`); a frame is behind all
earlier ones (`Trailing`), and the end of the stream is the end of a frame or of
one that is marred and reported as failed (`TailSettled`).  An error before the
first byte ends the call with SIZE_MAX and leaves nothing.  For the refinement,
the stream is a number of whole frames and what is out of the current one
(`Aligned`), so that the last byte of a frame makes one more.  `Left` counts the
calls of `send()` that can still come and falls with each of them: a byte that is
out costs one when it is sent and one when an error counts it down, and an error
that passes costs itself and the byte it takes back.

*Receive loop.*  `TypeInv` adds how far a call is (`Reading`), from which it reads
no more than its prefix said, and that bytes belong to messages that were written
(`Written`).  `Placed` gives every message its place in the stream, counted from
the next byte under way: messages lie end to end, those delivered and the bytes
already read before it.  `WholeInv`: until something goes wrong such places
exist, the buffer holds the beginning of the next message, and `packetLen` is
its length.  A failed call then finds nothing under way and nothing read, and
with nothing under way between two calls all messages were delivered.  A message
of the server is then a push of `FrameChannel`, and what a call returns is the
next one pushed; with both causes of trouble ruled out there is none
(`NoTroubleStep`), which makes it a refinement.  `OrderInv` needs no such
condition: the bytes handed up, read and under way are in the order they were
written, however the client cuts them.  `Left` counts the bytes a call still
waits for, and one call more for the failure.  Lengths
within a prefix of the buffer's size, which `tcp_io.c:461` lets pass, are left
out by `RecvAssumption`.

*Pace.*  `OneSend` and `OneDraw`: what `apart` says of the past holds of the
threads inside a call.  `Paced`: the timestamp is late enough for all
notifications but the last, and for all of them when a thread has passed and
stored it.  `Drawn`: the i-th id is a second that the clock has shown and i - 1,
and of two such seconds the later one is earlier only by the setback.  `Slept`:
every sleep of a thread is paid for by a second since the timestamp, but for those
that a timestamp stored by another thread has made worthless, an old one as it may
be; the timestamp is never ahead of the time that has passed.

*Session.*  `HandleInv`: a slot has one worker at most, the application does not
use it meanwhile, and what is in a slot is allocated and in no other slot,
except between `free()` and the clearing of the slot.  `SocketInv`: the number a
session keeps is that of its socket, except between a `close()` and the store
behind it (`KnownOwned`); calls that hold the mutex work on that number, and
nobody opens a socket over another (`ThreadOk`).

*Mailbox.*  `Seen`: between "there is a message" and the copy nobody but the
reader sets the length to 0.  `OrderInv`, for messages that do not overlap: one
message at most is in the mailbox or on its way there (`Pending`), what was
written of it so far is its own (`Shown`), and the reader's copy agrees with the
mailbox as far as it has come (`Copied`).  The length is what keeps the two
threads apart: written last, cleared last.  A second reader breaks it, since it
clears under the first one's eyes.

Type correctness of every module is proved, so the runs do not check it again.
Every safety property that a run checks is proved as well, under the assumptions
of the table, but for `NothingLeftOut`.  Only model-checked besides: liveness.
Liveness under fairness and `ENABLED` are beyond the prover; what of it is safety is proved: `SendEnds`
and `RecvEnds` bound the length of a call, `IoHoldEnds` that of a hold of the
mutex (`HoldLeft`), `RecvNothingLost` and `InTurn` say that nothing is left
behind.  The proofs of `PacketIO` are the first part of
`ImClient_proofs`.  No module here has a RECURSIVE operator.

## 6. Not modelled

The system API repeats the device API with other paths.  TLS has the framing of
TCP over a library.  UDP keeps no state, and the client never opens it.

A build for HTTP decodes bodies only (`packet_io.c:98-106`) and leaves the head
of the answer zero, so that the handler of the first one, to the authentication,
passes a null pointer to `strcmp()` (`client.c:607-609`): behaviour is undefined
before there is a session to model.

Of MQTT, publishing and connecting are calls into paho.  Of the bindings, the
conversion of arguments and the callbacks into Java and Python are left out, and
the pools of JNI and Python repeat the one of the DLL.  Of the authentication
only its effect on the framing is modelled: it is two transactions of the form
of `ImClient`'s, before other threads start.  The codec is planned above.  JSON,
MQTT, HTTP and cipher libraries are third-party code; logging and message formats
are left out because no property depends on them.

## 7. Running

    tlc -workers 2 -config PacketIO_one_each.cfg MCPacketIO.tla
    tlapm ImClient_proofs.tla

`PROJECT.json` names the module and the expected outcome of each run, and for
each property a mutant: a definition and the wrong form of it, written next to
it in its module, under which TLC finds the property violated.
