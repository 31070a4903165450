---------------------------- MODULE FrameChannel ----------------------------
(***************************************************************************)
(* What packet_io.c promises its callers, free of buffers and locks.       *)
(*                                                                         *)
(*  - im_conn_send_packet() puts the caller's packet on the connection, in *)
(*    one piece and once, before it returns 0, and not at all when it      *)
(*    returns -1;                                                          *)
(*  - im_conn_recv_packet() hands out the server's messages one by one,    *)
(*    whole and in the order the server sent them.                         *)
(*                                                                         *)
(* PacketIO implements it as long as one thread sends and one thread       *)
(* receives; its MC runs show what happens with more.  The transports      *)
(* below it implement a half each: TcpSend the sends, TcpRecv and Mailbox  *)
(* the messages.                                                           *)
(***************************************************************************)
EXTENDS Naturals, Sequences

CONSTANTS Threads, OutPackets, InPackets, Null

VARIABLES
    call,       \* call[t]: how far t's im_conn_send_packet() has come
    arg,        \* arg[t]: the packet t is sending, Null outside a call
    outgoing,   \* the packets put on the connection, oldest first
    pushed,     \* the messages the server has sent, oldest first
    delivered   \* the messages handed to the callers, oldest first

vars == <<call, arg, outgoing, pushed, delivered>>

Init ==
    /\ call = [t \in Threads |-> "none"]
    /\ arg = [t \in Threads |-> Null]
    /\ outgoing = <<>>
    /\ pushed = <<>>
    /\ delivered = <<>>

StartSend(t, p) ==
    /\ call[t] \notin {"pending", "done"}
    /\ call' = [call EXCEPT ![t] = "pending"]
    /\ arg' = [arg EXCEPT ![t] = p]
    /\ UNCHANGED <<outgoing, pushed, delivered>>

Transmit(t) ==
    /\ call[t] = "pending"
    /\ outgoing' = Append(outgoing, arg[t])
    /\ call' = [call EXCEPT ![t] = "done"]
    /\ UNCHANGED <<arg, pushed, delivered>>

\* Only a transmitted packet is reported as sent, only an untransmitted one
\* as failed.
Finish(t) ==
    /\ \/ call[t] = "done" /\ call' = [call EXCEPT ![t] = "sent"]
       \/ call[t] = "pending" /\ call' = [call EXCEPT ![t] = "failed"]
    /\ arg' = [arg EXCEPT ![t] = Null]
    /\ UNCHANGED <<outgoing, pushed, delivered>>

\* The thread turns to something else and forgets the outcome.
Forget(t) ==
    /\ call[t] \in {"sent", "failed"}
    /\ call' = [call EXCEPT ![t] = "none"]
    /\ UNCHANGED <<arg, outgoing, pushed, delivered>>

Push(m) ==
    /\ pushed' = Append(pushed, m)
    /\ UNCHANGED <<call, arg, outgoing, delivered>>

Deliver ==
    /\ Len(delivered) < Len(pushed)
    /\ delivered' = Append(delivered, pushed[Len(delivered) + 1])
    /\ UNCHANGED <<call, arg, outgoing, pushed>>

Next ==
    \/ \E t \in Threads :
          \/ \E p \in OutPackets : StartSend(t, p)
          \/ Transmit(t)
          \/ Finish(t)
          \/ Forget(t)
    \/ \E m \in InPackets : Push(m)
    \/ Deliver

Spec == Init /\ [][Next]_vars
=============================================================================
