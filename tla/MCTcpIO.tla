------------------------------ MODULE MCTcpIO ------------------------------
(* The two loops of tcp_io.c in one instance for TLC.  The session's mutex   *)
(* keeps their calls apart and they share no state but the socket, so that a *)
(* behaviour is one of TcpSend or one of TcpRecv: the other loop rests.      *)
EXTENDS TcpSend, TcpRecv

IOInit == SendInit /\ Init

SendRests == SendInit /\ UNCHANGED sendVars
RecvRests == Init /\ UNCHANGED vars

OnlySend == RecvRests /\ SendNext
OnlyRecv == SendRests /\ Next

IOVars == <<sendVars, vars>>

\* Both recv() and send() return within their timeouts, and the polling thread
\* goes on calling.
IOSpec ==
    /\ IOInit
    /\ [][OnlySend \/ OnlyRecv]_IOVars
    /\ SendFairness
    /\ WF_IOVars(SendRests /\ Client)
=============================================================================
