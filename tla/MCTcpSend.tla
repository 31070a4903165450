------------------------------ MODULE MCTcpSend ------------------------------
(* Instances of TcpSend for TLC; the .cfg files give the numbers.            *)
EXTENDS TcpSend
=============================================================================
