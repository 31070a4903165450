----------------------------- MODULE MCSession -----------------------------
(* Instances of Session for TLC; the .cfg file gives the numbers.            *)
EXTENDS Session

CONSTANTS t1, t2, b1, b2
=============================================================================
