---------------------------- MODULE MCKeepAlive ----------------------------
(* Instances of KeepAlive for TLC; the .cfg files give the numbers.          *)
EXTENDS KeepAlive
=============================================================================
