--------------------------- MODULE MCNotification ---------------------------
(* Instances of Notification for TLC.  The threads are interchangeable.      *)
EXTENDS Notification, TLC

CONSTANTS a1, a2

CallerSymmetry == Permutations(Callers)
=============================================================================
