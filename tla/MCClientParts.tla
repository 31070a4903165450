--------------------------- MODULE MCClientParts ---------------------------
(* Three parts of the client in one instance for TLC: the packets of         *)
(* notifications, their pace and ids, and the keepalive.  They share no      *)
(* state, and each is modelled with all that the threads do to it, so that a *)
(* behaviour is one of a single part: the two others rest.                   *)
EXTENDS KeepAlive, NotifyPace, Notification, TLC

CONSTANTS a1, a2, a3, t1, t2

PartsInit == KeepInit /\ Init /\ PoolInit

\* The keepalive at its beginning; it has two, and one is enough to rest in.
KeepRests == KeepInit /\ responseWait /\ UNCHANGED keepVars
PaceRests == Init /\ UNCHANGED vars
PoolRests == PoolInit /\ UNCHANGED poolVars

OnlyKeep == PaceRests /\ PoolRests /\ KeepNext
OnlyPace == KeepRests /\ PoolRests /\ Next
OnlyPool == KeepRests /\ PaceRests /\ PoolNext

PartsSpec ==
    PartsInit /\ [][OnlyKeep \/ OnlyPace \/ OnlyPool]_<<keepVars, vars, poolVars>>

\* The threads of a part are interchangeable.
PartsSymmetry == Permutations(Callers) \union Permutations(Threads)
=============================================================================
