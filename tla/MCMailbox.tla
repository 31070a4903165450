----------------------------- MODULE MCMailbox -----------------------------
(* Instances of Mailbox for TLC: a short message and two long ones.          *)
EXTENDS Mailbox

CONSTANTS short, long, longer

MCPieces == [m \in Messages |-> IF m = short THEN 1 ELSE 2]
=============================================================================
