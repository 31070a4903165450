----------------------------- MODULE MCPacketIO -----------------------------
(* Instances of PacketIO for TLC: two packets of different lengths, two     *)
(* messages; the .cfg files say which threads send and which receive.       *)
EXTENDS PacketIO, TLC

CONSTANTS t1, t2, t3, p1, p2

MCSize == p1 :> 8 @@ p2 :> 9
=============================================================================
