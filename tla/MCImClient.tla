----------------------------- MODULE MCImClient -----------------------------
(* Instances of ImClient for TLC.  The lengths of the packets differ with    *)
(* their type, as they do on the wire.                                      *)
EXTENDS ImClient

CONSTANTS app, poller

MCOutPackets == ClientPackets
MCInPackets == ServerMessages

MCSize == [q \in ClientPackets |->
             CASE q.type = "notify"    -> 40
               [] q.type = "keepalive" -> 30
               [] q.type = "control"   -> 35
               [] q.type = "retrieve"  -> 38]
=============================================================================
