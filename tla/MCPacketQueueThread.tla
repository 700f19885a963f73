-------------------------- MODULE MCPacketQueueThread --------------------------
(* Instances of PacketQueueThread for TLC; the .cfg files give the constants. *)
EXTENDS PacketQueueThread
=============================================================================
