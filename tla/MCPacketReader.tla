--------------------------- MODULE MCPacketReader ---------------------------
(* One plain packet and two encrypted ones.                                 *)
EXTENDS PacketReader

=============================================================================
