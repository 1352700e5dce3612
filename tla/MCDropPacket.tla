---------------------------- MODULE MCDropPacket ----------------------------
(***************************************************************************)
(* DropPacket for TLC, at depths small enough that the credits run out in  *)
(* a few packets: the threshold, the FIFO and the credit pipe keep the     *)
(* order of the code's (MaxFlits < Threshold <= Capacity).                 *)
(***************************************************************************)
EXTENDS DropPacket
=============================================================================
