--------------------------- MODULE MCBoundedBuffer ---------------------------
(***************************************************************************)
(* BoundedBuffer for TLC.  A ring of 1 slot is full and empty in turn, one *)
(* of 2 slots is full after one push, one of 3 holds two items; more items *)
(* than slots are pushed, so that every index wraps around.                *)
(***************************************************************************)
EXTENDS BoundedBuffer
=============================================================================
