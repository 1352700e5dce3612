--------------------------- MODULE MCHostPipeline ---------------------------
(***************************************************************************)
(* HostPipeline for TLC: two workers, rings and buffers small enough that  *)
(* rings fill up, slots are used again and lines are cut off by the end of *)
(* a buffer, of a chunk, or of both.                                       *)
(***************************************************************************)
EXTENDS HostPipeline

Lines == <<2, 3, 1, 3, 2, 1, 1, 2, 3, 1, 3, 2>>
OnePackLines == [l \in 1 .. 17 |-> 1]
LongLine == <<1, 1, 6, 1>>
=============================================================================
