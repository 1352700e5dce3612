------------------------------ MODULE MCSteering ------------------------------
(***************************************************************************)
(* Steering for TLC.  The forward FIFO holds the longest packet but its    *)
(* last flit, and the streams behind the matcher hold the results of the   *)
(* longest packet but its last flit: with less of either the kernels can   *)
(* wait for each other in a circle.                                        *)
(***************************************************************************)
EXTENDS Steering
=============================================================================
