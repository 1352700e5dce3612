----------------------------- MODULE MCCollection -----------------------------
(***************************************************************************)
(* Collection for TLC.                                                     *)
(***************************************************************************)
EXTENDS Collection

\* Two packets, of two flits and one.
Lengths == <<2, 1>>
=============================================================================
