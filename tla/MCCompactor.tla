----------------------------- MODULE MCCompactor -----------------------------
(***************************************************************************)
(* Compactor for TLC: two outputs, each behind a tree of two levels (the   *)
(* shape of mspmCompactorStageByLen, with two trees).                      *)
(***************************************************************************)
EXTENDS Compactor

\* No lane, one lane of the first tree, one lane of either.
SomeFills == {{}, {1}, {2, 7}}
=============================================================================
