----------------------------- MODULE MCLinkReset -----------------------------
(***************************************************************************)
(* LinkReset for TLC.                                                      *)
(***************************************************************************)
EXTENDS LinkReset

\* The sending channel may be in reset beforehand, the other one not; or both.
Sender == {0}
Either == {0, 1}
=============================================================================
