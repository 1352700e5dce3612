-------------------------- MODULE MCFingerprintMatch --------------------------
(***************************************************************************)
(* FingerprintMatch for TLC: a rule with a bit in one lane, and one with a *)
(* bit in both.                                                            *)
(***************************************************************************)
EXTENDS FingerprintMatch

Fingerprints == [r \in Rids |-> IF r = 1 THEN {1} ELSE {1, 2}]
=============================================================================
