---------------------------- MODULE MCDegradation ----------------------------
(* Small thresholds, so that either component can reach its own in a few   *)
(* failures and the other one can be anywhere meanwhile.                   *)
EXTENDS Degradation

AnyAnswer == BOOLEAN
=============================================================================
