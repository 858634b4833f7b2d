----------------------------- MODULE MCApprovals -----------------------------
(* Three responses: two may overlap while a third has already decided.     *)
EXTENDS Approvals, TLC

Symmetry == Permutations(Responders)
=============================================================================
