------------------------------ MODULE MCAgents ------------------------------
(* Three requests: two overlap on what a third has published, or renamed.   *)
EXTENDS Agents, TLC

Symmetry == Permutations(Requests) \cup Permutations(Versions)
=============================================================================
