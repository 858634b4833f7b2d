-------------------------- MODULE MCFallbackService --------------------------
(* Instances of FallbackService for TLC.                                   *)
EXTENDS FallbackService, TLC

CONSTANTS openai, anthropic, c1, c2

\* A list that names a primary and a limit that is odd, and the default limit.
TwoConfigs ==
    { [providers |-> <<anthropic, openai>>, attempts |-> 5],
      [providers |-> <<anthropic>>, attempts |-> 2] }

CallSymmetry == Permutations(Calls)
=============================================================================
