--------------------------- MODULE BreakerContract ---------------------------
(***************************************************************************)
(* What a circuit breaker promises the callers of one provider, without    *)
(* counters or clocks.  docs/providers/circuit_breaking.md promises that   *)
(* no call reaches a provider whose circuit is open (lines 19-20); the     *)
(* code keeps that for the calls the breaker is asked to admit, and only   *)
(* for those:                                                              *)
(*   - an admitted call starts only while the circuit is not open, or is   *)
(*     the first one after the open period, which turns it half-open;      *)
(*   - an answer to an admitted call opens a closed circuit or settles a   *)
(*     half-open one, and never moves an open circuit, however late it     *)
(*     comes;                                                              *)
(*   - a fallback call asks nobody: it reaches the provider whatever the   *)
(*     circuit's state (_attempt_fallback), and its answer, good or bad,   *)
(*     is not recorded and moves nothing;                                  *)
(*   - only the passing of the open period ends it, unless an operator     *)
(*     resets or replaces the breaker.                                     *)
(***************************************************************************)
CONSTANT Calls

VARIABLES
    mode,       \* the circuit's state
    cooled,     \* the open period has passed
    active,     \* admitted calls to the provider under way
    unasked     \* fallback calls to the provider under way

contractVars == <<mode, cooled, active, unasked>>

ContractInit == mode = "closed" /\ cooled = FALSE /\ active = {} /\ unasked = {}

Start(c) ==
    /\ c \notin active
    /\ mode = "open" => cooled
    /\ mode' = IF mode = "open" THEN "half_open" ELSE mode
    /\ cooled' = FALSE
    /\ active' = active \cup {c}
    /\ UNCHANGED unasked

Settle(c) ==
    /\ c \in active
    /\ active' = active \ {c}
    /\ \/ UNCHANGED <<mode, cooled>>
       \/ mode = "closed" /\ mode' = "open" /\ cooled' = FALSE
       \/ mode = "half_open" /\ mode' \in {"open", "closed"} /\ cooled' = FALSE
    /\ UNCHANGED unasked

\* Another provider's call falls back to this one, its circuit open or not.
StartUnasked(c) ==
    /\ unasked' = unasked \cup {c}
    /\ UNCHANGED <<mode, cooled, active>>

SettleUnasked(c) ==
    /\ unasked' = unasked \ {c}
    /\ UNCHANGED <<mode, cooled, active>>

Cool ==
    /\ mode = "open" /\ ~cooled /\ cooled' = TRUE
    /\ UNCHANGED <<mode, active, unasked>>

\* Asking an open breaker for its status after the open period.
Observe ==
    /\ mode = "open" /\ cooled
    /\ mode' = "half_open" /\ cooled' = FALSE
    /\ UNCHANGED <<active, unasked>>

Restart ==
    /\ mode' = "closed" /\ cooled' = FALSE
    /\ UNCHANGED <<active, unasked>>

ContractNext ==
    \/ \E c \in Calls : Start(c) \/ Settle(c) \/ StartUnasked(c) \/ SettleUnasked(c)
    \/ Cool
    \/ Observe
    \/ Restart

ContractSpec == ContractInit /\ [][ContractNext]_contractVars
=============================================================================
