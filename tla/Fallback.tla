------------------------------ MODULE Fallback ------------------------------
(***************************************************************************)
(* FallbackHandler (app/infrastructure/providers/fallback.py).  Its state  *)
(* is one counter per primary provider, _fallback_count; the operators     *)
(* below take that counter (n) and say what a method answers and what it   *)
(* leaves in the counter.                                                  *)
(***************************************************************************)
EXTENDS Integers, Sequences

CONSTANTS
    Providers,              \* every provider name that may be mentioned
    None,                   \* Python's None where a provider name may stand
    FallbackProviders,      \* FallbackConfig.fallback_providers, in order
    MaxFallbackAttempts     \* FallbackConfig.max_fallback_attempts

\* FallbackConfig.__post_init__ checks the bound; it accepts any list, one
\* that names the primary or a provider nobody registered included.
ASSUME FallbackConfigAssumption ==
    /\ None \notin Providers
    /\ FallbackProviders \in Seq(Providers)
    /\ MaxFallbackAttempts \in Nat

\* What ProviderService._classify_error can answer.
ErrorType == {"timeout", "rate_limit", "auth_error", "validation_error", "server_error"}

Fallbackable == {"timeout", "rate_limit", "server_error"}

\* The reasons a fallback is attempted for: FallbackReason, and the literal
\* of the fail-fast path, which is also FallbackReason.CIRCUIT_OPEN's value.
Reason == Fallbackable \cup {"circuit_open"}

\* Mutated form: an off-by-one in the limit.
HasAttemptLeftOffByOne(n) ==
    /\ FallbackProviders # <<>>
    /\ n <= MaxFallbackAttempts

HasAttemptLeft(n) ==
    /\ FallbackProviders # <<>>
    /\ n < MaxFallbackAttempts

\* get_fallback_provider: its answer, and the counter afterwards.
GetFallbackProvider(n) ==
    IF HasAttemptLeft(n)
    THEN FallbackProviders[(n % Len(FallbackProviders)) + 1]
    ELSE None

CountAfterGet(n) == IF HasAttemptLeft(n) THEN n + 1 ELSE n

\* validate_provider_compatibility
Compatible(primary, target) ==
    /\ target # primary
    /\ \E i \in DOMAIN FallbackProviders : FallbackProviders[i] = target

\* should_fallback consults the counter only for an error that may fall back.
DecisionReason(errorType, circuitState) ==
    IF circuitState = "open" THEN "circuit_open" ELSE errorType

\* should_fallback with no irreversible effects: the target it names, or None.
DecidedTarget(primary, n, errorType) ==
    LET target == GetFallbackProvider(n)
    IN  IF errorType \in Fallbackable /\ target # None /\ Compatible(primary, target)
        THEN target
        ELSE None

\* _create_fallback_decision has consumed an attempt, whatever it decided.
CountAfterDecision(n, errorType) ==
    IF errorType \in Fallbackable THEN CountAfterGet(n) ELSE n
=============================================================================
