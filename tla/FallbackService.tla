--------------------------- MODULE FallbackService ---------------------------
(***************************************************************************)
(* FallbackService (app/application/services/fallback_service.py) over its *)
(* FallbackHandler (module Fallback) and the ProviderRegistry.             *)
(*                                                                         *)
(* execute_with_fallback has one await, the fallback provider's complete:  *)
(* everything before it is one step of the event loop, and so is what      *)
(* follows the answer.  Calls overlap at that await; meanwhile the         *)
(* configuration may be replaced, a counter reset, a provider registered   *)
(* or unregistered.  A call cancelled at the await raises CancelledError,  *)
(* which `except Exception` does not catch.                                *)
(***************************************************************************)
EXTENDS Integers, Sequences, FiniteSets

CONSTANTS
    Providers,      \* every provider name that may be mentioned
    None,           \* Python's None
    Calls,          \* the executions of execute_with_fallback
    Configs         \* the FallbackConfigs the service may be given

ASSUME FallbackServiceAssumption ==
    /\ None \notin Providers
    /\ Configs # {}
    /\ Configs \subseteq [providers : Seq(Providers), attempts : Nat]
    /\ IsFiniteSet(Calls)

VARIABLES
    registered,     \* ProviderRegistry._providers
    config,         \* the configuration of _fallback_handler
    count,          \* _fallback_handler._fallback_count, 0 where a name is absent
    metrics,        \* _fallback_metrics
    call,           \* how far each execution is
    charged         \* history: the calls whose provider was picked by the
                    \* handler in force since their primary's last reset

vars == <<registered, config, count, metrics, call, charged>>

Handler(c) == INSTANCE Fallback
              WITH FallbackProviders <- c.providers, MaxFallbackAttempts <- c.attempts

ErrorType == {"timeout", "rate_limit", "auth_error", "validation_error", "server_error"}
CircuitState == {"closed", "half_open", "open"}
Reason == {"timeout", "rate_limit", "server_error", "circuit_open"}

\* "refused": not counted; "unplaced": counted, failed before the await.
Stage == {"idle", "refused", "unplaced", "running", "served", "failed", "cancelled"}

CallRecord == [stage : Stage, primary : Providers \cup {None},
               target : Providers \cup {None}, reason : Reason \cup {None}]

Idle == [stage |-> "idle", primary |-> None, target |-> None, reason |-> None]

NoMetrics == [attempts |-> 0, successes |-> 0, failures |-> 0,
              by_reason |-> [r \in Reason |-> 0], by_provider |-> [p \in Providers |-> 0]]

TypeOK ==
    /\ registered \subseteq Providers
    /\ config \in Configs
    /\ count \in [Providers -> Nat]
    /\ metrics \in [attempts : Nat, successes : Nat, failures : Nat,
                    by_reason : [Reason -> Nat], by_provider : [Providers -> Nat]]
    /\ call \in [Calls -> CallRecord]
    /\ charged \subseteq Calls

Init ==
    /\ registered \in SUBSET Providers
    /\ config \in Configs
    /\ count = [p \in Providers |-> 0]
    /\ metrics = NoMetrics
    /\ call = [c \in Calls |-> Idle]
    /\ charged = {}
-----------------------------------------------------------------------------
\* Whether the service may send a request of primary to target.
Placeable(primary, target) ==
    /\ target # None
    /\ Handler(config)!Compatible(primary, target)
    /\ target \in registered

\* should_fallback: the provider it names, or None, and the counter it leaves.
Decided(p, error, irreversible) ==
    IF irreversible THEN None ELSE Handler(config)!DecidedTarget(p, count[p], error)

CountAfterDeciding(p, error, irreversible) ==
    IF irreversible THEN count[p] ELSE Handler(config)!CountAfterDecision(count[p], error)

\* _record_fallback_failure
RecordFailure(m) == [m EXCEPT !.failures = @ + 1]

\* The metrics of an execution that found no provider to send to.
CountUnplaced(m) == RecordFailure([m EXCEPT !.attempts = @ + 1])

\* _record_fallback_success
RecordSuccess(m, p, r) ==
    [m EXCEPT !.successes = @ + 1, !.by_reason[r] = @ + 1, !.by_provider[p] = @ + 1]

Move(c, p, stage, target, reason) ==
    call' = [call EXCEPT ![c] = [stage |-> stage, primary |-> p,
                                 target |-> target, reason |-> reason]]

\* The decision is no: ProviderUnavailableError, before anything is counted.
Refuse(c, p, error, irreversible) ==
    /\ Decided(p, error, irreversible) = None
    /\ Move(c, p, "refused", None, None)
    /\ count' = [count EXCEPT ![p] = CountAfterDeciding(p, error, irreversible)]
    /\ UNCHANGED <<metrics, charged>>

\* The decision is yes.  Its target is not used: get_fallback_provider is
\* called again, takes a second attempt and may name another provider.
Place(c, p, error, circuit, irreversible) ==
    LET n == CountAfterDeciding(p, error, irreversible)
        target == Handler(config)!GetFallbackProvider(n)
        reason == Handler(config)!DecisionReason(error, circuit)
    IN  /\ Decided(p, error, irreversible) # None
        /\ count' = [count EXCEPT ![p] = Handler(config)!CountAfterGet(n)]
        /\ charged' = IF target = None THEN charged ELSE charged \cup {c}
        /\ \/ /\ Placeable(p, target)
              /\ Move(c, p, "running", target, reason)
              /\ metrics' = [metrics EXCEPT !.attempts = @ + 1]
           \/ /\ ~ Placeable(p, target)
              /\ Move(c, p, "unplaced", target, reason)
              /\ metrics' = CountUnplaced(metrics)

\* execute_with_fallback up to its await.
Execute(c, p, error, circuit, irreversible) ==
    /\ call[c].stage = "idle"
    /\ \/ Refuse(c, p, error, irreversible)
       \/ Place(c, p, error, circuit, irreversible)
    /\ UNCHANGED <<registered, config>>

\* The provider answers.
Succeed(c) ==
    /\ call[c].stage = "running"
    /\ call' = [call EXCEPT ![c].stage = "served"]
    /\ metrics' = RecordSuccess(metrics, call[c].primary, call[c].reason)
    /\ UNCHANGED <<registered, config, count, charged>>

\* The provider raises; the handler only logs it.
Fail(c) ==
    /\ call[c].stage = "running"
    /\ call' = [call EXCEPT ![c].stage = "failed"]
    /\ metrics' = RecordFailure(metrics)
    /\ UNCHANGED <<registered, config, count, charged>>

\* The caller's task is cancelled at the await: nothing is recorded.
Cancel(c) ==
    /\ call[c].stage = "running"
    /\ call' = [call EXCEPT ![c].stage = "cancelled"]
    /\ UNCHANGED <<registered, config, count, metrics, charged>>

\* can_fallback: a question, but should_fallback takes an attempt for it.
CanFallback(p, error, irreversible) ==
    /\ count' = [count EXCEPT ![p] = CountAfterDeciding(p, error, irreversible)]
    /\ UNCHANGED <<registered, config, metrics, call, charged>>

\* get_fallback_provider
NextProvider(p) ==
    /\ count' = [count EXCEPT ![p] = Handler(config)!CountAfterGet(count[p])]
    /\ UNCHANGED <<registered, config, metrics, call, charged>>

\* reset_fallback_count
ResetCount(p) ==
    /\ count' = [count EXCEPT ![p] = 0]
    /\ charged' = {c \in charged : call[c].primary # p}
    /\ UNCHANGED <<registered, config, metrics, call>>

\* reset_all_fallback_counts
ResetAll ==
    /\ count' = [p \in Providers |-> 0]
    /\ charged' = {}
    /\ UNCHANGED <<registered, config, metrics, call>>

\* Mutated form: the counters survive the new configuration.
UpdateConfigKeepsCounts(new) ==
    /\ config' = new
    /\ charged' = {}
    /\ UNCHANGED <<registered, count, metrics, call>>

\* update_config: a new handler, with counters of its own.
UpdateConfig(new) ==
    /\ config' = new
    /\ count' = [p \in Providers |-> 0]
    /\ charged' = {}
    /\ UNCHANGED <<registered, metrics, call>>

\* register_provider and unregister_provider of the registry.
Register(p) ==
    /\ registered' = registered \cup {p}
    /\ UNCHANGED <<config, count, metrics, call, charged>>

Unregister(p) ==
    /\ registered' = registered \ {p}
    /\ UNCHANGED <<config, count, metrics, call, charged>>

\* clear_all
ClearRegistry ==
    /\ registered' = {}
    /\ UNCHANGED <<config, count, metrics, call, charged>>

Next ==
    \/ \E c \in Calls, p \in Providers, error \in ErrorType, circuit \in CircuitState,
          irreversible \in BOOLEAN : Execute(c, p, error, circuit, irreversible)
    \/ \E c \in Calls : Succeed(c) \/ Fail(c) \/ Cancel(c)
    \/ \E p \in Providers, error \in ErrorType, irreversible \in BOOLEAN :
          CanFallback(p, error, irreversible)
    \/ \E p \in Providers : NextProvider(p) \/ ResetCount(p) \/ Register(p) \/ Unregister(p)
    \/ ResetAll
    \/ ClearRegistry
    \/ \E new \in Configs : UpdateConfig(new)

Spec == Init /\ [][Next]_vars
-----------------------------------------------------------------------------
InStage(stages) == {c \in Calls : call[c].stage \in stages}

\* Every attempt the metrics count is a success, a failure, still waiting
\* for its provider, or was cancelled while it waited; no overlap of calls,
\* reset or new configuration loses or doubles one.
AttemptsAccounted ==
    metrics.attempts = metrics.successes + metrics.failures
                       + Cardinality(InStage({"running", "cancelled"}))

\* The breakdowns of the successes agree with the calls that were served:
\* each reason's and each primary's counter is the number of those calls.
BreakdownsAgree ==
    /\ metrics.successes = Cardinality(InStage({"served"}))
    /\ \A r \in Reason : metrics.by_reason[r] =
          Cardinality({c \in InStage({"served"}) : call[c].reason = r})
    /\ \A p \in Providers : metrics.by_provider[p] =
          Cardinality({c \in InStage({"served"}) : call[c].primary = p})

\* An execution pays twice, once for the decision and once for the provider:
\* between two resets a handler picks a provider for at most half as many
\* executions of a primary as max_fallback_attempts says.
TwoAttemptsEach ==
    \A p \in Providers :
        /\ 2 * Cardinality({c \in charged : call[c].primary = p}) <= count[p]
        /\ count[p] <= config.attempts

\* The metrics add up, agree with the calls they count, and the attempts taken
\* are those of the configuration in force, whatever was reset, cancelled or
\* reconfigured during a call (execute_with_fallback, update_config).
MetricsAgree ==
    /\ TypeOK
    /\ AttemptsAccounted
    /\ BreakdownsAgree
    /\ TwoAttemptsEach
=============================================================================
