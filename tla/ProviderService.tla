--------------------------- MODULE ProviderService ---------------------------
(***************************************************************************)
(* ProviderService (app/application/services/provider_service.py) with the *)
(* parts it drives: one circuit breaker per guarded provider, the health   *)
(* monitor and the fallback handler.                                       *)
(*                                                                         *)
(* The service runs on one asyncio loop, so what happens between two       *)
(* awaits is one action.  complete() awaits twice: the primary provider's  *)
(* answer and the fallback provider's.  Any number of calls interleave at  *)
(* these points, and a call admitted by a breaker may be answered after    *)
(* that breaker opened, recovered, was reset or was replaced.              *)
(***************************************************************************)
EXTENDS CircuitBreaker, Fallback, FiniteSets

CONSTANTS
    Calls,              \* slots for concurrent calls of complete()
    Registered,         \* names in the registry
    Guarded,            \* registered with a circuit breaker configuration
    Requested,          \* names callers ask for (the default primary included)
    MaxAdmissions,      \* bound: primary calls admitted per provider
    MaxGenerations      \* bound: registrations of one provider

ASSUME ServiceAssumption ==
    /\ IsFiniteSet(Calls)
    /\ Registered \subseteq Providers
    /\ Guarded \subseteq Registered
    /\ Requested \subseteq Registered
    /\ MaxAdmissions \in Nat
    /\ MaxGenerations \in Nat \ {0}

VARIABLES
    breaker,        \* breaker[p][g]: the breaker of p's g-th registration
    generation,     \* generation[p]: the registration _circuit_breakers holds
    health,         \* health[p]: ProviderHealth
    fallbackCount,  \* FallbackHandler._fallback_count
    call,           \* call[c]: the local state of one complete()
    admitted,       \* history: primary calls admitted, per provider
    cancelled,      \* history: primary calls cancelled while in flight
    attempts        \* history: fallback calls sent, per primary

vars == <<breaker, generation, health, fallbackCount, call,
          admitted, cancelled, attempts>>

Generations == 1..MaxGenerations

Idle == [pc |-> "idle", provider |-> None, gen |-> 1, useFallback |-> FALSE,
         target |-> None, reason |-> "none"]

CallState ==
    [pc : {"idle", "primary", "fallback"}, provider : Providers \cup {None},
     gen : Generations, useFallback : BOOLEAN,
     target : Providers \cup {None}, reason : Reason \cup {"none"}]

Current(p) == breaker[p][generation[p]]

InFlight(p) == {c \in Calls : call[c].pc = "primary" /\ call[c].provider = p}

\* Fallback calls to p under way, which no breaker was asked about.
FallenBackTo(p) == {c \in Calls : call[c].pc = "fallback" /\ call[c].target = p}

TypeOK ==
    /\ breaker \in [Guarded -> [Generations -> Breaker]]
    /\ generation \in [Guarded -> Generations]
    /\ health \in [Registered -> [total : Nat, failed : Nat, healthy : BOOLEAN]]
    /\ fallbackCount \in [Registered -> Nat]
    /\ call \in [Calls -> CallState]
    /\ admitted \in [Registered -> Nat]
    /\ cancelled \in [Registered -> Nat]
    /\ attempts \in [Registered -> Nat]

Init ==
    /\ breaker = [p \in Guarded |-> [g \in Generations |-> NewBreaker]]
    /\ generation = [p \in Guarded |-> 1]
    /\ health = [p \in Registered |-> [total |-> 0, failed |-> 0, healthy |-> TRUE]]
    /\ fallbackCount = [p \in Registered |-> 0]
    /\ call = [c \in Calls |-> Idle]
    /\ admitted = [p \in Registered |-> 0]
    /\ cancelled = [p \in Registered |-> 0]
    /\ attempts = [p \in Registered |-> 0]

-----------------------------------------------------------------------------
(* The fallback half of complete().                                        *)

\* _attempt_fallback up to its await, for a primary p whose counter is n:
\* the provider that will be called, or None when an error is raised.
FallbackTarget(p, n) ==
    LET target == GetFallbackProvider(n)
    IN  IF target \in Registered /\ Compatible(p, target) THEN target ELSE None

\* Either the call waits for target, or it ended with ProviderUnavailableError.
EnterFallback(c, p, target, reason) ==
    /\ call' = [call EXCEPT ![c] =
                  IF target = None THEN Idle
                  ELSE [Idle EXCEPT !.pc = "fallback", !.provider = p,
                                    !.target = target, !.reason = reason]]
    /\ attempts' = [attempts EXCEPT ![p] = IF target = None THEN @ ELSE @ + 1]

-----------------------------------------------------------------------------
(* complete(), from its first statement to its first await.                *)

\* can_execute answers True, or the provider has no breaker.
Admit(c, p, useFallback) ==
    /\ call[c].pc = "idle"
    /\ admitted[p] < MaxAdmissions
    /\ p \in Guarded => CanExecute(Current(p))
    /\ IF p \in Guarded
       THEN breaker' = [breaker EXCEPT ![p][generation[p]] = AfterCanExecute(@)]
       ELSE breaker' = breaker
    /\ call' = [call EXCEPT ![c] =
                  [Idle EXCEPT
                     !.pc = "primary", !.provider = p, !.useFallback = useFallback,
                     !.gen = IF p \in Guarded THEN generation[p] ELSE 1]]
    /\ admitted' = [admitted EXCEPT ![p] = @ + 1]
    /\ UNCHANGED <<generation, health, fallbackCount, cancelled, attempts>>

\* can_execute answers False and the caller allowed a fallback.  (Without a
\* fallback the call raises at once and nothing changes.)
FailFast(c, p) ==
    /\ call[c].pc = "idle"
    /\ p \in Guarded
    /\ ~CanExecute(Current(p))
    /\ LET n == fallbackCount[p]
       IN  /\ fallbackCount' = [fallbackCount EXCEPT ![p] = CountAfterGet(n)]
           /\ EnterFallback(c, p, FallbackTarget(p, n), "circuit_open")
    /\ UNCHANGED <<breaker, generation, health, admitted, cancelled>>

-----------------------------------------------------------------------------
(* The primary provider answers.  The breaker the answer is recorded in is *)
(* the one that admitted the call, replaced or not.                        *)

RecordHealth(p, ok) ==
    health' = [health EXCEPT ![p] =
                 [total |-> @.total + 1,
                  failed |-> IF ok THEN @.failed ELSE @.failed + 1,
                  healthy |-> ok]]

BreakerAfter(p, g, Op(_)) ==
    IF p \in Guarded
    THEN [breaker EXCEPT ![p][g] = Op(@)]
    ELSE breaker

PrimarySucceeds(c) ==
    LET p == call[c].provider
    IN  /\ call[c].pc = "primary"
        /\ breaker' = BreakerAfter(p, call[c].gen, RecordSuccess)
        /\ RecordHealth(p, TRUE)
        /\ call' = [call EXCEPT ![c] = Idle]
        /\ UNCHANGED <<generation, fallbackCount, admitted, cancelled, attempts>>

\* The circuit state handed to should_fallback is read after the failure was
\* recorded, so the failure that trips the breaker falls back as circuit_open.
CircuitStateAfterFailure(c) ==
    LET p == call[c].provider
    IN  IF p \in Guarded
        THEN RecordFailure(breaker[p][call[c].gen]).state
        ELSE "closed"

\* The decision of should_fallback takes one attempt from the counter, and
\* _attempt_fallback, when it is reached, takes another.
FallBackOrRaise(c, p, errorType) ==
    LET n       == fallbackCount[p]
        decided == DecidedTarget(p, n, errorType)
        m       == CountAfterDecision(n, errorType)
        reason  == DecisionReason(errorType, CircuitStateAfterFailure(c))
    IN  IF call[c].useFallback
        THEN IF decided # None
             THEN /\ fallbackCount' = [fallbackCount EXCEPT ![p] = CountAfterGet(m)]
                  /\ EnterFallback(c, p, FallbackTarget(p, m), reason)
             ELSE /\ fallbackCount' = [fallbackCount EXCEPT ![p] = m]
                  /\ call' = [call EXCEPT ![c] = Idle]
                  /\ UNCHANGED attempts
        ELSE /\ call' = [call EXCEPT ![c] = Idle]
             /\ UNCHANGED <<fallbackCount, attempts>>

PrimaryFails(c, errorType) ==
    LET p == call[c].provider
    IN  /\ call[c].pc = "primary"
        /\ breaker' = BreakerAfter(p, call[c].gen, RecordFailure)
        /\ RecordHealth(p, FALSE)
        /\ FallBackOrRaise(c, p, errorType)
        /\ UNCHANGED <<generation, admitted, cancelled>>

\* CancelledError is not an Exception: the handler of complete() never runs
\* and neither the breaker nor the monitor hears of the call.
PrimaryCancelled(c) ==
    /\ call[c].pc = "primary"
    /\ call' = [call EXCEPT ![c] = Idle]
    /\ cancelled' = [cancelled EXCEPT ![call[c].provider] = @ + 1]
    /\ UNCHANGED <<breaker, generation, health, fallbackCount, admitted, attempts>>

\* The fallback provider answers, fails or the call is cancelled: in every
\* case the call ends and only log lines tell them apart.
FallbackReturns(c) ==
    /\ call[c].pc = "fallback"
    /\ call' = [call EXCEPT ![c] = Idle]
    /\ UNCHANGED <<breaker, generation, health, fallbackCount,
                   admitted, cancelled, attempts>>

-----------------------------------------------------------------------------
(* Operations that are not calls.                                          *)

\* get_circuit_breaker_status calls can_execute, which may open the gate.
GetCircuitBreakerStatus(p) ==
    /\ breaker' = [breaker EXCEPT ![p][generation[p]] = AfterCanExecute(@)]
    /\ UNCHANGED <<generation, health, fallbackCount, call,
                   admitted, cancelled, attempts>>

\* get_service_status asks every breaker.
GetServiceStatus ==
    /\ breaker' = [p \in Guarded |->
                     [breaker[p] EXCEPT ![generation[p]] = AfterCanExecute(@)]]
    /\ UNCHANGED <<generation, health, fallbackCount, call,
                   admitted, cancelled, attempts>>

ResetCircuitBreaker(p) ==
    /\ breaker' = [breaker EXCEPT ![p][generation[p]] = ResetBreaker(@)]
    /\ UNCHANGED <<generation, health, fallbackCount, call,
                   admitted, cancelled, attempts>>

\* register_provider under a name already registered: a new breaker replaces
\* the old one, the health record is kept, calls in flight keep the old breaker.
RegisterProviderAgain(p) ==
    /\ generation[p] < MaxGenerations
    /\ generation' = [generation EXCEPT ![p] = @ + 1]
    /\ breaker' = [breaker EXCEPT ![p][generation[p] + 1] = NewBreaker]
    /\ UNCHANGED <<health, fallbackCount, call, admitted, cancelled, attempts>>

\* One step of the wall clock ages every open timestamp.
Tick ==
    /\ breaker' = [p \in Guarded |-> [g \in Generations |-> Aged(breaker[p][g])]]
    /\ UNCHANGED <<generation, health, fallbackCount, call,
                   admitted, cancelled, attempts>>

-----------------------------------------------------------------------------

Answer(c) ==
    \/ PrimarySucceeds(c)
    \/ \E e \in ErrorType : PrimaryFails(c, e)
    \/ PrimaryCancelled(c)
    \/ FallbackReturns(c)

Next ==
    \/ \E c \in Calls, p \in Requested, useFallback \in BOOLEAN : Admit(c, p, useFallback)
    \/ \E c \in Calls, p \in Requested : FailFast(c, p)
    \/ \E c \in Calls : Answer(c)
    \/ \E p \in Guarded : \/ GetCircuitBreakerStatus(p)
                          \/ ResetCircuitBreaker(p)
                          \/ RegisterProviderAgain(p)
    \/ GetServiceStatus
    \/ Tick

Spec == Init /\ [][Next]_vars

\* Every provider call ends (the adapters bound it with an HTTP timeout and a
\* finite number of retries) and the wall clock keeps moving.  Nothing obliges
\* anyone to call, ask for a status, reset or register.
Fairness == WF_vars(Tick) /\ \A c \in Calls : WF_vars(Answer(c))

FairSpec == Spec /\ Fairness

-----------------------------------------------------------------------------
(* Safety.                                                                 *)

\* The fields of a breaker agree whatever order admissions, late answers,
\* resets, status reads and clock steps come in: the open timestamp exists
\* exactly outside CLOSED, the probe counter counts only in HALF_OPEN, and a
\* breaker is HALF_OPEN only after its open timeout ran out.
BreakerCoherent ==
    \A p \in Guarded, g \in Generations :
        LET b == breaker[p][g]
        IN  /\ b.state = "closed" <=> b.openFor = NoTimestamp
            /\ b.state # "half_open" => b.halfOpenCalls = 0
            /\ b.state = "half_open" => b.openFor = OpenTimeout

\* A breaker that tests for recovery can always be probed.  Probes are counted
\* when they succeed, so a probe that is cancelled, or answered late into
\* another state, never uses up the half-open allowance.
HalfOpenNeverWedged ==
    \A p \in Guarded, g \in Generations :
        breaker[p][g].state = "half_open" => CanExecute(breaker[p][g])

\* A breaker refuses or limits calls only on evidence: since its last reset it
\* has seen at least minimum_requests answers, one failure among them.
EvidenceBehindOpen ==
    \A p \in Guarded, g \in Generations :
        LET b == breaker[p][g]
        IN  b.state # "closed" => b.total >= MinimumRequests /\ b.failed >= 1

\* complete() reports each answer to the breaker and to the health monitor,
\* and only the breaker is ever reset: the monitor has seen everything that
\* any breaker of the provider has.
HealthCoversBreakers ==
    \A p \in Guarded, g \in Generations :
        /\ breaker[p][g].total <= health[p].total
        /\ breaker[p][g].failed <= health[p].failed

\* No answer is lost and none is counted twice: every primary call that a
\* breaker admitted is in flight, in the health record, or was cancelled.
CallsAccountedFor ==
    \A p \in Registered :
        admitted[p] = Cardinality(InFlight(p)) + health[p].total + cancelled[p]

\* A primary never causes more than max_fallback_attempts fallback calls over
\* the life of the service, on both paths that lead to a fallback together.
FallbackBudget ==
    \A p \in Registered :
        /\ attempts[p] <= fallbackCount[p]
        /\ fallbackCount[p] <= MaxFallbackAttempts

\* Whatever fallback_providers lists (the primary itself, a name nobody
\* registered), a fallback call goes to another provider that exists.
FallbackTargetsExist ==
    \A c \in Calls :
        call[c].pc = "fallback" =>
            call[c].target \in Registered \ {call[c].provider}

\* A breaker trips on evidence only, keeps its fields together and can always be
\* probed, in whatever order late answers, cancellations and resets reach it
\* (circuit_breaker.py, complete).
BreakerSound ==
    /\ TypeOK
    /\ BreakerCoherent
    /\ HalfOpenNeverWedged
    /\ EvidenceBehindOpen

\* No call of complete() escapes the accounts: its answer is in the health
\* record exactly once, and the fallbacks it leads to are few and go elsewhere.
CallsKept ==
    /\ HealthCoversBreakers
    /\ CallsAccountedFor
    /\ FallbackBudget
    /\ FallbackTargetsExist

-----------------------------------------------------------------------------
(* Refinement: seen from one guarded provider, the service is the contract *)
(* of BreakerContract, whatever the other providers and callers do.  The   *)
(* calls that fall back to the provider are part of what is seen, and of   *)
(* the contract: that they may start while the circuit is open.            *)

Contract(p) == INSTANCE BreakerContract WITH
    mode   <- Current(p).state,
    cooled <- Current(p).state = "open" /\ ShouldAttemptRecovery(Current(p)),
    active <- InFlight(p),
    unasked <- FallenBackTo(p)

\* Each guarded provider's breaker keeps the contract: no call is admitted
\* while it is open, late answers and answers of fallback calls never move it,
\* and only the open timeout leads from open to half-open (circuit_breaker.py
\* can_execute, record_*).  Calls that fall back to the provider start in any
\* state of its circuit (_attempt_fallback): that an open circuit keeps all
\* calls away is not part of it.
\* (\A p : Contract(p)!ContractSpec, with the quantifier inside the box.)
BreakerKeepsContract ==
    /\ \A p \in Guarded : Contract(p)!ContractInit
    /\ [][\A p \in Guarded : [Contract(p)!ContractNext]_(Contract(p)!contractVars)]_vars

-----------------------------------------------------------------------------
(* Liveness.                                                               *)

\* An open breaker does not stay shut: whatever late answers arrive meanwhile,
\* there comes a moment when the provider may be called again.
OpenBreakerRecovers ==
    \A p \in Guarded : ~CanExecute(Current(p)) ~> CanExecute(Current(p))
=============================================================================
