------------------------ MODULE ProviderServiceProofs ------------------------
(***************************************************************************)
(* Theorems about ProviderService for every set of calls and providers,    *)
(* every breaker configuration and every fallback list, and about the      *)
(* ProviderAdapter it calls for every conversation and retry policy.       *)
(***************************************************************************)
EXTENDS ProviderCalls, FiniteSetTheorems, SequenceTheorems, TLAPS

-----------------------------------------------------------------------------
(* One breaker.                                                            *)

\* What every breaker satisfies at all times: the three breaker invariants,
\* for one breaker.
GoodBreaker(b) ==
    /\ b \in Breaker
    /\ b.state = "closed" <=> b.openFor = NoTimestamp
    /\ b.state # "half_open" => b.halfOpenCalls = 0
    /\ b.state = "half_open" => b.openFor = OpenTimeout
    /\ b.state = "half_open" => b.halfOpenCalls < HalfOpenMaxCalls
    /\ b.state # "closed" => b.total >= MinimumRequests /\ b.failed >= 1

\* A new or freshly reset breaker is good (the dataclass defaults, reset()).
LEMMA NewBreakerGood == GoodBreaker(NewBreaker)
BY BreakerConfigAssumption
   DEF GoodBreaker, NewBreaker, Breaker, CircuitState, NoTimestamp

\* can_execute leaves a good breaker good.
LEMMA AfterCanExecuteGood ==
    ASSUME NEW b, GoodBreaker(b)
    PROVE  GoodBreaker(AfterCanExecute(b))
<1>1. CASE b.state = "open" /\ ShouldAttemptRecovery(b)
  <2> DEFINE n == [b EXCEPT !.state = "half_open", !.halfOpenCalls = 0]
  <2>1. AfterCanExecute(b) = n
    BY <1>1 DEF AfterCanExecute, TransitionToHalfOpen
  <2>2. b.openFor = OpenTimeout
    BY <1>1, BreakerConfigAssumption
       DEF GoodBreaker, ShouldAttemptRecovery, Breaker, NoTimestamp
  <2>3. n \in Breaker
    BY DEF GoodBreaker, Breaker, CircuitState
  <2>4. /\ n.state = "half_open" /\ n.halfOpenCalls = 0
        /\ n.openFor = OpenTimeout /\ n.total = b.total /\ n.failed = b.failed
    BY <2>2 DEF GoodBreaker, Breaker
  <2> QED
    BY <2>1, <2>3, <2>4, <1>1, BreakerConfigAssumption DEF GoodBreaker, NoTimestamp
<1>2. CASE ~(b.state = "open" /\ ShouldAttemptRecovery(b))
  BY <1>2 DEF AfterCanExecute
<1> QED
  BY <1>1, <1>2

\* record_success leaves a good breaker good.
LEMMA RecordSuccessGood ==
    ASSUME NEW b, GoodBreaker(b)
    PROVE  GoodBreaker(RecordSuccess(b))
<1> DEFINE counted == [b EXCEPT !.total = @ + 1]
           probed  == [counted EXCEPT !.halfOpenCalls = @ + 1]
<1>1. b.total + 1 \in Nat /\ b.halfOpenCalls + 1 \in Nat /\ b.failed \in Nat
  BY DEF GoodBreaker, Breaker
<1>2. counted \in Breaker
  BY <1>1 DEF GoodBreaker, Breaker
<1>3. /\ counted.state = b.state /\ counted.halfOpenCalls = b.halfOpenCalls
      /\ counted.openFor = b.openFor /\ counted.total = b.total + 1
      /\ counted.failed = b.failed
  BY DEF GoodBreaker, Breaker
<1>4. probed \in Breaker
  BY <1>1, <1>2, <1>3 DEF Breaker
<1>5. /\ probed.state = b.state /\ probed.halfOpenCalls = b.halfOpenCalls + 1
      /\ probed.openFor = b.openFor /\ probed.total = b.total + 1
      /\ probed.failed = b.failed
  BY <1>2, <1>3 DEF Breaker
<1> HIDE DEF counted, probed
<1>6. CASE b.state # "half_open"
  <2>1. RecordSuccess(b) = counted
    BY <1>6 DEF RecordSuccess, counted, probed
  <2> QED
    BY <2>1, <1>1, <1>2, <1>3, <1>6, BreakerConfigAssumption DEF GoodBreaker, Breaker
<1>7. CASE b.state = "half_open" /\ probed.halfOpenCalls >= HalfOpenMaxCalls
  <2> DEFINE n == TransitionToClosed(probed)
  <2>1. RecordSuccess(b) = n
    BY <1>7 DEF RecordSuccess, counted, probed, n
  <2> HIDE DEF n
  <2>2. n \in Breaker
    BY <1>4 DEF n, TransitionToClosed, Breaker, CircuitState
  <2>3. n.state = "closed" /\ n.openFor = NoTimestamp /\ n.halfOpenCalls = 0
    BY <1>4 DEF n, TransitionToClosed, Breaker
  <2> QED
    BY <2>1, <2>2, <2>3 DEF GoodBreaker
<1>8. CASE b.state = "half_open" /\ ~(probed.halfOpenCalls >= HalfOpenMaxCalls)
  <2>1. RecordSuccess(b) = probed
    BY <1>8 DEF RecordSuccess, counted, probed
  <2>2. probed.halfOpenCalls < HalfOpenMaxCalls
    BY <1>8, <1>4, BreakerConfigAssumption DEF Breaker
  <2> QED
    BY <2>1, <2>2, <1>1, <1>4, <1>5, <1>8, BreakerConfigAssumption DEF GoodBreaker, Breaker
<1> QED
  BY <1>6, <1>7, <1>8

\* record_failure leaves a good breaker good: whichever way it goes, the
\* counters have only grown, and a breaker that opens has passed the minimum.
LEMMA RecordFailureGood ==
    ASSUME NEW b, GoodBreaker(b)
    PROVE  GoodBreaker(RecordFailure(b))
<1> DEFINE counted == [b EXCEPT !.total = @ + 1, !.failed = @ + 1]
<1>1. b.total + 1 \in Nat /\ b.failed + 1 \in Nat
  BY DEF GoodBreaker, Breaker
<1>2. counted \in Breaker
  BY <1>1 DEF GoodBreaker, Breaker
<1>3. /\ counted.state = b.state /\ counted.halfOpenCalls = b.halfOpenCalls
      /\ counted.openFor = b.openFor
      /\ counted.total = b.total + 1 /\ counted.failed = b.failed + 1
  BY DEF GoodBreaker, Breaker
<1> HIDE DEF counted
<1>4. CASE b.state = "half_open" \/ (b.state = "closed" /\ ShouldTrip(counted))
  <2> DEFINE n == TransitionToOpen(counted)
  <2>1. RecordFailure(b) = n
    BY <1>4 DEF RecordFailure, counted
  <2>0. 0 \in {NoTimestamp} \cup (0..OpenTimeout) /\ 0 \in Nat
    BY BreakerConfigAssumption
  <2>2. n \in Breaker
    BY <1>2, <2>0, BreakerConfigAssumption DEF TransitionToOpen, Breaker, CircuitState
  <2>3. /\ n.state = "open" /\ n.openFor = 0 /\ n.halfOpenCalls = 0
        /\ n.total = counted.total /\ n.failed = counted.failed
    BY <1>2 DEF TransitionToOpen, Breaker
  <2>4. counted.total >= MinimumRequests /\ counted.failed >= 1
    BY <1>3, <1>4, BreakerConfigAssumption DEF ShouldTrip, GoodBreaker, Breaker
  <2> QED
    BY <2>1, <2>2, <2>3, <2>4 DEF GoodBreaker, NoTimestamp
<1>5. CASE ~(b.state = "half_open" \/ (b.state = "closed" /\ ShouldTrip(counted)))
  <2>1. RecordFailure(b) = counted
    BY <1>5 DEF RecordFailure, counted
  <2>2. b.state # "closed" =>
           counted.total >= MinimumRequests /\ counted.failed >= 1
    BY <1>3, BreakerConfigAssumption DEF GoodBreaker, Breaker
  <2> QED
    BY <2>1, <2>2, <1>2, <1>3, <1>5 DEF GoodBreaker
<1> QED
  BY <1>4, <1>5

\* The passing of time leaves a good breaker good.
LEMMA AgedGood ==
    ASSUME NEW b, GoodBreaker(b)
    PROVE  GoodBreaker(Aged(b))
<1>1. CASE b.openFor \in 0..(OpenTimeout - 1)
  <2> DEFINE n == [b EXCEPT !.openFor = @ + 1]
  <2>1. Aged(b) = n
    BY <1>1 DEF Aged
  <2>2. b.openFor + 1 \in 0..OpenTimeout /\ b.openFor # NoTimestamp
        /\ b.state # "half_open" /\ b.openFor + 1 # NoTimestamp
    BY <1>1, BreakerConfigAssumption DEF GoodBreaker, NoTimestamp
  <2>3. n \in Breaker
    BY <2>2 DEF GoodBreaker, Breaker
  <2>4. /\ n.state = b.state /\ n.halfOpenCalls = b.halfOpenCalls
        /\ n.openFor = b.openFor + 1 /\ n.total = b.total /\ n.failed = b.failed
    BY DEF GoodBreaker, Breaker
  <2> QED
    BY <2>1, <2>2, <2>3, <2>4 DEF GoodBreaker
<1>2. CASE b.openFor \notin 0..(OpenTimeout - 1)
  BY <1>2 DEF Aged
<1> QED
  BY <1>1, <1>2

\* What each operation does to the two counters of a breaker.
LEMMA BreakerCounts ==
    ASSUME NEW b, GoodBreaker(b)
    PROVE  /\ AfterCanExecute(b).total = b.total
           /\ AfterCanExecute(b).failed = b.failed
           /\ Aged(b).total = b.total
           /\ Aged(b).failed = b.failed
           /\ RecordSuccess(b).total = b.total + 1
           /\ RecordSuccess(b).failed = b.failed
           /\ RecordFailure(b).total = b.total + 1
           /\ RecordFailure(b).failed = b.failed + 1
<1> USE DEF GoodBreaker, Breaker
<1>1. AfterCanExecute(b).total = b.total /\ AfterCanExecute(b).failed = b.failed
  BY DEF AfterCanExecute, TransitionToHalfOpen
<1>2. Aged(b).total = b.total /\ Aged(b).failed = b.failed
  BY DEF Aged
<1>3. RecordSuccess(b).total = b.total + 1 /\ RecordSuccess(b).failed = b.failed
  BY DEF RecordSuccess, TransitionToClosed
<1>4. RecordFailure(b).total = b.total + 1 /\ RecordFailure(b).failed = b.failed + 1
  BY DEF RecordFailure, TransitionToOpen
<1> QED
  BY <1>1, <1>2, <1>3, <1>4

-----------------------------------------------------------------------------
(* The inductive invariant.  The invariants of the runs are not inductive   *)
(* as they stand: an answer is recorded under the provider and the          *)
(* registration a call carries, so those must name entries that exist, and  *)
(* a half-open breaker is only known to accept probes together with the     *)
(* coherence of its other fields.                                           *)

BreakersGood ==
    \A p \in Guarded, g \in Generations : GoodBreaker(breaker[p][g])

CallsHaveProvider ==
    \A c \in Calls : call[c].pc # "idle" => call[c].provider \in Registered

IInv ==
    /\ TypeOK
    /\ BreakersGood
    /\ HealthCoversBreakers
    /\ FallbackBudget
    /\ FallbackTargetsExist
    /\ CallsHaveProvider

\* The initial state satisfies the invariant.
LEMMA InitIInv == Init => IInv
<1> SUFFICES ASSUME Init PROVE IInv
  OBVIOUS
<1>1. NewBreaker \in Breaker /\ NewBreaker.total = 0 /\ NewBreaker.failed = 0
  BY NewBreakerGood DEF GoodBreaker, NewBreaker
<1>2. Idle \in CallState /\ Idle.pc = "idle"
  BY ServiceAssumption DEF Idle, CallState, Generations
<1>3. TypeOK
  BY <1>1, <1>2, ServiceAssumption DEF Init, TypeOK, Generations
<1>4. BreakersGood
  BY NewBreakerGood DEF Init, BreakersGood
<1>5. HealthCoversBreakers
  BY <1>1, ServiceAssumption DEF Init, HealthCoversBreakers
<1>6. FallbackBudget
  BY FallbackConfigAssumption DEF Init, FallbackBudget
<1>7. FallbackTargetsExist /\ CallsHaveProvider
  BY <1>2 DEF Init, FallbackTargetsExist, CallsHaveProvider
<1> QED
  BY <1>3, <1>4, <1>5, <1>6, <1>7 DEF IInv

\* Replacing one breaker by a good one keeps every breaker good.
LEMMA UpdateBreaker ==
    ASSUME TypeOK, BreakersGood,
           NEW p \in Guarded, NEW g \in Generations, NEW b, GoodBreaker(b),
           breaker' = [breaker EXCEPT ![p][g] = b]
    PROVE  /\ breaker' \in [Guarded -> [Generations -> Breaker]]
           /\ BreakersGood'
           /\ \A q \in Guarded, h \in Generations :
                 breaker'[q][h] = IF q = p /\ h = g THEN b ELSE breaker[q][h]
<1>1. b \in Breaker
  BY DEF GoodBreaker
<1>2. breaker' \in [Guarded -> [Generations -> Breaker]]
  BY <1>1 DEF TypeOK
<1>3. ASSUME NEW q \in Guarded, NEW h \in Generations
      PROVE  breaker'[q][h] = IF q = p /\ h = g THEN b ELSE breaker[q][h]
  BY DEF TypeOK
<1>4. BreakersGood'
  BY <1>3 DEF BreakersGood
<1> QED
  BY <1>2, <1>3, <1>4

\* The breaker updates that are not answers keep the breakers good and their
\* counters at most what they were: status reads, resets and clock steps.
LEMMA QuietUpdate ==
    ASSUME IInv,
           UNCHANGED <<generation, health, fallbackCount, call,
                       admitted, cancelled, attempts>>,
           breaker' \in [Guarded -> [Generations -> Breaker]],
           \A q \in Guarded, h \in Generations :
               /\ GoodBreaker(breaker'[q][h])
               /\ breaker'[q][h].total <= breaker[q][h].total
               /\ breaker'[q][h].failed <= breaker[q][h].failed
    PROVE  IInv'
<1>1. TypeOK'
  BY DEF IInv, TypeOK
<1>2. BreakersGood'
  BY DEF BreakersGood
<1>3. HealthCoversBreakers'
  <2> SUFFICES ASSUME NEW q \in Guarded, NEW h \in Generations
               PROVE  /\ breaker'[q][h].total <= health[q].total
                      /\ breaker'[q][h].failed <= health[q].failed
    BY DEF HealthCoversBreakers
  <2>1. /\ breaker[q][h] \in Breaker /\ breaker'[q][h] \in Breaker
        /\ health[q].total \in Nat /\ health[q].failed \in Nat
    BY ServiceAssumption DEF IInv, TypeOK
  <2>2. /\ breaker[q][h].total <= health[q].total
        /\ breaker[q][h].failed <= health[q].failed
    BY DEF IInv, HealthCoversBreakers
  <2> QED
    BY <2>1, <2>2 DEF Breaker
<1>4. FallbackBudget' /\ FallbackTargetsExist' /\ CallsHaveProvider'
  BY DEF IInv, FallbackBudget, FallbackTargetsExist, CallsHaveProvider
<1> QED
  BY <1>1, <1>2, <1>3, <1>4 DEF IInv

-----------------------------------------------------------------------------
(* The fallback counter and the entry into a fallback.                      *)

\* get_fallback_provider moves the counter up by at most one, never past the
\* limit, and by exactly one when a fallback provider can be called.
LEMMA CounterFacts ==
    ASSUME NEW p \in Registered, NEW n \in Nat
    PROVE  /\ CountAfterGet(n) \in Nat
           /\ n <= CountAfterGet(n)
           /\ n <= MaxFallbackAttempts => CountAfterGet(n) <= MaxFallbackAttempts
           /\ FallbackTarget(p, n) # None => CountAfterGet(n) = n + 1
           /\ FallbackTarget(p, n) # None => FallbackTarget(p, n) \in Registered \ {p}
<1>1. /\ CountAfterGet(n) \in Nat
      /\ n <= CountAfterGet(n)
      /\ n <= MaxFallbackAttempts => CountAfterGet(n) <= MaxFallbackAttempts
  BY FallbackConfigAssumption DEF CountAfterGet, HasAttemptLeft
<1>2. ASSUME FallbackTarget(p, n) # None
      PROVE  /\ CountAfterGet(n) = n + 1
             /\ FallbackTarget(p, n) \in Registered \ {p}
  <2>1. /\ GetFallbackProvider(n) \in Registered
        /\ Compatible(p, GetFallbackProvider(n))
        /\ FallbackTarget(p, n) = GetFallbackProvider(n)
    BY <1>2 DEF FallbackTarget
  <2>2. HasAttemptLeft(n)
    BY <2>1, <1>2 DEF GetFallbackProvider
  <2> QED
    BY <2>1, <2>2 DEF Compatible, CountAfterGet
<1> QED
  BY <1>1, <1>2

\* should_fallback moves the counter like one get_fallback_provider, or not.
LEMMA DecisionFacts ==
    ASSUME NEW n \in Nat, NEW e \in ErrorType, NEW p \in Registered, NEW st
    PROVE  /\ CountAfterDecision(n, e) \in Nat
           /\ n <= CountAfterDecision(n, e)
           /\ n <= MaxFallbackAttempts => CountAfterDecision(n, e) <= MaxFallbackAttempts
           /\ DecidedTarget(p, n, e) \in Providers \cup {None}
           /\ DecidedTarget(p, n, e) # None => DecisionReason(e, st) \in Reason
<1>1. /\ CountAfterDecision(n, e) \in Nat
      /\ n <= CountAfterDecision(n, e)
      /\ n <= MaxFallbackAttempts => CountAfterDecision(n, e) <= MaxFallbackAttempts
  BY CounterFacts DEF CountAfterDecision
<1>2. DecidedTarget(p, n, e) \in Providers \cup {None}
  BY FallbackConfigAssumption DEF DecidedTarget, Compatible
<1>3. DecidedTarget(p, n, e) # None => DecisionReason(e, st) \in Reason
  BY DEF DecidedTarget, DecisionReason, Reason
<1> QED
  BY <1>1, <1>2, <1>3

\* Entering a fallback, or failing to, keeps the calls well formed and counts
\* the attempt that was sent.
LEMMA EnterFallbackStep ==
    ASSUME IInv, NEW c \in Calls, NEW p \in Registered, NEW m \in Nat,
           NEW reason \in Reason,
           EnterFallback(c, p, FallbackTarget(p, m), reason)
    PROVE  /\ call' \in [Calls -> CallState]
           /\ FallbackTargetsExist'
           /\ CallsHaveProvider'
           /\ attempts' \in [Registered -> Nat]
           /\ \A q \in Registered \ {p} : attempts'[q] = attempts[q]
           /\ attempts'[p] + m <= attempts[p] + CountAfterGet(m)
<1> DEFINE target == FallbackTarget(p, m)
           entry  == IF target = None THEN Idle
                     ELSE [Idle EXCEPT !.pc = "fallback", !.provider = p,
                                       !.target = target, !.reason = reason]
<1>1. Idle \in CallState /\ Idle.pc = "idle"
  BY ServiceAssumption DEF Idle, CallState, Generations
<1>2. target # None => target \in Registered \ {p} /\ CountAfterGet(m) = m + 1
  BY CounterFacts
<1>3. entry \in CallState
  BY <1>1, <1>2, ServiceAssumption DEF CallState, Reason
<1>4. /\ entry.pc # "idle" => entry.provider = p
      /\ entry.pc = "fallback" => entry.target \in Registered \ {p}
  BY <1>1, <1>2 DEF Idle
<1> HIDE DEF entry
<1>5. call' = [call EXCEPT ![c] = entry]
  BY DEF EnterFallback, entry
<1>6. call' \in [Calls -> CallState]
  BY <1>3, <1>5 DEF IInv, TypeOK
<1>7. \A d \in Calls : call'[d] = IF d = c THEN entry ELSE call[d]
  BY <1>5 DEF IInv, TypeOK
<1>8. CallsHaveProvider'
  BY <1>4, <1>7 DEF IInv, CallsHaveProvider
<1>8a. entry.pc = "fallback" => entry.target \in Registered \ {entry.provider}
  BY <1>4
<1>9. FallbackTargetsExist'
  BY <1>7, <1>8a DEF IInv, FallbackTargetsExist
<1>10. attempts \in [Registered -> Nat]
  BY DEF IInv, TypeOK
<1>11. /\ attempts' \in [Registered -> Nat]
       /\ \A q \in Registered \ {p} : attempts'[q] = attempts[q]
       /\ attempts'[p] = IF target = None THEN attempts[p] ELSE attempts[p] + 1
  BY <1>10 DEF EnterFallback
<1>12. attempts'[p] + m <= attempts[p] + CountAfterGet(m)
  BY <1>2, <1>10, <1>11, CounterFacts
<1> QED
  BY <1>6, <1>8, <1>9, <1>11, <1>12

\* A call that ends leaves the other calls as they were.
LEMMA CallEnds ==
    ASSUME IInv, NEW c \in Calls, call' = [call EXCEPT ![c] = Idle]
    PROVE  /\ call' \in [Calls -> CallState]
           /\ FallbackTargetsExist'
           /\ CallsHaveProvider'
<1>1. Idle \in CallState /\ Idle.pc = "idle"
  BY ServiceAssumption DEF Idle, CallState, Generations
<1>2. call' \in [Calls -> CallState]
  BY <1>1 DEF IInv, TypeOK
<1>3. \A d \in Calls : call'[d] = IF d = c THEN Idle ELSE call[d]
  BY DEF IInv, TypeOK
<1>4. CallsHaveProvider'
  BY <1>1, <1>3 DEF IInv, CallsHaveProvider
<1>5. FallbackTargetsExist'
  BY <1>1, <1>3 DEF IInv, FallbackTargetsExist
<1> QED
  BY <1>2, <1>4, <1>5

-----------------------------------------------------------------------------
(* Each action preserves the invariant.                                     *)

LEMMA AdmitStep ==
    ASSUME IInv, NEW c \in Calls, NEW p \in Requested, NEW useFallback \in BOOLEAN,
           Admit(c, p, useFallback)
    PROVE  IInv'
<1> DEFINE entry ==
      [Idle EXCEPT
         !.pc = "primary", !.provider = p, !.useFallback = useFallback,
         !.gen = IF p \in Guarded THEN generation[p] ELSE 1]
<1>1. p \in Registered /\ p \in Providers
  BY ServiceAssumption
<1>2. Idle \in CallState /\ Idle.pc = "idle"
  BY ServiceAssumption DEF Idle, CallState, Generations
<1>3. entry \in CallState
  <2>1. (IF p \in Guarded THEN generation[p] ELSE 1) \in Generations
    BY ServiceAssumption DEF IInv, TypeOK, Generations
  <2> QED
    BY <1>1, <1>2, <2>1 DEF CallState
<1>4. entry.pc = "primary" /\ entry.provider = p
  BY DEF Idle
<1>5. call' = [call EXCEPT ![c] = entry]
  BY DEF Admit
<1> HIDE DEF entry
<1>6. \A d \in Calls : call'[d] = IF d = c THEN entry ELSE call[d]
  BY <1>5 DEF IInv, TypeOK
<1>7. call' \in [Calls -> CallState]
  BY <1>3, <1>5 DEF IInv, TypeOK
<1>8. FallbackTargetsExist' /\ CallsHaveProvider'
  BY <1>1, <1>4, <1>6 DEF IInv, FallbackTargetsExist, CallsHaveProvider
<1>9. admitted' \in [Registered -> Nat]
  BY <1>1 DEF Admit, IInv, TypeOK
<1>10. UNCHANGED <<generation, health, fallbackCount, cancelled, attempts>>
  BY DEF Admit
<1>11. FallbackBudget'
  BY <1>10 DEF IInv, FallbackBudget
<1>12. /\ breaker' \in [Guarded -> [Generations -> Breaker]]
       /\ BreakersGood'
       /\ HealthCoversBreakers'
  <2>1. CASE p \in Guarded
    <3> DEFINE b == AfterCanExecute(breaker[p][generation[p]])
    <3>1. generation[p] \in Generations
      BY <2>1 DEF IInv, TypeOK
    <3>2. GoodBreaker(breaker[p][generation[p]])
      BY <2>1, <3>1 DEF IInv, BreakersGood
    <3>3. GoodBreaker(b)
      BY <3>2, AfterCanExecuteGood
    <3>4. b.total = breaker[p][generation[p]].total
          /\ b.failed = breaker[p][generation[p]].failed
      BY <3>2, BreakerCounts
    <3>5. breaker' = [breaker EXCEPT ![p][generation[p]] = b]
      BY <2>1 DEF Admit
    <3> HIDE DEF b
    <3>6. /\ breaker' \in [Guarded -> [Generations -> Breaker]]
          /\ BreakersGood'
          /\ \A q \in Guarded, h \in Generations :
                breaker'[q][h] = IF q = p /\ h = generation[p] THEN b ELSE breaker[q][h]
      BY <2>1, <3>1, <3>3, <3>5, UpdateBreaker DEF IInv
    <3>7. HealthCoversBreakers'
      BY <3>4, <3>6, <1>10 DEF IInv, HealthCoversBreakers
    <3> QED
      BY <3>6, <3>7
  <2>2. CASE p \notin Guarded
    BY <2>2, <1>10 DEF Admit, IInv, TypeOK, BreakersGood, HealthCoversBreakers
  <2> QED
    BY <2>1, <2>2
<1> QED
  BY <1>7, <1>8, <1>9, <1>10, <1>11, <1>12 DEF IInv, TypeOK

LEMMA FailFastStep ==
    ASSUME IInv, NEW c \in Calls, NEW p \in Requested, FailFast(c, p)
    PROVE  IInv'
<1> DEFINE n == fallbackCount[p]
<1>1. p \in Registered
  BY ServiceAssumption
<1>2. n \in Nat /\ fallbackCount \in [Registered -> Nat]
  BY <1>1 DEF IInv, TypeOK
<1>3. /\ fallbackCount' = [fallbackCount EXCEPT ![p] = CountAfterGet(n)]
      /\ EnterFallback(c, p, FallbackTarget(p, n), "circuit_open")
      /\ UNCHANGED <<breaker, generation, health, admitted, cancelled>>
  BY DEF FailFast
<1>4. "circuit_open" \in Reason /\ None \in Providers \cup {None}
  BY DEF Reason
<1> HIDE DEF n
<1>5. /\ call' \in [Calls -> CallState]
      /\ FallbackTargetsExist'
      /\ CallsHaveProvider'
      /\ attempts' \in [Registered -> Nat]
      /\ \A q \in Registered \ {p} : attempts'[q] = attempts[q]
      /\ attempts'[p] + n <= attempts[p] + CountAfterGet(n)
  BY <1>1, <1>2, <1>3, <1>4, EnterFallbackStep
<1>6. /\ CountAfterGet(n) \in Nat
      /\ n <= MaxFallbackAttempts => CountAfterGet(n) <= MaxFallbackAttempts
  BY <1>1, <1>2, CounterFacts
<1>7. fallbackCount' \in [Registered -> Nat]
  BY <1>2, <1>3, <1>6
<1>8. FallbackBudget'
  <2>1. FallbackBudget
    BY DEF IInv
  <2>2. attempts[p] \in Nat /\ attempts[p] <= n /\ n <= MaxFallbackAttempts
    BY <1>1, <2>1 DEF FallbackBudget, IInv, TypeOK, n
  <2>3. attempts'[p] <= fallbackCount'[p] /\ fallbackCount'[p] <= MaxFallbackAttempts
    <3>1. fallbackCount'[p] = CountAfterGet(n) /\ attempts'[p] \in Nat
      BY <1>1, <1>2, <1>3, <1>5
    <3> QED
      BY <3>1, <1>2, <1>5, <1>6, <2>2, FallbackConfigAssumption
  <2>4. \A q \in Registered \ {p} : /\ attempts'[q] = attempts[q]
                                    /\ fallbackCount'[q] = fallbackCount[q]
    BY <1>2, <1>3, <1>5
  <2> QED
    BY <2>1, <2>3, <2>4 DEF FallbackBudget
<1>9. BreakersGood' /\ HealthCoversBreakers'
  BY <1>3 DEF IInv, BreakersGood, HealthCoversBreakers
<1> QED
  BY <1>3, <1>5, <1>7, <1>8, <1>9 DEF IInv, TypeOK

\* An answer is recorded in the breaker that admitted the call and in the
\* health record, in the same step: the record keeps covering the breakers.
LEMMA AnswerRecorded ==
    ASSUME IInv, NEW c \in Calls, NEW p \in Registered, NEW ok \in BOOLEAN,
           call[c].pc = "primary", p = call[c].provider,
           RecordHealth(p, ok),
           breaker' = IF p \in Guarded
                      THEN [breaker EXCEPT ![p][call[c].gen] =
                              IF ok THEN RecordSuccess(@) ELSE RecordFailure(@)]
                      ELSE breaker
    PROVE  /\ breaker' \in [Guarded -> [Generations -> Breaker]]
           /\ BreakersGood'
           /\ health' \in [Registered -> [total : Nat, failed : Nat, healthy : BOOLEAN]]
           /\ HealthCoversBreakers'
<1> DEFINE g == call[c].gen
           o == breaker[p][g]
           b == IF ok THEN RecordSuccess(o) ELSE RecordFailure(o)
           d == IF ok THEN 0 ELSE 1
<1>1. health \in [Registered -> [total : Nat, failed : Nat, healthy : BOOLEAN]]
  BY DEF IInv, TypeOK
<1>2. health[p].total + 1 \in Nat /\ health[p].failed + d \in Nat
  BY <1>1
<1>3. health' \in [Registered -> [total : Nat, failed : Nat, healthy : BOOLEAN]]
  BY <1>1, <1>2 DEF RecordHealth
<1>4. /\ health'[p].total = health[p].total + 1
      /\ health'[p].failed = health[p].failed + d
      /\ \A q \in Registered \ {p} : health'[q] = health[q]
  BY <1>1, <1>2 DEF RecordHealth
<1>5. \A q \in Guarded, h \in Generations :
         /\ breaker[q][h].total \in Nat /\ breaker[q][h].failed \in Nat
         /\ breaker[q][h].total <= health[q].total
         /\ breaker[q][h].failed <= health[q].failed
  BY DEF IInv, HealthCoversBreakers, BreakersGood, GoodBreaker, Breaker
<1>6. CASE p \in Guarded
  <2>1. g \in Generations
    BY DEF IInv, TypeOK, CallState
  <2>2. GoodBreaker(o)
    BY <1>6, <2>1 DEF IInv, BreakersGood
  <2>3. GoodBreaker(b)
    BY <2>2, RecordSuccessGood, RecordFailureGood
  <2>4. b.total = o.total + 1 /\ b.failed = o.failed + d
    <3>1. o.total \in Nat /\ o.failed \in Nat
      BY <1>5, <1>6, <2>1
    <3>2. CASE ok
      BY <2>2, <3>1, <3>2, BreakerCounts
    <3>3. CASE ~ok
      BY <2>2, <3>1, <3>3, BreakerCounts
    <3> QED
      BY <3>2, <3>3
  <2>5. breaker' = [breaker EXCEPT ![p][g] = b]
    BY <1>6
  <2> HIDE DEF b, g
  <2>6. /\ breaker' \in [Guarded -> [Generations -> Breaker]]
        /\ BreakersGood'
        /\ \A q \in Guarded, h \in Generations :
              breaker'[q][h] = IF q = p /\ h = g THEN b ELSE breaker[q][h]
    <3>1. TypeOK /\ BreakersGood
      BY DEF IInv
    <3> QED
      BY ONLY <1>6, <2>1, <2>3, <2>5, <3>1, UpdateBreaker
  <2>7. HealthCoversBreakers'
    <3> SUFFICES ASSUME NEW q \in Guarded, NEW h \in Generations
                 PROVE  /\ breaker'[q][h].total <= health'[q].total
                        /\ breaker'[q][h].failed <= health'[q].failed
      BY DEF HealthCoversBreakers
    <3>1. q \in Registered
      BY ServiceAssumption
    <3>2. health[q].total \in Nat /\ health[q].failed \in Nat
      BY <1>1, <3>1
    <3>3. CASE q = p /\ h = g
      BY <1>4, <1>5, <1>6, <2>1, <2>4, <2>6, <3>2, <3>3
    <3>4. CASE q = p /\ h # g
      BY <1>4, <1>5, <2>6, <3>2, <3>4
    <3>5. CASE q # p
      BY <1>4, <1>5, <2>6, <3>1, <3>5
    <3> QED
      BY <3>3, <3>4, <3>5
  <2> QED
    BY <1>3, <2>6, <2>7
<1>7. CASE p \notin Guarded
  <2>1. breaker' = breaker
    BY <1>7
  <2>2. \A q \in Guarded : q \in Registered \ {p}
    BY <1>7, ServiceAssumption
  <2>3. HealthCoversBreakers'
    BY <1>4, <1>5, <2>1, <2>2 DEF HealthCoversBreakers
  <2> QED
    BY <1>3, <2>1, <2>3 DEF IInv, TypeOK, BreakersGood
<1> QED
  BY <1>6, <1>7

LEMMA PrimarySucceedsStep ==
    ASSUME IInv, NEW c \in Calls, PrimarySucceeds(c)
    PROVE  IInv'
<1> DEFINE p == call[c].provider
<1>1. call[c].pc = "primary" /\ p \in Registered
  BY DEF PrimarySucceeds, IInv, CallsHaveProvider
<1>2. /\ RecordHealth(p, TRUE)
      /\ breaker' = IF p \in Guarded
                    THEN [breaker EXCEPT ![p][call[c].gen] = RecordSuccess(@)]
                    ELSE breaker
  BY DEF PrimarySucceeds, BreakerAfter
<1>3. /\ breaker' \in [Guarded -> [Generations -> Breaker]]
      /\ BreakersGood'
      /\ health' \in [Registered -> [total : Nat, failed : Nat, healthy : BOOLEAN]]
      /\ HealthCoversBreakers'
  BY <1>1, <1>2, AnswerRecorded
<1>4. /\ call' = [call EXCEPT ![c] = Idle]
      /\ UNCHANGED <<generation, fallbackCount, admitted, cancelled, attempts>>
  BY DEF PrimarySucceeds
<1>5. /\ call' \in [Calls -> CallState]
      /\ FallbackTargetsExist'
      /\ CallsHaveProvider'
  BY <1>4, CallEnds
<1>6. FallbackBudget'
  BY <1>4 DEF IInv, FallbackBudget
<1> QED
  BY <1>3, <1>4, <1>5, <1>6 DEF IInv, TypeOK

\* The fallback half of a failure keeps the budget on each of its paths: no
\* fallback allowed, none decided, decided but unavailable, and sent.
LEMMA FallBackOrRaiseStep ==
    ASSUME IInv, NEW c \in Calls, NEW p \in Registered, NEW e \in ErrorType,
           FallBackOrRaise(c, p, e)
    PROVE  /\ call' \in [Calls -> CallState]
           /\ FallbackTargetsExist'
           /\ CallsHaveProvider'
           /\ attempts' \in [Registered -> Nat]
           /\ fallbackCount' \in [Registered -> Nat]
           /\ FallbackBudget'
<1> DEFINE n       == fallbackCount[p]
           decided == DecidedTarget(p, n, e)
           m       == CountAfterDecision(n, e)
           reason  == DecisionReason(e, CircuitStateAfterFailure(c))
<1>1. /\ fallbackCount \in [Registered -> Nat] /\ attempts \in [Registered -> Nat]
      /\ n \in Nat /\ attempts[p] \in Nat
  BY DEF IInv, TypeOK
<1>2. attempts[p] <= n /\ n <= MaxFallbackAttempts /\ FallbackBudget
  BY DEF IInv, FallbackBudget
<1>3. /\ m \in Nat /\ n <= m /\ m <= MaxFallbackAttempts
      /\ decided \in Providers \cup {None}
      /\ decided # None => reason \in Reason
  BY <1>1, <1>2, DecisionFacts
<1>4. CASE call[c].useFallback /\ decided # None
  <2>1. /\ fallbackCount' = [fallbackCount EXCEPT ![p] = CountAfterGet(m)]
        /\ EnterFallback(c, p, FallbackTarget(p, m), reason)
    BY <1>4 DEF FallBackOrRaise
  <2> HIDE DEF n, decided, m, reason
  <2>2. /\ call' \in [Calls -> CallState]
        /\ FallbackTargetsExist'
        /\ CallsHaveProvider'
        /\ attempts' \in [Registered -> Nat]
        /\ \A q \in Registered \ {p} : attempts'[q] = attempts[q]
        /\ attempts'[p] + m <= attempts[p] + CountAfterGet(m)
    <3>1. reason \in Reason
      BY <1>3, <1>4
    <3>2. IInv
      OBVIOUS
    <3> QED
      BY ONLY <1>3, <2>1, <3>1, <3>2, EnterFallbackStep,
              c \in Calls, p \in Registered
  <2>3. CountAfterGet(m) \in Nat /\ CountAfterGet(m) <= MaxFallbackAttempts
    BY <1>3, CounterFacts
  <2>4. /\ fallbackCount' \in [Registered -> Nat]
        /\ fallbackCount'[p] = CountAfterGet(m)
        /\ \A q \in Registered \ {p} : fallbackCount'[q] = fallbackCount[q]
    BY <1>1, <2>1, <2>3
  <2>5. attempts'[p] <= fallbackCount'[p] /\ fallbackCount'[p] <= MaxFallbackAttempts
    <3>1. attempts'[p] \in Nat
      BY <2>2
    <3> QED
      BY <1>1, <1>2, <1>3, <2>2, <2>3, <2>4, <3>1
  <2>6. FallbackBudget'
    BY <1>2, <2>2, <2>4, <2>5 DEF FallbackBudget
  <2> QED
    BY <2>2, <2>4, <2>6
<1>5. CASE call[c].useFallback /\ decided = None
  <2>1. /\ fallbackCount' = [fallbackCount EXCEPT ![p] = m]
        /\ call' = [call EXCEPT ![c] = Idle]
        /\ UNCHANGED attempts
    BY <1>5 DEF FallBackOrRaise
  <2> HIDE DEF n, decided, m, reason
  <2>2. /\ fallbackCount' \in [Registered -> Nat]
        /\ fallbackCount'[p] = m
        /\ \A q \in Registered \ {p} : fallbackCount'[q] = fallbackCount[q]
    BY <1>1, <1>3, <2>1
  <2>3. FallbackBudget'
    BY <1>1, <1>2, <1>3, <2>1, <2>2, FallbackConfigAssumption DEF FallbackBudget
  <2> QED
    BY <1>1, <2>1, <2>2, <2>3, CallEnds
<1>6. CASE ~call[c].useFallback
  <2>1. /\ call' = [call EXCEPT ![c] = Idle]
        /\ UNCHANGED <<fallbackCount, attempts>>
    BY <1>6 DEF FallBackOrRaise
  <2>2. FallbackBudget'
    BY <1>2, <2>1 DEF FallbackBudget
  <2> QED
    BY <1>1, <2>1, <2>2, CallEnds
<1> QED
  BY <1>4, <1>5, <1>6

LEMMA PrimaryFailsStep ==
    ASSUME IInv, NEW c \in Calls, NEW e \in ErrorType, PrimaryFails(c, e)
    PROVE  IInv'
<1> DEFINE p == call[c].provider
<1>1. call[c].pc = "primary" /\ p \in Registered
  BY DEF PrimaryFails, IInv, CallsHaveProvider
<1>2. /\ RecordHealth(p, FALSE)
      /\ breaker' = IF p \in Guarded
                    THEN [breaker EXCEPT ![p][call[c].gen] = RecordFailure(@)]
                    ELSE breaker
  BY DEF PrimaryFails, BreakerAfter
<1>3. /\ breaker' \in [Guarded -> [Generations -> Breaker]]
      /\ BreakersGood'
      /\ health' \in [Registered -> [total : Nat, failed : Nat, healthy : BOOLEAN]]
      /\ HealthCoversBreakers'
  BY <1>1, <1>2, AnswerRecorded
<1>4. FallBackOrRaise(c, p, e) /\ UNCHANGED <<generation, admitted, cancelled>>
  BY DEF PrimaryFails
<1>5. /\ call' \in [Calls -> CallState]
      /\ FallbackTargetsExist'
      /\ CallsHaveProvider'
      /\ attempts' \in [Registered -> Nat]
      /\ fallbackCount' \in [Registered -> Nat]
      /\ FallbackBudget'
  BY <1>1, <1>4, FallBackOrRaiseStep
<1> QED
  BY <1>3, <1>4, <1>5 DEF IInv, TypeOK

LEMMA PrimaryCancelledStep ==
    ASSUME IInv, NEW c \in Calls, PrimaryCancelled(c)
    PROVE  IInv'
<1>1. call[c].provider \in Registered
  BY DEF PrimaryCancelled, IInv, CallsHaveProvider
<1>2. /\ call' = [call EXCEPT ![c] = Idle]
      /\ cancelled' = [cancelled EXCEPT ![call[c].provider] = @ + 1]
      /\ UNCHANGED <<breaker, generation, health, fallbackCount, admitted, attempts>>
  BY DEF PrimaryCancelled
<1>3. /\ call' \in [Calls -> CallState]
      /\ FallbackTargetsExist'
      /\ CallsHaveProvider'
  BY <1>2, CallEnds
<1>4. cancelled' \in [Registered -> Nat]
  BY <1>1, <1>2 DEF IInv, TypeOK
<1>5. BreakersGood' /\ HealthCoversBreakers' /\ FallbackBudget'
  BY <1>2 DEF IInv, BreakersGood, HealthCoversBreakers, FallbackBudget
<1> QED
  BY <1>2, <1>3, <1>4, <1>5 DEF IInv, TypeOK

LEMMA FallbackReturnsStep ==
    ASSUME IInv, NEW c \in Calls, FallbackReturns(c)
    PROVE  IInv'
<1>1. /\ call' = [call EXCEPT ![c] = Idle]
      /\ UNCHANGED <<breaker, generation, health, fallbackCount,
                     admitted, cancelled, attempts>>
  BY DEF FallbackReturns
<1>2. /\ call' \in [Calls -> CallState]
      /\ FallbackTargetsExist'
      /\ CallsHaveProvider'
  BY <1>1, CallEnds
<1>3. BreakersGood' /\ HealthCoversBreakers' /\ FallbackBudget'
  BY <1>1 DEF IInv, BreakersGood, HealthCoversBreakers, FallbackBudget
<1> QED
  BY <1>1, <1>2, <1>3 DEF IInv, TypeOK

\* Every breaker the service holds is good and has natural counters.
LEMMA HeldBreakers ==
    ASSUME IInv
    PROVE  /\ breaker \in [Guarded -> [Generations -> Breaker]]
           /\ \A q \in Guarded, h \in Generations :
                 /\ GoodBreaker(breaker[q][h])
                 /\ breaker[q][h].total \in Nat /\ breaker[q][h].failed \in Nat
BY DEF IInv, TypeOK, BreakersGood, GoodBreaker, Breaker

LEMMA GetCircuitBreakerStatusStep ==
    ASSUME IInv, NEW p \in Guarded, GetCircuitBreakerStatus(p)
    PROVE  IInv'
<1> DEFINE o == breaker[p][generation[p]]
           b == AfterCanExecute(o)
<1>1. generation[p] \in Generations
  BY DEF IInv, TypeOK
<1>2. GoodBreaker(o) /\ o.total \in Nat /\ o.failed \in Nat
  BY <1>1, HeldBreakers
<1>3. GoodBreaker(b) /\ b.total = o.total /\ b.failed = o.failed
  BY <1>2, AfterCanExecuteGood, BreakerCounts
<1>4. breaker' = [breaker EXCEPT ![p][generation[p]] = b]
  BY DEF GetCircuitBreakerStatus
<1> HIDE DEF b
<1>5. /\ breaker' \in [Guarded -> [Generations -> Breaker]]
      /\ BreakersGood'
      /\ \A q \in Guarded, h \in Generations :
            breaker'[q][h] = IF q = p /\ h = generation[p] THEN b ELSE breaker[q][h]
  BY <1>1, <1>3, <1>4, UpdateBreaker DEF IInv
<1>6. \A q \in Guarded, h \in Generations :
         /\ GoodBreaker(breaker'[q][h])
         /\ breaker'[q][h].total <= breaker[q][h].total
         /\ breaker'[q][h].failed <= breaker[q][h].failed
  BY <1>2, <1>3, <1>5, HeldBreakers
<1> QED
  BY <1>5, <1>6, QuietUpdate DEF GetCircuitBreakerStatus

LEMMA GetServiceStatusStep ==
    ASSUME IInv, GetServiceStatus
    PROVE  IInv'
<1>1. \A q \in Guarded : generation[q] \in Generations
  BY DEF IInv, TypeOK
<1>2. \A q \in Guarded, h \in Generations :
         breaker'[q][h] = IF h = generation[q]
                          THEN AfterCanExecute(breaker[q][h]) ELSE breaker[q][h]
  BY <1>1, HeldBreakers DEF GetServiceStatus
<1>3. \A q \in Guarded, h \in Generations :
         /\ GoodBreaker(breaker'[q][h])
         /\ breaker'[q][h].total <= breaker[q][h].total
         /\ breaker'[q][h].failed <= breaker[q][h].failed
  BY <1>2, HeldBreakers, AfterCanExecuteGood, BreakerCounts
<1>4. \A q \in Guarded : AfterCanExecute(breaker[q][generation[q]]) \in Breaker
  BY <1>1, HeldBreakers, AfterCanExecuteGood DEF GoodBreaker
<1>5. breaker' \in [Guarded -> [Generations -> Breaker]]
  BY <1>4, HeldBreakers DEF GetServiceStatus
<1> QED
  BY <1>3, <1>5, QuietUpdate DEF GetServiceStatus

LEMMA ResetCircuitBreakerStep ==
    ASSUME IInv, NEW p \in Guarded, ResetCircuitBreaker(p)
    PROVE  IInv'
<1>1. generation[p] \in Generations
  BY DEF IInv, TypeOK
<1>2. breaker' = [breaker EXCEPT ![p][generation[p]] = NewBreaker]
  BY DEF ResetCircuitBreaker, ResetBreaker
<1>3. GoodBreaker(NewBreaker) /\ NewBreaker.total = 0 /\ NewBreaker.failed = 0
  BY NewBreakerGood DEF NewBreaker
<1>4. /\ breaker' \in [Guarded -> [Generations -> Breaker]]
      /\ BreakersGood'
      /\ \A q \in Guarded, h \in Generations :
            breaker'[q][h] = IF q = p /\ h = generation[p]
                             THEN NewBreaker ELSE breaker[q][h]
  BY <1>1, <1>2, <1>3, UpdateBreaker DEF IInv
<1>5. \A q \in Guarded, h \in Generations :
         /\ GoodBreaker(breaker'[q][h])
         /\ breaker'[q][h].total <= breaker[q][h].total
         /\ breaker'[q][h].failed <= breaker[q][h].failed
  BY <1>3, <1>4, HeldBreakers
<1> QED
  BY <1>4, <1>5, QuietUpdate DEF ResetCircuitBreaker

LEMMA RegisterProviderAgainStep ==
    ASSUME IInv, NEW p \in Guarded, RegisterProviderAgain(p)
    PROVE  IInv'
<1> DEFINE g == generation[p] + 1
<1>1. /\ g \in Generations
      /\ generation' \in [Guarded -> Generations]
      /\ UNCHANGED <<health, fallbackCount, call, admitted, cancelled, attempts>>
  BY ServiceAssumption DEF RegisterProviderAgain, IInv, TypeOK, Generations
<1>2. breaker' = [breaker EXCEPT ![p][g] = NewBreaker]
  BY DEF RegisterProviderAgain
<1>3. GoodBreaker(NewBreaker) /\ NewBreaker.total = 0 /\ NewBreaker.failed = 0
  BY NewBreakerGood DEF NewBreaker
<1> HIDE DEF g
<1>4. /\ breaker' \in [Guarded -> [Generations -> Breaker]]
      /\ BreakersGood'
      /\ \A q \in Guarded, h \in Generations :
            breaker'[q][h] = IF q = p /\ h = g THEN NewBreaker ELSE breaker[q][h]
  BY <1>1, <1>2, <1>3, UpdateBreaker DEF IInv
<1>5. \A q \in Guarded :
         q \in Registered /\ health[q].total \in Nat /\ health[q].failed \in Nat
  BY ServiceAssumption DEF IInv, TypeOK
<1>6. HealthCoversBreakers'
  BY <1>1, <1>3, <1>4, <1>5 DEF IInv, HealthCoversBreakers
<1>7. FallbackBudget' /\ FallbackTargetsExist' /\ CallsHaveProvider'
  BY <1>1 DEF IInv, FallbackBudget, FallbackTargetsExist, CallsHaveProvider
<1> QED
  BY <1>1, <1>4, <1>6, <1>7 DEF IInv, TypeOK

LEMMA TickStep ==
    ASSUME IInv, Tick
    PROVE  IInv'
<1>1. \A q \in Guarded, h \in Generations : breaker'[q][h] = Aged(breaker[q][h])
  BY DEF Tick
<1>2. \A q \in Guarded, h \in Generations :
         /\ GoodBreaker(breaker'[q][h])
         /\ breaker'[q][h].total <= breaker[q][h].total
         /\ breaker'[q][h].failed <= breaker[q][h].failed
  BY <1>1, HeldBreakers, AgedGood, BreakerCounts
<1>3. breaker' \in [Guarded -> [Generations -> Breaker]]
  BY HeldBreakers, AgedGood DEF Tick, GoodBreaker
<1> QED
  BY <1>2, <1>3, QuietUpdate DEF Tick

\* Every step of the service preserves the invariant.
LEMMA NextIInv == IInv /\ [Next]_vars => IInv'
<1> SUFFICES ASSUME IInv, [Next]_vars PROVE IInv'
  OBVIOUS
<1>1. ASSUME NEW c \in Calls, NEW p \in Requested, NEW useFallback \in BOOLEAN,
             Admit(c, p, useFallback)
      PROVE  IInv'
  BY <1>1, AdmitStep
<1>2. ASSUME NEW c \in Calls, NEW p \in Requested, FailFast(c, p)
      PROVE  IInv'
  BY <1>2, FailFastStep
<1>3. ASSUME NEW c \in Calls, Answer(c)
      PROVE  IInv'
  BY <1>3, PrimarySucceedsStep, PrimaryFailsStep, PrimaryCancelledStep,
     FallbackReturnsStep DEF Answer
<1>4. ASSUME NEW p \in Guarded,
             GetCircuitBreakerStatus(p) \/ ResetCircuitBreaker(p) \/ RegisterProviderAgain(p)
      PROVE  IInv'
  BY <1>4, GetCircuitBreakerStatusStep, ResetCircuitBreakerStep, RegisterProviderAgainStep
<1>5. CASE GetServiceStatus
  BY <1>5, GetServiceStatusStep
<1>6. CASE Tick
  BY <1>6, TickStep
<1>7. CASE UNCHANGED vars
  BY <1>7 DEF vars, IInv, TypeOK, BreakersGood, HealthCoversBreakers,
              FallbackBudget, FallbackTargetsExist, CallsHaveProvider
<1> QED
  BY <1>1, <1>2, <1>3, <1>4, <1>5, <1>6, <1>7 DEF Next

-----------------------------------------------------------------------------
(* The theorems.                                                            *)

\* The inductive invariant holds in every reachable state of complete(),
\* registration, resets and status reads, however they interleave.
THEOREM Invariance == Spec => []IInv
  BY InitIInv, NextIInv, PTL DEF Spec

\* The state of the service keeps its shape: every answer, decision and
\* registration writes values of the right kind (provider_service.py).
THEOREM TypeCorrect == Spec => []TypeOK
<1>1. IInv => TypeOK
  BY DEF IInv
<1> QED
  BY <1>1, Invariance, PTL

\* The breakers stay coherent whatever order admissions, answers, resets and
\* status reads come in (circuit_breaker.py).
THEOREM BreakersStayCoherent == Spec => []BreakerCoherent
<1>1. IInv => BreakerCoherent
  BY DEF IInv, BreakersGood, GoodBreaker, BreakerCoherent
<1> QED
  BY <1>1, Invariance, PTL

\* A half-open breaker always admits another probe: cancelled or late probes
\* never use up the allowance of can_execute.
THEOREM HalfOpenAlwaysProbed == Spec => []HalfOpenNeverWedged
<1>1. IInv => HalfOpenNeverWedged
  BY DEF IInv, BreakersGood, GoodBreaker, HalfOpenNeverWedged, CanExecute
<1> QED
  BY <1>1, Invariance, PTL

\* A breaker that is not closed has seen its minimum of requests and a failure
\* since its last reset (_should_trip).
THEOREM OpenNeedsEvidence == Spec => []EvidenceBehindOpen
<1>1. IInv => EvidenceBehindOpen
  BY DEF IInv, BreakersGood, GoodBreaker, EvidenceBehindOpen
<1> QED
  BY <1>1, Invariance, PTL

\* The health monitor has seen every answer any breaker of the provider has
\* (complete() records both; only breakers are reset or replaced).
THEOREM HealthCovers == Spec => []HealthCoversBreakers
<1>1. IInv => HealthCoversBreakers
  BY DEF IInv
<1> QED
  BY <1>1, Invariance, PTL

\* Whatever fallback_providers lists, a fallback call goes to another provider
\* that is registered (validate_provider_compatibility, _attempt_fallback).
THEOREM FallbacksGoElsewhere == Spec => []FallbackTargetsExist
<1>1. IInv => FallbackTargetsExist
  BY DEF IInv
<1> QED
  BY <1>1, Invariance, PTL

\* However many calls fail at once and on whichever path, the fallback calls
\* of a primary stay within max_fallback_attempts (fallback.py).
THEOREM FallbacksBounded == Spec => []FallbackBudget
<1>1. IInv => FallbackBudget
  BY DEF IInv
<1> QED
  BY <1>1, Invariance, PTL

-----------------------------------------------------------------------------
(* ProviderService implements BreakerContract for each guarded provider.   *)
(* The refinement mapping is Contract(p) of ProviderService: the state of  *)
(* the breaker that new calls consult, whether its open timeout has run    *)
(* out, the primary calls in flight, and the calls of other providers that *)
(* have fallen back to p.                                                  *)

\* The abstract variable "cooled" for one breaker.
Cooled(b) == b.state = "open" /\ ShouldAttemptRecovery(b)

\* Two breakers that the contract cannot tell apart.
SameView(b, d) == d.state = b.state /\ Cooled(d) = Cooled(b)

\* can_execute, seen through the mapping: a call it admits is a Start, and a
\* status read is an Observe or nothing.
LEMMA AfterCanExecuteView ==
    ASSUME NEW b, GoodBreaker(b)
    PROVE  /\ ~Cooled(b) => SameView(b, AfterCanExecute(b))
           /\ Cooled(b) => /\ AfterCanExecute(b).state = "half_open"
                           /\ ~Cooled(AfterCanExecute(b))
           /\ CanExecute(b) => (b.state = "open" => Cooled(b))
<1>1. CASE Cooled(b)
  <2>1. AfterCanExecute(b) = TransitionToHalfOpen(b)
    BY <1>1 DEF Cooled, AfterCanExecute
  <2>2. AfterCanExecute(b).state = "half_open"
    BY <2>1 DEF TransitionToHalfOpen, GoodBreaker, Breaker
  <2> QED
    BY <1>1, <2>2 DEF Cooled
<1>2. CASE ~Cooled(b)
  BY <1>2 DEF Cooled, AfterCanExecute, SameView, CanExecute
<1> QED
  BY <1>1, <1>2

\* record_success, seen through the mapping: nothing, or a half-open circuit
\* closes.
LEMMA RecordSuccessView ==
    ASSUME NEW b, GoodBreaker(b)
    PROVE  \/ SameView(b, RecordSuccess(b))
           \/ /\ b.state = "half_open" /\ RecordSuccess(b).state = "closed"
              /\ ~Cooled(RecordSuccess(b))
<1> DEFINE counted == [b EXCEPT !.total = @ + 1]
           probed  == [counted EXCEPT !.halfOpenCalls = @ + 1]
<1>1. /\ counted.state = b.state /\ counted.openFor = b.openFor
      /\ probed.state = b.state /\ probed.openFor = b.openFor
      /\ TransitionToClosed(probed).state = "closed"
  BY DEF GoodBreaker, Breaker, TransitionToClosed
<1>2. \/ RecordSuccess(b) = counted
      \/ b.state = "half_open" /\ RecordSuccess(b) = probed
      \/ b.state = "half_open" /\ RecordSuccess(b) = TransitionToClosed(probed)
  BY DEF RecordSuccess
<1> HIDE DEF counted, probed
<1> QED
  BY <1>1, <1>2 DEF SameView, Cooled, ShouldAttemptRecovery

\* record_failure, seen through the mapping: nothing, or a circuit that was
\* closed or half-open opens for a fresh open period.
LEMMA RecordFailureView ==
    ASSUME NEW b, GoodBreaker(b)
    PROVE  \/ SameView(b, RecordFailure(b))
           \/ /\ b.state \in {"closed", "half_open"}
              /\ RecordFailure(b).state = "open"
              /\ ~Cooled(RecordFailure(b))
<1> DEFINE counted == [b EXCEPT !.total = @ + 1, !.failed = @ + 1]
<1>1. /\ counted.state = b.state /\ counted.openFor = b.openFor
      /\ TransitionToOpen(counted).state = "open"
      /\ TransitionToOpen(counted).openFor = 0
  BY DEF GoodBreaker, Breaker, TransitionToOpen
<1>2. \/ RecordFailure(b) = counted
      \/ /\ b.state \in {"closed", "half_open"}
         /\ RecordFailure(b) = TransitionToOpen(counted)
  BY DEF RecordFailure
<1> HIDE DEF counted
<1>3. ~Cooled(TransitionToOpen(counted))
  BY <1>1, BreakerConfigAssumption DEF Cooled, ShouldAttemptRecovery
<1> QED
  BY <1>1, <1>2, <1>3 DEF SameView, Cooled, ShouldAttemptRecovery

\* The clock, seen through the mapping: nothing, or an open circuit cools.
LEMMA AgedView ==
    ASSUME NEW b, GoodBreaker(b)
    PROVE  \/ SameView(b, Aged(b))
           \/ b.state = "open" /\ ~Cooled(b) /\ Aged(b).state = "open" /\ Cooled(Aged(b))
<1>1. CASE b.openFor \in 0..(OpenTimeout - 1)
  <2>1. ~Cooled(b)
    BY <1>1, BreakerConfigAssumption DEF Cooled, ShouldAttemptRecovery
  <2>2. Aged(b).state = b.state
    BY DEF Aged, GoodBreaker, Breaker
  <2> QED
    BY <2>1, <2>2 DEF SameView, Cooled
<1>2. CASE b.openFor \notin 0..(OpenTimeout - 1)
  BY <1>2 DEF Aged, SameView
<1> QED
  BY <1>1, <1>2

\* A fresh breaker is the initial state of the contract.
LEMMA NewBreakerView == NewBreaker.state = "closed" /\ ~Cooled(NewBreaker)
BY DEF NewBreaker, Cooled

-----------------------------------------------------------------------------
(* One step of the service, seen from provider p.                           *)

\* What the contract sees of provider p's circuit and of the calls it admitted
\* stays as it is.
ViewStays(p) ==
    /\ SameView(Current(p), Current(p)')
    /\ InFlight(p)' = InFlight(p)

\* A step in which the contract sees nothing is a stuttering step of it.
LEMMA StayingIsStuttering ==
    ASSUME NEW p \in Guarded, ViewStays(p), FallenBackTo(p)' = FallenBackTo(p)
    PROVE  UNCHANGED Contract(p)!contractVars
BY DEF ViewStays, SameView, Cooled, Contract!contractVars

\* Only a call's own entry matters to the set of calls in flight.
LEMMA InFlightAfter ==
    ASSUME IInv, NEW p \in Providers, NEW c \in Calls, NEW entry,
           call' = [call EXCEPT ![c] = entry]
    PROVE  InFlight(p)' = IF entry.pc = "primary" /\ entry.provider = p
                          THEN InFlight(p) \cup {c} ELSE InFlight(p) \ {c}
<1>1. \A d \in Calls : call'[d] = IF d = c THEN entry ELSE call[d]
  BY DEF IInv, TypeOK
<1> QED
  BY <1>1 DEF InFlight

\* Nor to the calls that have fallen back to p.
LEMMA FallenBackAfter ==
    ASSUME IInv, NEW p \in Providers, NEW c \in Calls, NEW entry,
           call' = [call EXCEPT ![c] = entry]
    PROVE  FallenBackTo(p)' = IF entry.pc = "fallback" /\ entry.target = p
                              THEN FallenBackTo(p) \cup {c} ELSE FallenBackTo(p) \ {c}
<1>1. \A d \in Calls : call'[d] = IF d = c THEN entry ELSE call[d]
  BY DEF IInv, TypeOK
<1> QED
  BY <1>1 DEF FallenBackTo

\* What a step may do to provider p's circuit and the calls it admitted: the
\* actions of the contract and stuttering, written with the service's own state
\* functions.
ContractMove(p) ==
    LET b == Current(p)  d == Current(p)'
    IN  \/ ViewStays(p)
        \/ \E c \in Calls :
              /\ c \notin InFlight(p)
              /\ b.state = "open" => Cooled(b)
              /\ d.state = (IF b.state = "open" THEN "half_open" ELSE b.state)
              /\ ~Cooled(d)
              /\ InFlight(p)' = InFlight(p) \cup {c}
        \/ \E c \in Calls :
              /\ c \in InFlight(p)
              /\ InFlight(p)' = InFlight(p) \ {c}
              /\ \/ SameView(b, d)
                 \/ b.state = "closed" /\ d.state = "open" /\ ~Cooled(d)
                 \/ b.state = "half_open" /\ d.state \in {"open", "closed"} /\ ~Cooled(d)
        \/ /\ b.state = "open" /\ ~Cooled(b) /\ d.state = "open" /\ Cooled(d)
           /\ InFlight(p)' = InFlight(p)
        \/ /\ Cooled(b) /\ d.state = "half_open" /\ ~Cooled(d)
           /\ InFlight(p)' = InFlight(p)
        \/ /\ d.state = "closed" /\ ~Cooled(d)
           /\ InFlight(p)' = InFlight(p)

\* What it may do to the calls that have fallen back to p: one of them begins
\* or ends, and then nothing happens to the circuit.
UnaskedMove(p) ==
    \/ FallenBackTo(p)' = FallenBackTo(p)
    \/ /\ ViewStays(p)
       /\ \E c \in Calls : \/ FallenBackTo(p)' = FallenBackTo(p) \cup {c}
                            \/ FallenBackTo(p)' = FallenBackTo(p) \ {c}

\* A step that makes both moves is a step of the contract.
LEMMA MoveIsContractStep ==
    ASSUME NEW p \in Guarded, ContractMove(p), UnaskedMove(p)
    PROVE  [Contract(p)!ContractNext]_(Contract(p)!contractVars)
<1> DEFINE b == Current(p)  d == Current(p)'
<1>0. Cooled(b) => b.state = "open"
  BY DEF Cooled
<1>7. ASSUME ViewStays(p), NEW c \in Calls,
             \/ FallenBackTo(p)' = FallenBackTo(p) \cup {c}
             \/ FallenBackTo(p)' = FallenBackTo(p) \ {c}
      PROVE  Contract(p)!ContractNext
  <2>1. Contract(p)!StartUnasked(c) \/ Contract(p)!SettleUnasked(c)
    BY <1>7 DEF Contract!StartUnasked, Contract!SettleUnasked, ViewStays, SameView, Cooled
  <2> QED
    BY <2>1 DEF Contract!ContractNext
<1>8. SUFFICES ASSUME FallenBackTo(p)' = FallenBackTo(p)
               PROVE  [Contract(p)!ContractNext]_(Contract(p)!contractVars)
  BY <1>7 DEF UnaskedMove
<1>1. CASE ViewStays(p)
  BY <1>1, <1>8, StayingIsStuttering
<1>2. ASSUME NEW c \in Calls,
             c \notin InFlight(p),
             b.state = "open" => Cooled(b),
             d.state = (IF b.state = "open" THEN "half_open" ELSE b.state),
             ~Cooled(d),
             InFlight(p)' = InFlight(p) \cup {c}
      PROVE  Contract(p)!ContractNext
  BY <1>2, <1>8 DEF Contract!ContractNext, Contract!Start, Cooled
<1>3. ASSUME NEW c \in Calls,
             c \in InFlight(p),
             InFlight(p)' = InFlight(p) \ {c},
             \/ SameView(b, d)
             \/ b.state = "closed" /\ d.state = "open" /\ ~Cooled(d)
             \/ b.state = "half_open" /\ d.state \in {"open", "closed"} /\ ~Cooled(d)
      PROVE  Contract(p)!ContractNext
  BY <1>3, <1>8 DEF Contract!ContractNext, Contract!Settle, SameView, Cooled
<1>4. CASE /\ b.state = "open" /\ ~Cooled(b) /\ d.state = "open" /\ Cooled(d)
           /\ InFlight(p)' = InFlight(p)
  BY <1>4, <1>8 DEF Contract!ContractNext, Contract!Cool, Cooled
<1>5. CASE /\ Cooled(b) /\ d.state = "half_open" /\ ~Cooled(d)
           /\ InFlight(p)' = InFlight(p)
  BY <1>5, <1>0, <1>8 DEF Contract!ContractNext, Contract!Observe, Cooled
<1>6. CASE /\ d.state = "closed" /\ ~Cooled(d)
           /\ InFlight(p)' = InFlight(p)
  BY <1>6, <1>8 DEF Contract!ContractNext, Contract!Restart, Cooled
<1> QED
  BY <1>1, <1>2, <1>3, <1>4, <1>5, <1>6 DEF ContractMove

-----------------------------------------------------------------------------
(* Each action is such a move for every guarded provider.                   *)

\* The breaker that new calls of a guarded provider consult is a good one.
LEMMA CurrentGood ==
    ASSUME IInv, NEW p \in Guarded
    PROVE  /\ generation[p] \in Generations
           /\ Current(p) = breaker[p][generation[p]]
           /\ GoodBreaker(Current(p))
           /\ p \in Registered /\ p \in Providers
BY ServiceAssumption DEF IInv, TypeOK, BreakersGood, Current

LEMMA AdmitMove ==
    ASSUME IInv, NEW p \in Guarded,
           NEW c \in Calls, NEW r \in Requested, NEW useFallback \in BOOLEAN,
           Admit(c, r, useFallback)
    PROVE  ContractMove(p)
<1> DEFINE entry ==
      [Idle EXCEPT
         !.pc = "primary", !.provider = r, !.useFallback = useFallback,
         !.gen = IF r \in Guarded THEN generation[r] ELSE 1]
<1>1. entry.pc = "primary" /\ entry.provider = r
  BY DEF Idle
<1>2. call' = [call EXCEPT ![c] = entry] /\ call[c].pc = "idle" /\ generation' = generation
  BY DEF Admit
<1> HIDE DEF entry
<1>3. InFlight(p)' = IF r = p THEN InFlight(p) \cup {c} ELSE InFlight(p) \ {c}
  <2>1. p \in Providers
    BY CurrentGood
  <2>2. InFlight(p)' = IF entry.pc = "primary" /\ entry.provider = p
                       THEN InFlight(p) \cup {c} ELSE InFlight(p) \ {c}
    BY ONLY IInv, <1>2, <2>1, InFlightAfter, c \in Calls
  <2> QED
    BY <1>1, <2>2
<1>4. c \notin InFlight(p)
  BY <1>2 DEF InFlight
<1>5. CASE r = p
  <2>1. breaker' = [breaker EXCEPT ![p][generation[p]] = AfterCanExecute(@)]
    BY <1>5 DEF Admit
  <2>2. Current(p)' = AfterCanExecute(Current(p))
    BY <1>2, <2>1, CurrentGood DEF Current, IInv, TypeOK
  <2>3. CanExecute(Current(p))
    BY <1>5 DEF Admit
  <2>4. /\ Current(p).state = "open" => Cooled(Current(p))
        /\ Current(p)'.state = (IF Current(p).state = "open" THEN "half_open"
                                ELSE Current(p).state)
        /\ ~Cooled(Current(p)')
    BY <2>2, <2>3, AfterCanExecuteView, CurrentGood DEF SameView, Cooled
  <2> QED
    BY <1>3, <1>4, <1>5, <2>4 DEF ContractMove
<1>6. CASE r # p
  <2>1. Current(p)' = Current(p)
    BY <1>2, <1>6, CurrentGood DEF Admit, Current, IInv, TypeOK
  <2> QED
    BY <1>3, <1>4, <1>6, <2>1 DEF ContractMove, ViewStays, SameView
<1> QED
  BY <1>5, <1>6

\* A call that ends leaves the calls in flight as they were, or leaves them.
LEMMA InFlightAfterEnd ==
    ASSUME IInv, NEW p \in Guarded, NEW c \in Calls, call' = [call EXCEPT ![c] = Idle]
    PROVE  InFlight(p)' = InFlight(p) \ {c}
BY InFlightAfter, CurrentGood DEF Idle

\* A call that enters a fallback, or fails to, is no longer with its primary.
LEMMA InFlightAfterFallback ==
    ASSUME IInv, NEW p \in Guarded, NEW c \in Calls, NEW q, NEW t, NEW reason,
           EnterFallback(c, q, t, reason)
    PROVE  InFlight(p)' = InFlight(p) \ {c}
<1> DEFINE entry ==
      IF t = None THEN Idle
      ELSE [Idle EXCEPT !.pc = "fallback", !.provider = q,
                        !.target = t, !.reason = reason]
<1>1. entry.pc # "primary"
  BY DEF Idle
<1>2. call' = [call EXCEPT ![c] = entry]
  BY DEF EnterFallback
<1> HIDE DEF entry
<1> QED
  BY <1>1, <1>2, InFlightAfter, CurrentGood

LEMMA FailFastMove ==
    ASSUME IInv, NEW p \in Guarded, NEW c \in Calls, NEW r \in Requested, FailFast(c, r)
    PROVE  ContractMove(p)
<1>1. InFlight(p)' = InFlight(p) \ {c}
  BY InFlightAfterFallback DEF FailFast
<1>2. c \notin InFlight(p)
  BY DEF FailFast, InFlight
<1>3. Current(p)' = Current(p)
  BY DEF FailFast, Current
<1> QED
  BY <1>1, <1>2, <1>3 DEF ContractMove, ViewStays, SameView

\* An answer: recorded in the breaker new calls consult, in a breaker that has
\* been replaced, or for another provider.
LEMMA AnswerMove ==
    ASSUME IInv, NEW p \in Guarded, NEW c \in Calls, NEW ok \in BOOLEAN,
           call[c].pc = "primary",
           InFlight(p)' = InFlight(p) \ {c},
           generation' = generation,
           breaker' = IF call[c].provider \in Guarded
                      THEN [breaker EXCEPT ![call[c].provider][call[c].gen] =
                              IF ok THEN RecordSuccess(@) ELSE RecordFailure(@)]
                      ELSE breaker
    PROVE  ContractMove(p)
<1> DEFINE b == Current(p)
<1>0. breaker \in [Guarded -> [Generations -> Breaker]] /\ call[c].gen \in Generations
  BY DEF IInv, TypeOK, CallState
<1>1. CASE call[c].provider # p
  <2>1. c \notin InFlight(p)
    BY <1>1 DEF InFlight
  <2>2. Current(p)' = Current(p)
    BY <1>0, <1>1, CurrentGood DEF Current
  <2> QED
    BY <2>1, <2>2 DEF ContractMove, ViewStays, SameView
<1>2. CASE call[c].provider = p /\ call[c].gen # generation[p]
  <2>1. c \in InFlight(p)
    BY <1>2 DEF InFlight
  <2>2. Current(p)' = Current(p)
    BY <1>0, <1>2, CurrentGood DEF Current
  <2> QED
    BY <2>1, <2>2 DEF ContractMove, SameView
<1>3. CASE call[c].provider = p /\ call[c].gen = generation[p]
  <2>1. c \in InFlight(p)
    BY <1>3 DEF InFlight
  <2>2. Current(p)' = IF ok THEN RecordSuccess(b) ELSE RecordFailure(b)
    BY <1>0, <1>3, CurrentGood DEF Current
  <2>3. GoodBreaker(b)
    BY CurrentGood
  <2>4. \/ SameView(b, Current(p)')
        \/ b.state = "closed" /\ Current(p)'.state = "open" /\ ~Cooled(Current(p)')
        \/ /\ b.state = "half_open" /\ Current(p)'.state \in {"open", "closed"}
           /\ ~Cooled(Current(p)')
    <3> HIDE DEF b
    <3>1. CASE ok
      BY <3>1, <2>2, <2>3, RecordSuccessView
    <3>2. CASE ~ok
      BY <3>2, <2>2, <2>3, RecordFailureView
    <3> QED
      BY <3>1, <3>2
  <2> QED
    BY <2>1, <2>4 DEF ContractMove
<1> QED
  BY <1>1, <1>2, <1>3

LEMMA PrimaryMove ==
    ASSUME IInv, NEW p \in Guarded, NEW c \in Calls,
           PrimarySucceeds(c) \/ \E e \in ErrorType : PrimaryFails(c, e)
    PROVE  ContractMove(p)
<1>1. CASE PrimarySucceeds(c)
  <2>1. /\ call[c].pc = "primary" /\ generation' = generation
        /\ call' = [call EXCEPT ![c] = Idle]
        /\ breaker' = IF call[c].provider \in Guarded
                      THEN [breaker EXCEPT ![call[c].provider][call[c].gen] = RecordSuccess(@)]
                      ELSE breaker
    BY <1>1 DEF PrimarySucceeds, BreakerAfter
  <2>2. InFlight(p)' = InFlight(p) \ {c}
    BY <2>1, InFlightAfterEnd
  <2> QED
    BY <2>1, <2>2, AnswerMove
<1>2. ASSUME NEW e \in ErrorType, PrimaryFails(c, e)
      PROVE  ContractMove(p)
  <2>1. /\ call[c].pc = "primary" /\ generation' = generation
        /\ FallBackOrRaise(c, call[c].provider, e)
        /\ breaker' = IF call[c].provider \in Guarded
                      THEN [breaker EXCEPT ![call[c].provider][call[c].gen] = RecordFailure(@)]
                      ELSE breaker
    BY <1>2 DEF PrimaryFails, BreakerAfter
  <2>2. InFlight(p)' = InFlight(p) \ {c}
    BY <2>1, InFlightAfterEnd, InFlightAfterFallback DEF FallBackOrRaise
  <2> QED
    BY <2>1, <2>2, AnswerMove
<1> QED
  BY <1>1, <1>2

LEMMA PrimaryCancelledMove ==
    ASSUME IInv, NEW p \in Guarded, NEW c \in Calls, PrimaryCancelled(c)
    PROVE  ContractMove(p)
<1>1. InFlight(p)' = InFlight(p) \ {c}
  BY InFlightAfterEnd DEF PrimaryCancelled
<1>2. Current(p)' = Current(p)
  BY DEF PrimaryCancelled, Current
<1> QED
  BY <1>1, <1>2 DEF ContractMove, ViewStays, SameView

LEMMA FallbackReturnsMove ==
    ASSUME IInv, NEW p \in Guarded, NEW c \in Calls, FallbackReturns(c)
    PROVE  ContractMove(p)
<1>1. InFlight(p)' = InFlight(p) \ {c} /\ c \notin InFlight(p)
  BY InFlightAfterEnd DEF FallbackReturns, InFlight
<1>2. Current(p)' = Current(p)
  BY DEF FallbackReturns, Current
<1> QED
  BY <1>1, <1>2 DEF ContractMove, ViewStays, SameView

\* A status read of p or of every breaker, and of nobody.
LEMMA ReadMove ==
    ASSUME IInv, NEW p \in Guarded, UNCHANGED call,
           Current(p)' = AfterCanExecute(Current(p)) \/ Current(p)' = Current(p)
    PROVE  ContractMove(p)
<1>1. InFlight(p)' = InFlight(p)
  BY DEF InFlight
<1>2. CASE Current(p)' = AfterCanExecute(Current(p))
  BY <1>1, <1>2, AfterCanExecuteView, CurrentGood DEF ContractMove, ViewStays
<1>3. CASE Current(p)' = Current(p)
  BY <1>1, <1>3 DEF ContractMove, ViewStays, SameView
<1> QED
  BY <1>2, <1>3

LEMMA OperatorMove ==
    ASSUME IInv, NEW p \in Guarded,
           \/ GetServiceStatus
           \/ Tick
           \/ \E r \in Guarded : \/ GetCircuitBreakerStatus(r)
                                 \/ ResetCircuitBreaker(r)
                                 \/ RegisterProviderAgain(r)
    PROVE  ContractMove(p)
<1>0. /\ breaker \in [Guarded -> [Generations -> Breaker]]
      /\ generation \in [Guarded -> Generations]
  BY DEF IInv, TypeOK
<1>1. CASE GetServiceStatus
  <2>1. Current(p)' = AfterCanExecute(Current(p))
    BY <1>0, <1>1, CurrentGood DEF GetServiceStatus, Current
  <2> QED
    BY <1>1, <2>1, ReadMove DEF GetServiceStatus
<1>2. CASE Tick
  <2>1. Current(p)' = Aged(Current(p)) /\ InFlight(p)' = InFlight(p)
    BY <1>0, <1>2, CurrentGood DEF Tick, Current, InFlight
  <2> QED
    BY <2>1, AgedView, CurrentGood DEF ContractMove, ViewStays
<1>3. ASSUME NEW r \in Guarded, GetCircuitBreakerStatus(r)
      PROVE  ContractMove(p)
  <2>1. Current(p)' = AfterCanExecute(Current(p)) \/ Current(p)' = Current(p)
    <3>1. CASE r = p
      BY <1>0, <1>3, <3>1, CurrentGood DEF GetCircuitBreakerStatus, Current
    <3>2. CASE r # p
      BY <1>0, <1>3, <3>2, CurrentGood DEF GetCircuitBreakerStatus, Current
    <3> QED
      BY <3>1, <3>2
  <2> QED
    BY <1>3, <2>1, ReadMove DEF GetCircuitBreakerStatus
<1>4. ASSUME NEW r \in Guarded, ResetCircuitBreaker(r) \/ RegisterProviderAgain(r)
      PROVE  ContractMove(p)
  <2>1. InFlight(p)' = InFlight(p)
    BY <1>4 DEF ResetCircuitBreaker, RegisterProviderAgain, InFlight
  <2>2. CASE r = p /\ ResetCircuitBreaker(r)
    <3>1. Current(p)' = NewBreaker
      BY <1>0, <2>2, CurrentGood DEF ResetCircuitBreaker, ResetBreaker, Current
    <3> QED
      BY <2>1, <3>1, NewBreakerView DEF ContractMove
  <2>3. CASE r = p /\ RegisterProviderAgain(r)
    <3>1. generation[p] + 1 \in Generations
      BY <1>0, <2>3, ServiceAssumption DEF RegisterProviderAgain, Generations
    <3>2. Current(p)' = NewBreaker
      BY <1>0, <2>3, <3>1, CurrentGood DEF RegisterProviderAgain, Current
    <3> QED
      BY <2>1, <3>2, NewBreakerView DEF ContractMove
  <2>4. CASE r # p
    <3>1. Current(p)' = Current(p)
      BY <1>0, <1>4, <2>4, CurrentGood
         DEF ResetCircuitBreaker, RegisterProviderAgain, Current
    <3> QED
      BY <2>1, <3>1 DEF ContractMove, ViewStays, SameView
  <2> QED
    BY <1>4, <2>2, <2>3, <2>4
<1> QED
  BY <1>1, <1>2, <1>3, <1>4

-----------------------------------------------------------------------------
(* Calls that fall back to p, as each action leaves them.                   *)

\* A call that was not falling back and does not begin to changes none of them.
LEMMA NotFallingBack ==
    ASSUME IInv, NEW p \in Guarded, NEW c \in Calls, NEW entry,
           call' = [call EXCEPT ![c] = entry],
           call[c].pc # "fallback",
           ~ (entry.pc = "fallback" /\ entry.target = p)
    PROVE  UnaskedMove(p)
<1>1. c \notin FallenBackTo(p)
  BY DEF FallenBackTo
<1>2. FallenBackTo(p)' = FallenBackTo(p) \ {c}
  BY FallenBackAfter, CurrentGood
<1> QED
  BY <1>1, <1>2 DEF UnaskedMove

\* A fallback never goes to the provider it comes from.
LEMMA TargetElsewhere ==
    ASSUME NEW q \in Providers, NEW n
    PROVE  FallbackTarget(q, n) # q
BY FallbackConfigAssumption DEF FallbackTarget, Compatible

\* A call that was not falling back enters a fallback from q, or fails to.
LEMMA EnterFallbackUnasked ==
    ASSUME IInv, NEW p \in Guarded, NEW c \in Calls, NEW q \in Providers, NEW n, NEW reason,
           call[c].pc # "fallback",
           q # p => ViewStays(p),
           EnterFallback(c, q, FallbackTarget(q, n), reason)
    PROVE  UnaskedMove(p)
<1> DEFINE t == FallbackTarget(q, n)
           entry ==
             IF t = None THEN Idle
             ELSE [Idle EXCEPT !.pc = "fallback", !.provider = q,
                               !.target = t, !.reason = reason]
<1>1. call' = [call EXCEPT ![c] = entry]
  BY DEF EnterFallback
<1>2. entry.pc = "fallback" => entry.target = t
  BY DEF Idle
<1>3. t # q
  BY TargetElsewhere
<1> HIDE DEF entry, t
<1>4. CASE entry.pc = "fallback" /\ entry.target = p
  <2>1. ViewStays(p)
    BY <1>2, <1>3, <1>4
  <2>2. p \in Providers
    BY CurrentGood
  <2>3. FallenBackTo(p)' = IF entry.pc = "fallback" /\ entry.target = p
                           THEN FallenBackTo(p) \cup {c} ELSE FallenBackTo(p) \ {c}
    BY ONLY IInv, <1>1, <2>2, FallenBackAfter, c \in Calls
  <2> QED
    BY <1>4, <2>1, <2>3 DEF UnaskedMove
<1>5. CASE ~ (entry.pc = "fallback" /\ entry.target = p)
  BY <1>1, <1>5, NotFallingBack
<1> QED
  BY <1>4, <1>5

LEMMA AdmitUnasked ==
    ASSUME IInv, NEW p \in Guarded,
           NEW c \in Calls, NEW r \in Requested, NEW useFallback \in BOOLEAN,
           Admit(c, r, useFallback)
    PROVE  UnaskedMove(p)
<1> DEFINE entry ==
      [Idle EXCEPT
         !.pc = "primary", !.provider = r, !.useFallback = useFallback,
         !.gen = IF r \in Guarded THEN generation[r] ELSE 1]
<1>1. entry.pc = "primary"
  BY DEF Idle
<1>2. call' = [call EXCEPT ![c] = entry] /\ call[c].pc = "idle"
  BY DEF Admit
<1> HIDE DEF entry
<1> QED
  BY <1>1, <1>2, NotFallingBack

LEMMA FailFastUnasked ==
    ASSUME IInv, NEW p \in Guarded, NEW c \in Calls, NEW r \in Requested, FailFast(c, r)
    PROVE  UnaskedMove(p)
<1>1. /\ call[c].pc = "idle" /\ r \in Providers
      /\ EnterFallback(c, r, FallbackTarget(r, fallbackCount[r]), "circuit_open")
  BY ServiceAssumption DEF FailFast
<1>2. InFlight(p)' = InFlight(p) \ {c}
  BY InFlightAfterFallback DEF FailFast
<1>3. c \notin InFlight(p)
  BY <1>1 DEF InFlight
<1>4. Current(p)' = Current(p)
  BY DEF FailFast, Current
<1>5. ViewStays(p)
  BY <1>2, <1>3, <1>4 DEF ViewStays, SameView
<1> QED
  BY <1>1, <1>5, EnterFallbackUnasked

\* A primary call fails: what it falls back to, if anything, is another provider
\* than the one whose breaker hears of the failure.
LEMMA PrimaryFailsUnasked ==
    ASSUME IInv, NEW p \in Guarded, NEW c \in Calls, NEW e \in ErrorType, PrimaryFails(c, e)
    PROVE  UnaskedMove(p)
<1> DEFINE q == call[c].provider
           m == CountAfterDecision(fallbackCount[q], e)
           reason == DecisionReason(e, CircuitStateAfterFailure(c))
<1>1. /\ call[c].pc = "primary" /\ generation' = generation
      /\ breaker' = IF q \in Guarded
                    THEN [breaker EXCEPT ![q][call[c].gen] = RecordFailure(@)]
                    ELSE breaker
      /\ \/ call' = [call EXCEPT ![c] = Idle]
         \/ EnterFallback(c, q, FallbackTarget(q, m), reason)
  BY DEF PrimaryFails, FallBackOrRaise, BreakerAfter
<1>2. q \in Providers
  BY <1>1, ServiceAssumption DEF IInv, CallsHaveProvider
<1>3. CASE call' = [call EXCEPT ![c] = Idle]
  BY <1>1, <1>3, NotFallingBack DEF Idle
<1>4. CASE EnterFallback(c, q, FallbackTarget(q, m), reason)
  <2>1. ASSUME q # p PROVE ViewStays(p)
    <3>1. breaker \in [Guarded -> [Generations -> Breaker]]
      BY DEF IInv, TypeOK
    <3>2. Current(p)' = Current(p)
      BY <1>1, <2>1, <3>1, CurrentGood DEF Current
    <3>3. InFlight(p)' = InFlight(p) \ {c} /\ c \notin InFlight(p)
      BY <1>4, <2>1, InFlightAfterFallback DEF InFlight
    <3> QED
      BY <3>2, <3>3 DEF ViewStays, SameView
  <2> HIDE DEF q, m, reason
  <2> QED
    BY <1>1, <1>2, <1>4, <2>1, EnterFallbackUnasked
<1> QED
  BY <1>1, <1>3, <1>4

LEMMA AnswerUnasked ==
    ASSUME IInv, NEW p \in Guarded, NEW c \in Calls, Answer(c)
    PROVE  UnaskedMove(p)
<1>1. CASE PrimarySucceeds(c) \/ PrimaryCancelled(c)
  <2>1. call' = [call EXCEPT ![c] = Idle] /\ call[c].pc = "primary"
    BY <1>1 DEF PrimarySucceeds, PrimaryCancelled
  <2> QED
    BY <2>1, NotFallingBack DEF Idle
<1>2. CASE FallbackReturns(c)
  <2>1. InFlight(p)' = InFlight(p) \ {c} /\ c \notin InFlight(p)
    BY <1>2, InFlightAfterEnd DEF FallbackReturns, InFlight
  <2>2. Current(p)' = Current(p)
    BY <1>2 DEF FallbackReturns, Current
  <2>3. call' = [call EXCEPT ![c] = Idle] /\ Idle.pc = "idle" /\ p \in Providers
    BY <1>2, CurrentGood DEF FallbackReturns, Idle
  <2>4. FallenBackTo(p)' = FallenBackTo(p) \ {c}
    BY ONLY IInv, <2>3, FallenBackAfter, c \in Calls
  <2> QED
    BY <2>1, <2>2, <2>4 DEF UnaskedMove, ViewStays, SameView
<1> QED
  BY <1>1, <1>2, PrimaryFailsUnasked DEF Answer

\* What is no call's answer and no admission leaves the calls as they are.
LEMMA OperatorUnasked ==
    ASSUME NEW p \in Guarded,
           \/ GetServiceStatus
           \/ Tick
           \/ \E r \in Guarded : \/ GetCircuitBreakerStatus(r)
                                 \/ ResetCircuitBreaker(r)
                                 \/ RegisterProviderAgain(r)
           \/ UNCHANGED vars
    PROVE  UnaskedMove(p)
<1>1. call' = call
  BY DEF GetServiceStatus, Tick, GetCircuitBreakerStatus, ResetCircuitBreaker,
     RegisterProviderAgain, vars
<1> QED
  BY <1>1 DEF UnaskedMove, FallenBackTo

\* Every step of the service is a step of every provider's contract.
LEMMA EveryStepMoves ==
    ASSUME IInv, [Next]_vars, NEW p \in Guarded
    PROVE  [Contract(p)!ContractNext]_(Contract(p)!contractVars)
<1>0. SUFFICES ContractMove(p) /\ UnaskedMove(p)
  BY MoveIsContractStep
<1>1. ASSUME NEW c \in Calls, NEW r \in Requested, NEW useFallback \in BOOLEAN,
             Admit(c, r, useFallback)
      PROVE  ContractMove(p) /\ UnaskedMove(p)
  BY <1>1, AdmitMove, AdmitUnasked
<1>2. ASSUME NEW c \in Calls, NEW r \in Requested, FailFast(c, r)
      PROVE  ContractMove(p) /\ UnaskedMove(p)
  BY <1>2, FailFastMove, FailFastUnasked
<1>3. ASSUME NEW c \in Calls, Answer(c)
      PROVE  ContractMove(p) /\ UnaskedMove(p)
  <2>1. ContractMove(p)
    BY <1>3, PrimaryMove, PrimaryCancelledMove, FallbackReturnsMove DEF Answer
  <2> QED
    BY <1>3, <2>1, AnswerUnasked
<1>4. CASE \/ GetServiceStatus
           \/ Tick
           \/ \E r \in Guarded : \/ GetCircuitBreakerStatus(r)
                                 \/ ResetCircuitBreaker(r)
                                 \/ RegisterProviderAgain(r)
  BY <1>4, OperatorMove, OperatorUnasked
<1>5. CASE UNCHANGED vars
  <2>1. ContractMove(p)
    BY <1>5 DEF vars, ContractMove, ViewStays, SameView, Current, InFlight
  <2> QED
    BY <1>5, <2>1, OperatorUnasked
<1> QED
  BY <1>1, <1>2, <1>3, <1>4, <1>5 DEF Next

\* For every set of guarded providers, whatever calls, answers, resets and
\* registrations interleave, and whatever falls back to whom, the service keeps
\* each provider's breaker contract: what the breaker is asked about obeys it,
\* and what it is not asked about does not move it (complete, _attempt_fallback).
THEOREM ServiceImplementsContract == Spec => BreakerKeepsContract
<1>1. Init => \A p \in Guarded : Contract(p)!ContractInit
  <2> SUFFICES ASSUME Init, NEW p \in Guarded
               PROVE  Contract(p)!ContractInit
    OBVIOUS
  <2>1. Current(p) = NewBreaker
    BY ServiceAssumption DEF Init, Current, Generations
  <2>2. InFlight(p) = {} /\ FallenBackTo(p) = {}
    BY DEF Init, InFlight, FallenBackTo, Idle
  <2> QED
    BY <2>1, <2>2, NewBreakerView DEF Contract!ContractInit, Cooled
<1>2. IInv /\ [Next]_vars =>
        [\A p \in Guarded : [Contract(p)!ContractNext]_(Contract(p)!contractVars)]_vars
  BY EveryStepMoves
<1> QED
  BY <1>1, <1>2, Invariance, PTL DEF Spec, BreakerKeepsContract

-----------------------------------------------------------------------------
(* No answer is lost and none counted twice: for every provider a step      *)
(* changes nothing, admits one call, or ends one call and counts it once.   *)

Accounted(q) ==
    admitted[q] = Cardinality(InFlight(q)) + health[q].total + cancelled[q]

AccountMove(q) ==
    \/ /\ InFlight(q)' = InFlight(q) /\ admitted'[q] = admitted[q]
       /\ health'[q].total = health[q].total /\ cancelled'[q] = cancelled[q]
    \/ /\ \E c \in Calls : c \notin InFlight(q) /\ InFlight(q)' = InFlight(q) \cup {c}
       /\ admitted'[q] = admitted[q] + 1
       /\ health'[q].total = health[q].total /\ cancelled'[q] = cancelled[q]
    \/ /\ \E c \in Calls : c \in InFlight(q) /\ InFlight(q)' = InFlight(q) \ {c}
       /\ admitted'[q] = admitted[q]
       /\ \/ health'[q].total = health[q].total + 1 /\ cancelled'[q] = cancelled[q]
          \/ health'[q].total = health[q].total /\ cancelled'[q] = cancelled[q] + 1

LEMMA MoveKeepsAccount ==
    ASSUME IInv, NEW q \in Registered, AccountMove(q), Accounted(q)
    PROVE  Accounted(q)'
<1>1. IsFiniteSet(InFlight(q))
  <2>1. InFlight(q) \subseteq Calls
    BY DEF InFlight
  <2> QED
    BY <2>1, FS_Subset, ServiceAssumption
<1>2. /\ Cardinality(InFlight(q)) \in Nat /\ admitted[q] \in Nat
      /\ health[q].total \in Nat /\ cancelled[q] \in Nat
  BY <1>1, FS_CardinalityType DEF IInv, TypeOK
<1>3. CASE /\ InFlight(q)' = InFlight(q) /\ admitted'[q] = admitted[q]
           /\ health'[q].total = health[q].total /\ cancelled'[q] = cancelled[q]
  BY <1>3 DEF Accounted
<1>4. ASSUME NEW c \in Calls, c \notin InFlight(q), InFlight(q)' = InFlight(q) \cup {c},
             admitted'[q] = admitted[q] + 1,
             health'[q].total = health[q].total /\ cancelled'[q] = cancelled[q]
      PROVE  Accounted(q)'
  <2>1. Cardinality(InFlight(q)') = Cardinality(InFlight(q)) + 1
    BY <1>1, <1>4, FS_AddElement
  <2> QED
    BY <1>2, <1>4, <2>1 DEF Accounted
<1>5. ASSUME NEW c \in Calls, c \in InFlight(q), InFlight(q)' = InFlight(q) \ {c},
             admitted'[q] = admitted[q],
             \/ health'[q].total = health[q].total + 1 /\ cancelled'[q] = cancelled[q]
             \/ health'[q].total = health[q].total /\ cancelled'[q] = cancelled[q] + 1
      PROVE  Accounted(q)'
  <2>1. Cardinality(InFlight(q)') = Cardinality(InFlight(q)) - 1
    BY <1>1, <1>5, FS_RemoveElement
  <2> QED
    BY <1>2, <1>5, <2>1 DEF Accounted
<1> QED
  BY <1>3, <1>4, <1>5 DEF AccountMove

\* A call that ends or falls back is no longer with its primary.
LEMMA LeavesFlight ==
    ASSUME IInv, NEW q \in Registered, NEW c \in Calls,
           \/ call' = [call EXCEPT ![c] = Idle]
           \/ \E p, t, reason : EnterFallback(c, p, t, reason)
    PROVE  InFlight(q)' = InFlight(q) \ {c}
<1>1. q \in Providers
  BY ServiceAssumption
<1>2. CASE call' = [call EXCEPT ![c] = Idle]
  <2>1. Idle.pc # "primary"
    BY DEF Idle
  <2> QED
    BY <1>1, <1>2, <2>1, InFlightAfter
<1>3. ASSUME NEW p, NEW t, NEW reason, EnterFallback(c, p, t, reason)
      PROVE  InFlight(q)' = InFlight(q) \ {c}
  <2> DEFINE entry ==
        IF t = None THEN Idle
        ELSE [Idle EXCEPT !.pc = "fallback", !.provider = p,
                          !.target = t, !.reason = reason]
  <2>1. entry.pc # "primary"
    BY DEF Idle
  <2>2. call' = [call EXCEPT ![c] = entry]
    BY <1>3 DEF EnterFallback
  <2> HIDE DEF entry
  <2> QED
    BY <1>1, <2>1, <2>2, InFlightAfter
<1> QED
  BY <1>2, <1>3

\* The primary's answer: the call was in its flight and in no other.
LEMMA AnswerAccounts ==
    ASSUME IInv, NEW q \in Registered, NEW c \in Calls, call[c].pc = "primary",
           InFlight(q)' = InFlight(q) \ {c}, UNCHANGED admitted,
           \/ /\ \E ok \in BOOLEAN : RecordHealth(call[c].provider, ok)
              /\ UNCHANGED cancelled
           \/ /\ cancelled' = [cancelled EXCEPT ![call[c].provider] = @ + 1]
              /\ UNCHANGED health
    PROVE  AccountMove(q)
<1> DEFINE p == call[c].provider
<1>1. /\ p \in Registered
      /\ health \in [Registered -> [total : Nat, failed : Nat, healthy : BOOLEAN]]
      /\ cancelled \in [Registered -> Nat]
  BY DEF IInv, TypeOK, CallsHaveProvider
<1>2. \/ health'[q].total = health[q].total + (IF p = q THEN 1 ELSE 0) /\ cancelled' = cancelled
      \/ /\ health' = health
         /\ cancelled'[q] = cancelled[q] + (IF p = q THEN 1 ELSE 0)
  <2>1. ASSUME NEW ok \in BOOLEAN, RecordHealth(p, ok)
        PROVE  health'[q].total = health[q].total + (IF p = q THEN 1 ELSE 0)
    BY <1>1, <2>1 DEF RecordHealth
  <2>2. ASSUME cancelled' = [cancelled EXCEPT ![p] = @ + 1]
        PROVE  cancelled'[q] = cancelled[q] + (IF p = q THEN 1 ELSE 0)
    BY <1>1, <2>2
  <2>3. CASE (\E ok \in BOOLEAN : RecordHealth(p, ok)) /\ cancelled' = cancelled
    BY <2>1, <2>3
  <2>4. CASE cancelled' = [cancelled EXCEPT ![p] = @ + 1] /\ health' = health
    BY <2>2, <2>4
  <2> QED
    BY <2>3, <2>4
<1>3. c \in InFlight(q) <=> p = q
  BY DEF InFlight
<1>4. health[q].total \in Nat /\ cancelled[q] \in Nat
  BY <1>1
<1> HIDE DEF p
<1>5. CASE p = q
  BY <1>2, <1>3, <1>5 DEF AccountMove
<1>6. CASE p # q
  <2>1. InFlight(q)' = InFlight(q)
    BY <1>3, <1>6
  <2> QED
    BY <1>2, <1>4, <1>6, <2>1 DEF AccountMove
<1> QED
  BY <1>5, <1>6

LEMMA EveryStepAccounts ==
    ASSUME IInv, [Next]_vars, NEW q \in Registered
    PROVE  AccountMove(q)
<1>1. ASSUME NEW c \in Calls, NEW r \in Requested, NEW useFallback \in BOOLEAN,
             Admit(c, r, useFallback)
      PROVE  AccountMove(q)
  <2> DEFINE entry ==
        [Idle EXCEPT
           !.pc = "primary", !.provider = r, !.useFallback = useFallback,
           !.gen = IF r \in Guarded THEN generation[r] ELSE 1]
  <2>1. entry.pc = "primary" /\ entry.provider = r
    BY DEF Idle
  <2>2. call' = [call EXCEPT ![c] = entry] /\ c \notin InFlight(q)
    BY <1>1 DEF Admit, InFlight
  <2> HIDE DEF entry
  <2>3. InFlight(q)' = IF r = q THEN InFlight(q) \cup {c} ELSE InFlight(q)
    <3>1. q \in Providers
      BY ServiceAssumption
    <3>2. InFlight(q)' = IF entry.pc = "primary" /\ entry.provider = q
                         THEN InFlight(q) \cup {c} ELSE InFlight(q) \ {c}
      BY ONLY IInv, <2>2, <3>1, InFlightAfter, c \in Calls
    <3> QED
      BY <2>1, <2>2, <3>2
  <2>4. /\ admitted'[q] = IF r = q THEN admitted[q] + 1 ELSE admitted[q]
        /\ health' = health /\ cancelled' = cancelled
    BY <1>1, ServiceAssumption DEF Admit, IInv, TypeOK
  <2> QED
    BY <2>2, <2>3, <2>4 DEF AccountMove
<1>2. ASSUME NEW c \in Calls, NEW r \in Requested, FailFast(c, r)
      PROVE  AccountMove(q)
  <2>1. InFlight(q)' = InFlight(q) \ {c} /\ c \notin InFlight(q)
    BY <1>2, LeavesFlight DEF FailFast, InFlight
  <2> QED
    BY <1>2, <2>1 DEF FailFast, AccountMove
<1>3. ASSUME NEW c \in Calls, PrimarySucceeds(c)
      PROVE  AccountMove(q)
  <2>1. InFlight(q)' = InFlight(q) \ {c}
    BY <1>3, LeavesFlight DEF PrimarySucceeds
  <2> QED
    BY <1>3, <2>1, AnswerAccounts DEF PrimarySucceeds
<1>4. ASSUME NEW c \in Calls, NEW e \in ErrorType, PrimaryFails(c, e)
      PROVE  AccountMove(q)
  <2>1. InFlight(q)' = InFlight(q) \ {c}
    BY <1>4, LeavesFlight DEF PrimaryFails, FallBackOrRaise
  <2> QED
    BY <1>4, <2>1, AnswerAccounts DEF PrimaryFails
<1>5. ASSUME NEW c \in Calls, PrimaryCancelled(c)
      PROVE  AccountMove(q)
  <2>1. InFlight(q)' = InFlight(q) \ {c}
    BY <1>5, LeavesFlight DEF PrimaryCancelled
  <2> QED
    BY <1>5, <2>1, AnswerAccounts DEF PrimaryCancelled
<1>6. ASSUME NEW c \in Calls, FallbackReturns(c)
      PROVE  AccountMove(q)
  <2>1. InFlight(q)' = InFlight(q) \ {c} /\ c \notin InFlight(q)
    BY <1>6, LeavesFlight DEF FallbackReturns, InFlight
  <2> QED
    BY <1>6, <2>1 DEF FallbackReturns, AccountMove
<1>7. CASE UNCHANGED <<call, admitted, health, cancelled>>
  BY <1>7 DEF AccountMove, InFlight
<1>8. ASSUME NEW c \in Calls, Answer(c)
      PROVE  AccountMove(q)
  BY <1>3, <1>4, <1>5, <1>6, <1>8 DEF Answer
<1>9. ASSUME \/ \E p \in Guarded : \/ GetCircuitBreakerStatus(p)
                                  \/ ResetCircuitBreaker(p)
                                  \/ RegisterProviderAgain(p)
             \/ GetServiceStatus
             \/ Tick
             \/ UNCHANGED vars
      PROVE  AccountMove(q)
  <2>1. UNCHANGED <<call, admitted, health, cancelled>>
    BY <1>9 DEF GetCircuitBreakerStatus, GetServiceStatus, ResetCircuitBreaker,
                RegisterProviderAgain, Tick, vars
  <2> QED
    BY <1>7, <2>1
<1> QED
  BY <1>1, <1>2, <1>8, <1>9 DEF Next

\* Every primary call a breaker admitted is in flight, in the health record or
\* was cancelled, whatever the calls, breakers and registrations do meanwhile
\* (complete, record_check).
THEOREM NoAnswerLost == Spec => []CallsAccountedFor
<1>1. Init => CallsAccountedFor
  <2> SUFFICES ASSUME Init, NEW q \in Registered PROVE Accounted(q)
    BY DEF CallsAccountedFor, Accounted
  <2>1. InFlight(q) = {}
    BY DEF Init, InFlight, Idle
  <2>2. Cardinality(InFlight(q)) = 0
    BY <2>1, FS_EmptySet
  <2> QED
    BY <2>2 DEF Init, Accounted
<1>2. IInv /\ CallsAccountedFor /\ [Next]_vars => CallsAccountedFor'
  <2> SUFFICES ASSUME IInv, CallsAccountedFor, [Next]_vars, NEW q \in Registered
               PROVE  Accounted(q)'
    BY DEF CallsAccountedFor, Accounted
  <2>1. Accounted(q) /\ AccountMove(q)
    BY EveryStepAccounts DEF CallsAccountedFor, Accounted
  <2> QED
    BY <2>1, MoveKeepsAccount
<1> QED
  BY <1>1, <1>2, Invariance, PTL DEF Spec

-----------------------------------------------------------------------------
\* A breaker trips on evidence, keeps its fields together and can be probed
\* (circuit_breaker.py).
THEOREM BreakersStaySound == Spec => []BreakerSound
BY TypeCorrect, BreakersStayCoherent, HalfOpenAlwaysProbed, OpenNeedsEvidence, PTL
   DEF BreakerSound

\* Every call is accounted for, and its fallbacks are few and go elsewhere
\* (complete, _attempt_fallback).
THEOREM CallsStayAccounted == Spec => []CallsKept
BY HealthCovers, NoAnswerLost, FallbacksBounded, FallbacksGoElsewhere, PTL DEF CallsKept

-----------------------------------------------------------------------------
(* The adapters: what holds of every request, whatever its network does.   *)

Phase == {"new", "attempt", "backoff", "answered", "raised", "cancelled"}

\* The values the translations of the adapters may leave in a request.
Bodies == {NoText} \cup {Body(k, m) : k \in Runner, m \in Conversations}
Answers == {NoText} \cup {ModelAnswer(k, reply) : k \in HttpAdapter, reply \in Replies}
Carried == Conversations \cup {<<>>}
Received == Replies \cup {NoText}
LastFailure == Failure \cup {"none"}
Exceptions == ProviderException \cup Failure \cup {"ValueError", "none"}

RequestState ==
    [pc : Phase, runner : Runner, messages : Carried, attempt : 0..MaxRetries,
     retried : SUBSET Failure, slept : Nat, last : LastFailure,
     raised : Exceptions, reply : Received, body : Bodies, answer : Answers]

\* How many sleeps a request has begun.
Sleeps(q) == q.attempt + IF q.pc \in {"backoff", "cancelled"} THEN 1 ELSE 0

\* The parts of RetryDiscipline, BackoffWithinPolicy and ConversationSent
\* for one request; that a sleeping request has a try left; and that what is
\* raised is what the runner makes of the last failure.
GoodRequest(q) ==
    /\ q \in RequestState
    /\ q.pc = "backoff" => q.attempt < MaxRetries
    /\ q.retried \subseteq Transient
    /\ q.pc = "raised" =>
         /\ q.last \in Failure
         /\ q.raised = Raised(q.runner, q.last)
         /\ q.last \in Transient =>
              \/ q.attempt = MaxRetries
              \/ q.runner = "handler" /\ q.last = "http_429_date"
    /\ q.slept <= MaxBackoff * Sleeps(q)
    /\ q.body # NoText => q.body = Body(q.runner, q.messages)
    /\ q.pc # "new" => q.messages \in Conversations
    /\ q.answer # NoText =>
         /\ q.runner \in HttpAdapter /\ q.reply \in RepliesOf(q.runner)
         /\ q.answer = ModelAnswer(q.runner, q.reply)
    /\ q.pc # "answered" => q.body = NoText /\ q.answer = NoText

ClientsKept ==
    /\ client \in [HttpAdapter -> {"none", "open", "closed"}]
    /\ pools \in [HttpAdapter -> Int]
    /\ NoPoolAbandoned

AdapterIInv ==
    /\ DOMAIN request = Requests
    /\ \A r \in Requests : GoodRequest(request[r])
    /\ request = [r \in Requests |-> request[r]]
    /\ ClientsKept

\* A backoff is no longer than the policy allows (_calculate_backoff).
LEMMA BackoffWithinMax ==
    ASSUME NEW n \in 0..MaxRetries, NEW delay \in Backoff(n)
    PROVE  delay \in Nat /\ delay <= MaxBackoff
<1> DEFINE base == InitialBackoff * BackoffMultiplier ^ n
<1>1. base \in Nat
  BY GrowthAssumption
<1>2. BackoffCap(n) = IF base < MaxBackoff THEN base ELSE MaxBackoff
  BY DEF BackoffCap
<1> HIDE DEF base
<1>3. BackoffCap(n) \in Nat /\ BackoffCap(n) <= MaxBackoff
  BY <1>1, <1>2, RetryPolicyAssumption
<1>4. delay \in 0..BackoffCap(n)
  BY <1>3 DEF Backoff
<1> QED
  BY <1>3, <1>4, RetryPolicyAssumption

\* What a runner raises is an exception its callers know.
LEMMA RaisedKnown ==
    ASSUME NEW k \in Runner, NEW f \in Failure
    PROVE  Raised(k, f) \in Exceptions
BY DEF Raised, MapException, Exceptions, ProviderException, Failure

\* Only transient failures are tried again, by either classification.
LEMMA RetriesTransient ==
    ASSUME NEW f, IsRetryable(f)
    PROVE  f \in Transient
BY DEF IsRetryable, Transient

\* One more sleep of at most MaxBackoff keeps the bound.
LEMMA OneMoreSleep ==
    ASSUME NEW a \in Nat, NEW s \in Nat, NEW delay \in Nat,
           delay <= MaxBackoff, s <= MaxBackoff * a
    PROVE  s + delay <= MaxBackoff * (a + 1)
<1> DEFINE before == MaxBackoff * a
           after  == MaxBackoff * (a + 1)
<1>1. after = before + MaxBackoff /\ before \in Nat
  BY RetryPolicyAssumption
<1>2. s <= before
  OBVIOUS
<1> HIDE DEF before
<1>3. s + delay <= before + MaxBackoff
  BY <1>1, <1>2, RetryPolicyAssumption
<1> QED
  BY <1>1, <1>3

\* A request that has not begun keeps to the policy.
LEMMA NewRequestGood == GoodRequest(NewRequest)
<1>1. /\ "fake" \in Runner /\ <<>> \in Carried /\ "none" \in LastFailure
      /\ "none" \in Exceptions /\ NoText \in Received /\ NoText \in Bodies
      /\ NoText \in Answers /\ "new" \in Phase
  BY DEF Runner, Carried, LastFailure, Exceptions, Received, Bodies, Answers, Phase
<1>2. 0 \in 0..MaxRetries /\ MaxBackoff * 0 = 0
  BY RetryPolicyAssumption
<1> DEFINE q == NewRequest
<1>3. q \in RequestState
  BY <1>1, <1>2 DEF NewRequest, RequestState
<1>4. /\ q.pc = "new" /\ q.retried = {} /\ q.slept = 0 /\ q.attempt = 0 /\ q.body = NoText
      /\ q.answer = NoText
  BY DEF NewRequest
<1>5. q.slept <= MaxBackoff * Sleeps(q)
  BY <1>2, <1>4 DEF Sleeps
<1> QED
  BY <1>3, <1>4, <1>5 DEF GoodRequest

\* A good request q stays good when the loop's next turn sends it to the network.
LEMMA WaitingGood ==
    ASSUME NEW q, q \in RequestState, q.retried \subseteq Transient,
           q.slept <= MaxBackoff * q.attempt, q.body = NoText, q.answer = NoText,
           q.messages \in Conversations
    PROVE  GoodRequest([q EXCEPT !.pc = "attempt"])
<1> DEFINE n == [q EXCEPT !.pc = "attempt"]
<1>1. n \in RequestState
  BY DEF RequestState, Phase
<1>2. /\ n.pc = "attempt" /\ n.retried = q.retried /\ n.slept = q.slept
      /\ n.attempt = q.attempt /\ n.body = q.body /\ n.answer = q.answer /\ n.messages = q.messages
  BY DEF RequestState
<1> HIDE DEF n
<1>3. q.attempt + 0 = q.attempt
  BY RetryPolicyAssumption DEF RequestState
<1>4. Sleeps(n) = q.attempt
  BY <1>2, <1>3 DEF Sleeps
<1>5. n.slept <= MaxBackoff * Sleeps(n)
  BY <1>2, <1>4
<1> QED
  BY <1>1, <1>2, <1>5 DEF GoodRequest, n

\* ... and when the client library refuses to build a client.
LEMMA RefusedGood ==
    ASSUME NEW q, q \in RequestState, q.retried \subseteq Transient,
           q.slept <= MaxBackoff * q.attempt, q.body = NoText, q.answer = NoText,
           q.messages \in Conversations
    PROVE  GoodRequest([q EXCEPT !.pc = "raised", !.last = "other",
                                 !.raised = Raised(q.runner, "other")])
<1> DEFINE n == [q EXCEPT !.pc = "raised", !.last = "other",
                          !.raised = Raised(q.runner, "other")]
<1>1. Raised(q.runner, "other") \in Exceptions
  BY RaisedKnown DEF RequestState, Failure
<1>2. "other" \in LastFailure /\ "raised" \in Phase
  BY DEF LastFailure, Failure, Phase
<1>3. n \in RequestState
  BY <1>1, <1>2 DEF RequestState
<1>4. /\ n.pc = "raised" /\ n.retried = q.retried /\ n.slept = q.slept
      /\ n.attempt = q.attempt /\ n.body = q.body /\ n.answer = q.answer /\ n.messages = q.messages
      /\ n.last = "other" /\ n.raised = Raised(q.runner, "other") /\ n.runner = q.runner
  BY DEF RequestState
<1> HIDE DEF n
<1>5. q.attempt + 0 = q.attempt
  BY RetryPolicyAssumption DEF RequestState
<1>6. Sleeps(n) = q.attempt
  BY <1>4, <1>5 DEF Sleeps
<1>7. n.slept <= MaxBackoff * Sleeps(n)
  BY <1>4, <1>6
<1>8. "other" \in Failure /\ "other" \notin Transient
  BY DEF Failure, Transient
<1> QED
  BY <1>3, <1>4, <1>7, <1>8 DEF GoodRequest, n

\* The except branch of the loop keeps a request good: it tries again only what
\* may pass and while a try is left, or raises what the runner makes of f.
LEMMA RetriedGood ==
    ASSUME NEW q, GoodRequest(q), q.pc = "attempt", NEW f \in Failure, IsRetryable(f),
           q.attempt < MaxRetries, NEW delay \in Backoff(q.attempt)
    PROVE  GoodRequest([q EXCEPT !.pc = "backoff", !.last = f,
                                 !.retried = q.retried \cup {f},
                                 !.slept = q.slept + delay])
<1> DEFINE n == [q EXCEPT !.pc = "backoff", !.last = f,
                          !.retried = q.retried \cup {f}, !.slept = q.slept + delay]
<1>0. /\ q \in RequestState /\ q.slept <= MaxBackoff * Sleeps(q)
      /\ q.retried \subseteq Transient /\ q.messages \in Conversations
      /\ q.body = NoText /\ q.answer = NoText
  BY DEF GoodRequest
<1>1. /\ q.attempt \in 0..MaxRetries /\ q.attempt \in Nat /\ q.slept \in Nat
      /\ q.retried \in SUBSET Failure
  BY <1>0, RetryPolicyAssumption DEF RequestState
<1>2. delay \in Nat /\ delay <= MaxBackoff
  BY <1>1, BackoffWithinMax
<1>3. /\ "backoff" \in Phase /\ f \in LastFailure /\ q.slept + delay \in Nat
      /\ q.retried \cup {f} \in SUBSET Failure
  BY <1>1, <1>2 DEF Phase, LastFailure
<1>4. n \in RequestState
  BY <1>0, <1>3 DEF RequestState
<1>5. /\ n.pc = "backoff" /\ n.retried = q.retried \cup {f} /\ n.slept = q.slept + delay
      /\ n.attempt = q.attempt /\ n.body = q.body /\ n.answer = q.answer /\ n.messages = q.messages
      /\ n.runner = q.runner
  BY <1>0 DEF RequestState
<1> HIDE DEF n
<1>6. Sleeps(q) = q.attempt /\ Sleeps(n) = q.attempt + 1
  BY <1>1, <1>5 DEF Sleeps
<1>7. q.slept <= MaxBackoff * q.attempt
  BY <1>0, <1>6
<1>8. q.slept + delay <= MaxBackoff * (q.attempt + 1)
  BY <1>1, <1>2, <1>7, OneMoreSleep
<1>9. n.slept <= MaxBackoff * Sleeps(n)
  BY <1>5, <1>6, <1>8
<1>10. n.retried \subseteq Transient
  BY <1>0, <1>5, RetriesTransient
<1> QED
  BY <1>0, <1>4, <1>5, <1>9, <1>10 DEF GoodRequest, n

LEMMA GivenUpGood ==
    ASSUME NEW q, GoodRequest(q), q.pc = "attempt", NEW f \in Failure,
           ~ /\ IF q.runner = "handler" THEN HandlerRetries(f) ELSE IsRetryable(f)
             /\ HasRetryLeft(q.attempt)
    PROVE  GoodRequest([q EXCEPT !.pc = "raised", !.last = f,
                                 !.raised = Raised(q.runner, f)])
<1> DEFINE n == [q EXCEPT !.pc = "raised", !.last = f, !.raised = Raised(q.runner, f)]
<1>0. /\ q \in RequestState /\ q.slept <= MaxBackoff * Sleeps(q)
      /\ q.retried \subseteq Transient /\ q.messages \in Conversations
      /\ q.body = NoText /\ q.answer = NoText
  BY DEF GoodRequest
<1>1. Raised(q.runner, f) \in Exceptions
  BY <1>0, RaisedKnown DEF RequestState
<1>2. f \in LastFailure /\ "raised" \in Phase
  BY DEF LastFailure, Phase
<1>3. n \in RequestState
  BY <1>0, <1>1, <1>2 DEF RequestState
<1>4. /\ n.pc = "raised" /\ n.retried = q.retried /\ n.slept = q.slept
      /\ n.attempt = q.attempt /\ n.body = q.body /\ n.answer = q.answer /\ n.messages = q.messages
      /\ n.last = f /\ n.raised = Raised(q.runner, f) /\ n.runner = q.runner
  BY <1>0 DEF RequestState
<1> HIDE DEF n
<1>5. Sleeps(q) = Sleeps(n)
  BY <1>4 DEF Sleeps
<1>6. n.slept <= MaxBackoff * Sleeps(n)
  BY <1>0, <1>4, <1>5
<1>7. f \in Transient => \/ q.attempt = MaxRetries
                         \/ q.runner = "handler" /\ f = "http_429_date"
  <2> SUFFICES ASSUME f \in Transient PROVE \/ q.attempt = MaxRetries
                                            \/ q.runner = "handler" /\ f = "http_429_date"
    OBVIOUS
  <2>1. IsRetryable(f)
    BY DEF Transient, IsRetryable
  <2>2. q.attempt \in 0..MaxRetries
    BY <1>0 DEF RequestState
  <2>3. CASE HasRetryLeft(q.attempt)
    BY <2>1, <2>3 DEF HandlerRetries
  <2>4. CASE ~HasRetryLeft(q.attempt)
    BY <2>2, <2>4, RetryPolicyAssumption DEF HasRetryLeft
  <2> QED
    BY <2>3, <2>4
<1> QED
  BY <1>0, <1>3, <1>4, <1>6, <1>7 DEF GoodRequest, n

\* The attempt of the fake or of a coroutine is answered.
LEMMA AnsweredGood ==
    ASSUME NEW q, GoodRequest(q), q.pc = "attempt"
    PROVE  GoodRequest([q EXCEPT !.pc = "answered"])
<1> DEFINE n == [q EXCEPT !.pc = "answered"]
<1>0. /\ q \in RequestState /\ q.slept <= MaxBackoff * Sleeps(q)
      /\ q.retried \subseteq Transient /\ q.messages \in Conversations
      /\ q.body = NoText /\ q.answer = NoText
  BY DEF GoodRequest
<1>1. n \in RequestState
  BY <1>0 DEF RequestState, Phase
<1>2. /\ n.pc = "answered" /\ n.retried = q.retried /\ n.slept = q.slept
      /\ n.attempt = q.attempt /\ n.body = q.body /\ n.answer = q.answer /\ n.messages = q.messages
      /\ n.runner = q.runner
  BY <1>0 DEF RequestState
<1> HIDE DEF n
<1>3. Sleeps(q) = Sleeps(n)
  BY <1>2 DEF Sleeps
<1>4. n.slept <= MaxBackoff * Sleeps(n)
  BY <1>0, <1>2, <1>3
<1> QED
  BY <1>0, <1>1, <1>2, <1>4 DEF GoodRequest, n

\* The attempt of an HTTP adapter is answered: both translations have happened.
LEMMA TranslatedGood ==
    ASSUME NEW q, GoodRequest(q), q.pc = "attempt", q.runner \in HttpAdapter,
           NEW reply \in RepliesOf(q.runner)
    PROVE  GoodRequest([q EXCEPT !.pc = "answered", !.body = Body(q.runner, q.messages),
                                 !.reply = reply, !.answer = ModelAnswer(q.runner, reply)])
<1> DEFINE n == [q EXCEPT !.pc = "answered", !.body = Body(q.runner, q.messages),
                          !.reply = reply, !.answer = ModelAnswer(q.runner, reply)]
<1>0. /\ q \in RequestState /\ q.slept <= MaxBackoff * Sleeps(q)
      /\ q.retried \subseteq Transient /\ q.messages \in Conversations
      /\ q.runner \in Runner /\ reply \in Replies
  BY DEF GoodRequest, RequestState, RepliesOf
<1>1. /\ Body(q.runner, q.messages) \in Bodies /\ reply \in Received
      /\ ModelAnswer(q.runner, reply) \in Answers /\ "answered" \in Phase
  BY <1>0 DEF Bodies, Received, Answers, Phase
<1>2. n \in RequestState
  BY <1>0, <1>1 DEF RequestState
<1>3. /\ n.pc = "answered" /\ n.retried = q.retried /\ n.slept = q.slept
      /\ n.attempt = q.attempt /\ n.body = Body(q.runner, q.messages)
      /\ n.messages = q.messages /\ n.runner = q.runner /\ n.reply = reply
      /\ n.answer = ModelAnswer(q.runner, reply)
  BY <1>0 DEF RequestState
<1> HIDE DEF n
<1>4. Sleeps(q) = Sleeps(n)
  BY <1>3 DEF Sleeps
<1>5. n.slept <= MaxBackoff * Sleeps(n)
  BY <1>0, <1>3, <1>4
<1> QED
  BY <1>0, <1>2, <1>3, <1>5 DEF GoodRequest, n

\* A cancelled request keeps the bound on its waits: a sleep that was cut short
\* counts as one.
LEMMA CancelledGood ==
    ASSUME NEW q, GoodRequest(q), q.pc \in {"attempt", "backoff"}
    PROVE  GoodRequest([q EXCEPT !.pc = "cancelled"])
<1> DEFINE n == [q EXCEPT !.pc = "cancelled"]
<1>0. /\ q \in RequestState /\ q.slept <= MaxBackoff * Sleeps(q)
      /\ q.retried \subseteq Transient /\ q.messages \in Conversations
      /\ q.body = NoText /\ q.answer = NoText
  BY DEF GoodRequest
<1>1. n \in RequestState
  BY <1>0 DEF RequestState, Phase
<1>2. /\ n.pc = "cancelled" /\ n.retried = q.retried /\ n.slept = q.slept
      /\ n.attempt = q.attempt /\ n.body = q.body /\ n.answer = q.answer /\ n.messages = q.messages
      /\ n.runner = q.runner
  BY <1>0 DEF RequestState
<1>3. q.attempt \in Nat /\ q.slept \in Nat
  BY <1>0, RetryPolicyAssumption DEF RequestState
<1> HIDE DEF n
<1>4. Sleeps(n) = q.attempt + 1
  BY <1>2 DEF Sleeps
<1>5. CASE q.pc = "backoff"
  <2>1. Sleeps(q) = q.attempt + 1
    BY <1>5 DEF Sleeps
  <2>2. n.slept <= MaxBackoff * Sleeps(n)
    BY <1>0, <1>2, <1>4, <2>1
  <2> QED
    BY <1>0, <1>1, <1>2, <2>2 DEF GoodRequest, n
<1>6. CASE q.pc = "attempt"
  <2>1. Sleeps(q) = q.attempt
    BY <1>3, <1>6 DEF Sleeps
  <2>2. 0 \in Nat /\ 0 <= MaxBackoff /\ q.slept <= MaxBackoff * q.attempt
    BY <1>0, <2>1, RetryPolicyAssumption
  <2>3. q.slept + 0 <= MaxBackoff * (q.attempt + 1)
    BY <1>3, <2>2, OneMoreSleep
  <2>4. n.slept <= MaxBackoff * Sleeps(n)
    BY <1>2, <1>3, <1>4, <2>3
  <2> QED
    BY <1>0, <1>1, <1>2, <2>4 DEF GoodRequest, n
<1> QED
  BY <1>5, <1>6

-----------------------------------------------------------------------------

\* One request changes: it suffices that the new one is good.
LEMMA OneRequestGood ==
    ASSUME AdapterIInv, NEW r \in Requests, NEW n, GoodRequest(n),
           request' = [request EXCEPT ![r] = n], ClientsKept'
    PROVE  AdapterIInv'
<1>1. DOMAIN request' = Requests
  BY DEF AdapterIInv
<1>2. \A s \in Requests : request'[s] = IF s = r THEN n ELSE request[s]
  BY DEF AdapterIInv
<1>3. \A s \in Requests : GoodRequest(request'[s])
  BY <1>2 DEF AdapterIInv
<1>4. request' = [s \in Requests |-> request'[s]]
  BY <1>1, <1>2
<1> QED
  BY <1>1, <1>3, <1>4 DEF AdapterIInv, GoodRequest

\* The adapters' clients when no step touches them.
LEMMA ClientsUntouched ==
    ASSUME ClientsKept, UNCHANGED <<client, pools>>
    PROVE  ClientsKept'
BY DEF ClientsKept, NoPoolAbandoned

\* _get_client closes the gap between test and assignment: one client is open
\* afterwards, however many requests come together.
LEMMA GetClientKeeps ==
    ASSUME ClientsKept, NEW k \in HttpAdapter, GetClient(k)
    PROVE  ClientsKept'
<1>1. client \in [HttpAdapter -> {"none", "open", "closed"}] /\ pools \in [HttpAdapter -> Int]
  BY DEF ClientsKept
<1>2. client' \in [HttpAdapter -> {"none", "open", "closed"}] /\ client'[k] = "open"
  BY <1>1 DEF GetClient
<1>3. pools' \in [HttpAdapter -> Int]
  BY <1>1 DEF GetClient
<1>4. \A j \in HttpAdapter : j # k => client'[j] = client[j] /\ pools'[j] = pools[j]
  BY <1>1 DEF GetClient
<1>5. pools'[k] = IF client[k] = "open" THEN pools[k] ELSE pools[k] + 1
  BY <1>1 DEF GetClient
<1>6. \A j \in HttpAdapter : pools[j] = IF client[j] = "open" THEN 1 ELSE 0
  BY DEF ClientsKept, NoPoolAbandoned
<1>7. pools'[k] = 1
  BY <1>5, <1>6
<1>8. NoPoolAbandoned'
  BY <1>2, <1>4, <1>6, <1>7 DEF NoPoolAbandoned
<1> QED
  BY <1>2, <1>3, <1>8 DEF ClientsKept

LEMMA CloseKeeps ==
    ASSUME ClientsKept, NEW k \in HttpAdapter, Close(k)
    PROVE  ClientsKept'
<1>1. client \in [HttpAdapter -> {"none", "open", "closed"}] /\ pools \in [HttpAdapter -> Int]
  BY DEF ClientsKept
<1>2. client' \in [HttpAdapter -> {"none", "open", "closed"}] /\ client'[k] = "closed"
  BY <1>1 DEF Close
<1>3. pools' \in [HttpAdapter -> Int]
  BY <1>1 DEF Close
<1>4. \A j \in HttpAdapter : j # k => client'[j] = client[j] /\ pools'[j] = pools[j]
  BY <1>1 DEF Close
<1>5. pools'[k] = pools[k] - 1
  BY <1>1 DEF Close
<1>6. \A j \in HttpAdapter : pools[j] = IF client[j] = "open" THEN 1 ELSE 0
  BY DEF ClientsKept, NoPoolAbandoned
<1>7. pools'[k] = 0
  BY <1>5, <1>6 DEF Close
<1>8. NoPoolAbandoned'
  BY <1>2, <1>4, <1>6, <1>7 DEF NoPoolAbandoned
<1> QED
  BY <1>2, <1>3, <1>8 DEF ClientsKept

-----------------------------------------------------------------------------
(* Every step of the adapters.                                             *)

LEMMA AdapterInitGood == AdapterInit => AdapterIInv
<1> SUFFICES ASSUME AdapterInit PROVE AdapterIInv
  OBVIOUS
<1>1. \A r \in Requests : request[r] = NewRequest
  BY DEF AdapterInit
<1>2. /\ DOMAIN request = Requests /\ request = [r \in Requests |-> request[r]]
      /\ \A r \in Requests : GoodRequest(request[r])
  BY <1>1, NewRequestGood DEF AdapterInit
<1>3. ClientsKept
  BY DEF AdapterInit, ClientsKept, NoPoolAbandoned
<1> QED
  BY <1>2, <1>3 DEF AdapterIInv

LEMMA SucceedsGood ==
    ASSUME AdapterIInv, NEW r \in Requests, Succeeds(r)
    PROVE  AdapterIInv'
<1> DEFINE q == request[r]
<1>1. /\ GoodRequest(q) /\ q.pc = "attempt" /\ ClientsKept'
      /\ r \in DOMAIN request
  BY ClientsUntouched DEF AdapterIInv, Succeeds
<1>2. CASE q.runner \in HttpAdapter
  <2>1. PICK reply \in RepliesOf(q.runner) :
          request' = [request EXCEPT ![r].pc = "answered",
                                     ![r].body = Body(request[r].runner, request[r].messages),
                                     ![r].reply = reply,
                                     ![r].answer = ModelAnswer(request[r].runner, reply)]
    BY <1>2 DEF Succeeds
  <2> DEFINE n == [q EXCEPT !.pc = "answered", !.body = Body(q.runner, q.messages),
                            !.reply = reply, !.answer = ModelAnswer(q.runner, reply)]
  <2>2. request' = [request EXCEPT ![r] = n]
    BY <1>1, <2>1
  <2>3. GoodRequest(n)
    BY <1>1, <1>2, TranslatedGood
  <2> QED
    BY <1>1, <2>2, <2>3, OneRequestGood
<1>3. CASE q.runner \notin HttpAdapter
  <2> DEFINE n == [q EXCEPT !.pc = "answered"]
  <2>1. request' = [request EXCEPT ![r] = n]
    BY <1>3 DEF Succeeds
  <2>2. GoodRequest(n)
    BY <1>1, AnsweredGood
  <2> QED
    BY <1>1, <2>1, <2>2, OneRequestGood
<1> QED
  BY <1>2, <1>3

LEMMA FailsGood ==
    ASSUME AdapterIInv, NEW r \in Requests, NEW f \in Failure, Fails(r, f)
    PROVE  AdapterIInv'
<1> DEFINE q == request[r]
<1>1. /\ GoodRequest(q) /\ q.pc = "attempt" /\ ClientsKept'
      /\ r \in DOMAIN request
  BY ClientsUntouched DEF AdapterIInv, Fails
<1>2. CASE TriesAgain(r, f)
  <2>1. PICK delay \in Backoff(q.attempt) :
          request' = [request EXCEPT ![r].pc = "backoff", ![r].last = f,
                                     ![r].retried = @ \cup {f}, ![r].slept = @ + delay]
    BY <1>2 DEF Fails, AfterFailure
  <2> DEFINE n == [q EXCEPT !.pc = "backoff", !.last = f,
                            !.retried = q.retried \cup {f}, !.slept = q.slept + delay]
  <2>2. q \in RequestState
    BY <1>1 DEF GoodRequest
  <2>3. request' = [request EXCEPT ![r] = n]
    BY <1>1, <2>1, <2>2 DEF RequestState
  <2>4. IsRetryable(f) /\ q.attempt < MaxRetries
    BY <1>2 DEF TriesAgain, HandlerRetries, HasRetryLeft
  <2>5. GoodRequest(n)
    BY <1>1, <2>4, RetriedGood
  <2> QED
    BY <1>1, <2>3, <2>5, OneRequestGood
<1>3. CASE ~TriesAgain(r, f)
  <2> DEFINE n == [q EXCEPT !.pc = "raised", !.last = f, !.raised = Raised(q.runner, f)]
  <2>1. request' = [request EXCEPT ![r] = n]
    BY <1>1, <1>3 DEF Fails, AfterFailure
  <2>2. GoodRequest(n)
    BY <1>1, <1>3, GivenUpGood DEF TriesAgain
  <2> QED
    BY <1>1, <2>1, <2>2, OneRequestGood
<1> QED
  BY <1>2, <1>3

\* The loop's turn, for the first attempt and for every later one.
LEMMA BeginAttemptGood ==
    ASSUME AdapterIInv, NEW r \in Requests, NEW q, BeginAttempt(r, q),
           q \in RequestState, q.retried \subseteq Transient,
           q.slept <= MaxBackoff * q.attempt, q.body = NoText, q.answer = NoText,
           q.messages \in Conversations
    PROVE  AdapterIInv'
<1>0. ClientsKept
  BY DEF AdapterIInv
<1>1. CASE /\ IF q.runner \in HttpAdapter THEN GetClient(q.runner)
              ELSE UNCHANGED <<client, pools>>
           /\ request' = [request EXCEPT ![r] = [q EXCEPT !.pc = "attempt"]]
  <2>1. ClientsKept'
    BY <1>0, <1>1, GetClientKeeps, ClientsUntouched
  <2>2. GoodRequest([q EXCEPT !.pc = "attempt"])
    BY WaitingGood
  <2> QED
    BY <1>1, <2>1, <2>2, OneRequestGood
<1>2. CASE /\ request' = [request EXCEPT ![r] =
                            [q EXCEPT !.pc = "raised", !.last = "other",
                                      !.raised = Raised(q.runner, "other")]]
           /\ UNCHANGED <<client, pools>>
  <2>1. ClientsKept'
    BY <1>0, <1>2, ClientsUntouched
  <2>2. GoodRequest([q EXCEPT !.pc = "raised", !.last = "other",
                              !.raised = Raised(q.runner, "other")])
    BY RefusedGood
  <2> QED
    BY <1>2, <2>1, <2>2, OneRequestGood
<1> QED
  BY <1>1, <1>2 DEF BeginAttempt

LEMMA StartGood ==
    ASSUME AdapterIInv, NEW r \in Requests, NEW k \in Runner,
           NEW messages \in Conversations, Start(r, k, messages)
    PROVE  AdapterIInv'
<1> DEFINE q == [NewRequest EXCEPT !.runner = k, !.messages = messages]
<1>1. NewRequest \in RequestState
  BY NewRequestGood DEF GoodRequest
<1>2. messages \in Carried
  BY DEF Carried
<1>3. q \in RequestState
  BY <1>1, <1>2 DEF RequestState
<1>4. /\ q.retried = {} /\ q.slept = 0 /\ q.attempt = 0 /\ q.body = NoText
      /\ q.answer = NoText
      /\ q.messages = messages
  BY DEF NewRequest
<1> HIDE DEF q
<1>5. q.retried \subseteq Transient /\ q.slept <= MaxBackoff * q.attempt
  BY <1>4, RetryPolicyAssumption
<1>6. BeginAttempt(r, q)
  BY DEF Start, q
<1> QED
  BY <1>3, <1>4, <1>5, <1>6, BeginAttemptGood

\* Waking from the sleep turns the sleep that was begun into an attempt.
LEMMA WakesGood ==
    ASSUME AdapterIInv, NEW r \in Requests, Wakes(r)
    PROVE  AdapterIInv'
<1> DEFINE p == request[r]
           q == [p EXCEPT !.attempt = NextAttempt(@)]
<1>1. /\ p \in RequestState /\ p.pc = "backoff" /\ p.attempt < MaxRetries
      /\ p.retried \subseteq Transient /\ p.slept <= MaxBackoff * Sleeps(p)
      /\ p.messages \in Conversations
  BY DEF AdapterIInv, Wakes, GoodRequest
<1>2. p.attempt \in 0..MaxRetries
  BY <1>1 DEF RequestState
<1>3. p.attempt + 1 \in 0..MaxRetries
  BY <1>1, <1>2, RetryPolicyAssumption
<1>4. q = [p EXCEPT !.attempt = p.attempt + 1]
  BY <1>1 DEF NextAttempt, RequestState
<1>5. q \in RequestState
  BY <1>1, <1>3, <1>4 DEF RequestState
<1>6. /\ q.retried = p.retried /\ q.slept = p.slept /\ q.attempt = p.attempt + 1
      /\ q.messages = p.messages /\ q.body = p.body /\ q.answer = p.answer
  BY <1>1, <1>4 DEF RequestState
<1>7. BeginAttempt(r, q)
  BY DEF Wakes
<1>8. Sleeps(p) = p.attempt + 1
  BY <1>1 DEF Sleeps
<1>9. p.body = NoText /\ p.answer = NoText
  BY <1>1 DEF AdapterIInv, GoodRequest
<1> HIDE DEF p, q
<1>10. q.slept <= MaxBackoff * q.attempt
  BY <1>1, <1>6, <1>8
<1> QED
  BY <1>1, <1>5, <1>6, <1>7, <1>9, <1>10, BeginAttemptGood

LEMMA CancelledKeeps ==
    ASSUME AdapterIInv, NEW r \in Requests, Cancelled(r)
    PROVE  AdapterIInv'
<1> DEFINE q == request[r]
           n == [q EXCEPT !.pc = "cancelled"]
<1>1. /\ GoodRequest(q) /\ q.pc \in {"attempt", "backoff"} /\ ClientsKept'
  BY ClientsUntouched DEF AdapterIInv, Cancelled
<1>2. request' = [request EXCEPT ![r] = n]
  BY DEF Cancelled
<1>3. GoodRequest(n)
  BY <1>1, CancelledGood
<1> QED
  BY <1>1, <1>2, <1>3, OneRequestGood

\* A step that leaves the requests alone.
LEMMA RequestsUntouched ==
    ASSUME AdapterIInv, UNCHANGED request, ClientsKept'
    PROVE  AdapterIInv'
BY DEF AdapterIInv, GoodRequest

LEMMA AdapterStepGood == AdapterIInv /\ [AdapterNext]_adapterVars => AdapterIInv'
<1> SUFFICES ASSUME AdapterIInv, [AdapterNext]_adapterVars PROVE AdapterIInv'
  OBVIOUS
<1>0. ClientsKept
  BY DEF AdapterIInv
<1>1. CASE \E r \in Requests, k \in Runner, messages \in Conversations : Start(r, k, messages)
  BY <1>1, StartGood
<1>2. CASE \E r \in Requests : AttemptEnds(r) \/ Wakes(r) \/ Cancelled(r)
  <2>1. PICK r \in Requests : AttemptEnds(r) \/ Wakes(r) \/ Cancelled(r)
    BY <1>2
  <2>2. CASE Succeeds(r)
    BY <2>2, SucceedsGood
  <2>3. CASE \E f \in Failure : Fails(r, f)
    BY <2>3, FailsGood
  <2>4. CASE Wakes(r)
    BY <2>4, WakesGood
  <2>5. CASE Cancelled(r)
    BY <2>5, CancelledKeeps
  <2> QED
    BY <2>1, <2>2, <2>3, <2>4, <2>5 DEF AttemptEnds
<1>3. CASE \E k \in HttpAdapter : HealthCheck(k) \/ Close(k)
  <2>1. PICK k \in HttpAdapter : HealthCheck(k) \/ Close(k)
    BY <1>3
  <2>2. UNCHANGED request
    BY <2>1 DEF HealthCheck, Close
  <2>3. ClientsKept'
    BY <1>0, <2>1, GetClientKeeps, CloseKeeps DEF HealthCheck
  <2> QED
    BY <2>2, <2>3, RequestsUntouched
<1>4. CASE \E type \in {"none", "timeout", "rate_limit"} : SetErrorSimulation(type)
  BY <1>0, <1>4, ClientsUntouched, RequestsUntouched DEF SetErrorSimulation
<1>5. CASE UNCHANGED adapterVars
  BY <1>0, <1>5, ClientsUntouched, RequestsUntouched DEF adapterVars
<1> QED
  BY <1>1, <1>2, <1>3, <1>4, <1>5 DEF AdapterNext

\* The inductive invariant of the adapters holds in every run of their calls.
THEOREM AdapterInvariance == AdapterSpec => []AdapterIInv
<1> QED
  BY AdapterInitGood, AdapterStepGood, PTL DEF AdapterSpec

LEMMA AdapterInvBounds == AdapterIInv => AttemptsBounded
<1> SUFFICES ASSUME AdapterIInv PROVE AttemptsBounded
  OBVIOUS
<1>1. \A r \in Requests : GoodRequest(request[r]) /\ request[r] \in RequestState
  BY DEF AdapterIInv, GoodRequest
<1>2. ClientsKept
  BY DEF AdapterIInv
<1>3. AdapterTypeOK
  BY <1>1, <1>2
     DEF AdapterTypeOK, RequestState, Phase, LastFailure, Exceptions, ClientsKept
<1>4. RetryDiscipline
  <2> SUFFICES ASSUME NEW r \in Requests
               PROVE  /\ request[r].retried \subseteq Transient
                      /\ request[r].attempt <= MaxRetries
                      /\ request[r].pc = "raised" /\ request[r].last \in Transient =>
                           \/ request[r].attempt = MaxRetries
                           \/ request[r].runner = "handler" /\ request[r].last = "http_429_date"
    BY DEF RetryDiscipline
  <2>1. request[r].attempt \in 0..MaxRetries
    BY <1>1 DEF RequestState
  <2> QED
    BY <1>1, <2>1, RetryPolicyAssumption DEF GoodRequest
<1>5. BackoffWithinPolicy
  BY <1>1 DEF BackoffWithinPolicy, GoodRequest, Sleeps
<1> QED
  BY <1>2, <1>3, <1>4, <1>5 DEF AttemptsBounded, ClientsKept

\* Whatever fails, is cancelled or closed and in whatever order, for every retry
\* policy: an adapter and the retry handler repeat only transient failures, at
\* most max_retries times, with waits the policy bounds, over one HTTP client
\* (complete, execute_with_retry, _get_client, close).
THEOREM AttemptsStayBounded == AdapterSpec => []AttemptsBounded
<1> QED
  BY AdapterInvariance, AdapterInvBounds, PTL

\* The two classifications meet: what an adapter raises after a transient failure
\* is something the fallback handler may act on, and what it raises for a
\* rejected request is not.
LEMMA AdapterInvReaches == AdapterIInv => FailuresReachFallback
<1> SUFFICES ASSUME AdapterIInv, NEW r \in Requests,
                    request[r].pc = "raised", request[r].runner # "handler"
             PROVE  /\ request[r].last \in Transient =>
                         ServiceErrorType(request[r].raised) \in Fallbackable
                    /\ request[r].last \in {"http_400", "http_401"} =>
                         ServiceErrorType(request[r].raised) \notin Fallbackable
  BY DEF FailuresReachFallback
<1>1. request[r].raised = MapException(ClassifiedType(request[r].last))
  BY DEF AdapterIInv, GoodRequest, Raised
<1>2. ASSUME request[r].last \in Transient
      PROVE  ServiceErrorType(request[r].raised) \in Fallbackable
  BY <1>1, <1>2
     DEF Transient, ClassifiedType, MapException, ServiceErrorType, Fallbackable
<1>3. ASSUME request[r].last \in {"http_400", "http_401"}
      PROVE  ServiceErrorType(request[r].raised) \notin Fallbackable
  BY <1>1, <1>3 DEF ClassifiedType, MapException, ServiceErrorType, Fallbackable
<1> QED
  BY <1>2, <1>3

\* A failure that may pass reaches the service as one it falls back on, a
\* rejected request as one it does not, for every call of every adapter
\* (_classify_error and _map_exception of BaseProvider, _classify_error of
\* ProviderService).
THEOREM FailuresReachTheService == AdapterSpec => []FailuresReachFallback
<1> QED
  BY AdapterInvariance, AdapterInvReaches, PTL

\* The two forms of an Anthropic request put the conversation together again.
LEMMA AnthropicBodySent ==
    ASSUME NEW m \in Conversations
    PROVE  LET b == AnthropicBody(m)
               asSent == IF b.system = NoText THEN b.messages
                         ELSE <<[role |-> "system", text |-> b.system]>> \o b.messages
           IN  \/ m = asSent
               \/ /\ b.system = NoText
                  /\ m = <<[role |-> "system", text |-> ""]>> \o asSent
<1> DEFINE Message == [role : STRING, text : Texts]
<1>1. m \in Seq(Message) /\ m # <<>>
  BY ConversationAssumption DEF Message
<1> HIDE DEF Message
<1>2. Head(m) \in Message /\ m = <<Head(m)>> \o Tail(m)
  <2>1. /\ Head(m) \in Message /\ Tail(m) \in Seq(Message) /\ Len(Tail(m)) = Len(m) - 1
        /\ \A i \in 1..Len(Tail(m)) : Tail(m)[i] = m[i + 1]
    BY <1>1, HeadTailProperties
  <2>2. <<Head(m)>> \in Seq(Message) /\ Len(<<Head(m)>>) = 1 /\ <<Head(m)>>[1] = m[1]
    BY <1>1, <2>1
  <2> DEFINE h == <<Head(m)>>
             t == Tail(m)
  <2> HIDE DEF h, t
  <2>3. /\ h \o t \in Seq(Message) /\ Len(h \o t) = Len(h) + Len(t)
        /\ \A i \in 1..Len(h) + Len(t) :
             (h \o t)[i] = IF i <= Len(h) THEN h[i] ELSE t[i - Len(h)]
    BY <2>1, <2>2, ConcatProperties DEF h, t
  <2>4. Len(m) \in Nat /\ Len(h) = 1 /\ Len(t) = Len(m) - 1 /\ Len(t) \in Nat
    BY <1>1, <2>1, <2>2, LenProperties DEF h, t
  <2>5. Len(h \o t) = Len(m)
    BY <2>3, <2>4
  <2>6. \A i \in 1..Len(m) : m[i] = (h \o t)[i]
    <3> TAKE i \in 1..Len(m)
    <3>1. CASE i = 1
      BY <3>1, <2>2, <2>3, <2>4 DEF h
    <3>2. CASE i # 1
      <4>1. i - 1 \in 1..Len(t) /\ (i - 1) + 1 = i
        BY <3>2, <2>4
      <4>2. t[i - 1] = m[i]
        BY <2>1, <4>1 DEF t
      <4> QED
        BY <2>3, <2>4, <3>2, <4>2
    <3> QED
      BY <3>1, <3>2
  <2>7. m = h \o t
    BY <1>1, <2>3, <2>5, <2>6, SeqEqual
  <2> QED
    BY <2>1, <2>7 DEF h, t
<1>3. Head(m) = [role |-> Head(m).role, text |-> Head(m).text] /\ Head(m).text # NoText
  BY <1>2, ConversationAssumption DEF Message
<1>4. CASE Head(m).role # "system"
  BY <1>4 DEF AnthropicBody
<1>5. CASE Head(m).role = "system" /\ Head(m).text = ""
  BY <1>2, <1>3, <1>5 DEF AnthropicBody
<1>6. CASE Head(m).role = "system" /\ Head(m).text # ""
  BY <1>2, <1>3, <1>6 DEF AnthropicBody
<1> QED
  BY <1>4, <1>5, <1>6

\* Whatever conversation is sent and whichever adapter sends it, the provider
\* reads its messages in order; Anthropic's adapter drops a system prompt that is
\* empty, and no other message is lost (_normalize_request).
THEOREM ConversationsSent == AdapterSpec => []ConversationSent
<1>1. AdapterIInv => ConversationSent
  <2> SUFFICES ASSUME AdapterIInv, NEW r \in Requests, request[r].body # NoText
               PROVE  LET b == request[r].body
                          asSent == IF b.system = NoText THEN b.messages
                                    ELSE <<[role |-> "system", text |-> b.system]>> \o b.messages
                      IN  \/ request[r].messages = asSent
                          \/ /\ request[r].runner = "anthropic" /\ b.system = NoText
                             /\ request[r].messages =
                                  <<[role |-> "system", text |-> ""]>> \o asSent
    BY DEF ConversationSent
  <2>1. PICK k, m : /\ m \in Conversations /\ m = request[r].messages
                    /\ request[r].body = Body(k, m) /\ request[r].runner = k
    BY DEF AdapterIInv, GoodRequest
  <2>2. CASE k = "anthropic"
    BY <2>1, <2>2, AnthropicBodySent DEF Body
  <2>3. CASE k # "anthropic"
    BY <2>1, <2>3 DEF Body, OpenAIBody
  <2> QED
    BY <2>2, <2>3
<1> QED
  BY <1>1, AdapterInvariance, PTL

-----------------------------------------------------------------------------
(* What the adapters keep of an answer.                                    *)

\* A set of natural numbers has a least member.
LEMMA LeastNatural ==
    ASSUME NEW S, S \subseteq Nat, S # {}
    PROVE  \E n \in S : \A m \in S : n <= m
<1>1. PICK x \in S : \A y \in S : ~ (<<y, x>> \in OpToRel(<, Nat))
  BY NatLessThanWellFounded, WFMin
<1>2. \A y \in S : ~(y < x)
  BY <1>1 DEF OpToRel
<1>3. \A y \in S : y \in Nat
  OBVIOUS
<1> QED
  BY <1>2, <1>3

\* The rank of a place among the places of a sequence: how many come up to it.
LEMMA RankOfPlace ==
    ASSUME NEW len \in Nat, NEW places \in SUBSET (1..len)
    PROVE  /\ Cardinality(places) \in Nat
           /\ \A i \in places : Cardinality(places \cap 1..i) \in 1..Cardinality(places)
           /\ \A i, j \in places :
                i < j => Cardinality(places \cap 1..i) < Cardinality(places \cap 1..j)
<1>1. IsFiniteSet(places) /\ Cardinality(places) \in Nat
  <2>1. IsFiniteSet(1..len)
    BY FS_Interval
  <2>2. IsFiniteSet(places)
    BY <2>1, FS_Subset
  <2> QED
    BY <2>2, FS_CardinalityType
<1>2. \A i \in places : i \in 1..len
  OBVIOUS
<1>3. ASSUME NEW i \in places
      PROVE  Cardinality(places \cap 1..i) \in 1..Cardinality(places)
  <2>1. places \cap 1..i \subseteq places /\ IsFiniteSet(places \cap 1..i)
    BY <1>1, FS_Subset
  <2>2. i \in places \cap 1..i
    BY <1>2
  <2>3. Cardinality(places \cap 1..i) \in Nat /\ Cardinality(places \cap 1..i) # 0
    BY <2>1, <2>2, FS_CardinalityType, FS_EmptySet
  <2>4. Cardinality(places \cap 1..i) <= Cardinality(places)
    BY <1>1, <2>1, FS_Subset
  <2> QED
    BY <1>1, <2>3, <2>4
<1>4. ASSUME NEW i \in places, NEW j \in places, i < j
      PROVE  Cardinality(places \cap 1..i) < Cardinality(places \cap 1..j)
  <2>1. i \in Nat /\ j \in Nat
    BY <1>2
  <2>2. IsFiniteSet(places \cap 1..j)
    BY <1>1, FS_Subset
  <2>3. places \cap 1..i \subseteq places \cap 1..j
    BY <1>4, <2>1
  <2>4. j \in places \cap 1..j /\ j \notin places \cap 1..i
    BY <1>4, <2>1
  <2> DEFINE S == places \cap 1..j
             T == places \cap 1..i
  <2>5. S # T /\ T \in SUBSET S /\ IsFiniteSet(S)
    BY <2>2, <2>3, <2>4
  <2> HIDE DEF S, T
  <2>6. Cardinality(T) <= Cardinality(S) /\ Cardinality(T) # Cardinality(S) /\ IsFiniteSet(T)
    BY <2>5, FS_Subset
  <2>7. Cardinality(T) \in Nat /\ Cardinality(S) \in Nat
    BY <2>5, <2>6, FS_CardinalityType
  <2>8. Cardinality(T) < Cardinality(S)
    BY <2>6, <2>7
  <2> QED
    BY <2>8 DEF S, T
<1> QED
  BY <1>1, <1>3, <1>4

\* The places of the parts of a type.
PlacesOf(parts, type) == {i \in DOMAIN parts : parts[i].type = type}

\* The parts of a type are the ones at its places, in order.
LEMMA PartsOfType ==
    ASSUME NEW parts, NEW len \in Nat, DOMAIN parts = 1..len, NEW type
    PROVE  LET places == PlacesOf(parts, type)
           IN  /\ OfType(parts, type) = [n \in 1..Cardinality(places) |-> OfType(parts, type)[n]]
               /\ \A i \in places :
                    OfType(parts, type)[Cardinality(places \cap 1..i)] = parts[i]
<1> DEFINE places == PlacesOf(parts, type)
<1>0. places \in SUBSET (1..len)
  BY DEF PlacesOf
<1> DEFINE Rank(i) == Cardinality(places \cap 1..i)
           Nth(n) == CHOOSE i \in places : Rank(i) = n
<1>1. OfType(parts, type) = [n \in 1..Cardinality(places) |-> parts[Nth(n)]]
  BY DEF OfType, PlacesOf
<1> HIDE DEF places
<1>2. \A i \in places : i \in Nat
  BY <1>0
<1>3. /\ \A i \in places : Rank(i) \in 1..Cardinality(places)
      /\ \A i, j \in places : i < j => Rank(i) < Rank(j)
      /\ Cardinality(places) \in Nat
  BY <1>0, RankOfPlace
<1> HIDE DEF Rank
<1>4. ASSUME NEW i \in places
      PROVE  Nth(Rank(i)) = i
  <2> DEFINE j == Nth(Rank(i))
  <2>1. j \in places /\ Rank(j) = Rank(i)
    OBVIOUS
  <2> HIDE DEF j
  <2>2. ~(i < j) /\ ~(j < i)
    BY <1>3, <2>1
  <2>3. i = j
    BY <1>2, <2>1, <2>2
  <2> QED
    BY <2>3 DEF j
<1> HIDE DEF Nth
<1> QED
  BY <1>1, <1>3, <1>4 DEF Rank, places

\* An answer holds the tool calls of a reply, all of them in order, the first of
\* its texts, and whether the provider stopped to have tools called.
ReadOf(a, reply) ==
    LET parts == reply.parts
        Used  == PlacesOf(parts, "tool_use")
        Said  == PlacesOf(parts, "text")
    IN  /\ Len(a.toolCalls) = Cardinality(Used)
        /\ \A i, j \in Used :
             i < j => \E m, n \in DOMAIN a.toolCalls :
                        /\ m < n
                        /\ a.toolCalls[m] = parts[i].what
                        /\ a.toolCalls[n] = parts[j].what
        /\ a.content = NoText <=> Said = {}
        /\ \A i \in Said :
             (\A j \in Said : i <= j) => a.content = parts[i].what
        /\ a.finish = "tool_calls" <=> reply.stop \in {"tool_use", "tool_calls"}

LEMMA AnswerReadsReply ==
    ASSUME NEW k \in HttpAdapter, NEW reply \in RepliesOf(k)
    PROVE  ReadOf(ModelAnswer(k, reply), reply)
<1> DEFINE parts == reply.parts
           a     == ModelAnswer(k, reply)
           Used  == PlacesOf(parts, "tool_use")
           Said  == PlacesOf(parts, "text")
           used  == OfType(parts, "tool_use")
           said  == OfType(parts, "text")
           Part  == [type : {"text", "tool_use"}, what : STRING]
<1>1. /\ reply.from = k /\ reply.stop \in STRING /\ parts \in Seq(Part)
      /\ reply.from = "openai" => reply.stop # "tool_use"
      /\ NoText \notin STRING
  BY RepliesAssumption DEF RepliesOf
<1>2. PICK len : len \in Nat /\ DOMAIN parts = 1..len
  BY <1>1, LenProperties
<1>3. \A i \in DOMAIN parts : parts[i] \in Part
  <2> HIDE DEF Part, parts
  <2> QED
    BY <1>1, LenProperties
<1>4. /\ a.content = (IF said = <<>> THEN NoText ELSE Head(said).what)
      /\ a.toolCalls = [i \in DOMAIN used |-> used[i].what]
      /\ a.finish = IF k = "anthropic" THEN AnthropicFinish(reply.stop) ELSE reply.stop
  BY DEF ModelAnswer, FirstText, AnthropicToolCalls, OpenAIToolCalls
<1> HIDE DEF a, parts, used, said, Part
<1>5. /\ Used \in SUBSET (1..len) /\ Said \in SUBSET (1..len)
      /\ Cardinality(Used) \in Nat /\ Cardinality(Said) \in Nat
  BY <1>2, RankOfPlace DEF PlacesOf
<1>0. /\ Used = {i \in DOMAIN parts : parts[i].type = "tool_use"}
      /\ Said = {i \in DOMAIN parts : parts[i].type = "text"}
  BY DEF PlacesOf
<1>6. /\ used = [n \in 1..Cardinality(Used) |-> used[n]] /\ DOMAIN used = 1..Cardinality(Used)
      /\ \A i \in Used : used[Cardinality(Used \cap 1..i)] = parts[i]
  BY <1>2, PartsOfType DEF used
<1> HIDE DEF Used
<1>7. /\ said = [n \in 1..Cardinality(Said) |-> said[n]] /\ DOMAIN said = 1..Cardinality(Said)
      /\ \A i \in Said : said[Cardinality(Said \cap 1..i)] = parts[i]
  BY <1>2, PartsOfType DEF said
<1> HIDE DEF Said
<1>8. \A i \in Used : Cardinality(Used \cap 1..i) \in 1..Cardinality(Used)
  BY <1>2, <1>5, RankOfPlace
<1>9. Len(a.toolCalls) = Cardinality(Used)
  <2>1. a.toolCalls = [i \in 1..Cardinality(Used) |-> used[i].what]
    BY <1>4, <1>6
  <2> QED
    BY <1>5, <2>1
<1>10. ASSUME NEW i \in Used, NEW j \in Used, i < j
       PROVE  \E m, n \in DOMAIN a.toolCalls :
                /\ m < n
                /\ a.toolCalls[m] = parts[i].what
                /\ a.toolCalls[n] = parts[j].what
  <2> DEFINE m == Cardinality(Used \cap 1..i)
             n == Cardinality(Used \cap 1..j)
  <2>1. m \in 1..Cardinality(Used) /\ n \in 1..Cardinality(Used)
    BY <1>8
  <2>2. m < n
    BY <1>2, <1>5, <1>10, RankOfPlace
  <2>3. used[m] = parts[i] /\ used[n] = parts[j]
    BY <1>6
  <2> HIDE DEF m, n
  <2> QED
    BY <1>4, <1>6, <2>1, <2>2, <2>3
<1>11. ASSUME NEW i \in Said, \A j \in Said : i <= j
       PROVE  a.content = parts[i].what /\ parts[i].what \in STRING
  <2>1. Said \cap 1..i = {i} /\ i \in Nat
    BY <1>5, <1>11
  <2>2. Cardinality(Said \cap 1..i) = 1
    BY <2>1, FS_Singleton
  <2>3. said[1] = parts[i] /\ 1 \in DOMAIN said
    BY <1>2, <1>5, <1>7, <2>2, RankOfPlace
  <2>4. said # <<>> /\ Head(said) = parts[i]
    BY <2>3
  <2>5. parts[i].what \in STRING
    BY <1>0, <1>3 DEF Part
  <2> QED
    BY <1>4, <2>4, <2>5
<1>13. a.content = NoText <=> Said = {}
  <2>1. CASE Said = {}
    <3>1. Cardinality(Said) = 0
      BY <2>1, FS_EmptySet
    <3>2. said = <<>>
      BY <1>7, <3>1
    <3> QED
      BY <1>4, <2>1, <3>2
  <2>2. CASE Said # {}
    <3>1. PICK i \in Said : \A j \in Said : i <= j
      <4>1. Said \subseteq Nat
        BY <1>5
      <4> QED
        BY <2>2, <4>1, LeastNatural
    <3> QED
      BY <1>1, <1>11, <2>2, <3>1
  <2> QED
    BY <2>1, <2>2
<1>12. a.finish = "tool_calls" <=> reply.stop \in {"tool_use", "tool_calls"}
  BY <1>1, <1>4 DEF AnthropicFinish, HttpAdapter
<1> QED
  BY <1>9, <1>10, <1>11, <1>12, <1>13 DEF ReadOf, a, parts, Used, Said

\* Whatever is sent and answered, and whichever adapter carries it, for every
\* conversation and every reply: an empty system prompt is lost on the way out,
\* the texts after the first on the way back, and no other message, no tool call
\* and no stop to call tools (_normalize_request and _normalize_response).
THEOREM TranslationsLoseNoMore == AdapterSpec => []TranslationLosses
<1>1. AdapterIInv => AnswerRead
  <2> SUFFICES ASSUME AdapterIInv PROVE AnswerRead
    OBVIOUS
  <2>1. ASSUME NEW r \in Requests, request[r].answer # NoText
        PROVE  /\ request[r].runner \in HttpAdapter
               /\ request[r].reply \in RepliesOf(request[r].runner)
               /\ request[r].answer = ModelAnswer(request[r].runner, request[r].reply)
    BY <2>1 DEF AdapterIInv, GoodRequest
  <2>2. \A r \in Requests :
          request[r].answer # NoText => ReadOf(request[r].answer, request[r].reply)
    BY <2>1, AnswerReadsReply
  <2> QED
    BY <2>2 DEF AnswerRead, ReadOf, PlacesOf
<1> QED
  BY <1>1, AdapterInvariance, ConversationsSent, PTL DEF TranslationLosses
=============================================================================
