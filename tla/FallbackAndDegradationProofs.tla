--------------------- MODULE FallbackAndDegradationProofs ---------------------
(***************************************************************************)
(* What holds of FallbackService for every set of calls and providers and  *)
(* every configuration: the metrics add up and break down correctly, and   *)
(* an execution costs two attempts of the handler in force.  And that    *)
(* the degradation service of this repository, whose settings object has   *)
(* no degradation_auto_recovery, never leaves full operation.              *)
(***************************************************************************)
EXTENDS FallbackService, Degradation, FiniteSetTheorems, SequenceTheorems, TLAPS

-----------------------------------------------------------------------------
(* FallbackService.                                                        *)

\* The part of the invariant that no run needs: a call that was charged for
\* has left the idle stage, so no call is charged for twice.
ChargedCallsStarted == \A c \in charged : call[c].stage # "idle"

Inv ==
    /\ TypeOK
    /\ ChargedCallsStarted
    /\ AttemptsAccounted
    /\ BreakdownsAgree
    /\ TwoAttemptsEach

ChargedTo(p) == {c \in charged : call[c].primary = p}
-----------------------------------------------------------------------------
\* The place of the next provider in the list exists.
LEMMA RemainderInRange ==
    ASSUME NEW n \in Nat, NEW len \in Nat, len > 0
    PROVE  (n % len) + 1 \in 1 .. len
<1>1. n % len \in 0 .. (len - 1)
  OBVIOUS
<1> QED
  BY <1>1

\* get_fallback_provider answers a provider exactly when it takes an attempt,
\* and never goes past the limit.
LEMMA GetTakesAnAttempt ==
    ASSUME NEW cfg \in Configs, NEW n \in Nat
    PROVE  /\ Handler(cfg)!CountAfterGet(n) \in Nat
           /\ n <= cfg.attempts => Handler(cfg)!CountAfterGet(n) <= cfg.attempts
           /\ Handler(cfg)!CountAfterGet(n) >= n
           /\ Handler(cfg)!GetFallbackProvider(n) \in Providers \cup {None}
           /\ Handler(cfg)!GetFallbackProvider(n) # None
                 => Handler(cfg)!CountAfterGet(n) = n + 1
<1>1. /\ cfg.providers \in Seq(Providers)
      /\ cfg.attempts \in Nat
      /\ None \notin Providers
  BY FallbackServiceAssumption
<1>2. CASE Handler(cfg)!HasAttemptLeft(n)
  <2>1. /\ cfg.providers # <<>>
        /\ n < cfg.attempts
    BY <1>2 DEF Handler!HasAttemptLeft
  <2>2. Len(cfg.providers) \in Nat /\ Len(cfg.providers) > 0
    BY <1>1, <2>1
  <2>3. (n % Len(cfg.providers)) + 1 \in 1 .. Len(cfg.providers)
    BY <2>2, RemainderInRange
  <2>4. cfg.providers[(n % Len(cfg.providers)) + 1] \in Providers
    BY <1>1, <2>3, ElementOfSeq
  <2>5. Handler(cfg)!CountAfterGet(n) = n + 1
    BY <1>2 DEF Handler!CountAfterGet
  <2>6. Handler(cfg)!GetFallbackProvider(n) \in Providers
    BY <1>2, <2>4 DEF Handler!GetFallbackProvider
  <2> QED
    BY <1>1, <2>1, <2>5, <2>6
<1>3. CASE ~ Handler(cfg)!HasAttemptLeft(n)
  <2>1. Handler(cfg)!CountAfterGet(n) = n
    BY <1>3 DEF Handler!CountAfterGet
  <2>2. Handler(cfg)!GetFallbackProvider(n) = None
    BY <1>3 DEF Handler!GetFallbackProvider
  <2> QED
    BY <1>1, <2>1, <2>2
<1> QED
  BY <1>2, <1>3

\* should_fallback takes an attempt when it says yes, and stays in the limit.
LEMMA DecisionTakesAnAttempt ==
    ASSUME TypeOK, NEW p \in Providers, NEW error, NEW circuit, NEW irreversible \in BOOLEAN
    PROVE  LET n == CountAfterDeciding(p, error, irreversible)
           IN  /\ n \in Nat
               /\ n >= count[p]
               /\ count[p] <= config.attempts => n <= config.attempts
               /\ Decided(p, error, irreversible) # None
                     => /\ n = count[p] + 1
                        /\ Handler(config)!DecisionReason(error, circuit) \in Reason
<1>1. /\ count[p] \in Nat
      /\ config \in Configs
  BY DEF TypeOK
<1>2. config.attempts \in Nat
  BY <1>1, FallbackServiceAssumption
<1>3. CASE irreversible \/ error \notin Handler(config)!Fallbackable
  <2>1. CountAfterDeciding(p, error, irreversible) = count[p]
    BY <1>3 DEF CountAfterDeciding, Handler!CountAfterDecision
  <2>2. Decided(p, error, irreversible) = None
    BY <1>3 DEF Decided, Handler!DecidedTarget
  <2> QED
    BY <1>1, <1>2, <2>1, <2>2
<1>4. CASE ~ irreversible /\ error \in Handler(config)!Fallbackable
  <2>1. CountAfterDeciding(p, error, irreversible) = Handler(config)!CountAfterGet(count[p])
    BY <1>4 DEF CountAfterDeciding, Handler!CountAfterDecision
  <2>2. Decided(p, error, irreversible) # None
           => Handler(config)!GetFallbackProvider(count[p]) # None
    BY <1>4 DEF Decided, Handler!DecidedTarget
  <2>3. Handler(config)!DecisionReason(error, circuit) \in Reason
    BY <1>4 DEF Handler!DecisionReason, Handler!Fallbackable, Reason
  <2> QED
    BY <1>1, <1>2, <2>1, <2>2, <2>3, GetTakesAnAttempt
<1> QED
  BY <1>3, <1>4
-----------------------------------------------------------------------------
(* The sets the counters are compared with.                                 *)

\* Every set of calls is finite.
LEMMA CallSetsFinite ==
    ASSUME NEW S, S \subseteq Calls
    PROVE  IsFiniteSet(S) /\ Cardinality(S) \in Nat
  BY FallbackServiceAssumption, FS_Subset, FS_CardinalityType

\* One more call, one less call.
LEMMA OneMore ==
    ASSUME NEW S, S \subseteq Calls, NEW c \in Calls, c \notin S
    PROVE  Cardinality(S \cup {c}) = Cardinality(S) + 1
  BY CallSetsFinite, FS_AddElement

\* The calls that move are those of one call c, whose record becomes rec.
OnlyMoves(c, rec) == \A d \in Calls : call'[d] = IF d = c THEN rec ELSE call[d]

Served(r) == {c \in InStage({"served"}) : call[c].reason = r}
ServedFor(p) == {c \in InStage({"served"}) : call[c].primary = p}

\* What one call's move does to the sets of calls.
LEMMA SetsAfterMove ==
    ASSUME NEW c \in Calls, NEW rec, OnlyMoves(c, rec)
    PROVE  /\ \A stages : InStage(stages)' =
                 IF rec.stage \in stages THEN InStage(stages) \cup {c} ELSE InStage(stages) \ {c}
           /\ rec.stage # "served" /\ call[c].stage # "served"
                 => /\ \A r : Served(r)' = Served(r)
                    /\ \A p : ServedFor(p)' = ServedFor(p)
           /\ rec.stage = "served"
                 => /\ \A r : Served(r)' = IF rec.reason = r THEN Served(r) \cup {c}
                                            ELSE Served(r) \ {c}
                    /\ \A p : ServedFor(p)' = IF rec.primary = p THEN ServedFor(p) \cup {c}
                                               ELSE ServedFor(p) \ {c}
  BY DEF OnlyMoves, InStage, Served, ServedFor

\* The counters are numbers within the limit.
LEMMA CountsBounded ==
    ASSUME Inv
    PROVE  \A p \in Providers : count[p] \in Nat /\ count[p] <= config.attempts
<1>1. \A p \in Providers : count[p] \in Nat
  BY DEF Inv, TypeOK
<1>2. \A p \in Providers : count[p] <= config.attempts
  BY DEF Inv, TwoAttemptsEach
<1> QED
  BY <1>1, <1>2

\* The accounts after a step that leaves served calls served: they still
\* balance when the attempts and failures grow with the calls under way.
LEMMA AccountsAfterUnservedMove ==
    ASSUME Inv, NEW c \in Calls, NEW rec, OnlyMoves(c, rec),
           call[c].stage # "served", rec.stage # "served",
           metrics' \in [attempts : Nat, successes : Nat, failures : Nat,
                         by_reason : [Reason -> Nat], by_provider : [Providers -> Nat]],
           metrics'.successes = metrics.successes,
           metrics'.by_reason = metrics.by_reason,
           metrics'.by_provider = metrics.by_provider
    PROVE  BreakdownsAgree'
<1>1. InStage({"served"})' = InStage({"served"})
  BY DEF OnlyMoves, InStage
<1>2. /\ \A r \in Reason : Served(r)' = Served(r)
      /\ \A p \in Providers : ServedFor(p)' = ServedFor(p)
  BY SetsAfterMove
<1> QED
  BY <1>1, <1>2 DEF Inv, BreakdownsAgree, Served, ServedFor

\* The counters after a move of a call that is charged to no one new.
LEMMA ChargesAfterMove ==
    ASSUME Inv, NEW c \in Calls, NEW rec \in CallRecord, OnlyMoves(c, rec),
           UNCHANGED <<config, charged>>,
           count' \in [Providers -> Nat],
           \A p \in Providers : count'[p] >= count[p],
           \A p \in Providers : count'[p] <= config.attempts,
           c \in charged => rec.primary = call[c].primary,
           rec.stage # "idle"
    PROVE  TwoAttemptsEach' /\ ChargedCallsStarted'
<1>1. \A p \in Providers : {d \in charged' : call'[d].primary = p}
                            = {d \in charged : call[d].primary = p}
  BY DEF OnlyMoves, Inv, TypeOK
<1>2. TwoAttemptsEach'
  <2> SUFFICES ASSUME NEW p \in Providers
               PROVE  /\ 2 * Cardinality({d \in charged' : call'[d].primary = p}) <= count'[p]
                      /\ count'[p] <= config'.attempts
    BY DEF TwoAttemptsEach
  <2>1. 2 * Cardinality({d \in charged : call[d].primary = p}) <= count[p]
    BY DEF Inv, TwoAttemptsEach
  <2>2. Cardinality({d \in charged : call[d].primary = p}) \in Nat
    BY CallSetsFinite DEF Inv, TypeOK
  <2>3. count[p] \in Nat /\ count'[p] \in Nat /\ count'[p] >= count[p]
    BY DEF Inv, TypeOK
  <2>4. Cardinality({d \in charged' : call'[d].primary = p})
           = Cardinality({d \in charged : call[d].primary = p})
    BY <1>1
  <2>5. count'[p] <= config'.attempts
    OBVIOUS
  <2> QED
    BY <2>1, <2>2, <2>3, <2>4, <2>5
<1>3. ChargedCallsStarted'
  BY DEF OnlyMoves, Inv, TypeOK, ChargedCallsStarted
<1> QED
  BY <1>2, <1>3
-----------------------------------------------------------------------------
(* One lemma per kind of step.                                              *)

\* A refused execution.
LEMMA RefuseKeepsInv ==
    ASSUME Inv, NEW c \in Calls, NEW p \in Providers, NEW error \in ErrorType,
           NEW irreversible \in BOOLEAN, call[c].stage = "idle",
           Refuse(c, p, error, irreversible), UNCHANGED <<registered, config>>
    PROVE  Inv'
<1> DEFINE n == CountAfterDeciding(p, error, irreversible)
           rec == [stage |-> "refused", primary |-> p, target |-> None, reason |-> None]
<1>1. TypeOK
  BY DEF Inv
<1>2. /\ n \in Nat
      /\ n >= count[p]
      /\ n <= config.attempts
  BY <1>1, DecisionTakesAnAttempt, CountsBounded
<1>3. count' = [count EXCEPT ![p] = n] /\ UNCHANGED <<metrics, charged>>
  BY DEF Refuse
<1>4. rec \in CallRecord
  BY DEF CallRecord, Stage
<1>5. call' = [call EXCEPT ![c] = rec]
  BY DEF Refuse, Move
<1> HIDE DEF n, rec
<1>6. OnlyMoves(c, rec) /\ call' \in [Calls -> CallRecord]
  BY <1>1, <1>4, <1>5 DEF TypeOK, OnlyMoves
<1>7. rec.stage = "refused"
  BY DEF rec
<1>8. TypeOK'
  BY <1>1, <1>2, <1>3, <1>6 DEF TypeOK
<1>9. BreakdownsAgree'
  BY <1>1, <1>3, <1>6, <1>7, AccountsAfterUnservedMove DEF TypeOK
<1>10. AttemptsAccounted'
  <2>1. InStage({"running", "cancelled"})' = InStage({"running", "cancelled"})
    BY <1>6, <1>7 DEF OnlyMoves, InStage
  <2> QED
    BY <1>3, <2>1 DEF Inv, AttemptsAccounted
<1>11. c \notin charged
  BY DEF Inv, ChargedCallsStarted
<1>12. \A q \in Providers : count'[q] >= count[q] /\ count'[q] <= config.attempts
  BY <1>1, <1>2, <1>3, CountsBounded DEF TypeOK
<1>13. TwoAttemptsEach' /\ ChargedCallsStarted'
  BY <1>3, <1>4, <1>6, <1>7, <1>8, <1>11, <1>12, ChargesAfterMove DEF TypeOK
<1> QED
  BY <1>8, <1>9, <1>10, <1>13 DEF Inv

\* The metrics after an attempt that is sent (no failure yet) or not sent.
LEMMA AttemptCounted ==
    ASSUME TypeOK, NEW sent \in BOOLEAN,
           metrics' = IF sent THEN [metrics EXCEPT !.attempts = @ + 1] ELSE CountUnplaced(metrics)
    PROVE  /\ metrics' \in [attempts : Nat, successes : Nat, failures : Nat,
                            by_reason : [Reason -> Nat], by_provider : [Providers -> Nat]]
           /\ metrics'.attempts = metrics.attempts + 1
           /\ metrics'.failures = IF sent THEN metrics.failures ELSE metrics.failures + 1
           /\ metrics'.successes = metrics.successes
           /\ metrics'.by_reason = metrics.by_reason
           /\ metrics'.by_provider = metrics.by_provider
<1>1. /\ metrics \in [attempts : Nat, successes : Nat, failures : Nat,
                      by_reason : [Reason -> Nat], by_provider : [Providers -> Nat]]
      /\ metrics.attempts \in Nat
      /\ metrics.failures \in Nat
  BY DEF TypeOK
<1>2. CASE sent
  BY <1>1, <1>2
<1>3. CASE ~ sent
  <2>1. metrics' = [[metrics EXCEPT !.attempts = @ + 1] EXCEPT !.failures = @ + 1]
    BY <1>3 DEF CountUnplaced, RecordFailure
  <2> DEFINE m == [metrics EXCEPT !.attempts = @ + 1]
  <2>2. /\ m \in [attempts : Nat, successes : Nat, failures : Nat,
                   by_reason : [Reason -> Nat], by_provider : [Providers -> Nat]]
        /\ m.attempts = metrics.attempts + 1
        /\ m.failures = metrics.failures
        /\ m.successes = metrics.successes
        /\ m.by_reason = metrics.by_reason
        /\ m.by_provider = metrics.by_provider
    BY <1>1
  <2>3. metrics' = [m EXCEPT !.failures = @ + 1]
    BY <2>1
  <2> HIDE DEF m
  <2> QED
    BY <1>1, <1>3, <2>2, <2>3
<1> QED
  BY <1>2, <1>3

\* An execution the decision lets through, sent or not.
LEMMA PlaceKeepsInv ==
    ASSUME Inv, NEW c \in Calls, NEW p \in Providers, NEW error \in ErrorType,
           NEW circuit \in CircuitState, NEW irreversible \in BOOLEAN,
           call[c].stage = "idle",
           Place(c, p, error, circuit, irreversible), UNCHANGED <<registered, config>>
    PROVE  Inv'
<1> DEFINE n == CountAfterDeciding(p, error, irreversible)
           target == Handler(config)!GetFallbackProvider(n)
           after == Handler(config)!CountAfterGet(n)
           reason == Handler(config)!DecisionReason(error, circuit)
           sent == Placeable(p, target)
           rec == [stage |-> IF sent THEN "running" ELSE "unplaced",
                   primary |-> p, target |-> target, reason |-> reason]
<1>1. TypeOK /\ config \in Configs
  BY DEF Inv, TypeOK
<1>2. /\ n \in Nat
      /\ n = count[p] + 1
      /\ n <= config.attempts
      /\ reason \in Reason
  BY <1>1, DecisionTakesAnAttempt, CountsBounded DEF Place
<1> HIDE DEF n
<1>3. /\ after \in Nat
      /\ after >= n
      /\ after <= config.attempts
      /\ target \in Providers \cup {None}
      /\ target # None => after = n + 1
  BY <1>1, <1>2, GetTakesAnAttempt
<1>4. /\ count' = [count EXCEPT ![p] = after]
      /\ charged' = IF target = None THEN charged ELSE charged \cup {c}
      /\ metrics' = IF sent THEN [metrics EXCEPT !.attempts = @ + 1] ELSE CountUnplaced(metrics)
      /\ call' = [call EXCEPT ![c] = rec]
  BY DEF Place, Move, n
<1> HIDE DEF target, after, reason
<1>5. rec \in CallRecord
  BY <1>2, <1>3 DEF CallRecord, Stage
<1>6. /\ rec.stage = IF sent THEN "running" ELSE "unplaced"
      /\ rec.primary = p
  OBVIOUS
<1>7. sent \in BOOLEAN
  BY DEF Placeable, Handler!Compatible
<1> HIDE DEF sent, rec
<1>8. OnlyMoves(c, rec) /\ call' \in [Calls -> CallRecord]
  BY <1>1, <1>4, <1>5 DEF TypeOK, OnlyMoves
<1>9. /\ metrics' \in [attempts : Nat, successes : Nat, failures : Nat,
                       by_reason : [Reason -> Nat], by_provider : [Providers -> Nat]]
      /\ metrics'.attempts = metrics.attempts + 1
      /\ metrics'.failures = IF sent THEN metrics.failures ELSE metrics.failures + 1
      /\ metrics'.successes = metrics.successes
      /\ metrics'.by_reason = metrics.by_reason
      /\ metrics'.by_provider = metrics.by_provider
  BY <1>1, <1>4, <1>7, AttemptCounted
<1>10. TypeOK'
  BY <1>1, <1>3, <1>4, <1>8, <1>9 DEF TypeOK
<1>11. BreakdownsAgree'
  BY <1>6, <1>8, <1>9, AccountsAfterUnservedMove
<1>12. AttemptsAccounted'
  <2> DEFINE open == InStage({"running", "cancelled"})
  <2>1. /\ open \subseteq Calls
        /\ c \notin open
    BY DEF InStage
  <2>2. open' = IF sent THEN open \cup {c} ELSE open
    BY <1>6, <1>8 DEF OnlyMoves, InStage
  <2>3. metrics.attempts = metrics.successes + metrics.failures + Cardinality(open)
    BY DEF Inv, AttemptsAccounted
  <2>4. Cardinality(open') = IF sent THEN Cardinality(open) + 1 ELSE Cardinality(open)
    BY <2>1, <2>2, OneMore
  <2>5. Cardinality(open) \in Nat
    BY <2>1, CallSetsFinite
  <2>6. metrics'.attempts = metrics'.successes + metrics'.failures + Cardinality(open')
    <3> HIDE DEF open
    <3>1. /\ metrics.attempts \in Nat
          /\ metrics.successes \in Nat
          /\ metrics.failures \in Nat
      BY <1>1 DEF TypeOK
    <3> QED
      BY <1>7, <1>9, <2>3, <2>4, <2>5, <3>1
  <2> QED
    BY <2>6 DEF AttemptsAccounted
<1>13. ChargedCallsStarted'
  BY <1>4, <1>6, <1>8, <1>1 DEF OnlyMoves, Inv, TypeOK, ChargedCallsStarted
<1>14. TwoAttemptsEach'
  <2> SUFFICES ASSUME NEW q \in Providers
               PROVE  /\ 2 * Cardinality({d \in charged' : call'[d].primary = q}) <= count'[q]
                      /\ count'[q] <= config'.attempts
    BY DEF TwoAttemptsEach
  <2> DEFINE old == {d \in charged : call[d].primary = q}
             new == {d \in charged' : call'[d].primary = q}
  <2>1. /\ old \subseteq Calls
        /\ c \notin charged
        /\ charged \subseteq Calls
    BY <1>1 DEF Inv, TypeOK, ChargedCallsStarted
  <2>2. new = IF target # None /\ q = p THEN old \cup {c} ELSE old
    BY <1>4, <1>6, <1>8, <2>1 DEF OnlyMoves
  <2>3. Cardinality(new) = IF target # None /\ q = p THEN Cardinality(old) + 1 ELSE Cardinality(old)
    BY <2>1, <2>2, OneMore
  <2>4. /\ 2 * Cardinality(old) <= count[q]
        /\ Cardinality(old) \in Nat
    BY <2>1, CallSetsFinite DEF Inv, TwoAttemptsEach
  <2>5. count'[q] = IF q = p THEN after ELSE count[q]
    BY <1>1, <1>4 DEF TypeOK
  <2>6. count[q] \in Nat /\ count[q] <= config.attempts /\ count[p] \in Nat
    BY CountsBounded
  <2> HIDE DEF old, new
  <2>7. 2 * Cardinality(new) <= count'[q]
    BY <1>2, <1>3, <2>3, <2>4, <2>5, <2>6
  <2>8. count'[q] <= config'.attempts
    BY <1>3, <2>5, <2>6
  <2> QED
    BY <2>7, <2>8 DEF new
<1> QED
  BY <1>10, <1>11, <1>12, <1>13, <1>14 DEF Inv

\* Counting one more under a name keeps a table of counters one.
LEMMA TableCounts ==
    ASSUME NEW D, NEW f \in [D -> Nat], NEW x
    PROVE  [f EXCEPT ![x] = @ + 1] \in [D -> Nat]
<1>1. CASE x \in D
  <2>1. f[x] + 1 \in Nat
    BY <1>1
  <2> QED
    BY <2>1
<1>2. CASE x \notin D
  <2>1. [f EXCEPT ![x] = @ + 1] = f
    BY <1>2
  <2> QED
    BY <2>1
<1> QED
  BY <1>1, <1>2

\* The provider answers, raises, or the caller is cancelled.
LEMMA SettleKeepsInv ==
    ASSUME Inv, NEW c \in Calls, Succeed(c) \/ Fail(c) \/ Cancel(c)
    PROVE  Inv'
<1> DEFINE open == InStage({"running", "cancelled"})
           served == InStage({"served"})
           r == call[c].reason
           p == call[c].primary
<1>1. /\ TypeOK
      /\ call[c] \in CallRecord
      /\ call[c].stage = "running"
      /\ UNCHANGED <<registered, config, count, charged>>
  BY DEF Inv, TypeOK, Succeed, Fail, Cancel
<1>2. PICK stage \in {"served", "failed", "cancelled"} :
         /\ call' = [call EXCEPT ![c].stage = stage]
         /\ stage = "served" => Succeed(c)
         /\ stage = "failed" => Fail(c)
         /\ stage = "cancelled" => Cancel(c)
  BY DEF Succeed, Fail, Cancel
<1> DEFINE rec == [call[c] EXCEPT !.stage = stage]
<1>3. /\ rec \in CallRecord
      /\ rec.stage = stage
      /\ rec.primary = p
      /\ rec.reason = r
  BY <1>1 DEF CallRecord, Stage
<1> HIDE DEF rec
<1>4. OnlyMoves(c, rec) /\ call' \in [Calls -> CallRecord]
  BY <1>1, <1>2, <1>3 DEF OnlyMoves, TypeOK, rec
<1>5. /\ open \subseteq Calls
      /\ served \subseteq Calls
      /\ c \in open
      /\ c \notin served
      /\ IsFiniteSet(open)
      /\ Cardinality(open) \in Nat
  BY <1>1, CallSetsFinite DEF InStage
<1>6. TwoAttemptsEach' /\ ChargedCallsStarted'
  <2>1. \A q \in Providers : count'[q] >= count[q] /\ count'[q] <= config.attempts
    BY <1>1, CountsBounded
  <2> QED
    BY <1>1, <1>2, <1>3, <1>4, <2>1, ChargesAfterMove DEF TypeOK
<1>7. metrics.attempts = metrics.successes + metrics.failures + Cardinality(open)
  BY DEF Inv, AttemptsAccounted
<1>8. CASE stage = "cancelled"
  <2>1. metrics' = metrics
    BY <1>2, <1>8 DEF Cancel
  <2>2. open' = open
    BY <1>1, <1>3, <1>4, <1>8 DEF OnlyMoves, InStage
  <2>3. TypeOK'
    BY <1>1, <1>4, <2>1 DEF TypeOK
  <2>4. BreakdownsAgree'
    BY <1>1, <1>3, <1>4, <1>8, <2>1, AccountsAfterUnservedMove DEF TypeOK
  <2> QED
    BY <1>6, <1>7, <2>1, <2>2, <2>3, <2>4 DEF Inv, AttemptsAccounted
<1>9. CASE stage = "failed"
  <2>1. metrics' = [metrics EXCEPT !.failures = @ + 1]
    BY <1>2, <1>9 DEF Fail, RecordFailure
  <2>2. /\ metrics' \in [attempts : Nat, successes : Nat, failures : Nat,
                         by_reason : [Reason -> Nat], by_provider : [Providers -> Nat]]
        /\ metrics'.attempts = metrics.attempts
        /\ metrics'.failures = metrics.failures + 1
        /\ metrics'.successes = metrics.successes
        /\ metrics'.by_reason = metrics.by_reason
        /\ metrics'.by_provider = metrics.by_provider
        /\ metrics.attempts \in Nat /\ metrics.failures \in Nat /\ metrics.successes \in Nat
    BY <1>1, <2>1 DEF TypeOK
  <2>3. open' = open \ {c}
    BY <1>1, <1>3, <1>4, <1>9 DEF OnlyMoves, InStage
  <2>4. Cardinality(open') = Cardinality(open) - 1
    BY <1>5, <2>3, FS_RemoveElement
  <2>5. AttemptsAccounted'
    <3>1. metrics'.attempts = metrics'.successes + metrics'.failures + Cardinality(open')
      <4> HIDE DEF open
      <4> QED
        BY <1>5, <1>7, <2>2, <2>4
    <3> QED
      BY <3>1 DEF AttemptsAccounted
  <2>6. TypeOK'
    BY <1>1, <1>4, <2>2 DEF TypeOK
  <2>7. BreakdownsAgree'
    BY <1>1, <1>3, <1>4, <1>9, <2>2, AccountsAfterUnservedMove
  <2> QED
    BY <1>6, <2>5, <2>6, <2>7 DEF Inv
<1>10. CASE stage = "served"
  <2>1. metrics' = [metrics EXCEPT !.successes = @ + 1, !.by_reason[r] = @ + 1,
                                   !.by_provider[p] = @ + 1]
    BY <1>2, <1>10 DEF Succeed, RecordSuccess
  <2>2. /\ metrics \in [attempts : Nat, successes : Nat, failures : Nat,
                        by_reason : [Reason -> Nat], by_provider : [Providers -> Nat]]
        /\ metrics.attempts \in Nat /\ metrics.failures \in Nat /\ metrics.successes \in Nat
        /\ metrics.by_reason \in [Reason -> Nat]
        /\ metrics.by_provider \in [Providers -> Nat]
    BY <1>1 DEF TypeOK
  <2>3. /\ metrics'.attempts = metrics.attempts
        /\ metrics'.failures = metrics.failures
        /\ metrics'.successes = metrics.successes + 1
        /\ metrics'.by_reason = [metrics.by_reason EXCEPT ![r] = @ + 1]
        /\ metrics'.by_provider = [metrics.by_provider EXCEPT ![p] = @ + 1]
    BY <2>1, <2>2
  <2>4. /\ metrics'.by_reason \in [Reason -> Nat]
        /\ metrics'.by_provider \in [Providers -> Nat]
    BY <2>2, <2>3, TableCounts
  <2>5. metrics' \in [attempts : Nat, successes : Nat, failures : Nat,
                      by_reason : [Reason -> Nat], by_provider : [Providers -> Nat]]
    <3>1. metrics' = [attempts |-> metrics'.attempts, successes |-> metrics'.successes,
                      failures |-> metrics'.failures, by_reason |-> metrics'.by_reason,
                      by_provider |-> metrics'.by_provider]
      BY <2>1, <2>2
    <3>2. /\ metrics'.attempts \in Nat
          /\ metrics'.successes \in Nat
          /\ metrics'.failures \in Nat
      BY <2>2, <2>3
    <3> QED
      BY <2>4, <3>1, <3>2
  <2>6. TypeOK'
    BY <1>1, <1>4, <2>5 DEF TypeOK
  <2>7. AttemptsAccounted'
    <3>1. open' = open \ {c}
      BY <1>1, <1>3, <1>4, <1>10 DEF OnlyMoves, InStage
    <3>2. Cardinality(open') = Cardinality(open) - 1
      BY <1>5, <3>1, FS_RemoveElement
    <3>3. metrics'.attempts = metrics'.successes + metrics'.failures + Cardinality(open')
      <4> HIDE DEF open
      <4> QED
        BY <1>5, <1>7, <2>2, <2>3, <3>2
    <3> QED
      BY <3>3 DEF AttemptsAccounted
  <2>8. served' = served \cup {c}
    BY <1>1, <1>3, <1>4, <1>10 DEF OnlyMoves, InStage
  <2>9. metrics'.successes = Cardinality(served')
    BY <1>5, <2>3, <2>8, OneMore DEF Inv, BreakdownsAgree
  <2>10. ASSUME NEW s \in Reason
         PROVE  metrics'.by_reason[s] = Cardinality(Served(s)')
    <3>1. Served(s) \subseteq Calls /\ c \notin Served(s)
      BY <1>1 DEF Served, InStage
    <3>2. Served(s)' = IF s = r THEN Served(s) \cup {c} ELSE Served(s)
      BY <1>1, <1>3, <1>4, <1>10 DEF OnlyMoves, InStage, Served
    <3>3. metrics.by_reason[s] = Cardinality(Served(s))
      BY DEF Inv, BreakdownsAgree, Served
    <3>4. metrics'.by_reason[s] = IF s = r THEN metrics.by_reason[s] + 1 ELSE metrics.by_reason[s]
      BY <2>2, <2>3
    <3> QED
      BY <3>1, <3>2, <3>3, <3>4, OneMore
  <2>11. ASSUME NEW q \in Providers
         PROVE  metrics'.by_provider[q] = Cardinality(ServedFor(q)')
    <3>1. ServedFor(q) \subseteq Calls /\ c \notin ServedFor(q)
      BY <1>1 DEF ServedFor, InStage
    <3>2. ServedFor(q)' = IF q = p THEN ServedFor(q) \cup {c} ELSE ServedFor(q)
      BY <1>1, <1>3, <1>4, <1>10 DEF OnlyMoves, InStage, ServedFor
    <3>3. metrics.by_provider[q] = Cardinality(ServedFor(q))
      BY DEF Inv, BreakdownsAgree, ServedFor
    <3>4. metrics'.by_provider[q]
             = IF q = p THEN metrics.by_provider[q] + 1 ELSE metrics.by_provider[q]
      BY <2>2, <2>3
    <3> QED
      BY <3>1, <3>2, <3>3, <3>4, OneMore
  <2>12. BreakdownsAgree'
    BY <2>9, <2>10, <2>11 DEF BreakdownsAgree, Served, ServedFor
  <2> QED
    BY <1>6, <2>6, <2>7, <2>12 DEF Inv
<1> QED
  BY <1>2, <1>8, <1>9, <1>10

\* The counters alone: a question, a selection, a reset, a configuration.
LEMMA CountersKeepInv ==
    ASSUME Inv,
           \/ \E p \in Providers, error \in ErrorType, irreversible \in BOOLEAN :
                 CanFallback(p, error, irreversible)
           \/ \E p \in Providers : NextProvider(p) \/ ResetCount(p)
           \/ ResetAll
           \/ \E new \in Configs : UpdateConfig(new)
    PROVE  Inv'
<1>1. TypeOK /\ config \in Configs /\ charged \subseteq Calls
  BY DEF Inv, TypeOK
<1>2. /\ UNCHANGED <<registered, metrics, call>>
      /\ charged' \subseteq charged
  BY DEF CanFallback, NextProvider, ResetCount, ResetAll, UpdateConfig
<1>3. AttemptsAccounted' /\ BreakdownsAgree'
  BY <1>2 DEF Inv, AttemptsAccounted, BreakdownsAgree, InStage
<1>4. ChargedCallsStarted'
  BY <1>2 DEF Inv, ChargedCallsStarted
<1>5. \A q \in Providers : IsFiniteSet(ChargedTo(q)) /\ Cardinality(ChargedTo(q)) \in Nat
  BY <1>1, CallSetsFinite DEF ChargedTo
<1>6. \A q \in Providers : 2 * Cardinality(ChargedTo(q)) <= count[q]
  BY DEF Inv, TwoAttemptsEach, ChargedTo
<1> SUFFICES /\ config' \in Configs
             /\ count' \in [Providers -> Nat]
             /\ \A q \in Providers : /\ 2 * Cardinality(ChargedTo(q)') <= count'[q]
                                     /\ count'[q] <= config'.attempts
  <2>1. TypeOK' <=> config' \in Configs /\ count' \in [Providers -> Nat]
    BY <1>1, <1>2 DEF TypeOK
  <2> QED
    BY <1>3, <1>4, <2>1 DEF Inv, TwoAttemptsEach, ChargedTo
<1>7. ASSUME NEW p \in Providers, NEW n \in Nat, n >= count[p], n <= config.attempts,
             count' = [count EXCEPT ![p] = n], UNCHANGED <<config, charged>>
      PROVE  /\ config' \in Configs
             /\ count' \in [Providers -> Nat]
             /\ \A q \in Providers : /\ 2 * Cardinality(ChargedTo(q)') <= count'[q]
                                     /\ count'[q] <= config'.attempts
  <2>1. config' \in Configs /\ count' \in [Providers -> Nat]
    BY <1>1, <1>7 DEF TypeOK
  <2> SUFFICES ASSUME NEW q \in Providers
               PROVE  /\ 2 * Cardinality(ChargedTo(q)') <= count'[q]
                      /\ count'[q] <= config'.attempts
    BY <2>1
  <2>2. ChargedTo(q)' = ChargedTo(q)
    BY <1>2, <1>7 DEF ChargedTo
  <2>3. count'[q] = IF q = p THEN n ELSE count[q]
    BY <1>1, <1>7 DEF TypeOK
  <2>4. count[q] \in Nat /\ count[q] <= config.attempts
    BY CountsBounded
  <2>5. 2 * Cardinality(ChargedTo(q)') <= count'[q]
    BY <1>5, <1>6, <1>7, <2>2, <2>3, <2>4
  <2>6. count'[q] <= config'.attempts
    BY <1>7, <2>3, <2>4
  <2> QED
    BY <2>5, <2>6
<1>8. CASE \E p \in Providers, error \in ErrorType, irreversible \in BOOLEAN :
             CanFallback(p, error, irreversible)
  <2>1. PICK p \in Providers, error \in ErrorType, irreversible \in BOOLEAN :
             CanFallback(p, error, irreversible)
    BY <1>8
  <2>2. /\ count' = [count EXCEPT ![p] = CountAfterDeciding(p, error, irreversible)]
        /\ UNCHANGED <<config, charged>>
    BY <2>1 DEF CanFallback
  <2>3. /\ CountAfterDeciding(p, error, irreversible) \in Nat
        /\ CountAfterDeciding(p, error, irreversible) >= count[p]
        /\ CountAfterDeciding(p, error, irreversible) <= config.attempts
    BY <1>1, DecisionTakesAnAttempt, CountsBounded
  <2> QED
    BY <1>7, <2>2, <2>3
<1>9. CASE \E p \in Providers : NextProvider(p)
  <2>1. PICK p \in Providers : NextProvider(p)
    BY <1>9
  <2>2. /\ count' = [count EXCEPT ![p] = Handler(config)!CountAfterGet(count[p])]
        /\ UNCHANGED <<config, charged>>
    BY <2>1 DEF NextProvider
  <2>3. /\ Handler(config)!CountAfterGet(count[p]) \in Nat
        /\ Handler(config)!CountAfterGet(count[p]) >= count[p]
        /\ Handler(config)!CountAfterGet(count[p]) <= config.attempts
    BY <1>1, GetTakesAnAttempt, CountsBounded
  <2> QED
    BY <1>7, <2>2, <2>3
<1>10. CASE \E p \in Providers : ResetCount(p)
  <2>1. PICK p \in Providers : ResetCount(p)
    BY <1>10
  <2>2. /\ count' = [count EXCEPT ![p] = 0]
        /\ charged' = {c \in charged : call[c].primary # p}
        /\ config' = config
    BY <2>1 DEF ResetCount
  <2>3. config' \in Configs /\ count' \in [Providers -> Nat]
    BY <1>1, <2>2 DEF TypeOK
  <2>4. config.attempts \in Nat
    BY <1>1, FallbackServiceAssumption
  <2>5. ASSUME NEW q \in Providers
        PROVE  /\ 2 * Cardinality(ChargedTo(q)') <= count'[q]
               /\ count'[q] <= config'.attempts
    <3>1. CASE q = p
      <4>1. ChargedTo(q)' = {} /\ count'[q] = 0
        BY <1>1, <1>2, <2>2, <3>1 DEF ChargedTo, TypeOK
      <4> QED
        BY <2>2, <2>4, <4>1, FS_EmptySet
    <3>2. CASE q # p
      <4>1. ChargedTo(q)' = ChargedTo(q) /\ count'[q] = count[q]
        BY <1>1, <1>2, <2>2, <3>2 DEF ChargedTo, TypeOK
      <4> QED
        BY <1>6, <2>2, <4>1, CountsBounded
    <3> QED
      BY <3>1, <3>2
  <2> QED
    BY <2>3, <2>5
<1>11. CASE ResetAll \/ \E new \in Configs : UpdateConfig(new)
  <2>1. /\ count' = [p \in Providers |-> 0]
        /\ charged' = {}
        /\ config' \in Configs
    BY <1>1, <1>11 DEF ResetAll, UpdateConfig
  <2>2. config'.attempts \in Nat
    BY <2>1, FallbackServiceAssumption
  <2>3. \A q \in Providers : ChargedTo(q)' = {} /\ count'[q] = 0
    BY <2>1 DEF ChargedTo
  <2>4. \A q \in Providers : /\ 2 * Cardinality(ChargedTo(q)') <= count'[q]
                             /\ count'[q] <= config'.attempts
    <3> SUFFICES ASSUME NEW q \in Providers
                 PROVE  /\ 2 * Cardinality(ChargedTo(q)') <= count'[q]
                        /\ count'[q] <= config'.attempts
      OBVIOUS
    <3>1. Cardinality(ChargedTo(q)') = 0
      BY <2>3, FS_EmptySet
    <3> QED
      BY <2>2, <2>3, <3>1
  <2>5. count' \in [Providers -> Nat]
    BY <2>1
  <2> QED
    BY <2>1, <2>4, <2>5
<1> QED
  BY <1>8, <1>9, <1>10, <1>11
-----------------------------------------------------------------------------
\* The invariant holds of every behaviour of the service: its metrics always
\* add up, and executions cost two attempts.
THEOREM InvariantHolds == Spec => []Inv
<1>1. Init => Inv
  <2> SUFFICES ASSUME Init PROVE Inv
    OBVIOUS
  <2>1. TypeOK
    BY DEF Init, TypeOK, NoMetrics, Idle, CallRecord, Stage
  <2>2. /\ InStage({"running", "cancelled"}) = {}
        /\ InStage({"served"}) = {}
    BY DEF Init, InStage, Idle
  <2>3. \A p \in Providers : {c \in charged : call[c].primary = p} = {}
    BY DEF Init
  <2>4. config.attempts \in Nat
    BY FallbackServiceAssumption DEF Init
  <2>5. AttemptsAccounted
    BY <2>2, FS_EmptySet DEF Init, NoMetrics, AttemptsAccounted
  <2>6. BreakdownsAgree
    BY <2>2, FS_EmptySet DEF Init, NoMetrics, BreakdownsAgree
  <2>7. TwoAttemptsEach
    BY <2>3, <2>4, FS_EmptySet DEF Init, TwoAttemptsEach
  <2>8. ChargedCallsStarted
    BY DEF Init, ChargedCallsStarted
  <2> QED
    BY <2>1, <2>5, <2>6, <2>7, <2>8 DEF Inv
<1>2. Inv /\ [Next]_vars => Inv'
  <2> SUFFICES ASSUME Inv, [Next]_vars PROVE Inv'
    OBVIOUS
  <2>1. CASE \E c \in Calls, p \in Providers, error \in ErrorType, circuit \in CircuitState,
                irreversible \in BOOLEAN : Execute(c, p, error, circuit, irreversible)
    BY <2>1, RefuseKeepsInv, PlaceKeepsInv DEF Execute
  <2>2. CASE \E c \in Calls : Succeed(c) \/ Fail(c) \/ Cancel(c)
    BY <2>2, SettleKeepsInv
  <2>3. CASE \/ \E p \in Providers, error \in ErrorType, irreversible \in BOOLEAN :
                   CanFallback(p, error, irreversible)
             \/ \E p \in Providers : NextProvider(p) \/ ResetCount(p)
             \/ ResetAll
             \/ \E new \in Configs : UpdateConfig(new)
    BY <2>3, CountersKeepInv
  <2>4. CASE (\E p \in Providers : Register(p) \/ Unregister(p)) \/ ClearRegistry
    <3>1. /\ registered' \subseteq Providers
          /\ UNCHANGED <<config, count, metrics, call, charged>>
      BY <2>4 DEF Register, Unregister, ClearRegistry, Inv, TypeOK
    <3> QED
      BY <3>1 DEF Inv, TypeOK, ChargedCallsStarted, AttemptsAccounted, BreakdownsAgree,
                  TwoAttemptsEach, InStage
  <2>5. CASE UNCHANGED vars
    BY <2>5 DEF vars, Inv, TypeOK, ChargedCallsStarted, AttemptsAccounted, BreakdownsAgree,
                TwoAttemptsEach, InStage
  <2> QED
    BY <2>1, <2>2, <2>3, <2>4, <2>5 DEF Next
<1> QED
  BY <1>1, <1>2, PTL DEF Spec

\* The state always has its type.
THEOREM TypeCorrect == Spec => []TypeOK
<1>1. Inv => TypeOK
  BY DEF Inv
<1> QED
  BY <1>1, InvariantHolds, PTL

\* Whatever overlaps, every counted attempt is a success, a failure, under
\* way, or was cancelled under way.
THEOREM MetricsAddUp == Spec => []AttemptsAccounted
<1>1. Inv => AttemptsAccounted
  BY DEF Inv
<1> QED
  BY <1>1, InvariantHolds, PTL

\* The successes by reason and by primary are the served calls.
THEOREM SuccessesBrokenDown == Spec => []BreakdownsAgree
<1>1. Inv => BreakdownsAgree
  BY DEF Inv
<1> QED
  BY <1>1, InvariantHolds, PTL

\* Between two resets a handler serves at most half as many executions of a
\* primary as its configuration allows attempts.
THEOREM HalfTheAttemptsServe == Spec => []TwoAttemptsEach
<1>1. Inv => TwoAttemptsEach
  BY DEF Inv
<1> QED
  BY <1>1, InvariantHolds, PTL

-----------------------------------------------------------------------------
\* The metrics add up and agree with the calls they count
\* (execute_with_fallback, update_config).
THEOREM MetricsStayInAgreement == Spec => []MetricsAgree
  BY TypeCorrect, MetricsAddUp, SuccessesBrokenDown, HalfTheAttemptsServe, PTL
     DEF MetricsAgree

-----------------------------------------------------------------------------
(* Degradation.                                                            *)

\* Without the setting, entering a mode raises while the status is built
\* (_enter_degradation_mode, degradation_service.py:154-160).
LEMMA NoModeEntered ==
    ASSUME AutoRecovery = "missing", NEW s, NEW m
    PROVE  EnterMode(s, m) = s
  BY DEF EnterMode

\* A reported failure, below the threshold or at it, only counts.
LEMMA FailureCounts ==
    ASSUME AutoRecovery = "missing", NEW s \in Service, s.mode = "full"
    PROVE  /\ DatabaseFailure(s) \in Service /\ DatabaseFailure(s).mode = "full"
           /\ RedisFailure(s) \in Service /\ RedisFailure(s).mode = "full"
  <1> DEFINE d == [s EXCEPT !.db = @ + 1]
             r == [s EXCEPT !.redis = @ + 1]
  <1>1. DatabaseFailure(s) = d /\ RedisFailure(s) = r
    BY NoModeEntered DEF DatabaseFailure, RedisFailure
  <1>2. d \in Service /\ d.mode = "full" /\ r \in Service /\ r.mode = "full"
    BY DEF Service
  <1> QED
    BY <1>1, <1>2

\* The answer of a probe counts a failure or clears the count.
LEMMA ProbeCounts ==
    ASSUME AutoRecovery = "missing", NEW s \in Service, s.mode = "full", NEW h
    PROVE  /\ AfterDatabaseProbe(s, h) \in Service /\ AfterDatabaseProbe(s, h).mode = "full"
           /\ AfterRedisProbe(s, h) \in Service /\ AfterRedisProbe(s, h).mode = "full"
  <1> DEFINE d == [s EXCEPT !.db = 0]
             r == [s EXCEPT !.redis = 0]
  <1>1. d \in Service /\ d.mode = "full" /\ r \in Service /\ r.mode = "full"
    BY DEF Service
  <1>2. CASE h
    BY <1>1, <1>2 DEF AfterDatabaseProbe, AfterRedisProbe
  <1>3. CASE ~h
    BY <1>3, FailureCounts DEF AfterDatabaseProbe, AfterRedisProbe
  <1> QED
    BY <1>2, <1>3

\* One operation of the service or one pass of the monitor.
LEMMA StaysFull ==
    ASSUME AutoRecovery = "missing", svc \in Service, svc.mode = "full", DegradationNext
    PROVE  svc' \in Service /\ svc'.mode = "full"
  <1>1. CASE HandleDatabaseFailure \/ HandleRedisFailure
    BY <1>1, FailureCounts DEF HandleDatabaseFailure, HandleRedisFailure
  <1>2. CASE \E m \in Mode : ManualDegradation(m)
    BY <1>2, NoModeEntered DEF ManualDegradation
  <1>3. ASSUME NEW s PROVE ExitMode(s) \in Service /\ ExitMode(s).mode = "full"
    BY DEF ExitMode, Service, Mode
  <1>4. CASE ExitDegradationMode
    BY <1>3, <1>4 DEF ExitDegradationMode
  <1>5. CASE ResetFailureCounters
    BY <1>5 DEF ResetFailureCounters, Service
  <1>6. CASE Monitor
    <2> DEFINE a == AfterDatabaseProbe(svc, up.db)
               b == AfterRedisProbe(a, up.redis)
    <2>1. a \in Service /\ a.mode = "full"
      BY ProbeCounts
    <2>2. b \in Service /\ b.mode = "full"
      BY <2>1, ProbeCounts
    <2>3. svc' = a \/ svc' = b \/ svc' = ExitMode(b)
      BY <1>6 DEF Monitor, MonitorPass
    <2> QED
      BY <1>3, <2>1, <2>2, <2>3
  <1>7. CASE StartMonitoring \/ StopMonitoring \/ HealthChanges
    BY <1>7 DEF StartMonitoring, StopMonitoring, HealthChanges
  <1> QED
    BY <1>1, <1>2, <1>4, <1>5, <1>6, <1>7 DEF DegradationNext

\* With the repository's Settings, which have no degradation_auto_recovery, no
\* number of failures of either component, no order of an operator and no pass
\* of the monitor ever takes the service out of full operation, for any
\* thresholds (handle_database_failure, handle_redis_failure,
\* manual_degradation, _enter_degradation_mode): no failure ever leaves the
\* service in the mode ThresholdDegrades asks for.
THEOREM NeverDegrades ==
    ASSUME AutoRecovery = "missing"
    PROVE  DegradationSpec => [](svc.mode = "full")
  <1> DEFINE Full == svc \in Service /\ svc.mode = "full"
  <1>1. DegradationInit => Full
    BY DEF DegradationInit, Service, Mode
  <1>2. Full /\ [DegradationNext]_degradationVars => Full'
    BY StaysFull DEF degradationVars
  <1>3. Full => svc.mode = "full"
    OBVIOUS
  <1> QED
    BY <1>1, <1>2, <1>3, PTL DEF DegradationSpec
=============================================================================
