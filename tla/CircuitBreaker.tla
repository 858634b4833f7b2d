--------------------------- MODULE CircuitBreaker ---------------------------
(***************************************************************************)
(* The circuit breaker of app/infrastructure/providers/circuit_breaker.py  *)
(* as a record and the operators that its methods are.  The service that   *)
(* owns the breakers (ProviderService) applies the operators to its state. *)
(*                                                                         *)
(* A breaker keeps the fields that decide its behaviour.  The consecutive  *)
(* counters, the last-success and last-failure times and _failure_window   *)
(* are written but never read by a decision, so they are left out.         *)
(*                                                                         *)
(* The failure rate threshold is the fraction ThresholdNum / ThresholdDen. *)
(* Time is measured from _open_timestamp: openFor is the number of clock   *)
(* steps since it was set, saturating at OpenTimeout, where                *)
(* _should_attempt_recovery stops telling values apart.                    *)
(***************************************************************************)
EXTENDS Integers

CONSTANTS
    MinimumRequests,    \* CircuitBreakerConfig.minimum_requests
    ThresholdNum,       \* CircuitBreakerConfig.failure_rate_threshold ...
    ThresholdDen,       \* ... is ThresholdNum / ThresholdDen
    OpenTimeout,        \* CircuitBreakerConfig.open_timeout_seconds, in clock steps
    HalfOpenMaxCalls    \* CircuitBreakerConfig.half_open_max_calls

\* What CircuitBreakerConfig.__post_init__ accepts.
ASSUME BreakerConfigAssumption ==
    /\ MinimumRequests \in Nat \ {0}
    /\ ThresholdDen \in Nat \ {0}
    /\ ThresholdNum \in 0..ThresholdDen
    /\ OpenTimeout \in Nat \ {0}
    /\ HalfOpenMaxCalls \in Nat \ {0}

NoTimestamp == -1

CircuitState == {"closed", "open", "half_open"}

Breaker ==
    [state         : CircuitState,
     total         : Nat,
     failed        : Nat,
     openFor       : {NoTimestamp} \cup (0..OpenTimeout),
     halfOpenCalls : Nat]

NewBreaker ==
    [state |-> "closed", total |-> 0, failed |-> 0,
     openFor |-> NoTimestamp, halfOpenCalls |-> 0]

-----------------------------------------------------------------------------
(* Transitions.                                                            *)

TransitionToOpen(b) ==
    [b EXCEPT !.state = "open", !.openFor = 0, !.halfOpenCalls = 0]

TransitionToHalfOpen(b) ==
    [b EXCEPT !.state = "half_open", !.halfOpenCalls = 0]

TransitionToClosed(b) ==
    [b EXCEPT !.state = "closed", !.openFor = NoTimestamp, !.halfOpenCalls = 0]

\* The rate is cumulative: nothing but reset() clears the two counters.
ShouldTrip(b) ==
    /\ b.total >= MinimumRequests
    /\ b.failed * ThresholdDen >= ThresholdNum * b.total

ShouldAttemptRecovery(b) ==
    /\ b.openFor # NoTimestamp
    /\ b.openFor >= OpenTimeout

-----------------------------------------------------------------------------
(* The answer of can_execute and the breaker it leaves behind.             *)

\* Mutated form: an open breaker refuses without asking whether its time is up.
CanExecuteNeverRetries(b) ==
    \/ b.state = "closed"
    \/ b.state = "half_open" /\ b.halfOpenCalls < HalfOpenMaxCalls

CanExecute(b) ==
    \/ b.state = "closed"
    \/ b.state = "open" /\ ShouldAttemptRecovery(b)
    \/ b.state = "half_open" /\ b.halfOpenCalls < HalfOpenMaxCalls

\* Mutated form: a probe is counted when it is admitted, and a cancelled
\* probe is never counted back.
AfterCanExecuteCountsAdmissions(b) ==
    IF b.state = "open" /\ ShouldAttemptRecovery(b)
    THEN TransitionToHalfOpen(b)
    ELSE IF b.state = "half_open" /\ CanExecute(b)
         THEN [b EXCEPT !.halfOpenCalls = @ + 1]
         ELSE b

AfterCanExecute(b) ==
    IF b.state = "open" /\ ShouldAttemptRecovery(b)
    THEN TransitionToHalfOpen(b)
    ELSE b

RecordSuccess(b) ==
    LET counted == [b EXCEPT !.total = @ + 1]
        probed  == [counted EXCEPT !.halfOpenCalls = @ + 1]
    IN  IF b.state # "half_open" THEN counted
        ELSE IF probed.halfOpenCalls >= HalfOpenMaxCalls
             THEN TransitionToClosed(probed)
             ELSE probed

\* Mutated form: the state is not consulted before tripping, so a late failure
\* restarts the open period.
RecordFailureRestamps(b) ==
    LET counted == [b EXCEPT !.total = @ + 1, !.failed = @ + 1]
    IN  IF b.state = "half_open" \/ ShouldTrip(counted)
        THEN TransitionToOpen(counted)
        ELSE counted

RecordFailure(b) ==
    LET counted == [b EXCEPT !.total = @ + 1, !.failed = @ + 1]
    IN  IF \/ b.state = "half_open"
           \/ b.state = "closed" /\ ShouldTrip(counted)
        THEN TransitionToOpen(counted)
        ELSE counted

\* reset(): back to closed with fresh metrics.
ResetBreaker(b) == NewBreaker

\* The wall clock moves: only a set _open_timestamp ages.
Aged(b) ==
    IF b.openFor \in 0..(OpenTimeout - 1)
    THEN [b EXCEPT !.openFor = @ + 1]
    ELSE b
=============================================================================
