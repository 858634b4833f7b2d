----------------------------- MODULE Degradation -----------------------------
(***************************************************************************)
(* Graceful degradation: DegradationService                                *)
(* (app/application/services/degradation_service.py) and the               *)
(* DegradationMonitor that drives it                                       *)
(* (app/infrastructure/health/degradation_monitor.py).                     *)
(*                                                                         *)
(* svc is the service's state: the mode, auto_recovery_enabled of the      *)
(* current status, and the two failure counters a decision reads (the      *)
(* per-provider counts are only logged).  None of the coroutines suspends  *)
(* between its first and its last statement, so an operation, and a whole  *)
(* pass of the monitor between two sleeps, is one action.                  *)
(***************************************************************************)
EXTENDS Integers

CONSTANTS
    DbFailureThreshold,
    RedisFailureThreshold,
    AutoRecovery,   \* settings.degradation_auto_recovery: "on", "off", or
                    \* "missing": the Settings of app/settings.py has no such
                    \* attribute (the tests' mock has one)
    HealthAnswers,  \* what _check_database_health and _check_redis_health
                    \* can answer: {TRUE} while they are placeholders
    MaxCount        \* bound: callers report no failure above this count

VARIABLES
    svc,
    running,    \* DegradationMonitor._running
    up          \* what the health checks find

degradationVars == <<svc, running, up>>

Mode == {"full", "degraded_cache", "degraded_db", "degraded_providers", "minimal"}

Service == [mode : Mode, auto : BOOLEAN, db : Nat, redis : Nat]

DegradationTypeOK ==
    /\ svc \in Service
    /\ running \in BOOLEAN
    /\ up \in [db : HealthAnswers, redis : HealthAnswers]

DegradationInit ==
    /\ svc = [mode |-> "full", auto |-> TRUE, db |-> 0, redis |-> 0]
    /\ running = FALSE
    /\ up \in [db : HealthAnswers, redis : HealthAnswers]

-----------------------------------------------------------------------------
(* The service.                                                            *)

\* _enter_degradation_mode reads the setting while it builds the status: with
\* no such setting it raises and the mode stays.
EnterMode(s, m) ==
    IF AutoRecovery = "missing"
    THEN s
    ELSE [s EXCEPT !.mode = m, !.auto = (AutoRecovery = "on")]

DatabaseFailure(s) ==
    IF s.db + 1 >= DbFailureThreshold
    THEN EnterMode([s EXCEPT !.db = @ + 1], "degraded_db")
    ELSE [s EXCEPT !.db = @ + 1]

RedisFailure(s) ==
    IF s.redis + 1 >= RedisFailureThreshold
    THEN EnterMode([s EXCEPT !.redis = @ + 1], "degraded_cache")
    ELSE [s EXCEPT !.redis = @ + 1]

ExitMode(s) == [mode |-> "full", auto |-> TRUE, db |-> 0, redis |-> 0]

\* check_recovery_conditions, for a mode other than FULL.
RecoveryConditions(s) ==
    /\ s.auto
    /\ \/ s.mode = "degraded_db" /\ s.db = 0
       \/ s.mode = "degraded_cache" /\ s.redis = 0

HandleDatabaseFailure ==
    /\ svc.db < MaxCount
    /\ svc' = DatabaseFailure(svc)
    /\ UNCHANGED <<running, up>>

HandleRedisFailure ==
    /\ svc.redis < MaxCount
    /\ svc' = RedisFailure(svc)
    /\ UNCHANGED <<running, up>>

\* Any mode may be named, FULL too; the counters stay as they are.
ManualDegradation(m) ==
    /\ svc' = EnterMode(svc, m)
    /\ UNCHANGED <<running, up>>

ExitDegradationMode ==
    /\ svc' = ExitMode(svc)
    /\ UNCHANGED <<running, up>>

\* The counters go, the mode stays.
ResetFailureCounters ==
    /\ svc' = [svc EXCEPT !.db = 0, !.redis = 0]
    /\ UNCHANGED <<running, up>>

-----------------------------------------------------------------------------
(* The monitor.                                                            *)

StartMonitoring ==
    /\ ~running
    /\ running' = TRUE
    /\ UNCHANGED <<svc, up>>

StopMonitoring ==
    /\ running
    /\ running' = FALSE
    /\ UNCHANGED <<svc, up>>

AfterDatabaseProbe(s, healthy) ==
    IF healthy THEN [s EXCEPT !.db = 0] ELSE DatabaseFailure(s)

AfterRedisProbe(s, healthy) ==
    IF healthy THEN [s EXCEPT !.redis = 0] ELSE RedisFailure(s)

DatabaseProbeRaises(s, healthy) ==
    AutoRecovery = "missing" /\ ~healthy /\ s.db + 1 >= DbFailureThreshold

RedisProbeRaises(s, healthy) ==
    AutoRecovery = "missing" /\ ~healthy /\ s.redis + 1 >= RedisFailureThreshold

\* One turn of _monitor_loop: the database, then Redis, then recovery.  An
\* exception ends the turn, not the loop.
MonitorPass(dbHealthy, redisHealthy) ==
    /\ running
    /\ dbHealthy \/ svc.db < MaxCount
    /\ redisHealthy \/ svc.redis < MaxCount
    /\ LET a == AfterDatabaseProbe(svc, dbHealthy)
           b == AfterRedisProbe(a, redisHealthy)
       IN  svc' = IF DatabaseProbeRaises(svc, dbHealthy) THEN a
                  ELSE IF RedisProbeRaises(a, redisHealthy) THEN b
                  ELSE IF RecoveryConditions(b) THEN ExitMode(b) ELSE b
    /\ UNCHANGED <<running, up>>

Monitor == MonitorPass(up.db, up.redis)

\* The components fail and come back as they please.
HealthChanges ==
    /\ up' \in [db : HealthAnswers, redis : HealthAnswers]
    /\ UNCHANGED <<svc, running>>

DegradationNext ==
    \/ HandleDatabaseFailure
    \/ HandleRedisFailure
    \/ \E m \in Mode : ManualDegradation(m)
    \/ ExitDegradationMode
    \/ ResetFailureCounters
    \/ StartMonitoring
    \/ StopMonitoring
    \/ Monitor
    \/ HealthChanges

DegradationSpec == DegradationInit /\ [][DegradationNext]_degradationVars

-----------------------------------------------------------------------------
(* Properties.                                                             *)

\* A reported failure that brings its component to the threshold, "Number of
\* consecutive DB failures before degradation" (degradation_service.py:52-53),
\* leaves the service in the mode of that component (handle_database_failure,
\* handle_redis_failure).
ThresholdDegrades ==
    [][/\ HandleDatabaseFailure /\ svc'.db >= DbFailureThreshold
             => svc'.mode = "degraded_db"
       /\ HandleRedisFailure /\ svc'.redis >= RedisFailureThreshold
             => svc'.mode = "degraded_cache"]_degradationVars
=============================================================================
