------------------------------ MODULE RateLimits ------------------------------
(***************************************************************************)
(* Limits on API requests and on concurrent runs: RateLimitMiddleware      *)
(* (app/api/middleware/rate_limit.py), RateLimitService                    *)
(* (app/application/services/rate_limit_service.py) and RateLimiter with   *)
(* its two Lua scripts (app/infrastructure/cache/rate_limiter.py).         *)
(*                                                                         *)
(* A request is a check, its handler and a record of it: the handler runs  *)
(* before the verdict of the check is looked at.  A run is checked against *)
(* its tenant's counter and the global one and then counted in both.  Every *)
(* Redis call is an await; a script runs atomically.                       *)
(*                                                                         *)
(* evalsha is handed the flag "loaded", which is True, where the SHA of    *)
(* the script belongs.  The Redis client refuses a Boolean argument, so    *)
(* the scripts never run and every check fails open (evalsha = "refused"). *)
(* The scripts and what is built on them are checked all the same, as they *)
(* are written: evalsha = "runs" is a client that finds the script.  The   *)
(* middleware and the run counters have no caller; the modelled order of   *)
(* the calls is the one their docstrings give.                             *)
(***************************************************************************)
EXTENDS Integers, FiniteSets

CONSTANTS
    Requests,       \* requests of one tenant to one path
    Limit,          \* requests_per_minute of the tenant's plan
    Runs,           \* runs that want to start
    Tenants,        \* their tenants
    Owner,          \* Owner[u]: the tenant of run u
    Global,         \* the key global:concurrent_runs
    RunLimit,       \* concurrent_runs of the plan
    GlobalLimit,    \* global_limit
    MaxFaults       \* bound: Redis calls that fail

ASSUME RateLimitsAssumption ==
    /\ Limit \in Nat \ {0} /\ RunLimit \in Nat \ {0} /\ GlobalLimit \in Nat \ {0}
    /\ Owner \in [Runs -> Tenants]
    /\ Global \notin Tenants
    /\ MaxFaults \in Nat
    /\ IsFiniteSet(Requests) /\ IsFiniteSet(Runs)

VARIABLES
    evalsha,    \* what the client makes of evalsha(True, ...)
    loaded,     \* _rate_limit_script_loaded, _concurrency_script_loaded
    cached,     \* the server has the scripts
    count,      \* the tenant's request counter, 0 if there is no key
    ttl,        \* that key has an expiry
    req,        \* the requests
    runs,       \* counter[k] of concurrent runs, 0 if there is no key
    run,        \* the runs
    aged,       \* history: a run counter expired or was lost
    faults      \* history: Redis calls that failed

apiVars == <<count, ttl, req>>
runVars == <<runs, run, aged>>
limitVars == <<evalsha, loaded, cached, count, ttl, req, runs, run, aged, faults>>

RunKeys == Tenants \cup {Global}

\* open: admitted because the check failed; window: its admission is counted in
\* the present window.
ApiRequest == [pc : {"new", "check", "handle", "answer", "expire", "done", "limited"},
            allowed : BOOLEAN, open : BOOLEAN, handled : BOOLEAN, window : BOOLEAN]

\* held: the counters that count the run; late: another run was between its
\* check and its increment when this one was checked.
Run == [pc : {"new", "global", "start", "start2", "running", "end2", "ended", "refused"},
        held : SUBSET RunKeys, late : BOOLEAN]

LimitTypeOK ==
    /\ evalsha \in {"refused", "runs"}
    /\ loaded \in BOOLEAN /\ cached \in BOOLEAN
    /\ count \in Nat /\ ttl \in BOOLEAN
    /\ req \in [Requests -> ApiRequest]
    /\ runs \in [RunKeys -> Nat]
    /\ run \in [Runs -> Run]
    /\ aged \in BOOLEAN
    /\ faults \in 0..MaxFaults

LimitInit ==
    /\ evalsha \in {"refused", "runs"}
    /\ loaded = FALSE /\ cached = FALSE
    /\ count = 0 /\ ttl = FALSE
    /\ req = [r \in Requests |-> [pc |-> "new", allowed |-> FALSE, open |-> FALSE,
                                  handled |-> FALSE, window |-> FALSE]]
    /\ runs = [k \in RunKeys |-> 0]
    /\ run = [u \in Runs |-> [pc |-> "new", held |-> {}, late |-> FALSE]]
    /\ aged = FALSE
    /\ faults = 0

Fault ==
    /\ faults < MaxFaults
    /\ faults' = faults + 1

NoFault == UNCHANGED <<evalsha, loaded, cached, faults>>

\* A script is run only if the server has it; otherwise NOSCRIPT is raised,
\* and nothing loads it again.
ScriptRuns == evalsha = "runs" /\ cached

-----------------------------------------------------------------------------
(* _ensure_scripts_loaded, and the server.                                 *)

LoadScripts ==
    /\ ~loaded
    /\ loaded' = TRUE
    /\ cached' = TRUE
    /\ UNCHANGED <<evalsha, faults>>
    /\ UNCHANGED <<apiVars, runVars>>

\* Redis restarts: the scripts are gone, the keys may be.
Restart ==
    /\ cached
    /\ Fault
    /\ cached' = FALSE
    /\ \/ UNCHANGED <<apiVars, runVars>>
       \/ /\ count' = 0
          /\ ttl' = FALSE
          /\ req' = [r \in Requests |-> [req[r] EXCEPT !.window = FALSE]]
          /\ runs' = [k \in RunKeys |-> 0]
          /\ aged' = TRUE
          /\ UNCHANGED run
    /\ UNCHANGED <<evalsha, loaded>>

\* The key's window ends.
WindowEnds ==
    /\ ttl
    /\ count' = 0
    /\ ttl' = FALSE
    /\ req' = [r \in Requests |-> [req[r] EXCEPT !.window = FALSE]]
    /\ UNCHANGED runVars
    /\ NoFault

-----------------------------------------------------------------------------
(* RateLimitMiddleware.dispatch.                                           *)

\* Paths that are excluded and requests without a tenant go to the handler.
PassThrough(r) ==
    /\ req[r].pc = "new"
    /\ req' = [req EXCEPT ![r].pc = "done", ![r].handled = TRUE]
    /\ UNCHANGED <<count, ttl>>
    /\ UNCHANGED runVars
    /\ NoFault

Arrive(r) ==
    /\ req[r].pc = "new"
    /\ req' = [req EXCEPT ![r].pc = "check"]
    /\ UNCHANGED <<count, ttl>>
    /\ UNCHANGED runVars
    /\ NoFault

Verdict(r, allowed, open) ==
    req' = [req EXCEPT ![r].pc = "handle", ![r].allowed = allowed, ![r].open = open,
                       ![r].window = allowed]

\* "If key doesn't exist or expired, create new".
NewWindow == count = 0 \/ ~ttl

\* Mutated form: one request more.
ExceededAbove == count > Limit

Exceeded == count >= Limit

\* RATE_LIMIT_SCRIPT.
RateLimitScript(r) ==
    \/ /\ NewWindow
       /\ count' = 1
       /\ ttl' = TRUE
       /\ Verdict(r, TRUE, FALSE)
    \/ /\ ~NewWindow
       /\ Exceeded
       /\ Verdict(r, FALSE, FALSE)
       /\ UNCHANGED <<count, ttl>>
    \/ /\ ~NewWindow
       /\ ~Exceeded
       /\ count' = count + 1
       /\ Verdict(r, TRUE, FALSE)
       /\ UNCHANGED ttl

\* An error anywhere means the request is allowed.
CheckRateLimit(r) ==
    /\ req[r].pc = "check"
    /\ loaded
    /\ IF ScriptRuns
       THEN RateLimitScript(r)
       ELSE Verdict(r, TRUE, TRUE) /\ UNCHANGED <<count, ttl>>
    /\ UNCHANGED runVars
    /\ NoFault

CheckRateLimitFails(r) ==
    /\ req[r].pc = "check"
    /\ Fault
    /\ Verdict(r, TRUE, TRUE)
    /\ UNCHANGED <<evalsha, loaded, cached, count, ttl>>
    /\ UNCHANGED runVars

\* call_next, whatever the verdict; a handler that raises ends dispatch here.
\* The headers are then read from the counter.
Handle(r) ==
    /\ req[r].pc = "handle"
    /\ \E raises \in BOOLEAN :
          req' = [req EXCEPT ![r].pc = IF raises THEN "done" ELSE "answer",
                             ![r].handled = TRUE]
    /\ UNCHANGED <<count, ttl>>
    /\ UNCHANGED runVars
    /\ NoFault

\* Only now is a request that was not allowed answered with 429.
Reject(r) ==
    /\ req[r].pc = "answer"
    /\ ~req[r].allowed
    /\ req' = [req EXCEPT ![r].pc = "limited"]
    /\ UNCHANGED <<count, ttl>>
    /\ UNCHANGED runVars
    /\ NoFault

\* record_request: INCR, which makes a key without an expiry, then EXPIRE,
\* which starts the window again.
RecordRequest(r) ==
    /\ req[r].pc = "answer"
    /\ req[r].allowed
    /\ count' = count + 1
    /\ req' = [req EXCEPT ![r].pc = "expire"]
    /\ UNCHANGED ttl
    /\ UNCHANGED runVars
    /\ NoFault

RecordExpiry(r) ==
    /\ req[r].pc = "expire"
    /\ ttl' = (count > 0)
    /\ req' = [req EXCEPT ![r].pc = "done"]
    /\ UNCHANGED count
    /\ UNCHANGED runVars
    /\ NoFault

\* Either call fails, or the server stops.
RecordFails(r) ==
    /\ req[r].pc \in {"answer", "expire"}
    /\ req[r].allowed
    /\ Fault
    /\ req' = [req EXCEPT ![r].pc = "done"]
    /\ UNCHANGED <<evalsha, loaded, cached, count, ttl>>
    /\ UNCHANGED runVars

-----------------------------------------------------------------------------
(* Concurrent runs.                                                        *)

RunGoto(u, pc) == run' = [run EXCEPT ![u].pc = pc]

\* Runs that their tenant's counter let pass and does not count yet.
Starting(t) == {u \in Runs : Owner[u] = t /\ run[u].pc \in {"global", "start"}}

\* Mutated form: one run more.
BelowLimitOrAt(k, limit) == ScriptRuns => runs[k] <= limit

\* "check" of CONCURRENCY_SCRIPT; it fails open.
BelowLimit(k, limit) == ScriptRuns => runs[k] < limit

\* check_concurrent_runs: the tenant's counter.
CheckTenant(u) ==
    /\ run[u].pc = "new"
    /\ loaded
    /\ run' = [run EXCEPT ![u].pc = IF BelowLimit(Owner[u], RunLimit) THEN "global" ELSE "refused",
                          ![u].late = Starting(Owner[u]) # {}]
    /\ UNCHANGED <<runs, aged>>
    /\ UNCHANGED apiVars
    /\ NoFault

CheckGlobal(u) ==
    /\ run[u].pc = "global"
    /\ loaded
    /\ RunGoto(u, IF BelowLimit(Global, GlobalLimit) THEN "start" ELSE "refused")
    /\ UNCHANGED <<runs, aged>>
    /\ UNCHANGED apiVars
    /\ NoFault

CheckFails(u) ==
    /\ run[u].pc \in {"new", "global"}
    /\ Fault
    /\ run' = [run EXCEPT ![u].pc = IF @ = "new" THEN "global" ELSE "start",
                          ![u].late = TRUE]
    /\ UNCHANGED <<runs, aged>>
    /\ UNCHANGED <<evalsha, loaded, cached>>
    /\ UNCHANGED apiVars

\* "decrement" of CONCURRENCY_SCRIPT.
Decremented(n) == IF n > 0 THEN n - 1 ELSE n

\* increment_concurrency; its error is swallowed and the run goes on.
Increment(u, k, pc) ==
    /\ runs' = [runs EXCEPT ![k] = IF ScriptRuns THEN @ + 1 ELSE @]
    /\ run' = [run EXCEPT ![u].pc = pc,
                          ![u].held = IF ScriptRuns THEN @ \cup {k} ELSE @]

Decrement(u, k, pc) ==
    /\ runs' = [runs EXCEPT ![k] = IF ScriptRuns THEN Decremented(@) ELSE @]
    /\ run' = [run EXCEPT ![u].pc = pc,
                          ![u].held = IF ScriptRuns THEN @ \ {k} ELSE @]

\* record_run_start: the tenant's counter, then the global one.
RecordRunStart(u) ==
    /\ loaded
    /\ \/ run[u].pc = "start" /\ Increment(u, Owner[u], "start2")
       \/ run[u].pc = "start2" /\ Increment(u, Global, "running")
    /\ UNCHANGED aged
    /\ UNCHANGED apiVars
    /\ NoFault

RecordRunEnd(u) ==
    /\ loaded
    /\ \/ run[u].pc = "running" /\ Decrement(u, Owner[u], "end2")
       \/ run[u].pc = "end2" /\ Decrement(u, Global, "ended")
    /\ UNCHANGED aged
    /\ UNCHANGED apiVars
    /\ NoFault

\* One of the calls fails: the service goes on where the limiter swallows the
\* error, and gives up where loading the scripts raised it.
RecordRunFails(u) ==
    /\ Fault
    /\ \/ run[u].pc = "start" /\ \E pc \in {"start2", "running"} : RunGoto(u, pc)
       \/ run[u].pc = "start2" /\ RunGoto(u, "running")
       \/ run[u].pc = "running" /\ \E pc \in {"end2", "ended"} : RunGoto(u, pc)
       \/ run[u].pc = "end2" /\ RunGoto(u, "ended")
    /\ UNCHANGED <<runs, aged>>
    /\ UNCHANGED <<evalsha, loaded, cached>>
    /\ UNCHANGED apiVars

\* A counter expires an hour after its last increment, with runs still going.
CounterExpires(k) ==
    /\ runs[k] > 0
    /\ runs' = [runs EXCEPT ![k] = 0]
    /\ aged' = TRUE
    /\ UNCHANGED run
    /\ UNCHANGED apiVars
    /\ NoFault

ServerStep == LoadScripts \/ Restart

RequestStep ==
    \/ WindowEnds
    \/ \E r \in Requests :
          \/ PassThrough(r)
          \/ Arrive(r)
          \/ CheckRateLimit(r) \/ CheckRateLimitFails(r)
          \/ Handle(r)
          \/ Reject(r)
          \/ RecordRequest(r) \/ RecordExpiry(r) \/ RecordFails(r)

RunStep ==
    \/ \E u \in Runs :
          \/ CheckTenant(u) \/ CheckGlobal(u) \/ CheckFails(u)
          \/ RecordRunStart(u) \/ RecordRunEnd(u) \/ RecordRunFails(u)
    \/ \E k \in RunKeys : CounterExpires(k)

LimitNext == ServerStep \/ RequestStep \/ RunStep

LimitSpec == LimitInit /\ [][LimitNext]_limitVars

-----------------------------------------------------------------------------
(* Properties.                                                             *)

\* Where the scripts run, no more than Limit requests are admitted in a window,
\* but for those admitted because their check failed: neither the counting of a
\* request twice nor the window that record_request restarts lets more through.
WindowLimit ==
    Cardinality({r \in Requests : req[r].window /\ ~req[r].open}) <= Limit

\* A counter never counts more runs than were counted in it and whose end was
\* not, and exactly these if it did not expire and no call failed.
CountersExact ==
    \A k \in RunKeys :
        LET held == Cardinality({u \in Runs : k \in run[u].held})
        IN runs[k] <= held /\ ((~aged /\ faults = 0) => runs[k] = held)

\* A tenant's limit is exceeded only by runs that were checked while another was
\* between its check and its increment, or whose check failed.
RunsWithinLimit ==
    (~aged /\ ScriptRuns /\ faults = 0) =>
        \A t \in Tenants :
            LET active == {u \in Runs : Owner[u] = t /\ run[u].pc \in {"start2", "running"}}
            IN Cardinality(active) <= RunLimit + Cardinality({u \in active : run[u].late})

\* The counters of running runs, raised and lowered in two steps of which either
\* may fail, agree with the runs and keep them within the limits.
RunsCounted ==
    /\ LimitTypeOK
    /\ CountersExact
    /\ RunsWithinLimit
=============================================================================
