------------------------------ MODULE ToolCalls ------------------------------
(***************************************************************************)
(* Tool calls under a policy: ToolExecutionService.execute_tool            *)
(* (app/application/services/tool_execution_service.py) with the sliding   *)
(* window of RedisRateLimiter (app/infrastructure/security/rate_limiter.py). *)
(*                                                                         *)
(* The calls are those of one tenant to one tool.  The service reads the   *)
(* counter, executes, and counts: three awaits.  It imports two modules    *)
(* the repository does not have, so this is what it is written to do.  It  *)
(* asks whether a decision wants an approval, never whether it allows the  *)
(* call: a denied call is executed, and not counted, where the documents   *)
(* have it refused (docs/DATA_FLOWS.md:175-177).                           *)
(*                                                                         *)
(* A counter is kept for each window; its Redis key names the action and   *)
(* the instant the window starts, and not the scope.  Time is in ticks,    *)
(* Length[s] of them to a window of scope s.                               *)
(***************************************************************************)
EXTENDS ToolPolicy

CONSTANTS
    Calls,          \* calls of one tool
    CallKinds,      \* what a call may ask for: action, resource, context
    Grants,         \* grants it may be made under: active, policy
    Length,         \* Length[s]: ticks in a window of scope s
    MaxTime,        \* bound: ticks
    MaxCrashes      \* bound: calls whose increment is lost

ASSUME ToolCallsAssumption ==
    /\ Length \in [Scopes -> Nat \ {0}]
    /\ MaxTime \in Nat /\ MaxCrashes \in Nat
    /\ IsFiniteSet(Calls)
    /\ NotGiven \notin Scopes

\* Policies as ToolGrant.from_legacy_dict and the dataclasses make them.
ASSUME GrantsAssumption ==
    \A g \in Grants :
        LET rules == g.policy.rules
        IN /\ rules \in Seq({rules[i] : i \in DOMAIN rules})
           /\ \A i \in DOMAIN rules : rules[i].priority \in Int /\ rules[i].effect \in Effects
           /\ g.policy.default \in Effects

VARIABLES
    now,        \* the clock
    counts,     \* counts[a][t]: the counter of action a whose window starts at t
    expires,    \* expires[a][t]: when that key goes
    call,       \* the calls
    approvals,  \* requests for approval: the calls they are for
    crashes     \* history: increments that were lost

callVars == <<now, counts, expires, call, approvals, crashes>>

Actions == {k.action : k \in CallKinds}

Times == 0..MaxTime

Answers == {"none", "allow", "deny", "approval"}

\* promised (history): the answer the policy promises; start: the window the call
\* was counted in; late (history): others were executed and not yet counted when
\* it was checked.
Call == [pc : {"new", "check", "execute", "count", "done", "nogrant", "limited", "waiting", "raised"},
         action : Actions \cup {NotGiven},
         answer : Answers, promised : Answers,
         scope : Scopes \cup {NotGiven}, limit : Nat,
         start : Times, late : BOOLEAN, executed : BOOLEAN]

CallTypeOK ==
    /\ now \in Times
    /\ counts \in [Actions -> [Times -> Nat]]
    /\ expires \in [Actions -> [Times -> Nat]]
    /\ call \in [Calls -> Call]
    /\ approvals \in SUBSET Calls
    /\ crashes \in 0..MaxCrashes

CallInit ==
    /\ now = 0
    /\ counts = [a \in Actions |-> [t \in Times |-> 0]]
    /\ expires = [a \in Actions |-> [t \in Times |-> 0]]
    /\ call = [c \in Calls |-> [pc |-> "new", action |-> NotGiven, answer |-> "none",
                                promised |-> "none", scope |-> NotGiven, limit |-> 0,
                                start |-> 0, late |-> FALSE, executed |-> FALSE]]
    /\ approvals = {}
    /\ crashes = 0

-----------------------------------------------------------------------------
(* RedisRateLimiter.                                                       *)

\* _get_window_start.
WindowStart(t, s) == (t \div Length[s]) * Length[s]

\* GET of a key that may have expired.
Counter(a, t) == IF t \in Times /\ expires[a][t] > now THEN counts[a][t] ELSE 0

\* _get_current_count: the previous window weighs what is left of it in the last
\* Length[s] ticks; int() drops the fraction.
CurrentCount(a, s) ==
    LET start == WindowStart(now, s)
        left == Length[s] - (now - start)
    IN Counter(a, start) + (Counter(a, start - Length[s]) * left) \div Length[s]

\* Mutated form: one call more.
AllowedAtLimit(a, rate) == CurrentCount(a, rate.scope) <= rate.limit

\* check_limit.
Allowed(a, rate) == CurrentCount(a, rate.scope) < rate.limit

\* increment: INCR and EXPIRE in one transaction.
Incremented(a, s) ==
    LET start == WindowStart(now, s)
    IN /\ counts' = [counts EXCEPT ![a][start] = Counter(a, start) + 1]
       /\ expires' = [expires EXCEPT ![a][start] = now + 2 * Length[s]]

-----------------------------------------------------------------------------
(* execute_tool.                                                           *)

Unchanged == UNCHANGED <<now, counts, expires, approvals, crashes>>

NoGrant(c) ==
    /\ call[c].pc = "new"
    /\ call' = [call EXCEPT ![c].pc = "nogrant"]
    /\ Unchanged

\* Where the call goes once its decision is known.
AfterDecision(d) == IF d.rate # NotGiven THEN "check" ELSE
                    IF d.answer = "approval" THEN "waiting" ELSE "execute"

Decide(c, k, g) ==
    /\ call[c].pc = "new"
    /\ LET d == Decision(g, k)
       IN /\ call' = [call EXCEPT ![c] =
                        [@ EXCEPT !.pc = AfterDecision(d), !.action = k.action,
                                  !.answer = d.answer, !.promised = Promised(g, k).answer,
                                  !.scope = IF d.rate = NotGiven THEN NotGiven ELSE d.rate.scope,
                                  !.limit = IF d.rate = NotGiven THEN 0 ELSE d.rate.limit]]
          /\ approvals' = IF AfterDecision(d) = "waiting" THEN approvals \cup {c} ELSE approvals
    /\ UNCHANGED <<now, counts, expires, crashes>>

\* Calls that passed the limit and are not counted yet, or never were.
Uncounted(a) ==
    {c \in Calls : /\ call[c].action = a
                   /\ \/ call[c].scope # NotGiven /\ call[c].pc \in {"execute", "count"}
                      \/ call[c].pc = "raised"}

AfterCheck(c, ok) ==
    IF ~ok THEN "limited"
    ELSE IF call[c].answer = "approval" THEN "waiting" ELSE "execute"

Check(c) ==
    /\ call[c].pc = "check"
    /\ LET a == call[c].action
           ok == Allowed(a, [scope |-> call[c].scope, limit |-> call[c].limit])
           next == AfterCheck(c, ok)
       IN /\ call' = [call EXCEPT ![c].pc = next,
                                  ![c].late = Uncounted(a) # {}]
          /\ approvals' = IF next = "waiting" THEN approvals \cup {c} ELSE approvals
    /\ UNCHANGED <<now, counts, expires, crashes>>

\* The handler; a denied call gets here too.
Execute(c) ==
    /\ call[c].pc = "execute"
    /\ call' = [call EXCEPT ![c].executed = TRUE,
                            ![c].pc = IF call[c].scope = NotGiven THEN "done" ELSE "count"]
    /\ Unchanged

Count(c) ==
    /\ call[c].pc = "count"
    /\ Incremented(call[c].action, call[c].scope)
    /\ call' = [call EXCEPT ![c].pc = "done", ![c].start = WindowStart(now, call[c].scope)]
    /\ UNCHANGED <<now, approvals, crashes>>

\* Redis fails after the tool has run: the exception hides that it did.
CountFails(c) ==
    /\ call[c].pc = "count"
    /\ crashes < MaxCrashes
    /\ crashes' = crashes + 1
    /\ call' = [call EXCEPT ![c].pc = "raised"]
    /\ UNCHANGED <<now, counts, expires, approvals>>

Tick ==
    /\ now < MaxTime
    /\ now' = now + 1
    /\ UNCHANGED <<counts, expires, call, approvals, crashes>>

CallNext ==
    \/ \E c \in Calls :
          \/ NoGrant(c)
          \/ \E k \in CallKinds, g \in Grants : Decide(c, k, g)
          \/ Check(c) \/ Execute(c) \/ Count(c) \/ CountFails(c)
    \/ Tick

CallSpec == CallInit /\ [][CallNext]_callVars

-----------------------------------------------------------------------------
(* Properties.                                                             *)

\* Every decision is the one the policy promises: the matching rule of highest
\* priority, the first one of these, or else the default.
PolicyDecides ==
    \A c \in Calls :
        call[c].answer = call[c].promised

\* A call that wants an approval is not executed, whatever its rate limit says,
\* and it has asked for one unless it was limited.
ApprovalFirst ==
    \A c \in Calls :
        call[c].answer = "approval" =>
            ~call[c].executed /\ (c \in approvals \/ call[c].pc \in {"check", "limited"})

\* Of the calls of one action that were counted in one window, more than the
\* limit pass only if some were checked while others were not counted yet.  This
\* holds where all limits are of one scope: the key of an hour's window is also
\* that of its first minute, whose increment lets it expire early.
WindowKept ==
    \A a \in Actions, s \in Scopes, t \in Times :
        LET counted == {c \in Calls : /\ call[c].pc = "done" /\ call[c].scope = s
                                      /\ call[c].action = a /\ call[c].start = t}
        IN counted # {} /\ (\A c, d \in Calls : (call[c].scope # NotGiven /\ call[d].scope # NotGiven)
                                                   => call[c].scope = call[d].scope)
           => \E c \in counted :
                 Cardinality(counted) <= call[c].limit
                                           + Cardinality({d \in counted : call[d].late})

\* The decision on a call is the one its grant's policy makes, a call that wants
\* an approval waits for it, and those that are counted stay within their window.
\* That a denied call is refused (docs/DATA_FLOWS.md:175-177) is not claimed:
\* execute_tool runs it all the same, and never counts it.
ToolCallsHeld ==
    /\ CallTypeOK
    /\ PolicyDecides
    /\ ApprovalFirst
    /\ WindowKept
=============================================================================
