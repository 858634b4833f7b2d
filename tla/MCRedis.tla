-------------------------------- MODULE MCRedis -------------------------------
(* What the code keeps in Redis beside sessions, idempotency keys and flags: *)
(* counters of requests, runs and tool calls, cached budgets and the memory  *)
(* of runs.  Their keys are different, so a behaviour of all is an           *)
(* interleaving of one of each: a run of the model takes one of the five,    *)
(* chosen at the start.                                                      *)
EXTENDS RateLimits, ToolCalls, BudgetCache, EphemeralMemory, TLC

VARIABLE part

MCOwner == [u \in Runs |-> IF u = CHOOSE v \in Runs : TRUE
                           THEN CHOOSE t \in Tenants : TRUE
                           ELSE CHOOSE t \in Tenants : t # CHOOSE s \in Tenants : TRUE]

MCLength == [minute |-> 2, hour |-> 4, day |-> 8]

Minute(n) == [minute |-> n, hour |-> 0, day |-> 0]
Hour(n) == [minute |-> 0, hour |-> n, day |-> n + 1]
Day(n) == [minute |-> 0, hour |-> 0, day |-> n]
Both(m, h) == [minute |-> m, hour |-> h, day |-> 0]

MCCallKinds ==
    {[action |-> "read",  resource |-> NotGiven, context |-> "small"],
     [action |-> "read",  resource |-> "own", context |-> "small"],
     [action |-> "write", resource |-> "other", context |-> "large"]}

MCPolicies ==
    {\* Two rules of one priority, and a lower one that matches everything.
     [rules |-> <<Rule(0, NotGiven, NotGiven, NotGiven, Effect(TRUE, FALSE, Minute(2))),
                  Rule(5, "read", {"other"}, NotGiven, Effect(FALSE, FALSE, NoLimits)),
                  Rule(5, "read", NotGiven, NotGiven, Effect(TRUE, TRUE, Minute(1)))>>,
      default |-> Effect(FALSE, FALSE, NoLimits)],
     \* A failing expression, one about the context, and two limits.
     [rules |-> <<Rule(9, NotGiven, NotGiven, "error", Effect(FALSE, FALSE, NoLimits)),
                  Rule(5, NotGiven, NotGiven, "small", Effect(TRUE, FALSE, Both(2, 1)))>>,
      default |-> Effect(TRUE, FALSE, Hour(1))],
     \* So many a day, and nothing else.
     [rules |-> <<Rule(0, "write", NotGiven, NotGiven, Effect(TRUE, FALSE, Day(1)))>>,
      default |-> Effect(FALSE, FALSE, NoLimits)],
     Legacy(<<"read">>, NotGiven),
     Legacy(<<>>, NotGiven)}

MCGrants == {[active |-> TRUE, policy |-> p] : p \in MCPolicies}
              \cup {[active |-> FALSE, policy |-> Legacy(<<>>, TRUE)]}

vars == <<limitVars, callVars, budgetVars, memoryVars, part>>

Init ==
    /\ part \in {"requests", "runs", "tools", "budgets", "memory"}
    /\ LimitInit
    /\ CallInit
    /\ BudgetInit
    /\ MemoryInit

Next ==
    /\ \/ part \in {"requests", "runs"} /\ ServerStep /\ UNCHANGED <<callVars, budgetVars, memoryVars>>
       \/ part = "requests" /\ RequestStep /\ UNCHANGED <<callVars, budgetVars, memoryVars>>
       \/ part = "runs" /\ RunStep /\ UNCHANGED <<callVars, budgetVars, memoryVars>>
       \/ part = "tools" /\ CallNext /\ UNCHANGED <<limitVars, budgetVars, memoryVars>>
       \/ part = "budgets" /\ BudgetNext /\ UNCHANGED <<limitVars, callVars, memoryVars>>
       \/ part = "memory" /\ MemoryNext /\ UNCHANGED <<limitVars, callVars, budgetVars>>
    /\ UNCHANGED part

Spec == Init /\ [][Next]_vars

\* Requests and the calls of the three other parts are the same set here.
Symmetry == Permutations(Requests) \cup Permutations(Names)
=============================================================================
