----------------------------- MODULE BudgetCache -----------------------------
(***************************************************************************)
(* BudgetCache (app/infrastructure/cache/budget_cache.py): Redis hashes    *)
(* with the limit and the spending of a run and, by the day and by the     *)
(* month, of a tenant.                                                     *)
(*                                                                         *)
(* Every Redis call is an await.  A run's spending is added to by HINCRBY; *)
(* a tenant's is a decimal, read, added to and written back.  Adding to a  *)
(* hash that is gone makes one that knows no limit.  A call may fail       *)
(* before it has an effect or, its answer lost, after; the method then     *)
(* answers False, or None, without the calls that were to follow.  The     *)
(* class has no caller; here anybody calls it in any order.                *)
(***************************************************************************)
EXTENDS Integers

CONSTANTS
    Users,          \* calls of the cache
    Limits,         \* limits a caller may set
    Amounts,        \* spending it may set or add
    Missing,
    MaxLost         \* bound: Redis calls that fail

ASSUME BudgetCacheAssumption ==
    /\ Limits \subseteq Nat /\ Amounts \subseteq Nat \ {0}
    /\ MaxLost \in Nat

VARIABLES
    hash,       \* hash[k]: limit (Missing if the field is missing) and spending, or Missing
    volatile,   \* volatile[k]: the key has a time to live
    use,        \* the calls
    tally,      \* history: what was set and added since the hash was made
    mixed,      \* history: a spending was written over one nobody had read
    largest,    \* history: the most room a run was ever set
    lostCalls   \* history: Redis calls that failed

budgetVars == <<hash, volatile, use, tally, mixed, largest, lostCalls>>

BudgetKeys == {"run", "daily", "monthly"}

Budget == [limit : Nat \cup {Missing}, spent : Nat]

ASSUME MissingIsNoBudget == Missing \notin Budget

\* read: the spending a tenant's addition found; fresh (history): nobody wrote
\* the hash since; answer: what a get returned.
Use == [pc : {"new", "add", "write", "expire", "delete", "delete_monthly", "done", "failed"},
        key : BudgetKeys, amount : Nat, read : Nat, fresh : BOOLEAN,
        answer : [limit : Nat, spent : Nat] \cup {Missing}]

BudgetTypeOK ==
    /\ hash \in [BudgetKeys -> Budget \cup {Missing}]
    /\ volatile \in [BudgetKeys -> BOOLEAN]
    /\ \A k \in BudgetKeys : volatile[k] => hash[k] # Missing
    /\ use \in [Users -> Use]
    /\ tally \in [BudgetKeys -> Nat]
    /\ mixed \in [BudgetKeys -> BOOLEAN]
    /\ largest \in Nat
    /\ lostCalls \in 0..MaxLost

BudgetInit ==
    /\ hash = [k \in BudgetKeys |-> Missing]
    /\ volatile = [k \in BudgetKeys |-> FALSE]
    /\ use = [u \in Users |-> [pc |-> "new", key |-> "run", amount |-> 0, read |-> 0,
                               fresh |-> TRUE, answer |-> Missing]]
    /\ tally = [k \in BudgetKeys |-> 0]
    /\ mixed = [k \in BudgetKeys |-> FALSE]
    /\ largest = 0
    /\ lostCalls = 0

-----------------------------------------------------------------------------
Spent(k) == IF hash[k] = Missing THEN 0 ELSE hash[k].spent

\* Call u is now as given, and what others read of the hash written is old.
Go(u, changed, written) ==
    use' = [v \in Users |->
              IF v = u THEN changed
              ELSE IF use[v].pc = "write" /\ use[v].key \in written THEN [use[v] EXCEPT !.fresh = FALSE]
              ELSE use[v]]

HashesKept == UNCHANGED <<hash, volatile, tally, mixed, largest>>

\* A step that only reads.
ReadsOnly(u, changed) == Go(u, changed, {}) /\ HashesKept /\ UNCHANGED lostCalls

\* The hash at k is now what is given, counting from tallied.
Store(k, value, tallied, over) ==
    /\ hash' = [hash EXCEPT ![k] = value]
    /\ volatile' = [volatile EXCEPT ![k] = @ /\ value # Missing]
    /\ tally' = [tally EXCEPT ![k] = tallied]
    /\ mixed' = [mixed EXCEPT ![k] = over]

\* The answer of a call that had its effect reaches the method, or is lost.
Answered(u, changed, written) ==
    \/ Go(u, changed, written) /\ UNCHANGED lostCalls
    \/ /\ lostCalls < MaxLost /\ lostCalls' = lostCalls + 1
       /\ Go(u, [changed EXCEPT !.pc = "failed"], written)

\* A call that has no effect.
RedisFails(u) ==
    /\ use[u].pc \notin {"done", "failed"}
    /\ lostCalls < MaxLost /\ lostCalls' = lostCalls + 1
    /\ Go(u, [use[u] EXCEPT !.pc = "failed"], {})
    /\ HashesKept

Called(u) == use[u].pc = "new"

-----------------------------------------------------------------------------
(* The methods.                                                            *)

\* A limit that is missing reads as none left.
LimitRead(value) == IF value.limit = Missing THEN 0 ELSE value.limit

Get(u, k) ==
    /\ Called(u)
    /\ ReadsOnly(u, [use[u] EXCEPT !.key = k, !.pc = "done", !.answer =
                       IF hash[k] = Missing THEN Missing
                       ELSE [limit |-> LimitRead(hash[k]), spent |-> hash[k].spent]])

GetRunBudget(u) == Get(u, "run")
GetTenantBudget(u, k) == k # "run" /\ Get(u, k)

AtExpire(u, k) ==
    [use[u] EXCEPT !.key = k, !.pc = "expire", !.amount = 0, !.read = 0, !.fresh = TRUE]

\* set_run_budget: all fields at once, then the expiry.
SetRunBudget(u, limit, spent) ==
    /\ Called(u)
    /\ Store("run", [limit |-> limit, spent |-> spent], spent, FALSE)
    /\ largest' = IF limit - spent > largest THEN limit - spent ELSE largest
    /\ Answered(u, AtExpire(u, "run"), {"run"})

\* set_tenant_budget likewise.
SetTenantBudget(u, k, limit, spent) ==
    /\ Called(u) /\ k # "run"
    /\ Store(k, [limit |-> limit, spent |-> spent], spent, FALSE)
    /\ UNCHANGED largest
    /\ Answered(u, AtExpire(u, k), {k})

Added(k, spent) ==
    [limit |-> IF hash[k] = Missing THEN Missing ELSE hash[k].limit, spent |-> spent]

Reading(u, k, amount) ==
    [use[u] EXCEPT !.key = k, !.pc = "write", !.amount = amount, !.read = Spent(k)]

\* Mutated form: a run's spending is read first, as a tenant's is.
IncrementRunReading(u, amount) == Called(u) /\ ReadsOnly(u, Reading(u, "run", amount))

\* increment_run_spent: HINCRBY.
IncrementRunSpent(u, amount) ==
    /\ Called(u)
    /\ Store("run", Added("run", Spent("run") + amount), tally["run"] + amount, mixed["run"])
    /\ UNCHANGED largest
    /\ Answered(u, AtExpire(u, "run"), {"run"})

\* increment_run_steps: the spending stays, and the hash is made if it is gone.
IncrementRunSteps(u) ==
    /\ Called(u)
    /\ Store("run", Added("run", Spent("run")), tally["run"], mixed["run"])
    /\ UNCHANGED largest
    /\ Answered(u, AtExpire(u, "run"), {"run"})

\* increment_tenant_spent: HGET, ...
IncrementTenantSpent(u, k, amount) ==
    /\ Called(u) /\ k # "run"
    /\ ReadsOnly(u, Reading(u, k, amount))

\* ... and HSET.
WriteSpent(u) ==
    LET k == use[u].key
    IN  /\ use[u].pc = "write"
        /\ Store(k, Added(k, use[u].read + use[u].amount), tally[k] + use[u].amount,
                 mixed[k] \/ ~use[u].fresh)
        /\ UNCHANGED largest
        /\ Answered(u, AtExpire(u, k), {k})

\* EXPIRE, which ends every method that writes.
Expire(u) ==
    /\ use[u].pc = "expire"
    /\ volatile' = [volatile EXCEPT ![use[u].key] = hash[use[u].key] # Missing]
    /\ Answered(u, [use[u] EXCEPT !.pc = "done"], {})
    /\ UNCHANGED <<hash, tally, mixed, largest>>

Deleting(u, k, pc) == Called(u) /\ ReadsOnly(u, [use[u] EXCEPT !.key = k, !.pc = pc])

\* invalidate_run.
InvalidateRun(u) == Deleting(u, "run", "delete")

\* invalidate_tenant, of one key or of both its own.
InvalidateTenant(u) ==
    Deleting(u, "daily", "delete_monthly")
      \/ \E k \in BudgetKeys \ {"run"} : Deleting(u, k, "delete")

\* DEL, after "daily" of "monthly".
DeleteBudget(u) ==
    /\ use[u].pc \in {"delete", "delete_monthly"}
    /\ Store(use[u].key, Missing, 0, FALSE)
    /\ UNCHANGED largest
    /\ Answered(u, IF use[u].pc = "delete" THEN [use[u] EXCEPT !.pc = "done"]
                   ELSE [use[u] EXCEPT !.key = "monthly", !.pc = "delete"],
                {use[u].key})

BudgetExpires(k) ==
    /\ volatile[k]
    /\ Store(k, Missing, 0, FALSE)
    /\ use' = [u \in Users |-> [use[u] EXCEPT !.fresh = @ /\ ~(use[u].pc = "write" /\ use[u].key = k)]]
    /\ UNCHANGED <<largest, lostCalls>>

BudgetCall(u) ==
    \/ GetRunBudget(u) \/ \E k \in BudgetKeys : GetTenantBudget(u, k)
    \/ \E l \in Limits, s \in Amounts \cup {0} :
          SetRunBudget(u, l, s) \/ \E k \in BudgetKeys : SetTenantBudget(u, k, l, s)
    \/ \E a \in Amounts :
          IncrementRunSpent(u, a) \/ \E k \in BudgetKeys : IncrementTenantSpent(u, k, a)
    \/ IncrementRunSteps(u) \/ InvalidateRun(u) \/ InvalidateTenant(u)

BudgetNext ==
    \/ \E u \in Users : \/ BudgetCall(u)
                        \/ WriteSpent(u) \/ Expire(u) \/ DeleteBudget(u) \/ RedisFails(u)
    \/ \E k \in BudgetKeys : BudgetExpires(k)

BudgetSpec == BudgetInit /\ [][BudgetNext]_budgetVars

-----------------------------------------------------------------------------
(* Properties.                                                             *)

\* The spending in a hash is what was set and all that was added since, whatever
\* calls overlapped and failed; a tenant's may be wrong only after a spending
\* was written over one its call had not read (increment_run_spent,
\* increment_tenant_spent).
CachedSpentExact ==
    \A k \in BudgetKeys :
        hash[k] # Missing /\ (k = "run" \/ ~mixed[k]) => hash[k].spent = tally[k]

\* No reader is shown more room for a run than a caller once set: not from a hash
\* that additions made after the limits had expired (get_run_budget).
NoRoomFromNowhere ==
    \A u \in Users :
        use[u].key = "run" /\ use[u].answer # Missing
          => use[u].answer.limit - use[u].answer.spent <= largest

\* A hash that would stay for ever has a call that is about to give it an
\* expiry, or had one that failed on the way (every method that writes).
BudgetsExpire ==
    \A k \in BudgetKeys :
        hash[k] # Missing /\ ~volatile[k] =>
          lostCalls > 0 \/ \E u \in Users : use[u].key = k /\ use[u].pc = "expire"

\* What is cached of a budget is what was set and added, shows no room that was
\* not given, and goes away.
BudgetsKept ==
    /\ BudgetTypeOK
    /\ CachedSpentExact
    /\ NoRoomFromNowhere
    /\ BudgetsExpire
=============================================================================
