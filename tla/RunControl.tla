------------------------------ MODULE RunControl ------------------------------
(***************************************************************************)
(* What the rest of the system does to a stored run: the router and the    *)
(* use cases (app/api/v1/runs/router.py, app/application/use_cases/run.py) *)
(* that create, show and cancel it, CancellationService over the Redis     *)
(* signals (app/infrastructure/cache/cancellation_signals.py),             *)
(* BudgetService, and the worker's RunExecutor (app/workers/executor.py).  *)
(*                                                                         *)
(* A call reads the run into an entity of its own, changes it and writes   *)
(* all its columns back; every await is a step of its own.  The commit is  *)
(* the caller's, taken together with the write; a creation may also go      *)
(* uncommitted, as over the routes, whose sessions never commit.            *)
(*                                                                         *)
(* The services get their repository from outside, and the code holds      *)
(* three ideas of it, one per world:                                       *)
(*   "sql"       SQLRunRepository: a loaded cost is a bare integer, which  *)
(*               every use of it as a Money rejects;                       *)
(*   "entities"  the RunRepository protocol, as the unit tests stub it;    *)
(*   "executor"  the one RunExecutor expects: its runs carry agent_version *)
(*               and memory_context, update_step takes two arguments, and  *)
(*               start may manage to compute its lease.                    *)
(* Nothing in the repository provides the third: there the executor raises *)
(* before it touches the run.                                              *)
(***************************************************************************)
EXTENDS RunStates, Integers, Sequences

CONSTANTS
    Callers,    \* calls, numbered; a run has the number of the call creating it
    Tenants,
    Keys,       \* idempotency keys of the right format
    Costs,      \* micro units
    MaxCost,    \* Run.max_cost
    MaxSteps,   \* Run.max_steps
    StoredSteps,    \* the steps a run may have that was stored before
    None,
    MaxFaults   \* bound: Redis calls that fail, flags that expire, crashes

RunIds == {0} \cup Callers

Step == [kind : {"tool_call", "approval_request", "other"}, state : RunState]

Run == [tenant : Tenants, key : Keys, state : RunState, owner : Callers \cup {None},
        lease : BOOLEAN, cancel : BOOLEAN, spent : 0..MaxCost, steps : Seq(Step)]

ASSUME RunControlAssumption ==
    /\ Callers \subseteq Nat \ {0}
    /\ Costs \subseteq Nat /\ MaxCost \in Nat /\ MaxSteps \in Nat
    /\ None \notin Tenants \cup Keys \cup Run /\ MaxFaults \in Nat
    /\ StoredSteps \subseteq Seq({s \in Step : s.state = "queued"})

VARIABLES
    world,      \* the repository the services were given
    table,      \* table runs with run_steps: the row of each run, or None
    flag,       \* runs whose key cancellation:flag:{id} is set
    call,       \* the calls
    begun,      \* history: how often each step of a run was begun
    since,      \* history: steps a call began while its run's flag was set
    charged,    \* history: costs record_spent accepted, per run
    overwrote,  \* history: runs of which a write replaced columns its call never saw
    faults

vars == <<world, table, flag, call, begun, since, charged, overwrote, faults>>

NewRun(tenant, key, steps) ==
    [tenant |-> tenant, key |-> key, state |-> "queued", owner |-> None,
     lease |-> FALSE, cancel |-> FALSE, spent |-> 0, steps |-> steps]

Ended == {"done", "unsaved", "raised", "missing", "refused", "true", "false", "crashed"}

\* The executor, in its loop.
Loop == {"check", "check_row", "step", "work", "save_step", "save_run", "after", "after_row"}

Kinds == {"create", "status", "cancel", "request", "timeout", "spend", "budget", "execute"}

\* copy: the entity; fresh (history): nobody wrote the row since it was read.
NewCall == [kind |-> "none", pc |-> "new", tenant |-> None, key |-> None, run |-> 0,
            cost |-> 0, copy |-> None, fresh |-> TRUE]

TypeOK ==
    /\ world \in {"sql", "entities", "executor"}
    /\ table \in [RunIds -> Run \cup {None}]
    /\ flag \subseteq RunIds
    /\ call \in [Callers ->
         [kind : Kinds \cup {"none"},
          pc : {"new", "lookup", "insert", "get", "update", "signal", "start", "ack",
                "cancel", "clear", "fail"} \cup Loop \cup Ended,
          tenant : Tenants \cup {None}, key : Keys \cup {None}, run : RunIds,
          cost : Costs \cup {0}, copy : Run \cup {None}, fresh : BOOLEAN]]
    /\ \A r \in RunIds : table[r] # None => Len(begun[r]) = Len(table[r].steps)
    /\ since \in [Callers -> Nat]
    /\ overwrote \subseteq RunIds
    /\ faults \in 0..MaxFaults

-----------------------------------------------------------------------------
(* The repository.                                                         *)

Unwritten == UNCHANGED <<table, begun, charged, overwrote>>

\* A step of call c that leaves everything but c alone.
Then(c, changed) ==
    /\ call' = [call EXCEPT ![c] = changed]
    /\ UNCHANGED <<world, flag, since, faults>>

\* A call that has ended keeps no entity.
At(pc, changed) ==
    [changed EXCEPT !.pc = pc, !.copy = IF pc \in Ended THEN None ELSE @,
                    !.fresh = pc \in Ended \/ @]

Goto(c, pc) == Then(c, At(pc, call[c]))

\* get.
Read(c, pc) ==
    Then(c, [call[c] EXCEPT !.copy = table[call[c].run], !.fresh = TRUE, !.pc = pc])

\* Mutated form: the cost is not among them.
WrittenWithoutCost(row, run) ==
    [row EXCEPT !.state = run.state, !.owner = run.owner, !.lease = run.lease,
                !.cancel = run.cancel]

\* The columns update assigns.
Written(row, run) ==
    [row EXCEPT !.state = run.state, !.owner = run.owner, !.lease = run.lease,
                !.cancel = run.cancel, !.spent = run.spent]

\* The entities of the other calls on the run are now older than its row.
Stale(c, row) ==
    [d \in Callers |->
       IF d # c /\ call[d].run = call[c].run /\ row # table[call[c].run]
       THEN [call[d] EXCEPT !.fresh = FALSE]
       ELSE call[d]]

\* update: all columns, from the caller's entity.  The SQL one raises at
\* spent_cost.micro_units, and the session is rolled back.
Update(c, run, pc, cost) ==
    IF world = "sql"
    THEN Goto(c, "raised") /\ Unwritten
    ELSE LET row == Written(table[call[c].run], run)
         IN  /\ table' = [table EXCEPT ![call[c].run] = row]
             /\ call' = [Stale(c, row) EXCEPT ![c] =
                           At(pc, [call[c] EXCEPT !.copy = run, !.fresh = TRUE])]
             /\ overwrote' = IF call[c].fresh THEN overwrote
                             ELSE overwrote \cup {call[c].run}
             /\ charged' = [charged EXCEPT ![call[c].run] = @ + cost]
             /\ UNCHANGED <<world, flag, begun, since, faults>>

\* A Redis call that fails if ~ok; the signals' methods catch the exception.
Redis(ok) ==
    \/ ok /\ UNCHANGED faults
    \/ ~ok /\ faults < MaxFaults /\ faults' = faults + 1

-----------------------------------------------------------------------------
(* The entity (app/domain/entities/run.py).                                *)

\* Mutated form: no early return for a run that has ended.
CancelledAnyway(run) == [run EXCEPT !.state = "cancelled", !.cancel = TRUE]

\* Run.cancel.
Cancelled(run) ==
    IF run.state \in Terminal THEN run
    ELSE [run EXCEPT !.state = "cancelled", !.cancel = TRUE]

\* Run.record_cost.
RecordCost(run, cost) == [run EXCEPT !.spent = @ + cost]

Exceeds(run, cost) == run.spent + cost > MaxCost

\* check_step_limit.
StepsLeft(run) == Len(run.steps) < MaxSteps

WithStep(run, i, state) == [run EXCEPT !.steps[i].state = state]

-----------------------------------------------------------------------------
(* The router and the use cases.                                           *)

Present == {r \in RunIds : table[r] # None}

Begin(c, kind, pc, fields) ==
    /\ call[c].pc = "new"
    /\ Then(c, [fields EXCEPT !.kind = kind, !.pc = pc])
    /\ Unwritten

\* POST /agents/{id}/runs with a well-formed key, or with another.
CreateRun(c, t, k) ==
    Begin(c, "create", "lookup", [call[c] EXCEPT !.tenant = t, !.key = k])

CreateRunRefused(c, t) == Begin(c, "create", "refused", [call[c] EXCEPT !.tenant = t])

OnRun(c, kind, t, r) == Begin(c, kind, "get", [call[c] EXCEPT !.tenant = t, !.run = r])

GetRunStatus(c, t, r) == OnRun(c, "status", t, r)
CancelRun(c, t, r) == OnRun(c, "cancel", t, r)

\* get_by_idempotency_key.
ByKey(t, k) == {r \in Present : table[r].tenant = t /\ table[r].key = k}

Lookup(c) ==
    /\ call[c].pc = "lookup"
    /\ LET found == ByKey(call[c].tenant, call[c].key)
       IN  IF found = {} THEN Goto(c, "insert")
           ELSE \E r \in found : Then(c, [call[c] EXCEPT !.run = r, !.pc = "done"])
    /\ Unwritten

\* Mutated form: the table does not refuse a second row for the key.
InsertTwice(c) ==
    /\ call[c].pc = "insert"
    /\ table' = [table EXCEPT ![c] = NewRun(call[c].tenant, call[c].key, <<>>)]
    /\ Then(c, [call[c] EXCEPT !.run = c, !.pc = "done"])
    /\ UNCHANGED <<begun, charged, overwrote>>

\* create: runs_tenant_idempotency_unique lets one row in, the other raises.  The
\* session is committed by whoever opened it; the routes' get_db_session closes it
\* without a commit, and answers with a run that is not stored.
Insert(c) ==
    /\ call[c].pc = "insert"
    /\ IF ByKey(call[c].tenant, call[c].key) # {}
       THEN Goto(c, "raised") /\ Unwritten
       ELSE \/ /\ table' = [table EXCEPT ![c] = NewRun(call[c].tenant, call[c].key, <<>>)]
               /\ Then(c, [call[c] EXCEPT !.run = c, !.pc = "done"])
               /\ UNCHANGED <<begun, charged, overwrote>>
            \/ Goto(c, "unsaved") /\ Unwritten

\* get_run, which a run of another tenant does not pass.
Visible(c) ==
    /\ table[call[c].run] # None
    /\ table[call[c].run].tenant = call[c].tenant

UseCaseGet(c) ==
    /\ call[c].pc = "get" /\ call[c].kind \in {"status", "cancel"}
    /\ IF ~Visible(c) THEN Goto(c, "missing")
       ELSE IF call[c].kind = "cancel" THEN Read(c, "update")
       ELSE Goto(c, IF world = "sql" THEN "raised" ELSE "done")
    /\ Unwritten

\* cancel_run: the entity is cancelled and written, nobody is signalled.
UseCaseCancel(c) ==
    /\ call[c].pc = "update" /\ call[c].kind = "cancel"
    /\ Update(c, Cancelled(call[c].copy), "done", 0)

-----------------------------------------------------------------------------
(* BudgetService.                                                          *)

RecordSpent(c, r, cost) ==
    Begin(c, "spend", "get", [call[c] EXCEPT !.run = r, !.cost = cost])
CheckRunBudget(c, r, cost) ==
    Begin(c, "budget", "get", [call[c] EXCEPT !.run = r, !.cost = cost])

\* record_spent: a missing run is passed over, a cost too high raises.
Spend(c) ==
    /\ call[c].pc = "get" /\ call[c].kind = "spend"
    /\ LET row == table[call[c].run]
       IN  IF row = None THEN Goto(c, "done")
           ELSE IF world = "sql" \/ Exceeds(row, call[c].cost) THEN Goto(c, "raised")
           ELSE Then(c, [call[c] EXCEPT !.copy = RecordCost(row, call[c].cost),
                                        !.fresh = TRUE, !.pc = "update"])
    /\ Unwritten

SpendWrite(c) ==
    /\ call[c].pc = "update" /\ call[c].kind = "spend"
    /\ Update(c, call[c].copy, "done", call[c].cost)

\* check_run_budget: cost, steps, then time (late: the run is older than its
\* timeout).  Nothing is reserved; the events go to an entity that is dropped.
CheckBudget(c) ==
    /\ call[c].pc = "get" /\ call[c].kind = "budget"
    /\ \E late \in BOOLEAN :
          LET row == table[call[c].run]
          IN  Goto(c, IF row = None THEN "false"
                      ELSE IF world = "sql" THEN "raised"
                      ELSE IF Exceeds(row, call[c].cost) \/ ~StepsLeft(row) \/ late
                      THEN "false" ELSE "true")
    /\ Unwritten

-----------------------------------------------------------------------------
(* CancellationService.                                                    *)

RequestCancellation(c, r) == Begin(c, "request", "get", [call[c] EXCEPT !.run = r])
CheckCancellationTimeout(c, r) == Begin(c, "timeout", "get", [call[c] EXCEPT !.run = r])

RequestGet(c) ==
    /\ call[c].pc = "get" /\ call[c].kind = "request"
    /\ LET row == table[call[c].run]
       IN  IF row = None THEN Goto(c, "false")
           ELSE IF row.state \in Terminal THEN Goto(c, "true")
           ELSE Read(c, "update")
    /\ Unwritten

RequestWrite(c) ==
    /\ call[c].pc = "update" /\ call[c].kind = "request"
    /\ Update(c, [call[c].copy EXCEPT !.cancel = TRUE], "signal", 0)

\* publish_request, whose success is the answer, and set_flag, whose is not.
Signal(c) ==
    /\ call[c].pc = "signal"
    /\ \E published, ok \in BOOLEAN :
          /\ Redis(ok)
          /\ flag' = IF ok THEN flag \cup {call[c].run} ELSE flag
          /\ call' = [call EXCEPT ![c] = At(IF published THEN "true" ELSE "false", @)]
    /\ UNCHANGED <<world, since>>
    /\ Unwritten

\* The flag of run r goes, and with it what it stood for.
Unflagged(r) ==
    /\ flag' = flag \ {r}
    /\ since' = [c \in Callers |-> IF call[c].run = r THEN 0 ELSE since[c]]

\* Its five minutes are over.
FlagExpires ==
    /\ \E r \in flag : Unflagged(r)
    /\ Redis(FALSE)
    /\ UNCHANGED <<world, call>>
    /\ Unwritten

\* check_cancellation_timeout: the entity goes back as it came.
TimeoutGet(c) ==
    /\ call[c].pc = "get" /\ call[c].kind = "timeout"
    /\ \E late \in BOOLEAN :
          LET row == table[call[c].run]
          IN  IF row # None /\ row.cancel /\ late THEN Read(c, "update")
              ELSE Goto(c, "false")
    /\ Unwritten

TimeoutWrite(c) ==
    /\ call[c].pc = "update" /\ call[c].kind = "timeout"
    /\ Update(c, call[c].copy, "true", 0)

\* Where a check that finds nothing goes on: before a step, and after it.
NotCancelled(pc) ==
    CASE pc = "check" -> "check_row"
      [] pc = "check_row" -> "step"
      [] pc = "after" -> "after_row"
      [] pc = "after_row" -> "check"

\* Mutated form: only the database is asked.
CheckFlagNever(c) ==
    /\ call[c].pc \in {"check", "after"}
    /\ Goto(c, NotCancelled(call[c].pc))
    /\ Unwritten

\* is_cancelled: the flag, ...
CheckFlag(c) ==
    /\ call[c].pc \in {"check", "after"}
    /\ \E ok \in BOOLEAN :
          /\ Redis(ok)
          /\ call' = [call EXCEPT ![c].pc =
                        IF ok /\ call[c].run \in flag THEN "ack" ELSE NotCancelled(@)]
    /\ UNCHANGED <<world, flag, since>>
    /\ Unwritten

\* ... then the row.
CheckRow(c) ==
    /\ call[c].pc \in {"check_row", "after_row"}
    /\ Goto(c, IF table[call[c].run].cancel THEN "ack" ELSE NotCancelled(call[c].pc))
    /\ Unwritten

\* acknowledge_cancellation: the event goes to an entity that is dropped, the
\* signal to whoever listens.  complete_cancellation reads the run afresh ...
Acknowledge(c) == call[c].pc = "ack" /\ Read(c, "cancel") /\ Unwritten

CompleteWrite(c) ==
    /\ call[c].pc = "cancel"
    /\ Update(c, Cancelled(call[c].copy), "clear", 0)

\* ... and cleanup deletes the flag.
Cleanup(c) ==
    /\ call[c].pc = "clear"
    /\ \E ok \in BOOLEAN :
          /\ Redis(ok)
          /\ IF ok THEN Unflagged(call[c].run) ELSE UNCHANGED <<flag, since>>
    /\ call' = [call EXCEPT ![c] = At("done", @)]
    /\ UNCHANGED world
    /\ Unwritten

-----------------------------------------------------------------------------
(* RunExecutor.                                                            *)

ExecuteRun(c, r) == Begin(c, "execute", "get", [call[c] EXCEPT !.run = r])

\* _load_memory_context comes before the try: a run without agent_version
\* raises, and so may what it reads.
ExecutorGet(c) ==
    /\ call[c].pc = "get" /\ call[c].kind = "execute"
    /\ IF table[call[c].run] = None THEN Goto(c, "missing")
       ELSE \/ world = "executor" /\ Read(c, "start")
            \/ Goto(c, "raised")
    /\ Unwritten

\* Mutated form: a run that is running may be started again.
StartAgain(c) ==
    /\ call[c].pc = "start"
    /\ LET started == [call[c].copy EXCEPT !.state = "running", !.owner = c, !.lease = TRUE]
       IN  IF call[c].copy.state = "running" \/ CanTransition(call[c].copy.state, "running")
           THEN Update(c, started, "check", 0)
           ELSE Goto(c, "fail") /\ Unwritten

\* start and update, or what start leaves behind when it raises: nothing if the
\* state forbids it, a running run of this worker if the lease does.
ExecutorStart(c) ==
    /\ call[c].pc = "start"
    /\ LET owned == [call[c].copy EXCEPT !.state = "running", !.owner = c]
       IN  IF ~CanTransition(call[c].copy.state, "running")
           THEN Goto(c, "fail") /\ Unwritten
           ELSE \/ Update(c, [owned EXCEPT !.lease = TRUE], "check", 0)
                \/ Then(c, [call[c] EXCEPT !.copy = owned, !.pc = "fail"]) /\ Unwritten

Unfinished(run) == {i \in DOMAIN run.steps : run.steps[i].state \in {"queued", "running"}}

\* _get_next_pending_step: the first of them.
Pending(run) == {i \in Unfinished(run) : \A j \in Unfinished(run) : i <= j}

\* Nothing left to do: the loop goes on asking.
NothingPending(c) ==
    /\ call[c].pc = "step" /\ Pending(call[c].copy) = {}
    /\ Goto(c, "after")
    /\ Unwritten

\* _execute_step up to its try: a step already running cannot start.
BeginStep(c) ==
    /\ call[c].pc = "step"
    /\ \E i \in Pending(call[c].copy) :
          IF call[c].copy.steps[i].state = "running"
          THEN Goto(c, "fail") /\ Unwritten
          ELSE LET run == WithStep(call[c].copy, i, "running")
               IN  /\ table' = [table EXCEPT ![call[c].run].steps[i].state = "running"]
                   /\ call' = [call EXCEPT ![c].copy = run, ![c].pc = "work"]
                   /\ begun' = [begun EXCEPT ![call[c].run][i] = @ + 1]
                   /\ since' = [since EXCEPT ![c] = IF call[c].run \in flag THEN @ + 1 ELSE @]
                   /\ UNCHANGED <<world, flag, charged, overwrote, faults>>

\* The tool's, the approval's or the step's own answer: how the step ends, and
\* the run.  A pending approval asks for the approval of the run twice, and the
\* second time raises out of the handler.
Outcomes(kind) ==
    [step : {"succeeded"}, run : {"running"}, raises : {FALSE}]
      \cup [step : {"failed"}, run : {"running"}, raises : {TRUE}]
      \cup (IF kind = "other" THEN {}
            ELSE [step : {"failed"}, run : {"running"}, raises : {FALSE}])
      \cup (IF kind = "tool_call"
            THEN [step : {"failed"}, run : {"awaiting_approval"}, raises : {FALSE}] ELSE {})
      \cup (IF kind = "approval_request"
            THEN [step : {"running"}, run : {"awaiting_approval"}, raises : {TRUE}] ELSE {})

Work(c) ==
    /\ call[c].pc = "work"
    /\ \E i \in Pending(call[c].copy) : \E o \in Outcomes(call[c].copy.steps[i].kind) :
          LET run == [WithStep(call[c].copy, i, o.step) EXCEPT !.state = o.run]
          IN  Then(c, [call[c] EXCEPT !.copy = run,
                                      !.pc = IF o.raises THEN "fail" ELSE "save_step"])
    /\ Unwritten

\* update_step of the step just finished, then update; an approval ends the call.
SaveStep(c) ==
    /\ call[c].pc = "save_step"
    /\ \E i \in DOMAIN call[c].copy.steps :
          /\ i \notin Unfinished(call[c].copy) /\ (i + 1)..Len(call[c].copy.steps) \subseteq Unfinished(call[c].copy)
          /\ table' = [table EXCEPT ![call[c].run].steps[i].state = call[c].copy.steps[i].state]
    /\ Goto(c, "save_run")
    /\ UNCHANGED <<begun, charged, overwrote>>

SaveRun(c) ==
    /\ call[c].pc = "save_run"
    /\ Update(c, call[c].copy,
              IF call[c].copy.state = "awaiting_approval" THEN "done" ELSE "after", 0)

\* The handler of execute_run: fail raises on a run that may not fail.
Fail(c) ==
    /\ call[c].pc = "fail"
    /\ IF CanTransition(call[c].copy.state, "failed")
       THEN Update(c, [call[c].copy EXCEPT !.state = "failed"], "done", 0)
       ELSE Goto(c, "raised") /\ Unwritten

\* The process of a call dies.
Crash(c) ==
    /\ call[c].pc \notin Ended \cup {"new"}
    /\ Redis(FALSE)
    /\ call' = [call EXCEPT ![c] = At("crashed", @)]
    /\ UNCHANGED <<world, flag, since>>
    /\ Unwritten

\* The routes, on any run or none.
Route(c) ==
    \/ \E t \in Tenants, k \in Keys : CreateRun(c, t, k)
    \/ \E t \in Tenants : CreateRunRefused(c, t)
    \/ \E t \in Tenants, r \in Present \cup {c} : GetRunStatus(c, t, r) \/ CancelRun(c, t, r)

\* The services, on one run.
Service(c, r) ==
    \/ RequestCancellation(c, r) \/ CheckCancellationTimeout(c, r)
    \/ ExecuteRun(c, r)
    \/ \E cost \in Costs : RecordSpent(c, r, cost) \/ CheckRunBudget(c, r, cost)

UseCase(c) == Lookup(c) \/ Insert(c) \/ UseCaseGet(c) \/ UseCaseCancel(c)

Budget(c) == Spend(c) \/ SpendWrite(c) \/ CheckBudget(c)

Cancellation(c) ==
    \/ RequestGet(c) \/ RequestWrite(c) \/ Signal(c)
    \/ TimeoutGet(c) \/ TimeoutWrite(c)

HandleCancellation(c) == Acknowledge(c) \/ CompleteWrite(c) \/ Cleanup(c)

Execution(c) ==
    \/ ExecutorGet(c) \/ ExecutorStart(c)
    \/ CheckFlag(c) \/ CheckRow(c) \/ NothingPending(c) \/ BeginStep(c)
    \/ Work(c) \/ SaveStep(c) \/ SaveRun(c) \/ Fail(c)
    \/ HandleCancellation(c)

Proceed(c) == UseCase(c) \/ Budget(c) \/ Cancellation(c) \/ Execution(c)

\* At most one run is stored at first, with all its steps ahead of it.
Init ==
    /\ world \in {"sql", "entities", "executor"}
    /\ \E first \in {None} \cup {NewRun(t, k, steps) : t \in Tenants, k \in Keys, steps \in StoredSteps} :
          /\ table = [r \in RunIds |-> IF r = 0 THEN first ELSE None]
          /\ begun = [r \in RunIds |->
                        IF r = 0 /\ first # None THEN [i \in DOMAIN first.steps |-> 0]
                        ELSE <<>>]
    /\ flag = {}
    /\ call = [c \in Callers |-> NewCall]
    /\ since = [c \in Callers |-> 0]
    /\ charged = [r \in RunIds |-> 0]
    /\ overwrote = {}
    /\ faults = 0

Request(c) == Route(c) \/ \E r \in Present \cup {c} : Service(c, r)

Next == (\E c \in Callers : Request(c) \/ Proceed(c) \/ Crash(c)) \/ FlagExpires

Spec == Init /\ [][Next]_vars

-----------------------------------------------------------------------------
(* Properties.                                                             *)

\* However many requests carry a tenant's idempotency key, and whenever each
\* of them looked it up, all that are given a stored run are given one and the
\* same, which is that tenant's (create_run, get_by_idempotency_key, the unique
\* constraint).
KeyNamesOneRun ==
    \A c, d \in Callers :
        LET Created(e) == call[e].kind = "create" /\ call[e].pc = "done"
        IN  Created(c) /\ Created(d) /\ call[c].key = call[d].key =>
              (call[c].run = call[d].run <=> call[c].tenant = call[d].tenant)

\* The cost of a run never exceeds what was recorded for it, and equals it as
\* long as no call wrote over columns of the run it had not seen (record_spent
\* reads, adds and writes back; so does everything else that updates a run).
SpentAccounted ==
    \A r \in Present :
        /\ table[r].spent <= charged[r]
        /\ r \notin overwrote => table[r].spent = charged[r]

\* Once the flag of a run is up a worker begins at most the step it had already
\* cleared, and one more for each Redis call that fails; what others write over
\* cancel_requested_at meanwhile changes nothing (execute_run, is_cancelled).
StopsSoon == \A c \in Callers : since[c] <= 1 + faults

\* No step is begun twice, by whichever workers were given the run and wherever
\* they crashed, unless a write of one went over what another had written of the
\* same run (execute_run, _execute_step, _get_next_pending_step).
StepOnce ==
    \A r \in RunIds \ overwrote : \A i \in DOMAIN begun[r] : begun[r][i] <= 1

\* Workers begin no step twice, and hardly one for a run whose flag is up.
WorkersBehave ==
    /\ TypeOK
    /\ StopsSoon
    /\ StepOnce

\* Seen from one run, the table is the abstract run of RunLifecycle.
Lifecycle(r) == INSTANCE RunLifecycle WITH
    Limit    <- MaxCost,
    stored   <- table[r] # None,
    state    <- IF table[r] = None THEN "queued" ELSE table[r].state,
    cancel   <- table[r] # None /\ table[r].cancel,
    spent    <- IF table[r] = None THEN 0 ELSE table[r].spent,
    steps    <- IF table[r] = None THEN <<>>
                ELSE [i \in DOMAIN table[r].steps |-> table[r].steps[i].state],
    torn     <- r \in overwrote,
    readOnly <- world = "sql"

\* Every run keeps to its lifecycle, whatever the routes, the services and the
\* workers do to it at the same time: it stays as it ended, its cost only grows,
\* its steps run in order and each once, unless a call writes over columns of it
\* it had not seen (cancel_run, complete_cancellation, execute_run, record_spent,
\* check_cancellation_timeout); and with the repository the routers are given no
\* stored run changes at all (SQLRunRepository._to_entity).
\* (\A r : Lifecycle(r)!LifecycleSpec, with the quantifier inside the box.)
RunsKeepLifecycle ==
    /\ \A r \in RunIds : Lifecycle(r)!LifecycleInit
    /\ [][\A r \in RunIds :
            /\ [Lifecycle(r)!LifecycleNext]_(Lifecycle(r)!runVars)
            /\ world = "sql" /\ table[r] # None => table'[r] = table[r]]_vars

\* A worker in its loop, whose steps may all be done, ends once the flag of its
\* run is up, or the flag has gone before it looked (check_flag between steps).
CancellationStopsWorker ==
    \A c \in Callers :
        (call[c].pc \in Loop /\ call[c].run \in flag)
           ~> (call[c].pc \notin Loop \/ call[c].run \notin flag)
=============================================================================
