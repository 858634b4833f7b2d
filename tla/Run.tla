--------------------------------- MODULE Run ---------------------------------
(***************************************************************************)
(* The Run aggregate of app/domain/entities/run.py, with its steps, its    *)
(* state table (RunStates), the events it records                          *)
(* (app/domain/events/run_events.py, AggregateRoot in entities/base.py)    *)
(* and its way through the SQL repository                                  *)
(* (app/infrastructure/db/repositories/run.py).                            *)
(*                                                                         *)
(* One Run object lives at a time.  A method that raises before it changed *)
(* anything is an action that is not enabled; one that raises half way is  *)
(* an action that keeps the half.  No code calls collect_events, so the    *)
(* list of pending events only grows.                                      *)
(*                                                                         *)
(* Loading gives spent_cost as the plain integer of the column instead of  *)
(* a Money: run.money says which it is.  Every expression that uses the    *)
(* integer as a Money raises, in record_cost, complete and update alike.   *)
(***************************************************************************)
EXTENDS RunStates, Integers, Sequences, FiniteSets

CONSTANTS
    Workers,        \* lease owners
    None,
    LeaseSeconds,   \* lease_duration_seconds of a call; the default is 300
    StepNumbers,    \* sequence numbers asked for
    Costs,          \* micro units recorded at once
    TokenTotals,    \* TokenUsage.total_tokens recorded at once
    MaxSteps,       \* Run.max_steps
    MaxCost,        \* Run.max_cost, micro units
    MaxEvents       \* bound on the events of one object

ASSUME RunAssumption ==
    /\ None \notin Workers /\ None \notin RunState
    /\ LeaseSeconds \subseteq Nat
    /\ StepNumbers \subseteq Nat
    /\ Costs \subseteq Nat
    /\ TokenTotals \subseteq Nat
    /\ MaxSteps \in Nat \ {0}
    /\ MaxCost \in Nat \ {0}
    /\ MaxEvents \in Nat

VARIABLES
    run,        \* the columns of the object
    steps,      \* its _steps
    events,     \* its _events
    row         \* what the repository last wrote

vars == <<run, steps, events, row>>

-----------------------------------------------------------------------------
(* Values.                                                                 *)

\* The event that reports how a run ended.
EndingOf(s) ==
    CASE s = "succeeded" -> "completed"
      [] s = "failed" -> "run_failed"
      [] s = "cancelled" -> "run_cancelled"
      [] s = "timed_out" -> "run_timed_out"

Endings == {"completed", "run_failed", "run_cancelled", "run_timed_out"}

RunRecord ==
    [state : RunState, attempt : Nat, spent : 0..MaxCost, money : BOOLEAN,
     owner : Workers \cup {None}, lease : BOOLEAN, cancel : BOOLEAN,
     output : BOOLEAN]

\* A step shares the run's states and uses four of them.
Step == [sequence : StepNumbers,
         state : {"queued", "running", "succeeded", "failed"}]

\* from and to belong to a state change, number to a step or a total cost.
Event == [kind : {"created", "changed", "step"} \cup Endings,
          from : RunState \cup {None}, to : RunState \cup {None}, number : Nat]

Plain(k, n) == [kind |-> k, from |-> None, to |-> None, number |-> n]

\* Mutated form: the old state is read after the new one was assigned.
StateChangedLate(t) == [kind |-> "changed", from |-> t, to |-> t, number |-> 0]

StateChanged(t) ==
    [kind |-> "changed", from |-> run.state, to |-> t, number |-> 0]

NoRow == [run |-> None]

TypeOK ==
    /\ run \in RunRecord
    /\ steps \in Seq(Step)
    /\ events \in Seq(Event)
    /\ row \in [run : RunRecord, steps : Seq(Step)] \cup {NoRow}

\* Run(...) with the defaults, as RunUseCases.create_run makes it.
Init ==
    /\ run = [state |-> "queued", attempt |-> 0, spent |-> 0, money |-> TRUE,
              owner |-> None, lease |-> FALSE, cancel |-> FALSE,
              output |-> FALSE]
    /\ steps = <<>>
    /\ events = <<Plain("created", 0)>>
    /\ row = NoRow

-----------------------------------------------------------------------------
(* The run's transitions.  Room is the bound on the list of events.        *)

Room(n) == Len(events) + n <= MaxEvents

\* add_event.
With(list, event) == Append(list, event)

\* _transition, with what the calling method assigns afterwards in changed.
Transition(t, changed) ==
    /\ CanTransition(run.state, t)
    /\ Room(2)
    /\ run' = [changed EXCEPT !.state = t]
    /\ events' = With(events, StateChanged(t))
    /\ UNCHANGED <<steps, row>>

\* _transition to a terminal state, and the event that reports the ending.
End(t, changed, number) ==
    /\ CanTransition(run.state, t)
    /\ Room(2)
    /\ run' = [changed EXCEPT !.state = t]
    /\ events' = With(With(events, StateChanged(t)), Plain(EndingOf(t), number))
    /\ UNCHANGED <<steps, row>>

\* datetime.replace(second = second + duration): only a second of the minute
\* is accepted, anything else raises ValueError.
LeaseFits(second, duration) == second + duration <= 59

\* What can come of it, with the durations the callers ask for.
LeaseOutcomes == {LeaseFits(s, d) : s \in 0..59, d \in LeaseSeconds}

\* The lease is computed last: when that raises, the run is already running
\* and owned, without an expiry.
Start(w, fits) ==
    Transition("running", [run EXCEPT !.owner = w, !.lease = @ \/ fits])

RequestApproval == Transition("awaiting_approval", run)

\* The same table entry as start, and no lease.
ResumeFromApproval == Transition("running", run)

ScheduleRetry ==
    Transition("retry_scheduled", [run EXCEPT !.attempt = @ + 1])

Requeue == Transition("queued", run)

\* Mutated form: the completion is reported before it is validated.
CompleteReportsFirst ==
    \/ End("succeeded", [run EXCEPT !.output = TRUE], run.spent)
    \/ /\ ~CanTransition(run.state, "succeeded")
       /\ Room(2)
       /\ events' = With(events, Plain("completed", run.spent))
       /\ UNCHANGED <<run, steps, row>>

\* RunCompleted is built from spent_cost.micro_units: a loaded run succeeds
\* and then raises, unreported.
Complete ==
    IF run.money
    THEN End("succeeded", [run EXCEPT !.output = TRUE], run.spent)
    ELSE Transition("succeeded", [run EXCEPT !.output = TRUE])

Fail == End("failed", run, 0)

\* cancel and timeout return early on a terminal run.
Cancel ==
    /\ run.state \notin Terminal
    /\ End("cancelled", [run EXCEPT !.cancel = TRUE], 0)

Timeout ==
    /\ run.state \notin Terminal
    /\ End("timed_out", run, 0)

RenewLease(w, fits) ==
    /\ run.owner = w
    /\ fits
    /\ run' = [run EXCEPT !.lease = TRUE]
    /\ UNCHANGED <<steps, events, row>>

-----------------------------------------------------------------------------
(* Steps and costs.  Neither asks for the state of the run.                *)

\* Mutated form: the number of a finished step may be used again.
AddStepReusesNumbers(n) ==
    /\ Len(steps) < MaxSteps
    /\ \A i \in DOMAIN steps :
          steps[i].sequence = n => steps[i].state \in Terminal
    /\ Room(1)
    /\ steps' = Append(steps, [sequence |-> n, state |-> "queued"])
    /\ events' = With(events, Plain("step", n))
    /\ UNCHANGED <<run, row>>

AddStep(n) ==
    /\ Len(steps) < MaxSteps
    /\ \A i \in DOMAIN steps : steps[i].sequence # n
    /\ Room(1)
    /\ steps' = Append(steps, [sequence |-> n, state |-> "queued"])
    /\ events' = With(events, Plain("step", n))
    /\ UNCHANGED <<run, row>>

StepMoves(i, before, after) ==
    /\ steps[i].state \in before
    /\ steps' = [steps EXCEPT ![i].state = after]
    /\ UNCHANGED <<run, events, row>>

StartStep(i) == StepMoves(i, {"queued"}, "running")

CompleteStep(i) == StepMoves(i, {"running"}, "succeeded")

FailStep(i) == StepMoves(i, {"queued", "running"}, "failed")

RecordCost(c) ==
    /\ run.money
    /\ run.spent + c <= MaxCost
    /\ run' = [run EXCEPT !.spent = @ + c]
    /\ UNCHANGED <<steps, events, row>>

\* Ten micro units per thousand tokens, rounded down call by call.
RecordTokenUsage(tokens) ==
    LET cost == (tokens * 10) \div 1000
    IN  cost > 0 /\ RecordCost(cost)

-----------------------------------------------------------------------------
(* The repository.                                                         *)

\* create and update, and the steps' own rows.  update on a loaded run raises
\* at spent_cost.micro_units, and its session is rolled back.
Store ==
    /\ run.money
    /\ row' = [run |-> run, steps |-> steps]
    /\ UNCHANGED <<run, steps, events>>

\* _to_entity: a new object, whose construction reports a creation again.
Load ==
    /\ row # NoRow
    /\ run' = [row.run EXCEPT !.money = FALSE]
    /\ steps' = row.steps
    /\ events' = <<Plain("created", 0)>>
    /\ UNCHANGED row

Next ==
    \/ \E w \in Workers, fits \in LeaseOutcomes :
          Start(w, fits) \/ RenewLease(w, fits)
    \/ RequestApproval
    \/ ResumeFromApproval
    \/ ScheduleRetry
    \/ Requeue
    \/ Complete
    \/ Fail
    \/ Cancel
    \/ Timeout
    \/ \E n \in StepNumbers : AddStep(n)
    \/ \E i \in DOMAIN steps : StartStep(i) \/ CompleteStep(i) \/ FailStep(i)
    \/ \E c \in Costs : RecordCost(c)
    \/ \E t \in TokenTotals : RecordTokenUsage(t)
    \/ Store
    \/ Load

Spec == Init /\ [][Next]_vars

-----------------------------------------------------------------------------
(* Properties.                                                             *)

IsChange(i) == events[i].kind = "changed"

\* The state changes an object reports form one chain, each starting where
\* the one before it ended, and the last one ends in the present state
\* (_transition): a consumer of the events can replay the run.
EventsTellTheState ==
    /\ \A i, j \in DOMAIN events :
          /\ i < j /\ IsChange(i) /\ IsChange(j)
          /\ \A k \in (i + 1)..(j - 1) : ~IsChange(k)
          => events[i].to = events[j].from
    /\ \A i \in DOMAIN events :
          (IsChange(i) /\ \A k \in (i + 1)..Len(events) : ~IsChange(k))
             => events[i].to = run.state

\* A run reports at most one ending, the one of the state it is in, and an
\* object that ended while its cost is a Money has reported it (complete,
\* fail, cancel, timeout, whose two calls must not be separated).
EndingsMatchTheState ==
    /\ \A i, j \in DOMAIN events :
          events[i].kind \in Endings /\ events[j].kind \in Endings => i = j
    /\ \A i \in DOMAIN events : events[i].kind \in Endings
          => run.state \in Terminal /\ events[i].kind = EndingOf(run.state)
    /\ run.state \in Terminal /\ run.money
          => \E i \in DOMAIN events : events[i].kind \in Endings

\* The attempt number counts exactly the retries the object reported, on top
\* of what the row held when it was loaded (schedule_retry).
RetriesCounted ==
    run.attempt =
        (IF run.money THEN 0 ELSE row.run.attempt)
          + Cardinality({i \in DOMAIN events :
                            events[i].to = "retry_scheduled"})

\* The reported events tell the run: whoever replays them arrives at its state
\* and at its number of attempts, whatever failed half way in between.
EventsTellTheRun == TypeOK /\ EventsTellTheState /\ RetriesCounted

\* Steps keep their limit and distinct numbers, and every reported step is one
\* of them, reported once, whatever was stored and loaded meanwhile
\* (add_step).
StepsAreAccountable ==
    /\ Len(steps) <= MaxSteps
    /\ \A i, j \in DOMAIN steps :
          steps[i].sequence = steps[j].sequence => i = j
    /\ \A i, j \in DOMAIN events :
          (events[i].kind = "step" /\ events[j].kind = "step"
             /\ events[i].number = events[j].number) => i = j
    /\ \A i \in DOMAIN events : events[i].kind = "step"
          => \E j \in DOMAIN steps : steps[j].sequence = events[i].number

\* No method of the object moves a finished run to another state, retries it,
\* changes its output or marks it cancelled, and no method moves a finished
\* step (_transition, RunStep.start, complete and fail).
EndsAreFinal ==
    [][~Load =>
         /\ run.state \in Terminal
              => /\ run'.state = run.state
                 /\ run'.attempt = run.attempt
                 /\ run'.output = run.output
                 /\ run'.cancel = run.cancel
         /\ \A i \in DOMAIN steps : steps[i].state \in Terminal
              => i \in DOMAIN steps' /\ steps'[i] = steps[i]]_vars
=============================================================================
