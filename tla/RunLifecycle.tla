----------------------------- MODULE RunLifecycle -----------------------------
(***************************************************************************)
(* What the system promises about one stored run, whoever works on it, and *)
(* with no entities, calls, workers or signals (app/domain/entities/run.py *)
(* and app/domain/value_objects/state.py, kept in runs and run_steps):     *)
(*   - a run that ended stays as it ended, and is asked to stop no more;   *)
(*   - its cost only grows, and never beyond its limit;                    *)
(*   - its steps run one after the other, each once: a step begins when    *)
(*     all before it have finished, while the run is running or was ended  *)
(*     under its worker;                                                   *)
(*   - a run is only started, suspended and failed along its transitions.  *)
(* A write of columns its caller never saw tears the run: from then on it  *)
(* may be in any state, and a step of it may be done again.  Where no row  *)
(* can be written, only new runs appear.                                   *)
(***************************************************************************)
EXTENDS RunStates, Integers

CONSTANT Limit      \* Run.max_cost

VARIABLES
    stored,     \* the run has a row
    state,
    cancel,     \* its cancellation was requested
    spent,
    steps,      \* the states of its steps, in their order
    torn,       \* it was overwritten
    readOnly    \* no row can be written back

runVars == <<stored, state, cancel, spent, steps, torn, readOnly>>

LifecycleInit ==
    /\ state = "queued" /\ ~cancel /\ spent = 0 /\ ~torn
    /\ \A i \in DOMAIN steps : steps[i] = "queued"

Create ==
    /\ ~stored /\ stored'
    /\ steps = <<>>
    /\ UNCHANGED <<state, cancel, spent, steps, torn, readOnly>>

Open == stored /\ ~readOnly /\ state \notin Terminal

Move(t) ==
    /\ Open
    /\ state' = t
    /\ UNCHANGED <<stored, spent, steps, torn, readOnly>>

Start == CanTransition(state, "running") /\ Move("running") /\ UNCHANGED cancel

AwaitApproval == state = "running" /\ Move("awaiting_approval") /\ UNCHANGED cancel

\* A worker fails a run it could not start, too.
Fail == Move("failed") /\ UNCHANGED cancel

Cancel == Move("cancelled") /\ cancel'

RequestCancellation == Move(state) /\ cancel'

\* Work that is done is paid for, also after the run has ended.
Charge ==
    /\ stored /\ ~readOnly
    /\ spent' \in spent..Limit
    /\ UNCHANGED <<stored, state, cancel, steps, torn, readOnly>>

\* A step of the run in another state.
StepTo(i, t) ==
    /\ stored /\ ~readOnly
    /\ steps' = [steps EXCEPT ![i] = t]
    /\ UNCHANGED <<stored, state, cancel, spent, torn, readOnly>>

Done(j) == steps[j] \in {"succeeded", "failed"}

BeginStep(i) ==
    /\ state \in {"running"} \cup Terminal
    /\ steps[i] = "queued" /\ \A j \in 1..(i - 1) : Done(j)
    /\ StepTo(i, "running")

EndStep(i) ==
    /\ steps[i] = "running"
    /\ \E t \in {"succeeded", "failed"} : StepTo(i, t)

Overwrite ==
    /\ stored /\ ~readOnly /\ torn'
    /\ state' \in RunState /\ cancel' \in BOOLEAN /\ spent' \in 0..Limit
    /\ UNCHANGED <<stored, steps, readOnly>>

RepeatStep(i) == torn /\ \E t \in {"running", "succeeded", "failed"} : StepTo(i, t)

LifecycleNext ==
    \/ Create \/ Start \/ AwaitApproval \/ Fail \/ Cancel \/ RequestCancellation \/ Charge
    \/ \E i \in DOMAIN steps : BeginStep(i) \/ EndStep(i) \/ RepeatStep(i)
    \/ Overwrite

LifecycleSpec == LifecycleInit /\ [][LifecycleNext]_runVars
=============================================================================
