------------------------------ MODULE RunStates ------------------------------
(***************************************************************************)
(* The states of a run and of its steps                                    *)
(* (app/domain/value_objects/state.py), shared by the aggregate itself     *)
(* (Run) and by the services that act on a stored run (RunControl).        *)
(***************************************************************************)

RunState ==
    {"queued", "running", "awaiting_approval", "retry_scheduled",
     "succeeded", "failed", "cancelled", "timed_out"}

Terminal == {"succeeded", "failed", "cancelled", "timed_out"}

\* Mutated form: a failed run may be scheduled again.
CanTransitionFromFailed(s, t) ==
    \/ s = "queued" /\ t \in {"running", "cancelled", "timed_out"}
    \/ s = "running" /\ t \in RunState \ {"queued", "running"}
    \/ s = "awaiting_approval"
         /\ t \in {"running", "failed", "cancelled", "timed_out"}
    \/ s \in {"retry_scheduled", "failed"}
         /\ t \in {"queued", "running", "cancelled", "timed_out"}

\* can_transition_to.
CanTransition(s, t) ==
    \/ s = "queued" /\ t \in {"running", "cancelled", "timed_out"}
    \/ s = "running" /\ t \in RunState \ {"queued", "running"}
    \/ s = "awaiting_approval"
         /\ t \in {"running", "failed", "cancelled", "timed_out"}
    \/ s = "retry_scheduled"
         /\ t \in {"queued", "running", "cancelled", "timed_out"}
=============================================================================
