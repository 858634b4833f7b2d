------------------------------ MODULE Approvals ------------------------------
(***************************************************************************)
(* Human approval of one tool call: the ApprovalRequest entity             *)
(* (app/domain/entities/approval_request.py), ApprovalCoordinator          *)
(* (app/domain/services/approval_coordinator.py), the endpoints of         *)
(* app/api/v1/approvals/router.py and SQLApprovalRepository                *)
(* (app/infrastructure/db/repositories/security.py).                       *)
(*                                                                         *)
(* Every response runs in a session of its own: it reads the row, decides  *)
(* on the entity it built, reads the row again (update), writes the        *)
(* columns that differ from that second reading, notifies and commits.     *)
(* The write takes the row's lock until the end of the transaction, and    *)
(* other sessions see it then (READ COMMITTED).  The commit is the         *)
(* caller's: nothing in the repository or the coordinator issues it.       *)
(***************************************************************************)
EXTENDS Integers, FiniteSets

CONSTANTS
    Responders,     \* the responses that may arrive, each by its own user
    None            \* Python's None, and no row

VARIABLES
    row,        \* the committed row of approval_requests
    created,    \* request_approval: "no", "flushed", "committed"
    expired,    \* expires_at has passed
    lock,       \* the response whose uncommitted write holds the row
    resp        \* per response, its progress

vars == <<row, created, expired, lock, resp>>

ApprovalState == {"pending", "approved", "denied", "expired", "cancelled"}

Reason == {"none", "denied", "cancelled"}

\* The columns a decision sets; approved_at, response_data go with by.
Request == [state : ApprovalState, by : Responders \cup {None}, reason : Reason]

Kind == {"approve", "deny", "cancel"}

ASSUME ApprovalsAssumption == None \notin Responders \cup Request \cup Kind

\* entity: the ApprovalRequest it decided on; base: the row update() read;
\* timely: expires_at had not passed when it decided.
Response == [pc : {"new", "select", "flush", "notify", "accepted", "refused", "failed"},
             kind : Kind \cup {None}, timely : BOOLEAN,
             entity : Request \cup {None}, base : Request \cup {None}]

TypeOK ==
    /\ row \in Request \cup {None}
    /\ created \in {"no", "flushed", "committed"}
    /\ expired \in BOOLEAN
    /\ lock \in Responders \cup {None}
    /\ resp \in [Responders -> Response]

NewRequest == [state |-> "pending", by |-> None, reason |-> "none"]

Init ==
    /\ row = None
    /\ created = "no"
    /\ expired = FALSE
    /\ lock = None
    /\ resp = [p \in Responders |-> [pc |-> "new", kind |-> None, timely |-> FALSE,
                                     entity |-> None, base |-> None]]

-----------------------------------------------------------------------------
(* request_approval: the row is flushed, the approvers are told, and only  *)
(* then does the caller commit.                                            *)

RequestApproval ==
    /\ created = "no"
    /\ created' = "flushed"
    /\ UNCHANGED <<row, expired, lock, resp>>

RequestCommitted ==
    /\ created = "flushed"
    /\ created' = "committed"
    /\ row' = NewRequest
    /\ UNCHANGED <<expired, lock, resp>>

-----------------------------------------------------------------------------
(* The entity.                                                             *)

\* Mutated form: an expired request can still be approved.
CanApproveLate(e, late) == e.state = "pending"

CanApprove(e, late) == e.state = "pending" /\ ~late

\* deny() does not ask whether the request has expired.
CanDeny(e) == e.state = "pending"

\* cancel() leaves a request alone that is neither pending nor approved.
Cancelled(e) ==
    IF e.state \in {"pending", "approved"}
    THEN [e EXCEPT !.state = "cancelled", !.reason = "cancelled"]
    ELSE e

Goto(p, pc) == resp' = [resp EXCEPT ![p].pc = pc]

\* The decision is made on the entity just read, without suspending.
DecideOn(p, kind, e) ==
    resp' = [resp EXCEPT ![p].pc = "select", ![p].kind = kind,
                         ![p].timely = ~expired, ![p].entity = e]

\* repo.get found no committed row: "Approval request not found".
NotFound(p) ==
    /\ resp[p].pc = "new"
    /\ created = "flushed"
    /\ Goto(p, "refused")
    /\ UNCHANGED <<row, created, expired, lock>>

Approve(p) ==
    /\ resp[p].pc = "new"
    /\ row # None
    /\ IF CanApprove(row, expired)
       THEN DecideOn(p, "approve", [row EXCEPT !.state = "approved", !.by = p])
       ELSE Goto(p, "refused")
    /\ UNCHANGED <<row, created, expired, lock>>

Deny(p) ==
    /\ resp[p].pc = "new"
    /\ row # None
    /\ IF CanDeny(row)
       THEN DecideOn(p, "deny", [state |-> "denied", by |-> p, reason |-> "denied"])
       ELSE Goto(p, "refused")
    /\ UNCHANGED <<row, created, expired, lock>>

\* The endpoint updates the row whether or not cancel() changed the entity.
Cancel(p) ==
    /\ resp[p].pc = "new"
    /\ row # None
    /\ DecideOn(p, "cancel", Cancelled(row))
    /\ UNCHANGED <<row, created, expired, lock>>

-----------------------------------------------------------------------------
(* SQLApprovalRepository.update, notification and the end of the           *)
(* transaction.                                                            *)

Select(p) ==
    /\ resp[p].pc = "select"
    /\ resp' = [resp EXCEPT ![p].pc = "flush", ![p].base = row]
    /\ UNCHANGED <<row, created, expired, lock>>

\* UPDATE waits for the row lock.
Flush(p) ==
    /\ resp[p].pc = "flush"
    /\ lock = None
    /\ lock' = p
    /\ Goto(p, "notify")
    /\ UNCHANGED <<row, created, expired>>

\* What the UPDATE leaves in the row r: only columns whose value differs from
\* the row update() selected are written.
Written(r, entity, base) ==
    [state  |-> IF entity.state  # base.state  THEN entity.state  ELSE r.state,
     by     |-> IF entity.by     # base.by     THEN entity.by     ELSE r.by,
     reason |-> IF entity.reason # base.reason THEN entity.reason ELSE r.reason]

\* The approver is notified, the caller commits.
Commit(p) ==
    /\ resp[p].pc = "notify"
    /\ row' = Written(row, resp[p].entity, resp[p].base)
    /\ lock' = None
    /\ Goto(p, "accepted")
    /\ UNCHANGED <<created, expired>>

\* The notification raises, the commit fails or the process dies.
Rollback(p) ==
    /\ resp[p].pc = "notify"
    /\ lock' = None
    /\ Goto(p, "failed")
    /\ UNCHANGED <<row, created, expired>>

-----------------------------------------------------------------------------
(* Expiry.                                                                 *)

TimePasses ==
    /\ ~expired
    /\ row # None
    /\ expired' = TRUE
    /\ UNCHANGED <<row, created, lock, resp>>

\* One UPDATE ... WHERE state = 'pending' AND expires_at < now().
ExpireOld ==
    /\ lock = None
    /\ row # None
    /\ row.state = "pending"
    /\ expired
    /\ row' = [row EXCEPT !.state = "expired"]
    /\ UNCHANGED <<created, expired, lock, resp>>

RespondTo(p) ==
    \/ NotFound(p)
    \/ Approve(p)
    \/ Deny(p)
    \/ Cancel(p)
    \/ Select(p)
    \/ Flush(p)
    \/ Commit(p)
    \/ Rollback(p)

Next ==
    \/ RequestApproval
    \/ RequestCommitted
    \/ \E p \in Responders : RespondTo(p)
    \/ TimePasses
    \/ ExpireOld

Spec == Init /\ [][Next]_vars

-----------------------------------------------------------------------------
(* Properties.                                                             *)

\* A row says "approved" only if some response approved the request while it
\* was pending and before it expired, and was committed: neither the columns
\* of overlapping responses nor a stale cancel() can make up an approval
\* (approve, update_from_entity).
ApprovalHasApprover ==
    (row # None /\ row.state = "approved")
        => \E p \in Responders :
              resp[p].kind = "approve" /\ resp[p].timely /\ resp[p].pc = "accepted"

\* In every state of the row and of the responses, an approval was given.
ApprovalsGiven == TypeOK /\ ApprovalHasApprover

\* A request that was decided, expired or cancelled never becomes pending
\* again, although a response writes back an entity it read earlier.
NeverPendingAgain ==
    [][(row # None /\ row.state # "pending") => row'.state # "pending"]_vars
=============================================================================
