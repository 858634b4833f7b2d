------------------------ MODULE ApprovalAndLimitProofs ------------------------
(***************************************************************************)
(* What holds a run back.  Theorems about Approvals, for any number of     *)
(* overlapping responses: its type invariant, that every approval recorded *)
(* was given in time, and that a request never becomes pending again; about*)
(* BudgetCache, for any keys, limits and calls: what a cached budget counts*)
(* and shows; about RateLimits, for any requests, runs and limits: how many*)
(* pass, and what the counters count; and about ToolCalls, for any policies*)
(* and windows: which rule decides, and how many calls pass.               *)
(***************************************************************************)
EXTENDS Approvals, BudgetCache, RateLimits, ToolCalls, FiniteSetTheorems, TLAPS

-----------------------------------------------------------------------------
(* Approvals.                                                              *)

\* p approved the request in time and was committed.
Approver(p) ==
    resp[p].kind = "approve" /\ resp[p].timely /\ resp[p].pc = "accepted"

\* What is known of one response r while its transaction is open.
OpenResponse(r) ==
    /\ r.pc \in {"select", "flush", "notify"}
         => /\ r.entity \in Request
            /\ r.entity.state # "pending"
            /\ r.entity.state = "approved" => r.kind = "approve" /\ r.timely
    /\ r.pc \in {"flush", "notify"} => r.base \in Request

\* The row exists once its creation was committed, and no response is past
\* reading it before.
RowExists ==
    /\ created = "committed" <=> row # None
    /\ \A p \in Responders : resp[p].pc \notin {"new", "refused"} => row # None

IInv ==
    /\ TypeOK
    /\ RowExists
    /\ \A p \in Responders : OpenResponse(resp[p])
    /\ ApprovalHasApprover

\* A response that decides: its record afterwards.
LEMMA DecideOnStep ==
    ASSUME TypeOK, NEW p \in Responders, NEW kind \in Kind, NEW e \in Request,
           DecideOn(p, kind, e)
    PROVE  /\ resp' \in [Responders -> Response]
           /\ \A q \in Responders \ {p} : resp'[q] = resp[q]
           /\ resp'[p].pc = "select" /\ resp'[p].kind = kind
           /\ resp'[p].timely = ~expired /\ resp'[p].entity = e
  <1> DEFINE r == [resp[p] EXCEPT !.pc = "select", !.kind = kind,
                                  !.timely = ~expired, !.entity = e]
  <1>1. resp[p] \in Response /\ resp \in [Responders -> Response]
    BY DEF TypeOK
  <1>2. expired \in BOOLEAN
    BY DEF TypeOK
  <1>3. r \in Response
    BY <1>1, <1>2 DEF Response, Kind
  <1>4. resp' = [resp EXCEPT ![p] = r]
    BY <1>1 DEF DecideOn
  <1>5. r.pc = "select" /\ r.kind = kind /\ r.timely = ~expired /\ r.entity = e
    BY <1>1 DEF Response
  <1> HIDE DEF r
  <1> QED
    BY <1>1, <1>3, <1>4, <1>5

\* A response that only moves on keeps everything else in its record.
LEMMA GotoStep ==
    ASSUME TypeOK, NEW p \in Responders,
           NEW pc \in {"flush", "notify", "accepted", "refused", "failed"},
           Goto(p, pc)
    PROVE  /\ resp' \in [Responders -> Response]
           /\ \A q \in Responders \ {p} : resp'[q] = resp[q]
           /\ resp'[p].pc = pc /\ resp'[p].kind = resp[p].kind
           /\ resp'[p].timely = resp[p].timely
           /\ resp'[p].entity = resp[p].entity /\ resp'[p].base = resp[p].base
  <1> DEFINE r == [resp[p] EXCEPT !.pc = pc]
  <1>1. resp[p] \in Response /\ resp \in [Responders -> Response]
    BY DEF TypeOK
  <1>2. r \in Response
    BY <1>1 DEF Response
  <1>3. resp' = [resp EXCEPT ![p] = r]
    BY <1>1 DEF Goto
  <1>4. /\ r.pc = pc /\ r.kind = resp[p].kind /\ r.timely = resp[p].timely
        /\ r.entity = resp[p].entity /\ r.base = resp[p].base
    BY <1>1 DEF Response
  <1> HIDE DEF r
  <1> QED
    BY <1>1, <1>2, <1>3, <1>4

\* A response that reads the row again.
LEMMA SelectStep ==
    ASSUME TypeOK, NEW p \in Responders, Select(p)
    PROVE  /\ resp' \in [Responders -> Response]
           /\ \A q \in Responders \ {p} : resp'[q] = resp[q]
           /\ resp'[p].pc = "flush" /\ resp'[p].kind = resp[p].kind
           /\ resp'[p].timely = resp[p].timely
           /\ resp'[p].entity = resp[p].entity /\ resp'[p].base = row
  <1> DEFINE r == [resp[p] EXCEPT !.pc = "flush", !.base = row]
  <1>1. resp[p] \in Response /\ resp \in [Responders -> Response]
    BY DEF TypeOK
  <1>2. row \in Request \cup {None}
    BY DEF TypeOK
  <1>3. r \in Response
    BY <1>1, <1>2 DEF Response
  <1>4. resp' = [resp EXCEPT ![p] = r]
    BY <1>1 DEF Select
  <1>5. /\ r.pc = "flush" /\ r.kind = resp[p].kind /\ r.timely = resp[p].timely
        /\ r.entity = resp[p].entity /\ r.base = row
    BY <1>1 DEF Response
  <1> HIDE DEF r
  <1> QED
    BY <1>1, <1>3, <1>4, <1>5

\* The row an UPDATE leaves behind is a request; its state is the old one or
\* that of the entity.
LEMMA WrittenRow ==
    ASSUME NEW r \in Request, NEW e \in Request, NEW b \in Request
    PROVE  /\ Written(r, e, b) \in Request
           /\ Written(r, e, b).state \in {r.state, e.state}
  <1> DEFINE w == Written(r, e, b)
  <1>1. w.state \in {r.state, e.state} /\ w.by \in {r.by, e.by}
        /\ w.reason \in {r.reason, e.reason}
    BY DEF Written
  <1>2. w.state \in ApprovalState /\ w.by \in Responders \cup {None} /\ w.reason \in Reason
    BY <1>1 DEF Request
  <1>3. w = [state |-> w.state, by |-> w.by, reason |-> w.reason]
    BY DEF Written
  <1> QED
    BY <1>1, <1>2, <1>3 DEF Request

\* One response p moves and the row stays: IInv is kept if p's own record is
\* in order and p was no committed approver.
LEMMA ResponseStep ==
    ASSUME IInv, NEW p \in Responders,
           UNCHANGED <<row, created, expired>>,
           lock' \in Responders \cup {None},
           resp' \in [Responders -> Response],
           \A q \in Responders \ {p} : resp'[q] = resp[q],
           resp'[p].pc \notin {"new", "refused"} => row # None,
           resp[p].pc # "accepted",
           OpenResponse(resp'[p])
    PROVE  IInv'
  <1>1. TypeOK'
    BY DEF IInv, TypeOK
  <1>2. RowExists'
    BY DEF IInv, RowExists
  <1>3. \A q \in Responders : OpenResponse(resp'[q])
    BY DEF IInv
  <1>4. ApprovalHasApprover'
    <2> SUFFICES ASSUME row # None, row.state = "approved"
                 PROVE  \E q \in Responders :
                          resp'[q].kind = "approve" /\ resp'[q].timely
                            /\ resp'[q].pc = "accepted"
      BY DEF ApprovalHasApprover
    <2>1. PICK q \in Responders : Approver(q)
      BY DEF IInv, ApprovalHasApprover, Approver
    <2>2. q # p
      BY <2>1 DEF Approver
    <2> QED
      BY <2>1, <2>2 DEF Approver
  <1>5. (\A q \in Responders : OpenResponse(resp[q]))'
    BY <1>3 DEF OpenResponse
  <1> QED
    BY <1>1, <1>2, <1>4, <1>5 DEF IInv

\* The initial state satisfies the inductive invariant.
LEMMA InitIInv == Init => IInv
  <1> SUFFICES ASSUME Init PROVE IInv
    OBVIOUS
  <1>1. \A p \in Responders : resp[p].pc = "new"
    BY DEF Init
  <1>2. TypeOK
    BY DEF Init, TypeOK, Response
  <1> QED
    BY <1>1, <1>2 DEF IInv, RowExists, OpenResponse, ApprovalHasApprover, Init

\* Creating the request, time and expiry leave the responses alone.
LEMMA RowStep ==
    ASSUME IInv,
           RequestApproval \/ RequestCommitted \/ TimePasses \/ ExpireOld
    PROVE  IInv'
  <1>1. UNCHANGED <<resp, lock>>
    BY DEF RequestApproval, RequestCommitted, TimePasses, ExpireOld
  <1>2. /\ row' \in Request \cup {None}
        /\ row # None => row' # None
        /\ created' = "committed" <=> row' # None
        /\ (row' # None /\ row'.state = "approved") => row' = row
    <2>1. CASE RequestCommitted
      <3>1. NewRequest \in Request /\ NewRequest.state = "pending"
        BY DEF NewRequest, Request, ApprovalState, Reason
      <3> QED
        BY <2>1, <3>1, ApprovalsAssumption DEF RequestCommitted
    <2>2. CASE ExpireOld
      <3>1. row \in Request
        BY <2>2 DEF ExpireOld, IInv, TypeOK
      <3>2. row' \in Request /\ row'.state = "expired"
        BY <3>1, <2>2 DEF ExpireOld, Request, ApprovalState
      <3> QED
        BY <2>2, <3>2, ApprovalsAssumption DEF ExpireOld, IInv, RowExists
    <2>3. CASE RequestApproval \/ TimePasses
      BY <2>3 DEF RequestApproval, TimePasses, IInv, TypeOK, RowExists
    <2> QED
      BY <2>1, <2>2, <2>3
  <1>3. TypeOK'
    <2>1. created' \in {"no", "flushed", "committed"}
      BY DEF RequestApproval, RequestCommitted, TimePasses, ExpireOld, IInv, TypeOK
    <2>2. expired' \in BOOLEAN
      BY DEF RequestApproval, RequestCommitted, TimePasses, ExpireOld, IInv, TypeOK
    <2> QED
      BY <1>1, <1>2, <2>1, <2>2 DEF IInv, TypeOK
  <1>4. RowExists'
    BY <1>1, <1>2 DEF IInv, RowExists
  <1>5. (\A p \in Responders : OpenResponse(resp[p]))'
    BY <1>1 DEF IInv, OpenResponse
  <1>6. ApprovalHasApprover'
    BY <1>1, <1>2 DEF IInv, ApprovalHasApprover
  <1> QED
    BY <1>3, <1>4, <1>5, <1>6 DEF IInv

\* A response that decides on the row it read (Approve, Deny, Cancel).
LEMMA DecisionStep ==
    ASSUME IInv, NEW p \in Responders,
           row # None, resp[p].pc = "new",
           NEW kind \in Kind, NEW e \in Request, e.state # "pending",
           e.state = "approved" => kind = "approve" /\ ~expired,
           DecideOn(p, kind, e),
           UNCHANGED <<row, created, expired, lock>>
    PROVE  IInv'
  <1>1. TypeOK
    BY DEF IInv
  <1>2. /\ resp' \in [Responders -> Response]
        /\ \A q \in Responders \ {p} : resp'[q] = resp[q]
        /\ resp'[p].pc = "select" /\ resp'[p].kind = kind
        /\ resp'[p].timely = ~expired /\ resp'[p].entity = e
    BY <1>1, DecideOnStep
  <1>3. OpenResponse(resp'[p])
    BY <1>2 DEF OpenResponse
  <1> QED
    BY <1>1, <1>2, <1>3, ResponseStep DEF TypeOK

\* A response that is refused before it decides.
LEMMA RefusedStep ==
    ASSUME IInv, NEW p \in Responders, resp[p].pc = "new", Goto(p, "refused"),
           UNCHANGED <<row, created, expired, lock>>
    PROVE  IInv'
  <1>1. TypeOK
    BY DEF IInv
  <1>2. /\ resp' \in [Responders -> Response]
        /\ \A q \in Responders \ {p} : resp'[q] = resp[q]
        /\ resp'[p].pc = "refused"
    BY <1>1, GotoStep
  <1>3. OpenResponse(resp'[p])
    BY <1>2 DEF OpenResponse
  <1> QED
    BY <1>1, <1>2, <1>3, ResponseStep DEF TypeOK

\* Every step of one response.
LEMMA RespondStep ==
    ASSUME IInv, NEW p \in Responders, RespondTo(p)
    PROVE  IInv'
  <1>1. TypeOK /\ RowExists /\ OpenResponse(resp[p])
    BY DEF IInv
  <1>2. row # None => row \in Request
    BY <1>1 DEF TypeOK
  <1>3. "approve" \in Kind /\ "deny" \in Kind /\ "cancel" \in Kind
    BY DEF Kind
  <1>4. CASE NotFound(p)
    BY <1>4, RefusedStep DEF NotFound
  <1>5. CASE Approve(p)
    <2>1. CASE CanApprove(row, expired)
      <3> DEFINE e == [row EXCEPT !.state = "approved", !.by = p]
      <3>1. e \in Request /\ e.state = "approved"
        BY <1>2, <1>5 DEF Approve, Request, ApprovalState
      <3>2. DecideOn(p, "approve", e) /\ ~expired
        BY <1>5, <2>1 DEF Approve, CanApprove
      <3> HIDE DEF e
      <3> QED
        BY <1>3, <1>5, <3>1, <3>2, DecisionStep DEF Approve
    <2>2. CASE ~CanApprove(row, expired)
      BY <1>5, <2>2, RefusedStep DEF Approve
    <2> QED
      BY <2>1, <2>2
  <1>6. CASE Deny(p)
    <2>1. CASE CanDeny(row)
      <3> DEFINE e == [state |-> "denied", by |-> p, reason |-> "denied"]
      <3>1. e \in Request /\ e.state = "denied"
        BY DEF Request, ApprovalState, Reason
      <3>2. DecideOn(p, "deny", e)
        BY <1>6, <2>1 DEF Deny
      <3> HIDE DEF e
      <3> QED
        BY <1>3, <1>6, <3>1, <3>2, DecisionStep DEF Deny
    <2>2. CASE ~CanDeny(row)
      BY <1>6, <2>2, RefusedStep DEF Deny
    <2> QED
      BY <2>1, <2>2
  <1>7. CASE Cancel(p)
    <2> DEFINE e == Cancelled(row)
    <2>1. row \in Request
      BY <1>2, <1>7 DEF Cancel
    <2>2. e \in Request /\ e.state \notin {"pending", "approved"}
      BY <2>1 DEF Cancelled, Request, ApprovalState, Reason
    <2>3. DecideOn(p, "cancel", e)
      BY <1>7 DEF Cancel
    <2> HIDE DEF e
    <2> QED
      BY <1>3, <1>7, <2>2, <2>3, DecisionStep DEF Cancel
  <1>8. CASE Select(p)
    <2>1. row # None
      BY <1>1, <1>8 DEF Select, RowExists
    <2>2. /\ resp' \in [Responders -> Response]
          /\ \A q \in Responders \ {p} : resp'[q] = resp[q]
          /\ resp'[p].pc = "flush" /\ resp'[p].kind = resp[p].kind
          /\ resp'[p].timely = resp[p].timely
          /\ resp'[p].entity = resp[p].entity /\ resp'[p].base = row
      BY <1>1, <1>8, SelectStep
    <2>3. OpenResponse(resp'[p])
      BY <1>1, <1>2, <1>8, <2>1, <2>2 DEF OpenResponse, Select
    <2> QED
      BY <1>1, <1>8, <2>1, <2>2, <2>3, ResponseStep DEF Select, TypeOK
  <1>9. CASE Flush(p)
    <2>1. row # None
      BY <1>1, <1>9 DEF Flush, RowExists
    <2>2. /\ resp' \in [Responders -> Response]
          /\ \A q \in Responders \ {p} : resp'[q] = resp[q]
          /\ resp'[p].pc = "notify" /\ resp'[p].kind = resp[p].kind
          /\ resp'[p].timely = resp[p].timely
          /\ resp'[p].entity = resp[p].entity /\ resp'[p].base = resp[p].base
      BY <1>1, <1>9, GotoStep DEF Flush
    <2>3. OpenResponse(resp'[p])
      BY <1>1, <1>9, <2>2 DEF OpenResponse, Flush
    <2> QED
      BY <1>1, <1>9, <2>1, <2>2, <2>3, ResponseStep DEF Flush
  <1>10. CASE Rollback(p)
    <2>1. row # None
      BY <1>1, <1>10 DEF Rollback, RowExists
    <2>2. /\ resp' \in [Responders -> Response]
          /\ \A q \in Responders \ {p} : resp'[q] = resp[q]
          /\ resp'[p].pc = "failed"
      BY <1>1, <1>10, GotoStep DEF Rollback
    <2>3. OpenResponse(resp'[p])
      BY <2>2 DEF OpenResponse
    <2> QED
      BY <1>1, <1>10, <2>1, <2>2, <2>3, ResponseStep DEF Rollback
  <1>11. CASE Commit(p)
    <2>1. row \in Request /\ row # None
      BY <1>1, <1>2, <1>11 DEF Commit, RowExists
    <2>2. /\ resp' \in [Responders -> Response]
          /\ \A q \in Responders \ {p} : resp'[q] = resp[q]
          /\ resp'[p].pc = "accepted" /\ resp'[p].kind = resp[p].kind
          /\ resp'[p].timely = resp[p].timely
      BY <1>1, <1>11, GotoStep DEF Commit
    <2>3. /\ row' \in Request
          /\ row'.state \in {row.state, resp[p].entity.state}
      BY <1>1, <1>11, <2>1, WrittenRow DEF Commit, OpenResponse
    <2>4. row' # None
      BY <2>3, ApprovalsAssumption
    <2>5. TypeOK'
      BY <1>1, <1>11, <2>2, <2>3 DEF Commit, TypeOK
    <2>6. RowExists'
      BY <1>1, <1>11, <2>1, <2>4 DEF Commit, RowExists
    <2>7. (\A q \in Responders : OpenResponse(resp[q]))'
      BY <2>2 DEF IInv, OpenResponse
    <2>8. ApprovalHasApprover'
      <3> SUFFICES ASSUME row'.state = "approved"
                   PROVE  \E q \in Responders :
                            resp'[q].kind = "approve" /\ resp'[q].timely
                              /\ resp'[q].pc = "accepted"
        BY DEF ApprovalHasApprover
      <3>1. CASE resp[p].entity.state = "approved"
        BY <1>1, <1>11, <2>2, <3>1 DEF OpenResponse, Commit
      <3>2. CASE row.state = "approved"
        <4>1. PICK q \in Responders : Approver(q)
          BY <2>1, <3>2 DEF IInv, ApprovalHasApprover, Approver
        <4>2. q # p
          BY <1>11, <4>1 DEF Approver, Commit
        <4> QED
          BY <2>2, <4>1, <4>2 DEF Approver
      <3> QED
        BY <2>3, <3>1, <3>2
    <2> QED
      BY <2>5, <2>6, <2>7, <2>8 DEF IInv
  <1> QED
    BY <1>4, <1>5, <1>6, <1>7, <1>8, <1>9, <1>10, <1>11 DEF RespondTo

\* The inductive invariant holds in every reachable state.
LEMMA IInvHolds == Spec => []IInv
  <1>1. Init => IInv
    BY InitIInv
  <1>2. IInv /\ [Next]_vars => IInv'
    <2> SUFFICES ASSUME IInv, [Next]_vars PROVE IInv'
      OBVIOUS
    <2>1. CASE RequestApproval \/ RequestCommitted \/ TimePasses \/ ExpireOld
      BY <2>1, RowStep
    <2>2. CASE \E p \in Responders : RespondTo(p)
      BY <2>2, RespondStep
    <2>3. CASE UNCHANGED vars
      BY <2>3 DEF vars, IInv, TypeOK, RowExists, OpenResponse, ApprovalHasApprover
    <2> QED
      BY <2>1, <2>2, <2>3 DEF Next
  <1> QED
    BY <1>1, <1>2, PTL DEF Spec

\* The row, the lock and every response keep their types.
THEOREM TypeCorrect == Spec => []TypeOK
  <1>1. IInv => TypeOK
    BY DEF IInv
  <1> QED
    BY <1>1, IInvHolds, PTL

\* However many responses overlap, an approval in the row was given by
\* somebody while the request was pending and unexpired (approve).
THEOREM ApprovalsAreGiven == Spec => []ApprovalHasApprover
  <1>1. IInv => ApprovalHasApprover
    BY DEF IInv
  <1> QED
    BY <1>1, IInvHolds, PTL

\* No stale entity puts a request back among the pending ones (cancel,
\* update_from_entity).
THEOREM PendingIsLeftForGood == Spec => NeverPendingAgain
  <1>1. IInv /\ [Next]_vars =>
          [(row # None /\ row.state # "pending") => row'.state # "pending"]_vars
    <2> SUFFICES ASSUME IInv, Next, row # None, row.state # "pending"
                 PROVE  row'.state # "pending"
      OBVIOUS
    <2>1. CASE RequestApproval \/ TimePasses
      BY <2>1 DEF RequestApproval, TimePasses
    <2>2. CASE RequestCommitted
      BY <2>2 DEF RequestCommitted, IInv, RowExists
    <2>3. CASE ExpireOld
      BY <2>3 DEF ExpireOld
    <2>4. ASSUME NEW p \in Responders, RespondTo(p)
          PROVE  row'.state # "pending"
      <3>1. CASE Commit(p)
        <4>1. OpenResponse(resp[p]) /\ resp[p].pc = "notify" /\ row \in Request
          BY <3>1 DEF Commit, IInv, TypeOK
        <4>2. row'.state \in {row.state, resp[p].entity.state}
          BY <3>1, <4>1, WrittenRow DEF Commit, OpenResponse
        <4> QED
          BY <4>1, <4>2 DEF OpenResponse
      <3>2. CASE ~Commit(p)
        BY <2>4, <3>2 DEF RespondTo, NotFound, Approve, Deny, Cancel, Select, Flush, Rollback
      <3> QED
        BY <3>1, <3>2
    <2> QED
      BY <2>1, <2>2, <2>3, <2>4 DEF Next
  <1> QED
    BY <1>1, IInvHolds, PTL DEF Spec, NeverPendingAgain

-----------------------------------------------------------------------------
\* In every state an approval in the row was given (approve, update_from_entity).
THEOREM ApprovalsStayGiven == Spec => []ApprovalsGiven
  BY TypeCorrect, ApprovalsAreGiven, PTL DEF ApprovalsGiven

-----------------------------------------------------------------------------
(* Cached budgets.                                                                *)

\* A hash that is gone counts nothing, and its history starts again.
Exact ==
    \A k \in BudgetKeys : (k = "run" \/ ~mixed[k]) => Spent(k) = tally[k]

\* What a reader of the run's hash would be shown is room a caller set.
RoomSet ==
    hash["run"] # Missing => LimitRead(hash["run"]) - hash["run"].spent <= largest

\* Only a tenant's spending is read first; what was read is the spending, until
\* somebody writes it.
WritersKnow ==
    \A u \in Users : use[u].pc = "write" =>
        use[u].key # "run" /\ (use[u].fresh => use[u].read = Spent(use[u].key))

\* Only a call that has ended has an answer.
AnswersBounded ==
    \A u \in Users : use[u].answer # Missing =>
        /\ use[u].pc = "done"
        /\ use[u].key = "run" => use[u].answer.limit - use[u].answer.spent <= largest

BudgetIInv == BudgetTypeOK /\ Exact /\ RoomSet /\ WritersKnow /\ AnswersBounded /\ BudgetsExpire

LEMMA BudgetIInvInit == BudgetInit => BudgetIInv
  <1> SUFFICES ASSUME BudgetInit PROVE BudgetIInv
    OBVIOUS
  <1> USE DEF BudgetInit
  <1>1. \A u \in Users : use[u] \in Use
    BY DEF Use, BudgetKeys
  <1>2. BudgetTypeOK
    <2>1. hash \in [BudgetKeys -> Budget \cup {Missing}] /\ volatile \in [BudgetKeys -> BOOLEAN]
      OBVIOUS
    <2>2. use \in [Users -> Use]
      BY <1>1
    <2>3. tally \in [BudgetKeys -> Nat] /\ mixed \in [BudgetKeys -> BOOLEAN]
      OBVIOUS
    <2>4. largest \in Nat /\ lostCalls \in 0..MaxLost
      BY BudgetCacheAssumption
    <2> QED
      BY <2>1, <2>2, <2>3, <2>4 DEF BudgetTypeOK
  <1>3. Exact /\ RoomSet /\ BudgetsExpire
    BY DEF Exact, RoomSet, BudgetsExpire, Spent, BudgetKeys
  <1>4. WritersKnow /\ AnswersBounded
    BY DEF WritersKnow, AnswersBounded
  <1> QED
    BY <1>2, <1>3, <1>4 DEF BudgetIInv

\* A call moves alone; of the others only what they read grows old.
LEMMA GoMovesOne ==
    ASSUME BudgetTypeOK, NEW u \in Users, NEW changed \in Use, NEW written,
           Go(u, changed, written)
    PROVE  /\ use' \in [Users -> Use]
           /\ use'[u] = changed
           /\ \A v \in Users \ {u} :
                 /\ use'[v].pc = use[v].pc /\ use'[v].key = use[v].key
                 /\ use'[v].read = use[v].read /\ use'[v].answer = use[v].answer
                 /\ use'[v].fresh => use[v].fresh
                 /\ use[v].pc = "write" /\ use[v].key \in written => ~use'[v].fresh
  <1>1. use \in [Users -> Use]
    BY DEF BudgetTypeOK
  <1>2. ASSUME NEW v \in Users PROVE [use[v] EXCEPT !.fresh = FALSE] \in Use
    BY <1>1 DEF Use
  <1>3. use' \in [Users -> Use]
    BY <1>1, <1>2 DEF Go
  <1>4. use'[u] = changed
    BY DEF Go
  <1>5. ASSUME NEW v \in Users \ {u}
        PROVE  /\ use'[v].pc = use[v].pc /\ use'[v].key = use[v].key
               /\ use'[v].read = use[v].read /\ use'[v].answer = use[v].answer
               /\ use'[v].fresh => use[v].fresh
               /\ use[v].pc = "write" /\ use[v].key \in written => ~use'[v].fresh
    <2>1. use[v] \in Use
      BY <1>1
    <2>2. use'[v] = IF use[v].pc = "write" /\ use[v].key \in written
                    THEN [use[v] EXCEPT !.fresh = FALSE] ELSE use[v]
      BY DEF Go
    <2> QED
      BY <2>1, <2>2 DEF Use
  <1> QED
    BY <1>3, <1>4, <1>5

\* A step that only reads keeps the invariant, if the call is sound after it.
LEMMA ReadingStep ==
    ASSUME BudgetIInv, NEW u \in Users, NEW changed \in Use, ReadsOnly(u, changed),
           use[u].pc = "new",
           changed.pc = "write" => changed.key # "run" /\ changed.read = Spent(changed.key),
           changed.answer # Missing =>
               /\ changed.pc = "done"
               /\ changed.key = "run" => changed.answer.limit - changed.answer.spent <= largest
    PROVE  BudgetIInv'
  <1>1. Go(u, changed, {}) /\ BudgetTypeOK
    BY DEF ReadsOnly, BudgetIInv
  <1>2. /\ use' \in [Users -> Use] /\ use'[u] = changed
        /\ \A v \in Users \ {u} :
              /\ use'[v].pc = use[v].pc /\ use'[v].key = use[v].key
              /\ use'[v].read = use[v].read /\ use'[v].answer = use[v].answer
              /\ use'[v].fresh => use[v].fresh
    BY <1>1, GoMovesOne
  <1>3. UNCHANGED <<hash, volatile, tally, mixed, largest, lostCalls>>
    BY DEF ReadsOnly, HashesKept
  <1>4. BudgetTypeOK'
    BY <1>1, <1>2, <1>3 DEF BudgetTypeOK
  <1>5. Exact' /\ RoomSet'
    BY <1>3 DEF BudgetIInv, Exact, RoomSet, Spent, LimitRead
  <1>6. WritersKnow'
    BY <1>2, <1>3 DEF BudgetIInv, WritersKnow, Spent
  <1>7. AnswersBounded'
    BY <1>2, <1>3 DEF BudgetIInv, AnswersBounded
  <1>8. BudgetsExpire'
    BY <1>2, <1>3 DEF BudgetIInv, BudgetsExpire
  <1> QED
    BY <1>4, <1>5, <1>6, <1>7, <1>8 DEF BudgetIInv

\* A step that writes, or deletes, the hash at k.  A call that wrote is about to
\* set the expiry, or its answer was lost.
LEMMA StoringStep ==
    ASSUME BudgetIInv, NEW u \in Users, NEW changed \in Use, NEW k \in BudgetKeys,
           NEW value \in Budget \cup {Missing}, NEW tallied \in Nat, NEW over \in BOOLEAN,
           Store(k, value, tallied, over), Answered(u, changed, {k}),
           use[u].pc # "expire", changed.pc # "write", changed.answer = Missing,
           value # Missing => changed.pc = "expire" /\ changed.key = k,
           (k = "run" \/ ~over) => (IF value = Missing THEN 0 ELSE value.spent) = tallied,
           largest' \in Nat, largest <= largest',
           k = "run" /\ value # Missing => LimitRead(value) - value.spent <= largest'
    PROVE  BudgetIInv'
  <1>1. BudgetTypeOK
    BY DEF BudgetIInv
  <1>2. PICK c \in Use : /\ Go(u, c, {k})
                         /\ c.pc # "write" /\ c.answer = Missing
                         /\ \/ c = changed /\ lostCalls' = lostCalls
                            \/ lostCalls < MaxLost /\ lostCalls' = lostCalls + 1
    <2>1. CASE Go(u, changed, {k}) /\ UNCHANGED lostCalls
      BY <2>1
    <2>2. CASE /\ lostCalls < MaxLost /\ lostCalls' = lostCalls + 1
               /\ Go(u, [changed EXCEPT !.pc = "failed"], {k})
      <3>1. [changed EXCEPT !.pc = "failed"] \in Use
        BY DEF Use
      <3>2. /\ [changed EXCEPT !.pc = "failed"].pc = "failed"
            /\ [changed EXCEPT !.pc = "failed"].answer = Missing
        BY DEF Use
      <3> QED
        BY <2>2, <3>1, <3>2
    <2> QED
      BY <2>1, <2>2 DEF Answered
  <1>3. /\ use' \in [Users -> Use] /\ use'[u] = c
        /\ \A v \in Users \ {u} :
              /\ use'[v].pc = use[v].pc /\ use'[v].key = use[v].key
              /\ use'[v].read = use[v].read /\ use'[v].answer = use[v].answer
              /\ use'[v].fresh => use[v].fresh
              /\ use[v].pc = "write" /\ use[v].key \in {k} => ~use'[v].fresh
    BY <1>1, <1>2, GoMovesOne
  <1>4. /\ hash' = [hash EXCEPT ![k] = value]
        /\ volatile' = [volatile EXCEPT ![k] = @ /\ value # Missing]
        /\ tally' = [tally EXCEPT ![k] = tallied]
        /\ mixed' = [mixed EXCEPT ![k] = over]
    BY DEF Store
  <1>5. /\ hash'[k] = value /\ tally'[k] = tallied /\ mixed'[k] = over
        /\ \A j \in BudgetKeys \ {k} :
              hash'[j] = hash[j] /\ tally'[j] = tally[j] /\ mixed'[j] = mixed[j]
                /\ volatile'[j] = volatile[j]
    BY <1>1, <1>4 DEF BudgetTypeOK
  <1>6. BudgetTypeOK'
    <2>1. hash' \in [BudgetKeys -> Budget \cup {Missing}]
      BY <1>1, <1>4 DEF BudgetTypeOK
    <2>2. volatile' \in [BudgetKeys -> BOOLEAN]
      BY <1>1, <1>4 DEF BudgetTypeOK
    <2>3. ASSUME NEW j \in BudgetKeys, volatile'[j] PROVE hash'[j] # Missing
      <3>1. CASE j = k
        BY <1>1, <1>4, <1>5, <2>3, <3>1 DEF BudgetTypeOK
      <3>2. CASE j # k
        BY <1>1, <1>5, <2>3, <3>2 DEF BudgetTypeOK
      <3> QED
        BY <3>1, <3>2
    <2>4. tally' \in [BudgetKeys -> Nat] /\ mixed' \in [BudgetKeys -> BOOLEAN]
      BY <1>1, <1>4 DEF BudgetTypeOK
    <2>5. lostCalls' \in 0..MaxLost
      BY <1>1, <1>2, BudgetCacheAssumption DEF BudgetTypeOK
    <2> QED
      BY <1>3, <2>1, <2>2, <2>3, <2>4, <2>5 DEF BudgetTypeOK
  <1>7. Exact'
    BY <1>5 DEF BudgetIInv, Exact, Spent
  <1>8. RoomSet'
    <2>1. CASE k = "run"
      BY <1>5, <2>1 DEF RoomSet, LimitRead
    <2>2. CASE k # "run"
      <3>1. hash'["run"] = hash["run"]
        BY <1>5, <2>2 DEF BudgetKeys
      <3>2. hash["run"] # Missing => LimitRead(hash["run"]) - hash["run"].spent \in Int
        BY <1>1 DEF BudgetTypeOK, Budget, BudgetKeys, LimitRead
      <3>3. largest \in Nat
        BY <1>1 DEF BudgetTypeOK
      <3> QED
        BY <3>1, <3>2, <3>3 DEF BudgetIInv, RoomSet, LimitRead
    <2> QED
      BY <2>1, <2>2
  <1>9. WritersKnow'
    <2> SUFFICES ASSUME NEW v \in Users, use'[v].pc = "write"
                 PROVE  use'[v].key # "run"
                        /\ (use'[v].fresh => use'[v].read = Spent(use[v].key)')
      BY DEF WritersKnow
    <2>1. v # u /\ use[v].pc = "write" /\ use[v].key \in BudgetKeys
      BY <1>1, <1>2, <1>3 DEF BudgetTypeOK, Use
    <2>2. use[v].key # "run" /\ (use[v].fresh => use[v].read = Spent(use[v].key))
      BY <2>1 DEF BudgetIInv, WritersKnow
    <2>3. use'[v].fresh => use[v].key # k
      BY <1>3, <2>1
    <2>4. use[v].key # k => Spent(use[v].key)' = Spent(use[v].key)
      BY <1>3, <1>5, <2>1 DEF Spent
    <2>5. use'[v].key = use[v].key /\ use'[v].read = use[v].read
          /\ (use'[v].fresh => use[v].fresh)
      BY <1>3, <2>1
    <2> QED
      BY <2>2, <2>3, <2>4, <2>5
  <1>10. AnswersBounded'
    <2> SUFFICES ASSUME NEW v \in Users, use'[v].answer # Missing
                 PROVE  /\ use'[v].pc = "done"
                        /\ use'[v].key = "run"
                             => use'[v].answer.limit - use'[v].answer.spent <= largest'
      BY DEF AnswersBounded
    <2>1. v # u
      BY <1>2, <1>3
    <2>2. use[v].answer \in [limit : Nat, spent : Nat]
      <3>1. use[v] \in Use
        BY <1>1 DEF BudgetTypeOK
      <3>2. use[v].answer # Missing
        BY <1>3, <2>1
      <3> QED
        BY <3>1, <3>2 DEF Use
    <2>3. /\ use[v].pc = "done"
          /\ use[v].key = "run" => use[v].answer.limit - use[v].answer.spent <= largest
      BY <1>3, <2>1 DEF BudgetIInv, AnswersBounded
    <2>4. largest \in Nat
      BY <1>1 DEF BudgetTypeOK
    <2> QED
      BY <1>3, <2>1, <2>2, <2>3, <2>4
  <1>11. BudgetsExpire'
    <2> SUFFICES ASSUME NEW j \in BudgetKeys, hash'[j] # Missing, ~volatile'[j], ~(lostCalls' > 0)
                 PROVE  \E v \in Users : use'[v].key = j /\ use'[v].pc = "expire"
      BY DEF BudgetsExpire
    <2>1. lostCalls' = lostCalls /\ c = changed
      BY <1>1, <1>2 DEF BudgetTypeOK
    <2>2. CASE j = k
      BY <1>3, <1>5, <2>1, <2>2
    <2>3. CASE j # k
      <3>1. PICK v \in Users : use[v].key = j /\ use[v].pc = "expire"
        BY <1>5, <2>1, <2>3 DEF BudgetIInv, BudgetsExpire
      <3> QED
        BY <1>3, <3>1
    <2> QED
      BY <2>2, <2>3
  <1> QED
    BY <1>6, <1>7, <1>8, <1>9, <1>10, <1>11 DEF BudgetIInv

\* The keys expire, or are about to.
LEMMA ExpireStep ==
    ASSUME BudgetIInv, NEW u \in Users, Expire(u)
    PROVE  BudgetIInv'
  <1> DEFINE k == use[u].key
  <1>1. BudgetTypeOK /\ use[u] \in Use /\ k \in BudgetKeys
    BY DEF BudgetIInv, BudgetTypeOK, Use
  <1>2. use[u].pc = "expire" /\ UNCHANGED <<hash, tally, mixed, largest>>
        /\ volatile' = [volatile EXCEPT ![k] = hash[k] # Missing]
    BY DEF Expire
  <1>3. use[u].answer = Missing
    BY <1>2 DEF BudgetIInv, AnswersBounded
  <1>4. PICK c \in Use : /\ Go(u, c, {}) /\ c.pc \in {"done", "failed"} /\ c.answer = Missing
                         /\ \/ lostCalls' = lostCalls
                            \/ lostCalls < MaxLost /\ lostCalls' = lostCalls + 1
    <2>1. /\ [use[u] EXCEPT !.pc = "done"] \in Use
          /\ [use[u] EXCEPT !.pc = "done"].pc = "done"
          /\ [use[u] EXCEPT !.pc = "done"].answer = Missing
      BY <1>1, <1>3 DEF Use
    <2>2. LET d == [[use[u] EXCEPT !.pc = "done"] EXCEPT !.pc = "failed"]
          IN  d \in Use /\ d.pc = "failed" /\ d.answer = Missing
      BY <1>1, <1>3 DEF Use
    <2>3. \/ Go(u, [use[u] EXCEPT !.pc = "done"], {}) /\ lostCalls' = lostCalls
          \/ /\ lostCalls < MaxLost /\ lostCalls' = lostCalls + 1
             /\ Go(u, [[use[u] EXCEPT !.pc = "done"] EXCEPT !.pc = "failed"], {})
      BY DEF Expire, Answered
    <2> QED
      BY <2>1, <2>2, <2>3
  <1>5. /\ use' \in [Users -> Use] /\ use'[u] = c
        /\ \A v \in Users \ {u} :
              /\ use'[v].pc = use[v].pc /\ use'[v].key = use[v].key
              /\ use'[v].read = use[v].read /\ use'[v].answer = use[v].answer
              /\ use'[v].fresh => use[v].fresh
    BY <1>1, <1>4, GoMovesOne
  <1>6. lostCalls' \in 0..MaxLost /\ (lostCalls > 0 => lostCalls' > 0)
    BY <1>1, <1>4, BudgetCacheAssumption DEF BudgetTypeOK
  <1>7. BudgetTypeOK'
    BY <1>1, <1>2, <1>5, <1>6 DEF BudgetTypeOK
  <1>8. Exact' /\ RoomSet'
    BY <1>2 DEF BudgetIInv, Exact, RoomSet, Spent, LimitRead
  <1>9. WritersKnow'
    BY <1>2, <1>4, <1>5 DEF BudgetIInv, WritersKnow, Spent
  <1>10. AnswersBounded'
    BY <1>2, <1>4, <1>5 DEF BudgetIInv, AnswersBounded
  <1>11. BudgetsExpire'
    <2> SUFFICES ASSUME NEW j \in BudgetKeys, hash'[j] # Missing, ~volatile'[j], ~(lostCalls' > 0)
                 PROVE  \E v \in Users : use'[v].key = j /\ use'[v].pc = "expire"
      BY DEF BudgetsExpire
    <2>1. j # k
      BY <1>1, <1>2 DEF BudgetTypeOK
    <2>2. hash[j] # Missing /\ ~volatile[j] /\ ~(lostCalls > 0)
      BY <1>1, <1>2, <1>6, <2>1 DEF BudgetTypeOK
    <2>3. PICK v \in Users : use[v].key = j /\ use[v].pc = "expire"
      BY <2>2 DEF BudgetIInv, BudgetsExpire
    <2> QED
      BY <1>5, <2>1, <2>3
  <1> QED
    BY <1>7, <1>8, <1>9, <1>10, <1>11 DEF BudgetIInv

\* A Redis call fails, and the method answers so.
LEMMA RedisFailsStep ==
    ASSUME BudgetIInv, NEW u \in Users, RedisFails(u)
    PROVE  BudgetIInv'
  <1> DEFINE c == [use[u] EXCEPT !.pc = "failed"]
  <1>1. BudgetTypeOK /\ use[u] \in Use
    BY DEF BudgetIInv, BudgetTypeOK
  <1>2. /\ UNCHANGED <<hash, volatile, tally, mixed, largest>> /\ Go(u, c, {})
        /\ lostCalls < MaxLost /\ lostCalls' = lostCalls + 1 /\ use[u].pc # "done"
    BY DEF RedisFails, HashesKept
  <1>3. use[u].answer = Missing
    BY <1>2 DEF BudgetIInv, AnswersBounded
  <1>4. c \in Use /\ c.pc = "failed" /\ c.answer = Missing
    BY <1>1, <1>3 DEF Use
  <1>5. /\ use' \in [Users -> Use] /\ use'[u] = c
        /\ \A v \in Users \ {u} :
              /\ use'[v].pc = use[v].pc /\ use'[v].key = use[v].key
              /\ use'[v].read = use[v].read /\ use'[v].answer = use[v].answer
              /\ use'[v].fresh => use[v].fresh
    BY <1>1, <1>2, <1>4, GoMovesOne
  <1>6. lostCalls' \in 0..MaxLost /\ lostCalls' > 0
    BY <1>1, <1>2, BudgetCacheAssumption DEF BudgetTypeOK
  <1> HIDE DEF c
  <1>7. BudgetTypeOK'
    BY <1>1, <1>2, <1>5, <1>6 DEF BudgetTypeOK
  <1>8. Exact' /\ RoomSet'
    BY <1>2 DEF BudgetIInv, Exact, RoomSet, Spent, LimitRead
  <1>9. WritersKnow'
    BY <1>2, <1>4, <1>5 DEF BudgetIInv, WritersKnow, Spent
  <1>10. AnswersBounded'
    BY <1>2, <1>4, <1>5 DEF BudgetIInv, AnswersBounded
  <1>11. BudgetsExpire'
    BY <1>6 DEF BudgetsExpire
  <1> QED
    BY <1>7, <1>8, <1>9, <1>10, <1>11 DEF BudgetIInv

\* A hash goes by itself; what was read of it is old.
LEMMA BudgetExpiresStep ==
    ASSUME BudgetIInv, NEW k \in BudgetKeys, BudgetExpires(k)
    PROVE  BudgetIInv'
  <1>1. BudgetTypeOK /\ UNCHANGED <<largest, lostCalls>>
    BY DEF BudgetIInv, BudgetExpires
  <1>2. /\ hash' = [hash EXCEPT ![k] = Missing]
        /\ volatile' = [volatile EXCEPT ![k] = @ /\ Missing # Missing]
        /\ tally' = [tally EXCEPT ![k] = 0]
        /\ mixed' = [mixed EXCEPT ![k] = FALSE]
    BY DEF BudgetExpires, Store
  <1>3. /\ hash'[k] = Missing /\ ~volatile'[k] /\ tally'[k] = 0 /\ ~mixed'[k]
        /\ \A j \in BudgetKeys \ {k} :
              hash'[j] = hash[j] /\ tally'[j] = tally[j] /\ mixed'[j] = mixed[j]
                /\ volatile'[j] = volatile[j]
    BY <1>1, <1>2 DEF BudgetTypeOK
  <1>4. ASSUME NEW u \in Users
        PROVE  /\ use'[u] \in Use
               /\ use'[u].pc = use[u].pc /\ use'[u].key = use[u].key
               /\ use'[u].read = use[u].read /\ use'[u].answer = use[u].answer
               /\ use'[u].fresh => use[u].fresh /\ ~(use[u].pc = "write" /\ use[u].key = k)
    <2>1. use[u] \in Use
      BY <1>1 DEF BudgetTypeOK
    <2>2. use'[u] = [use[u] EXCEPT !.fresh = @ /\ ~(use[u].pc = "write" /\ use[u].key = k)]
      BY DEF BudgetExpires
    <2> QED
      BY <2>1, <2>2 DEF Use
  <1>5. BudgetTypeOK'
    <2>1. use' \in [Users -> Use]
      BY <1>4 DEF BudgetExpires
    <2>2. hash' \in [BudgetKeys -> Budget \cup {Missing}] /\ volatile' \in [BudgetKeys -> BOOLEAN]
      BY <1>1, <1>2 DEF BudgetTypeOK
    <2>3. tally' \in [BudgetKeys -> Nat] /\ mixed' \in [BudgetKeys -> BOOLEAN]
      BY <1>1, <1>2 DEF BudgetTypeOK
    <2>4. \A j \in BudgetKeys : volatile'[j] => hash'[j] # Missing
      BY <1>1, <1>3 DEF BudgetTypeOK
    <2> QED
      BY <1>1, <2>1, <2>2, <2>3, <2>4 DEF BudgetTypeOK
  <1>6. Exact' /\ RoomSet'
    BY <1>1, <1>3 DEF BudgetIInv, Exact, RoomSet, Spent, LimitRead, BudgetKeys
  <1>7. WritersKnow'
    <2> SUFFICES ASSUME NEW v \in Users, use'[v].pc = "write"
                 PROVE  use'[v].key # "run"
                        /\ (use'[v].fresh => use'[v].read = Spent(use[v].key)')
      BY DEF WritersKnow
    <2>1. use[v].pc = "write" /\ use[v].key \in BudgetKeys
      BY <1>1, <1>4 DEF BudgetTypeOK, Use
    <2>2. use[v].key # "run" /\ (use[v].fresh => use[v].read = Spent(use[v].key))
      BY <2>1 DEF BudgetIInv, WritersKnow
    <2>3. use[v].key # k => Spent(use[v].key)' = Spent(use[v].key)
      BY <1>3, <1>4, <2>1 DEF Spent
    <2>4. use'[v].key = use[v].key /\ use'[v].read = use[v].read
          /\ (use'[v].fresh => use[v].fresh /\ use[v].key # k)
      BY <1>4, <2>1
    <2> QED
      BY <2>2, <2>3, <2>4
  <1>8. AnswersBounded'
    BY <1>1, <1>4 DEF BudgetIInv, AnswersBounded
  <1>9. BudgetsExpire'
    BY <1>1, <1>3, <1>4 DEF BudgetIInv, BudgetsExpire
  <1> QED
    BY <1>5, <1>6, <1>7, <1>8, <1>9 DEF BudgetIInv

\* The methods that only read, or find out what to delete.
LEMMA ReadingCall ==
    ASSUME BudgetIInv, NEW u \in Users,
           \/ \E k \in BudgetKeys : Get(u, k) \/ \E a \in Amounts : IncrementTenantSpent(u, k, a)
           \/ InvalidateRun(u) \/ InvalidateTenant(u)
    PROVE  BudgetIInv'
  <1>1. BudgetTypeOK /\ use[u] \in Use /\ largest \in Nat
    BY DEF BudgetIInv, BudgetTypeOK
  <1>2. use[u].pc = "new"
    BY DEF Get, IncrementTenantSpent, InvalidateRun, InvalidateTenant, Deleting, Called
  <1>3. use[u].answer = Missing
    BY <1>2 DEF BudgetIInv, AnswersBounded
  <1>4. ASSUME NEW k \in BudgetKeys, Get(u, k) PROVE BudgetIInv'
    <2> DEFINE answer == IF hash[k] = Missing THEN Missing
                         ELSE [limit |-> LimitRead(hash[k]), spent |-> hash[k].spent]
               c == [use[u] EXCEPT !.key = k, !.pc = "done", !.answer = answer]
    <2>1. ReadsOnly(u, c)
      BY <1>4 DEF Get
    <2>2. answer \in [limit : Nat, spent : Nat] \cup {Missing}
      BY <1>1 DEF BudgetTypeOK, Budget, LimitRead
    <2>3. answer # Missing /\ k = "run" => answer.limit - answer.spent <= largest
      BY DEF BudgetIInv, RoomSet
    <2> HIDE DEF answer
    <2>4. c \in Use /\ c.pc = "done" /\ c.key = k /\ c.answer = answer
      BY <1>1, <2>2 DEF Use
    <2> HIDE DEF c
    <2> QED
      BY <1>2, <2>1, <2>3, <2>4, ReadingStep
  <1>5. ASSUME NEW k \in BudgetKeys, NEW a \in Amounts, IncrementTenantSpent(u, k, a)
        PROVE  BudgetIInv'
    <2> DEFINE c == Reading(u, k, a)
    <2>1. ReadsOnly(u, c) /\ k # "run"
      BY <1>5 DEF IncrementTenantSpent
    <2>2. Spent(k) \in Nat /\ a \in Nat
      BY <1>1, BudgetCacheAssumption DEF BudgetTypeOK, Budget, Spent
    <2>3. c \in Use /\ c.pc = "write" /\ c.key = k /\ c.read = Spent(k) /\ c.answer = Missing
      BY <1>1, <1>3, <2>2 DEF Use, Reading
    <2> HIDE DEF c
    <2> QED
      BY <1>2, <2>1, <2>3, ReadingStep
  <1>6. ASSUME NEW k \in BudgetKeys, NEW pc \in {"delete", "delete_monthly"}, Deleting(u, k, pc)
        PROVE  BudgetIInv'
    <2> DEFINE c == [use[u] EXCEPT !.key = k, !.pc = pc]
    <2>1. ReadsOnly(u, c)
      BY <1>6 DEF Deleting
    <2>2. c \in Use /\ c.pc = pc /\ c.answer = Missing
      BY <1>1, <1>3 DEF Use
    <2> HIDE DEF c
    <2> QED
      BY <1>2, <2>1, <2>2, ReadingStep
  <1>7. "run" \in BudgetKeys /\ "daily" \in BudgetKeys
    BY DEF BudgetKeys
  <1> QED
    BY <1>4, <1>5, <1>6, <1>7 DEF InvalidateRun, InvalidateTenant

\* A call that wrote is about to set the expiry.
LEMMA AtExpireIs ==
    ASSUME BudgetIInv, NEW u \in Users, use[u].pc \in {"new", "write"}, NEW k \in BudgetKeys
    PROVE  LET c == AtExpire(u, k)
           IN  c \in Use /\ c.pc = "expire" /\ c.key = k /\ c.answer = Missing
  <1>1. use[u] \in Use /\ use[u].answer = Missing
    BY DEF BudgetIInv, BudgetTypeOK, AnswersBounded
  <1> QED
    BY <1>1 DEF Use, AtExpire

\* What is added to is a budget.
LEMMA AddedIs ==
    ASSUME BudgetTypeOK, NEW k \in BudgetKeys, NEW spent \in Nat
    PROVE  /\ Added(k, spent) \in Budget /\ Added(k, spent).spent = spent
           /\ Added(k, spent) # Missing
           /\ LimitRead(Added(k, spent)) = IF hash[k] = Missing THEN 0 ELSE LimitRead(hash[k])
           /\ LimitRead(Added(k, spent)) \in Nat
  <1>1. hash[k] \in Budget \cup {Missing}
    BY DEF BudgetTypeOK
  <1>2. Added(k, spent) \in Budget /\ Added(k, spent).spent = spent
        /\ Added(k, spent).limit = IF hash[k] = Missing THEN Missing ELSE hash[k].limit
    BY <1>1 DEF Added, Budget
  <1> QED
    BY <1>1, <1>2, MissingIsNoBudget DEF LimitRead, Budget

\* The methods that set a budget.
LEMMA SettingCall ==
    ASSUME BudgetIInv, NEW u \in Users, NEW l \in Limits, NEW s \in Amounts \cup {0},
           SetRunBudget(u, l, s) \/ \E k \in BudgetKeys : SetTenantBudget(u, k, l, s)
    PROVE  BudgetIInv'
  <1>1. use[u].pc = "new" /\ largest \in Nat
    BY DEF SetRunBudget, SetTenantBudget, Called, BudgetIInv, BudgetTypeOK
  <1> DEFINE value == [limit |-> l, spent |-> s]
  <1>2. l \in Nat /\ s \in Nat
    BY BudgetCacheAssumption
  <1>3. /\ value \in Budget /\ value.spent = s /\ value # Missing
        /\ LimitRead(value) - value.spent <= IF l - s > 0 THEN l - s ELSE 0
    BY <1>2, MissingIsNoBudget DEF Budget, LimitRead
  <1>4. CASE SetRunBudget(u, l, s)
    <2>1. /\ Store("run", value, s, FALSE) /\ Answered(u, AtExpire(u, "run"), {"run"})
          /\ largest' = IF l - s > largest THEN l - s ELSE largest
      BY <1>4 DEF SetRunBudget
    <2>2. largest' \in Nat /\ largest <= largest' /\ LimitRead(value) - value.spent <= largest'
      BY <1>1, <1>2, <1>3, <2>1 DEF LimitRead
    <2>3. "run" \in BudgetKeys
      BY DEF BudgetKeys
    <2>4. /\ AtExpire(u, "run") \in Use /\ AtExpire(u, "run").pc = "expire"
          /\ AtExpire(u, "run").key = "run" /\ AtExpire(u, "run").answer = Missing
      BY <1>1, <2>3, AtExpireIs
    <2> HIDE DEF value
    <2> QED
      BY <1>1, <1>2, <1>3, <2>1, <2>2, <2>3, <2>4, StoringStep
  <1>5. ASSUME NEW k \in BudgetKeys, SetTenantBudget(u, k, l, s) PROVE BudgetIInv'
    <2>1. /\ Store(k, value, s, FALSE) /\ Answered(u, AtExpire(u, k), {k})
          /\ largest' = largest /\ k # "run"
      BY <1>5 DEF SetTenantBudget
    <2>2. /\ AtExpire(u, k) \in Use /\ AtExpire(u, k).pc = "expire"
          /\ AtExpire(u, k).key = k /\ AtExpire(u, k).answer = Missing
      BY <1>1, AtExpireIs
    <2>3. largest' \in Nat /\ largest <= largest'
      BY <1>1, <2>1
    <2> HIDE DEF value
    <2> QED
      BY <1>1, <1>2, <1>3, <2>1, <2>2, <2>3, StoringStep
  <1> QED
    BY <1>4, <1>5

\* The methods that add, and the second half of a tenant's.
LEMMA AddingCall ==
    ASSUME BudgetIInv, NEW u \in Users,
           \/ \E a \in Amounts : IncrementRunSpent(u, a)
           \/ IncrementRunSteps(u) \/ WriteSpent(u)
    PROVE  BudgetIInv'
  <1>1. BudgetTypeOK /\ use[u] \in Use /\ largest \in Nat
    BY DEF BudgetIInv, BudgetTypeOK
  <1>2. use[u].pc \in {"new", "write"}
    BY DEF IncrementRunSpent, IncrementRunSteps, WriteSpent, Called
  <1>3. ASSUME NEW a \in Nat, Store("run", Added("run", Spent("run") + a), tally["run"] + a, mixed["run"]),
               Answered(u, AtExpire(u, "run"), {"run"}), UNCHANGED largest
        PROVE  BudgetIInv'
    <2>1. "run" \in BudgetKeys
      BY DEF BudgetKeys
    <2>2. hash["run"] \in Budget \cup {Missing} /\ tally["run"] \in Nat /\ mixed["run"] \in BOOLEAN
      BY <1>1, <2>1 DEF BudgetTypeOK
    <2>3. Spent("run") \in Nat /\ Spent("run") = tally["run"]
      BY <2>1, <2>2 DEF BudgetIInv, Exact, Spent, Budget
    <2> DEFINE value == Added("run", Spent("run") + a)
    <2>4. /\ value \in Budget /\ value.spent = Spent("run") + a /\ value # Missing
          /\ LimitRead(value) = IF hash["run"] = Missing THEN 0 ELSE LimitRead(hash["run"])
      BY <1>1, <2>1, <2>3, AddedIs
    <2>5. LimitRead(value) - value.spent <= largest
      <3>1. CASE hash["run"] = Missing
        BY <1>1, <2>3, <2>4, <3>1
      <3>2. CASE hash["run"] # Missing
        <4>1. LimitRead(hash["run"]) - Spent("run") <= largest /\ LimitRead(hash["run"]) \in Nat
          BY <2>2, <3>2 DEF BudgetIInv, RoomSet, Spent, LimitRead, Budget
        <4> QED
          BY <1>1, <2>3, <2>4, <3>2, <4>1
      <3> QED
        BY <3>1, <3>2
    <2>6. /\ AtExpire(u, "run") \in Use /\ AtExpire(u, "run").pc = "expire"
          /\ AtExpire(u, "run").key = "run" /\ AtExpire(u, "run").answer = Missing
      BY <1>2, <2>1, AtExpireIs
    <2>7. Store("run", value, tally["run"] + a, mixed["run"]) /\ tally["run"] + a \in Nat
          /\ value.spent = tally["run"] + a
      BY <1>3, <2>2, <2>3, <2>4
    <2> HIDE DEF value
    <2> QED
      BY <1>1, <1>2, <1>3, <2>1, <2>2, <2>4, <2>5, <2>6, <2>7, StoringStep
  <1>4. ASSUME NEW a \in Amounts, IncrementRunSpent(u, a) PROVE BudgetIInv'
    BY <1>3, <1>4, BudgetCacheAssumption DEF IncrementRunSpent
  <1>5. CASE IncrementRunSteps(u)
    <2>1. Spent("run") + 0 = Spent("run") /\ tally["run"] + 0 = tally["run"]
      BY <1>1 DEF BudgetTypeOK, BudgetKeys, Budget, Spent
    <2> QED
      BY <1>3, <1>5, <2>1 DEF IncrementRunSteps
  <1>6. CASE WriteSpent(u)
    <2> DEFINE k == use[u].key
               value == Added(k, use[u].read + use[u].amount)
    <2>1. /\ use[u].pc = "write" /\ UNCHANGED largest
          /\ Store(k, value, tally[k] + use[u].amount, mixed[k] \/ ~use[u].fresh)
          /\ Answered(u, AtExpire(u, k), {k})
      BY <1>6 DEF WriteSpent
    <2>2. k \in BudgetKeys /\ use[u].read \in Nat /\ use[u].amount \in Nat /\ use[u].fresh \in BOOLEAN
      BY <1>1 DEF Use
    <2>3. k # "run" /\ (use[u].fresh => use[u].read = Spent(k))
      BY <2>1 DEF BudgetIInv, WritersKnow
    <2>4. tally[k] \in Nat /\ mixed[k] \in BOOLEAN /\ (~mixed[k] => Spent(k) = tally[k])
      BY <1>1, <2>2 DEF BudgetTypeOK, BudgetIInv, Exact
    <2>5. /\ value \in Budget /\ value.spent = use[u].read + use[u].amount /\ value # Missing
      BY <1>1, <2>2, AddedIs
    <2>6. /\ AtExpire(u, k) \in Use /\ AtExpire(u, k).pc = "expire"
          /\ AtExpire(u, k).key = k /\ AtExpire(u, k).answer = Missing
      BY <1>2, <2>2, AtExpireIs
    <2> HIDE DEF k, value
    <2> DEFINE over == mixed[k] \/ ~use[u].fresh
    <2>7. over \in BOOLEAN /\ (~over => value.spent = tally[k] + use[u].amount)
      BY <2>3, <2>4, <2>5
    <2>8. tally[k] + use[u].amount \in Nat
      BY <2>2, <2>4
    <2> HIDE DEF over
    <2>9. Store(k, value, tally[k] + use[u].amount, over)
      BY <2>1 DEF over
    <2> QED
      BY <1>1, <2>1, <2>2, <2>3, <2>5, <2>6, <2>7, <2>8, <2>9, StoringStep
  <1> QED
    BY <1>4, <1>5, <1>6

\* DEL.
LEMMA DeletingStep ==
    ASSUME BudgetIInv, NEW u \in Users, DeleteBudget(u)
    PROVE  BudgetIInv'
  <1> DEFINE c == IF use[u].pc = "delete" THEN [use[u] EXCEPT !.pc = "done"]
                  ELSE [use[u] EXCEPT !.key = "monthly", !.pc = "delete"]
             k == use[u].key
  <1>1. use[u] \in Use /\ largest \in Nat
    BY DEF BudgetIInv, BudgetTypeOK
  <1>2. /\ use[u].pc \in {"delete", "delete_monthly"}
        /\ Store(k, Missing, 0, FALSE) /\ Answered(u, c, {k}) /\ largest' = largest
    BY DEF DeleteBudget
  <1>3. use[u].answer = Missing
    BY <1>2 DEF BudgetIInv, AnswersBounded
  <1>4. c \in Use /\ c.pc # "write" /\ c.answer = Missing /\ k \in BudgetKeys
    BY <1>1, <1>3 DEF Use, BudgetKeys
  <1>5. largest' \in Nat /\ largest <= largest'
    BY <1>1, <1>2
  <1> HIDE DEF c, k
  <1> QED
    BY <1>2, <1>4, <1>5, StoringStep

LEMMA BudgetIInvStep == BudgetIInv /\ [BudgetNext]_budgetVars => BudgetIInv'
  <1> SUFFICES ASSUME BudgetIInv, [BudgetNext]_budgetVars PROVE BudgetIInv'
    OBVIOUS
  <1>1. ASSUME NEW u \in Users, BudgetCall(u) PROVE BudgetIInv'
    <2>1. "run" \in BudgetKeys
      BY DEF BudgetKeys
    <2> QED
      BY <1>1, <2>1, ReadingCall, SettingCall, AddingCall
         DEF BudgetCall, GetRunBudget, GetTenantBudget
  <1>2. ASSUME NEW u \in Users,
               WriteSpent(u) \/ Expire(u) \/ DeleteBudget(u) \/ RedisFails(u)
        PROVE  BudgetIInv'
    BY <1>2, AddingCall, ExpireStep, DeletingStep, RedisFailsStep
  <1>3. ASSUME NEW k \in BudgetKeys, BudgetExpires(k) PROVE BudgetIInv'
    BY <1>3, BudgetExpiresStep
  <1>4. CASE UNCHANGED budgetVars
    BY <1>4 DEF budgetVars, BudgetIInv, BudgetTypeOK, Exact, RoomSet, WritersKnow,
                AnswersBounded, BudgetsExpire, Spent, LimitRead
  <1> QED
    BY <1>1, <1>2, <1>3, <1>4 DEF BudgetNext

LEMMA BudgetIInvHolds == BudgetSpec => []BudgetIInv
  BY BudgetIInvInit, BudgetIInvStep, PTL DEF BudgetSpec

\* The hashes and the calls of the budget cache keep their types.
THEOREM BudgetTypeCorrect == BudgetSpec => []BudgetTypeOK
  <1>1. BudgetIInv => BudgetTypeOK
    BY DEF BudgetIInv
  <1> QED
    BY <1>1, BudgetIInvHolds, PTL

\* The spending in a hash is what was set and added since, however many calls
\* overlap and fail: a run's always (increment_run_spent), a tenant's unless one
\* was written over another (increment_tenant_spent).
THEOREM SpendingExact == BudgetSpec => []CachedSpentExact
  <1>1. BudgetIInv => CachedSpentExact
    BY DEF BudgetIInv, Exact, CachedSpentExact, Spent
  <1> QED
    BY <1>1, BudgetIInvHolds, PTL

\* Whatever expired, was deleted or added to again, no reader of a run's budget
\* is shown more room than a caller once set (get_run_budget).
THEOREM RoomIsGiven == BudgetSpec => []NoRoomFromNowhere
  <1>1. BudgetIInv => NoRoomFromNowhere
    BY DEF BudgetIInv, AnswersBounded, NoRoomFromNowhere
  <1> QED
    BY <1>1, BudgetIInvHolds, PTL

\* A hash without an expiry is about to get one, unless a Redis call failed.
THEOREM HashesExpire == BudgetSpec => []BudgetsExpire
  <1>1. BudgetIInv => BudgetsExpire
    BY DEF BudgetIInv
  <1> QED
    BY <1>1, BudgetIInvHolds, PTL

\* The cached budgets are exact, give no room of their own and go away.
THEOREM BudgetsStayKept == BudgetSpec => []BudgetsKept
  BY BudgetTypeCorrect, SpendingExact, RoomIsGiven, HashesExpire, PTL DEF BudgetsKept

-----------------------------------------------------------------------------
(* RateLimits: the requests.                                               *)

\* Requests of the present window that were admitted by its check.
Admitted == {r \in Requests : req[r].window /\ ~req[r].open}

\* The counter counts every one of them, some of them twice, and expires.
WindowInv ==
    /\ Cardinality(Admitted) <= count
    /\ Cardinality(Admitted) <= Limit
    /\ ttl => count > 0
    /\ Admitted # {} => ttl

LEMMA AdmittedFinite ==
    ASSUME NEW S, S \subseteq Requests
    PROVE  IsFiniteSet(S) /\ Cardinality(S) \in Nat
  BY RateLimitsAssumption, FS_Subset, FS_CardinalityType

LEMMA LimitTypeInit == LimitInit => LimitTypeOK
  <1> SUFFICES ASSUME LimitInit PROVE LimitTypeOK
    OBVIOUS
  <1>1. req \in [Requests -> ApiRequest]
    BY DEF LimitInit, ApiRequest
  <1>2. run \in [Runs -> Run]
    BY DEF LimitInit, Run
  <1>3. runs \in [RunKeys -> Nat] /\ count \in Nat /\ faults \in 0..MaxFaults
    BY RateLimitsAssumption DEF LimitInit
  <1>4. loaded \in BOOLEAN /\ cached \in BOOLEAN /\ ttl \in BOOLEAN /\ aged \in BOOLEAN
    BY DEF LimitInit
  <1> QED
    BY <1>1, <1>2, <1>3, <1>4 DEF LimitInit, LimitTypeOK

LEMMA WindowInvInit == LimitInit => WindowInv
  <1> SUFFICES ASSUME LimitInit PROVE WindowInv
    OBVIOUS
  <1>1. Admitted = {}
    BY DEF LimitInit, Admitted
  <1>2. Cardinality(Admitted) = 0
    BY <1>1, FS_EmptySet
  <1> QED
    BY <1>1, <1>2, RateLimitsAssumption DEF LimitInit, WindowInv

\* A step of a request that admits nobody: the same key, or one more request
\* in it.
LEMMA NobodyAdmitted ==
    ASSUME LimitTypeOK, WindowInv, count' \in Nat, count' >= count,
           (ttl' = ttl) \/ (ttl' <=> count' > 0), Admitted' \subseteq Admitted
    PROVE  WindowInv'
  <1>1. Admitted \subseteq Requests
    BY DEF Admitted
  <1>2. IsFiniteSet(Admitted) /\ Cardinality(Admitted) \in Nat
    BY <1>1, AdmittedFinite
  <1>3. Cardinality(Admitted') \in Nat /\ Cardinality(Admitted') <= Cardinality(Admitted)
    BY <1>2, FS_Subset, FS_CardinalityType
  <1>4. ttl \in BOOLEAN /\ count \in Nat /\ Limit \in Nat
    BY RateLimitsAssumption DEF LimitTypeOK
  <1>5. (ttl => count > 0) /\ (Admitted # {} => ttl)
        /\ Cardinality(Admitted) <= count /\ Cardinality(Admitted) <= Limit
    BY DEF WindowInv
  <1>5a. ttl => count' > 0
    BY <1>4, <1>5
  <1>6. ttl => ttl'
    BY <1>5a, Zenon
  <1>7. Admitted' # {} => ttl'
    BY <1>5, <1>6
  <1>8. ttl' => count' > 0
    BY <1>5a, Zenon
  <1>9. Cardinality(Admitted') <= count' /\ Cardinality(Admitted') <= Limit
    BY <1>2, <1>3, <1>4, <1>5
  <1> QED
    BY <1>7, <1>8, <1>9 DEF WindowInv

\* No request of an earlier window is counted in this one.
LEMMA EmptyWindow ==
    ASSUME Admitted' = {}, count' \in Nat, ttl' => count' > 0
    PROVE  WindowInv'
  <1>1. Cardinality(Admitted') = 0
    BY FS_EmptySet
  <1> QED
    BY <1>1, RateLimitsAssumption DEF WindowInv

\* The steps of a request leave the runs' part of the type alone.
LEMMA RequestTypeStep ==
    ASSUME LimitTypeOK, RequestStep
    PROVE  LimitTypeOK'
  <1> USE DEF LimitTypeOK
  <1>1. /\ UNCHANGED runVars
        /\ UNCHANGED <<evalsha, loaded, cached>>
        /\ UNCHANGED faults \/ Fault
    BY DEF RequestStep, WindowEnds, PassThrough, Arrive, CheckRateLimit,
       CheckRateLimitFails, Handle, Reject, RecordRequest, RecordExpiry, RecordFails, NoFault
  <1>1a. faults' \in 0..MaxFaults
    BY <1>1, RateLimitsAssumption DEF Fault
  <1>2. count' \in Nat /\ ttl' \in BOOLEAN
    <2>1. CASE WindowEnds
      BY <2>1 DEF WindowEnds
    <2>2. ASSUME NEW r \in Requests, PassThrough(r) \/ Arrive(r) \/ Handle(r) \/ Reject(r) 
                     \/ CheckRateLimitFails(r) \/ RecordFails(r)
          PROVE  count' \in Nat /\ ttl' \in BOOLEAN
      BY <2>2 DEF PassThrough, Arrive, Handle, Reject, CheckRateLimitFails, RecordFails
    <2>3. ASSUME NEW r \in Requests, CheckRateLimit(r)
          PROVE  count' \in Nat /\ ttl' \in BOOLEAN
      <3>1. \/ UNCHANGED <<count, ttl>>
            \/ count' = 1 /\ ttl' = TRUE
            \/ count' = count + 1 /\ ttl' = ttl
        BY <2>3 DEF CheckRateLimit, RateLimitScript
      <3>2. count' \in Nat
        BY <3>1
      <3>3. ttl' \in BOOLEAN
        BY <3>1
      <3> QED
        BY <3>2, <3>3
    <2>4. ASSUME NEW r \in Requests, RecordRequest(r) \/ RecordExpiry(r)
          PROVE  count' \in Nat /\ ttl' \in BOOLEAN
      <3>1. count' \in {count, count + 1}
        BY <2>4 DEF RecordRequest, RecordExpiry
      <3>2. ttl' \in {ttl, count > 0}
        BY <2>4 DEF RecordRequest, RecordExpiry
      <3>3. ttl' \in BOOLEAN
        <4>1. (count > 0) \in BOOLEAN
          OBVIOUS
        <4> QED
          BY <3>2, <4>1, Zenon
      <3>4. count' \in Nat
        BY <3>1
      <3> QED
        BY <3>3, <3>4
    <2> QED
      BY <2>1, <2>2, <2>3, <2>4 DEF RequestStep
  <1>3. req' \in [Requests -> ApiRequest]
    <2>1. CASE WindowEnds
      BY <2>1 DEF WindowEnds, ApiRequest
    <2>2. ASSUME NEW r \in Requests
          PROVE  /\ PassThrough(r) \/ Arrive(r) \/ Reject(r) => req' \in [Requests -> ApiRequest]
                 /\ Handle(r) => req' \in [Requests -> ApiRequest]
                 /\ RecordRequest(r) \/ RecordExpiry(r) \/ RecordFails(r)
                      => req' \in [Requests -> ApiRequest]
      <3>1. CASE PassThrough(r)
        BY <3>1 DEF PassThrough, ApiRequest
      <3>2. CASE Arrive(r) \/ Reject(r)
        BY <3>2 DEF Arrive, Reject, ApiRequest
      <3>3. CASE Handle(r)
        <4>1. PICK pc \in {"done", "answer"} :
                 req' = [req EXCEPT ![r].pc = pc, ![r].handled = TRUE]
          BY <3>3 DEF Handle
        <4> QED
          BY <4>1 DEF ApiRequest
      <3>4. CASE RecordRequest(r) \/ RecordExpiry(r) \/ RecordFails(r)
        BY <3>4 DEF RecordRequest, RecordExpiry, RecordFails, ApiRequest
      <3> QED
        BY <3>1, <3>2, <3>3, <3>4
    <2>3. ASSUME NEW r \in Requests, NEW a \in BOOLEAN, NEW o \in BOOLEAN, Verdict(r, a, o)
          PROVE  req' \in [Requests -> ApiRequest]
      <3>1. req[r] \in ApiRequest
        OBVIOUS
      <3>2. [req[r] EXCEPT !.pc = "handle", !.allowed = a, !.open = o, !.window = a] \in ApiRequest
        BY <3>1 DEF ApiRequest
      <3>3. req' = [req EXCEPT ![r] = [req[r] EXCEPT !.pc = "handle", !.allowed = a,
                                                     !.open = o, !.window = a]]
        BY <2>3 DEF Verdict
      <3> QED
        BY <3>2, <3>3
    <2>4. ASSUME NEW r \in Requests, CheckRateLimit(r) \/ CheckRateLimitFails(r)
          PROVE  \E a \in BOOLEAN, o \in BOOLEAN : Verdict(r, a, o)
      BY <2>4 DEF CheckRateLimit, CheckRateLimitFails, RateLimitScript
    <2> QED
      BY <2>1, <2>2, <2>3, <2>4 DEF RequestStep
  <1>4. runs' \in [RunKeys -> Nat] /\ run' \in [Runs -> Run] /\ aged' \in BOOLEAN
    BY <1>1 DEF runVars
  <1>5. evalsha' \in {"refused", "runs"} /\ loaded' \in BOOLEAN /\ cached' \in BOOLEAN
    BY <1>1
  <1> QED
    BY <1>1a, <1>2, <1>3, <1>4, <1>5

LEMMA ServerTypeStep ==
    ASSUME LimitTypeOK, ServerStep
    PROVE  LimitTypeOK'
  <1> USE DEF LimitTypeOK
  <1>1. CASE LoadScripts
    BY <1>1 DEF LoadScripts, apiVars, runVars
  <1>2. CASE Restart
    <2>2. ASSUME count' = 0, ttl' = FALSE, aged' = TRUE, UNCHANGED run,
                 req' = [r \in Requests |-> [req[r] EXCEPT !.window = FALSE]],
                 runs' = [k \in RunKeys |-> 0]
          PROVE  /\ req' \in [Requests -> ApiRequest]
                 /\ runs' \in [RunKeys -> Nat] /\ run' \in [Runs -> Run] /\ aged' \in BOOLEAN
                 /\ count' \in Nat /\ ttl' \in BOOLEAN
      <3>1. req' \in [Requests -> ApiRequest]
        BY <2>2 DEF ApiRequest
      <3>2. runs' \in [RunKeys -> Nat] /\ run' \in [Runs -> Run]
        BY <2>2
      <3>3. aged' \in BOOLEAN /\ ttl' \in BOOLEAN
        BY <2>2
      <3>4. count' \in Nat
        BY <2>2
      <3> QED
        BY <3>1, <3>2, <3>3, <3>4
    <2>3. /\ req' \in [Requests -> ApiRequest]
          /\ runs' \in [RunKeys -> Nat] /\ run' \in [Runs -> Run] /\ aged' \in BOOLEAN
          /\ count' \in Nat /\ ttl' \in BOOLEAN
      <3>1. CASE UNCHANGED <<apiVars, runVars>>
        BY <3>1 DEF apiVars, runVars
      <3> QED
        BY <1>2, <2>2, <3>1 DEF Restart
    <2>4. evalsha' = evalsha /\ loaded' = loaded /\ cached' = FALSE /\ faults' \in 0..MaxFaults
      BY <1>2, RateLimitsAssumption DEF Restart, Fault
    <2> QED
      BY <2>3, <2>4
  <1> QED
    BY <1>1, <1>2 DEF ServerStep

\* Where the scripts run and the window is not over, the count is below Limit
\* when a request is admitted.
LEMMA RequestWindowStep ==
    ASSUME LimitTypeOK, WindowInv, RequestStep
    PROVE  WindowInv'
  <1>1. /\ count \in Nat /\ ttl \in BOOLEAN /\ Limit \in Nat \ {0}
        /\ req \in [Requests -> ApiRequest]
    BY RateLimitsAssumption DEF LimitTypeOK
  <1>2. /\ Cardinality(Admitted) <= count /\ Cardinality(Admitted) <= Limit
        /\ ttl => count > 0
        /\ Admitted # {} => ttl
    BY DEF WindowInv
  <1>3. CASE WindowEnds
    <2>1. Admitted' = {}
      BY <1>1, <1>3 DEF WindowEnds, Admitted, ApiRequest
    <2>2. count' = 0 /\ ttl' = FALSE
      BY <1>3 DEF WindowEnds
    <2>3. count' \in Nat /\ (ttl' => count' > 0)
      BY <2>2
    <2> QED
      BY <2>1, <2>3, EmptyWindow
  <1>4. ASSUME NEW r \in Requests, PassThrough(r) \/ Arrive(r) \/ Handle(r) \/ Reject(r)
                   \/ RecordFails(r)
        PROVE  WindowInv'
    <2>1. Admitted' \subseteq Admitted
      <3>1. CASE PassThrough(r)
        BY <1>1, <3>1 DEF PassThrough, Admitted, ApiRequest
      <3>2. CASE Arrive(r) \/ Reject(r) \/ RecordFails(r)
        BY <1>1, <3>2 DEF Arrive, Reject, RecordFails, Admitted, ApiRequest
      <3>3. CASE Handle(r)
        BY <1>1, <3>3 DEF Handle, Admitted, ApiRequest
      <3> QED
        BY <1>4, <3>1, <3>2, <3>3
    <2>2. count' = count /\ ttl' = ttl
      BY <1>4 DEF PassThrough, Arrive, Handle, Reject, RecordFails
    <2>3. count' \in Nat /\ count' >= count
      BY <1>1, <2>2
    <2> QED
      BY <2>1, <2>2, <2>3, NobodyAdmitted
  <1>5. ASSUME NEW r \in Requests, RecordRequest(r) \/ RecordExpiry(r)
        PROVE  WindowInv'
    <2>1. Admitted' \subseteq Admitted
      BY <1>1, <1>5 DEF RecordRequest, RecordExpiry, Admitted, ApiRequest
    <2>2. count' \in {count, count + 1}
      BY <1>5 DEF RecordRequest, RecordExpiry
    <2>3. (ttl' = ttl) \/ (ttl' <=> count' > 0)
      <3>1. CASE RecordExpiry(r)
        BY <3>1, Zenon DEF RecordExpiry
      <3> QED
        BY <1>5, <3>1 DEF RecordRequest
    <2>4. count' \in Nat /\ count' >= count
      BY <1>1, <2>2
    <2> QED
      BY <2>1, <2>3, <2>4, NobodyAdmitted
  <1>6. ASSUME NEW r \in Requests, NEW a \in BOOLEAN, NEW o \in BOOLEAN, Verdict(r, a, o),
               ~a \/ o, UNCHANGED <<count, ttl>>
        PROVE  WindowInv'
    <2>1. Admitted' \subseteq Admitted
      BY <1>1, <1>6 DEF Verdict, Admitted, ApiRequest
    <2>2. count' \in Nat /\ count' >= count /\ ttl' = ttl
      BY <1>1, <1>6
    <2> QED
      BY <2>1, <2>2, NobodyAdmitted
  <1>7. ASSUME NEW r \in Requests, CheckRateLimit(r), ~NewWindow, ~Exceeded, ScriptRuns,
               count' = count + 1, Verdict(r, TRUE, FALSE), UNCHANGED ttl
        PROVE  WindowInv'
    <2>1. Admitted' \subseteq Admitted \cup {r}
      BY <1>1, <1>7 DEF Verdict, Admitted, ApiRequest
    <2>2. Admitted \subseteq Requests
      BY DEF Admitted
    <2>3. IsFiniteSet(Admitted) /\ Cardinality(Admitted) \in Nat
      BY <2>2, AdmittedFinite
    <2>4. /\ IsFiniteSet(Admitted \cup {r})
          /\ Cardinality(Admitted \cup {r}) \in {Cardinality(Admitted), Cardinality(Admitted) + 1}
      BY <2>3, FS_AddElement
    <2>5. Cardinality(Admitted') <= Cardinality(Admitted \cup {r}) /\ IsFiniteSet(Admitted')
      BY <2>1, <2>4, FS_Subset
    <2>6. Cardinality(Admitted') \in Nat
      BY <2>5, FS_CardinalityType
    <2>7. ttl /\ count < Limit
      BY <1>1, <1>7 DEF NewWindow, Exceeded
    <2>8. Cardinality(Admitted') <= count' /\ Cardinality(Admitted') <= Limit
      BY <1>1, <1>2, <1>7, <2>3, <2>4, <2>5, <2>6, <2>7
    <2>9. ttl' /\ count' > 0
      BY <1>1, <1>7, <2>7
    <2> QED
      BY <2>8, <2>9 DEF WindowInv
  <1>8. ASSUME NEW r \in Requests, NewWindow, count' = 1, ttl' = TRUE, Verdict(r, TRUE, FALSE)
        PROVE  WindowInv'
    <2>1. Admitted = {}
      BY <1>1, <1>2, <1>8 DEF NewWindow
    <2>2. Admitted' = {r}
      BY <1>1, <1>8, <2>1 DEF Verdict, Admitted, ApiRequest
    <2>3. Cardinality(Admitted') = 1
      BY <2>2, FS_Singleton
    <2> QED
      BY <1>1, <1>8, <2>3 DEF WindowInv
  <1>9. ASSUME NEW r \in Requests, CheckRateLimit(r)
        PROVE  WindowInv'
    <2>1. CASE ~ScriptRuns
      BY <1>6, <1>9, <2>1 DEF CheckRateLimit
    <2>2. CASE ScriptRuns /\ NewWindow
      BY <1>8, <1>9, <2>2 DEF CheckRateLimit, RateLimitScript
    <2>3. CASE ScriptRuns /\ ~NewWindow /\ Exceeded
      BY <1>6, <1>9, <2>3 DEF CheckRateLimit, RateLimitScript
    <2>4. CASE ScriptRuns /\ ~NewWindow /\ ~Exceeded
      <3>1. count' = count + 1 /\ Verdict(r, TRUE, FALSE) /\ UNCHANGED ttl
        BY <1>9, <2>4 DEF CheckRateLimit, RateLimitScript
      <3> QED
        BY <1>7, <1>9, <2>4, <3>1
    <2> QED
      BY <2>1, <2>2, <2>3, <2>4
  <1>10. ASSUME NEW r \in Requests, CheckRateLimitFails(r)
         PROVE  WindowInv'
    BY <1>6, <1>10 DEF CheckRateLimitFails
  <1> QED
    BY <1>3, <1>4, <1>5, <1>9, <1>10 DEF RequestStep

LEMMA ServerWindowStep ==
    ASSUME LimitTypeOK, WindowInv, ServerStep
    PROVE  WindowInv'
  <1>1. CASE UNCHANGED apiVars
    BY <1>1 DEF apiVars, WindowInv, Admitted
  <1>2. CASE count' = 0 /\ ttl' = FALSE /\ req' = [r \in Requests |-> [req[r] EXCEPT !.window = FALSE]]
    <2>1. Admitted' = {}
      BY <1>2 DEF LimitTypeOK, Admitted, ApiRequest
    <2>2. count' \in Nat /\ (ttl' => count' > 0)
      BY <1>2
    <2> QED
      BY <2>1, <2>2, EmptyWindow
  <1> QED
    BY <1>1, <1>2 DEF ServerStep, LoadScripts, Restart

-----------------------------------------------------------------------------
(* RateLimits: the runs.                                                   *)

Holders(k) == {u \in Runs : k \in run[u].held}

\* A run is counted by its tenant's counter before the global one, and by none
\* before it starts.
CountedSoFar(u) ==
    /\ run[u].pc \in {"new", "global", "start"} => run[u].held = {}
    /\ run[u].pc = "start2" => run[u].held \subseteq {Owner[u]}

\* Where no call was lost, the counters a run is counted by follow from where
\* it is.
CountedExactly(u) ==
    /\ run[u].pc = "start2" => run[u].held = {Owner[u]}
    /\ run[u].pc = "running" => run[u].held = {Owner[u], Global}
    /\ run[u].pc = "end2" => run[u].held = {Global}
    /\ run[u].pc # "new" => loaded

\* A tenant's runs that were checked with no other between its check and its
\* increment.
OnTime(t) == {u \in Runs : Owner[u] = t /\ ~run[u].late
                              /\ run[u].pc \in {"global", "start", "start2", "running"}}

Flawless == faults = 0 /\ evalsha = "runs"

RunInv ==
    /\ faults = 0 => (loaded => cached)
    /\ \A u \in Runs : CountedSoFar(u)
    /\ Flawless => \A u \in Runs : CountedExactly(u)
    /\ CountersExact
    /\ (Flawless /\ ~aged) => \A t \in Tenants : Cardinality(OnTime(t)) <= RunLimit

LEMMA RunsFinite ==
    ASSUME NEW S, S \subseteq Runs
    PROVE  IsFiniteSet(S) /\ Cardinality(S) \in Nat
  BY RateLimitsAssumption, FS_Subset, FS_CardinalityType

LEMMA RunInvInit == LimitInit => RunInv
  <1> SUFFICES ASSUME LimitInit PROVE RunInv
    OBVIOUS
  <1>1. \A u \in Runs : run[u].held = {} /\ run[u].pc = "new"
    BY DEF LimitInit
  <1>2. ASSUME NEW k \in RunKeys
        PROVE  runs[k] = 0 /\ Cardinality({u \in Runs : k \in run[u].held}) = 0
    <2>1. {u \in Runs : k \in run[u].held} = {}
      BY <1>1
    <2> QED
      BY <2>1, FS_EmptySet DEF LimitInit
  <1>3. CountersExact
    BY <1>2 DEF CountersExact
  <1>4. ASSUME NEW t \in Tenants
        PROVE  Cardinality(OnTime(t)) <= RunLimit
    <2>1. OnTime(t) = {}
      BY <1>1 DEF OnTime
    <2> QED
      BY <2>1, FS_EmptySet, RateLimitsAssumption
  <1>5. loaded = FALSE
    BY DEF LimitInit
  <1> QED
    BY <1>1, <1>3, <1>4, <1>5 DEF RunInv, CountedSoFar, CountedExactly

\* What a step of one run leaves of the others, and its own next state.
LEMMA OneRunMoves ==
    ASSUME LimitTypeOK, NEW u \in Runs, NEW r \in Run, run' = [run EXCEPT ![u] = r]
    PROVE  /\ run' \in [Runs -> Run]
           /\ run'[u] = r
           /\ \A v \in Runs \ {u} : run'[v] = run[v]
  BY DEF LimitTypeOK

\* Steps that change neither a counter nor what counts whom.
LEMMA SameCounts ==
    ASSUME LimitTypeOK, CountersExact, \A v \in Runs : run'[v].held = run[v].held,
           runs' = runs, aged' = aged, faults' \in Nat, faults' >= faults
    PROVE  CountersExact'
  <1>1. \A k \in RunKeys : {v \in Runs : k \in run'[v].held} = {v \in Runs : k \in run[v].held}
    OBVIOUS
  <1>2. faults \in Nat /\ (faults' = 0 => faults = 0)
    BY RateLimitsAssumption DEF LimitTypeOK
  <1> QED
    BY <1>1, <1>2 DEF CountersExact

LEMMA CountUp ==
    ASSUME LimitTypeOK, CountersExact, NEW u \in Runs, NEW k \in RunKeys,
           k \notin run[u].held, run'[u].held = run[u].held \cup {k},
           \A v \in Runs \ {u} : run'[v] = run[v],
           runs' = [runs EXCEPT ![k] = runs[k] + 1], aged' = aged, faults' = faults
    PROVE  CountersExact'
  <1>1. SUFFICES ASSUME NEW j \in RunKeys
                 PROVE  /\ runs'[j] <= Cardinality(Holders(j)')
                        /\ (~aged /\ faults = 0) => runs'[j] = Cardinality(Holders(j)')
    BY DEF CountersExact, Holders
  <1>2. runs[j] \in Nat /\ runs[k] \in Nat
    BY DEF LimitTypeOK
  <1>3. Holders(j) \subseteq Runs
    BY DEF Holders
  <1>4. IsFiniteSet(Holders(j)) /\ Cardinality(Holders(j)) \in Nat
    BY <1>3, RunsFinite
  <1>5. /\ runs[j] <= Cardinality(Holders(j))
        /\ (~aged /\ faults = 0) => runs[j] = Cardinality(Holders(j))
    BY DEF CountersExact, Holders
  <1>6. CASE j = k
    <2>1. Holders(j)' = Holders(j) \cup {u} /\ u \notin Holders(j)
      BY <1>6 DEF Holders
    <2>2. Cardinality(Holders(j) \cup {u}) = Cardinality(Holders(j)) + 1
      BY <1>4, <2>1, FS_AddElement
    <2>3. Cardinality(Holders(j)') = Cardinality(Holders(j)) + 1
      BY <2>1, <2>2
    <2>4. runs'[j] = runs[j] + 1
      BY <1>6 DEF LimitTypeOK
    <2> QED
      BY <1>2, <1>4, <1>5, <2>3, <2>4
  <1>7. CASE j # k
    <2>1. Holders(j)' = Holders(j)
      BY <1>7 DEF Holders
    <2>2. runs'[j] = runs[j]
      BY <1>7 DEF LimitTypeOK
    <2> QED
      BY <1>5, <2>1, <2>2
  <1> QED
    BY <1>6, <1>7

LEMMA CountDown ==
    ASSUME LimitTypeOK, CountersExact, NEW u \in Runs, NEW k \in RunKeys,
           (~aged /\ faults = 0) => k \in run[u].held, run'[u].held = run[u].held \ {k},
           \A v \in Runs \ {u} : run'[v] = run[v],
           runs' = [runs EXCEPT ![k] = Decremented(runs[k])], aged' = aged, faults' = faults
    PROVE  CountersExact'
  <1>1. SUFFICES ASSUME NEW j \in RunKeys
                 PROVE  /\ runs'[j] <= Cardinality(Holders(j)')
                        /\ (~aged /\ faults = 0) => runs'[j] = Cardinality(Holders(j)')
    BY DEF CountersExact, Holders
  <1>2. runs[j] \in Nat /\ runs[k] \in Nat
    BY DEF LimitTypeOK
  <1>3. Holders(j) \subseteq Runs /\ Holders(j) \ {u} \subseteq Runs
    BY DEF Holders
  <1>4. /\ IsFiniteSet(Holders(j)) /\ Cardinality(Holders(j)) \in Nat
        /\ Cardinality(Holders(j) \ {u}) \in Nat
    BY <1>3, RunsFinite
  <1>5. /\ runs[j] <= Cardinality(Holders(j))
        /\ (~aged /\ faults = 0) => runs[j] = Cardinality(Holders(j))
    BY DEF CountersExact, Holders
  <1>6. CASE j = k
    <2>1. runs'[j] = Decremented(runs[j])
      BY <1>6 DEF LimitTypeOK
    <2>2. CASE u \in Holders(j)
      <3>1. Holders(j)' = Holders(j) \ {u}
        BY <1>6 DEF Holders
      <3>2. Cardinality(Holders(j) \ {u}) = Cardinality(Holders(j)) - 1
        BY <1>4, <2>2, FS_RemoveElement
      <3>3. Cardinality(Holders(j)') = Cardinality(Holders(j)) - 1
        BY <3>1, <3>2
      <3>4. Cardinality(Holders(j)') \in Nat
        BY <1>4, <3>1
      <3> QED
        BY <1>2, <1>4, <1>5, <2>1, <3>3, <3>4 DEF Decremented
    <2>3. CASE u \notin Holders(j)
      <3>1. Holders(j)' = Holders(j)
        BY <1>6, <2>3 DEF Holders
      <3>2. ~(~aged /\ faults = 0)
        BY <1>6, <2>3 DEF Holders
      <3> QED
        BY <1>2, <1>4, <1>5, <2>1, <3>1, <3>2 DEF Decremented
    <2> QED
      BY <2>2, <2>3
  <1>7. CASE j # k
    <2>1. Holders(j)' = Holders(j)
      BY <1>7 DEF Holders
    <2>2. runs'[j] = runs[j]
      BY <1>7 DEF LimitTypeOK
    <2> QED
      BY <1>5, <2>1, <2>2
  <1> QED
    BY <1>6, <1>7

LEMMA OnTimeFinite ==
    ASSUME NEW t
    PROVE  IsFiniteSet(OnTime(t)) /\ Cardinality(OnTime(t)) \in Nat
  <1>1. OnTime(t) \subseteq Runs
    BY DEF OnTime
  <1> QED
    BY <1>1, RunsFinite

\* Runs leave a tenant's number of checked runs, or stay in it.
LEMMA NobodyStarts ==
    ASSUME RunInv, Flawless' => Flawless, aged' = aged,
           \A t \in Tenants : OnTime(t)' \subseteq OnTime(t)
    PROVE  (Flawless' /\ ~aged') => \A t \in Tenants : Cardinality(OnTime(t)') <= RunLimit
  <1> SUFFICES ASSUME Flawless, ~aged, NEW t \in Tenants
               PROVE  Cardinality(OnTime(t)') <= RunLimit
    OBVIOUS
  <1>1. Cardinality(OnTime(t)) <= RunLimit /\ RunLimit \in Nat
    BY RateLimitsAssumption DEF RunInv
  <1>2. IsFiniteSet(OnTime(t)) /\ Cardinality(OnTime(t)) \in Nat
    BY OnTimeFinite
  <1>3. Cardinality(OnTime(t)') <= Cardinality(OnTime(t)) /\ IsFiniteSet(OnTime(t)')
    BY <1>2, FS_Subset
  <1>4. Cardinality(OnTime(t)') \in Nat
    BY <1>3, FS_CardinalityType
  <1> QED
    BY <1>1, <1>2, <1>3, <1>4

\* A step of the runs leaves the requests' part of the type alone.
LEMMA RunFrame ==
    ASSUME LimitTypeOK, run' \in [Runs -> Run], runs' \in [RunKeys -> Nat],
           aged' \in BOOLEAN, UNCHANGED apiVars, UNCHANGED <<evalsha, loaded, cached>>,
           faults' \in 0..MaxFaults
    PROVE  LimitTypeOK'
  BY DEF LimitTypeOK, apiVars

LEMMA CheckTenantStep ==
    ASSUME LimitTypeOK, RunInv, NEW u \in Runs, CheckTenant(u)
    PROVE  LimitTypeOK' /\ RunInv'
  <1> DEFINE pc == IF BelowLimit(Owner[u], RunLimit) THEN "global" ELSE "refused"
             late == Starting(Owner[u]) # {}
             r == [run[u] EXCEPT !.pc = pc, !.late = late]
  <1>1. /\ run \in [Runs -> Run] /\ run[u] \in Run /\ run[u].pc = "new" /\ run[u].held = {}
        /\ Owner[u] \in Tenants /\ loaded
    BY RateLimitsAssumption DEF LimitTypeOK, CheckTenant, RunInv, CountedSoFar
  <1>2. late \in BOOLEAN
    OBVIOUS
  <1>3. r \in Run /\ r.pc = pc /\ r.late = late /\ r.held = {}
    BY <1>1, <1>2 DEF Run
  <1>4. run' = [run EXCEPT ![u] = r]
    BY <1>1 DEF CheckTenant
  <1>5. UNCHANGED <<evalsha, loaded, cached, faults, runs, aged>> /\ UNCHANGED apiVars
    BY DEF CheckTenant, NoFault
  <1>6. pc \in {"global", "refused"} /\ (pc = "global" => BelowLimit(Owner[u], RunLimit))
    OBVIOUS
  <1>7. late <=> Starting(Owner[u]) # {}
    OBVIOUS
  <1> HIDE DEF pc, late, r
  <1>8. /\ run' \in [Runs -> Run] /\ run'[u] = r
        /\ \A v \in Runs \ {u} : run'[v] = run[v]
    BY <1>3, <1>4, OneRunMoves
  <1>9. LimitTypeOK'
    BY <1>5, <1>8, RunFrame DEF LimitTypeOK
  <1>10. CountersExact'
    <2>1. CountersExact /\ faults \in Nat
      BY RateLimitsAssumption DEF RunInv, LimitTypeOK
    <2>2. \A v \in Runs : run'[v].held = run[v].held
      BY <1>1, <1>3, <1>8
    <2>3. faults' \in Nat /\ faults' >= faults
      BY <1>5, <2>1
    <2> QED
      BY <1>5, <2>1, <2>2, <2>3, SameCounts
  <1>11. \A v \in Runs : CountedSoFar(v)'
    BY <1>3, <1>6, <1>8 DEF RunInv, CountedSoFar
  <1>12. Flawless' => \A v \in Runs : CountedExactly(v)'
    BY <1>1, <1>3, <1>5, <1>6, <1>8 DEF RunInv, CountedExactly, Flawless
  <1>13. (Flawless' /\ ~aged') => \A t \in Tenants : Cardinality(OnTime(t)') <= RunLimit
    <2>1. CASE pc = "refused" \/ late
      <3>1. \A t \in Tenants : OnTime(t)' \subseteq OnTime(t)
        BY <1>1, <1>3, <1>8, <2>1 DEF OnTime
      <3>2. (Flawless' => Flawless) /\ aged' = aged
        BY <1>5 DEF Flawless
      <3> QED
        BY <3>1, <3>2, NobodyStarts
    <2>2. CASE pc = "global" /\ ~late
      <3>1. SUFFICES ASSUME Flawless, ~aged, NEW t \in Tenants
                     PROVE  Cardinality(OnTime(t)') <= RunLimit
        BY <1>5 DEF Flawless
      <3>2. CASE t # Owner[u]
        <4>1. OnTime(t)' = OnTime(t)
          BY <1>8, <3>2 DEF OnTime
        <4> QED
          BY <3>1, <4>1 DEF RunInv
      <3>3. CASE t = Owner[u]
        <4>1. runs[t] < RunLimit /\ runs[t] \in Nat
          <5>1. ScriptRuns
            BY <1>1, <3>1 DEF RunInv, Flawless, ScriptRuns
          <5> QED
            BY <1>1, <1>6, <2>2, <3>3, <5>1 DEF BelowLimit, LimitTypeOK, RunKeys
        <4>2. OnTime(t) \subseteq Holders(t)
          BY <1>7, <2>2, <3>1, <3>3 DEF OnTime, Holders, Starting, RunInv, CountedExactly
        <4>3. Cardinality(Holders(t)) = runs[t]
          BY <3>1 DEF RunInv, CountersExact, Flawless, Holders, RunKeys
        <4>4. Holders(t) \subseteq Runs /\ OnTime(t) \subseteq Runs
          BY DEF Holders, OnTime
        <4>5. IsFiniteSet(Holders(t)) /\ IsFiniteSet(OnTime(t)) /\ Cardinality(OnTime(t)) \in Nat
          BY <4>4, RunsFinite
        <4>6. Cardinality(OnTime(t)) <= Cardinality(Holders(t))
          BY <4>2, <4>5, FS_Subset
        <4>7. OnTime(t)' = OnTime(t) \cup {u} /\ u \notin OnTime(t)
          BY <1>1, <1>3, <1>7, <1>8, <2>2, <3>3 DEF OnTime
        <4>8. Cardinality(OnTime(t) \cup {u}) = Cardinality(OnTime(t)) + 1
          BY <4>5, <4>7, FS_AddElement
        <4>9. Cardinality(OnTime(t)') = Cardinality(OnTime(t)) + 1
          BY <4>7, <4>8
        <4> QED
          BY <4>1, <4>3, <4>5, <4>6, <4>9, RateLimitsAssumption
      <3> QED
        BY <3>2, <3>3
    <2> QED
      BY <1>6, <2>1, <2>2
  <1> QED
    BY <1>5, <1>9, <1>10, <1>11, <1>12, <1>13 DEF RunInv

\* Steps that only move a run, or lose a call: it is counted as it was.
LEMMA UncountedStep ==
    ASSUME LimitTypeOK, RunInv, NEW u \in Runs, NEW r \in Run, run' = [run EXCEPT ![u] = r],
           r.held = run[u].held, runs' = runs, aged' = aged, UNCHANGED apiVars,
           UNCHANGED <<evalsha, loaded, cached>>, faults' \in 0..MaxFaults, faults' >= faults,
           r.pc \in {"new", "global", "start"} => run[u].pc \in {"new", "global", "start"},
           r.pc = "start2" => run[u].pc \in {"start", "start2"},
           faults' = 0 => \/ r.pc \in {"start", "refused"} /\ run[u].pc = "global" /\ r.late = run[u].late
                          \/ evalsha # "runs"
    PROVE  LimitTypeOK' /\ RunInv'
  <1>1. /\ run \in [Runs -> Run] /\ run[u] \in Run /\ CountersExact /\ faults \in Nat
    BY RateLimitsAssumption DEF LimitTypeOK, RunInv
  <1>2. /\ run' \in [Runs -> Run] /\ run'[u] = r
        /\ \A v \in Runs \ {u} : run'[v] = run[v]
    BY OneRunMoves
  <1>3. LimitTypeOK'
    <2>1. runs' \in [RunKeys -> Nat] /\ aged' \in BOOLEAN
      BY DEF LimitTypeOK
    <2> QED
      BY <1>2, <2>1, RunFrame
  <1>4. faults' \in Nat /\ (faults' = 0 => faults = 0)
    BY <1>1, RateLimitsAssumption
  <1>5. CountersExact'
    <2>1. \A v \in Runs : run'[v].held = run[v].held
      BY <1>2
    <2> QED
      BY <1>1, <1>4, <2>1, SameCounts
  <1>6. \A v \in Runs : CountedSoFar(v)'
    BY <1>2 DEF RunInv, CountedSoFar
  <1>7. Flawless' => /\ Flawless
                     /\ r.pc \in {"start", "refused"} /\ run[u].pc = "global" /\ r.late = run[u].late
    BY <1>4 DEF Flawless
  <1>8. Flawless' => \A v \in Runs : CountedExactly(v)'
    BY <1>2, <1>7 DEF RunInv, CountedExactly
  <1>9. (Flawless' /\ ~aged') => \A t \in Tenants : Cardinality(OnTime(t)') <= RunLimit
    <2>1. CASE Flawless'
      <3>1. \A t \in Tenants : OnTime(t)' \subseteq OnTime(t)
        BY <1>2, <1>7, <2>1 DEF OnTime
      <3> QED
        BY <1>7, <3>1, NobodyStarts
    <2> QED
      BY <2>1
  <1>10. faults' = 0 => (loaded' => cached')
    BY <1>4 DEF RunInv
  <1> QED
    BY <1>3, <1>5, <1>6, <1>8, <1>9, <1>10 DEF RunInv

LEMMA CheckGlobalStep ==
    ASSUME LimitTypeOK, RunInv, NEW u \in Runs, CheckGlobal(u)
    PROVE  LimitTypeOK' /\ RunInv'
  <1>1. PICK pc \in {"start", "refused"} : RunGoto(u, pc)
    BY DEF CheckGlobal
  <1> DEFINE r == [run[u] EXCEPT !.pc = pc]
  <1>2. /\ run \in [Runs -> Run] /\ run[u] \in Run /\ run[u].pc = "global"
    BY DEF LimitTypeOK, CheckGlobal
  <1>3. r \in Run /\ r.pc = pc /\ r.held = run[u].held /\ r.late = run[u].late
    BY <1>2 DEF Run
  <1>4. run' = [run EXCEPT ![u] = r]
    BY <1>1 DEF RunGoto
  <1>5. runs' = runs /\ aged' = aged /\ UNCHANGED apiVars /\ UNCHANGED <<evalsha, loaded, cached, faults>>
    BY DEF CheckGlobal, NoFault
  <1>6. faults' \in 0..MaxFaults /\ faults' >= faults
    BY <1>5, RateLimitsAssumption DEF LimitTypeOK
  <1> HIDE DEF r
  <1> QED
    BY <1>2, <1>3, <1>4, <1>5, <1>6, UncountedStep

LEMMA CheckFailsStep ==
    ASSUME LimitTypeOK, RunInv, NEW u \in Runs, CheckFails(u)
    PROVE  LimitTypeOK' /\ RunInv'
  <1> DEFINE pc == IF run[u].pc = "new" THEN "global" ELSE "start"
             r == [run[u] EXCEPT !.pc = pc, !.late = TRUE]
  <1>1. /\ run \in [Runs -> Run] /\ run[u] \in Run /\ run[u].pc \in {"new", "global"}
    BY DEF LimitTypeOK, CheckFails
  <1>2. r \in Run /\ r.pc = pc /\ r.held = run[u].held /\ pc \in {"global", "start"}
    BY <1>1 DEF Run
  <1>3. run' = [run EXCEPT ![u] = r]
    BY <1>1 DEF CheckFails
  <1>4. runs' = runs /\ aged' = aged /\ UNCHANGED apiVars /\ UNCHANGED <<evalsha, loaded, cached>>
    BY DEF CheckFails
  <1>5. faults' \in 0..MaxFaults /\ faults' >= faults /\ faults' # 0
    BY RateLimitsAssumption DEF LimitTypeOK, CheckFails, Fault
  <1> HIDE DEF r, pc
  <1>6. /\ r.pc \in {"new", "global", "start"} => run[u].pc \in {"new", "global", "start"}
        /\ r.pc = "start2" => run[u].pc \in {"start", "start2"}
    BY <1>1, <1>2
  <1> QED
    BY <1>2, <1>3, <1>4, <1>5, <1>6, UncountedStep

LEMMA RecordRunFailsStep ==
    ASSUME LimitTypeOK, RunInv, NEW u \in Runs, RecordRunFails(u)
    PROVE  LimitTypeOK' /\ RunInv'
  <1>1. PICK pc \in {"start2", "running", "end2", "ended"} :
           RunGoto(u, pc) /\ (pc = "start2" => run[u].pc = "start")
    BY DEF RecordRunFails
  <1> DEFINE r == [run[u] EXCEPT !.pc = pc]
  <1>2. run \in [Runs -> Run] /\ run[u] \in Run
    BY DEF LimitTypeOK
  <1>3. r \in Run /\ r.pc = pc /\ r.held = run[u].held
    BY <1>2 DEF Run
  <1>4. run' = [run EXCEPT ![u] = r]
    BY <1>1 DEF RunGoto
  <1>5. runs' = runs /\ aged' = aged /\ UNCHANGED apiVars /\ UNCHANGED <<evalsha, loaded, cached>>
    BY DEF RecordRunFails
  <1>6. faults' \in 0..MaxFaults /\ faults' >= faults /\ faults' # 0
    BY RateLimitsAssumption DEF LimitTypeOK, RecordRunFails, Fault
  <1> HIDE DEF r
  <1>7. /\ r.pc \in {"new", "global", "start"} => run[u].pc \in {"new", "global", "start"}
        /\ r.pc = "start2" => run[u].pc \in {"start", "start2"}
    BY <1>1, <1>3
  <1> QED
    BY <1>3, <1>4, <1>5, <1>6, <1>7, UncountedStep

\* One counter is raised or lowered where the scripts run, and the run goes on.
LEMMA RecordRunStep ==
    ASSUME LimitTypeOK, RunInv, NEW u \in Runs, RecordRunStart(u) \/ RecordRunEnd(u)
    PROVE  LimitTypeOK' /\ RunInv'
  <1>1. /\ run \in [Runs -> Run] /\ run[u] \in Run /\ CountersExact /\ faults \in Nat
        /\ runs \in [RunKeys -> Nat] /\ aged \in BOOLEAN
        /\ Owner[u] \in RunKeys /\ Global \in RunKeys /\ Owner[u] # Global
    BY RateLimitsAssumption DEF LimitTypeOK, RunInv, RunKeys
  <1>2. /\ aged' = aged /\ UNCHANGED apiVars /\ UNCHANGED <<evalsha, loaded, cached>>
        /\ faults' = faults /\ loaded
    BY DEF RecordRunStart, RecordRunEnd, NoFault
  <1>3. faults' \in 0..MaxFaults /\ faults' >= faults
    BY <1>1, <1>2 DEF LimitTypeOK
  <1>4. CountedSoFar(u) /\ (Flawless => CountedExactly(u))
    BY DEF RunInv
  <1>5. (faults = 0 /\ ~ScriptRuns) => evalsha # "runs"
    BY <1>2 DEF RunInv, ScriptRuns
  <1>6. ASSUME NEW k \in RunKeys,
               NEW pc \in {"start2", "running"}, Increment(u, k, pc),
               \/ run[u].pc = "start" /\ pc = "start2" /\ k = Owner[u]
               \/ run[u].pc = "start2" /\ pc = "running" /\ k = Global
        PROVE  LimitTypeOK' /\ RunInv'
    <2>1. CASE ~ScriptRuns
      <3> DEFINE r == [run[u] EXCEPT !.pc = pc]
      <3>1. r \in Run /\ r.pc = pc /\ r.held = run[u].held
        BY <1>1 DEF Run
      <3>2. run' = [run EXCEPT ![u] = r]
        BY <1>1, <1>6, <2>1 DEF Increment
      <3>3. runs' = runs
        BY <1>1, <1>6, <2>1 DEF Increment
      <3> HIDE DEF r
      <3>4. /\ r.pc \in {"new", "global", "start"} => run[u].pc \in {"new", "global", "start"}
            /\ r.pc = "start2" => run[u].pc \in {"start", "start2"}
        BY <1>6, <3>1
      <3>5. faults' = 0 => evalsha # "runs"
        BY <1>2, <1>5, <2>1
      <3> QED
        BY <1>2, <1>3, <3>1, <3>2, <3>3, <3>4, <3>5, UncountedStep
    <2>2. CASE ScriptRuns
      <3> DEFINE r == [run[u] EXCEPT !.pc = pc, !.held = run[u].held \cup {k}]
      <3>1. r \in Run /\ r.pc = pc /\ r.held = run[u].held \cup {k} /\ r.late = run[u].late
        BY <1>1 DEF Run
      <3>2. run' = [run EXCEPT ![u] = r]
        BY <1>1, <1>6, <2>2 DEF Increment
      <3>3. runs' = [runs EXCEPT ![k] = runs[k] + 1]
        BY <1>1, <1>6, <2>2 DEF Increment
      <3> HIDE DEF r
      <3>4. /\ run' \in [Runs -> Run] /\ run'[u] = r
            /\ \A v \in Runs \ {u} : run'[v] = run[v]
        BY <3>1, <3>2, OneRunMoves
      <3>5. LimitTypeOK'
        <4>1. runs' \in [RunKeys -> Nat] /\ aged' \in BOOLEAN
          BY <1>1, <1>2, <3>3
        <4> QED
          BY <1>2, <1>3, <3>4, <4>1, RunFrame
      <3>6. k \notin run[u].held
        BY <1>1, <1>4, <1>6 DEF CountedSoFar
      <3>7. CountersExact'
        <4>1. run'[u].held = run[u].held \cup {k}
          BY <3>1, <3>4
        <4> QED
          BY <1>1, <1>2, <3>3, <3>4, <3>6, <4>1, CountUp
      <3>8. \A v \in Runs : CountedSoFar(v)'
        BY <1>4, <1>6, <3>1, <3>4 DEF RunInv, CountedSoFar
      <3>9. Flawless' => Flawless /\ \A v \in Runs : CountedExactly(v)'
        BY <1>2, <1>4, <1>6, <3>1, <3>4 DEF RunInv, CountedSoFar, CountedExactly, Flawless
      <3>10. \A t \in Tenants : OnTime(t)' \subseteq OnTime(t)
        BY <1>6, <3>1, <3>4 DEF OnTime
      <3>11. (Flawless' /\ ~aged') => \A t \in Tenants : Cardinality(OnTime(t)') <= RunLimit
        BY <1>2, <3>9, <3>10, NobodyStarts
      <3> QED
        BY <1>2, <3>5, <3>7, <3>8, <3>9, <3>11 DEF RunInv
    <2> QED
      BY <2>1, <2>2
  <1>7. ASSUME NEW k \in RunKeys,
               NEW pc \in {"end2", "ended"}, Decrement(u, k, pc),
               \/ run[u].pc = "running" /\ pc = "end2" /\ k = Owner[u]
               \/ run[u].pc = "end2" /\ pc = "ended" /\ k = Global
        PROVE  LimitTypeOK' /\ RunInv'
    <2>1. CASE ~ScriptRuns
      <3> DEFINE r == [run[u] EXCEPT !.pc = pc]
      <3>1. r \in Run /\ r.pc = pc /\ r.held = run[u].held
        BY <1>1 DEF Run
      <3>2. run' = [run EXCEPT ![u] = r]
        BY <1>1, <1>7, <2>1 DEF Decrement
      <3>3. runs' = runs
        BY <1>1, <1>7, <2>1 DEF Decrement
      <3> HIDE DEF r
      <3>4. /\ r.pc \in {"new", "global", "start"} => run[u].pc \in {"new", "global", "start"}
            /\ r.pc = "start2" => run[u].pc \in {"start", "start2"}
        BY <1>7, <3>1
      <3>5. faults' = 0 => evalsha # "runs"
        BY <1>2, <1>5, <2>1
      <3> QED
        BY <1>2, <1>3, <3>1, <3>2, <3>3, <3>4, <3>5, UncountedStep
    <2>2. CASE ScriptRuns
      <3> DEFINE r == [run[u] EXCEPT !.pc = pc, !.held = run[u].held \ {k}]
      <3>1. r \in Run /\ r.pc = pc /\ r.held = run[u].held \ {k} /\ r.late = run[u].late
        BY <1>1 DEF Run
      <3>2. run' = [run EXCEPT ![u] = r]
        BY <1>1, <1>7, <2>2 DEF Decrement
      <3>3. runs' = [runs EXCEPT ![k] = Decremented(runs[k])]
        BY <1>1, <1>7, <2>2 DEF Decrement
      <3> HIDE DEF r
      <3>4. /\ run' \in [Runs -> Run] /\ run'[u] = r
            /\ \A v \in Runs \ {u} : run'[v] = run[v]
        BY <3>1, <3>2, OneRunMoves
      <3>5. LimitTypeOK'
        <4>1. runs' \in [RunKeys -> Nat]
          BY <1>1, <3>3 DEF Decremented
        <4>2. aged' \in BOOLEAN
          BY <1>1, <1>2
        <4> QED
          BY <1>2, <1>3, <3>4, <4>1, <4>2, RunFrame
      <3>6. (~aged /\ faults = 0) => k \in run[u].held
        <4>1. ScriptRuns => evalsha = "runs"
          BY DEF ScriptRuns
        <4> QED
          BY <1>4, <1>7, <2>2, <4>1 DEF CountedExactly, Flawless
      <3>7. CountersExact'
        <4>1. run'[u].held = run[u].held \ {k}
          BY <3>1, <3>4
        <4> QED
          BY <1>1, <1>2, <3>3, <3>4, <3>6, <4>1, CountDown
      <3>8. \A v \in Runs : CountedSoFar(v)'
        BY <1>4, <1>7, <3>1, <3>4 DEF RunInv, CountedSoFar
      <3>9. Flawless' => Flawless /\ \A v \in Runs : CountedExactly(v)'
        BY <1>1, <1>2, <1>4, <1>7, <3>1, <3>4 DEF RunInv, CountedExactly, Flawless
      <3>10. \A t \in Tenants : OnTime(t)' \subseteq OnTime(t)
        BY <1>7, <3>1, <3>4 DEF OnTime
      <3>11. (Flawless' /\ ~aged') => \A t \in Tenants : Cardinality(OnTime(t)') <= RunLimit
        BY <1>2, <3>9, <3>10, NobodyStarts
      <3> QED
        BY <1>2, <3>5, <3>7, <3>8, <3>9, <3>11 DEF RunInv
    <2> QED
      BY <2>1, <2>2
  <1>8. CASE RecordRunStart(u)
    BY <1>1, <1>6, <1>8 DEF RecordRunStart
  <1>9. CASE RecordRunEnd(u)
    BY <1>1, <1>7, <1>9 DEF RecordRunEnd
  <1> QED
    BY <1>8, <1>9

\* A counter is lost, or all are: no counter counts more than before.
LEMMA CountersLost ==
    ASSUME LimitTypeOK, RunInv, run' = run, aged', runs' \in [RunKeys -> Nat],
           \A k \in RunKeys : runs'[k] <= runs[k],
           faults' # 0 \/ UNCHANGED <<evalsha, loaded, cached, faults>>
    PROVE  RunInv'
  <1>1. CountersExact'
    <2>1. SUFFICES ASSUME NEW k \in RunKeys
                   PROVE  runs'[k] <= Cardinality({u \in Runs : k \in run'[u].held})
      BY DEF CountersExact
    <2>2. runs[k] \in Nat /\ runs'[k] \in Nat /\ runs'[k] <= runs[k]
      BY DEF LimitTypeOK
    <2>3. runs[k] <= Cardinality(Holders(k)) /\ Cardinality(Holders(k)) \in Nat
      <3>1. Holders(k) \subseteq Runs
        BY DEF Holders
      <3> QED
        BY <3>1, RunsFinite DEF RunInv, CountersExact, Holders
    <2>4. {u \in Runs : k \in run'[u].held} = Holders(k)
      BY DEF Holders
    <2>5. runs'[k] <= Cardinality(Holders(k))
      BY <2>2, <2>3
    <2> QED
      BY <2>4, <2>5
  <1>2. \A u \in Runs : CountedSoFar(u)'
    BY DEF RunInv, CountedSoFar
  <1>3. Flawless' => \A u \in Runs : CountedExactly(u)'
    BY DEF RunInv, CountedExactly, Flawless
  <1> QED
    BY <1>1, <1>2, <1>3 DEF RunInv

LEMMA CounterExpiresStep ==
    ASSUME LimitTypeOK, RunInv, NEW k \in RunKeys, CounterExpires(k)
    PROVE  LimitTypeOK' /\ RunInv'
  <1>1. runs \in [RunKeys -> Nat] /\ run \in [Runs -> Run] /\ faults \in 0..MaxFaults
    BY DEF LimitTypeOK
  <1>2. runs' = [runs EXCEPT ![k] = 0] /\ run' = run /\ UNCHANGED apiVars
    BY DEF CounterExpires
  <1>3. aged' /\ aged' \in BOOLEAN
    BY DEF CounterExpires
  <1>4. UNCHANGED <<evalsha, loaded, cached, faults>>
    BY DEF CounterExpires, NoFault
  <1>5. runs' \in [RunKeys -> Nat] /\ \A j \in RunKeys : runs'[j] <= runs[j]
    BY <1>1, <1>2
  <1>6. run' \in [Runs -> Run] /\ faults' \in 0..MaxFaults
    BY <1>1, <1>2, <1>4
  <1> QED
    BY <1>2, <1>3, <1>4, <1>5, <1>6, RunFrame, CountersLost

LEMMA RunsLeftAlone ==
    ASSUME LimitTypeOK, RunInv, UNCHANGED runVars, evalsha' = evalsha,
           loaded => loaded', faults' \in Nat, faults' >= faults,
           faults' = 0 => (loaded' => cached')
    PROVE  RunInv'
  <1>1. runs' = runs /\ run' = run /\ aged' = aged /\ faults \in Nat /\ CountersExact
    BY RateLimitsAssumption DEF runVars, LimitTypeOK, RunInv
  <1>2. CountersExact'
    <2>1. \A v \in Runs : run'[v].held = run[v].held
      BY <1>1
    <2> QED
      BY <1>1, <2>1, SameCounts
  <1>3. \A u \in Runs : CountedSoFar(u)'
    BY <1>1 DEF RunInv, CountedSoFar
  <1>4. Flawless' => Flawless
    BY <1>1 DEF Flawless
  <1>5. Flawless' => \A u \in Runs : CountedExactly(u)'
    BY <1>1, <1>4 DEF RunInv, CountedExactly
  <1>6. \A t \in Tenants : OnTime(t)' = OnTime(t)
    BY <1>1 DEF OnTime
  <1> QED
    BY <1>1, <1>2, <1>3, <1>4, <1>5, <1>6 DEF RunInv

LEMMA ServerRunStep ==
    ASSUME LimitTypeOK, RunInv, ServerStep
    PROVE  RunInv'
  <1>1. faults \in Nat /\ runs \in [RunKeys -> Nat]
    BY RateLimitsAssumption DEF LimitTypeOK
  <1>2. CASE LoadScripts
    <2>1. UNCHANGED runVars /\ evalsha' = evalsha /\ loaded' /\ cached' /\ faults' = faults
      BY <1>2 DEF LoadScripts
    <2> QED
      BY <1>1, <2>1, RunsLeftAlone
  <1>3. CASE Restart
    <2>1. faults' = faults + 1 /\ UNCHANGED <<evalsha, loaded>>
      BY <1>3 DEF Restart, Fault
    <2>2. CASE UNCHANGED runVars
      <3>1. faults' \in Nat /\ faults' >= faults /\ faults' # 0
        BY <1>1, <2>1
      <3> QED
        BY <2>1, <2>2, <3>1, RunsLeftAlone
    <2>3. CASE runs' = [k \in RunKeys |-> 0] /\ aged' = TRUE /\ UNCHANGED run
      <3>1. runs' \in [RunKeys -> Nat] /\ \A k \in RunKeys : runs'[k] <= runs[k]
        BY <1>1, <2>3
      <3>2. faults' # 0
        BY <1>1, <2>1
      <3>3. run' = run /\ aged'
        BY <2>3
      <3> QED
        BY <3>1, <3>2, <3>3, CountersLost
    <2> QED
      BY <1>3, <2>2, <2>3 DEF Restart
  <1> QED
    BY <1>2, <1>3 DEF ServerStep

LEMMA RequestRunStep ==
    ASSUME LimitTypeOK, RunInv, RequestStep
    PROVE  RunInv'
  <1>1. /\ UNCHANGED runVars
        /\ UNCHANGED <<evalsha, loaded, cached>>
        /\ UNCHANGED faults \/ Fault
    BY DEF RequestStep, WindowEnds, PassThrough, Arrive, CheckRateLimit, CheckRateLimitFails,
       Handle, Reject, RecordRequest, RecordExpiry, RecordFails, NoFault
  <1>2. faults \in Nat
    BY RateLimitsAssumption DEF LimitTypeOK
  <1>3. faults' \in Nat /\ faults' >= faults /\ (faults' = 0 => faults = 0)
    BY <1>1, <1>2 DEF Fault
  <1>4. faults' = 0 => (loaded' => cached')
    BY <1>1, <1>3 DEF RunInv
  <1> QED
    BY <1>1, <1>3, <1>4, RunsLeftAlone

LimitInv ==
    /\ LimitTypeOK
    /\ WindowInv
    /\ RunInv

LEMMA LimitInvInit == LimitInit => LimitInv
  BY LimitTypeInit, WindowInvInit, RunInvInit DEF LimitInv

LEMMA LimitInvStep == LimitInv /\ [LimitNext]_limitVars => LimitInv'
  <1> SUFFICES ASSUME LimitTypeOK, WindowInv, RunInv, [LimitNext]_limitVars
               PROVE  LimitTypeOK' /\ WindowInv' /\ RunInv'
    BY DEF LimitInv
  <1>1. CASE ServerStep
    BY <1>1, ServerTypeStep, ServerWindowStep, ServerRunStep
  <1>2. CASE RequestStep
    BY <1>2, RequestTypeStep, RequestWindowStep, RequestRunStep
  <1>3. CASE RunStep
    <2>1. ASSUME NEW u \in Runs, CheckTenant(u) \/ CheckGlobal(u) \/ CheckFails(u)
          PROVE  LimitTypeOK' /\ RunInv' /\ UNCHANGED <<count, ttl, req>>
      <3>1. UNCHANGED apiVars
        BY <2>1 DEF CheckTenant, CheckGlobal, CheckFails
      <3> QED
        BY <2>1, <3>1, CheckTenantStep, CheckGlobalStep, CheckFailsStep DEF apiVars
    <2>2. ASSUME NEW u \in Runs, RecordRunStart(u) \/ RecordRunEnd(u) \/ RecordRunFails(u)
          PROVE  LimitTypeOK' /\ RunInv' /\ UNCHANGED <<count, ttl, req>>
      <3>1. UNCHANGED apiVars
        BY <2>2 DEF RecordRunStart, RecordRunEnd, RecordRunFails
      <3> QED
        BY <2>2, <3>1, RecordRunStep, RecordRunFailsStep DEF apiVars
    <2>3. ASSUME NEW k \in RunKeys, CounterExpires(k)
          PROVE  LimitTypeOK' /\ RunInv' /\ UNCHANGED <<count, ttl, req>>
      BY <2>3, CounterExpiresStep DEF CounterExpires, apiVars
    <2>4. LimitTypeOK' /\ RunInv' /\ UNCHANGED <<count, ttl, req>>
      BY <1>3, <2>1, <2>2, <2>3 DEF RunStep
    <2>5. WindowInv'
      BY <2>4 DEF WindowInv, Admitted
    <2> QED
      BY <2>4, <2>5
  <1>4. CASE UNCHANGED limitVars
    <2>1. LimitTypeOK'
      BY <1>4 DEF LimitTypeOK, limitVars
    <2>2. WindowInv'
      BY <1>4 DEF WindowInv, Admitted, limitVars
    <2>3. RunInv'
      <3>1. UNCHANGED runVars /\ evalsha' = evalsha /\ loaded' = loaded /\ cached' = cached
            /\ faults' = faults
        BY <1>4 DEF limitVars, runVars
      <3>2. faults \in Nat
        BY RateLimitsAssumption DEF LimitTypeOK
      <3>3. faults' = 0 => (loaded' => cached')
        BY <3>1 DEF RunInv
      <3> QED
        BY <3>1, <3>2, <3>3, RunsLeftAlone
    <2> QED
      BY <2>1, <2>2, <2>3
  <1> QED
    BY <1>1, <1>2, <1>3, <1>4 DEF LimitNext

LEMMA LimitInvHolds == LimitSpec => []LimitInv
  BY LimitInvInit, LimitInvStep, PTL DEF LimitSpec

\* Where the scripts run, a window admits no more than Limit requests that were
\* checked, though a request is counted twice and record_request starts the
\* window again (RATE_LIMIT_SCRIPT).
THEOREM RequestsAreLimited == LimitSpec => []WindowLimit
  <1>1. LimitInv => WindowLimit
    BY DEF LimitInv, WindowInv, WindowLimit, Admitted
  <1> QED
    BY <1>1, LimitInvHolds, PTL

\* A run counter counts no run twice and none that never started, and exactly
\* those that were started and not ended if no call failed and none expired
\* (record_run_start, record_run_end).
THEOREM CountersStayExact == LimitSpec => []CountersExact
  <1>1. LimitInv => CountersExact
    BY DEF LimitInv, RunInv
  <1> QED
    BY <1>1, LimitInvHolds, PTL

\* More runs of a tenant than its plan allows are running only as far as they
\* were checked at the same time (check_concurrent_runs does not count them).
THEOREM RunsStayWithinLimit == LimitSpec => []RunsWithinLimit
  <1>1. LimitInv => RunsWithinLimit
    <2> SUFFICES ASSUME LimitInv, ~aged, ScriptRuns, faults = 0, NEW t \in Tenants
                 PROVE  LET active == {u \in Runs : Owner[u] = t /\ run[u].pc \in {"start2", "running"}}
                        IN Cardinality(active)
                             <= RunLimit + Cardinality({u \in active : run[u].late})
      BY DEF RunsWithinLimit
    <2> DEFINE active == {u \in Runs : Owner[u] = t /\ run[u].pc \in {"start2", "running"}}
               late == {u \in active : run[u].late}
    <2>1. Cardinality(OnTime(t)) <= RunLimit
      BY DEF LimitInv, RunInv, Flawless, ScriptRuns
    <2>2. late \subseteq Runs /\ OnTime(t) \subseteq Runs /\ active \subseteq late \cup OnTime(t)
      BY DEF OnTime
    <2> HIDE DEF active, late
    <2>3. /\ IsFiniteSet(late) /\ Cardinality(late) \in Nat
          /\ IsFiniteSet(OnTime(t)) /\ Cardinality(OnTime(t)) \in Nat
      BY <2>2, RunsFinite
    <2>4. /\ IsFiniteSet(late \cup OnTime(t))
          /\ Cardinality(late \cup OnTime(t))
               = Cardinality(late) + Cardinality(OnTime(t)) - Cardinality(late \cap OnTime(t))
      BY <2>3, FS_Union
    <2>5. IsFiniteSet(late \cap OnTime(t)) /\ Cardinality(late \cap OnTime(t)) \in Nat
      BY <2>3, FS_Intersection, FS_CardinalityType
    <2>6. Cardinality(active) <= Cardinality(late \cup OnTime(t)) /\ IsFiniteSet(active)
      BY <2>2, <2>4, FS_Subset
    <2>7. Cardinality(active) \in Nat
      BY <2>6, FS_CardinalityType
    <2>8. Cardinality(late \cup OnTime(t)) <= Cardinality(late) + RunLimit
      BY <2>1, <2>3, <2>4, <2>5, RateLimitsAssumption
    <2>9. Cardinality(active) <= RunLimit + Cardinality(late)
      BY <2>3, <2>4, <2>5, <2>6, <2>7, <2>8, RateLimitsAssumption
    <2> QED
      BY <2>9 DEF active, late
  <1> QED
    BY <1>1, LimitInvHolds, PTL

\* Every value of the middleware, of the run counters and of their Redis has
\* its type.
THEOREM LimitsTypeCorrect == LimitSpec => []LimitTypeOK
  <1>1. LimitInv => LimitTypeOK
    BY DEF LimitInv
  <1> QED
    BY <1>1, LimitInvHolds, PTL

\* The counters of runs agree with the runs and keep them within the limits.
THEOREM RunsStayCounted == LimitSpec => []RunsCounted
  BY LimitsTypeCorrect, CountersStayExact, RunsStayWithinLimit, PTL DEF RunsCounted

-----------------------------------------------------------------------------
(* ToolCalls.                                                              *)

\* A set of natural numbers has a least one.
LEMMA LeastNatural ==
    ASSUME NEW S, S \subseteq Nat, S # {}
    PROVE  \E n \in S : \A m \in S : n <= m
<1>1. PICK x \in S : \A y \in S : ~ (<<y, x>> \in OpToRel(<, Nat))
  BY NatLessThanWellFounded, WFMin
<1>2. \A y \in S : ~(y < x)
  BY <1>1 DEF OpToRel
<1>3. \A y \in S : y \in Nat
  OBVIOUS
<1> QED
  BY <1>2, <1>3

-----------------------------------------------------------------------------
(* The policy's rules.                                                     *)

\* What GrantsAssumption says of one list of rules.
Rules(rules) ==
    /\ rules \in Seq({rules[i] : i \in DOMAIN rules})
    /\ \A i \in DOMAIN rules : rules[i].priority \in Int /\ rules[i].effect \in Effects

\* Rule i is tried no later than rule j.
NotAfter(rules, i, j) ==
    \/ rules[i].priority > rules[j].priority
    \/ rules[i].priority = rules[j].priority /\ i <= j

\* Places are given once, and in the order in which the rules are tried.
LEMMA PlacesOrdered ==
    ASSUME NEW rules, Rules(rules)
    PROVE  /\ \A j \in DOMAIN rules : Place(rules, j) \in 1..Len(rules)
           /\ \A i, j \in DOMAIN rules : Place(rules, i) <= Place(rules, j) => NotAfter(rules, i, j)
           /\ \A i, j \in DOMAIN rules : Place(rules, i) = Place(rules, j) => i = j
<1> DEFINE N == Len(rules)
           Upto(j) == {i \in DOMAIN rules : NotAfter(rules, i, j)}
<1>1. N \in Nat /\ DOMAIN rules = 1..N
  BY DEF Rules
<1>2. IsFiniteSet(1..N) /\ Cardinality(1..N) = N
  <2>1. IsFiniteSet(1..N) /\ Cardinality(1..N) = IF 1 > N THEN 0 ELSE N - 1 + 1
    BY <1>1, FS_Interval
  <2> QED
    BY <1>1, <2>1
<1>3. ASSUME NEW j \in DOMAIN rules
      PROVE  /\ Place(rules, j) = Cardinality(Upto(j))
             /\ IsFiniteSet(Upto(j))
             /\ Cardinality(Upto(j)) \in 1..N
  <2>1. Upto(j) \subseteq 1..N
    BY <1>1
  <2>2. IsFiniteSet(Upto(j)) /\ Cardinality(Upto(j)) <= N /\ Cardinality(Upto(j)) \in Nat
    BY <1>2, <2>1, FS_Subset, FS_CardinalityType
  <2>3. j \in Upto(j)
    BY <1>1, <1>3 DEF NotAfter
  <2>4. Cardinality(Upto(j)) # 0
    BY <2>2, <2>3, FS_EmptySet
  <2>5. Place(rules, j) = Cardinality(Upto(j))
    BY DEF Place, NotAfter
  <2> QED
    BY <2>2, <2>4, <2>5, <1>1
<1>4. ASSUME NEW i \in DOMAIN rules, NEW j \in DOMAIN rules, ~NotAfter(rules, i, j)
      PROVE  Place(rules, j) < Place(rules, i)
  <2>1. Upto(j) \subseteq Upto(i)
    <3>1. SUFFICES ASSUME NEW k \in DOMAIN rules, NotAfter(rules, k, j)
                   PROVE  NotAfter(rules, k, i)
      OBVIOUS
    <3>2. /\ rules[i].priority \in Int /\ rules[j].priority \in Int /\ rules[k].priority \in Int
          /\ i \in Nat /\ j \in Nat /\ k \in Nat
      BY <1>1 DEF Rules
    <3> QED
      BY <3>1, <3>2, <1>4 DEF NotAfter
  <2>2. i \in Upto(i) /\ i \notin Upto(j)
    BY <1>1, <1>4 DEF NotAfter
  <2>3. Upto(j) # Upto(i)
    BY <2>2
  <2>4. /\ IsFiniteSet(Upto(i)) /\ Cardinality(Upto(i)) \in Nat /\ Cardinality(Upto(j)) \in Nat
        /\ Place(rules, i) = Cardinality(Upto(i)) /\ Place(rules, j) = Cardinality(Upto(j))
    BY <1>1, <1>3
  <2>5. Cardinality(Upto(j)) <= Cardinality(Upto(i)) /\ Cardinality(Upto(j)) # Cardinality(Upto(i))
    <3> HIDE DEF Upto
    <3> QED
      BY <2>1, <2>3, <2>4, FS_Subset
  <2> HIDE DEF Upto
  <2> QED
    BY <2>4, <2>5
<1> HIDE DEF Upto
<1>5. \A i, j \in DOMAIN rules : Place(rules, i) <= Place(rules, j) => NotAfter(rules, i, j)
  <2>1. \A i \in DOMAIN rules : Place(rules, i) \in Nat
    BY <1>1, <1>3
  <2> QED
    BY <1>4, <2>1
<1>6. ASSUME NEW i \in DOMAIN rules, NEW j \in DOMAIN rules,
             NotAfter(rules, i, j), NotAfter(rules, j, i)
      PROVE  i = j
  <2>1. /\ rules[i].priority \in Int /\ rules[j].priority \in Int
        /\ i \in Nat /\ j \in Nat
    BY <1>1 DEF Rules
  <2> QED
    BY <2>1, <1>6 DEF NotAfter
<1>7. \A i, j \in DOMAIN rules : Place(rules, i) = Place(rules, j) => i = j
  <2>1. \A i \in DOMAIN rules : Place(rules, i) \in Nat
    BY <1>1, <1>3
  <2> QED
    BY <1>5, <1>6, <2>1
<1> QED
  BY <1>1, <1>3, <1>5, <1>7

\* The order of the rules is a permutation: each place is some rule's.
LEMMA PlacesTaken ==
    ASSUME NEW rules, Rules(rules), NEW n \in DOMAIN rules
    PROVE  \E j \in DOMAIN rules : Place(rules, j) = n
<1> DEFINE N == Len(rules)
           f == [j \in 1..N |-> Place(rules, j)]
<1>1. N \in Nat /\ DOMAIN rules = 1..N
  BY DEF Rules
<1>2. IsFiniteSet(1..N) /\ Cardinality(1..N) = N
  <2>1. IsFiniteSet(1..N) /\ Cardinality(1..N) = IF 1 > N THEN 0 ELSE N - 1 + 1
    BY <1>1, FS_Interval
  <2> QED
    BY <1>1, <2>1
<1>3. SUFFICES ASSUME \A j \in DOMAIN rules : Place(rules, j) # n
               PROVE  FALSE
  OBVIOUS
<1>4. f \in [1..N -> (1..N) \ {n}]
  <2>1. \A j \in 1..N : Place(rules, j) \in (1..N) \ {n}
    BY <1>1, <1>3, PlacesOrdered
  <2> QED
    BY <2>1
<1>5. IsFiniteSet((1..N) \ {n}) /\ Cardinality((1..N) \ {n}) = N - 1
  <2>1. n \in 1..N
    BY <1>1
  <2>2. \A S, x : IsFiniteSet(S) /\ x \in S =>
          IsFiniteSet(S \ {x}) /\ Cardinality(S \ {x}) = Cardinality(S) - 1
    BY FS_RemoveElement
  <2> QED
    BY <1>2, <2>1, <2>2
<1>6. \E i, j \in 1..N : i # j /\ f[i] = f[j]
  <2>1. Cardinality((1..N) \ {n}) < Cardinality(1..N)
    BY <1>1, <1>2, <1>5
  <2> HIDE DEF f
  <2> QED
    BY <1>2, <1>4, <1>5, <2>1, FS_PigeonHole
<1> QED
  BY <1>1, <1>6, PlacesOrdered

\* What stands at place n of the sorted rules.
LEMMA SortedAt ==
    ASSUME NEW rules, Rules(rules), NEW n \in DOMAIN rules
    PROVE  \E j \in DOMAIN rules : Place(rules, j) = n /\ SortedRules(rules)[n] = rules[j]
<1> DEFINE j == CHOOSE k \in DOMAIN rules : Place(rules, k) = n
<1>1. j \in DOMAIN rules /\ Place(rules, j) = n
  BY PlacesTaken
<1>2. SortedRules(rules)[n] = rules[j]
  BY DEF SortedRules
<1> QED
  BY <1>1, <1>2

\* PolicyEvaluator.evaluate: sorting and taking the first that matches gives the
\* rule that decides, or the default.
LEMMA FirstMatchDecides ==
    ASSUME NEW policy, Rules(policy.rules), NEW k
    PROVE  \/ /\ \A i \in DOMAIN policy.rules : ~Decides(policy, k, i)
              /\ Evaluated(policy, k) = Applied(policy.default)
           \/ \E i \in DOMAIN policy.rules :
                 /\ Decides(policy, k, i)
                 /\ \A j \in DOMAIN policy.rules : Decides(policy, k, j) => j = i
                 /\ Evaluated(policy, k) = Applied(policy.rules[i].effect)
<1> DEFINE rules == policy.rules
           sorted == SortedRules(rules)
           matching == {n \in DOMAIN sorted : Matches(sorted[n], k)}
           first == CHOOSE n \in matching : \A m \in matching : n <= m
<1>1. Rules(rules) /\ Len(rules) \in Nat /\ DOMAIN rules = 1..Len(rules) /\ DOMAIN sorted = DOMAIN rules
  BY DEF Rules, SortedRules
<1>2. Evaluated(policy, k) = Applied(IF matching = {} THEN policy.default ELSE sorted[first].effect)
  BY DEF Evaluated
<1>3. \A j \in DOMAIN rules : Place(rules, j) \in DOMAIN rules /\ sorted[Place(rules, j)] = rules[j]
  <2>1. TAKE j \in DOMAIN rules
  <2>2. Place(rules, j) \in DOMAIN rules
    BY <1>1, PlacesOrdered
  <2>3. PICK i \in DOMAIN rules : Place(rules, i) = Place(rules, j) /\ sorted[Place(rules, j)] = rules[i]
    BY <1>1, <2>2, SortedAt
  <2> QED
    BY <1>1, <2>2, <2>3, PlacesOrdered
<1>4. CASE matching = {}
  <2>1. ASSUME NEW i \in DOMAIN rules, Decides(policy, k, i)
        PROVE  FALSE
    <3>1. Matches(rules[i], k)
      BY <2>1 DEF Decides
    <3>2. Place(rules, i) \in matching
      BY <1>1, <1>3, <3>1
    <3> QED
      BY <1>4, <3>2
  <2> QED
    BY <1>2, <1>4, <2>1
<1>5. CASE matching # {}
  <2>1. \E n \in matching : \A m \in matching : n <= m
    <3>1. matching \subseteq Nat
      BY <1>1
    <3> HIDE DEF matching
    <3> QED
      BY <1>5, <3>1, LeastNatural
  <2>2. first \in matching /\ \A m \in matching : first <= m
    <3> HIDE DEF matching
    <3> QED
      BY <2>1
  <2> HIDE DEF first
  <2>3. PICK i \in DOMAIN rules : Place(rules, i) = first /\ sorted[first] = rules[i]
    BY <1>1, <2>2, SortedAt
  <2>4. Matches(rules[i], k)
    BY <2>2, <2>3
  <2>5. \A j \in DOMAIN rules : Matches(rules[j], k) => NotAfter(rules, i, j)
    <3>1. SUFFICES ASSUME NEW j \in DOMAIN rules, Matches(rules[j], k)
                   PROVE  Place(rules, i) <= Place(rules, j)
      BY <1>1, PlacesOrdered
    <3>2. Place(rules, j) \in matching
      BY <1>1, <1>3, <3>1
    <3> QED
      BY <2>2, <2>3, <3>2
  <2>6. \A j \in DOMAIN rules :
           rules[j].priority \in Int /\ rules[i].priority \in Int /\ i \in Nat /\ j \in Nat
    BY <1>1 DEF Rules
  <2>7. Decides(policy, k, i)
    BY <2>4, <2>5, <2>6 DEF Decides, NotAfter
  <2>8. \A j \in DOMAIN rules : Decides(policy, k, j) => j = i
    BY <2>4, <2>5, <2>6 DEF Decides, NotAfter
  <2> QED
    BY <1>2, <1>5, <2>3, <2>7, <2>8
<1> QED
  BY <1>4, <1>5

\* A decision is what the policy promises of the call.
LEMMA DecisionAsPromised ==
    ASSUME NEW k, NEW g \in Grants
    PROVE  Decision(g, k) = Promised(g, k)
<1>1. Rules(g.policy.rules)
  BY GrantsAssumption DEF Rules
<1>2. Evaluated(g.policy, k) =
        IF \E i \in DOMAIN g.policy.rules : Decides(g.policy, k, i)
        THEN Applied(g.policy.rules[CHOOSE i \in DOMAIN g.policy.rules : Decides(g.policy, k, i)].effect)
        ELSE Applied(g.policy.default)
  <2>1. CASE \E i \in DOMAIN g.policy.rules :
                 /\ Decides(g.policy, k, i)
                 /\ \A j \in DOMAIN g.policy.rules : Decides(g.policy, k, j) => j = i
                 /\ Evaluated(g.policy, k) = Applied(g.policy.rules[i].effect)
    <3>1. PICK i \in DOMAIN g.policy.rules :
                 /\ Decides(g.policy, k, i)
                 /\ \A j \in DOMAIN g.policy.rules : Decides(g.policy, k, j) => j = i
                 /\ Evaluated(g.policy, k) = Applied(g.policy.rules[i].effect)
      BY <2>1
    <3>2. (CHOOSE j \in DOMAIN g.policy.rules : Decides(g.policy, k, j)) = i
      BY <3>1
    <3> QED
      BY <3>1, <3>2
  <2> QED
    BY <1>1, <2>1, FirstMatchDecides
<1> QED
  BY <1>2 DEF Decision, Promised

-----------------------------------------------------------------------------
(* Tool calls.                                                             *)

\* Calls of action a counted in the window that starts at t.
CountedIn(a, t) ==
    {c \in Calls : /\ call[c].pc = "done" /\ call[c].scope # NotGiven
                   /\ call[c].action = a /\ call[c].start = t}

LateIn(a, t) == {c \in CountedIn(a, t) : call[c].late}

\* All limits are of one scope.
OneScope ==
    \A c, d \in Calls : (call[c].scope # NotGiven /\ call[d].scope # NotGiven)
                           => call[c].scope = call[d].scope

\* A call that passed its limit, alone, and is not counted yet.
PassedAlone(c) ==
    call[c].pc \in {"execute", "count"} /\ call[c].scope # NotGiven /\ ~call[c].late

\* What a call carries at each point of execute_tool.
CallKnown(c) ==
    /\ call[c].pc = "new" => call[c].scope = NotGiven /\ call[c].answer = "none"
    /\ call[c].pc = "new" => ~call[c].executed
    /\ call[c].pc \in {"check", "execute", "count"} => call[c].action \in Actions
    /\ call[c].pc \in {"check", "count"} => call[c].scope \in Scopes
    /\ call[c].answer = "approval" =>
          /\ call[c].pc \in {"check", "limited", "waiting"}
          /\ ~call[c].executed
    /\ call[c].pc = "waiting" /\ call[c].answer = "approval" => c \in approvals

\* What the counter of a window says while all limits are of one scope, and how
\* long Redis keeps it.
CountersTrue ==
    /\ \A a \in Actions, t \in Times : counts[a][t] = Cardinality(CountedIn(a, t))
    /\ \A a \in Actions, t \in Times : \A c \in CountedIn(a, t) :
          t <= now /\ expires[a][t] >= t + 2 * Length[call[c].scope]

\* A call admitted alone finds room in the window it will be counted in, and no
\* other was.
RoomForPassed ==
    /\ \A c \in Calls : \A a, t :
          PassedAlone(c) /\ a = call[c].action /\ t = WindowStart(now, call[c].scope) =>
             Cardinality(CountedIn(a, t)) < call[c].limit + Cardinality(LateIn(a, t))
    /\ \A c, d \in Calls :
          PassedAlone(c) /\ PassedAlone(d) /\ call[c].action = call[d].action => c = d

\* A window someone was counted in is kept, but for late calls.
WindowsFit ==
    \A a \in Actions, t \in Times :
        CountedIn(a, t) # {} =>
            \E c \in CountedIn(a, t) :
                Cardinality(CountedIn(a, t)) <= call[c].limit + Cardinality(LateIn(a, t))

CallInv ==
    /\ CallTypeOK
    /\ PolicyDecides
    /\ \A c \in Calls : CallKnown(c)
    /\ OneScope => CountersTrue /\ RoomForPassed /\ WindowsFit

\* _get_window_start: an instant lies in its window.
LEMMA InItsWindow ==
    ASSUME NEW n \in Nat, NEW s \in Scopes
    PROVE  /\ WindowStart(n, s) \in Nat
           /\ WindowStart(n, s) <= n
           /\ n < WindowStart(n, s) + Length[s]
<1>1. Length[s] \in Nat \ {0}
  BY ToolCallsAssumption
<1>2. PICK q : q = n \div Length[s]
  OBVIOUS
<1>3. q \in Nat
  BY <1>1, <1>2
<1>4. q * Length[s] <= n /\ n < q * Length[s] + Length[s]
  BY <1>1, <1>2
<1>5. q * Length[s] \in Nat
  BY <1>1, <1>3
<1> QED
  BY <1>2, <1>4, <1>5 DEF WindowStart

\* A product grows with its factor.
LEMMA ProductGrows ==
    ASSUME NEW p \in Nat, NEW q \in Nat, NEW b \in Nat, p < q
    PROVE  p * b + b <= q * b
<1>1. PICK d \in Nat : q = p + 1 + d
  <2>1. q - p - 1 \in Nat /\ q = p + 1 + (q - p - 1)
    OBVIOUS
  <2> QED
    BY <2>1
<1>2. q * b = p * b + b + d * b
  BY <1>1
<1>3. d * b \in Nat /\ p * b \in Nat
  OBVIOUS
<1> QED
  BY <1>2, <1>3

\* A window begins when the next tick leaves the last one.
LEMMA NextWindow ==
    ASSUME NEW n \in Nat, NEW s \in Scopes
    PROVE  WindowStart(n + 1, s) = WindowStart(n, s) \/ WindowStart(n + 1, s) = n + 1
<1>1. Length[s] \in Nat \ {0}
  BY ToolCallsAssumption
<1>2. PICK p : p = n \div Length[s]
  OBVIOUS
<1>3. PICK q : q = (n + 1) \div Length[s]
  OBVIOUS
<1>4. p \in Nat /\ q \in Nat
  BY <1>1, <1>2, <1>3
<1>5. /\ WindowStart(n, s) = p * Length[s] /\ WindowStart(n + 1, s) = q * Length[s]
      /\ p * Length[s] \in Nat /\ q * Length[s] \in Nat
  BY <1>1, <1>2, <1>3, <1>4 DEF WindowStart
<1>6. /\ p * Length[s] <= n /\ n < p * Length[s] + Length[s]
      /\ q * Length[s] <= n + 1 /\ n + 1 < q * Length[s] + Length[s]
  BY <1>5, InItsWindow
<1>7. /\ p < q => p * Length[s] + Length[s] <= q * Length[s]
      /\ q < p => q * Length[s] + Length[s] <= p * Length[s]
  BY <1>1, <1>4, ProductGrows
<1> DEFINE P == p * Length[s]
           Q == q * Length[s]
<1>8. P \in Nat /\ Q \in Nat /\ P <= n /\ n < P + Length[s] /\ Q <= n + 1 /\ n + 1 < Q + Length[s]
      /\ (p < q => P + Length[s] <= Q) /\ (q < p => Q + Length[s] <= P) /\ (p = q => P = Q)
  BY <1>5, <1>6, <1>7
<1>9. P = WindowStart(n, s) /\ Q = WindowStart(n + 1, s)
  BY <1>5
<1> HIDE DEF P, Q
<1> QED
  BY <1>1, <1>4, <1>8, <1>9

\* The typed facts of one state.
LEMMA CountedFinite ==
    ASSUME NEW a, NEW t
    PROVE  /\ IsFiniteSet(CountedIn(a, t)) /\ IsFiniteSet(LateIn(a, t))
           /\ Cardinality(CountedIn(a, t)) \in Nat /\ Cardinality(LateIn(a, t)) \in Nat
<1>1. CountedIn(a, t) \subseteq Calls /\ LateIn(a, t) \subseteq Calls
  BY DEF CountedIn, LateIn
<1> QED
  BY <1>1, ToolCallsAssumption, FS_Subset, FS_CardinalityType

\* GET of the present window's key: the calls counted in it.
LEMMA CounterTrue ==
    ASSUME CallTypeOK, OneScope, CountersTrue,
           NEW a \in Actions, NEW c \in Calls, NEW s \in Scopes, call[c].scope = s
    PROVE  Counter(a, WindowStart(now, s)) = Cardinality(CountedIn(a, WindowStart(now, s)))
<1> PICK start : start = WindowStart(now, s)
  OBVIOUS
<1>1. now \in Nat /\ now <= MaxTime /\ Length[s] \in Nat \ {0} /\ MaxTime \in Nat
  BY ToolCallsAssumption DEF CallTypeOK, Times
<1>2. start \in Nat /\ start <= now /\ now < start + Length[s]
  BY <1>1, InItsWindow
<1>3. start \in Times
  BY <1>1, <1>2 DEF Times
<1>4. counts[a][start] = Cardinality(CountedIn(a, start))
  BY <1>3 DEF CountersTrue
<1>5. CASE CountedIn(a, start) = {}
  <2>1. counts[a][start] = 0
    BY <1>4, <1>5, FS_EmptySet
  <2> QED
    BY <1>4, <2>1 DEF Counter
<1>6. CASE CountedIn(a, start) # {}
  <2>1. PICK d \in CountedIn(a, start) : TRUE
    BY <1>6
  <2>2. d \in Calls /\ call[d].scope = s
    BY <2>1, ToolCallsAssumption DEF CountedIn, OneScope
  <2>3. expires[a][start] >= start + 2 * Length[s]
    BY <1>3, <2>1, <2>2 DEF CountersTrue
  <2>4. expires[a][start] \in Nat
    BY <1>3 DEF CallTypeOK
  <2>5. expires[a][start] > now
    BY <1>1, <1>2, <2>3, <2>4
  <2> QED
    BY <1>3, <1>4, <2>5 DEF Counter
<1> QED
  BY <1>5, <1>6

\* check_limit: the calls counted in the present window are below the limit.
LEMMA AllowedBelow ==
    ASSUME CallTypeOK, OneScope, CountersTrue,
           NEW a \in Actions, NEW c \in Calls, call[c].scope \in Scopes,
           Allowed(a, [scope |-> call[c].scope, limit |-> call[c].limit])
    PROVE  Cardinality(CountedIn(a, WindowStart(now, call[c].scope))) < call[c].limit
<1> DEFINE s == call[c].scope
           start == WindowStart(now, s)
           left == Length[s] - (now - start)
           before == Counter(a, start - Length[s])
<1>1. /\ now \in Nat /\ now <= MaxTime /\ call[c].limit \in Nat
      /\ Length[s] \in Nat \ {0} /\ MaxTime \in Nat
  BY ToolCallsAssumption DEF CallTypeOK, Call, Times
<1>2. start \in Nat /\ start <= now /\ now < start + Length[s]
  BY <1>1, InItsWindow
<1>3. start \in Times
  BY <1>1, <1>2 DEF Times
<1>4. left \in Nat
  BY <1>1, <1>2
<1>5. \A t \in Int : Counter(a, t) \in Nat
  BY DEF Counter, CallTypeOK, Times
<1>6. before \in Nat
  <2>1. start - Length[s] \in Int
    BY <1>1, <1>2
  <2> QED
    BY <1>5, <2>1
<1>7. (before * left) \div Length[s] \in Nat
  <2>1. PICK m \in Nat : m = before * left
    BY <1>4, <1>6
  <2> QED
    BY <1>1, <2>1
<1>8. Counter(a, start) + (before * left) \div Length[s] < call[c].limit
  BY DEF Allowed, CurrentCount
<1>9. Counter(a, start) = Cardinality(CountedIn(a, start))
  BY CounterTrue
<1>10. Counter(a, start) \in Nat
  BY <1>2, <1>5
<1> DEFINE x == (before * left) \div Length[s]
<1>11. Counter(a, start) + x < call[c].limit /\ x \in Nat
  BY <1>7, <1>8
<1> HIDE DEF x, start, before, left
<1>12. Cardinality(CountedIn(a, start)) < call[c].limit
  BY <1>1, <1>9, <1>10, <1>11
<1> QED
  BY <1>12 DEF start

\* Call c may be admitted: alone, and with room for it.
Fits(c, q) ==
    (q.pc \in {"execute", "count"} /\ q.scope # NotGiven /\ ~q.late) =>
        LET t == WindowStart(now, q.scope)
        IN /\ Cardinality(CountedIn(q.action, t)) < q.limit + Cardinality(LateIn(q.action, t))
           /\ \A d \in Calls : PassedAlone(d) /\ call[d].action = q.action => d = c

\* A step of one call that is not counted by it leaves the windows as they are.
LEMMA CallMoves ==
    ASSUME CallInv, NEW c \in Calls, NEW q \in Call, call' = [call EXCEPT ![c] = q],
           UNCHANGED <<now, counts, expires>>,
           call[c].pc # "done" \/ call[c].scope = NotGiven,
           q.pc # "done" \/ q.scope = NotGiven,
           call[c].scope = NotGiven \/ q.scope = call[c].scope,
           OneScope => Fits(c, q)
    PROVE  OneScope' => CountersTrue' /\ RoomForPassed' /\ WindowsFit'
<1> SUFFICES ASSUME OneScope'
             PROVE  CountersTrue' /\ RoomForPassed' /\ WindowsFit'
  OBVIOUS
<1>1. call'[c] = q /\ \A d \in Calls : d # c => call'[d] = call[d]
  BY DEF CallInv, CallTypeOK
<1>2. OneScope
  BY <1>1 DEF OneScope
<1>3. CountersTrue /\ RoomForPassed /\ WindowsFit /\ Fits(c, q)
  BY <1>2 DEF CallInv
<1>4. \A a, t : CountedIn(a, t)' = CountedIn(a, t)
  BY <1>1 DEF CountedIn
<1>5. \A a, t : \A d \in CountedIn(a, t) : call'[d] = call[d] /\ d \in Calls
  BY <1>1 DEF CountedIn
<1>6. \A a, t : LateIn(a, t)' = LateIn(a, t)
  BY <1>4, <1>5 DEF LateIn
<1>7. CountersTrue'
  BY <1>3, <1>4, <1>5 DEF CountersTrue
<1>8. WindowsFit'
  BY <1>3, <1>4, <1>5, <1>6 DEF WindowsFit
<1>9. \A d \in Calls : d # c => (PassedAlone(d)' <=> PassedAlone(d))
  BY <1>1 DEF PassedAlone
<1>10. PassedAlone(c)' <=> q.pc \in {"execute", "count"} /\ q.scope # NotGiven /\ ~q.late
  BY <1>1 DEF PassedAlone
<1>11. RoomForPassed'
  <2>1. ASSUME NEW d \in Calls, NEW a, NEW t, PassedAlone(d)',
               a = call'[d].action, t = WindowStart(now, call'[d].scope)
        PROVE  Cardinality(CountedIn(a, t)) < call'[d].limit + Cardinality(LateIn(a, t))
    <3>1. CASE d = c
      BY <1>1, <1>3, <1>10, <2>1, <3>1 DEF Fits
    <3>2. CASE d # c
      BY <1>1, <1>3, <1>9, <2>1, <3>2 DEF RoomForPassed
    <3> QED
      BY <3>1, <3>2
  <2>2. ASSUME NEW d \in Calls, NEW e \in Calls, PassedAlone(d)', PassedAlone(e)',
               call'[d].action = call'[e].action
        PROVE  d = e
    <3>1. CASE d # c /\ e # c
      BY <1>1, <1>3, <1>9, <2>2, <3>1 DEF RoomForPassed
    <3>2. CASE d = c /\ e # c
      BY <1>1, <1>3, <1>9, <1>10, <2>2, <3>2 DEF Fits
    <3>3. CASE d # c /\ e = c
      BY <1>1, <1>3, <1>9, <1>10, <2>2, <3>3 DEF Fits
    <3> QED
      BY <3>1, <3>2, <3>3
  <2>3. \A d \in Calls : \A a, t :
          PassedAlone(d)' /\ a = call'[d].action /\ t = WindowStart(now, call[d].scope)' =>
             Cardinality(CountedIn(a, t)') < call'[d].limit + Cardinality(LateIn(a, t)')
    BY <1>4, <1>6, <2>1 DEF WindowStart
  <2> QED
    BY <2>2, <2>3 DEF RoomForPassed
<1> QED
  BY <1>7, <1>8, <1>11

\* A call that stays where it is stays as known.
LEMMA OthersKnown ==
    ASSUME CallInv, NEW c \in Calls, NEW q \in Call, call' = [call EXCEPT ![c] = q],
           approvals \subseteq approvals', q.answer = q.promised, CallKnown(c)'
    PROVE  /\ call' \in [Calls -> Call]
           /\ PolicyDecides'
           /\ \A d \in Calls : CallKnown(d)'
<1>1. call'[c] = q /\ \A d \in Calls : d # c => call'[d] = call[d]
  BY DEF CallInv, CallTypeOK
<1>2. call' \in [Calls -> Call]
  BY DEF CallInv, CallTypeOK
<1>3. PolicyDecides'
  BY <1>1 DEF CallInv, PolicyDecides
<1>4. \A d \in Calls : CallKnown(d)'
  <2>1. TAKE d \in Calls
  <2>2. CASE d = c
    BY <2>2
  <2>3. CASE d # c
    <3>1. call'[d] = call[d] /\ CallKnown(d)
      BY <1>1, <2>3 DEF CallInv
    <3> QED
      BY <3>1 DEF CallKnown
  <2> QED
    BY <2>2, <2>3
<1> QED
  BY <1>2, <1>3, <1>4

\* _apply_effect gives an answer and a limit of one scope, or none.
LEMMA AppliedType ==
    ASSUME NEW e \in Effects
    PROVE  /\ Applied(e).answer \in {"allow", "deny", "approval"}
           /\ Applied(e).rate = NotGiven \/ (Applied(e).rate.scope \in Scopes /\ Applied(e).rate.limit \in Nat)
<1>1. RateLimit(e) = NotGiven \/ (RateLimit(e).scope \in Scopes /\ RateLimit(e).limit \in Nat)
  BY DEF RateLimit, Effects, Scopes
<1> QED
  BY <1>1 DEF Applied

LEMMA DecisionType ==
    ASSUME NEW k, NEW g \in Grants
    PROVE  /\ Decision(g, k).answer \in {"allow", "deny", "approval"}
           /\ \/ Decision(g, k).rate = NotGiven
              \/ Decision(g, k).rate.scope \in Scopes /\ Decision(g, k).rate.limit \in Nat
<1>1. Rules(g.policy.rules) /\ g.policy.default \in Effects
  BY GrantsAssumption DEF Rules
<1>2. \E e \in Effects : Evaluated(g.policy, k) = Applied(e)
  BY <1>1, FirstMatchDecides DEF Rules
<1> QED
  BY <1>2, AppliedType DEF Decision

-----------------------------------------------------------------------------
(* The steps.                                                              *)

\* The fields of a call that has moved on.
LEMMA CallFields ==
    ASSUME NEW q \in Call
    PROVE  /\ DOMAIN q = {"pc", "action", "answer", "promised", "scope", "limit",
                          "start", "late", "executed"}
           /\ q.pc \in {"new", "check", "execute", "count", "done", "nogrant", "limited",
                        "waiting", "raised"}
           /\ q.action \in Actions \cup {NotGiven} /\ q.answer \in Answers /\ q.promised \in Answers
           /\ q.scope \in Scopes \cup {NotGiven} /\ q.limit \in Nat
           /\ q.start \in Times /\ q.late \in BOOLEAN /\ q.executed \in BOOLEAN
BY DEF Call

\* The common end of the steps of one call.
LEMMA CallStep ==
    ASSUME CallInv, NEW c \in Calls, NEW q \in Call, call' = [call EXCEPT ![c] = q],
           UNCHANGED <<now, counts, expires>>, approvals \subseteq approvals',
           approvals' \subseteq Calls, crashes' \in 0..MaxCrashes,
           call[c].pc # "done" \/ call[c].scope = NotGiven,
           q.pc # "done" \/ q.scope = NotGiven,
           call[c].scope = NotGiven \/ q.scope = call[c].scope,
           q.answer = q.promised,
           OneScope => Fits(c, q),
           CallKnown(c)'
    PROVE  CallInv'
<1>1. OneScope' => CountersTrue' /\ RoomForPassed' /\ WindowsFit'
  BY CallMoves
<1>2. /\ call' \in [Calls -> Call] /\ PolicyDecides' /\ \A d \in Calls : CallKnown(d)'
  BY OthersKnown
<1>3. CallTypeOK'
  BY <1>2 DEF CallInv, CallTypeOK
<1> QED
  BY <1>1, <1>2, <1>3 DEF CallInv

LEMMA NoGrantKeeps ==
    ASSUME CallInv, NEW c \in Calls, NoGrant(c)
    PROVE  CallInv'
<1> PICK q : q = [call[c] EXCEPT !.pc = "nogrant"]
  OBVIOUS
<1>1. call[c] \in Call /\ CallKnown(c) /\ call[c].answer = call[c].promised /\ call[c].pc = "new"
  BY DEF CallInv, CallTypeOK, PolicyDecides, NoGrant
<1>2. q \in Call
  BY <1>1 DEF Call
<1>3. /\ q.pc = "nogrant" /\ q.scope = NotGiven /\ q.answer = call[c].answer
      /\ q.promised = call[c].promised /\ q.answer = "none"
  BY <1>1 DEF Call, CallKnown
<1>4. call' = [call EXCEPT ![c] = q] /\ UNCHANGED <<now, counts, expires, approvals, crashes>>
  BY DEF NoGrant, Unchanged, CallInv, CallTypeOK
<1>5. call'[c] = q
  BY <1>4 DEF CallInv, CallTypeOK
<1>6. CallKnown(c)'
  BY <1>3, <1>5 DEF CallKnown
<1> QED
  BY <1>1, <1>2, <1>3, <1>4, <1>6, CallStep DEF CallKnown, Fits, CallInv, CallTypeOK

LEMMA DecideKeeps ==
    ASSUME CallInv, NEW c \in Calls, NEW k \in CallKinds, NEW g \in Grants, Decide(c, k, g)
    PROVE  CallInv'
<1> PICK d : d = Decision(g, k)
  OBVIOUS
<1> PICK q : q = [call[c] EXCEPT !.pc = AfterDecision(d), !.action = k.action,
                                 !.answer = d.answer, !.promised = Promised(g, k).answer,
                                 !.scope = IF d.rate = NotGiven THEN NotGiven ELSE d.rate.scope,
                                 !.limit = IF d.rate = NotGiven THEN 0 ELSE d.rate.limit]
  OBVIOUS
<1>1. call[c] \in Call /\ CallKnown(c) /\ call[c].pc = "new"
  BY DEF CallInv, CallTypeOK, Decide
<1>2. /\ d.answer \in {"allow", "deny", "approval"} /\ d.answer = Promised(g, k).answer
      /\ d.rate = NotGiven \/ (d.rate.scope \in Scopes /\ d.rate.limit \in Nat)
  BY DecisionType, DecisionAsPromised
<1>3. k.action \in Actions
  BY DEF Actions
<1>4. /\ q.pc = AfterDecision(d) /\ q.action = k.action /\ q.answer = d.answer
      /\ q.promised = d.answer /\ q.executed = call[c].executed
      /\ d.rate = NotGiven => q.scope = NotGiven
      /\ d.rate # NotGiven => q.scope = d.rate.scope
  BY <1>1, <1>2 DEF Call
<1>5. /\ d.rate # NotGiven => q.pc = "check" /\ q.scope \in Scopes
      /\ d.rate = NotGiven => q.scope = NotGiven /\ q.pc \in {"waiting", "execute"}
      /\ d.rate = NotGiven /\ d.answer = "approval" => q.pc = "waiting"
  BY <1>2, <1>4 DEF AfterDecision
<1>6. q \in Call
  <2>1. AfterDecision(d) \in {"check", "waiting", "execute"}
    BY DEF AfterDecision
  <2>2. (IF d.rate = NotGiven THEN NotGiven ELSE d.rate.scope) \in Scopes \cup {NotGiven}
    BY <1>2
  <2>3. (IF d.rate = NotGiven THEN 0 ELSE d.rate.limit) \in Nat
    BY <1>2
  <2>4. d.answer \in Answers /\ Promised(g, k).answer \in Answers
    BY <1>2 DEF Answers
  <2>5. PICK scope, limit :
          /\ scope = IF d.rate = NotGiven THEN NotGiven ELSE d.rate.scope
          /\ limit = IF d.rate = NotGiven THEN 0 ELSE d.rate.limit
    OBVIOUS
  <2>6. q = [call[c] EXCEPT !.pc = AfterDecision(d), !.action = k.action,
                            !.answer = d.answer, !.promised = Promised(g, k).answer,
                            !.scope = scope, !.limit = limit]
    BY <2>5, Zenon
  <2>7. scope \in Scopes \cup {NotGiven} /\ limit \in Nat
    BY <2>2, <2>3, <2>5
  <2> QED
    BY <1>1, <1>3, <2>1, <2>4, <2>6, <2>7 DEF Call
<1>7. /\ call' = [call EXCEPT ![c] = q] /\ UNCHANGED <<now, counts, expires, crashes>>
      /\ approvals' = IF AfterDecision(d) = "waiting" THEN approvals \cup {c} ELSE approvals
  BY DEF Decide, CallInv, CallTypeOK
<1>8. call'[c] = q
  BY <1>7 DEF CallInv, CallTypeOK
<1>9. CallKnown(c)'
  <2>1. call[c].executed = FALSE
    BY <1>1 DEF CallKnown, Call
  <2> QED
    BY <1>3, <1>4, <1>5, <1>7, <1>8, <2>1 DEF CallKnown
<1>10. call[c].scope = NotGiven
  BY <1>1 DEF CallKnown
<1>11. Fits(c, q)
  BY <1>5 DEF Fits
<1>12. approvals \subseteq approvals' /\ approvals' \subseteq Calls /\ crashes' \in 0..MaxCrashes
  BY <1>7 DEF CallInv, CallTypeOK
<1>13. q.pc # "done" /\ q.answer = q.promised
  BY <1>4, <1>5
<1> QED
  BY <1>6, <1>7, <1>9, <1>10, <1>11, <1>12, <1>13, CallStep

LEMMA CheckKeeps ==
    ASSUME CallInv, NEW c \in Calls, Check(c)
    PROVE  CallInv'
<1> PICK a : a = call[c].action
  OBVIOUS
<1> PICK ok : ok = Allowed(a, [scope |-> call[c].scope, limit |-> call[c].limit])
  OBVIOUS
<1> PICK next : next = AfterCheck(c, ok)
  OBVIOUS
<1> PICK q : q = [call[c] EXCEPT !.pc = next, !.late = Uncounted(a) # {}]
  OBVIOUS
<1>1. /\ call[c] \in Call /\ CallKnown(c) /\ call[c].answer = call[c].promised
      /\ call[c].pc = "check" /\ call[c].scope \in Scopes /\ a \in Actions
  BY DEF CallInv, CallTypeOK, PolicyDecides, Check, CallKnown
<1>2. next \in {"limited", "waiting", "execute"}
  BY DEF AfterCheck
<1>3. q \in Call
  BY <1>1, <1>2 DEF Call
<1>4. /\ q.pc = next /\ q.action = a /\ q.answer = call[c].answer /\ q.promised = call[c].answer
      /\ q.scope = call[c].scope /\ q.limit = call[c].limit /\ q.executed = call[c].executed
      /\ q.late <=> Uncounted(a) # {}
  BY <1>1 DEF Call
<1>5. /\ call' = [call EXCEPT ![c] = q] /\ UNCHANGED <<now, counts, expires, crashes>>
      /\ approvals' = IF next = "waiting" THEN approvals \cup {c} ELSE approvals
  BY DEF Check, CallInv, CallTypeOK
<1>6. call'[c] = q
  BY <1>5 DEF CallInv, CallTypeOK
<1>7. CallKnown(c)'
  <2>1. call[c].answer = "approval" => next # "execute"
    BY DEF AfterCheck
  <2> QED
    BY <1>1, <1>2, <1>4, <1>5, <1>6, <2>1 DEF CallKnown
<1>8. OneScope => Fits(c, q)
  <2> SUFFICES ASSUME OneScope, q.pc = "execute", ~q.late
               PROVE  /\ Cardinality(CountedIn(a, WindowStart(now, q.scope)))
                           < q.limit + Cardinality(LateIn(a, WindowStart(now, q.scope)))
                      /\ \A d \in Calls : PassedAlone(d) /\ call[d].action = a => d = c
    BY <1>2, <1>4 DEF Fits
  <2>1. CallTypeOK /\ CountersTrue
    BY DEF CallInv
  <2>2. Allowed(a, [scope |-> call[c].scope, limit |-> call[c].limit])
    BY <1>4 DEF AfterCheck
  <2> PICK t : t = WindowStart(now, call[c].scope)
    OBVIOUS
  <2>3. Cardinality(CountedIn(a, t)) < call[c].limit
    BY <1>1, <2>1, <2>2, AllowedBelow
  <2>4. Cardinality(CountedIn(a, t)) \in Nat /\ Cardinality(LateIn(a, t)) \in Nat /\ call[c].limit \in Nat
    BY <1>1, CountedFinite, CallFields
  <2>5. Cardinality(CountedIn(a, t)) < call[c].limit + Cardinality(LateIn(a, t))
    BY <2>3, <2>4
  <2>6. Uncounted(a) = {}
    BY <1>4
  <2>7. \A d \in Calls : ~(PassedAlone(d) /\ call[d].action = a)
    BY <2>6 DEF Uncounted, PassedAlone
  <2> QED
    BY <1>4, <2>5, <2>7
<1>9. approvals \subseteq approvals' /\ approvals' \subseteq Calls /\ crashes' \in 0..MaxCrashes
  BY <1>5 DEF CallInv, CallTypeOK
<1>10. q.pc # "done" /\ q.answer = q.promised /\ q.scope = call[c].scope /\ call[c].pc # "done"
  BY <1>1, <1>2, <1>4
<1> QED
  BY <1>3, <1>5, <1>7, <1>8, <1>9, <1>10, CallStep

LEMMA ExecuteKeeps ==
    ASSUME CallInv, NEW c \in Calls, Execute(c)
    PROVE  CallInv'
<1> PICK q : q = [call[c] EXCEPT !.executed = TRUE,
                                 !.pc = IF call[c].scope = NotGiven THEN "done" ELSE "count"]
  OBVIOUS
<1>1. /\ call[c] \in Call /\ CallKnown(c) /\ call[c].answer = call[c].promised
      /\ call[c].pc = "execute" /\ call[c].action \in Actions
  BY DEF CallInv, CallTypeOK, PolicyDecides, Execute, CallKnown
<1>2. q \in Call
  BY <1>1 DEF Call
<1>3. /\ q.pc = IF call[c].scope = NotGiven THEN "done" ELSE "count"
      /\ q.action = call[c].action /\ q.answer = call[c].answer /\ q.promised = call[c].answer
      /\ q.scope = call[c].scope /\ q.limit = call[c].limit /\ q.late = call[c].late
  BY <1>1 DEF Call
<1>4. call' = [call EXCEPT ![c] = q] /\ UNCHANGED <<now, counts, expires, approvals, crashes>>
  BY DEF Execute, Unchanged, CallInv, CallTypeOK
<1>5. call'[c] = q
  BY <1>4 DEF CallInv, CallTypeOK
<1>6. CallKnown(c)'
  <2>1. call[c].scope # NotGiven => call[c].scope \in Scopes
    BY <1>1, CallFields
  <2>2. call[c].answer # "approval"
    BY <1>1 DEF CallKnown
  <2> QED
    BY <1>1, <1>3, <1>5, <2>1, <2>2 DEF CallKnown
<1>7. OneScope => Fits(c, q)
  <2> SUFFICES ASSUME OneScope, q.scope # NotGiven, ~q.late
               PROVE  Fits(c, q)
    BY DEF Fits
  <2>1. PassedAlone(c) /\ RoomForPassed
    BY <1>1, <1>3 DEF PassedAlone, CallInv
  <2> QED
    BY <1>3, <2>1 DEF Fits, RoomForPassed
<1>8. approvals \subseteq approvals' /\ approvals' \subseteq Calls /\ crashes' \in 0..MaxCrashes
  BY <1>4 DEF CallInv, CallTypeOK
<1>9. q.pc # "done" \/ q.scope = NotGiven
  BY <1>3
<1>10. call[c].pc # "done" /\ q.answer = q.promised /\ q.scope = call[c].scope
  BY <1>1, <1>3
<1> QED
  BY <1>2, <1>4, <1>6, <1>7, <1>8, <1>9, <1>10, CallStep

LEMMA CountFailsKeeps ==
    ASSUME CallInv, NEW c \in Calls, CountFails(c)
    PROVE  CallInv'
<1> PICK q : q = [call[c] EXCEPT !.pc = "raised"]
  OBVIOUS
<1>1. /\ call[c] \in Call /\ CallKnown(c) /\ call[c].answer = call[c].promised
      /\ call[c].pc = "count"
  BY DEF CallInv, CallTypeOK, PolicyDecides, CountFails
<1>2. q \in Call
  BY <1>1 DEF Call
<1>3. /\ q.pc = "raised" /\ q.answer = call[c].answer /\ q.promised = call[c].answer
      /\ q.scope = call[c].scope
  BY <1>1 DEF Call
<1>4. /\ call' = [call EXCEPT ![c] = q] /\ UNCHANGED <<now, counts, expires, approvals>>
      /\ crashes' = crashes + 1 /\ crashes < MaxCrashes
  BY DEF CountFails, CallInv, CallTypeOK
<1>5. call'[c] = q
  BY <1>4 DEF CallInv, CallTypeOK
<1>6. CallKnown(c)'
  <2>1. call[c].answer # "approval"
    BY <1>1 DEF CallKnown
  <2> QED
    BY <1>3, <1>5, <2>1 DEF CallKnown
<1>7. Fits(c, q)
  BY <1>3 DEF Fits
<1>8. approvals \subseteq approvals' /\ approvals' \subseteq Calls /\ crashes' \in 0..MaxCrashes
  BY <1>4, ToolCallsAssumption DEF CallInv, CallTypeOK
<1>9. call[c].pc # "done" /\ q.answer = q.promised /\ q.scope = call[c].scope /\ q.pc # "done"
  BY <1>1, <1>3
<1> QED
  BY <1>2, <1>4, <1>6, <1>7, <1>8, <1>9, CallStep

LEMMA TickKeeps ==
    ASSUME CallInv, Tick
    PROVE  CallInv'
<1>1. /\ now \in Nat /\ now < MaxTime /\ MaxTime \in Nat /\ now' = now + 1
      /\ UNCHANGED <<counts, expires, call, approvals, crashes>>
  BY ToolCallsAssumption DEF Tick, CallInv, CallTypeOK, Times
<1>2. CallTypeOK' /\ PolicyDecides' /\ \A c \in Calls : CallKnown(c)'
  BY <1>1 DEF CallInv, CallTypeOK, PolicyDecides, CallKnown, Times
<1>3. /\ \A a, t : CountedIn(a, t)' = CountedIn(a, t)
      /\ \A a, t : LateIn(a, t)' = LateIn(a, t)
  BY <1>1 DEF CountedIn, LateIn
<1> SUFFICES ASSUME OneScope'
             PROVE  CountersTrue' /\ RoomForPassed' /\ WindowsFit'
  BY <1>2 DEF CallInv
<1>4. CountersTrue /\ RoomForPassed /\ WindowsFit
  BY <1>1 DEF OneScope, CallInv
<1>5. CountersTrue'
  <2>1. \A t \in Times : t \in Nat /\ (t <= now => t <= now + 1)
    BY <1>1 DEF Times
  <2> QED
    BY <1>1, <1>3, <1>4, <2>1 DEF CountersTrue
<1>6. WindowsFit'
  BY <1>1, <1>3, <1>4 DEF WindowsFit
<1>7. ASSUME NEW c \in Calls, PassedAlone(c), NEW a, a = call[c].action,
             NEW t, t = WindowStart(now + 1, call[c].scope)
      PROVE  Cardinality(CountedIn(a, t)) < call[c].limit + Cardinality(LateIn(a, t))
  <2> PICK s : s = call[c].scope
    OBVIOUS
  <2> PICK w : w = WindowStart(now, s)
    OBVIOUS
  <2>1. call[c] \in Call /\ CallKnown(c)
    BY DEF CallInv, CallTypeOK
  <2>2. s \in Scopes /\ a \in Actions /\ call[c].limit \in Nat
    BY <1>7, <2>1, CallFields DEF CallKnown, PassedAlone
  <2>3. Cardinality(CountedIn(a, w)) < call[c].limit + Cardinality(LateIn(a, w))
    BY <1>4, <1>7 DEF RoomForPassed
  <2>4. CASE t = w
    BY <2>3, <2>4
  <2>5. CASE t = now + 1
    <3>1. CountedIn(a, t) = {}
      <4>1. t \in Times /\ ~(t <= now)
        BY <1>1, <2>5 DEF Times
      <4> QED
        BY <1>4, <2>2, <4>1 DEF CountersTrue
    <3>2. LateIn(a, t) = {}
      BY <3>1 DEF LateIn
    <3>3. LateIn(a, w) \in SUBSET CountedIn(a, w)
      BY DEF LateIn
    <3>4. Cardinality(LateIn(a, w)) <= Cardinality(CountedIn(a, w))
      BY <3>3, CountedFinite, FS_Subset
    <3>5. call[c].limit > 0
      BY <2>2, <2>3, <3>4, CountedFinite
    <3>6. Cardinality({}) = 0
      BY FS_EmptySet
    <3> QED
      BY <2>2, <3>1, <3>2, <3>5, <3>6
  <2> QED
    BY <1>1, <1>7, <2>2, <2>4, <2>5, NextWindow
<1>8. \A c \in Calls : PassedAlone(c)' <=> PassedAlone(c)
  BY <1>1 DEF PassedAlone
<1>9. \A c, d \in Calls :
          PassedAlone(c)' /\ PassedAlone(d)' /\ call'[c].action = call'[d].action => c = d
  BY <1>1, <1>4, <1>8 DEF RoomForPassed
<1>10. \A c \in Calls : \A a, t :
          PassedAlone(c)' /\ a = call'[c].action /\ t = WindowStart(now, call[c].scope)' =>
             Cardinality(CountedIn(a, t)') < call'[c].limit + Cardinality(LateIn(a, t)')
  BY <1>1, <1>3, <1>7, <1>8 DEF WindowStart
<1>11. RoomForPassed'
  BY <1>9, <1>10 DEF RoomForPassed
<1> QED
  BY <1>5, <1>6, <1>11

LEMMA CountKeeps ==
    ASSUME CallInv, NEW c \in Calls, Count(c)
    PROVE  CallInv'
<1> PICK a : a = call[c].action
  OBVIOUS
<1> PICK s : s = call[c].scope
  OBVIOUS
<1>a. PICK w : w = WindowStart(now, s)
  OBVIOUS
<1>b. PICK q : q = [call[c] EXCEPT !.pc = "done", !.start = w]
  OBVIOUS
<1>c. PICK n : n = Counter(a, w) + 1
  OBVIOUS
<1>1. /\ call[c] \in Call /\ CallKnown(c) /\ call[c].answer = call[c].promised
      /\ call[c].pc = "count" /\ a \in Actions /\ s \in Scopes
  BY DEF CallInv, CallTypeOK, PolicyDecides, Count, CallKnown
<1>2. /\ now \in Nat /\ now <= MaxTime /\ MaxTime \in Nat /\ Length[s] \in Nat \ {0}
      /\ w \in Nat /\ w <= now /\ w \in Times /\ s # NotGiven
  <2>1. now \in Nat /\ now <= MaxTime /\ MaxTime \in Nat /\ Length[s] \in Nat \ {0} /\ s # NotGiven
    BY <1>1, ToolCallsAssumption DEF CallInv, CallTypeOK, Times
  <2> QED
    BY <1>a, <1>1, <2>1, InItsWindow DEF Times
<1>3. q \in Call
  BY <1>b, <1>1, <1>2 DEF Call
<1>4. /\ q.pc = "done" /\ q.action = a /\ q.answer = call[c].answer /\ q.promised = call[c].answer
      /\ q.scope = s /\ q.limit = call[c].limit /\ q.late = call[c].late /\ q.start = w
  BY <1>b, <1>1 DEF Call
<1>5. /\ call' = [call EXCEPT ![c] = q] /\ UNCHANGED <<now, approvals, crashes>>
      /\ counts' = [counts EXCEPT ![a][w] = n]
      /\ expires' = [expires EXCEPT ![a][w] = now + 2 * Length[s]]
  BY <1>a, <1>b, <1>c DEF Count, Incremented, CallInv, CallTypeOK
<1>6. call'[c] = q /\ \A d \in Calls : d # c => call'[d] = call[d]
  BY <1>5 DEF CallInv, CallTypeOK
<1>7. CallKnown(c)'
  <2>1. call[c].answer # "approval"
    BY <1>1 DEF CallKnown
  <2> QED
    BY <1>4, <1>6, <2>1 DEF CallKnown
<1>8. /\ call' \in [Calls -> Call] /\ PolicyDecides' /\ \A d \in Calls : CallKnown(d)'
  BY <1>1, <1>3, <1>4, <1>5, <1>7, OthersKnown
<1>9. CallTypeOK'
  <2>1. n \in Nat
    <3>1. Counter(a, w) \in Nat
      BY <1>1 DEF Counter, CallInv, CallTypeOK
    <3> QED
      BY <1>c, <3>1
  <2>2. counts' \in [Actions -> [Times -> Nat]]
    BY <1>5, <2>1 DEF CallInv, CallTypeOK
  <2>3. now + 2 * Length[s] \in Nat
    BY <1>2
  <2>4. expires' \in [Actions -> [Times -> Nat]]
    BY <1>5, <2>3 DEF CallInv, CallTypeOK
  <2> QED
    BY <1>5, <1>8, <2>2, <2>4 DEF CallInv, CallTypeOK
<1> SUFFICES ASSUME OneScope'
             PROVE  CountersTrue' /\ RoomForPassed' /\ WindowsFit'
  BY <1>8, <1>9 DEF CallInv
<1>10. OneScope
  <2>1. \A d \in Calls : call'[d].scope = call[d].scope
    BY <1>4, <1>6
  <2> QED
    BY <2>1 DEF OneScope
<1>11. CallTypeOK /\ CountersTrue /\ RoomForPassed /\ WindowsFit
  BY <1>10 DEF CallInv
<1>12. c \notin CountedIn(a, w) /\ c \notin LateIn(a, w)
  BY <1>1 DEF CountedIn, LateIn
<1>13. CountedIn(a, w)' = CountedIn(a, w) \cup {c}
  BY <1>2, <1>4, <1>6 DEF CountedIn
<1>14. LateIn(a, w)' = IF call[c].late THEN LateIn(a, w) \cup {c} ELSE LateIn(a, w)
  <2>1. \A d \in CountedIn(a, w) : call'[d] = call[d]
    BY <1>6, <1>12 DEF CountedIn
  <2> QED
    BY <1>4, <1>6, <1>13, <2>1 DEF LateIn
<1>15. \A b, t : b # a \/ t # w => CountedIn(b, t)' = CountedIn(b, t)
  BY <1>1, <1>4, <1>6 DEF CountedIn
<1>16. \A b, t : b # a \/ t # w => LateIn(b, t)' = LateIn(b, t)
  <2>1. \A b, t : \A d \in CountedIn(b, t) : call'[d] = call[d]
    BY <1>1, <1>6 DEF CountedIn
  <2> QED
    BY <1>15, <2>1 DEF LateIn
<1>17. /\ Cardinality(CountedIn(a, w)') = Cardinality(CountedIn(a, w)) + 1
       /\ call[c].late => Cardinality(LateIn(a, w)') = Cardinality(LateIn(a, w)) + 1
       /\ ~call[c].late => Cardinality(LateIn(a, w)') = Cardinality(LateIn(a, w))
  BY <1>12, <1>13, <1>14, CountedFinite, FS_AddElement
<1>18. Counter(a, w) = Cardinality(CountedIn(a, w))
  BY <1>a, <1>1, <1>10, <1>11, CounterTrue
<1>19. CountersTrue'
  <2>1. ASSUME NEW b \in Actions, NEW t \in Times
        PROVE  counts'[b][t] = Cardinality(CountedIn(b, t)')
    <3>1. CASE b = a /\ t = w
      BY <1>c, <1>1, <1>5, <1>11, <1>17, <1>18, <3>1 DEF CallTypeOK
    <3>2. CASE b # a \/ t # w
      <4>1. counts'[b][t] = counts[b][t]
        BY <1>5, <1>11, <3>2 DEF CallTypeOK
      <4> QED
        BY <1>11, <1>15, <3>2, <4>1 DEF CountersTrue
    <3> QED
      BY <3>1, <3>2
  <2>2. ASSUME NEW b \in Actions, NEW t \in Times, NEW d \in CountedIn(b, t)'
        PROVE  t <= now' /\ expires'[b][t] >= t + 2 * Length[call'[d].scope]
    <3>1. CASE b = a /\ t = w
      <4>1. d \in Calls /\ call'[d].scope # NotGiven
        BY <2>2 DEF CountedIn
      <4>2. call'[d].scope = s
        <5>1. call'[c].scope = s
          BY <1>4, <1>6
        <5> QED
          BY <1>2, <4>1, <5>1 DEF OneScope
      <4>3. expires'[b][t] = now + 2 * Length[s]
        BY <1>1, <1>2, <1>5, <1>11, <3>1 DEF CallTypeOK
      <4> QED
        BY <1>2, <1>5, <3>1, <4>2, <4>3
    <3>2. CASE b # a \/ t # w
      <4>1. expires'[b][t] = expires[b][t]
        BY <1>5, <1>11, <3>2 DEF CallTypeOK
      <4>2. d \in CountedIn(b, t)
        BY <1>15, <2>2, <3>2
      <4>3. call'[d] = call[d]
        BY <1>1, <1>6, <4>2 DEF CountedIn
      <4> QED
        BY <1>5, <1>11, <4>1, <4>2, <4>3 DEF CountersTrue
    <3> QED
      BY <3>1, <3>2
  <2> QED
    BY <2>1, <2>2 DEF CountersTrue
<1>20. call[c].limit \in Nat
  BY <1>1, CallFields
<1>21. \A d \in Calls : PassedAlone(d)' => d # c /\ PassedAlone(d)
  BY <1>4, <1>6 DEF PassedAlone
<1>22. RoomForPassed'
  <2>1. ASSUME NEW d \in Calls, NEW b, NEW t, PassedAlone(d)',
               b = call'[d].action, t = WindowStart(now, call'[d].scope)
        PROVE  Cardinality(CountedIn(b, t)') < call'[d].limit + Cardinality(LateIn(b, t)')
    <3>1. d # c /\ PassedAlone(d) /\ call'[d] = call[d] /\ call[d].limit \in Nat
      BY <1>6, <1>11, <1>21, <2>1, CallFields DEF CallTypeOK
    <3>2. Cardinality(CountedIn(b, t)) < call[d].limit + Cardinality(LateIn(b, t))
      BY <1>11, <2>1, <3>1 DEF RoomForPassed
    <3>3. CASE b = a /\ t = w
      <4>1. call[c].late
        <5>1. SUFFICES ASSUME ~call[c].late
                       PROVE  FALSE
          OBVIOUS
        <5>2. PassedAlone(c)
          BY <1>1, <1>2, <5>1 DEF PassedAlone
        <5> QED
          BY <1>11, <2>1, <3>1, <3>3, <5>2 DEF RoomForPassed
      <4> QED
        BY <1>17, <3>1, <3>2, <3>3, <4>1, CountedFinite
    <3>4. CASE b # a \/ t # w
      BY <1>15, <1>16, <3>1, <3>2, <3>4
    <3> QED
      BY <3>3, <3>4
  <2>2. \A d, e \in Calls :
           PassedAlone(d)' /\ PassedAlone(e)' /\ call'[d].action = call'[e].action => d = e
    BY <1>6, <1>11, <1>21 DEF RoomForPassed
  <2>3. \A d \in Calls : \A b, t :
           PassedAlone(d)' /\ b = call'[d].action /\ t = WindowStart(now, call[d].scope)' =>
              Cardinality(CountedIn(b, t)') < call'[d].limit + Cardinality(LateIn(b, t)')
    BY <1>5, <2>1 DEF WindowStart
  <2> QED
    BY <2>2, <2>3 DEF RoomForPassed
<1>23. WindowsFit'
  <2>1. ASSUME NEW b \in Actions, NEW t \in Times, CountedIn(b, t)' # {}
        PROVE  \E d \in CountedIn(b, t)' :
                  Cardinality(CountedIn(b, t)') <= call'[d].limit + Cardinality(LateIn(b, t)')
    <3>1. CASE b # a \/ t # w
      <4>1. CountedIn(b, t)' = CountedIn(b, t) /\ LateIn(b, t)' = LateIn(b, t)
        BY <1>15, <1>16, <3>1
      <4>2. \A d \in CountedIn(b, t) : call'[d] = call[d]
        BY <1>1, <1>6 DEF CountedIn
      <4> QED
        BY <1>11, <2>1, <4>1, <4>2 DEF WindowsFit
    <3>2. CASE b = a /\ t = w /\ ~call[c].late
      <4>1. PassedAlone(c)
        BY <1>1, <1>2, <3>2 DEF PassedAlone
      <4>2. Cardinality(CountedIn(a, w)) < call[c].limit + Cardinality(LateIn(a, w))
        BY <1>a, <1>11, <4>1 DEF RoomForPassed
      <4>3. c \in CountedIn(a, w)' /\ call'[c].limit = call[c].limit
        BY <1>4, <1>6, <1>13
      <4>4. Cardinality(CountedIn(a, w)') <= call'[c].limit + Cardinality(LateIn(a, w)')
        BY <1>17, <1>20, <3>2, <4>2, <4>3, CountedFinite
      <4> QED
        BY <3>2, <4>3, <4>4
    <3>3. CASE b = a /\ t = w /\ call[c].late /\ CountedIn(a, w) = {}
      <4>1. Cardinality(CountedIn(a, w)) = 0
        BY <3>3, FS_EmptySet
      <4>2. c \in CountedIn(a, w)' /\ call'[c].limit = call[c].limit
        BY <1>4, <1>6, <1>13
      <4>3. Cardinality(CountedIn(a, w)') <= call'[c].limit + Cardinality(LateIn(a, w)')
        BY <1>17, <1>20, <3>3, <4>1, <4>2, CountedFinite
      <4> QED
        BY <3>3, <4>2, <4>3
    <3>4. CASE b = a /\ t = w /\ call[c].late /\ CountedIn(a, w) # {}
      <4>1. PICK d \in CountedIn(a, w) :
                Cardinality(CountedIn(a, w)) <= call[d].limit + Cardinality(LateIn(a, w))
        BY <1>1, <1>2, <1>11, <3>4 DEF WindowsFit
      <4>2. d \in Calls /\ d # c /\ call'[d] = call[d] /\ call[d].limit \in Nat
        BY <1>6, <1>11, <1>12, CallFields DEF CountedIn, CallTypeOK
      <4>3. d \in CountedIn(a, w)'
        BY <1>13
      <4>4. Cardinality(CountedIn(a, w)') <= call'[d].limit + Cardinality(LateIn(a, w)')
        BY <1>17, <3>4, <4>1, <4>2, CountedFinite
      <4> QED
        BY <3>4, <4>3, <4>4
    <3> QED
      BY <3>1, <3>2, <3>3, <3>4
  <2> QED
    BY <2>1 DEF WindowsFit
<1> QED
  BY <1>19, <1>22, <1>23

LEMMA CallInitGood == CallInit => CallInv
<1> SUFFICES ASSUME CallInit
             PROVE  CallInv
  OBVIOUS
<1>1. 0 \in Times /\ now = 0
  BY ToolCallsAssumption DEF CallInit, Times
<1>2. \A c \in Calls :
         call[c] = [pc |-> "new", action |-> NotGiven, answer |-> "none", promised |-> "none",
                    scope |-> NotGiven, limit |-> 0, start |-> 0, late |-> FALSE, executed |-> FALSE]
  BY DEF CallInit
<1>3. CallTypeOK
  BY <1>1, ToolCallsAssumption DEF CallInit, CallTypeOK, Call, Answers
<1>4. PolicyDecides /\ \A c \in Calls : CallKnown(c)
  BY <1>2 DEF PolicyDecides, CallKnown
<1>5. \A a, t : CountedIn(a, t) = {} /\ LateIn(a, t) = {}
  BY <1>2 DEF CountedIn, LateIn
<1>6. CountersTrue
  <2>1. \A a \in Actions, t \in Times : counts[a][t] = 0
    BY DEF CallInit
  <2>2. Cardinality({}) = 0
    BY FS_EmptySet
  <2> QED
    BY <1>5, <2>1, <2>2 DEF CountersTrue
<1>7. RoomForPassed /\ WindowsFit
  BY <1>2, <1>5 DEF RoomForPassed, WindowsFit, PassedAlone
<1> QED
  BY <1>3, <1>4, <1>6, <1>7 DEF CallInv

\* execute_tool: CallInv is inductive.
THEOREM CallInvHolds == CallSpec => []CallInv
<1>1. ASSUME CallInv, [CallNext]_callVars
      PROVE  CallInv'
  <2>1. CASE UNCHANGED callVars
    <3>1. UNCHANGED <<now, counts, expires, call, approvals, crashes>>
      BY <2>1 DEF callVars
    <3>2. CallTypeOK' /\ PolicyDecides' /\ \A c \in Calls : CallKnown(c)'
      BY <1>1, <3>1 DEF CallInv, CallTypeOK, PolicyDecides, CallKnown
    <3>3. (\A a, t : CountedIn(a, t)' = CountedIn(a, t)) /\ (\A a, t : LateIn(a, t)' = LateIn(a, t))
      BY <3>1 DEF CountedIn, LateIn
    <3>4. OneScope' => CountersTrue'
      BY <1>1, <3>1, <3>3 DEF CallInv, OneScope, CountersTrue
    <3>5. OneScope' => WindowsFit'
      BY <1>1, <3>1, <3>3 DEF CallInv, OneScope, WindowsFit
    <3>6. OneScope' => RoomForPassed'
      BY <1>1, <3>1, <3>3 DEF CallInv, OneScope, RoomForPassed, PassedAlone, WindowStart
    <3> QED
      BY <3>2, <3>4, <3>5, <3>6 DEF CallInv
  <2>2. CASE CallNext
    BY <1>1, <2>2, NoGrantKeeps, DecideKeeps, CheckKeeps, ExecuteKeeps, CountKeeps,
       CountFailsKeeps, TickKeeps DEF CallNext
  <2> QED
    BY <1>1, <2>1, <2>2
<1> QED
  BY <1>1, CallInitGood, PTL DEF CallSpec

\* execute_tool: for any policies, calls and windows, a tool call is treated as
\* its policy says, after the approval that wants, and within its limit but for
\* calls checked while others were not counted.
THEOREM ToolCallsStayHeld == CallSpec => []ToolCallsHeld
<1>1. CallInv => ToolCallsHeld
  <2> SUFFICES ASSUME CallInv
               PROVE  ToolCallsHeld
    OBVIOUS
  <2>1. ApprovalFirst
    BY DEF CallInv, CallKnown, ApprovalFirst
  <2>2. WindowKept
    <3> SUFFICES ASSUME NEW a \in Actions, NEW s \in Scopes, NEW t \in Times, OneScope,
                        NEW counted,
                        counted = {c \in Calls : /\ call[c].pc = "done" /\ call[c].scope = s
                                                 /\ call[c].action = a /\ call[c].start = t},
                        counted # {}
                 PROVE  \E c \in counted :
                           Cardinality(counted) <= call[c].limit
                                                     + Cardinality({d \in counted : call[d].late})
      BY DEF WindowKept, OneScope
    <3>1. counted = CountedIn(a, t)
      <4>1. PICK c \in counted : TRUE
        OBVIOUS
      <4> QED
        BY <4>1, ToolCallsAssumption DEF CountedIn, OneScope
    <3>2. {d \in counted : call[d].late} = LateIn(a, t)
      BY <3>1 DEF LateIn
    <3> QED
      BY <3>1, <3>2 DEF CallInv, WindowsFit
  <2> QED
    BY <2>1, <2>2 DEF CallInv, ToolCallsHeld
<1> QED
  BY <1>1, CallInvHolds, PTL
=============================================================================
