-------------------------------- MODULE Outbox --------------------------------
(***************************************************************************)
(* The audit outbox: SQLAuditRepository.add                                *)
(* (app/infrastructure/db/repositories/audit.py) puts an event in          *)
(* outbox_events in the transaction of the audited change, and the         *)
(* flushers of app/workers/outbox_flusher.py, dramatiq workers and         *)
(* run_outbox_flusher alike, process what is not processed yet.            *)
(*                                                                         *)
(* A flusher reads a batch without ordering or locking it, handles one     *)
(* event after the other (process, set processed_at, flush), and commits   *)
(* once at the end.  A flushed row stays locked until then.  A flush that  *)
(* fails leaves the session unusable, the handler in the except branch     *)
(* fails on it too, and the whole batch is rolled back: retry_count and    *)
(* last_error never reach the table and are left out.                      *)
(***************************************************************************)
EXTENDS Integers, FiniteSets

CONSTANTS
    Events,         \* the audit events that may be written
    Flushers,       \* the flushers running at the same time
    Nothing,           \* no flusher, no event
    BatchSize,      \* settings.audit_batch_size
    MaxFaults       \* bound: database errors, crashes and time limits

ASSUME OutboxAssumption ==
    /\ Nothing \notin Flushers \cup Events
    /\ IsFiniteSet(Flushers)
    /\ BatchSize \in Nat \ {0}
    /\ MaxFaults \in Nat

VARIABLES
    pending,    \* committed rows whose processed_at is NULL
    processed,  \* committed rows whose processed_at is set
    fl,         \* per flusher, its run
    delivered,  \* how often _process_audit_event got an event; observed only
    rollbacks,  \* batches rolled back; observed only
    faults

outboxVars == <<pending, processed, fl, delivered, rollbacks, faults>>

\* todo: the events of the batch still to handle; current: the one whose
\* flush is under way; marked: those flushed, whose rows it holds locked.
Run == [pc : {"idle", "loop", "flush", "wait"}, todo : SUBSET Events,
        current : Events \cup {Nothing}, marked : SUBSET Events]

Idle == [pc |-> "idle", todo |-> {}, current |-> Nothing, marked |-> {}]

\* Bound: the two observations stop counting here.
Cap == Cardinality(Flushers) + MaxFaults + 2

CountUp(n) == IF n < Cap THEN n + 1 ELSE n

OutboxTypeOK ==
    /\ pending \in SUBSET Events
    /\ processed \in SUBSET Events
    /\ fl \in [Flushers -> Run]
    /\ delivered \in [Events -> Nat]
    /\ rollbacks \in Nat
    /\ faults \in 0..MaxFaults

OutboxInit ==
    /\ pending = {}
    /\ processed = {}
    /\ fl = [f \in Flushers |-> Idle]
    /\ delivered = [e \in Events |-> 0]
    /\ rollbacks = 0
    /\ faults = 0

\* The transaction of an audited change commits, with its event; one that is
\* rolled back leaves no event.
AddAuditEntry(e) ==
    /\ e \notin pending \cup processed
    /\ pending' = pending \cup {e}
    /\ UNCHANGED <<processed, fl, delivered, rollbacks, faults>>

-----------------------------------------------------------------------------
(* _flush_audit_outbox_async.                                              *)

\* Mutated form: the rows are not filtered by processed_at.
UnprocessedAll == pending \cup processed

Unprocessed == pending

\* SELECT ... WHERE processed_at IS NULL LIMIT n, in no particular order.
Fetch(f) ==
    /\ fl[f].pc = "idle"
    /\ \E batch \in SUBSET Unprocessed :
          /\ batch # {}
          /\ \/ Cardinality(batch) = BatchSize
             \/ batch = Unprocessed /\ Cardinality(batch) < BatchSize
          /\ fl' = [fl EXCEPT ![f] = [Idle EXCEPT !.pc = "loop", !.todo = batch]]
    /\ UNCHANGED <<pending, processed, delivered, rollbacks, faults>>

\* Mutated form: an event whose processing failed is marked all the same.
ProcessEventSwallowed(f, e) ==
    /\ fl[f].pc = "loop"
    /\ e \in fl[f].todo
    /\ fl' = [fl EXCEPT ![f].pc = "flush", ![f].current = e, ![f].todo = @ \ {e}]
    /\ UNCHANGED <<pending, processed, delivered, rollbacks, faults>>

\* _process_audit_event, then processed_at on the instance.
ProcessEvent(f, e) ==
    /\ fl[f].pc = "loop"
    /\ e \in fl[f].todo
    /\ fl' = [fl EXCEPT ![f].pc = "flush", ![f].current = e, ![f].todo = @ \ {e}]
    /\ delivered' = [delivered EXCEPT ![e] = CountUp(@)]
    /\ UNCHANGED <<pending, processed, rollbacks, faults>>

\* Some other flusher holds the row that f's UPDATE needs.
Locked(f) == \E g \in Flushers \ {f} : fl[f].current \in fl[g].marked

\* The UPDATE has gone through.
Flushed(r) ==
    [r EXCEPT !.pc = "loop", !.current = Nothing, !.marked = @ \cup {r.current}]

FlushMark(f) ==
    /\ fl[f].pc = "flush"
    /\ fl' = [fl EXCEPT ![f] = IF Locked(f) THEN [@ EXCEPT !.pc = "wait"]
                                           ELSE Flushed(@)]
    /\ UNCHANGED <<pending, processed, delivered, rollbacks, faults>>

\* The flushers that wait for a row f holds.
Waiting(f) ==
    {g \in Flushers : fl[g].pc = "wait" /\ fl[g].current \in fl[f].marked}

\* The choices of one of them for each such row.
Heirs(f) ==
    {G \in SUBSET Waiting(f) :
        \A g \in Waiting(f) : \E h \in G :
            {i \in G : fl[i].current = fl[g].current} = {h}}

\* The end of f's transaction: a row it held goes to a flusher waiting for
\* it, whose UPDATE then goes through, also if f has processed the event.
Release(f) ==
    \E G \in Heirs(f) :
        fl' = [g \in Flushers |-> IF g = f THEN Idle
                                  ELSE IF g \in G THEN Flushed(fl[g])
                                  ELSE fl[g]]

BatchDone(f) == fl[f].pc = "loop" /\ fl[f].todo = {}

Commit(f) ==
    /\ BatchDone(f)
    /\ pending' = pending \ fl[f].marked
    /\ processed' = processed \cup fl[f].marked
    /\ Release(f)
    /\ UNCHANGED <<delivered, rollbacks, faults>>

RollBack(f) ==
    /\ Release(f)
    /\ rollbacks' = CountUp(rollbacks)
    /\ UNCHANGED <<pending, processed, delivered>>

\* The database fails, the process dies, the actor's time limit strikes.
Abort(f) ==
    /\ fl[f].pc # "idle"
    /\ faults < MaxFaults
    /\ faults' = faults + 1
    /\ RollBack(f)

\* f is in a circle of flushers that wait for each other: the database aborts
\* one of them, whichever notices first.
Deadlocked(f) ==
    \E circle \in SUBSET Flushers :
        /\ f \in circle
        /\ \A g \in circle :
              /\ fl[g].pc = "wait"
              /\ \E h \in circle \ {g} : fl[g].current \in fl[h].marked

DeadlockVictim(f) ==
    /\ Deadlocked(f)
    /\ RollBack(f)
    /\ UNCHANGED faults

Flush(f) ==
    \/ Fetch(f)
    \/ \E e \in Events : ProcessEvent(f, e)
    \/ FlushMark(f)
    \/ Commit(f)
    \/ DeadlockVictim(f)

OutboxNext ==
    \/ \E e \in Events : AddAuditEntry(e)
    \/ \E f \in Flushers : Flush(f) \/ Abort(f)

OutboxSpec == OutboxInit /\ [][OutboxNext]_outboxVars

\* Each flusher runs again and again (the loop of run_outbox_flusher, the
\* periodic messages of schedule_outbox_flush) and its statements are
\* answered; nothing makes an audited change or a fault happen.
OutboxFairSpec == OutboxSpec /\ \A f \in Flushers : WF_outboxVars(Flush(f))

-----------------------------------------------------------------------------
(* Properties.                                                             *)

\* An event is marked as processed only after some flusher processed it,
\* whatever overlaps, fails or is rolled back (_flush_audit_outbox_async).
ProcessedWasDelivered == \A e \in processed : delivered[e] > 0

\* An event is processed more than once only because flushers overlap or a
\* batch was rolled back: at most once for each flusher and each rollback.
DuplicatesBounded ==
    rollbacks < Cap - Cardinality(Flushers)
        => \A e \in Events : delivered[e] <= Cardinality(Flushers) + rollbacks

\* Processing and marking stay together: nothing is marked that was not
\* processed, and what overlaps or is rolled back is processed again only so
\* often (_flush_audit_outbox_async).
DeliveryCounted ==
    /\ OutboxTypeOK
    /\ ProcessedWasDelivered
    /\ DuplicatesBounded

\* Every audit event written is processed in the end ("reliable delivery").
EventuallyProcessed ==
    \A e \in Events : e \in pending ~> e \in processed
=============================================================================
