------------------------- MODULE IdempotencyProofs -------------------------
(***************************************************************************)
(* Theorems about Idempotency for every set of requests, keys and          *)
(* operations and any number of Redis failures.                            *)
(*                                                                         *)
(* The argument: a stored response names a request that succeeded with the *)
(* same key (so do the snapshots set_response writes back), and no step    *)
(* takes a success back; a key a late duplicate is waiting for stays       *)
(* stored until it expires or is invalidated.                              *)
(***************************************************************************)
EXTENDS Idempotency, TLAPS

Succeeded(rq, q) == rq[q].outcome = "ok"

\* If e holds a response, a successful request with key k produced it.
Genuine(rq, k, e) ==
    e # None /\ e.response \in Requests =>
        Succeeded(rq, e.response) /\ rq[e.response].key = k

ResponsesGenuine ==
    /\ \A k \in Keys : Genuine(req, k, store[k])
    /\ \A r \in Requests : Genuine(req, req[r].key, req[r].snapshot)

ProgressOf(s) ==
    /\ s.pc \in {"new", "get", "set", "handle"} => s.outcome = "none"
    /\ s.pc \in {"check", "read", "write"} => s.outcome = "ok"
    /\ s.pc # "new" => s.key \in Keys /\ s.operation \in Operations
    /\ s.pc = "write" => s.snapshot \in Entry

Progress == \A r \in Requests : ProgressOf(req[r])

ReplayOf(rq, s) ==
    s.outcome = "replayed" =>
        /\ s.replayed \in Requests
        /\ Succeeded(rq, s.replayed)
        /\ rq[s.replayed].key = s.key

Replays == \A r \in Requests : ReplayOf(req, req[r])

LateOf(st, s) ==
    \/ s.pc = "get" /\ s.outcome = "none" /\ st[s.key] # None
    \/ s.pc = "done" /\ s.outcome \in {"none", "conflict", "replayed"}

LateWaits == \A r \in late : LateOf(store, req[r])

IInv == TypeOK /\ ResponsesGenuine /\ Progress /\ Replays /\ LateWaits

\* What every step does to the requests: a success is never taken back and
\* keeps its key.
Keeps(rq1, rq2) ==
    \A q \in Requests :
        Succeeded(rq1, q) => Succeeded(rq2, q) /\ rq2[q].key = rq1[q].key

\* A response stays genuine while successes are kept.
LEMMA GenuineKept ==
    ASSUME NEW rq1, NEW rq2, Keeps(rq1, rq2), NEW k, NEW e, Genuine(rq1, k, e)
    PROVE  Genuine(rq2, k, e)
BY DEF Keeps, Genuine

\* Every state of the program starts with the inductive invariant.
LEMMA InitIInv == Init => IInv
<1> SUFFICES ASSUME Init PROVE IInv
  OBVIOUS
<1>1. TypeOK
  BY IdempotencyAssumption DEF Init, TypeOK, New, RequestState, Snapshot
<1>2. ResponsesGenuine /\ Progress /\ Replays /\ LateWaits
  BY DEF Init, ResponsesGenuine, Genuine, Progress, ProgressOf, Replays, ReplayOf,
         LateWaits, New
<1> QED
  BY <1>1, <1>2 DEF IInv
-----------------------------------------------------------------------------
(* A step that changes one request and leaves the store alone.             *)

LEMMA RequestStep ==
    ASSUME IInv, NEW r \in Requests, NEW s \in RequestState,
           req' = [req EXCEPT ![r] = s], store' = store,
           faults' \in 0..MaxFaults, late' \subseteq late \cup {r},
           Succeeded(req, r) => s.key = req[r].key /\ s.outcome = "ok",
           Genuine(req, s.key, s.snapshot), ProgressOf(s), ReplayOf(req, s),
           r \in late' => LateOf(store, s)
    PROVE  IInv'
<1>1. req \in [Requests -> RequestState]
  BY DEF IInv, TypeOK
<1>2. req'[r] = s /\ \A q \in Requests : q # r => req'[q] = req[q]
  BY <1>1
<1>3. Keeps(req, req')
  BY <1>2 DEF Keeps, Succeeded
<1>4. TypeOK'
  BY <1>1 DEF IInv, TypeOK
<1>5. ResponsesGenuine'
  <2>1. \A k \in Keys : Genuine(req', k, store'[k])
    BY <1>3, GenuineKept DEF IInv, ResponsesGenuine
  <2>2. ASSUME NEW q \in Requests PROVE Genuine(req', req'[q].key, req'[q].snapshot)
    <3>1. Genuine(req, req'[q].key, req'[q].snapshot)
      BY <1>2 DEF IInv, ResponsesGenuine
    <3> QED
      BY <3>1, <1>3, GenuineKept
  <2> QED
    BY <2>1, <2>2 DEF ResponsesGenuine
<1>6. Progress'
  BY <1>2 DEF IInv, Progress
<1>7. Replays'
  <2> SUFFICES ASSUME NEW q \in Requests PROVE ReplayOf(req', req'[q])
    BY DEF Replays
  <2>1. ReplayOf(req, req'[q])
    BY <1>2 DEF IInv, Replays
  <2> QED
    BY <2>1, <1>3 DEF ReplayOf, Keeps
<1>8. LateWaits'
  <2> SUFFICES ASSUME NEW q \in late' PROVE LateOf(store', req'[q])
    BY DEF LateWaits
  <2>1. q \in Requests
    BY DEF IInv, TypeOK
  <2> QED
    BY <2>1, <1>2 DEF IInv, LateWaits
<1> QED
  BY <1>4, <1>5, <1>6, <1>7, <1>8 DEF IInv

\* The entry of a request that has arrived is stored under one of the keys.
LEMMA StoredEntry ==
    ASSUME IInv, NEW r \in Requests, req[r].pc # "new"
    PROVE  /\ req[r] \in RequestState
           /\ Stored(r) \in Snapshot
           /\ Genuine(req, req[r].key, Stored(r))
BY DEF IInv, TypeOK, Progress, ProgressOf, ResponsesGenuine, Stored

LEMMA LookupKeeps ==
    ASSUME IInv, NEW r \in Requests, Lookup(r)
    PROVE  IInv'
<1> DEFINE e == Stored(r)
           s1 == [req[r] EXCEPT !.pc = "set"]
           s2 == [req[r] EXCEPT !.pc = "done", !.outcome = "replayed",
                                !.replayed = e.response]
           s3 == [req[r] EXCEPT !.pc = "done", !.outcome = "conflict"]
<1>1. /\ req[r] \in RequestState /\ e \in Snapshot /\ Genuine(req, req[r].key, e)
      /\ req[r].pc = "get"
  BY StoredEntry DEF Lookup
<1>2. /\ req[r].outcome = "none" /\ req[r].key \in Keys /\ req[r].operation \in Operations
      /\ ~Succeeded(req, r) /\ Genuine(req, req[r].key, req[r].snapshot)
  BY <1>1 DEF IInv, Progress, ProgressOf, Succeeded, ResponsesGenuine
<1>3. r \in late => e # None
  BY <1>1 DEF IInv, LateWaits, LateOf, Stored
<1>4. store' = store /\ faults' \in 0..MaxFaults /\ late' = late
  BY DEF Lookup, IInv, TypeOK
<1>5. CASE Verdict(e) = "proceed" /\ Goto(r, "set")
  <2>1. req' = [req EXCEPT ![r] = s1]
    BY <1>5 DEF Goto
  <2>2. s1 \in RequestState /\ s1.key = req[r].key /\ s1.pc = "set" /\ s1.outcome = "none"
        /\ s1.operation = req[r].operation /\ s1.snapshot = req[r].snapshot
    BY <1>1, <1>2 DEF RequestState
  <2>3. r \notin late
    BY <1>3, <1>5 DEF Verdict
  <2> HIDE DEF s1
  <2>4. ProgressOf(s1) /\ ReplayOf(req, s1)
    BY <2>2, <1>2 DEF ProgressOf, ReplayOf
  <2> QED
    BY <2>1, <2>2, <2>3, <2>4, <1>2, <1>4, RequestStep
<1>6. CASE /\ Verdict(e) = "replay"
           /\ req' = [req EXCEPT ![r].pc = "done", ![r].outcome = "replayed",
                                 ![r].replayed = e.response]
  <2>1. req' = [req EXCEPT ![r] = s2]
    BY <1>6
  <2>2. e # None /\ e.response \in Requests
    BY <1>6 DEF Verdict
  <2>3. s2 \in RequestState /\ s2.key = req[r].key /\ s2.pc = "done" /\ s2.outcome = "replayed"
        /\ s2.operation = req[r].operation /\ s2.snapshot = req[r].snapshot
        /\ s2.replayed = e.response
    BY <1>1, <1>2, <2>2 DEF RequestState
  <2> HIDE DEF s2
  <2>4. ProgressOf(s2) /\ ReplayOf(req, s2) /\ LateOf(store, s2)
    BY <2>2, <2>3, <1>1, <1>2 DEF ProgressOf, ReplayOf, LateOf, Genuine
  <2> QED
    BY <2>1, <2>3, <2>4, <1>2, <1>4, RequestStep
<1>7. CASE /\ Verdict(e) = "conflict"
           /\ req' = [req EXCEPT ![r].pc = "done", ![r].outcome = "conflict"]
  <2>1. req' = [req EXCEPT ![r] = s3]
    BY <1>7
  <2>2. s3 \in RequestState /\ s3.key = req[r].key /\ s3.pc = "done" /\ s3.outcome = "conflict"
        /\ s3.operation = req[r].operation /\ s3.snapshot = req[r].snapshot
    BY <1>1, <1>2 DEF RequestState
  <2> HIDE DEF s3
  <2>3. ProgressOf(s3) /\ ReplayOf(req, s3) /\ LateOf(store, s3)
    BY <2>2, <1>2 DEF ProgressOf, ReplayOf, LateOf
  <2> QED
    BY <2>1, <2>2, <2>3, <1>2, <1>4, RequestStep
<1> QED
  BY <1>5, <1>6, <1>7 DEF Lookup
\* A request that moves on with its snapshot, key and operation as they are.
LEMMA MoveStep ==
    ASSUME IInv, NEW r \in Requests, req[r].pc # "new",
           NEW pc \in {"set", "handle", "check", "read", "done"},
           NEW outcome \in {"none", "ok", "failed", "conflict", "replayed"},
           req' = [req EXCEPT ![r].pc = pc, ![r].outcome = outcome],
           store' = store, faults' \in 0..MaxFaults, late' \subseteq late,
           Succeeded(req, r) => outcome = "ok",
           pc \in {"set", "handle"} => outcome = "none",
           pc \in {"check", "read"} => outcome = "ok",
           outcome = "replayed" => req[r].outcome = "replayed",
           r \in late' => pc = "done" /\ outcome \in {"none", "conflict", "replayed"}
    PROVE  IInv'
<1> DEFINE s == [req[r] EXCEPT !.pc = pc, !.outcome = outcome]
<1>1. /\ req[r] \in RequestState /\ ProgressOf(req[r]) /\ ReplayOf(req, req[r])
      /\ Genuine(req, req[r].key, req[r].snapshot)
  BY DEF IInv, TypeOK, Progress, Replays, ResponsesGenuine
<1>2. /\ s \in RequestState /\ s.pc = pc /\ s.outcome = outcome /\ s.key = req[r].key
      /\ s.operation = req[r].operation /\ s.snapshot = req[r].snapshot
      /\ s.replayed = req[r].replayed
  BY <1>1 DEF RequestState
<1>3. req' = [req EXCEPT ![r] = s]
  OBVIOUS
<1> HIDE DEF s
<1>4. ProgressOf(s)
  BY <1>1, <1>2 DEF ProgressOf
<1>5. ReplayOf(req, s)
  BY <1>1, <1>2 DEF ReplayOf
<1>6. r \in late' => LateOf(store, s)
  BY <1>2 DEF LateOf
<1> QED
  BY <1>1, <1>2, <1>3, <1>4, <1>5, <1>6, RequestStep

\* The failing calls, the handler, the existence check and an abort.
LEMMA SimpleStepKeeps ==
    ASSUME IInv, NEW r \in Requests,
           \/ LookupFails(r) \/ RegisterFails(r) \/ StoreCheck(r) \/ StoreFails(r)
           \/ Abort(r) \/ \E ok \in BOOLEAN : HandlerReturns(r, ok)
    PROVE  IInv'
<1>1. /\ req \in [Requests -> RequestState] /\ req[r] \in RequestState
      /\ ProgressOf(req[r]) /\ faults \in 0..MaxFaults /\ MaxFaults \in Nat
      /\ r \in late => LateOf(store, req[r])
  BY IdempotencyAssumption DEF IInv, TypeOK, Progress, LateWaits
<1>2. ASSUME NEW pc, Goto(r, pc)
      PROVE  req' = [req EXCEPT ![r].pc = pc, ![r].outcome = req[r].outcome]
  BY <1>1, <1>2 DEF Goto, RequestState
<1>3. Fault => faults' \in 0..MaxFaults
  BY <1>1 DEF Fault
<1>4. CASE LookupFails(r)
  <2>1. req' = [req EXCEPT ![r].pc = "set", ![r].outcome = "none"]
    BY <1>1, <1>2, <1>4 DEF LookupFails, ProgressOf
  <2>2. req[r].pc = "get" /\ ~Succeeded(req, r) /\ r \notin late'
    BY <1>1, <1>4 DEF LookupFails, ProgressOf, Succeeded
  <2> QED
    BY <2>1, <2>2, <1>3, <1>4, MoveStep DEF LookupFails
<1>5. CASE RegisterFails(r)
  <2>1. req' = [req EXCEPT ![r].pc = "handle", ![r].outcome = "none"]
    BY <1>1, <1>2, <1>5 DEF RegisterFails, ProgressOf
  <2>2. req[r].pc = "set" /\ ~Succeeded(req, r) /\ r \notin late
    BY <1>1, <1>5 DEF RegisterFails, ProgressOf, Succeeded, LateOf
  <2> QED
    BY <2>1, <2>2, <1>3, <1>5, MoveStep DEF RegisterFails
<1>6. CASE StoreCheck(r)
  <2>1. req[r].pc = "check" /\ req[r].outcome = "ok" /\ r \notin late
    BY <1>1, <1>6 DEF StoreCheck, ProgressOf, LateOf
  <2>2. \/ req' = [req EXCEPT ![r].pc = "read", ![r].outcome = "ok"]
        \/ req' = [req EXCEPT ![r].pc = "done", ![r].outcome = "ok"]
    BY <1>2, <1>6, <2>1 DEF StoreCheck
  <2> QED
    BY <2>1, <2>2, <1>1, <1>6, MoveStep DEF StoreCheck
<1>7. CASE StoreFails(r)
  <2>1. req[r].pc \in {"check", "read", "write"} /\ req[r].outcome = "ok" /\ r \notin late
    BY <1>1, <1>7 DEF StoreFails, ProgressOf, LateOf
  <2>2. req' = [req EXCEPT ![r].pc = "done", ![r].outcome = "ok"]
    BY <1>2, <1>7, <2>1 DEF StoreFails
  <2> QED
    BY <2>1, <2>2, <1>3, <1>7, MoveStep DEF StoreFails
<1>8. CASE Abort(r)
  <2>1. req[r].pc \notin {"new", "done"}
    BY <1>8 DEF Abort
  <2>2. PICK o \in IF req[r].pc = "handle" THEN {"none", "ok"} ELSE {req[r].outcome} :
           req' = [req EXCEPT ![r].pc = "done", ![r].outcome = o]
    BY <1>8 DEF Abort
  <2>3. req[r].pc = "handle" => ~Succeeded(req, r) /\ r \notin late /\ o \in {"none", "ok"}
    BY <1>1, <2>2 DEF ProgressOf, Succeeded, LateOf
  <2>4. req[r].pc # "handle" => o = req[r].outcome
    BY <2>2
  <2>5. /\ Succeeded(req, r) => o = "ok"
        /\ o \in {"none", "ok"} /\ (r \in late => o = "none")
    BY <1>1, <2>1, <2>3, <2>4 DEF Succeeded, ProgressOf, LateOf, RequestState
  <2> QED
    BY <2>1, <2>2, <2>5, <1>1, <1>8, MoveStep DEF Abort
<1>9. CASE \E ok \in BOOLEAN : HandlerReturns(r, ok)
  <2>1. req[r].pc = "handle" /\ ~Succeeded(req, r) /\ r \notin late
    BY <1>1, <1>9 DEF HandlerReturns, ProgressOf, LateOf, Succeeded
  <2>2. \/ req' = [req EXCEPT ![r].pc = "check", ![r].outcome = "ok"]
        \/ req' = [req EXCEPT ![r].pc = "done", ![r].outcome = "failed"]
    BY <1>9 DEF HandlerReturns, NextAfterHandler
  <2> QED
    BY <2>1, <2>2, <1>1, <1>9, MoveStep DEF HandlerReturns
<1> QED
  BY <1>4, <1>5, <1>6, <1>7, <1>8, <1>9
\* A request that arrives.
LEMMA ArriveKeeps ==
    ASSUME IInv, NEW r \in Requests, NEW k \in Keys, NEW o \in Operations, Arrive(r, k, o)
    PROVE  IInv'
<1> DEFINE s == [New EXCEPT !.pc = "get", !.key = k, !.operation = o]
<1>1. /\ s \in RequestState /\ s.pc = "get" /\ s.outcome = "none" /\ s.key = k
      /\ s.operation = o /\ s.snapshot = None
  BY DEF New, RequestState, Snapshot
<1>2. req' = [req EXCEPT ![r] = s] /\ store' = store /\ faults' = faults
  BY DEF Arrive
<1>3. late' \subseteq late \cup {r} /\ (r \in late' => store[k] # None \/ r \in late)
  BY DEF Arrive
<1>4. ~Succeeded(req, r) /\ r \notin late /\ faults \in 0..MaxFaults
  BY DEF Arrive, IInv, TypeOK, Progress, ProgressOf, LateWaits, LateOf, Succeeded
<1> HIDE DEF s
<1>5. /\ ProgressOf(s) /\ ReplayOf(req, s) /\ Genuine(req, s.key, s.snapshot)
      /\ r \in late' => LateOf(store, s)
  BY <1>1, <1>3, <1>4 DEF ProgressOf, ReplayOf, Genuine, LateOf
<1> QED
  BY <1>1, <1>2, <1>3, <1>4, <1>5, RequestStep

LEMMA StoreReadKeeps ==
    ASSUME IInv, NEW r \in Requests, StoreRead(r)
    PROVE  IInv'
<1> DEFINE pc == IF Stored(r) # None THEN "write" ELSE "done"
           s == [req[r] EXCEPT !.pc = pc, !.snapshot = Stored(r)]
<1>1. /\ req[r] \in RequestState /\ Stored(r) \in Snapshot
      /\ Genuine(req, req[r].key, Stored(r)) /\ req[r].pc = "read"
  BY StoredEntry DEF StoreRead
<1>2. /\ ProgressOf(req[r]) /\ ReplayOf(req, req[r]) /\ faults \in 0..MaxFaults
      /\ r \in late => LateOf(store, req[r])
  BY DEF IInv, TypeOK, Progress, Replays, LateWaits
<1>3. pc \in {"write", "done"} /\ (pc = "write" => Stored(r) \in Entry)
  BY <1>1 DEF Snapshot
<1>4. req' = [req EXCEPT ![r] = s] /\ store' = store /\ faults' = faults /\ late' = late
  BY DEF StoreRead
<1> HIDE DEF pc
<1>5. /\ s \in RequestState /\ s.pc = pc /\ s.outcome = req[r].outcome /\ s.key = req[r].key
      /\ s.operation = req[r].operation /\ s.snapshot = Stored(r)
  BY <1>1, <1>3 DEF RequestState
<1> HIDE DEF s
<1>6. req[r].outcome = "ok" /\ r \notin late
  BY <1>1, <1>2 DEF ProgressOf, LateOf
<1>7. ProgressOf(s) /\ ReplayOf(req, s)
  BY <1>1, <1>2, <1>3, <1>5, <1>6 DEF ProgressOf, ReplayOf
<1> QED
  BY <1>1, <1>2, <1>4, <1>5, <1>6, <1>7, RequestStep

-----------------------------------------------------------------------------
(* Steps that write or remove an entry.                                    *)

LEMMA WriteStep ==
    ASSUME IInv, NEW r \in Requests, NEW s \in RequestState, NEW e \in Entry,
           req' = [req EXCEPT ![r] = s], store' = [store EXCEPT ![s.key] = e],
           faults' = faults, late' = late, r \notin late,
           s.key = req[r].key, s.key \in Keys,
           Succeeded(req, r) => s.outcome = "ok",
           e.response \in Requests => e.response = r /\ s.outcome = "ok",
           Genuine(req, s.key, s.snapshot), ProgressOf(s), ReplayOf(req, s)
    PROVE  IInv'
<1>1. /\ req \in [Requests -> RequestState] /\ store \in [Keys -> Snapshot]
      /\ late \subseteq Requests
  BY DEF IInv, TypeOK
<1>2. req'[r] = s /\ \A q \in Requests : q # r => req'[q] = req[q]
  BY <1>1
<1>3. /\ store'[s.key] = e
      /\ \A k \in Keys : k # s.key => store'[k] = store[k]
  BY <1>1
<1>4. Keeps(req, req')
  BY <1>2 DEF Keeps, Succeeded
<1>5. TypeOK'
  BY <1>1 DEF IInv, TypeOK, Snapshot
<1>6. ResponsesGenuine'
  <2>1. ASSUME NEW k \in Keys PROVE Genuine(req', k, store'[k])
    <3>1. CASE k = s.key
      BY <3>1, <1>2, <1>3 DEF Genuine, Succeeded
    <3>2. CASE k # s.key
      BY <3>2, <1>3, <1>4, GenuineKept DEF IInv, ResponsesGenuine
    <3> QED
      BY <3>1, <3>2
  <2>2. ASSUME NEW q \in Requests PROVE Genuine(req', req'[q].key, req'[q].snapshot)
    <3>1. Genuine(req, req'[q].key, req'[q].snapshot)
      BY <1>2 DEF IInv, ResponsesGenuine
    <3> QED
      BY <3>1, <1>4, GenuineKept
  <2> QED
    BY <2>1, <2>2 DEF ResponsesGenuine
<1>7. Progress'
  BY <1>2 DEF IInv, Progress
<1>8. Replays'
  <2> SUFFICES ASSUME NEW q \in Requests PROVE ReplayOf(req', req'[q])
    BY DEF Replays
  <2>1. ReplayOf(req, req'[q])
    BY <1>2 DEF IInv, Replays
  <2> QED
    BY <2>1, <1>4 DEF ReplayOf, Keeps
<1>9. LateWaits'
  <2> SUFFICES ASSUME NEW q \in late PROVE LateOf(store', req[q])
    BY <1>1, <1>2 DEF LateWaits
  <2>1. LateOf(store, req[q]) /\ (req[q].pc = "get" => req[q].key \in Keys)
    BY <1>1 DEF IInv, LateWaits, Progress, ProgressOf
  <2>2. e # None
    BY IdempotencyAssumption
  <2> QED
    BY <2>1, <2>2, <1>3 DEF LateOf
<1> QED
  BY <1>5, <1>6, <1>7, <1>8, <1>9 DEF IInv

LEMMA RegisterKeeps ==
    ASSUME IInv, NEW r \in Requests, Register(r)
    PROVE  IInv'
<1> DEFINE s == [req[r] EXCEPT !.pc = "handle"]
           e == [operation |-> req[r].operation, response |-> None, ttl |-> TRUE]
<1>1. /\ req[r] \in RequestState /\ req[r].pc = "set" /\ ProgressOf(req[r])
      /\ ReplayOf(req, req[r]) /\ Genuine(req, req[r].key, req[r].snapshot)
      /\ r \in late => LateOf(store, req[r])
  BY DEF Register, IInv, TypeOK, Progress, Replays, ResponsesGenuine, LateWaits
<1>2. /\ req[r].outcome = "none" /\ req[r].key \in Keys /\ req[r].operation \in Operations
      /\ r \notin late /\ ~Succeeded(req, r)
  BY <1>1 DEF ProgressOf, LateOf, Succeeded
<1>3. req' = [req EXCEPT ![r] = s] /\ faults' = faults /\ late' = late
  BY DEF Register, Goto
<1>4. e \in Entry /\ e.response \notin Requests
  BY <1>2, IdempotencyAssumption DEF Entry, Body
<1>5. /\ s \in RequestState /\ s.pc = "handle" /\ s.outcome = "none" /\ s.key = req[r].key
      /\ s.operation = req[r].operation /\ s.snapshot = req[r].snapshot
  BY <1>1, <1>2 DEF RequestState
<1>6. store' = [store EXCEPT ![s.key] = e]
  BY <1>5 DEF Register
<1> HIDE DEF s, e
<1>7. ProgressOf(s) /\ ReplayOf(req, s)
  BY <1>2, <1>5 DEF ProgressOf, ReplayOf
<1> QED
  BY <1>1, <1>2, <1>3, <1>4, <1>5, <1>6, <1>7, WriteStep

LEMMA StoreWriteKeeps ==
    ASSUME IInv, NEW r \in Requests, StoreWrite(r)
    PROVE  IInv'
<1>1. /\ req[r] \in RequestState /\ req[r].pc = "write" /\ ProgressOf(req[r])
      /\ ReplayOf(req, req[r]) /\ r \in late => LateOf(store, req[r])
  BY DEF StoreWrite, IInv, TypeOK, Progress, Replays, LateWaits
<1>2. /\ req[r].outcome = "ok" /\ req[r].key \in Keys /\ req[r].operation \in Operations
      /\ req[r].snapshot \in Entry /\ r \notin late
  BY <1>1 DEF ProgressOf, LateOf, StoreWrite, IInv, LateWaits
<1>3. PICK x \in Extracted :
         store' = [store EXCEPT ![req[r].key] =
                     WithResponse(req[r].snapshot, IF x = "json" THEN r ELSE EmptyBody)]
  BY DEF StoreWrite
<1> DEFINE s == [req[r] EXCEPT !.pc = "done", !.snapshot = None]
           body == IF x = "json" THEN r ELSE EmptyBody
           e == WithResponse(req[r].snapshot, body)
<1>4. req' = [req EXCEPT ![r] = s] /\ faults' = faults /\ late' = late
  BY DEF StoreWrite
<1>5. body \in Body /\ (body \in Requests => body = r)
  BY IdempotencyAssumption DEF Body
<1> HIDE DEF body
<1>6. e \in Entry /\ e.response = body
  BY <1>2, <1>5 DEF Entry, WithResponse
<1>7. /\ s \in RequestState /\ s.pc = "done" /\ s.outcome = "ok" /\ s.key = req[r].key
      /\ s.operation = req[r].operation /\ s.snapshot = None
  BY <1>1, <1>2 DEF RequestState, Snapshot
<1>8. store' = [store EXCEPT ![s.key] = e]
  BY <1>3, <1>7 DEF body
<1> HIDE DEF s, e
<1>9. ProgressOf(s) /\ ReplayOf(req, s) /\ Genuine(req, s.key, s.snapshot)
  BY <1>2, <1>7 DEF ProgressOf, ReplayOf, Genuine
<1> QED
  BY <1>2, <1>4, <1>5, <1>6, <1>7, <1>8, <1>9, WriteStep

LEMMA VanishKeeps ==
    ASSUME IInv, NEW k \in Keys, Vanish(k)
    PROVE  IInv'
<1>1. /\ store \in [Keys -> Snapshot] /\ late \subseteq Requests
      /\ req' = req /\ faults' = faults /\ store' = [store EXCEPT ![k] = None]
      /\ late' = {r \in late : req[r].key # k}
  BY DEF IInv, TypeOK, Vanish
<1>2. TypeOK'
  BY <1>1 DEF IInv, TypeOK, Snapshot
<1>3. ResponsesGenuine'
  BY <1>1 DEF IInv, ResponsesGenuine, Genuine
<1>4. Progress' /\ Replays'
  BY <1>1 DEF IInv, Progress, Replays
<1>5. LateWaits'
  <2> SUFFICES ASSUME NEW r \in late, req[r].key # k PROVE LateOf(store', req[r])
    BY <1>1 DEF LateWaits
  <2>1. LateOf(store, req[r]) /\ (req[r].pc = "get" => req[r].key \in Keys)
    BY <1>1 DEF IInv, LateWaits, Progress, ProgressOf
  <2> QED
    BY <2>1, <1>1 DEF LateOf
<1> QED
  BY <1>2, <1>3, <1>4, <1>5 DEF IInv

-----------------------------------------------------------------------------
(* The theorems.                                                           *)

\* No step of any request, expiry or invalidation breaks the invariant.
LEMMA NextKeepsIInv == IInv /\ [Next]_vars => IInv'
<1> SUFFICES ASSUME IInv, [Next]_vars PROVE IInv'
  OBVIOUS
<1>1. CASE \E r \in Requests, k \in Keys, o \in Operations : Arrive(r, k, o)
  BY <1>1, ArriveKeeps
<1>2. ASSUME NEW r \in Requests, Step(r) PROVE IInv'
  BY <1>2, LookupKeeps, SimpleStepKeeps, RegisterKeeps, StoreReadKeeps, StoreWriteKeeps
     DEF Step
<1>3. CASE \E k \in Keys : Expire(k) \/ InvalidateKey(k)
  BY <1>3, VanishKeeps DEF Expire, InvalidateKey
<1>4. CASE UNCHANGED vars
  BY <1>4 DEF vars, IInv, TypeOK, ResponsesGenuine, Progress, Replays, LateWaits
<1> QED
  BY <1>1, <1>2, <1>3, <1>4 DEF Next

\* IInv holds in every reachable state.
THEOREM Invariance == Spec => []IInv
BY InitIInv, NextKeepsIInv, PTL DEF Spec

\* The variables of dispatch() and the entries in Redis keep their types.
THEOREM TypeCorrect == Spec => []TypeOK
<1>1. IInv => TypeOK
  BY DEF IInv
<1> QED
  BY <1>1, Invariance, PTL

\* Whatever is replayed is the response of a handler that succeeded for a
\* request with the same key (dispatch, set_response).
THEOREM ReplaysAreGenuine == Spec => []ReplayIsGenuine
<1>1. IInv => ReplayIsGenuine
  BY DEF IInv, Replays, ReplayOf, ReplayIsGenuine, Succeeded
<1> QED
  BY <1>1, Invariance, PTL

\* A duplicate that arrives at a stored key never reaches the handler while
\* the key lasts and Redis answers (check_and_store).
THEOREM LateDuplicatesNeverExecuted == Spec => []LateDuplicateNotExecuted
<1>1. IInv => LateDuplicateNotExecuted
  BY DEF IInv, LateWaits, LateOf, LateDuplicateNotExecuted
<1> QED
  BY <1>1, Invariance, PTL

-----------------------------------------------------------------------------
\* Late duplicates are answered by the middleware, with genuine responses
\* (dispatch, check_and_store).
THEOREM DuplicatesAreAnswered == Spec => []DuplicatesAnswered
  BY TypeCorrect, ReplaysAreGenuine, LateDuplicatesNeverExecuted, PTL DEF DuplicatesAnswered
=============================================================================
