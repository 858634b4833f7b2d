--------------------------- MODULE RunControlProofs ---------------------------
(***************************************************************************)
(* What RunControl promises, for any number of calls, tenants, keys, costs *)
(* and faults, and any steps of a stored run.                              *)
(*                                                                         *)
(* The invariant is ControlInv.  It says of every call what it knows of    *)
(* the row its entity was read from: that the row exists and has as many   *)
(* steps; how the costs, the states and the requests to stop of the two    *)
(* compare while nobody wrote the row since (fresh); that a worker's steps *)
(* are the row's, but for the one it has to save, as long as the run was   *)
(* not overwritten; and that the steps it takes for ones to begin were not *)
(* begun.  The rows add what was recorded of them, that their steps were   *)
(* begun in order, and that no two have one tenant and key.                *)
(*                                                                         *)
(* A step is then one of four: a call moves on (ThenStep), a call to Redis *)
(* returns (RedisKeeps), an entity is written over its row (WriteKeeps),   *)
(* or a step of a run changes state (StepKeeps); the lemmas named after    *)
(* the actions put each of them into its class.                            *)
(*                                                                         *)
(* The last part proves that each run is a RunLifecycle: a step of         *)
(* RunControl writes no row (Unwriting) or one row, which then makes one   *)
(* move of the lifecycle (CreateMoves, RowMoves, StepMoves, OverwriteMoves)*)
(* while the others stay (StayMoves).                                      *)
(***************************************************************************)
EXTENDS RunControl, TLAPS

\* Calls that hold an entity.
Holding == {"update", "start", "cancel", "fail", "ack", "signal", "clear"} \cup Loop

\* What record_spent has added to its entity and not written yet.
Due(m) == IF m.kind = "spend" /\ m.pc = "update" THEN m.cost ELSE 0

Pcs == {"new", "lookup", "insert", "get"} \cup Holding \cup Ended

\* The sets of CallType by name, which keeps them opaque to the provers.
CallKinds == Kinds \cup {"none"}
Optional(S) == S \cup {None}
Amounts == Costs \cup {0}

CallType ==
    [kind : CallKinds, pc : Pcs, tenant : Optional(Tenants), key : Optional(Keys), run : RunIds,
     cost : Amounts, copy : Optional(Run), fresh : BOOLEAN]

\* A creation answers with a row that has its tenant and key.
Creation(m) ==
    /\ m.pc \in {"lookup", "insert"} => m.kind = "create" /\ m.tenant \in Tenants /\ m.key \in Keys
    /\ m.kind = "create" => m.pc \in {"lookup", "insert", "done", "unsaved", "refused", "raised",
                                         "crashed"}
    /\ m.kind = "create" /\ m.pc = "done" =>
         /\ table[m.run] # None
         /\ table[m.run].tenant = m.tenant /\ table[m.run].key = m.key

Finished == {"succeeded", "failed"}

\* A step is never in another state of a run.
StepStates == {"queued", "running"} \cup Finished

AllStates(steps) == \A i \in DOMAIN steps : steps[i].state \in StepStates

\* A step is begun when all before it have finished.
InOrder(steps) ==
    \A i, j \in DOMAIN steps : i < j /\ steps[j].state # "queued" => steps[i].state \in Finished

AtWork(steps) == \E k \in DOMAIN steps : steps[k].state = "running"

Stepped(steps, i, state) == [steps EXCEPT ![i].state = state]

\* The step that was running has finished in ahead.
OneAhead(ahead, steps) ==
    \E k \in DOMAIN steps : \E s \in Finished :
        steps[k].state = "running" /\ ahead = Stepped(steps, k, s)

\* An entity is one of an existing row.
Entity(m) ==
    m.pc \in Holding =>
        /\ m.copy # None /\ table[m.run] # None
        /\ Len(m.copy.steps) = Len(table[m.run].steps)

\* The cost of an entity was recorded, and is the row's if nobody wrote it since.
Cost(m) ==
    m.pc \in Holding =>
        /\ m.copy.spent <= charged[m.run] + Due(m)
        /\ m.fresh => m.copy.spent = table[m.run].spent + Due(m)

\* The state of an entity, and of the row if nobody wrote it since.
State(m) ==
    /\ m.pc \in Loop \ {"save_step", "save_run"} => m.copy.state = "running"
    /\ m.pc \in {"save_step", "save_run"} => m.copy.state \in {"running", "awaiting_approval"}
    /\ m.fresh =>
         /\ m.pc \in {"update", "start", "cancel"} => m.copy.state = table[m.run].state
         /\ m.pc \in Loop => table[m.run].state = "running"
         /\ m.pc = "fail" => \/ table[m.run].state \notin Terminal
                             \/ m.copy.state = table[m.run].state
    /\ m.pc = "update" /\ m.kind = "request" => m.copy.state \notin Terminal

\* Whether it was asked to stop, as in the row if nobody wrote it since.
Asked(m) == m.pc \in Holding /\ m.fresh => m.copy.cancel = table[m.run].cancel

\* A worker's steps are the row's, but for the one whose end it has to save.
Steps(m) ==
    /\ m.pc \in Holding => AllStates(m.copy.steps)
    /\ m.pc = "work" => AtWork(m.copy.steps)
    /\ m.pc \in Loop /\ m.run \notin overwrote =>
         IF m.pc = "save_step" THEN OneAhead(m.copy.steps, table[m.run].steps)
         ELSE m.copy.steps = table[m.run].steps

\* Only the repository RunExecutor expects lets it into its loop.
Worker(m) == m.pc \in Loop \cup {"start"} => world = "executor"

\* What a worker takes for a step to begin was not begun before, unless it or
\* another call wrote over what it had not seen.
StepsAhead(m) ==
    m.run \notin overwrote =>
        /\ m.pc \in Loop =>
             /\ table[m.run].state \in {"running"} \cup Terminal
             /\ \A i \in DOMAIN m.copy.steps : m.copy.steps[i].state = "queued" => begun[m.run][i] = 0
        /\ m.pc = "start" /\ m.fresh /\ CanTransition(m.copy.state, "running")
             => m.copy.steps = table[m.run].steps

\* Steps begun since the flag is up, before the flag is looked at again.
Since(c, m) ==
    /\ m.run \notin flag => since[c] = 0
    /\ m.pc \in {"new", "lookup", "insert", "get", "update", "signal", "start"} => since[c] = 0
    /\ since[c] <= faults + IF m.pc \in {"after_row", "check", "check_row", "step"} THEN 0 ELSE 1

\* What is known of an entity and of the row it was read from.
Known(m) ==
    /\ Creation(m)
    /\ Entity(m)
    /\ Cost(m)
    /\ State(m)
    /\ Asked(m)
    /\ Worker(m)
    /\ Steps(m)
    /\ StepsAhead(m)

\* The types, and that charged and begun are numbers.
Types ==
    /\ world \in {"sql", "entities", "executor"}
    /\ table \in [RunIds -> Run \cup {None}]
    /\ flag \subseteq RunIds
    /\ call \in [Callers -> CallType]
    /\ begun \in [RunIds -> Seq(Nat)]
    /\ since \in [Callers -> Nat]
    /\ charged \in [RunIds -> Nat]
    /\ overwrote \subseteq RunIds
    /\ faults \in 0..MaxFaults

\* A row belongs to the call that created it, and no two to one key.
RowsKnown ==
    /\ \A c \in Callers : table[c] # None => call[c].kind = "create" /\ call[c].pc = "done"
    /\ \A r, s \in Present : table[r].tenant = table[s].tenant /\ table[r].key = table[s].key => r = s

\* The history of a row.
RowInv(r) ==
    /\ table[r] = None => charged[r] = 0 /\ begun[r] = <<>>
    /\ table[r] # None =>
         /\ Len(begun[r]) = Len(table[r].steps)
         /\ table[r].spent <= charged[r]
         /\ r \notin overwrote => table[r].spent = charged[r]
         /\ \A i \in DOMAIN table[r].steps : table[r].steps[i].state = "queued" => begun[r][i] = 0
         /\ AllStates(table[r].steps)
         /\ r \notin overwrote => InOrder(table[r].steps)
    /\ r \notin overwrote => \A i \in DOMAIN begun[r] : begun[r][i] <= 1

\* Two workers are in the loop of one run only if one wrote over the other.
OneWorker ==
    \A c, d \in Callers :
        /\ call[c].pc \in Loop /\ call[d].pc \in Loop
        /\ call[c].run = call[d].run /\ call[c].run \notin overwrote
        => c = d

\* The inductive invariant.
ControlInv ==
    /\ Types
    /\ \A c \in Callers : Known(call[c])
    /\ RowsKnown
    /\ \A r \in RunIds : RowInv(r)
    /\ OneWorker
    /\ \A c \in Callers : Since(c, call[c])
-----------------------------------------------------------------------------
\* What a call, a row and a step are after a change, and what a step keeps.

USE DEF Holding

\* A call moves on: what it keeps.
LEMMA AtIs ==
    ASSUME NEW m \in CallType, NEW pc \in Pcs
    PROVE  /\ At(pc, m) \in CallType
           /\ At(pc, m).pc = pc /\ At(pc, m).kind = m.kind /\ At(pc, m).tenant = m.tenant
           /\ At(pc, m).key = m.key /\ At(pc, m).run = m.run /\ At(pc, m).cost = m.cost
           /\ pc \in Ended => At(pc, m).copy = None /\ At(pc, m).fresh
           /\ pc \notin Ended => At(pc, m).copy = m.copy /\ At(pc, m).fresh = m.fresh
  <1>1. PICK c : /\ c = IF pc \in Ended THEN None ELSE m.copy
                 /\ c \in Optional(Run)
    BY DEF CallType, Optional
  <1>2. PICK f : /\ f = (pc \in Ended \/ m.fresh)
                 /\ f \in BOOLEAN
    BY DEF CallType
  <1>3. At(pc, m) = [m EXCEPT !.pc = pc, !.copy = c, !.fresh = f]
    BY <1>1, <1>2 DEF At
  <1>4. PICK q : q = At(pc, m)
    OBVIOUS
  <1>5. /\ q \in CallType
        /\ q.pc = pc /\ q.copy = c /\ q.fresh = f /\ q.kind = m.kind
        /\ q.tenant = m.tenant /\ q.key = m.key /\ q.run = m.run /\ q.cost = m.cost
    <2> HIDE DEF Holding
    <2> QED
      BY <1>1, <1>2, <1>3, <1>4 DEF CallType
  <1>6. (pc \in Ended => f) /\ (pc \notin Ended => f = m.fresh)
    BY <1>2 DEF CallType
  <1> QED
    BY <1>1, <1>4, <1>5, <1>6

\* A step of one call that leaves rows and histories alone.
LEMMA CallStep ==
    ASSUME ControlInv, NEW c \in Callers, NEW q \in CallType, call' = [call EXCEPT ![c] = q],
           UNCHANGED <<world, table, begun, charged, overwrote>>,
           call[c].pc # "done", Known(q),
           q.pc \in Loop => call[c].pc \in Loop /\ q.run = call[c].run,
           flag' \subseteq RunIds, since' \in [Callers -> Nat], faults' \in 0..MaxFaults,
           \A d \in Callers : Since(d, call[d])'
    PROVE  ControlInv'
  <1>1. call \in [Callers -> CallType] /\ \A d \in Callers : Known(call[d])
    BY DEF ControlInv, Types
  <1>2. call'[c] = q /\ (\A d \in Callers \ {c} : call'[d] = call[d]) /\ call' \in [Callers -> CallType]
    BY <1>1
  <1>3. ASSUME NEW d \in Callers
        PROVE  Known(call[d])'
    <2>1. PICK m : m = call'[d] /\ Known(m)
      BY <1>1, <1>2
    <2> QED
      BY <2>1 DEF Known, Creation, Entity, Cost, State, Asked, Worker, Steps, StepsAhead, Due
  <1>4. RowsKnown'
    BY <1>2 DEF ControlInv, RowsKnown, Present
  <1>5. \A r \in RunIds : RowInv(r)'
    BY DEF ControlInv, RowInv
  <1>6. OneWorker'
    BY <1>2 DEF ControlInv, OneWorker
  <1>7. Types'
    BY <1>2 DEF ControlInv, Types
  <1> QED
    BY <1>3, <1>4, <1>5, <1>6, <1>7 DEF ControlInv

\* A step of one call that leaves everything else alone.
LEMMA ThenStep ==
    ASSUME ControlInv, NEW c \in Callers, NEW q \in CallType, Then(c, q), Unwritten,
           call[c].pc # "done", Known(q), Since(c, q),
           q.pc \in Loop => call[c].pc \in Loop /\ q.run = call[c].run
    PROVE  ControlInv'
  <1>1. /\ call' = [call EXCEPT ![c] = q] /\ UNCHANGED <<world, flag, since, faults>>
        /\ UNCHANGED <<table, begun, charged, overwrote>>
    BY DEF Then, Unwritten
  <1>2. call \in [Callers -> CallType] /\ flag' \subseteq RunIds /\ since' \in [Callers -> Nat]
        /\ faults' \in 0..MaxFaults
    BY <1>1 DEF ControlInv, Types
  <1>3. call'[c] = q /\ \A d \in Callers \ {c} : call'[d] = call[d]
    BY <1>1, <1>2
  <1>4. ASSUME NEW d \in Callers
        PROVE  Since(d, call[d])'
    <2>1. PICK m : m = call'[d] /\ Since(d, m)
      BY <1>3 DEF ControlInv
    <2> QED
      BY <1>1, <2>1 DEF Since
  <1> QED
    BY <1>1, <1>2, <1>4, CallStep

\* A call ends.
LEMMA EndStep ==
    ASSUME ControlInv, NEW c \in Callers, NEW pc \in Ended, Goto(c, pc), Unwritten,
           call[c].pc \notin Ended,
           call[c].kind = "create" => pc \in {"unsaved", "refused", "raised", "crashed"}
    PROVE  ControlInv'
  <1> DEFINE q == At(pc, call[c])
  <1>1. call[c] \in CallType /\ Since(c, call[c]) /\ faults \in Nat /\ since[c] \in Nat
    BY RunControlAssumption DEF ControlInv, Types
  <1>2. /\ q \in CallType /\ q.pc = pc /\ q.kind = call[c].kind /\ q.run = call[c].run
    BY <1>1, AtIs DEF Pcs
  <1>3. Then(c, q)
    BY DEF Goto
  <1> HIDE DEF q
  <1>4. Known(q)
    BY <1>2 DEF Known, Creation, Entity, Cost, State, Asked, Worker, Steps, StepsAhead, Ended, Loop
  <1>5. Since(c, q)
    BY <1>1, <1>2 DEF Since, Ended
  <1>6. q.pc \notin Loop /\ call[c].pc # "done"
    BY <1>2 DEF Ended, Loop
  <1> QED
    BY <1>2, <1>3, <1>4, <1>5, <1>6, ThenStep

\* A call begins.
LEMMA BeginKeeps ==
    ASSUME ControlInv, NEW c \in Callers, NEW q \in CallType, Then(c, q), Unwritten,
           call[c].pc = "new", q.pc \in {"get", "lookup", "refused"},
           q.pc = "get" => q.kind # "create",
           q.pc = "lookup" => q.kind = "create" /\ q.tenant \in Tenants /\ q.key \in Keys
    PROVE  ControlInv'
  <1>1. call[c] \in CallType /\ Since(c, call[c]) /\ faults \in Nat /\ since[c] \in Nat
    BY RunControlAssumption DEF ControlInv, Types
  <1>2. Known(q)
    BY DEF Known, Creation, Entity, Cost, State, Asked, Worker, Steps, StepsAhead, Loop
  <1>3. Since(c, q)
    BY <1>1 DEF Since
  <1>4. q.pc \notin Loop
    BY DEF Loop
  <1> QED
    BY <1>2, <1>3, <1>4, ThenStep

\* A call reads the row of its run.
LEMMA ReadKeeps ==
    ASSUME ControlInv, NEW c \in Callers, NEW pc \in {"update", "start", "cancel"},
           Read(c, pc), Unwritten, table[call[c].run] # None,
           call[c].pc \in {"get", "ack"},
           pc = "update" => call[c].kind # "spend",
           pc = "update" /\ call[c].kind = "request" => table[call[c].run].state \notin Terminal,
           pc \in {"update", "start"} => call[c].pc = "get",
           pc = "start" => world = "executor"
    PROVE  ControlInv'
  <1> DEFINE row == table[call[c].run]
             q == [call[c] EXCEPT !.copy = row, !.fresh = TRUE, !.pc = pc]
  <1>1. /\ call[c] \in CallType /\ Since(c, call[c]) /\ faults \in Nat /\ since[c] \in Nat
        /\ call[c].run \in RunIds /\ Known(call[c])
    BY RunControlAssumption DEF ControlInv, Types, CallType
  <1>2. /\ row \in Run /\ row.spent <= charged[call[c].run] /\ RowInv(call[c].run)
        /\ row.spent \in 0..MaxCost
    BY <1>1 DEF ControlInv, Types, RowInv, Run
  <1>3. row \in Optional(Run) /\ pc \in Pcs
    BY <1>2 DEF Optional, Pcs
  <1>4. Then(c, q)
    BY DEF Read
  <1>5. /\ q \in CallType /\ q.pc = pc /\ q.kind = call[c].kind /\ q.run = call[c].run
        /\ q.copy = row /\ q.fresh = TRUE
    <2> HIDE DEF row, Holding
    <2> QED
      BY <1>1, <1>3 DEF CallType
  <1> HIDE DEF q
  <1>6. Known(q)
    <2>1. Creation(q) /\ Entity(q)
      BY <1>1, <1>5 DEF Known, Creation, Entity
    <2>2. Cost(q)
      <3>1. Due(q) = 0
        BY <1>5 DEF Due
      <3>2. charged[q.run] \in Nat /\ q.copy.spent = row.spent /\ row = table[q.run]
        BY <1>1, <1>5 DEF ControlInv, Types
      <3> QED
        BY <1>2, <1>5, <3>1, <3>2 DEF Cost
    <2>3. State(q) /\ Worker(q)
      BY <1>5 DEF State, Worker, Loop
    <2>4. StepsAhead(q) /\ Asked(q)
      BY <1>5 DEF StepsAhead, Asked, Loop
    <2>5. Steps(q)
      BY <1>2, <1>5 DEF Steps, RowInv, Loop
    <2> QED
      BY <2>1, <2>2, <2>3, <2>4, <2>5 DEF Known
  <1>7. Since(c, q)
    BY <1>1, <1>5 DEF Since
  <1>8. q.pc \notin Loop
    BY <1>5 DEF Loop
  <1> QED
    BY <1>4, <1>5, <1>6, <1>7, <1>8, ThenStep

\* A worker goes on, with the entity it has.
LEMMA MoveKeeps ==
    ASSUME ControlInv, NEW c \in Callers, NEW pc \in {"check", "step", "after", "ack", "fail"},
           Goto(c, pc), Unwritten,
           \/ call[c].pc = "start" /\ pc = "fail"
           \/ call[c].pc \in {"check_row", "after_row"} /\ pc = "ack"
           \/ call[c].pc = "check_row" /\ pc = "step"
           \/ call[c].pc = "after_row" /\ pc = "check"
           \/ call[c].pc = "step" /\ pc \in {"after", "fail"}
    PROVE  ControlInv'
  <1> DEFINE m == call[c]
             q == At(pc, m)
  <1>1. /\ m \in CallType /\ Since(c, m) /\ faults \in Nat /\ since[c] \in Nat /\ Known(m)
        /\ m.fresh \in BOOLEAN
    BY RunControlAssumption DEF ControlInv, Types, CallType
  <1>2. pc \in Pcs /\ pc \notin Ended
    BY DEF Pcs, Ended, Loop
  <1>3. /\ q \in CallType /\ q.pc = pc /\ q.kind = m.kind /\ q.run = m.run
        /\ q.copy = m.copy /\ q.fresh = m.fresh
    BY <1>1, <1>2, AtIs
  <1>4. Then(c, q)
    BY DEF Goto
  <1> HIDE DEF q
  <1>5. Known(q)
    <2>1. Creation(q) /\ Entity(q)
      BY <1>1, <1>3 DEF Known, Creation, Entity, Loop
    <2>2. Cost(q)
      BY <1>1, <1>3 DEF Known, Cost, Due, Loop
    <2>3. State(q) /\ Worker(q)
      BY <1>1, <1>3 DEF Known, State, Worker, Loop, Terminal
    <2>4. StepsAhead(q)
      BY <1>1, <1>3 DEF Known, StepsAhead, Loop
    <2>5. Asked(q)
      BY <1>1, <1>3 DEF Known, Asked, Loop
    <2>6. Steps(q)
      BY <1>1, <1>3 DEF Known, Steps, Loop
    <2> QED
      BY <2>1, <2>2, <2>3, <2>4, <2>5, <2>6 DEF Known
  <1>6. Since(c, q)
    BY <1>1, <1>3 DEF Since
  <1>7. q.pc \in Loop => m.pc \in Loop /\ q.run = m.run
    BY <1>3 DEF Loop
  <1> QED
    BY <1>3, <1>4, <1>5, <1>6, <1>7, ThenStep

\* What a call to Redis leaves, whether or not it fails.
LEMMA RedisKeeps ==
    ASSUME ControlInv, NEW c \in Callers, NEW q \in CallType, NEW ok \in BOOLEAN, Redis(ok),
           call' = [call EXCEPT ![c] = q], UNCHANGED world, Unwritten,
           call[c].pc # "done", Known(q), q.run = call[c].run,
           q.pc \in Loop => call[c].pc \in Loop,
           \/ flag \subseteq flag' /\ flag' \subseteq RunIds /\ UNCHANGED since
           \/ Unflagged(call[c].run),
           q.pc \notin {"new", "lookup", "insert", "get", "update", "signal", "start"},
           since'[c] <= faults' + IF q.pc \in {"after_row", "check", "check_row", "step"} THEN 0 ELSE 1
    PROVE  ControlInv'
  <1>1. /\ call \in [Callers -> CallType] /\ since \in [Callers -> Nat] /\ flag \subseteq RunIds
        /\ faults \in Nat /\ faults' \in 0..MaxFaults /\ faults <= faults'
        /\ call[c].run \in RunIds
        /\ UNCHANGED <<world, table, begun, charged, overwrote>>
    BY RunControlAssumption DEF ControlInv, Types, Redis, CallType, Unwritten
  <1>2. call'[c] = q /\ \A d \in Callers \ {c} : call'[d] = call[d]
    BY <1>1
  <1>3. /\ flag' \subseteq RunIds /\ since' \in [Callers -> Nat]
        /\ \A d \in Callers : since'[d] = since[d] \/ since'[d] = 0
        /\ \A d \in Callers : call[d].run \notin flag' => since'[d] = 0
    <2>1. ASSUME NEW d \in Callers
          PROVE  call[d].run \notin flag => since[d] = 0
      BY DEF ControlInv, Since
    <2>2. CASE flag \subseteq flag' /\ flag' \subseteq RunIds /\ UNCHANGED since
      BY <1>1, <2>1, <2>2
    <2>3. CASE Unflagged(call[c].run)
      BY <1>1, <2>1, <2>3 DEF Unflagged
    <2> QED
      BY <2>2, <2>3
  <1>4. ASSUME NEW d \in Callers
        PROVE  Since(d, call[d])'
    <2>1. CASE d = c
      BY <1>2, <1>3, <2>1 DEF Since
    <2>2. CASE d # c
      <3>1. PICK m : m = call[d] /\ call'[d] = m /\ Since(d, m)
        BY <1>2, <2>2 DEF ControlInv
      <3>2. since[d] \in Nat /\ faults' \in Nat /\ faults \in Nat
        BY <1>1, RunControlAssumption
      <3>3. (m.run \notin flag' => since'[d] = 0) /\ (since'[d] = since[d] \/ since'[d] = 0)
        BY <1>3, <3>1
      <3> QED
        BY <1>1, <3>1, <3>2, <3>3 DEF Since
    <2> QED
      BY <2>1, <2>2
  <1> QED
    BY <1>1, <1>3, <1>4, CallStep

\* What is known of a call that has ended.
LEMMA EndedKnown ==
    ASSUME NEW q, q.pc \in Ended, q.kind = "create" => q.pc \in {"unsaved", "refused", "raised", "crashed"}
    PROVE  Known(q)
  BY DEF Known, Creation, Entity, Cost, State, Asked, Worker, Steps, StepsAhead, Ended, Loop

\* set_flag and publish_request, either of which Redis may refuse.
LEMMA SignalKeeps ==
    ASSUME ControlInv, NEW c \in Callers, Signal(c)
    PROVE  ControlInv'
  <1>1. PICK published \in BOOLEAN, ok \in BOOLEAN :
          /\ Redis(ok)
          /\ flag' = IF ok THEN flag \cup {call[c].run} ELSE flag
          /\ call' = [call EXCEPT ![c] = At(IF published THEN "true" ELSE "false", @)]
    BY DEF Signal
  <1>2. PICK pc \in {"true", "false"} : call' = [call EXCEPT ![c] = At(pc, call[c])]
    BY <1>1
  <1>3. /\ call[c] \in CallType /\ Known(call[c]) /\ Since(c, call[c]) /\ since[c] \in Nat
        /\ call[c].pc = "signal" /\ call[c].run \in RunIds /\ flag \subseteq RunIds
        /\ faults' \in Nat /\ UNCHANGED <<world, since>> /\ Unwritten
    BY <1>1, RunControlAssumption DEF ControlInv, Types, Signal, CallType, Redis
  <1>4. pc \in Pcs /\ pc \in Ended
    BY DEF Pcs, Ended
  <1> DEFINE q == At(pc, call[c])
  <1>5. q \in CallType /\ q.pc = pc /\ q.kind = call[c].kind /\ q.run = call[c].run
    BY <1>3, <1>4, AtIs
  <1>6. call' = [call EXCEPT ![c] = q]
    BY <1>2
  <1> HIDE DEF q
  <1>7. Known(q)
    <2>1. q.kind # "create"
      BY <1>3, <1>5 DEF Known, Creation
    <2> QED
      BY <1>4, <1>5, <2>1, EndedKnown
  <1>8. flag \subseteq flag' /\ flag' \subseteq RunIds
    BY <1>1, <1>3
  <1>9. since'[c] <= faults' + IF q.pc \in {"after_row", "check", "check_row", "step"} THEN 0 ELSE 1
    BY <1>3 DEF Since
  <1>10. /\ q.pc \notin Loop /\ call[c].pc # "done"
         /\ q.pc \notin {"new", "lookup", "insert", "get", "update", "signal", "start"}
    BY <1>3, <1>5 DEF Loop
  <1> QED
    BY <1>1, <1>3, <1>5, <1>6, <1>7, <1>8, <1>9, <1>10, RedisKeeps

\* The flag of a run goes, and with it the steps counted since it was up.
LEMMA CleanupKeeps ==
    ASSUME ControlInv, NEW c \in Callers, Cleanup(c)
    PROVE  ControlInv'
  <1>1. PICK ok \in BOOLEAN :
          /\ Redis(ok)
          /\ IF ok THEN Unflagged(call[c].run) ELSE UNCHANGED <<flag, since>>
    BY DEF Cleanup
  <1>2. call' = [call EXCEPT ![c] = At("done", call[c])]
    BY DEF Cleanup
  <1>3. /\ call[c] \in CallType /\ Known(call[c]) /\ Since(c, call[c]) /\ since[c] \in Nat
        /\ call[c].pc = "clear" /\ call[c].run \in RunIds /\ flag \subseteq RunIds
        /\ faults \in Nat /\ faults' \in Nat /\ faults <= faults' /\ UNCHANGED world /\ Unwritten
        /\ since \in [Callers -> Nat]
    BY <1>1, RunControlAssumption DEF ControlInv, Types, Cleanup, CallType, Redis
  <1>4. "done" \in Pcs /\ "done" \in Ended
    BY DEF Pcs, Ended
  <1> DEFINE q == At("done", call[c])
  <1>5. q \in CallType /\ q.pc = "done" /\ q.kind = call[c].kind /\ q.run = call[c].run
    BY <1>3, <1>4, AtIs
  <1>6. call' = [call EXCEPT ![c] = q]
    BY <1>2
  <1> HIDE DEF q
  <1>7. Known(q)
    <2>1. q.kind # "create"
      BY <1>3, <1>5 DEF Known, Creation
    <2> QED
      BY <1>4, <1>5, <2>1, EndedKnown
  <1>8. /\ flag \subseteq flag' /\ flag' \subseteq RunIds /\ UNCHANGED since
        \/ Unflagged(call[c].run)
    BY <1>1, <1>3
  <1>9. since'[c] <= faults' + 1
    <2>1. since'[c] \in {0, since[c]}
      BY <1>3, <1>8 DEF Unflagged
    <2>2. since[c] <= faults + 1
      BY <1>3 DEF Since
    <2> QED
      BY <1>3, <2>1, <2>2
  <1> QED
    BY <1>1, <1>3, <1>5, <1>6, <1>7, <1>8, <1>9, RedisKeeps DEF Loop

\* The process of a call dies: its entity is gone.
LEMMA CrashKeeps ==
    ASSUME ControlInv, NEW c \in Callers, Crash(c)
    PROVE  ControlInv'
  <1>1. /\ Redis(FALSE) /\ call[c].pc \notin Ended \cup {"new"}
        /\ call' = [call EXCEPT ![c] = At("crashed", call[c])]
        /\ UNCHANGED <<world, flag, since>> /\ Unwritten
    BY DEF Crash
  <1>3. /\ call[c] \in CallType /\ Since(c, call[c]) /\ since[c] \in Nat
        /\ faults \in Nat /\ faults' \in Nat /\ faults <= faults' /\ flag \subseteq RunIds
    BY <1>1, RunControlAssumption DEF ControlInv, Types, Redis
  <1>4. "crashed" \in Pcs /\ "crashed" \in Ended
    BY DEF Pcs, Ended
  <1> DEFINE q == At("crashed", call[c])
  <1>5. q \in CallType /\ q.pc = "crashed" /\ q.run = call[c].run
    BY <1>3, <1>4, AtIs
  <1>6. call' = [call EXCEPT ![c] = q]
    BY <1>1
  <1> HIDE DEF q
  <1>7. Known(q)
    BY <1>4, <1>5, EndedKnown
  <1>8. flag \subseteq flag' /\ flag' \subseteq RunIds /\ UNCHANGED since
    BY <1>1, <1>3
  <1>9. since'[c] <= faults' + 1
    BY <1>1, <1>3 DEF Since
  <1>10. call[c].pc # "done" /\ FALSE \in BOOLEAN
    BY <1>1 DEF Ended
  <1> QED
    BY <1>1, <1>5, <1>6, <1>7, <1>8, <1>9, <1>10, RedisKeeps DEF Loop

\* The flag of a run expires.
LEMMA ExpiryKeeps ==
    ASSUME ControlInv, FlagExpires
    PROVE  ControlInv'
  <1>1. PICK r \in flag : Unflagged(r)
    BY DEF FlagExpires
  <1>2. /\ UNCHANGED <<world, call, table, begun, charged, overwrote>>
        /\ faults \in Nat /\ faults' \in 0..MaxFaults /\ faults <= faults'
        /\ call \in [Callers -> CallType] /\ since \in [Callers -> Nat] /\ flag \subseteq RunIds
    BY RunControlAssumption DEF FlagExpires, Redis, Unwritten, ControlInv, Types
  <1>3. flag' \subseteq RunIds /\ since' \in [Callers -> Nat]
    BY <1>1, <1>2 DEF Unflagged
  <1>4. ASSUME NEW c \in Callers
        PROVE  Since(c, call[c])'
    <2>1. PICK m : m = call[c] /\ call'[c] = m /\ Since(c, m)
      BY <1>2 DEF ControlInv
    <2>2. since[c] \in Nat /\ faults' \in Nat
      BY <1>2, RunControlAssumption
    <2>3. since'[c] = IF m.run = r THEN 0 ELSE since[c]
      BY <1>1, <2>1 DEF Unflagged
    <2>4. flag' = flag \ {r}
      BY <1>1 DEF Unflagged
    <2> QED
      BY <1>2, <2>1, <2>2, <2>3, <2>4 DEF Since
  <1>5. ASSUME NEW c \in Callers
        PROVE  Known(call[c])'
    <2>1. PICK m : m = call'[c] /\ Known(m)
      BY <1>2 DEF ControlInv
    <2> QED
      BY <1>2, <2>1 DEF Known, Creation, Entity, Cost, State, Asked, Worker, Steps, StepsAhead, Due
  <1>6. Types' /\ RowsKnown' /\ OneWorker'
    BY <1>2, <1>3 DEF ControlInv, Types, RowsKnown, OneWorker, Present
  <1>7. \A r2 \in RunIds : RowInv(r2)'
    BY <1>2 DEF ControlInv, RowInv
  <1> QED
    BY <1>4, <1>5, <1>6, <1>7 DEF ControlInv

\* is_cancelled asks Redis: a call that fails is a fault, and lets one step pass.
LEMMA CheckFlagKeeps ==
    ASSUME ControlInv, NEW c \in Callers, CheckFlag(c)
    PROVE  ControlInv'
  <1> DEFINE m == call[c]
  <1>1. PICK ok \in BOOLEAN :
          /\ Redis(ok)
          /\ call' = [call EXCEPT ![c].pc = IF ok /\ m.run \in flag THEN "ack" ELSE NotCancelled(@)]
    BY DEF CheckFlag
  <1>2. /\ m \in CallType /\ Known(m) /\ Since(c, m) /\ since[c] \in Nat
        /\ m.pc \in {"check", "after"} /\ flag \subseteq RunIds
        /\ faults \in Nat /\ faults' \in Nat /\ UNCHANGED <<world, flag, since>> /\ Unwritten
        /\ faults' = IF ok THEN faults ELSE faults + 1
    BY <1>1, RunControlAssumption DEF ControlInv, Types, CheckFlag, Redis
  <1>3. PICK pc \in {"ack", "check_row", "after_row"} :
          /\ pc = IF ok /\ m.run \in flag THEN "ack" ELSE NotCancelled(m.pc)
          /\ pc = "check_row" => m.pc = "check" /\ (~ok \/ m.run \notin flag)
          /\ pc = "after_row" => m.pc = "after" /\ (~ok \/ m.run \notin flag)
    BY <1>2 DEF NotCancelled
  <1>4. pc \in Pcs
    BY DEF Pcs, Loop
  <1> DEFINE q == [m EXCEPT !.pc = pc]
  <1>5. /\ q \in CallType /\ q.pc = pc /\ q.kind = m.kind /\ q.run = m.run
        /\ q.copy = m.copy /\ q.fresh = m.fresh
    <2> HIDE DEF Holding, m
    <2> QED
      BY <1>2, <1>4 DEF CallType
  <1>6. call' = [call EXCEPT ![c] = q]
    BY <1>1, <1>3
  <1> HIDE DEF q, m
  <1>7. Known(q)
    <2>1. Creation(q) /\ Entity(q)
      BY <1>2, <1>5 DEF Known, Creation, Entity, Loop
    <2>2. Cost(q)
      BY <1>2, <1>5 DEF Known, Cost, Due, Loop
    <2>3. State(q) /\ Worker(q)
      BY <1>2, <1>5 DEF Known, State, Worker, Loop, Terminal
    <2>4. StepsAhead(q)
      BY <1>2, <1>5 DEF Known, StepsAhead, Loop
    <2>5. Asked(q)
      BY <1>2, <1>5 DEF Known, Asked, Loop
    <2>6. Steps(q)
      BY <1>2, <1>5 DEF Known, Steps, Loop
    <2> QED
      BY <2>1, <2>2, <2>3, <2>4, <2>5, <2>6 DEF Known
  <1>8. flag \subseteq flag' /\ flag' \subseteq RunIds /\ UNCHANGED since
    BY <1>2
  <1>9. since'[c] <= faults' + IF pc \in {"after_row", "check", "check_row", "step"} THEN 0 ELSE 1
    BY <1>2, <1>3 DEF Since
  <1>10. /\ q.run = call[c].run /\ call[c].pc \in Loop /\ call[c].pc # "done"
         /\ q.pc \notin {"new", "lookup", "insert", "get", "update", "signal", "start"}
    BY <1>2, <1>5 DEF m, Loop
  <1> QED
    BY <1>1, <1>2, <1>5, <1>6, <1>7, <1>8, <1>9, <1>10, RedisKeeps

\* What update does to the row: the state and the cost, of what is looked at.
LEMMA WrittenIs ==
    ASSUME NEW row \in Run, NEW run \in Run
    PROVE  /\ Written(row, run) \in Run
           /\ Written(row, run).state = run.state /\ Written(row, run).spent = run.spent
           /\ Written(row, run).steps = row.steps
           /\ Written(row, run).tenant = row.tenant /\ Written(row, run).key = row.key
           /\ Written(row, run).cancel = run.cancel
  <1>1. PICK K, T, S, O, N, Q :
          Run = [tenant : T, key : K, state : S, owner : O, lease : BOOLEAN, cancel : BOOLEAN,
                 spent : N, steps : Q]
    BY DEF Run
  <1>2. PICK q : q = Written(row, run)
    OBVIOUS
  <1>3. /\ q \in Run
        /\ q.state = run.state /\ q.spent = run.spent /\ q.steps = row.steps
        /\ q.tenant = row.tenant /\ q.key = row.key
    BY <1>1, <1>2 DEF Written
  <1>4. q.cancel = run.cancel
    BY <1>1, <1>2 DEF Written
  <1> QED
    BY <1>2, <1>3, <1>4

\* The calls after a write of call c.
LEMMA StaleIs ==
    ASSUME ControlInv, NEW c \in Callers, NEW row, NEW q \in CallType,
           call' = [Stale(c, row) EXCEPT ![c] = q]
    PROVE  /\ call' \in [Callers -> CallType]
           /\ call'[c] = q
           /\ \A d \in Callers \ {c} :
                /\ call'[d].kind = call[d].kind /\ call'[d].pc = call[d].pc
                /\ call'[d].tenant = call[d].tenant /\ call'[d].key = call[d].key
                /\ call'[d].run = call[d].run /\ call'[d].cost = call[d].cost
                /\ call'[d].copy = call[d].copy
                /\ call'[d].fresh =>
                     call[d].fresh /\ (call[d].run = call[c].run => row = table[call[c].run])
  <1>1. call \in [Callers -> CallType]
    BY DEF ControlInv, Types
  <1>2. ASSUME NEW d \in Callers
        PROVE  /\ Stale(c, row)[d] \in CallType
               /\ Stale(c, row)[d].kind = call[d].kind /\ Stale(c, row)[d].pc = call[d].pc
               /\ Stale(c, row)[d].tenant = call[d].tenant /\ Stale(c, row)[d].key = call[d].key
               /\ Stale(c, row)[d].run = call[d].run /\ Stale(c, row)[d].cost = call[d].cost
               /\ Stale(c, row)[d].copy = call[d].copy
               /\ Stale(c, row)[d].fresh =>
                    call[d].fresh /\ (d # c /\ call[d].run = call[c].run => row = table[call[c].run])
    <2>1. CASE d # c /\ call[d].run = call[c].run /\ row # table[call[c].run]
      <3>1. PICK q2 : q2 = Stale(c, row)[d]
        OBVIOUS
      <3>2. PICK m : m = call[d] /\ m \in CallType /\ q2 = [m EXCEPT !.fresh = FALSE]
        BY <1>1, <2>1, <3>1 DEF Stale
      <3>3. /\ q2 \in CallType /\ q2.kind = m.kind /\ q2.pc = m.pc /\ q2.tenant = m.tenant
            /\ q2.key = m.key /\ q2.run = m.run /\ q2.cost = m.cost /\ q2.copy = m.copy
            /\ q2.fresh = FALSE
        BY <3>2 DEF CallType
      <3> QED
        BY <3>1, <3>2, <3>3
    <2>2. CASE ~(d # c /\ call[d].run = call[c].run /\ row # table[call[c].run])
      <3>1. Stale(c, row)[d] = call[d]
        BY <2>2 DEF Stale
      <3> QED
        BY <1>1, <2>2, <3>1
    <2> QED
      BY <2>1, <2>2
  <1>3. /\ call'[c] = q
        /\ \A d \in Callers \ {c} : call'[d] = Stale(c, row)[d]
        /\ DOMAIN call' = Callers /\ \A d \in Callers : call'[d] \in CallType
        /\ call' \in [Callers -> CallType]
    BY <1>2 DEF Stale
  <1> QED
    BY <1>2, <1>3

\* What is due of a cost is a number.
LEMMA DueIsNat ==
    ASSUME NEW m \in CallType
    PROVE  Due(m) \in Nat
  <1>1. Costs \subseteq Nat
    BY RunControlAssumption
  <1>2. PICK x \in Amounts : x = m.cost
    BY DEF CallType
  <1>3. x \in Nat
    BY <1>1 DEF Amounts
  <1>4. Due(m) \in {0, m.cost}
    BY DEF Due
  <1> QED
    BY <1>2, <1>3, <1>4

\* A call writes its entity over the row: all columns, and its cost.
LEMMA WriteKeeps ==
    ASSUME ControlInv, NEW c \in Callers, NEW run \in Run, NEW pc \in Pcs, NEW cost,
           Update(c, run, pc, cost), world # "sql",
           call[c].pc \in Holding, cost = Due(call[c]),
           run.spent = call[c].copy.spent, run.steps = call[c].copy.steps,
           call[c].fresh =>
             \/ run.state \in {table[call[c].run].state} \cup Terminal
             \/ call[c].pc = "start" /\ CanTransition(call[c].copy.state, "running")
             \/ call[c].pc = "save_run",
           \/ pc \in {"done", "true"} /\ call[c].kind # "create"
           \/ pc = "signal" /\ call[c].pc = "update"
           \/ pc = "clear"
           \/ pc = "check" /\ call[c].pc = "start" /\ run.state = "running"
                /\ CanTransition(call[c].copy.state, "running")
           \/ pc = "after" /\ call[c].pc = "save_run" /\ run.state = "running"
    PROVE  ControlInv'
  <1> DEFINE m == call[c]
             r == m.run
             old == table[r]
             row == Written(old, run)
             written == At(pc, [m EXCEPT !.copy = run, !.fresh = TRUE])
  <1>1. /\ m \in CallType /\ r \in RunIds /\ Known(m) /\ Since(c, m) /\ since[c] \in Nat
        /\ RowInv(r) /\ m.fresh \in BOOLEAN
        /\ call \in [Callers -> CallType] /\ table \in [RunIds -> Run \cup {None}]
        /\ charged \in [RunIds -> Nat] /\ overwrote \subseteq RunIds /\ faults \in Nat
        /\ Cost(m) /\ State(m) /\ Worker(m) /\ StepsAhead(m)
    BY RunControlAssumption DEF ControlInv, Types, CallType, Known
  <1>2. old \in Run /\ old # None /\ m.copy # None /\ Len(m.copy.steps) = Len(old.steps)
    BY <1>1 DEF Known, Entity
  <1>3. /\ row \in Run /\ row # None
        /\ row.state = run.state /\ row.spent = run.spent /\ row.steps = old.steps
        /\ row.tenant = old.tenant /\ row.key = old.key
        /\ row.cancel = run.cancel
    BY <1>2, WrittenIs, RunControlAssumption
  <1>4. /\ table' = [table EXCEPT ![r] = row]
        /\ call' = [Stale(c, row) EXCEPT ![c] = written]
        /\ overwrote' = IF m.fresh THEN overwrote ELSE overwrote \cup {r}
        /\ charged' = [charged EXCEPT ![r] = @ + cost]
        /\ UNCHANGED <<world, flag, begun, since, faults>>
    BY DEF Update
  <1>5. PICK q \in CallType :
          /\ q = written
          /\ q.pc = pc /\ q.kind = m.kind /\ q.run = r /\ q.fresh = TRUE
          /\ q.copy = IF pc \in Ended THEN None ELSE run
    <2>1. PICK x : x = [m EXCEPT !.copy = run, !.fresh = TRUE]
      OBVIOUS
    <2>2. run \in Optional(Run)
      BY DEF Optional
    <2>3. x \in CallType /\ x.kind = m.kind /\ x.run = r /\ x.copy = run /\ x.fresh = TRUE
      <3> HIDE DEF m, Holding
      <3> QED
        BY <1>1, <2>1, <2>2 DEF CallType
    <2>4. PICK y : y = At(pc, x)
      OBVIOUS
    <2>5. written = y
      BY <2>1, <2>4
    <2>6. /\ y \in CallType /\ y.pc = pc /\ y.kind = x.kind /\ y.run = x.run
          /\ pc \in Ended => y.copy = None /\ y.fresh
          /\ pc \notin Ended => y.copy = x.copy /\ y.fresh = x.fresh
      BY <2>3, <2>4, AtIs
    <2>7. y.fresh \in BOOLEAN
      BY <2>6 DEF CallType
    <2> HIDE DEF written
    <2> QED
      BY <2>3, <2>5, <2>6, <2>7
  <1> HIDE DEF written, row
  <1>6. /\ call' \in [Callers -> CallType] /\ call'[c] = q
        /\ \A d \in Callers \ {c} :
             /\ call'[d].kind = call[d].kind /\ call'[d].pc = call[d].pc
             /\ call'[d].tenant = call[d].tenant /\ call'[d].key = call[d].key
             /\ call'[d].run = call[d].run /\ call'[d].cost = call[d].cost
             /\ call'[d].copy = call[d].copy
             /\ call'[d].fresh => call[d].fresh /\ (call[d].run = r => row = old)
    BY <1>4, <1>5, StaleIs
  <1>7. cost \in Nat
    BY <1>1, DueIsNat
  <1>8. /\ table' \in [RunIds -> Run \cup {None}] /\ table'[r] = row
        /\ \A s \in RunIds \ {r} : table'[s] = table[s]
        /\ charged' \in [RunIds -> Nat] /\ charged'[r] = charged[r] + cost
        /\ \A s \in RunIds \ {r} : charged'[s] = charged[s]
        /\ overwrote' \subseteq RunIds /\ overwrote \subseteq overwrote'
        /\ r \notin overwrote' => m.fresh
        /\ charged[r] \in Nat
    <2>1. /\ table' \in [RunIds -> Run \cup {None}] /\ table'[r] = row
          /\ \A s \in RunIds \ {r} : table'[s] = table[s]
      BY <1>1, <1>3, <1>4
    <2>2. /\ charged' \in [RunIds -> Nat] /\ charged'[r] = charged[r] + cost
          /\ \A s \in RunIds \ {r} : charged'[s] = charged[s]
          /\ charged[r] \in Nat
      <3>1. charged[r] + cost \in Nat /\ charged[r] \in Nat
        BY <1>1, <1>7
      <3> QED
        BY <1>1, <1>4, <3>1
    <2>3. /\ overwrote' \subseteq RunIds /\ overwrote \subseteq overwrote'
          /\ r \notin overwrote' => m.fresh
      BY <1>1, <1>4
    <2> QED
      BY <2>1, <2>2, <2>3
  <1>9. Types'
    BY <1>4, <1>6, <1>8 DEF ControlInv, Types
  <1>10. /\ row.spent \in Nat /\ row.spent <= charged'[r]
         /\ r \notin overwrote' => row.spent = charged'[r]
    <2>1. row.spent \in Nat /\ old.spent \in Nat
      BY <1>2, <1>3, RunControlAssumption DEF Run
    <2>2. m.copy.spent <= charged[r] + cost /\ (m.fresh => m.copy.spent = old.spent + cost)
      BY <1>1 DEF Cost
    <2>3. r \notin overwrote => old.spent = charged[r]
      BY <1>1, <1>2 DEF RowInv
    <2> QED
      BY <1>3, <1>7, <1>8, <2>1, <2>2, <2>3
  <1>11. ASSUME NEW s \in RunIds
         PROVE  RowInv(s)'
    <2>1. RowInv(s)
      BY DEF ControlInv
    <2>2. CASE s = r
      BY <1>2, <1>3, <1>4, <1>8, <1>10, <2>1, <2>2 DEF RowInv
    <2>3. CASE s # r
      BY <1>4, <1>8, <2>1, <2>3 DEF RowInv
    <2> QED
      BY <2>2, <2>3
  <1>12. \A s \in RunIds : /\ table'[s] = None <=> table[s] = None
                           /\ table[s] # None => /\ table'[s].tenant = table[s].tenant
                                                 /\ table'[s].key = table[s].key
                                                 /\ table'[s].steps = table[s].steps
    BY <1>2, <1>3, <1>8
  <1>13. RowsKnown'
    <2>1. ASSUME NEW d \in Callers, table'[d] # None
          PROVE  call'[d].kind = "create" /\ call'[d].pc = "done"
      <3>1. d \in RunIds
        BY DEF RunIds
      <3>2. call[d].kind = "create" /\ call[d].pc = "done"
        BY <1>12, <2>1, <3>1 DEF ControlInv, RowsKnown
      <3>3. d # c
        BY <3>2 DEF Loop
      <3> QED
        BY <1>6, <3>2, <3>3
    <2>2. \A s, t \in Present : table[s].tenant = table[t].tenant /\ table[s].key = table[t].key => s = t
      BY DEF ControlInv, RowsKnown
    <2>3. ASSUME NEW s \in Present', NEW t \in Present',
                 table'[s].tenant = table'[t].tenant, table'[s].key = table'[t].key
          PROVE  s = t
      <3>1. s \in RunIds /\ t \in RunIds /\ table'[s] # None /\ table'[t] # None
        BY <2>3 DEF Present
      <3>2. s \in Present /\ t \in Present
        BY <1>12, <3>1 DEF Present
      <3>3. /\ table'[s].tenant = table[s].tenant /\ table'[s].key = table[s].key
            /\ table'[t].tenant = table[t].tenant /\ table'[t].key = table[t].key
        BY <1>12, <3>2 DEF Present
      <3>4. table[s].tenant = table[t].tenant /\ table[s].key = table[t].key
        BY <2>3, <3>3
      <3> QED
        BY <2>2, <3>2, <3>4
    <2> QED
      BY <2>1, <2>3 DEF RowsKnown
  \* Nobody is in the loop of a run that can start, and nobody else of a saved one.
  <1>14. ASSUME NEW d \in Callers \ {c}, call[d].pc \in Loop, call[d].run = r, r \notin overwrote'
         PROVE  row.state \in {"running"} \cup Terminal /\ pc \notin Loop
    <2>1. old.state \in {"running"} \cup Terminal
      BY <1>8, <1>14 DEF ControlInv, Known, StepsAhead
    <2>2. m.pc = "start" => m.copy.state = old.state
      BY <1>1, <1>8, <1>14 DEF State
    <2>3. ~CanTransition(m.copy.state, "running") \/ m.pc # "start"
      BY <2>1, <2>2 DEF CanTransition, Terminal
    <2>4. m.pc \notin Loop
      BY <1>8, <1>14 DEF ControlInv, OneWorker
    <2> QED
      BY <1>3, <1>8, <1>14, <2>1, <2>3, <2>4 DEF Loop, Ended
  <1>15. OneWorker'
    <2>1. ASSUME NEW d \in Callers, NEW e \in Callers, call'[d].pc \in Loop,
                 call'[e].pc \in Loop, call'[d].run = call'[e].run, call'[d].run \notin overwrote',
                 d # e
          PROVE  FALSE
      <3>1. CASE d = c
        BY <1>5, <1>6, <1>14, <2>1, <3>1
      <3>2. CASE e = c
        BY <1>5, <1>6, <1>14, <2>1, <3>2
      <3>3. CASE d # c /\ e # c
        BY <1>6, <1>8, <2>1, <3>3 DEF ControlInv, OneWorker
      <3> QED
        BY <3>1, <3>2, <3>3
    <2> QED
      BY <2>1 DEF OneWorker

  <1>16. ASSUME NEW d \in Callers \ {c}
         PROVE  Known(call[d])'
    <2>0. PICK o, n : o = call[d] /\ n = call'[d]
      OBVIOUS
    <2>1. /\ n.kind = o.kind /\ n.pc = o.pc /\ n.tenant = o.tenant /\ n.key = o.key
          /\ n.run = o.run /\ n.cost = o.cost /\ n.copy = o.copy
          /\ n.fresh => o.fresh /\ table'[o.run] = table[o.run]
          /\ Known(o) /\ o.run \in RunIds
      <3>1. /\ n.kind = o.kind /\ n.pc = o.pc /\ n.tenant = o.tenant /\ n.key = o.key
            /\ n.run = o.run /\ n.cost = o.cost /\ n.copy = o.copy
            /\ n.fresh => o.fresh /\ (o.run = r => row = old)
            /\ Known(o) /\ o.run \in RunIds
        BY <1>1, <1>6, <2>0 DEF ControlInv, CallType
      <3> QED
        BY <1>8, <3>1
    <2>2. charged[o.run] \in Nat /\ charged'[o.run] \in Nat /\ charged[o.run] <= charged'[o.run]
      BY <1>1, <1>7, <1>8, <2>1
    <2>3. Creation(n)'
      BY <1>12, <2>1 DEF Known, Creation
    <2>4. Entity(n)'
      BY <1>12, <2>1 DEF Known, Entity
    <2>5. Cost(n)'
      <3>1. Due(n) = Due(o) /\ Due(o) \in Nat
        <4>1. o \in CallType
          BY <1>1, <2>0
        <4> QED
          BY <2>1, <4>1, DueIsNat DEF Due
      <3>2. ASSUME o.pc \in Holding
            PROVE  /\ o.copy.spent \in Nat /\ o.copy.spent <= charged[o.run] + Due(o)
                   /\ o.fresh => o.copy.spent = table[o.run].spent + Due(o)
        <4>1. o \in CallType /\ o.copy \in Run
          BY <1>1, <2>0, <2>1, <3>2 DEF Known, Entity, CallType, Optional
        <4>2. o.copy.spent \in Nat
          BY <4>1, RunControlAssumption DEF Run
        <4> QED
          BY <2>1, <3>2, <4>2 DEF Known, Cost
      <3>3. ASSUME n.pc \in Holding
            PROVE  /\ n.copy.spent <= charged'[n.run] + Due(n)
                   /\ n.fresh => n.copy.spent = table'[n.run].spent + Due(n)
        BY <2>1, <2>2, <3>1, <3>2, <3>3
      <3> QED
        BY <3>3 DEF Cost, Due
    <2>6. State(n)' /\ Worker(n)'
      BY <1>4, <2>1 DEF Known, State, Worker
    <2>7. StepsAhead(n)'
      BY <1>4, <1>8, <1>12, <1>14, <2>0, <2>1 DEF Known, StepsAhead
    <2>8. Asked(n)'
      BY <2>1 DEF Known, Asked
    <2>9. Steps(n)'
      <3>1. n.pc \in Holding => table'[n.run].steps = table[o.run].steps
        BY <1>12, <2>1 DEF Known, Entity
      <3> QED
        BY <1>8, <2>1, <3>1 DEF Known, Steps
    <2> QED
      BY <2>0, <2>3, <2>4, <2>5, <2>6, <2>7, <2>8, <2>9 DEF Known
  <1>17. Known(q)'
    <2>1. table'[r].steps = old.steps /\ (pc \in Holding => q.copy = run)
      BY <1>3, <1>5, <1>8 DEF Loop, Ended
    <2>2. Creation(q)'
      <3>1. m.kind # "create"
        BY <1>1 DEF Known, Creation, Loop
      <3> QED
        BY <1>5, <3>1 DEF Creation, Loop
    <2>3. Entity(q)'
      BY <1>2, <1>3, <1>5, <1>8, <2>1, RunControlAssumption DEF Entity
    <2>4. Cost(q)'
      <3>1. pc \in Holding => Due(q) = 0
        BY <1>5 DEF Due, Loop
      <3>2. pc \in Holding => q.copy.spent = row.spent
        BY <1>3, <2>1
      <3> QED
        <4>1. ASSUME q.pc \in Holding
              PROVE  /\ q.copy.spent <= charged'[q.run] + Due(q)
                     /\ q.copy.spent = table'[q.run].spent + Due(q)
          <5>1. Due(q) = 0 /\ q.copy.spent = row.spent
            BY <1>5, <3>1, <3>2, <4>1
          <5>2. charged'[q.run] = charged'[r] /\ table'[q.run] = row /\ charged'[r] \in Nat
            BY <1>1, <1>5, <1>8
          <5> QED
            BY <1>10, <5>1, <5>2
        <4> QED
          BY <4>1 DEF Cost, Due
    <2>5. State(q)'
      BY <1>3, <1>5, <1>8, <2>1 DEF State, Loop, Ended
    <2>6. Worker(q)'
      BY <1>1, <1>4, <1>5 DEF Worker, Loop, Ended
    <2>7. StepsAhead(q)'
      <3>1. ASSUME r \notin overwrote', pc \in Loop
            PROVE  \A i \in DOMAIN run.steps : run.steps[i].state = "queued" => begun[r][i] = 0
        <4>1. CASE m.pc = "start"
          <5>1. run.steps = old.steps
            BY <1>1, <1>8, <3>1, <4>1 DEF StepsAhead, Loop, Ended
          <5> QED
            BY <1>1, <1>2, <5>1 DEF RowInv
        <4>2. CASE m.pc = "save_run"
          BY <1>1, <1>8, <3>1, <4>2 DEF StepsAhead, Loop
        <4> QED
          BY <3>1, <4>1, <4>2 DEF Loop, Ended
      <3>2. pc \in Loop => row.state = "running" /\ q.copy.steps = run.steps
        BY <1>3, <2>1 DEF Loop, Ended
      <3>3. pc # "start"
        OBVIOUS
      <3> QED
        BY <1>4, <1>5, <1>8, <3>1, <3>2, <3>3 DEF StepsAhead
    <2>8. Asked(q)'
      BY <1>3, <1>5, <1>8, <2>1 DEF Asked
    <2>9. Steps(q)'
      <3>1. AllStates(run.steps)
        BY <1>1 DEF Known, Steps
      <3>2. ASSUME r \notin overwrote', pc \in Loop
            PROVE  run.steps = old.steps
        <4>1. CASE m.pc = "start"
          BY <1>1, <1>8, <3>2, <4>1 DEF StepsAhead, Loop, Ended
        <4>2. CASE m.pc = "save_run"
          BY <1>1, <1>8, <3>2, <4>2 DEF Known, Steps, Loop
        <4> QED
          BY <3>2, <4>1, <4>2 DEF Loop, Ended
      <3>3. pc \notin {"work", "save_step"}
        BY DEF Ended
      <3> QED
        BY <1>5, <2>1, <3>1, <3>2, <3>3 DEF Steps
    <2> QED
      BY <2>2, <2>3, <2>4, <2>5, <2>6, <2>7, <2>8, <2>9 DEF Known
  <1>18. ASSUME NEW d \in Callers
         PROVE  Since(d, call[d])'
    <2>1. CASE d # c
      <3>1. PICK o, n : /\ o = call[d] /\ n = call'[d] /\ Since(d, o)
                        /\ n.run = o.run /\ n.pc = o.pc
        BY <1>6, <2>1 DEF ControlInv
      <3> QED
        BY <1>4, <3>1 DEF Since
    <2>2. CASE d = c
      <3>1. Since(c, q)
        BY <1>1, <1>5 DEF Since, Loop, Ended
      <3> QED
        BY <1>4, <1>6, <2>2, <3>1 DEF Since
    <2> QED
      BY <2>1, <2>2
  <1>19. ASSUME NEW d \in Callers
         PROVE  Known(call[d])'
    <2>1. CASE d = c
      <3>1. PICK n : n = call'[d] /\ n = q
        BY <1>6, <2>1
      <3> QED
        BY <1>17, <3>1
    <2> QED
      BY <1>16, <2>1
  <1> QED
    BY <1>9, <1>11, <1>13, <1>15, <1>18, <1>19 DEF ControlInv

\* One step of a run in another state.
LEMMA WithStepIs ==
    ASSUME NEW row \in Run, NEW i \in DOMAIN row.steps, NEW state \in RunState
    PROVE  /\ WithStep(row, i, state) \in Run
           /\ WithStep(row, i, state).state = row.state /\ WithStep(row, i, state).spent = row.spent
           /\ WithStep(row, i, state).tenant = row.tenant /\ WithStep(row, i, state).key = row.key
           /\ DOMAIN WithStep(row, i, state).steps = DOMAIN row.steps
           /\ Len(WithStep(row, i, state).steps) = Len(row.steps)
           /\ WithStep(row, i, state).steps[i].state = state
           /\ \A j \in DOMAIN row.steps \ {i} : WithStep(row, i, state).steps[j] = row.steps[j]
  <1>1. PICK K, T, S, O, N :
          Run = [tenant : T, key : K, state : S, owner : O, lease : BOOLEAN, cancel : BOOLEAN,
                 spent : N, steps : Seq(Step)]
    BY DEF Run
  <1>2. PICK old : old = row.steps /\ old \in Seq(Step) /\ i \in DOMAIN old
    BY <1>1
  <1>3. PICK step : step = [old[i] EXCEPT !.state = state]
    OBVIOUS
  <1>4. step \in Step /\ step.state = state
    <2>1. old[i] \in Step
      BY <1>2
    <2> QED
      BY <1>3, <2>1 DEF Step
  <1>5. PICK new : new = [old EXCEPT ![i] = step]
    OBVIOUS
  <1>6. new \in Seq(Step) /\ DOMAIN new = DOMAIN old /\ Len(new) = Len(old) /\ new[i] = step
        /\ \A j \in DOMAIN old \ {i} : new[j] = old[j]
    BY <1>2, <1>4, <1>5
  <1>7. WithStep(row, i, state) = [row EXCEPT !.steps = new]
    BY <1>2, <1>3, <1>5 DEF WithStep
  <1>8. PICK q : q = [row EXCEPT !.steps = new]
    OBVIOUS
  <1>9. /\ q \in Run
        /\ q.state = row.state /\ q.spent = row.spent /\ q.steps = new
        /\ q.tenant = row.tenant /\ q.key = row.key
    BY <1>1, <1>6, <1>8
  <1> QED
    BY <1>2, <1>4, <1>6, <1>7, <1>8, <1>9

\* The same, of all its steps at once, and of the request to stop it.
LEMMA WithStepSteps ==
    ASSUME NEW row \in Run, NEW i, NEW state
    PROVE  /\ WithStep(row, i, state).steps = Stepped(row.steps, i, state)
           /\ WithStep(row, i, state).cancel = row.cancel
  <1>1. PICK K, T, S, O, N, Q :
          Run = [tenant : T, key : K, state : S, owner : O, lease : BOOLEAN, cancel : BOOLEAN,
                 spent : N, steps : Q]
    BY DEF Run
  <1>2. PICK new : new = Stepped(row.steps, i, state)
    OBVIOUS
  <1>3. PICK q : q = [row EXCEPT !.steps = new]
    OBVIOUS
  <1>4. q.steps = new /\ q.cancel = row.cancel
    BY <1>1, <1>3
  <1>5. WithStep(row, i, state) = q
    BY <1>2, <1>3 DEF WithStep, Stepped
  <1> QED
    BY <1>2, <1>4, <1>5

\* A step that begins behind finished ones, or ends, keeps the order of the steps.
LEMMA OrderKept ==
    ASSUME NEW steps \in Seq(Step), AllStates(steps), InOrder(steps), NEW i \in DOMAIN steps,
           NEW state \in StepStates \ {"queued"},
           \/ /\ steps[i].state = "queued"
              /\ \A j \in DOMAIN steps : j < i => steps[j].state \in Finished
           \/ steps[i].state = "running" /\ state \in Finished
    PROVE  AllStates(Stepped(steps, i, state)) /\ InOrder(Stepped(steps, i, state))
  <1>1. PICK new : new = Stepped(steps, i, state)
    OBVIOUS
  <1>2. /\ DOMAIN new = DOMAIN steps /\ new[i].state = state
        /\ \A j \in DOMAIN steps \ {i} : new[j] = steps[j]
    <2>1. steps[i] \in Step
      OBVIOUS
    <2> QED
      BY <1>1, <2>1 DEF Step, Stepped
  <1>3. AllStates(new)
    BY <1>2 DEF AllStates
  <1>4. ASSUME NEW a \in DOMAIN new, NEW b \in DOMAIN new, a < b, new[b].state # "queued"
        PROVE  new[a].state \in Finished
    <2>1. DOMAIN steps \subseteq Nat
      OBVIOUS
    <2>2. CASE steps[i].state = "queued" /\ \A j \in DOMAIN steps : j < i => steps[j].state \in Finished
      BY <1>2, <1>4, <2>1, <2>2 DEF InOrder, Finished
    <2>3. CASE steps[i].state = "running" /\ state \in Finished
      BY <1>2, <1>4, <2>1, <2>3 DEF InOrder, Finished
    <2> QED
      BY <2>2, <2>3
  <1> QED
    BY <1>1, <1>3, <1>4 DEF InOrder

\* A worker writes the state of a step of its run.
LEMMA StepKeeps ==
    ASSUME ControlInv, NEW c \in Callers, NEW r, r = call[c].run,
           NEW q \in CallType, NEW i, NEW state \in RunState \ {"queued"},
           call[c].pc \in {"step", "save_step"}, i \in DOMAIN call[c].copy.steps,
           call' = [call EXCEPT ![c] = q],
           table' = [table EXCEPT ![r] = WithStep(@, i, state)],
           UNCHANGED <<world, flag, charged, overwrote, faults>>,
           q.pc \in {"work", "save_run"}, q.kind = call[c].kind, q.run = r,
           q.fresh = call[c].fresh,
           q.pc = "work" => call[c].pc = "step",
           q.copy \in Run, q.copy.spent = call[c].copy.spent, q.copy.state = call[c].copy.state,
           q.copy.cancel = call[c].copy.cancel,
           state \in StepStates, AllStates(q.copy.steps),
           q.pc = "work" => AtWork(q.copy.steps),
           r \notin overwrote =>
              /\ q.copy.steps = Stepped(table[r].steps, i, state)
              /\ InOrder(q.copy.steps),
           Len(q.copy.steps) = Len(call[c].copy.steps),
           begun' \in [RunIds -> Seq(Nat)],
           \A s \in RunIds \ {r} : begun'[s] = begun[s],
           Len(begun'[r]) = Len(begun[r]),
           \A j \in DOMAIN begun[r] \ {i} : begun'[r][j] = begun[r][j],
           r \notin overwrote =>
              /\ begun'[r][i] <= 1
              /\ \A j \in DOMAIN q.copy.steps : q.copy.steps[j].state = "queued" => begun'[r][j] = 0,
           since' \in [Callers -> Nat], \A d \in Callers \ {c} : since'[d] = since[d],
           Since(c, q)'
    PROVE  ControlInv'
  <1> DEFINE m == call[c]
  <1>0. r = m.run
    OBVIOUS
  <1> DEFINE old == table[r]
             row == WithStep(old, i, state)
  <1>1. /\ m \in CallType /\ r \in RunIds /\ RowInv(r) /\ m.pc \in Loop
        /\ Entity(m) /\ Cost(m) /\ State(m) /\ Asked(m) /\ Worker(m) /\ StepsAhead(m)
        /\ call \in [Callers -> CallType] /\ table \in [RunIds -> Run \cup {None}]
        /\ begun \in [RunIds -> Seq(Nat)]
        /\ m.kind # "create"
    <2>1. m.pc \in Loop
      BY DEF Loop
    <2>2. Known(m) /\ m \in CallType
      BY DEF ControlInv, Types
    <2>3. m.kind # "create" /\ r \in RunIds
      BY <1>0, <2>2 DEF Known, Creation, CallType
    <2> QED
      BY <2>1, <2>2, <2>3 DEF ControlInv, Types, Known
  <1>2. /\ old \in Run /\ old # None /\ m.copy \in Run /\ Len(m.copy.steps) = Len(old.steps)
        /\ old.steps \in Seq(Step) /\ m.copy.steps \in Seq(Step) /\ i \in DOMAIN old.steps
    <2>1. /\ old \in Run /\ old # None /\ m.copy \in Run /\ Len(m.copy.steps) = Len(old.steps)
      BY <1>0, <1>1 DEF Entity, CallType, Optional
    <2>2. old.steps \in Seq(Step) /\ m.copy.steps \in Seq(Step)
      BY <2>1 DEF Run
    <2>3. DOMAIN old.steps = 1..Len(old.steps) /\ DOMAIN m.copy.steps = 1..Len(m.copy.steps)
      BY <2>2
    <2> QED
      BY <2>1, <2>2, <2>3
  <1>3. /\ row \in Run /\ row # None
        /\ row.state = old.state /\ row.spent = old.spent
        /\ row.tenant = old.tenant /\ row.key = old.key
        /\ DOMAIN row.steps = DOMAIN old.steps /\ Len(row.steps) = Len(old.steps)
        /\ row.steps[i].state = state
        /\ \A j \in DOMAIN old.steps \ {i} : row.steps[j] = old.steps[j]
    BY <1>2, WithStepIs, RunControlAssumption
  <1>steps. row.steps = Stepped(old.steps, i, state) /\ row.cancel = old.cancel
    BY <1>2, WithStepSteps
  <1> HIDE DEF row
  <1>4. /\ table' \in [RunIds -> Run \cup {None}] /\ table'[r] = row
        /\ \A s \in RunIds \ {r} : table'[s] = table[s]
    BY <1>0, <1>1, <1>3 DEF row
  <1>5. call' \in [Callers -> CallType] /\ call'[c] = q /\ \A d \in Callers \ {c} : call'[d] = call[d]
    BY <1>1
  <1>6. Types'
    BY <1>4, <1>5 DEF ControlInv, Types
  <1>7. ASSUME NEW s \in RunIds
        PROVE  RowInv(s)'
    <2>1. RowInv(s)
      BY DEF ControlInv
    <2>2. CASE s # r
      BY <1>0, <1>4, <2>1, <2>2 DEF RowInv
    <2>3. CASE s = r
      <3>1. /\ begun[r] \in Seq(Nat) /\ begun'[r] \in Seq(Nat) /\ Len(begun'[r]) = Len(begun[r])
            /\ Len(begun[r]) = Len(old.steps)
        BY <1>0, <1>1, <1>2 DEF RowInv
      <3>2. /\ DOMAIN begun'[r] = DOMAIN old.steps /\ DOMAIN begun[r] = DOMAIN old.steps
        BY <1>2, <3>1
      <3>3. \A j \in DOMAIN row.steps : row.steps[j].state = "queued" => begun'[r][j] = 0
        BY <1>0, <1>1, <1>2, <1>3, <3>2 DEF RowInv
      <3>4. r \notin overwrote => \A j \in DOMAIN begun'[r] : begun'[r][j] <= 1
        BY <1>0, <1>1, <3>2 DEF RowInv
      <3>5. AllStates(row.steps)
        BY <1>0, <1>1, <1>2, <1>3 DEF RowInv, AllStates
      <3>6. r \notin overwrote => InOrder(row.steps)
        BY <1>0, <1>steps
      <3> QED
        BY <1>1, <1>2, <1>3, <1>4, <2>3, <3>1, <3>3, <3>4, <3>5, <3>6 DEF RowInv
    <2> QED
      BY <2>2, <2>3
  <1>8. \A s \in RunIds : /\ table'[s] = None <=> table[s] = None
                          /\ table[s] # None => /\ table'[s].tenant = table[s].tenant
                                                /\ table'[s].key = table[s].key
                                                /\ table'[s].state = table[s].state
                                                /\ table'[s].spent = table[s].spent
                                                /\ Len(table'[s].steps) = Len(table[s].steps)
    BY <1>2, <1>3, <1>4
  <1>cancel. \A s \in RunIds : table[s] # None => table'[s].cancel = table[s].cancel
    BY <1>0, <1>4, <1>steps
  <1>9. RowsKnown'
    <2>1. ASSUME NEW d \in Callers, table'[d] # None
          PROVE  call'[d].kind = "create" /\ call'[d].pc = "done"
      <3>1. d \in RunIds
        BY DEF RunIds
      <3>2. call[d].kind = "create" /\ call[d].pc = "done"
        BY <1>8, <2>1, <3>1 DEF ControlInv, RowsKnown
      <3>3. d # c
        BY <3>2
      <3> QED
        BY <1>5, <3>2, <3>3
    <2>2. \A s, t \in Present : table[s].tenant = table[t].tenant /\ table[s].key = table[t].key => s = t
      BY DEF ControlInv, RowsKnown
    <2>3. ASSUME NEW s \in Present', NEW t \in Present',
                 table'[s].tenant = table'[t].tenant, table'[s].key = table'[t].key
          PROVE  s = t
      <3>1. s \in RunIds /\ t \in RunIds /\ table'[s] # None /\ table'[t] # None
        BY <2>3 DEF Present
      <3>2. s \in Present /\ t \in Present
        BY <1>8, <3>1 DEF Present
      <3>3. /\ table'[s].tenant = table[s].tenant /\ table'[s].key = table[s].key
            /\ table'[t].tenant = table[t].tenant /\ table'[t].key = table[t].key
        BY <1>8, <3>2 DEF Present
      <3>4. table[s].tenant = table[t].tenant /\ table[s].key = table[t].key
        BY <2>3, <3>3
      <3> QED
        BY <2>2, <3>2, <3>4
    <2> QED
      BY <2>1, <2>3 DEF RowsKnown
  <1>10. q.pc \in Loop
    BY DEF Loop
  <1>11. OneWorker'
    BY <1>0, <1>1, <1>5, <1>10 DEF ControlInv, OneWorker
  \* While a worker is in its loop, the run does not start.
  <1>12. ASSUME NEW d \in Callers \ {c}, r \notin overwrote, call[d].run = r
         PROVE  /\ call[d].pc \notin Loop
                /\ ~(call[d].pc = "start" /\ call[d].fresh /\ CanTransition(call[d].copy.state, "running"))
    <2>1. call[d].pc \notin Loop
      BY <1>0, <1>1, <1>12 DEF ControlInv, OneWorker
    <2>2. old.state \in {"running"} \cup Terminal
      BY <1>0, <1>1, <1>12 DEF StepsAhead
    <2>3. call[d].pc = "start" /\ call[d].fresh => call[d].copy.state = old.state
      BY <1>12 DEF ControlInv, Known, State
    <2> QED
      BY <2>1, <2>2, <2>3 DEF CanTransition, Terminal
  <1>13. ASSUME NEW d \in Callers
         PROVE  Known(call[d])'
    <2>1. CASE d = c
      <3>1. PICK n : n = call'[d] /\ n = q
        BY <1>5, <2>1
      <3>2. Creation(n)' /\ Entity(n)' /\ Worker(n)'
        BY <1>0, <1>1, <1>2, <1>8, <1>10, <3>1, RunControlAssumption DEF Creation, Entity, Worker
      <3>3. Cost(n)'
        BY <1>0, <1>1, <1>2, <1>8, <3>1 DEF Cost, Due
      <3>4. State(n)'
        BY <1>0, <1>1, <1>2, <1>8, <3>1 DEF State, Loop
      <3>5. StepsAhead(n)'
        BY <1>0, <1>1, <1>2, <1>8, <3>1 DEF StepsAhead
      <3>6. Asked(n)'
        <4>1. table'[n.run].cancel = table[m.run].cancel /\ n.copy.cancel = m.copy.cancel
          BY <1>0, <1>1, <1>2, <1>cancel, <3>1
        <4>2. m.pc \in Holding /\ n.fresh = m.fresh
          BY <1>1, <3>1
        <4> QED
          BY <1>1, <4>1, <4>2 DEF Asked
      <3>7. Steps(n)'
        BY <1>4, <1>steps, <3>1 DEF Steps, Loop
      <3> QED
        BY <3>1, <3>2, <3>3, <3>4, <3>5, <3>6, <3>7 DEF Known
    <2>2. CASE d # c
      <3>1. PICK n : n = call'[d] /\ n = call[d] /\ Known(n) /\ n.run \in RunIds
        BY <1>1, <1>5, <2>2 DEF ControlInv, CallType
      <3>2. Creation(n)' /\ Entity(n)' /\ Worker(n)'
        BY <1>8, <3>1 DEF Known, Creation, Entity, Worker
      <3>3. Cost(n)' /\ State(n)'
        <4>1. n.pc \in Holding => table[n.run] # None
          BY <3>1 DEF Known, Entity
        <4> QED
          BY <1>8, <3>1, <4>1 DEF Known, Cost, State, Due
      <3>4. StepsAhead(n)'
        <4>1. CASE n.run = r
          BY <1>12, <2>2, <3>1, <4>1 DEF StepsAhead
        <4>2. CASE n.run # r
          BY <1>0, <1>4, <3>1, <4>2 DEF Known, StepsAhead
        <4> QED
          BY <4>1, <4>2
      <3>5. Asked(n)'
        <4>1. n.pc \in Holding => table[n.run] # None
          BY <3>1 DEF Known, Entity
        <4> QED
          BY <1>cancel, <3>1, <4>1 DEF Known, Asked
      <3>6. Steps(n)'
        <4>1. CASE n.run = r
          BY <1>12, <2>2, <3>1, <4>1 DEF Known, Steps, Loop
        <4>2. CASE n.run # r
          BY <1>4, <3>1, <4>2 DEF Known, Steps
        <4> QED
          BY <4>1, <4>2
      <3> QED
        BY <3>1, <3>2, <3>3, <3>4, <3>5, <3>6 DEF Known
    <2> QED
      BY <2>1, <2>2
  <1>14. ASSUME NEW d \in Callers
         PROVE  Since(d, call[d])'
    <2>1. CASE d = c
      <3>1. PICK n : n = q
        OBVIOUS
      <3> QED
        BY <1>5, <2>1 DEF Since
    <2>2. CASE d # c
      <3>1. PICK n : n = call'[d] /\ Since(d, n)
        BY <1>5, <2>2 DEF ControlInv
      <3> QED
        BY <2>2, <3>1 DEF Since
    <2> QED
      BY <2>1, <2>2
  <1> QED
    BY <1>6, <1>7, <1>9, <1>11, <1>13, <1>14 DEF ControlInv

\* A write, or with the repository of the routers the exception it raises.
LEMMA UpdateKeeps ==
    ASSUME ControlInv, NEW c \in Callers, NEW run \in Run, NEW pc \in Pcs, NEW cost,
           Update(c, run, pc, cost),
           call[c].pc \in Holding, cost = Due(call[c]),
           run.spent = call[c].copy.spent, run.steps = call[c].copy.steps,
           call[c].fresh =>
             \/ run.state \in {table[call[c].run].state} \cup Terminal
             \/ call[c].pc = "start" /\ CanTransition(call[c].copy.state, "running")
             \/ call[c].pc = "save_run",
           \/ pc \in {"done", "true"} /\ call[c].kind # "create"
           \/ pc = "signal" /\ call[c].pc = "update"
           \/ pc = "clear"
           \/ pc = "check" /\ call[c].pc = "start" /\ run.state = "running"
                /\ CanTransition(call[c].copy.state, "running")
           \/ pc = "after" /\ call[c].pc = "save_run" /\ run.state = "running"
    PROVE  ControlInv'
  <1>1. CASE world # "sql"
    BY <1>1, WriteKeeps
  <1>2. CASE world = "sql"
    <2>1. Goto(c, "raised") /\ Unwritten
      BY <1>2 DEF Update
    <2>2. "raised" \in Ended /\ call[c].pc \notin Ended
      BY DEF Ended, Loop
    <2> QED
      BY <2>1, <2>2, EndStep
  <1> QED
    BY <1>1, <1>2

\* An entity, and the run cancelled in it.
LEMMA CancelledIs ==
    ASSUME NEW run \in Run
    PROVE  /\ Cancelled(run) \in Run
           /\ Cancelled(run).spent = run.spent /\ Cancelled(run).steps = run.steps
           /\ Cancelled(run).state \in {run.state} \cup Terminal
  <1>1. CASE run.state \in Terminal
    BY <1>1 DEF Cancelled
  <1>2. CASE run.state \notin Terminal
    <2>1. PICK q : q = [run EXCEPT !.state = "cancelled", !.cancel = TRUE]
      OBVIOUS
    <2>2. PICK K, T, O, N, Q :
            Run = [tenant : T, key : K, state : RunState, owner : O, lease : BOOLEAN,
                   cancel : BOOLEAN, spent : N, steps : Q]
      BY DEF Run
    <2>3. "cancelled" \in RunState /\ "cancelled" \in Terminal
      BY DEF RunState, Terminal
    <2>4. q \in Run /\ q.spent = run.spent /\ q.steps = run.steps /\ q.state = "cancelled"
      BY <2>1, <2>2, <2>3
    <2> QED
      BY <1>2, <2>1, <2>3, <2>4 DEF Cancelled
  <1> QED
    BY <1>1, <1>2

\* What a call that holds an entity has.
LEMMA HasCopy ==
    ASSUME ControlInv, NEW c \in Callers, call[c].pc \in Holding
    PROVE  /\ call[c].copy \in Run /\ table[call[c].run] \in Run /\ call[c].run \in RunIds
           /\ table[call[c].run] # None
           /\ call[c] \in CallType /\ Known(call[c]) /\ call[c].kind # "create"
           /\ Len(call[c].copy.steps) = Len(table[call[c].run].steps)
  <1>1. call[c] \in CallType /\ Known(call[c]) /\ table \in [RunIds -> Run \cup {None}]
    BY DEF ControlInv, Types
  <1>2. call[c].copy \in Optional(Run) /\ call[c].run \in RunIds
    BY <1>1 DEF CallType
  <1>3. /\ call[c].copy # None /\ table[call[c].run] # None
        /\ Len(call[c].copy.steps) = Len(table[call[c].run].steps)
    BY <1>1 DEF Known, Entity
  <1>4. call[c].kind # "create"
    BY <1>1 DEF Known, Creation, Loop
  <1> QED
    BY <1>1, <1>2, <1>3, <1>4 DEF Optional

\* cancel_run and complete_cancellation write a cancelled run.
LEMMA CancelWriteKeeps ==
    ASSUME ControlInv, NEW c \in Callers, UseCaseCancel(c) \/ CompleteWrite(c)
    PROVE  ControlInv'
  <1>1. call[c].pc \in {"update", "cancel"} /\ (call[c].pc = "update" => call[c].kind = "cancel")
    BY DEF UseCaseCancel, CompleteWrite
  <1>2. /\ call[c].copy \in Run /\ Known(call[c]) /\ call[c].kind # "create"
    BY <1>1, HasCopy
  <1>3. PICK run : run = Cancelled(call[c].copy)
    OBVIOUS
  <1>4. /\ run \in Run /\ run.spent = call[c].copy.spent /\ run.steps = call[c].copy.steps
        /\ run.state \in {call[c].copy.state} \cup Terminal
    BY <1>2, <1>3, CancelledIs
  <1>5. call[c].fresh => run.state \in {table[call[c].run].state} \cup Terminal
    BY <1>1, <1>2, <1>4 DEF Known, State
  <1>6. Due(call[c]) = 0 /\ "done" \in Pcs /\ "clear" \in Pcs
    BY <1>1 DEF Due, Pcs, Ended
  <1>7. Update(c, run, "done", 0) \/ Update(c, run, "clear", 0)
    BY <1>3 DEF UseCaseCancel, CompleteWrite
  <1> QED
    BY <1>1, <1>2, <1>4, <1>5, <1>6, <1>7, UpdateKeeps

\* The writes of the services, record_spent's with the cost it added.
LEMMA ServiceWriteKeeps ==
    ASSUME ControlInv, NEW c \in Callers, SpendWrite(c) \/ RequestWrite(c) \/ TimeoutWrite(c)
    PROVE  ControlInv'
  <1> DEFINE m == call[c]
  <1>1. m.pc = "update" /\ m.kind \in {"spend", "request", "timeout"}
    BY DEF SpendWrite, RequestWrite, TimeoutWrite
  <1>2. /\ m.copy \in Run /\ Known(m) /\ m.kind # "create"
    BY <1>1, HasCopy
  <1>3. m.fresh => m.copy.state = table[m.run].state
    BY <1>1, <1>2 DEF Known, State
  <1>4. "done" \in Pcs /\ "signal" \in Pcs /\ "true" \in Pcs
    BY DEF Pcs, Ended
  <1>5. CASE SpendWrite(c)
    <2>1. Update(c, m.copy, "done", m.cost) /\ m.cost = Due(m)
      BY <1>1, <1>5 DEF SpendWrite, Due
    <2> QED
      BY <1>1, <1>2, <1>3, <1>4, <2>1, UpdateKeeps
  <1>6. CASE RequestWrite(c)
    <2>1. PICK run : run = [m.copy EXCEPT !.cancel = TRUE]
      OBVIOUS
    <2>2. Update(c, run, "signal", 0) /\ 0 = Due(m)
      BY <1>6, <2>1 DEF RequestWrite, Due
    <2>3. /\ run \in Run /\ run.spent = m.copy.spent /\ run.steps = m.copy.steps
          /\ run.state = m.copy.state
      <3>1. PICK K, T, S, O, N, Q :
              Run = [tenant : T, key : K, state : S, owner : O, lease : BOOLEAN, cancel : BOOLEAN,
                     spent : N, steps : Q]
        BY DEF Run
      <3> QED
        BY <1>2, <2>1, <3>1
    <2> QED
      BY <1>1, <1>2, <1>3, <1>4, <2>2, <2>3, UpdateKeeps
  <1>7. CASE TimeoutWrite(c)
    <2>1. Update(c, m.copy, "true", 0) /\ 0 = Due(m)
      BY <1>7 DEF TimeoutWrite, Due
    <2> QED
      BY <1>1, <1>2, <1>3, <1>4, <2>1, UpdateKeeps
  <1> QED
    BY <1>5, <1>6, <1>7

\* The worker writes the run back after a step.
LEMMA SaveRunKeeps ==
    ASSUME ControlInv, NEW c \in Callers, SaveRun(c)
    PROVE  ControlInv'
  <1> DEFINE m == call[c]
  <1>1. m.pc = "save_run"
    BY DEF SaveRun
  <1>2. /\ m.copy \in Run /\ Known(m) /\ m.kind # "create"
    BY <1>1, HasCopy DEF Loop
  <1>3. m.copy.state \in {"running", "awaiting_approval"}
    BY <1>1, <1>2 DEF Known, State
  <1>4. "done" \in Pcs /\ "after" \in Pcs /\ Due(m) = 0 /\ m.pc \in Holding
    BY <1>1 DEF Pcs, Ended, Loop, Due
  <1>5. \/ Update(c, m.copy, "done", 0)
        \/ Update(c, m.copy, "after", 0) /\ m.copy.state = "running"
    BY <1>3 DEF SaveRun
  <1> QED
    BY <1>1, <1>2, <1>4, <1>5, UpdateKeeps

\* The handler of execute_run writes a failed run, or raises.
LEMMA FailKeeps ==
    ASSUME ControlInv, NEW c \in Callers, Fail(c)
    PROVE  ControlInv'
  <1> DEFINE m == call[c]
  <1>1. m.pc = "fail"
    BY DEF Fail
  <1>2. /\ m.copy \in Run /\ Known(m) /\ m.kind # "create"
    BY <1>1, HasCopy
  <1>3. CASE CanTransition(m.copy.state, "failed")
    <2>1. PICK run : run = [m.copy EXCEPT !.state = "failed"]
      OBVIOUS
    <2>2. Update(c, run, "done", 0)
      BY <1>3, <2>1 DEF Fail
    <2>3. /\ run \in Run /\ run.spent = m.copy.spent /\ run.steps = m.copy.steps
          /\ run.state = "failed"
      <3>1. PICK K, T, O, N, Q, L :
              Run = [tenant : T, key : K, state : RunState, owner : O, lease : L, cancel : BOOLEAN,
                     spent : N, steps : Q]
        BY DEF Run
      <3>2. "failed" \in RunState
        BY DEF RunState
      <3> QED
        BY <1>2, <2>1, <3>1, <3>2
    <2>4. "failed" \in Terminal /\ "done" \in Pcs /\ Due(m) = 0
      BY <1>1 DEF Terminal, Pcs, Ended, Due
    <2> QED
      BY <1>1, <1>2, <2>2, <2>3, <2>4, UpdateKeeps
  <1>4. CASE ~CanTransition(m.copy.state, "failed")
    <2>1. Goto(c, "raised") /\ Unwritten
      BY <1>4 DEF Fail
    <2>2. "raised" \in Ended /\ m.pc \notin Ended
      BY <1>1 DEF Ended
    <2> QED
      BY <2>1, <2>2, EndStep
  <1> QED
    BY <1>3, <1>4

\* get_by_idempotency_key, which ends the creation if it finds a row.
LEMMA LookupKeeps ==
    ASSUME ControlInv, NEW c \in Callers, Lookup(c)
    PROVE  ControlInv'
  <1> DEFINE m == call[c]
             found == ByKey(m.tenant, m.key)
  <1>1. /\ m \in CallType /\ Known(m) /\ Since(c, m) /\ m.pc = "lookup" /\ Unwritten
        /\ faults \in Nat /\ since[c] \in Nat
    <2>1. m.pc = "lookup" /\ Unwritten
      BY DEF Lookup
    <2> QED
      BY <2>1, RunControlAssumption DEF ControlInv, Types
  <1>2. CASE found = {}
    <2> DEFINE q == At("insert", m)
    <2>1. Then(c, q)
      BY <1>2 DEF Lookup, Goto
    <2>2. "insert" \in Pcs /\ "insert" \notin Ended
      BY DEF Pcs, Ended
    <2>3. /\ q \in CallType /\ q.pc = "insert" /\ q.kind = m.kind /\ q.tenant = m.tenant
          /\ q.key = m.key /\ q.run = m.run
      BY <1>1, <2>2, AtIs
    <2> HIDE DEF q
    <2>4. Known(q)
      BY <1>1, <2>3 DEF Known, Creation, Entity, Cost, State, Asked, Worker, Steps, StepsAhead, Loop
    <2>5. Since(c, q) /\ m.pc # "done" /\ q.pc \notin Loop
      BY <1>1, <2>3 DEF Since, Loop
    <2> QED
      BY <1>1, <2>1, <2>3, <2>4, <2>5, ThenStep
  <1>3. CASE found # {}
    <2>1. PICK r \in found : Then(c, [m EXCEPT !.run = r, !.pc = "done"])
      BY <1>3 DEF Lookup
    <2>2. r \in RunIds /\ table[r] # None /\ table[r].tenant = m.tenant /\ table[r].key = m.key
      BY <2>1 DEF ByKey, Present
    <2>3. "done" \in Pcs
      BY DEF Pcs, Ended
    <2> DEFINE q == [m EXCEPT !.run = r, !.pc = "done"]
    <2>4. /\ q \in CallType /\ q.pc = "done" /\ q.kind = m.kind /\ q.tenant = m.tenant
          /\ q.key = m.key /\ q.run = r
      <3> HIDE DEF m, Holding
      <3> QED
        BY <1>1, <2>2, <2>3 DEF CallType
    <2>5. Then(c, q)
      BY <2>1
    <2> HIDE DEF q
    <2>6. Known(q)
      BY <1>1, <2>2, <2>4 DEF Known, Creation, Entity, Cost, State, Asked, Worker, Steps, StepsAhead, Loop
    <2>7. Since(c, q) /\ m.pc # "done" /\ q.pc \notin Loop
      BY <1>1, <2>4 DEF Since, Loop
    <2> QED
      BY <1>1, <2>4, <2>5, <2>6, <2>7, ThenStep
  <1> QED
    BY <1>2, <1>3

\* The row of a new run, or the unique constraint's refusal.
LEMMA InsertKeeps ==
    ASSUME ControlInv, NEW c \in Callers, Insert(c)
    PROVE  ControlInv'
  <1> DEFINE m == call[c]
             row == NewRun(m.tenant, m.key, <<>>)
  <1>1. /\ m \in CallType /\ Known(m) /\ Since(c, m) /\ m.pc = "insert"
        /\ faults \in Nat /\ since[c] \in Nat /\ call \in [Callers -> CallType]
        /\ table \in [RunIds -> Run \cup {None}] /\ c \in RunIds
    BY RunControlAssumption DEF ControlInv, Types, Insert, RunIds
  <1>2. CASE ByKey(m.tenant, m.key) # {}
    <2>1. Goto(c, "raised") /\ Unwritten
      BY <1>2 DEF Insert
    <2>2. "raised" \in Ended /\ m.pc \notin Ended
      BY <1>1 DEF Ended
    <2> QED
      BY <2>1, <2>2, EndStep
  <1>3. CASE Goto(c, "unsaved") /\ Unwritten
    <2>1. "unsaved" \in Ended /\ m.pc \notin Ended
      BY <1>1 DEF Ended
    <2> QED
      BY <1>3, <2>1, EndStep
  <1>4. CASE ByKey(m.tenant, m.key) = {} /\ ~(Goto(c, "unsaved") /\ Unwritten)
    <2>0. PICK q : q = [m EXCEPT !.run = c, !.pc = "done"]
      OBVIOUS
    <2>1. /\ table' = [table EXCEPT ![c] = row] /\ call' = [call EXCEPT ![c] = q]
          /\ UNCHANGED <<begun, charged, overwrote, world, flag, since, faults>>
      BY <1>4, <2>0 DEF Insert, Then
    <2>2. "done" \in Pcs
      BY DEF Pcs, Ended
    <2>3. /\ q \in CallType /\ q.pc = "done" /\ q.kind = m.kind /\ q.tenant = m.tenant
          /\ q.key = m.key /\ q.run = c
      <3> HIDE DEF m, Holding
      <3> QED
        BY <1>1, <2>0, <2>2 DEF CallType
    <2>4. m.kind = "create" /\ m.tenant \in Tenants /\ m.key \in Keys
      BY <1>1 DEF Known, Creation
    <2>5. /\ row \in Run /\ row # None /\ row.tenant = m.tenant /\ row.key = m.key
          /\ row.steps = <<>> /\ row.spent = 0
      <3>1. "queued" \in RunState /\ 0 \in 0..MaxCost /\ <<>> \in Seq(Step)
        BY RunControlAssumption DEF RunState
      <3>2. row \in Run
        BY <2>4, <3>1 DEF NewRun, Run
      <3> QED
        BY <3>2, RunControlAssumption DEF NewRun
    <2> HIDE DEF row
    <2>6. table[c] = None
      BY <1>1 DEF ControlInv, RowsKnown
    <2>7. /\ table'[c] = row /\ table' \in [RunIds -> Run \cup {None}]
          /\ \A r \in RunIds \ {c} : table'[r] = table[r]
          /\ call'[c] = q /\ call' \in [Callers -> CallType]
          /\ \A d \in Callers \ {c} : call'[d] = call[d]
      BY <1>1, <2>1, <2>3, <2>5
    <2>8. Types'
      BY <2>1, <2>7 DEF ControlInv, Types
    <2>9. ASSUME NEW r \in RunIds
          PROVE  RowInv(r)'
      <3>1. RowInv(r)
        BY DEF ControlInv
      <3>2. CASE r = c
        <4>1. charged[c] = 0 /\ begun[c] = <<>>
          BY <2>6, <3>1, <3>2 DEF RowInv
        <4>2. AllStates(<<>>) /\ InOrder(<<>>)
          BY DEF AllStates, InOrder
        <4> QED
          BY <2>1, <2>5, <2>7, <3>2, <4>1, <4>2 DEF RowInv
      <3>3. CASE r # c
        BY <2>1, <2>7, <3>1, <3>3 DEF RowInv
      <3> QED
        BY <3>2, <3>3
    <2>10. RowsKnown'
      <3>1. \A r \in Present : ~(table[r].tenant = m.tenant /\ table[r].key = m.key)
        BY <1>4 DEF ByKey
      <3>2. Present' = Present \cup {c}
        BY <1>1, <2>5, <2>6, <2>7 DEF Present
      <3>3. ASSUME NEW d \in Callers, table'[d] # None
            PROVE  call'[d].kind = "create" /\ call'[d].pc = "done"
        <4>1. CASE d = c
          BY <2>3, <2>4, <2>7, <4>1
        <4>2. CASE d # c
          <5>1. d \in RunIds
            BY DEF RunIds
          <5>2. table[d] # None /\ call'[d] = call[d]
            BY <2>7, <3>3, <4>2, <5>1
          <5> QED
            BY <5>2 DEF ControlInv, RowsKnown
        <4> QED
          BY <4>1, <4>2
      <3>4. ASSUME NEW r \in Present', NEW s \in Present', table'[r].tenant = table'[s].tenant,
                   table'[r].key = table'[s].key
            PROVE  r = s
        <4>1. \A t \in Present : table'[t] = table[t] /\ t # c
          BY <2>6, <2>7 DEF Present
        <4> QED
          BY <2>5, <2>7, <3>1, <3>2, <3>4, <4>1 DEF ControlInv, RowsKnown
      <3> QED
        BY <3>3, <3>4 DEF RowsKnown
    <2>11. OneWorker'
      BY <2>1, <2>3, <2>7 DEF ControlInv, OneWorker, Loop
    <2>12. ASSUME NEW d \in Callers
           PROVE  Known(call[d])'
      <3>1. CASE d = c
        <4>1. PICK n : n = call'[d] /\ n = q
          BY <2>7, <3>1
        <4> QED
          BY <2>3, <2>5, <2>7, <4>1
             DEF Known, Creation, Entity, Cost, State, Asked, Worker, Steps, StepsAhead, Loop
      <3>2. CASE d # c
        <4>1. PICK n : n = call'[d] /\ n = call[d] /\ Known(n) /\ n.run \in RunIds
          BY <1>1, <2>7, <3>2 DEF ControlInv, CallType
        <4>2. CASE n.run = c
          <5>1. n.pc \notin Holding /\ ~(n.kind = "create" /\ n.pc = "done")
            BY <2>6, <4>1, <4>2 DEF Known, Entity, Creation
          <5> QED
            BY <4>1, <5>1 DEF Known, Creation, Entity, Cost, State, Asked, Worker, Steps, StepsAhead, Loop
        <4>3. CASE n.run # c
          <5>1. table'[n.run] = table[n.run]
            BY <2>7, <4>1, <4>3
          <5> QED
            BY <2>1, <4>1, <5>1
               DEF Known, Creation, Entity, Cost, State, Asked, Worker, Steps, StepsAhead, Due
        <4> QED
          BY <4>2, <4>3
      <3> QED
        BY <3>1, <3>2
    <2>13. ASSUME NEW d \in Callers
           PROVE  Since(d, call[d])'
      <3>1. CASE d = c
        <4>1. PICK n : n = call'[d] /\ n = q
          BY <2>7, <3>1
        <4> QED
          BY <1>1, <2>1, <2>3, <3>1, <4>1 DEF Since
      <3>2. CASE d # c
        <4>1. PICK n : n = call'[d] /\ Since(d, n)
          BY <2>7, <3>2 DEF ControlInv
        <4> QED
          BY <2>1, <4>1 DEF Since
      <3> QED
        BY <3>1, <3>2
    <2> QED
      BY <2>8, <2>9, <2>10, <2>11, <2>12, <2>13 DEF ControlInv
  <1> QED
    BY <1>2, <1>3, <1>4 DEF Insert

\* record_spent adds a cost to its entity, which the row does not have yet.
LEMMA SpendKeeps ==
    ASSUME ControlInv, NEW c \in Callers, Spend(c)
    PROVE  ControlInv'
  <1> DEFINE m == call[c]
             row == table[m.run]
  <1>1. /\ m \in CallType /\ Known(m) /\ Since(c, m) /\ m.pc = "get" /\ m.kind = "spend" /\ Unwritten
        /\ faults \in Nat /\ since[c] \in Nat /\ m.run \in RunIds
        /\ table \in [RunIds -> Run \cup {None}] /\ RowInv(m.run)
    BY RunControlAssumption DEF ControlInv, Types, Spend, CallType
  <1>2. CASE Goto(c, "done") \/ Goto(c, "raised")
    <2>1. "raised" \in Ended /\ "done" \in Ended /\ m.pc \notin Ended
      BY <1>1 DEF Ended
    <2> QED
      BY <1>1, <1>2, <2>1, EndStep
  <1>3. ASSUME row # None, ~Exceeds(row, m.cost),
               Then(c, [m EXCEPT !.copy = RecordCost(row, m.cost), !.fresh = TRUE, !.pc = "update"])
        PROVE  ControlInv'
    <2>1. PICK copy : copy = RecordCost(row, m.cost)
      OBVIOUS
    <2>2. row \in Run /\ row.spent \in Nat /\ charged[m.run] \in Nat /\ Due(m) = 0
      BY <1>1, <1>3, RunControlAssumption DEF Run, ControlInv, Types, Due
    <2>3. PICK cost \in Nat : cost = m.cost
      <3>1. PICK n : n = [m EXCEPT !.pc = "update"]
        OBVIOUS
      <3>2. "update" \in Pcs
        BY DEF Pcs
      <3>3. n \in CallType /\ n.pc = "update" /\ n.kind = m.kind /\ n.cost = m.cost
        <4> HIDE DEF m, Holding
        <4> QED
          BY <1>1, <3>1, <3>2 DEF CallType
      <3>4. Due(n) = m.cost /\ Due(n) \in Nat
        BY <1>1, <3>3, DueIsNat DEF Due
      <3> QED
        BY <3>4
    <2>4. row.spent + cost <= MaxCost
      BY <1>3, <2>2, <2>3, RunControlAssumption DEF Exceeds
    <2>5. /\ copy \in Run /\ copy.spent = row.spent + cost /\ copy.steps = row.steps
          /\ copy.state = row.state /\ copy # None /\ copy.cancel = row.cancel
      <3>1. row.spent + cost \in 0..MaxCost
        BY <2>2, <2>3, <2>4, RunControlAssumption
      <3>2. PICK x : x = row.spent + cost
        OBVIOUS
      <3>3. copy = [row EXCEPT !.spent = x]
        BY <2>1, <2>3, <3>2 DEF RecordCost
      <3>4. PICK K, T, S, O, L, Q, N :
              /\ Run = [tenant : T, key : K, state : S, owner : O, lease : L, cancel : L,
                        spent : N, steps : Q]
              /\ N = 0..MaxCost
        BY DEF Run
      <3>5. x \in N
        BY <3>1, <3>2, <3>4
      <3>6. copy \in Run /\ copy.spent = x /\ copy.steps = row.steps /\ copy.state = row.state
        BY <2>2, <3>3, <3>4, <3>5
      <3>7. copy.cancel = row.cancel
        BY <2>2, <3>3, <3>4
      <3> QED
        BY <3>2, <3>6, <3>7, RunControlAssumption
    <2>6. copy \in Optional(Run) /\ "update" \in Pcs
      BY <2>5 DEF Optional, Pcs
    <2> DEFINE q == [m EXCEPT !.copy = copy, !.fresh = TRUE, !.pc = "update"]
    <2>7. Then(c, q)
      BY <1>3, <2>1
    <2>8. /\ q \in CallType /\ q.pc = "update" /\ q.kind = "spend" /\ q.run = m.run
          /\ q.copy = copy /\ q.fresh = TRUE /\ q.cost = m.cost
      <3>1. m.kind = "spend" /\ m \in CallType
        BY <1>1
      <3> HIDE DEF m, Holding
      <3> QED
        BY <2>6, <3>1 DEF CallType
    <2> HIDE DEF q
    <2>asked. Asked(q)
      BY <2>5, <2>8 DEF Asked
    <2>steps. Steps(q)
      BY <1>1, <1>3, <2>5, <2>8 DEF Steps, RowInv, Loop
    <2>9. Known(q)
      <3>1. Creation(q) /\ Worker(q) /\ StepsAhead(q)
        BY <2>8 DEF Creation, Worker, StepsAhead, Loop
      <3>2. Entity(q)
        BY <1>3, <2>5, <2>8 DEF Entity
      <3>3. State(q)
        BY <2>5, <2>8 DEF State, Loop
      <3>4. Cost(q)
        <4>1. Due(q) = cost /\ row.spent <= charged[m.run]
          BY <1>1, <1>3, <2>3, <2>8 DEF Due, RowInv
        <4>2. q.copy.spent = row.spent + cost
          BY <2>5, <2>8
        <4>3. q.copy.spent <= charged[q.run] + Due(q)
          BY <2>2, <2>3, <2>8, <4>1, <4>2
        <4>4. q.copy.spent = table[q.run].spent + Due(q)
          BY <2>8, <4>1, <4>2
        <4> QED
          BY <4>3, <4>4 DEF Cost
      <3> QED
        BY <2>asked, <2>steps, <3>1, <3>2, <3>3, <3>4 DEF Known
    <2>10. Since(c, q) /\ m.pc # "done" /\ q.pc \notin Loop
      BY <1>1, <2>8 DEF Since, Loop
    <2> QED
      BY <1>1, <2>7, <2>8, <2>9, <2>10, ThenStep
  <1> QED
    BY <1>2, <1>3 DEF Spend

\* A worker starts its run, or is left with a running entity it did not write.
LEMMA StartKeeps ==
    ASSUME ControlInv, NEW c \in Callers, ExecutorStart(c)
    PROVE  ControlInv'
  <1> DEFINE m == call[c]
             owned == [m.copy EXCEPT !.state = "running", !.owner = c]
             leased == [owned EXCEPT !.lease = TRUE]
  <1>1. m.pc = "start"
    BY DEF ExecutorStart
  <1>2. /\ m.copy \in Run /\ table[m.run] \in Run /\ m.run \in RunIds /\ table[m.run] # None
        /\ m \in CallType /\ Known(m) /\ m.kind # "create" /\ Since(c, m)
        /\ Len(m.copy.steps) = Len(table[m.run].steps) /\ faults \in Nat /\ since[c] \in Nat
    BY <1>1, HasCopy, RunControlAssumption DEF ControlInv, Types
  <1>3. CASE ~CanTransition(m.copy.state, "running")
    <2>1. Goto(c, "fail") /\ Unwritten
      BY <1>3 DEF ExecutorStart
    <2> QED
      BY <1>1, <2>1, MoveKeeps
  <1>4. CASE CanTransition(m.copy.state, "running")
    <2>1. \/ Update(c, leased, "check", 0)
          \/ Then(c, [m EXCEPT !.copy = owned, !.pc = "fail"]) /\ Unwritten
      BY <1>4 DEF ExecutorStart
    <2>2. PICK new : new = owned
      OBVIOUS
    <2>3. PICK run : run = leased
      OBVIOUS
    <2>4. /\ new \in Run /\ run \in Run
          /\ new.spent = m.copy.spent /\ new.steps = m.copy.steps /\ new.state = "running"
          /\ run.spent = m.copy.spent /\ run.steps = m.copy.steps /\ run.state = "running"
          /\ new.cancel = m.copy.cancel
      <3>1. PICK T, K, O, N, Q :
              /\ Run = [tenant : T, key : K, state : RunState, owner : O, lease : BOOLEAN,
                        cancel : BOOLEAN, spent : N, steps : Q]
              /\ O = Callers \cup {None}
        BY DEF Run
      <3>allowed. "running" \in RunState /\ c \in O
        BY <3>1 DEF RunState
      <3>2. /\ new \in Run
            /\ new.spent = m.copy.spent /\ new.steps = m.copy.steps /\ new.state = "running"
        BY <1>2, <2>2, <3>1, <3>allowed
      <3>cancel. new.cancel = m.copy.cancel
        BY <1>2, <2>2, <3>1
      <3>3. run = [new EXCEPT !.lease = TRUE]
        BY <2>2, <2>3
      <3>4. /\ run \in Run
            /\ run.spent = new.spent /\ run.steps = new.steps /\ run.state = new.state
        BY <3>1, <3>2, <3>3
      <3> QED
        BY <3>2, <3>4, <3>cancel
    <2>5. "check" \in Pcs /\ "fail" \in Pcs /\ Due(m) = 0
      BY <1>1 DEF Pcs, Loop, Due
    <2>6. CASE Update(c, leased, "check", 0)
      <3>1. Update(c, run, "check", 0)
        BY <2>3, <2>6
      <3> QED
        BY <1>1, <1>4, <2>4, <2>5, <3>1, UpdateKeeps
    <2>7. CASE Then(c, [m EXCEPT !.copy = owned, !.pc = "fail"]) /\ Unwritten
      <3> DEFINE q == [m EXCEPT !.copy = new, !.pc = "fail"]
      <3>1. Then(c, q)
        BY <2>2, <2>7
      <3>2. new \in Optional(Run)
        BY <2>4 DEF Optional
      <3>3. /\ q \in CallType /\ q.pc = "fail" /\ q.kind = m.kind /\ q.run = m.run
            /\ q.copy = new /\ q.fresh = m.fresh
        <4> HIDE DEF m, Holding
        <4> QED
          BY <1>2, <2>5, <3>2 DEF CallType
      <3> HIDE DEF q
      <3>4. Known(q)
        <4>1. Creation(q) /\ Worker(q) /\ StepsAhead(q)
          BY <1>2, <3>3 DEF Creation, Worker, StepsAhead, Loop
        <4>2. Entity(q)
          BY <1>2, <2>4, <3>3, RunControlAssumption DEF Entity
        <4>3. State(q)
          <5>1. m.fresh => table[m.run].state \notin Terminal
            BY <1>1, <1>2, <1>4 DEF Known, State, CanTransition, Terminal
          <5> QED
            BY <3>3, <5>1 DEF State, Loop
        <4>4. Cost(q)
          BY <1>1, <1>2, <2>4, <3>3 DEF Known, Cost, Due
        <4>5. Asked(q)
          BY <1>1, <1>2, <2>4, <3>3 DEF Known, Asked
        <4>6. Steps(q)
          BY <1>1, <1>2, <2>4, <3>3 DEF Known, Steps, Loop
        <4> QED
          BY <4>1, <4>2, <4>3, <4>4, <4>5, <4>6 DEF Known
      <3>5. Since(c, q) /\ m.pc # "done" /\ q.pc \notin Loop
        BY <1>1, <1>2, <3>3 DEF Since, Loop
      <3> QED
        BY <1>2, <2>7, <3>1, <3>3, <3>4, <3>5, ThenStep
    <2> QED
      BY <2>1, <2>6, <2>7
  <1> QED
    BY <1>3, <1>4

\* The steps of an entity are numbered like those of its row.
LEMMA StepOf ==
    ASSUME ControlInv, NEW c \in Callers, call[c].pc \in Holding,
           NEW i \in DOMAIN call[c].copy.steps
    PROVE  /\ i \in DOMAIN table[call[c].run].steps /\ i \in DOMAIN begun[call[c].run]
           /\ begun[call[c].run] \in Seq(Nat)
           /\ DOMAIN begun[call[c].run] = DOMAIN call[c].copy.steps
  <1>1. /\ call[c].copy \in Run /\ table[call[c].run] \in Run /\ call[c].run \in RunIds
        /\ table[call[c].run] # None /\ Len(call[c].copy.steps) = Len(table[call[c].run].steps)
    BY HasCopy
  <1>2. begun[call[c].run] \in Seq(Nat) /\ Len(begun[call[c].run]) = Len(table[call[c].run].steps)
    BY <1>1 DEF ControlInv, Types, RowInv
  <1>3. call[c].copy.steps \in Seq(Step) /\ table[call[c].run].steps \in Seq(Step)
    BY <1>1 DEF Run
  <1> QED
    BY <1>1, <1>2, <1>3

\* Before the first pending step all steps have finished.
LEMMA PendingIsNext ==
    ASSUME NEW run, run.steps \in Seq(Step), AllStates(run.steps), NEW i \in Pending(run)
    PROVE  /\ i \in DOMAIN run.steps /\ run.steps[i].state \in {"queued", "running"}
           /\ \A j \in DOMAIN run.steps : j < i => run.steps[j].state \in Finished
           /\ AtWork(run.steps) /\ InOrder(run.steps) => run.steps[i].state = "running"
  <1>1. i \in DOMAIN run.steps /\ run.steps[i].state \in {"queued", "running"}
    BY DEF Pending, Unfinished
  <1>2. DOMAIN run.steps \subseteq Nat
    OBVIOUS
  <1>3. ASSUME NEW j \in DOMAIN run.steps, j < i
        PROVE  run.steps[j].state \in Finished
    <2>1. run.steps[j].state \notin {"queued", "running"}
      BY <1>1, <1>2, <1>3 DEF Pending, Unfinished
    <2> QED
      BY <2>1 DEF AllStates, StepStates
  <1>4. ASSUME AtWork(run.steps), InOrder(run.steps)
        PROVE  run.steps[i].state = "running"
    <2>1. PICK k \in DOMAIN run.steps : run.steps[k].state = "running"
      BY <1>4 DEF AtWork
    <2>2. i <= k
      BY <2>1 DEF Pending, Unfinished
    <2>3. ~(i < k)
      BY <1>1, <1>4, <2>1 DEF InOrder, Finished
    <2> QED
      BY <1>1, <1>2, <2>1, <2>2, <2>3
  <1> QED
    BY <1>1, <1>3, <1>4

\* The last finished step of an entity one step ahead is the one its row has running.
LEMMA SavedIsAhead ==
    ASSUME NEW steps \in Seq(Step), AllStates(steps), InOrder(steps),
           NEW run, OneAhead(run.steps, steps), NEW i \in DOMAIN run.steps,
           i \notin Unfinished(run), (i + 1)..Len(run.steps) \subseteq Unfinished(run)
    PROVE  /\ i \in DOMAIN steps /\ steps[i].state = "running"
           /\ run.steps[i].state \in Finished
           /\ run.steps = Stepped(steps, i, run.steps[i].state)
  <1>1. PICK k \in DOMAIN steps, s \in Finished :
          steps[k].state = "running" /\ run.steps = Stepped(steps, k, s)
    BY DEF OneAhead
  <1>2. /\ DOMAIN run.steps = DOMAIN steps /\ Len(run.steps) = Len(steps)
        /\ run.steps[k].state = s
        /\ \A j \in DOMAIN steps \ {k} : run.steps[j] = steps[j]
    <2>1. steps[k] \in Step
      OBVIOUS
    <2> QED
      BY <1>1, <2>1 DEF Step, Stepped
  <1>3. k \notin Unfinished(run)
    BY <1>2 DEF Unfinished, Finished
  <1>4. i \in Nat /\ k \in Nat /\ k <= Len(run.steps) /\ i \in DOMAIN steps
    BY <1>2
  <1>5. ~(k > i)
    BY <1>3, <1>4
  <1>6. ~(k < i)
    <2>1. SUFFICES ASSUME k < i PROVE FALSE
      OBVIOUS
    <2>2. run.steps[i] = steps[i]
      BY <1>2, <1>4, <2>1
    <2>3. steps[i].state # "queued"
      BY <2>2 DEF Unfinished
    <2>4. steps[k].state \in Finished
      BY <1>4, <2>1, <2>3 DEF InOrder
    <2> QED
      BY <1>1, <2>4 DEF Finished
  <1>7. i = k
    BY <1>4, <1>5, <1>6
  <1> QED
    BY <1>1, <1>2, <1>7

\* A worker begins the first pending step of its entity.
LEMMA BeginStepKeeps ==
    ASSUME ControlInv, NEW c \in Callers, BeginStep(c)
    PROVE  ControlInv'
  <1> DEFINE m == call[c]
  <1>0. PICK r : r = m.run
    OBVIOUS
  <1>1. m.pc = "step" /\ m.pc \in Holding
    BY DEF BeginStep, Loop
  <1>2. PICK i \in Pending(m.copy) :
          IF m.copy.steps[i].state = "running"
          THEN Goto(c, "fail") /\ Unwritten
          ELSE LET run == WithStep(m.copy, i, "running")
               IN  /\ table' = [table EXCEPT ![r].steps[i].state = "running"]
                   /\ call' = [call EXCEPT ![c].copy = run, ![c].pc = "work"]
                   /\ begun' = [begun EXCEPT ![r][i] = @ + 1]
                   /\ since' = [since EXCEPT ![c] = IF r \in flag THEN @ + 1 ELSE @]
                   /\ UNCHANGED <<world, flag, charged, overwrote, faults>>
    BY <1>0 DEF BeginStep
  <1>3. i \in DOMAIN m.copy.steps /\ m.copy.steps[i].state \in {"queued", "running"}
    BY DEF Pending, Unfinished
  <1>4. CASE m.copy.steps[i].state = "running"
    <2>1. Goto(c, "fail") /\ Unwritten
      BY <1>2, <1>4
    <2> QED
      BY <1>1, <2>1, MoveKeeps
  <1>5. CASE m.copy.steps[i].state # "running"
    <2>1. PICK run : run = WithStep(m.copy, i, "running")
      OBVIOUS
    <2>2. /\ table' = [table EXCEPT ![r].steps[i].state = "running"]
          /\ call' = [call EXCEPT ![c].copy = run, ![c].pc = "work"]
          /\ begun' = [begun EXCEPT ![r][i] = @ + 1]
          /\ since' = [since EXCEPT ![c] = IF r \in flag THEN @ + 1 ELSE @]
          /\ UNCHANGED <<world, flag, charged, overwrote, faults>>
      BY <1>2, <1>5, <2>1
    <2>3. /\ m \in CallType /\ Known(m) /\ Since(c, m) /\ since[c] \in Nat /\ faults \in Nat
          /\ m.copy \in Run /\ r \in RunIds /\ since \in [Callers -> Nat]
          /\ begun \in [RunIds -> Seq(Nat)] /\ call \in [Callers -> CallType]
          /\ flag \subseteq RunIds
      BY <1>0, <1>1, HasCopy, RunControlAssumption DEF ControlInv, Types
    <2>4. "running" \in RunState \ {"queued"} /\ "work" \in Pcs
      BY DEF RunState, Pcs, Loop
    <2>5. /\ run \in Run /\ run.state = m.copy.state /\ run.spent = m.copy.spent
          /\ DOMAIN run.steps = DOMAIN m.copy.steps /\ Len(run.steps) = Len(m.copy.steps)
          /\ run.steps[i].state = "running"
          /\ \A j \in DOMAIN m.copy.steps \ {i} : run.steps[j] = m.copy.steps[j]
      BY <1>3, <2>1, <2>3, <2>4, WithStepIs
    <2>6. table' = [table EXCEPT ![r] = WithStep(@, i, "running")]
      BY <2>2 DEF WithStep
    <2>7. /\ begun[r] \in Seq(Nat) /\ i \in DOMAIN begun[r] /\ DOMAIN begun[r] = DOMAIN run.steps
      BY <1>0, <1>1, <1>3, <2>5, StepOf
    <2>8. PICK counted : counted = [begun[r] EXCEPT ![i] = @ + 1]
      OBVIOUS
    <2>9. /\ counted \in Seq(Nat) /\ Len(counted) = Len(begun[r])
          /\ counted[i] = begun[r][i] + 1
          /\ \A j \in DOMAIN begun[r] \ {i} : counted[j] = begun[r][j]
      <3>1. begun[r][i] + 1 \in Nat
        BY <2>7
      <3> QED
        BY <2>7, <2>8, <3>1
    <2>10. /\ begun' = [begun EXCEPT ![r] = counted] /\ begun' \in [RunIds -> Seq(Nat)]
           /\ begun'[r] = counted /\ \A s \in RunIds \ {r} : begun'[s] = begun[s]
      BY <2>2, <2>3, <2>8, <2>9
    <2>11. r \notin overwrote => /\ counted[i] <= 1
                         /\ \A j \in DOMAIN run.steps : run.steps[j].state = "queued" => counted[j] = 0
      <3>1. r \notin overwrote => \A j \in DOMAIN m.copy.steps : m.copy.steps[j].state = "queued" => begun[r][j] = 0
        BY <1>0, <1>1, <2>3 DEF Known, StepsAhead, Loop
      <3>2. r \notin overwrote => begun[r][i] = 0
        BY <1>3, <1>5, <3>1
      <3>3. ASSUME r \notin overwrote, NEW j \in DOMAIN run.steps, run.steps[j].state = "queued"
            PROVE  counted[j] = 0
        <4>1. j # i
          BY <2>5, <3>3
        <4>2. run.steps[j] = m.copy.steps[j] /\ counted[j] = begun[r][j]
          BY <2>5, <2>7, <2>9, <3>3, <4>1
        <4> QED
          BY <2>5, <3>1, <3>3, <4>2
      <3> QED
        BY <2>7, <2>9, <3>2, <3>3
    <2>12. /\ since' \in [Callers -> Nat] /\ \A d \in Callers \ {c} : since'[d] = since[d]
           /\ since'[c] = IF r \in flag THEN since[c] + 1 ELSE since[c]
      BY <2>2, <2>3
    <2>13. PICK q : q = [m EXCEPT !.copy = run, !.pc = "work"]
      OBVIOUS
    <2>14. call' = [call EXCEPT ![c] = q]
      BY <2>2, <2>13
    <2>15. /\ q \in CallType /\ q.pc = "work" /\ q.kind = m.kind /\ q.run = r
           /\ q.copy = run /\ q.fresh = m.fresh
      <3>1. run \in Optional(Run)
        BY <2>5 DEF Optional
      <3> HIDE DEF m, Holding
      <3> QED
        BY <1>0, <2>3, <2>4, <2>13, <3>1 DEF CallType
    <2>16. Since(c, q)'
      <3>1. since[c] <= faults /\ (r \notin flag => since[c] = 0)
        BY <1>0, <1>1, <2>3 DEF Since
      <3> QED
        BY <2>2, <2>3, <2>12, <2>15, <3>1 DEF Since
    <2>17. /\ q.copy \in Run /\ q.copy.spent = m.copy.spent /\ q.copy.state = m.copy.state
           /\ Len(q.copy.steps) = Len(m.copy.steps)
           /\ Len(begun'[r]) = Len(begun[r])
           /\ \A j \in DOMAIN begun[r] \ {i} : begun'[r][j] = begun[r][j]
           /\ r \notin overwrote =>
                 /\ begun'[r][i] <= 1
                 /\ \A j \in DOMAIN q.copy.steps : q.copy.steps[j].state = "queued" => begun'[r][j] = 0
      BY <2>5, <2>9, <2>10, <2>11, <2>15
    <2>19. /\ i \in DOMAIN table[r].steps /\ m.copy.steps \in Seq(Step) /\ m.copy.steps[i].state = "queued"
           /\ table[r].steps \in Seq(Step) /\ RowInv(r) /\ table[r] # None
           /\ AllStates(m.copy.steps) /\ AllStates(table[r].steps)
      <3>1. /\ table[r] \in Run /\ table[r] # None /\ RowInv(r)
        BY <1>0, <1>1, HasCopy DEF ControlInv
      <3>2. table[r].steps \in Seq(Step) /\ m.copy.steps \in Seq(Step)
        BY <2>3, <3>1 DEF Run
      <3>3. AllStates(m.copy.steps) /\ AllStates(table[r].steps)
        BY <1>1, <2>3, <3>1 DEF Known, Steps, RowInv
      <3> QED
        BY <1>0, <1>1, <1>3, <1>5, <3>1, <3>2, <3>3, StepOf
    <2>20. r \notin overwrote => m.copy.steps = table[r].steps
      BY <1>0, <1>1, <2>3 DEF Known, Steps, Loop
    <2>21. \A j \in DOMAIN m.copy.steps : j < i => m.copy.steps[j].state \in Finished
      BY <2>19, PendingIsNext
    <2>22. /\ run.steps = Stepped(m.copy.steps, i, "running") /\ run.cancel = m.copy.cancel
           /\ "running" \in StepStates \ {"queued"}
      BY <2>1, <2>3, WithStepSteps DEF StepStates
    <2>23. /\ AllStates(run.steps) /\ AtWork(run.steps)
           /\ r \notin overwrote =>
                 run.steps = Stepped(table[r].steps, i, "running") /\ InOrder(run.steps)
      <3>1. AllStates(run.steps)
        BY <2>5, <2>19 DEF AllStates, StepStates
      <3>2. AtWork(run.steps)
        BY <1>3, <2>5 DEF AtWork
      <3>3. ASSUME r \notin overwrote
            PROVE  run.steps = Stepped(table[r].steps, i, "running") /\ InOrder(run.steps)
        <4>1. InOrder(m.copy.steps)
          BY <2>19, <2>20, <3>3 DEF RowInv
        <4> QED
          BY <1>3, <2>19, <2>20, <2>21, <2>22, <3>3, <4>1, OrderKept
      <3> QED
        BY <3>1, <3>2, <3>3
    <2>18. PICK state \in RunState \ {"queued"} :
             /\ table' = [table EXCEPT ![r] = WithStep(@, i, state)]
             /\ state \in StepStates
             /\ r \notin overwrote =>
                  q.copy.steps = Stepped(table[r].steps, i, state) /\ InOrder(q.copy.steps)
      BY <2>4, <2>6, <2>15, <2>22, <2>23
    <2>24. /\ q.copy.cancel = call[c].copy.cancel /\ AllStates(q.copy.steps)
           /\ AtWork(q.copy.steps)
      BY <2>15, <2>22, <2>23
    <2> QED
      <3>1. /\ r = call[c].run /\ call[c].pc \in {"step", "save_step"}
            /\ i \in DOMAIN call[c].copy.steps
            /\ UNCHANGED <<world, flag, charged, overwrote, faults>>
        BY <1>0, <1>1, <1>3, <2>2
      <3>2. /\ q.pc \in {"work", "save_run"} /\ q.kind = call[c].kind /\ q.run = r
            /\ q.fresh = call[c].fresh /\ (q.pc = "work" => call[c].pc = "step") /\ q \in CallType
        BY <1>1, <2>15
      <3>3. /\ since' \in [Callers -> Nat] /\ \A d \in Callers \ {c} : since'[d] = since[d]
        BY <2>12
      <3>4. /\ begun' \in [RunIds -> Seq(Nat)] /\ \A s \in RunIds \ {r} : begun'[s] = begun[s]
        BY <2>10
      <3> QED
        BY <3>1, <3>2, <3>3, <3>4, <2>14, <2>16, <2>17, <2>18, <2>24, StepKeeps
  <1> QED
    BY <1>4, <1>5

\* A worker writes the state of the step it finished.
LEMMA SaveStepKeeps ==
    ASSUME ControlInv, NEW c \in Callers, SaveStep(c)
    PROVE  ControlInv'
  <1> DEFINE m == call[c]
  <1>0. PICK r : r = m.run
    OBVIOUS
  <1>1. m.pc = "save_step" /\ m.pc \in Holding /\ Goto(c, "save_run")
        /\ UNCHANGED <<begun, charged, overwrote>>
    BY DEF SaveStep, Loop
  <1>2. PICK i \in DOMAIN m.copy.steps :
          /\ i \notin Unfinished(m.copy)
          /\ (i + 1)..Len(m.copy.steps) \subseteq Unfinished(m.copy)
          /\ table' = [table EXCEPT ![r].steps[i].state = m.copy.steps[i].state]
    BY <1>0 DEF SaveStep
  <1>3. /\ m \in CallType /\ Known(m) /\ Since(c, m) /\ since[c] \in Nat /\ faults \in Nat
        /\ m.copy \in Run /\ r \in RunIds /\ since \in [Callers -> Nat]
        /\ begun \in [RunIds -> Seq(Nat)] /\ m.kind # "create"
    BY <1>0, <1>1, HasCopy, RunControlAssumption DEF ControlInv, Types
  <1>4. PICK state : state = m.copy.steps[i].state
    OBVIOUS
  <1>5. state \in RunState \ {"queued"}
    <2>1. m.copy.steps \in Seq(Step)
      BY <1>3 DEF Run
    <2>2. m.copy.steps[i] \in Step
      BY <2>1
    <2> QED
      BY <1>2, <1>4, <2>2 DEF Step, Unfinished
  <1>6. table' = [table EXCEPT ![r] = WithStep(@, i, state)]
    BY <1>2, <1>4 DEF WithStep
  <1>7. "save_run" \in Pcs /\ "save_run" \notin Ended
    BY DEF Pcs, Loop, Ended
  <1>8. PICK q : q = At("save_run", m)
    OBVIOUS
  <1>9. /\ q \in CallType /\ q.pc = "save_run" /\ q.kind = m.kind /\ q.run = r
        /\ q.copy = m.copy /\ q.fresh = m.fresh
    BY <1>0, <1>3, <1>7, <1>8, AtIs
  <1>10. call' = [call EXCEPT ![c] = q] /\ UNCHANGED <<world, flag, since, faults>>
    BY <1>1, <1>8 DEF Goto, Then
  <1>11. /\ begun[r] \in Seq(Nat) /\ i \in DOMAIN begun[r] /\ DOMAIN begun[r] = DOMAIN m.copy.steps
    BY <1>0, <1>1, StepOf
  <1>12. r \notin overwrote =>
           /\ begun[r][i] <= 1
           /\ \A j \in DOMAIN m.copy.steps : m.copy.steps[j].state = "queued" => begun[r][j] = 0
    <2>1. RowInv(r)
      BY <1>3 DEF ControlInv
    <2> QED
      BY <1>0, <1>1, <1>3, <1>11, <2>1 DEF RowInv, Known, StepsAhead, Loop
  <1>13. Since(c, q)'
    BY <1>0, <1>1, <1>3, <1>9, <1>10 DEF Since
  <1>14. AllStates(m.copy.steps) /\ state \in StepStates
    <2>1. AllStates(m.copy.steps)
      BY <1>1, <1>3 DEF Known, Steps
    <2> QED
      BY <1>4, <2>1 DEF AllStates
  <1>15. ASSUME r \notin overwrote
         PROVE  m.copy.steps = Stepped(table[r].steps, i, state) /\ InOrder(m.copy.steps)
    <2>1. OneAhead(m.copy.steps, table[r].steps)
      BY <1>0, <1>1, <1>3, <1>15 DEF Known, Steps, Loop
    <2>2. table[r] \in Run /\ table[r] # None /\ RowInv(r)
      BY <1>0, <1>1, HasCopy DEF ControlInv
    <2>3. table[r].steps \in Seq(Step)
      BY <2>2 DEF Run
    <2>4. AllStates(table[r].steps) /\ InOrder(table[r].steps)
      BY <1>15, <2>2 DEF RowInv
    <2>5. /\ i \in DOMAIN table[r].steps /\ table[r].steps[i].state = "running"
          /\ state \in Finished /\ m.copy.steps = Stepped(table[r].steps, i, state)
      BY <1>2, <1>4, <2>1, <2>3, <2>4, SavedIsAhead
    <2> QED
      BY <1>5, <1>14, <2>3, <2>4, <2>5, OrderKept
  <1> QED
    BY <1>0, <1>1, <1>3, <1>5, <1>6, <1>9, <1>10, <1>12, <1>13, <1>14, <1>15, StepKeeps

\* What a step answered is in the entity alone.
LEMMA WorkKeeps ==
    ASSUME ControlInv, NEW c \in Callers, Work(c)
    PROVE  ControlInv'
  <1> DEFINE m == call[c]
  <1>1. m.pc = "work" /\ m.pc \in Holding /\ Unwritten
    <2>1. m.pc = "work" /\ Unwritten
      BY DEF Work
    <2> QED
      BY <2>1 DEF Loop
  <1>2. PICK i \in Pending(m.copy) : \E o \in Outcomes(m.copy.steps[i].kind) :
          LET run == [WithStep(m.copy, i, o.step) EXCEPT !.state = o.run]
          IN  Then(c, [m EXCEPT !.copy = run, !.pc = IF o.raises THEN "fail" ELSE "save_step"])
    BY DEF Work
  <1>answer. PICK o \in Outcomes(m.copy.steps[i].kind) :
          LET run == [WithStep(m.copy, i, o.step) EXCEPT !.state = o.run]
          IN  Then(c, [m EXCEPT !.copy = run, !.pc = IF o.raises THEN "fail" ELSE "save_step"])
    BY <1>2
  <1>3. i \in DOMAIN m.copy.steps
    BY DEF Pending, Unfinished
  <1>4. /\ o.step \in {"succeeded", "failed", "running"}
        /\ o.run \in {"running", "awaiting_approval"}
        /\ o.step \in RunState /\ o.run \in RunState
    BY DEF Outcomes, RunState
  <1>5. /\ m \in CallType /\ Known(m) /\ Since(c, m) /\ since[c] \in Nat /\ faults \in Nat
        /\ m.copy \in Run /\ m.kind # "create" /\ m.run \in RunIds /\ table[m.run] # None
        /\ Len(m.copy.steps) = Len(table[m.run].steps)
    BY <1>1, HasCopy, RunControlAssumption DEF ControlInv, Types
  <1>6. PICK stepped : stepped = WithStep(m.copy, i, o.step)
    OBVIOUS
  <1>7. /\ stepped \in Run /\ stepped.spent = m.copy.spent
        /\ DOMAIN stepped.steps = DOMAIN m.copy.steps /\ Len(stepped.steps) = Len(m.copy.steps)
        /\ stepped.steps[i].state = o.step
        /\ \A j \in DOMAIN m.copy.steps \ {i} : stepped.steps[j] = m.copy.steps[j]
    BY <1>3, <1>4, <1>5, <1>6, WithStepIs
  <1>8. PICK run : run = [stepped EXCEPT !.state = o.run]
    OBVIOUS
  <1>9. run \in Run /\ run.spent = m.copy.spent /\ run.steps = stepped.steps /\ run.state = o.run
    <2>1. PICK T, K, O, L, N, Q :
            Run = [tenant : T, key : K, state : RunState, owner : O, lease : L, cancel : L,
                   spent : N, steps : Q]
      BY DEF Run
    <2> QED
      BY <1>4, <1>7, <1>8, <2>1
  <1>steps. run.steps = Stepped(m.copy.steps, i, o.step) /\ run.cancel = m.copy.cancel
    <2>1. stepped.steps = Stepped(m.copy.steps, i, o.step) /\ stepped.cancel = m.copy.cancel
      BY <1>5, <1>6, WithStepSteps
    <2>2. run.cancel = stepped.cancel
      BY <1>7, <1>8 DEF Run
    <2> QED
      BY <1>9, <2>1, <2>2
  <1>10. PICK pc \in {"fail", "save_step"} : pc = IF o.raises THEN "fail" ELSE "save_step"
    OBVIOUS
  <1>11. pc \in Pcs /\ run \in Optional(Run)
    BY <1>9 DEF Pcs, Loop, Optional
  <1> DEFINE q == [m EXCEPT !.copy = run, !.pc = pc]
  <1>12. Then(c, q)
    BY <1>answer, <1>6, <1>8, <1>10
  <1>13. /\ q \in CallType /\ q.pc = pc /\ q.kind = m.kind /\ q.run = m.run
         /\ q.copy = run /\ q.fresh = m.fresh
    <2> HIDE DEF m, Holding
    <2> QED
      BY <1>5, <1>11 DEF CallType
  <1> HIDE DEF q
  <1>14. Known(q)
    <2>1. Creation(q) /\ Worker(q)
      BY <1>1, <1>5, <1>13 DEF Known, Creation, Worker, Loop
    <2>2. Entity(q)
      BY <1>5, <1>7, <1>9, <1>13, RunControlAssumption DEF Entity
    <2>3. State(q)
      BY <1>1, <1>4, <1>5, <1>9, <1>13 DEF Known, State, Loop, Terminal
    <2>4. Cost(q)
      BY <1>1, <1>5, <1>9, <1>13 DEF Known, Cost, Due
    <2>5. StepsAhead(q)
      <3>1. m.run \notin overwrote => \A j \in DOMAIN m.copy.steps : m.copy.steps[j].state = "queued" => begun[m.run][j] = 0
        BY <1>1, <1>5 DEF Known, StepsAhead, Loop
      <3>2. m.run \notin overwrote => \A j \in DOMAIN run.steps : run.steps[j].state = "queued" => begun[m.run][j] = 0
        BY <1>4, <1>7, <1>9, <3>1
      <3>3. m.run \notin overwrote => table[m.run].state \in {"running"} \cup Terminal
        BY <1>1, <1>5 DEF Known, StepsAhead, Loop
      <3> QED
        BY <1>13, <3>2, <3>3 DEF StepsAhead
    <2>6. Asked(q)
      BY <1>1, <1>5, <1>13, <1>steps DEF Known, Asked
    <2>7. Steps(q)
      <3>1. AllStates(m.copy.steps)
        BY <1>1, <1>5 DEF Known, Steps
      <3>2. AllStates(run.steps)
        BY <1>4, <1>7, <1>9, <3>1 DEF AllStates, StepStates, Finished
      <3>3. ASSUME pc = "save_step", m.run \notin overwrote
            PROVE  OneAhead(run.steps, table[m.run].steps)
        <4>1. table[m.run] \in Run /\ RowInv(m.run)
          BY <1>1, HasCopy DEF ControlInv
        <4>2. m.copy.steps = table[m.run].steps /\ AtWork(m.copy.steps) /\ InOrder(m.copy.steps)
          BY <1>1, <1>5, <3>3, <4>1 DEF Known, Steps, RowInv, Loop
        <4>3. m.copy.steps \in Seq(Step)
          BY <1>5 DEF Run
        <4>4. m.copy.steps[i].state = "running"
          BY <3>1, <4>2, <4>3, PendingIsNext
        <4>5. o.step \in Finished
          BY <1>10, <3>3 DEF Outcomes, Finished
        <4>6. run.steps = Stepped(m.copy.steps, i, o.step)
          BY <1>steps
        <4> QED
          BY <1>3, <4>2, <4>4, <4>5, <4>6 DEF OneAhead
      <3> QED
        BY <1>13, <3>2, <3>3 DEF Steps, Loop
    <2> QED
      BY <2>1, <2>2, <2>3, <2>4, <2>5, <2>6, <2>7 DEF Known
  <1>15. Since(c, q) /\ m.pc # "done" /\ (q.pc \in Loop => m.pc \in Loop /\ q.run = m.run)
    BY <1>1, <1>5, <1>13 DEF Since, Loop
  <1> QED
    BY <1>1, <1>12, <1>13, <1>14, <1>15, ThenStep

\* The routes and the services are called.
LEMMA RequestKeeps ==
    ASSUME ControlInv, NEW c \in Callers, Request(c)
    PROVE  ControlInv'
  <1> DEFINE m == call[c]
  <1>1. m \in CallType /\ call \in [Callers -> CallType] /\ Present \subseteq RunIds /\ c \in RunIds
    BY DEF ControlInv, Types, Present, RunIds
  <1>2. "lookup" \in Pcs /\ "refused" \in Pcs /\ "get" \in Pcs
    BY DEF Pcs, Ended
  <1>3. ASSUME NEW t \in Tenants, NEW k \in Keys, CreateRun(c, t, k)
        PROVE  ControlInv'
    <2> DEFINE q == [[m EXCEPT !.tenant = t, !.key = k] EXCEPT !.kind = "create", !.pc = "lookup"]
    <2>1. Then(c, q) /\ Unwritten /\ m.pc = "new"
      BY <1>3 DEF CreateRun, Begin
    <2>2. t \in Optional(Tenants) /\ k \in Optional(Keys) /\ "create" \in CallKinds
      BY DEF Optional, CallKinds, Kinds
    <2>3. q \in CallType /\ q.pc = "lookup" /\ q.kind = "create" /\ q.tenant = t /\ q.key = k
      <3> HIDE DEF m, Holding
      <3> QED
        BY <1>1, <1>2, <2>2 DEF CallType
    <2> HIDE DEF q
    <2> QED
      BY <2>1, <2>3, BeginKeeps
  <1>4. ASSUME NEW t \in Tenants, CreateRunRefused(c, t)
        PROVE  ControlInv'
    <2> DEFINE q == [[m EXCEPT !.tenant = t] EXCEPT !.kind = "create", !.pc = "refused"]
    <2>1. Then(c, q) /\ Unwritten /\ m.pc = "new"
      BY <1>4 DEF CreateRunRefused, Begin
    <2>2. t \in Optional(Tenants) /\ "create" \in CallKinds
      BY DEF Optional, CallKinds, Kinds
    <2>3. q \in CallType /\ q.pc = "refused"
      <3> HIDE DEF m, Holding
      <3> QED
        BY <1>1, <1>2, <2>2 DEF CallType
    <2> HIDE DEF q
    <2> QED
      BY <2>1, <2>3, BeginKeeps
  <1>5. ASSUME NEW t \in Tenants, NEW r \in Present \cup {c}, NEW kind \in {"status", "cancel"},
               OnRun(c, kind, t, r)
        PROVE  ControlInv'
    <2> DEFINE q == [[m EXCEPT !.tenant = t, !.run = r] EXCEPT !.kind = kind, !.pc = "get"]
    <2>1. Then(c, q) /\ Unwritten /\ m.pc = "new"
      BY <1>5 DEF OnRun, Begin
    <2>2. t \in Optional(Tenants) /\ r \in RunIds /\ kind \in CallKinds
      BY <1>1 DEF Optional, CallKinds, Kinds
    <2>3. q \in CallType /\ q.pc = "get" /\ q.kind = kind
      <3> HIDE DEF m, Holding
      <3> QED
        BY <1>1, <1>2, <2>2 DEF CallType
    <2> HIDE DEF q
    <2> QED
      BY <2>1, <2>3, BeginKeeps
  <1>6. ASSUME NEW r \in Present \cup {c}, NEW kind \in {"request", "timeout", "execute"},
               Begin(c, kind, "get", [m EXCEPT !.run = r])
        PROVE  ControlInv'
    <2> DEFINE q == [[m EXCEPT !.run = r] EXCEPT !.kind = kind, !.pc = "get"]
    <2>1. Then(c, q) /\ Unwritten /\ m.pc = "new"
      BY <1>6 DEF Begin
    <2>2. r \in RunIds /\ kind \in CallKinds
      BY <1>1 DEF CallKinds, Kinds
    <2>3. q \in CallType /\ q.pc = "get" /\ q.kind = kind
      <3> HIDE DEF m, Holding
      <3> QED
        BY <1>1, <1>2, <2>2 DEF CallType
    <2> HIDE DEF q
    <2> QED
      BY <2>1, <2>3, BeginKeeps
  <1>7. ASSUME NEW r \in Present \cup {c}, NEW cost \in Costs, NEW kind \in {"spend", "budget"},
               Begin(c, kind, "get", [m EXCEPT !.run = r, !.cost = cost])
        PROVE  ControlInv'
    <2> DEFINE q == [[m EXCEPT !.run = r, !.cost = cost] EXCEPT !.kind = kind, !.pc = "get"]
    <2>1. Then(c, q) /\ Unwritten /\ m.pc = "new"
      BY <1>7 DEF Begin
    <2>2. r \in RunIds /\ cost \in Amounts /\ kind \in CallKinds
      BY <1>1 DEF CallKinds, Kinds, Amounts
    <2>3. q \in CallType /\ q.pc = "get" /\ q.kind = kind
      <3> HIDE DEF m, Holding
      <3> QED
        BY <1>1, <1>2, <2>2 DEF CallType
    <2> HIDE DEF q
    <2> QED
      BY <2>1, <2>3, BeginKeeps
  <1>8. CASE Route(c)
    BY <1>3, <1>4, <1>5, <1>8 DEF Route, GetRunStatus, CancelRun
  <1>9. CASE \E r \in Present \cup {c} : Service(c, r)
    BY <1>6, <1>7, <1>9
       DEF Service, RequestCancellation, CheckCancellationTimeout, ExecuteRun, RecordSpent,
           CheckRunBudget
  <1> QED
    BY <1>8, <1>9 DEF Request

\* The calls that only read, and answer.
LEMMA ReadersKeep ==
    ASSUME ControlInv, NEW c \in Callers,
           UseCaseGet(c) \/ CheckBudget(c) \/ RequestGet(c) \/ TimeoutGet(c) \/ ExecutorGet(c)
    PROVE  ControlInv'
  <1>1. /\ call[c].pc = "get" /\ Unwritten
        /\ call[c].kind \in {"status", "cancel", "budget", "request", "timeout", "execute"}
    <2>1. CASE UseCaseGet(c)
      BY <2>1 DEF UseCaseGet
    <2>2. CASE CheckBudget(c)
      BY <2>2 DEF CheckBudget
    <2>3. CASE RequestGet(c)
      BY <2>3 DEF RequestGet
    <2>4. CASE TimeoutGet(c)
      BY <2>4 DEF TimeoutGet
    <2>5. CASE ExecutorGet(c)
      BY <2>5 DEF ExecutorGet
    <2> QED
      BY <2>1, <2>2, <2>3, <2>4, <2>5
  <1>2. call[c].pc \notin Ended /\ call[c].kind # "create" /\ call[c].kind # "spend"
    BY <1>1 DEF Ended
  <1>3. \/ \E pc \in Ended : Goto(c, pc)
        \/ \E pc \in {"update", "start"} : /\ Read(c, pc) /\ table[call[c].run] # None
                                           /\ pc = "start" => world = "executor"
                                           /\ call[c].kind = "request" =>
                                                table[call[c].run].state \notin Terminal
    BY <1>1 DEF UseCaseGet, CheckBudget, RequestGet, TimeoutGet, ExecutorGet, Ended, Visible
  <1>4. ASSUME NEW pc \in Ended, Goto(c, pc)
        PROVE  ControlInv'
    BY <1>1, <1>2, <1>4, EndStep
  <1>5. ASSUME NEW pc \in {"update", "start"}, Read(c, pc), table[call[c].run] # None,
               pc = "start" => world = "executor",
               call[c].kind = "request" => table[call[c].run].state \notin Terminal
        PROVE  ControlInv'
    BY <1>1, <1>2, <1>5, ReadKeeps
  <1> QED
    BY <1>3, <1>4, <1>5

\* The steps of the loop that only look.
LEMMA LookersKeep ==
    ASSUME ControlInv, NEW c \in Callers, CheckRow(c) \/ NothingPending(c) \/ Acknowledge(c)
    PROVE  ControlInv'
  <1>1. CASE CheckRow(c)
    <2>1. /\ call[c].pc \in {"check_row", "after_row"} /\ Unwritten
          /\ \/ Goto(c, "ack")
             \/ call[c].pc = "check_row" /\ Goto(c, "step")
             \/ call[c].pc = "after_row" /\ Goto(c, "check")
      BY <1>1 DEF CheckRow, NotCancelled
    <2> QED
      BY <2>1, MoveKeeps
  <1>2. CASE NothingPending(c)
    BY <1>2, MoveKeeps DEF NothingPending
  <1>3. CASE Acknowledge(c)
    <2>1. call[c].pc = "ack" /\ Read(c, "cancel") /\ Unwritten
      BY <1>3 DEF Acknowledge
    <2>2. table[call[c].run] # None
      BY <2>1 DEF ControlInv, Known, Entity
    <2> QED
      BY <2>1, <2>2, ReadKeeps
  <1> QED
    BY <1>1, <1>2, <1>3

\* At first no call holds anything, and the stored run has all steps queued.
LEMMA ControlInit == Init => ControlInv
  <1> SUFFICES ASSUME Init PROVE ControlInv
    OBVIOUS
  <1>1. PICK first :
          /\ first \in {None} \cup {NewRun(t, k, steps) : t \in Tenants, k \in Keys, steps \in StoredSteps}
          /\ table = [r \in RunIds |-> IF r = 0 THEN first ELSE None]
          /\ begun = [r \in RunIds |->
                        IF r = 0 /\ first # None THEN [i \in DOMAIN first.steps |-> 0]
                        ELSE <<>>]
    BY DEF Init
  <1>2. /\ world \in {"sql", "entities", "executor"} /\ flag = {}
        /\ call = [c \in Callers |-> NewCall] /\ since = [c \in Callers |-> 0]
        /\ charged = [r \in RunIds |-> 0] /\ overwrote = {} /\ faults = 0
    BY DEF Init
  <1>3. first # None => /\ first \in Run /\ first.spent = 0 /\ first.steps \in Seq(Step)
                        /\ \A i \in DOMAIN first.steps : first.steps[i].state = "queued"
    <2>1. ASSUME NEW t \in Tenants, NEW k \in Keys, NEW steps \in StoredSteps
          PROVE  LET row == NewRun(t, k, steps)
                 IN  /\ row \in Run /\ row.spent = 0 /\ row.steps \in Seq(Step)
                     /\ \A i \in DOMAIN row.steps : row.steps[i].state = "queued"
      <3>1. steps \in Seq({s \in Step : s.state = "queued"})
        BY RunControlAssumption
      <3>2. steps \in Seq(Step) /\ \A i \in DOMAIN steps : steps[i].state = "queued"
        BY <3>1
      <3>3. "queued" \in RunState /\ 0 \in 0..MaxCost
        BY RunControlAssumption DEF RunState
      <3> QED
        BY <3>2, <3>3 DEF NewRun, Run
    <2> QED
      BY <1>1, <2>1
  <1>4. NewCall \in CallType /\ NewCall.pc = "new" /\ NewCall.kind = "none"
    <2>1. /\ "none" \in CallKinds /\ "new" \in Pcs /\ None \in Optional(Tenants)
          /\ None \in Optional(Keys) /\ 0 \in RunIds /\ 0 \in Amounts /\ None \in Optional(Run)
          /\ TRUE \in BOOLEAN
      BY DEF CallKinds, Pcs, Optional, RunIds, Amounts
    <2> HIDE DEF Holding
    <2> QED
      BY <2>1 DEF NewCall, CallType
  <1>5. /\ table \in [RunIds -> Run \cup {None}] /\ begun \in [RunIds -> Seq(Nat)]
        /\ \A r \in RunIds : (table[r] = None => begun[r] = <<>>)
        /\ \A r \in RunIds : table[r] # None =>
             /\ r = 0 /\ table[r] = first /\ Len(begun[r]) = Len(first.steps)
        /\ \A r \in RunIds : \A i \in DOMAIN begun[r] : begun[r][i] = 0
        /\ \A i \in DOMAIN first.steps : first # None => begun[0][i] = 0
    <2>1. PICK none : /\ none \in Seq(Nat) /\ \A i \in DOMAIN none : none[i] = 0
                      /\ first # None => Len(none) = Len(first.steps) /\ DOMAIN none = DOMAIN first.steps
                      /\ first = None => none = <<>>
                      /\ \A r \in RunIds : begun[r] = IF r = 0 THEN none ELSE <<>>
                      /\ begun = [r \in RunIds |-> IF r = 0 THEN none ELSE <<>>]
      <3>1. CASE first # None
        <4>1. PICK n \in Nat : DOMAIN first.steps = 1..n /\ n = Len(first.steps)
          BY <1>3, <3>1
        <4> DEFINE none == [i \in 1..n |-> 0]
        <4>3. none \in Seq(Nat) /\ Len(none) = n /\ DOMAIN none = 1..n
          OBVIOUS
        <4>4. begun = [r \in RunIds |-> IF r = 0 THEN none ELSE <<>>]
          BY <1>1, <3>1, <4>1
        <4>5. \A i \in DOMAIN none : none[i] = 0
          OBVIOUS
        <4> HIDE DEF none
        <4>6. \A r \in RunIds : begun[r] = IF r = 0 THEN none ELSE <<>>
          BY <4>4
        <4> QED
          BY <3>1, <4>1, <4>3, <4>4, <4>5, <4>6
      <3>2. CASE first = None
        <4>1. begun = [r \in RunIds |-> <<>>]
          BY <1>1, <3>2
        <4> DEFINE none == <<>>
        <4>2. none \in Seq(Nat) /\ none = <<>>
          OBVIOUS
        <4>3. begun = [r \in RunIds |-> IF r = 0 THEN none ELSE <<>>]
          BY <4>1
        <4>4. \A i \in DOMAIN none : none[i] = 0
          OBVIOUS
        <4>5. \A r \in RunIds : begun[r] = IF r = 0 THEN none ELSE <<>>
          BY <4>3
        <4> HIDE DEF none
        <4>6. /\ none \in Seq(Nat) /\ \A i \in DOMAIN none : none[i] = 0
              /\ first # None => Len(none) = Len(first.steps) /\ DOMAIN none = DOMAIN first.steps
              /\ first = None => none = <<>>
              /\ \A r \in RunIds : begun[r] = IF r = 0 THEN none ELSE <<>>
              /\ begun = [r \in RunIds |-> IF r = 0 THEN none ELSE <<>>]
          BY <3>2, <4>2, <4>3, <4>4, <4>5
        <4> QED
          BY <4>6
      <3> QED
        BY <3>1, <3>2
    <2>2. begun \in [RunIds -> Seq(Nat)]
      <3>1. <<>> \in Seq(Nat)
        OBVIOUS
      <3> QED
        BY <2>1, <3>1
    <2>3. \A r \in RunIds : table[r] = IF r = 0 THEN first ELSE None
      BY <1>1
    <2>4. table \in [RunIds -> Run \cup {None}]
      BY <1>1, <1>3
    <2> QED
      BY <2>1, <2>2, <2>3, <2>4 DEF RunIds
  <1>6. 0 \notin Callers /\ 0 \in 0..MaxFaults
    BY RunControlAssumption
  <1>7. Types
    <2>1. call \in [Callers -> CallType]
      <3>1. PICK m \in CallType : m = NewCall
        BY <1>4
      <3> QED
        BY <1>2, <3>1
    <2>counts. since \in [Callers -> Nat] /\ charged \in [RunIds -> Nat]
      <3>1. 0 \in Nat
        OBVIOUS
      <3> QED
        BY <1>2, <3>1
    <2>2. flag \subseteq RunIds /\ overwrote \subseteq RunIds
      BY <1>2
    <2> QED
      BY <1>2, <1>5, <1>6, <2>1, <2>counts, <2>2 DEF Types
  <1>8. \A c \in Callers : call[c] = NewCall /\ since[c] = 0
    BY <1>2
  <1>9. \A c \in Callers : Known(call[c]) /\ Since(c, call[c])
    <2>1. ASSUME NEW c \in Callers
          PROVE  Known(call[c]) /\ Since(c, call[c])
      <3>1. call[c].pc = "new" /\ call[c].kind = "none" /\ since[c] = 0 /\ faults = 0
        BY <1>2, <1>4, <1>8
      <3> QED
        BY <3>1 DEF Known, Creation, Entity, Cost, State, Asked, Worker, Steps, StepsAhead, Since, Loop
    <2> QED
      BY <2>1
  <1>10. RowsKnown
    BY <1>5, <1>6 DEF RowsKnown, Present, RunIds
  <1>11. ASSUME NEW r \in RunIds
         PROVE  RowInv(r)
    <2>1. charged[r] = 0 /\ \A i \in DOMAIN begun[r] : begun[r][i] = 0
      BY <1>2, <1>5
    <2>2. table[r] # None => /\ r = 0 /\ table[r] = first /\ first # None
                             /\ Len(begun[r]) = Len(first.steps)
      BY <1>5
    <2>3. table[r] # None => AllStates(table[r].steps) /\ InOrder(table[r].steps)
      BY <1>3, <2>2 DEF AllStates, InOrder, StepStates
    <2> QED
      BY <1>3, <1>5, <2>1, <2>2, <2>3 DEF RowInv
  <1>12. OneWorker
    BY <1>4, <1>8 DEF OneWorker, Loop
  <1> QED
    BY <1>7, <1>9, <1>10, <1>11, <1>12 DEF ControlInv

\* Every step keeps the invariant.
LEMMA ControlNext == ControlInv /\ [Next]_vars => ControlInv'
  <1> SUFFICES ASSUME ControlInv, [Next]_vars PROVE ControlInv'
    OBVIOUS
  <1>1. CASE UNCHANGED vars
    BY <1>1 DEF vars, ControlInv, Types, Known, Creation, Entity, Cost, State, Asked, Worker, Steps, StepsAhead, Due,
                RowsKnown, Present, RowInv, OneWorker, Since
  <1>2. CASE FlagExpires
    BY <1>2, ExpiryKeeps
  <1>3. ASSUME NEW c \in Callers, Request(c) \/ Crash(c)
        PROVE  ControlInv'
    BY <1>3, RequestKeeps, CrashKeeps
  <1>4. ASSUME NEW c \in Callers, UseCase(c) \/ Budget(c)
        PROVE  ControlInv'
    BY <1>4, LookupKeeps, InsertKeeps, ReadersKeep, CancelWriteKeeps, SpendKeeps, ServiceWriteKeeps
       DEF UseCase, Budget
  <1>5. ASSUME NEW c \in Callers, Cancellation(c)
        PROVE  ControlInv'
    BY <1>5, ReadersKeep, ServiceWriteKeeps, SignalKeeps DEF Cancellation
  <1>6. ASSUME NEW c \in Callers, HandleCancellation(c)
        PROVE  ControlInv'
    BY <1>6, LookersKeep, CancelWriteKeeps, CleanupKeeps DEF HandleCancellation
  <1>7. ASSUME NEW c \in Callers, Execution(c)
        PROVE  ControlInv'
    BY <1>6, <1>7, ReadersKeep, StartKeeps, CheckFlagKeeps, LookersKeep, BeginStepKeeps, WorkKeeps,
       SaveStepKeeps, SaveRunKeeps, FailKeeps DEF Execution
  <1> QED
    BY <1>1, <1>2, <1>3, <1>4, <1>5, <1>7 DEF Next, Proceed

\* The invariant holds in every reachable state, whatever the calls of the
\* routers, the services and the workers are and however they interleave.
THEOREM ControlInvHolds == Spec => []ControlInv
  BY ControlInit, ControlNext, PTL DEF Spec

\* The types of RunControl hold, and a stored run has a count for each of its
\* steps (runs and run_steps, as create and update_step write them).
THEOREM ControlTypeCorrect == Spec => []TypeOK
  <1>1. ControlInv => TypeOK
    <2> SUFFICES ASSUME ControlInv PROVE TypeOK
      OBVIOUS
    <2>1. CallType = [kind : Kinds \cup {"none"},
                      pc : {"new", "lookup", "insert", "get", "update", "signal", "start", "ack",
                            "cancel", "clear", "fail"} \cup Loop \cup Ended,
                      tenant : Tenants \cup {None}, key : Keys \cup {None}, run : RunIds,
                      cost : Costs \cup {0}, copy : Run \cup {None}, fresh : BOOLEAN]
      <3>1. Pcs = {"new", "lookup", "insert", "get", "update", "signal", "start", "ack",
                   "cancel", "clear", "fail"} \cup Loop \cup Ended
        BY DEF Pcs
      <3>2. /\ CallKinds = Kinds \cup {"none"} /\ Amounts = Costs \cup {0}
            /\ Optional(Tenants) = Tenants \cup {None} /\ Optional(Keys) = Keys \cup {None}
            /\ Optional(Run) = Run \cup {None}
        BY DEF CallKinds, Amounts, Optional
      <3> QED
        BY <3>1, <3>2, Zenon DEF CallType
    <2>2. \A r \in RunIds : table[r] # None => Len(begun[r]) = Len(table[r].steps)
      BY DEF ControlInv, RowInv
    <2> QED
      BY <2>1, <2>2 DEF ControlInv, Types, TypeOK
  <1> QED
    BY <1>1, ControlInvHolds, PTL

\* The cost of a run is at most what record_spent accepted for it, and is all of
\* it while no update wrote over columns its caller had not seen.
THEOREM CostsAreRecorded == Spec => []SpentAccounted
  <1>1. ControlInv => SpentAccounted
    BY DEF ControlInv, RowInv, SpentAccounted, Present
  <1> QED
    BY <1>1, ControlInvHolds, PTL

\* Every creation that succeeds with a key of a tenant answers with that tenant's
\* one run (create_run, whose lookup and insert the unique constraint guards).
THEOREM KeyGivesOneRun == Spec => []KeyNamesOneRun
  <1>1. ControlInv => KeyNamesOneRun
    <2> SUFFICES ASSUME ControlInv, NEW c \in Callers, NEW d \in Callers,
                        call[c].kind = "create", call[c].pc = "done",
                        call[d].kind = "create", call[d].pc = "done", call[c].key = call[d].key
                 PROVE  call[c].run = call[d].run <=> call[c].tenant = call[d].tenant
      BY DEF KeyNamesOneRun
    <2>1. /\ call[c].run \in Present /\ call[d].run \in Present
          /\ table[call[c].run].tenant = call[c].tenant /\ table[call[c].run].key = call[c].key
          /\ table[call[d].run].tenant = call[d].tenant /\ table[call[d].run].key = call[d].key
      BY DEF ControlInv, Types, CallType, Known, Creation, Present
    <2> QED
      BY <2>1 DEF ControlInv, RowsKnown
  <1> QED
    BY <1>1, ControlInvHolds, PTL

\* A worker begins one step at most once the flag is up, and one more for each
\* Redis call that fails (is_cancelled around _execute_step).
THEOREM WorkersStop == Spec => []StopsSoon
  <1>1. ControlInv => StopsSoon
    <2> SUFFICES ASSUME ControlInv, NEW c \in Callers PROVE since[c] <= 1 + faults
      BY DEF StopsSoon
    <2>1. Since(c, call[c]) /\ since[c] \in Nat /\ faults \in Nat
      BY RunControlAssumption DEF ControlInv, Types
    <2> QED
      BY <2>1 DEF Since
  <1> QED
    BY <1>1, ControlInvHolds, PTL

\* No step is begun twice unless a write overlapped another (execute_run).
THEOREM StepsBeginOnce == Spec => []StepOnce
  <1>1. ControlInv => StepOnce
    BY DEF ControlInv, RowInv, StepOnce
  <1> QED
    BY <1>1, ControlInvHolds, PTL

\* Both, and the types: what the run checks in one property of the executor.
THEOREM WorkersAreControlled == Spec => []WorkersBehave
  BY ControlTypeCorrect, WorkersStop, StepsBeginOnce, PTL DEF WorkersBehave

-----------------------------------------------------------------------------
\* Every step of the system is one of RunLifecycle for every run, through the
\* mapping Lifecycle(r) of RunControl.

\* What RunsKeepLifecycle says of a step.
LifeMove(r) ==
    /\ [Lifecycle(r)!LifecycleNext]_(Lifecycle(r)!runVars)
    /\ world = "sql" /\ table[r] # None => table'[r] = table[r]

\* What an update may do to a row whose entity nobody overtook.
RowMove(row, new) ==
    \/ /\ new.state = row.state /\ new.cancel = row.cancel
       /\ new.spent \in row.spent..MaxCost
    \/ /\ row.state \notin Terminal /\ new.spent = row.spent
       /\ \/ new.state \in {"cancelled", row.state} /\ new.cancel
          \/ /\ new.cancel = row.cancel
             /\ \/ CanTransition(row.state, "running") /\ new.state = "running"
                \/ row.state = "running" /\ new.state = "awaiting_approval"
                \/ new.state = "failed"

\* A run of which nothing is written stutters.
LEMMA StayMoves ==
    ASSUME NEW r, table'[r] = table[r], UNCHANGED world, r \in overwrote' <=> r \in overwrote
    PROVE  LifeMove(r)
  <1>1. UNCHANGED Lifecycle(r)!runVars
    BY DEF Lifecycle!runVars
  <1> QED
    BY <1>1 DEF LifeMove

\* The row of a new run is a Create.
LEMMA CreateMoves ==
    ASSUME NEW r, NEW row \in Run, table[r] = None, table'[r] = row,
           row.state = "queued", ~row.cancel, row.spent = 0, row.steps = <<>>,
           UNCHANGED <<world, overwrote>>
    PROVE  LifeMove(r)
  <1>1. row # None
    BY RunControlAssumption
  <1>2. DOMAIN row.steps = {}
    OBVIOUS
  <1>3. [i \in DOMAIN row.steps |-> row.steps[i].state] = <<>>
    BY <1>2
  <1>4. Lifecycle(r)!Create
    BY <1>1, <1>3 DEF Lifecycle!Create
  <1> QED
    BY <1>4 DEF LifeMove, Lifecycle!LifecycleNext

\* An update of an entity nobody overtook is an action on the run as a whole.
LEMMA RowMoves ==
    ASSUME NEW r, NEW row \in Run, NEW new \in Run, table[r] = row, table'[r] = new,
           new.steps = row.steps, RowMove(row, new),
           world # "sql", UNCHANGED world, r \in overwrote' <=> r \in overwrote
    PROVE  LifeMove(r)
  <1>1. row # None /\ new # None
    BY RunControlAssumption
  <1>2. CASE new.state = row.state /\ new.cancel = row.cancel /\ new.spent \in row.spent..MaxCost
    <2>1. Lifecycle(r)!Charge
      BY <1>1, <1>2 DEF Lifecycle!Charge
    <2> QED
      BY <2>1 DEF LifeMove, Lifecycle!LifecycleNext
  <1>3. CASE row.state \notin Terminal /\ new.spent = row.spent /\ new.cancel
             /\ new.state \in {"cancelled", row.state}
    <2>1. Lifecycle(r)!Cancel \/ Lifecycle(r)!RequestCancellation
      BY <1>1, <1>3 DEF Lifecycle!Cancel, Lifecycle!RequestCancellation, Lifecycle!Move, Lifecycle!Open,
                        Lifecycle!Terminal, Terminal
    <2> QED
      BY <2>1 DEF LifeMove, Lifecycle!LifecycleNext
  <1>4. CASE /\ row.state \notin Terminal /\ new.spent = row.spent /\ new.cancel = row.cancel
             /\ \/ CanTransition(row.state, "running") /\ new.state = "running"
                \/ row.state = "running" /\ new.state = "awaiting_approval"
                \/ new.state = "failed"
    <2>1. Lifecycle(r)!Start \/ Lifecycle(r)!AwaitApproval \/ Lifecycle(r)!Fail
      BY <1>1, <1>4 DEF Lifecycle!Start, Lifecycle!AwaitApproval, Lifecycle!Fail, Lifecycle!Move, Lifecycle!Open,
                        Lifecycle!Terminal, Terminal, Lifecycle!CanTransition, CanTransition,
                        Lifecycle!RunState, RunState
    <2> QED
      BY <2>1 DEF LifeMove, Lifecycle!LifecycleNext
  <1> QED
    BY <1>2, <1>3, <1>4 DEF RowMove

\* An update that went over columns its caller had not seen is an Overwrite.
LEMMA OverwriteMoves ==
    ASSUME NEW r, NEW row \in Run, NEW new \in Run, table[r] = row, table'[r] = new,
           new.steps = row.steps, world # "sql", UNCHANGED world, r \in overwrote'
    PROVE  LifeMove(r)
  <1>1. row # None /\ new # None
    BY RunControlAssumption
  <1>2. new.state \in RunState /\ new.spent \in 0..MaxCost
    BY DEF Run
  <1>3. Lifecycle(r)!Overwrite
    BY <1>1, <1>2 DEF Lifecycle!Overwrite, Lifecycle!RunState, RunState
  <1> QED
    BY <1>3 DEF LifeMove, Lifecycle!LifecycleNext

\* A step of a run that changes state begins, ends, or is done again.
LEMMA StepMoves ==
    ASSUME NEW r, NEW row \in Run, table[r] = row, NEW i \in DOMAIN row.steps,
           NEW state \in {"running"} \cup Finished, table'[r] = WithStep(row, i, state),
           \/ r \in overwrote
           \/ /\ state = "running" /\ row.state \in {"running"} \cup Terminal
              /\ row.steps[i].state = "queued"
              /\ \A j \in DOMAIN row.steps : j < i => row.steps[j].state \in Finished
           \/ row.steps[i].state = "running" /\ state \in Finished,
           world # "sql", UNCHANGED <<world, overwrote>>
    PROVE  LifeMove(r)
  <1>1. PICK new : new = WithStep(row, i, state)
    OBVIOUS
  <1>2. state \in RunState
    BY DEF RunState, Finished
  <1>3. /\ new \in Run /\ new.state = row.state /\ new.spent = row.spent
        /\ DOMAIN new.steps = DOMAIN row.steps /\ new.steps[i].state = state
        /\ \A j \in DOMAIN row.steps \ {i} : new.steps[j] = row.steps[j]
    BY <1>1, <1>2, WithStepIs
  <1>4. new.cancel = row.cancel
    BY <1>1, WithStepSteps
  <1>5. row # None /\ new # None
    BY <1>3, RunControlAssumption
  <1> DEFINE before == [j \in DOMAIN row.steps |-> row.steps[j].state]
             after == [j \in DOMAIN new.steps |-> new.steps[j].state]
  <1>6. after = [before EXCEPT ![i] = state] /\ i \in DOMAIN before
    BY <1>3
  <1>7. Lifecycle(r)!StepTo(i, state)
    BY <1>1, <1>3, <1>4, <1>5, <1>6 DEF Lifecycle!StepTo
  <1>8. \A j \in DOMAIN row.steps : Lifecycle(r)!Done(j) <=> row.steps[j].state \in Finished
    BY <1>5 DEF Lifecycle!Done, Finished
  <1> DEFINE moves == \E j \in DOMAIN row.steps :
                         Lifecycle(r)!BeginStep(j) \/ Lifecycle(r)!EndStep(j) \/ Lifecycle(r)!RepeatStep(j)
  <1>10. moves
    <2>1. CASE r \in overwrote
      <3>1. Lifecycle(r)!RepeatStep(i)
        BY <1>7, <2>1 DEF Lifecycle!RepeatStep, Finished
      <3> QED
        BY <3>1
    <2>2. CASE /\ state = "running" /\ row.state \in {"running"} \cup Terminal
               /\ row.steps[i].state = "queued"
               /\ \A j \in DOMAIN row.steps : j < i => row.steps[j].state \in Finished
      <3>1. 1..(i - 1) \subseteq DOMAIN row.steps /\ \A j \in 1..(i - 1) : j < i
        <4>1. row.steps \in Seq(Step)
          BY DEF Run
        <4> QED
          BY <4>1
      <3>2. \A j \in 1..(i - 1) : Lifecycle(r)!Done(j)
        BY <1>8, <2>2, <3>1
      <3>3. Lifecycle(r)!BeginStep(i)
        BY <1>5, <1>7, <2>2, <3>2 DEF Lifecycle!BeginStep, Lifecycle!Terminal, Terminal
      <3> QED
        BY <3>3
    <2>3. CASE row.steps[i].state = "running" /\ state \in Finished
      <3>1. Lifecycle(r)!EndStep(i)
        BY <1>5, <1>7, <2>3 DEF Lifecycle!EndStep, Finished
      <3> QED
        BY <3>1
    <2> QED
      BY <2>1, <2>2, <2>3
  <1>11. DOMAIN before = DOMAIN row.steps
    OBVIOUS
  <1> QED
    BY <1>5, <1>10, <1>11 DEF LifeMove, Lifecycle!LifecycleNext

\* So does every run where no row is written.
LEMMA ReadingMoves ==
    ASSUME UNCHANGED <<world, table, overwrote>>, NEW r \in RunIds
    PROVE  LifeMove(r)
  BY StayMoves

\* An update of one run, by what its entity has for the row it replaces.
LEMMA UpdateMoves ==
    ASSUME ControlInv, NEW c \in Callers, NEW run \in Run, NEW pc, NEW cost,
           Update(c, run, pc, cost), call[c].pc \in Holding,
           call[c].fresh => RowMove(table[call[c].run], run),
           NEW r \in RunIds
    PROVE  LifeMove(r)
  <1>1. CASE world = "sql"
    BY <1>1, ReadingMoves DEF Update, Unwritten, Goto, Then
  <1>2. CASE world # "sql"
    <2>1. PICK s : s = call[c].run
      OBVIOUS
    <2>2. /\ s \in RunIds /\ table[s] \in Run /\ table \in [RunIds -> Run \cup {None}]
          /\ call[c].fresh \in BOOLEAN
      BY <2>1, HasCopy DEF ControlInv, Types, CallType
    <2>3. PICK old, row : old = table[s] /\ row = Written(old, run)
      OBVIOUS
    <2>4. /\ row \in Run /\ row.steps = old.steps /\ row.state = run.state /\ row.spent = run.spent
          /\ row.cancel = run.cancel
      BY <2>2, <2>3, WrittenIs
    <2>5. /\ table' = [table EXCEPT ![s] = row] /\ UNCHANGED world
          /\ overwrote' = IF call[c].fresh THEN overwrote ELSE overwrote \cup {s}
      BY <1>2, <2>1, <2>3 DEF Update
    <2>6. table'[s] = row /\ \A d \in RunIds \ {s} : table'[d] = table[d]
      BY <2>2, <2>5
    <2>7. CASE r # s
      BY <2>5, <2>6, <2>7, StayMoves
    <2>8. CASE r = s /\ call[c].fresh
      <3>1. RowMove(old, row)
        BY <2>1, <2>3, <2>4, <2>8 DEF RowMove
      <3> QED
        BY <1>2, <2>2, <2>3, <2>4, <2>5, <2>6, <2>8, <3>1, RowMoves
    <2>9. CASE r = s /\ ~call[c].fresh
      <3>1. r \in overwrote'
        BY <2>5, <2>9
      <3> QED
        BY <1>2, <2>2, <2>3, <2>4, <2>5, <2>6, <2>9, <3>1, OverwriteMoves
    <2> QED
      BY <2>2, <2>7, <2>8, <2>9
  <1> QED
    BY <1>1, <1>2

\* What an entity nobody overtook has of its row.
LEMMA FreshIs ==
    ASSUME ControlInv, NEW c \in Callers, call[c].pc \in Holding, call[c].fresh
    PROVE  /\ call[c].copy.cancel = table[call[c].run].cancel
           /\ call[c].copy.spent = table[call[c].run].spent + Due(call[c])
           /\ call[c].copy.spent \in table[call[c].run].spent..MaxCost
           /\ call[c].pc \in {"update", "start", "cancel"} =>
                call[c].copy.state = table[call[c].run].state
  <1>1. /\ call[c].copy \in Run /\ table[call[c].run] \in Run /\ Known(call[c])
        /\ call[c] \in CallType
    BY HasCopy
  <1>2. call[c].copy.cancel = table[call[c].run].cancel
    BY <1>1 DEF Known, Asked
  <1>3. call[c].copy.spent = table[call[c].run].spent + Due(call[c])
    BY <1>1 DEF Known, Cost
  <1>4. call[c].copy.spent \in 0..MaxCost /\ table[call[c].run].spent \in 0..MaxCost
    BY <1>1 DEF Run
  <1>5. call[c].copy.spent \in table[call[c].run].spent..MaxCost
    BY <1>1, <1>3, <1>4, DueIsNat, RunControlAssumption
  <1>6. call[c].pc \in {"update", "start", "cancel"} =>
          call[c].copy.state = table[call[c].run].state
    BY <1>1 DEF Known, State
  <1> QED
    BY <1>2, <1>3, <1>5, <1>6

\* Nothing is due of the cost of an entity that record_spent did not change.
LEMMA NothingDue ==
    ASSUME ControlInv, NEW c \in Callers, call[c].pc \in Holding, call[c].fresh,
           ~(call[c].kind = "spend" /\ call[c].pc = "update")
    PROVE  call[c].copy.spent = table[call[c].run].spent
  <1>1. Due(call[c]) = 0
    BY DEF Due
  <1>2. table[call[c].run] \in Run
    BY HasCopy
  <1>3. table[call[c].run].spent \in Nat
    BY <1>2, RunControlAssumption DEF Run
  <1> QED
    BY <1>1, <1>3, FreshIs

\* A run cancelled in its entity, unless it had ended.
LEMMA CancelledMoves ==
    ASSUME NEW run \in Run
    PROVE  /\ run.state \in Terminal => Cancelled(run) = run
           /\ run.state \notin Terminal =>
                Cancelled(run).state = "cancelled" /\ Cancelled(run).cancel
                /\ Cancelled(run).spent = run.spent
  <1>1. PICK q : q = [run EXCEPT !.state = "cancelled", !.cancel = TRUE]
    OBVIOUS
  <1>2. q.state = "cancelled" /\ q.cancel /\ q.spent = run.spent
    BY <1>1 DEF Run
  <1> QED
    BY <1>1, <1>2 DEF Cancelled

\* cancel_run and complete_cancellation: Cancel, or nothing if the run had ended.
LEMMA CancelWriteMoves ==
    ASSUME ControlInv, NEW c \in Callers, UseCaseCancel(c) \/ CompleteWrite(c), NEW r \in RunIds
    PROVE  LifeMove(r)
  <1> DEFINE m == call[c]
             row == table[m.run]
  <1>1. m.pc \in {"update", "cancel"} /\ ~(m.kind = "spend" /\ m.pc = "update")
    BY DEF UseCaseCancel, CompleteWrite
  <1>2. m.copy \in Run
    BY <1>1, HasCopy
  <1>3. PICK run : run = Cancelled(m.copy)
    OBVIOUS
  <1>4. run \in Run
    BY <1>2, <1>3, CancelledIs
  <1>5. ASSUME m.fresh
        PROVE  RowMove(row, run)
    <2>1. /\ m.copy.state = row.state /\ m.copy.cancel = row.cancel
          /\ m.copy.spent \in row.spent..MaxCost /\ m.copy.spent = row.spent
      BY <1>1, <1>5, FreshIs, NothingDue
    <2>2. CASE m.copy.state \in Terminal
      <3>1. run = m.copy
        BY <1>2, <1>3, <2>2, CancelledMoves
      <3> QED
        BY <2>1, <3>1 DEF RowMove
    <2>3. CASE m.copy.state \notin Terminal
      <3>1. run.state = "cancelled" /\ run.cancel /\ run.spent = m.copy.spent
        BY <1>2, <1>3, <2>3, CancelledMoves
      <3> QED
        BY <2>1, <2>3, <3>1 DEF RowMove
    <2> QED
      BY <2>2, <2>3
  <1>6. Update(c, run, "done", 0) \/ Update(c, run, "clear", 0)
    BY <1>3 DEF UseCaseCancel, CompleteWrite
  <1> QED
    BY <1>1, <1>4, <1>5, <1>6, UpdateMoves

\* record_spent: Charge.  check_cancellation_timeout writes what it read.
LEMMA SpendWriteMoves ==
    ASSUME ControlInv, NEW c \in Callers, SpendWrite(c) \/ TimeoutWrite(c), NEW r \in RunIds
    PROVE  LifeMove(r)
  <1> DEFINE m == call[c]
             row == table[m.run]
  <1>1. m.pc = "update"
    BY DEF SpendWrite, TimeoutWrite
  <1>2. m.copy \in Run
    BY <1>1, HasCopy
  <1>3. ASSUME m.fresh
        PROVE  RowMove(row, m.copy)
    BY <1>1, <1>3, FreshIs DEF RowMove
  <1>4. Update(c, m.copy, "done", m.cost) \/ Update(c, m.copy, "true", 0)
    BY DEF SpendWrite, TimeoutWrite
  <1> QED
    BY <1>1, <1>2, <1>3, <1>4, UpdateMoves

\* request_cancellation: RequestCancellation.
LEMMA RequestWriteMoves ==
    ASSUME ControlInv, NEW c \in Callers, RequestWrite(c), NEW r \in RunIds
    PROVE  LifeMove(r)
  <1> DEFINE m == call[c]
             row == table[m.run]
  <1>1. m.pc = "update" /\ m.kind = "request"
    BY DEF RequestWrite
  <1>2. m.copy \in Run /\ Known(m)
    BY <1>1, HasCopy
  <1>3. PICK run : run = [m.copy EXCEPT !.cancel = TRUE]
    OBVIOUS
  <1>4. /\ run \in Run /\ run.state = m.copy.state /\ run.spent = m.copy.spent
    BY <1>2, <1>3 DEF Run
  <1>5. run.cancel
    BY <1>2, <1>3 DEF Run
  <1>6. ASSUME m.fresh
        PROVE  RowMove(row, run)
    <2>1. m.copy.state = row.state /\ m.copy.spent = row.spent
      BY <1>1, <1>6, FreshIs, NothingDue
    <2>2. m.copy.state \notin Terminal
      BY <1>1, <1>2 DEF Known, State
    <2> QED
      BY <1>4, <1>5, <2>1, <2>2 DEF RowMove
  <1>7. Update(c, run, "signal", 0)
    BY <1>3 DEF RequestWrite
  <1> QED
    BY <1>1, <1>4, <1>6, <1>7, UpdateMoves

\* The worker starts its run: Start.
LEMMA StartMoves ==
    ASSUME ControlInv, NEW c \in Callers, ExecutorStart(c), NEW r \in RunIds
    PROVE  LifeMove(r)
  <1> DEFINE m == call[c]
             row == table[m.run]
  <1>1. m.pc = "start"
    BY DEF ExecutorStart
  <1>2. m.copy \in Run
    BY <1>1, HasCopy
  <1>3. PICK run : run = [m.copy EXCEPT !.state = "running", !.owner = c, !.lease = TRUE]
    OBVIOUS
  <1>4. \/ UNCHANGED <<world, table, overwrote>>
        \/ CanTransition(m.copy.state, "running") /\ Update(c, run, "check", 0)
    BY <1>3 DEF ExecutorStart, Unwritten, Goto, Then
  <1>5. run \in Run /\ run.state = "running" /\ run.spent = m.copy.spent
    <2>1. PICK T, K, O, N, Q :
            /\ Run = [tenant : T, key : K, state : RunState, owner : O, lease : BOOLEAN,
                      cancel : BOOLEAN, spent : N, steps : Q]
            /\ O = Callers \cup {None}
      BY DEF Run
    <2>2. "running" \in RunState /\ c \in O
      BY <2>1 DEF RunState
    <2> QED
      BY <1>2, <1>3, <2>1, <2>2
  <1>6. run.cancel = m.copy.cancel
    BY <1>2, <1>3 DEF Run
  <1>7. ASSUME m.fresh, CanTransition(m.copy.state, "running")
        PROVE  RowMove(row, run)
    <2>1. m.copy.state = row.state /\ m.copy.cancel = row.cancel /\ m.copy.spent = row.spent
      BY <1>1, <1>7, FreshIs, NothingDue
    <2>2. m.copy.state \notin Terminal
      BY <1>7 DEF CanTransition, Terminal
    <2> QED
      BY <1>5, <1>6, <1>7, <2>1, <2>2 DEF RowMove
  <1> QED
    BY <1>1, <1>4, <1>5, <1>7, ReadingMoves, UpdateMoves

\* The worker saves its run: AwaitApproval, or nothing.
LEMMA SaveRunMoves ==
    ASSUME ControlInv, NEW c \in Callers, SaveRun(c), NEW r \in RunIds
    PROVE  LifeMove(r)
  <1> DEFINE m == call[c]
             row == table[m.run]
  <1>1. m.pc = "save_run" /\ m.pc \in Holding
    BY DEF SaveRun, Loop
  <1>2. m.copy \in Run /\ Known(m)
    BY <1>1, HasCopy
  <1>3. ASSUME m.fresh
        PROVE  RowMove(row, m.copy)
    <2>1. /\ m.copy.cancel = row.cancel /\ m.copy.spent = row.spent
          /\ m.copy.spent \in row.spent..MaxCost
      BY <1>1, <1>3, FreshIs, NothingDue
    <2>2. row.state = "running" /\ m.copy.state \in {"running", "awaiting_approval"}
      BY <1>1, <1>2, <1>3 DEF Known, State, Loop
    <2>3. "running" \notin Terminal
      BY DEF Terminal
    <2> QED
      BY <2>1, <2>2, <2>3 DEF RowMove
  <1>4. Update(c, m.copy, "done", 0) \/ Update(c, m.copy, "after", 0)
    BY DEF SaveRun
  <1> QED
    BY <1>1, <1>2, <1>3, <1>4, UpdateMoves

\* The handler of execute_run: Fail, or nothing.
LEMMA FailMoves ==
    ASSUME ControlInv, NEW c \in Callers, Fail(c), NEW r \in RunIds
    PROVE  LifeMove(r)
  <1> DEFINE m == call[c]
             row == table[m.run]
  <1>1. m.pc = "fail"
    BY DEF Fail
  <1>2. m.copy \in Run /\ Known(m)
    BY <1>1, HasCopy
  <1>3. PICK run : run = [m.copy EXCEPT !.state = "failed"]
    OBVIOUS
  <1>4. \/ UNCHANGED <<world, table, overwrote>>
        \/ CanTransition(m.copy.state, "failed") /\ Update(c, run, "done", 0)
    BY <1>3 DEF Fail, Unwritten, Goto, Then
  <1>5. run \in Run /\ run.state = "failed" /\ run.spent = m.copy.spent
    <2>1. "failed" \in RunState
      BY DEF RunState
    <2> QED
      BY <1>2, <1>3, <2>1 DEF Run
  <1>6. run.cancel = m.copy.cancel
    BY <1>2, <1>3 DEF Run
  <1>7. ASSUME m.fresh, CanTransition(m.copy.state, "failed")
        PROVE  RowMove(row, run)
    <2>1. m.copy.cancel = row.cancel /\ m.copy.spent = row.spent
      BY <1>1, <1>7, FreshIs, NothingDue
    <2>2. m.copy.state \notin Terminal
      BY <1>7 DEF CanTransition, Terminal
    <2>3. row.state \notin Terminal
      BY <1>1, <1>2, <1>7, <2>2 DEF Known, State
    <2> QED
      BY <1>5, <1>6, <2>1, <2>3 DEF RowMove
  <1> QED
    BY <1>1, <1>4, <1>5, <1>7, ReadingMoves, UpdateMoves

\* A worker begins a step: BeginStep of the first that is not done.
LEMMA BeginStepMoves ==
    ASSUME ControlInv, NEW c \in Callers, BeginStep(c), NEW r \in RunIds
    PROVE  LifeMove(r)
  <1> DEFINE m == call[c]
  <1>1. m.pc = "step" /\ m.pc \in Loop
    BY DEF BeginStep, Loop
  <1>2. /\ m.copy \in Run /\ Known(m) /\ m.run \in RunIds /\ table[m.run] \in Run
        /\ table \in [RunIds -> Run \cup {None}]
    BY <1>1, HasCopy DEF ControlInv, Types
  <1>3. PICK s, row : s = m.run /\ row = table[s]
    OBVIOUS
  <1>4. PICK i \in Pending(m.copy) :
          \/ UNCHANGED <<world, table, overwrote>>
          \/ /\ m.copy.steps[i].state # "running"
             /\ table' = [table EXCEPT ![s] = WithStep(@, i, "running")]
             /\ UNCHANGED <<world, overwrote>>
    BY <1>3 DEF BeginStep, WithStep, Unwritten, Goto, Then
  <1>5. /\ i \in DOMAIN m.copy.steps /\ m.copy.steps[i].state \in {"queued", "running"}
        /\ \A j \in DOMAIN m.copy.steps : j < i => m.copy.steps[j].state \in Finished
    <2>1. m.copy.steps \in Seq(Step) /\ AllStates(m.copy.steps)
      BY <1>1, <1>2 DEF Known, Steps, Run
    <2> QED
      BY <2>1, PendingIsNext
  <1>6. i \in DOMAIN row.steps
    BY <1>1, <1>3, <1>5, StepOf
  <1>7. world # "sql"
    BY <1>1, <1>2 DEF Known, Worker
  <1>8. s \notin overwrote => m.copy.steps = row.steps /\ row.state \in {"running"} \cup Terminal
    BY <1>1, <1>2, <1>3 DEF Known, Steps, StepsAhead
  <1>9. CASE UNCHANGED <<world, table, overwrote>>
    BY <1>9, ReadingMoves
  <1>10. CASE /\ m.copy.steps[i].state # "running"
              /\ table' = [table EXCEPT ![s] = WithStep(@, i, "running")]
              /\ UNCHANGED <<world, overwrote>>
    <2>1. table'[s] = WithStep(row, i, "running") /\ \A d \in RunIds \ {s} : table'[d] = table[d]
      BY <1>2, <1>3, <1>10
    <2>2. CASE r # s
      BY <1>10, <2>1, <2>2, StayMoves
    <2>3. CASE r = s
      <3>1. \/ r \in overwrote
            \/ /\ row.state \in {"running"} \cup Terminal
               /\ row.steps[i].state = "queued"
               /\ \A j \in DOMAIN row.steps : j < i => row.steps[j].state \in Finished
        BY <1>5, <1>8, <1>10, <2>3
      <3> QED
        BY <1>2, <1>3, <1>6, <1>7, <1>10, <2>1, <2>3, <3>1, StepMoves
    <2> QED
      BY <2>2, <2>3
  <1> QED
    BY <1>4, <1>9, <1>10

\* A worker saves the step it finished: EndStep.
LEMMA SaveStepMoves ==
    ASSUME ControlInv, NEW c \in Callers, SaveStep(c), NEW r \in RunIds
    PROVE  LifeMove(r)
  <1> DEFINE m == call[c]
  <1>1. m.pc = "save_step" /\ m.pc \in Loop
    BY DEF SaveStep, Loop
  <1>2. /\ m.copy \in Run /\ Known(m) /\ m.run \in RunIds /\ table[m.run] \in Run
        /\ table \in [RunIds -> Run \cup {None}] /\ table[m.run] # None /\ RowInv(m.run)
    BY <1>1, HasCopy DEF ControlInv, Types
  <1>3. PICK s, row : s = m.run /\ row = table[s]
    OBVIOUS
  <1>4. PICK i \in DOMAIN m.copy.steps :
          /\ i \notin Unfinished(m.copy)
          /\ (i + 1)..Len(m.copy.steps) \subseteq Unfinished(m.copy)
          /\ table' = [table EXCEPT ![s].steps[i].state = m.copy.steps[i].state]
    BY <1>3 DEF SaveStep
  <1>5. UNCHANGED <<world, overwrote>>
    BY DEF SaveStep, Goto, Then
  <1>6. PICK state : state = m.copy.steps[i].state
    OBVIOUS
  <1>7. table' = [table EXCEPT ![s] = WithStep(@, i, state)]
    BY <1>4, <1>6 DEF WithStep
  <1>8. state \in Finished
    <2>1. AllStates(m.copy.steps)
      BY <1>1, <1>2 DEF Known, Steps
    <2> QED
      BY <1>4, <1>6, <2>1 DEF AllStates, StepStates, Unfinished
  <1>9. i \in DOMAIN row.steps
    BY <1>1, <1>3, StepOf
  <1>10. world # "sql"
    BY <1>1, <1>2 DEF Known, Worker
  <1>11. s \notin overwrote => row.steps[i].state = "running"
    <2>1. SUFFICES ASSUME s \notin overwrote PROVE row.steps[i].state = "running"
      OBVIOUS
    <2>2. OneAhead(m.copy.steps, row.steps)
      BY <1>1, <1>2, <1>3, <2>1 DEF Known, Steps
    <2>3. row.steps \in Seq(Step) /\ AllStates(row.steps) /\ InOrder(row.steps)
      BY <1>2, <1>3, <2>1 DEF RowInv, Run
    <2> QED
      BY <1>4, <2>2, <2>3, SavedIsAhead
  <1>12. table'[s] = WithStep(row, i, state) /\ \A d \in RunIds \ {s} : table'[d] = table[d]
    BY <1>2, <1>3, <1>7
  <1>13. CASE r # s
    BY <1>5, <1>12, <1>13, StayMoves
  <1>14. CASE r = s
    BY <1>2, <1>3, <1>5, <1>8, <1>9, <1>10, <1>11, <1>12, <1>14, StepMoves
  <1> QED
    BY <1>13, <1>14

\* The row of a new run: Create.
LEMMA InsertMoves ==
    ASSUME ControlInv, NEW c \in Callers, Insert(c), NEW r \in RunIds
    PROVE  LifeMove(r)
  <1> DEFINE m == call[c]
  <1>1. m.pc = "insert"
    BY DEF Insert
  <1>2. /\ table[c] = None /\ table \in [RunIds -> Run \cup {None}] /\ c \in RunIds
        /\ m.tenant \in Tenants /\ m.key \in Keys
    BY <1>1 DEF ControlInv, RowsKnown, Types, RunIds, Known, Creation
  <1>3. PICK row : row = NewRun(m.tenant, m.key, <<>>)
    OBVIOUS
  <1>4. /\ row \in Run /\ row.state = "queued" /\ ~row.cancel /\ row.spent = 0 /\ row.steps = <<>>
    <2>1. "queued" \in RunState /\ 0 \in 0..MaxCost /\ <<>> \in Seq(Step)
      BY RunControlAssumption DEF RunState
    <2> QED
      BY <1>2, <1>3, <2>1 DEF NewRun, Run
  <1>5. \/ UNCHANGED <<world, table, overwrote>>
        \/ table' = [table EXCEPT ![c] = row] /\ UNCHANGED <<world, overwrote>>
    BY <1>3 DEF Insert, Unwritten, Goto, Then
  <1>6. CASE UNCHANGED <<world, table, overwrote>>
    BY <1>6, ReadingMoves
  <1>7. CASE table' = [table EXCEPT ![c] = row] /\ UNCHANGED <<world, overwrote>>
    <2>1. table'[c] = row /\ \A d \in RunIds \ {c} : table'[d] = table[d]
      BY <1>2, <1>7
    <2>2. CASE r = c
      BY <1>2, <1>4, <1>7, <2>1, <2>2, CreateMoves
    <2>3. CASE r # c
      BY <1>7, <2>1, <2>3, StayMoves
    <2> QED
      BY <2>2, <2>3
  <1> QED
    BY <1>5, <1>6, <1>7

\* A step that writes no row.
Unwriting == UNCHANGED <<world, table, overwrote>>

\* A call begins: CreateRun, ExecuteRun and the others of Request.
LEMMA RequestsWriteNothing ==
    ASSUME NEW c \in Callers, Request(c)
    PROVE  Unwriting
  <1>1. ASSUME NEW kind, NEW pc, NEW fields, Begin(c, kind, pc, fields)
        PROVE  Unwriting
    BY <1>1 DEF Begin, Then, Unwritten, Unwriting
  <1>2. CASE Route(c)
    BY <1>1, <1>2 DEF Route, CreateRun, CreateRunRefused, GetRunStatus, CancelRun, OnRun
  <1>3. ASSUME NEW run, Service(c, run)
        PROVE  Unwriting
    BY <1>1, <1>3 DEF Service, RequestCancellation, CheckCancellationTimeout, ExecuteRun,
                      RecordSpent, CheckRunBudget
  <1> QED
    BY <1>2, <1>3 DEF Request

\* A call looks a row up: Lookup, UseCaseGet, Spend, CheckBudget, RequestGet,
\* TimeoutGet, Acknowledge, ExecutorGet, CheckRow; or works on its entity.
LEMMA LooksWriteNothing ==
    ASSUME NEW c \in Callers,
           \/ Lookup(c) \/ UseCaseGet(c) \/ Spend(c) \/ CheckBudget(c)
           \/ RequestGet(c) \/ TimeoutGet(c) \/ Acknowledge(c)
           \/ ExecutorGet(c) \/ CheckRow(c) \/ NothingPending(c) \/ Work(c)
    PROVE  Unwriting
  <1>1. ASSUME Unwritten, NEW changed, Then(c, changed)
        PROVE  Unwriting
    BY <1>1 DEF Then, Unwritten, Unwriting
  <1>2. ASSUME Unwritten, NEW pc, Goto(c, pc) \/ Read(c, pc)
        PROVE  Unwriting
    BY <1>1, <1>2 DEF Goto, Read
  <1>3. CASE Lookup(c) \/ UseCaseGet(c)
    BY <1>1, <1>2, <1>3 DEF Lookup, UseCaseGet
  <1>4. CASE Spend(c) \/ CheckBudget(c)
    BY <1>1, <1>2, <1>4 DEF Spend, CheckBudget
  <1>5. CASE RequestGet(c) \/ TimeoutGet(c) \/ Acknowledge(c)
    BY <1>2, <1>5 DEF RequestGet, TimeoutGet, Acknowledge
  <1>6. CASE ExecutorGet(c) \/ CheckRow(c) \/ NothingPending(c)
    <2>1. CASE ExecutorGet(c)
      BY <1>2, <2>1 DEF ExecutorGet
    <2>2. CASE CheckRow(c) \/ NothingPending(c)
      BY <1>2, <2>2 DEF CheckRow, NothingPending
    <2> QED
      BY <1>6, <2>1, <2>2
  <1>7. CASE Work(c)
    <2>1. Unwritten /\ \E changed : Then(c, changed)
      BY <1>7 DEF Work
    <2> QED
      BY <1>1, <2>1
  <1> QED
    BY <1>3, <1>4, <1>5, <1>6, <1>7

\* A call asks Redis, or its process dies.
LEMMA SignalsWriteNothing ==
    ASSUME NEW c \in Callers, Signal(c) \/ CheckFlag(c) \/ Cleanup(c) \/ Crash(c)
    PROVE  Unwriting
  <1>1. CASE Signal(c)
    BY <1>1 DEF Signal, Unwritten, Unwriting
  <1>2. CASE CheckFlag(c)
    BY <1>2 DEF CheckFlag, Unwritten, Unwriting
  <1>3. CASE Cleanup(c)
    BY <1>3 DEF Cleanup, Unwritten, Unwriting
  <1>4. CASE Crash(c)
    BY <1>4 DEF Crash, Unwritten, Unwriting
  <1> QED
    BY <1>1, <1>2, <1>3, <1>4

\* Whatever the routes, the services, the workers and the crashes do.
LEMMA EveryStepMoves ==
    ASSUME ControlInv, [Next]_vars, NEW r \in RunIds
    PROVE  LifeMove(r)
  <1>1. CASE Unwriting
    BY <1>1, ReadingMoves DEF Unwriting
  <1>2. CASE UNCHANGED vars
    BY <1>1, <1>2 DEF vars, Unwriting
  <1>3. CASE FlagExpires
    BY <1>1, <1>3 DEF FlagExpires, Unwritten, Unwriting
  <1>4. ASSUME NEW c \in Callers, Request(c) \/ Crash(c)
        PROVE  LifeMove(r)
    BY <1>1, <1>4, RequestsWriteNothing, SignalsWriteNothing
  <1>5. ASSUME NEW c \in Callers, UseCase(c) \/ Budget(c)
        PROVE  LifeMove(r)
    <2>1. CASE UseCase(c)
      BY <1>1, <2>1, LooksWriteNothing, InsertMoves, CancelWriteMoves DEF UseCase
    <2>2. CASE Budget(c)
      BY <1>1, <2>2, LooksWriteNothing, SpendWriteMoves DEF Budget
    <2> QED
      BY <1>5, <2>1, <2>2
  <1>6. ASSUME NEW c \in Callers, Cancellation(c) \/ HandleCancellation(c)
        PROVE  LifeMove(r)
    <2>1. CASE Cancellation(c)
      BY <1>1, <2>1, LooksWriteNothing, SignalsWriteNothing, SpendWriteMoves, RequestWriteMoves
         DEF Cancellation
    <2>2. CASE HandleCancellation(c)
      BY <1>1, <2>2, LooksWriteNothing, SignalsWriteNothing, CancelWriteMoves DEF HandleCancellation
    <2> QED
      BY <1>6, <2>1, <2>2
  <1>7. ASSUME NEW c \in Callers, Execution(c)
        PROVE  LifeMove(r)
    <2>1. CASE ExecutorGet(c) \/ CheckFlag(c) \/ CheckRow(c) \/ NothingPending(c) \/ Work(c)
      BY <1>1, <2>1, LooksWriteNothing, SignalsWriteNothing
    <2>2. CASE ExecutorStart(c) \/ SaveRun(c) \/ Fail(c)
      BY <2>2, StartMoves, SaveRunMoves, FailMoves
    <2>3. CASE BeginStep(c) \/ SaveStep(c)
      BY <2>3, BeginStepMoves, SaveStepMoves
    <2> QED
      BY <1>6, <1>7, <2>1, <2>2, <2>3 DEF Execution
  <1> QED
    BY <1>2, <1>3, <1>4, <1>5, <1>6, <1>7 DEF Next, Proceed

\* For any callers, tenants, keys, costs and stored steps, and however the
\* calls, the workers, the crashes and the failing signals interleave, every run
\* is one run of RunLifecycle: it stays as it ended, its cost only grows and
\* never beyond its limit, its steps run one after the other and each once,
\* unless a call wrote over columns it had not seen; and with the repository the
\* routers are given no stored run changes at all (update, which raises at
\* spent_cost.micro_units).
THEOREM RunsFollowLifecycle == Spec => RunsKeepLifecycle
  <1>1. Init => \A r \in RunIds : Lifecycle(r)!LifecycleInit
    <2> SUFFICES ASSUME Init, NEW r \in RunIds
                 PROVE  Lifecycle(r)!LifecycleInit
      OBVIOUS
    <2>1. PICK row : row = table[r]
      OBVIOUS
    <2>2. row # None => \E t \in Tenants, k \in Keys, steps \in StoredSteps : row = NewRun(t, k, steps)
      BY <2>1 DEF Init
    <2>3. row # None => /\ row.state = "queued" /\ ~row.cancel /\ row.spent = 0
                        /\ \A i \in DOMAIN row.steps : row.steps[i].state = "queued"
      <3>1. \A steps \in StoredSteps : \A i \in DOMAIN steps : steps[i].state = "queued"
        <4>1. ASSUME NEW steps \in StoredSteps
              PROVE  \A i \in DOMAIN steps : steps[i].state = "queued"
          <5>1. steps \in Seq({s \in Step : s.state = "queued"})
            BY RunControlAssumption
          <5> QED
            BY <5>1
        <4> QED
          BY <4>1
      <3> QED
        BY <2>2, <3>1 DEF NewRun
    <2>4. r \notin overwrote
      BY DEF Init
    <2> QED
      BY <2>1, <2>3, <2>4 DEF Lifecycle!LifecycleInit
  <1>2. ControlInv /\ [Next]_vars =>
          [\A r \in RunIds :
            /\ [Lifecycle(r)!LifecycleNext]_(Lifecycle(r)!runVars)
            /\ world = "sql" /\ table[r] # None => table'[r] = table[r]]_vars
    BY EveryStepMoves DEF LifeMove
  <1> QED
    BY <1>1, <1>2, ControlInvHolds, PTL DEF Spec, RunsKeepLifecycle
=============================================================================
