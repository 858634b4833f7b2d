-------------------------- MODULE RunAndOutboxProofs --------------------------
(***************************************************************************)
(* Theorems about Run, for any limits, costs, lease durations and callers: *)
(* its type invariant, that the reported events tell the state and its     *)
(* ending, that steps and retries are accounted for, that ends are final;  *)
(* and about Outbox, for any number of events and flushers and any batch   *)
(* size: its type invariant, that an event is marked as processed only     *)
(* after it was processed, and how often it may be.                        *)
(*                                                                         *)
(* The lemmas about Run speak of a list of events and a state of their own,*)
(* so that a method that reports two events takes two steps through them.  *)
(***************************************************************************)
EXTENDS Run, Outbox, SequenceTheorems, FiniteSetTheorems, TLAPS

-----------------------------------------------------------------------------
(* Run.                                                                    *)

\* Entry i of the list is its last state change.
LastChange(list, i) ==
    /\ list[i].kind = "changed"
    /\ \A k \in (i + 1)..Len(list) : list[k].kind # "changed"

\* EventsTellTheState, of a list and a state.
Story(list, s) ==
    /\ \A i, j \in 1..Len(list) :
          /\ i < j /\ list[i].kind = "changed" /\ list[j].kind = "changed"
          /\ \A k \in (i + 1)..(j - 1) : list[k].kind # "changed"
          => list[i].to = list[j].from
    /\ \A i \in 1..Len(list) : LastChange(list, i) => list[i].to = s

\* The list holds at most one ending, and it is the one of state s, which then
\* is a terminal state.
Ending(list, s) ==
    /\ \A i, j \in 1..Len(list) :
          list[i].kind \in Endings /\ list[j].kind \in Endings => i = j
    /\ \A i \in 1..Len(list) : list[i].kind \in Endings
          => s \in Terminal /\ list[i].kind = EndingOf(s)

HasEnding(list) == \E i \in 1..Len(list) : list[i].kind \in Endings

\* The steps of an object or of a row.
StepsInOrder(list) ==
    /\ Len(list) <= MaxSteps
    /\ \A i, j \in 1..Len(list) : list[i].sequence = list[j].sequence => i = j

\* Every reported step is one of the steps, once.
StepsReported(list, own) ==
    /\ \A i, j \in 1..Len(list) :
          (list[i].kind = "step" /\ list[j].kind = "step"
             /\ list[i].number = list[j].number) => i = j
    /\ \A i \in 1..Len(list) : list[i].kind = "step"
          => \E j \in 1..Len(own) : own[j].sequence = list[i].number

IInv ==
    /\ TypeOK
    /\ Story(events, run.state)
    /\ Ending(events, run.state)
    /\ run.state \in Terminal /\ run.money => HasEnding(events)
    /\ StepsInOrder(steps)
    /\ StepsReported(events, steps)
    /\ row # NoRow => StepsInOrder(row.steps)

-----------------------------------------------------------------------------
(* Lists.                                                                  *)

\* What one more event does to a list.
LEMMA WithFacts ==
    ASSUME NEW list \in Seq(Event), NEW e \in Event
    PROVE  /\ With(list, e) \in Seq(Event)
           /\ Len(list) \in Nat
           /\ Len(With(list, e)) = Len(list) + 1
           /\ \A i \in 1..Len(list) : With(list, e)[i] = list[i]
           /\ With(list, e)[Len(list) + 1] = e
BY DEF With

\* The constructors of events give events.
LEMMA EventTypes ==
    ASSUME TypeOK
    PROVE  /\ \A k \in {"created", "step"} \cup Endings, n \in Nat :
                 Plain(k, n) \in Event
           /\ \A t \in RunState : StateChanged(t) \in Event
  <1>1. run.state \in RunState
    BY DEF TypeOK, RunRecord
  <1>2. ASSUME NEW k \in {"created", "step"} \cup Endings, NEW n \in Nat
        PROVE  Plain(k, n) \in Event
    BY DEF Plain, Event
  <1>3. ASSUME NEW t \in RunState
        PROVE  StateChanged(t) \in Event
    BY <1>1 DEF StateChanged, Event
  <1> QED
    BY <1>2, <1>3

\* A change from the present state continues the story.
LEMMA StoryChange ==
    ASSUME NEW list \in Seq(Event), NEW s, Story(list, s),
           NEW e \in Event, e.kind = "changed", e.from = s
    PROVE  Story(With(list, e), e.to)
  <1> DEFINE new == With(list, e)
  <1> DEFINE n == Len(list)
  <1>1. /\ n \in Nat /\ Len(new) = n + 1 /\ new[n + 1] = e
        /\ \A i \in 1..n : new[i] = list[i]
    BY WithFacts
  <1> HIDE DEF new, n
  <1>2. ASSUME NEW i \in 1..Len(new), NEW j \in 1..Len(new), i < j,
               new[i].kind = "changed", new[j].kind = "changed",
               \A k \in (i + 1)..(j - 1) : new[k].kind # "changed"
        PROVE  new[i].to = new[j].from
    <2>1. i \in 1..n /\ new[i] = list[i]
      BY <1>1, <1>2
    <2>2. CASE j \in 1..n
      <3>1. \A k \in (i + 1)..(j - 1) : list[k].kind # "changed"
        BY <1>1, <1>2, <2>1, <2>2
      <3> QED
        BY <1>1, <1>2, <2>1, <2>2, <3>1 DEF Story, n
    <2>3. CASE j = n + 1
      <3>1. \A k \in (i + 1)..n : list[k].kind # "changed"
        BY <1>1, <1>2, <2>1, <2>3
      <3>2. LastChange(list, i)
        BY <1>2, <2>1, <3>1 DEF LastChange, n
      <3> QED
        BY <1>1, <2>1, <2>3, <3>2 DEF Story, n
    <2> QED
      BY <1>1, <2>2, <2>3
  <1>3. ASSUME NEW i \in 1..Len(new), LastChange(new, i)
        PROVE  new[i].to = e.to
    BY <1>1, <1>3 DEF LastChange
  <1> QED
    BY <1>2, <1>3 DEF Story, new

\* Any other event leaves the story as it is.
LEMMA StoryOther ==
    ASSUME NEW list \in Seq(Event), NEW s, Story(list, s),
           NEW e \in Event, e.kind # "changed"
    PROVE  Story(With(list, e), s)
  <1> DEFINE new == With(list, e)
  <1> DEFINE n == Len(list)
  <1>1. /\ n \in Nat /\ Len(new) = n + 1 /\ new[n + 1] = e
        /\ \A i \in 1..n : new[i] = list[i]
    BY WithFacts
  <1> HIDE DEF new, n
  <1>2. ASSUME NEW i \in 1..Len(new), NEW j \in 1..Len(new), i < j,
               new[i].kind = "changed", new[j].kind = "changed",
               \A k \in (i + 1)..(j - 1) : new[k].kind # "changed"
        PROVE  new[i].to = new[j].from
    <2>1. i \in 1..n /\ new[i] = list[i] /\ j \in 1..n /\ new[j] = list[j]
      BY <1>1, <1>2
    <2>2. \A k \in (i + 1)..(j - 1) : list[k].kind # "changed"
      BY <1>1, <1>2, <2>1
    <2> QED
      BY <1>2, <2>1, <2>2 DEF Story, n
  <1>3. ASSUME NEW i \in 1..Len(new), LastChange(new, i)
        PROVE  new[i].to = s
    <2>1. i \in 1..n /\ new[i] = list[i]
      BY <1>1, <1>3 DEF LastChange
    <2>2. \A k \in (i + 1)..n : list[k].kind # "changed"
      BY <1>1, <1>3, <2>1 DEF LastChange
    <2>3. LastChange(list, i)
      BY <1>3, <2>1, <2>2 DEF LastChange, n
    <2> QED
      BY <2>1, <2>3 DEF Story, n
  <1> QED
    BY <1>2, <1>3 DEF Story, new

\* While the state is not terminal nothing has been reported as an ending.
LEMMA NoEndingYet ==
    ASSUME NEW list, NEW s, Ending(list, s), s \notin Terminal
    PROVE  ~HasEnding(list)
BY DEF Ending, HasEnding

LEMMA NoEndingFits ==
    ASSUME NEW list, NEW s, ~HasEnding(list)
    PROVE  Ending(list, s)
BY DEF Ending, HasEnding

\* An event that is no ending adds none and loses none.
LEMMA EndingOther ==
    ASSUME NEW list \in Seq(Event), NEW e \in Event, e.kind \notin Endings
    PROVE  /\ HasEnding(With(list, e)) <=> HasEnding(list)
           /\ \A s : Ending(list, s) => Ending(With(list, e), s)
  <1> DEFINE new == With(list, e)
  <1> DEFINE n == Len(list)
  <1>1. /\ n \in Nat /\ Len(new) = n + 1 /\ new[n + 1] = e
        /\ \A i \in 1..n : new[i] = list[i]
    BY WithFacts
  <1> HIDE DEF new, n
  <1>2. \A i \in 1..Len(new) : new[i].kind \in Endings
          => i \in 1..n /\ new[i] = list[i]
    BY <1>1
  <1>3. \A i \in 1..n : i \in 1..Len(new)
    BY <1>1
  <1>4. HasEnding(new) <=> HasEnding(list)
    BY <1>1, <1>2, <1>3 DEF HasEnding, n
  <1>5. ASSUME NEW s, Ending(list, s)
        PROVE  Ending(new, s)
    BY <1>2, <1>5 DEF Ending, n
  <1> QED
    BY <1>4, <1>5 DEF new

\* The first ending, of the state the run is in.
LEMMA EndingAdded ==
    ASSUME NEW list \in Seq(Event), NEW s \in Terminal, ~HasEnding(list),
           NEW e \in Event, e.kind = EndingOf(s), e.kind \in Endings
    PROVE  Ending(With(list, e), s) /\ HasEnding(With(list, e))
  <1> DEFINE new == With(list, e)
  <1> DEFINE n == Len(list)
  <1>1. /\ n \in Nat /\ Len(new) = n + 1 /\ new[n + 1] = e
        /\ \A i \in 1..n : new[i] = list[i]
    BY WithFacts
  <1> HIDE DEF new, n
  <1>2. \A i \in 1..n : list[i].kind \notin Endings
    BY DEF HasEnding, n
  <1>3. \A i \in 1..Len(new) : new[i].kind \in Endings => i = n + 1
    BY <1>1, <1>2
  <1>4. n + 1 \in 1..Len(new)
    BY <1>1
  <1> QED
    BY <1>1, <1>3, <1>4 DEF Ending, HasEnding, new

\* An event that reports no step does not concern the steps.
LEMMA ReportedOther ==
    ASSUME NEW list \in Seq(Event), NEW own, StepsReported(list, own),
           NEW e \in Event, e.kind # "step"
    PROVE  StepsReported(With(list, e), own)
  <1> DEFINE new == With(list, e)
  <1> DEFINE n == Len(list)
  <1>1. /\ n \in Nat /\ Len(new) = n + 1 /\ new[n + 1] = e
        /\ \A i \in 1..n : new[i] = list[i]
    BY WithFacts
  <1> HIDE DEF new, n
  <1>2. \A i \in 1..Len(new) : new[i].kind = "step"
          => i \in 1..n /\ new[i] = list[i]
    BY <1>1
  <1> QED
    BY <1>2 DEF StepsReported, new, n

-----------------------------------------------------------------------------
(* The methods that change the state.                                      *)

\* A transition that reports no ending: to a state that is none, or on an
\* object that was loaded.
LEMMA TransitionKeeps ==
    ASSUME IInv, NEW t \in RunState, NEW c \in RunRecord, c.money = run.money,
           t \in Terminal => ~run.money, Transition(t, c)
    PROVE  IInv'
  <1> DEFINE e == StateChanged(t)
  <1>1. /\ run' = [c EXCEPT !.state = t] /\ events' = With(events, e)
        /\ steps' = steps /\ row' = row /\ run.state \notin Terminal
    BY DEF Transition, CanTransition, Terminal
  <1>2. /\ run.state \in RunState /\ events \in Seq(Event) /\ e \in Event
        /\ e.kind = "changed" /\ e.from = run.state /\ e.to = t
        /\ e.kind \notin Endings /\ e.kind # "step"
    BY EventTypes DEF IInv, TypeOK, RunRecord, StateChanged, Endings
  <1>3. /\ run'.state = t /\ run'.money = run.money /\ run' \in RunRecord
    BY <1>1 DEF RunRecord
  <1> HIDE DEF e
  <1>4. TypeOK'
    BY <1>1, <1>2, <1>3, WithFacts DEF IInv, TypeOK
  <1>5. Story(events', run'.state)
    BY <1>1, <1>2, <1>3, StoryChange DEF IInv
  <1>6. ~HasEnding(events')
    BY <1>1, <1>2, NoEndingYet, EndingOther DEF IInv
  <1>7. Ending(events', run'.state)
    BY <1>6, NoEndingFits
  <1>8. StepsReported(events', steps')
    BY <1>1, <1>2, ReportedOther DEF IInv
  <1> QED
    BY <1>1, <1>3, <1>4, <1>5, <1>7, <1>8 DEF IInv

\* A transition that reports its ending.
LEMMA EndKeeps ==
    ASSUME IInv, NEW t \in Terminal, NEW c \in RunRecord, NEW number \in Nat,
           End(t, c, number)
    PROVE  IInv'
  <1> DEFINE e == StateChanged(t)
  <1> DEFINE f == Plain(EndingOf(t), number)
  <1> DEFINE mid == With(events, e)
  <1>1. /\ run' = [c EXCEPT !.state = t] /\ events' = With(mid, f)
        /\ steps' = steps /\ row' = row /\ run.state \notin Terminal
    BY DEF End, CanTransition, Terminal
  <1>2. EndingOf(t) \in Endings /\ t \in RunState
    BY DEF EndingOf, Endings, Terminal, RunState
  <1>3. /\ run.state \in RunState /\ events \in Seq(Event) /\ e \in Event
        /\ e.kind = "changed" /\ e.from = run.state /\ e.to = t
        /\ e.kind \notin Endings /\ e.kind # "step"
    BY <1>2, EventTypes DEF IInv, TypeOK, RunRecord, StateChanged, Endings
  <1>4. f \in Event /\ f.kind = EndingOf(t)
    BY <1>2, EventTypes DEF IInv, Plain
  <1>5. f.kind # "changed" /\ f.kind # "step"
    BY <1>2, <1>4 DEF Endings
  <1>6. run'.state = t /\ run' \in RunRecord
    BY <1>1, <1>2 DEF RunRecord
  <1> HIDE DEF e, f
  <1>7. mid \in Seq(Event)
    BY <1>3, WithFacts
  <1>8. Story(mid, t) /\ ~HasEnding(mid) /\ StepsReported(mid, steps)
    BY <1>1, <1>3, StoryChange, NoEndingYet, EndingOther, ReportedOther DEF IInv
  <1> HIDE DEF mid
  <1>9. TypeOK'
    BY <1>1, <1>4, <1>6, <1>7, WithFacts DEF IInv, TypeOK
  <1>10. Story(events', run'.state)
    BY <1>1, <1>4, <1>5, <1>6, <1>7, <1>8, StoryOther
  <1>11. Ending(events', run'.state) /\ HasEnding(events')
    BY <1>1, <1>2, <1>4, <1>6, <1>7, <1>8, EndingAdded
  <1>12. StepsReported(events', steps')
    BY <1>1, <1>4, <1>5, <1>7, <1>8, ReportedOther
  <1> QED
    BY <1>1, <1>9, <1>10, <1>11, <1>12 DEF IInv

-----------------------------------------------------------------------------
(* The methods that leave the state alone.                                 *)

\* Only columns that no part of the invariant reads.
LEMMA ColumnsKeep ==
    ASSUME IInv, run' \in RunRecord, run'.state = run.state,
           run'.money = run.money, UNCHANGED <<steps, events, row>>
    PROVE  IInv'
BY DEF IInv, TypeOK

LEMMA RenewLeaseKeeps ==
    ASSUME IInv, NEW w, NEW fits, RenewLease(w, fits)
    PROVE  IInv'
  <1>1. /\ run' = [run EXCEPT !.lease = TRUE] /\ run \in RunRecord
        /\ UNCHANGED <<steps, events, row>>
    BY DEF RenewLease, IInv, TypeOK
  <1>2. run' \in RunRecord /\ run'.state = run.state /\ run'.money = run.money
    BY <1>1 DEF RunRecord
  <1> QED
    BY <1>1, <1>2, ColumnsKeep

LEMMA RecordCostKeeps ==
    ASSUME IInv, NEW c \in Nat, RecordCost(c)
    PROVE  IInv'
  <1>1. /\ run' = [run EXCEPT !.spent = @ + c] /\ run \in RunRecord
        /\ run.spent + c <= MaxCost /\ UNCHANGED <<steps, events, row>>
    BY DEF RecordCost, IInv, TypeOK
  <1>2. run.spent \in Nat /\ run.spent + c \in 0..MaxCost
    BY <1>1, RunAssumption DEF RunRecord
  <1>3. run' \in RunRecord /\ run'.state = run.state /\ run'.money = run.money
    BY <1>1, <1>2 DEF RunRecord
  <1> QED
    BY <1>1, <1>3, ColumnsKeep

\* One more step, with a number of its own, reported at once.
LEMMA AddStepKeeps ==
    ASSUME IInv, NEW n \in StepNumbers, AddStep(n)
    PROVE  IInv'
  <1> DEFINE new == [sequence |-> n, state |-> "queued"]
  <1> DEFINE e == Plain("step", n)
  <1>1. /\ steps' = Append(steps, new) /\ events' = With(events, e)
        /\ run' = run /\ row' = row /\ Len(steps) < MaxSteps
        /\ \A i \in DOMAIN steps : steps[i].sequence # n
    BY DEF AddStep
  <1>2. n \in Nat /\ steps \in Seq(Step) /\ events \in Seq(Event)
    BY RunAssumption DEF IInv, TypeOK
  <1>3. new \in Step /\ new.sequence = n
    BY DEF Step
  <1>4. /\ e \in Event /\ e.kind = "step" /\ e.number = n
    BY <1>2, EventTypes DEF IInv, Plain
  <1> HIDE DEF new, e
  <1>5. /\ steps' \in Seq(Step) /\ Len(steps) \in Nat
        /\ Len(steps') = Len(steps) + 1 /\ steps'[Len(steps) + 1] = new
        /\ \A i \in 1..Len(steps) :
              steps'[i] = steps[i] /\ steps[i].sequence # n
    BY <1>1, <1>2, <1>3
  <1>6. /\ events' \in Seq(Event) /\ Len(events) \in Nat
        /\ Len(events') = Len(events) + 1 /\ events'[Len(events) + 1] = e
        /\ \A i \in 1..Len(events) : events'[i] = events[i]
    BY <1>1, <1>2, <1>4, WithFacts
  <1>7. TypeOK'
    BY <1>1, <1>5, <1>6 DEF IInv, TypeOK
  <1>8. e.kind # "changed" /\ e.kind \notin Endings
    BY <1>4 DEF Endings
  <1>9. Story(events', run'.state)
    BY <1>1, <1>2, <1>4, <1>8, StoryOther DEF IInv
  <1>10. /\ Ending(events', run'.state)
         /\ run'.state \in Terminal /\ run'.money => HasEnding(events')
    BY <1>1, <1>2, <1>4, <1>8, EndingOther DEF IInv
  <1>11. StepsInOrder(steps')
    BY <1>1, <1>3, <1>5, RunAssumption DEF IInv, StepsInOrder
  <1>12. \A i \in 1..Len(events) : events[i].kind = "step"
           => /\ events[i].number # n
              /\ \E j \in 1..Len(steps) : steps[j].sequence = events[i].number
    BY <1>5 DEF IInv, StepsReported
  <1>13. ASSUME NEW i \in 1..Len(events'), NEW j \in 1..Len(events'),
                events'[i].kind = "step", events'[j].kind = "step",
                events'[i].number = events'[j].number
         PROVE  i = j
    <2>1. CASE i \in 1..Len(events) /\ j \in 1..Len(events)
      BY <1>6, <1>13, <2>1 DEF IInv, StepsReported
    <2>2. CASE i = Len(events) + 1 /\ j \in 1..Len(events)
      BY <1>4, <1>6, <1>12, <1>13, <2>2
    <2>3. CASE i \in 1..Len(events) /\ j = Len(events) + 1
      BY <1>4, <1>6, <1>12, <1>13, <2>3
    <2> QED
      BY <1>6, <2>1, <2>2, <2>3
  <1>14. ASSUME NEW i \in 1..Len(events'), events'[i].kind = "step"
         PROVE  \E j \in 1..Len(steps') : steps'[j].sequence = events'[i].number
    <2>1. CASE i \in 1..Len(events)
      <3>1. PICK j \in 1..Len(steps) : steps[j].sequence = events[i].number
        BY <1>6, <1>12, <1>14, <2>1
      <3>2. j \in 1..Len(steps') /\ steps'[j].sequence = events'[i].number
        BY <1>5, <1>6, <2>1, <3>1
      <3> QED
        BY <3>2
    <2>2. CASE i = Len(events) + 1
      <3>1. /\ Len(steps) + 1 \in 1..Len(steps')
            /\ steps'[Len(steps) + 1].sequence = events'[i].number
        BY <1>3, <1>4, <1>5, <1>6, <2>2
      <3> QED
        BY <3>1
    <2> QED
      BY <1>6, <2>1, <2>2
  <1>15. StepsReported(events', steps')
    BY <1>13, <1>14 DEF StepsReported
  <1> QED
    BY <1>1, <1>7, <1>9, <1>10, <1>11, <1>15 DEF IInv

\* A step moves and keeps its number.
LEMMA StepMovesKeeps ==
    ASSUME IInv, NEW i \in DOMAIN steps, NEW before,
           NEW after \in {"queued", "running", "succeeded", "failed"},
           StepMoves(i, before, after)
    PROVE  IInv'
  <1>1. /\ steps' = [steps EXCEPT ![i].state = after]
        /\ steps \in Seq(Step) /\ i \in 1..Len(steps)
        /\ run' = run /\ events' = events /\ row' = row
    BY DEF StepMoves, IInv, TypeOK
  <1>2. /\ steps[i] \in Step
        /\ [steps[i] EXCEPT !.state = after] \in Step
        /\ [steps[i] EXCEPT !.state = after].sequence = steps[i].sequence
    <2>1. steps[i] \in Step
      BY <1>1, ElementOfSeq
    <2> QED
      BY <2>1 DEF Step
  <1>3. /\ steps' \in Seq(Step) /\ Len(steps') = Len(steps)
        /\ \A j \in 1..Len(steps) : steps'[j] =
              IF j = i THEN [steps[i] EXCEPT !.state = after] ELSE steps[j]
    BY <1>1, <1>2, ExceptSeq
  <1>4. \A j \in 1..Len(steps) : steps'[j].sequence = steps[j].sequence
    BY <1>2, <1>3
  <1>5. StepsInOrder(steps') /\ StepsReported(events', steps')
    BY <1>1, <1>3, <1>4 DEF IInv, StepsInOrder, StepsReported
  <1> QED
    BY <1>1, <1>3, <1>5 DEF IInv, TypeOK

LEMMA StoreKeeps ==
    ASSUME IInv, Store
    PROVE  IInv'
  <1>1. /\ row' = [run |-> run, steps |-> steps]
        /\ run' = run /\ steps' = steps /\ events' = events
        /\ run \in RunRecord /\ steps \in Seq(Step)
    BY DEF Store, IInv, TypeOK
  <1>2. row' \in [run : RunRecord, steps : Seq(Step)] /\ row'.steps = steps
    BY <1>1
  <1> QED
    BY <1>1, <1>2 DEF IInv, TypeOK

\* A list of one creation tells any state, no ending and no step.
LEMMA FreshEvents ==
    ASSUME NEW s, NEW own
    PROVE  /\ <<Plain("created", 0)>> \in Seq(Event)
           /\ Story(<<Plain("created", 0)>>, s)
           /\ Ending(<<Plain("created", 0)>>, s)
           /\ StepsReported(<<Plain("created", 0)>>, own)
  <1> DEFINE e == Plain("created", 0)
  <1> DEFINE list == <<e>>
  <1>1. e \in Event /\ e.kind = "created"
    BY DEF Plain, Event
  <1> HIDE DEF e
  <1>2. /\ list \in Seq(Event) /\ Len(list) = 1 /\ list[1] = e
    BY <1>1
  <1> HIDE DEF list
  <1>3. \A i \in 1..Len(list) : /\ list[i].kind # "changed"
                                /\ list[i].kind # "step"
                                /\ list[i].kind \notin Endings
    BY <1>1, <1>2 DEF Endings
  <1>4. Story(list, s)
    BY <1>3 DEF Story, LastChange
  <1>5. Ending(list, s)
    BY <1>3 DEF Ending
  <1>6. StepsReported(list, own)
    BY <1>3 DEF StepsReported
  <1> QED
    BY <1>2, <1>4, <1>5, <1>6 DEF list, e

LEMMA LoadKeeps ==
    ASSUME IInv, Load
    PROVE  IInv'
  <1>1. /\ run' = [row.run EXCEPT !.money = FALSE] /\ steps' = row.steps
        /\ events' = <<Plain("created", 0)>> /\ row' = row
        /\ row.run \in RunRecord /\ row.steps \in Seq(Step)
        /\ StepsInOrder(row.steps)
    BY DEF Load, IInv, TypeOK
  <1>2. run' \in RunRecord /\ run'.money = FALSE
    BY <1>1 DEF RunRecord
  <1>3. events' \in Seq(Event) /\ Story(events', run'.state)
        /\ Ending(events', run'.state) /\ StepsReported(events', steps')
    BY <1>1, FreshEvents
  <1>4. TypeOK'
    BY <1>1, <1>2, <1>3 DEF IInv, TypeOK
  <1> QED
    BY <1>1, <1>2, <1>3, <1>4 DEF IInv

-----------------------------------------------------------------------------
(* The invariant.                                                          *)

LEMMA InitEstablishes == Init => IInv
  <1> SUFFICES ASSUME Init PROVE IInv
    OBVIOUS
  <1>1. /\ run \in RunRecord /\ run.state = "queued"
        /\ steps = <<>> /\ events = <<Plain("created", 0)>> /\ row = NoRow
    BY RunAssumption DEF Init, RunRecord, RunState
  <1>2. /\ events \in Seq(Event) /\ Story(events, run.state)
        /\ Ending(events, run.state) /\ StepsReported(events, steps)
    BY <1>1, FreshEvents
  <1>3. StepsInOrder(steps)
    BY <1>1, RunAssumption DEF StepsInOrder
  <1>4. TypeOK
    BY <1>1, <1>2 DEF TypeOK
  <1> QED
    BY <1>1, <1>2, <1>3, <1>4 DEF IInv, Terminal

\* The transitions of the run, one by one.
LEMMA RunMethodKeeps ==
    ASSUME IInv,
           \/ \E w \in Workers, fits \in LeaseOutcomes : Start(w, fits)
           \/ RequestApproval \/ ResumeFromApproval \/ ScheduleRetry
           \/ Requeue \/ Complete \/ Fail \/ Cancel \/ Timeout
    PROVE  IInv'
  <1>1. /\ run \in RunRecord /\ run.spent \in Nat /\ run.attempt \in Nat
    BY RunAssumption DEF IInv, TypeOK, RunRecord
  <1>2. {"running", "awaiting_approval", "retry_scheduled", "queued"}
           \subseteq RunState \ Terminal /\ Terminal \subseteq RunState
    BY DEF RunState, Terminal
  <1>3. ASSUME NEW w \in Workers, NEW fits \in LeaseOutcomes, Start(w, fits)
        PROVE  IInv'
    <2> DEFINE c == [run EXCEPT !.owner = w, !.lease = @ \/ fits]
    <2>1. (run.lease \/ fits) \in BOOLEAN
      OBVIOUS
    <2>2. c \in RunRecord /\ c.money = run.money
      BY <1>1, <2>1 DEF RunRecord
    <2>3. Transition("running", c)
      BY <1>3 DEF Start
    <2> HIDE DEF c
    <2> QED
      BY <1>2, <2>2, <2>3, TransitionKeeps
  <1>4. CASE RequestApproval
    BY <1>1, <1>2, <1>4, TransitionKeeps DEF RequestApproval
  <1>5. CASE ResumeFromApproval
    BY <1>1, <1>2, <1>5, TransitionKeeps DEF ResumeFromApproval
  <1>6. CASE ScheduleRetry
    <2> DEFINE c == [run EXCEPT !.attempt = @ + 1]
    <2>1. c \in RunRecord /\ c.money = run.money
      BY <1>1 DEF RunRecord
    <2>2. Transition("retry_scheduled", c)
      BY <1>6 DEF ScheduleRetry
    <2> HIDE DEF c
    <2> QED
      BY <1>2, <2>1, <2>2, TransitionKeeps
  <1>7. CASE Requeue
    BY <1>1, <1>2, <1>7, TransitionKeeps DEF Requeue
  <1>8. CASE Complete
    <2> DEFINE c == [run EXCEPT !.output = TRUE]
    <2>1. c \in RunRecord /\ c.money = run.money
      BY <1>1 DEF RunRecord
    <2>2. IF run.money THEN End("succeeded", c, run.spent)
                       ELSE Transition("succeeded", c)
      BY <1>8 DEF Complete
    <2>3. "succeeded" \in Terminal
      BY DEF Terminal
    <2> HIDE DEF c
    <2>4. CASE run.money
      BY <1>1, <2>1, <2>2, <2>3, <2>4, EndKeeps
    <2>5. CASE ~run.money
      BY <1>2, <2>1, <2>2, <2>3, <2>5, TransitionKeeps
    <2> QED
      BY <2>4, <2>5
  <1>9. CASE Fail
    BY <1>1, <1>9, EndKeeps DEF Fail, Terminal
  <1>10. CASE Cancel
    <2> DEFINE c == [run EXCEPT !.cancel = TRUE]
    <2>1. c \in RunRecord
      BY <1>1 DEF RunRecord
    <2>2. End("cancelled", c, 0) /\ "cancelled" \in Terminal
      BY <1>10 DEF Cancel, Terminal
    <2> HIDE DEF c
    <2> QED
      BY <2>1, <2>2, EndKeeps
  <1>11. CASE Timeout
    BY <1>1, <1>11, EndKeeps DEF Timeout, Terminal
  <1> QED
    BY <1>3, <1>4, <1>5, <1>6, <1>7, <1>8, <1>9, <1>10, <1>11

LEMMA NextKeeps == IInv /\ [Next]_vars => IInv'
  <1> SUFFICES ASSUME IInv, [Next]_vars PROVE IInv'
    OBVIOUS
  <1>1. CASE UNCHANGED vars
    BY <1>1 DEF vars, IInv, TypeOK
  <1>2. ASSUME NEW w \in Workers, NEW fits \in LeaseOutcomes,
               RenewLease(w, fits)
        PROVE  IInv'
    BY <1>2, RenewLeaseKeeps
  <1>3. ASSUME NEW n \in StepNumbers, AddStep(n)
        PROVE  IInv'
    BY <1>3, AddStepKeeps
  <1>4. ASSUME NEW i \in DOMAIN steps,
               StartStep(i) \/ CompleteStep(i) \/ FailStep(i)
        PROVE  IInv'
    BY <1>4, StepMovesKeeps DEF StartStep, CompleteStep, FailStep
  <1>5. ASSUME NEW c \in Costs, RecordCost(c)
        PROVE  IInv'
    BY <1>5, RunAssumption, RecordCostKeeps
  <1>6. ASSUME NEW t \in TokenTotals, RecordTokenUsage(t)
        PROVE  IInv'
    <2>1. (t * 10) \div 1000 \in Nat
      BY RunAssumption
    <2> QED
      BY <1>6, <2>1, RecordCostKeeps DEF RecordTokenUsage
  <1>7. CASE Store
    BY <1>7, StoreKeeps
  <1>8. CASE Load
    BY <1>8, LoadKeeps
  <1> QED
    BY <1>1, <1>2, <1>3, <1>4, <1>5, <1>6, <1>7, <1>8, RunMethodKeeps DEF Next

\* The inductive invariant of a run holds whatever its methods are called in.
THEOREM InvariantHolds == Spec => []IInv
BY InitEstablishes, NextKeeps, PTL DEF Spec

-----------------------------------------------------------------------------
(* The theorems.                                                           *)

\* The run, its steps, its events and its row keep their types.
THEOREM TypeCorrect == Spec => []TypeOK
  <1>1. IInv => TypeOK
    BY DEF IInv
  <1> QED
    BY <1>1, InvariantHolds, PTL

\* Whatever the callers do, the reported state changes form one chain that
\* ends in the present state (_transition).
THEOREM EventsReplayTheState == Spec => []EventsTellTheState
  <1>1. IInv => EventsTellTheState
    <2> SUFFICES ASSUME IInv PROVE EventsTellTheState
      OBVIOUS
    <2>1. DOMAIN events = 1..Len(events)
      BY LenProperties DEF IInv, TypeOK
    <2> QED
      BY <2>1 DEF IInv, Story, LastChange, EventsTellTheState, IsChange
  <1> QED
    BY <1>1, InvariantHolds, PTL

\* A run reports one ending, the one of its state (complete, fail, cancel,
\* timeout).
THEOREM OneEndingReported == Spec => []EndingsMatchTheState
  <1>1. IInv => EndingsMatchTheState
    <2> SUFFICES ASSUME IInv PROVE EndingsMatchTheState
      OBVIOUS
    <2>1. DOMAIN events = 1..Len(events)
      BY LenProperties DEF IInv, TypeOK
    <2> QED
      BY <2>1 DEF IInv, Ending, HasEnding, EndingsMatchTheState
  <1> QED
    BY <1>1, InvariantHolds, PTL

\* Steps stay within max_steps, with numbers of their own, and the reported
\* ones are among them (add_step).
THEOREM StepsStayAccountable == Spec => []StepsAreAccountable
  <1>1. IInv => StepsAreAccountable
    <2> SUFFICES ASSUME IInv PROVE StepsAreAccountable
      OBVIOUS
    <2>1. DOMAIN events = 1..Len(events) /\ DOMAIN steps = 1..Len(steps)
      BY LenProperties DEF IInv, TypeOK
    <2> QED
      BY <2>1 DEF IInv, StepsInOrder, StepsReported, StepsAreAccountable
  <1> QED
    BY <1>1, InvariantHolds, PTL

\* What a finished run keeps.
RunStays ==
    run.state \in Terminal
        => /\ run'.state = run.state
           /\ run'.attempt = run.attempt
           /\ run'.output = run.output
           /\ run'.cancel = run.cancel

\* What a finished step keeps.
StepsStay ==
    \A i \in DOMAIN steps : steps[i].state \in Terminal
        => i \in DOMAIN steps' /\ steps'[i] = steps[i]

\* A transition leaves no terminal state.
LEMMA NoWayOut ==
    ASSUME NEW t, CanTransition(run.state, t)
    PROVE  run.state \notin Terminal
BY DEF CanTransition, Terminal

LEMMA TransitionIsNotFromAnEnd ==
    ASSUME NEW t, NEW c, NEW n, Transition(t, c) \/ End(t, c, n)
    PROVE  RunStays /\ StepsStay
BY NoWayOut DEF Transition, End, RunStays, StepsStay

LEMMA StepMovesStay ==
    ASSUME IInv, NEW i \in DOMAIN steps, NEW before \in SUBSET {"queued", "running"},
           NEW after, StepMoves(i, before, after)
    PROVE  RunStays /\ StepsStay
  <1>1. /\ steps' = [steps EXCEPT ![i].state = after] /\ run' = run
        /\ steps[i].state \in before /\ steps \in Seq(Step)
    BY DEF StepMoves, IInv, TypeOK
  <1>2. steps[i].state \notin Terminal
    BY <1>1 DEF Terminal
  <1>3. DOMAIN steps' = DOMAIN steps
        /\ \A j \in DOMAIN steps : j # i => steps'[j] = steps[j]
    BY <1>1
  <1> QED
    BY <1>1, <1>2, <1>3 DEF RunStays, StepsStay

LEMMA StepFinality ==
    ASSUME IInv, Next, ~Load
    PROVE  RunStays /\ StepsStay
  <1>1. ASSUME NEW w \in Workers, NEW fits \in LeaseOutcomes, Start(w, fits)
        PROVE  RunStays /\ StepsStay
    BY <1>1, TransitionIsNotFromAnEnd DEF Start
  <1>2. ASSUME NEW w \in Workers, NEW fits \in LeaseOutcomes, RenewLease(w, fits)
        PROVE  RunStays /\ StepsStay
    BY <1>2 DEF RenewLease, RunStays, StepsStay, IInv, TypeOK, RunRecord
  <1>3. CASE RequestApproval \/ ResumeFromApproval \/ ScheduleRetry \/ Requeue
    BY <1>3, TransitionIsNotFromAnEnd
       DEF RequestApproval, ResumeFromApproval, ScheduleRetry, Requeue
  <1>4. CASE Complete
    BY <1>4, TransitionIsNotFromAnEnd DEF Complete
  <1>5. CASE Fail \/ Cancel \/ Timeout
    BY <1>5, TransitionIsNotFromAnEnd DEF Fail, Cancel, Timeout
  <1>6. ASSUME NEW n \in StepNumbers, AddStep(n)
        PROVE  RunStays /\ StepsStay
    <2> DEFINE new == [sequence |-> n, state |-> "queued"]
    <2>1. steps' = Append(steps, new) /\ run' = run /\ steps \in Seq(Step)
      BY <1>6 DEF AddStep, IInv, TypeOK
    <2>2. new \in Step
      BY DEF Step
    <2> HIDE DEF new
    <2>3. \A i \in 1..Len(steps) : i \in DOMAIN steps' /\ steps'[i] = steps[i]
      BY <2>1, <2>2
    <2> QED
      BY <2>1, <2>3 DEF RunStays, StepsStay
  <1>7. ASSUME NEW i \in DOMAIN steps,
               StartStep(i) \/ CompleteStep(i) \/ FailStep(i)
        PROVE  RunStays /\ StepsStay
    <2>1. {"queued"} \in SUBSET {"queued", "running"}
          /\ {"running"} \in SUBSET {"queued", "running"}
      OBVIOUS
    <2> QED
      BY <1>7, <2>1, StepMovesStay DEF StartStep, CompleteStep, FailStep
  <1>8. ASSUME NEW c, RecordCost(c)
        PROVE  RunStays /\ StepsStay
    BY <1>8 DEF RecordCost, RunStays, StepsStay, IInv, TypeOK, RunRecord
  <1>9. CASE Store
    BY <1>9 DEF Store, RunStays, StepsStay
  <1> QED
    BY <1>1, <1>2, <1>3, <1>4, <1>5, <1>6, <1>7, <1>8, <1>9
       DEF Next, RecordTokenUsage

\* No method moves a finished run or a finished step (_transition,
\* RunStep.start, complete and fail).
THEOREM FinalStatesAreFinal == Spec => EndsAreFinal
  <1>1. IInv /\ [Next]_vars =>
          [~Load =>
             /\ run.state \in Terminal
                  => /\ run'.state = run.state
                     /\ run'.attempt = run.attempt
                     /\ run'.output = run.output
                     /\ run'.cancel = run.cancel
             /\ \A i \in DOMAIN steps : steps[i].state \in Terminal
                  => i \in DOMAIN steps' /\ steps'[i] = steps[i]]_vars
    BY StepFinality DEF RunStays, StepsStay
  <1> QED
    BY <1>1, InvariantHolds, PTL DEF Spec, EndsAreFinal

-----------------------------------------------------------------------------
(* Retries.                                                                *)

Retries(list) == {i \in DOMAIN list : list[i].to = "retry_scheduled"}

\* One more event is one more retry, or none.
LEMMA RetriesOneMore ==
    ASSUME NEW list \in Seq(Event), NEW e \in Event
    PROVE  /\ Cardinality(Retries(list)) \in Nat
           /\ With(list, e) \in Seq(Event)
           /\ Cardinality(Retries(With(list, e)))
                = Cardinality(Retries(list)) + IF e.to = "retry_scheduled" THEN 1 ELSE 0
  <1> DEFINE more == With(list, e)
             n == Len(list) + 1
  <1>1. /\ more \in Seq(Event) /\ Len(list) \in Nat
        /\ DOMAIN list = 1..Len(list) /\ DOMAIN more = 1..n
        /\ more[n] = e /\ \A i \in 1..Len(list) : more[i] = list[i]
    BY DEF With
  <1>2. Retries(list) \subseteq 1..Len(list)
    BY <1>1 DEF Retries
  <1>2a. IsFiniteSet(1..Len(list))
    <2>1. 1 \in Int /\ Len(list) \in Int
      BY <1>1
    <2> QED
      BY <2>1, FS_Interval
  <1>3. IsFiniteSet(Retries(list)) /\ Cardinality(Retries(list)) \in Nat
    BY <1>2, <1>2a, FS_Subset, FS_CardinalityType
  <1> HIDE DEF more
  <1>4. n \notin Retries(list)
    BY <1>1, <1>2
  <1>5. CASE e.to = "retry_scheduled"
    <2>1. Retries(more) = Retries(list) \cup {n}
      BY <1>1, <1>5 DEF Retries
    <2>2. Cardinality(Retries(list) \cup {n}) = Cardinality(Retries(list)) + 1
      BY <1>3, <1>4, FS_AddElement
    <2>3. Cardinality(Retries(more)) = Cardinality(Retries(list)) + 1
      BY <2>1, <2>2
    <2> QED
      BY <1>1, <1>3, <1>5, <2>3 DEF more
  <1>6. CASE e.to # "retry_scheduled"
    <2>1. Retries(more) = Retries(list)
      BY <1>1, <1>6 DEF Retries
    <2>2. Cardinality(Retries(more)) = Cardinality(Retries(list))
      BY <2>1
    <2> QED
      BY <1>1, <1>3, <1>6, <2>2 DEF more
  <1> QED
    BY <1>5, <1>6

Base == IF run.money THEN 0 ELSE row.run.attempt

\* A loaded object has a row, whose attempt number it started from.
RetryInv ==
    /\ run.attempt = Base + Cardinality(Retries(events))
    /\ ~run.money => row # NoRow

LEMMA BaseIsANumber ==
    ASSUME IInv, RetryInv
    PROVE  Base \in Nat /\ run.attempt \in Nat /\ run \in RunRecord /\ events \in Seq(Event)
  <1>1. run \in RunRecord /\ run.attempt \in Nat /\ events \in Seq(Event)
    BY DEF IInv, TypeOK, RunRecord
  <1>2. ~run.money => row \in [run : RunRecord, steps : Seq(Step)]
    BY DEF IInv, TypeOK, RetryInv
  <1>3. ~run.money => row.run.attempt \in Nat
    BY <1>2 DEF RunRecord
  <1> QED
    BY <1>1, <1>3 DEF Base

\* An event that is no retry, and the same number of attempts.
LEMMA NoRetry ==
    ASSUME IInv, RetryInv, NEW e \in Event, e.to # "retry_scheduled",
           events' = With(events, e), run'.attempt = run.attempt, run'.money = run.money,
           row' = row
    PROVE  RetryInv'
  <1>1. events \in Seq(Event)
    BY BaseIsANumber
  <1>2. Cardinality(Retries(events)) \in Nat
        /\ Cardinality(Retries(events')) = Cardinality(Retries(events)) + 0
    BY <1>1, RetriesOneMore
  <1>3. Base' = Base
    BY DEF Base
  <1> QED
    BY <1>2, <1>3, BaseIsANumber DEF RetryInv

LEMMA RetryInvStep == IInv /\ RetryInv /\ [Next]_vars => RetryInv'
  <1> SUFFICES ASSUME IInv, RetryInv, [Next]_vars PROVE RetryInv'
    OBVIOUS
  <1>1. /\ Base \in Nat /\ run.attempt \in Nat /\ run \in RunRecord
        /\ events \in Seq(Event) /\ run.state \in RunState
    BY BaseIsANumber DEF RunRecord
  <1>2. None # "retry_scheduled" /\ "retry_scheduled" \in RunState
    BY RunAssumption DEF RunState
  <1>3. ASSUME NEW t \in RunState \ {"retry_scheduled"}, NEW c \in RunRecord,
               c.attempt = run.attempt, c.money = run.money, Transition(t, c)
        PROVE  RetryInv'
    <2>1. /\ run' = [c EXCEPT !.state = t] /\ events' = With(events, StateChanged(t)) /\ row' = row
      BY <1>3 DEF Transition
    <2>2. StateChanged(t) \in Event /\ StateChanged(t).to = t
      BY <1>1 DEF StateChanged, Event
    <2>3. run'.attempt = run.attempt /\ run'.money = run.money
      BY <1>3, <2>1 DEF RunRecord
    <2> QED
      BY <2>1, <2>2, <2>3, NoRetry
  <1>4. ASSUME NEW t \in Terminal, NEW c \in RunRecord, NEW number \in Nat,
               c.attempt = run.attempt, c.money = run.money, End(t, c, number)
        PROVE  RetryInv'
    <2> DEFINE e == StateChanged(t)
               f == Plain(EndingOf(t), number)
               mid == With(events, e)
    <2>1. run' = [c EXCEPT !.state = t] /\ events' = With(mid, f) /\ row' = row
      BY <1>4 DEF End
    <2>2. t \in RunState /\ t # "retry_scheduled" /\ EndingOf(t) \in Endings
      BY DEF Terminal, RunState, EndingOf, Endings
    <2>3. e \in Event /\ e.to = t /\ f \in Event /\ f.to = None
      BY <1>1, <2>2 DEF StateChanged, Plain, Event
    <2>4. run'.attempt = run.attempt /\ run'.money = run.money
      BY <1>4, <2>1 DEF RunRecord
    <2> HIDE DEF e, f
    <2>5. /\ Cardinality(Retries(events)) \in Nat /\ mid \in Seq(Event)
          /\ Cardinality(Retries(mid)) = Cardinality(Retries(events)) + 0
      BY <1>1, <2>2, <2>3, RetriesOneMore
    <2> HIDE DEF mid
    <2>6. Cardinality(Retries(events')) = Cardinality(Retries(mid)) + 0
      BY <1>2, <2>1, <2>3, <2>5, RetriesOneMore
    <2>7. Base' = Base
      BY <2>1, <2>4 DEF Base
    <2> QED
      BY <1>1, <2>1, <2>4, <2>5, <2>6, <2>7 DEF RetryInv
  <1>5. ASSUME run'.attempt = run.attempt, run'.money = run.money, UNCHANGED <<events, row>>
        PROVE  RetryInv'
    BY <1>5 DEF RetryInv, Base
  <1>6. ASSUME NEW w \in Workers, NEW fits \in LeaseOutcomes, Start(w, fits)
        PROVE  RetryInv'
    <2> DEFINE c == [run EXCEPT !.owner = w, !.lease = @ \/ fits]
    <2>1. (run.lease \/ fits) \in BOOLEAN
      OBVIOUS
    <2>2. c \in RunRecord /\ c.money = run.money /\ c.attempt = run.attempt
      BY <1>1, <2>1 DEF RunRecord
    <2>3. Transition("running", c) /\ "running" \in RunState \ {"retry_scheduled"}
      BY <1>6 DEF Start, RunState
    <2> HIDE DEF c
    <2> QED
      BY <1>3, <2>2, <2>3
  <1>7. CASE RequestApproval
    BY <1>1, <1>3, <1>7 DEF RequestApproval, RunState
  <1>8. CASE ResumeFromApproval
    BY <1>1, <1>3, <1>8 DEF ResumeFromApproval, RunState
  <1>9. CASE Requeue
    BY <1>1, <1>3, <1>9 DEF Requeue, RunState
  <1>10. CASE ScheduleRetry
    <2> DEFINE e == StateChanged("retry_scheduled")
    <2>1. /\ run' = [[run EXCEPT !.attempt = @ + 1] EXCEPT !.state = "retry_scheduled"]
          /\ events' = With(events, e) /\ row' = row
      BY <1>10 DEF ScheduleRetry, Transition
    <2>2. e \in Event /\ e.to = "retry_scheduled"
      BY <1>1, <1>2 DEF StateChanged, Event
    <2>3. run'.attempt = run.attempt + 1 /\ run'.money = run.money
      BY <1>1, <2>1 DEF RunRecord
    <2> HIDE DEF e
    <2>4. /\ Cardinality(Retries(events)) \in Nat
          /\ Cardinality(Retries(events')) = Cardinality(Retries(events)) + 1
      BY <1>1, <2>1, <2>2, RetriesOneMore
    <2>5. Base' = Base
      BY <2>1, <2>3 DEF Base
    <2> QED
      BY <1>1, <2>1, <2>3, <2>4, <2>5 DEF RetryInv
  <1>11. CASE Complete
    <2> DEFINE c == [run EXCEPT !.output = TRUE]
    <2>1. c \in RunRecord /\ c.money = run.money /\ c.attempt = run.attempt
      BY <1>1 DEF RunRecord
    <2>2. IF run.money THEN End("succeeded", c, run.spent) ELSE Transition("succeeded", c)
      BY <1>11 DEF Complete
    <2>3. /\ "succeeded" \in Terminal /\ "succeeded" \in RunState \ {"retry_scheduled"}
          /\ run.spent \in Nat
      BY <1>1, RunAssumption DEF Terminal, RunState, RunRecord
    <2> HIDE DEF c
    <2> QED
      BY <1>3, <1>4, <2>1, <2>2, <2>3
  <1>12. CASE Fail
    BY <1>1, <1>4, <1>12 DEF Fail, Terminal
  <1>13. CASE Cancel
    <2> DEFINE c == [run EXCEPT !.cancel = TRUE]
    <2>1. c \in RunRecord /\ c.money = run.money /\ c.attempt = run.attempt
      BY <1>1 DEF RunRecord
    <2>2. End("cancelled", c, 0) /\ "cancelled" \in Terminal
      BY <1>13 DEF Cancel, Terminal
    <2> HIDE DEF c
    <2> QED
      BY <1>4, <2>1, <2>2
  <1>14. CASE Timeout
    BY <1>1, <1>4, <1>14 DEF Timeout, Terminal
  <1>15. ASSUME NEW w, NEW fits, RenewLease(w, fits) PROVE RetryInv'
    BY <1>1, <1>5, <1>15 DEF RenewLease, RunRecord
  <1>16. ASSUME NEW n \in StepNumbers, AddStep(n) PROVE RetryInv'
    <2>1. Plain("step", n) \in Event /\ Plain("step", n).to = None
      BY RunAssumption DEF Plain, Event
    <2> QED
      BY <1>2, <1>16, <2>1, NoRetry DEF AddStep
  <1>17. ASSUME NEW i \in DOMAIN steps, StartStep(i) \/ CompleteStep(i) \/ FailStep(i)
         PROVE  RetryInv'
    BY <1>5, <1>17 DEF StartStep, CompleteStep, FailStep, StepMoves
  <1>18. ASSUME NEW c, RecordCost(c) PROVE RetryInv'
    BY <1>1, <1>5, <1>18 DEF RecordCost, RunRecord
  <1>19. ASSUME NEW t, RecordTokenUsage(t) PROVE RetryInv'
    BY <1>18, <1>19 DEF RecordTokenUsage
  <1>20. CASE Store
    BY <1>20 DEF Store, RetryInv, Base
  <1>21. CASE Load
    <2>1. /\ row # NoRow /\ run' = [row.run EXCEPT !.money = FALSE]
          /\ events' = <<Plain("created", 0)>> /\ row' = row
      BY <1>21 DEF Load
    <2>2. row.run \in RunRecord
      BY <2>1 DEF IInv, TypeOK
    <2>3. run'.attempt = row.run.attempt /\ run'.money = FALSE /\ row.run.attempt \in Nat
      BY <2>1, <2>2 DEF RunRecord
    <2>4. Retries(events') = {}
      BY <1>2, <2>1 DEF Retries, Plain
    <2>5. Cardinality(Retries(events')) = 0
      BY <2>4, FS_EmptySet
    <2> QED
      BY <2>1, <2>3, <2>5 DEF RetryInv, Base
  <1>22. CASE UNCHANGED vars
    BY <1>5, <1>22 DEF vars
  <1> QED
    BY <1>6, <1>7, <1>8, <1>9, <1>10, <1>11, <1>12, <1>13, <1>14, <1>15, <1>16, <1>17, <1>18,
       <1>19, <1>20, <1>21, <1>22 DEF Next

\* Over any retries, approvals, stores and loads, the attempt number is that of
\* the row plus the retries reported since (schedule_retry).
THEOREM RetriesAreCounted == Spec => []RetriesCounted
  <1>1. Init => RetryInv
    <2> SUFFICES ASSUME Init PROVE RetryInv
      OBVIOUS
    <2>1. events = <<Plain("created", 0)>> /\ run.attempt = 0 /\ run.money = TRUE
      BY DEF Init
    <2>2. Retries(events) = {}
      BY <2>1, RunAssumption DEF Retries, Plain, RunState
    <2>3. Cardinality(Retries(events)) = 0
      BY <2>2, FS_EmptySet
    <2> QED
      BY <2>1, <2>3 DEF RetryInv, Base
  <1>2. RetryInv => RetriesCounted
    BY DEF RetryInv, RetriesCounted, Base, Retries
  <1> QED
    BY <1>1, <1>2, RetryInvStep, InvariantHolds, PTL DEF Spec

-----------------------------------------------------------------------------
\* Whoever replays the reported events arrives at the run's state and attempts
\* (_transition, schedule_retry).
THEOREM RunsCanBeReplayed == Spec => []EventsTellTheRun
  BY TypeCorrect, EventsReplayTheState, RetriesAreCounted, PTL DEF EventsTellTheRun

-----------------------------------------------------------------------------
(* Outbox.                                                                 *)

\* What a flusher's run r knows when the events have been processed as often
\* as d says: what it marked or is about to mark was processed.
Handled(r, d) ==
    /\ r.pc \in {"flush", "wait"} => r.current \in Events /\ d[r.current] > 0
    /\ \A e \in r.marked : d[e] > 0

OutboxIInv ==
    /\ OutboxTypeOK
    /\ ProcessedWasDelivered
    /\ \A f \in Flushers : Handled(fl[f], delivered)

\* Counting goes up, and starts.
LEMMA CountUpGrows ==
    ASSUME NEW n \in Nat
    PROVE  CountUp(n) \in Nat /\ CountUp(n) >= n /\ CountUp(n) > 0
  <1>1. Cardinality(Flushers) \in Nat
    BY OutboxAssumption, FS_CardinalityType
  <1>2. Cap \in Nat /\ Cap > 0
    BY <1>1, OutboxAssumption DEF Cap
  <1> QED
    BY <1>2 DEF CountUp

\* A record stays one, and in order, when its UPDATE goes through.
LEMMA FlushedStep ==
    ASSUME NEW r \in Run, NEW d, r.current \in Events, Handled(r, d), d[r.current] > 0
    PROVE  Flushed(r) \in Run /\ Handled(Flushed(r), d)
  <1> DEFINE s == Flushed(r)
  <1>1. /\ s.pc = "loop" /\ s.todo = r.todo /\ s.current = Nothing
        /\ s.marked = r.marked \cup {r.current}
    BY DEF Flushed, Run
  <1>2. /\ s.todo \in SUBSET Events /\ s.marked \in SUBSET Events
        /\ s.pc \in {"idle", "loop", "flush", "wait"}
        /\ s.current \in Events \cup {Nothing}
    BY <1>1 DEF Run
  <1>3. s \in Run
    BY <1>2 DEF Flushed, Run
  <1>4. Handled(s, d)
    BY <1>1 DEF Handled
  <1> QED
    BY <1>3, <1>4

\* An idle flusher is in order.
LEMMA IdleHandled ==
    ASSUME NEW d
    PROVE  Idle \in Run /\ Handled(Idle, d)
BY DEF Idle, Run, Handled

\* The end of a transaction leaves every flusher in order.
LEMMA ReleaseStep ==
    ASSUME OutboxIInv, NEW f \in Flushers, Release(f)
    PROVE  /\ fl' \in [Flushers -> Run]
           /\ \A g \in Flushers : Handled(fl'[g], delivered)
  <1>1. PICK G \in Heirs(f) :
          fl' = [g \in Flushers |-> IF g = f THEN Idle
                                    ELSE IF g \in G THEN Flushed(fl[g])
                                    ELSE fl[g]]
    BY DEF Release
  <1>2. ASSUME NEW g \in Flushers
        PROVE  fl'[g] \in Run /\ Handled(fl'[g], delivered)
    <2>1. fl[g] \in Run /\ Handled(fl[g], delivered)
      BY DEF OutboxIInv, OutboxTypeOK
    <2>2. CASE g = f
      BY <1>1, <2>2, IdleHandled
    <2>3. CASE g # f /\ g \in G
      <3>1. fl[g].pc = "wait"
        BY <2>3 DEF Heirs, Waiting
      <3>2. fl[g].current \in Events /\ delivered[fl[g].current] > 0
        BY <2>1, <3>1 DEF Handled
      <3>3. fl'[g] = Flushed(fl[g])
        BY <1>1, <2>3
      <3> QED
        BY <2>1, <3>2, <3>3, FlushedStep
    <2>4. CASE g # f /\ g \notin G
      BY <1>1, <2>1, <2>4
    <2> QED
      BY <2>2, <2>3, <2>4
  <1> QED
    BY <1>1, <1>2

\* One flusher f changes its record and no event is forgotten.
LEMMA OneFlusherStep ==
    ASSUME OutboxIInv, NEW f \in Flushers, NEW r \in Run,
           fl' = [fl EXCEPT ![f] = r], Handled(r, delivered'),
           UNCHANGED <<pending, processed, rollbacks, faults>>,
           delivered' \in [Events -> Nat],
           \A e \in Events : delivered[e] > 0 => delivered'[e] > 0
    PROVE  OutboxIInv'
  <1>1. OutboxTypeOK'
    BY DEF OutboxIInv, OutboxTypeOK
  <1>2. ProcessedWasDelivered'
    BY DEF OutboxIInv, OutboxTypeOK, ProcessedWasDelivered
  <1>3. ASSUME NEW g \in Flushers PROVE Handled(fl'[g], delivered')
    <2>1. fl[g] \in Run /\ Handled(fl[g], delivered)
      BY DEF OutboxIInv, OutboxTypeOK
    <2>2. Handled(fl[g], delivered')
      BY <2>1 DEF Handled, Run
    <2>3. fl'[g] = IF g = f THEN r ELSE fl[g]
      BY DEF OutboxIInv, OutboxTypeOK
    <2> QED
      BY <2>2, <2>3
  <1> QED
    BY <1>1, <1>2, <1>3 DEF OutboxIInv

LEMMA InitIInv == OutboxInit => OutboxIInv
  <1> SUFFICES ASSUME OutboxInit PROVE OutboxIInv
    OBVIOUS
  <1>1. OutboxTypeOK
    BY IdleHandled, OutboxAssumption DEF OutboxInit, OutboxTypeOK
  <1>2. \A f \in Flushers : Handled(fl[f], delivered)
    BY IdleHandled DEF OutboxInit
  <1> QED
    BY <1>1, <1>2 DEF OutboxInit, OutboxIInv, ProcessedWasDelivered

LEMMA FetchStep ==
    ASSUME OutboxIInv, NEW f \in Flushers, Fetch(f)
    PROVE  OutboxIInv'
  <1>1. PICK batch \in SUBSET Unprocessed :
          fl' = [fl EXCEPT ![f] = [Idle EXCEPT !.pc = "loop", !.todo = batch]]
    BY DEF Fetch
  <1> DEFINE r == [Idle EXCEPT !.pc = "loop", !.todo = batch]
  <1>2. batch \in SUBSET Events
    BY DEF Unprocessed, OutboxIInv, OutboxTypeOK
  <1>3. r.pc = "loop" /\ r.todo = batch /\ r.current = Nothing /\ r.marked = {}
    BY DEF Idle
  <1>4. r \in Run
    BY <1>2, IdleHandled DEF Run
  <1>5. Handled(r, delivered)
    BY <1>3 DEF Handled
  <1>6. UNCHANGED <<pending, processed, delivered, rollbacks, faults>>
    BY DEF Fetch
  <1> HIDE DEF r
  <1>7. delivered' \in [Events -> Nat]
    BY <1>6 DEF OutboxIInv, OutboxTypeOK
  <1> QED
    BY <1>1, <1>4, <1>5, <1>6, <1>7, OneFlusherStep DEF r

LEMMA ProcessEventStep ==
    ASSUME OutboxIInv, NEW f \in Flushers, NEW e \in Events, ProcessEvent(f, e)
    PROVE  OutboxIInv'
  <1> DEFINE r == [fl[f] EXCEPT !.pc = "flush", !.current = e, !.todo = @ \ {e}]
  <1>1. fl[f] \in Run /\ Handled(fl[f], delivered) /\ fl \in [Flushers -> Run]
    BY DEF OutboxIInv, OutboxTypeOK
  <1>2. fl' = [fl EXCEPT ![f] = r]
    BY <1>1 DEF ProcessEvent
  <1>3. r.pc = "flush" /\ r.current = e /\ r.marked = fl[f].marked
    BY <1>1 DEF Run
  <1>4. r \in Run
    BY <1>1 DEF Run
  <1>5. delivered \in [Events -> Nat]
    BY DEF OutboxIInv, OutboxTypeOK
  <1>6. CountUp(delivered[e]) \in Nat /\ CountUp(delivered[e]) > 0
    BY <1>5, CountUpGrows
  <1>7. delivered' = [delivered EXCEPT ![e] = CountUp(delivered[e])]
    BY DEF ProcessEvent
  <1>8. /\ delivered' \in [Events -> Nat] /\ delivered'[e] > 0
        /\ \A x \in Events : delivered[x] > 0 => delivered'[x] > 0
    BY <1>5, <1>6, <1>7
  <1> HIDE DEF r
  <1>9. Handled(r, delivered')
    BY <1>1, <1>3, <1>8 DEF Handled, Run
  <1>10. UNCHANGED <<pending, processed, rollbacks, faults>>
    BY DEF ProcessEvent
  <1> QED
    BY <1>2, <1>4, <1>8, <1>9, <1>10, OneFlusherStep

LEMMA FlushMarkStep ==
    ASSUME OutboxIInv, NEW f \in Flushers, FlushMark(f)
    PROVE  OutboxIInv'
  <1>1. fl[f] \in Run /\ Handled(fl[f], delivered) /\ fl[f].pc = "flush"
    BY DEF OutboxIInv, OutboxTypeOK, FlushMark
  <1>2. fl[f].current \in Events /\ delivered[fl[f].current] > 0
    BY <1>1 DEF Handled
  <1>3. UNCHANGED <<pending, processed, delivered, rollbacks, faults>>
    BY DEF FlushMark
  <1>4. delivered' \in [Events -> Nat] /\ delivered' = delivered
    BY <1>3 DEF OutboxIInv, OutboxTypeOK
  <1>5. CASE Locked(f)
    <2> DEFINE r == [fl[f] EXCEPT !.pc = "wait"]
    <2>1. fl' = [fl EXCEPT ![f] = r]
      BY <1>5 DEF FlushMark
    <2>2. r.pc = "wait" /\ r.current = fl[f].current /\ r.marked = fl[f].marked
      BY <1>1 DEF Run
    <2>3. r \in Run
      BY <1>1 DEF Run
    <2> HIDE DEF r
    <2>4. Handled(r, delivered)
      BY <1>1, <1>2, <2>2 DEF Handled
    <2> QED
      BY <1>3, <1>4, <2>1, <2>3, <2>4, OneFlusherStep
  <1>6. CASE ~Locked(f)
    <2>1. fl' = [fl EXCEPT ![f] = Flushed(fl[f])]
      BY <1>6 DEF FlushMark
    <2>2. Flushed(fl[f]) \in Run /\ Handled(Flushed(fl[f]), delivered)
      BY <1>1, <1>2, FlushedStep
    <2> QED
      BY <1>3, <1>4, <2>1, <2>2, OneFlusherStep
  <1> QED
    BY <1>5, <1>6

\* What is marked when the batch is committed was processed.
LEMMA CommitStep ==
    ASSUME OutboxIInv, NEW f \in Flushers, Commit(f)
    PROVE  OutboxIInv'
  <1>1. fl[f] \in Run /\ Handled(fl[f], delivered)
    BY DEF OutboxIInv, OutboxTypeOK
  <1>2. UNCHANGED <<delivered, rollbacks, faults>>
    BY DEF Commit
  <1>3. /\ fl' \in [Flushers -> Run]
        /\ \A g \in Flushers : Handled(fl'[g], delivered)
    BY ReleaseStep DEF Commit
  <1>4. fl[f].marked \in SUBSET Events
    BY <1>1 DEF Run
  <1>5. OutboxTypeOK'
    BY <1>2, <1>3, <1>4 DEF Commit, OutboxIInv, OutboxTypeOK
  <1>6. ProcessedWasDelivered'
    BY <1>1, <1>2 DEF Commit, OutboxIInv, ProcessedWasDelivered, Handled
  <1> QED
    BY <1>2, <1>3, <1>5, <1>6 DEF OutboxIInv

\* A roll-back takes nothing back that was counted.
LEMMA RollBackStep ==
    ASSUME OutboxIInv, NEW f \in Flushers, RollBack(f), faults' \in 0..MaxFaults
    PROVE  OutboxIInv'
  <1>1. UNCHANGED <<pending, processed, delivered>>
    BY DEF RollBack
  <1>2. /\ fl' \in [Flushers -> Run]
        /\ \A g \in Flushers : Handled(fl'[g], delivered)
    BY ReleaseStep DEF RollBack
  <1>3. rollbacks' \in Nat
    BY CountUpGrows DEF RollBack, OutboxIInv, OutboxTypeOK
  <1>4. OutboxTypeOK'
    BY <1>1, <1>2, <1>3 DEF OutboxIInv, OutboxTypeOK
  <1> QED
    BY <1>1, <1>2, <1>4 DEF OutboxIInv, ProcessedWasDelivered

LEMMA NextIInv == OutboxIInv /\ [OutboxNext]_outboxVars => OutboxIInv'
  <1> SUFFICES ASSUME OutboxIInv, [OutboxNext]_outboxVars PROVE OutboxIInv'
    OBVIOUS
  <1>1. ASSUME NEW e \in Events, AddAuditEntry(e) PROVE OutboxIInv'
    BY <1>1 DEF AddAuditEntry, OutboxIInv, OutboxTypeOK, ProcessedWasDelivered
  <1>2. ASSUME NEW f \in Flushers, Flush(f) PROVE OutboxIInv'
    <2>1. CASE Fetch(f)
      BY <2>1, FetchStep
    <2>2. ASSUME NEW e \in Events, ProcessEvent(f, e) PROVE OutboxIInv'
      BY <2>2, ProcessEventStep
    <2>3. CASE FlushMark(f)
      BY <2>3, FlushMarkStep
    <2>4. CASE Commit(f)
      BY <2>4, CommitStep
    <2>5. CASE DeadlockVictim(f)
      <3>1. faults' \in 0..MaxFaults
        BY <2>5 DEF DeadlockVictim, OutboxIInv, OutboxTypeOK
      <3> QED
        BY <2>5, <3>1, RollBackStep DEF DeadlockVictim
    <2> QED
      BY <1>2, <2>1, <2>2, <2>3, <2>4, <2>5 DEF Flush
  <1>3. ASSUME NEW f \in Flushers, Abort(f) PROVE OutboxIInv'
    <2>1. faults' \in 0..MaxFaults
      BY <1>3, OutboxAssumption DEF Abort, OutboxIInv, OutboxTypeOK
    <2> QED
      BY <1>3, <2>1, RollBackStep DEF Abort
  <1>4. CASE UNCHANGED outboxVars
    BY <1>4 DEF outboxVars, OutboxIInv, OutboxTypeOK, ProcessedWasDelivered
  <1> QED
    BY <1>1, <1>2, <1>3, <1>4 DEF OutboxNext

\* The invariant holds in every state.
LEMMA OutboxInvariantHolds == OutboxSpec => []OutboxIInv
  BY InitIInv, NextIInv, PTL DEF OutboxSpec

\* The tables and every flusher's run keep their types (OutboxEventModel,
\* _flush_audit_outbox_async).
THEOREM OutboxTypeCorrect == OutboxSpec => []OutboxTypeOK
  <1>1. OutboxIInv => OutboxTypeOK
    BY DEF OutboxIInv
  <1> QED
    BY <1>1, OutboxInvariantHolds, PTL

\* An event is marked as processed only after it was processed, for any
\* number of overlapping flushers, roll-backs and deadlocks.
THEOREM ProcessedOnlyIfDelivered == OutboxSpec => []ProcessedWasDelivered
  <1>1. OutboxIInv => ProcessedWasDelivered
    BY DEF OutboxIInv
  <1> QED
    BY <1>1, OutboxInvariantHolds, PTL

-----------------------------------------------------------------------------
(* Duplicates.                                                             *)

Holds(r, e) == e \in r.marked \/ r.current = e

\* The flushers that may answer for one processing of e each: as long as e is
\* not committed those that have processed it in the batch they are at, and
\* afterwards all that will not process it again in that batch.
Owing(e) ==
    {f \in Flushers : IF e \in processed THEN e \notin fl[f].todo ELSE Holds(fl[f], e)}

Orderly(r) ==
    /\ r.pc = "idle" => r = Idle
    /\ r.pc = "loop" => r.current = Nothing
    /\ \A e \in r.todo : ~Holds(r, e)

\* Every processing of e is one of a batch rolled back, or a flusher owes it.
Owed == rollbacks < Cap => \A e \in Events : delivered[e] <= rollbacks + Cardinality(Owing(e))

CountInv ==
    /\ pending \cap processed = {}
    /\ \A f \in Flushers : Orderly(fl[f])
    /\ Owed

\* Flushers are finitely many, and so are those that owe.
LEMMA OwingSize ==
    ASSUME NEW S \in SUBSET Flushers, NEW T \in SUBSET S
    PROVE  /\ IsFiniteSet(S) /\ Cardinality(S) \in Nat /\ Cardinality(T) \in Nat
           /\ Cardinality(T) <= Cardinality(S)
           /\ Cardinality(S) <= Cardinality(Flushers)
  <1>1. IsFiniteSet(S) /\ Cardinality(S) <= Cardinality(Flushers)
    BY OutboxAssumption, FS_Subset
  <1>2. IsFiniteSet(T) /\ Cardinality(T) <= Cardinality(S)
    BY <1>1, FS_Subset
  <1> QED
    BY <1>1, <1>2, FS_CardinalityType

\* A step after which nobody owes less, and nothing was processed.
LEMMA OwingGrows ==
    ASSUME OutboxIInv, Owed, UNCHANGED <<delivered, rollbacks>>,
           \A e \in Events : Owing(e) \subseteq Owing(e)'
    PROVE  Owed'
  <1> SUFFICES ASSUME rollbacks < Cap, NEW e \in Events
               PROVE  delivered[e] <= rollbacks + Cardinality(Owing(e)')
    BY DEF Owed
  <1>1. Owing(e)' \in SUBSET Flushers /\ Owing(e) \in SUBSET Owing(e)'
    BY DEF Owing
  <1> DEFINE before == Owing(e)
             after == Owing(e)'
  <1>2. delivered[e] <= rollbacks + Cardinality(before)
    BY DEF Owed
  <1>3. delivered[e] \in Nat /\ rollbacks \in Nat
    BY DEF OutboxIInv, OutboxTypeOK
  <1>4. after \in SUBSET Flushers /\ before \in SUBSET after
    BY <1>1
  <1> HIDE DEF before, after
  <1>5. /\ Cardinality(after) \in Nat /\ Cardinality(before) \in Nat
        /\ Cardinality(before) <= Cardinality(after)
    BY <1>4, OwingSize
  <1>6. delivered[e] <= rollbacks + Cardinality(after)
    BY <1>2, <1>3, <1>5
  <1> QED
    BY <1>6 DEF after

\* One flusher goes on in its batch; whether it holds or is to process an event
\* stays as it is.
LEMMA CountOneFlusher ==
    ASSUME OutboxIInv, CountInv, NEW f \in Flushers, NEW r,
           fl' = [fl EXCEPT ![f] = r], Orderly(r),
           UNCHANGED <<pending, processed, delivered, rollbacks>>,
           \A e \in Events : /\ e \in r.todo => e \in fl[f].todo \/ e \notin processed
                             /\ Holds(fl[f], e) => Holds(r, e)
    PROVE  CountInv'
  <1>1. \A g \in Flushers : fl'[g] = IF g = f THEN r ELSE fl[g]
    BY DEF OutboxIInv, OutboxTypeOK
  <1>2. \A g \in Flushers : Orderly(fl'[g])
    BY <1>1 DEF CountInv
  <1>3. \A e \in Events : Owing(e) \subseteq Owing(e)'
    BY <1>1 DEF Owing
  <1> QED
    BY <1>2, <1>3, OwingGrows DEF CountInv

LEMMA CountFetch ==
    ASSUME OutboxIInv, CountInv, NEW f \in Flushers, Fetch(f)
    PROVE  CountInv'
  <1>1. PICK batch \in SUBSET pending :
          fl' = [fl EXCEPT ![f] = [Idle EXCEPT !.pc = "loop", !.todo = batch]]
    BY DEF Fetch, Unprocessed
  <1> DEFINE r == [Idle EXCEPT !.pc = "loop", !.todo = batch]
  <1>2. fl[f] = Idle /\ \A e \in Events : ~Holds(fl[f], e)
    <2>1. fl[f] = Idle
      BY DEF Fetch, CountInv, Orderly
    <2>2. Idle.marked = {} /\ Idle.current = Nothing
      BY DEF Idle
    <2>3. \A e \in Events : ~Holds(fl[f], e)
      BY <2>1, <2>2, OutboxAssumption DEF Holds
    <2> QED
      BY <2>1, <2>3
  <1>3. r.pc = "loop" /\ r.todo = batch /\ r.current = Nothing /\ r.marked = {}
    BY DEF Idle
  <1>4. batch \cap processed = {} /\ batch \subseteq Events
    BY DEF CountInv, OutboxIInv, OutboxTypeOK
  <1> HIDE DEF r
  <1>5. Orderly(r)
    BY <1>3, <1>4, OutboxAssumption DEF Orderly, Holds
  <1>6. \A e \in Events : /\ e \in r.todo => e \notin processed
                          /\ Holds(fl[f], e) => Holds(r, e)
    BY <1>2, <1>3, <1>4
  <1> QED
    BY <1>1, <1>5, <1>6, CountOneFlusher DEF Fetch, r

\* Whoever processes an event owes it then, and did not before.
LEMMA CountProcess ==
    ASSUME OutboxIInv, CountInv, NEW f \in Flushers, NEW x \in Events, ProcessEvent(f, x)
    PROVE  CountInv'
  <1> DEFINE r == [fl[f] EXCEPT !.pc = "flush", !.current = x, !.todo = @ \ {x}]
  <1>1. /\ fl[f] \in Run /\ fl \in [Flushers -> Run] /\ rollbacks \in Nat
        /\ delivered \in [Events -> Nat] /\ Orderly(fl[f])
    BY DEF OutboxIInv, OutboxTypeOK, CountInv
  <1>2. /\ fl[f].pc = "loop" /\ x \in fl[f].todo /\ fl' = [fl EXCEPT ![f] = r]
        /\ delivered' = [delivered EXCEPT ![x] = CountUp(@)]
        /\ UNCHANGED <<pending, processed, rollbacks>>
    BY <1>1 DEF ProcessEvent
  <1>3. /\ r.pc = "flush" /\ r.current = x /\ r.todo = fl[f].todo \ {x}
        /\ r.marked = fl[f].marked
    BY <1>1 DEF Run
  <1>4. fl[f].current = Nothing /\ \A e \in fl[f].todo : e \notin fl[f].marked
    BY <1>1, <1>2 DEF Orderly, Holds
  <1> HIDE DEF r
  <1>5. \A g \in Flushers : fl'[g] = IF g = f THEN r ELSE fl[g]
    BY <1>1, <1>2
  <1>6. Orderly(r)
    BY <1>3, <1>4 DEF Orderly, Holds
  <1>7. Owing(x)' = Owing(x) \cup {f} /\ f \notin Owing(x)
    BY <1>2, <1>3, <1>4, <1>5, OutboxAssumption DEF Owing, Holds
  <1>8. \A e \in Events \ {x} : Owing(e)' = Owing(e)
    BY <1>2, <1>3, <1>4, <1>5, OutboxAssumption DEF Owing, Holds
  <1>9. ASSUME rollbacks < Cap, NEW e \in Events
        PROVE  delivered'[e] <= rollbacks + Cardinality(Owing(e)')
    <2>1. delivered[e] <= rollbacks + Cardinality(Owing(e)) /\ delivered[e] \in Nat
      BY <1>1, <1>9 DEF CountInv, Owed
    <2>2. CASE e = x
      <3> DEFINE before == Owing(x)
      <3>1. IsFiniteSet(before) /\ Cardinality(before) \in Nat
        BY OwingSize DEF Owing
      <3>2. Cardinality(before \cup {f}) = Cardinality(before) + 1
        BY <1>7, <3>1, FS_AddElement
      <3>3. Cardinality(Owing(x)') = Cardinality(before) + 1
        BY <1>7, <3>2
      <3>4. delivered[x] <= rollbacks + Cardinality(before) /\ delivered[x] \in Nat
        BY <2>1, <2>2
      <3> HIDE DEF before
      <3>5. Cap \in Nat
        BY OutboxAssumption, FS_CardinalityType DEF Cap
      <3>6. delivered'[x] <= delivered[x] + 1
        BY <1>1, <1>2, <3>5 DEF CountUp
      <3>7. delivered'[x] \in Nat
        BY <1>1, <1>2, CountUpGrows
      <3>8. delivered'[x] <= rollbacks + (Cardinality(before) + 1)
        BY <1>1, <3>1, <3>4, <3>6, <3>7
      <3> QED
        BY <2>2, <3>3, <3>8
    <2>3. CASE e # x
      <3>1. delivered'[e] = delivered[e] /\ Owing(e)' = Owing(e)
        BY <1>1, <1>2, <1>8, <2>3
      <3> QED
        BY <2>1, <3>1
    <2> QED
      BY <2>2, <2>3
  <1>10. Owed'
    BY <1>2, <1>9 DEF Owed
  <1>11. \A g \in Flushers : Orderly(fl'[g])
    BY <1>5, <1>6 DEF CountInv
  <1> QED
    BY <1>2, <1>10, <1>11 DEF CountInv

LEMMA CountFlushMark ==
    ASSUME OutboxIInv, CountInv, NEW f \in Flushers, FlushMark(f)
    PROVE  CountInv'
  <1>1. fl[f] \in Run /\ fl[f].pc = "flush" /\ Orderly(fl[f])
        /\ UNCHANGED <<pending, processed, delivered, rollbacks>>
    BY DEF OutboxIInv, OutboxTypeOK, CountInv, FlushMark
  <1> DEFINE r == IF Locked(f) THEN [fl[f] EXCEPT !.pc = "wait"] ELSE Flushed(fl[f])
  <1>2. fl' = [fl EXCEPT ![f] = r]
    BY DEF FlushMark
  <1>3. /\ r.todo = fl[f].todo /\ r.pc \in {"wait", "loop"} /\ (r.pc = "loop" => r.current = Nothing)
        /\ \/ r.current = fl[f].current /\ r.marked = fl[f].marked
           \/ r.current = Nothing /\ r.marked = fl[f].marked \cup {fl[f].current}
    BY <1>1 DEF Flushed, Run
  <1> HIDE DEF r
  <1>4. \A e \in Events : Holds(r, e) <=> Holds(fl[f], e)
    BY <1>3, OutboxAssumption DEF Holds
  <1>5. r.todo \subseteq Events
    BY <1>1, <1>3 DEF Run
  <1>6. Orderly(r)
    BY <1>1, <1>3, <1>4, <1>5 DEF Orderly
  <1> QED
    BY <1>1, <1>2, <1>3, <1>4, <1>6, CountOneFlusher

\* At the end of a transaction the others go on with what they hold.
LEMMA ReleaseKeeps ==
    ASSUME OutboxIInv, CountInv, NEW f \in Flushers, Release(f)
    PROVE  /\ fl'[f] = Idle /\ \A g \in Flushers : Orderly(fl'[g])
           /\ \A g \in Flushers \ {f} :
                 fl'[g].todo = fl[g].todo /\ \A e \in Events : Holds(fl[g], e) => Holds(fl'[g], e)
  <1>1. PICK G \in Heirs(f) :
          fl' = [g \in Flushers |-> IF g = f THEN Idle
                                    ELSE IF g \in G THEN Flushed(fl[g]) ELSE fl[g]]
    BY DEF Release
  <1>2. fl'[f] = Idle /\ Orderly(Idle)
    BY <1>1 DEF Orderly, Idle
  <1>3. ASSUME NEW g \in Flushers \ {f}
        PROVE  /\ Orderly(fl'[g]) /\ fl'[g].todo = fl[g].todo
               /\ \A e \in Events : Holds(fl[g], e) => Holds(fl'[g], e)
    <2>1. fl[g] \in Run /\ Orderly(fl[g])
      BY DEF OutboxIInv, OutboxTypeOK, CountInv
    <2>2. CASE g \in G
      <3> DEFINE r == fl'[g]
      <3>1. r = Flushed(fl[g])
        BY <1>1, <2>2
      <3>2. /\ r.pc = "loop" /\ r.todo = fl[g].todo /\ r.current = Nothing
            /\ r.marked = fl[g].marked \cup {fl[g].current}
        BY <2>1, <3>1 DEF Flushed, Run
      <3>3. r.todo \subseteq Events
        BY <2>1, <3>2 DEF Run
      <3> HIDE DEF r
      <3>4. \A e \in Events : Holds(r, e) <=> Holds(fl[g], e)
        BY <3>2, OutboxAssumption DEF Holds
      <3>5. Orderly(r)
        BY <2>1, <3>2, <3>3, <3>4 DEF Orderly
      <3> QED
        BY <3>2, <3>4, <3>5 DEF r
    <2>3. CASE g \notin G
      BY <1>1, <2>1, <2>3
    <2> QED
      BY <2>2, <2>3
  <1> QED
    BY <1>2, <1>3

\* A batch is committed when nothing of it is left: from then on the flusher
\* answers for the events it marked, and for all others.
LEMMA CountCommit ==
    ASSUME OutboxIInv, CountInv, NEW f \in Flushers, Commit(f)
    PROVE  CountInv'
  <1>1. /\ fl[f].pc = "loop" /\ fl[f].todo = {} /\ Orderly(fl[f])
        /\ pending' = pending \ fl[f].marked /\ processed' = processed \cup fl[f].marked
        /\ UNCHANGED <<delivered, rollbacks>> /\ Release(f)
    BY DEF Commit, BatchDone, CountInv
  <1>2. /\ fl'[f] = Idle /\ \A g \in Flushers : Orderly(fl'[g])
        /\ \A g \in Flushers \ {f} :
              fl'[g].todo = fl[g].todo /\ \A e \in Events : Holds(fl[g], e) => Holds(fl'[g], e)
    BY <1>1, ReleaseKeeps
  <1>3. fl'[f].todo = {} /\ fl[f].current = Nothing
    BY <1>1, <1>2 DEF Idle, Orderly
  <1>4. ASSUME NEW e \in Events, NEW g \in Owing(e) PROVE g \in Owing(e)'
    <2>1. CASE e \in processed
      BY <1>1, <1>2, <1>3, <1>4, <2>1 DEF Owing
    <2>2. CASE e \notin processed /\ e \in processed'
      <3>1. g \in Flushers /\ Holds(fl[g], e) /\ Orderly(fl[g])
        BY <1>4, <2>2 DEF Owing, CountInv
      <3>2. e \notin fl[g].todo
        BY <3>1 DEF Orderly
      <3> QED
        BY <1>2, <1>3, <2>2, <3>1, <3>2 DEF Owing
    <2>3. CASE e \notin processed'
      <3>1. e \notin processed /\ e \notin fl[f].marked
        BY <1>1, <2>3
      <3>2. g \in Flushers /\ Holds(fl[g], e)
        BY <1>4, <3>1 DEF Owing
      <3>3. g # f
        BY <1>3, <3>1, <3>2, OutboxAssumption DEF Holds
      <3> QED
        BY <1>2, <2>3, <3>2, <3>3 DEF Owing
    <2> QED
      BY <2>1, <2>2, <2>3
  <1>5. Owed'
    BY <1>1, <1>4, OwingGrows DEF CountInv
  <1>6. pending' \cap processed' = {}
    BY <1>1 DEF CountInv
  <1> QED
    BY <1>2, <1>5, <1>6 DEF CountInv

\* A batch rolled back takes one processing of each event with it, at most.
LEMMA CountRollBack ==
    ASSUME OutboxIInv, CountInv, NEW f \in Flushers, RollBack(f)
    PROVE  CountInv'
  <1>1. /\ rollbacks' = CountUp(rollbacks) /\ UNCHANGED <<pending, processed, delivered>>
        /\ Release(f) /\ rollbacks \in Nat /\ Cap \in Nat
    BY OutboxAssumption, FS_CardinalityType DEF RollBack, OutboxIInv, OutboxTypeOK, Cap
  <1>2. /\ fl'[f] = Idle /\ \A g \in Flushers : Orderly(fl'[g])
        /\ \A g \in Flushers \ {f} :
              fl'[g].todo = fl[g].todo /\ \A e \in Events : Holds(fl[g], e) => Holds(fl'[g], e)
    BY <1>1, ReleaseKeeps
  <1>3. ASSUME rollbacks' < Cap, NEW e \in Events
        PROVE  delivered[e] <= rollbacks' + Cardinality(Owing(e)')
    <2> DEFINE before == Owing(e)
               after == Owing(e)'
    <2>1. rollbacks < Cap /\ rollbacks' = rollbacks + 1
      BY <1>1, <1>3 DEF CountUp
    <2>2. delivered[e] <= rollbacks + Cardinality(before) /\ delivered[e] \in Nat
      BY <2>1 DEF CountInv, Owed, OutboxIInv, OutboxTypeOK
    <2>3. before \ {f} \subseteq after
      BY <1>1, <1>2 DEF Owing
    <2>4. before \in SUBSET Flushers /\ after \in SUBSET Flushers
      BY DEF Owing
    <2> HIDE DEF before, after
    <2>5. IsFiniteSet(before) /\ Cardinality(before) \in Nat /\ Cardinality(after) \in Nat
      BY <2>4, OwingSize
    <2>6. Cardinality(before \ {f}) = IF f \in before THEN Cardinality(before) - 1
                                      ELSE Cardinality(before)
      BY <2>5, FS_RemoveElement
    <2>7. Cardinality(before \ {f}) <= Cardinality(after)
      BY <2>3, <2>4, OwingSize
    <2>8. delivered[e] <= (rollbacks + 1) + Cardinality(after)
      BY <1>1, <2>2, <2>5, <2>6, <2>7
    <2> QED
      BY <2>1, <2>8 DEF after
  <1>4. Owed'
    BY <1>1, <1>3 DEF Owed
  <1> QED
    BY <1>1, <1>2, <1>4 DEF CountInv

LEMMA CountInvStep == OutboxIInv /\ CountInv /\ [OutboxNext]_outboxVars => CountInv'
  <1> SUFFICES ASSUME OutboxIInv, CountInv, [OutboxNext]_outboxVars PROVE CountInv'
    OBVIOUS
  <1>1. ASSUME NEW e \in Events, AddAuditEntry(e) PROVE CountInv'
    <2>1. /\ e \notin processed /\ pending' = pending \cup {e}
          /\ UNCHANGED <<processed, fl, delivered, rollbacks>>
      BY <1>1 DEF AddAuditEntry
    <2>2. Owed'
      BY <2>1, OwingGrows DEF CountInv, Owing
    <2> QED
      BY <2>1, <2>2 DEF CountInv
  <1>2. ASSUME NEW f \in Flushers, Flush(f) PROVE CountInv'
    BY <1>2, CountFetch, CountProcess, CountFlushMark, CountCommit, CountRollBack
       DEF Flush, DeadlockVictim
  <1>3. ASSUME NEW f \in Flushers, Abort(f) PROVE CountInv'
    BY <1>3, CountRollBack DEF Abort
  <1>4. CASE UNCHANGED outboxVars
    BY <1>4 DEF outboxVars, CountInv, Owed, Owing
  <1> QED
    BY <1>1, <1>2, <1>3, <1>4 DEF OutboxNext

\* For any number of flushers and any batches: an event is processed at most once
\* for each flusher and each batch rolled back (_flush_audit_outbox_async).
THEOREM DuplicatesAreBounded == OutboxSpec => []DuplicatesBounded
  <1>1. OutboxInit => CountInv
    <2> SUFFICES ASSUME OutboxInit PROVE CountInv
      OBVIOUS
    <2>1. \A e \in Events : Cardinality(Owing(e)) \in Nat
      BY OwingSize DEF Owing
    <2>2. Owed
      BY <2>1 DEF OutboxInit, Owed
    <2>3. Orderly(Idle)
      BY DEF Orderly, Idle
    <2> QED
      BY <2>2, <2>3 DEF OutboxInit, CountInv
  <1>2. OutboxIInv /\ CountInv => DuplicatesBounded
    <2> SUFFICES ASSUME OutboxIInv, CountInv, rollbacks < Cap - Cardinality(Flushers), NEW e \in Events
                 PROVE  delivered[e] <= Cardinality(Flushers) + rollbacks
      BY DEF DuplicatesBounded
    <2>1. Cardinality(Flushers) \in Nat /\ Cap \in Nat
      BY OutboxAssumption, FS_CardinalityType DEF Cap
    <2>2. rollbacks \in Nat /\ delivered[e] \in Nat
      BY DEF OutboxIInv, OutboxTypeOK
    <2>3. rollbacks < Cap
      BY <2>1, <2>2
    <2>4. delivered[e] <= rollbacks + Cardinality(Owing(e))
      BY <2>3 DEF CountInv, Owed
    <2>5. Cardinality(Owing(e)) \in Nat /\ Cardinality(Owing(e)) <= Cardinality(Flushers)
      BY OwingSize DEF Owing
    <2> QED
      BY <2>1, <2>2, <2>4, <2>5
  <1> QED
    BY <1>1, <1>2, CountInvStep, OutboxInvariantHolds, PTL DEF OutboxSpec

-----------------------------------------------------------------------------
\* Processing and marking stay together (_flush_audit_outbox_async).
THEOREM DeliveryStaysCounted == OutboxSpec => []DeliveryCounted
  BY OutboxTypeCorrect, ProcessedOnlyIfDelivered, DuplicatesAreBounded, PTL DEF DeliveryCounted
=============================================================================
