---------------------------- MODULE MCRunControl ----------------------------
(* Two calls of any kind, on one stored run, on those they create and on     *)
(* runs that do not exist; or a worker that executes a run and two calls of  *)
(* the services on it, without a crash.  The behaviour takes one of the two  *)
(* at the start.                                                             *)
EXTENDS RunControl, FiniteSets

CONSTANTS t1, t2, k1

VARIABLE part

mcVars == <<vars, part>>

Queued(kind) == [kind |-> kind, state |-> "queued"]

MCSteps ==
    {<<Queued("tool_call"), Queued("other")>>, <<Queued("approval_request")>>}

MCInit ==
    /\ Init
    /\ table[0] # None => table[0].tenant = t1
    /\ part \in {"any", "one"}
    /\ part = "one" => world = "executor" /\ table[0] # None /\ Len(table[0].steps) = 2

Begun == {c \in Callers : call[c].pc # "new"}

\* The calls are alike: a call begins after those with smaller numbers.
MCRequest(c) ==
    /\ \A d \in Callers : d < c => d \in Begun
    /\ \/ /\ part = "any" /\ Cardinality(Begun) < 2
          /\ Request(c)
       \/ part = "one" /\ (Service(c, 0) \/ CancelRun(c, t1, 0))

\* The instance of three calls leaves out what only reads.
Limits(c) ==
    part = "one" =>
        /\ call'[c].kind \notin {"budget", "timeout"} /\ call'[c].cost <= 1
        /\ call'[c].kind = "execute" <=> c = 1

MCNext ==
    /\ \/ \E c \in Callers : MCRequest(c) /\ Limits(c)
       \/ \E c \in Callers : Proceed(c)
       \/ part = "any" /\ \E c \in Callers : Crash(c)
       \/ FlagExpires
    /\ UNCHANGED part

\* An awaited call of the database, of Redis or of a tool returns.
MCSpec == MCInit /\ [][MCNext]_mcVars /\ \A c \in Callers : WF_mcVars(Proceed(c) /\ UNCHANGED part)
=============================================================================
