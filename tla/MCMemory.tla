------------------------------ MODULE MCMemory ------------------------------
(* Three requests on the durable memory, or three on one session: the        *)
(* behaviour takes one of the two, chosen at the start.  In the first the    *)
(* clock ticks; in the second a session that ends writes durable memory.     *)
EXTENDS SessionMemory, TLC

VARIABLE part

vars == <<recordVars, sessionVars, part>>

W(n) == [i \in 1..n |-> "word"]

\* Blank; a sentence after which the text is cut, and a secret right behind it;
\* one whose sentence ends too early for that, so that the cut frees an address
\* from the word before it; an address and the digits glued to it.
MCTexts ==
    {<<"space", "space">>,
     W(6) \o <<"stop", "space", "ssn", "stop">> \o W(2) \o <<"space", "space", "word">>,
     <<"word", "stop", "space">> \o W(7) \o <<"ip_address">> \o W(9),
     <<"email", "control", "phone", "space", "api_key">>}

FewRecords == [days |-> 1, records |-> 2, storage |-> None]
LittleStorage == [days |-> 2, records |-> None, storage |-> 1]

MCPolicies == {FewRecords, LittleStorage}

\* A record that was there, and when it expires.
First(scope, expires) ==
    [by |-> "first", part |-> [start |-> 0, end |-> 3], scope |-> scope, size |-> 3,
     clear |-> FALSE, label |-> "public", expires |-> expires]

NoPolicies == [s \in MemoryScope |-> None]

RecordInit ==
    /\ part = "records"
    /\ records = {First("session", 1), First("durable", Never)}
    /\ policies \in {NoPolicies, [NoPolicies EXCEPT !["session"] = FewRecords],
                     [NoPolicies EXCEPT !["durable"] = LittleStorage]}
    /\ history = <<>> /\ meta = None /\ summary = None

SessionInit ==
    /\ part = "session"
    /\ policies \in {NoPolicies, [NoPolicies EXCEPT !["durable"] =
                                    [days |-> 1, records |-> 1, storage |-> None]]}
    /\ records \in {{First("durable", Never)}, {First("session", 7)}}
    /\ summary \in {None, 1}
    /\ \/ history = <<>> /\ meta = None
       \/ history = <<"first">> /\ meta = 1 + (IF summary = None THEN 0 ELSE summary)

Init ==
    /\ RecordInit \/ SessionInit
    /\ now = 0
    /\ outbox = {}
    /\ req = [r \in Requests |-> RecordFields]
    /\ ses = [r \in Requests |-> SessionFields]
    /\ log = history
    /\ lost = {} /\ raced = FALSE /\ faults = 0

\* Two of the requests are enough for the durable memory.
Taken(r) == req[r].pc = "new" => Cardinality({q \in Requests : req[q].pc # "new"}) < 2

Next ==
    \/ /\ part = "records"
       /\ Tick \/ \E r \in Requests : Taken(r) /\ (RecordRequest(r) \/ WritePipeline(r))
       /\ UNCHANGED <<sessionVars, part>>
    \/ /\ part = "session"
       /\ \/ \E r \in Requests : SessionRequest(r)
          \/ KeyExpires
       /\ UNCHANGED part
    \/ /\ part = "session"
       /\ \E r \in Requests : WritePipeline(r)
       /\ UNCHANGED <<sessionVars, part>>

Spec == Init /\ [][Next]_vars

Symmetry == Permutations(Requests)
=============================================================================
