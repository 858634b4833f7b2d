----------------------------- MODULE AgentsProofs -----------------------------
(***************************************************************************)
(* Theorems about Agents, for any number of requests, agents, names and    *)
(* versions: its type invariant, that what overlapping requests leave in   *)
(* the two tables is coherent, that a publication nothing overtook takes   *)
(* effect, and that what is published is never rewritten.                  *)
(*                                                                         *)
(* The inductive invariant says what an open session still knows: what it  *)
(* loaded is what the tables hold as long as no other commit came between  *)
(* (req.changed), and the statuses it is about to write follow from that.  *)
(***************************************************************************)
EXTENDS Agents, FiniteSetTheorems, TLAPS

-----------------------------------------------------------------------------
Terminal == {"ok", "refused", "failed"}

\* A request under way that loaded MainAgent to change its versions.
OnVersions(r) == req[r].kind \in {"update", "publish"} /\ req[r].pc \notin Terminal

\* What the session has loaded is what the tables hold, if nothing overtook it.
LoadedOf(r) ==
    OnVersions(r) /\ ~req[r].changed => req[r].entity = versions

\* What a request knows of the agent it is about.
AgentKnown(r) ==
    /\ req[r].pc \notin {"new"} \cup Terminal => req[r].agent # None
    /\ req[r].kind \in {"create", "rename", "describe"} => req[r].name \in Names
    /\ req[r].kind = "create" => req[r].agent # MainAgent
    /\ req[r].kind \in {"update", "publish"} => req[r].version \in Versions
    /\ req[r].pc = "new" => req[r].kind = None
    /\ req[r].pc \in {"archive", "publish"} => req[r].kind = "publish"

\* Statuses are written only at the end, and only those the request is about.
StatusKnown(r) ==
    /\ req[r].pc \in {"new", "name", "select", "archive", "publish"} => req[r].status = NoRows
    /\ req[r].kind = "update" =>
         \A w \in Versions : req[r].status[w] \in (IF w = req[r].version THEN {None, "draft"} ELSE {None})
    /\ req[r].kind = "publish" =>
         \A w \in Versions : req[r].status[w] \in
                               {None, IF w = req[r].version THEN "published" ELSE "archived"}

UpdatesDraft(r) ==
    req[r].kind = "update" => req[r].entity[req[r].version].status = "draft"

\* A publication that nothing overtook found the published version, ...
FoundPublished(r) ==
    (req[r].kind = "publish" /\ req[r].pc \in {"publish", "commit"} /\ ~req[r].changed)
        => Published = (IF req[r].found = None THEN {} ELSE {req[r].found})

\* ... and is about to put its own in its place.
AboutToReplace(r) ==
    (req[r].kind = "publish" /\ req[r].pc = "commit" /\ ~req[r].changed)
        => /\ versions[req[r].version] # None
           /\ req[r].status[req[r].version] = Dirty("published", versions[req[r].version].status)
           /\ \A w \in Versions \ {req[r].version} :
                 req[r].status[w] = IF w = req[r].found THEN "archived" ELSE None

RequestInv(r) ==
    /\ LoadedOf(r)
    /\ AgentKnown(r)
    /\ StatusKnown(r)
    /\ UpdatesDraft(r)
    /\ FoundPublished(r)
    /\ AboutToReplace(r)

AgentsInv ==
    /\ TypeOK
    /\ \A r \in Requests : RequestInv(r)
    /\ SideBySide
    /\ NamesDiffer
    /\ DeletedForGood

\* The publications that something overtook.
Late == {r \in Requests : req[r].kind = "publish" /\ req[r].pc = "ok" /\ req[r].changed}

LEMMA LateFinite ==
    /\ IsFiniteSet(Late) /\ Cardinality(Late) \in Nat
    /\ IsFiniteSet(Late') /\ Cardinality(Late') \in Nat
  <1>1. Late \subseteq Requests /\ Late' \subseteq Requests
    BY DEF Late
  <1> QED
    BY <1>1, AgentsAssumption, FS_Subset, FS_CardinalityType

LEMMA PublishedFinite ==
    /\ IsFiniteSet(Published) /\ Cardinality(Published) \in Nat
    /\ IsFiniteSet(Published') /\ Cardinality(Published') \in Nat
  <1>1. Published \subseteq Versions /\ Published' \subseteq Versions
    BY DEF Published, WithStatus
  <1> QED
    BY <1>1, AgentsAssumption, FS_Subset, FS_CardinalityType

LEMMA AgentsInvInit == Init => AgentsInv
  <1> SUFFICES ASSUME Init PROVE AgentsInv
    OBVIOUS
  <1>1. /\ agents \in [Agents -> Names \cup {None}] /\ versions \in [Versions -> Row]
        /\ NoRows \in [Versions -> Row]
        /\ NoRows \in [Versions -> AgentStatus \cup {None}]
    BY AgentsAssumption DEF Init, Row, Version, AgentStatus, Text, NoRows
  <1>2. req \in [Requests -> Request]
    BY <1>1 DEF Init, Request, Kind
  <1>3. \A r \in Requests : req[r].pc = "new" /\ req[r].kind = None /\ req[r].status = NoRows
    BY DEF Init
  <1>4. \A r \in Requests : RequestInv(r)
    BY <1>3, AgentsAssumption DEF RequestInv, LoadedOf, OnVersions, AgentKnown, StatusKnown,
       UpdatesDraft, FoundPublished, AboutToReplace, Kind, Terminal
  <1>5. Published = {}
    BY DEF Init, Published, WithStatus
  <1>6. Cardinality(Published) = 0
    BY <1>5, FS_EmptySet
  <1>7. Cardinality(Late) \in Nat
    BY LateFinite
  <1>8. SideBySide
    BY <1>6, <1>7 DEF SideBySide, Late
  <1>9. NamesDiffer
    BY DEF Init, NamesDiffer
  <1>10. DeletedForGood
    BY AgentsAssumption DEF Init, DeletedForGood
  <1> QED
    BY <1>1, <1>2, <1>4, <1>8, <1>9, <1>10 DEF AgentsInv, TypeOK

\* A request that only reads, or gives up.
LEMMA QuietStep ==
    ASSUME AgentsInv, NEW r \in Requests, NEW q \in Request, req' = [req EXCEPT ![r] = q],
           Unchanging, req[r].pc # "ok", RequestInv(r)'
    PROVE  AgentsInv'
  <1>1. req \in [Requests -> Request]
    BY DEF AgentsInv, TypeOK
  <1>2. req'[r] = q /\ \A s \in Requests \ {r} : req'[s] = req[s]
    BY <1>1
  <1>3. TypeOK'
    BY <1>1 DEF AgentsInv, TypeOK, Unchanging
  <1>4. versions' = versions /\ agents' = agents /\ Published' = Published
    BY DEF Unchanging, Published, WithStatus
  <1>5. ASSUME NEW s \in Requests \ {r}
        PROVE  RequestInv(s)'
    <2>1. RequestInv(s) /\ req'[s] = req[s]
      BY <1>2 DEF AgentsInv
    <2> QED
      BY <1>4, <2>1 DEF RequestInv, LoadedOf, OnVersions, AgentKnown, StatusKnown, UpdatesDraft,
         FoundPublished, AboutToReplace
  <1>6. SideBySide'
    <2>1. Late \subseteq Late'
      BY <1>2 DEF Late
    <2>2. Cardinality(Late) <= Cardinality(Late')
      BY <2>1, LateFinite, FS_Subset
    <2>3. Cardinality(Published) <= 1 + Cardinality(Late)
      BY DEF AgentsInv, SideBySide, Late
    <2>4. /\ Cardinality(Published') \in Nat 
          /\ Cardinality(Late) \in Nat /\ Cardinality(Late') \in Nat
      BY <1>4, PublishedFinite, LateFinite
    <2>5. Cardinality(Published') = Cardinality(Published)
      BY <1>4
    <2>6. Cardinality(Published') <= 1 + Cardinality(Late')
      BY <2>2, <2>3, <2>4, <2>5
    <2> QED
      BY <2>6 DEF SideBySide, Late
  <1>7. NamesDiffer' /\ DeletedForGood'
    BY <1>4 DEF AgentsInv, NamesDiffer, DeletedForGood
  <1> QED
    BY <1>3, <1>5, <1>6, <1>7 DEF AgentsInv

\* What a request does not assign, it keeps: a step that only moves it on.
LEMMA MovedOn ==
    ASSUME AgentsInv, NEW r \in Requests, NEW pc, Goto(r, pc), Unchanging,
           \/ pc \in Terminal /\ req[r].pc # "ok"
           \/ pc = "select" /\ req[r].pc = "name"
    PROVE  AgentsInv'
  <1> DEFINE q == [req[r] EXCEPT !.pc = pc]
  <1>1. req \in [Requests -> Request] /\ req[r] \in Request /\ RequestInv(r)
    BY DEF AgentsInv, TypeOK
  <1>2. pc \in {"ok", "refused", "failed", "select"}
    BY DEF Terminal
  <1>3. q \in Request
    BY <1>1, <1>2 DEF Request
  <1>4. /\ q.pc = pc /\ q.kind = req[r].kind /\ q.agent = req[r].agent
        /\ q.version = req[r].version /\ q.name = req[r].name /\ q.entity = req[r].entity
        /\ q.changed = req[r].changed /\ q.found = req[r].found /\ q.status = req[r].status
    BY <1>1 DEF Request
  <1>5. req' = [req EXCEPT ![r] = q]
    BY DEF Goto
  <1> HIDE DEF q
  <1>6. req'[r] = q
    BY <1>1, <1>5
  <1>7. versions' = versions /\ Published' = Published
    BY DEF Unchanging, Published, WithStatus
  <1>8. RequestInv(r)'
    BY <1>1, <1>4, <1>6, <1>7 DEF RequestInv, LoadedOf, OnVersions, AgentKnown, StatusKnown,
       UpdatesDraft, FoundPublished, AboutToReplace, Terminal
  <1> QED
    BY <1>3, <1>5, <1>8, QuietStep, <1>1 DEF Terminal

\* What a request reads of the agent.
LEMMA LoadedIs ==
    ASSUME TypeOK, NEW r \in Requests, NEW a \in Agents, NEW kind \in Kind,
           NEW pc \in {"name", "select", "archive"}
    PROVE  /\ Loaded(r, a, kind, pc) \in Request
           /\ Loaded(r, a, kind, pc).pc = pc
           /\ Loaded(r, a, kind, pc).kind = kind
           /\ Loaded(r, a, kind, pc).agent = a
           /\ Loaded(r, a, kind, pc).name = agents[a]
           /\ Loaded(r, a, kind, pc).status = req[r].status
           /\ a = MainAgent => Loaded(r, a, kind, pc).entity = versions
  <1>1. req[r] \in Request /\ versions \in [Versions -> Row] /\ agents[a] \in Names \cup {None}
    BY DEF TypeOK
  <1>2. NoRows \in [Versions -> Row]
    BY DEF NoRows, Row
  <1>3. (IF a = MainAgent THEN versions ELSE NoRows) \in [Versions -> Row]
    BY <1>1, <1>2
  <1> DEFINE rows == IF a = MainAgent THEN versions ELSE NoRows
  <1>4. rows \in [Versions -> Row] /\ (a = MainAgent => rows = versions)
    BY <1>3
  <1>5. Loaded(r, a, kind, pc) = [req[r] EXCEPT !.kind = kind, !.agent = a, !.pc = pc,
                                    !.base = agents[a], !.name = agents[a], !.entity = rows]
    BY DEF Loaded
  <1> HIDE DEF rows
  <1> QED
    BY <1>1, <1>4, <1>5 DEF Request

\* A request about an agent begins: it is created, or loaded and renamed,
\* described or deleted.
LEMMA BeginStep ==
    ASSUME AgentsInv, NEW r \in Requests, NEW q \in Request, req' = [req EXCEPT ![r] = q],
           Unchanging, req[r].pc = "new", q.kind \in {"create", "rename", "describe", "delete"},
           q.agent \in Agents, q.kind # "delete" => q.name \in Names,
           q.kind = "create" => q.agent # MainAgent, q.status = req[r].status,
           q.pc \notin {"new", "archive", "publish"}
    PROVE  AgentsInv'
  <1>1. req \in [Requests -> Request] /\ RequestInv(r)
    BY DEF AgentsInv, TypeOK
  <1>2. req'[r] = q
    BY <1>1
  <1>3. RequestInv(r)'
    BY <1>1, <1>2, AgentsAssumption DEF RequestInv, LoadedOf, OnVersions, AgentKnown, StatusKnown,
       UpdatesDraft, FoundPublished, AboutToReplace
  <1> QED
    BY <1>3, QuietStep

LEMMA CreateStep ==
    ASSUME AgentsInv, NEW r \in Requests, NEW a \in Agents, NEW n \in Names, CreateAgent(r, a, n)
    PROVE  AgentsInv'
  <1>1. PICK pc \in {"refused", "commit"} :
           req' = [req EXCEPT ![r].kind = "create", ![r].agent = a, ![r].name = n, ![r].pc = pc]
    BY DEF CreateAgent
  <1> DEFINE q == [req[r] EXCEPT !.kind = "create", !.agent = a, !.name = n, !.pc = pc]
  <1>2. req \in [Requests -> Request] /\ req[r] \in Request
    BY DEF AgentsInv, TypeOK
  <1>3. req' = [req EXCEPT ![r] = q]
    BY <1>1, <1>2
  <1>4. /\ q \in Request /\ q.kind = "create" /\ q.agent = a /\ q.name = n /\ q.pc = pc
        /\ q.status = req[r].status
    BY <1>2 DEF Request, Kind
  <1>5. a # MainAgent /\ Unchanging /\ req[r].pc = "new"
    BY DEF CreateAgent
  <1> HIDE DEF q
  <1> QED
    BY <1>3, <1>4, <1>5, BeginStep

LEMMA RenameStep ==
    ASSUME AgentsInv, NEW r \in Requests, NEW a \in Agents, NEW n \in Names, Rename(r, a, n)
    PROVE  AgentsInv'
  <1> DEFINE l == Loaded(r, a, "rename", "name")
             q == [l EXCEPT !.name = n]
  <1>1. l \in Request /\ l.pc = "name" /\ l.kind = "rename" /\ l.agent = a /\ l.status = req[r].status
    BY LoadedIs DEF AgentsInv, Kind
  <1>2. req' = [req EXCEPT ![r] = q] /\ Unchanging /\ req[r].pc = "new"
    BY DEF Rename
  <1> HIDE DEF l
  <1>3. /\ q \in Request /\ q.kind = "rename" /\ q.agent = a /\ q.name = n /\ q.pc = "name"
        /\ q.status = req[r].status
    BY <1>1 DEF Request
  <1> HIDE DEF q
  <1> QED
    BY <1>2, <1>3, BeginStep

LEMMA DescribeOrDeleteStep ==
    ASSUME AgentsInv, NEW r \in Requests, NEW a \in Agents, Describe(r, a) \/ Delete(r, a)
    PROVE  AgentsInv'
  <1>1. agents[a] \in Names /\ TypeOK
    BY DEF AgentsInv, TypeOK, Describe, Delete
  <1>2. CASE Describe(r, a)
    <2> DEFINE q == Loaded(r, a, "describe", "select")
    <2>1. /\ q \in Request /\ q.pc = "select" /\ q.kind = "describe" /\ q.agent = a
          /\ q.name = agents[a] /\ q.status = req[r].status
      BY <1>1, LoadedIs DEF Kind
    <2>2. req' = [req EXCEPT ![r] = q] /\ Unchanging /\ req[r].pc = "new"
      BY <1>2 DEF Describe
    <2> HIDE DEF q
    <2> QED
      BY <1>1, <2>1, <2>2, BeginStep
  <1>3. CASE Delete(r, a)
    <2> DEFINE q == Loaded(r, a, "delete", "select")
    <2>1. /\ q \in Request /\ q.pc = "select" /\ q.kind = "delete" /\ q.agent = a
          /\ q.status = req[r].status
      BY <1>1, LoadedIs DEF Kind
    <2>2. req' = [req EXCEPT ![r] = q] /\ Unchanging /\ req[r].pc = "new"
      BY <1>3 DEF Delete
    <2> HIDE DEF q
    <2> QED
      BY <2>1, <2>2, BeginStep
  <1> QED
    BY <1>2, <1>3

LEMMA SelectAgentStep ==
    ASSUME AgentsInv, NEW r \in Requests, SelectAgent(r)
    PROVE  AgentsInv'
  <1>1. /\ req \in [Requests -> Request] /\ req[r] \in Request /\ RequestInv(r)
        /\ agents \in [Agents -> Names \cup {None}]
    BY DEF AgentsInv, TypeOK
  <1>2. /\ Unchanging /\ req[r].pc = "select" /\ req[r].kind \in {"rename", "describe", "delete"}
        /\ req[r].agent \in Agents
    BY <1>1 DEF SelectAgent, RequestInv, AgentKnown, Request, Terminal
  <1>3. CASE agents[req[r].agent] = None
    <2>1. PICK pc \in {"refused", "failed"} : Goto(r, pc)
      BY <1>3 DEF SelectAgent
    <2> QED
      BY <1>2, <2>1, MovedOn DEF Terminal
  <1>4. CASE agents[req[r].agent] # None
    <2>1. PICK kept \in BOOLEAN, base \in Names \cup {None} :
             req' = [req EXCEPT ![r].pc = "commit", ![r].kept = kept, ![r].base = base]
      <3>1. PICK kept \in BOOLEAN :
               req' = [req EXCEPT ![r].pc = "commit", ![r].kept = kept,
                                  ![r].base = IF kept THEN @ ELSE agents[req[r].agent]]
        BY <1>4 DEF SelectAgent
      <3>2. CASE kept
        BY <1>1, <3>1, <3>2 DEF Request
      <3>3. CASE ~kept
        <4>1. req' = [req EXCEPT ![r].pc = "commit", ![r].kept = kept,
                                 ![r].base = agents[req[r].agent]]
          BY <1>1, <3>1, <3>3 DEF Request
        <4>2. agents[req[r].agent] \in Names \cup {None}
          BY <1>1, <1>2
        <4> QED
          BY <4>1, <4>2
      <3> QED
        BY <3>2, <3>3
    <2> DEFINE q == [req[r] EXCEPT !.pc = "commit", !.kept = kept, !.base = base]
    <2>2. req' = [req EXCEPT ![r] = q]
      BY <1>1, <2>1
    <2>3. /\ q \in Request /\ q.pc = "commit" /\ q.kind = req[r].kind /\ q.agent = req[r].agent
          /\ q.name = req[r].name
      BY <1>1 DEF Request
    <2> HIDE DEF q
    <2>4. req'[r] = q
      BY <1>1, <2>2
    <2>5. RequestInv(r)'
      BY <1>1, <1>2, <2>3, <2>4 DEF RequestInv, LoadedOf, OnVersions, AgentKnown, StatusKnown,
         UpdatesDraft, FoundPublished, AboutToReplace, Terminal
    <2> QED
      BY <1>2, <2>2, <2>3, <2>5, QuietStep
  <1> QED
    BY <1>3, <1>4

LEMMA UpdateVersionStep ==
    ASSUME AgentsInv, NEW r \in Requests, NEW v \in Versions, UpdateVersion(r, v)
    PROVE  AgentsInv'
  <1>1. /\ req \in [Requests -> Request] /\ req[r] \in Request /\ RequestInv(r) /\ TypeOK
        /\ versions \in [Versions -> Row]
    BY DEF AgentsInv, TypeOK
  <1>2. Unchanging /\ req[r].pc = "new" /\ MainAgent \in Agents
    BY AgentsAssumption DEF UpdateVersion
  <1>3. CASE versions[v] # None /\ IsMutable(versions[v])
    <2> DEFINE l == Loaded(r, MainAgent, "update", "select")
               q == [l EXCEPT !.version = v]
    <2>1. /\ l \in Request /\ l.pc = "select" /\ l.kind = "update" /\ l.agent = MainAgent
          /\ l.status = req[r].status /\ l.entity = versions
      BY <1>1, <1>2, LoadedIs DEF Kind
    <2>2. req' = [req EXCEPT ![r] = q]
      BY <1>3 DEF UpdateVersion
    <2> HIDE DEF l
    <2>3. /\ q \in Request /\ q.kind = "update" /\ q.agent = MainAgent /\ q.pc = "select"
          /\ q.status = req[r].status /\ q.entity = versions /\ q.version = v
      BY <2>1 DEF Request
    <2> HIDE DEF q
    <2>4. req'[r] = q
      BY <1>1, <2>2
    <2>5. q.status = NoRows
      BY <1>1, <1>2, <2>3 DEF RequestInv, StatusKnown
    <2>6. \A w \in Versions : q.status[w] = None
      BY <2>5 DEF NoRows
    <2>7. versions' = versions /\ MainAgent # None
      BY <1>2, AgentsAssumption DEF Unchanging
    <2>8. UpdatesDraft(r)'
      BY <1>3, <2>3, <2>4 DEF UpdatesDraft, IsMutable
    <2>9. LoadedOf(r)' /\ AgentKnown(r)' /\ StatusKnown(r)' /\ FoundPublished(r)' /\ AboutToReplace(r)'
      BY <2>3, <2>4, <2>5, <2>6, <2>7 DEF LoadedOf, AgentKnown, StatusKnown, FoundPublished,
         AboutToReplace
    <2> QED
      BY <1>2, <2>2, <2>3, <2>8, <2>9, QuietStep DEF RequestInv
  <1>4. CASE ~(versions[v] # None /\ IsMutable(versions[v]))
    <2>1. Goto(r, "refused")
      BY <1>1, <1>4 DEF UpdateVersion, Goto
    <2> QED
      BY <1>2, <2>1, MovedOn DEF Terminal
  <1> QED
    BY <1>3, <1>4

LEMMA DirtyIs ==
    ASSUME NEW new \in AgentStatus, NEW old
    PROVE  Dirty(new, old) \in {new, None} /\ Dirty(new, old) \in AgentStatus \cup {None}
  BY DEF Dirty

LEMMA SelectVersionStep ==
    ASSUME AgentsInv, NEW r \in Requests, SelectVersion(r)
    PROVE  AgentsInv'
  <1>1. /\ req \in [Requests -> Request] /\ req[r] \in Request /\ RequestInv(r)
    BY DEF AgentsInv, TypeOK
  <1>2. /\ Unchanging /\ req[r].pc = "select" /\ req[r].kind = "update"
        /\ req[r].version \in Versions /\ req[r].status = NoRows
    BY <1>1 DEF SelectVersion, RequestInv, AgentKnown, StatusKnown
  <1>3. CASE versions[req[r].version] = None
    <2>1. Goto(r, "failed")
      BY <1>3 DEF SelectVersion
    <2> QED
      BY <1>2, <2>1, MovedOn DEF Terminal
  <1>4. CASE versions[req[r].version] # None
    <2>1. PICK kept \in BOOLEAN :
             req' = [req EXCEPT ![r].pc = "commit", ![r].kept = kept,
                       ![r].status[req[r].version] = Dirty("draft", Known(r, req[r].version, kept))]
      BY <1>4 DEF SelectVersion
    <2> DEFINE new == Dirty("draft", Known(r, req[r].version, kept))
               status == [req[r].status EXCEPT ![req[r].version] = new]
               q == [req[r] EXCEPT !.pc = "commit", !.kept = kept, !.status = status]
    <2>2. new \in {"draft", None} /\ new \in AgentStatus \cup {None}
      BY DirtyIs DEF AgentStatus
    <2>3. req' = [req EXCEPT ![r] = q]
      BY <1>1, <2>1
    <2> HIDE DEF new
    <2>4. req[r].status \in [Versions -> AgentStatus \cup {None}]
      BY <1>1 DEF Request
    <2>5. /\ status \in [Versions -> AgentStatus \cup {None}]
          /\ \A w \in Versions : status[w] \in (IF w = req[r].version THEN {None, "draft"} ELSE {None})
      BY <1>2, <2>2, <2>4 DEF NoRows
    <2> HIDE DEF status
    <2>6. /\ q \in Request /\ q.pc = "commit" /\ q.kind = "update" /\ q.agent = req[r].agent
          /\ q.version = req[r].version /\ q.entity = req[r].entity /\ q.changed = req[r].changed
          /\ q.status = status
      BY <1>1, <1>2, <2>5 DEF Request
    <2> HIDE DEF q
    <2>7. req'[r] = q /\ versions' = versions
      BY <1>1, <1>2, <2>3 DEF Unchanging
    <2>8. RequestInv(r)'
      BY <1>1, <1>2, <2>5, <2>6, <2>7 DEF RequestInv, LoadedOf, OnVersions, AgentKnown,
         StatusKnown, UpdatesDraft, FoundPublished, AboutToReplace, Terminal
    <2> QED
      BY <1>2, <2>3, <2>6, <2>8, QuietStep
  <1> QED
    BY <1>3, <1>4

LEMMA PublishVersionStep ==
    ASSUME AgentsInv, NEW r \in Requests, NEW v \in Versions, PublishVersion(r, v)
    PROVE  AgentsInv'
  <1>1. /\ req \in [Requests -> Request] /\ req[r] \in Request /\ RequestInv(r) /\ TypeOK
    BY DEF AgentsInv, TypeOK
  <1>2. Unchanging /\ req[r].pc = "new" /\ MainAgent \in Agents
    BY AgentsAssumption DEF PublishVersion
  <1>3. CASE versions[v] # None
    <2> DEFINE l == Loaded(r, MainAgent, "publish", "archive")
               q == [l EXCEPT !.version = v]
    <2>1. /\ l \in Request /\ l.pc = "archive" /\ l.kind = "publish" /\ l.agent = MainAgent
          /\ l.status = req[r].status /\ l.entity = versions
      BY <1>1, <1>2, LoadedIs DEF Kind
    <2>2. req' = [req EXCEPT ![r] = q]
      BY <1>3 DEF PublishVersion
    <2> HIDE DEF l
    <2>3. /\ q \in Request /\ q.kind = "publish" /\ q.agent = MainAgent /\ q.pc = "archive"
          /\ q.status = req[r].status /\ q.entity = versions /\ q.version = v
      BY <2>1 DEF Request
    <2> HIDE DEF q
    <2>4. req'[r] = q
      BY <1>1, <2>2
    <2>5. q.status = NoRows
      BY <1>1, <1>2, <2>3 DEF RequestInv, StatusKnown
    <2>6. \A w \in Versions : q.status[w] = None
      BY <2>5 DEF NoRows
    <2>7. versions' = versions /\ MainAgent # None
      BY <1>2, AgentsAssumption DEF Unchanging
    <2>8. RequestInv(r)'
      BY <2>3, <2>4, <2>5, <2>6, <2>7 DEF RequestInv, LoadedOf, AgentKnown, StatusKnown,
         UpdatesDraft, FoundPublished, AboutToReplace
    <2> QED
      BY <1>2, <2>2, <2>3, <2>8, QuietStep
  <1>4. CASE versions[v] = None
    <2>1. Goto(r, "failed")
      BY <1>1, <1>4 DEF PublishVersion, Goto
    <2> QED
      BY <1>2, <2>1, MovedOn DEF Terminal
  <1> QED
    BY <1>3, <1>4

\* One published version is the one that is found.
LEMMA OnlyPublished ==
    ASSUME Cardinality(Published) <= 1, Published # {}
    PROVE  Published = {CHOOSE v \in Published : TRUE}
  <1>1. PICK v \in Published : TRUE
    OBVIOUS
  <1>2. Cardinality(Published \ {v}) = Cardinality(Published) - 1
    BY PublishedFinite, FS_RemoveElement
  <1>3. IsFiniteSet(Published \ {v}) /\ Cardinality(Published \ {v}) \in Nat
    BY PublishedFinite, FS_RemoveElement, FS_CardinalityType
  <1>4. Cardinality(Published \ {v}) = 0
    BY <1>2, <1>3, PublishedFinite
  <1>5. Published \ {v} = {}
    BY <1>3, <1>4, FS_EmptySet
  <1> QED
    BY <1>5

LEMMA SelectPublishedStep ==
    ASSUME AgentsInv, NEW r \in Requests, SelectPublished(r)
    PROVE  AgentsInv'
  <1>1. /\ req \in [Requests -> Request] /\ req[r] \in Request /\ RequestInv(r)
    BY DEF AgentsInv, TypeOK
  <1>2. Unchanging /\ req[r].pc = "archive"
    BY DEF SelectPublished
  <1>3. CASE Cardinality(Published) > 1
    <2>1. Goto(r, "failed")
      BY <1>3 DEF SelectPublished
    <2> QED
      BY <1>2, <2>1, MovedOn DEF Terminal
  <1>4. CASE ~(Cardinality(Published) > 1)
    <2> DEFINE found == IF Published = {} THEN None ELSE CHOOSE v \in Published : TRUE
    <2>1. Cardinality(Published) <= 1
      BY <1>4, PublishedFinite
    <2>2. Published = (IF found = None THEN {} ELSE {found}) /\ found \in Versions \cup {None}
      <3>1. CASE Published = {}
        BY <3>1
      <3>2. CASE Published # {}
        <4>1. Published = {CHOOSE v \in Published : TRUE}
          BY <2>1, <3>2, OnlyPublished
        <4>2. Published \subseteq Versions
          BY DEF Published, WithStatus
        <4> QED
          BY <3>2, <4>1, <4>2, AgentsAssumption
      <3> QED
        BY <3>1, <3>2
    <2>3. PICK kept \in BOOLEAN :
             req' = [req EXCEPT ![r].pc = "publish", ![r].kept = kept, ![r].found = found]
      BY <1>4 DEF SelectPublished
    <2> HIDE DEF found
    <2> DEFINE q == [req[r] EXCEPT !.pc = "publish", !.kept = kept, !.found = found]
    <2>4. req' = [req EXCEPT ![r] = q]
      BY <1>1, <2>3
    <2>5. /\ q \in Request /\ q.pc = "publish" /\ q.kind = req[r].kind /\ q.agent = req[r].agent
          /\ q.version = req[r].version /\ q.entity = req[r].entity /\ q.changed = req[r].changed
          /\ q.status = req[r].status /\ q.found = found /\ q.name = req[r].name
      BY <1>1, <2>2 DEF Request
    <2> HIDE DEF q
    <2>6. req'[r] = q /\ versions' = versions /\ Published' = Published
      BY <1>1, <1>2, <2>4 DEF Unchanging, Published, WithStatus
    <2>7. LoadedOf(r)' /\ AgentKnown(r)' /\ StatusKnown(r)' /\ UpdatesDraft(r)'
      BY <1>1, <1>2, <2>5, <2>6 DEF RequestInv, LoadedOf, OnVersions, AgentKnown, StatusKnown,
         UpdatesDraft, Terminal
    <2>8. FoundPublished(r)' /\ AboutToReplace(r)'
      BY <2>2, <2>5, <2>6 DEF FoundPublished, AboutToReplace
    <2> QED
      BY <1>2, <2>4, <2>5, <2>7, <2>8, QuietStep DEF RequestInv
  <1> QED
    BY <1>3, <1>4

\* The statuses a publication writes, row by row.
LEMMA StatusesOf ==
    ASSUME TypeOK, NEW r \in Requests, NEW v \in Versions, NEW known
    PROVE  /\ ArchivedAndPublished(r, v, known) \in [Versions -> AgentStatus \cup {None}]
           /\ \A w \in Versions \ {v} :
                 ArchivedAndPublished(r, v, known)[w]
                   = IF w = req[r].found
                     THEN Dirty("archived", IF req[r].kept THEN req[r].entity[w].status ELSE "published")
                     ELSE None
           /\ ArchivedAndPublished(r, v, known)[v]
                = Dirty("published", IF v = req[r].found /\ ~req[r].kept THEN "published" ELSE known)
  <1> DEFINE f == req[r].found
             old == IF req[r].kept THEN req[r].entity[f].status ELSE "published"
             archived == IF f = None THEN NoRows ELSE [NoRows EXCEPT ![f] = Dirty("archived", old)]
             mine == Dirty("published", IF v = f /\ ~req[r].kept THEN "published" ELSE known)
  <1>1. ArchivedAndPublished(r, v, known) = [archived EXCEPT ![v] = mine]
    BY DEF ArchivedAndPublished
  <1>2. mine \in AgentStatus \cup {None} /\ Dirty("archived", old) \in AgentStatus \cup {None}
    BY DirtyIs DEF AgentStatus
  <1>3. NoRows \in [Versions -> AgentStatus \cup {None}] /\ \A w \in Versions : NoRows[w] = None
    BY DEF NoRows
  <1>4. f \in Versions \cup {None}
    BY DEF TypeOK, Request
  <1>5. \A w \in Versions : w # None
    BY AgentsAssumption
  <1> HIDE DEF mine
  <1>6. /\ archived \in [Versions -> AgentStatus \cup {None}]
        /\ \A w \in Versions : archived[w] = IF w = f THEN Dirty("archived", old) ELSE None
    <2>1. CASE f = None
      BY <1>3, <1>5, <2>1
    <2>2. CASE f # None
      BY <1>2, <1>3, <1>4, <2>2
    <2> QED
      BY <2>1, <2>2
  <1> HIDE DEF archived
  <1>7. /\ [archived EXCEPT ![v] = mine] \in [Versions -> AgentStatus \cup {None}]
        /\ [archived EXCEPT ![v] = mine][v] = mine
        /\ \A w \in Versions \ {v} : [archived EXCEPT ![v] = mine][w] = archived[w]
    BY <1>2, <1>6
  <1>8. \A w \in Versions \ {v} :
           archived[w] = IF w = f
                         THEN Dirty("archived", IF req[r].kept THEN req[r].entity[w].status ELSE "published")
                         ELSE None
    BY <1>6
  <1> QED
    BY <1>1, <1>7, <1>8 DEF mine

LEMMA SelectNewStep ==
    ASSUME AgentsInv, NEW r \in Requests, SelectNew(r)
    PROVE  AgentsInv'
  <1>1. /\ req \in [Requests -> Request] /\ req[r] \in Request /\ RequestInv(r) /\ TypeOK
    BY DEF AgentsInv, TypeOK
  <1>2. Unchanging /\ req[r].pc = "publish" /\ req[r].kind = "publish" /\ req[r].version \in Versions
    BY <1>1 DEF SelectNew, RequestInv, AgentKnown
  <1> DEFINE v == req[r].version
             known == Known(r, v, req[r].kept)
             status == ArchivedAndPublished(r, v, known)
  <1>3. CASE versions[v] = None
    <2>1. Goto(r, "failed")
      BY <1>3 DEF SelectNew
    <2> QED
      BY <1>2, <2>1, MovedOn DEF Terminal
  <1>4. CASE versions[v] # None
    <2>1. req' = [req EXCEPT ![r].pc = "commit", ![r].status = status]
      BY <1>4 DEF SelectNew
    <2>2. /\ status \in [Versions -> AgentStatus \cup {None}]
          /\ \A w \in Versions \ {v} :
                status[w] = IF w = req[r].found
                            THEN Dirty("archived", IF req[r].kept THEN req[r].entity[w].status
                                                   ELSE "published")
                            ELSE None
          /\ status[v] = Dirty("published", IF v = req[r].found /\ ~req[r].kept THEN "published"
                                            ELSE known)
      BY <1>1, <1>2, StatusesOf
    <2> HIDE DEF status
    <2> DEFINE q == [req[r] EXCEPT !.pc = "commit", !.status = status]
    <2>3. req' = [req EXCEPT ![r] = q]
      BY <1>1, <2>1
    <2>4. /\ q \in Request /\ q.pc = "commit" /\ q.kind = "publish" /\ q.agent = req[r].agent
          /\ q.version = v /\ q.entity = req[r].entity /\ q.changed = req[r].changed
          /\ q.status = status /\ q.found = req[r].found
      BY <1>1, <1>2, <2>2 DEF Request
    <2> HIDE DEF q
    <2>5. req'[r] = q /\ versions' = versions /\ Published' = Published
      BY <1>1, <1>2, <2>3 DEF Unchanging, Published, WithStatus
    <2>6. \A w \in Versions : status[w] \in {None, IF w = v THEN "published" ELSE "archived"}
      BY <2>2 DEF Dirty
    <2>7. LoadedOf(r)' /\ AgentKnown(r)' /\ StatusKnown(r)' /\ UpdatesDraft(r)' /\ FoundPublished(r)'
      BY <1>1, <1>2, <2>4, <2>5, <2>6 DEF RequestInv, LoadedOf, OnVersions, AgentKnown, StatusKnown,
         UpdatesDraft, FoundPublished, Terminal
    <2>8. ASSUME ~req[r].changed
          PROVE  /\ status[v] = Dirty("published", versions[v].status)
                 /\ \A w \in Versions \ {v} : status[w] = IF w = req[r].found THEN "archived" ELSE None
      <3>1. req[r].entity = versions
        BY <1>1, <1>2, <2>8 DEF RequestInv, LoadedOf, OnVersions, Terminal
      <3>2. Published = (IF req[r].found = None THEN {} ELSE {req[r].found})
        BY <1>1, <1>2, <2>8 DEF RequestInv, FoundPublished
      <3>3. \A w \in Versions : w = req[r].found => versions[w].status = "published"
        BY <3>2, AgentsAssumption DEF Published, WithStatus
      <3>4. known = versions[v].status
        BY <3>1 DEF Known
      <3>5. status[v] = Dirty("published", versions[v].status)
        BY <1>2, <2>2, <3>3, <3>4
      <3>6. \A w \in Versions \ {v} : status[w] = IF w = req[r].found THEN "archived" ELSE None
        BY <2>2, <3>1, <3>3 DEF Dirty
      <3> QED
        BY <3>5, <3>6
    <2>9. AboutToReplace(r)'
      BY <1>4, <2>4, <2>5, <2>8 DEF AboutToReplace
    <2> QED
      BY <1>2, <2>3, <2>4, <2>7, <2>9, QuietStep DEF RequestInv
  <1> QED
    BY <1>3, <1>4

\* What a request keeps when a commit marks it as overtaken.
LEMMA MarkedKeeps ==
    ASSUME NEW q \in Request, NEW c
    PROVE  /\ [q EXCEPT !.changed = c].pc = q.pc
           /\ [q EXCEPT !.changed = c].kind = q.kind
           /\ [q EXCEPT !.changed = c].agent = q.agent
           /\ [q EXCEPT !.changed = c].version = q.version
           /\ [q EXCEPT !.changed = c].name = q.name
           /\ [q EXCEPT !.changed = c].entity = q.entity
           /\ [q EXCEPT !.changed = c].found = q.found
           /\ [q EXCEPT !.changed = c].status = q.status
BY DEF Request

LEMMA MarkedInside ==
    ASSUME NEW q \in Request, NEW c \in BOOLEAN
    PROVE  [q EXCEPT !.changed = c] \in Request
BY DEF Request

LEMMA MarkIs ==
    ASSUME NEW q \in Request, NEW c
    PROVE  [q EXCEPT !.changed = c].changed = c
BY DEF Request

\* A commit: the requests it overtakes know that, and those at their end stay.
LEMMA CommitMoves ==
    ASSUME AgentsInv, NEW r \in Requests, req[r].pc = "commit", Committed(r)
    PROVE  /\ req' \in [Requests -> Request]
           /\ req'[r] = [req[r] EXCEPT !.pc = "ok"]
           /\ \A s \in Requests \ {r} :
                 /\ req'[s].pc = req[s].pc /\ req'[s].kind = req[s].kind /\ req'[s].agent = req[s].agent
                 /\ req'[s].version = req[s].version /\ req'[s].name = req[s].name
                 /\ req'[s].entity = req[s].entity /\ req'[s].found = req[s].found
                 /\ req'[s].status = req[s].status
                 /\ req[s].changed => req'[s].changed
                 /\ req[s].pc \notin {"new"} \cup Terminal => req'[s].changed
           /\ Late \subseteq Late'
           /\ (req[r].kind = "publish" /\ req[r].changed) => Late' = Late \cup {r} /\ r \notin Late
  <1>1. req \in [Requests -> Request]
    BY DEF AgentsInv, TypeOK
  <1>2. ASSUME NEW s \in Requests \ {r}
        PROVE  /\ req'[s] \in Request
               /\ req'[s].pc = req[s].pc /\ req'[s].kind = req[s].kind /\ req'[s].agent = req[s].agent
               /\ req'[s].version = req[s].version /\ req'[s].name = req[s].name
               /\ req'[s].entity = req[s].entity /\ req'[s].found = req[s].found
               /\ req'[s].status = req[s].status
    <2> DEFINE c == req[s].changed \/ req[s].pc \notin {"new", "ok", "refused", "failed"}
    <2>0. req[s] \in Request
      BY <1>1
    <2>1. c \in BOOLEAN
      OBVIOUS
    <2>2. req'[s] = [req[s] EXCEPT !.changed = c]
      BY DEF Committed
    <2> HIDE DEF c
    <2>3. req'[s] \in Request
      BY <2>0, <2>1, <2>2, MarkedInside
    <2>4. /\ req'[s].pc = req[s].pc /\ req'[s].kind = req[s].kind /\ req'[s].agent = req[s].agent
          /\ req'[s].version = req[s].version /\ req'[s].name = req[s].name
          /\ req'[s].entity = req[s].entity /\ req'[s].found = req[s].found
          /\ req'[s].status = req[s].status
      BY <2>0, <2>2, MarkedKeeps
    <2> QED
      BY <2>3, <2>4
  <1>12. ASSUME NEW s \in Requests \ {r}
         PROVE  /\ req[s].changed => req'[s].changed
                /\ req[s].pc \notin {"new"} \cup Terminal => req'[s].changed
                /\ req[s].pc = "ok" => (req'[s].changed => req[s].changed)
    <2> DEFINE c == req[s].changed \/ req[s].pc \notin {"new", "ok", "refused", "failed"}
    <2>0. req[s] \in Request
      BY <1>1
    <2>1. c \in BOOLEAN
      OBVIOUS
    <2>2. req'[s] = [req[s] EXCEPT !.changed = c]
      BY DEF Committed
    <2>3. c <=> (req[s].changed \/ req[s].pc \notin {"new", "ok", "refused", "failed"})
      OBVIOUS
    <2> HIDE DEF c
    <2>6. req'[s].changed = c
      BY <2>0, <2>2, MarkIs, Zenon
    <2>7. req[s].changed => req'[s].changed
      BY <2>3, <2>6, Zenon
    <2>8. req[s].pc \notin {"new"} \cup Terminal => req'[s].changed
      <3>1. req[s].pc \notin {"new"} \cup Terminal
              => req[s].pc \notin {"new", "ok", "refused", "failed"}
        BY DEF Terminal
      <3> QED
        BY <2>3, <2>6, <3>1, Zenon
    <2>9. req[s].pc = "ok" => (req'[s].changed => req[s].changed)
      <3>1. req[s].pc = "ok" => req[s].pc \in {"new", "ok", "refused", "failed"}
        OBVIOUS
      <3> QED
        BY <2>3, <2>6, <3>1, Zenon
    <2> QED
      BY <2>7, <2>8, <2>9, Zenon
  <1>3. req'[r] = [req[r] EXCEPT !.pc = "ok"] /\ req'[r] \in Request
    <2>1. req'[r] = [req[r] EXCEPT !.pc = "ok"]
      BY DEF Committed
    <2>2. [req[r] EXCEPT !.pc = "ok"] \in Request
      BY <1>1 DEF Request
    <2> QED
      BY <2>1, <2>2, Zenon
  <1>4. /\ req'[r].pc = "ok" /\ req'[r].kind = req[r].kind /\ req'[r].changed = req[r].changed
    BY <1>1, <1>3 DEF Request
  <1>5. req' \in [Requests -> Request]
    <2>1. req' = [s \in Requests |-> req'[s]]
      BY DEF Committed
    <2>2. \A s \in Requests : req'[s] \in Request
      BY <1>2, <1>3
    <2> QED
      BY <2>1, <2>2
  <1>6. Late \subseteq Late'
    BY <1>2, <1>4, <1>12 DEF Late
  <1>7. ASSUME req[r].kind = "publish", req[r].changed
        PROVE  Late' = Late \cup {r} /\ r \notin Late
    <2>1. r \in Late' /\ r \notin Late
      BY <1>4, <1>7 DEF Late
    <2>2. ASSUME NEW s \in Requests \ {r}
          PROVE  s \in Late' <=> s \in Late
      <3>1. req'[s].kind = req[s].kind /\ req'[s].pc = req[s].pc
        BY <1>2
      <3>2. req[s].pc = "ok" => (req'[s].changed <=> req[s].changed)
        BY <1>12, Zenon
      <3> QED
        BY <3>1, <3>2, Zenon DEF Late
    <2>3. Late \subseteq Requests /\ Late' \subseteq Requests
      BY DEF Late
    <2> QED
      BY <2>1, <2>2, <2>3
  <1> QED
    BY <1>2, <1>3, <1>5, <1>6, <1>7, <1>12

\* A commit of one request moves no other one.
LEMMA CommitMovesOne ==
    ASSUME AgentsInv, NEW r \in Requests, NEW s \in Requests, s # r, req[s].pc = "commit",
           Committed(s)
    PROVE  req'[r].pc = req[r].pc
  <1>1. r \in Requests \ {s}
    OBVIOUS
  <1> QED
    BY <1>1, CommitMoves

\* What every request still knows after a commit.
LEMMA CommitKeepsRequests ==
    ASSUME AgentsInv, NEW r \in Requests, req[r].pc = "commit", Committed(r)
    PROVE  \A s \in Requests : RequestInv(s)'
  <1>1. req \in [Requests -> Request] /\ req[r] \in Request
    BY DEF AgentsInv, TypeOK
  <1>2. /\ req'[r].pc = "ok" /\ req'[r].kind = req[r].kind /\ req'[r].agent = req[r].agent
        /\ req'[r].version = req[r].version /\ req'[r].name = req[r].name
        /\ req'[r].entity = req[r].entity /\ req'[r].status = req[r].status
    <2>1. req'[r] = [req[r] EXCEPT !.pc = "ok"]
      BY CommitMoves
    <2> QED
      BY <1>1, <2>1 DEF Request
  <1>3. RequestInv(r)'
    <2>1. RequestInv(r)
      BY DEF AgentsInv
    <2> QED
      BY <1>2, <2>1 DEF RequestInv, LoadedOf, OnVersions, AgentKnown, StatusKnown, UpdatesDraft,
         FoundPublished, AboutToReplace, Terminal
  <1>4. ASSUME NEW s \in Requests \ {r}
        PROVE  RequestInv(s)'
    <2>1. RequestInv(s)
      BY DEF AgentsInv
    <2>2. /\ req'[s].pc = req[s].pc /\ req'[s].kind = req[s].kind /\ req'[s].agent = req[s].agent
          /\ req'[s].version = req[s].version /\ req'[s].name = req[s].name
          /\ req'[s].entity = req[s].entity /\ req'[s].status = req[s].status
          /\ req[s].pc \notin {"new"} \cup Terminal => req'[s].changed
      BY CommitMoves
    <2>3. AgentKnown(s)' /\ StatusKnown(s)' /\ UpdatesDraft(s)'
      BY <2>1, <2>2 DEF RequestInv, AgentKnown, StatusKnown, UpdatesDraft
    <2>4. LoadedOf(s)' /\ FoundPublished(s)' /\ AboutToReplace(s)'
      <3>1. req[s].pc = "new" => req[s].kind = None
        BY <2>1 DEF RequestInv, AgentKnown
      <3> QED
        BY <2>2, <3>1, AgentsAssumption DEF LoadedOf, OnVersions, FoundPublished, AboutToReplace,
           Terminal, Kind
    <2> QED
      BY <2>3, <2>4 DEF RequestInv
  <1> QED
    BY <1>3, <1>4

\* What a commit of versions writes.
LEMMA WrittenRow ==
    ASSUME AgentsInv, NEW r \in Requests, CommitVersions(r), NEW w \in Versions
    PROVE  /\ versions'[w] \in Row
           /\ versions'[w] # None <=> versions[w] # None
           /\ versions[w] # None /\ req[r].status[w] # None => versions'[w].status = req[r].status[w]
           /\ versions[w] # None /\ req[r].status[w] = None => versions'[w].status = versions[w].status
           /\ versions[w] # None /\ versions'[w].text # versions[w].text
                => req[r].kind = "update" /\ w = req[r].version
  <1>1. /\ versions[w] \in Row /\ req[r].status[w] \in AgentStatus \cup {None}
        /\ req[r].kind \in {"update", "publish"} /\ RequestInv(r)
    BY DEF AgentsInv, TypeOK, Request, CommitVersions
  <1>2. versions'[w] = Written(r, w) /\ (w \in RowsToWrite(r) => versions[w] # None)
    BY DEF CommitVersions
  <1>3. CASE w \in RowsToWrite(r)
    <2> DEFINE status == IF req[r].status[w] = None THEN versions[w].status ELSE req[r].status[w]
               text == IF req[r].kind = "update" THEN r ELSE versions[w].text
    <2>1. versions'[w] = [status |-> status, text |-> text]
      BY <1>2, <1>3 DEF Written
    <2>2. versions[w] \in Version
      BY <1>1, <1>2, <1>3 DEF Row
    <2>3. status \in AgentStatus /\ text \in Text
      BY <1>1, <2>2 DEF Version, Text
    <2>4. versions'[w] \in Version
      BY <2>1, <2>3 DEF Version
    <2>5. versions'[w] # None
      BY <2>4, AgentsAssumption
    <2>6. versions'[w].status = status /\ versions'[w].text = text
      BY <2>1
    <2>7. text # versions[w].text => req[r].kind = "update" /\ w = req[r].version
      <3>1. req[r].kind = "update" => (req[r].status[w] # None => w = req[r].version)
        BY <1>1 DEF RequestInv, StatusKnown
      <3> QED
        BY <1>3, <3>1 DEF RowsToWrite
    <2> QED
      BY <1>2, <1>3, <2>4, <2>5, <2>6, <2>7 DEF Row
  <1>4. CASE w \notin RowsToWrite(r)
    <2>1. versions'[w] = versions[w]
      BY <1>2, <1>4 DEF Written
    <2>2. req[r].status[w] = None
      BY <1>4 DEF RowsToWrite
    <2> QED
      BY <1>1, <2>1, <2>2
  <1> QED
    BY <1>3, <1>4

\* A publication that nothing overtook leaves its version as the published one.
LEMMA ReplacedAlone ==
    ASSUME AgentsInv, NEW r \in Requests, CommitVersions(r), req[r].kind = "publish", ~req[r].changed
    PROVE  Published' = {req[r].version}
  <1>1. /\ RequestInv(r) /\ req[r].pc = "commit" /\ req[r].version \in Versions
    BY DEF AgentsInv, CommitVersions, RequestInv, AgentKnown
  <1>2. /\ versions[req[r].version] # None
        /\ req[r].status[req[r].version] = Dirty("published", versions[req[r].version].status)
        /\ \A w \in Versions \ {req[r].version} :
              req[r].status[w] = IF w = req[r].found THEN "archived" ELSE None
        /\ Published = (IF req[r].found = None THEN {} ELSE {req[r].found})
    BY <1>1 DEF RequestInv, AboutToReplace, FoundPublished
  <1>3. /\ versions'[req[r].version] # None
        /\ versions'[req[r].version].status = "published"
    <2>1. None # "published"
      BY AgentsAssumption DEF AgentStatus
    <2> QED
      BY <1>1, <1>2, <2>1, WrittenRow DEF Dirty
  <1>4. ASSUME NEW w \in Versions \ {req[r].version}
        PROVE  ~(versions'[w] # None /\ versions'[w].status = "published")
    <2>1. versions'[w] # None <=> versions[w] # None
      BY WrittenRow
    <2>2. CASE w = req[r].found
      <3>1. req[r].status[w] = "archived" /\ None # "archived"
        BY <1>2, <2>2, AgentsAssumption DEF AgentStatus
      <3> QED
        BY <2>1, <3>1, WrittenRow
    <2>3. CASE w # req[r].found
      <3>1. req[r].status[w] = None /\ w \notin Published
        BY <1>2, <2>3
      <3>2. versions[w] # None => versions[w].status # "published"
        BY <3>1 DEF Published, WithStatus
      <3> QED
        BY <2>1, <3>1, <3>2, WrittenRow
    <2> QED
      BY <2>2, <2>3
  <1> QED
    BY <1>1, <1>3, <1>4 DEF Published, WithStatus

LEMMA SideBySideStep ==
    ASSUME AgentsInv, NEW r \in Requests, CommitVersions(r)
    PROVE  SideBySide'
  <1>1. /\ RequestInv(r) /\ req[r].pc = "commit" /\ req[r].version \in Versions
        /\ req[r].kind \in {"update", "publish"} /\ Committed(r)
    BY DEF AgentsInv, CommitVersions, RequestInv, AgentKnown
  <1>2. Cardinality(Published) <= 1 + Cardinality(Late)
    BY DEF AgentsInv, SideBySide, Late
  <1>3. Late \subseteq Late'
    BY <1>1, CommitMoves
  <1>4. Cardinality(Late) <= Cardinality(Late')
    BY <1>3, LateFinite, FS_Subset
  <1>5. SUFFICES Cardinality(Published') <= 1 + Cardinality(Late')
    BY DEF SideBySide, Late
  <1>6. /\ Cardinality(Published) \in Nat /\ Cardinality(Published') \in Nat
        /\ Cardinality(Late) \in Nat /\ Cardinality(Late') \in Nat
    BY LateFinite, PublishedFinite
  <1>7. CASE req[r].kind = "update"
    <2>1. ASSUME NEW w \in Versions, versions'[w] # None, versions'[w].status = "published"
          PROVE  versions[w] # None /\ versions[w].status = "published"
      <3>1. req[r].status[w] # "published"
        BY <1>1, <1>7, AgentsAssumption DEF RequestInv, StatusKnown, AgentStatus
      <3> QED
        BY <2>1, <3>1, WrittenRow
    <2>2. Published' \subseteq Published
      BY <2>1 DEF Published, WithStatus
    <2>3. Cardinality(Published') <= Cardinality(Published)
      BY <2>2, PublishedFinite, FS_Subset
    <2> QED
      BY <1>2, <1>4, <1>6, <2>3
  <1>8. CASE req[r].kind = "publish" /\ ~req[r].changed
    <2>1. Published' = {req[r].version}
      BY <1>8, ReplacedAlone
    <2>2. Cardinality(Published') = 1
      BY <2>1, FS_Singleton
    <2> QED
      BY <1>6, <2>2
  <1>9. CASE req[r].kind = "publish" /\ req[r].changed
    <2>1. ASSUME NEW w \in Versions \ {req[r].version}, versions'[w] # None,
                 versions'[w].status = "published"
          PROVE  versions[w] # None /\ versions[w].status = "published"
      <3>1. req[r].status[w] # "published"
        BY <1>1, <1>9, AgentsAssumption DEF RequestInv, StatusKnown, AgentStatus
      <3> QED
        BY <2>1, <3>1, WrittenRow
    <2>2. Published' \subseteq Published \cup {req[r].version}
      BY <2>1 DEF Published, WithStatus
    <2>3. /\ IsFiniteSet(Published \cup {req[r].version})
          /\ Cardinality(Published \cup {req[r].version}) \in {Cardinality(Published), Cardinality(Published) + 1}
      BY PublishedFinite, FS_AddElement
    <2>4. Cardinality(Published') <= Cardinality(Published \cup {req[r].version})
      BY <2>2, <2>3, FS_Subset
    <2>5. Late' = Late \cup {r} /\ r \notin Late
      BY <1>1, <1>9, CommitMoves
    <2>6. Cardinality(Late \cup {r}) = Cardinality(Late) + 1
      BY <2>5, LateFinite, FS_AddElement
    <2>7. Cardinality(Late') = Cardinality(Late) + 1
      BY <2>5, <2>6
    <2> QED
      BY <1>2, <1>6, <2>3, <2>4, <2>7
  <1> QED
    BY <1>1, <1>7, <1>8, <1>9

LEMMA CommitVersionsStep ==
    ASSUME AgentsInv, NEW r \in Requests, CommitVersions(r)
    PROVE  AgentsInv'
  <1>1. req[r].pc = "commit" /\ Committed(r) /\ agents' = agents
    BY DEF CommitVersions
  <1>2. \A s \in Requests : RequestInv(s)'
    BY <1>1, CommitKeepsRequests
  <1>3. versions' \in [Versions -> Row]
    <2>1. versions' = [v \in Versions |-> versions'[v]]
      BY DEF CommitVersions
    <2>2. \A v \in Versions : versions'[v] \in Row
      BY WrittenRow
    <2> QED
      BY <2>1, <2>2
  <1>4. TypeOK'
    <2>1. req' \in [Requests -> Request]
      BY <1>1, CommitMoves
    <2> QED
      BY <1>1, <1>3, <2>1 DEF AgentsInv, TypeOK
  <1>5. NamesDiffer'
    BY <1>1 DEF AgentsInv, NamesDiffer
  <1>6. DeletedForGood'
    <2> SUFFICES ASSUME agents[MainAgent] = None
                 PROVE  versions' = NoRows
      BY <1>1 DEF DeletedForGood
    <2>1. versions = NoRows
      BY DEF AgentsInv, DeletedForGood
    <2>2. \A v \in Versions : versions'[v] = None
      BY <2>1, WrittenRow DEF NoRows
    <2> QED
      BY <1>3, <2>2 DEF NoRows
  <1> QED
    BY <1>2, <1>4, <1>5, <1>6, SideBySideStep DEF AgentsInv

LEMMA CommitAgentStep ==
    ASSUME AgentsInv, NEW r \in Requests, CommitAgent(r)
    PROVE  AgentsInv'
  <1> DEFINE a == req[r].agent
  <1>1. /\ req[r].pc = "commit" /\ Committed(r) /\ RequestInv(r) /\ req[r] \in Request
        /\ agents \in [Agents -> Names \cup {None}] /\ versions \in [Versions -> Row]
        /\ NamesDiffer /\ DeletedForGood
    BY DEF AgentsInv, TypeOK, CommitAgent
  <1>2. a \in Agents
    BY <1>1 DEF RequestInv, AgentKnown, Terminal, Request
  <1>3. req' \in [Requests -> Request] /\ Late \subseteq Late'
    BY <1>1, CommitMoves
  <1>4. \A s \in Requests : RequestInv(s)'
    BY <1>1, CommitKeepsRequests
  <1>5. /\ agents' \in [Agents -> Names \cup {None}] /\ versions' \in [Versions -> Row]
        /\ versions' = versions \/ versions' = NoRows
        /\ NamesDiffer' /\ DeletedForGood'
    <2>0. NoRows \in [Versions -> Row]
      BY DEF NoRows, Row
    <2>1. CASE req[r].kind = "create"
      <3>1. /\ NameAllowed(r) /\ agents' = [agents EXCEPT ![a] = req[r].name] /\ versions' = versions
            /\ a # MainAgent /\ req[r].name \in Names
        BY <1>1, <2>1, AgentsAssumption DEF CommitAgent, RequestInv, AgentKnown
      <3>2. NamesDiffer'
        BY <1>1, <1>2, <3>1 DEF NamesDiffer, NameAllowed, NameTaken
      <3>3. DeletedForGood'
        BY <1>1, <1>2, <3>1, AgentsAssumption DEF DeletedForGood
      <3> QED
        BY <1>1, <3>1, <3>2, <3>3
    <2>2. CASE req[r].kind \in {"rename", "describe"} /\ req[r].name # req[r].base
      <3>1. /\ NameAllowed(r) /\ agents' = [agents EXCEPT ![a] = req[r].name] /\ versions' = versions
            /\ req[r].name \in Names /\ agents[a] # None
        BY <1>1, <1>2, <2>2, AgentsAssumption DEF CommitAgent, RequestInv, AgentKnown
      <3>2. NamesDiffer'
        BY <1>1, <1>2, <3>1 DEF NamesDiffer, NameAllowed, NameTaken
      <3>3. DeletedForGood'
        BY <1>1, <1>2, <3>1, AgentsAssumption DEF DeletedForGood
      <3> QED
        BY <1>1, <3>1, <3>2, <3>3
    <2>3. CASE req[r].kind \in {"rename", "describe"} /\ req[r].name = req[r].base
      <3>1. agents' = agents /\ versions' = versions
        BY <1>1, <1>2, <2>3, AgentsAssumption DEF CommitAgent
      <3> QED
        BY <1>1, <3>1 DEF NamesDiffer, DeletedForGood
    <2>4. CASE req[r].kind = "delete"
      <3>1. agents' = [agents EXCEPT ![a] = None] /\ versions' = WithoutAgent(a)
        BY <2>4, AgentsAssumption DEF CommitAgent
      <3>2. NamesDiffer'
        BY <1>1, <1>2, <3>1 DEF NamesDiffer
      <3>3. DeletedForGood'
        BY <1>1, <1>2, <3>1, AgentsAssumption DEF DeletedForGood, WithoutAgent
      <3> QED
        BY <1>1, <2>0, <3>1, <3>2, <3>3 DEF WithoutAgent
    <2> QED
      BY <2>1, <2>2, <2>3, <2>4 DEF CommitAgent
  <1>6. SideBySide'
    <2>1. Published' \subseteq Published
      BY <1>5 DEF Published, WithStatus, NoRows
    <2>2. /\ Cardinality(Published') <= Cardinality(Published)
          /\ Cardinality(Late) <= Cardinality(Late')
      BY <1>3, <2>1, PublishedFinite, LateFinite, FS_Subset
    <2>3. Cardinality(Published) <= 1 + Cardinality(Late)
      BY DEF AgentsInv, SideBySide, Late
    <2>4. Cardinality(Published') <= 1 + Cardinality(Late')
      BY <2>2, <2>3, PublishedFinite, LateFinite
    <2> QED
      BY <2>4 DEF SideBySide, Late
  <1>7. TypeOK'
    BY <1>3, <1>5 DEF TypeOK
  <1> QED
    BY <1>4, <1>5, <1>6, <1>7 DEF AgentsInv

LEMMA RequestStep ==
    ASSUME AgentsInv, NEW r \in Requests, AgentRequest(r) \/ VersionRequest(r) \/ Rollback(r)
    PROVE  AgentsInv'
  <1>1. ASSUME NEW a \in Agents,
               \/ \E n \in Names : CreateAgent(r, a, n) \/ Rename(r, a, n)
               \/ Describe(r, a) \/ Delete(r, a)
        PROVE  AgentsInv'
    BY <1>1, CreateStep, RenameStep, DescribeOrDeleteStep
  <1>2. ASSUME NEW a \in Agents, NotFound(r, a)
        PROVE  AgentsInv'
    BY <1>2, MovedOn DEF NotFound, Terminal
  <1>3. CASE NameChecked(r)
    <2>1. PICK pc \in {"refused", "select"} : Goto(r, pc)
      BY <1>3 DEF NameChecked
    <2>2. Unchanging /\ req[r].pc = "name"
      BY <1>3 DEF NameChecked
    <2> QED
      BY <2>1, <2>2, MovedOn DEF Terminal
  <1>4. CASE SelectAgent(r) \/ CommitAgent(r)
    BY <1>4, SelectAgentStep, CommitAgentStep
  <1>5. ASSUME NEW v \in Versions, CreateVersion(r, v)
        PROVE  AgentsInv'
    <2>1. PICK pc \in {"ok", "refused"} : Goto(r, pc)
      BY <1>5 DEF CreateVersion
    <2>2. Unchanging /\ req[r].pc = "new"
      BY <1>5 DEF CreateVersion
    <2> QED
      BY <2>1, <2>2, MovedOn DEF Terminal
  <1>6. ASSUME NEW v \in Versions, UpdateVersion(r, v) \/ PublishVersion(r, v)
        PROVE  AgentsInv'
    BY <1>6, UpdateVersionStep, PublishVersionStep
  <1>7. CASE AddToolGrant(r)
    BY <1>7, MovedOn DEF AddToolGrant, Terminal
  <1>8. CASE SelectVersion(r) \/ SelectPublished(r) \/ SelectNew(r) \/ CommitVersions(r)
    BY <1>8, SelectVersionStep, SelectPublishedStep, SelectNewStep, CommitVersionsStep
  <1>9. CASE Rollback(r)
    BY <1>9, MovedOn DEF Rollback, Terminal
  <1> QED
    BY <1>1, <1>2, <1>3, <1>4, <1>5, <1>6, <1>7, <1>8, <1>9 DEF AgentRequest, VersionRequest

LEMMA AgentsInvStep == AgentsInv /\ [Next]_vars => AgentsInv'
  <1> SUFFICES ASSUME AgentsInv, [Next]_vars PROVE AgentsInv'
    OBVIOUS
  <1>1. CASE Next
    BY <1>1, RequestStep DEF Next
  <1>2. CASE UNCHANGED vars
    BY <1>2 DEF vars, AgentsInv, TypeOK, RequestInv, LoadedOf, OnVersions, AgentKnown, StatusKnown,
       UpdatesDraft, FoundPublished, AboutToReplace, Published, WithStatus, SideBySide, NamesDiffer,
       DeletedForGood
  <1> QED
    BY <1>1, <1>2

LEMMA AgentsInvHolds == Spec => []AgentsInv
  BY AgentsInvInit, AgentsInvStep, PTL DEF Spec

\* A publication that no other commit overtook ends with its version as the only
\* published one, whatever objects its session still had (publish_version).
THEOREM PublicationsTakeEffect == Spec => PublishTakesEffect
  <1>1. AgentsInv /\ [Next]_vars
          => [\A r \in Requests :
                (req[r].pc = "commit" /\ req'[r].pc = "ok" /\ req[r].kind = "publish"
                   /\ ~req[r].changed)
                => Published' = {req[r].version}]_vars
    <2> SUFFICES ASSUME AgentsInv, Next, NEW r \in Requests, req[r].pc = "commit", req'[r].pc = "ok",
                        req[r].kind = "publish", ~req[r].changed
                 PROVE  Published' = {req[r].version}
      OBVIOUS
    <2>1. PICK s \in Requests : AgentRequest(s) \/ VersionRequest(s) \/ Rollback(s)
      BY DEF Next
    <2>2. req \in [Requests -> Request]
      BY DEF AgentsInv, TypeOK
    <2>3. CASE CommitVersions(s)
      <3>1. s = r
        <4>1. req[s].pc = "commit" /\ Committed(s)
          BY <2>3 DEF CommitVersions
        <4>2. s # r => req'[r].pc = req[r].pc
          BY <4>1, CommitMovesOne
        <4> QED
          BY <4>2
      <3> QED
        BY <2>3, <3>1, ReplacedAlone
    <2>4. CASE CommitAgent(s)
      <3>1. s # r => req'[r].pc = req[r].pc
        <4>1. req[s].pc = "commit" /\ Committed(s)
          BY <2>4 DEF CommitAgent
        <4> QED
          BY <4>1, CommitMovesOne
      <3>2. s = r => req[r].kind # "publish"
        BY <2>4 DEF CommitAgent
      <3> QED
        BY <3>1, <3>2
    <2>5. CASE ~CommitVersions(s) /\ ~CommitAgent(s)
      <3>1. s # r => req'[r] = req[r]
        BY <2>1, <2>2, <2>5 DEF AgentRequest, VersionRequest, CreateAgent, Rename, NotFound, Describe,
           Delete, NameChecked, SelectAgent, CreateVersion, UpdateVersion, PublishVersion, AddToolGrant,
           SelectVersion, SelectPublished, SelectNew, Rollback, Goto
      <3>2. CASE s = r
        <4>1. Rollback(r)
          BY <2>1, <2>5, <3>2 DEF AgentRequest, VersionRequest, CreateAgent, Rename, NotFound, Describe,
             Delete, NameChecked, SelectAgent, CreateVersion, UpdateVersion, PublishVersion,
             AddToolGrant, SelectVersion, SelectPublished, SelectNew
        <4>2. req'[r].pc = "failed"
          BY <2>2, <4>1 DEF Rollback, Goto, Request
        <4> QED
          BY <4>2
      <3> QED
        BY <3>1, <3>2
    <2> QED
      BY <2>3, <2>4, <2>5
  <1> QED
    BY <1>1, AgentsInvHolds, PTL DEF Spec, PublishTakesEffect

\* A published or archived version is rewritten, in its text or back to a draft,
\* only by the commit of an update that read it as a draft and was overtaken
\* since (update_agent_version).
THEOREM FixedVersionsStayFixed == Spec => FixedUnlessOvertaken
  <1>1. AgentsInv /\ [Next]_vars
          => [\A v \in Versions :
                Rewritten(v) => \E r \in Requests : RewrittenBy(r, v)]_vars
    <2> SUFFICES ASSUME AgentsInv, Next, NEW v \in Versions, Rewritten(v)
                 PROVE  \E r \in Requests : RewrittenBy(r, v)
      OBVIOUS
    <2>1. PICK s \in Requests : AgentRequest(s) \/ VersionRequest(s) \/ Rollback(s)
      BY DEF Next
    <2>2. versions[v] # None /\ versions'[v] # None /\ versions'[v] # versions[v]
      BY DEF Rewritten
    <2>3. ~CommitAgent(s)
      BY <2>2 DEF CommitAgent, WithoutAgent, NoRows
    <2>4. CommitVersions(s)
      BY <2>1, <2>2, <2>3 DEF AgentRequest, VersionRequest, CreateAgent, Rename, NotFound, Describe,
         Delete, NameChecked, SelectAgent, CreateVersion, UpdateVersion, PublishVersion, AddToolGrant,
         SelectVersion, SelectPublished, SelectNew, Rollback, Unchanging
    <2>5. /\ RequestInv(s) /\ req[s].pc = "commit" /\ Committed(s)
          /\ req[s].kind \in {"update", "publish"}
      BY <2>4 DEF AgentsInv, CommitVersions
    <2>6. ASSUME versions[v].status # "draft", versions'[v].status = "draft"
          PROVE  req[s].status[v] = "draft"
      BY <2>2, <2>4, <2>6, WrittenRow
    <2>7. ASSUME req[s].status[v] = "draft"
          PROVE  req[s].kind = "update" /\ v = req[s].version
      BY <2>5, <2>7, AgentsAssumption DEF RequestInv, StatusKnown, AgentStatus
    <2>8. req[s].kind = "update" /\ v = req[s].version
      BY <2>2, <2>4, <2>6, <2>7, WrittenRow DEF Rewritten
    <2>9. req[s].entity[v].status = "draft" /\ (~req[s].changed => req[s].entity = versions)
      BY <2>5, <2>8 DEF RequestInv, UpdatesDraft, LoadedOf, OnVersions, Terminal
    <2>10. req'[s].pc = "ok"
      BY <2>5 DEF Committed, AgentsInv, TypeOK, Request
    <2> QED
      BY <2>5, <2>8, <2>9, <2>10 DEF RewrittenBy
  <1> QED
    BY <1>1, AgentsInvHolds, PTL DEF Spec, FixedUnlessOvertaken

\* The rows and what the sessions know of them have their types.
THEOREM TypeCorrect == Spec => []TypeOK
  <1>1. AgentsInv => TypeOK
    BY DEF AgentsInv
  <1> QED
    BY <1>1, AgentsInvHolds, PTL

\* However publications overlap, only as many versions are published side by
\* side as publications were overtaken (the two selects of publish_version).
THEOREM SideBySideIsBounded == Spec => []SideBySide
  <1>1. AgentsInv => SideBySide
    BY DEF AgentsInv
  <1> QED
    BY <1>1, AgentsInvHolds, PTL

\* No two agents ever have one name, though the name is looked up long before
\* it is written (get_by_name, agents_tenant_name_unique).
THEOREM NamesStayDistinct == Spec => []NamesDiffer
  <1>1. AgentsInv => NamesDiffer
    BY DEF AgentsInv
  <1> QED
    BY <1>1, AgentsInvHolds, PTL

\* The versions of a deleted agent never come back (ON DELETE CASCADE).
THEOREM DeletionIsForGood == Spec => []DeletedForGood
  <1>1. AgentsInv => DeletedForGood
    BY DEF AgentsInv
  <1> QED
    BY <1>1, AgentsInvHolds, PTL

\* The tables stay coherent.
THEOREM VersionsStayCoherent == Spec => []VersionsCoherent
  BY TypeCorrect, SideBySideIsBounded, NamesStayDistinct, DeletionIsForGood, PTL
     DEF VersionsCoherent

=============================================================================
