-------------------------------- MODULE Agents --------------------------------
(***************************************************************************)
(* Agents and their versions: the Agent and AgentVersion entities          *)
(* (app/domain/entities/agent.py), AgentUseCases                           *)
(* (app/application/use_cases/agent.py), SQLAgentRepository                *)
(* (app/infrastructure/db/repositories/agent.py) and the endpoints of      *)
(* app/api/v1/agents/router.py, for the agents of one tenant.              *)
(*                                                                         *)
(* Every request has a database session of its own: it loads the agent     *)
(* with its versions (Load), decides on the entities, selects the rows     *)
(* again and changes them (Select...), and only the columns that differ    *)
(* from what the session knows are written (Commit, READ COMMITTED).  The  *)
(* session's identity map is weak: a row selected a second time is the old *)
(* object with its old values if Python still keeps that, and is read anew *)
(* if not (req.kept).  The commit is the caller's, as for Approvals.       *)
(*                                                                         *)
(* No operation of the code inserts a version: POST .../versions answers   *)
(* with an entity that is never stored, and adding a grant raises.  The    *)
(* versions of MainAgent are drafts somebody else inserted.                *)
(***************************************************************************)
EXTENDS Integers, FiniteSets

CONSTANTS
    Requests,       \* the requests, each with a session of its own
    Agents,         \* ids of agents
    MainAgent,      \* the agent that exists at first, with all the Versions
    Names,          \* names agents may have
    FirstName,      \* MainAgent's name
    Versions,       \* version numbers of MainAgent
    None            \* no row, no value

AgentStatus == {"draft", "published", "archived"}

Kind == {"create", "rename", "describe", "delete", "update", "publish"}

\* A prompt, model policy and memory mode are known by who wrote them.
Text == Requests \cup {"first"}

Version == [status : AgentStatus, text : Text]

ASSUME AgentsAssumption ==
    /\ MainAgent \in Agents
    /\ FirstName \in Names
    /\ None \notin Agents \cup Names \cup Versions \cup Version \cup AgentStatus \cup Kind
    /\ "first" \notin Requests
    /\ IsFiniteSet(Versions) /\ IsFiniteSet(Requests)

VARIABLES
    agents,     \* table agents: the name of each, None if there is no row
    versions,   \* table agent_versions, the rows of MainAgent
    req         \* the requests

vars == <<agents, versions, req>>

Row == Version \cup {None}

\* entity: the versions it loaded; kept: the identity map still has them;
\* found: the published version publish_version selected; status: what will be
\* written; changed (history): another request committed a write since Load.
Request ==
    [pc : {"new", "name", "select", "archive", "publish", "commit", "ok", "refused", "failed"},
     kind : Kind \cup {None}, agent : Agents \cup {None}, version : Versions \cup {None},
     name : Names \cup {None}, base : Names \cup {None},
     entity : [Versions -> Row], kept : BOOLEAN, changed : BOOLEAN,
     found : Versions \cup {None}, status : [Versions -> AgentStatus \cup {None}]]

TypeOK ==
    /\ agents \in [Agents -> Names \cup {None}]
    /\ versions \in [Versions -> Row]
    /\ req \in [Requests -> Request]

NoRows == [v \in Versions |-> None]

Init ==
    /\ agents = [a \in Agents |-> IF a = MainAgent THEN FirstName ELSE None]
    /\ versions = [v \in Versions |-> [status |-> "draft", text |-> "first"]]
    /\ req = [r \in Requests |->
                [pc |-> "new", kind |-> None, agent |-> None, version |-> None,
                 name |-> None, base |-> None, entity |-> NoRows, kept |-> FALSE,
                 changed |-> FALSE, found |-> None, status |-> NoRows]]

Goto(r, pc) == req' = [req EXCEPT ![r].pc = pc]

\* versions whose row in rows has this status.
WithStatus(rows, s) == {v \in Versions : rows[v] # None /\ rows[v].status = s}

Published == WithStatus(versions, "published")

NameTaken(n, self) == \E a \in Agents \ {self} : agents[a] = n

Unchanging == UNCHANGED <<agents, versions>>

-----------------------------------------------------------------------------
(* The agents.                                                             *)

\* create_agent: get_by_name, then the insert.
CreateAgent(r, a, n) ==
    /\ req[r].pc = "new"
    /\ agents[a] = None
    /\ a # MainAgent
    /\ \A q \in Requests : req[q].agent # a
    /\ req' = [req EXCEPT ![r].kind = "create", ![r].agent = a, ![r].name = n,
                          ![r].pc = IF NameTaken(n, a) THEN "refused" ELSE "commit"]
    /\ Unchanging

\* What get_agent read: the agent's name, and its versions.
Loaded(r, a, kind, pc) ==
    [req[r] EXCEPT !.kind = kind, !.agent = a, !.pc = pc, !.base = agents[a],
                   !.name = agents[a],
                   !.entity = IF a = MainAgent THEN versions ELSE NoRows]

\* No row, or one of another tenant: 404, and ValueError where versions are
\* created.
NotFound(r, a) ==
    /\ req[r].pc = "new"
    /\ agents[a] = None
    /\ Goto(r, "refused")
    /\ Unchanging

\* update_agent with a new name: one more await to look the name up.
Rename(r, a, n) ==
    /\ req[r].pc = "new"
    /\ agents[a] # None
    /\ req' = [req EXCEPT ![r] = [Loaded(r, a, "rename", "name") EXCEPT !.name = n]]
    /\ Unchanging

NameChecked(r) ==
    /\ req[r].pc = "name"
    /\ Goto(r, IF NameTaken(req[r].name, req[r].agent) THEN "refused" ELSE "select")
    /\ Unchanging

\* update_agent with a description only; the name it read is assigned too.
Describe(r, a) ==
    /\ req[r].pc = "new"
    /\ agents[a] # None
    /\ req' = [req EXCEPT ![r] = Loaded(r, a, "describe", "select")]
    /\ Unchanging

\* "Soft delete": the row is deleted, and the versions go with it.
Delete(r, a) ==
    /\ req[r].pc = "new"
    /\ agents[a] # None
    /\ req' = [req EXCEPT ![r] = Loaded(r, a, "delete", "select")]
    /\ Unchanging

\* repository.update and soft_delete: the row by its id.
SelectAgent(r) ==
    /\ req[r].pc = "select"
    /\ req[r].kind \in {"rename", "describe", "delete"}
    /\ \E kept \in BOOLEAN :
          IF agents[req[r].agent] = None
          THEN Goto(r, IF req[r].kind = "delete" THEN "refused" ELSE "failed")
          ELSE req' = [req EXCEPT ![r].pc = "commit", ![r].kept = kept,
                                  ![r].base = IF kept THEN @ ELSE agents[req[r].agent]]
    /\ Unchanging

-----------------------------------------------------------------------------
(* The versions.                                                           *)

\* create_agent_version looks the number up, answers 201 and stores nothing.
CreateVersion(r, v) ==
    /\ req[r].pc = "new"
    /\ agents[MainAgent] # None
    /\ Goto(r, IF versions[v] = None THEN "ok" ELSE "refused")
    /\ Unchanging

\* add_tool_grant raises whatever it is asked: the policy it was sent is no
\* ToolPolicy.
AddToolGrant(r) ==
    /\ req[r].pc = "new"
    /\ agents[MainAgent] # None
    /\ Goto(r, "refused")
    /\ Unchanging

\* Mutated form: what is published can be updated.
IsMutableAlways(row) == row.status # "archived"

IsMutable(row) == row.status = "draft"

\* update_agent_version: the entity just read must be a draft.
UpdateVersion(r, v) ==
    /\ req[r].pc = "new"
    /\ agents[MainAgent] # None
    /\ req' = [req EXCEPT ![r] =
                 IF versions[v] # None /\ IsMutable(versions[v])
                 THEN [Loaded(r, MainAgent, "update", "select") EXCEPT !.version = v]
                 ELSE [@ EXCEPT !.pc = "refused"]]
    /\ Unchanging

\* The status the session takes row v to have when it selects it again.
Known(r, v, kept) == IF kept THEN req[r].entity[v].status ELSE versions[v].status

\* What a flush writes to a column that is now new and was known to be old.
Dirty(new, old) == IF new # old THEN new ELSE None

\* update_version: the text is the request's own, the status the entity's.
SelectVersion(r) ==
    /\ req[r].pc = "select"
    /\ req[r].kind = "update"
    /\ LET v == req[r].version
       IN \E kept \in BOOLEAN :
            IF versions[v] = None
            THEN Goto(r, "failed")
            ELSE req' = [req EXCEPT ![r].pc = "commit", ![r].kept = kept,
                           ![r].status[v] = Dirty("draft", Known(r, v, kept))]
    /\ Unchanging

\* publish_agent_version: the entities are published first; a version the
\* entity has published already is answered as it is, and written all the
\* same.
PublishVersion(r, v) ==
    /\ req[r].pc = "new"
    /\ agents[MainAgent] # None
    /\ req' = [req EXCEPT ![r] =
                 IF versions[v] = None
                 THEN [@ EXCEPT !.pc = "failed"]
                 ELSE [Loaded(r, MainAgent, "publish", "archive") EXCEPT !.version = v]]
    /\ Unchanging

\* Repository.publish_version, "Archive current published".  More than one:
\* scalar_one_or_none raises.
SelectPublished(r) ==
    /\ req[r].pc = "archive"
    /\ IF Cardinality(Published) > 1
       THEN Goto(r, "failed")
       ELSE \E kept \in BOOLEAN :
              req' = [req EXCEPT ![r].pc = "publish", ![r].kept = kept,
                        ![r].found = IF Published = {} THEN None
                                     ELSE CHOOSE v \in Published : TRUE]
    /\ Unchanging

\* Mutated form: the version that was published is not archived.
ArchivedAndPublishedOnly(r, v, known) ==
    [NoRows EXCEPT ![v] = Dirty("published", known)]

\* The statuses to write, known being what the session has for v.  The object
\* of the version that was found may be an older one with another status.
ArchivedAndPublished(r, v, known) ==
    LET f == req[r].found
        archived == IF f = None THEN NoRows
                    ELSE [NoRows EXCEPT ![f] =
                            Dirty("archived", IF req[r].kept THEN req[r].entity[f].status
                                              ELSE "published")]
    IN [archived EXCEPT ![v] =
          Dirty("published", IF v = f /\ ~req[r].kept THEN "published" ELSE known)]

\* "Publish new version".
SelectNew(r) ==
    /\ req[r].pc = "publish"
    /\ LET v == req[r].version
       IN IF versions[v] = None
          THEN Goto(r, "failed")
          ELSE req' = [req EXCEPT ![r].pc = "commit",
                         ![r].status = ArchivedAndPublished(r, v, Known(r, v, req[r].kept))]
    /\ Unchanging

-----------------------------------------------------------------------------
(* The end of a request's transaction.                                     *)

\* The rows req[r] changes; an UPDATE of a row that has gone fails the flush.
RowsToWrite(r) ==
    {v \in Versions : \/ req[r].status[v] # None
                      \/ req[r].kind = "update" /\ v = req[r].version}

Written(r, v) ==
    IF v \in RowsToWrite(r)
    THEN [status |-> IF req[r].status[v] = None THEN versions[v].status ELSE req[r].status[v],
          text |-> IF req[r].kind = "update" THEN r ELSE versions[v].text]
    ELSE versions[v]

\* r's own progress, and the other requests it has overtaken.
Committed(r) ==
    req' = [q \in Requests |->
              IF q = r THEN [req[r] EXCEPT !.pc = "ok"]
              ELSE [req[q] EXCEPT !.changed = @ \/ req[q].pc \notin {"new", "ok", "refused", "failed"}]]

CommitVersions(r) ==
    /\ req[r].pc = "commit"
    /\ req[r].kind \in {"update", "publish"}
    /\ \A v \in RowsToWrite(r) : versions[v] # None
    /\ versions' = [v \in Versions |-> Written(r, v)]
    /\ Committed(r)
    /\ UNCHANGED agents

\* agents_tenant_name_unique.
NameAllowed(r) == ~NameTaken(req[r].name, req[r].agent)

\* Mutated form: the versions' foreign key has no ON DELETE CASCADE.
WithoutAgentOnly(a) == versions

WithoutAgent(a) == IF a = MainAgent THEN NoRows ELSE versions

CommitAgent(r) ==
    /\ req[r].pc = "commit"
    /\ LET a == req[r].agent
       IN \/ /\ req[r].kind = "create"
             /\ NameAllowed(r)
             /\ agents' = [agents EXCEPT ![a] = req[r].name]
             /\ UNCHANGED versions
          \/ /\ req[r].kind \in {"rename", "describe"}
             /\ agents[a] # None
             /\ req[r].name # req[r].base => NameAllowed(r)
             /\ agents' = [agents EXCEPT ![a] = IF req[r].name # req[r].base
                                                THEN req[r].name ELSE @]
             /\ UNCHANGED versions
          \/ /\ req[r].kind = "delete"
             /\ agents' = [agents EXCEPT ![a] = None]
             /\ versions' = WithoutAgent(a)
    /\ Committed(r)

\* The flush finds a row gone or a name taken, the commit fails or the process
\* dies.
Rollback(r) ==
    /\ req[r].pc = "commit"
    /\ Goto(r, "failed")
    /\ Unchanging

AgentRequest(r) ==
    \/ \E a \in Agents :
          \/ \E n \in Names : CreateAgent(r, a, n) \/ Rename(r, a, n)
          \/ NotFound(r, a)
          \/ Describe(r, a)
          \/ Delete(r, a)
    \/ NameChecked(r)
    \/ SelectAgent(r)
    \/ CommitAgent(r)

VersionRequest(r) ==
    \/ \E v \in Versions : CreateVersion(r, v) \/ UpdateVersion(r, v) \/ PublishVersion(r, v)
    \/ AddToolGrant(r)
    \/ SelectVersion(r)
    \/ SelectPublished(r)
    \/ SelectNew(r)
    \/ CommitVersions(r)

Next == \E r \in Requests : AgentRequest(r) \/ VersionRequest(r) \/ Rollback(r)

Spec == Init /\ [][Next]_vars

-----------------------------------------------------------------------------
(* Properties.                                                             *)

\* A publication that nothing overtook does what its endpoint says: the version
\* is published, and it is the only one ("Any currently published version will
\* be archived"), whichever objects the session still held.
PublishTakesEffect ==
    [][\A r \in Requests :
          (req[r].pc = "commit" /\ req'[r].pc = "ok" /\ req[r].kind = "publish"
             /\ ~req[r].changed)
          => Published' = {req[r].version}]_vars

\* Versions are published side by side only by publications that overtook each
\* other, one more for each (the two selects of publish_version).
SideBySide ==
    Cardinality(Published)
        <= 1 + Cardinality({r \in Requests : req[r].kind = "publish" /\ req[r].pc = "ok"
                                             /\ req[r].changed})

\* This step rewrites version v: its text, or its status back to a draft.
Rewritten(v) ==
    /\ versions[v] # None /\ versions'[v] # None
    /\ \/ versions'[v].text # versions[v].text
       \/ versions[v].status # "draft" /\ versions'[v].status = "draft"

\* This step commits r, an update of v that read it as a draft, and that was
\* overtaken if v is none any more.
RewrittenBy(r, v) ==
    /\ req[r].pc = "commit" /\ req'[r].pc = "ok"
    /\ req[r].kind = "update" /\ req[r].version = v
    /\ req[r].entity[v].status = "draft"
    /\ versions[v].status # "draft" => req[r].changed

\* How far "Published and archived versions cannot be modified"
\* (agents/router.py:304-305) can be relied on: a version that is not a draft is
\* rewritten only by an update that read it as a draft and that another commit
\* overtook.  Such an update does rewrite it, and may make it a draft again.
FixedUnlessOvertaken ==
    [][\A v \in Versions :
          Rewritten(v) => \E r \in Requests : RewrittenBy(r, v)]_vars

\* Two agents of a tenant never share a name, although get_by_name and the write
\* are apart, and a description writes back the name it read.
NamesDiffer ==
    \A a, b \in Agents : a # b /\ agents[a] # None => agents[a] # agents[b]

\* With its agent a version is gone for good: no update or publication under
\* way brings it back.
DeletedForGood ==
    agents[MainAgent] = None => versions = NoRows

\* What overlapping requests leave in the two tables: distinct names, no version
\* without its agent, and side by side only what was published past each other.
VersionsCoherent ==
    /\ TypeOK
    /\ SideBySide
    /\ NamesDiffer
    /\ DeletedForGood

=============================================================================
