---------------------------- MODULE MemoryRecords ----------------------------
(***************************************************************************)
(* The durable memory of one tenant's agent: MemoryWriteService,           *)
(* MemoryRetrievalService and MemoryCleanupService (app/application/       *)
(* services/), the repositories of app/infrastructure/db/repositories/     *)
(* memory.py, the retention policy of app/domain/entities/memory.py and    *)
(* the endpoints of app/api/v1/memory/router.py.                           *)
(*                                                                         *)
(* Each request has a database session of its own (READ COMMITTED): what   *)
(* it inserts and deletes is in req.tx until the commit, which is the      *)
(* caller's.  Every query, and every embedding, is an await.               *)
(*                                                                         *)
(* repositories/memory.py has a cast Python cannot parse                   *)
(* (metadata::text), so that none of this loads as it stands; it is        *)
(* modelled with the cast read as what it means.  Time is counted in days. *)
(***************************************************************************)
EXTENDS TextPipeline

CONSTANTS
    Requests,       \* the requests, each with a session of its own
    Texts,          \* what they write
    Unit,           \* the size of a megabyte, in tokens
    Policies,       \* retention policies a scope may be given
    ResultLimit,    \* limit of a search
    Times,          \* bound: the days at which something happens
    Never,          \* no expiry
    None

MemoryScope == {"ephemeral", "session", "durable"}

MemoryRetentionPolicy == [days : Nat \ {0}, records : Nat \cup {None}, storage : Nat \cup {None}]

ASSUME MemoryAssumption ==
    /\ IsFiniteSet(Requests)
    /\ Texts \subseteq Seq(Token)
    /\ Policies \subseteq MemoryRetentionPolicy
    /\ Unit \in Nat \ {0} /\ ResultLimit \in Nat \ {0}
    /\ Times \subseteq Nat /\ 0 \in Times
    /\ Never \notin Nat /\ None \notin Nat

VARIABLES
    records,    \* table memory_records
    policies,   \* table memory_retention_policies: the row of each scope
    outbox,     \* the records memory.written events were committed for
    now,        \* the database's clock
    req         \* the requests

recordVars == <<records, policies, outbox, now, req>>

Bounds == [start : Nat, end : Nat]

\* A chunk, known by the request that stored it and the bounds in its text;
\* clear: it holds what the classifier found in that text, as it was.
Record == [by : Requests \cup {"first"}, part : Bounds, scope : MemoryScope, size : Nat,
           clear : BOOLEAN, label : AllowedUseLabel, expires : Nat \cup {Never}]

RecordTypeOK ==
    /\ policies \in [MemoryScope -> MemoryRetentionPolicy \cup {None}]
    /\ \A m \in records \cup outbox : m \in Record
    /\ now \in Times
    /\ \A r \in Requests : /\ req[r].tx.inserted = req[r].tx.events
                           /\ \A m \in req[r].tx.inserted : m \in Record /\ m.by = r

Live(r, t) == r.expires = Never \/ r.expires > t

-----------------------------------------------------------------------------
(* MemoryRetentionPolicy.                                                  *)

\* Mutated form: the quota is exceeded above the limit, not at it.
AtLimitAbove(n, limit) == limit # None /\ n > limit

AtLimit(n, limit) == limit # None /\ n >= limit

\* is_quota_exceeded; storage in tokens, the limit in megabytes.
QuotaExceeded(policy, count, storage) ==
    \/ AtLimit(count, policy.records)
    \/ policy.storage # None /\ AtLimit(storage, policy.storage * Unit)

\* calculate_expiry, and the defaults of _calculate_expiry.
Expiry(policy, scope, t) ==
    IF policy # None THEN t + policy.days
    ELSE CASE scope = "ephemeral" -> t + 1
           [] scope = "session" -> t + 7
           [] scope = "durable" -> Never

-----------------------------------------------------------------------------
(* The repository; tx is what the session has done itself.                 *)

Visible(tx) == (records \ tx.deleted) \cup tx.inserted

\* count_by_tenant.
CountByTenant(tx, scope) == Cardinality({m \in Visible(tx) : m.scope = scope})

\* get_storage_size_bytes: over all scopes.
StorageSize(tx) == Cardinality(UNION {{m} \X (1..m.size) : m \in Visible(tx)})

\* Mutated form: a record without an expiry is an expired one.
ExpiredOrNever(m, t) == m.expires = Never \/ m.expires < t

\* delete_expired: expires_at < now().
Expired(m, t) == m.expires # Never /\ m.expires < t

\* _decrypt_record: what is not public is classified and redacted once more, so
\* that what was found in it is found again.
DecryptRecord(m) == [m EXCEPT !.clear = @ /\ m.label = "public"]

\* search_by_vector: the limit's worth of the live records; which, the
\* embeddings decide.
SearchByVector(tx, scope, limit) ==
    LET live == {m \in Visible(tx) : m.scope = scope /\ Live(m, now)}
    IN {s \in SUBSET live : Cardinality(s) = Sets!Min({limit, Cardinality(live)})}

\* get_by_tenant_agent, get: the expired ones too.
GetByTenantAgent(tx, limit) ==
    {s \in SUBSET Visible(tx) : Cardinality(s) <= limit}

-----------------------------------------------------------------------------
(* Steps.                                                                  *)

NoTx == [inserted |-> {}, deleted |-> {}, events |-> {}, policy |-> None]

\* text: normalized, then redacted; found (history): where the classifier found
\* something in it; chunks: still to be stored; alone (history): no other
\* request committed since this one began; began: when; over: the scopes a
\* cleanup reported; served: what a search answered.
RecordFields ==
    [pc |-> "new", kind |-> None, text |-> <<>>, found |-> {}, label |-> "public", scope |-> "session",
     policy |-> None, count |-> 0, chunks |-> <<>>, expires |-> Never, rounds |-> 0,
     tx |-> NoTx, alone |-> TRUE, began |-> 0, over |-> {}, served |-> {}]

\* A request that has ended.
Over(r, pc) == [RecordFields EXCEPT !.pc = pc, !.kind = req[r].kind]

Goto(r, pc) == req' = [req EXCEPT ![r].pc = pc]

Unchanged == UNCHANGED <<records, policies, outbox, now>>

Ended == {"new", "ok", "refused", "failed"}

Begun(r, kind, pc) ==
    [req[r] EXCEPT !.pc = pc, !.kind = kind, !.began = now]

\* write_memory: normalize and validate_size; ValueError.
WriteMemory(r) ==
    /\ req[r].pc = "new"
    /\ \E text \in Texts, scope \in MemoryScope :
          LET normal == Normalized(text)
          IN req' = [req EXCEPT ![r] =
                       [Begun(r, "write", IF TooLarge(normal) THEN "refused" ELSE "policy")
                          EXCEPT !.text = normal, !.scope = scope]]
    /\ Unchanged

\* _check_quota: the policy ...
GetPolicy(r) ==
    /\ req[r].pc = "policy"
    /\ req' = [req EXCEPT ![r].policy = policies[req[r].scope],
                          ![r].pc = IF policies[req[r].scope] = None THEN "prepare" ELSE "count"]
    /\ Unchanged

\* ... the records of the scope ...
CountRecords(r) ==
    /\ req[r].pc = "count"
    /\ req' = [req EXCEPT ![r].count = CountByTenant(req[r].tx, req[r].scope), ![r].pc = "storage"]
    /\ Unchanged

\* ... and the storage of the tenant; MemoryQuotaExceededError.
CheckQuota(r) ==
    /\ req[r].pc = "storage"
    /\ req' = [req EXCEPT ![r] =
                 IF QuotaExceeded(@.policy, @.count, StorageSize(@.tx))
                 THEN Over(r, "failed") ELSE [@ EXCEPT !.pc = "prepare"]]
    /\ Unchanged

\* The text that is chunked.
Processed(text) == Redacted(text, Classified(text))

\* Where a write goes when its last chunk is stored.
AfterWrite(r) == IF req[r].kind = "end" THEN "final" ELSE "commit"

\* Classify, redact and chunk, and _calculate_expiry, which reads the policy
\* again.  A text of whitespace has no chunk, and stores nothing.
Prepare(r) ==
    /\ req[r].pc = "prepare"
    /\ LET text == Processed(req[r].text)
           chunks == Chunks(text)
           scope == req[r].scope
       IN req' = [req EXCEPT ![r].text = text, ![r].chunks = chunks,
                    ![r].found = FoundIn(req[r].text),
                    ![r].label = Classified(req[r].text).label,
                    ![r].expires = Expiry(policies[scope], scope, now),
                    ![r].pc = IF chunks = <<>> THEN AfterWrite(r) ELSE "store"]
    /\ Unchanged

\* What is stored for a chunk of r's text.
NewRecord(r, part) ==
    [by |-> r, part |-> part, scope |-> req[r].scope,
     size |-> Len(Content(req[r].text, part)),
     clear |-> \E i \in req[r].found : /\ part.start < i /\ i <= part.end
                                       /\ req[r].text[i] # "[REDACTED]",
     label |-> req[r].label, expires |-> req[r].expires]

\* _publish_memory_written_event, in the same transaction.
WithEvent(tx, m) == tx.events \cup {m}

\* One chunk: the embedding (the fallback provider never fails), the
\* ciphertext, the record and its event.
StoreChunk(r) ==
    /\ req[r].pc = "store"
    /\ LET m == NewRecord(r, Head(req[r].chunks))
           tx == req[r].tx
       IN req' = [req EXCEPT ![r].chunks = Tail(@),
                    ![r].tx = [tx EXCEPT !.inserted = @ \cup {m}, !.events = WithEvent(tx, m)],
                    ![r].pc = IF Tail(req[r].chunks) = <<>> THEN AfterWrite(r) ELSE @]
    /\ Unchanged

\* EncryptionError, or the database refuses the row: the session is rolled
\* back.
StoreFails(r) ==
    /\ req[r].pc = "store"
    /\ req' = [req EXCEPT ![r] = Over(r, "failed")]
    /\ Unchanged

\* search_by_metadata: the expired ones too.
SearchByMetadata(tx, scope, limit) ==
    {s \in SUBSET {m \in Visible(tx) : m.scope = scope} : Cardinality(s) <= limit}

\* _decrypt_and_redact_results.
Decrypted(found) == {DecryptRecord(m) : m \in found}

\* The threshold and the metadata filters, those of a session among them: they
\* leave some of what was found.
MetadataFiltered(answers) == UNION {SUBSET found : found \in answers}

\* retrieve_memory.
RetrieveMemory(scope) ==
    {Decrypted(s) : s \in MetadataFiltered(SearchByVector(NoTx, scope, ResultLimit))}

\* retrieve_by_session, which nothing calls yet: what a search by a vector of
\* zeroes finds of the session.
RetrieveBySession(scope) ==
    {Decrypted(s) : s \in MetadataFiltered(SearchByVector(NoTx, scope, ResultLimit))}

\* retrieve_by_metadata, which nothing calls yet.
RetrieveByMetadata(scope) ==
    {Decrypted(s) : s \in SearchByMetadata(NoTx, scope, ResultLimit)}

\* list_memory_records.
ListMemoryRecords == {{DecryptRecord(m) : m \in s} : s \in GetByTenantAgent(NoTx, ResultLimit)}

\* get_memory_record: by its id, expired or not.
GetMemoryRecord == {{DecryptRecord(m)} : m \in Visible(NoTx)}

Answer(r, served) ==
    /\ req[r].pc = "new"
    /\ req' = [req EXCEPT ![r] = [Over(r, "ok") EXCEPT !.served = served]]
    /\ Unchanged

SearchMemory(r) ==
    \E scope \in MemoryScope :
        \E s \in RetrieveMemory(scope) \cup RetrieveBySession(scope) \cup RetrieveByMetadata(scope) :
            Answer(r, s)

ListRecords(r) == \E s \in ListMemoryRecords : Answer(r, s)

GetRecord(r) == \E s \in GetMemoryRecord : Answer(r, s)

\* GET /memory/stats is taken for a record with the id "stats".
GetMemoryStats(r) ==
    /\ req[r].pc = "new"
    /\ Goto(r, "refused")
    /\ Unchanged

\* DELETE /memory/{id} answers 204 and does nothing.
DeleteRecord(r) == Answer(r, {})

-----------------------------------------------------------------------------
(* run_full_cleanup.                                                       *)

\* cleanup_expired deletes the expired records of the tenant once for each
\* scope, enforce_retention_policies once for each scope with a policy.
Scopes == <<"ephemeral", "session", "durable">>

RunFullCleanup(r) ==
    /\ req[r].pc = "new"
    /\ req' = [req EXCEPT ![r] = [Begun(r, "cleanup", "expired") EXCEPT !.rounds = 2 * Len(Scopes)]]
    /\ Unchanged

\* delete_expired, whichever scope it is called for.
Deleted(r) == {m \in Visible(req[r].tx) : Expired(m, now)}

NextRound(r, deleted) ==
    req' = [req EXCEPT ![r].rounds = @ - 1, ![r].tx.deleted = @ \cup deleted,
                       ![r].pc = IF req[r].rounds = 1 THEN "quotas" ELSE @]

CleanupExpired(r) ==
    /\ req[r].pc = "expired"
    /\ req[r].rounds > Len(Scopes)
    /\ NextRound(r, Deleted(r))
    /\ Unchanged

\* _enforce_scope_retention.
EnforceRetention(r) ==
    /\ req[r].pc = "expired"
    /\ req[r].rounds \in 1..Len(Scopes)
    /\ LET scope == Scopes[Len(Scopes) + 1 - req[r].rounds]
       IN NextRound(r, IF policies[scope] = None THEN {} ELSE Deleted(r))
    /\ Unchanged

\* A delete that fails is caught, but the transaction is aborted with it: the
\* queries of enforce_quotas, where nothing is caught, raise.
CleanupFails(r) ==
    /\ req[r].pc \in {"expired", "quotas"}
    /\ req' = [req EXCEPT ![r] = Over(r, "failed")]
    /\ Unchanged

\* int(storage_mb): whole megabytes.
ReportedStorage(storage) == (storage \div Unit) * Unit

\* enforce_quotas, get_quota_status: it reports and enforces nothing.
EnforceQuotas(r) ==
    /\ req[r].pc = "quotas"
    /\ LET tx == req[r].tx
           over == {scope \in MemoryScope :
                      policies[scope] # None
                        /\ QuotaExceeded(policies[scope], CountByTenant(tx, scope),
                                         ReportedStorage(StorageSize(tx)))}
       IN req' = [req EXCEPT ![r].over = over, ![r].pc = "commit"]
    /\ Unchanged

-----------------------------------------------------------------------------
(* MemoryRetentionPolicyRepository.upsert, which nothing calls yet: the    *)
(* row is looked up, then written.                                         *)

Upsert(r) ==
    /\ req[r].pc = "new"
    /\ \E scope \in MemoryScope, p \in Policies :
          req' = [req EXCEPT ![r] = [Begun(r, "upsert", "commit")
                    EXCEPT !.scope = scope, !.policy = policies[scope], !.tx.policy = p]]
    /\ Unchanged

-----------------------------------------------------------------------------
(* The end of a request's transaction.                                     *)

Committed(tx) == (records \ tx.deleted) \cup tx.inserted

\* r goes on as next, having written something: the requests under way are no
\* longer alone.
Overtaking(r, next) ==
    req' = [q \in Requests |->
              IF q = r THEN next
              ELSE IF req[q].pc \in Ended THEN req[q] ELSE [req[q] EXCEPT !.alone = FALSE]]

\* A policy that was not there is inserted, and the table has one for a scope.
CommitRecords(r) ==
    /\ req[r].pc = "commit"
    /\ req[r].kind \in {"write", "cleanup", "upsert"}
    /\ req[r].kind = "upsert" /\ req[r].policy = None => policies[req[r].scope] = None
    /\ records' = Committed(req[r].tx)
    /\ outbox' = outbox \cup req[r].tx.events
    /\ policies' = IF req[r].kind = "upsert"
                   THEN [policies EXCEPT ![req[r].scope] = req[r].tx.policy] ELSE policies
    /\ Overtaking(r, Over(r, "ok"))
    /\ UNCHANGED now

\* The commit fails, the process dies, or the policy is there already.
RollbackRecords(r) ==
    /\ req[r].pc = "commit"
    /\ req[r].kind \in {"write", "cleanup", "upsert"}
    /\ req' = [req EXCEPT ![r] = Over(r, "failed")]
    /\ Unchanged

Tick ==
    /\ \E t \in Times : t > now /\ now' = t
    /\ UNCHANGED <<records, policies, outbox, req>>

WritePipeline(r) ==
    \/ GetPolicy(r)
    \/ CountRecords(r)
    \/ CheckQuota(r)
    \/ Prepare(r)
    \/ StoreChunk(r)
    \/ StoreFails(r)

RecordRequest(r) ==
    \/ WriteMemory(r)
    \/ SearchMemory(r) \/ ListRecords(r) \/ GetRecord(r) \/ GetMemoryStats(r)
    \/ DeleteRecord(r)
    \/ RunFullCleanup(r)
    \/ CleanupExpired(r)
    \/ EnforceRetention(r)
    \/ CleanupFails(r)
    \/ EnforceQuotas(r)
    \/ Upsert(r)
    \/ CommitRecords(r)
    \/ RollbackRecords(r)
-----------------------------------------------------------------------------
(* Properties.                                                             *)

\* What is written is stored whole: every character of the redacted text, but
\* whitespace, is in one of the chunks a write is about to commit, although the
\* loop cuts at sentences, repeats an overlap and breaks off early.
NothingLeftOut ==
    \A r \in Requests :
        (req[r].kind = "write" /\ req[r].pc = "commit")
        => \A i \in DOMAIN req[r].text :
              req[r].text[i] # "space"
              => \E m \in req[r].tx.inserted : i > m.part.start /\ i <= m.part.end

\* What the classifier found in a text is neither stored nor served as it was, in
\* whichever chunk it lies and although a later pattern sees what an earlier one
\* left.  That it would find nothing in what is stored is not claimed: redacting
\* an e-mail address, or cutting a chunk, may free digits from a word.
NothingFoundInClear ==
    /\ \A m \in records : ~m.clear
    /\ \A r \in Requests : \A m \in req[r].served : ~m.clear

\* Every record that was committed was announced in the same transaction.
EventPerRecord == \A m \in records : m.by = "first" \/ m \in outbox

\* The quota is checked once, before the chunks are stored: a write nothing
\* overtook takes the scope above its limit by its own chunks at most.
QuotaKept ==
    [][\A r \in Requests :
          (req[r].pc = "commit" /\ req'[r].pc = "ok" /\ req[r].alone
             /\ req[r].kind \in {"write", "end"}
             /\ req[r].policy # None /\ req[r].policy.records # None)
          => Cardinality({m \in records' : m.scope = req[r].scope})
               <= req[r].policy.records - 1 + Cardinality(req[r].tx.inserted)]_recordVars

\* A cleanup takes what has expired, and nothing else: no record a search could
\* still have found, and, if nothing overtook it, every one that had expired when
\* it began, policies or not (delete_expired).
CleanupExact ==
    [][/\ \A m \in records \ records' : ~Live(m, now)
       /\ \A r \in Requests :
             (req[r].pc = "commit" /\ req'[r].pc = "ok" /\ req[r].alone
                /\ req[r].kind = "cleanup")
             => \A m \in records' : ~Expired(m, req[r].began)]_recordVars

\* A cleanup nothing overtook reports the scopes in which a write would be
\* refused, although it rounds the storage and the write does not.
ReportAgrees ==
    \A r \in Requests :
        (req[r].kind = "cleanup" /\ req[r].pc = "commit" /\ req[r].alone)
        => req[r].over = {scope \in MemoryScope :
                            /\ policies[scope] # None
                            /\ QuotaExceeded(policies[scope], CountByTenant(req[r].tx, scope),
                                             StorageSize(req[r].tx))}

\* What requests store and report: the text whole and announced, what was found
\* in it redacted, and the quota as a write would find it (write_memory,
\* enforce_quotas).
StoredWhole ==
    /\ RecordTypeOK
    /\ NothingLeftOut
    /\ NothingFoundInClear
    /\ EventPerRecord
    /\ ReportAgrees
=============================================================================
