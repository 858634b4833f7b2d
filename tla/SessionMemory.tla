---------------------------- MODULE SessionMemory ----------------------------
(***************************************************************************)
(* One conversation session: SessionMemoryService                          *)
(* (app/application/services/session_memory_service.py) over               *)
(* SessionMemoryCache (app/infrastructure/cache/memory_cache.py), the      *)
(* summaries of app/infrastructure/db/repositories/memory.py and the write *)
(* pipeline of MemoryRecords, which a session that ends goes through.      *)
(*                                                                         *)
(* The messages are a Redis list, the session's data ("meta") a key beside *)
(* it that is read, counted up in Python and written back.  A Redis call   *)
(* that fails is swallowed and answers as if nothing were there.           *)
(***************************************************************************)
EXTENDS MemoryRecords

CONSTANTS
    MaxEntries,     \* max_entries of append_to_history
    SummaryItems,   \* messages of each role a summary quotes
    MaxFaults       \* bound: Redis calls that fail, keys that expire

ASSUME SessionAssumption ==
    /\ MaxEntries \in Nat \ {0} /\ SummaryItems \in Nat /\ MaxFaults \in Nat
    /\ {"first", "[ENCRYPTED]"} \cap Requests = {}

VARIABLES
    history,    \* the list memory:session:{id}:history
    meta,       \* message_count of the key ...:meta, None if there is no key
    summary,    \* table session_summaries: message_count of the session's row
    ses,        \* what the requests keep of the session
    log,        \* history: all entries pushed since the list was last deleted
    lost,       \* history: messages an ending dropped and never saw
    raced,      \* history: two requests were under way at once
    faults      \* history: calls that failed, keys that expired

sessionVars == <<history, meta, summary, ses, log, lost, raced, faults>>

Entry == Requests \cup {"first", "[ENCRYPTED]"}

Entries(list) == {list[i] : i \in DOMAIN list}

NoRow == [op |-> "none", count |-> 0]

\* count: the message_count it read; snapshot: what it summarises; late
\* (history): what was pushed since; keys: what it found to delete; refill:
\* entries still to be pushed back; row: its uncommitted change of the summary.
SessionFields ==
    [count |-> 0, snapshot |-> <<>>, late |-> {}, keys |-> {}, refill |-> 0, row |-> NoRow]

Session == [count : Nat, snapshot : Seq(Entry), late : SUBSET Entry, keys : SUBSET {"history", "meta"},
            refill : Nat, row : [op : {"none", "insert", "delete"}, count : Nat]]

SessionTypeOK ==
    /\ history \in Seq(Entry) /\ Len(history) <= MaxEntries
    /\ meta \in Nat \cup {None}
    /\ summary \in Nat \cup {None}
    /\ ses \in [Requests -> Session]
    /\ lost \subseteq Entry /\ raced \in BOOLEAN /\ faults \in 0..MaxFaults

\* A Redis call that fails if ~ok.
Call(ok) ==
    \/ ok /\ UNCHANGED faults
    \/ ~ok /\ faults < MaxFaults /\ faults' = faults + 1

SessionUnchanged == UNCHANGED <<history, meta, summary, log, lost, raced>>

Active == {q \in Requests : req[q].pc \notin Ended}

Begin(r, kind, pc) ==
    /\ req[r].pc = "new"
    /\ req' = [req EXCEPT ![r] = Begun(r, kind, pc)]
    /\ raced' = (raced \/ Active # {})
    /\ UNCHANGED <<history, meta, summary, ses, log, lost, faults>>
    /\ Unchanged

-----------------------------------------------------------------------------
(* create_session, get_session_meta and add_to_session.                    *)

StartSession(r) == Begin(r, "start", "exists")
AddToSession(r) == Begin(r, "add", "meta")

\* Where a request goes when it has the session's data.
WithMeta(r) == IF req[r].kind = "start" THEN "ok" ELSE "append"

Got(r, count, pc) ==
    /\ ses' = [ses EXCEPT ![r].count = count]
    /\ Goto(r, pc)
    /\ SessionUnchanged
    /\ Unchanged

\* get_session_meta: the cache ...
GetMeta(r) ==
    /\ req[r].pc = "meta"
    /\ \E ok \in BOOLEAN :
          /\ Call(ok)
          /\ IF ok /\ meta # None THEN Got(r, meta, "append") ELSE Got(r, 0, "lookup")

\* ... then the summary, which is put back into the cache.
GetBySessionId(r) ==
    /\ req[r].pc = "lookup"
    /\ IF summary # None THEN Got(r, summary, "restore") ELSE Got(r, 0, "exists")
    /\ UNCHANGED faults

\* create_session: the cache again; the summary it looks up is not used.
Exists(r) ==
    /\ req[r].pc = "exists"
    /\ \E ok \in BOOLEAN :
          /\ Call(ok)
          /\ IF ok /\ meta # None THEN Got(r, meta, WithMeta(r)) ELSE Got(r, 0, "create")

\* The key meta is written, unless the call fails.
SetMeta(r, count, pc) ==
    /\ \E ok \in BOOLEAN :
          /\ Call(ok)
          /\ meta' = IF ok THEN count ELSE meta
          /\ Overtaking(r, [req[r] EXCEPT !.pc = pc])
    /\ UNCHANGED <<history, summary, ses, log, lost, raced>>
    /\ Unchanged

Restore(r) == req[r].pc = "restore" /\ SetMeta(r, ses[r].count, "append")

CreateSession(r) == req[r].pc = "create" /\ SetMeta(r, 0, WithMeta(r))

\* ltrim -max_entries -1.
Trimmed(entries) ==
    IF Len(entries) <= MaxEntries THEN entries
    ELSE SubSeq(entries, Len(entries) - MaxEntries + 1, Len(entries))

\* append_to_history: rpush, ltrim and expire in one transaction.
Push(r, entry, next) ==
    \E ok \in BOOLEAN :
        /\ Call(ok)
        /\ history' = IF ok THEN Trimmed(Append(history, entry)) ELSE history
        /\ log' = IF ok THEN Append(log, entry) ELSE log
        /\ ses' = [q \in Requests |->
                     IF q = r THEN next
                     ELSE IF ok THEN [ses[q] EXCEPT !.late = @ \cup {entry}] ELSE ses[q]]

AppendToHistory(r) ==
    /\ req[r].pc = "append"
    /\ Push(r, r, ses[r])
    /\ Overtaking(r, [req[r] EXCEPT !.pc = "counted"])
    /\ UNCHANGED <<meta, summary, lost, raced>>
    /\ Unchanged

Counted(count) == count + 1

SetCount(r) == req[r].pc = "counted" /\ SetMeta(r, Counted(ses[r].count), "ok")

-----------------------------------------------------------------------------
(* get_session_context.                                                    *)

GetSessionContext(r) == Begin(r, "context", "recent")

\* get_recent_history; no entries, or a failed call: the durable records.
RecentHistory(r) ==
    /\ req[r].pc = "recent"
    /\ \E ok \in BOOLEAN :
          /\ Call(ok)
          /\ Got(r, 0, IF ok /\ history # <<>> THEN "ok" ELSE "search")

SearchConversation(r) ==
    /\ req[r].pc = "search"
    /\ \E found \in SearchByVector(NoTx, "session", ResultLimit) :
          /\ ses' = [ses EXCEPT ![r].refill = Cardinality(found)]
          /\ Goto(r, IF found = {} THEN "ok" ELSE "refill")
    /\ SessionUnchanged
    /\ UNCHANGED faults
    /\ Unchanged

\* What was found is pushed back entry by entry, its content left out.
Refill(r) ==
    /\ req[r].pc = "refill"
    /\ Push(r, "[ENCRYPTED]", [ses[r] EXCEPT !.refill = @ - 1])
    /\ Overtaking(r, [req[r] EXCEPT !.pc = IF ses[r].refill = 1 THEN "ok" ELSE @])
    /\ UNCHANGED <<meta, summary, lost, raced>>
    /\ Unchanged

-----------------------------------------------------------------------------
(* summarize_session, end_session and delete_session.                      *)

EndSession(r) == Begin(r, "end", "snapshot")
DeleteSession(r) == Begin(r, "delete", "final")

\* Mutated form: the summary is made of the recent messages.
SnapshotRecent(entries) == IF entries = <<>> THEN <<>> ELSE <<entries[Len(entries)]>>

Snapshot(entries) == entries

\* get_full_history; nothing, or a failed call: there is no summary.
GetFullHistory(r) ==
    /\ req[r].pc = "snapshot"
    /\ \E ok \in BOOLEAN :
          LET entries == IF ok THEN Snapshot(history) ELSE <<>>
          IN /\ Call(ok)
             /\ ses' = [ses EXCEPT ![r].snapshot = entries, ![r].late = {}]
             /\ Goto(r, IF entries = <<>> THEN "final" ELSE "insert")
    /\ SessionUnchanged
    /\ Unchanged

\* _create_extractive_summary: an introduction and some of the messages.
ExtractiveSummary(entries) ==
    [i \in 1..(1 + Sets!Min({SummaryItems, Len(entries)})) |-> "word"]

\* The table has one summary for a session: IntegrityError otherwise.
SummaryAllowed(r) == summary = None

\* The insert waits for another transaction that has inserted or deleted the row.
CreateSummary(r) ==
    /\ req[r].pc = "insert"
    /\ \A q \in Requests \ {r} : ses[q].row = NoRow
    /\ IF SummaryAllowed(r)
       THEN /\ ses' = [ses EXCEPT ![r].row = [op |-> "insert", count |-> Len(ses[r].snapshot)]]
            /\ req' = [req EXCEPT ![r].text = Normalized(ExtractiveSummary(ses[r].snapshot)),
                                  ![r].scope = "durable", ![r].pc = "policy"]
       ELSE /\ UNCHANGED ses
            /\ Goto(r, "failed")
    /\ SessionUnchanged
    /\ UNCHANGED faults
    /\ Unchanged

AfterClear(r) == IF req[r].kind = "end" THEN "commit" ELSE "unsummarise"

\* clear_session: the keys are scanned ...
ScanKeys(r) ==
    /\ req[r].pc = "final"
    /\ \E ok \in BOOLEAN :
          LET keys == IF ok THEN {k \in {"history", "meta"} :
                                    (k = "history" /\ history # <<>>) \/ (k = "meta" /\ meta # None)}
                      ELSE {}
          IN /\ Call(ok)
             /\ ses' = [ses EXCEPT ![r].keys = keys]
             /\ Goto(r, IF keys = {} THEN AfterClear(r) ELSE "unlink")
    /\ SessionUnchanged
    /\ Unchanged

\* ... and deleted.
DeleteKeys(r) ==
    /\ req[r].pc = "unlink"
    /\ \E ok \in BOOLEAN :
          LET dropped == ok /\ "history" \in ses[r].keys
          IN /\ Call(ok)
             /\ history' = IF dropped THEN <<>> ELSE history
             /\ log' = IF dropped THEN <<>> ELSE log
             /\ meta' = IF ok /\ "meta" \in ses[r].keys THEN None ELSE meta
             /\ lost' = IF dropped /\ req[r].kind = "end"
                        THEN lost \cup (Entries(history) \ (Entries(ses[r].snapshot) \cup ses[r].late))
                        ELSE lost
    /\ Overtaking(r, [req[r] EXCEPT !.pc = AfterClear(r)])
    /\ UNCHANGED <<summary, ses, raced>>
    /\ Unchanged

\* delete_by_session_id, behind another that deletes the row.
DeleteSummary(r) ==
    /\ req[r].pc = "unsummarise"
    /\ \A q \in Requests \ {r} : ses[q].row.op # "delete"
    /\ ses' = [ses EXCEPT ![r].row = IF summary = None THEN @ ELSE [NoRow EXCEPT !.op = "delete"]]
    /\ Goto(r, "commit")
    /\ SessionUnchanged
    /\ UNCHANGED faults
    /\ Unchanged

\* Mutated form: the summary is left where it is.
SummaryLeft(row) == IF row.op = "insert" THEN row.count ELSE summary

SummaryAfter(row) ==
    CASE row.op = "delete" -> None
      [] row.op = "insert" -> row.count
      [] row.op = "none" -> summary

CommitSession(r) ==
    /\ req[r].pc = "commit"
    /\ req[r].kind \in {"end", "delete"}
    /\ summary' = SummaryAfter(ses[r].row)
    /\ ses' = [ses EXCEPT ![r].row = NoRow]
    /\ records' = Committed(req[r].tx)
    /\ outbox' = outbox \cup req[r].tx.events
    /\ Overtaking(r, [req[r] EXCEPT !.pc = "ok"])
    /\ UNCHANGED <<history, meta, log, lost, raced, faults, policies, now>>

\* The commit fails; so does an ending whose summary could not be stored.
RollbackSession(r) ==
    /\ \/ req[r].pc = "commit" /\ req[r].kind \in {"end", "delete"}
       \/ req[r].pc = "failed" /\ ses[r].row # NoRow
    /\ req' = [req EXCEPT ![r].pc = "failed", ![r].tx = NoTx]
    /\ ses' = [ses EXCEPT ![r].row = NoRow]
    /\ SessionUnchanged
    /\ UNCHANGED faults
    /\ Unchanged

\* A key's seven days are over.
KeyExpires ==
    /\ faults < MaxFaults
    /\ faults' = faults + 1
    /\ \/ history # <<>> /\ history' = <<>> /\ log' = <<>> /\ UNCHANGED meta
       \/ meta # None /\ meta' = None /\ UNCHANGED <<history, log>>
    /\ UNCHANGED <<summary, ses, lost, raced>>
    /\ UNCHANGED recordVars

\* GET /memory/sessions is taken for a record with the id "sessions".
ListSessions(r) ==
    /\ req[r].pc = "new"
    /\ Goto(r, "refused")
    /\ UNCHANGED sessionVars
    /\ Unchanged

SessionRequest(r) ==
    \/ StartSession(r) \/ AddToSession(r) \/ GetSessionContext(r)
    \/ EndSession(r) \/ DeleteSession(r) \/ ListSessions(r)
    \/ GetMeta(r) \/ GetBySessionId(r) \/ Exists(r)
    \/ Restore(r) \/ CreateSession(r) \/ AppendToHistory(r) \/ SetCount(r)
    \/ RecentHistory(r) \/ SearchConversation(r) \/ Refill(r)
    \/ GetFullHistory(r) \/ CreateSummary(r)
    \/ ScanKeys(r) \/ DeleteKeys(r) \/ DeleteSummary(r)
    \/ CommitSession(r) \/ RollbackSession(r)

-----------------------------------------------------------------------------
(* The requests on an agent's durable memory and on one of its sessions.   *)

storeVars == <<recordVars, sessionVars>>

\* What requests before these may have left: records and policies of any kind,
\* and a session that is new, or ended and summarised, or has some messages.
StoreInit ==
    /\ records \in SUBSET {m \in Record : m.by = "first" /\ ~m.clear}
    /\ IsFiniteSet(records)
    /\ policies \in [MemoryScope -> MemoryRetentionPolicy \cup {None}]
    /\ outbox = {}
    /\ now = 0
    /\ req = [r \in Requests |-> RecordFields]
    /\ history \in Seq({"first"}) /\ Len(history) <= MaxEntries
    /\ summary \in Nat \cup {None}
    /\ \/ meta = None /\ history = <<>>
       \/ meta \in Len(history)..(Len(history) + IF summary = None THEN 0 ELSE summary)
    /\ ses = [r \in Requests |-> SessionFields]
    /\ log = history
    /\ lost = {} /\ raced = FALSE /\ faults = 0

StoreNext ==
    \/ Tick /\ UNCHANGED sessionVars
    \/ \E r \in Requests : (RecordRequest(r) \/ WritePipeline(r)) /\ UNCHANGED sessionVars
    \/ \E r \in Requests : SessionRequest(r)
    \/ KeyExpires

StoreSpec == StoreInit /\ [][StoreNext]_storeVars

-----------------------------------------------------------------------------
(* Properties.                                                             *)

\* The list holds the most recent entries, in the order they were pushed, and
\* nothing else, however requests that push, refill and clear interleave.
RecentKept ==
    /\ Len(history) = IF Len(log) < MaxEntries THEN Len(log) ELSE MaxEntries
    /\ \A i \in DOMAIN history : history[i] = log[Len(log) - Len(history) + i]

\* A session that ends drops no message it did not summarise, but those that
\* arrived after its snapshot, as long as Redis answers.
EndingKeepsMessages == faults = 0 => lost = {}

\* As long as requests come one after the other, message_count is at least the
\* number of messages in the list, and at most those and the summarised ones
\* (create_session looks the summary up, and starts from 0 all the same).
CountBetween ==
    (~raced /\ faults = 0 /\ meta # None /\ Active = {})
    => /\ meta >= Cardinality({i \in DOMAIN log : log[i] # "[ENCRYPTED]"})
       /\ meta <= Len(log) + (IF summary = None THEN 0 ELSE summary)

\* The messages of a session are in the list, in their order, or were summarised,
\* and are counted (add_message, end_session).
MessagesKept ==
    /\ SessionTypeOK
    /\ RecentKept
    /\ EndingKeepsMessages
    /\ CountBetween

\* A summary, once stored, is never replaced; only a deletion takes it, and one
\* that nothing overtook takes the messages too (delete_session, end_session).
DeletionEndsAll ==
    [][/\ summary # None /\ summary' # summary
            => summary' = None
               /\ \E r \in Requests : req[r].kind = "delete" /\ req'[r].pc = "ok"
       /\ \A r \in Requests :
            (req[r].kind = "delete" /\ req[r].pc = "commit" /\ req'[r].pc = "ok"
               /\ req[r].alone /\ faults = 0)
            => history' = <<>> /\ meta' = None /\ summary' = None]_sessionVars
=============================================================================
