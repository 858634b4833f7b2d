---------------------------- MODULE Idempotency ----------------------------
(***************************************************************************)
(* Idempotency keys: IdempotencyMiddleware.dispatch                        *)
(* (app/api/middleware/idempotency.py), IdempotencyService                 *)
(* (app/application/services/idempotency_service.py) and IdempotencyStore  *)
(* (app/infrastructure/cache/idempotency_store.py).                        *)
(*                                                                         *)
(* A keyed, mutating request makes up to five Redis round trips around its *)
(* handler: get, set, <handler>, get, get, set.  Each is an await, so each *)
(* is an action, and requests of one tenant interleave between them.  The  *)
(* Redis key holds the tenant's UUID and the header, so one tenant stands  *)
(* for all.  Requests without a key are passed through and leave no trace. *)
(***************************************************************************)
EXTENDS Integers

CONSTANTS
    Requests,       \* requests with an Idempotency-Key, retries included
    Keys,           \* values of the header
    Operations,     \* "<method> <path>" of a request
    None,           \* JSON null, and the absent entry
    EmptyBody,      \* {}: a response body Python takes for false
    Extracted,      \* what _extract_response_data may make of a response
    MaxFaults       \* bound: Redis calls that fail

\* A response is known by the request whose handler produced it.
Body == Requests \cup {EmptyBody}

Entry == [operation : Operations, response : Body \cup {None}, ttl : BOOLEAN]

ASSUME IdempotencyAssumption ==
    /\ None \notin Body \cup Keys \cup Operations \cup Entry
    /\ EmptyBody \notin Requests
    /\ Extracted \subseteq {"json", "empty"}
    /\ MaxFaults \in Nat

VARIABLES
    store,      \* store[k]: the entry in Redis, or None
    req,        \* req[r]: the local state of dispatch()
    late,       \* history: requests that arrived while their key was stored,
                \* not yet looked up
    faults      \* history: Redis calls that failed

vars == <<store, req, late, faults>>

Snapshot == Entry \cup {None}

New == [pc |-> "new", key |-> None, operation |-> None, snapshot |-> None,
        outcome |-> "none", replayed |-> None]

RequestState ==
    [pc : {"new", "get", "set", "handle", "check", "read", "write", "done"},
     key : Keys \cup {None}, operation : Operations \cup {None},
     snapshot : Snapshot,
     outcome : {"none", "conflict", "replayed", "failed", "ok"},
     replayed : Requests \cup {None}]

TypeOK ==
    /\ store \in [Keys -> Snapshot]
    /\ req \in [Requests -> RequestState]
    /\ late \in SUBSET Requests
    /\ faults \in 0..MaxFaults

Init ==
    /\ store = [k \in Keys |-> None]
    /\ req = [r \in Requests |-> New]
    /\ late = {}
    /\ faults = 0

\* The entry of r's key.
Stored(r) == store[req[r].key]

Fault ==
    /\ faults < MaxFaults
    /\ faults' = faults + 1

Goto(r, pc) == req' = [req EXCEPT ![r].pc = pc]

-----------------------------------------------------------------------------
(* dispatch(): check_and_store.                                            *)

Arrive(r, k, o) ==
    /\ req[r].pc = "new"
    /\ req' = [req EXCEPT ![r] = [New EXCEPT !.pc = "get", !.key = k, !.operation = o]]
    /\ late' = IF store[k] # None THEN late \cup {r} ELSE late
    /\ UNCHANGED <<store, faults>>

\* Mutated form: an entry that has no response yet is no duplicate.
VerdictUnlessAnswered(e) == IF e # None /\ e.response \in Requests THEN "replay" ELSE "proceed"

\* What the middleware does with the entry check_and_store found: only a
\* response Python takes for true is replayed.
Verdict(e) ==
    IF e = None THEN "proceed"
    ELSE IF e.response \in Requests THEN "replay" ELSE "conflict"

Lookup(r) ==
    /\ req[r].pc = "get"
    /\ \/ /\ Verdict(Stored(r)) = "proceed"
          /\ Goto(r, "set")
       \/ /\ Verdict(Stored(r)) = "replay"
          /\ req' = [req EXCEPT ![r].pc = "done", ![r].outcome = "replayed",
                                ![r].replayed = Stored(r).response]
       \/ /\ Verdict(Stored(r)) = "conflict"
          /\ req' = [req EXCEPT ![r].pc = "done", ![r].outcome = "conflict"]
    /\ UNCHANGED <<store, late, faults>>

\* IdempotencyStore.get swallows the error and answers None.
LookupFails(r) ==
    /\ req[r].pc = "get"
    /\ Fault
    /\ Goto(r, "set")
    /\ late' = late \ {r}
    /\ UNCHANGED store

\* An unconditional SET ... EX: it overwrites whatever is there by now.
Register(r) ==
    /\ req[r].pc = "set"
    /\ store' = [store EXCEPT ![req[r].key] =
                   [operation |-> req[r].operation, response |-> None, ttl |-> TRUE]]
    /\ Goto(r, "handle")
    /\ UNCHANGED <<late, faults>>

\* check_and_store does not look at the answer of set().
RegisterFails(r) ==
    /\ req[r].pc = "set"
    /\ Fault
    /\ Goto(r, "handle")
    /\ UNCHANGED <<store, late>>

-----------------------------------------------------------------------------
(* dispatch(): the handler, then store_response.                           *)

\* "if response.status_code < 300"; a handler that raises ends dispatch().
NextAfterHandler(ok) == IF ok THEN "check" ELSE "done"

HandlerReturns(r, ok) ==
    /\ req[r].pc = "handle"
    /\ req' = [req EXCEPT ![r].pc = NextAfterHandler(ok),
                          ![r].outcome = IF ok THEN "ok" ELSE "failed"]
    /\ UNCHANGED <<store, late, faults>>

\* store_response: "Check if key exists first".
StoreCheck(r) ==
    /\ req[r].pc = "check"
    /\ Goto(r, IF Stored(r) # None THEN "read" ELSE "done")
    /\ UNCHANGED <<store, late, faults>>

\* set_response reads the entry again ...
StoreRead(r) ==
    /\ req[r].pc = "read"
    /\ req' = [req EXCEPT ![r].pc = IF Stored(r) # None THEN "write" ELSE "done",
                          ![r].snapshot = Stored(r)]
    /\ UNCHANGED <<store, late, faults>>

\* Mutated form: the second SET has no EX, which drops the time to live.
WithResponseNoExpiry(e, body) == [e EXCEPT !.response = body, !.ttl = FALSE]

WithResponse(e, body) == [e EXCEPT !.response = body, !.ttl = TRUE]

\* ... and writes back what it read, with the response.  The response that
\* call_next hands to a BaseHTTPMiddleware is a streaming one, for which
\* _extract_response_data answers {} ("empty").
StoreWrite(r) ==
    /\ req[r].pc = "write"
    /\ \E x \in Extracted :
          store' = [store EXCEPT ![req[r].key] =
                      WithResponse(req[r].snapshot, IF x = "json" THEN r ELSE EmptyBody)]
    /\ req' = [req EXCEPT ![r].pc = "done", ![r].snapshot = None]
    /\ UNCHANGED <<late, faults>>

\* An error in one of the three calls: logged, and the response goes out.
StoreFails(r) ==
    /\ req[r].pc \in {"check", "read", "write"}
    /\ Fault
    /\ Goto(r, "done")
    /\ UNCHANGED <<store, late>>

\* The server stops or the client disconnects: whatever has been done stays,
\* the handler's effect included if it got that far.
Abort(r) ==
    /\ req[r].pc \notin {"new", "done"}
    /\ \E outcome \in IF req[r].pc = "handle" THEN {"none", "ok"} ELSE {req[r].outcome} :
          req' = [req EXCEPT ![r].pc = "done", ![r].outcome = outcome]
    /\ UNCHANGED <<store, late, faults>>

-----------------------------------------------------------------------------
(* The entries.                                                            *)

Vanish(k) ==
    /\ store[k] # None
    /\ store' = [store EXCEPT ![k] = None]
    /\ late' = {r \in late : req[r].key # k}
    /\ UNCHANGED <<req, faults>>

\* Redis drops the entry when its time to live has run out.
Expire(k) == store[k] # None /\ store[k].ttl /\ Vanish(k)

InvalidateKey(k) == Vanish(k)

-----------------------------------------------------------------------------

Step(r) ==
    \/ Lookup(r)
    \/ LookupFails(r)
    \/ Register(r)
    \/ RegisterFails(r)
    \/ \E ok \in BOOLEAN : HandlerReturns(r, ok)
    \/ StoreCheck(r)
    \/ StoreRead(r)
    \/ StoreWrite(r)
    \/ StoreFails(r)
    \/ Abort(r)

Next ==
    \/ \E r \in Requests, k \in Keys, o \in Operations : Arrive(r, k, o)
    \/ \E r \in Requests : Step(r)
    \/ \E k \in Keys : Expire(k) \/ InvalidateKey(k)

Spec == Init /\ [][Next]_vars

\* Redis expires what has a time to live; nobody has to invalidate or retry.
FairSpec == Spec /\ \A k \in Keys : WF_vars(Expire(k))

-----------------------------------------------------------------------------
(* Properties.                                                             *)

\* A replayed response is one that a handler produced, successfully, for a
\* request with the same key: no failure is ever replayed, and writing back a
\* stale entry in set_response never moves a response to another key.
ReplayIsGenuine ==
    \A r \in Requests :
        req[r].outcome = "replayed" =>
            LET q == req[r].replayed
            IN  /\ q \in Requests
                /\ req[q].outcome = "ok"
                /\ req[q].key = req[r].key

\* A duplicate that arrives after the key was stored does not reach the
\* handler, whatever the first request is doing, as long as the key is neither
\* expired nor invalidated and Redis answers (check_and_store, dispatch).
LateDuplicateNotExecuted ==
    \A r \in late :
        /\ req[r].pc \in {"get", "done"}
        /\ req[r].outcome \in {"none", "conflict", "replayed"}

\* A duplicate that comes late is answered by the middleware alone, and with
\* nothing but what the first request's handler said.
DuplicatesAnswered ==
    /\ TypeOK
    /\ ReplayIsGenuine
    /\ LateDuplicateNotExecuted

\* A key is never blocked for good: whichever of set() and set_response()
\* wrote last, in whatever order, the entry has a time to live.
KeysAreFreed == \A k \in Keys : store[k] # None ~> store[k] = None

-----------------------------------------------------------------------------
(* What the repository says and the code does not do.                      *)

\* dispatch() answers 409 because "A request with this idempotency key is
\* already being processed": two handlers never run for one key at a time.
OneHandlerPerKey ==
    \A r, q \in Requests :
        r # q /\ req[r].pc = "handle" /\ req[q].pc = "handle" => req[r].key # req[q].key
=============================================================================
