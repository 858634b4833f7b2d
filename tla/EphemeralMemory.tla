---------------------------- MODULE EphemeralMemory ----------------------------
(***************************************************************************)
(* The memory of one run, EphemeralMemoryCache                             *)
(* (app/infrastructure/cache/memory_cache.py), which RunExecutor loads     *)
(* before a run and writes back between its steps: a Redis key for each    *)
(* name.                                                                   *)
(*                                                                         *)
(* Every Redis call is an await.  The names are found by SCAN, page by     *)
(* page: it returns what was there all along, and perhaps what came or     *)
(* went meanwhile.  A call that fails is caught and answers nothing; keys  *)
(* expire a day after they were set.                                       *)
(***************************************************************************)
EXTENDS Integers

CONSTANTS
    MemoryCalls,
    Names,          \* the memory keys
    Values,
    Absent,
    MaxBroken       \* bound: Redis calls that fail

ASSUME EphemeralMemoryAssumption ==
    /\ Absent \notin Values
    /\ MaxBroken \in Nat

VARIABLES
    memory,     \* memory[n]: the value under a name, or Absent
    access,     \* the calls
    broken      \* history: Redis calls that failed

memoryVars == <<memory, access, broken>>

\* found: what the scan returned so far; at: the name get_all reads; got: what it
\* gathered.  Histories: stayed, the names there since the call began; held[n],
\* the values n had until its scan ended.
Access == [kind : {"none", "set", "get", "delete", "exists", "clear", "get_all"},
           pc : {"new", "scan", "read", "remove", "done", "failed"},
           found : SUBSET Names, at : Names \cup {Absent}, got : [Names -> Values \cup {Absent}],
           stayed : SUBSET Names, held : [Names -> SUBSET Values]]

Nothing == [n \in Names |-> Absent]

MemoryTypeOK ==
    /\ memory \in [Names -> Values \cup {Absent}]
    /\ access \in [MemoryCalls -> Access]
    /\ broken \in 0..MaxBroken

MemoryInit ==
    /\ memory = Nothing
    /\ access = [a \in MemoryCalls |->
                   [kind |-> "none", pc |-> "new", found |-> {}, at |-> Absent, got |-> Nothing,
                    stayed |-> {}, held |-> [n \in Names |-> {}]]]
    /\ broken = 0

Present == {n \in Names : memory[n] # Absent}

-----------------------------------------------------------------------------
\* What call b, as it is now, sees of the memory becoming new.
Watching(b, new) ==
    [b EXCEPT !.stayed = {n \in @ : new[n] # Absent},
              !.held = [n \in Names |-> IF b.pc \in {"scan", "read", "remove"}
                                       THEN @[n] \cup ({new[n]} \ {Absent}) ELSE @[n]]]

\* The memory becomes new and call a as given.
Becomes(a, new, changed) ==
    /\ memory' = new
    /\ access' = [b \in MemoryCalls |->
                    Watching(IF b = a THEN changed ELSE access[b], new)]
    /\ UNCHANGED broken

\* Method kind of call a is called, and goes on at pc.
AsCall(a, kind, pc) == [access[a] EXCEPT !.kind = kind, !.pc = pc]

\* set: SETEX.
SetMemory(a, n, v) ==
    /\ access[a].pc = "new"
    /\ Becomes(a, [memory EXCEPT ![n] = v], AsCall(a, "set", "done"))

\* get.
GetMemory(a, n) ==
    /\ access[a].pc = "new"
    /\ Becomes(a, memory, [AsCall(a, "get", "done") EXCEPT !.got[n] = memory[n]])

\* delete.
DeleteMemory(a, n) ==
    /\ access[a].pc = "new"
    /\ Becomes(a, [memory EXCEPT ![n] = Absent], AsCall(a, "delete", "done"))

\* exists.
MemoryExists(a) ==
    /\ access[a].pc = "new"
    /\ Becomes(a, memory, AsCall(a, "exists", "done"))

\* clear_run and get_all begin to scan.
BeginScan(a, kind) ==
    /\ access[a].pc = "new"
    /\ Becomes(a, memory,
               [AsCall(a, kind, "scan") EXCEPT
                  !.stayed = Present, !.held = [n \in Names |-> {memory[n]} \ {Absent}]])

Existed(a) == {n \in Names : access[a].held[n] # {}}

\* What the scan of call a may find in all.
Found(a) == {names \in SUBSET Existed(a) : access[a].stayed \subseteq names}

\* clear_run has all its keys.
ClearFound(a) ==
    /\ access[a].pc = "scan" /\ access[a].kind = "clear"
    /\ \E names \in Found(a) :
          Becomes(a, memory, [access[a] EXCEPT !.found = names,
                                !.pc = IF names = {} THEN "done" ELSE "remove"])

\* DEL of all keys found.
ClearRemove(a) ==
    /\ access[a].pc = "remove"
    /\ Becomes(a, [n \in Names |-> IF n \in access[a].found THEN Absent ELSE memory[n]],
               [access[a] EXCEPT !.pc = "done"])

\* get_all has a name from the scan, ...
NextName(a) ==
    /\ access[a].pc = "scan" /\ access[a].kind = "get_all"
    /\ \E n \in Existed(a) \ access[a].found :
          Becomes(a, memory, [access[a] EXCEPT !.found = @ \cup {n}, !.at = n, !.pc = "read"])

\* Mutated form: what has gone meanwhile is parsed too, which raises.
ReadNameParsing(a) ==
    /\ access[a].pc = "read"
    /\ LET n == access[a].at
       IN  Becomes(a, memory, IF memory[n] = Absent
                              THEN [access[a] EXCEPT !.got = Nothing, !.pc = "done"]
                              ELSE [access[a] EXCEPT !.got[n] = memory[n], !.pc = "scan"])

\* ... whose value it reads, ...
ReadName(a) ==
    /\ access[a].pc = "read"
    /\ LET n == access[a].at
       IN  Becomes(a, memory, [access[a] EXCEPT !.got[n] = memory[n], !.pc = "scan"])

\* ... or no more names.
AllRead(a) ==
    /\ access[a].pc = "scan" /\ access[a].kind = "get_all"
    /\ access[a].found \in Found(a)
    /\ Becomes(a, memory, [access[a] EXCEPT !.pc = "done"])

\* A Redis call fails, and the method with it; a call whose answer is lost leaves
\* what one that succeeds leaves.
MemoryCallFails(a) ==
    /\ access[a].pc \notin {"done", "failed"}
    /\ broken < MaxBroken /\ broken' = broken + 1
    /\ access' = [access EXCEPT ![a].pc = "failed", ![a].got = Nothing]
    /\ UNCHANGED memory

MemoryExpires ==
    /\ \E n \in Present :
          /\ memory' = [memory EXCEPT ![n] = Absent]
          /\ access' = [b \in MemoryCalls |-> Watching(access[b], memory')]
    /\ UNCHANGED broken

MemoryCall(a) ==
    \/ \E n \in Names : \/ \E v \in Values : SetMemory(a, n, v)
                       \/ GetMemory(a, n) \/ DeleteMemory(a, n)
    \/ MemoryExists(a) \/ BeginScan(a, "clear") \/ BeginScan(a, "get_all")

MemoryNext ==
    \/ \E a \in MemoryCalls :
          \/ MemoryCall(a) \/ ClearFound(a) \/ ClearRemove(a)
          \/ NextName(a) \/ ReadName(a) \/ AllRead(a) \/ MemoryCallFails(a)
    \/ MemoryExpires

MemorySpec == MemoryInit /\ [][MemoryNext]_memoryVars

-----------------------------------------------------------------------------
(* Properties.                                                             *)

\* What a run loads before it starts is not a snapshot, but every value in it was
\* the value of its name during the load, and no name that was there all along is
\* left out, whatever was set, deleted or expired between two reads (get_all).
GatheredDuringLoad ==
    \A a \in MemoryCalls :
        access[a].kind = "get_all" /\ access[a].pc = "done" =>
          \A n \in Names :
             /\ access[a].got[n] \in access[a].held[n] \cup {Absent}
             /\ n \in access[a].stayed => access[a].got[n] # Absent

\* What was in the memory when clear_run was called, and was not set again after
\* its deletion, is gone for good (clear_run).
ClearedForGood ==
    \A a \in MemoryCalls :
        access[a].kind = "clear" /\ access[a].pc = "done" => access[a].stayed = {}

\* Neither a load nor a clearing misses what was there while it scanned.
MemoryScanned ==
    /\ MemoryTypeOK
    /\ GatheredDuringLoad
    /\ ClearedForGood
=============================================================================
