----------------------------- MODULE MemoryProofs -----------------------------
(***************************************************************************)
(* Theorems about the memories, for any number of requests, names, values  *)
(* and texts.  EphemeralMemory: what a run gathers when it loads its       *)
(* memory, and what clearing leaves.  TextPipeline: that what was found in *)
(* a text is redacted, and that its chunks cover it.  MemoryRecords and    *)
(* SessionMemory: that what is written is stored whole, the quota a write  *)
(* keeps, what a cleanup takes and reports; the messages of a session, and *)
(* what ending and deleting it leave.                                      *)
(***************************************************************************)
EXTENDS EphemeralMemory, SessionMemory, FiniteSetTheorems, SequenceTheorems, TLAPS

-----------------------------------------------------------------------------
(* The memory of a run.                                                    *)

Scanning == {"scan", "read", "remove"}

\* What call c knows of memory m.  A call that has not begun has nothing, a
\* scan has seen what is there, and a value once gathered was there.
Loaded(c, m) ==
    /\ c.pc = "new" => c.got = Nothing /\ c.found = {}
    /\ c.pc \in Scanning => \A n \in Names : m[n] # Absent => m[n] \in c.held[n]
    /\ c.pc = "read" => c.at \in Names /\ c.kind = "get_all"
    /\ \A n \in c.stayed : m[n] # Absent
    /\ c.kind = "get_all" /\ c.pc \in {"scan", "read", "done"} =>
         \A n \in Names :
            /\ c.got[n] \in c.held[n] \cup {Absent}
            /\ n \in c.stayed =>
                 \/ c.got[n] # Absent
                 \/ c.pc # "done" /\ n \notin c.found
                 \/ c.pc = "read" /\ n = c.at
    /\ c.pc = "scan" /\ c.kind = "clear" => c.found = {}

\* What clearing has found is all that stayed, and then nothing stays.
Clearing(c) ==
    /\ c.pc = "remove" => c.kind = "clear" /\ c.stayed \subseteq c.found
    /\ c.kind = "clear" /\ c.pc = "done" => c.stayed = {}

MemoryIInv ==
    /\ MemoryTypeOK
    /\ \A a \in MemoryCalls : Loaded(access[a], memory) /\ Clearing(access[a])

LEMMA MemoryIInvInit == MemoryInit => MemoryIInv
  <1> SUFFICES ASSUME MemoryInit PROVE MemoryIInv
    OBVIOUS
  <1>1. Nothing \in [Names -> Values \cup {Absent}]
    BY DEF Nothing
  <1>2. ASSUME NEW a \in MemoryCalls
        PROVE  /\ access[a] \in Access /\ access[a].pc = "new" /\ access[a].kind = "none"
               /\ access[a].got = Nothing /\ access[a].found = {} /\ access[a].stayed = {}
    BY <1>1 DEF MemoryInit, Access
  <1>3. MemoryTypeOK
    <2>1. access \in [MemoryCalls -> Access]
      BY <1>2 DEF MemoryInit
    <2>2. memory \in [Names -> Values \cup {Absent}]
      BY <1>1 DEF MemoryInit
    <2>3. broken \in 0..MaxBroken
      BY EphemeralMemoryAssumption DEF MemoryInit
    <2> QED
      BY <2>1, <2>2, <2>3 DEF MemoryTypeOK
  <1> QED
    BY <1>2, <1>3 DEF MemoryIInv, Loaded, Clearing, Scanning

\* A call that watches the memory change knows as much of what it becomes.
LEMMA WatchingKnows ==
    ASSUME NEW c \in Access, NEW m, NEW new \in [Names -> Values \cup {Absent}],
           Loaded(c, m), Clearing(c)
    PROVE  /\ Watching(c, new) \in Access
           /\ Loaded(Watching(c, new), new) /\ Clearing(Watching(c, new))
  <1> DEFINE d == Watching(c, new)
             stayed == {n \in c.stayed : new[n] # Absent}
             held == [n \in Names |-> IF c.pc \in Scanning
                                     THEN c.held[n] \cup ({new[n]} \ {Absent}) ELSE c.held[n]]
  <1>0. d = [c EXCEPT !.stayed = stayed, !.held = held]
    BY DEF Watching, Scanning
  <1>2. held \in [Names -> SUBSET Values] /\ stayed \in SUBSET Names
    <2>1. c.held \in [Names -> SUBSET Values] /\ c.stayed \in SUBSET Names
      BY DEF Access
    <2>2. ASSUME NEW n \in Names PROVE {new[n]} \ {Absent} \in SUBSET Values
      OBVIOUS
    <2> QED
      BY <2>1, <2>2
  <1>1. /\ d.pc = c.pc /\ d.kind = c.kind /\ d.found = c.found /\ d.at = c.at /\ d.got = c.got
        /\ d.stayed = {n \in c.stayed : new[n] # Absent}
        /\ d.held = [n \in Names |-> IF c.pc \in Scanning
                                     THEN c.held[n] \cup ({new[n]} \ {Absent}) ELSE c.held[n]]
    BY <1>0 DEF Access
  <1>3. d \in Access
    <2> HIDE DEF stayed, held, d
    <2> QED
      BY <1>0, <1>2 DEF Access
  <1> HIDE DEF d
  <1>4. \A n \in Names : c.held[n] \subseteq d.held[n]
    BY <1>1
  <1>5. d.pc \in Scanning => \A n \in Names : new[n] # Absent => new[n] \in d.held[n]
    BY <1>1
  <1>6. Loaded(d, new)
    BY <1>1, <1>4, <1>5 DEF Loaded
  <1>7. Clearing(d)
    BY <1>1 DEF Clearing
  <1> QED
    BY <1>3, <1>6, <1>7 DEF d

\* The memory becomes what it may, and the call a as it may.
LEMMA BecomesKeeps ==
    ASSUME MemoryIInv, NEW a \in MemoryCalls, NEW new \in [Names -> Values \cup {Absent}],
           NEW changed \in Access, Becomes(a, new, changed),
           NEW m, Loaded(changed, m), Clearing(changed)
    PROVE  MemoryIInv'
  <1>1. ASSUME NEW b \in MemoryCalls
        PROVE  /\ access'[b] \in Access
               /\ Loaded(access'[b], new) /\ Clearing(access'[b])
    <2>1. access[b] \in Access /\ Loaded(access[b], memory) /\ Clearing(access[b])
      BY DEF MemoryIInv, MemoryTypeOK
    <2>2. access'[b] = Watching(IF b = a THEN changed ELSE access[b], new)
      BY DEF Becomes
    <2>3. CASE b = a
      BY <2>2, <2>3, WatchingKnows
    <2>4. CASE b # a
      BY <2>1, <2>2, <2>4, WatchingKnows
    <2> QED
      BY <2>3, <2>4
  <1>2. memory' = new /\ broken' = broken /\ access' \in [MemoryCalls -> Access]
    BY <1>1 DEF Becomes
  <1> QED
    BY <1>1, <1>2 DEF MemoryIInv, MemoryTypeOK

\* A call that has not begun.
LEMMA FreshCall ==
    ASSUME MemoryIInv, NEW a \in MemoryCalls, access[a].pc = "new"
    PROVE  /\ access[a] \in Access /\ access[a].got = Nothing /\ access[a].found = {}
           /\ memory \in [Names -> Values \cup {Absent}]
  BY DEF MemoryIInv, MemoryTypeOK, Loaded

\* The methods that take one Redis call.
LEMMA OneCall ==
    ASSUME MemoryIInv, NEW a \in MemoryCalls,
           NEW kind \in {"set", "get", "delete", "exists"}, NEW got \in [Names -> Values \cup {Absent}],
           NEW new \in [Names -> Values \cup {Absent}], access[a].pc = "new",
           Becomes(a, new, [access[a] EXCEPT !.kind = kind, !.pc = "done", !.got = got])
    PROVE  MemoryIInv'
  <1> DEFINE c == [access[a] EXCEPT !.kind = kind, !.pc = "done", !.got = got]
  <1>1. access[a] \in Access /\ \A n \in access[a].stayed : memory[n] # Absent
    BY FreshCall DEF MemoryIInv, Loaded
  <1>2. c \in Access /\ c.kind = kind /\ c.pc = "done" /\ c.stayed = access[a].stayed
    BY <1>1 DEF Access
  <1> HIDE DEF c
  <1>3. Loaded(c, memory) /\ Clearing(c)
    BY <1>1, <1>2 DEF Loaded, Clearing, Scanning
  <1> QED
    BY <1>2, <1>3, BecomesKeeps DEF c

LEMMA MemoryCallStep ==
    ASSUME MemoryIInv, NEW a \in MemoryCalls, MemoryCall(a)
    PROVE  MemoryIInv'
  <1> DEFINE Memories == [Names -> Values \cup {Absent}]
  <1>1. access[a].pc = "new"
    BY DEF MemoryCall, SetMemory, GetMemory, DeleteMemory, MemoryExists, BeginScan
  <1>2. /\ access[a] \in Access /\ access[a].got \in Memories /\ memory \in Memories
        /\ access[a].got = Nothing /\ access[a].found = {}
    BY <1>1, FreshCall DEF Access
  <1>3. ASSUME NEW n \in Names, NEW v \in Values, SetMemory(a, n, v) PROVE MemoryIInv'
    <2>1. [memory EXCEPT ![n] = v] \in Memories
      BY <1>2
    <2>2. AsCall(a, "set", "done")
            = [access[a] EXCEPT !.kind = "set", !.pc = "done", !.got = access[a].got]
      BY <1>2 DEF AsCall, Access
    <2> DEFINE new == [memory EXCEPT ![n] = v]
    <2>3. Becomes(a, new, [access[a] EXCEPT !.kind = "set", !.pc = "done", !.got = access[a].got])
      BY <1>3, <2>2 DEF SetMemory
    <2> HIDE DEF new
    <2>4. new \in Memories
      BY <2>1 DEF new
    <2> QED
      BY <1>1, <1>2, <2>3, <2>4, OneCall
  <1>4. ASSUME NEW n \in Names, GetMemory(a, n) PROVE MemoryIInv'
    <2> DEFINE got == [access[a].got EXCEPT ![n] = memory[n]]
    <2>1. got \in Memories
      BY <1>2
    <2>2. [AsCall(a, "get", "done") EXCEPT !.got[n] = memory[n]]
            = [access[a] EXCEPT !.kind = "get", !.pc = "done", !.got = got]
      BY <1>2 DEF AsCall, Access
    <2> HIDE DEF got
    <2> QED
      BY <1>1, <1>2, <1>4, <2>1, <2>2, OneCall DEF GetMemory
  <1>5. ASSUME NEW n \in Names, DeleteMemory(a, n) PROVE MemoryIInv'
    <2>1. [memory EXCEPT ![n] = Absent] \in Memories
      BY <1>2
    <2>2. AsCall(a, "delete", "done")
            = [access[a] EXCEPT !.kind = "delete", !.pc = "done", !.got = access[a].got]
      BY <1>2 DEF AsCall, Access
    <2> DEFINE new == [memory EXCEPT ![n] = Absent]
    <2>3. Becomes(a, new, [access[a] EXCEPT !.kind = "delete", !.pc = "done", !.got = access[a].got])
      BY <1>5, <2>2 DEF DeleteMemory
    <2> HIDE DEF new
    <2>4. new \in Memories
      BY <2>1 DEF new
    <2> QED
      BY <1>1, <1>2, <2>3, <2>4, OneCall
  <1>6. CASE MemoryExists(a)
    <2>1. AsCall(a, "exists", "done")
            = [access[a] EXCEPT !.kind = "exists", !.pc = "done", !.got = access[a].got]
      BY <1>2 DEF AsCall, Access
    <2> QED
      BY <1>1, <1>2, <1>6, <2>1, OneCall DEF MemoryExists
  <1>7. ASSUME NEW kind \in {"clear", "get_all"}, BeginScan(a, kind) PROVE MemoryIInv'
    <2> DEFINE held == [n \in Names |-> {memory[n]} \ {Absent}]
               c == [AsCall(a, kind, "scan") EXCEPT !.stayed = Present, !.held = held]
    <2>1. held \in [Names -> SUBSET Values] /\ Present \in SUBSET Names
      BY <1>2 DEF Present
    <2>2. \A n \in Names : memory[n] # Absent => memory[n] \in held[n]
      OBVIOUS
    <2>3. Becomes(a, memory, c)
      BY <1>7 DEF BeginScan
    <2> HIDE DEF held
    <2>4. /\ c \in Access /\ c.kind = kind /\ c.pc = "scan" /\ c.found = {}
          /\ c.got = Nothing /\ c.held = held /\ c.stayed = Present
      BY <1>2, <2>1 DEF AsCall, Access
    <2> HIDE DEF c
    <2>5. Loaded(c, memory)
      BY <2>2, <2>4 DEF Loaded, Nothing, Present
    <2>6. Clearing(c)
      BY <2>4 DEF Clearing
    <2> QED
      BY <1>2, <2>3, <2>4, <2>5, <2>6, BecomesKeeps
  <1> QED
    BY <1>3, <1>4, <1>5, <1>6, <1>7 DEF MemoryCall

\* clear_run has its keys, and deletes them.
LEMMA ClearFoundStep ==
    ASSUME MemoryIInv, NEW a \in MemoryCalls, ClearFound(a)
    PROVE  MemoryIInv'
  <1>1. /\ access[a] \in Access /\ Loaded(access[a], memory) /\ Clearing(access[a])
        /\ memory \in [Names -> Values \cup {Absent}]
    BY DEF MemoryIInv, MemoryTypeOK
  <1>2. PICK names \in Found(a) :
          Becomes(a, memory, [access[a] EXCEPT !.found = names,
                                !.pc = IF names = {} THEN "done" ELSE "remove"])
    BY DEF ClearFound
  <1>3. names \in SUBSET Names /\ access[a].stayed \subseteq names
    BY DEF Found, Existed
  <1> DEFINE pc == IF names = {} THEN "done" ELSE "remove"
             c == [access[a] EXCEPT !.found = names, !.pc = pc]
  <1>4. pc \in {"done", "remove"} /\ (pc = "done" => names = {})
    OBVIOUS
  <1>5. access[a].pc = "scan" /\ access[a].kind = "clear" /\ Becomes(a, memory, c)
    BY <1>2 DEF ClearFound
  <1> HIDE DEF pc
  <1>6. /\ c \in Access /\ c.kind = "clear" /\ c.pc = pc /\ c.found = names
        /\ c.held = access[a].held /\ c.stayed = access[a].stayed
    BY <1>1, <1>3, <1>4, <1>5 DEF Access
  <1> HIDE DEF c
  <1>7. Loaded(c, memory)
    BY <1>1, <1>4, <1>5, <1>6 DEF Loaded, Scanning
  <1>8. Clearing(c)
    BY <1>3, <1>4, <1>6 DEF Clearing
  <1> QED
    BY <1>1, <1>5, <1>6, <1>7, <1>8, BecomesKeeps

LEMMA ClearRemoveStep ==
    ASSUME MemoryIInv, NEW a \in MemoryCalls, ClearRemove(a)
    PROVE  MemoryIInv'
  <1> DEFINE new == [n \in Names |-> IF n \in access[a].found THEN Absent ELSE memory[n]]
             c == [access[a] EXCEPT !.pc = "done"]
  <1>1. access[a] \in Access /\ access[a].pc = "remove" /\ Becomes(a, new, c)
    BY DEF MemoryIInv, MemoryTypeOK, ClearRemove
  <1>2. /\ access[a].kind = "clear" /\ access[a].stayed \subseteq access[a].found
        /\ \A n \in access[a].stayed : memory[n] # Absent
    BY <1>1 DEF MemoryIInv, Clearing, Loaded
  <1>3. new \in [Names -> Values \cup {Absent}]
    BY DEF MemoryIInv, MemoryTypeOK
  <1>4. /\ c.kind = "clear" /\ c.pc = "done" /\ c.stayed = access[a].stayed
        /\ c \in Access
    BY <1>1, <1>2 DEF Access
  <1>5. {n \in c.stayed : new[n] # Absent} = {}
    BY <1>1, <1>2, <1>4 DEF Access
  <1>6. memory' = new /\ broken' = broken
    BY <1>1 DEF Becomes
  <1> HIDE DEF new, c
  <1> DEFINE d == Watching(c, new)
  <1>7. ASSUME NEW b \in MemoryCalls
        PROVE  /\ access'[b] \in Access /\ Loaded(access'[b], new) /\ Clearing(access'[b])
    <2>1. CASE b = a
      <3>1. access'[b] = d
        BY <1>1, <2>1 DEF Becomes
      <3>2. d \in Access
        <4> DEFINE calm == [c EXCEPT !.kind = "exists"]
        <4>1. calm \in Access /\ calm.kind = "exists" /\ calm.pc = "done" /\ calm.stayed = c.stayed
          BY <1>4 DEF Access
        <4>2. Loaded(calm, memory) /\ Clearing(calm)
          BY <1>2, <1>4, <4>1 DEF Loaded, Clearing, Scanning
        <4>3. Watching(calm, new) \in Access
          BY <1>3, <4>1, <4>2, WatchingKnows
        <4>4. d = [Watching(calm, new) EXCEPT !.kind = "clear"]
          BY <1>4 DEF Watching, Access
        <4> HIDE DEF calm, d
        <4> QED
          BY <4>3, <4>4 DEF Access
      <3>3. d.kind = "clear" /\ d.pc = "done" /\ d.stayed = {n \in c.stayed : new[n] # Absent}
        BY <1>4 DEF Watching, Access
      <3> HIDE DEF d
      <3>4. Loaded(d, new)
        BY <3>3 DEF Loaded, Scanning
      <3>5. Clearing(d)
        BY <1>5, <3>3 DEF Clearing
      <3> QED
        BY <3>1, <3>2, <3>4, <3>5
    <2>2. CASE b # a
      <3>1. access'[b] = Watching(access[b], new)
        BY <1>1, <2>2 DEF Becomes
      <3>2. access[b] \in Access /\ Loaded(access[b], memory) /\ Clearing(access[b])
        BY DEF MemoryIInv, MemoryTypeOK
      <3> QED
        BY <1>3, <3>1, <3>2, WatchingKnows
    <2> QED
      BY <2>1, <2>2
  <1>8. access' \in [MemoryCalls -> Access]
    BY <1>1, <1>7 DEF Becomes
  <1> QED
    BY <1>3, <1>6, <1>7, <1>8 DEF MemoryIInv, MemoryTypeOK

\* get_all goes from name to value, ...
LEMMA NextNameStep ==
    ASSUME MemoryIInv, NEW a \in MemoryCalls, NextName(a)
    PROVE  MemoryIInv'
  <1>1. /\ access[a] \in Access /\ Loaded(access[a], memory)
        /\ memory \in [Names -> Values \cup {Absent}]
        /\ access[a].pc = "scan" /\ access[a].kind = "get_all"
    BY DEF MemoryIInv, MemoryTypeOK, NextName
  <1>2. PICK n \in Existed(a) \ access[a].found :
          Becomes(a, memory, [access[a] EXCEPT !.found = @ \cup {n}, !.at = n, !.pc = "read"])
    BY DEF NextName
  <1> DEFINE c == [access[a] EXCEPT !.found = @ \cup {n}, !.at = n, !.pc = "read"]
  <1>3. n \in Names
    BY DEF Existed
  <1>4. /\ c \in Access /\ c.kind = "get_all" /\ c.pc = "read" /\ c.at = n
        /\ c.found = access[a].found \cup {n} /\ c.got = access[a].got
        /\ c.held = access[a].held /\ c.stayed = access[a].stayed
    BY <1>1, <1>3 DEF Access
  <1> HIDE DEF c
  <1>5. Loaded(c, memory)
    BY <1>1, <1>3, <1>4 DEF Loaded, Scanning
  <1>6. Clearing(c)
    BY <1>4 DEF Clearing
  <1> QED
    BY <1>1, <1>2, <1>4, <1>5, <1>6, BecomesKeeps DEF c

\* ... and on; the value it reads is one the memory has.
LEMMA ReadNameStep ==
    ASSUME MemoryIInv, NEW a \in MemoryCalls, ReadName(a)
    PROVE  MemoryIInv'
  <1> DEFINE n == access[a].at
             got == [access[a].got EXCEPT ![n] = memory[n]]
             c == [access[a] EXCEPT !.got[n] = memory[n], !.pc = "scan"]
  <1>1. /\ access[a] \in Access /\ Loaded(access[a], memory)
        /\ memory \in [Names -> Values \cup {Absent}]
        /\ access[a].pc = "read" /\ Becomes(a, memory, c)
    BY DEF MemoryIInv, MemoryTypeOK, ReadName
  <1>2. n \in Names /\ got \in [Names -> Values \cup {Absent}]
    BY <1>1 DEF Loaded, Access
  <1>3. c = [access[a] EXCEPT !.got = got, !.pc = "scan"]
    BY <1>1 DEF Access
  <1>4. \A m \in Names : got[m] = IF m = n THEN memory[n] ELSE access[a].got[m]
    BY <1>1 DEF Access
  <1> HIDE DEF got, c
  <1>5. /\ c \in Access /\ c.kind = access[a].kind /\ c.pc = "scan" /\ c.found = access[a].found
        /\ c.got = got /\ c.held = access[a].held /\ c.stayed = access[a].stayed
    BY <1>1, <1>2, <1>3 DEF Access
  <1>7. \A m \in Names : memory[m] # Absent => memory[m] \in access[a].held[m]
    BY <1>1 DEF Loaded, Scanning
  <1>8. Loaded(c, memory)
    <2>1. ASSUME c.kind = "get_all", NEW m \in Names
          PROVE  /\ got[m] \in access[a].held[m] \cup {Absent}
                 /\ m \in access[a].stayed => got[m] # Absent \/ m \notin access[a].found
      <3>1. CASE m = n
        BY <1>1, <1>4, <1>7, <2>1, <3>1 DEF Loaded
      <3>2. CASE m # n
        BY <1>1, <1>4, <1>5, <2>1, <3>2 DEF Loaded
      <3> QED
        BY <3>1, <3>2
    <2>2. c.kind # "clear"
      BY <1>1, <1>5 DEF Loaded
    <2> QED
      BY <1>1, <1>5, <1>7, <2>1, <2>2 DEF Loaded
  <1>9. Clearing(c)
    BY <1>5 DEF Clearing
  <1> QED
    BY <1>1, <1>5, <1>8, <1>9, BecomesKeeps

LEMMA AllReadStep ==
    ASSUME MemoryIInv, NEW a \in MemoryCalls, AllRead(a)
    PROVE  MemoryIInv'
  <1> DEFINE c == [access[a] EXCEPT !.pc = "done"]
  <1>1. /\ access[a] \in Access /\ Loaded(access[a], memory)
        /\ memory \in [Names -> Values \cup {Absent}]
        /\ access[a].pc = "scan" /\ access[a].kind = "get_all" /\ Becomes(a, memory, c)
        /\ access[a].stayed \subseteq access[a].found
    BY DEF MemoryIInv, MemoryTypeOK, AllRead, Found
  <1>2. /\ c \in Access /\ c.kind = "get_all" /\ c.pc = "done" /\ c.got = access[a].got
        /\ c.held = access[a].held /\ c.stayed = access[a].stayed
    BY <1>1 DEF Access
  <1> HIDE DEF c
  <1>3. Loaded(c, memory) /\ Clearing(c)
    BY <1>1, <1>2 DEF Loaded, Clearing, Scanning
  <1> QED
    BY <1>1, <1>2, <1>3, BecomesKeeps

LEMMA MemoryCallFailsStep ==
    ASSUME MemoryIInv, NEW a \in MemoryCalls, MemoryCallFails(a)
    PROVE  MemoryIInv'
  <1> DEFINE c == [access[a] EXCEPT !.pc = "failed", !.got = Nothing]
  <1>1. /\ MemoryTypeOK /\ access[a] \in Access /\ Loaded(access[a], memory)
        /\ memory' = memory /\ broken < MaxBroken /\ broken' = broken + 1
        /\ access' = [access EXCEPT ![a].pc = "failed", ![a].got = Nothing]
    BY DEF MemoryIInv, MemoryTypeOK, MemoryCallFails
  <1>2. Nothing \in [Names -> Values \cup {Absent}]
    BY DEF Nothing
  <1>3. c \in Access /\ c.pc = "failed" /\ c.stayed = access[a].stayed
    BY <1>1, <1>2 DEF Access
  <1>4. access' = [access EXCEPT ![a] = c]
    BY <1>1 DEF MemoryTypeOK, Access
  <1> HIDE DEF c
  <1>5. Loaded(c, memory) /\ Clearing(c)
    BY <1>1, <1>3 DEF Loaded, Clearing, Scanning
  <1>6. broken' \in 0..MaxBroken
    BY <1>1, EphemeralMemoryAssumption DEF MemoryTypeOK
  <1>7. MemoryTypeOK'
    BY <1>1, <1>3, <1>4, <1>6 DEF MemoryTypeOK
  <1>8. ASSUME NEW b \in MemoryCalls PROVE Loaded(access'[b], memory) /\ Clearing(access'[b])
    BY <1>1, <1>4, <1>5 DEF MemoryIInv, MemoryTypeOK
  <1> QED
    BY <1>1, <1>7, <1>8 DEF MemoryIInv

LEMMA MemoryExpiresStep ==
    ASSUME MemoryIInv, MemoryExpires
    PROVE  MemoryIInv'
  <1>1. PICK n \in Present : /\ memory' = [memory EXCEPT ![n] = Absent]
                             /\ access' = [b \in MemoryCalls |-> Watching(access[b], memory')]
    BY DEF MemoryExpires
  <1>2. memory' \in [Names -> Values \cup {Absent}] /\ broken' \in 0..MaxBroken
    BY <1>1 DEF MemoryIInv, MemoryTypeOK, MemoryExpires
  <1>3. ASSUME NEW b \in MemoryCalls
        PROVE  access'[b] \in Access /\ Loaded(access'[b], memory') /\ Clearing(access'[b])
    <2>1. access[b] \in Access /\ Loaded(access[b], memory) /\ Clearing(access[b])
      BY DEF MemoryIInv, MemoryTypeOK
    <2>2. access'[b] = Watching(access[b], memory')
      BY <1>1
    <2> QED
      BY <1>2, <2>1, <2>2, WatchingKnows
  <1>4. access' \in [MemoryCalls -> Access]
    BY <1>1, <1>3
  <1> QED
    BY <1>2, <1>3, <1>4 DEF MemoryIInv, MemoryTypeOK

LEMMA MemoryIInvStep == MemoryIInv /\ [MemoryNext]_memoryVars => MemoryIInv'
  <1> SUFFICES ASSUME MemoryIInv, [MemoryNext]_memoryVars PROVE MemoryIInv'
    OBVIOUS
  <1>1. ASSUME NEW a \in MemoryCalls,
               \/ MemoryCall(a) \/ ClearFound(a) \/ ClearRemove(a)
               \/ NextName(a) \/ ReadName(a) \/ AllRead(a) \/ MemoryCallFails(a)
        PROVE  MemoryIInv'
    BY <1>1, MemoryCallStep, ClearFoundStep, ClearRemoveStep, NextNameStep, ReadNameStep,
       AllReadStep, MemoryCallFailsStep
  <1>2. CASE MemoryExpires
    BY <1>2, MemoryExpiresStep
  <1>3. CASE UNCHANGED memoryVars
    BY <1>3 DEF memoryVars, MemoryIInv, MemoryTypeOK
  <1> QED
    BY <1>1, <1>2, <1>3 DEF MemoryNext

LEMMA MemoryIInvHolds == MemorySpec => []MemoryIInv
  BY MemoryIInvInit, MemoryIInvStep, PTL DEF MemorySpec

\* The memory of the run and the calls on it keep their types.
THEOREM MemoryTypeCorrect == MemorySpec => []MemoryTypeOK
  <1>1. MemoryIInv => MemoryTypeOK
    BY DEF MemoryIInv
  <1> QED
    BY <1>1, MemoryIInvHolds, PTL

\* However many calls set, delete and lose values meanwhile, what a run loads was
\* there during the load, and nothing that stayed is left out (get_all).
THEOREM LoadsAreComplete == MemorySpec => []GatheredDuringLoad
  <1>1. MemoryIInv => GatheredDuringLoad
    BY DEF MemoryIInv, Loaded, GatheredDuringLoad
  <1> QED
    BY <1>1, MemoryIInvHolds, PTL

\* However many calls set values meanwhile, nothing survives clear_run from
\* before it to after it.
THEOREM ClearingIsComplete == MemorySpec => []ClearedForGood
  <1>1. MemoryIInv => ClearedForGood
    BY DEF MemoryIInv, Clearing, ClearedForGood
  <1> QED
    BY <1>1, MemoryIInvHolds, PTL

\* Neither a load nor a clearing of a run's memory misses what was there.
THEOREM ScansAreComplete == MemorySpec => []MemoryScanned
  BY MemoryTypeCorrect, LoadsAreComplete, ClearingIsComplete, PTL DEF MemoryScanned

-----------------------------------------------------------------------------
(* The text pipeline: what a text becomes, and its chunks.                 *)

\* A text, whatever its tokens are.
IsText(text) == Len(text) \in Nat /\ text = [i \in 1..Len(text) |-> text[i]]

\* A set of natural numbers has a least member.
LEMMA LeastNatural ==
    ASSUME NEW S, S \subseteq Nat, S # {}
    PROVE  \E n \in S : \A m \in S : n <= m
<1>1. PICK x \in S : \A y \in S : ~ (<<y, x>> \in OpToRel(<, Nat))
  BY NatLessThanWellFounded, WFMin
<1>2. \A y \in S : ~(y < x)
  BY <1>1 DEF OpToRel
<1>3. \A y \in S : y \in Nat
  OBVIOUS
<1> QED
  BY <1>2, <1>3

\* ... and a greatest one, if it has a bound.
LEMMA GreatestNatural ==
    ASSUME NEW S, NEW bound \in Nat, S \subseteq 0..bound, S # {}
    PROVE  \E n \in S : \A m \in S : m <= n
<1> DEFINE T == {bound - m : m \in S}
<1>1. T \subseteq Nat /\ T # {}
  <2>1. \A m \in S : bound - m \in Nat
    OBVIOUS
  <2>2. PICK m \in S : TRUE
    OBVIOUS
  <2>3. bound - m \in T
    BY <2>2
  <2> QED
    BY <2>1, <2>3
<1>2. PICK k \in T : \A l \in T : k <= l
  BY <1>1, LeastNatural
<1>3. PICK n \in S : k = bound - n
  BY <1>2
<1>4. \A m \in S : k <= bound - m
  BY <1>2
<1>5. \A m \in S : m \in Nat
  OBVIOUS
<1> QED
  BY <1>3, <1>4, <1>5

-----------------------------------------------------------------------------
(* Texts.                                                                  *)

LEMMA TextDomain ==
    ASSUME NEW text, IsText(text)
    PROVE  Len(text) \in Nat /\ DOMAIN text = 1..Len(text)
<1>1. DOMAIN [i \in 1..Len(text) |-> text[i]] = 1..Len(text)
  OBVIOUS
<1> QED
  BY <1>1 DEF IsText

\* A function over the first n numbers is a text.
LEMMA FunctionIsText ==
    ASSUME NEW n \in Nat, NEW text, text = [i \in 1..n |-> text[i]]
    PROVE  IsText(text) /\ Len(text) = n
<1>1. Len(text) = n
  OBVIOUS
<1> QED
  BY <1>1 DEF IsText

LEMMA KeptIsText ==
    ASSUME NEW text, IsText(text), NEW places \in SUBSET DOMAIN text
    PROVE  IsText(Kept(text, places))
<1>1. IsFiniteSet(1..Len(text)) /\ DOMAIN text = 1..Len(text)
  BY TextDomain, FS_Interval
<1>2. IsFiniteSet(places)
  BY <1>1, FS_Subset
<1>3. Cardinality(places) \in Nat
  BY <1>2, FS_CardinalityType
<1>4. Kept(text, places) = [n \in 1..Cardinality(places) |-> Kept(text, places)[n]]
  BY DEF Kept
<1> QED
  BY <1>3, <1>4, FunctionIsText

\* Stripping a text takes the tokens between two that are no space.
LEMMA StripIs ==
    ASSUME NEW text, IsText(text), NEW kept, kept = {i \in DOMAIN text : text[i] # "space"}
    PROVE  \/ kept = {} /\ Strip(text) = <<>>
           \/ \E a, b \in kept : a <= b /\ Strip(text) = SubSeq(text, a, b)
<1>1. Strip(text) = IF kept = {} THEN <<>> ELSE SubSeq(text, Sets!Min(kept), Sets!Max(kept))
  BY DEF Strip
<1>2. CASE kept # {}
  <2>1. kept \subseteq Nat /\ kept \subseteq 0..Len(text) /\ Len(text) \in Nat
    BY TextDomain
  <2> HIDE DEF IsText
  <2>2. \E n \in kept : \A m \in kept : n <= m
    BY <1>2, <2>1, LeastNatural
  <2>3. \E n \in kept : \A m \in kept : m <= n
    BY <1>2, <2>1, GreatestNatural
  <2>4. Sets!Min(kept) \in kept /\ \A m \in kept : Sets!Min(kept) <= m
    BY <2>2 DEF Sets!Min
  <2>5. \E n \in kept : \A m \in kept : n >= m
    BY <2>1, <2>3
  <2>6. Sets!Max(kept) \in kept /\ \A m \in kept : Sets!Max(kept) >= m
    BY <2>5 DEF Sets!Max
  <2> QED
    BY <1>1, <1>2, <2>4, <2>6
<1> QED
  BY <1>1, <1>2

\* Stripping adds nothing, and leaves something of a text that is not blank.
LEMMA StripText ==
    ASSUME NEW text, IsText(text)
    PROVE  /\ IsText(Strip(text))
           /\ (\E i \in DOMAIN text : text[i] # "space") => Strip(text) # <<>>
<1> DEFINE kept == {i \in DOMAIN text : text[i] # "space"}
<1>1. CASE kept = {} /\ Strip(text) = <<>>
  <2>1. IsText(<<>>)
    BY DEF IsText
  <2> QED
    BY <1>1, <2>1
<1>2. CASE \E a, b \in kept : a <= b /\ Strip(text) = SubSeq(text, a, b)
  <2>1. PICK a, b : a \in kept /\ b \in kept /\ a <= b /\ Strip(text) = SubSeq(text, a, b)
    BY <1>2
  <2>2. a \in DOMAIN text /\ b \in DOMAIN text /\ DOMAIN text = 1..Len(text) /\ Len(text) \in Nat
    BY <2>1, TextDomain
  <2>3. (b - a) + 1 \in Nat /\ (b - a) + 1 >= 1
    BY <2>1, <2>2
  <2>4. Strip(text) = [i \in 1..((b - a) + 1) |-> text[i + a - 1]]
    BY <2>1, <2>2
  <2>5. Strip(text) = [i \in 1..((b - a) + 1) |-> Strip(text)[i]]
    BY <2>4
  <2>6. IsText(Strip(text)) /\ Len(Strip(text)) = (b - a) + 1
    BY <2>3, <2>5, FunctionIsText
  <2>7. Strip(text) # <<>>
    BY <2>3, <2>6
  <2> QED
    BY <2>6, <2>7
<1> QED
  BY <1>1, <1>2, StripIs

LEMMA NormalizedIsText ==
    ASSUME NEW text, IsText(text)
    PROVE  IsText(Normalized(text))
<1> DEFINE places == {i \in DOMAIN text :
                        text[i] # "space" \/ (i > 1 /\ text[i - 1] # "space")}
           stripped == Strip(Collapsed(text))
           others == {i \in DOMAIN stripped : stripped[i] # "control"}
<1>1. Collapsed(text) = Kept(text, places) /\ places \in SUBSET DOMAIN text
  BY DEF Collapsed
<1> HIDE DEF places
<1>2. IsText(stripped)
  BY <1>1, KeptIsText, StripText
<1>3. Normalized(text) = Kept(stripped, others) /\ others \in SUBSET DOMAIN stripped
  BY DEF Normalized
<1> HIDE DEF stripped, others
<1> QED
  BY <1>2, <1>3, KeptIsText

\* A text of which some tokens may have been redacted.
Redacting(t, text) ==
    /\ IsText(t)
    /\ DOMAIN t = DOMAIN text /\ Len(t) = Len(text)
    /\ \A i \in DOMAIN text : t[i] = text[i] \/ t[i] = "[REDACTED]"

\* What stands next to a match may be redacted before it: it matches no less.
LEMMA StillMatches ==
    ASSUME NEW text, IsText(text), NEW t, Redacting(t, text),
           NEW i \in FoundIn(text), t[i] = text[i]
    PROVE  Matches(t, i)
<1>1. "[REDACTED]" \notin WordLike
  BY DEF WordLike, SensitiveDataType
<1>2. i \in DOMAIN text /\ Matches(text, i) /\ DOMAIN text = 1..Len(text) /\ Len(text) \in Nat
  BY TextDomain DEF FoundIn
<1>3. Len(t) = Len(text) /\ \A j \in DOMAIN text : t[j] = text[j] \/ t[j] = "[REDACTED]"
  BY DEF Redacting
<1>4. CASE text[i] \in Bounded
  <2>1. ASSUME i > 1 PROVE t[i - 1] \notin WordLike
    <3>1. i - 1 \in DOMAIN text /\ text[i - 1] \notin WordLike
      BY <1>2, <1>4, <2>1 DEF Matches
    <3> QED
      BY <1>1, <1>3, <3>1
  <2>2. ASSUME i < Len(t) PROVE t[i + 1] \notin WordLike
    <3>1. i + 1 \in DOMAIN text /\ text[i + 1] \notin WordLike
      BY <1>2, <1>3, <1>4, <2>2 DEF Matches
    <3> QED
      BY <1>1, <1>3, <3>1
  <2> QED
    BY <1>2, <2>1, <2>2 DEF Matches
<1>5. CASE text[i] \notin Bounded
  BY <1>2, <1>5 DEF Matches
<1> QED
  BY <1>4, <1>5

\* One pattern redacts what the classifier found of its type, and gives nothing
\* back.
LEMMA SubstitutedRedacts ==
    ASSUME NEW text, IsText(text), NEW types, NEW t, Redacting(t, text),
           NEW type \in SensitiveDataType
    PROVE  LET u == Substituted(t, types, type)
           IN  /\ Redacting(u, text)
               /\ \A i \in DOMAIN text : t[i] = "[REDACTED]" => u[i] = "[REDACTED]"
               /\ type \in types =>
                    \A i \in FoundIn(text) : text[i] = type => u[i] = "[REDACTED]"
<1> DEFINE u == Substituted(t, types, type)
           Hit(i) == type \in types /\ t[i] = type /\ Matches(t, i)
<1>1. DOMAIN t = DOMAIN text /\ DOMAIN text = 1..Len(text) /\ Len(text) \in Nat
      /\ \A i \in DOMAIN text : t[i] = text[i] \/ t[i] = "[REDACTED]"
  BY TextDomain DEF Redacting
<1>2. u = [i \in DOMAIN t |-> IF Hit(i) THEN "[REDACTED]" ELSE t[i]]
  BY DEF Substituted
<1> HIDE DEF u, Hit
<1>3. DOMAIN u = DOMAIN text
      /\ \A i \in DOMAIN text : u[i] = IF Hit(i) THEN "[REDACTED]" ELSE t[i]
  BY <1>1, <1>2
<1>4. u = [i \in 1..Len(text) |-> u[i]]
  BY <1>1, <1>2, <1>3
<1>5. IsText(u) /\ Len(u) = Len(text)
  BY <1>1, <1>4, FunctionIsText
<1>6. Redacting(u, text)
  BY <1>1, <1>3, <1>5 DEF Redacting
<1>7. \A i \in DOMAIN text : t[i] = "[REDACTED]" => u[i] = "[REDACTED]"
  BY <1>3
<1>8. ASSUME type \in types, NEW i \in FoundIn(text), text[i] = type
      PROVE  u[i] = "[REDACTED]"
  <2>1. i \in DOMAIN text
    BY DEF FoundIn
  <2>2. CASE t[i] = text[i]
    <3>1. Matches(t, i)
      BY <2>2, StillMatches
    <3> QED
      BY <1>3, <1>8, <2>1, <2>2, <3>1 DEF Hit
  <2>3. CASE t[i] = "[REDACTED]"
    BY <1>7, <2>1, <2>3
  <2> QED
    BY <1>1, <2>1, <2>2, <2>3
<1> QED
  BY <1>6, <1>7, <1>8 DEF u

\* Redaction leaves nothing of what the classifier found, whichever pattern came
\* first.
LEMMA RedactedWhereFound ==
    ASSUME NEW text, IsText(text)
    PROVE  LET out == Redacted(text, Classified(text))
           IN  /\ IsText(out) /\ Len(out) = Len(text)
               /\ \A i \in FoundIn(text) : out[i] = "[REDACTED]"
               /\ Classified(text).label \in AllowedUseLabel
<1> DEFINE types == Detected(text)
           out == Redacted(text, Classified(text))
           afterEmail == Substituted(text, types, "email")
           afterPhone == Substituted(afterEmail, types, "phone")
           afterSsn == Substituted(afterPhone, types, "ssn")
           afterCard == Substituted(afterSsn, types, "credit_card")
           afterAddress == Substituted(afterCard, types, "ip_address")
           afterKey == Substituted(afterAddress, types, "api_key")
           last == Substituted(afterKey, types, "password")
           Clean(t, type) == \A i \in FoundIn(text) : text[i] = type => t[i] = "[REDACTED]"
           Later(t, u) == \A i \in DOMAIN text : t[i] = "[REDACTED]" => u[i] = "[REDACTED]"
<1>1. Classified(text).types = types
  BY DEF Classified
<1>2. Classified(text).label \in AllowedUseLabel
  BY DEF Classified, AllowedUse, AllowedUseLabel
<1>3. \A i \in FoundIn(text) : i \in DOMAIN text /\ text[i] \in types /\ text[i] \in SensitiveDataType
  BY DEF FoundIn, Detected, Matches
<1>4. CASE types = {}
  <2>1. out = text
    BY <1>1, <1>4 DEF Redacted
  <2>2. FoundIn(text) = {}
    BY <1>3, <1>4
  <2> QED
    BY <1>2, <2>1, <2>2
<1>5. CASE types # {}
  <2>1. out = last
    BY <1>1, <1>5 DEF Redacted, RedactedPatterns
  <2>2. SensitiveDataType =
          {"email", "phone", "ssn", "credit_card", "ip_address", "api_key", "password"}
    BY DEF SensitiveDataType
  <2>3. Redacting(text, text)
    BY DEF Redacting
  <2> HIDE DEF types, out, last, afterKey, afterAddress, afterCard, afterSsn, afterPhone, afterEmail
  <2>4. ASSUME NEW t, Redacting(t, text), NEW type \in SensitiveDataType,
               NEW u, u = Substituted(t, types, type)
        PROVE  Redacting(u, text) /\ Later(t, u) /\ Clean(u, type)
    <3>1. CASE type \in types
      BY <2>4, <3>1, SubstitutedRedacts
    <3>2. CASE type \notin types
      <4>1. Clean(u, type)
        BY <1>3, <3>2
      <4> QED
        BY <2>4, <4>1, SubstitutedRedacts
    <3> QED
      BY <3>1, <3>2
  <2> HIDE DEF Clean, Later
  <2>5. Redacting(afterEmail, text) /\ Clean(afterEmail, "email")
    BY <2>2, <2>3, <2>4 DEF afterEmail
  <2>6. Redacting(afterPhone, text) /\ Later(afterEmail, afterPhone) /\ Clean(afterPhone, "phone")
    BY <2>2, <2>4, <2>5 DEF afterPhone
  <2>7. Redacting(afterSsn, text) /\ Later(afterPhone, afterSsn) /\ Clean(afterSsn, "ssn")
    BY <2>2, <2>4, <2>6 DEF afterSsn
  <2>8. Redacting(afterCard, text) /\ Later(afterSsn, afterCard) /\ Clean(afterCard, "credit_card")
    BY <2>2, <2>4, <2>7 DEF afterCard
  <2>9. /\ Redacting(afterAddress, text) /\ Later(afterCard, afterAddress)
        /\ Clean(afterAddress, "ip_address")
    BY <2>2, <2>4, <2>8 DEF afterAddress
  <2>10. Redacting(afterKey, text) /\ Later(afterAddress, afterKey) /\ Clean(afterKey, "api_key")
    BY <2>2, <2>4, <2>9 DEF afterKey
  <2>11. Redacting(last, text) /\ Later(afterKey, last) /\ Clean(last, "password")
    BY <2>2, <2>4, <2>10 DEF last
  <2>12. ASSUME NEW i \in FoundIn(text) PROVE last[i] = "[REDACTED]"
    BY <1>3, <2>2, <2>5, <2>6, <2>7, <2>8, <2>9, <2>10, <2>11 DEF Clean, Later
  <2> QED
    BY <1>2, <2>1, <2>11, <2>12 DEF Redacting, out
<1> QED
  BY <1>4, <1>5

-----------------------------------------------------------------------------
(* Chunks.                                                                 *)

\* A chunk ends within the text; one that does not end it reaches further than
\* the overlap the next one repeats.
LEMMA ChunkEnds ==
    ASSUME NEW text, IsText(text), NEW start \in 0..Len(text)
    PROVE  /\ ChunkEnd(text, start) \in start..Len(text)
           /\ ChunkEnd(text, start) < Len(text) =>
                NextStart(ChunkEnd(text, start)) \in (start + 1)..(Len(text) - 1)
           /\ NextStart(ChunkEnd(text, start)) <= ChunkEnd(text, start)
<1> DEFINE full == Sets!Min({start + ChunkSize, Len(text)})
           late == {i \in (start + ChunkSize \div 2 + 1)..(full - 2) :
                      text[i + 1] = "stop" /\ text[i + 2] = "space"}
           half == ChunkSize \div 2
           end == ChunkEnd(text, start)
<1>1. /\ ChunkSize \in Nat \ {0} /\ Overlap \in 0..(ChunkSize - 1) /\ Overlap < half + 3
      /\ half \in Nat
  BY TextAssumption, OverlapAssumption
<1>2. Len(text) \in Nat /\ start \in Nat /\ start <= Len(text)
  BY TextDomain
<1>3. full = IF start + ChunkSize <= Len(text) THEN start + ChunkSize ELSE Len(text)
  <2>1. start + ChunkSize \in Nat
    BY <1>1, <1>2
  <2>2. \E x \in {start + ChunkSize, Len(text)} : \A y \in {start + ChunkSize, Len(text)} : x <= y
    BY <1>2, <2>1
  <2>3. full \in {start + ChunkSize, Len(text)}
        /\ \A y \in {start + ChunkSize, Len(text)} : full <= y
    BY <2>2 DEF Sets!Min
  <2> HIDE DEF full
  <2> QED
    BY <1>2, <2>1, <2>3
<1>4. end = IF full < Len(text) /\ late # {} THEN Sets!Max(late) + 2 ELSE full
  BY DEF ChunkEnd
<1>5. NextStart(end) = end - Overlap
  BY DEF NextStart
<1> HIDE DEF full, end
<1>6. CASE full < Len(text) /\ late # {}
  <2>1. full \in Nat /\ late \subseteq 0..full
    BY <1>1, <1>2, <1>3
  <2>2. \E x \in late : \A y \in late : y <= x
    BY <1>6, <2>1, GreatestNatural
  <2>3. \E x \in late : \A y \in late : x >= y
    BY <2>1, <2>2
  <2>4. Sets!Max(late) \in late
    BY <2>3 DEF Sets!Max
  <2>5. PICK last : last \in late /\ end = last + 2
    BY <1>4, <1>6, <2>4
  <2>6. last \in (start + half + 1)..(full - 2)
    BY <2>5
  <2> HIDE DEF late, half
  <2>7. /\ end \in start..Len(text) /\ end - Overlap <= end
        /\ end - Overlap \in (start + 1)..(Len(text) - 1)
    BY <1>1, <1>2, <1>3, <1>6, <2>5, <2>6
  <2> QED
    BY <1>5, <2>7 DEF end
<1>7. CASE ~(full < Len(text) /\ late # {})
  <2>1. end = full
    BY <1>4, <1>7
  <2> HIDE DEF late, half
  <2>2. /\ end \in start..Len(text) /\ end - Overlap <= end
        /\ end < Len(text) => end - Overlap \in (start + 1)..(Len(text) - 1)
    BY <1>1, <1>2, <1>3, <2>1
  <2> QED
    BY <1>5, <2>2 DEF end
<1> QED
  BY <1>6, <1>7

\* What the loop does at start, when f is what it does from every later start.
ChunkAt(text, start) ==
    LET chunk == [start |-> start, end |-> ChunkEnd(text, start)]
    IN IF Content(text, chunk) = <<>> THEN <<>> ELSE <<chunk>>

Follower(text, start) == NextStart(ChunkEnd(text, start))

LastChunk(text, start) == Follower(text, start) <= start \/ Follower(text, start) >= Len(text)

Loop(text, f, start) ==
    ChunkAt(text, start)
      \o IF LastChunk(text, start) THEN <<>> ELSE f[Follower(text, start)]

RestOf(text) == CHOOSE f : f = [start \in 0..Len(text) |-> Loop(text, f, start)]

LEMMA ChunksAreRest ==
    ASSUME NEW text
    PROVE  Chunks(text) = RestOf(text)[0]
BY DEF Chunks, RestOf, Loop, LastChunk, Follower, ChunkAt

\* The loop's definition is one of a function: it goes on from a later start only.
LEMMA RestExists ==
    ASSUME NEW text, IsText(text)
    PROVE  RestOf(text) = [start \in 0..Len(text) |-> Loop(text, RestOf(text), start)]
<1> DEFINE len == Len(text)
           From(k) == \E f : f = [start \in k..len |-> Loop(text, f, start)]
           S == {k \in 0..(len + 1) : From(k)}
<1>1. len \in Nat
  BY TextDomain
<1> HIDE DEF len
<1>2. len + 1 \in S
  <2>1. (len + 1)..len = {} /\ len + 1 \in 0..(len + 1)
    BY <1>1
  <2> DEFINE f == [start \in {} |-> 0]
  <2>2. f = [start \in {} |-> Loop(text, f, start)]
    OBVIOUS
  <2> QED
    BY <2>1, <2>2
<1>3. ASSUME NEW k \in 0..len, From(k + 1)
      PROVE  From(k)
  <2>1. PICK f : f = [start \in (k + 1)..len |-> Loop(text, f, start)]
    BY <1>3
  <2> DEFINE g == [start \in k..len |-> IF start = k THEN Loop(text, f, k) ELSE f[start]]
  <2>2. ASSUME NEW start \in k..len
        PROVE  g[start] = Loop(text, g, start)
    <3>1. start \in 0..Len(text) /\ start \in Nat
      BY <1>1 DEF len
    <3>2. ~LastChunk(text, start) =>
            Follower(text, start) \in (start + 1)..len
      <4>1. ChunkEnd(text, start) \in start..Len(text)
        BY <3>1, ChunkEnds
      <4>2. Follower(text, start) \in Int
        BY <1>1, <3>1, <4>1, TextAssumption DEF Follower, NextStart, len
      <4> QED
        BY <1>1, <3>1, <4>2 DEF LastChunk, len
    <3>3. ~LastChunk(text, start) =>
            g[Follower(text, start)] = f[Follower(text, start)]
      BY <1>1, <3>1, <3>2
    <3>4. Loop(text, g, start) = Loop(text, f, start)
      BY <3>3 DEF Loop
    <3>5. start # k => f[start] = Loop(text, f, start)
      BY <1>1, <2>1
    <3> QED
      BY <3>4, <3>5
  <2>3. g = [start \in k..len |-> g[start]]
    OBVIOUS
  <2> HIDE DEF g
  <2>4. g = [start \in k..len |-> Loop(text, g, start)]
    BY <2>2, <2>3
  <2> QED
    BY <2>4
<1> HIDE DEF From
<1>4. PICK k \in S : \A m \in S : k <= m
  <2>1. S \subseteq Nat /\ S # {}
    BY <1>1, <1>2
  <2> HIDE DEF S
  <2> QED
    BY <2>1, LeastNatural
<1>5. k = 0
  <2> SUFFICES ASSUME k # 0 PROVE FALSE
    OBVIOUS
  <2>1. k - 1 \in 0..len /\ (k - 1) + 1 = k /\ From(k)
    BY <1>1, <1>4
  <2>2. From(k - 1)
    BY <1>3, <2>1
  <2>3. k - 1 \in S
    BY <1>1, <2>1, <2>2
  <2> QED
    BY <1>1, <1>4, <2>3
<1>6. From(0)
  BY <1>4, <1>5
<1> QED
  BY <1>6 DEF From, len, RestOf

Chunk(text) == [start : Nat, end : 0..Len(text)]

\* From every start on, the chunks take in what is no whitespace.
LEMMA RestCovers ==
    ASSUME NEW text, IsText(text), NEW start \in 0..Len(text)
    PROVE  LET rest == RestOf(text)[start]
           IN  /\ rest \in Seq(Chunk(text))
               /\ \A i \in (start + 1)..Len(text) :
                    text[i] # "space" =>
                      \E k \in DOMAIN rest : rest[k].start < i /\ i <= rest[k].end
<1> DEFINE len == Len(text)
           Rest(s) == RestOf(text)[s]
           Covers(s) == /\ Rest(s) \in Seq(Chunk(text))
                        /\ \A i \in (s + 1)..len :
                             text[i] # "space" =>
                               \E k \in DOMAIN Rest(s) : Rest(s)[k].start < i /\ i <= Rest(s)[k].end
           S == {k \in 0..(len + 1) : \A s \in k..len : Covers(s)}
<1>1. len \in Nat
  BY TextDomain
<1>2. ASSUME NEW s \in 0..len, \A t \in (s + 1)..len : Covers(t)
      PROVE  Covers(s)
  <2> DEFINE end == ChunkEnd(text, s)
             chunk == [start |-> s, end |-> end]
             next == Follower(text, s)
             first == ChunkAt(text, s)
             others == IF LastChunk(text, s) THEN <<>> ELSE Rest(next)
  <2>1. Rest(s) = first \o others
    BY RestExists DEF Loop
  <2>2. /\ end \in s..len /\ next <= end
        /\ end < len => next \in (s + 1)..(len - 1)
    BY ChunkEnds DEF Follower
  <2>3. next \in Int
    BY <2>2, TextAssumption DEF Follower, NextStart
  <2>4. ~LastChunk(text, s) => next \in (s + 1)..len
    BY <1>1, <2>2, <2>3 DEF LastChunk
  <2>5. first = (IF Content(text, chunk) = <<>> THEN <<>> ELSE <<chunk>>)
    BY DEF ChunkAt
  <2>6. chunk \in Chunk(text)
    BY <1>1, <2>2 DEF Chunk
  <2> HIDE DEF Rest
  <2>7. first \in Seq(Chunk(text)) /\ others \in Seq(Chunk(text))
    <3>1. first \in Seq(Chunk(text))
      BY <2>5, <2>6
    <3>2. others \in Seq(Chunk(text))
      BY <1>2, <2>4
    <3> QED
      BY <3>1, <3>2
  <2> HIDE DEF end, first, others, next
  <2>8. /\ Rest(s) \in Seq(Chunk(text))
        /\ \A k \in DOMAIN first : \E l \in DOMAIN Rest(s) : Rest(s)[l] = first[k]
        /\ \A k \in DOMAIN others : \E l \in DOMAIN Rest(s) : Rest(s)[l] = others[k]
    <3>1. /\ Len(first) \in Nat /\ DOMAIN first = 1..Len(first)
          /\ Len(others) \in Nat /\ DOMAIN others = 1..Len(others)
      BY <2>7, LenProperties
    <3>2. /\ first \o others \in Seq(Chunk(text))
          /\ Len(first \o others) = Len(first) + Len(others)
          /\ \A i \in 1..(Len(first) + Len(others)) :
               (first \o others)[i] = IF i <= Len(first) THEN first[i] ELSE others[i - Len(first)]
      BY <2>7, ConcatProperties
    <3>3. DOMAIN (first \o others) = 1..(Len(first) + Len(others))
      BY <3>2, LenProperties
    <3>4. ASSUME NEW k \in DOMAIN first
          PROVE  \E l \in DOMAIN (first \o others) : (first \o others)[l] = first[k]
      <4>1. k \in 1..(Len(first) + Len(others)) /\ k <= Len(first)
        BY <3>1
      <4> QED
        BY <3>2, <3>3, <4>1
    <3>5. ASSUME NEW k \in DOMAIN others
          PROVE  \E l \in DOMAIN (first \o others) : (first \o others)[l] = others[k]
      <4> DEFINE l == k + Len(first)
      <4>1. l \in 1..(Len(first) + Len(others)) /\ ~(l <= Len(first)) /\ l - Len(first) = k
        BY <3>1
      <4> HIDE DEF l
      <4> QED
        BY <3>2, <3>3, <4>1
    <3> QED
      BY <2>1, <3>2, <3>4, <3>5
  <2>9. ASSUME NEW i \in (s + 1)..len, text[i] # "space"
        PROVE  \E k \in DOMAIN Rest(s) : Rest(s)[k].start < i /\ i <= Rest(s)[k].end
    <3>1. CASE i <= end
      <4>1. Content(text, chunk) # <<>>
        <5> DEFINE cut == SubSeq(text, s + 1, end)
        <5>1. end - s \in Nat /\ end - (s + 1) + 1 = end - s
          BY <1>1, <2>2
        <5>2. cut = [j \in 1..(end - s) |-> text[j + s]]
          BY <1>1, <2>2, <5>1
        <5>3. cut = [j \in 1..(end - s) |-> cut[j]]
          BY <5>2
        <5>4. IsText(cut)
          BY <5>1, <5>3, FunctionIsText
        <5>5. i - s \in 1..(end - s) /\ (i - s) + s = i
          BY <1>1, <2>2, <3>1
        <5>6. i - s \in DOMAIN cut /\ cut[i - s] # "space"
          BY <2>9, <5>2, <5>5
        <5> HIDE DEF cut
        <5>7. Strip(cut) # <<>>
          BY <5>4, <5>6, StripText
        <5>8. chunk.start + 1 = s + 1 /\ chunk.end = end
          OBVIOUS
        <5> QED
          BY <5>7, <5>8 DEF Content, cut
      <4>2. first = <<chunk>>
        BY <2>5, <4>1
      <4>3. 1 \in DOMAIN first /\ first[1] = chunk
        BY <4>2
      <4>4. chunk.start < i /\ i <= chunk.end
        BY <1>1, <3>1
      <4> QED
        BY <2>8, <4>3, <4>4
    <3>2. CASE ~(i <= end)
      <4>1. end < len /\ i \in (next + 1)..len
        BY <1>1, <2>2, <2>3, <3>2
      <4>2. ~LastChunk(text, s) /\ next \in (s + 1)..len
        BY <1>1, <2>2, <2>3, <4>1 DEF LastChunk, next
      <4>3. Covers(next) /\ others = Rest(next)
        BY <1>2, <4>2 DEF others, next
      <4>4. PICK k \in DOMAIN others : others[k].start < i /\ i <= others[k].end
        BY <2>9, <4>1, <4>3
      <4> QED
        BY <2>8, <4>4
    <3> QED
      BY <3>1, <3>2
  <2> QED
    BY <2>8, <2>9
<1> HIDE DEF Covers
<1>3. len + 1 \in S
  BY <1>1
<1>4. PICK k \in S : \A m \in S : k <= m
  <2>1. S \subseteq Nat /\ S # {}
    BY <1>1, <1>3
  <2> HIDE DEF S
  <2> QED
    BY <2>1, LeastNatural
<1>5. k = 0
  <2> SUFFICES ASSUME k # 0 PROVE FALSE
    OBVIOUS
  <2>1. k - 1 \in 0..len /\ (k - 1) + 1 = k /\ \A s \in k..len : Covers(s)
    BY <1>1, <1>4
  <2>2. Covers(k - 1)
    BY <1>2, <2>1
  <2>3. \A s \in (k - 1)..len : Covers(s)
    BY <1>1, <2>1, <2>2
  <2>4. k - 1 \in S
    BY <1>1, <2>1, <2>3
  <2> QED
    BY <1>1, <1>4, <2>4
<1>6. Covers(start)
  BY <1>4, <1>5
<1> QED
  BY <1>6 DEF Covers

\* The chunks of a text leave nothing out but whitespace (chunk_text).
LEMMA ChunksCover ==
    ASSUME NEW text, IsText(text)
    PROVE  /\ Chunks(text) \in Seq(Chunk(text))
           /\ \A i \in DOMAIN text :
                text[i] # "space" =>
                  \E k \in DOMAIN Chunks(text) :
                    Chunks(text)[k].start < i /\ i <= Chunks(text)[k].end
<1>1. 0 \in 0..Len(text) /\ DOMAIN text = (0 + 1)..Len(text)
  BY TextDomain
<1> QED
  BY <1>1, RestCovers, ChunksAreRest

-----------------------------------------------------------------------------
(* Durable memory and sessions: what holds of every request.               *)

SessionKinds == {"start", "add", "context", "end", "delete"}

\* Where a request of each kind can be, besides its beginning and its ends.
Flow(kind) ==
    CASE kind = "write"   -> {"policy", "count", "storage", "prepare", "store", "commit"}
      [] kind = "cleanup" -> {"expired", "quotas", "commit"}
      [] kind = "upsert"  -> {"commit"}
      [] kind = "start"   -> {"exists", "create"}
      [] kind = "add"     -> {"meta", "lookup", "restore", "exists", "create", "append", "counted"}
      [] kind = "context" -> {"recent", "search", "refill"}
      [] kind = "end"     -> {"snapshot", "insert", "policy", "count", "storage", "prepare",
                              "store", "final", "unlink", "commit"}
      [] kind = "delete"  -> {"final", "unlink", "unsummarise", "commit"}
      [] OTHER            -> {}

RequestFields == DOMAIN RecordFields

Expiries == Nat \cup {Never}

\* The uncommitted changes of a request.
GoodTx(tx, kind, t) ==
    /\ DOMAIN tx = DOMAIN NoTx
    /\ IsFiniteSet(tx.inserted) /\ tx.events = tx.inserted
    /\ \A m \in tx.inserted : m.expires \in Expiries
    /\ \A m \in tx.deleted : m.expires \in Nat /\ Expired(m, t)
    /\ tx.inserted # {} => kind \in {"write", "end"}
    /\ tx.deleted # {} => kind = "cleanup"

GoodPolicy(p) == p = None \/ p \in MemoryRetentionPolicy

\* The phases of a write's quota check: the policy is not read yet, nothing is
\* inserted yet, the check has been passed.
Unread == {"snapshot", "insert", "policy"}
Counting == {"count", "storage"}
Passed == {"prepare", "store", "final", "unlink", "commit"}

InScope(table, scope) == {m \in table : m.scope = scope}

\* A write that is alone has counted what is there, and found room for one more.
RoomLeft(q, table) ==
    q.alone /\ q.kind \in {"write", "end"} /\ q.policy # None /\ q.policy.records # None =>
        /\ q.pc = "storage" => q.count = Cardinality(InScope(table, q.scope))
        /\ q.pc \in Passed => Cardinality(InScope(table, q.scope)) + 1 <= q.policy.records

\* A cleanup that is alone has seen, after its first round, everything that had
\* expired when it began.
SweptOnce(q, table) ==
    q.alone /\ q.kind = "cleanup"
      /\ (q.pc \in {"quotas", "commit"} \/ (q.pc = "expired" /\ q.rounds < 2 * Len(Scopes))) =>
        \A m \in table : Expired(m, q.began) => m \in q.tx.deleted

GoodRecordRequest(q, table, t) ==
    /\ DOMAIN q = RequestFields
    /\ q.pc \in Ended \cup Flow(q.kind)
    /\ q.alone \in BOOLEAN
    /\ q.began \in Nat /\ q.began <= t
    /\ q.expires \in Expiries
    /\ GoodTx(q.tx, q.kind, t)
    /\ q.scope \in MemoryScope
    /\ q.pc = "new" => q = RecordFields
    /\ q.kind \in {"write", "end"} => GoodPolicy(q.policy)
    /\ q.pc \in Unread => q.policy = None
    /\ q.pc \in Counting => q.policy # None
    /\ q.pc \in Unread \cup Counting \cup {"prepare"} => q.tx = NoTx
    /\ q.kind = "upsert" /\ q.pc = "commit" => q.tx.policy \in MemoryRetentionPolicy
    /\ q.pc = "expired" => q.rounds \in 1..(2 * Len(Scopes))
    /\ RoomLeft(q, table)
    /\ SweptOnce(q, table)

TablesGood ==
    /\ IsFiniteSet(records)
    /\ \A m \in records : m.expires \in Expiries
    /\ EventPerRecord
    /\ policies \in [MemoryScope -> MemoryRetentionPolicy \cup {None}]
    /\ now \in Nat

RecordsInv ==
    /\ TablesGood
    /\ DOMAIN req = Requests
    /\ \A r \in Requests : GoodRecordRequest(req[r], records, now)

-----------------------------------------------------------------------------
(* The session.                                                            *)

Underway(q) == q.pc \notin Ended /\ q.kind \in SessionKinds

\* What a request keeps: the row it is about to write, what is left to refill.
GoodSession(q, s) ==
    /\ q.pc = "new" => s.row = NoRow
    /\ q.pc = "refill" => s.refill # 0
    /\ s.row.op = "none" => s.row = NoRow
    /\ s.row.op = "insert" => q.kind = "end" /\ summary = None
    /\ s.row.op = "delete" => q.kind = "delete"

\* The keys, the list, and the requests that are on them.
SessionBasic ==
    /\ SessionTypeOK /\ log \in Seq(Entry)
    /\ RecentKept
    /\ \A r \in Requests : GoodSession(req[r], ses[r])
    /\ \A r, q \in Requests : ses[r].row # NoRow /\ ses[q].row # NoRow => r = q
    /\ ~raced => \A r, q \in Requests : Underway(req[r]) /\ Underway(req[q]) => r = q

\* A deletion, or an ending, has found the keys that are there.
KeysSeen(q, s) ==
    q.pc = "unlink" => /\ history # <<>> => "history" \in s.keys
                       /\ meta # None => "meta" \in s.keys

\* What a deletion has already deleted.
Deleting(q, s) ==
    q.kind = "delete" =>
        /\ q.pc \in {"unsummarise", "commit"} => history = <<>> /\ meta = None
        /\ q.pc = "commit" /\ s.row.op = "none" => summary = None

\* What an ending drops it has summarised, or it came later.
SnapshotCovers(q, s) ==
    q.kind = "end" /\ q.pc \notin Ended \cup {"snapshot"} =>
        Entries(history) \subseteq Entries(s.snapshot) \cup s.late

\* The messages among the entries.
Messages(list) == Cardinality({i \in DOMAIN list : list[i] # "[ENCRYPTED]"})

Summarised == IF summary = None THEN 0 ELSE summary

\* A count of all the messages but d of those in the list, and no more.
Covers(count, d) == Messages(log) <= count + d /\ count + d <= Len(log) + Summarised

\* message_count as a request finds it that is the session's only one.
CountedIn(q, s) ==
    /\ q.pc \in {"lookup", "restore", "create"} => meta = None
    /\ q.pc = "restore" => summary # None /\ s.count = summary
    /\ q.pc = "create" => s.count = 0
    /\ q.pc = "append" => meta # None /\ s.count = meta /\ Covers(meta, 0)
    /\ q.pc = "counted" => meta # None /\ s.count = meta /\ Covers(meta, 1)

\* message_count when no message is between the list and the count.
CountBalanced ==
    (\A r \in Requests : req[r].pc # "counted") =>
        IF meta = None THEN Messages(log) = 0 ELSE Covers(meta, 0)

\* What a request relies on as long as Redis answers, and, for the last three, as
\* long as nobody else writes.
Held(q, s) ==
    /\ SnapshotCovers(q, s)
    /\ q.alone \/ ~raced => KeysSeen(q, s) /\ Deleting(q, s)
    /\ ~raced => CountedIn(q, s)

SessionHeld ==
    faults = 0 =>
        /\ lost = {}
        /\ ~raced => CountBalanced
        /\ \A r \in Requests : Held(req[r], ses[r])

StoreInv == RecordsInv /\ SessionBasic /\ SessionHeld

-----------------------------------------------------------------------------
(* One request on the durable memory.                                      *)

LEMMA FieldsOfRequest ==
    /\ RequestFields = {"pc", "kind", "text", "found", "label", "scope", "policy", "count", "chunks",
                        "expires", "rounds", "tx", "alone", "began", "over", "served"}
    /\ DOMAIN NoTx = {"inserted", "deleted", "events", "policy"}
BY DEF RequestFields, RecordFields, NoTx

\* A transaction that has done nothing.
LEMMA NoTxGood == ASSUME NEW kind, NEW t PROVE GoodTx(NoTx, kind, t)
<1>1. /\ NoTx.inserted = {} /\ NoTx.deleted = {} /\ NoTx.events = {} /\ NoTx.policy = None
  BY DEF NoTx
<1>2. IsFiniteSet({})
  BY FS_EmptySet
<1> QED
  BY <1>1, <1>2 DEF GoodTx

\* A request that has ended, however it did, keeps no promise any more.
LEMMA EndedGood ==
    ASSUME NEW table, NEW t \in Nat, NEW n, DOMAIN n = RequestFields,
           n.pc \in Ended \ {"new"}, n.alone \in BOOLEAN, n.began \in Nat, n.began <= t,
           n.expires \in Expiries, GoodTx(n.tx, n.kind, t), n.scope \in MemoryScope,
           n.kind \in {"write", "end"} => GoodPolicy(n.policy)
    PROVE  GoodRecordRequest(n, table, t)
<1>1. /\ n.pc \notin Unread \cup Counting \cup Passed \cup {"expired", "quotas", "new", "storage",
                                                            "commit", "prepare"}
  BY DEF Ended, Unread, Counting, Passed
<1>2. RoomLeft(n, table)
  BY <1>1 DEF RoomLeft
<1>3. SweptOnce(n, table)
  BY <1>1 DEF SweptOnce
<1> QED
  BY <1>1, <1>2, <1>3 DEF GoodRecordRequest

\* What Over leaves of a request.
LEMMA OverIs ==
    ASSUME NEW r, NEW pc
    PROVE  /\ DOMAIN Over(r, pc) = RequestFields
           /\ Over(r, pc).pc = pc /\ Over(r, pc).kind = req[r].kind /\ Over(r, pc).began = 0
           /\ Over(r, pc).expires = Never /\ Over(r, pc).tx = NoTx
           /\ Over(r, pc).scope = "session" /\ Over(r, pc).policy = None
BY DEF Over, RecordFields, RequestFields

LEMMA OverAlone ==
    ASSUME NEW r, NEW pc
    PROVE  Over(r, pc).alone = TRUE
BY DEF Over, RecordFields

LEMMA OverGood ==
    ASSUME NEW r, NEW table, NEW t \in Nat, NEW pc \in {"ok", "refused", "failed"}
    PROVE  GoodRecordRequest(Over(r, pc), table, t)
<1> DEFINE n == Over(r, pc)
<1>1. /\ DOMAIN n = RequestFields
      /\ n.pc = pc /\ n.kind = req[r].kind /\ n.began = 0
      /\ n.expires = Never /\ n.tx = NoTx /\ n.scope = "session" /\ n.policy = None
  BY OverIs
<1>4. n.alone \in BOOLEAN
  BY OverAlone, Zenon
<1> HIDE DEF n
<1>2. GoodTx(n.tx, n.kind, t)
  BY <1>1, NoTxGood
<1>3. n.pc \in Ended \ {"new"} /\ n.scope \in MemoryScope /\ n.expires \in Expiries
      /\ GoodPolicy(n.policy)
  BY <1>1 DEF Ended, MemoryScope, Expiries, GoodPolicy
<1>5. n.began \in Nat /\ n.began <= t
  BY <1>1
<1>6. GoodRecordRequest(n, table, t)
  BY <1>1, <1>2, <1>3, <1>4, <1>5, EndedGood
<1> QED
  BY <1>6 DEF n

LEMMA FreshGood ==
    ASSUME NEW table, NEW t \in Nat
    PROVE  GoodRecordRequest(RecordFields, table, t)
<1> DEFINE n == RecordFields
<1>1. /\ n.pc = "new" /\ n.kind = None /\ n.alone = TRUE /\ n.began = 0
      /\ n.expires = Never /\ n.tx = NoTx /\ n.scope = "session" /\ n.policy = None
      /\ DOMAIN n = RequestFields
  BY DEF RecordFields, RequestFields
<1>2. GoodTx(n.tx, n.kind, t)
  BY <1>1, NoTxGood
<1>3. /\ n.pc \in Ended /\ n.scope \in MemoryScope /\ n.expires \in Expiries
      /\ GoodPolicy(n.policy)
      /\ n.pc \notin Unread \cup Counting \cup Passed \cup {"expired", "quotas", "storage",
                                                            "commit", "prepare"}
  BY <1>1 DEF Ended, MemoryScope, Expiries, GoodPolicy, Unread, Counting, Passed
<1>4. RoomLeft(n, table) /\ SweptOnce(n, table)
  BY <1>3 DEF RoomLeft, SweptOnce
<1> HIDE DEF n
<1>5. /\ n.pc \in Unread => n.policy = None
      /\ n.pc \notin Counting /\ n.pc \notin Unread \cup Counting \cup {"prepare"}
      /\ n.pc # "expired" /\ n.pc # "commit"
  BY <1>3
<1>6. n.pc = "new" => n = RecordFields
  BY DEF n
<1>7. n.began \in Nat /\ n.began <= t
  BY <1>1
<1>9. n.alone \in BOOLEAN
  BY <1>1, Zenon
<1>8. GoodRecordRequest(n, table, t)
  BY <1>1, <1>2, <1>3, <1>4, <1>5, <1>6, <1>7, <1>9 DEF GoodRecordRequest
<1> QED
  BY <1>8 DEF n

\* What another request commits leaves a request good: it is not alone any more.
LEMMA OvertakenGood ==
    ASSUME NEW q, NEW table, NEW other, NEW t, GoodRecordRequest(q, table, t),
           NEW n, n = IF q.pc \in Ended THEN q ELSE [q EXCEPT !.alone = FALSE]
    PROVE  GoodRecordRequest(n, other, t)
<1>0. DOMAIN q = RequestFields
  BY DEF GoodRecordRequest
<1>1. CASE q.pc \in Ended
  <2>1. q.pc \notin Passed \cup {"storage", "expired", "quotas", "commit"}
    BY <1>1 DEF Ended, Passed
  <2>2. RoomLeft(q, other) /\ SweptOnce(q, other)
    BY <2>1 DEF RoomLeft, SweptOnce
  <2> QED
    BY <1>1, <2>2 DEF GoodRecordRequest
<1>2. CASE q.pc \notin Ended
  <2>1. /\ DOMAIN n = RequestFields /\ n.alone = FALSE
        /\ n.pc = q.pc /\ n.kind = q.kind /\ n.began = q.began /\ n.expires = q.expires
        /\ n.tx = q.tx /\ n.scope = q.scope /\ n.policy = q.policy /\ n.rounds = q.rounds
    BY <1>0, <1>2, FieldsOfRequest
  <2>2. RoomLeft(n, other) /\ SweptOnce(n, other)
    BY <2>1 DEF RoomLeft, SweptOnce
  <2>3. q.pc # "new"
    BY <1>2 DEF Ended
  <2> QED
    BY <2>1, <2>2, <2>3 DEF GoodRecordRequest
<1> QED
  BY <1>1, <1>2

\* The clock only makes more expire.
LEMMA LaterGood ==
    ASSUME NEW q, NEW table, NEW t \in Nat, NEW u \in Nat, t <= u,
           GoodRecordRequest(q, table, t)
    PROVE  GoodRecordRequest(q, table, u)
<1>1. GoodTx(q.tx, q.kind, u)
  <2>1. GoodTx(q.tx, q.kind, t)
    BY DEF GoodRecordRequest
  <2>2. \A m \in q.tx.deleted : m.expires \in Nat /\ Expired(m, u)
    BY <2>1, MemoryAssumption DEF GoodTx, Expired
  <2> QED
    BY <2>1, <2>2 DEF GoodTx
<1>2. q.began \in Nat /\ q.began <= u
  BY DEF GoodRecordRequest
<1> QED
  BY <1>1, <1>2 DEF GoodRecordRequest

-----------------------------------------------------------------------------
(* All requests.                                                           *)

LEMMA OneRequestChanges ==
    ASSUME RecordsInv, NEW r \in Requests, NEW n, GoodRecordRequest(n, records, now),
           req' = [req EXCEPT ![r] = n], UNCHANGED <<records, policies, outbox, now>>
    PROVE  RecordsInv'
<1>1. DOMAIN req' = Requests
  BY DEF RecordsInv
<1>2. \A s \in Requests : req'[s] = IF s = r THEN n ELSE req[s]
  BY DEF RecordsInv
<1>3. \A s \in Requests : GoodRecordRequest(req'[s], records', now')
  BY <1>2 DEF RecordsInv
<1>4. TablesGood'
  BY DEF RecordsInv, TablesGood, EventPerRecord
<1> QED
  BY <1>1, <1>3, <1>4 DEF RecordsInv

LEMMA OvertakingOthers ==
    ASSUME RecordsInv, NEW r \in Requests, NEW n, GoodRecordRequest(n, records', now),
           Overtaking(r, n), TablesGood', UNCHANGED now
    PROVE  RecordsInv'
<1>1. DOMAIN req' = Requests
  BY DEF Overtaking
<1>2. \A s \in Requests : GoodRecordRequest(req'[s], records', now')
  <2> TAKE s \in Requests
  <2>1. CASE s = r
    BY <2>1 DEF Overtaking
  <2>2. CASE s # r
    <3>1. req'[s] = IF req[s].pc \in Ended THEN req[s] ELSE [req[s] EXCEPT !.alone = FALSE]
      BY <2>2 DEF Overtaking
    <3>2. GoodRecordRequest(req[s], records, now)
      BY DEF RecordsInv
    <3> QED
      BY <3>1, <3>2, OvertakenGood
  <2> QED
    BY <2>1, <2>2
<1> QED
  BY <1>1, <1>2 DEF RecordsInv

\* The tables stay good when nobody writes them.
LEMMA TablesUntouched ==
    ASSUME TablesGood, UNCHANGED <<records, policies, outbox, now>>
    PROVE  TablesGood'
BY DEF TablesGood, EventPerRecord

-----------------------------------------------------------------------------
(* The steps of a write.                                                   *)

\* A request that writes is good when its quota check is.
LEMMA WriteGood ==
    ASSUME NEW table, NEW t \in Nat, NEW n, DOMAIN n = RequestFields,
           n.kind \in {"write", "end"}, n.pc \in Flow(n.kind), n.alone \in BOOLEAN,
           n.began \in Nat, n.began <= t, n.expires \in Expiries, GoodTx(n.tx, n.kind, t),
           n.scope \in MemoryScope, GoodPolicy(n.policy),
           n.pc \in Unread => n.policy = None, n.pc \in Counting => n.policy # None,
           n.pc \in Unread \cup Counting \cup {"prepare"} => n.tx = NoTx,
           RoomLeft(n, table)
    PROVE  GoodRecordRequest(n, table, t)
<1>1. n.pc # "new" /\ n.pc # "expired" /\ n.kind # "upsert" /\ n.kind # "cleanup"
  BY DEF Flow
<1>2. SweptOnce(n, table)
  BY <1>1 DEF SweptOnce
<1> QED
  BY <1>1, <1>2 DEF GoodRecordRequest

LEMMA PhasesAre ==
    /\ Unread = {"snapshot", "insert", "policy"} /\ Counting = {"count", "storage"}
    /\ Passed = {"prepare", "store", "final", "unlink", "commit"}
    /\ Ended = {"new", "ok", "refused", "failed"}
BY DEF Unread, Counting, Passed, Ended

LEMMA WriteFlow ==
    /\ Flow("write") = {"policy", "count", "storage", "prepare", "store", "commit"}
    /\ Flow("end") = {"snapshot", "insert", "policy", "count", "storage", "prepare",
                      "store", "final", "unlink", "commit"}
BY DEF Flow

\* Only writes and endings are in the phases of a write.
LEMMA WritersOnly ==
    ASSUME NEW q, NEW table, NEW t, GoodRecordRequest(q, table, t),
           q.pc \in {"policy", "count", "storage", "prepare", "store"}
    PROVE  q.kind \in {"write", "end"} /\ GoodPolicy(q.policy)
<1>1. q.pc \in Flow(q.kind)
  BY PhasesAre DEF GoodRecordRequest
<1>2. q.kind \in {"write", "end"}
  BY <1>1 DEF Flow
<1> QED
  BY <1>2 DEF GoodRecordRequest

LEMMA WriteMemoryStep ==
    ASSUME RecordsInv, NEW r \in Requests, WriteMemory(r)
    PROVE  RecordsInv'
<1>1. PICK text, scope : /\ scope \in MemoryScope
         /\ req' = [req EXCEPT ![r] =
               [Begun(r, "write", IF TooLarge(Normalized(text)) THEN "refused" ELSE "policy")
                  EXCEPT !.text = Normalized(text), !.scope = scope]]
  BY DEF WriteMemory
<1> DEFINE n == [Begun(r, "write", IF TooLarge(Normalized(text)) THEN "refused" ELSE "policy")
                   EXCEPT !.text = Normalized(text), !.scope = scope]
<1>2. req[r] = RecordFields /\ now \in Nat
  BY DEF RecordsInv, GoodRecordRequest, TablesGood, WriteMemory
<1>3. /\ DOMAIN n = RequestFields
      /\ n.pc \in {"refused", "policy"} /\ n.kind = "write" /\ n.began = now
      /\ n.scope = scope /\ n.tx = NoTx /\ n.policy = None /\ n.expires = Never
      /\ n.alone = RecordFields.alone
  BY <1>2 DEF Begun, RequestFields, RecordFields
<1>4. n.alone \in BOOLEAN
  BY <1>3 DEF RecordFields
<1> HIDE DEF n
<1>5. GoodTx(n.tx, n.kind, now)
  BY <1>3, NoTxGood
<1>6. n.expires \in Expiries /\ GoodPolicy(n.policy) /\ n.began <= now /\ n.began \in Nat
  BY <1>2, <1>3 DEF Expiries, GoodPolicy
<1>7. GoodRecordRequest(n, records, now)
  <2>1. CASE n.pc = "refused"
    BY <1>1, <1>2, <1>3, <1>4, <1>5, <1>6, <2>1, PhasesAre, EndedGood
  <2>2. CASE n.pc = "policy"
    <3>1. RoomLeft(n, records)
      BY <1>3 DEF RoomLeft
    <3> QED
      BY <1>1, <1>2, <1>3, <1>4, <1>5, <1>6, <2>2, <3>1, PhasesAre, WriteFlow, WriteGood
  <2> QED
    BY <1>3, <2>1, <2>2
<1> QED
  BY <1>1, <1>7, OneRequestChanges DEF WriteMemory, Unchanged, n

LEMMA GetPolicyStep ==
    ASSUME RecordsInv, NEW r \in Requests, GetPolicy(r)
    PROVE  RecordsInv'
<1> DEFINE q == req[r]
           p == policies[q.scope]
           n == [q EXCEPT !.policy = p, !.pc = IF p = None THEN "prepare" ELSE "count"]
<1>1. /\ GoodRecordRequest(q, records, now) /\ q.pc = "policy" /\ now \in Nat
      /\ r \in DOMAIN req
  BY DEF RecordsInv, TablesGood, GetPolicy
<1>2. q.kind \in {"write", "end"}
  BY <1>1, WritersOnly
<1>3. /\ DOMAIN q = RequestFields /\ q.alone \in BOOLEAN /\ q.began \in Nat /\ q.began <= now
      /\ q.expires \in Expiries /\ GoodTx(q.tx, q.kind, now) /\ q.scope \in MemoryScope
      /\ q.tx = NoTx
  BY <1>1, PhasesAre DEF GoodRecordRequest
<1>4. /\ DOMAIN n = RequestFields /\ n.alone = q.alone /\ n.began = q.began
      /\ n.expires = q.expires /\ n.tx = q.tx /\ n.scope = q.scope /\ n.kind = q.kind
      /\ n.policy = p /\ n.pc = IF p = None THEN "prepare" ELSE "count"
  BY <1>3, FieldsOfRequest
<1>5. GoodPolicy(p)
  BY <1>3 DEF RecordsInv, TablesGood, GoodPolicy
<1>6. req' = [req EXCEPT ![r] = n]
  BY <1>1 DEF GetPolicy
<1> HIDE DEF q, n
<1>7. RoomLeft(n, records)
  BY <1>4 DEF RoomLeft, Passed
<1>8. GoodRecordRequest(n, records, now)
  BY <1>1, <1>2, <1>3, <1>4, <1>5, <1>7, PhasesAre, WriteFlow, WriteGood
<1> QED
  BY <1>6, <1>8, OneRequestChanges DEF GetPolicy, Unchanged

LEMMA CountRecordsStep ==
    ASSUME RecordsInv, NEW r \in Requests, CountRecords(r)
    PROVE  RecordsInv'
<1> DEFINE q == req[r]
           k == CountByTenant(q.tx, q.scope)
           n == [q EXCEPT !.count = k, !.pc = "storage"]
<1>1. /\ GoodRecordRequest(q, records, now) /\ q.pc = "count" /\ now \in Nat
      /\ r \in DOMAIN req
  BY DEF RecordsInv, TablesGood, CountRecords
<1>2. q.kind \in {"write", "end"} /\ GoodPolicy(q.policy)
  BY <1>1, WritersOnly
<1>3. /\ DOMAIN q = RequestFields /\ q.alone \in BOOLEAN /\ q.began \in Nat /\ q.began <= now
      /\ q.expires \in Expiries /\ GoodTx(q.tx, q.kind, now) /\ q.scope \in MemoryScope
      /\ q.tx = NoTx /\ q.policy # None
  BY <1>1, PhasesAre DEF GoodRecordRequest
<1>4. /\ DOMAIN n = RequestFields /\ n.alone = q.alone /\ n.began = q.began
      /\ n.expires = q.expires /\ n.tx = q.tx /\ n.scope = q.scope /\ n.kind = q.kind
      /\ n.policy = q.policy /\ n.pc = "storage" /\ n.count = k
  BY <1>3, FieldsOfRequest
<1>5. k = Cardinality(InScope(records, q.scope))
  BY <1>3 DEF CountByTenant, Visible, NoTx, InScope
<1>6. req' = [req EXCEPT ![r] = n]
  BY <1>1 DEF CountRecords
<1> HIDE DEF q, n, k
<1>7. RoomLeft(n, records)
  BY <1>4, <1>5, PhasesAre DEF RoomLeft
<1>8. GoodRecordRequest(n, records, now)
  BY <1>1, <1>2, <1>3, <1>4, <1>7, PhasesAre, WriteFlow, WriteGood
<1> QED
  BY <1>6, <1>8, OneRequestChanges DEF CountRecords, Unchanged

\* A scope's records are finitely many.
LEMMA ScopeIsFinite ==
    ASSUME NEW table, IsFiniteSet(table), NEW scope
    PROVE  IsFiniteSet(InScope(table, scope)) /\ Cardinality(InScope(table, scope)) \in Nat
<1>1. InScope(table, scope) \subseteq table
  BY DEF InScope
<1>2. IsFiniteSet(InScope(table, scope))
  BY <1>1, FS_Subset
<1> QED
  BY <1>2, FS_CardinalityType

\* A check that passes has found room for one record at least.
LEMMA CheckQuotaStep ==
    ASSUME RecordsInv, NEW r \in Requests, CheckQuota(r)
    PROVE  RecordsInv'
<1> DEFINE q == req[r]
           n == [q EXCEPT !.pc = "prepare"]
<1>1. /\ GoodRecordRequest(q, records, now) /\ q.pc = "storage" /\ now \in Nat
      /\ r \in DOMAIN req /\ IsFiniteSet(records)
  BY DEF RecordsInv, TablesGood, CheckQuota
<1>2. q.kind \in {"write", "end"} /\ GoodPolicy(q.policy)
  BY <1>1, WritersOnly
<1>3. /\ DOMAIN q = RequestFields /\ q.alone \in BOOLEAN /\ q.began \in Nat /\ q.began <= now
      /\ q.expires \in Expiries /\ GoodTx(q.tx, q.kind, now) /\ q.scope \in MemoryScope
      /\ q.tx = NoTx /\ q.policy # None /\ RoomLeft(q, records)
  BY <1>1, PhasesAre DEF GoodRecordRequest
<1>4. /\ DOMAIN n = RequestFields /\ n.alone = q.alone /\ n.began = q.began
      /\ n.expires = q.expires /\ n.tx = q.tx /\ n.scope = q.scope /\ n.kind = q.kind
      /\ n.policy = q.policy /\ n.pc = "prepare"
  BY <1>3, FieldsOfRequest
<1>5. CASE QuotaExceeded(q.policy, q.count, StorageSize(q.tx))
  <2>1. req' = [req EXCEPT ![r] = Over(r, "failed")]
    BY <1>5 DEF CheckQuota
  <2>2. GoodRecordRequest(Over(r, "failed"), records, now)
    BY <1>1, OverGood
  <2> QED
    BY <2>1, <2>2, OneRequestChanges DEF CheckQuota, Unchanged
<1>6. CASE ~QuotaExceeded(q.policy, q.count, StorageSize(q.tx))
  <2>1. req' = [req EXCEPT ![r] = n]
    BY <1>1, <1>6 DEF CheckQuota
  <2>2. q.policy.records # None => ~(q.count >= q.policy.records)
    BY <1>6 DEF QuotaExceeded, AtLimit
  <2>3. q.policy.records # None => q.policy.records \in Nat
    BY <1>2, <1>3 DEF GoodPolicy, MemoryRetentionPolicy
  <2>4. Cardinality(InScope(records, q.scope)) \in Nat
    BY <1>1, ScopeIsFinite
  <2> HIDE DEF q, n
  <2>5. RoomLeft(n, records)
    <3> SUFFICES ASSUME n.alone, n.kind \in {"write", "end"}, n.policy # None,
                        n.policy.records # None
                 PROVE  Cardinality(InScope(records, n.scope)) + 1 <= n.policy.records
      BY <1>4 DEF RoomLeft
    <3>1. q.count = Cardinality(InScope(records, q.scope))
      BY <1>1, <1>3, <1>4 DEF RoomLeft
    <3>2. q.policy.records \in Nat /\ ~(q.count >= q.policy.records)
      BY <1>4, <2>2, <2>3
    <3> QED
      BY <1>4, <2>4, <3>1, <3>2
  <2>6. GoodRecordRequest(n, records, now)
    BY <1>1, <1>2, <1>3, <1>4, <2>5, PhasesAre, WriteFlow, WriteGood
  <2> QED
    BY <2>1, <2>6, OneRequestChanges DEF CheckQuota, Unchanged
<1> QED
  BY <1>5, <1>6

\* What a write records as its expiry.
LEMMA ExpiryTyped ==
    ASSUME NEW policy, GoodPolicy(policy), NEW scope \in MemoryScope, NEW t \in Nat
    PROVE  Expiry(policy, scope, t) \in Expiries
<1>1. CASE policy = None
  BY <1>1 DEF Expiry, Expiries, MemoryScope
<1>2. CASE policy # None
  <2>1. policy.days \in Nat
    BY <1>2 DEF GoodPolicy, MemoryRetentionPolicy
  <2> QED
    BY <1>2, <2>1 DEF Expiry, Expiries
<1> QED
  BY <1>1, <1>2

\* Where a write goes with its last chunk.
LEMMA AfterWriteIs ==
    ASSUME NEW r, req[r].kind \in {"write", "end"}
    PROVE  AfterWrite(r) \in Passed \ {"prepare"} /\ AfterWrite(r) \in Flow(req[r].kind)
BY PhasesAre, WriteFlow DEF AfterWrite

LEMMA PrepareStep ==
    ASSUME RecordsInv, NEW r \in Requests, Prepare(r)
    PROVE  RecordsInv'
<1> DEFINE q == req[r]
           text == Processed(q.text)
           chunks == Chunks(text)
           label == Classified(q.text).label
           e == Expiry(policies[q.scope], q.scope, now)
           pc == IF chunks = <<>> THEN AfterWrite(r) ELSE "store"
           found == FoundIn(q.text)
           n == [q EXCEPT !.text = text, !.chunks = chunks, !.found = found, !.label = label,
                          !.expires = e, !.pc = pc]
<1>1. /\ GoodRecordRequest(q, records, now) /\ q.pc = "prepare" /\ now \in Nat
      /\ r \in DOMAIN req
  BY DEF RecordsInv, TablesGood, Prepare
<1>2. q.kind \in {"write", "end"} /\ GoodPolicy(q.policy)
  BY <1>1, WritersOnly
<1>3. /\ DOMAIN q = RequestFields /\ q.alone \in BOOLEAN /\ q.began \in Nat /\ q.began <= now
      /\ GoodTx(q.tx, q.kind, now) /\ q.scope \in MemoryScope /\ q.tx = NoTx
      /\ RoomLeft(q, records)
  BY <1>1, PhasesAre DEF GoodRecordRequest
<1>4. e \in Expiries
  <2>1. GoodPolicy(policies[q.scope])
    BY <1>3 DEF RecordsInv, TablesGood, GoodPolicy
  <2> QED
    BY <1>1, <1>3, <2>1, ExpiryTyped
<1>5. pc \in Passed \ {"prepare"} /\ pc \in Flow(q.kind)
  BY <1>2, AfterWriteIs, PhasesAre, WriteFlow
<1>6. req' = [req EXCEPT ![r] = n]
  BY <1>1 DEF Prepare
<1> HIDE DEF text, chunks, found, label, e, pc
<1>7. /\ DOMAIN n = RequestFields /\ n.alone = q.alone /\ n.began = q.began
      /\ n.expires = e /\ n.tx = q.tx /\ n.scope = q.scope /\ n.kind = q.kind
      /\ n.policy = q.policy /\ n.pc = pc
  BY <1>3, FieldsOfRequest
<1> HIDE DEF q, n
<1>8. RoomLeft(n, records)
  BY <1>1, <1>3, <1>5, <1>7, PhasesAre DEF RoomLeft
<1>9. GoodRecordRequest(n, records, now)
  BY <1>1, <1>2, <1>3, <1>4, <1>5, <1>7, <1>8, PhasesAre, WriteGood
<1> QED
  BY <1>6, <1>9, OneRequestChanges DEF Prepare, Unchanged

\* A chunk and its event enter the transaction together.
LEMMA StoreChunkStep ==
    ASSUME RecordsInv, NEW r \in Requests, StoreChunk(r)
    PROVE  RecordsInv'
<1> DEFINE q == req[r]
           m == NewRecord(r, Head(q.chunks))
           tx == [q.tx EXCEPT !.inserted = @ \cup {m}, !.events = WithEvent(q.tx, m)]
           pc == IF Tail(q.chunks) = <<>> THEN AfterWrite(r) ELSE q.pc
           n == [q EXCEPT !.chunks = Tail(@), !.tx = tx, !.pc = pc]
<1>1. /\ GoodRecordRequest(q, records, now) /\ q.pc = "store" /\ now \in Nat
      /\ r \in DOMAIN req
  BY DEF RecordsInv, TablesGood, StoreChunk
<1>2. q.kind \in {"write", "end"} /\ GoodPolicy(q.policy)
  BY <1>1, WritersOnly
<1>3. /\ DOMAIN q = RequestFields /\ q.alone \in BOOLEAN /\ q.began \in Nat /\ q.began <= now
      /\ GoodTx(q.tx, q.kind, now) /\ q.scope \in MemoryScope /\ q.expires \in Expiries
      /\ RoomLeft(q, records)
  BY <1>1, PhasesAre DEF GoodRecordRequest
<1>4. m.expires = q.expires
  BY DEF NewRecord
<1>5. pc \in Passed \ {"prepare"} /\ pc \in Flow(q.kind)
  BY <1>1, <1>2, AfterWriteIs, PhasesAre, WriteFlow
<1>6. req' = [req EXCEPT ![r] = n]
  BY <1>1 DEF StoreChunk
<1> HIDE DEF m, pc
<1>7. /\ DOMAIN tx = DOMAIN NoTx /\ tx.inserted = q.tx.inserted \cup {m}
      /\ tx.events = q.tx.events \cup {m} /\ tx.deleted = q.tx.deleted
  BY <1>3, FieldsOfRequest DEF GoodTx, WithEvent
<1> HIDE DEF tx
<1>8. /\ DOMAIN n = RequestFields /\ n.alone = q.alone /\ n.began = q.began
      /\ n.expires = q.expires /\ n.tx = tx /\ n.scope = q.scope /\ n.kind = q.kind
      /\ n.policy = q.policy /\ n.pc = pc
  BY <1>3, FieldsOfRequest
<1> HIDE DEF q, n
<1>9. GoodTx(tx, q.kind, now)
  <2>1. IsFiniteSet(q.tx.inserted) /\ q.tx.events = q.tx.inserted
    BY <1>3 DEF GoodTx
  <2>2. IsFiniteSet(tx.inserted)
    BY <1>7, <2>1, FS_AddElement
  <2>3. tx.events = tx.inserted
    BY <1>7, <2>1
  <2>4. \A x \in tx.inserted : x.expires \in Expiries
    BY <1>3, <1>4, <1>7 DEF GoodTx
  <2> QED
    BY <1>2, <1>3, <1>7, <2>2, <2>3, <2>4 DEF GoodTx
<1>10. RoomLeft(n, records)
  BY <1>1, <1>3, <1>5, <1>8, PhasesAre DEF RoomLeft
<1>11. GoodRecordRequest(n, records, now)
  BY <1>1, <1>2, <1>3, <1>5, <1>8, <1>9, <1>10, PhasesAre, WriteGood
<1> QED
  BY <1>6, <1>11, OneRequestChanges DEF StoreChunk, Unchanged

\* A request that gives up.
LEMMA GivesUp ==
    ASSUME RecordsInv, NEW r \in Requests, NEW pc \in {"ok", "refused", "failed"},
           req' = [req EXCEPT ![r] = Over(r, pc)], Unchanged
    PROVE  RecordsInv'
<1>1. GoodRecordRequest(Over(r, pc), records, now)
  BY OverGood DEF RecordsInv, TablesGood
<1> QED
  BY <1>1, OneRequestChanges DEF Unchanged

LEMMA StoreFailsStep ==
    ASSUME RecordsInv, NEW r \in Requests, StoreFails(r)
    PROVE  RecordsInv'
BY GivesUp DEF StoreFails

LEMMA WritePipelineStep ==
    ASSUME RecordsInv, NEW r \in Requests, WritePipeline(r)
    PROVE  RecordsInv'
BY GetPolicyStep, CountRecordsStep, CheckQuotaStep, PrepareStep, StoreChunkStep,
   StoreFailsStep DEF WritePipeline

-----------------------------------------------------------------------------
(* The answers, the cleanup and the policies.                              *)

LEMMA AnswerStep ==
    ASSUME RecordsInv, NEW r \in Requests, NEW served, Answer(r, served)
    PROVE  RecordsInv'
<1> DEFINE o == Over(r, "ok")
           n == [o EXCEPT !.served = served]
<1>1. /\ DOMAIN o = RequestFields
      /\ o.pc = "ok" /\ o.kind = req[r].kind /\ o.began = 0
      /\ o.expires = Never /\ o.tx = NoTx /\ o.scope = "session" /\ o.policy = None
  BY OverIs
<1>2. req' = [req EXCEPT ![r] = n]
  BY DEF Answer
<1> HIDE DEF o
<1>3. /\ DOMAIN n = RequestFields
      /\ n.pc = "ok" /\ n.kind = req[r].kind /\ n.began = 0
      /\ n.expires = Never /\ n.tx = NoTx /\ n.scope = "session" /\ n.policy = None
  BY <1>1, FieldsOfRequest
<1>0. o.alone = TRUE
  BY OverAlone, Zenon DEF o
<1>7. n.alone \in BOOLEAN
  BY <1>0, <1>1, FieldsOfRequest, Zenon
<1> HIDE DEF n
<1>4. now \in Nat
  BY DEF RecordsInv, TablesGood
<1>5. GoodTx(n.tx, n.kind, now)
  BY <1>3, NoTxGood
<1>6. n.pc \in Ended \ {"new"} /\ n.scope \in MemoryScope /\ n.expires \in Expiries
      /\ GoodPolicy(n.policy)
  BY <1>3 DEF Ended, MemoryScope, Expiries, GoodPolicy
<1>8. n.began \in Nat /\ n.began <= now
  BY <1>3, <1>4
<1>9. GoodRecordRequest(n, records, now)
  BY <1>3, <1>4, <1>5, <1>6, <1>7, <1>8, EndedGood
<1> QED
  BY <1>2, <1>9, OneRequestChanges DEF Answer, Unchanged

\* A request answered at once, because its path names no record.
LEMMA RefusedStep ==
    ASSUME RecordsInv, NEW r \in Requests, req[r].pc = "new", Goto(r, "refused"), Unchanged
    PROVE  RecordsInv'
<1>1. req[r] = RecordFields /\ now \in Nat /\ r \in DOMAIN req
  BY DEF RecordsInv, GoodRecordRequest, TablesGood
<1> DEFINE n == [RecordFields EXCEPT !.pc = "refused"]
<1>2. /\ DOMAIN n = RequestFields
      /\ n.pc = "refused" /\ n.kind = None /\ n.alone = TRUE /\ n.began = 0
      /\ n.expires = Never /\ n.tx = NoTx /\ n.scope = "session" /\ n.policy = None
  BY DEF RecordFields, RequestFields
<1>3. req' = [req EXCEPT ![r] = n]
  BY <1>1 DEF Goto
<1> HIDE DEF n
<1>4. GoodTx(n.tx, n.kind, now)
  BY <1>2, NoTxGood
<1>5. n.pc \in Ended \ {"new"} /\ n.scope \in MemoryScope /\ n.expires \in Expiries
      /\ GoodPolicy(n.policy)
  BY <1>2 DEF Ended, MemoryScope, Expiries, GoodPolicy
<1>6. n.alone \in BOOLEAN
  BY <1>2, Zenon
<1>7. n.began \in Nat /\ n.began <= now
  BY <1>1, <1>2
<1>8. GoodRecordRequest(n, records, now)
  BY <1>1, <1>2, <1>4, <1>5, <1>6, <1>7, EndedGood
<1> QED
  BY <1>3, <1>8, OneRequestChanges DEF Unchanged

LEMMA AnswersStep ==
    ASSUME RecordsInv, NEW r \in Requests,
           SearchMemory(r) \/ ListRecords(r) \/ GetRecord(r) \/ GetMemoryStats(r) \/ DeleteRecord(r)
    PROVE  RecordsInv'
BY AnswerStep, RefusedStep DEF SearchMemory, ListRecords, GetRecord, GetMemoryStats, DeleteRecord

\* A cleanup under way is good when what it deletes is, and is swept.
LEMMA CleanupGood ==
    ASSUME NEW table, NEW t \in Nat, NEW n, DOMAIN n = RequestFields,
           n.kind = "cleanup", n.pc \in {"expired", "quotas", "commit"}, n.alone \in BOOLEAN,
           n.began \in Nat, n.began <= t, n.expires \in Expiries, GoodTx(n.tx, n.kind, t),
           n.scope \in MemoryScope, n.pc = "expired" => n.rounds \in 1..(2 * Len(Scopes)),
           SweptOnce(n, table)
    PROVE  GoodRecordRequest(n, table, t)
<1>1. n.pc \in Flow(n.kind)
  BY DEF Flow
<1>2. n.pc \notin Unread /\ n.pc \notin Counting /\ n.pc # "prepare"
  BY PhasesAre
<1>3. RoomLeft(n, table)
  BY DEF RoomLeft
<1> QED
  BY <1>1, <1>2, <1>3 DEF GoodRecordRequest

LEMMA SixRounds == Len(Scopes) = 3
BY DEF Scopes

LEMMA RunFullCleanupStep ==
    ASSUME RecordsInv, NEW r \in Requests, RunFullCleanup(r)
    PROVE  RecordsInv'
<1> DEFINE n == [Begun(r, "cleanup", "expired") EXCEPT !.rounds = 2 * Len(Scopes)]
<1>1. req[r] = RecordFields /\ now \in Nat /\ r \in DOMAIN req
  BY DEF RecordsInv, GoodRecordRequest, TablesGood, RunFullCleanup
<1>2. /\ DOMAIN n = RequestFields
      /\ n.pc = "expired" /\ n.kind = "cleanup" /\ n.began = now /\ n.rounds = 2 * Len(Scopes)
      /\ n.scope = "session" /\ n.tx = NoTx /\ n.expires = Never /\ n.alone = TRUE
  BY <1>1 DEF Begun, RequestFields, RecordFields
<1>3. req' = [req EXCEPT ![r] = n]
  BY DEF RunFullCleanup
<1> HIDE DEF n
<1>4. GoodTx(n.tx, n.kind, now)
  BY <1>2, NoTxGood
<1>5. n.alone \in BOOLEAN
  BY <1>2, Zenon
<1>6. n.scope \in MemoryScope /\ n.expires \in Expiries
  BY <1>2 DEF MemoryScope, Expiries
<1>7. n.rounds = 6 /\ n.rounds \in 1..(2 * Len(Scopes))
  BY <1>2, SixRounds
<1>8. SweptOnce(n, records)
  BY <1>2, <1>7, SixRounds DEF SweptOnce
<1>9. n.began \in Nat /\ n.began <= now
  BY <1>1, <1>2
<1>10. GoodRecordRequest(n, records, now)
  BY <1>1, <1>2, <1>4, <1>5, <1>6, <1>7, <1>8, <1>9, CleanupGood
<1> QED
  BY <1>3, <1>10, OneRequestChanges DEF RunFullCleanup, Unchanged

\* A request that sweeps is a cleanup, with nothing to insert.
LEMMA SweepersOnly ==
    ASSUME NEW q, NEW table, NEW t, GoodRecordRequest(q, table, t), q.pc \in {"expired", "quotas"}
    PROVE  q.kind = "cleanup" /\ q.tx.inserted = {}
<1>1. q.pc \in Flow(q.kind)
  BY PhasesAre DEF GoodRecordRequest
<1>2. q.kind = "cleanup"
  BY <1>1 DEF Flow
<1> QED
  BY <1>2 DEF GoodRecordRequest, GoodTx

\* A round of a cleanup: the first deletes all that has expired.
LEMMA RoundStep ==
    ASSUME RecordsInv, NEW r \in Requests, req[r].pc = "expired",
           NEW deleted, deleted \subseteq Deleted(r),
           req[r].rounds > Len(Scopes) => deleted = Deleted(r),
           NextRound(r, deleted), Unchanged
    PROVE  RecordsInv'
<1> DEFINE q == req[r]
           tx == [q.tx EXCEPT !.deleted = @ \cup deleted]
           pc == IF q.rounds = 1 THEN "quotas" ELSE q.pc
           n == [q EXCEPT !.rounds = q.rounds - 1, !.tx = tx, !.pc = pc]
<1>1. /\ GoodRecordRequest(q, records, now) /\ q.pc = "expired" /\ now \in Nat
      /\ r \in DOMAIN req
  BY DEF RecordsInv, TablesGood
<1>2. q.kind = "cleanup" /\ q.tx.inserted = {}
  BY <1>1, SweepersOnly
<1>3. /\ DOMAIN q = RequestFields /\ q.alone \in BOOLEAN /\ q.began \in Nat /\ q.began <= now
      /\ GoodTx(q.tx, q.kind, now) /\ q.scope \in MemoryScope /\ q.expires \in Expiries
      /\ q.rounds \in 1..(2 * Len(Scopes)) /\ SweptOnce(q, records)
  BY <1>1, PhasesAre DEF GoodRecordRequest
<1>4. Deleted(r) = {m \in records \ q.tx.deleted : Expired(m, now)}
  BY <1>2 DEF Deleted, Visible
<1>5. \A m \in records : m.expires \in Expiries
  BY DEF RecordsInv, TablesGood
<1>6. req' = [req EXCEPT ![r] = n]
  BY <1>1, <1>3, FieldsOfRequest DEF NextRound, GoodTx
<1>7. DOMAIN tx = DOMAIN NoTx /\ tx.inserted = q.tx.inserted
      /\ tx.events = q.tx.events /\ tx.deleted = q.tx.deleted \cup deleted
  BY <1>3, FieldsOfRequest DEF GoodTx
<1>8. pc \in {"expired", "quotas"} /\ (pc = "expired" <=> q.rounds # 1)
  BY <1>1
<1> HIDE DEF tx, pc
<1>9. /\ DOMAIN n = RequestFields /\ n.alone = q.alone /\ n.began = q.began
      /\ n.expires = q.expires /\ n.tx = tx /\ n.scope = q.scope /\ n.kind = q.kind
      /\ n.rounds = q.rounds - 1 /\ n.pc = pc
  BY <1>3, FieldsOfRequest
<1> HIDE DEF q, n
<1>10. GoodTx(tx, q.kind, now)
  <2>1. \A m \in deleted : m.expires \in Nat /\ Expired(m, now)
    BY <1>4, <1>5 DEF Expired, Expiries
  <2> QED
    BY <1>2, <1>3, <1>7, <2>1 DEF GoodTx
<1>11. SweptOnce(n, records)
  <2> SUFFICES ASSUME n.alone, NEW m \in records, Expired(m, n.began)
               PROVE  m \in n.tx.deleted
    BY DEF SweptOnce
  <2>1. CASE q.rounds > Len(Scopes)
    <3>1. Expired(m, now)
      <4>1. m.expires # Never /\ m.expires < q.began
        BY <1>9 DEF Expired
      <4>2. m.expires \in Nat
        BY <1>5, <4>1 DEF Expiries
      <4> QED
        BY <1>1, <1>3, <4>1, <4>2 DEF Expired
    <3>2. m \in q.tx.deleted \/ m \in deleted
      BY <1>4, <2>1, <3>1 DEF q
    <3> QED
      BY <1>7, <1>9, <3>2
  <2>2. CASE ~(q.rounds > Len(Scopes))
    <3>1. q.rounds < 2 * Len(Scopes)
      BY <1>3, <2>2, SixRounds
    <3>2. m \in q.tx.deleted
      BY <1>1, <1>2, <1>3, <1>9, <3>1 DEF SweptOnce
    <3> QED
      BY <1>7, <1>9, <3>2
  <2> QED
    BY <2>1, <2>2
<1>12. n.pc = "expired" => n.rounds \in 1..(2 * Len(Scopes))
  BY <1>3, <1>8, <1>9, SixRounds
<1>13. GoodRecordRequest(n, records, now)
  BY <1>1, <1>2, <1>3, <1>8, <1>9, <1>10, <1>11, <1>12, CleanupGood
<1> QED
  BY <1>6, <1>13, OneRequestChanges DEF Unchanged

LEMMA CleanupExpiredStep ==
    ASSUME RecordsInv, NEW r \in Requests, CleanupExpired(r)
    PROVE  RecordsInv'
BY RoundStep DEF CleanupExpired

LEMMA EnforceRetentionStep ==
    ASSUME RecordsInv, NEW r \in Requests, EnforceRetention(r)
    PROVE  RecordsInv'
<1> DEFINE scope == Scopes[Len(Scopes) + 1 - req[r].rounds]
           deleted == IF policies[scope] = None THEN {} ELSE Deleted(r)
<1>1. /\ req[r].pc = "expired" /\ req[r].rounds \in 1..Len(Scopes)
      /\ NextRound(r, deleted) /\ Unchanged
  BY DEF EnforceRetention
<1>2. deleted \subseteq Deleted(r)
  OBVIOUS
<1>3. ~(req[r].rounds > Len(Scopes))
  BY <1>1, SixRounds
<1> HIDE DEF deleted
<1> QED
  BY <1>1, <1>2, <1>3, RoundStep

LEMMA CleanupFailsStep ==
    ASSUME RecordsInv, NEW r \in Requests, CleanupFails(r)
    PROVE  RecordsInv'
BY GivesUp DEF CleanupFails

LEMMA EnforceQuotasStep ==
    ASSUME RecordsInv, NEW r \in Requests, EnforceQuotas(r)
    PROVE  RecordsInv'
<1> DEFINE q == req[r]
<1>1. /\ GoodRecordRequest(q, records, now) /\ q.pc = "quotas" /\ now \in Nat
      /\ r \in DOMAIN req
  BY DEF RecordsInv, TablesGood, EnforceQuotas
<1>2. q.kind = "cleanup"
  BY <1>1, SweepersOnly
<1>3. /\ DOMAIN q = RequestFields /\ q.alone \in BOOLEAN /\ q.began \in Nat /\ q.began <= now
      /\ GoodTx(q.tx, q.kind, now) /\ q.scope \in MemoryScope /\ q.expires \in Expiries
      /\ SweptOnce(q, records)
  BY <1>1, PhasesAre DEF GoodRecordRequest
<1>4. PICK over : req' = [req EXCEPT ![r].over = over, ![r].pc = "commit"]
  BY DEF EnforceQuotas
<1> DEFINE n == [q EXCEPT !.over = over, !.pc = "commit"]
<1>5. req' = [req EXCEPT ![r] = n]
  BY <1>1, <1>4
<1>6. /\ DOMAIN n = RequestFields /\ n.alone = q.alone /\ n.began = q.began
      /\ n.expires = q.expires /\ n.tx = q.tx /\ n.scope = q.scope /\ n.kind = q.kind
      /\ n.pc = "commit"
  BY <1>3, FieldsOfRequest
<1> HIDE DEF q, n
<1>7. SweptOnce(n, records)
  BY <1>1, <1>2, <1>3, <1>6 DEF SweptOnce
<1>8. GoodRecordRequest(n, records, now)
  BY <1>1, <1>2, <1>3, <1>6, <1>7, CleanupGood
<1> QED
  BY <1>5, <1>8, OneRequestChanges DEF EnforceQuotas, Unchanged

LEMMA UpsertStep ==
    ASSUME RecordsInv, NEW r \in Requests, Upsert(r)
    PROVE  RecordsInv'
<1>1. PICK scope, p : /\ scope \in MemoryScope /\ p \in Policies
         /\ req' = [req EXCEPT ![r] = [Begun(r, "upsert", "commit")
                      EXCEPT !.scope = scope, !.policy = policies[scope], !.tx.policy = p]]
  BY DEF Upsert
<1> DEFINE n == [Begun(r, "upsert", "commit")
                   EXCEPT !.scope = scope, !.policy = policies[scope], !.tx.policy = p]
<1>2. req[r] = RecordFields /\ now \in Nat
  BY DEF RecordsInv, GoodRecordRequest, TablesGood, Upsert
<1>3. /\ DOMAIN n = RequestFields
      /\ n.pc = "commit" /\ n.kind = "upsert" /\ n.began = now
      /\ n.scope = scope /\ n.expires = Never /\ n.alone = TRUE
      /\ n.tx = [NoTx EXCEPT !.policy = p]
  BY <1>2 DEF Begun, RequestFields, RecordFields, NoTx
<1> HIDE DEF n
<1>4. n.alone \in BOOLEAN
  BY <1>3, Zenon
<1>5. /\ DOMAIN n.tx = DOMAIN NoTx /\ n.tx.policy = p /\ n.tx.inserted = {}
      /\ n.tx.deleted = {} /\ n.tx.events = {}
  BY <1>3 DEF NoTx
<1>6. GoodTx(n.tx, n.kind, now)
  <2>1. IsFiniteSet({})
    BY FS_EmptySet
  <2> QED
    BY <1>5, <2>1 DEF GoodTx
<1>7. n.tx.policy \in MemoryRetentionPolicy
  BY <1>1, <1>5, MemoryAssumption
<1>8. n.pc \in Flow(n.kind)
  BY <1>3 DEF Flow
<1>9. n.pc \notin Unread /\ n.pc \notin Counting /\ n.pc # "prepare"
  BY <1>3, PhasesAre
<1>10. RoomLeft(n, records) /\ SweptOnce(n, records)
  BY <1>3 DEF RoomLeft, SweptOnce
<1>11. n.began \in Nat /\ n.began <= now
  BY <1>2, <1>3
<1>12. n.expires \in Expiries
  BY <1>3 DEF Expiries
<1>13. GoodRecordRequest(n, records, now)
  BY <1>1, <1>3, <1>4, <1>6, <1>7, <1>8, <1>9, <1>10, <1>11, <1>12 DEF GoodRecordRequest
<1> QED
  BY <1>1, <1>13, OneRequestChanges DEF Upsert, Unchanged, n

\* What a transaction leaves the tables.
LEMMA CommitKeepsTables ==
    ASSUME TablesGood, NEW tx, NEW kind, GoodTx(tx, kind, now), records' = Committed(tx),
           outbox' = outbox \cup tx.events,
           policies' \in [MemoryScope -> MemoryRetentionPolicy \cup {None}], UNCHANGED now
    PROVE  TablesGood'
<1>1. IsFiniteSet(records) /\ IsFiniteSet(tx.inserted) /\ tx.events = tx.inserted
  BY DEF TablesGood, GoodTx
<1>2. records' = (records \ tx.deleted) \cup tx.inserted
  BY DEF Committed
<1>3. IsFiniteSet(records \ tx.deleted)
  BY <1>1, FS_Subset
<1>4. IsFiniteSet(records')
  <2>1. IsFiniteSet((records \ tx.deleted) \cup tx.inserted)
    BY <1>1, <1>3, FS_Union
  <2> QED
    BY <1>2, <2>1
<1>5. \A m \in records' : m.expires \in Expiries
  BY <1>2 DEF TablesGood, GoodTx
<1>6. EventPerRecord'
  BY <1>1, <1>2 DEF TablesGood, EventPerRecord
<1> QED
  BY <1>4, <1>5, <1>6 DEF TablesGood

LEMMA CommitRecordsStep ==
    ASSUME RecordsInv, NEW r \in Requests, CommitRecords(r)
    PROVE  RecordsInv'
<1> DEFINE q == req[r]
<1>1. GoodRecordRequest(q, records, now) /\ TablesGood /\ now \in Nat /\ q.pc = "commit"
  BY DEF RecordsInv, TablesGood, CommitRecords
<1>2. policies' \in [MemoryScope -> MemoryRetentionPolicy \cup {None}]
  <2>1. q.kind = "upsert" => q.scope \in MemoryScope /\ q.tx.policy \in MemoryRetentionPolicy
    BY <1>1 DEF GoodRecordRequest
  <2> QED
    BY <1>1, <2>1 DEF CommitRecords, TablesGood
<1>3. GoodTx(q.tx, q.kind, now)
  BY <1>1 DEF GoodRecordRequest
<1>4. records' = Committed(q.tx) /\ outbox' = outbox \cup q.tx.events /\ UNCHANGED now
      /\ Overtaking(r, Over(r, "ok"))
  BY DEF CommitRecords
<1>5. TablesGood'
  BY <1>1, <1>2, <1>3, <1>4, CommitKeepsTables
<1>6. GoodRecordRequest(Over(r, "ok"), records', now)
  BY <1>1, OverGood
<1> QED
  BY <1>4, <1>5, <1>6, OvertakingOthers

LEMMA RollbackRecordsStep ==
    ASSUME RecordsInv, NEW r \in Requests, RollbackRecords(r)
    PROVE  RecordsInv'
BY GivesUp DEF RollbackRecords

LEMMA TickStep ==
    ASSUME RecordsInv, Tick
    PROVE  RecordsInv'
<1>1. PICK t \in Times : t > now /\ now' = t
  BY DEF Tick
<1>2. now \in Nat /\ now' \in Nat /\ now <= now'
  BY <1>1, MemoryAssumption DEF RecordsInv, TablesGood
<1>3. UNCHANGED <<records, policies, outbox, req>>
  BY DEF Tick
<1>4. TablesGood'
  BY <1>2, <1>3 DEF RecordsInv, TablesGood, EventPerRecord
<1>5. \A r \in Requests : GoodRecordRequest(req[r], records, now')
  BY <1>2, LaterGood DEF RecordsInv
<1> QED
  BY <1>3, <1>4, <1>5 DEF RecordsInv

LEMMA RecordRequestStep ==
    ASSUME RecordsInv, NEW r \in Requests, RecordRequest(r)
    PROVE  RecordsInv'
BY WriteMemoryStep, AnswersStep, RunFullCleanupStep, CleanupExpiredStep, EnforceRetentionStep,
   CleanupFailsStep, EnforceQuotasStep, UpsertStep, CommitRecordsStep, RollbackRecordsStep
   DEF RecordRequest

-----------------------------------------------------------------------------
(* What the session's requests do to the durable memory.                   *)

\* Which requests are where.
LEMMA WhoIsWhere ==
    ASSUME NEW q, NEW table, NEW t, GoodRecordRequest(q, table, t)
    PROVE  /\ q.pc \in {"meta", "lookup", "restore", "append", "counted"} => q.kind = "add"
           /\ q.pc \in {"exists", "create"} => q.kind \in {"start", "add"}
           /\ q.pc \in {"recent", "search", "refill"} => q.kind = "context"
           /\ q.pc \in {"snapshot", "insert"} => q.kind = "end"
           /\ q.pc \in {"final", "unlink"} => q.kind \in {"end", "delete"}
           /\ q.pc = "unsummarise" => q.kind = "delete"
<1>1. q.pc \in Ended \cup Flow(q.kind)
  BY DEF GoodRecordRequest
<1> QED
  BY <1>1, PhasesAre DEF Flow

\* A move of a session's request that its write does not forbid.
MayMove(q, p) ==
    /\ q.kind \in SessionKinds
    /\ p \in {"ok", "refused", "failed"} \cup Flow(q.kind)
    /\ p \notin Counting \cup {"policy", "prepare"}
    /\ p \in Unread => q.pc \in Unread
    /\ q.kind = "end" /\ p \in Passed => q.pc \in Passed \/ q.policy = None

LEMMA MoveGood ==
    ASSUME NEW q, NEW table, NEW t \in Nat, GoodRecordRequest(q, table, t), NEW p, MayMove(q, p),
           NEW n, n = [q EXCEPT !.pc = p]
    PROVE  GoodRecordRequest(n, table, t)
<1>1. /\ DOMAIN n = RequestFields /\ n.alone = q.alone /\ n.began = q.began
      /\ n.expires = q.expires /\ n.tx = q.tx /\ n.scope = q.scope /\ n.kind = q.kind
      /\ n.policy = q.policy /\ n.pc = p
  BY FieldsOfRequest DEF GoodRecordRequest
<1>2. /\ DOMAIN q = RequestFields /\ q.alone \in BOOLEAN /\ q.began \in Nat /\ q.began <= t
      /\ GoodTx(q.tx, q.kind, t) /\ q.scope \in MemoryScope /\ q.expires \in Expiries
      /\ RoomLeft(q, table) /\ (q.kind \in {"write", "end"} => GoodPolicy(q.policy))
      /\ (q.pc \in Unread => q.policy = None /\ q.tx = NoTx)
  BY DEF GoodRecordRequest
<1>3. q.kind \in SessionKinds
  BY DEF MayMove
<1>4. q.kind \notin {"write", "cleanup", "upsert"}
  BY <1>3 DEF SessionKinds
<1>5. p \in Ended \cup Flow(q.kind) /\ p # "new" /\ p # "expired" /\ p \notin Counting /\ p # "prepare"
  BY <1>3, PhasesAre DEF MayMove, Flow, SessionKinds
<1>6. p \in Unread => q.pc \in Unread
  BY DEF MayMove
<1>7. SweptOnce(n, table)
  BY <1>1, <1>4 DEF SweptOnce
<1>8. RoomLeft(n, table)
  BY <1>1, <1>2, <1>4, <1>5, PhasesAre DEF RoomLeft, MayMove
<1> QED
  BY <1>1, <1>2, <1>4, <1>5, <1>6, <1>7, <1>8 DEF GoodRecordRequest

LEMMA GotoKeeps ==
    ASSUME RecordsInv, NEW r \in Requests, NEW p, MayMove(req[r], p), Goto(r, p), Unchanged
    PROVE  RecordsInv'
<1> DEFINE n == [req[r] EXCEPT !.pc = p]
<1>1. req' = [req EXCEPT ![r] = n]
  BY DEF Goto, RecordsInv
<1>2. GoodRecordRequest(req[r], records, now) /\ now \in Nat
  BY DEF RecordsInv, TablesGood
<1>3. GoodRecordRequest(n, records, now)
  BY <1>2, MoveGood
<1> HIDE DEF n
<1> QED
  BY <1>1, <1>3, OneRequestChanges DEF Unchanged

LEMMA OvertakingKeeps ==
    ASSUME RecordsInv, NEW r \in Requests, NEW p, MayMove(req[r], p),
           Overtaking(r, [req[r] EXCEPT !.pc = p]), Unchanged
    PROVE  RecordsInv'
<1> DEFINE n == [req[r] EXCEPT !.pc = p]
<1>1. GoodRecordRequest(req[r], records, now) /\ now \in Nat /\ TablesGood
  BY DEF RecordsInv, TablesGood
<1>2. GoodRecordRequest(n, records, now)
  BY <1>1, MoveGood
<1>3. Overtaking(r, n)
  OBVIOUS
<1>4. records' = records /\ UNCHANGED now
  BY DEF Unchanged
<1>5. TablesGood'
  BY <1>1, TablesUntouched DEF Unchanged
<1> HIDE DEF n
<1>6. GoodRecordRequest(n, records', now)
  BY <1>2, <1>4
<1> QED
  BY <1>3, <1>4, <1>5, <1>6, OvertakingOthers

LEMMA BeginStep ==
    ASSUME RecordsInv, NEW r \in Requests, NEW kind \in SessionKinds, NEW pc \in Flow(kind),
           pc \notin Counting \cup {"policy", "prepare"}, Begin(r, kind, pc)
    PROVE  RecordsInv'
<1> DEFINE n == Begun(r, kind, pc)
<1>1. req[r] = RecordFields /\ now \in Nat /\ r \in DOMAIN req
  BY DEF RecordsInv, GoodRecordRequest, TablesGood, Begin
<1>2. /\ DOMAIN n = RequestFields
      /\ n.pc = pc /\ n.kind = kind /\ n.began = now /\ n.alone = TRUE
      /\ n.scope = "session" /\ n.tx = NoTx /\ n.expires = Never /\ n.policy = None
  BY <1>1 DEF Begun, RequestFields, RecordFields
<1>3. req' = [req EXCEPT ![r] = n]
  BY DEF Begin
<1> HIDE DEF n
<1>4. GoodTx(n.tx, n.kind, now)
  BY <1>2, NoTxGood
<1>5. n.alone \in BOOLEAN
  BY <1>2, Zenon
<1>6. n.scope \in MemoryScope /\ n.expires \in Expiries /\ GoodPolicy(n.policy)
  BY <1>2 DEF MemoryScope, Expiries, GoodPolicy
<1>7. kind \notin {"write", "cleanup", "upsert"}
  BY DEF SessionKinds
<1>8. pc # "new" /\ pc # "expired" /\ pc \notin Counting /\ pc # "prepare"
  BY PhasesAre DEF Flow, SessionKinds
<1>9. RoomLeft(n, records) /\ SweptOnce(n, records)
  BY <1>2, <1>7 DEF RoomLeft, SweptOnce
<1>10. n.began \in Nat /\ n.began <= now
  BY <1>1, <1>2
<1>11. n.pc \in Ended \cup Flow(n.kind)
  BY <1>2
<1>12. GoodRecordRequest(n, records, now)
  BY <1>2, <1>4, <1>5, <1>6, <1>7, <1>8, <1>9, <1>10, <1>11 DEF GoodRecordRequest
<1> QED
  BY <1>3, <1>12, OneRequestChanges DEF Begin, Unchanged

LEMMA SessionFlow ==
    /\ Flow("start") = {"exists", "create"}
    /\ Flow("add") = {"meta", "lookup", "restore", "exists", "create", "append", "counted"}
    /\ Flow("context") = {"recent", "search", "refill"}
    /\ Flow("delete") = {"final", "unlink", "unsummarise", "commit"}
    /\ SessionKinds = {"start", "add", "context", "end", "delete"}
BY DEF Flow, SessionKinds

LEMMA BeginningsStep ==
    ASSUME RecordsInv, NEW r \in Requests,
           \/ StartSession(r) \/ AddToSession(r) \/ GetSessionContext(r)
           \/ EndSession(r) \/ DeleteSession(r) \/ ListSessions(r)
    PROVE  RecordsInv'
<1>1. CASE StartSession(r)
  BY <1>1, BeginStep, SessionFlow, PhasesAre DEF StartSession
<1>2. CASE AddToSession(r)
  BY <1>2, BeginStep, SessionFlow, PhasesAre DEF AddToSession
<1>3. CASE GetSessionContext(r)
  BY <1>3, BeginStep, SessionFlow, PhasesAre DEF GetSessionContext
<1>4. CASE EndSession(r)
  BY <1>4, BeginStep, SessionFlow, WriteFlow, PhasesAre DEF EndSession
<1>5. CASE DeleteSession(r)
  BY <1>5, BeginStep, SessionFlow, PhasesAre DEF DeleteSession
<1>6. CASE ListSessions(r)
  BY <1>6, RefusedStep DEF ListSessions
<1> QED
  BY <1>1, <1>2, <1>3, <1>4, <1>5, <1>6

\* The steps of a session's data, its messages and its context.
LEMMA DataStep ==
    ASSUME RecordsInv, NEW r \in Requests,
           \/ GetMeta(r) \/ GetBySessionId(r) \/ Exists(r)
           \/ Restore(r) \/ CreateSession(r) \/ AppendToHistory(r) \/ SetCount(r)
           \/ RecentHistory(r) \/ SearchConversation(r) \/ Refill(r)
    PROVE  RecordsInv'
<1> DEFINE q == req[r]
<1>1. GoodRecordRequest(q, records, now)
  BY DEF RecordsInv
<1>2. \A p : /\ q.kind \in {"start", "add", "context"}
             /\ p \in {"ok", "append", "lookup", "restore", "exists", "create", "counted",
                       "search", "refill"}
             /\ p \in {"ok"} \cup Flow(q.kind)
             => MayMove(q, p)
  BY SessionFlow, PhasesAre DEF MayMove
<1> HIDE DEF q
<1>3. CASE GetMeta(r)
  <2>1. PICK p : p \in {"append", "lookup"} /\ Goto(r, p)
    BY <1>3 DEF GetMeta, Got
  <2>2. q.pc = "meta" /\ Unchanged
    BY <1>3 DEF GetMeta, Got, q
  <2>3. MayMove(q, p)
    BY <1>1, <1>2, <2>1, <2>2, WhoIsWhere, SessionFlow
  <2> QED
    BY <2>1, <2>2, <2>3, GotoKeeps DEF q
<1>4. CASE GetBySessionId(r)
  <2>1. PICK p : p \in {"restore", "exists"} /\ Goto(r, p)
    BY <1>4 DEF GetBySessionId, Got
  <2>2. q.pc = "lookup" /\ Unchanged
    BY <1>4 DEF GetBySessionId, Got, q
  <2>3. MayMove(q, p)
    BY <1>1, <1>2, <2>1, <2>2, WhoIsWhere, SessionFlow
  <2> QED
    BY <2>1, <2>2, <2>3, GotoKeeps DEF q
<1>5. CASE Exists(r)
  <2>1. PICK p : p \in {WithMeta(r), "create"} /\ Goto(r, p)
    BY <1>5 DEF Exists, Got
  <2>2. q.pc = "exists" /\ Unchanged
    BY <1>5 DEF Exists, Got, q
  <2>3. q.kind \in {"start", "add"}
    BY <1>1, <2>2, WhoIsWhere
  <2>4. p \in {"ok"} \cup Flow(q.kind) /\ p \in {"ok", "append", "create"}
    BY <2>1, <2>3, SessionFlow DEF WithMeta, q
  <2>5. MayMove(q, p)
    BY <1>2, <2>3, <2>4
  <2> QED
    BY <2>1, <2>2, <2>5, GotoKeeps DEF q
<1>6. CASE Restore(r)
  <2>1. q.pc = "restore" /\ Overtaking(r, [req[r] EXCEPT !.pc = "append"]) /\ Unchanged
    BY <1>6 DEF Restore, SetMeta, q
  <2>2. MayMove(q, "append")
    BY <1>1, <1>2, <2>1, WhoIsWhere, SessionFlow
  <2> QED
    BY <2>1, <2>2, OvertakingKeeps DEF q
<1>7. CASE CreateSession(r)
  <2>1. q.pc = "create" /\ Overtaking(r, [req[r] EXCEPT !.pc = WithMeta(r)]) /\ Unchanged
    BY <1>7 DEF CreateSession, SetMeta, q
  <2>2. q.kind \in {"start", "add"}
    BY <1>1, <2>1, WhoIsWhere
  <2>3. WithMeta(r) \in {"ok"} \cup Flow(q.kind) /\ WithMeta(r) \in {"ok", "append"}
    BY <2>2, SessionFlow DEF WithMeta, q
  <2>4. MayMove(q, WithMeta(r))
    BY <1>2, <2>2, <2>3
  <2> QED
    BY <2>1, <2>4, OvertakingKeeps DEF q
<1>8. CASE AppendToHistory(r)
  <2>1. q.pc = "append" /\ Overtaking(r, [req[r] EXCEPT !.pc = "counted"]) /\ Unchanged
    BY <1>8 DEF AppendToHistory, q
  <2>2. MayMove(q, "counted")
    BY <1>1, <1>2, <2>1, WhoIsWhere, SessionFlow
  <2> QED
    BY <2>1, <2>2, OvertakingKeeps DEF q
<1>9. CASE SetCount(r)
  <2>1. q.pc = "counted" /\ Overtaking(r, [req[r] EXCEPT !.pc = "ok"]) /\ Unchanged
    BY <1>9 DEF SetCount, SetMeta, q
  <2>2. MayMove(q, "ok")
    BY <1>1, <1>2, <2>1, WhoIsWhere, SessionFlow
  <2> QED
    BY <2>1, <2>2, OvertakingKeeps DEF q
<1>10. CASE RecentHistory(r)
  <2>1. PICK p : p \in {"ok", "search"} /\ Goto(r, p)
    BY <1>10 DEF RecentHistory, Got
  <2>2. q.pc = "recent" /\ Unchanged
    BY <1>10 DEF RecentHistory, Got, q
  <2>3. MayMove(q, p)
    BY <1>1, <1>2, <2>1, <2>2, WhoIsWhere, SessionFlow
  <2> QED
    BY <2>1, <2>2, <2>3, GotoKeeps DEF q
<1>11. CASE SearchConversation(r)
  <2>1. PICK p : p \in {"ok", "refill"} /\ Goto(r, p)
    BY <1>11 DEF SearchConversation
  <2>2. q.pc = "search" /\ Unchanged
    BY <1>11 DEF SearchConversation, q
  <2>3. MayMove(q, p)
    BY <1>1, <1>2, <2>1, <2>2, WhoIsWhere, SessionFlow
  <2> QED
    BY <2>1, <2>2, <2>3, GotoKeeps DEF q
<1>12. CASE Refill(r)
  <2> DEFINE p == IF ses[r].refill = 1 THEN "ok" ELSE "refill"
  <2>1. q.pc = "refill" /\ Unchanged
    BY <1>12 DEF Refill, q
  <2>2. Overtaking(r, [req[r] EXCEPT !.pc = p])
    <3>1. Overtaking(r, [req[r] EXCEPT !.pc = IF ses[r].refill = 1 THEN "ok" ELSE @])
      BY <1>12 DEF Refill
    <3>2. [req[r] EXCEPT !.pc = IF ses[r].refill = 1 THEN "ok" ELSE @] = [req[r] EXCEPT !.pc = p]
      BY <2>1 DEF q
    <3> QED
      BY <3>1, <3>2
  <2>3. MayMove(q, p)
    BY <1>1, <1>2, <2>1, WhoIsWhere, SessionFlow
  <2> HIDE DEF p
  <2> QED
    BY <2>1, <2>2, <2>3, OvertakingKeeps DEF q
<1> QED
  BY <1>3, <1>4, <1>5, <1>6, <1>7, <1>8, <1>9, <1>10, <1>11, <1>12

\* The steps of an ending and a deletion, up to their commit.
LEMMA EndingStep ==
    ASSUME RecordsInv, NEW r \in Requests,
           GetFullHistory(r) \/ ScanKeys(r) \/ DeleteKeys(r) \/ DeleteSummary(r)
    PROVE  RecordsInv'
<1> DEFINE q == req[r]
<1>1. GoodRecordRequest(q, records, now)
  BY DEF RecordsInv
<1>2. q.kind \in {"end", "delete"} => AfterClear(r) \in {"commit", "unsummarise"} \cap Flow(q.kind)
  BY SessionFlow, WriteFlow DEF AfterClear
<1> HIDE DEF q
<1>3. CASE GetFullHistory(r)
  <2>1. PICK p : p \in {"final", "insert"} /\ Goto(r, p)
    BY <1>3 DEF GetFullHistory
  <2>2. q.pc = "snapshot" /\ Unchanged
    BY <1>3 DEF GetFullHistory, q
  <2>3. q.kind = "end" /\ q.policy = None
    BY <1>1, <2>2, WhoIsWhere, PhasesAre DEF GoodRecordRequest
  <2>4. MayMove(q, p)
    BY <2>1, <2>2, <2>3, SessionFlow, WriteFlow, PhasesAre DEF MayMove
  <2> QED
    BY <2>1, <2>2, <2>4, GotoKeeps DEF q
<1>4. CASE ScanKeys(r)
  <2>1. PICK p : p \in {"unlink", AfterClear(r)} /\ Goto(r, p)
    BY <1>4 DEF ScanKeys
  <2>2. q.pc = "final" /\ Unchanged
    BY <1>4 DEF ScanKeys, q
  <2>3. q.kind \in {"end", "delete"}
    BY <1>1, <2>2, WhoIsWhere
  <2>4. p \in {"unlink", "commit", "unsummarise"} \cap Flow(q.kind)
    BY <1>2, <2>1, <2>3, SessionFlow, WriteFlow
  <2>5. MayMove(q, p)
    BY <2>2, <2>3, <2>4, SessionFlow, PhasesAre DEF MayMove
  <2> QED
    BY <2>1, <2>2, <2>5, GotoKeeps DEF q
<1>5. CASE DeleteKeys(r)
  <2>1. Overtaking(r, [req[r] EXCEPT !.pc = AfterClear(r)])
    BY <1>5 DEF DeleteKeys
  <2>2. q.pc = "unlink" /\ Unchanged
    BY <1>5 DEF DeleteKeys, q
  <2>3. q.kind \in {"end", "delete"}
    BY <1>1, <2>2, WhoIsWhere
  <2>4. MayMove(q, AfterClear(r))
    BY <1>2, <2>2, <2>3, SessionFlow, PhasesAre DEF MayMove
  <2> QED
    BY <2>1, <2>2, <2>4, OvertakingKeeps DEF q
<1>6. CASE DeleteSummary(r)
  <2>1. Goto(r, "commit") /\ Unchanged /\ q.pc = "unsummarise"
    BY <1>6 DEF DeleteSummary, q
  <2>2. q.kind = "delete"
    BY <1>1, <2>1, WhoIsWhere
  <2>3. MayMove(q, "commit")
    BY <2>1, <2>2, SessionFlow, PhasesAre DEF MayMove
  <2> QED
    BY <2>1, <2>3, GotoKeeps DEF q
<1> QED
  BY <1>3, <1>4, <1>5, <1>6

\* The summary of an ending, with which its write begins.
LEMMA CreateSummaryStep ==
    ASSUME RecordsInv, NEW r \in Requests, CreateSummary(r)
    PROVE  RecordsInv'
<1> DEFINE q == req[r]
<1>1. /\ GoodRecordRequest(q, records, now) /\ q.pc = "insert" /\ now \in Nat
      /\ r \in DOMAIN req /\ Unchanged
  BY DEF RecordsInv, TablesGood, CreateSummary
<1>2. q.kind = "end"
  BY <1>1, WhoIsWhere
<1>3. /\ DOMAIN q = RequestFields /\ q.alone \in BOOLEAN /\ q.began \in Nat /\ q.began <= now
      /\ GoodTx(q.tx, q.kind, now) /\ q.tx = NoTx /\ q.expires \in Expiries
      /\ q.policy = None
  BY <1>1, PhasesAre DEF GoodRecordRequest
<1>4. CASE SummaryAllowed(r)
  <2>1. PICK text : req' = [req EXCEPT ![r].text = text, ![r].scope = "durable",
                                       ![r].pc = "policy"]
    BY <1>4 DEF CreateSummary
  <2> DEFINE n == [q EXCEPT !.text = text, !.scope = "durable", !.pc = "policy"]
  <2>2. req' = [req EXCEPT ![r] = n]
    BY <1>1, <2>1
  <2>3. /\ DOMAIN n = RequestFields /\ n.alone = q.alone /\ n.began = q.began
        /\ n.expires = q.expires /\ n.tx = q.tx /\ n.scope = "durable" /\ n.kind = q.kind
        /\ n.policy = q.policy /\ n.pc = "policy"
    BY <1>3, FieldsOfRequest
  <2> HIDE DEF q, n
  <2>4. RoomLeft(n, records)
    BY <1>3, <2>3 DEF RoomLeft
  <2>5. n.scope \in MemoryScope /\ GoodPolicy(n.policy)
    BY <1>3, <2>3 DEF MemoryScope, GoodPolicy
  <2>6. GoodRecordRequest(n, records, now)
    BY <1>1, <1>2, <1>3, <2>3, <2>4, <2>5, PhasesAre, WriteFlow, WriteGood
  <2> QED
    BY <1>1, <2>2, <2>6, OneRequestChanges DEF Unchanged
<1>5. CASE ~SummaryAllowed(r)
  <2>1. Goto(r, "failed")
    BY <1>5 DEF CreateSummary
  <2>2. MayMove(q, "failed")
    BY <1>1, <1>2, PhasesAre, SessionFlow DEF MayMove
  <2> QED
    BY <1>1, <2>1, <2>2, GotoKeeps
<1> QED
  BY <1>4, <1>5

LEMMA CommitSessionStep ==
    ASSUME RecordsInv, NEW r \in Requests, CommitSession(r)
    PROVE  RecordsInv'
<1> DEFINE q == req[r]
           n == [q EXCEPT !.pc = "ok"]
<1>1. /\ GoodRecordRequest(q, records, now) /\ TablesGood /\ now \in Nat
      /\ q.pc = "commit" /\ q.kind \in {"end", "delete"}
  BY DEF RecordsInv, TablesGood, CommitSession
<1>2. /\ records' = Committed(q.tx) /\ outbox' = outbox \cup q.tx.events /\ UNCHANGED now
      /\ policies' = policies /\ Overtaking(r, n)
  BY DEF CommitSession
<1>3. GoodTx(q.tx, q.kind, now) /\ policies \in [MemoryScope -> MemoryRetentionPolicy \cup {None}]
  BY <1>1 DEF GoodRecordRequest, TablesGood
<1>4. TablesGood'
  BY <1>1, <1>2, <1>3, CommitKeepsTables
<1>5. MayMove(q, "ok")
  BY <1>1, PhasesAre, SessionFlow DEF MayMove
<1>6. GoodRecordRequest(n, records, now)
  BY <1>1, <1>5, MoveGood
<1>7. n.pc = "ok"
  BY <1>1, FieldsOfRequest DEF GoodRecordRequest
<1> HIDE DEF q, n
<1>8. GoodRecordRequest(n, records', now)
  BY <1>6, <1>7, PhasesAre DEF GoodRecordRequest, RoomLeft, SweptOnce
<1> QED
  BY <1>2, <1>4, <1>8, OvertakingOthers

LEMMA RollbackSessionStep ==
    ASSUME RecordsInv, NEW r \in Requests, RollbackSession(r)
    PROVE  RecordsInv'
<1> DEFINE q == req[r]
           n == [q EXCEPT !.pc = "failed", !.tx = NoTx]
<1>1. GoodRecordRequest(q, records, now) /\ now \in Nat /\ r \in DOMAIN req
  BY DEF RecordsInv, TablesGood
<1>2. req' = [req EXCEPT ![r] = n] /\ Unchanged
  BY <1>1 DEF RollbackSession
<1>3. /\ DOMAIN q = RequestFields /\ q.alone \in BOOLEAN /\ q.began \in Nat /\ q.began <= now
      /\ q.expires \in Expiries /\ q.scope \in MemoryScope
      /\ (q.kind \in {"write", "end"} => GoodPolicy(q.policy))
  BY <1>1 DEF GoodRecordRequest
<1>4. /\ DOMAIN n = RequestFields /\ n.alone = q.alone /\ n.began = q.began
      /\ n.expires = q.expires /\ n.tx = NoTx /\ n.scope = q.scope /\ n.kind = q.kind
      /\ n.policy = q.policy /\ n.pc = "failed"
  BY <1>3, FieldsOfRequest
<1> HIDE DEF q, n
<1>5. GoodTx(n.tx, n.kind, now)
  BY <1>4, NoTxGood
<1>6. GoodRecordRequest(n, records, now)
  BY <1>1, <1>3, <1>4, <1>5, PhasesAre, EndedGood
<1> QED
  BY <1>2, <1>6, OneRequestChanges DEF Unchanged

LEMMA SessionRequestStep ==
    ASSUME RecordsInv, NEW r \in Requests, SessionRequest(r)
    PROVE  RecordsInv'
BY BeginningsStep, DataStep, EndingStep, CreateSummaryStep, CommitSessionStep,
   RollbackSessionStep DEF SessionRequest

-----------------------------------------------------------------------------
(* The durable memory's invariant.                                         *)

LEMMA RecordsNothing ==
    ASSUME RecordsInv, UNCHANGED recordVars
    PROVE  RecordsInv'
BY DEF RecordsInv, recordVars, TablesGood, EventPerRecord

LEMMA RecordsStart ==
    ASSUME StoreInit
    PROVE  RecordsInv
<1>1. /\ IsFiniteSet(records) /\ now = 0 /\ req = [r \in Requests |-> RecordFields]
      /\ policies \in [MemoryScope -> MemoryRetentionPolicy \cup {None}]
      /\ \A m \in records : m \in Record /\ m.by = "first"
  BY DEF StoreInit
<1>2. \A m \in records : m.expires \in Expiries
  BY <1>1 DEF Record, Expiries
<1>3. TablesGood
  BY <1>1, <1>2 DEF TablesGood, EventPerRecord
<1>4. \A r \in Requests : GoodRecordRequest(req[r], records, now)
  BY <1>1, FreshGood
<1> QED
  BY <1>1, <1>3, <1>4 DEF RecordsInv

LEMMA RecordsStep ==
    ASSUME RecordsInv, [StoreNext]_storeVars
    PROVE  RecordsInv'
<1>1. CASE Tick /\ UNCHANGED sessionVars
  BY <1>1, TickStep
<1>2. ASSUME NEW r \in Requests, (RecordRequest(r) \/ WritePipeline(r)) /\ UNCHANGED sessionVars
      PROVE  RecordsInv'
  BY <1>2, RecordRequestStep, WritePipelineStep
<1>3. ASSUME NEW r \in Requests, SessionRequest(r)
      PROVE  RecordsInv'
  BY <1>3, SessionRequestStep
<1>4. CASE KeyExpires
  BY <1>4, RecordsNothing DEF KeyExpires
<1>5. CASE UNCHANGED storeVars
  BY <1>5, RecordsNothing DEF storeVars
<1> QED
  BY <1>1, <1>2, <1>3, <1>4, <1>5 DEF StoreNext

\* The tables and the requests on them, whichever requests run at once: what a write
\* has counted, and what a cleanup has seen, is still so at its commit if nothing
\* overtook it.
THEOREM RecordsInvariance == StoreSpec => []RecordsInv
<1>1. StoreInit => RecordsInv
  BY RecordsStart
<1>2. RecordsInv /\ [StoreNext]_storeVars => RecordsInv'
  BY RecordsStep
<1> QED
  BY <1>1, <1>2, PTL DEF StoreSpec

-----------------------------------------------------------------------------
(* What a commit does.                                                     *)

Steps(r) == RecordRequest(r) \/ WritePipeline(r) \/ SessionRequest(r)

\* A request's step changes that request, and takes from others that they are
\* alone.
LEMMA StepFrame ==
    ASSUME NEW s \in Requests, Steps(s), DOMAIN req = Requests
    PROVE  \E n : req' = [req EXCEPT ![s] = n] \/ Overtaking(s, n)
<1> DEFINE G == \E n : req' = [req EXCEPT ![s] = n] \/ Overtaking(s, n)
<1>1. ASSUME NEW p, Goto(s, p) PROVE G
  <2>1. req' = [req EXCEPT ![s] = [req[s] EXCEPT !.pc = p]]
    BY <1>1 DEF Goto
  <2> QED
    BY <2>1
<1>2. ASSUME NEW a, Answer(s, a) PROVE G
  BY <1>2 DEF Answer
<1>3. WritePipeline(s) => G
  <2>1. GetPolicy(s) => G
    <3> DEFINE n == [req[s] EXCEPT !.policy = policies[req[s].scope],
                       !.pc = IF policies[req[s].scope] = None THEN "prepare" ELSE "count"]
    <3>1. GetPolicy(s) => req' = [req EXCEPT ![s] = n]
      BY DEF GetPolicy
    <3> QED
      BY <3>1
  <2>2. CountRecords(s) => G
    <3> DEFINE n == [req[s] EXCEPT !.count = CountByTenant(req[s].tx, req[s].scope),
                                   !.pc = "storage"]
    <3>1. CountRecords(s) => req' = [req EXCEPT ![s] = n]
      BY DEF CountRecords
    <3> QED
      BY <3>1
  <2>3. CheckQuota(s) => G
    <3> DEFINE n == IF QuotaExceeded(req[s].policy, req[s].count, StorageSize(req[s].tx))
                    THEN Over(s, "failed") ELSE [req[s] EXCEPT !.pc = "prepare"]
    <3>1. CheckQuota(s) => req' = [req EXCEPT ![s] = n]
      BY DEF CheckQuota
    <3> QED
      BY <3>1
  <2>4. Prepare(s) => G
    <3> DEFINE text == Processed(req[s].text)
               n == [req[s] EXCEPT !.text = text, !.chunks = Chunks(text),
                       !.found = FoundIn(req[s].text),
                       !.label = Classified(req[s].text).label,
                       !.expires = Expiry(policies[req[s].scope], req[s].scope, now),
                       !.pc = IF Chunks(text) = <<>> THEN AfterWrite(s) ELSE "store"]
    <3>1. Prepare(s) => req' = [req EXCEPT ![s] = n]
      BY DEF Prepare
    <3> QED
      BY <3>1
  <2>5. StoreChunk(s) => G
    <3> DEFINE tx == req[s].tx
               m == NewRecord(s, Head(req[s].chunks))
               n == [req[s] EXCEPT !.chunks = Tail(@),
                       !.tx = [tx EXCEPT !.inserted = @ \cup {m}, !.events = WithEvent(tx, m)],
                       !.pc = IF Tail(req[s].chunks) = <<>> THEN AfterWrite(s) ELSE @]
    <3>1. StoreChunk(s) => req' = [req EXCEPT ![s] = n]
      BY DEF StoreChunk
    <3> QED
      BY <3>1
  <2>6. StoreFails(s) => G
    BY DEF StoreFails
  <2> QED
    BY <2>1, <2>2, <2>3, <2>4, <2>5, <2>6 DEF WritePipeline
<1>4. RecordRequest(s) => G
  <2>1. WriteMemory(s) \/ RunFullCleanup(s) \/ CleanupFails(s) \/ RollbackRecords(s) => G
    BY DEF WriteMemory, RunFullCleanup, CleanupFails, RollbackRecords
  <2>2. SearchMemory(s) \/ ListRecords(s) \/ GetRecord(s) \/ GetMemoryStats(s)
          \/ DeleteRecord(s) => G
    BY <1>1, <1>2 DEF SearchMemory, ListRecords, GetRecord, GetMemoryStats, DeleteRecord
  <2>3. ASSUME NEW d, NextRound(s, d) PROVE G
    <3> DEFINE n == [req[s] EXCEPT !.rounds = @ - 1, !.tx.deleted = @ \cup d,
                                   !.pc = IF req[s].rounds = 1 THEN "quotas" ELSE @]
    <3>1. req' = [req EXCEPT ![s] = n]
      BY <2>3 DEF NextRound
    <3> QED
      BY <3>1
  <2>4. CleanupExpired(s) \/ EnforceRetention(s) => G
    BY <2>3 DEF CleanupExpired, EnforceRetention
  <2>5. EnforceQuotas(s) => G
    <3> SUFFICES ASSUME EnforceQuotas(s) PROVE G
      OBVIOUS
    <3>1. PICK over : req' = [req EXCEPT ![s].over = over, ![s].pc = "commit"]
      BY DEF EnforceQuotas
    <3>2. req' = [req EXCEPT ![s] = [req[s] EXCEPT !.over = over, !.pc = "commit"]]
      BY <3>1
    <3> QED
      BY <3>2
  <2>6. Upsert(s) => G
    BY DEF Upsert
  <2>7. CommitRecords(s) => G
    BY DEF CommitRecords
  <2> QED
    BY <2>1, <2>2, <2>4, <2>5, <2>6, <2>7 DEF RecordRequest
<1>5. SessionRequest(s) => G
  <2>1. ASSUME NEW kind, NEW pc, Begin(s, kind, pc) PROVE G
    BY <2>1 DEF Begin
  <2>2. StartSession(s) \/ AddToSession(s) \/ GetSessionContext(s) \/ EndSession(s)
          \/ DeleteSession(s) \/ ListSessions(s) => G
    BY <1>1, <2>1
    DEF StartSession, AddToSession, GetSessionContext, EndSession, DeleteSession, ListSessions
  <2>3. GetMeta(s) \/ GetBySessionId(s) \/ Exists(s) \/ RecentHistory(s)
          \/ SearchConversation(s) \/ GetFullHistory(s) \/ ScanKeys(s) \/ DeleteSummary(s) => G
    BY <1>1 DEF GetMeta, GetBySessionId, Exists, RecentHistory, SearchConversation,
                GetFullHistory, ScanKeys, DeleteSummary, Got
  <2>4. Restore(s) \/ CreateSession(s) \/ AppendToHistory(s) \/ SetCount(s) \/ Refill(s)
          \/ DeleteKeys(s) \/ CommitSession(s) => G
    BY DEF Restore, CreateSession, AppendToHistory, SetCount, Refill, DeleteKeys,
           CommitSession, SetMeta
  <2>5. CreateSummary(s) => G
    <3> SUFFICES ASSUME CreateSummary(s) PROVE G
      OBVIOUS
    <3>1. CASE Goto(s, "failed")
      BY <1>1, <3>1
    <3>2. CASE ~Goto(s, "failed")
      <4>1. PICK text : req' = [req EXCEPT ![s].text = text, ![s].scope = "durable",
                                           ![s].pc = "policy"]
        BY <3>2 DEF CreateSummary
      <4>2. req' = [req EXCEPT ![s] = [req[s] EXCEPT !.text = text, !.scope = "durable",
                                                     !.pc = "policy"]]
        BY <4>1
      <4> QED
        BY <4>2
    <3> QED
      BY <3>1, <3>2
  <2>6. RollbackSession(s) => G
    <3>1. RollbackSession(s) => req' = [req EXCEPT ![s] = [req[s] EXCEPT !.pc = "failed",
                                                                         !.tx = NoTx]]
      BY DEF RollbackSession
    <3> QED
      BY <3>1
  <2> QED
    BY <2>2, <2>3, <2>4, <2>5, <2>6 DEF SessionRequest
<1> QED
  BY <1>3, <1>4, <1>5 DEF Steps

\* What a step of another request leaves of a request.
LEMMA OthersStay ==
    ASSUME NEW s \in Requests, Steps(s), DOMAIN req = Requests, NEW r \in Requests, r # s
    PROVE  req'[r] = req[r] \/ req'[r] = [req[r] EXCEPT !.alone = FALSE]
<1>1. PICK n : req' = [req EXCEPT ![s] = n] \/ Overtaking(s, n)
  BY StepFrame
<1>2. CASE req' = [req EXCEPT ![s] = n]
  BY <1>2
<1>3. CASE Overtaking(s, n)
  BY <1>3 DEF Overtaking
<1> QED
  BY <1>1, <1>2, <1>3

\* Only a commit ends a commit well.
LEMMA CommitEnds ==
    ASSUME RecordsInv, [StoreNext]_storeVars, NEW r \in Requests,
           req[r].pc = "commit", req'[r].pc = "ok"
    PROVE  CommitRecords(r) \/ CommitSession(r)
<1>0. DOMAIN req = Requests /\ DOMAIN req[r] = RequestFields
  BY DEF RecordsInv, GoodRecordRequest
<1>1. req' # req
  OBVIOUS
<1>2. PICK s \in Requests : Steps(s)
  BY <1>1 DEF StoreNext, Steps, Tick, KeyExpires, recordVars, storeVars
<1>3. s = r
  <2> SUFFICES ASSUME r # s PROVE FALSE
    OBVIOUS
  <2>1. req'[r] = req[r] \/ req'[r] = [req[r] EXCEPT !.alone = FALSE]
    BY <1>0, <1>2, OthersStay
  <2>2. req'[r].pc = req[r].pc
    BY <1>0, <2>1, FieldsOfRequest
  <2> QED
    BY <2>2
<1>4. ~RollbackRecords(r) /\ ~RollbackSession(r)
  <2>1. ~RollbackRecords(r)
    <3>1. Over(r, "failed").pc = "failed"
      BY OverIs
    <3> QED
      BY <1>0, <3>1 DEF RollbackRecords
  <2>2. ~RollbackSession(r)
    BY <1>0, FieldsOfRequest DEF RollbackSession
  <2> QED
    BY <2>1, <2>2
<1>5. RecordRequest(r) => CommitRecords(r)
  BY <1>4 DEF RecordRequest, WriteMemory, SearchMemory, ListRecords, GetRecord, GetMemoryStats,
     DeleteRecord, RunFullCleanup, CleanupExpired, EnforceRetention, CleanupFails,
     EnforceQuotas, Upsert, Answer
<1>6. ~WritePipeline(r)
  BY DEF WritePipeline, GetPolicy, CountRecords, CheckQuota, Prepare, StoreChunk, StoreFails
<1>7. SessionRequest(r) => CommitSession(r)
  BY <1>4 DEF SessionRequest, StartSession, AddToSession, GetSessionContext, EndSession,
     DeleteSession, ListSessions, Begin, GetMeta, GetBySessionId, Exists, Restore,
     CreateSession, AppendToHistory, SetCount, RecentHistory, SearchConversation, Refill,
     GetFullHistory, CreateSummary, ScanKeys, DeleteKeys, DeleteSummary
<1> QED
  BY <1>2, <1>3, <1>5, <1>6, <1>7 DEF Steps

\* Nothing but a commit changes the records.
LEMMA RecordsOfCommit ==
    ASSUME RecordsInv, [StoreNext]_storeVars, records' # records
    PROVE  \E r \in Requests : req[r].pc = "commit" /\ records' = Committed(req[r].tx)
<1>1. PICK s \in Requests : Steps(s)
  BY DEF StoreNext, Steps, Tick, KeyExpires, recordVars, storeVars
<1>2. RecordRequest(s) => CommitRecords(s)
  BY DEF RecordRequest, WriteMemory, SearchMemory, ListRecords, GetRecord, GetMemoryStats,
     DeleteRecord, RunFullCleanup, CleanupExpired, EnforceRetention, CleanupFails,
     EnforceQuotas, Upsert, RollbackRecords, Answer, Unchanged
<1>3. ~WritePipeline(s)
  BY DEF WritePipeline, GetPolicy, CountRecords, CheckQuota, Prepare, StoreChunk, StoreFails,
     Unchanged
<1>4. SessionRequest(s) => CommitSession(s)
  BY DEF SessionRequest, StartSession, AddToSession, GetSessionContext, EndSession,
     DeleteSession, ListSessions, Begin, GetMeta, GetBySessionId, Exists, Restore,
     CreateSession, AppendToHistory, SetCount, RecentHistory, SearchConversation, Refill,
     GetFullHistory, CreateSummary, ScanKeys, DeleteKeys, DeleteSummary, RollbackSession,
     Unchanged, Got, SetMeta
<1>5. CommitRecords(s) \/ CommitSession(s)
  BY <1>1, <1>2, <1>3, <1>4 DEF Steps
<1> QED
  BY <1>5 DEF CommitRecords, CommitSession

\* The quota of a write nothing overtook, kept by its commit.
LEMMA QuotaOfCommit ==
    ASSUME RecordsInv, [StoreNext]_storeVars, NEW r \in Requests,
           req[r].pc = "commit", req'[r].pc = "ok", req[r].alone,
           req[r].kind \in {"write", "end"}, req[r].policy # None, req[r].policy.records # None
    PROVE  Cardinality({m \in records' : m.scope = req[r].scope})
             <= req[r].policy.records - 1 + Cardinality(req[r].tx.inserted)
<1> DEFINE q == req[r]
           before == InScope(records, q.scope)
           after == {m \in records' : m.scope = q.scope}
           new == q.tx.inserted
<1>1. CommitRecords(r) \/ CommitSession(r)
  BY CommitEnds
<1>2. records' = Committed(q.tx)
  BY <1>1 DEF CommitRecords, CommitSession
<1>3. /\ IsFiniteSet(new) /\ q.tx.deleted = {}
      /\ Cardinality(before) + 1 <= q.policy.records
      /\ GoodPolicy(q.policy)
  BY PhasesAre DEF RecordsInv, GoodRecordRequest, GoodTx, RoomLeft
<1>4. q.policy.records \in Nat
  BY <1>3 DEF GoodPolicy, MemoryRetentionPolicy
<1>5. IsFiniteSet(before) /\ Cardinality(before) \in Nat
  BY ScopeIsFinite DEF RecordsInv, TablesGood
<1>6. after \subseteq before \cup new
  BY <1>2, <1>3 DEF Committed, InScope
<1> HIDE DEF before, after, new
<1>7. /\ IsFiniteSet(before \cup new)
      /\ Cardinality(before \cup new)
           = Cardinality(before) + Cardinality(new) - Cardinality(before \cap new)
  BY <1>3, <1>5, FS_Union
<1>8. IsFiniteSet(before \cap new)
  BY <1>3, FS_Intersection
<1>9. Cardinality(before \cap new) \in Nat /\ Cardinality(new) \in Nat
  BY <1>3, <1>8, FS_CardinalityType
<1>10. IsFiniteSet(after) /\ Cardinality(after) <= Cardinality(before \cup new)
  BY <1>6, <1>7, FS_Subset
<1>11. Cardinality(after) \in Nat
  BY <1>10, FS_CardinalityType
<1>12. Cardinality(after) <= q.policy.records - 1 + Cardinality(new)
  BY <1>3, <1>4, <1>5, <1>7, <1>9, <1>10, <1>11
<1> QED
  BY <1>12 DEF after, new

\* A write takes its scope above the limit by its own chunks at most: the quota
\* check of _check_quota counts what is there, and the commit adds to that.
THEOREM QuotaIsKept == StoreSpec => QuotaKept
<1>1. RecordsInv /\ [StoreNext]_storeVars =>
        [\A r \in Requests :
            (req[r].pc = "commit" /\ req'[r].pc = "ok" /\ req[r].alone
               /\ req[r].kind \in {"write", "end"}
               /\ req[r].policy # None /\ req[r].policy.records # None)
            => Cardinality({m \in records' : m.scope = req[r].scope})
                 <= req[r].policy.records - 1 + Cardinality(req[r].tx.inserted)]_recordVars
  BY QuotaOfCommit
<1> QED
  BY <1>1, RecordsInvariance, PTL DEF StoreSpec, QuotaKept

\* What goes has expired.
LEMMA OnlyExpiredGoes ==
    ASSUME RecordsInv, [StoreNext]_storeVars, NEW m \in records \ records'
    PROVE  ~Live(m, now)
<1>1. PICK r \in Requests : req[r].pc = "commit" /\ records' = Committed(req[r].tx)
  BY RecordsOfCommit
<1>2. m \in req[r].tx.deleted
  BY <1>1 DEF Committed
<1>3. GoodTx(req[r].tx, req[r].kind, now) /\ now \in Nat
  BY DEF RecordsInv, GoodRecordRequest, TablesGood
<1>4. m.expires \in Nat /\ Expired(m, now)
  BY <1>2, <1>3 DEF GoodTx
<1> QED
  BY <1>3, <1>4 DEF Expired, Live

\* A cleanup nothing overtook leaves nothing that had expired when it began.
LEMMA SweptWhole ==
    ASSUME RecordsInv, [StoreNext]_storeVars, NEW r \in Requests,
           req[r].pc = "commit", req'[r].pc = "ok", req[r].alone, req[r].kind = "cleanup",
           NEW m \in records'
    PROVE  ~Expired(m, req[r].began)
<1>1. CommitRecords(r) \/ CommitSession(r)
  BY CommitEnds
<1>2. records' = Committed(req[r].tx)
  BY <1>1 DEF CommitRecords, CommitSession
<1>3. SweptOnce(req[r], records) /\ req[r].tx.inserted = {}
  BY DEF RecordsInv, GoodRecordRequest, GoodTx
<1>4. m \in records /\ m \notin req[r].tx.deleted
  BY <1>2, <1>3 DEF Committed
<1> QED
  BY <1>3, <1>4 DEF SweptOnce

\* run_full_cleanup takes what has expired and nothing else, whichever requests
\* write and delete beside it.
THEOREM CleanupTakesExactly == StoreSpec => CleanupExact
<1>1. RecordsInv /\ [StoreNext]_storeVars =>
        [/\ \A m \in records \ records' : ~Live(m, now)
         /\ \A r \in Requests :
               (req[r].pc = "commit" /\ req'[r].pc = "ok" /\ req[r].alone
                  /\ req[r].kind = "cleanup")
               => \A m \in records' : ~Expired(m, req[r].began)]_recordVars
  BY OnlyExpiredGoes, SweptWhole
<1> QED
  BY <1>1, RecordsInvariance, PTL DEF StoreSpec, CleanupExact

-----------------------------------------------------------------------------
(* Lists of entries.                                                       *)

LEMMA Shifted ==
    ASSUME NEW a \in Nat, NEW b \in Nat, NEW i \in Nat
    PROVE  (a + 1) - b + i = a - b + (i + 1)
OBVIOUS

LEMMA BelowOrAt ==
    ASSUME NEW m \in Nat, NEW i \in 1..m
    PROVE  i \in Nat /\ (i < m \/ i = m)
OBVIOUS

\* h is the end of all that was pushed, as long as the list may be.
EndOf(h, all) ==
    /\ Len(h) = IF Len(all) < MaxEntries THEN Len(all) ELSE MaxEntries
    /\ \A i \in DOMAIN h : h[i] = all[Len(all) - Len(h) + i]

\* Trimming what was pushed keeps a list the end of all that was pushed.
LEMMA PushKeepsEnd ==
    ASSUME NEW h \in Seq(Entry), NEW all \in Seq(Entry), NEW e \in Entry, EndOf(h, all)
    PROVE  /\ Trimmed(Append(h, e)) \in Seq(Entry) /\ Append(all, e) \in Seq(Entry)
           /\ Len(Trimmed(Append(h, e))) <= MaxEntries
           /\ EndOf(Trimmed(Append(h, e)), Append(all, e))
<1> USE DEF EndOf
<1> PICK g, more : g = Trimmed(Append(h, e)) /\ more = Append(all, e)
  OBVIOUS
<1> SUFFICES /\ g \in Seq(Entry) /\ more \in Seq(Entry) /\ Len(g) <= MaxEntries
             /\ Len(g) = IF Len(more) < MaxEntries THEN Len(more) ELSE MaxEntries
             /\ \A i \in DOMAIN g : g[i] = more[Len(more) - Len(g) + i]
  OBVIOUS
<1> DEFINE H == Append(h, e)
<1>1. /\ H \in Seq(Entry) /\ Len(H) = Len(h) + 1
      /\ \A i \in 1..Len(h) : H[i] = h[i]
      /\ H[Len(h) + 1] = e
  OBVIOUS
<1>2. /\ more \in Seq(Entry) /\ Len(more) = Len(all) + 1
      /\ \A i \in 1..Len(all) : more[i] = all[i]
      /\ more[Len(all) + 1] = e
  OBVIOUS
<1>3. MaxEntries \in Nat \ {0}
  BY SessionAssumption
<1>4. Len(h) \in Nat /\ Len(all) \in Nat /\ DOMAIN h = 1..Len(h)
  OBVIOUS
<1> HIDE DEF H
<1>5. CASE Len(H) <= MaxEntries
  <2>1. g = H /\ Len(h) = Len(all)
    BY <1>1, <1>3, <1>4, <1>5 DEF Trimmed, H
  <2>2. \A i \in 1..Len(H) : H[i] = more[i]
    BY <1>1, <1>2, <1>4, <2>1
  <2>3. DOMAIN g = 1..Len(H) /\ Len(more) - Len(g) = 0
    BY <1>1, <1>2, <1>4, <2>1
  <2>4. \A i \in DOMAIN g : g[i] = more[Len(more) - Len(g) + i]
    BY <2>1, <2>2, <2>3
  <2> QED
    BY <1>1, <1>2, <1>3, <1>4, <1>5, <2>1, <2>4
<1>6. CASE Len(H) > MaxEntries
  <2>1. Len(h) = MaxEntries /\ Len(all) >= MaxEntries
    BY <1>1, <1>3, <1>4, <1>6
  <2>2. g = SubSeq(H, 2, MaxEntries + 1)
    BY <1>1, <1>3, <1>6, <2>1 DEF Trimmed, H
  <2>3. /\ g \in Seq(Entry) /\ Len(g) = MaxEntries
        /\ \A i \in 1..MaxEntries : g[i] = H[i + 1]
    BY <1>1, <1>3, <2>1, <2>2
  <2>4. DOMAIN g = 1..MaxEntries
    BY <2>3
  <2>5. ASSUME NEW i \in 1..MaxEntries
        PROVE  g[i] = more[Len(more) - Len(g) + i]
    <3>0. i \in Nat /\ (i < MaxEntries \/ i = MaxEntries)
      BY <1>3, BelowOrAt
    <3>1. CASE i < MaxEntries
      <4> DEFINE k == Len(all) - Len(h) + (i + 1)
      <4>1. i + 1 \in 1..Len(h)
        BY <1>3, <2>1, <3>1
      <4>2. g[i] = all[k]
        BY <1>1, <1>4, <2>3, <4>1
      <4>3. k \in 1..Len(all)
        BY <1>3, <1>4, <2>1, <4>1
      <4>4. Len(more) - Len(g) + i = k
        <5>1. Len(more) - Len(g) = Len(all) + 1 - Len(h)
          BY <1>2, <2>1, <2>3
        <5>2. (Len(all) + 1) - Len(h) + i = k
          BY <1>4, <3>0, Shifted
        <5> QED
          BY <5>1, <5>2
      <4> HIDE DEF k
      <4>5. more[k] = all[k]
        BY <1>2, <4>3
      <4> QED
        BY <4>2, <4>4, <4>5
    <3>2. CASE i = MaxEntries
      <4>1. g[i] = e
        BY <1>1, <1>3, <2>1, <2>3, <3>2
      <4>2. Len(more) - Len(g) + i = Len(all) + 1
        BY <1>2, <1>3, <1>4, <2>3, <3>2
      <4> QED
        BY <1>2, <4>1, <4>2
    <3> QED
      BY <3>0, <3>1, <3>2
  <2>6. Len(more) = Len(all) + 1 /\ ~(Len(more) < MaxEntries)
    BY <1>2, <1>3, <1>4, <2>1
  <2>7. \A i \in DOMAIN g : g[i] = more[Len(more) - Len(g) + i]
    BY <2>4, <2>5
  <2> QED
    BY <1>2, <2>3, <2>6, <2>7
<1>7. Len(H) <= MaxEntries \/ Len(H) > MaxEntries
  BY <1>1, <1>3, <1>4
<1> QED
  BY <1>5, <1>6, <1>7

\* What a push adds to the entries, and to the messages among them.
LEMMA TrimmedEntries ==
    ASSUME NEW h \in Seq(Entry), NEW e \in Entry
    PROVE  Entries(Trimmed(Append(h, e))) \subseteq Entries(h) \cup {e}
<1> DEFINE H == Append(h, e)
           g == Trimmed(H)
<1>1. /\ H \in Seq(Entry) /\ Len(H) = Len(h) + 1 /\ Len(h) \in Nat
      /\ \A i \in 1..Len(h) : H[i] = h[i]
      /\ H[Len(h) + 1] = e
  OBVIOUS
<1>2. MaxEntries \in Nat \ {0}
  BY SessionAssumption
<1>3. \A i \in DOMAIN H : H[i] \in Entries(h) \cup {e}
  <2> TAKE i \in DOMAIN H
  <2>1. i \in 1..Len(h) \/ i = Len(h) + 1
    BY <1>1
  <2> QED
    BY <1>1, <2>1 DEF Entries
<1> HIDE DEF H
<1>4. \A i \in DOMAIN g : \E j \in DOMAIN H : g[i] = H[j]
  <2>1. CASE Len(H) <= MaxEntries
    BY <2>1 DEF Trimmed
  <2>2. CASE ~(Len(H) <= MaxEntries)
    <3> DEFINE k == Len(H) - MaxEntries
    <3>1. k \in Nat /\ k + 1 \in 1..Len(H) /\ g = SubSeq(H, k + 1, Len(H))
      BY <1>1, <1>2, <2>2 DEF Trimmed
    <3>2. Len(H) \in Nat /\ DOMAIN H = 1..Len(H)
      BY <1>1
    <3> HIDE DEF k, g
    <3>3. DOMAIN g = 1..(Len(H) - k) /\ \A i \in 1..(Len(H) - k) : g[i] = H[k + i]
      BY <1>1, <3>1, <3>2
    <3>4. \A i \in 1..(Len(H) - k) : k + i \in DOMAIN H
      BY <3>1, <3>2
    <3> QED
      BY <3>3, <3>4
  <2> QED
    BY <2>1, <2>2
<1> HIDE DEF g
<1>5. Entries(g) \subseteq Entries(h) \cup {e}
  BY <1>3, <1>4 DEF Entries
<1> QED
  BY <1>5 DEF g, H

LEMMA MessagesCounted ==
    ASSUME NEW list \in Seq(Entry)
    PROVE  /\ IsFiniteSet({i \in DOMAIN list : list[i] # "[ENCRYPTED]"})
           /\ Messages(list) \in Nat /\ Messages(list) <= Len(list)
<1>1. Len(list) \in Nat /\ DOMAIN list = 1..Len(list)
  OBVIOUS
<1>2. IsFiniteSet(1..Len(list)) /\ Cardinality(1..Len(list)) = Len(list)
  BY <1>1, FS_Interval
<1>3. {i \in DOMAIN list : list[i] # "[ENCRYPTED]"} \subseteq 1..Len(list)
  BY <1>1
<1>4. /\ IsFiniteSet({i \in DOMAIN list : list[i] # "[ENCRYPTED]"})
      /\ Cardinality({i \in DOMAIN list : list[i] # "[ENCRYPTED]"}) <= Cardinality(1..Len(list))
  BY <1>2, <1>3, FS_Subset
<1>5. Cardinality({i \in DOMAIN list : list[i] # "[ENCRYPTED]"}) \in Nat
  BY <1>4, FS_CardinalityType
<1> QED
  BY <1>2, <1>4, <1>5 DEF Messages

LEMMA NoMessages == Messages(<<>>) = 0
<1>1. {i \in DOMAIN <<>> : <<>>[i] # "[ENCRYPTED]"} = {}
  OBVIOUS
<1>2. Cardinality({}) = 0
  BY FS_EmptySet
<1> QED
  BY <1>1, <1>2 DEF Messages

LEMMA MessagesPushed ==
    ASSUME NEW list \in Seq(Entry), NEW e \in Entry
    PROVE  /\ Messages(Append(list, e)) \in Nat
           /\ Messages(Append(list, e)) <= Messages(list) + 1
           /\ e = "[ENCRYPTED]" => Messages(Append(list, e)) = Messages(list)
<1> DEFINE more == Append(list, e)
           old == {i \in DOMAIN list : list[i] # "[ENCRYPTED]"}
           new == {i \in DOMAIN more : more[i] # "[ENCRYPTED]"}
<1>1. /\ more \in Seq(Entry) /\ Len(more) = Len(list) + 1 /\ Len(list) \in Nat
      /\ DOMAIN list = 1..Len(list) /\ DOMAIN more = 1..(Len(list) + 1)
      /\ \A i \in 1..Len(list) : more[i] = list[i]
      /\ more[Len(list) + 1] = e
  OBVIOUS
<1>2. IsFiniteSet(old) /\ Messages(list) = Cardinality(old) /\ Messages(list) \in Nat
  BY MessagesCounted DEF Messages
<1>3. Messages(more) \in Nat /\ Messages(more) = Cardinality(new)
  BY <1>1, MessagesCounted DEF Messages
<1>4. new = IF e = "[ENCRYPTED]" THEN old ELSE old \cup {Len(list) + 1}
  <2> HIDE DEF more
  <2>1. ASSUME NEW i
        PROVE  i \in new <=> i \in old \/ (i = Len(list) + 1 /\ e # "[ENCRYPTED]")
    <3>1. i \in 1..(Len(list) + 1) <=> i \in 1..Len(list) \/ i = Len(list) + 1
      BY <1>1
    <3>2. Len(list) + 1 \notin 1..Len(list)
      BY <1>1
    <3> QED
      BY <1>1, <3>1, <3>2
  <2> QED
    BY <2>1
<1> HIDE DEF old, new, more
<1>5. CASE e = "[ENCRYPTED]"
  BY <1>2, <1>3, <1>4, <1>5 DEF more
<1>6. CASE e # "[ENCRYPTED]"
  <2>1. Cardinality(old \cup {Len(list) + 1})
          = IF Len(list) + 1 \in old THEN Cardinality(old) ELSE Cardinality(old) + 1
    BY <1>2, FS_AddElement
  <2>2. Cardinality(new) <= Cardinality(old) + 1
    BY <1>2, <1>4, <1>6, <2>1
  <2> QED
    BY <1>2, <1>3, <1>6, <2>2 DEF more
<1> QED
  BY <1>5, <1>6

-----------------------------------------------------------------------------
(* What a step leaves of the requests.                                     *)

\* The requests beside r stay where they are; one may lose being alone.
OthersStand(r) ==
    \A q \in Requests \ {r} :
        /\ req'[q].pc = req[q].pc
        /\ req'[q].kind = req[q].kind
        /\ req'[q].alone => req[q].alone

LEMMA OthersFrame ==
    ASSUME RecordsInv, NEW r \in Requests, Steps(r)
    PROVE  OthersStand(r)
<1>1. ASSUME NEW q \in Requests \ {r}
      PROVE  /\ req'[q].pc = req[q].pc /\ req'[q].kind = req[q].kind
             /\ req'[q].alone => req[q].alone
  <2>1. DOMAIN req = Requests /\ DOMAIN req[q] = RequestFields
    BY DEF RecordsInv, GoodRecordRequest
  <2>2. req'[q] = req[q] \/ req'[q] = [req[q] EXCEPT !.alone = FALSE]
    BY <2>1, OthersStay
  <2>3. CASE req'[q] = [req[q] EXCEPT !.alone = FALSE]
    BY <2>1, <2>3, FieldsOfRequest
  <2> QED
    BY <2>2, <2>3
<1> QED
  BY <1>1 DEF OthersStand

\* What a session's step that goes on to p leaves of its request.
Moved(r, p) ==
    req'[r].pc = p /\ req'[r].kind = req[r].kind /\ req'[r].alone = req[r].alone

LEMMA MovedByGoto ==
    ASSUME RecordsInv, NEW r \in Requests, NEW p, Goto(r, p)
    PROVE  Moved(r, p)
<1>1. DOMAIN req = Requests /\ DOMAIN req[r] = RequestFields
  BY DEF RecordsInv, GoodRecordRequest
<1> QED
  BY <1>1, FieldsOfRequest DEF Goto, Moved

LEMMA MovedByOvertaking ==
    ASSUME RecordsInv, NEW r \in Requests, NEW p, Overtaking(r, [req[r] EXCEPT !.pc = p])
    PROVE  Moved(r, p)
<1>1. DOMAIN req[r] = RequestFields
  BY DEF RecordsInv, GoodRecordRequest
<1>2. req'[r] = [req[r] EXCEPT !.pc = p]
  BY DEF Overtaking
<1> QED
  BY <1>1, <1>2, FieldsOfRequest DEF Moved

\* The steps of the durable memory, seen from the session.
LEMMA RecordMove ==
    ASSUME RecordsInv, NEW r \in Requests, RecordRequest(r) \/ WritePipeline(r)
    PROVE  /\ req[r].pc # "counted"
           /\ req'[r].pc \notin {"new", "refill"}
           /\ req'[r].kind = req[r].kind \/ req[r].pc = "new"
           /\ \/ req'[r].pc \in Ended
              \/ req'[r].kind \in {"write", "cleanup", "upsert"}
              \/ /\ req'[r].kind = "end" /\ req[r].kind = "end"
                 /\ req[r].pc \notin Ended \cup {"snapshot"}
                 /\ req'[r].pc \in {"count", "storage", "prepare", "store", "final"}
<1> DEFINE q == req[r]
           Goal == /\ req[r].pc # "counted"
                   /\ req'[r].pc \notin {"new", "refill"}
                   /\ req'[r].kind = req[r].kind \/ req[r].pc = "new"
                   /\ \/ req'[r].pc \in Ended
                      \/ req'[r].kind \in {"write", "cleanup", "upsert"}
                      \/ /\ req'[r].kind = "end" /\ req[r].kind = "end"
                         /\ req[r].pc \notin Ended \cup {"snapshot"}
                         /\ req'[r].pc \in {"count", "storage", "prepare", "store", "final"}
<1>1. /\ GoodRecordRequest(q, records, now) /\ DOMAIN req = Requests
      /\ DOMAIN q = RequestFields
  BY DEF RecordsInv, GoodRecordRequest
<1>2. q.pc = "new" => q = RecordFields
  BY <1>1 DEF GoodRecordRequest
<1>3. ASSUME NEW pc \in {"ok", "refused", "failed"}, req'[r] = Over(r, pc), q.pc # "counted"
      PROVE  Goal
  <2>0. Over(r, pc).pc = pc /\ Over(r, pc).kind = req[r].kind
    BY OverIs
  <2>1. req'[r].pc = pc /\ req'[r].kind = q.kind
    BY <1>3, <2>0
  <2> QED
    BY <1>3, <2>1, PhasesAre
<1>4. CASE WriteMemory(r)
  <2>1. PICK text, scope, pc : /\ pc \in {"refused", "policy"}
           /\ req' = [req EXCEPT ![r] = [Begun(r, "write", pc) EXCEPT !.text = text,
                                                                     !.scope = scope]]
    BY <1>4 DEF WriteMemory
  <2>2. req'[r] = [Begun(r, "write", pc) EXCEPT !.text = text, !.scope = scope]
    BY <1>1, <2>1
  <2>3. req'[r].pc = pc /\ req'[r].kind = "write" /\ q.pc = "new"
    BY <1>1, <1>4, <2>2, FieldsOfRequest DEF Begun, WriteMemory
  <2> QED
    BY <2>1, <2>3
<1>5. CASE SearchMemory(r) \/ ListRecords(r) \/ GetRecord(r) \/ DeleteRecord(r)
  <2>1. PICK served : Answer(r, served)
    BY <1>5 DEF SearchMemory, ListRecords, GetRecord, DeleteRecord
  <2>2. q.pc = "new" /\ req'[r] = [Over(r, "ok") EXCEPT !.served = served]
    BY <1>1, <2>1 DEF Answer
  <2>3. Over(r, "ok").pc = "ok" /\ Over(r, "ok").kind = q.kind
        /\ DOMAIN Over(r, "ok") = RequestFields
    BY OverIs
  <2>4. req'[r].pc = "ok" /\ req'[r].kind = q.kind
    BY <2>2, <2>3
  <2> QED
    BY <2>2, <2>4, PhasesAre
<1>6. CASE GetMemoryStats(r)
  <2>1. Moved(r, "refused") /\ q.pc = "new"
    BY <1>6, MovedByGoto DEF GetMemoryStats
  <2> QED
    BY <2>1, PhasesAre DEF Moved
<1>7. CASE RunFullCleanup(r)
  <2>1. req'[r] = [Begun(r, "cleanup", "expired") EXCEPT !.rounds = 2 * Len(Scopes)]
        /\ q.pc = "new"
    BY <1>1, <1>7 DEF RunFullCleanup
  <2>2. req'[r].pc = "expired" /\ req'[r].kind = "cleanup"
    BY <1>1, <2>1, FieldsOfRequest DEF Begun
  <2> QED
    BY <2>1, <2>2
<1>8. CASE CleanupExpired(r) \/ EnforceRetention(r)
  <2>1. PICK d : NextRound(r, d) /\ q.pc = "expired"
    BY <1>8 DEF CleanupExpired, EnforceRetention
  <2>2. q.kind = "cleanup"
    BY <1>1, <2>1, SweepersOnly
  <2>3. req'[r] = [q EXCEPT !.rounds = @ - 1, !.tx.deleted = @ \cup d,
                            !.pc = IF q.rounds = 1 THEN "quotas" ELSE @]
    BY <1>1, <2>1 DEF NextRound
  <2>4. req'[r].pc \in {"quotas", "expired"} /\ req'[r].kind = "cleanup"
    BY <1>1, <2>1, <2>2, <2>3, FieldsOfRequest
  <2> QED
    BY <2>1, <2>2, <2>4
<1>9. CASE EnforceQuotas(r)
  <2>1. q.pc = "quotas"
    BY <1>9 DEF EnforceQuotas
  <2>2. PICK over : req' = [req EXCEPT ![r].over = over, ![r].pc = "commit"]
    BY <1>9 DEF EnforceQuotas
  <2>3. req'[r] = [q EXCEPT !.over = over, !.pc = "commit"]
    BY <1>1, <2>2
  <2>4. req'[r].pc = "commit" /\ req'[r].kind = q.kind /\ q.kind = "cleanup"
    BY <1>1, <2>1, <2>3, FieldsOfRequest, SweepersOnly
  <2> QED
    BY <2>1, <2>4
<1>10. CASE Upsert(r)
  <2>1. PICK scope, p : req' = [req EXCEPT ![r] = [Begun(r, "upsert", "commit")
                           EXCEPT !.scope = scope, !.policy = policies[scope], !.tx.policy = p]]
    BY <1>10 DEF Upsert
  <2>2. req'[r] = [Begun(r, "upsert", "commit")
                     EXCEPT !.scope = scope, !.policy = policies[scope], !.tx.policy = p]
    BY <1>1, <2>1
  <2>3. req'[r].pc = "commit" /\ req'[r].kind = "upsert" /\ q.pc = "new"
    BY <1>1, <1>10, <2>2, FieldsOfRequest DEF Begun, Upsert
  <2> QED
    BY <2>3
<1>11. CASE CommitRecords(r) \/ RollbackRecords(r) \/ CleanupFails(r) \/ StoreFails(r)
  <2>1. PICK pc \in {"ok", "failed"} : req'[r] = Over(r, pc)
    BY <1>1, <1>11 DEF CommitRecords, RollbackRecords, CleanupFails, StoreFails, Overtaking
  <2>2. q.pc # "counted"
    BY <1>11 DEF CommitRecords, RollbackRecords, CleanupFails, StoreFails
  <2> QED
    BY <1>3, <2>1, <2>2
<1>12. CASE GetPolicy(r) \/ CountRecords(r) \/ CheckQuota(r) \/ Prepare(r) \/ StoreChunk(r)
  <2>1. q.pc \in {"policy", "count", "storage", "prepare", "store"}
    BY <1>12 DEF GetPolicy, CountRecords, CheckQuota, Prepare, StoreChunk
  <2>2. q.kind \in {"write", "end"}
    BY <1>1, <2>1, WritersOnly
  <2> DEFINE After == req'[r].kind = q.kind
                        /\ \/ req'[r].pc \in {"failed", "count", "storage", "prepare", "store"}
                           \/ req'[r].pc = AfterWrite(r)
  <2>8. After
    <3>3. CASE GetPolicy(r)
      <4>1. req'[r] = [q EXCEPT !.policy = policies[q.scope],
                                !.pc = IF policies[q.scope] = None THEN "prepare" ELSE "count"]
        BY <1>1, <3>3 DEF GetPolicy
      <4> QED
        BY <1>1, <4>1, FieldsOfRequest
    <3>4. CASE CountRecords(r)
      <4>1. req'[r] = [q EXCEPT !.count = CountByTenant(q.tx, q.scope), !.pc = "storage"]
        BY <1>1, <3>4 DEF CountRecords
      <4> QED
        BY <1>1, <4>1, FieldsOfRequest
    <3>5. CASE CheckQuota(r)
      <4>1. \/ req'[r] = Over(r, "failed")
            \/ req'[r] = [q EXCEPT !.pc = "prepare"]
        BY <1>1, <3>5 DEF CheckQuota
      <4>2. Over(r, "failed").pc = "failed" /\ Over(r, "failed").kind = q.kind
        BY OverIs
      <4> QED
        BY <1>1, <4>1, <4>2, FieldsOfRequest
    <3>6. CASE Prepare(r)
      <4> DEFINE text == Processed(q.text)
                 pc == IF Chunks(text) = <<>> THEN AfterWrite(r) ELSE "store"
      <4>1. req'[r] = [q EXCEPT !.text = text, !.chunks = Chunks(text),
                         !.found = FoundIn(q.text),
                         !.label = Classified(q.text).label,
                         !.expires = Expiry(policies[q.scope], q.scope, now), !.pc = pc]
        BY <1>1, <3>6 DEF Prepare
      <4>2. pc \in {AfterWrite(r), "store"}
        OBVIOUS
      <4> HIDE DEF text, pc
      <4>3. req'[r].pc = pc /\ req'[r].kind = q.kind
        BY <1>1, <4>1, FieldsOfRequest
      <4> QED
        BY <4>2, <4>3
    <3>7. CASE StoreChunk(r)
      <4> DEFINE m == NewRecord(r, Head(q.chunks))
                 tx == [q.tx EXCEPT !.inserted = @ \cup {m}, !.events = WithEvent(q.tx, m)]
                 pc == IF Tail(q.chunks) = <<>> THEN AfterWrite(r) ELSE q.pc
      <4>1. req'[r] = [q EXCEPT !.chunks = Tail(@), !.tx = tx, !.pc = pc]
        BY <1>1, <3>7 DEF StoreChunk
      <4>2. pc \in {AfterWrite(r), q.pc} /\ q.pc = "store"
        BY <3>7 DEF StoreChunk
      <4> HIDE DEF tx, pc
      <4>3. req'[r].pc = pc /\ req'[r].kind = q.kind
        BY <1>1, <4>1, FieldsOfRequest
      <4> QED
        BY <4>2, <4>3
    <3> QED
      BY <1>12, <3>3, <3>4, <3>5, <3>6, <3>7
  <2>9. AfterWrite(r) = IF q.kind = "end" THEN "final" ELSE "commit"
    BY DEF AfterWrite
  <2>10. req'[r].pc \in {"failed", "count", "storage", "prepare", "store", "final"}
         \/ req'[r].kind = "write"
    BY <2>2, <2>8, <2>9
  <2>11. req'[r].pc \notin {"new", "refill"} /\ req'[r].kind = q.kind
    BY <2>8, <2>9
  <2> HIDE DEF q
  <2> QED
    BY <2>1, <2>2, <2>10, <2>11, PhasesAre DEF q
<1> QED
  BY <1>4, <1>5, <1>6, <1>7, <1>8, <1>9, <1>10, <1>11, <1>12 DEF RecordRequest, WritePipeline

-----------------------------------------------------------------------------
(* The keys, the list and the rows.                                        *)

LEMMA EntriesAre ==
    /\ "first" \in Entry /\ "[ENCRYPTED]" \in Entry /\ Requests \subseteq Entry
    /\ \A r \in Requests : r # "[ENCRYPTED]"
BY SessionAssumption DEF Entry

LEMMA EntriesTyped ==
    ASSUME NEW list \in Seq(Entry)
    PROVE  Entries(list) \subseteq Entry
BY DEF Entries

LEMMA CountUpdate ==
    ASSUME NEW s \in Session, NEW c \in Nat, NEW z, z = [s EXCEPT !.count = c]
    PROVE  z \in Session /\ z.row = s.row /\ z.count = c /\ z.refill = s.refill
           /\ z.keys = s.keys /\ z.snapshot = s.snapshot /\ z.late = s.late
BY DEF Session

LEMMA RefillUpdate ==
    ASSUME NEW s \in Session, NEW k \in Nat, NEW z, z = [s EXCEPT !.refill = k]
    PROVE  z \in Session /\ z.row = s.row /\ z.count = s.count /\ z.refill = k
           /\ z.keys = s.keys /\ z.snapshot = s.snapshot /\ z.late = s.late
BY DEF Session

LEMMA SnapshotUpdate ==
    ASSUME NEW s \in Session, NEW list \in Seq(Entry),
           NEW z, z = [s EXCEPT !.snapshot = list, !.late = {}]
    PROVE  z \in Session /\ z.row = s.row /\ z.count = s.count /\ z.refill = s.refill
           /\ z.keys = s.keys /\ z.snapshot = list /\ z.late = {}
BY DEF Session

LEMMA KeysUpdate ==
    ASSUME NEW s \in Session, NEW keys \in SUBSET {"history", "meta"},
           NEW z, z = [s EXCEPT !.keys = keys]
    PROVE  z \in Session /\ z.row = s.row /\ z.count = s.count /\ z.refill = s.refill
           /\ z.keys = keys /\ z.snapshot = s.snapshot /\ z.late = s.late
BY DEF Session

LEMMA LateUpdate ==
    ASSUME NEW s \in Session, NEW e \in Entry, NEW z, z = [s EXCEPT !.late = @ \cup {e}]
    PROVE  z \in Session /\ z.row = s.row /\ z.count = s.count /\ z.refill = s.refill
           /\ z.keys = s.keys /\ z.snapshot = s.snapshot /\ z.late = s.late \cup {e}
BY DEF Session

LEMMA RowUpdate ==
    ASSUME NEW s \in Session, NEW row \in [op : {"none", "insert", "delete"}, count : Nat],
           NEW z, z = [s EXCEPT !.row = row]
    PROVE  z \in Session /\ z.row = row /\ z.count = s.count /\ z.refill = s.refill
           /\ z.keys = s.keys /\ z.snapshot = s.snapshot /\ z.late = s.late
BY DEF Session

LEMMA CallTyped ==
    ASSUME SessionTypeOK, NEW ok \in BOOLEAN, Call(ok)
    PROVE  faults' \in 0..MaxFaults /\ (faults' = 0 => ok /\ faults = 0)
<1>1. MaxFaults \in Nat /\ faults \in 0..MaxFaults
  BY SessionAssumption DEF SessionTypeOK
<1> QED
  BY <1>1 DEF Call

\* A step that moves one request, and disturbs nobody's row.
LEMMA BasicKeeps ==
    ASSUME SessionBasic, NEW r \in Requests, OthersStand(r),
           SessionTypeOK', log' \in Seq(Entry), RecentKept', raced' = raced,
           \A q \in Requests \ {r} : ses'[q].row = ses[q].row /\ ses'[q].refill = ses[q].refill,
           \/ summary' = summary
           \/ \A q \in Requests \ {r} : ses[q].row = NoRow,
           Underway(req[r])' => Underway(req[r]),
           GoodSession(req[r], ses[r])',
           ses'[r].row # NoRow => \/ ses[r].row # NoRow
                                  \/ \A q \in Requests \ {r} : ses[q].row = NoRow
    PROVE  SessionBasic'
<1>1. \A q \in Requests : GoodSession(req[q], ses[q])'
  <2> TAKE q \in Requests
  <2>1. CASE q = r
    BY <2>1
  <2>2. CASE q # r
    <3>1. GoodSession(req[q], ses[q])
      BY DEF SessionBasic
    <3>2. /\ req'[q].pc = req[q].pc /\ req'[q].kind = req[q].kind
          /\ ses'[q].row = ses[q].row /\ ses'[q].refill = ses[q].refill
      BY <2>2 DEF OthersStand
    <3>3. CASE summary' = summary
      BY <3>1, <3>2, <3>3 DEF GoodSession
    <3>4. CASE ses[q].row = NoRow
      BY <3>1, <3>2, <3>4 DEF GoodSession, NoRow
    <3> QED
      BY <2>2, <3>3, <3>4
  <2> QED
    BY <2>1, <2>2
<1>2. ASSUME NEW p \in Requests, NEW q \in Requests, ses'[p].row # NoRow, ses'[q].row # NoRow
      PROVE  p = q
  <2>1. \A u, v \in Requests : ses[u].row # NoRow /\ ses[v].row # NoRow => u = v
    BY DEF SessionBasic
  <2>2. CASE p # r /\ q # r
    BY <1>2, <2>1, <2>2
  <2>3. CASE p = r /\ q # r
    BY <1>2, <2>1, <2>3
  <2>4. CASE p # r /\ q = r
    BY <1>2, <2>1, <2>4
  <2> QED
    BY <2>2, <2>3, <2>4
<1>3. ASSUME ~raced', NEW p \in Requests, NEW q \in Requests,
             Underway(req[p])', Underway(req[q])'
      PROVE  p = q
  <2>1. \A u \in Requests : Underway(req[u])' => Underway(req[u])
    <3> TAKE u \in Requests
    <3>1. CASE u # r
      BY <3>1 DEF OthersStand, Underway
    <3> QED
      BY <3>1
  <2>2. \A u, v \in Requests : Underway(req[u]) /\ Underway(req[v]) => u = v
    BY <1>3 DEF SessionBasic
  <2> QED
    BY <1>3, <2>1, <2>2
<1> QED
  BY <1>1, <1>2, <1>3 DEF SessionBasic

\* The steps that read: they change what their own request keeps.
LEMMA BasicRead ==
    ASSUME SessionBasic, NEW r \in Requests, OthersStand(r), NEW p, Moved(r, p),
           NEW s \in Session, ses' = [ses EXCEPT ![r] = s], s.row = ses[r].row,
           p # "new", p = "refill" => s.refill # 0, p \in Ended \/ req[r].pc \notin Ended,
           UNCHANGED <<history, meta, summary, log, lost, raced>>, faults' \in 0..MaxFaults
    PROVE  SessionBasic'
<1>1. SessionTypeOK /\ ses \in [Requests -> Session] /\ GoodSession(req[r], ses[r])
  BY DEF SessionBasic, SessionTypeOK
<1>2. ses' \in [Requests -> Session] /\ ses'[r] = s
      /\ \A q \in Requests \ {r} : ses'[q] = ses[q]
  BY <1>1
<1>3. SessionTypeOK'
  BY <1>1, <1>2 DEF SessionTypeOK
<1>4. log' \in Seq(Entry) /\ RecentKept'
  BY DEF SessionBasic, RecentKept
<1>5. Underway(req[r])' => Underway(req[r])
  BY DEF Moved, Underway
<1>6. GoodSession(req[r], ses[r])'
  BY <1>1, <1>2 DEF GoodSession, Moved
<1>7. \A q \in Requests \ {r} : ses'[q].row = ses[q].row /\ ses'[q].refill = ses[q].refill
  BY <1>2
<1>8. ses'[r].row # NoRow => ses[r].row # NoRow
  BY <1>2
<1> QED
  BY <1>3, <1>4, <1>5, <1>6, <1>7, <1>8, BasicKeeps

\* The steps that write the keys: every request keeps its row.
LEMMA BasicWrite ==
    ASSUME SessionBasic, NEW r \in Requests, OthersStand(r), NEW p, Moved(r, p),
           SessionTypeOK', log' \in Seq(Entry), RecentKept', raced' = raced, summary' = summary,
           \A q \in Requests : ses'[q].row = ses[q].row,
           \A q \in Requests \ {r} : ses'[q].refill = ses[q].refill,
           p # "new", p = "refill" => ses'[r].refill # 0, p \in Ended \/ req[r].pc \notin Ended
    PROVE  SessionBasic'
<1>1. GoodSession(req[r], ses[r])
  BY DEF SessionBasic
<1>2. Underway(req[r])' => Underway(req[r])
  BY DEF Moved, Underway
<1>3. GoodSession(req[r], ses[r])'
  BY <1>1 DEF GoodSession, Moved
<1> QED
  BY <1>2, <1>3, BasicKeeps

LEMMA BasicGot ==
    ASSUME SessionBasic, RecordsInv, NEW r \in Requests, OthersStand(r), NEW count \in Nat, NEW p,
           p \notin {"new", "refill"}, req[r].pc \notin Ended, Got(r, count, p),
           faults' \in 0..MaxFaults
    PROVE  SessionBasic'
<1> DEFINE s == [ses[r] EXCEPT !.count = count]
<1>1. ses[r] \in Session /\ ses \in [Requests -> Session]
  BY DEF SessionBasic, SessionTypeOK
<1>2. s \in Session /\ s.row = ses[r].row
  BY <1>1, CountUpdate
<1>3. ses' = [ses EXCEPT ![r] = s]
  BY <1>1 DEF Got
<1>4. Moved(r, p)
  BY MovedByGoto DEF Got
<1> HIDE DEF s
<1> QED
  BY <1>2, <1>3, <1>4, BasicRead DEF Got, SessionUnchanged

LEMMA BasicGets ==
    ASSUME SessionBasic, RecordsInv, NEW r \in Requests, OthersStand(r),
           GetMeta(r) \/ GetBySessionId(r) \/ Exists(r) \/ RecentHistory(r)
    PROVE  SessionBasic'
<1>1. SessionTypeOK /\ meta \in Nat \cup {None} /\ summary \in Nat \cup {None}
  BY DEF SessionBasic, SessionTypeOK
<1>2. CASE GetMeta(r)
  <2>1. PICK ok \in BOOLEAN, count \in Nat, p \in {"append", "lookup"} :
            Call(ok) /\ Got(r, count, p)
    BY <1>1, <1>2 DEF GetMeta
  <2>2. faults' \in 0..MaxFaults
    BY <1>1, <2>1, CallTyped
  <2> QED
    BY <1>2, <2>1, <2>2, BasicGot, PhasesAre DEF GetMeta
<1>3. CASE GetBySessionId(r)
  <2>1. PICK count \in Nat, p \in {"restore", "exists"} : Got(r, count, p)
    BY <1>1, <1>3 DEF GetBySessionId
  <2>2. faults' \in 0..MaxFaults
    BY <1>1, <1>3 DEF GetBySessionId, SessionTypeOK
  <2> QED
    BY <1>3, <2>1, <2>2, BasicGot, PhasesAre DEF GetBySessionId
<1>4. CASE Exists(r)
  <2>1. PICK ok \in BOOLEAN, count \in Nat, p \in {WithMeta(r), "create"} :
            Call(ok) /\ Got(r, count, p)
    BY <1>1, <1>4 DEF Exists
  <2>2. faults' \in 0..MaxFaults
    BY <1>1, <2>1, CallTyped
  <2>3. p \in {"ok", "append", "create"}
    BY <2>1 DEF WithMeta
  <2> QED
    BY <1>4, <2>1, <2>2, <2>3, BasicGot, PhasesAre DEF Exists
<1>5. CASE RecentHistory(r)
  <2>1. PICK ok \in BOOLEAN, p \in {"ok", "search"} : Call(ok) /\ Got(r, 0, p)
    BY <1>5 DEF RecentHistory
  <2>2. faults' \in 0..MaxFaults
    BY <1>1, <2>1, CallTyped
  <2> QED
    BY <1>5, <2>1, <2>2, BasicGot, PhasesAre DEF RecentHistory
<1> QED
  BY <1>2, <1>3, <1>4, <1>5

\* What a search finds is finite, and something if it is not nothing.
LEMMA FoundFinite ==
    ASSUME RecordsInv, NEW found \in SearchByVector(NoTx, "session", ResultLimit)
    PROVE  Cardinality(found) \in Nat /\ (found # {} => Cardinality(found) # 0)
<1>1. found \subseteq records
  BY DEF SearchByVector, Visible, NoTx
<1>2. IsFiniteSet(found)
  BY <1>1, FS_Subset DEF RecordsInv, TablesGood
<1>3. Cardinality(found) \in Nat /\ (Cardinality(found) = 0 <=> found = {})
  BY <1>2, FS_CardinalityType, FS_EmptySet
<1> QED
  BY <1>3

LEMMA BasicReads ==
    ASSUME SessionBasic, RecordsInv, NEW r \in Requests, OthersStand(r),
           SearchConversation(r) \/ GetFullHistory(r) \/ ScanKeys(r) \/ ListSessions(r)
    PROVE  SessionBasic'
<1>1. /\ SessionTypeOK /\ ses \in [Requests -> Session] /\ ses[r] \in Session
      /\ history \in Seq(Entry) /\ faults \in 0..MaxFaults
  BY DEF SessionBasic, SessionTypeOK
<1>2. CASE SearchConversation(r)
  <2>1. PICK found :
            /\ found \in SearchByVector(NoTx, "session", ResultLimit)
            /\ ses' = [ses EXCEPT ![r].refill = Cardinality(found)]
            /\ Goto(r, IF found = {} THEN "ok" ELSE "refill")
    BY <1>2 DEF SearchConversation
  <2> PICK s : s = [ses[r] EXCEPT !.refill = Cardinality(found)]
    OBVIOUS
  <2> PICK p : p = IF found = {} THEN "ok" ELSE "refill"
    OBVIOUS
  <2>2. Cardinality(found) \in Nat /\ (found # {} => Cardinality(found) # 0)
    BY <2>1, FoundFinite
  <2>3. s \in Session /\ s.row = ses[r].row /\ s.refill = Cardinality(found)
    BY <1>1, <2>2, RefillUpdate
  <2>4. ses' = [ses EXCEPT ![r] = s]
    BY <1>1, <2>1
  <2>5. Moved(r, p)
    BY <2>1, MovedByGoto
  <2>6. p # "new"
    OBVIOUS
  <2>8. p = "refill" => s.refill # 0
    BY <2>2, <2>3
  <2>7. UNCHANGED <<history, meta, summary, log, lost, raced>> /\ faults' \in 0..MaxFaults
    BY <1>1, <1>2 DEF SearchConversation, SessionUnchanged
  <2>9. req[r].pc \notin Ended
    BY <1>2, PhasesAre DEF SearchConversation
  <2>10. s \in Session /\ s.row = ses[r].row
    BY <2>3
  <2> QED
    BY <2>4, <2>5, <2>6, <2>7, <2>8, <2>9, <2>10, BasicRead
<1>3. CASE GetFullHistory(r)
  <2>1. PICK ok, list, p :
            /\ ok \in BOOLEAN /\ list \in Seq(Entry) /\ p \in {"final", "insert"}
            /\ Call(ok) /\ Goto(r, p)
            /\ ses' = [ses EXCEPT ![r].snapshot = list, ![r].late = {}]
    <3>1. PICK ok \in BOOLEAN :
              LET entries == IF ok THEN Snapshot(history) ELSE <<>>
              IN /\ Call(ok)
                 /\ ses' = [ses EXCEPT ![r].snapshot = entries, ![r].late = {}]
                 /\ Goto(r, IF entries = <<>> THEN "final" ELSE "insert")
      BY <1>3 DEF GetFullHistory
    <3> DEFINE list == IF ok THEN Snapshot(history) ELSE <<>>
    <3>2. list \in Seq(Entry)
      BY <1>1 DEF Snapshot
    <3>3. ses' = [ses EXCEPT ![r].snapshot = list, ![r].late = {}]
          /\ Goto(r, IF list = <<>> THEN "final" ELSE "insert")
      BY <3>1
    <3> HIDE DEF list
    <3> QED
      BY <3>1, <3>2, <3>3
  <2> PICK s : s = [ses[r] EXCEPT !.snapshot = list, !.late = {}]
    OBVIOUS
  <2>7. ses[r] \in Session /\ list \in Seq(Entry)
    BY <1>1, <2>1
  <2>2. s \in Session /\ s.row = ses[r].row
    BY <2>7 DEF Session
  <2>3. ses' = [ses EXCEPT ![r] = s]
    BY <1>1, <2>1
  <2>4. Moved(r, p)
    BY <2>1, MovedByGoto
  <2>5. UNCHANGED <<history, meta, summary, log, lost, raced>> /\ faults' \in 0..MaxFaults
        /\ req[r].pc \notin Ended
    BY <1>1, <1>3, <2>1, CallTyped, PhasesAre DEF GetFullHistory, SessionUnchanged
  <2> QED
    BY <2>1, <2>2, <2>3, <2>4, <2>5, BasicRead
<1>4. CASE ScanKeys(r)
  <2>1. PICK ok, keys, p :
            /\ ok \in BOOLEAN /\ keys \in SUBSET {"history", "meta"}
            /\ p \in {"unlink", AfterClear(r)} /\ Call(ok) /\ Goto(r, p)
            /\ ses' = [ses EXCEPT ![r].keys = keys]
    <3>1. PICK ok \in BOOLEAN :
             LET keys == IF ok THEN {k \in {"history", "meta"} :
                                       (k = "history" /\ history # <<>>)
                                         \/ (k = "meta" /\ meta # None)}
                         ELSE {}
             IN /\ Call(ok)
                /\ ses' = [ses EXCEPT ![r].keys = keys]
                /\ Goto(r, IF keys = {} THEN AfterClear(r) ELSE "unlink")
      BY <1>4 DEF ScanKeys
    <3> DEFINE keys == IF ok THEN {k \in {"history", "meta"} :
                                       (k = "history" /\ history # <<>>)
                                         \/ (k = "meta" /\ meta # None)}
                         ELSE {}
    <3>2. keys \in SUBSET {"history", "meta"}
      OBVIOUS
    <3>3. ses' = [ses EXCEPT ![r].keys = keys]
          /\ Goto(r, IF keys = {} THEN AfterClear(r) ELSE "unlink")
      BY <3>1
    <3> HIDE DEF keys
    <3> QED
      BY <3>1, <3>2, <3>3
  <2> PICK s : s = [ses[r] EXCEPT !.keys = keys]
    OBVIOUS
  <2>7. ses[r] \in Session /\ keys \in SUBSET {"history", "meta"}
    BY <1>1, <2>1
  <2>2. s \in Session /\ s.row = ses[r].row
    BY <2>7, KeysUpdate
  <2>3. ses' = [ses EXCEPT ![r] = s]
    BY <1>1, <2>1
  <2>4. Moved(r, p) /\ p \notin {"new", "refill"}
    BY <2>1, MovedByGoto DEF AfterClear
  <2>5. UNCHANGED <<history, meta, summary, log, lost, raced>> /\ faults' \in 0..MaxFaults
        /\ req[r].pc \notin Ended
    BY <1>1, <1>4, <2>1, CallTyped, PhasesAre DEF ScanKeys, SessionUnchanged
  <2> QED
    BY <2>2, <2>3, <2>4, <2>5, BasicRead
<1>5. CASE ListSessions(r)
  <2>1. Moved(r, "refused")
    BY <1>5, MovedByGoto DEF ListSessions
  <2>2. ses' = [ses EXCEPT ![r] = ses[r]]
    BY <1>1, <1>5 DEF ListSessions, sessionVars
  <2>3. UNCHANGED <<history, meta, summary, log, lost, raced>> /\ faults' \in 0..MaxFaults
    BY <1>1, <1>5 DEF ListSessions, sessionVars
  <2> QED
    BY <1>1, <2>1, <2>2, <2>3, BasicRead, PhasesAre
<1> QED
  BY <1>2, <1>3, <1>4, <1>5

LEMMA BasicBegin ==
    ASSUME SessionBasic, RecordsInv, NEW r \in Requests, OthersStand(r), NEW kind, NEW pc,
           pc \notin {"new", "refill"}, Begin(r, kind, pc)
    PROVE  SessionBasic'
<1>1. /\ req[r].pc = "new" /\ UNCHANGED <<history, meta, summary, ses, log, lost, faults>>
      /\ raced' = (raced \/ Active # {})
  BY DEF Begin
<1>2. req'[r].pc = pc
  <2>1. DOMAIN req = Requests /\ DOMAIN req[r] = RequestFields
    BY DEF RecordsInv, GoodRecordRequest
  <2>2. req'[r] = [req[r] EXCEPT !.pc = pc, !.kind = kind, !.began = now]
    BY <2>1 DEF Begin, Begun
  <2> QED
    BY <2>1, <2>2, FieldsOfRequest
<1>3. SessionTypeOK' /\ log' \in Seq(Entry) /\ RecentKept'
  <2>1. raced' \in BOOLEAN
    BY <1>1, Zenon
  <2> QED
    BY <1>1, <2>1 DEF SessionBasic, SessionTypeOK, RecentKept
<1>4. \A q \in Requests : GoodSession(req[q], ses[q])'
  <2> TAKE q \in Requests
  <2>1. GoodSession(req[q], ses[q])
    BY DEF SessionBasic
  <2>2. CASE q = r
    BY <1>1, <1>2, <2>1, <2>2 DEF GoodSession, NoRow
  <2>3. CASE q # r
    BY <1>1, <2>1, <2>3 DEF GoodSession, OthersStand
  <2> QED
    BY <2>2, <2>3
<1>5. ASSUME ~raced', NEW p \in Requests, NEW q \in Requests,
             Underway(req[p])', Underway(req[q])'
      PROVE  p = q
  <2>1. Active = {}
    BY <1>1, <1>5
  <2>2. \A u \in Requests \ {r} : ~Underway(req[u])'
    BY <2>1 DEF Active, OthersStand, Underway
  <2> QED
    BY <1>5, <2>2
<1> QED
  BY <1>1, <1>3, <1>4, <1>5 DEF SessionBasic

LEMMA BasicBegins ==
    ASSUME SessionBasic, RecordsInv, NEW r \in Requests, OthersStand(r),
           \/ StartSession(r) \/ AddToSession(r) \/ GetSessionContext(r)
           \/ EndSession(r) \/ DeleteSession(r)
    PROVE  SessionBasic'
<1>1. PICK kind, pc : pc \notin {"new", "refill"} /\ Begin(r, kind, pc)
  BY DEF StartSession, AddToSession, GetSessionContext, EndSession, DeleteSession
<1> QED
  BY <1>1, BasicBegin

LEMMA NoRowIs == NoRow.op = "none" /\ NoRow \in [op : {"none", "insert", "delete"}, count : Nat]
BY DEF NoRow

LEMMA BasicSetMeta ==
    ASSUME SessionBasic, RecordsInv, NEW r \in Requests, OthersStand(r), NEW count \in Nat, NEW p,
           p \notin {"new", "refill"}, req[r].pc \notin Ended, SetMeta(r, count, p)
    PROVE  SessionBasic'
<1>1. SessionTypeOK
  BY DEF SessionBasic
<1>2. PICK ok \in BOOLEAN : /\ Call(ok) /\ meta' = IF ok THEN count ELSE meta
                            /\ Overtaking(r, [req[r] EXCEPT !.pc = p])
  BY DEF SetMeta
<1>3. UNCHANGED <<history, summary, ses, log, lost, raced>>
  BY DEF SetMeta
<1>4. Moved(r, p)
  BY <1>2, MovedByOvertaking
<1>5. faults' \in 0..MaxFaults
  BY <1>1, <1>2, CallTyped
<1>6. meta' \in Nat \cup {None}
  BY <1>1, <1>2 DEF SessionTypeOK
<1>7. SessionTypeOK'
  BY <1>1, <1>3, <1>5, <1>6 DEF SessionTypeOK
<1>8. log' \in Seq(Entry) /\ RecentKept'
  BY <1>3 DEF SessionBasic, RecentKept
<1> QED
  BY <1>3, <1>4, <1>7, <1>8, BasicWrite

LEMMA BasicCounts ==
    ASSUME SessionBasic, RecordsInv, NEW r \in Requests, OthersStand(r),
           Restore(r) \/ CreateSession(r) \/ SetCount(r)
    PROVE  SessionBasic'
<1>1. ses[r].count \in Nat
  BY DEF SessionBasic, SessionTypeOK, Session
<1>2. CASE Restore(r)
  BY <1>1, <1>2, BasicSetMeta, PhasesAre DEF Restore
<1>3. CASE CreateSession(r)
  BY <1>3, BasicSetMeta, PhasesAre DEF CreateSession, WithMeta
<1>4. CASE SetCount(r)
  <2>1. Counted(ses[r].count) \in Nat
    BY <1>1 DEF Counted
  <2> QED
    BY <1>4, <2>1, BasicSetMeta, PhasesAre DEF SetCount
<1> QED
  BY <1>2, <1>3, <1>4

LEMMA BasicPush ==
    ASSUME SessionBasic, RecordsInv, NEW r \in Requests, OthersStand(r), NEW e \in Entry,
           NEW next \in Session, next.row = ses[r].row, NEW p, Moved(r, p),
           p # "new", p = "refill" => next.refill # 0, req[r].pc \notin Ended,
           Push(r, e, next), UNCHANGED <<meta, summary, lost, raced>>
    PROVE  SessionBasic'
<1>1. /\ SessionTypeOK /\ ses \in [Requests -> Session] /\ RecentKept
      /\ history \in Seq(Entry) /\ log \in Seq(Entry) /\ Len(history) <= MaxEntries
  BY DEF SessionBasic, SessionTypeOK
<1>2. PICK ok : /\ ok \in BOOLEAN /\ Call(ok)
                /\ history' = IF ok THEN Trimmed(Append(history, e)) ELSE history
                /\ log' = IF ok THEN Append(log, e) ELSE log
                /\ ses' = [q \in Requests |->
                             IF q = r THEN next
                             ELSE IF ok THEN [ses[q] EXCEPT !.late = @ \cup {e}] ELSE ses[q]]
  BY DEF Push
<1>3. faults' \in 0..MaxFaults
  BY <1>1, <1>2, CallTyped
<1>4. /\ history' \in Seq(Entry) /\ log' \in Seq(Entry) /\ RecentKept'
      /\ Len(history') <= MaxEntries
  <2>1. CASE ok
    <3>1. history' = Trimmed(Append(history, e)) /\ log' = Append(log, e)
      BY <1>2, <2>1
    <3>2. EndOf(history, log)
      BY <1>1 DEF RecentKept, EndOf
    <3>3. /\ history' \in Seq(Entry) /\ log' \in Seq(Entry) /\ Len(history') <= MaxEntries
          /\ EndOf(Trimmed(Append(history, e)), Append(log, e))
      BY <1>1, <3>1, <3>2, PushKeepsEnd
    <3>4. RecentKept'
      BY <3>1, <3>3 DEF RecentKept, EndOf
    <3> QED
      BY <3>3, <3>4
  <2>2. CASE ~ok
    BY <1>1, <1>2, <2>2 DEF RecentKept
  <2> QED
    BY <2>1, <2>2
<1>5. ASSUME NEW q \in Requests
      PROVE  ses'[q] \in Session /\ ses'[q].row = ses[q].row
             /\ (q # r => ses'[q].refill = ses[q].refill)
  <2>1. CASE q = r
    BY <1>2, <2>1
  <2>2. CASE q # r /\ ok
    <3>1. ses'[q] = [ses[q] EXCEPT !.late = @ \cup {e}]
      BY <1>2, <2>2
    <3>2. PICK z : z = [ses[q] EXCEPT !.late = @ \cup {e}]
      OBVIOUS
    <3>3. ses[q] \in Session
      BY <1>1
    <3>4. z \in Session /\ z.row = ses[q].row /\ z.refill = ses[q].refill
      BY <3>2, <3>3, LateUpdate
    <3> QED
      BY <3>1, <3>2, <3>4
  <2>3. CASE q # r /\ ~ok
    BY <1>1, <1>2, <2>3
  <2> QED
    BY <2>1, <2>2, <2>3
<1>6. ses' \in [Requests -> Session]
  <2>1. DOMAIN ses' = Requests /\ ses' = [q \in Requests |-> ses'[q]]
    BY <1>2
  <2> QED
    BY <1>5, <2>1
<1>7. SessionTypeOK'
  BY <1>1, <1>3, <1>4, <1>6 DEF SessionTypeOK
<1>8. ses'[r] = next
  BY <1>2
<1> QED
  BY <1>4, <1>5, <1>7, <1>8, BasicWrite

LEMMA BasicPushes ==
    ASSUME SessionBasic, RecordsInv, NEW r \in Requests, OthersStand(r),
           AppendToHistory(r) \/ Refill(r)
    PROVE  SessionBasic'
<1>1. ses[r] \in Session /\ GoodSession(req[r], ses[r])
  BY DEF SessionBasic, SessionTypeOK
<1>2. CASE AppendToHistory(r)
  <2>1. /\ Push(r, r, ses[r]) /\ UNCHANGED <<meta, summary, lost, raced>>
        /\ req[r].pc = "append" /\ Overtaking(r, [req[r] EXCEPT !.pc = "counted"])
    BY <1>2 DEF AppendToHistory
  <2>2. Moved(r, "counted")
    BY <2>1, MovedByOvertaking
  <2> QED
    BY <1>1, <2>1, <2>2, BasicPush, EntriesAre, PhasesAre
<1>3. CASE Refill(r)
  <2>1. /\ Push(r, "[ENCRYPTED]", [ses[r] EXCEPT !.refill = @ - 1])
        /\ UNCHANGED <<meta, summary, lost, raced>> /\ req[r].pc = "refill"
        /\ Overtaking(r, [req[r] EXCEPT !.pc = IF ses[r].refill = 1 THEN "ok" ELSE @])
    BY <1>3 DEF Refill
  <2>2. PICK p : p = IF ses[r].refill = 1 THEN "ok" ELSE "refill"
    OBVIOUS
  <2>3. Moved(r, p)
    <3>1. [req[r] EXCEPT !.pc = IF ses[r].refill = 1 THEN "ok" ELSE @] = [req[r] EXCEPT !.pc = p]
      BY <2>1, <2>2
    <3> QED
      BY <2>1, <3>1, MovedByOvertaking
  <2>4. PICK next : next = [ses[r] EXCEPT !.refill = @ - 1]
    OBVIOUS
  <2>5. ses[r].refill \in Nat /\ ses[r].refill # 0
    BY <1>1, <2>1 DEF Session, GoodSession
  <2>6. next = [ses[r] EXCEPT !.refill = ses[r].refill - 1] /\ ses[r].refill - 1 \in Nat
    BY <2>4, <2>5
  <2>7. next \in Session /\ next.row = ses[r].row /\ next.refill = ses[r].refill - 1
    BY <1>1, <2>6, RefillUpdate
  <2>8. p # "new" /\ (p = "refill" => next.refill # 0)
    BY <2>2, <2>5, <2>7
  <2>9. Push(r, "[ENCRYPTED]", next)
    BY <2>1, <2>4
  <2> QED
    BY <2>1, <2>3, <2>7, <2>8, <2>9, BasicPush, EntriesAre, PhasesAre
<1> QED
  BY <1>2, <1>3

LEMMA NothingRecent ==
    ASSUME history' = <<>>, log' = <<>>
    PROVE  RecentKept' /\ history' \in Seq(Entry) /\ log' \in Seq(Entry)
           /\ Len(history') <= MaxEntries
<1>1. MaxEntries \in Nat \ {0}
  BY SessionAssumption
<1> QED
  BY <1>1 DEF RecentKept

\* What the deletion of the keys found leaves.
LEMMA KeysDeleted ==
    ASSUME NEW r \in Requests, DeleteKeys(r)
    PROVE  \/ /\ Call(TRUE)
              /\ \/ "history" \in ses[r].keys /\ history' = <<>> /\ log' = <<>>
                 \/ "history" \notin ses[r].keys /\ UNCHANGED <<history, log>>
              /\ \/ "meta" \in ses[r].keys /\ meta' = None
                 \/ "meta" \notin ses[r].keys /\ meta' = meta
              /\ \/ lost' = lost
                 \/ /\ req[r].kind = "end"
                    /\ lost' = lost \cup (Entries(history)
                                            \ (Entries(ses[r].snapshot) \cup ses[r].late))
           \/ Call(FALSE) /\ UNCHANGED <<history, log, meta, lost>>
<1>1. PICK ok \in BOOLEAN :
          LET dropped == ok /\ "history" \in ses[r].keys
          IN /\ Call(ok)
             /\ history' = IF dropped THEN <<>> ELSE history
             /\ log' = IF dropped THEN <<>> ELSE log
             /\ meta' = IF ok /\ "meta" \in ses[r].keys THEN None ELSE meta
             /\ lost' = IF dropped /\ req[r].kind = "end"
                        THEN lost \cup (Entries(history) \ (Entries(ses[r].snapshot) \cup ses[r].late))
                        ELSE lost
  BY DEF DeleteKeys
<1>2. CASE ok = TRUE
  BY <1>1, <1>2
<1>3. CASE ok = FALSE
  BY <1>1, <1>3
<1> QED
  BY <1>2, <1>3

LEMMA BasicDeleteKeys ==
    ASSUME SessionBasic, RecordsInv, NEW r \in Requests, OthersStand(r), DeleteKeys(r)
    PROVE  SessionBasic'
<1>1. /\ SessionTypeOK /\ RecentKept /\ log \in Seq(Entry) /\ history \in Seq(Entry)
      /\ lost \subseteq Entry /\ meta \in Nat \cup {None} /\ Len(history) <= MaxEntries
  BY DEF SessionBasic, SessionTypeOK
<1>2. UNCHANGED <<summary, ses, raced>> /\ req[r].pc = "unlink"
      /\ Overtaking(r, [req[r] EXCEPT !.pc = AfterClear(r)])
  BY DEF DeleteKeys
<1>3. Moved(r, AfterClear(r)) /\ AfterClear(r) \in {"commit", "unsummarise"}
  BY <1>2, MovedByOvertaking DEF AfterClear
<1>4. /\ \/ history' = <<>> /\ log' = <<>>
         \/ UNCHANGED <<history, log>>
      /\ meta' \in {None, meta}
      /\ lost' \subseteq lost \cup Entries(history)
  BY KeysDeleted
<1>5. faults' \in 0..MaxFaults
  BY <1>1, KeysDeleted, CallTyped
<1>6. /\ RecentKept' /\ history' \in Seq(Entry) /\ log' \in Seq(Entry)
      /\ Len(history') <= MaxEntries
  <2>1. CASE history' = <<>> /\ log' = <<>>
    BY <2>1, NothingRecent
  <2>2. CASE UNCHANGED <<history, log>>
    BY <1>1, <2>2 DEF RecentKept
  <2> QED
    BY <1>4, <2>1, <2>2
<1>7. lost' \subseteq Entry
  <2>1. Entries(history) \subseteq Entry
    BY <1>1, EntriesTyped
  <2> QED
    BY <1>1, <1>4, <2>1
<1>8. meta' \in Nat \cup {None}
  BY <1>1, <1>4
<1>9. SessionTypeOK'
  BY <1>1, <1>2, <1>5, <1>6, <1>7, <1>8 DEF SessionTypeOK
<1> QED
  BY <1>2, <1>3, <1>6, <1>9, BasicWrite, PhasesAre

LEMMA BasicKeyExpires ==
    ASSUME SessionBasic, KeyExpires
    PROVE  SessionBasic'
<1>1. SessionTypeOK /\ RecentKept /\ log \in Seq(Entry)
  BY DEF SessionBasic
<1>2. /\ faults < MaxFaults /\ faults' = faults + 1
      /\ UNCHANGED <<summary, ses, lost, raced, req>>
      /\ \/ history' = <<>> /\ log' = <<>> /\ UNCHANGED meta
         \/ meta' = None /\ UNCHANGED <<history, log>>
  BY DEF KeyExpires, recordVars
<1>3. faults' \in 0..MaxFaults
  BY <1>1, <1>2, SessionAssumption DEF SessionTypeOK
<1>4. /\ RecentKept' /\ history' \in Seq(Entry) /\ log' \in Seq(Entry)
      /\ Len(history') <= MaxEntries
  <2>1. CASE history' = <<>> /\ log' = <<>>
    BY <2>1, NothingRecent
  <2>2. CASE UNCHANGED <<history, log>>
    BY <1>1, <2>2 DEF RecentKept, SessionTypeOK
  <2> QED
    BY <1>2, <2>1, <2>2
<1>5. SessionTypeOK'
  BY <1>1, <1>2, <1>3, <1>4 DEF SessionTypeOK
<1>6. \A r \in Requests : GoodSession(req[r], ses[r])'
  BY <1>2 DEF SessionBasic, GoodSession
<1> QED
  BY <1>2, <1>4, <1>5, <1>6 DEF SessionBasic, Underway

LEMMA BasicRecord ==
    ASSUME SessionBasic, RecordsInv, NEW r \in Requests, OthersStand(r),
           RecordRequest(r) \/ WritePipeline(r), UNCHANGED sessionVars
    PROVE  SessionBasic'
<1>1. /\ req'[r].pc \notin {"new", "refill"}
      /\ req'[r].kind = req[r].kind \/ req[r].pc = "new"
      /\ \/ req'[r].pc \in Ended
         \/ req'[r].kind \in {"write", "cleanup", "upsert"}
         \/ /\ req'[r].kind = "end" /\ req[r].kind = "end"
            /\ req[r].pc \notin Ended \cup {"snapshot"}
  BY RecordMove
<1>2. UNCHANGED <<history, meta, summary, ses, log, lost, raced, faults>>
  BY DEF sessionVars
<1>3. SessionTypeOK' /\ log' \in Seq(Entry) /\ RecentKept'
  BY <1>2 DEF SessionBasic, SessionTypeOK, RecentKept
<1>4. Underway(req[r])' => Underway(req[r])
  BY <1>1 DEF Underway, SessionKinds
<1>5. GoodSession(req[r], ses[r])'
  <2>1. GoodSession(req[r], ses[r])
    BY DEF SessionBasic
  <2> QED
    BY <1>1, <1>2, <2>1, NoRowIs DEF GoodSession
<1> QED
  BY <1>2, <1>3, <1>4, <1>5, BasicKeeps

\* A step that makes row the row of r's, and goes on to p.
RowMove(r, p, row) ==
    /\ Moved(r, p)
    /\ row \in [op : {"none", "insert", "delete"}, count : Nat]
    /\ ses' = [ses EXCEPT ![r].row = row]
    /\ UNCHANGED <<history, meta, log, lost, raced, faults>>
    /\ summary' \in Nat \cup {None}
    /\ \/ summary' = summary
       \/ \A q \in Requests \ {r} : ses[q].row = NoRow
    /\ row # NoRow => \/ ses[r].row # NoRow
                       \/ \A q \in Requests \ {r} : ses[q].row = NoRow
    /\ p \notin {"new", "refill"}
    /\ p \in Ended \/ req[r].pc \notin Ended
    /\ row.op = "none" => row = NoRow
    /\ row.op = "insert" => req[r].kind = "end" /\ summary' = None
    /\ row.op = "delete" => req[r].kind = "delete"

LEMMA BasicRow ==
    ASSUME SessionBasic, NEW r \in Requests, OthersStand(r), NEW p, NEW row, RowMove(r, p, row)
    PROVE  SessionBasic'
<1> USE DEF RowMove
<1>1. SessionTypeOK /\ ses \in [Requests -> Session] /\ ses[r] \in Session
  BY DEF SessionBasic, SessionTypeOK
<1>2. PICK s : s = [ses[r] EXCEPT !.row = row]
  OBVIOUS
<1>3. s \in Session /\ s.row = row
  BY <1>1, <1>2, RowUpdate
<1>4. ses' = [ses EXCEPT ![r] = s]
  BY <1>1, <1>2
<1>5. /\ ses' \in [Requests -> Session] /\ ses'[r] = s
      /\ \A q \in Requests \ {r} : ses'[q] = ses[q]
  BY <1>1, <1>3, <1>4
<1>6. SessionTypeOK'
  BY <1>1, <1>5 DEF SessionTypeOK
<1>7. log' \in Seq(Entry) /\ RecentKept'
  BY DEF SessionBasic, RecentKept
<1>8. Underway(req[r])' => Underway(req[r])
  BY DEF Moved, Underway
<1>9. GoodSession(req[r], ses[r])'
  BY <1>3, <1>5 DEF GoodSession, Moved
<1>10. \A q \in Requests \ {r} : ses'[q].row = ses[q].row /\ ses'[q].refill = ses[q].refill
  BY <1>5
<1>11. ses'[r].row # NoRow => \/ ses[r].row # NoRow
                              \/ \A q \in Requests \ {r} : ses[q].row = NoRow
  BY <1>3, <1>5
<1> QED
  BY <1>6, <1>7, <1>8, <1>9, <1>10, <1>11, BasicKeeps

LEMMA RowsOf ==
    ASSUME SessionBasic, NEW r \in Requests
    PROVE  /\ ses[r].row \in [op : {"none", "insert", "delete"}, count : Nat]
           /\ ses[r].row.op = "none" <=> ses[r].row = NoRow
           /\ ses[r].row # NoRow => \A q \in Requests \ {r} : ses[q].row = NoRow
           /\ summary \in Nat \cup {None}
<1>1. ses[r] \in Session /\ GoodSession(req[r], ses[r]) /\ summary \in Nat \cup {None}
  BY DEF SessionBasic, SessionTypeOK
<1>2. ses[r].row \in [op : {"none", "insert", "delete"}, count : Nat]
  BY <1>1 DEF Session
<1>3. ses[r].row.op = "none" <=> ses[r].row = NoRow
  BY <1>1, NoRowIs DEF GoodSession
<1>4. ses[r].row # NoRow => \A q \in Requests \ {r} : ses[q].row = NoRow
  BY DEF SessionBasic
<1> QED
  BY <1>1, <1>2, <1>3, <1>4

LEMMA BasicCreateSummary ==
    ASSUME SessionBasic, RecordsInv, NEW r \in Requests, OthersStand(r), CreateSummary(r)
    PROVE  SessionBasic'
<1>1. /\ req[r].pc = "insert" /\ \A q \in Requests \ {r} : ses[q].row = NoRow
      /\ UNCHANGED <<history, meta, summary, log, lost, raced, faults>>
  BY DEF CreateSummary, SessionUnchanged
<1>2. GoodRecordRequest(req[r], records, now) /\ DOMAIN req = Requests
      /\ DOMAIN req[r] = RequestFields
  BY DEF RecordsInv, GoodRecordRequest
<1>3. req[r].kind = "end"
  BY <1>1, <1>2, WhoIsWhere
<1>4. ses[r] \in Session /\ ses \in [Requests -> Session] /\ summary \in Nat \cup {None}
      /\ faults \in 0..MaxFaults
  BY DEF SessionBasic, SessionTypeOK
<1>5. CASE SummaryAllowed(r)
  <2>1. PICK row : row = [op |-> "insert", count |-> Len(ses[r].snapshot)]
    OBVIOUS
  <2>2. Len(ses[r].snapshot) \in Nat
    BY <1>4 DEF Session
  <2>3. row \in [op : {"none", "insert", "delete"}, count : Nat] /\ row.op = "insert"
    BY <2>1, <2>2
  <2>4. ses' = [ses EXCEPT ![r].row = row]
    BY <1>5, <2>1 DEF CreateSummary
  <2>5. PICK text : req' = [req EXCEPT ![r].text = text, ![r].scope = "durable",
                                       ![r].pc = "policy"]
    BY <1>5 DEF CreateSummary
  <2>6. req'[r] = [req[r] EXCEPT !.text = text, !.scope = "durable", !.pc = "policy"]
    BY <1>2, <2>5
  <2>7. Moved(r, "policy")
    BY <1>2, <2>6, FieldsOfRequest DEF Moved
  <2>8. summary' = None
    BY <1>1, <1>5 DEF SummaryAllowed
  <2>9. req[r].pc \notin Ended
    BY <1>1, PhasesAre
  <2> QED
    <3>1. RowMove(r, "policy", row)
      BY <1>1, <1>3, <1>4, <2>3, <2>4, <2>7, <2>8, <2>9 DEF RowMove
    <3> QED
      BY <3>1, BasicRow
<1>6. CASE ~SummaryAllowed(r)
  <2>1. UNCHANGED ses /\ Goto(r, "failed")
    BY <1>6 DEF CreateSummary
  <2>2. Moved(r, "failed")
    BY <2>1, MovedByGoto
  <2>3. ses' = [ses EXCEPT ![r] = ses[r]]
    BY <1>4, <2>1
  <2>4. faults' \in 0..MaxFaults
    BY <1>1, <1>4
  <2> QED
    BY <1>1, <1>4, <2>2, <2>3, <2>4, BasicRead, PhasesAre
<1> QED
  BY <1>5, <1>6

LEMMA BasicDeleteSummary ==
    ASSUME SessionBasic, RecordsInv, NEW r \in Requests, OthersStand(r), DeleteSummary(r)
    PROVE  SessionBasic'
<1>1. /\ req[r].pc = "unsummarise" /\ \A q \in Requests \ {r} : ses[q].row.op # "delete"
      /\ UNCHANGED <<history, meta, summary, log, lost, raced, faults>> /\ Goto(r, "commit")
      /\ ses' = [ses EXCEPT ![r].row = IF summary = None THEN @ ELSE [NoRow EXCEPT !.op = "delete"]]
  BY DEF DeleteSummary, SessionUnchanged
<1>2. req[r].kind = "delete"
  BY <1>1, WhoIsWhere DEF RecordsInv
<1>3. /\ GoodSession(req[r], ses[r])
      /\ ses[r].row \in [op : {"none", "insert", "delete"}, count : Nat]
      /\ summary \in Nat \cup {None}
  BY RowsOf DEF SessionBasic
<1>4. PICK row : row = IF summary = None THEN ses[r].row ELSE [NoRow EXCEPT !.op = "delete"]
  OBVIOUS
<1>5. ses' = [ses EXCEPT ![r].row = row]
  <2>1. ses \in [Requests -> Session]
    BY DEF SessionBasic, SessionTypeOK
  <2> QED
    BY <1>1, <1>4, <2>1
<1>6. Moved(r, "commit")
  BY <1>1, MovedByGoto
<1>7. CASE summary = None
  <2>1. row = ses[r].row
    BY <1>4, <1>7
  <2>2. row.op # "insert"
    BY <1>2, <1>3, <2>1 DEF GoodSession
  <2> QED
    <3>1. RowMove(r, "commit", row)
      BY <1>1, <1>2, <1>3, <1>5, <1>6, <2>1, <2>2, PhasesAre DEF GoodSession, RowMove
    <3> QED
      BY <3>1, BasicRow
<1>8. CASE summary # None
  <2>1. row.op = "delete" /\ row \in [op : {"none", "insert", "delete"}, count : Nat]
    BY <1>4, <1>8 DEF NoRow
  <2>2. \A q \in Requests \ {r} : ses[q].row = NoRow
    <3> TAKE q \in Requests \ {r}
    <3>1. GoodSession(req[q], ses[q])
      BY DEF SessionBasic
    <3>2. ses[q].row.op \in {"none", "insert", "delete"}
      BY RowsOf
    <3> QED
      BY <1>1, <1>8, <3>1, <3>2 DEF GoodSession
  <2> QED
    <3>1. RowMove(r, "commit", row)
      BY <1>1, <1>2, <1>3, <1>5, <1>6, <2>1, <2>2, PhasesAre DEF RowMove
    <3> QED
      BY <3>1, BasicRow
<1> QED
  BY <1>7, <1>8

LEMMA BasicCommitSession ==
    ASSUME SessionBasic, RecordsInv, NEW r \in Requests, OthersStand(r), CommitSession(r)
    PROVE  SessionBasic'
<1>1. /\ req[r].pc = "commit" /\ summary' = SummaryAfter(ses[r].row)
      /\ ses' = [ses EXCEPT ![r].row = NoRow]
      /\ Overtaking(r, [req[r] EXCEPT !.pc = "ok"])
      /\ UNCHANGED <<history, meta, log, lost, raced, faults>>
  BY DEF CommitSession
<1>2. Moved(r, "ok")
  BY <1>1, MovedByOvertaking
<1>3. /\ ses[r].row \in [op : {"none", "insert", "delete"}, count : Nat]
      /\ ses[r].row.op = "none" <=> ses[r].row = NoRow
      /\ ses[r].row # NoRow => \A q \in Requests \ {r} : ses[q].row = NoRow
      /\ summary \in Nat \cup {None}
  BY RowsOf
<1>4. \/ summary' = summary
      \/ \A q \in Requests \ {r} : ses[q].row = NoRow
  BY <1>1, <1>3 DEF SummaryAfter
<1>5. summary' \in Nat \cup {None}
  BY <1>1, <1>3 DEF SummaryAfter
<1>6. RowMove(r, "ok", NoRow)
  BY <1>1, <1>2, <1>4, <1>5, NoRowIs, PhasesAre DEF RowMove
<1> QED
  BY <1>6, BasicRow

LEMMA BasicRollbackSession ==
    ASSUME SessionBasic, RecordsInv, NEW r \in Requests, OthersStand(r), RollbackSession(r)
    PROVE  SessionBasic'
<1>1. /\ req' = [req EXCEPT ![r].pc = "failed", ![r].tx = NoTx]
      /\ ses' = [ses EXCEPT ![r].row = NoRow]
      /\ UNCHANGED <<history, meta, summary, log, lost, raced, faults>>
  BY DEF RollbackSession, SessionUnchanged
<1>2. DOMAIN req = Requests /\ DOMAIN req[r] = RequestFields
  BY DEF RecordsInv, GoodRecordRequest
<1>3. req'[r] = [req[r] EXCEPT !.pc = "failed", !.tx = NoTx]
  BY <1>1, <1>2
<1>4. Moved(r, "failed")
  BY <1>2, <1>3, FieldsOfRequest DEF Moved
<1>5. summary' \in Nat \cup {None}
  BY <1>1, RowsOf
<1>6. RowMove(r, "failed", NoRow)
  BY <1>1, <1>4, <1>5, NoRowIs, PhasesAre DEF RowMove
<1> QED
  BY <1>6, BasicRow

LEMMA BasicStep ==
    ASSUME SessionBasic, RecordsInv, [StoreNext]_storeVars
    PROVE  SessionBasic'
<1>1. CASE (Tick /\ UNCHANGED sessionVars) \/ UNCHANGED storeVars
  BY <1>1 DEF SessionBasic, SessionTypeOK, RecentKept, GoodSession, Underway, Tick, sessionVars,
     storeVars, recordVars
<1>2. ASSUME NEW r \in Requests, (RecordRequest(r) \/ WritePipeline(r)) /\ UNCHANGED sessionVars
      PROVE  SessionBasic'
  BY <1>2, BasicRecord, OthersFrame DEF Steps
<1>3. ASSUME NEW r \in Requests, SessionRequest(r)
      PROVE  SessionBasic'
  <2>1. OthersStand(r)
    BY <1>3, OthersFrame DEF Steps
  <2> QED
    BY <1>3, <2>1, BasicBegins, BasicGets, BasicReads, BasicCounts, BasicPushes,
       BasicDeleteKeys, BasicCreateSummary, BasicDeleteSummary, BasicCommitSession,
       BasicRollbackSession DEF SessionRequest
<1>4. CASE KeyExpires
  BY <1>4, BasicKeyExpires
<1> QED
  BY <1>1, <1>2, <1>3, <1>4 DEF StoreNext

LEMMA BasicStart ==
    ASSUME StoreInit
    PROVE  SessionBasic
<1>1. /\ history \in Seq({"first"}) /\ Len(history) <= MaxEntries /\ log = history
      /\ summary \in Nat \cup {None}
      /\ ses = [r \in Requests |-> SessionFields] /\ req = [r \in Requests |-> RecordFields]
      /\ lost = {} /\ raced = FALSE /\ faults = 0
  BY DEF StoreInit
<1>2. history \in Seq(Entry)
  <2>1. {"first"} \subseteq Entry
    BY EntriesAre
  <2> QED
    BY <1>1, <2>1
<1>3. SessionFields \in Session
  <2>1. <<>> \in Seq(Entry)
    OBVIOUS
  <2> QED
    BY <2>1, NoRowIs DEF SessionFields, Session
<1>4. meta \in Nat \cup {None}
  <2>1. Len(history) \in Nat
    BY <1>2
  <2>2. CASE summary = None
    BY <1>1, <2>1, <2>2 DEF StoreInit
  <2>3. CASE summary # None
    <3>1. summary \in Nat
      BY <1>1, <2>3
    <3>2. meta = None \/ meta \in Len(history)..(Len(history) + summary)
      BY <2>3 DEF StoreInit
    <3> QED
      BY <2>1, <3>1, <3>2
  <2> QED
    BY <2>2, <2>3
<1>5. SessionTypeOK
  <2>1. 0 \in 0..MaxFaults
    BY SessionAssumption
  <2> QED
    BY <1>1, <1>2, <1>3, <1>4, <2>1 DEF SessionTypeOK
<1>6. RecentKept
  <2>1. Len(log) \in Nat /\ MaxEntries \in Nat \ {0}
    BY <1>1, <1>2, SessionAssumption
  <2>2. Len(history) = IF Len(log) < MaxEntries THEN Len(log) ELSE MaxEntries
    BY <1>1, <2>1
  <2>3. \A i \in DOMAIN history : history[i] = log[Len(log) - Len(history) + i]
    BY <1>1, <1>2
  <2> QED
    BY <2>2, <2>3 DEF RecentKept
<1>7. \A r \in Requests : /\ req[r].pc = "new" /\ req[r].pc \in Ended
                          /\ ses[r].row = NoRow
  BY <1>1 DEF RecordFields, SessionFields, Ended
<1>8. \A r \in Requests : GoodSession(req[r], ses[r])
  BY <1>7, NoRowIs DEF GoodSession
<1> QED
  BY <1>1, <1>2, <1>5, <1>6, <1>7, <1>8 DEF SessionBasic, Underway

-----------------------------------------------------------------------------
(* What requests rely on as long as Redis answers.                         *)

\* A request that has moved where it relies on nothing.
LEMMA HeldIdle ==
    ASSUME NEW r \in Requests,
           req'[r].kind = "end" => req'[r].pc \in Ended \cup {"snapshot"},
           req'[r].pc # "unlink",
           req'[r].kind = "delete" => req'[r].pc \notin {"unsummarise", "commit"},
           req'[r].pc \notin {"lookup", "restore", "create", "append", "counted"}
    PROVE  Held(req[r], ses[r])'
BY DEF Held, SnapshotCovers, KeysSeen, Deleting, CountedIn

\* An ending that has moved on, and still needs what it has summarised.
LEMMA HeldEnding ==
    ASSUME NEW r \in Requests, Held(req[r], ses[r]),
           req[r].kind = "end", req[r].pc \notin Ended \cup {"snapshot"},
           req'[r].kind = "end", req'[r].pc # "unlink",
           req'[r].pc \notin {"lookup", "restore", "create", "append", "counted"},
           UNCHANGED history, ses'[r].snapshot = ses[r].snapshot, ses'[r].late = ses[r].late
    PROVE  Held(req[r], ses[r])'
BY DEF Held, SnapshotCovers, KeysSeen, Deleting, CountedIn

\* A step that changes nothing but what its own request keeps.
LEMMA HeldReads ==
    ASSUME SessionHeld, faults = 0, NEW r \in Requests, OthersStand(r),
           UNCHANGED <<history, meta, summary, log, lost>>, ~raced' => ~raced,
           \A q \in Requests \ {r} : ses'[q] = ses[q],
           req[r].pc # "counted", Held(req[r], ses[r])'
    PROVE  SessionHeld'
<1>1. /\ lost = {} /\ (~raced => CountBalanced)
      /\ \A q \in Requests : Held(req[q], ses[q])
  BY DEF SessionHeld
<1>2. \A q \in Requests : Held(req[q], ses[q])'
  <2> TAKE q \in Requests
  <2>1. CASE q # r
    <3>1. /\ req'[q].pc = req[q].pc /\ req'[q].kind = req[q].kind
          /\ (req'[q].alone => req[q].alone) /\ ses'[q] = ses[q]
      BY <2>1 DEF OthersStand
    <3>2. Held(req[q], ses[q])
      BY <1>1
    <3>3. SnapshotCovers(req[q], ses[q])'
      BY <3>1, <3>2 DEF Held, SnapshotCovers
    <3>4. KeysSeen(req[q], ses[q]) => KeysSeen(req[q], ses[q])'
      BY <3>1 DEF KeysSeen
    <3>5. Deleting(req[q], ses[q]) => Deleting(req[q], ses[q])'
      BY <3>1 DEF Deleting
    <3>6. CountedIn(req[q], ses[q]) => CountedIn(req[q], ses[q])'
      BY <3>1 DEF CountedIn, Covers, Summarised, Messages
    <3> QED
      BY <3>1, <3>2, <3>3, <3>4, <3>5, <3>6 DEF Held
  <2> QED
    BY <2>1
<1>3. CountBalanced => CountBalanced'
  <2>1. (\A q \in Requests : req'[q].pc # "counted") => \A q \in Requests : req[q].pc # "counted"
    BY DEF OthersStand
  <2> QED
    BY <2>1 DEF CountBalanced, Covers, Summarised, Messages
<1> QED
  BY <1>1, <1>2, <1>3 DEF SessionHeld

\* The requests beside r stay where they are, and those under way are no longer
\* alone.
Overtaken(r) ==
    \A q \in Requests \ {r} :
        /\ req'[q].pc = req[q].pc
        /\ req'[q].kind = req[q].kind
        /\ req'[q].alone => req[q].pc \in Ended

LEMMA OvertakenBy ==
    ASSUME RecordsInv, NEW r \in Requests, NEW n, Overtaking(r, n)
    PROVE  Overtaken(r)
<1> SUFFICES ASSUME NEW q \in Requests \ {r}
             PROVE  /\ req'[q].pc = req[q].pc /\ req'[q].kind = req[q].kind
                    /\ req'[q].alone => req[q].pc \in Ended
  BY DEF Overtaken
<1>1. DOMAIN req[q] = RequestFields
  BY DEF RecordsInv, GoodRecordRequest
<1>2. req'[q] = IF req[q].pc \in Ended THEN req[q] ELSE [req[q] EXCEPT !.alone = FALSE]
  BY DEF Overtaking
<1>3. CASE req[q].pc \in Ended
  BY <1>2, <1>3
<1>4. CASE req[q].pc \notin Ended
  <2>1. req'[q] = [req[q] EXCEPT !.alone = FALSE]
    BY <1>2, <1>4
  <2>2. req'[q].alone = FALSE
    BY <1>1, <2>1, FieldsOfRequest
  <2>3. ~req'[q].alone
    BY <2>2
  <2> QED
    BY <1>1, <2>1, <2>3, FieldsOfRequest
<1> QED
  BY <1>3, <1>4

\* As long as requests come one after the other, a message is between the list
\* and the count only of the request that is under way.
LEMMA OnlyOne ==
    ASSUME RecordsInv, SessionBasic, ~raced, NEW r \in Requests, Underway(req[r]),
           NEW q \in Requests, q # r
    PROVE  /\ ~Underway(req[q])
           /\ req[q].pc \notin {"unlink", "lookup", "restore", "create", "append", "counted"}
           /\ req[q].kind = "delete" => req[q].pc \in Ended
<1>1. ~Underway(req[q])
  BY DEF SessionBasic
<1>2. GoodRecordRequest(req[q], records, now)
  BY DEF RecordsInv
<1> QED
  BY <1>1, <1>2, WhoIsWhere, PhasesAre DEF Underway, SessionKinds

\* What a step that writes leaves of the requests beside it.
Spared(r) ==
    \A q \in Requests \ {r} :
        /\ ses'[q].snapshot = ses[q].snapshot
        /\ ses[q].late \subseteq ses'[q].late
        /\ Entries(history)' \subseteq Entries(history) \cup ses'[q].late

\* A step that writes the keys or the summary.
LEMMA HeldWrites ==
    ASSUME SessionHeld, SessionBasic, RecordsInv, faults = 0, NEW r \in Requests,
           Overtaken(r), Spared(r), Underway(req[r]), raced' = raced,
           lost' = {}, ~raced => CountBalanced', Held(req[r], ses[r])'
    PROVE  SessionHeld'
<1>1. \A q \in Requests : Held(req[q], ses[q])
  BY DEF SessionHeld
<1>2. \A q \in Requests : Held(req[q], ses[q])'
  <2> TAKE q \in Requests
  <2>1. CASE q # r
    <3>1. /\ req'[q].pc = req[q].pc /\ req'[q].kind = req[q].kind
          /\ (req'[q].alone => req[q].pc \in Ended)
      BY <2>1 DEF Overtaken
    <3>2. SnapshotCovers(req[q], ses[q])
      BY <1>1 DEF Held
    <3>3. SnapshotCovers(req[q], ses[q])'
      <4>1. /\ ses'[q].snapshot = ses[q].snapshot /\ ses[q].late \subseteq ses'[q].late
            /\ Entries(history)' \subseteq Entries(history) \cup ses'[q].late
        BY <2>1 DEF Spared
      <4>2. Entries(ses[q].snapshot)' = Entries(ses[q].snapshot)
        BY <4>1 DEF Entries
      <4> QED
        BY <3>1, <3>2, <4>1, <4>2 DEF SnapshotCovers
    <3>4. req'[q].alone => KeysSeen(req[q], ses[q])' /\ Deleting(req[q], ses[q])'
      BY <3>1, PhasesAre DEF KeysSeen, Deleting
    <3>5. ~raced' => /\ KeysSeen(req[q], ses[q])' /\ Deleting(req[q], ses[q])'
                     /\ CountedIn(req[q], ses[q])'
      <4> HAVE ~raced'
      <4>1. /\ req'[q].pc \notin {"unlink", "lookup", "restore", "create", "append", "counted"}
            /\ req'[q].kind = "delete" => req'[q].pc \in Ended
        BY <2>1, <3>1, OnlyOne
      <4> QED
        BY <4>1, PhasesAre DEF KeysSeen, Deleting, CountedIn
    <3> QED
      BY <3>3, <3>4, <3>5 DEF Held
  <2> QED
    BY <2>1
<1> QED
  BY <1>2 DEF SessionHeld

\* Where a request is after it began.
LEMMA MovedByBegin ==
    ASSUME RecordsInv, NEW r \in Requests, NEW kind, NEW pc, Begin(r, kind, pc)
    PROVE  req'[r].pc = pc /\ req'[r].kind = kind /\ req[r].pc = "new"
<1>1. DOMAIN req = Requests /\ DOMAIN req[r] = RequestFields
  BY DEF RecordsInv, GoodRecordRequest
<1>2. req'[r] = [req[r] EXCEPT !.pc = pc, !.kind = kind, !.began = now] /\ req[r].pc = "new"
  BY <1>1 DEF Begin, Begun
<1> QED
  BY <1>1, <1>2, FieldsOfRequest

LEMMA HeldBegin ==
    ASSUME SessionHeld, RecordsInv, faults = 0, NEW r \in Requests, OthersStand(r),
           NEW kind, NEW pc \in {"exists", "meta", "recent", "snapshot", "final"},
           Begin(r, kind, pc), kind = "end" => pc = "snapshot"
    PROVE  SessionHeld'
<1>1. req'[r].pc = pc /\ req'[r].kind = kind /\ req[r].pc = "new"
  BY MovedByBegin
<1>2. Held(req[r], ses[r])'
  BY <1>1, HeldIdle
<1> QED
  BY <1>1, <1>2, HeldReads DEF Begin

LEMMA HeldBegins ==
    ASSUME SessionHeld, RecordsInv, faults = 0, NEW r \in Requests, OthersStand(r),
           \/ StartSession(r) \/ AddToSession(r) \/ GetSessionContext(r)
           \/ EndSession(r) \/ DeleteSession(r)
    PROVE  SessionHeld'
BY HeldBegin DEF StartSession, AddToSession, GetSessionContext, EndSession, DeleteSession

LEMMA HeldRecord ==
    ASSUME SessionHeld, RecordsInv, RecordsInv', faults = 0, NEW r \in Requests, OthersStand(r),
           RecordRequest(r) \/ WritePipeline(r), UNCHANGED sessionVars
    PROVE  SessionHeld'
<1>1. /\ req[r].pc # "counted"
      /\ req'[r].kind = req[r].kind \/ req[r].pc = "new"
      /\ \/ req'[r].pc \in Ended
         \/ req'[r].kind \in {"write", "cleanup", "upsert"}
         \/ /\ req'[r].kind = "end" /\ req[r].kind = "end"
            /\ req[r].pc \notin Ended \cup {"snapshot"}
            /\ req'[r].pc \in {"count", "storage", "prepare", "store", "final"}
  BY RecordMove
<1>2. UNCHANGED <<history, meta, summary, ses, log, lost, raced>>
  BY DEF sessionVars
<1>3. Held(req[r], ses[r])
  BY DEF SessionHeld
<1>4. Held(req[r], ses[r])'
  <2>1. CASE req'[r].pc \in Ended
    BY <2>1, HeldIdle, PhasesAre
  <2>2. CASE req'[r].kind \in {"write", "cleanup", "upsert"}
    <3>1. GoodRecordRequest(req'[r], records', now')
      BY DEF RecordsInv
    <3>2. req'[r].pc \notin {"unlink", "lookup", "restore", "create", "append", "counted"}
      BY <2>2, <3>1, WhoIsWhere
    <3> QED
      BY <2>2, <3>2, HeldIdle
  <2>3. CASE /\ req'[r].kind = "end" /\ req[r].kind = "end"
             /\ req[r].pc \notin Ended \cup {"snapshot"}
             /\ req'[r].pc \in {"count", "storage", "prepare", "store", "final"}
    BY <1>2, <1>3, <2>3, HeldEnding
  <2> QED
    BY <1>1, <2>1, <2>2, <2>3
<1> QED
  BY <1>1, <1>2, <1>4, HeldReads

\* A Redis call that fails is a fault.
LEMMA CallAnswers ==
    ASSUME SessionTypeOK, NEW ok \in BOOLEAN, Call(ok), faults' = 0
    PROVE  ok = TRUE
<1>1. ok /\ faults = 0
  BY CallTyped
<1> QED
  BY <1>1

\* What a step that reads keeps.
LEMMA HeldGot ==
    ASSUME SessionHeld, SessionBasic, RecordsInv, faults = 0, NEW r \in Requests, OthersStand(r),
           NEW count \in Nat, NEW p, Got(r, count, p), req[r].pc # "counted",
           p # "unlink", req[r].kind \notin {"end", "delete"},
           ~raced /\ p \in {"lookup", "restore", "create"} => meta = None,
           p = "restore" => summary # None /\ count = summary,
           p = "create" => count = 0,
           p # "counted",
           ~raced /\ p = "append" => meta # None /\ count = meta /\ Covers(meta, 0)
    PROVE  SessionHeld'
<1>1. ses \in [Requests -> Session] /\ ses[r] \in Session
  BY DEF SessionBasic, SessionTypeOK
<1>2. PICK s : s = [ses[r] EXCEPT !.count = count]
  OBVIOUS
<1>3. s \in Session /\ s.count = count
  BY <1>1, <1>2, CountUpdate
<1>4. ses' = [ses EXCEPT ![r] = s] /\ UNCHANGED <<history, meta, summary, log, lost, raced>>
  BY <1>1, <1>2 DEF Got, SessionUnchanged
<1>5. ses'[r] = s /\ \A q \in Requests \ {r} : ses'[q] = ses[q]
  BY <1>1, <1>4
<1>6. Moved(r, p)
  BY MovedByGoto DEF Got
<1>7. CountedIn(req[r], ses[r])' \/ raced
  BY <1>3, <1>4, <1>5, <1>6 DEF CountedIn, Moved, Covers, Summarised, Messages
<1>8. Held(req[r], ses[r])'
  BY <1>4, <1>6, <1>7 DEF Held, SnapshotCovers, KeysSeen, Deleting, Moved
<1> QED
  BY <1>4, <1>5, <1>8, HeldReads

\* message_count as a request that is the only one finds it.
LEMMA CountFound ==
    ASSUME SessionHeld, SessionBasic, RecordsInv, faults = 0, ~raced,
           NEW r \in Requests, Underway(req[r]), req[r].pc # "counted"
    PROVE  IF meta = None THEN Messages(log) = 0 ELSE Covers(meta, 0)
<1>1. \A q \in Requests : req[q].pc # "counted"
  BY OnlyOne
<1> QED
  BY <1>1 DEF SessionHeld, CountBalanced

LEMMA HeldGets ==
    ASSUME SessionHeld, SessionBasic, RecordsInv, faults = 0, faults' = 0,
           NEW r \in Requests, OthersStand(r),
           GetMeta(r) \/ GetBySessionId(r) \/ Exists(r) \/ RecentHistory(r)
    PROVE  SessionHeld'
<1>1. /\ SessionTypeOK /\ meta \in Nat \cup {None} /\ summary \in Nat \cup {None}
      /\ Held(req[r], ses[r]) /\ GoodRecordRequest(req[r], records, now)
  BY DEF SessionBasic, SessionTypeOK, SessionHeld, RecordsInv
<1>2. CASE GetMeta(r)
  <2>1. PICK ok \in BOOLEAN :
          /\ Call(ok)
          /\ IF ok /\ meta # None THEN Got(r, meta, "append") ELSE Got(r, 0, "lookup")
    BY <1>2 DEF GetMeta
  <2>2. ok = TRUE
    BY <1>1, <2>1, CallAnswers
  <2>3. req[r].pc = "meta" /\ req[r].kind = "add" /\ Underway(req[r])
    BY <1>1, <1>2, WhoIsWhere, PhasesAre DEF GetMeta, Underway, SessionKinds
  <2>4. ~raced /\ meta # None => Covers(meta, 0)
    BY <2>3, CountFound
  <2>5. CASE meta # None
    <3>1. Got(r, meta, "append") /\ meta \in Nat
      BY <1>1, <2>1, <2>2, <2>5
    <3> QED
      BY <2>3, <2>4, <2>5, <3>1, HeldGot
  <2>6. CASE meta = None
    <3>1. Got(r, 0, "lookup")
      BY <2>1, <2>6
    <3> QED
      BY <2>3, <2>6, <3>1, HeldGot
  <2> QED
    BY <2>5, <2>6
<1>3. CASE GetBySessionId(r)
  <2>1. req[r].pc = "lookup" /\ req[r].kind = "add"
    BY <1>1, <1>3, WhoIsWhere DEF GetBySessionId
  <2>2. ~raced => meta = None
    BY <1>1, <2>1 DEF Held, CountedIn
  <2>3. CASE summary # None
    <3>1. Got(r, summary, "restore") /\ summary \in Nat
      BY <1>1, <1>3, <2>3 DEF GetBySessionId
    <3> QED
      BY <2>1, <2>2, <2>3, <3>1, HeldGot
  <2>4. CASE summary = None
    <3>1. Got(r, 0, "exists")
      BY <1>3, <2>4 DEF GetBySessionId
    <3> QED
      BY <2>1, <2>2, <3>1, HeldGot
  <2> QED
    BY <2>3, <2>4
<1>4. CASE Exists(r)
  <2>1. PICK ok \in BOOLEAN :
          /\ Call(ok)
          /\ IF ok /\ meta # None THEN Got(r, meta, WithMeta(r)) ELSE Got(r, 0, "create")
    BY <1>4 DEF Exists
  <2>2. ok = TRUE
    BY <1>1, <2>1, CallAnswers
  <2>3. req[r].pc = "exists" /\ req[r].kind \in {"start", "add"} /\ Underway(req[r])
    BY <1>1, <1>4, WhoIsWhere, PhasesAre DEF Exists, Underway, SessionKinds
  <2>4. ~raced /\ meta # None => Covers(meta, 0)
    BY <2>3, CountFound
  <2>5. CASE meta # None
    <3>1. Got(r, meta, WithMeta(r)) /\ meta \in Nat
      BY <1>1, <2>1, <2>2, <2>5
    <3>2. WithMeta(r) \in {"ok", "append"}
      BY DEF WithMeta
    <3> QED
      BY <2>3, <2>4, <2>5, <3>1, <3>2, HeldGot
  <2>6. CASE meta = None
    <3>1. Got(r, 0, "create")
      BY <2>1, <2>6
    <3> QED
      BY <2>3, <2>6, <3>1, HeldGot
  <2> QED
    BY <2>5, <2>6
<1>5. CASE RecentHistory(r)
  <2>1. PICK p \in {"ok", "search"} : Got(r, 0, p)
    BY <1>5 DEF RecentHistory
  <2>2. req[r].pc = "recent" /\ req[r].kind = "context"
    BY <1>1, <1>5, WhoIsWhere DEF RecentHistory
  <2> QED
    BY <2>1, <2>2, HeldGot
<1> QED
  BY <1>2, <1>3, <1>4, <1>5

\* What a search, a snapshot, a scan and the rows of an ending keep.
LEMMA HeldSearch ==
    ASSUME SessionHeld, SessionBasic, RecordsInv, faults = 0, NEW r \in Requests, OthersStand(r),
           SearchConversation(r)
    PROVE  SessionHeld'
<1>1. /\ ses \in [Requests -> Session] /\ GoodRecordRequest(req[r], records, now)
  BY DEF SessionBasic, SessionTypeOK, RecordsInv
<1>a. PICK found : /\ ses' = [ses EXCEPT ![r].refill = Cardinality(found)]
                   /\ Goto(r, IF found = {} THEN "ok" ELSE "refill")
  BY DEF SearchConversation
<1>b. PICK k : k = Cardinality(found)
  OBVIOUS
<1>c. PICK p \in {"ok", "refill"} : p = IF found = {} THEN "ok" ELSE "refill"
  OBVIOUS
<1>2. /\ p \in {"ok", "refill"}
      /\ Goto(r, p)
      /\ ses' = [ses EXCEPT ![r].refill = k]
  BY <1>a, <1>b, <1>c
<1>3. Moved(r, p)
  BY <1>2, MovedByGoto
<1>4. req[r].pc = "search" /\ req[r].kind = "context"
  BY <1>1, WhoIsWhere DEF SearchConversation
<1>5. Held(req[r], ses[r])'
  BY <1>3, <1>4, HeldIdle DEF Moved
<1>6. UNCHANGED <<history, meta, summary, log, lost, raced>>
  BY DEF SearchConversation, SessionUnchanged
<1>7. \A q \in Requests \ {r} : ses'[q] = ses[q]
  BY <1>1, <1>2
<1> QED
  BY <1>4, <1>5, <1>6, <1>7, HeldReads

LEMMA HeldSnapshot ==
    ASSUME SessionHeld, SessionBasic, RecordsInv, faults = 0, faults' = 0,
           NEW r \in Requests, OthersStand(r), GetFullHistory(r)
    PROVE  SessionHeld'
<1>1. /\ ses \in [Requests -> Session] /\ ses[r] \in Session /\ SessionTypeOK
      /\ history \in Seq(Entry) /\ GoodRecordRequest(req[r], records, now)
  BY DEF SessionBasic, SessionTypeOK, RecordsInv
<1>2. PICK ok \in BOOLEAN :
          LET entries == IF ok THEN Snapshot(history) ELSE <<>>
          IN /\ Call(ok)
             /\ ses' = [ses EXCEPT ![r].snapshot = entries, ![r].late = {}]
             /\ Goto(r, IF entries = <<>> THEN "final" ELSE "insert")
  BY DEF GetFullHistory
<1>3. ok = TRUE
  BY <1>1, <1>2, CallAnswers
<1>4. /\ ses' = [ses EXCEPT ![r].snapshot = history, ![r].late = {}]
      /\ Goto(r, IF history = <<>> THEN "final" ELSE "insert")
  BY <1>2, <1>3 DEF Snapshot
<1>5. PICK s : s = [ses[r] EXCEPT !.snapshot = history, !.late = {}]
  OBVIOUS
<1>6. s.snapshot = history /\ ses'[r] = s /\ \A q \in Requests \ {r} : ses'[q] = ses[q]
  <2>1. ses[r] \in Session /\ history \in Seq(Entry)
    BY <1>1
  <2>2. s.snapshot = history
    BY <1>5, <2>1 DEF Session
  <2>3. ses' = [ses EXCEPT ![r] = s]
    BY <1>1, <1>4, <1>5
  <2> QED
    BY <1>1, <2>2, <2>3
<1>7. PICK p \in {"final", "insert"} : Goto(r, p)
  BY <1>4
<1>8. Moved(r, p)
  BY <1>7, MovedByGoto
<1>9. req[r].pc = "snapshot" /\ req[r].kind = "end"
  BY <1>1, WhoIsWhere DEF GetFullHistory
<1>10. UNCHANGED <<history, meta, summary, log, lost, raced>>
  BY DEF GetFullHistory, SessionUnchanged
<1>11. Entries(history)' \subseteq Entries(ses[r].snapshot)'
  BY <1>6, <1>10 DEF Entries
<1>12. Held(req[r], ses[r])'
  BY <1>8, <1>9, <1>11 DEF Held, SnapshotCovers, KeysSeen, Deleting, CountedIn, Moved
<1> QED
  BY <1>6, <1>9, <1>10, <1>12, HeldReads

LEMMA HeldScan ==
    ASSUME SessionHeld, SessionBasic, RecordsInv, faults = 0, faults' = 0,
           NEW r \in Requests, OthersStand(r), ScanKeys(r)
    PROVE  SessionHeld'
<1>1. /\ ses \in [Requests -> Session] /\ ses[r] \in Session /\ SessionTypeOK
      /\ GoodRecordRequest(req[r], records, now) /\ Held(req[r], ses[r])
  BY DEF SessionBasic, SessionTypeOK, RecordsInv, SessionHeld
<1>2. PICK ok \in BOOLEAN :
         LET keys == IF ok THEN {k \in {"history", "meta"} :
                                   (k = "history" /\ history # <<>>)
                                     \/ (k = "meta" /\ meta # None)}
                     ELSE {}
         IN /\ Call(ok)
            /\ ses' = [ses EXCEPT ![r].keys = keys]
            /\ Goto(r, IF keys = {} THEN AfterClear(r) ELSE "unlink")
  BY DEF ScanKeys
<1>3. ok = TRUE
  BY <1>1, <1>2, CallAnswers
<1>4. PICK keys : keys = {k \in {"history", "meta"} : (k = "history" /\ history # <<>>)
                                                        \/ (k = "meta" /\ meta # None)}
  OBVIOUS
<1>5. /\ ses' = [ses EXCEPT ![r].keys = keys]
      /\ Goto(r, IF keys = {} THEN AfterClear(r) ELSE "unlink")
  BY <1>2, <1>3, <1>4
<1>6. /\ keys \in SUBSET {"history", "meta"}
      /\ history # <<>> => "history" \in keys
      /\ meta # None => "meta" \in keys
  BY <1>4
<1>7. PICK s : s = [ses[r] EXCEPT !.keys = keys]
  OBVIOUS
<1>8. /\ s.keys = keys /\ s.snapshot = ses[r].snapshot /\ s.late = ses[r].late
      /\ s.row = ses[r].row
  BY <1>1, <1>6, <1>7, KeysUpdate
<1>9. ses'[r] = s /\ \A q \in Requests \ {r} : ses'[q] = ses[q]
  BY <1>1, <1>5, <1>7
<1>10. UNCHANGED <<history, meta, summary, log, lost, raced>> /\ req[r].pc = "final"
  BY DEF ScanKeys, SessionUnchanged
<1>11. req[r].kind \in {"end", "delete"}
  BY <1>1, <1>10, WhoIsWhere
<1>12. PICK p : p = IF keys = {} THEN AfterClear(r) ELSE "unlink"
  OBVIOUS
<1>13. Moved(r, p)
  BY <1>5, <1>12, MovedByGoto
<1>14. /\ p = IF keys # {} THEN "unlink" ELSE IF req[r].kind = "end" THEN "commit"
                                               ELSE "unsummarise"
  BY <1>12 DEF AfterClear
<1>15. SnapshotCovers(req[r], ses[r])
  BY <1>1 DEF Held
<1>16. SnapshotCovers(req[r], ses[r])'
  <2>1. CASE req[r].kind = "end"
    BY <1>8, <1>9, <1>10, <1>15, <2>1, PhasesAre DEF SnapshotCovers, Entries
  <2>2. CASE req[r].kind # "end"
    BY <1>13, <2>2 DEF SnapshotCovers, Moved
  <2> QED
    BY <2>1, <2>2
<1>17. KeysSeen(req[r], ses[r])'
  BY <1>6, <1>8, <1>9, <1>10 DEF KeysSeen
<1>18. Deleting(req[r], ses[r])'
  <2>1. CASE keys = {}
    <3>1. history' = <<>> /\ meta' = None
      BY <1>6, <1>10, <2>1
    <3>2. req'[r].pc # "commit" \/ req'[r].kind # "delete"
      BY <1>11, <1>13, <1>14, <2>1 DEF Moved
    <3> QED
      BY <3>1, <3>2 DEF Deleting
  <2>2. CASE keys # {}
    BY <1>13, <1>14, <2>2 DEF Deleting, Moved
  <2> QED
    BY <2>1, <2>2
<1>19. CountedIn(req[r], ses[r])'
  BY <1>13, <1>14 DEF CountedIn, Moved
<1>20. Held(req[r], ses[r])'
  BY <1>16, <1>17, <1>18, <1>19 DEF Held
<1> QED
  BY <1>9, <1>10, <1>20, HeldReads

LEMMA HeldListSessions ==
    ASSUME SessionHeld, RecordsInv, faults = 0, NEW r \in Requests, OthersStand(r),
           ListSessions(r)
    PROVE  SessionHeld'
<1>1. Moved(r, "refused") /\ req[r].pc = "new"
  BY MovedByGoto DEF ListSessions
<1>2. Held(req[r], ses[r])'
  BY <1>1, HeldIdle, PhasesAre DEF Moved
<1> QED
  BY <1>1, <1>2, HeldReads DEF ListSessions, sessionVars

LEMMA HeldCreateSummary ==
    ASSUME SessionHeld, SessionBasic, RecordsInv, faults = 0, NEW r \in Requests, OthersStand(r),
           CreateSummary(r)
    PROVE  SessionHeld'
<1>1. /\ ses \in [Requests -> Session] /\ ses[r] \in Session
      /\ GoodRecordRequest(req[r], records, now) /\ Held(req[r], ses[r])
      /\ DOMAIN req = Requests /\ DOMAIN req[r] = RequestFields
  BY DEF SessionBasic, SessionTypeOK, RecordsInv, SessionHeld, GoodRecordRequest
<1>2. /\ UNCHANGED <<history, meta, summary, log, lost, raced>> /\ req[r].pc = "insert"
  BY DEF CreateSummary, SessionUnchanged
<1>3. req[r].kind = "end"
  BY <1>1, <1>2, WhoIsWhere
<1>4. CASE SummaryAllowed(r)
  <2>1. PICK row : row = [op |-> "insert", count |-> Len(ses[r].snapshot)]
    OBVIOUS
  <2>2. Len(ses[r].snapshot) \in Nat
    BY <1>1 DEF Session
  <2>3. row \in [op : {"none", "insert", "delete"}, count : Nat]
    BY <2>1, <2>2
  <2>4. PICK text : /\ req' = [req EXCEPT ![r].text = text, ![r].scope = "durable",
                                          ![r].pc = "policy"]
                    /\ ses' = [ses EXCEPT ![r].row = row]
    BY <1>4, <2>1 DEF CreateSummary
  <2>5. PICK s : s = [ses[r] EXCEPT !.row = row]
    OBVIOUS
  <2>6. s.snapshot = ses[r].snapshot /\ s.late = ses[r].late
    BY <1>1, <2>3, <2>5, RowUpdate
  <2>7. ses'[r] = s /\ \A q \in Requests \ {r} : ses'[q] = ses[q]
    BY <1>1, <2>4, <2>5
  <2>8. req'[r] = [req[r] EXCEPT !.text = text, !.scope = "durable", !.pc = "policy"]
    BY <1>1, <2>4
  <2>9. req'[r].pc = "policy" /\ req'[r].kind = "end"
    BY <1>1, <1>3, <2>8, FieldsOfRequest
  <2>10. Held(req[r], ses[r])'
    BY <1>1, <1>2, <1>3, <2>6, <2>7, <2>9, HeldEnding, PhasesAre
  <2> QED
    BY <1>2, <2>7, <2>10, HeldReads
<1>5. CASE ~SummaryAllowed(r)
  <2>1. UNCHANGED ses /\ Goto(r, "failed")
    BY <1>5 DEF CreateSummary
  <2>2. Moved(r, "failed")
    BY <2>1, MovedByGoto
  <2>3. Held(req[r], ses[r])'
    BY <2>2, HeldIdle, PhasesAre DEF Moved
  <2> QED
    BY <1>2, <2>1, <2>3, HeldReads
<1> QED
  BY <1>4, <1>5

LEMMA HeldDeleteSummary ==
    ASSUME SessionHeld, SessionBasic, RecordsInv, faults = 0, NEW r \in Requests, OthersStand(r),
           DeleteSummary(r)
    PROVE  SessionHeld'
<1>1. /\ ses \in [Requests -> Session] /\ ses[r] \in Session
      /\ GoodRecordRequest(req[r], records, now) /\ Held(req[r], ses[r])
  BY DEF SessionBasic, SessionTypeOK, RecordsInv, SessionHeld
<1>2. /\ req[r].pc = "unsummarise" /\ Goto(r, "commit")
      /\ UNCHANGED <<history, meta, summary, log, lost, raced>>
      /\ ses' = [ses EXCEPT ![r].row = IF summary = None THEN @ ELSE [NoRow EXCEPT !.op = "delete"]]
  BY DEF DeleteSummary, SessionUnchanged
<1>3. req[r].kind = "delete"
  BY <1>1, <1>2, WhoIsWhere
<1>4. Moved(r, "commit")
  BY <1>2, MovedByGoto
<1>5. PICK row : row = IF summary = None THEN ses[r].row ELSE [NoRow EXCEPT !.op = "delete"]
  OBVIOUS
<1>6. PICK s : s = [ses[r] EXCEPT !.row = row]
  OBVIOUS
<1>7. ses'[r] = s /\ \A q \in Requests \ {r} : ses'[q] = ses[q]
  BY <1>1, <1>2, <1>5, <1>6
<1>8. row.op = "none" => summary = None
  BY <1>5 DEF NoRow
<1>9. s.row = row
  <2>1. row \in [op : {"none", "insert", "delete"}, count : Nat]
    BY <1>1, <1>5 DEF Session, NoRow
  <2> QED
    BY <1>1, <1>6, <2>1, RowUpdate
<1>10. req'[r].alone \/ ~raced => Deleting(req[r], ses[r])'
  <2> HAVE req'[r].alone \/ ~raced
  <2>1. Deleting(req[r], ses[r])
    BY <1>1, <1>4 DEF Held, Moved
  <2>2. history = <<>> /\ meta = None
    BY <1>2, <1>3, <2>1 DEF Deleting
  <2> QED
    BY <1>2, <1>7, <1>8, <1>9, <2>2 DEF Deleting
<1>11. Held(req[r], ses[r])'
  BY <1>2, <1>3, <1>4, <1>10 DEF Held, SnapshotCovers, KeysSeen, CountedIn, Moved
<1> QED
  BY <1>2, <1>7, <1>11, HeldReads

LEMMA HeldRollback ==
    ASSUME SessionHeld, SessionBasic, RecordsInv, faults = 0, NEW r \in Requests, OthersStand(r),
           RollbackSession(r)
    PROVE  SessionHeld'
<1>1. /\ ses \in [Requests -> Session]
      /\ DOMAIN req = Requests /\ DOMAIN req[r] = RequestFields
  BY DEF SessionBasic, SessionTypeOK, RecordsInv, GoodRecordRequest
<1>2. /\ req' = [req EXCEPT ![r].pc = "failed", ![r].tx = NoTx]
      /\ ses' = [ses EXCEPT ![r].row = NoRow] /\ req[r].pc \in {"commit", "failed"}
      /\ UNCHANGED <<history, meta, summary, log, lost, raced>>
  BY DEF RollbackSession, SessionUnchanged
<1>3. req'[r] = [req[r] EXCEPT !.pc = "failed", !.tx = NoTx]
  BY <1>1, <1>2
<1>4. req'[r].pc = "failed"
  BY <1>1, <1>3, FieldsOfRequest
<1>5. Held(req[r], ses[r])'
  BY <1>4, HeldIdle, PhasesAre
<1>6. \A q \in Requests \ {r} : ses'[q] = ses[q]
  BY <1>1, <1>2
<1> QED
  BY <1>2, <1>5, <1>6, HeldReads

\* What message_count is checked against, typed.
LEMMA CountsTyped ==
    ASSUME SessionBasic
    PROVE  /\ Messages(log) \in Nat /\ Messages(log) <= Len(log) /\ Len(log) \in Nat
           /\ Summarised \in Nat /\ meta \in Nat \cup {None} /\ summary \in Nat \cup {None}
           /\ \A c \in Nat : c # None
<1>1. log \in Seq(Entry) /\ meta \in Nat \cup {None} /\ summary \in Nat \cup {None}
  BY DEF SessionBasic, SessionTypeOK
<1>2. Messages(log) \in Nat /\ Messages(log) <= Len(log)
  BY <1>1, MessagesCounted
<1>3. Len(log) \in Nat
  BY <1>1
<1>4. None \notin Nat
  BY MemoryAssumption
<1>5. Summarised \in Nat
  BY <1>1 DEF Summarised
<1>6. \A c \in Nat : c # None
  BY <1>4
<1> QED
  BY <1>1, <1>2, <1>3, <1>5, <1>6

\* A write of message_count.
LEMMA HeldSetMeta ==
    ASSUME SessionHeld, SessionBasic, RecordsInv, faults = 0, faults' = 0, NEW r \in Requests,
           NEW count \in Nat, NEW p \in {"ok", "append"}, SetMeta(r, count, p),
           Underway(req[r]), req[r].kind \in {"start", "add"},
           ~raced => Covers(count, 0) /\ (p = "append" => ses[r].count = count)
    PROVE  SessionHeld'
<1>1. PICK ok \in BOOLEAN :
          /\ Call(ok)
          /\ meta' = IF ok THEN count ELSE meta
          /\ Overtaking(r, [req[r] EXCEPT !.pc = p])
  BY DEF SetMeta
<1>2. SessionTypeOK /\ lost = {}
  BY DEF SessionBasic, SessionHeld
<1>3. ok = TRUE
  BY <1>1, <1>2, CallAnswers
<1>4. /\ meta' = count /\ UNCHANGED <<history, summary, ses, log, lost, raced>>
  BY <1>1, <1>3 DEF SetMeta
<1>5. Moved(r, p) /\ Overtaken(r)
  BY <1>1, MovedByOvertaking, OvertakenBy
<1>6. Spared(r)
  BY <1>4 DEF Spared, Entries
<1>7. count # None
  BY CountsTyped
<1>8. ~raced => Covers(meta, 0)'
  BY <1>4 DEF Covers, Summarised, Messages
<1>9. Held(req[r], ses[r])'
  <2>1. ~raced => CountedIn(req[r], ses[r])'
    BY <1>4, <1>5, <1>7, <1>8 DEF CountedIn, Moved
  <2> QED
    BY <1>4, <1>5, <2>1 DEF Held, SnapshotCovers, KeysSeen, Deleting, Moved
<1>10. ~raced => CountBalanced'
  BY <1>4, <1>7, <1>8 DEF CountBalanced
<1> QED
  BY <1>2, <1>4, <1>5, <1>6, <1>9, <1>10, HeldWrites

LEMMA HeldCounts ==
    ASSUME SessionHeld, SessionBasic, RecordsInv, faults = 0, faults' = 0, NEW r \in Requests,
           Restore(r) \/ CreateSession(r) \/ SetCount(r)
    PROVE  SessionHeld'
<1>1. /\ Held(req[r], ses[r]) /\ GoodRecordRequest(req[r], records, now)
      /\ ses[r] \in Session
  BY DEF SessionBasic, SessionTypeOK, SessionHeld, RecordsInv
<1>2. ses[r].count \in Nat
  BY <1>1 DEF Session
<1>3. /\ Messages(log) \in Nat /\ Len(log) \in Nat /\ Messages(log) <= Len(log)
      /\ Summarised \in Nat
  BY CountsTyped
<1>4. ~raced => CountedIn(req[r], ses[r])
  BY <1>1 DEF Held
<1>5. CASE Restore(r)
  <2>1. req[r].pc = "restore" /\ SetMeta(r, ses[r].count, "append")
    BY <1>5 DEF Restore
  <2>2. req[r].kind = "add" /\ Underway(req[r])
    BY <1>1, <2>1, WhoIsWhere, PhasesAre DEF Underway, SessionKinds
  <2>3. ~raced => Covers(ses[r].count, 0)
    <3> HAVE ~raced
    <3>1. meta = None /\ summary # None /\ ses[r].count = summary
      BY <1>4, <2>1 DEF CountedIn
    <3>2. Messages(log) = 0
      BY <2>1, <2>2, <3>1, CountFound
    <3>3. ses[r].count = Summarised
      BY <3>1 DEF Summarised
    <3> QED
      BY <1>3, <3>2, <3>3 DEF Covers
  <2>4. PICK c \in Nat : c = ses[r].count
    BY <1>2
  <2> QED
    BY <2>1, <2>2, <2>3, <2>4, HeldSetMeta
<1>6. CASE CreateSession(r)
  <2>1. req[r].pc = "create" /\ SetMeta(r, 0, WithMeta(r))
    BY <1>6 DEF CreateSession
  <2>2. req[r].kind \in {"start", "add"} /\ Underway(req[r])
    BY <1>1, <2>1, WhoIsWhere, PhasesAre DEF Underway, SessionKinds
  <2>3. ~raced => Covers(0, 0) /\ ses[r].count = 0
    <3> HAVE ~raced
    <3>1. meta = None /\ ses[r].count = 0
      BY <1>4, <2>1 DEF CountedIn
    <3>2. Messages(log) = 0
      BY <2>1, <2>2, <3>1, CountFound
    <3> QED
      BY <1>3, <3>1, <3>2 DEF Covers
  <2>4. PICK p \in {"ok", "append"} : p = WithMeta(r)
    BY DEF WithMeta
  <2> QED
    BY <2>1, <2>2, <2>3, <2>4, HeldSetMeta
<1>7. CASE SetCount(r)
  <2>1. req[r].pc = "counted" /\ SetMeta(r, ses[r].count + 1, "ok")
    BY <1>7 DEF SetCount, Counted
  <2>2. req[r].kind = "add" /\ Underway(req[r])
    BY <1>1, <2>1, WhoIsWhere, PhasesAre DEF Underway, SessionKinds
  <2>3. PICK c \in Nat : c = ses[r].count + 1
    BY <1>2
  <2>4. ~raced => Covers(c, 0)
    <3> HAVE ~raced
    <3>1. meta = ses[r].count /\ Covers(meta, 1)
      BY <1>4, <2>1 DEF CountedIn
    <3> QED
      BY <1>2, <1>3, <2>3, <3>1 DEF Covers
  <2> QED
    BY <2>1, <2>2, <2>3, <2>4, HeldSetMeta
<1> QED
  BY <1>5, <1>6, <1>7

\* What a push that Redis answered leaves.
LEMMA Pushed ==
    ASSUME SessionBasic, faults' = 0, NEW r \in Requests, NEW e \in Entry, NEW next,
           Push(r, e, next)
    PROVE  /\ log' = Append(log, e) /\ ses'[r] = next
           /\ Len(log') = Len(log) + 1
           /\ Messages(log)' \in Nat /\ Messages(log)' <= Messages(log) + 1
           /\ e = "[ENCRYPTED]" => Messages(log)' = Messages(log)
           /\ Spared(r)
<1>1. /\ SessionTypeOK /\ ses \in [Requests -> Session]
      /\ history \in Seq(Entry) /\ log \in Seq(Entry)
  BY DEF SessionBasic, SessionTypeOK
<1>2. PICK ok \in BOOLEAN :
          /\ Call(ok)
          /\ history' = IF ok THEN Trimmed(Append(history, e)) ELSE history
          /\ log' = IF ok THEN Append(log, e) ELSE log
          /\ ses' = [q \in Requests |->
                       IF q = r THEN next
                       ELSE IF ok THEN [ses[q] EXCEPT !.late = @ \cup {e}] ELSE ses[q]]
  BY DEF Push
<1>3. ok = TRUE
  BY <1>1, <1>2, CallAnswers
<1>4. /\ history' = Trimmed(Append(history, e)) /\ log' = Append(log, e)
      /\ ses' = [q \in Requests |->
                   IF q = r THEN next ELSE [ses[q] EXCEPT !.late = @ \cup {e}]]
  BY <1>2, <1>3
<1>5. Messages(log)' = Messages(Append(log, e))
  BY <1>4 DEF Messages
<1>6. /\ Messages(Append(log, e)) \in Nat
      /\ Messages(Append(log, e)) <= Messages(log) + 1
      /\ e = "[ENCRYPTED]" => Messages(Append(log, e)) = Messages(log)
  BY <1>1, MessagesPushed
<1>7. Entries(history)' \subseteq Entries(history) \cup {e}
  <2>1. Entries(history)' = Entries(Trimmed(Append(history, e)))
    BY <1>4 DEF Entries
  <2> QED
    BY <1>1, <2>1, TrimmedEntries
<1>8. Spared(r)
  <2> SUFFICES ASSUME NEW q \in Requests \ {r}
               PROVE  /\ ses'[q].snapshot = ses[q].snapshot
                      /\ ses[q].late \subseteq ses'[q].late
                      /\ Entries(history)' \subseteq Entries(history) \cup ses'[q].late
    BY DEF Spared
  <2>1. PICK z : z = [ses[q] EXCEPT !.late = @ \cup {e}]
    OBVIOUS
  <2>2. ses'[q] = z /\ ses[q] \in Session
    BY <1>1, <1>4, <2>1
  <2>3. z.snapshot = ses[q].snapshot /\ z.late = ses[q].late \cup {e}
    BY <2>1, <2>2, LateUpdate
  <2> QED
    BY <1>7, <2>2, <2>3
<1>9. ses'[r] = next /\ Len(log') = Len(log) + 1
  BY <1>1, <1>4
<1> QED
  BY <1>4, <1>5, <1>6, <1>8, <1>9

LEMMA HeldAppend ==
    ASSUME SessionHeld, SessionBasic, RecordsInv, faults = 0, faults' = 0, NEW r \in Requests,
           AppendToHistory(r)
    PROVE  SessionHeld'
<1>1. /\ Held(req[r], ses[r]) /\ GoodRecordRequest(req[r], records, now) /\ lost = {}
  BY DEF SessionHeld, RecordsInv
<1>2. /\ req[r].pc = "append" /\ Push(r, r, ses[r]) /\ UNCHANGED <<meta, summary, lost, raced>>
      /\ Overtaking(r, [req[r] EXCEPT !.pc = "counted"])
  BY DEF AppendToHistory
<1>3. /\ ses'[r] = ses[r] /\ Len(log') = Len(log) + 1 /\ Spared(r)
      /\ Messages(log)' \in Nat /\ Messages(log)' <= Messages(log) + 1
  BY <1>2, Pushed, EntriesAre
<1>4. Moved(r, "counted") /\ Overtaken(r)
  BY <1>2, MovedByOvertaking, OvertakenBy
<1>5. req[r].kind = "add" /\ Underway(req[r])
  BY <1>1, <1>2, WhoIsWhere, PhasesAre DEF Underway, SessionKinds
<1>6. ~raced => CountedIn(req[r], ses[r])'
  <2> HAVE ~raced
  <2>1. meta # None /\ ses[r].count = meta /\ Covers(meta, 0)
    BY <1>1, <1>2 DEF Held, CountedIn
  <2>2. meta \in Nat /\ Messages(log) \in Nat /\ Len(log) \in Nat /\ Summarised \in Nat
    BY <2>1, CountsTyped
  <2>3. Messages(log) <= meta /\ meta <= Len(log) + Summarised
    BY <2>1, <2>2 DEF Covers
  <2>4. Messages(log)' <= meta + 1 /\ meta + 1 <= Len(log') + Summarised
    BY <1>3, <2>2, <2>3
  <2>5. Summarised' = Summarised
    BY <1>2 DEF Summarised
  <2>6. Covers(meta, 1)'
    BY <1>2, <2>4, <2>5 DEF Covers
  <2> QED
    BY <1>2, <1>3, <1>4, <2>1, <2>6 DEF CountedIn, Moved
<1>7. Held(req[r], ses[r])'
  BY <1>2, <1>4, <1>5, <1>6 DEF Held, SnapshotCovers, KeysSeen, Deleting, Moved
<1>8. CountBalanced'
  BY <1>4 DEF CountBalanced, Moved
<1> QED
  BY <1>1, <1>2, <1>3, <1>4, <1>5, <1>7, <1>8, HeldWrites

LEMMA HeldRefill ==
    ASSUME SessionHeld, SessionBasic, RecordsInv, faults = 0, faults' = 0, NEW r \in Requests,
           Refill(r)
    PROVE  SessionHeld'
<1>1. /\ GoodRecordRequest(req[r], records, now) /\ lost = {}
  BY DEF SessionHeld, RecordsInv
<1>2. /\ req[r].pc = "refill" /\ UNCHANGED <<meta, summary, lost, raced>>
      /\ Push(r, "[ENCRYPTED]", [ses[r] EXCEPT !.refill = @ - 1])
      /\ Overtaking(r, [req[r] EXCEPT !.pc = IF ses[r].refill = 1 THEN "ok" ELSE @])
  BY DEF Refill
<1>3. PICK next : next = [ses[r] EXCEPT !.refill = @ - 1]
  OBVIOUS
<1>4. /\ Len(log') = Len(log) + 1 /\ Spared(r) /\ Messages(log)' = Messages(log)
  BY <1>2, <1>3, Pushed, EntriesAre
<1>5. PICK p \in {"ok", "refill"} : p = IF ses[r].refill = 1 THEN "ok" ELSE "refill"
  OBVIOUS
<1>6. Overtaking(r, [req[r] EXCEPT !.pc = p])
  <2>1. [req[r] EXCEPT !.pc = IF ses[r].refill = 1 THEN "ok" ELSE @] = [req[r] EXCEPT !.pc = p]
    BY <1>2, <1>5
  <2> QED
    BY <1>2, <2>1
<1>7. Moved(r, p) /\ Overtaken(r)
  BY <1>6, MovedByOvertaking, OvertakenBy
<1>8. req[r].kind = "context" /\ Underway(req[r])
  BY <1>1, <1>2, WhoIsWhere, PhasesAre DEF Underway, SessionKinds
<1>9. Held(req[r], ses[r])'
  BY <1>7, <1>8, HeldIdle DEF Moved
<1>10. ~raced => CountBalanced'
  <2> HAVE ~raced
  <2>1. IF meta = None THEN Messages(log) = 0 ELSE Covers(meta, 0)
    BY <1>2, <1>8, CountFound
  <2>2. CASE meta = None
    BY <1>2, <1>4, <2>1, <2>2 DEF CountBalanced
  <2>3. CASE meta # None
    <3>1. meta \in Nat /\ Messages(log) \in Nat /\ Len(log) \in Nat /\ Summarised \in Nat
      BY <2>3, CountsTyped
    <3>2. Messages(log) <= meta /\ meta <= Len(log) + Summarised
      BY <2>1, <2>3, <3>1 DEF Covers
    <3>3. Messages(log)' <= meta + 0 /\ meta + 0 <= Len(log') + Summarised
      BY <1>4, <3>1, <3>2
    <3>4. Summarised' = Summarised
      BY <1>2 DEF Summarised
    <3>5. Covers(meta, 0)'
      BY <1>2, <3>3, <3>4 DEF Covers
    <3> QED
      BY <1>2, <2>3, <3>5 DEF CountBalanced
  <2> QED
    BY <2>2, <2>3
<1> QED
  BY <1>1, <1>2, <1>4, <1>7, <1>8, <1>9, <1>10, HeldWrites

LEMMA HeldDeleteKeys ==
    ASSUME SessionHeld, SessionBasic, RecordsInv, faults = 0, faults' = 0, NEW r \in Requests,
           DeleteKeys(r)
    PROVE  SessionHeld'
<1>1. /\ SessionTypeOK /\ lost = {} /\ RecentKept
      /\ history \in Seq(Entry) /\ log \in Seq(Entry)
      /\ GoodRecordRequest(req[r], records, now) /\ Held(req[r], ses[r])
  BY DEF SessionHeld, SessionBasic, SessionTypeOK, RecordsInv
<1>2. /\ UNCHANGED <<summary, ses, raced>> /\ req[r].pc = "unlink"
      /\ Overtaking(r, [req[r] EXCEPT !.pc = AfterClear(r)])
  BY DEF DeleteKeys
<1>3. ~Call(FALSE)
  BY <1>1, CallAnswers
<1>4. /\ \/ "history" \in ses[r].keys /\ history' = <<>> /\ log' = <<>>
         \/ "history" \notin ses[r].keys /\ UNCHANGED <<history, log>>
      /\ \/ "meta" \in ses[r].keys /\ meta' = None
         \/ "meta" \notin ses[r].keys /\ meta' = meta
      /\ \/ lost' = lost
         \/ /\ req[r].kind = "end"
            /\ lost' = lost \cup (Entries(history)
                                    \ (Entries(ses[r].snapshot) \cup ses[r].late))
  BY <1>3, KeysDeleted
<1>5. Moved(r, AfterClear(r)) /\ Overtaken(r)
  BY <1>2, MovedByOvertaking, OvertakenBy
<1>6. req[r].kind \in {"end", "delete"} /\ Underway(req[r])
  BY <1>1, <1>2, WhoIsWhere, PhasesAre DEF Underway, SessionKinds
<1>7. Entries(history)' \subseteq Entries(history)
  BY <1>4 DEF Entries
<1>8. Spared(r)
  BY <1>2, <1>7 DEF Spared
<1>9. req[r].kind = "end" => Entries(history) \subseteq Entries(ses[r].snapshot) \cup ses[r].late
  BY <1>1, <1>2, PhasesAre DEF Held, SnapshotCovers
<1>10. lost' = {}
  BY <1>1, <1>4, <1>9
<1>11. req[r].alone \/ ~raced => history' = <<>> /\ meta' = None
  BY <1>1, <1>2, <1>4 DEF Held, KeysSeen
<1>12. history' = <<>> => log' = <<>>
  <2>1. CASE history' = history /\ log' = log
    <3> HAVE history' = <<>>
    <3>1. Len(history) = 0 /\ Len(log) \in Nat /\ MaxEntries \in Nat \ {0}
      BY <1>1, <2>1, SessionAssumption
    <3>2. Len(log) = 0
      BY <1>1, <3>1 DEF RecentKept
    <3> QED
      BY <1>1, <2>1, <3>2
  <2> QED
    BY <1>4, <2>1
<1>13. ~raced => CountBalanced'
  <2> HAVE ~raced
  <2>1. log' = <<>> /\ meta' = None
    BY <1>11, <1>12
  <2>2. Messages(log)' = 0
    BY <2>1, NoMessages DEF Messages
  <2> QED
    BY <2>1, <2>2 DEF CountBalanced
<1>14. Held(req[r], ses[r])'
  <2>1. CASE req[r].kind = "end"
    <3>1. req'[r].pc = "commit" /\ req'[r].kind = "end"
      BY <1>5, <2>1 DEF Moved, AfterClear
    <3>2. Entries(ses[r].snapshot)' = Entries(ses[r].snapshot) /\ ses'[r].late = ses[r].late
      BY <1>2 DEF Entries
    <3>3. SnapshotCovers(req[r], ses[r])'
      BY <1>7, <1>9, <2>1, <3>2 DEF SnapshotCovers
    <3> QED
      BY <3>1, <3>3 DEF Held, KeysSeen, Deleting, CountedIn
  <2>2. CASE req[r].kind = "delete"
    <3>1. req'[r].pc = "unsummarise" /\ req'[r].kind = "delete"
          /\ req'[r].alone = req[r].alone
      BY <1>5, <2>2 DEF Moved, AfterClear
    <3>2. req[r].alone \/ ~raced => Deleting(req[r], ses[r])'
      BY <1>11, <3>1 DEF Deleting
    <3> QED
      BY <1>2, <3>1, <3>2 DEF Held, SnapshotCovers, KeysSeen, CountedIn
  <2> QED
    BY <1>6, <2>1, <2>2
<1> QED
  BY <1>2, <1>5, <1>6, <1>8, <1>10, <1>13, <1>14, HeldWrites

LEMMA HeldCommit ==
    ASSUME SessionHeld, SessionBasic, RecordsInv, faults = 0, NEW r \in Requests,
           CommitSession(r)
    PROVE  SessionHeld'
<1>1. /\ ses \in [Requests -> Session] /\ ses[r] \in Session /\ lost = {}
      /\ GoodRecordRequest(req[r], records, now) /\ Held(req[r], ses[r])
      /\ GoodSession(req[r], ses[r])
  BY DEF SessionHeld, SessionBasic, SessionTypeOK, RecordsInv
<1>2. /\ req[r].pc = "commit" /\ req[r].kind \in {"end", "delete"}
      /\ summary' = SummaryAfter(ses[r].row)
      /\ ses' = [ses EXCEPT ![r].row = NoRow]
      /\ Overtaking(r, [req[r] EXCEPT !.pc = "ok"])
      /\ UNCHANGED <<history, meta, log, lost, raced>>
  BY DEF CommitSession
<1>3. Moved(r, "ok") /\ Overtaken(r)
  BY <1>2, MovedByOvertaking, OvertakenBy
<1>4. Underway(req[r])
  BY <1>2, PhasesAre DEF Underway, SessionKinds
<1>5. Spared(r)
  <2>1. \A q \in Requests \ {r} : ses'[q] = ses[q]
    BY <1>1, <1>2
  <2> QED
    BY <1>2, <2>1 DEF Spared, Entries
<1>6. Held(req[r], ses[r])'
  BY <1>3, HeldIdle, PhasesAre DEF Moved
<1>7. ~raced => CountBalanced'
  <2> HAVE ~raced
  <2>1. IF meta = None THEN Messages(log) = 0 ELSE Covers(meta, 0)
    BY <1>2, <1>4, CountFound
  <2>2. Messages(log)' = Messages(log)
    BY <1>2 DEF Messages
  <2>3. CASE meta = None
    BY <1>2, <2>1, <2>2, <2>3 DEF CountBalanced
  <2>4. CASE meta # None
    <3>1. /\ meta \in Nat /\ Messages(log) \in Nat /\ Len(log) \in Nat /\ Summarised \in Nat
      BY <2>4, CountsTyped
    <3>2. Messages(log) <= meta /\ meta <= Len(log) + Summarised
      BY <2>1, <2>4, <3>1 DEF Covers
    <3>3. ses[r].row \in [op : {"none", "insert", "delete"}, count : Nat]
      BY <1>1 DEF Session
    <3>4. ses[r].row.op # "delete"
      <4> SUFFICES ASSUME ses[r].row.op = "delete" PROVE FALSE
        OBVIOUS
      <4>1. req[r].kind = "delete"
        BY <1>1 DEF GoodSession
      <4> QED
        BY <1>1, <1>2, <2>4, <4>1 DEF Held, Deleting
    <3>5. Summarised' \in Nat /\ Summarised <= Summarised'
      <4>1. CASE ses[r].row.op = "none"
        BY <1>2, <3>1, <4>1 DEF SummaryAfter, Summarised
      <4>2. CASE ses[r].row.op = "insert"
        <5>1. summary = None /\ summary' = ses[r].row.count
          BY <1>1, <1>2, <4>2 DEF GoodSession, SummaryAfter
        <5>2. summary' \in Nat
          BY <3>3, <5>1
        <5> QED
          BY <5>1, <5>2, CountsTyped DEF Summarised
      <4> QED
        BY <3>3, <3>4, <4>1, <4>2
    <3>6. Messages(log)' <= meta + 0 /\ meta + 0 <= Len(log) + Summarised'
      BY <2>2, <3>1, <3>2, <3>5
    <3>7. Covers(meta, 0)'
      BY <1>2, <3>6 DEF Covers
    <3> QED
      BY <1>2, <2>4, <3>7 DEF CountBalanced
  <2> QED
    BY <2>3, <2>4
<1> QED
  BY <1>1, <1>2, <1>3, <1>4, <1>5, <1>6, <1>7, HeldWrites

LEMMA HeldStep ==
    ASSUME SessionHeld, SessionBasic, RecordsInv, RecordsInv', [StoreNext]_storeVars
    PROVE  SessionHeld'
<1> SUFFICES ASSUME faults' = 0 PROVE SessionHeld'
  <2>1. faults' # 0 => SessionHeld'
    BY DEF SessionHeld
  <2> QED
    BY <2>1
<1>0. SessionTypeOK /\ faults \in 0..MaxFaults /\ MaxFaults \in Nat
  BY SessionAssumption DEF SessionBasic, SessionTypeOK
<1>1. CASE (Tick /\ UNCHANGED sessionVars) \/ UNCHANGED storeVars
  <2>1. UNCHANGED <<req, history, meta, summary, ses, log, lost, raced, faults>>
    BY <1>1 DEF Tick, sessionVars, storeVars, recordVars
  <2>2. ASSUME NEW r \in Requests, Held(req[r], ses[r]) PROVE Held(req[r], ses[r])'
    <3>1. SnapshotCovers(req[r], ses[r]) => SnapshotCovers(req[r], ses[r])'
      BY <2>1 DEF SnapshotCovers, Entries
    <3>2. KeysSeen(req[r], ses[r]) => KeysSeen(req[r], ses[r])'
      BY <2>1 DEF KeysSeen
    <3>3. Deleting(req[r], ses[r]) => Deleting(req[r], ses[r])'
      BY <2>1 DEF Deleting
    <3>4. CountedIn(req[r], ses[r]) => CountedIn(req[r], ses[r])'
      BY <2>1 DEF CountedIn, Covers, Summarised, Messages
    <3> QED
      BY <2>1, <2>2, <3>1, <3>2, <3>3, <3>4 DEF Held
  <2>3. CountBalanced => CountBalanced'
    BY <2>1 DEF CountBalanced, Covers, Summarised, Messages
  <2> QED
    BY <2>1, <2>2, <2>3 DEF SessionHeld
<1>2. ASSUME NEW r \in Requests, (RecordRequest(r) \/ WritePipeline(r)) /\ UNCHANGED sessionVars
      PROVE  SessionHeld'
  <2>1. OthersStand(r) /\ faults = 0
    BY <1>2, OthersFrame DEF Steps, sessionVars
  <2> QED
    BY <1>2, <2>1, HeldRecord
<1>3. ASSUME NEW r \in Requests, SessionRequest(r)
      PROVE  SessionHeld'
  <2>1. OthersStand(r)
    BY <1>3, OthersFrame DEF Steps
  <2>2. faults = 0
    <3>1. \A ok \in BOOLEAN : Call(ok) => faults = 0
      BY <1>0, CallTyped
    <3>2. \/ faults' = faults
          \/ \E ok \in BOOLEAN : Call(ok)
      BY <1>3 DEF SessionRequest, StartSession, AddToSession, GetSessionContext, EndSession,
         DeleteSession, Begin, ListSessions, sessionVars, GetMeta, GetBySessionId, Exists,
         Restore, CreateSession, SetMeta, AppendToHistory, Refill, Push, SetCount,
         RecentHistory, SearchConversation, GetFullHistory, CreateSummary, ScanKeys,
         DeleteKeys, DeleteSummary, CommitSession, RollbackSession
    <3> QED
      BY <3>1, <3>2
  <2> QED
    BY <1>3, <2>1, <2>2, HeldBegins, HeldListSessions, HeldGets, HeldCounts, HeldAppend,
       HeldSearch, HeldRefill, HeldSnapshot, HeldScan, HeldCreateSummary, HeldDeleteKeys,
       HeldDeleteSummary, HeldCommit, HeldRollback DEF SessionRequest
<1>4. CASE KeyExpires
  <2>1. faults' = faults + 1
    BY <1>4 DEF KeyExpires
  <2> QED
    BY <1>0, <2>1
<1> QED
  BY <1>1, <1>2, <1>3, <1>4 DEF StoreNext

LEMMA HeldStart ==
    ASSUME StoreInit
    PROVE  SessionHeld
<1>1. SessionBasic
  BY BasicStart
<1>2. /\ log = history /\ lost = {} /\ summary \in Nat \cup {None}
      /\ req = [r \in Requests |-> RecordFields]
      /\ \/ meta = None /\ history = <<>>
         \/ meta \in Len(history)..(Len(history) + Summarised)
  BY DEF StoreInit, Summarised
<1>3. \A r \in Requests : req[r].pc = "new" /\ req[r].kind = None
  BY <1>2 DEF RecordFields
<1>4. \A r \in Requests : Held(req[r], ses[r])
  BY <1>3, PhasesAre DEF Held, SnapshotCovers, KeysSeen, Deleting, CountedIn
<1>5. /\ Messages(log) \in Nat /\ Messages(log) <= Len(log) /\ Len(log) \in Nat
      /\ Summarised \in Nat /\ \A c \in Nat : c # None
  BY <1>1, CountsTyped
<1>6. CountBalanced
  <2>1. CASE meta = None /\ history = <<>>
    <3>1. Messages(log) = 0
      BY <1>2, <2>1, NoMessages
    <3> QED
      BY <2>1, <3>1 DEF CountBalanced
  <2>2. CASE meta \in Len(log)..(Len(log) + Summarised)
    <3>1. meta \in Nat /\ Len(log) <= meta /\ meta <= Len(log) + Summarised
      BY <1>5, <2>2
    <3>2. Covers(meta, 0)
      BY <1>5, <3>1 DEF Covers
    <3> QED
      BY <1>5, <3>1, <3>2 DEF CountBalanced
  <2> QED
    BY <1>2, <2>1, <2>2
<1> QED
  BY <1>2, <1>4, <1>6 DEF SessionHeld

\* The invariant of the store: of its tables, of its keys, and of every request on
\* them.
THEOREM StoreInvariance == StoreSpec => []StoreInv
<1>1. StoreInit => StoreInv
  BY RecordsStart, BasicStart, HeldStart DEF StoreInv
<1>2. StoreInv /\ [StoreNext]_storeVars => StoreInv'
  BY RecordsStep, BasicStep, HeldStep DEF StoreInv
<1> QED
  BY <1>1, <1>2, PTL DEF StoreSpec

\* The messages of a session are in the list, in their order, or were summarised,
\* and are counted, whichever requests add, read, end and delete at once.
THEOREM MessagesAreKept == StoreSpec => []MessagesKept
<1>1. StoreInv => MessagesKept
  <2> SUFFICES ASSUME StoreInv PROVE MessagesKept
    OBVIOUS
  <2>1. SessionBasic /\ SessionHeld
    BY DEF StoreInv
  <2>2. SessionTypeOK /\ RecentKept
    BY <2>1 DEF SessionBasic
  <2>3. EndingKeepsMessages
    BY <2>1 DEF SessionHeld, EndingKeepsMessages
  <2>4. CountBetween
    <3> SUFFICES ASSUME ~raced, faults = 0, meta # None, Active = {}
                 PROVE  /\ meta >= Messages(log)
                        /\ meta <= Len(log) + Summarised
      BY DEF CountBetween, Messages, Summarised
    <3>1. \A r \in Requests : req[r].pc # "counted"
      BY PhasesAre DEF Active
    <3>2. Covers(meta, 0)
      BY <2>1, <3>1 DEF SessionHeld, CountBalanced
    <3>3. /\ meta \in Nat /\ Messages(log) \in Nat /\ Len(log) \in Nat /\ Summarised \in Nat
      BY <2>1, CountsTyped
    <3> QED
      BY <3>2, <3>3 DEF Covers
  <2> QED
    BY <2>2, <2>3, <2>4 DEF MessagesKept
<1> QED
  BY <1>1, StoreInvariance, PTL

\* Nothing but a commit changes the summary.
LEMMA SummaryOfCommit ==
    ASSUME [StoreNext]_storeVars, summary' # summary
    PROVE  \E r \in Requests : CommitSession(r)
<1>1. PICK s \in Requests : SessionRequest(s)
  BY DEF StoreNext, KeyExpires, sessionVars, storeVars
<1>2. CommitSession(s)
  BY <1>1 DEF SessionRequest, StartSession, AddToSession, GetSessionContext, EndSession,
     DeleteSession, ListSessions, Begin, GetMeta, GetBySessionId, Exists, Restore,
     CreateSession, AppendToHistory, SetCount, RecentHistory, SearchConversation, Refill,
     GetFullHistory, CreateSummary, ScanKeys, DeleteKeys, DeleteSummary, RollbackSession,
     Got, SetMeta, SessionUnchanged, sessionVars
<1> QED
  BY <1>2

LEMMA OnlyDeletionsTake ==
    ASSUME StoreInv, [StoreNext]_storeVars, summary # None, summary' # summary
    PROVE  summary' = None /\ \E r \in Requests : req[r].kind = "delete" /\ req'[r].pc = "ok"
<1>1. PICK r \in Requests : CommitSession(r)
  BY SummaryOfCommit
<1>2. /\ RecordsInv /\ GoodSession(req[r], ses[r])
      /\ ses[r].row.op \in {"none", "insert", "delete"}
  BY RowsOf DEF StoreInv, SessionBasic
<1>3. summary' = SummaryAfter(ses[r].row) /\ Overtaking(r, [req[r] EXCEPT !.pc = "ok"])
  BY <1>1 DEF CommitSession
<1>4. ses[r].row.op = "delete"
  BY <1>2, <1>3 DEF GoodSession, SummaryAfter
<1>5. Moved(r, "ok")
  BY <1>2, <1>3, MovedByOvertaking
<1> QED
  BY <1>2, <1>3, <1>4, <1>5 DEF GoodSession, SummaryAfter, Moved

LEMMA DeletionTakesAll ==
    ASSUME StoreInv, [StoreNext]_storeVars, NEW r \in Requests,
           req[r].kind = "delete", req[r].pc = "commit", req'[r].pc = "ok",
           req[r].alone, faults = 0
    PROVE  history' = <<>> /\ meta' = None /\ summary' = None
<1>1. /\ RecordsInv /\ GoodSession(req[r], ses[r]) /\ Held(req[r], ses[r])
      /\ ses[r].row.op \in {"none", "insert", "delete"}
  BY RowsOf DEF StoreInv, SessionBasic, SessionHeld
<1>2. CommitSession(r)
  <2>1. CommitRecords(r) \/ CommitSession(r)
    BY <1>1, CommitEnds
  <2> QED
    BY <2>1 DEF CommitRecords
<1>3. UNCHANGED <<history, meta>> /\ summary' = SummaryAfter(ses[r].row)
  BY <1>2 DEF CommitSession
<1>4. /\ history = <<>> /\ meta = None
      /\ ses[r].row.op = "none" => summary = None
  BY <1>1 DEF Held, Deleting
<1>5. ses[r].row.op # "insert"
  BY <1>1 DEF GoodSession
<1> QED
  BY <1>1, <1>3, <1>4, <1>5 DEF SummaryAfter

\* A summary, once stored, is never replaced, and a deletion that nothing overtook
\* takes the list, its data and the summary.
THEOREM DeletionEnds == StoreSpec => DeletionEndsAll
<1>1. StoreInv /\ [StoreNext]_storeVars =>
        [/\ summary # None /\ summary' # summary
              => summary' = None
                 /\ \E r \in Requests : req[r].kind = "delete" /\ req'[r].pc = "ok"
         /\ \A r \in Requests :
              (req[r].kind = "delete" /\ req[r].pc = "commit" /\ req'[r].pc = "ok"
                 /\ req[r].alone /\ faults = 0)
              => history' = <<>> /\ meta' = None /\ summary' = None]_sessionVars
  BY OnlyDeletionsTake, DeletionTakesAll
<1> QED
  BY <1>1, StoreInvariance, PTL DEF StoreSpec, DeletionEndsAll

-----------------------------------------------------------------------------
(* What requests store.                                                    *)

\* The phases in which a request has a text, a sequence of tokens.
Texted == {"policy", "count", "storage", "prepare", "store"}

\* Every token of the text is in a chunk that was stored, or is still to be.
TextStored(q) ==
    \A i \in DOMAIN q.text :
        q.text[i] # "space" =>
          \/ \E m \in q.tx.inserted : m.part.start < i /\ i <= m.part.end
          \/ q.pc = "store" /\ \E k \in DOMAIN q.chunks : q.chunks[k].start < i /\ i <= q.chunks[k].end

GoodStored(q, r) ==
    /\ \A m \in q.tx.inserted : m \in Record /\ m.by = r /\ ~m.clear
    /\ \A m \in q.served : ~m.clear
    /\ q.pc \in Texted => IsText(q.text)
    /\ q.pc = "store" => /\ \A i \in q.found : q.text[i] = "[REDACTED]"
                         /\ q.label \in AllowedUseLabel
                         /\ q.chunks \in Seq(Chunk(q.text)) /\ q.chunks # <<>>
    /\ q.pc = "store" \/ (q.kind = "write" /\ q.pc = "commit") => TextStored(q)

TablesStored ==
    /\ \A m \in records \cup outbox : m \in Record
    /\ \A m \in records : ~m.clear
    /\ now \in Times

StoredInv ==
    /\ TablesStored
    /\ \A r \in Requests : GoodStored(req[r], r)
    /\ ReportAgrees

\* A request's step keeps what the request has stored, and only enforce_quotas
\* reports.
StoresWell(r) ==
    /\ GoodStored(req'[r], r)
    /\ req'[r].kind = "cleanup" /\ req'[r].pc = "commit" => EnforceQuotas(r)

LEMMA CalmStored ==
    ASSUME NEW r, NEW n, \A m \in n.tx.inserted : m \in Record /\ m.by = r /\ ~m.clear,
           \A m \in n.served : ~m.clear, n.pc \in Texted => IsText(n.text),
           n.pc # "store", ~(n.kind = "write" /\ n.pc = "commit")
    PROVE  GoodStored(n, r)
BY DEF GoodStored

\* A request that is no longer alone has stored as much.
LEMMA OvertakenStored ==
    ASSUME NEW r, NEW q, DOMAIN q = RequestFields, GoodStored(q, r),
           NEW n, n = q \/ n = [q EXCEPT !.alone = FALSE]
    PROVE  GoodStored(n, r)
<1>1. CASE n = q
  BY <1>1
<1>2. CASE n = [q EXCEPT !.alone = FALSE]
  <2>1. /\ n.tx = q.tx /\ n.served = q.served /\ n.pc = q.pc /\ n.text = q.text
        /\ n.label = q.label /\ n.chunks = q.chunks /\ n.kind = q.kind /\ n.found = q.found
    BY <1>2, FieldsOfRequest
  <2>2. TextStored(q) => TextStored(n)
    BY <2>1 DEF TextStored
  <2> QED
    BY <2>1, <2>2 DEF GoodStored
<1> QED
  BY <1>1, <1>2

\* A request that is over.
LEMMA OverStored ==
    ASSUME NEW r, NEW pc \in {"ok", "refused", "failed"}
    PROVE  GoodStored(Over(r, pc), r)
<1> DEFINE n == Over(r, pc)
<1>1. n.tx = NoTx /\ n.served = {} /\ n.pc = pc
  BY DEF Over, RecordFields
<1> HIDE DEF n
<1>2. n.tx.inserted = {}
  BY <1>1 DEF NoTx
<1>3. n.pc \notin Texted /\ n.pc # "store" /\ n.pc # "commit"
  BY <1>1 DEF Texted
<1>4. GoodStored(n, r)
  BY <1>1, <1>2, <1>3, CalmStored
<1> QED
  BY <1>4 DEF n

LEMMA FreshStored ==
    ASSUME NEW r
    PROVE  GoodStored(RecordFields, r)
<1>1. RecordFields.tx = NoTx /\ RecordFields.served = {} /\ RecordFields.pc = "new"
  BY DEF RecordFields
<1>2. NoTx.inserted = {}
  BY DEF NoTx
<1> QED
  BY <1>1, <1>2 DEF GoodStored, Texted

\* A step that goes on without storing.
LEMMA GoesOnStored ==
    ASSUME NEW r, NEW q, DOMAIN q = RequestFields, GoodStored(q, r), NEW p,
           p \notin Texted, ~(q.kind = "write" /\ p = "commit"),
           NEW n, n = [q EXCEPT !.pc = p]
    PROVE  GoodStored(n, r)
<1>1. n.tx = q.tx /\ n.served = q.served /\ n.pc = p /\ n.kind = q.kind
  BY FieldsOfRequest
<1>2. p # "store"
  BY DEF Texted
<1> QED
  BY <1>1, <1>2, CalmStored DEF GoodStored

-----------------------------------------------------------------------------
(* The steps of a write.                                                   *)

LEMMA WriteMemoryStored ==
    ASSUME RecordsInv, NEW r \in Requests, WriteMemory(r)
    PROVE  StoresWell(r)
<1>1. PICK text \in Texts, scope \in MemoryScope :
         req' = [req EXCEPT ![r] =
               [Begun(r, "write", IF TooLarge(Normalized(text)) THEN "refused" ELSE "policy")
                  EXCEPT !.text = Normalized(text), !.scope = scope]]
  BY DEF WriteMemory
<1> DEFINE normal == Normalized(text)
           pc == IF TooLarge(normal) THEN "refused" ELSE "policy"
           n == [Begun(r, "write", pc) EXCEPT !.text = normal, !.scope = scope]
<1>2. req[r] = RecordFields /\ DOMAIN req = Requests
  BY DEF RecordsInv, GoodRecordRequest, WriteMemory
<1>3. IsText(text)
  BY MemoryAssumption DEF IsText
<1>4. IsText(normal)
  BY <1>3, NormalizedIsText
<1>5. pc \in {"refused", "policy"}
  OBVIOUS
<1>6. req'[r] = n
  BY <1>1, <1>2
<1> HIDE DEF normal, pc
<1>7. n.tx = NoTx /\ n.served = {} /\ n.pc = pc /\ n.text = normal /\ n.kind = "write"
  BY <1>2 DEF Begun, RecordFields
<1> HIDE DEF n
<1>8. n.tx.inserted = {}
  BY <1>7 DEF NoTx
<1>9. GoodStored(n, r)
  BY <1>4, <1>5, <1>7, <1>8, CalmStored
<1> QED
  BY <1>5, <1>6, <1>7, <1>9 DEF StoresWell

LEMMA CheckStored ==
    ASSUME RecordsInv, NEW r \in Requests, GoodStored(req[r], r),
           GetPolicy(r) \/ CountRecords(r) \/ CheckQuota(r) \/ StoreFails(r)
    PROVE  StoresWell(r)
<1> DEFINE q == req[r]
<1>1. DOMAIN q = RequestFields /\ DOMAIN req = Requests
  BY DEF RecordsInv, GoodRecordRequest
<1>2. ASSUME NEW n, n.tx = q.tx, n.served = q.served, n.text = q.text, n.kind = q.kind,
             n.pc \in {"prepare", "count", "storage"}, q.pc \in Texted, req'[r] = n
      PROVE  StoresWell(r)
  <2>1. GoodStored(n, r)
    BY <1>2, CalmStored DEF GoodStored
  <2> QED
    BY <1>2, <2>1 DEF StoresWell
<1>3. CASE GetPolicy(r)
  <2> DEFINE n == [q EXCEPT !.policy = policies[q.scope],
                            !.pc = IF policies[q.scope] = None THEN "prepare" ELSE "count"]
  <2>1. req'[r] = n /\ q.pc = "policy"
    BY <1>1, <1>3 DEF GetPolicy
  <2>2. n.tx = q.tx /\ n.served = q.served /\ n.text = q.text /\ n.kind = q.kind
        /\ n.pc \in {"prepare", "count"}
    BY <1>1, FieldsOfRequest
  <2> HIDE DEF n, q
  <2> QED
    BY <1>2, <2>1, <2>2 DEF Texted
<1>4. CASE CountRecords(r)
  <2> DEFINE n == [q EXCEPT !.count = CountByTenant(q.tx, q.scope), !.pc = "storage"]
  <2>1. req'[r] = n /\ q.pc = "count"
    BY <1>1, <1>4 DEF CountRecords
  <2>2. n.tx = q.tx /\ n.served = q.served /\ n.text = q.text /\ n.kind = q.kind
        /\ n.pc = "storage"
    BY <1>1, FieldsOfRequest
  <2> HIDE DEF n, q
  <2> QED
    BY <1>2, <2>1, <2>2 DEF Texted
<1>5. ASSUME req'[r] = Over(r, "failed") PROVE StoresWell(r)
  <2>1. Over(r, "failed").pc = "failed"
    BY OverIs
  <2> QED
    BY <1>5, <2>1, OverStored DEF StoresWell
<1>6. CASE CheckQuota(r)
  <2> DEFINE n == [q EXCEPT !.pc = "prepare"]
  <2>1. req'[r] = Over(r, "failed") \/ req'[r] = n
    BY <1>1, <1>6 DEF CheckQuota
  <2>2. q.pc = "storage"
    BY <1>6 DEF CheckQuota
  <2>3. n.tx = q.tx /\ n.served = q.served /\ n.text = q.text /\ n.kind = q.kind
        /\ n.pc = "prepare"
    BY <1>1, FieldsOfRequest
  <2> HIDE DEF n, q
  <2> QED
    BY <1>2, <1>5, <2>1, <2>2, <2>3 DEF Texted
<1>7. CASE StoreFails(r)
  <2>1. req'[r] = Over(r, "failed")
    BY <1>1, <1>7 DEF StoreFails
  <2> QED
    BY <1>5, <2>1
<1> QED
  BY <1>3, <1>4, <1>6, <1>7

\* The text that is chunked is redacted where something was found, and its chunks
\* leave nothing out but whitespace.
LEMMA PrepareStored ==
    ASSUME RecordsInv, NEW r \in Requests, GoodStored(req[r], r), Prepare(r)
    PROVE  StoresWell(r)
<1> DEFINE q == req[r]
           text == Processed(q.text)
           chunks == Chunks(text)
           label == Classified(q.text).label
           e == Expiry(policies[q.scope], q.scope, now)
           pc == IF chunks = <<>> THEN AfterWrite(r) ELSE "store"
           found == FoundIn(q.text)
           n == [q EXCEPT !.text = text, !.chunks = chunks, !.found = found, !.label = label,
                          !.expires = e, !.pc = pc]
<1>1. /\ DOMAIN q = RequestFields /\ DOMAIN req = Requests /\ q.pc = "prepare"
      /\ GoodRecordRequest(q, records, now)
  BY DEF RecordsInv, GoodRecordRequest, Prepare
<1>2. q.kind \in {"write", "end"} /\ IsText(q.text)
  BY <1>1, WritersOnly DEF GoodStored, Texted
<1>3. /\ IsText(text) /\ label \in AllowedUseLabel
      /\ \A i \in found : text[i] = "[REDACTED]"
  BY <1>2, RedactedWhereFound DEF Processed
<1>4. /\ chunks \in Seq(Chunk(text))
      /\ \A i \in DOMAIN text :
           text[i] # "space" => \E k \in DOMAIN chunks : chunks[k].start < i /\ i <= chunks[k].end
  BY <1>3, ChunksCover
<1>5. pc \in {AfterWrite(r), "store"} /\ (pc = "store" <=> chunks # <<>>)
  BY <1>2 DEF AfterWrite
<1>6. AfterWrite(r) \in {"final", "commit"}
  BY DEF AfterWrite
<1>7. req'[r] = n
  BY <1>1 DEF Prepare
<1> HIDE DEF text, chunks, found, label, e, pc
<1>8. /\ n.tx = q.tx /\ n.served = q.served /\ n.kind = q.kind /\ n.pc = pc
      /\ n.text = text /\ n.chunks = chunks /\ n.label = label /\ n.found = found
  BY <1>1, FieldsOfRequest
<1> HIDE DEF n
<1>9. TextStored(n)
  <2> SUFFICES ASSUME NEW i \in DOMAIN text, text[i] # "space"
               PROVE  n.pc = "store" /\ \E k \in DOMAIN n.chunks : n.chunks[k].start < i
                                                                 /\ i <= n.chunks[k].end
    BY <1>8 DEF TextStored
  <2>1. PICK k \in DOMAIN chunks : chunks[k].start < i /\ i <= chunks[k].end
    BY <1>4
  <2>2. chunks # <<>>
    BY <2>1
  <2> QED
    BY <1>5, <1>8, <2>1, <2>2
<1>10. GoodStored(n, r)
  BY <1>3, <1>4, <1>5, <1>6, <1>8, <1>9 DEF GoodStored, Texted
<1> QED
  BY <1>2, <1>7, <1>8, <1>10 DEF StoresWell

\* A piece of a text is a text.
LEMMA PieceOfText ==
    ASSUME NEW text, IsText(text), NEW start \in Nat, NEW end \in 0..Len(text)
    PROVE  LET piece == SubSeq(text, start + 1, end)
           IN  IsText(piece)
<1> DEFINE piece == SubSeq(text, start + 1, end)
           size == IF start <= end THEN end - start ELSE 0
<1>1. Len(text) \in Nat /\ DOMAIN text = 1..Len(text)
  BY TextDomain
<1>2. size \in Nat /\ 1..(1 + end - (start + 1)) = 1..size
  BY <1>1
<1>3. piece = [i \in 1..(1 + end - (start + 1)) |-> text[i + (start + 1) - 1]]
  BY <1>1 DEF IsText
<1>4. piece = [i \in 1..size |-> text[i + (start + 1) - 1]]
  BY <1>2, <1>3
<1> HIDE DEF piece
<1>5. piece = [i \in 1..size |-> piece[i]]
  BY <1>4
<1> QED
  BY <1>2, <1>5, FunctionIsText DEF piece

\* What is stored for a chunk of a redacted text holds nothing that was found.
LEMMA RecordOfChunk ==
    ASSUME NEW r \in Requests, NEW table, NEW t, GoodRecordRequest(req[r], table, t),
           IsText(req[r].text), \A i \in req[r].found : req[r].text[i] = "[REDACTED]",
           req[r].label \in AllowedUseLabel,
           NEW part \in Chunk(req[r].text)
    PROVE  LET m == NewRecord(r, part)
           IN  m \in Record /\ m.by = r /\ ~m.clear /\ m.part = part
<1> DEFINE text == req[r].text
           content == Content(text, part)
           m == NewRecord(r, part)
<1>1. part.start \in Nat /\ part.end \in 0..Len(text) /\ part = [start |-> part.start, end |-> part.end]
  BY DEF Chunk
<1>2. part \in Bounds
  <2>1. Len(text) \in Nat
    BY TextDomain
  <2> QED
    BY <1>1, <2>1 DEF Bounds
<1>3. IsText(SubSeq(text, part.start + 1, part.end))
  BY <1>1, PieceOfText
<1>4. IsText(content)
  BY <1>3, StripText DEF Content
<1>5. Len(content) \in Nat
  BY <1>4, TextDomain
<1> DEFINE size == Len(content)
<1>6. (\E i \in req[r].found : part.start < i /\ i <= part.end /\ text[i] # "[REDACTED]") = FALSE
  OBVIOUS
<1>7. req[r].scope \in MemoryScope /\ req[r].expires \in Nat \cup {Never}
  BY DEF GoodRecordRequest, Expiries
<1>8. m = [by |-> r, part |-> part, scope |-> req[r].scope, size |-> size,
           clear |-> FALSE, label |-> req[r].label, expires |-> req[r].expires]
  BY <1>6 DEF NewRecord
<1> HIDE DEF m, size, content, text
<1>9. size \in Nat
  BY <1>5 DEF size
<1>10. m \in Record
  BY <1>2, <1>7, <1>8, <1>9 DEF Record
<1>11. m.by = r /\ ~m.clear /\ m.part = part
  BY <1>8
<1> QED
  BY <1>10, <1>11 DEF m

\* The chunk that is stored covers what it covered before.
LEMMA ChunkTaken ==
    ASSUME NEW S, NEW chunks \in Seq(S), chunks # <<>>
    PROVE  /\ Head(chunks) \in S /\ Tail(chunks) \in Seq(S)
           /\ \A k \in DOMAIN chunks :
                chunks[k] = Head(chunks) \/ \E j \in DOMAIN Tail(chunks) : Tail(chunks)[j] = chunks[k]
<1>1. Head(chunks) \in S /\ Tail(chunks) \in Seq(S) /\ Len(chunks) \in Nat /\ Len(chunks) > 0
      /\ Len(Tail(chunks)) = Len(chunks) - 1 /\ Head(chunks) = chunks[1]
  OBVIOUS
<1>2. ASSUME NEW k \in DOMAIN chunks, k # 1
      PROVE  \E j \in DOMAIN Tail(chunks) : Tail(chunks)[j] = chunks[k]
  <2>1. k \in Nat /\ 2 <= k /\ k <= Len(chunks)
    BY <1>2
  <2>2. k - 1 \in 1..Len(Tail(chunks))
    BY <1>1, <2>1
  <2>3. Tail(chunks)[k - 1] = chunks[k]
    BY <2>1, <2>2
  <2> QED
    BY <1>1, <2>2, <2>3
<1> QED
  BY <1>1, <1>2

LEMMA StoreChunkStored ==
    ASSUME RecordsInv, NEW r \in Requests, GoodStored(req[r], r), StoreChunk(r)
    PROVE  StoresWell(r)
<1> DEFINE q == req[r]
           part == Head(q.chunks)
           m == NewRecord(r, part)
           tx == [q.tx EXCEPT !.inserted = @ \cup {m}, !.events = WithEvent(q.tx, m)]
           rest == Tail(q.chunks)
           pc == IF rest = <<>> THEN AfterWrite(r) ELSE q.pc
           n == [q EXCEPT !.chunks = Tail(@), !.tx = tx, !.pc = pc]
<1>1. /\ DOMAIN q = RequestFields /\ DOMAIN req = Requests /\ q.pc = "store"
      /\ GoodRecordRequest(q, records, now) /\ DOMAIN q.tx = DOMAIN NoTx
  BY DEF RecordsInv, GoodRecordRequest, StoreChunk, GoodTx
<1>2. q.kind \in {"write", "end"}
  BY <1>1, WritersOnly
<1>3. /\ IsText(q.text) /\ \A i \in q.found : q.text[i] = "[REDACTED]"
      /\ q.label \in AllowedUseLabel
      /\ q.chunks \in Seq(Chunk(q.text)) /\ q.chunks # <<>> /\ TextStored(q)
  BY <1>1 DEF GoodStored, Texted
<1>4. /\ part \in Chunk(q.text) /\ rest \in Seq(Chunk(q.text))
      /\ \A k \in DOMAIN q.chunks :
           q.chunks[k] = part \/ \E j \in DOMAIN rest : rest[j] = q.chunks[k]
  BY <1>3, ChunkTaken
<1>5. m \in Record /\ m.by = r /\ ~m.clear /\ m.part = part
  BY <1>1, <1>3, <1>4, RecordOfChunk
<1>6. req'[r] = n
  BY <1>1 DEF StoreChunk
<1>7. AfterWrite(r) \in {"final", "commit"}
  BY DEF AfterWrite
<1>8. (pc = "store" /\ rest # <<>>) \/ (pc \in {"final", "commit"} /\ rest = <<>>)
  BY <1>1, <1>7
<1> HIDE DEF m, pc
<1>9. tx.inserted = q.tx.inserted \cup {m}
  BY <1>1, FieldsOfRequest
<1> HIDE DEF tx
<1>10. /\ n.tx = tx /\ n.served = q.served /\ n.kind = q.kind /\ n.pc = pc
       /\ n.text = q.text /\ n.chunks = rest /\ n.label = q.label /\ n.found = q.found
  BY <1>1, FieldsOfRequest
<1> HIDE DEF n, part, rest
<1>11. TextStored(n)
  <2> SUFFICES ASSUME NEW i \in DOMAIN q.text, q.text[i] # "space"
               PROVE  \/ \E x \in tx.inserted : x.part.start < i /\ i <= x.part.end
                      \/ pc = "store" /\ \E k \in DOMAIN rest : rest[k].start < i /\ i <= rest[k].end
    BY <1>10 DEF TextStored
  <2>1. CASE \E x \in q.tx.inserted : x.part.start < i /\ i <= x.part.end
    BY <1>9, <2>1
  <2>2. CASE \E k \in DOMAIN q.chunks : q.chunks[k].start < i /\ i <= q.chunks[k].end
    <3>1. PICK k \in DOMAIN q.chunks : q.chunks[k].start < i /\ i <= q.chunks[k].end
      BY <2>2
    <3>2. CASE q.chunks[k] = part
      BY <1>5, <1>9, <3>1, <3>2
    <3>3. CASE \E j \in DOMAIN rest : rest[j] = q.chunks[k]
      <4>1. PICK j \in DOMAIN rest : rest[j] = q.chunks[k]
        BY <3>3
      <4>2. rest # <<>>
        BY <4>1
      <4> QED
        BY <1>8, <3>1, <4>1, <4>2
    <3> QED
      BY <1>4, <3>2, <3>3
  <2> QED
    BY <1>3, <2>1, <2>2 DEF TextStored
<1>12. \A x \in n.tx.inserted : x \in Record /\ x.by = r /\ ~x.clear
  BY <1>5, <1>9, <1>10 DEF GoodStored
<1>13. GoodStored(n, r)
  BY <1>3, <1>4, <1>8, <1>10, <1>11, <1>12 DEF GoodStored
<1> QED
  BY <1>2, <1>6, <1>10, <1>13 DEF StoresWell

LEMMA WritePipelineStored ==
    ASSUME RecordsInv, NEW r \in Requests, GoodStored(req[r], r), WritePipeline(r)
    PROVE  StoresWell(r)
BY CheckStored, PrepareStored, StoreChunkStored DEF WritePipeline

-----------------------------------------------------------------------------
(* The answers, the cleanup and the policies.                              *)

\* What is served is redacted already.
LEMMA ServedRedacted ==
    ASSUME TablesStored, NEW found, found \subseteq records
    PROVE  \A x \in Decrypted(found) : ~x.clear
<1>1. ASSUME NEW m \in found PROVE ~DecryptRecord(m).clear
  <2>1. m \in Record /\ ~m.clear
    BY DEF TablesStored
  <2>2. DOMAIN m = {"by", "part", "scope", "size", "clear", "label", "expires"}
    BY <2>1 DEF Record
  <2>3. DecryptRecord(m).clear = (m.clear /\ m.label = "public")
    BY <2>2 DEF DecryptRecord
  <2> QED
    BY <2>1, <2>3
<1> QED
  BY <1>1 DEF Decrypted

LEMMA AnswerStored ==
    ASSUME RecordsInv, NEW r \in Requests, NEW served, \A m \in served : ~m.clear,
           Answer(r, served)
    PROVE  StoresWell(r)
<1> DEFINE o == Over(r, "ok")
           n == [o EXCEPT !.served = served]
<1>1. DOMAIN o = RequestFields /\ o.pc = "ok" /\ o.tx = NoTx
  BY OverIs
<1>2. req'[r] = n
  BY DEF Answer, RecordsInv
<1> HIDE DEF o
<1>3. n.pc = "ok" /\ n.tx = NoTx /\ n.served = served
  BY <1>1, FieldsOfRequest
<1> HIDE DEF n
<1>4. n.tx.inserted = {}
  BY <1>3 DEF NoTx
<1>5. GoodStored(n, r)
  BY <1>3, <1>4, CalmStored DEF Texted
<1> QED
  BY <1>2, <1>3, <1>5 DEF StoresWell

LEMMA AnswersStored ==
    ASSUME RecordsInv, TablesStored, NEW r \in Requests, GoodStored(req[r], r),
           SearchMemory(r) \/ ListRecords(r) \/ GetRecord(r) \/ GetMemoryStats(r) \/ DeleteRecord(r)
    PROVE  StoresWell(r)
<1>0. Visible(NoTx) = records
  BY DEF Visible, NoTx
<1>1. ASSUME NEW found, found \subseteq records, Answer(r, Decrypted(found))
      PROVE  StoresWell(r)
  BY <1>1, ServedRedacted, AnswerStored
<1>2. CASE SearchMemory(r)
  <2>1. PICK scope, s :
           /\ s \in RetrieveMemory(scope) \cup RetrieveBySession(scope) \cup RetrieveByMetadata(scope)
           /\ Answer(r, s)
    BY <1>2 DEF SearchMemory
  <2>2. \A found \in SearchByVector(NoTx, scope, ResultLimit) : found \subseteq records
    BY <1>0 DEF SearchByVector
  <2>3. \A found \in MetadataFiltered(SearchByVector(NoTx, scope, ResultLimit)) : found \subseteq records
    BY <2>2 DEF MetadataFiltered
  <2>4. \A found \in SearchByMetadata(NoTx, scope, ResultLimit) : found \subseteq records
    BY <1>0 DEF SearchByMetadata
  <2>5. \/ \E found \in MetadataFiltered(SearchByVector(NoTx, scope, ResultLimit)) :
               s = Decrypted(found)
        \/ \E found \in SearchByMetadata(NoTx, scope, ResultLimit) : s = Decrypted(found)
    BY <2>1 DEF RetrieveMemory, RetrieveBySession, RetrieveByMetadata
  <2>6. \E found : found \subseteq records /\ s = Decrypted(found)
    BY <2>3, <2>4, <2>5
  <2> QED
    BY <1>1, <2>1, <2>6
<1>3. CASE ListRecords(r)
  <2>1. PICK s \in ListMemoryRecords : Answer(r, s)
    BY <1>3 DEF ListRecords
  <2>2. PICK found \in GetByTenantAgent(NoTx, ResultLimit) : s = {DecryptRecord(m) : m \in found}
    BY <2>1 DEF ListMemoryRecords
  <2>3. found \subseteq records /\ s = Decrypted(found)
    BY <1>0, <2>2 DEF GetByTenantAgent, Decrypted
  <2> QED
    BY <1>1, <2>1, <2>3
<1>4. CASE GetRecord(r)
  <2>1. PICK s \in GetMemoryRecord : Answer(r, s)
    BY <1>4 DEF GetRecord
  <2>2. PICK m \in records : s = {DecryptRecord(m)}
    BY <1>0, <2>1 DEF GetMemoryRecord
  <2>3. {m} \subseteq records /\ s = Decrypted({m})
    BY <2>2 DEF Decrypted
  <2> QED
    BY <1>1, <2>1, <2>3
<1>5. CASE GetMemoryStats(r)
  <2>1. req[r] = RecordFields /\ DOMAIN req = Requests
    BY <1>5 DEF RecordsInv, GoodRecordRequest, GetMemoryStats
  <2>2. req'[r] = [RecordFields EXCEPT !.pc = "refused"] /\ DOMAIN RecordFields = RequestFields
    BY <1>5, <2>1 DEF GetMemoryStats, Goto, RequestFields
  <2>3. GoodStored(req'[r], r)
    BY <2>2, FreshStored, GoesOnStored DEF Texted
  <2>4. req'[r].pc = "refused"
    BY <2>2, FieldsOfRequest
  <2> QED
    BY <2>3, <2>4 DEF StoresWell
<1>6. CASE DeleteRecord(r)
  BY <1>6, AnswerStored DEF DeleteRecord
<1> QED
  BY <1>2, <1>3, <1>4, <1>5, <1>6

LEMMA CleanupStored ==
    ASSUME RecordsInv, NEW r \in Requests, GoodStored(req[r], r),
           RunFullCleanup(r) \/ CleanupExpired(r) \/ EnforceRetention(r) \/ EnforceQuotas(r)
    PROVE  StoresWell(r)
<1> DEFINE q == req[r]
<1>1. /\ DOMAIN q = RequestFields /\ DOMAIN req = Requests
      /\ GoodRecordRequest(q, records, now) /\ DOMAIN q.tx = DOMAIN NoTx
  BY DEF RecordsInv, GoodRecordRequest, GoodTx
<1>2. CASE RunFullCleanup(r)
  <2> DEFINE n == [Begun(r, "cleanup", "expired") EXCEPT !.rounds = 2 * Len(Scopes)]
  <2>1. q = RecordFields /\ req'[r] = n
    BY <1>1, <1>2 DEF RunFullCleanup, GoodRecordRequest
  <2>2. n.pc = "expired" /\ n.tx = NoTx /\ n.served = {}
    BY <2>1 DEF Begun, RecordFields
  <2> HIDE DEF n
  <2>3. n.tx.inserted = {}
    BY <2>2 DEF NoTx
  <2>4. GoodStored(n, r)
    BY <2>2, <2>3, CalmStored DEF Texted
  <2> QED
    BY <2>1, <2>2, <2>4 DEF StoresWell
<1>3. CASE CleanupExpired(r) \/ EnforceRetention(r)
  <2>1. PICK d : NextRound(r, d) /\ q.pc = "expired"
    BY <1>3 DEF CleanupExpired, EnforceRetention
  <2> DEFINE pc == IF q.rounds = 1 THEN "quotas" ELSE q.pc
             tx == [q.tx EXCEPT !.deleted = @ \cup d]
             n == [q EXCEPT !.rounds = @ - 1, !.tx = tx, !.pc = pc]
  <2>2. req'[r] = n
    BY <1>1, <2>1 DEF NextRound
  <2>3. pc \in {"quotas", "expired"}
    BY <2>1
  <2>4. tx.inserted = q.tx.inserted
    BY <1>1, FieldsOfRequest
  <2> HIDE DEF pc, tx
  <2>5. n.pc = pc /\ n.tx = tx /\ n.served = q.served
    BY <1>1, FieldsOfRequest
  <2> HIDE DEF n, q
  <2>6. GoodStored(n, r)
    <3>1. GoodStored(q, r)
      BY DEF q
    <3> QED
      BY <2>3, <2>4, <2>5, <3>1, CalmStored DEF GoodStored, Texted
  <2> QED
    BY <2>2, <2>3, <2>5, <2>6 DEF StoresWell
<1>4. CASE EnforceQuotas(r)
  <2>1. PICK over : req' = [req EXCEPT ![r].over = over, ![r].pc = "commit"]
    BY <1>4 DEF EnforceQuotas
  <2> DEFINE n == [q EXCEPT !.over = over, !.pc = "commit"]
  <2>2. req'[r] = n
    BY <1>1, <2>1
  <2>3. q.kind = "cleanup"
    BY <1>1, <1>4, SweepersOnly DEF EnforceQuotas
  <2>4. n.pc = "commit" /\ n.tx = q.tx /\ n.served = q.served /\ n.kind = "cleanup"
    BY <1>1, <2>3, FieldsOfRequest
  <2> HIDE DEF n
  <2>5. GoodStored(n, r)
    BY <2>4, CalmStored DEF GoodStored, Texted
  <2> QED
    BY <1>4, <2>2, <2>5 DEF StoresWell
<1> QED
  BY <1>2, <1>3, <1>4

LEMMA UpsertStored ==
    ASSUME RecordsInv, NEW r \in Requests, Upsert(r)
    PROVE  StoresWell(r)
<1>1. PICK scope, p : req' = [req EXCEPT ![r] = [Begun(r, "upsert", "commit")
                         EXCEPT !.scope = scope, !.policy = policies[scope], !.tx.policy = p]]
  BY DEF Upsert
<1> DEFINE n == [Begun(r, "upsert", "commit")
                   EXCEPT !.scope = scope, !.policy = policies[scope], !.tx.policy = p]
<1>2. req[r] = RecordFields /\ req'[r] = n
  BY <1>1 DEF RecordsInv, GoodRecordRequest, Upsert
<1>3. n.pc = "commit" /\ n.kind = "upsert" /\ n.tx = [NoTx EXCEPT !.policy = p] /\ n.served = {}
  BY <1>2 DEF Begun, RecordFields, NoTx
<1> HIDE DEF n
<1>4. n.tx.inserted = {}
  BY <1>3 DEF NoTx
<1>5. GoodStored(n, r)
  BY <1>3, <1>4, CalmStored DEF Texted
<1> QED
  BY <1>2, <1>3, <1>5 DEF StoresWell

LEMMA RecordRequestStored ==
    ASSUME RecordsInv, TablesStored, NEW r \in Requests, GoodStored(req[r], r), RecordRequest(r)
    PROVE  StoresWell(r)
<1>1. ASSUME NEW pc \in {"ok", "failed"}, req'[r] = Over(r, pc) PROVE StoresWell(r)
  <2>1. Over(r, pc).pc = pc
    BY OverIs
  <2> QED
    BY <1>1, <2>1, OverStored DEF StoresWell
<1>2. CASE CommitRecords(r) \/ RollbackRecords(r) \/ CleanupFails(r)
  <2>1. DOMAIN req = Requests
    BY DEF RecordsInv
  <2>2. req'[r] = Over(r, "ok") \/ req'[r] = Over(r, "failed")
    BY <1>2, <2>1 DEF CommitRecords, RollbackRecords, CleanupFails, Overtaking
  <2> QED
    BY <1>1, <2>2
<1> QED
  BY <1>2, WriteMemoryStored, AnswersStored, CleanupStored, UpsertStored DEF RecordRequest

-----------------------------------------------------------------------------
(* The session's requests.                                                 *)

LEMMA SessionGoesOn ==
    ASSUME RecordsInv, NEW r \in Requests, GoodStored(req[r], r), NEW p,
           p \in {"ok", "refused", "failed", "append", "lookup", "restore", "exists", "create",
                  "counted", "search", "refill", "insert", "final", "unlink", "unsummarise"}
           \/ (p = "commit" /\ req[r].kind \in {"end", "delete"}),
           Goto(r, p) \/ Overtaking(r, [req[r] EXCEPT !.pc = p])
    PROVE  StoresWell(r)
<1>1. DOMAIN req = Requests /\ DOMAIN req[r] = RequestFields
  BY DEF RecordsInv, GoodRecordRequest
<1>2. req'[r] = [req[r] EXCEPT !.pc = p]
  BY <1>1 DEF Goto, Overtaking
<1>3. req'[r].pc = p /\ req'[r].kind = req[r].kind
  BY <1>1, <1>2, FieldsOfRequest
<1>4. GoodStored(req'[r], r)
  BY <1>1, <1>2, GoesOnStored DEF Texted
<1> QED
  BY <1>3, <1>4 DEF StoresWell

LEMMA BeginStored ==
    ASSUME RecordsInv, NEW r \in Requests, NEW kind \in SessionKinds, NEW pc,
           pc \notin Texted, Begin(r, kind, pc)
    PROVE  StoresWell(r)
<1> DEFINE n == Begun(r, kind, pc)
<1>1. req[r] = RecordFields /\ req'[r] = n
  BY DEF Begin, RecordsInv, GoodRecordRequest
<1>2. n.pc = pc /\ n.kind = kind /\ n.tx = NoTx /\ n.served = {}
  BY <1>1 DEF Begun, RecordFields
<1> HIDE DEF n
<1>3. n.tx.inserted = {}
  BY <1>2 DEF NoTx
<1>4. kind # "write" /\ kind # "cleanup" /\ pc # "store"
  BY DEF SessionKinds, Texted
<1>5. GoodStored(n, r)
  BY <1>2, <1>3, <1>4, CalmStored
<1> QED
  BY <1>1, <1>2, <1>4, <1>5 DEF StoresWell

\* The summary that an ending stores is a text.
LEMMA CreateSummaryStored ==
    ASSUME RecordsInv, NEW r \in Requests, GoodStored(req[r], r), CreateSummary(r),
           Len(ses[r].snapshot) \in Nat
    PROVE  StoresWell(r)
<1> DEFINE q == req[r]
           text == Normalized(ExtractiveSummary(ses[r].snapshot))
           n == [q EXCEPT !.text = text, !.scope = "durable", !.pc = "policy"]
<1>1. DOMAIN req = Requests /\ DOMAIN q = RequestFields
  BY DEF RecordsInv, GoodRecordRequest
<1>2. CASE SummaryAllowed(r)
  <2>1. req'[r] = n
    BY <1>1, <1>2 DEF CreateSummary
  <2>2. IsText(text)
    <3> DEFINE quoted == Sets!Min({SummaryItems, Len(ses[r].snapshot)})
    <3>1. quoted \in Nat
      BY SessionAssumption DEF Sets!Min
    <3>2. ExtractiveSummary(ses[r].snapshot) = [i \in 1..(1 + quoted) |-> "word"]
      BY DEF ExtractiveSummary
    <3> HIDE DEF quoted
    <3>3. 1 + quoted \in Nat
      BY <3>1
    <3>4. ExtractiveSummary(ses[r].snapshot)
            = [i \in 1..(1 + quoted) |-> ExtractiveSummary(ses[r].snapshot)[i]]
      BY <3>2
    <3>5. IsText(ExtractiveSummary(ses[r].snapshot))
      BY <3>3, <3>4, FunctionIsText
    <3> QED
      BY <3>5, NormalizedIsText
  <2> HIDE DEF text
  <2>3. n.text = text /\ n.pc = "policy" /\ n.tx = q.tx /\ n.served = q.served
    BY <1>1, FieldsOfRequest
  <2> HIDE DEF n
  <2>4. GoodStored(n, r)
    BY <2>2, <2>3, CalmStored DEF GoodStored
  <2> QED
    BY <2>1, <2>3, <2>4 DEF StoresWell
<1>3. CASE ~SummaryAllowed(r)
  BY <1>3, SessionGoesOn DEF CreateSummary
<1> QED
  BY <1>2, <1>3

LEMMA SessionRequestStored ==
    ASSUME RecordsInv, SessionBasic, NEW r \in Requests, GoodStored(req[r], r), SessionRequest(r)
    PROVE  StoresWell(r)
<1>0. GoodRecordRequest(req[r], records, now) /\ DOMAIN req = Requests
      /\ DOMAIN req[r] = RequestFields
  BY DEF RecordsInv, GoodRecordRequest
<1>1. CASE \/ StartSession(r) \/ AddToSession(r) \/ GetSessionContext(r)
           \/ EndSession(r) \/ DeleteSession(r)
  BY <1>1, BeginStored
     DEF StartSession, AddToSession, GetSessionContext, EndSession, DeleteSession, SessionKinds, Texted
<1>2. CASE ListSessions(r)
  BY <1>2, SessionGoesOn DEF ListSessions
<1>3. CASE GetMeta(r) \/ GetBySessionId(r) \/ RecentHistory(r) \/ SearchConversation(r)
  BY <1>3, SessionGoesOn DEF GetMeta, GetBySessionId, RecentHistory, SearchConversation, Got
<1>4. WithMeta(r) \in {"ok", "append"}
  BY DEF WithMeta
<1>5. CASE Exists(r)
  BY <1>4, <1>5, SessionGoesOn DEF Exists, Got
<1>6. CASE Restore(r) \/ CreateSession(r) \/ SetCount(r)
  BY <1>4, <1>6, SessionGoesOn DEF Restore, CreateSession, SetCount, SetMeta
<1>7. CASE AppendToHistory(r)
  BY <1>7, SessionGoesOn DEF AppendToHistory
<1>8. CASE Refill(r)
  <2>1. (IF ses[r].refill = 1 THEN "ok" ELSE req[r].pc) \in {"ok", "refill"}
    BY <1>8 DEF Refill
  <2>2. Overtaking(r, [req[r] EXCEPT !.pc = IF ses[r].refill = 1 THEN "ok" ELSE req[r].pc])
    BY <1>8 DEF Refill
  <2> QED
    BY <2>1, <2>2, SessionGoesOn
<1>9. CASE GetFullHistory(r)
  BY <1>9, SessionGoesOn DEF GetFullHistory
<1>10. CASE CreateSummary(r)
  <2>1. Len(ses[r].snapshot) \in Nat
    BY DEF SessionBasic, SessionTypeOK, Session
  <2> QED
    BY <1>10, <2>1, CreateSummaryStored
<1>11. req[r].pc \in {"final", "unlink"} =>
         AfterClear(r) = "unsummarise" \/ (AfterClear(r) = "commit" /\ req[r].kind \in {"end", "delete"})
  BY <1>0, WhoIsWhere DEF AfterClear
<1>12. CASE ScanKeys(r)
  BY <1>11, <1>12, SessionGoesOn DEF ScanKeys
<1>13. CASE DeleteKeys(r)
  BY <1>11, <1>13, SessionGoesOn DEF DeleteKeys
<1>14. CASE DeleteSummary(r)
  BY <1>0, <1>14, WhoIsWhere, SessionGoesOn DEF DeleteSummary
<1>15. CASE CommitSession(r)
  BY <1>15, SessionGoesOn DEF CommitSession
<1>16. CASE RollbackSession(r)
  <2> DEFINE n == [req[r] EXCEPT !.pc = "failed", !.tx = NoTx]
  <2>1. req'[r] = n
    BY <1>0, <1>16 DEF RollbackSession
  <2>2. n.pc = "failed" /\ n.tx = NoTx /\ n.served = req[r].served
    BY <1>0, FieldsOfRequest
  <2> HIDE DEF n
  <2>3. n.tx.inserted = {}
    BY <2>2 DEF NoTx
  <2>4. GoodStored(n, r)
    BY <2>2, <2>3, CalmStored DEF GoodStored, Texted
  <2> QED
    BY <2>1, <2>2, <2>4 DEF StoresWell
<1> QED
  BY <1>1, <1>2, <1>3, <1>5, <1>6, <1>7, <1>8, <1>9, <1>10, <1>12, <1>13, <1>14, <1>15, <1>16
  DEF SessionRequest

-----------------------------------------------------------------------------
(* What a cleanup reports.                                                 *)

\* The storage is a number: finitely many records, each of a size.
LEMMA StorageCounted ==
    ASSUME TablesStored, IsFiniteSet(records), NEW tx, IsFiniteSet(tx.inserted),
           \A m \in tx.inserted : m \in Record
    PROVE  StorageSize(tx) \in Nat
<1> DEFINE V == Visible(tx)
           tokens == [m \in V |-> {m} \X (1..m.size)]
           all == {{m} \X (1..m.size) : m \in V}
<1>1. IsFiniteSet(V)
  <2>1. IsFiniteSet(records \ tx.deleted)
    BY FS_Subset
  <2> QED
    BY <2>1, FS_Union DEF Visible
<1>2. \A m \in V : m.size \in Nat
  BY DEF Visible, TablesStored, Record
<1>3. ASSUME NEW m \in V PROVE IsFiniteSet({m} \X (1..m.size))
  <2>1. m.size \in Nat
    BY <1>2
  <2>2. IsFiniteSet(1..m.size)
    BY <2>1, FS_Interval
  <2>3. IsFiniteSet({m})
    BY FS_Singleton
  <2> QED
    BY <2>2, <2>3, FS_Product
<1>4. tokens \in Surjection(V, all)
  BY DEF Surjection
<1> HIDE DEF V, tokens
<1>5. IsFiniteSet(all)
  BY <1>1, <1>4, FS_Surjection
<1>6. IsFiniteSet(UNION all)
  BY <1>3, <1>5, FS_UNION
<1>7. Cardinality(UNION all) \in Nat
  BY <1>6, FS_CardinalityType
<1> QED
  BY <1>7 DEF StorageSize, V

\* Whole megabytes reach a limit in megabytes when the tokens do.
LEMMA WholeMegabytes ==
    ASSUME NEW storage \in Nat, NEW limit \in Nat
    PROVE  ReportedStorage(storage) >= limit * Unit <=> storage >= limit * Unit
<1> DEFINE k == storage \div Unit
           mod == storage % Unit
<1>1. Unit \in Nat /\ Unit > 0
  BY MemoryAssumption
<1>2. k \in Nat /\ mod \in Nat /\ mod < Unit /\ storage = Unit * k + mod
  BY <1>1
<1>3. ReportedStorage(storage) = k * Unit
  BY DEF ReportedStorage
<1> HIDE DEF k, mod
<1>4. CASE k >= limit
  <2>1. PICK d \in Nat : k = limit + d
    <3>1. k - limit \in Nat /\ k = limit + (k - limit)
      BY <1>2, <1>4
    <3> QED
      BY <3>1
  <2>2. k * Unit = limit * Unit + d * Unit
    BY <1>1, <2>1
  <2>3. limit * Unit \in Nat /\ d * Unit \in Nat /\ Unit * k = k * Unit
    BY <1>1, <1>2
  <2> QED
    BY <1>2, <1>3, <2>2, <2>3
<1>5. CASE k < limit
  <2>1. PICK d \in Nat : limit = (k + 1) + d
    <3>1. limit - (k + 1) \in Nat /\ limit = (k + 1) + (limit - (k + 1))
      BY <1>2, <1>5
    <3> QED
      BY <3>1
  <2>2. limit * Unit = k * Unit + Unit + d * Unit
    BY <1>1, <1>2, <2>1
  <2>3. k * Unit \in Nat /\ d * Unit \in Nat /\ Unit * k = k * Unit
    BY <1>1, <1>2
  <2> DEFINE a == k * Unit
             b == d * Unit
  <2>4. storage = a + mod /\ limit * Unit = a + Unit + b /\ a \in Nat /\ b \in Nat
    BY <1>2, <2>2, <2>3
  <2>5. ReportedStorage(storage) = a
    BY <1>3
  <2> HIDE DEF a, b
  <2> QED
    BY <1>1, <1>2, <2>4, <2>5
<1> QED
  BY <1>2, <1>4, <1>5

\* What the request reports is what a write would find.
Agrees(q) ==
    (q.kind = "cleanup" /\ q.pc = "commit" /\ q.alone)
    => q.over = {scope \in MemoryScope :
                   /\ policies[scope] # None
                   /\ QuotaExceeded(policies[scope], CountByTenant(q.tx, scope), StorageSize(q.tx))}

LEMMA EnforceQuotasAgrees ==
    ASSUME RecordsInv, TablesStored, NEW r \in Requests, GoodStored(req[r], r), EnforceQuotas(r)
    PROVE  Agrees(req[r])'
<1> DEFINE q == req[r]
           tx == q.tx
           over == {scope \in MemoryScope :
                      policies[scope] # None
                        /\ QuotaExceeded(policies[scope], CountByTenant(tx, scope),
                                         ReportedStorage(StorageSize(tx)))}
           need == {scope \in MemoryScope :
                      /\ policies[scope] # None
                      /\ QuotaExceeded(policies[scope], CountByTenant(tx, scope), StorageSize(tx))}
           n == [q EXCEPT !.over = over, !.pc = "commit"]
<1>1. /\ DOMAIN req = Requests /\ DOMAIN q = RequestFields
      /\ IsFiniteSet(records) /\ IsFiniteSet(tx.inserted)
      /\ policies \in [MemoryScope -> MemoryRetentionPolicy \cup {None}]
  BY DEF RecordsInv, GoodRecordRequest, GoodTx, TablesGood
<1>2. StorageSize(tx) \in Nat
  BY <1>1, StorageCounted DEF GoodStored
<1>3. ASSUME NEW scope \in MemoryScope, policies[scope] # None
      PROVE  QuotaExceeded(policies[scope], CountByTenant(tx, scope),
                           ReportedStorage(StorageSize(tx)))
               <=> QuotaExceeded(policies[scope], CountByTenant(tx, scope), StorageSize(tx))
  <2> DEFINE p == policies[scope]
             storage == StorageSize(tx)
             limit == p.storage
  <2>1. limit \in Nat \cup {None} /\ storage \in Nat
    BY <1>1, <1>2, <1>3 DEF MemoryRetentionPolicy
  <2>2. ASSUME limit # None
        PROVE  AtLimit(ReportedStorage(storage), limit * Unit) <=> AtLimit(storage, limit * Unit)
    <3>1. limit \in Nat
      BY <2>1, <2>2
    <3> HIDE DEF limit, storage
    <3>2. ReportedStorage(storage) >= limit * Unit <=> storage >= limit * Unit
      BY <2>1, <3>1, WholeMegabytes
    <3> QED
      BY <3>2 DEF AtLimit
  <2> HIDE DEF storage
  <2>3. QuotaExceeded(p, CountByTenant(tx, scope), ReportedStorage(storage))
          <=> QuotaExceeded(p, CountByTenant(tx, scope), storage)
    BY <2>2 DEF QuotaExceeded
  <2> QED
    BY <2>3 DEF storage
<1>4. over = need
  BY <1>3
<1>5. req'[r] = n /\ UNCHANGED <<records, policies>>
  BY <1>1 DEF EnforceQuotas, Unchanged
<1>6. n.over = over /\ n.tx = tx
  BY <1>1, FieldsOfRequest
<1>7. need = {scope \in MemoryScope :
                /\ policies'[scope] # None
                /\ QuotaExceeded(policies'[scope], CountByTenant(tx, scope)', StorageSize(tx)')}
  BY <1>5 DEF CountByTenant, StorageSize, Visible
<1> QED
  BY <1>4, <1>5, <1>6, <1>7 DEF Agrees

-----------------------------------------------------------------------------
(* All requests, and the tables.                                           *)

\* Nothing but a commit writes the tables, and no request sets the clock.
LEMMA TablesOfStep ==
    ASSUME NEW s \in Requests, Steps(s)
    PROVE  /\ \/ UNCHANGED <<records, policies, outbox>>
              \/ CommitRecords(s) \/ CommitSession(s)
           /\ UNCHANGED now
<1>1. RecordRequest(s) => UNCHANGED <<records, policies, outbox, now>> \/ (CommitRecords(s) /\ UNCHANGED now)
  BY DEF RecordRequest, WriteMemory, SearchMemory, ListRecords, GetRecord, GetMemoryStats,
     DeleteRecord, RunFullCleanup, CleanupExpired, EnforceRetention, CleanupFails,
     EnforceQuotas, Upsert, RollbackRecords, Answer, Unchanged, CommitRecords
<1>2. WritePipeline(s) => UNCHANGED <<records, policies, outbox, now>>
  BY DEF WritePipeline, GetPolicy, CountRecords, CheckQuota, Prepare, StoreChunk, StoreFails,
     Unchanged
<1>3. SessionRequest(s) => UNCHANGED <<records, policies, outbox, now>> \/ (CommitSession(s) /\ UNCHANGED now)
  BY DEF SessionRequest, StartSession, AddToSession, GetSessionContext, EndSession,
     DeleteSession, ListSessions, Begin, GetMeta, GetBySessionId, Exists, Restore,
     CreateSession, AppendToHistory, SetCount, RecentHistory, SearchConversation, Refill,
     GetFullHistory, CreateSummary, ScanKeys, DeleteKeys, DeleteSummary, RollbackSession,
     Got, SetMeta, Unchanged, CommitSession
<1>4. CASE RecordRequest(s)
  BY <1>1, <1>4, Zenon
<1>5. CASE WritePipeline(s)
  BY <1>2, <1>5, Zenon
<1>6. CASE SessionRequest(s)
  BY <1>3, <1>6, Zenon
<1> QED
  BY <1>4, <1>5, <1>6, Zenon DEF Steps

LEMMA TablesStoredStep ==
    ASSUME RecordsInv, TablesStored, NEW s \in Requests, GoodStored(req[s], s), Steps(s)
    PROVE  TablesStored'
<1>1. CASE UNCHANGED <<records, policies, outbox>>
  BY <1>1, TablesOfStep DEF TablesStored
<1>2. CASE CommitRecords(s) \/ CommitSession(s)
  <2>1. records' = Committed(req[s].tx) /\ outbox' = outbox \cup req[s].tx.events /\ now' = now
    BY <1>2 DEF CommitRecords, CommitSession
  <2>2. req[s].tx.events = req[s].tx.inserted
    BY DEF RecordsInv, GoodRecordRequest, GoodTx
  <2>3. \A m \in records' : m \in Record /\ ~m.clear
    BY <2>1 DEF Committed, GoodStored, TablesStored
  <2>4. \A m \in outbox' : m \in Record
    BY <2>1, <2>2 DEF GoodStored, TablesStored
  <2> QED
    BY <2>1, <2>3, <2>4 DEF TablesStored
<1> QED
  BY <1>1, <1>2, TablesOfStep

\* A request that nothing overtook still finds what it reported.
LEMMA AgreesUntouched ==
    ASSUME NEW q, DOMAIN q = RequestFields, Agrees(q),
           NEW n, n = q \/ n = [q EXCEPT !.alone = FALSE],
           UNCHANGED <<records, policies>>
    PROVE  (n.kind = "cleanup" /\ n.pc = "commit" /\ n.alone)
           => n.over = {scope \in MemoryScope :
                          /\ policies'[scope] # None
                          /\ QuotaExceeded(policies'[scope], CountByTenant(n.tx, scope)',
                                           StorageSize(n.tx)')}
<1>1. CASE n = q
  BY <1>1 DEF Agrees, CountByTenant, StorageSize, Visible
<1>2. CASE n = [q EXCEPT !.alone = FALSE]
  <2>1. n.alone = FALSE
    BY <1>2, FieldsOfRequest
  <2> QED
    BY <2>1
<1> QED
  BY <1>1, <1>2

LEMMA StoredRequestStep ==
    ASSUME StoredInv, RecordsInv, SessionBasic, NEW s \in Requests, Steps(s)
    PROVE  StoredInv'
<1>1. /\ TablesStored /\ DOMAIN req = Requests
      /\ \A r \in Requests : GoodStored(req[r], r) /\ DOMAIN req[r] = RequestFields /\ Agrees(req[r])
  BY DEF StoredInv, RecordsInv, GoodRecordRequest, ReportAgrees, Agrees
<1>2. StoresWell(s)
  BY <1>1, RecordRequestStored, WritePipelineStored, SessionRequestStored DEF Steps
<1>3. TablesStored'
  BY <1>1, TablesStoredStep
<1>4. ASSUME NEW r \in Requests PROVE GoodStored(req'[r], r)
  <2>1. CASE r = s
    BY <1>2, <2>1 DEF StoresWell
  <2>2. CASE r # s
    BY <1>1, <2>2, OthersStay, OvertakenStored
  <2> QED
    BY <2>1, <2>2
<1>5. ASSUME NEW r \in Requests PROVE Agrees(req[r])'
  <2>1. CASE r = s
    <3>1. CASE EnforceQuotas(s)
      BY <1>1, <2>1, <3>1, EnforceQuotasAgrees
    <3>2. CASE ~EnforceQuotas(s)
      BY <1>2, <2>1, <3>2 DEF StoresWell, Agrees
    <3> QED
      BY <3>1, <3>2
  <2>2. CASE r # s /\ UNCHANGED <<records, policies>>
    <3>1. req'[r] = req[r] \/ req'[r] = [req[r] EXCEPT !.alone = FALSE]
      BY <1>1, <2>2, OthersStay
    <3>2. PICK n : n = req'[r]
      OBVIOUS
    <3>3. (n.kind = "cleanup" /\ n.pc = "commit" /\ n.alone)
          => n.over = {scope \in MemoryScope :
                         /\ policies'[scope] # None
                         /\ QuotaExceeded(policies'[scope], CountByTenant(n.tx, scope)',
                                          StorageSize(n.tx)')}
      BY <1>1, <2>2, <3>1, <3>2, AgreesUntouched
    <3> QED
      BY <3>2, <3>3 DEF Agrees, CountByTenant, StorageSize, Visible
  <2>3. CASE r # s /\ (CommitRecords(s) \/ CommitSession(s))
    <3>1. PICK n : Overtaking(s, n)
      BY <2>3 DEF CommitRecords, CommitSession
    <3>2. req'[r] = IF req[r].pc \in Ended THEN req[r] ELSE [req[r] EXCEPT !.alone = FALSE]
      BY <2>3, <3>1 DEF Overtaking
    <3>3. req'[r].pc # "commit" \/ req'[r].alone = FALSE
      BY <1>1, <3>2, PhasesAre, FieldsOfRequest
    <3> QED
      BY <3>3 DEF Agrees
  <2> QED
    BY <2>1, <2>2, <2>3, TablesOfStep
<1>6. ReportAgrees'
  BY <1>5 DEF Agrees, ReportAgrees
<1> QED
  BY <1>3, <1>4, <1>6 DEF StoredInv

LEMMA StoredStep ==
    ASSUME StoredInv, RecordsInv, SessionBasic, [StoreNext]_storeVars
    PROVE  StoredInv'
<1>1. ASSUME UNCHANGED <<records, policies, outbox, req>>, now' \in Times PROVE StoredInv'
  BY <1>1 DEF StoredInv, TablesStored, ReportAgrees, CountByTenant, StorageSize, Visible
<1>2. CASE Tick
  BY <1>1, <1>2 DEF Tick
<1>3. CASE KeyExpires \/ UNCHANGED storeVars
  BY <1>1, <1>3 DEF KeyExpires, storeVars, recordVars, StoredInv, TablesStored
<1>4. ASSUME NEW r \in Requests, Steps(r) PROVE StoredInv'
  BY <1>4, StoredRequestStep
<1> QED
  BY <1>2, <1>3, <1>4 DEF StoreNext, Steps

LEMMA StoredStart ==
    ASSUME StoreInit
    PROVE  StoredInv
<1>1. /\ \A m \in records : m \in Record /\ ~m.clear
      /\ outbox = {} /\ now = 0 /\ req = [r \in Requests |-> RecordFields]
  BY DEF StoreInit
<1>2. TablesStored
  BY <1>1, MemoryAssumption DEF TablesStored
<1>3. \A r \in Requests : GoodStored(req[r], r)
  BY <1>1, FreshStored
<1>4. ReportAgrees
  BY <1>1 DEF ReportAgrees, RecordFields
<1> QED
  BY <1>2, <1>3, <1>4 DEF StoredInv

\* What is written is stored whole and announced, nothing the classifier found in
\* it is stored or served as it was, and a cleanup reports what a write would find
\* (write_memory, TextRedactor, TextChunker, run_full_cleanup).
THEOREM RecordsStoredWhole == StoreSpec => []StoredWhole
<1>1. StoreInit => StoredInv
  BY StoredStart
<1>2. StoredInv /\ StoreInv /\ [StoreNext]_storeVars => StoredInv'
  BY StoredStep DEF StoreInv
<1>3. StoredInv /\ StoreInv => StoredWhole
  <2> SUFFICES ASSUME StoredInv, StoreInv PROVE StoredWhole
    OBVIOUS
  <2>1. RecordsInv /\ TablesStored /\ \A r \in Requests : GoodStored(req[r], r)
    BY DEF StoredInv, StoreInv
  <2>2. RecordTypeOK
    BY <2>1 DEF RecordTypeOK, RecordsInv, TablesGood, TablesStored, GoodStored,
       GoodRecordRequest, GoodTx
  <2>3. NothingLeftOut
    BY <2>1 DEF NothingLeftOut, GoodStored, TextStored
  <2>4. NothingFoundInClear
    BY <2>1 DEF NothingFoundInClear, TablesStored, GoodStored
  <2>5. EventPerRecord /\ ReportAgrees
    BY <2>1 DEF RecordsInv, TablesGood, StoredInv
  <2> QED
    BY <2>2, <2>3, <2>4, <2>5 DEF StoredWhole
<1> QED
  BY <1>1, <1>2, <1>3, StoreInvariance, PTL DEF StoreSpec
=============================================================================
