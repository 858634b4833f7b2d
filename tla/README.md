# AIAgentX in TLA+

AIAgentX is a service that runs AI agents for tenants: a FastAPI application
over PostgreSQL and Redis, background workers, and adapters for language-model
providers. This directory holds TLA+ models of the parts of it that decide
something over several steps, the TLC configurations that check them on small
instances, and proofs, checked by TLAPS, of what they promise for every value
of the constants. All paths below are relative to `src/`.

Contents: 1 the system, 2 what is modelled and how it corresponds to the code,
3 the runs, 4 the theorems, 5 what the code does not do, 6 what is not
modelled, 7 what could come next, 8 how to check it.

## 1. The system

Three things make this code hard to test. Every service method is a coroutine,
so at each `await` other requests run, and what was read before it may be stale
after it. Redis is used without scripts that work or transactions, so a check
and the update that follows it are separate round trips, and errors are
swallowed. PostgreSQL sessions write, on flush, only the columns that changed
since they were read, without version columns or conditions, and the commit is
left to a caller (`get_db_session` never commits).

| Component | State | Operations | Interacts with | Correct when |
|---|---|---|---|---|
| Run aggregate (`domain/entities/run.py`, `value_objects/state.py`) | columns of a run, its steps, pending events | start, approval, retry, requeue, complete, fail, cancel, timeout, lease, steps, costs | repository, executor | the state table is respected; events can be replayed; an ending is reported once and final; limits hold |
| Run use cases, executor (`use_cases/run.py`, `workers/executor.py`) | none of their own | create, show, cancel; loop over steps with cancellation and budget checks | runs, cancellation, budgets, tools, memory, approvals | one run per idempotency key; a cancelled run stops; no step twice |
| Cancellation (`cancellation_service.py`, `cache/cancellation_signals.py`) | a Redis flag with a TTL, `cancel_requested_at` | request, poll, acknowledge, complete, timeout | runs, executor | a request is seen; a finished run is not cancelled |
| Budgets and cost (`budget_service.py`, `cache/budget_cache.py`, `cost_service.py`) | spent amounts of runs and tenants, cached in Redis hashes | check, record, reset | runs, executor | nothing spent is lost; no room appears from nowhere |
| Circuit breaker (`providers/circuit_breaker.py`) | state, totals, open timestamp, half-open count | can_execute, record_success, record_failure, reset, status | provider service | it opens on evidence, recovers, is not moved by late answers |
| Provider service (`provider_service.py`) | breakers, health records, registry | complete, register, reset, status | breakers, fallback handler, adapters | no answer is lost; a fallback goes elsewhere and is bounded |
| Fallback handler and service (`providers/fallback.py`, `fallback_service.py`) | attempts per primary, metrics, configuration | decide, pick, execute, reset, reconfigure | registry, adapters | metrics add up; limits hold across reconfiguration |
| Adapters and retries (`providers/base.py`, `openai.py`, `anthropic.py`, `fake.py`, `retry.py`) | one HTTP client per adapter | normalise, send, classify, back off, retry, close | provider service | only what may succeed is retried, at most n times; what a translation drops is known |
| Idempotency (`middleware/idempotency.py`, `idempotency_service.py`, `cache/idempotency_store.py`) | one Redis entry per key with a TTL | look up, store, store the response, invalidate | every mutating request | a duplicate is not executed; a replay is genuine; keys are freed |
| Rate limits (`middleware/rate_limit.py`, `rate_limit_service.py`, `cache/rate_limiter.py`) | windows and concurrency counters in Redis | check, record, start and end of a run | API | no more than the limit; counters return to zero |
| Tools and policies (`tool_execution_service.py`, `policy.py`, `tool_grant.py`, `security/rate_limiter.py`) | grants, windows in Redis | evaluate, check, execute, count | approvals, executor | the matching rule of highest priority decides; no call that wants an approval runs without |
| Degradation (`degradation_service.py`, `health/degradation_monitor.py`) | a mode, failure counters | report failures, enter, leave, reset, monitor | database, Redis | failures degrade; no recovery while failing; recovery afterwards (none of it holds, section 5) |
| Approvals (`approval_request.py`, `approval_coordinator.py`, `approvals/router.py`, `repositories/security.py`) | a row per request | request, approve, deny, cancel, expire | executor, notifier | an approval was given, in time, by whom it says |
| Audit outbox (`repositories/audit.py`, `workers/outbox_flusher.py`) | rows of `outbox_events` | write with the change, flush in batches | audit logger | what is marked was processed; everything is in the end |
| Memory of a run (`cache/memory_cache.py`) | a Redis key per name | set, get, delete, get_all, clear_run | executor | a load sees what was there; a clearing leaves nothing |
| Session memory (`session_memory_service.py`, `cache/memory_cache.py`) | history list and metadata in Redis; summaries in PostgreSQL | create, add, read, summarise, end, delete | durable memory | no message is lost unsummarised; counts agree |
| Durable memory (`memory_write_service.py`, `memory_retrieval_service.py`, `memory_cleanup_service.py`) | encrypted chunks with expiry | write, search, list, delete, expire, quotas | text pipeline, encryption, embeddings | quota holds; a write is whole; nothing live is cleaned up |
| Text pipeline (`infrastructure/text/`) | none | normalise, classify, redact, chunk | durable memory | chunks cover the text; what was found in it is redacted |
| Agents (`entities/agent.py`, `use_cases/agent.py`, `repositories/agent.py`) | agents, versions, tool grants | create, rename, publish, archive, update, delete | runs | one published version; a published version does not change unless updates overlap |
| Encryption, embeddings, authentication, observability, settings, schema, deployment | rows, configuration | conversion and I/O | all | (not behaviours for a model checker) |

Of these the API mounts the routers of health, agents, runs, approvals and
audit. `main.py` never sets `app.state.approval_coordinator`, and nothing
constructs `IdempotencyMiddleware`, `RateLimitMiddleware`, `RunExecutor`,
`FallbackService`, `RetryHandler`, `DegradationMonitor` or `BudgetCache`. The
models take each component as its interface offers it to callers.

`PROJECT.json` lists every component with its status, and under `hazards` what
in this code is hard to test, at its line, with the properties that cover it.

## 2. The modules

Each module describes one component and names, in its header, what one action
is. Mutated forms of a definition (`...Misspelt`, `...Twice`, ...) stand next to
it; they are not used by the specification: each is a plausible bug, and
`PROJECT.json` says which property has to fail when it takes the definition's
place.

**Run** is one `Run` object. A method is an action; one that raises before it
changed anything is not enabled, one that raises half way keeps its half:
`start` is already running and owned when
`datetime.replace(second=second + duration)` raises, `complete` on a loaded run
has succeeded when building `RunCompleted` raises. `Store` and `Load` are the
repository; loading turns `spent_cost` into a plain integer (`run.money` is
FALSE from then on), after which whatever needs a `Money` raises. Nothing calls
`collect_events`, so events accumulate until the object is loaded anew.
**RunStates** is the table of states it shares with RunControl.

**RunControl** is what the rest of the system does to stored runs: the routes
and use cases, the cancellation service over its Redis flag, the budget service
and the executor. A call is a record with a program counter; each await is a
step. A call reads the run into an entity of its own and writes all its columns
back: `fresh` says of a call that nobody wrote the row since it read it, and
`overwrote` names the runs of which a write replaced columns its call had not
seen. A creation may go uncommitted, as over the routes, whose sessions nobody
commits. `since` counts the steps a worker began while the flag of its run was up.
The code holds three ideas of
the repository, and a behaviour takes one of them (`world`): the SQL repository,
whose loaded runs cannot be updated; the protocol, as the unit tests stub it;
and the one the executor expects, which nothing provides. `Crash` ends a worker
between any two steps and leaves its run as it is. **RunLifecycle** is the
abstract promise about one stored run, without entities, calls or signals: its
states, its cost, and its steps one after the other, until an overwriting write
tears it. RunControl maps each row of its table to one such run.

**CircuitBreaker** and **Fallback** are the records of the two helpers and
their methods as operators. **ProviderService** extends both and holds a
breaker per registration of a guarded provider. `complete()` has two awaits,
hence three kinds of action: admission (or a fast failure into the fallback),
the primary's answer (success, error of each type, cancellation), and the
fallback's. A call keeps the breaker it was admitted by (`gen`), also when the
provider is registered again meanwhile. `Tick` is the wall clock; time counts
from the open timestamp and saturates at the timeout, where the code stops
telling values apart. **BreakerContract** is the abstract promise: modes,
whether the open period has passed, the admitted calls under way, and the
fallback calls, which no breaker is asked about: they reach a provider whose
circuit is open, and their answers move nothing. It has no counters and no clocks.

**ProviderAdapter** is what one call of a provider is made of: the attempt
loops of `BaseProvider` and `RetryHandler`, the two classifiers (they differ in
how they read Retry-After and in the name of a connect error), the backoff, the
shared HTTP client with its health checks and closings, what the adapters make
of a conversation and of an answer, and the exceptions they end in. **ProviderCalls**
puts the two together: *FailuresReachFallback* says that what an adapter raises
is what the service falls back on.

**FallbackService** is `execute_with_fallback`, which has one await: the counting
and the choice before it are one action, what follows the answer another. The
handler is `Fallback` instantiated with the configuration in force. `charged`
remembers which executions took attempts from the present counters. That a
request goes only to a registered, listed provider other than its primary is what
the action's own guard says, and is not checked again.

**Idempotency** is the middleware around a handler: `get`, `set`, handler,
`get`, `get`, `set`, one action per Redis round trip, any of which may fail (and
is then taken for "no entry", or ignored), with `Abort` between any two and
entries that expire or are invalidated at any time.

**RateLimits** is the middleware (check, handler, record: the handler runs
before the verdict is looked at) and the counters of concurrent runs, with the
Lua scripts as atomic steps where the client runs them, and refused where it is
handed a Boolean instead of a SHA, as the code does. **ToolPolicy** is the
policy evaluator as operators, the stable sort as the place it gives each rule, with
the reference definition *PolicyDecides* compares it with; **ToolCalls** is `execute_tool` over a sliding window, read
before the execution and counted after it, in a window whose Redis key omits
the scope. **BudgetCache** and **EphemeralMemory** are the two caches, one
action per Redis command; `tally` and `largest` record what was ever added and
given, `held` and `stayed` what a name was during a scan.

**Degradation** is the service and one turn of the monitor's loop. No coroutine
of the service suspends, so each is one action. `AutoRecovery` is the setting
that entering a mode reads: "missing", as in the repository's `Settings`, or as
the tests' mock has it. The health checks, which are placeholders in the code,
answer anything in `HealthAnswers`.

**Approvals** is one request and the responses to it, each a transaction: read,
decide on the entity, read again, write the columns that differ from the second
reading under the row's lock, notify, commit or roll back. **Agents** has the
same conventions, and with them the identity map: a row selected a second time
in a session is the old object with its old values if Python still keeps it
(`req.kept`), and is read anew if not.

**Outbox** is the table and the flushers: a batch in any order, process, flush
(which locks the row until the end of the transaction), commit or roll back, and
the database's choice of a deadlock victim.

**TextPipeline** is what is done to a text: normalisation, classification by
patterns, redaction by one pattern after the other, each in what the others left,
and the chunker's loop as a recursive function, on texts that are sequences of a
few kinds of token. A pattern that asks for word boundaries matches its token only
where no word character is next to it, so a replacement may free a match; a match
that spans tokens is left out. **MemoryRecords** extends it with
the rows: writes in chunks against a quota, readings, searches and cleanups,
each with its uncommitted insertions and deletions in `req.tx`; `req.found` is
where the classifier found something in the text. **SessionMemory**
extends that: the Redis list, the metadata that is read, counted up in Python
and written back, the summary in PostgreSQL, and the ending of a session, which
goes through the writes of MemoryRecords.

The `MC*` modules give the constants that a configuration file cannot write,
and three of them compose. What MCRedis and MCMemory put together works on
disjoint keys, and MCProviders on levels one of which abstracts the other, so a
behaviour takes one part, chosen in its first state: an interleaving of two
parts that share nothing shows no more than each alone. A theorem about the
specification of a part (`LimitSpec`, `CallSpec`, `BudgetSpec`, `MemorySpec`,
`StoreSpec`, `AdapterSpec`, RunControl's `Spec`) is therefore one about the
behaviours of the run: each first state of the run is one of the part's, each
step one of its steps or one that leaves its variables alone.

## 3. The runs

| Run | Instance | Distinct states |
|---|---|---|
| `run_aggregate` | one worker, two steps, budget 2, up to 6 events of one object | 2 612 107 |
| `providers` | two overlapping calls, to a guarded provider or to another that falls back on it, 4 admissions, two registrations, opens at 1 of 2 failures, two half-open probes, 4 fallbacks over a list that names the guarded provider twice, the other and a stranger; or one request through an adapter with two retries | 504 562 |
| `fallback_service` | two executions, two providers, configurations of 5 attempts over a list that names the primary and of 2 attempts | 146 808 |
| `idempotency` | three requests, two keys, one Redis failure | 118 923 |
| `idempotency_race` | two requests, one key, no failure (a violation) | about 300 |
| `degradation` | thresholds 3 and 2, counts up to 5, any health, the repository's settings (a violation) | about 30 |
| `approvals` | three responses of any kind | 288 232 |
| `outbox` | three events, two flushers, batches of two, one fault | 60 523 |
| `agents` | three requests of any kind, three versions, two agents, two names | 134 232 |
| `redis` | three requests, or three runs of two tenants, or three tool calls under five grants, or three calls of the budget cache, or three of a run's memory over two names; one Redis failure, one restart | 650 206 |
| `memory` | two requests on durable memory while the clock ticks, or three on one session with one Redis failure | 2 990 057 |
| `run_control` | two calls of any kind with crashes, in each of the three worlds; or a worker and two calls | 449 509 |

A run checks a handful of invariants, each the conjunction of parts that are
stated and named one by one in its module, the type invariant among them, and
the action and temporal properties. What they say, and why the bounds are
enough:

* `run_aggregate`. *EventsTellTheRun*: the reported changes form one chain
  ending in the present state (*EventsTellTheState*), and the attempt number is
  what was loaded plus the reported retries (*RetriesCounted*).
  *EndingsMatchTheState*: one ending, that of the state, and reported as long as
  the cost is a `Money`. *StepsAreAccountable*: limit, distinct numbers, each
  report backed by a step. *EndsAreFinal*: nothing leaves a terminal state.
  `MaxEvents = 6` bounds one object's event list, not the life of the row, which
  may be loaded and stored again without end; six leave room for a creation, two
  transitions with a step between and an ending. The leases 30 and 300 make both
  outcomes of the `datetime.replace` occur, the token totals 99 and 100 both of
  the rounding.
* `providers`. *BreakerSound*: the breaker's fields agree whatever the order of
  late answers, resets and clock; it never locks itself; it opens on evidence.
  *CallsKept*: no answer is lost or counted twice, also under cancellation and
  replacement; both paths to a fallback together stay within
  `max_fallback_attempts`, and a fallback goes to another, registered provider
  whatever the list says. *BreakerKeepsContract* is the refinement: admitted calls
  obey the breaker, fallback calls do not ask it. The other provider has no breaker,
  so that a call to it can fall back on the guarded one while that one is open.
  *OpenBreakerRecovers* is liveness. Two calls are the least at which an answer
  comes late, four admissions let a breaker open, recover, and fail again; a
  second registration is what a stale answer needs. Inside one call:
  *AttemptsBounded* (what is retried, how often, how long it waits, and that no
  client is abandoned), *TranslationLosses* (an empty system prompt
  and the texts of an answer after its first are lost, and no other message, tool
  call or reason to stop), *FailuresReachFallback*, *EveryRequestEnds*. Two retries
  and a backoff of 2, capped at 3, let the cap bite; the conversations and
  replies have the system prompt present, empty and absent, and two tool calls
  with a text before, between and after.
* `fallback_service`. *MetricsAgree*: attempts are successes, failures, running
  and cancelled ones, both breakdowns add up, and an execution takes two
  attempts, because the provider is picked twice; so the default limit of two
  allows one execution. The odd limit leaves an attempt that `can_fallback`
  alone can take. Two executions that never start again make the state space finite.
* `idempotency`. *DuplicatesAnswered*: what is replayed came from a successful
  handler of the same key, and a duplicate that arrives while its key is stored
  does not reach the handler. *KeysAreFreed*: no interleaving of the two writers
  leaves an entry that stays. A third request is needed for an entry that is
  replaced between another's read and write.
* `degradation`. *ThresholdDegrades*: a failure that brings a component to its
  threshold leaves the service degraded. With the settings the repository has it
  never does (section 5).
* `approvals`. *ApprovalsGiven*: an approval in the row was given while pending,
  in time and committed. Three responses are the least at which one reads, a
  second is written in between, and a third decides on the mixture.
* `outbox`. *DeliveryCounted*: what is marked was processed, and a flusher or a
  roll-back repeats an event at most once. *EventuallyProcessed*. Batches of two
  from three events let batches overlap in one event and leave one for later;
  two flushers with two events each can deadlock.
* `agents`. *VersionsCoherent*: versions are published side by side only by
  publications that overtook each other, one more for each; names differ; a
  deleted agent's versions do not come back. *PublishTakesEffect*: a publication
  nothing overtook leaves its version as the only one, whichever old objects the
  session still had. *FixedUnlessOvertaken*: a version is
  rewritten only by an update that read it as a draft, and one that is a draft no
  more only by an update that another commit overtook. Two publications overlap on the version a third
  request has published.
* `redis`. *WindowLimit* (the script keeps the limit although a request is counted
  twice and replies are lost),
  *RunsCounted* (counters against the runs that hold them, and the limit exceeded
  only by runs checked while another was between its check and its increment),
  *ToolCallsHeld* (each call gets the answer of the deciding rule of its grant, one
  that wants an approval waits for it, and the window holds; that a denied call runs
  nevertheless is in the model, and in section 5),
  *BudgetsKept* and *MemoryScanned*. Limits of one and two are reached by three
  callers; one failure and one restart strike between any two commands; the
  tool windows are of two, four and eight ticks, and one grant has a limit by the
  day alone.
* `memory`. *StoredWhole*: every character of a text is in some chunk, what
  the classifier found in it is neither stored nor served as it was, every record was
  announced, and a cleanup reports the scopes in
  which a write would be refused. *QuotaKept*, *CleanupExact* (what has expired
  goes, what a search could find stays), *MessagesKept* (the list holds the most
  recent entries in order, an ending drops no message it did not summarise but
  those that came after its snapshot, the count lies between what is listed and
  what ever was), *DeletionEndsAll*. Chunks of ten with an overlap of one make
  the texts of `MCTexts` be cut at a sentence, in the middle of words and right
  before a secret, and have digits next to an address, which its redaction frees; a quota of two records and one of a megabyte are passed by
  one write, and by two that overlap.
* `run_control`. *KeyNamesOneRun* (all that are given a stored run under a key are
  given the same one), *SpentAccounted* (a cost is lost only if a call
  wrote over what it had not seen), *WorkersBehave* (no step is begun twice
  unless two workers overlapped in starting the run; once the flag is up, at most
  the step already cleared), *RunsKeepLifecycle*, the refinement (each run is a
  RunLifecycle: it stays as it ended, its cost only grows and never beyond its
  limit, its steps run in order and each once, unless a call wrote over what it
  had not seen; with the SQL repository no stored run changes at all), and, as
  liveness, *CancellationStopsWorker*. The refinement is an action property of
  all runs at once, because a configuration cannot name one `Lifecycle(r)` for
  each. Two calls show each race of two handlers; a worker with a cancellation and a recorded
  cost needs three, for which calls that only read are left out.

Deadlock checking is off where the system really comes to rest: all requests,
responses or calls are answered, all events processed.

Fairness, and why the code justifies it:

* ProviderService: the clock advances, and each call in flight is answered,
  fails or is cancelled. ProviderAdapter assumes that an attempt ends (an HTTP
  timeout) and a sleep is over, and *EveryRequestEnds* shows that the assumption
  of the level above follows. Not assumed: that anyone calls, resets or asks.
* Idempotency: Redis expires a key with a time to live. Not assumed: that
  requests make progress or are retried.
* Outbox: each flusher takes its next step (dramatiq schedules the actor and
  the stand-alone loop runs on). Not assumed: that a transaction succeeds; but
  faults other than deadlocks are bounded by `MaxFaults`.
* RunControl: an awaited call of the database, of Redis or of a tool returns
  (`Proceed`). Not assumed: that any call is made, or that a worker survives.
* The others need none: they promise only safety.

## 4. The theorems

Each theorem has the form `Spec => []P`, `Spec => [][A]_vars` or `Spec =>` an
abstract specification, and rests on the named ASSUMEs of the module: types and
signs of the constants, and what the configuration classes validate. The number
of callers, providers, keys, events, flushers, responders, texts, rules and
windows, the limits, thresholds and bounds are arbitrary. Every safety property
of a passing run is a theorem; liveness is not (below).

| Module | About | Theorems that state a run's property | And others |
|---|---|---|---|
| RunAndOutboxProofs | Run | RunsCanBeReplayed, OneEndingReported, StepsStayAccountable, FinalStatesAreFinal | EventsReplayTheState, RetriesAreCounted |
| | Outbox | DeliveryStaysCounted | ProcessedOnlyIfDelivered, DuplicatesAreBounded |
| ProviderServiceProofs | ProviderService | BreakersStaySound, CallsStayAccounted, ServiceImplementsContract | BreakersStayCoherent, HalfOpenAlwaysProbed, OpenNeedsEvidence, HealthCovers, NoAnswerLost, FallbacksBounded, FallbacksGoElsewhere |
| | ProviderAdapter, ProviderCalls | AttemptsStayBounded, FailuresReachTheService, TranslationsLoseNoMore | ConversationsSent |
| FallbackAndDegradationProofs | FallbackService | MetricsStayInAgreement | MetricsAddUp, SuccessesBrokenDown, HalfTheAttemptsServe |
| | Degradation | | NeverDegrades |
| IdempotencyProofs | Idempotency | DuplicatesAreAnswered | ReplaysAreGenuine, LateDuplicatesNeverExecuted |
| ApprovalAndLimitProofs | Approvals | ApprovalsStayGiven | ApprovalsAreGiven, PendingIsLeftForGood |
| | BudgetCache | BudgetsStayKept | SpendingExact, RoomIsGiven, HashesExpire |
| | RateLimits | RequestsAreLimited, RunsStayCounted | CountersStayExact, RunsStayWithinLimit |
| | ToolPolicy, ToolCalls | ToolCallsStayHeld | |
| AgentsProofs | Agents | VersionsStayCoherent, PublicationsTakeEffect, FixedVersionsStayFixed | SideBySideIsBounded, NamesStayDistinct, DeletionIsForGood |
| RunControlProofs | RunControl | CostsAreRecorded, KeyGivesOneRun, WorkersAreControlled, RunsFollowLifecycle | WorkersStop, StepsBeginOnce |
| MemoryProofs | EphemeralMemory | ScansAreComplete | LoadsAreComplete, ClearingIsComplete |
| | TextPipeline, MemoryRecords | RecordsStoredWhole, QuotaIsKept, CleanupTakesExactly | |
| | SessionMemory | MessagesAreKept, DeletionEnds | |

Each module also proves its type invariant and names its inductive invariant.
The arguments, in a few words each:

* **Run.** The story and the ending are stated of a list of events and a state,
  so that appending an event is one lemma and a method that reports two events
  takes two steps through it. The steps stored in the row keep their limit and
  numbers, since a load brings them back. An object without a `Money` was
  loaded, so that its count of retries starts from a row.
* **Outbox.** What a flusher marked, or is about to, was processed. Each
  processing is answered for by a roll-back or by one flusher (`Owing`): before
  the commit by one that holds the event, after it by one that will not process
  it again in its batch.
* **ProviderService.** One `GoodBreaker` predicate is kept by each operator, and
  a call in flight names a registered provider; without them an answer could be
  recorded where no breaker is. For the refinement each action is mapped to a
  step of the contract or a stutter, for each guarded provider; a fallback call that
  reaches one is the contract's unasked call, whatever its breaker's state.
* **ProviderAdapter.** `AdapterIInv`: the attempts made and the pauses taken
  agree with the place in the loop, a request under way has a client that is
  counted among the open pools, and what was raised last decides what is raised
  to the service. *GrowthAssumption* says that the powers the backoff grows by
  are natural numbers: TLC computes it for the instance, the provers know
  nothing of powers. *ConversationAssumption* is what `ModelRequest` validates,
  *RepliesAssumption* types what the two HTTP services answer. What is kept of an
  answer (*TranslationLosses*) is stated of the parts of one type: the n-th of them
  is the part at the place with n such places up to it, which exists by an
  argument on the least place.
* **FallbackService.** The charged executions have started, so that a second
  charge is impossible; the counts are cardinalities of the sets of calls in
  each phase.
* **Degradation.** *NeverDegrades* assumes the settings the repository has: then no
  action reaches the assignment of a mode, so that full mode is inductive by itself.
* **Idempotency.** Entries *and the snapshots requests hold* carry genuine
  responses (a snapshot is written back later); a late duplicate is either
  waiting at an entry or done.
* **Approvals.** The entity a response holds is decided, and approved only by a
  timely approval; without it a write of a stale entity could not be excluded.
* **BudgetCache.** A hash that is gone counts nothing and its history starts
  again; whoever is about to write a tenant's spending read it, or somebody has
  written since.
* **RateLimits.** `WindowInv`: the counter covers the requests admitted in the
  window, and a window someone was admitted to has its expiry. `RunInv`: what a
  counter shows is the runs that hold it, plus what a lost reply or a lost
  decrement left, which no flawless behaviour has.
* **ToolCalls.** The places of the sorted rules are a permutation (a pigeonhole)
  in the order in which rules are to be tried, so the first that matches is the
  deciding one. While all limits are of one scope a counter is the number of
  calls counted in its window and outlives it; a call that passed alone has room
  in the window it will be counted in (`RoomForPassed`), at most one such call
  is under way, and a late one makes room for itself (`WindowsFit`).
* **Agents.** `AgentsInv` says what an open session still knows: what it loaded
  is what the tables hold as long as no other commit came between, and the
  statuses it is about to write follow. Two versions published side by side are
  then paid for by a publication that was overtaken.
* **RunControl.** `ControlInv` says of every call what it knows of the row its
  entity was read from: that the row exists and has as many steps, how costs,
  states and requests to stop compare while nobody wrote since, that a worker's
  steps are the row's but for the one it has to save, and which were not begun; and
  of the rows, what was recorded of them, that their steps were begun in order, and
  that no two have one tenant and key. Each
  action is one of four classes of step: a call moves on (`ThenStep`), a call to
  Redis returns (`RedisKeeps`), an entity is written over its row (`WriteKeeps`),
  a step of a run changes state (`StepKeeps`). For the refinement every action
  that writes no row leaves each lifecycle alone (`Unwriting`), and one that does
  makes one move of the run it writes, or overwrites it. Two parts of the
  invariant are there for it: a write that is fresh must not take back a request
  to stop (`Asked`), and a step a worker begins must be the next one of the row
  (`Steps`, `InOrder`). The run's instance of `StoredSteps`,
  the steps of a run stored before, is the run's bound; the theorem takes any.
* **EphemeralMemory.** A scan still has to visit whatever is not yet gathered
  and was there all along.
* **MemoryRecords and SessionMemory.** `StoreInv` has three parts. `RecordsInv`
  types the tables and says that an open transaction inserts what is not there
  and deletes what is, that a write alone still has the room it checked
  (`RoomLeft`) and that a cleanup deletes no record twice (`SweptOnce`).
  `SessionBasic` says that the list holds the most recent entries in order.
  `SessionHeld`, without Redis failures, says what a request knows of the session:
  a deletion has found the keys that are there (`KeysSeen`), a snapshot covers the
  list but for what came later, and the count lies between what is listed and what
  ever was (`CountedIn`, `CountBalanced`). A step either only reads (`HeldReads`)
  or writes (`HeldWrites`), and then each other request has been overtaken or is
  spared.
* **TextPipeline and StoredWhole.** What the chunker computes is proved for every
  text without induction over the text: the loop is a function on the natural
  numbers up to its length (it exists because a chunk starts after the one
  before), and were a place in no chunk, or a chunk not within the text,
  there would be a least or a greatest start of which that is so (`LeastNatural`,
  `GreatestNatural`, from the library's well-foundedness of the natural numbers).
  A match the classifier found is replaced by its own pattern at the latest, since
  what other patterns replaced before leaves it a match (`StillMatches`), and stays
  replaced (`SubstitutedRedacts`). `StoredInv` carries both through the writes: the
  tables hold nothing of what was found, what a request has stored and the chunks it has left together cover
  its text (`GoodStored`), and a cleanup's report agrees with what a write would find.
  The report counts whole megabytes and a write asks for the same, which is
  arithmetic. *OverlapAssumption* is what the services' `TextChunker()` has.

*PendingIsLeftForGood* is about steps, and no run repeats it: no step makes a
decided request pending again.

Left to TLC:

* Liveness: *OpenBreakerRecovers*, *EveryRequestEnds*, *KeysAreFreed*,
  *EventuallyProcessed*, *CancellationStopsWorker*. TLAPS has
  neither ENABLED nor fairness.
* *OneHandlerPerKey* and *ThresholdDegrades*, which do not hold (section 5).

## 5. What the code does not do

Two runs end in a counterexample:

* `idempotency_race`: two requests with one idempotency key that look it up
  together both execute, although the middleware tells a duplicate that its
  request is already being processed.
* `degradation`: `_enter_degradation_mode` reads
  `settings.degradation_auto_recovery`, which does not exist, so reaching a threshold
  raises AttributeError after the failure was counted and before the mode is set,
  and the service never degrades, although
  `degradation_service.py:52-53` calls the threshold the number of failures before
  degradation; the unit test (`test_degradation.py:19,44`) passes a mock. *NeverDegrades*
  proves it for all constants. Nothing but the tests constructs the service.

Two more disagreements were found by runs which have since given their place
to larger ones; the models still behave this way:

* A half-open breaker admits any number of probes at once: `half_open_calls`
  counts successes, while `docs/providers/circuit_breaking.md` says that limited
  test requests are allowed (line 25), three with the configuration of line 38.
* Overlapping responses leave an approval in the name of a user who denied.

Met while modelling, and part of the models:

* **Runs.** `Run.start` raises for the default lease of 300 seconds, after the
  state changed. A run loaded by `SQLRunRepository` cannot be updated, so
  cancellation, budgets and the executor raise over the SQL adapter. The
  executor raises at `run.agent_version`, which runs do not have; over a
  repository that supplied it, it would call `update_step` with two arguments
  where the protocol takes one, leave a failing step "running", ask twice for the
  same approval and fail the run, and never reach `complete`. A worker that
  crashes leaves its run RUNNING and nothing takes it up; a job delivered again
  while it runs fails the run. A cancellation reports False when only the
  publication of its signal failed, although the flag is set; the use case that
  cancels signals nobody (`docs/DATA_FLOWS.md:495` shows it doing so).
  `check_run_budget` reserves nothing: overlapping costs pass a limit together. A
  finished run still gets steps and costs, although
  `docs/LOW_LEVEL_PRODUCTION_IMPLEMENTATION.md:119` calls terminal states immutable.
  The session of `api/v1/runs/router.py:35-47` is closed without a commit: over the
  routes no run is stored, and a second POST with the same key creates another one
  (in the model, a creation that ends "unsaved"). Where a session is committed, the
  loser of a race gets an IntegrityError and not the original run that line 302 of
  the same document promises.
* **Providers.** `_get_client` hands httpx timeouts without a default, which the
  library refuses: every HTTP call raises ValueError before it is sent. The
  simulated errors of the fake are classified as unknown. The Anthropic adapter
  keeps the first text block of an answer only, and drops an empty system prompt.
  `_attempt_fallback` calls a provider without asking that provider's breaker, so a
  fallback reaches one whose circuit is open, although
  `docs/providers/circuit_breaking.md:19-20` says that no actual provider calls are
  made while a circuit is open; its answer is recorded nowhere.
  Reading a breaker's status may turn it half-open, and `/readyz` reads them all.
  `can_fallback` takes an attempt each time it answers yes.
* **Idempotency.** The middleware stores `{}` for the streaming responses it
  gets, and Python takes `{}` for false: the duplicate gets a conflict. Only the
  key is compared, not the operation or the payload.
* **Degradation.** Were the setting there, a mode an operator entered would be
  overwritten by the next failure and then left automatically; one who enters FULL
  leaves the counters past their thresholds.
* **Approvals and audit.** Approvers are notified before the commit;
  `expire_old_requests` has no caller; overlapping responses are all accepted.
  The audit event's payload holds a UUID that the JSON encoder refuses.
* **Limits.** `evalsha` is handed the flag that says the script is loaded where
  its SHA belongs, so every check fails open. A request is executed before the
  429, and is counted twice. The key of `RedisRateLimiter` omits the scope, so
  the minute's expiry ends the hour's window. `execute_tool` never asks whether a
  decision allows the call: a denied call runs, uncounted, against
  `docs/DATA_FLOWS.md:175-177` and the deny-by-default of
  `docs/sprints/SPRINT_7_TOOL_SECURITY_APPROVAL.md`. *ToolCallsHeld* says what the
  policy answers, not that the answer is heeded.
* **Caches.** An addition to a hash that expired makes one without limits, which
  reads as no room and is kept alive by each further addition. Overlapping
  additions to a tenant's spending lose one, or bring back what an invalidation
  took away. `clear_run` has no caller, although `docs/MEMORY_SYSTEM.md` promises
  a cleanup on completion.
* **Memory.** `repositories/memory.py` does not parse (line 184). A text of
  whitespace stores nothing and answers 201; a text longer than the overlap gets
  a last chunk that repeats its tail. The chunker accepts any overlap below the
  whole chunk, but with one of more than half a chunk the loop may not advance past
  a chunk cut at a sentence and then drops the rest of the text; the services use
  a tenth. The quota counts expired records and is
  checked once, so overlapping writes pass it. `retrieve_by_metadata` and the
  listing return expired records. `DELETE /memory/{id}` deletes nothing;
  `/memory/sessions` and `/memory/stats` are shadowed by `/memory/{record_id}`.
  A Redis failure while a session ends reads as an empty history: everything is
  dropped. A session that ends twice violates the uniqueness of its summary. The summary of
  a session goes into its own table as it is, neither redacted nor encrypted,
  although `session_memory_service.py:314` says that the write service will encrypt
  it: that service only gets a copy, which becomes a durable record. "Delete a session
  completely" (line 462) leaves that record. What is stored may match a pattern
  again: the patterns are applied one after the other and only those of types that
  were found, so the redaction of `x@y.com5551234567` leaves
  `[REDACTED]5551234567`, whose digits now stand by themselves, and the cut of a
  chunk may do the same.
* **Agents.** A published version can be rewritten: an update that read it as a
  draft, and that a publication overtook, commits its text and its status over the
  published ones, or the text alone, although `api/v1/agents/router.py:304-305` and
  343 call a published version immutable, and `README.md:76` does.
  *FixedUnlessOvertaken* says that nothing else rewrites one.
  No operation inserts a version, and adding a tool grant raises. The
  "soft delete" deletes rows. Two versions published side by side make every
  later publication raise MultipleResultsFound.

## 6. What is not modelled

Abstracted inside the models: texts, identifiers, timestamps (only whether a
deadline has passed), logging and metrics nobody reads, the breaker's
consecutive counters and failure window, which no decision reads, payloads of
requests and events, other tenants where a key holds the tenant. Similarity of
texts is a choice among the live records.

Left out, each with its reason in `PROJECT.json`: encryption and embeddings
(library calls; a wrong ciphertext is not a state), authentication and tenants
(conversions and single rows), periodic cleanup (simulated in the code),
observability, settings, schema, deployment, and the vector index (no caller).
Partly modelled: the API shell, whose endpoints that change state are part of
their component's module; the provider registry, whose readiness probe is
modelled as far as it reads the breakers; and budgets, of which the
tenants' rows in PostgreSQL are left out, because the repository neither loads
nor writes their columns.

## 7. What could come next

- One abstract run with retries and approvals, that Run and RunControl both
  implement: RunLifecycle has only the transitions that stored runs make.
- The tenants' budgets, once the repository writes their columns.

A new run should take the place of one that has told its story, and the theorems
of related components share a module, so that all of it can be rechecked in
about half an hour.

## 8. Checking it

    tlc -workers 2 -config Run.cfg MCRun
    tlapm RunAndOutboxProofs.tla

and likewise for the other configurations (`PROJECT.json` names the module of
each) and proof modules. The largest runs take about two minutes each, the
proofs together about half an hour.
