--------------------------- MODULE ProviderAdapter ---------------------------
(***************************************************************************)
(* What a provider call is made of: BaseProvider.complete (app/            *)
(* infrastructure/providers/base.py), which sends a request up to          *)
(* max_retries + 1 times, its adapters for OpenAI and Anthropic and the    *)
(* fake one, and RetryHandler (retry.py), which retries any coroutine the  *)
(* same way.                                                               *)
(*                                                                         *)
(* A request awaits an answer and, between two attempts, the end of the    *)
(* backoff; requests of one adapter share its HTTP client.  Replies and    *)
(* errors are the network's and the client library's choice.  With the     *)
(* arguments _get_client passes (no default and no pool timeout) the       *)
(* library raises ValueError before anything is sent: that is the failure  *)
(* "other" below, and the only one of the two HTTP adapters as written.    *)
(***************************************************************************)
EXTENDS Integers, Sequences, FiniteSets

CONSTANTS
    Requests,           \* calls of complete() or execute_with_retry
    Texts,              \* the texts a message may hold
    Conversations,      \* the messages a request may carry
    Replies,            \* what the network may answer, see Reply
    NoText,             \* Python's None where a text may stand
    MaxRetries,         \* RetryPolicy
    InitialBackoff,
    MaxBackoff,
    BackoffMultiplier,
    Jitter

\* RetryPolicy.__post_init__ (the multiplier is a float there).
ASSUME RetryPolicyAssumption ==
    /\ MaxRetries \in Nat
    /\ InitialBackoff \in Nat \ {0}
    /\ MaxBackoff \in Nat \ {0}
    /\ BackoffMultiplier \in Nat \ {0, 1}
    /\ Jitter \in BOOLEAN

\* The backoff grows by a power of the multiplier, and powers of a natural number
\* are natural numbers: TLC computes it, the provers know nothing of powers.
ASSUME GrowthAssumption ==
    \A n \in 0..MaxRetries : InitialBackoff * BackoffMultiplier ^ n \in Nat

\* ModelRequest.__post_init__ refuses an empty list.  A message is [role, text].
ASSUME ConversationAssumption ==
    /\ NoText \notin Texts
    /\ Conversations \subseteq Seq([role : STRING, text : Texts]) \ {<<>>}

\* What _normalize_response counts on: the parts are texts and tool uses, and
\* OpenAI never stops with Anthropic's name for a stop to have tools called.
ASSUME RepliesAssumption ==
    /\ Replies \subseteq [from : {"openai", "anthropic"}, stop : STRING,
                         parts : Seq([type : {"text", "tool_use"}, what : STRING])]
    /\ NoText \notin STRING
    /\ \A reply \in Replies :
         reply.from = "openai" => reply.stop # "tool_use"

VARIABLES
    request,    \* request[r]: the local state of one call
    client,     \* client[k]: the adapter's _client
    pools,      \* history: HTTP clients built and not yet closed
    simulated   \* the error FakeProvider simulates, or "none"

adapterVars == <<request, client, pools, simulated>>

HttpAdapter == {"openai", "anthropic"}

\* Who runs the attempts: an adapter, or RetryHandler around a coroutine.
Runner == HttpAdapter \cup {"fake", "handler"}

-----------------------------------------------------------------------------
(* Errors.                                                                 *)

\* The exceptions an attempt may end with.  "http_429_date" is a 429 whose
\* Retry-After is not a number of seconds; "other" is any other exception:
\* of the client library, of a reply that lacks a field, of the fake.
Failure == {"timeout", "http_429", "http_429_date", "http_5xx", "http_401",
            "http_400", "http_other", "connect", "other"}

\* _classify_error of BaseProvider: retryable, and the error type.
IsRetryable(f) == f \in {"timeout", "http_429", "http_429_date", "http_5xx", "connect"}

\* Mutated form: a missing branch, so a rejected key looks like an outage.
ClassifiedTypeNoAuth(f) ==
    CASE f = "timeout"                         -> "timeout"
      [] f \in {"http_429", "http_429_date"}   -> "rate_limit"
      [] f \in {"http_5xx", "connect", "http_401"} -> "server_error"
      [] f = "http_400"                        -> "validation_error"
      [] OTHER                                 -> "unknown"

ClassifiedType(f) ==
    CASE f = "timeout"                       -> "timeout"
      [] f \in {"http_429", "http_429_date"} -> "rate_limit"
      [] f \in {"http_5xx", "connect"}       -> "server_error"
      [] f = "http_401"                      -> "auth_error"
      [] f = "http_400"                      -> "validation_error"
      [] OTHER                               -> "unknown"

MapException(type) ==
    CASE type = "timeout"          -> "ProviderTimeoutError"
      [] type = "rate_limit"       -> "ProviderRateLimitError"
      [] type = "auth_error"       -> "ProviderAuthenticationError"
      [] type = "validation_error" -> "ProviderValidationError"
      [] OTHER                     -> "ProviderUnavailableError"

ProviderException ==
    {"ProviderTimeoutError", "ProviderRateLimitError", "ProviderAuthenticationError",
     "ProviderValidationError", "ProviderUnavailableError"}

\* The handler reads Retry-After as an integer while it classifies, raises
\* ValueError when it is not one, and otherwise raises what the call raised.
HandlerRetries(f) == IsRetryable(f) /\ f # "http_429_date"

\* The type ProviderService._classify_error gives what an adapter raised.
ServiceErrorType(exception) ==
    CASE exception = "ProviderTimeoutError"        -> "timeout"
      [] exception = "ProviderRateLimitError"      -> "rate_limit"
      [] exception = "ProviderAuthenticationError" -> "auth_error"
      [] exception = "ProviderValidationError"     -> "validation_error"
      [] OTHER                                     -> "server_error"

\* FakeProvider._simulate_error: the provider exceptions it raises are not
\* httpx exceptions, and only its timeout is one that is tried again.
FakeFailure(type) == IF type = "timeout" THEN "timeout" ELSE "other"

-----------------------------------------------------------------------------
(* Backoff.                                                                *)

BackoffCap(attempt) ==
    LET base == InitialBackoff * BackoffMultiplier ^ attempt
    IN  IF base < MaxBackoff THEN base ELSE MaxBackoff

\* _calculate_backoff, in the unit of time the policy is given in.
Backoff(attempt) == IF Jitter THEN 0..BackoffCap(attempt) ELSE {BackoffCap(attempt)}

-----------------------------------------------------------------------------
(* Requests and replies.                                                   *)

\* The body sent to the provider is the messages and, for Anthropic, the system
\* prompt taken out of them.
OpenAIBody(messages) == [system |-> NoText, messages |-> messages]

AnthropicBody(messages) ==
    LET first == Head(messages)
    IN  IF first.role # "system"
        THEN [system |-> NoText, messages |-> messages]
        ELSE [system |-> IF first.text = "" THEN NoText ELSE first.text,
              messages |-> Tail(messages)]

Body(k, messages) ==
    IF k = "anthropic" THEN AnthropicBody(messages) ELSE OpenAIBody(messages)

\* A reply is [stop, parts]: the provider's stop reason and what it wrote,
\* parts of type "text" or "tool_use", in order.  OpenAI's message holds one
\* text and a list of tool calls, so its parts are a text before the tools.
OfType(parts, type) ==
    LET places == {i \in DOMAIN parts : parts[i].type = type}
        Nth(n) == CHOOSE i \in places : Cardinality(places \cap 1..i) = n
    IN  [n \in 1..Cardinality(places) |-> parts[Nth(n)]]

FirstText(parts) ==
    LET texts == OfType(parts, "text")
    IN  IF texts = <<>> THEN NoText ELSE Head(texts).what

\* Mutated form: one tool call at most, as there is one text at most.
AnthropicToolCallsFirstOnly(parts) ==
    LET used == OfType(parts, "tool_use")
    IN  IF used = <<>> THEN <<>> ELSE <<Head(used).what>>

AnthropicToolCalls(parts) ==
    LET used == OfType(parts, "tool_use")
    IN  [i \in DOMAIN used |-> used[i].what]

OpenAIToolCalls(parts) ==
    LET used == OfType(parts, "tool_use")
    IN  [i \in DOMAIN used |-> used[i].what]

\* finish_reason_map; other stop reasons are passed on as they are.
AnthropicFinish(stop) ==
    CASE stop \in {"end_turn", "stop_sequence"} -> "stop"
      [] stop = "max_tokens"                    -> "length"
      [] stop = "tool_use"                      -> "tool_calls"
      [] OTHER                                  -> stop

\* ModelResponse as both adapters fill it.
ModelAnswer(k, reply) ==
    [content |-> FirstText(reply.parts),
     toolCalls |-> IF k = "anthropic" THEN AnthropicToolCalls(reply.parts)
                   ELSE OpenAIToolCalls(reply.parts),
     finish |-> IF k = "anthropic" THEN AnthropicFinish(reply.stop) ELSE reply.stop,
     safetyStop |-> reply.stop = "content_filter"]

RepliesOf(k) == {reply \in Replies : reply.from = k}

-----------------------------------------------------------------------------

NewRequest == [pc |-> "new", runner |-> "fake", messages |-> <<>>, attempt |-> 0,
               retried |-> {}, slept |-> 0, last |-> "none", raised |-> "none",
               reply |-> NoText, body |-> NoText, answer |-> NoText]

\* Each request in a phase it knows, raising only exceptions callers are told
\* of; never more clients than adapters.
AdapterTypeOK ==
    /\ \A r \in Requests :
        /\ request[r].pc \in {"new", "attempt", "backoff", "answered", "raised", "cancelled"}
        /\ request[r].runner \in Runner
        /\ request[r].attempt \in 0..MaxRetries
        /\ request[r].retried \subseteq Failure
        /\ request[r].slept \in Nat
        /\ request[r].last \in Failure \cup {"none"}
        /\ request[r].raised \in ProviderException \cup Failure \cup {"ValueError", "none"}
    /\ client \in [HttpAdapter -> {"none", "open", "closed"}]
    /\ pools \in [HttpAdapter -> Int]

AdapterInit ==
    /\ request = [r \in Requests |-> NewRequest]
    /\ client = [k \in HttpAdapter |-> "none"]
    /\ pools = [k \in HttpAdapter |-> 0]
    /\ simulated = "none"

\* _get_client, when the library accepts its arguments.  Nothing is awaited
\* between the test of _client and its assignment.
GetClient(k) ==
    /\ client' = [client EXCEPT ![k] = "open"]
    /\ pools' = [pools EXCEPT ![k] = IF client[k] = "open" THEN @ ELSE @ + 1]

\* The attempt is answered: raise_for_status passes and the reply has every
\* field the adapter reads.
Succeeds(r) ==
    LET k == request[r].runner
    IN  /\ request[r].pc = "attempt"
        /\ IF k \in HttpAdapter
           THEN \E reply \in RepliesOf(k) :
                  request' = [request EXCEPT ![r].pc = "answered",
                                             ![r].body = Body(k, request[r].messages),
                                             ![r].reply = reply,
                                             ![r].answer = ModelAnswer(k, reply)]
           ELSE /\ k = "fake" => simulated = "none"
                /\ request' = [request EXCEPT ![r].pc = "answered"]
        /\ UNCHANGED <<client, pools, simulated>>

\* Mutated form: max_retries + 1 attempts are counted from one.
HasRetryLeftOffByOne(attempt) == attempt <= MaxRetries

HasRetryLeft(attempt) == attempt < MaxRetries

\* Mutated form: a loop that forgets to count.
NextAttemptUncounted(attempt) == attempt

NextAttempt(attempt) == attempt + 1

TriesAgain(r, f) ==
    /\ IF request[r].runner = "handler" THEN HandlerRetries(f) ELSE IsRetryable(f)
    /\ HasRetryLeft(request[r].attempt)

\* What the caller gets: the handler passes on the exception it caught.
Raised(k, f) ==
    IF k # "handler" THEN MapException(ClassifiedType(f))
    ELSE IF f = "http_429_date" THEN "ValueError" ELSE f

\* The except branch of the loop, up to the await of _sleep.
AfterFailure(r, f) ==
    LET q == request[r]
    IN  IF TriesAgain(r, f)
        THEN \E delay \in Backoff(q.attempt) :
               request' = [request EXCEPT ![r].pc = "backoff", ![r].last = f,
                                          ![r].retried = @ \cup {f},
                                          ![r].slept = @ + delay]
        ELSE request' = [request EXCEPT ![r].pc = "raised", ![r].last = f,
                                        ![r].raised = Raised(q.runner, f)]

\* The network fails the attempt; the fake fails it as it is told to.
Fails(r, f) ==
    /\ request[r].pc = "attempt"
    /\ request[r].runner = "fake" => simulated # "none" /\ f = FakeFailure(simulated)
    /\ AfterFailure(r, f)
    /\ UNCHANGED <<client, pools, simulated>>

\* The loop's next turn, for a request that is q by now: the attempt waits for
\* its answer, or fails at once because the library builds no client.
BeginAttempt(r, q) ==
    \/ /\ IF q.runner \in HttpAdapter THEN GetClient(q.runner) ELSE UNCHANGED <<client, pools>>
       /\ request' = [request EXCEPT ![r] = [q EXCEPT !.pc = "attempt"]]
    \/ /\ q.runner \in HttpAdapter /\ client[q.runner] # "open"
       /\ request' = [request EXCEPT ![r] =
                        [q EXCEPT !.pc = "raised", !.last = "other",
                                  !.raised = Raised(q.runner, "other")]]
       /\ UNCHANGED <<client, pools>>

Start(r, k, messages) ==
    /\ request[r].pc = "new"
    /\ BeginAttempt(r, [NewRequest EXCEPT !.runner = k, !.messages = messages])
    /\ UNCHANGED simulated

\* _sleep returns and the loop takes its next turn.
Wakes(r) ==
    /\ request[r].pc = "backoff"
    /\ BeginAttempt(r, [request[r] EXCEPT !.attempt = NextAttempt(@)])
    /\ UNCHANGED simulated

\* CancelledError at either await is not an Exception: nothing catches it.
Cancelled(r) ==
    /\ request[r].pc \in {"attempt", "backoff"}
    /\ request' = [request EXCEPT ![r].pc = "cancelled"]
    /\ UNCHANGED <<client, pools, simulated>>

\* health_check of an HTTP adapter: it may build the client, and answers a
\* Boolean whatever is raised.
HealthCheck(k) ==
    /\ GetClient(k)
    /\ UNCHANGED <<request, simulated>>

\* close, whoever still waits for an answer of the client.
Close(k) ==
    /\ client[k] = "open"
    /\ client' = [client EXCEPT ![k] = "closed"]
    /\ pools' = [pools EXCEPT ![k] = @ - 1]
    /\ UNCHANGED <<request, simulated>>

\* FakeProvider.set_error_simulation, at any time.
SetErrorSimulation(type) ==
    /\ simulated' = type
    /\ UNCHANGED <<request, client, pools>>

AttemptEnds(r) == Succeeds(r) \/ \E f \in Failure : Fails(r, f)

AdapterNext ==
    \/ \E r \in Requests, k \in Runner, messages \in Conversations : Start(r, k, messages)
    \/ \E r \in Requests : AttemptEnds(r) \/ Wakes(r) \/ Cancelled(r)
    \/ \E k \in HttpAdapter : HealthCheck(k) \/ Close(k)
    \/ \E type \in {"none", "timeout", "rate_limit"} : SetErrorSimulation(type)

\* The HTTP timeouts end every attempt, the event loop every sleep.
AdapterFairness == \A r \in Requests : WF_adapterVars(AttemptEnds(r) \/ Wakes(r))

AdapterSpec == AdapterInit /\ [][AdapterNext]_adapterVars /\ AdapterFairness

-----------------------------------------------------------------------------
(* Properties.                                                             *)

\* Outages, timeouts and rate limits (docs/providers/fallback.md).
Transient == {"timeout", "http_429", "http_429_date", "http_5xx", "connect"}

\* Only transient failures are tried again, at most max_retries times, and a
\* transient failure is given up only after the last try (by the handler, also
\* when it stumbles over the header): complete and execute_with_retry.
RetryDiscipline ==
    \A r \in Requests :
        LET q == request[r]
        IN  /\ q.retried \subseteq Transient
            /\ q.attempt <= MaxRetries
            /\ q.pc = "raised" /\ q.last \in Transient =>
                 \/ q.attempt = MaxRetries
                 \/ q.runner = "handler" /\ q.last = "http_429_date"

\* Waiting is bounded by the policy however the delays are drawn: no sleep is
\* longer than max_backoff_ms (_calculate_backoff, calculate_backoff).
BackoffWithinPolicy ==
    \A r \in Requests :
        request[r].slept <= MaxBackoff *
            (request[r].attempt + IF request[r].pc \in {"backoff", "cancelled"} THEN 1 ELSE 0)

\* The connection pools of an adapter are never abandoned: whatever requests,
\* health checks and closings come together, at most the client it holds is
\* open (_get_client, close).
NoPoolAbandoned ==
    \A k \in HttpAdapter : pools[k] = IF client[k] = "open" THEN 1 ELSE 0

\* However its requests fail and are cancelled, an adapter repeats only what may
\* pass, a bounded number of times and with bounded waits, over a single client.
AttemptsBounded ==
    /\ AdapterTypeOK
    /\ RetryDiscipline
    /\ BackoffWithinPolicy
    /\ NoPoolAbandoned

\* The provider reads the messages of the conversation, all of them and in order;
\* only Anthropic's adapter drops one, a system prompt that is empty
\* (_normalize_request of the two HTTP adapters).
ConversationSent ==
    \A r \in Requests :
        LET q == request[r]
            b == q.body
            asSent == IF b.system = NoText THEN b.messages
                      ELSE <<[role |-> "system", text |-> b.system]>> \o b.messages
        IN  b # NoText =>
              \/ q.messages = asSent
              \/ /\ q.runner = "anthropic" /\ b.system = NoText
                 /\ q.messages = <<[role |-> "system", text |-> ""]>> \o asSent

\* Of the reply the caller sees all tool calls in order, whether the provider
\* stopped to have them called, and the first of the texts: what was written
\* after it, between or behind the tool calls, is lost (_normalize_response).
AnswerRead ==
    \A r \in Requests :
        LET parts == request[r].reply.parts
            a     == request[r].answer
            Used  == {i \in DOMAIN parts : parts[i].type = "tool_use"}
            Said  == {i \in DOMAIN parts : parts[i].type = "text"}
        IN  a # NoText =>
              /\ Len(a.toolCalls) = Cardinality(Used)
              /\ \A i, j \in Used :
                   i < j => \E m, n \in DOMAIN a.toolCalls :
                              /\ m < n
                              /\ a.toolCalls[m] = parts[i].what
                              /\ a.toolCalls[n] = parts[j].what
              /\ a.content = NoText <=> Said = {}
              /\ \A i \in Said :
                   (\A j \in Said : i <= j) => a.content = parts[i].what
              /\ a.finish = "tool_calls" <=> request[r].reply.stop \in {"tool_use", "tool_calls"}

\* What the two translations lose is an empty system prompt and the texts of an
\* answer after the first, and nothing else of the messages, the texts, the tool
\* calls and the reason to stop (_normalize_request, _normalize_response).
TranslationLosses == ConversationSent /\ AnswerRead

\* Every provider call ends, which is what ProviderService's fairness assumes.
EveryRequestEnds ==
    \A r \in Requests :
        request[r].pc \in {"attempt", "backoff"} ~>
            request[r].pc \in {"answered", "raised", "cancelled"}
=============================================================================
