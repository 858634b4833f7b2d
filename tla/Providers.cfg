\* A guarded provider that other calls fall back to, a careless fallback list,
\* resets and replacement while calls are in flight; and the attempts of one call.
CONSTANTS
    openai = openai  anthropic = anthropic  unknown = unknown
    c1 = c1  c2 = c2  r1 = r1
    None = None
    NoText = NoText
    Providers = {openai, anthropic, unknown}
    Registered = {openai, anthropic}
    Guarded = {anthropic}
    Requested = {openai, anthropic}
    FallbackProviders <- MixedFallbacks
    MaxFallbackAttempts = 4
    Calls = {c1, c2}
    MaxAdmissions = 4
    MaxGenerations = 2
    MinimumRequests = 2
    ThresholdNum = 1
    ThresholdDen = 2
    OpenTimeout = 1
    HalfOpenMaxCalls = 2
    Requests = {r1}
    Texts = {"", "a", "b"}
    Conversations <- MCConversations
    Replies <- MCReplies
    MaxRetries = 2
    InitialBackoff = 2
    MaxBackoff = 3
    BackoffMultiplier = 3
    Jitter = TRUE
SPECIFICATION MCSpec
INVARIANT BreakerSound
INVARIANT CallsKept
INVARIANT AttemptsBounded
INVARIANT TranslationLosses
INVARIANT FailuresReachFallback
PROPERTY BreakerKeepsContract
PROPERTY OpenBreakerRecovers
PROPERTY EveryRequestEnds
