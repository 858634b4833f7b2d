----------------------------- MODULE MCProviders -----------------------------
(* Instances of ProviderService and of ProviderAdapter for TLC.  A behaviour *)
(* runs the service, whose calls are atomic, or the attempts one call is     *)
(* made of; what the second raises is what the first classifies.             *)
EXTENDS ProviderCalls

CONSTANTS openai, anthropic, unknown, c1, c2, r1

VARIABLE part

mcVars == <<vars, adapterVars, part>>

\* A list as careless as FallbackConfig permits: it names a provider twice,
\* each of them for itself, and one that is not registered.  An answer that falls
\* back takes two places of it, the decision's and the attempt's.
MixedFallbacks == <<anthropic, anthropic, openai, unknown>>

Message(role, text) == [role |-> role, text |-> text]

MCConversations ==
    {<<Message("user", "a"), Message("user", "b")>>,
     <<Message("system", "a"), Message("user", "b")>>,
     <<Message("system", ""), Message("system", "b")>>}

Part(type, what) == [type |-> type, what |-> what]

MCReplies ==
    {[from |-> "openai", stop |-> "tool_calls",
      parts |-> <<Part("text", "a"), Part("tool_use", "t"), Part("tool_use", "u")>>],
     [from |-> "openai", stop |-> "content_filter", parts |-> <<Part("text", "a")>>],
     [from |-> "anthropic", stop |-> "tool_use",
      parts |-> <<Part("tool_use", "t"), Part("text", "a"), Part("tool_use", "u")>>],
     [from |-> "anthropic", stop |-> "max_tokens",
      parts |-> <<Part("text", "a"), Part("text", "b")>>]}

\* Bound: calls to the provider without a breaker.  One that fails falls back
\* to the guarded one, whatever the state of its circuit.
MaxUnguarded == 1

MCInit == part \in {"service", "adapter"} /\ Init /\ AdapterInit

MCNext ==
    /\ \/ /\ part = "service" /\ Next /\ UNCHANGED adapterVars
          /\ admitted'[openai] <= MaxUnguarded
       \/ part = "adapter" /\ AdapterNext /\ UNCHANGED vars
    /\ UNCHANGED part

MCSpec ==
    /\ MCInit /\ [][MCNext]_mcVars
    /\ WF_mcVars(part = "service" /\ Tick /\ UNCHANGED <<adapterVars, part>>)
    /\ \A c \in Calls : WF_mcVars(Answer(c) /\ UNCHANGED <<adapterVars, part>>)
    /\ \A r \in Requests :
         WF_mcVars((AttemptEnds(r) \/ Wakes(r)) /\ UNCHANGED <<vars, part>>)
=============================================================================
