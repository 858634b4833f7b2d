---------------------------- MODULE ProviderCalls ----------------------------
(***************************************************************************)
(* ProviderService on top of its adapters.  One call of the service is one *)
(* request of an adapter: what the second raises is what _classify_error   *)
(* of the first classifies and its fallback handler decides on.            *)
(***************************************************************************)
EXTENDS ProviderService, ProviderAdapter

\* The two modules together: a failure that may pass lets complete() fall back
\* to another provider once the retries are used up, and a request that was
\* rejected (400, 401) is not sent to anyone else.
FailuresReachFallback ==
    \A r \in Requests :
        LET q == request[r]
        IN  q.pc = "raised" /\ q.runner # "handler" =>
              /\ q.last \in Transient => ServiceErrorType(q.raised) \in Fallbackable
              /\ q.last \in {"http_400", "http_401"} =>
                   ServiceErrorType(q.raised) \notin Fallbackable
=============================================================================
