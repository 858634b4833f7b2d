------------------------------ MODULE ToolPolicy ------------------------------
(***************************************************************************)
(* What a tool grant's policy says of a call: PolicyEvaluator              *)
(* (app/domain/value_objects/policy.py) and ToolGrant                      *)
(* (app/domain/entities/tool_grant.py).                                    *)
(*                                                                         *)
(* An expression is known by the calls for which it is true, "error" being *)
(* one that does not compile or raises; a resource pattern by the          *)
(* resources it matches.                                                   *)
(***************************************************************************)
EXTENDS Integers, Sequences, FiniteSets

CONSTANT NotGiven   \* Python's None

Scopes == {"minute", "hour", "day"}

\* PolicyEffect; limits[s] = 0 where no limit is given for scope s.
Effects == [allow : BOOLEAN, approval : BOOLEAN, limits : [Scopes -> Nat]]

Effect(allow, approval, limits) == [allow |-> allow, approval |-> approval, limits |-> limits]

NoLimits == [s \in Scopes |-> 0]

Rule(priority, action, resources, expression, effect) ==
    [priority |-> priority, action |-> action, resources |-> resources,
     expression |-> expression, effect |-> effect]

\* _matches_condition: a resource pattern says nothing of a call without a
\* resource, and an expression that fails does not match.
Matches(rule, call) ==
    /\ rule.action # NotGiven => rule.action = call.action
    /\ (rule.resources # NotGiven /\ call.resource # NotGiven) => call.resource \in rule.resources
    /\ rule.expression # NotGiven => (rule.expression # "error" /\ rule.expression = call.context)

\* The place of rule j under sorted(rules, key=-priority), which is stable.
Place(rules, j) ==
    Cardinality({i \in DOMAIN rules : \/ rules[i].priority > rules[j].priority
                                      \/ rules[i].priority = rules[j].priority /\ i <= j})

SortedRules(rules) ==
    [n \in DOMAIN rules |-> rules[CHOOSE j \in DOMAIN rules : Place(rules, j) = n]]

\* _build_rate_limit: the shortest scope that has a limit.
RateLimit(effect) ==
    IF effect.limits["minute"] > 0 THEN [scope |-> "minute", limit |-> effect.limits["minute"]]
    ELSE IF effect.limits["hour"] > 0 THEN [scope |-> "hour", limit |-> effect.limits["hour"]]
    ELSE IF effect.limits["day"] > 0 THEN [scope |-> "day", limit |-> effect.limits["day"]]
    ELSE NotGiven

\* _apply_effect; a denial carries no rate limit.
Applied(effect) ==
    IF effect.approval THEN [answer |-> "approval", rate |-> RateLimit(effect)]
    ELSE IF effect.allow THEN [answer |-> "allow", rate |-> RateLimit(effect)]
    ELSE [answer |-> "deny", rate |-> NotGiven]

\* PolicyEvaluator.evaluate: the first rule that matches decides.
Evaluated(policy, call) ==
    LET sorted == SortedRules(policy.rules)
        matching == {n \in DOMAIN sorted : Matches(sorted[n], call)}
        first == CHOOSE n \in matching : \A m \in matching : n <= m
    IN Applied(IF matching = {} THEN policy.default ELSE sorted[first].effect)

\* ToolGrant.evaluate.
Decision(grant, call) ==
    IF ~grant.active THEN [answer |-> "deny", rate |-> NotGiven]
    ELSE Evaluated(grant.policy, call)

\* ToolGrant.from_legacy_dict: one rule for each allowed action, and a default
\* that allows everything if there is none.
Legacy(actions, byDefault) ==
    [rules |-> [i \in DOMAIN actions |->
                  Rule(10, actions[i], NotGiven, NotGiven, Effect(TRUE, FALSE, NoLimits))],
     default |-> Effect(IF byDefault = NotGiven THEN actions = <<>> ELSE byDefault, FALSE, NoLimits)]

-----------------------------------------------------------------------------
\* What a policy promises, without sorting: a rule that matches decides if no
\* matching rule has a higher priority, or the same one and an earlier place.
Decides(policy, call, i) ==
    LET rules == policy.rules
        matching == {j \in DOMAIN rules : Matches(rules[j], call)}
    IN /\ i \in matching
       /\ \A j \in matching : \/ rules[j].priority < rules[i].priority
                              \/ rules[j].priority = rules[i].priority /\ j >= i

Promised(grant, call) ==
    LET policy == grant.policy
    IN IF ~grant.active THEN [answer |-> "deny", rate |-> NotGiven]
       ELSE IF \E i \in DOMAIN policy.rules : Decides(policy, call, i)
       THEN Applied(policy.rules[CHOOSE i \in DOMAIN policy.rules :
                                   Decides(policy, call, i)].effect)
       ELSE Applied(policy.default)
=============================================================================
