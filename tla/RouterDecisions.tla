--------------------------- MODULE RouterDecisions ---------------------------
(***************************************************************************)
(* A router with its registry and options, and the decisions it is asked   *)
(* for, one after the other.                                               *)
(***************************************************************************)
EXTENDS ModelRouter, Integers

CONSTANTS Registries,   \* registries that may be loaded
          RouterOptions, \* options the router may be created with
          RoutedTasks   \* tasks it is asked to route

\* A registry is a list whose qualities (floats in the code) stand for their order;
\* the privacy tier of a task, if it has one, is one that the code names.
ASSUME RouterAssumption ==
    /\ \A r \in Registries :
          /\ Len(r) \in Nat /\ DOMAIN r = 1..Len(r)
          /\ \A i \in DOMAIN r : r[i].quality \in Int
    /\ \A t \in RoutedTasks : t.tier = "" \/ \E n \in DOMAIN Tiers : Tiers[n] = t.tier

VARIABLES registry,   \* the router's registry
          options,    \* and its options
          lastTask,   \* the task routed last
          decision    \* and the decision for it

routerVars == <<registry, options, lastTask, decision>>

RouterInit ==
    /\ registry \in Registries /\ ValidRegistry(registry)
    /\ options \in RouterOptions
    /\ lastTask = CHOOSE t \in RoutedTasks : TRUE
    /\ decision = [selected |-> <<>>, rejected |-> {}]

RouteTask ==
    \E task \in RoutedTasks :
        /\ lastTask' = task /\ decision' = Route(registry, task, options)
        /\ UNCHANGED <<registry, options>>

RouterSpec == RouterInit /\ [][RouteTask]_routerVars

Routed == decision.selected # <<>> \/ decision.rejected # {}
Chosen == {decision.selected[i] : i \in DOMAIN decision.selected}
Refused == {refusal.id : refusal \in decision.rejected}
IndexOf(model) == CHOOSE i \in DOMAIN registry : registry[i] = model

\* The selected models are the best of those that nothing speaks against: a model
\* that was passed over, with no reason given, is worse than every selected one or
\* as good and registered later (Route sorts stably before it cuts).
BestOfRest ==
    \A i \in DOMAIN registry :
        LET passedOver == registry[i] IN
        Routed /\ passedOver \notin Chosen /\ passedOver.id \notin Refused =>
            \A m \in Chosen :
                \/ m.quality > passedOver.quality
                \/ m.quality = passedOver.quality /\ IndexOf(m) < i

\* No data of a task leaves its privacy tier, and no degraded or unknown provider
\* is used against the fallback policy; where a degraded provider needs a human's
\* approval the router never uses it, even with AllowDegraded.
NeverUnfit ==
    \A m \in Chosen :
        LET health == ProviderHealth(m.provider, options.health) IN
        /\ m.tier = lastTask.tier \/ m.tier = "local_only"
           \/ \E s, t \in DOMAIN Tiers : Tiers[s] = lastTask.tier /\ Tiers[t] = m.tier /\ s < t
        /\ health = "degraded" => options.allowDegraded \/ options.policy.allowDegraded
        /\ health = "degraded" => ~options.policy.needsApproval
        /\ health = "unknown" => options.policy.allowUnknown
        /\ m.status = "degraded" => options.allowDegraded

\* Route selects only models fit for the task, and of those the best, the same ones
\* every time it is asked.
RoutedBest == NeverUnfit /\ BestOfRest
=============================================================================
