----------------------------- MODULE ModelRouter -----------------------------
(***************************************************************************)
(* Which registered models a review task goes to, under the health of      *)
(* their providers and the fallback policy, and the council that local dry *)
(* runs assemble from the router's first choices.                          *)
(***************************************************************************)
EXTENDS Naturals, Sequences, FiniteSets, FiniteSetsExt

Tiers == <<"public", "internal_approved", "restricted", "local_only">>
ModelStatuses == {"active", "degraded", "disabled"}

\* registry.Validate: what a loaded registry may hold.
ValidRegistry(records) ==
    /\ records # <<>>
    /\ \A i, j \in DOMAIN records : records[i].id = records[j].id => i = j
    /\ \A i \in DOMAIN records :
          /\ records[i].status \in ModelStatuses
          /\ \E t \in DOMAIN Tiers : Tiers[t] = records[i].tier
          /\ records[i].capabilities # {} /\ records[i].modalities # {}

\* A provider that a table of states leaves out is unknown; without a table all
\* are healthy.
ProviderHealth(provider, health) ==
    IF DOMAIN health = {} THEN "healthy"
    ELSE IF provider \in DOMAIN health THEN health[provider] ELSE "unknown"

\* providers.Evaluate: whether the policy lets a provider in this state be used; a
\* state that says nothing is a healthy one.
Evaluate(state, policy) ==
    \/ state \in {"", "healthy"}
    \/ state = "degraded" /\ ~policy.needsApproval /\ policy.allowDegraded
    \/ state = "unknown" /\ policy.allowUnknown

TierRank(tier) == CHOOSE t \in DOMAIN Tiers : Tiers[t] = tier

PrivacyAllowed(model, tier) ==
    model = "local_only" \/ TierRank(model) >= TierRank(tier)

\* What Route skips a model for, in the order of its checks; "" if for nothing.
Refusal(model, task, options) ==
    IF ~Evaluate(ProviderHealth(model.provider, options.health), options.policy)
    THEN "provider health"
    ELSE IF model.status = "disabled" THEN "model disabled"
    ELSE IF model.status = "degraded" /\ ~options.allowDegraded THEN "model degraded"
    ELSE IF task.capability \notin model.capabilities THEN "missing capability"
    ELSE IF task.modality \notin model.modalities THEN "missing modality"
    ELSE IF ~PrivacyAllowed(model.tier, task.tier) THEN "privacy tier not allowed"
    ELSE ""

\* The policy that goes with NewWithOptions: AllowDegraded extends it.
Options(health, policy, allowDegraded) ==
    [health |-> health, allowDegraded |-> allowDegraded,
     policy |-> [policy EXCEPT !.allowDegraded = @ \/ allowDegraded]]

\* How many of n candidates a task of this risk is given to.
PanelSize(risk, n) ==
    CASE risk \in {"high", "critical"} -> Min({3, n})
      [] risk = "medium" -> Min({2, n})
      [] OTHER -> 1

\* A bug: an unstable sort, in which later registered models win ties.
AheadUnstable(registry, i, j) ==
    \/ registry[i].quality > registry[j].quality
    \/ registry[i].quality = registry[j].quality /\ i > j

\* sort.SliceStable puts the i-th model before the j-th: qualities fall, and the
\* registry's order breaks ties.
Ahead(registry, i, j) ==
    \/ registry[i].quality > registry[j].quality
    \/ registry[i].quality = registry[j].quality /\ i < j

\* The places of the candidates in that order: the n-th has n - 1 others ahead of it.
Ranked(registry, places) ==
    [n \in 1..Cardinality(places) |->
        CHOOSE i \in places :
            Cardinality({j \in places : Ahead(registry, j, i)}) = n - 1]

\* The candidates: places of the models that nothing speaks against.
Candidates(registry, task, options) ==
    {i \in DOMAIN registry : Refusal(registry[i], task, options) = ""}

\* A task must name what it needs and how private it is.
Complete(task) == "" \notin {task.capability, task.modality, task.tier}

\* Route: the selected models and the refused ones; no model selected is an error, and
\* so is a task that is not complete, for which no model is looked at.
Route(registry, task, options) ==
    LET candidates == IF Complete(task) THEN Candidates(registry, task, options) ELSE {}
        refused == IF Complete(task) THEN DOMAIN registry \ candidates ELSE {}
        size == IF candidates = {} THEN 0
                ELSE PanelSize(task.risk, Cardinality(candidates))
    IN [selected |-> [n \in 1..size |-> registry[Ranked(registry, candidates)[n]]],
        rejected |-> {[id |-> registry[i].id, reason |-> Refusal(registry[i], task, options)] :
                         i \in refused}]

-----------------------------------------------------------------------------
(* The council of a dry run.                                               *)

DefaultOptions ==
    Options(<<>>, [allowDegraded |-> FALSE, allowUnknown |-> FALSE, needsApproval |-> FALSE], FALSE)

ReviewTask(capability, risk) ==
    [capability |-> capability, risk |-> risk, modality |-> "text", tier |-> "public"]

CouncilTasks == <<ReviewTask("technical_verification", "high"),
                  ReviewTask("editorial_review", "medium"),
                  ReviewTask("safety_review", "high")>>

\* mockProviderForTask: what the local providers say about every episode.
MockVerdict(capability) ==
    CASE capability = "technical_verification" -> "request_revision"
      [] capability = "editorial_review" -> "approve_with_suggestions"
      [] capability = "safety_review" -> "approve_with_suggestions"
      [] OTHER -> "approve"

\* The reviews of the three tasks, each by the router's first choice; empty if a
\* task finds no model.
LocalReviews(registry) ==
    LET panel(i) == Route(registry, CouncilTasks[i], DefaultOptions).selected IN
    IF \E i \in DOMAIN CouncilTasks : panel(i) = <<>> THEN <<>>
    ELSE [i \in DOMAIN CouncilTasks |->
             [model |-> panel(i)[1].id, verdict |-> MockVerdict(CouncilTasks[i].capability),
              sensitive |-> CouncilTasks[i].capability = "safety_review"]]
=============================================================================
