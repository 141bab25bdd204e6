------------------------- MODULE EpisodeStateMachine -------------------------
(***************************************************************************)
(* The canonical episode lifecycle, its table of transitions and the       *)
(* detours through blocked. A machine may be saved as JSON and loaded      *)
(* again, which loses the unexported blockedFrom.                          *)
(***************************************************************************)
EXTENDS Naturals, Sequences, FiniteSets

CONSTANTS Metas,     \* [kind, complete]: the metadata callers pass
          MaxBlocks, \* bound on the detours through blocked
          MaxHumans, \* bound on the transitions by a human
          NoState    \* no state is recorded

VARIABLES current,     \* Current
          history,     \* History
          blockedFrom, \* blockedFrom
          origin,      \* the state the machine was created in
          reloaded     \* whether a blocked machine was saved and loaded

machineVars == <<current, history, blockedFrom, origin, reloaded>>

Lifecycle == <<"backlog", "candidate", "approved_topic", "researching",
    "research_ready", "drafting", "verifying", "human_qa", "storyboarding",
    "asset_production", "rendering", "production_qa", "scheduled", "published",
    "monitored", "archived">>

Stages == {Lifecycle[i] : i \in DOMAIN Lifecycle}
CanonicalStates == Stages \cup {"blocked"}

ASSUME MachineAssumption == NoState \notin CanonicalStates

ActorKinds == {"human", "system", "model", "workflow"}

\* The stages follow each other, and a candidate may be dropped.
AllowedTransitions ==
    {<<Lifecycle[i], Lifecycle[i + 1]>> : i \in 1..(Len(Lifecycle) - 1)}
        \cup {<<"candidate", "archived">>}

HumanRequired == {<<"candidate", "approved_topic">>, <<"human_qa", "storyboarding">>,
                  <<"production_qa", "scheduled">>}

ValidMetadata(meta) == meta.complete /\ meta.kind \in ActorKinds

-----------------------------------------------------------------------------
AppendTransition(to, meta, required) ==
    /\ current' = to
    /\ history' = Append(history, [from |-> current, to |-> to, kind |-> meta.kind,
                                   required |-> required])

\* NewEpisodeStateMachine takes any canonical state, blocked among them.
MachineInit ==
    /\ origin \in CanonicalStates /\ current = origin
    /\ history = <<>> /\ blockedFrom = NoState /\ reloaded = FALSE

\* A bug: judges the actor by the stage it leaves for, so that only the last
\* approval needs a human.
TransitionLax(to, meta) ==
    /\ to # "blocked" /\ current # "blocked"
    /\ ValidMetadata(meta)
    /\ <<current, to>> \in AllowedTransitions
    /\ to = "scheduled" => meta.kind = "human"
    /\ AppendTransition(to, meta, <<current, to>> \in HumanRequired)
    /\ UNCHANGED <<blockedFrom, origin, reloaded>>

Transition(to, meta) ==
    /\ to # "blocked" /\ current # "blocked"
    /\ ValidMetadata(meta)
    /\ <<current, to>> \in AllowedTransitions
    /\ <<current, to>> \in HumanRequired => meta.kind = "human"
    /\ AppendTransition(to, meta, <<current, to>> \in HumanRequired)
    /\ UNCHANGED <<blockedFrom, origin, reloaded>>

\* A bug: remembers the source after the state changed.
BlockLate(meta) ==
    /\ current \notin {"blocked", "archived"}
    /\ ValidMetadata(meta)
    /\ AppendTransition("blocked", meta, FALSE)
    /\ blockedFrom' = current'
    /\ UNCHANGED <<origin, reloaded>>

Block(meta) ==
    /\ current \notin {"blocked", "archived"}
    /\ ValidMetadata(meta)
    /\ blockedFrom' = current
    /\ AppendTransition("blocked", meta, FALSE)
    /\ UNCHANGED <<origin, reloaded>>

\* A bug: an unblock returns to the stage after the blocked one.
UnblockAhead(meta) ==
    /\ current = "blocked" /\ blockedFrom # NoState /\ ValidMetadata(meta)
    /\ meta.kind \in {"human", "system"}
    /\ \E t \in AllowedTransitions :
           t[1] = blockedFrom /\ AppendTransition(t[2], meta, FALSE)
    /\ blockedFrom' = NoState
    /\ UNCHANGED <<origin, reloaded>>

Unblock(meta) ==
    /\ current = "blocked" /\ blockedFrom # NoState
    /\ ValidMetadata(meta)
    /\ meta.kind \in {"human", "system"}
    /\ AppendTransition(blockedFrom, meta, FALSE)
    /\ blockedFrom' = NoState
    /\ UNCHANGED <<origin, reloaded>>

\* Saved as JSON and loaded: blockedFrom is not exported.
Reload ==
    /\ blockedFrom # NoState
    /\ blockedFrom' = NoState /\ reloaded' = TRUE
    /\ UNCHANGED <<current, history, origin>>

\* The counters bound the instance.
Humans == {i \in DOMAIN history : history[i].kind = "human"}
Blocks == {i \in DOMAIN history : history[i].to = "blocked"}

\* Calls that fail change nothing.
MachineNext ==
    \/ \E meta \in Metas :
          /\ meta.kind = "human" => Cardinality(Humans) < MaxHumans
          /\ \/ \E to \in Stages : Transition(to, meta)
             \/ Cardinality(Blocks) < MaxBlocks /\ Block(meta)
             \/ Unblock(meta)
    \/ Reload

MachineSpec == MachineInit /\ [][MachineNext]_machineVars
-----------------------------------------------------------------------------
(* Properties.                                                             *)

\* Types: canonical states and known actors; a source is remembered only while
\* the machine is blocked.
MachineTypeOK ==
    /\ current \in CanonicalStates /\ origin \in CanonicalStates
    /\ blockedFrom \in Stages \cup {NoState}
    /\ reloaded \in BOOLEAN
    /\ history \in Seq([from : CanonicalStates, to : CanonicalStates, kind : ActorKinds,
                        required : BOOLEAN])
    /\ blockedFrom # NoState => current = "blocked"

Visited(i) == IF i = 0 THEN origin ELSE history[i].to

\* Without its detours the history is a path through the canonical lifecycle:
\* every record starts where the one before ended and takes an allowed
\* transition, except that a stage may be blocked and come back to itself.
CanonicalHistory ==
    /\ current = Visited(Len(history))
    /\ \A i \in DOMAIN history :
          LET r == history[i] IN
          /\ r.from = Visited(i - 1)
          /\ r.required = (<<r.from, r.to>> \in HumanRequired)
          /\ \/ <<r.from, r.to>> \in AllowedTransitions
             \/ r.from \in Stages \ {"archived"} /\ r.to = "blocked"
             \/ i > 1 /\ r.from = "blocked" /\ r.to = history[i - 1].from

Rank(s) == CHOOSE i \in DOMAIN Lifecycle : Lifecycle[i] = s

\* No stage is reached behind the back of the humans: whatever was blocked,
\* unblocked and reloaded on the way, an episode that stands beyond one of the
\* three human decisions, and did not start there, carries a human's record of it.
\* Archived is left out: a dropped candidate is archived without them.
HumansDecided ==
    \A h \in HumanRequired :
        current \in Stages \ {"archived"} /\ origin \in Stages
        /\ Rank(origin) <= Rank(h[1]) /\ Rank(h[2]) <= Rank(current)
        => \E i \in DOMAIN history :
              history[i].from = h[1] /\ history[i].to = h[2] /\ history[i].kind = "human"

\* A blocked machine can always be unblocked, back to where the last record came
\* from, unless it was created blocked or was saved and loaded while blocked: the
\* two ways into a state no method leads out of.
BlockedCanReturn ==
    current = "blocked" =>
        \/ Len(history) > 0 /\ blockedFrom = history[Len(history)].from
        \/ blockedFrom = NoState /\ (reloaded \/ origin = "blocked")
=============================================================================
