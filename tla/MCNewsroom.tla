----------------------------- MODULE MCNewsroom -----------------------------
(***************************************************************************)
(* Small instances of the newsroom's modules. They share no state; a       *)
(* behaviour is one of the module that `driver` names, the others stay in  *)
(* an initial state.                                                       *)
(***************************************************************************)
EXTENDS EpisodeLifecycle, EpisodeStateMachine, RouterDecisions, Publishing, DryRun

VARIABLE driver
vars == <<driver, episodeVars, machineVars, routerVars, publishVars, walkVars>>

-----------------------------------------------------------------------------
(* Models, tasks and options of the router.                                *)

AModel(id, provider, status, tier, quality) ==
    [id |-> id, provider |-> provider, status |-> status, tier |-> tier,
     modalities |-> {"text"}, capabilities |-> {"technical_verification"},
     quality |-> quality]

Offers(id) == {AModel(id, p, s, t, q) : p \in {"local", "remote"}, s \in {"active", "degraded"},
                                        t \in {"public", "restricted"}, q \in {1, 2}}

ThreeModels == {<<a, b, c>> : a \in Offers("a"),
                              b \in {m \in Offers("b") : m.tier = "public" /\ m.status = "active"},
                              c \in {AModel("c", "local", "active", "local_only", 2),
                                     AModel("c", "remote", "disabled", "public", 1)}}

SomeOptions ==
    {Options(health,
             [allowDegraded |-> d, allowUnknown |-> u, needsApproval |-> n], a) :
        health \in {<<>>, [p \in {"remote"} |-> "degraded"],
                    [p \in {"local", "remote"} |-> IF p = "local" THEN "" ELSE "down"]},
        d \in BOOLEAN, u \in BOOLEAN, n \in BOOLEAN, a \in BOOLEAN}

SomeTasks ==
    {[capability |-> c, risk |-> r, modality |-> "text", tier |-> t] :
        c \in {"technical_verification", "safety_review"}, r \in {"low", "medium", "high"},
        t \in {"public", "internal_approved"}}
    \cup {[ReviewTask("technical_verification", "high") EXCEPT ![f] = ""] :
             f \in {"capability", "modality", "tier"}}

Reviewer(id, capability) ==
    [id |-> id, provider |-> "local-mock", status |-> "active", tier |-> "local_only",
     modalities |-> {"text"}, capabilities |-> capability, quality |-> 1]

\* The example registry, one whose model does everything, one without a safety reviewer.
SomeCouncils ==
    {<<Reviewer("t", {"technical_verification"}), Reviewer("e", {"editorial_review"}),
       Reviewer("s", {"safety_review"})>>,
     <<Reviewer("all", {"technical_verification", "editorial_review", "safety_review"})>>,
     <<Reviewer("t", {"technical_verification"}), Reviewer("e", {"editorial_review"})>>}

-----------------------------------------------------------------------------
(* Metadata of the state machine.                                          *)

SomeMetas == {[kind |-> "human", complete |-> TRUE], [kind |-> "model", complete |-> TRUE],
              [kind |-> "human", complete |-> FALSE]}

-----------------------------------------------------------------------------
(* Files of an episode.                                                    *)

ASource(id, primary) == [id |-> id, primary |-> primary, sound |-> TRUE]
Research(sources) == [question |-> TRUE, sources |-> sources]
Primary == Research(<<ASource("docs", TRUE), ASource("forum", FALSE)>>)

Sentence(text, words) ==
    [text |-> text, words |-> words, cites |-> {"docs"}, contains |-> {text}]
Plain == <<Sentence("a", {"cue"}), Sentence("b", {"cta", "cue"})>>
Risky == <<[Sentence("ab", {"cue", "history"}) EXCEPT !.contains = {"a", "ab"}],
           Sentence("c", {"incident", "cue"}), Sentence("c", {"incident", "cue"})>>
Secret == <<Sentence("a", {"security"})>>

AClaim(id, risk, status, located) ==
    [id |-> id, text |-> "a", kind |-> "technical", risk |-> risk, sources |-> {"docs"},
     located |-> located, status |-> status, sensitive |-> FALSE, named |-> FALSE]

Claim1 == AClaim(1, "high", "supported", TRUE)

OneClaim ==
    {<<AClaim(1, r, s, TRUE)>> : r \in {"low", "high", "critical"}, s \in ClaimStatuses}
    \cup {<<AClaim(1, r, s, FALSE)>> : r \in {"low", "high"}, s \in {"supported", "removed"}}
    \cup {<<[Claim1 EXCEPT !.sources = x]>> : x \in {{}, {"forum"}}}
    \cup {<<[Claim1 EXCEPT !.risk = "low", !.sources = {}]>>,
          <<[Claim1 EXCEPT !.risk = "low", !.status = "partially_supported", !.sensitive = TRUE]>>,
          <<[Claim1 EXCEPT !.id = 0]>>, <<[Claim1 EXCEPT !.text = "z"]>>,
          <<[Claim1 EXCEPT !.status = "unsupported", !.named = TRUE]>>,
          <<[Claim1 EXCEPT !.risk = ""]>>}

TwoClaims ==
    {<<AClaim(1, r, s, TRUE), AClaim(id, q, t, TRUE)>> :
        r \in {"low", "high"}, q \in {"low", "high"}, id \in {1, 2},
        s \in {"supported", "partially_supported", "unsupported"},
        t \in {"supported", "partially_supported", "unsupported"}}

Human(status, verdict, pin) ==
    [status |-> status, reviewer |-> "editor", decision |-> verdict, changes |-> FALSE,
     pin |-> pin]

Approved == Human("approved", "approve", Plain)

\* A bundle that passes; the directories differ from it in the claims or in one file.
Bundle(file, content) ==
    [[research |-> Primary, claims |-> <<Claim1>>, script |-> Plain, human |-> Approved,
      rest |-> TRUE] EXCEPT ![file] = content]

FileVersions ==
    [research |-> {Primary, Research(<<ASource("forum", FALSE)>>), Research(<<>>),
                   Research(<<ASource("docs", TRUE), ASource("docs", TRUE)>>)},
     claims |-> {NoFile, <<>>, <<Claim1>>, <<AClaim(1, "high", "unsupported", TRUE)>>,
                 <<AClaim(1, "high", "partially_supported", TRUE)>>,
                 <<[Claim1 EXCEPT !.id = 0]>>, <<AClaim(1, "critical", "removed", FALSE)>>},
     script |-> {NoFile, <<>>, Plain, Risky, Secret},
     human |-> {NoFile, Approved, Human("superseded", "approve", Plain),
                Human("draft", "approve_with_minor_edits", NoPin),
                Human("draft", "block", NoPin),
                [Human("draft", "request_revision", Risky) EXCEPT !.changes = TRUE]},
     rest |-> BOOLEAN]

SomeDirectories ==
    {Bundle("claims", c) : c \in OneClaim \cup TwoClaims}
    \cup {Bundle(f, v) : f \in {"research"}, v \in FileVersions.research}
    \cup {Bundle(f, v) : f \in {"script"}, v \in FileVersions.script}
    \cup {Bundle(f, v) : f \in {"human"}, v \in FileVersions.human}
    \cup {Bundle("rest", FALSE)}

-----------------------------------------------------------------------------
\* Types of the modules with state of their own.
NewsroomTypeOK == EpisodeTypeOK /\ MachineTypeOK /\ WalkTypeOK

-----------------------------------------------------------------------------
(* One module at a time.                                                   *)

SomeModels == CHOOSE r \in Registries : ValidRegistry(r)

NewsroomInit ==
    /\ driver \in {"episode", "machine", "router", "publish", "walk"}
    /\ EpInit /\ PublishInit
    /\ IF driver = "machine" THEN MachineInit ELSE origin = "backlog" /\ MachineInit
    /\ IF driver = "router" THEN RouterInit
       ELSE /\ registry = SomeModels /\ options = CHOOSE o \in RouterOptions : TRUE
            /\ RouterInit
    /\ IF driver = "walk" THEN WalkInit
       ELSE dir = Bundle("rest", TRUE) /\ fixtures = FALSE /\ WalkInit

EpisodeStep(A) ==
    /\ driver = "episode" /\ A
    /\ UNCHANGED <<driver, machineVars, routerVars, publishVars, walkVars>>
MachineStep ==
    /\ driver = "machine" /\ MachineNext
    /\ UNCHANGED <<driver, episodeVars, routerVars, publishVars, walkVars>>
RouterStep ==
    /\ driver = "router" /\ RouteTask
    /\ UNCHANGED <<driver, episodeVars, machineVars, publishVars, walkVars>>
PublishStep ==
    /\ driver = "publish" /\ PublishNext
    /\ UNCHANGED <<driver, episodeVars, machineVars, routerVars, walkVars>>
DryRunStep ==
    /\ driver = "walk" /\ WalkNext
    /\ UNCHANGED <<driver, episodeVars, machineVars, routerVars, publishVars>>

NewsroomNext == EpisodeStep(EpNext) \/ MachineStep \/ RouterStep \/ PublishStep \/ DryRunStep

NewsroomSpec == NewsroomInit /\ [][NewsroomNext]_vars /\ WF_vars(EpisodeStep(EpWork))
=============================================================================
