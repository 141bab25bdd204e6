----------------------------- MODULE MCShortForm -----------------------------
(***************************************************************************)
(* Small instances of ShortFormWorkflow: two scenes, one person, one input *)
(* that completes and its deviations, each of which some gate or activity  *)
(* tells apart.                                                            *)
(***************************************************************************)
EXTENDS ShortFormRefinement, ShortFormRunner, Integers

CONSTANT alice

Scene(id, seconds) == [id |-> id, seconds |-> seconds]

Usual ==
    [scenes |-> <<Scene("scene-001", 5), Scene("scene-002", 7)>>,
     scriptRef |-> "script.md", researchPack |-> "research_pack.json",
     scriptApproved |-> TRUE, claims |-> {1}, operator |-> "operator:ci",
     platforms |-> {"youtube"}, visibility |-> "private", scheduledAt |-> "",
     disclosureRequired |-> TRUE, disclosure |-> "made with AI"]

Healthy(in1) == [in |-> in1, defect |-> "none"]

UsualOnly == {Healthy(Usual)}

Deviations ==
    {[Usual EXCEPT !.scenes = <<>>],
     [Usual EXCEPT !.scenes = <<Scene("scene-001", 61)>>],
     [Usual EXCEPT !.scenes = <<Scene("scene-001", -1), Scene("scene-001", 60)>>],
     [Usual EXCEPT !.researchPack = " "],
     [Usual EXCEPT !.scriptApproved = FALSE, !.researchPack = ""],
     [Usual EXCEPT !.claims = {0, 1}],
     [Usual EXCEPT !.operator = ""],
     [Usual EXCEPT !.scriptRef = ""],
     [Usual EXCEPT !.platforms = {}],
     [Usual EXCEPT !.visibility = ""],
     [Usual EXCEPT !.visibility = "scheduled"],
     [Usual EXCEPT !.visibility = "scheduled", !.scheduledAt = "tomorrow"],
     [Usual EXCEPT !.disclosure = " "],
     [Usual EXCEPT !.disclosureRequired = FALSE, !.disclosure = ""]}

Faults == {"storyboard", "visual", "voice", "subtitle", "subtitle_sync_failed",
           "render", "render_no_audio", "publishing", "missing_disclosure"}

AllCases == UsualOnly \cup {Healthy(d) : d \in Deviations}
                      \cup {[in |-> Usual, defect |-> f] : f \in Faults}

Signal(decision, approver) == [decision |-> decision, approver |-> approver]

SomeSignals == {Signal("approve", alice), Signal("approve", Nobody),
                Signal("approve", ProductionQA), Signal("reject", alice)}

-----------------------------------------------------------------------------
(* The demo runner calls the same activities and gates; a behaviour is one *)
(* of the workflow or one of the runner.                                   *)

Config(inject, approver, releaser) ==
    [inject |-> inject, approver |-> approver, releaser |-> releaser]

DemoConfigs ==
    {Config("none", alice, alice), Config("none", System, alice),
     Config("none", alice, System), Config("unapproved_storyboard", alice, alice),
     Config("render_no_audio", alice, alice), Config("release_denied", alice, alice)}

TwoScenes == Usual.scenes

VARIABLE driver
vars == <<driver, workflowVars, runnerVars>>

DriverInit ==
    /\ driver \in {"workflow", "runner"} /\ Init /\ RunnerInit
    /\ driver = "workflow" => config = Config("none", alice, alice)
    /\ driver = "runner" => case = Healthy(Usual) /\ config = Config("none", alice, alice)

WorkflowStep(A) == driver = "workflow" /\ A /\ UNCHANGED <<driver, runnerVars>>
RunnerStep == driver = "runner" /\ RunnerNext /\ UNCHANGED <<driver, workflowVars>>

DriverSpec ==
    /\ DriverInit /\ [][WorkflowStep(Next) \/ RunnerStep]_vars
    /\ WF_vars(WorkflowStep(Work))
=============================================================================
