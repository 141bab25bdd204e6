--------------------------- MODULE ShortFormRunner ---------------------------
(***************************************************************************)
(* The demo command: the same activities and gates called in one process,  *)
(* with the approvals given by its configuration and every artifact        *)
(* written to one directory, run after run. A write that fails is noted    *)
(* and the run goes on; the process may die between any two steps.         *)
(***************************************************************************)
EXTENDS ShortForm

CONSTANTS Configs,      \* [inject, approver, releaser]: settings of a run
          DemoScenes,   \* DefaultScenes
          MaxRuns,      \* bound on the runs in one directory
          MaxLosses,    \* bound on failing writes and deaths together
          Torn          \* a file whose write failed

\* The failures that the command accepts; any other word of --inject is none.
Injections == {"none", "unapproved_storyboard", "render_no_audio", "release_denied"}

ASSUME RunnerAssumption ==
    /\ \A c \in Configs : c.inject \in Injections
    /\ DemoScenes \in Seq(Elements(DemoScenes))

VARIABLES runs,     \* how many runs were started; a run's clock
          config,   \* the configuration of the present run
          at,       \* the step the run stands at
          made,     \* its artifact variables
          listed,   \* res.Artifacts
          cleared,  \* res.GateResults that passed
          outcome,  \* res.State
          disk,     \* the artifact files
          summary,  \* run_summary.json
          losses    \* failing writes and deaths so far

runnerVars == <<runs, config, at, made, listed, cleared, outcome, disk, summary, losses>>

\* The fixed input of the demo; the render adds the master to the release's platform.
Demo == [scenes |-> DemoScenes, scriptRef |-> "script.md", operator |-> "operator:ci",
         platforms |-> {"youtube"}, visibility |-> "private", scheduledAt |-> "",
         disclosureRequired |-> TRUE, disclosure |-> "AI-generated"]

demoDefect == IF config.inject = "render_no_audio" THEN "render_no_audio" ELSE "none"

-----------------------------------------------------------------------------
RunnerInit ==
    /\ runs = 0 /\ config \in Configs /\ at = "idle"
    /\ made = [k \in Kinds |-> None] /\ listed = made /\ disk = made
    /\ cleared = <<>> /\ outcome = "started" /\ summary = None /\ losses = 0

\* The provenance of the demo is fixed, so its gate passes.
StartRun ==
    /\ at = "idle" /\ runs < MaxRuns
    /\ runs' = runs + 1 /\ config' \in Configs /\ at' = "import"
    /\ made' = [k \in Kinds |-> None] /\ listed' = made'
    /\ cleared' = <<"provenance">> /\ outcome' = "started"
    /\ UNCHANGED <<disk, summary, losses>>

\* A bug: lists the hash before the write.
PersistListedFirst(k, artifact) ==
    /\ made' = [made EXCEPT ![k] = artifact]
    /\ listed' = [listed EXCEPT ![k] = [run |-> runs, body |-> artifact]]
    /\ \/ disk' = [disk EXCEPT ![k] = listed'[k]] /\ UNCHANGED losses
       \/ /\ losses < MaxLosses /\ losses' = losses + 1
          /\ disk' = [disk EXCEPT ![k] = Torn]
    /\ UNCHANGED <<runs, config, summary>>

\* persist: written and listed with its hash, or torn and not listed.
Persist(k, artifact) ==
    /\ made' = [made EXCEPT ![k] = artifact]
    /\ \/ /\ disk' = [disk EXCEPT ![k] = [run |-> runs, body |-> artifact]]
          /\ listed' = [listed EXCEPT ![k] = disk'[k]]
          /\ UNCHANGED losses
       \/ /\ losses < MaxLosses /\ losses' = losses + 1
          /\ disk' = [disk EXCEPT ![k] = Torn]
          /\ UNCHANGED listed
    /\ UNCHANGED <<runs, config, summary>>

\* gate: what blocks is recorded and the run goes on to its summary.
Pass(gate, reasons, next) ==
    IF reasons = {} THEN cleared' = Append(cleared, gate) /\ at' = next /\ UNCHANGED outcome
    ELSE outcome' = "blocked" /\ at' = "finalize" /\ UNCHANGED cleared

NoGate(next) == at' = next /\ UNCHANGED <<cleared, outcome>>

Step(step, k, artifact) == at = step /\ artifact # None /\ Persist(k, artifact)

ImportStep ==
    /\ Step("import", Storyboard, ImportStoryboardImages(Demo, "none"))
    /\ NoGate(IF config.inject = "unapproved_storyboard" THEN "gateStoryboard" ELSE "approve")

ApproveStep ==
    /\ Step("approve", Storyboard, ApproveStoryboardImages(made[Storyboard], config.approver))
    /\ Pass("self_approval", SelfApprovalGate(System, config.approver), "gateStoryboard")

GateStoryboardStep ==
    /\ at = "gateStoryboard"
    /\ Pass("storyboard_image", StoryboardImageGate(made[Storyboard], DemoScenes), "shots")
    /\ UNCHANGED <<runs, config, made, listed, disk, summary, losses>>

ShotsStep ==
    LET m == ApproveVisualShots(GenerateVisualShots(made[Storyboard], "none")) IN
    /\ Step("shots", Shots, m)
    /\ Pass("visual_shot", VisualShotGate(m, made[Storyboard], DemoScenes), "voice")

VoiceStep ==
    /\ Step("voice", Voiceover, ApproveByOperator(GenerateVoiceover(Demo, "none")))
    /\ NoGate("subtitles")

SubtitlesStep ==
    LET m == ApproveByOperator(GenerateSubtitles("none")) IN
    /\ Step("subtitles", Subtitles, m)
    /\ Pass("subtitle", SubtitleGate(m), "render")

RenderStep ==
    LET m == RenderShort([Demo EXCEPT !.platforms = {"master", "youtube"}], demoDefect) IN
    /\ Step("render", Render, ApproveRenderOutputs(m))
    /\ Pass("render", RenderGate(ApproveRenderOutputs(m), RunProductionQA(m)), "candidate")

CandidateStep ==
    /\ Step("candidate", Candidate, AssembleProductionCandidate(made))
    /\ IF config.inject = "release_denied"
       THEN at' = "finalize" /\ outcome' = "release_denied" /\ UNCHANGED cleared
       ELSE NoGate("release")

ReleaseStep ==
    LET verifiers == {config.approver, config.releaser, ProductionQA} IN
    /\ Step("release", Release, BuildReleaseApproval(Demo, config.releaser))
    /\ Pass("multi_verifier", MultiVerifierGate(verifiers), "publish")

\* fail: the error of an activity is recorded like a block.
ReleaseBuildFails ==
    /\ at = "release" /\ BuildReleaseApproval(Demo, config.releaser) = None
    /\ at' = "finalize" /\ outcome' = "release_build_failed"
    /\ UNCHANGED <<runs, config, made, listed, cleared, disk, summary, losses>>

PublishStep ==
    LET m == UploadPostDryRun(made[Release], "none")
        verdict == ReleaseGate(m, RunProductionQA(made[Render]), PublishDryRun(m))
    IN /\ Step("publish", Publish, m)
       /\ at' = "finalize"
       /\ IF verdict = {}
          THEN cleared' = Append(cleared, "release") /\ outcome' = "published_dry_run_complete"
          ELSE outcome' = "blocked" /\ UNCHANGED cleared

\* finalize; an error of its first two files ends the run without a summary.
Summarize ==
    /\ at = "finalize" /\ at' = "idle"
    /\ summary' = [run |-> runs, state |-> outcome, artifacts |-> listed, gates |-> cleared,
                   config |-> config]
    /\ UNCHANGED <<runs, config, made, listed, cleared, outcome, disk, losses>>

\* The process dies, or a file of finalize cannot be written.
RunDies ==
    /\ at # "idle" /\ losses < MaxLosses
    /\ losses' = losses + 1 /\ at' = "idle"
    /\ summary' \in IF at = "finalize" THEN {summary, Torn} ELSE {summary}
    /\ UNCHANGED <<runs, config, made, listed, cleared, outcome, disk>>

RunnerNext ==
    \/ StartRun \/ ImportStep \/ ApproveStep \/ GateStoryboardStep \/ ShotsStep
    \/ VoiceStep \/ SubtitlesStep \/ RenderStep \/ CandidateStep \/ ReleaseStep
    \/ ReleaseBuildFails \/ PublishStep \/ Summarize \/ RunDies

RunnerSpec == RunnerInit /\ [][RunnerNext]_runnerVars

-----------------------------------------------------------------------------
HasSummary == summary # None /\ summary # Torn

\* Until the next run starts, an artifact that the summary lists is on disk with
\* the content it lists, whatever write failed; only the storyboard, which is
\* written twice, may be listed as a draft whose approved version was torn.
ListedOnDisk ==
    HasSummary /\ at = "idle" /\ summary.run = runs =>
        \A k \in Kinds : summary.artifacts[k] # None =>
            \/ disk[k] = summary.artifacts[k]
            \/ k = Storyboard /\ disk[k] = Torn /\ summary.artifacts[k].body.status = "draft"

\* What a reader of the directory may rely on although runs overwrite each other
\* and leave files of earlier runs: a publish manifest that is as old as the
\* summary was written after both people signed; one of a blocked run's summary is
\* a leftover of another run.
ManifestOfSummary ==
    HasSummary /\ disk[Publish] # None /\ disk[Publish] # Torn /\ disk[Publish].run = summary.run =>
        /\ Elements(summary.gates) = Elements(GateOrder)
        /\ IsHuman(summary.config.approver) /\ IsHumanIdentity(summary.config.releaser)
        /\ summary.state = "published_dry_run_complete"

\* A summary tells how its run ended: completed exactly when every gate was
\* passed, and no injected failure completes.
SummaryJustified ==
    HasSummary =>
        /\ summary.state = "published_dry_run_complete" <=> summary.gates = GateOrder
        /\ summary.config.inject # "none" => summary.state # "published_dry_run_complete"
        /\ summary.state # "started"

\* What a reader of a summary and of the files beside it may conclude, whatever write
\* failed and whatever earlier runs left: what
\* is listed is there, a manifest belongs to a run that earned it, an outcome to its gates.
SummaryTrue == ListedOnDisk /\ ManifestOfSummary /\ SummaryJustified
=============================================================================
