-------------------------- MODULE ShortFormWorkflow --------------------------
(***************************************************************************)
(* The Temporal workflow ShortFormWorkflow: activities with up to three    *)
(* attempts, gates between them, and two approvals that people send as     *)
(* signals. An action is one activity's completion with the code that runs *)
(* until the workflow waits again, or the receipt of a signal.             *)
(***************************************************************************)
EXTENDS ShortForm

CONSTANTS Cases,       \* [in, defect]: an input and the fault of the providers
          Signals,     \* [decision, approver]: what may be sent
          MaxSignals,  \* bound on the signals per channel
          Running      \* the result of a workflow that is not closed

ASSUME SignalAssumption == None \notin Signals

VARIABLES case,     \* the input and the injected defect, fixed at the start
          pc,       \* the await the workflow stands at
          attempt,  \* the number of the current attempt of the activity
          inbox,    \* signals sent and not yet received, per channel
          sent,     \* signals ever sent, per channel
          decided,  \* sbApproval and relApproval
          art,      \* the artifact variables of the workflow
          stamped,  \* res.Artifacts: the content last stamped, per kind
          qa,       \* the production QA decision
          dryRun,   \* whether the dry run succeeded
          passed,   \* res.GateResults that passed
          shown,    \* res.State, as the query handler reads it
          result    \* what the workflow returned

workflowVars == <<case, pc, attempt, inbox, sent, decided, art, stamped, qa,
                  dryRun, passed, shown, result>>

StoryboardImageApproval == "StoryboardImageApproval"
ReleaseApproval == "ReleaseApproval"
Channels == {StoryboardImageApproval, ReleaseApproval}

MaxAttempts == 3

\* The activities, with the state that their final failure ends in.
FailureState ==
  [buildPromptPack |-> "prompt_pack_failed", importStoryboard |-> "storyboard_import_failed",
   approveStoryboard |-> "storyboard_approval_failed",
   generateShots |-> "visual_shots_failed", approveShots |-> "visual_shots_approval_failed",
   generateVoice |-> "voiceover_failed", approveVoice |-> "voiceover_approval_failed",
   generateSubtitles |-> "subtitles_failed", approveSubtitles |-> "subtitles_approval_failed",
   render |-> "render_failed", productionQA |-> "production_qa_failed",
   approveRender |-> "render_approval_failed", assemble |-> "candidate_assembly_failed",
   buildRelease |-> "release_build_failed", publishManifest |-> "publish_manifest_failed",
   publishDryRun |-> "dry_run_failed"]

Activities == DOMAIN FailureState
Waits == {"awaitStoryboard", "awaitRelease"}
Completed == "published_dry_run_complete"

-----------------------------------------------------------------------------
\* record: the next await, and the state a query shows there.
GoOn(next, state) ==
    /\ pc' = next /\ attempt' = 1 /\ shown' = state
    /\ UNCHANGED <<passed, result>>

\* block and blockErr change a copy of res: a query keeps showing the old state.
Close(state, failed) ==
    /\ pc' = "closed" /\ attempt' = 1
    /\ result' = [state |-> state, failed |-> failed]
    /\ UNCHANGED <<passed, shown>>

\* gate: each of "verdicts" in order, up to the first that blocks; "next" and
\* "state" when all pass.
Gates(verdicts, next, state) ==
    LET passing(i) == verdicts[i].reasons = {}
        refused == {i \in DOMAIN verdicts : ~passing(i)}
        clear == {i \in DOMAIN verdicts : \A j \in 1..i : passing(j)}
        end == IF refused # {} THEN "blocked" ELSE state
    IN /\ passed' = passed \o [i \in 1..Cardinality(clear) |-> verdicts[i].gate]
       /\ attempt' = 1 /\ shown' = end
       /\ IF refused # {} \/ next = "closed"
          THEN pc' = "closed" /\ result' = [state |-> end, failed |-> FALSE]
          ELSE pc' = next /\ UNCHANGED result

Verdict(gate, reasons) == [gate |-> gate, reasons |-> reasons]

\* An activity returns a new value of the artifact of kind k, not an error.
Returns(activity, k, value) ==
    /\ pc = activity /\ value # None
    /\ art' = [art EXCEPT ![k] = value]
    /\ UNCHANGED <<case, inbox, sent, decided>>

Stamp(k) == stamped' = [stamped EXCEPT ![k] = art'[k]]

in == case.in
defect == case.defect

-----------------------------------------------------------------------------
Init ==
    /\ case \in Cases
    /\ inbox = [c \in Channels |-> <<>>] /\ sent = inbox
    /\ decided = [c \in Channels |-> None]
    /\ art = [k \in Kinds |-> None] /\ stamped = art
    /\ qa = None /\ dryRun = FALSE
    /\ pc = "start" /\ attempt = 1 /\ passed = <<>>
    /\ shown = "started" /\ result = Running

Start ==
    /\ pc = "start"
    /\ Gates(<<Verdict("provenance", ProvenanceGate(in))>>, "buildPromptPack", "provenance_ok")
    /\ UNCHANGED <<case, inbox, sent, decided, art, stamped, qa, dryRun>>

BuildStoryboardPromptPack ==
    /\ pc = "buildPromptPack" /\ in.scenes # <<>>
    /\ GoOn("importStoryboard", shown)
    /\ UNCHANGED <<case, inbox, sent, decided, art, stamped, qa, dryRun>>

ImportStoryboard ==
    /\ Returns("importStoryboard", Storyboard, ImportStoryboardImages(in, defect))
    /\ Stamp(Storyboard)
    /\ GoOn("awaitStoryboard", "awaiting_storyboard_approval")
    /\ UNCHANGED <<qa, dryRun>>

\* A bug: takes the latest buffered signal.
ReceiveLatest(channel, wait, next, refusal) ==
    /\ pc = wait /\ inbox[channel] # <<>>
    /\ LET signal == inbox[channel][Len(inbox[channel])] IN
       /\ decided' = [decided EXCEPT ![channel] = signal]
       /\ IF signal.decision = "approve" THEN GoOn(next, shown)
          ELSE Close(refusal, FALSE)
    /\ inbox' = [inbox EXCEPT ![channel] = <<>>]
    /\ UNCHANGED <<case, sent, art, stamped, qa, dryRun>>

\* receiveApproval: the oldest buffered signal, whenever it was sent.
Receive(channel, wait, next, refusal) ==
    /\ pc = wait /\ inbox[channel] # <<>>
    /\ LET signal == Head(inbox[channel]) IN
       /\ decided' = [decided EXCEPT ![channel] = signal]
       /\ IF signal.decision = "approve" THEN GoOn(next, shown)
          ELSE Close(refusal, FALSE)
    /\ inbox' = [inbox EXCEPT ![channel] = Tail(@)]
    /\ UNCHANGED <<case, sent, art, stamped, qa, dryRun>>

ReceiveStoryboardApproval ==
    Receive(StoryboardImageApproval, "awaitStoryboard", "approveStoryboard", "storyboard_rejected")

ReceiveReleaseApproval ==
    Receive(ReleaseApproval, "awaitRelease", "buildRelease", "release_denied")

\* The approval is stamped first and judged afterwards.
ApproveStoryboard ==
    LET approver == decided[StoryboardImageApproval].approver
        m == ApproveStoryboardImages(art[Storyboard], approver)
    IN /\ Returns("approveStoryboard", Storyboard, m)
       /\ Stamp(Storyboard)
       /\ Gates(<<Verdict("self_approval", SelfApprovalGate(m.createdBy, approver)),
                  Verdict("storyboard_image", StoryboardImageGate(m, in.scenes))>>,
                "generateShots", "storyboard_approved")
       /\ UNCHANGED <<qa, dryRun>>

\* Activities that fill an artifact variable without stamping it in the result.
Generate(activity, k, value, next) ==
    /\ Returns(activity, k, value)
    /\ GoOn(next, shown)
    /\ UNCHANGED <<stamped, qa, dryRun>>

GenerateShots ==
    Generate("generateShots", Shots, GenerateVisualShots(art[Storyboard], defect), "approveShots")

ApproveShots ==
    LET m == ApproveVisualShots(art[Shots]) IN
    /\ Returns("approveShots", Shots, m)
    /\ Stamp(Shots)
    /\ Gates(<<Verdict("visual_shot", VisualShotGate(m, art[Storyboard], in.scenes))>>,
             "generateVoice", "visual_shots_approved")
    /\ UNCHANGED <<qa, dryRun>>

GenerateVoice ==
    Generate("generateVoice", Voiceover, GenerateVoiceover(in, defect), "approveVoice")

\* A bug: without the new stamp.
ApproveVoiceUnstamped ==
    Generate("approveVoice", Voiceover, ApproveByOperator(art[Voiceover]), "generateSubtitles")

ApproveVoice ==
    /\ Returns("approveVoice", Voiceover, ApproveByOperator(art[Voiceover]))
    /\ Stamp(Voiceover)
    /\ GoOn("generateSubtitles", "voiceover_approved")
    /\ UNCHANGED <<qa, dryRun>>

GenerateCaptions ==
    Generate("generateSubtitles", Subtitles, GenerateSubtitles(defect), "approveSubtitles")

ApproveCaptions ==
    LET m == ApproveByOperator(art[Subtitles]) IN
    /\ Returns("approveSubtitles", Subtitles, m)
    /\ Stamp(Subtitles)
    /\ Gates(<<Verdict("subtitle", SubtitleGate(m))>>, "render", "subtitles_approved")
    /\ UNCHANGED <<qa, dryRun>>

RenderShortFinal ==
    Generate("render", Render, RenderShort(in, defect), "productionQA")

JudgeRender ==
    /\ pc = "productionQA"
    /\ qa' = RunProductionQA(art[Render])
    /\ GoOn("approveRender", shown)
    /\ UNCHANGED <<case, inbox, sent, decided, art, stamped, dryRun>>

\* The outputs are marked approved whatever production QA said.
ApproveRender ==
    LET m == ApproveRenderOutputs(art[Render]) IN
    /\ Returns("approveRender", Render, m)
    /\ Stamp(Render)
    /\ Gates(<<Verdict("render", RenderGate(m, qa))>>, "assemble", "render_approved")
    /\ UNCHANGED <<qa, dryRun>>

\* A bug: locks the render in place when it is bundled.
AssembleCandidateLocking ==
    LET locked == [art[Render] EXCEPT !.status = "locked"]
        candidate == AssembleProductionCandidate([art EXCEPT ![Render] = locked])
    IN /\ pc = "assemble" /\ candidate # None
       /\ art' = [art EXCEPT ![Candidate] = candidate, ![Render] = locked]
       /\ stamped' = [stamped EXCEPT ![Candidate] = candidate, ![Render] = locked]
       /\ GoOn("awaitRelease", "awaiting_release_approval")
       /\ UNCHANGED <<case, inbox, sent, decided, qa, dryRun>>

AssembleCandidate ==
    /\ Returns("assemble", Candidate, AssembleProductionCandidate(art))
    /\ Stamp(Candidate)
    /\ GoOn("awaitRelease", "awaiting_release_approval")
    /\ UNCHANGED <<qa, dryRun>>

BuildRelease ==
    LET approver == decided[ReleaseApproval].approver
        verifiers == {decided[c].approver : c \in Channels} \cup {ProductionQA}
    IN /\ Returns("buildRelease", Release, BuildReleaseApproval(in, approver))
       /\ Stamp(Release)
       /\ Gates(<<Verdict("multi_verifier", MultiVerifierGate(verifiers))>>,
                "publishManifest", shown)
       /\ UNCHANGED <<qa, dryRun>>

GeneratePublishManifest ==
    /\ Returns("publishManifest", Publish, UploadPostDryRun(art[Release], defect))
    /\ Stamp(Publish)
    /\ GoOn("publishDryRun", shown)
    /\ UNCHANGED <<qa, dryRun>>

DryRunPublish ==
    /\ pc = "publishDryRun"
    /\ dryRun' = PublishDryRun(art[Publish])
    /\ Gates(<<Verdict("release", ReleaseGate(art[Publish], qa, dryRun'))>>, "closed", Completed)
    /\ UNCHANGED <<case, inbox, sent, decided, art, stamped, qa>>

\* A bug: retries without end.
AttemptFailsForEver ==
    /\ pc \in Activities
    /\ attempt' = (attempt % MaxAttempts) + 1
    /\ UNCHANGED <<case, pc, passed, shown, result, inbox, sent, decided, art, stamped,
                   qa, dryRun>>

\* An attempt returns an error, times out, or its worker dies; after the last
\* one the workflow fails. An attempt that outlives its timeout works on its own
\* copy of the arguments and its answer is dropped.
AttemptFails ==
    /\ pc \in Activities
    /\ IF attempt < MaxAttempts
       THEN attempt' = attempt + 1 /\ UNCHANGED <<pc, passed, shown, result>>
       ELSE Close(FailureState[pc], TRUE)
    /\ UNCHANGED <<case, inbox, sent, decided, art, stamped, qa, dryRun>>

\* A person signals at any time until the workflow is closed.
SendSignal ==
    \E channel \in Channels, signal \in Signals :
        /\ pc # "closed" /\ Len(sent[channel]) < MaxSignals
        /\ inbox' = [inbox EXCEPT ![channel] = Append(@, signal)]
        /\ sent' = [sent EXCEPT ![channel] = Append(@, signal)]
        /\ UNCHANGED <<case, pc, attempt, decided, art, stamped, qa, dryRun, passed,
                       shown, result>>

Work == \/ Start \/ BuildStoryboardPromptPack \/ ImportStoryboard
        \/ ReceiveStoryboardApproval \/ ApproveStoryboard \/ GenerateShots
        \/ ApproveShots \/ GenerateVoice \/ ApproveVoice \/ GenerateCaptions
        \/ ApproveCaptions \/ RenderShortFinal \/ JudgeRender \/ ApproveRender
        \/ AssembleCandidate \/ ReceiveReleaseApproval \/ BuildRelease
        \/ GeneratePublishManifest \/ DryRunPublish \/ AttemptFails

Next == Work \/ SendSignal

Spec == Init /\ [][Next]_workflowVars

\* A worker polls the task queue: every activity is attempted and every attempt
\* ends, at the latest by its timeout of a minute. Nobody owes a signal.
FairSpec == Spec /\ WF_workflowVars(Work)
-----------------------------------------------------------------------------
(* Properties.                                                             *)

\* Types: the workflow stands at a known await, attempts are within the retry
\* policy, an artifact variable holds its own kind, what was received is a signal.
WorkflowTypeOK ==
    /\ case \in Cases
    /\ pc \in Activities \cup Waits \cup {"start", "closed"}
    /\ attempt \in 1..MaxAttempts
    /\ \A k \in Kinds : /\ art[k] # None => art[k].kind = k
                        /\ stamped[k] # None => stamped[k].kind = k
    /\ \A c \in Channels : /\ Elements(sent[c]) \cup Elements(inbox[c]) \subseteq Signals
                           /\ decided[c] \in Signals \cup {None}
    /\ result # Running => result.failed \in BOOLEAN /\ pc = "closed"

\* The first decision sent on a channel is the one that counts, however early it
\* came; one that is sent to correct it is never read (receiveApproval).
FirstDecisionCounts ==
    \A c \in Channels :
        IF decided[c] = None THEN inbox[c] = sent[c]
        ELSE decided[c] = Head(sent[c]) /\ inbox[c] = Tail(sent[c])

\* The approval of the storyboard is stamped before it is judged, yet nothing is
\* made from images that a machine, or nobody, approved: shots exist only when the
\* first decision was a human's approval and every image carries his name.
DownstreamReviewed ==
    art[Shots] # None =>
        LET signal == decided[StoryboardImageApproval] IN
        /\ signal.decision = "approve" /\ IsHuman(signal.approver)
        /\ \A image \in Elements(art[Storyboard].images) :
               image.status = "approved" /\ image.approvedBy = signal.approver

\* What the candidate pins is what the gates saw and what the result names: no
\* component is restamped after its gate, and none of them is unapproved.
CandidatePins ==
    art[Candidate] # None =>
        \A k \in Components :
            /\ art[Candidate].components[k] = stamped[k]
            /\ art[Candidate].components[k] = art[k]
            /\ art[k].status = "approved"

\* What a completed run publishes was rendered with sound, approved by two
\* signatures of which the release's has a name, disclosed where it must be, and
\* passed every gate in order; the dry run of the manifest alone allows less.
CompletedEarned ==
    result # Running /\ result.state = Completed =>
        /\ passed = GateOrder /\ qa = "approved" /\ dryRun
        /\ art[Publish].platforms # {}
        /\ art[Publish].platforms = art[Candidate].components[Render].platforms
        /\ art[Candidate].components[Render].audio
        /\ IsHuman(decided[StoryboardImageApproval].approver)
        /\ IsHumanIdentity(art[Release].approvedBy)
        /\ art[Release].approvedBy = decided[ReleaseApproval].approver
        /\ art[Publish].disclosureRequired => Present(art[Publish].disclosure)
        /\ art[Publish].visibility = "scheduled" => Present(art[Publish].scheduledAt)

\* An artifact that was stamped as approved or locked keeps its hash for the rest
\* of the workflow: retries and later stages never restamp it with other content.
ApprovedFrozen ==
    [][\A k \in Kinds :
           stamped[k] # None /\ stamped[k].status \in {"approved", "locked"}
               => stamped'[k] = stamped[k]]_workflowVars

\* The workflow waits for people only: failing attempts end it, and once both
\* decisions were sent, in whatever order and however early, it closes.
DecidedRunsClose ==
    (\A c \in Channels : sent[c] # <<>>) ~> (pc = "closed")

\* A query shows how a closed workflow ended (docs/ledger/M1.md says the state is
\* exposed via the query).
QueryShowsOutcome ==
    result # Running => shown = result.state
=============================================================================
