------------------------------ MODULE ShortForm ------------------------------
(***************************************************************************)
(* Artifacts, activities and gates of the short-form pipeline: the pure    *)
(* functions that ShortFormWorkflow and ShortFormRunner call in order.     *)
(*                                                                         *)
(* An artifact is a record of the fields some gate or activity reads. Its  *)
(* content hash is the record itself; file names, prompts and codecs that  *)
(* the providers always fill in are left out. A gate is the set of the     *)
(* codes of its blocking reasons, empty when it passes; an activity that   *)
(* returns an error returns None.                                          *)
(***************************************************************************)
EXTENDS Naturals, Sequences, FiniteSets

CONSTANTS People,        \* identities human:<name>
          Nobody,        \* the identity "human:", which names nobody
          Machines,      \* "system" and what begins with system: or model:
          System,        \* "system", the creator the providers record
          ProductionQA,  \* "system:production-qa", the constant verifier
          Unsigned,      \* the empty identity
          None           \* no artifact, or an activity's error

ASSUME IdentityAssumption ==
    /\ System \in Machines /\ ProductionQA \in Machines
    /\ Nobody \notin People /\ Unsigned \notin People
    /\ People \cap Machines = {} /\ Nobody \notin Machines
    /\ Unsigned # Nobody /\ Unsigned \notin Machines

Storyboard == "storyboard_image_manifest"
Shots == "visual_shot_manifest"
Voiceover == "voiceover_manifest"
Subtitles == "subtitle_manifest"
Render == "short_render_manifest"
Candidate == "production_candidate"
Release == "release_approval"
Publish == "uploadpost_publish_manifest"

\* What a candidate pins.
Components == {Storyboard, Shots, Voiceover, Subtitles, Render}
Kinds == Components \cup {Candidate, Release, Publish}

-----------------------------------------------------------------------------
\* strings.TrimSpace(s) # "": a text of blanks is not present, but it is not "".
Present(text) == text \notin {"", " "}

IsHuman(identity) == identity \in People \cup {Nobody}
IsHumanIdentity(identity) == identity \in People

\* evaluator.require: the reason for which a condition blocks.
Require(condition, code) == IF condition THEN {} ELSE {code}

Elements(s) == {s[i] : i \in DOMAIN s}

-----------------------------------------------------------------------------
(* The mock providers; "defect" is the failure injected into them.         *)

ImportStoryboardImages(in, defect) ==
    IF defect = "storyboard" \/ in.scenes = <<>> THEN None
    ELSE [kind |-> Storyboard, createdBy |-> System, status |-> "draft",
          source |-> "chatgpt_manual", operator |-> in.operator,
          images |-> [i \in DOMAIN in.scenes |->
              [scene |-> in.scenes[i].id, hash |-> in.scenes[i].id,
               seconds |-> in.scenes[i].seconds, status |-> "draft",
               reviewed |-> FALSE, approvedBy |-> Unsigned]]]

GenerateVisualShots(storyboard, defect) ==
    IF defect = "visual" \/ storyboard.images = <<>> THEN None
    ELSE [kind |-> Shots, status |-> "draft", provider |-> "mock",
          shots |-> [i \in DOMAIN storyboard.images |->
              LET image == storyboard.images[i] IN
              [scene |-> image.scene, reference |-> image.hash,
               seconds |-> IF image.seconds <= 0 THEN 5 ELSE image.seconds,
               operatorApproval |-> FALSE]]]

GenerateVoiceover(in, defect) ==
    IF defect = "voice" \/ in.scriptRef = "" THEN None
    ELSE [kind |-> Voiceover, status |-> "draft", operatorApproval |-> FALSE]

GenerateSubtitles(defect) ==
    IF defect = "subtitle" THEN None
    ELSE [kind |-> Subtitles, status |-> "draft", operatorApproval |-> FALSE,
          sync |-> defect # "subtitle_sync_failed"]

RenderShort(in, defect) ==
    IF defect = "render" THEN None
    ELSE [kind |-> Render, status |-> "draft",
          audio |-> defect # "render_no_audio",
          platforms |-> IF in.platforms = {} THEN {"master"} ELSE in.platforms]

UploadPostDryRun(release, defect) ==
    IF defect = "publishing" THEN None
    ELSE [kind |-> Publish, status |-> "draft", mode |-> "dry_run",
          platforms |-> release.platforms, visibility |-> release.visibility,
          scheduledAt |-> release.scheduledAt,
          disclosureRequired |-> release.disclosureRequired,
          disclosure |-> IF defect = "missing_disclosure" THEN ""
                         ELSE release.disclosure,
          humanReleaseApproval |-> release.humanReleaseApproval]

-----------------------------------------------------------------------------
(* Approvals, production QA and the artifacts built from approved ones.    *)

ApproveStoryboardImages(m, approver) ==
    [m EXCEPT !.status = "approved",
              !.images = [i \in DOMAIN m.images |->
                  [m.images[i] EXCEPT !.status = "approved", !.reviewed = TRUE,
                                      !.approvedBy = approver]]]

ApproveVisualShots(m) ==
    [m EXCEPT !.status = "approved",
              !.shots = [i \in DOMAIN m.shots |->
                  [m.shots[i] EXCEPT !.operatorApproval = TRUE]]]

\* ApproveVoiceover and ApproveSubtitles.
ApproveByOperator(m) ==
    [m EXCEPT !.status = "approved", !.operatorApproval = TRUE]

ApproveRenderOutputs(m) == [m EXCEPT !.status = "approved"]

RunProductionQA(render) ==
    IF render.platforms # {} /\ render.audio THEN "approved"
    ELSE "request_revision"

AssembleProductionCandidate(art) ==
    IF \A k \in Components :
           art[k] # None /\ art[k].status \in {"approved", "locked"}
    THEN [kind |-> Candidate, status |-> "locked", immutable |-> TRUE,
          components |-> [k \in Components |-> art[k]]]
    ELSE None

\* A bug: with gates.isHuman in place of isHumanIdentity.
BuildReleaseApprovalLoose(in, approver) ==
    IF ~IsHuman(approver) THEN None
    ELSE [kind |-> Release, status |-> "approved", approvedBy |-> approver,
          platforms |-> in.platforms, scheduledAt |-> in.scheduledAt,
          visibility |-> IF in.visibility = "" THEN "private" ELSE in.visibility,
          disclosureRequired |-> in.disclosureRequired,
          disclosure |-> in.disclosure, humanReleaseApproval |-> TRUE]

BuildReleaseApproval(in, approver) ==
    IF ~IsHumanIdentity(approver) THEN None
    ELSE [kind |-> Release, status |-> "approved", approvedBy |-> approver,
          platforms |-> in.platforms, scheduledAt |-> in.scheduledAt,
          visibility |-> IF in.visibility = "" THEN "private" ELSE in.visibility,
          disclosureRequired |-> in.disclosureRequired,
          disclosure |-> in.disclosure, humanReleaseApproval |-> TRUE]

PublishDryRun(m) ==
    /\ m.mode = "dry_run"
    /\ m.humanReleaseApproval
    /\ m.platforms # {} /\ m.visibility # ""
    /\ m.disclosureRequired => m.disclosure # ""

-----------------------------------------------------------------------------
(* Gates.                                                                  *)

\* "claims" holds, for every claim, how many sources it has.
ProvenanceGate(in) ==
    Require(in.scriptApproved => Present(in.researchPack), "research_pack_missing")
    \cup Require(\A n \in in.claims : n > 0, "claim_without_source")

\* A bug: without the rule for generated output.
SelfApprovalGateAnyone(createdBy, approver) ==
    Require(approver # Unsigned, "approver_missing")
    \cup Require(approver # createdBy, "self_approval")

SelfApprovalGate(createdBy, approver) ==
    Require(approver # Unsigned, "approver_missing")
    \cup Require(approver # createdBy, "self_approval")
    \cup Require(createdBy \in Machines => IsHuman(approver), "non_human_approval")

StoryboardImageGate(m, scenes) ==
    LET imagesOf(scene) == {i \in DOMAIN m.images : m.images[i].scene = scene}
        \* byScene keeps the last image of a scene.
        last(scene) == m.images[CHOOSE i \in imagesOf(scene) :
                                    \A j \in imagesOf(scene) : j <= i]
        covered == {s.id : s \in Elements(scenes)}
    IN Require(m.source = "chatgpt_manual", "source_not_chatgpt_manual")
       \cup Require(Present(m.operator), "operator_approval_missing")
       \cup Require(\A s \in covered : imagesOf(s) # {}, "scene_image_missing")
       \cup Require(\A s \in covered : imagesOf(s) # {} =>
                        last(s).status = "approved", "image_not_approved")
       \cup Require(\A s \in covered : imagesOf(s) # {} => last(s).reviewed,
                    "visual_review_failed")

VisualShotGate(m, storyboard, scenes) ==
    LET approvedImageHashes ==
            {i.hash : i \in {x \in Elements(storyboard.images) : x.status = "approved"}}
        sceneSet == {s.id : s \in Elements(scenes)}
        each(Condition(_), code) ==
            Require(\A shot \in Elements(m.shots) : Condition(shot), code)
        inTolerance(shot) == shot.seconds > 0 /\ shot.seconds <= 60
        referenced(shot) == shot.reference \in approvedImageHashes
        known(shot) == shot.scene \in sceneSet
        approved(shot) == shot.operatorApproval
    IN Require(Present(m.provider), "provider_metadata_missing")
       \cup each(inTolerance, "duration_out_of_tolerance")
       \cup each(referenced, "reference_image_not_approved")
       \cup each(known, "scene_mapping_invalid")
       \cup each(approved, "operator_approval_missing")

SubtitleGate(m) ==
    Require(m.sync, "sync_failed")
    \cup Require(m.operatorApproval, "operator_approval_missing")

RenderGate(m, qa) ==
    Require(m.platforms # {}, "outputs_missing")
    \cup Require(m.audio, "audio_track_missing")
    \cup Require(qa = "approved", "production_qa_not_approved")

MultiVerifierGate(verifiers) ==
    Require(Cardinality(verifiers \ {Unsigned}) >= 2, "insufficient_verifiers")

\* A bug: with the comparison that PublishDryRun makes.
AIDisclosureGateUntrimmed(required, text) ==
    Require(required => text # "", "disclosure_text_missing")

AIDisclosureGate(required, text) ==
    Require(required => Present(text), "disclosure_text_missing")

ReleaseGate(m, qa, dryRunSucceeded) ==
    Require(qa = "approved", "production_qa_not_approved")
    \cup Require(m.humanReleaseApproval, "human_release_approval_missing")
    \cup Require(m.platforms # {}, "platforms_not_explicit")
    \cup Require(Present(m.visibility), "visibility_not_set")
    \cup Require(m.visibility = "scheduled" => Present(m.scheduledAt),
                 "scheduled_at_missing")
    \cup AIDisclosureGate(m.disclosureRequired, m.disclosure)
    \cup Require(dryRunSucceeded, "dry_run_failed")

\* The gates in the order in which both drivers pass them.
GateOrder == <<"provenance", "self_approval", "storyboard_image", "visual_shot",
               "subtitle", "render", "multi_verifier", "release">>
=============================================================================
