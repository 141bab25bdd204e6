------------------------------- MODULE DryRun -------------------------------
(***************************************************************************)
(* pipeline.DryRunWithOptions: one walk from the files of an episode to a  *)
(* private draft. It reads the files one after the other, some of them     *)
(* more than once, while an editor may replace any of them in between.     *)
(***************************************************************************)
EXTENDS EpisodeBundle, PublishPack, ModelRouter

CONSTANTS Directories,   \* directories a walk may start on
          Versions,      \* per file, what an editor may put there
          CouncilRegistries, \* model registries the local council may load
          MaxEdits       \* bound on the editor's replacements

\* A claims file is missing or a list.
ClaimsFile(claims) == claims = NoFile \/ claims = [i \in DOMAIN claims |-> claims[i]]

\* A directory has the five files, and a missing one is told from a report.
ASSUME WalkAssumption ==
    /\ \A d \in Directories :
          /\ d = [research |-> d.research, claims |-> d.claims, script |-> d.script,
                  human |-> d.human, rest |-> d.rest]
          /\ ClaimsFile(d.claims)
    /\ "claims" \in DOMAIN Versions => \A v \in Versions["claims"] : ClaimsFile(v)
    /\ NoFile \notin [status : {"draft"}, reviewer : {"human-required"},
                      decision : Approvals \cup {"request_revision", "block"},
                      changes : BOOLEAN]
    /\ MaxEdits \in Nat

VARIABLES walk,      \* where the walk is
          fixtures,  \* DryRunOptions.UseApprovedFixtures
          dir,       \* the episode directory
          edits,     \* replacements made so far
          research,  \* the research pack that was loaded
          claims,    \* the claims the walk judges
          judged,    \* council report, verification and QA packet, or NoReport
          gate,      \* what the storyboarding gate has seen: [human, edited, issues]
          product,   \* storyboard and production QA report, or NoReport
          outcome    \* what the caller is told: [blocked, failed, draft]

walkVars == <<walk, fixtures, dir, edits, research, claims, judged, gate, product, outcome>>

Steps == {"validate", "validate_again", "research", "claims", "extract_again", "judge",
          "approval", "sources", "decision", "storyboard", "publish", "done"}

NoGate == [human |-> NoFile, edited |-> {}, issues |-> FALSE]
Quiet == [blocked |-> FALSE, failed |-> FALSE, draft |-> NoDraft]

WalkInit ==
    /\ walk = "validate" /\ fixtures \in BOOLEAN /\ dir \in Directories /\ edits = 0
    /\ research = NoFile /\ claims = <<>> /\ judged = NoReport /\ gate = NoGate
    /\ product = NoReport /\ outcome = Quiet

\* The walk returns an error, with a blocker in its report.
Fail == walk' = "done" /\ outcome' = [outcome EXCEPT !.blocked = TRUE, !.failed = TRUE]

\* It goes on to the step `next` when `ok`.
GoOnIf(ok, next) == IF ok THEN walk' = next /\ UNCHANGED outcome ELSE Fail

-----------------------------------------------------------------------------
ValidateFiles ==
    /\ walk = "validate"
    /\ IF ValidDirectory(dir) THEN walk' = "research" /\ UNCHANGED outcome
       ELSE walk' = "validate_again" /\ outcome' = [outcome EXCEPT !.blocked = TRUE]
    /\ UNCHANGED <<fixtures, dir, edits, research, claims, judged, gate, product>>

\* A bug: returns no error for a directory that failed validation.
ValidateAgainQuiet ==
    /\ walk = "validate_again" /\ walk' = "done"
    /\ UNCHANGED <<fixtures, dir, edits, research, claims, judged, gate, product, outcome>>

\* The error for an invalid directory comes from a second validation.
ValidateAgain ==
    /\ walk = "validate_again" /\ walk' = "done"
    /\ outcome' = [outcome EXCEPT !.failed = ~ValidDirectory(dir)]
    /\ UNCHANGED <<fixtures, dir, edits, research, claims, judged, gate, product>>

LoadResearch ==
    /\ walk = "research"
    /\ LET ok == dir.research # NoFile /\ dir.research.sources # <<>> IN
       research' = (IF ok THEN dir.research ELSE NoFile) /\ GoOnIf(ok, "claims")
    /\ UNCHANGED <<fixtures, dir, edits, claims, judged, gate, product>>

\* ExtractEpisode reads the research pack and the script anew; empty is an error.
ExtractEpisode ==
    IF dir.research = NoFile \/ dir.script = NoFile THEN <<>>
    ELSE Extract(dir.script, dir.research.sources)

\* A bug: an empty extraction is no error.
PrepareClaimsUnchecked ==
    /\ walk = "claims"
    /\ claims' = IF ~fixtures THEN ExtractEpisode
                 ELSE IF dir.claims = NoFile THEN <<>> ELSE dir.claims
    /\ walk' = IF fixtures THEN "judge" ELSE "extract_again"
    /\ UNCHANGED <<fixtures, dir, edits, research, judged, gate, product, outcome>>

\* claimsForDryRun.
PrepareClaims ==
    /\ walk = "claims"
    /\ claims' = IF ~fixtures THEN ExtractEpisode
                 ELSE IF dir.claims = NoFile THEN <<>> ELSE dir.claims
    /\ GoOnIf(claims' # <<>>, IF fixtures THEN "judge" ELSE "extract_again")
    /\ UNCHANGED <<fixtures, dir, edits, research, judged, gate, product>>

\* A second extraction, of which only the warnings and the error are used.
ExtractAgain ==
    /\ walk = "extract_again" /\ GoOnIf(ExtractEpisode # <<>>, "judge")
    /\ UNCHANGED <<fixtures, dir, edits, research, claims, judged, gate, product>>

\* approvedCouncilFixture.
ApprovedReviews ==
    [i \in 1..3 |-> [model |-> "mock-approval", verdict |-> "approve", sensitive |-> FALSE]]

\* Research audit, council, verification and packet, from what was loaded; the model
\* registry is a file of the installation.
Judge ==
    /\ walk = "judge"
    /\ \E registry \in CouncilRegistries :
       LET reviews == IF fixtures THEN ApprovedReviews
                      ELSE IF ValidRegistry(registry) THEN LocalReviews(registry) ELSE <<>>
           council == Aggregate(reviews)
           verification == VerifyClaims(claims, council)
           packet == Packet(claims, verification, council)
       IN IF ~AuditPack(research, claims) \/ reviews = <<>> \/ council.consensus = "blocked"
          THEN Fail /\ UNCHANGED judged
          ELSE /\ judged' = [council |-> council, verification |-> verification,
                             packet |-> packet]
               /\ GoOnIf(packet.decision # "block",
                         IF packet.decision \notin Approvals THEN "publish"
                         ELSE IF fixtures THEN "approval" ELSE "storyboard")
    /\ UNCHANGED <<fixtures, dir, edits, research, claims, gate, product>>

-----------------------------------------------------------------------------
(* ValidateTransition reads the human's report three times and collects    *)
(* issues; a missing report ends the first reading.                        *)

GateApproval ==
    /\ walk = "approval" /\ walk' = "sources"
    /\ gate' = [gate EXCEPT !.issues = ~ValidHuman(dir.human)]
    /\ UNCHANGED <<fixtures, dir, edits, research, claims, judged, product, outcome>>

\* A bug: the script is not compared with the one that was reviewed.
GateSourcesUnhashed ==
    /\ walk = "sources" /\ walk' = "decision"
    /\ gate' = [human |-> dir.human, edited |-> {},
                issues |-> gate.issues \/ ~StandingHuman(dir.human)]
    /\ UNCHANGED <<fixtures, dir, edits, research, claims, judged, product, outcome>>

GateSources ==
    /\ walk = "sources" /\ walk' = "decision"
    /\ gate' = [human |-> dir.human, edited |-> {},
                issues |-> \/ gate.issues \/ ~StandingHuman(dir.human)
                           \/ ~SourceUnchanged(dir.human, dir.script)]
    /\ UNCHANGED <<fixtures, dir, edits, research, claims, judged, product, outcome>>

GateDecision ==
    /\ walk = "decision"
    /\ GoOnIf(~gate.issues /\ HumanApproves(dir.human), "storyboard")
    /\ UNCHANGED <<fixtures, dir, edits, research, claims, judged, gate, product>>

\* The script is read again, told in scenes, previewed and checked for production.
TellStory ==
    /\ walk = "storyboard"
    /\ LET decision == judged.packet.decision
           board == IF dir.script = NoFile THEN NoReport
                    ELSE GenerateStoryboard(dir.script, claims, decision)
       IN /\ product' = IF board = NoReport THEN NoReport
                        ELSE [board |-> board, script |-> dir.script,
                              qa |-> ProductionQA(claims, judged.verification, decision, Private)]
          /\ GoOnIf(board # NoReport, "publish")
    /\ UNCHANGED <<fixtures, dir, edits, research, claims, judged, gate>>

\* A private draft, whatever came out; a fixture of analytics is imported for it.
PublishDraft ==
    /\ walk = "publish" /\ walk' = "done"
    /\ outcome' = [outcome EXCEPT !.draft = DryRunUpload(GeneratePack("episode-0001", TRUE, Private, FALSE))]
    /\ UNCHANGED <<fixtures, dir, edits, research, claims, judged, gate, product>>

\* Somebody replaces, adds or removes a file.
EditFile ==
    /\ edits < MaxEdits /\ edits' = edits + 1 /\ walk # "done"
    /\ \E file \in DOMAIN Versions : \E v \in Versions[file] \ {dir[file]} :
           /\ dir' = [dir EXCEPT ![file] = v]
           /\ gate' = IF walk \in {"decision", "storyboard"}
                      THEN [gate EXCEPT !.edited = @ \cup {file}] ELSE gate
    /\ UNCHANGED <<walk, fixtures, research, claims, judged, product, outcome>>

WalkStep == \/ ValidateFiles \/ ValidateAgain \/ LoadResearch \/ PrepareClaims \/ ExtractAgain
            \/ Judge \/ GateApproval \/ GateSources \/ GateDecision \/ TellStory \/ PublishDraft
WalkNext == WalkStep \/ EditFile

WalkSpec == WalkInit /\ [][WalkNext]_walkVars

-----------------------------------------------------------------------------
(* Properties.                                                             *)

\* Types: what the walk holds at each step, a product only after an approving packet.
WalkTypeOK ==
    /\ walk \in Steps /\ fixtures \in BOOLEAN /\ edits \in 0..MaxEdits
    /\ outcome.blocked \in BOOLEAN /\ outcome.failed \in BOOLEAN
    /\ outcome.draft \in {NoDraft, Private}
    /\ product # NoReport => judged.packet.decision \in Approvals
    /\ walk \in {"validate", "validate_again", "research"} => research = NoFile
    /\ walk \in {"extract_again", "judge", "approval", "sources", "decision", "storyboard"} =>
           claims # <<>> /\ research # NoFile

Told == product # NoReport

\* No high-risk claim goes into production unsupported, contradicted, waiting for a
\* human, without a source or without a place in it, although the claims file is not
\* validated again after it was read; a partially supported one only if it shares its
\* id with another claim, which the packet takes for it.
HighRiskStops ==
    Told => \A i \in DOMAIN claims : claims[i].risk \in HighRisk =>
        /\ claims[i].status \notin {"unsupported", "contradicted", "needs_human_review"}
        /\ claims[i].sources # {} /\ claims[i].located
        /\ claims[i].status = "partially_supported" =>
               \E j \in DOMAIN claims \ {i} : claims[j].id = claims[i].id

\* Without fixtures a walk never gets beyond the packet: the local council always asks
\* for a revision, and what is extracted is left to a human.
RealModeStops ==
    ~fixtures /\ judged # NoReport =>
        /\ ~Told /\ judged.packet.decision \notin Approvals
        /\ judged.council.consensus = "revision_required"
        /\ \A i \in DOMAIN claims : \E u \in judged.packet.unresolved : u.id = claims[i].id

\* Production QA, which judges the claims by itself, approves all that the packet let
\* through.
QAAgrees == Told => product.qa.decision = "approved"

\* A story is told only of claims that are sound, only where a human could approve
\* them, and production QA agrees with the packet about them.
OnlySoundProduced == HighRiskStops /\ RealModeStops /\ QAAgrees

\* With fixtures a storyboard tells the script that a standing human approval pinned,
\* unless the approval names no hash or somebody edited a file after the gate saw it:
\* the gate reads the script, the storyboard reads it again.
StoryboardOfApproved ==
    Told /\ fixtures =>
        /\ StandingHuman(gate.human)
        /\ HumanApproves(gate.human) \/ "human" \in gate.edited
        /\ gate.human.pin # NoPin =>
               product.script = gate.human.pin \/ "script" \in gate.edited

\* Whatever the council, the verification and the packet found, the draft that is made
\* for the human passes the validator of the human's report: one that does not approve
\* says what must change (ToHumanQAReportDraft). So does the production report: it
\* approves exactly when it has no issue.
ReportsValid ==
    judged # NoReport =>
        /\ ValidHuman(ToHumanQAReportDraft(judged.packet))
        /\ Told => ValidProductionQA(product.qa)

\* A caller that gets no error has a private draft and no blockers, one that gets an
\* error has blockers and no draft. A directory that was repaired between the two
\* validations is the exception: blockers, neither error nor draft.
ToldOutcome ==
    walk = "done" =>
        /\ outcome.failed => outcome.blocked /\ outcome.draft = NoDraft
        /\ outcome.blocked <=> outcome.draft = NoDraft
        /\ outcome.blocked /\ ~outcome.failed => research = NoFile /\ edits > 0
=============================================================================
