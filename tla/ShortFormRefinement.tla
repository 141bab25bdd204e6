------------------------- MODULE ShortFormRefinement -------------------------
(***************************************************************************)
(* ShortFormWorkflow implements TwoSignatures.                             *)
(***************************************************************************)
EXTENDS ShortFormWorkflow

\* The awaits before the storyboard was gated, before the candidate was locked,
\* before the release was signed, and after it.
Drafting == {"start", "buildPromptPack", "importStoryboard", "awaitStoryboard",
             "approveStoryboard"}
Signing == {"awaitRelease", "buildRelease"}
Releasing == {"publishManifest", "publishDryRun"}

StageNow == CASE pc = "closed" -> IF result.state = Completed THEN "released"
                                  ELSE "stopped"
              [] pc \in Drafting -> "draft"
              [] pc \in Signing -> "candidate"
              [] pc \in Releasing -> "signed"
              [] OTHER -> "produce"

\* Whose approval passed its gates.
ReviewerNow == IF "storyboard_image" \in Elements(passed)
               THEN decided[StoryboardImageApproval].approver ELSE None
SignerNow == IF "multi_verifier" \in Elements(passed)
             THEN decided[ReleaseApproval].approver ELSE None
PinnedNow == IF art[Candidate] = None THEN None ELSE art[Candidate].components

\* A product is an approved artifact of every kind a candidate needs.
AllApproved(what) ==
    /\ DOMAIN what = Components
    /\ \A k \in Components : what[k].kind = k /\ what[k].status = "approved"

Promise == INSTANCE TwoSignatures WITH
    Reviewers <- People \cup {Nobody}, Signers <- People, Blank <- None,
    Complete <- AllApproved, stage <- StageNow, reviewer <- ReviewerNow,
    pinned <- PinnedNow, signer <- SignerNow

\* The workflow keeps the promise of two signatures: only a human's approval that
\* passed both gates leads to production, only approved artifacts are pinned, and
\* only a named person's signature on them leads to the release.
ImplementsPromise == Promise!Spec
=============================================================================
