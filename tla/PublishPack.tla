----------------------------- MODULE PublishPack -----------------------------
(***************************************************************************)
(* Publish packs, the manifests made of them, and the dry-run adapter,     *)
(* which keeps nothing.                                                    *)
(***************************************************************************)
EXTENDS Naturals

CONSTANT NoDraft \* the answer of a call that is refused

Private == "private"
Scheduled == "scheduled"
Public == "public"
Visibilities == {"", Private, Scheduled, Public, "unlisted"}

ASSUME PackAssumption == NoDraft \notin {Private, Scheduled}

\* GeneratePack: never public by default, nor without the approval of a human. A pack
\* is `titled` when it has a title candidate, which every generated one has.
GeneratePack(episode, titled, visibility, approved) ==
    LET v == IF visibility = "" THEN Private ELSE visibility IN
    IF ~titled \/ v \notin {Private, Scheduled, Public} \/ (v = Public /\ ~approved)
    THEN NoDraft
    ELSE [episode |-> episode, titled |-> TRUE, visibility |-> v, approved |-> approved]

\* GenerateReleasePack: the manifest of a pack, only for a production that QA
\* approved and that has its sources, scenes, outputs and disclosure.
GenerateReleasePack(production, pack, scheduledAt) ==
    IF production.qa # "approved" \/ ~production.complete \/ pack = NoDraft THEN NoDraft
    ELSE [visibility |-> pack.visibility, scheduledAt |-> scheduledAt,
          approved |-> pack.approved]

\* validatePublishManifestSafety.
ManifestSafe(manifest) ==
    manifest.visibility # "" /\ (manifest.visibility = Public => manifest.approved)

\* validatePublishManifestArtifact, on what the pack decides.
ManifestValid(manifest) ==
    /\ ManifestSafe(manifest) /\ manifest.visibility \in {Private, Scheduled, Public}
    /\ manifest.visibility = Scheduled => manifest.approved /\ manifest.scheduledAt # ""

\* DryRunAdapter.ValidateMetadata: it does not ask for a title.
DryRunValidates(pack) ==
    /\ pack.visibility \in {"", Private, Scheduled}
    /\ pack.visibility = Scheduled => pack.approved

\* A bug: an upload is not validated.
DryRunUploadAny(pack) == IF pack.visibility = "" THEN Private ELSE pack.visibility

\* What the dry-run adapter answers: the visibility, or NoDraft for an error. An
\* upload may be of a scheduled pack.
DryRunUpload(pack) ==
    IF ~DryRunValidates(pack) THEN NoDraft
    ELSE IF pack.visibility = "" THEN Private ELSE pack.visibility

DryRunSchedule(pack) ==
    IF pack.approved /\ pack.visibility = Scheduled /\ DryRunValidates(pack)
    THEN Scheduled ELSE NoDraft
=============================================================================
