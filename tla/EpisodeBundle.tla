---------------------------- MODULE EpisodeBundle ----------------------------
(***************************************************************************)
(* The files of an episode directory and the validators that read them.    *)
(* A directory is [research, claims, script, human, rest]: the files the   *)
(* dry run uses by what they say, the others by whether they are valid.    *)
(***************************************************************************)
EXTENDS Editorial

CONSTANTS NoFile, \* a file that is missing
          NoPin   \* a report that names its script without a hash, or not at all

ArtifactStatuses == {"draft", "in_review", "approved", "rejected", "superseded", "locked"}
ClaimRisks == {"low", "medium", "high", "critical"}
ClaimStatuses == {"supported", "partially_supported", "unsupported", "contradicted",
                  "needs_human_review", "removed"}

\* validateSources: what the source registry will ask, and more about their form.
ValidSources(sources) == SourcesRegister(sources)

\* validateResearchPackArtifact, on what the dry run reads.
ValidResearch(research) ==
    research # NoFile /\ research.question /\ ValidSources(research.sources)

\* validateClaimsCoverage: ids need not be unique.
ClaimsCovered(claims) ==
    /\ claims \notin {NoFile, <<>>}
    /\ \A i \in DOMAIN claims :
          /\ claims[i].id # 0 /\ claims[i].text # "" /\ claims[i].sources # {}
          /\ claims[i].risk \in HighRisk => claims[i].located

\* validateClaimsArtifact.
ValidClaims(claims) ==
    /\ ClaimsCovered(claims)
    /\ \A i \in DOMAIN claims : /\ claims[i].kind # "" /\ claims[i].risk \in ClaimRisks
                                /\ claims[i].status \in ClaimStatuses

\* validateEnvelope, on the one field of it that a gate reads.
ValidEnvelope(artifact) == artifact.status \in ArtifactStatuses

\* validateHumanQAArtifact.
ValidHuman(human) ==
    /\ human # NoFile /\ ValidEnvelope(human) /\ human.reviewer # ""
    /\ human.decision \in Approvals \cup {"request_revision", "block"}
    /\ human.decision \in {"request_revision", "block"} => human.changes

\* validateProductionQAArtifact.
ValidProductionQA(report) ==
    /\ report.decision \in {"approved", "request_revision", "block"}
    /\ report.decision = "approved" <=> report.issues = {}

\* ValidateEpisodeDirectoryStrict: of the script it asks only that it exists.
ValidDirectory(dir) ==
    /\ ValidResearch(dir.research) /\ ValidClaims(dir.claims) /\ ValidHuman(dir.human)
    /\ dir.script # NoFile /\ dir.rest

\* What ValidateTransition asks of the report that precedes storyboarding: neither
\* rejected nor superseded, its script there and, if it has a hash, unchanged.
StandingHuman(human) == human # NoFile /\ human.status \notin {"rejected", "superseded"}

\* validateSourceDependency.
SourceUnchanged(human, script) ==
    human # NoFile /\ (human.pin # NoPin => script = human.pin)

\* humanDecisionForTransition.
HumanApproves(human) == human # NoFile /\ human.decision \in Approvals
=============================================================================
