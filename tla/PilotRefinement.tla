-------------------------- MODULE PilotRefinement --------------------------
(***************************************************************************)
(* The pilot pipeline implements ReleaseGate. The phase of a run is read   *)
(* off the step it stands at; what runs produce is the part of the episode *)
(* directory that no import command writes.                                *)
(***************************************************************************)
EXTENDS Pilot

\* The steps between the script gate and the final gate.
Producing == Production \cup {"ensureFinalReq", "finalReq", "ensureFinalResp",
                              "finalResp", "finalGate"}

Closing == {"ensureProdQA", "prodQA", "ensurePublish", "publish"}

\* The phase of a run that stands at label l holding g.
PhaseOf(l, g) ==
    IF l \in {"idle"} \cup Imports THEN "idle"
    ELSE IF l \in Producing \/ (l = "episode" /\ g = "release_blocked") THEN "producing"
    ELSE IF l \in Closing \/ (l = "episode" /\ g = "release_candidate") THEN "closing"
    ELSE "drafting"

Phases == [r \in Runs |-> PhaseOf(pc[r], got[r])]

\* The media and manifests that only a run between the gates makes.
Products == {"shotReqs", "visualMan", "captions", "subMan", "rc", "renderMan", "finalReq"}

Produced == [f \in Products \cap DOMAIN ws |-> ws[f]]

Gate == INSTANCE ReleaseGate WITH
            phase <- Phases,
            produced <- Produced,
            scriptPassed <- ScriptReviewPassed,
            finalPassed <- FinalReviewPassed,
            candidate <- Candidate

\* Every step of the pipeline is a step of the gate or leaves it alone: no media
\* before the script gate, no release candidate without both gates, each passed
\* on a passing review, by the same run in this order, whatever other commands
\* and the operator do meanwhile (Resume, scriptReviewPassed, finalReviewPassed).
ImplementsGate == Gate!Spec
=============================================================================
