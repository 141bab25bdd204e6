------------------------------ MODULE Editorial ------------------------------
(***************************************************************************)
(* The judgements the news pipeline passes on an episode: the claims it    *)
(* extracts from a script, their verification, the QA packet a human is    *)
(* shown, the storyboard and production QA. All of it is computed from     *)
(* files that were read; nothing here keeps state.                         *)
(*                                                                         *)
(* A sentence is [text, words, cites, contains]: `words` are the           *)
(* vocabularies that the classifiers find in it, `cites` the sources it    *)
(* matches, `contains` the texts, its own among them, that are part of it. *)
(* A claim is [id, text, kind, risk, sources, located, status, sensitive,  *)
(* named]; id 0 and text "" are blank ones, a claim is `named` when its id *)
(* has a word of safety or policy in it.                                   *)
(***************************************************************************)
EXTENDS Naturals, Sequences, FiniteSets, SequencesExt, FiniteSetsExt

CONSTANT NoReport \* the answer of a step that fails

HighRisk == {"high", "critical"}
Approvals == {"approve", "approve_with_minor_edits"}

-----------------------------------------------------------------------------
(* Claim extraction.                                                       *)

\* What a sequence has at a set of positions, in order.
Kept(s, positions) ==
    [k \in 1..Cardinality(positions) |->
        s[CHOOSE i \in positions : Cardinality({j \in positions : j <= i}) = k]]

Deduped(script) ==
    Kept(script, {i \in DOMAIN script : \A j \in 1..(i - 1) : script[j].text # script[i].text})

ClassifyType(words) ==
    IF "cta" \in words THEN "cta"
    ELSE IF "opinion" \in words THEN "opinion"
    ELSE IF words \cap {"credential", "security"} # {} THEN "safety"
    ELSE IF "product" \in words THEN "product"
    ELSE IF "history" \in words THEN "historical"
    ELSE "technical"

ClassifyRisk(words) ==
    IF words \cap {"credential", "exploit"} # {} THEN "critical"
    ELSE IF ClassifyType(words) = "safety" \/ words \cap {"security", "incident"} # {} THEN "high"
    ELSE IF ClassifyType(words) \in {"cta", "opinion"} THEN "low"
    ELSE "medium"

Included(words) ==
    /\ "hook" \notin words
    /\ ClassifyType(words) # "cta"
    /\ ClassifyType(words) = "opinion" => "factual" \in words
    /\ "cue" \in words \/ ClassifyType(words) = "safety"

InferSourceIDs(sentence, sources) ==
    {sources[s].id : s \in DOMAIN sources} \cap sentence.cites

\* Extract: ids by position, no evidence locators, and every claim left to a human;
\* empty stands for an error, which a blank script and one without facts are too.
Extract(script, sources) ==
    LET told == Deduped(script)
        kept == Kept(told, {i \in DOMAIN told : Included(told[i].words)})
    IN IF sources = <<>> THEN <<>>
       ELSE [i \in DOMAIN kept |->
                [id |-> i, text |-> kept[i].text, kind |-> ClassifyType(kept[i].words),
                 risk |-> ClassifyRisk(kept[i].words), sources |-> InferSourceIDs(kept[i], sources),
                 located |-> FALSE, status |-> "needs_human_review",
                 sensitive |-> kept[i].words \cap {"credential", "security"} # {},
                 named |-> FALSE]]

-----------------------------------------------------------------------------
(* Sources, council and verification.                                      *)

\* sources.NewRegistry accepts them.
SourcesRegister(sources) ==
    /\ sources # <<>>
    /\ \A i \in DOMAIN sources : sources[i].id # "" /\ sources[i].sound
    /\ \A i, j \in DOMAIN sources : sources[i].id = sources[j].id => i = j

SatisfiesHighRiskAuthority(sources, ids) ==
    \E s \in DOMAIN sources : sources[s].id \in ids /\ sources[s].primary

\* AuditPack: a high-risk claim needs a primary source.
AuditPack(research, claims) ==
    /\ research.question /\ SourcesRegister(research.sources)
    /\ \A i \in DOMAIN claims : claims[i].risk \in HighRisk =>
           SatisfiesHighRiskAuthority(research.sources, claims[i].sources)

\* Aggregate, of one review or more; one block blocks, dissent is kept.
Aggregate(reviews) ==
    LET given(verdicts) == {reviews[i] : i \in {k \in DOMAIN reviews :
                                                    reviews[k].verdict \in verdicts}} IN
    [consensus |-> IF given({"block"}) # {} THEN "blocked"
                   ELSE IF given({"request_revision"}) # {} THEN "revision_required"
                   ELSE IF given({"approve_with_suggestions"}) # {}
                   THEN "approved_with_suggestions"
                   ELSE "approved",
     dissent |-> given({"request_revision", "block"}),
     objections |-> given({"block"})]

VerifyClaimCoverage(claim) ==
    IF claim.id = 0 \/ claim.text = "" \/ claim.sources = {} THEN "unsupported"
    ELSE IF claim.risk \in HighRisk /\ ~claim.located THEN "needs_human_review"
    ELSE IF claim.status \in {"contradicted", "unsupported", "needs_human_review"}
         THEN claim.status
    ELSE "supported"

\* VerifyClaims, of one claim or more. An issue is the place of a claim, 0 that of the
\* council.
VerifyClaims(claims, council) ==
    LET results == [i \in DOMAIN claims |-> [id |-> claims[i].id,
                                             status |-> VerifyClaimCoverage(claims[i])]]
        issues == {i \in DOMAIN claims : claims[i].risk \in HighRisk
                                         /\ results[i].status # "supported"}
                  \cup {i \in {0} : council.consensus \in {"blocked", "revision_required"}}
    IN [results |-> results, issues |-> issues,
        decision |-> IF issues = {} THEN "approved" ELSE "request_revision"]

-----------------------------------------------------------------------------
(* The QA packet for the human.                                            *)

Unresolved == {"unsupported", "contradicted", "needs_human_review", "partially_supported"}

\* claimByID: of claims with the same id the last one counts.
ClaimById(claims, id) == claims[Max({i \in DOMAIN claims : claims[i].id = id})]

Issue(claim, status) ==
    [id |-> claim.id, risk |-> claim.risk, status |-> status, sensitive |-> claim.sensitive]

\* unresolvedClaims: results first, then claims whose id no unresolved result has.
UnresolvedClaims(claims, verification) ==
    LET open == {i \in DOMAIN verification.results :
                    verification.results[i].status \in Unresolved}
        seen == {verification.results[i].id : i \in open}
    IN {Issue(ClaimById(claims, verification.results[i].id), verification.results[i].status)
           : i \in open}
       \cup {Issue(claims[i], claims[i].status)
                : i \in {k \in DOMAIN claims : claims[k].status \in Unresolved
                                               /\ claims[k].id \notin seen}}

\* A bug: leaves the claims' risks to the verification report's decision.
RecommendByVerdict(council, unresolved, blocking, safety) ==
    IF council.consensus = "blocked" \/ safety THEN "block"
    ELSE IF blocking THEN "request_revision"
    ELSE IF council.consensus = "approved_with_suggestions" \/ unresolved # {}
    THEN "approve_with_minor_edits"
    ELSE "approve"

\* recommend; a verification decision other than approved comes with blocking issues.
Recommend(council, unresolved, blocking, safety) ==
    IF \/ council.consensus = "blocked" \/ safety
       \/ \E u \in unresolved : u.risk = "critical" /\ u.status \in {"contradicted", "unsupported"}
    THEN "block"
    ELSE IF \/ council.consensus = "revision_required" \/ blocking
            \/ \E u \in unresolved : u.risk \in HighRisk
    THEN "request_revision"
    ELSE IF council.consensus = "approved_with_suggestions" \/ unresolved # {}
            \/ council.dissent # {}
    THEN "approve_with_minor_edits"
    ELSE "approve"

BlockingIssues(verification, council) ==
    verification.issues # {} \/ council.objections # {} \/ council.consensus = "blocked"

\* Dissent, open claims and blocking issues about safety or policy. A blocking issue of
\* the verification starts with the claim's id; those of reviewers are dissent too.
SafetyPolicyBlockers(claims, verification, council, unresolved) ==
    \/ \E review \in council.dissent : review.sensitive
    \/ \E u \in unresolved : u.sensitive
    \/ \E i \in verification.issues \cap DOMAIN claims : claims[i].named

UnresolvedRisks(packet) ==
    packet.unresolved # {} \/ packet.dissent \/ packet.blocking \/ packet.safety

\* Generate, of one claim or more, for the quality status of a dry run, which passes.
Packet(claims, verification, council) ==
    LET unresolved == UnresolvedClaims(claims, verification)
        blocking == BlockingIssues(verification, council)
        safety == SafetyPolicyBlockers(claims, verification, council, unresolved)
    IN [unresolved |-> unresolved, blocking |-> blocking, safety |-> safety,
        dissent |-> council.dissent # {},
        decision |-> Recommend(council, unresolved, blocking, safety)]

\* A bug: lists the blocking issues only.
ToHumanQAReportDraftShort(packet) ==
    [status |-> "draft", reviewer |-> "human-required", decision |-> packet.decision,
     changes |-> packet.blocking]

\* ToHumanQAReportDraft: required changes from the blocking issues and every risk.
ToHumanQAReportDraft(packet) ==
    [status |-> "draft", reviewer |-> "human-required", decision |-> packet.decision,
     changes |-> packet.blocking \/ UnresolvedRisks(packet)]

-----------------------------------------------------------------------------
(* Storyboard and production QA.                                           *)

\* A scene per sentence, with the claims whose text is a part of it (referencesFor).
Scenes(script, claims) ==
    LET told == Deduped(script) IN
    [k \in DOMAIN told |->
        [text |-> told[k].text,
         claims |-> {claims[i].id : i \in {j \in DOMAIN claims :
                         /\ claims[j].id # 0 /\ claims[j].text # ""
                         /\ claims[j].text \in told[k].contains}}]]

TechnicalClaimsCovered(claims, scenes) ==
    \A i \in DOMAIN claims : claims[i].id # 0 /\ claims[i].kind = "technical" =>
        \E k \in DOMAIN scenes : claims[i].id \in scenes[k].claims

\* storyboard.Generate: nothing without a recommendation that approves, nothing for a
\* script without narration, and no technical claim left untold.
GenerateStoryboard(script, claims, decision) ==
    LET scenes == Scenes(script, claims) IN
    IF decision \in Approvals /\ script # <<>> /\ TechnicalClaimsCovered(claims, scenes)
    THEN scenes ELSE NoReport

CheckVerification(claims, verification) ==
    {x \in {"unresolved high-risk claim"} :
        \E i \in DOMAIN verification.results :
            /\ verification.results[i].status \in Unresolved
            /\ ClaimById(claims, verification.results[i].id).risk \in HighRisk}
    \cup {x \in {"verification decision"} : verification.decision # "approved"}

CheckHumanQA(decision) == {x \in {"human QA decision"} : decision \notin Approvals}

CheckPublishIntent(visibility) == {x \in {"direct public publish"} : visibility = "public"}

HardBlockers == {"human QA decision", "direct public publish"}

\* productionqa.Run on a local preview, whose manifests are complete and agree.
ProductionQA(claims, verification, decision, visibility) ==
    LET issues == CheckVerification(claims, verification) \cup CheckHumanQA(decision)
                  \cup CheckPublishIntent(visibility)
    IN [issues |-> issues,
        decision |-> CASE issues = {} -> "approved"
                       [] issues \cap HardBlockers # {} -> "block"
                       [] OTHER -> "request_revision"]
=============================================================================
