--------------------------- MODULE NewsroomProofs ---------------------------
(***************************************************************************)
(* Theorems about the sandbox and its callers, for any number of both, and *)
(* about a dry run, for any files and any edits.                           *)
(***************************************************************************)
EXTENDS MCNewsroom, EpisodeLifecycleProofs, EpisodeStateMachineProofs,
        FiniteSetTheorems, FunctionTheorems, TLAPS

\* What a call that was checked may save: the approval it was checked against stays.
Fit(entry, e, approvals) ==
    /\ entry.visibility \in {Private, Scheduled}
    /\ entry.visibility = Scheduled => e \in approvals

PublishInv ==
    /\ calls \in [Callers -> 0..MaxCalls]
    /\ DOMAIN calling = Callers /\ DOMAIN answered = Callers /\ DOMAIN drafts = EpisodeIds
    /\ \A c \in Callers :
          /\ calling[c] # NoDraft =>
                /\ calling[c] \in [episode : EpisodeIds, visibility : {Private, Scheduled}]
                /\ Fit(calling[c], calling[c].episode, signed)
          /\ answered[c] # NoDraft => answered[c].episode \in EpisodeIds
    /\ \A e \in EpisodeIds : drafts[e] # NoDraft => Fit(drafts[e], e, signed)
    /\ AnsweredStored

LEMMA PublishStarts == PublishInit => PublishInv
BY PublishAssumption DEF PublishInit, PublishInv, AnsweredStored

\* Neither adapter call passes an unsigned schedule or anything public.
LEMMA Verdicts ==
    ASSUME NEW e, NEW titled \in BOOLEAN, NEW v, NEW approved \in BOOLEAN,
           NEW schedule \in BOOLEAN, NEW pack, NEW verdict,
           pack = [episode |-> e, titled |-> titled, visibility |-> v, approved |-> approved],
           verdict = IF schedule THEN SandboxSchedule(pack) ELSE SandboxUpload(pack)
    PROVE  verdict = NoDraft \/ verdict = Private \/ (verdict = Scheduled /\ approved)
BY DEF SandboxSchedule, SandboxUpload

LEMMA SignKeeps == ASSUME PublishInv, SignRelease PROVE PublishInv'
<1>1. PICK e \in EpisodeIds : signed' = signed \cup {e}
                              /\ UNCHANGED <<drafts, calling, answered, calls>>
  BY DEF SignRelease
<1>2. \A entry, x : Fit(entry, x, signed) => Fit(entry, x, signed')
  BY <1>1 DEF Fit
<1> QED BY <1>1 DEF PublishInv, Fit, AnsweredStored

LEMMA BeginKeeps == ASSUME PublishInv, BeginCall PROVE PublishInv'
<1>1. PICK c \in Callers, e \in EpisodeIds, titled \in BOOLEAN, v \in Visibilities,
           approved \in BOOLEAN, schedule \in BOOLEAN :
        LET pack == [episode |-> e, titled |-> titled, visibility |-> v, approved |-> approved]
            verdict == IF schedule THEN SandboxSchedule(pack) ELSE SandboxUpload(pack)
        IN /\ calling[c] = NoDraft /\ calls[c] < MaxCalls
           /\ approved => e \in signed
           /\ calls' = [calls EXCEPT ![c] = @ + 1]
           /\ IF verdict = NoDraft
              THEN answered' = [answered EXCEPT ![c] = NoDraft] /\ UNCHANGED calling
              ELSE /\ calling' = [calling EXCEPT ![c] = [episode |-> e, visibility |-> verdict]]
                   /\ UNCHANGED answered
           /\ UNCHANGED <<drafts, signed>>
  BY DEF BeginCall
<1>p. PICK pack :
        pack = [episode |-> e, titled |-> titled, visibility |-> v, approved |-> approved]
  OBVIOUS
<1>2. PICK verdict : verdict = IF schedule THEN SandboxSchedule(pack) ELSE SandboxUpload(pack)
  OBVIOUS
<1>3. verdict = NoDraft \/ verdict = Private \/ (verdict = Scheduled /\ approved)
  BY <1>p, <1>2, Verdicts
<1>4. /\ calls[c] < MaxCalls /\ (approved => e \in signed)
      /\ calls' = [calls EXCEPT ![c] = @ + 1] /\ UNCHANGED <<drafts, signed>>
      /\ IF verdict = NoDraft
         THEN answered' = [answered EXCEPT ![c] = NoDraft] /\ UNCHANGED calling
         ELSE /\ calling' = [calling EXCEPT ![c] = [episode |-> e, visibility |-> verdict]]
              /\ UNCHANGED answered
  BY <1>1, <1>p, <1>2
<1>5. calls' \in [Callers -> 0..MaxCalls]
  BY <1>4, PublishAssumption DEF PublishInv
<1>6. CASE verdict = NoDraft
  BY <1>4, <1>5, <1>6 DEF PublishInv, Fit, AnsweredStored
<1>7. CASE verdict # NoDraft
  <2>1. /\ calling' = [calling EXCEPT ![c] = [episode |-> e, visibility |-> verdict]]
        /\ answered' = answered
    BY <1>4, <1>7
  <2>2. /\ verdict \in {Private, Scheduled} /\ (verdict = Scheduled => e \in signed')
    BY <1>3, <1>4, <1>7 DEF Private, Scheduled
  <2>3. Fit([episode |-> e, visibility |-> verdict], e, signed')
    BY <2>2 DEF Fit
  <2>4. \A b \in Callers : calling'[b] # NoDraft =>
            /\ calling'[b] \in [episode : EpisodeIds, visibility : {Private, Scheduled}]
            /\ Fit(calling'[b], calling'[b].episode, signed')
    <3>1. calling'[c] = [episode |-> e, visibility |-> verdict]
      BY <2>1 DEF PublishInv
    <3>2. \A b \in Callers \ {c} : calling'[b] = calling[b]
      BY <2>1 DEF PublishInv
    <3> QED BY <1>4, <2>2, <3>1, <3>2 DEF PublishInv, Fit
  <2>5. DOMAIN calling' = Callers
    BY <2>1 DEF PublishInv
  <2> QED BY <1>4, <1>5, <2>1, <2>4, <2>5 DEF PublishInv, Fit, AnsweredStored
<1> QED BY <1>6, <1>7

LEMMA SaveKeeps == ASSUME PublishInv, NEW c \in Callers, SaveDraft(c) PROVE PublishInv'
<1>1. PICK e : e = calling[c].episode
  OBVIOUS
<1>2. PICK v : v = calling[c].visibility
  OBVIOUS
<1>3. /\ calling[c] # NoDraft /\ e \in EpisodeIds /\ v \in {Private, Scheduled}
      /\ v = Scheduled => e \in signed
      /\ calling[c] \in [episode : EpisodeIds, visibility : {Private, Scheduled}]
  BY <1>1, <1>2 DEF SaveDraft, PublishInv, Fit
<1>4. /\ drafts' = [drafts EXCEPT ![e] = [visibility |-> v, by |-> c, call |-> calls[c]]]
      /\ answered' = [answered EXCEPT ![c] = calling[c]]
      /\ calling' = [calling EXCEPT ![c] = NoDraft] /\ UNCHANGED <<signed, calls>>
  BY <1>1, <1>2 DEF SaveDraft
<1>5. /\ drafts'[e] = [visibility |-> v, by |-> c, call |-> calls[c]]
      /\ \A x \in EpisodeIds \ {e} : drafts'[x] = drafts[x]
      /\ answered'[c] = calling[c] /\ \A b \in Callers \ {c} : answered'[b] = answered[b]
      /\ calling'[c] = NoDraft /\ \A b \in Callers \ {c} : calling'[b] = calling[b]
      /\ DOMAIN calling' = Callers /\ DOMAIN answered' = Callers /\ DOMAIN drafts' = EpisodeIds
  BY <1>3, <1>4 DEF PublishInv
<1>6. drafts'[e] # NoDraft /\ drafts'[e].by = c /\ drafts'[e].visibility = v
  <2>1. calls[c] \in 0..MaxCalls
    BY DEF PublishInv
  <2>2. [visibility |-> v, by |-> c, call |-> calls[c]] \in
            [visibility : {Private, Scheduled}, by : Callers, call : 0..MaxCalls]
    BY <1>3, <2>1
  <2> QED BY <1>5, <2>2, PublishAssumption
<1>7. AnsweredStored'
  <2>1. ASSUME NEW b \in Callers, answered'[b] # NoDraft, b # c
        PROVE  /\ drafts'[answered'[b].episode] # NoDraft
               /\ drafts'[answered'[b].episode].by = b =>
                     drafts'[answered'[b].episode].visibility = answered'[b].visibility
    <3>1. /\ answered'[b] = answered[b] /\ answered[b].episode \in EpisodeIds
          /\ drafts[answered[b].episode] # NoDraft
          /\ drafts[answered[b].episode].by = b =>
                drafts[answered[b].episode].visibility = answered[b].visibility
      BY <1>5, <2>1 DEF PublishInv, AnsweredStored
    <3> QED BY <1>5, <1>6, <2>1, <3>1
  <2>2. /\ answered'[c].episode = e /\ answered'[c].visibility = v
    BY <1>1, <1>2, <1>5
  <2> QED BY <1>6, <2>1, <2>2 DEF AnsweredStored
<1>8. \A x \in EpisodeIds : drafts'[x] # NoDraft => Fit(drafts'[x], x, signed')
  BY <1>3, <1>4, <1>5, <1>6 DEF PublishInv, Fit
<1>9. \A b \in Callers :
          /\ calling'[b] # NoDraft =>
                /\ calling'[b] \in [episode : EpisodeIds, visibility : {Private, Scheduled}]
                /\ Fit(calling'[b], calling'[b].episode, signed')
          /\ answered'[b] # NoDraft => answered'[b].episode \in EpisodeIds
  BY <1>1, <1>3, <1>4, <1>5 DEF PublishInv, Fit
<1> QED BY <1>4, <1>5, <1>7, <1>8, <1>9 DEF PublishInv, Fit

LEMMA PublishingKeeps == PublishInv /\ [PublishNext]_publishVars => PublishInv'
<1> SUFFICES ASSUME PublishInv, [PublishNext]_publishVars PROVE PublishInv'
  OBVIOUS
<1>1. ASSUME UNCHANGED publishVars PROVE PublishInv'
  BY <1>1 DEF publishVars, PublishInv, Fit, AnsweredStored
<1> QED BY <1>1, SignKeeps, BeginKeeps, SaveKeeps DEF PublishNext

\* However many callers share the sandbox and however their calls interleave, no draft is
\* public, and none is scheduled without the approval of the episode's release.
THEOREM ScheduledCorrect == PublishSpec => []ScheduledSigned
<1>1. PublishInv => ScheduledSigned
  BY DEF PublishInv, Fit, ScheduledSigned
<1> QED BY <1>1, PublishStarts, PublishingKeeps, PTL DEF PublishSpec

\* A caller reads back what it was answered until another caller publishes the episode.
THEOREM AnsweredCorrect == PublishSpec => []AnsweredStored
<1>1. PublishInv => AnsweredStored
  BY DEF PublishInv
<1> QED BY <1>1, PublishStarts, PublishingKeeps, PTL DEF PublishSpec

-----------------------------------------------------------------------------
(* Packs, their manifests and the adapters.                                *)

\* The sandbox accepts what the dry run does, but for titles and uploads of scheduled packs.
LEMMA AdaptersAlike ==
    ASSUME NEW episode, NEW titled \in BOOLEAN, NEW visibility \in Visibilities,
           NEW approved \in BOOLEAN, NEW pack,
           pack = [episode |-> episode, titled |-> titled, visibility |-> visibility,
                   approved |-> approved]
    PROVE  /\ SandboxUpload(pack) # NoDraft => DryRunUpload(pack) = SandboxUpload(pack)
           /\ SandboxSchedule(pack) # NoDraft => DryRunSchedule(pack) = SandboxSchedule(pack)
           /\ DryRunUpload(pack) # SandboxUpload(pack) =>
                  ~pack.titled \/ (pack.visibility = Scheduled /\ pack.approved)
           /\ DryRunSchedule(pack) # SandboxSchedule(pack) => ~pack.titled /\ pack.approved
<1>1. /\ pack.visibility = visibility /\ pack.approved = approved /\ pack.titled = titled
      /\ [pack EXCEPT !.visibility = Private].visibility = Private
      /\ [pack EXCEPT !.visibility = Private].titled = titled
  OBVIOUS
<1>2. visibility = "" \/ visibility = Private \/ visibility = Scheduled
      \/ visibility \in {Public, "unlisted"}
  BY DEF Visibilities
<1>3. DryRunSchedule(pack) = IF approved /\ visibility = Scheduled THEN Scheduled ELSE NoDraft
  BY <1>1 DEF DryRunSchedule, DryRunValidates
<1>4. SandboxSchedule(pack) = IF titled /\ approved /\ visibility = Scheduled
                              THEN Scheduled ELSE NoDraft
  BY <1>1 DEF SandboxSchedule, SandboxValidates
<1>5. DryRunUpload(pack) = IF visibility \in {"", Private} THEN Private
                           ELSE IF visibility = Scheduled /\ approved THEN Scheduled
                           ELSE NoDraft
  BY <1>1, <1>2 DEF DryRunUpload, DryRunValidates, Private, Scheduled, Public
<1>6. SandboxUpload(pack) = IF titled /\ visibility \in {"", Private} THEN Private ELSE NoDraft
  <2>1. CASE visibility = ""
    BY <1>1, <2>1 DEF SandboxUpload, SandboxValidates, Private, Scheduled
  <2>2. CASE visibility # ""
    BY <1>1, <2>2 DEF SandboxUpload, SandboxValidates, Private, Scheduled
  <2> QED BY <2>1, <2>2
<1> QED BY <1>1, <1>3, <1>4, <1>5, <1>6, PackAssumption DEF Private, Scheduled

LEMMA AgreeAlways == AdaptersAgree
<1>1. DryRunPredicts
  <2> SUFFICES ASSUME NEW pack \in Requested
               PROVE  /\ SandboxUpload(pack) # NoDraft => DryRunUpload(pack) = SandboxUpload(pack)
                      /\ SandboxSchedule(pack) # NoDraft =>
                             DryRunSchedule(pack) = SandboxSchedule(pack)
                      /\ DryRunUpload(pack) # SandboxUpload(pack) =>
                             ~pack.titled \/ (pack.visibility = Scheduled /\ pack.approved)
                      /\ DryRunSchedule(pack) # SandboxSchedule(pack) =>
                             ~pack.titled /\ pack.episode \in signed
    BY Zenon DEF DryRunPredicts
  <2>1. /\ pack \in [episode : EpisodeIds, titled : BOOLEAN, visibility : Visibilities,
                     approved : BOOLEAN]
        /\ pack.approved => pack.episode \in signed
    BY DEF Requested
  <2>2. /\ pack = [episode |-> pack.episode, titled |-> pack.titled,
                   visibility |-> pack.visibility, approved |-> pack.approved]
        /\ pack.visibility \in Visibilities /\ pack.approved \in BOOLEAN
        /\ pack.titled \in BOOLEAN
    BY <2>1
  <2> QED BY <2>1, <2>2, AdaptersAlike
<1>2. PackedManifests
  <2> SUFFICES ASSUME NEW asked \in Requested, NEW pack, pack # NoDraft,
                      pack = GeneratePack(asked.episode, asked.titled, asked.visibility,
                                          asked.approved)
               PROVE  /\ DryRunSchedule(pack) = SandboxSchedule(pack)
                      /\ \A production \in Productions, time \in Times :
                           LET manifest == GenerateReleasePack(production, pack, time) IN
                           manifest # NoDraft =>
                               IF ManifestValid(manifest)
                               THEN manifest.visibility # Private => asked.episode \in signed
                               ELSE /\ manifest.visibility = Scheduled
                                    /\ SandboxSchedule(pack) = NoDraft \/ time = ""
    BY Zenon DEF PackedManifests
  <2>1. /\ asked.visibility \in Visibilities /\ asked.approved \in BOOLEAN
        /\ asked.approved => asked.episode \in signed
    BY DEF Requested
  <2> DEFINE v == IF asked.visibility = "" THEN Private ELSE asked.visibility
  <2>2. /\ v \in {Private, Scheduled, Public} /\ (v = Public => asked.approved)
        /\ pack = [episode |-> asked.episode, titled |-> TRUE, visibility |-> v,
                   approved |-> asked.approved]
    BY DEF GeneratePack
  <2> HIDE DEF v
  <2>3. pack.visibility = v /\ pack.approved = asked.approved /\ pack.titled
    BY <2>2
  <2>4. DryRunSchedule(pack) = SandboxSchedule(pack)
    BY <2>3 DEF DryRunSchedule, SandboxSchedule, DryRunValidates, SandboxValidates
  <2>5. ASSUME NEW production \in Productions, NEW time \in Times, NEW manifest,
               manifest = GenerateReleasePack(production, pack, time), manifest # NoDraft
        PROVE  IF ManifestValid(manifest)
               THEN manifest.visibility # Private => asked.episode \in signed
               ELSE /\ manifest.visibility = Scheduled
                    /\ SandboxSchedule(pack) = NoDraft \/ time = ""
    <3>1. manifest = [visibility |-> pack.visibility, scheduledAt |-> time,
                      approved |-> pack.approved]
      BY <2>5 DEF GenerateReleasePack
    <3>2. /\ manifest.visibility = v /\ manifest.approved = asked.approved
          /\ manifest.scheduledAt = time
      BY <2>3, <3>1
    <3>3. v = Private => ManifestValid(manifest)
      BY <3>2 DEF ManifestValid, ManifestSafe, Private, Scheduled, Public
    <3>4. v = Public => ManifestValid(manifest)
      BY <2>2, <3>2 DEF ManifestValid, ManifestSafe, Private, Scheduled, Public
    <3>5. v = Scheduled => (ManifestValid(manifest) <=> asked.approved /\ time # "")
      BY <3>2 DEF ManifestValid, ManifestSafe, Private, Scheduled, Public
    <3>6. ~asked.approved => SandboxSchedule(pack) = NoDraft
      BY <2>3 DEF SandboxSchedule
    <3>7. CASE v = Private
      BY <3>2, <3>3, <3>7
    <3>8. CASE v = Public
      BY <2>1, <2>2, <3>2, <3>4, <3>8
    <3>9. CASE v = Scheduled
      BY <2>1, <3>2, <3>5, <3>6, <3>9
    <3> QED BY <2>2, <3>7, <3>8, <3>9
  <2> QED BY <2>4, <2>5, Zenon
<1> QED BY <1>1, <1>2 DEF AdaptersAgree

\* The sandbox accepts nothing the dry run refuses; the dry run accepts in addition packs
\* without a title and uploads of approved scheduled packs only, schedules only signed
\* episodes, and both schedule the same generated packs (ValidateMetadata, GeneratePack).
THEOREM AdaptersCorrect == PublishSpec => []AdaptersAgree
<1> QED BY AgreeAlways, PTL
-----------------------------------------------------------------------------
(* The judgements of a walk.                                               *)

\* What the recommendation says of the claims it lets pass, and when changes are due.
LEMMA Recommended ==
    ASSUME NEW council, NEW unresolved, NEW blocking, NEW safety, NEW advice,
           advice = Recommend(council, unresolved, blocking, safety)
    PROVE  /\ advice \in Approvals \cup {"request_revision", "block"}
           /\ advice \in Approvals =>
                 /\ ~blocking /\ ~safety /\ council.consensus \notin {"blocked", "revision_required"}
                 /\ \A u \in unresolved : u.risk \notin HighRisk
           /\ advice \in {"request_revision", "block"} =>
                 \/ blocking \/ safety \/ unresolved # {}
                 \/ council.consensus \in {"blocked", "revision_required"}
BY DEF Recommend, Approvals, HighRisk

LEMMA BlockWins ==
    ASSUME NEW list, NEW council
    PROVE  LET verification == VerifyClaims(list, council) IN
           /\ council.consensus \in {"blocked", "revision_required"} =>
                  BlockingIssues(verification, council)
           /\ ~BlockingIssues(verification, council) =>
                  verification.issues = {} /\ verification.decision = "approved"
BY DEF VerifyClaims, BlockingIssues

LEMMA Coverage ==
    ASSUME NEW claim
    PROVE  /\ VerifyClaimCoverage(claim) \in {"supported", "unsupported", "needs_human_review",
                                              "contradicted"}
           /\ VerifyClaimCoverage(claim) = "supported" =>
                 /\ claim.id # 0 /\ claim.text # "" /\ claim.sources # {}
                 /\ claim.risk \in HighRisk => claim.located
                 /\ claim.status \notin {"contradicted", "unsupported", "needs_human_review"}
           /\ claim.status = "needs_human_review" => VerifyClaimCoverage(claim) # "supported"
           /\ VerifyClaimCoverage(claim) # "supported" => VerifyClaimCoverage(claim) \in Unresolved
BY DEF VerifyClaimCoverage, Unresolved

LEMMA Verified ==
    ASSUME NEW list, NEW council
    PROVE  LET verification == VerifyClaims(list, council) IN
           /\ DOMAIN verification.results = DOMAIN list
           /\ \A i \in DOMAIN list : verification.results[i].id = list[i].id
                     /\ verification.results[i].status = VerifyClaimCoverage(list[i])
           /\ verification.issues = {} =>
                 \A i \in DOMAIN list : list[i].risk \in HighRisk =>
                     VerifyClaimCoverage(list[i]) = "supported"
           /\ verification.decision \in {"approved", "request_revision"}
           /\ verification.decision = "approved" <=> verification.issues = {}
BY DEF VerifyClaims

\* Every open result is among the unresolved claims, with the claim of its id, and so is
\* every open claim whose id no open result has.
LEMMA Listed ==
    ASSUME NEW list, NEW council
    PROVE  LET verification == VerifyClaims(list, council)
               unresolved == UnresolvedClaims(list, verification) IN
           /\ \A i \in DOMAIN list : VerifyClaimCoverage(list[i]) \in Unresolved =>
                 \E u \in unresolved : /\ u.id = ClaimById(list, list[i].id).id
                                       /\ u.risk = ClaimById(list, list[i].id).risk
           /\ \A i \in DOMAIN list : list[i].status \in Unresolved =>
                 \/ \E u \in unresolved : u.risk = list[i].risk
                 \/ \E j \in DOMAIN list : /\ VerifyClaimCoverage(list[j]) \in Unresolved
                                           /\ list[j].id = list[i].id
<1> DEFINE verification == VerifyClaims(list, council)
           unresolved == UnresolvedClaims(list, verification)
           open == {i \in DOMAIN verification.results :
                       verification.results[i].status \in Unresolved}
           seen == {verification.results[i].id : i \in open}
<1>1. /\ DOMAIN verification.results = DOMAIN list
      /\ \A i \in DOMAIN list : verification.results[i].id = list[i].id
                /\ verification.results[i].status = VerifyClaimCoverage(list[i])
  BY Verified
<1>2. unresolved =
        {Issue(ClaimById(list, verification.results[i].id), verification.results[i].status)
           : i \in open}
        \cup {Issue(list[i], list[i].status)
                : i \in {k \in DOMAIN list : list[k].status \in Unresolved
                                             /\ list[k].id \notin seen}}
  BY DEF UnresolvedClaims
<1> HIDE DEF verification, unresolved
<1>3. ASSUME NEW i \in DOMAIN list, VerifyClaimCoverage(list[i]) \in Unresolved
      PROVE  \E u \in unresolved : /\ u.id = ClaimById(list, list[i].id).id
                                   /\ u.risk = ClaimById(list, list[i].id).risk
  <2> DEFINE u == Issue(ClaimById(list, verification.results[i].id),
                        verification.results[i].status)
  <2>1. i \in open
    BY <1>1, <1>3
  <2>2. u \in unresolved
    BY <1>2, <2>1
  <2>3. u.id = ClaimById(list, list[i].id).id /\ u.risk = ClaimById(list, list[i].id).risk
    BY <1>1 DEF Issue
  <2> QED BY <2>2, <2>3
<1>4. ASSUME NEW i \in DOMAIN list, list[i].status \in Unresolved
      PROVE  \/ \E u \in unresolved : u.risk = list[i].risk
             \/ \E j \in DOMAIN list : /\ VerifyClaimCoverage(list[j]) \in Unresolved
                                       /\ list[j].id = list[i].id
  <2>1. CASE list[i].id \in seen
    BY <1>1, <2>1
  <2>2. CASE list[i].id \notin seen
    <3>1. Issue(list[i], list[i].status) \in unresolved
      BY <1>2, <1>4, <2>2
    <3>2. Issue(list[i], list[i].status).risk = list[i].risk
      BY DEF Issue
    <3> QED BY <3>1, <3>2
  <2> QED BY <2>1, <2>2
<1> QED BY <1>3, <1>4 DEF verification, unresolved

\* What a packet that recommends approval says of the claims.
LEMMA PacketSound ==
    ASSUME NEW list, NEW council, NEW verification, verification = VerifyClaims(list, council),
           Packet(list, verification, council).decision \in Approvals
    PROVE  /\ verification.issues = {} /\ verification.decision = "approved"
           /\ \A u \in UnresolvedClaims(list, verification) : u.risk \notin HighRisk
<1> DEFINE unresolved == UnresolvedClaims(list, verification)
           blocking == BlockingIssues(verification, council)
           safety == SafetyPolicyBlockers(list, verification, council, unresolved)
<1>1. Packet(list, verification, council).decision = Recommend(council, unresolved, blocking, safety)
  BY DEF Packet
<1> HIDE DEF unresolved, blocking, safety
<1>2. ~blocking /\ \A u \in unresolved : u.risk \notin HighRisk
  BY <1>1, Recommended
<1> QED BY <1>2, BlockWins DEF unresolved, blocking

LEMMA SoundClaims ==
    ASSUME NEW list, NEW council, NEW verification, verification = VerifyClaims(list, council),
           Packet(list, verification, council).decision \in Approvals,
           NEW i \in DOMAIN list, list[i].risk \in HighRisk
    PROVE  /\ list[i].status \notin {"unsupported", "contradicted", "needs_human_review"}
           /\ list[i].sources # {} /\ list[i].located
           /\ list[i].status = "partially_supported" =>
                  \E j \in DOMAIN list \ {i} : list[j].id = list[i].id
<1>1. /\ verification.issues = {}
      /\ \A u \in UnresolvedClaims(list, verification) : u.risk \notin HighRisk
  BY PacketSound
<1>2. VerifyClaimCoverage(list[i]) = "supported"
  BY <1>1, Verified
<1>3. /\ list[i].status \notin {"unsupported", "contradicted", "needs_human_review"}
      /\ list[i].sources # {} /\ list[i].located
  BY <1>2, Coverage
<1>4. ASSUME list[i].status = "partially_supported"
      PROVE  \E j \in DOMAIN list \ {i} : list[j].id = list[i].id
  <2>1. list[i].status \in Unresolved
    BY <1>4 DEF Unresolved
  <2>2. ~ \E u \in UnresolvedClaims(list, verification) : u.risk = list[i].risk
    BY <1>1
  <2>3. PICK j \in DOMAIN list : /\ VerifyClaimCoverage(list[j]) \in Unresolved
                                 /\ list[j].id = list[i].id
    BY <2>1, <2>2, Listed
  <2>4. j # i
    BY <1>2, <2>3 DEF Unresolved
  <2> QED BY <2>3, <2>4
<1> QED BY <1>3, <1>4

\* Production QA finds nothing in what such a packet lets through.
LEMMA QASilent ==
    ASSUME NEW list, NEW council, NEW verification, verification = VerifyClaims(list, council),
           NEW advice, advice = Packet(list, verification, council).decision,
           advice \in Approvals
    PROVE  ProductionQA(list, verification, advice, Private).decision = "approved"
<1>1. /\ verification.decision = "approved"
      /\ \A u \in UnresolvedClaims(list, verification) : u.risk \notin HighRisk
  BY PacketSound
<1>2. \A i \in DOMAIN verification.results : verification.results[i].status \in Unresolved =>
          ClaimById(list, verification.results[i].id).risk \notin HighRisk
  <2> SUFFICES ASSUME NEW i \in DOMAIN verification.results,
                      verification.results[i].status \in Unresolved
               PROVE  ClaimById(list, verification.results[i].id).risk \notin HighRisk
    OBVIOUS
  <2>1. /\ i \in DOMAIN list /\ verification.results[i].id = list[i].id
        /\ verification.results[i].status = VerifyClaimCoverage(list[i])
    BY Verified
  <2>2. PICK u \in UnresolvedClaims(list, verification) :
             u.risk = ClaimById(list, list[i].id).risk
    BY <2>1, Listed
  <2> QED BY <1>1, <2>1, <2>2
<1>3. CheckVerification(list, verification) = {}
  BY <1>1, <1>2 DEF CheckVerification
<1>4. CheckHumanQA(advice) = {} /\ CheckPublishIntent(Private) = {}
  BY DEF CheckHumanQA, CheckPublishIntent, Private
<1> QED BY <1>3, <1>4 DEF ProductionQA

LEMMA QAForm ==
    ASSUME NEW list, NEW verification, NEW advice, NEW visibility
    PROVE  ValidProductionQA(ProductionQA(list, verification, advice, visibility))
<1> DEFINE issues == CheckVerification(list, verification) \cup CheckHumanQA(advice)
                     \cup CheckPublishIntent(visibility)
           report == ProductionQA(list, verification, advice, visibility)
<1>1. /\ report.issues = issues
      /\ report.decision = CASE issues = {} -> "approved"
                             [] issues \cap HardBlockers # {} -> "block"
                             [] OTHER -> "request_revision"
  BY DEF ProductionQA
<1> HIDE DEF issues, report
<1>2. /\ issues = {} => report.decision = "approved"
      /\ issues # {} => report.decision \in {"block", "request_revision"}
  BY <1>1
<1> QED BY <1>1, <1>2 DEF ValidProductionQA, report

\* The draft for the human is a valid report, whatever it recommends.
LEMMA DraftForm ==
    ASSUME NEW list, NEW council, NEW verification, verification = VerifyClaims(list, council)
    PROVE  ValidHuman(ToHumanQAReportDraft(Packet(list, verification, council)))
<1> DEFINE unresolved == UnresolvedClaims(list, verification)
           blocking == BlockingIssues(verification, council)
           safety == SafetyPolicyBlockers(list, verification, council, unresolved)
           packet == Packet(list, verification, council)
           draft == ToHumanQAReportDraft(packet)
<1>1. /\ packet.decision = Recommend(council, unresolved, blocking, safety)
      /\ packet.unresolved = unresolved /\ packet.blocking = blocking /\ packet.safety = safety
  BY DEF Packet
<1>b. blocking \in BOOLEAN /\ safety \in BOOLEAN
  BY DEF BlockingIssues, SafetyPolicyBlockers
<1>2. council.consensus \in {"blocked", "revision_required"} => blocking
  BY BlockWins
<1> HIDE DEF unresolved, blocking, safety, packet
<1>3. /\ packet.decision \in Approvals \cup {"request_revision", "block"}
      /\ packet.decision \in {"request_revision", "block"} =>
            blocking \/ safety \/ unresolved # {}
  BY <1>1, <1>2, Recommended
<1>4. draft = [status |-> "draft", reviewer |-> "human-required", decision |-> packet.decision,
               changes |-> packet.blocking \/ UnresolvedRisks(packet)]
  BY DEF ToHumanQAReportDraft
<1>5. packet.decision \in {"request_revision", "block"} => draft.changes
  <2> DEFINE risks == packet.blocking \/ UnresolvedRisks(packet)
  <2>0. draft.changes = risks
    <3> HIDE DEF risks, draft
    <3>1. draft = [status |-> "draft", reviewer |-> "human-required",
                   decision |-> packet.decision, changes |-> risks]
      BY <1>4 DEF risks
    <3> QED BY <3>1
  <2>1. draft.changes <=> (packet.blocking \/ UnresolvedRisks(packet))
    BY <2>0, Zenon DEF risks
  <2>2. packet.blocking \/ packet.safety \/ packet.unresolved # {} =>
            packet.blocking \/ UnresolvedRisks(packet)
    BY DEF UnresolvedRisks
  <2>3. blocking \/ safety \/ unresolved # {} =>
            packet.blocking \/ packet.safety \/ packet.unresolved # {}
    BY <1>1
  <2> QED BY <1>3, <2>1, <2>2, <2>3
<1>6. draft.changes \in BOOLEAN
  BY <1>4
<1>7. draft # NoFile
  <2>1. ASSUME NEW c \in BOOLEAN,
               NEW d \in Approvals \cup {"request_revision", "block"}
        PROVE  [status |-> "draft", reviewer |-> "human-required", decision |-> d,
                changes |-> c] # NoFile
    BY WalkAssumption
  <2>2. (packet.blocking \/ UnresolvedRisks(packet)) \in BOOLEAN
    OBVIOUS
  <2> HIDE DEF draft
  <2> QED BY <1>3, <1>4, <2>1, <2>2
<1> QED BY <1>3, <1>4, <1>5, <1>7 DEF ValidHuman, ValidEnvelope, ArtifactStatuses, packet

-----------------------------------------------------------------------------
(* What the walk has judged, extracted and asked.                          *)

\* A recommendation that approves has a council that did not ask for a revision.
LEMMA RevisionStops ==
    ASSUME NEW list, NEW council, NEW verification,
           council.consensus = "revision_required"
    PROVE  Packet(list, verification, council).decision \notin Approvals
<1> DEFINE packet == Packet(list, verification, council)
<1>1. packet.decision = Recommend(council, packet.unresolved, packet.blocking, packet.safety)
  BY DEF Packet
<1> HIDE DEF packet
<1> QED BY <1>1, Recommended DEF packet

\* The local council, whatever its registry, asks for a revision or finds no reviewer.
LEMMA LocalCouncil ==
    ASSUME NEW reg, LocalReviews(reg) # <<>>
    PROVE  Aggregate(LocalReviews(reg)).consensus = "revision_required"
<1> DEFINE reviews == LocalReviews(reg)
<1>1. /\ DOMAIN CouncilTasks = 1..3
      /\ CouncilTasks[1].capability = "technical_verification"
      /\ CouncilTasks[2].capability = "editorial_review"
      /\ CouncilTasks[3].capability = "safety_review"
  BY DEF CouncilTasks, ReviewTask
<1>2. /\ DOMAIN reviews = DOMAIN CouncilTasks
      /\ \A i \in DOMAIN CouncilTasks :
            reviews[i].verdict = MockVerdict(CouncilTasks[i].capability)
  BY DEF LocalReviews
<1> HIDE DEF reviews
<1>3. /\ DOMAIN reviews = 1..3
      /\ reviews[1].verdict = "request_revision"
      /\ \A i \in 1..3 : reviews[i].verdict # "block"
  <2>1. MockVerdict("technical_verification") = "request_revision"
    BY DEF MockVerdict
  <2>2. /\ MockVerdict("editorial_review") = "approve_with_suggestions"
        /\ MockVerdict("safety_review") = "approve_with_suggestions"
    BY DEF MockVerdict
  <2>3. \A i \in 1..3 : i = 1 \/ i = 2 \/ i = 3
    OBVIOUS
  <2>4. /\ reviews[1].verdict = "request_revision"
        /\ reviews[2].verdict = "approve_with_suggestions"
        /\ reviews[3].verdict = "approve_with_suggestions"
    BY <1>1, <1>2, <2>1, <2>2
  <2> QED BY <1>1, <1>2, <2>3, <2>4
<1> DEFINE given(verdicts) == {reviews[i] : i \in {k \in DOMAIN reviews :
                                                      reviews[k].verdict \in verdicts}}
<1>4. given({"block"}) = {}
  BY <1>3
<1>5. reviews[1] \in given({"request_revision"})
  BY <1>3
<1>6. Aggregate(reviews).consensus = "revision_required"
  BY <1>4, <1>5 DEF Aggregate
<1> QED BY <1>6 DEF reviews

\* What is extracted has its position for an id and is left to a human.
Extracted(list) ==
    \A i \in DOMAIN list : /\ i \in Int /\ list[i].id = i
                           /\ list[i].status = "needs_human_review"

LEMMA ExtractedClaims ==
    ASSUME NEW script, NEW sources
    PROVE  /\ Extracted(Extract(script, sources))
           /\ Extract(script, sources) =
                  [i \in DOMAIN Extract(script, sources) |-> Extract(script, sources)[i]]
<1> DEFINE told == Deduped(script)
           positions == {i \in DOMAIN told : Included(told[i].words)}
           kept == Kept(told, positions)
           list == [i \in DOMAIN kept |->
                [id |-> i, text |-> kept[i].text, kind |-> ClassifyType(kept[i].words),
                 risk |-> ClassifyRisk(kept[i].words), sources |-> InferSourceIDs(kept[i], sources),
                 located |-> FALSE, status |-> "needs_human_review",
                 sensitive |-> kept[i].words \cap {"credential", "security"} # {},
                 named |-> FALSE]]
<1>1. DOMAIN kept = 1..Cardinality(positions)
  BY DEF Kept
<1>2. \A i \in DOMAIN kept : i \in Int
  BY <1>1
<1>3. Extract(script, sources) = IF sources = <<>> THEN <<>> ELSE list
  BY DEF Extract
<1> HIDE DEF kept
<1>4. Extracted(list) /\ list = [i \in DOMAIN list |-> list[i]]
  BY <1>2 DEF Extracted
<1>5. Extracted(<<>>) /\ <<>> = [i \in DOMAIN <<>> |-> <<>>[i]]
  BY DEF Extracted
<1> HIDE DEF list
<1>6. CASE sources = <<>>
  BY <1>3, <1>5, <1>6
<1>7. CASE sources # <<>>
  BY <1>3, <1>4, <1>7
<1> QED BY <1>6, <1>7

\* Every extracted claim is among those the packet leaves open.
LEMMA ExtractedOpen ==
    ASSUME NEW list, Extracted(list), NEW council, NEW i \in DOMAIN list
    PROVE  \E u \in UnresolvedClaims(list, VerifyClaims(list, council)) : u.id = list[i].id
<1>1. VerifyClaimCoverage(list[i]) \in Unresolved
  BY Coverage DEF Extracted
<1>2. {j \in DOMAIN list : list[j].id = list[i].id} = {i}
  BY DEF Extracted
<1>3. Max({i}) = i
  BY DEF Extracted, Max
<1>4. ClaimById(list, list[i].id) = list[i]
  BY <1>2, <1>3 DEF ClaimById
<1> QED BY <1>1, <1>4, Listed

-----------------------------------------------------------------------------
(* The invariant of a walk.                                                *)

\* The directory keeps its form, and the claims of a walk without fixtures are the
\* extractor's.
FilesInv ==
    /\ walk \in Steps /\ fixtures \in BOOLEAN /\ edits \in Nat
    /\ dir = [research |-> dir.research, claims |-> dir.claims, script |-> dir.script,
              human |-> dir.human, rest |-> dir.rest]
    /\ ClaimsFile(dir.claims)
    /\ claims = [i \in DOMAIN claims |-> claims[i]]
    /\ ~fixtures => Extracted(claims)
    /\ walk \in {"extract_again", "judge"} => claims # <<>>

\* What the council, the verification and the packet said of these claims.
JudgedAs ==
    /\ claims # <<>>
    /\ judged.verification = VerifyClaims(claims, judged.council)
    /\ judged.packet = Packet(claims, judged.verification, judged.council)
    /\ ~fixtures => judged.council.consensus = "revision_required"

Gated == {"approval", "sources", "decision", "storyboard"}

JudgeInv ==
    /\ walk \in Steps \ {"approval", "sources", "decision", "storyboard", "publish", "done"} =>
           judged = NoReport
    /\ walk \in Steps \ {"publish", "done"} => product = NoReport
    /\ walk \in Gated => judged.packet.decision \in Approvals
    /\ walk \in Gated \/ judged # NoReport => JudgedAs

\* What the gate saw is still there, or somebody edited it since.
GateInv ==
    /\ gate = [human |-> gate.human, edited |-> gate.edited, issues |-> gate.issues]
    /\ walk \in {"decision", "storyboard"} =>
           /\ "human" \in gate.edited \/ dir.human = gate.human
           /\ ~gate.issues => /\ StandingHuman(gate.human)
                              /\ gate.human.pin # NoPin =>
                                     dir.script = gate.human.pin \/ "script" \in gate.edited
    /\ walk = "storyboard" /\ fixtures =>
           ~gate.issues /\ (HumanApproves(gate.human) \/ "human" \in gate.edited)

\* A story that was told came from approved claims and through the gate.
StoryInv ==
    Told =>
        /\ walk \in {"publish", "done"} /\ JudgedAs /\ judged.packet.decision \in Approvals
        /\ product.qa = ProductionQA(claims, judged.verification, judged.packet.decision, Private)
        /\ StoryboardOfApproved

OutcomeInv ==
    /\ walk \notin {"validate_again", "done"} => outcome = Quiet
    /\ walk = "validate_again" => /\ outcome = [Quiet EXCEPT !.blocked = TRUE]
                                  /\ ValidDirectory(dir) => edits > 0
    /\ walk \in {"validate", "validate_again", "research"} => research = NoFile
    /\ ToldOutcome

WalkInv == FilesInv /\ JudgeInv /\ GateInv /\ StoryInv /\ OutcomeInv

LEMMA WalkStarts == WalkInit => WalkInv
<1> SUFFICES ASSUME WalkInit PROVE WalkInv
  OBVIOUS
<1>1. FilesInv
  BY WalkAssumption DEF WalkInit, FilesInv, Steps, Extracted
<1>2. JudgeInv
  BY DEF WalkInit, JudgeInv, Gated
<1>3. GateInv
  BY DEF WalkInit, GateInv, NoGate
<1>4. StoryInv
  BY DEF WalkInit, StoryInv, Told
<1>5. OutcomeInv
  BY DEF WalkInit, OutcomeInv, ToldOutcome
<1> QED BY <1>1, <1>2, <1>3, <1>4, <1>5 DEF WalkInv

\* A step that fails ends the walk with a blocker and an error.
LEMMA FailTells ==
    ASSUME outcome = Quiet, Fail, UNCHANGED <<research, edits>>
    PROVE  /\ walk' = "done" /\ OutcomeInv'
<1>1. outcome' = [blocked |-> TRUE, failed |-> TRUE, draft |-> NoDraft]
  BY DEF Fail, Quiet
<1>2. walk' = "done"
  BY DEF Fail
<1> QED BY <1>1, <1>2 DEF OutcomeInv, ToldOutcome

\* A step that goes on says nothing, unless it fails.
LEMMA GoesOn ==
    ASSUME OutcomeInv, walk \notin {"validate_again", "done"}, NEW next,
           next \in Steps \ {"validate", "validate_again", "research", "done"},
           NEW ok \in BOOLEAN, GoOnIf(ok, next), UNCHANGED edits
    PROVE  /\ ok => walk' = next
           /\ ~ok => walk' = "done"
           /\ OutcomeInv'
<1>1. outcome = Quiet
  BY DEF OutcomeInv
<1>2. CASE ok
  <2>1. walk' = next /\ outcome' = Quiet
    BY <1>1, <1>2 DEF GoOnIf
  <2> QED BY <1>2, <2>1 DEF OutcomeInv, ToldOutcome, Steps
<1>3. CASE ~ok
  <2>1. Fail
    BY <1>3 DEF GoOnIf
  <2>2. outcome' = [blocked |-> TRUE, failed |-> TRUE, draft |-> NoDraft] /\ walk' = "done"
    BY <1>1, <2>1 DEF Fail, Quiet
  <2> QED BY <1>3, <2>2 DEF OutcomeInv, ToldOutcome
<1> QED BY <1>2, <1>3

LEMMA ValidateKeeps == ASSUME WalkInv, ValidateFiles PROVE WalkInv'
<1> USE DEF ValidateFiles
<1>0. FilesInv /\ JudgeInv /\ GateInv /\ StoryInv /\ OutcomeInv
  BY DEF WalkInv
<1>1. /\ walk = "validate" /\ walk' \in {"research", "validate_again"}
      /\ UNCHANGED <<fixtures, dir, edits, research, claims, judged, gate, product>>
  OBVIOUS
<1>2. FilesInv'
  BY <1>0, <1>1 DEF FilesInv, Steps, Extracted
<1>3. JudgeInv'
  BY <1>0, <1>1 DEF JudgeInv, Gated, Steps
<1>4. GateInv'
  BY <1>0, <1>1 DEF GateInv
<1>5. StoryInv'
  BY <1>0, <1>1 DEF StoryInv, Told, JudgeInv, Steps
<1>6. OutcomeInv'
  BY <1>0, <1>1 DEF OutcomeInv, ToldOutcome, Quiet
<1> QED BY <1>2, <1>3, <1>4, <1>5, <1>6 DEF WalkInv

LEMMA ValidateAgainKeeps == ASSUME WalkInv, ValidateAgain PROVE WalkInv'
<1> USE DEF ValidateAgain
<1>0. FilesInv /\ JudgeInv /\ GateInv /\ StoryInv /\ OutcomeInv
  BY DEF WalkInv
<1>1. /\ walk = "validate_again" /\ walk' = "done"
      /\ UNCHANGED <<fixtures, dir, edits, research, claims, judged, gate, product>>
  OBVIOUS
<1>2. FilesInv'
  BY <1>0, <1>1 DEF FilesInv, Steps, Extracted
<1>3. JudgeInv'
  BY <1>0, <1>1 DEF JudgeInv, Gated, Steps
<1>4. GateInv'
  BY <1>0, <1>1 DEF GateInv
<1>5. StoryInv'
  BY <1>0, <1>1 DEF StoryInv, Told, JudgeInv, Steps
<1>6. OutcomeInv'
  <2>1. outcome' = [blocked |-> TRUE, failed |-> ~ValidDirectory(dir), draft |-> NoDraft]
    BY <1>0, <1>1 DEF OutcomeInv, Quiet
  <2>2. /\ outcome'.blocked /\ outcome'.draft = NoDraft
        /\ ~outcome'.failed => ValidDirectory(dir)
    <3> DEFINE invalid == ~ValidDirectory(dir)
    <3>1. outcome'.blocked /\ outcome'.draft = NoDraft /\ outcome'.failed = invalid
      <4> HIDE DEF invalid
      <4>1. outcome' = [blocked |-> TRUE, failed |-> invalid, draft |-> NoDraft]
        BY <2>1 DEF invalid
      <4> QED BY <4>1
    <3> QED BY <3>1, Zenon DEF invalid
  <2>3. /\ research' = NoFile /\ edits' = edits
        /\ ValidDirectory(dir) => edits > 0
    BY <1>0, <1>1 DEF OutcomeInv
  <2> QED BY <1>1, <2>2, <2>3 DEF OutcomeInv, ToldOutcome
<1> QED BY <1>2, <1>3, <1>4, <1>5, <1>6 DEF WalkInv

LEMMA ResearchKeeps == ASSUME WalkInv, LoadResearch PROVE WalkInv'
<1>0. FilesInv /\ JudgeInv /\ GateInv /\ StoryInv /\ OutcomeInv
  BY DEF WalkInv
<1>1. /\ walk = "research" /\ UNCHANGED <<fixtures, dir, edits, claims, judged, gate, product>>
  BY DEF LoadResearch
<1>2. PICK ok \in BOOLEAN : GoOnIf(ok, "claims")
  BY Zenon DEF LoadResearch
<1>3. walk' \in {"claims", "done"} /\ OutcomeInv'
  BY <1>0, <1>1, <1>2, GoesOn DEF Steps
<1>4. FilesInv'
  BY <1>0, <1>1, <1>3 DEF FilesInv, Steps, Extracted
<1>5. JudgeInv'
  BY <1>0, <1>1, <1>3 DEF JudgeInv, Gated, Steps
<1>6. GateInv'
  BY <1>0, <1>1, <1>3 DEF GateInv
<1>7. StoryInv'
  BY <1>0, <1>1 DEF StoryInv, Told, JudgeInv, Steps
<1> QED BY <1>3, <1>4, <1>5, <1>6, <1>7 DEF WalkInv

LEMMA ClaimsKeep == ASSUME WalkInv, PrepareClaims PROVE WalkInv'
<1>0. FilesInv /\ JudgeInv /\ GateInv /\ StoryInv /\ OutcomeInv
  BY DEF WalkInv
<1>1. /\ walk = "claims" /\ UNCHANGED <<fixtures, dir, edits, research, judged, gate, product>>
  BY DEF PrepareClaims
<1>2. /\ ~fixtures => claims' = ExtractEpisode
      /\ fixtures => claims' = <<>> \/ (claims' = dir.claims /\ dir.claims # NoFile)
  BY DEF PrepareClaims
<1>3. PICK next \in {"judge", "extract_again"} : GoOnIf(claims' # <<>>, next)
  BY DEF PrepareClaims
<1>4. /\ walk' \in {"judge", "extract_again", "done"} /\ OutcomeInv'
      /\ walk' # "done" => claims' # <<>>
  BY <1>0, <1>1, <1>3, GoesOn DEF Steps
<1>5. Extracted(<<>>)
  BY DEF Extracted
<1>6. Extracted(ExtractEpisode)
  BY <1>5, ExtractedClaims DEF ExtractEpisode
<1>8. claims' = [i \in DOMAIN claims' |-> claims'[i]]
  <2>1. CASE ~fixtures
    <3>2. ExtractEpisode = [i \in DOMAIN ExtractEpisode |-> ExtractEpisode[i]]
      <4>1. <<>> = [i \in DOMAIN <<>> |-> <<>>[i]]
        OBVIOUS
      <4> QED BY <4>1, ExtractedClaims DEF ExtractEpisode
    <3> QED BY <1>2, <2>1, <3>2
  <2>2. CASE claims' = <<>>
    BY <2>2
  <2>3. CASE claims' = dir.claims /\ dir.claims # NoFile
    BY <1>0, <2>3 DEF FilesInv, ClaimsFile
  <2> QED BY <1>0, <1>2, <2>1, <2>2, <2>3 DEF FilesInv
<1>9. FilesInv'
  <2>1. (~fixtures => Extracted(claims))'
    BY <1>1, <1>2, <1>6 DEF Extracted
  <2> QED BY <1>0, <1>1, <1>4, <1>8, <2>1 DEF FilesInv, Steps
<1>10. JudgeInv'
  BY <1>0, <1>1, <1>4 DEF JudgeInv, Gated, Steps
<1>11. GateInv'
  BY <1>0, <1>1, <1>4 DEF GateInv
<1>12. StoryInv'
  BY <1>0, <1>1 DEF StoryInv, Told, JudgeInv, Steps
<1> QED BY <1>4, <1>9, <1>10, <1>11, <1>12 DEF WalkInv

LEMMA ExtractAgainKeeps == ASSUME WalkInv, ExtractAgain PROVE WalkInv'
<1>0. FilesInv /\ JudgeInv /\ GateInv /\ StoryInv /\ OutcomeInv
  BY DEF WalkInv
<1>1. /\ walk = "extract_again" /\ GoOnIf(ExtractEpisode # <<>>, "judge")
      /\ UNCHANGED <<fixtures, dir, edits, research, claims, judged, gate, product>>
  BY DEF ExtractAgain
<1>2. walk' \in {"judge", "done"} /\ OutcomeInv'
  BY <1>0, <1>1, GoesOn DEF Steps
<1>3. FilesInv'
  BY <1>0, <1>1, <1>2 DEF FilesInv, Steps, Extracted
<1>4. JudgeInv'
  BY <1>0, <1>1, <1>2 DEF JudgeInv, Gated, Steps
<1>5. GateInv'
  BY <1>0, <1>1, <1>2 DEF GateInv
<1>6. StoryInv'
  BY <1>0, <1>1 DEF StoryInv, Told, JudgeInv, Steps
<1> QED BY <1>2, <1>3, <1>4, <1>5, <1>6 DEF WalkInv

\* What a walk does with the reviews it got.
JudgedBy(reviews) ==
    LET council == Aggregate(reviews)
        verification == VerifyClaims(claims, council)
        packet == Packet(claims, verification, council)
    IN IF ~AuditPack(research, claims) \/ reviews = <<>> \/ council.consensus = "blocked"
       THEN Fail /\ UNCHANGED judged
       ELSE /\ judged' = [council |-> council, verification |-> verification,
                          packet |-> packet]
            /\ GoOnIf(packet.decision # "block",
                      IF packet.decision \notin Approvals THEN "publish"
                      ELSE IF fixtures THEN "approval" ELSE "storyboard")

\* The judgement is that of the claims, and only one with fixtures can approve.
LEMMA JudgeKeeps == ASSUME WalkInv, Judge PROVE WalkInv'
<1>0. FilesInv /\ JudgeInv /\ GateInv /\ StoryInv /\ OutcomeInv
  BY DEF WalkInv
<1>1. /\ walk = "judge" /\ UNCHANGED <<fixtures, dir, edits, research, claims, gate, product>>
  BY DEF Judge
<1>2. claims # <<>> /\ outcome = Quiet
  BY <1>0, <1>1 DEF FilesInv, OutcomeInv
<1>3. PICK reviews :
        /\ ~fixtures => reviews = <<>> \/ \E reg : reviews = LocalReviews(reg)
        /\ JudgedBy(reviews)
  <2>1. PICK reg \in CouncilRegistries :
            JudgedBy(IF fixtures THEN ApprovedReviews
                     ELSE IF ValidRegistry(reg) THEN LocalReviews(reg) ELSE <<>>)
    BY Zenon DEF Judge, JudgedBy
  <2> QED BY <2>1
<1>4. CASE Fail /\ UNCHANGED judged
  <2>1. walk' = "done" /\ OutcomeInv'
    BY <1>1, <1>2, <1>4, FailTells
  <2>2. FilesInv'
    BY <1>0, <1>1, <2>1 DEF FilesInv, Steps, Extracted
  <2>3. JudgeInv'
    BY <1>0, <1>1, <1>4, <2>1 DEF JudgeInv, Gated, Steps
  <2>4. GateInv'
    BY <1>0, <1>1, <2>1 DEF GateInv
  <2>5. StoryInv'
    BY <1>0, <1>1 DEF StoryInv, Told, JudgeInv, Steps
  <2> QED BY <2>1, <2>2, <2>3, <2>4, <2>5 DEF WalkInv
<1>5. CASE ~(Fail /\ UNCHANGED judged)
  <2> DEFINE council == Aggregate(reviews)
             verification == VerifyClaims(claims, council)
             packet == Packet(claims, verification, council)
             next == IF packet.decision \notin Approvals THEN "publish"
                     ELSE IF fixtures THEN "approval" ELSE "storyboard"
  <2>2. /\ judged' = [council |-> council, verification |-> verification, packet |-> packet]
        /\ GoOnIf(packet.decision # "block", next)
    BY <1>3, <1>5, Zenon DEF JudgedBy
  <2>3. ~fixtures => council.consensus = "revision_required"
    BY <1>3, <1>5, LocalCouncil DEF JudgedBy
  <2>4. ~fixtures => packet.decision \notin Approvals
    BY <2>3, RevisionStops
  <2> HIDE DEF council, verification, packet
  <2>5. next \in {"publish", "approval"} /\ (next = "approval" => packet.decision \in Approvals)
    BY <1>0, <2>4 DEF FilesInv
  <2> HIDE DEF next
  <2>6. walk' \in {next, "done"} /\ OutcomeInv'
    BY <1>0, <1>1, <2>2, <2>5, GoesOn DEF Steps
  <2>7. JudgedAs'
    BY <1>1, <1>2, <2>2, <2>3 DEF JudgedAs, verification, packet
  <2>8. FilesInv'
    BY <1>0, <1>1, <2>5, <2>6 DEF FilesInv, Steps, Extracted
  <2>9. JudgeInv'
    BY <1>0, <1>1, <2>2, <2>5, <2>6, <2>7 DEF JudgeInv, Gated, Steps
  <2>10. GateInv'
    BY <1>0, <1>1, <2>5, <2>6 DEF GateInv
  <2>11. StoryInv'
    BY <1>0, <1>1 DEF StoryInv, Told, JudgeInv, Steps
  <2> QED BY <2>6, <2>8, <2>9, <2>10, <2>11 DEF WalkInv
<1> QED BY <1>4, <1>5

LEMMA ApprovalKeeps == ASSUME WalkInv, GateApproval PROVE WalkInv'
<1>0. FilesInv /\ JudgeInv /\ GateInv /\ StoryInv /\ OutcomeInv
  BY DEF WalkInv
<1>1. /\ walk = "approval" /\ walk' = "sources"
      /\ UNCHANGED <<fixtures, dir, edits, research, claims, judged, product, outcome>>
      /\ \E issues : gate' = [gate EXCEPT !.issues = issues]
  BY DEF GateApproval
<1>2. FilesInv'
  BY <1>0, <1>1 DEF FilesInv, Steps, Extracted
<1>3. JudgeInv'
  BY <1>0, <1>1 DEF JudgeInv, Gated, Steps, JudgedAs
<1>4. GateInv'
  BY <1>0, <1>1 DEF GateInv
<1>5. StoryInv'
  BY <1>0, <1>1 DEF StoryInv, Told, JudgeInv, Steps
<1>6. OutcomeInv'
  BY <1>0, <1>1 DEF OutcomeInv, ToldOutcome
<1> QED BY <1>2, <1>3, <1>4, <1>5, <1>6 DEF WalkInv

LEMMA SourcesKeep == ASSUME WalkInv, GateSources PROVE WalkInv'
<1>0. FilesInv /\ JudgeInv /\ GateInv /\ StoryInv /\ OutcomeInv
  BY DEF WalkInv
<1> DEFINE issues == \/ gate.issues \/ ~StandingHuman(dir.human)
                     \/ ~SourceUnchanged(dir.human, dir.script)
<1>1. /\ walk = "sources" /\ walk' = "decision"
      /\ UNCHANGED <<fixtures, dir, edits, research, claims, judged, product, outcome>>
      /\ gate' = [human |-> dir.human, edited |-> {}, issues |-> issues]
  BY DEF GateSources
<1>2. FilesInv'
  BY <1>0, <1>1 DEF FilesInv, Steps, Extracted
<1>3. JudgeInv'
  BY <1>0, <1>1 DEF JudgeInv, Gated, Steps, JudgedAs
<1>4. GateInv'
  <2>1. ~issues => StandingHuman(dir.human) /\ (dir.human.pin # NoPin => dir.script = dir.human.pin)
    BY DEF SourceUnchanged
  <2> HIDE DEF issues
  <2>2. /\ gate'.human = dir.human /\ gate'.issues = issues
        /\ gate' = [human |-> gate'.human, edited |-> gate'.edited, issues |-> gate'.issues]
    BY <1>1
  <2>3. ~gate'.issues => StandingHuman(gate'.human)
                         /\ (gate'.human.pin # NoPin => dir.script = gate'.human.pin)
    BY <2>1, <2>2
  <2> QED BY <1>1, <2>2, <2>3 DEF GateInv
<1>5. StoryInv'
  BY <1>0, <1>1 DEF StoryInv, Told, JudgeInv, Steps
<1>6. OutcomeInv'
  BY <1>0, <1>1 DEF OutcomeInv, ToldOutcome
<1> QED BY <1>2, <1>3, <1>4, <1>5, <1>6 DEF WalkInv

LEMMA DecisionKeeps == ASSUME WalkInv, GateDecision PROVE WalkInv'
<1>0. FilesInv /\ JudgeInv /\ GateInv /\ StoryInv /\ OutcomeInv
  BY DEF WalkInv
<1>1. /\ walk = "decision" /\ GoOnIf(~gate.issues /\ HumanApproves(dir.human), "storyboard")
      /\ UNCHANGED <<fixtures, dir, edits, research, claims, judged, gate, product>>
  BY DEF GateDecision
<1>2. /\ walk' \in {"storyboard", "done"} /\ OutcomeInv'
      /\ walk' # "done" => ~gate.issues /\ HumanApproves(dir.human)
  BY <1>0, <1>1, GoesOn DEF Steps
<1>3. FilesInv'
  BY <1>0, <1>1, <1>2 DEF FilesInv, Steps, Extracted
<1>4. JudgeInv'
  BY <1>0, <1>1, <1>2 DEF JudgeInv, Gated, Steps, JudgedAs
<1>5. GateInv'
  BY <1>0, <1>1, <1>2 DEF GateInv
<1>6. StoryInv'
  BY <1>0, <1>1 DEF StoryInv, Told, JudgeInv, Steps
<1> QED BY <1>2, <1>3, <1>4, <1>5, <1>6 DEF WalkInv

LEMMA TellKeeps == ASSUME WalkInv, TellStory PROVE WalkInv'
<1>0. FilesInv /\ JudgeInv /\ GateInv /\ StoryInv /\ OutcomeInv
  BY DEF WalkInv
<1> DEFINE advice == judged.packet.decision
           board == IF dir.script = NoFile THEN NoReport
                    ELSE GenerateStoryboard(dir.script, claims, advice)
<1>1. /\ walk = "storyboard" /\ UNCHANGED <<fixtures, dir, edits, research, claims, judged, gate>>
      /\ product' = IF board = NoReport THEN NoReport
                    ELSE [board |-> board, script |-> dir.script,
                          qa |-> ProductionQA(claims, judged.verification, advice, Private)]
      /\ GoOnIf(board # NoReport, "publish")
  BY Zenon DEF TellStory
<1> HIDE DEF board
<1>2. walk' \in {"publish", "done"} /\ OutcomeInv'
  BY <1>0, <1>1, GoesOn DEF Steps
<1>3. JudgedAs /\ advice \in Approvals
  BY <1>0, <1>1 DEF JudgeInv, Gated
<1>4. fixtures
  BY <1>0, <1>3, RevisionStops DEF JudgedAs, FilesInv
<1>5. JudgedAs'
  BY <1>1, <1>3 DEF JudgedAs
<1>6. FilesInv'
  BY <1>0, <1>1, <1>2 DEF FilesInv, Steps, Extracted
<1>7. JudgeInv'
  BY <1>0, <1>1, <1>2, <1>5 DEF JudgeInv, Gated, Steps
<1>8. GateInv'
  BY <1>0, <1>1, <1>2 DEF GateInv
<1>9. StoryInv'
  <2> SUFFICES ASSUME Told' PROVE StoryInv'
    BY DEF StoryInv
  <2>1. product' = [board |-> board, script |-> dir.script,
                    qa |-> ProductionQA(claims, judged.verification, advice, Private)]
    BY <1>1 DEF Told
  <2>2. /\ product'.script = dir.script
        /\ product'.qa = ProductionQA(claims, judged.verification, advice, Private)
    BY <2>1
  <2>3. /\ StandingHuman(gate.human)
        /\ HumanApproves(gate.human) \/ "human" \in gate.edited
        /\ gate.human.pin # NoPin => dir.script = gate.human.pin \/ "script" \in gate.edited
    BY <1>0, <1>1, <1>4 DEF GateInv
  <2>4. StoryboardOfApproved'
    BY <1>1, <2>2, <2>3 DEF StoryboardOfApproved
  <2> QED BY <1>1, <1>2, <1>3, <1>5, <2>2, <2>4 DEF StoryInv
<1> QED BY <1>2, <1>6, <1>7, <1>8, <1>9 DEF WalkInv

LEMMA PublishKeeps == ASSUME WalkInv, PublishDraft PROVE WalkInv'
<1>0. FilesInv /\ JudgeInv /\ GateInv /\ StoryInv /\ OutcomeInv
  BY DEF WalkInv
<1>1. /\ walk = "publish" /\ walk' = "done"
      /\ outcome' = [outcome EXCEPT !.draft =
                        DryRunUpload(GeneratePack("episode-0001", TRUE, Private, FALSE))]
      /\ UNCHANGED <<fixtures, dir, edits, research, claims, judged, gate, product>>
  BY DEF PublishDraft
<1>2. FilesInv'
  BY <1>0, <1>1 DEF FilesInv, Steps, Extracted
<1>3. JudgeInv'
  BY <1>0, <1>1 DEF JudgeInv, Gated, Steps, JudgedAs
<1>4. GateInv'
  BY <1>0, <1>1 DEF GateInv
<1>5. StoryInv'
  BY <1>0, <1>1 DEF StoryInv, Told, JudgedAs, StoryboardOfApproved
<1>6. OutcomeInv'
  <2>1. DryRunUpload(GeneratePack("episode-0001", TRUE, Private, FALSE)) = Private
    BY DEF DryRunUpload, GeneratePack, DryRunValidates, Private, Scheduled, Public
  <2>2. outcome = Quiet
    BY <1>0, <1>1 DEF OutcomeInv
  <2>3. outcome' = [blocked |-> FALSE, failed |-> FALSE, draft |-> Private]
    BY <1>1, <2>1, <2>2 DEF Quiet
  <2>4. ~outcome'.blocked /\ ~outcome'.failed /\ outcome'.draft # NoDraft
    BY <2>3, PackAssumption
  <2> QED BY <1>1, <2>4 DEF OutcomeInv, ToldOutcome
<1> QED BY <1>2, <1>3, <1>4, <1>5, <1>6 DEF WalkInv

LEMMA EditKeeps == ASSUME WalkInv, EditFile PROVE WalkInv'
<1>0. FilesInv /\ JudgeInv /\ GateInv /\ StoryInv /\ OutcomeInv
  BY DEF WalkInv
<1>f. PICK file \in DOMAIN Versions : \E v \in Versions[file] :
          /\ dir' = [dir EXCEPT ![file] = v]
          /\ gate' = IF walk \in {"decision", "storyboard"}
                     THEN [gate EXCEPT !.edited = @ \cup {file}] ELSE gate
  BY DEF EditFile
<1>1. PICK v \in Versions[file] :
          /\ dir' = [dir EXCEPT ![file] = v]
          /\ gate' = IF walk \in {"decision", "storyboard"}
                     THEN [gate EXCEPT !.edited = @ \cup {file}] ELSE gate
  BY <1>f
<1>2. /\ edits' = edits + 1 /\ walk # "done"
      /\ UNCHANGED <<walk, fixtures, research, claims, judged, product, outcome>>
  BY DEF EditFile
<1>3. /\ file # "human" => dir'.human = dir.human
      /\ file # "script" => dir'.script = dir.script
      /\ file # "claims" => dir'.claims = dir.claims
      /\ file = "claims" => dir'.claims = v
      /\ dir' = [research |-> dir'.research, claims |-> dir'.claims, script |-> dir'.script,
                 human |-> dir'.human, rest |-> dir'.rest]
  <2>1. ASSUME NEW a, NEW b, NEW c, NEW d, NEW e,
               dir = [research |-> a, claims |-> b, script |-> c, human |-> d, rest |-> e]
        PROVE  <1>3!1 /\ <1>3!2 /\ <1>3!3 /\ <1>3!4 /\ <1>3!5
    BY <1>1, <2>1
  <2> QED BY <1>0, <2>1 DEF FilesInv
<1>4. ClaimsFile(dir'.claims)
  BY <1>0, <1>1, <1>3, WalkAssumption DEF FilesInv
<1>5. FilesInv'
  BY <1>0, <1>2, <1>3, <1>4 DEF FilesInv, Extracted
<1>6. JudgeInv'
  BY <1>0, <1>2 DEF JudgeInv, JudgedAs
<1>7. GateInv'
  <2>1. CASE walk \in {"decision", "storyboard"}
    <3>1. /\ gate' = [human |-> gate.human, edited |-> gate.edited \cup {file},
                      issues |-> gate.issues]
      BY <1>0, <1>1, <2>1 DEF GateInv
    <3> QED BY <1>0, <1>2, <1>3, <3>1 DEF GateInv
  <2>2. CASE walk \notin {"decision", "storyboard"}
    BY <1>0, <1>1, <1>2, <2>2 DEF GateInv
  <2> QED BY <2>1, <2>2
<1>8. StoryInv'
  BY <1>0, <1>1, <1>2 DEF StoryInv, Told, JudgedAs, StoryboardOfApproved
<1>9. OutcomeInv'
  <2>1. edits' > 0
    BY <1>0, <1>2 DEF FilesInv
  <2> QED BY <1>0, <1>2, <2>1 DEF OutcomeInv, ToldOutcome
<1> QED BY <1>5, <1>6, <1>7, <1>8, <1>9 DEF WalkInv

LEMMA WalkStepKeeps == ASSUME WalkInv, [WalkNext]_walkVars PROVE WalkInv'
<1>1. CASE WalkStep
  BY <1>1, ValidateKeeps, ValidateAgainKeeps, ResearchKeeps, ClaimsKeep, ExtractAgainKeeps,
     JudgeKeeps, ApprovalKeeps, SourcesKeep, DecisionKeeps, TellKeeps, PublishKeeps
     DEF WalkStep
<1>2. CASE EditFile
  BY <1>2, EditKeeps
<1>3. CASE UNCHANGED walkVars
  <2>1. FilesInv'
    BY <1>3 DEF walkVars, WalkInv, FilesInv, Extracted
  <2>2. JudgeInv'
    BY <1>3 DEF walkVars, WalkInv, JudgeInv, JudgedAs
  <2>3. GateInv'
    BY <1>3 DEF walkVars, WalkInv, GateInv
  <2>4. StoryInv'
    BY <1>3 DEF walkVars, WalkInv, StoryInv, Told, JudgedAs, StoryboardOfApproved
  <2>5. OutcomeInv'
    BY <1>3 DEF walkVars, WalkInv, OutcomeInv, ToldOutcome
  <2> QED BY <2>1, <2>2, <2>3, <2>4, <2>5 DEF WalkInv
<1> QED BY <1>1, <1>2, <1>3 DEF WalkNext

LEMMA WalkAlways == WalkSpec => []WalkInv
<1> QED BY WalkStarts, WalkStepKeeps, PTL DEF WalkSpec

LEMMA SoundImplied == WalkInv => OnlySoundProduced
<1> SUFFICES ASSUME WalkInv PROVE OnlySoundProduced
  OBVIOUS
<1>1. HighRiskStops
  <2> SUFFICES ASSUME Told, NEW i \in DOMAIN claims, claims[i].risk \in HighRisk
               PROVE  /\ claims[i].status \notin {"unsupported", "contradicted",
                                                  "needs_human_review"}
                      /\ claims[i].sources # {} /\ claims[i].located
                      /\ claims[i].status = "partially_supported" =>
                             \E j \in DOMAIN claims \ {i} : claims[j].id = claims[i].id
    BY DEF HighRiskStops
  <2>1. JudgedAs /\ judged.packet.decision \in Approvals
    BY DEF WalkInv, StoryInv
  <2> QED BY <2>1, SoundClaims DEF JudgedAs
<1>2. RealModeStops
  <2> SUFFICES ASSUME ~fixtures, judged # NoReport
               PROVE  /\ ~Told /\ judged.packet.decision \notin Approvals
                      /\ judged.council.consensus = "revision_required"
                      /\ \A i \in DOMAIN claims :
                             \E u \in judged.packet.unresolved : u.id = claims[i].id
    BY DEF RealModeStops
  <2>1. JudgedAs /\ Extracted(claims)
    BY DEF WalkInv, JudgeInv, FilesInv
  <2>2. judged.council.consensus = "revision_required"
    BY <2>1 DEF JudgedAs
  <2>3. judged.packet.decision \notin Approvals
    BY <2>1, <2>2, RevisionStops DEF JudgedAs
  <2>4. ~Told
    BY <2>3 DEF WalkInv, StoryInv
  <2>5. judged.packet.unresolved = UnresolvedClaims(claims, VerifyClaims(claims, judged.council))
    BY <2>1 DEF JudgedAs, Packet
  <2> QED BY <2>1, <2>2, <2>3, <2>4, <2>5, ExtractedOpen
<1>3. QAAgrees
  <2> SUFFICES ASSUME Told PROVE product.qa.decision = "approved"
    BY DEF QAAgrees
  <2>1. /\ JudgedAs /\ judged.packet.decision \in Approvals
        /\ product.qa = ProductionQA(claims, judged.verification, judged.packet.decision, Private)
    BY DEF WalkInv, StoryInv
  <2> QED BY <2>1, QASilent DEF JudgedAs
<1> QED BY <1>1, <1>2, <1>3 DEF OnlySoundProduced

LEMMA ReportsImplied == WalkInv => ReportsValid
<1> SUFFICES ASSUME WalkInv, judged # NoReport
             PROVE  /\ ValidHuman(ToHumanQAReportDraft(judged.packet))
                    /\ Told => ValidProductionQA(product.qa)
  BY DEF ReportsValid
<1>1. JudgedAs
  BY DEF WalkInv, JudgeInv
<1>2. ValidHuman(ToHumanQAReportDraft(judged.packet))
  BY <1>1, DraftForm DEF JudgedAs
<1>3. Told => ValidProductionQA(product.qa)
  BY QAForm DEF WalkInv, StoryInv
<1> QED BY <1>2, <1>3

\* A story is told only of sound claims, only of fixtures, and production QA agrees,
\* whatever an editor does to the files in between (DryRunWithOptions).
THEOREM SoundnessCorrect == WalkSpec => []OnlySoundProduced
<1> QED BY WalkAlways, SoundImplied, PTL

\* The storyboard tells the script a standing approval pinned, or somebody edited the
\* files after the gate saw them (ValidateTransition, then the second reading).
THEOREM StoryboardCorrect == WalkSpec => []StoryboardOfApproved
<1>1. WalkInv => StoryboardOfApproved
  BY DEF WalkInv, StoryInv, StoryboardOfApproved
<1> QED BY <1>1, WalkAlways, PTL

\* The human report drafted from a packet and the production report of a told story are
\* artifacts the validators accept (ToHumanQAReportDraft, ProductionQA).
THEOREM ReportsCorrect == WalkSpec => []ReportsValid
<1> QED BY WalkAlways, ReportsImplied, PTL

\* What the caller is told fits what was done, but for the directory that was repaired
\* between its two validations.
THEOREM OutcomeCorrect == WalkSpec => []ToldOutcome
<1>1. WalkInv => ToldOutcome
  BY DEF WalkInv, OutcomeInv
<1> QED BY <1>1, WalkAlways, PTL

-----------------------------------------------------------------------------
(* The router: the order of the candidates, and what is cut from it.       *)

\* A list of models that can be compared.
Comparable(reg) ==
    /\ Len(reg) \in Nat /\ DOMAIN reg = 1..Len(reg)
    /\ \A i \in DOMAIN reg : reg[i].quality \in Int

AheadOf(reg, places, i) == {j \in places : Ahead(reg, j, i)}

\* Ahead is a strict total order on the places of a registry.
LEMMA AheadTotal ==
    ASSUME NEW reg, Comparable(reg), NEW i \in DOMAIN reg, NEW j \in DOMAIN reg,
           NEW k \in DOMAIN reg
    PROVE  /\ ~Ahead(reg, i, i)
           /\ Ahead(reg, i, j) \/ Ahead(reg, j, i) \/ i = j
           /\ Ahead(reg, i, j) /\ Ahead(reg, j, k) => Ahead(reg, i, k)
  <1>1. i \in Int /\ j \in Int /\ k \in Int
    BY DEF Comparable
  <1>2. reg[i].quality \in Int /\ reg[j].quality \in Int /\ reg[k].quality \in Int
    BY DEF Comparable
  <1>. QED  BY <1>1, <1>2, SMT DEF Ahead

\* The places of a set are finitely many.
LEMMA PlacesFinite ==
    ASSUME NEW reg, Comparable(reg), NEW places \in SUBSET DOMAIN reg
    PROVE  IsFiniteSet(places) /\ Cardinality(places) \in Nat
  <1>1. IsFiniteSet(1..Len(reg))
    BY FS_Interval DEF Comparable
  <1>2. places \in SUBSET (1..Len(reg))
    BY DEF Comparable
  <1>3. IsFiniteSet(places)
    BY <1>1, <1>2, FS_Subset
  <1>. QED  BY <1>3, FS_CardinalityType

\* Of two places, the one that is ahead has fewer others ahead of it.
LEMMA AheadCounts ==
    ASSUME NEW reg, Comparable(reg), NEW places \in SUBSET DOMAIN reg,
           NEW i \in places, NEW j \in places
    PROVE  /\ Cardinality(AheadOf(reg, places, i)) \in 0..(Cardinality(places) - 1)
           /\ Ahead(reg, i, j) =>
                Cardinality(AheadOf(reg, places, i)) < Cardinality(AheadOf(reg, places, j))
  <1>. DEFINE I == AheadOf(reg, places, i)
              J == AheadOf(reg, places, j)
  <1>1. IsFiniteSet(places) /\ Cardinality(places) \in Nat
    BY PlacesFinite
  <1>2. I \in SUBSET places /\ J \in SUBSET places /\ i \notin I
    BY AheadTotal DEF AheadOf
  <1>3. /\ IsFiniteSet(I) /\ Cardinality(I) <= Cardinality(places)
        /\ Cardinality(I) = Cardinality(places) => I = places
    <2>. HIDE DEF I
    <2>. QED  BY <1>1, <1>2, FS_Subset, Zenon
  <1>4. IsFiniteSet(J)
    <2>. HIDE DEF J
    <2>. QED  BY <1>1, <1>2, FS_Subset, Zenon
  <1>5. Cardinality(I) \in Nat /\ Cardinality(J) \in Nat
    <2>. HIDE DEF I, J
    <2>. QED  BY <1>3, <1>4, FS_CardinalityType
  <1>6. ASSUME Ahead(reg, i, j)
        PROVE  I \in SUBSET J /\ I # J
    <2>1. \A k \in I : k \in DOMAIN reg /\ Ahead(reg, k, i)
      BY DEF AheadOf
    <2>2. \A k \in I : Ahead(reg, k, j)
      BY <1>6, <2>1, AheadTotal
    <2>3. i \in J
      BY <1>6 DEF AheadOf
    <2>. QED  BY <1>2, <2>2, <2>3 DEF AheadOf
  <1>7. ASSUME Ahead(reg, i, j)
        PROVE  Cardinality(I) < Cardinality(J)
    <2>1. I \in SUBSET J /\ I # J
      BY <1>6, <1>7
    <2>2. Cardinality(I) <= Cardinality(J) /\ (Cardinality(J) = Cardinality(I) => J = I)
      <3>. HIDE DEF I, J
      <3>. QED  BY <1>4, <2>1, FS_Subset, Zenon
    <2>3. Cardinality(I) # Cardinality(J)
      BY <2>1, <2>2
    <2>. HIDE DEF I, J
    <2>. QED  BY <1>5, <2>2, <2>3
  <1>8. Cardinality(I) # Cardinality(places)
    BY <1>2, <1>3
  <1>9. Cardinality(I) \in 0..(Cardinality(places) - 1)
    <2>. HIDE DEF I
    <2>. QED  BY <1>1, <1>3, <1>5, <1>8
  <1>. QED  BY <1>7, <1>9

\* Ranked lays the places out in the order of Ahead: every place once.
LEMMA RankedOrder ==
    ASSUME NEW reg, Comparable(reg), NEW places \in SUBSET DOMAIN reg
    PROVE  /\ \A n \in 1..Cardinality(places) : Ranked(reg, places)[n] \in places
           /\ \A i \in places : \E n \in 1..Cardinality(places) : Ranked(reg, places)[n] = i
           /\ \A m, n \in 1..Cardinality(places) :
                m < n => Ahead(reg, Ranked(reg, places)[m], Ranked(reg, places)[n])
  <1>. DEFINE Count(i) == Cardinality(AheadOf(reg, places, i))
              N == Cardinality(places)
              place == [i \in places |-> Count(i) + 1]
  <1>1. IsFiniteSet(places) /\ N \in Nat
    BY PlacesFinite
  <1>2. \A i \in places : Count(i) \in 0..(N - 1)
    BY AheadCounts
  <1>3. \A i, j \in places : Ahead(reg, i, j) => Count(i) < Count(j)
    BY AheadCounts
  <1>4. \A i, j \in places : Ahead(reg, i, j) \/ Ahead(reg, j, i) \/ i = j
    BY AheadTotal
  <1>. HIDE DEF Count, N
  <1>5. \A i, j \in places : Count(i) = Count(j) => i = j
    <2>. SUFFICES ASSUME NEW i \in places, NEW j \in places, Count(i) = Count(j), i # j
                  PROVE  FALSE
      OBVIOUS
    <2>1. Count(i) < Count(j) \/ Count(j) < Count(i)
      BY <1>3, <1>4
    <2>2. Count(i) \in Int /\ Count(j) \in Int
      BY <1>1, <1>2
    <2>. QED  BY <2>1, <2>2
  <1>6. place \in [places -> 1..N]
    <2>1. \A i \in places : Count(i) + 1 \in 1..N
      BY <1>1, <1>2
    <2>. QED  BY <2>1
  <1>7. \A i, j \in places : place[i] = place[j] => i = j
    <2>. SUFFICES ASSUME NEW i \in places, NEW j \in places, place[i] = place[j]
                  PROVE  i = j
      OBVIOUS
    <2>1. Count(i) + 1 = Count(j) + 1
      OBVIOUS
    <2>2. Count(i) \in Int /\ Count(j) \in Int
      BY <1>1, <1>2
    <2>3. Count(i) = Count(j)
      BY <2>1, <2>2
    <2>. QED  BY <1>5, <2>3
  <1>8. place \in Injection(places, 1..N)
    <2>. HIDE DEF place
    <2>. QED  BY <1>6, <1>7 DEF Injection, IsInjective
  <1>9. IsFiniteSet(1..N) /\ Cardinality(1..N) = N
    <2>1. Cardinality(1..N) = IF 1 > N THEN 0 ELSE N - 1 + 1
      BY <1>1, FS_Interval
    <2>. QED  BY <1>1, <2>1, FS_Interval
  <1>10. place \in Surjection(places, 1..N)
    <2>. HIDE DEF place
    <2>1. Cardinality(places) = Cardinality(1..N)
      BY <1>9 DEF N
    <2>2. Cardinality(places) = Cardinality(1..N) <=> place \in Surjection(places, 1..N)
      BY <1>8, <1>9, FS_Injection
    <2>. QED  BY <2>1, <2>2
  <1>11. \A n \in 1..N : \E i \in places : Count(i) = n - 1
    <2>. SUFFICES ASSUME NEW n \in 1..N
                  PROVE  \E i \in places : Count(i) = n - 1
      OBVIOUS
    <2>1. PICK i \in places : place[i] = n
      <3>. HIDE DEF place
      <3>. QED  BY <1>10 DEF Surjection
    <2>2. Count(i) + 1 = n
      BY <2>1
    <2>3. Count(i) \in Int /\ n \in Int
      BY <1>1, <1>2
    <2>. QED  BY <2>2, <2>3
  <1>12. \A n \in 1..N : Ranked(reg, places)[n] \in places /\ Count(Ranked(reg, places)[n]) = n - 1
    <2>. SUFFICES ASSUME NEW n \in 1..N
                  PROVE  /\ Ranked(reg, places)[n] \in places
                         /\ Count(Ranked(reg, places)[n]) = n - 1
      OBVIOUS
    <2>1. Ranked(reg, places)[n] = CHOOSE i \in places : Count(i) = n - 1
      BY DEF Ranked, N, Count, AheadOf
    <2>. QED  BY <1>11, <2>1
  <1>13. \A i \in places : \E n \in 1..N : Ranked(reg, places)[n] = i
    <2>. SUFFICES ASSUME NEW i \in places
                  PROVE  \E n \in 1..N : Ranked(reg, places)[n] = i
      OBVIOUS
    <2>1. Count(i) + 1 \in 1..N /\ (Count(i) + 1) - 1 = Count(i)
      BY <1>1, <1>2
    <2>2. Ranked(reg, places)[Count(i) + 1] = i
      BY <1>5, <1>12, <2>1
    <2>. QED  BY <2>1, <2>2
  <1>14. \A m, n \in 1..N : m < n => Ahead(reg, Ranked(reg, places)[m], Ranked(reg, places)[n])
    <2>. SUFFICES ASSUME NEW m \in 1..N, NEW n \in 1..N, m < n
                  PROVE  Ahead(reg, Ranked(reg, places)[m], Ranked(reg, places)[n])
      OBVIOUS
    <2>1. PICK i \in places : i = Ranked(reg, places)[m] /\ Count(i) = m - 1
      BY <1>12
    <2>2. PICK j \in places : j = Ranked(reg, places)[n] /\ Count(j) = n - 1
      BY <1>12
    <2>3. ~(Count(j) < Count(i)) /\ Count(i) # Count(j)
      BY <1>1, <2>1, <2>2
    <2>4. ~Ahead(reg, j, i) /\ i # j
      BY <1>3, <2>3
    <2>. QED  BY <1>4, <2>1, <2>2, <2>4
  <1>. QED  BY <1>12, <1>13, <1>14 DEF N
\* A panel has at least one model, and no more than there are candidates.
LEMMA PanelFits ==
    ASSUME NEW risk, NEW n \in Nat \ {0}
    PROVE  PanelSize(risk, n) \in 1..n
  <1>1. \A k \in Nat \ {0} : Min({k, n}) \in {k, n} /\ Min({k, n}) <= n /\ Min({k, n}) >= 1
    <2>. SUFFICES ASSUME NEW k \in Nat \ {0}
                  PROVE  Min({k, n}) \in {k, n} /\ Min({k, n}) <= n /\ Min({k, n}) >= 1
      OBVIOUS
    <2>1. \E x \in {k, n} : \A y \in {k, n} : x <= y
      <3>1. k <= n \/ n <= k
        OBVIOUS
      <3>. QED  BY <3>1
    <2>2. Min({k, n}) \in {k, n} /\ \A y \in {k, n} : Min({k, n}) <= y
      BY <2>1 DEF Min
    <2>. QED  BY <2>2
  <1>2. Min({3, n}) \in 1..n /\ Min({2, n}) \in 1..n /\ 1 \in 1..n
    BY <1>1
  <1>. QED  BY <1>2, Zenon DEF PanelSize

\* For a task that is not complete no model is looked at.
LEMMA NoneRouted ==
    ASSUME NEW reg, NEW task, ~Complete(task), NEW opts
    PROVE  Route(reg, task, opts).selected = <<>> /\ Route(reg, task, opts).rejected = {}
  <1>. DEFINE none == [n \in 1..0 |-> reg[Ranked(reg, {})[n]]]
  <1>1. none = <<>>
    OBVIOUS
  <1>2. Route(reg, task, opts).selected = none /\ Route(reg, task, opts).rejected = {}
    BY DEF Route
  <1>. QED  BY <1>1, <1>2

\* What Route selects: the first places of the ranking of all candidates.
LEMMA PanelCorrect ==
    ASSUME NEW reg, Comparable(reg), NEW task, Complete(task), NEW opts
    PROVE  \E size \in 0..Cardinality(Candidates(reg, task, opts)) :
              /\ Route(reg, task, opts).selected
                   = [n \in 1..size |-> reg[Ranked(reg, Candidates(reg, task, opts))[n]]]
              /\ Candidates(reg, task, opts) # {} => size > 0
  <1>. DEFINE fit == Candidates(reg, task, opts)
              size == IF fit = {} THEN 0 ELSE PanelSize(task.risk, Cardinality(fit))
  <1>1. fit \in SUBSET DOMAIN reg
    BY DEF Candidates
  <1>2. IsFiniteSet(fit) /\ Cardinality(fit) \in Nat
    BY <1>1, PlacesFinite
  <1>3. fit # {} => Cardinality(fit) \in Nat \ {0}
    BY <1>2, FS_EmptySet
  <1>4. size \in 0..Cardinality(fit) /\ (fit # {} => size > 0)
    <2>1. CASE fit = {}
      BY <1>2, <2>1
    <2>2. CASE fit # {}
      <3>1. PanelSize(task.risk, Cardinality(fit)) \in 1..Cardinality(fit)
        BY <1>3, <2>2, PanelFits
      <3>. QED  BY <1>2, <2>2, <3>1
    <2>. QED  BY <2>1, <2>2
  <1>5. Route(reg, task, opts).selected = [n \in 1..size |-> reg[Ranked(reg, fit)[n]]]
    BY DEF Route
  <1>. HIDE DEF size
  <1>. QED  BY <1>4, <1>5

RouterInv ==
    /\ registry \in Registries /\ ValidRegistry(registry)
    /\ \/ decision = [selected |-> <<>>, rejected |-> {}]
       \/ lastTask \in RoutedTasks /\ decision = Route(registry, lastTask, options)

LEMMA RouterStarts == RouterInit => RouterInv
BY DEF RouterInit, RouterInv

LEMMA RouterKeeps == ASSUME RouterInv, [RouteTask]_routerVars PROVE RouterInv'
BY DEF RouterInv, RouteTask, routerVars

\* The places that were passed over are those the router gave a reason for, and
\* those that the chosen ones are ahead of.
LEMMA RouterBest == ASSUME RouterInv PROVE BestOfRest
  <1>. DEFINE fit == Candidates(registry, lastTask, options)
  <1>1. Comparable(registry)
    BY RouterAssumption DEF RouterInv, Comparable
  <1>. SUFFICES ASSUME NEW i \in DOMAIN registry, Routed,
                       registry[i] \notin Chosen, registry[i].id \notin Refused,
                       NEW m \in Chosen
                PROVE  \/ m.quality > registry[i].quality
                       \/ m.quality = registry[i].quality /\ IndexOf(m) < i
    BY DEF BestOfRest
  <1>2. decision = Route(registry, lastTask, options)
    BY DEF RouterInv, Routed
  <1>c. Complete(lastTask)
    <2>1. Route(registry, lastTask, options).rejected # {}
          \/ Route(registry, lastTask, options).selected # <<>>
      BY <1>2 DEF Routed
    <2>. QED  BY <2>1, NoneRouted
  <1>3. fit \in SUBSET DOMAIN registry
    BY DEF Candidates
  <1>4. i \in fit
    <2>1. SUFFICES ASSUME i \notin fit PROVE registry[i].id \in Refused
      OBVIOUS
    <2>2. [id |-> registry[i].id, reason |-> Refusal(registry[i], lastTask, options)]
             \in decision.rejected
      BY <1>2, <1>c, <2>1 DEF Route
    <2>3. [id |-> registry[i].id, reason |-> Refusal(registry[i], lastTask, options)].id
             = registry[i].id
      OBVIOUS
    <2>. QED  BY <2>2, <2>3 DEF Refused
  <1>5. PICK size \in 0..Cardinality(fit) :
           decision.selected = [n \in 1..size |-> registry[Ranked(registry, fit)[n]]]
    <2>1. \E size \in 0..Cardinality(fit) :
             /\ Route(registry, lastTask, options).selected
                  = [n \in 1..size |-> registry[Ranked(registry, fit)[n]]]
             /\ fit # {} => size > 0
      BY <1>1, <1>c, PanelCorrect
    <2>. QED  BY <1>2, <2>1
  <1>6. Cardinality(fit) \in Nat
    BY <1>1, <1>3, PlacesFinite
  <1>. HIDE DEF fit
  <1>7. PICK n \in 1..size : m = registry[Ranked(registry, fit)[n]]
    BY <1>5 DEF Chosen
  <1>8. PICK k \in 1..Cardinality(fit) : Ranked(registry, fit)[k] = i
    BY <1>1, <1>3, <1>4, RankedOrder
  <1>9. k \notin 1..size
    BY <1>5, <1>8 DEF Chosen
  <1>10. n \in 1..Cardinality(fit) /\ n < k
    BY <1>6, <1>9
  <1>11. /\ Ahead(registry, Ranked(registry, fit)[n], i)
         /\ Ranked(registry, fit)[n] \in DOMAIN registry
    BY <1>1, <1>3, <1>8, <1>10, RankedOrder
  <1>12. IndexOf(m) = Ranked(registry, fit)[n]
    <2>1. \A x, y \in DOMAIN registry : registry[x].id = registry[y].id => x = y
      BY DEF RouterInv, ValidRegistry
    <2>2. \A x \in DOMAIN registry : registry[x] = m => x = Ranked(registry, fit)[n]
      BY <1>7, <1>11, <2>1
    <2>. QED  BY <1>7, <1>11, <2>2 DEF IndexOf
  <1>. QED  BY <1>7, <1>11, <1>12 DEF Ahead

\* Nothing speaks against a chosen model.
LEMMA RouterFit ==
    ASSUME RouterInv, NEW m \in Chosen
    PROVE  /\ m \in {registry[i] : i \in DOMAIN registry}
           /\ lastTask \in RoutedTasks /\ Complete(lastTask)
           /\ Refusal(m, lastTask, options) = ""
  <1>. DEFINE fit == Candidates(registry, lastTask, options)
  <1>1. Comparable(registry)
    BY RouterAssumption DEF RouterInv, Comparable
  <1>2. lastTask \in RoutedTasks /\ decision = Route(registry, lastTask, options)
    BY DEF RouterInv, Chosen
  <1>c. Complete(lastTask)
    <2>1. decision.selected # <<>>
      BY DEF Chosen
    <2>. QED  BY <1>2, <2>1, NoneRouted
  <1>3. fit \in SUBSET DOMAIN registry
    BY DEF Candidates
  <1>4. Cardinality(fit) \in Nat
    BY <1>1, <1>3, PlacesFinite
  <1>5. PICK size \in 0..Cardinality(fit) :
           decision.selected = [n \in 1..size |-> registry[Ranked(registry, fit)[n]]]
    <2>1. \E size \in 0..Cardinality(fit) :
             /\ Route(registry, lastTask, options).selected
                  = [n \in 1..size |-> registry[Ranked(registry, fit)[n]]]
             /\ fit # {} => size > 0
      BY <1>1, <1>c, PanelCorrect
    <2>. QED  BY <1>2, <2>1
  <1>6. PICK n \in 1..size : m = registry[Ranked(registry, fit)[n]]
    <2>. HIDE DEF fit
    <2>. QED  BY <1>5 DEF Chosen
  <1>7. n \in 1..Cardinality(fit)
    <2>. HIDE DEF fit
    <2>. QED  BY <1>4
  <1>8. Ranked(registry, fit)[n] \in fit
    <2>. HIDE DEF fit
    <2>. QED  BY <1>1, <1>3, <1>7, RankedOrder
  <1>. QED  BY <1>2, <1>c, <1>6, <1>8 DEF Candidates

\* The rank of a tier is its place in Tiers.
LEMMA TierPlaces ==
    ASSUME NEW i \in DOMAIN Tiers
    PROVE  i \in 1..4 /\ TierRank(Tiers[i]) = i
  <1>1. DOMAIN Tiers = 1..4
    BY DEF Tiers
  <1>2. \A a, b \in 1..4 : Tiers[a] = Tiers[b] => a = b
    <2>1. /\ Tiers[1] = "public" /\ Tiers[2] = "internal_approved"
          /\ Tiers[3] = "restricted" /\ Tiers[4] = "local_only"
      BY DEF Tiers
    <2>2. \A a \in 1..4 : a = 1 \/ a = 2 \/ a = 3 \/ a = 4
      OBVIOUS
    <2>. QED  BY <2>1, <2>2
  <1>. QED  BY <1>1, <1>2 DEF TierRank

LEMMA RouterSafe == ASSUME RouterInv PROVE NeverUnfit
  <1>. SUFFICES ASSUME NEW m \in Chosen
                PROVE  LET health == ProviderHealth(m.provider, options.health) IN
                       /\ m.tier = lastTask.tier \/ m.tier = "local_only"
                          \/ \E s, t \in DOMAIN Tiers :
                                Tiers[s] = lastTask.tier /\ Tiers[t] = m.tier /\ s < t
                       /\ health = "degraded" => options.allowDegraded \/ options.policy.allowDegraded
                       /\ health = "degraded" => ~options.policy.needsApproval
                       /\ health = "unknown" => options.policy.allowUnknown
                       /\ m.status = "degraded" => options.allowDegraded
    BY DEF NeverUnfit
  <1>1. /\ m \in {registry[i] : i \in DOMAIN registry}
        /\ lastTask \in RoutedTasks /\ Complete(lastTask)
        /\ Refusal(m, lastTask, options) = ""
    BY RouterFit
  <1>2. /\ Evaluate(ProviderHealth(m.provider, options.health), options.policy)
        /\ m.status = "degraded" => options.allowDegraded
        /\ PrivacyAllowed(m.tier, lastTask.tier)
    BY <1>1 DEF Refusal
  <1>3. PICK t \in DOMAIN Tiers : Tiers[t] = m.tier
    BY <1>1 DEF RouterInv, ValidRegistry
  <1>4. PICK s \in DOMAIN Tiers : Tiers[s] = lastTask.tier
    BY <1>1, RouterAssumption DEF Complete
  <1>5. TierRank(m.tier) = t /\ TierRank(lastTask.tier) = s /\ s \in 1..4 /\ t \in 1..4
    BY <1>3, <1>4, TierPlaces
  <1>6. m.tier = "local_only" \/ s < t \/ s = t
    BY <1>2, <1>5 DEF PrivacyAllowed
  <1>7. m.tier = lastTask.tier \/ m.tier = "local_only"
        \/ \E a, b \in DOMAIN Tiers : Tiers[a] = lastTask.tier /\ Tiers[b] = m.tier /\ a < b
    BY <1>3, <1>4, <1>6
  <1>. QED  BY <1>2, <1>7 DEF Evaluate

\* The router selects only models fit for the task, and of those the best: what was passed
\* over without a reason is worse, or as good and registered later (Route).
THEOREM RouterCorrect == RouterSpec => []RoutedBest
<1>1. RouterInit => RouterInv
  BY RouterStarts
<1>2. RouterInv /\ [RouteTask]_routerVars => RouterInv'
  BY RouterKeeps
<1>3. RouterInv => RoutedBest
  BY RouterBest, RouterSafe DEF RoutedBest
<1>. QED  BY <1>1, <1>2, <1>3, PTL DEF RouterSpec

-----------------------------------------------------------------------------
(* Types, and the instances of MCNewsroom as behaviours of each module.    *)

OutcomeTyped ==
    /\ outcome = [blocked |-> outcome.blocked, failed |-> outcome.failed, draft |-> outcome.draft]
    /\ outcome.blocked \in BOOLEAN /\ outcome.failed \in BOOLEAN
    /\ outcome.draft \in {NoDraft, Private}

\* Where the claims and the research of a walk are not empty.
Judging == {"extract_again", "judge", "approval", "sources", "decision", "storyboard"}

Held(step) ==
    /\ step \in Judging \cup {"claims"} => research # NoFile
    /\ step \in Judging => claims # <<>>

WalkTypes == edits \in 0..MaxEdits /\ OutcomeTyped /\ Held(walk)

LEMMA WalkTypesStart == WalkInit => WalkTypes
<1> SUFFICES ASSUME WalkInit PROVE WalkTypes
  OBVIOUS
<1>1. edits \in 0..MaxEdits
  BY WalkAssumption DEF WalkInit
<1>2. OutcomeTyped
  BY DEF WalkInit, OutcomeTyped, Quiet
<1>3. Held(walk)
  BY DEF WalkInit, Held, Judging
<1> QED BY <1>1, <1>2, <1>3 DEF WalkTypes

LEMMA OutcomeIs ==
    ASSUME NEW b \in BOOLEAN, NEW f \in BOOLEAN, NEW d \in {NoDraft, Private},
           outcome' = [blocked |-> b, failed |-> f, draft |-> d]
    PROVE  OutcomeTyped'
<1>1. outcome'.blocked = b /\ outcome'.failed = f /\ outcome'.draft = d
  OBVIOUS
<1> QED BY <1>1 DEF OutcomeTyped

\* A step that fails is done; one that goes on takes its research and claims with it.
LEMMA GoingOnTyped ==
    ASSUME WalkTypes, NEW next, NEW ok \in BOOLEAN, GoOnIf(ok, next), UNCHANGED edits,
           ok /\ next \in Judging \cup {"claims"} => research' # NoFile,
           ok /\ next \in Judging => claims' # <<>>
    PROVE  WalkTypes'
<1>1. CASE ok
  <2>1. walk' = next /\ outcome' = outcome
    BY <1>1 DEF GoOnIf
  <2>2. OutcomeTyped'
    BY <2>1 DEF WalkTypes, OutcomeTyped
  <2> QED BY <1>1, <2>1, <2>2 DEF WalkTypes, Held
<1>2. CASE ~ok
  <2>1. /\ walk' = "done"
        /\ outcome' = [blocked |-> TRUE, failed |-> TRUE, draft |-> outcome.draft]
    BY <1>2 DEF GoOnIf, Fail, WalkTypes, OutcomeTyped
  <2>2. OutcomeTyped'
    BY <2>1 DEF WalkTypes, OutcomeTyped
  <2> QED BY <2>1, <2>2 DEF WalkTypes, Held, Judging
<1> QED BY <1>1, <1>2

LEMMA WalkTypesKept == ASSUME WalkTypes, WalkStep PROVE WalkTypes'
<1>1. ASSUME ValidateFiles PROVE WalkTypes'
  <2>1. /\ UNCHANGED <<edits, claims, research>>
        /\ \/ walk' = "research" /\ outcome' = outcome
           \/ walk' = "validate_again"
              /\ outcome' = [blocked |-> TRUE, failed |-> outcome.failed, draft |-> outcome.draft]
    BY <1>1 DEF ValidateFiles, WalkTypes, OutcomeTyped
  <2>2. ASSUME outcome' = outcome PROVE OutcomeTyped'
    BY <2>2 DEF WalkTypes, OutcomeTyped
  <2>3. ASSUME outcome' = [blocked |-> TRUE, failed |-> outcome.failed, draft |-> outcome.draft]
        PROVE  OutcomeTyped'
    BY <2>3, OutcomeIs DEF WalkTypes, OutcomeTyped
  <2>4. OutcomeTyped'
    BY <2>1, <2>2, <2>3
  <2> QED BY <2>1, <2>4 DEF WalkTypes, Held, Judging
<1>2. ASSUME ValidateAgain PROVE WalkTypes'
  <2>1. /\ UNCHANGED edits /\ walk' = "done"
        /\ outcome' = [blocked |-> outcome.blocked, failed |-> ~ValidDirectory(dir),
                       draft |-> outcome.draft]
    BY <1>2 DEF ValidateAgain, WalkTypes, OutcomeTyped
  <2>2. OutcomeTyped'
    BY <2>1, Zenon DEF WalkTypes, OutcomeTyped
  <2> QED BY <2>1, <2>2 DEF WalkTypes, Held, Judging
<1>3. ASSUME LoadResearch PROVE WalkTypes'
  <2> DEFINE ok == dir.research # NoFile /\ dir.research.sources # <<>>
  <2>1. /\ UNCHANGED edits /\ GoOnIf(ok, "claims")
        /\ research' = IF ok THEN dir.research ELSE NoFile
    BY <1>3 DEF LoadResearch
  <2>2. ok \in BOOLEAN /\ (ok => research' # NoFile) /\ "claims" \notin Judging
    BY <2>1 DEF Judging
  <2> HIDE DEF ok
  <2> QED BY <2>1, <2>2, GoingOnTyped
<1>4. ASSUME PrepareClaims PROVE WalkTypes'
  <2>1. /\ UNCHANGED <<edits, research>> /\ walk = "claims"
        /\ GoOnIf(claims' # <<>>, IF fixtures THEN "judge" ELSE "extract_again")
    BY <1>4 DEF PrepareClaims
  <2>2. research' # NoFile
    BY <2>1 DEF WalkTypes, Held
  <2> QED BY <2>1, <2>2, GoingOnTyped
<1>5. ASSUME ExtractAgain PROVE WalkTypes'
  <2>1. /\ UNCHANGED <<edits, research, claims>> /\ walk = "extract_again"
        /\ GoOnIf(ExtractEpisode # <<>>, "judge")
    BY <1>5 DEF ExtractAgain
  <2>2. research' # NoFile /\ claims' # <<>>
    BY <2>1 DEF WalkTypes, Held, Judging
  <2> QED BY <2>1, <2>2, GoingOnTyped
<1>6. ASSUME Judge PROVE WalkTypes'
  <2>1. UNCHANGED <<edits, research, claims>> /\ walk = "judge"
    BY <1>6 DEF Judge
  <2>2. research' # NoFile /\ claims' # <<>>
    BY <2>1 DEF WalkTypes, Held, Judging
  <2>3. PICK reviews : JudgedBy(reviews)
    <3>1. PICK reg \in CouncilRegistries :
              JudgedBy(IF fixtures THEN ApprovedReviews
                       ELSE IF ValidRegistry(reg) THEN LocalReviews(reg) ELSE <<>>)
      BY <1>6, Zenon DEF Judge, JudgedBy
    <3> QED BY <3>1
  <2>4. Fail \/ \E ok \in BOOLEAN : \E next : GoOnIf(ok, next)
    BY <2>3, Zenon DEF JudgedBy
  <2>5. CASE Fail
    <3>1. GoOnIf(FALSE, "done")
      BY <2>5 DEF GoOnIf
    <3> QED BY <2>1, <3>1, GoingOnTyped
  <2>6. CASE \E ok \in BOOLEAN : \E next : GoOnIf(ok, next)
    <3>1. PICK ok \in BOOLEAN : \E next : GoOnIf(ok, next)
      BY <2>6
    <3>2. PICK next : GoOnIf(ok, next)
      BY <3>1
    <3> QED BY <2>1, <2>2, <3>2, GoingOnTyped
  <2> QED BY <2>4, <2>5, <2>6
<1>7. ASSUME GateApproval \/ GateSources PROVE WalkTypes'
  <2>1. /\ UNCHANGED <<edits, research, claims, outcome>>
        /\ walk \in Judging /\ walk' \in Judging
    BY <1>7 DEF GateApproval, GateSources, Judging
  <2>2. OutcomeTyped'
    BY <2>1 DEF WalkTypes, OutcomeTyped
  <2> QED BY <2>1, <2>2 DEF WalkTypes, Held
<1>8. ASSUME GateDecision PROVE WalkTypes'
  <2>1. /\ UNCHANGED <<edits, research, claims>> /\ walk = "decision"
        /\ GoOnIf(~gate.issues /\ HumanApproves(dir.human), "storyboard")
    BY <1>8 DEF GateDecision
  <2>2. research' # NoFile /\ claims' # <<>>
    BY <2>1 DEF WalkTypes, Held, Judging
  <2>3. (~gate.issues /\ HumanApproves(dir.human)) \in BOOLEAN
    OBVIOUS
  <2> QED BY <2>1, <2>2, <2>3, GoingOnTyped
<1>9. ASSUME TellStory PROVE WalkTypes'
  <2>1. /\ UNCHANGED <<edits, research, claims>> /\ walk = "storyboard"
        /\ \E board : GoOnIf(board # NoReport, "publish")
    BY <1>9, Zenon DEF TellStory
  <2>2. research' # NoFile /\ claims' # <<>>
    BY <2>1 DEF WalkTypes, Held, Judging
  <2>3. PICK ok \in BOOLEAN : GoOnIf(ok, "publish")
    <3>1. PICK board : GoOnIf(board # NoReport, "publish")
      BY <2>1
    <3>2. (board # NoReport) \in BOOLEAN
      OBVIOUS
    <3> QED BY <3>1, <3>2
  <2> QED BY <2>1, <2>2, <2>3, GoingOnTyped
<1>10. ASSUME PublishDraft PROVE WalkTypes'
  <2> DEFINE draft == DryRunUpload(GeneratePack("episode-0001", TRUE, Private, FALSE))
  <2>1. /\ UNCHANGED edits /\ walk' = "done" /\ outcome' = [outcome EXCEPT !.draft = draft]
    BY <1>10 DEF PublishDraft
  <2>2. draft \in {NoDraft, Private}
    <3>1. GeneratePack("episode-0001", TRUE, Private, FALSE)
             = [episode |-> "episode-0001", titled |-> TRUE, visibility |-> Private,
                approved |-> FALSE]
      BY DEF GeneratePack, Private, Public
    <3>2. ASSUME NEW pack, pack.visibility = Private
          PROVE  DryRunUpload(pack) \in {NoDraft, Private}
      BY <3>2 DEF DryRunUpload
    <3> QED BY <3>1, <3>2
  <2> HIDE DEF draft
  <2>3. outcome' = [blocked |-> outcome.blocked, failed |-> outcome.failed, draft |-> draft]
    BY <2>1 DEF WalkTypes, OutcomeTyped
  <2>4. OutcomeTyped'
    BY <2>2, <2>3 DEF WalkTypes, OutcomeTyped
  <2> QED BY <2>1, <2>4 DEF WalkTypes, Held, Judging
<1> QED BY <1>1, <1>2, <1>3, <1>4, <1>5, <1>6, <1>7, <1>8, <1>9, <1>10 DEF WalkStep

LEMMA WalkTypesNext == ASSUME WalkTypes, [WalkNext]_walkVars PROVE WalkTypes'
<1>1. CASE EditFile
  <2>1. /\ edits < MaxEdits /\ edits' = edits + 1
        /\ UNCHANGED <<walk, research, claims, outcome>>
    BY <1>1 DEF EditFile
  <2>2. edits' \in 0..MaxEdits
    BY <2>1, WalkAssumption DEF WalkTypes
  <2>3. OutcomeTyped' /\ Held(walk)'
    BY <2>1 DEF WalkTypes, OutcomeTyped, Held
  <2> QED BY <2>2, <2>3 DEF WalkTypes
<1>2. CASE UNCHANGED walkVars
  BY <1>2 DEF walkVars, WalkTypes, OutcomeTyped, Held
<1> QED BY <1>1, <1>2, WalkTypesKept DEF WalkNext

\* A walk stays well-typed: it has its research and claims where it judges them, and a
\* product only after a packet that approved (DryRunWithOptions).
THEOREM WalkTyped == WalkSpec => []WalkTypeOK
<1>1. WalkSpec => []WalkTypes
  BY WalkTypesStart, WalkTypesNext, PTL DEF WalkSpec
<1>2. WalkInv /\ WalkTypes => WalkTypeOK
  <2> SUFFICES ASSUME WalkInv, WalkTypes PROVE WalkTypeOK
    OBVIOUS
  <2>1. /\ walk \in Steps /\ fixtures \in BOOLEAN
        /\ walk \in {"validate", "validate_again", "research"} => research = NoFile
        /\ product # NoReport => judged.packet.decision \in Approvals
    BY DEF WalkInv, FilesInv, OutcomeInv, StoryInv, Told
  <2> QED BY <2>1 DEF WalkTypes, OutcomeTyped, Held, Judging, WalkTypeOK
<1> QED BY <1>1, <1>2, WalkAlways, PTL

\* A behaviour of the instances is a behaviour of each of the modules, so what is
\* proved of a module holds of the instance that TLC checks.
THEOREM NewsroomParts ==
    NewsroomSpec => EpSpec /\ MachineSpec /\ RouterSpec /\ PublishSpec /\ WalkSpec
<1>1. NewsroomInit => EpInit /\ MachineInit /\ RouterInit /\ PublishInit /\ WalkInit
  BY DEF NewsroomInit
<1>2. ASSUME [NewsroomNext]_vars
      PROVE  /\ [EpNext]_episodeVars /\ [MachineNext]_machineVars /\ [RouteTask]_routerVars
             /\ [PublishNext]_publishVars /\ [WalkNext]_walkVars
  BY <1>2 DEF NewsroomNext, vars, EpisodeStep, MachineStep, RouterStep, PublishStep, DryRunStep
<1> QED BY <1>1, <1>2, PTL DEF NewsroomSpec, EpSpec, MachineSpec, RouterSpec, PublishSpec, WalkSpec

\* Every module of the newsroom keeps its types, for any number of decisions, blocks
\* and edits.
THEOREM NewsroomTyped == NewsroomSpec => []NewsroomTypeOK
<1>1. EpSpec /\ MachineSpec /\ WalkSpec => []NewsroomTypeOK
  BY EpisodeTyped, HistoryCorrect, WalkTyped, PTL DEF NewsroomTypeOK
<1> QED BY <1>1, NewsroomParts, PTL
=============================================================================
