---------------------------- MODULE ShortFormProofs ----------------------------
(***************************************************************************)
(* Theorems about the short-form workflow, for any inputs, people, faults  *)
(* of the providers and any number of signals; and about the demo runner,  *)
(* for any settings and any number of runs, failing writes and deaths.     *)
(***************************************************************************)
EXTENDS ShortFormRefinement, ShortFormRunner, FiniteSetTheorems, SequenceTheorems, TLAPS

(***************************************************************************)
(* Gates.                                                                  *)
(***************************************************************************)
LEMMA Appended ==
    ASSUME NEW R, NEW p \in Seq(R), NEW g \in R
    PROVE  /\ p \o <<g>> = Append(p, g) /\ Append(p, g) \in Seq(R)
           /\ Elements(Append(p, g)) = Elements(p) \cup {g}
<1>1. /\ Append(p, g) \in Seq(R) /\ Len(Append(p, g)) = Len(p) + 1
      /\ \A i \in 1..Len(p) : Append(p, g)[i] = p[i]
      /\ Append(p, g)[Len(p) + 1] = g
  BY AppendProperties
<1>2. p \o <<g>> = Append(p, g)
  BY AppendIsConcat
<1>3. /\ DOMAIN Append(p, g) = 1..(Len(p) + 1) /\ DOMAIN p = 1..Len(p) /\ Len(p) \in Nat
  BY <1>1, LenProperties
<1>4. ASSUME NEW x PROVE x \in Elements(Append(p, g)) <=> x \in Elements(p) \cup {g}
  <2>1. 1..(Len(p) + 1) = 1..Len(p) \cup {Len(p) + 1}
    BY <1>3
  <2> QED BY <1>1, <1>3, <2>1 DEF Elements
<1> QED BY <1>1, <1>2, <1>4

LEMMA TwoElements == Cardinality({1, 2}) = 2
<1>1. IsFiniteSet({1}) /\ Cardinality({1}) = 1
  BY FS_Singleton
<1>2. Cardinality({1} \cup {2}) = IF 2 \in {1} THEN Cardinality({1}) ELSE Cardinality({1}) + 1
  BY <1>1, FS_AddElement
<1>3. {1, 2} = {1} \cup {2} /\ 2 \notin {1}
  OBVIOUS
<1>4. Cardinality({1, 2}) = 1 + 1
  BY <1>1, <1>2, <1>3
<1> QED BY <1>4

\* The last gate of the workflow, or the only one before the await `next`.
LEMMA OneGate ==
    ASSUME NEW R, NEW g \in R, NEW reasons, NEW next, NEW state, passed \in Seq(R),
           Gates(<<Verdict(g, reasons)>>, next, state)
    PROVE  \/ /\ reasons = {} /\ passed' = Append(passed, g)
              /\ next # "closed" => pc' = next /\ result' = result
              /\ next = "closed" => /\ pc' = "closed"
                                    /\ result' = [state |-> state, failed |-> FALSE]
           \/ /\ reasons # {} /\ passed' = passed
              /\ pc' = "closed" /\ result' = [state |-> "blocked", failed |-> FALSE]
<1> DEFINE verdicts == <<Verdict(g, reasons)>>
           passing(i) == verdicts[i].reasons = {}
           refused == {i \in DOMAIN verdicts : ~passing(i)}
           clear == {i \in DOMAIN verdicts : \A j \in 1..i : passing(j)}
           end == IF refused # {} THEN "blocked" ELSE state
<1>1. /\ passed' = passed \o [i \in 1..Cardinality(clear) |-> verdicts[i].gate]
      /\ IF refused # {} \/ next = "closed"
         THEN pc' = "closed" /\ result' = [state |-> end, failed |-> FALSE]
         ELSE pc' = next /\ UNCHANGED result
  BY DEF Gates
<1>2. /\ DOMAIN verdicts = {1} /\ verdicts[1].reasons = reasons /\ verdicts[1].gate = g
  BY DEF Verdict
<1>3. CASE reasons = {}
  <2>1. refused = {} /\ clear = {1}
    BY <1>2, <1>3
  <2>2. Cardinality(clear) = 1
    BY <2>1, FS_Singleton
  <2>3. [i \in 1..1 |-> verdicts[i].gate] = <<g>>
    BY <1>2
  <2>4. passed' = passed \o <<g>>
    BY <1>1, <2>2, <2>3
  <2>5. passed' = Append(passed, g)
    <3>1. passed \o <<g>> = Append(passed, g)
      BY Appended
    <3> QED BY <2>4, <3>1
  <2> QED BY <1>1, <1>3, <2>1, <2>5
<1>4. CASE reasons # {}
  <2>1. refused = {1} /\ clear = {}
    BY <1>2, <1>4
  <2>2. Cardinality(clear) = 0
    BY <2>1, FS_EmptySet
  <2>3. [i \in 1..0 |-> verdicts[i].gate] = <<>>
    OBVIOUS
  <2>4. passed' = passed \o <<>>
    BY <1>1, <2>2, <2>3
  <2>5. passed' = passed
    BY <2>4
  <2> QED BY <1>1, <1>4, <2>1, <2>5
<1> QED BY <1>3, <1>4

\* Two gates in a row before the await `next`.
LEMMA TwoGates ==
    ASSUME NEW R, NEW g \in R, NEW h \in R, NEW why, NEW whyNot, NEW next, NEW state,
           passed \in Seq(R), next # "closed",
           Gates(<<Verdict(g, why), Verdict(h, whyNot)>>, next, state)
    PROVE  \/ /\ why = {} /\ whyNot = {} /\ passed' = Append(Append(passed, g), h)
              /\ pc' = next /\ result' = result
           \/ /\ passed' = passed \/ passed' = Append(passed, g)
              /\ pc' = "closed" /\ result' = [state |-> "blocked", failed |-> FALSE]
<1> DEFINE verdicts == <<Verdict(g, why), Verdict(h, whyNot)>>
           passing(i) == verdicts[i].reasons = {}
           refused == {i \in DOMAIN verdicts : ~passing(i)}
           clear == {i \in DOMAIN verdicts : \A j \in 1..i : passing(j)}
           end == IF refused # {} THEN "blocked" ELSE state
<1>1. /\ passed' = passed \o [i \in 1..Cardinality(clear) |-> verdicts[i].gate]
      /\ IF refused # {} \/ next = "closed"
         THEN pc' = "closed" /\ result' = [state |-> end, failed |-> FALSE]
         ELSE pc' = next /\ UNCHANGED result
  BY DEF Gates
<1>2. /\ DOMAIN verdicts = {1, 2} /\ verdicts[1].reasons = why /\ verdicts[1].gate = g
      /\ verdicts[2].reasons = whyNot /\ verdicts[2].gate = h
  BY DEF Verdict
<1>3. 1..1 = {1} /\ 1..2 = {1, 2}
  OBVIOUS
<1>4. CASE why # {}
  <2>1. 1 \in refused /\ clear = {}
    BY <1>2, <1>3, <1>4
  <2>2. Cardinality(clear) = 0
    BY <2>1, FS_EmptySet
  <2>3. [i \in 1..0 |-> verdicts[i].gate] = <<>>
    OBVIOUS
  <2>4. passed' = passed \o <<>>
    BY <1>1, <2>2, <2>3
  <2>5. passed' = passed
    BY <2>4
  <2> QED BY <1>1, <2>1, <2>5
<1>5. CASE why = {} /\ whyNot # {}
  <2>1. 2 \in refused /\ clear = {1}
    BY <1>2, <1>3, <1>5
  <2>2. Cardinality(clear) = 1
    BY <2>1, FS_Singleton
  <2>3. [i \in 1..1 |-> verdicts[i].gate] = <<g>>
    BY <1>2
  <2>4. passed' = passed \o <<g>>
    BY <1>1, <2>2, <2>3
  <2>5. passed' = Append(passed, g)
    <3>1. passed \o <<g>> = Append(passed, g)
      BY Appended
    <3> QED BY <2>4, <3>1
  <2> QED BY <1>1, <2>1, <2>5
<1>6. CASE why = {} /\ whyNot = {}
  <2>1. refused = {} /\ clear = {1, 2}
    BY <1>2, <1>3, <1>6
  <2>2. Cardinality(clear) = 2
    BY <2>1, TwoElements
  <2>3. [i \in 1..2 |-> verdicts[i].gate] = <<g, h>>
    BY <1>2, <1>3
  <2>4. passed' = passed \o <<g, h>>
    BY <1>1, <2>2, <2>3
  <2>5. passed' = Append(Append(passed, g), h)
    BY <2>4
  <2> QED BY <1>1, <1>6, <2>1, <2>5
<1> QED BY <1>4, <1>5, <1>6

GateNames == Elements(GateOrder)

\* p is the first n gates in order.
Prefix(p, n) == p \in Seq(GateNames) /\ Len(p) = n /\ \A i \in 1..n : p[i] = GateOrder[i]

LEMMA GateTable ==
    /\ GateOrder[1] = "provenance" /\ GateOrder[2] = "self_approval"
    /\ GateOrder[3] = "storyboard_image" /\ GateOrder[4] = "visual_shot"
    /\ GateOrder[5] = "subtitle" /\ GateOrder[6] = "render"
    /\ GateOrder[7] = "multi_verifier" /\ GateOrder[8] = "release"
    /\ Len(GateOrder) = 8 /\ DOMAIN GateOrder = 1..8
BY DEF GateOrder

LEMMA GatesNamed == /\ GateOrder \in Seq(GateNames)
                    /\ \A i \in 1..8 : GateOrder[i] \in GateNames
<1>1. \A i \in 1..8 : GateOrder[i] \in GateNames
  BY GateTable DEF GateNames, Elements
<1>2. GateOrder = [i \in 1..8 |-> GateOrder[i]]
  BY DEF GateOrder
<1>3. GateOrder \in [1..8 -> GateNames]
  BY <1>1, <1>2
<1>4. ASSUME NEW R, NEW f \in [1..8 -> R] PROVE f \in Seq(R)
  BY SeqDef
<1> QED BY <1>1, <1>3, <1>4

LEMMA PrefixGrows ==
    ASSUME NEW p, NEW n \in 0..7, Prefix(p, n)
    PROVE  Prefix(Append(p, GateOrder[n + 1]), n + 1)
<1>1. p \in Seq(GateNames) /\ Len(p) = n /\ GateOrder[n + 1] \in GateNames
  BY GatesNamed DEF Prefix
<1> DEFINE q == Append(p, GateOrder[n + 1])
<1>2. /\ q \in Seq(GateNames) /\ Len(q) = n + 1
      /\ \A i \in 1..n : q[i] = p[i]
      /\ q[n + 1] = GateOrder[n + 1]
  BY <1>1, AppendProperties
<1> QED BY <1>2 DEF Prefix

LEMMA PrefixFull == ASSUME NEW p, Prefix(p, 8) PROVE p = GateOrder
<1>1. p \in Seq(GateNames) /\ Len(p) = Len(GateOrder) /\ \A i \in 1..Len(p) : p[i] = GateOrder[i]
  BY GateTable DEF Prefix
<1> QED BY <1>1, GatesNamed, SeqEqual

LEMMA PrefixHas ==
    ASSUME NEW p, NEW n \in 0..8, Prefix(p, n)
    PROVE  /\ "storyboard_image" \in Elements(p) <=> n >= 3
           /\ "multi_verifier" \in Elements(p) <=> n >= 7
<1>1. DOMAIN p = 1..n
  BY LenProperties DEF Prefix
<1>2. \A x : x \in Elements(p) <=> \E i \in 1..n : x = GateOrder[i]
  BY <1>1 DEF Elements, Prefix
<1>3. ASSUME NEW m \in 1..8 PROVE GateOrder[m] \in Elements(p) <=> n >= m
  <2>1. \A i \in 1..8 : GateOrder[i] = GateOrder[m] => i = m
    BY GateTable
  <2> QED BY <1>2, <2>1
<1> QED BY <1>3, GateTable

(***************************************************************************)
(* The inductive invariant. A workflow that is not closed stands at one of *)
(* nineteen awaits; when an artifact is made, stamped and done, and how    *)
(* many gates were passed, follows from which.                             *)
(***************************************************************************)
Pos == [start |-> 1, buildPromptPack |-> 2, importStoryboard |-> 3, awaitStoryboard |-> 4,
        approveStoryboard |-> 5, generateShots |-> 6, approveShots |-> 7,
        generateVoice |-> 8, approveVoice |-> 9, generateSubtitles |-> 10,
        approveSubtitles |-> 11, render |-> 12, productionQA |-> 13, approveRender |-> 14,
        assemble |-> 15, awaitRelease |-> 16, buildRelease |-> 17, publishManifest |-> 18,
        publishDryRun |-> 19]

IsOpen == pc # "closed"

\* The awaits at which an artifact is made, first stamped, and done.
Made == [k \in Kinds |->
    IF k = Storyboard THEN 3 ELSE IF k = Shots THEN 6 ELSE IF k = Voiceover THEN 8
    ELSE IF k = Subtitles THEN 10 ELSE IF k = Render THEN 12 ELSE IF k = Candidate THEN 15
    ELSE IF k = Release THEN 17 ELSE 18]
Stamped == [k \in Kinds |->
    IF k = Storyboard THEN 3 ELSE IF k = Shots THEN 7 ELSE IF k = Voiceover THEN 9
    ELSE IF k = Subtitles THEN 11 ELSE IF k = Render THEN 14 ELSE IF k = Candidate THEN 15
    ELSE IF k = Release THEN 17 ELSE 18]
Done == [k \in Kinds |-> IF k = Storyboard THEN 5 ELSE Stamped[k]]

\* The gates passed at an await.
Cleared == [p \in 1..19 |->
    IF p = 1 THEN 0 ELSE IF p <= 5 THEN 1 ELSE IF p <= 7 THEN 3 ELSE IF p <= 11 THEN 4
    ELSE IF p <= 14 THEN 5 ELSE IF p <= 17 THEN 6 ELSE 7]

Shape ==
    /\ IsOpen => pc \in DOMAIN Pos /\ result = Running
    /\ art = [k \in Kinds |-> art[k]] /\ stamped = [k \in Kinds |-> stamped[k]]
    /\ inbox = [c \in Channels |-> inbox[c]] /\ sent = [c \in Channels |-> sent[c]]
    /\ decided = [c \in Channels |-> decided[c]]

GateInv == /\ passed \in Seq(GateNames)
           /\ IsOpen => Prefix(passed, Cleared[Pos[pc]])

Approved(k) == art[k] # None /\ art[k].kind = k /\ art[k].status = "approved" /\ stamped[k] = art[k]

KindInv(k) == IsOpen =>
    /\ Pos[pc] <= Made[k] => art[k] = None
    /\ Pos[pc] <= Stamped[k] => stamped[k] = None
    /\ k \in Components /\ Pos[pc] > Done[k] => Approved(k)

Drafted(k, value) == value # None /\ art[k] = value

DraftInv ==
    /\ pc \in {"awaitStoryboard", "approveStoryboard"} =>
           /\ Drafted(Storyboard, ImportStoryboardImages(in, defect))
           /\ stamped[Storyboard] = art[Storyboard]
    /\ pc = "approveShots" => Drafted(Shots, GenerateVisualShots(art[Storyboard], defect))
    /\ pc = "approveVoice" => Drafted(Voiceover, GenerateVoiceover(in, defect))
    /\ pc = "approveSubtitles" => Drafted(Subtitles, GenerateSubtitles(defect))
    /\ pc \in {"productionQA", "approveRender"} => Drafted(Render, RenderShort(in, defect))

Waited == [c \in Channels |-> IF c = StoryboardImageApproval THEN 4 ELSE 16]

MailInv ==
    /\ \A c \in Channels :
          /\ inbox[c] \in Seq(Signals) /\ sent[c] \in Seq(Signals)
          /\ decided[c] \in Signals \cup {None} /\ (decided[c] # None => sent[c] # <<>>)
          /\ IsOpen => IF Pos[pc] <= Waited[c] THEN decided[c] = None
                       ELSE decided[c] # None /\ decided[c].decision = "approve"
    /\ FirstDecisionCounts

Reviewed ==
    LET signal == decided[StoryboardImageApproval] IN
    /\ signal.decision = "approve" /\ IsHuman(signal.approver)
    /\ \A image \in Elements(art[Storyboard].images) :
           image.status = "approved" /\ image.approvedBy = signal.approver

Rendered ==
    /\ art[Render].audio
    /\ art[Render].platforms = IF in.platforms = {} THEN {"master"} ELSE in.platforms

ChainInv ==
    /\ (IsOpen /\ Pos[pc] > 5) \/ art[Shots] # None => Reviewed
    /\ IsOpen /\ Pos[pc] > 14 => Rendered
    /\ art[Candidate] # None =>
          /\ \A k \in Components : Approved(k) /\ art[Candidate].components[k] = art[k]
          /\ DOMAIN art[Candidate].components = Components
          /\ Rendered /\ art[Shots] # None
    /\ IsOpen /\ Pos[pc] > 15 => art[Candidate] # None
    /\ art[Release] # None =>
          /\ art[Candidate] # None
          /\ IsHumanIdentity(decided[ReleaseApproval].approver)
          /\ art[Release] = BuildReleaseApproval(in, decided[ReleaseApproval].approver)
    /\ IsOpen /\ Pos[pc] > 17 => art[Release] # None
    /\ art[Publish] # None =>
          art[Release] # None /\ art[Publish] = UploadPostDryRun(art[Release], defect)
    /\ IsOpen /\ Pos[pc] > 18 => art[Publish] # None

WorkflowInv == /\ Shape /\ GateInv /\ (\A k \in Kinds : KindInv(k)) /\ DraftInv /\ MailInv
               /\ ChainInv /\ CompletedEarned

(***************************************************************************)
(* The tables of the module.                                               *)
(***************************************************************************)
LEMMA Awaits ==
    /\ Pos["start"] = 1 /\ Pos["buildPromptPack"] = 2 /\ Pos["importStoryboard"] = 3
    /\ Pos["awaitStoryboard"] = 4 /\ Pos["approveStoryboard"] = 5
    /\ Pos["generateShots"] = 6 /\ Pos["approveShots"] = 7 /\ Pos["generateVoice"] = 8
    /\ Pos["approveVoice"] = 9 /\ Pos["generateSubtitles"] = 10
    /\ Pos["approveSubtitles"] = 11 /\ Pos["render"] = 12 /\ Pos["productionQA"] = 13
    /\ Pos["approveRender"] = 14 /\ Pos["assemble"] = 15 /\ Pos["awaitRelease"] = 16
    /\ Pos["buildRelease"] = 17 /\ Pos["publishManifest"] = 18 /\ Pos["publishDryRun"] = 19
BY DEF Pos

LEMMA AwaitsKnown ==
    /\ DOMAIN Pos = {"start", "buildPromptPack", "importStoryboard", "awaitStoryboard",
           "approveStoryboard", "generateShots", "approveShots", "generateVoice",
           "approveVoice", "generateSubtitles", "approveSubtitles", "render",
           "productionQA", "approveRender", "assemble", "awaitRelease", "buildRelease",
           "publishManifest", "publishDryRun"}
    /\ \A p \in DOMAIN Pos : Pos[p] \in 1..19
<1>1. DOMAIN Pos = {"start", "buildPromptPack", "importStoryboard", "awaitStoryboard",
           "approveStoryboard", "generateShots", "approveShots", "generateVoice",
           "approveVoice", "generateSubtitles", "approveSubtitles", "render",
           "productionQA", "approveRender", "assemble", "awaitRelease", "buildRelease",
           "publishManifest", "publishDryRun"}
  BY DEF Pos
<1> QED BY <1>1, Awaits

LEMMA KindsApart ==
    /\ Storyboard \in Kinds /\ Shots \in Kinds /\ Voiceover \in Kinds /\ Subtitles \in Kinds
    /\ Render \in Kinds /\ Candidate \in Kinds /\ Release \in Kinds /\ Publish \in Kinds
    /\ Storyboard \notin {Shots, Voiceover, Subtitles, Render, Candidate, Release, Publish}
    /\ Shots \notin {Voiceover, Subtitles, Render, Candidate, Release, Publish}
    /\ Voiceover \notin {Subtitles, Render, Candidate, Release, Publish}
    /\ Subtitles \notin {Render, Candidate, Release, Publish}
    /\ Render \notin {Candidate, Release, Publish}
    /\ Candidate \notin {Release, Publish} /\ Release # Publish
    /\ Kinds = Components \cup {Candidate, Release, Publish}
    /\ Components = {Storyboard, Shots, Voiceover, Subtitles, Render}
BY DEF Kinds, Components, Storyboard, Shots, Voiceover, Subtitles, Render, Candidate,
       Release, Publish

LEMMA Moments ==
    /\ Made[Storyboard] = 3 /\ Stamped[Storyboard] = 3 /\ Done[Storyboard] = 5
    /\ Made[Shots] = 6 /\ Stamped[Shots] = 7 /\ Done[Shots] = 7
    /\ Made[Voiceover] = 8 /\ Stamped[Voiceover] = 9 /\ Done[Voiceover] = 9
    /\ Made[Subtitles] = 10 /\ Stamped[Subtitles] = 11 /\ Done[Subtitles] = 11
    /\ Made[Render] = 12 /\ Stamped[Render] = 14 /\ Done[Render] = 14
    /\ Made[Candidate] = 15 /\ Stamped[Candidate] = 15 /\ Done[Candidate] = 15
    /\ Made[Release] = 17 /\ Stamped[Release] = 17 /\ Done[Release] = 17
    /\ Made[Publish] = 18 /\ Stamped[Publish] = 18 /\ Done[Publish] = 18
BY KindsApart DEF Made, Stamped, Done

LEMMA ChannelsApart ==
    /\ StoryboardImageApproval \in Channels /\ ReleaseApproval \in Channels
    /\ StoryboardImageApproval # ReleaseApproval
    /\ \A c \in Channels : c = StoryboardImageApproval \/ c = ReleaseApproval
    /\ Waited[StoryboardImageApproval] = 4 /\ Waited[ReleaseApproval] = 16
BY DEF Channels, StoryboardImageApproval, ReleaseApproval, Waited

LEMMA ClearedTable ==
    /\ Cleared[1] = 0 /\ Cleared[2] = 1 /\ Cleared[3] = 1 /\ Cleared[4] = 1 /\ Cleared[5] = 1
    /\ Cleared[6] = 3 /\ Cleared[7] = 3 /\ Cleared[8] = 4 /\ Cleared[9] = 4
    /\ Cleared[10] = 4 /\ Cleared[11] = 4 /\ Cleared[12] = 5 /\ Cleared[13] = 5
    /\ Cleared[14] = 5 /\ Cleared[15] = 6 /\ Cleared[16] = 6 /\ Cleared[17] = 6
    /\ Cleared[18] = 7 /\ Cleared[19] = 7
    /\ \A n \in 1..19 : Cleared[n] \in 0..7
BY DEF Cleared

(***************************************************************************)
(* Steps. A step of the workflow goes on to the next await or closes, and  *)
(* changes one artifact at most.                                           *)
(***************************************************************************)
Onward(next) ==
    \/ pc' = next /\ result' = result
    \/ pc' = "closed" /\ result'.state # Completed

\* Only the artifact of kind k may change.
Only(k) ==
    /\ art' = [j \in Kinds |-> art'[j]] /\ stamped' = [j \in Kinds |-> stamped'[j]]
    /\ \A j \in Kinds \ {k} : art'[j] = art[j] /\ stamped'[j] = stamped[j]

MailKept == UNCHANGED <<inbox, sent, decided>>

\* From the n-th await, at which `next` follows, in a step that changes kind k.
GoesTo(n, next, k) ==
    /\ n \in 1..18 /\ IsOpen /\ Pos[pc] = n /\ next \in DOMAIN Pos /\ Pos[next] = n + 1
    /\ Onward(next) /\ Only(k) /\ UNCHANGED case

\* What the two signatures and the stamps need to know of a step: which artifact it may
\* stamp, that decisions once received stay, and what a step that closes has passed.
Orderly(n, next, k) ==
    /\ GoesTo(n, next, k) /\ k \in Kinds \cup {"nothing"}
    /\ k = Candidate => n = 15 /\ pc' # "closed"
    /\ k \in Kinds => n <= Stamped[k] \/ n = 5
    /\ \A c \in Channels : n > Waited[c] => decided'[c] = decided[c]
    /\ pc' = "closed" => passed' = passed \/ passed' = Append(passed, "self_approval")

Moved == \E n, next, k : Orderly(n, next, k)

LEMMA Moves ==
    ASSUME NEW n, NEW next, NEW k \in Kinds \cup {"nothing"}, GoesTo(n, next, k), MailKept,
           k = Candidate => n = 15 /\ pc' # "closed", k \in Kinds => n <= Stamped[k] \/ n = 5,
           pc' = "closed" => passed' = passed \/ passed' = Append(passed, "self_approval")
    PROVE  Moved
BY DEF Moved, Orderly, MailKept

LEMMA ClosedIsNoAwait == "closed" \notin DOMAIN Pos
BY AwaitsKnown

LEMMA StepShape ==
    ASSUME Shape, NEW n, NEW next, NEW k, GoesTo(n, next, k)
    PROVE  /\ IsOpen' => pc' = next /\ Pos[pc'] = n + 1 /\ result' = Running
           /\ ~IsOpen' => result'.state # Completed
           /\ art' = [j \in Kinds |-> art'[j]] /\ stamped' = [j \in Kinds |-> stamped'[j]]
           /\ MailKept => Shape'
BY ClosedIsNoAwait DEF Shape, GoesTo, Onward, Only, IsOpen, MailKept

LEMMA StepEarned ==
    ASSUME Shape, NEW n, NEW next, NEW k, GoesTo(n, next, k)
    PROVE  CompletedEarned'
BY StepShape DEF CompletedEarned

LEMMA StepMail ==
    ASSUME Shape, MailInv, NEW n, NEW next, NEW k, GoesTo(n, next, k), n \notin {4, 16}, MailKept
    PROVE  MailInv'
<1>1. IsOpen' => Pos[pc'] = n + 1
  BY StepShape
<1>2. ASSUME NEW c \in Channels, IsOpen'
      PROVE  IF Pos[pc'] <= Waited[c] THEN decided'[c] = None
             ELSE decided'[c] # None /\ decided'[c].decision = "approve"
  <2>1. /\ decided' = decided /\ Pos[pc] = n /\ IsOpen /\ n \in 1..18
        /\ Waited[c] \in {4, 16} /\ Pos[pc'] = n + 1
    BY <1>1, <1>2, ChannelsApart DEF MailKept, GoesTo
  <2>2. Pos[pc'] <= Waited[c] <=> Pos[pc] <= Waited[c]
    BY <2>1
  <2> QED BY <2>1, <2>2 DEF MailInv
<1>3. FirstDecisionCounts'
  BY DEF MailInv, FirstDecisionCounts, MailKept
<1> QED BY <1>2, <1>3 DEF MailInv, MailKept

LEMMA StepOthers ==
    ASSUME Shape, NEW j \in Kinds, KindInv(j), NEW n, NEW next, NEW k, GoesTo(n, next, k), j # k,
           n \notin {Made[j], Stamped[j], Done[j]}
    PROVE  KindInv(j)'
<1>1. IsOpen' => Pos[pc'] = n + 1
  BY StepShape
<1>2. /\ art'[j] = art[j] /\ stamped'[j] = stamped[j] /\ IsOpen /\ Pos[pc] = n /\ n \in 1..18
  BY DEF GoesTo, Only
<1>3. Made[j] \in 1..19 /\ Stamped[j] \in 1..19 /\ Done[j] \in 1..19
  BY Moments, KindsApart
<1>4. ASSUME IsOpen'
      PROVE  /\ Pos[pc'] <= Made[j] => Pos[pc] <= Made[j]
             /\ Pos[pc'] <= Stamped[j] => Pos[pc] <= Stamped[j]
             /\ Pos[pc'] > Done[j] => Pos[pc] > Done[j]
  BY <1>1, <1>2, <1>3, <1>4
<1> QED BY <1>2, <1>4 DEF KindInv, Approved

\* No gate stands between two awaits.
LEMMA StepUngated ==
    ASSUME Shape, GateInv, NEW n, NEW next, NEW k, GoesTo(n, next, k), passed' = passed,
           Cleared[n + 1] = Cleared[n]
    PROVE  GateInv'
<1>1. IsOpen' => Pos[pc'] = n + 1
  BY StepShape
<1>2. Prefix(passed, Cleared[n])
  BY DEF GateInv, GoesTo
<1> QED BY <1>1, <1>2 DEF GateInv

\* One gate does, and it passed unless the workflow closed.
LEMMA StepGated ==
    ASSUME Shape, GateInv, NEW n, NEW next, NEW k, GoesTo(n, next, k),
           Cleared[n + 1] = Cleared[n] + 1,
           \/ pc' = next /\ passed' = Append(passed, GateOrder[Cleared[n] + 1])
           \/ pc' = "closed" /\ passed' = passed
    PROVE  GateInv'
<1>1. /\ IsOpen' => Pos[pc'] = n + 1
      /\ Cleared[n] \in 0..7 /\ pc # "closed" /\ next # "closed"
  BY StepShape, ClearedTable, ClosedIsNoAwait DEF GoesTo, IsOpen
<1>2. passed \in Seq(GateNames) /\ Prefix(passed, Cleared[n])
  BY DEF GateInv, GoesTo
<1>3. CASE pc' = next
  <2>1. Prefix(passed', Cleared[n] + 1)
    BY <1>1, <1>2, <1>3, PrefixGrows
  <2>2. passed' \in Seq(GateNames)
    BY <2>1 DEF Prefix
  <2> QED BY <1>1, <2>1, <2>2 DEF GateInv
<1>4. CASE pc' = "closed" /\ passed' = passed
  BY <1>2, <1>4 DEF GateInv, IsOpen
<1> QED BY <1>3, <1>4

\* Before the storyboard is approved nothing is made from it.
LEMMA ChainEarly ==
    ASSUME Shape, \A j \in Kinds : KindInv(j), NEW n, NEW next, NEW k, GoesTo(n, next, k),
           n \in 1..4, k \notin {Shots, Candidate, Release, Publish}
    PROVE  ChainInv'
<1>1. IsOpen' => Pos[pc'] = n + 1
  BY StepShape
<1>2. \A j \in {Shots, Candidate, Release, Publish} : art'[j] = None
  <2> SUFFICES ASSUME NEW j \in {Shots, Candidate, Release, Publish} PROVE art'[j] = None
    OBVIOUS
  <2>1. j \in Kinds /\ art'[j] = art[j]
    BY KindsApart DEF GoesTo, Only
  <2>2. Pos[pc] <= Made[j] /\ IsOpen
    BY Moments DEF GoesTo
  <2> QED BY <2>1, <2>2 DEF KindInv
<1> QED BY <1>1, <1>2 DEF ChainInv

\* From there to the candidate the storyboard and its approval stay.
LEMMA ChainMiddle ==
    ASSUME Shape, ChainInv, \A j \in Kinds : KindInv(j), NEW n, NEW next, NEW k,
           GoesTo(n, next, k), MailKept, n \in 6..14,
           k \notin {Storyboard, Candidate, Release, Publish},
           n = 14 /\ IsOpen' => Rendered'
    PROVE  ChainInv'
<1>1. IsOpen' => Pos[pc'] = n + 1
  BY StepShape
<1>2. \A j \in {Candidate, Release, Publish} : art'[j] = None
  <2> SUFFICES ASSUME NEW j \in {Candidate, Release, Publish} PROVE art'[j] = None
    OBVIOUS
  <2>1. j \in Kinds /\ art'[j] = art[j]
    BY KindsApart DEF GoesTo, Only
  <2>2. Pos[pc] <= Made[j] /\ IsOpen
    BY Moments DEF GoesTo
  <2> QED BY <2>1, <2>2 DEF KindInv
<1>3. Reviewed
  BY DEF ChainInv, GoesTo
<1>4. Reviewed'
  BY <1>3, KindsApart DEF Reviewed, GoesTo, Only, MailKept
<1> QED BY <1>1, <1>2, <1>4 DEF ChainInv

\* A step that makes a draft, or nothing at all, between the two approvals of people.
LEMMA StepsInside ==
    ASSUME WorkflowInv, NEW n, NEW next, NEW k, GoesTo(n, next, k), MailKept,
           n \in 6..14, k \in {Shots, Voiceover, Subtitles, Render, "nothing"},
           \A j \in Kinds \ {k} : n \notin {Made[j], Stamped[j], Done[j]},
           k \in Kinds => KindInv(k)', n = 14 /\ IsOpen' => Rendered', DraftInv', GateInv'
    PROVE  WorkflowInv'
<1>1. Shape' /\ CompletedEarned' /\ MailInv'
  BY StepShape, StepEarned, StepMail DEF WorkflowInv
<1>2. \A j \in Kinds : KindInv(j)'
  BY StepOthers DEF WorkflowInv
<1>3. ChainInv'
  BY ChainMiddle, KindsApart DEF WorkflowInv, Storyboard, Candidate, Release, Publish
<1> QED BY <1>1, <1>2, <1>3 DEF WorkflowInv

(***************************************************************************)
(* The actions.                                                            *)
(***************************************************************************)
LEMMA WorkflowStarts == Init => WorkflowInv
<1> SUFFICES ASSUME Init PROVE WorkflowInv
  OBVIOUS
<1>1. /\ IsOpen /\ Pos[pc] = 1 /\ pc \in DOMAIN Pos /\ pc = "start"
      /\ \A k \in Kinds : art[k] = None /\ stamped[k] = None
      /\ \A c \in Channels : inbox[c] = <<>> /\ sent[c] = <<>> /\ decided[c] = None
  BY Awaits, AwaitsKnown DEF Init, IsOpen
<1>2. Shape
  BY <1>1 DEF Init, Shape
<1>3. GateInv
  <2>1. passed = <<>> /\ Cleared[Pos[pc]] = 0
    BY <1>1, ClearedTable DEF Init
  <2>2. <<>> \in Seq(GateNames) /\ Len(<<>>) = 0
    BY EmptySeq
  <2> QED BY <2>1, <2>2 DEF GateInv, Prefix
<1>4. \A k \in Kinds : KindInv(k)
  BY <1>1, Moments, KindsApart DEF KindInv
<1>5. DraftInv
  BY <1>1 DEF DraftInv
<1>6. MailInv
  <2>1. <<>> \in Seq(Signals)
    BY EmptySeq
  <2>2. \A c \in Channels : Pos[pc] <= Waited[c]
    BY <1>1, ChannelsApart
  <2>3. FirstDecisionCounts
    BY <1>1 DEF FirstDecisionCounts
  <2> QED BY <1>1, <2>1, <2>2, <2>3 DEF MailInv
<1>7. ChainInv
  <2>1. art[Shots] = None /\ art[Candidate] = None /\ art[Release] = None /\ art[Publish] = None
    BY <1>1, KindsApart
  <2> QED BY <1>1, <2>1 DEF ChainInv
<1>8. CompletedEarned
  BY DEF Init, CompletedEarned
<1> QED BY <1>2, <1>3, <1>4, <1>5, <1>6, <1>7, <1>8 DEF WorkflowInv

\* The steps up to the first decision.
LEMMA StepsBefore ==
    ASSUME WorkflowInv, NEW n, NEW next, NEW k, GoesTo(n, next, k), MailKept,
           n \in 1..3, k \in {Storyboard, "nothing"},
           \A j \in Kinds \ {k} : n \notin {Made[j], Stamped[j], Done[j]},
           k \in Kinds => KindInv(k)', DraftInv', GateInv'
    PROVE  WorkflowInv'
<1>1. Shape' /\ CompletedEarned' /\ MailInv'
  BY StepShape, StepEarned, StepMail DEF WorkflowInv
<1>2. \A j \in Kinds : KindInv(j)'
  BY StepOthers DEF WorkflowInv
<1>3. k \notin {Shots, Candidate, Release, Publish}
  BY DEF Storyboard, Shots, Candidate, Release, Publish
<1>4. ChainInv'
  BY <1>3, ChainEarly DEF WorkflowInv
<1> QED BY <1>1, <1>2, <1>4 DEF WorkflowInv

LEMMA NothingMade ==
    ASSUME Shape, UNCHANGED <<art, stamped>>
    PROVE  Only("nothing") /\ "nothing" \notin Kinds
BY KindsApart DEF Shape, Only, Storyboard, Shots, Voiceover, Subtitles, Render, Candidate,
                  Release, Publish

LEMMA NoMoment == \A j \in Kinds : /\ Made[j] \in {3, 6, 8, 10, 12, 15, 17, 18}
                                   /\ Stamped[j] \in {3, 7, 9, 11, 14, 15, 17, 18}
                                   /\ Done[j] \in {5, 7, 9, 11, 14, 15, 17, 18}
BY Moments, KindsApart

LEMMA StartKeeps == ASSUME WorkflowInv, Start PROVE WorkflowInv' /\ Moved
<1>1. /\ pc = "start" /\ IsOpen /\ Pos[pc] = 1 /\ UNCHANGED case /\ MailKept
      /\ UNCHANGED <<art, stamped>>
  BY Awaits DEF Start, IsOpen, MailKept
<1>2. \/ pc' = "buildPromptPack" /\ result' = result /\ passed' = Append(passed, "provenance")
      \/ /\ pc' = "closed" /\ result' = [state |-> "blocked", failed |-> FALSE]
         /\ passed' = passed
  <2>1. passed \in Seq(GateNames) /\ "provenance" \in GateNames
    BY GatesNamed, GateTable DEF WorkflowInv, GateInv
  <2>2. Gates(<<Verdict("provenance", ProvenanceGate(in))>>, "buildPromptPack", "provenance_ok")
    BY DEF Start
  <2> QED BY <2>1, <2>2, OneGate
<1>3. GoesTo(1, "buildPromptPack", "nothing")
  BY <1>1, <1>2, Awaits, AwaitsKnown, NothingMade DEF GoesTo, Onward, WorkflowInv, Completed
<1>4. GateInv'
  <2>1. Cleared[1] = 0 /\ Cleared[1 + 1] = Cleared[1] + 1 /\ GateOrder[Cleared[1] + 1] = "provenance"
    BY ClearedTable, GateTable
  <2> QED BY <1>2, <1>3, <2>1, StepGated DEF WorkflowInv
<1>5. DraftInv'
  BY <1>2 DEF DraftInv
<1>inv. WorkflowInv'
  BY <1>1, <1>3, <1>4, <1>5, NoMoment, NothingMade, StepsBefore DEF WorkflowInv
<1>mov. Moved
  BY <1>1, <1>2, <1>3, NothingMade, Moves, KindsApart DEF WorkflowInv, Candidate
<1> QED BY <1>inv, <1>mov

LEMMA PromptPackKeeps == ASSUME WorkflowInv, BuildStoryboardPromptPack PROVE WorkflowInv' /\ Moved
<1>1. /\ pc = "buildPromptPack" /\ IsOpen /\ Pos[pc] = 2 /\ UNCHANGED case /\ MailKept
      /\ UNCHANGED <<art, stamped>> /\ passed' = passed /\ result' = result
      /\ pc' = "importStoryboard"
  BY Awaits DEF BuildStoryboardPromptPack, GoOn, IsOpen, MailKept
<1>2. GoesTo(2, "importStoryboard", "nothing")
  BY <1>1, Awaits, AwaitsKnown, NothingMade DEF GoesTo, Onward, WorkflowInv
<1>3. GateInv'
  <2>1. Cleared[2 + 1] = Cleared[2]
    BY ClearedTable
  <2> QED BY <1>1, <1>2, <2>1, StepUngated DEF WorkflowInv
<1>4. DraftInv'
  BY <1>1 DEF DraftInv
<1>inv. WorkflowInv'
  BY <1>1, <1>2, <1>3, <1>4, NoMoment, NothingMade, StepsBefore DEF WorkflowInv
<1>mov. Moved
  BY <1>1, <1>2, NothingMade, Moves DEF WorkflowInv, Candidate
<1> QED BY <1>inv, <1>mov

LEMMA ReturnsOnly ==
    ASSUME Shape, NEW a, NEW k \in Kinds, NEW value, Returns(a, k, value),
           stamped' = stamped \/ Stamp(k)
    PROVE  /\ pc = a /\ Only(k) /\ art'[k] = value /\ value # None
           /\ MailKept /\ UNCHANGED case
           /\ Stamp(k) => stamped'[k] = value
BY DEF Shape, Returns, Stamp, Only, MailKept

LEMMA ImportKeeps == ASSUME WorkflowInv, ImportStoryboard PROVE WorkflowInv' /\ Moved
<1> DEFINE value == ImportStoryboardImages(in, defect)
<1>1. Returns("importStoryboard", Storyboard, value) /\ Stamp(Storyboard)
  BY DEF ImportStoryboard
<1>2. pc' = "awaitStoryboard" /\ passed' = passed /\ result' = result
  BY DEF ImportStoryboard, GoOn
<1> HIDE DEF value
<1>3. /\ pc = "importStoryboard" /\ Only(Storyboard) /\ art'[Storyboard] = value
      /\ value # None /\ MailKept /\ UNCHANGED case /\ stamped'[Storyboard] = value
  BY <1>1, KindsApart, ReturnsOnly DEF WorkflowInv
<1>4. IsOpen /\ Pos[pc] = 3 /\ Pos["awaitStoryboard"] = 4 /\ "awaitStoryboard" \in DOMAIN Pos
  BY <1>3, Awaits, AwaitsKnown DEF IsOpen
<1>5. GoesTo(3, "awaitStoryboard", Storyboard)
  BY <1>2, <1>3, <1>4 DEF GoesTo, Onward
<1>6. GateInv'
  <2>1. Cleared[3 + 1] = Cleared[3]
    BY ClearedTable
  <2> QED BY <1>2, <1>5, <2>1, StepUngated DEF WorkflowInv
<1>7. DraftInv'
  <2>1. ImportStoryboardImages(in, defect)' = value
    BY <1>3 DEF value, in, defect
  <2> QED BY <1>2, <1>3, <2>1 DEF DraftInv, Drafted
<1>8. KindInv(Storyboard)'
  BY <1>2, <1>4, Moments DEF KindInv
<1>9. \A j \in Kinds \ {Storyboard} : 3 \notin {Made[j], Stamped[j], Done[j]}
  BY Moments, KindsApart
<1>inv. WorkflowInv'
  BY <1>3, <1>5, <1>6, <1>7, <1>8, <1>9, StepsBefore
<1>mov. Moved
  BY <1>2, <1>3, <1>5, Moments, KindsApart, Moves
<1> QED BY <1>inv, <1>mov

LEMMA HeadAndTail ==
    ASSUME NEW R, NEW s \in Seq(R), s # <<>>
    PROVE  Head(s) \in R /\ Tail(s) \in Seq(R)
BY HeadTailProperties

LEMMA ReceiveStep ==
    ASSUME WorkflowInv, NEW c \in Channels, NEW wait \in DOMAIN Pos, NEW next \in DOMAIN Pos,
           NEW refusal, Receive(c, wait, next, refusal), refusal # Completed,
           Pos[wait] = Waited[c], Pos[next] = Waited[c] + 1
    PROVE  /\ GoesTo(Waited[c], next, "nothing") /\ Shape' /\ MailInv' /\ passed' = passed
           /\ UNCHANGED <<art, stamped>>
           /\ \A b \in Channels \ {c} : decided'[b] = decided[b]
<1> DEFINE signal == Head(inbox[c])
<1>1. /\ pc = wait /\ inbox[c] # <<>> /\ UNCHANGED <<case, sent, art, stamped>>
      /\ decided' = [decided EXCEPT ![c] = signal] /\ inbox' = [inbox EXCEPT ![c] = Tail(@)]
      /\ IF signal.decision = "approve" THEN GoOn(next, shown) ELSE Close(refusal, FALSE)
  BY DEF Receive
<1>2. /\ \/ pc' = next /\ result' = result /\ signal.decision = "approve"
         \/ pc' = "closed" /\ result' = [state |-> refusal, failed |-> FALSE]
      /\ passed' = passed
  BY <1>1 DEF GoOn, Close
<1>3. IsOpen /\ Waited[c] \in {4, 16}
  BY <1>1, ClosedIsNoAwait, ChannelsApart DEF IsOpen
<1>4. GoesTo(Waited[c], next, "nothing")
  <2>1. Only("nothing")
    BY <1>1, NothingMade DEF WorkflowInv
  <2> QED BY <1>1, <1>2, <1>3, <2>1 DEF GoesTo, Onward
<1>5. /\ inbox[c] \in Seq(Signals) /\ decided[c] = None
      /\ decided = [b \in Channels |-> decided[b]] /\ inbox = [b \in Channels |-> inbox[b]]
      /\ sent = [b \in Channels |-> sent[b]] /\ inbox[c] = sent[c]
  BY <1>1, <1>3 DEF WorkflowInv, MailInv, Shape, FirstDecisionCounts
<1>6. signal \in Signals /\ Tail(inbox[c]) \in Seq(Signals)
  BY <1>1, <1>5, HeadAndTail
<1> HIDE DEF signal
<1>7. /\ decided'[c] = signal /\ inbox'[c] = Tail(inbox[c]) /\ sent' = sent
      /\ \A b \in Channels \ {c} : decided'[b] = decided[b] /\ inbox'[b] = inbox[b]
      /\ decided' = [b \in Channels |-> decided'[b]] /\ inbox' = [b \in Channels |-> inbox'[b]]
  BY <1>1, <1>5
<1>8. signal # None
  BY <1>6, SignalAssumption
<1>9. Shape'
  BY <1>2, <1>4, <1>5, <1>7, StepShape DEF WorkflowInv, Shape, IsOpen
<1>10. MailInv'
  <2>1. IsOpen' => Pos[pc'] = Waited[c] + 1 /\ signal.decision = "approve"
    BY <1>2, <1>4, StepShape DEF WorkflowInv, IsOpen
  <2>2. ASSUME NEW b \in Channels
        PROVE  /\ inbox'[b] \in Seq(Signals) /\ sent'[b] \in Seq(Signals)
               /\ decided'[b] \in Signals \cup {None} /\ (decided'[b] # None => sent'[b] # <<>>)
    BY <1>1, <1>5, <1>6, <1>7 DEF WorkflowInv, MailInv
  <2>3. ASSUME NEW b \in Channels, IsOpen'
        PROVE  IF Pos[pc'] <= Waited[b] THEN decided'[b] = None
               ELSE decided'[b] # None /\ decided'[b].decision = "approve"
    <3>1. CASE b = c
      BY <1>3, <1>7, <1>8, <2>1, <2>3, <3>1
    <3>2. CASE b # c
      <4>1. Pos[pc'] <= Waited[b] <=> Pos[pc] <= Waited[b]
        BY <1>1, <1>3, <2>1, <2>3, <3>2, ChannelsApart
      <4> QED BY <1>3, <1>7, <3>2, <4>1 DEF WorkflowInv, MailInv
    <3> QED BY <3>1, <3>2
  <2>4. FirstDecisionCounts'
    BY <1>5, <1>7, <1>8 DEF WorkflowInv, MailInv, FirstDecisionCounts, signal
  <2> QED BY <2>2, <2>3, <2>4 DEF MailInv
<1> QED BY <1>1, <1>2, <1>4, <1>7, <1>9, <1>10

LEMMA StoryboardDecisionKeeps == ASSUME WorkflowInv, ReceiveStoryboardApproval PROVE WorkflowInv' /\ Moved
<1> DEFINE c == StoryboardImageApproval
<1>1. /\ "awaitStoryboard" \in DOMAIN Pos /\ "approveStoryboard" \in DOMAIN Pos
      /\ Pos["awaitStoryboard"] = Waited[c] /\ Pos["approveStoryboard"] = Waited[c] + 1
      /\ Waited[c] = 4 /\ c \in Channels
  BY Awaits, AwaitsKnown, ChannelsApart
<1>2. Receive(c, "awaitStoryboard", "approveStoryboard", "storyboard_rejected")
  BY DEF ReceiveStoryboardApproval
<1>3. "storyboard_rejected" # Completed
  BY DEF Completed
<1> HIDE DEF c
<1>4. /\ GoesTo(4, "approveStoryboard", "nothing") /\ Shape' /\ MailInv' /\ passed' = passed
      /\ UNCHANGED <<art, stamped>>
  BY <1>1, <1>2, <1>3, ReceiveStep
<1>5. GateInv'
  <2>1. Cleared[4 + 1] = Cleared[4]
    BY ClearedTable
  <2> QED BY <1>4, <2>1, StepUngated DEF WorkflowInv
<1>6. \A j \in Kinds : KindInv(j)'
  BY <1>4, NoMoment, NothingMade, StepOthers DEF WorkflowInv
<1>7. DraftInv'
  <2>1. pc = "awaitStoryboard" /\ UNCHANGED case
    BY <1>2, <1>4 DEF Receive, GoesTo
  <2>2. pc' \in {"approveStoryboard", "closed"}
    BY <1>4 DEF GoesTo, Onward
  <2> QED BY <1>4, <2>1, <2>2 DEF WorkflowInv, DraftInv, Drafted, in, defect
<1>8. ChainInv'
  <2>1. "nothing" \notin {Shots, Candidate, Release, Publish}
    BY DEF Shots, Candidate, Release, Publish
  <2> QED BY <1>4, <2>1, ChainEarly DEF WorkflowInv
<1>9. CompletedEarned'
  BY <1>4, StepEarned DEF WorkflowInv
<1>inv. WorkflowInv'
  BY <1>4, <1>5, <1>6, <1>7, <1>8, <1>9 DEF WorkflowInv
<1>mov. Moved
  BY <1>4, ChannelsApart, NothingMade DEF Moved, Orderly, WorkflowInv, Candidate
<1> QED BY <1>inv, <1>mov

LEMMA ReleaseDecisionKeeps == ASSUME WorkflowInv, ReceiveReleaseApproval PROVE WorkflowInv' /\ Moved
<1> DEFINE c == ReleaseApproval
<1>1. /\ "awaitRelease" \in DOMAIN Pos /\ "buildRelease" \in DOMAIN Pos
      /\ Pos["awaitRelease"] = Waited[c] /\ Pos["buildRelease"] = Waited[c] + 1
      /\ Waited[c] = 16 /\ c \in Channels
  BY Awaits, AwaitsKnown, ChannelsApart
<1>2. Receive(c, "awaitRelease", "buildRelease", "release_denied")
  BY DEF ReceiveReleaseApproval
<1>3. "release_denied" # Completed
  BY DEF Completed
<1> HIDE DEF c
<1>4. /\ GoesTo(16, "buildRelease", "nothing") /\ Shape' /\ MailInv' /\ passed' = passed
      /\ UNCHANGED <<art, stamped>> /\ \A b \in Channels \ {c} : decided'[b] = decided[b]
  BY <1>1, <1>2, <1>3, ReceiveStep
<1>5. GateInv'
  <2>1. Cleared[16 + 1] = Cleared[16]
    BY ClearedTable
  <2> QED BY <1>4, <2>1, StepUngated DEF WorkflowInv
<1>6. \A j \in Kinds : KindInv(j)'
  BY <1>4, NoMoment, NothingMade, StepOthers DEF WorkflowInv
<1>7. pc' \in {"buildRelease", "closed"}
  BY <1>4 DEF GoesTo, Onward
<1>8. DraftInv'
  BY <1>7 DEF DraftInv
<1>9. ChainInv'
  <2>1. art[Release] = None /\ art[Publish] = None
    <3>1. \A j \in {Release, Publish} : Pos[pc] <= Made[j] /\ j \in Kinds
      BY <1>4, Moments, KindsApart DEF GoesTo
    <3> QED BY <1>4, <3>1 DEF WorkflowInv, KindInv, GoesTo
  <2>2. IsOpen /\ Pos[pc] = 16 /\ case' = case /\ (IsOpen' => Pos[pc'] = 17)
    BY <1>4, StepShape DEF GoesTo, WorkflowInv
  <2>3. art[Candidate] # None /\ Rendered /\ Reviewed
    BY <2>2 DEF WorkflowInv, ChainInv
  <2>4. decided'[StoryboardImageApproval] = decided[StoryboardImageApproval]
    BY <1>4, ChannelsApart DEF c
  <2>5. Reviewed' /\ Rendered'
    BY <1>4, <2>2, <2>3, <2>4 DEF Reviewed, Rendered, in
  <2> QED BY <1>4, <2>1, <2>2, <2>3, <2>5 DEF WorkflowInv, ChainInv, Approved
<1>10. CompletedEarned'
  BY <1>4, StepEarned DEF WorkflowInv
<1>inv. WorkflowInv'
  BY <1>4, <1>5, <1>6, <1>8, <1>9, <1>10 DEF WorkflowInv
<1>mov. Moved
  BY <1>4, ChannelsApart, NothingMade DEF Moved, Orderly, WorkflowInv, Candidate, c
<1> QED BY <1>inv, <1>mov


LEMMA StoryboardApproved ==
    ASSUME NEW i, NEW d, NEW m, NEW who, m = ImportStoryboardImages(i, d), m # None
    PROVE  LET a == ApproveStoryboardImages(m, who) IN
           /\ a.kind = Storyboard /\ a.status = "approved" /\ a.createdBy = System
           /\ \A image \in Elements(a.images) :
                  image.status = "approved" /\ image.approvedBy = who
<1> DEFINE a == ApproveStoryboardImages(m, who)
<1>1. m = [kind |-> Storyboard, createdBy |-> System, status |-> "draft",
           source |-> "chatgpt_manual", operator |-> i.operator,
           images |-> [n \in DOMAIN i.scenes |->
              [scene |-> i.scenes[n].id, hash |-> i.scenes[n].id,
               seconds |-> i.scenes[n].seconds, status |-> "draft",
               reviewed |-> FALSE, approvedBy |-> Unsigned]]]
  BY DEF ImportStoryboardImages
<1>2. /\ a.kind = Storyboard /\ a.status = "approved" /\ a.createdBy = System
      /\ a.images = [n \in DOMAIN i.scenes |->
             [m.images[n] EXCEPT !.status = "approved", !.reviewed = TRUE, !.approvedBy = who]]
  BY <1>1 DEF ApproveStoryboardImages
<1> HIDE DEF a
<1>3. ASSUME NEW n \in DOMAIN i.scenes
      PROVE  a.images[n].status = "approved" /\ a.images[n].approvedBy = who
  <2>1. m.images[n] = [scene |-> i.scenes[n].id, hash |-> i.scenes[n].id,
                       seconds |-> i.scenes[n].seconds, status |-> "draft",
                       reviewed |-> FALSE, approvedBy |-> Unsigned]
    BY <1>1
  <2>2. a.images[n] = [m.images[n] EXCEPT !.status = "approved", !.reviewed = TRUE,
                                          !.approvedBy = who]
    BY <1>2
  <2> HIDE DEF a
  <2> QED BY <2>1, <2>2
<1>4. DOMAIN a.images = DOMAIN i.scenes
  BY <1>2
<1>5. \A image \in Elements(a.images) : image.status = "approved" /\ image.approvedBy = who
  BY <1>3, <1>4 DEF Elements
<1> QED BY <1>2, <1>5 DEF a

\* A human signed what the providers made, or the gate refuses.
LEMMA MachineWorkNeedsHuman ==
    ASSUME NEW who, SelfApprovalGate(System, who) = {} PROVE IsHuman(who)
BY IdentityAssumption DEF SelfApprovalGate, Require

LEMMA ApproveStoryboardKeeps == ASSUME WorkflowInv, ApproveStoryboard PROVE WorkflowInv' /\ Moved
<1> DEFINE signal == decided[StoryboardImageApproval]
           m == ApproveStoryboardImages(art[Storyboard], signal.approver)
           why == SelfApprovalGate(m.createdBy, signal.approver)
           whyNot == StoryboardImageGate(m, in.scenes)
<1>1. /\ Returns("approveStoryboard", Storyboard, m) /\ Stamp(Storyboard)
      /\ Gates(<<Verdict("self_approval", why), Verdict("storyboard_image", whyNot)>>,
               "generateShots", "storyboard_approved")
  BY DEF ApproveStoryboard
<1>2. /\ m.kind = Storyboard /\ m.status = "approved" /\ m.createdBy = System
      /\ \A image \in Elements(m.images) :
             image.status = "approved" /\ image.approvedBy = signal.approver
  <2>1. Drafted(Storyboard, ImportStoryboardImages(in, defect))
    BY <1>1 DEF Returns, WorkflowInv, DraftInv
  <2> QED BY <2>1, StoryboardApproved DEF Drafted
<1> HIDE DEF m, why, whyNot
<1>3. /\ pc = "approveStoryboard" /\ Only(Storyboard) /\ art'[Storyboard] = m
      /\ m # None /\ MailKept /\ UNCHANGED case /\ stamped'[Storyboard] = m
  BY <1>1, KindsApart, ReturnsOnly DEF WorkflowInv
<1>4. \/ /\ why = {} /\ passed' = Append(Append(passed, "self_approval"), "storyboard_image")
         /\ pc' = "generateShots" /\ result' = result
      \/ /\ passed' = passed \/ passed' = Append(passed, "self_approval")
         /\ pc' = "closed" /\ result' = [state |-> "blocked", failed |-> FALSE]
  <2>1. passed \in Seq(GateNames) /\ "self_approval" \in GateNames
        /\ "storyboard_image" \in GateNames
    BY GatesNamed, GateTable DEF WorkflowInv, GateInv
  <2> QED BY <1>1, <2>1, TwoGates
<1>5. /\ IsOpen /\ Pos[pc] = 5 /\ Pos["generateShots"] = 6 /\ "generateShots" \in DOMAIN Pos
      /\ "generateShots" # "closed"
  BY <1>3, Awaits, AwaitsKnown DEF IsOpen
<1>6. GoesTo(5, "generateShots", Storyboard)
  BY <1>3, <1>4, <1>5 DEF GoesTo, Onward, Completed
<1>7. GateInv'
  <2>1. Prefix(passed, 1) /\ passed \in Seq(GateNames)
    BY <1>5, ClearedTable DEF WorkflowInv, GateInv
  <2>2. Prefix(Append(passed, "self_approval"), 2)
    <3>1. GateOrder[1 + 1] = "self_approval" /\ 1 \in 0..7 /\ 1 + 1 = 2
      BY GateTable
    <3> QED BY <2>1, <3>1, PrefixGrows
  <2>3. Prefix(Append(Append(passed, "self_approval"), "storyboard_image"), 3)
    <3>1. GateOrder[2 + 1] = "storyboard_image" /\ 2 \in 0..7 /\ 2 + 1 = 3
      BY GateTable
    <3> QED BY <2>2, <3>1, PrefixGrows
  <2>4. passed' \in Seq(GateNames)
    BY <1>4, <2>1, <2>2, <2>3 DEF Prefix
  <2>5. ASSUME IsOpen' PROVE Prefix(passed', Cleared[Pos[pc']])
    <3>1. pc' = "generateShots" /\ Cleared[6] = 3
      BY <1>4, <2>5, ClearedTable DEF IsOpen
    <3> QED BY <1>4, <1>5, <2>3, <3>1
  <2> QED BY <2>4, <2>5 DEF GateInv
<1>8. \A j \in Kinds : KindInv(j)'
  <2>1. KindInv(Storyboard)'
    BY <1>2, <1>3, <1>5, <1>6, StepShape, Moments DEF KindInv, Approved, WorkflowInv
  <2>2. ASSUME NEW j \in Kinds \ {Storyboard} PROVE KindInv(j)'
    <3>1. 5 \notin {Made[j], Stamped[j], Done[j]}
      BY Moments, KindsApart
    <3> QED BY <1>6, <3>1, StepOthers DEF WorkflowInv
  <2> QED BY <2>1, <2>2
<1>9. DraftInv'
  BY <1>4 DEF DraftInv
<1>10. ChainInv'
  <2>1. \A j \in {Shots, Candidate, Release, Publish} : art'[j] = None
    <3> SUFFICES ASSUME NEW j \in {Shots, Candidate, Release, Publish} PROVE art'[j] = None
      OBVIOUS
    <3>1. j \in Kinds /\ art'[j] = art[j]
      BY <1>3, KindsApart DEF Only
    <3>2. Pos[pc] <= Made[j]
      BY <1>5, Moments
    <3> QED BY <1>5, <3>1, <3>2 DEF WorkflowInv, KindInv
  <2>2. IsOpen' => Pos[pc'] = 6 /\ why = {}
    BY <1>4, <1>5 DEF IsOpen
  <2>3. why = {} => IsHuman(signal.approver)
    BY <1>2, MachineWorkNeedsHuman DEF why
  <2>4. signal.decision = "approve"
    <3>1. ~(Pos[pc] <= Waited[StoryboardImageApproval])
      BY <1>5, ChannelsApart
    <3> QED BY <1>5, <3>1, ChannelsApart DEF WorkflowInv, MailInv
  <2>5. IsOpen' => Reviewed'
    <3>1. decided' = decided
      BY <1>3 DEF MailKept
    <3> QED BY <1>2, <1>3, <2>2, <2>3, <2>4, <3>1 DEF Reviewed
  <2> QED BY <2>1, <2>2, <2>5 DEF ChainInv
<1>11. Shape' /\ CompletedEarned' /\ MailInv'
  BY <1>3, <1>6, StepShape, StepEarned, StepMail DEF WorkflowInv
<1>inv. WorkflowInv'
  BY <1>7, <1>8, <1>9, <1>10, <1>11 DEF WorkflowInv
<1>mov. Moved
  BY <1>3, <1>4, <1>6, KindsApart, Moves
<1> QED BY <1>inv, <1>mov

\* An activity that fills an artifact variable and stamps nothing.
LEMMA GenerateStep ==
    ASSUME WorkflowInv, NEW n \in {6, 8, 10, 12}, NEW k \in {Shots, Voiceover, Subtitles, Render},
           NEW a \in DOMAIN Pos, NEW next \in DOMAIN Pos, NEW value,
           Generate(a, k, value, next), Pos[a] = n, Pos[next] = n + 1,
           Made[k] = n, Stamped[k] > n, Done[k] > n, Cleared[n + 1] = Cleared[n],
           \A j \in Kinds \ {k} : n \notin {Made[j], Stamped[j], Done[j]}
    PROVE  /\ pc' = next /\ UNCHANGED case /\ value # None /\ art'[k] = value
           /\ \A j \in Kinds \ {k} : art'[j] = art[j]
           /\ Moved /\ (DraftInv' => WorkflowInv')
<1>1. /\ k \in Kinds /\ Returns(a, k, value) /\ pc' = next
      /\ UNCHANGED <<stamped, passed, result>>
  BY KindsApart DEF Generate, GoOn
<1>2. pc = a /\ Only(k) /\ art'[k] = value /\ value # None /\ MailKept /\ UNCHANGED case
  BY <1>1, ReturnsOnly DEF WorkflowInv
<1>3. IsOpen /\ n \in 6..14
  BY <1>2, ClosedIsNoAwait DEF IsOpen
<1>4. GoesTo(n, next, k)
  BY <1>1, <1>2, <1>3 DEF GoesTo, Onward
<1>5. GateInv'
  BY <1>1, <1>4, StepUngated DEF WorkflowInv
<1>6. KindInv(k)'
  <2>1. stamped'[k] = None
    <3>1. Pos[pc] <= Stamped[k]
      BY <1>2, Moments
    <3> QED BY <1>1, <1>3, <3>1 DEF WorkflowInv, KindInv
  <2>2. Pos[pc'] = n + 1 /\ ~(n + 1 <= Made[k]) /\ ~(n + 1 > Done[k])
    BY <1>1, Moments
  <2> QED BY <2>1, <2>2 DEF KindInv
<1>7. n # 14
  OBVIOUS
<1>8. Moved
  <2>1. k # Candidate /\ n <= Stamped[k] /\ k \in Kinds
    BY KindsApart, Moments
  <2>2. pc' = "closed" => passed' = passed
    BY <1>1
  <2> QED BY <1>2, <1>4, <2>1, <2>2, Moves
<1> QED BY <1>1, <1>2, <1>3, <1>4, <1>5, <1>6, <1>7, <1>8, StepsInside DEF Only

LEMMA GenerateShotsKeeps == ASSUME WorkflowInv, GenerateShots PROVE WorkflowInv' /\ Moved
<1> DEFINE value == GenerateVisualShots(art[Storyboard], defect)
<1>1. Generate("generateShots", Shots, value, "approveShots")
  BY DEF GenerateShots
<1> HIDE DEF value
<1>2. \A j \in Kinds \ {Shots} : 6 \notin {Made[j], Stamped[j], Done[j]}
  BY Moments, KindsApart
<1>3. /\ "generateShots" \in DOMAIN Pos /\ "approveShots" \in DOMAIN Pos
      /\ Pos["generateShots"] = 6 /\ Pos["approveShots"] = 6 + 1
      /\ Cleared[6 + 1] = Cleared[6] /\ Made[Shots] = 6 /\ Stamped[Shots] > 6 /\ Done[Shots] > 6
  BY Awaits, AwaitsKnown, ClearedTable, Moments
<1>4. /\ pc' = "approveShots" /\ UNCHANGED case /\ value # None /\ art'[Shots] = value
      /\ \A j \in Kinds \ {Shots} : art'[j] = art[j]
      /\ Moved /\ (DraftInv' => WorkflowInv')
  BY <1>1, <1>2, <1>3, GenerateStep
<1>5. DraftInv'
  <2>1. art'[Storyboard] = art[Storyboard]
    BY <1>4, KindsApart
  <2>2. GenerateVisualShots(art[Storyboard], defect)' = value
    BY <1>4, <2>1 DEF value, defect
  <2> QED BY <1>4, <2>2 DEF DraftInv, Drafted
<1>inv. WorkflowInv'
  BY <1>4, <1>5
<1>mov. Moved
  BY <1>4
<1> QED BY <1>inv, <1>mov

LEMMA GenerateVoiceKeeps == ASSUME WorkflowInv, GenerateVoice PROVE WorkflowInv' /\ Moved
<1> DEFINE value == GenerateVoiceover(in, defect)
<1>1. Generate("generateVoice", Voiceover, value, "approveVoice")
  BY DEF GenerateVoice
<1> HIDE DEF value
<1>2. \A j \in Kinds \ {Voiceover} : 8 \notin {Made[j], Stamped[j], Done[j]}
  BY Moments, KindsApart
<1>3. /\ "generateVoice" \in DOMAIN Pos /\ "approveVoice" \in DOMAIN Pos
      /\ Pos["generateVoice"] = 8 /\ Pos["approveVoice"] = 8 + 1
      /\ Cleared[8 + 1] = Cleared[8] /\ Made[Voiceover] = 8 /\ Stamped[Voiceover] > 8
      /\ Done[Voiceover] > 8
  BY Awaits, AwaitsKnown, ClearedTable, Moments
<1>4. /\ pc' = "approveVoice" /\ UNCHANGED case /\ value # None /\ art'[Voiceover] = value
      /\ Moved /\ (DraftInv' => WorkflowInv')
  BY <1>1, <1>2, <1>3, GenerateStep
<1>5. DraftInv'
  <2>1. GenerateVoiceover(in, defect)' = value
    BY <1>4 DEF value, in, defect
  <2> QED BY <1>4, <2>1 DEF DraftInv, Drafted
<1>inv. WorkflowInv'
  BY <1>4, <1>5
<1>mov. Moved
  BY <1>4
<1> QED BY <1>inv, <1>mov

LEMMA GenerateCaptionsKeeps == ASSUME WorkflowInv, GenerateCaptions PROVE WorkflowInv' /\ Moved
<1> DEFINE value == GenerateSubtitles(defect)
<1>1. Generate("generateSubtitles", Subtitles, value, "approveSubtitles")
  BY DEF GenerateCaptions
<1> HIDE DEF value
<1>2. \A j \in Kinds \ {Subtitles} : 10 \notin {Made[j], Stamped[j], Done[j]}
  BY Moments, KindsApart
<1>3. /\ "generateSubtitles" \in DOMAIN Pos /\ "approveSubtitles" \in DOMAIN Pos
      /\ Pos["generateSubtitles"] = 10 /\ Pos["approveSubtitles"] = 10 + 1
      /\ Cleared[10 + 1] = Cleared[10] /\ Made[Subtitles] = 10 /\ Stamped[Subtitles] > 10
      /\ Done[Subtitles] > 10
  BY Awaits, AwaitsKnown, ClearedTable, Moments
<1>4. /\ pc' = "approveSubtitles" /\ UNCHANGED case /\ value # None /\ art'[Subtitles] = value
      /\ Moved /\ (DraftInv' => WorkflowInv')
  BY <1>1, <1>2, <1>3, GenerateStep
<1>5. DraftInv'
  <2>1. GenerateSubtitles(defect)' = value
    BY <1>4 DEF value, defect
  <2> QED BY <1>4, <2>1 DEF DraftInv, Drafted
<1>inv. WorkflowInv'
  BY <1>4, <1>5
<1>mov. Moved
  BY <1>4
<1> QED BY <1>inv, <1>mov

LEMMA RenderKeeps == ASSUME WorkflowInv, RenderShortFinal PROVE WorkflowInv' /\ Moved
<1> DEFINE value == RenderShort(in, defect)
<1>1. Generate("render", Render, value, "productionQA")
  BY DEF RenderShortFinal
<1> HIDE DEF value
<1>2. \A j \in Kinds \ {Render} : 12 \notin {Made[j], Stamped[j], Done[j]}
  BY Moments, KindsApart
<1>3. /\ "render" \in DOMAIN Pos /\ "productionQA" \in DOMAIN Pos
      /\ Pos["render"] = 12 /\ Pos["productionQA"] = 12 + 1
      /\ Cleared[12 + 1] = Cleared[12] /\ Made[Render] = 12 /\ Stamped[Render] > 12
      /\ Done[Render] > 12
  BY Awaits, AwaitsKnown, ClearedTable, Moments
<1>4. /\ pc' = "productionQA" /\ UNCHANGED case /\ value # None /\ art'[Render] = value
      /\ Moved /\ (DraftInv' => WorkflowInv')
  BY <1>1, <1>2, <1>3, GenerateStep
<1>5. DraftInv'
  <2>1. RenderShort(in, defect)' = value
    BY <1>4 DEF value, in, defect
  <2> QED BY <1>4, <2>1 DEF DraftInv, Drafted
<1>inv. WorkflowInv'
  BY <1>4, <1>5
<1>mov. Moved
  BY <1>4
<1> QED BY <1>inv, <1>mov

\* An approval of the k-th artifact that was drafted before.
LEMMA ApprovalStep ==
    ASSUME WorkflowInv, NEW n \in {7, 9, 11, 14}, NEW k \in {Shots, Voiceover, Subtitles, Render},
           NEW a \in DOMAIN Pos, NEW next \in DOMAIN Pos, NEW value,
           Returns(a, k, value), Stamp(k), Onward(next), Pos[a] = n, Pos[next] = n + 1,
           next \notin {"awaitStoryboard", "approveStoryboard", "approveShots",
                        "approveVoice", "approveSubtitles", "productionQA", "approveRender"},
           Made[k] < n, Stamped[k] = n, Done[k] = n,
           value.kind = k, value.status = "approved",
           \A j \in Kinds \ {k} : n \notin {Made[j], Stamped[j], Done[j]}
    PROVE  /\ GoesTo(n, next, k) /\ UNCHANGED case /\ art'[k] = value
           /\ (pc' = "closed" => passed' = passed) => Moved
           /\ GateInv' /\ (n = 14 /\ IsOpen' => Rendered') => WorkflowInv'
<1>1. k \in Kinds /\ Made[k] \in 1..19
  BY KindsApart, Moments
<1>2. /\ pc = a /\ Only(k) /\ art'[k] = value /\ value # None /\ MailKept /\ UNCHANGED case
      /\ stamped'[k] = value
  BY <1>1, ReturnsOnly DEF WorkflowInv
<1>3. IsOpen /\ n \in 6..14 /\ n \in 1..18
  BY <1>2, ClosedIsNoAwait DEF IsOpen
<1>4. GoesTo(n, next, k)
  BY <1>2, <1>3 DEF GoesTo
<1>5. IsOpen' => Pos[pc'] = n + 1
  BY <1>4, StepShape DEF WorkflowInv
<1>6. KindInv(k)'
  <2>1. Approved(k)'
    BY <1>2 DEF Approved
  <2>2. ~(n + 1 <= Made[k]) /\ ~(n + 1 <= Stamped[k])
    BY <1>1
  <2> QED BY <1>5, <2>1, <2>2 DEF KindInv
<1>7. DraftInv'
  <2>1. pc' = next \/ pc' = "closed"
    BY DEF Onward
  <2> QED BY <2>1 DEF DraftInv
<1>8. (pc' = "closed" => passed' = passed) => Moved
  BY <1>1, <1>2, <1>4, KindsApart, Moves
<1> QED BY <1>2, <1>3, <1>4, <1>6, <1>7, <1>8, StepsInside

LEMMA DraftsApproved ==
    /\ \A b, d : GenerateVisualShots(b, d) # None =>
           LET m == ApproveVisualShots(GenerateVisualShots(b, d)) IN
           m.kind = Shots /\ m.status = "approved"
    /\ \A i, d : GenerateVoiceover(i, d) # None =>
           LET m == ApproveByOperator(GenerateVoiceover(i, d)) IN
           m.kind = Voiceover /\ m.status = "approved"
    /\ \A d : GenerateSubtitles(d) # None =>
           LET m == ApproveByOperator(GenerateSubtitles(d)) IN
           m.kind = Subtitles /\ m.status = "approved"
<1>1. ASSUME NEW b, NEW d, GenerateVisualShots(b, d) # None
      PROVE  LET m == ApproveVisualShots(GenerateVisualShots(b, d)) IN
             m.kind = Shots /\ m.status = "approved"
  <2> DEFINE shots == [i \in DOMAIN b.images |->
              LET image == b.images[i] IN
              [scene |-> image.scene, reference |-> image.hash,
               seconds |-> IF image.seconds <= 0 THEN 5 ELSE image.seconds,
               operatorApproval |-> FALSE]]
             m == GenerateVisualShots(b, d)
  <2>1. m = [kind |-> Shots, status |-> "draft", provider |-> "mock", shots |-> shots]
    BY <1>1 DEF GenerateVisualShots
  <2> HIDE DEF m, shots
  <2>2. ApproveVisualShots(m).kind = Shots /\ ApproveVisualShots(m).status = "approved"
    BY <2>1 DEF ApproveVisualShots
  <2> QED BY <2>2 DEF m
<1>2. ASSUME NEW i, NEW d, GenerateVoiceover(i, d) # None
      PROVE  LET m == ApproveByOperator(GenerateVoiceover(i, d)) IN
             m.kind = Voiceover /\ m.status = "approved"
  BY <1>2 DEF GenerateVoiceover, ApproveByOperator
<1>3. ASSUME NEW d, GenerateSubtitles(d) # None
      PROVE  LET m == ApproveByOperator(GenerateSubtitles(d)) IN
             m.kind = Subtitles /\ m.status = "approved"
  BY <1>3 DEF GenerateSubtitles, ApproveByOperator
<1> QED BY <1>1, <1>2, <1>3

LEMMA RenderApproved ==
    ASSUME NEW i, NEW d, RenderShort(i, d) # None
    PROVE  LET m == ApproveRenderOutputs(RenderShort(i, d)) IN
           /\ m.kind = Render /\ m.status = "approved"
           /\ m.platforms = IF i.platforms = {} THEN {"master"} ELSE i.platforms
           /\ \A verdict : RenderGate(m, verdict) = {} => m.audio /\ verdict = "approved"
BY DEF RenderShort, ApproveRenderOutputs, RenderGate, Require

LEMMA ApproveShotsKeeps == ASSUME WorkflowInv, ApproveShots PROVE WorkflowInv' /\ Moved
<1> DEFINE m == ApproveVisualShots(art[Shots])
           why == VisualShotGate(m, art[Storyboard], in.scenes)
<1>1. /\ Returns("approveShots", Shots, m) /\ Stamp(Shots)
      /\ Gates(<<Verdict("visual_shot", why)>>, "generateVoice", "visual_shots_approved")
  BY DEF ApproveShots
<1>2. m.kind = Shots /\ m.status = "approved"
  <2>1. Drafted(Shots, GenerateVisualShots(art[Storyboard], defect))
    BY <1>1 DEF Returns, WorkflowInv, DraftInv
  <2> QED BY <2>1, DraftsApproved DEF Drafted
<1> HIDE DEF m, why
<1>3. \/ pc' = "generateVoice" /\ result' = result /\ passed' = Append(passed, "visual_shot")
      \/ /\ pc' = "closed" /\ result' = [state |-> "blocked", failed |-> FALSE]
         /\ passed' = passed
  <2>1. passed \in Seq(GateNames) /\ "visual_shot" \in GateNames
    BY GatesNamed, GateTable DEF WorkflowInv, GateInv
  <2> QED BY <1>1, <2>1, OneGate
<1>4. Onward("generateVoice")
  BY <1>3 DEF Onward, Completed
<1>5. /\ "approveShots" \in DOMAIN Pos /\ "generateVoice" \in DOMAIN Pos
      /\ Pos["approveShots"] = 7 /\ Pos["generateVoice"] = 7 + 1
      /\ Made[Shots] < 7 /\ Stamped[Shots] = 7 /\ Done[Shots] = 7
      /\ Cleared[7] = 3 /\ Cleared[7 + 1] = Cleared[7] + 1 /\ GateOrder[Cleared[7] + 1] = "visual_shot"
  BY Awaits, AwaitsKnown, ClearedTable, Moments, GateTable
<1>6. \A j \in Kinds \ {Shots} : 7 \notin {Made[j], Stamped[j], Done[j]}
  BY Moments, KindsApart
<1>7. /\ GoesTo(7, "generateVoice", Shots)
      /\ (pc' = "closed" => passed' = passed) => Moved
      /\ GateInv' /\ (7 = 14 /\ IsOpen' => Rendered') => WorkflowInv'
  BY <1>1, <1>2, <1>4, <1>5, <1>6, ApprovalStep
<1>8. GateInv'
  BY <1>3, <1>5, <1>7, StepGated DEF WorkflowInv
<1>inv. WorkflowInv'
  BY <1>7, <1>8
<1>mov. Moved
  BY <1>3, <1>7
<1> QED BY <1>inv, <1>mov

LEMMA ApproveVoiceKeeps == ASSUME WorkflowInv, ApproveVoice PROVE WorkflowInv' /\ Moved
<1> DEFINE m == ApproveByOperator(art[Voiceover])
<1>1. /\ Returns("approveVoice", Voiceover, m) /\ Stamp(Voiceover)
      /\ pc' = "generateSubtitles" /\ result' = result /\ passed' = passed
  BY DEF ApproveVoice, GoOn
<1>2. m.kind = Voiceover /\ m.status = "approved"
  <2>1. Drafted(Voiceover, GenerateVoiceover(in, defect))
    BY <1>1 DEF Returns, WorkflowInv, DraftInv
  <2> QED BY <2>1, DraftsApproved DEF Drafted
<1> HIDE DEF m
<1>4. Onward("generateSubtitles")
  BY <1>1 DEF Onward
<1>5. /\ "approveVoice" \in DOMAIN Pos /\ "generateSubtitles" \in DOMAIN Pos
      /\ Pos["approveVoice"] = 9 /\ Pos["generateSubtitles"] = 9 + 1
      /\ Made[Voiceover] < 9 /\ Stamped[Voiceover] = 9 /\ Done[Voiceover] = 9
      /\ Cleared[9 + 1] = Cleared[9]
  BY Awaits, AwaitsKnown, ClearedTable, Moments
<1>6. \A j \in Kinds \ {Voiceover} : 9 \notin {Made[j], Stamped[j], Done[j]}
  BY Moments, KindsApart
<1>7. /\ GoesTo(9, "generateSubtitles", Voiceover)
      /\ (pc' = "closed" => passed' = passed) => Moved
      /\ GateInv' /\ (9 = 14 /\ IsOpen' => Rendered') => WorkflowInv'
  BY <1>1, <1>2, <1>4, <1>5, <1>6, ApprovalStep
<1>8. GateInv'
  BY <1>1, <1>5, <1>7, StepUngated DEF WorkflowInv
<1>inv. WorkflowInv'
  BY <1>7, <1>8
<1>mov. Moved
  BY <1>1, <1>7
<1> QED BY <1>inv, <1>mov

LEMMA ApproveCaptionsKeeps == ASSUME WorkflowInv, ApproveCaptions PROVE WorkflowInv' /\ Moved
<1> DEFINE m == ApproveByOperator(art[Subtitles])
           why == SubtitleGate(m)
<1>1. /\ Returns("approveSubtitles", Subtitles, m) /\ Stamp(Subtitles)
      /\ Gates(<<Verdict("subtitle", why)>>, "render", "subtitles_approved")
  BY DEF ApproveCaptions
<1>2. m.kind = Subtitles /\ m.status = "approved"
  <2>1. Drafted(Subtitles, GenerateSubtitles(defect))
    BY <1>1 DEF Returns, WorkflowInv, DraftInv
  <2> QED BY <2>1, DraftsApproved DEF Drafted
<1> HIDE DEF m, why
<1>3. \/ pc' = "render" /\ result' = result /\ passed' = Append(passed, "subtitle")
      \/ /\ pc' = "closed" /\ result' = [state |-> "blocked", failed |-> FALSE]
         /\ passed' = passed
  <2>1. passed \in Seq(GateNames) /\ "subtitle" \in GateNames
    BY GatesNamed, GateTable DEF WorkflowInv, GateInv
  <2> QED BY <1>1, <2>1, OneGate
<1>4. Onward("render")
  BY <1>3 DEF Onward, Completed
<1>5. /\ "approveSubtitles" \in DOMAIN Pos /\ "render" \in DOMAIN Pos
      /\ Pos["approveSubtitles"] = 11 /\ Pos["render"] = 11 + 1
      /\ Made[Subtitles] < 11 /\ Stamped[Subtitles] = 11 /\ Done[Subtitles] = 11
      /\ Cleared[11] = 4 /\ Cleared[11 + 1] = Cleared[11] + 1
      /\ GateOrder[Cleared[11] + 1] = "subtitle"
  BY Awaits, AwaitsKnown, ClearedTable, Moments, GateTable
<1>6. \A j \in Kinds \ {Subtitles} : 11 \notin {Made[j], Stamped[j], Done[j]}
  BY Moments, KindsApart
<1>7. /\ GoesTo(11, "render", Subtitles)
      /\ (pc' = "closed" => passed' = passed) => Moved
      /\ GateInv' /\ (11 = 14 /\ IsOpen' => Rendered') => WorkflowInv'
  BY <1>1, <1>2, <1>4, <1>5, <1>6, ApprovalStep
<1>8. GateInv'
  BY <1>3, <1>5, <1>7, StepGated DEF WorkflowInv
<1>inv. WorkflowInv'
  BY <1>7, <1>8
<1>mov. Moved
  BY <1>3, <1>7
<1> QED BY <1>inv, <1>mov

LEMMA JudgeRenderKeeps == ASSUME WorkflowInv, JudgeRender PROVE WorkflowInv' /\ Moved
<1>1. /\ pc = "productionQA" /\ pc' = "approveRender" /\ result' = result /\ passed' = passed
      /\ UNCHANGED <<case, art, stamped>> /\ MailKept
  BY DEF JudgeRender, GoOn, MailKept
<1>2. /\ IsOpen /\ Pos[pc] = 13 /\ Pos["approveRender"] = 13 + 1 /\ "approveRender" \in DOMAIN Pos
      /\ Cleared[13 + 1] = Cleared[13]
  BY <1>1, Awaits, AwaitsKnown, ClearedTable DEF IsOpen
<1>3. GoesTo(13, "approveRender", "nothing")
  BY <1>1, <1>2, NothingMade DEF GoesTo, Onward, WorkflowInv
<1>4. GateInv'
  BY <1>1, <1>2, <1>3, StepUngated DEF WorkflowInv
<1>5. DraftInv'
  <2>1. Drafted(Render, RenderShort(in, defect))
    BY <1>1 DEF WorkflowInv, DraftInv
  <2> QED BY <1>1, <2>1 DEF DraftInv, Drafted, in, defect
<1>6. \A j \in Kinds \ {"nothing"} : 13 \notin {Made[j], Stamped[j], Done[j]}
  BY NoMoment
<1>inv. WorkflowInv'
  BY <1>1, <1>3, <1>4, <1>5, <1>6, NothingMade, StepsInside DEF WorkflowInv
<1>mov. Moved
  BY <1>1, <1>3, NothingMade, Moves DEF WorkflowInv, Candidate
<1> QED BY <1>inv, <1>mov

LEMMA ApproveRenderKeeps == ASSUME WorkflowInv, ApproveRender PROVE WorkflowInv' /\ Moved
<1> DEFINE m == ApproveRenderOutputs(art[Render])
           why == RenderGate(m, qa)
<1>1. /\ Returns("approveRender", Render, m) /\ Stamp(Render)
      /\ Gates(<<Verdict("render", why)>>, "assemble", "render_approved")
  BY DEF ApproveRender
<1>2. /\ m.kind = Render /\ m.status = "approved" /\ (why = {} => m.audio)
      /\ m.platforms = IF in.platforms = {} THEN {"master"} ELSE in.platforms
  <2>1. Drafted(Render, RenderShort(in, defect))
    BY <1>1 DEF Returns, WorkflowInv, DraftInv
  <2> QED BY <2>1, RenderApproved DEF Drafted
<1> HIDE DEF m, why
<1>3. \/ /\ pc' = "assemble" /\ result' = result /\ passed' = Append(passed, "render")
         /\ why = {}
      \/ /\ pc' = "closed" /\ result' = [state |-> "blocked", failed |-> FALSE]
         /\ passed' = passed
  <2>1. passed \in Seq(GateNames) /\ "render" \in GateNames
    BY GatesNamed, GateTable DEF WorkflowInv, GateInv
  <2> QED BY <1>1, <2>1, OneGate
<1>4. Onward("assemble")
  BY <1>3 DEF Onward, Completed
<1>5. /\ "approveRender" \in DOMAIN Pos /\ "assemble" \in DOMAIN Pos
      /\ Pos["approveRender"] = 14 /\ Pos["assemble"] = 14 + 1
      /\ Made[Render] < 14 /\ Stamped[Render] = 14 /\ Done[Render] = 14
      /\ Cleared[14] = 5 /\ Cleared[14 + 1] = Cleared[14] + 1
      /\ GateOrder[Cleared[14] + 1] = "render"
  BY Awaits, AwaitsKnown, ClearedTable, Moments, GateTable
<1>6. \A j \in Kinds \ {Render} : 14 \notin {Made[j], Stamped[j], Done[j]}
  BY Moments, KindsApart
<1>7. /\ GoesTo(14, "assemble", Render) /\ UNCHANGED case /\ art'[Render] = m
      /\ (pc' = "closed" => passed' = passed) => Moved
      /\ GateInv' /\ (14 = 14 /\ IsOpen' => Rendered') => WorkflowInv'
  BY <1>1, <1>2, <1>4, <1>5, <1>6, ApprovalStep
<1>8. GateInv'
  BY <1>3, <1>5, <1>7, StepGated DEF WorkflowInv
<1>9. IsOpen' => Rendered'
  BY <1>2, <1>3, <1>7 DEF Rendered, IsOpen, in
<1>inv. WorkflowInv'
  BY <1>7, <1>8, <1>9
<1>mov. Moved
  BY <1>3, <1>7
<1> QED BY <1>inv, <1>mov

\* Once the storyboard was approved its approval and the render stay.
LEMMA ApprovalsStay ==
    ASSUME WorkflowInv, NEW n \in {15, 17, 18}, NEW next, NEW k, GoesTo(n, next, k), MailKept,
           k \in {Candidate, Release, Publish}
    PROVE  /\ Reviewed' /\ Rendered' /\ art'[Shots] = art[Shots]
           /\ IsOpen /\ Pos[pc] = n /\ UNCHANGED <<case, decided>>
           /\ \A j \in Kinds \ {k} : art'[j] = art[j] /\ stamped'[j] = stamped[j]
           /\ \A j \in Components : Approved(j) => Approved(j)'
<1>1. /\ IsOpen /\ Pos[pc] = n /\ UNCHANGED <<case, decided>>
      /\ \A j \in Kinds \ {k} : art'[j] = art[j] /\ stamped'[j] = stamped[j]
  BY DEF GoesTo, Only, MailKept
<1>2. Reviewed /\ Rendered
  BY <1>1 DEF WorkflowInv, ChainInv
<1>3. \A j \in Components : j \in Kinds \ {k}
  BY KindsApart
<1>4. Reviewed'
  BY <1>1, <1>2, <1>3, KindsApart DEF Reviewed
<1>5. Rendered'
  BY <1>1, <1>2, <1>3, KindsApart DEF Rendered, in
<1>6. \A j \in Components : Approved(j) => Approved(j)'
  BY <1>1, <1>3 DEF Approved
<1> QED BY <1>1, <1>3, <1>4, <1>5, <1>6, KindsApart

\* A stamped artifact that is no component is made where it is stamped.
LEMMA BoundKeeps ==
    ASSUME WorkflowInv, NEW n \in {15, 17, 18}, NEW next, NEW k, GoesTo(n, next, k), MailKept,
           k \in {Candidate, Release, Publish}, Made[k] = n, Stamped[k] = n,
           \A j \in Kinds \ {k} : n \notin {Made[j], Stamped[j], Done[j]},
           next \in {"awaitRelease", "publishManifest", "publishDryRun"}, GateInv', ChainInv'
    PROVE  WorkflowInv'
<1>1. Shape' /\ CompletedEarned' /\ MailInv'
  BY StepShape, StepEarned, StepMail DEF WorkflowInv
<1>2. KindInv(k)'
  <2>1. IsOpen' => Pos[pc'] = n + 1
    BY StepShape DEF WorkflowInv
  <2>2. k \notin Components
    BY KindsApart
  <2> QED BY <2>1, <2>2 DEF KindInv
<1>3. \A j \in Kinds : KindInv(j)'
  BY <1>2, StepOthers DEF WorkflowInv
<1>4. DraftInv'
  <2>1. pc' = next \/ pc' = "closed"
    BY DEF GoesTo, Onward
  <2> QED BY <2>1 DEF DraftInv
<1> QED BY <1>1, <1>3, <1>4 DEF WorkflowInv

LEMMA AssembleKeeps == ASSUME WorkflowInv, AssembleCandidate PROVE WorkflowInv' /\ Moved
<1> DEFINE value == AssembleProductionCandidate(art)
<1>1. /\ Returns("assemble", Candidate, value) /\ Stamp(Candidate)
      /\ pc' = "awaitRelease" /\ result' = result /\ passed' = passed
  BY DEF AssembleCandidate, GoOn
<1>2. value.components = [j \in Components |-> art[j]]
  BY <1>1 DEF Returns, AssembleProductionCandidate
<1> HIDE DEF value
<1>3. /\ pc = "assemble" /\ Only(Candidate) /\ art'[Candidate] = value
      /\ value # None /\ MailKept /\ UNCHANGED case
  BY <1>1, KindsApart, ReturnsOnly DEF WorkflowInv
<1>4. /\ IsOpen /\ Pos[pc] = 15 /\ Pos["awaitRelease"] = 15 + 1 /\ "awaitRelease" \in DOMAIN Pos
      /\ Cleared[15 + 1] = Cleared[15] /\ Made[Candidate] = 15 /\ Stamped[Candidate] = 15
  BY <1>3, Awaits, AwaitsKnown, ClearedTable, Moments DEF IsOpen
<1>5. GoesTo(15, "awaitRelease", Candidate)
  BY <1>1, <1>3, <1>4 DEF GoesTo, Onward
<1>6. GateInv'
  BY <1>1, <1>4, <1>5, StepUngated DEF WorkflowInv
<1>7. \A j \in Kinds \ {Candidate} : 15 \notin {Made[j], Stamped[j], Done[j]}
  BY Moments, KindsApart
<1>8. /\ Reviewed' /\ Rendered' /\ art'[Shots] = art[Shots]
      /\ \A j \in Kinds \ {Candidate} : art'[j] = art[j] /\ stamped'[j] = stamped[j]
      /\ \A j \in Components : Approved(j) => Approved(j)'
  BY <1>3, <1>5, ApprovalsStay
<1>9. \A j \in Components : Approved(j)
  <2>1. \A j \in Components : 15 > Done[j] /\ j \in Kinds
    BY Moments, KindsApart
  <2> QED BY <1>4, <2>1 DEF WorkflowInv, KindInv
<1>10. art'[Release] = None /\ art'[Publish] = None
  <2>1. \A j \in {Release, Publish} : j \in Kinds \ {Candidate} /\ 15 <= Made[j]
    BY Moments, KindsApart
  <2> QED BY <1>4, <1>8, <2>1 DEF WorkflowInv, KindInv
<1>11. ChainInv'
  <2>1. \A j \in Components : Approved(j)' /\ art'[Candidate].components[j] = art'[j]
    BY <1>2, <1>3, <1>8, <1>9, KindsApart
  <2>2. DOMAIN art'[Candidate].components = Components
    BY <1>2, <1>3
  <2>3. art'[Shots] # None
    BY <1>8, <1>9, KindsApart DEF Approved
  <2>4. Pos[pc'] = 16
    BY <1>1, <1>4
  <2> QED BY <1>3, <1>8, <1>10, <2>1, <2>2, <2>3, <2>4 DEF ChainInv
<1>inv. WorkflowInv'
  BY <1>3, <1>4, <1>5, <1>6, <1>7, <1>11, BoundKeeps
<1>mov. Moved
  BY <1>1, <1>3, <1>4, <1>5, KindsApart, Moves
<1> QED BY <1>inv, <1>mov

LEMMA BuildReleaseKeeps == ASSUME WorkflowInv, BuildRelease PROVE WorkflowInv' /\ Moved
<1> DEFINE approver == decided[ReleaseApproval].approver
           value == BuildReleaseApproval(in, approver)
           why == MultiVerifierGate({decided[c].approver : c \in Channels} \cup {ProductionQA})
<1>1. /\ Returns("buildRelease", Release, value) /\ Stamp(Release)
      /\ Gates(<<Verdict("multi_verifier", why)>>, "publishManifest", shown)
  BY DEF BuildRelease
<1>2. IsHumanIdentity(approver)
  BY <1>1 DEF Returns, BuildReleaseApproval
<1> HIDE DEF value, why
<1>3. /\ pc = "buildRelease" /\ Only(Release) /\ art'[Release] = value
      /\ value # None /\ MailKept /\ UNCHANGED case
  BY <1>1, KindsApart, ReturnsOnly DEF WorkflowInv
<1>4. \/ /\ pc' = "publishManifest" /\ result' = result
         /\ passed' = Append(passed, "multi_verifier")
      \/ /\ pc' = "closed" /\ result' = [state |-> "blocked", failed |-> FALSE]
         /\ passed' = passed
  <2>1. passed \in Seq(GateNames) /\ "multi_verifier" \in GateNames
    BY GatesNamed, GateTable DEF WorkflowInv, GateInv
  <2> QED BY <1>1, <2>1, OneGate
<1>5. /\ IsOpen /\ Pos[pc] = 17 /\ Pos["publishManifest"] = 17 + 1
      /\ "publishManifest" \in DOMAIN Pos
      /\ Cleared[17] = 6 /\ Cleared[17 + 1] = Cleared[17] + 1
      /\ GateOrder[Cleared[17] + 1] = "multi_verifier"
      /\ Made[Release] = 17 /\ Stamped[Release] = 17
  BY <1>3, Awaits, AwaitsKnown, ClearedTable, Moments, GateTable DEF IsOpen
<1>6. GoesTo(17, "publishManifest", Release)
  BY <1>3, <1>4, <1>5 DEF GoesTo, Onward, Completed
<1>7. GateInv'
  BY <1>4, <1>5, <1>6, StepGated DEF WorkflowInv
<1>8. \A j \in Kinds \ {Release} : 17 \notin {Made[j], Stamped[j], Done[j]}
  BY Moments, KindsApart
<1>9. /\ Reviewed' /\ Rendered' /\ art'[Shots] = art[Shots] /\ decided' = decided
      /\ \A j \in Kinds \ {Release} : art'[j] = art[j] /\ stamped'[j] = stamped[j]
      /\ \A j \in Components : Approved(j) => Approved(j)'
  BY <1>3, <1>6, ApprovalsStay
<1>10. /\ art[Candidate] # None /\ art[Shots] # None
       /\ DOMAIN art[Candidate].components = Components
       /\ \A j \in Components : Approved(j) /\ art[Candidate].components[j] = art[j]
  BY <1>5 DEF WorkflowInv, ChainInv
<1>11. art'[Publish] = None
  <2>1. Publish \in Kinds \ {Release} /\ 17 <= Made[Publish]
    BY Moments, KindsApart
  <2> QED BY <1>5, <1>9, <2>1 DEF WorkflowInv, KindInv
<1>12. ChainInv'
  <2>1. art'[Candidate] = art[Candidate] /\ \A j \in Components : art'[j] = art[j]
    BY <1>9, KindsApart
  <2>2. \A j \in Components : Approved(j)' /\ art'[Candidate].components[j] = art'[j]
    BY <1>9, <1>10, <2>1
  <2>3. /\ IsHumanIdentity(decided'[ReleaseApproval].approver)
        /\ art'[Release] = BuildReleaseApproval(in, decided[ReleaseApproval].approver)'
    BY <1>2, <1>3, <1>9 DEF value, in
  <2>4. IsOpen' => Pos[pc'] = 18
    BY <1>4, <1>5 DEF IsOpen
  <2> QED BY <1>3, <1>9, <1>10, <1>11, <2>1, <2>2, <2>3, <2>4 DEF ChainInv
<1>inv. WorkflowInv'
  BY <1>3, <1>5, <1>6, <1>7, <1>8, <1>12, BoundKeeps
<1>mov. Moved
  BY <1>3, <1>4, <1>5, <1>6, KindsApart, Moves
<1> QED BY <1>inv, <1>mov

LEMMA PublishManifestKeeps == ASSUME WorkflowInv, GeneratePublishManifest PROVE WorkflowInv' /\ Moved
<1> DEFINE value == UploadPostDryRun(art[Release], defect)
<1>1. /\ Returns("publishManifest", Publish, value) /\ Stamp(Publish)
      /\ pc' = "publishDryRun" /\ result' = result /\ passed' = passed
  BY DEF GeneratePublishManifest, GoOn
<1> HIDE DEF value
<1>3. /\ pc = "publishManifest" /\ Only(Publish) /\ art'[Publish] = value
      /\ value # None /\ MailKept /\ UNCHANGED case
  BY <1>1, KindsApart, ReturnsOnly DEF WorkflowInv
<1>4. /\ IsOpen /\ Pos[pc] = 18 /\ Pos["publishDryRun"] = 18 + 1
      /\ "publishDryRun" \in DOMAIN Pos
      /\ Cleared[18 + 1] = Cleared[18] /\ Made[Publish] = 18 /\ Stamped[Publish] = 18
  BY <1>3, Awaits, AwaitsKnown, ClearedTable, Moments DEF IsOpen
<1>5. GoesTo(18, "publishDryRun", Publish)
  BY <1>1, <1>3, <1>4 DEF GoesTo, Onward
<1>6. GateInv'
  BY <1>1, <1>4, <1>5, StepUngated DEF WorkflowInv
<1>7. \A j \in Kinds \ {Publish} : 18 \notin {Made[j], Stamped[j], Done[j]}
  BY Moments, KindsApart
<1>8. /\ Reviewed' /\ Rendered' /\ art'[Shots] = art[Shots] /\ decided' = decided
      /\ \A j \in Kinds \ {Publish} : art'[j] = art[j] /\ stamped'[j] = stamped[j]
      /\ \A j \in Components : Approved(j) => Approved(j)'
  BY <1>3, <1>5, ApprovalsStay
<1>9. /\ art[Candidate] # None /\ art[Shots] # None
      /\ DOMAIN art[Candidate].components = Components
      /\ \A j \in Components : Approved(j) /\ art[Candidate].components[j] = art[j]
      /\ art[Release] # None /\ IsHumanIdentity(decided[ReleaseApproval].approver)
      /\ art[Release] = BuildReleaseApproval(in, decided[ReleaseApproval].approver)
  BY <1>4 DEF WorkflowInv, ChainInv
<1>10. ChainInv'
  <2>1. /\ art'[Candidate] = art[Candidate] /\ \A j \in Components : art'[j] = art[j]
        /\ art'[Release] = art[Release]
    BY <1>8, KindsApart
  <2>2. \A j \in Components : Approved(j)' /\ art'[Candidate].components[j] = art'[j]
    BY <1>8, <1>9, <2>1
  <2>3. BuildReleaseApproval(in, decided[ReleaseApproval].approver)' = art'[Release]
    BY <1>3, <1>8, <1>9, <2>1 DEF in
  <2>4. UploadPostDryRun(art[Release], defect)' = art'[Publish]
    BY <1>3, <2>1 DEF value, defect
  <2> QED BY <1>3, <1>8, <1>9, <2>1, <2>2, <2>3, <2>4 DEF ChainInv
<1>inv. WorkflowInv'
  BY <1>3, <1>4, <1>5, <1>6, <1>7, <1>10, BoundKeeps
<1>mov. Moved
  BY <1>1, <1>3, <1>4, <1>5, KindsApart, Moves
<1> QED BY <1>inv, <1>mov

\* Closing leaves nothing to keep but the mail and what was made.
LEMMA ClosingKeeps ==
    ASSUME WorkflowInv, pc' = "closed", UNCHANGED <<case, art, stamped>>, MailKept,
           passed' \in Seq(GateNames), CompletedEarned'
    PROVE  WorkflowInv'
<1>1. ~IsOpen'
  BY DEF IsOpen
<1>2. Shape' /\ GateInv' /\ \A k \in Kinds : KindInv(k)'
  BY <1>1 DEF WorkflowInv, Shape, MailKept, GateInv, KindInv
<1>3. DraftInv'
  BY DEF DraftInv
<1>4. MailInv'
  BY <1>1 DEF WorkflowInv, MailInv, MailKept, FirstDecisionCounts
<1>5. ChainInv'
  BY <1>1 DEF WorkflowInv, ChainInv, MailKept, Reviewed, Rendered, Approved, in, defect
<1> QED BY <1>2, <1>3, <1>4, <1>5 DEF WorkflowInv

LEMMA ReleaseGateSays ==
    ASSUME NEW m, NEW verdict, NEW run, ReleaseGate(m, verdict, run) = {}
    PROVE  /\ verdict = "approved" /\ run /\ m.platforms # {}
           /\ m.disclosureRequired => Present(m.disclosure)
           /\ m.visibility = "scheduled" => Present(m.scheduledAt)
BY DEF ReleaseGate, AIDisclosureGate, Require

\* What is dry-run is what was signed for, and that is what the input asked for.
LEMMA PublishedAsSigned ==
    ASSUME NEW i, NEW d, NEW who, NEW m, m # None,
           BuildReleaseApproval(i, who) # None,
           m = UploadPostDryRun(BuildReleaseApproval(i, who), d)
    PROVE  /\ m.platforms = i.platforms /\ BuildReleaseApproval(i, who).approvedBy = who
<1> DEFINE r == BuildReleaseApproval(i, who)
<1>1. r.platforms = i.platforms /\ r.approvedBy = who
  BY DEF BuildReleaseApproval
<1> HIDE DEF r
<1>2. m.platforms = r.platforms
  BY DEF UploadPostDryRun, r
<1> QED BY <1>1, <1>2 DEF r

LEMMA DryRunKeeps ==
    ASSUME WorkflowInv, DryRunPublish
    PROVE  /\ WorkflowInv' /\ pc = "publishDryRun" /\ pc' = "closed"
           /\ UNCHANGED <<art, stamped, decided>>
           /\ passed' = passed \/ passed' = Append(passed, "release")
<1> DEFINE why == ReleaseGate(art[Publish], qa, dryRun')
<1>1. /\ pc = "publishDryRun" /\ Gates(<<Verdict("release", why)>>, "closed", Completed)
      /\ UNCHANGED <<case, art, stamped, qa>> /\ MailKept
  BY DEF DryRunPublish, MailKept
<1> HIDE DEF why
<1>2. passed \in Seq(GateNames) /\ "release" \in GateNames
  BY GatesNamed, GateTable DEF WorkflowInv, GateInv
<1>3. \/ /\ pc' = "closed" /\ result' = [state |-> Completed, failed |-> FALSE]
         /\ why = {} /\ passed' = Append(passed, "release")
      \/ /\ pc' = "closed" /\ result' = [state |-> "blocked", failed |-> FALSE]
         /\ passed' = passed
  BY <1>1, <1>2, OneGate
<1>4. IsOpen /\ Pos[pc] = 19 /\ Cleared[19] = 7 /\ GateOrder[7 + 1] = "release"
  BY <1>1, Awaits, ClearedTable, GateTable DEF IsOpen
<1>5. passed' \in Seq(GateNames)
  BY <1>2, <1>3, Appended
<1>6. CompletedEarned'
  <2> SUFFICES ASSUME result'.state = Completed PROVE CompletedEarned'
    BY DEF CompletedEarned
  <2>1. why = {} /\ passed' = Append(passed, "release")
    BY <1>3 DEF Completed
  <2>2. passed' = GateOrder
    <3>1. Prefix(passed, 7) /\ 7 \in 0..7
      BY <1>4 DEF WorkflowInv, GateInv
    <3>2. Prefix(Append(passed, "release"), 7 + 1)
      BY <1>4, <3>1, PrefixGrows
    <3>3. Prefix(passed', 8)
      BY <2>1, <3>2
    <3> QED BY <3>3, PrefixFull
  <2>3. /\ art[Publish] # None /\ art[Release] # None /\ art[Candidate] # None
        /\ art[Candidate].components[Render] = art[Render]
        /\ art[Publish] = UploadPostDryRun(art[Release], defect)
        /\ art[Release] = BuildReleaseApproval(in, decided[ReleaseApproval].approver)
        /\ IsHumanIdentity(decided[ReleaseApproval].approver)
        /\ Rendered /\ Reviewed
    BY <1>4, KindsApart DEF WorkflowInv, ChainInv
  <2>4. /\ qa = "approved" /\ dryRun' /\ art[Publish].platforms # {}
        /\ art[Publish].disclosureRequired => Present(art[Publish].disclosure)
        /\ art[Publish].visibility = "scheduled" => Present(art[Publish].scheduledAt)
    BY <2>1, ReleaseGateSays DEF why
  <2>5. /\ art[Publish].platforms = in.platforms
        /\ art[Release].approvedBy = decided[ReleaseApproval].approver
    BY <2>3, PublishedAsSigned
  <2>6. /\ art[Publish].platforms = art[Candidate].components[Render].platforms
        /\ art[Candidate].components[Render].audio
        /\ IsHuman(decided[StoryboardImageApproval].approver)
    BY <2>3, <2>4, <2>5 DEF Rendered, Reviewed
  <2>7. UNCHANGED <<art, decided, qa>>
    BY <1>1 DEF MailKept
  <2> QED BY <2>2, <2>3, <2>4, <2>5, <2>6, <2>7 DEF CompletedEarned
<1>7. WorkflowInv'
  BY <1>1, <1>3, <1>5, <1>6, ClosingKeeps
<1> QED BY <1>1, <1>3, <1>7 DEF MailKept

LEMMA FailuresFail == \A a \in Activities : FailureState[a] # Completed
BY DEF Activities, FailureState, Completed

LEMMA StillStands ==
    ASSUME WorkflowInv, UNCHANGED <<case, pc, inbox, sent, decided, art, stamped, qa, dryRun,
                                    passed, result>>
    PROVE  WorkflowInv'
<1>1. Shape' /\ GateInv' /\ (\A k \in Kinds : KindInv(k)') /\ MailInv'
  BY DEF WorkflowInv, Shape, IsOpen, GateInv, KindInv, Approved, MailInv, FirstDecisionCounts
<1>2. DraftInv'
  BY DEF WorkflowInv, DraftInv, Drafted, in, defect
<1>3. ChainInv'
  BY DEF WorkflowInv, ChainInv, IsOpen, Reviewed, Rendered, Approved, in, defect
<1>4. CompletedEarned'
  BY DEF WorkflowInv, CompletedEarned
<1> QED BY <1>1, <1>2, <1>3, <1>4 DEF WorkflowInv

\* An attempt that fails changes nothing, and the last one closes.
LEMMA FailKeeps ==
    ASSUME WorkflowInv, AttemptFails
    PROVE  /\ WorkflowInv' /\ UNCHANGED <<art, stamped, decided, passed>> /\ IsOpen
           /\ \/ pc' = pc /\ result' = result
              \/ pc' = "closed" /\ result'.state # Completed
<1>1. /\ pc \in Activities /\ UNCHANGED <<case, art, stamped, qa, dryRun, passed>> /\ MailKept
      /\ \/ pc' = pc /\ result' = result
         \/ pc' = "closed" /\ result' = [state |-> FailureState[pc], failed |-> TRUE]
  BY DEF AttemptFails, Close, MailKept
<1>2. IsOpen
  BY <1>1 DEF Activities, FailureState, IsOpen
<1>3. CASE pc' = pc /\ result' = result
  BY <1>1, <1>2, <1>3, StillStands DEF MailKept
<1>4. CASE pc' = "closed" /\ result' = [state |-> FailureState[pc], failed |-> TRUE]
  <2>1. result'.state # Completed
    BY <1>1, <1>4, FailuresFail
  <2>2. CompletedEarned'
    BY <2>1 DEF CompletedEarned
  <2>3. passed' \in Seq(GateNames)
    BY <1>1 DEF WorkflowInv, GateInv
  <2> QED BY <1>1, <1>2, <1>4, <2>1, <2>2, <2>3, ClosingKeeps DEF MailKept
<1> QED BY <1>1, <1>3, <1>4

\* A signal joins the end of its channel, behind the one that was or will be received.
LEMMA SendKeeps ==
    ASSUME WorkflowInv, SendSignal
    PROVE  WorkflowInv' /\ UNCHANGED <<pc, result, art, stamped, decided, passed>>
<1>1. PICK c \in Channels, s \in Signals :
          /\ inbox' = [inbox EXCEPT ![c] = Append(@, s)]
          /\ sent' = [sent EXCEPT ![c] = Append(@, s)]
          /\ UNCHANGED <<case, pc, decided, art, stamped, qa, dryRun, passed, result>>
  BY DEF SendSignal
<1>2. /\ inbox'[c] = Append(inbox[c], s) /\ sent'[c] = Append(sent[c], s)
      /\ \A b \in Channels \ {c} : inbox'[b] = inbox[b] /\ sent'[b] = sent[b]
      /\ inbox' = [b \in Channels |-> inbox'[b]] /\ sent' = [b \in Channels |-> sent'[b]]
  BY <1>1 DEF WorkflowInv, Shape
<1>3. inbox[c] \in Seq(Signals) /\ sent[c] \in Seq(Signals)
  BY DEF WorkflowInv, MailInv
<1>4. /\ inbox'[c] \in Seq(Signals) /\ sent'[c] \in Seq(Signals) /\ sent'[c] # <<>>
      /\ sent[c] # <<>> => Head(sent'[c]) = Head(sent[c]) /\ Tail(sent'[c]) = Append(Tail(sent[c]), s)
  <2>1. ASSUME NEW R, NEW q \in Seq(R), NEW x \in R
        PROVE  /\ Append(q, x) \in Seq(R) /\ Append(q, x) # <<>>
               /\ q # <<>> => /\ Head(Append(q, x)) = Head(q)
                              /\ Tail(Append(q, x)) = Append(Tail(q), x)
    BY HeadTailAppend, AppendProperties
  <2> QED BY <1>2, <1>3, <2>1
<1>5. Shape'
  BY <1>1, <1>2 DEF WorkflowInv, Shape, IsOpen
<1>6. FirstDecisionCounts'
  <2>1. /\ IF decided[c] = None THEN inbox[c] = sent[c]
           ELSE decided[c] = Head(sent[c]) /\ inbox[c] = Tail(sent[c])
        /\ decided[c] # None => sent[c] # <<>>
    BY DEF WorkflowInv, MailInv, FirstDecisionCounts
  <2>2. IF decided'[c] = None THEN inbox'[c] = sent'[c]
        ELSE decided'[c] = Head(sent'[c]) /\ inbox'[c] = Tail(sent'[c])
    BY <1>1, <1>2, <1>4, <2>1
  <2>3. ASSUME NEW b \in Channels \ {c}
        PROVE  IF decided'[b] = None THEN inbox'[b] = sent'[b]
               ELSE decided'[b] = Head(sent'[b]) /\ inbox'[b] = Tail(sent'[b])
    BY <1>1, <1>2 DEF WorkflowInv, MailInv, FirstDecisionCounts
  <2> QED BY <2>2, <2>3 DEF FirstDecisionCounts
<1>7. MailInv'
  <2>1. \A b \in Channels : /\ inbox'[b] \in Seq(Signals) /\ sent'[b] \in Seq(Signals)
                            /\ decided'[b] \in Signals \cup {None}
                            /\ decided'[b] # None => sent'[b] # <<>>
    BY <1>1, <1>2, <1>4 DEF WorkflowInv, MailInv
  <2>2. \A b \in Channels : IsOpen' => IF Pos[pc'] <= Waited[b] THEN decided'[b] = None
                                       ELSE decided'[b] # None /\ decided'[b].decision = "approve"
    BY <1>1 DEF WorkflowInv, MailInv, IsOpen
  <2> QED BY <1>6, <2>1, <2>2 DEF MailInv
<1>8. GateInv' /\ \A k \in Kinds : KindInv(k)'
  BY <1>1 DEF WorkflowInv, IsOpen, GateInv, KindInv, Approved
<1>9. DraftInv'
  BY <1>1 DEF WorkflowInv, DraftInv, Drafted, in, defect
<1>10. ChainInv'
  BY <1>1 DEF WorkflowInv, ChainInv, IsOpen, Reviewed, Rendered, Approved, in, defect
<1>11. CompletedEarned'
  BY <1>1 DEF WorkflowInv, CompletedEarned
<1> QED BY <1>1, <1>5, <1>7, <1>8, <1>9, <1>10, <1>11 DEF WorkflowInv

\* Nothing of what people approved changes.
Stood == UNCHANGED <<pc, result, art, stamped, decided, passed>>

\* The workflow closes and leaves all it made and heard.
Closed ==
    /\ IsOpen /\ pc' = "closed" /\ UNCHANGED <<art, stamped, decided>>
    /\ passed' = passed \/ passed' = Append(passed, "release")
    /\ result'.state = Completed => pc = "publishDryRun"

LEMMA WorkflowStep ==
    WorkflowInv /\ [Next]_workflowVars => WorkflowInv' /\ (Moved \/ Closed \/ Stood)
<1> SUFFICES ASSUME WorkflowInv, [Next]_workflowVars
             PROVE  WorkflowInv' /\ (Moved \/ Closed \/ Stood)
  OBVIOUS
<1>1. CASE Work
  <2>1. CASE \/ Start \/ BuildStoryboardPromptPack \/ ImportStoryboard
             \/ ReceiveStoryboardApproval \/ ApproveStoryboard \/ GenerateShots
             \/ ApproveShots \/ GenerateVoice \/ ApproveVoice \/ GenerateCaptions
    BY <2>1, StartKeeps, PromptPackKeeps, ImportKeeps, StoryboardDecisionKeeps,
       ApproveStoryboardKeeps, GenerateShotsKeeps, ApproveShotsKeeps, GenerateVoiceKeeps,
       ApproveVoiceKeeps, GenerateCaptionsKeeps
  <2>2. CASE \/ ApproveCaptions \/ RenderShortFinal \/ JudgeRender \/ ApproveRender
             \/ AssembleCandidate \/ ReceiveReleaseApproval \/ BuildRelease
             \/ GeneratePublishManifest
    BY <2>2, ApproveCaptionsKeeps, RenderKeeps, JudgeRenderKeeps, ApproveRenderKeeps,
       AssembleKeeps, ReleaseDecisionKeeps, BuildReleaseKeeps, PublishManifestKeeps
  <2>3. CASE DryRunPublish
    BY <2>3, DryRunKeeps DEF Closed, IsOpen
  <2>4. CASE AttemptFails
    BY <2>4, FailKeeps DEF Closed, Stood
  <2> QED BY <1>1, <2>1, <2>2, <2>3, <2>4 DEF Work
<1>2. CASE SendSignal
  BY <1>2, SendKeeps DEF Stood
<1>3. CASE UNCHANGED workflowVars
  BY <1>3, StillStands DEF workflowVars, Stood
<1> QED BY <1>1, <1>2, <1>3 DEF Next

\* The inductive invariant holds: where the workflow stands says what was made, gated,
\* stamped and decided, for any input, any fault and any signals.
LEMMA WorkflowAlways == Spec => []WorkflowInv
BY WorkflowStarts, WorkflowStep, PTL DEF Spec

(***************************************************************************)
(* What follows from the invariant.                                        *)
(***************************************************************************)

\* Of all signals on a channel the first one sent decides, however early it came, and
\* the later ones stay unread in their order.
THEOREM FirstDecisionCorrect == Spec => []FirstDecisionCounts
<1>1. WorkflowInv => FirstDecisionCounts
  BY DEF WorkflowInv, MailInv
<1> QED BY <1>1, WorkflowAlways, PTL

\* The approval of the storyboard is stamped before the gates judge it, and still no shot
\* is made unless a human approved it and every image bears his name.
THEOREM ReviewCorrect == Spec => []DownstreamReviewed
<1>1. WorkflowInv => DownstreamReviewed
  BY DEF WorkflowInv, ChainInv, DownstreamReviewed, Reviewed
<1> QED BY <1>1, WorkflowAlways, PTL

\* What a candidate pins are the artifacts as they were gated and stamped, all approved,
\* and they stay so to the end of the workflow.
THEOREM PinsCorrect == Spec => []CandidatePins
<1>1. WorkflowInv => CandidatePins
  BY DEF WorkflowInv, ChainInv, CandidatePins, Approved
<1> QED BY <1>1, WorkflowAlways, PTL

\* A run that completed passed all eight gates in order, and what it publishes is the
\* pinned render with sound, signed by a named person and disclosed where it must be.
THEOREM CompletionCorrect == Spec => []CompletedEarned
<1>1. WorkflowInv => CompletedEarned
  BY DEF WorkflowInv
<1> QED BY <1>1, WorkflowAlways, PTL

LEMMA DraftIsNoApproval ==
    ASSUME NEW i, NEW d, ImportStoryboardImages(i, d) # None
    PROVE  ImportStoryboardImages(i, d).status = "draft"
BY DEF ImportStoryboardImages

LEMMA StampsOnce ==
    ASSUME WorkflowInv, Moved, NEW k \in Kinds, stamped[k] # None,
           stamped[k].status \in {"approved", "locked"}
    PROVE  stamped'[k] = stamped[k]
<1>1. PICK n, next, j : Orderly(n, next, j)
  BY DEF Moved
<1>2. CASE k # j
  BY <1>1, <1>2 DEF Orderly, GoesTo, Only
<1>3. CASE k = j /\ n <= Stamped[k]
  <2>1. stamped[k] = None
    BY <1>1, <1>3 DEF WorkflowInv, KindInv, Orderly, GoesTo
  <2> QED BY <2>1
<1>4. CASE k = j /\ n = 5 /\ ~(n <= Stamped[k])
  <2>1. k = Storyboard
    BY <1>4, Moments, KindsApart
  <2>2. pc = "approveStoryboard"
    BY <1>1, <1>4, Awaits, AwaitsKnown DEF Orderly, GoesTo, WorkflowInv, Shape
  <2>3. /\ stamped[Storyboard] = ImportStoryboardImages(in, defect)
        /\ ImportStoryboardImages(in, defect) # None
    BY <2>2 DEF WorkflowInv, DraftInv, Drafted
  <2>4. stamped[k].status = "draft"
    BY <2>1, <2>3, DraftIsNoApproval
  <2> QED BY <2>4
<1> QED BY <1>1, <1>2, <1>3, <1>4 DEF Orderly

\* Content once stamped as approved or locked keeps its hash for the rest of the
\* workflow, through retries and later stages.
THEOREM ApprovedStaysFrozen == Spec => ApprovedFrozen
<1> DEFINE Frozen == \A k \in Kinds :
               stamped[k] # None /\ stamped[k].status \in {"approved", "locked"}
                   => stamped'[k] = stamped[k]
<1>1. ASSUME WorkflowInv, [Next]_workflowVars PROVE Frozen
  BY <1>1, WorkflowStep, StampsOnce DEF Closed, Stood
<1>2. WorkflowInv /\ [Next]_workflowVars => [Frozen]_workflowVars
  BY <1>1
<1>3. Spec => [][Frozen]_workflowVars
  BY <1>2, WorkflowAlways, PTL DEF Spec
<1> QED BY <1>3 DEF ApprovedFrozen

(***************************************************************************)
(* The promise of two signatures.                                          *)
(***************************************************************************)
LEMMA StageTable ==
    /\ IsOpen /\ pc \in DOMAIN Pos =>
           StageNow = IF Pos[pc] <= 5 THEN "draft" ELSE IF Pos[pc] <= 15 THEN "produce"
                      ELSE IF Pos[pc] <= 17 THEN "candidate" ELSE "signed"
    /\ ~IsOpen => StageNow = IF result.state = Completed THEN "released" ELSE "stopped"
<1>1. ASSUME IsOpen, pc \in DOMAIN Pos
      PROVE  StageNow = IF Pos[pc] <= 5 THEN "draft" ELSE IF Pos[pc] <= 15 THEN "produce"
                        ELSE IF Pos[pc] <= 17 THEN "candidate" ELSE "signed"
  BY <1>1, Awaits, AwaitsKnown DEF StageNow, Drafting, Signing, Releasing, IsOpen
<1>2. ASSUME ~IsOpen
      PROVE  StageNow = IF result.state = Completed THEN "released" ELSE "stopped"
  BY <1>2 DEF StageNow, IsOpen, Drafting, Signing, Releasing
<1> QED BY <1>1, <1>2

\* Whose approvals have passed their gates.
LEMMA Signatures ==
    WorkflowInv /\ IsOpen =>
        /\ "storyboard_image" \in Elements(passed) <=> Pos[pc] > 5
        /\ "multi_verifier" \in Elements(passed) <=> Pos[pc] > 17
<1> SUFFICES ASSUME WorkflowInv, IsOpen
             PROVE  /\ "storyboard_image" \in Elements(passed) <=> Pos[pc] > 5
                    /\ "multi_verifier" \in Elements(passed) <=> Pos[pc] > 17
  OBVIOUS
<1>1. Pos[pc] \in 1..19
  BY AwaitsKnown DEF WorkflowInv, Shape
<1>2. Prefix(passed, Cleared[Pos[pc]])
  BY DEF WorkflowInv, GateInv
<1>3. \A n \in 1..19 : (Cleared[n] >= 3 <=> n > 5) /\ (Cleared[n] >= 7 <=> n > 17)
  BY DEF Cleared
<1>4. Cleared[Pos[pc]] \in 0..8
  BY <1>1, ClearedTable
<1> QED BY <1>1, <1>2, <1>3, <1>4, PrefixHas

SameHands == UNCHANGED <<ReviewerNow, PinnedNow, SignerNow>>
Promised == Promise!Next \/ UNCHANGED <<StageNow, ReviewerNow, PinnedNow, SignerNow>>

LEMMA PromiseStarts == Init => Promise!Init
<1> SUFFICES ASSUME Init PROVE Promise!Init
  OBVIOUS
<1>1. StageNow = "draft"
  BY StageTable, Awaits, AwaitsKnown DEF Init, IsOpen
<1>2. Elements(passed) = {}
  BY DEF Init, Elements
<1>3. art[Candidate] = None
  BY KindsApart DEF Init
<1> QED BY <1>1, <1>2, <1>3 DEF Promise!Init, ReviewerNow, SignerNow, PinnedNow

\* A step that closes an open workflow before the end stops it, with the hands it has.
LEMMA StopsHonestly ==
    ASSUME WorkflowInv, IsOpen, ~IsOpen', art'[Candidate] = art[Candidate],
           Pos[pc] > 5 => decided'[StoryboardImageApproval] = decided[StoryboardImageApproval],
           Pos[pc] > 17 => decided'[ReleaseApproval] = decided[ReleaseApproval],
           NEW g \in GateNames \ {"storyboard_image", "multi_verifier"},
           passed' = passed \/ passed' = Append(passed, g)
    PROVE  /\ SameHands
           /\ StageNow' = IF result'.state = Completed THEN "released" ELSE "stopped"
           /\ result'.state # Completed => Promise!Stop
<1>1. /\ "storyboard_image" \in Elements(passed') <=> "storyboard_image" \in Elements(passed)
      /\ "multi_verifier" \in Elements(passed') <=> "multi_verifier" \in Elements(passed)
  <2>1. passed \in Seq(GateNames) /\ g \in GateNames
    BY DEF WorkflowInv, GateInv
  <2>2. Elements(Append(passed, g)) = Elements(passed) \cup {g}
    BY <2>1, Appended
  <2> QED BY <2>2
<1>2. SameHands
  BY <1>1, Signatures DEF SameHands, ReviewerNow, SignerNow, PinnedNow
<1>3. StageNow' = IF result'.state = Completed THEN "released" ELSE "stopped"
  <2>1. (~IsOpen => StageNow = IF result.state = Completed THEN "released" ELSE "stopped")'
    BY StageTable, PTL
  <2> QED BY <2>1
<1>4. StageNow \in {"draft", "produce", "candidate", "signed"}
  BY StageTable DEF WorkflowInv, Shape
<1> QED BY <1>2, <1>3, <1>4 DEF SameHands, Promise!Stop

\* A step that goes on to the next await stutters, except where a review passed its gates,
\* where the candidate is pinned, and where the release was signed.
LEMMA GoesOnHonestly ==
    ASSUME WorkflowInv, WorkflowInv', IsOpen', NEW n, NEW next, NEW k, Orderly(n, next, k)
    PROVE  Promised
<1>1. /\ IsOpen /\ Pos[pc] = n /\ n \in 1..18 /\ Pos[pc'] = n + 1
      /\ pc \in DOMAIN Pos /\ pc' \in DOMAIN Pos
      /\ k # Candidate => art'[Candidate] = art[Candidate]
      /\ \A c \in Channels : n > Waited[c] => decided'[c] = decided[c]
      /\ n # 15 => k # Candidate
  BY StepShape, KindsApart DEF Orderly, GoesTo, Only, WorkflowInv, Shape
<1>2. /\ StageNow = IF n <= 5 THEN "draft" ELSE IF n <= 15 THEN "produce"
                    ELSE IF n <= 17 THEN "candidate" ELSE "signed"
      /\ StageNow' = IF n + 1 <= 5 THEN "draft" ELSE IF n + 1 <= 15 THEN "produce"
                     ELSE IF n + 1 <= 17 THEN "candidate" ELSE "signed"
  <2>1. (IsOpen /\ pc \in DOMAIN Pos =>
            StageNow = IF Pos[pc] <= 5 THEN "draft" ELSE IF Pos[pc] <= 15 THEN "produce"
                       ELSE IF Pos[pc] <= 17 THEN "candidate" ELSE "signed")'
    BY StageTable, PTL
  <2>2. StageNow' = IF Pos[pc'] <= 5 THEN "draft" ELSE IF Pos[pc'] <= 15 THEN "produce"
                    ELSE IF Pos[pc'] <= 17 THEN "candidate" ELSE "signed"
    BY <1>1, <2>1
  <2> QED BY <1>1, <2>2, StageTable
<1>3. /\ ReviewerNow = IF n > 5 THEN decided[StoryboardImageApproval].approver ELSE None
      /\ SignerNow = IF n > 17 THEN decided[ReleaseApproval].approver ELSE None
  BY <1>1, Signatures DEF ReviewerNow, SignerNow
<1>4. /\ ReviewerNow' = IF n + 1 > 5 THEN decided'[StoryboardImageApproval].approver ELSE None
      /\ SignerNow' = IF n + 1 > 17 THEN decided'[ReleaseApproval].approver ELSE None
  <2>1. (WorkflowInv /\ IsOpen =>
            /\ "storyboard_image" \in Elements(passed) <=> Pos[pc] > 5
            /\ "multi_verifier" \in Elements(passed) <=> Pos[pc] > 17)'
    BY Signatures, PTL
  <2>2. /\ "storyboard_image" \in Elements(passed') <=> n + 1 > 5
        /\ "multi_verifier" \in Elements(passed') <=> n + 1 > 17
    BY <1>1, <2>1
  <2> QED BY <2>2 DEF ReviewerNow, SignerNow
<1>5. n # 5 => ReviewerNow' = ReviewerNow
  <2>1. n > 5 => decided'[StoryboardImageApproval] = decided[StoryboardImageApproval]
    BY <1>1, ChannelsApart
  <2> QED BY <1>1, <1>3, <1>4, <2>1
<1>6. n # 17 => SignerNow' = SignerNow
  <2>1. n > 17 => decided'[ReleaseApproval] = decided[ReleaseApproval]
    BY <1>1, ChannelsApart
  <2> QED BY <1>1, <1>3, <1>4, <2>1
<1>7. n # 15 => PinnedNow' = PinnedNow
  BY <1>1 DEF PinnedNow
<1>8. CASE n = 5
  <2>1. Reviewed'
    BY <1>1, <1>8 DEF WorkflowInv, ChainInv
  <2>2. ReviewerNow' \in People \cup {Nobody}
    BY <1>4, <1>8, <2>1 DEF Reviewed, IsHuman
  <2>3. Promise!Review(ReviewerNow')
    BY <1>2, <1>6, <1>7, <1>8, <2>2 DEF Promise!Review
  <2> QED BY <2>2, <2>3 DEF Promised, Promise!Next
<1>9. CASE n = 15
  <2>1. art'[Candidate] # None
    BY <1>1, <1>9 DEF WorkflowInv, ChainInv
  <2>2. /\ DOMAIN art'[Candidate].components = Components
        /\ \A j \in Components : Approved(j)' /\ art'[Candidate].components[j] = art'[j]
    BY <2>1 DEF WorkflowInv, ChainInv
  <2>3. PinnedNow' = art'[Candidate].components
    BY <2>1 DEF PinnedNow
  <2>4. AllApproved(PinnedNow')
    BY <2>2, <2>3 DEF AllApproved, Approved
  <2>5. Promise!Pin
    BY <1>2, <1>5, <1>6, <1>9, <2>4 DEF Promise!Pin
  <2> QED BY <2>5 DEF Promised, Promise!Next
<1>10. CASE n = 17
  <2>1. art'[Release] # None
    BY <1>1, <1>10 DEF WorkflowInv, ChainInv
  <2>2. IsHumanIdentity(decided'[ReleaseApproval].approver)
    BY <2>1 DEF WorkflowInv, ChainInv
  <2>3. SignerNow' \in People
    BY <1>4, <1>10, <2>2 DEF IsHumanIdentity
  <2>4. Promise!Sign(SignerNow')
    BY <1>2, <1>5, <1>7, <1>10, <2>3 DEF Promise!Sign
  <2> QED BY <2>3, <2>4 DEF Promised, Promise!Next
<1>11. CASE n \notin {5, 15, 17}
  <2>1. StageNow' = StageNow
    BY <1>1, <1>2, <1>11
  <2> QED BY <1>5, <1>6, <1>7, <1>11, <2>1 DEF Promised
<1> QED BY <1>8, <1>9, <1>10, <1>11

LEMMA PromiseKept == WorkflowInv /\ WorkflowInv' /\ [Next]_workflowVars => Promised
<1> SUFFICES ASSUME WorkflowInv, WorkflowInv', [Next]_workflowVars PROVE Promised
  OBVIOUS
<1>1. Moved \/ Closed \/ Stood
  BY WorkflowStep
<1>2. CASE Stood
  BY <1>2 DEF Stood, Promised, StageNow, ReviewerNow, SignerNow, PinnedNow
<1>3. CASE Closed
  <2>1. /\ IsOpen /\ ~IsOpen' /\ UNCHANGED <<art, decided>>
        /\ passed' = passed \/ passed' = Append(passed, "release")
    BY <1>3 DEF Closed, IsOpen
  <2>2. "release" \in GateNames \ {"storyboard_image", "multi_verifier"}
    BY GatesNamed, GateTable
  <2>3. /\ SameHands
        /\ StageNow' = IF result'.state = Completed THEN "released" ELSE "stopped"
        /\ result'.state # Completed => Promise!Stop
    BY <2>1, <2>2, StopsHonestly
  <2>4. CASE result'.state = Completed
    <3>1. pc = "publishDryRun"
      BY <1>3, <2>4 DEF Closed
    <3>2. StageNow = "signed"
      BY <2>1, <3>1, StageTable, Awaits, AwaitsKnown
    <3>3. Promise!Release
      BY <2>3, <2>4, <3>2 DEF Promise!Release, SameHands
    <3> QED BY <3>3 DEF Promised, Promise!Next
  <2> QED BY <2>3, <2>4 DEF Promised, Promise!Next
<1>4. CASE Moved
  <2>1. PICK n, next, k : Orderly(n, next, k)
    BY <1>4 DEF Moved
  <2>2. CASE IsOpen'
    BY <2>1, <2>2, GoesOnHonestly
  <2>3. CASE ~IsOpen'
    <3>1. /\ IsOpen /\ Pos[pc] = n /\ pc' = "closed" /\ n \in 1..18
          /\ passed' = passed \/ passed' = Append(passed, "self_approval")
          /\ result'.state # Completed
      BY <2>1, <2>3, StepShape DEF Orderly, GoesTo, IsOpen, WorkflowInv
    <3>2. "self_approval" \in GateNames \ {"storyboard_image", "multi_verifier"}
      BY GatesNamed, GateTable
    <3>3. /\ Pos[pc] > 5 => decided'[StoryboardImageApproval] = decided[StoryboardImageApproval]
          /\ Pos[pc] > 17 => decided'[ReleaseApproval] = decided[ReleaseApproval]
      BY <2>1, <3>1, ChannelsApart DEF Orderly
    <3>4. art'[Candidate] = art[Candidate]
      <4>1. k # Candidate
        BY <2>1, <3>1 DEF Orderly
      <4> QED BY <2>1, <4>1, KindsApart DEF Orderly, GoesTo, Only
    <3> QED BY <2>3, <3>1, <3>2, <3>3, <3>4, StopsHonestly DEF Promised, Promise!Next
  <2> QED BY <2>2, <2>3
<1> QED BY <1>1, <1>2, <1>3, <1>4

\* The workflow implements the promise of two signatures: only a human's approval that
\* passed both gates leads to production, only approved artifacts are pinned, and only a
\* named person's signature on them leads to the release.
THEOREM WorkflowImplements == Spec => ImplementsPromise
<1>1. WorkflowInv /\ WorkflowInv' /\ [Next]_workflowVars => [Promise!Next]_(Promise!vars)
  BY PromiseKept DEF Promised, Promise!vars
<1>2. Spec => Promise!Init /\ [][Promise!Next]_(Promise!vars)
  BY <1>1, WorkflowAlways, PromiseStarts, PTL DEF Spec
<1> QED BY <1>2 DEF ImplementsPromise, Promise!Spec
-----------------------------------------------------------------------------
(***************************************************************************)
(* The demo runner. The step at which a run stands tells which gates it    *)
(* has passed, which files it has yet to write, and who has approved.      *)
(***************************************************************************)
Stops == [import |-> 1, approve |-> 2, gateStoryboard |-> 3, shots |-> 4, voice |-> 5,
          subtitles |-> 6, render |-> 7, candidate |-> 8, release |-> 9, publish |-> 10,
          finalize |-> 11, idle |-> 12]

Stop == Stops[at]

\* The step that writes an artifact; `approve` writes the storyboard again.
WrittenAt == [k \in Kinds |->
    CASE k = Storyboard -> 1 [] k = Shots -> 4 [] k = Voiceover -> 5 [] k = Subtitles -> 6
      [] k = Render -> 7 [] k = Candidate -> 8 [] k = Release -> 9 [] k = Publish -> 10]

\* How many gates a run has passed when it stands at a step.
PassedBefore == <<1, 1, 2, 3, 4, 4, 5, 6, 6, 7>>

\* The storyboard is withheld from approval.
Withheld == config.inject = "unapproved_storyboard"
Cut(file) == file = None \/ file = Torn
Finished == "published_dry_run_complete"

CourseInv ==
    /\ at \in DOMAIN Stops /\ runs \in Nat /\ config \in Configs
    /\ Stop \in 1..10 =>
          Prefix(cleared, IF Withheld /\ Stop = 3 THEN 1 ELSE PassedBefore[Stop])
    /\ Stop = 11 => /\ outcome = Finished <=> cleared = GateOrder
                    /\ config.inject # "none" => outcome # Finished
                    /\ outcome # "started"

HandsInv ==
    /\ Withheld => Stop \in {1, 3, 11, 12}
    /\ Withheld /\ Stop = 3 => /\ made[Storyboard] = ImportStoryboardImages(Demo, "none")
                               /\ made[Storyboard] # None
    /\ config.inject = "render_no_audio" => Stop \notin 8..10
    /\ config.inject = "release_denied" => Stop \notin 9..10
    /\ Stop \in 3..10 /\ ~Withheld => IsHuman(config.approver)
    /\ Stop \in 8..10 => RunProductionQA(made[Render]) = "approved"
    /\ Stop = 10 => /\ made[Release] = BuildReleaseApproval(Demo, config.releaser)
                    /\ IsHumanIdentity(config.releaser)

\* What a run lists is on disk, and what it has yet to write is not listed.
ListInv ==
    /\ made = [k \in Kinds |-> made[k]] /\ listed = [k \in Kinds |-> listed[k]]
    /\ disk = [k \in Kinds |-> disk[k]]
    /\ \A k \in Kinds : listed[k] # None =>
          \/ disk[k] = listed[k]
          \/ k = Storyboard /\ disk[k] = Torn /\ listed[k].body.status = "draft"
    /\ \A k \in Kinds : Stop <= WrittenAt[k] => listed[k] = None
    /\ Stop <= 2 /\ listed[Storyboard] # None => listed[Storyboard].body.status = "draft"

\* A publish manifest of the present run was earned by it.
Earned == /\ outcome = Finished /\ cleared = GateOrder
          /\ IsHuman(config.approver) /\ IsHumanIdentity(config.releaser)

ManifestInv == ~Cut(disk[Publish]) =>
    /\ disk[Publish].run \in Nat /\ disk[Publish].run <= runs
    /\ disk[Publish].run = runs => Stop \in {11, 12} /\ Earned

\* A summary of the present run is written last.
LastInv == HasSummary =>
    /\ summary.run \in Nat /\ summary.run <= runs
    /\ summary.run = runs =>
          /\ at = "idle" /\ summary.artifacts = listed /\ summary.gates = cleared
          /\ summary.state = outcome /\ summary.config = config

RunnerInv == /\ CourseInv /\ HandsInv /\ ListInv /\ ManifestInv /\ LastInv
             /\ ManifestOfSummary /\ SummaryJustified

LEMMA StopTable ==
    /\ DOMAIN Stops = {"import", "approve", "gateStoryboard", "shots", "voice", "subtitles",
                       "render", "candidate", "release", "publish", "finalize", "idle"}
    /\ Stops["import"] = 1 /\ Stops["approve"] = 2 /\ Stops["gateStoryboard"] = 3
    /\ Stops["shots"] = 4 /\ Stops["voice"] = 5 /\ Stops["subtitles"] = 6
    /\ Stops["render"] = 7 /\ Stops["candidate"] = 8 /\ Stops["release"] = 9
    /\ Stops["publish"] = 10 /\ Stops["finalize"] = 11 /\ Stops["idle"] = 12
BY DEF Stops

LEMMA WriteTable ==
    /\ Kinds = {Storyboard, Shots, Voiceover, Subtitles, Render, Candidate, Release, Publish}
    /\ WrittenAt[Storyboard] = 1 /\ WrittenAt[Shots] = 4 /\ WrittenAt[Voiceover] = 5
    /\ WrittenAt[Subtitles] = 6 /\ WrittenAt[Render] = 7 /\ WrittenAt[Candidate] = 8
    /\ WrittenAt[Release] = 9 /\ WrittenAt[Publish] = 10
    /\ \A k \in Kinds : WrittenAt[k] \in 1..10
<1>1. Kinds = {Storyboard, Shots, Voiceover, Subtitles, Render, Candidate, Release, Publish}
  BY DEF Kinds, Components
<1>2. /\ WrittenAt[Storyboard] = 1 /\ WrittenAt[Shots] = 4 /\ WrittenAt[Voiceover] = 5
      /\ WrittenAt[Subtitles] = 6 /\ WrittenAt[Render] = 7 /\ WrittenAt[Candidate] = 8
      /\ WrittenAt[Release] = 9 /\ WrittenAt[Publish] = 10
  BY <1>1, KindsApart DEF WrittenAt, Storyboard, Shots, Voiceover, Subtitles, Render, Candidate,
                          Release, Publish
<1> QED BY <1>1, <1>2

LEMMA PassTable ==
    /\ PassedBefore[1] = 1 /\ PassedBefore[2] = 1 /\ PassedBefore[3] = 2 /\ PassedBefore[4] = 3
    /\ PassedBefore[5] = 4 /\ PassedBefore[6] = 4 /\ PassedBefore[7] = 5
    /\ PassedBefore[8] = 6 /\ PassedBefore[9] = 6 /\ PassedBefore[10] = 7
BY DEF PassedBefore

LEMMA NotAll == ASSUME NEW p, NEW n \in 0..7, Prefix(p, n) PROVE p # GateOrder
<1>1. Len(p) = n /\ Len(GateOrder) = 8
  BY GateTable DEF Prefix
<1>2. Len(p) # Len(GateOrder)
  BY <1>1
<1> QED BY <1>2

\* A step of a run that goes on from l to next.
Onto(l, next) == /\ at = l /\ at' = next /\ next \in DOMAIN Stops /\ Stops[l] \in 1..10
                 /\ Stops[l] < Stops[next] /\ Stops[next] <= 11

FileInv == ListInv /\ ManifestInv /\ LastInv /\ ManifestOfSummary /\ SummaryJustified

\* While a run is under way, no summary and no manifest is of that run.
LEMMA Underway ==
    ASSUME RunnerInv, Stop \in 1..10
    PROVE  /\ runs \in Nat /\ at # "idle"
           /\ HasSummary => summary.run # runs
           /\ ~Cut(disk[Publish]) => disk[Publish].run # runs
BY StopTable DEF RunnerInv, CourseInv, LastInv, ManifestInv, Stop

\* A gate alone touches no file.
LEMMA ReadsOnly ==
    ASSUME RunnerInv, NEW l, NEW next, Onto(l, next),
           UNCHANGED <<runs, config, made, listed, disk, summary>>
    PROVE  FileInv'
<1>1. Stop \in 1..10 /\ Stop' > Stop /\ Stop' \in 1..11 /\ Stop \in Nat
  BY StopTable DEF Onto, Stop
<1>2. ListInv'
  BY <1>1, WriteTable DEF RunnerInv, ListInv, Stop
<1>3. ManifestInv' /\ LastInv'
  BY <1>1, Underway DEF RunnerInv, ManifestInv, LastInv, HasSummary, Cut, Stop, Earned
<1>4. ManifestOfSummary' /\ SummaryJustified'
  BY DEF RunnerInv, ManifestOfSummary, SummaryJustified, HasSummary
<1> QED BY <1>2, <1>3, <1>4 DEF FileInv

\* A step that writes its artifact.
LEMMA Writes ==
    ASSUME RunnerInv, NEW l, NEW next, Onto(l, next), NEW k \in Kinds, NEW a, Persist(k, a),
           Stops[l] = WrittenAt[k] \/ (l = "approve" /\ k = Storyboard),
           next = "approve" => k = Storyboard /\ a.status = "draft",
           k = Publish => next = "finalize" /\ Earned'
    PROVE  FileInv' /\ made' = [made EXCEPT ![k] = a]
<1> DEFINE file == [run |-> runs, body |-> a]
<1>1. /\ Stop = Stops[l] /\ Stop' = Stops[next] /\ Stop \in 1..10 /\ Stop' > Stop
      /\ Stop' \in 2..11
  BY StopTable DEF Onto, Stop
<1>2. /\ made' = [made EXCEPT ![k] = a] /\ UNCHANGED <<runs, config, summary>>
      /\ \/ disk' = [disk EXCEPT ![k] = file] /\ listed' = [listed EXCEPT ![k] = disk'[k]]
         \/ disk' = [disk EXCEPT ![k] = Torn] /\ listed' = listed
  BY DEF Persist
<1>3. /\ made = [j \in Kinds |-> made[j]] /\ listed = [j \in Kinds |-> listed[j]]
      /\ disk = [j \in Kinds |-> disk[j]]
  BY DEF RunnerInv, ListInv
<1>4. /\ \A j \in Kinds \ {k} : disk'[j] = disk[j] /\ listed'[j] = listed[j]
      /\ \/ disk'[k] = file /\ listed'[k] = file
         \/ disk'[k] = Torn /\ listed'[k] = listed[k]
  BY <1>2, <1>3
<1>5. listed[k] = None \/ (k = Storyboard /\ listed[k].body.status = "draft")
  <2>1. CASE Stops[l] = WrittenAt[k]
    BY <1>1, <2>1 DEF RunnerInv, ListInv
  <2>2. CASE l = "approve" /\ k = Storyboard
    BY <1>1, <2>2, StopTable DEF RunnerInv, ListInv
  <2> QED BY <2>1, <2>2
<1>6. WrittenAt[k] < Stop'
  BY <1>1, StopTable, WriteTable DEF Onto
<1>7. ListInv'
  <2>1. \A j \in Kinds : listed'[j] # None =>
            \/ disk'[j] = listed'[j]
            \/ j = Storyboard /\ disk'[j] = Torn /\ listed'[j].body.status = "draft"
    BY <1>4, <1>5 DEF RunnerInv, ListInv
  <2>2. \A j \in Kinds : Stop' <= WrittenAt[j] => listed'[j] = None
    BY <1>1, <1>4, <1>6, WriteTable DEF RunnerInv, ListInv
  <2>3. Stop' <= 2 /\ listed'[Storyboard] # None => listed'[Storyboard].body.status = "draft"
    <3>1. Stop' <= 2 => next = "approve"
      BY <1>1, StopTable DEF Onto
    <3> QED BY <3>1, <1>4, <1>5
  <2>4. /\ made' = [j \in Kinds |-> made'[j]] /\ listed' = [j \in Kinds |-> listed'[j]]
        /\ disk' = [j \in Kinds |-> disk'[j]]
    BY <1>2, <1>3
  <2> QED BY <2>1, <2>2, <2>3, <2>4 DEF ListInv, Stop
<1>8. runs \in Nat /\ at # "idle" /\ (HasSummary => summary.run # runs)
  BY <1>1, Underway
<1>9. \/ k # Publish /\ disk'[Publish] = disk[Publish]
      \/ k = Publish /\ disk'[Publish] = Torn
      \/ k = Publish /\ disk'[Publish].run = runs /\ next = "finalize" /\ Earned'
  BY <1>4, WriteTable
<1>10. ManifestInv'
  <2>1. CASE k # Publish /\ disk'[Publish] = disk[Publish]
    BY <1>1, <1>2, <2>1, Underway DEF RunnerInv, ManifestInv, Cut
  <2>2. CASE disk'[Publish] = Torn
    BY <2>2 DEF ManifestInv, Cut
  <2>3. CASE disk'[Publish].run = runs /\ next = "finalize" /\ Earned'
    BY <1>1, <1>2, <1>8, <2>3, StopTable DEF ManifestInv
  <2> QED BY <1>9, <2>1, <2>2, <2>3
<1>11. LastInv'
  BY <1>2, <1>8 DEF RunnerInv, LastInv, HasSummary
<1>12. ManifestOfSummary'
  BY <1>2, <1>8, <1>9 DEF RunnerInv, ManifestOfSummary, HasSummary
<1>13. SummaryJustified'
  BY <1>2 DEF RunnerInv, SummaryJustified, HasSummary
<1> QED BY <1>2, <1>7, <1>10, <1>11, <1>12, <1>13 DEF FileInv

\* A step with a gate: passed, or blocked on the way to the summary.
LEMMA Judged ==
    ASSUME RunnerInv, NEW n \in 1..6, NEW l, NEW next, NEW reasons, at = l,
           l \in DOMAIN Stops, Stops[l] \in 1..9, Prefix(cleared, n),
           Pass(GateOrder[n + 1], reasons, next), UNCHANGED <<runs, config>>,
           next \in DOMAIN Stops, Stops[next] \in 1..10, Stops[l] < Stops[next],
           ~(Withheld /\ Stops[next] = 3), PassedBefore[Stops[next]] = n + 1
    PROVE  /\ CourseInv' /\ \E to : Onto(l, to) /\ to \in {next, "finalize"}
           /\ \/ reasons = {} /\ at' = next
              \/ reasons # {} /\ at' = "finalize"
<1>1. CASE reasons = {}
  <2>1. cleared' = Append(cleared, GateOrder[n + 1]) /\ at' = next
    BY <1>1 DEF Pass
  <2>2. Prefix(cleared', n + 1)
    BY <2>1, PrefixGrows
  <2>3. /\ Stop' = Stops[next] /\ Withheld' = Withheld /\ runs' = runs /\ config' = config
        /\ Stop' \in 1..10
    BY <2>1 DEF Stop, Withheld
  <2>4. CourseInv'
    BY <2>1, <2>2, <2>3 DEF RunnerInv, CourseInv
  <2> QED BY <1>1, <2>1, <2>4 DEF Onto
<1>2. CASE reasons # {}
  <2>1. cleared' = cleared /\ at' = "finalize" /\ outcome' = "blocked"
    BY <1>2 DEF Pass
  <2>2. cleared' # GateOrder
    BY <2>1, NotAll
  <2>3. Stop' = 11 /\ "finalize" \in DOMAIN Stops
    BY <2>1, StopTable DEF Stop
  <2>4. CourseInv'
    BY <2>1, <2>2, <2>3 DEF RunnerInv, CourseInv, Finished
  <2> QED BY <1>2, <2>1, <2>3, <2>4, StopTable DEF Onto
<1> QED BY <1>1, <1>2

\* A step without a gate.
LEMMA Unjudged ==
    ASSUME RunnerInv, NEW l, NEW next, at = l, NoGate(next), UNCHANGED <<runs, config>>,
           l \in DOMAIN Stops, next \in DOMAIN Stops, Stops[l] \in 1..9, Stops[next] \in 1..10,
           Stops[l] < Stops[next],
           Prefix(cleared, IF Withheld /\ Stops[next] = 3 THEN 1 ELSE PassedBefore[Stops[next]])
    PROVE  CourseInv' /\ Onto(l, next)
<1>1. /\ at' = next /\ cleared' = cleared /\ Stop' = Stops[next] /\ Withheld' = Withheld
  BY DEF NoGate, Stop, Withheld
<1>2. Stop' # 11
  BY <1>1
<1> QED BY <1>1, <1>2 DEF RunnerInv, CourseInv, Onto

\* What a run that stands at step l has behind it.
LEMMA Standing ==
    ASSUME RunnerInv, NEW l \in DOMAIN Stops, at = l, Stops[l] \in 1..10
    PROVE  /\ Stop = Stops[l]
           /\ Prefix(cleared, IF Withheld /\ Stops[l] = 3 THEN 1 ELSE PassedBefore[Stops[l]])
BY DEF RunnerInv, CourseInv, Stop

LEMMA Keeps == CourseInv' /\ HandsInv' /\ FileInv' => RunnerInv'
BY DEF RunnerInv, FileInv

LEMMA ImportStepKeeps == ASSUME RunnerInv, ImportStep PROVE RunnerInv'
<1> DEFINE a == ImportStoryboardImages(Demo, "none")
           next == IF Withheld THEN "gateStoryboard" ELSE "approve"
<1>1. at = "import" /\ a # None /\ Persist(Storyboard, a) /\ NoGate(next)
  BY DEF ImportStep, Step, Withheld
<1>2. UNCHANGED <<runs, config>>
  BY <1>1 DEF Persist
<1>3. a.status = "draft"
  BY <1>1 DEF ImportStoryboardImages
<1> HIDE DEF a
<1>4. next \in DOMAIN Stops /\ Stops[next] \in 2..3 /\ (Stops[next] = 3 <=> Withheld)
  BY StopTable
<1>5. Prefix(cleared, 1)
  BY <1>1, Standing, StopTable, PassTable
<1> HIDE DEF next
<1>6. CourseInv' /\ Onto("import", next)
  BY <1>1, <1>2, <1>4, <1>5, Unjudged, StopTable, PassTable
<1>7. FileInv' /\ made' = [made EXCEPT ![Storyboard] = a]
  BY <1>1, <1>3, <1>6, Writes, StopTable, WriteTable
<1>8. made'[Storyboard] = a
  <2>1. Storyboard \in DOMAIN made
    BY WriteTable DEF RunnerInv, ListInv
  <2> QED BY <1>7, <2>1
<1>9. HandsInv'
  <2>1. Stop' = Stops[next]
    BY <1>1 DEF NoGate, Stop
  <2> QED BY <1>1, <1>2, <1>4, <1>8, <2>1 DEF HandsInv, Withheld, a
<1> QED BY <1>6, <1>7, <1>9, Keeps

LEMMA ApproveStepKeeps == ASSUME RunnerInv, ApproveStep PROVE RunnerInv'
<1> DEFINE a == ApproveStoryboardImages(made[Storyboard], config.approver)
           reasons == SelfApprovalGate(System, config.approver)
<1>1. /\ at = "approve" /\ Persist(Storyboard, a)
      /\ Pass("self_approval", reasons, "gateStoryboard")
  BY DEF ApproveStep, Step
<1>2. UNCHANGED <<runs, config>>
  BY <1>1 DEF Persist
<1>3. reasons = {} => IsHuman(config.approver)
  BY MachineWorkNeedsHuman
<1>4. ~Withheld
  BY <1>1, StopTable DEF RunnerInv, HandsInv, Stop
<1>5. Prefix(cleared, 1)
  BY <1>1, Standing, StopTable, PassTable
<1> HIDE DEF a, reasons
<1>6. /\ CourseInv' /\ \E to : Onto("approve", to) /\ to \in {"gateStoryboard", "finalize"}
      /\ \/ reasons = {} /\ at' = "gateStoryboard"
         \/ reasons # {} /\ at' = "finalize"
  BY <1>1, <1>2, <1>4, <1>5, Judged, StopTable, PassTable, GateTable
<1>7. PICK to : Onto("approve", to) /\ to \in {"gateStoryboard", "finalize"}
  BY <1>6
<1>8. FileInv'
  BY <1>1, <1>7, Writes, StopTable, WriteTable, KindsApart
<1>9. HandsInv'
  BY <1>2, <1>3, <1>4, <1>6, StopTable DEF HandsInv, Withheld, Stop
<1> QED BY <1>6, <1>8, <1>9, Keeps

\* The storyboard gate refuses a storyboard of drafts.
LEMMA DraftsRefused ==
    ASSUME ImportStoryboardImages(Demo, "none") # None
    PROVE  StoryboardImageGate(ImportStoryboardImages(Demo, "none"), DemoScenes) # {}
<1> DEFINE m == ImportStoryboardImages(Demo, "none")
           n == Len(DemoScenes)
<1>1. /\ DemoScenes # <<>> /\ DOMAIN m.images = DOMAIN DemoScenes
      /\ \A i \in DOMAIN DemoScenes : m.images[i].scene = DemoScenes[i].id /\ m.images[i].status = "draft"
  BY DEF ImportStoryboardImages, Demo
<1>2. n \in Nat /\ DOMAIN DemoScenes = 1..n /\ n # 0
  BY <1>1, RunnerAssumption, LenProperties, EmptySeq
<1>3. n \in DOMAIN DemoScenes
  BY <1>2
<1> DEFINE s == DemoScenes[n].id
           imagesOf(z) == {i \in DOMAIN m.images : m.images[i].scene = z}
           last(z) == m.images[CHOOSE i \in imagesOf(z) : \A j \in imagesOf(z) : j <= i]
           covered == {x.id : x \in Elements(DemoScenes)}
<1>4. s \in covered
  BY <1>3 DEF Elements
<1>5. n \in imagesOf(s) /\ \A j \in imagesOf(s) : j <= n
  BY <1>1, <1>2, <1>3
<1>6. last(s).status # "approved"
  <2>1. (CHOOSE i \in imagesOf(s) : \A j \in imagesOf(s) : j <= i) \in imagesOf(s)
    BY <1>5
  <2> QED BY <1>1, <2>1
<1>7. Require(\A z \in covered : imagesOf(z) # {} => last(z).status = "approved",
              "image_not_approved") # {}
  BY <1>4, <1>5, <1>6 DEF Require
<1> HIDE DEF m
<1>8. StoryboardImageGate(m, DemoScenes) # {}
  BY <1>7 DEF StoryboardImageGate
<1> QED BY <1>8 DEF m

LEMMA GateStoryboardStepKeeps == ASSUME RunnerInv, GateStoryboardStep PROVE RunnerInv'
<1> DEFINE reasons == StoryboardImageGate(made[Storyboard], DemoScenes)
<1>1. /\ at = "gateStoryboard" /\ Pass("storyboard_image", reasons, "shots")
      /\ UNCHANGED <<runs, config, made, listed, disk, summary>>
  BY DEF GateStoryboardStep
<1>2. Stop = 3 /\ Prefix(cleared, IF Withheld THEN 1 ELSE 2)
  BY <1>1, Standing, StopTable, PassTable
<1>3. CASE Withheld
  <2>1. reasons # {}
    BY <1>2, <1>3, DraftsRefused DEF RunnerInv, HandsInv
  <2> HIDE DEF reasons
  <2>2. at' = "finalize" /\ outcome' = "blocked" /\ cleared' = cleared
    BY <1>1, <2>1 DEF Pass
  <2>3. cleared # GateOrder
    BY <1>2, <1>3, NotAll
  <2>4. Stop' = 11 /\ Onto("gateStoryboard", "finalize")
    BY <1>1, <2>2, StopTable DEF Stop, Onto
  <2>5. CourseInv'
    BY <1>1, <2>2, <2>3, <2>4, StopTable DEF RunnerInv, CourseInv, Finished
  <2>6. HandsInv'
    BY <2>4 DEF HandsInv
  <2> QED BY <1>1, <2>4, <2>5, <2>6, ReadsOnly, Keeps
<1>4. CASE ~Withheld
  <2> HIDE DEF reasons
  <2>1. /\ CourseInv' /\ \E to : Onto("gateStoryboard", to)
        /\ at' \in {"shots", "finalize"}
    BY <1>1, <1>2, <1>4, Judged, StopTable, PassTable, GateTable
  <2>2. HandsInv'
    BY <1>1, <1>2, <1>4, <2>1, StopTable DEF RunnerInv, HandsInv, Withheld, Stop
  <2> QED BY <1>1, <2>1, <2>2, ReadsOnly, Keeps
<1> QED BY <1>3, <1>4

\* A step between the storyboard and the render: nothing that is asked of a run changes.
LEMMA HandsMiddle ==
    ASSUME RunnerInv, Stop \in 4..6, Stop' \in {5, 6, 7, 11}, UNCHANGED config
    PROVE  HandsInv'
BY DEF RunnerInv, HandsInv, Withheld

LEMMA ShotsStepKeeps == ASSUME RunnerInv, ShotsStep PROVE RunnerInv'
<1> DEFINE m == ApproveVisualShots(GenerateVisualShots(made[Storyboard], "none"))
           reasons == VisualShotGate(m, made[Storyboard], DemoScenes)
<1>1. at = "shots" /\ Persist(Shots, m) /\ Pass("visual_shot", reasons, "voice")
  BY DEF ShotsStep, Step
<1> HIDE DEF m, reasons
<1>2. UNCHANGED <<runs, config>>
  BY <1>1 DEF Persist
<1>3. Stop = 4 /\ Prefix(cleared, 3)
  BY <1>1, Standing, StopTable, PassTable
<1>4. CourseInv' /\ \E to : Onto("shots", to) /\ to \in {"voice", "finalize"}
  BY <1>1, <1>2, <1>3, Judged, StopTable, PassTable, GateTable
<1>5. PICK to : Onto("shots", to) /\ to \in {"voice", "finalize"}
  BY <1>4
<1>6. FileInv'
  BY <1>1, <1>5, Writes, StopTable, WriteTable, KindsApart
<1>7. HandsInv'
  BY <1>2, <1>3, <1>5, HandsMiddle, StopTable DEF Onto, Stop
<1> QED BY <1>4, <1>6, <1>7, Keeps

LEMMA VoiceStepKeeps == ASSUME RunnerInv, VoiceStep PROVE RunnerInv'
<1> DEFINE m == ApproveByOperator(GenerateVoiceover(Demo, "none"))
<1>1. at = "voice" /\ Persist(Voiceover, m) /\ NoGate("subtitles")
  BY DEF VoiceStep, Step
<1> HIDE DEF m
<1>2. UNCHANGED <<runs, config>>
  BY <1>1 DEF Persist
<1>3. Stop = 5 /\ Prefix(cleared, 4)
  BY <1>1, Standing, StopTable, PassTable
<1>4. CourseInv' /\ Onto("voice", "subtitles")
  BY <1>1, <1>2, <1>3, Unjudged, StopTable, PassTable
<1>5. FileInv'
  BY <1>1, <1>4, Writes, StopTable, WriteTable, KindsApart
<1>6. HandsInv'
  BY <1>2, <1>3, <1>4, HandsMiddle, StopTable DEF Onto, Stop
<1> QED BY <1>4, <1>5, <1>6, Keeps

LEMMA SubtitlesStepKeeps == ASSUME RunnerInv, SubtitlesStep PROVE RunnerInv'
<1> DEFINE m == ApproveByOperator(GenerateSubtitles("none"))
           reasons == SubtitleGate(m)
<1>1. at = "subtitles" /\ Persist(Subtitles, m) /\ Pass("subtitle", reasons, "render")
  BY DEF SubtitlesStep, Step
<1> HIDE DEF m, reasons
<1>2. UNCHANGED <<runs, config>>
  BY <1>1 DEF Persist
<1>3. Stop = 6 /\ Prefix(cleared, 4)
  BY <1>1, Standing, StopTable, PassTable
<1>4. CourseInv' /\ \E to : Onto("subtitles", to) /\ to \in {"render", "finalize"}
  BY <1>1, <1>2, <1>3, Judged, StopTable, PassTable, GateTable
<1>5. PICK to : Onto("subtitles", to) /\ to \in {"render", "finalize"}
  BY <1>4
<1>6. FileInv'
  BY <1>1, <1>5, Writes, StopTable, WriteTable, KindsApart
<1>7. HandsInv'
  BY <1>2, <1>3, <1>5, HandsMiddle, StopTable DEF Onto, Stop
<1> QED BY <1>4, <1>6, <1>7, Keeps

\* A render passes its gate only with sound, and production QA has then approved it.
LEMMA RenderedSound ==
    ASSUME NEW i, NEW r, r = RenderShort(i, demoDefect),
           RenderGate(ApproveRenderOutputs(r), RunProductionQA(r)) = {}
    PROVE  /\ config.inject # "render_no_audio"
           /\ RunProductionQA(ApproveRenderOutputs(r)) = "approved"
<1> DEFINE m == ApproveRenderOutputs(r)
<1>1. demoDefect # "render" /\ (config.inject = "render_no_audio" => demoDefect = "render_no_audio")
  BY DEF demoDefect
<1>2. /\ r.audio = (demoDefect # "render_no_audio") /\ m.audio = r.audio
      /\ m.platforms = r.platforms
  BY <1>1 DEF RenderShort, ApproveRenderOutputs
<1> HIDE DEF m
<1>3. m.audio /\ RunProductionQA(r) = "approved"
  BY DEF RenderGate, Require, m
<1>4. RunProductionQA(m) = RunProductionQA(r)
  BY <1>2 DEF RunProductionQA
<1> QED BY <1>1, <1>2, <1>3, <1>4 DEF m

LEMMA RenderStepKeeps == ASSUME RunnerInv, RenderStep PROVE RunnerInv'
<1> DEFINE r == RenderShort([Demo EXCEPT !.platforms = {"master", "youtube"}], demoDefect)
           m == ApproveRenderOutputs(r)
           reasons == RenderGate(m, RunProductionQA(r))
<1>1. at = "render" /\ Persist(Render, m) /\ Pass("render", reasons, "candidate")
  BY DEF RenderStep, Step
<1>2. reasons = {} => /\ config.inject # "render_no_audio"
                      /\ RunProductionQA(m) = "approved"
  BY RenderedSound
<1> HIDE DEF m, reasons
<1>3. UNCHANGED <<runs, config>>
  BY <1>1 DEF Persist
<1>4. Stop = 7 /\ Prefix(cleared, 5)
  BY <1>1, Standing, StopTable, PassTable
<1>5. /\ CourseInv' /\ \E to : Onto("render", to) /\ to \in {"candidate", "finalize"}
      /\ \/ reasons = {} /\ at' = "candidate"
         \/ reasons # {} /\ at' = "finalize"
  BY <1>1, <1>3, <1>4, Judged, StopTable, PassTable, GateTable
<1>6. PICK to : Onto("render", to) /\ to \in {"candidate", "finalize"}
  BY <1>5
<1>7. FileInv' /\ made' = [made EXCEPT ![Render] = m]
  BY <1>1, <1>6, Writes, StopTable, WriteTable, KindsApart
<1>8. made'[Render] = m
  BY <1>7, WriteTable DEF RunnerInv, ListInv
<1>9. HandsInv'
  BY <1>2, <1>3, <1>4, <1>5, <1>8, StopTable DEF RunnerInv, HandsInv, Withheld, Stop
<1> QED BY <1>5, <1>7, <1>9, Keeps

LEMMA CandidateStepKeeps == ASSUME RunnerInv, CandidateStep PROVE RunnerInv'
<1> DEFINE m == AssembleProductionCandidate(made)
<1>1. /\ at = "candidate" /\ Persist(Candidate, m)
      /\ IF config.inject = "release_denied"
         THEN at' = "finalize" /\ outcome' = "release_denied" /\ UNCHANGED cleared
         ELSE NoGate("release")
  BY DEF CandidateStep, Step
<1> HIDE DEF m
<1>2. UNCHANGED <<runs, config>>
  BY <1>1 DEF Persist
<1>3. Stop = 8 /\ Prefix(cleared, 6)
  BY <1>1, Standing, StopTable, PassTable
<1>4. ASSUME NEW to, Onto("candidate", to) PROVE FileInv' /\ made'[Render] = made[Render]
  <2>1. to # "approve"
    BY <1>4, StopTable DEF Onto
  <2>2. FileInv' /\ made' = [made EXCEPT ![Candidate] = m]
    BY <1>1, <1>4, <2>1, Writes, StopTable, WriteTable, KindsApart
  <2> QED BY <2>2, WriteTable, KindsApart DEF RunnerInv, ListInv
<1>5. CASE config.inject = "release_denied"
  <2>1. at' = "finalize" /\ outcome' = "release_denied" /\ cleared' = cleared
    BY <1>1, <1>5
  <2>2. cleared # GateOrder
    BY <1>3, NotAll
  <2>3. Stop' = 11 /\ Onto("candidate", "finalize")
    BY <1>1, <2>1, StopTable DEF Stop, Onto
  <2>4. CourseInv'
    BY <1>2, <2>1, <2>2, <2>3, StopTable DEF RunnerInv, CourseInv, Finished
  <2>5. HandsInv'
    BY <2>3 DEF HandsInv
  <2> QED BY <1>4, <2>3, <2>4, <2>5, Keeps
<1>6. CASE config.inject # "release_denied"
  <2>1. CourseInv' /\ Onto("candidate", "release")
    BY <1>1, <1>2, <1>3, <1>6, Unjudged, StopTable, PassTable
  <2>2. made'[Render] = made[Render] /\ FileInv'
    BY <1>4, <2>1
  <2>3. HandsInv'
    BY <1>2, <1>3, <1>6, <2>1, <2>2, StopTable DEF RunnerInv, HandsInv, Withheld, Stop, Onto
  <2> QED BY <2>1, <2>2, <2>3, Keeps
<1> QED BY <1>5, <1>6

LEMMA ReleaseStepKeeps == ASSUME RunnerInv, ReleaseStep PROVE RunnerInv'
<1> DEFINE m == BuildReleaseApproval(Demo, config.releaser)
           reasons == MultiVerifierGate({config.approver, config.releaser, ProductionQA})
<1>1. /\ at = "release" /\ m # None /\ Persist(Release, m)
      /\ Pass("multi_verifier", reasons, "publish")
  BY DEF ReleaseStep, Step
<1>2. IsHumanIdentity(config.releaser)
  BY <1>1 DEF BuildReleaseApproval
<1> HIDE DEF m, reasons
<1>3. UNCHANGED <<runs, config>>
  BY <1>1 DEF Persist
<1>4. Stop = 9 /\ Prefix(cleared, 6)
  BY <1>1, Standing, StopTable, PassTable
<1>5. CourseInv' /\ \E to : Onto("release", to) /\ to \in {"publish", "finalize"}
  BY <1>1, <1>3, <1>4, Judged, StopTable, PassTable, GateTable
<1>6. PICK to : Onto("release", to) /\ to \in {"publish", "finalize"}
  BY <1>5
<1>7. FileInv' /\ made' = [made EXCEPT ![Release] = m]
  BY <1>1, <1>6, Writes, StopTable, WriteTable, KindsApart
<1>8. made'[Release] = m /\ made'[Render] = made[Render]
  BY <1>7, WriteTable, KindsApart DEF RunnerInv, ListInv
<1>9. HandsInv'
  BY <1>2, <1>3, <1>4, <1>6, <1>8, StopTable
  DEF RunnerInv, HandsInv, Withheld, Stop, Onto, m, IsHumanIdentity
<1> QED BY <1>5, <1>7, <1>9, Keeps

LEMMA ReleaseBuildFailsKeeps == ASSUME RunnerInv, ReleaseBuildFails PROVE RunnerInv'
<1>1. /\ at = "release" /\ at' = "finalize" /\ outcome' = "release_build_failed"
      /\ UNCHANGED <<runs, config, made, listed, cleared, disk, summary>>
  BY DEF ReleaseBuildFails
<1>2. Stop = 9 /\ Prefix(cleared, 6)
  BY <1>1, Standing, StopTable, PassTable
<1>3. cleared # GateOrder
  BY <1>2, NotAll
<1>4. Stop' = 11 /\ Onto("release", "finalize")
  BY <1>1, StopTable DEF Stop, Onto
<1>5. CourseInv'
  BY <1>1, <1>3, <1>4, StopTable DEF RunnerInv, CourseInv, Finished
<1>6. HandsInv'
  BY <1>4 DEF HandsInv
<1> QED BY <1>1, <1>4, <1>5, <1>6, ReadsOnly, Keeps

\* The release gate lets the demo's release pass once its render and its signature did.
LEMMA DemoReleased ==
    ASSUME NEW who, IsHumanIdentity(who)
    PROVE  LET m == UploadPostDryRun(BuildReleaseApproval(Demo, who), "none")
           IN  ReleaseGate(m, "approved", PublishDryRun(m)) = {}
<1> DEFINE r == BuildReleaseApproval(Demo, who)
           m == UploadPostDryRun(r, "none")
<1>1. /\ r.platforms = {"youtube"} /\ r.visibility = "private" /\ r.humanReleaseApproval = TRUE
      /\ r.disclosureRequired = TRUE /\ r.disclosure = "AI-generated"
  BY DEF BuildReleaseApproval, Demo
<1> HIDE DEF r
<1>2. /\ m.platforms = {"youtube"} /\ m.visibility = "private" /\ m.humanReleaseApproval
      /\ m.disclosureRequired /\ m.disclosure = "AI-generated" /\ m.mode = "dry_run"
  BY <1>1 DEF UploadPostDryRun
<1> HIDE DEF m
<1>3. PublishDryRun(m)
  BY <1>2 DEF PublishDryRun
<1>4. ReleaseGate(m, "approved", PublishDryRun(m)) = {}
  BY <1>2, <1>3 DEF ReleaseGate, AIDisclosureGate, Require, Present
<1> QED BY <1>4 DEF m, r

LEMMA PublishStepKeeps == ASSUME RunnerInv, PublishStep PROVE RunnerInv'
<1> DEFINE m == UploadPostDryRun(made[Release], "none")
           verdict == ReleaseGate(m, RunProductionQA(made[Render]), PublishDryRun(m))
<1>1. /\ at = "publish" /\ Persist(Publish, m) /\ at' = "finalize"
      /\ IF verdict = {}
         THEN cleared' = Append(cleared, "release") /\ outcome' = Finished
         ELSE outcome' = "blocked" /\ UNCHANGED cleared
  BY DEF PublishStep, Step, Finished
<1>2. Stop = 10 /\ Prefix(cleared, 7)
  BY <1>1, Standing, StopTable, PassTable
<1>3. /\ made[Release] = BuildReleaseApproval(Demo, config.releaser)
      /\ IsHumanIdentity(config.releaser) /\ RunProductionQA(made[Render]) = "approved"
      /\ IsHuman(config.approver) /\ config.inject = "none"
  <2>1. config.inject \in Injections
    BY RunnerAssumption DEF RunnerInv, CourseInv
  <2> QED BY <1>2, <2>1 DEF RunnerInv, HandsInv, Withheld, Injections
<1>4. verdict = {}
  BY <1>3, DemoReleased
<1> HIDE DEF m, verdict
<1>5. cleared' = GateOrder /\ outcome' = Finished /\ UNCHANGED <<runs, config>>
  <2>1. Prefix(Append(cleared, "release"), 8)
    BY <1>2, PrefixGrows, GateTable
  <2> QED BY <1>1, <1>4, <2>1, PrefixFull DEF Persist
<1>6. Earned'
  BY <1>3, <1>5 DEF Earned, IsHuman, IsHumanIdentity
<1>7. Stop' = 11 /\ Onto("publish", "finalize")
  BY <1>1, StopTable DEF Stop, Onto
<1>8. FileInv'
  BY <1>1, <1>6, <1>7, Writes, StopTable, WriteTable, KindsApart
<1>9. CourseInv'
  BY <1>1, <1>3, <1>5, <1>7, StopTable DEF RunnerInv, CourseInv, Finished
<1>10. HandsInv'
  BY <1>7 DEF HandsInv
<1> QED BY <1>8, <1>9, <1>10, Keeps

LEMMA StartRunKeeps == ASSUME RunnerInv, StartRun PROVE RunnerInv'
<1>1. /\ at = "idle" /\ runs' = runs + 1 /\ config' \in Configs /\ at' = "import"
      /\ made' = [k \in Kinds |-> None] /\ listed' = made' /\ cleared' = <<"provenance">>
      /\ UNCHANGED <<disk, summary>>
  BY DEF StartRun
<1>2. runs \in Nat /\ Stop' = 1 /\ at' \in DOMAIN Stops
  BY <1>1, StopTable DEF RunnerInv, CourseInv, Stop
<1>3. Prefix(cleared', 1)
  <2>1. "provenance" \in GateNames
    BY GatesNamed, GateTable
  <2> QED BY <1>1, <2>1, GateTable DEF Prefix
<1>4. CourseInv'
  BY <1>1, <1>2, <1>3, PassTable DEF CourseInv
<1>5. HandsInv'
  BY <1>2 DEF HandsInv
<1>6. ListInv'
  BY <1>1, <1>2, WriteTable DEF RunnerInv, ListInv
<1>7. ManifestInv' /\ LastInv'
  BY <1>1, <1>2 DEF RunnerInv, ManifestInv, LastInv, HasSummary, Cut
<1>8. ManifestOfSummary' /\ SummaryJustified'
  BY <1>1 DEF RunnerInv, ManifestOfSummary, SummaryJustified, HasSummary
<1> QED BY <1>4, <1>5, <1>6, <1>7, <1>8 DEF RunnerInv

\* A run that ends: its files stay.
LEMMA Rests ==
    ASSUME RunnerInv, at' = "idle", UNCHANGED <<runs, config, made, listed, cleared, outcome, disk>>
    PROVE  CourseInv' /\ HandsInv' /\ ListInv' /\ ManifestInv'
<1>1. Stop' = 12 /\ at' \in DOMAIN Stops
  BY StopTable DEF Stop
<1>2. CourseInv' /\ HandsInv'
  BY <1>1 DEF RunnerInv, CourseInv, HandsInv
<1>3. ListInv'
  BY <1>1, WriteTable DEF RunnerInv, ListInv
<1>4. ManifestInv'
  BY <1>1 DEF RunnerInv, ManifestInv, Cut, Earned
<1> QED BY <1>2, <1>3, <1>4

LEMMA SummarizeKeeps == ASSUME RunnerInv, Summarize PROVE RunnerInv'
<1>1. /\ at = "finalize" /\ at' = "idle"
      /\ summary' = [run |-> runs, state |-> outcome, artifacts |-> listed, gates |-> cleared,
                     config |-> config]
      /\ UNCHANGED <<runs, config, made, listed, cleared, outcome, disk>>
  BY DEF Summarize
<1>2. runs \in Nat /\ Stop = 11
  BY <1>1, StopTable DEF RunnerInv, CourseInv, Stop
<1>3. LastInv'
  BY <1>1, <1>2 DEF LastInv
<1>4. SummaryJustified'
  BY <1>1, <1>2 DEF RunnerInv, CourseInv, SummaryJustified, Finished
<1>5. ManifestOfSummary'
  BY <1>1, <1>2 DEF RunnerInv, ManifestInv, Cut, Earned, ManifestOfSummary, Finished
<1> QED BY <1>1, <1>3, <1>4, <1>5, Rests, StopTable DEF RunnerInv

LEMMA RunDiesKeeps == ASSUME RunnerInv, RunDies PROVE RunnerInv'
<1>1. /\ at # "idle" /\ at' = "idle" /\ summary' \in {summary, Torn}
      /\ UNCHANGED <<runs, config, made, listed, cleared, outcome, disk>>
  BY DEF RunDies
<1>2. LastInv'
  BY <1>1 DEF RunnerInv, LastInv, HasSummary
<1>3. ManifestOfSummary' /\ SummaryJustified'
  BY <1>1 DEF RunnerInv, ManifestOfSummary, SummaryJustified, HasSummary
<1> QED BY <1>1, <1>2, <1>3, Rests DEF RunnerInv

LEMMA RunnerStarts == RunnerInit => RunnerInv
<1> SUFFICES ASSUME RunnerInit PROVE RunnerInv
  OBVIOUS
<1>1. /\ runs = 0 /\ config \in Configs /\ at = "idle" /\ summary = None
      /\ made = [k \in Kinds |-> None] /\ listed = made /\ disk = made /\ Stop = 12
  BY StopTable DEF RunnerInit, Stop
<1>2. CourseInv /\ HandsInv
  BY <1>1, StopTable DEF CourseInv, HandsInv
<1>3. ListInv /\ ManifestInv
  BY <1>1, WriteTable DEF ListInv, ManifestInv, Cut
<1>4. LastInv /\ ManifestOfSummary /\ SummaryJustified
  BY <1>1 DEF LastInv, ManifestOfSummary, SummaryJustified, HasSummary
<1> QED BY <1>2, <1>3, <1>4 DEF RunnerInv

LEMMA RunnerSteps == RunnerInv /\ [RunnerNext]_runnerVars => RunnerInv'
<1>1. ASSUME RunnerInv, RunnerNext PROVE RunnerInv'
  BY <1>1, StartRunKeeps, ImportStepKeeps, ApproveStepKeeps, GateStoryboardStepKeeps,
     ShotsStepKeeps, VoiceStepKeeps, SubtitlesStepKeeps, RenderStepKeeps, CandidateStepKeeps,
     ReleaseStepKeeps, ReleaseBuildFailsKeeps, PublishStepKeeps, SummarizeKeeps, RunDiesKeeps
  DEF RunnerNext
<1>2. ASSUME RunnerInv, UNCHANGED runnerVars PROVE RunnerInv'
  BY <1>2 DEF runnerVars, RunnerInv, CourseInv, HandsInv, ListInv, ManifestInv, LastInv,
              ManifestOfSummary, SummaryJustified, HasSummary, Stop, Withheld, Earned, Cut
<1> QED BY <1>1, <1>2

\* Whatever write of the demo failed, wherever it died and whatever earlier runs left in
\* the directory, a summary and the files beside it tell the truth (Run, persist, finalize).
THEOREM SummaryCorrect == RunnerSpec => []SummaryTrue
<1>1. RunnerInv => SummaryTrue
  <2> SUFFICES ASSUME RunnerInv PROVE ListedOnDisk
    BY DEF RunnerInv, SummaryTrue
  <2> QED BY DEF RunnerInv, LastInv, ListInv, ListedOnDisk
<1> QED BY <1>1, RunnerStarts, RunnerSteps, PTL DEF RunnerSpec

-----------------------------------------------------------------------------
(***************************************************************************)
(* Progress. Whether anybody decides is the people's; what the workflow    *)
(* does by itself is bounded: every completion, gate, receipt and failed   *)
(* attempt uses up one of the attempts that the policy leaves, and no      *)
(* signal gives one back.                                                  *)
(***************************************************************************)
\* The attempts left on the way, a gate or a receipt counted as an activity.
Left == IF pc = "closed" THEN 0 ELSE MaxAttempts * (20 - Pos[pc]) - (attempt - 1)

\* Each step of the workflow's own leaves fewer, a signal as many: with MaxAttempts per
\* activity, retries cannot go on for ever and a closed workflow does nothing more.
EndsInTime == [][(Work => Left' < Left) /\ (~Work => Left' = Left)]_workflowVars

AttemptInv == attempt \in 1..MaxAttempts

LEMMA PlacesInRange == \A p \in DOMAIN Pos : Pos[p] \in 1..19
BY DEF Pos

LEMMA LeftRange ==
    ASSUME WorkflowInv, AttemptInv
    PROVE  Left \in Nat /\ (IsOpen => Left >= MaxAttempts * (19 - Pos[pc]) + 1)
BY PlacesInRange DEF WorkflowInv, Shape, IsOpen, AttemptInv, Left, MaxAttempts

\* Whatever is not a failed attempt starts the next activity at its first attempt.
LEMMA AttemptsReset ==
    ASSUME Work, ~AttemptFails
    PROVE  attempt' = 1
<1>1. ASSUME NEW next, NEW state, GoOn(next, state) PROVE attempt' = 1
  BY <1>1 DEF GoOn
<1>2. ASSUME NEW state, NEW failed, Close(state, failed) PROVE attempt' = 1
  BY <1>2 DEF Close
<1>3. ASSUME NEW verdicts, NEW next, NEW state, Gates(verdicts, next, state) PROVE attempt' = 1
  BY <1>3 DEF Gates
<1>4. CASE Start \/ ApproveStoryboard \/ ApproveShots \/ ApproveCaptions \/ ApproveRender
  BY <1>3, <1>4 DEF Start, ApproveStoryboard, ApproveShots, ApproveCaptions, ApproveRender
<1>5. CASE BuildRelease \/ DryRunPublish
  BY <1>3, <1>5 DEF BuildRelease, DryRunPublish
<1>6. CASE ReceiveStoryboardApproval \/ ReceiveReleaseApproval
  BY <1>1, <1>2, <1>6 DEF ReceiveStoryboardApproval, ReceiveReleaseApproval, Receive
<1>7. CASE \/ BuildStoryboardPromptPack \/ ImportStoryboard \/ ApproveVoice \/ JudgeRender
           \/ AssembleCandidate \/ GeneratePublishManifest
  BY <1>1, <1>7 DEF BuildStoryboardPromptPack, ImportStoryboard, ApproveVoice, JudgeRender,
     AssembleCandidate, GeneratePublishManifest
<1>8. CASE GenerateShots \/ GenerateVoice \/ GenerateCaptions \/ RenderShortFinal
  BY <1>1, <1>8 DEF GenerateShots, GenerateVoice, GenerateCaptions, RenderShortFinal, Generate
<1> QED BY <1>4, <1>5, <1>6, <1>7, <1>8 DEF Work

\* A step of the workflow's own, other than a failed attempt, goes on or closes.
LEMMA WorkMoves ==
    ASSUME WorkflowInv, Work, ~AttemptFails
    PROVE  WorkflowInv' /\ (Moved \/ Closed)
<1>1. CASE \/ Start \/ BuildStoryboardPromptPack \/ ImportStoryboard
           \/ ReceiveStoryboardApproval \/ ApproveStoryboard \/ GenerateShots
           \/ ApproveShots \/ GenerateVoice \/ ApproveVoice \/ GenerateCaptions
  BY <1>1, StartKeeps, PromptPackKeeps, ImportKeeps, StoryboardDecisionKeeps,
     ApproveStoryboardKeeps, GenerateShotsKeeps, ApproveShotsKeeps, GenerateVoiceKeeps,
     ApproveVoiceKeeps, GenerateCaptionsKeeps
<1>2. CASE \/ ApproveCaptions \/ RenderShortFinal \/ JudgeRender \/ ApproveRender
           \/ AssembleCandidate \/ ReceiveReleaseApproval \/ BuildRelease
           \/ GeneratePublishManifest
  BY <1>2, ApproveCaptionsKeeps, RenderKeeps, JudgeRenderKeeps, ApproveRenderKeeps,
     AssembleKeeps, ReleaseDecisionKeeps, BuildReleaseKeeps, PublishManifestKeeps
<1>3. CASE DryRunPublish
  BY <1>3, DryRunKeeps DEF Closed, IsOpen
<1> QED BY <1>1, <1>2, <1>3 DEF Work

LEMMA WorkUsesUp ==
    ASSUME WorkflowInv, AttemptInv, Work
    PROVE  AttemptInv' /\ Left' < Left
<1>1. CASE AttemptFails
  <2>1. IsOpen /\ (pc' = pc \/ pc' = "closed")
    BY <1>1, FailKeeps
  <2>2. CASE attempt < MaxAttempts
    <3>1. attempt' = attempt + 1 /\ pc' = pc
      BY <1>1, <2>2 DEF AttemptFails
    <3>2. AttemptInv'
      BY <2>2, <3>1 DEF AttemptInv, MaxAttempts
    <3>3. pc \in DOMAIN Pos
      BY <2>1 DEF WorkflowInv, Shape
    <3>4. Left' < Left
      BY <2>1, <3>1, <3>3, PlacesInRange DEF Left, IsOpen, AttemptInv, MaxAttempts
    <3> QED BY <3>2, <3>4
  <2>3. CASE ~(attempt < MaxAttempts)
    <3>1. pc' = "closed" /\ attempt' = 1
      BY <1>1, <2>3 DEF AttemptFails, Close
    <3>2. Left' = 0 /\ AttemptInv'
      BY <3>1 DEF Left, AttemptInv, MaxAttempts
    <3>3. pc \in DOMAIN Pos
      BY <2>1 DEF WorkflowInv, Shape
    <3>4. Left \in Nat /\ Left >= MaxAttempts * (19 - Pos[pc]) + 1 /\ Pos[pc] \in 1..19
      BY <2>1, <3>3, LeftRange, PlacesInRange
    <3> QED BY <3>2, <3>4 DEF MaxAttempts
  <2> QED BY <2>2, <2>3
<1>2. CASE ~AttemptFails
  <2>1. attempt' = 1 /\ AttemptInv'
    BY <1>2, AttemptsReset DEF AttemptInv, MaxAttempts
  <2>2. WorkflowInv' /\ (Moved \/ Closed)
    BY <1>2, WorkMoves
  <2>3. IsOpen
    BY <2>2 DEF Moved, Orderly, GoesTo, Closed
  <2>4. /\ Left \in Nat /\ Left >= MaxAttempts * (19 - Pos[pc]) + 1
        /\ Pos[pc] \in 1..19
    BY <2>3, LeftRange, PlacesInRange DEF WorkflowInv, Shape
  <2>5. CASE pc' = "closed"
    <3>1. Left' = 0
      BY <2>5 DEF Left
    <3> QED BY <2>1, <2>4, <3>1 DEF MaxAttempts
  <2>6. CASE pc' # "closed"
    <3>1. PICK n, next, k : Orderly(n, next, k)
      BY <2>2, <2>6 DEF Moved, Closed
    <3>2. Pos[pc] = n /\ n \in 1..18 /\ pc' = next /\ Pos[pc'] = n + 1
      BY <2>6, <3>1 DEF Orderly, GoesTo, Onward
    <3>3. Left' = MaxAttempts * (19 - n)
      BY <2>1, <2>6, <3>2 DEF Left, MaxAttempts
    <3> QED BY <2>1, <2>4, <3>2, <3>3 DEF MaxAttempts
  <2> QED BY <2>5, <2>6
<1> QED BY <1>1, <1>2

LEMMA OthersUseNone ==
    ASSUME AttemptInv, [Next]_workflowVars, ~Work
    PROVE  AttemptInv' /\ Left' = Left
<1>1. CASE SendSignal
  BY <1>1 DEF SendSignal, AttemptInv, Left
<1>2. CASE UNCHANGED workflowVars
  BY <1>2 DEF workflowVars, AttemptInv, Left
<1> QED BY <1>1, <1>2 DEF Next

LEMMA AttemptsAlways == Spec => [](WorkflowInv /\ AttemptInv)
<1>1. Init => AttemptInv
  BY DEF Init, AttemptInv, MaxAttempts
<1>2. WorkflowInv /\ AttemptInv /\ [Next]_workflowVars => AttemptInv'
  BY WorkUsesUp, OthersUseNone
<1> QED BY <1>1, <1>2, WorkflowAlways, PTL DEF Spec

\* For any input, provider fault and signals the workflow takes at most as many steps of
\* its own as there are attempts on its way: no retry, signal or gate ever sends it back
\* (ShortFormWorkflow with its retry policy of three attempts).
THEOREM WorkflowEndsInTime == Spec => [](Left \in 0..57) /\ EndsInTime
<1>1. WorkflowInv /\ AttemptInv => Left \in 0..57
  BY LeftRange, PlacesInRange DEF WorkflowInv, Shape, IsOpen, AttemptInv, Left, MaxAttempts
<1>2. WorkflowInv /\ AttemptInv /\ [Next]_workflowVars =>
        [(Work => Left' < Left) /\ (~Work => Left' = Left)]_workflowVars
  BY WorkUsesUp, OthersUseNone
<1> QED BY <1>1, <1>2, AttemptsAlways, PTL DEF Spec, EndsInTime

(***************************************************************************)
(* Types: with the attempts, the kinds of what was made and the shape of   *)
(* what is returned.                                                       *)
(***************************************************************************)
KindsTyped == \A k \in Kinds : /\ art[k] # None => art[k].kind = k
                               /\ stamped[k] # None => stamped[k].kind = k

ResultTyped == result # Running => result.failed \in BOOLEAN /\ pc = "closed"

TypedInv == case \in Cases /\ KindsTyped /\ ResultTyped

LEMMA OneKindTyped ==
    ASSUME Shape, KindsTyped, NEW a, NEW k \in Kinds, NEW value, Returns(a, k, value),
           stamped' = stamped \/ Stamp(k), value.kind = k
    PROVE  KindsTyped'
<1>1. Only(k) /\ art'[k] = value /\ (Stamp(k) => stamped'[k] = value)
  BY ReturnsOnly
<1>2. stamped'[k] = stamped[k] \/ stamped'[k] = value
  BY <1>1
<1>3. \A j \in Kinds \ {k} : art'[j] = art[j] /\ stamped'[j] = stamped[j]
  BY <1>1 DEF Only
<1> QED BY <1>1, <1>2, <1>3 DEF KindsTyped

LEMMA WorkKinds ==
    ASSUME WorkflowInv, KindsTyped, Work
    PROVE  KindsTyped'
<1>1. CASE \/ Start \/ BuildStoryboardPromptPack \/ ReceiveStoryboardApproval \/ JudgeRender
           \/ ReceiveReleaseApproval \/ DryRunPublish \/ AttemptFails
  <2>1. UNCHANGED <<art, stamped>>
    BY <1>1 DEF Start, BuildStoryboardPromptPack, ReceiveStoryboardApproval, JudgeRender,
       ReceiveReleaseApproval, DryRunPublish, AttemptFails, Receive
  <2> QED BY <2>1 DEF KindsTyped
<1>2. CASE ImportStoryboard
  <2> DEFINE value == ImportStoryboardImages(in, defect)
  <2>1. Returns("importStoryboard", Storyboard, value) /\ Stamp(Storyboard) /\ value # None
    BY <1>2 DEF ImportStoryboard, Returns
  <2>2. value.kind = Storyboard
    BY <2>1 DEF ImportStoryboardImages
  <2> QED BY <2>1, <2>2, KindsApart, OneKindTyped DEF WorkflowInv
<1>3. CASE ApproveStoryboard
  <2> DEFINE value == ApproveStoryboardImages(art[Storyboard],
                                              decided[StoryboardImageApproval].approver)
  <2>1. Returns("approveStoryboard", Storyboard, value) /\ Stamp(Storyboard)
        /\ pc = "approveStoryboard"
    BY <1>3 DEF ApproveStoryboard, Returns
  <2>2. Drafted(Storyboard, ImportStoryboardImages(in, defect))
    BY <2>1 DEF WorkflowInv, DraftInv
  <2>3. value.kind = Storyboard
    BY <2>2, StoryboardApproved DEF Drafted
  <2> QED BY <2>1, <2>3, KindsApart, OneKindTyped DEF WorkflowInv
<1>4. CASE GenerateShots
  <2>1. /\ Returns("generateShots", Shots, GenerateVisualShots(art[Storyboard], defect))
        /\ stamped' = stamped /\ GenerateVisualShots(art[Storyboard], defect) # None
    BY <1>4 DEF GenerateShots, Generate, Returns
  <2>2. GenerateVisualShots(art[Storyboard], defect).kind = Shots
    BY <2>1 DEF GenerateVisualShots
  <2> QED BY <2>1, <2>2, KindsApart, OneKindTyped DEF WorkflowInv
<1>5. CASE ApproveShots
  <2>1. /\ Returns("approveShots", Shots, ApproveVisualShots(art[Shots])) /\ Stamp(Shots)
        /\ pc = "approveShots"
    BY <1>5 DEF ApproveShots, Returns
  <2>2. ApproveVisualShots(art[Shots]).kind = Shots
    BY <2>1, DraftsApproved DEF WorkflowInv, DraftInv, Drafted
  <2> QED BY <2>1, <2>2, KindsApart, OneKindTyped DEF WorkflowInv
<1>6. CASE GenerateVoice
  <2>1. /\ Returns("generateVoice", Voiceover, GenerateVoiceover(in, defect))
        /\ stamped' = stamped /\ GenerateVoiceover(in, defect) # None
    BY <1>6 DEF GenerateVoice, Generate, Returns
  <2>2. GenerateVoiceover(in, defect).kind = Voiceover
    BY <2>1 DEF GenerateVoiceover
  <2> QED BY <2>1, <2>2, KindsApart, OneKindTyped DEF WorkflowInv
<1>7. CASE ApproveVoice
  <2>1. /\ Returns("approveVoice", Voiceover, ApproveByOperator(art[Voiceover]))
        /\ Stamp(Voiceover) /\ pc = "approveVoice"
    BY <1>7 DEF ApproveVoice, Returns
  <2>2. ApproveByOperator(art[Voiceover]).kind = Voiceover
    BY <2>1, DraftsApproved DEF WorkflowInv, DraftInv, Drafted
  <2> QED BY <2>1, <2>2, KindsApart, OneKindTyped DEF WorkflowInv
<1>8. CASE GenerateCaptions
  <2>1. /\ Returns("generateSubtitles", Subtitles, GenerateSubtitles(defect))
        /\ stamped' = stamped /\ GenerateSubtitles(defect) # None
    BY <1>8 DEF GenerateCaptions, Generate, Returns
  <2>2. GenerateSubtitles(defect).kind = Subtitles
    BY <2>1 DEF GenerateSubtitles
  <2> QED BY <2>1, <2>2, KindsApart, OneKindTyped DEF WorkflowInv
<1>9. CASE ApproveCaptions
  <2>1. /\ Returns("approveSubtitles", Subtitles, ApproveByOperator(art[Subtitles]))
        /\ Stamp(Subtitles) /\ pc = "approveSubtitles"
    BY <1>9 DEF ApproveCaptions, Returns
  <2>2. ApproveByOperator(art[Subtitles]).kind = Subtitles
    BY <2>1, DraftsApproved DEF WorkflowInv, DraftInv, Drafted
  <2> QED BY <2>1, <2>2, KindsApart, OneKindTyped DEF WorkflowInv
<1>10. CASE RenderShortFinal
  <2>1. /\ Returns("render", Render, RenderShort(in, defect))
        /\ stamped' = stamped /\ RenderShort(in, defect) # None
    BY <1>10 DEF RenderShortFinal, Generate, Returns
  <2>2. RenderShort(in, defect).kind = Render
    BY <2>1 DEF RenderShort
  <2> QED BY <2>1, <2>2, KindsApart, OneKindTyped DEF WorkflowInv
<1>11. CASE ApproveRender
  <2>1. /\ Returns("approveRender", Render, ApproveRenderOutputs(art[Render])) /\ Stamp(Render)
        /\ pc = "approveRender"
    BY <1>11 DEF ApproveRender, Returns
  <2>2. ApproveRenderOutputs(art[Render]).kind = Render
    BY <2>1, RenderApproved DEF WorkflowInv, DraftInv, Drafted
  <2> QED BY <2>1, <2>2, KindsApart, OneKindTyped DEF WorkflowInv
<1>12. CASE AssembleCandidate
  <2>1. /\ Returns("assemble", Candidate, AssembleProductionCandidate(art)) /\ Stamp(Candidate)
        /\ AssembleProductionCandidate(art) # None
    BY <1>12 DEF AssembleCandidate, Returns
  <2>2. AssembleProductionCandidate(art).kind = Candidate
    BY <2>1 DEF AssembleProductionCandidate
  <2> QED BY <2>1, <2>2, KindsApart, OneKindTyped DEF WorkflowInv
<1>13. CASE BuildRelease
  <2> DEFINE value == BuildReleaseApproval(in, decided[ReleaseApproval].approver)
  <2>1. Returns("buildRelease", Release, value) /\ Stamp(Release) /\ value # None
    BY <1>13 DEF BuildRelease, Returns
  <2>2. value.kind = Release
    BY <2>1 DEF BuildReleaseApproval
  <2> QED BY <2>1, <2>2, KindsApart, OneKindTyped DEF WorkflowInv
<1>14. CASE GeneratePublishManifest
  <2> DEFINE value == UploadPostDryRun(art[Release], defect)
  <2>1. Returns("publishManifest", Publish, value) /\ Stamp(Publish) /\ value # None
    BY <1>14 DEF GeneratePublishManifest, Returns
  <2>2. value.kind = Publish
    BY <2>1 DEF UploadPostDryRun
  <2> QED BY <2>1, <2>2, KindsApart, OneKindTyped DEF WorkflowInv
<1> QED BY <1>1, <1>2, <1>3, <1>4, <1>5, <1>6, <1>7, <1>8, <1>9, <1>10, <1>11, <1>12, <1>13,
           <1>14 DEF Work

\* What is returned says whether the run failed, and only a workflow that closes returns.
Returned == result' = result \/ (pc' = "closed" /\ result'.failed \in BOOLEAN)

LEMMA GoOnReturned == ASSUME NEW next, NEW state, GoOn(next, state) PROVE Returned
BY DEF GoOn, Returned

LEMMA CloseReturned ==
    ASSUME NEW state, NEW failed \in BOOLEAN, Close(state, failed) PROVE Returned
<1>1. pc' = "closed" /\ result' = [state |-> state, failed |-> failed]
  BY DEF Close
<1>2. result'.failed = failed
  BY <1>1
<1> QED BY <1>1, <1>2 DEF Returned

LEMMA GatesReturned ==
    ASSUME NEW verdicts, NEW next, NEW state, Gates(verdicts, next, state) PROVE Returned
<1>1. PICK end : \/ pc' = "closed" /\ result' = [state |-> end, failed |-> FALSE]
                 \/ pc' = next /\ UNCHANGED result
  BY DEF Gates
<1>2. CASE pc' = "closed" /\ result' = [state |-> end, failed |-> FALSE]
  <2>1. result'.failed = FALSE
    BY <1>2
  <2> QED BY <1>2, <2>1 DEF Returned
<1>3. CASE pc' = next /\ UNCHANGED result
  BY <1>3 DEF Returned
<1> QED BY <1>1, <1>2, <1>3

LEMMA WorkReturns == ASSUME Work PROVE Returned
<1>1. CASE Start \/ ApproveStoryboard \/ ApproveShots \/ ApproveCaptions \/ ApproveRender
  BY <1>1, GatesReturned DEF Start, ApproveStoryboard, ApproveShots, ApproveCaptions,
     ApproveRender
<1>2. CASE BuildRelease \/ DryRunPublish
  BY <1>2, GatesReturned DEF BuildRelease, DryRunPublish
<1>3. CASE ReceiveStoryboardApproval \/ ReceiveReleaseApproval
  BY <1>3, GoOnReturned, CloseReturned DEF ReceiveStoryboardApproval,
     ReceiveReleaseApproval, Receive
<1>4. CASE \/ BuildStoryboardPromptPack \/ ImportStoryboard \/ ApproveVoice \/ JudgeRender
           \/ AssembleCandidate \/ GeneratePublishManifest
  BY <1>4, GoOnReturned DEF BuildStoryboardPromptPack, ImportStoryboard, ApproveVoice,
     JudgeRender, AssembleCandidate, GeneratePublishManifest
<1>5. CASE GenerateShots \/ GenerateVoice \/ GenerateCaptions \/ RenderShortFinal
  BY <1>5, GoOnReturned DEF GenerateShots, GenerateVoice, GenerateCaptions,
     RenderShortFinal, Generate
<1>6. CASE AttemptFails
  <2>1. CASE attempt < MaxAttempts
    BY <1>6, <2>1 DEF AttemptFails, Returned
  <2>2. CASE ~(attempt < MaxAttempts)
    BY <1>6, <2>2, CloseReturned DEF AttemptFails
  <2> QED BY <2>1, <2>2
<1> QED BY <1>1, <1>2, <1>3, <1>4, <1>5, <1>6 DEF Work

LEMMA TypedStep ==
    ASSUME WorkflowInv, TypedInv, [Next]_workflowVars
    PROVE  TypedInv'
<1>1. CASE Work
  <2>1. KindsTyped'
    BY <1>1, WorkKinds DEF TypedInv
  <2>2. case' = case
    BY <1>1 DEF Work, Start, BuildStoryboardPromptPack, ImportStoryboard,
       ReceiveStoryboardApproval, ApproveStoryboard, GenerateShots, ApproveShots,
       GenerateVoice, ApproveVoice, GenerateCaptions, ApproveCaptions, RenderShortFinal,
       JudgeRender, ApproveRender, AssembleCandidate, ReceiveReleaseApproval, BuildRelease,
       GeneratePublishManifest, DryRunPublish, AttemptFails, Returns, Receive, Generate
  <2>3. result = Running
    <3>1. CASE AttemptFails
      BY <3>1, FailKeeps DEF WorkflowInv, Shape
    <3>2. CASE ~AttemptFails
      <4>1. IsOpen
        BY <1>1, <3>2, WorkMoves DEF Moved, Orderly, GoesTo, Closed
      <4> QED BY <4>1 DEF WorkflowInv, Shape
    <3> QED BY <3>1, <3>2
  <2>4. ResultTyped'
    BY <1>1, <2>3, WorkReturns DEF Returned, ResultTyped
  <2> QED BY <2>1, <2>2, <2>4 DEF TypedInv
<1>2. CASE SendSignal
  BY <1>2 DEF SendSignal, TypedInv, KindsTyped, ResultTyped
<1>3. CASE UNCHANGED workflowVars
  BY <1>3 DEF workflowVars, TypedInv, KindsTyped, ResultTyped
<1> QED BY <1>1, <1>2, <1>3 DEF Next

LEMMA SignalsOnly ==
    ASSUME NEW R, NEW s \in Seq(R)
    PROVE  Elements(s) \subseteq R
BY DEF Elements

\* The workflow stands at a known await within the retry policy, an artifact variable
\* holds its own kind, what was sent, received and decided are signals, and only a closed
\* workflow has a result (ShortFormWorkflow).
THEOREM WorkflowTyped == Spec => []WorkflowTypeOK
<1>1. Init => TypedInv
  BY DEF Init, TypedInv, KindsTyped, ResultTyped
<1>2. ASSUME WorkflowInv, AttemptInv, TypedInv
      PROVE  WorkflowTypeOK
  <2>1. pc \in Activities \cup Waits \cup {"start", "closed"}
    <3>1. DOMAIN Pos \subseteq Activities \cup Waits \cup {"start"}
      BY DEF Pos, Activities, FailureState, Waits
    <3> QED BY <1>2, <3>1 DEF WorkflowInv, Shape, IsOpen
  <2>2. \A c \in Channels : /\ Elements(sent[c]) \cup Elements(inbox[c]) \subseteq Signals
                            /\ decided[c] \in Signals \cup {None}
    BY <1>2, SignalsOnly DEF WorkflowInv, MailInv
  <2> QED BY <1>2, <2>1, <2>2 DEF WorkflowTypeOK, TypedInv, KindsTyped, ResultTyped, AttemptInv
<1>3. WorkflowInv /\ TypedInv /\ [Next]_workflowVars => TypedInv'
  BY TypedStep
<1> QED BY <1>1, <1>2, <1>3, AttemptsAlways, PTL DEF Spec
=============================================================================
