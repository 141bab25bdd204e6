------------------------ MODULE EpisodeLifecycleProofs ------------------------
(***************************************************************************)
(* Theorems about the episode workflow, for any number of signals.         *)
(***************************************************************************)
EXTENDS EpisodeLifecycle, TLAPS

(***************************************************************************)
(* The tables of the module.                                               *)
(***************************************************************************)
LEMMA Channels ==
    /\ HumanQA \in EpChannels /\ ReleaseApproval \in EpChannels /\ HumanQA # ReleaseApproval
    /\ \A c \in EpChannels : c = HumanQA \/ c = ReleaseApproval
    /\ AfterApproval[HumanQA] = "production_qa"
    /\ AfterApproval[ReleaseApproval] = "dry_run_publishing"
BY DEF HumanQA, ReleaseApproval, EpChannels, AfterApproval

LEMMA Accepted ==
    ASSUME NEW c \in EpChannels
    PROVE  Accepts[c] \subseteq Decisions[c] /\ Undecided \notin Decisions[c]
BY Channels, EpisodeAssumption DEF Accepts, Decisions

LEMMA Stations ==
    /\ HappyPath[1] = "started" /\ HappyPath[2] = "validating_artifacts"
    /\ HappyPath[3] = "running_model_council" /\ HappyPath[4] = "awaiting_human_qa"
    /\ HappyPath[5] = "production_qa" /\ HappyPath[6] = "awaiting_release_approval"
    /\ HappyPath[7] = "dry_run_publishing" /\ HappyPath[8] = "dry_run_complete"
BY DEF HappyPath

LEMMA StationsApart ==
    ASSUME NEW m \in 1..8, NEW n \in 1..8, HappyPath[m] = HappyPath[n]
    PROVE  m = n
BY Stations

LEMMA StationsKnown == \A n \in 1..8 : HappyPath[n] \in EpStates /\ HappyPath[n] # "blocked"
BY Stations DEF EpStates, AfterActivity

LEMMA ActivityLeads ==
    ASSUME NEW n \in 1..8, HappyPath[n] \in DOMAIN AfterActivity
    PROVE  n \in {2, 3, 5, 7} /\ AfterActivity[HappyPath[n]] = HappyPath[n + 1]
BY Stations DEF AfterActivity

(***************************************************************************)
(* The walk: after n - 1 events an episode is at the n-th station of the   *)
(* path, or was blocked there by one more event.                           *)
(***************************************************************************)
Event(n) == [from |-> HappyPath[n], to |-> HappyPath[n + 1]]

At(n) ==
    /\ epState = HappyPath[n] /\ Len(trail) = n - 1
    /\ returned = IF n = 8 THEN "dry_run_complete" ELSE Open

BlockedAt(n) ==
    /\ epState = "blocked" /\ returned = "blocked" /\ n \in 2..7 /\ Len(trail) = n
    /\ trail[n] = [from |-> HappyPath[n], to |-> "blocked"]

Walked(n) ==
    /\ At(n) \/ BlockedAt(n)
    /\ \A i \in 1..(n - 1) : trail[i] = Event(i)

PathInv ==
    /\ trail \in Seq([from : EpStates, to : EpStates])
    /\ epAttempt \in 1..EpMaxAttempts
    /\ \E n \in 1..8 : Walked(n)

LEMMA PathStarts == EpInit => PathInv
<1> SUFFICES ASSUME EpInit PROVE PathInv
  OBVIOUS
<1>1. Walked(1)
  BY Stations DEF Walked, At, EpInit
<1>2. trail \in Seq([from : EpStates, to : EpStates])
  <2>1. ASSUME NEW R PROVE <<>> \in Seq(R)
    OBVIOUS
  <2> QED BY <2>1 DEF EpInit
<1>3. epAttempt \in 1..EpMaxAttempts
  BY DEF EpInit, EpMaxAttempts
<1> QED BY <1>1, <1>2, <1>3 DEF PathInv

\* An event appended to the trail.
LEMMA Recorded ==
    ASSUME PathInv, NEW next \in EpStates, epState \in EpStates, RecordTransition(next)
    PROVE  /\ trail' \in Seq([from : EpStates, to : EpStates])
           /\ Len(trail) \in Nat /\ Len(trail') = Len(trail) + 1
           /\ \A i \in 1..Len(trail) : trail'[i] = trail[i]
           /\ trail'[Len(trail) + 1] = [from |-> epState, to |-> next]
           /\ epState' = next /\ epAttempt' \in 1..EpMaxAttempts
<1> DEFINE R == [from : EpStates, to : EpStates]
           e == [from |-> epState, to |-> next]
<1>1. e \in R /\ trail \in Seq(R)
  BY DEF PathInv
<1>2. /\ trail' = Append(trail, e) /\ epState' = next
      /\ epAttempt' \in 1..EpMaxAttempts
  BY DEF RecordTransition, EpMaxAttempts
<1> HIDE DEF R, e
<1>3. /\ trail' \in Seq(R) /\ Len(trail) \in Nat /\ Len(trail') = Len(trail) + 1
      /\ \A i \in 1..Len(trail) : trail'[i] = trail[i]
      /\ trail'[Len(trail) + 1] = e
  BY <1>1, <1>2
<1> QED BY <1>2, <1>3 DEF R, e

LEMMA StationNow ==
    ASSUME PathInv, epState # "blocked"
    PROVE  \E n \in 1..8 : At(n) /\ (\A i \in 1..(n - 1) : trail[i] = Event(i))
BY DEF PathInv, Walked, BlockedAt

\* Recording the next station, or a block, walks on.
LEMMA WalksOn ==
    ASSUME PathInv, NEW n \in 1..7, At(n), \A i \in 1..(n - 1) : trail[i] = Event(i),
           RecordTransition(HappyPath[n + 1]),
           returned' = IF n = 7 THEN "dry_run_complete" ELSE Open
    PROVE  PathInv' /\ Walked(n + 1)'
<1>1. /\ HappyPath[n] \in EpStates /\ HappyPath[n + 1] \in EpStates /\ n + 1 \in 1..8
      /\ n + 1 - 1 = n /\ (n + 1 = 8 <=> n = 7) /\ n - 1 + 1 = n
  BY StationsKnown
<1>2. epState = HappyPath[n] /\ Len(trail) = n - 1
  BY DEF At
<1>3. /\ trail' \in Seq([from : EpStates, to : EpStates])
      /\ Len(trail') = n
      /\ \A i \in 1..(n - 1) : trail'[i] = trail[i]
      /\ trail'[n] = [from |-> HappyPath[n], to |-> HappyPath[n + 1]]
      /\ epState' = HappyPath[n + 1] /\ epAttempt' \in 1..EpMaxAttempts
  BY <1>1, <1>2, Recorded
<1>4. \A i \in 1..n : trail'[i] = Event(i)
  <2>1. trail'[n] = Event(n)
    BY <1>3 DEF Event
  <2>2. \A i \in 1..n : i \in 1..(n - 1) \/ i = n
    OBVIOUS
  <2> QED BY <1>3, <2>1, <2>2
<1>5. Walked(n + 1)'
  BY <1>1, <1>3, <1>4 DEF Walked, At
<1> QED BY <1>1, <1>3, <1>5 DEF PathInv

LEMMA WalkBlocks ==
    ASSUME PathInv, NEW n \in 2..7, At(n), \A i \in 1..(n - 1) : trail[i] = Event(i),
           ReturnBlocked
    PROVE  PathInv' /\ Walked(n)' /\ epState' = "blocked"
<1>1. /\ HappyPath[n] \in EpStates /\ n \in 1..8 /\ n - 1 + 1 = n /\ "blocked" \in EpStates
  BY StationsKnown DEF EpStates
<1>2. /\ epState = HappyPath[n] /\ Len(trail) = n - 1 /\ RecordTransition("blocked")
      /\ returned' = "blocked"
  BY DEF At, ReturnBlocked
<1>3. /\ trail' \in Seq([from : EpStates, to : EpStates])
      /\ Len(trail') = n
      /\ \A i \in 1..(n - 1) : trail'[i] = trail[i]
      /\ trail'[n] = [from |-> HappyPath[n], to |-> "blocked"]
      /\ epState' = "blocked" /\ epAttempt' \in 1..EpMaxAttempts
  BY <1>1, <1>2, Recorded
<1>4. Walked(n)'
  BY <1>2, <1>3 DEF Walked, BlockedAt
<1> QED BY <1>1, <1>3, <1>4 DEF PathInv

LEMMA WalkStands ==
    ASSUME PathInv, UNCHANGED <<epState, trail, returned>>, epAttempt' \in 1..EpMaxAttempts
    PROVE  PathInv' /\ \A n \in 1..8 : Walked(n) => Walked(n)'
BY DEF PathInv, Walked, At, BlockedAt
(***************************************************************************)
(* What was heard, and the signals that wait.                              *)
(***************************************************************************)
AfterQA == {"production_qa", "awaiting_release_approval", "dry_run_publishing",
            "dry_run_complete"}
AfterRelease == {"dry_run_publishing", "dry_run_complete"}

\* An approval was heard exactly where the episode has passed it.
Settled(c, after) ==
    /\ epState \in after => heard[c] \in Accepts[c]
    /\ epState \notin after \cup {"blocked"} => heard[c] = Undecided

HeardInv == Settled(HumanQA, AfterQA) /\ Settled(ReleaseApproval, AfterRelease)

MailTyped(c) == /\ mail[c] \in Seq(Decisions[c]) /\ mailed[c] \in Seq(Decisions[c])
                /\ heard[c] \in Decisions[c] \cup {Undecided}

MailInv ==
    /\ mail = [c \in EpChannels |-> mail[c]] /\ mailed = [c \in EpChannels |-> mailed[c]]
    /\ heard = [c \in EpChannels |-> heard[c]]
    /\ \A c \in EpChannels : MailTyped(c)
    /\ FirstDecisionDecides

EpisodeInv == PathInv /\ HeardInv /\ MailInv

LEMMA EpisodeStarts == EpInit => EpisodeInv
<1> SUFFICES ASSUME EpInit PROVE EpisodeInv
  OBVIOUS
<1>1. HeardInv
  BY Channels DEF HeardInv, Settled, EpInit, AfterQA, AfterRelease
<1>2. \A c \in EpChannels : mail[c] = <<>> /\ mailed[c] = <<>> /\ heard[c] = Undecided
  BY DEF EpInit
<1>3. MailInv
  <2>1. ASSUME NEW R PROVE <<>> \in Seq(R)
    OBVIOUS
  <2>2. \A c \in EpChannels : MailTyped(c)
    BY <1>2, <2>1 DEF MailTyped
  <2>3. FirstDecisionDecides
    BY <1>2 DEF FirstDecisionDecides
  <2>4. /\ mail = [c \in EpChannels |-> mail[c]] /\ mailed = [c \in EpChannels |-> mailed[c]]
        /\ heard = [c \in EpChannels |-> heard[c]]
    BY DEF EpInit
  <2> QED BY <2>2, <2>3, <2>4 DEF MailInv
<1> QED BY PathStarts, <1>1, <1>3 DEF EpisodeInv

LEMMA MailStands ==
    ASSUME MailInv, UNCHANGED <<mail, mailed, heard>>
    PROVE  MailInv'
BY DEF MailInv, MailTyped, FirstDecisionDecides

LEMMA HeadAndTail ==
    ASSUME NEW R, NEW s \in Seq(R), s # <<>>
    PROVE  /\ Head(s) \in R /\ Tail(s) \in Seq(R) /\ <<Head(s)>> \o Tail(s) = s
OBVIOUS

LEMMA AppendAfter ==
    ASSUME NEW R, NEW s \in Seq(R), NEW e \in R, NEW h \in R
    PROVE  /\ Append(s, e) \in Seq(R) /\ <<h>> \o Append(s, e) = Append(<<h>> \o s, e)
OBVIOUS

LEMMA Sent == ASSUME EpisodeInv, SendDecision PROVE EpisodeInv'
<1>1. PICK c \in EpChannels : \E d \in Decisions[c] :
          /\ mail' = [mail EXCEPT ![c] = Append(@, d)]
          /\ mailed' = [mailed EXCEPT ![c] = Append(@, d)]
          /\ UNCHANGED <<epState, epAttempt, trail, heard, returned>>
  BY DEF SendDecision
<1>d. PICK d \in Decisions[c] :
          /\ mail' = [mail EXCEPT ![c] = Append(@, d)]
          /\ mailed' = [mailed EXCEPT ![c] = Append(@, d)]
          /\ UNCHANGED <<epState, epAttempt, trail, heard, returned>>
  BY <1>1
<1>2. PathInv'
  BY <1>d, WalkStands DEF EpisodeInv, PathInv
<1>3. HeardInv'
  BY <1>d DEF EpisodeInv, HeardInv, Settled
<1>4. /\ MailTyped(c) /\ mail = [b \in EpChannels |-> mail[b]]
      /\ mailed = [b \in EpChannels |-> mailed[b]] /\ heard = [b \in EpChannels |-> heard[b]]
  BY DEF EpisodeInv, MailInv
<1>5. /\ mail'[c] = Append(mail[c], d) /\ mailed'[c] = Append(mailed[c], d)
      /\ \A b \in EpChannels \ {c} : mail'[b] = mail[b] /\ mailed'[b] = mailed[b]
      /\ mail' = [b \in EpChannels |-> mail'[b]] /\ mailed' = [b \in EpChannels |-> mailed'[b]]
      /\ heard' = heard
  BY <1>d, <1>4
<1>6. /\ mail[c] \in Seq(Decisions[c]) /\ mailed[c] \in Seq(Decisions[c])
      /\ heard[c] \in Decisions[c] \cup {Undecided}
  BY <1>4 DEF MailTyped
<1>7. \A b \in EpChannels : MailTyped(b)'
  <2>1. ASSUME NEW s \in Seq(Decisions[c]) PROVE Append(s, d) \in Seq(Decisions[c])
    OBVIOUS
  <2>2. mail'[c] \in Seq(Decisions[c])
    BY <1>5, <1>6, <2>1
  <2>3. mailed'[c] \in Seq(Decisions[c])
    BY <1>5, <1>6, <2>1
  <2> QED BY <1>5, <1>6, <2>2, <2>3 DEF EpisodeInv, MailInv, MailTyped
<1>8. FirstDecisionDecides'
  <2>1. IF heard[c] = Undecided THEN mail[c] = mailed[c] ELSE mailed[c] = <<heard[c]>> \o mail[c]
    BY DEF EpisodeInv, MailInv, FirstDecisionDecides
  <2>2. heard[c] # Undecided => <<heard[c]>> \o Append(mail[c], d) = Append(<<heard[c]>> \o mail[c], d)
    BY <1>6, AppendAfter
  <2>3. IF heard'[c] = Undecided THEN mail'[c] = mailed'[c]
        ELSE mailed'[c] = <<heard'[c]>> \o mail'[c]
    BY <1>5, <2>1, <2>2
  <2>4. ASSUME NEW b \in EpChannels \ {c}
        PROVE  IF heard'[b] = Undecided THEN mail'[b] = mailed'[b]
               ELSE mailed'[b] = <<heard'[b]>> \o mail'[b]
    BY <1>5 DEF EpisodeInv, MailInv, FirstDecisionDecides
  <2> QED BY <2>3, <2>4 DEF FirstDecisionDecides
<1> QED BY <1>2, <1>3, <1>4, <1>5, <1>7, <1>8 DEF EpisodeInv, MailInv

\* What the receipt of a decision does to the mail.
Heard(c) ==
    /\ mail[c] # <<>> /\ heard' = [heard EXCEPT ![c] = Head(mail[c])]
    /\ mail' = [mail EXCEPT ![c] = Tail(@)] /\ mailed' = mailed

LEMMA MailRead ==
    ASSUME MailInv, NEW c \in EpChannels, heard[c] = Undecided, Heard(c)
    PROVE  /\ MailInv' /\ heard'[c] \in Decisions[c]
           /\ \A b \in EpChannels \ {c} : heard'[b] = heard[b]
<1>1. /\ MailTyped(c) /\ mail = [b \in EpChannels |-> mail[b]]
      /\ mailed = [b \in EpChannels |-> mailed[b]] /\ heard = [b \in EpChannels |-> heard[b]]
      /\ mail[c] = mailed[c]
  BY DEF MailInv, FirstDecisionDecides
<1>2. /\ mail[c] \in Seq(Decisions[c]) /\ mail[c] # <<>>
  BY <1>1 DEF MailTyped, Heard
<1>3. /\ Head(mail[c]) \in Decisions[c] /\ Tail(mail[c]) \in Seq(Decisions[c])
      /\ <<Head(mail[c])>> \o Tail(mail[c]) = mail[c]
  BY <1>2, HeadAndTail
<1>4. /\ heard'[c] = Head(mail[c]) /\ mail'[c] = Tail(mail[c]) /\ mailed' = mailed
      /\ \A b \in EpChannels \ {c} : mail'[b] = mail[b] /\ heard'[b] = heard[b]
      /\ mail' = [b \in EpChannels |-> mail'[b]] /\ heard' = [b \in EpChannels |-> heard'[b]]
  BY <1>1 DEF Heard
<1>5. \A b \in EpChannels : MailTyped(b)'
  BY <1>1, <1>3, <1>4 DEF MailInv, MailTyped
<1>6. FirstDecisionDecides'
  <2>1. mailed'[c] = <<heard'[c]>> \o mail'[c] /\ heard'[c] # Undecided
    BY <1>1, <1>3, <1>4, Accepted
  <2>2. ASSUME NEW b \in EpChannels \ {c}
        PROVE  IF heard'[b] = Undecided THEN mail'[b] = mailed'[b]
               ELSE mailed'[b] = <<heard'[b]>> \o mail'[b]
    BY <1>4 DEF MailInv, FirstDecisionDecides
  <2> QED BY <2>1, <2>2 DEF FirstDecisionDecides
<1> QED BY <1>1, <1>3, <1>4, <1>5, <1>6 DEF MailInv
(***************************************************************************)
(* What the abstract promise sees of an episode.                           *)
(***************************************************************************)
ThePath == [i \in 1..5 |-> [from |-> HappyPath[i], to |-> HappyPath[i + 1]]]

Seen(n) == Submitted = IF n > 5 THEN ThePath ELSE Undecided

LEMMA SubmittedIs == PathInv => \A n \in 1..8 : Walked(n) => Seen(n)
<1> SUFFICES ASSUME PathInv, NEW n \in 1..8, Walked(n) PROVE Seen(n)
  OBVIOUS
<1> DEFINE R == [from : EpStates, to : EpStates]
<1>1. trail \in Seq(R) /\ \A i \in 1..(n - 1) : trail[i] = Event(i)
  BY DEF PathInv, Walked
<1>2. \/ Len(trail) = n - 1
      \/ Len(trail) = n /\ trail[n].to = "blocked"
  BY DEF Walked, At, BlockedAt
<1> HIDE DEF R
<1>3. DOMAIN trail = 1..Len(trail) /\ Len(trail) \in Nat
  BY <1>1
<1>4. CASE n > 5
  <2>1. 5 \in DOMAIN trail /\ trail[5].to = "awaiting_release_approval"
    <3>1. 5 \in 1..(n - 1) /\ 5 \in DOMAIN trail
      <4>1. 5 \in 1..(n - 1)
        BY <1>4
      <4>2. Len(trail) \in {n - 1, n}
        BY <1>2
      <4>3. 5 \in 1..Len(trail)
        BY <4>1, <4>2
      <4> QED BY <1>3, <4>1, <4>3
    <3>2. trail[5] = Event(5)
      BY <1>1, <3>1
    <3> QED BY <3>1, <3>2, Stations DEF Event
  <2>2. \A i \in 1..5 : trail[i] = Event(i)
    BY <1>1, <1>4
  <2>3. SubSeq(trail, 1, 5) = [i \in 1..5 |-> trail[i]]
    BY <1>1, <1>2, <1>4
  <2>4. SubSeq(trail, 1, 5) = ThePath
    BY <2>2, <2>3 DEF ThePath, Event
  <2> QED BY <1>4, <2>1, <2>4 DEF Submitted, Seen
<1>5. CASE ~(n > 5)
  <2>1. ASSUME NEW i \in DOMAIN trail PROVE trail[i].to # "awaiting_release_approval"
    <3>1. i \in 1..(n - 1) \/ (i = n /\ trail[i].to = "blocked")
      <4>1. CASE Len(trail) = n - 1
        BY <1>3, <4>1
      <4>2. CASE Len(trail) = n /\ trail[n].to = "blocked"
        <5>1. i \in 1..n
          BY <1>3, <4>2
        <5>2. i \in 1..(n - 1) \/ i = n
          BY <5>1
        <5> QED BY <4>2, <5>2
      <4> QED BY <1>2, <4>1, <4>2
    <3>2. ASSUME i \in 1..(n - 1) PROVE trail[i].to = HappyPath[i + 1] /\ i + 1 \in 1..5
      <4>1. trail[i] = [from |-> HappyPath[i], to |-> HappyPath[i + 1]]
        BY <1>1, <3>2 DEF Event
      <4>2. i \in Int /\ 1 <= i /\ i <= 4
        BY <1>5, <3>2
      <4> QED BY <4>1, <4>2
    <3>3. \A j \in 1..5 : HappyPath[j] # "awaiting_release_approval"
      BY Stations
    <3>4. "blocked" # "awaiting_release_approval"
      OBVIOUS
    <3> QED BY <3>1, <3>2, <3>3, <3>4
  <2> QED BY <1>5, <2>1 DEF Submitted, Seen
<1> QED BY <1>4, <1>5

LEMMA SubmittedNext == PathInv' => \A n \in 1..8 : Walked(n)' => Seen(n)'
<1>1. (PathInv => \A n \in 1..8 : Walked(n) => Seen(n))'
  BY SubmittedIs, PTL
<1> QED BY <1>1

StageAt(n) == CASE n \in 1..4 -> "draft" [] n = 5 -> "produce" [] n = 6 -> "candidate"
                [] n = 7 -> "signed" [] OTHER -> "released"

LEMMA StageIs ==
    /\ \A n \in 1..8 : epState = HappyPath[n] => EpStage = StageAt(n)
    /\ epState = "blocked" => EpStage = "stopped"
BY Stations DEF EpStage, StageAt

LEMMA StageNext ==
    /\ \A n \in 1..8 : epState' = HappyPath[n] => EpStage' = StageAt(n)
    /\ epState' = "blocked" => EpStage' = "stopped"
<1>1. (/\ \A n \in 1..8 : epState = HappyPath[n] => EpStage = StageAt(n)
       /\ epState = "blocked" => EpStage = "stopped")'
  BY StageIs, PTL
<1> QED BY <1>1

LEMMA PromiseStarts == EpInit => EpisodePromise!Init
BY DEF EpInit, EpisodePromise!Init, EpStage, Approval, Submitted, EpChannels, HumanQA,
       ReleaseApproval

\* The same things are submitted at every station up to the fifth, and from the sixth on.
LEMMA SameSeen ==
    ASSUME NEW m \in 1..8, NEW n \in 1..8, Seen(m), Seen(n)', m > 5 <=> n > 5
    PROVE  Submitted' = Submitted
BY DEF Seen

\* A block stops what the promise sees.
LEMMA Stops ==
    ASSUME EpisodeInv, NEW n \in 2..7, At(n), \A i \in 1..(n - 1) : trail[i] = Event(i),
           ReturnBlocked, \A c \in EpChannels : Approval(c)' = Approval(c)
    PROVE  PathInv' /\ epState' = "blocked" /\ EpisodePromise!Stop
<1>1. PathInv' /\ Walked(n)' /\ epState' = "blocked" /\ n \in 1..8
  BY WalkBlocks DEF EpisodeInv
<1>2. Seen(n) /\ Seen(n)'
  BY <1>1, SubmittedIs, SubmittedNext DEF EpisodeInv, Walked
<1>3. Submitted' = Submitted
  BY <1>1, <1>2, SameSeen
<1>4. EpStage = StageAt(n) /\ EpStage' = "stopped"
  BY <1>1, StageIs, StageNext DEF At
<1>5. EpStage \in {"draft", "produce", "candidate", "signed"}
  BY <1>4 DEF StageAt
<1> QED BY <1>1, <1>3, <1>4, <1>5, Channels DEF EpisodePromise!Stop

Stutters == UNCHANGED <<EpStage, Approval(HumanQA), Submitted, Approval(ReleaseApproval)>>

Promised == EpisodePromise!Next \/ Stutters

LEMMA ApprovalSame ==
    ASSUME heard' = heard
    PROVE  \A c \in EpChannels : Approval(c)' = Approval(c)
BY DEF Approval

\* Recording the next station, with what the promise sees of it.
LEMMA Proceeds ==
    ASSUME EpisodeInv, NEW n \in 1..7, At(n), \A i \in 1..(n - 1) : trail[i] = Event(i),
           RecordTransition(HappyPath[n + 1]),
           returned' = IF n = 7 THEN "dry_run_complete" ELSE Open
    PROVE  /\ PathInv' /\ epState = HappyPath[n] /\ epState' = HappyPath[n + 1]
           /\ EpStage = StageAt(n) /\ EpStage' = StageAt(n + 1)
           /\ Submitted' = IF n > 4 THEN ThePath ELSE Undecided
           /\ n # 5 => Submitted' = Submitted
<1>1. PathInv' /\ Walked(n + 1)' /\ n \in 1..8 /\ n + 1 \in 1..8
  BY WalksOn DEF EpisodeInv
<1>2. epState = HappyPath[n] /\ epState' = HappyPath[n + 1]
  BY DEF At, RecordTransition
<1>3. Seen(n) /\ Seen(n + 1)'
  BY <1>1, SubmittedIs, SubmittedNext DEF EpisodeInv, Walked
<1>4. Submitted' = IF n + 1 > 5 THEN ThePath ELSE Undecided
  BY <1>1, <1>3 DEF Seen
<1>5. Submitted = IF n > 5 THEN ThePath ELSE Undecided
  BY <1>3 DEF Seen
<1>6. EpStage = StageAt(n) /\ EpStage' = StageAt(n + 1)
  BY <1>1, <1>2, StageIs, StageNext
<1> QED BY <1>1, <1>2, <1>4, <1>5, <1>6
(***************************************************************************)
(* The steps: each keeps the invariant and is one of the promise.          *)
(***************************************************************************)
LEMMA Standing ==
    ASSUME EpisodeInv, epState # "blocked"
    PROVE  \E n \in 1..8 : At(n) /\ (\A i \in 1..(n - 1) : trail[i] = Event(i))
BY StationNow DEF EpisodeInv

\* An activity at the n-th station that succeeds.
LEMMA Advances ==
    ASSUME EpisodeInv, NEW n \in {1, 2, 3, 5, 7}, At(n),
           \A i \in 1..(n - 1) : trail[i] = Event(i),
           RecordTransition(HappyPath[n + 1]),
           returned' = IF n = 7 THEN "dry_run_complete" ELSE Open,
           UNCHANGED <<mail, mailed, heard>>
    PROVE  EpisodeInv' /\ Promised
<1>1. /\ PathInv' /\ epState = HappyPath[n] /\ epState' = HappyPath[n + 1]
      /\ EpStage = StageAt(n) /\ EpStage' = StageAt(n + 1)
      /\ Submitted' = IF n > 4 THEN ThePath ELSE Undecided
      /\ n # 5 => Submitted' = Submitted
  BY Proceeds
<1>2. HeardInv'
  <2>1. /\ epState \in AfterQA <=> epState' \in AfterQA
        /\ epState \in AfterRelease <=> epState' \in AfterRelease
        /\ epState # "blocked" /\ epState' # "blocked"
    BY <1>1, Stations DEF AfterQA, AfterRelease
  <2> QED BY <2>1 DEF EpisodeInv, HeardInv, Settled
<1>3. EpisodeInv'
  BY <1>1, <1>2, MailStands DEF EpisodeInv
<1>4. Approval(HumanQA)' = Approval(HumanQA) /\ Approval(ReleaseApproval)' = Approval(ReleaseApproval)
  BY ApprovalSame, Channels
<1>5. CASE n \in {1, 2, 3}
  <2>1. EpStage' = EpStage /\ Submitted' = Submitted
    BY <1>1, <1>5 DEF StageAt
  <2> QED BY <1>3, <1>4, <2>1 DEF Promised, Stutters
<1>6. CASE n = 5
  <2>1. EpStage = "produce" /\ EpStage' = "candidate" /\ Submitted' = ThePath
    BY <1>1, <1>6 DEF StageAt
  <2>2. FollowedThePath(Submitted')
    BY <2>1 DEF FollowedThePath, ThePath
  <2>3. EpisodePromise!Pin
    BY <1>4, <2>1, <2>2 DEF EpisodePromise!Pin
  <2> QED BY <1>3, <2>3 DEF Promised, EpisodePromise!Next
<1>7. CASE n = 7
  <2>1. EpStage = "signed" /\ EpStage' = "released" /\ Submitted' = Submitted
    BY <1>1, <1>7 DEF StageAt
  <2>2. EpisodePromise!Release
    BY <1>4, <2>1 DEF EpisodePromise!Release
  <2> QED BY <1>3, <2>2 DEF Promised, EpisodePromise!Next
<1> QED BY <1>5, <1>6, <1>7

\* The last attempt of an activity fails, or a decision is no approval.
LEMMA BlocksThere ==
    ASSUME EpisodeInv, NEW n \in 2..7, At(n), \A i \in 1..(n - 1) : trail[i] = Event(i),
           ReturnBlocked, MailInv', \A c \in EpChannels : Approval(c)' = Approval(c)
    PROVE  EpisodeInv' /\ Promised
<1>1. PathInv' /\ epState' = "blocked" /\ EpisodePromise!Stop
  BY Stops
<1>2. HeardInv'
  BY <1>1 DEF HeardInv, Settled, AfterQA, AfterRelease
<1> QED BY <1>1, <1>2 DEF EpisodeInv, Promised, EpisodePromise!Next

LEMMA Stands ==
    ASSUME EpisodeInv, UNCHANGED <<epState, trail, heard, returned>>,
           epAttempt' \in 1..EpMaxAttempts, MailInv'
    PROVE  EpisodeInv' /\ Stutters
<1>1. PathInv'
  BY WalkStands DEF EpisodeInv
<1>2. HeardInv'
  BY DEF EpisodeInv, HeardInv, Settled
<1>3. Stutters
  BY DEF Stutters, EpStage, Approval, Submitted
<1> QED BY <1>1, <1>2, <1>3 DEF EpisodeInv

LEMMA StartStep == ASSUME EpisodeInv, EpStart PROVE EpisodeInv' /\ Promised
<1>1. PICK n \in 1..8 : At(n) /\ (\A i \in 1..(n - 1) : trail[i] = Event(i))
  BY Standing DEF EpStart
<1>2. n = 1
  BY <1>1, Stations DEF At, EpStart
<1>3. /\ RecordTransition(HappyPath[1 + 1]) /\ UNCHANGED <<mail, mailed, heard, returned>>
      /\ returned = Open
  BY <1>1, <1>2, Stations DEF At, EpStart
<1> QED BY <1>1, <1>2, <1>3, Advances

LEMMA ReturnStep == ASSUME EpisodeInv, ActivityReturns PROVE EpisodeInv' /\ Promised
<1>1. PICK n \in 1..8 : At(n) /\ (\A i \in 1..(n - 1) : trail[i] = Event(i))
  BY Standing DEF ActivityReturns, AfterActivity
<1>2. n \in {2, 3, 5, 7} /\ AfterActivity[epState] = HappyPath[n + 1] /\ epState = HappyPath[n]
  BY <1>1, ActivityLeads DEF At, ActivityReturns
<1>3. /\ RecordTransition(HappyPath[n + 1]) /\ UNCHANGED <<mail, mailed, heard>>
      /\ returned' = IF epState = "dry_run_publishing" THEN epState' ELSE Open
  BY <1>2 DEF ActivityReturns
<1>4. returned' = IF n = 7 THEN "dry_run_complete" ELSE Open
  <2>1. epState = "dry_run_publishing" <=> n = 7
    BY <1>2, Stations
  <2>2. n = 7 => epState' = "dry_run_complete"
    BY <1>3, Stations DEF RecordTransition
  <2> QED BY <1>3, <2>1, <2>2
<1> QED BY <1>1, <1>2, <1>3, <1>4, Advances

LEMMA FailStep == ASSUME EpisodeInv, ActivityFails PROVE EpisodeInv' /\ Promised
<1>1. MailInv' /\ UNCHANGED <<mail, mailed, heard>>
  BY MailStands DEF ActivityFails, EpisodeInv
<1>2. CASE epAttempt < EpMaxAttempts
  <2>1. UNCHANGED <<epState, trail, heard, returned>> /\ epAttempt' \in 1..EpMaxAttempts
    BY <1>2 DEF ActivityFails, EpisodeInv, PathInv, EpMaxAttempts
  <2> QED BY <1>1, <2>1, Stands DEF Promised
<1>3. CASE ~(epAttempt < EpMaxAttempts)
  <2>1. PICK n \in 1..8 : At(n) /\ (\A i \in 1..(n - 1) : trail[i] = Event(i))
    BY Standing DEF ActivityFails, AfterActivity
  <2>2. n \in 2..7 /\ ReturnBlocked
    BY <1>3, <2>1, ActivityLeads DEF At, ActivityFails
  <2> QED BY <1>1, <2>1, <2>2, ApprovalSame, BlocksThere
<1> QED BY <1>2, <1>3
LEMMA DecisionHeard ==
    ASSUME EpisodeInv, NEW c \in EpChannels, NEW wait, ReceiveDecision(c, wait),
           heard[c] = Undecided
    PROVE  /\ MailInv' /\ heard'[c] \in Decisions[c]
           /\ \A b \in EpChannels \ {c} : heard'[b] = heard[b] /\ Approval(b)' = Approval(b)
           /\ Approval(c) = Undecided
           /\ Approval(c)' = IF heard'[c] \in Accepts[c] THEN heard'[c] ELSE Undecided
<1>1. Heard(c)
  BY DEF ReceiveDecision, Heard
<1>2. /\ MailInv' /\ heard'[c] \in Decisions[c]
      /\ \A b \in EpChannels \ {c} : heard'[b] = heard[b]
  BY <1>1, MailRead DEF EpisodeInv
<1>3. Undecided \notin Accepts[c]
  BY Accepted
<1> QED BY <1>2, <1>3 DEF Approval

LEMMA QAStep == ASSUME EpisodeInv, ReceiveHumanQA PROVE EpisodeInv' /\ Promised
<1>1. /\ ReceiveDecision(HumanQA, "awaiting_human_qa") /\ epState = "awaiting_human_qa"
      /\ returned = Open
      /\ IF heard'[HumanQA] \in Accepts[HumanQA]
         THEN RecordTransition(AfterApproval[HumanQA]) /\ UNCHANGED returned
         ELSE ReturnBlocked
  BY DEF ReceiveHumanQA, ReceiveDecision
<1>2. PICK n \in 1..8 : At(n) /\ (\A i \in 1..(n - 1) : trail[i] = Event(i))
  BY <1>1, Standing
<1>3. n = 4
  BY <1>1, <1>2, Stations DEF At
<1>4. heard[HumanQA] = Undecided /\ heard[ReleaseApproval] = Undecided
  BY <1>1 DEF EpisodeInv, HeardInv, Settled, AfterQA, AfterRelease
<1>5. /\ MailInv' /\ heard'[HumanQA] \in Decisions[HumanQA]
      /\ heard'[ReleaseApproval] = heard[ReleaseApproval]
      /\ Approval(ReleaseApproval)' = Approval(ReleaseApproval)
      /\ Approval(HumanQA) = Undecided
      /\ Approval(HumanQA)' = IF heard'[HumanQA] \in Accepts[HumanQA] THEN heard'[HumanQA]
                              ELSE Undecided
  BY <1>1, <1>4, Channels, DecisionHeard
<1>6. CASE heard'[HumanQA] \in Accepts[HumanQA]
  <2>1. RecordTransition(HappyPath[4 + 1]) /\ returned' = Open
    BY <1>1, <1>6, Channels, Stations
  <2>2. /\ PathInv' /\ epState' = HappyPath[5]
        /\ EpStage = "draft" /\ EpStage' = "produce" /\ Submitted' = Submitted
    BY <1>2, <1>3, <2>1, Proceeds DEF StageAt
  <2>3. HeardInv'
    BY <1>4, <1>5, <1>6, <2>2, Stations DEF HeardInv, Settled, AfterQA, AfterRelease
  <2>4. EpisodePromise!Review(heard'[HumanQA])
    BY <1>5, <1>6, <2>2 DEF EpisodePromise!Review
  <2> QED BY <1>5, <1>6, <2>2, <2>3, <2>4 DEF EpisodeInv, Promised, EpisodePromise!Next
<1>7. CASE heard'[HumanQA] \notin Accepts[HumanQA]
  <2>1. ReturnBlocked /\ \A c \in EpChannels : Approval(c)' = Approval(c)
    BY <1>1, <1>5, <1>7, Channels
  <2> QED BY <1>2, <1>3, <1>5, <2>1, BlocksThere
<1> QED BY <1>6, <1>7

LEMMA ReleaseStep == ASSUME EpisodeInv, ReceiveRelease PROVE EpisodeInv' /\ Promised
<1>1. /\ ReceiveDecision(ReleaseApproval, "awaiting_release_approval")
      /\ epState = "awaiting_release_approval" /\ returned = Open
      /\ IF heard'[ReleaseApproval] \in Accepts[ReleaseApproval]
         THEN RecordTransition(AfterApproval[ReleaseApproval]) /\ UNCHANGED returned
         ELSE ReturnBlocked
  BY DEF ReceiveRelease, ReceiveDecision
<1>2. PICK n \in 1..8 : At(n) /\ (\A i \in 1..(n - 1) : trail[i] = Event(i))
  BY <1>1, Standing
<1>3. n = 6
  BY <1>1, <1>2, Stations DEF At
<1>4. heard[HumanQA] \in Accepts[HumanQA] /\ heard[ReleaseApproval] = Undecided
  BY <1>1 DEF EpisodeInv, HeardInv, Settled, AfterQA, AfterRelease
<1>5. /\ MailInv' /\ heard'[ReleaseApproval] \in Decisions[ReleaseApproval]
      /\ heard'[HumanQA] = heard[HumanQA] /\ Approval(HumanQA)' = Approval(HumanQA)
      /\ Approval(ReleaseApproval) = Undecided
      /\ Approval(ReleaseApproval)' =
            IF heard'[ReleaseApproval] \in Accepts[ReleaseApproval]
            THEN heard'[ReleaseApproval] ELSE Undecided
  BY <1>1, <1>4, Channels, DecisionHeard
<1>6. CASE heard'[ReleaseApproval] \in Accepts[ReleaseApproval]
  <2>1. RecordTransition(HappyPath[6 + 1]) /\ returned' = Open
    BY <1>1, <1>6, Channels, Stations
  <2>2. /\ PathInv' /\ epState' = HappyPath[7]
        /\ EpStage = "candidate" /\ EpStage' = "signed" /\ Submitted' = Submitted
    BY <1>2, <1>3, <2>1, Proceeds DEF StageAt
  <2>3. HeardInv'
    BY <1>4, <1>5, <1>6, <2>2, Stations DEF HeardInv, Settled, AfterQA, AfterRelease
  <2>4. EpisodePromise!Sign(heard'[ReleaseApproval])
    BY <1>5, <1>6, <2>2 DEF EpisodePromise!Sign
  <2> QED BY <1>5, <1>6, <2>2, <2>3, <2>4 DEF EpisodeInv, Promised, EpisodePromise!Next
<1>7. CASE heard'[ReleaseApproval] \notin Accepts[ReleaseApproval]
  <2>1. ReturnBlocked /\ \A c \in EpChannels : Approval(c)' = Approval(c)
    BY <1>1, <1>5, <1>7, Channels
  <2> QED BY <1>2, <1>3, <1>5, <2>1, BlocksThere
<1> QED BY <1>6, <1>7

LEMMA SendStep == ASSUME EpisodeInv, SendDecision PROVE EpisodeInv' /\ Promised
<1>1. EpisodeInv'
  BY Sent
<1>2. UNCHANGED <<epState, trail, heard>>
  BY DEF SendDecision
<1> QED BY <1>1, <1>2 DEF Promised, Stutters, EpStage, Approval, Submitted

LEMMA EpisodeKeeps == EpisodeInv /\ [EpNext]_episodeVars => EpisodeInv' /\ Promised
<1> SUFFICES ASSUME EpisodeInv, [EpNext]_episodeVars PROVE EpisodeInv' /\ Promised
  OBVIOUS
<1>1. ASSUME UNCHANGED episodeVars PROVE EpisodeInv' /\ Promised
  <2>1. UNCHANGED <<epState, epAttempt, trail, mail, mailed, heard, returned>>
    BY <1>1 DEF episodeVars
  <2>2. MailInv' /\ epAttempt' \in 1..EpMaxAttempts
    BY <2>1, MailStands DEF EpisodeInv, PathInv
  <2> QED BY <2>1, <2>2, Stands DEF Promised
<1> QED BY <1>1, StartStep, ReturnStep, FailStep, QAStep, ReleaseStep, SendStep DEF EpNext, EpWork

LEMMA EpisodeAlways == EpSpec => []EpisodeInv
BY EpisodeStarts, EpisodeKeeps, PTL DEF EpSpec

\* The workflow stays well-typed: known states, attempts within the retry policy, only
\* decisions that the client lets through.
THEOREM EpisodeTyped == EpSpec => []EpisodeTypeOK
<1>1. ASSUME EpisodeInv PROVE EpisodeTypeOK
  <2>1. PICK n \in 1..8 : Walked(n)
    BY <1>1 DEF EpisodeInv, PathInv
  <2>2. epState \in EpStates
    <3>1. HappyPath[n] \in EpStates /\ "blocked" \in EpStates
      BY StationsKnown DEF EpStates
    <3> QED BY <2>1, <3>1 DEF Walked, At, BlockedAt
  <2>3. returned \in {Open, "blocked", "dry_run_complete"}
    BY <2>1 DEF Walked, At, BlockedAt
  <2>4. /\ trail \in Seq([from : EpStates, to : EpStates])
        /\ epAttempt \in 1..EpMaxAttempts
        /\ \A c \in EpChannels : MailTyped(c)
    BY <1>1 DEF EpisodeInv, PathInv, MailInv
  <2> QED BY <2>2, <2>3, <2>4 DEF EpisodeTypeOK, MailTyped
<1> QED BY <1>1, EpisodeAlways, PTL

\* Of two decisions sent on a channel the earlier one counts, whenever it was sent and
\* however many follow.
THEOREM FirstDecisionCorrect == EpSpec => []FirstDecisionDecides
<1>1. EpisodeInv => FirstDecisionDecides
  BY DEF EpisodeInv, MailInv
<1> QED BY <1>1, EpisodeAlways, PTL

\* The audit events are the complete path of the episode to the state a query shows with
\* them, and that state is the one that was returned.
THEOREM AuditTrailCorrect == EpSpec => []AuditTrail
<1>1. ASSUME PathInv PROVE AuditTrail
  <2>1. PICK n \in 1..8 : Walked(n)
    BY <1>1 DEF PathInv
  <2>2. /\ trail \in Seq([from : EpStates, to : EpStates])
        /\ \A i \in 1..(n - 1) : trail[i] = Event(i)
    BY <1>1, <2>1 DEF PathInv, Walked
  <2>k. PICK k \in Nat : k = Len(trail)
    BY <2>2
  <2>d. DOMAIN trail = 1..k
    BY <2>2, <2>k
  <2>n. k \in {n - 1, n}
    BY <2>1, <2>k DEF Walked, At, BlockedAt
  <2>a. k = n - 1 => epState = HappyPath[n]
    BY <2>1, <2>k DEF Walked, At, BlockedAt
  <2>b. k = n => /\ epState = "blocked" /\ trail[n].from = HappyPath[n]
                 /\ trail[n].to = "blocked"
    BY <2>1, <2>k DEF Walked, At, BlockedAt
  <2> DEFINE tos == [i \in DOMAIN trail |-> trail[i].to]
             visited == <<"started">> \o tos
  <2>3. /\ Len(visited) = k + 1 /\ DOMAIN visited = 1..(k + 1) /\ visited[1] = "started"
        /\ \A i \in 1..k : visited[i + 1] = trail[i].to
    <3>1. tos \in Seq({trail[i].to : i \in 1..k}) /\ Len(tos) = k
          /\ \A i \in 1..k : tos[i] = trail[i].to
      <4>1. tos \in [1..k -> {trail[j].to : j \in 1..k}]
        BY <2>d
      <4>2. ASSUME NEW R, NEW m \in Nat, NEW t \in [1..m -> R]
            PROVE  t \in Seq(R) /\ Len(t) = m
        OBVIOUS
      <4> QED BY <2>d, <4>1, <4>2
    <3>2. ASSUME NEW R, NEW t \in Seq(R)
          PROVE  /\ Len(<<"started">> \o t) = Len(t) + 1
                 /\ DOMAIN (<<"started">> \o t) = 1..(Len(t) + 1)
                 /\ (<<"started">> \o t)[1] = "started"
                 /\ \A i \in 1..Len(t) : (<<"started">> \o t)[i + 1] = t[i]
      OBVIOUS
    <3> HIDE DEF tos
    <3> QED BY <3>1, <3>2
  <2> HIDE DEF visited
  <2>4. \A i \in 1..n : visited[i] = HappyPath[i]
    <3>1. visited[1] = HappyPath[1]
      BY <2>3, Stations
    <3>2. ASSUME NEW i \in 2..n PROVE visited[i] = HappyPath[i]
      <4>1. i - 1 \in 1..(n - 1) /\ i - 1 \in 1..k /\ i - 1 + 1 = i
        BY <2>n
      <4>2. visited[i] = trail[i - 1].to
        BY <2>3, <4>1
      <4>3. trail[i - 1] = [from |-> HappyPath[i - 1], to |-> HappyPath[i]]
        BY <2>2, <4>1 DEF Event
      <4> QED BY <4>2, <4>3
    <3>3. \A i \in 1..n : i = 1 \/ i \in 2..n
      OBVIOUS
    <3> QED BY <3>1, <3>2, <3>3
  <2>5. k = n => visited[n + 1] = "blocked"
    <3>1. n \in 1..n
      OBVIOUS
    <3> QED BY <2>3, <2>b, <3>1
  <2>6. \A i \in DOMAIN trail : trail[i].from = visited[i]
    <3>1. ASSUME NEW i \in 1..(n - 1) PROVE trail[i].from = visited[i]
      <4>1. trail[i] = [from |-> HappyPath[i], to |-> HappyPath[i + 1]]
        BY <2>2 DEF Event
      <4>2. i \in 1..n
        OBVIOUS
      <4> QED BY <2>4, <4>1, <4>2
    <3>2. k = n => trail[n].from = visited[n]
      <4>1. n \in 1..n
        OBVIOUS
      <4> QED BY <2>4, <2>b, <4>1
    <3>3. \A i \in 1..k : i \in 1..(n - 1) \/ (i = n /\ k = n)
      BY <2>n
    <3> QED BY <2>d, <3>1, <3>2, <3>3
  <2>7. visited[k + 1] = epState
    <3>1. CASE k = n - 1
      <4>1. k + 1 = n /\ n \in 1..n
        BY <3>1
      <4> QED BY <2>4, <2>a, <3>1, <4>1
    <3>2. CASE k = n
      BY <2>5, <2>b, <3>2
    <3> QED BY <2>n, <3>1, <3>2
  <2>8. \A i \in 1..(k + 1) : visited[i] # HappyPath[i] => i = k + 1 /\ visited[i] = "blocked"
    <3>1. \A i \in 1..(k + 1) : i \in 1..n \/ (i = n + 1 /\ k = n)
      BY <2>n
    <3> QED BY <2>4, <2>5, <3>1
  <2>9. TrailComplete
    BY <2>3, <2>6, <2>7, <2>8 DEF TrailComplete, Last, visited
  <2>10. returned # Open => returned = epState
    BY <2>1, Stations DEF Walked, At, BlockedAt
  <2> QED BY <2>9, <2>10 DEF AuditTrail
<1>2. EpisodeInv => AuditTrail
  BY <1>1 DEF EpisodeInv
<1> QED BY <1>2, EpisodeAlways, PTL

\* The episode workflow implements the abstract promise of two signatures.
THEOREM EpisodeImplements == EpSpec => EpisodeImplementsPromise
<1>1. EpisodeInv /\ [EpNext]_episodeVars => [EpisodePromise!Next]_(EpisodePromise!vars)
  BY EpisodeKeeps DEF Promised, Stutters, EpisodePromise!vars
<1>2. EpSpec => EpisodePromise!Init /\ [][EpisodePromise!Next]_(EpisodePromise!vars)
  BY <1>1, EpisodeAlways, PromiseStarts, PTL DEF EpSpec
<1> QED BY <1>2 DEF EpisodeImplementsPromise, EpisodePromise!Spec

-----------------------------------------------------------------------------
(***************************************************************************)
(* Progress. Each step of the workflow's own uses up one of the attempts   *)
(* that the retry policies leave on the rest of the path.                  *)
(***************************************************************************)
\* The attempts left on the way, the receipt of a decision counted as an activity.
EpLeft == IF returned = Open THEN EpMaxAttempts * (7 - Len(trail)) - (epAttempt - 1) ELSE 0

\* Each step of the workflow's own leaves fewer, a signal as many: retries cannot go on
\* for ever, and an episode that returned does nothing more.
EpEndsInTime == [][(EpWork => EpLeft' < EpLeft) /\ (~EpWork => EpLeft' = EpLeft)]_episodeVars

LEMMA AttemptsOnTheWay ==
    ASSUME NEW l \in 0..6, NEW a \in 1..3
    PROVE  /\ 3 * (7 - l) - (a - 1) \in 1..21
           /\ 3 * (7 - (l + 1)) - (1 - 1) < 3 * (7 - l) - (a - 1)
           /\ 3 * (7 - l) - ((a + 1) - 1) < 3 * (7 - l) - (a - 1)
OBVIOUS

LEMMA OpenOnTheWay ==
    ASSUME EpisodeInv, returned = Open
    PROVE  /\ Len(trail) \in 0..6 /\ epAttempt \in 1..3
           /\ EpLeft \in 1..21 /\ EpLeft = 3 * (7 - Len(trail)) - (epAttempt - 1)
<1>1. PICK n \in 1..8 : Walked(n)
  BY DEF EpisodeInv, PathInv
<1>2. n # 8 /\ Len(trail) = n - 1
  BY <1>1, EpisodeAssumption DEF Walked, At, BlockedAt
<1>3. Len(trail) \in 0..6 /\ epAttempt \in 1..3
  BY <1>2 DEF EpisodeInv, PathInv, EpMaxAttempts
<1>4. EpLeft = 3 * (7 - Len(trail)) - (epAttempt - 1)
  BY DEF EpLeft, EpMaxAttempts
<1> QED BY <1>3, <1>4, AttemptsOnTheWay

LEMMA TransitionUsesUp ==
    ASSUME EpisodeInv, returned = Open, NEW next, RecordTransition(next)
    PROVE  EpLeft' < EpLeft
<1>1. /\ Len(trail) \in 0..6 /\ epAttempt \in 1..3 /\ EpLeft \in 1..21
      /\ EpLeft = 3 * (7 - Len(trail)) - (epAttempt - 1)
  BY OpenOnTheWay
<1>2. epAttempt' = 1 /\ Len(trail') = Len(trail) + 1
  <2>1. ASSUME NEW R, NEW t \in Seq(R), NEW e PROVE Len(Append(t, e)) = Len(t) + 1
    OBVIOUS
  <2>2. trail \in Seq([from : EpStates, to : EpStates])
    BY DEF EpisodeInv, PathInv
  <2> QED BY <2>1, <2>2 DEF RecordTransition
<1>3. CASE returned' = Open
  <2>1. EpLeft' = 3 * (7 - (Len(trail) + 1)) - (1 - 1)
    BY <1>2, <1>3 DEF EpLeft, EpMaxAttempts
  <2> QED BY <1>1, <2>1, AttemptsOnTheWay
<1>4. CASE returned' # Open
  <2>1. EpLeft' = 0
    BY <1>4 DEF EpLeft
  <2>2. ASSUME NEW m \in 1..21 PROVE 0 < m
    OBVIOUS
  <2>3. 0 < EpLeft
    BY <1>1, <2>2
  <2> QED BY <2>1, <2>3
<1> QED BY <1>3, <1>4

LEMMA EpWorkUsesUp ==
    ASSUME EpisodeInv, EpWork
    PROVE  EpLeft' < EpLeft
<1>1. CASE EpStart
  <2>1. PICK n \in 1..8 : Walked(n)
    BY DEF EpisodeInv, PathInv
  <2>2. n # 8 /\ At(n)
    BY <1>1, <2>1, Stations DEF EpStart, Walked, At, BlockedAt
  <2>3. returned = Open
    BY <2>2 DEF At
  <2> QED BY <1>1, <2>3, TransitionUsesUp DEF EpStart
<1>2. CASE ActivityReturns
  BY <1>2, TransitionUsesUp DEF ActivityReturns
<1>3. CASE ActivityFails
  <2>1. CASE epAttempt < EpMaxAttempts
    <3>1. epAttempt' = epAttempt + 1 /\ returned' = Open /\ returned = Open /\ trail' = trail
      BY <1>3, <2>1 DEF ActivityFails
    <3>2. /\ Len(trail) \in 0..6 /\ epAttempt \in 1..3
          /\ EpLeft = 3 * (7 - Len(trail)) - (epAttempt - 1)
      BY <3>1, OpenOnTheWay
    <3>3. EpLeft' = 3 * (7 - Len(trail)) - ((epAttempt + 1) - 1)
      BY <3>1 DEF EpLeft, EpMaxAttempts
    <3> QED BY <3>2, <3>3, AttemptsOnTheWay
  <2>2. CASE ~(epAttempt < EpMaxAttempts)
    BY <1>3, <2>2, TransitionUsesUp DEF ActivityFails, ReturnBlocked
  <2> QED BY <2>1, <2>2
<1>4. ASSUME NEW channel, NEW wait, ReceiveDecision(channel, wait) PROVE EpLeft' < EpLeft
  BY <1>4, TransitionUsesUp DEF ReceiveDecision, ReturnBlocked
<1> QED BY <1>1, <1>2, <1>3, <1>4 DEF EpWork, ReceiveHumanQA, ReceiveRelease

\* Whatever the activities do and people decide, an episode takes at most 21 steps of its
\* own: no retry or decision ever sends it back (EpisodeLifecycleWorkflow with its retry
\* policy of three attempts).
THEOREM EpisodeEndsInTime == EpSpec => [](EpLeft \in 0..21) /\ EpEndsInTime
<1>1. EpisodeInv => EpLeft \in 0..21
  <2>1. CASE returned = Open
    BY <2>1, OpenOnTheWay
  <2>2. CASE returned # Open
    BY <2>2 DEF EpLeft
  <2> QED BY <2>1, <2>2
<1>2. EpisodeInv /\ [EpNext]_episodeVars =>
        [(EpWork => EpLeft' < EpLeft) /\ (~EpWork => EpLeft' = EpLeft)]_episodeVars
  <2>1. SendDecision => EpLeft' = EpLeft
    BY DEF SendDecision, EpLeft
  <2> QED BY <2>1, EpWorkUsesUp DEF EpNext
<1> QED BY <1>1, <1>2, EpisodeAlways, PTL DEF EpSpec, EpEndsInTime
=============================================================================
