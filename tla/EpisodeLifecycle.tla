--------------------------- MODULE EpisodeLifecycle ---------------------------
(***************************************************************************)
(* The Temporal workflow EpisodeLifecycleWorkflow: validation and a model  *)
(* council, a person's QA decision, production QA, a person's release      *)
(* decision, a dry run. Its query state and its audit events change in     *)
(* place, so an observer may read them between any two steps.              *)
(***************************************************************************)
EXTENDS Naturals, Sequences, SequencesExt

CONSTANTS MaxDecisions, \* bound on the signals per channel
          Undecided,    \* no decision was received
          Open          \* the result of a workflow that has not returned

VARIABLES epState,   \* state.State
          epAttempt, \* the attempt of the activity that epState awaits
          trail,     \* state.AuditEvents: [from, to]
          mail,      \* signals sent and not received, per channel
          mailed,    \* signals ever sent, per channel
          heard,     \* humanDecision and releaseDecision
          returned   \* the state in the result

episodeVars == <<epState, epAttempt, trail, mail, mailed, heard, returned>>

HumanQA == "HumanQADecisionSignal"
ReleaseApproval == "ReleaseApprovalSignal"
EpChannels == {HumanQA, ReleaseApproval}

\* What the signal client lets through (validHumanQADecision, SignalRelease).
Decisions == [c \in EpChannels |->
    IF c = HumanQA THEN {"approve", "approve_with_minor_edits", "request_revision", "block"}
    ELSE {"approve", "block"}]

\* What the workflow goes on with.
Accepts == [c \in EpChannels |->
    IF c = HumanQA THEN {"approve", "approve_with_minor_edits"} ELSE {"approve"}]

\* The states in which an activity runs, and the state after it.
AfterActivity ==
    [validating_artifacts |-> "running_model_council",
     running_model_council |-> "awaiting_human_qa",
     production_qa |-> "awaiting_release_approval",
     dry_run_publishing |-> "dry_run_complete"]

AfterApproval == [c \in EpChannels |->
    IF c = HumanQA THEN "production_qa" ELSE "dry_run_publishing"]

ASSUME EpisodeAssumption ==
    /\ \A c \in EpChannels : Undecided \notin Decisions[c]
    /\ Open \notin {"blocked", "dry_run_complete"}

EpMaxAttempts == 3

-----------------------------------------------------------------------------
RecordTransition(next) ==
    /\ epState' = next /\ epAttempt' = 1
    /\ trail' = Append(trail, [from |-> epState, to |-> next])

\* A bug: blocks a copy of the state, as the short-form workflow does.
ReturnBlockedCopy ==
    /\ returned' = "blocked"
    /\ UNCHANGED <<epState, epAttempt, trail>>

ReturnBlocked == RecordTransition("blocked") /\ returned' = "blocked"

EpInit ==
    /\ epState = "started" /\ epAttempt = 1 /\ trail = <<>>
    /\ mail = [c \in EpChannels |-> <<>>] /\ mailed = mail
    /\ heard = [c \in EpChannels |-> Undecided]
    /\ returned = Open

EpStart ==
    /\ epState = "started"
    /\ RecordTransition("validating_artifacts")
    /\ UNCHANGED <<mail, mailed, heard, returned>>

ActivityReturns ==
    /\ returned = Open /\ epState \in DOMAIN AfterActivity
    /\ RecordTransition(AfterActivity[epState])
    /\ returned' = IF epState = "dry_run_publishing" THEN epState' ELSE Open
    /\ UNCHANGED <<mail, mailed, heard>>

\* A bug: a retry policy without a maximum.
ActivityFailsAgain ==
    /\ returned = Open /\ epState \in DOMAIN AfterActivity
    /\ epAttempt' = (epAttempt % EpMaxAttempts) + 1
    /\ UNCHANGED <<epState, trail, mail, mailed, heard, returned>>

ActivityFails ==
    /\ returned = Open /\ epState \in DOMAIN AfterActivity
    /\ IF epAttempt < EpMaxAttempts
       THEN epAttempt' = epAttempt + 1 /\ UNCHANGED <<epState, trail, returned>>
       ELSE ReturnBlocked
    /\ UNCHANGED <<mail, mailed, heard>>

\* A bug: only an explicit block stops the episode.
ReceiveUnlessBlocked(channel, wait) ==
    /\ returned = Open /\ epState = wait /\ mail[channel] # <<>>
    /\ heard' = [heard EXCEPT ![channel] = Head(mail[channel])]
    /\ mail' = [mail EXCEPT ![channel] = Tail(@)]
    /\ IF heard'[channel] # "block"
       THEN RecordTransition(AfterApproval[channel]) /\ UNCHANGED returned
       ELSE ReturnBlocked
    /\ UNCHANGED mailed

\* A bug: takes the last decision sent.
ReceiveLast(channel, wait) ==
    /\ returned = Open /\ epState = wait /\ mail[channel] # <<>>
    /\ heard' = [heard EXCEPT ![channel] = Last(mail[channel])]
    /\ mail' = [mail EXCEPT ![channel] = Front(@)]
    /\ IF heard'[channel] \in Accepts[channel]
       THEN RecordTransition(AfterApproval[channel]) /\ UNCHANGED returned
       ELSE ReturnBlocked
    /\ UNCHANGED mailed

\* The oldest buffered signal decides, whenever it was sent.
ReceiveDecision(channel, wait) ==
    /\ returned = Open /\ epState = wait /\ mail[channel] # <<>>
    /\ heard' = [heard EXCEPT ![channel] = Head(mail[channel])]
    /\ mail' = [mail EXCEPT ![channel] = Tail(@)]
    /\ IF heard'[channel] \in Accepts[channel]
       THEN RecordTransition(AfterApproval[channel]) /\ UNCHANGED returned
       ELSE ReturnBlocked
    /\ UNCHANGED mailed

ReceiveHumanQA == ReceiveDecision(HumanQA, "awaiting_human_qa")
ReceiveRelease == ReceiveDecision(ReleaseApproval, "awaiting_release_approval")

\* SignalHumanQA, SignalRelease: at any time while the workflow is open.
SendDecision ==
    \E c \in EpChannels : \E d \in Decisions[c] :
        /\ returned = Open /\ Len(mailed[c]) < MaxDecisions
        /\ mail' = [mail EXCEPT ![c] = Append(@, d)]
        /\ mailed' = [mailed EXCEPT ![c] = Append(@, d)]
        /\ UNCHANGED <<epState, epAttempt, trail, heard, returned>>

EpWork == EpStart \/ ActivityReturns \/ ActivityFails \/ ReceiveHumanQA \/ ReceiveRelease

EpNext == EpWork \/ SendDecision

EpSpec == EpInit /\ [][EpNext]_episodeVars
-----------------------------------------------------------------------------
(* Properties.                                                             *)

EpStates == {"started", "awaiting_human_qa", "awaiting_release_approval",
             "dry_run_complete", "blocked"} \cup DOMAIN AfterActivity

\* The states of an episode that was never blocked, in order.
HappyPath == <<"started", "validating_artifacts", "running_model_council",
               "awaiting_human_qa", "production_qa", "awaiting_release_approval",
               "dry_run_publishing", "dry_run_complete">>

\* Types: known states, attempts within the retry policy, decisions the client
\* lets through.
EpisodeTypeOK ==
    /\ epState \in EpStates /\ epAttempt \in 1..EpMaxAttempts
    /\ trail \in Seq([from : EpStates, to : EpStates])
    /\ \A c \in EpChannels : /\ mail[c] \in Seq(Decisions[c]) /\ mailed[c] \in Seq(Decisions[c])
                             /\ heard[c] \in Decisions[c] \cup {Undecided}
    /\ returned \in {Open, "blocked", "dry_run_complete"}

\* What the events say, see AuditTrail.
TrailComplete ==
    LET visited == <<"started">> \o [i \in DOMAIN trail |-> trail[i].to] IN
    /\ \A i \in DOMAIN trail : trail[i].from = visited[i]
    /\ Last(visited) = epState
    /\ \A i \in DOMAIN visited :
           visited[i] # HappyPath[i] => i = Len(visited) /\ visited[i] = "blocked"

\* The audit events read by a query are the whole history of the episode: each
\* event starts where the one before ended, they lead from started along the one
\* path to the state shown with them, and only the last may have blocked
\* (recordTransition). A query of a closed workflow shows how it ended: the state it
\* reports and the result that was returned never differ.
AuditTrail ==
    /\ TrailComplete
    /\ returned # Open => returned = epState

\* Of two decisions sent on a channel the earlier one counts, also when it came
\* long before the workflow asked for it.
FirstDecisionDecides ==
    \A c \in EpChannels :
        IF heard[c] = Undecided THEN mail[c] = mailed[c]
        ELSE mailed[c] = <<heard[c]>> \o mail[c]

\* The workflow waits for people only: with both decisions sent, however early,
\* it returns, whatever the activities do.
EpisodeCloses == (\A c \in EpChannels : mailed[c] # <<>>) ~> (returned # Open)

-----------------------------------------------------------------------------
(* What the episode workflow promises: a person's approval before          *)
(* production, a second one before the dry run, on a complete trail.       *)

EpStage == CASE epState \in {"started", "validating_artifacts", "running_model_council",
                             "awaiting_human_qa"} -> "draft"
             [] epState = "production_qa" -> "produce"
             [] epState = "awaiting_release_approval" -> "candidate"
             [] epState = "dry_run_publishing" -> "signed"
             [] epState = "dry_run_complete" -> "released"
             [] OTHER -> "stopped"

Approval(c) == IF heard[c] \in Accepts[c] THEN heard[c] ELSE Undecided

\* The trail up to the request for the release decision.
Submitted == IF \E i \in DOMAIN trail : trail[i].to = "awaiting_release_approval"
             THEN SubSeq(trail, 1, 5) ELSE Undecided

FollowedThePath(events) ==
    events = [i \in 1..5 |-> [from |-> HappyPath[i], to |-> HappyPath[i + 1]]]

EpisodePromise == INSTANCE TwoSignatures WITH
    Reviewers <- Accepts[HumanQA], Signers <- Accepts[ReleaseApproval],
    Blank <- Undecided, Complete <- FollowedThePath, stage <- EpStage,
    reviewer <- Approval(HumanQA), pinned <- Submitted,
    signer <- Approval(ReleaseApproval)

\* The episode workflow keeps the promise of two signatures: production follows
\* only a person's approval of the QA packet, the release decision is asked for
\* after every earlier stage, and the dry run follows only its approval.
EpisodeImplementsPromise == EpisodePromise!Spec
=============================================================================
