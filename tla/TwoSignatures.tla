---------------------------- MODULE TwoSignatures ----------------------------
(***************************************************************************)
(* What the short-form workflow promises, without its activities: a person *)
(* reviews the pictures, something is produced and pinned, a named person  *)
(* signs for exactly that, and only then is it released. It may stop       *)
(* before any of these steps, and nothing happens after it stopped.        *)
(***************************************************************************)
CONSTANTS Reviewers,   \* who may approve the storyboard
          Signers,     \* who may sign the release
          Complete(_), \* what may be pinned
          Blank        \* nobody, or nothing yet

VARIABLES stage, reviewer, pinned, signer

vars == <<stage, reviewer, pinned, signer>>

Init == stage = "draft" /\ reviewer = Blank /\ pinned = Blank /\ signer = Blank

Review(who) ==
    /\ stage = "draft" /\ stage' = "produce"
    /\ who \in Reviewers /\ reviewer' = who
    /\ UNCHANGED <<pinned, signer>>

Pin ==
    /\ stage = "produce" /\ stage' = "candidate"
    /\ Complete(pinned')
    /\ UNCHANGED <<reviewer, signer>>

Sign(who) ==
    /\ stage = "candidate" /\ stage' = "signed"
    /\ who \in Signers /\ signer' = who
    /\ UNCHANGED <<reviewer, pinned>>

Release ==
    /\ stage = "signed" /\ stage' = "released"
    /\ UNCHANGED <<reviewer, pinned, signer>>

Stop ==
    /\ stage \in {"draft", "produce", "candidate", "signed"} /\ stage' = "stopped"
    /\ UNCHANGED <<reviewer, pinned, signer>>

Next == \/ \E who \in Reviewers : Review(who)
        \/ Pin
        \/ \E who \in Signers : Sign(who)
        \/ Release
        \/ Stop

Spec == Init /\ [][Next]_vars
=============================================================================
