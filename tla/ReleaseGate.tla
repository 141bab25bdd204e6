---------------------------- MODULE ReleaseGate ----------------------------
(***************************************************************************)
(* What the pilot promises about its two gates, without its files.         *)
(*                                                                         *)
(* A run drafts; it may produce media only after it has passed the script  *)
(* gate, and it passes that gate only while the script review passes; it   *)
(* may declare a release candidate only after it has then passed the final *)
(* gate, while the final review passes. Between the gates a run adds to    *)
(* the produced media, and nobody else does, except that the operator may  *)
(* remove some. A run may stop at any point, the reviews may change at any *)
(* time, and so may the declaration be withdrawn.                          *)
(***************************************************************************)
CONSTANT Runs

VARIABLES
    phase,          \* phase[r] \in Phases
    produced,       \* media made by runs, a function from names to contents
    scriptPassed,   \* whether the script review passes the present script
    finalPassed,    \* whether the final review passes
    candidate       \* whether the episode is declared a release candidate

Phases == {"idle", "drafting", "producing", "closing"}

reviews == <<scriptPassed, finalPassed>>
vars == <<phase, produced, reviews, candidate>>

Init ==
    /\ phase = [r \in Runs |-> "idle"]
    /\ DOMAIN produced = {}
    /\ scriptPassed = FALSE
    /\ finalPassed = FALSE
    /\ candidate = FALSE

\* Run r goes from one phase to another, or stays where it is.
Goes(r, from, to) ==
    phase[r] \in from /\ phase' = [phase EXCEPT ![r] = to]

Start(r) == Goes(r, {"idle"}, "drafting") /\ UNCHANGED <<produced, reviews, candidate>>

PassScript(r) ==
    /\ scriptPassed
    /\ Goes(r, {"drafting"}, "producing")
    /\ UNCHANGED <<produced, reviews, candidate>>

\* The last change may be a file that was cut short by the run's death.
Produce(r) ==
    /\ Goes(r, {"producing"}, "producing") \/ Goes(r, {"producing"}, "idle")
    /\ DOMAIN produced \subseteq DOMAIN produced'
    /\ UNCHANGED <<reviews, candidate>>

PassFinal(r) ==
    /\ finalPassed
    /\ Goes(r, {"producing"}, "closing")
    /\ UNCHANGED <<produced, reviews, candidate>>

Declare(r) ==
    Goes(r, {"closing"}, "idle") /\ candidate' = TRUE /\ UNCHANGED <<produced, reviews>>

\* A run ends, or dies while it receives a review.
Stop(r) ==
    /\ Goes(r, Phases, "idle")
    /\ scriptPassed' \in BOOLEAN /\ finalPassed' \in BOOLEAN
    /\ UNCHANGED <<produced, candidate>>

\* A review arrives or is removed, or the script is changed under it.
Review ==
    /\ scriptPassed' \in BOOLEAN /\ finalPassed' \in BOOLEAN
    /\ UNCHANGED <<phase, produced, candidate>>

\* The declaration is lost: a run that is blocked or starts over withdraws it, a
\* run that dies while it writes the manifest or an operator destroys it.
Withdraw ==
    /\ candidate' = FALSE
    /\ \/ UNCHANGED phase
       \/ \E r \in Runs : Goes(r, Phases, "idle") \/ Goes(r, {"drafting"}, "drafting")
    /\ UNCHANGED <<produced, reviews>>

Remove ==
    /\ \E f \in DOMAIN produced :
         produced' = [g \in DOMAIN produced \ {f} |-> produced[g]]
    /\ UNCHANGED <<phase, reviews, candidate>>

Next ==
    \/ \E r \in Runs : \/ Start(r) \/ PassScript(r) \/ Produce(r)
                       \/ PassFinal(r) \/ Declare(r) \/ Stop(r)
    \/ Review
    \/ Withdraw
    \/ Remove

Spec == Init /\ [][Next]_vars
=============================================================================
