--------------------------- MODULE ImmutableStore ---------------------------
(***************************************************************************)
(* What the artifact store promises, without files: a name of an episode   *)
(* is bound at most once, callers are told only bindings, and a binding    *)
(* stays until the episode's bindings are lost all together, after which   *)
(* nothing is bound or told for that episode again.                        *)
(***************************************************************************)
CONSTANTS Episodes, Names, Contents

VARIABLES
    bound,   \* bound[e]: a function from the bound names of e to contents
    lost,    \* the episodes whose bindings are lost
    told     \* the references callers were given

vars == <<bound, lost, told>>

Refs == [episode: Episodes, name: Names, hash: Contents]

Init ==
    /\ bound = [e \in Episodes |-> [n \in {} |-> {}]]
    /\ lost = {}
    /\ told = {}

\* A new name is bound. Its caller may die before it is told.
Bind(r) ==
    /\ r.episode \notin lost /\ r.name \notin DOMAIN bound[r.episode]
    /\ bound' = [bound EXCEPT ![r.episode] =
                   [n \in DOMAIN bound[r.episode] \cup {r.name} |->
                       IF n = r.name THEN r.hash ELSE bound[r.episode][n]]]
    /\ told' \in {told, told \cup {r}}
    /\ UNCHANGED lost

\* The binding of a name is told again.
Tell(r) ==
    /\ r.episode \notin lost /\ r.name \in DOMAIN bound[r.episode]
    /\ bound[r.episode][r.name] = r.hash
    /\ told' = told \cup {r}
    /\ UNCHANGED <<bound, lost>>

Lose(e) ==
    /\ lost' = lost \cup {e}
    /\ bound' = [bound EXCEPT ![e] = [n \in {} |-> {}]]
    /\ UNCHANGED told

Next ==
    \/ \E r \in Refs : Bind(r) \/ Tell(r)
    \/ \E e \in Episodes : Lose(e)

Spec == Init /\ [][Next]_vars
=============================================================================
