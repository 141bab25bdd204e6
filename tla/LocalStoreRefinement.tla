----------------------- MODULE LocalStoreRefinement -----------------------
(***************************************************************************)
(* With one client at a time, LocalStore implements ImmutableStore. While  *)
(* artifacts.json is being rewritten its bindings are the ones that its    *)
(* writer read; they are lost when it is unreadable and nobody writes it.  *)
(***************************************************************************)
EXTENDS LocalStore

Rewriting(e) == {c \in Clients : pc[c] = "fillIndex" /\ call[c].ref.episode = e}

Bound(e) ==
    IF Rewriting(e) # {} THEN call[CHOOSE c \in Rewriting(e) : TRUE].index
    ELSE IF Whole(IndexOf(e)) THEN disk[IndexOf(e)]
    ELSE NoRefs

Lost == {e \in Episodes : Rewriting(e) = {} /\ ReadIndex(e) = {}}

Store == INSTANCE ImmutableStore WITH
             bound <- [e \in Episodes |-> Bound(e)],
             lost <- Lost

\* Every step of the files is a step of the store without files: with deaths and
\* failed writes anywhere, a put binds its name in one step or not at all
\* (PutArtifact, readIndex, writeIndex).
ImplementsStore == Store!Spec
=============================================================================
