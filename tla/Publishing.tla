------------------------------ MODULE Publishing ------------------------------
(***************************************************************************)
(* The sandbox adapter behind the publishing interface keeps one draft per *)
(* episode. Callers share it; its lock covers the save of a draft, not the *)
(* checks before it.                                                       *)
(***************************************************************************)
EXTENDS PublishPack

CONSTANTS Callers,   \* processes that use one sandbox adapter
          EpisodeIds,\* episodes they publish
          Times,     \* publish times; "" among them means none
          MaxCalls   \* bound on the calls per caller

\* NoDraft is told from every call, draft and answer.
ASSUME PublishAssumption ==
    /\ NoDraft \notin [episode : EpisodeIds, visibility : {Private, Scheduled}]
    /\ NoDraft \notin [visibility : {Private, Scheduled}, by : Callers, call : 0..MaxCalls]
    /\ MaxCalls \in Nat

\* SandboxAdapter.ValidateMetadata.
SandboxValidates(pack) ==
    /\ pack.titled
    /\ pack.visibility \in {"", Private, Scheduled}
    /\ pack.visibility = Scheduled => pack.approved

\* What the sandbox answers: the visibility, or NoDraft for an error.
SandboxUpload(pack) ==
    LET p == IF pack.visibility = "" THEN [pack EXCEPT !.visibility = Private] ELSE pack
    IN IF p.visibility = Private /\ SandboxValidates(p) THEN Private ELSE NoDraft

\* A bug: leaves the approval to the caller.
SandboxScheduleUnsigned(pack) ==
    IF pack.visibility = Scheduled THEN Scheduled ELSE NoDraft

SandboxSchedule(pack) ==
    IF pack.visibility = Scheduled /\ pack.approved /\ SandboxValidates(pack)
    THEN Scheduled ELSE NoDraft

-----------------------------------------------------------------------------
VARIABLES drafts,   \* the sandbox's drafts: [visibility, by, call]
          calling,  \* per caller: the call that is checked and not yet saved
          answered, \* per caller: the answer to its last call
          signed,   \* episodes whose release a human approved
          calls     \* calls made so far, per caller

publishVars == <<drafts, calling, answered, signed, calls>>

PublishInit ==
    /\ drafts = [e \in EpisodeIds |-> NoDraft]
    /\ calling = [c \in Callers |-> NoDraft] /\ answered = calling
    /\ signed = {} /\ calls = [c \in Callers |-> 0]

\* A human approves a release; the callers learn of it.
SignRelease ==
    \E e \in EpisodeIds \ signed :
        signed' = signed \cup {e} /\ UNCHANGED <<drafts, calling, answered, calls>>

\* A caller builds a pack and gets past the adapter's checks, which need no lock,
\* or is refused at once. A pack may lack an approval that was given, never have
\* one that was not.
BeginCall ==
    \E c \in Callers, e \in EpisodeIds, titled \in BOOLEAN, v \in Visibilities,
       approved \in BOOLEAN, schedule \in BOOLEAN :
        LET pack == [episode |-> e, titled |-> titled, visibility |-> v, approved |-> approved]
            verdict == IF schedule THEN SandboxSchedule(pack) ELSE SandboxUpload(pack)
        IN /\ calling[c] = NoDraft /\ calls[c] < MaxCalls
           /\ approved => e \in signed
           /\ calls' = [calls EXCEPT ![c] = @ + 1]
           /\ IF verdict = NoDraft
              THEN answered' = [answered EXCEPT ![c] = NoDraft] /\ UNCHANGED calling
              ELSE /\ calling' = [calling EXCEPT ![c] = [episode |-> e, visibility |-> verdict]]
                   /\ UNCHANGED answered
           /\ UNCHANGED <<drafts, signed>>

\* A bug: a call that finds a draft leaves it.
SaveFirst(c) ==
    /\ calling[c] # NoDraft
    /\ LET e == calling[c].episode IN
       drafts' = [drafts EXCEPT ![e] =
           IF @ # NoDraft THEN @
           ELSE [visibility |-> calling[c].visibility, by |-> c, call |-> calls[c]]]
    /\ answered' = [answered EXCEPT ![c] = calling[c]]
    /\ calling' = [calling EXCEPT ![c] = NoDraft]
    /\ UNCHANGED <<signed, calls>>

\* saveDraft under the lock: the draft of the episode is replaced whatever it was.
SaveDraft(c) ==
    /\ calling[c] # NoDraft
    /\ LET e == calling[c].episode IN
       drafts' = [drafts EXCEPT ![e] = [visibility |-> calling[c].visibility, by |-> c,
                                        call |-> calls[c]]]
    /\ answered' = [answered EXCEPT ![c] = calling[c]]
    /\ calling' = [calling EXCEPT ![c] = NoDraft]
    /\ UNCHANGED <<signed, calls>>

PublishNext == SignRelease \/ BeginCall \/ \E c \in Callers : SaveDraft(c)

PublishSpec == PublishInit /\ [][PublishNext]_publishVars
-----------------------------------------------------------------------------
(* Properties.                                                             *)

\* Whatever the callers ask for and however their calls interleave, no draft is
\* public and none is scheduled for an episode whose release nobody approved.
ScheduledSigned ==
    \A e \in EpisodeIds : drafts[e] # NoDraft =>
        /\ drafts[e].visibility \in {Private, Scheduled}
        /\ drafts[e].visibility = Scheduled => e \in signed

\* A caller that was answered reads its own draft as long as nobody else published
\* the episode: what is stored is its last successful call or somebody else's. A
\* private upload after a schedule takes the schedule back.
AnsweredStored ==
    \A c \in Callers : answered[c] # NoDraft =>
        LET d == drafts[answered[c].episode] IN
        /\ d # NoDraft
        /\ d.by = c => d.visibility = answered[c].visibility

Productions == [qa : {"approved", "request_revision"}, complete : BOOLEAN]

\* What a caller may ask for now.
Requested ==
    {pack \in [episode : EpisodeIds, titled : BOOLEAN, visibility : Visibilities,
               approved : BOOLEAN] :
        pack.approved => pack.episode \in signed}

\* What the sandbox accepts the dry-run adapter accepts with the same visibility, so a
\* dry run never refuses what would go through. It lets more pass: packs without a
\* title, which only the sandbox refuses, and uploads of packs scheduled with approval.
\* What the dry run alone would schedule is of an episode that a human signed as well.
DryRunPredicts ==
    \A pack \in Requested :
        /\ SandboxUpload(pack) # NoDraft => DryRunUpload(pack) = SandboxUpload(pack)
        /\ SandboxSchedule(pack) # NoDraft => DryRunSchedule(pack) = SandboxSchedule(pack)
        /\ DryRunUpload(pack) # SandboxUpload(pack) =>
               ~pack.titled \/ (pack.visibility = Scheduled /\ pack.approved)
        /\ DryRunSchedule(pack) # SandboxSchedule(pack) =>
               ~pack.titled /\ pack.episode \in signed

\* A release manifest that the artifact validator accepts is one of an episode that a
\* human signed, or of a private draft. The generator lets more pass than the validator,
\* but only scheduled packs, and those no adapter schedules or have no time. The
\* adapters schedule the same generated packs: the generator asks for the title.
PackedManifests ==
    \A asked \in Requested :
        LET pack == GeneratePack(asked.episode, asked.titled, asked.visibility, asked.approved)
        IN pack # NoDraft =>
            /\ DryRunSchedule(pack) = SandboxSchedule(pack)
            /\ \A production \in Productions, time \in Times :
                 LET manifest == GenerateReleasePack(production, pack, time) IN
                 manifest # NoDraft =>
                     IF ManifestValid(manifest)
                     THEN manifest.visibility # Private => asked.episode \in signed
                     ELSE /\ manifest.visibility = Scheduled
                          /\ SandboxSchedule(pack) = NoDraft \/ time = ""

\* Where the generator, the manifest's validator and the two adapters differ in what
\* they accept of one release, it is as named above, and never the platform's side
\* that is the more lenient one.
AdaptersAgree == DryRunPredicts /\ PackedManifests
=============================================================================
