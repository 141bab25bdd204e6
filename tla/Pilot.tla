------------------------------- MODULE Pilot -------------------------------
(***************************************************************************)
(* The L1 pilot pipeline (internal/shortform/pilot): a resumable command   *)
(* line pipeline whose only state is the files of one episode directory.   *)
(*                                                                         *)
(* Every command of the CLI is a process in Runs; the variable ws is the   *)
(* episode directory, a function from the names of the files that exist to *)
(* their contents. A text is the script version it carries, and a SHA-256  *)
(* is the content it was computed from: two hashes are equal exactly when  *)
(* the contents are. A file left half written by a process that died       *)
(* contains Torn: it exists, a JSON decoder rejects it, and it still has a *)
(* hash. audit.log is only ever appended to and is left out.               *)
(***************************************************************************)
EXTENDS Naturals

CONSTANTS
    Runs,          \* processes that execute pilot commands
    Scripts,       \* the versions script.md may have
    Draft,         \* the version buildScript derives from the prompt
    Takes,         \* the contents the visual provider may render
    Torn,          \* the content of a file whose write was cut short
    NoInput,       \* a run holds no input read earlier
    ReviewMode,    \* --claude-review: "manual" or "api"
    SubtitleMode,  \* --subtitle-provider: "script-timing" or "faster-whisper"
    Verdicts,      \* verdicts a script review may reach (TRUE is a pass)
    Outcomes,      \* outcomes a final review may have, see FinalOutcomes
    Recordings,    \* voice recordings the operator may import
    Edits,         \* versions the operator may save over script.md
    Deletable,     \* files the operator may delete
    Interleave,    \* whether the operator edits while a command is running
    FaultPoints,   \* labels at which a run may die, time out or be refused
    TornWrites,    \* whether a run that dies may leave its file half written
    MaxFaults      \* bound on the number of such faults

AudioFiles == {"wav", "mp3"}

\* What finalReviewPassed tells apart.
FinalOutcomes == {"pass", "fail", "override", "blankOverride"}

\* "generated" is what GenerateReal writes; the others are updateEpisodeStatus.
Statuses == {"generated", "needs_review", "release_blocked", "release_candidate"}

Files == {"episode", "topic", "research", "script", "scriptMan", "scriptReq",
          "scriptResp", "shotReqs", "shots", "visualMan", "wav", "mp3",
          "voiceMan", "captions", "subMan", "rc", "renderMan", "finalReq",
          "finalResp", "prodQA", "publish"}

\* The files deriveStage looks for, one per stage.
StageFiles == {"scriptMan", "scriptResp", "shotReqs", "visualMan", "voiceMan",
               "subMan", "renderMan", "finalResp", "prodQA", "publish"}

Texts == Scripts \cup {Torn}
Clips == Takes \cup {Torn}
Renders == [shots: Clips, voice: Texts, captions: Texts]

ContentOf(f) ==
    CASE f = "episode" -> Statuses
      [] f \in {"topic", "research", "prodQA", "publish"} -> {"written"}
      [] f \in {"script", "scriptReq", "finalReq", "captions"} \cup AudioFiles -> Texts
      [] f \in {"scriptMan", "subMan"} -> [hash: Texts]
      [] f = "scriptResp" -> [pass: BOOLEAN, hash: Texts, text: Texts]
      [] f = "shotReqs" -> [src: Texts]
      [] f = "shots" -> Takes
      [] f = "visualMan" -> [src: Texts, hash: Clips]
      [] f = "voiceMan" -> [path: AudioFiles, hash: Texts]
      [] f = "rc" -> Renders
      [] f = "renderMan" -> [hash: Renders]
      [] f = "finalResp" -> FinalOutcomes

\* Where a run stands. A label that names a file means the run has decided to
\* write that file (or is waiting for the external command that writes it).
Checks == {"resume", "ensureScript", "ensureScriptReq", "ensureScriptResp",
           "scriptGate", "ensureShotReqs", "ensureVisuals", "ensureVoice",
           "ensureSubs", "ensureRender", "ensureFinalReq", "ensureFinalResp",
           "finalGate", "ensureProdQA", "ensurePublish"}
Imports == {"importScript", "importFinal", "importShots", "importVoice", "importVoiceMan"}
Labels == {"idle"} \cup Checks \cup Imports \cup Files

ASSUME PilotAssumption ==
    /\ Draft \in Scripts
    /\ Torn \notin Scripts \cup Takes \cup Statuses
    /\ ReviewMode \in {"manual", "api"}
    /\ SubtitleMode \in {"script-timing", "faster-whisper"}
    /\ Verdicts \subseteq BOOLEAN
    /\ Outcomes \subseteq FinalOutcomes
    /\ Recordings \subseteq [path: AudioFiles, hash: Scripts]
    /\ Edits \subseteq Scripts
    /\ Deletable \subseteq Files
    /\ FaultPoints \subseteq Labels
    /\ {Interleave, TornWrites} \subseteq BOOLEAN
    /\ MaxFaults \in Nat

\* Half a file is none of the contents of a file that is more than a text.
ASSUME TornAssumption ==
    \A f \in Files \ ({"script", "scriptReq", "finalReq", "captions"} \cup AudioFiles) :
        Torn \notin ContentOf(f)

VARIABLES
    ws,      \* the episode directory: existing file -> content
    pc,      \* pc[r]: where run r stands
    got,     \* got[r]: what run r read before an external call, or will write
    faults   \* how many faults have happened

vars == <<ws, pc, got, faults>>

Init ==
    /\ ws = [f \in {} |-> Torn]
    /\ pc = [r \in Runs |-> "idle"]
    /\ got = [r \in Runs |-> NoInput]
    /\ faults = 0
-----------------------------------------------------------------------------
(***************************************************************************)
(* Reading and writing the episode directory.                              *)
(***************************************************************************)
Present(f) == f \in DOMAIN ws
Parsed(f) == Present(f) /\ ws[f] # Torn
With(f, c) == [g \in DOMAIN ws \cup {f} |-> IF g = f THEN c ELSE ws[g]]

\* Run r goes from one label to another holding the input i, writing nothing.
Move(r, to, i) ==
    /\ pc' = [pc EXCEPT ![r] = to]
    /\ got' = [got EXCEPT ![r] = i]
    /\ UNCHANGED <<ws, faults>>

Abort(r) == Move(r, "idle", NoInput)

\* Run r writes content c to file f and goes on holding the input i.
Store(r, f, c, to, i) ==
    /\ ws' = With(f, c)
    /\ pc' = [pc EXCEPT ![r] = to]
    /\ got' = [got EXCEPT ![r] = i]
    /\ UNCHANGED faults

\* A bug: the gate does not compare the approved hash with script.md.
ScriptReviewUnbound ==
    Parsed("scriptResp") /\ Present("script") /\ ws["scriptResp"].pass

\* scriptReviewPassed: the response passes and approves the script on disk.
ScriptReviewPassed ==
    /\ Parsed("scriptResp") /\ Present("script")
    /\ ws["scriptResp"].pass
    /\ ws["scriptResp"].hash = ws["script"]

\* finalReviewPassed: a pass, or an operator override that gives its reason.
FinalReviewPassed ==
    Parsed("finalResp") /\ ws["finalResp"] \in {"pass", "override"}

-----------------------------------------------------------------------------
(***************************************************************************)
(* GenerateReal: a new workspace, or the resumption of an existing one.    *)
(***************************************************************************)
StartGenerate(r) ==
    /\ pc[r] = "idle"
    /\ IF Present("episode") THEN Move(r, "resume", NoInput)
                             ELSE Move(r, "episode", "generated")

StartResume(r) == pc[r] = "idle" /\ Present("episode") /\ Move(r, "resume", NoInput)

WriteEpisode(r) ==
    /\ pc[r] = "episode" /\ got[r] = "generated"
    /\ Store(r, "episode", "generated", "topic", NoInput)

WriteTopic(r) ==
    pc[r] = "topic" /\ Store(r, "topic", "written", "research", NoInput)

WriteResearch(r) ==
    pc[r] = "research" /\ Store(r, "research", "written", "resume", NoInput)

\* updateEpisodeStatus re-reads the manifest and rewrites it.
UpdateStatus(r) ==
    /\ pc[r] = "episode" /\ got[r] # "generated"
    /\ IF Parsed("episode") THEN Store(r, "episode", got[r], "idle", NoInput)
                            ELSE Abort(r)
-----------------------------------------------------------------------------
(***************************************************************************)
(* Resume, one action per step. A stage is skipped when the file it is     *)
(* named for exists, whatever that file contains.                          *)
(***************************************************************************)
Resume(r) ==
    /\ pc[r] = "resume"
    /\ IF Parsed("episode") THEN Move(r, "ensureScript", NoInput) ELSE Abort(r)

\* The common shape of a stage: skip it, fail for want of an input, or start.
Ensure(r, at, file, ready, start, input, next) ==
    /\ pc[r] = at
    /\ IF Present(file) THEN Move(r, next, NoInput)
       ELSE IF ready THEN Move(r, start, input)
       ELSE Abort(r)

\* One of script.md and script_manifest.json without the other is refused.
EnsureScript(r) ==
    Ensure(r, "ensureScript", "scriptMan", ~Present("script"), "script", NoInput,
           IF Present("script") THEN "ensureScriptReq" ELSE "idle")

WriteScript(r) ==
    pc[r] = "script" /\ Store(r, "script", Draft, "scriptMan", NoInput)

WriteScriptMan(r) ==
    /\ pc[r] = "scriptMan"
    /\ IF Present("script")
       THEN Store(r, "scriptMan", [hash |-> ws["script"]], "ensureScriptReq", NoInput)
       ELSE Abort(r)

\* A bug: the request is written without the script.
EnsureScriptReqEmpty(r) ==
    Ensure(r, "ensureScriptReq", "scriptReq", Present("script"), "scriptReq", NoInput,
           "ensureScriptResp")

\* The request embeds the script as it is now and is never written again.
EnsureScriptReq(r) ==
    Ensure(r, "ensureScriptReq", "scriptReq", Present("script"), "scriptReq",
           IF Present("script") THEN ws["script"] ELSE NoInput, "ensureScriptResp")

WriteScriptReq(r) ==
    pc[r] = "scriptReq" /\ Store(r, "scriptReq", got[r], "ensureScriptResp", NoInput)

\* A bug: a review that was received before is not put to the gate again.
EnsureScriptRespTrusted(r) ==
    Ensure(r, "ensureScriptResp", "scriptResp", Present("scriptReq"), "scriptResp",
           IF Present("scriptReq") THEN ws["scriptReq"] ELSE NoInput, "ensureShotReqs")

EnsureScriptResp(r) ==
    IF ReviewMode = "manual"
    THEN pc[r] = "ensureScriptResp" /\ Move(r, "scriptGate", NoInput)
    ELSE Ensure(r, "ensureScriptResp", "scriptResp", Present("scriptReq"), "scriptResp",
                IF Present("scriptReq") THEN ws["scriptReq"] ELSE NoInput, "scriptGate")

\* The API reviews the request that was sent (text); the approval is bound to
\* script.md as it is when the answer arrives (hash).
ReceiveScriptReview(r) ==
    /\ pc[r] = "scriptResp"
    /\ IF Present("script")
       THEN \E v \in Verdicts :
              Store(r, "scriptResp", [pass |-> v, hash |-> ws["script"], text |-> got[r]],
                    "scriptGate", NoInput)
       ELSE Abort(r)

\* A bug: a missing response does not block.
ScriptGateIfReviewed(r) ==
    /\ pc[r] = "scriptGate"
    /\ IF ScriptReviewPassed \/ ~Present("scriptResp")
       THEN Move(r, "ensureShotReqs", NoInput)
       ELSE IF Parsed("scriptResp") /\ ~ws["scriptResp"].pass
            THEN Move(r, "episode", "needs_review")
            ELSE Abort(r)

\* An unparsable response, or a passing one with no script.md, is an error;
\* any other failure blocks the episode.
ScriptGate(r) ==
    /\ pc[r] = "scriptGate"
    /\ IF ScriptReviewPassed THEN Move(r, "ensureShotReqs", NoInput)
       ELSE IF Present("scriptResp") /\ ( \/ ~Parsed("scriptResp")
                                          \/ ws["scriptResp"].pass /\ ~Present("script") )
            THEN Abort(r)
            ELSE Move(r, "episode", "needs_review")

EnsureShotReqs(r) ==
    Ensure(r, "ensureShotReqs", "shotReqs", Present("script"), "shotReqs",
           IF Present("script") THEN ws["script"] ELSE NoInput, "ensureVisuals")

WriteShotReqs(r) ==
    pc[r] = "shotReqs" /\ Store(r, "shotReqs", [src |-> got[r]], "ensureVisuals", NoInput)

EnsureVisuals(r) ==
    Ensure(r, "ensureVisuals", "visualMan", Parsed("shotReqs"), "shots",
           IF Parsed("shotReqs") THEN ws["shotReqs"].src ELSE NoInput, "ensureVoice")

\* The visual command writes the shots, over imported ones too.
RunVisualProvider(r) ==
    /\ pc[r] = "shots"
    /\ \E t \in Takes : Store(r, "shots", t, "visualMan", got[r])

WriteVisualMan(r) ==
    /\ pc[r] = "visualMan"
    /\ IF Present("shots")
       THEN Store(r, "visualMan", [src |-> got[r], hash |-> ws["shots"]], "ensureVoice", NoInput)
       ELSE Abort(r)

\* A bug: audio left by a failed attempt is refused, as a leftover render is.
EnsureVoiceRefusing(r) ==
    Ensure(r, "ensureVoice", "voiceMan", Present("script") /\ ~Present("wav"), "wav",
           IF Present("script") THEN ws["script"] ELSE NoInput, "ensureSubs")

\* A bug: the stage looks for the provider's own file, not for the manifest.
EnsureVoiceOwn(r) ==
    Ensure(r, "ensureVoice", "wav", Present("script"), "wav",
           IF Present("script") THEN ws["script"] ELSE NoInput, "ensureSubs")

\* The voice command speaks the text that was read before it started.
EnsureVoice(r) ==
    Ensure(r, "ensureVoice", "voiceMan", Present("script"), "wav",
           IF Present("script") THEN ws["script"] ELSE NoInput, "ensureSubs")

RunVoiceProvider(r) ==
    pc[r] = "wav" /\ Store(r, "wav", got[r], "voiceMan", NoInput)

WriteVoiceMan(r) ==
    /\ pc[r] = "voiceMan"
    /\ IF Present("wav")
       THEN Store(r, "voiceMan", [path |-> "wav", hash |-> ws["wav"]], "ensureSubs", NoInput)
       ELSE Abort(r)

\* The audio file the voice-over manifest names, when both exist.
VoiceReady == Parsed("voiceMan") /\ Present(ws["voiceMan"].path)
VoiceTrack == ws[ws["voiceMan"].path]

EnsureSubs(r) ==
    IF SubtitleMode = "script-timing"
    THEN Ensure(r, "ensureSubs", "subMan", Present("script"), "captions",
                IF Present("script") THEN ws["script"] ELSE NoInput, "ensureRender")
    ELSE Ensure(r, "ensureSubs", "subMan", VoiceReady, "captions",
                IF VoiceReady THEN VoiceTrack ELSE NoInput, "ensureRender")

WriteCaptions(r) ==
    pc[r] = "captions" /\ Store(r, "captions", got[r], "subMan", NoInput)

WriteSubMan(r) ==
    /\ pc[r] = "subMan"
    /\ IF Parsed("captions")
       THEN Store(r, "subMan", [hash |-> ws["captions"]], "ensureRender", NoInput)
       ELSE Abort(r)

\* A render without its manifest is refused; a manifest without its render
\* is rendered again. The inputs are opened, their hashes are not checked.
RenderReady ==
    /\ Parsed("visualMan") /\ Parsed("subMan")
    /\ VoiceReady /\ Present("shots") /\ Present("captions")

EnsureRender(r) ==
    /\ pc[r] = "ensureRender"
    /\ IF Present("rc")
       THEN IF Present("renderMan") THEN Move(r, "ensureFinalReq", NoInput) ELSE Abort(r)
       ELSE IF RenderReady
            THEN Move(r, "rc", [shots |-> ws["shots"], voice |-> VoiceTrack,
                                captions |-> ws["captions"]])
            ELSE Abort(r)

RunFFmpeg(r) ==
    pc[r] = "rc" /\ Store(r, "rc", got[r], "renderMan", NoInput)

\* ffprobe rejects a render that is not whole.
WriteRenderMan(r) ==
    /\ pc[r] = "renderMan"
    /\ IF Parsed("rc")
       THEN Store(r, "renderMan", [hash |-> ws["rc"]], "ensureFinalReq", NoInput)
       ELSE Abort(r)

EnsureFinalReq(r) ==
    Ensure(r, "ensureFinalReq", "finalReq", Present("script"), "finalReq",
           IF Present("script") THEN ws["script"] ELSE NoInput, "ensureFinalResp")

WriteFinalReq(r) ==
    pc[r] = "finalReq" /\ Store(r, "finalReq", got[r], "ensureFinalResp", NoInput)

EnsureFinalResp(r) ==
    IF ReviewMode = "manual"
    THEN pc[r] = "ensureFinalResp" /\ Move(r, "finalGate", NoInput)
    ELSE Ensure(r, "ensureFinalResp", "finalResp", Present("finalReq"), "finalResp",
                NoInput, "finalGate")

ReceiveFinalReview(r) ==
    /\ pc[r] = "finalResp"
    /\ \E o \in Outcomes : Store(r, "finalResp", o, "finalGate", NoInput)

\* A bug: a missing final review does not block.
FinalGateIfReviewed(r) ==
    /\ pc[r] = "finalGate"
    /\ IF FinalReviewPassed \/ ~Present("finalResp") THEN Move(r, "ensureProdQA", NoInput)
       ELSE IF ~Parsed("finalResp") THEN Abort(r)
       ELSE Move(r, "episode", "release_blocked")

FinalGate(r) ==
    /\ pc[r] = "finalGate"
    /\ IF FinalReviewPassed THEN Move(r, "ensureProdQA", NoInput)
       ELSE IF Present("finalResp") /\ ~Parsed("finalResp") THEN Abort(r)
       ELSE Move(r, "episode", "release_blocked")

\* The report reads the render manifest, whose audio and caption flags
\* ensureRender always sets: its decision is "approved".
EnsureProdQA(r) ==
    Ensure(r, "ensureProdQA", "prodQA", Parsed("renderMan"), "prodQA", NoInput,
           "ensurePublish")

WriteProdQA(r) ==
    pc[r] = "prodQA" /\ Store(r, "prodQA", "written", "ensurePublish", NoInput)

\* A bug: the status is updated before the publish manifest is written.
EnsurePublishLater(r) ==
    pc[r] = "ensurePublish" /\ Move(r, "episode", "release_candidate")

EnsurePublish(r) ==
    /\ pc[r] = "ensurePublish"
    /\ IF Present("publish") THEN Move(r, "episode", "release_candidate")
                             ELSE Move(r, "publish", NoInput)

WritePublish(r) ==
    pc[r] = "publish" /\ Store(r, "publish", "written", "episode", "release_candidate")
-----------------------------------------------------------------------------
(***************************************************************************)
(* The import commands. A command refused before it writes is no step. A   *)
(* review is written first and judged afterwards, so a rejected one stays. *)
(***************************************************************************)
StartImportScriptReview(r) ==
    /\ pc[r] = "idle" /\ Parsed("episode")
    /\ \E v \in Verdicts, s \in Scripts :
         Move(r, "importScript", [pass |-> v, hash |-> s, text |-> s])

StartImportFinalReview(r) ==
    /\ pc[r] = "idle" /\ Parsed("episode")
    /\ \E o \in Outcomes : Move(r, "importFinal", o)

WriteImportedReview(r) ==
    \/ pc[r] = "importScript" /\ Store(r, "scriptResp", got[r], "idle", NoInput)
    \/ pc[r] = "importFinal" /\ Store(r, "finalResp", got[r], "idle", NoInput)

StartImportVisualShot(r) ==
    /\ pc[r] = "idle" /\ Parsed("episode") /\ Parsed("shotReqs") /\ ~Present("shots")
    /\ \E t \in Takes : Move(r, "importShots", t)

CopyVisualShot(r) == pc[r] = "importShots" /\ Store(r, "shots", got[r], "idle", NoInput)

\* A bug: an existing audio file is not in the way.
StartImportVoiceOver(r) ==
    /\ pc[r] = "idle" /\ Parsed("episode")
    /\ \E v \in Recordings : Move(r, "importVoice", v)

\* ImportVoice copies the recording, hashes the copy and writes the manifest;
\* only a file of the same extension is in its way.
StartImportVoice(r) ==
    /\ pc[r] = "idle" /\ Parsed("episode")
    /\ \E v \in Recordings : ~Present(v.path) /\ Move(r, "importVoice", v)

CopyRecording(r) ==
    /\ pc[r] = "importVoice"
    /\ Store(r, got[r].path, got[r].hash, "importVoiceMan", got[r])

WriteImportedVoiceMan(r) ==
    /\ pc[r] = "importVoiceMan"
    /\ IF Present(got[r].path)
       THEN Store(r, "voiceMan", [path |-> got[r].path, hash |-> ws[got[r].path]],
                  "idle", NoInput)
       ELSE Abort(r)
-----------------------------------------------------------------------------
(***************************************************************************)
(* The operator's own hands on the directory, and faults.                  *)
(***************************************************************************)
OperatorMayAct == Interleave \/ \A r \in Runs : pc[r] = "idle"

EditScript ==
    /\ OperatorMayAct /\ Present("script")
    /\ \E s \in Edits : ws' = With("script", s)
    /\ UNCHANGED <<pc, got, faults>>

DeleteFile ==
    /\ OperatorMayAct
    /\ \E f \in Deletable \cap DOMAIN ws :
         ws' = [g \in DOMAIN ws \ {f} |-> ws[g]]
    /\ UNCHANGED <<pc, got, faults>>

\* The file run r is about to write, as a set.
Target(r) ==
    CASE pc[r] = "importScript" -> {"scriptResp"}
      [] pc[r] = "importFinal" -> {"finalResp"}
      [] pc[r] = "importShots" -> {"shots"}
      [] pc[r] = "importVoice" -> {got[r].path}
      [] pc[r] = "importVoiceMan" -> {"voiceMan"}
      [] pc[r] \in Files -> {pc[r]}
      [] OTHER -> {}

\* A command dies, is killed on a timeout or gets an error from a provider.
Fault(r) ==
    /\ pc[r] # "idle" /\ pc[r] \in FaultPoints /\ faults < MaxFaults
    /\ faults' = faults + 1
    /\ pc' = [pc EXCEPT ![r] = "idle"]
    /\ got' = [got EXCEPT ![r] = NoInput]
    /\ \/ UNCHANGED ws
       \/ TornWrites /\ \E f \in Target(r) : ws' = With(f, Torn)

\* A step of generate-real or resume.
PipelineStep(r) ==
    \/ WriteEpisode(r) \/ WriteTopic(r) \/ WriteResearch(r) \/ UpdateStatus(r)
    \/ Resume(r)
    \/ EnsureScript(r) \/ WriteScript(r) \/ WriteScriptMan(r)
    \/ EnsureScriptReq(r) \/ WriteScriptReq(r)
    \/ EnsureScriptResp(r) \/ ReceiveScriptReview(r) \/ ScriptGate(r)
    \/ EnsureShotReqs(r) \/ WriteShotReqs(r)
    \/ EnsureVisuals(r) \/ RunVisualProvider(r) \/ WriteVisualMan(r)
    \/ EnsureVoice(r) \/ RunVoiceProvider(r) \/ WriteVoiceMan(r)
    \/ EnsureSubs(r) \/ WriteCaptions(r) \/ WriteSubMan(r)
    \/ EnsureRender(r) \/ RunFFmpeg(r) \/ WriteRenderMan(r)
    \/ EnsureFinalReq(r) \/ WriteFinalReq(r)
    \/ EnsureFinalResp(r) \/ ReceiveFinalReview(r) \/ FinalGate(r)
    \/ EnsureProdQA(r) \/ WriteProdQA(r) \/ EnsurePublish(r) \/ WritePublish(r)

StartImport(r) ==
    \/ StartImportScriptReview(r) \/ StartImportFinalReview(r)
    \/ StartImportVisualShot(r) \/ StartImportVoice(r)

ImportStep(r) ==
    \/ WriteImportedReview(r) \/ CopyVisualShot(r)
    \/ CopyRecording(r) \/ WriteImportedVoiceMan(r)

Next ==
    \/ \E r \in Runs : \/ StartGenerate(r) \/ StartResume(r) \/ StartImport(r)
                       \/ PipelineStep(r) \/ ImportStep(r) \/ Fault(r)
    \/ EditScript
    \/ DeleteFile

Spec == Init /\ [][Next]_vars

\* An operator who follows the advice the CLI prints: every command that was
\* started is carried on, the episode is resumed again and again, and each
\* review is eventually imported. Edits, deletions and faults are never owed.
OperatorFairness ==
    \A r \in Runs :
      /\ WF_vars(PipelineStep(r) \/ ImportStep(r))
      /\ SF_vars(StartGenerate(r)) /\ SF_vars(StartResume(r))
      /\ SF_vars(StartImportScriptReview(r)) /\ SF_vars(StartImportFinalReview(r))

FairSpec == Spec /\ OperatorFairness
-----------------------------------------------------------------------------
(***************************************************************************)
(* What the status and validate commands report.                           *)
(***************************************************************************)
Candidate == Present("episode") /\ ws["episode"] = "release_candidate"

\* deriveStage found every stage's file and the manifest says so too.
Ready == Candidate /\ StageFiles \subseteq DOMAIN ws

\* The file f exists and its hash is h.
Matches(f, h) == Present(f) /\ ws[f] = h

ScriptMatches == Parsed("scriptMan") /\ Matches("script", ws["scriptMan"].hash)
VisualMatches == Parsed("visualMan") /\ Matches("shots", ws["visualMan"].hash)
VoiceMatches == Parsed("voiceMan") /\ Matches(ws["voiceMan"].path, ws["voiceMan"].hash)
SubsMatch == Parsed("subMan") /\ Matches("captions", ws["subMan"].hash)
RenderMatches == Parsed("renderMan") /\ Matches("rc", ws["renderMan"].hash)

Valid ==
    /\ Ready
    /\ ScriptMatches /\ ScriptReviewPassed
    /\ Parsed("shotReqs") /\ VisualMatches
    /\ VoiceMatches /\ SubsMatch /\ RenderMatches
    /\ FinalReviewPassed
    /\ Parsed("prodQA") /\ Parsed("publish")
-----------------------------------------------------------------------------
(***************************************************************************)
(* Properties.                                                             *)
(***************************************************************************)
\* Every file holds content of its kind, or was torn.
TypeOK ==
    /\ DOMAIN ws \subseteq Files
    /\ \A f \in DOMAIN ws : ws[f] \in ContentOf(f) \cup {Torn}
    /\ pc \in [Runs -> Labels]
    /\ DOMAIN got = Runs
    /\ faults \in 0 .. MaxFaults

\* The files without which no command writes f.
Prior(f) ==
    CASE f = "topic" -> {"episode"}
      [] f = "research" -> {"episode", "topic"}
      [] f = "scriptMan" -> {"episode", "script"}
      [] f = "scriptReq" -> {"episode", "scriptMan", "script"}
      [] f = "shotReqs" -> {"episode", "scriptReq", "scriptResp"}
      [] f = "visualMan" -> {"episode", "shotReqs", "shots"}
      [] f = "captions" -> {"visualMan", "voiceMan"}
      [] f = "subMan" -> {"visualMan", "voiceMan", "captions"}
      [] f = "rc" -> {"shots", "subMan"}
      [] f = "renderMan" -> {"rc", "subMan"}
      [] f = "finalReq" -> {"rc", "renderMan"}
      [] f = "prodQA" -> {"finalReq", "finalResp", "renderMan"}
      [] f = "publish" -> {"prodQA"}
      [] OTHER -> {"episode"} \ {f}

\* No stage runs ahead of the pipeline: a file that the operator cannot delete
\* is there whenever something that is made after it is. Holds with commands
\* interleaved in any way, crashes and torn writes (Resume).
PipelineOrder == \A f \in DOMAIN ws : Prior(f) \ Deletable \subseteq DOMAIN ws

\* An episode is marked release_candidate only when each stage has left its
\* file, so status reports it Ready unless the operator deletes one (Resume,
\* deriveStage).
CandidateComplete == Candidate => StageFiles \ Deletable \subseteq DOMAIN ws

\* A manifest that can be read describes the media next to it: with one command
\* at a time no sequence of retries, imports and torn writes leaves a manifest
\* whose hash is of an earlier or a later version of its file.
MediaBinding ==
    /\ Parsed("visualMan") => VisualMatches
    /\ Parsed("voiceMan") => VoiceMatches
    /\ Parsed("subMan") => SubsMatch
    /\ Parsed("renderMan") => RenderMatches

\* A script review passed, and what its reviewer read is script.md as it is.
ReviewedScript ==
    /\ Parsed("scriptResp") /\ Present("script")
    /\ ws["scriptResp"].pass /\ ws["scriptResp"].text = ws["script"]

\* The labels of a run that spends on providers.
Production == {"ensureShotReqs", "shotReqs", "ensureVisuals", "shots", "visualMan",
               "ensureVoice", "wav", "voiceMan", "ensureSubs", "captions", "subMan",
               "ensureRender", "rc", "renderMan"}

\* No provider is called for a script whose present text no reviewer passed
\* (ensureAPIScriptReview, scriptReviewPassed: "the review is bound to the
\* exact script.md on disk").
ProductionReviewed ==
    (\E r \in Runs : pc[r] \in Production) => ReviewedScript

\* What remains of it when reviews come from the API and the script is edited
\* between commands: providers are only called under a passing review whose hash
\* is of script.md as it is, after any number of retries (scriptReviewPassed).
ApprovedProduction ==
    (\E r \in Runs : pc[r] \in Production) => ScriptReviewPassed

\* An episode becomes a release candidate only while the script on disk is the
\* one a reviewer passed, the final review passes, and the manifests of the
\* shots, the captions and the render describe their files. (The voice-over's
\* may be torn by then: import-voice may replace it after the render.)
DeclaredOnReviews ==
    [][~Candidate /\ Candidate' => /\ ReviewedScript /\ FinalReviewPassed
                                   /\ VisualMatches /\ SubsMatch /\ RenderMatches]_vars

\* What is had from an external command or from the API, and the file whose
\* presence tells a resume that it is had.
Finisher == [scriptResp |-> "scriptResp", shots |-> "visualMan", wav |-> "voiceMan",
             captions |-> "subMan", rc |-> "renderMan", finalResp |-> "finalResp"]

\* A provider is only called for a stage that is not finished, and nothing that
\* the call may write over is in a render. Until the first fault nothing is
\* there to be written over at all, except the shots an operator imported: a
\* call that brought something is repeated, and paid for again, only when the
\* command was cut off before the manifest (runExternalJSON's timeout, the
\* fileExists test of each stage).
CallsNeeded ==
    \A r \in Runs : pc[r] \in DOMAIN Finisher =>
        /\ ~Present(Finisher[pc[r]])
        /\ pc[r] \notin {"scriptResp", "finalResp"} => ~Present("rc")
        /\ Present(pc[r]) => pc[r] = "shots" \/ faults > 0

\* Under a diligent operator, and faults that hit neither of the two windows a
\* retry refuses, every episode becomes and stays a valid release candidate.
EventuallyValid == <>[]Valid

\* The stage status derives is the render: it is the first whose file is missing.
AtRender == /\ "renderMan" \notin DOMAIN ws
            /\ {"scriptMan", "scriptResp", "shotReqs", "visualMan", "voiceMan",
                "subMan"} \subseteq DOMAIN ws

\* When status advises to resume for the render, resuming brings the render
\* manifest (deriveStage: "install/configure ffmpeg, then resume").
RenderAdviceWorks == AtRender ~> Present("renderMan")
=============================================================================
