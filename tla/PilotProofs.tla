---------------------------- MODULE PilotProofs ----------------------------
(***************************************************************************)
(* Theorems about the pilot pipeline: its types and the order of its       *)
(* stages for any number of commands at a time, any scripts, edits,        *)
(* deletions and faults; then what one command at a time may rely on.      *)
(***************************************************************************)
EXTENDS Pilot, TLAPS

(***************************************************************************)
(* Types. What a run holds has the type its label asks for; with that,     *)
(* every file it writes has the type of its name.                          *)
(***************************************************************************)
HoldsText == {"scriptReq", "scriptResp", "shotReqs", "shots", "visualMan", "wav",
              "captions", "finalReq"}

Holds(l, g) ==
    /\ l = "episode" => g \in Statuses
    /\ l \in HoldsText => g \in Texts
    /\ l = "rc" => g \in Renders
    /\ l = "importScript" => g \in ContentOf("scriptResp")
    /\ l = "importFinal" => g \in FinalOutcomes
    /\ l = "importShots" => g \in Takes
    /\ l \in {"importVoice", "importVoiceMan"} => g \in [path: AudioFiles, hash: Scripts]

TypeInv == TypeOK /\ \A r \in Runs : Holds(pc[r], got[r])

LEMMA MoveTyped ==
    ASSUME TypeInv, NEW r \in Runs, NEW to \in Labels, NEW i, Holds(to, i), Move(r, to, i)
    PROVE  TypeInv'
BY DEF TypeInv, TypeOK, Move

LEMMA StoreTyped ==
    ASSUME TypeInv, NEW r \in Runs, NEW f \in Files, NEW c \in ContentOf(f) \cup {Torn},
           NEW to \in Labels, NEW i, Holds(to, i), Store(r, f, c, to, i)
    PROVE  TypeInv'
<1>1. /\ DOMAIN ws' \subseteq Files
      /\ \A g \in DOMAIN ws' : ws'[g] \in ContentOf(g) \cup {Torn}
  BY DEF TypeInv, TypeOK, Store, With
<1>2. /\ pc' \in [Runs -> Labels]
      /\ DOMAIN got' = Runs
      /\ faults' \in 0 .. MaxFaults
      /\ \A q \in Runs : Holds(pc'[q], got'[q])
  BY DEF TypeInv, TypeOK, Store
<1> QED BY <1>1, <1>2 DEF TypeInv, TypeOK

LEMMA AbortTyped ==
    ASSUME TypeInv, NEW r \in Runs, Abort(r)
    PROVE  TypeInv'
<1>1. "idle" \in Labels /\ Holds("idle", NoInput) BY DEF Labels, Holds, HoldsText
<1> QED BY <1>1, MoveTyped DEF Abort

\* Labels at which a run holds nothing that matters.
PlainLabels == {"idle", "topic", "research", "script", "scriptMan", "voiceMan", "subMan",
                "renderMan", "finalResp", "prodQA", "publish"} \cup Checks

LEMMA PlainHolds ==
    \A l \in PlainLabels : \A i : l \in Labels /\ Holds(l, i)
BY DEF PlainLabels, Checks, Labels, Files, Holds, HoldsText

LEMMA TextHolds ==
    \A l \in HoldsText, i \in Texts : l \in Labels /\ Holds(l, i)
BY DEF Labels, Files, Holds, HoldsText

LEMMA EpisodeHolds ==
    \A i \in Statuses : "episode" \in Labels /\ Holds("episode", i)
BY DEF Labels, Files, Holds, HoldsText

LEMMA Contents ==
    /\ ContentOf("episode") = Statuses
    /\ \A f \in {"topic", "research", "prodQA", "publish"} : ContentOf(f) = {"written"}
    /\ \A f \in {"script", "scriptReq", "finalReq", "captions", "wav", "mp3"} :
         ContentOf(f) = Texts
    /\ \A f \in {"scriptMan", "subMan"} : ContentOf(f) = [hash: Texts]
    /\ ContentOf("scriptResp") = [pass: BOOLEAN, hash: Texts, text: Texts]
    /\ ContentOf("shotReqs") = [src: Texts]
    /\ ContentOf("shots") = Takes
    /\ ContentOf("visualMan") = [src: Texts, hash: Clips]
    /\ ContentOf("voiceMan") = [path: AudioFiles, hash: Texts]
    /\ ContentOf("rc") = Renders
    /\ ContentOf("renderMan") = [hash: Renders]
    /\ ContentOf("finalResp") = FinalOutcomes
BY DEF ContentOf, AudioFiles

\* What a run can read has its type.
LEMMA Readable ==
    ASSUME TypeInv
    PROVE  /\ \A f \in {"script", "scriptReq", "finalReq", "captions", "wav", "mp3"} :
                Present(f) => ws[f] \in Texts
           /\ Present("shots") => ws["shots"] \in Clips
           /\ Parsed("shotReqs") => ws["shotReqs"].src \in Texts
           /\ Parsed("rc") => ws["rc"] \in Renders
           /\ VoiceReady => VoiceTrack \in Texts
<1>1. \A f \in Files : Present(f) => ws[f] \in ContentOf(f) \cup {Torn}
  BY DEF TypeInv, TypeOK, Present
<1>2. \A f \in {"script", "scriptReq", "finalReq", "captions", "wav", "mp3"} :
        Present(f) => ws[f] \in Texts
  BY <1>1, Contents DEF Files, Texts
<1>3. Present("shots") => ws["shots"] \in Clips
  BY <1>1, Contents DEF Files, Clips
<1>4. Parsed("shotReqs") => ws["shotReqs"].src \in Texts
  <2>1. Parsed("shotReqs") => ws["shotReqs"] \in [src: Texts]
    BY <1>1, Contents DEF Files, Parsed
  <2> QED BY <2>1
<1>5. Parsed("rc") => ws["rc"] \in Renders
  BY <1>1, Contents DEF Files, Parsed
<1>6. Parsed("voiceMan") => ws["voiceMan"].path \in {"wav", "mp3"}
  <2>1. Parsed("voiceMan") => ws["voiceMan"] \in [path: AudioFiles, hash: Texts]
    BY <1>1, Contents DEF Files, Parsed
  <2> QED BY <2>1 DEF AudioFiles
<1>7. VoiceReady => VoiceTrack \in Texts
  BY <1>2, <1>6 DEF VoiceReady, VoiceTrack
<1> QED BY <1>2, <1>3, <1>4, <1>5, <1>7

LEMMA TypeStep ==
    ASSUME TypeInv, [Next]_vars
    PROVE  TypeInv'
<1>1. ASSUME NEW r \in Runs, StartGenerate(r) PROVE TypeInv'
  <2>1. "resume" \in PlainLabels
    BY DEF PlainLabels, Checks
  <2>2. "generated" \in Statuses
    BY DEF Statuses
  <2> QED BY <1>1, <2>1, <2>2, PlainHolds, MoveTyped, EpisodeHolds
    DEF StartGenerate
<1>2. ASSUME NEW r \in Runs, StartResume(r) PROVE TypeInv'
  <2>1. "resume" \in PlainLabels
    BY DEF PlainLabels, Checks
  <2> QED BY <1>2, <2>1, PlainHolds, MoveTyped
    DEF StartResume
<1>3. ASSUME NEW r \in Runs, WriteEpisode(r) PROVE TypeInv'
  <2>1. "topic" \in PlainLabels
    BY DEF PlainLabels, Checks
  <2>2. "episode" \in Files
    BY DEF Files
  <2>3. "generated" \in Statuses
    BY DEF Statuses
  <2> QED BY <1>3, <2>1, <2>2, <2>3, PlainHolds, Contents, StoreTyped
    DEF WriteEpisode
<1>4. ASSUME NEW r \in Runs, WriteTopic(r) PROVE TypeInv'
  <2>1. "research" \in PlainLabels
    BY DEF PlainLabels, Checks
  <2>2. "topic" \in Files
    BY DEF Files
  <2> QED BY <1>4, <2>1, <2>2, PlainHolds, Contents, StoreTyped
    DEF WriteTopic
<1>5. ASSUME NEW r \in Runs, WriteResearch(r) PROVE TypeInv'
  <2>1. "resume" \in PlainLabels
    BY DEF PlainLabels, Checks
  <2>2. "research" \in Files
    BY DEF Files
  <2> QED BY <1>5, <2>1, <2>2, PlainHolds, Contents, StoreTyped
    DEF WriteResearch
<1>6. ASSUME NEW r \in Runs, UpdateStatus(r) PROVE TypeInv'
  <2>1. "idle" \in PlainLabels
    BY DEF PlainLabels, Checks
  <2>2. "episode" \in Files
    BY DEF Files
  <2>3. got[r] \in Statuses
    BY <1>6 DEF UpdateStatus, TypeInv, Holds, HoldsText
  <2> QED BY <1>6, <2>1, <2>2, <2>3, PlainHolds, Contents, StoreTyped, AbortTyped
    DEF UpdateStatus
<1>7. ASSUME NEW r \in Runs, Resume(r) PROVE TypeInv'
  <2>1. "ensureScript" \in PlainLabels
    BY DEF PlainLabels, Checks
  <2> QED BY <1>7, <2>1, PlainHolds, MoveTyped, AbortTyped
    DEF Resume
<1>8. ASSUME NEW r \in Runs, EnsureScript(r) PROVE TypeInv'
  <2>1. "ensureScriptReq" \in PlainLabels /\ "idle" \in PlainLabels
        /\ "script" \in PlainLabels
    BY DEF PlainLabels, Checks
  <2> QED BY <1>8, <2>1, PlainHolds, MoveTyped, AbortTyped
    DEF EnsureScript, Ensure
<1>9. ASSUME NEW r \in Runs, WriteScript(r) PROVE TypeInv'
  <2>1. "scriptMan" \in PlainLabels
    BY DEF PlainLabels, Checks
  <2>2. "script" \in Files
    BY DEF Files
  <2>3. Draft \in Texts
    BY PilotAssumption DEF Texts
  <2> QED BY <1>9, <2>1, <2>2, <2>3, PlainHolds, Contents, StoreTyped
    DEF WriteScript
<1>10. ASSUME NEW r \in Runs, WriteScriptMan(r) PROVE TypeInv'
  <2>1. "ensureScriptReq" \in PlainLabels
    BY DEF PlainLabels, Checks
  <2>2. "scriptMan" \in Files
    BY DEF Files
  <2> QED BY <1>10, <2>1, <2>2, PlainHolds, Contents, StoreTyped, AbortTyped, Readable
    DEF WriteScriptMan
<1>11. ASSUME NEW r \in Runs, EnsureScriptReq(r) PROVE TypeInv'
  <2>1. "ensureScriptResp" \in PlainLabels
    BY DEF PlainLabels, Checks
  <2>2. "scriptReq" \in HoldsText
    BY DEF HoldsText
  <2> QED BY <1>11, <2>1, <2>2, PlainHolds, MoveTyped, AbortTyped, TextHolds, Readable
    DEF EnsureScriptReq, Ensure
<1>12. ASSUME NEW r \in Runs, WriteScriptReq(r) PROVE TypeInv'
  <2>1. "ensureScriptResp" \in PlainLabels
    BY DEF PlainLabels, Checks
  <2>2. "scriptReq" \in Files
    BY DEF Files
  <2>3. got[r] \in Texts
    BY <1>12 DEF WriteScriptReq, TypeInv, Holds, HoldsText
  <2> QED BY <1>12, <2>1, <2>2, <2>3, PlainHolds, Contents, StoreTyped
    DEF WriteScriptReq
<1>13. ASSUME NEW r \in Runs, EnsureScriptResp(r) PROVE TypeInv'
  <2>1. "scriptGate" \in PlainLabels
    BY DEF PlainLabels, Checks
  <2>2. "scriptResp" \in HoldsText
    BY DEF HoldsText
  <2> QED BY <1>13, <2>1, <2>2, PlainHolds, MoveTyped, AbortTyped, TextHolds, Readable
    DEF EnsureScriptResp, Ensure
<1>14. ASSUME NEW r \in Runs, ReceiveScriptReview(r) PROVE TypeInv'
  <2>1. "scriptGate" \in PlainLabels
    BY DEF PlainLabels, Checks
  <2>2. "scriptResp" \in Files
    BY DEF Files
  <2>3. got[r] \in Texts
    BY <1>14 DEF ReceiveScriptReview, TypeInv, Holds, HoldsText
  <2>4. Verdicts \subseteq BOOLEAN
    BY PilotAssumption
  <2> QED BY <1>14, <2>1, <2>2, <2>3, <2>4, PlainHolds, Contents, StoreTyped,
       AbortTyped, Readable
    DEF ReceiveScriptReview
<1>15. ASSUME NEW r \in Runs, ScriptGate(r) PROVE TypeInv'
  <2>1. "ensureShotReqs" \in PlainLabels
    BY DEF PlainLabels, Checks
  <2>2. "needs_review" \in Statuses
    BY DEF Statuses
  <2> QED BY <1>15, <2>1, <2>2, PlainHolds, MoveTyped, AbortTyped, EpisodeHolds
    DEF ScriptGate
<1>16. ASSUME NEW r \in Runs, EnsureShotReqs(r) PROVE TypeInv'
  <2>1. "ensureVisuals" \in PlainLabels
    BY DEF PlainLabels, Checks
  <2>2. "shotReqs" \in HoldsText
    BY DEF HoldsText
  <2> QED BY <1>16, <2>1, <2>2, PlainHolds, MoveTyped, AbortTyped, TextHolds, Readable
    DEF EnsureShotReqs, Ensure
<1>17. ASSUME NEW r \in Runs, WriteShotReqs(r) PROVE TypeInv'
  <2>1. "ensureVisuals" \in PlainLabels
    BY DEF PlainLabels, Checks
  <2>2. "shotReqs" \in Files
    BY DEF Files
  <2>3. got[r] \in Texts
    BY <1>17 DEF WriteShotReqs, TypeInv, Holds, HoldsText
  <2> QED BY <1>17, <2>1, <2>2, <2>3, PlainHolds, Contents, StoreTyped
    DEF WriteShotReqs
<1>18. ASSUME NEW r \in Runs, EnsureVisuals(r) PROVE TypeInv'
  <2>1. "ensureVoice" \in PlainLabels
    BY DEF PlainLabels, Checks
  <2>2. "shots" \in HoldsText
    BY DEF HoldsText
  <2> QED BY <1>18, <2>1, <2>2, PlainHolds, MoveTyped, AbortTyped, TextHolds, Readable
    DEF EnsureVisuals, Ensure
<1>19. ASSUME NEW r \in Runs, RunVisualProvider(r) PROVE TypeInv'
  <2>1. "visualMan" \in HoldsText
    BY DEF HoldsText
  <2>2. "shots" \in Files
    BY DEF Files
  <2>3. got[r] \in Texts
    BY <1>19 DEF RunVisualProvider, TypeInv, Holds, HoldsText
  <2> QED BY <1>19, <2>1, <2>2, <2>3, TextHolds, Contents, StoreTyped
    DEF RunVisualProvider
<1>20. ASSUME NEW r \in Runs, WriteVisualMan(r) PROVE TypeInv'
  <2>1. "ensureVoice" \in PlainLabels
    BY DEF PlainLabels, Checks
  <2>2. "visualMan" \in Files
    BY DEF Files
  <2>3. got[r] \in Texts
    BY <1>20 DEF WriteVisualMan, TypeInv, Holds, HoldsText
  <2> QED BY <1>20, <2>1, <2>2, <2>3, PlainHolds, Contents, StoreTyped, AbortTyped, Readable
    DEF WriteVisualMan
<1>21. ASSUME NEW r \in Runs, EnsureVoice(r) PROVE TypeInv'
  <2>1. "ensureSubs" \in PlainLabels
    BY DEF PlainLabels, Checks
  <2>2. "wav" \in HoldsText
    BY DEF HoldsText
  <2> QED BY <1>21, <2>1, <2>2, PlainHolds, MoveTyped, AbortTyped, TextHolds, Readable
    DEF EnsureVoice, Ensure
<1>22. ASSUME NEW r \in Runs, RunVoiceProvider(r) PROVE TypeInv'
  <2>1. "voiceMan" \in PlainLabels
    BY DEF PlainLabels, Checks
  <2>2. "wav" \in Files
    BY DEF Files
  <2>3. got[r] \in Texts
    BY <1>22 DEF RunVoiceProvider, TypeInv, Holds, HoldsText
  <2> QED BY <1>22, <2>1, <2>2, <2>3, PlainHolds, Contents, StoreTyped
    DEF RunVoiceProvider
<1>23. ASSUME NEW r \in Runs, WriteVoiceMan(r) PROVE TypeInv'
  <2>1. "ensureSubs" \in PlainLabels
    BY DEF PlainLabels, Checks
  <2>2. "voiceMan" \in Files
    BY DEF Files
  <2>3. "wav" \in AudioFiles
    BY DEF AudioFiles
  <2> QED BY <1>23, <2>1, <2>2, <2>3, PlainHolds, Contents, StoreTyped, AbortTyped, Readable
    DEF WriteVoiceMan
<1>24. ASSUME NEW r \in Runs, EnsureSubs(r) PROVE TypeInv'
  <2>1. "ensureRender" \in PlainLabels
    BY DEF PlainLabels, Checks
  <2>2. "captions" \in HoldsText
    BY DEF HoldsText
  <2> QED BY <1>24, <2>1, <2>2, PlainHolds, MoveTyped, AbortTyped, TextHolds, Readable
    DEF EnsureSubs, Ensure
<1>25. ASSUME NEW r \in Runs, WriteCaptions(r) PROVE TypeInv'
  <2>1. "subMan" \in PlainLabels
    BY DEF PlainLabels, Checks
  <2>2. "captions" \in Files
    BY DEF Files
  <2>3. got[r] \in Texts
    BY <1>25 DEF WriteCaptions, TypeInv, Holds, HoldsText
  <2> QED BY <1>25, <2>1, <2>2, <2>3, PlainHolds, Contents, StoreTyped
    DEF WriteCaptions
<1>26. ASSUME NEW r \in Runs, WriteSubMan(r) PROVE TypeInv'
  <2>1. "ensureRender" \in PlainLabels
    BY DEF PlainLabels, Checks
  <2>2. "subMan" \in Files
    BY DEF Files
  <2> QED BY <1>26, <2>1, <2>2, PlainHolds, Contents, StoreTyped, AbortTyped, Readable
    DEF WriteSubMan, Parsed
<1>27. ASSUME NEW r \in Runs, EnsureRender(r) PROVE TypeInv'
  <2>1. "ensureFinalReq" \in PlainLabels /\ "rc" \in Labels
    BY DEF PlainLabels, Checks, Labels, Files
  <2>2. RenderReady => [shots |-> ws["shots"], voice |-> VoiceTrack,
                        captions |-> ws["captions"]] \in Renders
    BY Readable DEF RenderReady, Renders
  <2>3. \A i \in Renders : Holds("rc", i)
    BY DEF Holds, HoldsText
  <2> QED BY <1>27, <2>1, <2>2, <2>3, PlainHolds, MoveTyped, AbortTyped
    DEF EnsureRender
<1>28. ASSUME NEW r \in Runs, RunFFmpeg(r) PROVE TypeInv'
  <2>1. "renderMan" \in PlainLabels
    BY DEF PlainLabels, Checks
  <2>2. "rc" \in Files
    BY DEF Files
  <2>3. got[r] \in Renders
    BY <1>28 DEF RunFFmpeg, TypeInv, Holds
  <2> QED BY <1>28, <2>1, <2>2, <2>3, PlainHolds, Contents, StoreTyped
    DEF RunFFmpeg
<1>29. ASSUME NEW r \in Runs, WriteRenderMan(r) PROVE TypeInv'
  <2>1. "ensureFinalReq" \in PlainLabels
    BY DEF PlainLabels, Checks
  <2>2. "renderMan" \in Files
    BY DEF Files
  <2> QED BY <1>29, <2>1, <2>2, PlainHolds, Contents, StoreTyped, AbortTyped, Readable
    DEF WriteRenderMan
<1>30. ASSUME NEW r \in Runs, EnsureFinalReq(r) PROVE TypeInv'
  <2>1. "ensureFinalResp" \in PlainLabels
    BY DEF PlainLabels, Checks
  <2>2. "finalReq" \in HoldsText
    BY DEF HoldsText
  <2> QED BY <1>30, <2>1, <2>2, PlainHolds, MoveTyped, AbortTyped, TextHolds, Readable
    DEF EnsureFinalReq, Ensure
<1>31. ASSUME NEW r \in Runs, WriteFinalReq(r) PROVE TypeInv'
  <2>1. "ensureFinalResp" \in PlainLabels
    BY DEF PlainLabels, Checks
  <2>2. "finalReq" \in Files
    BY DEF Files
  <2>3. got[r] \in Texts
    BY <1>31 DEF WriteFinalReq, TypeInv, Holds, HoldsText
  <2> QED BY <1>31, <2>1, <2>2, <2>3, PlainHolds, Contents, StoreTyped
    DEF WriteFinalReq
<1>32. ASSUME NEW r \in Runs, EnsureFinalResp(r) PROVE TypeInv'
  <2>1. "finalGate" \in PlainLabels /\ "finalResp" \in PlainLabels
    BY DEF PlainLabels, Checks
  <2> QED BY <1>32, <2>1, PlainHolds, MoveTyped, AbortTyped
    DEF EnsureFinalResp, Ensure
<1>33. ASSUME NEW r \in Runs, ReceiveFinalReview(r) PROVE TypeInv'
  <2>1. "finalGate" \in PlainLabels
    BY DEF PlainLabels, Checks
  <2>2. "finalResp" \in Files
    BY DEF Files
  <2>3. Outcomes \subseteq FinalOutcomes
    BY PilotAssumption
  <2> QED BY <1>33, <2>1, <2>2, <2>3, PlainHolds, Contents, StoreTyped
    DEF ReceiveFinalReview
<1>34. ASSUME NEW r \in Runs, FinalGate(r) PROVE TypeInv'
  <2>1. "ensureProdQA" \in PlainLabels
    BY DEF PlainLabels, Checks
  <2>2. "release_blocked" \in Statuses
    BY DEF Statuses
  <2> QED BY <1>34, <2>1, <2>2, PlainHolds, MoveTyped, AbortTyped, EpisodeHolds
    DEF FinalGate
<1>35. ASSUME NEW r \in Runs, EnsureProdQA(r) PROVE TypeInv'
  <2>1. "ensurePublish" \in PlainLabels /\ "prodQA" \in PlainLabels
    BY DEF PlainLabels, Checks
  <2> QED BY <1>35, <2>1, PlainHolds, MoveTyped, AbortTyped
    DEF EnsureProdQA, Ensure
<1>36. ASSUME NEW r \in Runs, WriteProdQA(r) PROVE TypeInv'
  <2>1. "ensurePublish" \in PlainLabels
    BY DEF PlainLabels, Checks
  <2>2. "prodQA" \in Files
    BY DEF Files
  <2> QED BY <1>36, <2>1, <2>2, PlainHolds, Contents, StoreTyped
    DEF WriteProdQA
<1>37. ASSUME NEW r \in Runs, EnsurePublish(r) PROVE TypeInv'
  <2>1. "publish" \in PlainLabels
    BY DEF PlainLabels, Checks
  <2>2. "release_candidate" \in Statuses
    BY DEF Statuses
  <2> QED BY <1>37, <2>1, <2>2, PlainHolds, MoveTyped, EpisodeHolds
    DEF EnsurePublish
<1>38. ASSUME NEW r \in Runs, WritePublish(r) PROVE TypeInv'
  <2>1. "publish" \in Files
    BY DEF Files
  <2>2. "release_candidate" \in Statuses
    BY DEF Statuses
  <2> QED BY <1>38, <2>1, <2>2, Contents, StoreTyped, EpisodeHolds
    DEF WritePublish
<1>39. ASSUME NEW r \in Runs, StartImportScriptReview(r) PROVE TypeInv'
  <2>1. "importScript" \in Labels
    BY DEF Labels, Imports
  <2>2. \A v \in Verdicts, s \in Scripts :
         Holds("importScript", [pass |-> v, hash |-> s, text |-> s])
    BY PilotAssumption, Contents DEF Holds, HoldsText, Texts
  <2> QED BY <1>39, <2>1, <2>2, MoveTyped
    DEF StartImportScriptReview
<1>40. ASSUME NEW r \in Runs, StartImportFinalReview(r) PROVE TypeInv'
  <2>1. "importFinal" \in Labels
    BY DEF Labels, Imports
  <2>2. \A o \in Outcomes : Holds("importFinal", o)
    BY PilotAssumption DEF Holds, HoldsText
  <2> QED BY <1>40, <2>1, <2>2, MoveTyped
    DEF StartImportFinalReview
<1>41. ASSUME NEW r \in Runs, WriteImportedReview(r) PROVE TypeInv'
  <2>1. "idle" \in PlainLabels
    BY DEF PlainLabels, Checks
  <2>2. "scriptResp" \in Files /\ "finalResp" \in Files
    BY DEF Files
  <2>3. pc[r] = "importScript" => got[r] \in ContentOf("scriptResp")
    BY <1>41 DEF WriteImportedReview, TypeInv, Holds
  <2>4. pc[r] = "importFinal" => got[r] \in FinalOutcomes
    BY <1>41 DEF WriteImportedReview, TypeInv, Holds
  <2> QED BY <1>41, <2>1, <2>2, <2>3, <2>4, PlainHolds, Contents, StoreTyped
    DEF WriteImportedReview
<1>42. ASSUME NEW r \in Runs, StartImportVisualShot(r) PROVE TypeInv'
  <2>1. "importShots" \in Labels
    BY DEF Labels, Imports
  <2>2. \A t \in Takes : Holds("importShots", t)
    BY DEF Holds, HoldsText
  <2> QED BY <1>42, <2>1, <2>2, MoveTyped
    DEF StartImportVisualShot
<1>43. ASSUME NEW r \in Runs, CopyVisualShot(r) PROVE TypeInv'
  <2>1. "idle" \in PlainLabels
    BY DEF PlainLabels, Checks
  <2>2. "shots" \in Files
    BY DEF Files
  <2>3. got[r] \in Takes
    BY <1>43 DEF CopyVisualShot, TypeInv, Holds
  <2> QED BY <1>43, <2>1, <2>2, <2>3, PlainHolds, Contents, StoreTyped
    DEF CopyVisualShot
<1>44. ASSUME NEW r \in Runs, StartImportVoice(r) PROVE TypeInv'
  <2>1. "importVoice" \in Labels
    BY DEF Labels, Imports
  <2>2. \A v \in Recordings : Holds("importVoice", v)
    BY PilotAssumption DEF Holds, HoldsText
  <2> QED BY <1>44, <2>1, <2>2, MoveTyped
    DEF StartImportVoice
<1>45. ASSUME NEW r \in Runs, CopyRecording(r) PROVE TypeInv'
  <2>1. "importVoiceMan" \in Labels
    BY DEF Labels, Imports
  <2>2. got[r] \in [path: AudioFiles, hash: Scripts]
    BY <1>45 DEF CopyRecording, TypeInv, Holds
  <2>3. Holds("importVoiceMan", got[r])
    BY <2>2 DEF Holds, HoldsText
  <2>4. got[r].path \in Files /\ got[r].hash \in ContentOf(got[r].path)
    BY <2>2, Contents DEF Files, AudioFiles, Texts
  <2> QED BY <1>45, <2>1, <2>2, <2>3, <2>4, StoreTyped
    DEF CopyRecording
<1>46. ASSUME NEW r \in Runs, WriteImportedVoiceMan(r) PROVE TypeInv'
  <2>1. "idle" \in PlainLabels
    BY DEF PlainLabels, Checks
  <2>2. "voiceMan" \in Files
    BY DEF Files
  <2>3. got[r] \in [path: AudioFiles, hash: Scripts]
    BY <1>46 DEF WriteImportedVoiceMan, TypeInv, Holds
  <2>4. Present(got[r].path) => ws[got[r].path] \in Texts
    BY <2>3, Readable DEF AudioFiles
  <2>5. Present(got[r].path) =>
          [path |-> got[r].path, hash |-> ws[got[r].path]] \in ContentOf("voiceMan")
    BY <2>3, <2>4, Contents
  <2> QED BY <1>46, <2>1, <2>2, <2>3, <2>4, <2>5, PlainHolds, StoreTyped, AbortTyped
    DEF WriteImportedVoiceMan
<1>47. ASSUME NEW r \in Runs, Fault(r) PROVE TypeInv'
  <2>1. Target(r) \subseteq Files
    BY DEF Target, TypeInv, Holds, AudioFiles, Files
  <2>2. "idle" \in Labels /\ Holds("idle", NoInput)
    BY PlainHolds DEF PlainLabels
  <2>3. /\ DOMAIN ws' \subseteq Files
        /\ \A f \in DOMAIN ws' : ws'[f] \in ContentOf(f) \cup {Torn}
    BY <1>47, <2>1 DEF Fault, With, TypeInv, TypeOK
  <2>4. faults' \in 0 .. MaxFaults
    BY <1>47, PilotAssumption DEF Fault, TypeInv, TypeOK
  <2>5. /\ pc' \in [Runs -> Labels]
        /\ DOMAIN got' = Runs
        /\ \A q \in Runs : Holds(pc'[q], got'[q])
    BY <1>47, <2>2 DEF Fault, TypeInv, TypeOK
  <2> QED BY <2>3, <2>4, <2>5 DEF TypeInv, TypeOK
<1>48. CASE EditScript
  <2>1. Edits \subseteq ContentOf("script") /\ "script" \in Files
    BY PilotAssumption, Contents DEF Texts, Files
  <2>2. /\ DOMAIN ws' \subseteq Files
        /\ \A f \in DOMAIN ws' : ws'[f] \in ContentOf(f) \cup {Torn}
    BY <1>48, <2>1 DEF EditScript, With, TypeInv, TypeOK
  <2> QED BY <1>48, <2>2 DEF EditScript, TypeInv, TypeOK
<1>49. CASE DeleteFile
  BY <1>49 DEF DeleteFile, TypeInv, TypeOK
<1>50. CASE UNCHANGED vars
  BY <1>50 DEF vars, TypeInv, TypeOK
<1> QED
  BY <1>1, <1>2, <1>3, <1>4, <1>5, <1>6, <1>7, <1>8, <1>9, <1>10, <1>11, <1>12, <1>13,
       <1>14, <1>15, <1>16, <1>17, <1>18, <1>19, <1>20, <1>21, <1>22, <1>23, <1>24,
       <1>25, <1>26, <1>27, <1>28, <1>29, <1>30, <1>31, <1>32, <1>33, <1>34, <1>35,
       <1>36, <1>37, <1>38, <1>39, <1>40, <1>41, <1>42, <1>43, <1>44, <1>45, <1>46,
       <1>47, <1>48, <1>49, <1>50
  DEF Next, PipelineStep, StartImport, ImportStep

LEMMA TypeInit == Init => TypeInv
BY PilotAssumption, PlainHolds DEF Init, TypeInv, TypeOK, PlainLabels

\* Every file always holds content of its kind or was torn (writeJSON, writeText
\* and the providers), whatever runs, edits, deletions and faults there are.
THEOREM TypeCorrect == Spec => []TypeOK
<1>1. TypeInv => TypeOK
  BY DEF TypeInv
<1> QED BY <1>1, TypeInit, TypeStep, PTL DEF Spec
-----------------------------------------------------------------------------
(***************************************************************************)
(* Order. The files a run has made or found so far, by where it stands:    *)
(* nothing but the operator's deletions can take them away, so what a run  *)
(* decided earlier still holds when it writes.                             *)
(***************************************************************************)
HasScript == {"episode", "script", "scriptMan"}
HasScriptReq == HasScript \cup {"scriptReq"}
HasScriptReview == HasScriptReq \cup {"scriptResp"}
HasShotReqs == HasScriptReview \cup {"shotReqs"}
HasVisuals == HasShotReqs \cup {"shots", "visualMan"}
HasVoice == HasVisuals \cup {"voiceMan"}
HasSubs == HasVoice \cup {"captions", "subMan"}
HasRender == HasSubs \cup {"rc", "renderMan"}
HasFinalReq == HasRender \cup {"finalReq"}
HasFinalReview == HasFinalReq \cup {"finalResp"}
HasProdQA == HasFinalReview \cup {"prodQA"}
HasAll == HasProdQA \cup {"publish"}

Behind(l) ==
    CASE l \in {"idle", "episode"} -> {}
      [] l = "research" -> {"episode", "topic"}
      [] l = "scriptMan" -> {"episode", "script"}
      [] l \in {"ensureScriptReq", "scriptReq"} -> HasScript
      [] l \in {"ensureScriptResp", "scriptResp", "scriptGate"} -> HasScriptReq
      [] l \in {"ensureShotReqs", "shotReqs"} -> HasScriptReview
      [] l \in {"ensureVisuals", "shots"} -> HasShotReqs
      [] l = "visualMan" -> HasShotReqs \cup {"shots"}
      [] l \in {"ensureVoice", "wav", "voiceMan"} -> HasVisuals
      [] l \in {"ensureSubs", "captions"} -> HasVoice
      [] l = "subMan" -> HasVoice \cup {"captions"}
      [] l \in {"ensureRender", "rc"} -> HasSubs
      [] l = "renderMan" -> HasSubs \cup {"rc"}
      [] l \in {"ensureFinalReq", "finalReq"} -> HasRender
      [] l \in {"ensureFinalResp", "finalResp", "finalGate"} -> HasFinalReq
      [] l \in {"ensureProdQA", "prodQA"} -> HasFinalReview
      [] l \in {"ensurePublish", "publish"} -> HasProdQA
      [] OTHER -> {"episode"}

OrderInv ==
    /\ PipelineOrder
    /\ CandidateComplete
    /\ \A r \in Runs : Behind(pc[r]) \ Deletable \subseteq DOMAIN ws
    /\ \A r \in Runs : pc[r] = "episode" /\ got[r] = "release_candidate"
                       => StageFiles \ Deletable \subseteq DOMAIN ws

LEMMA BehindIs ==
    /\ Behind("idle") = {} /\ Behind("episode") = {}
    /\ \A l \in Imports \cup {"topic", "resume", "ensureScript", "script"} :
         Behind(l) = {"episode"}
    /\ Behind("research") = {"episode", "topic"}
    /\ Behind("scriptMan") = {"episode", "script"}
    /\ \A l \in {"ensureScriptReq", "scriptReq"} : Behind(l) = HasScript
    /\ \A l \in {"ensureScriptResp", "scriptResp", "scriptGate"} : Behind(l) = HasScriptReq
    /\ \A l \in {"ensureShotReqs", "shotReqs"} : Behind(l) = HasScriptReview
    /\ \A l \in {"ensureVisuals", "shots"} : Behind(l) = HasShotReqs
    /\ Behind("visualMan") = HasShotReqs \cup {"shots"}
    /\ \A l \in {"ensureVoice", "wav", "voiceMan"} : Behind(l) = HasVisuals
    /\ \A l \in {"ensureSubs", "captions"} : Behind(l) = HasVoice
    /\ Behind("subMan") = HasVoice \cup {"captions"}
    /\ \A l \in {"ensureRender", "rc"} : Behind(l) = HasSubs
    /\ Behind("renderMan") = HasSubs \cup {"rc"}
    /\ \A l \in {"ensureFinalReq", "finalReq"} : Behind(l) = HasRender
    /\ \A l \in {"ensureFinalResp", "finalResp", "finalGate"} : Behind(l) = HasFinalReq
    /\ \A l \in {"ensureProdQA", "prodQA"} : Behind(l) = HasFinalReview
    /\ \A l \in {"ensurePublish", "publish"} : Behind(l) = HasProdQA
BY DEF Behind, Imports

LEMMA PriorIs ==
    /\ Prior("episode") = {}
    /\ \A f \in {"script", "scriptResp", "shots", "wav", "mp3", "voiceMan", "finalResp"} :
         Prior(f) = {"episode"}
    /\ Prior("scriptMan") = {"episode", "script"}
    /\ Prior("visualMan") = {"episode", "shotReqs", "shots"}
    /\ Prior("subMan") = {"visualMan", "voiceMan", "captions"}
    /\ Prior("renderMan") = {"rc", "subMan"}
BY DEF Prior

\* What a command needs before it writes f, it has when it is about to.
LEMMA PriorBehind == \A f \in Files : Prior(f) \subseteq Behind(f)
BY DEF Prior, Behind, Files, HasScript, HasScriptReq, HasScriptReview, HasShotReqs,
   HasVisuals, HasVoice, HasSubs, HasRender, HasFinalReq, HasFinalReview, HasProdQA

LEMMA MoveOrdered ==
    ASSUME TypeInv, OrderInv, NEW r \in Runs, NEW to, NEW i, Move(r, to, i),
           Behind(to) \ Deletable \subseteq DOMAIN ws,
           to = "episode" /\ i = "release_candidate"
                 => StageFiles \ Deletable \subseteq DOMAIN ws
    PROVE  OrderInv'
BY DEF OrderInv, Move, TypeInv, TypeOK, PipelineOrder, CandidateComplete, Candidate, Present

LEMMA StoreOrdered ==
    ASSUME TypeInv, OrderInv, NEW r \in Runs, NEW f, NEW c, NEW to, NEW i,
           Store(r, f, c, to, i),
           Prior(f) \ Deletable \subseteq DOMAIN ws,
           f = "episode" /\ c = "release_candidate"
                 => StageFiles \ Deletable \subseteq DOMAIN ws,
           Behind(to) \ Deletable \subseteq DOMAIN ws \cup {f},
           to = "episode" /\ i = "release_candidate"
             => StageFiles \ Deletable \subseteq DOMAIN ws \cup {f}
    PROVE  OrderInv'
<1>1. DOMAIN ws' = DOMAIN ws \cup {f}
  BY DEF Store, With
<1>2. PipelineOrder'
  BY <1>1 DEF OrderInv, PipelineOrder
<1>3. CandidateComplete'
  BY <1>1 DEF OrderInv, CandidateComplete, Candidate, Present, Store, With
<1>4. \A q \in Runs : Behind(pc'[q]) \ Deletable \subseteq DOMAIN ws'
  BY <1>1 DEF OrderInv, Store, TypeInv, TypeOK
<1>5. \A q \in Runs : pc'[q] = "episode" /\ got'[q] = "release_candidate"
                     => StageFiles \ Deletable \subseteq DOMAIN ws'
  BY <1>1 DEF OrderInv, Store, TypeInv, TypeOK
<1> QED BY <1>2, <1>3, <1>4, <1>5 DEF OrderInv

\* A run that stops, or is blocked.
LEMMA StopOrdered ==
    ASSUME TypeInv, OrderInv, NEW r \in Runs, NEW to \in {"idle", "episode"}, NEW i,
           i # "release_candidate" \/ to = "idle", Move(r, to, i)
    PROVE  OrderInv'
BY MoveOrdered, BehindIs

\* A run that finds nothing new, or finds the file f and so what came before f.
LEMMA FoundOrdered ==
    ASSUME TypeInv, OrderInv, NEW r \in Runs, NEW to, to # "episode", NEW i, Move(r, to, i),
           NEW f \in DOMAIN ws, Behind(to) \subseteq Behind(pc[r]) \cup {f} \cup Prior(f)
    PROVE  OrderInv'
<1>1. Behind(pc[r]) \ Deletable
      \subseteq DOMAIN ws /\ Prior(f) \ Deletable \subseteq DOMAIN ws
  BY DEF OrderInv, PipelineOrder
<1> QED BY <1>1, MoveOrdered

LEMMA GoOnOrdered ==
    ASSUME TypeInv, OrderInv, NEW r \in Runs, NEW to, to # "episode", NEW i, Move(r, to, i),
           Behind(to) \subseteq Behind(pc[r])
    PROVE  OrderInv'
<1>1. Behind(pc[r]) \ Deletable \subseteq DOMAIN ws
  BY DEF OrderInv
<1> QED BY <1>1, MoveOrdered

\* A run that writes the file its label names.
LEMMA WriteOrdered ==
    ASSUME TypeInv, OrderInv, NEW r \in Runs, NEW c, NEW to, to # "episode", NEW i,
           NEW f \in Files \ {"episode"}, pc[r] = f, Store(r, f, c, to, i),
           Behind(to) \subseteq Behind(f) \cup {f}
    PROVE  OrderInv'
<1>1. Behind(f) \ Deletable \subseteq DOMAIN ws
  BY DEF OrderInv
<1>2. Prior(f) \ Deletable \subseteq DOMAIN ws
  BY <1>1, PriorBehind
<1> QED BY <1>1, <1>2, StoreOrdered

LEMMA OrderStep ==
    ASSUME TypeInv, OrderInv, [Next]_vars
    PROVE  OrderInv'
<1>1. ASSUME NEW r \in Runs, StartGenerate(r) PROVE OrderInv'
  <2>1. Behind("resume") \subseteq Behind("idle") \cup {"episode"} \cup Prior("episode")
    BY BehindIs
  <2> QED BY <1>1, <2>1, FoundOrdered, StopOrdered
    DEF StartGenerate, Present
<1>2. ASSUME NEW r \in Runs, StartResume(r) PROVE OrderInv'
  <2>1. Behind("resume") \subseteq Behind("idle") \cup {"episode"} \cup Prior("episode")
    BY BehindIs
  <2> QED BY <1>2, <2>1, FoundOrdered
    DEF StartResume, Present
<1>3. ASSUME NEW r \in Runs, WriteEpisode(r) PROVE OrderInv'
  <2>1. Behind("topic") = {"episode"} /\ Prior("episode") = {}
    BY BehindIs, PriorIs
  <2> QED BY <1>3, <2>1, StoreOrdered
    DEF WriteEpisode
<1>4. ASSUME NEW r \in Runs, WriteTopic(r) PROVE OrderInv'
  <2>1. "topic" \in Files \ {"episode"}
    BY DEF Files
  <2>2. Behind("research") \subseteq Behind("topic") \cup {"topic"}
    BY BehindIs, PriorIs
  <2> QED BY <1>4, <2>1, <2>2, WriteOrdered
    DEF WriteTopic
<1>5. ASSUME NEW r \in Runs, WriteResearch(r) PROVE OrderInv'
  <2>1. "research" \in Files \ {"episode"}
    BY DEF Files
  <2>2. Behind("resume") \subseteq Behind("research") \cup {"research"}
    BY BehindIs, PriorIs
  <2> QED BY <1>5, <2>1, <2>2, WriteOrdered
    DEF WriteResearch
<1>6. ASSUME NEW r \in Runs, UpdateStatus(r) PROVE OrderInv'
  <2>1. Behind("idle") = {} /\ Prior("episode") = {}
    BY BehindIs, PriorIs
  <2>2. got[r] = "release_candidate" => StageFiles \ Deletable \subseteq DOMAIN ws
    BY <1>6 DEF UpdateStatus, OrderInv
  <2> QED BY <1>6, <2>1, <2>2, StoreOrdered, StopOrdered
    DEF UpdateStatus, Abort
<1>7. ASSUME NEW r \in Runs, Resume(r) PROVE OrderInv'
  <2>1. Behind("ensureScript") \subseteq Behind("resume")
    BY BehindIs
  <2> QED BY <1>7, <2>1, GoOnOrdered, StopOrdered
    DEF Resume, Abort
<1>8. ASSUME NEW r \in Runs, EnsureScript(r) PROVE OrderInv'
  <2>1. Behind("ensureScriptReq")
        \subseteq Behind("ensureScript") \cup {"scriptMan"} \cup Prior("scriptMan")
    BY BehindIs, PriorIs DEF HasScript
  <2>2. Behind("script") \subseteq Behind("ensureScript")
    BY BehindIs
  <2> QED BY <1>8, <2>1, <2>2, FoundOrdered, GoOnOrdered, StopOrdered
    DEF EnsureScript, Ensure, Abort, Present
<1>9. ASSUME NEW r \in Runs, WriteScript(r) PROVE OrderInv'
  <2>1. "script" \in Files \ {"episode"}
    BY DEF Files
  <2>2. Behind("scriptMan") \subseteq Behind("script") \cup {"script"}
    BY BehindIs, PriorIs
  <2> QED BY <1>9, <2>1, <2>2, WriteOrdered
    DEF WriteScript
<1>10. ASSUME NEW r \in Runs, WriteScriptMan(r) PROVE OrderInv'
  <2>1. "scriptMan" \in Files \ {"episode"}
    BY DEF Files
  <2>2. Behind("ensureScriptReq") \subseteq Behind("scriptMan") \cup {"scriptMan"}
    BY BehindIs, PriorIs DEF HasScript
  <2> QED BY <1>10, <2>1, <2>2, WriteOrdered, StopOrdered
    DEF WriteScriptMan, Abort
<1>11. ASSUME NEW r \in Runs, EnsureScriptReq(r) PROVE OrderInv'
  <2>1. Behind("ensureScriptResp")
        \subseteq Behind("ensureScriptReq") \cup {"scriptReq"} \cup Prior("scriptReq")
    BY BehindIs, PriorIs DEF HasScriptReq
  <2>2. Behind("scriptReq") \subseteq Behind("ensureScriptReq")
    BY BehindIs
  <2> QED BY <1>11, <2>1, <2>2, FoundOrdered, GoOnOrdered, StopOrdered
    DEF EnsureScriptReq, Ensure, Abort, Present
<1>12. ASSUME NEW r \in Runs, WriteScriptReq(r) PROVE OrderInv'
  <2>1. "scriptReq" \in Files \ {"episode"}
    BY DEF Files
  <2>2. Behind("ensureScriptResp") \subseteq Behind("scriptReq") \cup {"scriptReq"}
    BY BehindIs, PriorIs DEF HasScriptReq
  <2> QED BY <1>12, <2>1, <2>2, WriteOrdered
    DEF WriteScriptReq
<1>13. ASSUME NEW r \in Runs, EnsureScriptResp(r) PROVE OrderInv'
  <2>1. Behind("scriptGate") = Behind("ensureScriptResp")
        /\ Behind("scriptResp") = Behind("ensureScriptResp")
    BY BehindIs
  <2> QED BY <1>13, <2>1, GoOnOrdered, StopOrdered
    DEF EnsureScriptResp, Ensure, Abort
<1>14. ASSUME NEW r \in Runs, ReceiveScriptReview(r) PROVE OrderInv'
  <2>1. "scriptResp" \in Files \ {"episode"}
    BY DEF Files
  <2>2. Behind("scriptGate") \subseteq Behind("scriptResp") \cup {"scriptResp"}
    BY BehindIs, PriorIs
  <2> QED BY <1>14, <2>1, <2>2, WriteOrdered, StopOrdered
    DEF ReceiveScriptReview, Abort
<1>15. ASSUME NEW r \in Runs, ScriptGate(r) PROVE OrderInv'
  <2>1. Behind("ensureShotReqs")
        \subseteq Behind("scriptGate") \cup {"scriptResp"} \cup Prior("scriptResp")
    BY BehindIs, PriorIs DEF HasScriptReview
  <2> QED BY <1>15, <2>1, FoundOrdered, StopOrdered
    DEF ScriptGate, Abort, ScriptReviewPassed, Parsed, Present
<1>16. ASSUME NEW r \in Runs, EnsureShotReqs(r) PROVE OrderInv'
  <2>1. Behind("ensureVisuals")
        \subseteq Behind("ensureShotReqs") \cup {"shotReqs"} \cup Prior("shotReqs")
    BY BehindIs, PriorIs DEF HasShotReqs
  <2>2. Behind("shotReqs") \subseteq Behind("ensureShotReqs")
    BY BehindIs
  <2> QED BY <1>16, <2>1, <2>2, FoundOrdered, GoOnOrdered, StopOrdered
    DEF EnsureShotReqs, Ensure, Abort, Present
<1>17. ASSUME NEW r \in Runs, WriteShotReqs(r) PROVE OrderInv'
  <2>1. "shotReqs" \in Files \ {"episode"}
    BY DEF Files
  <2>2. Behind("ensureVisuals") \subseteq Behind("shotReqs") \cup {"shotReqs"}
    BY BehindIs, PriorIs DEF HasShotReqs
  <2> QED BY <1>17, <2>1, <2>2, WriteOrdered
    DEF WriteShotReqs
<1>18. ASSUME NEW r \in Runs, EnsureVisuals(r) PROVE OrderInv'
  <2>1. Behind("ensureVoice")
        \subseteq Behind("ensureVisuals") \cup {"visualMan"} \cup Prior("visualMan")
    BY BehindIs, PriorIs DEF HasVisuals
  <2>2. Behind("shots") \subseteq Behind("ensureVisuals")
    BY BehindIs
  <2> QED BY <1>18, <2>1, <2>2, FoundOrdered, GoOnOrdered, StopOrdered
    DEF EnsureVisuals, Ensure, Abort, Present
<1>19. ASSUME NEW r \in Runs, RunVisualProvider(r) PROVE OrderInv'
  <2>1. "shots" \in Files \ {"episode"}
    BY DEF Files
  <2>2. Behind("visualMan") \subseteq Behind("shots") \cup {"shots"}
    BY BehindIs, PriorIs
  <2> QED BY <1>19, <2>1, <2>2, WriteOrdered
    DEF RunVisualProvider
<1>20. ASSUME NEW r \in Runs, WriteVisualMan(r) PROVE OrderInv'
  <2>1. "visualMan" \in Files \ {"episode"}
    BY DEF Files
  <2>2. Behind("ensureVoice") \subseteq Behind("visualMan") \cup {"visualMan"}
    BY BehindIs, PriorIs DEF HasVisuals
  <2> QED BY <1>20, <2>1, <2>2, WriteOrdered, StopOrdered
    DEF WriteVisualMan, Abort
<1>21. ASSUME NEW r \in Runs, EnsureVoice(r) PROVE OrderInv'
  <2>1. Behind("ensureSubs")
        \subseteq Behind("ensureVoice") \cup {"voiceMan"} \cup Prior("voiceMan")
    BY BehindIs, PriorIs DEF HasVoice
  <2>2. Behind("wav") \subseteq Behind("ensureVoice")
    BY BehindIs
  <2> QED BY <1>21, <2>1, <2>2, FoundOrdered, GoOnOrdered, StopOrdered
    DEF EnsureVoice, Ensure, Abort, Present
<1>22. ASSUME NEW r \in Runs, RunVoiceProvider(r) PROVE OrderInv'
  <2>1. "wav" \in Files \ {"episode"}
    BY DEF Files
  <2>2. Behind("voiceMan") \subseteq Behind("wav") \cup {"wav"}
    BY BehindIs, PriorIs
  <2> QED BY <1>22, <2>1, <2>2, WriteOrdered
    DEF RunVoiceProvider
<1>23. ASSUME NEW r \in Runs, WriteVoiceMan(r) PROVE OrderInv'
  <2>1. "voiceMan" \in Files \ {"episode"}
    BY DEF Files
  <2>2. Behind("ensureSubs") \subseteq Behind("voiceMan") \cup {"voiceMan"}
    BY BehindIs, PriorIs DEF HasVoice
  <2> QED BY <1>23, <2>1, <2>2, WriteOrdered, StopOrdered
    DEF WriteVoiceMan, Abort
<1>24. ASSUME NEW r \in Runs, EnsureSubs(r) PROVE OrderInv'
  <2>1. Behind("ensureRender")
        \subseteq Behind("ensureSubs") \cup {"subMan"} \cup Prior("subMan")
    BY BehindIs, PriorIs DEF HasSubs
  <2>2. Behind("captions") \subseteq Behind("ensureSubs")
    BY BehindIs
  <2> QED BY <1>24, <2>1, <2>2, FoundOrdered, GoOnOrdered, StopOrdered
    DEF EnsureSubs, Ensure, Abort, Present
<1>25. ASSUME NEW r \in Runs, WriteCaptions(r) PROVE OrderInv'
  <2>1. "captions" \in Files \ {"episode"}
    BY DEF Files
  <2>2. Behind("subMan") \subseteq Behind("captions") \cup {"captions"}
    BY BehindIs, PriorIs
  <2> QED BY <1>25, <2>1, <2>2, WriteOrdered
    DEF WriteCaptions
<1>26. ASSUME NEW r \in Runs, WriteSubMan(r) PROVE OrderInv'
  <2>1. "subMan" \in Files \ {"episode"}
    BY DEF Files
  <2>2. Behind("ensureRender") \subseteq Behind("subMan") \cup {"subMan"}
    BY BehindIs, PriorIs DEF HasSubs
  <2> QED BY <1>26, <2>1, <2>2, WriteOrdered, StopOrdered
    DEF WriteSubMan, Abort
<1>27. ASSUME NEW r \in Runs, EnsureRender(r) PROVE OrderInv'
  <2>1. Behind("ensureFinalReq")
        \subseteq Behind("ensureRender") \cup {"renderMan"} \cup Prior("renderMan")
    BY BehindIs, PriorIs DEF HasRender
  <2>2. Behind("rc") \subseteq Behind("ensureRender")
    BY BehindIs
  <2> QED BY <1>27, <2>1, <2>2, FoundOrdered, GoOnOrdered, StopOrdered
    DEF EnsureRender, Abort, Present
<1>28. ASSUME NEW r \in Runs, RunFFmpeg(r) PROVE OrderInv'
  <2>1. "rc" \in Files \ {"episode"}
    BY DEF Files
  <2>2. Behind("renderMan") \subseteq Behind("rc") \cup {"rc"}
    BY BehindIs, PriorIs
  <2> QED BY <1>28, <2>1, <2>2, WriteOrdered
    DEF RunFFmpeg
<1>29. ASSUME NEW r \in Runs, WriteRenderMan(r) PROVE OrderInv'
  <2>1. "renderMan" \in Files \ {"episode"}
    BY DEF Files
  <2>2. Behind("ensureFinalReq") \subseteq Behind("renderMan") \cup {"renderMan"}
    BY BehindIs, PriorIs DEF HasRender
  <2> QED BY <1>29, <2>1, <2>2, WriteOrdered, StopOrdered
    DEF WriteRenderMan, Abort
<1>30. ASSUME NEW r \in Runs, EnsureFinalReq(r) PROVE OrderInv'
  <2>1. Behind("ensureFinalResp")
        \subseteq Behind("ensureFinalReq") \cup {"finalReq"} \cup Prior("finalReq")
    BY BehindIs, PriorIs DEF HasFinalReq
  <2>2. Behind("finalReq") \subseteq Behind("ensureFinalReq")
    BY BehindIs
  <2> QED BY <1>30, <2>1, <2>2, FoundOrdered, GoOnOrdered, StopOrdered
    DEF EnsureFinalReq, Ensure, Abort, Present
<1>31. ASSUME NEW r \in Runs, WriteFinalReq(r) PROVE OrderInv'
  <2>1. "finalReq" \in Files \ {"episode"}
    BY DEF Files
  <2>2. Behind("ensureFinalResp") \subseteq Behind("finalReq") \cup {"finalReq"}
    BY BehindIs, PriorIs DEF HasFinalReq
  <2> QED BY <1>31, <2>1, <2>2, WriteOrdered
    DEF WriteFinalReq
<1>32. ASSUME NEW r \in Runs, EnsureFinalResp(r) PROVE OrderInv'
  <2>1. Behind("finalGate") = Behind("ensureFinalResp")
        /\ Behind("finalResp") = Behind("ensureFinalResp")
    BY BehindIs
  <2> QED BY <1>32, <2>1, GoOnOrdered, StopOrdered
    DEF EnsureFinalResp, Ensure, Abort
<1>33. ASSUME NEW r \in Runs, ReceiveFinalReview(r) PROVE OrderInv'
  <2>1. "finalResp" \in Files \ {"episode"}
    BY DEF Files
  <2>2. Behind("finalGate") \subseteq Behind("finalResp") \cup {"finalResp"}
    BY BehindIs, PriorIs
  <2> QED BY <1>33, <2>1, <2>2, WriteOrdered
    DEF ReceiveFinalReview
<1>34. ASSUME NEW r \in Runs, FinalGate(r) PROVE OrderInv'
  <2>1. Behind("ensureProdQA")
        \subseteq Behind("finalGate") \cup {"finalResp"} \cup Prior("finalResp")
    BY BehindIs, PriorIs DEF HasFinalReview
  <2> QED BY <1>34, <2>1, FoundOrdered, StopOrdered
    DEF FinalGate, Abort, FinalReviewPassed, Parsed, Present
<1>35. ASSUME NEW r \in Runs, EnsureProdQA(r) PROVE OrderInv'
  <2>1. Behind("ensurePublish")
        \subseteq Behind("ensureProdQA") \cup {"prodQA"} \cup Prior("prodQA")
    BY BehindIs, PriorIs DEF HasProdQA
  <2>2. Behind("prodQA") \subseteq Behind("ensureProdQA")
    BY BehindIs
  <2> QED BY <1>35, <2>1, <2>2, FoundOrdered, GoOnOrdered, StopOrdered
    DEF EnsureProdQA, Ensure, Abort, Present
<1>36. ASSUME NEW r \in Runs, WriteProdQA(r) PROVE OrderInv'
  <2>1. "prodQA" \in Files \ {"episode"}
    BY DEF Files
  <2>2. Behind("ensurePublish") \subseteq Behind("prodQA") \cup {"prodQA"}
    BY BehindIs, PriorIs DEF HasProdQA
  <2> QED BY <1>36, <2>1, <2>2, WriteOrdered
    DEF WriteProdQA
<1>37. ASSUME NEW r \in Runs, EnsurePublish(r) PROVE OrderInv'
  <2>1. HasProdQA \ Deletable \subseteq DOMAIN ws
    BY <1>37, BehindIs DEF EnsurePublish, OrderInv
  <2>2. StageFiles \subseteq HasProdQA \cup {"publish"}
    BY DEF StageFiles, HasProdQA, HasFinalReview, HasFinalReq, HasRender, HasSubs,
         HasVoice, HasVisuals,
        HasShotReqs, HasScriptReview, HasScriptReq, HasScript
  <2>3. Behind("publish") = HasProdQA /\ Behind("episode") = {}
    BY BehindIs
  <2> QED BY <1>37, <2>1, <2>2, <2>3, MoveOrdered
    DEF EnsurePublish, Present
<1>38. ASSUME NEW r \in Runs, WritePublish(r) PROVE OrderInv'
  <2>1. HasProdQA \ Deletable \subseteq DOMAIN ws
    BY <1>38, BehindIs DEF WritePublish, OrderInv
  <2>2. StageFiles \subseteq HasProdQA \cup {"publish"}
    BY DEF StageFiles, HasProdQA, HasFinalReview, HasFinalReq, HasRender, HasSubs,
         HasVoice, HasVisuals,
        HasShotReqs, HasScriptReview, HasScriptReq, HasScript
  <2>3. Prior("publish") \subseteq HasProdQA /\ Behind("episode") = {}
    BY BehindIs, PriorBehind DEF Files
  <2> QED BY <1>38, <2>1, <2>2, <2>3, StoreOrdered
    DEF WritePublish
<1>39. ASSUME NEW r \in Runs, StartImportScriptReview(r) PROVE OrderInv'
  <2>1. Behind("importScript") = {"episode"}
    BY BehindIs DEF Imports
  <2> QED BY <1>39, <2>1, FoundOrdered
    DEF StartImportScriptReview, Parsed, Present
<1>40. ASSUME NEW r \in Runs, StartImportFinalReview(r) PROVE OrderInv'
  <2>1. Behind("importFinal") = {"episode"}
    BY BehindIs DEF Imports
  <2> QED BY <1>40, <2>1, FoundOrdered
    DEF StartImportFinalReview, Parsed, Present
<1>41. ASSUME NEW r \in Runs, StartImportVisualShot(r) PROVE OrderInv'
  <2>1. Behind("importShots") = {"episode"}
    BY BehindIs DEF Imports
  <2> QED BY <1>41, <2>1, FoundOrdered
    DEF StartImportVisualShot, Parsed, Present
<1>42. ASSUME NEW r \in Runs, StartImportVoice(r) PROVE OrderInv'
  <2>1. Behind("importVoice") = {"episode"}
    BY BehindIs DEF Imports
  <2> QED BY <1>42, <2>1, FoundOrdered
    DEF StartImportVoice, Parsed, Present
<1>43. ASSUME NEW r \in Runs, WriteImportedReview(r) PROVE OrderInv'
  <2>1. {"episode"} \ Deletable \subseteq DOMAIN ws
    BY <1>43, BehindIs DEF WriteImportedReview, OrderInv, Imports
  <2>2. Behind("idle") = {} /\ Prior("scriptResp") = {"episode"}
        /\ Prior("finalResp") = {"episode"}
    BY BehindIs, PriorIs
  <2> QED BY <1>43, <2>1, <2>2, StoreOrdered
    DEF WriteImportedReview
<1>44. ASSUME NEW r \in Runs, CopyVisualShot(r) PROVE OrderInv'
  <2>1. {"episode"} \ Deletable \subseteq DOMAIN ws
    BY <1>44, BehindIs DEF CopyVisualShot, OrderInv, Imports
  <2>2. Behind("idle") = {} /\ Prior("shots") = {"episode"}
    BY BehindIs, PriorIs
  <2> QED BY <1>44, <2>1, <2>2, StoreOrdered
    DEF CopyVisualShot
<1>45. ASSUME NEW r \in Runs, CopyRecording(r) PROVE OrderInv'
  <2>1. {"episode"} \ Deletable \subseteq DOMAIN ws
    BY <1>45, BehindIs DEF CopyRecording, OrderInv, Imports
  <2>2. got[r].path \in {"wav", "mp3"}
    BY <1>45 DEF CopyRecording, TypeInv, Holds, AudioFiles
  <2>3. Behind("importVoiceMan") = {"episode"} /\ Prior(got[r].path) = {"episode"}
    BY <2>2, BehindIs, PriorIs DEF Imports
  <2> QED BY <1>45, <2>1, <2>2, <2>3, StoreOrdered
    DEF CopyRecording
<1>46. ASSUME NEW r \in Runs, WriteImportedVoiceMan(r) PROVE OrderInv'
  <2>1. {"episode"} \ Deletable \subseteq DOMAIN ws
    BY <1>46, BehindIs DEF WriteImportedVoiceMan, OrderInv, Imports
  <2>2. Behind("idle") = {} /\ Prior("voiceMan") = {"episode"}
    BY BehindIs, PriorIs
  <2> QED BY <1>46, <2>1, <2>2, StoreOrdered, StopOrdered
    DEF WriteImportedVoiceMan, Abort
<1>47. ASSUME NEW r \in Runs, Fault(r) PROVE OrderInv'
  <2>1. \A f \in Target(r) : Prior(f) \ Deletable \subseteq DOMAIN ws
    <3>1. Behind(pc[r]) \ Deletable \subseteq DOMAIN ws
      BY DEF OrderInv
    <3>2. CASE pc[r] \in Imports
      <4>1. pc[r] = "importVoice" => got[r].path \in {"wav", "mp3"}
        BY DEF TypeInv, Holds, AudioFiles
      <4>2. Target(r)
            \subseteq {"scriptResp", "finalResp", "shots", "wav", "mp3", "voiceMan"}
        BY <3>2, <4>1 DEF Target, Imports, Files
      <4> QED BY <3>1, <3>2, <4>2, BehindIs, PriorIs
    <3>3. CASE pc[r] \in Files
      <4>1. Target(r) = {pc[r]}
        BY <3>3 DEF Target, Files
      <4> QED BY <3>1, <3>3, <4>1, PriorBehind
    <3>4. CASE pc[r] \notin Imports \cup Files
      BY <3>4 DEF Target, Imports, Files
    <3> QED BY <3>2, <3>3, <3>4
  <2>2. /\ DOMAIN ws \subseteq DOMAIN ws'
        /\ \A f \in DOMAIN ws' : f \in DOMAIN ws \/ f \in Target(r)
    BY <1>47 DEF Fault, With
  <2>3. PipelineOrder'
    BY <2>1, <2>2 DEF OrderInv, PipelineOrder
  <2>4. Candidate' => Candidate
    BY <1>47, PilotAssumption DEF Fault, With, Candidate, Present, Statuses
  <2>5. CandidateComplete'
    BY <2>2, <2>4 DEF OrderInv, CandidateComplete
  <2>6. \A q \in Runs : (pc'[q] = pc[q] /\ got'[q] = got[q]) \/ pc'[q] = "idle"
    BY <1>47 DEF Fault, TypeInv, TypeOK
  <2>7. \A q \in Runs : Behind(pc'[q]) \ Deletable \subseteq DOMAIN ws'
    BY <2>2, <2>6, BehindIs DEF OrderInv
  <2>8. \A q \in Runs : pc'[q] = "episode" /\ got'[q] = "release_candidate"
                       => StageFiles \ Deletable \subseteq DOMAIN ws'
    BY <2>2, <2>6 DEF OrderInv
  <2> QED BY <2>3, <2>5, <2>7, <2>8 DEF OrderInv
<1>48. CASE EditScript
  <2>1. DOMAIN ws' = DOMAIN ws /\ pc' = pc /\ got' = got /\ (Candidate' => Candidate)
    BY <1>48 DEF EditScript, With, Present, Candidate
  <2> QED BY <2>1 DEF OrderInv, PipelineOrder, CandidateComplete
<1>49. CASE DeleteFile
  <2>1. PICK f \in Deletable : ws' = [g \in DOMAIN ws \ {f} |-> ws[g]]
    BY <1>49 DEF DeleteFile
  <2>2. DOMAIN ws' = DOMAIN ws \ {f} /\ pc' = pc /\ got' = got
    BY <1>49, <2>1 DEF DeleteFile
  <2>3. Candidate' => Candidate
    BY <2>1 DEF Candidate, Present
  <2> QED BY <2>2, <2>3 DEF OrderInv, PipelineOrder, CandidateComplete
<1>50. CASE UNCHANGED vars
  BY <1>50 DEF vars, OrderInv, PipelineOrder, CandidateComplete, Candidate, Present
<1> QED
  BY <1>1, <1>2, <1>3, <1>4, <1>5, <1>6, <1>7, <1>8, <1>9, <1>10, <1>11, <1>12, <1>13,
       <1>14, <1>15, <1>16, <1>17, <1>18, <1>19, <1>20, <1>21, <1>22, <1>23, <1>24,
       <1>25, <1>26, <1>27, <1>28, <1>29, <1>30, <1>31, <1>32, <1>33, <1>34, <1>35,
       <1>36, <1>37, <1>38, <1>39, <1>40, <1>41, <1>42, <1>43, <1>44, <1>45, <1>46,
       <1>47, <1>48, <1>49, <1>50
  DEF Next, PipelineStep, StartImport, ImportStep

LEMMA OrderAlways == Spec => []OrderInv
<1>1. Init => OrderInv
  BY BehindIs DEF Init, OrderInv, PipelineOrder, CandidateComplete, Candidate, Present
<1> QED BY <1>1, TypeInit, TypeStep, OrderStep, PTL DEF Spec

\* No stage runs ahead of the pipeline (Resume), for any number of commands interleaved
\* in any way, with crashes and torn writes.
THEOREM OrderCorrect == Spec => []PipelineOrder
<1>1. OrderInv => PipelineOrder
  BY DEF OrderInv
<1> QED BY <1>1, OrderAlways, PTL

\* An episode is only called a release candidate when each stage has left its file
\* (deriveStage), however commands, crashes and torn writes interleave.
THEOREM CompleteCorrect == Spec => []CandidateComplete
<1>1. OrderInv => CandidateComplete
  BY DEF OrderInv
<1> QED BY <1>1, OrderAlways, PTL
-----------------------------------------------------------------------------
(***************************************************************************)
(* One command at a time, as the CLI is used. What a run found missing     *)
(* stays missing until it writes it, so each manifest describes its file,  *)
(* finished stages are left alone, and what a gate let pass is still there. *)
(***************************************************************************)
\* One run, and an operator who deletes nothing but the reviews that the runbook tells
\* them to delete.
OneCommand == /\ \A r, q \in Runs : r = q
              /\ Deletable \subseteq {"scriptResp", "finalResp"}

\* The files that a run at label l, holding i, found missing.
Missing(l, i) ==
    CASE l = "topic" -> {"topic", "research"}
      [] l \in {"research", "scriptReq", "scriptResp", "shotReqs", "finalReq", "finalResp",
                "prodQA", "publish"} -> {l}
      [] l \in {"script", "scriptMan"} -> {"scriptMan"}
      [] l \in {"shots", "visualMan"} -> {"visualMan"}
      [] l \in {"wav", "mp3", "voiceMan"} -> {"voiceMan"}
      [] l \in {"captions", "subMan"} -> {"subMan"}
      [] l = "rc" -> {"rc", "renderMan"}
      [] l = "renderMan" -> {"renderMan"}
      [] l = "importShots" -> {"shots"}
      [] l = "importVoice" -> {i.path}
      [] l = "episode" /\ i = "generated" -> {"episode"}
      [] OTHER -> {}

\* Beyond the gate of the script review, and beyond that of the final review.
BetweenGates == Production \cup {"ensureFinalReq", "finalReq", "ensureFinalResp",
                                "finalResp", "finalGate"}
AfterGates == {"ensureProdQA", "prodQA", "ensurePublish", "publish"}
Passed(l, i) == l \in AfterGates \/ (l = "episode" /\ i = "release_candidate")
Reviewed(l, i) == l \in BetweenGates \/ Passed(l, i)

\* A run may stand at label l and hold i.
MayStand(l, i) ==
    /\ Missing(l, i) \cap DOMAIN ws = {}
    /\ l = "rc" => Parsed("visualMan") /\ Parsed("subMan")
    /\ l = "prodQA" => Parsed("renderMan")
    /\ ~Interleave => /\ Reviewed(l, i) => ScriptReviewPassed
                      /\ Passed(l, i) => FinalReviewPassed
    /\ ReviewMode = "manual" => /\ l # "scriptResp"
                                /\ l = "importScript" => i.text = i.hash

FilesFit ==
    /\ MediaBinding
    /\ Present("rc") => Parsed("visualMan") /\ Parsed("subMan")
    /\ Present("prodQA") => Parsed("renderMan")
    /\ ReviewMode = "manual" /\ Parsed("scriptResp") =>
           ws["scriptResp"].text = ws["scriptResp"].hash

OneInv == FilesFit /\ \A r \in Runs : MayStand(pc[r], got[r])

\* The files a command or the operator may write again.
Replaceable == {"episode", "script", "scriptResp", "finalResp", "voiceMan",
                "shots", "wav", "mp3", "captions", "rc"}

\* Only a run beyond both gates declares a release candidate.
Declares ==
    ~Candidate /\ Candidate' =>
        \E r \in Runs : pc[r] = "episode" /\ got[r] = "release_candidate"

LEMMA MissingIs ==
    /\ \A i : Missing("topic", i) = {"topic", "research"}
    /\ \A l \in {"research", "scriptReq", "scriptResp", "shotReqs", "finalReq", "finalResp",
                  "prodQA", "publish"} : \A i : Missing(l, i) = {l}
    /\ \A l \in {"script", "scriptMan"} : \A i : Missing(l, i) = {"scriptMan"}
    /\ \A l \in {"shots", "visualMan"} : \A i : Missing(l, i) = {"visualMan"}
    /\ \A l \in {"wav", "mp3", "voiceMan"} : \A i : Missing(l, i) = {"voiceMan"}
    /\ \A l \in {"captions", "subMan"} : \A i : Missing(l, i) = {"subMan"}
    /\ \A i : Missing("rc", i) = {"rc", "renderMan"}
    /\ \A i : Missing("renderMan", i) = {"renderMan"}
    /\ \A i : Missing("importShots", i) = {"shots"}
    /\ \A i : Missing("importVoice", i) = {i.path}
    /\ Missing("episode", "generated") = {"episode"}
    /\ \A i : i # "generated" => Missing("episode", i) = {}
    /\ \A l \in Checks \cup {"idle", "importScript", "importFinal", "importVoiceMan"} :
         \A i : Missing(l, i) = {}
BY DEF Missing, Checks

\* What may be written to the file f.
MediaFit(f, c) ==
    /\ f = "shots" => ~Parsed("visualMan")
    /\ f \in AudioFiles /\ Parsed("voiceMan") => ws["voiceMan"].path # f
    /\ f = "captions" => ~Parsed("subMan")
    /\ f = "rc" => ~Parsed("renderMan")
    /\ f = "visualMan" => c = Torn \/ Matches("shots", c.hash)
    /\ f = "voiceMan" => c = Torn \/ (c.path \in AudioFiles /\ Matches(c.path, c.hash))
    /\ f = "subMan" => c = Torn \/ Matches("captions", c.hash)
    /\ f = "renderMan" => c = Torn \/ Matches("rc", c.hash)

MayWrite(f, c) ==
    /\ f \in Replaceable \/ f \notin DOMAIN ws
    /\ MediaFit(f, c)
    /\ f = "rc" => Parsed("visualMan") /\ Parsed("subMan")
    /\ f = "prodQA" => Parsed("renderMan")
    /\ f = "scriptResp" /\ ReviewMode = "manual" => c = Torn \/ c.text = c.hash

LEMMA WriteFits ==
    ASSUME TypeInv, FilesFit, NEW f, NEW c, MayWrite(f, c), ws' = With(f, c)
    PROVE  FilesFit'
<1> USE DEF Parsed, Present
<1>1. /\ DOMAIN ws' = DOMAIN ws \cup {f} /\ ws'[f] = c
      /\ \A g \in DOMAIN ws : g # f => ws'[g] = ws[g]
  BY DEF With
<1>2. Parsed("voiceMan") => ws["voiceMan"].path \in AudioFiles
  <2>1. Parsed("voiceMan") => ws["voiceMan"] \in [path: AudioFiles, hash: Texts]
    BY Contents DEF TypeInv, TypeOK
  <2> QED BY <2>1
<1>3. (Parsed("visualMan") => VisualMatches)'
  BY <1>1 DEF FilesFit, MediaBinding, VisualMatches, Matches, MayWrite, MediaFit
<1>4. (Parsed("subMan") => SubsMatch)'
  BY <1>1 DEF FilesFit, MediaBinding, SubsMatch, Matches, MayWrite, MediaFit
<1>5. (Parsed("renderMan") => RenderMatches)'
  BY <1>1 DEF FilesFit, MediaBinding, RenderMatches, Matches, MayWrite, MediaFit
<1>6. (Parsed("voiceMan") => VoiceMatches)'
  <2>1. CASE f = "voiceMan"
    BY <1>1, <2>1 DEF VoiceMatches, Matches, MayWrite, MediaFit, AudioFiles
  <2>2. CASE f # "voiceMan"
    BY <1>1, <1>2, <2>2 DEF FilesFit, MediaBinding, VoiceMatches, Matches, MayWrite, MediaFit
  <2> QED BY <2>1, <2>2
<1>7. (Present("rc") => Parsed("visualMan") /\ Parsed("subMan"))'
  BY <1>1 DEF FilesFit, MayWrite, Replaceable
<1>8. (Present("prodQA") => Parsed("renderMan"))'
  BY <1>1 DEF FilesFit, MayWrite, Replaceable
<1>9. (ReviewMode = "manual" /\ Parsed("scriptResp") =>
           ws["scriptResp"].text = ws["scriptResp"].hash)'
  BY <1>1 DEF FilesFit, MayWrite
<1> QED BY <1>3, <1>4, <1>5, <1>6, <1>7, <1>8, <1>9 DEF FilesFit, MediaBinding

\* The run moves on without writing.
LEMMA MoveOne ==
    ASSUME TypeInv, OneCommand, OneInv, NEW r \in Runs, NEW to, NEW i, Move(r, to, i),
           MayStand(to, i)
    PROVE  OneInv' /\ Declares
<1>1. ws' = ws /\ pc'[r] = to /\ got'[r] = i
  BY DEF Move, TypeInv, TypeOK
<1>2. FilesFit'
  BY <1>1 DEF OneInv, FilesFit, MediaBinding, VisualMatches, VoiceMatches, SubsMatch,
     RenderMatches, Matches, Parsed, Present
<1>3. MayStand(to, i)'
  BY <1>1 DEF MayStand, Parsed, Present, ScriptReviewPassed, FinalReviewPassed
<1>4. \A q \in Runs : q = r
  BY DEF OneCommand
<1>5. \A q \in Runs : MayStand(pc[q], got[q])'
  BY <1>1, <1>3, <1>4
<1>6. Declares
  BY <1>1 DEF Declares, Candidate, Present
<1> QED BY <1>2, <1>5, <1>6 DEF OneInv

\* Writing the file f clears a run for the label `to`, or does not disturb it there.
Leads(l, g, f, to, i) ==
    /\ Missing(to, i) \cap (DOMAIN ws \cup {f}) = {}
    /\ to \notin {"rc", "prodQA", "scriptResp", "importScript"}
    /\ Reviewed(to, i) => Reviewed(l, g) /\ f \notin {"script", "scriptResp"}
    /\ Passed(to, i) => Passed(l, g) /\ f # "finalResp"

LEMMA StoreOne ==
    ASSUME TypeInv, OneCommand, OneInv, NEW r \in Runs, NEW f, NEW c, NEW to, NEW i,
           Store(r, f, c, to, i), MayWrite(f, c), Leads(pc[r], got[r], f, to, i),
           f = "episode" /\ c = "release_candidate" =>
               pc[r] = "episode" /\ got[r] = "release_candidate"
    PROVE  OneInv' /\ Declares
<1>1. /\ ws' = With(f, c) /\ pc'[r] = to /\ got'[r] = i
      /\ DOMAIN ws' = DOMAIN ws \cup {f} /\ ws'[f] = c
      /\ \A g \in DOMAIN ws : g # f => ws'[g] = ws[g]
  BY DEF Store, TypeInv, TypeOK, With
<1>2. FilesFit'
  BY <1>1, WriteFits DEF OneInv
<1>3. f \notin {"script", "scriptResp"} /\ ScriptReviewPassed => ScriptReviewPassed'
  BY <1>1 DEF ScriptReviewPassed, Parsed, Present
<1>4. f # "finalResp" /\ FinalReviewPassed => FinalReviewPassed'
  BY <1>1 DEF FinalReviewPassed, Parsed, Present
<1>5. MayStand(pc[r], got[r])
  BY DEF OneInv
<1>6. ~Interleave => /\ Reviewed(to, i) => ScriptReviewPassed'
                     /\ Passed(to, i) => FinalReviewPassed'
  BY <1>3, <1>4, <1>5 DEF MayStand, Leads
<1>7. MayStand(to, i)'
  BY <1>1, <1>6 DEF MayStand, Leads
<1>8. \A q \in Runs : q = r
  BY DEF OneCommand
<1>9. \A q \in Runs : MayStand(pc[q], got[q])'
  BY <1>1, <1>7, <1>8
<1>10. Declares
  BY <1>1 DEF Declares, Candidate, Present
<1> QED BY <1>2, <1>9, <1>10 DEF OneInv

\* A run that stops: nothing is asked of it.
LEMMA StopOne ==
    ASSUME TypeInv, OneCommand, OneInv, NEW r \in Runs, Abort(r)
    PROVE  OneInv' /\ Declares
<1>1. MayStand("idle", NoInput)
  BY MissingIs DEF MayStand, Reviewed, Passed, BetweenGates, Production, AfterGates
<1> QED BY <1>1, MoveOne DEF Abort

\* A run that goes on to a label where nothing new is asked of it.
LEMMA GoOnOne ==
    ASSUME TypeInv, OneCommand, OneInv, NEW r \in Runs, NEW to, NEW i, Move(r, to, i),
           Missing(to, i) \cap DOMAIN ws = {},
           to \notin {"rc", "prodQA", "scriptResp", "importScript"},
           Reviewed(to, i) => Reviewed(pc[r], got[r]), Passed(to, i) => Passed(pc[r], got[r])
    PROVE  OneInv' /\ Declares
<1>1. MayStand(to, i)
  BY DEF MayStand, OneInv
<1> QED BY <1>1, MoveOne

\* Files that any run may write, whatever is there.
LEMMA PlainWrite ==
    ASSUME NEW f, NEW c, f \in {"episode", "script", "finalResp"}
    PROVE  MayWrite(f, c)
BY DEF MayWrite, MediaFit, Replaceable, AudioFiles

\* Files that are written once and describe none.
LEMMA OnceWrite ==
    ASSUME NEW f, NEW c, f \notin DOMAIN ws,
           f \in {"topic", "research", "scriptMan", "scriptReq", "shotReqs", "finalReq", "publish"}
    PROVE  MayWrite(f, c)
BY DEF MayWrite, MediaFit, AudioFiles

\* A run that writes one of these files where its label says, or ends.
LEMMA WriteOne ==
    ASSUME TypeInv, OneCommand, OneInv, NEW r \in Runs, NEW f, NEW c, NEW to, NEW i,
           Store(r, f, c, to, i), MayWrite(f, c), f # "episode",
           Missing(to, i) \subseteq Missing(pc[r], got[r]) \ {f},
           to \in Checks \cup {"idle", "research", "scriptMan", "visualMan", "voiceMan", "subMan",
                              "renderMan", "importVoiceMan"},
           f \in {"script", "scriptResp"} => ~Reviewed(to, i),
           Reviewed(to, i) => Reviewed(pc[r], got[r]),
           to \notin AfterGates
    PROVE  OneInv' /\ Declares
<1>1. MayStand(pc[r], got[r])
  BY DEF OneInv
<1>2. Leads(pc[r], got[r], f, to, i)
  BY <1>1 DEF Leads, MayStand, Checks, Passed, Reviewed
<1> QED BY <1>2, StoreOne

LEMMA EnsureOne ==
    ASSUME TypeInv, OneCommand, OneInv, NEW r \in Runs, NEW at, NEW file, NEW ready, NEW start,
           NEW input, NEW next, Ensure(r, at, file, ready, start, input, next),
           next \in Checks \cup {"idle"},
           Reviewed(next, NoInput) => Reviewed(at, got[r]),
           Passed(next, NoInput) => Passed(at, got[r]),
           file \notin DOMAIN ws /\ ready => MayStand(start, input)
    PROVE  OneInv' /\ Declares
<1>1. Missing(next, NoInput) = {} /\ next \notin {"rc", "prodQA", "scriptResp", "importScript"}
  BY MissingIs DEF Checks
<1> QED BY <1>1, GoOnOne, MoveOne, StopOne DEF Ensure, Abort, Present

LEMMA StandsAt ==
    ASSUME NEW l, NEW i, Missing(l, i) \cap DOMAIN ws = {}, NEW r \in Runs, OneInv,
           l \notin {"rc", "prodQA", "scriptResp", "importScript"},
           Reviewed(l, i) => Reviewed(pc[r], got[r]), Passed(l, i) => Passed(pc[r], got[r])
    PROVE  MayStand(l, i)
BY DEF MayStand, OneInv

\* Commands that start, and the checks of a resume.
LEMMA StartsOne ==
    ASSUME TypeInv, OneCommand, OneInv, NEW r \in Runs,
           StartGenerate(r) \/ StartResume(r) \/ Resume(r) \/ StartImport(r)
    PROVE  OneInv' /\ Declares
<1> USE DEF Reviewed, Passed, BetweenGates, Production, AfterGates
<1>1. CASE StartGenerate(r)
  <2>1. Missing("resume", NoInput) = {} /\ Missing("episode", "generated") = {"episode"}
    BY MissingIs DEF Checks
  <2> QED BY <1>1, <2>1, GoOnOne DEF StartGenerate, Present
<1>2. CASE StartResume(r)
  <2>1. Missing("resume", NoInput) = {}
    BY MissingIs DEF Checks
  <2> QED BY <1>2, <2>1, GoOnOne DEF StartResume
<1>3. CASE Resume(r)
  <2>1. Missing("ensureScript", NoInput) = {}
    BY MissingIs DEF Checks
  <2> QED BY <1>3, <2>1, GoOnOne, StopOne DEF Resume, Abort
<1>4. CASE StartImportScriptReview(r)
  <2>1. PICK v \in Verdicts, s \in Scripts :
            Move(r, "importScript", [pass |-> v, hash |-> s, text |-> s])
    BY <1>4 DEF StartImportScriptReview
  <2>2. MayStand("importScript", [pass |-> v, hash |-> s, text |-> s])
    BY MissingIs DEF MayStand
  <2> QED BY <2>1, <2>2, MoveOne
<1>5. CASE StartImportFinalReview(r)
  <2>1. PICK o \in Outcomes : Move(r, "importFinal", o)
    BY <1>5 DEF StartImportFinalReview
  <2> QED BY <2>1, MissingIs, GoOnOne
<1>6. CASE StartImportVisualShot(r)
  <2>1. PICK t \in Takes : Move(r, "importShots", t)
    BY <1>6 DEF StartImportVisualShot
  <2>2. "shots" \notin DOMAIN ws
    BY <1>6 DEF StartImportVisualShot, Present
  <2>3. Missing("importShots", t) = {"shots"}
    BY MissingIs
  <2> QED BY <2>1, <2>2, <2>3, GoOnOne
<1>7. CASE StartImportVoice(r)
  <2>1. PICK v \in Recordings : ~Present(v.path) /\ Move(r, "importVoice", v)
    BY <1>7 DEF StartImportVoice
  <2>2. Missing("importVoice", v) = {v.path}
    BY MissingIs
  <2> QED BY <2>1, <2>2, GoOnOne DEF Present
<1> QED BY <1>1, <1>2, <1>3, <1>4, <1>5, <1>6, <1>7 DEF StartImport

LEMMA ChecksOne ==
    ASSUME TypeInv, OneCommand, OneInv, NEW r \in Runs,
           \/ EnsureScript(r) \/ EnsureScriptReq(r) \/ EnsureScriptResp(r) \/ ScriptGate(r)
           \/ EnsureShotReqs(r) \/ EnsureVisuals(r) \/ EnsureVoice(r) \/ EnsureSubs(r)
           \/ EnsureFinalReq(r) \/ EnsureFinalResp(r) \/ FinalGate(r)
           \/ EnsureProdQA(r) \/ EnsurePublish(r)
    PROVE  OneInv' /\ Declares
<1> USE DEF Reviewed, Passed, BetweenGates, Production, AfterGates
<1>0. MayStand(pc[r], got[r])
  BY DEF OneInv
<1>1. CASE EnsureScript(r)
  <2>1. "scriptMan" \notin DOMAIN ws => MayStand("script", NoInput)
    BY MissingIs, StandsAt
  <2> QED BY <1>1, <2>1, EnsureOne DEF EnsureScript, Checks
<1>2. CASE EnsureScriptReq(r)
  <2>1. \A i : "scriptReq" \notin DOMAIN ws => MayStand("scriptReq", i)
    BY MissingIs, StandsAt
  <2> QED BY <1>2, <2>1, EnsureOne DEF EnsureScriptReq, Checks
<1>3. CASE EnsureScriptResp(r)
  <2>1. CASE ReviewMode = "manual"
    <3>1. Missing("scriptGate", NoInput) = {}
      BY MissingIs DEF Checks
    <3> QED BY <1>3, <2>1, <3>1, GoOnOne DEF EnsureScriptResp
  <2>2. CASE ReviewMode # "manual"
    <3>1. \A i : "scriptResp" \notin DOMAIN ws => MayStand("scriptResp", i)
      BY <2>2, MissingIs DEF MayStand
    <3> QED BY <1>3, <2>2, <3>1, EnsureOne DEF EnsureScriptResp, Checks
  <2> QED BY <2>1, <2>2
<1>4. CASE ScriptGate(r)
  <2>1. CASE ScriptReviewPassed
    <3>1. MayStand("ensureShotReqs", NoInput)
      BY <2>1, MissingIs DEF MayStand, Checks
    <3> QED BY <1>4, <2>1, <3>1, MoveOne DEF ScriptGate
  <2>2. CASE Move(r, "episode", "needs_review")
    BY <2>2, MissingIs, GoOnOne
  <2> QED BY <1>4, <2>1, <2>2, StopOne DEF ScriptGate
<1>5. CASE EnsureShotReqs(r)
  <2>1. pc[r] = "ensureShotReqs"
    BY <1>5 DEF EnsureShotReqs, Ensure
  <2>2. \A i : "shotReqs" \notin DOMAIN ws => MayStand("shotReqs", i)
    BY <2>1, MissingIs, StandsAt
  <2> QED BY <1>5, <2>2, EnsureOne DEF EnsureShotReqs, Checks
<1>6. CASE EnsureVisuals(r)
  <2>1. pc[r] = "ensureVisuals"
    BY <1>6 DEF EnsureVisuals, Ensure
  <2>2. \A i : "visualMan" \notin DOMAIN ws => MayStand("shots", i)
    BY <2>1, MissingIs, StandsAt
  <2> QED BY <1>6, <2>2, EnsureOne DEF EnsureVisuals, Checks
<1>7. CASE EnsureVoice(r)
  <2>1. pc[r] = "ensureVoice"
    BY <1>7 DEF EnsureVoice, Ensure
  <2>2. \A i : "voiceMan" \notin DOMAIN ws => MayStand("wav", i)
    BY <2>1, MissingIs, StandsAt
  <2> QED BY <1>7, <2>2, EnsureOne DEF EnsureVoice, Checks
<1>8. CASE EnsureSubs(r)
  <2>1. pc[r] = "ensureSubs"
    BY <1>8 DEF EnsureSubs, Ensure
  <2>2. \A i : "subMan" \notin DOMAIN ws => MayStand("captions", i)
    BY <2>1, MissingIs, StandsAt
  <2> QED BY <1>8, <2>2, EnsureOne DEF EnsureSubs, Checks
<1>9. CASE EnsureFinalReq(r)
  <2>1. pc[r] = "ensureFinalReq"
    BY <1>9 DEF EnsureFinalReq, Ensure
  <2>2. \A i : "finalReq" \notin DOMAIN ws => MayStand("finalReq", i)
    BY <2>1, MissingIs, StandsAt
  <2> QED BY <1>9, <2>2, EnsureOne DEF EnsureFinalReq, Checks
<1>10. CASE EnsureFinalResp(r)
  <2>1. pc[r] = "ensureFinalResp"
    BY <1>10 DEF EnsureFinalResp, Ensure
  <2>2. "finalResp" \notin DOMAIN ws => MayStand("finalResp", NoInput)
    BY <2>1, MissingIs, StandsAt
  <2>3. CASE ReviewMode = "manual"
    <3>1. Missing("finalGate", NoInput) = {}
      BY MissingIs DEF Checks
    <3> QED BY <1>10, <2>1, <2>3, <3>1, GoOnOne DEF EnsureFinalResp
  <2>4. CASE ReviewMode # "manual"
    BY <1>10, <2>2, <2>4, EnsureOne DEF EnsureFinalResp, Checks
  <2> QED BY <2>3, <2>4
<1>11. CASE FinalGate(r)
  <2>1. CASE FinalReviewPassed
    <3>1. MayStand("ensureProdQA", NoInput)
      BY <1>0, <1>11, <2>1, MissingIs DEF MayStand, Checks, FinalGate
    <3> QED BY <1>11, <2>1, <3>1, MoveOne DEF FinalGate
  <2>2. CASE Move(r, "episode", "release_blocked")
    BY <2>2, MissingIs, GoOnOne
  <2> QED BY <1>11, <2>1, <2>2, StopOne DEF FinalGate
<1>12. CASE EnsureProdQA(r)
  <2>1. pc[r] = "ensureProdQA"
    BY <1>12 DEF EnsureProdQA, Ensure
  <2>2. "prodQA" \notin DOMAIN ws /\ Parsed("renderMan") => MayStand("prodQA", NoInput)
    BY <1>0, <2>1, MissingIs DEF MayStand
  <2> QED BY <1>12, <2>2, EnsureOne DEF EnsureProdQA, Checks
<1>13. CASE EnsurePublish(r)
  <2>1. pc[r] = "ensurePublish"
    BY <1>13 DEF EnsurePublish
  <2>2. Missing("publish", NoInput) = {"publish"} /\ Missing("episode", "release_candidate") = {}
    BY MissingIs
  <2> QED BY <1>13, <2>1, <2>2, GoOnOne DEF EnsurePublish, Present
<1> QED BY <1>1, <1>2, <1>3, <1>4, <1>5, <1>6, <1>7, <1>8, <1>9, <1>10, <1>11, <1>12, <1>13

\* What a run at its label knows to be missing, when it writes there.
LEMMA MissingHere ==
    ASSUME OneInv, NEW r \in Runs
    PROVE  Missing(pc[r], got[r]) \cap DOMAIN ws = {}
BY DEF OneInv, MayStand

\* The steps of a resume that write, up to the approved script.
LEMMA ScriptWritesOne ==
    ASSUME TypeInv, OrderInv, OneCommand, OneInv, NEW r \in Runs,
           \/ WriteEpisode(r) \/ WriteTopic(r) \/ WriteResearch(r) \/ UpdateStatus(r)
           \/ WriteScript(r) \/ WriteScriptMan(r) \/ WriteScriptReq(r)
           \/ ReceiveScriptReview(r) \/ WriteShotReqs(r)
    PROVE  OneInv' /\ Declares
<1> USE DEF Reviewed, Passed, BetweenGates, Production, AfterGates, Checks
<1>0. Missing(pc[r], got[r]) \cap DOMAIN ws = {}
  BY MissingHere
<1>1. CASE WriteEpisode(r)
  <2>1. pc[r] = "episode" /\ got[r] = "generated" /\ "episode" \notin DOMAIN ws
    BY <1>0, <1>1, MissingIs DEF WriteEpisode
  <2>2. "topic" \notin DOMAIN ws /\ "research" \notin DOMAIN ws
    <3>1. Prior("topic") = {"episode"} /\ Prior("research") = {"episode", "topic"}
      BY DEF Prior
    <3> QED BY <2>1, <3>1 DEF OrderInv, PipelineOrder, OneCommand
  <2>3. Leads("episode", "generated", "episode", "topic", NoInput)
    BY <2>2, MissingIs DEF Leads
  <2>4. MayWrite("episode", "generated")
    BY PlainWrite
  <2> QED BY <1>1, <2>1, <2>3, <2>4, StoreOne DEF WriteEpisode
<1>2. CASE WriteTopic(r)
  <2>1. /\ Missing("topic", got[r]) = {"topic", "research"}
        /\ Missing("research", NoInput) = {"research"}
    BY MissingIs
  <2>2. MayWrite("topic", "written")
    BY <1>0, <1>2, <2>1, OnceWrite DEF WriteTopic
  <2> QED BY <1>2, <2>1, <2>2, WriteOne DEF WriteTopic
<1>3. CASE WriteResearch(r)
  <2>1. Missing("research", got[r]) = {"research"} /\ Missing("resume", NoInput) = {}
    BY MissingIs
  <2>2. MayWrite("research", "written")
    BY <1>0, <1>3, <2>1, OnceWrite DEF WriteResearch
  <2> QED BY <1>3, <2>1, <2>2, WriteOne DEF WriteResearch
<1>4. CASE UpdateStatus(r)
  <2>1. Leads("episode", got[r], "episode", "idle", NoInput)
    BY MissingIs DEF Leads
  <2>2. MayWrite("episode", got[r])
    BY PlainWrite
  <2> QED BY <1>4, <2>1, <2>2, StoreOne, StopOne DEF UpdateStatus
<1>5. CASE WriteScript(r)
  <2>1. Missing("script", got[r]) = {"scriptMan"} /\ Missing("scriptMan", NoInput) = {"scriptMan"}
    BY MissingIs
  <2>2. MayWrite("script", Draft)
    BY PlainWrite
  <2> QED BY <1>5, <2>1, <2>2, WriteOne DEF WriteScript
<1>6. CASE WriteScriptMan(r)
  <2>1. Missing("scriptMan", got[r]) = {"scriptMan"} /\ Missing("ensureScriptReq", NoInput) = {}
    BY MissingIs
  <2>2. MayWrite("scriptMan", [hash |-> ws["script"]])
    BY <1>0, <1>6, <2>1, OnceWrite DEF WriteScriptMan
  <2> QED BY <1>6, <2>1, <2>2, WriteOne, StopOne DEF WriteScriptMan
<1>7. CASE WriteScriptReq(r)
  <2>1. Missing("scriptReq", got[r]) = {"scriptReq"} /\ Missing("ensureScriptResp", NoInput) = {}
    BY MissingIs
  <2>2. MayWrite("scriptReq", got[r])
    BY <1>0, <1>7, <2>1, OnceWrite DEF WriteScriptReq
  <2> QED BY <1>7, <2>1, <2>2, WriteOne DEF WriteScriptReq
<1>8. CASE ReceiveScriptReview(r)
  <2>1. Missing("scriptGate", NoInput) = {}
    BY MissingIs
  <2>2. ReviewMode # "manual"
    BY <1>8 DEF ReceiveScriptReview, OneInv, MayStand
  <2>3. \A c : MayWrite("scriptResp", c)
    BY <2>2 DEF MayWrite, MediaFit, Replaceable, AudioFiles
  <2>4. CASE Abort(r)
    BY <2>4, StopOne
  <2>5. CASE ~Abort(r)
    <3>1. PICK v \in Verdicts :
            Store(r, "scriptResp", [pass |-> v, hash |-> ws["script"], text |-> got[r]],
                  "scriptGate", NoInput)
      BY <1>8, <2>5 DEF ReceiveScriptReview
    <3> QED BY <3>1, <2>1, <2>3, WriteOne
  <2> QED BY <2>4, <2>5
<1>9. CASE WriteShotReqs(r)
  <2>1. Missing("shotReqs", got[r]) = {"shotReqs"} /\ Missing("ensureVisuals", NoInput) = {}
    BY MissingIs
  <2>2. MayWrite("shotReqs", [src |-> got[r]])
    BY <1>0, <1>9, <2>1, OnceWrite DEF WriteShotReqs
  <2> QED BY <1>9, <2>1, <2>2, WriteOne DEF WriteShotReqs
<1> QED BY <1>1, <1>2, <1>3, <1>4, <1>5, <1>6, <1>7, <1>8, <1>9

\* The steps that make the media and their manifests.
LEMMA MediaWritesOne ==
    ASSUME TypeInv, OneCommand, OneInv, NEW r \in Runs,
           \/ RunVisualProvider(r) \/ WriteVisualMan(r) \/ RunVoiceProvider(r) \/ WriteVoiceMan(r)
           \/ WriteCaptions(r) \/ WriteSubMan(r) \/ RunFFmpeg(r) \/ WriteRenderMan(r)
    PROVE  OneInv' /\ Declares
<1> USE DEF Reviewed, Passed, BetweenGates, Production, AfterGates, Checks
<1>0. Missing(pc[r], got[r]) \cap DOMAIN ws = {}
  BY MissingHere
<1>1. CASE RunVisualProvider(r)
  <2>1. PICK t \in Takes : Store(r, "shots", t, "visualMan", got[r])
    BY <1>1 DEF RunVisualProvider
  <2>2. /\ Missing("shots", got[r]) = {"visualMan"} /\ Missing("visualMan", got[r]) = {"visualMan"}
        /\ pc[r] = "shots"
    BY <1>1, MissingIs DEF RunVisualProvider
  <2>3. MayWrite("shots", t)
    BY <1>0, <2>2 DEF MayWrite, MediaFit, Replaceable, AudioFiles, Parsed, Present
  <2> QED BY <2>1, <2>2, <2>3, WriteOne
<1>2. CASE WriteVisualMan(r)
  <2>1. /\ Missing("visualMan", got[r]) = {"visualMan"} /\ Missing("ensureVoice", NoInput) = {}
        /\ pc[r] = "visualMan"
    BY <1>2, MissingIs DEF WriteVisualMan
  <2>2. Present("shots") => MayWrite("visualMan", [src |-> got[r], hash |-> ws["shots"]])
    BY <1>0, <2>1 DEF MayWrite, MediaFit, AudioFiles, Matches
  <2> QED BY <1>2, <2>1, <2>2, WriteOne, StopOne DEF WriteVisualMan
<1>3. CASE RunVoiceProvider(r)
  <2>1. /\ Missing("wav", got[r]) = {"voiceMan"} /\ Missing("voiceMan", NoInput) = {"voiceMan"}
        /\ pc[r] = "wav"
    BY <1>3, MissingIs DEF RunVoiceProvider
  <2>2. MayWrite("wav", got[r])
    BY <1>0, <2>1 DEF MayWrite, MediaFit, Replaceable, AudioFiles, Parsed, Present
  <2> QED BY <1>3, <2>1, <2>2, WriteOne DEF RunVoiceProvider
<1>4. CASE WriteVoiceMan(r)
  <2>1. /\ Missing("voiceMan", got[r]) = {"voiceMan"} /\ Missing("ensureSubs", NoInput) = {}
        /\ pc[r] = "voiceMan"
    BY <1>4, MissingIs DEF WriteVoiceMan
  <2>2. Present("wav") => MayWrite("voiceMan", [path |-> "wav", hash |-> ws["wav"]])
    BY DEF MayWrite, MediaFit, Replaceable, AudioFiles, Matches
  <2> QED BY <1>4, <2>1, <2>2, WriteOne, StopOne DEF WriteVoiceMan
<1>5. CASE WriteCaptions(r)
  <2>1. /\ Missing("captions", got[r]) = {"subMan"} /\ Missing("subMan", NoInput) = {"subMan"}
        /\ pc[r] = "captions"
    BY <1>5, MissingIs DEF WriteCaptions
  <2>2. MayWrite("captions", got[r])
    BY <1>0, <2>1 DEF MayWrite, MediaFit, Replaceable, AudioFiles, Parsed, Present
  <2> QED BY <1>5, <2>1, <2>2, WriteOne DEF WriteCaptions
<1>6. CASE WriteSubMan(r)
  <2>1. /\ Missing("subMan", got[r]) = {"subMan"} /\ Missing("ensureRender", NoInput) = {}
        /\ pc[r] = "subMan"
    BY <1>6, MissingIs DEF WriteSubMan
  <2>2. Parsed("captions") => MayWrite("subMan", [hash |-> ws["captions"]])
    BY <1>0, <2>1 DEF MayWrite, MediaFit, AudioFiles, Matches, Parsed
  <2> QED BY <1>6, <2>1, <2>2, WriteOne, StopOne DEF WriteSubMan
<1>7. CASE RunFFmpeg(r)
  <2>1. /\ Missing("rc", got[r]) = {"rc", "renderMan"}
        /\ Missing("renderMan", NoInput) = {"renderMan"}
        /\ pc[r] = "rc"
    BY <1>7, MissingIs DEF RunFFmpeg
  <2>2. Parsed("visualMan") /\ Parsed("subMan")
    BY <2>1 DEF OneInv, MayStand
  <2>3. MayWrite("rc", got[r])
    BY <1>0, <2>1, <2>2 DEF MayWrite, MediaFit, Replaceable, AudioFiles, Parsed, Present
  <2> QED BY <1>7, <2>1, <2>3, WriteOne DEF RunFFmpeg
<1>8. CASE WriteRenderMan(r)
  <2>1. /\ Missing("renderMan", got[r]) = {"renderMan"} /\ Missing("ensureFinalReq", NoInput) = {}
        /\ pc[r] = "renderMan"
    BY <1>8, MissingIs DEF WriteRenderMan
  <2>2. Parsed("rc") => MayWrite("renderMan", [hash |-> ws["rc"]])
    BY <1>0, <2>1 DEF MayWrite, MediaFit, AudioFiles, Matches, Parsed
  <2> QED BY <1>8, <2>1, <2>2, WriteOne, StopOne DEF WriteRenderMan
<1> QED BY <1>1, <1>2, <1>3, <1>4, <1>5, <1>6, <1>7, <1>8

\* The steps that write the final review, the reports and the release.
LEMMA ReleaseWritesOne ==
    ASSUME TypeInv, OneCommand, OneInv, NEW r \in Runs,
           \/ WriteFinalReq(r) \/ ReceiveFinalReview(r) \/ WriteProdQA(r) \/ WritePublish(r)
    PROVE  OneInv' /\ Declares
<1> USE DEF Reviewed, Passed, BetweenGates, Production, AfterGates, Checks
<1>0. Missing(pc[r], got[r]) \cap DOMAIN ws = {}
  BY MissingHere
<1>1. CASE WriteFinalReq(r)
  <2>1. /\ Missing("finalReq", got[r]) = {"finalReq"} /\ Missing("ensureFinalResp", NoInput) = {}
        /\ pc[r] = "finalReq"
    BY <1>1, MissingIs DEF WriteFinalReq
  <2>2. MayWrite("finalReq", got[r])
    BY <1>0, <2>1, OnceWrite
  <2> QED BY <1>1, <2>1, <2>2, WriteOne DEF WriteFinalReq
<1>2. CASE ReceiveFinalReview(r)
  <2>1. PICK o \in Outcomes : Store(r, "finalResp", o, "finalGate", NoInput)
    BY <1>2 DEF ReceiveFinalReview
  <2>2. Missing("finalGate", NoInput) = {} /\ pc[r] = "finalResp"
    BY <1>2, MissingIs DEF ReceiveFinalReview
  <2>3. MayWrite("finalResp", o)
    BY PlainWrite
  <2> QED BY <2>1, <2>2, <2>3, WriteOne
<1>3. CASE WriteProdQA(r)
  <2>1. /\ Missing("prodQA", got[r]) = {"prodQA"} /\ Missing("ensurePublish", NoInput) = {}
        /\ pc[r] = "prodQA"
    BY <1>3, MissingIs DEF WriteProdQA
  <2>2. Parsed("renderMan")
    BY <2>1 DEF OneInv, MayStand
  <2>3. MayWrite("prodQA", "written")
    BY <1>0, <2>1, <2>2 DEF MayWrite, MediaFit, AudioFiles
  <2>4. Leads("prodQA", got[r], "prodQA", "ensurePublish", NoInput)
    BY <2>1 DEF Leads
  <2> QED BY <1>3, <2>1, <2>3, <2>4, StoreOne DEF WriteProdQA
<1>4. CASE WritePublish(r)
  <2>1. /\ Missing("publish", got[r]) = {"publish"} /\ Missing("episode", "release_candidate") = {}
        /\ pc[r] = "publish"
    BY <1>4, MissingIs DEF WritePublish
  <2>2. MayWrite("publish", "written")
    BY <1>0, <2>1, OnceWrite
  <2>3. Leads("publish", got[r], "publish", "episode", "release_candidate")
    BY <2>1 DEF Leads
  <2> QED BY <1>4, <2>1, <2>2, <2>3, StoreOne DEF WritePublish
<1> QED BY <1>1, <1>2, <1>3, <1>4

\* The writes of the import commands.
LEMMA ImportWritesOne ==
    ASSUME TypeInv, OneCommand, OneInv, NEW r \in Runs, ImportStep(r)
    PROVE  OneInv' /\ Declares
<1> USE DEF Reviewed, Passed, BetweenGates, Production, AfterGates, Checks
<1>0. Missing(pc[r], got[r]) \cap DOMAIN ws = {} /\ MayStand(pc[r], got[r])
  BY MissingHere DEF OneInv
<1>1. Missing("idle", NoInput) = {}
  BY MissingIs
<1>2. CASE pc[r] = "importScript" /\ Store(r, "scriptResp", got[r], "idle", NoInput)
  <2>1. MayWrite("scriptResp", got[r])
    BY <1>0, <1>2 DEF MayStand, MayWrite, MediaFit, Replaceable, AudioFiles
  <2> QED BY <1>1, <1>2, <2>1, WriteOne
<1>3. CASE pc[r] = "importFinal" /\ Store(r, "finalResp", got[r], "idle", NoInput)
  <2>1. MayWrite("finalResp", got[r])
    BY PlainWrite
  <2> QED BY <1>1, <1>3, <2>1, WriteOne
<1>4. CASE CopyVisualShot(r)
  <2>1. "shots" \notin DOMAIN ws
    BY <1>0, <1>4, MissingIs DEF CopyVisualShot
  <2>2. ~Parsed("visualMan")
    BY <2>1 DEF OneInv, FilesFit, MediaBinding, VisualMatches, Matches, Present
  <2>3. MayWrite("shots", got[r])
    BY <2>2 DEF MayWrite, MediaFit, Replaceable, AudioFiles
  <2> QED BY <1>1, <1>4, <2>3, WriteOne DEF CopyVisualShot
<1>5. CASE CopyRecording(r)
  <2>1. got[r].path \in AudioFiles
    BY <1>5 DEF CopyRecording, TypeInv, Holds
  <2>2. got[r].path \notin DOMAIN ws
    BY <1>0, <1>5, MissingIs DEF CopyRecording
  <2>3. Parsed("voiceMan") => ws["voiceMan"].path # got[r].path
    BY <2>2 DEF OneInv, FilesFit, MediaBinding, VoiceMatches, Matches, Present
  <2>4. MayWrite(got[r].path, got[r].hash)
    BY <2>1, <2>3 DEF MayWrite, MediaFit, Replaceable, AudioFiles
  <2>5. Missing("importVoiceMan", got[r]) = {}
    BY MissingIs
  <2> QED BY <1>5, <2>1, <2>4, <2>5, WriteOne DEF CopyRecording, AudioFiles
<1>6. CASE WriteImportedVoiceMan(r)
  <2>1. got[r].path \in AudioFiles
    BY <1>6 DEF WriteImportedVoiceMan, TypeInv, Holds
  <2>2. Present(got[r].path) =>
          MayWrite("voiceMan", [path |-> got[r].path, hash |-> ws[got[r].path]])
    BY <2>1 DEF MayWrite, MediaFit, Replaceable, AudioFiles, Matches
  <2> QED BY <1>1, <1>6, <2>2, WriteOne, StopOne DEF WriteImportedVoiceMan
<1> QED BY <1>2, <1>3, <1>4, <1>5, <1>6 DEF ImportStep, WriteImportedReview

LEMMA RenderOne ==
    ASSUME TypeInv, OrderInv, OneCommand, OneInv, NEW r \in Runs, EnsureRender(r)
    PROVE  OneInv' /\ Declares
<1> USE DEF Reviewed, Passed, BetweenGates, Production, AfterGates, Checks
<1>1. pc[r] = "ensureRender" /\ MayStand(pc[r], got[r])
  BY DEF EnsureRender, OneInv
<1>2. Missing("ensureFinalReq", NoInput) = {}
  BY MissingIs
<1>3. CASE ~Present("rc") /\ RenderReady
  <2>1. "renderMan" \notin DOMAIN ws
    BY <1>3, PriorIs DEF OrderInv, PipelineOrder, OneCommand, Present
  <2>2. \A i : MayStand("rc", i)
    BY <1>1, <1>3, <2>1, MissingIs DEF MayStand, RenderReady, Present
  <2> QED BY <1>3, <2>2, MoveOne DEF EnsureRender
<1> QED BY <1>1, <1>2, <1>3, GoOnOne, StopOne DEF EnsureRender

\* What a run that dies may leave half written.
LEMMA TornFits ==
    ASSUME TypeInv, OneInv, NEW r \in Runs, NEW f \in Target(r)
    PROVE  MayWrite(f, Torn)
<1>0. Missing(pc[r], got[r]) \cap DOMAIN ws = {} /\ MayStand(pc[r], got[r])
  BY MissingHere DEF OneInv
<1> USE DEF MayWrite, MediaFit, Replaceable, AudioFiles
<1>1. CASE pc[r] \in {"importScript", "importFinal", "importVoiceMan"}
  <2>1. f \in {"scriptResp", "finalResp", "voiceMan"}
    BY <1>1 DEF Target, Files
  <2> QED BY <2>1
<1>2. CASE pc[r] = "importShots"
  <2>1. f = "shots" /\ "shots" \notin DOMAIN ws
    BY <1>0, <1>2, MissingIs DEF Target, Files
  <2>2. ~Parsed("visualMan")
    BY <2>1 DEF OneInv, FilesFit, MediaBinding, VisualMatches, Matches, Present
  <2> QED BY <2>1, <2>2
<1>3. CASE pc[r] = "importVoice"
  <2>1. f = got[r].path
    BY <1>3 DEF Target, Files
  <2>2. f \in AudioFiles
    BY <1>3, <2>1 DEF TypeInv, Holds
  <2>3. f \notin DOMAIN ws
    BY <1>0, <1>3, <2>1, MissingIs
  <2>4. Parsed("voiceMan") => ws["voiceMan"].path # f
    BY <2>3 DEF OneInv, FilesFit, MediaBinding, VoiceMatches, Matches, Present
  <2> QED BY <2>2, <2>4
<1>4. CASE pc[r] \in Files
  <2>1. f = pc[r]
    BY <1>4 DEF Target, Files
  <2>2. CASE f \in {"episode", "script", "finalResp", "scriptResp", "voiceMan"}
    BY <2>2
  <2>3. CASE f \in {"topic", "research", "scriptMan", "scriptReq", "shotReqs", "finalReq",
                    "publish", "visualMan", "subMan", "renderMan"}
    <3>1. f \in Missing(f, got[r])
      BY <2>3, MissingIs
    <3> QED BY <1>0, <2>1, <2>3, <3>1
  <2>4. CASE f = "prodQA"
    <3>1. "prodQA" \in Missing(f, got[r]) /\ Parsed("renderMan")
      BY <1>0, <2>1, <2>4, MissingIs DEF MayStand
    <3> QED BY <1>0, <2>1, <2>4, <3>1
  <2>5. CASE f = "rc"
    <3>1. Missing(f, got[r]) = {"rc", "renderMan"} /\ Parsed("visualMan") /\ Parsed("subMan")
      BY <1>0, <2>1, <2>5, MissingIs DEF MayStand
    <3> QED BY <1>0, <2>1, <2>5, <3>1 DEF Parsed, Present
  <2>6. CASE f = "shots"
    <3>1. Missing(f, got[r]) = {"visualMan"}
      BY <2>6, MissingIs
    <3> QED BY <1>0, <2>1, <2>6, <3>1 DEF Parsed, Present
  <2>7. CASE f \in {"wav", "mp3"}
    <3>1. Missing(f, got[r]) = {"voiceMan"}
      BY <2>7, MissingIs
    <3> QED BY <1>0, <2>1, <2>7, <3>1 DEF Parsed, Present
  <2>8. CASE f = "captions"
    <3>1. Missing(f, got[r]) = {"subMan"}
      BY <2>8, MissingIs
    <3> QED BY <1>0, <2>1, <2>8, <3>1 DEF Parsed, Present
  <2> QED BY <1>4, <2>1, <2>2, <2>3, <2>4, <2>5, <2>6, <2>7, <2>8 DEF Files
<1>5. CASE pc[r] \notin Files \cup {"importScript", "importFinal", "importVoiceMan", "importShots",
                                    "importVoice"}
  BY <1>5 DEF Target
<1> QED BY <1>1, <1>2, <1>3, <1>4, <1>5

LEMMA FaultOne ==
    ASSUME TypeInv, OneCommand, OneInv, NEW r \in Runs, Fault(r)
    PROVE  OneInv' /\ Declares
<1>1. pc'[r] = "idle" /\ got'[r] = NoInput /\ \A q \in Runs : q = r
  BY DEF Fault, TypeInv, TypeOK, OneCommand
<1>2. \A q \in Runs : MayStand(pc[q], got[q])'
  BY <1>1, MissingIs DEF MayStand, Reviewed, Passed, BetweenGates, Production, AfterGates
<1>3. CASE UNCHANGED ws
  <2>1. FilesFit'
    BY <1>3 DEF OneInv, FilesFit, MediaBinding, VisualMatches, VoiceMatches, SubsMatch,
       RenderMatches, Matches, Parsed, Present
  <2>2. Declares
    BY <1>3 DEF Declares, Candidate, Present
  <2> QED BY <1>2, <2>1, <2>2 DEF OneInv
<1>4. CASE \E f \in Target(r) : ws' = With(f, Torn)
  <2>1. PICK f \in Target(r) : ws' = With(f, Torn)
    BY <1>4
  <2>2. MayWrite(f, Torn)
    BY TornFits
  <2>3. FilesFit'
    BY <2>1, <2>2, WriteFits DEF OneInv
  <2>4. /\ DOMAIN ws' = DOMAIN ws \cup {f} /\ ws'[f] = Torn
        /\ \A g \in DOMAIN ws : g # f => ws'[g] = ws[g]
    BY <2>1 DEF With
  <2>5. Candidate' => Candidate
    BY <2>4, PilotAssumption DEF Candidate, Present, Statuses
  <2> QED BY <1>2, <2>3, <2>5 DEF OneInv, Declares
<1> QED BY <1>3, <1>4 DEF Fault

\* The operator edits script.md or deletes a review: unless commands are
\* interleaved with it, none is running then.
LEMMA OperatorOne ==
    ASSUME TypeInv, OneCommand, OneInv, EditScript \/ DeleteFile
    PROVE  OneInv' /\ Declares
<1>1. UNCHANGED <<pc, got>> /\ (~Interleave => \A r \in Runs : pc[r] = "idle")
  BY DEF EditScript, DeleteFile, OperatorMayAct
<1>2. \A r \in Runs : MayStand(pc[r], got[r])
  BY DEF OneInv
<1>3. ~Interleave => \A r \in Runs : ~Reviewed(pc[r], got[r]) /\ ~Passed(pc[r], got[r])
  BY <1>1 DEF Reviewed, Passed, BetweenGates, Production, AfterGates
<1>4. CASE EditScript
  <2>1. PICK s \in Edits : Present("script") /\ ws' = With("script", s)
    BY <1>4 DEF EditScript
  <2>2. DOMAIN ws' = DOMAIN ws /\ \A g \in DOMAIN ws : g # "script" => ws'[g] = ws[g]
    BY <2>1 DEF With, Present
  <2>3. MayWrite("script", s)
    BY PlainWrite
  <2>4. FilesFit'
    BY <2>1, <2>3, WriteFits DEF OneInv
  <2>5. \A r \in Runs : MayStand(pc[r], got[r])'
    BY <1>1, <1>2, <1>3, <2>2 DEF MayStand, Parsed, Present
  <2>6. Declares
    BY <2>2 DEF Declares, Candidate, Present
  <2> QED BY <2>4, <2>5, <2>6 DEF OneInv
<1>5. CASE DeleteFile
  <2>1. PICK f \in Deletable \cap DOMAIN ws : ws' = [g \in DOMAIN ws \ {f} |-> ws[g]]
    BY <1>5 DEF DeleteFile
  <2>2. f \in {"scriptResp", "finalResp"}
    BY DEF OneCommand
  <2>3. DOMAIN ws' = DOMAIN ws \ {f} /\ \A g \in DOMAIN ws : g # f => ws'[g] = ws[g]
    BY <2>1
  <2>4. FilesFit'
    <3>1. Parsed("voiceMan") => ws["voiceMan"].path \in AudioFiles
      <4>1. Parsed("voiceMan") => ws["voiceMan"] \in [path: AudioFiles, hash: Texts]
        BY Contents DEF TypeInv, TypeOK, Parsed, Present
      <4> QED BY <4>1
    <3>2. MediaBinding'
      BY <2>2, <2>3, <3>1 DEF OneInv, FilesFit, MediaBinding, VisualMatches, VoiceMatches,
         SubsMatch, RenderMatches, Matches, Parsed, Present, AudioFiles
    <3> QED BY <2>2, <2>3, <3>2 DEF OneInv, FilesFit, Parsed, Present
  <2>5. \A r \in Runs : MayStand(pc[r], got[r])'
    BY <1>1, <1>2, <1>3, <2>2, <2>3 DEF MayStand, Parsed, Present
  <2>6. Declares
    BY <2>2, <2>3 DEF Declares, Candidate, Present
  <2> QED BY <2>4, <2>5, <2>6 DEF OneInv
<1> QED BY <1>4, <1>5

LEMMA OneKeeps ==
    ASSUME TypeInv, OrderInv, OneCommand, OneInv, [Next]_vars
    PROVE  OneInv' /\ Declares
<1>1. CASE UNCHANGED vars
  <2>1. FilesFit'
    BY <1>1 DEF vars, OneInv, FilesFit, MediaBinding, VisualMatches, VoiceMatches, SubsMatch,
       RenderMatches, Matches, Parsed, Present
  <2>2. \A r \in Runs : MayStand(pc[r], got[r])'
    BY <1>1 DEF vars, OneInv, MayStand, Parsed, Present, ScriptReviewPassed, FinalReviewPassed
  <2>3. Declares
    BY <1>1 DEF vars, Declares, Candidate, Present
  <2> QED BY <2>1, <2>2, <2>3 DEF OneInv
<1>2. ASSUME NEW r \in Runs, PipelineStep(r)
      PROVE  OneInv' /\ Declares
  BY <1>2, StartsOne, ChecksOne, ScriptWritesOne, MediaWritesOne, ReleaseWritesOne, RenderOne
  DEF PipelineStep
<1>3. ASSUME NEW r \in Runs,
             StartGenerate(r) \/ StartResume(r) \/ StartImport(r) \/ ImportStep(r) \/ Fault(r)
      PROVE  OneInv' /\ Declares
  BY <1>3, StartsOne, ImportWritesOne, FaultOne
<1> QED BY <1>1, <1>2, <1>3, OperatorOne DEF Next

LEMMA OneStarts == Init => OneInv
BY MissingIs DEF Init, OneInv, FilesFit, MediaBinding, MayStand, Reviewed, Passed, BetweenGates,
   Production, AfterGates, Parsed, Present

LEMMA OneAlways ==
    ASSUME OneCommand
    PROVE  Spec => [](TypeInv /\ OrderInv /\ OneInv)
<1>1. Init => OrderInv
  BY BehindIs DEF Init, OrderInv, PipelineOrder, CandidateComplete, Candidate, Present
<1>2. TypeInv /\ OrderInv /\ OneInv /\ [Next]_vars => (TypeInv /\ OrderInv /\ OneInv)'
  BY TypeStep, OrderStep, OneKeeps
<1> QED BY <1>1, <1>2, TypeInit, OneStarts, PTL DEF Spec

\* With one command at a time, a manifest that can be read describes the media next to
\* it (ensureVisuals, ensureVoice, ensureSubtitles, ensureRender, the import commands),
\* through every retry, import, edit and torn write.
THEOREM MediaCorrect ==
    ASSUME OneCommand
    PROVE  Spec => []MediaBinding
<1>1. OneInv => MediaBinding
  BY DEF OneInv, FilesFit
<1> QED BY <1>1, OneAlways, PTL

\* With one command at a time and no edits under it, providers are only called while a
\* passing review whose hash is of script.md is there (scriptReviewPassed).
THEOREM ApprovedCorrect ==
    ASSUME OneCommand, ~Interleave
    PROVE  Spec => []ApprovedProduction
<1>1. OneInv => ApprovedProduction
  BY DEF OneInv, MayStand, Reviewed, BetweenGates, ApprovedProduction
<1> QED BY <1>1, OneAlways, PTL

\* What the gate compares is a hash; with reviews that are imported, it is of the text
\* that the reviewer read.
LEMMA ReadWhenApproved ==
    ASSUME OneInv, ReviewMode = "manual", ScriptReviewPassed
    PROVE  ReviewedScript
BY DEF OneInv, FilesFit, ScriptReviewPassed, ReviewedScript

\* With one command at a time, no edits under it and imported reviews, providers are only
\* called for a script.md that a reviewer read and passed (scriptReviewPassed).
THEOREM ReviewedCorrect ==
    ASSUME OneCommand, ~Interleave, ReviewMode = "manual"
    PROVE  Spec => []ProductionReviewed
<1>1. OneInv => ProductionReviewed
  BY ReadWhenApproved DEF OneInv, MayStand, Reviewed, BetweenGates, ProductionReviewed
<1> QED BY <1>1, OneAlways, PTL

\* Under the same hypotheses an episode becomes a release candidate only while both
\* reviews pass and the manifests of the shots, the captions and the render describe
\* their files (ensurePublishManifest, updateEpisodeStatus).
THEOREM DeclaredCorrect ==
    ASSUME OneCommand, ~Interleave, ReviewMode = "manual"
    PROVE  Spec => DeclaredOnReviews
<1> DEFINE Sound == /\ ReviewedScript /\ FinalReviewPassed
                    /\ VisualMatches /\ SubsMatch /\ RenderMatches
<1>1. ASSUME TypeInv, OrderInv, OneInv, [Next]_vars, ~Candidate, Candidate'
      PROVE  Sound
  <2>1. PICK r \in Runs : pc[r] = "episode" /\ got[r] = "release_candidate"
    BY <1>1, OneKeeps DEF Declares
  <2>2. ScriptReviewPassed /\ FinalReviewPassed
    BY <1>1, <2>1 DEF OneInv, MayStand, Reviewed, Passed
  <2>3. ReviewedScript
    BY <1>1, <2>2, ReadWhenApproved
  <2>4. "prodQA" \in DOMAIN ws /\ "renderMan" \in DOMAIN ws
    BY <1>1, <2>1 DEF OrderInv, StageFiles, OneCommand
  <2>5. "rc" \in DOMAIN ws
    BY <1>1, <2>4, PriorIs DEF OrderInv, PipelineOrder, OneCommand
  <2>6. Parsed("renderMan") /\ Parsed("visualMan") /\ Parsed("subMan")
    BY <1>1, <2>4, <2>5 DEF OneInv, FilesFit, Present
  <2> QED BY <1>1, <2>2, <2>3, <2>6 DEF OneInv, FilesFit, MediaBinding
<1>2. TypeInv /\ OrderInv /\ OneInv /\ [Next]_vars => [~Candidate /\ Candidate' => Sound]_vars
  BY <1>1
<1> QED BY <1>2, OneAlways, PTL DEF Spec, DeclaredOnReviews
-----------------------------------------------------------------------------
(***************************************************************************)
(* Without faults nothing is in the way of a command: what one command     *)
(* leaves, whatever was imported, edited, refused or reviewed in between,  *)
(* the next one takes up. Of the aborts in the model none can happen       *)
(* before the first fault, and no provider is called over its own work.    *)
(***************************************************************************)
\* What a run at label l may find unfinished, and what it holds when it holds i.
Finished(l) ==
    /\ l # "scriptMan" /\ Present("script") => Present("scriptMan")
    /\ l \notin {"voiceMan", "importVoiceMan"} /\ (Present("wav") \/ Present("mp3")) =>
           Present("voiceMan")
    /\ l # "subMan" /\ Present("captions") => Present("subMan")
    /\ l # "renderMan" /\ Present("rc") => Present("renderMan")

Carries(l, i) ==
    /\ l \in {"scriptReq", "wav", "captions", "finalReq"} => i # Torn
    /\ l = "episode" /\ i # "generated" => Present("episode")
    /\ l = "voiceMan" => Present("wav")
    /\ l = "importVoiceMan" => Present(i.path)

Intact ==
    /\ \A f \in DOMAIN ws : ws[f] # Torn
    /\ \A r \in Runs : Finished(pc[r]) /\ Carries(pc[r], got[r])

IntactInv == faults = 0 => Intact

\* Run r ends with the write that its command is for: the episode's status, or what was
\* imported.
LastWrite(r) ==
    \/ pc[r] = "episode" /\ ws'["episode"] = got[r]
    \/ pc[r] = "importScript" /\ ws'["scriptResp"] = got[r]
    \/ pc[r] = "importFinal" /\ ws'["finalResp"] = got[r]
    \/ pc[r] = "importShots" /\ ws'["shots"] = got[r]
    \/ pc[r] = "importVoiceMan" /\ ws'["voiceMan"].path = got[r].path

Ends == \A r \in Runs : pc[r] # "idle" /\ pc'[r] = "idle" => LastWrite(r)

\* No command that started gives up before a fault has happened: it goes on until it
\* writes the status its stage earns, or the file it imports.
NeverStuck == [][faults' = 0 => Ends]_vars

\* A run that goes on without writing.
LEMMA MoveIntact ==
    ASSUME TypeInv, OneCommand, Intact, NEW r \in Runs, NEW to, NEW i, Move(r, to, i),
           Finished(to), Carries(to, i), pc[r] # "idle" => to # "idle"
    PROVE  Intact' /\ Ends
<1>1. ws' = ws /\ pc'[r] = to /\ got'[r] = i
  BY DEF Move, TypeInv, TypeOK
<1>2. \A q \in Runs : q = r
  BY DEF OneCommand
<1>3. Finished(to)' /\ Carries(to, i)'
  BY <1>1 DEF Finished, Carries, Present
<1> QED BY <1>1, <1>2, <1>3 DEF Intact, Ends

\* A run that leaves nothing unfinished, and writes what is whole.
LEMMA StoreIntact ==
    ASSUME TypeInv, OneCommand, Intact, NEW r \in Runs, NEW f, NEW c, NEW to, NEW i,
           Store(r, f, c, to, i), c # Torn,
           f = "script" => to = "scriptMan" \/ Present("scriptMan"),
           pc[r] = "scriptMan" => f = "scriptMan" \/ to = "scriptMan",
           f \in {"wav", "mp3"} => to \in {"voiceMan", "importVoiceMan"} \/ Present("voiceMan"),
           pc[r] \in {"voiceMan", "importVoiceMan"} =>
               f = "voiceMan" \/ to \in {"voiceMan", "importVoiceMan"},
           f = "captions" => to = "subMan" \/ Present("subMan"),
           pc[r] = "subMan" => f = "subMan" \/ to = "subMan",
           f = "rc" => to = "renderMan" \/ Present("renderMan"),
           pc[r] = "renderMan" => f = "renderMan" \/ to = "renderMan",
           to \notin {"scriptReq", "wav", "captions", "finalReq"},
           to = "episode" /\ i # "generated" => Present("episode"),
           to = "voiceMan" => f = "wav",
           to = "importVoiceMan" => f = i.path,
           pc[r] # "idle" /\ to = "idle" => LastWrite(r)
    PROVE  Intact' /\ Ends
<1>1. /\ pc'[r] = to /\ got'[r] = i
      /\ DOMAIN ws' = DOMAIN ws \cup {f} /\ ws'[f] = c
      /\ \A g \in DOMAIN ws : g # f => ws'[g] = ws[g]
  BY DEF Store, TypeInv, TypeOK, With
<1>2. \A q \in Runs : q = r
  BY DEF OneCommand
<1>3. Finished(pc[r])
  BY DEF Intact
<1>4. Finished(to)'
  <2> USE DEF Finished, Present
  <2>1. (to # "scriptMan" /\ Present("script") => Present("scriptMan"))'
    BY <1>1, <1>3
  <2>2. (to \notin {"voiceMan", "importVoiceMan"} /\ (Present("wav") \/ Present("mp3")) =>
           Present("voiceMan"))'
    BY <1>1, <1>3
  <2>3. (to # "subMan" /\ Present("captions") => Present("subMan"))'
    BY <1>1, <1>3
  <2>4. (to # "renderMan" /\ Present("rc") => Present("renderMan"))'
    BY <1>1, <1>3
  <2> QED BY <2>1, <2>2, <2>3, <2>4
<1>5. Carries(to, i)'
  BY <1>1 DEF Carries, Present
<1>6. \A g \in DOMAIN ws' : ws'[g] # Torn
  BY <1>1 DEF Intact
<1> QED BY <1>1, <1>2, <1>4, <1>5, <1>6 DEF Intact, Ends

\* The shape of a stage whose inputs are there.
LEMMA EnsureIntact ==
    ASSUME TypeInv, OneCommand, Intact, NEW r \in Runs, NEW at, NEW file, NEW ready,
           NEW start, NEW input, NEW next, Ensure(r, at, file, ready, start, input, next),
           at \in Checks, next \in Checks,
           start \in Files \ {"scriptMan", "voiceMan", "subMan", "renderMan", "episode"},
           file \notin DOMAIN ws => ready,
           ready => Carries(start, input)
    PROVE  Intact' /\ Ends
<1>1. at # "idle" /\ next # "idle" /\ start # "idle"
  BY DEF Checks, Files
<1>2. \A i : Carries(next, i)
  BY DEF Carries, Checks
<1>3. Finished(at)
  BY DEF Intact, Ensure
<1>4. Finished(next) /\ Finished(start)
  BY <1>3 DEF Finished, Checks
<1> QED BY <1>1, <1>2, <1>4, MoveIntact DEF Ensure, Present

\* What is behind a run is there, but for the reviews, which the operator may delete.
LEMMA BehindThere ==
    ASSUME OneCommand, OrderInv, NEW r \in Runs
    PROVE  Behind(pc[r]) \ {"scriptResp", "finalResp"} \subseteq DOMAIN ws
BY DEF OrderInv, OneCommand

\* The voice-over's manifest names a file that is there.
LEMMA VoiceIsReady ==
    ASSUME OneInv, Intact, Present("voiceMan")
    PROVE  VoiceReady
BY DEF OneInv, FilesFit, MediaBinding, VoiceMatches, Matches, VoiceReady, Intact, Parsed, Present

LEMMA StartsIntact ==
    ASSUME TypeInv, OneCommand, OrderInv, OneInv, Intact, NEW r \in Runs,
           StartGenerate(r) \/ StartResume(r) \/ StartImport(r)
    PROVE  Intact' /\ Ends
<1>1. pc[r] = "idle"
  BY DEF StartGenerate, StartResume, StartImport, StartImportScriptReview,
     StartImportFinalReview, StartImportVisualShot, StartImportVoice
<1>2. \A l \in {"resume", "episode", "importScript", "importFinal", "importShots", "importVoice"} :
        Finished(l)
  <2>1. Finished("idle")
    BY <1>1 DEF Intact
  <2> QED BY <2>1 DEF Finished
<1>3. \A l \in {"resume", "importScript", "importFinal", "importShots", "importVoice"} :
        \A i : Carries(l, i)
  BY DEF Carries
<1>4. Carries("episode", "generated")
  BY DEF Carries
<1> QED
  BY <1>1, <1>2, <1>3, <1>4, MoveIntact
  DEF StartGenerate, StartResume, StartImport, StartImportScriptReview,
      StartImportFinalReview, StartImportVisualShot, StartImportVoice

LEMMA ChecksIntact ==
    ASSUME TypeInv, OneCommand, OrderInv, OneInv, Intact, NEW r \in Runs,
           \/ Resume(r) \/ EnsureScript(r)
           \/ EnsureScriptReq(r) \/ EnsureScriptResp(r) \/ ScriptGate(r)
           \/ EnsureShotReqs(r) \/ EnsureVisuals(r) \/ EnsureVoice(r) \/ EnsureSubs(r)
           \/ EnsureRender(r) \/ EnsureFinalReq(r) \/ EnsureFinalResp(r) \/ FinalGate(r)
           \/ EnsureProdQA(r) \/ EnsurePublish(r)
    PROVE  Intact' /\ Ends
<1>0. /\ Behind(pc[r]) \ {"scriptResp", "finalResp"} \subseteq DOMAIN ws
      /\ \A f \in DOMAIN ws : ws[f] # Torn
      /\ Finished(pc[r])
  BY BehindThere DEF Intact
<1> USE DEF Present, Parsed
<1>p. ASSUME NEW at \in Checks \cup {"idle"}, Finished(at), NEW l \in Checks PROVE Finished(l)
  BY <1>p DEF Finished, Checks
<1>c. \A l \in Checks : \A i : Carries(l, i)
  BY DEF Carries, Checks
<1>1. CASE Resume(r)
  <2>1. "episode" \in DOMAIN ws
    BY <1>1, <1>0, BehindIs DEF Resume
  <2>2. Finished("ensureScript") /\ Carries("ensureScript", NoInput)
    BY <1>1, <1>0, <1>p, <1>c DEF Resume, Checks
  <2> QED BY <1>1, <1>0, <2>1, <2>2, MoveIntact DEF Resume
<1>2. CASE EnsureScript(r)
  <2>1. "scriptMan" \in DOMAIN ws => "script" \in DOMAIN ws
    BY PriorIs DEF OrderInv, PipelineOrder, OneCommand
  <2>2. "scriptMan" \notin DOMAIN ws => "script" \notin DOMAIN ws
    BY <1>2, <1>0 DEF EnsureScript, Ensure, Finished
  <2>3. /\ Finished("script") /\ Finished("ensureScriptReq")
        /\ Carries("script", NoInput) /\ Carries("ensureScriptReq", NoInput)
    BY <1>2, <1>0 DEF EnsureScript, Ensure, Finished, Carries
  <2> QED BY <1>2, <2>1, <2>2, <2>3, MoveIntact DEF EnsureScript, Ensure
<1>3. CASE EnsureScriptReq(r)
  <2>1. "script" \in DOMAIN ws
    BY <1>3, <1>0, BehindIs DEF EnsureScriptReq, Ensure, HasScript
  <2>2. Carries("scriptReq", ws["script"])
    BY <1>0, <2>1 DEF Carries
  <2> QED BY <1>3, <2>1, <2>2, EnsureIntact DEF EnsureScriptReq, Checks, Files
<1>4. CASE EnsureScriptResp(r)
  <2>1. CASE ReviewMode = "manual"
    <3>1. Finished("scriptGate") /\ Carries("scriptGate", NoInput)
      BY <1>4, <2>1, <1>0, <1>c DEF EnsureScriptResp, Finished, Checks
    <3> QED BY <1>4, <2>1, <3>1, MoveIntact DEF EnsureScriptResp
  <2>2. CASE ReviewMode # "manual"
    <3>1. pc[r] = "ensureScriptResp"
      BY <1>4, <2>2 DEF EnsureScriptResp, Ensure
    <3>2. "scriptReq" \in DOMAIN ws
      BY <1>0, <3>1, BehindIs DEF HasScriptReq
    <3>3. \A i : Carries("scriptResp", i)
      BY DEF Carries
    <3> QED BY <1>4, <2>2, <3>2, <3>3, EnsureIntact DEF EnsureScriptResp, Checks, Files
  <2> QED BY <2>1, <2>2
<1>5. CASE ScriptGate(r)
  <2>1. pc[r] = "scriptGate"
    BY <1>5 DEF ScriptGate
  <2>2. "script" \in DOMAIN ws /\ "episode" \in DOMAIN ws
    BY <1>0, <2>1, BehindIs DEF HasScriptReq, HasScript
  <2>3. /\ Finished("ensureShotReqs") /\ Carries("ensureShotReqs", NoInput)
        /\ Finished("episode") /\ Carries("episode", "needs_review")
    BY <1>0, <2>1, <2>2 DEF Finished, Carries
  <2> QED BY <1>5, <1>0, <2>1, <2>2, <2>3, MoveIntact DEF ScriptGate
<1>6. CASE EnsureShotReqs(r)
  <2>1. "script" \in DOMAIN ws
    BY <1>6, <1>0, BehindIs DEF EnsureShotReqs, Ensure, HasScriptReview, HasScriptReq, HasScript
  <2>2. \A i : Carries("shotReqs", i)
    BY DEF Carries
  <2> QED BY <1>6, <2>1, <2>2, EnsureIntact DEF EnsureShotReqs, Checks, Files
<1>7. CASE EnsureVisuals(r)
  <2>1. "shotReqs" \in DOMAIN ws
    BY <1>7, <1>0, BehindIs DEF EnsureVisuals, Ensure, HasShotReqs
  <2>2. \A i : Carries("shots", i)
    BY DEF Carries
  <2> QED BY <1>7, <1>0, <2>1, <2>2, EnsureIntact DEF EnsureVisuals, Checks, Files
<1>8. CASE EnsureVoice(r)
  <2>1. "script" \in DOMAIN ws
    BY <1>8, <1>0, BehindIs
    DEF EnsureVoice, Ensure, HasVisuals, HasShotReqs, HasScriptReview, HasScriptReq, HasScript
  <2>2. Carries("wav", ws["script"])
    BY <1>0, <2>1 DEF Carries
  <2> QED BY <1>8, <2>1, <2>2, EnsureIntact DEF EnsureVoice, Checks, Files
<1>9. CASE EnsureSubs(r)
  <2>1. pc[r] = "ensureSubs"
    BY <1>9 DEF EnsureSubs, Ensure
  <2>2. "script" \in DOMAIN ws /\ "voiceMan" \in DOMAIN ws
    BY <1>0, <2>1, BehindIs
    DEF HasVoice, HasVisuals, HasShotReqs, HasScriptReview, HasScriptReq, HasScript
  <2>3. VoiceReady
    BY <2>2, VoiceIsReady
  <2>4. ws["script"] # Torn /\ VoiceTrack # Torn
    BY <1>0, <2>2, <2>3 DEF VoiceReady, VoiceTrack
  <2>5. Carries("captions", ws["script"]) /\ Carries("captions", VoiceTrack)
    BY <2>4 DEF Carries
  <2> QED BY <1>9, <2>2, <2>3, <2>5, EnsureIntact DEF EnsureSubs, Checks, Files
<1>10. CASE EnsureRender(r)
  <2>1. pc[r] = "ensureRender"
    BY <1>10 DEF EnsureRender
  <2>2. {"visualMan", "subMan", "voiceMan", "shots", "captions"} \subseteq DOMAIN ws
    BY <1>0, <2>1, BehindIs DEF HasSubs, HasVoice, HasVisuals
  <2>3. RenderReady
    BY <1>0, <2>2, VoiceIsReady DEF RenderReady
  <2>4. "rc" \in DOMAIN ws => "renderMan" \in DOMAIN ws
    BY <1>0, <2>1 DEF Finished
  <2>5. /\ Finished("ensureFinalReq") /\ Carries("ensureFinalReq", NoInput)
        /\ Finished("rc") /\ \A i : Carries("rc", i)
    BY <1>0, <2>1 DEF Finished, Carries
  <2> QED BY <1>10, <2>1, <2>3, <2>4, <2>5, MoveIntact DEF EnsureRender
<1>11. CASE EnsureFinalReq(r)
  <2>1. "script" \in DOMAIN ws
    BY <1>11, <1>0, BehindIs
    DEF EnsureFinalReq, Ensure, HasRender, HasSubs, HasVoice, HasVisuals, HasShotReqs,
        HasScriptReview, HasScriptReq, HasScript
  <2>2. Carries("finalReq", ws["script"])
    BY <1>0, <2>1 DEF Carries
  <2> QED BY <1>11, <2>1, <2>2, EnsureIntact DEF EnsureFinalReq, Checks, Files
<1>12. CASE EnsureFinalResp(r)
  <2>1. CASE ReviewMode = "manual"
    <3>1. Finished("finalGate") /\ Carries("finalGate", NoInput)
      BY <1>12, <2>1, <1>0, <1>c DEF EnsureFinalResp, Finished, Checks
    <3> QED BY <1>12, <2>1, <3>1, MoveIntact DEF EnsureFinalResp
  <2>2. CASE ReviewMode # "manual"
    <3>1. pc[r] = "ensureFinalResp"
      BY <1>12, <2>2 DEF EnsureFinalResp, Ensure
    <3>2. "finalReq" \in DOMAIN ws
      BY <1>0, <3>1, BehindIs DEF HasFinalReq
    <3>3. \A i : Carries("finalResp", i)
      BY DEF Carries
    <3> QED BY <1>12, <2>2, <3>2, <3>3, EnsureIntact DEF EnsureFinalResp, Checks, Files
  <2> QED BY <2>1, <2>2
<1>13. CASE FinalGate(r)
  <2>1. pc[r] = "finalGate"
    BY <1>13 DEF FinalGate
  <2>2. "episode" \in DOMAIN ws
    BY <1>0, <2>1, BehindIs
    DEF HasFinalReq, HasRender, HasSubs, HasVoice, HasVisuals, HasShotReqs,
        HasScriptReview, HasScriptReq, HasScript
  <2>3. /\ Finished("ensureProdQA") /\ Carries("ensureProdQA", NoInput)
        /\ Finished("episode") /\ Carries("episode", "release_blocked")
    BY <1>0, <2>1, <2>2 DEF Finished, Carries
  <2> QED BY <1>13, <1>0, <2>1, <2>3, MoveIntact DEF FinalGate
<1>14. CASE EnsureProdQA(r)
  <2>1. "renderMan" \in DOMAIN ws
    BY <1>14, <1>0, BehindIs
    DEF EnsureProdQA, Ensure, HasFinalReview, HasFinalReq, HasRender
  <2>2. \A i : Carries("prodQA", i)
    BY DEF Carries
  <2> QED BY <1>14, <1>0, <2>1, <2>2, EnsureIntact DEF EnsureProdQA, Checks, Files
<1>15. CASE EnsurePublish(r)
  <2>1. pc[r] = "ensurePublish"
    BY <1>15 DEF EnsurePublish
  <2>2. "episode" \in DOMAIN ws
    BY <1>0, <2>1, BehindIs
    DEF HasProdQA, HasFinalReview, HasFinalReq, HasRender, HasSubs, HasVoice, HasVisuals,
        HasShotReqs, HasScriptReview, HasScriptReq, HasScript
  <2>3. /\ Finished("publish") /\ Carries("publish", NoInput)
        /\ Finished("episode") /\ Carries("episode", "release_candidate")
    BY <1>0, <2>1, <2>2 DEF Finished, Carries
  <2> QED BY <1>15, <2>1, <2>3, MoveIntact DEF EnsurePublish
<1> QED BY <1>1, <1>2, <1>3, <1>4, <1>5, <1>6, <1>7, <1>8, <1>9, <1>10, <1>11, <1>12, <1>13,
           <1>14, <1>15

\* A command that writes a file which is not a text writes none of it torn.
LEMMA WholeContents ==
    ASSUME NEW f \in {"episode", "topic", "research", "scriptMan", "subMan", "scriptResp",
                      "shotReqs", "shots", "visualMan", "voiceMan", "rc", "renderMan",
                      "finalResp", "prodQA", "publish"}, NEW c \in ContentOf(f)
    PROVE  c # Torn
BY TornAssumption DEF Files, AudioFiles

LEMMA WritesIntact ==
    ASSUME TypeInv, OneCommand, OrderInv, OneInv, Intact, NEW r \in Runs,
           \/ WriteEpisode(r) \/ WriteTopic(r) \/ WriteResearch(r) \/ UpdateStatus(r)
           \/ WriteScript(r) \/ WriteScriptMan(r) \/ WriteScriptReq(r) \/ ReceiveScriptReview(r)
           \/ WriteShotReqs(r) \/ RunVisualProvider(r) \/ WriteVisualMan(r)
           \/ RunVoiceProvider(r) \/ WriteVoiceMan(r) \/ WriteCaptions(r) \/ WriteSubMan(r)
           \/ RunFFmpeg(r) \/ WriteRenderMan(r) \/ WriteFinalReq(r) \/ ReceiveFinalReview(r)
           \/ WriteProdQA(r) \/ WritePublish(r)
    PROVE  Intact' /\ Ends
<1>0. /\ Behind(pc[r]) \ {"scriptResp", "finalResp"} \subseteq DOMAIN ws
      /\ \A f \in DOMAIN ws : ws[f] # Torn
      /\ Carries(pc[r], got[r]) /\ Holds(pc[r], got[r])
  BY BehindThere DEF Intact, TypeInv
<1> USE DEF Present, Parsed
<1>1. CASE WriteEpisode(r)
  <2>1. "generated" # Torn
    BY WholeContents, Contents DEF Statuses
  <2> QED BY <1>1, <2>1, StoreIntact DEF WriteEpisode
<1>2. CASE WriteTopic(r)
  <2>1. "written" # Torn
    BY WholeContents, Contents
  <2> QED BY <1>2, <2>1, StoreIntact DEF WriteTopic
<1>3. CASE WriteResearch(r)
  <2>1. "written" # Torn
    BY WholeContents, Contents
  <2> QED BY <1>3, <2>1, StoreIntact DEF WriteResearch
<1>4. CASE UpdateStatus(r)
  <2>1. "episode" \in DOMAIN ws
    BY <1>4, <1>0 DEF UpdateStatus, Carries
  <2>2. Store(r, "episode", got[r], "idle", NoInput)
    BY <1>4, <1>0, <2>1 DEF UpdateStatus
  <2>3. got[r] # Torn
    BY <1>4, <1>0, WholeContents, Contents DEF UpdateStatus, Holds
  <2>4. LastWrite(r)
    BY <1>4, <2>2 DEF UpdateStatus, LastWrite, Store, With
  <2> QED BY <1>4, <2>2, <2>3, <2>4, StoreIntact DEF UpdateStatus
<1>5. CASE WriteScript(r)
  <2>1. Draft # Torn
    BY PilotAssumption
  <2> QED BY <1>5, <2>1, StoreIntact DEF WriteScript
<1>6. CASE WriteScriptMan(r)
  <2>1. "script" \in DOMAIN ws
    BY <1>6, <1>0, BehindIs DEF WriteScriptMan
  <2>2. [hash |-> ws["script"]] # Torn
    BY <2>1, WholeContents, Contents, Readable
  <2> QED BY <1>6, <2>1, <2>2, StoreIntact DEF WriteScriptMan
<1>7. CASE WriteScriptReq(r)
  <2>1. got[r] # Torn
    BY <1>7, <1>0 DEF WriteScriptReq, Carries
  <2> QED BY <1>7, <2>1, StoreIntact DEF WriteScriptReq
<1>8. CASE ReceiveScriptReview(r)
  <2>1. "script" \in DOMAIN ws
    BY <1>8, <1>0, BehindIs DEF ReceiveScriptReview, HasScriptReq, HasScript
  <2>2. PICK v \in Verdicts :
          Store(r, "scriptResp", [pass |-> v, hash |-> ws["script"], text |-> got[r]],
                "scriptGate", NoInput)
    BY <1>8, <2>1 DEF ReceiveScriptReview
  <2>3. got[r] \in Texts /\ v \in BOOLEAN /\ ws["script"] \in Texts
    BY <1>8, <1>0, <2>1, PilotAssumption, Readable DEF ReceiveScriptReview, Holds, HoldsText
  <2>4. [pass |-> v, hash |-> ws["script"], text |-> got[r]] # Torn
    BY <2>3, WholeContents, Contents
  <2> QED BY <1>8, <2>2, <2>4, StoreIntact DEF ReceiveScriptReview
<1>9. CASE WriteShotReqs(r)
  <2>1. got[r] \in Texts
    BY <1>9, <1>0 DEF WriteShotReqs, Holds, HoldsText
  <2>2. [src |-> got[r]] # Torn
    BY <2>1, WholeContents, Contents
  <2> QED BY <1>9, <2>2, StoreIntact DEF WriteShotReqs
<1>10. CASE RunVisualProvider(r)
  <2>1. \A t \in Takes : t # Torn
    BY WholeContents, Contents
  <2> QED BY <1>10, <2>1, StoreIntact DEF RunVisualProvider
<1>11. CASE WriteVisualMan(r)
  <2>1. "shots" \in DOMAIN ws
    BY <1>11, <1>0, BehindIs DEF WriteVisualMan
  <2>2. got[r] \in Texts /\ ws["shots"] \in Clips
    BY <1>11, <1>0, <2>1, Readable DEF WriteVisualMan, Holds, HoldsText
  <2>3. [src |-> got[r], hash |-> ws["shots"]] # Torn
    BY <2>2, WholeContents, Contents
  <2> QED BY <1>11, <2>1, <2>3, StoreIntact DEF WriteVisualMan
<1>12. CASE RunVoiceProvider(r)
  <2>1. got[r] # Torn
    BY <1>12, <1>0 DEF RunVoiceProvider, Carries
  <2> QED BY <1>12, <2>1, StoreIntact DEF RunVoiceProvider
<1>13. CASE WriteVoiceMan(r)
  <2>1. "wav" \in DOMAIN ws
    BY <1>13, <1>0 DEF WriteVoiceMan, Carries
  <2>2. [path |-> "wav", hash |-> ws["wav"]] # Torn
    BY <2>1, WholeContents, Contents, Readable DEF AudioFiles
  <2> QED BY <1>13, <2>1, <2>2, StoreIntact DEF WriteVoiceMan
<1>14. CASE WriteCaptions(r)
  <2>1. got[r] # Torn
    BY <1>14, <1>0 DEF WriteCaptions, Carries
  <2> QED BY <1>14, <2>1, StoreIntact DEF WriteCaptions
<1>15. CASE WriteSubMan(r)
  <2>1. "captions" \in DOMAIN ws
    BY <1>15, <1>0, BehindIs DEF WriteSubMan
  <2>2. [hash |-> ws["captions"]] # Torn
    BY <2>1, WholeContents, Contents, Readable
  <2> QED BY <1>15, <1>0, <2>1, <2>2, StoreIntact DEF WriteSubMan
<1>16. CASE RunFFmpeg(r)
  <2>1. got[r] # Torn
    BY <1>16, <1>0, WholeContents, Contents DEF RunFFmpeg, Holds
  <2> QED BY <1>16, <2>1, StoreIntact DEF RunFFmpeg
<1>17. CASE WriteRenderMan(r)
  <2>1. "rc" \in DOMAIN ws
    BY <1>17, <1>0, BehindIs DEF WriteRenderMan
  <2>2. ws["rc"] \in Renders
    BY <1>0, <2>1, Readable
  <2>3. [hash |-> ws["rc"]] # Torn
    BY <2>2, WholeContents, Contents
  <2> QED BY <1>17, <1>0, <2>1, <2>3, StoreIntact DEF WriteRenderMan
<1>18. CASE WriteFinalReq(r)
  <2>1. got[r] # Torn
    BY <1>18, <1>0 DEF WriteFinalReq, Carries
  <2> QED BY <1>18, <2>1, StoreIntact DEF WriteFinalReq
<1>19. CASE ReceiveFinalReview(r)
  <2>1. \A o \in Outcomes : o # Torn
    BY PilotAssumption, WholeContents, Contents
  <2> QED BY <1>19, <2>1, StoreIntact DEF ReceiveFinalReview
<1>20. CASE WriteProdQA(r)
  <2>1. "written" # Torn
    BY WholeContents, Contents
  <2> QED BY <1>20, <2>1, StoreIntact DEF WriteProdQA
<1>21. CASE WritePublish(r)
  <2>1. "written" # Torn
    BY WholeContents, Contents
  <2>2. "episode" \in DOMAIN ws
    BY <1>21, <1>0, BehindIs
    DEF WritePublish, HasProdQA, HasFinalReview, HasFinalReq, HasRender, HasSubs, HasVoice,
        HasVisuals, HasShotReqs, HasScriptReview, HasScriptReq, HasScript
  <2> QED BY <1>21, <2>1, <2>2, StoreIntact DEF WritePublish
<1> QED BY <1>1, <1>2, <1>3, <1>4, <1>5, <1>6, <1>7, <1>8, <1>9, <1>10, <1>11, <1>12, <1>13,
           <1>14, <1>15, <1>16, <1>17, <1>18, <1>19, <1>20, <1>21

LEMMA ImportsIntact ==
    ASSUME TypeInv, OneCommand, OrderInv, OneInv, Intact, NEW r \in Runs, ImportStep(r)
    PROVE  Intact' /\ Ends
<1>0. Carries(pc[r], got[r]) /\ Holds(pc[r], got[r])
  BY DEF Intact, TypeInv
<1> USE DEF Present
<1>1. CASE pc[r] = "importScript" /\ Store(r, "scriptResp", got[r], "idle", NoInput)
  <2>1. got[r] # Torn
    BY <1>1, <1>0, WholeContents DEF Holds
  <2>2. LastWrite(r)
    BY <1>1 DEF LastWrite, Store, With
  <2> QED BY <1>1, <2>1, <2>2, StoreIntact
<1>2. CASE pc[r] = "importFinal" /\ Store(r, "finalResp", got[r], "idle", NoInput)
  <2>1. got[r] # Torn
    BY <1>2, <1>0, WholeContents, Contents DEF Holds
  <2>2. LastWrite(r)
    BY <1>2 DEF LastWrite, Store, With
  <2> QED BY <1>2, <2>1, <2>2, StoreIntact
<1>3. CASE CopyVisualShot(r)
  <2>1. got[r] # Torn
    BY <1>3, <1>0, WholeContents, Contents DEF CopyVisualShot, Holds
  <2>2. LastWrite(r)
    BY <1>3 DEF CopyVisualShot, LastWrite, Store, With
  <2> QED BY <1>3, <2>1, <2>2, StoreIntact DEF CopyVisualShot
<1>4. CASE CopyRecording(r)
  <2>1. got[r] \in [path: AudioFiles, hash: Scripts]
    BY <1>4, <1>0 DEF CopyRecording, Holds
  <2>2. got[r].hash # Torn /\ got[r].path \notin {"script", "captions", "rc"}
    BY <2>1, PilotAssumption DEF AudioFiles
  <2> QED BY <1>4, <2>2, StoreIntact DEF CopyRecording
<1>5. CASE WriteImportedVoiceMan(r)
  <2>1. got[r] \in [path: AudioFiles, hash: Scripts] /\ got[r].path \in DOMAIN ws
    BY <1>5, <1>0 DEF WriteImportedVoiceMan, Holds, Carries
  <2>2. ws[got[r].path] \in Texts
    BY <2>1, Readable DEF AudioFiles
  <2>3. [path |-> got[r].path, hash |-> ws[got[r].path]] # Torn
    BY <2>1, <2>2, WholeContents, Contents
  <2>4. Store(r, "voiceMan", [path |-> got[r].path, hash |-> ws[got[r].path]], "idle", NoInput)
    BY <1>5, <2>1 DEF WriteImportedVoiceMan
  <2>5. LastWrite(r)
    BY <1>5, <2>4 DEF WriteImportedVoiceMan, LastWrite, Store, With
  <2> QED BY <1>5, <2>3, <2>4, <2>5, StoreIntact DEF WriteImportedVoiceMan
<1> QED BY <1>1, <1>2, <1>3, <1>4, <1>5 DEF ImportStep, WriteImportedReview

\* Only a fault counts as one.
LEMMA FaultsCounted ==
    ASSUME NEW r \in Runs,
           StartGenerate(r) \/ StartResume(r) \/ StartImport(r) \/ PipelineStep(r) \/ ImportStep(r)
    PROVE  faults' = faults
<1>1. ASSUME NEW at, NEW file, NEW ready, NEW start, NEW input, NEW next,
             Ensure(r, at, file, ready, start, input, next)
      PROVE  faults' = faults
  BY <1>1 DEF Ensure, Move, Abort
<1>2. CASE StartGenerate(r) \/ StartResume(r) \/ StartImport(r)
  BY <1>2 DEF StartGenerate, StartResume, StartImport, StartImportScriptReview,
     StartImportFinalReview, StartImportVisualShot, StartImportVoice, Move
<1>3. CASE ImportStep(r)
  BY <1>3 DEF ImportStep, WriteImportedReview, CopyVisualShot, CopyRecording,
     WriteImportedVoiceMan, Store, Abort, Move
<1>4. CASE \/ WriteEpisode(r) \/ WriteTopic(r) \/ WriteResearch(r) \/ UpdateStatus(r)
           \/ WriteScript(r) \/ WriteScriptMan(r) \/ WriteScriptReq(r) \/ ReceiveScriptReview(r)
           \/ WriteShotReqs(r) \/ RunVisualProvider(r) \/ WriteVisualMan(r)
  BY <1>4 DEF WriteEpisode, WriteTopic, WriteResearch, UpdateStatus, WriteScript,
     WriteScriptMan, WriteScriptReq, ReceiveScriptReview, WriteShotReqs, RunVisualProvider,
     WriteVisualMan, Store, Abort, Move
<1>5. CASE \/ RunVoiceProvider(r) \/ WriteVoiceMan(r) \/ WriteCaptions(r) \/ WriteSubMan(r)
           \/ RunFFmpeg(r) \/ WriteRenderMan(r) \/ WriteFinalReq(r) \/ ReceiveFinalReview(r)
           \/ WriteProdQA(r) \/ WritePublish(r)
  BY <1>5 DEF RunVoiceProvider, WriteVoiceMan, WriteCaptions, WriteSubMan, RunFFmpeg,
     WriteRenderMan, WriteFinalReq, ReceiveFinalReview, WriteProdQA, WritePublish, Store,
     Abort, Move
<1>6. CASE Resume(r) \/ ScriptGate(r) \/ EnsureRender(r) \/ FinalGate(r) \/ EnsurePublish(r)
  BY <1>6 DEF Resume, ScriptGate, EnsureRender, FinalGate, EnsurePublish, Abort, Move
<1>7. CASE EnsureScript(r) \/ EnsureScriptReq(r) \/ EnsureScriptResp(r) \/ EnsureShotReqs(r)
  BY <1>1, <1>7 DEF EnsureScript, EnsureScriptReq, EnsureScriptResp, EnsureShotReqs, Move
<1>8. CASE \/ EnsureVisuals(r) \/ EnsureVoice(r) \/ EnsureSubs(r) \/ EnsureFinalReq(r)
           \/ EnsureFinalResp(r) \/ EnsureProdQA(r)
  BY <1>1, <1>8 DEF EnsureVisuals, EnsureVoice, EnsureSubs, EnsureFinalReq, EnsureFinalResp,
     EnsureProdQA, Move
<1> QED BY <1>2, <1>3, <1>4, <1>5, <1>6, <1>7, <1>8 DEF PipelineStep

LEMMA IntactStep ==
    ASSUME TypeInv, OneCommand, OrderInv, OneInv, IntactInv, [Next]_vars, faults' = 0
    PROVE  Intact' /\ Ends
<1>1. ASSUME NEW r \in Runs,
             StartGenerate(r) \/ StartResume(r) \/ StartImport(r) \/ PipelineStep(r) \/ ImportStep(r)
      PROVE  Intact' /\ Ends
  <2>1. Intact
    BY <1>1, FaultsCounted DEF IntactInv
  <2>2. CASE StartGenerate(r) \/ StartResume(r) \/ StartImport(r)
    BY <2>1, <2>2, StartsIntact
  <2>3. CASE ImportStep(r)
    BY <2>1, <2>3, ImportsIntact
  <2>4. CASE PipelineStep(r)
    BY <2>1, <2>4, ChecksIntact, WritesIntact DEF PipelineStep
  <2> QED BY <1>1, <2>2, <2>3, <2>4
<1>2. ASSUME NEW r \in Runs, Fault(r) PROVE FALSE
  BY <1>2, PilotAssumption DEF Fault, TypeInv, TypeOK
<1>3. CASE EditScript
  <2>1. Intact /\ DOMAIN ws' = DOMAIN ws /\ pc' = pc /\ got' = got
    BY <1>3 DEF EditScript, With, Present, IntactInv
  <2>2. \A f \in DOMAIN ws' : ws'[f] # Torn
    BY <1>3, <2>1, PilotAssumption DEF EditScript, With, Intact
  <2>3. \A l : Finished(l)' = Finished(l)
    BY <2>1 DEF Finished, Present
  <2>4. \A l, i : Carries(l, i)' = Carries(l, i)
    BY <2>1 DEF Carries, Present
  <2> QED BY <2>1, <2>2, <2>3, <2>4 DEF Intact, Ends
<1>4. CASE DeleteFile
  <2>1. PICK f \in Deletable : ws' = [g \in DOMAIN ws \ {f} |-> ws[g]]
    BY <1>4 DEF DeleteFile
  <2>2. Intact /\ pc' = pc /\ got' = got /\ f \in {"scriptResp", "finalResp"}
    BY <1>4 DEF DeleteFile, IntactInv, OneCommand
  <2>3. /\ DOMAIN ws' = DOMAIN ws \ {f}
        /\ \A g \in DOMAIN ws' : ws'[g] # Torn
    BY <2>1, <2>2 DEF Intact
  <2>4. \A r \in Runs : Finished(pc[r])'
    BY <2>2, <2>3 DEF Finished, Present, Intact
  <2>5. \A r \in Runs : Carries(pc[r], got[r])'
    BY <2>2, <2>3 DEF Carries, Present, Intact, TypeInv, Holds, AudioFiles
  <2> QED BY <2>2, <2>3, <2>4, <2>5 DEF Intact, Ends
<1>5. CASE UNCHANGED vars
  BY <1>5 DEF vars, IntactInv, Intact, Finished, Carries, Present, Ends
<1> QED BY <1>1, <1>2, <1>3, <1>4, <1>5 DEF Next

LEMMA IntactStarts == Init => IntactInv
BY DEF Init, IntactInv, Intact, Finished, Carries, Present

\* With one command at a time, whatever is edited, imported and reviewed, and whichever
\* reviews the operator deletes: until the first fault no command gives up half way
\* (Resume and every error that the stages return): each of those errors needs a fault
\* before it.
THEOREM SmoothCorrect ==
    ASSUME OneCommand
    PROVE  Spec => NeverStuck
<1>1. Init => IntactInv
  BY IntactStarts
<1>2. TypeInv /\ OrderInv /\ OneInv /\ IntactInv /\ [Next]_vars => IntactInv'
  BY IntactStep DEF IntactInv
<1>3. TypeInv /\ OrderInv /\ OneInv /\ IntactInv /\ [Next]_vars => [faults' = 0 => Ends]_vars
  BY IntactStep
<1> QED BY <1>1, <1>2, <1>3, OneAlways, PTL DEF Spec, NeverStuck

\* With one command at a time, for any number of faults: providers are only called for
\* stages that are not finished, over nothing that a render was made of, and before the
\* first fault over nothing at all but imported shots (runExternalJSON, the fileExists
\* test of each stage).
THEOREM CallsCorrect ==
    ASSUME OneCommand
    PROVE  Spec => []CallsNeeded
<1>1. TypeInv /\ OrderInv /\ OneInv /\ IntactInv => CallsNeeded
  <2> SUFFICES ASSUME TypeInv, OrderInv, OneInv, IntactInv,
                      NEW r \in Runs, pc[r] \in DOMAIN Finisher
               PROVE  /\ ~Present(Finisher[pc[r]])
                      /\ pc[r] \notin {"scriptResp", "finalResp"} => ~Present("rc")
                      /\ Present(pc[r]) => pc[r] = "shots" \/ faults > 0
    BY DEF CallsNeeded
  <2>1. Missing(pc[r], got[r]) \cap DOMAIN ws = {}
    BY MissingHere
  <2>2. pc[r] \in {"scriptResp", "shots", "wav", "captions", "rc", "finalResp"}
    BY DEF Finisher
  <2>3. ~Present(Finisher[pc[r]])
    BY <2>1, <2>2, MissingIs DEF Finisher, Present
  <2>4. ASSUME pc[r] \notin {"scriptResp", "finalResp"} PROVE ~Present("rc")
    <3>1. CASE pc[r] = "rc"
      BY <2>1, <3>1, MissingIs DEF Present
    <3>2. CASE pc[r] = "shots"
      BY <2>1, <3>2, MissingIs DEF OneInv, FilesFit, Parsed, Present
    <3>3. CASE pc[r] = "captions"
      BY <2>1, <3>3, MissingIs DEF OneInv, FilesFit, Parsed, Present
    <3>4. CASE pc[r] = "wav"
      <4>1. "voiceMan" \notin DOMAIN ws
        BY <2>1, <3>4, MissingIs
      <4>2. "subMan" \notin DOMAIN ws
        BY <4>1, PriorIs DEF OrderInv, PipelineOrder, OneCommand
      <4> QED BY <4>2 DEF OneInv, FilesFit, Parsed, Present
    <3> QED BY <2>2, <2>4, <3>1, <3>2, <3>3, <3>4
  <2>5. ASSUME faults = 0, Present(pc[r]) PROVE pc[r] = "shots"
    <3>1. Finished(pc[r])
      BY <2>5 DEF IntactInv, Intact
    <3> QED BY <2>2, <2>3, <2>5, <3>1 DEF Finished, Finisher
  <2>6. faults # 0 => faults > 0
    BY PilotAssumption DEF TypeInv, TypeOK
  <2> QED BY <2>3, <2>4, <2>5, <2>6
<1>2. Spec => []IntactInv
  <2>1. TypeInv /\ OrderInv /\ OneInv /\ IntactInv /\ [Next]_vars => IntactInv'
    BY IntactStep DEF IntactInv
  <2> QED BY <2>1, IntactStarts, OneAlways, PTL DEF Spec
<1> QED BY <1>1, <1>2, OneAlways, PTL
=============================================================================
