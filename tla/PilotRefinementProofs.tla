----------------------- MODULE PilotRefinementProofs -----------------------
(***************************************************************************)
(* The pilot pipeline implements ReleaseGate: every step of a command, of  *)
(* the operator or of a fault maps to one abstract step or to none.        *)
(***************************************************************************)
EXTENDS PilotRefinement, PilotProofs

GateVars == <<Phases, Produced, ScriptReviewPassed, FinalReviewPassed, Candidate>>

\* The files the two gates look at.
ReviewFiles == {"script", "scriptResp", "finalResp"}

LEMMA PhaseRange == \A l, g : PhaseOf(l, g) \in Gate!Phases
BY DEF PhaseOf, Gate!Phases

LEMMA PhasesAfter ==
    ASSUME TypeInv, NEW r \in Runs, NEW l, NEW g,
           pc' = [pc EXCEPT ![r] = l], got' = [got EXCEPT ![r] = g]
    PROVE  Phases' = [Phases EXCEPT ![r] = PhaseOf(l, g)]
BY DEF TypeInv, TypeOK, Phases

\* Writing, tearing or deleting a file that no gate looks at changes no verdict.
LEMMA ReviewsAfter ==
    ASSUME \A f \in ReviewFiles : /\ f \in DOMAIN ws' <=> f \in DOMAIN ws
                                  /\ f \in DOMAIN ws => ws'[f] = ws[f]
    PROVE  UNCHANGED <<ScriptReviewPassed, FinalReviewPassed>>
BY DEF ReviewFiles, ScriptReviewPassed, FinalReviewPassed, Parsed, Present

\* What writing c to the file f does to the abstract variables.
LEMMA WriteMaps ==
    ASSUME NEW f, NEW c, ws' = With(f, c)
    PROVE  /\ DOMAIN Produced \subseteq DOMAIN Produced'
           /\ f \notin Products => Produced' = Produced
           /\ f \notin ReviewFiles => UNCHANGED <<ScriptReviewPassed, FinalReviewPassed>>
           /\ f # "episode" => Candidate' = Candidate
           /\ f = "episode" => Candidate' = (c = "release_candidate")
<1>1. DOMAIN Produced \subseteq DOMAIN Produced'
  BY DEF With, Produced
<1>2. f \notin Products => Produced' = Produced
  BY DEF With, Produced
<1>3. f \notin ReviewFiles => UNCHANGED <<ScriptReviewPassed, FinalReviewPassed>>
  BY ReviewsAfter DEF With
<1>4. f # "episode" => Candidate' = Candidate
  BY DEF With, Candidate, Present
<1>5. f = "episode" => Candidate' = (c = "release_candidate")
  BY DEF With, Candidate, Present
<1> QED BY <1>1, <1>2, <1>3, <1>4, <1>5

LEMMA VerdictsAreBoolean ==
    ScriptReviewPassed \in BOOLEAN /\ FinalReviewPassed \in BOOLEAN
BY DEF ScriptReviewPassed, FinalReviewPassed

\* A run that writes nothing and moves between phases as the gate allows.
LEMMA MoveMaps ==
    ASSUME TypeInv, NEW r \in Runs, NEW to, NEW i, Move(r, to, i),
           \/ PhaseOf(to, i) = PhaseOf(pc[r], got[r])
           \/ PhaseOf(to, i) = "idle"
           \/ PhaseOf(pc[r], got[r]) = "idle" /\ PhaseOf(to, i) = "drafting"
           \/ /\ PhaseOf(pc[r], got[r]) = "drafting" /\ PhaseOf(to, i) = "producing"
              /\ ScriptReviewPassed
           \/ /\ PhaseOf(pc[r], got[r]) = "producing" /\ PhaseOf(to, i) = "closing"
              /\ FinalReviewPassed
    PROVE  [Gate!Next]_GateVars
<1>1. Phases' = [Phases EXCEPT ![r] = PhaseOf(to, i)]
  BY PhasesAfter DEF Move
<1>2. UNCHANGED <<Produced, ScriptReviewPassed, FinalReviewPassed, Candidate>>
  BY ReviewsAfter DEF Move, Produced, Candidate, Present
<1>3. Phases[r] = PhaseOf(pc[r], got[r]) /\ Phases[r] \in Gate!Phases
  BY PhaseRange DEF Phases
<1>4. CASE PhaseOf(to, i) = PhaseOf(pc[r], got[r])
  BY <1>1, <1>2, <1>3, <1>4 DEF GateVars, Phases
<1>5. CASE PhaseOf(to, i) = "idle"
  BY <1>1, <1>2, <1>3, <1>5, VerdictsAreBoolean DEF Gate!Next, Gate!Stop, Gate!Goes
<1>6. CASE PhaseOf(pc[r], got[r]) = "idle" /\ PhaseOf(to, i) = "drafting"
  BY <1>1, <1>2, <1>3, <1>6 DEF Gate!Next, Gate!Start, Gate!Goes, Gate!reviews
<1>7. CASE /\ PhaseOf(pc[r], got[r]) = "drafting" /\ PhaseOf(to, i) = "producing"
           /\ ScriptReviewPassed
  BY <1>1, <1>2, <1>3, <1>7 DEF Gate!Next, Gate!PassScript, Gate!Goes, Gate!reviews
<1>8. CASE /\ PhaseOf(pc[r], got[r]) = "producing" /\ PhaseOf(to, i) = "closing"
           /\ FinalReviewPassed
  BY <1>1, <1>2, <1>3, <1>8 DEF Gate!Next, Gate!PassFinal, Gate!Goes, Gate!reviews
<1> QED BY <1>4, <1>5, <1>6, <1>7, <1>8

\* A run that stops.
LEMMA AbortMaps ==
    ASSUME TypeInv, NEW r \in Runs, Abort(r)
    PROVE  [Gate!Next]_GateVars
<1>1. PhaseOf("idle", NoInput) = "idle"
  BY DEF PhaseOf
<1> QED BY <1>1, MoveMaps DEF Abort

\* A run that writes a file other than the manifest of the episode.
LEMMA StoreMaps ==
    ASSUME TypeInv, NEW r \in Runs, NEW f, f # "episode", NEW c, NEW to, NEW i,
           Store(r, f, c, to, i),
           PhaseOf(to, i) = PhaseOf(pc[r], got[r]),
           f \in Products => PhaseOf(to, i) = "producing" /\ f \notin ReviewFiles
    PROVE  [Gate!Next]_GateVars
<1>1. Phases' = [Phases EXCEPT ![r] = PhaseOf(to, i)] /\ Phases[r] = PhaseOf(pc[r], got[r])
  BY PhasesAfter DEF Store, Phases
<1>2. Phases' = Phases
  BY <1>1 DEF Phases
<1>3. /\ DOMAIN Produced \subseteq DOMAIN Produced'
      /\ f \notin Products => Produced' = Produced
      /\ f \notin ReviewFiles => UNCHANGED <<ScriptReviewPassed, FinalReviewPassed>>
      /\ Candidate' = Candidate
  BY WriteMaps DEF Store
<1>4. ScriptReviewPassed' \in BOOLEAN /\ FinalReviewPassed' \in BOOLEAN
  BY DEF ScriptReviewPassed, FinalReviewPassed
<1>5. CASE f \in Products
  BY <1>1, <1>3, <1>5 DEF Gate!Next, Gate!Produce, Gate!Goes, Gate!reviews
<1>6. CASE f \notin Products
  BY <1>2, <1>3, <1>4, <1>6 DEF Gate!Next, Gate!Review
<1> QED BY <1>5, <1>6

LEMMA GateStep ==
    ASSUME TypeInv, [Next]_vars
    PROVE  [Gate!Next]_GateVars
<1>1. ASSUME NEW r \in Runs, StartGenerate(r) PROVE [Gate!Next]_GateVars
  <2>1. \A g : PhaseOf("idle", g) = "idle"
    BY DEF PhaseOf, Producing, Production, Closing, Imports
  <2>2. \A g : PhaseOf("resume", g) = "drafting"
    BY DEF PhaseOf, Producing, Production, Closing, Imports
  <2>3. PhaseOf("episode", "generated") = "drafting"
    BY DEF PhaseOf, Producing, Production, Closing, Imports
  <2> QED BY <1>1, <2>1, <2>2, <2>3, MoveMaps, AbortMaps
    DEF StartGenerate
<1>2. ASSUME NEW r \in Runs, StartResume(r) PROVE [Gate!Next]_GateVars
  <2>1. \A g : PhaseOf("idle", g) = "idle"
    BY DEF PhaseOf, Producing, Production, Closing, Imports
  <2>2. \A g : PhaseOf("resume", g) = "drafting"
    BY DEF PhaseOf, Producing, Production, Closing, Imports
  <2> QED BY <1>2, <2>1, <2>2, MoveMaps, AbortMaps
    DEF StartResume
<1>3. ASSUME NEW r \in Runs, WriteEpisode(r) PROVE [Gate!Next]_GateVars
  <2>1. /\ Phases' = [Phases EXCEPT ![r] = PhaseOf("topic", NoInput)]
        /\ Phases[r] = PhaseOf("episode", "generated")
    BY <1>3, PhasesAfter DEF WriteEpisode, Store, Phases
  <2>2. PhaseOf("topic", NoInput) = "drafting"
        /\ PhaseOf("episode", "generated") = "drafting"
    BY DEF PhaseOf, Producing, Production, Closing, Imports
  <2>3. /\ UNCHANGED <<Produced, ScriptReviewPassed, FinalReviewPassed>>
        /\ Candidate' = FALSE
    BY <1>3, WriteMaps DEF WriteEpisode, Store, Products, ReviewFiles
  <2> QED BY <2>1, <2>2, <2>3 DEF Gate!Next, Gate!Withdraw, Gate!Goes, Gate!reviews
<1>4. ASSUME NEW r \in Runs, WriteTopic(r) PROVE [Gate!Next]_GateVars
  <2>1. \A g : PhaseOf("topic", g) = "drafting"
    BY DEF PhaseOf, Producing, Production, Closing, Imports
  <2>2. \A g : PhaseOf("research", g) = "drafting"
    BY DEF PhaseOf, Producing, Production, Closing, Imports
  <2>3. "topic" \notin Products /\ ("topic" \in Products => "topic" \notin ReviewFiles)
    BY DEF Products, ReviewFiles
  <2> QED BY <1>4, <2>1, <2>2, <2>3, StoreMaps
    DEF WriteTopic
<1>5. ASSUME NEW r \in Runs, WriteResearch(r) PROVE [Gate!Next]_GateVars
  <2>1. \A g : PhaseOf("research", g) = "drafting"
    BY DEF PhaseOf, Producing, Production, Closing, Imports
  <2>2. \A g : PhaseOf("resume", g) = "drafting"
    BY DEF PhaseOf, Producing, Production, Closing, Imports
  <2>3. "research" \notin Products /\ ("research" \in Products
        => "research" \notin ReviewFiles)
    BY DEF Products, ReviewFiles
  <2> QED BY <1>5, <2>1, <2>2, <2>3, StoreMaps
    DEF WriteResearch
<1>6. ASSUME NEW r \in Runs, UpdateStatus(r) PROVE [Gate!Next]_GateVars
  <2>1. CASE Abort(r)
    BY <2>1, AbortMaps
  <2>2. CASE Store(r, "episode", got[r], "idle", NoInput)
    <3>1. /\ Phases' = [Phases EXCEPT ![r] = PhaseOf("idle", NoInput)]
          /\ Phases[r] = PhaseOf("episode", got[r])
          /\ Phases[r] \in Gate!Phases
      BY <1>6, <2>2, PhasesAfter, PhaseRange DEF UpdateStatus, Store, Phases
    <3>2. /\ PhaseOf("idle", NoInput) = "idle"
          /\ PhaseOf("episode", "release_candidate") = "closing"
      BY DEF PhaseOf, Producing, Production, Closing, Imports
    <3>3. /\ UNCHANGED <<Produced, ScriptReviewPassed, FinalReviewPassed>>
          /\ Candidate' = (got[r] = "release_candidate")
      BY <2>2, WriteMaps DEF Store, Products, ReviewFiles
    <3>4. CASE got[r] = "release_candidate"
      BY <3>1, <3>2, <3>3, <3>4 DEF Gate!Next, Gate!Declare, Gate!Goes, Gate!reviews
    <3>5. CASE got[r] # "release_candidate"
      BY <3>1, <3>2, <3>3, <3>5 DEF Gate!Next, Gate!Withdraw, Gate!Goes, Gate!reviews
    <3> QED BY <3>4, <3>5
  <2> QED BY <1>6, <2>1, <2>2 DEF UpdateStatus
<1>7. ASSUME NEW r \in Runs, Resume(r) PROVE [Gate!Next]_GateVars
  <2>1. \A g : PhaseOf("resume", g) = "drafting"
    BY DEF PhaseOf, Producing, Production, Closing, Imports
  <2>2. \A g : PhaseOf("ensureScript", g) = "drafting"
    BY DEF PhaseOf, Producing, Production, Closing, Imports
  <2> QED BY <1>7, <2>1, <2>2, MoveMaps, AbortMaps
    DEF Resume
<1>8. ASSUME NEW r \in Runs, EnsureScript(r) PROVE [Gate!Next]_GateVars
  <2>1. \A g : PhaseOf("ensureScript", g) = "drafting"
    BY DEF PhaseOf, Producing, Production, Closing, Imports
  <2>2. \A g : PhaseOf("script", g) = "drafting"
    BY DEF PhaseOf, Producing, Production, Closing, Imports
  <2>3. \A g : PhaseOf("ensureScriptReq", g) = "drafting"
    BY DEF PhaseOf, Producing, Production, Closing, Imports
  <2>4. \A g : PhaseOf("idle", g) = "idle"
    BY DEF PhaseOf, Producing, Production, Closing, Imports
  <2> QED BY <1>8, <2>1, <2>2, <2>3, <2>4, MoveMaps, AbortMaps
    DEF EnsureScript, Ensure
<1>9. ASSUME NEW r \in Runs, WriteScript(r) PROVE [Gate!Next]_GateVars
  <2>1. \A g : PhaseOf("script", g) = "drafting"
    BY DEF PhaseOf, Producing, Production, Closing, Imports
  <2>2. \A g : PhaseOf("scriptMan", g) = "drafting"
    BY DEF PhaseOf, Producing, Production, Closing, Imports
  <2>3. "script" \notin Products /\ ("script" \in Products => "script" \notin ReviewFiles)
    BY DEF Products, ReviewFiles
  <2> QED BY <1>9, <2>1, <2>2, <2>3, StoreMaps
    DEF WriteScript
<1>10. ASSUME NEW r \in Runs, WriteScriptMan(r) PROVE [Gate!Next]_GateVars
  <2>1. \A g : PhaseOf("scriptMan", g) = "drafting"
    BY DEF PhaseOf, Producing, Production, Closing, Imports
  <2>2. \A g : PhaseOf("ensureScriptReq", g) = "drafting"
    BY DEF PhaseOf, Producing, Production, Closing, Imports
  <2>3. "scriptMan" \notin Products /\ ("scriptMan" \in Products
        => "scriptMan" \notin ReviewFiles)
    BY DEF Products, ReviewFiles
  <2> QED BY <1>10, <2>1, <2>2, <2>3, StoreMaps, AbortMaps
    DEF WriteScriptMan
<1>11. ASSUME NEW r \in Runs, EnsureScriptReq(r) PROVE [Gate!Next]_GateVars
  <2>1. \A g : PhaseOf("ensureScriptReq", g) = "drafting"
    BY DEF PhaseOf, Producing, Production, Closing, Imports
  <2>2. \A g : PhaseOf("scriptReq", g) = "drafting"
    BY DEF PhaseOf, Producing, Production, Closing, Imports
  <2>3. \A g : PhaseOf("ensureScriptResp", g) = "drafting"
    BY DEF PhaseOf, Producing, Production, Closing, Imports
  <2> QED BY <1>11, <2>1, <2>2, <2>3, MoveMaps, AbortMaps
    DEF EnsureScriptReq, Ensure
<1>12. ASSUME NEW r \in Runs, WriteScriptReq(r) PROVE [Gate!Next]_GateVars
  <2>1. \A g : PhaseOf("scriptReq", g) = "drafting"
    BY DEF PhaseOf, Producing, Production, Closing, Imports
  <2>2. \A g : PhaseOf("ensureScriptResp", g) = "drafting"
    BY DEF PhaseOf, Producing, Production, Closing, Imports
  <2>3. "scriptReq" \notin Products /\ ("scriptReq" \in Products
        => "scriptReq" \notin ReviewFiles)
    BY DEF Products, ReviewFiles
  <2> QED BY <1>12, <2>1, <2>2, <2>3, StoreMaps
    DEF WriteScriptReq
<1>13. ASSUME NEW r \in Runs, EnsureScriptResp(r) PROVE [Gate!Next]_GateVars
  <2>1. \A g : PhaseOf("ensureScriptResp", g) = "drafting"
    BY DEF PhaseOf, Producing, Production, Closing, Imports
  <2>2. \A g : PhaseOf("scriptResp", g) = "drafting"
    BY DEF PhaseOf, Producing, Production, Closing, Imports
  <2>3. \A g : PhaseOf("scriptGate", g) = "drafting"
    BY DEF PhaseOf, Producing, Production, Closing, Imports
  <2> QED BY <1>13, <2>1, <2>2, <2>3, MoveMaps, AbortMaps
    DEF EnsureScriptResp, Ensure
<1>14. ASSUME NEW r \in Runs, ReceiveScriptReview(r) PROVE [Gate!Next]_GateVars
  <2>1. \A g : PhaseOf("scriptResp", g) = "drafting"
    BY DEF PhaseOf, Producing, Production, Closing, Imports
  <2>2. \A g : PhaseOf("scriptGate", g) = "drafting"
    BY DEF PhaseOf, Producing, Production, Closing, Imports
  <2>3. "scriptResp" \notin Products /\ ("scriptResp" \in Products
        => "scriptResp" \notin ReviewFiles)
    BY DEF Products, ReviewFiles
  <2> QED BY <1>14, <2>1, <2>2, <2>3, StoreMaps, AbortMaps
    DEF ReceiveScriptReview
<1>15. ASSUME NEW r \in Runs, ScriptGate(r) PROVE [Gate!Next]_GateVars
  <2>1. \A g : PhaseOf("scriptGate", g) = "drafting"
    BY DEF PhaseOf, Producing, Production, Closing, Imports
  <2>2. \A g : PhaseOf("ensureShotReqs", g) = "producing"
    BY DEF PhaseOf, Producing, Production, Closing, Imports
  <2>3. PhaseOf("episode", "needs_review") = "drafting"
    BY DEF PhaseOf, Producing, Production, Closing, Imports
  <2> QED BY <1>15, <2>1, <2>2, <2>3, MoveMaps, AbortMaps
    DEF ScriptGate
<1>16. ASSUME NEW r \in Runs, EnsureShotReqs(r) PROVE [Gate!Next]_GateVars
  <2>1. \A g : PhaseOf("ensureShotReqs", g) = "producing"
    BY DEF PhaseOf, Producing, Production, Closing, Imports
  <2>2. \A g : PhaseOf("shotReqs", g) = "producing"
    BY DEF PhaseOf, Producing, Production, Closing, Imports
  <2>3. \A g : PhaseOf("ensureVisuals", g) = "producing"
    BY DEF PhaseOf, Producing, Production, Closing, Imports
  <2> QED BY <1>16, <2>1, <2>2, <2>3, MoveMaps, AbortMaps
    DEF EnsureShotReqs, Ensure
<1>17. ASSUME NEW r \in Runs, WriteShotReqs(r) PROVE [Gate!Next]_GateVars
  <2>1. \A g : PhaseOf("shotReqs", g) = "producing"
    BY DEF PhaseOf, Producing, Production, Closing, Imports
  <2>2. \A g : PhaseOf("ensureVisuals", g) = "producing"
    BY DEF PhaseOf, Producing, Production, Closing, Imports
  <2>3. "shotReqs" \in Products /\ ("shotReqs" \in Products
        => "shotReqs" \notin ReviewFiles)
    BY DEF Products, ReviewFiles
  <2> QED BY <1>17, <2>1, <2>2, <2>3, StoreMaps
    DEF WriteShotReqs
<1>18. ASSUME NEW r \in Runs, EnsureVisuals(r) PROVE [Gate!Next]_GateVars
  <2>1. \A g : PhaseOf("ensureVisuals", g) = "producing"
    BY DEF PhaseOf, Producing, Production, Closing, Imports
  <2>2. \A g : PhaseOf("shots", g) = "producing"
    BY DEF PhaseOf, Producing, Production, Closing, Imports
  <2>3. \A g : PhaseOf("ensureVoice", g) = "producing"
    BY DEF PhaseOf, Producing, Production, Closing, Imports
  <2> QED BY <1>18, <2>1, <2>2, <2>3, MoveMaps, AbortMaps
    DEF EnsureVisuals, Ensure
<1>19. ASSUME NEW r \in Runs, RunVisualProvider(r) PROVE [Gate!Next]_GateVars
  <2>1. \A g : PhaseOf("shots", g) = "producing"
    BY DEF PhaseOf, Producing, Production, Closing, Imports
  <2>2. \A g : PhaseOf("visualMan", g) = "producing"
    BY DEF PhaseOf, Producing, Production, Closing, Imports
  <2>3. "shots" \notin Products /\ ("shots" \in Products => "shots" \notin ReviewFiles)
    BY DEF Products, ReviewFiles
  <2> QED BY <1>19, <2>1, <2>2, <2>3, StoreMaps
    DEF RunVisualProvider
<1>20. ASSUME NEW r \in Runs, WriteVisualMan(r) PROVE [Gate!Next]_GateVars
  <2>1. \A g : PhaseOf("visualMan", g) = "producing"
    BY DEF PhaseOf, Producing, Production, Closing, Imports
  <2>2. \A g : PhaseOf("ensureVoice", g) = "producing"
    BY DEF PhaseOf, Producing, Production, Closing, Imports
  <2>3. "visualMan" \in Products /\ ("visualMan" \in Products
        => "visualMan" \notin ReviewFiles)
    BY DEF Products, ReviewFiles
  <2> QED BY <1>20, <2>1, <2>2, <2>3, StoreMaps, AbortMaps
    DEF WriteVisualMan
<1>21. ASSUME NEW r \in Runs, EnsureVoice(r) PROVE [Gate!Next]_GateVars
  <2>1. \A g : PhaseOf("ensureVoice", g) = "producing"
    BY DEF PhaseOf, Producing, Production, Closing, Imports
  <2>2. \A g : PhaseOf("wav", g) = "producing"
    BY DEF PhaseOf, Producing, Production, Closing, Imports
  <2>3. \A g : PhaseOf("ensureSubs", g) = "producing"
    BY DEF PhaseOf, Producing, Production, Closing, Imports
  <2> QED BY <1>21, <2>1, <2>2, <2>3, MoveMaps, AbortMaps
    DEF EnsureVoice, Ensure
<1>22. ASSUME NEW r \in Runs, RunVoiceProvider(r) PROVE [Gate!Next]_GateVars
  <2>1. \A g : PhaseOf("wav", g) = "producing"
    BY DEF PhaseOf, Producing, Production, Closing, Imports
  <2>2. \A g : PhaseOf("voiceMan", g) = "producing"
    BY DEF PhaseOf, Producing, Production, Closing, Imports
  <2>3. "wav" \notin Products /\ ("wav" \in Products => "wav" \notin ReviewFiles)
    BY DEF Products, ReviewFiles
  <2> QED BY <1>22, <2>1, <2>2, <2>3, StoreMaps
    DEF RunVoiceProvider
<1>23. ASSUME NEW r \in Runs, WriteVoiceMan(r) PROVE [Gate!Next]_GateVars
  <2>1. \A g : PhaseOf("voiceMan", g) = "producing"
    BY DEF PhaseOf, Producing, Production, Closing, Imports
  <2>2. \A g : PhaseOf("ensureSubs", g) = "producing"
    BY DEF PhaseOf, Producing, Production, Closing, Imports
  <2>3. "voiceMan" \notin Products /\ ("voiceMan" \in Products
        => "voiceMan" \notin ReviewFiles)
    BY DEF Products, ReviewFiles
  <2> QED BY <1>23, <2>1, <2>2, <2>3, StoreMaps, AbortMaps
    DEF WriteVoiceMan
<1>24. ASSUME NEW r \in Runs, EnsureSubs(r) PROVE [Gate!Next]_GateVars
  <2>1. \A g : PhaseOf("ensureSubs", g) = "producing"
    BY DEF PhaseOf, Producing, Production, Closing, Imports
  <2>2. \A g : PhaseOf("captions", g) = "producing"
    BY DEF PhaseOf, Producing, Production, Closing, Imports
  <2>3. \A g : PhaseOf("ensureRender", g) = "producing"
    BY DEF PhaseOf, Producing, Production, Closing, Imports
  <2> QED BY <1>24, <2>1, <2>2, <2>3, MoveMaps, AbortMaps
    DEF EnsureSubs, Ensure
<1>25. ASSUME NEW r \in Runs, WriteCaptions(r) PROVE [Gate!Next]_GateVars
  <2>1. \A g : PhaseOf("captions", g) = "producing"
    BY DEF PhaseOf, Producing, Production, Closing, Imports
  <2>2. \A g : PhaseOf("subMan", g) = "producing"
    BY DEF PhaseOf, Producing, Production, Closing, Imports
  <2>3. "captions" \in Products /\ ("captions" \in Products
        => "captions" \notin ReviewFiles)
    BY DEF Products, ReviewFiles
  <2> QED BY <1>25, <2>1, <2>2, <2>3, StoreMaps
    DEF WriteCaptions
<1>26. ASSUME NEW r \in Runs, WriteSubMan(r) PROVE [Gate!Next]_GateVars
  <2>1. \A g : PhaseOf("subMan", g) = "producing"
    BY DEF PhaseOf, Producing, Production, Closing, Imports
  <2>2. \A g : PhaseOf("ensureRender", g) = "producing"
    BY DEF PhaseOf, Producing, Production, Closing, Imports
  <2>3. "subMan" \in Products /\ ("subMan" \in Products => "subMan" \notin ReviewFiles)
    BY DEF Products, ReviewFiles
  <2> QED BY <1>26, <2>1, <2>2, <2>3, StoreMaps, AbortMaps
    DEF WriteSubMan
<1>27. ASSUME NEW r \in Runs, EnsureRender(r) PROVE [Gate!Next]_GateVars
  <2>1. \A g : PhaseOf("ensureRender", g) = "producing"
    BY DEF PhaseOf, Producing, Production, Closing, Imports
  <2>2. \A g : PhaseOf("rc", g) = "producing"
    BY DEF PhaseOf, Producing, Production, Closing, Imports
  <2>3. \A g : PhaseOf("ensureFinalReq", g) = "producing"
    BY DEF PhaseOf, Producing, Production, Closing, Imports
  <2> QED BY <1>27, <2>1, <2>2, <2>3, MoveMaps, AbortMaps
    DEF EnsureRender
<1>28. ASSUME NEW r \in Runs, RunFFmpeg(r) PROVE [Gate!Next]_GateVars
  <2>1. \A g : PhaseOf("rc", g) = "producing"
    BY DEF PhaseOf, Producing, Production, Closing, Imports
  <2>2. \A g : PhaseOf("renderMan", g) = "producing"
    BY DEF PhaseOf, Producing, Production, Closing, Imports
  <2>3. "rc" \in Products /\ ("rc" \in Products => "rc" \notin ReviewFiles)
    BY DEF Products, ReviewFiles
  <2> QED BY <1>28, <2>1, <2>2, <2>3, StoreMaps
    DEF RunFFmpeg
<1>29. ASSUME NEW r \in Runs, WriteRenderMan(r) PROVE [Gate!Next]_GateVars
  <2>1. \A g : PhaseOf("renderMan", g) = "producing"
    BY DEF PhaseOf, Producing, Production, Closing, Imports
  <2>2. \A g : PhaseOf("ensureFinalReq", g) = "producing"
    BY DEF PhaseOf, Producing, Production, Closing, Imports
  <2>3. "renderMan" \in Products /\ ("renderMan" \in Products
        => "renderMan" \notin ReviewFiles)
    BY DEF Products, ReviewFiles
  <2> QED BY <1>29, <2>1, <2>2, <2>3, StoreMaps, AbortMaps
    DEF WriteRenderMan
<1>30. ASSUME NEW r \in Runs, EnsureFinalReq(r) PROVE [Gate!Next]_GateVars
  <2>1. \A g : PhaseOf("ensureFinalReq", g) = "producing"
    BY DEF PhaseOf, Producing, Production, Closing, Imports
  <2>2. \A g : PhaseOf("finalReq", g) = "producing"
    BY DEF PhaseOf, Producing, Production, Closing, Imports
  <2>3. \A g : PhaseOf("ensureFinalResp", g) = "producing"
    BY DEF PhaseOf, Producing, Production, Closing, Imports
  <2> QED BY <1>30, <2>1, <2>2, <2>3, MoveMaps, AbortMaps
    DEF EnsureFinalReq, Ensure
<1>31. ASSUME NEW r \in Runs, WriteFinalReq(r) PROVE [Gate!Next]_GateVars
  <2>1. \A g : PhaseOf("finalReq", g) = "producing"
    BY DEF PhaseOf, Producing, Production, Closing, Imports
  <2>2. \A g : PhaseOf("ensureFinalResp", g) = "producing"
    BY DEF PhaseOf, Producing, Production, Closing, Imports
  <2>3. "finalReq" \in Products /\ ("finalReq" \in Products
        => "finalReq" \notin ReviewFiles)
    BY DEF Products, ReviewFiles
  <2> QED BY <1>31, <2>1, <2>2, <2>3, StoreMaps
    DEF WriteFinalReq
<1>32. ASSUME NEW r \in Runs, EnsureFinalResp(r) PROVE [Gate!Next]_GateVars
  <2>1. \A g : PhaseOf("ensureFinalResp", g) = "producing"
    BY DEF PhaseOf, Producing, Production, Closing, Imports
  <2>2. \A g : PhaseOf("finalResp", g) = "producing"
    BY DEF PhaseOf, Producing, Production, Closing, Imports
  <2>3. \A g : PhaseOf("finalGate", g) = "producing"
    BY DEF PhaseOf, Producing, Production, Closing, Imports
  <2> QED BY <1>32, <2>1, <2>2, <2>3, MoveMaps, AbortMaps
    DEF EnsureFinalResp, Ensure
<1>33. ASSUME NEW r \in Runs, ReceiveFinalReview(r) PROVE [Gate!Next]_GateVars
  <2>1. \A g : PhaseOf("finalResp", g) = "producing"
    BY DEF PhaseOf, Producing, Production, Closing, Imports
  <2>2. \A g : PhaseOf("finalGate", g) = "producing"
    BY DEF PhaseOf, Producing, Production, Closing, Imports
  <2>3. "finalResp" \notin Products /\ ("finalResp" \in Products
        => "finalResp" \notin ReviewFiles)
    BY DEF Products, ReviewFiles
  <2> QED BY <1>33, <2>1, <2>2, <2>3, StoreMaps
    DEF ReceiveFinalReview
<1>34. ASSUME NEW r \in Runs, FinalGate(r) PROVE [Gate!Next]_GateVars
  <2>1. \A g : PhaseOf("finalGate", g) = "producing"
    BY DEF PhaseOf, Producing, Production, Closing, Imports
  <2>2. \A g : PhaseOf("ensureProdQA", g) = "closing"
    BY DEF PhaseOf, Producing, Production, Closing, Imports
  <2>3. PhaseOf("episode", "release_blocked") = "producing"
    BY DEF PhaseOf, Producing, Production, Closing, Imports
  <2> QED BY <1>34, <2>1, <2>2, <2>3, MoveMaps, AbortMaps
    DEF FinalGate
<1>35. ASSUME NEW r \in Runs, EnsureProdQA(r) PROVE [Gate!Next]_GateVars
  <2>1. \A g : PhaseOf("ensureProdQA", g) = "closing"
    BY DEF PhaseOf, Producing, Production, Closing, Imports
  <2>2. \A g : PhaseOf("prodQA", g) = "closing"
    BY DEF PhaseOf, Producing, Production, Closing, Imports
  <2>3. \A g : PhaseOf("ensurePublish", g) = "closing"
    BY DEF PhaseOf, Producing, Production, Closing, Imports
  <2> QED BY <1>35, <2>1, <2>2, <2>3, MoveMaps, AbortMaps
    DEF EnsureProdQA, Ensure
<1>36. ASSUME NEW r \in Runs, WriteProdQA(r) PROVE [Gate!Next]_GateVars
  <2>1. \A g : PhaseOf("prodQA", g) = "closing"
    BY DEF PhaseOf, Producing, Production, Closing, Imports
  <2>2. \A g : PhaseOf("ensurePublish", g) = "closing"
    BY DEF PhaseOf, Producing, Production, Closing, Imports
  <2>3. "prodQA" \notin Products /\ ("prodQA" \in Products => "prodQA" \notin ReviewFiles)
    BY DEF Products, ReviewFiles
  <2> QED BY <1>36, <2>1, <2>2, <2>3, StoreMaps
    DEF WriteProdQA
<1>37. ASSUME NEW r \in Runs, EnsurePublish(r) PROVE [Gate!Next]_GateVars
  <2>1. \A g : PhaseOf("ensurePublish", g) = "closing"
    BY DEF PhaseOf, Producing, Production, Closing, Imports
  <2>2. \A g : PhaseOf("publish", g) = "closing"
    BY DEF PhaseOf, Producing, Production, Closing, Imports
  <2>3. PhaseOf("episode", "release_candidate") = "closing"
    BY DEF PhaseOf, Producing, Production, Closing, Imports
  <2> QED BY <1>37, <2>1, <2>2, <2>3, MoveMaps, AbortMaps
    DEF EnsurePublish
<1>38. ASSUME NEW r \in Runs, WritePublish(r) PROVE [Gate!Next]_GateVars
  <2>1. \A g : PhaseOf("publish", g) = "closing"
    BY DEF PhaseOf, Producing, Production, Closing, Imports
  <2>2. PhaseOf("episode", "release_candidate") = "closing"
    BY DEF PhaseOf, Producing, Production, Closing, Imports
  <2>3. "publish" \notin Products /\ ("publish" \in Products
        => "publish" \notin ReviewFiles)
    BY DEF Products, ReviewFiles
  <2> QED BY <1>38, <2>1, <2>2, <2>3, StoreMaps
    DEF WritePublish
<1>39. ASSUME NEW r \in Runs, StartImportScriptReview(r) PROVE [Gate!Next]_GateVars
  <2>1. \A g : PhaseOf("idle", g) = "idle"
    BY DEF PhaseOf, Producing, Production, Closing, Imports
  <2>2. \A g : PhaseOf("importScript", g) = "idle"
    BY DEF PhaseOf, Producing, Production, Closing, Imports
  <2> QED BY <1>39, <2>1, <2>2, MoveMaps, AbortMaps
    DEF StartImportScriptReview
<1>40. ASSUME NEW r \in Runs, StartImportFinalReview(r) PROVE [Gate!Next]_GateVars
  <2>1. \A g : PhaseOf("idle", g) = "idle"
    BY DEF PhaseOf, Producing, Production, Closing, Imports
  <2>2. \A g : PhaseOf("importFinal", g) = "idle"
    BY DEF PhaseOf, Producing, Production, Closing, Imports
  <2> QED BY <1>40, <2>1, <2>2, MoveMaps, AbortMaps
    DEF StartImportFinalReview
<1>41. ASSUME NEW r \in Runs, StartImportVisualShot(r) PROVE [Gate!Next]_GateVars
  <2>1. \A g : PhaseOf("idle", g) = "idle"
    BY DEF PhaseOf, Producing, Production, Closing, Imports
  <2>2. \A g : PhaseOf("importShots", g) = "idle"
    BY DEF PhaseOf, Producing, Production, Closing, Imports
  <2> QED BY <1>41, <2>1, <2>2, MoveMaps, AbortMaps
    DEF StartImportVisualShot
<1>42. ASSUME NEW r \in Runs, StartImportVoice(r) PROVE [Gate!Next]_GateVars
  <2>1. \A g : PhaseOf("idle", g) = "idle"
    BY DEF PhaseOf, Producing, Production, Closing, Imports
  <2>2. \A g : PhaseOf("importVoice", g) = "idle"
    BY DEF PhaseOf, Producing, Production, Closing, Imports
  <2> QED BY <1>42, <2>1, <2>2, MoveMaps, AbortMaps
    DEF StartImportVoice
<1>43. ASSUME NEW r \in Runs,
             WriteImportedReview(r) \/ CopyVisualShot(r) \/ CopyRecording(r)
               \/ WriteImportedVoiceMan(r)
      PROVE  [Gate!Next]_GateVars
  <2>1. \A l \in Imports \cup {"idle"} : \A g : PhaseOf(l, g) = "idle"
    BY DEF PhaseOf
  <2>2. pc[r] \in Imports
    BY <1>43 DEF WriteImportedReview, CopyVisualShot, CopyRecording,
         WriteImportedVoiceMan, Imports
  <2>3. /\ {"scriptResp", "finalResp", "shots", "wav", "mp3", "voiceMan"} \cap Products = {}
        /\ "importVoiceMan" \in Imports
    BY DEF Products, Imports
  <2>4. CopyRecording(r) => got[r].path \in {"wav", "mp3"}
    BY DEF CopyRecording, TypeInv, Holds, AudioFiles
  <2>5. CASE WriteImportedReview(r)
    BY <2>1, <2>2, <2>3, <2>5, StoreMaps DEF WriteImportedReview
  <2>6. CASE CopyVisualShot(r)
    BY <2>1, <2>2, <2>3, <2>6, StoreMaps DEF CopyVisualShot
  <2>7. CASE CopyRecording(r)
    <3>1. got[r].path \notin Products /\ got[r].path # "episode"
      BY <2>4, <2>7 DEF Products
    <3>2. PhaseOf("importVoiceMan", got[r]) = PhaseOf(pc[r], got[r])
      BY <2>1, <2>2, <2>3
    <3> QED BY <2>7, <3>1, <3>2, StoreMaps DEF CopyRecording
  <2>8. CASE WriteImportedVoiceMan(r)
    BY <2>1, <2>2, <2>3, <2>8, StoreMaps, AbortMaps DEF WriteImportedVoiceMan
  <2> QED BY <1>43, <2>5, <2>6, <2>7, <2>8
<1>44. ASSUME NEW r \in Runs, Fault(r) PROVE [Gate!Next]_GateVars
  <2>1. /\ Phases' = [Phases EXCEPT ![r] = "idle"]
        /\ Phases[r] = PhaseOf(pc[r], got[r])
        /\ Phases[r] \in Gate!Phases
    <3>1. PhaseOf("idle", NoInput) = "idle"
      BY DEF PhaseOf
    <3>2. Phases' = [Phases EXCEPT ![r] = PhaseOf("idle", NoInput)]
      BY <1>44, PhasesAfter DEF Fault
    <3>3. Phases[r] = PhaseOf(pc[r], got[r])
      BY DEF Phases
    <3> QED BY <3>1, <3>2, <3>3, PhaseRange
  <2>2. ScriptReviewPassed' \in BOOLEAN /\ FinalReviewPassed' \in BOOLEAN
    BY DEF ScriptReviewPassed, FinalReviewPassed
  <2>3. CASE UNCHANGED ws
    <3>1. UNCHANGED <<Produced, Candidate>>
      BY <2>3 DEF Produced, Candidate, Present
    <3> QED BY <2>1, <2>2, <3>1 DEF Gate!Next, Gate!Stop, Gate!Goes
  <2>4. ASSUME NEW f \in Target(r), ws' = With(f, Torn) PROVE [Gate!Next]_GateVars
    <3>1. /\ DOMAIN Produced \subseteq DOMAIN Produced'
          /\ f \notin Products => Produced' = Produced
          /\ f \notin ReviewFiles => UNCHANGED <<ScriptReviewPassed, FinalReviewPassed>>
          /\ f # "episode" => Candidate' = Candidate
          /\ f = "episode" => Candidate' = (Torn = "release_candidate")
      BY <2>4, WriteMaps
    <3>2. CASE f \in Products
      <4>1. pc[r] = f
        <5>1. pc[r] \in Imports
              => f \in {"scriptResp", "finalResp", "shots", "wav", "mp3", "voiceMan"}
          <6>1. pc[r] = "importVoice" => got[r].path \in {"wav", "mp3"}
            BY DEF TypeInv, Holds, AudioFiles
          <6> QED BY <6>1 DEF Target, Imports, Files
        <5>2. pc[r] \notin Imports => f = pc[r]
          BY DEF Target, Imports
        <5> QED BY <3>2, <5>1, <5>2 DEF Products
      <4>2. PhaseOf(pc[r], got[r]) = "producing"
        BY <3>2, <4>1 DEF PhaseOf, Products, Imports, Producing, Production
      <4>3. f # "episode" /\ f \notin ReviewFiles
        BY <3>2 DEF Products, ReviewFiles
      <4> QED BY <2>1, <3>1, <4>2, <4>3 DEF Gate!Next, Gate!Produce, Gate!Goes, Gate!reviews
    <3>3. CASE f = "episode"
      <4>1. Torn # "release_candidate"
        BY PilotAssumption DEF Statuses
      <4>2. f \notin Products /\ f \notin ReviewFiles
        BY <3>3 DEF Products, ReviewFiles
      <4> QED BY <2>1, <3>1, <3>3, <4>1, <4>2 DEF Gate!Next, Gate!Withdraw,
           Gate!Goes, Gate!reviews
    <3>4. CASE f \notin Products /\ f # "episode"
      BY <2>1, <2>2, <3>1, <3>4 DEF Gate!Next, Gate!Stop, Gate!Goes
    <3> QED BY <3>2, <3>3, <3>4
  <2> QED BY <1>44, <2>3, <2>4 DEF Fault
<1>45. CASE EditScript
  <2>1. PICK s \in Edits : ws' = With("script", s)
    BY <1>45 DEF EditScript
  <2>2. UNCHANGED <<Phases, Produced, Candidate>>
    BY <1>45, <2>1, WriteMaps DEF EditScript, Phases, Products
  <2>3. ScriptReviewPassed' \in BOOLEAN /\ FinalReviewPassed' \in BOOLEAN
    BY DEF ScriptReviewPassed, FinalReviewPassed
  <2> QED BY <2>2, <2>3 DEF Gate!Next, Gate!Review
<1>46. CASE DeleteFile
  <2>1. PICK f \in DOMAIN ws : ws' = [g \in DOMAIN ws \ {f} |-> ws[g]]
    BY <1>46 DEF DeleteFile
  <2>2. UNCHANGED Phases
    BY <1>46 DEF DeleteFile, Phases
  <2>3. ScriptReviewPassed' \in BOOLEAN /\ FinalReviewPassed' \in BOOLEAN
    BY DEF ScriptReviewPassed, FinalReviewPassed
  <2>4. f \notin ReviewFiles => UNCHANGED <<ScriptReviewPassed, FinalReviewPassed>>
    BY <2>1, ReviewsAfter
  <2>5. CASE f \in Products
    <3>1. f \notin ReviewFiles /\ f # "episode"
      BY <2>5 DEF Products, ReviewFiles
    <3>2. Candidate' = Candidate
      BY <2>1, <3>1 DEF Candidate, Present
    <3>3. f \in DOMAIN Produced /\ Produced' = [g \in DOMAIN Produced \ {f} |-> Produced[g]]
      BY <2>1, <2>5 DEF Produced
    <3> QED BY <2>2, <2>4, <3>1, <3>2, <3>3 DEF Gate!Next, Gate!Remove, Gate!reviews
  <2>6. CASE f = "episode"
    <3>1. f \notin ReviewFiles /\ f \notin Products
      BY <2>6 DEF Products, ReviewFiles
    <3>2. Candidate' = FALSE
      BY <2>1, <2>6 DEF Candidate, Present
    <3>3. Produced' = Produced
      BY <2>1, <3>1 DEF Produced
    <3> QED BY <2>2, <2>4, <3>1, <3>2, <3>3 DEF Gate!Next, Gate!Withdraw, Gate!reviews
  <2>7. CASE f \notin Products /\ f # "episode"
    <3>1. Candidate' = Candidate /\ Produced' = Produced
      BY <2>1, <2>7 DEF Candidate, Present, Produced
    <3> QED BY <2>2, <2>3, <3>1 DEF Gate!Next, Gate!Review
  <2> QED BY <2>5, <2>6, <2>7
<1>47. CASE UNCHANGED vars
  <2>1. UNCHANGED <<Phases, Produced, Candidate>>
    BY <1>47 DEF vars, Phases, Produced, Candidate, Present
  <2>2. UNCHANGED <<ScriptReviewPassed, FinalReviewPassed>>
    BY <1>47, ReviewsAfter DEF vars
  <2> QED BY <2>1, <2>2 DEF GateVars
<1> QED
  BY <1>1, <1>2, <1>3, <1>4, <1>5, <1>6, <1>7, <1>8, <1>9, <1>10, <1>11, <1>12, <1>13,
       <1>14, <1>15, <1>16, <1>17, <1>18, <1>19, <1>20, <1>21, <1>22, <1>23, <1>24,
       <1>25, <1>26, <1>27, <1>28, <1>29, <1>30, <1>31, <1>32, <1>33, <1>34, <1>35,
       <1>36, <1>37, <1>38, <1>39, <1>40, <1>41, <1>42, <1>43, <1>44, <1>45, <1>46,
       <1>47
  DEF Next, PipelineStep, StartImport, ImportStep

LEMMA GateInit == Init => Gate!Init
BY DEF Init, Gate!Init, Phases, PhaseOf, Produced, ScriptReviewPassed, FinalReviewPassed,
   Candidate, Parsed, Present

\* No media before the script gate and no release candidate without both gates,
\* each passed on a passing review, by the same run in this order (Resume), for
\* any number of commands, any edits, any deletions and any faults.
THEOREM PilotImplementsGate == Spec => ImplementsGate
<1>1. UNCHANGED GateVars <=> UNCHANGED Gate!vars
  BY DEF GateVars, Gate!vars, Gate!reviews
<1>2. TypeInv /\ [Next]_vars => [Gate!Next]_(Gate!vars)
  BY <1>1, GateStep
<1> QED BY <1>2, GateInit, TypeInit, TypeStep, PTL DEF Spec, ImplementsGate, Gate!Spec
=============================================================================
