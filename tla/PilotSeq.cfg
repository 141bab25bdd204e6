\* One command at a time; the operator edits, reviews and imports in between;
\* one command dies, possibly in the middle of a write.
CONSTANTS
    s1 = s1
    s2 = s2
    Runs = {r1}
    Scripts = {s1, s2}
    Draft = s1
    Takes = {t1}
    Torn = Torn
    NoInput = NoInput
    ReviewMode = "manual"
    SubtitleMode = "faster-whisper"
    Verdicts = {TRUE, FALSE}
    Outcomes = {"pass", "fail", "override", "blankOverride"}
    Recordings <- BothRecordings
    Edits = {s1, s2}
    Deletable = {"scriptResp"}
    Interleave = FALSE
    FaultPoints = {"topic", "script", "shots", "visualMan", "wav", "voiceMan", "rc", "renderMan", "episode", "importVoiceMan", "scriptReq", "subMan", "publish", "finalReq", "importScript"}
    TornWrites = TRUE
    MaxFaults = 1
SPECIFICATION Spec
INVARIANTS TypeOK PipelineOrder MediaBinding ProductionReviewed CallsNeeded
PROPERTIES DeclaredOnReviews
