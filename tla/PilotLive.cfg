\* Liveness with imported reviews: two faults anywhere but between a file and the
\* manifest a retry insists on (scriptMan, renderMan); nothing torn; no edits.
CONSTANTS
    s1 = s1
    s2 = s2
    Runs = {r1}
    Scripts = {s1}
    Draft = s1
    Takes = {t1}
    Torn = Torn
    NoInput = NoInput
    ReviewMode = "manual"
    SubtitleMode = "script-timing"
    Verdicts = {TRUE}
    Outcomes = {"pass"}
    Recordings <- NoRecordings
    Edits = {}
    Deletable = {}
    Interleave = FALSE
    FaultPoints = {"episode", "topic", "research", "resume", "ensureScript", "script",
        "scriptReq", "scriptResp", "shotReqs", "shots", "visualMan", "wav", "voiceMan",
        "captions", "subMan", "rc", "finalReq", "finalResp", "prodQA", "publish",
        "importScript", "importFinal", "importShots"}
    TornWrites = FALSE
    MaxFaults = 2
SPECIFICATION FairSpec
PROPERTIES EventuallyValid
