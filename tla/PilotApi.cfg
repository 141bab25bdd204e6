\* Reviews by the Claude API, one command at a time; the operator edits the script
\* and deletes reviews between commands; one command dies, perhaps in a write.
CONSTANTS
    s1 = s1
    s2 = s2
    Runs = {r1}
    Scripts = {s1, s2}
    Draft = s1
    Takes = {t1}
    Torn = Torn
    NoInput = NoInput
    ReviewMode = "api"
    SubtitleMode = "script-timing"
    Verdicts = {TRUE, FALSE}
    Outcomes = {"pass", "fail"}
    Recordings <- NoRecordings
    Edits = {s1, s2}
    Deletable = {"scriptResp", "finalResp"}
    Interleave = FALSE
    FaultPoints = {"script", "scriptReq", "scriptResp", "shots", "captions", "rc", "finalResp", "episode"}
    TornWrites = TRUE
    MaxFaults = 1
SPECIFICATION Spec
INVARIANTS ApprovedProduction
