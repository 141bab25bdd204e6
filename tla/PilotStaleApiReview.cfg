\* The operator revises script.md, deletes the review and resumes with the API.
CONSTANTS
    s1 = s1
    s2 = s2
    Runs = {r1}
    Scripts = {s1, s2}
    Draft = s1
    Takes = {t1}
    Torn = Torn
    NoInput = NoInput
    ReviewMode = "api"
    SubtitleMode = "script-timing"
    Verdicts = {TRUE}
    Outcomes = {"pass"}
    Recordings <- NoRecordings
    Edits = {s2}
    Deletable = {"scriptResp"}
    Interleave = FALSE
    FaultPoints = {}
    TornWrites = FALSE
    MaxFaults = 0
SPECIFICATION Spec
INVARIANTS ProductionReviewed
