\* Two commands at a time on one directory; the operator may delete the script
\* review while they run; one of them may die in the middle of a write.
CONSTANTS
    s1 = s1
    s2 = s2
    Runs = {r1, r2}
    Scripts = {s1}
    Draft = s1
    Takes = {t1}
    Torn = Torn
    NoInput = NoInput
    ReviewMode = "manual"
    SubtitleMode = "script-timing"
    Verdicts = {TRUE, FALSE}
    Outcomes = {"pass", "fail"}
    Recordings <- NoRecordings
    Edits = {}
    Deletable = {"scriptResp"}
    Interleave = TRUE
    FaultPoints = {"visualMan", "rc", "episode"}
    TornWrites = TRUE
    MaxFaults = 1
SPECIFICATION Spec
INVARIANTS CandidateComplete
PROPERTIES ImplementsGate
