\* A render is complete, its manifest is not written; the operator keeps resuming.
CONSTANTS
    s1 = s1
    s2 = s2
    Runs = {r1}
    Scripts = {s1}
    Draft = s1
    Takes = {t1}
    Torn = Torn
    NoInput = NoInput
    ReviewMode = "manual"
    SubtitleMode = "script-timing"
    Verdicts = {TRUE}
    Outcomes = {"pass"}
    Recordings <- NoRecordings
    Edits = {}
    Deletable = {}
    Interleave = FALSE
    FaultPoints = {"renderMan"}
    TornWrites = FALSE
    MaxFaults = 1
SPECIFICATION FairSpec
PROPERTIES RenderAdviceWorks
