\* The newsroom's modules, one at a time: episode workflow, state machine, router,
\* publishing and dry run.
CONSTANTS
    MaxDecisions = 2
    Undecided = Undecided
    Open = Open
    Metas <- SomeMetas
    MaxBlocks = 1
    MaxHumans = 4
    NoState = NoState
    Registries <- ThreeModels
    RouterOptions <- SomeOptions
    RoutedTasks <- SomeTasks
    Callers = {c1, c2}
    EpisodeIds = {e1, e2}
    Times = {"", "tomorrow"}
    MaxCalls = 2
    NoDraft = NoDraft
    NoReport = NoReport
    NoFile = NoFile
    NoPin = NoPin
    Directories <- SomeDirectories
    Versions <- FileVersions
    CouncilRegistries <- SomeCouncils
    MaxEdits = 2
SPECIFICATION NewsroomSpec
INVARIANTS NewsroomTypeOK AuditTrail FirstDecisionDecides CanonicalHistory HumansDecided BlockedCanReturn RoutedBest ScheduledSigned AnsweredStored AdaptersAgree OnlySoundProduced StoryboardOfApproved ReportsValid ToldOutcome
PROPERTIES EpisodeCloses EpisodeImplementsPromise
CHECK_DEADLOCK FALSE
