\* The short-form workflow on every input and provider fault of MCShortForm; two
\* signals per channel, sent at any time; three attempts per activity.
CONSTANTS
    alice = alice
    People = {alice}
    Nobody = Nobody
    System = System
    ProductionQA = ProductionQA
    Machines = {System, ProductionQA}
    Unsigned = Unsigned
    None = None
    Running = Running
    Cases <- AllCases
    Signals <- SomeSignals
    MaxSignals = 2
    Configs <- DemoConfigs
    DemoScenes <- TwoScenes
    MaxRuns = 2
    MaxLosses = 2
    Torn = Torn
SPECIFICATION DriverSpec
INVARIANTS FirstDecisionCounts DownstreamReviewed CandidatePins CompletedEarned SummaryTrue
PROPERTIES ApprovedFrozen ImplementsPromise DecidedRunsClose
CHECK_DEADLOCK FALSE
