\* What a query shows once the workflow is closed.
CONSTANTS
    alice = alice
    People = {alice}
    Nobody = Nobody
    System = System
    ProductionQA = ProductionQA
    Machines = {System, ProductionQA}
    Unsigned = Unsigned
    None = None
    Running = Running
    Cases <- UsualOnly
    Signals <- SomeSignals
    MaxSignals = 1
    Configs <- DemoConfigs
    DemoScenes <- TwoScenes
    MaxRuns = 0
    MaxLosses = 0
    Torn = Torn
SPECIFICATION DriverSpec
INVARIANTS QueryShowsOutcome
CHECK_DEADLOCK FALSE
