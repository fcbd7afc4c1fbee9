SPECIFICATION EdgesSpec
CONSTANTS
    Callers = {a, b, c}
    Depth = 1
    Close = Close
    None = None
    Absent = Absent
    Characters = {}
    Values <- AllValues
    MaxLength = 4
    Askings <- AllCalls
    Behaviours = {"instant", "flaky", "late", "short"}
    Datasets <- ThreeDatasets
    MaxTroubles = 2
    MaxFailures = 1
    SettingsFiles <- AllSettings
    ConnectionsFiles <- AllConnections
    Arguments <- AllArguments
    Contents <- AllContents
    Servers <- AllServers
    Estimates = {2, 1501, 2048}
    MaxBytes = 1000000
    MaxPageSize = 10
    MaxSteps = 3
    GroupDigits = 2
    SubDigits = 3
    ExactInt = 9
    DayTicks = 24
    Instants <- Now
    Eras <- Ours
    Holdings <- AllHoldings
    PageRows = 2
    Budgets <- AllBudgets
    Columns = 3
    Sampled <- TwoAnswers
    MinWidth = 2
    MaxWidth = 6
    MinPane = 6
    MinGrid = 5
    DetailRows = 2
    PageLines = 3
    MinScreen <- SmallestScreen
    Sizes <- ScreenSizes
    AnswerSizes = {0, 3, 9}
    Points <- SomePlaces
    Keystrokes <- SomeMoves
    MaxBurst = 2
    MaxGestures = 3
INVARIANT CancelHitsItsOwn
INVARIANT TextIsReadAsWritten
INVARIANT KeepsTheContract
 
INVARIANT NothingIsMisread
INVARIANT NothingIsOutOfReach
PROPERTY ClosingLosesNothing
PROPERTY ContractKept
PROPERTY EveryCallIsAnswered
CHECK_DEADLOCK FALSE
