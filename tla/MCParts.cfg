SPECIFICATION PartSpec
CONSTANTS
    ConnIds = {c1, c2}
    Accesses = {"ReadOnly", "ReadWrite"}
    Root = "root"
    Nodes = {"public", "users"}
    Children <- SmallCatalogue
    Leaves = {"users"}
    Browsed = {t1}
    Inspected = {t1}
    RelationSize = 3
    PageSize = 2
    Widths = {1, 2}
    MaxSchema = 1
    QueryIds = {q1}
    Statements <- AllStatements
    Budgeted = TRUE
    Library = TRUE
    Saved = {}
    LibraryOps = {}
    Terms = {}
    MaxBusy = 4
    None = None
INVARIANT ReadyMeansSession
INVARIANT RefreshIsFresh
INVARIANT SpinnersAreAnswered
INVARIANT GridIsContiguous
INVARIANT AtMostOnce
INVARIANT NothingUnapproved
INVARIANT QuestionBeforeMoney
INVARIANT RunsComeToAnEnd
INVARIANT ClosedIsQuiet
PROPERTY DisconnectIsLocal
PROPERTY DrawnRowsStay
PROPERTY SettledOnce
SYMMETRY ConnSymmetry
CHECK_DEADLOCK FALSE
