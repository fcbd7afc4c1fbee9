SPECIFICATION PartSpec
CONSTANTS
    ConnIds = {c1}
    Accesses = {"ReadOnly"}
    Root = "root"
    Nodes = {}
    Children <- NoCatalogue
    Leaves = {}
    Browsed = {}
    Inspected = {}
    RelationSize = 3
    PageSize = 2
    Widths = {1}
    MaxSchema = 0
    QueryIds = {q1}
    Statements <- JustDearRead
    Budgeted = TRUE
    Library = TRUE
    Saved = {}
    LibraryOps = {}
    Terms = {}
    MaxBusy = 4
    None = None
INVARIANT RowKeepsItsOwnOutcome
CHECK_DEADLOCK FALSE
