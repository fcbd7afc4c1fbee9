SPECIFICATION PartSpec
CONSTANTS
    ConnIds = {c1}
    Accesses = {"ReadWrite"}
    Root = "root"
    Nodes = {}
    Children <- NoCatalogue
    Leaves = {}
    Browsed = {t1}
    Inspected = {}
    RelationSize = 6
    PageSize = 2
    Widths = {1, 2}
    MaxSchema = 0
    QueryIds = {}
    Statements = {}
    Budgeted = FALSE
    Library = FALSE
    Saved = {}
    LibraryOps = {}
    Terms = {}
    MaxBusy = 4
    None = None
INVARIANT MissingRowsAreSaid
CHECK_DEADLOCK FALSE
