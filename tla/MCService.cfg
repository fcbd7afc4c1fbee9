SPECIFICATION ServiceSpec
CONSTANTS
    ConnIds = {c1}
    Accesses = {"ReadWrite"}
    Root = "root"
    Nodes = {"public", "users"}
    Children <- OneSchema
    Leaves = {"users"}
    Browsed = {"users"}
    Inspected = {"users"}
    RelationSize = 1
    PageSize = 1
    Widths = {1}
    MaxSchema = 1
    QueryIds = {q1, q2}
    Statements <- CheapRead
    Budgeted = FALSE
    Library = FALSE
    Saved = {}
    LibraryOps = {}
    Terms = {}
    MaxBusy = 8
    None = None
    Attached = {c1}
    Clients = {k1, k2}
    Path <- OneSchemaPaths
    Scenes <- Together
INVARIANT SortedPageIsSorted
INVARIANT EstimateLeavesNothing
PROPERTY AnswersAreNew
SYMMETRY ClientSymmetry
CHECK_DEADLOCK FALSE
