SPECIFICATION FrontendSpec
CONSTANTS
    ConnIds = {c1}
    Accesses = {"ReadWrite"}
    Root = "root"
    Nodes = {"public", "users", "sales"}
    Children <- TwoSchemas
    Leaves = {"users"}
    Browsed = {"users"}
    Inspected = {"users"}
    RelationSize = 3
    PageSize = 2
    Widths = {1}
    MaxSchema = 0
    QueryIds = {q1, q2}
    Statements <- CheapAndDear
    Budgeted = TRUE
    Library = FALSE
    Saved = {"t"}
    LibraryOps = {"Load", "Save", "Replace", "Delete"}
    Terms <- Words
    MaxBusy = 8
    None = None
    Attached = {c1}
    Path <- TwoSchemasPaths
    c1 = c1
    q1 = q1
    q2 = q2
    ConnSeq <- TheConn
    NodeSeq <- TwoSchemasNodes
    QuerySeq <- TwoQueries
    Label <- Labels
    Asking = {}
    Height = 1
    Margin = 0
    ResultRows = 2
    MaxTabs = 2
    Scenes <- AttendedScenes
PROPERTY QuestionStaysUp
CHECK_DEADLOCK FALSE
