SPECIFICATION FairServiceSpec
CONSTANTS
    ConnIds = {c1}
    Accesses = {"ReadWrite"}
    Root = "root"
    Nodes = {"public", "users"}
    Children <- OneSchema
    Leaves = {"users"}
    Browsed = {"users"}
    Inspected = {"users"}
    RelationSize = 2
    PageSize = 1
    Widths = {1}
    MaxSchema = 1
    QueryIds = {q1}
    Statements <- DearRead
    Budgeted = TRUE
    Library = TRUE
    Saved = {"t"}
    LibraryOps = {"Load", "Save"}
    Terms = {"a", "b"}
    MaxBusy = 5
    None = None
    Attached = {c1}
    Clients = {k1}
    Path <- OneSchemaPaths
    Scenes <- Meanwhile
INVARIANT SaveIsListed
 
 
CHECK_DEADLOCK FALSE
