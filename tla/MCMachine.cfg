SPECIFICATION SceneSpec
CONSTANTS
    s1 = s1
    s2 = s2
    a1 = a1
    a2 = a2
    a3 = a3
    m1 = m1
    Procs = {s1, s2, a1, a2, a3, m1}
    Sessions = {s1, s2}
    Commands = {a1, a2, a3}
    Servers = {m1}
    Foreign = Foreign
    None = None
    Kinds = {"HistorySearch", "ConnectionList", "ConnectionOpen", "ConnectionClose", "QueryRun", "QueryStatus", "TablePreview", "TemplateApply"}
    Profiles = {"p", "q"}
    Latest = 2
    MaxCalls = 2
    MaxOpened = 2
INVARIANT DeadAreNoObstacle
INVARIANT LibraryIsWhole
PROPERTY OnlyTheDeadAreRemoved
 
 
PROPERTY EverybodyGetsSomewhere
CHECK_DEADLOCK FALSE
