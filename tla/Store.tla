------------------------------- MODULE Store --------------------------------
(***************************************************************************)
(* The store as a whole: the handlers that reach into every part of it       *)
(* (store.rs `disconnect`, `cancel`, `abandon`), its initial state, its loop *)
(* and the specification.                                                    *)
(*                                                                         *)
(* The loop (`Runtime::run`) takes one action or one event at a time, in any *)
(* order between the two channels; events come in the order they were sent.  *)
(***************************************************************************)
EXTENDS StorePreviews, StoreDefinitions, StoreQueries, StoreLibrary

\* Whose work this is: a query's rows do not name a connection themselves.
ConnOf(owner) == IF owner.kind = "Query" THEN queries[owner.item].conn ELSE owner.conn

\* Slip: a query's rows are not looked for.
OrphanedByName(c) == {b \in busy : b.owner.conn = c}

\* Slip: the rows of every connection are taken.
OrphanedOfAny(c) == {b \in busy : b.owner.conn # None}

\* The busy rows `disconnect` finds orphaned: all work for the connection, its
\* queries' included, and nothing of the library's.
Orphaned(c) ==
    {b \in busy : \/ b.owner.conn = c
                  \/ b.owner.kind = "Query" /\ queries[b.owner.item].conn = c
                                            /\ Known(b.owner.item)}

\* Slip: queries are left for their replies to end.
NoQueryCut(c) == {}

\* The queries that end with the connection: those still waiting.
QueriesCut(c) == {q \in QueryIds : Rows(QueryOwner(q)) \cap Orphaned(c) # {}}

\* disconnect
Disconnect(c) ==
    /\ conns[c].status # "absent"
    /\ conns' = [conns EXCEPT ![c] = Parted(@, "Closed")]
    /\ alive' = IF conns[c].session THEN alive \ {c} ELSE alive
    /\ tree' = [tree EXCEPT ![c] = EmptyTree]
    /\ previews' = [previews EXCEPT ![c] = [t \in Tables |-> NoPreview]]
    /\ definitions' = [definitions EXCEPT ![c] = [t \in Tables |-> NoDefinition]]
    /\ asked' = [asked EXCEPT ![c] = [t \in Tables |-> 0]]
    /\ queries' = [q \in QueryIds |->
                     IF q \in QueriesCut(c) THEN [queries[q] EXCEPT !.data = "Failed"]
                                           ELSE queries[q]]
    /\ RecordEnd(QueriesCut(c), "Failed")
    /\ DropTasks(IdsOf(Orphaned(c)))
    /\ UNCHANGED <<width, schema, sent, approved, recordVars, libraryVars>>

-----------------------------------------------------------------------------
(* cancel: the row's task is dropped and whatever waited for it is put back   *)
(* into a state somebody can act on -- one `abandon` arm for each owner.      *)

\* Slip: the task is dropped and the connection goes on spinning.
AbandonConnectionToSpin(c) ==
    UNCHANGED <<connVars, previewVars, definitionVars, queryVars, recordVars,
                libraryVars, alive, writing>>

AbandonConnection(c) ==
    /\ conns' = [conns EXCEPT ![c] = IF @.status = "Connecting" THEN Refused(@) ELSE @]
    /\ UNCHANGED <<tree, previewVars, definitionVars, queryVars, recordVars,
                   libraryVars, alive, writing>>

\* Slip: the same, for a node.
AbandonNodeToSpin(c, n) ==
    UNCHANGED <<connVars, previewVars, definitionVars, queryVars, recordVars,
                libraryVars, alive, writing>>

AbandonNode(c, n) ==
    /\ tree' = [tree EXCEPT ![c] = FinishLoad(@, n, FALSE)]
    /\ UNCHANGED <<conns, previewVars, definitionVars, queryVars, recordVars,
                   libraryVars, alive, writing>>

\* Slip: nothing is awaited any more, and the preview still says it loads.
AbandonPreviewToSpin(c, t) ==
    /\ previews' = [previews EXCEPT ![c][t].pending = None]
    /\ UNCHANGED <<connVars, width, definitionVars, queryVars, recordVars,
                   libraryVars, alive, writing>>

\* Slip: cancelling a page costs the rows before it.
AbandonPreviewRows(c, t) ==
    /\ previews' = [previews EXCEPT ![c][t].pending = None, ![c][t].rows = <<>>]
    /\ UNCHANGED <<connVars, width, definitionVars, queryVars, recordVars,
                   libraryVars, alive, writing>>

\* The preview a cancelled request leaves: its rows, if it has any.
GivenUp(p) ==
    IF p.data = "absent" THEN p
    ELSE [p EXCEPT !.pending = None, !.data = IF @ = "Ready" THEN @ ELSE "Failed"]

AbandonPreview(c, t) ==
    /\ previews' = [previews EXCEPT ![c][t] = GivenUp(@)]
    /\ UNCHANGED <<connVars, width, definitionVars, queryVars, recordVars,
                   libraryVars, alive, writing>>

\* Slip: the task is dropped and the definition goes on spinning.
AbandonDefinitionToSpin(c, t) ==
    UNCHANGED <<connVars, previewVars, definitionVars, queryVars, recordVars,
                libraryVars, alive, writing>>

AbandonDefinition(c, t) ==
    /\ definitions' = [definitions EXCEPT ![c][t] =
                         IF @.data = "absent" THEN @
                         ELSE [data |-> "Failed", version |-> 0]]
    /\ asked' = [asked EXCEPT ![c][t] = 0]
    /\ UNCHANGED <<connVars, previewVars, schema, queryVars, recordVars,
                   libraryVars, alive, writing>>

\* Slip: an approved query that is cancelled asks again.
AbandonQueryAsksAgain(q) ==
    /\ queries' = [queries EXCEPT ![q].data = "Failed", ![q].needs = q \in approved]
    /\ RecordEnd({q}, "Cancelled")
    /\ UNCHANGED <<connVars, previewVars, definitionVars, sent, approved,
                   recordVars, libraryVars, alive>>

AbandonQuery(q) ==
    /\ queries' = [queries EXCEPT ![q].data = IF Known(q) THEN "Failed" ELSE @]
    /\ RecordEnd({q}, "Cancelled")
    /\ UNCHANGED <<connVars, previewVars, definitionVars, sent, approved,
                   recordVars, libraryVars, alive>>

AbandonTemplates ==
    /\ templates' = [templates EXCEPT !.failed = TRUE,
                                      !.data = IF @ = "Loading" THEN "Failed" ELSE @]
    /\ UNCHANGED <<connVars, previewVars, definitionVars, queryVars, recordVars,
                   search, saved, jobs, alive, writing>>

AbandonHistory ==
    /\ search' = [search EXCEPT !.data = IF @ = "Loading" THEN "Failed" ELSE @]
    /\ UNCHANGED <<connVars, previewVars, definitionVars, queryVars, recordVars,
                   templates, saved, jobs, alive, writing>>

\* cancel, for a row that is there; one that is not is nothing to cancel.
Cancel(b) ==
    /\ DropTasks({b.id})
    /\ \/ b.owner.kind = "Connection" /\ AbandonConnection(b.owner.conn)
       \/ b.owner.kind = "Node" /\ AbandonNode(b.owner.conn, b.owner.item)
       \/ b.owner.kind = "Preview" /\ AbandonPreview(b.owner.conn, b.owner.item)
       \/ b.owner.kind = "Definition" /\ AbandonDefinition(b.owner.conn, b.owner.item)
       \/ b.owner.kind = "Query" /\ AbandonQuery(b.owner.item)
       \/ b.owner.kind = "Templates" /\ AbandonTemplates
       \/ b.owner.kind = "History" /\ AbandonHistory

-----------------------------------------------------------------------------
(* The store and everything around it.                                      *)

\* Nothing but connections.
NothingYet ==
    /\ previews = [c \in ConnIds |-> [t \in Tables |-> NoPreview]]
    /\ definitions = [c \in ConnIds |-> [t \in Tables |-> NoDefinition]]
    /\ queries = [q \in QueryIds |-> NoQuery]
    /\ runs = [q \in QueryIds |-> None]
    /\ templates = [data |-> "Idle", list |-> {}, failed |-> FALSE]
    /\ search = [terms |-> None, data |-> "Idle", found |-> None]
    /\ busy = {}
    /\ tasks = {}
    /\ events = <<>>
    /\ nextId = 0
    /\ width \in [Tables -> Widths]
    /\ schema = [t \in Tables |-> 0]
    /\ asked = [c \in ConnIds |-> [t \in Tables |-> 0]]
    /\ sent = [q \in QueryIds |-> 0]
    /\ approved = {}
    /\ history = {}
    /\ writing = {}
    /\ jobs = {}
    /\ ended = {}
    /\ saved \in SUBSET Saved

Init ==
    /\ conns = [c \in ConnIds |-> [NewConn EXCEPT !.status = "absent"]]
    /\ tree = [c \in ConnIds |-> EmptyTree]
    /\ alive = {}
    /\ NothingYet

\* What front-ends may dispatch.
Dispatched ==
    \/ \E c \in ConnIds :
          \/ Connect(c)
          \/ Disconnect(c)
          \/ \E mayCollapse \in BOOLEAN :
                \/ OpenConnectionRow(c, mayCollapse)
                \/ \E n \in Nodes : OpenNode(c, n, mayCollapse)
          \/ \E t \in Browsed :
                \/ PreviewTable(c, t)
                \/ \E column \in Nat \cap UNION {0 .. w - 1 : w \in Widths} :
                      SortPreview(c, t, column)
                \/ LoadMore(c, t)
                \/ ForgetPreview(c, t)
          \/ \E t \in Inspected :
                \/ \E refresh \in BOOLEAN : DescribeTable(c, t, refresh)
                \/ ForgetDefinition(c, t)
          \/ \E q \in QueryIds, sql \in Statements :
                \/ RunQuery(c, q, sql)
                \/ EstimateQuery(c, q, sql)
    \/ \E q \in QueryIds : ApproveQuery(q) \/ ForgetQuery(q)
    \/ \E op \in LibraryOps : \E item \in Items(op) : WithLibrary(op, item)
    \/ \E terms \in Terms : SearchHistory(terms)
    \/ \E b \in busy : Cancel(b)

\* What the store is told.
Handled ==
    \/ Connected
    \/ Expanded
    \/ Previewed
    \/ Described
    \/ Ran
    \/ Recorded
    \/ LibraryAnswered
    \/ Searched

\* What one task does next.
Works(t) ==
    \/ ConnectAnswers(t)
    \/ ExpandAnswers(t)
    \/ PreviewAnswers(t)
    \/ DescribeAnswers(t) \/ DescribeSends(t)
    \/ ServerExecutes(t) \/ QueryStops(t) \/ QuerySends(t)
    \/ LibrarySends(t)
    \/ SearchAnswers(t)

\* What the blocking pool does next.
Blocking ==
    \/ \E w \in writing : RowInserted(w) \/ RowSettled(w)
    \/ \E j \in jobs : JobWrites(j) \/ JobReads(j)

\* What happens to the databases.
Outside ==
    \/ \E c \in ConnIds : ActorDies(c)
    \/ \E t \in Browsed : Alter(t)
    \/ \E t \in Inspected : SchemaChanges(t)

Next ==
    \/ Dispatched
    \/ Handled
    \/ \E t \in tasks : Works(t)
    \/ Blocking
    \/ Outside

Spec == Init /\ [][Next]_vars

-----------------------------------------------------------------------------
(* Types of the tasks, by what they are for, and of the events they send.    *)

Failure == [tag : {"Err", "SessionClosed"}]

ConnectResult == [tag : {"Ok"}, access : {"ReadOnly", "ReadWrite"}, sortable : BOOLEAN]
                   \cup Failure
NodeResult == [tag : {"Ok"}] \cup Failure
PreviewResult == [tag : {"Ok"}, rows : Seq(Row), total : Nat \cup {None},
                  columns : Widths] \cup Failure
DefinitionResult == [tag : {"Ok"}, version : Nat] \cup Failure
QueryResult == [tag : {"Ok", "Refused", "NeedsApproval", "Estimated"}] \cup Failure
LibraryAnswer == [tag : {"Ok", "Err"}]
LibraryResult == [tag : {"Ok", "Err"}, wrote : BOOLEAN, item : Saved \cup {None},
                  list : SUBSET Saved]

Ops == {"Load", "Save", "Replace", "Delete"}
Requests == {"Run", "Estimate", "Approved"}

ConnectionOwners == [kind : {"Connection"}, conn : ConnIds, item : {None}]
NodeOwners == [kind : {"Node"}, conn : ConnIds, item : Nodes]
PreviewOwners == [kind : {"Preview"}, conn : ConnIds, item : Tables]
DefinitionOwners == [kind : {"Definition"}, conn : ConnIds, item : Tables]
QueryOwners == [kind : {"Query"}, conn : {None}, item : QueryIds]
RunOwners == [kind : {"Run"}, conn : {None}, item : QueryIds]

TaskOf(owners, reqs, answers) ==
    [id : BusyId, owner : owners, req : reqs, got : answers \cup {None}]

\* Only the answers that come before their task sends them are kept in it.
ConnectionTask == TaskOf(ConnectionOwners, {None}, {})
NodeTask == TaskOf(NodeOwners, {None}, {})
PreviewTask == TaskOf(PreviewOwners, Page, {})
DefinitionTask == TaskOf(DefinitionOwners, {None}, DefinitionResult)
QueryTask == TaskOf(QueryOwners, Requests, QueryResult)
TemplatesTask == TaskOf({TemplatesOwner}, Ops, LibraryResult)
HistoryTask == TaskOf({HistoryOwner}, Terms, {})

Task == ConnectionTask \cup NodeTask \cup PreviewTask \cup DefinitionTask
          \cup QueryTask \cup TemplatesTask \cup HistoryTask

EventOf(owners, reqs, results) ==
    [id : BusyId \cup {None}, owner : owners, req : reqs, result : results]

ConnectionEvent == EventOf(ConnectionOwners, {None}, ConnectResult)
NodeEvent == EventOf(NodeOwners, {None}, NodeResult)
PreviewEvent == EventOf(PreviewOwners, Page, PreviewResult)
DefinitionEvent == EventOf(DefinitionOwners, {None}, DefinitionResult)
QueryEvent == EventOf(QueryOwners, Requests, QueryResult)
RunEvent == EventOf(RunOwners, Runs, LibraryAnswer)
TemplatesEvent == EventOf({TemplatesOwner}, Ops, LibraryResult)
HistoryEvent == EventOf({HistoryOwner}, Terms, LibraryAnswer)

Event == ConnectionEvent \cup NodeEvent \cup PreviewEvent \cup DefinitionEvent
           \cup QueryEvent \cup RunEvent \cup TemplatesEvent \cup HistoryEvent

HistoryRow == [query : QueryIds, run : Runs, outcome : Outcomes \cup {None}]

Writing == [call : {"started", "settled", "refused"}, query : QueryIds, run : Runs,
            outcome : Outcomes \cup {None}]

Job ==
    [id : BusyId, op : {"Load"}, item : {None}, wrote : BOOLEAN \cup {None}]
      \cup [id : BusyId, op : Ops \ {"Load"}, item : Saved, wrote : BOOLEAN \cup {None}]

\* The absent value is none of those that may be there.
ASSUME AbsentAssumption ==
    /\ None # RelationSize
    /\ None \notin BOOLEAN
    /\ None \notin BusyId
    /\ None \notin ConnIds
    /\ None \notin Outcomes
    /\ None \notin PendingPage
    /\ None \notin Recording
    /\ None \notin DefinitionResult
    /\ None \notin LibraryResult

ConnectionTypes ==
    /\ conns \in [ConnIds -> Conn]
    /\ tree \in [ConnIds -> Tree]
    /\ alive \in SUBSET ConnIds

PreviewTypes ==
    /\ previews \in [ConnIds -> [Tables -> Preview]]
    /\ width \in [Tables -> Widths]

DefinitionTypes ==
    /\ definitions \in [ConnIds -> [Tables -> Definition]]
    /\ schema \in [Tables -> Nat]
    /\ asked \in [ConnIds -> [Tables -> Nat]]

QueryTypes ==
    /\ queries \in [QueryIds -> Query]
    /\ runs \in [QueryIds -> Recording \cup {None}]
    /\ sent \in [QueryIds -> Nat]
    /\ approved \in SUBSET QueryIds
    /\ ended \in SUBSET [query : QueryIds, run : Runs, outcome : Outcomes]
    /\ history \in SUBSET HistoryRow
    /\ writing \in SUBSET Writing

LibraryTypes ==
    /\ templates \in Templates
    /\ search \in Search
    /\ saved \in SUBSET Saved
    /\ jobs \in SUBSET Job

KernelTypes ==
    /\ busy \in SUBSET [id : BusyId, owner : Owner]
    /\ tasks \in SUBSET Task
    /\ events \in Seq(Event)
    /\ nextId \in 0 .. MaxBusy

\* Every variable has the type its comment says, and every task and every event
\* is about something of its kind.
TypeOK ==
    /\ ConnectionTypes
    /\ PreviewTypes
    /\ DefinitionTypes
    /\ QueryTypes
    /\ LibraryTypes
    /\ KernelTypes

-----------------------------------------------------------------------------
(* Properties.                                                              *)

\* Whatever spins has a reply coming: connections, nodes, definitions and previews,
\* whatever was cancelled, closed, superseded or answered late.
SpinnersAreAnswered == CatalogueSpinnersAreAnswered /\ PreviewSpinnersAreAnswered

\* disconnect leaves nothing behind: a closed connection has no busy row, no
\* running task, no rows and no definition -- and nothing that was already in
\* the channel when it was closed brings one back.
ClosedIsQuiet ==
    \A c \in ConnIds :
        conns[c].status = "Closed" =>
            /\ \A b \in busy : ConnOf(b.owner) # c
            /\ \A t \in tasks : ConnOf(t.owner) # c
            /\ \A t \in Tables : /\ previews[c][t].data = "absent"
                                 /\ definitions[c][t].data = "absent"

\* Closing or failing one connection takes nothing from the others: a row of
\* theirs disappears only with an event of its own, a cancel, a forget or a
\* request that supersedes it -- never with a disconnect elsewhere.
DisconnectIsLocal ==
    [][\A c \in ConnIds :
          conns[c].status # "Closed" /\ conns'[c].status = "Closed" =>
              \A b \in busy : ConnOf(b.owner) # c => b \in busy']_<<conns, busy>>

=============================================================================
