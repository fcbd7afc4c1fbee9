----------------------------- MODULE StoreTypes -----------------------------
(***************************************************************************)
(* Type correctness of the store, for every value of the constants.          *)
(*                                                                         *)
(* The lemmas say what the bookkeeping every handler goes through keeps; the *)
(* theorem has one step per action, each from those lemmas.                  *)
(***************************************************************************)
EXTENDS Store, TLAPS

\* begin_busy and spawn_task keep the kernel typed when the task is.
LEMMA BeginTyped ==
    ASSUME ConstantsAssumption, KernelTypes,
           NEW superseded, NEW owner \in Owner, NEW req,
           nextId \in BusyId =>
              [id |-> nextId, owner |-> owner, req |-> req, got |-> None] \in Task,
           Begin(superseded, owner, req)
    PROVE  KernelTypes'
<1>1. nextId \in BusyId /\ nextId + 1 \in 0 .. MaxBusy
  BY DEF ConstantsAssumption, KernelTypes, Begin, BusyId
<1>2. busy' \in SUBSET [id : BusyId, owner : Owner]
  BY <1>1 DEF KernelTypes, Begin
<1>3. tasks' \in SUBSET Task
  BY <1>1 DEF KernelTypes, Begin
<1>. QED  BY <1>1, <1>2, <1>3 DEF KernelTypes, Begin

\* drop_task takes rows and tasks and leaves the rest.
LEMMA DropTyped ==
    ASSUME KernelTypes, NEW ids, DropTasks(ids)
    PROVE  KernelTypes'
BY DEF KernelTypes, DropTasks

\* A task that sends a typed event keeps the kernel typed.
LEMMA SendTyped ==
    ASSUME KernelTypes, NEW t, NEW result, Send(t, result),
           [id |-> t.id, owner |-> t.owner, req |-> t.req, result |-> result] \in Event
    PROVE  KernelTypes'
BY DEF KernelTypes, Send

\* So does one that receives a typed answer.
LEMMA AnswerTyped ==
    ASSUME KernelTypes, NEW t \in Task, NEW result, Answer(t, result),
           [t EXCEPT !.got = result] \in Task
    PROVE  KernelTypes'
BY DEF KernelTypes, Answer

\* Handling an event takes it off a channel of typed events.
LEMMA ReceiveTyped ==
    ASSUME KernelTypes, NEW kind, Receive(kind)
    PROVE  KernelTypes' /\ Head(events) \in Event /\ Head(events).owner.kind = kind
BY DEF KernelTypes, Receive

-----------------------------------------------------------------------------
(* The kind of its owner says which tasks a task is among, and which events   *)
(* an event is.                                                             *)

LEMMA TaskKinds ==
    ASSUME NEW t \in Task
    PROVE  /\ t.owner.kind = "Connection" => t \in ConnectionTask
           /\ t.owner.kind = "Node" => t \in NodeTask
           /\ t.owner.kind = "Preview" => t \in PreviewTask
           /\ t.owner.kind = "Definition" => t \in DefinitionTask
           /\ t.owner.kind = "Query" => t \in QueryTask
           /\ t.owner.kind = "Templates" => t \in TemplatesTask
           /\ t.owner.kind = "History" => t \in HistoryTask
<1>1. t \in ConnectionTask => t.owner.kind = "Connection"
  BY DEF ConnectionTask, TaskOf, ConnectionOwners
<1>2. t \in NodeTask => t.owner.kind = "Node"
  BY DEF NodeTask, TaskOf, NodeOwners
<1>3. t \in PreviewTask => t.owner.kind = "Preview"
  BY DEF PreviewTask, TaskOf, PreviewOwners
<1>4. t \in DefinitionTask => t.owner.kind = "Definition"
  BY DEF DefinitionTask, TaskOf, DefinitionOwners
<1>5. t \in QueryTask => t.owner.kind = "Query"
  BY DEF QueryTask, TaskOf, QueryOwners
<1>6. t \in TemplatesTask => t.owner.kind = "Templates"
  BY DEF TemplatesTask, TaskOf, TemplatesOwner
<1>7. t \in HistoryTask => t.owner.kind = "History"
  BY DEF HistoryTask, TaskOf, HistoryOwner
<1>. QED  BY <1>1, <1>2, <1>3, <1>4, <1>5, <1>6, <1>7 DEF Task

LEMMA EventKinds ==
    ASSUME NEW e \in Event
    PROVE  /\ e.owner.kind = "Connection" => e \in ConnectionEvent
           /\ e.owner.kind = "Node" => e \in NodeEvent
           /\ e.owner.kind = "Preview" => e \in PreviewEvent
           /\ e.owner.kind = "Definition" => e \in DefinitionEvent
           /\ e.owner.kind = "Query" => e \in QueryEvent
           /\ e.owner.kind = "Run" => e \in RunEvent
           /\ e.owner.kind = "Templates" => e \in TemplatesEvent
           /\ e.owner.kind = "History" => e \in HistoryEvent
<1>1. e \in ConnectionEvent => e.owner.kind = "Connection"
  BY DEF ConnectionEvent, EventOf, ConnectionOwners
<1>2. e \in NodeEvent => e.owner.kind = "Node"
  BY DEF NodeEvent, EventOf, NodeOwners
<1>3. e \in PreviewEvent => e.owner.kind = "Preview"
  BY DEF PreviewEvent, EventOf, PreviewOwners
<1>4. e \in DefinitionEvent => e.owner.kind = "Definition"
  BY DEF DefinitionEvent, EventOf, DefinitionOwners
<1>5. e \in QueryEvent => e.owner.kind = "Query"
  BY DEF QueryEvent, EventOf, QueryOwners
<1>6. e \in RunEvent => e.owner.kind = "Run"
  BY DEF RunEvent, EventOf, RunOwners
<1>7. e \in TemplatesEvent => e.owner.kind = "Templates"
  BY DEF TemplatesEvent, EventOf, TemplatesOwner
<1>8. e \in HistoryEvent => e.owner.kind = "History"
  BY DEF HistoryEvent, EventOf, HistoryOwner
<1>. QED  BY <1>1, <1>2, <1>3, <1>4, <1>5, <1>6, <1>7, <1>8 DEF Event

-----------------------------------------------------------------------------
(* What a handler leaves alone stays typed.                                  *)

LEMMA OthersTyped ==
    /\ ConnectionTypes /\ UNCHANGED <<connVars, alive>> => ConnectionTypes'
    /\ PreviewTypes /\ UNCHANGED previewVars => PreviewTypes'
    /\ DefinitionTypes /\ UNCHANGED definitionVars => DefinitionTypes'
    /\ QueryTypes /\ UNCHANGED <<queryVars, recordVars, writing>> => QueryTypes'
    /\ LibraryTypes /\ UNCHANGED libraryVars => LibraryTypes'
    /\ KernelTypes /\ UNCHANGED kernelVars => KernelTypes'
BY DEF ConnectionTypes, PreviewTypes, DefinitionTypes, QueryTypes, LibraryTypes,
       KernelTypes, connVars, previewVars, definitionVars, queryVars, recordVars,
       libraryVars, kernelVars

-----------------------------------------------------------------------------
(* Connections.                                                             *)

LEMMA RecordLeavesTyped ==
    ASSUME NEW status \in [Nodes -> NodeStates], NEW children
    PROVE  RecordLeaves(status, children) \in [Nodes -> NodeStates]
BY DEF RecordLeaves, NodeStates

LEMMA EmptyTreeTyped == EmptyTree \in Tree
BY DEF EmptyTree, Tree, NodeStates

LEMMA SetRootsTyped == SetRoots \in Tree
BY EmptyTreeTyped, RecordLeavesTyped DEF SetRoots, Tree, EmptyTree

LEMMA MarkedTyped ==
    ASSUME NEW tr \in Tree, NEW n \in Nodes, NEW state \in NodeStates
    PROVE  Marked(tr, n, state) \in Tree
BY DEF Marked, Tree

LEMMA FinishLoadTyped ==
    ASSUME NEW tr \in Tree, NEW n \in Nodes, NEW ok \in BOOLEAN
    PROVE  FinishLoad(tr, n, ok) \in Tree
<1>. DEFINE status == RecordLeaves(tr.status, Children[n])
<1>1. status \in [Nodes -> NodeStates]
  BY RecordLeavesTyped DEF Tree
<1>2. tr.loaded \in SUBSET (Nodes \cup {Root}) /\ tr.status \in [Nodes -> NodeStates]
  BY DEF Tree
<1>. HIDE DEF status
<1>3. [status |-> [status EXCEPT ![n] = "Expanded"], loaded |-> tr.loaded \cup {n}] \in Tree
  BY <1>1, <1>2 DEF Tree, NodeStates
<1>4. [status |-> [tr.status EXCEPT ![n] = "Failed"], loaded |-> tr.loaded \ {n}] \in Tree
  BY <1>2 DEF Tree, NodeStates
<1>5. CASE ok
  <2>1. FinishLoad(tr, n, ok) = [status |-> [status EXCEPT ![n] = "Expanded"],
                                 loaded |-> tr.loaded \cup {n}]
    BY <1>5, Zenon DEF FinishLoad, status
  <2>. QED  BY <1>3, <2>1
<1>6. CASE ~ok
  <2>1. FinishLoad(tr, n, ok) = [status |-> [tr.status EXCEPT ![n] = "Failed"],
                                 loaded |-> tr.loaded \ {n}]
    BY <1>6, Zenon DEF FinishLoad
  <2>. QED  BY <1>4, <2>1
<1>. QED  BY <1>5, <1>6

LEMMA PartedTyped ==
    ASSUME NEW conn \in Conn, NEW status \in Statuses
    PROVE  Parted(conn, status) \in Conn
BY DEF Parted, Conn

LEMMA RefusedTyped ==
    ASSUME NEW conn \in Conn
    PROVE  Refused(conn) \in Conn
BY DEF Refused, Conn, Statuses

LEMMA OpenedTyped ==
    ASSUME NEW conn \in Conn, NEW result \in ConnectResult, result.tag = "Ok"
    PROVE  Opened(conn, result) \in Conn
<1>1. result.access \in {"ReadOnly", "ReadWrite"} /\ result.sortable \in BOOLEAN
  BY DEF ConnectResult, Failure
<1>2. \A access \in {"ReadOnly", "ReadWrite"}, sortable \in BOOLEAN :
        [conn EXCEPT !.status = "Ready", !.session = TRUE, !.access = access,
                     !.sortable = sortable] \in Conn
  BY DEF Conn, Statuses
<1>. QED  BY <1>1, <1>2, Zenon DEF Opened

LEMMA ConnectTyped ==
    ASSUME ConstantsAssumption, TypeOK, NEW c \in ConnIds, Connect(c)
    PROVE  TypeOK'
<1>1. ConnectionTypes'
  <2>1. NewConn \in Conn /\ Refused(NewConn) \in Conn
    BY RefusedTyped DEF NewConn, Conn, Statuses
  <2>. QED  BY <2>1 DEF TypeOK, ConnectionTypes, Connect
<1>2. ConnectionOwner(c) \in Owner
  BY DEF ConnectionOwner, Owner
<1>3. nextId \in BusyId =>
        [id |-> nextId, owner |-> ConnectionOwner(c), req |-> None, got |-> None] \in Task
  BY DEF ConnectionOwner, ConnectionOwners, Task, ConnectionTask, TaskOf
<1>4. KernelTypes'
  BY <1>2, <1>3, BeginTyped, OthersTyped DEF TypeOK, Connect
<1>. QED  BY <1>1, <1>4, OthersTyped DEF TypeOK, Connect

LEMMA OpenConnectionRowTyped ==
    ASSUME TypeOK, NEW c \in ConnIds, NEW mayCollapse \in BOOLEAN,
           OpenConnectionRow(c, mayCollapse)
    PROVE  TypeOK'
<1>1. ConnectionTypes'
  BY DEF TypeOK, ConnectionTypes, OpenConnectionRow, Conn
<1>. QED  BY <1>1, OthersTyped DEF TypeOK, OpenConnectionRow

LEMMA OpenNodeTyped ==
    ASSUME ConstantsAssumption, TypeOK, NEW c \in ConnIds, NEW n \in Nodes,
           NEW mayCollapse \in BOOLEAN, OpenNode(c, n, mayCollapse)
    PROVE  TypeOK'
<1>1. ConnectionTypes'
  <2>. DEFINE shown == IF tree[c].status[n] = "Expanded" THEN "Collapsed" ELSE "Expanded"
  <2>1. shown \in NodeStates /\ "Loading" \in NodeStates /\ tree[c] \in Tree
    BY DEF NodeStates, TypeOK, ConnectionTypes
  <2>2. Marked(tree[c], n, shown) \in Tree /\ Marked(tree[c], n, "Loading") \in Tree
    BY <2>1, MarkedTyped
  <2>3. tree' \in [ConnIds -> Tree]
    BY <2>2 DEF TypeOK, ConnectionTypes, OpenNode
  <2>. QED  BY <2>3 DEF TypeOK, ConnectionTypes, OpenNode
<1>2. NodeOwner(c, n) \in Owner
  BY DEF NodeOwner, Owner
<1>3. nextId \in BusyId =>
        [id |-> nextId, owner |-> NodeOwner(c, n), req |-> None, got |-> None] \in Task
  BY DEF NodeOwner, NodeOwners, Task, NodeTask, TaskOf
<1>4. KernelTypes'
  BY <1>2, <1>3, BeginTyped, OthersTyped DEF TypeOK, OpenNode
<1>. QED  BY <1>1, <1>4, OthersTyped DEF TypeOK, OpenNode

LEMMA ConnectAnswersTyped ==
    ASSUME ConstantsAssumption, TypeOK, NEW t \in tasks, ConnectAnswers(t)
    PROVE  TypeOK'
<1>1. t \in ConnectionTask
  BY TaskKinds DEF TypeOK, KernelTypes, ConnectAnswers
<1>2. \A result \in ConnectResult :
        [id |-> t.id, owner |-> t.owner, req |-> t.req, result |-> result] \in Event
  BY <1>1 DEF ConnectionTask, TaskOf, Event, ConnectionEvent, EventOf
<1>3. PICK result \in ConnectResult : Send(t, result)
  BY DEF ConnectAnswers, ConnectResult, Failure, ConstantsAssumption
<1>4. KernelTypes'
  BY <1>2, <1>3, SendTyped DEF TypeOK
<1>5. ConnectionTypes'
  BY <1>1 DEF TypeOK, ConnectionTypes, ConnectAnswers, ConnectionTask, TaskOf,
              ConnectionOwners, connVars
<1>. QED  BY <1>4, <1>5, OthersTyped DEF TypeOK, ConnectAnswers

LEMMA ExpandAnswersTyped ==
    ASSUME TypeOK, NEW t \in tasks, ExpandAnswers(t)
    PROVE  TypeOK'
<1>1. t \in NodeTask
  BY TaskKinds DEF TypeOK, KernelTypes, ExpandAnswers
<1>2. \A result \in NodeResult :
        [id |-> t.id, owner |-> t.owner, req |-> t.req, result |-> result] \in Event
  BY <1>1 DEF NodeTask, TaskOf, Event, NodeEvent, EventOf
<1>3. PICK result \in NodeResult : Send(t, result)
  BY DEF ExpandAnswers, NodeResult, Failure, Failing
<1>4. KernelTypes'
  BY <1>2, <1>3, SendTyped DEF TypeOK
<1>. QED  BY <1>4, OthersTyped DEF TypeOK, ExpandAnswers

LEMMA ActorDiesTyped ==
    ASSUME TypeOK, NEW c \in ConnIds, ActorDies(c)
    PROVE  TypeOK'
<1>1. ConnectionTypes'
  BY DEF TypeOK, ConnectionTypes, ActorDies, connVars
<1>. QED  BY <1>1, OthersTyped DEF TypeOK, ActorDies

LEMMA SessionDiedTyped ==
    ASSUME conns \in [ConnIds -> Conn], NEW c \in ConnIds, SessionDied(c)
    PROVE  conns' \in [ConnIds -> Conn]
<1>1. Parted(conns[c], "Failed") \in Conn
  BY PartedTyped DEF Statuses
<1>. QED  BY <1>1 DEF SessionDied

LEMMA ConnectedTyped ==
    ASSUME TypeOK, Connected
    PROVE  TypeOK'
<1>. DEFINE e == Head(events)
<1>1. KernelTypes' /\ e \in ConnectionEvent
  BY ReceiveTyped, EventKinds DEF TypeOK, Connected
<1>2. e.owner.conn \in ConnIds /\ e.result \in ConnectResult
  BY <1>1 DEF ConnectionEvent, EventOf, ConnectionOwners
<1>3. conns[e.owner.conn] \in Conn
  BY <1>2 DEF TypeOK, ConnectionTypes
<1>4. /\ e.result.tag = "Ok" => Opened(conns[e.owner.conn], e.result) \in Conn
      /\ Refused(conns[e.owner.conn]) \in Conn
  BY <1>2, <1>3, OpenedTyped, RefusedTyped
<1>5. ConnectionTypes'
  BY <1>2, <1>4, SetRootsTyped DEF TypeOK, ConnectionTypes, Connected, connVars
<1>. QED  BY <1>1, <1>5, OthersTyped DEF TypeOK, Connected

LEMMA ExpandedTyped ==
    ASSUME TypeOK, Expanded
    PROVE  TypeOK'
<1>. DEFINE e == Head(events)  c == e.owner.conn  n == e.owner.item
<1>1. KernelTypes' /\ e \in NodeEvent
  BY ReceiveTyped, EventKinds DEF TypeOK, Expanded
<1>2. c \in ConnIds /\ n \in Nodes
  BY <1>1 DEF NodeEvent, EventOf, NodeOwners
<1>3. conns' \in [ConnIds -> Conn]
  BY <1>2, SessionDiedTyped DEF TypeOK, ConnectionTypes, Expanded
<1>4. FinishLoad(tree[c], n, e.result.tag = "Ok") \in Tree
  BY <1>2, FinishLoadTyped DEF TypeOK, ConnectionTypes
<1>5. tree' = [tree EXCEPT ![c] = FinishLoad(@, n, e.result.tag = "Ok")]
  BY DEF Expanded
<1>. HIDE DEF e, c, n
<1>6. tree' \in [ConnIds -> Tree]
  BY <1>2, <1>4, <1>5 DEF TypeOK, ConnectionTypes
<1>7. alive' = alive
  BY DEF Expanded
<1>. QED  BY <1>1, <1>3, <1>6, <1>7, OthersTyped DEF TypeOK, ConnectionTypes, Expanded

-----------------------------------------------------------------------------
(* Previews.                                                                *)

LEMMA FirstPageTyped ==
    ASSUME NEW sort \in Sort \cup {None}
    PROVE  FirstPage(sort) \in Page
BY DEF FirstPage, Page

LEMMA NoPreviewTyped == NoPreview \in Preview
BY FirstPageTyped DEF NoPreview, Preview

LEMMA UnpagedTyped ==
    ASSUME NEW p \in Preview
    PROVE  Unpaged(p) \in Preview
<1>1. \A none \in Seq(Row) :
        [p EXCEPT !.data = "Loading", !.rows = none, !.nextOffset = 0,
                  !.exhausted = FALSE] \in Preview
  BY DEF Preview
<1>2. <<>> \in Seq(Row)
  OBVIOUS
<1>. QED  BY <1>1, <1>2, Zenon DEF Unpaged

LEMMA ToggledTyped ==
    ASSUME NEW sort, NEW column \in Nat
    PROVE  Toggled(sort, column) \in Sort
BY DEF Toggled, Sort, SortDirs

\* fetch_page on a typed preview.
LEMMA FetchPageTyped ==
    ASSUME ConstantsAssumption, TypeOK, NEW c \in ConnIds, NEW t \in Tables,
           NEW p \in Preview, NEW page \in Page, NEW append \in BOOLEAN,
           FetchPage(c, t, p, page, append)
    PROVE  KernelTypes' /\ previews' \in [ConnIds -> [Tables -> Preview]]
<1>. DEFINE pending == [busy |-> nextId, page |-> page, append |-> append]
<1>1. PreviewOwner(c, t) \in Owner
  BY DEF PreviewOwner, Owner
<1>2. nextId \in BusyId =>
        [id |-> nextId, owner |-> PreviewOwner(c, t), req |-> page, got |-> None] \in Task
  BY DEF PreviewOwner, PreviewOwners, Task, PreviewTask, TaskOf
<1>3. KernelTypes'
  BY <1>1, <1>2, BeginTyped DEF TypeOK, FetchPage
<1>4. pending \in PendingPage
  BY DEF TypeOK, KernelTypes, ConstantsAssumption, FetchPage, Begin, BusyId, PendingPage
<1>. HIDE DEF pending
<1>5. [p EXCEPT !.pending = pending] \in Preview
  BY <1>4 DEF Preview
<1>6. previews' = [previews EXCEPT ![c][t] = [p EXCEPT !.pending = pending]]
  BY DEF FetchPage, pending
<1>. QED  BY <1>3, <1>5, <1>6 DEF TypeOK, PreviewTypes

LEMMA PreviewTableTyped ==
    ASSUME ConstantsAssumption, TypeOK, NEW c \in ConnIds, NEW t \in Tables,
           PreviewTable(c, t)
    PROVE  TypeOK'
<1>. DEFINE p == previews[c][t]
<1>1. p \in Preview /\ p.sort \in Sort \cup {None}
  BY DEF TypeOK, PreviewTypes, Preview
<1>2. FirstPage(None) \in Page /\ FirstPage(p.sort) \in Page
  BY <1>1, FirstPageTyped
<1>3. Unpaged(NoPreview) \in Preview /\ Unpaged(p) \in Preview
  BY <1>1, UnpagedTyped, NoPreviewTyped
<1>4. [Unpaged(p) EXCEPT !.page = FirstPage(p.sort)] \in Preview
  BY <1>2, <1>3 DEF Preview
<1>5. PICK q \in Preview, page \in Page : FetchPage(c, t, q, page, FALSE)
  BY <1>2, <1>3, <1>4, Zenon DEF PreviewTable
<1>6. KernelTypes' /\ previews' \in [ConnIds -> [Tables -> Preview]]
  BY <1>5, FetchPageTyped
<1>. QED  BY <1>6, OthersTyped DEF TypeOK, PreviewTypes, PreviewTable, connVars

LEMMA SortPreviewTyped ==
    ASSUME ConstantsAssumption, TypeOK, NEW c \in ConnIds, NEW t \in Tables,
           NEW column \in Nat, SortPreview(c, t, column)
    PROVE  TypeOK'
<1>. DEFINE p == previews[c][t]  sort == Toggled(p.sort, column)
<1>1. p \in Preview
  BY DEF TypeOK, PreviewTypes
<1>2. sort \in Sort \cup {None} /\ FirstPage(sort) \in Page
  BY ToggledTyped, FirstPageTyped
<1>3. Unpaged(p) \in Preview
  BY <1>1, UnpagedTyped
<1>4. FetchPage(c, t, [Unpaged(p) EXCEPT !.sort = sort], FirstPage(sort), FALSE)
  BY DEF SortPreview
<1>. HIDE DEF p, sort
<1>5. [Unpaged(p) EXCEPT !.sort = sort] \in Preview
  BY <1>2, <1>3 DEF Preview
<1>6. KernelTypes' /\ previews' \in [ConnIds -> [Tables -> Preview]]
  BY <1>2, <1>4, <1>5, FetchPageTyped
<1>. QED  BY <1>6, OthersTyped DEF TypeOK, PreviewTypes, SortPreview, connVars

LEMMA LoadMoreTyped ==
    ASSUME ConstantsAssumption, TypeOK, NEW c \in ConnIds, NEW t \in Tables,
           LoadMore(c, t)
    PROVE  TypeOK'
<1>. DEFINE p == previews[c][t]  page == [p.page EXCEPT !.offset = p.nextOffset]
<1>1. p \in Preview
  BY DEF TypeOK, PreviewTypes
<1>2. p.page \in Page /\ p.nextOffset \in Nat
  BY <1>1 DEF Preview
<1>3. page \in Page
  BY <1>2 DEF Page
<1>4. KernelTypes' /\ previews' \in [ConnIds -> [Tables -> Preview]]
  BY <1>1, <1>3, FetchPageTyped DEF LoadMore
<1>. QED  BY <1>4, OthersTyped DEF TypeOK, PreviewTypes, LoadMore, connVars

LEMMA ForgetPreviewTyped ==
    ASSUME TypeOK, NEW c \in ConnIds, NEW t \in Tables, ForgetPreview(c, t)
    PROVE  TypeOK'
<1>1. KernelTypes'
  BY DropTyped DEF TypeOK, ForgetPreview
<1>2. PreviewTypes'
  BY NoPreviewTyped DEF TypeOK, PreviewTypes, ForgetPreview
<1>. QED  BY <1>1, <1>2, OthersTyped DEF TypeOK, ForgetPreview, connVars

LEMMA AlterTyped ==
    ASSUME TypeOK, NEW t \in Tables, Alter(t)
    PROVE  TypeOK'
<1>1. PreviewTypes'
  BY DEF TypeOK, PreviewTypes, Alter
<1>. QED  BY <1>1, OthersTyped DEF TypeOK, Alter, connVars

LEMMA SliceTyped ==
    ASSUME NEW page \in Page, NEW n \in Nat
    PROVE  Slice(page, n) \in Seq(Row) /\ Len(Slice(page, n)) = n
<1>1. \A i \in 1 .. n : [sort |-> page.sort, place |-> page.offset + i] \in Row
  BY DEF Page, Row
<1>. QED  BY <1>1 DEF Slice

LEMMA PageSizesTyped ==
    ASSUME ConstantsAssumption, NEW page \in Page
    PROVE  \A size \in PageSizes(page) :
              size.n \in 0 .. PageSize /\ size.total \in Nat \cup {None}
<1>1. Remaining(page) \in 0 .. PageSize
  BY DEF Remaining, Page, ConstantsAssumption
<1>. QED  BY <1>1 DEF PageSizes, ConstantsAssumption

LEMMA PreviewAnswersTyped ==
    ASSUME ConstantsAssumption, TypeOK, NEW t \in tasks, PreviewAnswers(t)
    PROVE  TypeOK'
<1>1. t \in PreviewTask
  BY TaskKinds DEF TypeOK, KernelTypes, PreviewAnswers
<1>2. t.req \in Page /\ t.owner.item \in Tables
  BY <1>1 DEF PreviewTask, TaskOf, PreviewOwners
<1>3. \A result \in PreviewResult :
        [id |-> t.id, owner |-> t.owner, req |-> t.req, result |-> result] \in Event
  BY <1>1 DEF PreviewTask, TaskOf, Event, PreviewEvent, EventOf
<1>4. ASSUME NEW size \in PageSizes(t.req)
      PROVE  [tag |-> "Ok", rows |-> Slice(t.req, size.n), total |-> size.total,
              columns |-> width[t.owner.item]] \in PreviewResult
  BY <1>2, PageSizesTyped, SliceTyped
     DEF PreviewResult, TypeOK, PreviewTypes, ConstantsAssumption
<1>5. [tag |-> Failing(t.owner.conn)] \in PreviewResult
  BY DEF PreviewResult, Failure, Failing
<1>6. PICK result \in PreviewResult : Send(t, result)
  BY <1>4, <1>5, Zenon DEF PreviewAnswers
<1>7. KernelTypes'
  BY <1>3, <1>6, SendTyped DEF TypeOK
<1>. QED  BY <1>7, OthersTyped DEF TypeOK, PreviewAnswers

LEMMA LandedTyped ==
    ASSUME NEW p \in Preview, NEW page \in Page, NEW result \in PreviewResult,
           result.tag = "Ok", p.pending # None
    PROVE  Landed(p, page, result) \in Preview
<1>1. /\ result.rows \in Seq(Row)
      /\ result.columns \in Widths
  BY DEF PreviewResult, Failure
<1>2. p.rows \in Seq(Row)
  BY DEF Preview
<1>. DEFINE rows == IF Merges(p, p.pending.append, result) THEN p.rows \o result.rows
                                                           ELSE result.rows
            lastError == IF Reshapes(p, p.pending.append, result) THEN "reshaped" ELSE "None"
            reached == page.offset + Len(result.rows)
            ends == Ends(page, result)
<1>3. rows \in Seq(Row) /\ lastError \in {"None", "reshaped", "failed"}
  BY <1>1, <1>2
<1>4. reached \in Nat
  BY <1>1 DEF Page
<1>5. ends \in BOOLEAN
  BY Zenon DEF Ends
<1>6. Landed(p, page, result) =
        [p EXCEPT !.pending = None, !.data = "Ready", !.rows = rows,
                  !.lastError = lastError, !.exhausted = ends, !.page = page,
                  !.nextOffset = reached, !.columns = result.columns]
  BY Zenon DEF Landed
<1>. HIDE DEF rows, lastError, reached, ends
<1>. QED  BY <1>1, <1>3, <1>4, <1>5, <1>6 DEF Preview

LEMMA MissedTyped ==
    ASSUME NEW p \in Preview
    PROVE  Missed(p) \in Preview
<1>1. [p EXCEPT !.pending = None, !.lastError = "failed"] \in Preview
  BY DEF Preview
<1>2. \A none \in Seq(Row) :
        [p EXCEPT !.pending = None, !.data = "Failed", !.rows = none,
                  !.lastError = "None"] \in Preview
  BY DEF Preview
<1>3. <<>> \in Seq(Row)
  OBVIOUS
<1>. QED  BY <1>1, <1>2, <1>3, Zenon DEF Missed

LEMMA PreviewedTyped ==
    ASSUME TypeOK, Previewed
    PROVE  TypeOK'
<1>. DEFINE e == Head(events)  c == e.owner.conn  t == e.owner.item
            p == previews[c][t]
<1>1. KernelTypes' /\ e \in PreviewEvent
  BY ReceiveTyped, EventKinds DEF TypeOK, Previewed
<1>2. c \in ConnIds /\ t \in Tables /\ e.req \in Page /\ e.result \in PreviewResult
  BY <1>1 DEF PreviewEvent, EventOf, PreviewOwners
<1>3. p \in Preview /\ conns \in [ConnIds -> Conn]
  BY <1>2 DEF TypeOK, PreviewTypes, ConnectionTypes
<1>4. conns' \in [ConnIds -> Conn]
  BY <1>2, <1>3, SessionDiedTyped DEF Previewed
<1>5. Awaits(p, e.req) /\ e.result.tag = "Ok" => Landed(p, e.req, e.result) \in Preview
  BY <1>2, <1>3, LandedTyped DEF Awaits
<1>6. Missed(p) \in Preview
  BY <1>3, MissedTyped
<1>7. \/ previews' = previews
      \/ /\ Awaits(p, e.req) /\ e.result.tag = "Ok"
         /\ previews' = [previews EXCEPT ![c][t] = Landed(p, e.req, e.result)]
      \/ previews' = [previews EXCEPT ![c][t] = Missed(p)]
  BY DEF Previewed
<1>8. tree' = tree /\ alive' = alive /\ width' = width
  BY DEF Previewed
<1>. HIDE DEF e, c, t, p
<1>9. ConnectionTypes'
  BY <1>4, <1>8 DEF TypeOK, ConnectionTypes
<1>10. PreviewTypes'
  BY <1>2, <1>5, <1>6, <1>7, <1>8 DEF TypeOK, PreviewTypes
<1>. QED  BY <1>1, <1>9, <1>10, OthersTyped DEF TypeOK, Previewed

-----------------------------------------------------------------------------
(* Definitions.                                                             *)

LEMMA DescribeTableTyped ==
    ASSUME ConstantsAssumption, TypeOK, NEW c \in ConnIds, NEW t \in Tables,
           NEW refresh \in BOOLEAN, DescribeTable(c, t, refresh)
    PROVE  TypeOK'
<1>1. DefinitionOwner(c, t) \in Owner
  BY DEF DefinitionOwner, Owner
<1>2. nextId \in BusyId =>
        [id |-> nextId, owner |-> DefinitionOwner(c, t), req |-> None, got |-> None] \in Task
  BY DEF DefinitionOwner, DefinitionOwners, Task, DefinitionTask, TaskOf
<1>3. KernelTypes'
  BY <1>1, <1>2, BeginTyped DEF TypeOK, DescribeTable
<1>4. [data |-> "Loading", version |-> 0] \in Definition
  BY DEF Definition
<1>5. DefinitionTypes'
  BY <1>4 DEF TypeOK, DefinitionTypes, DescribeTable
<1>. QED  BY <1>3, <1>5, OthersTyped DEF TypeOK, DescribeTable, connVars

LEMMA ForgetDefinitionTyped ==
    ASSUME TypeOK, NEW c \in ConnIds, NEW t \in Tables, ForgetDefinition(c, t)
    PROVE  TypeOK'
<1>1. KernelTypes'
  BY DropTyped DEF TypeOK, ForgetDefinition
<1>2. DefinitionTypes'
  BY DEF TypeOK, DefinitionTypes, ForgetDefinition, NoDefinition, Definition
<1>. QED  BY <1>1, <1>2, OthersTyped DEF TypeOK, ForgetDefinition, connVars

LEMMA SchemaChangesTyped ==
    ASSUME TypeOK, NEW t \in Tables, SchemaChanges(t)
    PROVE  TypeOK'
<1>1. DefinitionTypes'
  BY DEF TypeOK, DefinitionTypes, SchemaChanges
<1>. QED  BY <1>1, OthersTyped DEF TypeOK, SchemaChanges, connVars

LEMMA DescribeAnswersTyped ==
    ASSUME TypeOK, NEW t \in tasks, DescribeAnswers(t)
    PROVE  TypeOK'
<1>1. t \in DefinitionTask
  BY TaskKinds DEF TypeOK, KernelTypes, DescribeAnswers
<1>2. t.owner.item \in Tables
  BY <1>1 DEF DefinitionTask, TaskOf, DefinitionOwners
<1>3. \A result \in DefinitionResult : [t EXCEPT !.got = result] \in Task
  BY <1>1 DEF DefinitionTask, TaskOf, Task
<1>4. /\ [tag |-> "Ok", version |-> schema[t.owner.item]] \in DefinitionResult
      /\ [tag |-> Failing(t.owner.conn)] \in DefinitionResult
  BY <1>2 DEF TypeOK, DefinitionTypes, DefinitionResult, Failure, Failing
<1>5. PICK result \in DefinitionResult : Answer(t, result)
  BY <1>4, Zenon DEF DescribeAnswers
<1>6. KernelTypes'
  BY <1>3, <1>5, AnswerTyped DEF TypeOK, KernelTypes
<1>. QED  BY <1>6, OthersTyped DEF TypeOK, DescribeAnswers

LEMMA DescribeSendsTyped ==
    ASSUME TypeOK, NEW t \in tasks, DescribeSends(t)
    PROVE  TypeOK'
<1>1. t \in DefinitionTask
  BY TaskKinds DEF TypeOK, KernelTypes, DescribeSends
<1>2. [id |-> t.id, owner |-> t.owner, req |-> t.req, result |-> t.got] \in Event
  BY <1>1 DEF DescribeSends, DefinitionTask, TaskOf, Event, DefinitionEvent, EventOf
<1>3. KernelTypes'
  BY <1>2, SendTyped DEF TypeOK, DescribeSends
<1>. QED  BY <1>3, OthersTyped DEF TypeOK, DescribeSends

LEMMA DescribedTyped ==
    ASSUME TypeOK, Described
    PROVE  TypeOK'
<1>. DEFINE e == Head(events)  c == e.owner.conn  t == e.owner.item
<1>1. KernelTypes' /\ e \in DefinitionEvent
  BY ReceiveTyped, EventKinds DEF TypeOK, Described
<1>2. c \in ConnIds /\ t \in Tables /\ e.result \in DefinitionResult
  BY <1>1 DEF DefinitionEvent, EventOf, DefinitionOwners
<1>3. e.result.tag = "Ok" => e.result.version \in Nat
  BY <1>2 DEF DefinitionResult, Failure
<1>4. /\ e.result.tag = "Ok" => [data |-> "Ready", version |-> e.result.version] \in Definition
      /\ [data |-> "Failed", version |-> 0] \in Definition
  BY <1>3 DEF Definition
<1>5. definitions' = definitions
      \/ \E d \in Definition : definitions' = [definitions EXCEPT ![c][t] = d]
  BY <1>4, Zenon DEF Described
<1>6. schema' = schema /\ asked' = asked
  BY DEF Described
<1>. HIDE DEF e, c, t
<1>7. definitions' \in [ConnIds -> [Tables -> Definition]]
  <2>1. CASE definitions' = definitions
    BY <2>1 DEF TypeOK, DefinitionTypes
  <2>2. ASSUME NEW d \in Definition, definitions' = [definitions EXCEPT ![c][t] = d]
        PROVE  definitions' \in [ConnIds -> [Tables -> Definition]]
    BY <1>2, <2>2 DEF TypeOK, DefinitionTypes
  <2>. QED  BY <1>5, <2>1, <2>2
<1>. QED  BY <1>1, <1>6, <1>7, OthersTyped
          DEF TypeOK, DefinitionTypes, Described, connVars

-----------------------------------------------------------------------------
(* Queries and their history.                                                *)

LEMMA SettlingTyped ==
    ASSUME NEW q \in QueryIds, NEW run \in Runs, NEW outcome \in Outcomes
    PROVE  Settling(q, run, outcome) \in Writing
BY DEF Settling, Writing

LEMMA RecordStartTyped ==
    ASSUME TypeOK, NEW q \in QueryIds, NEW run \in Runs, RecordStart(q, run)
    PROVE  /\ runs' \in [QueryIds -> Recording \cup {None}]
           /\ writing' \in SUBSET Writing
<1>1. [state |-> "Starting", held |-> None] \in Recording
  BY DEF Recording
<1>2. [call |-> "started", query |-> q, run |-> run, outcome |-> None] \in Writing
  BY DEF Writing
<1>. QED  BY <1>1, <1>2 DEF TypeOK, QueryTypes, RecordStart

LEMMA RowTyped ==
    ASSUME TypeOK, NEW q \in QueryIds
    PROVE  /\ HasRow(q) => runs[q].run \in Runs
           /\ runs[q] # None /\ ~HasRow(q) => runs[q].held \in Outcomes \cup {None}
BY DEF TypeOK, QueryTypes, HasRow, Recording

LEMMA RecordEndTyped ==
    ASSUME TypeOK, NEW qs \in SUBSET QueryIds, NEW outcome \in Outcomes,
           RecordEnd(qs, outcome)
    PROVE  /\ runs' \in [QueryIds -> Recording \cup {None}]
           /\ writing' \in SUBSET Writing
           /\ ended' \in SUBSET [query : QueryIds, run : Runs, outcome : Outcomes]
<1>1. \A q \in QueryIds : AfterEnd(q, outcome) \in Recording \cup {None}
  BY DEF AfterEnd, Recording
<1>2. \A q \in qs : HasRow(q) => Settling(q, runs[q].run, outcome) \in Writing
  BY RowTyped, SettlingTyped
<1>3. \A q \in qs :
        [query |-> q, run |-> CurrentRun(q), outcome |-> outcome]
           \in [query : QueryIds, run : Runs, outcome : Outcomes]
  BY DEF CurrentRun, Runs
<1>. QED  BY <1>1, <1>2, <1>3 DEF TypeOK, QueryTypes, RecordEnd

LEMMA QueryTaskTyped ==
    ASSUME NEW q \in QueryIds, NEW req \in Requests
    PROVE  /\ QueryOwner(q) \in Owner
           /\ nextId \in BusyId =>
                [id |-> nextId, owner |-> QueryOwner(q), req |-> req, got |-> None] \in Task
BY DEF QueryOwner, Owner, QueryOwners, Task, QueryTask, TaskOf

LEMMA RunQueryTyped ==
    ASSUME ConstantsAssumption, TypeOK, NEW c \in ConnIds, NEW q \in QueryIds,
           NEW sql \in Statements, RunQuery(c, q, sql)
    PROVE  TypeOK'
<1>1. KernelTypes'
  BY QueryTaskTyped, BeginTyped DEF TypeOK, RunQuery, Requests
<1>2. runs' \in [QueryIds -> Recording \cup {None}] /\ writing' \in SUBSET Writing
  BY RecordStartTyped DEF RunQuery, Runs
<1>3. [data |-> "Loading", conn |-> c, sql |-> sql, needs |-> FALSE] \in Query
  BY DEF Query
<1>4. queries' \in [QueryIds -> Query]
  BY <1>3 DEF TypeOK, QueryTypes, RunQuery
<1>5. QueryTypes'
  BY <1>2, <1>4 DEF TypeOK, QueryTypes, RunQuery, recordVars
<1>. QED  BY <1>1, <1>5, OthersTyped DEF TypeOK, RunQuery, connVars

LEMMA EstimateQueryTyped ==
    ASSUME ConstantsAssumption, TypeOK, NEW c \in ConnIds, NEW q \in QueryIds,
           NEW sql \in Statements, EstimateQuery(c, q, sql)
    PROVE  TypeOK'
<1>1. KernelTypes'
  BY QueryTaskTyped, BeginTyped DEF TypeOK, EstimateQuery, Requests
<1>2. [data |-> "Loading", conn |-> c, sql |-> sql, needs |-> FALSE] \in Query
  BY DEF Query
<1>3. queries' \in [QueryIds -> Query]
  BY <1>2 DEF TypeOK, QueryTypes, EstimateQuery
<1>4. QueryTypes'
  BY <1>3 DEF TypeOK, QueryTypes, EstimateQuery, recordVars
<1>. QED  BY <1>1, <1>4, OthersTyped DEF TypeOK, EstimateQuery, connVars

LEMMA ApproveTyped ==
    ASSUME NEW query \in Query
    PROVE  Approve(query) \in Query
BY DEF Approve, Query

LEMMA ApproveQueryTyped ==
    ASSUME ConstantsAssumption, TypeOK, NEW q \in QueryIds, ApproveQuery(q)
    PROVE  TypeOK'
<1>1. KernelTypes'
  BY QueryTaskTyped, BeginTyped DEF TypeOK, ApproveQuery, Requests
<1>2. runs' \in [QueryIds -> Recording \cup {None}] /\ writing' \in SUBSET Writing
  BY RecordStartTyped DEF ApproveQuery, Runs
<1>3. queries' \in [QueryIds -> Query]
  BY ApproveTyped DEF TypeOK, QueryTypes, ApproveQuery
<1>4. QueryTypes'
  BY <1>2, <1>3 DEF TypeOK, QueryTypes, ApproveQuery, recordVars
<1>. QED  BY <1>1, <1>4, OthersTyped DEF TypeOK, ApproveQuery, connVars

LEMMA QueryRecordTyped ==
    ASSUME NEW query \in Query,
           NEW data \in {"absent", "Loading", "Idle", "Ready", "Failed", "forgotten"},
           NEW needs \in BOOLEAN
    PROVE  /\ [query EXCEPT !.data = data] \in Query
           /\ [query EXCEPT !.data = data, !.needs = needs] \in Query
BY DEF Query

LEMMA ForgetQueryTyped ==
    ASSUME TypeOK, NEW q \in QueryIds, ForgetQuery(q)
    PROVE  TypeOK'
<1>1. KernelTypes'
  BY DropTyped DEF TypeOK, ForgetQuery
<1>2. queries' \in [QueryIds -> Query]
  BY DEF TypeOK, QueryTypes, ForgetQuery, Query
<1>3. QueryTypes'
  BY <1>2 DEF TypeOK, QueryTypes, ForgetQuery, recordVars
<1>. QED  BY <1>1, <1>3, OthersTyped DEF TypeOK, ForgetQuery, connVars

\* A query task that answers, or sends what was answered.
LEMMA QueryAnswersTyped ==
    ASSUME TypeOK, NEW t \in tasks, t.owner.kind = "Query",
           NEW result \in QueryResult, Answer(t, result)
    PROVE  KernelTypes'
<1>1. t \in QueryTask
  BY TaskKinds DEF TypeOK, KernelTypes
<1>2. [t EXCEPT !.got = result] \in Task
  BY <1>1 DEF QueryTask, TaskOf, Task
<1>. QED  BY <1>2, AnswerTyped DEF TypeOK, KernelTypes

LEMMA ServerExecutesTyped ==
    ASSUME TypeOK, NEW t \in tasks, ServerExecutes(t)
    PROVE  TypeOK'
<1>1. [tag |-> "Ok"] \in QueryResult /\ [tag |-> "Err"] \in QueryResult
  BY DEF QueryResult, Failure
<1>2. KernelTypes'
  BY <1>1, QueryAnswersTyped DEF ServerExecutes
<1>3. sent' \in [QueryIds -> Nat]
  <2>. DEFINE q == t.owner.item
  <2>1. q \in QueryIds
    BY TaskKinds DEF TypeOK, KernelTypes, ServerExecutes, QueryTask, TaskOf, QueryOwners
  <2>2. sent' = [sent EXCEPT ![q] = @ + 1]
    BY DEF ServerExecutes
  <2>. HIDE DEF q
  <2>. QED  BY <2>1, <2>2 DEF TypeOK, QueryTypes
<1>4. QueryTypes'
  BY <1>3 DEF TypeOK, QueryTypes, ServerExecutes, recordVars
<1>. QED  BY <1>2, <1>4, OthersTyped DEF TypeOK, ServerExecutes, connVars

LEMMA QueryStopsTyped ==
    ASSUME TypeOK, NEW t \in tasks, QueryStops(t)
    PROVE  TypeOK'
<1>1. \A tag \in {"Refused", "NeedsApproval", "Estimated", "Err", "SessionClosed"} :
        [tag |-> tag] \in QueryResult
  BY DEF QueryResult, Failure
<1>2. Failing(queries[t.owner.item].conn) \in {"Err", "SessionClosed"}
  BY DEF Failing
<1>3. KernelTypes'
  BY <1>1, <1>2, QueryAnswersTyped DEF QueryStops
<1>. QED  BY <1>3, OthersTyped DEF TypeOK, QueryStops

LEMMA QuerySendsTyped ==
    ASSUME TypeOK, NEW t \in tasks, QuerySends(t)
    PROVE  TypeOK'
<1>1. t \in QueryTask
  BY TaskKinds DEF TypeOK, KernelTypes, QuerySends
<1>2. [id |-> t.id, owner |-> t.owner, req |-> t.req, result |-> t.got] \in Event
  BY <1>1 DEF QuerySends, QueryTask, TaskOf, Event, QueryEvent, EventOf
<1>3. KernelTypes'
  BY <1>2, SendTyped DEF TypeOK, QuerySends
<1>. QED  BY <1>3, OthersTyped DEF TypeOK, QuerySends

LEMMA RanTyped ==
    ASSUME TypeOK, Ran
    PROVE  TypeOK'
<1>. DEFINE e == Head(events)  q == e.owner.item  tag == e.result.tag
<1>1. KernelTypes' /\ e \in QueryEvent
  BY ReceiveTyped, EventKinds DEF TypeOK, Ran
<1>2. q \in QueryIds /\ e.result \in QueryResult
  BY <1>1 DEF QueryEvent, EventOf, QueryOwners
<1>3. CASE ~Known(q)
  BY <1>1, <1>3, OthersTyped DEF TypeOK, Ran
<1>4. CASE Known(q)
  <2>1. OutcomeOf(tag) \in Outcomes /\ DataAfter(tag) \in {"Idle", "Ready", "Failed"}
    BY DEF OutcomeOf, Outcomes, DataAfter
  <2>2. /\ runs' \in [QueryIds -> Recording \cup {None}]
        /\ writing' \in SUBSET Writing
        /\ ended' \in SUBSET [query : QueryIds, run : Runs, outcome : Outcomes]
    <3>1. CASE e.req = "Estimate"
      BY <1>4, <3>1 DEF Ran, TypeOK, QueryTypes
    <3>2. CASE e.req # "Estimate"
      BY <1>2, <1>4, <2>1, <3>2, RecordEndTyped DEF Ran
    <3>. QED  BY <3>1, <3>2
  <2>. DEFINE asks == queries[q].needs \/ tag = "NeedsApproval"
  <2>3. queries' = [queries EXCEPT ![q].data = DataAfter(tag), ![q].needs = asks]
    BY <1>4 DEF Ran
  <2>4. asks \in BOOLEAN
    BY Zenon
  <2>. HIDE DEF e, q, tag, asks
  <2>5. queries' \in [QueryIds -> Query]
    BY <1>2, <2>1, <2>3, <2>4 DEF TypeOK, QueryTypes, Query
  <2>6. sent' = sent /\ approved' = approved /\ history' = history
    BY <1>4 DEF Ran, recordVars, e, q
  <2>7. QueryTypes'
    BY <2>2, <2>5, <2>6 DEF TypeOK, QueryTypes
  <2>. QED  BY <1>1, <2>7, OthersTyped DEF TypeOK, Ran, connVars
<1>. QED  BY <1>3, <1>4

LEMMA RecordedTyped ==
    ASSUME TypeOK, Recorded
    PROVE  TypeOK'
<1>. DEFINE e == Head(events)  q == e.owner.item
<1>1. KernelTypes' /\ e \in RunEvent
  BY ReceiveTyped, EventKinds DEF TypeOK, Recorded
<1>2. q \in QueryIds /\ e.req \in Runs
  BY <1>1 DEF RunEvent, EventOf, RunOwners
<1>3. [state |-> "Row", run |-> e.req] \in Recording
  BY <1>2 DEF Recording
<1>4. runs' \in [QueryIds -> Recording \cup {None}]
  BY <1>2, <1>3 DEF TypeOK, QueryTypes, Recorded
<1>5. writing' \in SUBSET Writing
  BY <1>2, RowTyped, SettlingTyped DEF TypeOK, QueryTypes, Recorded
<1>6. QueryTypes'
  BY <1>4, <1>5 DEF TypeOK, QueryTypes, Recorded, recordVars
<1>. QED  BY <1>1, <1>6, OthersTyped DEF TypeOK, Recorded, connVars

LEMMA RowInsertedTyped ==
    ASSUME TypeOK, NEW w \in writing, RowInserted(w)
    PROVE  TypeOK'
<1>1. w.query \in QueryIds /\ w.run \in Runs
  BY DEF TypeOK, QueryTypes, Writing
<1>2. [query |-> w.query, run |-> w.run, outcome |-> None] \in HistoryRow
  BY <1>1 DEF HistoryRow
<1>3. \A tag \in {"Ok", "Err"} :
        [id |-> None, owner |-> RunOwner(w.query), req |-> w.run,
         result |-> [tag |-> tag]] \in Event
  BY <1>1 DEF Event, RunEvent, EventOf, RunOwner, RunOwners, LibraryAnswer
<1>4. events' \in Seq(Event)
  BY <1>3 DEF TypeOK, KernelTypes, RowInserted
<1>5. KernelTypes'
  BY <1>4 DEF TypeOK, KernelTypes, RowInserted
<1>6. history' \in SUBSET HistoryRow /\ writing' \in SUBSET Writing
  BY <1>2 DEF TypeOK, QueryTypes, RowInserted
<1>7. QueryTypes'
  BY <1>6 DEF TypeOK, QueryTypes, RowInserted, queryVars
<1>. QED  BY <1>5, <1>7, OthersTyped DEF TypeOK, RowInserted, connVars

LEMMA RowSettledTyped ==
    ASSUME TypeOK, NEW w \in writing, RowSettled(w)
    PROVE  TypeOK'
<1>1. w \in Writing
  BY DEF TypeOK, QueryTypes
<1>2. [w EXCEPT !.call = "refused"] \in Writing
  BY <1>1 DEF Writing
<1>3. \A r \in HistoryRow : [r EXCEPT !.outcome = w.outcome] \in HistoryRow
  BY <1>1 DEF HistoryRow, Writing
<1>4. history' \in SUBSET HistoryRow /\ writing' \in SUBSET Writing
  BY <1>2, <1>3 DEF TypeOK, QueryTypes, RowSettled
<1>5. QueryTypes'
  BY <1>4 DEF TypeOK, QueryTypes, RowSettled, queryVars
<1>. QED  BY <1>5, OthersTyped DEF TypeOK, RowSettled, connVars

-----------------------------------------------------------------------------
(* Templates and searches.                                                   *)

\* What is written to the two panes' records.
LEMMA TemplatesRecordTyped ==
    ASSUME NEW held \in Templates
    PROVE  /\ [held EXCEPT !.failed = FALSE,
                           !.data = IF @ = "Ready" THEN @ ELSE "Loading"] \in Templates
           /\ [held EXCEPT !.failed = TRUE,
                           !.data = IF @ = "Loading" THEN "Failed" ELSE @] \in Templates
           /\ \A failed \in BOOLEAN :
                [data |-> "Failed", list |-> {}, failed |-> failed] \in Templates
BY DEF Templates

LEMMA SearchRecordTyped ==
    ASSUME NEW held \in Search, NEW terms \in Terms
    PROVE  /\ [held EXCEPT !.terms = terms,
                           !.data = IF @ = "Ready" THEN @ ELSE "Loading"] \in Search
           /\ [held EXCEPT !.data = IF @ = "Loading" THEN "Failed" ELSE @] \in Search
           /\ [terms |-> terms, data |-> "Failed", found |-> None] \in Search
           /\ [held EXCEPT !.data = "Ready", !.found = terms] \in Search
           /\ [held EXCEPT !.data = "Failed", !.found = None] \in Search
BY DEF Search

LEMMA WithLibraryTyped ==
    ASSUME ConstantsAssumption, TypeOK, NEW op \in Ops, NEW item \in Items(op),
           WithLibrary(op, item)
    PROVE  TypeOK'
<1>1. TemplatesOwner \in Owner
  BY DEF TemplatesOwner, Owner
<1>2. nextId \in BusyId =>
        [id |-> nextId, owner |-> TemplatesOwner, req |-> op, got |-> None] \in Task
  BY DEF Task, TemplatesTask, TaskOf
<1>3. KernelTypes'
  BY <1>1, <1>2, BeginTyped, OthersTyped DEF TypeOK, WithLibrary
<1>4. nextId < MaxBusy => nextId \in BusyId
  BY DEF TypeOK, KernelTypes, ConstantsAssumption, BusyId
<1>5. jobs' \in SUBSET Job
  <2>1. nextId \in BusyId =>
          [id |-> nextId, op |-> op, item |-> item, wrote |-> None] \in Job
    BY DEF Job, Items, Ops
  <2>. QED  BY <1>4, <2>1 DEF TypeOK, LibraryTypes, WithLibrary, Begin
<1>6. templates' \in Templates
  <2>1. templates \in Templates
    BY DEF TypeOK, LibraryTypes
  <2>2. (templates.failed \/ op # "Load") \in BOOLEAN
    BY Zenon
  <2>. QED  BY <2>1, <2>2, TemplatesRecordTyped, Zenon DEF WithLibrary
<1>7. LibraryTypes'
  BY <1>5, <1>6 DEF TypeOK, LibraryTypes, WithLibrary
<1>. QED  BY <1>3, <1>7, OthersTyped DEF TypeOK, WithLibrary, connVars

LEMMA SearchHistoryTyped ==
    ASSUME ConstantsAssumption, TypeOK, NEW terms \in Terms, SearchHistory(terms)
    PROVE  TypeOK'
<1>1. HistoryOwner \in Owner
  BY DEF HistoryOwner, Owner
<1>2. nextId \in BusyId =>
        [id |-> nextId, owner |-> HistoryOwner, req |-> terms, got |-> None] \in Task
  BY DEF Task, HistoryTask, TaskOf
<1>3. KernelTypes'
  BY <1>1, <1>2, BeginTyped, OthersTyped DEF TypeOK, SearchHistory
<1>4. search \in Search
  BY DEF TypeOK, LibraryTypes
<1>5. search' \in Search
  <2>1. \/ search' = [search EXCEPT !.terms = terms,
                                   !.data = IF @ = "Ready" THEN @ ELSE "Loading"]
        \/ search' = [terms |-> terms, data |-> "Failed", found |-> None]
    BY Zenon DEF SearchHistory
  <2>2. /\ [search EXCEPT !.terms = terms,
                          !.data = IF @ = "Ready" THEN @ ELSE "Loading"] \in Search
        /\ [terms |-> terms, data |-> "Failed", found |-> None] \in Search
    BY <1>4, SearchRecordTyped, Zenon
  <2>. QED  BY <2>1, <2>2, Zenon
<1>6. LibraryTypes'
  BY <1>5 DEF TypeOK, LibraryTypes, SearchHistory
<1>. QED  BY <1>3, <1>6, OthersTyped DEF TypeOK, SearchHistory, connVars

LEMMA JobWritesTyped ==
    ASSUME TypeOK, NEW j \in jobs, JobWrites(j)
    PROVE  TypeOK'
<1>1. j \in Job
  BY DEF TypeOK, LibraryTypes
<1>2. \A ok \in BOOLEAN : [j EXCEPT !.wrote = ok] \in Job
  BY <1>1 DEF Job
<1>3. Writable(j.op, j.item) \in BOOLEAN /\ (j.op = "Load") \in BOOLEAN
  BY Zenon DEF Writable
<1>4. jobs' \in SUBSET Job
  BY <1>2, <1>3 DEF TypeOK, LibraryTypes, JobWrites
<1>5. Written(j.op, j.item) \in SUBSET Saved
  BY <1>1 DEF TypeOK, LibraryTypes, Written, Job, Ops
<1>6. saved' \in SUBSET Saved
  BY <1>5 DEF TypeOK, LibraryTypes, JobWrites
<1>7. LibraryTypes'
  BY <1>4, <1>6 DEF TypeOK, LibraryTypes, JobWrites
<1>. QED  BY <1>7, OthersTyped DEF TypeOK, JobWrites, connVars

LEMMA LibrarySendsTyped ==
    ASSUME TypeOK, NEW t \in tasks, LibrarySends(t)
    PROVE  TypeOK'
<1>1. t \in TemplatesTask
  BY TaskKinds DEF TypeOK, KernelTypes, LibrarySends
<1>2. [id |-> t.id, owner |-> t.owner, req |-> t.req, result |-> t.got] \in Event
  BY <1>1 DEF LibrarySends, TemplatesTask, TaskOf, Event, TemplatesEvent, EventOf
<1>3. KernelTypes'
  BY <1>2, SendTyped DEF TypeOK, LibrarySends
<1>. QED  BY <1>3, OthersTyped DEF TypeOK, LibrarySends

LEMMA SearchAnswersTyped ==
    ASSUME TypeOK, NEW t \in tasks, SearchAnswers(t)
    PROVE  TypeOK'
<1>1. t \in HistoryTask
  BY TaskKinds DEF TypeOK, KernelTypes, SearchAnswers
<1>2. \A tag \in {"Ok", "Err"} :
        [id |-> t.id, owner |-> t.owner, req |-> t.req, result |-> [tag |-> tag]] \in Event
  BY <1>1 DEF HistoryTask, TaskOf, Event, HistoryEvent, EventOf, LibraryAnswer
<1>3. KernelTypes'
  BY <1>2, SendTyped DEF TypeOK, SearchAnswers
<1>. QED  BY <1>3, OthersTyped DEF TypeOK, SearchAnswers

LEMMA LibraryAnsweredTyped ==
    ASSUME TypeOK, LibraryAnswered
    PROVE  TypeOK'
<1>. DEFINE e == Head(events)
<1>1. KernelTypes' /\ e \in TemplatesEvent
  BY ReceiveTyped, EventKinds DEF TypeOK, LibraryAnswered
<1>2. e.result.list \in SUBSET Saved /\ (~e.result.wrote) \in BOOLEAN
  BY <1>1 DEF TemplatesEvent, EventOf, LibraryResult
<1>3. templates' \in Templates
  BY <1>2 DEF LibraryAnswered, Templates
<1>4. LibraryTypes'
  BY <1>3 DEF TypeOK, LibraryTypes, LibraryAnswered
<1>. QED  BY <1>1, <1>4, OthersTyped DEF TypeOK, LibraryAnswered, connVars

LEMMA SearchedTyped ==
    ASSUME TypeOK, Searched
    PROVE  TypeOK'
<1>. DEFINE e == Head(events)
<1>1. KernelTypes' /\ e \in HistoryEvent
  BY ReceiveTyped, EventKinds DEF TypeOK, Searched
<1>2. e.req \in Terms /\ search \in Search
  BY <1>1 DEF HistoryEvent, EventOf, TypeOK, LibraryTypes
<1>3. search' \in Search
  <2>1. CASE e.result.tag = "Ok"
    BY <1>2, <2>1, SearchRecordTyped, Zenon DEF Searched
  <2>2. CASE e.result.tag # "Ok"
    BY <1>2, <2>2, SearchRecordTyped, Zenon DEF Searched
  <2>. QED  BY <2>1, <2>2
<1>4. LibraryTypes'
  BY <1>3 DEF TypeOK, LibraryTypes, Searched
<1>. QED  BY <1>1, <1>4, OthersTyped DEF TypeOK, Searched, connVars

\* What makes the type of a task inductive: the answer of a library job can
\* only reach the task that was begun with it, since an id is used once.
JobIds ==
    /\ \A t \in tasks : t.id \in BusyId /\ t.id < nextId
    /\ \A j \in jobs : j.id \in BusyId /\ j.id < nextId
    /\ \A j \in jobs, t \in tasks : t.id = j.id => t.owner = TemplatesOwner

LEMMA JobReadsTyped ==
    ASSUME TypeOK, JobIds, NEW j \in jobs, JobReads(j)
    PROVE  TypeOK'
<1>1. j \in Job
  BY DEF TypeOK, LibraryTypes
<1>2. j.wrote # None => j.wrote \in BOOLEAN
  BY <1>1 DEF Job
<1>3. PICK answer \in LibraryResult : tasks' = {Told(t, j, answer) : t \in tasks}
  <2>1. PICK tag \in {"Ok", "Err"} :
          tasks' = {Told(t, j, [tag |-> tag, wrote |-> j.wrote, item |-> j.item,
                                list |-> ListFromFile]) : t \in tasks}
    BY Zenon DEF JobReads
  <2>2. [tag |-> tag, wrote |-> j.wrote, item |-> j.item, list |-> ListFromFile]
          \in LibraryResult
    BY <1>1, <1>2 DEF JobReads, Job, LibraryResult, ListFromFile, TypeOK, LibraryTypes
  <2>. QED  BY <2>1, <2>2, Zenon
<1>4. \A t \in TemplatesTask : [t EXCEPT !.got = answer] \in TemplatesTask
  BY <1>3 DEF TemplatesTask, TaskOf
<1>5. \A t \in tasks : t.id = j.id => t \in TemplatesTask
  BY TaskKinds DEF JobIds, TemplatesOwner, TypeOK, KernelTypes
<1>6. tasks' \in SUBSET Task
  <2>1. \A t \in tasks : Told(t, j, answer) \in Task
    BY <1>4, <1>5 DEF Told, TypeOK, KernelTypes, Task
  <2>. QED  BY <1>3, <2>1
<1>7. jobs' \in SUBSET Job
  BY DEF TypeOK, LibraryTypes, JobReads
<1>8. KernelTypes' /\ LibraryTypes'
  BY <1>6, <1>7 DEF TypeOK, KernelTypes, LibraryTypes, JobReads
<1>. QED  BY <1>8, OthersTyped DEF TypeOK, JobReads, connVars

-----------------------------------------------------------------------------
(* disconnect and cancel.                                                    *)

LEMMA DisconnectTyped ==
    ASSUME TypeOK, NEW c \in ConnIds, Disconnect(c)
    PROVE  TypeOK'
<1>1. KernelTypes'
  BY DropTyped DEF TypeOK, Disconnect
<1>2. Parted(conns[c], "Closed") \in Conn
  BY PartedTyped DEF TypeOK, ConnectionTypes, Statuses
<1>3. ConnectionTypes'
  BY <1>2, EmptyTreeTyped DEF TypeOK, ConnectionTypes, Disconnect
<1>4. PreviewTypes'
  BY NoPreviewTyped DEF TypeOK, PreviewTypes, Disconnect
<1>5. NoDefinition \in Definition
  BY DEF NoDefinition, Definition
<1>6. DefinitionTypes'
  BY <1>5 DEF TypeOK, DefinitionTypes, Disconnect
<1>7. QueriesCut(c) \in SUBSET QueryIds
  BY DEF QueriesCut
<1>8. /\ runs' \in [QueryIds -> Recording \cup {None}]
      /\ writing' \in SUBSET Writing
      /\ ended' \in SUBSET [query : QueryIds, run : Runs, outcome : Outcomes]
  BY <1>7, RecordEndTyped DEF Disconnect, Outcomes
<1>9. \A q \in QueryIds : [queries[q] EXCEPT !.data = "Failed"] \in Query
  BY QueryRecordTyped DEF TypeOK, QueryTypes
<1>10. queries' \in [QueryIds -> Query]
  BY <1>9 DEF TypeOK, QueryTypes, Disconnect
<1>11. QueryTypes'
  BY <1>8, <1>10 DEF TypeOK, QueryTypes, Disconnect, recordVars
<1>. QED  BY <1>1, <1>3, <1>4, <1>6, <1>11, OthersTyped DEF TypeOK, Disconnect

LEMMA AbandonConnectionTyped ==
    ASSUME TypeOK, KernelTypes', NEW c \in ConnIds, AbandonConnection(c)
    PROVE  TypeOK'
<1>1. ConnectionTypes'
  BY RefusedTyped DEF TypeOK, ConnectionTypes, AbandonConnection
<1>. QED  BY <1>1, OthersTyped DEF TypeOK, AbandonConnection

LEMMA AbandonNodeTyped ==
    ASSUME TypeOK, KernelTypes', NEW c \in ConnIds, NEW n \in Nodes, AbandonNode(c, n)
    PROVE  TypeOK'
<1>1. FinishLoad(tree[c], n, FALSE) \in Tree
  BY FinishLoadTyped DEF TypeOK, ConnectionTypes
<1>2. ConnectionTypes'
  BY <1>1 DEF TypeOK, ConnectionTypes, AbandonNode
<1>. QED  BY <1>2, OthersTyped DEF TypeOK, AbandonNode

LEMMA GivenUpTyped ==
    ASSUME NEW p \in Preview
    PROVE  GivenUp(p) \in Preview
BY DEF GivenUp, Preview

LEMMA AbandonPreviewTyped ==
    ASSUME TypeOK, KernelTypes', NEW c \in ConnIds, NEW t \in Tables,
           AbandonPreview(c, t)
    PROVE  TypeOK'
<1>1. previews' \in [ConnIds -> [Tables -> Preview]]
  BY GivenUpTyped DEF TypeOK, PreviewTypes, AbandonPreview
<1>2. PreviewTypes'
  BY <1>1 DEF TypeOK, PreviewTypes, AbandonPreview
<1>. QED  BY <1>2, OthersTyped DEF TypeOK, AbandonPreview, connVars

LEMMA AbandonDefinitionTyped ==
    ASSUME TypeOK, KernelTypes', NEW c \in ConnIds, NEW t \in Tables,
           AbandonDefinition(c, t)
    PROVE  TypeOK'
<1>1. [data |-> "Failed", version |-> 0] \in Definition
  BY DEF Definition
<1>2. DefinitionTypes'
  BY <1>1 DEF TypeOK, DefinitionTypes, AbandonDefinition
<1>. QED  BY <1>2, OthersTyped DEF TypeOK, AbandonDefinition, connVars

LEMMA AbandonQueryTyped ==
    ASSUME TypeOK, KernelTypes', NEW q \in QueryIds, AbandonQuery(q)
    PROVE  TypeOK'
<1>1. /\ runs' \in [QueryIds -> Recording \cup {None}]
      /\ writing' \in SUBSET Writing
      /\ ended' \in SUBSET [query : QueryIds, run : Runs, outcome : Outcomes]
  BY RecordEndTyped DEF AbandonQuery, Outcomes
<1>2. queries' \in [QueryIds -> Query]
  BY DEF TypeOK, QueryTypes, AbandonQuery, Query
<1>3. QueryTypes'
  BY <1>1, <1>2 DEF TypeOK, QueryTypes, AbandonQuery, recordVars
<1>. QED  BY <1>3, OthersTyped DEF TypeOK, AbandonQuery, connVars

LEMMA AbandonTemplatesTyped ==
    ASSUME TypeOK, KernelTypes', AbandonTemplates
    PROVE  TypeOK'
<1>1. templates' \in Templates
  BY TemplatesRecordTyped, Zenon DEF AbandonTemplates, TypeOK, LibraryTypes
<1>2. LibraryTypes'
  BY <1>1 DEF TypeOK, LibraryTypes, AbandonTemplates
<1>. QED  BY <1>2, OthersTyped DEF TypeOK, AbandonTemplates, connVars

LEMMA AbandonHistoryTyped ==
    ASSUME TypeOK, KernelTypes', AbandonHistory
    PROVE  TypeOK'
<1>1. search' \in Search
  BY DEF TypeOK, LibraryTypes, AbandonHistory, Search
<1>2. LibraryTypes'
  BY <1>1 DEF TypeOK, LibraryTypes, AbandonHistory
<1>. QED  BY <1>2, OthersTyped DEF TypeOK, AbandonHistory, connVars

LEMMA CancelTyped ==
    ASSUME TypeOK, NEW b \in busy, Cancel(b)
    PROVE  TypeOK'
<1>1. KernelTypes'
  BY DropTyped DEF TypeOK, Cancel
<1>2. b.owner \in Owner
  BY DEF TypeOK, KernelTypes
<1>3. /\ b.owner.kind = "Connection" => b.owner.conn \in ConnIds
      /\ b.owner.kind = "Node" => b.owner.conn \in ConnIds /\ b.owner.item \in Nodes
      /\ b.owner.kind \in {"Preview", "Definition"} =>
            b.owner.conn \in ConnIds /\ b.owner.item \in Tables
      /\ b.owner.kind = "Query" => b.owner.item \in QueryIds
  BY <1>2 DEF Owner
<1>4. CASE b.owner.kind = "Connection" /\ AbandonConnection(b.owner.conn)
  BY <1>1, <1>3, <1>4, AbandonConnectionTyped
<1>5. CASE b.owner.kind = "Node" /\ AbandonNode(b.owner.conn, b.owner.item)
  BY <1>1, <1>3, <1>5, AbandonNodeTyped
<1>6. CASE b.owner.kind = "Preview" /\ AbandonPreview(b.owner.conn, b.owner.item)
  BY <1>1, <1>3, <1>6, AbandonPreviewTyped
<1>7. CASE b.owner.kind = "Definition" /\ AbandonDefinition(b.owner.conn, b.owner.item)
  BY <1>1, <1>3, <1>7, AbandonDefinitionTyped
<1>8. CASE b.owner.kind = "Query" /\ AbandonQuery(b.owner.item)
  BY <1>1, <1>3, <1>8, AbandonQueryTyped
<1>9. CASE b.owner.kind = "Templates" /\ AbandonTemplates
  BY <1>1, <1>9, AbandonTemplatesTyped
<1>10. CASE b.owner.kind = "History" /\ AbandonHistory
  BY <1>1, <1>10, AbandonHistoryTyped
<1>. QED  BY <1>4, <1>5, <1>6, <1>7, <1>8, <1>9, <1>10 DEF Cancel

-----------------------------------------------------------------------------
(* What the jobs need: an id is given out once.                              *)

\* Every task of the next state is one of this state's, or the one this step
\* began with the id it took.
TasksAge ==
    /\ nextId' \in {nextId, nextId + 1}
    /\ \A t \in tasks' :
          \/ \E u \in tasks : u.id = t.id /\ u.owner = t.owner
          \/ t.id = nextId /\ nextId < MaxBusy /\ nextId' = nextId + 1

\* Whatever a handler does of the bookkeeping, tasks only age.
LEMMA BookkeepingAges ==
    ASSUME tasks \in SUBSET Task
    PROVE  /\ \A ids, owner, req : Begin(ids, owner, req) => TasksAge
           /\ \A ids : DropTasks(ids) => TasksAge
           /\ \A t \in tasks : \A result : Send(t, result) => TasksAge
           /\ \A t \in tasks : \A result : Answer(t, result) => TasksAge
           /\ \A kind : Receive(kind) => TasksAge
           /\ UNCHANGED kernelVars => TasksAge
<1>1. ASSUME NEW ids, NEW owner, NEW req, Begin(ids, owner, req)
      PROVE  TasksAge
  BY <1>1 DEF Begin, TasksAge
<1>2. ASSUME NEW t \in tasks, NEW result, Answer(t, result)
      PROVE  TasksAge
  <2>1. [t EXCEPT !.got = result].id = t.id /\ [t EXCEPT !.got = result].owner = t.owner
    BY DEF Task, ConnectionTask, NodeTask, PreviewTask, DefinitionTask, QueryTask,
           TemplatesTask, HistoryTask, TaskOf
  <2>. QED  BY <1>2, <2>1 DEF Answer, TasksAge
<1>. QED  BY <1>1, <1>2 DEF DropTasks, Send, Receive, TasksAge, kernelVars

LEMMA AgingKeepsJobIds ==
    ASSUME ConstantsAssumption, TypeOK, JobIds, TasksAge, UNCHANGED jobs
    PROVE  JobIds'
<1>1. nextId \in Nat /\ MaxBusy \in Nat
  BY DEF TypeOK, KernelTypes, ConstantsAssumption
<1>. QED  BY <1>1 DEF JobIds, TasksAge, BusyId

LEMMA DispatchedAges ==
    ASSUME TypeOK, Dispatched
    PROVE  /\ TasksAge
           /\ \/ UNCHANGED jobs
              \/ \E op \in LibraryOps : \E item \in Items(op) : WithLibrary(op, item)
<1>. USE BookkeepingAges DEF TypeOK, KernelTypes
<1>1. \A c \in ConnIds : Connect(c) => TasksAge /\ UNCHANGED jobs
  BY DEF Connect, libraryVars
<1>2. \A c \in ConnIds : Disconnect(c) => TasksAge /\ UNCHANGED jobs
  BY DEF Disconnect, libraryVars
<1>3. \A c \in ConnIds, any \in BOOLEAN :
        OpenConnectionRow(c, any) => TasksAge /\ UNCHANGED jobs
  BY DEF OpenConnectionRow, libraryVars
<1>4. \A c \in ConnIds, n \in Nodes, any \in BOOLEAN :
        OpenNode(c, n, any) => TasksAge /\ UNCHANGED jobs
  BY DEF OpenNode, libraryVars
<1>5. \A c \in ConnIds, t \in Browsed : PreviewTable(c, t) => TasksAge /\ UNCHANGED jobs
  BY DEF PreviewTable, FetchPage, libraryVars
<1>6. \A c \in ConnIds, t \in Browsed, column \in Nat :
        SortPreview(c, t, column) => TasksAge /\ UNCHANGED jobs
  BY DEF SortPreview, FetchPage, libraryVars
<1>7. \A c \in ConnIds, t \in Browsed : LoadMore(c, t) => TasksAge /\ UNCHANGED jobs
  BY DEF LoadMore, FetchPage, libraryVars
<1>8. \A c \in ConnIds, t \in Browsed : ForgetPreview(c, t) => TasksAge /\ UNCHANGED jobs
  BY DEF ForgetPreview, libraryVars
<1>9. \A c \in ConnIds, t \in Inspected, refresh \in BOOLEAN :
        DescribeTable(c, t, refresh) => TasksAge /\ UNCHANGED jobs
  BY DEF DescribeTable, libraryVars
<1>10. \A c \in ConnIds, t \in Inspected :
         ForgetDefinition(c, t) => TasksAge /\ UNCHANGED jobs
  BY DEF ForgetDefinition, libraryVars
<1>11. \A c \in ConnIds, q \in QueryIds, sql \in Statements :
         RunQuery(c, q, sql) \/ EstimateQuery(c, q, sql) => TasksAge /\ UNCHANGED jobs
  BY DEF RunQuery, EstimateQuery, libraryVars
<1>12. \A q \in QueryIds :
         ApproveQuery(q) \/ ForgetQuery(q) => TasksAge /\ UNCHANGED jobs
  BY DEF ApproveQuery, ForgetQuery, libraryVars
<1>13. \A op \in LibraryOps : \A item \in Items(op) : WithLibrary(op, item) => TasksAge
  BY DEF WithLibrary
<1>14. \A terms \in Terms : SearchHistory(terms) => TasksAge /\ UNCHANGED jobs
  BY DEF SearchHistory
<1>15. \A b \in busy : Cancel(b) => TasksAge /\ UNCHANGED jobs
  <2>. SUFFICES ASSUME NEW b \in busy, Cancel(b)
                PROVE  TasksAge /\ UNCHANGED jobs
    OBVIOUS
  <2>1. TasksAge
    BY DEF Cancel
  <2>2. UNCHANGED jobs
    BY DEF Cancel, AbandonConnection, AbandonNode, AbandonPreview, AbandonDefinition,
           AbandonQuery, AbandonTemplates, AbandonHistory, libraryVars
  <2>. QED  BY <2>1, <2>2
<1>. QED
  BY <1>1, <1>2, <1>3, <1>4, <1>5, <1>6, <1>7, <1>8, <1>9, <1>10, <1>11, <1>12, <1>13,
     <1>14, <1>15, Zenon DEF Dispatched

LEMMA HandledAges ==
    ASSUME TypeOK, Handled
    PROVE  TasksAge /\ UNCHANGED jobs
BY BookkeepingAges
   DEF TypeOK, KernelTypes, Handled, Connected, Expanded, Previewed, Described, Ran,
       Recorded, LibraryAnswered, Searched, libraryVars

LEMMA WorksAges ==
    ASSUME TypeOK, NEW t \in tasks, Works(t)
    PROVE  TasksAge /\ UNCHANGED jobs
<1>. USE BookkeepingAges DEF TypeOK, KernelTypes, libraryVars
<1>1. ConnectAnswers(t) \/ ExpandAnswers(t) \/ PreviewAnswers(t)
        => TasksAge /\ UNCHANGED jobs
  BY DEF ConnectAnswers, ExpandAnswers, PreviewAnswers
<1>2. DescribeAnswers(t) \/ DescribeSends(t) => TasksAge /\ UNCHANGED jobs
  BY DEF DescribeAnswers, DescribeSends
<1>3. ServerExecutes(t) \/ QueryStops(t) \/ QuerySends(t) => TasksAge /\ UNCHANGED jobs
  BY DEF ServerExecutes, QueryStops, QuerySends
<1>4. LibrarySends(t) \/ SearchAnswers(t) => TasksAge /\ UNCHANGED jobs
  BY DEF LibrarySends, SearchAnswers
<1>. QED  BY <1>1, <1>2, <1>3, <1>4 DEF Works

LEMMA OutsideAges ==
    ASSUME TypeOK, Outside
    PROVE  TasksAge /\ UNCHANGED jobs
BY BookkeepingAges
   DEF TypeOK, KernelTypes, Outside, ActorDies, Alter, SchemaChanges, libraryVars

\* Jobs keep their ids, and the task a job answers keeps its id and its owner.
LEMMA BlockingKeepsJobIds ==
    ASSUME TypeOK, JobIds, Blocking
    PROVE  JobIds'
<1>1. ASSUME NEW w \in writing, RowInserted(w) \/ RowSettled(w)
      PROVE  JobIds'
  BY <1>1 DEF JobIds, RowInserted, RowSettled, libraryVars, kernelVars
<1>2. ASSUME NEW j \in jobs, JobWrites(j)
      PROVE  JobIds'
  <2>1. j \in Job
    BY DEF TypeOK, LibraryTypes
  <2>2. \A ok : [j EXCEPT !.wrote = ok].id = j.id
    BY <2>1 DEF Job
  <2>. QED  BY <1>2, <2>2 DEF JobIds, JobWrites, kernelVars
<1>3. ASSUME NEW j \in jobs, JobReads(j)
      PROVE  JobIds'
  <2>1. \A t \in tasks : \A answer : /\ Told(t, j, answer).id = t.id
                                     /\ Told(t, j, answer).owner = t.owner
    BY DEF Told, TypeOK, KernelTypes, Task, ConnectionTask, NodeTask, PreviewTask,
           DefinitionTask, QueryTask, TemplatesTask, HistoryTask, TaskOf
  <2>2. PICK tag \in {"Ok", "Err"} :
          tasks' = {Told(t, j, [tag |-> tag, wrote |-> j.wrote, item |-> j.item,
                                list |-> ListFromFile]) : t \in tasks}
    BY <1>3, Zenon DEF JobReads
  <2>3. \A t \in tasks' : \E u \in tasks : u.id = t.id /\ u.owner = t.owner
    BY <2>1, <2>2
  <2>. QED  BY <1>3, <2>3 DEF JobIds, JobReads
<1>. QED  BY <1>1, <1>2, <1>3 DEF Blocking

LEMMA NextKeepsJobIds ==
    ASSUME ConstantsAssumption, TypeOK, JobIds, Next
    PROVE  JobIds'
<1>1. CASE Dispatched
  <2>1. CASE UNCHANGED jobs
    BY <1>1, <2>1, DispatchedAges, AgingKeepsJobIds
  <2>2. ASSUME NEW op \in LibraryOps, NEW item \in Items(op), WithLibrary(op, item)
        PROVE  JobIds'
    <3>1. TasksAge
      BY <1>1, DispatchedAges
    <3>2. CASE ~Library
      BY <2>2, <3>1, <3>2, AgingKeepsJobIds DEF WithLibrary
    <3>3. CASE Library
      <4>1. nextId \in Nat /\ MaxBusy \in Nat
        BY DEF TypeOK, KernelTypes, ConstantsAssumption
      <4>2. Begin({}, TemplatesOwner, op)
        BY <2>2, <3>3 DEF WithLibrary
      <4>3. \A j \in jobs' : j \in jobs \/ j.id = nextId
        BY <2>2, <3>3 DEF WithLibrary
      <4>4. \A t \in tasks' : t \in tasks \/ (t.id = nextId /\ t.owner = TemplatesOwner)
        BY <4>2 DEF Begin
      <4>5. nextId' = nextId + 1 /\ nextId < MaxBusy
        BY <4>2 DEF Begin
      <4>. QED  BY <4>1, <4>3, <4>4, <4>5 DEF JobIds, BusyId
    <3>. QED  BY <3>2, <3>3
  <2>. QED  BY <1>1, <2>1, <2>2, DispatchedAges
<1>2. CASE Handled
  BY <1>2, HandledAges, AgingKeepsJobIds
<1>3. ASSUME NEW t \in tasks, Works(t)
      PROVE  JobIds'
  BY <1>3, WorksAges, AgingKeepsJobIds
<1>4. CASE Blocking
  BY <1>4, BlockingKeepsJobIds
<1>5. CASE Outside
  BY <1>5, OutsideAges, AgingKeepsJobIds
<1>. QED  BY <1>1, <1>2, <1>3, <1>4, <1>5 DEF Next

-----------------------------------------------------------------------------
(* The invariant and the theorem.                                            *)

TypeInv == TypeOK /\ JobIds

\* With nothing under way only the connections and their trees are in question.
LEMMA NothingTyped ==
    ASSUME ConstantsAssumption, NothingYet, ConnectionTypes
    PROVE  TypeInv
<1>1. PreviewTypes
  BY NoPreviewTyped DEF NothingYet, PreviewTypes
<1>2. DefinitionTypes
  BY DEF NothingYet, DefinitionTypes, NoDefinition, Definition
<1>3. QueryTypes
  BY DEF NothingYet, QueryTypes, NoQuery, Query
<1>4. LibraryTypes
  BY DEF NothingYet, LibraryTypes, Templates, Search
<1>5. KernelTypes
  BY DEF NothingYet, KernelTypes, ConstantsAssumption
<1>6. JobIds
  BY DEF NothingYet, JobIds
<1>. QED  BY <1>1, <1>2, <1>3, <1>4, <1>5, <1>6 DEF TypeInv, TypeOK

LEMMA InitTyped ==
    ASSUME ConstantsAssumption, Init
    PROVE  TypeInv
<1>1. [NewConn EXCEPT !.status = "absent"] \in Conn
  BY DEF NewConn, Conn, Statuses
<1>2. ConnectionTypes
  BY <1>1, EmptyTreeTyped DEF Init, ConnectionTypes
<1>. QED  BY <1>2, NothingTyped DEF Init

LEMMA DispatchedTyped ==
    ASSUME ConstantsAssumption, TypeOK, Dispatched
    PROVE  TypeOK'
<1>1. Browsed \subseteq Tables /\ Inspected \subseteq Tables
  BY DEF Tables
<1>2. LibraryOps \subseteq Ops
  BY DEF ConstantsAssumption, Ops
<1>3. ASSUME NEW c \in ConnIds, Connect(c) \/ Disconnect(c)
      PROVE  TypeOK'
  BY <1>3, ConnectTyped, DisconnectTyped
<1>4. ASSUME NEW c \in ConnIds, NEW any \in BOOLEAN,
             \/ OpenConnectionRow(c, any)
             \/ \E n \in Nodes : OpenNode(c, n, any)
      PROVE  TypeOK'
  BY <1>4, OpenConnectionRowTyped, OpenNodeTyped
<1>5. ASSUME NEW c \in ConnIds, NEW t \in Browsed,
             \/ PreviewTable(c, t) \/ LoadMore(c, t) \/ ForgetPreview(c, t)
             \/ \E column \in Nat : SortPreview(c, t, column)
      PROVE  TypeOK'
  BY <1>1, <1>5, PreviewTableTyped, LoadMoreTyped, ForgetPreviewTyped, SortPreviewTyped
<1>6. ASSUME NEW c \in ConnIds, NEW t \in Inspected,
             \/ \E refresh \in BOOLEAN : DescribeTable(c, t, refresh)
             \/ ForgetDefinition(c, t)
      PROVE  TypeOK'
  BY <1>1, <1>6, DescribeTableTyped, ForgetDefinitionTyped
<1>7. ASSUME NEW c \in ConnIds, NEW q \in QueryIds, NEW sql \in Statements,
             RunQuery(c, q, sql) \/ EstimateQuery(c, q, sql)
      PROVE  TypeOK'
  BY <1>7, RunQueryTyped, EstimateQueryTyped
<1>8. ASSUME NEW q \in QueryIds, ApproveQuery(q) \/ ForgetQuery(q)
      PROVE  TypeOK'
  BY <1>8, ApproveQueryTyped, ForgetQueryTyped
<1>9. ASSUME NEW op \in LibraryOps, NEW item \in Items(op), WithLibrary(op, item)
      PROVE  TypeOK'
  BY <1>2, <1>9, WithLibraryTyped
<1>10. ASSUME NEW terms \in Terms, SearchHistory(terms)
       PROVE  TypeOK'
  BY <1>10, SearchHistoryTyped
<1>11. ASSUME NEW b \in busy, Cancel(b)
       PROVE  TypeOK'
  BY <1>11, CancelTyped
<1>. QED
  BY <1>3, <1>4, <1>5, <1>6, <1>7, <1>8, <1>9, <1>10, <1>11, Zenon DEF Dispatched

LEMMA HandledTyped ==
    ASSUME TypeOK, Handled
    PROVE  TypeOK'
BY ConnectedTyped, ExpandedTyped, PreviewedTyped, DescribedTyped, RanTyped,
   RecordedTyped, LibraryAnsweredTyped, SearchedTyped DEF Handled

LEMMA WorksTyped ==
    ASSUME ConstantsAssumption, TypeOK, NEW t \in tasks, Works(t)
    PROVE  TypeOK'
BY ConnectAnswersTyped, ExpandAnswersTyped, PreviewAnswersTyped, DescribeAnswersTyped,
   DescribeSendsTyped, ServerExecutesTyped, QueryStopsTyped, QuerySendsTyped,
   LibrarySendsTyped, SearchAnswersTyped DEF Works

LEMMA BlockingTyped ==
    ASSUME TypeOK, JobIds, Blocking
    PROVE  TypeOK'
BY RowInsertedTyped, RowSettledTyped, JobWritesTyped, JobReadsTyped DEF Blocking

LEMMA OutsideTyped ==
    ASSUME TypeOK, Outside
    PROVE  TypeOK'
<1>1. Browsed \subseteq Tables /\ Inspected \subseteq Tables
  BY DEF Tables
<1>. QED  BY <1>1, ActorDiesTyped, AlterTyped, SchemaChangesTyped DEF Outside

LEMMA NextTyped ==
    ASSUME ConstantsAssumption, TypeInv, [Next]_vars
    PROVE  TypeInv'
<1>1. CASE Next
  <2>1. JobIds'
    BY <1>1, NextKeepsJobIds DEF TypeInv
  <2>2. TypeOK'
    BY <1>1, DispatchedTyped, HandledTyped, WorksTyped, BlockingTyped, OutsideTyped
    DEF Next, TypeInv
  <2>. QED  BY <2>1, <2>2 DEF TypeInv
<1>2. CASE UNCHANGED vars
  <2>1. TypeOK'
    BY <1>2, OthersTyped DEF vars, TypeInv, TypeOK
  <2>2. JobIds'
    BY <1>2 DEF vars, kernelVars, libraryVars, TypeInv, JobIds
  <2>. QED  BY <2>1, <2>2 DEF TypeInv
<1>. QED  BY <1>1, <1>2

\* The store's variables keep their types in every behaviour, for every value of
\* the constants: every task is answered with something of its own kind, and
\* every handler is told about something it keeps.
THEOREM TypesAreInvariant == Spec => []TypeInv
<1>1. Init => TypeInv
  BY InitTyped, ConstantsAssumption
<1>2. TypeInv /\ [Next]_vars => TypeInv'
  BY NextTyped, ConstantsAssumption
<1>. QED  BY <1>1, <1>2, PTL DEF Spec

\* The same, of the type invariant by itself.
THEOREM TypeCorrect == Spec => []TypeOK
<1>1. TypeInv => TypeOK
  BY DEF TypeInv
<1>. QED  BY <1>1, TypesAreInvariant, PTL

=============================================================================
