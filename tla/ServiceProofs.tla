--------------------------- MODULE ServiceProofs ---------------------------
(***************************************************************************)
(* The API over the store: what callers and a person put in the queue is     *)
(* never more than the store's own actions, so everything proved of the store *)
(* holds of a session they share; a page that was asked for in an order has   *)
(* it, and an estimate leaves nothing behind.                                *)
(***************************************************************************)
EXTENDS Service, StoreContents

\* What may be in the queue.
Orders ==
    [op : {"Connect", "Disconnect"}, conn : ConnIds, item : {None}, arg : {None}]
      \cup [op : {"Quit"}, conn : {None}, item : {None}, arg : {None}]
      \cup [op : {"Expand", "Toggle"}, conn : ConnIds, item : Nodes, arg : {None, FALSE}]
      \cup [op : {"Preview", "LoadMore", "ForgetPreview"}, conn : ConnIds,
            item : Browsed, arg : {0, FALSE}]
      \cup [op : {"Sort"}, conn : ConnIds, item : Browsed, arg : {0}]
      \cup [op : {"Describe"}, conn : ConnIds, item : Inspected, arg : BOOLEAN]
      \cup [op : {"Estimate", "Run"}, conn : ConnIds, item : QueryIds, arg : Statements]
      \cup [op : {"Approve", "Forget"}, conn : {None}, item : QueryIds, arg : {None}]
      \cup [op : {"Cancel"}, conn : {None}, item : {None}, arg : BusyId]
      \cup [op : {"Search"}, conn : {None}, item : {None}, arg : Terms]
      \cup [op : LibraryOps \cap {"Load"}, conn : {None}, item : {None}, arg : {None}]
      \cup [op : LibraryOps \ {"Load"}, conn : {None}, item : Saved, arg : {None}]

\* The fields of a call.
Fields == {"op", "flag", "conn", "item", "query", "step", "level", "ordinal", "floor",
           "seen", "answer"}

Shaped(g) == g = [f \in Fields |-> g[f]]

OnNode == {"children", "preview", "describe"}
OnConn == OnNode \cup {"namespaces", "run", "estimate", "apply"}

\* What was asked for can be: a path of the catalogue, and a relation that is browsed
\* or inspected.
Meant(g) ==
    /\ g.flag \in BOOLEAN
    /\ g.op \in OnNode => g.item \in Nodes
    /\ g.op = "preview" /\ g.item \in Leaves => g.item \in Browsed
    /\ g.op = "describe" /\ g.item \in Leaves => g.item \in Inspected

\* How far it may have got when it is at a step: on which connection, with which
\* query, at which ancestor; and nothing is answered before its time.
At(g, step) ==
    /\ step \in {"idle", "opening", "expanding", "acting", "sorting", "forgetting"}
    /\ step # "idle" /\ g.op \in OnConn => g.conn \in ConnIds
    /\ step # "idle" /\ g.op \in {"run", "estimate"} => g.query \in QueryIds
    /\ step = "expanding" =>
          g.op \in OnNode /\ g.level \in 1 .. Len(Path[g.item]) - 1
    /\ step \in {"acting", "sorting"} /\ g.op = "preview" => g.item \in Browsed
    /\ step = "sorting" => g.op = "preview"
    /\ step = "forgetting" => g.op = "estimate"
    /\ step \notin {"idle", "forgetting"} => g.answer.tag = "None"

\* Rows that were asked for in an order.
InOrder(g) ==
    g.op = "preview" /\ g.flag /\ g.answer.tag = "Page" =>
        \A i \in 1 .. Len(g.answer.value) : g.answer.value[i].sort = Wanted

\* An estimate that has its answer has a query nobody asks for again; and once it is
\* given, the query was forgotten.
Held(g) ==
    g.op = "estimate" /\ g.answer.tag = "Query" =>
        g.query \in QueryIds /\ queries[g.query].data # "absent"

Forgotten(g) ==
    g.step = "idle" /\ g.op = "estimate" /\ g.answer.tag = "Query" =>
        queries[g.query].data = "forgotten"

CallSafe(g) ==
    /\ Shaped(g)
    /\ Meant(g)
    /\ At(g, g.step)
    /\ InOrder(g)
    /\ Held(g)
    /\ Forgotten(g)

ServiceInv ==
    /\ inbox \in Seq(Orders)
    /\ applied \in Nat
    /\ scene \in Scenes
    /\ call = [k \in Clients |-> call[k]]
    /\ \A k \in Clients : CallSafe(call[k])

-----------------------------------------------------------------------------
(* The store: everything proved of it, in one invariant.                     *)

StoreInv ==
    /\ TypeInv
    /\ ConnInv
    /\ QueryInv
    /\ SpinInv
    /\ QuietInv
    /\ FreshInv
    /\ GridInv
    /\ SaveInv
    /\ RowInv
    /\ RunInv

LEMMA NextStore ==
    ASSUME StoreInv, [Next]_vars
    PROVE  StoreInv'
<1>1. TypeInv /\ ConnInv /\ QueryInv /\ SpinInv /\ TokenInv
  BY DEF StoreInv, SpinInv
<1>2. TypeInv'
  BY <1>1, NextTyped, ConstantsAssumption
<1>3. ConnInv' /\ QueryInv'
  BY <1>1, NextConns, NextQueries DEF ConnInv, QueryInv
<1>4. SpinInv'
  BY <1>1, NextIds, NextPreviewSpins, NextConnSpins, NextNodeSpins, NextDefinitionSpins,
     NextQuerySpins DEF SpinInv, TokenInv, PreviewSpins
<1>5. QuietInv'
  BY <1>1, NextRowsKnown, NextQuieted DEF StoreInv, QuietInv
<1>6. FreshInv'
  BY <1>1, <1>2, NextFresh DEF StoreInv, FreshInv
<1>7. GridInv'
  BY <1>1, NextPages, NextGrid DEF StoreInv, GridInv
<1>8. SaveInv' /\ RowInv'
  BY <1>1, NextSaves, NextRows DEF StoreInv
<1>9. RunInv'
  BY <1>1, NextRuns DEF StoreInv
<1>. QED  BY <1>2, <1>3, <1>4, <1>5, <1>6, <1>7, <1>8, <1>9 DEF StoreInv

\* A session under way has connections that are open or were never opened, and
\* nothing in flight.
LEMMA UnderwayStore ==
    ASSUME NEW browsed, Underway(browsed)
    PROVE  StoreInv
<1>1. NothingYet
  BY DEF Underway
<1>2. PICK sortable \in BOOLEAN :
         conns = [c \in ConnIds |->
                     IF c \in Attached
                     THEN Opened(NewConn, [access |-> "ReadWrite", sortable |-> sortable])
                     ELSE [NewConn EXCEPT !.status = "absent"]]
  BY DEF Underway
<1>. DEFINE open == Opened(NewConn, [access |-> "ReadWrite", sortable |-> sortable])
            shut == [NewConn EXCEPT !.status = "absent"]
<1>3. open \in Conn /\ open.session = TRUE /\ open.status = "Ready"
  BY DEF Opened, NewConn, Conn, Statuses
<1>4. shut \in Conn /\ shut.session = FALSE /\ shut.status = "absent"
  BY DEF NewConn, Conn, Statuses
<1>5. conns = [c \in ConnIds |-> IF c \in Attached THEN open ELSE shut]
  BY <1>2
<1>. HIDE DEF open, shut
<1>6. FullTree \in Tree /\ \A n \in Nodes : FullTree.status[n] # "Loading"
  BY ConstantsAssumption DEF FullTree, Tree, NodeStates, ConstantsAssumption
<1>7. SetRoots \in Tree /\ \A n \in Nodes : SetRoots.status[n] # "Loading"
  BY SetRootsTyped, ConstantsAssumption DEF SetRoots, RecordLeaves, EmptyTree
<1>8. EmptyTree \in Tree /\ \A n \in Nodes : EmptyTree.status[n] # "Loading"
  BY EmptyTreeTyped DEF EmptyTree
<1>9. tree \in [ConnIds -> Tree] /\ NodeSpins
  <2>1. tree = [c \in ConnIds |-> IF c \notin Attached THEN EmptyTree
                                 ELSE IF browsed THEN FullTree ELSE SetRoots]
    BY DEF Underway
  <2>2. \A c \in ConnIds : tree[c] \in {EmptyTree, FullTree, SetRoots}
    BY <2>1
  <2>. QED  BY <1>6, <1>7, <1>8, <2>1, <2>2 DEF NodeSpins
<1>10. ConnectionTypes /\ ReadyMeansSession /\ ConnSpins
  BY <1>3, <1>4, <1>5, <1>9, LoopAssumption
  DEF Underway, ConnectionTypes, ReadyMeansSession, ConnSpins, LoopAssumption
<1>11. TypeInv
  BY <1>1, <1>10, NothingTyped, ConstantsAssumption
<1>. QED  BY <1>1, <1>9, <1>10, <1>11, NothingConns, NothingQueries, NothingSpins, NothingQuiet,
             NothingFresh, NothingGrid, NothingSaves, NothingRows, NothingRuns
          DEF StoreInv

-----------------------------------------------------------------------------
(* The queue: what is taken off it is one of the store's own actions.        *)

\* The kinds of order, by what they are about.
LEMMA OrderKinds ==
    ASSUME NEW a \in Orders
    PROVE  /\ a.op \in {"Connect", "Disconnect"} => a.conn \in ConnIds
           /\ a.op \in {"Expand", "Toggle"} => a.conn \in ConnIds /\ a.item \in Nodes
           /\ a.op \in {"Preview", "Sort", "LoadMore", "ForgetPreview"} =>
                 a.conn \in ConnIds /\ a.item \in Browsed
           /\ a.op = "Sort" => a.arg = 0
           /\ a.op = "Describe" => a.conn \in ConnIds /\ a.item \in Inspected /\ a.arg \in BOOLEAN
           /\ a.op \in {"Estimate", "Run"} =>
                 a.conn \in ConnIds /\ a.item \in QueryIds /\ a.arg \in Statements
           /\ a.op \in {"Approve", "Forget"} => a.item \in QueryIds
           /\ a.op = "Search" => a.arg \in Terms
           /\ a.op \in Ops => a.op \in LibraryOps /\ a.item \in Items(a.op)
BY ConstantsAssumption DEF Orders, Ops, Items, ConstantsAssumption

LEMMA PerformIsDispatched ==
    ASSUME TypeInv, NEW a \in Orders, Perform(a)
    PROVE  Dispatched
<1>1. CASE a.op \in {"Connect", "Disconnect", "Expand", "Toggle"}
  <2>1. a.conn \in ConnIds /\ (a.op \in {"Expand", "Toggle"} => a.item \in Nodes)
    BY <1>1, OrderKinds
  <2>2. a.op \in {"Expand", "Toggle"} => a.item # Root
    BY <2>1, ConstantsAssumption DEF ConstantsAssumption
  <2>. QED  BY <1>1, <2>1, <2>2 DEF Perform, Dispatched, Ops
<1>2. CASE a.op \in {"Preview", "LoadMore", "ForgetPreview"}
  <2>1. a.conn \in ConnIds /\ a.item \in Browsed
    BY <1>2, OrderKinds
  <2>. QED  BY <1>2, <2>1 DEF Perform, Dispatched, Ops
<1>3. CASE a.op = "Sort"
  <2>1. a.conn \in ConnIds /\ a.item \in Browsed /\ a.arg = 0
    BY <1>3, OrderKinds
  <2>2. width[a.item] \in Widths /\ width[a.item] \in Nat \ {0}
    BY <2>1, ConstantsAssumption
    DEF TypeInv, TypeOK, PreviewTypes, Tables, ConstantsAssumption
  <2>3. 0 \in Nat \cap UNION {0 .. w - 1 : w \in Widths}
    BY <2>2
  <2>4. SortPreview(a.conn, a.item, 0)
    BY <1>3, <2>1 DEF Perform, Ops
  <2>. QED  BY <2>1, <2>3, <2>4 DEF Dispatched
<1>4. CASE a.op \in {"Describe", "ForgetDefinition"}
  <2>1. a.op = "Describe"
    BY <1>4, ConstantsAssumption DEF Orders, ConstantsAssumption
  <2>2. a.conn \in ConnIds /\ a.item \in Inspected /\ a.arg \in BOOLEAN
    BY <2>1, OrderKinds
  <2>. QED  BY <2>1, <2>2 DEF Perform, Dispatched, Ops
<1>5. CASE a.op \in {"Estimate", "Run", "Approve", "Forget"}
  <2>1. /\ a.item \in QueryIds
        /\ a.op \in {"Estimate", "Run"} => a.conn \in ConnIds /\ a.arg \in Statements
    BY <1>5, OrderKinds
  <2>. QED  BY <1>5, <2>1 DEF Perform, Dispatched, Ops
<1>6. CASE a.op \in {"Cancel", "Search"}
  <2>1. a.op = "Search" => a.arg \in Terms
    BY OrderKinds
  <2>. QED  BY <1>6, <2>1 DEF Perform, Dispatched, Ops
<1>7. CASE a.op \in Ops
  <2>1. a.op \in LibraryOps /\ a.item \in Items(a.op)
    BY <1>7, OrderKinds
  <2>. QED  BY <1>7, <2>1 DEF Perform, Dispatched, Ops
<1>. QED  BY <1>1, <1>2, <1>3, <1>4, <1>5, <1>6, <1>7 DEF Perform

\* What was taken off the queue was an order, and what is left are orders.
LEMMA OrdersTaken ==
    ASSUME inbox \in Seq(Orders), inbox # <<>>
    PROVE  Head(inbox) \in Orders /\ Tail(inbox) \in Seq(Orders)
OBVIOUS

\* A step of the service is a step of the store, or none.
LEMMA ServiceIsTheStores ==
    ASSUME TypeInv, ServiceInv, [ServiceNext]_serviceVars
    PROVE  [Next]_vars
<1>1. CASE Loop
  <2>1. CASE Apply
    <3>1. Perform(Head(inbox)) \/ UNCHANGED vars
      BY <2>1 DEF Apply
    <3>2. Head(inbox) \in Orders
      BY <2>1, OrdersTaken DEF Apply, ServiceInv
    <3>. QED  BY <3>1, <3>2, PerformIsDispatched DEF Next
  <2>2. CASE Handle
    BY <2>2 DEF Handle, Next
  <2>. QED  BY <1>1, <2>1, <2>2 DEF Loop
<1>2. (\E id \in BusyId : Tasks(id)) \/ Pool \/ Elsewhere => Next
  BY DEF Tasks, Pool, Elsewhere, Next
<1>3. \A k \in Clients : Ask(k) \/ Proceeds(k) \/ TimesOut(k) \/ Stopped(k) => UNCHANGED vars
  BY DEF Ask, Proceeds, TimesOut, Stopped
<1>4. Gesture \/ UNCHANGED serviceVars => UNCHANGED vars
  BY DEF Gesture, serviceVars
<1>. QED  BY <1>1, <1>2, <1>3, <1>4 DEF ServiceNext

\* A query that was asked for stays so, and one that was forgotten does too.
LEMMA QueriesStay ==
    ASSUME TypeInv, QueryInv, [Next]_vars, NEW q \in QueryIds
    PROVE  /\ queries[q].data # "absent" => queries'[q].data # "absent"
           /\ queries[q].data = "forgotten" => queries'[q].data = "forgotten"
<1>1. \A c \in ConnIds : Disconnect(c) =>
        /\ queries[q].data # "absent" => queries'[q].data # "absent"
        /\ queries[q].data = "forgotten" => queries'[q].data = "forgotten"
  <2>. SUFFICES ASSUME NEW c \in ConnIds, Disconnect(c), queries[q].data = "forgotten"
                PROVE  q \notin QueriesCut(c)
    BY DisconnectQuery
  <2>. QED  BY AbsentAssumption
            DEF AbsentAssumption, QueriesCut, Orphaned, Rows, QueryOwner, Known
<1>2. \A p \in QueryIds : Asks(p) \/ ForgetQuery(p) =>
        /\ queries[q].data # "absent" => queries'[q].data # "absent"
        /\ queries[q].data = "forgotten" => queries'[q].data = "forgotten"
  BY AskedQuery, ForgottenQuery DEF Known
<1>3. \A b \in busy : Cancel(b) =>
        /\ queries[q].data # "absent" => queries'[q].data # "absent"
        /\ queries[q].data = "forgotten" => queries'[q].data = "forgotten"
  BY CancelQuery DEF Known
<1>4. Ran =>
        /\ queries[q].data # "absent" => queries'[q].data # "absent"
        /\ queries[q].data = "forgotten" => queries'[q].data = "forgotten"
  BY RanQuery DEF Known
<1>. QED  BY <1>1, <1>2, <1>3, <1>4, QueryChanges, SameQueries

-----------------------------------------------------------------------------
(* Calls: the fields a handler writes, and those it leaves.                  *)

\* The same request.
Same(g, h) == Shaped(h) /\ h.op = g.op /\ h.flag = g.flag /\ h.item = g.item

LEMMA AnsweredCall ==
    ASSUME NEW g, Shaped(g), NEW a
    PROVE  LET h == [g EXCEPT !.step = "idle", !.answer = a, !.ordinal = 0, !.level = 0]
           IN Same(g, h) /\ h.step = "idle" /\ h.answer = a /\ h.query = g.query
BY DEF Shaped, Same, Fields

LEMMA SameMeant ==
    ASSUME NEW g, Meant(g), NEW h, Same(g, h)
    PROVE  Meant(h)
BY DEF Meant, Same

\* What a caller's own step does: its call goes from one safe state to another, and
\* at most one order is put in the queue.
Moves(k) ==
    /\ \E g : CallSafe(g) /\ call' = [call EXCEPT ![k] = g]
    /\ inbox' = inbox \/ \E a \in Orders : inbox' = Append(inbox, a)

LEMMA MovesSafe ==
    ASSUME ServiceInv, NEW k \in Clients, Moves(k), UNCHANGED <<queries, applied, scene>>
    PROVE  ServiceInv'
<1>1. inbox' \in Seq(Orders)
  BY DEF ServiceInv, Moves
<1>2. PICK g : CallSafe(g) /\ call' = [call EXCEPT ![k] = g]
  BY DEF Moves
<1>3. call' = [j \in Clients |-> IF j = k THEN g ELSE call[j]]
  BY <1>2 DEF ServiceInv
<1>4. call' = [j \in Clients |-> call'[j]]
  BY <1>3
<1>5. ASSUME NEW j \in Clients
      PROVE  CallSafe(call'[j])
  BY <1>2, <1>3 DEF ServiceInv
<1>6. ASSUME NEW j \in Clients
      PROVE  CallSafe(call[j])'
  <2>1. CallSafe(call'[j])
    BY <1>5
  <2>. QED  BY <2>1 DEF CallSafe, Shaped, Meant, At, InOrder, Held, Forgotten
<1>. QED  BY <1>1, <1>4, <1>6 DEF ServiceInv

LEMMA AnsweredMoves ==
    ASSUME NEW k \in Clients, NEW got, Shaped(got), Meant(got), NEW a, Answered(k, got, a),
           got.op = "preview" /\ got.flag /\ a.tag = "Page" =>
              \A i \in 1 .. Len(a.value) : a.value[i].sort = Wanted,
           got.op = "estimate" /\ a.tag = "Query" =>
              got.query \in QueryIds /\ queries[got.query].data = "forgotten"
    PROVE  Moves(k)
<1>. DEFINE h == [got EXCEPT !.step = "idle", !.answer = a, !.ordinal = 0, !.level = 0]
<1>1. call' = [call EXCEPT ![k] = h] /\ inbox' = inbox
  BY DEF Answered
<1>2. Same(got, h) /\ h.step = "idle" /\ h.answer = a /\ h.query = got.query
  BY AnsweredCall
<1>. HIDE DEF h
<1>3. Meant(h) /\ Shaped(h)
  BY <1>2, SameMeant DEF Same
<1>4. At(h, h.step)
  BY <1>2 DEF At
<1>5. InOrder(h) /\ Held(h) /\ Forgotten(h)
  BY <1>2 DEF InOrder, Held, Forgotten, Same
<1>. QED  BY <1>1, <1>3, <1>4, <1>5 DEF Moves, CallSafe

\* An answer that says nothing was found, or that something failed.
LEMMA RefusedMoves ==
    ASSUME NEW k \in Clients, NEW got, Shaped(got), Meant(got), NEW a, Answered(k, got, a),
           a.tag \notin {"Page", "Query"}
    PROVE  Moves(k)
BY AnsweredMoves

\* An order is dispatched and the caller goes on to wait for it.
LEMMA DispatchMoves ==
    ASSUME NEW k \in Clients, NEW got, Shaped(got), Meant(got), NEW step, NEW a \in Orders,
           Dispatch(k, got, step, a), At(got, step), step # "idle", Held(got)
    PROVE  Moves(k)
<1>0. PICK n : /\ inbox' = Append(inbox, a)
               /\ call' = [call EXCEPT ![k] = [got EXCEPT !.step = step, !.ordinal = n,
                                                          !.seen = FALSE]]
  BY DEF Dispatch
<1>. DEFINE h == [got EXCEPT !.step = step, !.ordinal = n, !.seen = FALSE]
<1>1. call' = [call EXCEPT ![k] = h] /\ inbox' = Append(inbox, a)
  BY <1>0
<1>2. /\ Same(got, h) /\ h.step = step /\ h.answer = got.answer
      /\ h.query = got.query /\ h.conn = got.conn /\ h.level = got.level
  BY DEF Shaped, Same, Fields
<1>. HIDE DEF h
<1>3. Meant(h) /\ Shaped(h)
  BY <1>2, SameMeant DEF Same
<1>4. At(h, h.step)
  BY <1>2 DEF At, Same
<1>5. InOrder(h) /\ Held(h) /\ Forgotten(h)
  BY <1>2, <1>4 DEF InOrder, Held, Forgotten, Same, At
<1>. QED  BY <1>1, <1>3, <1>4, <1>5 DEF Moves, CallSafe

\* A call that only takes its next step, with nothing put in the queue.
LEMMA SteppedMoves ==
    ASSUME NEW k \in Clients, NEW got, Shaped(got), Meant(got), NEW step, At(got, step),
           step \notin {"idle", "forgetting"}, got.answer.tag = "None",
           call' = [call EXCEPT ![k] = [got EXCEPT !.step = step]], inbox' = inbox
    PROVE  Moves(k)
<1>. DEFINE h == [got EXCEPT !.step = step]
<1>1. /\ Same(got, h) /\ h.conn = got.conn /\ h.query = got.query /\ h.answer = got.answer
      /\ h.step = step /\ h.level = got.level
  BY DEF Shaped, Same, Fields
<1>2. call' = [call EXCEPT ![k] = h] /\ inbox' = inbox
  OBVIOUS
<1>. HIDE DEF h
<1>3. Meant(h) /\ Shaped(h)
  BY <1>1, SameMeant DEF Same
<1>4. At(h, h.step)
  BY <1>1 DEF At, Same
<1>5. InOrder(h) /\ Held(h) /\ Forgotten(h)
  BY <1>1 DEF InOrder, Held, Forgotten
<1>. QED  BY <1>2, <1>3, <1>4, <1>5 DEF Moves, CallSafe

\* The orders a caller gives.
LEMMA OrdersMade ==
    /\ \A c \in ConnIds :
          /\ Action("Connect", c, None, None) \in Orders
          /\ Action("Disconnect", c, None, None) \in Orders
          /\ \A n \in Nodes : /\ Action("Expand", c, n, None) \in Orders
                              /\ Action("Expand", c, n, FALSE) \in Orders
          /\ \A t \in Browsed : /\ Action("Preview", c, t, FALSE) \in Orders
                                /\ Action("Sort", c, t, 0) \in Orders
          /\ \A t \in Inspected, flag \in BOOLEAN : Action("Describe", c, t, flag) \in Orders
          /\ \A q \in QueryIds, sql \in Statements :
                /\ Action("Run", c, q, sql) \in Orders
                /\ Action("Estimate", c, q, sql) \in Orders
    /\ \A q \in QueryIds : Action("Forget", None, q, None) \in Orders
    /\ \A id \in BusyId : Action("Cancel", None, None, id) \in Orders
    /\ \A terms \in Terms : Action("Search", None, None, terms) \in Orders
    /\ "Load" \in LibraryOps => Action("Load", None, None, None) \in Orders
BY DEF Action, Orders

-----------------------------------------------------------------------------
(* Callers, one handler after another.                                       *)

\* A path that was resolved: what is asked of it is the store's to answer, or it
\* is no such thing.
LEMMA OnTableMoves ==
    ASSUME NEW k \in Clients, NEW got, Shaped(got), Meant(got), got.op \in OnNode,
           got.conn \in ConnIds, got.answer.tag = "None", OnTable(k, got)
    PROVE  Moves(k)
<1>1. CASE (got.op = "children") = (got.item \in Leaves)
  BY <1>1, RefusedMoves DEF OnTable, Failed
<1>2. ASSUME (got.op = "children") # (got.item \in Leaves)
      PROVE  Moves(k)
  <2>. DEFINE op == CASE got.op = "preview" -> "Preview"
                      [] got.op = "describe" -> "Describe"
                      [] got.op = "children" -> "Expand"
              arg == got.op = "describe" /\ got.flag
              floor == IF got.op = "describe" THEN schema[got.item] ELSE 0
              g == [got EXCEPT !.floor = floor]
              a == Action(op, got.conn, got.item, arg)
  <2>1. Dispatch(k, g, "acting", a)
    BY <1>2 DEF OnTable
  <2>. HIDE DEF floor
  <2>2. Same(got, g) /\ g.conn = got.conn /\ g.query = got.query /\ g.answer = got.answer
    BY DEF Shaped, Same, Fields
  <2>. HIDE DEF g
  <2>3. a \in Orders
    <3>1. arg \in BOOLEAN /\ (got.op # "describe" => arg = FALSE)
      OBVIOUS
    <3>. HIDE DEF arg
    <3>2. CASE got.op = "preview"
      <4>1. got.item \in Browsed
        BY <1>2, <3>2 DEF Meant
      <4>. QED  BY <3>1, <3>2, <4>1, OrdersMade
    <3>3. CASE got.op = "describe"
      <4>1. got.item \in Inspected
        BY <1>2, <3>3 DEF Meant
      <4>. QED  BY <3>1, <3>3, <4>1, OrdersMade
    <3>4. CASE got.op = "children"
      BY <3>1, <3>4, OrdersMade DEF Meant, OnNode
    <3>. QED  BY <3>2, <3>3, <3>4 DEF OnNode
  <2>. HIDE DEF a, op, arg
  <2>4. At(g, "acting")
    BY <1>2, <2>2 DEF At, Same, OnNode, OnConn, Meant
  <2>5. Held(g)
    BY <2>2 DEF Held, Same, OnNode
  <2>. QED  BY <2>1, <2>2, <2>3, <2>4, <2>5, SameMeant, DispatchMoves DEF Same
<1>. QED  BY <1>1, <1>2

\* An ancestor is expanded, or the path names nothing, or it is resolved.
LEMMA ResolveMoves ==
    ASSUME NEW k \in Clients, NEW got, Shaped(got), Meant(got), got.op \in OnNode,
           got.conn \in ConnIds, got.answer.tag = "None",
           NEW level \in 1 .. Len(Path[got.item]), Resolve(k, got, level)
    PROVE  Moves(k)
<1>1. Path[got.item] \in Seq(Nodes)
  BY LoopAssumption DEF LoopAssumption, Meant
<1>2. CASE Path[got.item][level] \notin Objects(tree[got.conn])
  BY <1>2, RefusedMoves DEF Resolve, Failed
<1>3. CASE OnTable(k, got)
  BY <1>3, OnTableMoves
<1>4. ASSUME level # Len(Path[got.item]),
             Dispatch(k, [got EXCEPT !.level = level], "expanding",
                      Action("Expand", got.conn, Path[got.item][level], None))
      PROVE  Moves(k)
  <2>. DEFINE g == [got EXCEPT !.level = level]
              a == Action("Expand", got.conn, Path[got.item][level], None)
  <2>1. Dispatch(k, g, "expanding", a)
    BY <1>4
  <2>2. /\ Same(got, g) /\ g.conn = got.conn /\ g.query = got.query /\ g.answer = got.answer
        /\ g.level = level
    BY DEF Shaped, Same, Fields
  <2>. HIDE DEF g
  <2>3. a \in Orders
    <3>1. Path[got.item][level] \in Nodes
      BY <1>1
    <3>. QED  BY <3>1, OrdersMade
  <2>. HIDE DEF a
  <2>4. At(g, "expanding")
    <3>1. level \in 1 .. Len(Path[g.item]) - 1
      BY <1>1, <1>4, <2>2 DEF Same
    <3>. QED  BY <2>2, <3>1 DEF At, Same, OnNode
  <2>5. Held(g)
    BY <2>2 DEF Held, Same, OnNode
  <2>. QED  BY <2>1, <2>2, <2>3, <2>4, <2>5, SameMeant, DispatchMoves DEF Same
<1>. QED  BY <1>2, <1>3, <1>4 DEF Resolve

\* connection, once it is there.
LEMMA ReachesMoves ==
    ASSUME StoreInv, NEW k \in Clients, CallSafe(call[k]), Reaches(k)
    PROVE  Moves(k)
<1>. DEFINE got == call[k]
<1>1. Shaped(got) /\ Meant(got) /\ got.answer.tag = "None" /\ got.step = "opening"
  BY DEF CallSafe, Reaches, At
<1>2. /\ got.op \in OnConn => got.conn \in ConnIds
      /\ got.op \in {"run", "estimate"} => got.query \in QueryIds
  BY <1>1 DEF CallSafe, At
<1>. HIDE DEF got
<1>3. CASE Answered(k, got, Failed("Driver"))
  BY <1>1, <1>3, RefusedMoves DEF Failed
<1>4. CASE /\ got.op = "namespaces"
           /\ Answered(k, got, [tag |-> "Nodes",
                       value |-> {n \in Objects(tree[got.conn]) : Len(Path[n]) = 1}])
  BY <1>1, <1>4, RefusedMoves
<1>5. ASSUME got.op \in {"run", "estimate"}, NEW sql \in Statements,
             Dispatch(k, got, "acting",
                      Action(IF got.op = "run" THEN "Run" ELSE "Estimate",
                             got.conn, got.query, sql))
      PROVE  Moves(k)
  <2>. DEFINE a == Action(IF got.op = "run" THEN "Run" ELSE "Estimate", got.conn, got.query, sql)
  <2>1. a \in Orders
    BY <1>2, <1>5, OrdersMade DEF OnConn
  <2>2. Dispatch(k, got, "acting", a)
    BY <1>5
  <2>. HIDE DEF a
  <2>3. At(got, "acting")
    BY <1>1, <1>2, <1>5 DEF At
  <2>4. Held(got)
    BY <1>1 DEF Held
  <2>. QED  BY <1>1, <2>1, <2>2, <2>3, <2>4, DispatchMoves
<1>6. CASE got.op \in {"preview", "describe", "children"} /\ Resolve(k, got, 1)
  <2>1. got.op \in OnNode /\ got.op \in OnConn
    BY <1>6 DEF OnNode, OnConn
  <2>2. got.item \in Nodes
    BY <1>1, <2>1 DEF Meant
  <2>3. 1 \in 1 .. Len(Path[got.item])
    BY <2>2, LoopAssumption DEF LoopAssumption
  <2>. QED  BY <1>1, <1>2, <1>6, <2>1, <2>3, ResolveMoves
<1>7. CASE got.op = "apply" /\ Answered(k, got, [tag |-> "Statement", value |-> got.item])
  BY <1>1, <1>7, RefusedMoves
<1>. QED  BY <1>3, <1>4, <1>5, <1>6, <1>7 DEF Reaches, OnConnection, got

\* resolve, one ancestor further down.
LEMMA DescendsMoves ==
    ASSUME NEW k \in Clients, CallSafe(call[k]), Descends(k)
    PROVE  Moves(k)
<1>. DEFINE got == call[k]
<1>1. Shaped(got) /\ Meant(got) /\ got.answer.tag = "None" /\ got.step = "expanding"
  BY DEF CallSafe, Descends, At
<1>2. /\ got.op \in OnNode /\ got.conn \in ConnIds
      /\ got.level \in 1 .. Len(Path[got.item]) - 1
  BY <1>1 DEF CallSafe, At, OnConn
<1>3. Answered(k, got, Failed("Driver")) \/ Resolve(k, got, got.level + 1)
  BY DEF Descends
<1>. HIDE DEF got
<1>4. CASE Answered(k, got, Failed("Driver"))
  BY <1>1, <1>4, RefusedMoves DEF Failed
<1>5. CASE Resolve(k, got, got.level + 1)
  <2>1. Path[got.item] \in Seq(Nodes)
    BY <1>1, <1>2, LoopAssumption DEF LoopAssumption, Meant
  <2>2. got.level + 1 \in 1 .. Len(Path[got.item])
    BY <1>2, <2>1
  <2>. QED  BY <1>1, <1>2, <1>5, <2>2, ResolveMoves
<1>. QED  BY <1>3, <1>4, <1>5

\* What is answered for a page that is in the order asked for is in it.
LEMMA PagesInOrder ==
    ASSUME StoreInv, NEW got, got.conn \in ConnIds, got.item \in Browsed, SortOf(got) = Wanted,
           PageAnswer(got).tag = "Page"
    PROVE  \A i \in 1 .. Len(PageAnswer(got).value) : PageAnswer(got).value[i].sort = Wanted
<1>. DEFINE p == previews[got.conn][got.item]
<1>1. GridSafe(p)
  BY DEF StoreInv, GridInv, Tables
<1>2. p.data = "Ready" /\ PageAnswer(got).value = p.rows
  BY DEF PageAnswer, Failed
<1>3. p.sort = Wanted
  BY DEF SortOf
<1>. HIDE DEF p
<1>4. ASSUME NEW i \in 1 .. Len(p.rows)
      PROVE  p.rows[i].sort = Wanted
  <2>1. p.rows[i] = [sort |-> p.sort, place |-> (p.nextOffset - Len(p.rows)) + i]
    BY <1>1, <1>2 DEF GridSafe
  <2>. QED  BY <1>3, <2>1
<1>. QED  BY <1>2, <1>4

\* What is answered of a query that is there holds it.
LEMMA QueryHeld ==
    ASSUME NEW q \in QueryIds, QueryAnswer(q).tag = "Query"
    PROVE  queries[q].data # "absent"
BY DEF QueryAnswer, Failed, Known

\* An estimate's query is forgotten before its answer is given.
LEMMA ForgetEstimateMoves ==
    ASSUME NEW k \in Clients, NEW got, Shaped(got), Meant(got), got.op = "estimate",
           got.conn \in ConnIds, got.query \in QueryIds, NEW answer,
           answer.tag = "Query" => queries[got.query].data # "absent",
           ForgetEstimate(k, got, answer)
    PROVE  Moves(k)
<1>. DEFINE g == [got EXCEPT !.answer = answer]
            a == Action("Forget", None, got.query, None)
<1>1. Dispatch(k, g, "forgetting", a)
  BY DEF ForgetEstimate
<1>2. Same(got, g) /\ g.conn = got.conn /\ g.query = got.query /\ g.answer = answer
  BY DEF Shaped, Same, Fields
<1>. HIDE DEF g
<1>3. a \in Orders
  BY OrdersMade
<1>. HIDE DEF a
<1>4. At(g, "forgetting")
  BY <1>2 DEF At, Same
<1>5. Held(g)
  BY <1>2 DEF Held
<1>. QED  BY <1>1, <1>2, <1>3, <1>4, <1>5, SameMeant, DispatchMoves DEF Same

\* The templates were listed: the one that is named is filled in, once its
\* connection can answer.
LEMMA AppliesMoves ==
    ASSUME NEW k \in Clients, CallSafe(call[k]), call[k].step = "acting", call[k].op = "apply",
           Applies(k, call[k])
    PROVE  Moves(k)
<1>. DEFINE got == call[k]
<1>1. Shaped(got) /\ Meant(got) /\ got.answer.tag = "None" /\ got.op = "apply"
  BY DEF CallSafe, At
<1>2. got.conn \in ConnIds
  BY DEF CallSafe, At, OnConn
<1>3. \/ Answered(k, got, LibraryAnswerOf(templates.data, {}))
      \/ Answered(k, got, Failed("NoSuchTemplate"))
      \/ Answered(k, got, Failed("NoSuchConnection"))
      \/ /\ call' = [call EXCEPT ![k] = [got EXCEPT !.step = "opening"]]
         /\ inbox' = inbox
  BY DEF Applies
<1>. HIDE DEF got
<1>4. \A data, value : LibraryAnswerOf(data, value).tag \in {"List", "Unsupported", "Timeout"}
  BY DEF LibraryAnswerOf, Failed
<1>5. CASE Answered(k, got, LibraryAnswerOf(templates.data, {}))
  BY <1>1, <1>4, <1>5, RefusedMoves
<1>6. CASE Answered(k, got, Failed("NoSuchTemplate")) \/ Answered(k, got, Failed("NoSuchConnection"))
  BY <1>1, <1>6, RefusedMoves DEF Failed
<1>7. CASE /\ call' = [call EXCEPT ![k] = [got EXCEPT !.step = "opening"]]
           /\ inbox' = inbox
  <2>1. At(got, "opening")
    BY <1>1, <1>2 DEF At
  <2>. QED  BY <1>1, <1>7, <2>1, SteppedMoves
<1>. QED  BY <1>3, <1>5, <1>6, <1>7

LEMMA FinishesMoves ==
    ASSUME StoreInv, NEW k \in Clients, CallSafe(call[k]), Finishes(k)
    PROVE  Moves(k)
<1>. DEFINE got == call[k]
<1>1. Shaped(got) /\ Meant(got) /\ got.answer.tag = "None" /\ got.step = "acting"
  BY DEF CallSafe, Finishes, At
<1>2. /\ got.op \in OnConn => got.conn \in ConnIds
      /\ got.op \in {"run", "estimate"} => got.query \in QueryIds
      /\ got.op = "preview" => got.item \in Browsed
  BY <1>1 DEF CallSafe, At
<1>3. \/ /\ got.op \in {"open", "close"}
         /\ Answered(k, got, [tag |-> "Connection", value |-> conns[got.conn].status])
      \/ /\ got.op = "preview"
         /\ IF got.flag /\ SortOf(got) # Wanted
            THEN Dispatch(k, got, "sorting", Action("Sort", got.conn, got.item, 0))
            ELSE Answered(k, got, PageAnswer(got))
      \/ got.op = "describe" /\ Answered(k, got, DefinitionAnswer(got))
      \/ got.op = "children" /\ Answered(k, got, NodesAnswer(got))
      \/ got.op \in {"run", "wait", "cancel"} /\ Answered(k, got, QueryAnswer(got.query))
      \/ got.op = "estimate" /\ ForgetEstimate(k, got, QueryAnswer(got.query))
      \/ got.op = "history" /\ Answered(k, got, LibraryAnswerOf(search.data, search.found))
      \/ got.op = "templates" /\ Answered(k, got, LibraryAnswerOf(templates.data, templates.list))
      \/ got.op = "apply" /\ Applies(k, got)
  BY DEF Finishes
<1>4. ASSUME got.op = "apply", Applies(k, got)
      PROVE  Moves(k)
  BY <1>1, <1>4, AppliesMoves
<1>. HIDE DEF got
<1>5. CASE Answered(k, got, [tag |-> "Connection", value |-> conns[got.conn].status])
  BY <1>1, <1>5, RefusedMoves
<1>6. CASE /\ got.op = "preview"
           /\ IF got.flag /\ SortOf(got) # Wanted
              THEN Dispatch(k, got, "sorting", Action("Sort", got.conn, got.item, 0))
              ELSE Answered(k, got, PageAnswer(got))
  <2>1. got.conn \in ConnIds /\ got.item \in Browsed
    BY <1>2, <1>6 DEF OnConn, OnNode
  <2>2. CASE Dispatch(k, got, "sorting", Action("Sort", got.conn, got.item, 0))
    <3>1. Action("Sort", got.conn, got.item, 0) \in Orders
      BY <2>1, OrdersMade
    <3>2. At(got, "sorting") /\ Held(got)
      BY <1>1, <1>6, <2>1 DEF At, Held
    <3>. QED  BY <1>1, <2>2, <3>1, <3>2, DispatchMoves
  <2>3. CASE Answered(k, got, PageAnswer(got)) /\ ~(got.flag /\ SortOf(got) # Wanted)
    BY <1>1, <1>6, <2>1, <2>3, PagesInOrder, AnsweredMoves
  <2>. QED  BY <1>6, <2>2, <2>3
<1>7. CASE Answered(k, got, DefinitionAnswer(got)) \/ Answered(k, got, NodesAnswer(got))
  <2>1. DefinitionAnswer(got).tag \notin {"Page", "Query"}
    BY DEF DefinitionAnswer, Failed
  <2>2. NodesAnswer(got).tag \notin {"Page", "Query"}
    BY DEF NodesAnswer, Failed
  <2>. QED  BY <1>1, <1>7, <2>1, <2>2, RefusedMoves
<1>8. CASE got.op \in {"run", "wait", "cancel"} /\ Answered(k, got, QueryAnswer(got.query))
  BY <1>1, <1>8, AnsweredMoves
<1>9. CASE got.op = "estimate" /\ ForgetEstimate(k, got, QueryAnswer(got.query))
  BY <1>1, <1>2, <1>9, QueryHeld, ForgetEstimateMoves DEF OnConn
<1>10. CASE \/ Answered(k, got, LibraryAnswerOf(search.data, search.found))
            \/ Answered(k, got, LibraryAnswerOf(templates.data, templates.list))
  <2>1. \A data, value : LibraryAnswerOf(data, value).tag \in {"List", "Unsupported", "Timeout"}
    BY DEF LibraryAnswerOf, Failed
  <2>. QED  BY <1>1, <1>10, <2>1, RefusedMoves
<1>. QED  BY <1>3, <1>4, <1>5, <1>6, <1>7, <1>8, <1>9, <1>10

\* A page that is answered after its sort was asked for is in that order.
LEMMA SortsMoves ==
    ASSUME StoreInv, NEW k \in Clients, CallSafe(call[k]), Sorts(k)
    PROVE  Moves(k)
<1>. DEFINE got == call[k]
            answer == IF SortOf(got) = Wanted THEN PageAnswer(got) ELSE Failed("Unsupported")
<1>1. Shaped(got) /\ Meant(got) /\ got.step = "sorting"
  BY DEF CallSafe, Sorts
<1>2. got.conn \in ConnIds /\ got.item \in Browsed /\ got.op = "preview"
  BY <1>1 DEF CallSafe, At, OnConn, OnNode
<1>3. Answered(k, got, answer)
  BY DEF Sorts, AnswerSorted
<1>. HIDE DEF got
<1>4. ASSUME answer.tag = "Page"
      PROVE  \A i \in 1 .. Len(answer.value) : answer.value[i].sort = Wanted
  <2>1. SortOf(got) = Wanted
    BY <1>4 DEF Failed
  <2>2. answer = PageAnswer(got)
    BY <2>1
  <2>. HIDE DEF answer
  <2>. QED  BY <1>2, <1>4, <2>1, <2>2, PagesInOrder
<1>. HIDE DEF answer
<1>. QED  BY <1>1, <1>2, <1>3, <1>4, AnsweredMoves

\* The estimate's answer is given when its query is gone: it was there, so it was
\* forgotten.
LEMMA ForgetsMoves ==
    ASSUME NEW k \in Clients, CallSafe(call[k]), Forgets(k)
    PROVE  Moves(k)
<1>. DEFINE got == call[k]
<1>1. Shaped(got) /\ Meant(got) /\ got.op = "estimate" /\ Held(got)
  BY DEF CallSafe, Forgets, At
<1>2. ~Known(got.query) /\ Answered(k, got, got.answer)
  BY DEF Forgets
<1>. HIDE DEF got
<1>3. got.answer.tag = "Query" =>
         got.query \in QueryIds /\ queries[got.query].data = "forgotten"
  BY <1>1, <1>2 DEF Held, Known
<1>. QED  BY <1>1, <1>2, <1>3, AnsweredMoves

\* A wait that ends without its answer.
LEMMA GivesUpMoves ==
    ASSUME NEW k \in Clients, CallSafe(call[k]), call[k].step # "idle", NEW tag,
           tag \notin {"Page", "Query"}, GivesUp(k, Failed(tag))
    PROVE  Moves(k)
<1>. DEFINE got == call[k]
<1>1. Shaped(got) /\ Meant(got)
  BY DEF CallSafe
<1>2. /\ got.op = "estimate" => got.conn \in ConnIds /\ got.query \in QueryIds
      /\ got.step = "forgetting" => got.op = "estimate"
  BY DEF CallSafe, At, OnConn
<1>3. \/ got.op = "estimate" /\ ForgetEstimate(k, got, Failed(tag))
      \/ got.op = "wait" /\ Answered(k, got, QueryAnswer(got.query))
      \/ got.step = "forgetting" /\ got.answer.tag # "Query" /\ Answered(k, got, got.answer)
      \/ Answered(k, got, Failed(tag))
  BY DEF GivesUp
<1>. HIDE DEF got
<1>4. Failed(tag).tag \notin {"Page", "Query"}
  BY DEF Failed
<1>5. CASE got.op = "estimate" /\ ForgetEstimate(k, got, Failed(tag))
  BY <1>1, <1>2, <1>4, <1>5, ForgetEstimateMoves
<1>6. CASE got.op = "wait" /\ Answered(k, got, QueryAnswer(got.query))
  BY <1>1, <1>6, AnsweredMoves
<1>7. CASE got.step = "forgetting" /\ got.answer.tag # "Query" /\ Answered(k, got, got.answer)
  BY <1>1, <1>2, <1>7, AnsweredMoves
<1>8. CASE Answered(k, got, Failed(tag))
  BY <1>1, <1>4, <1>8, RefusedMoves
<1>. QED  BY <1>3, <1>5, <1>6, <1>7, <1>8

-----------------------------------------------------------------------------
(* Requests.                                                                *)

\* A request as it is read.
New(r) == [NoCall EXCEPT !.op = r.op, !.item = r.item, !.flag = r.flag]

LEMMA NewIsShaped ==
    ASSUME NEW r
    PROVE  /\ Shaped(New(r)) /\ New(r).op = r.op /\ New(r).item = r.item /\ New(r).flag = r.flag
           /\ New(r).step = "idle" /\ New(r).answer.tag = "None"
BY DEF Shaped, Fields, New, NoCall, NoAnswer

\* What may be asked for, by what it is about.
LEMMA AsksAre ==
    ASSUME NEW r \in PossibleAsks
    PROVE  /\ r.flag \in BOOLEAN
           /\ r.op \in OnNode => r.item \in Nodes
           /\ r.op = "preview" /\ r.item \in Leaves => r.item \in Browsed
           /\ r.op = "describe" /\ r.item \in Leaves => r.item \in Inspected
           /\ r.op = "history" => r.item \in Terms
BY DEF PossibleAsks, OnNode

LEMMA FreshQueries ==
    ASSUME NEW op, NEW q \in NewQuery(op), op \in {"run", "estimate"}
    PROVE  q \in QueryIds
BY DEF NewQuery

LEMMA BeginsMoves ==
    ASSUME StoreInv, NEW k \in Clients, NEW r \in PossibleAsks,
           r.op \in {"templates", "apply"} => "Load" \in LibraryOps,
           Begins(k, New(r))
    PROVE  Moves(k)
<1>. DEFINE new == New(r)
<1>1. /\ Shaped(new) /\ new.op = r.op /\ new.item = r.item /\ new.flag = r.flag
      /\ new.answer.tag = "None"
  BY NewIsShaped
<1>. HIDE DEF new
<1>2. Meant(new)
  BY <1>1, AsksAre DEF Meant
<1>3. ASSUME new.op = "open", NEW c \in ConnIds,
             Dispatch(k, [new EXCEPT !.conn = c], "acting", Action("Connect", c, None, None))
      PROVE  Moves(k)
  <2>. DEFINE g == [new EXCEPT !.conn = c]
  <2>1. Same(new, g) /\ g.answer = new.answer
    BY <1>1 DEF Shaped, Same, Fields
  <2>2. Dispatch(k, g, "acting", Action("Connect", c, None, None))
    BY <1>3
  <2>. HIDE DEF g
  <2>3. At(g, "acting") /\ Held(g)
    BY <1>1, <1>3, <2>1 DEF At, Held, Same, OnConn, OnNode
  <2>4. Action("Connect", c, None, None) \in Orders
    BY OrdersMade
  <2>. QED  BY <1>1, <1>2, <2>1, <2>2, <2>3, <2>4, SameMeant, DispatchMoves DEF Same
<1>4. CASE Answered(k, new, Failed("NoSuchConnection"))
  BY <1>1, <1>2, <1>4, RefusedMoves DEF Failed
<1>5. ASSUME new.op = "close", NEW c \in ConnIds,
             Dispatch(k, [new EXCEPT !.conn = c], "acting", Action("Disconnect", c, None, None))
      PROVE  Moves(k)
  <2>. DEFINE g == [new EXCEPT !.conn = c]
  <2>1. Same(new, g) /\ g.answer = new.answer
    BY <1>1 DEF Shaped, Same, Fields
  <2>2. Dispatch(k, g, "acting", Action("Disconnect", c, None, None))
    BY <1>5
  <2>. HIDE DEF g
  <2>3. At(g, "acting") /\ Held(g)
    BY <1>1, <1>5, <2>1 DEF At, Held, Same, OnConn, OnNode
  <2>4. Action("Disconnect", c, None, None) \in Orders
    BY OrdersMade
  <2>. QED  BY <1>1, <1>2, <2>1, <2>2, <2>3, <2>4, SameMeant, DispatchMoves DEF Same
<1>6. ASSUME NEW c \in ConnIds, NEW q \in NewQuery(new.op),
             call' = [call EXCEPT ![k] = [new EXCEPT !.conn = c, !.query = q, !.step = "opening"]],
             inbox' = inbox
      PROVE  Moves(k)
  <2>. DEFINE g == [new EXCEPT !.conn = c, !.query = q]
  <2>1. /\ Same(new, g) /\ g.answer = new.answer /\ g.conn = c /\ g.query = q
        /\ [new EXCEPT !.conn = c, !.query = q, !.step = "opening"] = [g EXCEPT !.step = "opening"]
    BY <1>1 DEF Shaped, Same, Fields
  <2>2. call' = [call EXCEPT ![k] = [g EXCEPT !.step = "opening"]]
    BY <1>6, <2>1
  <2>. HIDE DEF g
  <2>3. At(g, "opening")
    BY <1>1, <1>6, <2>1, FreshQueries DEF At, Same
  <2>. QED  BY <1>1, <1>2, <1>6, <2>1, <2>2, <2>3, SameMeant, SteppedMoves DEF Same
<1>7. ASSUME new.op \in {"status", "wait", "cancel"}, NEW q \in QueryIds,
             LET got == [new EXCEPT !.query = IF Known(q) THEN q ELSE None]
             IN \/ Answered(k, got, QueryAnswer(q))
                \/ /\ call' = [call EXCEPT ![k] = [got EXCEPT !.step = "acting"]]
                   /\ inbox' = inbox
                \/ \E b \in Rows(QueryOwner(q)) :
                      Dispatch(k, got, "acting", Action("Cancel", None, None, b.id))
      PROVE  Moves(k)
  <2>. DEFINE named == IF Known(q) THEN q ELSE None
              g == [new EXCEPT !.query = named]
  <2>1. Same(new, g) /\ g.answer = new.answer
    BY <1>1 DEF Shaped, Same, Fields
  <2>2. \/ Answered(k, g, QueryAnswer(q))
        \/ /\ call' = [call EXCEPT ![k] = [g EXCEPT !.step = "acting"]]
           /\ inbox' = inbox
        \/ \E b \in Rows(QueryOwner(q)) :
              Dispatch(k, g, "acting", Action("Cancel", None, None, b.id))
    BY <1>7
  <2>. HIDE DEF g, named
  <2>3. At(g, "acting") /\ Held(g) /\ Meant(g) /\ Shaped(g)
    BY <1>1, <1>2, <1>7, <2>1, SameMeant DEF At, Held, Same, OnConn, OnNode
  <2>4. CASE Answered(k, g, QueryAnswer(q))
    BY <1>7, <2>1, <2>3, <2>4, AnsweredMoves DEF Same
  <2>5. CASE call' = [call EXCEPT ![k] = [g EXCEPT !.step = "acting"]] /\ inbox' = inbox
    BY <1>1, <2>1, <2>3, <2>5, SteppedMoves
  <2>6. ASSUME NEW b \in Rows(QueryOwner(q)),
               Dispatch(k, g, "acting", Action("Cancel", None, None, b.id))
        PROVE  Moves(k)
    <3>1. b.id \in BusyId
      BY DEF Rows, StoreInv, TypeInv, TypeOK, KernelTypes
    <3>2. Action("Cancel", None, None, b.id) \in Orders
      BY <3>1, OrdersMade
    <3>. QED  BY <2>3, <2>6, <3>2, DispatchMoves
  <2>. QED  BY <2>2, <2>4, <2>5, <2>6
<1>8. CASE /\ new.op = "history"
           /\ Dispatch(k, new, "acting", Action("Search", None, None, new.item))
  <2>1. Action("Search", None, None, new.item) \in Orders
    BY <1>1, <1>8, AsksAre, OrdersMade
  <2>2. At(new, "acting") /\ Held(new)
    BY <1>1, <1>8 DEF At, Held, OnConn, OnNode
  <2>. QED  BY <1>1, <1>2, <1>8, <2>1, <2>2, DispatchMoves
<1>9. CASE /\ new.op = "templates"
           /\ Dispatch(k, new, "acting", Action("Load", None, None, None))
  <2>1. Action("Load", None, None, None) \in Orders
    BY <1>1, <1>9, OrdersMade
  <2>2. At(new, "acting") /\ Held(new)
    BY <1>1, <1>9 DEF At, Held, OnConn, OnNode
  <2>. QED  BY <1>1, <1>2, <1>9, <2>1, <2>2, DispatchMoves
<1>10. ASSUME new.op = "apply", NEW c \in ConnIds,
              Dispatch(k, [new EXCEPT !.conn = c], "acting", Action("Load", None, None, None))
       PROVE  Moves(k)
  <2>. DEFINE g == [new EXCEPT !.conn = c]
  <2>1. Same(new, g) /\ g.answer = new.answer /\ g.conn = c
    BY <1>1 DEF Shaped, Same, Fields
  <2>2. Dispatch(k, g, "acting", Action("Load", None, None, None))
    BY <1>10
  <2>. HIDE DEF g
  <2>3. At(g, "acting") /\ Held(g)
    BY <1>1, <1>10, <2>1 DEF At, Held, Same, OnConn, OnNode
  <2>4. Action("Load", None, None, None) \in Orders
    BY <1>1, <1>10, OrdersMade
  <2>. QED  BY <1>1, <1>2, <2>1, <2>2, <2>3, <2>4, SameMeant, DispatchMoves DEF Same
<1>11. \/ \E c \in ConnIds :
             /\ new.op = "open"
             /\ Dispatch(k, [new EXCEPT !.conn = c], "acting", Action("Connect", c, None, None))
       \/ \E c \in ConnIds :
             \/ Answered(k, new, Failed("NoSuchConnection"))
             \/ /\ new.op = "close"
                /\ Dispatch(k, [new EXCEPT !.conn = c], "acting",
                            Action("Disconnect", c, None, None))
             \/ \E q \in NewQuery(new.op) :
                   /\ call' = [call EXCEPT ![k] = [new EXCEPT !.conn = c, !.query = q,
                                                              !.step = "opening"]]
                   /\ inbox' = inbox
       \/ /\ new.op \in {"status", "wait", "cancel"}
          /\ \E q \in QueryIds :
                LET got == [new EXCEPT !.query = IF Known(q) THEN q ELSE None]
                IN \/ Answered(k, got, QueryAnswer(q))
                   \/ /\ call' = [call EXCEPT ![k] = [got EXCEPT !.step = "acting"]]
                      /\ inbox' = inbox
                   \/ \E b \in Rows(QueryOwner(q)) :
                         Dispatch(k, got, "acting", Action("Cancel", None, None, b.id))
       \/ /\ new.op = "history"
          /\ Dispatch(k, new, "acting", Action("Search", None, None, new.item))
       \/ /\ new.op = "templates"
          /\ Dispatch(k, new, "acting", Action("Load", None, None, None))
       \/ /\ new.op = "apply"
          /\ \E c \in ConnIds :
                Dispatch(k, [new EXCEPT !.conn = c], "acting", Action("Load", None, None, None))
  BY ZenonT(60) DEF Begins, new
<1>. QED  BY <1>3, <1>4, <1>5, <1>6, <1>7, <1>8, <1>9, <1>10, <1>11

LEMMA AskMoves ==
    ASSUME StoreInv, ServiceInv, NEW k \in Clients, Ask(k)
    PROVE  Moves(k)
<1>1. PICK r \in scene.asks : Begins(k, [NoCall EXCEPT !.op = r.op, !.item = r.item, !.flag = r.flag])
  BY DEF Ask
<1>2. r \in PossibleAsks /\ (r.op \in {"templates", "apply"} => "Load" \in LibraryOps)
  BY ServiceAssumption DEF ServiceAssumption, ServiceInv
<1>3. Begins(k, New(r))
  BY <1>1 DEF New
<1>. QED  BY <1>2, <1>3, BeginsMoves

\* A gesture is one of the store's actions too, about something that is on the screen.
LEMMA GesturesAreOrders ==
    ASSUME StoreInv, NEW op \in PossibleGestures, Possible(op)
    PROVE  \E a \in Orders : inbox' = Append(inbox, a)
<1>1. CASE op = "Toggle"
  <2>1. PICK c \in ConnIds, n \in Nodes \ Leaves : Enqueue(op, c, n, None)
    BY <1>1 DEF Possible, Ops
  <2>2. Action(op, c, n, None) \in Orders
    BY <1>1 DEF Action, Orders
  <2>. QED  BY <2>1, <2>2 DEF Enqueue
<1>2. CASE op \in {"Preview", "Sort", "LoadMore", "ForgetPreview"}
  <2>1. PICK c \in ConnIds, t \in Browsed : Enqueue(op, c, t, 0)
    BY <1>2 DEF Possible, Ops
  <2>2. Action(op, c, t, 0) \in Orders
    BY <1>2 DEF Action, Orders
  <2>. QED  BY <2>1, <2>2 DEF Enqueue
<1>3. CASE op = "Describe"
  <2>1. PICK c \in ConnIds, t \in Inspected : Enqueue(op, c, t, TRUE)
    BY <1>3 DEF Possible, Ops
  <2>. QED  BY <1>3, <2>1, OrdersMade DEF Enqueue
<1>4. CASE op = "Disconnect"
  <2>1. PICK c \in ConnIds : Enqueue(op, c, None, None)
    BY <1>4 DEF Possible, Ops
  <2>. QED  BY <1>4, <2>1, OrdersMade DEF Enqueue
<1>5. CASE op = "Cancel"
  <2>1. PICK b \in busy : Enqueue(op, None, None, b.id)
    BY <1>5 DEF Possible, Ops
  <2>2. b.id \in BusyId
    BY DEF StoreInv, TypeInv, TypeOK, KernelTypes
  <2>. QED  BY <1>5, <2>1, <2>2, OrdersMade DEF Enqueue
<1>6. CASE op \in {"Approve", "Forget"}
  <2>1. PICK q \in QueryIds : Enqueue(op, None, q, None)
    BY <1>6 DEF Possible, Ops
  <2>2. Action(op, None, q, None) \in Orders
    BY <1>6 DEF Action, Orders
  <2>. QED  BY <2>1, <2>2 DEF Enqueue
<1>7. CASE op = "Search"
  <2>1. PICK terms \in Terms : Enqueue(op, None, None, terms)
    BY <1>7 DEF Possible, Ops
  <2>. QED  BY <1>7, <2>1, OrdersMade DEF Enqueue
<1>8. CASE op \in LibraryOps
  <2>1. op \in Ops
    BY <1>8, ConstantsAssumption DEF ConstantsAssumption, Ops
  <2>2. PICK item \in Items(op) : Enqueue(op, None, item, None)
    BY <2>1 DEF Possible, Ops
  <2>3. Action(op, None, item, None) \in Orders
    BY <1>8, <2>1 DEF Items, Action, Orders
  <2>. QED  BY <2>2, <2>3 DEF Enqueue
<1>9. CASE op = "Quit"
  <2>1. Enqueue(op, None, None, None)
    BY <1>9 DEF Possible, Ops
  <2>2. Action(op, None, None, None) \in Orders
    BY <1>9 DEF Action, Orders
  <2>. QED  BY <2>1, <2>2 DEF Enqueue
<1>. QED  BY <1>1, <1>2, <1>3, <1>4, <1>5, <1>6, <1>7, <1>8, <1>9 DEF PossibleGestures

-----------------------------------------------------------------------------
(* The loop, its tasks and what is around them: the callers only look on.    *)

\* A call that has only looked on is as safe as it was.
LEMMA SeesSafe ==
    ASSUME StoreInv, [Next]_vars, NEW k \in Clients, CallSafe(call[k]),
           call'[k] = Sees(call[k])
    PROVE  CallSafe(call[k])'
<1>. DEFINE got == call[k]
            x == got.seen \/ FailsNow(got)
            h == [got EXCEPT !.seen = x]
<1>1. call'[k] = h
  BY DEF Sees
<1>2. Shaped(got)
  BY DEF CallSafe
<1>3. /\ Same(got, h) /\ h.conn = got.conn /\ h.query = got.query /\ h.answer = got.answer
      /\ h.step = got.step /\ h.level = got.level
  <2>. HIDE DEF x
  <2>. QED  BY <1>2 DEF Shaped, Same, Fields
<1>. HIDE DEF h, got
<1>4. Meant(got) /\ At(got, got.step) /\ InOrder(got) /\ Held(got) /\ Forgotten(got)
  BY DEF CallSafe, got
<1>5. Shaped(h) /\ Meant(h)
  BY <1>3, <1>4, SameMeant DEF Same
<1>6. At(h, h.step) /\ InOrder(h)
  BY <1>3, <1>4 DEF At, InOrder, Same
<1>7. ASSUME h.op = "estimate", h.answer.tag = "Query"
      PROVE  h.query \in QueryIds /\ queries'[h.query].data # "absent"
  BY <1>3, <1>4, <1>7, QueriesStay DEF Held, Same, StoreInv
<1>8. ASSUME h.step = "idle", h.op = "estimate", h.answer.tag = "Query"
      PROVE  queries'[h.query].data = "forgotten"
  BY <1>3, <1>4, <1>8, QueriesStay DEF Held, Forgotten, Same, StoreInv
<1>9. Shaped(call'[k]) /\ Meant(call'[k]) /\ At(call'[k], call'[k].step) /\ InOrder(call'[k])
  BY <1>1, <1>5, <1>6
<1>10. (Shaped(call[k]) /\ Meant(call[k]) /\ At(call[k], call[k].step) /\ InOrder(call[k]))'
  BY <1>9 DEF Shaped, Meant, At, InOrder
<1>11. (Held(call[k]) /\ Forgotten(call[k]))'
  BY <1>1, <1>7, <1>8 DEF Held, Forgotten
<1>. QED  BY <1>10, <1>11 DEF CallSafe

LEMMA WatchedSafe ==
    ASSUME StoreInv, ServiceInv, [Next]_vars, Watched, inbox' \in Seq(Orders), applied' \in Nat
    PROVE  ServiceInv'
<1>1. call' = [k \in Clients |-> Sees(call[k])] /\ scene' = scene
  BY DEF Watched, countVars
<1>2. call' = [k \in Clients |-> call'[k]]
  BY <1>1
<1>3. ASSUME NEW k \in Clients
      PROVE  CallSafe(call[k])'
  <2>1. call'[k] = Sees(call[k])
    BY <1>1
  <2>. QED  BY <2>1, SeesSafe DEF ServiceInv
<1>. QED  BY <1>1, <1>2, <1>3 DEF ServiceInv

LEMMA ServiceStarts ==
    ASSUME ServiceInit
    PROVE  StoreInv /\ ServiceInv
<1>1. StoreInv
  BY UnderwayStore DEF ServiceInit
<1>2. inbox \in Seq(Orders) /\ applied \in Nat /\ scene \in Scenes
  BY DEF ServiceInit, Underway
<1>3. call = [k \in Clients |-> NoCall]
  BY DEF ServiceInit
<1>4. CallSafe(NoCall)
  BY DEF CallSafe, Shaped, Fields, NoCall, NoAnswer, Meant, At, InOrder, Held, Forgotten,
         OnNode, OnConn
<1>. QED  BY <1>1, <1>2, <1>3, <1>4 DEF ServiceInv

LEMMA ServiceStays ==
    ASSUME StoreInv, ServiceInv, [ServiceNext]_serviceVars
    PROVE  StoreInv' /\ ServiceInv'
<1>1. [Next]_vars
  BY ServiceIsTheStores DEF StoreInv
<1>2. StoreInv'
  BY <1>1, NextStore
<1>3. ASSUME Loop
      PROVE  ServiceInv'
  <2>1. Watched /\ (Apply \/ Handle)
    BY <1>3 DEF Loop
  <2>2. inbox' \in Seq(Orders) /\ applied' \in Nat
    BY <2>1, OrdersTaken DEF Apply, Handle, queueVars, ServiceInv
  <2>. QED  BY <1>1, <2>1, <2>2, WatchedSafe
<1>4. ASSUME (\E id \in BusyId : Tasks(id)) \/ Pool \/ Elsewhere
      PROVE  ServiceInv'
  <2>1. Watched /\ inbox' = inbox /\ applied' = applied
    BY <1>4 DEF Tasks, Pool, Elsewhere, queueVars
  <2>. QED  BY <1>1, <2>1, WatchedSafe DEF ServiceInv
<1>5. ASSUME NEW k \in Clients, Ask(k) \/ Proceeds(k) \/ TimesOut(k) \/ Stopped(k)
      PROVE  ServiceInv'
  <2>1. CallSafe(call[k])
    BY DEF ServiceInv
  <2>2. Moves(k)
    <3>1. Ask(k) => Moves(k)
      BY AskMoves
    <3>2. Proceeds(k) => Moves(k)
      BY <2>1, ReachesMoves, DescendsMoves, FinishesMoves, SortsMoves, ForgetsMoves DEF Proceeds
    <3>3. TimesOut(k) => Moves(k)
      BY <2>1, GivesUpMoves DEF TimesOut
    <3>4. Stopped(k) => Moves(k)
      BY <2>1, GivesUpMoves DEF Stopped
    <3>. QED  BY <1>5, <3>1, <3>2, <3>3, <3>4
  <2>3. UNCHANGED <<queries, applied, scene>>
    BY <1>5 DEF Ask, Proceeds, TimesOut, Stopped, countVars, vars, queryVars
  <2>. QED  BY <2>2, <2>3, MovesSafe
<1>6. ASSUME Gesture \/ UNCHANGED serviceVars
      PROVE  ServiceInv'
  <2>1. UNCHANGED <<queries, applied, scene, call>>
    BY <1>6 DEF Gesture, serviceVars, queueVars, countVars, vars, queryVars
  <2>2. inbox' \in Seq(Orders)
    <3>1. ASSUME Gesture
          PROVE  inbox' \in Seq(Orders)
      <4>1. PICK op \in scene.gestures : Possible(op)
        BY <3>1 DEF Gesture
      <4>2. op \in PossibleGestures
        BY ServiceAssumption DEF ServiceAssumption, ServiceInv
      <4>3. PICK a \in Orders : inbox' = Append(inbox, a)
        BY <4>1, <4>2, GesturesAreOrders
      <4>. QED  BY <4>3 DEF ServiceInv
    <3>2. UNCHANGED serviceVars => inbox' \in Seq(Orders)
      BY DEF serviceVars, queueVars, ServiceInv
    <3>. QED  BY <1>6, <3>1, <3>2
  <2>3. ASSUME NEW k \in Clients
        PROVE  CallSafe(call[k])'
    BY <2>1 DEF ServiceInv, CallSafe, Shaped, Meant, At, InOrder, Held, Forgotten
  <2>. QED  BY <2>1, <2>2, <2>3 DEF ServiceInv
<1>. QED  BY <1>2, <1>3, <1>4, <1>5, <1>6 DEF ServiceNext

-----------------------------------------------------------------------------
(* What is promised of a shared session.                                    *)

LEMMA ServiceInvariant == ServiceSpec => [](StoreInv /\ ServiceInv)
<1>1. ServiceInit => StoreInv /\ ServiceInv
  BY ServiceStarts
<1>2. StoreInv /\ ServiceInv /\ [ServiceNext]_serviceVars => (StoreInv /\ ServiceInv)'
  BY ServiceStays
<1>. QED  BY <1>1, <1>2, PTL DEF ServiceSpec

\* Whatever the callers ask, a person does, and whichever waits end, time out or
\* are cut short, a session they share only ever takes the store's own steps
\* (serve.rs and wait.rs change nothing but by dispatching an Action).
THEOREM ServiceTakesTheStoresSteps == ServiceSpec => [][Next]_vars
<1>1. StoreInv /\ ServiceInv /\ [ServiceNext]_serviceVars => [Next]_vars
  BY ServiceIsTheStores DEF StoreInv
<1>. QED  BY <1>1, ServiceInvariant, PTL DEF ServiceSpec

\* What is always so of the store is always so of a shared session, which starts with
\* connections already open: statements are sent at most once and only when they may
\* be, whatever spins is answered, a closed connection is quiet, definitions are
\* fresh, grids are whole, what was saved is listed, and no history row is left
\* running (store.rs, as the API drives it).
THEOREM ServiceKeepsTheStoresPromises ==
    ServiceSpec => [](/\ ReadyMeansSession /\ AtMostOnce /\ NothingUnapproved
                      /\ QuestionBeforeMoney /\ SpinnersAreAnswered /\ ClosedIsQuiet
                      /\ RefreshIsFresh /\ GridIsContiguous /\ SaveIsListed
                      /\ RunsComeToAnEnd)
<1>1. StoreInv => ReadyMeansSession
  BY DEF StoreInv, ConnInv, ConnSafe, ReadyMeansSession
<1>2. StoreInv => AtMostOnce
  BY DEF StoreInv, QueryInv, QuerySafe, AtMostOnce
<1>3. StoreInv => NothingUnapproved
  BY DEF StoreInv, QueryInv, QuerySafe, MayRun, NothingUnapproved
<1>4. StoreInv => QuestionBeforeMoney
  BY DEF StoreInv, QueryInv, QuerySafe, Askable, Mine, QuestionBeforeMoney
<1>5. StoreInv => SpinnersAreAnswered
  BY SpinsAreAnswered DEF StoreInv
<1>6. StoreInv => ClosedIsQuiet
  BY QuietAreQuiet DEF StoreInv, SpinInv
<1>7. StoreInv => RefreshIsFresh
  BY FreshAreFresh DEF StoreInv
<1>8. StoreInv => GridIsContiguous
  BY GridsAreOneStretch DEF StoreInv
<1>9. StoreInv => SaveIsListed
  BY SavesAreListed DEF StoreInv
<1>10. StoreInv => RunsComeToAnEnd
  BY RunsAreOver DEF StoreInv
<1>. QED
  BY <1>1, <1>2, <1>3, <1>4, <1>5, <1>6, <1>7, <1>8, <1>9, <1>10, ServiceInvariant, PTL

\* A caller who asked for an order is never handed rows in another one (serve.rs,
\* preview and sorted): the preview is looked at as it is when it is answered, and
\* a grid's rows are in the order it says.
THEOREM AskedOrderIsGiven == ServiceSpec => []SortedPageIsSorted
<1>1. ServiceInv => SortedPageIsSorted
  BY DEF ServiceInv, CallSafe, InOrder, SortedPageIsSorted
<1>. QED  BY <1>1, ServiceInvariant, PTL

\* An estimate that was answered left nothing in the store (serve.rs, estimate): its
\* query was forgotten and no busy row speaks for it, and neither comes back.
THEOREM EstimateIsForgotten == ServiceSpec => []EstimateLeavesNothing
<1>1. StoreInv /\ ServiceInv => EstimateLeavesNothing
  <2>. SUFFICES ASSUME StoreInv, ServiceInv, NEW k \in Clients,
                       call[k].op = "estimate", call[k].step = "idle",
                       call[k].answer.tag = "Query"
                PROVE  /\ ~Known(call[k].query)
                       /\ Rows(QueryOwner(call[k].query)) = {}
    BY DEF EstimateLeavesNothing
  <2>1. queries[call[k].query].data = "forgotten"
    BY DEF ServiceInv, CallSafe, Forgotten
  <2>2. ~Known(call[k].query)
    BY <2>1 DEF Known
  <2>3. \A b \in busy : b.owner = QueryOwner(call[k].query) => Known(call[k].query)
    BY DEF StoreInv, QuietInv, RowsAreKnown, QueryOwner
  <2>. QED  BY <2>2, <2>3 DEF Rows
<1>. QED  BY <1>1, ServiceInvariant, PTL

\* What no step of the store may do, none does in a shared session: a history row
\* that has its outcome stays, a drawn row stays, an answer is shown only under the
\* words it answers, and a disconnect takes no rows but its own connection's.
THEOREM ServiceKeepsWhatWasDone ==
    ServiceSpec => SettledOnce /\ DrawnRowsStay /\ NewestSearchWins /\ DisconnectIsLocal
<1>. DEFINE Settles == \A r \in history : r.outcome # None => r \in history'
            Draws ==
              \A c \in ConnIds, t \in Tables :
                 LET p == previews[c][t]
                     q == previews'[c][t]
                 IN p.data = "Ready" /\ q.data = "Ready" /\ q.lastError # "reshaped" =>
                       /\ Len(p.rows) <= Len(q.rows)
                       /\ \A i \in DOMAIN p.rows : q.rows[i] = p.rows[i]
            Shows == search'.found \notin {None, search.found} => search'.found = search'.terms
            Local ==
              \A c \in ConnIds :
                 conns[c].status # "Closed" /\ conns'[c].status = "Closed" =>
                    \A b \in busy : ConnOf(b.owner) # c => b \in busy'
<1>1. StoreInv /\ [Next]_vars => [Settles]_history
  BY SettledStays DEF StoreInv
<1>2. StoreInv /\ [Next]_vars => [Draws]_previews
  <2>. SUFFICES ASSUME StoreInv, [Next]_vars, NEW c \in ConnIds, NEW t \in Tables,
                       previews[c][t].data = "Ready", previews'[c][t].data = "Ready",
                       previews'[c][t].lastError # "reshaped"
                PROVE  /\ Len(previews[c][t].rows) <= Len(previews'[c][t].rows)
                       /\ \A i \in DOMAIN previews[c][t].rows :
                             previews'[c][t].rows[i] = previews[c][t].rows[i]
    OBVIOUS
  <2>1. DOMAIN previews[c][t].rows = 1 .. Len(previews[c][t].rows)
    BY DEF StoreInv, TypeInv, TypeOK, PreviewTypes, Preview
  <2>. QED  BY <2>1, NextGrid DEF StoreInv
<1>3. StoreInv /\ [Next]_vars => [Shows]_search
  BY NextSearches DEF ShowsItsOwn, StoreInv
<1>4. StoreInv /\ [Next]_vars => [Local]_<<conns, busy>>
  BY DisconnectedStays DEF StoreInv, SpinInv
<1>. HIDE DEF Settles, Draws, Shows, Local
<1>5. ServiceSpec => [][Settles]_history
  BY <1>1, ServiceInvariant, ServiceTakesTheStoresSteps, PTL
<1>6. ServiceSpec => [][Draws]_previews
  BY <1>2, ServiceInvariant, ServiceTakesTheStoresSteps, PTL
<1>7. ServiceSpec => [][Shows]_search
  BY <1>3, ServiceInvariant, ServiceTakesTheStoresSteps, PTL
<1>8. ServiceSpec => [][Local]_<<conns, busy>>
  BY <1>4, ServiceInvariant, ServiceTakesTheStoresSteps, PTL
<1>. QED
  BY <1>5, <1>6, <1>7, <1>8
  DEF SettledOnce, DrawnRowsStay, NewestSearchWins, DisconnectIsLocal, Settles, Draws, Shows, Local

=============================================================================
