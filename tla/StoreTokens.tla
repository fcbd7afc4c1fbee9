---------------------------- MODULE StoreTokens ----------------------------
(***************************************************************************)
(* Whatever spins has a reply coming, and a connection that is closed is      *)
(* quiet, for every value of the constants.                                  *)
(*                                                                         *)
(* Both rest on the bookkeeping.  A token -- a task or an event, by its owner, *)
(* its id and its request -- leaves the store only with a row of its own       *)
(* owner: ids are used once, so that aborting the tasks of some rows aborts    *)
(* nobody else's.                                                           *)
(***************************************************************************)
EXTENDS StoreSafety

Token(x) == [owner |-> x.owner, id |-> x.id, req |-> x.req]

Tokens == {Token(t) : t \in tasks} \cup {Token(events[i]) : i \in 1 .. Len(events)}

\* What is on its way for an owner.
Coming(owner) == \E k \in Tokens : k.owner = owner

\* Ids are used once: a row, a task and an event of one id are the same work's, a
\* task's row is there, and the event of a task still running has not been sent.
RowIds ==
    /\ \A b \in busy : b.id < nextId
    /\ \A b, d \in busy : b.id = d.id => b = d

TaskIds ==
    /\ \A t, u \in tasks : t.id = u.id => t = u
    /\ \A t \in tasks : [id |-> t.id, owner |-> t.owner] \in busy

EventIds ==
    \A i \in 1 .. Len(events) :
        LET e == events[i]
        IN /\ e.id # None => e.id < nextId
           /\ \A t \in tasks : t.id # e.id
           /\ \A b \in busy : b.id = e.id => b.owner = e.owner

Ids == RowIds /\ TaskIds /\ EventIds

\* What a preview waits for is on its way, and it waits for nothing when nothing
\* is shown of it.
PreviewSpin(c, t) ==
    LET p == previews[c][t]
    IN /\ p.data = "Loading" => p.pending # None
       /\ p.data = "absent" => p.pending = None
       /\ p.pending # None =>
             [owner |-> PreviewOwner(c, t), id |-> p.pending.busy, req |-> p.pending.page]
                \in Tokens

PreviewSpins == \A c \in ConnIds, t \in Tables : PreviewSpin(c, t)

TokenInv == Ids /\ PreviewSpins

ConnSpins == \A c \in ConnIds : conns[c].status = "Connecting" => Coming(ConnectionOwner(c))
NodeSpins ==
    \A c \in ConnIds, n \in Nodes : tree[c].status[n] = "Loading" => Coming(NodeOwner(c, n))
DefinitionSpins ==
    \A c \in ConnIds, t \in Tables :
       definitions[c][t].data = "Loading" => Coming(DefinitionOwner(c, t))
QuerySpins == \A q \in QueryIds : queries[q].data = "Loading" => Coming(QueryOwner(q))

\* A query's row goes with the query.
RowsAreKnown == \A b \in busy : b.owner.kind = "Query" => Known(b.owner.item)

Quieted(c) ==
    conns[c].status = "Closed" =>
        /\ \A b \in busy : ConnOf(b.owner) # c
        /\ \A t \in Tables : previews[c][t].data = "absent" /\ definitions[c][t].data = "absent"

QuietInv == RowsAreKnown /\ \A c \in ConnIds : Quieted(c)

-----------------------------------------------------------------------------
(* The bookkeeping.                                                         *)

\* A task that gets its answer is the same token.
LEMMA GotKeeps ==
    ASSUME NEW t \in Task, NEW answer
    PROVE  /\ [t EXCEPT !.got = answer].id = t.id
           /\ [t EXCEPT !.got = answer].owner = t.owner
           /\ [t EXCEPT !.got = answer].req = t.req
BY DEF Task, ConnectionTask, NodeTask, PreviewTask, DefinitionTask, QueryTask,
       TemplatesTask, HistoryTask, TaskOf

LEMMA EventHasId ==
    ASSUME NEW e \in Event
    PROVE  e.id \in BusyId \cup {None}
BY DEF Event, ConnectionEvent, NodeEvent, PreviewEvent, DefinitionEvent, QueryEvent,
       RunEvent, TemplatesEvent, HistoryEvent, EventOf

\* What every lemma about ids needs of the types.
LEMMA IdTypes ==
    ASSUME TypeInv
    PROVE  /\ nextId \in Nat
           /\ tasks \in SUBSET Task
           /\ events \in Seq(Event) /\ Len(events) \in Nat
           /\ \A b \in busy : b.id \in BusyId /\ b.id \in Nat /\ b.id # None
           /\ \A t \in tasks : t.id \in BusyId /\ t.id \in Nat /\ t.id # None /\ t.id < nextId
           /\ \A i \in 1 .. Len(events) : events[i].id \in Nat \/ events[i].id = None
<1>1. MaxBusy \in Nat /\ None \notin BusyId /\ BusyId \subseteq Nat
  BY ConstantsAssumption, AbsentAssumption DEF ConstantsAssumption, AbsentAssumption, BusyId
<1>2. /\ nextId \in Nat /\ tasks \in SUBSET Task /\ events \in Seq(Event)
      /\ \A b \in busy : b.id \in BusyId
      /\ \A t \in tasks : t.id \in BusyId /\ t.id < nextId
  BY DEF TypeInv, TypeOK, KernelTypes, JobIds
<1>3. Len(events) \in Nat /\ \A i \in 1 .. Len(events) : events[i] \in Event
  BY <1>2
<1>4. \A i \in 1 .. Len(events) : events[i].id \in BusyId \cup {None}
  BY <1>3, EventHasId
<1>. QED  BY <1>1, <1>2, <1>3, <1>4

LEMMA BeginIds ==
    ASSUME TypeInv, Ids, NEW ids, NEW owner, NEW req, Begin(ids, owner, req)
    PROVE  Ids'
<1>1. /\ nextId \in Nat /\ nextId' = nextId + 1 /\ events' = events
      /\ \A b \in busy' : b \in busy \/ b = [id |-> nextId, owner |-> owner]
      /\ \A t \in tasks' : \/ t \in tasks
                           \/ t = [id |-> nextId, owner |-> owner, req |-> req, got |-> None]
  BY IdTypes DEF Begin
<1>2. /\ \A b \in busy : b.id \in Nat /\ b.id < nextId
      /\ \A t \in tasks : t.id \in Nat /\ t.id < nextId
  BY IdTypes DEF Ids, RowIds
<1>3. RowIds'
  BY <1>1, <1>2 DEF Ids, RowIds
<1>4. TaskIds'
  <2>1. \A t, u \in tasks' : t.id = u.id => t = u
    BY <1>1, <1>2 DEF Ids, TaskIds
  <2>2. ASSUME NEW t \in tasks'
        PROVE  [id |-> t.id, owner |-> t.owner] \in busy'
    <3>1. CASE t = [id |-> nextId, owner |-> owner, req |-> req, got |-> None]
      BY <3>1 DEF Begin
    <3>2. CASE t \in tasks /\ t.id \notin ids
      <4>. DEFINE b == [id |-> t.id, owner |-> t.owner]
      <4>1. b \in busy /\ b.id \notin ids
        BY <3>2 DEF Ids, TaskIds
      <4>. HIDE DEF b
      <4>2. b \in busy'
        BY <4>1 DEF Begin
      <4>. QED  BY <4>2 DEF b
    <3>. QED  BY <3>1, <3>2 DEF Begin
  <2>. QED  BY <2>1, <2>2 DEF TaskIds
<1>5. EventIds'
  <2>1. \A i \in 1 .. Len(events) : events[i].id # nextId
    BY <1>1, IdTypes, AbsentAssumption, ConstantsAssumption
    DEF Ids, EventIds, Begin, BusyId, AbsentAssumption, ConstantsAssumption
  <2>2. \A i \in 1 .. Len(events) : events[i].id # None => events[i].id < nextId + 1
    BY <1>1, IdTypes DEF Ids, EventIds
  <2>. QED  BY <1>1, <2>1, <2>2 DEF Ids, EventIds
<1>. QED  BY <1>3, <1>4, <1>5 DEF Ids

LEMMA DropIds ==
    ASSUME Ids, NEW ids, DropTasks(ids)
    PROVE  Ids'
<1>1. RowIds'
  BY DEF Ids, RowIds, DropTasks
<1>2. TaskIds'
  BY DEF Ids, TaskIds, DropTasks
<1>3. EventIds'
  BY DEF Ids, EventIds, DropTasks
<1>. QED  BY <1>1, <1>2, <1>3 DEF Ids

LEMMA SendIds ==
    ASSUME TypeInv, Ids, NEW t \in tasks, NEW result, Send(t, result)
    PROVE  Ids'
<1>. DEFINE m == [id |-> t.id, owner |-> t.owner, req |-> t.req, result |-> result]
<1>1. /\ events' = Append(events, m) /\ m.id = t.id /\ m.owner = t.owner
      /\ tasks' = tasks \ {t} /\ busy' = busy /\ nextId' = nextId
  BY DEF Send
<1>. HIDE DEF m
<1>2. RowIds'
  BY <1>1 DEF Ids, RowIds
<1>3. TaskIds'
  BY <1>1 DEF Ids, TaskIds
<1>4. EventIds'
  <2>1. Len(events) \in Nat /\ Len(events') = Len(events) + 1
    BY <1>1, IdTypes
  <2>2. \A i \in 1 .. Len(events) : events'[i] = events[i]
    BY <1>1, IdTypes
  <2>3. events'[Len(events) + 1] = m
    BY <1>1, IdTypes
  <2>4. \A i \in 1 .. Len(events') : i \in 1 .. Len(events) \/ i = Len(events) + 1
    BY <2>1
  <2>5. m.id < nextId /\ \A u \in tasks' : u.id # m.id
    BY <1>1, IdTypes DEF Ids, TaskIds
  <2>6. \A b \in busy : b.id = m.id => b.owner = m.owner
    <3>. SUFFICES ASSUME NEW b \in busy, b.id = t.id
                  PROVE  b.owner = t.owner
      BY <1>1
    <3>. DEFINE d == [id |-> t.id, owner |-> t.owner]
    <3>1. d \in busy /\ d.id = t.id /\ d.owner = t.owner
      BY DEF Ids, TaskIds
    <3>. HIDE DEF d
    <3>. QED  BY <3>1 DEF Ids, RowIds
  <2>. QED  BY <1>1, <2>2, <2>3, <2>4, <2>5, <2>6 DEF Ids, EventIds
<1>. QED  BY <1>2, <1>3, <1>4 DEF Ids

LEMMA AnswerIds ==
    ASSUME TypeInv, Ids, NEW t \in tasks, NEW result, Answer(t, result)
    PROVE  Ids'
<1>. DEFINE u == [t EXCEPT !.got = result]
<1>1. u.id = t.id /\ u.owner = t.owner
  BY IdTypes, GotKeeps
<1>2. tasks' = (tasks \ {t}) \cup {u} /\ UNCHANGED <<busy, events, nextId>>
  BY DEF Answer
<1>. HIDE DEF u
<1>3. RowIds' /\ TaskIds' /\ EventIds'
  BY <1>1, <1>2 DEF Ids, RowIds, TaskIds, EventIds
<1>. QED  BY <1>3 DEF Ids

\* So is one that is told what its job answered.
LEMMA ToldKeeps ==
    ASSUME NEW t \in Task, NEW j, NEW answer
    PROVE  /\ Told(t, j, answer).id = t.id
           /\ Told(t, j, answer).owner = t.owner
           /\ Told(t, j, answer).req = t.req
BY GotKeeps DEF Told

LEMMA ToldIds ==
    ASSUME TypeInv, Ids, NEW j, NEW answer, tasks' = {Told(t, j, answer) : t \in tasks},
           UNCHANGED <<busy, events, nextId>>
    PROVE  Ids'
<1>1. \A t \in tasks : /\ Told(t, j, answer).id = t.id
                       /\ Told(t, j, answer).owner = t.owner
  BY IdTypes, ToldKeeps
<1>2. RowIds' /\ TaskIds' /\ EventIds'
  BY <1>1 DEF Ids, RowIds, TaskIds, EventIds
<1>. QED  BY <1>2 DEF Ids

\* A call of the blocking pool that nobody waits for sends an event of no id.
LEMMA NoticeIds ==
    ASSUME TypeInv, Ids, NEW m, m.id = None, events' = Append(events, m),
           UNCHANGED <<busy, tasks, nextId>>
    PROVE  Ids'
<1>1. RowIds' /\ TaskIds'
  BY DEF Ids, RowIds, TaskIds
<1>2. EventIds'
  <2>1. Len(events) \in Nat /\ Len(events') = Len(events) + 1
    BY IdTypes
  <2>2. \A i \in 1 .. Len(events) : events'[i] = events[i]
    BY IdTypes
  <2>3. events'[Len(events) + 1] = m
    BY IdTypes
  <2>4. \A i \in 1 .. Len(events') : i \in 1 .. Len(events) \/ i = Len(events) + 1
    BY <2>1
  <2>5. /\ \A t \in tasks : t.id # None
        /\ \A b \in busy : b.id # None
    BY IdTypes
  <2>. QED  BY <2>2, <2>3, <2>4, <2>5 DEF Ids, EventIds
<1>. QED  BY <1>1, <1>2 DEF Ids

LEMMA ReceiveIds ==
    ASSUME TypeInv, Ids, NEW kind, Receive(kind)
    PROVE  Ids'
<1>1. /\ events # <<>> /\ events' = Tail(events) /\ nextId' = nextId /\ tasks' = tasks
      /\ busy' = {b \in busy : b.id # Head(events).id}
  BY DEF Receive
<1>2. /\ Len(events) \in Nat /\ Len(events) >= 1 /\ Len(events') = Len(events) - 1
      /\ Head(events) = events[1]
  BY <1>1, IdTypes
<1>3. \A i \in 1 .. Len(events') : i + 1 \in 1 .. Len(events) /\ events'[i] = events[i + 1]
  BY <1>1, <1>2, IdTypes
<1>4. \A t \in tasks : t.id # Head(events).id
  BY <1>2 DEF Ids, EventIds
<1>5. RowIds'
  BY <1>1 DEF Ids, RowIds
<1>6. TaskIds'
  BY <1>1, <1>4 DEF Ids, TaskIds
<1>7. EventIds'
  BY <1>1, <1>3 DEF Ids, EventIds
<1>. QED  BY <1>5, <1>6, <1>7 DEF Ids

-----------------------------------------------------------------------------
(* Every step of the store does one thing to its bookkeeping.                *)

Bookkeeping ==
    \/ UNCHANGED kernelVars
    \/ \E ids, owner, req : Begin(ids, owner, req)
    \/ \E ids : DropTasks(ids)
    \/ \E t \in tasks : \E result : Send(t, result) \/ Answer(t, result)
    \/ \E kind : Receive(kind)
    \/ \E j, answer : /\ tasks' = {Told(t, j, answer) : t \in tasks}
                      /\ UNCHANGED <<busy, events, nextId>>
    \/ \E m : /\ m.id = None
              /\ events' = Append(events, m)
              /\ UNCHANGED <<busy, tasks, nextId>>

\* What is dispatched starts work or aborts it.
Opening ==
    \/ UNCHANGED kernelVars
    \/ \E ids, owner, req : Begin(ids, owner, req)
    \/ \E ids : DropTasks(ids)

LEMMA DispatchedBooks ==
    ASSUME Dispatched
    PROVE  Opening
<1>1. \A c \in ConnIds : Connect(c) \/ Disconnect(c) => Opening
  BY DEF Connect, Disconnect, Opening
<1>2. \A c \in ConnIds, any \in BOOLEAN : OpenConnectionRow(c, any) => Opening
  BY DEF OpenConnectionRow, Opening
<1>3. \A c \in ConnIds, n \in Nodes, any \in BOOLEAN : OpenNode(c, n, any) => Opening
  BY DEF OpenNode, Opening
<1>4. \A c, t, p, page, append : FetchPage(c, t, p, page, append) => Opening
  BY DEF FetchPage, Opening
<1>5. \A c \in ConnIds, t \in Browsed : PreviewTable(c, t) \/ LoadMore(c, t) => Opening
  BY <1>4 DEF PreviewTable, LoadMore
<1>6. \A c \in ConnIds, t \in Browsed, column \in Nat : SortPreview(c, t, column) => Opening
  BY <1>4 DEF SortPreview
<1>7. \A c \in ConnIds, t \in Browsed : ForgetPreview(c, t) => Opening
  BY DEF ForgetPreview, Opening
<1>8. \A c \in ConnIds, t \in Inspected, refresh \in BOOLEAN :
        DescribeTable(c, t, refresh) \/ ForgetDefinition(c, t) => Opening
  BY DEF DescribeTable, ForgetDefinition, Opening
<1>9. \A c \in ConnIds, q \in QueryIds, sql \in Statements :
        RunQuery(c, q, sql) \/ EstimateQuery(c, q, sql) => Opening
  BY DEF RunQuery, EstimateQuery, Opening
<1>10. \A q \in QueryIds : ApproveQuery(q) \/ ForgetQuery(q) => Opening
  BY DEF ApproveQuery, ForgetQuery, Opening
<1>11. \A op \in LibraryOps : \A item \in Items(op) : WithLibrary(op, item) => Opening
  BY DEF WithLibrary, Opening
<1>12. \A terms \in Terms : SearchHistory(terms) => Opening
  BY DEF SearchHistory, Opening
<1>13. \A b \in busy : Cancel(b) => Opening
  BY DEF Cancel, Opening
<1>. QED
  BY <1>1, <1>2, <1>3, <1>5, <1>6, <1>7, <1>8, <1>9, <1>10, <1>11, <1>12, <1>13, Zenon
  DEF Dispatched

LEMMA NextBooks ==
    ASSUME [Next]_vars
    PROVE  Bookkeeping
<1>1. CASE Dispatched
  BY <1>1, DispatchedBooks DEF Opening, Bookkeeping
<1>2. CASE Handled
  BY <1>2 DEF Handled, Connected, Expanded, Previewed, Described, Ran, Recorded,
              LibraryAnswered, Searched, Bookkeeping
<1>3. ASSUME NEW t \in tasks, Works(t)
      PROVE  Bookkeeping
  <2>1. ConnectAnswers(t) \/ ExpandAnswers(t) \/ PreviewAnswers(t) => Bookkeeping
    BY DEF ConnectAnswers, ExpandAnswers, PreviewAnswers, Bookkeeping
  <2>2. DescribeAnswers(t) \/ DescribeSends(t) => Bookkeeping
    BY DEF DescribeAnswers, DescribeSends, Bookkeeping
  <2>3. ServerExecutes(t) \/ QueryStops(t) \/ QuerySends(t) => Bookkeeping
    BY DEF ServerExecutes, QueryStops, QuerySends, Bookkeeping
  <2>4. LibrarySends(t) \/ SearchAnswers(t) => Bookkeeping
    BY DEF LibrarySends, SearchAnswers, Bookkeeping
  <2>. QED  BY <1>3, <2>1, <2>2, <2>3, <2>4 DEF Works
<1>4. CASE Blocking
  <2>1. ASSUME NEW w \in writing, RowInserted(w)
        PROVE  Bookkeeping
    <3>1. PICK tag \in {"Ok", "Err"} :
            events' = Append(events, [id |-> None, owner |-> RunOwner(w.query),
                                      req |-> w.run, result |-> [tag |-> tag]])
      BY <2>1, Zenon DEF RowInserted
    <3>2. UNCHANGED <<busy, tasks, nextId>>
      BY <2>1 DEF RowInserted
    <3>. DEFINE m == [id |-> None, owner |-> RunOwner(w.query), req |-> w.run,
                      result |-> [tag |-> tag]]
    <3>3. m.id = None /\ events' = Append(events, m)
      BY <3>1
    <3>. HIDE DEF m
    <3>. QED  BY <3>2, <3>3 DEF Bookkeeping
  <2>2. \A w \in writing : RowSettled(w) => Bookkeeping
    BY DEF RowSettled, Bookkeeping
  <2>3. \A j \in jobs : JobWrites(j) => Bookkeeping
    BY DEF JobWrites, Bookkeeping
  <2>4. ASSUME NEW j \in jobs, JobReads(j)
        PROVE  Bookkeeping
    <3>1. PICK tag \in {"Ok", "Err"} :
            tasks' = {Told(t, j, [tag |-> tag, wrote |-> j.wrote, item |-> j.item,
                                  list |-> ListFromFile]) : t \in tasks}
      BY <2>4, Zenon DEF JobReads
    <3>. DEFINE answer == [tag |-> tag, wrote |-> j.wrote, item |-> j.item,
                           list |-> ListFromFile]
    <3>2. tasks' = {Told(t, j, answer) : t \in tasks}
      BY <3>1
    <3>. HIDE DEF answer
    <3>3. UNCHANGED <<busy, events, nextId>>
      BY <2>4 DEF JobReads
    <3>. QED  BY <3>2, <3>3, Zenon DEF Bookkeeping
  <2>. QED  BY <1>4, <2>1, <2>2, <2>3, <2>4 DEF Blocking
<1>5. CASE Outside
  BY <1>5 DEF Outside, ActorDies, Alter, SchemaChanges, Bookkeeping
<1>6. CASE UNCHANGED vars
  BY <1>6 DEF vars, Bookkeeping
<1>. QED  BY <1>1, <1>2, <1>3, <1>4, <1>5, <1>6 DEF Next

LEMMA NextIds ==
    ASSUME TypeInv, Ids, [Next]_vars
    PROVE  Ids'
<1>1. UNCHANGED kernelVars => Ids'
  BY DEF kernelVars, Ids, RowIds, TaskIds, EventIds
<1>. QED
  BY <1>1, NextBooks, BeginIds, DropIds, SendIds, AnswerIds, ReceiveIds, ToldIds, NoticeIds
  DEF Bookkeeping

-----------------------------------------------------------------------------
(* What the bookkeeping does to the tokens of an owner.                      *)

\* All of them stay.
Spares(o) == \A k \in Tokens : k.owner = o => k \in Tokens'

LEMMA TokenKinds ==
    ASSUME NEW k \in Tokens
    PROVE  \/ \E t \in tasks : k = Token(t) /\ k.owner = t.owner /\ k.id = t.id
           \/ \E i \in 1 .. Len(events) : /\ k = Token(events[i])
                                          /\ k.owner = events[i].owner
                                          /\ k.id = events[i].id
BY DEF Tokens, Token

LEMMA BeginGives ==
    ASSUME NEW ids, NEW owner, NEW req, Begin(ids, owner, req)
    PROVE  [owner |-> owner, id |-> nextId, req |-> req] \in Tokens'
<1>. DEFINE t == [id |-> nextId, owner |-> owner, req |-> req, got |-> None]
<1>1. t \in tasks' /\ Token(t) = [owner |-> owner, id |-> nextId, req |-> req]
  BY DEF Begin, Token
<1>. HIDE DEF t
<1>. QED  BY <1>1 DEF Tokens

LEMMA BeginSpares ==
    ASSUME NEW ids, NEW owner, NEW req, Begin(ids, owner, req), NEW o,
           \A t \in tasks : t.id \in ids => t.owner # o
    PROVE  Spares(o)
<1>1. \A t \in tasks : t.owner = o => t \in tasks'
  BY DEF Begin
<1>2. events' = events
  BY DEF Begin
<1>. QED  BY <1>1, <1>2, TokenKinds DEF Spares, Tokens

LEMMA DropSpares ==
    ASSUME NEW ids, DropTasks(ids), NEW o, \A t \in tasks : t.id \in ids => t.owner # o
    PROVE  Spares(o)
<1>1. \A t \in tasks : t.owner = o => t \in tasks'
  BY DEF DropTasks
<1>2. events' = events
  BY DEF DropTasks
<1>. QED  BY <1>1, <1>2, TokenKinds DEF Spares, Tokens

LEMMA AppendSpares ==
    ASSUME events \in Seq(Event), NEW m, events' = Append(events, m)
    PROVE  /\ Token(m) \in Tokens'
           /\ \A i \in 1 .. Len(events) : Token(events[i]) \in Tokens'
<1>1. Len(events) \in Nat /\ Len(events') = Len(events) + 1
  OBVIOUS
<1>2. \A i \in 1 .. Len(events) : events'[i] = events[i] /\ i \in 1 .. Len(events')
  BY <1>1
<1>3. events'[Len(events) + 1] = m /\ Len(events) + 1 \in 1 .. Len(events')
  BY <1>1
<1>4. \A i \in 1 .. Len(events') : Token(events'[i]) \in Tokens'
  BY DEF Tokens
<1>. QED  BY <1>2, <1>3, <1>4

LEMMA SendSpares ==
    ASSUME TypeInv, NEW t \in tasks, NEW result, Send(t, result), NEW o
    PROVE  Spares(o)
<1>. DEFINE m == [id |-> t.id, owner |-> t.owner, req |-> t.req, result |-> result]
<1>1. events' = Append(events, m) /\ tasks' = tasks \ {t} /\ Token(m) = Token(t)
  BY DEF Send, Token
<1>. HIDE DEF m
<1>2. /\ Token(t) \in Tokens'
      /\ \A i \in 1 .. Len(events) : Token(events[i]) \in Tokens'
  BY <1>1, IdTypes, AppendSpares
<1>3. \A u \in tasks : Token(u) \in Tokens'
  BY <1>1, <1>2 DEF Tokens
<1>. QED  BY <1>2, <1>3, TokenKinds DEF Spares

LEMMA NoticeSpares ==
    ASSUME TypeInv, NEW m, events' = Append(events, m), UNCHANGED tasks, NEW o
    PROVE  Spares(o)
<1>1. \A i \in 1 .. Len(events) : Token(events[i]) \in Tokens'
  BY IdTypes, AppendSpares
<1>2. \A u \in tasks : Token(u) \in Tokens'
  BY DEF Tokens
<1>. QED  BY <1>1, <1>2, TokenKinds DEF Spares

LEMMA AnswerSpares ==
    ASSUME TypeInv, NEW t \in tasks, NEW result, Answer(t, result), NEW o
    PROVE  Spares(o)
<1>. DEFINE u == [t EXCEPT !.got = result]
<1>1. Token(u) = Token(t)
  BY IdTypes, GotKeeps DEF Token
<1>2. tasks' = (tasks \ {t}) \cup {u} /\ events' = events
  BY DEF Answer
<1>. HIDE DEF u
<1>3. \A x \in tasks : Token(x) \in Tokens'
  BY <1>1, <1>2 DEF Tokens
<1>4. \A i \in 1 .. Len(events) : Token(events[i]) \in Tokens'
  BY <1>2 DEF Tokens
<1>. QED  BY <1>3, <1>4, TokenKinds DEF Spares

LEMMA ToldSpares ==
    ASSUME TypeInv, NEW j, NEW answer, tasks' = {Told(t, j, answer) : t \in tasks},
           UNCHANGED events, NEW o
    PROVE  Spares(o)
<1>1. \A t \in tasks : Token(Told(t, j, answer)) = Token(t)
  BY IdTypes, ToldKeeps DEF Token
<1>2. \A t \in tasks : Token(t) \in Tokens'
  BY <1>1 DEF Tokens
<1>3. \A i \in 1 .. Len(events) : Token(events[i]) \in Tokens'
  BY DEF Tokens
<1>. QED  BY <1>2, <1>3, TokenKinds DEF Spares

LEMMA ReceiveSpares ==
    ASSUME TypeInv, NEW kind, Receive(kind), NEW k \in Tokens, k # Token(Head(events))
    PROVE  k \in Tokens'
<1>1. events # <<>> /\ events' = Tail(events) /\ tasks' = tasks
  BY DEF Receive
<1>2. /\ Len(events) \in Nat /\ Len(events) >= 1 /\ Len(events') = Len(events) - 1
      /\ Head(events) = events[1]
  BY <1>1, IdTypes
<1>3. \A i \in 1 .. Len(events) :
        i # 1 => i - 1 \in 1 .. Len(events') /\ events'[i - 1] = events[i]
  BY <1>1, <1>2, IdTypes
<1>4. \A t \in tasks : Token(t) \in Tokens'
  BY <1>1 DEF Tokens
<1>5. \A i \in 1 .. Len(events') : Token(events'[i]) \in Tokens'
  BY DEF Tokens
<1>. QED  BY <1>2, <1>3, <1>4, <1>5, TokenKinds

LEMMA SameSpares ==
    ASSUME UNCHANGED <<tasks, events>>, NEW o
    PROVE  Spares(o)
BY DEF Spares, Tokens

-----------------------------------------------------------------------------
(* Aborting the tasks of some rows aborts nobody else's.                     *)

LEMMA RowsOnly ==
    ASSUME Ids, NEW rows \in SUBSET busy, NEW t \in tasks, t.id \in IdsOf(rows)
    PROVE  \E b \in rows : b.owner = t.owner
<1>. DEFINE d == [id |-> t.id, owner |-> t.owner]
<1>1. d \in busy /\ d.id = t.id /\ d.owner = t.owner
  BY DEF Ids, TaskIds
<1>. HIDE DEF d
<1>2. PICK b \in rows : b.id = t.id
  BY DEF IdsOf
<1>3. b = d
  BY <1>1, <1>2 DEF Ids, RowIds
<1>. QED  BY <1>1, <1>3

\* The request a preview waits for is its own.
LEMMA PendingOnly ==
    ASSUME Ids, NEW c \in ConnIds, NEW t \in Tables, PreviewSpin(c, t),
           NEW u \in tasks, u.id \in PendingIds(previews[c][t])
    PROVE  u.owner = PreviewOwner(c, t)
<1>. DEFINE p == previews[c][t]
            k == [owner |-> PreviewOwner(c, t), id |-> p.pending.busy, req |-> p.pending.page]
<1>1. k \in Tokens /\ u.id = p.pending.busy
  BY DEF PendingIds, PreviewSpin
<1>2. k.owner = PreviewOwner(c, t) /\ k.id = p.pending.busy
  OBVIOUS
<1>. HIDE DEF k, p
<1>3. CASE \E x \in tasks : k.owner = x.owner /\ k.id = x.id
  BY <1>1, <1>2, <1>3 DEF Ids, TaskIds
<1>4. CASE \E i \in 1 .. Len(events) : k.owner = events[i].owner /\ k.id = events[i].id
  BY <1>1, <1>2, <1>4 DEF Ids, EventIds
<1>. QED  BY <1>1, <1>3, <1>4, TokenKinds

-----------------------------------------------------------------------------
(* What the three ways of asking for a page have in common.                  *)

LEMMA UnpagedFields ==
    ASSUME NEW p \in Preview
    PROVE  /\ Unpaged(p) \in Preview
           /\ Unpaged(p).data = "Loading" /\ Unpaged(p).exhausted = FALSE
           /\ Unpaged(p).pending = p.pending /\ Unpaged(p).sort = p.sort
BY UnpagedTyped DEF Unpaged, Preview

\* A first page is asked for by a preview that shows nothing, in its order; a next
\* one by a preview whose rows it is to follow.
LEMMA Fetches ==
    ASSUME TypeInv, NEW c \in ConnIds, NEW t \in Tables,
           \/ PreviewTable(c, t) \/ LoadMore(c, t)
           \/ \E column \in Nat : SortPreview(c, t, column)
    PROVE  \E p \in Preview, page \in Page, append \in BOOLEAN :
              /\ FetchPage(c, t, p, page, append)
              /\ p.pending \in {None, previews[c][t].pending}
              /\ append =>
                    /\ p = previews[c][t] /\ p.data = "Ready"
                    /\ page.sort = p.page.sort /\ page.offset = p.nextOffset
              /\ ~append =>
                    /\ p.data = "Loading" /\ p.exhausted = FALSE
                    /\ page = FirstPage(p.sort)
<1>. DEFINE p == previews[c][t]
<1>1. p \in Preview /\ p.sort \in Sort \cup {None}
  BY DEF TypeInv, TypeOK, PreviewTypes, Preview
<1>2. CASE PreviewTable(c, t) /\ p.data = "absent"
  <2>. DEFINE q == Unpaged(NoPreview)
  <2>1. /\ q \in Preview /\ q.data = "Loading" /\ q.exhausted = FALSE
        /\ q.pending = None /\ q.sort = None
    BY NoPreviewTyped, UnpagedFields DEF NoPreview
  <2>2. FetchPage(c, t, q, FirstPage(q.sort), FALSE)
    BY <1>2, <2>1 DEF PreviewTable
  <2>3. FirstPage(q.sort) \in Page
    BY <2>1, FirstPageTyped
  <2>. HIDE DEF q
  <2>. QED  BY <2>1, <2>2, <2>3
<1>3. CASE PreviewTable(c, t) /\ p.data = "Failed"
  <2>. DEFINE u == Unpaged(p)  q == [u EXCEPT !.page = FirstPage(p.sort)]
  <2>1. u \in Preview /\ u.data = "Loading" /\ u.exhausted = FALSE
        /\ u.pending = p.pending /\ u.sort = p.sort
    BY <1>1, UnpagedFields
  <2>2. FirstPage(p.sort) \in Page
    BY <1>1, FirstPageTyped
  <2>3. FetchPage(c, t, q, FirstPage(p.sort), FALSE)
    BY <1>3 DEF PreviewTable
  <2>. HIDE DEF u
  <2>4. q \in Preview /\ q.data = "Loading" /\ q.exhausted = FALSE
        /\ q.pending = p.pending /\ q.sort = p.sort
    BY <2>1, <2>2 DEF Preview
  <2>. HIDE DEF q, p
  <2>. QED  BY <2>2, <2>3, <2>4 DEF p
<1>4. ASSUME NEW column \in Nat, SortPreview(c, t, column)
      PROVE  \E q \in Preview, page \in Page :
                /\ FetchPage(c, t, q, page, FALSE)
                /\ q.pending = p.pending
                /\ q.data = "Loading" /\ q.exhausted = FALSE
                /\ page = FirstPage(q.sort)
  <2>. DEFINE u == Unpaged(p)  sort == Toggled(p.sort, column)
              q == [u EXCEPT !.sort = sort]
  <2>1. u \in Preview /\ u.data = "Loading" /\ u.exhausted = FALSE
        /\ u.pending = p.pending
    BY <1>1, UnpagedFields
  <2>2. sort \in Sort \cup {None} /\ FirstPage(sort) \in Page
    BY ToggledTyped, FirstPageTyped
  <2>3. FetchPage(c, t, q, FirstPage(sort), FALSE)
    BY <1>4 DEF SortPreview
  <2>. HIDE DEF u, sort
  <2>4. q \in Preview /\ q.data = "Loading" /\ q.exhausted = FALSE
        /\ q.pending = p.pending /\ q.sort = sort
    BY <2>1, <2>2 DEF Preview
  <2>. HIDE DEF q, p
  <2>. QED  BY <2>2, <2>3, <2>4
<1>5. CASE LoadMore(c, t)
  <2>. DEFINE page == [p.page EXCEPT !.offset = p.nextOffset]
  <2>1. p.page \in Page /\ p.nextOffset \in Nat
    BY <1>1 DEF Preview
  <2>2. page \in Page /\ page.sort = p.page.sort /\ page.offset = p.nextOffset
    BY <2>1 DEF Page
  <2>3. FetchPage(c, t, p, page, TRUE) /\ p.data = "Ready"
    BY <1>5 DEF LoadMore
  <2>. HIDE DEF page
  <2>. QED  BY <1>1, <2>2, <2>3
<1>. QED  BY <1>2, <1>3, <1>4, <1>5 DEF PreviewTable

LEMMA FetchLeaves ==
    ASSUME TypeInv, NEW c \in ConnIds, NEW t \in Tables, NEW p \in Preview,
           NEW page \in Page, NEW append \in BOOLEAN, FetchPage(c, t, p, page, append)
    PROVE  /\ previews'[c][t].pending = [busy |-> nextId, page |-> page, append |-> append]
           /\ previews'[c][t].pending # None
           /\ previews'[c][t].data = p.data /\ previews'[c][t].sort = p.sort
           /\ previews'[c][t].page = p.page /\ previews'[c][t].nextOffset = p.nextOffset
           /\ previews'[c][t].rows = p.rows /\ previews'[c][t].exhausted = p.exhausted
           /\ previews'[c][t].lastError = p.lastError
           /\ \A d \in ConnIds, u \in Tables :
                 d # c \/ u # t => previews'[d][u] = previews[d][u]
           /\ Begin(PendingIds(p), PreviewOwner(c, t), page)
<1>. DEFINE pending == [busy |-> nextId, page |-> page, append |-> append]
            q == [p EXCEPT !.pending = pending]
<1>1. nextId \in BusyId
  BY IdTypes, ConstantsAssumption DEF FetchPage, Begin, BusyId, ConstantsAssumption
<1>2. pending \in PendingPage
  BY <1>1 DEF PendingPage
<1>3. pending # None
  BY <1>2, AbsentAssumption DEF AbsentAssumption
<1>4. previews' = [previews EXCEPT ![c][t] = q] /\ previews \in [ConnIds -> [Tables -> Preview]]
  BY DEF FetchPage, TypeInv, TypeOK, PreviewTypes
<1>. HIDE DEF pending
<1>5. /\ q.pending = pending /\ q.data = p.data /\ q.sort = p.sort /\ q.page = p.page
      /\ q.nextOffset = p.nextOffset /\ q.rows = p.rows /\ q.exhausted = p.exhausted
      /\ q.lastError = p.lastError
  BY DEF Preview
<1>. HIDE DEF q
<1>6. /\ previews'[c][t] = q
      /\ \A d \in ConnIds, u \in Tables : d # c \/ u # t => previews'[d][u] = previews[d][u]
  BY <1>4
<1>. QED  BY <1>3, <1>5, <1>6 DEF FetchPage, pending

-----------------------------------------------------------------------------
(* Only these take a token of an owner's: what is dispatched about it, and the  *)
(* handler of the token itself.                                              *)

AsksForPage(c, t) ==
    \/ PreviewTable(c, t) \/ LoadMore(c, t)
    \/ \E column \in Nat : SortPreview(c, t, column)

TakenFrom(o) ==
    \/ \E c \in ConnIds : Disconnect(c) /\ \E b \in Orphaned(c) : b.owner = o
    \/ \E c \in ConnIds, t \in Browsed :
          o = PreviewOwner(c, t) /\ (AsksForPage(c, t) \/ ForgetPreview(c, t))
    \/ \E c \in ConnIds, t \in Inspected :
          /\ o = DefinitionOwner(c, t)
          /\ \/ \E refresh \in BOOLEAN : DescribeTable(c, t, refresh)
             \/ ForgetDefinition(c, t)
    \/ \E q \in QueryIds : o = QueryOwner(q) /\ ForgetQuery(q)
    \/ \E terms \in Terms : o = HistoryOwner /\ SearchHistory(terms)
    \/ \E b \in busy : b.owner = o /\ Cancel(b)

LEMMA PageSpares ==
    ASSUME TypeInv, TokenInv, NEW c \in ConnIds, NEW t \in Tables, AsksForPage(c, t),
           NEW o, o # PreviewOwner(c, t)
    PROVE  Spares(o)
<1>1. PICK p \in Preview, page \in Page, append \in BOOLEAN :
        FetchPage(c, t, p, page, append) /\ p.pending \in {None, previews[c][t].pending}
  BY Fetches DEF AsksForPage
<1>2. Begin(PendingIds(p), PreviewOwner(c, t), page)
  BY <1>1, FetchLeaves
<1>3. PendingIds(p) \subseteq PendingIds(previews[c][t])
  BY <1>1 DEF PendingIds
<1>4. \A u \in tasks : u.id \in PendingIds(p) => u.owner # o
  BY <1>3, PendingOnly DEF TokenInv, PreviewSpins
<1>. QED  BY <1>2, <1>4, BeginSpares

LEMMA DropRowsSpares ==
    ASSUME Ids, NEW rows \in SUBSET busy, DropTasks(IdsOf(rows)), NEW o,
           \A b \in rows : b.owner # o
    PROVE  Spares(o)
BY RowsOnly, DropSpares

LEMMA BeginRowsSpares ==
    ASSUME Ids, NEW rows \in SUBSET busy, NEW owner, NEW req,
           Begin(IdsOf(rows), owner, req), NEW o, \A b \in rows : b.owner # o
    PROVE  Spares(o)
BY RowsOnly, BeginSpares

LEMMA DispatchedSpares ==
    ASSUME TypeInv, TokenInv, Dispatched, NEW o
    PROVE  Spares(o) \/ TakenFrom(o)
<1>. SUFFICES ASSUME ~TakenFrom(o)
              PROVE  Spares(o)
  OBVIOUS
<1>1. Ids /\ Browsed \subseteq Tables /\ Inspected \subseteq Tables
  BY DEF TokenInv, Tables
<1>2. \A owner, req : Begin({}, owner, req) => Spares(o)
  BY BeginSpares
<1>3. UNCHANGED kernelVars => Spares(o)
  BY SameSpares DEF kernelVars
<1>4. \A owner : Rows(owner) \in SUBSET busy /\ \A b \in Rows(owner) : b.owner = owner
  BY DEF Rows
<1>5. \A c \in ConnIds : Connect(c) => Spares(o)
  BY <1>2, <1>3 DEF Connect
<1>6. \A c \in ConnIds : Disconnect(c) => Spares(o)
  <2>1. \A c \in ConnIds : Orphaned(c) \in SUBSET busy
    BY DEF Orphaned
  <2>. QED  BY <1>1, <2>1, DropRowsSpares DEF Disconnect, TakenFrom
<1>7. \A c \in ConnIds, any \in BOOLEAN : OpenConnectionRow(c, any) => Spares(o)
  BY <1>3 DEF OpenConnectionRow
<1>8. \A c \in ConnIds, n \in Nodes, any \in BOOLEAN : OpenNode(c, n, any) => Spares(o)
  BY <1>2, <1>3 DEF OpenNode
<1>9. \A c \in ConnIds, t \in Browsed : AsksForPage(c, t) => Spares(o)
  BY <1>1, PageSpares DEF TakenFrom
<1>10. \A c \in ConnIds, t \in Browsed : ForgetPreview(c, t) => Spares(o)
  <2>. SUFFICES ASSUME NEW c \in ConnIds, NEW t \in Browsed, ForgetPreview(c, t)
                PROVE  Spares(o)
    OBVIOUS
  <2>1. o # PreviewOwner(c, t)
    BY DEF TakenFrom
  <2>2. \A u \in tasks : u.id \in PendingIds(previews[c][t]) => u.owner # o
    BY <1>1, <2>1, PendingOnly DEF TokenInv, PreviewSpins
  <2>. QED  BY <2>2, DropSpares DEF ForgetPreview
<1>11. \A c \in ConnIds, t \in Inspected, refresh \in BOOLEAN :
         DescribeTable(c, t, refresh) => Spares(o)
  <2>. SUFFICES ASSUME NEW c \in ConnIds, NEW t \in Inspected, NEW refresh \in BOOLEAN,
                       DescribeTable(c, t, refresh)
                PROVE  Spares(o)
    OBVIOUS
  <2>1. o # DefinitionOwner(c, t)
    BY DEF TakenFrom
  <2>2. Begin(IdsOf(Rows(DefinitionOwner(c, t))), DefinitionOwner(c, t), None)
    BY DEF DescribeTable, Superseded
  <2>. QED  BY <1>1, <1>4, <2>1, <2>2, BeginRowsSpares
<1>12. \A c \in ConnIds, t \in Inspected : ForgetDefinition(c, t) => Spares(o)
  BY <1>1, <1>4, DropRowsSpares DEF ForgetDefinition, TakenFrom
<1>13. \A c \in ConnIds, q \in QueryIds, sql \in Statements :
         RunQuery(c, q, sql) \/ EstimateQuery(c, q, sql) => Spares(o)
  BY <1>2 DEF RunQuery, EstimateQuery
<1>14. \A q \in QueryIds : ApproveQuery(q) => Spares(o)
  BY <1>2 DEF ApproveQuery
<1>15. \A q \in QueryIds : ForgetQuery(q) => Spares(o)
  BY <1>1, <1>4, DropRowsSpares DEF ForgetQuery, TakenFrom
<1>16. \A op \in LibraryOps : \A item \in Items(op) : WithLibrary(op, item) => Spares(o)
  BY <1>2, <1>3 DEF WithLibrary
<1>17. \A terms \in Terms : SearchHistory(terms) => Spares(o)
  <2>1. \A terms \in Terms : SearchHistory(terms) => o # HistoryOwner
    BY DEF TakenFrom
  <2>. QED  BY <1>1, <1>3, <1>4, <2>1, BeginRowsSpares DEF SearchHistory, Superseded
<1>18. \A b \in busy : Cancel(b) => Spares(o)
  <2>. SUFFICES ASSUME NEW b \in busy, Cancel(b)
                PROVE  Spares(o)
    OBVIOUS
  <2>1. b.owner # o
    BY DEF TakenFrom
  <2>2. DropTasks(IdsOf({b}))
    BY DEF Cancel, IdsOf
  <2>. QED  BY <1>1, <2>1, <2>2, DropRowsSpares
<1>. QED
  BY <1>5, <1>6, <1>7, <1>8, <1>9, <1>10, <1>11, <1>12, <1>13, <1>14, <1>15, <1>16, <1>17,
     <1>18, Zenon DEF Dispatched, AsksForPage

LEMMA HandledSpares ==
    ASSUME TypeInv, Handled, NEW o, o # Head(events).owner
    PROVE  Spares(o)
<1>1. \A kind : Receive(kind) => Spares(o)
  BY ReceiveSpares DEF Spares, Token
<1>. QED
  BY <1>1 DEF Handled, Connected, Expanded, Previewed, Described, Ran, Recorded,
              LibraryAnswered, Searched

LEMMA RestSpares ==
    ASSUME TypeInv, Next, ~Dispatched, ~Handled, NEW o
    PROVE  Spares(o)
<1>1. ASSUME NEW t \in tasks, Works(t)
      PROVE  Spares(o)
  <2>. USE SendSpares, AnswerSpares
  <2>1. ConnectAnswers(t) \/ ExpandAnswers(t) \/ PreviewAnswers(t) => Spares(o)
    BY DEF ConnectAnswers, ExpandAnswers, PreviewAnswers
  <2>2. DescribeAnswers(t) \/ DescribeSends(t) => Spares(o)
    BY DEF DescribeAnswers, DescribeSends
  <2>3. ServerExecutes(t) \/ QueryStops(t) \/ QuerySends(t) => Spares(o)
    BY DEF ServerExecutes, QueryStops, QuerySends
  <2>4. LibrarySends(t) \/ SearchAnswers(t) => Spares(o)
    BY DEF LibrarySends, SearchAnswers
  <2>. QED  BY <1>1, <2>1, <2>2, <2>3, <2>4 DEF Works
<1>2. \A w \in writing : RowInserted(w) => Spares(o)
  BY NoticeSpares DEF RowInserted
<1>3. \A w \in writing : RowSettled(w) => Spares(o)
  BY SameSpares DEF RowSettled, kernelVars
<1>4. \A j \in jobs : JobWrites(j) => Spares(o)
  BY SameSpares DEF JobWrites, kernelVars
<1>5. ASSUME NEW j \in jobs, JobReads(j)
      PROVE  Spares(o)
  <2>1. PICK tag \in {"Ok", "Err"} :
          tasks' = {Told(t, j, [tag |-> tag, wrote |-> j.wrote, item |-> j.item,
                                list |-> ListFromFile]) : t \in tasks}
    BY <1>5, Zenon DEF JobReads
  <2>2. UNCHANGED events
    BY <1>5 DEF JobReads
  <2>. QED  BY <2>1, <2>2, ToldSpares
<1>6. Outside => Spares(o)
  BY SameSpares DEF Outside, ActorDies, Alter, SchemaChanges, kernelVars
<1>. QED  BY <1>1, <1>2, <1>3, <1>4, <1>5, <1>6 DEF Next, Blocking

\* A step leaves the tokens of an owner, or it is about that owner.
LEMMA SparedOrTaken ==
    ASSUME TypeInv, TokenInv, [Next]_vars, NEW o
    PROVE  Spares(o) \/ TakenFrom(o) \/ (Handled /\ Head(events).owner = o)
<1>1. UNCHANGED vars => Spares(o)
  BY SameSpares DEF vars, kernelVars
<1>. QED  BY <1>1, DispatchedSpares, HandledSpares, RestSpares

-----------------------------------------------------------------------------
(* Previews.                                                                *)

\* Nothing is awaited and nothing says so.
Quiescent(p) == p.pending = None /\ p.data # "Loading"

LEMMA GivenUpFields ==
    ASSUME NEW p \in Preview
    PROVE  (GivenUp(p) = p /\ p.data = "absent") \/ Quiescent(GivenUp(p))
BY DEF GivenUp, Preview, Quiescent

LEMMA MissedFields ==
    ASSUME NEW p \in Preview
    PROVE  Quiescent(Missed(p))
BY DEF Missed, Preview, Quiescent

LEMMA LandedFields ==
    ASSUME NEW p \in Preview, NEW page \in Page, NEW result
    PROVE  Quiescent(Landed(p, page, result))
BY DEF Landed, Preview, Quiescent

LEMMA CancelPreviews ==
    ASSUME TypeInv, PreviewSpins, NEW b \in busy, Cancel(b), NEW c \in ConnIds, NEW t \in Tables
    PROVE  /\ previews'[c][t] = previews[c][t] \/ Quiescent(previews'[c][t])
           /\ b.owner = PreviewOwner(c, t) => Quiescent(previews'[c][t])
<1>1. previews \in [ConnIds -> [Tables -> Preview]] /\ b.owner \in Owner
  BY DEF TypeInv, TypeOK, PreviewTypes, KernelTypes
<1>2. CASE b.owner.kind = "Preview" /\ AbandonPreview(b.owner.conn, b.owner.item)
  <2>1. b.owner.conn \in ConnIds /\ b.owner.item \in Tables
    BY <1>1, <1>2 DEF Owner
  <2>2. CASE b.owner.conn = c /\ b.owner.item = t
    <3>1. previews'[c][t] = GivenUp(previews[c][t])
      BY <1>1, <1>2, <2>1, <2>2 DEF AbandonPreview
    <3>2. previews[c][t].data = "absent" => Quiescent(previews[c][t])
      BY DEF PreviewSpins, PreviewSpin, Quiescent
    <3>. QED  BY <1>1, <3>1, <3>2, GivenUpFields
  <2>3. CASE ~(b.owner.conn = c /\ b.owner.item = t)
    <3>1. previews'[c][t] = previews[c][t]
      BY <1>1, <1>2, <2>1, <2>3 DEF AbandonPreview
    <3>. QED  BY <2>3, <3>1 DEF PreviewOwner
  <2>. QED  BY <2>2, <2>3
<1>3. CASE b.owner.kind # "Preview"
  <2>1. UNCHANGED previews
    BY <1>3 DEF Cancel, AbandonConnection, AbandonNode, AbandonDefinition, AbandonQuery,
                AbandonTemplates, AbandonHistory, previewVars
  <2>. QED  BY <1>3, <2>1 DEF PreviewOwner
<1>. QED  BY <1>2, <1>3 DEF Cancel

LEMMA DisconnectPreviews ==
    ASSUME TypeInv, NEW d \in ConnIds, Disconnect(d), NEW c \in ConnIds, NEW t \in Tables
    PROVE  previews'[c][t] = IF c = d THEN NoPreview ELSE previews[c][t]
BY DEF TypeInv, TypeOK, PreviewTypes, Disconnect

LEMMA ForgetPreviews ==
    ASSUME TypeInv, NEW d \in ConnIds, NEW u \in Tables, ForgetPreview(d, u),
           NEW c \in ConnIds, NEW t \in Tables
    PROVE  previews'[c][t] = IF c = d /\ t = u THEN NoPreview ELSE previews[c][t]
BY DEF TypeInv, TypeOK, PreviewTypes, ForgetPreview

LEMMA AskedPreviews ==
    ASSUME TypeInv, NEW d \in ConnIds, NEW u \in Tables, AsksForPage(d, u),
           NEW c \in ConnIds, NEW t \in Tables, c # d \/ t # u
    PROVE  previews'[c][t] = previews[c][t]
<1>1. PICK p \in Preview, page \in Page, append \in BOOLEAN : FetchPage(d, u, p, page, append)
  BY Fetches DEF AsksForPage
<1>. QED  BY <1>1, FetchLeaves

\* Only these touch the previews.
LEMMA PreviewChanges ==
    ASSUME [Next]_vars
    PROVE  \/ UNCHANGED previews
           \/ \E d \in ConnIds : Disconnect(d)
           \/ \E d \in ConnIds, u \in Browsed : AsksForPage(d, u) \/ ForgetPreview(d, u)
           \/ \E b \in busy : Cancel(b)
           \/ Previewed
<1>. DEFINE Same == UNCHANGED previews
            Touched == \/ \E d \in ConnIds : Disconnect(d)
                       \/ \E d \in ConnIds, u \in Browsed :
                             AsksForPage(d, u) \/ ForgetPreview(d, u)
                       \/ \E b \in busy : Cancel(b)
<1>1. Dispatched => Same \/ Touched
  <2>1. \A d \in ConnIds : Connect(d) => Same
    BY DEF Connect, previewVars
  <2>2. \A d \in ConnIds, any \in BOOLEAN : OpenConnectionRow(d, any) => Same
    BY DEF OpenConnectionRow, previewVars
  <2>3. \A d \in ConnIds, n \in Nodes, any \in BOOLEAN : OpenNode(d, n, any) => Same
    BY DEF OpenNode, previewVars
  <2>4. \A d \in ConnIds, u \in Inspected :
          /\ \A refresh \in BOOLEAN : DescribeTable(d, u, refresh) => Same
          /\ ForgetDefinition(d, u) => Same
    BY DEF DescribeTable, ForgetDefinition, previewVars
  <2>5. \A d \in ConnIds, q \in QueryIds, sql \in Statements :
          RunQuery(d, q, sql) \/ EstimateQuery(d, q, sql) => Same
    BY DEF RunQuery, EstimateQuery, previewVars
  <2>6. \A q \in QueryIds : ApproveQuery(q) \/ ForgetQuery(q) => Same
    BY DEF ApproveQuery, ForgetQuery, previewVars
  <2>7. \A op \in LibraryOps : \A item \in Items(op) : WithLibrary(op, item) => Same
    BY DEF WithLibrary, previewVars
  <2>8. \A terms \in Terms : SearchHistory(terms) => Same
    BY DEF SearchHistory, previewVars
  <2>. HIDE DEF Same
  <2>. QED
    BY <2>1, <2>2, <2>3, <2>4, <2>5, <2>6, <2>7, <2>8, Zenon DEF Dispatched, AsksForPage
<1>2. Handled => Same \/ Previewed
  BY DEF Handled, Connected, Expanded, Described, Ran, Recorded, LibraryAnswered, Searched,
         previewVars
<1>3. Next /\ ~Dispatched /\ ~Handled => Same
  BY DEF Next, Works, ConnectAnswers, ExpandAnswers, PreviewAnswers, DescribeAnswers,
         DescribeSends, ServerExecutes, QueryStops, QuerySends, LibrarySends,
         SearchAnswers, Blocking, RowInserted, RowSettled, JobWrites, JobReads,
         Outside, ActorDies, Alter, SchemaChanges, previewVars
<1>4. UNCHANGED vars => Same
  BY DEF vars, previewVars
<1>. HIDE DEF Same, Touched
<1>5. Same \/ Touched \/ Previewed
  BY <1>1, <1>2, <1>3, <1>4
<1>. QED  BY <1>5 DEF Same, Touched

\* A preview is left as it is, or waiting for nothing, unless it asks for a page itself.
LEMMA PreviewsLeft ==
    ASSUME TypeInv, PreviewSpins, [Next]_vars, ~Previewed, NEW c \in ConnIds, NEW t \in Tables
    PROVE  \/ previews'[c][t] = previews[c][t]
           \/ Quiescent(previews'[c][t])
           \/ AsksForPage(c, t)
<1>. DEFINE Left == previews'[c][t] = previews[c][t] \/ Quiescent(previews'[c][t])
<1>1. Quiescent(NoPreview)
  BY DEF Quiescent, NoPreview
<1>2. UNCHANGED previews => Left
  OBVIOUS
<1>3. Browsed \subseteq Tables
  BY DEF Tables
<1>4. \A d \in ConnIds : Disconnect(d) => Left
  BY <1>1, DisconnectPreviews
<1>5. \A d \in ConnIds, u \in Browsed : ForgetPreview(d, u) => Left
  BY <1>1, <1>3, ForgetPreviews
<1>6. \A d \in ConnIds, u \in Browsed : AsksForPage(d, u) => Left \/ AsksForPage(c, t)
  BY <1>3, AskedPreviews
<1>7. \A b \in busy : Cancel(b) => Left
  BY CancelPreviews
<1>. HIDE DEF Left
<1>8. Left \/ AsksForPage(c, t)
  BY <1>2, <1>4, <1>5, <1>6, <1>7, PreviewChanges
<1>. QED  BY <1>8 DEF Left

\* Whatever takes a token of the preview's also ends its wait, or is a new request.
LEMMA TakenPreviews ==
    ASSUME TypeInv, TokenInv, NEW c \in ConnIds, NEW t \in Tables,
           TakenFrom(PreviewOwner(c, t))
    PROVE  AsksForPage(c, t) \/ Quiescent(previews'[c][t])
<1>. DEFINE o == PreviewOwner(c, t)
<1>1. Quiescent(NoPreview) /\ Browsed \subseteq Tables /\ PreviewSpins
  BY DEF Quiescent, NoPreview, Tables, TokenInv
<1>2. ASSUME NEW d \in ConnIds, Disconnect(d), NEW b \in Orphaned(d), b.owner = o
      PROVE  Quiescent(previews'[c][t])
  <2>1. d = c
    BY <1>2 DEF Orphaned, PreviewOwner
  <2>. QED  BY <1>1, <1>2, <2>1, DisconnectPreviews
<1>3. ASSUME NEW d \in ConnIds, NEW u \in Browsed, o = PreviewOwner(d, u), ForgetPreview(d, u)
      PROVE  Quiescent(previews'[c][t])
  BY <1>1, <1>3, ForgetPreviews DEF PreviewOwner
<1>4. ASSUME NEW b \in busy, b.owner = o, Cancel(b)
      PROVE  Quiescent(previews'[c][t])
  BY <1>1, <1>4, CancelPreviews
<1>5. ASSUME NEW d \in ConnIds, NEW u \in Browsed, o = PreviewOwner(d, u), AsksForPage(d, u)
      PROVE  AsksForPage(c, t)
  BY <1>5 DEF PreviewOwner
<1>6. /\ \A d, u : o # DefinitionOwner(d, u)
      /\ \A q : o # QueryOwner(q)
      /\ o # HistoryOwner
  BY DEF PreviewOwner, DefinitionOwner, QueryOwner, HistoryOwner
<1>. QED  BY <1>2, <1>3, <1>4, <1>5, <1>6 DEF TakenFrom

LEMMA SameSpin ==
    ASSUME NEW c \in ConnIds, NEW t \in Tables, PreviewSpin(c, t),
           \/ previews'[c][t] = previews[c][t] /\ Spares(PreviewOwner(c, t))
           \/ Quiescent(previews'[c][t])
    PROVE  PreviewSpin(c, t)'
BY DEF PreviewSpin, Spares, Quiescent

LEMMA AskedSpin ==
    ASSUME TypeInv, NEW c \in ConnIds, NEW t \in Tables, AsksForPage(c, t)
    PROVE  PreviewSpin(c, t)'
<1>1. PICK p \in Preview, page \in Page, append \in BOOLEAN :
        /\ FetchPage(c, t, p, page, append)
        /\ p.data \in {"Loading", "Ready"}
  BY Fetches DEF AsksForPage
<1>2. /\ previews'[c][t].pending = [busy |-> nextId, page |-> page, append |-> append]
      /\ previews'[c][t].pending # None /\ previews'[c][t].data = p.data
      /\ Begin(PendingIds(p), PreviewOwner(c, t), page)
  BY <1>1, FetchLeaves
<1>3. [owner |-> PreviewOwner(c, t), id |-> nextId, req |-> page] \in Tokens'
  BY <1>2, BeginGives
<1>. QED  BY <1>1, <1>2, <1>3 DEF PreviewSpin

\* previewed: the page waited for ends the wait, and another one is another token.
LEMMA PreviewedSpin ==
    ASSUME TypeInv, TokenInv, Previewed, NEW c \in ConnIds, NEW t \in Tables
    PROVE  PreviewSpin(c, t)'
<1>. DEFINE e == Head(events)  p == previews[c][t]  o == PreviewOwner(c, t)
<1>1. e \in PreviewEvent /\ PreviewSpin(c, t)
  BY ReceiveTyped, EventKinds
  DEF TypeInv, TypeOK, Previewed, TokenInv, PreviewSpins
<1>2. /\ e.owner = PreviewOwner(e.owner.conn, e.owner.item)
      /\ e.owner.conn \in ConnIds /\ e.owner.item \in Tables /\ e.req \in Page
  BY <1>1 DEF PreviewEvent, EventOf, PreviewOwners, PreviewOwner
<1>3. p \in Preview /\ previews \in [ConnIds -> [Tables -> Preview]]
  BY DEF TypeInv, TypeOK, PreviewTypes
<1>4. CASE e.owner # o
  <2>1. e.owner.conn # c \/ e.owner.item # t
    BY <1>2, <1>4
  <2>2. previews'[c][t] = p
    BY <1>2, <1>3, <2>1 DEF Previewed
  <2>3. Spares(o)
    BY <1>4, HandledSpares DEF Handled
  <2>. QED  BY <1>1, <2>2, <2>3, SameSpin
<1>5. CASE e.owner = o
  <2>1. e.owner.conn = c /\ e.owner.item = t
    BY <1>5 DEF PreviewOwner
  <2>2. CASE Awaits(p, e.req)
    <3>1. previews'[c][t] \in {Landed(p, e.req, e.result), Missed(p)}
      BY <1>3, <2>1, <2>2 DEF Previewed
    <3>2. Quiescent(previews'[c][t])
      BY <1>2, <1>3, <3>1, LandedFields, MissedFields
    <3>. QED  BY <1>1, <3>2, SameSpin
  <2>3. CASE ~Awaits(p, e.req)
    <3>1. previews'[c][t] = p
      BY <2>1, <2>3 DEF Previewed
    <3>. DEFINE k == [owner |-> o, id |-> p.pending.busy, req |-> p.pending.page]
    <3>2. p.pending # None => k # Token(e)
      BY <2>3 DEF Awaits, Token
    <3>3. p.pending # None => k \in Tokens'
      BY <1>1, <3>2, ReceiveSpares DEF Previewed, PreviewSpin
    <3>. QED  BY <1>1, <3>1, <3>3 DEF PreviewSpin
  <2>. QED  BY <2>2, <2>3
<1>. QED  BY <1>4, <1>5

\* A page is asked for by a dispatch, and only `previewed` is told of one.
LEMMA PreviewKinds ==
    ASSUME NEW c \in ConnIds, NEW t \in Tables, Handled, ~Previewed
    PROVE  Head(events).owner # PreviewOwner(c, t)
<1>1. \E kind \in {"Connection", "Node", "Definition", "Query", "Run", "Templates", "History"} :
        Receive(kind)
  BY DEF Handled, Connected, Expanded, Described, Ran, Recorded, LibraryAnswered, Searched
<1>. QED  BY <1>1 DEF Receive, PreviewOwner

LEMMA NextPreviewSpins ==
    ASSUME TypeInv, TokenInv, [Next]_vars, NEW c \in ConnIds, NEW t \in Tables
    PROVE  PreviewSpin(c, t)'
<1>. DEFINE o == PreviewOwner(c, t)
<1>1. PreviewSpin(c, t) /\ PreviewSpins
  BY DEF TokenInv, PreviewSpins
<1>2. CASE ~Previewed
  <2>1. CASE AsksForPage(c, t)
    BY <2>1, AskedSpin
  <2>2. CASE Quiescent(previews'[c][t])
    BY <1>1, <2>2, SameSpin
  <2>3. CASE previews'[c][t] = previews[c][t] /\ ~TakenFrom(o)
    <3>1. Spares(o)
      BY <1>2, <2>3, SparedOrTaken, PreviewKinds
    <3>. QED  BY <1>1, <2>3, <3>1, SameSpin
  <2>. QED  BY <1>1, <1>2, <2>1, <2>2, <2>3, PreviewsLeft, TakenPreviews
<1>. QED  BY <1>2, PreviewedSpin

LEMMA NothingTokens == NothingYet => TokenInv
<1>. SUFFICES ASSUME NothingYet
              PROVE  TokenInv
  OBVIOUS
<1>1. Ids
  BY DEF NothingYet, Ids, RowIds, TaskIds, EventIds
<1>2. ASSUME NEW c \in ConnIds, NEW t \in Tables
      PROVE  PreviewSpin(c, t)
  <2>1. previews[c][t] = NoPreview
    BY DEF NothingYet
  <2>. QED  BY <2>1 DEF NoPreview, PreviewSpin
<1>. QED  BY <1>1, <1>2 DEF TokenInv, PreviewSpins

\* Ids are used once, and what a preview waits for is on its way.
LEMMA TokenInvariant == Spec => [](TypeInv /\ TokenInv)
<1>1. TypeInv /\ TokenInv /\ [Next]_vars => TokenInv'
  BY NextIds, NextPreviewSpins DEF TokenInv, PreviewSpins
<1>2. Init => TokenInv
  BY NothingTokens DEF Init
<1>. QED  BY <1>1, <1>2, TypesAreInvariant, PTL DEF Spec

-----------------------------------------------------------------------------
(* Connections.  Whatever spins was spinning and keeps its token, or has just    *)
(* been asked for.                                                          *)

LEMMA StillComing ==
    ASSUME NEW o, Coming(o), Spares(o)
    PROVE  Coming(o)'
BY DEF Coming, Spares

LEMMA BeginComes ==
    ASSUME NEW ids, NEW owner, NEW req, Begin(ids, owner, req)
    PROVE  Coming(owner)'
<1>. DEFINE k == [owner |-> owner, id |-> nextId, req |-> req]
<1>1. k \in Tokens' /\ k.owner = owner
  BY BeginGives
<1>. HIDE DEF k
<1>. QED  BY <1>1 DEF Coming

\* An owner's kind is told from another's, and so is what it is the owner of.
LEMMA OwnersDiffer ==
    ASSUME NEW c, NEW x
    PROVE  /\ \A d, t : ConnectionOwner(c) # PreviewOwner(d, t)
           /\ \A d, t : ConnectionOwner(c) # DefinitionOwner(d, t)
           /\ \A q : ConnectionOwner(c) # QueryOwner(q)
           /\ ConnectionOwner(c) # HistoryOwner
           /\ \A d, t : NodeOwner(c, x) # PreviewOwner(d, t)
           /\ \A d, t : NodeOwner(c, x) # DefinitionOwner(d, t)
           /\ \A q : NodeOwner(c, x) # QueryOwner(q)
           /\ NodeOwner(c, x) # HistoryOwner
           /\ \A d, t : DefinitionOwner(c, x) # PreviewOwner(d, t)
           /\ \A q : DefinitionOwner(c, x) # QueryOwner(q)
           /\ DefinitionOwner(c, x) # HistoryOwner
           /\ \A d, t : QueryOwner(x) # PreviewOwner(d, t)
           /\ \A d, t : QueryOwner(x) # DefinitionOwner(d, t)
           /\ QueryOwner(x) # HistoryOwner
BY DEF ConnectionOwner, NodeOwner, PreviewOwner, DefinitionOwner, QueryOwner, HistoryOwner

\* A connection that spins was spinning, or has just been asked for.
LEMMA ConnectionSpins ==
    ASSUME TypeInv, ConnInv, [Next]_vars, NEW c \in ConnIds,
           conns'[c].status = "Connecting"
    PROVE  conns[c].status = "Connecting" \/ Coming(ConnectionOwner(c))'
<1>1. TypeOK /\ conns \in [ConnIds -> Conn]
  BY DEF TypeInv, TypeOK, ConnectionTypes
<1>2. ConnStays(c) \/ ConnEnds(c) => conns[c].status = "Connecting"
  BY DEF ConnStays, ConnEnds
<1>3. CASE Connect(c)
  <2>1. Refused(NewConn).status = "Failed"
    BY DEF Refused, NewConn
  <2>2. conns' # [conns EXCEPT ![c] = Refused(NewConn)]
    BY <1>1, <2>1
  <2>. QED  BY <1>3, <2>2, BeginComes DEF Connect
<1>4. CASE Dispatched
  BY <1>1, <1>2, <1>3, <1>4, DispatchedConns
<1>5. CASE Connected
  <2>. DEFINE e == Head(events)
  <2>1. e.owner.conn \in ConnIds
    BY <1>1, <1>5, ReceiveTyped, EventKinds
    DEF TypeOK, Connected, ConnectionEvent, EventOf, ConnectionOwners
  <2>2. CASE e.owner.conn # c
    BY <1>1, <1>5, <2>1, <2>2 DEF Connected, connVars
  <2>3. CASE e.owner.conn = c
    <3>1. Opened(conns[c], e.result).status = "Ready" /\ Refused(conns[c]).status = "Failed"
      BY <1>1 DEF Opened, Refused, Conn
    <3>. QED  BY <1>1, <1>5, <2>3, <3>1 DEF Connected, connVars
  <2>. QED  BY <2>2, <2>3
<1>6. CASE Handled /\ ~Connected
  BY <1>1, <1>2, <1>6, HandledConns
<1>7. CASE Next /\ ~Dispatched /\ ~Handled
  BY <1>7, WorksConns, RestConns DEF Next
<1>8. CASE UNCHANGED vars
  BY <1>8 DEF vars, connVars
<1>. QED  BY <1>4, <1>5, <1>6, <1>7, <1>8

\* One whose token is taken spins no more.
LEMMA ConnectionStops ==
    ASSUME TypeInv, ConnInv, NEW c \in ConnIds,
           \/ TakenFrom(ConnectionOwner(c))
           \/ Handled /\ Head(events).owner = ConnectionOwner(c)
    PROVE  conns'[c].status # "Connecting"
<1>. DEFINE o == ConnectionOwner(c)
<1>1. conns \in [ConnIds -> Conn] /\ o.kind = "Connection" /\ o.conn = c
  BY DEF TypeInv, TypeOK, ConnectionTypes, ConnectionOwner
<1>2. /\ Opened(conns[c], Head(events).result).status = "Ready"
      /\ Refused(conns[c]).status = "Failed"
      /\ Parted(conns[c], "Closed").status = "Closed"
  BY <1>1 DEF Opened, Refused, Parted, Conn
<1>3. ASSUME NEW d \in ConnIds, Disconnect(d), NEW b \in Orphaned(d), b.owner = o
      PROVE  conns'[c].status # "Connecting"
  <2>1. d = c
    BY <1>1, <1>3 DEF Orphaned
  <2>. QED  BY <1>1, <1>2, <1>3, <2>1 DEF Disconnect
<1>4. ASSUME NEW b \in busy, b.owner = o, Cancel(b)
      PROVE  conns'[c].status # "Connecting"
  <2>1. AbandonConnection(c)
    BY <1>1, <1>4 DEF Cancel
  <2>. QED  BY <1>1, <1>2, <2>1 DEF AbandonConnection
<1>5. TakenFrom(o) => conns'[c].status # "Connecting"
  BY <1>3, <1>4, OwnersDiffer DEF TakenFrom
<1>6. ASSUME Handled, Head(events).owner = o
      PROVE  conns'[c].status # "Connecting"
  <2>1. Connected
    BY <1>1, <1>6 DEF Handled, Expanded, Previewed, Described, Ran, Recorded,
                      LibraryAnswered, Searched, Receive
  <2>. QED  BY <1>1, <1>2, <1>6, <2>1 DEF Connected, connVars
<1>. QED  BY <1>5, <1>6

LEMMA NextConnSpins ==
    ASSUME TypeInv, ConnInv, TokenInv, ConnSpins, [Next]_vars
    PROVE  ConnSpins'
<1>. SUFFICES ASSUME NEW c \in ConnIds, conns'[c].status = "Connecting"
              PROVE  Coming(ConnectionOwner(c))'
  BY DEF ConnSpins
<1>1. Spares(ConnectionOwner(c))
  BY SparedOrTaken, ConnectionStops
<1>. QED  BY <1>1, ConnectionSpins, StillComing DEF ConnSpins

-----------------------------------------------------------------------------
(* Nodes.                                                                   *)

LEMMA FinishLoadSpins ==
    ASSUME NEW tr \in Tree, NEW n \in Nodes, NEW ok \in BOOLEAN
    PROVE  /\ FinishLoad(tr, n, ok).status[n] # "Loading"
           /\ \A m \in Nodes :
                 FinishLoad(tr, n, ok).status[m] = "Loading" => tr.status[m] = "Loading"
<1>1. tr.status \in [Nodes -> NodeStates]
  BY DEF Tree
<1>2. \A m \in Nodes : RecordLeaves(tr.status, Children[n])[m] \in {"Leaf", tr.status[m]}
  BY DEF RecordLeaves
<1>3. RecordLeaves(tr.status, Children[n]) \in [Nodes -> NodeStates]
  BY <1>1, RecordLeavesTyped
<1>4. CASE ok
  <2>1. FinishLoad(tr, n, ok).status = [RecordLeaves(tr.status, Children[n]) EXCEPT ![n] = "Expanded"]
    BY <1>4 DEF FinishLoad
  <2>. QED  BY <1>2, <1>3, <2>1
<1>5. CASE ~ok
  <2>1. FinishLoad(tr, n, ok).status = [tr.status EXCEPT ![n] = "Failed"]
    BY <1>5 DEF FinishLoad
  <2>. QED  BY <1>1, <2>1
<1>. QED  BY <1>4, <1>5

LEMMA MarkedStatus ==
    ASSUME NEW tr \in Tree, NEW n \in Nodes, NEW state
    PROVE  /\ Marked(tr, n, state).status[n] = state
           /\ \A m \in Nodes : m # n => Marked(tr, n, state).status[m] = tr.status[m]
<1>1. Marked(tr, n, state).status = [tr.status EXCEPT ![n] = state]
  BY DEF Marked, Tree
<1>. QED  BY <1>1 DEF Tree

LEMMA SetRootsSpins ==
    ASSUME NEW n \in Nodes
    PROVE  SetRoots.status[n] # "Loading" /\ EmptyTree.status[n] # "Loading"
BY DEF SetRoots, RecordLeaves, EmptyTree

LEMMA CancelTree ==
    ASSUME TypeInv, NEW b \in busy, Cancel(b), NEW c \in ConnIds, NEW n \in Nodes
    PROVE  /\ tree'[c].status[n] = "Loading" => tree[c].status[n] = "Loading"
           /\ b.owner = NodeOwner(c, n) => tree'[c].status[n] # "Loading"
<1>1. tree \in [ConnIds -> Tree] /\ b.owner \in Owner
  BY DEF TypeInv, TypeOK, ConnectionTypes, KernelTypes
<1>2. CASE b.owner.kind = "Node" /\ AbandonNode(b.owner.conn, b.owner.item)
  <2>. DEFINE d == b.owner.conn  m == b.owner.item  ok == FALSE
  <2>1. d \in ConnIds /\ m \in Nodes /\ ok \in BOOLEAN
    BY <1>1, <1>2 DEF Owner
  <2>2. /\ tree'[d] = FinishLoad(tree[d], m, ok)
        /\ c # d => tree'[c] = tree[c]
    BY <1>1, <1>2, <2>1 DEF AbandonNode
  <2>. HIDE DEF d, m, ok
  <2>3. b.owner = NodeOwner(c, n) => d = c /\ m = n
    BY DEF NodeOwner, d, m
  <2>4. /\ tree'[d].status[m] # "Loading"
        /\ tree'[d].status[n] = "Loading" => tree[d].status[n] = "Loading"
    BY <1>1, <2>1, <2>2, FinishLoadSpins
  <2>. QED  BY <2>2, <2>3, <2>4
<1>3. CASE b.owner.kind # "Node"
  <2>1. UNCHANGED tree
    BY <1>3 DEF Cancel, AbandonConnection, AbandonPreview, AbandonDefinition, AbandonQuery,
                AbandonTemplates, AbandonHistory, connVars
  <2>. QED  BY <1>3, <2>1 DEF NodeOwner
<1>. QED  BY <1>2, <1>3 DEF Cancel

LEMMA OpenNodeSpins ==
    ASSUME TypeInv, NEW d \in ConnIds, NEW m \in Nodes, NEW any \in BOOLEAN,
           OpenNode(d, m, any), NEW c \in ConnIds, NEW n \in Nodes,
           tree'[c].status[n] = "Loading"
    PROVE  tree[c].status[n] = "Loading" \/ Coming(NodeOwner(c, n))'
<1>1. tree \in [ConnIds -> Tree]
  BY DEF TypeInv, TypeOK, ConnectionTypes
<1>2. PICK state \in NodeStates :
        /\ tree' = [tree EXCEPT ![d] = Marked(@, m, state)]
        /\ state = "Loading" => Begin({}, NodeOwner(d, m), None)
  BY DEF OpenNode, NodeStates
<1>3. /\ tree'[d] = Marked(tree[d], m, state)
      /\ c # d => tree'[c] = tree[c]
  BY <1>1, <1>2
<1>4. CASE c = d /\ n = m
  BY <1>1, <1>2, <1>3, <1>4, MarkedStatus, BeginComes
<1>5. CASE ~(c = d /\ n = m)
  BY <1>1, <1>3, <1>5, MarkedStatus
<1>. QED  BY <1>4, <1>5

\* Only these touch the trees.
LEMMA TreeChanges ==
    ASSUME [Next]_vars
    PROVE  \/ UNCHANGED tree
           \/ \E c \in ConnIds : Disconnect(c)
           \/ \E c \in ConnIds, n \in Nodes, any \in BOOLEAN : OpenNode(c, n, any)
           \/ \E b \in busy : Cancel(b)
           \/ Connected \/ Expanded
<1>1. ASSUME Dispatched,
             ~ \E c \in ConnIds : Disconnect(c),
             ~ \E c \in ConnIds, n \in Nodes, any \in BOOLEAN : OpenNode(c, n, any),
             ~ \E b \in busy : Cancel(b)
      PROVE  UNCHANGED tree
  <2>1. \A d \in ConnIds : Connect(d) => UNCHANGED tree
    BY DEF Connect
  <2>2. \A d \in ConnIds, any \in BOOLEAN : OpenConnectionRow(d, any) => UNCHANGED tree
    BY DEF OpenConnectionRow
  <2>3. \A d \in ConnIds, t \in Browsed :
          PreviewTable(d, t) \/ LoadMore(d, t) \/ ForgetPreview(d, t) => UNCHANGED tree
    BY DEF PreviewTable, LoadMore, ForgetPreview, connVars
  <2>4. \A d \in ConnIds, t \in Browsed, column \in Nat :
          SortPreview(d, t, column) => UNCHANGED tree
    BY DEF SortPreview, connVars
  <2>5. \A d \in ConnIds, t \in Inspected :
          /\ \A refresh \in BOOLEAN : DescribeTable(d, t, refresh) => UNCHANGED tree
          /\ ForgetDefinition(d, t) => UNCHANGED tree
    BY DEF DescribeTable, ForgetDefinition, connVars
  <2>6. \A d \in ConnIds, q \in QueryIds, sql \in Statements :
          RunQuery(d, q, sql) \/ EstimateQuery(d, q, sql) => UNCHANGED tree
    BY DEF RunQuery, EstimateQuery, connVars
  <2>7. \A q \in QueryIds : ApproveQuery(q) \/ ForgetQuery(q) => UNCHANGED tree
    BY DEF ApproveQuery, ForgetQuery, connVars
  <2>8. \A op \in LibraryOps : \A item \in Items(op) : WithLibrary(op, item) => UNCHANGED tree
    BY DEF WithLibrary, connVars
  <2>9. \A terms \in Terms : SearchHistory(terms) => UNCHANGED tree
    BY DEF SearchHistory, connVars
  <2>. QED
    BY <1>1, <2>1, <2>2, <2>3, <2>4, <2>5, <2>6, <2>7, <2>8, <2>9, Zenon DEF Dispatched
<1>2. CASE Handled
  BY <1>2 DEF Handled, Previewed, Described, Ran, Recorded, LibraryAnswered, Searched,
              connVars
<1>3. CASE Next /\ ~Dispatched /\ ~Handled
  BY <1>3 DEF Next, Works, ConnectAnswers, ExpandAnswers, PreviewAnswers, DescribeAnswers,
              DescribeSends, ServerExecutes, QueryStops, QuerySends, LibrarySends,
              SearchAnswers, Blocking, RowInserted, RowSettled, JobWrites, JobReads,
              Outside, ActorDies, Alter, SchemaChanges, connVars
<1>4. UNCHANGED vars => UNCHANGED tree
  BY DEF vars, connVars
<1>. QED  BY <1>1, <1>2, <1>3, <1>4

LEMMA ConnectedTree ==
    ASSUME TypeInv, Connected, NEW c \in ConnIds, NEW n \in Nodes
    PROVE  tree'[c].status[n] = "Loading" => tree[c].status[n] = "Loading"
<1>1. tree \in [ConnIds -> Tree]
  BY DEF TypeInv, TypeOK, ConnectionTypes
<1>2. tree'[c] \in {tree[c], SetRoots}
  BY <1>1 DEF Connected, connVars
<1>. QED  BY <1>2, SetRootsSpins

LEMMA ExpandedTree ==
    ASSUME TypeInv, Expanded, NEW c \in ConnIds, NEW n \in Nodes
    PROVE  /\ tree'[c].status[n] = "Loading" => tree[c].status[n] = "Loading"
           /\ Head(events).owner = NodeOwner(c, n) => tree'[c].status[n] # "Loading"
<1>. DEFINE d == Head(events).owner.conn  m == Head(events).owner.item
            ok == Head(events).result.tag = "Ok"
<1>1. tree \in [ConnIds -> Tree]
  BY DEF TypeInv, TypeOK, ConnectionTypes
<1>2. d \in ConnIds /\ m \in Nodes
  BY ReceiveTyped, EventKinds
  DEF TypeInv, TypeOK, Expanded, NodeEvent, EventOf, NodeOwners
<1>3. tree' = [tree EXCEPT ![d] = FinishLoad(@, m, ok)] /\ ok \in BOOLEAN
  BY DEF Expanded
<1>4. Head(events).owner = NodeOwner(c, n) => d = c /\ m = n
  BY DEF NodeOwner
<1>. HIDE DEF d, m, ok
<1>5. tree'[d] = FinishLoad(tree[d], m, ok) /\ (c # d => tree'[c] = tree[c])
  BY <1>1, <1>2, <1>3
<1>. QED  BY <1>1, <1>2, <1>3, <1>4, <1>5, FinishLoadSpins

LEMMA DisconnectTree ==
    ASSUME TypeInv, NEW d \in ConnIds, Disconnect(d), NEW c \in ConnIds, NEW n \in Nodes
    PROVE  /\ tree'[c].status[n] = "Loading" => tree[c].status[n] = "Loading"
           /\ c = d => tree'[c].status[n] # "Loading"
<1>1. tree'[c] = IF c = d THEN EmptyTree ELSE tree[c]
  BY DEF TypeInv, TypeOK, ConnectionTypes, Disconnect
<1>. QED  BY <1>1, SetRootsSpins

LEMMA NextNodeSpins ==
    ASSUME TypeInv, TokenInv, NodeSpins, [Next]_vars
    PROVE  NodeSpins'
<1>. SUFFICES ASSUME NEW c \in ConnIds, NEW n \in Nodes, tree'[c].status[n] = "Loading"
              PROVE  Coming(NodeOwner(c, n))'
  BY DEF NodeSpins
<1>. DEFINE o == NodeOwner(c, n)
<1>1. o.kind = "Node" /\ o.conn = c
  BY DEF NodeOwner
<1>2. tree[c].status[n] = "Loading" \/ Coming(o)'
  BY TreeChanges, DisconnectTree, OpenNodeSpins, CancelTree, ConnectedTree, ExpandedTree
<1>3. ~TakenFrom(o)
  <2>1. ~ \E d \in ConnIds : Disconnect(d) /\ \E b \in Orphaned(d) : b.owner = o
    BY <1>1, DisconnectTree DEF Orphaned
  <2>2. ~ \E b \in busy : b.owner = o /\ Cancel(b)
    BY CancelTree
  <2>. QED  BY <2>1, <2>2, OwnersDiffer DEF TakenFrom
<1>4. ~(Handled /\ Head(events).owner = o)
  <2>. SUFFICES ASSUME Handled, Head(events).owner = o
                PROVE  FALSE
    OBVIOUS
  <2>1. Expanded
    BY <1>1 DEF Handled, Connected, Previewed, Described, Ran, Recorded,
                LibraryAnswered, Searched, Receive
  <2>. QED  BY <2>1, ExpandedTree
<1>. QED  BY <1>2, <1>3, <1>4, SparedOrTaken, StillComing DEF NodeSpins

-----------------------------------------------------------------------------
(* Definitions.                                                             *)

\* Only these touch the definitions and what was asked of them.
LEMMA DefinitionChanges ==
    ASSUME [Next]_vars
    PROVE  \/ UNCHANGED <<definitions, asked>>
           \/ \E c \in ConnIds : Disconnect(c)
           \/ \E c \in ConnIds, t \in Inspected :
                 \/ \E refresh \in BOOLEAN : DescribeTable(c, t, refresh)
                 \/ ForgetDefinition(c, t)
           \/ \E b \in busy : Cancel(b)
           \/ Described
<1>. DEFINE Same == UNCHANGED <<definitions, asked>>
            Touched == \/ \E c \in ConnIds : Disconnect(c)
                       \/ \E c \in ConnIds, t \in Inspected :
                             \/ \E refresh \in BOOLEAN : DescribeTable(c, t, refresh)
                             \/ ForgetDefinition(c, t)
                       \/ \E b \in busy : Cancel(b)
<1>1. Dispatched => Same \/ Touched
  <2>1. \A d \in ConnIds : Connect(d) => Same
    BY DEF Connect, definitionVars
  <2>2. \A d \in ConnIds, any \in BOOLEAN : OpenConnectionRow(d, any) => Same
    BY DEF OpenConnectionRow, definitionVars
  <2>3. \A d \in ConnIds, n \in Nodes, any \in BOOLEAN : OpenNode(d, n, any) => Same
    BY DEF OpenNode, definitionVars
  <2>4. \A d \in ConnIds, t \in Browsed :
          PreviewTable(d, t) \/ LoadMore(d, t) \/ ForgetPreview(d, t) => Same
    BY DEF PreviewTable, LoadMore, ForgetPreview, definitionVars
  <2>5. \A d \in ConnIds, t \in Browsed, column \in Nat : SortPreview(d, t, column) => Same
    BY DEF SortPreview, definitionVars
  <2>6. \A d \in ConnIds, q \in QueryIds, sql \in Statements :
          RunQuery(d, q, sql) \/ EstimateQuery(d, q, sql) => Same
    BY DEF RunQuery, EstimateQuery, definitionVars
  <2>7. \A q \in QueryIds : ApproveQuery(q) \/ ForgetQuery(q) => Same
    BY DEF ApproveQuery, ForgetQuery, definitionVars
  <2>8. \A op \in LibraryOps : \A item \in Items(op) : WithLibrary(op, item) => Same
    BY DEF WithLibrary, definitionVars
  <2>9. \A terms \in Terms : SearchHistory(terms) => Same
    BY DEF SearchHistory, definitionVars
  <2>. HIDE DEF Same
  <2>. QED
    BY <2>1, <2>2, <2>3, <2>4, <2>5, <2>6, <2>7, <2>8, <2>9, Zenon DEF Dispatched
<1>2. Handled => Same \/ Described
  BY DEF Handled, Connected, Expanded, Previewed, Ran, Recorded, LibraryAnswered, Searched,
         definitionVars
<1>3. Next /\ ~Dispatched /\ ~Handled => Same
  BY DEF Next, Works, ConnectAnswers, ExpandAnswers, PreviewAnswers, DescribeAnswers,
         DescribeSends, ServerExecutes, QueryStops, QuerySends, LibrarySends,
         SearchAnswers, Blocking, RowInserted, RowSettled, JobWrites, JobReads,
         Outside, ActorDies, Alter, SchemaChanges, definitionVars
<1>4. UNCHANGED vars => Same
  BY DEF vars, definitionVars
<1>. HIDE DEF Same, Touched
<1>5. Same \/ Touched \/ Described
  BY <1>1, <1>2, <1>3, <1>4
<1>. QED  BY <1>5 DEF Same, Touched

\* What each of them leaves of one definition.
LEMMA DisconnectDefinition ==
    ASSUME TypeInv, NEW d \in ConnIds, Disconnect(d), NEW c \in ConnIds, NEW t \in Tables
    PROVE  /\ definitions'[c][t] = IF c = d THEN NoDefinition ELSE definitions[c][t]
           /\ asked'[c][t] = IF c = d THEN 0 ELSE asked[c][t]
BY DEF TypeInv, TypeOK, DefinitionTypes, Disconnect

LEMMA DescribeDefinition ==
    ASSUME TypeInv, NEW d \in ConnIds, NEW u \in Inspected, NEW refresh \in BOOLEAN,
           DescribeTable(d, u, refresh), NEW c \in ConnIds, NEW t \in Tables
    PROVE  /\ definitions'[c][t] = IF c = d /\ t = u THEN [data |-> "Loading", version |-> 0]
                                   ELSE definitions[c][t]
           /\ asked'[c][t] = IF c = d /\ t = u THEN schema[t] ELSE asked[c][t]
<1>1. u \in Tables
  BY DEF Tables
<1>. QED  BY <1>1 DEF TypeInv, TypeOK, DefinitionTypes, DescribeTable

LEMMA ForgetOneDefinition ==
    ASSUME TypeInv, NEW d \in ConnIds, NEW u \in Inspected, ForgetDefinition(d, u),
           NEW c \in ConnIds, NEW t \in Tables
    PROVE  /\ definitions'[c][t] = IF c = d /\ t = u THEN NoDefinition ELSE definitions[c][t]
           /\ asked'[c][t] = IF c = d /\ t = u THEN 0 ELSE asked[c][t]
<1>1. u \in Tables
  BY DEF Tables
<1>. QED  BY <1>1 DEF TypeInv, TypeOK, DefinitionTypes, ForgetDefinition

LEMMA CancelDefinition ==
    ASSUME TypeInv, NEW b \in busy, Cancel(b), NEW c \in ConnIds, NEW t \in Tables
    PROVE  \/ /\ b.owner # DefinitionOwner(c, t)
              /\ definitions'[c][t] = definitions[c][t] /\ asked'[c][t] = asked[c][t]
           \/ /\ b.owner = DefinitionOwner(c, t)
              /\ asked'[c][t] = 0
              /\ \/ definitions[c][t].data = "absent" /\ definitions'[c][t] = definitions[c][t]
                 \/ /\ definitions[c][t].data # "absent"
                    /\ definitions'[c][t] = [data |-> "Failed", version |-> 0]
<1>1. /\ definitions \in [ConnIds -> [Tables -> Definition]]
      /\ asked \in [ConnIds -> [Tables -> Nat]]
      /\ b.owner \in Owner
  BY DEF TypeInv, TypeOK, DefinitionTypes, KernelTypes
<1>2. CASE b.owner.kind = "Definition" /\ AbandonDefinition(b.owner.conn, b.owner.item)
  <2>. DEFINE d == b.owner.conn  u == b.owner.item
  <2>1. d \in ConnIds /\ u \in Tables /\ (b.owner = DefinitionOwner(c, t) <=> d = c /\ u = t)
    BY <1>1, <1>2 DEF Owner, DefinitionOwner
  <2>2. /\ definitions' = [definitions EXCEPT ![d][u] = IF @.data = "absent" THEN @
                                                ELSE [data |-> "Failed", version |-> 0]]
        /\ asked' = [asked EXCEPT ![d][u] = 0]
    BY <1>2 DEF AbandonDefinition
  <2>. HIDE DEF d, u
  <2>3. CASE d = c /\ u = t
    BY <1>1, <2>1, <2>2, <2>3
  <2>4. CASE ~(d = c /\ u = t)
    BY <1>1, <2>1, <2>2, <2>4
  <2>. QED  BY <2>3, <2>4
<1>3. CASE b.owner.kind # "Definition"
  <2>1. UNCHANGED <<definitions, asked>>
    BY <1>3 DEF Cancel, AbandonConnection, AbandonNode, AbandonPreview, AbandonQuery,
                AbandonTemplates, AbandonHistory, definitionVars
  <2>. QED  BY <1>3, <2>1 DEF DefinitionOwner
<1>. QED  BY <1>2, <1>3 DEF Cancel

LEMMA DescribedDefinition ==
    ASSUME TypeInv, Described, NEW c \in ConnIds, NEW t \in Tables
    PROVE  /\ asked' = asked
           /\ \/ /\ Head(events).owner # DefinitionOwner(c, t)
                 /\ definitions'[c][t] = definitions[c][t]
              \/ /\ Head(events).owner = DefinitionOwner(c, t)
                 /\ \/ /\ definitions[c][t].data = "absent"
                       /\ definitions'[c][t] = definitions[c][t]
                    \/ /\ definitions[c][t].data # "absent"
                       /\ Head(events).result.tag = "Ok"
                       /\ definitions'[c][t] =
                             [data |-> "Ready", version |-> Head(events).result.version]
                    \/ /\ definitions[c][t].data # "absent"
                       /\ definitions'[c][t] = [data |-> "Failed", version |-> 0]
<1>. DEFINE d == Head(events).owner.conn  u == Head(events).owner.item
            result == Head(events).result
<1>1. definitions \in [ConnIds -> [Tables -> Definition]]
  BY DEF TypeInv, TypeOK, DefinitionTypes
<1>2. Head(events) \in DefinitionEvent
  BY ReceiveTyped, EventKinds DEF TypeInv, TypeOK, Described
<1>3. d \in ConnIds /\ u \in Tables
      /\ (Head(events).owner = DefinitionOwner(c, t) <=> d = c /\ u = t)
  BY <1>2 DEF DefinitionEvent, EventOf, DefinitionOwners, DefinitionOwner
<1>4. /\ asked' = asked
      /\ \/ definitions[d][u].data = "absent" /\ definitions' = definitions
         \/ /\ definitions[d][u].data # "absent" /\ result.tag = "Ok"
            /\ definitions' = [definitions EXCEPT ![d][u] =
                                 [data |-> "Ready", version |-> result.version]]
         \/ /\ definitions[d][u].data # "absent"
            /\ definitions' = [definitions EXCEPT ![d][u] = [data |-> "Failed", version |-> 0]]
  BY DEF Described
<1>. HIDE DEF d, u, result
<1>5. CASE d = c /\ u = t
  BY <1>1, <1>3, <1>4, <1>5 DEF result
<1>6. CASE ~(d = c /\ u = t)
  BY <1>1, <1>3, <1>4, <1>6
<1>. QED  BY <1>5, <1>6

LEMMA NextDefinitionSpins ==
    ASSUME TypeInv, TokenInv, DefinitionSpins, [Next]_vars
    PROVE  DefinitionSpins'
<1>. SUFFICES ASSUME NEW c \in ConnIds, NEW t \in Tables, definitions'[c][t].data = "Loading"
              PROVE  Coming(DefinitionOwner(c, t))'
  BY DEF DefinitionSpins
<1>. DEFINE o == DefinitionOwner(c, t)
<1>1. o.kind = "Definition" /\ o.conn = c /\ NoDefinition.data = "absent"
  BY DEF DefinitionOwner, NoDefinition
<1>2. ASSUME NEW refresh \in BOOLEAN, NEW d \in ConnIds, NEW u \in Inspected,
             DescribeTable(d, u, refresh), o = DefinitionOwner(d, u)
      PROVE  Coming(o)'
  BY <1>2, BeginComes DEF DescribeTable
<1>3. definitions[c][t].data = "Loading" \/ Coming(o)'
  <2>1. UNCHANGED definitions \/ Coming(o)' \/ definitions[c][t].data = "Loading"
    <3>1. \A d \in ConnIds : Disconnect(d) => definitions[c][t].data = "Loading"
      BY <1>1, DisconnectDefinition
    <3>2. \A d \in ConnIds, u \in Inspected : 
             ForgetDefinition(d, u) => definitions[c][t].data = "Loading"
      BY <1>1, ForgetOneDefinition
    <3>3. \A d \in ConnIds, u \in Inspected, refresh \in BOOLEAN :
             DescribeTable(d, u, refresh) => definitions[c][t].data = "Loading" \/ Coming(o)'
      BY <1>2, DescribeDefinition
    <3>4. \A b \in busy : Cancel(b) => definitions[c][t].data = "Loading"
      BY CancelDefinition
    <3>5. Described => definitions[c][t].data = "Loading"
      BY DescribedDefinition
    <3>. QED  BY <3>1, <3>2, <3>3, <3>4, <3>5, DefinitionChanges
  <2>. QED  BY <2>1
<1>4. TakenFrom(o) => Coming(o)'
  <2>1. ~ \E d \in ConnIds : Disconnect(d) /\ \E b \in Orphaned(d) : b.owner = o
    BY <1>1, DisconnectDefinition DEF Orphaned
  <2>2. ~ \E d \in ConnIds, u \in Inspected :
             o = DefinitionOwner(d, u) /\ ForgetDefinition(d, u)
    <3>. SUFFICES ASSUME NEW d \in ConnIds, NEW u \in Inspected,
                         o = DefinitionOwner(d, u), ForgetDefinition(d, u)
                  PROVE  FALSE
      OBVIOUS
    <3>1. d = c /\ u = t
      BY DEF DefinitionOwner
    <3>2. definitions'[c][t] = NoDefinition
      BY <3>1, ForgetOneDefinition
    <3>. QED  BY <1>1, <3>2
  <2>3. ~ \E b \in busy : b.owner = o /\ Cancel(b)
    BY CancelDefinition
  <2>. QED  BY <1>2, <2>1, <2>2, <2>3, OwnersDiffer DEF TakenFrom
<1>5. ~(Handled /\ Head(events).owner = o)
  <2>. SUFFICES ASSUME Handled, Head(events).owner = o
                PROVE  FALSE
    OBVIOUS
  <2>1. Described
    BY <1>1 DEF Handled, Connected, Expanded, Previewed, Ran, Recorded,
                LibraryAnswered, Searched, Receive
  <2>. QED  BY <2>1, DescribedDefinition
<1>. QED  BY <1>3, <1>4, <1>5, SparedOrTaken, StillComing DEF DefinitionSpins

-----------------------------------------------------------------------------
(* Queries.                                                                 *)

\* Only these touch the queries and what is recorded of them.
LEMMA QueryChanges ==
    ASSUME [Next]_vars
    PROVE  \/ UNCHANGED <<queries, runs, approved, history, writing>>
           \/ \E c \in ConnIds : Disconnect(c)
           \/ \E q \in QueryIds : Asks(q) \/ ForgetQuery(q)
           \/ \E b \in busy : Cancel(b)
           \/ Ran \/ Recorded
           \/ \E w \in writing : RowInserted(w) \/ RowSettled(w)
<1>. DEFINE Same == UNCHANGED <<queries, runs, approved, history, writing>>
            Touched == \/ \E c \in ConnIds : Disconnect(c)
                       \/ \E q \in QueryIds : Asks(q) \/ ForgetQuery(q)
                       \/ \E b \in busy : Cancel(b)
            Noted == \E w \in writing : RowInserted(w) \/ RowSettled(w)
<1>1. Dispatched => Same \/ Touched
  <2>1. \A d \in ConnIds : Connect(d) => Same
    BY DEF Connect, queryVars, recordVars
  <2>2. \A d \in ConnIds, any \in BOOLEAN : OpenConnectionRow(d, any) => Same
    BY DEF OpenConnectionRow, queryVars, recordVars
  <2>3. \A d \in ConnIds, n \in Nodes, any \in BOOLEAN : OpenNode(d, n, any) => Same
    BY DEF OpenNode, queryVars, recordVars
  <2>4. \A d \in ConnIds, t \in Browsed :
          PreviewTable(d, t) \/ LoadMore(d, t) \/ ForgetPreview(d, t) => Same
    BY DEF PreviewTable, LoadMore, ForgetPreview, queryVars, recordVars
  <2>5. \A d \in ConnIds, t \in Browsed, column \in Nat : SortPreview(d, t, column) => Same
    BY DEF SortPreview, queryVars, recordVars
  <2>6. \A d \in ConnIds, t \in Inspected :
          /\ \A refresh \in BOOLEAN : DescribeTable(d, t, refresh) => Same
          /\ ForgetDefinition(d, t) => Same
    BY DEF DescribeTable, ForgetDefinition, queryVars, recordVars
  <2>7. \A op \in LibraryOps : \A item \in Items(op) : WithLibrary(op, item) => Same
    BY DEF WithLibrary, queryVars, recordVars
  <2>8. \A terms \in Terms : SearchHistory(terms) => Same
    BY DEF SearchHistory, queryVars, recordVars
  <2>. HIDE DEF Same
  <2>. QED
    BY <2>1, <2>2, <2>3, <2>4, <2>5, <2>6, <2>7, <2>8, Zenon DEF Dispatched, Asks
<1>2. Handled => Same \/ Ran \/ Recorded
  BY DEF Handled, Connected, Expanded, Previewed, Described, LibraryAnswered, Searched,
         queryVars, recordVars
<1>3. Next /\ ~Dispatched /\ ~Handled => Same \/ Noted
  <2>1. \A t \in tasks : Works(t) => Same
    BY DEF Works, ConnectAnswers, ExpandAnswers, PreviewAnswers, DescribeAnswers,
           DescribeSends, ServerExecutes, QueryStops, QuerySends, LibrarySends,
           SearchAnswers, queryVars, recordVars
  <2>2. \A j \in jobs : JobWrites(j) \/ JobReads(j) => Same
    BY DEF JobWrites, JobReads, queryVars, recordVars
  <2>3. Outside => Same
    BY DEF Outside, ActorDies, Alter, SchemaChanges, queryVars, recordVars
  <2>. QED  BY <2>1, <2>2, <2>3 DEF Next, Blocking
<1>4. UNCHANGED vars => Same
  BY DEF vars, queryVars, recordVars
<1>. HIDE DEF Same, Touched, Noted
<1>5. Same \/ Touched \/ Ran \/ Recorded \/ Noted
  BY <1>1, <1>2, <1>3, <1>4
<1>. QED  BY <1>5 DEF Same, Touched, Noted

\* What each of them leaves of one query.
LEMMA DisconnectQuery ==
    ASSUME TypeInv, NEW c \in ConnIds, Disconnect(c), NEW q \in QueryIds
    PROVE  /\ queries'[q].data = IF q \in QueriesCut(c) THEN "Failed" ELSE queries[q].data
           /\ queries'[q].conn = queries[q].conn
<1>1. queries[q] \in Query
  BY DEF TypeInv, TypeOK, QueryTypes
<1>2. queries'[q] = IF q \in QueriesCut(c) THEN [queries[q] EXCEPT !.data = "Failed"]
                                          ELSE queries[q]
  BY DEF Disconnect
<1>. QED  BY <1>1, <1>2 DEF Query

LEMMA CancelQuery ==
    ASSUME TypeInv, NEW b \in busy, Cancel(b), NEW q \in QueryIds
    PROVE  /\ queries'[q].conn = queries[q].conn
           /\ queries'[q].data = IF b.owner = QueryOwner(q) /\ Known(q) THEN "Failed"
                                 ELSE queries[q].data
<1>1. queries \in [QueryIds -> Query] /\ b.owner \in Owner
  BY DEF TypeInv, TypeOK, QueryTypes, KernelTypes
<1>2. CASE b.owner.kind = "Query" /\ AbandonQuery(b.owner.item)
  <2>. DEFINE p == b.owner.item
              left == [queries[p] EXCEPT !.data = IF Known(p) THEN "Failed" ELSE @]
  <2>1. p \in QueryIds /\ (b.owner = QueryOwner(q) <=> p = q)
    BY <1>1, <1>2 DEF Owner, QueryOwner
  <2>2. /\ left.conn = queries[p].conn
        /\ left.data = IF Known(p) THEN "Failed" ELSE queries[p].data
    BY <1>1, <2>1 DEF Query
  <2>3. queries' = [queries EXCEPT ![p] = left]
    BY <1>1, <1>2, <2>1 DEF AbandonQuery
  <2>. HIDE DEF left, p
  <2>. QED  BY <1>1, <2>1, <2>2, <2>3
<1>3. CASE b.owner.kind # "Query"
  <2>1. UNCHANGED queries
    BY <1>3 DEF Cancel, AbandonConnection, AbandonNode, AbandonPreview, AbandonDefinition,
                AbandonTemplates, AbandonHistory, queryVars
  <2>. QED  BY <1>3, <2>1 DEF QueryOwner
<1>. QED  BY <1>2, <1>3 DEF Cancel

LEMMA ForgottenQuery ==
    ASSUME TypeInv, NEW p \in QueryIds, ForgetQuery(p), NEW q \in QueryIds
    PROVE  /\ queries'[q].conn = queries[q].conn
           /\ queries'[q].data = IF p = q THEN "forgotten" ELSE queries[q].data
<1>. DEFINE gone == [queries[p] EXCEPT !.data = "forgotten", !.needs = FALSE]
<1>1. queries \in [QueryIds -> Query]
  BY DEF TypeInv, TypeOK, QueryTypes
<1>2. gone.data = "forgotten" /\ gone.conn = queries[p].conn
  BY <1>1 DEF Query
<1>3. queries' = [queries EXCEPT ![p] = gone]
  BY <1>1 DEF ForgetQuery
<1>. HIDE DEF gone
<1>. QED  BY <1>1, <1>2, <1>3

LEMMA AskedQuery ==
    ASSUME TypeInv, QueryInv, NEW p \in QueryIds, Asks(p), NEW q \in QueryIds
    PROVE  /\ p # q => queries'[q] = queries[q]
           /\ p = q => queries'[q].data = "Loading"
           /\ p = q => \/ queries[q].data = "absent"
                       \/ Known(q) /\ queries'[q].conn = queries[q].conn
           /\ \E req : Begin({}, QueryOwner(p), req)
           /\ queries'[p].conn \in ConnIds /\ conns[queries'[p].conn].session
<1>1. queries \in [QueryIds -> Query]
  BY DEF TypeInv, TypeOK, QueryTypes
<1>2. ASSUME NEW c \in ConnIds, NEW sql \in Statements,
             RunQuery(c, p, sql) \/ EstimateQuery(c, p, sql)
      PROVE  /\ queries' = [queries EXCEPT ![p] = [data |-> "Loading", conn |-> c,
                                                   sql |-> sql, needs |-> FALSE]]
             /\ queries[p].data = "absent" /\ conns[c].session
             /\ \E req : Begin({}, QueryOwner(p), req)
  BY <1>2 DEF RunQuery, EstimateQuery
<1>3. CASE ApproveQuery(p)
  <2>1. /\ Approve(queries[p]).data = "Loading"
        /\ Approve(queries[p]).conn = queries[p].conn
    BY <1>1 DEF Approve, Query
  <2>2. queries' = [queries EXCEPT ![p] = Approve(@)] /\ Known(p)
        /\ conns[queries[p].conn].session
        /\ Begin({}, QueryOwner(p), "Approved")
    BY <1>3 DEF ApproveQuery
  <2>3. queries[p].conn \in ConnIds
    BY <2>2 DEF QueryInv, QuerySafe, OnSettled, Known
  <2>. QED  BY <1>1, <2>1, <2>2, <2>3
<1>. QED  BY <1>1, <1>2, <1>3 DEF Asks

LEMMA RanQuery ==
    ASSUME TypeInv, Ran, NEW q \in QueryIds
    PROVE  /\ queries'[q].conn = queries[q].conn
           /\ Head(events).owner # QueryOwner(q) \/ ~Known(q) => queries'[q] = queries[q]
           /\ Head(events).owner = QueryOwner(q) /\ Known(q) =>
                 queries'[q].data \in {"Ready", "Idle", "Failed"}
<1>. DEFINE p == Head(events).owner.item  tag == Head(events).result.tag
            finished == [queries[p] EXCEPT !.data = DataAfter(tag),
                                         !.needs = @ \/ tag = "NeedsApproval"]
<1>1. queries \in [QueryIds -> Query]
  BY DEF TypeInv, TypeOK, QueryTypes
<1>2. p \in QueryIds /\ (Head(events).owner = QueryOwner(q) <=> p = q)
  BY ReceiveTyped, EventKinds
  DEF TypeInv, TypeOK, Ran, QueryEvent, EventOf, QueryOwners, QueryOwner
<1>3. finished.conn = queries[p].conn /\ finished.data \in {"Ready", "Idle", "Failed"}
  BY <1>1, <1>2 DEF Query, DataAfter
<1>4. queries' = IF Known(p) THEN [queries EXCEPT ![p] = finished] ELSE queries
  BY <1>1, <1>2 DEF Ran, queryVars
<1>. HIDE DEF p, finished
<1>. QED  BY <1>1, <1>2, <1>3, <1>4

LEMMA SameQueries ==
    ASSUME \/ UNCHANGED <<queries, runs, approved, history, writing>>
           \/ Recorded
           \/ \E w \in writing : RowInserted(w) \/ RowSettled(w)
    PROVE  UNCHANGED queries
BY DEF Recorded, RowInserted, RowSettled, queryVars

LEMMA NextQuerySpins ==
    ASSUME TypeInv, QueryInv, TokenInv, QuerySpins, [Next]_vars
    PROVE  QuerySpins'
<1>. SUFFICES ASSUME NEW q \in QueryIds, queries'[q].data = "Loading"
              PROVE  Coming(QueryOwner(q))'
  BY DEF QuerySpins
<1>. DEFINE o == QueryOwner(q)
<1>1. o.kind = "Query" /\ (Known(q) <=> queries[q].data \notin {"absent", "forgotten"})
  BY DEF QueryOwner, Known
<1>2. queries[q].data = "Loading" \/ Coming(o)'
  <2>1. \A c \in ConnIds : Disconnect(c) => queries[q].data = "Loading"
    BY DisconnectQuery
  <2>2. \A p \in QueryIds : ForgetQuery(p) => queries[q].data = "Loading"
    BY ForgottenQuery
  <2>3. \A p \in QueryIds : Asks(p) => queries[q].data = "Loading" \/ Coming(o)'
    BY AskedQuery, BeginComes
  <2>4. \A b \in busy : Cancel(b) => queries[q].data = "Loading"
    BY CancelQuery
  <2>5. Ran => queries[q].data = "Loading"
    BY RanQuery
  <2>. QED  BY <2>1, <2>2, <2>3, <2>4, <2>5, QueryChanges, SameQueries
<1>3. ~TakenFrom(o)
  <2>1. ~ \E c \in ConnIds : Disconnect(c) /\ \E b \in Orphaned(c) : b.owner = o
    BY DisconnectQuery DEF Orphaned, QueriesCut, Rows
  <2>2. ~ \E p \in QueryIds : o = QueryOwner(p) /\ ForgetQuery(p)
    BY ForgottenQuery DEF QueryOwner
  <2>3. ~ \E b \in busy : b.owner = o /\ Cancel(b)
    BY <1>1, CancelQuery
  <2>. QED  BY <2>1, <2>2, <2>3, OwnersDiffer DEF TakenFrom
<1>4. ~(Handled /\ Head(events).owner = o)
  <2>. SUFFICES ASSUME Handled, Head(events).owner = o
                PROVE  FALSE
    OBVIOUS
  <2>1. Ran
    BY <1>1 DEF Handled, Connected, Expanded, Previewed, Described, Recorded,
                LibraryAnswered, Searched, Receive
  <2>. QED  BY <1>1, <2>1, RanQuery
<1>. QED  BY <1>2, <1>3, <1>4, SparedOrTaken, StillComing DEF QuerySpins

-----------------------------------------------------------------------------
(* Whatever spins is answered.                                              *)

SpinInv == TokenInv /\ ConnSpins /\ NodeSpins /\ DefinitionSpins /\ QuerySpins

LEMMA NothingSpins == NothingYet /\ ConnSpins /\ NodeSpins => SpinInv
<1>. SUFFICES ASSUME NothingYet, ConnSpins, NodeSpins
              PROVE  SpinInv
  OBVIOUS
<1>1. DefinitionSpins /\ QuerySpins
  BY DEF NothingYet, NoDefinition, NoQuery, DefinitionSpins, QuerySpins
<1>. QED  BY <1>1, NothingTokens DEF SpinInv

LEMMA InitSpins == Init => SpinInv
<1>1. Init => ConnSpins /\ NodeSpins
  BY DEF Init, NewConn, EmptyTree, ConnSpins, NodeSpins
<1>. QED  BY <1>1, NothingSpins DEF Init

LEMMA SpinInvariant == Spec => [](TypeInv /\ ConnInv /\ QueryInv /\ SpinInv)
<1>1. TypeInv /\ ConnInv /\ QueryInv /\ SpinInv /\ [Next]_vars => SpinInv'
  BY NextIds, NextPreviewSpins, NextConnSpins, NextNodeSpins, NextDefinitionSpins,
     NextQuerySpins DEF SpinInv, TokenInv, PreviewSpins
<1>. QED  BY <1>1, InitSpins, ConnInvariant, QueryInvariant, PTL DEF Spec

LEMMA ComingIsOnItsWay ==
    ASSUME TypeInv, NEW owner
    PROVE  Coming(owner) <=> OnItsWay(owner)
<1>1. DOMAIN events = 1 .. Len(events)
  BY IdTypes
<1>2. Coming(owner) => OnItsWay(owner)
  BY <1>1, TokenKinds DEF Coming, OnItsWay
<1>3. \A x : Token(x).owner = x.owner
  BY DEF Token
<1>4. OnItsWay(owner) => Coming(owner)
  BY <1>1, <1>3 DEF Coming, OnItsWay, Tokens
<1>. QED  BY <1>2, <1>4

LEMMA SpinsAreAnswered ==
    ASSUME TypeInv, SpinInv
    PROVE  SpinnersAreAnswered
<1>1. CatalogueSpinnersAreAnswered
  BY ComingIsOnItsWay
  DEF SpinInv, ConnSpins, NodeSpins, DefinitionSpins, CatalogueSpinnersAreAnswered
<1>2. ASSUME NEW c \in ConnIds, NEW t \in Tables
      PROVE  LET p == previews[c][t]
             IN /\ p.data = "Loading" => p.pending # None
                /\ p.pending # None =>
                      \/ \E k \in tasks : k.id = p.pending.busy /\ k.req = p.pending.page
                      \/ \E i \in DOMAIN events : /\ events[i].id = p.pending.busy
                                                  /\ events[i].req = p.pending.page
  <2>. DEFINE p == previews[c][t]
              k == [owner |-> PreviewOwner(c, t), id |-> p.pending.busy, req |-> p.pending.page]
  <2>1. PreviewSpin(c, t) /\ DOMAIN events = 1 .. Len(events)
    BY IdTypes DEF SpinInv, TokenInv, PreviewSpins
  <2>2. k.id = p.pending.busy /\ k.req = p.pending.page
    OBVIOUS
  <2>3. p.pending # None => k \in Tokens
    BY <2>1 DEF PreviewSpin
  <2>. HIDE DEF k
  <2>4. k \in Tokens => \/ \E u \in tasks : u.id = k.id /\ u.req = k.req
                        \/ \E i \in DOMAIN events : events[i].id = k.id /\ events[i].req = k.req
    BY <2>1 DEF Tokens, Token
  <2>. QED  BY <2>1, <2>2, <2>3, <2>4 DEF PreviewSpin
<1>3. PreviewSpinnersAreAnswered
  BY <1>2 DEF PreviewSpinnersAreAnswered
<1>. QED  BY <1>1, <1>3 DEF SpinnersAreAnswered

\* A connection, a node, a definition or a preview that spins has a reply coming,
\* whatever was cancelled, closed, superseded or answered late around it (store.rs
\* `cancel`, `abandon`, `disconnect`, `fetch_page`).
THEOREM EverySpinnerIsAnswered == Spec => []SpinnersAreAnswered
<1>1. TypeInv /\ SpinInv => SpinnersAreAnswered
  BY SpinsAreAnswered
<1>. QED  BY <1>1, SpinInvariant, PTL

-----------------------------------------------------------------------------
(* A closed connection is quiet.                                             *)

\* Only a disconnect closes a connection.
LEMMA ClosedByDisconnect ==
    ASSUME TypeInv, ConnInv, [Next]_vars, NEW c \in ConnIds,
           conns'[c].status = "Closed"
    PROVE  conns[c].status = "Closed" \/ Disconnect(c)
<1>. DEFINE Was == conns[c].status = "Closed"
<1>1. TypeOK /\ conns \in [ConnIds -> Conn]
  BY DEF TypeInv, TypeOK, ConnectionTypes
<1>2. \A d \in ConnIds : /\ Refused(conns[d]).status = "Failed"
                         /\ Parted(conns[d], "Failed").status = "Failed"
                         /\ \A any : [conns[d] EXCEPT !.expanded = any].status = conns[d].status
  BY <1>1 DEF Refused, Parted, Conn
<1>3. NewConn.status = "Connecting" /\ Refused(NewConn).status = "Failed"
  BY DEF NewConn, Refused
<1>4. UNCHANGED conns => Was
  OBVIOUS
<1>5. \A d \in ConnIds : SessionDied(d) => Was
  BY <1>1, <1>2 DEF SessionDied
<1>6. CASE Dispatched
  <2>1. \A d \in ConnIds : Connect(d) => Was
    BY <1>1, <1>3 DEF Connect
  <2>2. \A d \in ConnIds : Disconnect(d) => Was \/ Disconnect(c)
    BY <1>1 DEF Disconnect
  <2>3. \A d \in ConnIds, any \in BOOLEAN : OpenConnectionRow(d, any) => Was
    BY OpenConnectionRowStays, <1>1 DEF ConnStays
  <2>4. \A b \in busy : Cancel(b) => Was
    <3>1. \A b \in busy : b.owner.kind = "Connection" => b.owner.conn \in ConnIds
      BY <1>1 DEF TypeOK, KernelTypes, Owner
    <3>2. \A d \in ConnIds : AbandonConnection(d) => Was
      BY <1>1, <1>2 DEF AbandonConnection
    <3>3. \A b \in busy : Cancel(b) =>
             \/ b.owner.kind = "Connection" /\ AbandonConnection(b.owner.conn)
             \/ UNCHANGED conns
      BY DEF Cancel, AbandonNode, AbandonPreview, AbandonDefinition, AbandonQuery,
             AbandonTemplates, AbandonHistory, connVars
    <3>. QED  BY <1>4, <3>1, <3>2, <3>3
  <2>. HIDE DEF Was
  <2>5. \A d \in ConnIds, n \in Nodes, any \in BOOLEAN : OpenNode(d, n, any) => Was
    BY <1>4 DEF OpenNode
  <2>6. \A d \in ConnIds, t \in Browsed :
          PreviewTable(d, t) \/ LoadMore(d, t) \/ ForgetPreview(d, t) => Was
    BY <1>4 DEF PreviewTable, LoadMore, ForgetPreview, connVars
  <2>7. \A d \in ConnIds, t \in Browsed, column \in Nat : SortPreview(d, t, column) => Was
    BY <1>4 DEF SortPreview, connVars
  <2>8. \A d \in ConnIds, t \in Inspected :
          /\ \A refresh \in BOOLEAN : DescribeTable(d, t, refresh) => Was
          /\ ForgetDefinition(d, t) => Was
    BY <1>4 DEF DescribeTable, ForgetDefinition, connVars
  <2>9. \A d \in ConnIds, q \in QueryIds, sql \in Statements :
          RunQuery(d, q, sql) \/ EstimateQuery(d, q, sql) => Was
    BY <1>4 DEF RunQuery, EstimateQuery, connVars
  <2>10. \A q \in QueryIds : ApproveQuery(q) \/ ForgetQuery(q) => Was
    BY <1>4 DEF ApproveQuery, ForgetQuery, connVars
  <2>11. \A op \in LibraryOps : \A item \in Items(op) : WithLibrary(op, item) => Was
    BY <1>4 DEF WithLibrary, connVars
  <2>12. \A terms \in Terms : SearchHistory(terms) => Was
    BY <1>4 DEF SearchHistory, connVars
  <2>13. Was \/ Disconnect(c)
    BY <1>6, <2>1, <2>2, <2>3, <2>4, <2>5, <2>6, <2>7, <2>8, <2>9, <2>10, <2>11, <2>12,
       Zenon DEF Dispatched
  <2>. QED  BY <2>13 DEF Was
<1>7. CASE Handled
  <2>1. Head(events).owner.conn \in ConnIds \/ ~(Connected \/ Expanded \/ Previewed)
    BY <1>1, ReceiveTyped, EventKinds
    DEF TypeOK, Connected, Expanded, Previewed, ConnectionEvent, NodeEvent, PreviewEvent,
        EventOf, ConnectionOwners, NodeOwners, PreviewOwners
  <2>2. Connected => Was
    <3>. SUFFICES ASSUME Connected
                  PROVE  Was
      OBVIOUS
    <3>. DEFINE d == Head(events).owner.conn  result == Head(events).result
    <3>1. d \in ConnIds /\ Opened(conns[d], result).status = "Ready"
      BY <1>1, <2>1 DEF Opened, Conn
    <3>. QED  BY <1>1, <1>2, <3>1 DEF Connected, connVars
  <2>3. Expanded \/ Previewed => Was
    BY <1>4, <1>5, <2>1 DEF Expanded, Previewed
  <2>. HIDE DEF Was
  <2>4. Was
    BY <1>4, <1>7, <2>2, <2>3
    DEF Handled, Described, Ran, Recorded, LibraryAnswered, Searched, connVars
  <2>. QED  BY <2>4 DEF Was
<1>8. CASE Next /\ ~Dispatched /\ ~Handled
  BY <1>8, WorksConns, RestConns DEF Next
<1>9. CASE UNCHANGED vars
  BY <1>9 DEF vars, connVars
<1>. QED  BY <1>6, <1>7, <1>8, <1>9

\* Whose rows appear: only of what has just been asked for.
GivenTo(o) ==
    \/ \E c \in ConnIds : Connect(c) /\ o = ConnectionOwner(c)
    \/ \E c \in ConnIds, n \in Nodes, any \in BOOLEAN : OpenNode(c, n, any) /\ o = NodeOwner(c, n)
    \/ \E c \in ConnIds, t \in Browsed : AsksForPage(c, t) /\ o = PreviewOwner(c, t)
    \/ \E c \in ConnIds, t \in Inspected, refresh \in BOOLEAN :
          DescribeTable(c, t, refresh) /\ o = DefinitionOwner(c, t)
    \/ \E q \in QueryIds : Asks(q) /\ o = QueryOwner(q)
    \/ o \in {TemplatesOwner, HistoryOwner}

LEMMA BeginRow ==
    ASSUME NEW ids, NEW owner, NEW req, Begin(ids, owner, req), NEW b \in busy', b \notin busy
    PROVE  b.owner = owner
BY DEF Begin

LEMMA NewRows ==
    ASSUME TypeInv, QueryInv, [Next]_vars, NEW b \in busy', b \notin busy
    PROVE  GivenTo(b.owner)
<1>1. \A ids : ~DropTasks(ids)
  BY DEF DropTasks
<1>2. ~UNCHANGED busy
  OBVIOUS
<1>3. \A kind : ~Receive(kind)
  BY DEF Receive
<1>4. ~Handled
  BY <1>3 DEF Handled, Connected, Expanded, Previewed, Described, Ran, Recorded,
              LibraryAnswered, Searched
<1>5. Dispatched
  <2>1. ~(Next /\ ~Dispatched /\ ~Handled)
    <3>1. \A t \in tasks : \A result : ~Send(t, result) /\ ~Answer(t, result)
      BY <1>2 DEF Send, Answer
    <3>2. \A t \in tasks : ~Works(t)
      BY <3>1 DEF Works, ConnectAnswers, ExpandAnswers, PreviewAnswers, DescribeAnswers,
                  DescribeSends, ServerExecutes, QueryStops, QuerySends, LibrarySends,
                  SearchAnswers
    <3>. QED  BY <1>2, <3>2 DEF Next, Blocking, RowInserted, RowSettled, JobWrites,
                                JobReads, Outside, ActorDies, Alter, SchemaChanges, kernelVars
  <2>. QED  BY <1>2, <1>4, <2>1 DEF vars, kernelVars
<1>6. \A c \in ConnIds : ~Disconnect(c) /\ (Connect(c) => b.owner = ConnectionOwner(c))
  BY <1>1, <1>2, BeginRow DEF Disconnect, Connect, kernelVars
<1>7. \A c \in ConnIds, any \in BOOLEAN : ~OpenConnectionRow(c, any)
  BY <1>2 DEF OpenConnectionRow, kernelVars
<1>8. \A c \in ConnIds, n \in Nodes, any \in BOOLEAN :
        OpenNode(c, n, any) => b.owner = NodeOwner(c, n)
  BY <1>2, BeginRow DEF OpenNode, kernelVars
<1>9. \A c \in ConnIds, t \in Browsed : AsksForPage(c, t) => b.owner = PreviewOwner(c, t)
  <2>. SUFFICES ASSUME NEW c \in ConnIds, NEW t \in Browsed, AsksForPage(c, t)
                PROVE  b.owner = PreviewOwner(c, t)
    OBVIOUS
  <2>1. t \in Tables
    BY DEF Tables
  <2>2. \E p, page, append : FetchPage(c, t, p, page, append)
    BY <2>1, Fetches DEF AsksForPage
  <2>. QED  BY <2>2, BeginRow DEF FetchPage
<1>10. \A c \in ConnIds, t \in Browsed : ~ForgetPreview(c, t)
  BY <1>1 DEF ForgetPreview
<1>11. \A c \in ConnIds, t \in Inspected :
         /\ \A refresh \in BOOLEAN :
               DescribeTable(c, t, refresh) => b.owner = DefinitionOwner(c, t)
         /\ ~ForgetDefinition(c, t)
  BY <1>1, BeginRow DEF DescribeTable, ForgetDefinition
<1>12. \A q \in QueryIds : /\ Asks(q) => b.owner = QueryOwner(q)
                           /\ ~ForgetQuery(q)
  BY <1>1, BeginRow, AskedQuery DEF ForgetQuery
<1>13. \A op \in LibraryOps : \A item \in Items(op) :
         WithLibrary(op, item) => b.owner = TemplatesOwner
  BY <1>2, BeginRow DEF WithLibrary, kernelVars
<1>14. \A terms \in Terms : SearchHistory(terms) => b.owner = HistoryOwner
  BY <1>2, BeginRow DEF SearchHistory, kernelVars
<1>15. \A r \in busy : ~Cancel(r)
  BY <1>1 DEF Cancel
<1>16. \/ \E c \in ConnIds : Connect(c)
       \/ \E c \in ConnIds, n \in Nodes, any \in BOOLEAN : OpenNode(c, n, any)
       \/ \E c \in ConnIds, t \in Browsed : AsksForPage(c, t)
       \/ \E c \in ConnIds, t \in Inspected, refresh \in BOOLEAN : DescribeTable(c, t, refresh)
       \/ \E q \in QueryIds : Asks(q)
       \/ \E op \in LibraryOps : \E item \in Items(op) : WithLibrary(op, item)
       \/ \E terms \in Terms : SearchHistory(terms)
  BY <1>5, <1>6, <1>7, <1>10, <1>11, <1>12, <1>15, Zenon DEF Dispatched, AsksForPage, Asks
<1>. QED
  BY <1>6, <1>8, <1>9, <1>11, <1>12, <1>13, <1>14, <1>16 DEF GivenTo

\* A query is for one connection from when it is named, and it is known until it is
\* forgotten.
LEMMA QueryStays ==
    ASSUME TypeInv, QueryInv, [Next]_vars, NEW q \in QueryIds, Known(q)
    PROVE  /\ queries'[q].conn = queries[q].conn
           /\ Known(q)' \/ ForgetQuery(q)
<1>1. \A c \in ConnIds :
        Disconnect(c) => queries'[q].conn = queries[q].conn /\ Known(q)'
  BY DisconnectQuery DEF Known
<1>2. \A p \in QueryIds :
        ForgetQuery(p) => queries'[q].conn = queries[q].conn /\ (Known(q)' \/ p = q)
  BY ForgottenQuery DEF Known
<1>3. \A p \in QueryIds : Asks(p) => queries'[q].conn = queries[q].conn /\ Known(q)'
  BY AskedQuery DEF Known
<1>4. \A b \in busy : Cancel(b) => queries'[q].conn = queries[q].conn /\ Known(q)'
  BY CancelQuery DEF Known
<1>5. Ran => queries'[q].conn = queries[q].conn /\ Known(q)'
  BY RanQuery DEF Known
<1>6. UNCHANGED queries => queries'[q].conn = queries[q].conn /\ Known(q)'
  BY DEF Known
<1>. QED  BY <1>1, <1>2, <1>3, <1>4, <1>5, <1>6, QueryChanges, SameQueries

LEMMA NextRowsKnown ==
    ASSUME TypeInv, QueryInv, RowsAreKnown, [Next]_vars
    PROVE  RowsAreKnown'
<1>. SUFFICES ASSUME NEW b \in busy', b.owner.kind = "Query"
              PROVE  Known(b.owner.item)'
  BY DEF RowsAreKnown
<1>1. CASE b \in busy
  <2>. DEFINE q == b.owner.item
  <2>1. q \in QueryIds /\ b.owner = QueryOwner(q)
    BY <1>1 DEF TypeInv, TypeOK, KernelTypes, Owner, QueryOwner
  <2>2. ~ForgetQuery(q)
    BY <1>1, <2>1 DEF ForgetQuery, DropTasks, IdsOf, Rows
  <2>. QED  BY <1>1, <2>1, <2>2, QueryStays DEF RowsAreKnown
<1>2. CASE b \notin busy
  <2>. DEFINE o == b.owner
  <2>0. /\ \A c : o # ConnectionOwner(c)
        /\ \A c, x : o # NodeOwner(c, x) /\ o # PreviewOwner(c, x) /\ o # DefinitionOwner(c, x)
        /\ o # TemplatesOwner /\ o # HistoryOwner
    BY DEF ConnectionOwner, NodeOwner, PreviewOwner, DefinitionOwner, TemplatesOwner,
           HistoryOwner
  <2>. HIDE DEF o
  <2>1. PICK q \in QueryIds : Asks(q) /\ b.owner = QueryOwner(q)
    <3>1. GivenTo(o)
      BY <1>2, NewRows DEF o
    <3>. QED  BY <2>0, <3>1, Zenon DEF GivenTo, o
  <2>2. queries'[q].data = "Loading" /\ b.owner.item = q
    BY <2>1, AskedQuery DEF QueryOwner
  <2>. QED  BY <2>2 DEF Known
<1>. QED  BY <1>1, <1>2

\* Nothing is given to a closed connection.
LEMMA NothingGiven ==
    ASSUME TypeInv, ConnInv, QueryInv, NEW c \in ConnIds, conns[c].status = "Closed", NEW o,
           GivenTo(o)
    PROVE  ConnOf(o)' # c
<1>1. \A d \in ConnIds : conns[d].session \/ conns[d].status = "absent" => d # c
  BY DEF ConnInv, ConnSafe
<1>2. \A d \in ConnIds : Connect(d) => d # c
  BY <1>1 DEF Connect
<1>3. \A d \in ConnIds, n \in Nodes, any \in BOOLEAN : OpenNode(d, n, any) => d # c
  BY <1>1 DEF OpenNode
<1>4. \A d \in ConnIds, t \in Browsed : AsksForPage(d, t) => d # c
  BY <1>1 DEF AsksForPage, PreviewTable, LoadMore, SortPreview
<1>5. \A d \in ConnIds, t \in Inspected, refresh \in BOOLEAN :
        DescribeTable(d, t, refresh) => d # c
  BY <1>1 DEF DescribeTable
<1>6. \A q \in QueryIds : Asks(q) => queries'[q].conn # c
  BY <1>1, AskedQuery
<1>7. None # c
  BY AbsentAssumption DEF AbsentAssumption
<1>. QED
  BY <1>2, <1>3, <1>4, <1>5, <1>6, <1>7
  DEF GivenTo, ConnOf, ConnectionOwner, NodeOwner, PreviewOwner, DefinitionOwner, QueryOwner,
      TemplatesOwner, HistoryOwner

\* What is shown of a closed connection is shown of none.
LEMMA AbsentStays ==
    ASSUME TypeInv, TokenInv, [Next]_vars, NEW c \in ConnIds, NEW t \in Tables
    PROVE  /\ previews[c][t].data = "absent" =>
                 previews'[c][t].data = "absent" \/ AsksForPage(c, t)
           /\ definitions[c][t].data = "absent" =>
                 \/ definitions'[c][t].data = "absent"
                 \/ \E refresh \in BOOLEAN : DescribeTable(c, t, refresh)
<1>1. NoPreview.data = "absent" /\ NoDefinition.data = "absent"
  BY DEF NoPreview, NoDefinition
<1>2. Browsed \subseteq Tables /\ Inspected \subseteq Tables
  BY DEF Tables
<1>3. ASSUME previews[c][t].data = "absent"
      PROVE  previews'[c][t].data = "absent" \/ AsksForPage(c, t)
  <2>. DEFINE Stays == previews'[c][t].data = "absent"
  <2>1. \A d \in ConnIds : Disconnect(d) => Stays
    BY <1>1, <1>3, DisconnectPreviews
  <2>2. \A d \in ConnIds, u \in Browsed : ForgetPreview(d, u) => Stays
    BY <1>1, <1>2, <1>3, ForgetPreviews
  <2>3. \A d \in ConnIds, u \in Browsed : AsksForPage(d, u) => Stays \/ AsksForPage(c, t)
    BY <1>2, <1>3, AskedPreviews
  <2>4. ASSUME NEW b \in busy, Cancel(b)
        PROVE  Stays
    <3>1. previews \in [ConnIds -> [Tables -> Preview]] /\ b.owner \in Owner
      BY DEF TypeInv, TypeOK, PreviewTypes, KernelTypes
    <3>2. CASE b.owner.kind = "Preview" /\ AbandonPreview(b.owner.conn, b.owner.item)
      <4>1. b.owner.conn \in ConnIds /\ b.owner.item \in Tables
        BY <3>1, <3>2 DEF Owner
      <4>2. GivenUp(previews[c][t]) = previews[c][t]
        BY <1>3 DEF GivenUp
      <4>. QED  BY <1>3, <3>1, <3>2, <4>1, <4>2 DEF AbandonPreview
    <3>3. CASE UNCHANGED previews
      BY <1>3, <3>3
    <3>. QED  BY <2>4, <3>2, <3>3 DEF Cancel, AbandonConnection, AbandonNode,
                AbandonDefinition, AbandonQuery, AbandonTemplates, AbandonHistory, previewVars
  <2>5. Previewed => Stays
    <3>. SUFFICES ASSUME Previewed
                  PROVE  Stays
      OBVIOUS
    <3>. DEFINE d == Head(events).owner.conn  u == Head(events).owner.item
    <3>1. d \in ConnIds /\ u \in Tables
      BY ReceiveTyped, EventKinds
      DEF TypeInv, TypeOK, Previewed, PreviewEvent, EventOf, PreviewOwners
    <3>2. previews \in [ConnIds -> [Tables -> Preview]]
      BY DEF TypeInv, TypeOK, PreviewTypes
    <3>3. ~Awaits(previews[c][t], Head(events).req)
      BY <1>3 DEF Awaits, TokenInv, PreviewSpins, PreviewSpin
    <3>. QED  BY <1>3, <3>1, <3>2, <3>3 DEF Previewed
  <2>. QED  BY <1>3, <2>1, <2>2, <2>3, <2>4, <2>5, PreviewChanges
<1>4. ASSUME definitions[c][t].data = "absent"
      PROVE  \/ definitions'[c][t].data = "absent"
             \/ \E refresh \in BOOLEAN : DescribeTable(c, t, refresh)
  <2>. DEFINE Stays == definitions'[c][t].data = "absent"
  <2>1. \A d \in ConnIds : Disconnect(d) => Stays
    BY <1>1, <1>4, DisconnectDefinition
  <2>2. \A d \in ConnIds, u \in Inspected : ForgetDefinition(d, u) => Stays
    BY <1>1, <1>4, ForgetOneDefinition
  <2>3. \A d \in ConnIds, u \in Inspected, refresh \in BOOLEAN :
          DescribeTable(d, u, refresh) => Stays \/ (d = c /\ u = t)
    BY <1>4, DescribeDefinition
  <2>4. \A b \in busy : Cancel(b) => Stays
    BY <1>4, CancelDefinition
  <2>5. Described => Stays
    BY <1>4, DescribedDefinition
  <2>. QED  BY <1>4, <2>1, <2>2, <2>3, <2>4, <2>5, DefinitionChanges
<1>. QED  BY <1>3, <1>4

LEMMA NextQuieted ==
    ASSUME TypeInv, ConnInv, QueryInv, TokenInv, QuietInv, [Next]_vars, NEW c \in ConnIds
    PROVE  Quieted(c)'
<1>. SUFFICES ASSUME conns'[c].status = "Closed"
              PROVE  /\ \A b \in busy' : ConnOf(b.owner)' # c
                     /\ \A t \in Tables : /\ previews'[c][t].data = "absent"
                                          /\ definitions'[c][t].data = "absent"
  BY DEF Quieted
<1>1. \A b \in busy : b.owner \in Owner
  BY DEF TypeInv, TypeOK, KernelTypes
<1>2. ASSUME NEW b \in busy, b \in busy'
      PROVE  ConnOf(b.owner)' = ConnOf(b.owner)
  <2>1. CASE b.owner.kind = "Query"
    <3>1. b.owner.item \in QueryIds /\ Known(b.owner.item)
      BY <1>1, <2>1 DEF Owner, QuietInv, RowsAreKnown
    <3>. QED  BY <2>1, <3>1, QueryStays DEF ConnOf
  <2>2. CASE b.owner.kind # "Query"
    BY <2>2 DEF ConnOf
  <2>. QED  BY <2>1, <2>2
<1>3. CASE Disconnect(c)
  <2>1. ASSUME NEW b \in busy'
        PROVE  ConnOf(b.owner)' # c
    <3>1. b \in busy /\ b.id \notin IdsOf(Orphaned(c))
      BY <1>3 DEF Disconnect, DropTasks
    <3>2. b \notin Orphaned(c)
      BY <3>1 DEF IdsOf
    <3>3. ConnOf(b.owner) # c
      BY <3>1, <3>2 DEF Orphaned, ConnOf, QuietInv, RowsAreKnown
    <3>. QED  BY <1>2, <3>1, <3>3
  <2>2. NoPreview.data = "absent" /\ NoDefinition.data = "absent"
    BY DEF NoPreview, NoDefinition
  <2>. QED  BY <1>3, <2>1, <2>2, DisconnectPreviews, DisconnectDefinition
<1>4. CASE ~Disconnect(c)
  <2>1. conns[c].status = "Closed" /\ ~conns[c].session
    BY <1>4, ClosedByDisconnect DEF ConnInv, ConnSafe
  <2>2. Quieted(c)
    BY DEF QuietInv
  <2>3. ASSUME NEW b \in busy'
        PROVE  ConnOf(b.owner)' # c
    <3>1. CASE b \in busy
      BY <1>2, <2>1, <2>2, <3>1 DEF Quieted
    <3>2. CASE b \notin busy
      BY <2>1, <3>2, NewRows, NothingGiven
    <3>. QED  BY <3>1, <3>2
  <2>4. ASSUME NEW t \in Tables
        PROVE  previews'[c][t].data = "absent" /\ definitions'[c][t].data = "absent"
    <3>1. ~AsksForPage(c, t)
      BY <2>1 DEF AsksForPage, PreviewTable, LoadMore, SortPreview
    <3>2. \A refresh \in BOOLEAN : ~DescribeTable(c, t, refresh)
      BY <2>1 DEF DescribeTable
    <3>. QED  BY <2>1, <2>2, <3>1, <3>2, AbsentStays DEF Quieted
  <2>. QED  BY <2>3, <2>4
<1>. QED  BY <1>3, <1>4

LEMMA NothingQuiet == NothingYet => QuietInv
BY DEF NothingYet, NoPreview, NoDefinition, QuietInv, RowsAreKnown, Quieted

LEMMA QuietInvariant == Spec => [](TypeInv /\ ConnInv /\ TokenInv /\ QuietInv)
<1>1. TypeInv /\ ConnInv /\ QueryInv /\ SpinInv /\ QuietInv /\ [Next]_vars => QuietInv'
  BY NextRowsKnown, NextQuieted DEF QuietInv, SpinInv
<1>2. SpinInv => TokenInv
  BY DEF SpinInv
<1>3. Init => QuietInv
  BY NothingQuiet DEF Init
<1>. QED  BY <1>1, <1>2, <1>3, SpinInvariant, PTL DEF Spec

LEMMA QuietAreQuiet == TypeInv /\ ConnInv /\ TokenInv /\ QuietInv => ClosedIsQuiet
<1>. SUFFICES ASSUME TypeInv, TokenInv, QuietInv, NEW c \in ConnIds,
                     conns[c].status = "Closed"
              PROVE  /\ \A b \in busy : ConnOf(b.owner) # c
                     /\ \A t \in tasks : ConnOf(t.owner) # c
                     /\ \A t \in Tables : /\ previews[c][t].data = "absent"
                                          /\ definitions[c][t].data = "absent"
  BY DEF ClosedIsQuiet
<1>1. Quieted(c)
  BY DEF QuietInv
<1>2. ASSUME NEW t \in tasks
      PROVE  ConnOf(t.owner) # c
  <2>. DEFINE b == [id |-> t.id, owner |-> t.owner]
  <2>1. b \in busy /\ b.owner = t.owner
    BY DEF TokenInv, Ids, TaskIds
  <2>. HIDE DEF b
  <2>. QED  BY <1>1, <2>1 DEF Quieted
<1>. QED  BY <1>1, <1>2 DEF Quieted

\* disconnect leaves nothing behind, and nothing that was in the channel brings
\* any of it back: a closed connection has no busy row, no task, no rows and no
\* definition (store.rs `disconnect`, `previewed`, `described`).
THEOREM ClosedConnectionIsQuiet == Spec => []ClosedIsQuiet
<1>1. TypeInv /\ ConnInv /\ TokenInv /\ QuietInv => ClosedIsQuiet
  BY QuietAreQuiet
<1>. QED  BY <1>1, QuietInvariant, PTL

\* A row that is not the closed connection's stays.
LEMMA DisconnectedStays ==
    ASSUME TypeInv, ConnInv, TokenInv, QuietInv, [Next]_vars, NEW c \in ConnIds,
           conns[c].status # "Closed", conns'[c].status = "Closed",
           NEW b \in busy, ConnOf(b.owner) # c
    PROVE  b \in busy'
<1>1. Disconnect(c)
  BY ClosedByDisconnect
<1>2. b \notin Orphaned(c)
  <2>1. b.owner.kind = "Query" => b.owner.conn = None
    BY DEF TypeInv, TypeOK, KernelTypes, Owner
  <2>2. None # c
    BY AbsentAssumption DEF AbsentAssumption
  <2>. QED  BY <2>1, <2>2 DEF Orphaned, ConnOf
<1>3. \A d \in Orphaned(c) : d \in busy /\ d.id # b.id
  BY <1>2 DEF Orphaned, TokenInv, Ids, RowIds
<1>. QED  BY <1>1, <1>3 DEF Disconnect, DropTasks, IdsOf

\* A disconnect takes the rows of its own connection and no others: rows are found
\* by whose work they are, and an id is nobody else's (store.rs `disconnect`).
THEOREM DisconnectTakesItsOwn == Spec => DisconnectIsLocal
<1>1. TypeInv /\ ConnInv /\ TokenInv /\ QuietInv /\ [Next]_vars =>
        [\A c \in ConnIds :
            conns[c].status # "Closed" /\ conns'[c].status = "Closed" =>
                \A b \in busy : ConnOf(b.owner) # c => b \in busy']_<<conns, busy>>
  <2>. SUFFICES ASSUME TypeInv, ConnInv, TokenInv, QuietInv, [Next]_vars, NEW c \in ConnIds,
                       conns[c].status # "Closed", conns'[c].status = "Closed",
                       NEW b \in busy, ConnOf(b.owner) # c
                PROVE  b \in busy'
    OBVIOUS
  <2>. QED  BY DisconnectedStays
<1>. QED  BY <1>1, QuietInvariant, PTL DEF Spec, DisconnectIsLocal

=============================================================================
