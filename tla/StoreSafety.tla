---------------------------- MODULE StoreSafety ----------------------------
(***************************************************************************)
(* Safety of the store, for every value of the constants: a connection reads *)
(* Ready exactly when it has a session, and the server executes a statement  *)
(* at most once, and only what the gate and the user let through.            *)
(*                                                                         *)
(* Both rest on one fact about the bookkeeping: a connection, and a query,    *)
(* has at most one token -- a running task or an unhandled event -- at once.  *)
(* `Kept` says what a step of somebody else's does to an owner's tokens.     *)
(***************************************************************************)
EXTENDS StoreTypes

\* The tokens of an owner: its tasks, and its events by their places and as such.
Mine(owner) == {t \in tasks : t.owner = owner}
Places(owner) == {i \in 1 .. Len(events) : events[i].owner = owner}
Messages(owner) == {events[i] : i \in Places(owner)}

\* Nothing is on its way for this owner, and nothing is in the status bar.
Idle(owner) == Mine(owner) = {} /\ Places(owner) = {} /\ Rows(owner) = {}

\* At most one token.
Lone(owner) ==
    /\ \A t, u \in Mine(owner) : t = u
    /\ \A i, j \in Places(owner) : i = j
    /\ Mine(owner) = {} \/ Places(owner) = {}

\* Every connection reads Ready exactly when it has a session; one that is still
\* waiting for its answer has none, and one nobody asked for waits for none.
ConnSafe(c) ==
    /\ conns[c].session <=> conns[c].status = "Ready"
    /\ Lone(ConnectionOwner(c))
    /\ Mine(ConnectionOwner(c)) # {} \/ Places(ConnectionOwner(c)) # {} =>
          conns[c].status \notin {"absent", "Ready"}

\* The gate lets writes through only where the profile does.
MayRun(q) == queries[q].sql.writes => conns[queries[q].conn].access = "ReadWrite"

\* A query that is to be asked about: nothing was sent, nobody has said yes, and
\* it is not one the gate stops altogether.
Askable(q) == sent[q] = 0 /\ q \notin approved /\ MayRun(q)

Tags == {"Ok", "Err", "SessionClosed", "Refused", "NeedsApproval", "Estimated"}

AsksForApproval(answer) == answer # None /\ answer.tag = "NeedsApproval"

\* What a task of the query may still do.
TaskSafe(q, t) ==
    /\ t.req = "Approved" <=> q \in approved
    /\ t.got = None => sent[q] = 0
    /\ AsksForApproval(t.got) => Askable(q)

\* Once a query has been named, its connection has been opened, so what its
\* profile allows no longer changes.
Decided(c) == conns[c].status \notin {"absent", "Connecting"}

OnSettled(q) == queries[q].conn \in ConnIds /\ Decided(queries[q].conn)

QuerySafe(q) ==
    /\ Lone(QueryOwner(q))
    /\ queries[q].data = "absent" =>
          /\ Idle(QueryOwner(q))
          /\ sent[q] = 0
          /\ ~queries[q].needs
          /\ q \notin approved
    /\ queries[q].data # "absent" => OnSettled(q)
    /\ queries[q].needs =>
          /\ Askable(q)
          /\ Mine(QueryOwner(q)) = {}
          /\ Places(QueryOwner(q)) = {}
    /\ sent[q] <= 1
    /\ sent[q] > 0 => MayRun(q) /\ (Budgeted /\ queries[q].sql.dear => q \in approved)
    /\ q \in approved => MayRun(q)
    /\ \A t \in Mine(QueryOwner(q)) : TaskSafe(q, t)
    /\ \A e \in Messages(QueryOwner(q)) : AsksForApproval(e.result) => Askable(q)

ConnInv == \A c \in ConnIds : ConnSafe(c)
QueryInv == \A q \in QueryIds : QuerySafe(q)

-----------------------------------------------------------------------------
(* What the bookkeeping does to the tokens of an owner it is not about.      *)

\* Tokens and rows only go, and two of them do not come from one.
Kept(owner) ==
    /\ Mine(owner)' \subseteq Mine(owner)
    /\ Messages(owner)' \subseteq Messages(owner)
    /\ Rows(owner)' \subseteq Rows(owner)
    /\ Places(owner) = {} => Places(owner)' = {}
    /\ Lone(owner) => Lone(owner)'

\* Places and messages after an event is appended, or the oldest is taken.
LEMMA Appended ==
    ASSUME events \in Seq(Event), NEW m, events' = Append(events, m), NEW owner
    PROVE  /\ m.owner # owner => /\ Places(owner)' = Places(owner)
                                /\ Messages(owner)' = Messages(owner)
           /\ m.owner = owner => /\ Places(owner)' = Places(owner) \cup {Len(events) + 1}
                                /\ Messages(owner)' = Messages(owner) \cup {m}
<1>1. Len(events) \in Nat /\ Len(events') = Len(events) + 1
  OBVIOUS
<1>2. \A i \in 1 .. Len(events) : events'[i] = events[i]
  OBVIOUS
<1>3. events'[Len(events) + 1] = m
  OBVIOUS
<1>4. 1 .. Len(events') = 1 .. Len(events) \cup {Len(events) + 1}
  BY <1>1
<1>5. m.owner # owner => Places(owner)' = Places(owner)
  BY <1>2, <1>3, <1>4 DEF Places
<1>6. m.owner = owner => Places(owner)' = Places(owner) \cup {Len(events) + 1}
  BY <1>2, <1>3, <1>4 DEF Places
<1>7. \A i \in Places(owner) : events'[i] = events[i]
  BY <1>2 DEF Places
<1>8. Messages(owner)' = {events'[i] : i \in Places(owner)'}
  BY DEF Messages
<1>9. m.owner # owner => Messages(owner)' = Messages(owner)
  BY <1>5, <1>7, <1>8 DEF Messages
<1>10. m.owner = owner => Messages(owner)' = Messages(owner) \cup {m}
  BY <1>3, <1>6, <1>7, <1>8 DEF Messages
<1>. QED  BY <1>5, <1>6, <1>9, <1>10

LEMMA Taken ==
    ASSUME events \in Seq(Event), events # <<>>, events' = Tail(events), NEW owner
    PROVE  /\ \A i \in Places(owner)' : i + 1 \in Places(owner) /\ events'[i] = events[i + 1]
           /\ \A i \in Places(owner)' : i \in Nat /\ i >= 1
           /\ Messages(owner)' \subseteq Messages(owner)
           /\ Head(events).owner = owner => 1 \in Places(owner) /\ Head(events) = events[1]
<1>1. Len(events) \in Nat /\ Len(events) >= 1 /\ Len(events') = Len(events) - 1
  OBVIOUS
<1>2. \A i \in 1 .. Len(events') : i + 1 \in 1 .. Len(events) /\ events'[i] = events[i + 1]
  BY <1>1
<1>3. Head(events) = events[1]
  OBVIOUS
<1>4. \A i \in Places(owner)' : i + 1 \in Places(owner) /\ events'[i] = events[i + 1]
  BY <1>2 DEF Places
<1>5. \A i \in Places(owner)' : i \in Nat /\ i >= 1
  BY <1>1 DEF Places
<1>6. Messages(owner)' \subseteq Messages(owner)
  BY <1>4 DEF Messages
<1>7. Head(events).owner = owner => 1 \in Places(owner)
  BY <1>1, <1>3 DEF Places
<1>. QED  BY <1>3, <1>4, <1>5, <1>6, <1>7

LEMMA BeginKeeps ==
    ASSUME NEW ids, NEW owner, NEW req, Begin(ids, owner, req), NEW other, other # owner
    PROVE  Kept(other)
BY DEF Begin, Kept, Mine, Places, Messages, Rows, Lone

LEMMA DropKeeps ==
    ASSUME NEW ids, DropTasks(ids), NEW owner
    PROVE  Kept(owner)
BY DEF DropTasks, Kept, Mine, Places, Messages, Rows, Lone

LEMMA ReceiveKeeps ==
    ASSUME events \in Seq(Event), NEW kind, Receive(kind), NEW owner
    PROVE  /\ Kept(owner)
           /\ Head(events).owner = owner /\ Lone(owner) =>
                 Mine(owner)' = {} /\ Places(owner)' = {}
<1>1. events # <<>> /\ events' = Tail(events) /\ tasks' = tasks
  BY DEF Receive
<1>2. Mine(owner)' = Mine(owner) /\ Rows(owner)' \subseteq Rows(owner)
  BY DEF Receive, Mine, Rows
<1>3. Lone(owner) => Lone(owner)'
  BY <1>1, <1>2, Taken DEF Lone
<1>4. Kept(owner)
  BY <1>1, <1>2, <1>3, Taken DEF Kept
<1>5. ASSUME Head(events).owner = owner, Lone(owner)
      PROVE  Mine(owner)' = {} /\ Places(owner)' = {}
  <2>1. 1 \in Places(owner)
    BY <1>1, <1>5, Taken
  <2>2. Mine(owner)' = {}
    BY <1>2, <1>5, <2>1 DEF Lone
  <2>3. ASSUME NEW i \in Places(owner)'
        PROVE  FALSE
    BY <1>1, <1>5, <2>1, <2>3, Taken DEF Lone
  <2>. QED  BY <2>2, <2>3
<1>. QED  BY <1>4, <1>5

LEMMA SendKeeps ==
    ASSUME events \in Seq(Event), NEW t \in tasks, NEW result, Send(t, result), NEW owner
    PROVE  /\ t.owner # owner => Kept(owner)
           /\ t.owner = owner /\ Lone(owner) =>
                 /\ Lone(owner)'
                 /\ Mine(owner)' = {}
                 /\ Messages(owner)' \subseteq
                       {[id |-> t.id, owner |-> t.owner, req |-> t.req, result |-> result]}
                 /\ Rows(owner)' = Rows(owner)
<1>. DEFINE m == [id |-> t.id, owner |-> t.owner, req |-> t.req, result |-> result]
<1>1. events' = Append(events, m) /\ m.owner = t.owner /\ tasks' = tasks \ {t} /\ busy' = busy
  BY DEF Send
<1>. HIDE DEF m
<1>2. ASSUME t.owner # owner
      PROVE  Kept(owner)
  <2>1. Places(owner)' = Places(owner) /\ Messages(owner)' = Messages(owner)
    BY <1>1, <1>2, Appended
  <2>2. Mine(owner)' = Mine(owner) /\ Rows(owner)' = Rows(owner)
    BY <1>1, <1>2 DEF Mine, Rows
  <2>. QED  BY <2>1, <2>2 DEF Kept, Lone
<1>3. ASSUME t.owner = owner, Lone(owner)
      PROVE  /\ Lone(owner)'
             /\ Mine(owner)' = {}
             /\ Messages(owner)' \subseteq {m}
             /\ Rows(owner)' = Rows(owner)
  <2>1. t \in Mine(owner) /\ Places(owner) = {} /\ Messages(owner) = {}
    BY <1>3 DEF Mine, Lone, Messages
  <2>2. Places(owner)' = {Len(events) + 1} /\ Messages(owner)' = {m}
    BY <1>1, <1>3, <2>1, Appended
  <2>3. Mine(owner)' = {}
    BY <1>1, <1>3, <2>1 DEF Lone, Mine
  <2>. QED  BY <1>1, <2>2, <2>3 DEF Lone, Rows
<1>. QED  BY <1>2, <1>3 DEF m

LEMMA AnswerKeeps ==
    ASSUME tasks \in SUBSET Task, NEW t \in tasks, NEW result, Answer(t, result), NEW owner
    PROVE  /\ t.owner # owner => Kept(owner)
           /\ t.owner = owner /\ Lone(owner) =>
                 /\ Lone(owner)'
                 /\ Mine(owner)' = {[t EXCEPT !.got = result]}
                 /\ Messages(owner)' = Messages(owner)
                 /\ Places(owner)' = {}
                 /\ Rows(owner)' = Rows(owner)
<1>. DEFINE u == [t EXCEPT !.got = result]
<1>1. u.owner = t.owner
  BY DEF Task, ConnectionTask, NodeTask, PreviewTask, DefinitionTask, QueryTask,
         TemplatesTask, HistoryTask, TaskOf
<1>2. tasks' = (tasks \ {t}) \cup {u} /\ events' = events /\ busy' = busy
  BY DEF Answer
<1>. HIDE DEF u
<1>3. /\ Places(owner)' = Places(owner) /\ Messages(owner)' = Messages(owner)
      /\ Rows(owner)' = Rows(owner)
  BY <1>2 DEF Places, Messages, Rows
<1>4. t.owner # owner => Mine(owner)' = Mine(owner)
  BY <1>1, <1>2 DEF Mine
<1>5. t.owner = owner /\ Lone(owner) => Mine(owner)' = {u} /\ Places(owner) = {}
  BY <1>1, <1>2 DEF Mine, Lone
<1>. QED  BY <1>3, <1>4, <1>5 DEF Kept, Lone, u

\* Nobody's tokens change when the kernel does not.
LEMMA SameKeeps ==
    ASSUME UNCHANGED kernelVars, NEW owner
    PROVE  Kept(owner)
BY DEF kernelVars, Kept, Mine, Places, Messages, Rows, Lone

-----------------------------------------------------------------------------
(* Which steps add to the tokens of a connection or of a query.              *)

LEMMA DispatchedKeeps ==
    ASSUME Dispatched, NEW owner, owner.kind \in {"Connection", "Query"}
    PROVE  \/ Kept(owner)
           \/ \E c \in ConnIds : Connect(c) /\ owner = ConnectionOwner(c)
           \/ \E c \in ConnIds, q \in QueryIds, sql \in Statements :
                 (RunQuery(c, q, sql) \/ EstimateQuery(c, q, sql)) /\ owner = QueryOwner(q)
           \/ \E q \in QueryIds : ApproveQuery(q) /\ owner = QueryOwner(q)
<1>1. /\ \A c, n : owner # NodeOwner(c, n)
      /\ \A c, t : owner # PreviewOwner(c, t) /\ owner # DefinitionOwner(c, t)
      /\ owner # TemplatesOwner /\ owner # HistoryOwner
  BY DEF NodeOwner, PreviewOwner, DefinitionOwner, TemplatesOwner, HistoryOwner
<1>2. \A c \in ConnIds : Connect(c) => Kept(owner) \/ owner = ConnectionOwner(c)
  BY BeginKeeps, SameKeeps DEF Connect
<1>3. \A c \in ConnIds : Disconnect(c) => Kept(owner)
  BY DropKeeps DEF Disconnect
<1>4. \A c \in ConnIds, any \in BOOLEAN : OpenConnectionRow(c, any) => Kept(owner)
  BY SameKeeps DEF OpenConnectionRow
<1>5. \A c \in ConnIds, n \in Nodes, any \in BOOLEAN : OpenNode(c, n, any) => Kept(owner)
  BY <1>1, BeginKeeps, SameKeeps DEF OpenNode
<1>6. \A c \in ConnIds, t \in Browsed : PreviewTable(c, t) => Kept(owner)
  BY <1>1, BeginKeeps DEF PreviewTable, FetchPage
<1>7. \A c \in ConnIds, t \in Browsed, column \in Nat :
        SortPreview(c, t, column) => Kept(owner)
  BY <1>1, BeginKeeps DEF SortPreview, FetchPage
<1>8. \A c \in ConnIds, t \in Browsed : LoadMore(c, t) => Kept(owner)
  BY <1>1, BeginKeeps DEF LoadMore, FetchPage
<1>9. \A c \in ConnIds, t \in Browsed : ForgetPreview(c, t) => Kept(owner)
  BY DropKeeps DEF ForgetPreview
<1>10. \A c \in ConnIds, t \in Inspected, refresh \in BOOLEAN :
         DescribeTable(c, t, refresh) => Kept(owner)
  BY <1>1, BeginKeeps DEF DescribeTable
<1>11. \A c \in ConnIds, t \in Inspected : ForgetDefinition(c, t) => Kept(owner)
  BY DropKeeps DEF ForgetDefinition
<1>12. \A c \in ConnIds, q \in QueryIds, sql \in Statements :
         RunQuery(c, q, sql) \/ EstimateQuery(c, q, sql)
            => Kept(owner) \/ owner = QueryOwner(q)
  BY BeginKeeps DEF RunQuery, EstimateQuery
<1>13. \A q \in QueryIds : ApproveQuery(q) => Kept(owner) \/ owner = QueryOwner(q)
  BY BeginKeeps DEF ApproveQuery
<1>14. \A q \in QueryIds : ForgetQuery(q) => Kept(owner)
  BY DropKeeps DEF ForgetQuery
<1>15. \A op \in LibraryOps : \A item \in Items(op) : WithLibrary(op, item) => Kept(owner)
  BY <1>1, BeginKeeps, SameKeeps DEF WithLibrary
<1>16. \A terms \in Terms : SearchHistory(terms) => Kept(owner)
  BY <1>1, BeginKeeps, SameKeeps DEF SearchHistory
<1>17. \A b \in busy : Cancel(b) => Kept(owner)
  BY DropKeeps DEF Cancel
<1>. QED
  BY <1>2, <1>3, <1>4, <1>5, <1>6, <1>7, <1>8, <1>9, <1>10, <1>11, <1>12, <1>13, <1>14,
     <1>15, <1>16, <1>17, Zenon DEF Dispatched

LEMMA HandledKeeps ==
    ASSUME TypeOK, Handled, NEW owner
    PROVE  Kept(owner)
BY ReceiveKeeps DEF TypeOK, KernelTypes, Handled, Connected, Expanded, Previewed,
                    Described, Ran, Recorded, LibraryAnswered, Searched

LEMMA WorksKeeps ==
    ASSUME TypeOK, NEW t \in tasks, Works(t), NEW owner, owner # t.owner
    PROVE  Kept(owner)
<1>. USE SendKeeps, AnswerKeeps DEF TypeOK, KernelTypes
<1>1. ConnectAnswers(t) \/ ExpandAnswers(t) \/ PreviewAnswers(t) => Kept(owner)
  BY DEF ConnectAnswers, ExpandAnswers, PreviewAnswers
<1>2. DescribeAnswers(t) \/ DescribeSends(t) => Kept(owner)
  BY DEF DescribeAnswers, DescribeSends
<1>3. ServerExecutes(t) \/ QueryStops(t) \/ QuerySends(t) => Kept(owner)
  BY DEF ServerExecutes, QueryStops, QuerySends
<1>4. LibrarySends(t) \/ SearchAnswers(t) => Kept(owner)
  BY DEF LibrarySends, SearchAnswers
<1>. QED  BY <1>1, <1>2, <1>3, <1>4 DEF Works

LEMMA BlockingKeeps ==
    ASSUME TypeInv, Blocking, NEW owner, owner.kind \in {"Connection", "Query"}
    PROVE  Kept(owner)
<1>1. ASSUME NEW w \in writing, RowInserted(w)
      PROVE  Kept(owner)
  <2>1. PICK tag \in {"Ok", "Err"} :
          events' = Append(events, [id |-> None, owner |-> RunOwner(w.query),
                                    req |-> w.run, result |-> [tag |-> tag]])
    BY <1>1, Zenon DEF RowInserted
  <2>2. RunOwner(w.query) # owner
    BY DEF RunOwner
  <2>3. Places(owner)' = Places(owner) /\ Messages(owner)' = Messages(owner)
    BY <2>1, <2>2, Appended DEF TypeInv, TypeOK, KernelTypes
  <2>4. Mine(owner)' = Mine(owner) /\ Rows(owner)' = Rows(owner)
    BY <1>1 DEF RowInserted, Mine, Rows
  <2>. QED  BY <2>3, <2>4 DEF Kept, Lone
<1>2. ASSUME NEW w \in writing, RowSettled(w)
      PROVE  Kept(owner)
  BY <1>2, SameKeeps DEF RowSettled
<1>3. ASSUME NEW j \in jobs, JobWrites(j)
      PROVE  Kept(owner)
  BY <1>3, SameKeeps DEF JobWrites
<1>4. ASSUME NEW j \in jobs, JobReads(j)
      PROVE  Kept(owner)
  <2>1. PICK tag \in {"Ok", "Err"} :
          tasks' = {Told(t, j, [tag |-> tag, wrote |-> j.wrote, item |-> j.item,
                                list |-> ListFromFile]) : t \in tasks}
    BY <1>4, Zenon DEF JobReads
  <2>2. ASSUME NEW t \in tasks, NEW answer
        PROVE  /\ Told(t, j, answer).owner = t.owner
               /\ t.owner = owner => Told(t, j, answer) = t
    <3>1. Told(t, j, answer).owner = t.owner
      BY DEF Told, TypeInv, TypeOK, KernelTypes, Task, ConnectionTask, NodeTask,
             PreviewTask, DefinitionTask, QueryTask, TemplatesTask, HistoryTask, TaskOf
    <3>2. t.id = j.id => t.owner = TemplatesOwner
      BY DEF TypeInv, JobIds
    <3>. QED  BY <3>1, <3>2 DEF Told, TemplatesOwner
  <2>3. Mine(owner)' = Mine(owner)
    BY <2>1, <2>2 DEF Mine
  <2>4. Places(owner)' = Places(owner) /\ Messages(owner)' = Messages(owner)
        /\ Rows(owner)' = Rows(owner)
    BY <1>4 DEF JobReads, Places, Messages, Rows
  <2>. QED  BY <2>3, <2>4 DEF Kept, Lone
<1>. QED  BY <1>1, <1>2, <1>3, <1>4 DEF Blocking

LEMMA OutsideKeeps ==
    ASSUME Outside, NEW owner
    PROVE  Kept(owner)
BY SameKeeps DEF Outside, ActorDies, Alter, SchemaChanges

-----------------------------------------------------------------------------
(* Connections: one whose own handlers do not run either stays as it is or    *)
(* ends.                                                                    *)

ConnStays(c) ==
    /\ conns'[c].status = conns[c].status
    /\ conns'[c].session = conns[c].session
    /\ conns'[c].access = conns[c].access

ConnEnds(c) ==
    /\ conns'[c].status \in {"Failed", "Closed"}
    /\ conns'[c].session = FALSE
    /\ conns'[c].access = conns[c].access

\* What a connection allows does not change once it is settled.
StaysSettled(c) == Decided(c) => Decided(c)' /\ conns'[c].access = conns[c].access

LEMMA ConnAges ==
    ASSUME NEW c \in ConnIds, ConnSafe(c), Kept(ConnectionOwner(c)),
           ConnStays(c) \/ ConnEnds(c)
    PROVE  ConnSafe(c)' /\ StaysSettled(c)
<1>1. /\ Lone(ConnectionOwner(c))'
      /\ Mine(ConnectionOwner(c)) = {} => Mine(ConnectionOwner(c))' = {}
      /\ Places(ConnectionOwner(c)) = {} => Places(ConnectionOwner(c))' = {}
  BY DEF ConnSafe, Kept
<1>. QED  BY <1>1 DEF ConnSafe, ConnStays, ConnEnds, StaysSettled, Decided

LEMMA PartedEnds ==
    ASSUME TypeOK, NEW c \in ConnIds, NEW status \in {"Failed", "Closed"},
           conns' = [conns EXCEPT ![c] = Parted(@, status)]
    PROVE  ConnEnds(c) /\ \A d \in ConnIds : d # c => ConnStays(d)
<1>1. Parted(conns[c], status).status = status /\ Parted(conns[c], status).session = FALSE
      /\ Parted(conns[c], status).access = conns[c].access
  BY DEF Parted, TypeOK, ConnectionTypes, Conn
<1>2. conns'[c] = Parted(conns[c], status)
      /\ \A d \in ConnIds : d # c => conns'[d] = conns[d]
  BY DEF TypeOK, ConnectionTypes
<1>. QED  BY <1>1, <1>2 DEF ConnEnds, ConnStays

LEMMA RefusedEnds ==
    ASSUME TypeOK, NEW c \in ConnIds, conns[c].session = FALSE,
           conns' = [conns EXCEPT ![c] = Refused(@)]
    PROVE  ConnEnds(c) /\ \A d \in ConnIds : d # c => ConnStays(d)
<1>1. Refused(conns[c]).status = "Failed" /\ Refused(conns[c]).session = conns[c].session
      /\ Refused(conns[c]).access = conns[c].access
  BY DEF Refused, TypeOK, ConnectionTypes, Conn
<1>2. conns'[c] = Refused(conns[c])
      /\ \A d \in ConnIds : d # c => conns'[d] = conns[d]
  BY DEF TypeOK, ConnectionTypes
<1>. QED  BY <1>1, <1>2 DEF ConnEnds, ConnStays

LEMMA SessionDiedEnds ==
    ASSUME TypeOK, NEW c \in ConnIds, SessionDied(c)
    PROVE  \A d \in ConnIds : ConnStays(d) \/ ConnEnds(d)
BY PartedEnds DEF SessionDied, ConnStays

LEMMA OpenConnectionRowStays ==
    ASSUME TypeOK, NEW c \in ConnIds, NEW mayCollapse \in BOOLEAN,
           OpenConnectionRow(c, mayCollapse)
    PROVE  \A d \in ConnIds : ConnStays(d)
<1>. DEFINE row == [conns[c] EXCEPT !.expanded = IF mayCollapse THEN ~ @ ELSE TRUE]
<1>1. row.status = conns[c].status /\ row.session = conns[c].session
      /\ row.access = conns[c].access
  BY DEF TypeOK, ConnectionTypes, Conn
<1>2. conns' = [conns EXCEPT ![c] = row]
  BY DEF OpenConnectionRow
<1>. HIDE DEF row
<1>. QED  BY <1>1, <1>2 DEF ConnStays, TypeOK, ConnectionTypes

LEMMA CancelConns ==
    ASSUME TypeOK, ConnInv, NEW b \in busy, Cancel(b)
    PROVE  \A c \in ConnIds : ConnStays(c) \/ ConnEnds(c)
<1>1. CASE b.owner.kind = "Connection" /\ AbandonConnection(b.owner.conn)
  <2>. DEFINE c == b.owner.conn
  <2>1. c \in ConnIds
    BY <1>1 DEF TypeOK, KernelTypes, Owner
  <2>2. CASE conns[c].status = "Connecting"
    <3>1. conns[c].session = FALSE
      BY <2>1, <2>2 DEF ConnInv, ConnSafe, TypeOK, ConnectionTypes, Conn
    <3>2. conns' = [conns EXCEPT ![c] = Refused(@)]
      BY <1>1, <2>2 DEF AbandonConnection
    <3>. QED  BY <2>1, <3>1, <3>2, RefusedEnds
  <2>3. CASE conns[c].status # "Connecting"
    <3>1. conns' = conns
      BY <1>1, <2>1, <2>3 DEF AbandonConnection, TypeOK, ConnectionTypes
    <3>. QED  BY <3>1 DEF ConnStays
  <2>. QED  BY <2>2, <2>3
<1>2. CASE UNCHANGED conns
  BY <1>2 DEF ConnStays
<1>. QED
  BY <1>1, <1>2 DEF Cancel, AbandonNode, AbandonPreview, AbandonDefinition, AbandonQuery,
                    AbandonTemplates, AbandonHistory, connVars

LEMMA DispatchedConns ==
    ASSUME TypeOK, ConnInv, Dispatched, NEW c \in ConnIds
    PROVE  Connect(c) \/ ConnStays(c) \/ ConnEnds(c)
<1>1. \A d \in ConnIds : Connect(d) => d = c \/ ConnStays(c)
  BY DEF Connect, ConnStays, TypeOK, ConnectionTypes
<1>2. \A d \in ConnIds : Disconnect(d) => ConnStays(c) \/ ConnEnds(c)
  BY PartedEnds DEF Disconnect
<1>3. \A d \in ConnIds, any \in BOOLEAN : OpenConnectionRow(d, any) => ConnStays(c)
  BY OpenConnectionRowStays
<1>4. \A b \in busy : Cancel(b) => ConnStays(c) \/ ConnEnds(c)
  BY CancelConns
<1>5. UNCHANGED conns => ConnStays(c)
  BY DEF ConnStays
<1>6. \A d \in ConnIds, n \in Nodes, any \in BOOLEAN : OpenNode(d, n, any) => UNCHANGED conns
  BY DEF OpenNode
<1>7. \A d \in ConnIds, t \in Browsed :
        /\ PreviewTable(d, t) \/ LoadMore(d, t) \/ ForgetPreview(d, t) => UNCHANGED conns
        /\ \A column \in Nat : SortPreview(d, t, column) => UNCHANGED conns
  <2>1. \A d \in ConnIds, t \in Browsed :
          PreviewTable(d, t) \/ ForgetPreview(d, t) => UNCHANGED conns
    BY DEF PreviewTable, ForgetPreview, connVars
  <2>2. \A d \in ConnIds, t \in Browsed : LoadMore(d, t) => UNCHANGED conns
    BY DEF LoadMore, connVars
  <2>3. \A d \in ConnIds, t \in Browsed, column \in Nat :
          SortPreview(d, t, column) => UNCHANGED conns
    BY DEF SortPreview, connVars
  <2>. QED  BY <2>1, <2>2, <2>3
<1>8. \A d \in ConnIds, t \in Inspected :
        /\ \A refresh \in BOOLEAN : DescribeTable(d, t, refresh) => UNCHANGED conns
        /\ ForgetDefinition(d, t) => UNCHANGED conns
  BY DEF DescribeTable, ForgetDefinition, connVars
<1>9. \A d \in ConnIds, q \in QueryIds, sql \in Statements :
        RunQuery(d, q, sql) \/ EstimateQuery(d, q, sql) => UNCHANGED conns
  BY DEF RunQuery, EstimateQuery, connVars
<1>10. \A q \in QueryIds : ApproveQuery(q) \/ ForgetQuery(q) => UNCHANGED conns
  BY DEF ApproveQuery, ForgetQuery, connVars
<1>11. \A op \in LibraryOps : \A item \in Items(op) : WithLibrary(op, item) => UNCHANGED conns
  BY DEF WithLibrary, connVars
<1>12. \A terms \in Terms : SearchHistory(terms) => UNCHANGED conns
  BY DEF SearchHistory, connVars
<1>. QED
  BY <1>1, <1>2, <1>3, <1>4, <1>5, <1>6, <1>7, <1>8, <1>9, <1>10, <1>11, <1>12, Zenon
  DEF Dispatched

LEMMA HandledConns ==
    ASSUME TypeOK, Handled, ~Connected, NEW c \in ConnIds
    PROVE  ConnStays(c) \/ ConnEnds(c)
<1>1. CASE UNCHANGED conns
  BY <1>1 DEF ConnStays
<1>2. CASE Expanded
  <2>1. Head(events).owner.conn \in ConnIds
    BY <1>2, ReceiveTyped, EventKinds DEF TypeOK, Expanded, NodeEvent, EventOf, NodeOwners
  <2>. QED  BY <1>1, <1>2, <2>1, SessionDiedEnds DEF Expanded
<1>3. CASE Previewed
  <2>1. Head(events).owner.conn \in ConnIds
    BY <1>3, ReceiveTyped, EventKinds
    DEF TypeOK, Previewed, PreviewEvent, EventOf, PreviewOwners
  <2>. QED  BY <1>1, <1>3, <2>1, SessionDiedEnds DEF Previewed
<1>. QED
  BY <1>1, <1>2, <1>3 DEF Handled, Described, Ran, Recorded, LibraryAnswered, Searched, connVars

LEMMA WorksConns ==
    ASSUME NEW t \in tasks, Works(t)
    PROVE  UNCHANGED conns
BY DEF Works, ConnectAnswers, ExpandAnswers, PreviewAnswers, DescribeAnswers, DescribeSends,
       ServerExecutes, QueryStops, QuerySends, LibrarySends, SearchAnswers, connVars

LEMMA RestConns ==
    ASSUME Blocking \/ Outside
    PROVE  UNCHANGED conns
BY DEF Blocking, RowInserted, RowSettled, JobWrites, JobReads, Outside, ActorDies, Alter,
       SchemaChanges, connVars

-----------------------------------------------------------------------------
(* A connection's own handlers.                                              *)

LEMMA ConnectSafe ==
    ASSUME TypeOK, NEW c \in ConnIds, ConnSafe(c), Connect(c)
    PROVE  ConnSafe(c)' /\ StaysSettled(c)
<1>. DEFINE o == ConnectionOwner(c)
<1>1. conns[c].status = "absent" /\ Mine(o) = {} /\ Places(o) = {}
  BY DEF Connect, ConnSafe
<1>2. StaysSettled(c)
  BY <1>1 DEF StaysSettled, Decided
<1>3. conns'[c] \in {NewConn, Refused(NewConn)}
  BY DEF Connect, TypeOK, ConnectionTypes
<1>4. conns'[c].session = FALSE /\ conns'[c].status \in {"Connecting", "Failed"}
  BY <1>3 DEF NewConn, Refused
<1>5. Lone(o)'
  <2>1. CASE UNCHANGED kernelVars
    BY <1>1, <2>1, SameKeeps DEF Kept, Lone
  <2>2. CASE Begin({}, o, None)
    <3>1. Mine(o)' \subseteq {[id |-> nextId, owner |-> o, req |-> None, got |-> None]}
      BY <1>1, <2>2 DEF Begin, Mine
    <3>2. Places(o)' = {}
      BY <1>1, <2>2 DEF Begin, Places
    <3>. QED  BY <3>1, <3>2 DEF Lone
  <2>. QED  BY <2>1, <2>2 DEF Connect
<1>. QED  BY <1>2, <1>4, <1>5 DEF ConnSafe

LEMMA ConnectAnswersSafe ==
    ASSUME TypeOK, NEW c \in ConnIds, ConnSafe(c), NEW t \in tasks, Works(t),
           t.owner = ConnectionOwner(c)
    PROVE  ConnSafe(c)' /\ StaysSettled(c)
<1>1. t \in Mine(ConnectionOwner(c))
  BY DEF Mine
<1>2. conns' = conns
  BY WorksConns
<1>3. ConnectAnswers(t)
  BY DEF Works, ConnectionOwner, ExpandAnswers, PreviewAnswers, DescribeAnswers,
         DescribeSends, ServerExecutes, QueryStops, QuerySends, LibrarySends, SearchAnswers
<1>4. PICK result : Send(t, result)
  BY <1>3 DEF ConnectAnswers
<1>5. Lone(ConnectionOwner(c))'
  BY <1>4, SendKeeps DEF ConnSafe, TypeOK, KernelTypes
<1>. QED  BY <1>1, <1>2, <1>5 DEF ConnSafe, StaysSettled, Decided

\* connected: the one token of a connection is taken, so the connection it opens
\* waits for nothing more.
LEMMA ConnectedSafe ==
    ASSUME TypeOK, ConnInv, Connected, NEW c \in ConnIds
    PROVE  ConnSafe(c)' /\ StaysSettled(c)
<1>. DEFINE e == Head(events)
<1>1. e \in ConnectionEvent /\ events # <<>>
  BY ReceiveTyped, EventKinds DEF TypeOK, Connected, Receive
<1>2. e.owner.conn \in ConnIds /\ e.owner = ConnectionOwner(e.owner.conn)
  BY <1>1 DEF ConnectionEvent, EventOf, ConnectionOwners, ConnectionOwner
<1>3. Kept(ConnectionOwner(c))
  BY HandledKeeps DEF Handled
<1>4. CASE e.owner.conn # c
  <2>1. ConnStays(c)
    BY <1>2, <1>4 DEF Connected, ConnStays, TypeOK, ConnectionTypes, connVars
  <2>. QED  BY <1>3, <2>1, ConnAges DEF ConnInv
<1>5. CASE e.owner.conn = c
  <2>1. e.owner = ConnectionOwner(c) /\ ConnSafe(c)
    BY <1>2, <1>5 DEF ConnInv
  <2>2. Mine(ConnectionOwner(c))' = {} /\ Places(ConnectionOwner(c))' = {}
    BY <2>1, ReceiveKeeps DEF ConnSafe, Connected, TypeOK, KernelTypes
  <2>3. Places(ConnectionOwner(c)) # {}
    <3>1. events \in Seq(Event) /\ Len(events) \in Nat /\ Len(events) >= 1
          /\ Head(events) = events[1]
      BY <1>1 DEF TypeOK, KernelTypes
    <3>. QED  BY <2>1, <3>1 DEF Places
  <2>4. conns[c].status \notin {"absent", "Ready"} /\ conns[c].session = FALSE
    BY <2>1, <2>3 DEF ConnSafe, TypeOK, ConnectionTypes, Conn
  <2>5. CASE UNCHANGED conns
    BY <1>3, <2>1, <2>5, ConnAges DEF ConnStays
  <2>6. CASE conns' = [conns EXCEPT ![c] = Refused(@)]
    BY <1>3, <2>1, <2>4, <2>6, ConnAges, RefusedEnds
  <2>7. CASE conns[c].status = "Connecting" /\ conns' = [conns EXCEPT ![c] = Opened(@, e.result)]
    <3>1. conns'[c] = Opened(conns[c], e.result)
      BY <2>7 DEF TypeOK, ConnectionTypes
    <3>2. conns'[c].status = "Ready" /\ conns'[c].session = TRUE
      BY <3>1 DEF Opened, TypeOK, ConnectionTypes, Conn
    <3>. QED  BY <2>2, <2>7, <3>2 DEF ConnSafe, StaysSettled, Decided, Lone
  <2>. QED  BY <1>5, <2>5, <2>6, <2>7 DEF Connected, connVars
<1>. QED  BY <1>4, <1>5

LEMMA NextConns ==
    ASSUME TypeInv, ConnInv, [Next]_vars, NEW c \in ConnIds
    PROVE  ConnSafe(c)' /\ StaysSettled(c)
<1>. DEFINE o == ConnectionOwner(c)
<1>1. TypeOK /\ ConnSafe(c) /\ o.kind = "Connection"
  BY DEF TypeInv, ConnInv, ConnectionOwner
<1>2. UNCHANGED conns => ConnStays(c)
  BY DEF ConnStays
<1>3. CASE Dispatched
  <2>1. \A d \in ConnIds : o = ConnectionOwner(d) => d = c
    BY DEF ConnectionOwner
  <2>2. \A q \in QueryIds : o # QueryOwner(q)
    BY DEF ConnectionOwner, QueryOwner
  <2>3. Connect(c) \/ (Kept(o) /\ (ConnStays(c) \/ ConnEnds(c)))
    BY <1>1, <1>3, <2>1, <2>2, DispatchedKeeps, DispatchedConns
  <2>. QED  BY <1>1, <2>3, ConnAges, ConnectSafe
<1>4. CASE Handled
  BY <1>1, <1>4, HandledKeeps, HandledConns, ConnAges, ConnectedSafe
<1>5. ASSUME NEW t \in tasks, Works(t)
      PROVE  ConnSafe(c)' /\ StaysSettled(c)
  BY <1>1, <1>2, <1>5, WorksKeeps, WorksConns, ConnAges, ConnectAnswersSafe
<1>6. CASE Blocking
  BY <1>1, <1>2, <1>6, BlockingKeeps, RestConns, ConnAges
<1>7. CASE Outside
  BY <1>1, <1>2, <1>7, OutsideKeeps, RestConns, ConnAges
<1>8. CASE UNCHANGED vars
  BY <1>1, <1>2, <1>8, SameKeeps, ConnAges DEF vars, connVars
<1>. QED  BY <1>3, <1>4, <1>5, <1>6, <1>7, <1>8 DEF Next

LEMMA NothingConns == NothingYet /\ ReadyMeansSession => ConnInv
<1>. SUFFICES ASSUME NothingYet, ReadyMeansSession, NEW c \in ConnIds
              PROVE  ConnSafe(c)
  BY DEF ConnInv
<1>1. Mine(ConnectionOwner(c)) = {} /\ Places(ConnectionOwner(c)) = {}
  BY DEF NothingYet, Mine, Places
<1>. QED  BY <1>1 DEF ReadyMeansSession, ConnSafe, Lone

LEMMA ConnInvariant == Spec => [](TypeInv /\ ConnInv)
<1>1. Init => ConnInv
  BY NothingConns DEF Init, NewConn, ReadyMeansSession
<1>2. TypeInv /\ ConnInv /\ [Next]_vars => ConnInv'
  BY NextConns DEF ConnInv
<1>. QED  BY <1>1, <1>2, TypesAreInvariant, PTL DEF Spec

\* Every connection reads Ready exactly when it has a session, whatever is closed,
\* cancelled or answered late around it (store.rs `connected`, `disconnect`,
\* `session_died`, `abandon`).
THEOREM ReadyIsASession == Spec => []ReadyMeansSession
<1>1. ConnInv => ReadyMeansSession
  BY DEF ConnInv, ConnSafe, ReadyMeansSession
<1>. QED  BY <1>1, ConnInvariant, PTL

-----------------------------------------------------------------------------
(* Queries: one whose own handlers do not run carries on, perhaps to its end. *)

CarriesOn(q) ==
    /\ queries'[q].sql = queries[q].sql
    /\ queries'[q].conn = queries[q].conn
    /\ queries'[q].needs => queries[q].needs
    /\ queries'[q].data = "absent" <=> queries[q].data = "absent"
    /\ sent'[q] = sent[q]
    /\ q \in approved' <=> q \in approved

ConnsStaySettled == \A c \in ConnIds : StaysSettled(c)

\* What the gate says of a query's statement does not change under it.
LEMMA GateStays ==
    ASSUME QueryInv, ConnsStaySettled, NEW q \in QueryIds, queries[q].data # "absent",
           queries'[q].sql = queries[q].sql, queries'[q].conn = queries[q].conn
    PROVE  /\ MayRun(q)' <=> MayRun(q)
           /\ OnSettled(q)'
<1>. DEFINE c == queries[q].conn
<1>1. c \in ConnIds /\ Decided(c)
  BY DEF QueryInv, QuerySafe, OnSettled
<1>2. conns'[c].access = conns[c].access /\ conns'[c].status \notin {"absent", "Connecting"}
  BY <1>1 DEF ConnsStaySettled, StaysSettled, Decided
<1>. QED  BY <1>1, <1>2 DEF MayRun, OnSettled, Decided

LEMMA QueryAges ==
    ASSUME QueryInv, ConnsStaySettled, NEW q \in QueryIds, Kept(QueryOwner(q)), CarriesOn(q)
    PROVE  QuerySafe(q)'
<1>. DEFINE o == QueryOwner(q)
<1>1. QuerySafe(q) /\ Lone(o)'
  BY DEF QueryInv, QuerySafe, Kept
<1>2. /\ Mine(o)' \subseteq Mine(o) /\ Messages(o)' \subseteq Messages(o)
      /\ Rows(o)' \subseteq Rows(o)
      /\ Places(o) = {} => Places(o)' = {}
  BY DEF Kept
<1>3. CASE queries[q].data = "absent"
  <2>1. Idle(o) /\ sent[q] = 0 /\ ~queries[q].needs /\ q \notin approved
    BY <1>1, <1>3 DEF QuerySafe
  <2>2. Idle(o)' /\ Messages(o)' = {}
    BY <1>2, <2>1 DEF Idle, Messages
  <2>. QED  BY <1>1, <1>3, <2>1, <2>2 DEF QuerySafe, CarriesOn, Idle
<1>4. CASE queries[q].data # "absent"
  <2>1. /\ MayRun(q)' <=> MayRun(q)
        /\ OnSettled(q)'
    BY <1>4, GateStays DEF CarriesOn
  <2>2. Askable(q) => Askable(q)'
    BY <2>1 DEF Askable, CarriesOn
  <2>3. \A t \in Mine(o)' : TaskSafe(q, t)'
    <3>. SUFFICES ASSUME NEW t \in Mine(o)'
                  PROVE  TaskSafe(q, t)'
      OBVIOUS
    <3>1. TaskSafe(q, t)
      BY <1>1, <1>2 DEF QuerySafe
    <3>. QED  BY <2>2, <3>1 DEF TaskSafe, CarriesOn
  <2>4. \A e \in Messages(o)' : AsksForApproval(e.result) => Askable(q)'
    BY <1>1, <1>2, <2>2 DEF QuerySafe
  <2>5. queries'[q].needs => Askable(q)' /\ Mine(o)' = {} /\ Places(o)' = {}
    BY <1>1, <1>2, <2>2 DEF QuerySafe, CarriesOn
  <2>6. /\ sent'[q] <= 1
        /\ sent'[q] > 0 => MayRun(q)' /\ (Budgeted /\ queries'[q].sql.dear => q \in approved')
        /\ q \in approved' => MayRun(q)'
    BY <1>1, <2>1 DEF QuerySafe, CarriesOn
  <2>7. queries'[q].data # "absent"
    BY <1>4 DEF CarriesOn
  <2>. QED  BY <1>1, <2>1, <2>3, <2>4, <2>5, <2>6, <2>7 DEF QuerySafe
<1>. QED  BY <1>3, <1>4

\* The steps that leave every query as it is.
LEMMA SameCarriesOn ==
    ASSUME UNCHANGED <<queries, sent, approved>>, NEW q \in QueryIds
    PROVE  CarriesOn(q)
BY DEF CarriesOn

\* A query whose state alone changes carries on.
LEMMA EndingCarriesOn ==
    ASSUME TypeOK, UNCHANGED <<sent, approved>>, NEW q \in QueryIds, NEW data,
           data = "absent" <=> queries[q].data = "absent",
           queries'[q] = [queries[q] EXCEPT !.data = data]
    PROVE  CarriesOn(q)
<1>1. queries[q] \in Query
  BY DEF TypeOK, QueryTypes
<1>2. /\ [queries[q] EXCEPT !.data = data].data = data
      /\ [queries[q] EXCEPT !.data = data].sql = queries[q].sql
      /\ [queries[q] EXCEPT !.data = data].conn = queries[q].conn
      /\ [queries[q] EXCEPT !.data = data].needs = queries[q].needs
  BY <1>1 DEF Query
<1>. QED  BY <1>2 DEF CarriesOn

LEMMA DisconnectCarriesOn ==
    ASSUME TypeOK, QueryInv, NEW c \in ConnIds, Disconnect(c), NEW q \in QueryIds
    PROVE  CarriesOn(q)
<1>1. UNCHANGED <<sent, approved>>
  BY DEF Disconnect
<1>2. CASE q \in QueriesCut(c)
  <2>1. Rows(QueryOwner(q)) # {}
    BY <1>2 DEF QueriesCut
  <2>2. queries[q].data # "absent"
    BY <2>1 DEF QueryInv, QuerySafe, Idle
  <2>3. queries'[q] = [queries[q] EXCEPT !.data = "Failed"]
    BY <1>2 DEF Disconnect
  <2>. QED  BY <1>1, <2>2, <2>3, EndingCarriesOn
<1>3. CASE q \notin QueriesCut(c)
  <2>1. queries'[q] = queries[q]
    BY <1>3 DEF Disconnect
  <2>. QED  BY <1>1, <2>1 DEF CarriesOn
<1>. QED  BY <1>2, <1>3

LEMMA CancelCarriesOn ==
    ASSUME TypeOK, NEW b \in busy, Cancel(b), NEW q \in QueryIds
    PROVE  CarriesOn(q)
<1>1. CASE b.owner.kind = "Query" /\ AbandonQuery(b.owner.item)
  <2>. DEFINE p == b.owner.item
  <2>1. p \in QueryIds
    BY <1>1 DEF TypeOK, KernelTypes, Owner
  <2>2. UNCHANGED <<sent, approved>>
    BY <1>1 DEF AbandonQuery
  <2>3. queries' = [queries EXCEPT ![p].data = IF Known(p) THEN "Failed" ELSE @]
    BY <1>1 DEF AbandonQuery
  <2>4. CASE p # q
    <3>1. queries'[q] = queries[q]
      BY <2>1, <2>3, <2>4 DEF TypeOK, QueryTypes
    <3>. QED  BY <2>2, <3>1 DEF CarriesOn
  <2>5. CASE p = q
    <3>1. queries'[q] = [queries[q] EXCEPT !.data = IF Known(q) THEN "Failed"
                                                    ELSE queries[q].data]
      BY <2>1, <2>3, <2>5 DEF TypeOK, QueryTypes
    <3>2. (IF Known(q) THEN "Failed" ELSE queries[q].data) = "absent"
            <=> queries[q].data = "absent"
      BY DEF Known
    <3>. QED  BY <2>2, <3>1, <3>2, EndingCarriesOn
  <2>. QED  BY <2>4, <2>5
<1>2. CASE UNCHANGED <<queries, sent, approved>>
  BY <1>2, SameCarriesOn
<1>. QED
  BY <1>1, <1>2 DEF Cancel, AbandonConnection, AbandonNode, AbandonPreview,
                    AbandonDefinition, AbandonTemplates, AbandonHistory, queryVars

LEMMA ForgetCarriesOn ==
    ASSUME TypeOK, NEW p \in QueryIds, ForgetQuery(p), NEW q \in QueryIds
    PROVE  CarriesOn(q)
<1>1. UNCHANGED <<sent, approved>> /\ queries[p].data # "absent" /\ queries[p] \in Query
  BY DEF ForgetQuery, Known, TypeOK, QueryTypes
<1>2. queries' = [queries EXCEPT ![p] = [@ EXCEPT !.data = "forgotten", !.needs = FALSE]]
  BY DEF ForgetQuery, TypeOK, QueryTypes, Query
<1>3. CASE p # q
  BY <1>1, <1>2, <1>3 DEF CarriesOn, TypeOK, QueryTypes
<1>4. CASE p = q
  <2>. DEFINE gone == [queries[q] EXCEPT !.data = "forgotten", !.needs = FALSE]
  <2>1. gone.data = "forgotten" /\ gone.needs = FALSE /\ gone.sql = queries[q].sql
        /\ gone.conn = queries[q].conn
    BY <1>1, <1>4 DEF Query
  <2>2. queries'[q] = gone
    BY <1>2, <1>4 DEF TypeOK, QueryTypes
  <2>. HIDE DEF gone
  <2>. QED  BY <1>1, <1>4, <2>1, <2>2 DEF CarriesOn
<1>. QED  BY <1>3, <1>4

\* The handlers a front-end calls for this query, and those for another one.
Asks(q) ==
    \/ \E c \in ConnIds, sql \in Statements : RunQuery(c, q, sql) \/ EstimateQuery(c, q, sql)
    \/ ApproveQuery(q)

LEMMA AsksOfOthers ==
    ASSUME TypeOK, NEW p \in QueryIds, Asks(p), NEW q \in QueryIds, p # q
    PROVE  CarriesOn(q)
BY DEF Asks, RunQuery, EstimateQuery, ApproveQuery, CarriesOn, TypeOK, QueryTypes

LEMMA DispatchedQueries ==
    ASSUME TypeOK, QueryInv, Dispatched, NEW q \in QueryIds
    PROVE  CarriesOn(q) \/ Asks(q)
<1>. DEFINE Same == UNCHANGED <<queries, sent, approved>>
<1>1. \A c \in ConnIds :
        /\ Connect(c) => Same
        /\ \A any \in BOOLEAN : OpenConnectionRow(c, any) => Same
        /\ \A n \in Nodes, any \in BOOLEAN : OpenNode(c, n, any) => Same
  BY DEF Connect, OpenConnectionRow, OpenNode, queryVars
<1>2. \A c \in ConnIds, t \in Browsed :
        PreviewTable(c, t) \/ LoadMore(c, t) \/ ForgetPreview(c, t) => Same
  BY DEF PreviewTable, LoadMore, ForgetPreview, queryVars
<1>3. \A c \in ConnIds, t \in Browsed, column \in Nat : SortPreview(c, t, column) => Same
  BY DEF SortPreview, queryVars
<1>4. \A c \in ConnIds, t \in Inspected :
        /\ \A refresh \in BOOLEAN : DescribeTable(c, t, refresh) => Same
        /\ ForgetDefinition(c, t) => Same
  BY DEF DescribeTable, ForgetDefinition, queryVars
<1>5. \A op \in LibraryOps : \A item \in Items(op) : WithLibrary(op, item) => Same
  BY DEF WithLibrary, queryVars
<1>6. \A terms \in Terms : SearchHistory(terms) => Same
  BY DEF SearchHistory, queryVars
<1>7. Same => CarriesOn(q)
  BY SameCarriesOn
<1>. HIDE DEF Same
<1>8. \A c \in ConnIds : Disconnect(c) => CarriesOn(q)
  BY DisconnectCarriesOn
<1>9. \A p \in QueryIds : /\ Asks(p) => p = q \/ CarriesOn(q)
                          /\ ForgetQuery(p) => CarriesOn(q)
  BY AsksOfOthers, ForgetCarriesOn
<1>10. \A b \in busy : Cancel(b) => CarriesOn(q)
  BY CancelCarriesOn
<1>11. \A c \in ConnIds, p \in QueryIds, sql \in Statements :
         RunQuery(c, p, sql) \/ EstimateQuery(c, p, sql) => Asks(p)
  BY DEF Asks
<1>12. \A p \in QueryIds : ApproveQuery(p) => Asks(p)
  BY DEF Asks
<1>. QED
  BY <1>1, <1>2, <1>3, <1>4, <1>5, <1>6, <1>7, <1>8, <1>9, <1>10, <1>11, <1>12, Zenon
  DEF Dispatched

LEMMA HandledQueries ==
    ASSUME Handled, ~Ran, NEW q \in QueryIds
    PROVE  CarriesOn(q)
BY SameCarriesOn DEF Handled, Connected, Expanded, Previewed, Described, Recorded,
                     LibraryAnswered, Searched, queryVars

\* A task changes the query it is for, and no other.
LEMMA WorksQueries ==
    ASSUME TypeOK, NEW t \in tasks, Works(t), NEW q \in QueryIds, t.owner # QueryOwner(q)
    PROVE  CarriesOn(q)
<1>1. CASE UNCHANGED <<queries, sent, approved>>
  BY <1>1, SameCarriesOn
<1>2. CASE ServerExecutes(t)
  <2>1. t.owner.item # q
    BY <1>2, TaskKinds DEF ServerExecutes, TypeOK, KernelTypes, QueryTask, TaskOf,
                           QueryOwners, QueryOwner
  <2>2. UNCHANGED <<queries, approved>> /\ sent'[q] = sent[q]
    BY <1>2, <2>1 DEF ServerExecutes, TypeOK, QueryTypes
  <2>. QED  BY <2>2 DEF CarriesOn
<1>. QED
  BY <1>1, <1>2 DEF Works, ConnectAnswers, ExpandAnswers, PreviewAnswers, DescribeAnswers,
                    DescribeSends, QueryStops, QuerySends, LibrarySends, SearchAnswers,
                    queryVars

LEMMA RestQueries ==
    ASSUME Blocking \/ Outside, NEW q \in QueryIds
    PROVE  CarriesOn(q)
BY SameCarriesOn DEF Blocking, RowInserted, RowSettled, JobWrites, JobReads, Outside,
                     ActorDies, Alter, SchemaChanges, queryVars

-----------------------------------------------------------------------------
(* A query's own handlers.                                                   *)

\* run_query and estimate_query: a name nobody has used gets its one task.
LEMMA StartSafe ==
    ASSUME TypeOK, ConnInv, QueryInv, ConnsStaySettled, NEW q \in QueryIds,
           NEW c \in ConnIds, NEW sql \in Statements,
           RunQuery(c, q, sql) \/ EstimateQuery(c, q, sql)
    PROVE  QuerySafe(q)'
<1>. DEFINE o == QueryOwner(q)
<1>1. PICK req \in {"Run", "Estimate"} : Begin({}, o, req)
  BY DEF RunQuery, EstimateQuery
<1>2. Idle(o) /\ sent[q] = 0 /\ q \notin approved
  BY DEF QueryInv, QuerySafe, RunQuery, EstimateQuery
<1>3. Mine(o)' = {[id |-> nextId, owner |-> o, req |-> req, got |-> None]}
      /\ Places(o)' = {} /\ Messages(o)' = {}
  BY <1>1, <1>2 DEF Begin, Mine, Places, Messages, Idle
<1>4. Lone(o)'
  BY <1>3 DEF Lone
<1>5. sent' = sent /\ approved' = approved
  BY DEF RunQuery, EstimateQuery
<1>6. queries'[q] = [data |-> "Loading", conn |-> c, sql |-> sql, needs |-> FALSE]
  BY DEF RunQuery, EstimateQuery, TypeOK, QueryTypes
<1>7. OnSettled(q)'
  <2>1. conns[c].session
    BY DEF RunQuery, EstimateQuery
  <2>2. Decided(c)
    BY <2>1 DEF ConnInv, ConnSafe, Decided
  <2>3. Decided(c)'
    BY <2>2 DEF ConnsStaySettled, StaysSettled
  <2>. QED  BY <1>6, <2>3 DEF OnSettled, Decided
<1>8. \A t \in Mine(o)' : TaskSafe(q, t)'
  BY <1>2, <1>3, <1>5 DEF TaskSafe, AsksForApproval
<1>. QED  BY <1>2, <1>3, <1>4, <1>5, <1>6, <1>7, <1>8 DEF QuerySafe

\* approve_query: the question is taken as it is answered, and nothing of the
\* first run is left to answer it again.
LEMMA ApproveSafe ==
    ASSUME TypeOK, QueryInv, ConnsStaySettled, NEW q \in QueryIds, ApproveQuery(q)
    PROVE  QuerySafe(q)'
<1>. DEFINE o == QueryOwner(q)
<1>1. /\ QuerySafe(q) /\ queries[q].data # "absent"
      /\ Askable(q) /\ Mine(o) = {} /\ Places(o) = {}
  BY DEF QueryInv, QuerySafe, ApproveQuery, Known
<1>2. Begin({}, o, "Approved") /\ sent' = sent /\ approved' = approved \cup {q}
  BY DEF ApproveQuery
<1>3. Mine(o)' = {[id |-> nextId, owner |-> o, req |-> "Approved", got |-> None]}
      /\ Places(o)' = {} /\ Messages(o)' = {}
  BY <1>1, <1>2 DEF Begin, Mine, Places, Messages
<1>4. Lone(o)'
  BY <1>3 DEF Lone
<1>5. /\ queries'[q].data = "Loading" /\ queries'[q].needs = FALSE
      /\ queries'[q].sql = queries[q].sql /\ queries'[q].conn = queries[q].conn
  <2>1. queries'[q] = Approve(queries[q]) /\ queries[q] \in Query
    BY DEF ApproveQuery, TypeOK, QueryTypes
  <2>. QED  BY <2>1 DEF Approve, Query
<1>6. OnSettled(q)' /\ (MayRun(q)' <=> MayRun(q))
  BY <1>1, <1>5, GateStays
<1>7. \A t \in Mine(o)' : TaskSafe(q, t)'
  BY <1>1, <1>2, <1>3 DEF TaskSafe, AsksForApproval, Askable
<1>. QED  BY <1>1, <1>2, <1>3, <1>4, <1>5, <1>6, <1>7 DEF QuerySafe, Askable

\* What the gate's verdict means for a task that is still to act on it.
LEMMA VerdictIsSafe ==
    ASSUME TypeOK, QueryInv, NEW q \in QueryIds, NEW t \in Mine(QueryOwner(q)), t.got = None
    PROVE  /\ Verdict(t) = "Execute" =>
                 MayRun(q) /\ (Budgeted /\ queries[q].sql.dear => q \in approved)
           /\ Verdict(t) = "NeedsApproval" => Askable(q)
<1>1. /\ QuerySafe(q) /\ TaskSafe(q, t) /\ queries[q].data # "absent" /\ sent[q] = 0
  BY DEF QueryInv, QuerySafe, TaskSafe, Idle
<1>2. t.owner.item = q
  BY DEF Mine, QueryOwner
<1>3. queries[q].conn \in ConnIds
  BY <1>1 DEF QuerySafe, OnSettled
<1>4. conns[queries[q].conn].access \in {"ReadOnly", "ReadWrite"}
  BY <1>3 DEF TypeOK, ConnectionTypes, Conn
<1>5. CASE t.req = "Run"
  <2>1. Verdict(t) = Gate(queries[q].sql, conns[queries[q].conn].access)
    BY <1>2, <1>5 DEF Verdict
  <2>2. q \notin approved
    BY <1>1, <1>5 DEF TaskSafe
  <2>. QED  BY <1>1, <1>4, <2>1, <2>2 DEF Gate, MayRun, Askable
<1>6. CASE t.req = "Approved"
  <2>1. Verdict(t) = "Execute" /\ q \in approved /\ MayRun(q)
    BY <1>1, <1>6 DEF Verdict, TaskSafe, QuerySafe
  <2>. QED  BY <2>1
<1>7. CASE t.req \notin {"Run", "Approved"}
  <2>1. Verdict(t) \in {"Refused", "Estimated"}
    BY <1>7 DEF Verdict
  <2>. QED  BY <2>1
<1>. QED  BY <1>5, <1>6, <1>7

\* A task that got its answer, whether the statement was executed or not.
LEMMA AnsweredSafe ==
    ASSUME TypeOK, QueryInv, ConnsStaySettled, NEW q \in QueryIds,
           NEW t \in Mine(QueryOwner(q)), t.got = None, NEW tag \in Tags, Answer(t, [tag |-> tag]),
           UNCHANGED <<queries, approved>>,
           \/ /\ sent'[q] = sent[q]
              /\ tag = "NeedsApproval" => Askable(q)
           \/ /\ sent'[q] = sent[q] + 1
              /\ tag # "NeedsApproval"
              /\ Verdict(t) = "Execute"
    PROVE  QuerySafe(q)'
<1>. DEFINE o == QueryOwner(q)  u == [t EXCEPT !.got = [tag |-> tag]]
<1>1. /\ QuerySafe(q) /\ TaskSafe(q, t) /\ queries[q].data # "absent" /\ sent[q] = 0
      /\ Lone(o) /\ ~queries[q].needs
  BY DEF QueryInv, QuerySafe, TaskSafe, Idle
<1>2. t \in tasks /\ t.owner = o
  BY DEF Mine
<1>3. Lone(o)' /\ Mine(o)' = {u} /\ Messages(o)' = {}
  BY <1>1, <1>2, AnswerKeeps DEF TypeOK, KernelTypes, Messages
<1>4. u.req = t.req /\ u.got = [tag |-> tag]
  BY <1>2 DEF TypeOK, KernelTypes, Task, ConnectionTask, NodeTask, PreviewTask,
              DefinitionTask, QueryTask, TemplatesTask, HistoryTask, TaskOf
<1>. HIDE DEF u
<1>5. OnSettled(q)' /\ (MayRun(q)' <=> MayRun(q))
  BY <1>1, GateStays
<1>6. sent'[q] > 0 => /\ Verdict(t) = "Execute" /\ sent'[q] = 1 /\ tag # "NeedsApproval"
  BY <1>1
<1>7. sent'[q] \in {0, 1}
  BY <1>1
<1>8. tag = "NeedsApproval" => Askable(q)'
  BY <1>1, <1>5, <1>6, <1>7 DEF Askable
<1>9. TaskSafe(q, u)'
  <2>1. u.req = "Approved" <=> q \in approved'
    BY <1>1, <1>4 DEF TaskSafe
  <2>2. u.got # None
    BY <1>4, NoneAssumption DEF Tags
  <2>. QED  BY <1>4, <1>8, <2>1, <2>2 DEF TaskSafe, AsksForApproval
<1>10. sent'[q] > 0 => MayRun(q)' /\ (Budgeted /\ queries'[q].sql.dear => q \in approved')
  BY <1>5, <1>6, VerdictIsSafe
<1>. QED  BY <1>1, <1>3, <1>5, <1>7, <1>9, <1>10 DEF QuerySafe

\* A task of the query takes one of its own three steps.
LEMMA OwnTaskSafe ==
    ASSUME TypeOK, QueryInv, ConnsStaySettled, NEW q \in QueryIds,
           NEW t \in tasks, Works(t), t.owner = QueryOwner(q)
    PROVE  QuerySafe(q)'
<1>. DEFINE o == QueryOwner(q)
<1>1. t \in Mine(o) /\ t.owner.item = q
  BY DEF Mine, QueryOwner
<1>2. CASE ServerExecutes(t)
  <2>1. PICK tag \in {"Ok", "Err"} : Answer(t, [tag |-> tag])
    BY <1>2 DEF ServerExecutes
  <2>2. UNCHANGED <<queries, approved>> /\ t.got = None /\ Verdict(t) = "Execute"
    BY <1>2 DEF ServerExecutes
  <2>3. sent'[q] = sent[q] + 1
    BY <1>1, <1>2 DEF ServerExecutes, TypeOK, QueryTypes
  <2>4. tag \in Tags /\ tag # "NeedsApproval"
    BY <2>1 DEF Tags
  <2>. QED  BY <1>1, <2>1, <2>2, <2>3, <2>4, AnsweredSafe
<1>3. CASE QueryStops(t)
  <2>1. UNCHANGED <<queries, approved, sent>> /\ t.got = None
    BY <1>3 DEF QueryStops, queryVars
  <2>2. PICK tag \in Tags :
          /\ Answer(t, [tag |-> tag])
          /\ tag = "NeedsApproval" => Verdict(t) = "NeedsApproval"
    <3>1. CASE Verdict(t) \in {"Refused", "NeedsApproval", "Estimated"}
               /\ Answer(t, [tag |-> Verdict(t)])
      <4>1. Verdict(t) \in Tags
        BY <3>1 DEF Tags
      <4>. QED  BY <3>1, <4>1
    <3>2. CASE Answer(t, [tag |-> Failing(queries[t.owner.item].conn)])
      <4>1. Failing(queries[t.owner.item].conn) \in Tags
            /\ Failing(queries[t.owner.item].conn) # "NeedsApproval"
        BY DEF Failing, Tags
      <4>. QED  BY <3>2, <4>1
    <3>. QED  BY <1>3, <3>1, <3>2 DEF QueryStops
  <2>3. tag = "NeedsApproval" => Askable(q)
    BY <1>1, <2>1, <2>2, VerdictIsSafe
  <2>. QED  BY <1>1, <2>1, <2>2, <2>3, AnsweredSafe
<1>4. CASE QuerySends(t)
  <2>. DEFINE m == [id |-> t.id, owner |-> t.owner, req |-> t.req, result |-> t.got]
  <2>1. UNCHANGED <<queries, approved, sent>> /\ Send(t, t.got)
    BY <1>4 DEF QuerySends, queryVars
  <2>2. /\ QuerySafe(q) /\ TaskSafe(q, t) /\ queries[q].data # "absent" /\ Lone(o)
        /\ ~queries[q].needs
    BY <1>1 DEF QueryInv, QuerySafe, Idle
  <2>3. Lone(o)' /\ Mine(o)' = {} /\ Messages(o)' \subseteq {m}
    BY <2>1, <2>2, SendKeeps DEF TypeOK, KernelTypes
  <2>4. OnSettled(q)' /\ (MayRun(q)' <=> MayRun(q))
    BY <2>1, <2>2, GateStays
  <2>5. AsksForApproval(m.result) => Askable(q)'
    BY <2>1, <2>2, <2>4 DEF TaskSafe, Askable
  <2>. HIDE DEF m
  <2>. QED  BY <2>1, <2>2, <2>3, <2>4, <2>5 DEF QuerySafe
<1>. QED
  BY <1>1, <1>2, <1>3, <1>4 DEF Works, QueryOwner, ConnectAnswers, ExpandAnswers,
     PreviewAnswers, DescribeAnswers, DescribeSends, LibrarySends, SearchAnswers

\* ran and estimated: the answer is the query's one token, so when it is a question
\* nothing else of the query is left.
LEMMA RanSafe ==
    ASSUME TypeOK, QueryInv, ConnsStaySettled, Ran, NEW q \in QueryIds
    PROVE  QuerySafe(q)'
<1>. DEFINE o == QueryOwner(q)  e == Head(events)  asks == e.result.tag = "NeedsApproval"
<1>1. e \in QueryEvent /\ events # <<>>
  BY ReceiveTyped, EventKinds DEF TypeOK, Ran, Receive
<1>2. e.owner = QueryOwner(e.owner.item) /\ e.owner.item \in QueryIds
      /\ e.result \in QueryResult
  BY <1>1 DEF QueryEvent, EventOf, QueryOwners, QueryOwner
<1>3. Kept(o) /\ sent' = sent /\ approved' = approved
  BY HandledKeeps DEF Handled, Ran, queryVars
<1>4. CASE UNCHANGED queries
  <2>1. CarriesOn(q)
    BY <1>3, <1>4 DEF CarriesOn
  <2>. QED  BY <1>3, <2>1, QueryAges
<1>5. CASE e.owner.item # q
  <2>1. queries'[q] = queries[q]
    BY <1>2, <1>5 DEF Ran, queryVars, TypeOK, QueryTypes
  <2>2. CarriesOn(q)
    BY <1>3, <2>1 DEF CarriesOn
  <2>. QED  BY <1>3, <2>2, QueryAges
<1>6. CASE e.owner.item = q /\ ~ UNCHANGED queries
  <2>1. /\ queries' = [queries EXCEPT ![q].data = DataAfter(e.result.tag),
                                      ![q].needs = @ \/ asks]
        /\ Known(q)
    BY <1>6 DEF Ran, queryVars
  <2>2. queries[q] \in Query /\ queries[q].data # "absent"
    BY <2>1 DEF Known, TypeOK, QueryTypes
  <2>3. DataAfter(e.result.tag) \in {"Ready", "Idle", "Failed"}
    BY DEF DataAfter
  <2>4. /\ queries'[q].data # "absent"
        /\ queries'[q].sql = queries[q].sql /\ queries'[q].conn = queries[q].conn
        /\ queries'[q].needs <=> (queries[q].needs \/ asks)
    BY <2>1, <2>2, <2>3 DEF TypeOK, QueryTypes, Query
  <2>5. CASE ~asks
    <3>1. CarriesOn(q)
      BY <1>3, <2>2, <2>4, <2>5 DEF CarriesOn
    <3>. QED  BY <1>3, <3>1, QueryAges
  <2>6. CASE asks
    <3>1. QuerySafe(q) /\ e.owner = o
      BY <1>2, <1>6 DEF QueryInv
    <3>2. e \in Messages(o)
      <4>1. events \in Seq(Event) /\ Len(events) \in Nat /\ Len(events) >= 1
            /\ Head(events) = events[1]
        BY <1>1 DEF TypeOK, KernelTypes
      <4>. QED  BY <3>1, <4>1 DEF Messages, Places
    <3>3. e.result # None
      <4>1. [tag |-> e.result.tag] = e.result
        BY <1>2 DEF QueryResult, Failure
      <4>2. e.result.tag \in Tags
        BY <1>2 DEF QueryResult, Failure, Tags
      <4>. QED  BY <4>1, <4>2, NoneAssumption DEF Tags
    <3>4. Askable(q)
      BY <2>6, <3>1, <3>2, <3>3 DEF QuerySafe, AsksForApproval
    <3>5. Mine(o)' = {} /\ Places(o)' = {}
      BY <3>1, ReceiveKeeps DEF QuerySafe, Ran, TypeOK, KernelTypes
    <3>6. OnSettled(q)' /\ (MayRun(q)' <=> MayRun(q))
      BY <2>2, <2>4, GateStays
    <3>7. Askable(q)' /\ Messages(o)' = {} /\ Lone(o)'
      BY <1>3, <3>4, <3>5, <3>6 DEF Askable, Messages, Lone
    <3>. QED  BY <1>3, <2>4, <3>4, <3>5, <3>6, <3>7 DEF QuerySafe, Askable
  <2>. QED  BY <2>5, <2>6
<1>. QED  BY <1>4, <1>5, <1>6

LEMMA NextQueries ==
    ASSUME TypeInv, ConnInv, QueryInv, [Next]_vars, NEW q \in QueryIds
    PROVE  QuerySafe(q)'
<1>. DEFINE o == QueryOwner(q)
<1>1. TypeOK /\ ConnsStaySettled /\ o.kind = "Query"
  BY NextConns DEF TypeInv, ConnsStaySettled, QueryOwner
<1>2. CASE Dispatched
  <2>1. /\ \A p \in QueryIds : o = QueryOwner(p) => p = q
        /\ \A c \in ConnIds : o # ConnectionOwner(c)
    BY DEF QueryOwner, ConnectionOwner
  <2>2. Asks(q) \/ Kept(o)
    BY <1>1, <1>2, <2>1, DispatchedKeeps DEF Asks
  <2>3. Asks(q) => QuerySafe(q)'
    BY <1>1, StartSafe, ApproveSafe DEF Asks
  <2>. QED  BY <1>1, <1>2, <2>2, <2>3, DispatchedQueries, QueryAges
<1>3. CASE Handled
  BY <1>1, <1>3, HandledKeeps, HandledQueries, QueryAges, RanSafe
<1>4. ASSUME NEW t \in tasks, Works(t)
      PROVE  QuerySafe(q)'
  BY <1>1, <1>4, WorksKeeps, WorksQueries, QueryAges, OwnTaskSafe
<1>5. CASE Blocking
  BY <1>1, <1>5, BlockingKeeps, RestQueries, QueryAges
<1>6. CASE Outside
  BY <1>1, <1>6, OutsideKeeps, RestQueries, QueryAges
<1>7. CASE UNCHANGED vars
  BY <1>1, <1>7, SameKeeps, SameCarriesOn, QueryAges DEF vars, queryVars
<1>. QED  BY <1>2, <1>3, <1>4, <1>5, <1>6, <1>7 DEF Next

LEMMA NothingQueries == NothingYet => QueryInv
<1>. SUFFICES ASSUME NothingYet, NEW q \in QueryIds
              PROVE  QuerySafe(q)
  BY DEF QueryInv
<1>1. /\ queries[q].data = "absent" /\ queries[q].needs = FALSE
      /\ sent[q] = 0 /\ q \notin approved
  BY DEF NothingYet, NoQuery
<1>2. Idle(QueryOwner(q)) /\ Messages(QueryOwner(q)) = {}
  BY DEF NothingYet, Idle, Mine, Places, Messages, Rows
<1>. QED  BY <1>1, <1>2 DEF QuerySafe, Idle, Lone

LEMMA QueryInvariant == Spec => []QueryInv
<1>1. Init => QueryInv
  BY NothingQueries DEF Init
<1>2. TypeInv /\ ConnInv /\ QueryInv /\ [Next]_vars => QueryInv'
  BY NextQueries DEF QueryInv
<1>. QED  BY <1>1, <1>2, ConnInvariant, PTL DEF Spec

\* However queries are approved, cancelled, forgotten, disconnected and answered
\* late, the server executes the statement of each at most once (store.rs
\* `approve_query` takes the question as it answers it).
THEOREM ExecutedAtMostOnce == Spec => []AtMostOnce
<1>1. QueryInv => AtMostOnce
  BY DEF QueryInv, QuerySafe, AtMostOnce
<1>. QED  BY <1>1, QueryInvariant, PTL

\* The server executes nothing over the budget that nobody approved, and no write
\* on a read-only connection, approved or not (the gate of sql.rs as the use cases
\* apply it, and the access the connection was opened with).
THEOREM NothingRunsUnapproved == Spec => []NothingUnapproved
<1>1. QueryInv => NothingUnapproved
  BY DEF QueryInv, QuerySafe, MayRun, NothingUnapproved
<1>. QED  BY <1>1, QueryInvariant, PTL

\* A query that waits for a yes has not been sent, and nothing runs for it.
THEOREM AskedBeforeSent == Spec => []QuestionBeforeMoney
<1>1. QueryInv => QuestionBeforeMoney
  BY DEF QueryInv, QuerySafe, Askable, Mine, QuestionBeforeMoney
<1>. QED  BY <1>1, QueryInvariant, PTL

=============================================================================
