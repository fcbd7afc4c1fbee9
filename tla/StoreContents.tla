--------------------------- MODULE StoreContents ---------------------------
(***************************************************************************)
(* What the store shows is what was read: a grid is one stretch of one order, *)
(* a definition is as new as its last request, a list holds what was saved    *)
(* and a search's rows answer its words; and a history row is settled once,   *)
(* and a query that ended leaves none that looks like it is still going.      *)
(* All of it for every value of the constants.                               *)
(***************************************************************************)
EXTENDS StoreTokens

\* An answer no older than a version of the schema.
Recent(version, answer) ==
    answer # None /\ answer.tag = "Ok" => answer.version >= version

\* A superseded reply is followed by a newer one, and there is a task for as long as
\* that has not been sent.
Fresh(c, t) ==
    LET o == DefinitionOwner(c, t)
    IN /\ asked[c][t] <= schema[t]
       /\ \A k \in Mine(o) : Recent(asked[c][t], k.got)
       /\ Mine(o) = {} =>
             \A i \in Places(o) :
                (\A j \in Places(o) : j <= i) => Recent(asked[c][t], events[i].result)
       /\ Mine(o) = {} /\ Places(o) = {} /\ definitions[c][t].data = "Ready" =>
             definitions[c][t].version >= asked[c][t]

FreshInv == \A c \in ConnIds, t \in Tables : Fresh(c, t)

\* A page that came is the one its request names, and one that ends a relation ends it.
PageOf(req, result) ==
    result.tag = "Ok" =>
        /\ \A i \in 1 .. Len(result.rows) :
              result.rows[i] = [sort |-> req.sort, place |-> req.offset + i]
        /\ Ends(req, result) => req.offset + Len(result.rows) >= RelationSize

PagesAreTrue ==
    \A i \in 1 .. Len(events) :
        events[i].owner.kind = "Preview" => PageOf(events[i].req, events[i].result)

\* The rows end where the next page starts, and what is asked for is that page, or
\* the first one of a grid that shows nothing.
GridSafe(p) ==
    /\ p.data = "Ready" =>
          /\ p.page.sort = p.sort
          /\ Len(p.rows) <= p.nextOffset
          /\ \A i \in 1 .. Len(p.rows) :
                p.rows[i] = [sort |-> p.sort, place |-> (p.nextOffset - Len(p.rows)) + i]
    /\ p.exhausted => p.nextOffset >= RelationSize
    /\ p.pending # None =>
          IF p.pending.append
          THEN p.data = "Ready" /\ p.pending.page = [sort |-> p.sort, offset |-> p.nextOffset]
          ELSE p.data = "Loading" /\ p.pending.page = FirstPage(p.sort)

GridInv == PagesAreTrue /\ \A c \in ConnIds, t \in Tables : GridSafe(previews[c][t])

\* What a save wrote is in the file, and then in the list read after it.
Listed(req, answer) == req = "Save" /\ answer # None /\ answer.wrote => answer.item \in answer.list

\* A job's task is the one that asked for it, and what it wrote is in the file.
JobListed(j) ==
    /\ j.op \in LibraryOps
    /\ j.op = "Save" /\ j.wrote = TRUE => j.item \in saved
    /\ \A t \in tasks : t.id = j.id => t.req = j.op

SaveInv ==
    "Delete" \notin LibraryOps =>
        /\ \A j \in jobs : JobListed(j)
        /\ \A t \in Mine(TemplatesOwner) : Listed(t.req, t.got)
        /\ \A e \in Messages(TemplatesOwner) : Listed(e.req, e.result)

-----------------------------------------------------------------------------
(* What a step that is not about an owner does to its tasks and its messages. *)

\* There is a task as long as there was one, none has an answer it had not, and the
\* messages are where they were.
Carries(o) ==
    /\ Mine(o)' = {} => Mine(o) = {}
    /\ \A k \in Mine(o)' : k \in tasks \/ k.got = None
    /\ Places(o)' = Places(o)
    /\ \A i \in Places(o) : events'[i] = events[i]

LEMMA DispatchedCarries ==
    ASSUME TypeInv, Ids, Dispatched, NEW o, Spares(o)
    PROVE  Carries(o)
<1>1. Opening
  BY DispatchedBooks
<1>2. events' = events
  BY <1>1 DEF Opening, kernelVars, Begin, DropTasks
<1>3. \A k \in tasks' : k \in tasks \/ k.got = None
  <2>1. ASSUME NEW ids, NEW owner, NEW req, Begin(ids, owner, req), NEW k \in tasks'
        PROVE  k \in tasks \/ k.got = None
    BY <2>1 DEF Begin
  <2>. QED  BY <1>1, <2>1 DEF Opening, kernelVars, DropTasks
<1>4. ASSUME NEW t \in Mine(o)
      PROVE  Mine(o)' # {}
  <2>1. t \in tasks /\ t.owner = o
    BY DEF Mine
  <2>2. Token(t) \in Tokens /\ Token(t).owner = o /\ Token(t).id = t.id
    BY <2>1 DEF Tokens, Token
  <2>3. Token(t) \in Tokens'
    BY <2>2 DEF Spares
  <2>4. CASE \E u \in tasks' : Token(t) = Token(u)
    BY <2>2, <2>4 DEF Mine, Token
  <2>5. \A i \in 1 .. Len(events) : Token(t) # Token(events[i])
    BY <2>1 DEF Ids, EventIds, Token
  <2>. QED  BY <1>2, <2>3, <2>4, <2>5 DEF Tokens
<1>. QED  BY <1>2, <1>3, <1>4 DEF Carries, Mine, Places

LEMMA AppendCarries ==
    ASSUME events \in Seq(Event), NEW m, events' = Append(events, m), NEW o, m.owner # o
    PROVE  Places(o)' = Places(o) /\ \A i \in Places(o) : events'[i] = events[i]
<1>1. \A i \in 1 .. Len(events) : events'[i] = events[i]
  OBVIOUS
<1>. QED  BY <1>1, Appended DEF Places

LEMMA SendCarries ==
    ASSUME TypeInv, NEW t \in tasks, NEW result, Send(t, result), NEW o, t.owner # o
    PROVE  Carries(o)
<1>. DEFINE m == [id |-> t.id, owner |-> t.owner, req |-> t.req, result |-> result]
<1>1. events' = Append(events, m) /\ m.owner # o /\ tasks' = tasks \ {t}
  BY DEF Send
<1>. HIDE DEF m
<1>2. Mine(o)' = Mine(o)
  BY <1>1 DEF Mine
<1>. QED  BY <1>1, <1>2, IdTypes, AppendCarries DEF Carries, Mine

LEMMA AnswerCarries ==
    ASSUME TypeInv, NEW t \in tasks, NEW result, Answer(t, result), NEW o, t.owner # o
    PROVE  Carries(o)
<1>. DEFINE u == [t EXCEPT !.got = result]
<1>1. u.owner = t.owner /\ tasks' = (tasks \ {t}) \cup {u} /\ events' = events
  BY IdTypes, GotKeeps DEF Answer
<1>. HIDE DEF u
<1>2. Mine(o)' = Mine(o)
  BY <1>1 DEF Mine
<1>. QED  BY <1>1, <1>2 DEF Carries, Mine, Places

LEMMA ToldCarries ==
    ASSUME TypeInv, NEW j \in jobs, NEW answer, tasks' = {Told(t, j, answer) : t \in tasks},
           UNCHANGED events, NEW o, o # TemplatesOwner
    PROVE  Carries(o)
<1>1. \A t \in tasks : /\ Told(t, j, answer).owner = t.owner
                       /\ t.owner = o => Told(t, j, answer) = t
  BY IdTypes, ToldKeeps DEF TypeInv, JobIds, Told
<1>2. Mine(o)' = Mine(o)
  BY <1>1 DEF Mine
<1>. QED  BY <1>2 DEF Carries, Mine, Places

\* Every step of a task answers it or sends what it got.
LEMMA WorksBooks ==
    ASSUME NEW t \in tasks, Works(t)
    PROVE  \E result : Send(t, result) \/ Answer(t, result)
<1>. DEFINE Done == \E result : Send(t, result) \/ Answer(t, result)
<1>1. ConnectAnswers(t) \/ ExpandAnswers(t) \/ PreviewAnswers(t) => Done
  BY DEF ConnectAnswers, ExpandAnswers, PreviewAnswers
<1>2. DescribeAnswers(t) \/ DescribeSends(t) => Done
  BY DEF DescribeAnswers, DescribeSends
<1>3. ServerExecutes(t) \/ QueryStops(t) \/ QuerySends(t) => Done
  BY DEF ServerExecutes, QueryStops, QuerySends
<1>4. LibrarySends(t) \/ SearchAnswers(t) => Done
  BY DEF LibrarySends, SearchAnswers
<1>. QED  BY <1>1, <1>2, <1>3, <1>4 DEF Works

LEMMA RestCarries ==
    ASSUME TypeInv, [Next]_vars, ~Dispatched, ~Handled, NEW o, o # TemplatesOwner,
           \A q : o # RunOwner(q)
    PROVE  Carries(o) \/ \E t \in Mine(o) : Works(t)
<1>. DEFINE Own == \E t \in Mine(o) : Works(t)
<1>1. ASSUME NEW t \in tasks, Works(t)
      PROVE  Carries(o) \/ Own
  <2>1. CASE t.owner = o
    BY <1>1, <2>1 DEF Mine
  <2>2. CASE t.owner # o
    BY <1>1, <2>2, WorksBooks, SendCarries, AnswerCarries
  <2>. QED  BY <2>1, <2>2
<1>2. UNCHANGED <<tasks, events>> => Carries(o)
  BY DEF Carries, Mine, Places
<1>3. ASSUME NEW w \in writing, RowInserted(w)
      PROVE  Carries(o)
  <2>1. PICK tag \in {"Ok", "Err"} :
          events' = Append(events, [id |-> None, owner |-> RunOwner(w.query),
                                    req |-> w.run, result |-> [tag |-> tag]])
    BY <1>3, Zenon DEF RowInserted
  <2>. DEFINE m == [id |-> None, owner |-> RunOwner(w.query), req |-> w.run,
                    result |-> [tag |-> tag]]
  <2>2. m.owner # o /\ events' = Append(events, m) /\ tasks' = tasks
    BY <1>3, <2>1 DEF RowInserted
  <2>. HIDE DEF m
  <2>. QED  BY <2>2, IdTypes, AppendCarries DEF Carries, Mine
<1>4. \A w \in writing : RowSettled(w) => Carries(o)
  BY <1>2 DEF RowSettled, kernelVars
<1>5. \A j \in jobs : JobWrites(j) => Carries(o)
  BY <1>2 DEF JobWrites, kernelVars
<1>6. ASSUME NEW j \in jobs, JobReads(j)
      PROVE  Carries(o)
  <2>1. PICK tag \in {"Ok", "Err"} :
          tasks' = {Told(t, j, [tag |-> tag, wrote |-> j.wrote, item |-> j.item,
                                list |-> ListFromFile]) : t \in tasks}
    BY <1>6, Zenon DEF JobReads
  <2>2. UNCHANGED events
    BY <1>6 DEF JobReads
  <2>. QED  BY <2>1, <2>2, ToldCarries
<1>7. Outside => Carries(o)
  BY <1>2 DEF Outside, ActorDies, Alter, SchemaChanges, kernelVars
<1>8. UNCHANGED vars => Carries(o)
  BY <1>2 DEF vars, kernelVars
<1>. HIDE DEF Own
<1>9. Carries(o) \/ Own
  BY <1>1, <1>3, <1>4, <1>5, <1>6, <1>7, <1>8 DEF Next, Blocking
<1>. QED  BY <1>9 DEF Own

-----------------------------------------------------------------------------
(* A definition on screen is as new as its last request.                     *)

LEMMA FreshTypes ==
    ASSUME TypeInv, NEW c \in ConnIds, NEW t \in Tables
    PROVE  /\ schema[t] \in Nat /\ asked[c][t] \in Nat
           /\ definitions[c][t] \in Definition
           /\ \A k \in Mine(DefinitionOwner(c, t)) : k.got \in DefinitionResult \cup {None}
           /\ \A i \in Places(DefinitionOwner(c, t)) :
                 events[i].result \in DefinitionResult /\ events[i].result # None
<1>. DEFINE o == DefinitionOwner(c, t)
<1>1. o.kind = "Definition"
  BY DEF DefinitionOwner
<1>. HIDE DEF o
<1>2. \A k \in Mine(o) : k \in DefinitionTask
  BY <1>1, IdTypes, TaskKinds DEF Mine
<1>3. \A i \in Places(o) : events[i] \in DefinitionEvent
  <2>1. \A i \in 1 .. Len(events) : events[i] \in Event
    BY IdTypes
  <2>. QED  BY <1>1, <2>1, EventKinds DEF Places
<1>4. /\ \A k \in Mine(o) : k.got \in DefinitionResult \cup {None}
      /\ \A i \in Places(o) : events[i].result \in DefinitionResult
  BY <1>2, <1>3 DEF DefinitionTask, DefinitionEvent, TaskOf, EventOf
<1>. QED
  BY <1>4, AbsentAssumption DEF o, TypeInv, TypeOK, DefinitionTypes, AbsentAssumption

\* Any version will do for one that was not asked for since the schema was new.
LEMMA UnaskedFresh ==
    ASSUME TypeInv, NEW c \in ConnIds, NEW t \in Tables, asked[c][t] = 0
    PROVE  Fresh(c, t)
<1>. DEFINE o == DefinitionOwner(c, t)
<1>1. \A answer \in DefinitionResult \cup {None} : Recent(asked[c][t], answer)
  BY DEF Recent, DefinitionResult, Failure
<1>2. definitions[c][t].version >= asked[c][t] /\ asked[c][t] <= schema[t]
  BY FreshTypes DEF Definition
<1>. QED  BY <1>1, <1>2, FreshTypes DEF Fresh

Unasked ==
    TypeInv => \A c \in ConnIds, t \in Tables : asked[c][t] = 0 => Fresh(c, t)

LEMMA UnaskedStaysFresh == Unasked'
<1>1. Unasked
  BY UnaskedFresh DEF Unasked
<1>. QED  BY <1>1, PTL

LEMMA CarriedFresh ==
    ASSUME TypeInv, TypeInv', NEW c \in ConnIds, NEW t \in Tables, Fresh(c, t),
           Carries(DefinitionOwner(c, t)), asked'[c][t] = asked[c][t],
           \/ definitions'[c][t] = definitions[c][t]
           \/ definitions'[c][t].data # "Ready",
           schema'[t] >= schema[t]
    PROVE  Fresh(c, t)'
<1>. DEFINE o == DefinitionOwner(c, t)
<1>1. asked'[c][t] <= schema'[t]
  <2>1. schema[t] \in Nat /\ schema'[t] \in Nat /\ asked[c][t] \in Nat
    BY DEF TypeInv, TypeOK, DefinitionTypes
  <2>. QED  BY <2>1 DEF Fresh
<1>3. \A k \in Mine(o)' : Recent(asked'[c][t], k.got)
  BY DEF Fresh, Carries, Mine, Recent
<1>4. ASSUME Mine(o)' = {}, NEW i \in Places(o)', \A j \in Places(o)' : j <= i
      PROVE  Recent(asked'[c][t], events'[i].result)
  <2>1. Mine(o) = {} /\ i \in Places(o) /\ events'[i] = events[i]
    BY <1>4 DEF Carries
  <2>2. Recent(asked[c][t], events[i].result)
    BY <1>4, <2>1 DEF Fresh, Carries
  <2>. QED  BY <2>1, <2>2 DEF Recent
<1>5. ASSUME Mine(o)' = {}, Places(o)' = {}, definitions'[c][t].data = "Ready"
      PROVE  definitions'[c][t].version >= asked'[c][t]
  BY <1>5 DEF Fresh, Carries
<1>. QED  BY <1>1, <1>3, <1>4, <1>5 DEF Fresh

LEMMA DescribeFresh ==
    ASSUME TypeInv, TypeInv', Ids, NEW c \in ConnIds, NEW t \in Inspected,
           NEW refresh \in BOOLEAN, DescribeTable(c, t, refresh)
    PROVE  Fresh(c, t)'
<1>. DEFINE o == DefinitionOwner(c, t)
<1>1. t \in Tables
  BY DEF Tables
<1>2. asked'[c][t] = schema[t]
  BY <1>1, DescribeDefinition
<1>3. schema' = schema
  BY DEF DescribeTable
<1>4. Begin(IdsOf(Rows(o)), o, None)
  BY DEF DescribeTable, Superseded
<1>5. \A u \in tasks : u.owner = o => u.id \in IdsOf(Rows(o))
  <2>. SUFFICES ASSUME NEW u \in tasks, u.owner = o
                PROVE  u.id \in IdsOf(Rows(o))
    OBVIOUS
  <2>. DEFINE b == [id |-> u.id, owner |-> u.owner]
  <2>1. b \in busy /\ b.owner = u.owner /\ b.id = u.id
    BY DEF Ids, TaskIds
  <2>. HIDE DEF b
  <2>. QED  BY <2>1 DEF Rows, IdsOf
<1>. HIDE DEF o
<1>6. \A k \in Mine(o)' : k.got = None
  BY <1>4, <1>5 DEF Begin, Mine
<1>7. Mine(o)' # {}
  <2>. DEFINE k == [id |-> nextId, owner |-> o, req |-> None, got |-> None]
  <2>1. k \in tasks' /\ k.owner = o
    BY <1>4 DEF Begin
  <2>. HIDE DEF k
  <2>. QED  BY <2>1 DEF Mine
<1>8. \A k \in Mine(o)' : Recent(asked'[c][t], k.got)
  BY <1>6 DEF Recent
<1>. QED  BY <1>1, <1>2, <1>3, <1>7, <1>8, FreshTypes DEF Fresh, o

LEMMA AnsweredFresh ==
    ASSUME TypeInv, TypeInv', NEW c \in ConnIds, NEW t \in Tables, Fresh(c, t),
           NEW k \in Mine(DefinitionOwner(c, t)), Works(k)
    PROVE  Fresh(c, t)'
<1>. DEFINE o == DefinitionOwner(c, t)
<1>1. k \in tasks /\ k.owner = o /\ o.kind = "Definition" /\ o.item = t /\ o.conn = c
  BY DEF Mine, DefinitionOwner
<1>. HIDE DEF o
<1>2. DescribeAnswers(k) \/ DescribeSends(k)
  BY <1>1 DEF Works, ConnectAnswers, ExpandAnswers, PreviewAnswers, ServerExecutes,
              QueryStops, QuerySends, LibrarySends, SearchAnswers
<1>3. UNCHANGED <<definitions, schema, asked>>
  BY <1>2 DEF DescribeAnswers, DescribeSends, definitionVars
<1>5. ASSUME NEW result, Answer(k, result), Recent(asked[c][t], result)
      PROVE  Fresh(c, t)'
  <2>. DEFINE u == [k EXCEPT !.got = result]
  <2>1. u.owner = o /\ u.got = result /\ tasks' = (tasks \ {k}) \cup {u} /\ events' = events
    BY <1>1, <1>5, IdTypes, GotKeeps
    DEF Answer, Task, ConnectionTask, NodeTask, PreviewTask, DefinitionTask, QueryTask,
        TemplatesTask, HistoryTask, TaskOf
  <2>. HIDE DEF u
  <2>2. Mine(o)' # {} /\ \A x \in Mine(o)' : x \in Mine(o) \/ x = u
    BY <2>1 DEF Mine
  <2>3. \A x \in Mine(o)' : Recent(asked[c][t], x.got)
    BY <1>5, <2>1, <2>2 DEF Fresh, o
  <2>4. \A x \in Mine(o)' : Recent(asked'[c][t], x.got)
    BY <1>3, <2>3 DEF Recent
  <2>. QED  BY <1>3, <2>2, <2>4 DEF Fresh, o
<1>6. ASSUME Send(k, k.got)
      PROVE  Fresh(c, t)'
  <2>. DEFINE m == [id |-> k.id, owner |-> k.owner, req |-> k.req, result |-> k.got]
  <2>1. /\ events' = Append(events, m) /\ m.owner = o /\ m.result = k.got
        /\ tasks' = tasks \ {k}
    BY <1>1, <1>6 DEF Send
  <2>. HIDE DEF m
  <2>2. Mine(o)' \subseteq Mine(o)
    BY <2>1 DEF Mine
  <2>3. \A x \in Mine(o)' : Recent(asked'[c][t], x.got)
    BY <1>3, <2>2 DEF Fresh, o
  <2>4. /\ Len(events) \in Nat /\ events \in Seq(Event)
        /\ Places(o)' = Places(o) \cup {Len(events) + 1}
    BY <2>1, IdTypes, Appended
  <2>5. events'[Len(events) + 1] = m
    BY <2>1, <2>4
  <2>6. Recent(asked'[c][t], m.result)
    BY <1>1, <1>3, <2>1 DEF Fresh, Mine, o
  <2>7. ASSUME NEW i \in Places(o)', \A j \in Places(o)' : j <= i
        PROVE  Recent(asked'[c][t], events'[i].result)
    <3>1. Len(events) + 1 <= i /\ i \in 1 .. Len(events) \cup {Len(events) + 1}
      BY <2>4, <2>7 DEF Places
    <3>2. i = Len(events) + 1
      BY <2>4, <3>1
    <3>. QED  BY <2>5, <2>6, <3>2
  <2>8. Places(o)' # {}
    BY <2>4
  <2>. QED  BY <1>3, <2>3, <2>7, <2>8 DEF Fresh, o
<1>7. Recent(asked[c][t], [tag |-> "Ok", version |-> schema[t]])
  BY FreshTypes DEF Fresh, Recent
<1>8. \A x : Recent(asked[c][t], [tag |-> Failing(x)])
  BY DEF Recent, Failing
<1>. QED  BY <1>1, <1>2, <1>5, <1>6, <1>7, <1>8 DEF DescribeAnswers, DescribeSends

\* Of the messages for a definition the last is the last until it is handled.
LEMMA ReceivedFresh ==
    ASSUME TypeInv, TypeInv', NEW c \in ConnIds, NEW t \in Tables, Fresh(c, t), Handled
    PROVE  Fresh(c, t)'
<1>. DEFINE o == DefinitionOwner(c, t)
<1>1. events # <<>> /\ events' = Tail(events) /\ tasks' = tasks
  BY DEF Handled, Connected, Expanded, Previewed, Described, Ran, Recorded,
         LibraryAnswered, Searched, Receive
<1>2. UNCHANGED <<schema, asked>>
  BY DEF Handled, Connected, Expanded, Previewed, Described, Ran, Recorded,
         LibraryAnswered, Searched, definitionVars
<1>3. /\ Len(events) \in Nat /\ Len(events) >= 1 /\ Len(events') = Len(events) - 1
      /\ Head(events) = events[1]
  BY <1>1, IdTypes
<1>4. \A i \in 1 .. Len(events') : i + 1 \in 1 .. Len(events) /\ events'[i] = events[i + 1]
  BY <1>1, <1>3, IdTypes
<1>5. \A i \in 1 .. Len(events) :
        i # 1 => i - 1 \in 1 .. Len(events') /\ events'[i - 1] = events[i]
  BY <1>1, <1>3, IdTypes
<1>. HIDE DEF o
<1>6. Mine(o)' = Mine(o)
  BY <1>1 DEF Mine
<1>7. \A i \in Places(o)' : i + 1 \in Places(o) /\ i \in Nat /\ events'[i] = events[i + 1]
  BY <1>4 DEF Places
<1>8. \A i \in Places(o) : i \in Nat /\ i >= 1 /\ (i # 1 => i - 1 \in Places(o)')
  BY <1>3, <1>5 DEF Places
<1>9. \A k \in Mine(o)' : Recent(asked'[c][t], k.got)
  BY <1>2, <1>6 DEF Fresh, o
<1>10. ASSUME Mine(o)' = {}, NEW i \in Places(o)', \A j \in Places(o)' : j <= i
       PROVE  Recent(asked'[c][t], events'[i].result)
  <2>1. i + 1 \in Places(o) /\ i \in Nat /\ events'[i] = events[i + 1]
    BY <1>7
  <2>2. \A j \in Places(o) : j <= i + 1
    <3>. SUFFICES ASSUME NEW j \in Places(o)
                  PROVE  j <= i + 1
      OBVIOUS
    <3>1. j \in Nat /\ j >= 1 /\ (j # 1 => j - 1 \in Places(o)')
      BY <1>8
    <3>2. j # 1 => j - 1 <= i
      BY <1>10, <3>1
    <3>. QED  BY <2>1, <3>1, <3>2
  <2>3. Recent(asked[c][t], events[i + 1].result)
    BY <1>6, <1>10, <2>1, <2>2 DEF Fresh, o
  <2>. QED  BY <1>2, <2>1, <2>3
<1>11. ASSUME Mine(o)' = {}, Places(o)' = {}, definitions'[c][t].data = "Ready"
       PROVE  definitions'[c][t].version >= asked'[c][t]
  <2>1. CASE Places(o) = {}
    <3>1. Head(events).owner # o
      BY <1>3, <2>1 DEF Places
    <3>2. definitions'[c][t] = definitions[c][t]
      <4>1. CASE Described
        BY <3>1, <4>1, DescribedDefinition DEF o
      <4>2. CASE ~Described
        BY <4>2 DEF Handled, Connected, Expanded, Previewed, Ran, Recorded,
                    LibraryAnswered, Searched, definitionVars
      <4>. QED  BY <4>1, <4>2
    <3>. QED  BY <1>2, <1>6, <1>11, <2>1, <3>2 DEF Fresh, o
  <2>2. CASE Places(o) # {}
    <3>1. \A i \in Places(o) : i = 1
      BY <1>8, <1>11
    <3>2. 1 \in Places(o) /\ events[1].owner = o /\ o.kind = "Definition"
      BY <2>2, <3>1 DEF Places, o, DefinitionOwner
    <3>3. Recent(asked[c][t], events[1].result)
      BY <1>6, <1>11, <3>1, <3>2 DEF Fresh, o
    <3>4. Described
      BY <1>3, <3>2 DEF Handled, Connected, Expanded, Previewed, Ran, Recorded,
                        LibraryAnswered, Searched, Receive
    <3>5. events[1].result # None
      BY <3>2, FreshTypes DEF o
    <3>6. \/ definitions[c][t].data = "absent" /\ definitions'[c][t] = definitions[c][t]
          \/ events[1].result.tag = "Ok" /\ definitions'[c][t].version = events[1].result.version
          \/ definitions'[c][t].data = "Failed"
      BY <1>3, <3>2, <3>4, DescribedDefinition DEF o
    <3>7. events[1].result.tag = "Ok" /\ definitions'[c][t].version = events[1].result.version
      BY <1>11, <3>6
    <3>. QED  BY <1>2, <3>3, <3>5, <3>7 DEF Recent
  <2>. QED  BY <2>1, <2>2
<1>12. asked'[c][t] <= schema'[t]
  BY <1>2 DEF Fresh
<1>. QED  BY <1>9, <1>10, <1>11, <1>12 DEF Fresh, o

LEMMA SchemaGrows ==
    ASSUME TypeInv, [Next]_vars, NEW t \in Tables
    PROVE  schema'[t] >= schema[t]
<1>1. schema \in [Tables -> Nat]
  BY DEF TypeInv, TypeOK, DefinitionTypes
<1>2. \A u \in Inspected : SchemaChanges(u) => schema'[t] >= schema[t]
  BY <1>1 DEF SchemaChanges
<1>3. UNCHANGED schema \/ \E u \in Inspected : SchemaChanges(u)
  <2>. DEFINE Same == UNCHANGED schema
              Altered == \E u \in Inspected : SchemaChanges(u)
  <2>1. Dispatched => Same
    <3>1. \A c \in ConnIds : Connect(c) \/ Disconnect(c) => Same
      BY DEF Connect, Disconnect, definitionVars
    <3>2. \A c \in ConnIds, any \in BOOLEAN : OpenConnectionRow(c, any) => Same
      BY DEF OpenConnectionRow, definitionVars
    <3>3. \A c \in ConnIds, n \in Nodes, any \in BOOLEAN : OpenNode(c, n, any) => Same
      BY DEF OpenNode, definitionVars
    <3>4. \A c \in ConnIds, u \in Browsed :
             PreviewTable(c, u) \/ LoadMore(c, u) \/ ForgetPreview(c, u) => Same
      BY DEF PreviewTable, LoadMore, ForgetPreview, definitionVars
    <3>5. \A c \in ConnIds, u \in Browsed, column \in Nat : SortPreview(c, u, column) => Same
      BY DEF SortPreview, definitionVars
    <3>6. \A c \in ConnIds, u \in Inspected, refresh \in BOOLEAN :
             DescribeTable(c, u, refresh) \/ ForgetDefinition(c, u) => Same
      BY DEF DescribeTable, ForgetDefinition
    <3>7. \A c \in ConnIds, q \in QueryIds, sql \in Statements :
             RunQuery(c, q, sql) \/ EstimateQuery(c, q, sql) => Same
      BY DEF RunQuery, EstimateQuery, definitionVars
    <3>8. \A q \in QueryIds : ApproveQuery(q) \/ ForgetQuery(q) => Same
      BY DEF ApproveQuery, ForgetQuery, definitionVars
    <3>9. \A op \in LibraryOps : \A item \in Items(op) : WithLibrary(op, item) => Same
      BY DEF WithLibrary, definitionVars
    <3>10. \A terms \in Terms : SearchHistory(terms) => Same
      BY DEF SearchHistory, definitionVars
    <3>11. \A b \in busy : Cancel(b) => Same
      BY DEF Cancel, AbandonConnection, AbandonNode, AbandonPreview, AbandonDefinition,
             AbandonQuery, AbandonTemplates, AbandonHistory, definitionVars
    <3>. QED
      BY <3>1, <3>2, <3>3, <3>4, <3>5, <3>6, <3>7, <3>8, <3>9, <3>10, <3>11, Zenon
      DEF Dispatched
  <2>2. Handled => Same
    BY DEF Handled, Connected, Expanded, Previewed, Described, Ran, Recorded,
           LibraryAnswered, Searched, definitionVars
  <2>3. \A k \in tasks : Works(k) => Same
    BY DEF Works, ConnectAnswers, ExpandAnswers, PreviewAnswers, DescribeAnswers,
           DescribeSends, ServerExecutes, QueryStops, QuerySends, LibrarySends,
           SearchAnswers, definitionVars
  <2>4. Blocking => Same
    BY DEF Blocking, RowInserted, RowSettled, JobWrites, JobReads, definitionVars
  <2>5. Outside => Same \/ Altered
    BY DEF Outside, ActorDies, Alter, definitionVars
  <2>6. UNCHANGED vars => Same
    BY DEF vars, definitionVars
  <2>. HIDE DEF Same, Altered
  <2>7. Same \/ Altered
    BY <2>1, <2>2, <2>3, <2>4, <2>5, <2>6 DEF Next
  <2>. QED  BY <2>7 DEF Same, Altered
<1>. QED  BY <1>1, <1>2, <1>3

LEMMA NextFresh ==
    ASSUME TypeInv, TypeInv', TokenInv, [Next]_vars, NEW c \in ConnIds, NEW t \in Tables,
           Fresh(c, t)
    PROVE  Fresh(c, t)'
<1>. DEFINE o == DefinitionOwner(c, t)
<1>1. o # TemplatesOwner /\ \A q : o # RunOwner(q)
  BY DEF DefinitionOwner, TemplatesOwner, RunOwner
<1>2. schema'[t] >= schema[t]
  BY SchemaGrows
<1>3. CASE Handled
  BY <1>3, ReceivedFresh
<1>4. CASE \E k \in Mine(o) : Works(k)
  BY <1>4, AnsweredFresh
<1>5. CASE \E refresh \in BOOLEAN : t \in Inspected /\ DescribeTable(c, t, refresh)
  BY <1>5, DescribeFresh DEF TokenInv
<1>6. CASE asked'[c][t] = 0
  BY <1>6, UnaskedStaysFresh DEF Unasked
<1>. HIDE DEF o
<1>7. CASE /\ ~Handled /\ ~\E k \in Mine(o) : Works(k)
           /\ ~\E refresh \in BOOLEAN : t \in Inspected /\ DescribeTable(c, t, refresh)
           /\ asked'[c][t] # 0
  <2>1. definitions'[c][t] = definitions[c][t] /\ asked'[c][t] = asked[c][t]
    <3>1. \A d \in ConnIds : Disconnect(d) =>
            definitions'[c][t] = definitions[c][t] /\ asked'[c][t] = asked[c][t]
      BY <1>7, DisconnectDefinition
    <3>2. \A d \in ConnIds, u \in Inspected, refresh \in BOOLEAN :
             DescribeTable(d, u, refresh) =>
                definitions'[c][t] = definitions[c][t] /\ asked'[c][t] = asked[c][t]
      BY <1>7, DescribeDefinition
    <3>3. \A d \in ConnIds, u \in Inspected : ForgetDefinition(d, u) =>
            definitions'[c][t] = definitions[c][t] /\ asked'[c][t] = asked[c][t]
      BY <1>7, ForgetOneDefinition
    <3>4. \A b \in busy : Cancel(b) =>
            definitions'[c][t] = definitions[c][t] /\ asked'[c][t] = asked[c][t]
      BY <1>7, CancelDefinition
    <3>5. ~Described
      BY <1>7 DEF Handled
    <3>. QED  BY <3>1, <3>2, <3>3, <3>4, <3>5, DefinitionChanges
  <2>2. Spares(o)
    <3>1. ASSUME TakenFrom(o)
          PROVE  FALSE
      <4>. USE <1>1, <1>7, <3>1
      <4>1. CASE \E d \in ConnIds : Disconnect(d) /\ \E b \in Orphaned(d) : b.owner = o
        <5>1. PICK d \in ConnIds : Disconnect(d) /\ \E b \in Orphaned(d) : b.owner = o
          BY <4>1
        <5>2. d = c
          BY <5>1 DEF Orphaned, o, DefinitionOwner
        <5>. QED  BY <5>1, <5>2, DisconnectDefinition
      <4>2. CASE \E d \in ConnIds, u \in Inspected :
                    /\ o = DefinitionOwner(d, u)
                    /\ \/ \E refresh \in BOOLEAN : DescribeTable(d, u, refresh)
                       \/ ForgetDefinition(d, u)
        <5>1. PICK d \in ConnIds, u \in Inspected :
                    /\ o = DefinitionOwner(d, u)
                    /\ \/ \E refresh \in BOOLEAN : DescribeTable(d, u, refresh)
                       \/ ForgetDefinition(d, u)
          BY <4>2
        <5>2. d = c /\ u = t
          BY <5>1 DEF o, DefinitionOwner
        <5>. QED  BY <5>1, <5>2, ForgetOneDefinition
      <4>3. CASE \E b \in busy : b.owner = o /\ Cancel(b)
        BY <4>3, CancelDefinition DEF o
      <4>4. /\ \A d, u : o # PreviewOwner(d, u)
            /\ \A q : o # QueryOwner(q)
            /\ o # HistoryOwner
        BY OwnersDiffer DEF o
      <4>. QED  BY <4>1, <4>2, <4>3, <4>4 DEF TakenFrom
    <3>. QED  BY <1>7, <3>1, SparedOrTaken
  <2>3. Carries(o)
    BY <1>1, <1>7, <2>2, DispatchedCarries, RestCarries DEF TokenInv
  <2>. QED  BY <1>2, <2>1, <2>3, CarriedFresh DEF o
<1>. QED  BY <1>3, <1>4, <1>5, <1>6, <1>7

LEMMA NothingFresh == TypeInv /\ NothingYet => FreshInv
<1>. SUFFICES ASSUME TypeInv, NothingYet, NEW c \in ConnIds, NEW t \in Tables
              PROVE  Fresh(c, t)
  BY DEF FreshInv
<1>1. asked[c][t] = 0
  BY DEF NothingYet
<1>. QED  BY <1>1, UnaskedFresh

LEMMA FreshInvariant == Spec => [](TypeInv /\ TokenInv /\ FreshInv)
<1>1. Init => FreshInv
  BY InitTyped, ConstantsAssumption, NothingFresh DEF Init
<1>2. TypeInv /\ TypeInv' /\ TokenInv /\ FreshInv /\ [Next]_vars => FreshInv'
  BY NextFresh DEF FreshInv
<1>. QED  BY <1>1, <1>2, TokenInvariant, PTL DEF Spec

LEMMA FreshAreFresh == TypeInv /\ FreshInv => RefreshIsFresh
<1>. SUFFICES ASSUME TypeInv, FreshInv, NEW c \in ConnIds, NEW t \in Tables,
                     definitions[c][t].data = "Ready", ~OnItsWay(DefinitionOwner(c, t))
              PROVE  definitions[c][t].version >= asked[c][t]
  BY DEF RefreshIsFresh
<1>1. DOMAIN events = 1 .. Len(events)
  BY IdTypes
<1>2. Mine(DefinitionOwner(c, t)) = {} /\ Places(DefinitionOwner(c, t)) = {}
  BY <1>1 DEF OnItsWay, Mine, Places
<1>. QED  BY <1>2 DEF FreshInv, Fresh

\* Once nothing is in flight, the definition on screen was read no earlier than it
\* was last asked for (describe_table, described): whatever the replies, cancels,
\* closings and schema changes, for every catalogue and any number of requests.
THEOREM DefinitionIsFresh == Spec => []RefreshIsFresh
<1>1. TypeInv /\ FreshInv => RefreshIsFresh
  BY FreshAreFresh
<1>. QED  BY <1>1, FreshInvariant, PTL

-----------------------------------------------------------------------------
(* Every page is the one its request names.                                  *)

LEMMA SlicedPage ==
    ASSUME NEW page \in Page, NEW size \in PageSizes(page), NEW columns
    PROVE  PageOf(page, [tag |-> "Ok", rows |-> Slice(page, size.n), total |-> size.total,
                         columns |-> columns])
<1>. DEFINE rows == Slice(page, size.n)
            result == [tag |-> "Ok", rows |-> rows, total |-> size.total, columns |-> columns]
<1>1. size.n \in Nat /\ page.offset \in Nat
  BY PageSizesTyped, ConstantsAssumption DEF Page, ConstantsAssumption
<1>2. Len(rows) = size.n
  BY <1>1, SliceTyped
<1>3. \A i \in 1 .. size.n : rows[i] = [sort |-> page.sort, place |-> page.offset + i]
  BY DEF Slice
<1>. HIDE DEF rows
<1>4. result.rows = rows /\ result.total = size.total
  OBVIOUS
<1>5. ASSUME size.n < PageSize, size.total = None \/ page.offset + size.n >= size.total
      PROVE  page.offset + size.n >= RelationSize
  <2>1. PageSize \in Nat /\ RelationSize \in Nat /\ RelationSize # None
    BY ConstantsAssumption, AbsentAssumption DEF ConstantsAssumption, AbsentAssumption
  <2>2. CASE size.n = Remaining(page)
    BY <1>1, <1>5, <2>1, <2>2 DEF Remaining
  <2>3. size.n = Remaining(page) \/ size.total = RelationSize
    BY DEF PageSizes
  <2>. QED  BY <1>5, <2>1, <2>2, <2>3
<1>. HIDE DEF result
<1>6. Ends(page, result) => page.offset + Len(rows) >= RelationSize
  BY <1>2, <1>4, <1>5 DEF Ends
<1>7. PageOf(page, result)
  BY <1>2, <1>3, <1>4, <1>6 DEF PageOf
<1>. QED  BY <1>7 DEF result, rows

LEMMA AppendedPage ==
    ASSUME events \in Seq(Event), NEW m, events' = Append(events, m), PagesAreTrue,
           m.owner.kind = "Preview" => PageOf(m.req, m.result)
    PROVE  PagesAreTrue'
<1>1. Len(events) \in Nat /\ Len(events') = Len(events) + 1
  OBVIOUS
<1>2. \A i \in 1 .. Len(events) : events'[i] = events[i]
  OBVIOUS
<1>3. events'[Len(events) + 1] = m
  OBVIOUS
<1>4. \A i \in 1 .. Len(events') : i \in 1 .. Len(events) \/ i = Len(events) + 1
  BY <1>1
<1>. QED  BY <1>2, <1>3, <1>4 DEF PagesAreTrue

LEMMA SentPage ==
    ASSUME TypeInv, PagesAreTrue, NEW t \in tasks, Works(t)
    PROVE  PagesAreTrue'
<1>1. events \in Seq(Event) /\ t \in Task
  BY IdTypes
<1>2. ASSUME NEW result, Send(t, result),
             t.owner.kind = "Preview" => PageOf(t.req, result)
      PROVE  PagesAreTrue'
  <2>. DEFINE m == [id |-> t.id, owner |-> t.owner, req |-> t.req, result |-> result]
  <2>1. /\ events' = Append(events, m) /\ m.owner = t.owner /\ m.req = t.req
        /\ m.result = result
    BY <1>2 DEF Send
  <2>. HIDE DEF m
  <2>. QED  BY <1>1, <1>2, <2>1, AppendedPage
<1>3. \A result : Answer(t, result) => PagesAreTrue'
  BY DEF Answer, PagesAreTrue
<1>4. CASE t.owner.kind # "Preview"
  BY <1>2, <1>3, <1>4, WorksBooks
<1>5. CASE PreviewAnswers(t)
  <2>1. t.req \in Page
    BY <1>1, <1>5, TaskKinds DEF PreviewAnswers, PreviewTask, TaskOf
  <2>2. CASE \E size \in PageSizes(t.req) :
               Send(t, [tag |-> "Ok", rows |-> Slice(t.req, size.n),
                        total |-> size.total, columns |-> width[t.owner.item]])
    BY <1>2, <2>1, <2>2, SlicedPage
  <2>3. CASE Send(t, [tag |-> Failing(t.owner.conn)])
    <3>1. PageOf(t.req, [tag |-> Failing(t.owner.conn)])
      BY DEF PageOf, Failing
    <3>. QED  BY <1>2, <2>3, <3>1
  <2>. QED  BY <1>5, <2>2, <2>3 DEF PreviewAnswers
<1>6. t.owner.kind = "Preview" => PreviewAnswers(t)
  BY DEF Works, ConnectAnswers, ExpandAnswers, DescribeAnswers, DescribeSends,
         ServerExecutes, QueryStops, QuerySends, LibrarySends, SearchAnswers
<1>. QED  BY <1>4, <1>5, <1>6

LEMMA NextPages ==
    ASSUME TypeInv, PagesAreTrue, [Next]_vars
    PROVE  PagesAreTrue'
<1>1. events \in Seq(Event)
  BY IdTypes
<1>2. UNCHANGED events => PagesAreTrue'
  BY DEF PagesAreTrue
<1>3. CASE Dispatched
  BY <1>2, <1>3, DispatchedBooks DEF Opening, kernelVars, Begin, DropTasks
<1>4. CASE Handled
  <2>1. events # <<>> /\ events' = Tail(events)
    BY <1>4 DEF Handled, Connected, Expanded, Previewed, Described, Ran, Recorded,
                LibraryAnswered, Searched, Receive
  <2>2. Len(events) \in Nat /\ Len(events) >= 1 /\ Len(events') = Len(events) - 1
    BY <1>1, <2>1
  <2>3. \A i \in 1 .. Len(events') : i + 1 \in 1 .. Len(events) /\ events'[i] = events[i + 1]
    BY <1>1, <2>1, <2>2
  <2>. QED  BY <2>3 DEF PagesAreTrue
<1>5. ASSUME NEW t \in tasks, Works(t)
      PROVE  PagesAreTrue'
  BY <1>5, SentPage
<1>6. ASSUME NEW w \in writing, RowInserted(w)
      PROVE  PagesAreTrue'
  <2>1. PICK tag \in {"Ok", "Err"} :
          events' = Append(events, [id |-> None, owner |-> RunOwner(w.query),
                                    req |-> w.run, result |-> [tag |-> tag]])
    BY <1>6, Zenon DEF RowInserted
  <2>. DEFINE m == [id |-> None, owner |-> RunOwner(w.query), req |-> w.run,
                    result |-> [tag |-> tag]]
  <2>2. m.owner.kind # "Preview" /\ events' = Append(events, m)
    BY <2>1 DEF RunOwner
  <2>. HIDE DEF m
  <2>. QED  BY <1>1, <2>2, AppendedPage
<1>7. \A w \in writing : RowSettled(w) => UNCHANGED events
  BY DEF RowSettled, kernelVars
<1>8. \A j \in jobs : JobWrites(j) \/ JobReads(j) => UNCHANGED events
  BY DEF JobWrites, JobReads, kernelVars
<1>9. Outside \/ UNCHANGED vars => UNCHANGED events
  BY DEF Outside, ActorDies, Alter, SchemaChanges, kernelVars, vars
<1>. QED  BY <1>2, <1>3, <1>4, <1>5, <1>6, <1>7, <1>8, <1>9 DEF Next, Blocking

-----------------------------------------------------------------------------
(* What is drawn is one stretch of one order.                                *)

\* The page waited for has come, in order.
Arrives(c, t) ==
    LET p == previews[c][t]
        e == Head(events)
    IN /\ events # <<>>
       /\ e.owner = PreviewOwner(c, t)
       /\ p.pending # None /\ e.req = p.pending.page /\ e.result.tag = "Ok"
       /\ previews'[c][t] = Landed(p, e.req, e.result)

LEMMA CancelGrid ==
    ASSUME TypeInv, NEW b \in busy, Cancel(b), NEW c \in ConnIds, NEW t \in Tables
    PROVE  previews'[c][t] \in {previews[c][t], GivenUp(previews[c][t])}
<1>1. previews \in [ConnIds -> [Tables -> Preview]] /\ b.owner \in Owner
  BY DEF TypeInv, TypeOK, PreviewTypes, KernelTypes
<1>2. CASE b.owner.kind = "Preview" /\ AbandonPreview(b.owner.conn, b.owner.item)
  <2>1. b.owner.conn \in ConnIds /\ b.owner.item \in Tables
    BY <1>1, <1>2 DEF Owner
  <2>. QED  BY <1>1, <1>2, <2>1 DEF AbandonPreview
<1>3. CASE b.owner.kind # "Preview"
  <2>1. UNCHANGED previews
    BY <1>3 DEF Cancel, AbandonConnection, AbandonNode, AbandonDefinition, AbandonQuery,
                AbandonTemplates, AbandonHistory, previewVars
  <2>. QED  BY <2>1
<1>. QED  BY <1>2, <1>3 DEF Cancel

LEMMA PreviewedGrid ==
    ASSUME TypeInv, Previewed, NEW c \in ConnIds, NEW t \in Tables
    PROVE  \/ previews'[c][t] \in {previews[c][t], Missed(previews[c][t])}
           \/ Arrives(c, t)
<1>. DEFINE e == Head(events)  p == previews[c][t]  o == PreviewOwner(c, t)
<1>1. e \in PreviewEvent /\ events # <<>>
  BY ReceiveTyped, EventKinds DEF TypeInv, TypeOK, Previewed, Receive
<1>2. /\ e.owner = PreviewOwner(e.owner.conn, e.owner.item)
      /\ e.owner.conn \in ConnIds /\ e.owner.item \in Tables
  BY <1>1 DEF PreviewEvent, EventOf, PreviewOwners, PreviewOwner
<1>3. p \in Preview /\ previews \in [ConnIds -> [Tables -> Preview]]
  BY DEF TypeInv, TypeOK, PreviewTypes
<1>4. CASE e.owner # o
  <2>1. e.owner.conn # c \/ e.owner.item # t
    BY <1>2, <1>4
  <2>2. previews'[c][t] = p
    BY <1>2, <1>3, <2>1 DEF Previewed
  <2>. QED  BY <2>2
<1>5. CASE e.owner = o
  <2>1. e.owner.conn = c /\ e.owner.item = t
    BY <1>5 DEF PreviewOwner
  <2>2. CASE ~Awaits(p, e.req)
    BY <2>1, <2>2 DEF Previewed
  <2>3. CASE Awaits(p, e.req) /\ e.result.tag # "Ok"
    BY <1>3, <2>1, <2>3 DEF Previewed
  <2>4. CASE Awaits(p, e.req) /\ e.result.tag = "Ok"
    <3>1. previews'[c][t] = Landed(p, e.req, e.result)
      BY <1>3, <2>1, <2>4 DEF Previewed
    <3>. QED  BY <1>1, <1>5, <2>4, <3>1 DEF Arrives, Awaits
  <2>. QED  BY <2>2, <2>3, <2>4
<1>. QED  BY <1>4, <1>5

\* All that ever becomes of a preview.
LEMMA PreviewSteps ==
    ASSUME TypeInv, [Next]_vars, NEW c \in ConnIds, NEW t \in Tables
    PROVE  \/ previews'[c][t] \in {previews[c][t], NoPreview, GivenUp(previews[c][t]),
                                   Missed(previews[c][t])}
           \/ Arrives(c, t)
           \/ AsksForPage(c, t)
<1>. DEFINE Left == previews'[c][t] \in {previews[c][t], NoPreview, GivenUp(previews[c][t]),
                                         Missed(previews[c][t])}
<1>1. UNCHANGED previews => Left
  OBVIOUS
<1>2. Browsed \subseteq Tables
  BY DEF Tables
<1>3. \A d \in ConnIds : Disconnect(d) => Left
  BY DisconnectPreviews
<1>4. \A d \in ConnIds, u \in Browsed : ForgetPreview(d, u) => Left
  BY <1>2, ForgetPreviews
<1>5. \A d \in ConnIds, u \in Browsed : AsksForPage(d, u) => Left \/ AsksForPage(c, t)
  BY <1>2, AskedPreviews
<1>6. \A b \in busy : Cancel(b) => Left
  BY CancelGrid
<1>7. Previewed => Left \/ Arrives(c, t)
  BY PreviewedGrid
<1>. HIDE DEF Left
<1>8. Left \/ Arrives(c, t) \/ AsksForPage(c, t)
  BY <1>1, <1>3, <1>4, <1>5, <1>6, <1>7, PreviewChanges
<1>. QED  BY <1>8 DEF Left

LEMMA GivenUpGrid ==
    ASSUME NEW p \in Preview, GridSafe(p)
    PROVE  /\ GridSafe(GivenUp(p))
           /\ p.data = "Ready" => GivenUp(p).rows = p.rows
<1>1. GivenUp(p) = p \/ /\ GivenUp(p).pending = None
                        /\ GivenUp(p).data = "Ready" => p.data = "Ready"
                        /\ GivenUp(p).rows = p.rows /\ GivenUp(p).page = p.page
                        /\ GivenUp(p).sort = p.sort /\ GivenUp(p).nextOffset = p.nextOffset
                        /\ GivenUp(p).exhausted = p.exhausted
  BY DEF GivenUp, Preview
<1>. QED  BY <1>1 DEF GridSafe

LEMMA MissedGrid ==
    ASSUME NEW p \in Preview, GridSafe(p)
    PROVE  /\ GridSafe(Missed(p))
           /\ Missed(p).data = "Ready" => Missed(p).rows = p.rows
<1>1. /\ Missed(p).pending = None
      /\ Missed(p).data = "Ready" => p.data = "Ready" /\ Missed(p).rows = p.rows
      /\ Missed(p).page = p.page
      /\ Missed(p).sort = p.sort /\ Missed(p).nextOffset = p.nextOffset
      /\ Missed(p).exhausted = p.exhausted
  BY DEF Missed, Preview
<1>. QED  BY <1>1 DEF GridSafe

LEMMA NoGrid == GridSafe(NoPreview) /\ NoPreview.data # "Ready"
BY DEF GridSafe, NoPreview

\* A page that extends a grid starts where the grid ends, and one that does not
\* starts it over.
LEMMA LandedGrid ==
    ASSUME NEW p \in Preview, GridSafe(p), NEW req \in Page, NEW result \in PreviewResult,
           p.pending # None, req = p.pending.page, result.tag = "Ok", PageOf(req, result)
    PROVE  /\ GridSafe(Landed(p, req, result))
           /\ p.data = "Ready" /\ Landed(p, req, result).lastError # "reshaped" =>
                 /\ Len(p.rows) <= Len(Landed(p, req, result).rows)
                 /\ \A i \in 1 .. Len(p.rows) : Landed(p, req, result).rows[i] = p.rows[i]
<1>. DEFINE q == Landed(p, req, result)
<1>1. /\ p.rows \in Seq(Row) /\ p.nextOffset \in Nat /\ p.pending \in PendingPage
      /\ req.offset \in Nat
  BY DEF Preview, Page
<1>2. result.rows \in Seq(Row) /\ Len(result.rows) \in Nat /\ Len(p.rows) \in Nat
  BY <1>1 DEF PreviewResult, Failure
<1>3. /\ q.pending = None /\ q.data = "Ready" /\ q.sort = p.sort /\ q.page = req
      /\ q.nextOffset = req.offset + Len(result.rows)
      /\ q.exhausted = Ends(req, result)
      /\ q.rows = IF Merges(p, p.pending.append, result) THEN p.rows \o result.rows
                                                        ELSE result.rows
      /\ q.lastError = IF Reshapes(p, p.pending.append, result) THEN "reshaped" ELSE "None"
  BY DEF Landed, Preview
<1>. HIDE DEF q
<1>4. q.nextOffset = req.offset + Len(result.rows)
  BY <1>3
<1>5. req.sort = p.sort /\ (p.data = "Ready" => p.pending.append)
  BY DEF GridSafe, FirstPage
<1>6. /\ \A i \in 1 .. Len(result.rows) :
            result.rows[i] = [sort |-> p.sort, place |-> req.offset + i]
      /\ q.exhausted => q.nextOffset >= RelationSize
  BY <1>3, <1>5 DEF PageOf
<1>7. CASE Merges(p, p.pending.append, result)
  <2>1. /\ q.rows = p.rows \o result.rows
        /\ p.data = "Ready" /\ p.pending.append /\ req.offset = p.nextOffset
    <3>1. q.rows = p.rows \o result.rows
      BY <1>3, <1>7
    <3>2. p.data = "Ready" /\ p.pending.append
      BY <1>7 DEF Merges
    <3>. QED  BY <3>1, <3>2 DEF GridSafe
  <2>2. /\ Len(q.rows) = Len(p.rows) + Len(result.rows)
        /\ \A i \in 1 .. Len(p.rows) : q.rows[i] = p.rows[i]
        /\ \A i \in 1 .. Len(q.rows) :
              \/ i \in 1 .. Len(p.rows)
              \/ /\ i - Len(p.rows) \in 1 .. Len(result.rows)
                 /\ q.rows[i] = result.rows[i - Len(p.rows)]
    <3>. DEFINE old == p.rows  new == result.rows
    <3>1. old \in Seq(Row) /\ new \in Seq(Row) /\ q.rows = old \o new
      BY <1>1, <1>2, <2>1
    <3>. HIDE DEF old, new
    <3>2. Len(old) \in Nat /\ Len(new) \in Nat /\ Len(q.rows) = Len(old) + Len(new)
      BY <3>1
    <3>3. \A i \in 1 .. Len(old) : q.rows[i] = old[i]
      BY <3>1
    <3>4. \A i \in 1 .. Len(q.rows) :
            \/ i \in 1 .. Len(old)
            \/ i - Len(old) \in 1 .. Len(new) /\ q.rows[i] = new[i - Len(old)]
      BY <3>1, <3>2
    <3>. QED  BY <3>2, <3>3, <3>4 DEF old, new
  <2>3. /\ Len(p.rows) <= p.nextOffset
        /\ \A i \in 1 .. Len(p.rows) :
              p.rows[i] = [sort |-> p.sort, place |-> (p.nextOffset - Len(p.rows)) + i]
    BY <2>1 DEF GridSafe
  <2>4. /\ q.nextOffset - Len(q.rows) = p.nextOffset - Len(p.rows)
        /\ Len(q.rows) <= q.nextOffset /\ Len(p.rows) <= Len(q.rows)
    <3>. DEFINE a == p.nextOffset  m == Len(p.rows)  n == Len(result.rows)
                b == q.nextOffset  k == Len(q.rows)
    <3>1. a \in Nat /\ m \in Nat /\ n \in Nat /\ b = a + n /\ k = m + n /\ m <= a
      BY <1>1, <1>2, <1>4, <2>1, <2>2, <2>3
    <3>. HIDE DEF a, b, k, m, n
    <3>2. b - k = a - m /\ k <= b /\ m <= k
      BY <3>1
    <3>. QED  BY <3>2 DEF a, b, k, m, n
  <2>5. ASSUME NEW i \in 1 .. Len(q.rows)
        PROVE  q.rows[i] = [sort |-> p.sort, place |-> (q.nextOffset - Len(q.rows)) + i]
    <3>1. CASE i \in 1 .. Len(p.rows)
      BY <2>2, <2>3, <2>4, <3>1
    <3>2. CASE i \notin 1 .. Len(p.rows)
      <4>1. /\ i - Len(p.rows) \in 1 .. Len(result.rows)
            /\ q.rows[i] = result.rows[i - Len(p.rows)]
        BY <2>2, <3>2
      <4>2. q.rows[i] = [sort |-> p.sort, place |-> p.nextOffset + (i - Len(p.rows))]
        BY <1>6, <2>1, <4>1
      <4>3. p.nextOffset + (i - Len(p.rows)) = (p.nextOffset - Len(p.rows)) + i
        BY <1>1, <1>2, <4>1
      <4>. QED  BY <2>4, <4>2, <4>3
    <3>. QED  BY <3>1, <3>2
  <2>6. GridSafe(q)
    BY <1>3, <1>5, <1>6, <2>4, <2>5 DEF GridSafe
  <2>. QED  BY <2>2, <2>4, <2>6 DEF q
<1>8. CASE ~Merges(p, p.pending.append, result)
  <2>1. q.rows = result.rows
    BY <1>3, <1>8
  <2>2. /\ Len(q.rows) <= q.nextOffset
        /\ q.nextOffset - Len(q.rows) = req.offset
    BY <1>1, <1>2, <1>4, <2>1
  <2>3. GridSafe(q)
    BY <1>3, <1>5, <1>6, <2>1, <2>2 DEF GridSafe
  <2>4. p.data = "Ready" => q.lastError = "reshaped"
    BY <1>3, <1>5, <1>8 DEF Merges, Reshapes
  <2>. QED  BY <2>3, <2>4 DEF q
<1>. QED  BY <1>7, <1>8

LEMMA ArrivedGrid ==
    ASSUME TypeInv, GridInv, NEW c \in ConnIds, NEW t \in Tables, Arrives(c, t)
    PROVE  /\ Head(events).req \in Page /\ Head(events).result \in PreviewResult
           /\ PageOf(Head(events).req, Head(events).result)
<1>. DEFINE e == Head(events)
<1>1. events # <<>> /\ e.owner.kind = "Preview" /\ events \in Seq(Event)
  BY IdTypes DEF Arrives, PreviewOwner
<1>2. e = events[1] /\ 1 \in 1 .. Len(events) /\ e \in Event
  BY <1>1
<1>3. e \in PreviewEvent
  BY <1>1, <1>2, EventKinds
<1>. QED  BY <1>1, <1>2, <1>3 DEF GridInv, PagesAreTrue, PreviewEvent, EventOf

LEMMA AskedGrid ==
    ASSUME TypeInv, NEW c \in ConnIds, NEW t \in Tables, GridSafe(previews[c][t]),
           AsksForPage(c, t)
    PROVE  /\ GridSafe(previews'[c][t])
           /\ previews'[c][t].data = "Ready" => previews'[c][t].rows = previews[c][t].rows
<1>. DEFINE q == previews'[c][t]
<1>1. PICK p \in Preview, page \in Page, append \in BOOLEAN :
        /\ FetchPage(c, t, p, page, append)
        /\ append => /\ p = previews[c][t] /\ p.data = "Ready"
                     /\ page.sort = p.page.sort /\ page.offset = p.nextOffset
        /\ ~append => /\ p.data = "Loading" /\ p.exhausted = FALSE
                      /\ page = FirstPage(p.sort)
  BY Fetches DEF AsksForPage
<1>. DEFINE pending == [busy |-> nextId, page |-> page, append |-> append]
<1>2. /\ q.pending = pending /\ q.pending # None
      /\ q.data = p.data /\ q.sort = p.sort /\ q.page = p.page
      /\ q.nextOffset = p.nextOffset /\ q.rows = p.rows /\ q.exhausted = p.exhausted
  BY <1>1, FetchLeaves
<1>3. pending.append = append /\ pending.page = page
  OBVIOUS
<1>. HIDE DEF q, pending
<1>4. CASE append
  <2>1. GridSafe(p) /\ p.data = "Ready" /\ p = previews[c][t]
    BY <1>1, <1>4
  <2>2. page = [sort |-> p.sort, offset |-> p.nextOffset]
    BY <1>1, <1>4, <2>1 DEF GridSafe, Page
  <2>3. GridSafe(q)
    BY <1>2, <1>3, <1>4, <2>1, <2>2 DEF GridSafe
  <2>. QED  BY <1>2, <2>1, <2>3 DEF q
<1>5. CASE ~append
  <2>1. q.data = "Loading" /\ q.exhausted = FALSE /\ page = FirstPage(q.sort)
    BY <1>1, <1>2, <1>5
  <2>2. GridSafe(q)
    BY <1>2, <1>3, <1>5, <2>1 DEF GridSafe
  <2>. QED  BY <2>1, <2>2 DEF q
<1>. QED  BY <1>4, <1>5

LEMMA NextGrid ==
    ASSUME TypeInv, GridInv, [Next]_vars, NEW c \in ConnIds, NEW t \in Tables
    PROVE  /\ GridSafe(previews'[c][t])
           /\ /\ previews[c][t].data = "Ready" /\ previews'[c][t].data = "Ready"
              /\ previews'[c][t].lastError # "reshaped"
              =>
                 /\ Len(previews[c][t].rows) <= Len(previews'[c][t].rows)
                 /\ \A i \in 1 .. Len(previews[c][t].rows) :
                       previews'[c][t].rows[i] = previews[c][t].rows[i]
<1>. DEFINE p == previews[c][t]  q == previews'[c][t]
<1>1. p \in Preview /\ GridSafe(p) /\ Len(p.rows) \in Nat
  BY DEF TypeInv, TypeOK, PreviewTypes, GridInv, Preview
<1>. HIDE DEF p, q
<1>2. CASE q \in {p, NoPreview, GivenUp(p), Missed(p)}
  <2>1. GridSafe(q) /\ (p.data = "Ready" /\ q.data = "Ready" => q.rows = p.rows)
    BY <1>1, <1>2, NoGrid, GivenUpGrid, MissedGrid
  <2>. QED  BY <1>1, <2>1 DEF p, q
<1>3. CASE Arrives(c, t)
  <2>1. /\ p.pending # None /\ Head(events).req = p.pending.page
        /\ Head(events).result.tag = "Ok"
        /\ q = Landed(p, Head(events).req, Head(events).result)
    BY <1>3 DEF Arrives, p, q
  <2>. QED  BY <1>1, <1>3, <2>1, ArrivedGrid, LandedGrid DEF p, q
<1>4. CASE AsksForPage(c, t)
  BY <1>1, <1>4, AskedGrid DEF p, q
<1>. QED  BY <1>2, <1>3, <1>4, PreviewSteps DEF p, q

LEMMA NothingGrid == NothingYet => GridInv
BY NoGrid DEF NothingYet, GridInv, PagesAreTrue

LEMMA GridInvariant == Spec => [](TypeInv /\ GridInv)
<1>1. Init => GridInv
  BY NothingGrid DEF Init
<1>2. TypeInv /\ GridInv /\ [Next]_vars => GridInv'
  BY NextPages, NextGrid DEF GridInv
<1>. QED  BY <1>1, <1>2, TypesAreInvariant, PTL DEF Spec

LEMMA GridsAreOneStretch == TypeInv /\ GridInv => GridIsContiguous
<1>. SUFFICES ASSUME TypeInv, GridInv, NEW c \in ConnIds, NEW t \in Tables
              PROVE  LET p == previews[c][t]
                     IN /\ p.data = "Ready" =>
                              /\ p.page.sort = p.sort
                              /\ \A i \in DOMAIN p.rows :
                                    /\ p.rows[i].sort = p.sort
                                    /\ p.rows[i].place = (p.nextOffset - Len(p.rows)) + i
                        /\ p.exhausted => p.nextOffset >= RelationSize
  BY DEF GridIsContiguous
<1>. DEFINE p == previews[c][t]
<1>1. GridSafe(p) /\ p.rows \in Seq(Row)
  BY DEF GridInv, TypeInv, TypeOK, PreviewTypes, Preview
<1>2. DOMAIN p.rows = 1 .. Len(p.rows)
  BY <1>1
<1>. HIDE DEF p
<1>3. ASSUME p.data = "Ready", NEW i \in DOMAIN p.rows
      PROVE  p.rows[i].sort = p.sort /\ p.rows[i].place = (p.nextOffset - Len(p.rows)) + i
  <2>1. p.rows[i] = [sort |-> p.sort, place |-> (p.nextOffset - Len(p.rows)) + i]
    BY <1>1, <1>2, <1>3 DEF GridSafe
  <2>. DEFINE place == (p.nextOffset - Len(p.rows)) + i  row == p.rows[i]
  <2>. HIDE DEF place, row
  <2>2. row = [sort |-> p.sort, place |-> place]
    BY <2>1 DEF row, place
  <2>3. row.sort = p.sort /\ row.place = place
    BY <2>2
  <2>. QED  BY <2>3 DEF row, place
<1>4. /\ p.data = "Ready" => p.page.sort = p.sort
      /\ p.exhausted => p.nextOffset >= RelationSize
  BY <1>1 DEF GridSafe
<1>. QED  BY <1>3, <1>4 DEF p

\* What a grid draws is consecutive rows in the order its header shows, ending where
\* the next page starts, and one that says there are no more has shown the last
\* (previewed, fetch_page, pages.rs): for every page size, relation and interleaving.
THEOREM GridIsOneStretch == Spec => []GridIsContiguous
<1>1. TypeInv /\ GridInv => GridIsContiguous
  BY GridsAreOneStretch
<1>. QED  BY <1>1, GridInvariant, PTL

\* Until it is forgotten, reordered or visibly replaced, a preview never loses a row
\* it has drawn (previewed, abandon).
THEOREM NoDrawnRowIsLost == Spec => DrawnRowsStay
<1>. DEFINE Stay ==
       \A c \in ConnIds, t \in Tables :
          LET p == previews[c][t]
              q == previews'[c][t]
          IN p.data = "Ready" /\ q.data = "Ready" /\ q.lastError # "reshaped" =>
                /\ Len(p.rows) <= Len(q.rows)
                /\ \A i \in DOMAIN p.rows : q.rows[i] = p.rows[i]
<1>1. TypeInv /\ GridInv /\ [Next]_vars => [Stay]_previews
  <2>. SUFFICES ASSUME TypeInv, GridInv, [Next]_vars, NEW c \in ConnIds, NEW t \in Tables,
                       previews[c][t].data = "Ready", previews'[c][t].data = "Ready",
                       previews'[c][t].lastError # "reshaped"
                PROVE  /\ Len(previews[c][t].rows) <= Len(previews'[c][t].rows)
                       /\ \A i \in DOMAIN previews[c][t].rows :
                             previews'[c][t].rows[i] = previews[c][t].rows[i]
    OBVIOUS
  <2>1. DOMAIN previews[c][t].rows = 1 .. Len(previews[c][t].rows)
    BY DEF TypeInv, TypeOK, PreviewTypes, Preview
  <2>. QED  BY <2>1, NextGrid
<1>. QED  BY <1>1, GridInvariant, PTL DEF Spec, DrawnRowsStay

-----------------------------------------------------------------------------
(* What was saved is listed.                                                 *)

LEMMA SavedKept ==
    ASSUME Dispatched \/ Handled \/ (\E t \in tasks : Works(t)) \/ Outside \/ UNCHANGED vars
    PROVE  UNCHANGED saved
<1>. DEFINE Same == UNCHANGED saved
<1>1. Dispatched => Same
  <2>1. \A c \in ConnIds : Connect(c) \/ Disconnect(c) => Same
    BY DEF Connect, Disconnect, libraryVars
  <2>2. \A c \in ConnIds, any \in BOOLEAN : OpenConnectionRow(c, any) => Same
    BY DEF OpenConnectionRow, libraryVars
  <2>3. \A c \in ConnIds, n \in Nodes, any \in BOOLEAN : OpenNode(c, n, any) => Same
    BY DEF OpenNode, libraryVars
  <2>4. \A c \in ConnIds, u \in Browsed :
          PreviewTable(c, u) \/ LoadMore(c, u) \/ ForgetPreview(c, u) => Same
    BY DEF PreviewTable, LoadMore, ForgetPreview, libraryVars
  <2>5. \A c \in ConnIds, u \in Browsed, column \in Nat : SortPreview(c, u, column) => Same
    BY DEF SortPreview, libraryVars
  <2>6. \A c \in ConnIds, u \in Inspected, refresh \in BOOLEAN :
          DescribeTable(c, u, refresh) \/ ForgetDefinition(c, u) => Same
    BY DEF DescribeTable, ForgetDefinition, libraryVars
  <2>7. \A c \in ConnIds, q \in QueryIds, sql \in Statements :
          RunQuery(c, q, sql) \/ EstimateQuery(c, q, sql) => Same
    BY DEF RunQuery, EstimateQuery, libraryVars
  <2>8. \A q \in QueryIds : ApproveQuery(q) \/ ForgetQuery(q) => Same
    BY DEF ApproveQuery, ForgetQuery, libraryVars
  <2>9. \A op \in LibraryOps : \A item \in Items(op) : WithLibrary(op, item) => Same
    BY DEF WithLibrary
  <2>10. \A terms \in Terms : SearchHistory(terms) => Same
    BY DEF SearchHistory
  <2>11. \A b \in busy : Cancel(b) => Same
    BY DEF Cancel, AbandonConnection, AbandonNode, AbandonPreview, AbandonDefinition,
           AbandonQuery, AbandonTemplates, AbandonHistory, libraryVars
  <2>. QED
    BY <2>1, <2>2, <2>3, <2>4, <2>5, <2>6, <2>7, <2>8, <2>9, <2>10, <2>11, Zenon
    DEF Dispatched
<1>2. Handled => Same
  BY DEF Handled, Connected, Expanded, Previewed, Described, Ran, Recorded,
         LibraryAnswered, Searched, libraryVars
<1>3. \A t \in tasks : Works(t) => Same
  BY DEF Works, ConnectAnswers, ExpandAnswers, PreviewAnswers, DescribeAnswers,
         DescribeSends, ServerExecutes, QueryStops, QuerySends, LibrarySends,
         SearchAnswers, libraryVars
<1>4. Outside \/ UNCHANGED vars => Same
  BY DEF Outside, ActorDies, Alter, SchemaChanges, libraryVars, vars
<1>. QED  BY <1>1, <1>2, <1>3, <1>4

\* A task that begins has an id no job has.
LEMMA DispatchedSaves ==
    ASSUME TypeInv, "Delete" \notin LibraryOps, SaveInv, Dispatched
    PROVE  SaveInv'
<1>1. Opening /\ saved' = saved
  BY DispatchedBooks, SavedKept
<1>2. /\ \A j \in jobs : JobListed(j) /\ j.id \in Nat /\ j.id < nextId
      /\ \A t \in tasks : t.id \in Nat /\ t.id < nextId
  BY IdTypes, ConstantsAssumption DEF SaveInv, TypeInv, JobIds, BusyId, ConstantsAssumption
<1>3. Messages(TemplatesOwner)' = Messages(TemplatesOwner)
  <2>1. events' = events
    BY <1>1 DEF Opening, kernelVars, Begin, DropTasks
  <2>. QED  BY <2>1 DEF Messages, Places
<1>4. ASSUME NEW ids, NEW owner, NEW req, Begin(ids, owner, req)
      PROVE  /\ \A t \in tasks' : t \in tasks \/ (t.id = nextId /\ t.req = req /\ t.got = None)
             /\ nextId \in Nat
  BY <1>4, IdTypes DEF Begin
<1>5. \A t \in tasks' : t \in tasks \/ (t.id = nextId /\ t.got = None)
  <2>1. CASE UNCHANGED kernelVars
    BY <2>1 DEF kernelVars
  <2>2. CASE \E ids, owner, req : Begin(ids, owner, req)
    <3>1. PICK ids, owner, req : Begin(ids, owner, req)
      BY <2>2
    <3>. QED  BY <3>1, <1>4
  <2>3. CASE \E ids : DropTasks(ids)
    <3>1. PICK ids : DropTasks(ids)
      BY <2>3
    <3>. QED  BY <3>1 DEF DropTasks
  <2>. QED  BY <1>1, <2>1, <2>2, <2>3, Zenon DEF Opening
<1>6. \A t \in Mine(TemplatesOwner)' : Listed(t.req, t.got)
  <2>. SUFFICES ASSUME NEW t \in Mine(TemplatesOwner)'
                PROVE  Listed(t.req, t.got)
    OBVIOUS
  <2>1. t \in tasks' /\ t.owner = TemplatesOwner
    BY DEF Mine
  <2>2. CASE t \in tasks
    <3>1. t \in Mine(TemplatesOwner)
      BY <2>1, <2>2 DEF Mine
    <3>. QED  BY <3>1 DEF SaveInv
  <2>3. CASE t.got = None
    BY <2>3 DEF Listed
  <2>. QED  BY <1>5, <2>1, <2>2, <2>3
<1>7. \A j \in jobs : JobListed(j)'
  BY <1>1, <1>2, <1>5 DEF JobListed
<1>8. ASSUME NEW op \in LibraryOps, NEW item \in Items(op), WithLibrary(op, item),
             NEW j \in jobs', j \notin jobs
      PROVE  JobListed(j)'
  <2>1. /\ j = [id |-> nextId, op |-> op, item |-> item, wrote |-> None]
        /\ Begin({}, TemplatesOwner, op)
    BY <1>8 DEF WithLibrary
  <2>2. j.id = nextId /\ j.op = op /\ j.wrote = None /\ j.wrote # TRUE
    BY <2>1, AbsentAssumption DEF AbsentAssumption
  <2>3. \A t \in tasks' : t.id = nextId => t.req = op
    BY <1>2, <1>4, <2>1
  <2>. QED  BY <2>2, <2>3 DEF JobListed
<1>9. \A j \in jobs' : JobListed(j)'
  BY <1>7, <1>8, DispatchedAges DEF TypeInv
<1>. QED  BY <1>3, <1>6, <1>9 DEF SaveInv

LEMMA HandledSaves ==
    ASSUME TypeInv, "Delete" \notin LibraryOps, SaveInv, Handled
    PROVE  SaveInv'
<1>1. events # <<>> /\ events' = Tail(events) /\ tasks' = tasks
  BY DEF Handled, Connected, Expanded, Previewed, Described, Ran, Recorded,
         LibraryAnswered, Searched, Receive
<1>2. saved' = saved /\ jobs' = jobs
  BY SavedKept, HandledAges DEF TypeInv
<1>3. Messages(TemplatesOwner)' \subseteq Messages(TemplatesOwner)
  BY <1>1, IdTypes, Taken
<1>4. \A j \in jobs' : JobListed(j)'
  BY <1>1, <1>2 DEF SaveInv, JobListed
<1>. QED  BY <1>1, <1>3, <1>4 DEF SaveInv, Mine

LEMMA WorksSaves ==
    ASSUME TypeInv, "Delete" \notin LibraryOps, SaveInv, NEW t \in tasks, Works(t)
    PROVE  SaveInv'
<1>. DEFINE o == TemplatesOwner
<1>1. saved' = saved /\ jobs' = jobs
  BY SavedKept, WorksAges DEF TypeInv
<1>2. t \in Task /\ events \in Seq(Event)
  BY IdTypes
<1>3. ASSUME NEW result, Answer(t, result)
      PROVE  SaveInv'
  <2>. DEFINE u == [t EXCEPT !.got = result]
  <2>1. /\ u.id = t.id /\ u.req = t.req /\ u.owner = t.owner
        /\ tasks' = (tasks \ {t}) \cup {u} /\ events' = events
    BY <1>2, <1>3, GotKeeps DEF Answer
  <2>. HIDE DEF u
  <2>2. t.owner # o
    <3>1. t.owner.kind = "Templates" => LibrarySends(t)
      BY DEF Works, ConnectAnswers, ExpandAnswers, PreviewAnswers, DescribeAnswers,
             DescribeSends, ServerExecutes, QueryStops, QuerySends, SearchAnswers
    <3>2. LibrarySends(t) => Send(t, t.got)
      BY DEF LibrarySends
    <3>3. ~Send(t, t.got)
      <4>1. Send(t, t.got) => Len(events') = Len(events) + 1
        BY <1>2 DEF Send
      <4>. QED  BY <1>2, <2>1, <4>1
    <3>. QED  BY <3>1, <3>2, <3>3 DEF TemplatesOwner
  <2>3. \A j \in jobs' : JobListed(j)'
    BY <1>1, <2>1 DEF SaveInv, JobListed
  <2>4. Mine(o)' = Mine(o) /\ Messages(o)' = Messages(o)
    BY <2>1, <2>2 DEF Mine, Messages, Places
  <2>. QED  BY <2>3, <2>4 DEF SaveInv
<1>4. ASSUME NEW result, Send(t, result), t.owner = o => result = t.got
      PROVE  SaveInv'
  <2>. DEFINE m == [id |-> t.id, owner |-> t.owner, req |-> t.req, result |-> result]
  <2>1. /\ m.owner = t.owner /\ m.req = t.req /\ m.result = result
        /\ tasks' = tasks \ {t} /\ events' = Append(events, m)
    BY <1>4 DEF Send
  <2>. HIDE DEF m
  <2>2. \A j \in jobs' : JobListed(j)'
    BY <1>1, <2>1 DEF SaveInv, JobListed
  <2>3. Mine(o)' \subseteq Mine(o)
    BY <2>1 DEF Mine
  <2>4. Messages(o)' \subseteq Messages(o) \cup {m} /\ (m.owner # o => m \notin Messages(o)' \ Messages(o))
    BY <1>2, <2>1, Appended
  <2>5. m.owner = o => Listed(m.req, m.result)
    BY <1>4, <2>1 DEF SaveInv, Mine
  <2>. QED  BY <2>2, <2>3, <2>4, <2>5 DEF SaveInv
<1>5. t.owner.kind = "Templates" => LibrarySends(t)
  BY DEF Works, ConnectAnswers, ExpandAnswers, PreviewAnswers, DescribeAnswers,
         DescribeSends, ServerExecutes, QueryStops, QuerySends, SearchAnswers
<1>6. LibrarySends(t) => Send(t, t.got)
  BY DEF LibrarySends
<1>7. CASE t.owner = o
  <2>1. Send(t, t.got)
    BY <1>5, <1>6, <1>7 DEF TemplatesOwner
  <2>. QED  BY <1>4, <2>1
<1>8. CASE t.owner # o
  BY <1>3, <1>4, <1>8, WorksBooks
<1>. QED  BY <1>7, <1>8

LEMMA BlockingSaves ==
    ASSUME TypeInv, "Delete" \notin LibraryOps, SaveInv, Blocking
    PROVE  SaveInv'
<1>. DEFINE o == TemplatesOwner
<1>1. events \in Seq(Event) /\ jobs \in SUBSET Job
  BY IdTypes DEF TypeInv, TypeOK, LibraryTypes
<1>2. ASSUME NEW w \in writing, RowInserted(w)
      PROVE  SaveInv'
  <2>1. PICK tag \in {"Ok", "Err"} :
          events' = Append(events, [id |-> None, owner |-> RunOwner(w.query),
                                    req |-> w.run, result |-> [tag |-> tag]])
    BY <1>2, Zenon DEF RowInserted
  <2>. DEFINE m == [id |-> None, owner |-> RunOwner(w.query), req |-> w.run,
                    result |-> [tag |-> tag]]
  <2>2. m.owner # o /\ events' = Append(events, m)
    BY <2>1 DEF RunOwner, TemplatesOwner
  <2>. HIDE DEF m
  <2>3. UNCHANGED <<tasks, jobs, saved>>
    BY <1>2 DEF RowInserted, libraryVars
  <2>4. Messages(o)' = Messages(o) /\ Mine(o)' = Mine(o)
    BY <1>1, <2>2, <2>3, Appended DEF Mine
  <2>. QED  BY <2>3, <2>4 DEF SaveInv, JobListed
<1>3. ASSUME NEW w \in writing, RowSettled(w)
      PROVE  SaveInv'
  BY <1>3 DEF RowSettled, libraryVars, kernelVars, SaveInv, JobListed, Mine, Messages, Places
<1>4. ASSUME NEW j \in jobs, JobWrites(j)
      PROVE  SaveInv'
  <2>1. PICK ok \in {Writable(j.op, j.item), j.op = "Load"} :
          /\ jobs' = (jobs \ {j}) \cup {[j EXCEPT !.wrote = ok]}
          /\ saved' = IF ok THEN Written(j.op, j.item) ELSE saved
    BY <1>4, Zenon DEF JobWrites
  <2>2. UNCHANGED <<tasks, events>>
    BY <1>4 DEF JobWrites, kernelVars
  <2>3. JobListed(j) /\ j.op # "Delete" /\ \A i \in jobs : JobListed(i)
    BY DEF SaveInv, JobListed
  <2>4. saved \subseteq saved'
    BY <2>1, <2>3 DEF Written
  <2>. DEFINE k == [j EXCEPT !.wrote = ok]
  <2>5. k.id = j.id /\ k.op = j.op /\ k.item = j.item /\ k.wrote = ok
    BY <1>1 DEF Job
  <2>. HIDE DEF k
  <2>6. k.op = "Save" /\ k.wrote = TRUE => k.item \in saved'
    BY <2>1, <2>5 DEF Written
  <2>7. JobListed(k)'
    BY <2>2, <2>3, <2>5, <2>6 DEF JobListed
  <2>8. \A i \in jobs : JobListed(i)'
    BY <2>2, <2>3, <2>4 DEF JobListed
  <2>9. \A i \in jobs' : i \in jobs \/ i = k
    BY <2>1 DEF k
  <2>10. \A i \in jobs' : JobListed(i)'
    BY <2>7, <2>8, <2>9
  <2>. QED  BY <2>2, <2>10 DEF SaveInv, Mine, Messages, Places
<1>5. ASSUME NEW j \in jobs, JobReads(j)
      PROVE  SaveInv'
  <2>1. PICK tag \in {"Ok", "Err"} :
          tasks' = {Told(t, j, [tag |-> tag, wrote |-> j.wrote, item |-> j.item,
                                list |-> ListFromFile]) : t \in tasks}
    BY <1>5, Zenon DEF JobReads
  <2>. DEFINE answer == [tag |-> tag, wrote |-> j.wrote, item |-> j.item,
                         list |-> ListFromFile]
  <2>2. /\ jobs' = jobs \ {j} /\ UNCHANGED <<saved, events>> /\ j.wrote # None
        /\ tasks' = {Told(t, j, answer) : t \in tasks}
    BY <1>5, <2>1 DEF JobReads
  <2>3. answer.wrote = j.wrote /\ answer.item = j.item /\ answer.list = saved
    BY DEF ListFromFile
  <2>4. j.wrote \in BOOLEAN
    BY <1>1, <2>2 DEF Job
  <2>5. Listed(j.op, answer)
    BY <2>3, <2>4 DEF Listed, SaveInv, JobListed
  <2>. HIDE DEF answer
  <2>6. \A t \in tasks : /\ Told(t, j, answer).id = t.id /\ Told(t, j, answer).req = t.req
                         /\ Told(t, j, answer).owner = t.owner
    BY IdTypes, ToldKeeps
  <2>7. \A t \in tasks : \/ t.id = j.id /\ t.req = j.op /\ Told(t, j, answer).got = answer
                         \/ t.id # j.id /\ Told(t, j, answer) = t
    <3>1. \A t \in tasks : t.id # j.id => Told(t, j, answer) = t
      BY DEF Told
    <3>2. ASSUME NEW t \in tasks, t.id = j.id
          PROVE  t.req = j.op /\ Told(t, j, answer).got = answer
      <4>1. t \in Task /\ Told(t, j, answer) = [t EXCEPT !.got = answer]
        BY <3>2, IdTypes DEF Told
      <4>2. [t EXCEPT !.got = answer].got = answer
        BY <4>1 DEF Task, ConnectionTask, NodeTask, PreviewTask, DefinitionTask, QueryTask,
                    TemplatesTask, HistoryTask, TaskOf
      <4>. QED  BY <3>2, <4>1, <4>2 DEF SaveInv, JobListed
    <3>. QED  BY <3>1, <3>2
  <2>8. \A i \in jobs' : JobListed(i)'
    BY <2>2, <2>6 DEF SaveInv, JobListed
  <2>9. \A t \in Mine(o)' : Listed(t.req, t.got)
    BY <2>2, <2>5, <2>6, <2>7 DEF Mine, SaveInv
  <2>. QED  BY <2>2, <2>8, <2>9 DEF SaveInv, Messages, Places
<1>. QED  BY <1>2, <1>3, <1>4, <1>5 DEF Blocking

LEMMA NextSaves ==
    ASSUME TypeInv, SaveInv, [Next]_vars
    PROVE  SaveInv'
<1>. SUFFICES ASSUME "Delete" \notin LibraryOps
              PROVE  SaveInv'
  BY DEF SaveInv
<1>1. CASE Outside \/ UNCHANGED vars
  <2>1. UNCHANGED <<tasks, events, jobs>>
    BY <1>1 DEF Outside, ActorDies, Alter, SchemaChanges, kernelVars, libraryVars, vars
  <2>2. saved' = saved
    BY <1>1, SavedKept
  <2>. QED  BY <2>1, <2>2 DEF SaveInv, JobListed, Mine, Messages, Places
<1>. QED  BY <1>1, DispatchedSaves, HandledSaves, WorksSaves, BlockingSaves DEF Next

LEMMA NothingSaves == NothingYet => SaveInv
BY DEF NothingYet, SaveInv, Mine, Messages, Places

LEMMA SavesAreListed == TypeInv /\ SaveInv => SaveIsListed
<1>. SUFFICES ASSUME TypeInv, SaveInv, "Delete" \notin LibraryOps, NEW i \in DOMAIN events,
                     events[i].owner = TemplatesOwner, events[i].req = "Save",
                     events[i].result.wrote
              PROVE  events[i].result.item \in events[i].result.list
  BY DEF SaveIsListed
<1>1. i \in Places(TemplatesOwner) /\ events[i] \in Event
  BY IdTypes DEF Places
<1>2. events[i] \in TemplatesEvent
  BY <1>1, EventKinds DEF TemplatesOwner
<1>3. events[i].result # None
  BY <1>2, AbsentAssumption DEF TemplatesEvent, EventOf, AbsentAssumption
<1>. QED  BY <1>1, <1>3 DEF SaveInv, Messages, Listed

\* Where nothing is ever deleted, the list that comes back with a save holds what was
\* saved (with_library): the write and the read of one operation are one trip.
THEOREM SavedIsListed == Spec => []SaveIsListed
<1>1. Init => SaveInv
  BY NothingSaves DEF Init
<1>2. TypeInv /\ SaveInv /\ [Next]_vars => SaveInv'
  BY NextSaves
<1>3. TypeInv /\ SaveInv => SaveIsListed
  BY SavesAreListed
<1>. QED  BY <1>1, <1>2, <1>3, TypesAreInvariant, PTL DEF Spec

-----------------------------------------------------------------------------
(* The search.                                                              *)

\* A step shows an answer nobody had yet only under the words it is for.
ShowsItsOwn == search'.found \in {None, search.found} \/ search'.found = search'.terms

LEMMA NextSearches ==
    ASSUME TypeInv, [Next]_vars
    PROVE  ShowsItsOwn
<1>0. search \in Search
  BY DEF TypeInv, TypeOK, LibraryTypes
<1>. DEFINE Same == UNCHANGED search
<1>1. Dispatched => ShowsItsOwn
  <2>1. \A c \in ConnIds : Connect(c) \/ Disconnect(c) => Same
    BY DEF Connect, Disconnect, libraryVars
  <2>2. \A c \in ConnIds, any \in BOOLEAN : OpenConnectionRow(c, any) => Same
    BY DEF OpenConnectionRow, libraryVars
  <2>3. \A c \in ConnIds, n \in Nodes, any \in BOOLEAN : OpenNode(c, n, any) => Same
    BY DEF OpenNode, libraryVars
  <2>4. \A c \in ConnIds, u \in Browsed :
          PreviewTable(c, u) \/ LoadMore(c, u) \/ ForgetPreview(c, u) => Same
    BY DEF PreviewTable, LoadMore, ForgetPreview, libraryVars
  <2>5. \A c \in ConnIds, u \in Browsed, column \in Nat : SortPreview(c, u, column) => Same
    BY DEF SortPreview, libraryVars
  <2>6. \A c \in ConnIds, u \in Inspected, refresh \in BOOLEAN :
          DescribeTable(c, u, refresh) \/ ForgetDefinition(c, u) => Same
    BY DEF DescribeTable, ForgetDefinition, libraryVars
  <2>7. \A c \in ConnIds, q \in QueryIds, sql \in Statements :
          RunQuery(c, q, sql) \/ EstimateQuery(c, q, sql) => Same
    BY DEF RunQuery, EstimateQuery, libraryVars
  <2>8. \A q \in QueryIds : ApproveQuery(q) \/ ForgetQuery(q) => Same
    BY DEF ApproveQuery, ForgetQuery, libraryVars
  <2>9. \A op \in LibraryOps : \A item \in Items(op) : WithLibrary(op, item) => Same
    BY DEF WithLibrary
  <2>10. \A terms \in Terms : SearchHistory(terms) => ShowsItsOwn
    <3>. SUFFICES ASSUME NEW terms \in Terms, SearchHistory(terms)
                  PROVE  ShowsItsOwn
      OBVIOUS
    <3>. DEFINE wanted == [search EXCEPT !.terms = terms,
                                        !.data = IF @ = "Ready" THEN @ ELSE "Loading"]
                missing == [terms |-> terms, data |-> "Failed", found |-> None]
    <3>1. wanted.found = search.found /\ missing.found = None
      BY <1>0 DEF Search
    <3>2. search' = wanted \/ search' = missing
      BY DEF SearchHistory
    <3>. HIDE DEF wanted, missing
    <3>. QED  BY <3>1, <3>2 DEF ShowsItsOwn
  <2>11. \A b \in busy : Cancel(b) => Same \/ AbandonHistory
    BY DEF Cancel, AbandonConnection, AbandonNode, AbandonPreview, AbandonDefinition,
           AbandonQuery, AbandonTemplates, libraryVars
  <2>12. AbandonHistory => ShowsItsOwn
    BY <1>0 DEF AbandonHistory, ShowsItsOwn, Search
  <2>13. Same => ShowsItsOwn
    BY DEF ShowsItsOwn
  <2>. HIDE DEF Same
  <2>. QED
    BY <2>1, <2>2, <2>3, <2>4, <2>5, <2>6, <2>7, <2>8, <2>9, <2>10, <2>11, <2>12, <2>13,
       Zenon DEF Dispatched
<1>2. Handled => Same \/ Searched
  BY DEF Handled, Connected, Expanded, Previewed, Described, Ran, Recorded,
         LibraryAnswered, libraryVars
<1>3. Searched => ShowsItsOwn
  BY <1>0 DEF Searched, AnswersTheSearch, ShowsItsOwn, Search
<1>4. \A t \in tasks : Works(t) => Same
  BY DEF Works, ConnectAnswers, ExpandAnswers, PreviewAnswers, DescribeAnswers,
         DescribeSends, ServerExecutes, QueryStops, QuerySends, LibrarySends,
         SearchAnswers, libraryVars
<1>5. Blocking \/ Outside \/ UNCHANGED vars => Same
  BY DEF Blocking, RowInserted, RowSettled, JobWrites, JobReads, Outside, ActorDies, Alter,
         SchemaChanges, libraryVars, vars
<1>6. Same => ShowsItsOwn
  BY DEF ShowsItsOwn
<1>. HIDE DEF Same
<1>. QED  BY <1>1, <1>2, <1>3, <1>4, <1>5, <1>6 DEF Next

\* An answer is only ever shown under the words it answers, however many searches
\* were started, dropped, cancelled or answered late around it (search_history,
\* searched).
THEOREM NewestSearchIsShown == Spec => NewestSearchWins
<1>1. TypeInv /\ [Next]_vars =>
        [search'.found \notin {None, search.found} => search'.found = search'.terms]_search
  BY NextSearches DEF ShowsItsOwn
<1>. QED  BY <1>1, TypesAreInvariant, PTL DEF Spec, NewestSearchWins
-----------------------------------------------------------------------------
(***************************************************************************)
(* The history rows.  The row of one run is made, announced, kept, settled and *)
(* then done with, in that order, and is in at most one of these stages at a   *)
(* time -- whatever becomes of the query it is for.                            *)
(***************************************************************************)

\* The stages of the row of a run: the calls about it on the blocking pool, the
\* events that announce it, the store keeping it, and the rows of the table.
Writes(q, r) == {w \in writing : w.query = q /\ w.run = r}
Notices(q, r) == {i \in 1 .. Len(events) : events[i].owner = RunOwner(q) /\ events[i].req = r}
Keeps(q, r) == runs[q] = [state |-> "Row", run |-> r]
Marks(q, r) == {h \in history : h.query = q /\ h.run = r}
Done(q, r) == \E h \in Marks(q, r) : h.outcome # None

\* At most one of them at a time, and one thing in it.
OneStage(q, r) ==
    /\ \A v, w \in Writes(q, r) : v = w
    /\ \A i, j \in Notices(q, r) : i = j
    /\ Notices(q, r) = {} \/ Writes(q, r) = {}
    /\ Keeps(q, r) => Writes(q, r) = {} /\ Notices(q, r) = {}
    /\ Done(q, r) => Writes(q, r) = {} /\ Notices(q, r) = {} /\ ~Keeps(q, r)
    /\ \A w \in Writes(q, r) : w.call = "started" => Marks(q, r) = {}

\* A run that has not started has no row at all.
Untold(q, r) ==
    Writes(q, r) = {} /\ Notices(q, r) = {} /\ ~Keeps(q, r) /\ Marks(q, r) = {}

RowSafe(q) ==
    /\ \A r \in Runs : OneStage(q, r)
    /\ queries[q].data = "absent" => runs[q] = None /\ Untold(q, "Run")
    /\ q \notin approved => Untold(q, "Approved")

RowInv == \A q \in QueryIds : RowSafe(q)

\* The query's run is on its way: a task of it, or its event.
Going(q) == \E k \in Tokens : k.owner = QueryOwner(q) /\ k.req = "Run"

Starting(q) == runs[q] # None /\ ~HasRow(q)

\* The store remembers the row until the run has ended, and one that is not settled
\* is announced, kept or about to be settled.
RunRow(q) ==
    /\ \A w \in Writes(q, "Run") : IF w.call = "started" THEN Starting(q) ELSE w.outcome # None
    /\ Notices(q, "Run") # {} => Starting(q)
    /\ \A i \in Notices(q, "Run") : events[i].result.tag # "Ok" => Marks(q, "Run") = {}
    /\ \A h \in Marks(q, "Run") :
          \/ h.outcome # None
          \/ Notices(q, "Run") # {}
          \/ Keeps(q, "Run")
          \/ \E w \in Writes(q, "Run") : w.call # "started"

\* Its row is kept, or will be once it is announced.
Remembered(q) == HasRow(q) \/ (Starting(q) /\ runs[q].held = None)

\* So it is for a query nobody has said yes to, whose row then is of its first run.
RunSafe(q) == Known(q) /\ q \notin approved => RunRow(q) /\ (Remembered(q) => Going(q))

RunInv == \A q \in QueryIds : RunSafe(q)

-----------------------------------------------------------------------------
(* The announcements.                                                       *)

\* As many as there were, saying what they said.
SameNotices(q, r) ==
    /\ Notices(q, r)' = {} <=> Notices(q, r) = {}
    /\ (\A i, j \in Notices(q, r) : i = j) => (\A i, j \in Notices(q, r)' : i = j)
    /\ \A i \in Notices(q, r)' : \E j \in Notices(q, r) : events'[i] = events[j]

LEMMA NoticesUnchanged ==
    ASSUME events' = events, NEW q, NEW r
    PROVE  SameNotices(q, r)
BY DEF SameNotices, Notices

\* One more, the newest.
Announces(q, r, m) ==
    /\ Notices(q, r)' = Notices(q, r) \cup {Len(events) + 1}
    /\ events'[Len(events) + 1] = m
    /\ \A i \in Notices(q, r) : events'[i] = events[i]

LEMMA NoticesAppended ==
    ASSUME events \in Seq(Event), NEW m, events' = Append(events, m), NEW q, NEW r
    PROVE  /\ ~(m.owner = RunOwner(q) /\ m.req = r) => SameNotices(q, r)
           /\ m.owner = RunOwner(q) /\ m.req = r => Announces(q, r, m)
<1>1. Len(events) \in Nat /\ Len(events') = Len(events) + 1
  OBVIOUS
<1>2. \A i \in 1 .. Len(events) : events'[i] = events[i]
  OBVIOUS
<1>3. events'[Len(events) + 1] = m
  OBVIOUS
<1>4. 1 .. Len(events') = 1 .. Len(events) \cup {Len(events) + 1}
  BY <1>1
<1>5. \A i \in Notices(q, r) : events'[i] = events[i]
  BY <1>2 DEF Notices
<1>6. ~(m.owner = RunOwner(q) /\ m.req = r) => Notices(q, r)' = Notices(q, r)
  BY <1>2, <1>3, <1>4 DEF Notices
<1>7. m.owner = RunOwner(q) /\ m.req = r => Notices(q, r)' = Notices(q, r) \cup {Len(events) + 1}
  BY <1>2, <1>3, <1>4 DEF Notices
<1>. QED  BY <1>3, <1>5, <1>6, <1>7 DEF SameNotices, Announces

LEMMA NoticesTaken ==
    ASSUME events \in Seq(Event), events # <<>>, events' = Tail(events), NEW q, NEW r
    PROVE  /\ \A i \in Notices(q, r)' : i + 1 \in Notices(q, r) /\ events'[i] = events[i + 1]
           /\ (\A i, j \in Notices(q, r) : i = j) => (\A i, j \in Notices(q, r)' : i = j)
           /\ Head(events).owner = RunOwner(q) /\ Head(events).req = r =>
                 /\ 1 \in Notices(q, r) /\ events[1] = Head(events)
                 /\ (\A i, j \in Notices(q, r) : i = j) => Notices(q, r)' = {}
           /\ ~(Head(events).owner = RunOwner(q) /\ Head(events).req = r) => SameNotices(q, r)
<1>1. Len(events) \in Nat /\ Len(events) >= 1 /\ Len(events') = Len(events) - 1
  OBVIOUS
<1>2. \A i \in 1 .. Len(events') : i + 1 \in 1 .. Len(events) /\ events'[i] = events[i + 1]
  BY <1>1
<1>3. Head(events) = events[1]
  OBVIOUS
<1>4. \A i \in Notices(q, r)' : i + 1 \in Notices(q, r) /\ events'[i] = events[i + 1]
  BY <1>2 DEF Notices
<1>5. \A i \in Notices(q, r)' : i \in Nat /\ i >= 1
  BY <1>1 DEF Notices
<1>6. (\A i, j \in Notices(q, r) : i = j) => (\A i, j \in Notices(q, r)' : i = j)
  <2>. SUFFICES ASSUME \A i, j \in Notices(q, r) : i = j,
                       NEW i \in Notices(q, r)', NEW j \in Notices(q, r)'
                PROVE  i = j
    OBVIOUS
  <2>1. i + 1 = j + 1 /\ i \in Nat /\ j \in Nat
    BY <1>4, <1>5
  <2>. QED  BY <2>1
<1>7. CASE Head(events).owner = RunOwner(q) /\ Head(events).req = r
  <2>1. 1 \in Notices(q, r)
    BY <1>1, <1>3, <1>7 DEF Notices
  <2>2. ASSUME \A i, j \in Notices(q, r) : i = j, NEW i \in Notices(q, r)'
        PROVE  FALSE
    <3>1. i + 1 = 1 /\ i \in Nat /\ i >= 1
      BY <1>4, <1>5, <2>1, <2>2
    <3>. QED  BY <3>1
  <2>. QED  BY <1>3, <1>4, <1>6, <1>7, <2>1, <2>2
<1>8. CASE ~(Head(events).owner = RunOwner(q) /\ Head(events).req = r)
  <2>1. \A i \in Notices(q, r) : i \in 1 .. Len(events) /\ i # 1
    BY <1>3, <1>8 DEF Notices
  <2>2. ASSUME NEW i \in Notices(q, r)
        PROVE  Notices(q, r)' # {}
    <3>1. i - 1 \in 1 .. Len(events') /\ (i - 1) + 1 = i
      BY <1>1, <2>1
    <3>2. events'[i - 1] = events[i]
      BY <1>2, <3>1
    <3>3. i - 1 \in Notices(q, r)'
      BY <3>1, <3>2 DEF Notices
    <3>. QED  BY <3>3
  <2>. QED  BY <1>4, <1>6, <1>8, <2>2 DEF SameNotices
<1>. QED  BY <1>7, <1>8

\* Only the call that makes a row announces one, and only `recorded` takes that up.
LEMMA RestNotices ==
    ASSUME TypeInv, [Next]_vars, ~Recorded, ~ \E w \in writing : RowInserted(w), NEW q, NEW r
    PROVE  SameNotices(q, r)
<1>1. events \in Seq(Event) /\ tasks \in SUBSET Task
  BY IdTypes
<1>2. CASE Dispatched
  <2>1. events' = events
    BY <1>2, DispatchedBooks DEF Opening, kernelVars, Begin, DropTasks
  <2>. QED  BY <2>1, NoticesUnchanged
<1>3. CASE Handled
  <2>1. \/ Receive("Connection") \/ Receive("Node") \/ Receive("Preview")
        \/ Receive("Definition") \/ Receive("Query") \/ Receive("Templates")
        \/ Receive("History")
    BY <1>3 DEF Handled, Connected, Expanded, Previewed, Described, Ran,
                LibraryAnswered, Searched
  <2>2. events # <<>> /\ events' = Tail(events) /\ Head(events).owner # RunOwner(q)
    BY <2>1 DEF Receive, RunOwner
  <2>. QED  BY <1>1, <2>2, NoticesTaken
<1>4. ASSUME NEW t \in tasks, Works(t)
      PROVE  SameNotices(q, r)
  <2>1. (\E result : Send(t, result)) \/ events' = events
    BY <1>4 DEF Works, ConnectAnswers, ExpandAnswers, PreviewAnswers, DescribeAnswers,
                DescribeSends, ServerExecutes, QueryStops, QuerySends, LibrarySends,
                SearchAnswers, Answer
  <2>2. t.owner # RunOwner(q)
    BY <1>1 DEF Task, ConnectionTask, NodeTask, PreviewTask, DefinitionTask, QueryTask,
                TemplatesTask, HistoryTask, TaskOf, ConnectionOwners, NodeOwners,
                PreviewOwners, DefinitionOwners, QueryOwners, TemplatesOwner, HistoryOwner,
                RunOwner
  <2>3. ASSUME NEW result, Send(t, result)
        PROVE  SameNotices(q, r)
    <3>. DEFINE m == [id |-> t.id, owner |-> t.owner, req |-> t.req, result |-> result]
    <3>1. m.owner = t.owner /\ events' = Append(events, m)
      BY <2>3 DEF Send
    <3>. HIDE DEF m
    <3>. QED  BY <1>1, <2>2, <3>1, NoticesAppended
  <2>. QED  BY <2>1, <2>3, NoticesUnchanged
<1>5. CASE Blocking \/ Outside \/ UNCHANGED vars
  <2>1. events' = events
    BY <1>5 DEF Blocking, RowSettled, JobWrites, JobReads, Outside, ActorDies, Alter,
                SchemaChanges, kernelVars, vars
  <2>. QED  BY <2>1, NoticesUnchanged
<1>. QED  BY <1>2, <1>3, <1>4, <1>5 DEF Next

-----------------------------------------------------------------------------
(* What a step does to the row of one run.                                   *)

RowStays(q, r) ==
    Writes(q, r)' = Writes(q, r) /\ Marks(q, r)' = Marks(q, r) /\ SameNotices(q, r)

\* record_end hands over the row the store keeps.
Hands(q, r, outcome) ==
    /\ Marks(q, r)' = Marks(q, r) /\ SameNotices(q, r) /\ ~Keeps(q, r)'
    /\ Keeps(q, r) => Writes(q, r)' = Writes(q, r) \cup {Settling(q, r, outcome)}
    /\ ~Keeps(q, r) => Writes(q, r)' = Writes(q, r)

LEMMA StageStays ==
    ASSUME NEW q, NEW r, OneStage(q, r), RowStays(q, r), Keeps(q, r)' => Keeps(q, r)
    PROVE  OneStage(q, r)' /\ (Untold(q, r) => Untold(q, r)')
<1>1. Done(q, r)' <=> Done(q, r)
  BY DEF Done, RowStays
<1>. QED  BY <1>1 DEF OneStage, RowStays, SameNotices, Untold

LEMMA StageHanded ==
    ASSUME NEW q, NEW r, NEW outcome, OneStage(q, r), Hands(q, r, outcome)
    PROVE  OneStage(q, r)' /\ (Untold(q, r) => Untold(q, r)')
<1>1. Done(q, r)' <=> Done(q, r)
  BY DEF Done, Hands
<1>2. CASE Keeps(q, r)
  <2>1. Writes(q, r)' = {Settling(q, r, outcome)} /\ Notices(q, r)' = {} /\ ~Done(q, r)'
    BY <1>1, <1>2 DEF OneStage, Hands, SameNotices
  <2>2. Settling(q, r, outcome).call # "started"
    BY DEF Settling
  <2>. QED  BY <1>2, <2>1, <2>2 DEF OneStage, Hands, Untold
<1>3. CASE ~Keeps(q, r)
  BY <1>1, <1>3 DEF OneStage, Hands, SameNotices, Untold
<1>. QED  BY <1>2, <1>3

\* record_start makes the first thing there is of a run.
LEMMA StageStarts ==
    ASSUME NEW q, NEW r, Untold(q, r), NEW w, Writes(q, r)' = Writes(q, r) \cup {w},
           Marks(q, r)' = Marks(q, r), SameNotices(q, r), ~Keeps(q, r)'
    PROVE  OneStage(q, r)'
<1>1. Writes(q, r)' = {w} /\ Notices(q, r)' = {} /\ Marks(q, r)' = {}
  BY DEF Untold, SameNotices
<1>2. ~Done(q, r)'
  BY <1>1 DEF Done
<1>. QED  BY <1>1, <1>2 DEF OneStage

\* recorded takes up an announcement: the row is kept, handed over, or let go.
LEMMA StageTaken ==
    ASSUME NEW q, NEW r, NEW outcome, OneStage(q, r), Notices(q, r) # {}, Notices(q, r)' = {},
           Marks(q, r)' = Marks(q, r),
           \/ Writes(q, r)' = Writes(q, r)
           \/ Writes(q, r)' = Writes(q, r) \cup {Settling(q, r, outcome)} /\ ~Keeps(q, r)'
    PROVE  OneStage(q, r)'
<1>1. Writes(q, r) = {} /\ ~Done(q, r) /\ (Done(q, r)' <=> Done(q, r))
  BY DEF OneStage, Done
<1>2. Settling(q, r, outcome).call # "started"
  BY DEF Settling
<1>. QED  BY <1>1, <1>2 DEF OneStage

\* The row is made, or refused, and announced.
LEMMA StageInserted ==
    ASSUME NEW q, NEW r, OneStage(q, r), NEW w \in Writes(q, r), NEW i,
           Writes(q, r)' = Writes(q, r) \ {w}, Notices(q, r)' = Notices(q, r) \cup {i},
           \A h \in Marks(q, r)' : h \in Marks(q, r) \/ h.outcome = None,
           Keeps(q, r)' => Keeps(q, r)
    PROVE  OneStage(q, r)'
<1>1. Writes(q, r) = {w} /\ Notices(q, r) = {} /\ ~Keeps(q, r) /\ ~Done(q, r)
  BY DEF OneStage
<1>2. ~Done(q, r)'
  BY <1>1 DEF Done
<1>. QED  BY <1>1, <1>2 DEF OneStage

\* The row is settled, or the library refuses it and it stays as it is.
LEMMA StageSettled ==
    ASSUME NEW q, NEW r, OneStage(q, r), NEW w \in Writes(q, r), SameNotices(q, r),
           Keeps(q, r)' => Keeps(q, r), NEW v,
           \/ Writes(q, r)' = Writes(q, r) \ {w}
           \/ /\ Writes(q, r)' = (Writes(q, r) \ {w}) \cup {v}
              /\ v.call # "started"
              /\ Marks(q, r)' = Marks(q, r)
    PROVE  OneStage(q, r)'
<1>1. Writes(q, r) = {w} /\ Notices(q, r)' = {} /\ ~Keeps(q, r)' /\ ~Done(q, r)
  BY DEF OneStage, SameNotices
<1>2. CASE Writes(q, r)' = Writes(q, r) \ {w}
  BY <1>1, <1>2 DEF OneStage
<1>3. CASE Writes(q, r)' = (Writes(q, r) \ {w}) \cup {v} /\ v.call # "started"
             /\ Marks(q, r)' = Marks(q, r)
  <2>1. ~Done(q, r)'
    BY <1>1, <1>3 DEF Done
  <2>2. Writes(q, r)' = {v}
    BY <1>1, <1>3
  <2>. QED  BY <1>1, <1>3, <2>1, <2>2 DEF OneStage
<1>. QED  BY <1>2, <1>3

-----------------------------------------------------------------------------
(* What a step does to the rows of one query.                                *)

Stays(q) == runs'[q] = runs[q] /\ RowStays(q, "Run") /\ RowStays(q, "Approved")

RunEnds(q, outcome) ==
    /\ runs'[q] = AfterEnd(q, outcome)
    /\ Hands(q, "Run", outcome) /\ Hands(q, "Approved", outcome)

LEMMA Unrecorded ==
    ASSUME NEW q, runs'[q] = runs[q], writing' = writing, history' = history,
           SameNotices(q, "Run"), SameNotices(q, "Approved")
    PROVE  Stays(q)
BY DEF Stays, RowStays, Writes, Marks

LEMMA KeepsHasRow ==
    ASSUME TypeInv, NEW q \in QueryIds, NEW r \in Runs
    PROVE  Keeps(q, r) <=> HasRow(q) /\ runs[q].run = r
<1>1. runs[q] \in Recording \cup {None} /\ None \notin Recording
  BY AbsentAssumption DEF AbsentAssumption, TypeInv, TypeOK, QueryTypes
<1>. QED  BY <1>1 DEF Keeps, HasRow, Recording, Runs

LEMMA RecordEndHands ==
    ASSUME TypeInv, NEW qs \in SUBSET QueryIds, NEW outcome \in Outcomes,
           RecordEnd(qs, outcome), history' = history,
           NEW q \in QueryIds, NEW r \in Runs, SameNotices(q, r)
    PROVE  /\ q \in qs => Hands(q, r, outcome)
           /\ q \notin qs => RowStays(q, r)
<1>1. Marks(q, r)' = Marks(q, r)
  BY DEF Marks
<1>2. \A w \in writing' : \/ w \in writing
                          \/ \E p \in qs : /\ HasRow(p)
                                           /\ w = Settling(p, runs[p].run, outcome)
  BY DEF RecordEnd
<1>3. \A p, s : Settling(p, s, outcome).query = p /\ Settling(p, s, outcome).run = s
  BY DEF Settling
<1>4. writing \subseteq writing'
  BY DEF RecordEnd
<1>5. \A w \in Writes(q, r)' : \/ w \in Writes(q, r)
                               \/ q \in qs /\ Keeps(q, r) /\ w = Settling(q, r, outcome)
  BY <1>2, <1>3, KeepsHasRow DEF Writes
<1>6. Writes(q, r) \subseteq Writes(q, r)'
  BY <1>4 DEF Writes
<1>7. q \notin qs => Writes(q, r)' = Writes(q, r)
  BY <1>5, <1>6
<1>8. ASSUME q \in qs
      PROVE  Hands(q, r, outcome)
  <2>1. Keeps(q, r) => Settling(q, r, outcome) \in Writes(q, r)'
    <3>1. Keeps(q, r) => Settling(q, r, outcome) \in writing'
      BY <1>8, KeepsHasRow DEF RecordEnd
    <3>. QED  BY <1>3, <3>1 DEF Writes
  <2>2. runs'[q] = AfterEnd(q, outcome)
    BY <1>8 DEF RecordEnd
  <2>3. ~Keeps(q, r)'
    <3>1. runs'[q] # [state |-> "Row", run |-> r]
      <4>1. [state |-> "Row", run |-> r] \in Recording
        BY DEF Recording
      <4>2. [state |-> "Row", run |-> r] # None
        BY <4>1, AbsentAssumption DEF AbsentAssumption
      <4>3. [state |-> "Row", run |-> r] # [state |-> "Starting", held |-> outcome]
        OBVIOUS
      <4>. QED  BY <2>2, <4>2, <4>3 DEF AfterEnd
    <3>. QED  BY <3>1 DEF Keeps
  <2>4. ~Keeps(q, r) => Writes(q, r)' = Writes(q, r)
    BY <1>5, <1>6
  <2>5. Keeps(q, r) => Writes(q, r)' = Writes(q, r) \cup {Settling(q, r, outcome)}
    BY <1>5, <1>6, <2>1
  <2>. QED  BY <1>1, <2>3, <2>4, <2>5 DEF Hands
<1>. QED  BY <1>1, <1>7, <1>8 DEF RowStays

LEMMA RecordEndRows ==
    ASSUME TypeInv, NEW qs \in SUBSET QueryIds, NEW outcome \in Outcomes,
           RecordEnd(qs, outcome), history' = history,
           NEW q \in QueryIds, SameNotices(q, "Run"), SameNotices(q, "Approved")
    PROVE  IF q \in qs THEN RunEnds(q, outcome) ELSE Stays(q)
<1>1. runs'[q] = IF q \in qs THEN AfterEnd(q, outcome) ELSE runs[q]
  BY DEF RecordEnd
<1>2. "Run" \in Runs /\ "Approved" \in Runs
  BY DEF Runs
<1>. QED  BY <1>1, <1>2, RecordEndHands DEF RunEnds, Stays

LEMMA DisconnectRows ==
    ASSUME TypeInv, NEW c \in ConnIds, Disconnect(c), NEW q \in QueryIds,
           SameNotices(q, "Run"), SameNotices(q, "Approved")
    PROVE  IF q \in QueriesCut(c) THEN RunEnds(q, "Failed") ELSE Stays(q)
<1>1. RecordEnd(QueriesCut(c), "Failed") /\ history' = history
  BY DEF Disconnect, recordVars
<1>2. QueriesCut(c) \in SUBSET QueryIds /\ "Failed" \in Outcomes
  BY DEF QueriesCut, Outcomes
<1>. QED  BY <1>1, <1>2, RecordEndRows

LEMMA CancelRows ==
    ASSUME TypeInv, NEW b \in busy, Cancel(b), NEW q \in QueryIds,
           SameNotices(q, "Run"), SameNotices(q, "Approved")
    PROVE  IF b.owner = QueryOwner(q) THEN RunEnds(q, "Cancelled") ELSE Stays(q)
<1>1. b.owner \in Owner
  BY DEF TypeInv, TypeOK, KernelTypes
<1>2. CASE b.owner.kind = "Query"
  <2>. DEFINE p == b.owner.item
  <2>1. p \in QueryIds /\ (b.owner = QueryOwner(q) <=> p = q)
    BY <1>1, <1>2 DEF Owner, QueryOwner
  <2>2. RecordEnd({p}, "Cancelled") /\ history' = history
    BY <1>2 DEF Cancel, AbandonQuery, recordVars
  <2>3. {p} \in SUBSET QueryIds /\ "Cancelled" \in Outcomes
    BY <2>1 DEF Outcomes
  <2>. HIDE DEF p
  <2>. QED  BY <2>1, <2>2, <2>3, RecordEndRows
<1>3. CASE b.owner.kind # "Query"
  <2>1. UNCHANGED <<runs, writing, history>>
    BY <1>3 DEF Cancel, AbandonConnection, AbandonNode, AbandonPreview, AbandonDefinition,
                AbandonTemplates, AbandonHistory, queryVars, recordVars
  <2>. QED  BY <1>3, <2>1, Unrecorded DEF QueryOwner
<1>. QED  BY <1>2, <1>3

\* ran tells the record of an end, unless nothing runs or the query has gone.
LEMMA RanRows ==
    ASSUME TypeInv, Ran, NEW q \in QueryIds,
           SameNotices(q, "Run"), SameNotices(q, "Approved")
    PROVE  \/ /\ Stays(q)
              /\ \/ Head(events).owner # QueryOwner(q)
                 \/ ~Known(q)
                 \/ Head(events).req = "Estimate"
           \/ \E outcome \in Outcomes : RunEnds(q, outcome)
<1>. DEFINE p == Head(events).owner.item  outcome == OutcomeOf(Head(events).result.tag)
<1>1. p \in QueryIds /\ (Head(events).owner = QueryOwner(q) <=> p = q)
  BY ReceiveTyped, EventKinds
  DEF TypeInv, TypeOK, Ran, QueryEvent, EventOf, QueryOwners, QueryOwner
<1>2. outcome \in Outcomes
  BY DEF OutcomeOf, Outcomes
<1>3. \/ UNCHANGED <<runs, writing>> /\ (~Known(p) \/ Head(events).req = "Estimate")
      \/ RecordEnd({p}, outcome)
  BY DEF Ran, queryVars
<1>4. history' = history
  BY DEF Ran, recordVars
<1>. HIDE DEF p, outcome
<1>5. {p} \in SUBSET QueryIds
  BY <1>1
<1>6. RecordEnd({p}, outcome) => IF q \in {p} THEN RunEnds(q, outcome) ELSE Stays(q)
  BY <1>2, <1>4, <1>5, RecordEndRows
<1>7. UNCHANGED <<runs, writing>> => Stays(q)
  BY <1>4, Unrecorded
<1>. QED  BY <1>1, <1>2, <1>3, <1>6, <1>7

\* Starting a run records it, for the query it is of.
RowStarts(q, run, other) ==
    \E w : /\ runs'[q] = [state |-> "Starting", held |-> None]
           /\ w.call = "started"
           /\ Writes(q, run)' = Writes(q, run) \cup {w}
           /\ Writes(q, other)' = Writes(q, other)

LEMMA RecordStartRows ==
    ASSUME TypeInv, NEW p \in QueryIds, NEW run \in Runs, RecordStart(p, run),
           NEW other \in Runs \ {run}, history' = history, NEW q \in QueryIds,
           SameNotices(q, "Run"), SameNotices(q, "Approved")
    PROVE  /\ p # q \/ ~Library => Stays(q)
           /\ p = q /\ Library => RowStarts(q, run, other)
<1>1. ~Library => Stays(q)
  BY Unrecorded DEF RecordStart
<1>2. ASSUME Library
      PROVE  /\ p # q => Stays(q)
             /\ p = q => RowStarts(q, run, other)
  <2>. DEFINE w == [call |-> "started", query |-> p, run |-> run, outcome |-> None]
  <2>1. w.query = p /\ w.run = run /\ w.call = "started"
    OBVIOUS
  <2>2. /\ runs' = [runs EXCEPT ![p] = [state |-> "Starting", held |-> None]]
        /\ writing' = writing \cup {w}
    BY <1>2 DEF RecordStart
  <2>3. runs \in [QueryIds -> Recording \cup {None}]
    BY DEF TypeInv, TypeOK, QueryTypes
  <2>. HIDE DEF w
  <2>4. ASSUME p # q
        PROVE  Stays(q)
    <3>1. runs'[q] = runs[q]
      BY <2>2, <2>3, <2>4
    <3>2. ASSUME NEW r
          PROVE  Writes(q, r)' = Writes(q, r) /\ Marks(q, r)' = Marks(q, r)
      BY <2>1, <2>2, <2>4 DEF Writes, Marks
    <3>. QED  BY <3>1, <3>2 DEF Stays, RowStays
  <2>5. ASSUME p = q
        PROVE  RowStarts(q, run, other)
    <3>1. runs'[q] = [state |-> "Starting", held |-> None]
      BY <2>2, <2>3, <2>5
    <3>2. Writes(q, run)' = Writes(q, run) \cup {w}
      BY <2>1, <2>2, <2>5 DEF Writes
    <3>3. Writes(q, other)' = Writes(q, other)
      BY <2>1, <2>2 DEF Writes
    <3>. QED  BY <2>1, <3>1, <3>2, <3>3 DEF RowStarts
  <2>. QED  BY <2>1, <2>4, <2>5
<1>. QED  BY <1>1, <1>2

LEMMA AsksRows ==
    ASSUME TypeInv, NEW p \in QueryIds, Asks(p), NEW q \in QueryIds, p # q,
           SameNotices(q, "Run"), SameNotices(q, "Approved")
    PROVE  Stays(q)
<1>1. history' = history
  BY DEF Asks, RunQuery, EstimateQuery, ApproveQuery, recordVars
<1>2. \/ RecordStart(p, "Run")
      \/ RecordStart(p, "Approved")
      \/ UNCHANGED <<runs, writing>>
  BY DEF Asks, RunQuery, EstimateQuery, ApproveQuery
<1>3. "Run" \in Runs /\ "Approved" \in Runs
  BY DEF Runs
<1>. QED  BY <1>1, <1>2, <1>3, RecordStartRows, Unrecorded

\* A row is made, or refused, and announced.
RowComes(q, r, w) ==
    /\ w \in Writes(q, r) /\ w.call = "started"
    /\ Writes(q, r)' = Writes(q, r) \ {w}
    /\ Notices(q, r)' = Notices(q, r) \cup {Len(events) + 1}
    /\ \A h \in Marks(q, r)' : h \in Marks(q, r) \/ h.outcome = None
    /\ \A i \in Notices(q, r) : events'[i] = events[i]
    /\ events'[Len(events) + 1].result.tag # "Ok" => history' = history

\* A call answers about its own query, and so does the event it sends.
LEMMA RowInsertedRows ==
    ASSUME TypeInv, NEW w \in writing, RowInserted(w), NEW q \in QueryIds, NEW r
    PROVE  /\ runs' = runs
           /\ ~(w.query = q /\ w.run = r) => RowStays(q, r)
           /\ w.query = q /\ w.run = r => RowComes(q, r, w)
<1>1. events \in Seq(Event)
  BY IdTypes
<1>2. PICK tag \in {"Ok", "Err"} :
        /\ history' = IF tag = "Err" THEN history
                      ELSE history \cup {[query |-> w.query, run |-> w.run, outcome |-> None]}
        /\ events' = Append(events, [id |-> None, owner |-> RunOwner(w.query),
                                     req |-> w.run, result |-> [tag |-> tag]])
  BY Zenon DEF RowInserted
<1>3. w.call = "started" /\ writing' = writing \ {w} /\ runs' = runs
  BY DEF RowInserted, queryVars
<1>. DEFINE m == [id |-> None, owner |-> RunOwner(w.query), req |-> w.run,
                  result |-> [tag |-> tag]]
            row == [query |-> w.query, run |-> w.run, outcome |-> None]
<1>4. /\ m.owner = RunOwner(w.query) /\ m.req = w.run /\ m.result.tag = tag
      /\ row.query = w.query /\ row.run = w.run /\ row.outcome = None
  OBVIOUS
<1>5. /\ events' = Append(events, m)
      /\ history' = IF tag = "Err" THEN history ELSE history \cup {row}
  BY <1>2
<1>. HIDE DEF m, row
<1>6. m.owner = RunOwner(q) /\ m.req = r <=> w.query = q /\ w.run = r
  BY <1>4 DEF RunOwner
<1>7. ASSUME ~(w.query = q /\ w.run = r)
      PROVE  RowStays(q, r)
  <2>1. SameNotices(q, r)
    BY <1>1, <1>5, <1>6, <1>7, NoticesAppended
  <2>2. Writes(q, r)' = Writes(q, r)
    BY <1>3, <1>7 DEF Writes
  <2>3. Marks(q, r)' = Marks(q, r)
    BY <1>4, <1>5, <1>7 DEF Marks
  <2>. QED  BY <2>1, <2>2, <2>3 DEF RowStays
<1>8. ASSUME w.query = q, w.run = r
      PROVE  RowComes(q, r, w)
  <2>1. w \in Writes(q, r) /\ Writes(q, r)' = Writes(q, r) \ {w}
    BY <1>3, <1>8 DEF Writes
  <2>2. /\ Notices(q, r)' = Notices(q, r) \cup {Len(events) + 1}
        /\ events'[Len(events) + 1] = m
        /\ \A i \in Notices(q, r) : events'[i] = events[i]
    <3>1. m.owner = RunOwner(q) /\ m.req = r
      BY <1>4, <1>8
    <3>2. events' = Append(events, m)
      BY <1>5
    <3>3. Announces(q, r, m)
      BY <1>1, <3>1, <3>2, NoticesAppended
    <3>. QED  BY <3>3 DEF Announces
  <2>3. \A h \in Marks(q, r)' : h \in Marks(q, r) \/ h.outcome = None
    <3>1. \A h \in history' : h \in history \/ h = row
      BY <1>5
    <3>. QED  BY <1>4, <3>1 DEF Marks
  <2>4. events'[Len(events) + 1].result.tag # "Ok" => history' = history
    BY <1>2, <1>4, <1>5, <2>2
  <2>. QED  BY <1>3, <2>1, <2>2, <2>3, <2>4 DEF RowComes
<1>. QED  BY <1>3, <1>7, <1>8

\* It is settled, or the library refuses it and it stays as it is.
RowGoes(q, r, w) ==
    /\ w \in Writes(q, r) /\ w.call = "settled"
    /\ \/ /\ Writes(q, r)' = Writes(q, r) \ {w}
          /\ \A h \in Marks(q, r)' : h.outcome = w.outcome
       \/ \E v : /\ Writes(q, r)' = (Writes(q, r) \ {w}) \cup {v}
                 /\ v.call # "started" /\ v.outcome = w.outcome
                 /\ Marks(q, r)' = Marks(q, r)

LEMMA RowSettledRows ==
    ASSUME TypeInv, NEW w \in writing, RowSettled(w), NEW q \in QueryIds, NEW r
    PROVE  /\ runs' = runs /\ SameNotices(q, r)
           /\ ~(w.query = q /\ w.run = r) => RowStays(q, r)
           /\ w.query = q /\ w.run = r => RowGoes(q, r, w)
<1>1. w.call = "settled" /\ runs' = runs /\ events' = events
  BY DEF RowSettled, queryVars, kernelVars
<1>2. w \in Writing /\ history \in SUBSET HistoryRow
  BY DEF TypeInv, TypeOK, QueryTypes
<1>3. SameNotices(q, r)
  BY <1>1, NoticesUnchanged
<1>4. CASE /\ writing' = writing \ {w}
           /\ history' = {IF h.query = w.query /\ h.run = w.run
                          THEN [h EXCEPT !.outcome = w.outcome] ELSE h : h \in history}
  <2>. DEFINE settled(h) == [h EXCEPT !.outcome = w.outcome]
  <2>1. \A h \in history : /\ settled(h).query = h.query /\ settled(h).run = h.run
                           /\ settled(h).outcome = w.outcome
    BY <1>2 DEF HistoryRow
  <2>2. history' = {IF h.query = w.query /\ h.run = w.run THEN settled(h) ELSE h : h \in history}
    BY <1>4
  <2>. HIDE DEF settled
  <2>3. ASSUME ~(w.query = q /\ w.run = r)
        PROVE  RowStays(q, r)
    <3>1. Writes(q, r)' = Writes(q, r)
      BY <1>4, <2>3 DEF Writes
    <3>2. Marks(q, r)' = Marks(q, r)
      BY <2>1, <2>2, <2>3 DEF Marks
    <3>. QED  BY <1>3, <3>1, <3>2 DEF RowStays
  <2>4. ASSUME w.query = q, w.run = r
        PROVE  RowGoes(q, r, w)
    <3>1. w \in Writes(q, r) /\ Writes(q, r)' = Writes(q, r) \ {w}
      BY <1>4, <2>4 DEF Writes
    <3>2. \A h \in Marks(q, r)' : h.outcome = w.outcome
      BY <2>1, <2>2, <2>4 DEF Marks
    <3>. QED  BY <1>1, <3>1, <3>2 DEF RowGoes
  <2>. QED  BY <1>1, <1>3, <2>3, <2>4
<1>5. CASE /\ writing' = (writing \ {w}) \cup {[w EXCEPT !.call = "refused"]}
           /\ history' = history
  <2>. DEFINE v == [w EXCEPT !.call = "refused"]
  <2>1. v.query = w.query /\ v.run = w.run /\ v.call = "refused" /\ v.outcome = w.outcome
    BY <1>2 DEF Writing
  <2>2. writing' = (writing \ {w}) \cup {v}
    BY <1>5
  <2>. HIDE DEF v
  <2>3. Marks(q, r)' = Marks(q, r)
    BY <1>5 DEF Marks
  <2>4. ~(w.query = q /\ w.run = r) => RowStays(q, r)
    BY <1>3, <2>1, <2>2, <2>3 DEF Writes, RowStays
  <2>5. w.query = q /\ w.run = r =>
          w \in Writes(q, r) /\ Writes(q, r)' = (Writes(q, r) \ {w}) \cup {v}
    BY <2>1, <2>2 DEF Writes
  <2>6. v.call # "started" /\ v.outcome = w.outcome
    BY <2>1
  <2>7. w.query = q /\ w.run = r => RowGoes(q, r, w)
    BY <1>1, <2>3, <2>5, <2>6 DEF RowGoes
  <2>. QED  BY <1>1, <1>3, <2>4, <2>7
<1>. QED  BY <1>4, <1>5 DEF RowSettled

\* recorded is about the run its event names, and the store keeps one row a query.
LEMMA RecordedOthers ==
    ASSUME TypeInv, Recorded, NEW q \in QueryIds, NEW r \in Runs,
           Head(events).owner # RunOwner(q) \/ Head(events).req # r
    PROVE  /\ RowStays(q, r) /\ (Keeps(q, r)' => Keeps(q, r))
           /\ Head(events).owner # RunOwner(q) => runs'[q] = runs[q]
<1>. DEFINE p == Head(events).owner.item  run == Head(events).req
<1>1. /\ events \in Seq(Event) /\ events # <<>> /\ events' = Tail(events)
      /\ history' = history
  BY IdTypes DEF Recorded, Receive, recordVars
<1>2. /\ p \in QueryIds /\ (Head(events).owner = RunOwner(q) <=> p = q)
      /\ runs \in [QueryIds -> Recording \cup {None}]
  BY ReceiveTyped, EventKinds
  DEF TypeInv, TypeOK, QueryTypes, Recorded, RunEvent, EventOf, RunOwners, RunOwner
<1>3. \E new \in {None, [state |-> "Row", run |-> run]} : runs' = [runs EXCEPT ![p] = new]
  BY DEF Recorded
<1>4. writing' = writing \/ \E held : writing' = writing \cup {Settling(p, run, held)}
  BY DEF Recorded
<1>5. \A held : Settling(p, run, held).query = p /\ Settling(p, run, held).run = run
  BY DEF Settling
<1>6. SameNotices(q, r)
  BY <1>1, NoticesTaken
<1>. HIDE DEF p
<1>7. p # q => runs'[q] = runs[q]
  BY <1>2, <1>3
<1>8. Keeps(q, r)' => Keeps(q, r)
  <2>1. CASE p # q
    BY <1>7, <2>1 DEF Keeps
  <2>2. CASE p = q
    <3>1. run # r
      BY <1>2, <2>2
    <3>2. runs'[q] = None \/ runs'[q] = [state |-> "Row", run |-> run]
      BY <1>2, <1>3, <2>2
    <3>3. None # [state |-> "Row", run |-> r]
      <4>1. [state |-> "Row", run |-> r] \in Recording
        BY DEF Recording
      <4>. QED  BY <4>1, AbsentAssumption DEF AbsentAssumption
    <3>. HIDE DEF run
    <3>4. runs'[q] # [state |-> "Row", run |-> r]
      BY <3>1, <3>2, <3>3
    <3>. QED  BY <3>4 DEF Keeps
  <2>. QED  BY <2>1, <2>2
<1>. HIDE DEF run
<1>9. Writes(q, r)' = Writes(q, r)
  BY <1>2, <1>4, <1>5 DEF Writes, run
<1>10. Marks(q, r)' = Marks(q, r)
  BY <1>1 DEF Marks
<1>. QED  BY <1>2, <1>6, <1>7, <1>8, <1>9, <1>10 DEF RowStays

LEMMA RecordedRows ==
    ASSUME TypeInv, Recorded, NEW q \in QueryIds, Head(events).owner = RunOwner(q),
           NEW r, r = Head(events).req
    PROVE  /\ r \in Runs
           /\ 1 \in Notices(q, r) /\ events[1] = Head(events)
           /\ (\A i, j \in Notices(q, r) : i = j) => Notices(q, r)' = {}
           /\ Marks(q, r)' = Marks(q, r)
           /\ \/ /\ Head(events).result.tag # "Ok" \/ ~Starting(q)
                 /\ runs'[q] = None /\ Writes(q, r)' = Writes(q, r)
              \/ /\ Head(events).result.tag = "Ok" /\ runs[q].held = None
                 /\ Starting(q)
                 /\ runs'[q] = [state |-> "Row", run |-> r] /\ Writes(q, r)' = Writes(q, r)
              \/ \E held : /\ Head(events).result.tag = "Ok" /\ Starting(q) /\ held # None
                           /\ runs'[q] = None
                           /\ Writes(q, r)' = Writes(q, r) \cup {Settling(q, r, held)}
<1>1. /\ events \in Seq(Event) /\ events # <<>> /\ events' = Tail(events)
      /\ history' = history
  BY IdTypes DEF Recorded, Receive, recordVars
<1>2. /\ r \in Runs /\ Head(events).owner.item = q
      /\ runs \in [QueryIds -> Recording \cup {None}]
  BY ReceiveTyped, EventKinds
  DEF TypeInv, TypeOK, QueryTypes, Recorded, RunEvent, EventOf, RunOwners, RunOwner
<1>3. /\ 1 \in Notices(q, r) /\ events[1] = Head(events)
      /\ (\A i, j \in Notices(q, r) : i = j) => Notices(q, r)' = {}
  BY <1>1, NoticesTaken
<1>4. Marks(q, r)' = Marks(q, r)
  BY <1>1 DEF Marks
<1>5. \/ /\ Head(events).result.tag # "Ok" \/ ~Starting(q)
         /\ runs' = [runs EXCEPT ![q] = None] /\ writing' = writing
      \/ /\ Head(events).result.tag = "Ok" /\ Starting(q) /\ runs[q].held = None
         /\ runs' = [runs EXCEPT ![q] = [state |-> "Row", run |-> r]] /\ writing' = writing
      \/ /\ Head(events).result.tag = "Ok" /\ Starting(q) /\ runs[q].held # None
         /\ runs' = [runs EXCEPT ![q] = None]
         /\ writing' = writing \cup {Settling(q, r, runs[q].held)}
  BY <1>2, Zenon DEF Recorded, Starting
<1>6. \A held : /\ Settling(q, r, held).query = q /\ Settling(q, r, held).run = r
                /\ writing' = writing \cup {Settling(q, r, held)} =>
                      Writes(q, r)' = Writes(q, r) \cup {Settling(q, r, held)}
  <2>1. \A held : Settling(q, r, held).query = q /\ Settling(q, r, held).run = r
    BY DEF Settling
  <2>. QED  BY <2>1 DEF Writes
<1>7. writing' = writing => Writes(q, r)' = Writes(q, r)
  BY DEF Writes
<1>8. \A new : runs' = [runs EXCEPT ![q] = new] => runs'[q] = new
  BY <1>2
<1>. QED  BY <1>2, <1>3, <1>4, <1>5, <1>6, <1>7, <1>8

-----------------------------------------------------------------------------
(* A row is in one stage at a time.                                          *)

\* What each step has to show of a query's rows.
RowStep(q) ==
    /\ OneStage(q, "Run")' /\ OneStage(q, "Approved")'
    /\ Untold(q, "Run") => Untold(q, "Run")'
    /\ Untold(q, "Approved") => Untold(q, "Approved")'
    /\ runs[q] = None => runs'[q] = None

LEMMA StaysStep ==
    ASSUME NEW q \in QueryIds, RowSafe(q), Stays(q)
    PROVE  RowStep(q)
<1>1. \A r : Keeps(q, r)' => Keeps(q, r)
  BY DEF Stays, Keeps
<1>2. OneStage(q, "Run") /\ OneStage(q, "Approved")
  BY DEF RowSafe, Runs
<1>. QED  BY <1>1, <1>2, StageStays DEF RowStep, Stays

LEMMA EndsStep ==
    ASSUME NEW q \in QueryIds, RowSafe(q), NEW outcome, RunEnds(q, outcome)
    PROVE  RowStep(q)
<1>1. OneStage(q, "Run") /\ OneStage(q, "Approved")
  BY DEF RowSafe, Runs
<1>2. runs[q] = None => runs'[q] = None
  BY DEF RunEnds, AfterEnd
<1>. QED  BY <1>1, <1>2, StageHanded DEF RowStep, RunEnds

LEMMA TakenStep ==
    ASSUME TypeInv, NEW q \in QueryIds, RowSafe(q), Recorded
    PROVE  RowStep(q)
<1>1. OneStage(q, "Run") /\ OneStage(q, "Approved") /\ "Run" # "Approved"
      /\ "Run" \in Runs /\ "Approved" \in Runs
  BY DEF RowSafe, Runs
<1>2. ASSUME NEW r \in Runs, OneStage(q, r),
             Head(events).owner # RunOwner(q) \/ Head(events).req # r
      PROVE  OneStage(q, r)' /\ (Untold(q, r) => Untold(q, r)')
  BY <1>2, RecordedOthers, StageStays
<1>3. CASE Head(events).owner # RunOwner(q)
  <2>1. runs'[q] = runs[q]
    BY <1>1, <1>3, RecordedOthers
  <2>. QED  BY <1>1, <1>2, <1>3, <2>1 DEF RowStep
<1>4. ASSUME NEW r \in {"Run", "Approved"}, r = Head(events).req, Head(events).owner = RunOwner(q)
      PROVE  OneStage(q, r)' /\ ~Untold(q, r) /\ (runs[q] = None => runs'[q] = None)
  <2>1. OneStage(q, r)
    BY <1>1
  <2>2. Notices(q, r) # {} /\ Notices(q, r)' = {} /\ Marks(q, r)' = Marks(q, r)
    BY <1>4, <2>1, RecordedRows DEF OneStage
  <2>3. /\ \/ Writes(q, r)' = Writes(q, r)
           \/ \E held : Writes(q, r)' = Writes(q, r) \cup {Settling(q, r, held)} /\ runs'[q] = None
        /\ runs[q] = None => runs'[q] = None
    BY <1>4, RecordedRows DEF Starting
  <2>4. runs'[q] = None => ~Keeps(q, r)'
    <3>1. [state |-> "Row", run |-> r] \in Recording
      BY DEF Recording, Runs
    <3>2. None # [state |-> "Row", run |-> r]
      BY <3>1, AbsentAssumption DEF AbsentAssumption
    <3>. QED  BY <3>2 DEF Keeps
  <2>. QED  BY <2>1, <2>2, <2>3, <2>4, StageTaken DEF Untold
<1>5. CASE Head(events).owner = RunOwner(q)
  <2>1. Head(events).req \in {"Run", "Approved"}
    BY <1>5, RecordedRows DEF Runs
  <2>2. CASE Head(events).req = "Run"
    BY <1>1, <1>2, <1>4, <1>5, <2>2 DEF RowStep
  <2>3. CASE Head(events).req = "Approved"
    BY <1>1, <1>2, <1>4, <1>5, <2>3 DEF RowStep
  <2>. QED  BY <2>1, <2>2, <2>3
<1>. QED  BY <1>3, <1>5

LEMMA CalledStep ==
    ASSUME TypeInv, NEW q \in QueryIds, RowSafe(q), NEW w \in writing,
           RowInserted(w) \/ RowSettled(w)
    PROVE  RowStep(q)
<1>1. OneStage(q, "Run") /\ OneStage(q, "Approved")
  BY DEF RowSafe, Runs
<1>2. runs' = runs
  BY DEF RowInserted, RowSettled, queryVars
<1>3. \A r : Keeps(q, r)' => Keeps(q, r)
  BY <1>2 DEF Keeps
<1>4. ASSUME NEW r, OneStage(q, r), ~(w.query = q /\ w.run = r)
      PROVE  OneStage(q, r)' /\ (Untold(q, r) => Untold(q, r)')
  BY <1>3, <1>4, RowInsertedRows, RowSettledRows, StageStays
<1>5. ASSUME NEW r, OneStage(q, r), w.query = q, w.run = r
      PROVE  OneStage(q, r)' /\ ~Untold(q, r)
  <2>1. w \in Writes(q, r)
    BY <1>5 DEF Writes
  <2>2. ASSUME RowInserted(w)
        PROVE  OneStage(q, r)'
    <3>0. RowComes(q, r, w)
      BY <1>5, <2>2, RowInsertedRows
    <3>1. /\ Writes(q, r)' = Writes(q, r) \ {w}
          /\ Notices(q, r)' = Notices(q, r) \cup {Len(events) + 1}
          /\ \A h \in Marks(q, r)' : h \in Marks(q, r) \/ h.outcome = None
      BY <3>0 DEF RowComes
    <3>. QED  BY <1>3, <1>5, <2>1, <3>1, StageInserted
  <2>3. ASSUME RowSettled(w)
        PROVE  OneStage(q, r)'
    <3>1. SameNotices(q, r)
      BY <2>3, RowSettledRows
    <3>2. PICK v : \/ Writes(q, r)' = Writes(q, r) \ {w}
                   \/ /\ Writes(q, r)' = (Writes(q, r) \ {w}) \cup {v}
                      /\ v.call # "started"
                      /\ Marks(q, r)' = Marks(q, r)
      <4>1. RowGoes(q, r, w)
        BY <1>5, <2>3, RowSettledRows
      <4>. QED  BY <4>1 DEF RowGoes
    <3>3. Keeps(q, r)' => Keeps(q, r)
      BY <1>3
    <3>. QED  BY <1>5, <2>1, <3>1, <3>2, <3>3, StageSettled
  <2>4. ~Untold(q, r)
    BY <2>1 DEF Untold
  <2>. QED  BY <2>2, <2>3, <2>4
<1>6. OneStage(q, "Run")' /\ (Untold(q, "Run") => Untold(q, "Run")')
  BY <1>1, <1>4, <1>5
<1>7. OneStage(q, "Approved")' /\ (Untold(q, "Approved") => Untold(q, "Approved")')
  BY <1>1, <1>4, <1>5
<1>. QED  BY <1>2, <1>6, <1>7 DEF RowStep

\* A query that is run or approved starts a row of a run that had none.
LEMMA AskedRow ==
    ASSUME TypeInv, QueryInv, NEW q \in QueryIds, RowSafe(q), Asks(q),
           SameNotices(q, "Run"), SameNotices(q, "Approved")
    PROVE  RowSafe(q)'
<1>1. "Run" \in Runs /\ "Approved" \in Runs /\ "Run" # "Approved"
      /\ \A r \in Runs : r \in {"Run", "Approved"}
  BY DEF Runs
<1>2. history' = history
  BY DEF Asks, RunQuery, EstimateQuery, ApproveQuery, recordVars
<1>3. queries'[q].data = "Loading"
  BY AskedQuery
<1>4. OneStage(q, "Run") /\ OneStage(q, "Approved")
  BY <1>1 DEF RowSafe
<1>5. Stays(q) => RowStep(q)
  BY StaysStep
<1>6. \A r : Marks(q, r)' = Marks(q, r)
  BY <1>2 DEF Marks
<1>7. [state |-> "Starting", held |-> None] # [state |-> "Row", run |-> "Run"]
      /\ [state |-> "Starting", held |-> None] # [state |-> "Row", run |-> "Approved"]
  OBVIOUS
<1>8. ASSUME NEW run \in {"Run", "Approved"}, NEW other \in {"Run", "Approved"}, run # other,
             RecordStart(q, run), Library, Untold(q, run)
      PROVE  /\ OneStage(q, run)' /\ OneStage(q, other)'
             /\ Untold(q, other) => Untold(q, other)'
  <2>0. RowStarts(q, run, other)
    BY <1>1, <1>2, <1>8, RecordStartRows
  <2>1. PICK w : /\ runs'[q] = [state |-> "Starting", held |-> None]
                 /\ w.call = "started"
                 /\ Writes(q, run)' = Writes(q, run) \cup {w}
                 /\ Writes(q, other)' = Writes(q, other)
    BY <2>0 DEF RowStarts
  <2>2. ~Keeps(q, run)' /\ ~Keeps(q, other)'
    BY <1>7, <2>1 DEF Keeps
  <2>3. OneStage(q, run)'
    BY <1>6, <1>8, <2>1, <2>2, StageStarts
  <2>4. RowStays(q, other)
    BY <1>1, <1>6, <2>1, <1>8 DEF RowStays
  <2>5. OneStage(q, other)
    BY <1>4
  <2>. QED  BY <2>2, <2>3, <2>4, <2>5, StageStays
<1>9. ASSUME NEW c \in ConnIds, NEW sql \in Statements, RunQuery(c, q, sql)
      PROVE  RowSafe(q)'
  <2>1. /\ RecordStart(q, "Run") /\ approved' = approved /\ queries[q].data = "absent"
    BY <1>9 DEF RunQuery
  <2>2. Untold(q, "Run") /\ (q \notin approved => Untold(q, "Approved"))
    BY <2>1 DEF RowSafe
  <2>3. CASE ~Library
    <3>1. RowStep(q)
      BY <1>1, <1>2, <1>5, <2>1, <2>3, RecordStartRows
    <3>. QED  BY <1>1, <1>3, <2>1, <2>2, <3>1 DEF RowSafe, RowStep
  <2>4. CASE Library
    <3>1. /\ OneStage(q, "Run")' /\ OneStage(q, "Approved")'
          /\ Untold(q, "Approved") => Untold(q, "Approved")'
      BY <1>8, <2>1, <2>2, <2>4
    <3>. QED  BY <1>1, <1>3, <2>1, <2>2, <3>1 DEF RowSafe
  <2>. QED  BY <2>3, <2>4
<1>10. ASSUME NEW c \in ConnIds, NEW sql \in Statements, EstimateQuery(c, q, sql)
       PROVE  RowSafe(q)'
  <2>1. UNCHANGED <<runs, writing, approved>>
    BY <1>10 DEF EstimateQuery
  <2>2. RowStep(q)
    BY <1>2, <1>5, <2>1, Unrecorded
  <2>. QED  BY <1>1, <1>3, <2>1, <2>2 DEF RowSafe, RowStep
<1>11. CASE ApproveQuery(q)
  <2>1. /\ RecordStart(q, "Approved") /\ q \in approved' /\ queries[q].needs
    BY <1>11 DEF ApproveQuery
  <2>2. Untold(q, "Approved")
    BY <2>1 DEF QueryInv, QuerySafe, Askable, RowSafe
  <2>3. CASE ~Library
    <3>1. RowStep(q)
      BY <1>1, <1>2, <1>5, <2>1, <2>3, RecordStartRows
    <3>. QED  BY <1>1, <1>3, <2>1, <2>2, <3>1 DEF RowSafe, RowStep
  <2>4. CASE Library
    <3>1. OneStage(q, "Run")' /\ OneStage(q, "Approved")'
      BY <1>8, <2>1, <2>2, <2>4
    <3>. QED  BY <1>1, <1>3, <2>1, <2>2, <3>1 DEF RowSafe
  <2>. QED  BY <2>3, <2>4
<1>. QED  BY <1>9, <1>10, <1>11 DEF Asks

LEMMA NextRows ==
    ASSUME TypeInv, QueryInv, RowInv, [Next]_vars
    PROVE  RowInv'
<1>. SUFFICES ASSUME NEW q \in QueryIds
              PROVE  RowSafe(q)'
  BY DEF RowInv
<1>1. RowSafe(q) /\ QuerySafe(q) /\ TypeOK
  BY DEF RowInv, QueryInv, TypeInv
<1>2. RowStep(q) /\ CarriesOn(q) => RowSafe(q)'
  <2>1. \A r \in Runs : r \in {"Run", "Approved"}
    BY DEF Runs
  <2>. QED  BY <1>1, <2>1 DEF RowStep, CarriesOn, RowSafe
<1>3. CASE Recorded
  <2>1. CarriesOn(q)
    BY <1>3, SameCarriesOn DEF Recorded
  <2>. QED  BY <1>1, <1>2, <1>3, <2>1, TakenStep
<1>4. CASE \E w \in writing : RowInserted(w) \/ RowSettled(w)
  <2>1. CarriesOn(q)
    BY <1>4, SameCarriesOn DEF RowInserted, RowSettled, queryVars
  <2>. QED  BY <1>1, <1>2, <1>4, <2>1, CalledStep
<1>5. ASSUME ~Recorded, ~ \E w \in writing : RowInserted(w) \/ RowSettled(w)
      PROVE  RowSafe(q)'
  <2>1. SameNotices(q, "Run") /\ SameNotices(q, "Approved")
    BY <1>5, RestNotices
  <2>2. CASE UNCHANGED <<queries, runs, approved, history, writing>>
    <3>1. Stays(q)
      BY <2>1, <2>2, Unrecorded
    <3>2. RowStep(q)
      BY <1>1, <3>1, StaysStep
    <3>. QED  BY <1>1, <2>2, <3>2 DEF RowStep, RowSafe, Runs
  <2>3. ASSUME NEW c \in ConnIds, Disconnect(c)
        PROVE  RowSafe(q)'
    <3>1. CarriesOn(q)
      BY <1>1, <2>3, DisconnectCarriesOn
    <3>. QED  BY <1>1, <1>2, <2>1, <2>3, <3>1, DisconnectRows, EndsStep, StaysStep
  <2>4. ASSUME NEW b \in busy, Cancel(b)
        PROVE  RowSafe(q)'
    <3>1. CarriesOn(q)
      BY <1>1, <2>4, CancelCarriesOn
    <3>. QED  BY <1>1, <1>2, <2>1, <2>4, <3>1, CancelRows, EndsStep, StaysStep
  <2>5. ASSUME NEW p \in QueryIds, ForgetQuery(p)
        PROVE  RowSafe(q)'
    <3>1. CarriesOn(q)
      BY <1>1, <2>5, ForgetCarriesOn
    <3>2. UNCHANGED <<runs, writing, history>>
      BY <2>5 DEF ForgetQuery, recordVars
    <3>. QED  BY <1>1, <1>2, <2>1, <3>1, <3>2, Unrecorded, StaysStep
  <2>6. ASSUME NEW p \in QueryIds, Asks(p)
        PROVE  RowSafe(q)'
    <3>1. CASE p = q
      BY <1>1, <2>1, <2>6, <3>1, AskedRow
    <3>2. CASE p # q
      <4>1. CarriesOn(q)
        BY <1>1, <2>6, <3>2, AsksOfOthers
      <4>. QED  BY <1>1, <1>2, <2>1, <2>6, <3>2, <4>1, AsksRows, StaysStep
    <3>. QED  BY <3>1, <3>2
  <2>7. ASSUME Ran
        PROVE  RowSafe(q)'
    <3>1. approved' = approved /\ (queries'[q].data = "absent" => queries[q].data = "absent")
      BY <2>7, RanQuery DEF Ran, queryVars, Known
    <3>2. RowStep(q)
      BY <1>1, <2>1, <2>7, RanRows, EndsStep, StaysStep
    <3>. QED  BY <1>1, <3>1, <3>2 DEF RowStep, RowSafe, Runs
  <2>. QED  BY <1>5, <2>2, <2>3, <2>4, <2>5, <2>6, <2>7, QueryChanges
<1>. QED  BY <1>3, <1>4, <1>5

LEMMA NothingRows == NothingYet => RowInv
<1>. SUFFICES ASSUME NothingYet, NEW q \in QueryIds
              PROVE  RowSafe(q)
  BY DEF RowInv
<1>1. runs[q] = None /\ history = {} /\ writing = {} /\ events = <<>>
  BY DEF NothingYet
<1>2. ASSUME NEW r \in Runs
      PROVE  Untold(q, r) /\ OneStage(q, r)
  <2>1. Writes(q, r) = {} /\ Marks(q, r) = {} /\ Notices(q, r) = {}
    BY <1>1 DEF Writes, Marks, Notices
  <2>2. ~Keeps(q, r)
    <3>1. [state |-> "Row", run |-> r] \in Recording
      BY DEF Recording
    <3>. QED  BY <1>1, <3>1, AbsentAssumption DEF AbsentAssumption, Keeps
  <2>. QED  BY <2>1, <2>2 DEF Untold, OneStage, Done
<1>. QED  BY <1>1, <1>2 DEF RowSafe, Runs

LEMMA RowInvariant == Spec => [](TypeInv /\ QueryInv /\ RowInv)
<1>1. TypeInv /\ QueryInv /\ RowInv /\ [Next]_vars => RowInv'
  BY NextRows
<1>2. Init => RowInv
  BY NothingRows DEF Init
<1>. QED  BY <1>1, <1>2, TypesAreInvariant, QueryInvariant, PTL DEF Spec

\* A row that has its outcome is not touched again.
LEMMA SettledStays ==
    ASSUME TypeInv, RowInv, [Next]_vars, NEW h \in history, h.outcome # None
    PROVE  h \in history'
<1>1. h.query \in QueryIds /\ h.run \in Runs
  BY DEF TypeInv, TypeOK, QueryTypes, HistoryRow
<1>2. ASSUME NEW w \in writing, RowSettled(w)
      PROVE  h \in history'
  <2>1. ~(w.query = h.query /\ w.run = h.run)
    <3>1. Done(h.query, h.run)
      BY DEF Done, Marks
    <3>2. Writes(h.query, h.run) = {}
      BY <1>1, <3>1 DEF RowInv, RowSafe, OneStage
    <3>. QED  BY <3>2 DEF Writes
  <2>. QED  BY <1>2, <2>1 DEF RowSettled
<1>3. ASSUME NEW w \in writing, RowInserted(w)
      PROVE  h \in history'
  BY <1>3 DEF RowInserted
<1>4. ASSUME ~ \E w \in writing : RowSettled(w) \/ RowInserted(w)
      PROVE  history' = history
  <2>1. \A c \in ConnIds : Disconnect(c) => history' = history
    BY DEF Disconnect, recordVars
  <2>2. \A q \in QueryIds : Asks(q) \/ ForgetQuery(q) => history' = history
    BY DEF Asks, RunQuery, EstimateQuery, ApproveQuery, ForgetQuery, recordVars
  <2>3. \A b \in busy : Cancel(b) => history' = history
    BY DEF Cancel, AbandonConnection, AbandonNode, AbandonPreview, AbandonDefinition,
           AbandonQuery, AbandonTemplates, AbandonHistory, recordVars
  <2>4. Ran \/ Recorded => history' = history
    BY DEF Ran, Recorded, recordVars
  <2>. QED  BY <1>4, <2>1, <2>2, <2>3, <2>4, QueryChanges
<1>. QED  BY <1>2, <1>3, <1>4

\* A history row is settled once (record_end, recorded, write_outcome): a cancel and
\* a reply that was already in the channel do not both write it.
THEOREM RowsAreSettledOnce == Spec => SettledOnce
<1>. DEFINE Stay == \A r \in history : r.outcome # None => r \in history'
<1>1. TypeInv /\ RowInv /\ [Next]_vars => [Stay]_history
  <2>. SUFFICES ASSUME TypeInv, RowInv, [Next]_vars, NEW h \in history, h.outcome # None
                PROVE  h \in history'
    OBVIOUS
  <2>. QED  BY SettledStays
<1>. QED  BY <1>1, RowInvariant, PTL DEF Spec, SettledOnce

-----------------------------------------------------------------------------
(* A run is on its way until its end is recorded.                            *)

\* Somebody ends it: its reply, a cancel or a disconnect.
Ended(q) == \E outcome \in Outcomes : RunEnds(q, outcome)

LEMMA EndedIsNotRemembered ==
    ASSUME NEW q \in QueryIds, Ended(q)
    PROVE  ~Remembered(q)'
<1>1. PICK outcome \in Outcomes : runs'[q] = AfterEnd(q, outcome)
  BY DEF Ended, RunEnds
<1>2. outcome # None
  BY <1>1, AbsentAssumption DEF AbsentAssumption
<1>3. runs'[q] = None \/ runs'[q] = [state |-> "Starting", held |-> outcome]
  BY <1>1 DEF AfterEnd
<1>. QED  BY <1>2, <1>3 DEF Remembered, HasRow, Starting

\* A run's only token is of that run.
LEMMA GoingIsRun ==
    ASSUME TypeInv, NEW q \in QueryIds, Lone(QueryOwner(q)), Going(q),
           events # <<>>, Head(events).owner = QueryOwner(q)
    PROVE  Head(events).req = "Run"
<1>. DEFINE o == QueryOwner(q)
<1>1. Len(events) \in Nat /\ events \in Seq(Event)
  BY IdTypes
<1>2. 1 \in 1 .. Len(events) /\ Head(events) = events[1]
  BY <1>1
<1>3. 1 \in Places(o)
  BY <1>2 DEF Places
<1>4. PICK k \in Tokens : k.owner = o /\ k.req = "Run"
  BY DEF Going
<1>5. Mine(o) = {} /\ \A i \in Places(o) : i = 1
  BY <1>3 DEF Lone
<1>6. ASSUME NEW t \in tasks, k = Token(t)
      PROVE  FALSE
  <2>1. t.owner = o
    BY <1>4, <1>6 DEF Token
  <2>. QED  BY <1>5, <2>1 DEF Mine
<1>7. ASSUME NEW i \in 1 .. Len(events), k = Token(events[i])
      PROVE  Head(events).req = "Run"
  <2>1. events[i].owner = o /\ events[i].req = "Run"
    BY <1>4, <1>7 DEF Token
  <2>2. i = 1
    BY <1>5, <2>1 DEF Places
  <2>. QED  BY <1>2, <2>1, <2>2
<1>. QED  BY <1>4, <1>6, <1>7 DEF Tokens

LEMMA GoingStays ==
    ASSUME TypeInv, QueryInv, TokenInv, [Next]_vars, NEW q \in QueryIds, Known(q), Going(q)
    PROVE  Going(q)' \/ Ended(q) \/ ~Known(q)'
<1>. DEFINE o == QueryOwner(q)
<1>0. o.kind = "Query" /\ events \in Seq(Event)
  BY IdTypes DEF QueryOwner
<1>1. Spares(o) => Going(q)'
  BY DEF Spares, Going
<1>2. "Failed" \in Outcomes /\ "Cancelled" \in Outcomes
  BY DEF Outcomes
<1>3. ASSUME NEW c \in ConnIds, Disconnect(c), NEW b \in Orphaned(c), b.owner = o
      PROVE  Ended(q)
  <2>1. q \in QueriesCut(c)
    BY <1>3 DEF QueriesCut, Rows, Orphaned
  <2>2. events' = events
    BY <1>3 DEF Disconnect, DropTasks
  <2>. QED  BY <1>2, <1>3, <2>1, <2>2, NoticesUnchanged, DisconnectRows DEF Ended
<1>4. ASSUME NEW b \in busy, Cancel(b), b.owner = o
      PROVE  Ended(q)
  <2>1. events' = events
    BY <1>4 DEF Cancel, DropTasks
  <2>. QED  BY <1>2, <1>4, <2>1, NoticesUnchanged, CancelRows DEF Ended
<1>5. ASSUME NEW p \in QueryIds, ForgetQuery(p), o = QueryOwner(p)
      PROVE  ~Known(q)'
  <2>1. p = q
    BY <1>5 DEF QueryOwner
  <2>. QED  BY <1>5, <2>1, ForgottenQuery DEF Known
<1>6. ASSUME Handled, Head(events).owner = o
      PROVE  Ended(q)
  <2>1. Ran
    BY <1>0, <1>6 DEF Handled, Connected, Expanded, Previewed, Described, Recorded,
                      LibraryAnswered, Searched, Receive
  <2>2. events # <<>> /\ events' = Tail(events) /\ Head(events).owner.kind = "Query"
    BY <2>1 DEF Ran, Receive
  <2>3. Head(events).owner # RunOwner(q)
    BY <2>2 DEF RunOwner
  <2>4. SameNotices(q, "Run") /\ SameNotices(q, "Approved")
    BY <1>0, <2>2, <2>3, NoticesTaken
  <2>5. Head(events).req = "Run"
    BY <1>6, <2>2, GoingIsRun DEF QueryInv, QuerySafe
  <2>. QED  BY <1>6, <2>1, <2>4, <2>5, RanRows DEF Ended
<1>7. ~ \E c \in ConnIds, t \in Browsed : o = PreviewOwner(c, t)
  BY <1>0 DEF PreviewOwner
<1>8. ~ \E c \in ConnIds, t \in Inspected : o = DefinitionOwner(c, t)
  BY <1>0 DEF DefinitionOwner
<1>9. o # HistoryOwner
  BY <1>0 DEF HistoryOwner
<1>. HIDE DEF o
<1>10. TakenFrom(o) => Ended(q) \/ ~Known(q)'
  BY <1>3, <1>4, <1>5, <1>7, <1>8, <1>9 DEF TakenFrom
<1>. QED  BY <1>1, <1>6, <1>10, SparedOrTaken

\* A query that is known was known, or has just been named.
LEMMA KnownBefore ==
    ASSUME TypeInv, QueryInv, [Next]_vars, NEW q \in QueryIds, Known(q)', ~Asks(q)
    PROVE  Known(q)
<1>1. queries'[q].data \notin {"absent", "forgotten"}
  BY DEF Known
<1>2. \A c \in ConnIds : Disconnect(c) => Known(q)
  <2>1. ASSUME NEW c \in ConnIds, q \in QueriesCut(c)
        PROVE  Known(q)
    <3>1. PICK b \in Orphaned(c) : b.owner = QueryOwner(q)
      BY <2>1 DEF QueriesCut, Rows
    <3>2. b.owner.conn = None /\ b.owner.item = q /\ None # c
      BY <3>1, AbsentAssumption DEF QueryOwner, AbsentAssumption
    <3>. QED  BY <3>1, <3>2 DEF Orphaned
  <2>. QED  BY <1>1, <2>1, DisconnectQuery DEF Known
<1>3. \A b \in busy : Cancel(b) => Known(q)
  BY <1>1, CancelQuery DEF Known
<1>4. \A p \in QueryIds : ForgetQuery(p) => Known(q)
  BY <1>1, ForgottenQuery DEF Known
<1>5. \A p \in QueryIds : Asks(p) => Known(q)
  BY <1>1, AskedQuery DEF Known
<1>6. Ran => Known(q)
  BY <1>1, RanQuery DEF Known
<1>7. UNCHANGED queries => Known(q)
  BY <1>1 DEF Known
<1>. QED  BY <1>2, <1>3, <1>4, <1>5, <1>6, <1>7, QueryChanges, SameQueries

-----------------------------------------------------------------------------
(* What is remembered of a run follows it.                                   *)

LEMMA StaysRun ==
    ASSUME NEW q \in QueryIds, RunRow(q), Stays(q)
    PROVE  RunRow(q)' /\ (Remembered(q)' <=> Remembered(q))
<1>1. /\ Writes(q, "Run")' = Writes(q, "Run") /\ Marks(q, "Run")' = Marks(q, "Run")
      /\ SameNotices(q, "Run") /\ runs'[q] = runs[q]
  BY DEF Stays, RowStays
<1>2. (Starting(q)' <=> Starting(q)) /\ (Remembered(q)' <=> Remembered(q))
      /\ (Keeps(q, "Run")' <=> Keeps(q, "Run"))
  BY <1>1 DEF Starting, Remembered, HasRow, Keeps
<1>3. Notices(q, "Run")' # {} <=> Notices(q, "Run") # {}
  BY <1>1 DEF SameNotices
<1>4. \A i \in Notices(q, "Run")' : events'[i].result.tag # "Ok" => Marks(q, "Run") = {}
  BY <1>1 DEF SameNotices, RunRow
<1>. QED  BY <1>1, <1>2, <1>3, <1>4 DEF RunRow

LEMMA EndsRun ==
    ASSUME TypeInv, NEW q \in QueryIds, RunRow(q), NEW outcome \in Outcomes,
           RunEnds(q, outcome)
    PROVE  RunRow(q)'
<1>. DEFINE last == Settling(q, "Run", outcome)
<1>0. outcome # None /\ [state |-> "Starting", held |-> outcome] # None
  <2>1. [state |-> "Starting", held |-> outcome] \in Recording
    BY DEF Recording
  <2>. QED  BY <2>1, AbsentAssumption DEF AbsentAssumption
<1>1. /\ Marks(q, "Run")' = Marks(q, "Run") /\ SameNotices(q, "Run") /\ ~Keeps(q, "Run")'
      /\ Keeps(q, "Run") => Writes(q, "Run")' = Writes(q, "Run") \cup {last}
      /\ ~Keeps(q, "Run") => Writes(q, "Run")' = Writes(q, "Run")
      /\ runs'[q] = AfterEnd(q, outcome)
  BY DEF RunEnds, Hands
<1>2. last.call # "started" /\ last.outcome = outcome
  BY DEF Settling
<1>. HIDE DEF last
<1>3. Starting(q) => Starting(q)'
  <2>1. Starting(q) => runs'[q] = [state |-> "Starting", held |-> outcome]
    BY <1>1 DEF Starting, AfterEnd
  <2>2. [state |-> "Starting", held |-> outcome].state # "Row"
    OBVIOUS
  <2>. QED  BY <1>0, <2>1, <2>2 DEF Starting, HasRow
<1>4. \A w \in Writes(q, "Run")' :
         IF w.call = "started" THEN Starting(q)' ELSE w.outcome # None
  BY <1>0, <1>1, <1>2, <1>3 DEF RunRow
<1>5. Notices(q, "Run")' # {} <=> Notices(q, "Run") # {}
  BY <1>1 DEF SameNotices
<1>6. \A i \in Notices(q, "Run")' : events'[i].result.tag # "Ok" => Marks(q, "Run") = {}
  BY <1>1 DEF SameNotices, RunRow
<1>7. \A h \in Marks(q, "Run")' :
         \/ h.outcome # None
         \/ Notices(q, "Run")' # {}
         \/ \E w \in Writes(q, "Run")' : w.call # "started"
  BY <1>1, <1>2, <1>5 DEF RunRow
<1>. QED  BY <1>1, <1>3, <1>4, <1>5, <1>6, <1>7 DEF RunRow

\* recorded, for a query nobody has said yes to, is about its first run.
LEMMA TakenRun ==
    ASSUME TypeInv, NEW q \in QueryIds, RowSafe(q), RunRow(q), q \notin approved, Recorded,
           Head(events).owner = RunOwner(q)
    PROVE  RunRow(q)' /\ (Remembered(q)' => Remembered(q))
<1>1. OneStage(q, "Run") /\ Untold(q, "Approved")
  BY DEF RowSafe, Runs
<1>2. Head(events).req = "Run"
  <2>1. Head(events).req \in {"Run", "Approved"}
    BY RecordedRows DEF Runs
  <2>2. Head(events).req = "Approved" => 1 \in Notices(q, "Approved")
    BY RecordedRows
  <2>. QED  BY <1>1, <2>1, <2>2 DEF Untold
<1>3. /\ 1 \in Notices(q, "Run") /\ events[1] = Head(events)
      /\ Notices(q, "Run")' = {} /\ Marks(q, "Run")' = Marks(q, "Run")
  BY <1>1, <1>2, RecordedRows DEF OneStage
<1>4. Writes(q, "Run") = {} /\ Starting(q)
  BY <1>1, <1>3 DEF OneStage, RunRow
<1>5. CASE Head(events).result.tag # "Ok"
  <2>1. runs'[q] = None /\ Writes(q, "Run")' = {}
    BY <1>2, <1>4, <1>5, RecordedRows
  <2>2. Marks(q, "Run")' = {}
    BY <1>3, <1>5 DEF RunRow
  <2>. QED  BY <1>3, <2>1, <2>2 DEF RunRow, Remembered, HasRow, Starting
<1>6. CASE /\ runs[q].held = None
           /\ runs'[q] = [state |-> "Row", run |-> "Run"]
           /\ Writes(q, "Run")' = Writes(q, "Run")
  <2>1. Keeps(q, "Run")' /\ Writes(q, "Run")' = {}
    BY <1>4, <1>6 DEF Keeps
  <2>. QED  BY <1>3, <1>4, <1>6, <2>1 DEF RunRow, Remembered
<1>7. ASSUME NEW held, held # None, runs'[q] = None,
             Writes(q, "Run")' = Writes(q, "Run") \cup {Settling(q, "Run", held)}
      PROVE  RunRow(q)' /\ (Remembered(q)' => Remembered(q))
  <2>. DEFINE last == Settling(q, "Run", held)
  <2>1. last.call # "started" /\ last.outcome = held
    BY DEF Settling
  <2>2. Writes(q, "Run")' = {last}
    BY <1>4, <1>7
  <2>. HIDE DEF last
  <2>. QED  BY <1>3, <1>7, <2>1, <2>2 DEF RunRow, Remembered, HasRow, Starting
<1>. QED  BY <1>2, <1>4, <1>5, <1>6, <1>7, RecordedRows

\* So is a call that answers.
LEMMA CalledRun ==
    ASSUME TypeInv, NEW q \in QueryIds, RowSafe(q), RunRow(q), q \notin approved,
           NEW w \in writing, w.query = q, RowInserted(w) \/ RowSettled(w)
    PROVE  RunRow(q)' /\ (Remembered(q)' <=> Remembered(q))
<1>1. OneStage(q, "Run") /\ Untold(q, "Approved")
  BY DEF RowSafe, Runs
<1>2. w.run = "Run"
  <2>1. w.run \in {"Run", "Approved"}
    BY DEF TypeInv, TypeOK, QueryTypes, Writing, Runs
  <2>2. w.run = "Approved" => w \in Writes(q, "Approved")
    BY DEF Writes
  <2>. QED  BY <1>1, <2>1, <2>2 DEF Untold
<1>3. w \in Writes(q, "Run") /\ Writes(q, "Run") = {w} /\ Notices(q, "Run") = {}
  <2>1. w \in Writes(q, "Run")
    BY <1>2 DEF Writes
  <2>. QED  BY <1>1, <2>1 DEF OneStage
<1>4. runs' = runs
  BY DEF RowInserted, RowSettled, queryVars
<1>5. /\ Remembered(q)' <=> Remembered(q)
      /\ Starting(q)' <=> Starting(q)
  BY <1>4 DEF Remembered, HasRow, Starting
<1>6. ASSUME RowInserted(w)
      PROVE  RunRow(q)'
  <2>1. RowComes(q, "Run", w)
    BY <1>2, <1>6, RowInsertedRows
  <2>2. /\ Writes(q, "Run")' = {} /\ Notices(q, "Run")' = {Len(events) + 1}
        /\ events'[Len(events) + 1].result.tag # "Ok" => history' = history
        /\ w.call = "started"
    BY <1>3, <2>1 DEF RowComes
  <2>3. Starting(q)' /\ Marks(q, "Run") = {}
    BY <1>1, <1>3, <1>5, <2>2 DEF RunRow, OneStage
  <2>4. history' = history => Marks(q, "Run")' = {}
    BY <2>3 DEF Marks
  <2>. QED  BY <2>2, <2>3, <2>4 DEF RunRow
<1>7. ASSUME RowSettled(w)
      PROVE  RunRow(q)'
  <2>1. RowGoes(q, "Run", w) /\ SameNotices(q, "Run")
    BY <1>2, <1>7, RowSettledRows
  <2>2. Notices(q, "Run")' = {} /\ w.outcome # None
    BY <1>3, <2>1 DEF SameNotices, RowGoes, RunRow
  <2>3. CASE /\ Writes(q, "Run")' = Writes(q, "Run") \ {w}
             /\ \A h \in Marks(q, "Run")' : h.outcome = w.outcome
    BY <1>3, <2>2, <2>3 DEF RunRow
  <2>4. ASSUME NEW v, Writes(q, "Run")' = (Writes(q, "Run") \ {w}) \cup {v},
               v.call # "started", v.outcome = w.outcome
        PROVE  RunRow(q)'
    BY <1>3, <2>2, <2>4 DEF RunRow
  <2>. QED  BY <2>1, <2>3, <2>4 DEF RowGoes
<1>. QED  BY <1>5, <1>6, <1>7

\* A query that is named is run, and has a token of that run, or is only estimated,
\* and has no row.
LEMMA AskedRun ==
    ASSUME TypeInv, QueryInv, NEW q \in QueryIds, RowSafe(q), Asks(q), q \notin approved',
           SameNotices(q, "Run"), SameNotices(q, "Approved")
    PROVE  RunRow(q)' /\ (Remembered(q)' => Going(q)')
<1>1. "Run" \in Runs /\ "Approved" \in Runs \ {"Run"}
  BY DEF Runs
<1>2. history' = history
  BY DEF Asks, RunQuery, EstimateQuery, ApproveQuery, recordVars
<1>3. PICK c \in ConnIds, sql \in Statements : RunQuery(c, q, sql) \/ EstimateQuery(c, q, sql)
  BY DEF Asks, ApproveQuery
<1>4. queries[q].data = "absent"
  BY <1>3 DEF RunQuery, EstimateQuery
<1>5. Untold(q, "Run") /\ runs[q] = None
  BY <1>4 DEF RowSafe
<1>6. /\ Marks(q, "Run")' = {} /\ Notices(q, "Run")' = {} /\ Writes(q, "Run") = {}
      /\ OneStage(q, "Run")
  BY <1>1, <1>2, <1>5 DEF Untold, Marks, SameNotices, RowSafe
<1>7. CASE Stays(q)
  <2>1. Writes(q, "Run")' = {} /\ runs'[q] = None
    BY <1>5, <1>6, <1>7 DEF Stays, RowStays
  <2>. QED  BY <1>6, <2>1 DEF RunRow, Remembered, HasRow, Starting
<1>8. CASE EstimateQuery(c, q, sql)
  BY <1>2, <1>7, <1>8, Unrecorded DEF EstimateQuery
<1>9. CASE RunQuery(c, q, sql) /\ ~Library
  BY <1>1, <1>2, <1>7, <1>9, RecordStartRows DEF RunQuery
<1>10. CASE RunQuery(c, q, sql) /\ Library
  <2>1. RowStarts(q, "Run", "Approved")
    BY <1>1, <1>2, <1>10, RecordStartRows DEF RunQuery
  <2>2. PICK w : /\ runs'[q] = [state |-> "Starting", held |-> None]
                 /\ w.call = "started"
                 /\ Writes(q, "Run")' = Writes(q, "Run") \cup {w}
    BY <2>1 DEF RowStarts
  <2>3. Starting(q)'
    <3>1. [state |-> "Starting", held |-> None] \in Recording
      BY DEF Recording
    <3>2. [state |-> "Starting", held |-> None] # None
      BY <3>1, AbsentAssumption DEF AbsentAssumption
    <3>3. [state |-> "Starting", held |-> None].state # "Row"
      OBVIOUS
    <3>. QED  BY <2>2, <3>2, <3>3 DEF Starting, HasRow
  <2>4. Going(q)'
    <3>. DEFINE k == [owner |-> QueryOwner(q), id |-> nextId, req |-> "Run"]
    <3>1. Begin({}, QueryOwner(q), "Run")
      BY <1>10 DEF RunQuery
    <3>2. k \in Tokens' /\ k.owner = QueryOwner(q) /\ k.req = "Run"
      BY <3>1, BeginGives
    <3>. HIDE DEF k
    <3>. QED  BY <3>2 DEF Going
  <2>. QED  BY <1>6, <2>2, <2>3, <2>4 DEF RunRow
<1>. QED  BY <1>3, <1>8, <1>9, <1>10

LEMMA RunStep ==
    ASSUME TypeInv, QueryInv, TokenInv, RowInv, RunInv, [Next]_vars,
           NEW q \in QueryIds, Known(q), q \notin approved, ~Asks(q)
    PROVE  RunRow(q)' /\ (Remembered(q)' => Remembered(q) \/ Ended(q))
<1>1. RowSafe(q) /\ RunRow(q) /\ "Run" \in Runs /\ "Approved" \in Runs
  BY DEF RowInv, RunInv, RunSafe, Runs
<1>2. Stays(q) => RunRow(q)' /\ (Remembered(q)' => Remembered(q))
  BY <1>1, StaysRun
<1>3. Ended(q) => RunRow(q)'
  BY <1>1, EndsRun DEF Ended
<1>4. CASE Recorded
  <2>1. CASE Head(events).owner = RunOwner(q)
    BY <1>1, <1>4, <2>1, TakenRun
  <2>2. CASE Head(events).owner # RunOwner(q)
    <3>1. Stays(q)
      BY <1>1, <1>4, <2>2, RecordedOthers DEF Stays
    <3>. QED  BY <1>2, <3>1
  <2>. QED  BY <2>1, <2>2
<1>5. ASSUME NEW w \in writing, RowInserted(w) \/ RowSettled(w)
      PROVE  RunRow(q)' /\ (Remembered(q)' => Remembered(q))
  <2>1. CASE w.query = q
    BY <1>1, <1>5, <2>1, CalledRun
  <2>2. CASE w.query # q
    <3>1. Stays(q)
      BY <1>5, <2>2, RowInsertedRows, RowSettledRows DEF Stays
    <3>. QED  BY <1>2, <3>1
  <2>. QED  BY <2>1, <2>2
<1>6. ASSUME ~Recorded, ~ \E w \in writing : RowInserted(w) \/ RowSettled(w)
      PROVE  Stays(q) \/ Ended(q)
  <2>1. SameNotices(q, "Run") /\ SameNotices(q, "Approved")
    BY <1>6, RestNotices
  <2>2. UNCHANGED <<queries, runs, approved, history, writing>> => Stays(q)
    BY <2>1, Unrecorded
  <2>3. ASSUME NEW c \in ConnIds, Disconnect(c)
        PROVE  Stays(q) \/ Ended(q)
    BY <2>1, <2>3, DisconnectRows DEF Ended, Outcomes
  <2>4. ASSUME NEW b \in busy, Cancel(b)
        PROVE  Stays(q) \/ Ended(q)
    BY <2>1, <2>4, CancelRows DEF Ended, Outcomes
  <2>5. ASSUME NEW p \in QueryIds, ForgetQuery(p)
        PROVE  Stays(q)
    <3>1. UNCHANGED <<runs, writing, history>>
      BY <2>5 DEF ForgetQuery, recordVars
    <3>. QED  BY <2>1, <3>1, Unrecorded
  <2>6. ASSUME NEW p \in QueryIds, Asks(p)
        PROVE  Stays(q)
    <3>1. p # q
      BY <2>6
    <3>. QED  BY <2>1, <2>6, <3>1, AsksRows
  <2>7. Ran => Stays(q) \/ Ended(q)
    BY <2>1, RanRows DEF Ended
  <2>. QED  BY <1>6, <2>2, <2>3, <2>4, <2>5, <2>6, <2>7, QueryChanges
<1>. QED  BY <1>2, <1>3, <1>4, <1>5, <1>6

\* A query that has no yes had none before.
LEMMA NoYesYet ==
    ASSUME TypeInv, QueryInv, [Next]_vars, NEW q \in QueryIds, q \notin approved'
    PROVE  q \notin approved
<1>1. CarriesOn(q) => q \notin approved
  BY DEF CarriesOn
<1>2. \A c \in ConnIds : Disconnect(c) => q \notin approved
  BY DEF Disconnect
<1>3. \A b \in busy : Cancel(b) => q \notin approved
  BY <1>1, CancelCarriesOn DEF TypeInv
<1>4. \A p \in QueryIds : ForgetQuery(p) => q \notin approved
  BY <1>1, ForgetCarriesOn DEF TypeInv
<1>5. \A p \in QueryIds : Asks(p) => q \notin approved
  BY DEF Asks, RunQuery, EstimateQuery, ApproveQuery
<1>6. Ran \/ Recorded => q \notin approved
  BY DEF Ran, Recorded, queryVars
<1>7. \A w \in writing : RowInserted(w) \/ RowSettled(w) => q \notin approved
  BY DEF RowInserted, RowSettled, queryVars
<1>. QED  BY <1>2, <1>3, <1>4, <1>5, <1>6, <1>7, QueryChanges

LEMMA NextRuns ==
    ASSUME TypeInv, QueryInv, TokenInv, RowInv, RunInv, [Next]_vars
    PROVE  RunInv'
<1>. SUFFICES ASSUME NEW q \in QueryIds, Known(q)', q \notin approved'
              PROVE  RunRow(q)' /\ (Remembered(q)' => Going(q)')
  BY DEF RunInv, RunSafe
<1>1. CASE Asks(q)
  <2>1. events' = events
    BY <1>1 DEF Asks, RunQuery, EstimateQuery, ApproveQuery, Begin
  <2>2. RowSafe(q)
    BY DEF RowInv
  <2>. QED  BY <1>1, <2>1, <2>2, NoticesUnchanged, AskedRun
<1>2. CASE ~Asks(q)
  <2>1. Known(q) /\ q \notin approved
    BY <1>2, KnownBefore, NoYesYet
  <2>2. RunRow(q)' /\ (Remembered(q)' => Remembered(q) \/ Ended(q))
    BY <1>2, <2>1, RunStep
  <2>3. Ended(q) => ~Remembered(q)'
    BY EndedIsNotRemembered
  <2>4. Remembered(q) => Going(q)
    BY <2>1 DEF RunInv, RunSafe
  <2>5. Going(q) => Going(q)' \/ Ended(q)
    BY <2>1, GoingStays
  <2>. QED  BY <2>2, <2>3, <2>4, <2>5
<1>. QED  BY <1>1, <1>2

LEMMA NothingRuns == NothingYet => RunInv
BY DEF NothingYet, NoQuery, Known, RunInv, RunSafe

LEMMA RunInvariant == Spec => [](TypeInv /\ SpinInv /\ RowInv /\ RunInv)
<1>1. TypeInv /\ QueryInv /\ SpinInv /\ RowInv /\ RunInv /\ [Next]_vars => RunInv'
  BY NextRuns DEF SpinInv
<1>2. Init => RunInv
  BY NothingRuns DEF Init
<1>. QED  BY <1>1, <1>2, RowInvariant, SpinInvariant, PTL DEF Spec

LEMMA RunsAreOver ==
    ASSUME TypeInv, SpinInv, RowInv, RunInv
    PROVE  RunsComeToAnEnd
<1>1. \A q \in QueryIds : queries[q].data = "Loading" => OnItsWay(QueryOwner(q))
  BY ComingIsOnItsWay DEF SpinInv, QuerySpins
<1>2. ASSUME NEW h \in history, Known(h.query), h.query \notin approved, Quiet(h.query),
             h.outcome = None
      PROVE  \E w \in writing : w.call = "refused" /\ w.query = h.query
  <2>. DEFINE q == h.query
  <2>1. q \in QueryIds /\ h.run \in {"Run", "Approved"}
    BY DEF TypeInv, TypeOK, QueryTypes, HistoryRow, Runs
  <2>2. h.run # "Approved"
    <3>1. Untold(q, "Approved")
      BY <1>2, <2>1 DEF RowInv, RowSafe
    <3>. QED  BY <3>1 DEF Untold, Marks
  <2>3. h \in Marks(q, "Run")
    BY <2>1, <2>2 DEF Marks
  <2>4. RunRow(q) /\ (Remembered(q) => Going(q))
    BY <1>2, <2>1 DEF RunInv, RunSafe
  <2>5. Notices(q, "Run") = {}
    <3>1. DOMAIN events = 1 .. Len(events)
      BY IdTypes
    <3>. QED  BY <1>2, <3>1 DEF Quiet, Notices
  <2>6. ~Going(q)
    <3>1. ~Coming(QueryOwner(q))
      BY <1>2, ComingIsOnItsWay DEF Quiet
    <3>. QED  BY <3>1 DEF Going, Coming
  <2>7. ~Keeps(q, "Run")
    BY <2>1, <2>4, <2>6, KeepsHasRow DEF Remembered, Runs
  <2>8. PICK w \in Writes(q, "Run") : w.call # "started"
    BY <1>2, <2>3, <2>4, <2>5, <2>7 DEF RunRow
  <2>9. w \in writing /\ w.query = q
    BY <2>8 DEF Writes
  <2>. QED  BY <1>2, <2>9 DEF Quiet
<1>. QED  BY <1>1, <1>2 DEF RunsComeToAnEnd

\* A run that spins has its reply coming, and a query that is over leaves no history
\* row that looks like it is still going (record_start, recorded, record_end, ran,
\* abandon_query): whichever of the row and the end came first, and whichever of the
\* reply, a cancel and a disconnect ended it.
THEOREM NoRowIsLeftRunning == Spec => []RunsComeToAnEnd
<1>1. TypeInv /\ SpinInv /\ RowInv /\ RunInv => RunsComeToAnEnd
  BY RunsAreOver
<1>. QED  BY <1>1, RunInvariant, PTL

=============================================================================
