------------------------------ MODULE Service -------------------------------
(***************************************************************************)
(* The API service over a shared session (crates/sqlake-api/src/serve.rs)    *)
(* and the waits it is built from (crates/sqlake-app/src/wait.rs), composed  *)
(* with the store: callers whose requests become actions in the store's      *)
(* queue, a person who dispatches into the same queue, and the loop that     *)
(* takes one action or one event at a time and publishes what it left.       *)
(*                                                                         *)
(* Every iteration of the loop ends in a publication, so the newest snapshot *)
(* is the store's state; a waiting caller looks at the newest one whenever it *)
(* is polled, and never sees those in between.                               *)
(***************************************************************************)
EXTENDS StoreLoop

CONSTANTS
    Clients,     \* callers, each waiting for one answer at a time
    Scenes       \* what may go on together: the requests in play, the gestures of
                 \* a person in the same session, bounds on both, whether
                 \* anybody's time may run out, and whether the person has
                 \* opened every namespace before

\* protocol.rs, Request: what a caller may ask for, once it is read.  A path names
\* a node of the catalogue, and one that is no namespace names a relation.
PossibleAsks ==
    [op : {"open", "close", "namespaces", "run", "estimate", "status", "wait",
           "cancel", "templates"}, item : {None}, flag : BOOLEAN]
      \cup [op : {"children"}, item : Nodes, flag : BOOLEAN]
      \cup [op : {"preview"}, item : Nodes \ (Leaves \ Browsed), flag : BOOLEAN]
      \cup [op : {"describe"}, item : Nodes \ (Leaves \ Inspected), flag : BOOLEAN]
      \cup [op : {"history"}, item : Terms, flag : BOOLEAN]
      \cup [op : {"apply"}, item : Saved, flag : BOOLEAN]

\* What a person does on the screen.
PossibleGestures ==
    {"Toggle", "Preview", "Sort", "LoadMore", "ForgetPreview", "Describe",
     "Disconnect", "Cancel", "Approve", "Forget", "Search", "Quit"} \cup LibraryOps

ASSUME ServiceAssumption ==
    \A s \in Scenes :
       /\ s.maxAsks \in Nat /\ s.maxGestures \in Nat
       /\ s.asks \subseteq PossibleAsks
       /\ s.gestures \subseteq PossibleGestures
       /\ \A r \in s.asks : r.op \in {"templates", "apply"} => "Load" \in LibraryOps

VARIABLES
    call,      \* what each caller asked for and how far that has got
    scene,     \* which of the scenes this behaviour is
    asks,      \* requests so far
    gestures   \* gestures so far

countVars == <<scene, asks, gestures>>
serviceVars == <<vars, queueVars, call, countVars>>

NoAnswer == [tag |-> "None", value |-> None]
Failed(tag) == [tag |-> tag, value |-> None]

\* A caller between requests.  `floor` and `seen` are history: the schema's
\* version when the request was made, and whether the relation it previews has
\* failed since it asked.
NoCall == [op |-> "none", flag |-> FALSE, conn |-> None, item |-> None,
           query |-> None, step |-> "idle", level |-> 0, ordinal |-> 0,
           floor |-> 0, seen |-> FALSE, answer |-> NoAnswer]

-----------------------------------------------------------------------------
(* What a snapshot says.                                                    *)

\* Slip: a wait that reads the state left behind, not the work in flight.
SettledWhenIdle(owner) ==
    /\ Rows(owner) = {}
    /\ owner.kind = "Preview" => previews[owner.conn][owner.item].data = "Ready"

\* The *_settled predicates: nothing is in flight for this owner.
Settled(owner) == Rows(owner) = {}

\* Slip: whatever was applied, if the thing looks settled it is.
AppliedOrNot(ordinal) == TRUE

HasApplied(ordinal) == applied >= ordinal

\* A query id nobody has used.
FreshQuery(q) ==
    /\ queries[q].data = "absent"
    /\ \A k \in Clients : call[k].op \in {"run", "estimate"} => call[k].query # q

-----------------------------------------------------------------------------
(* Callers.                                                                 *)

Answered(k, got, answer) ==
    /\ call' = [call EXCEPT ![k] = [got EXCEPT !.step = "idle", !.answer = answer,
                                               !.ordinal = 0, !.level = 0]]
    /\ UNCHANGED inbox

\* dispatch, and the wait that follows it: `got` is the call so far.
Dispatch(k, got, step, action) ==
    /\ inbox' = Append(inbox, action)
    /\ call' = [call EXCEPT ![k] = [got EXCEPT !.step = step,
                                               !.ordinal = applied + Len(inbox) + 1,
                                               !.seen = FALSE]]

\* preview, describe and children, once their path is resolved.
OnTable(k, got) ==
    IF (got.op = "children") = (got.item \in Leaves)
    THEN Answered(k, got, Failed("Unsupported"))
    ELSE Dispatch(k, [got EXCEPT !.floor = IF got.op = "describe" THEN schema[got.item] ELSE 0],
                  "acting",
                  Action(CASE got.op = "preview" -> "Preview"
                           [] got.op = "describe" -> "Describe"
                           [] got.op = "children" -> "Expand",
                         got.conn, got.item, got.op = "describe" /\ got.flag))

\* resolve: expand each ancestor in turn, from `level` on, then look the node
\* up.
Resolve(k, got, level) ==
    LET path == Path[got.item]
    IN IF path[level] \notin Objects(tree[got.conn])
       THEN Answered(k, got, Failed("NotFound"))
       ELSE IF level = Len(path)
       THEN OnTable(k, got)
       ELSE Dispatch(k, [got EXCEPT !.level = level], "expanding",
                     Action("Expand", got.conn, path[level], None))

\* What is done on a connection that can answer.
OnConnection(k, got) ==
    \/ /\ got.op = "namespaces"
       /\ Answered(k, got, [tag |-> "Nodes",
                       value |-> {n \in Objects(tree[got.conn]) : Len(Path[n]) = 1}])
    \/ /\ got.op \in {"run", "estimate"}
       /\ \E sql \in Statements :
             Dispatch(k, got, "acting",
                      Action(IF got.op = "run" THEN "Run" ELSE "Estimate",
                             got.conn, got.query, sql))
    \/ /\ got.op \in {"preview", "describe", "children"}
       /\ Resolve(k, got, 1)
    \/ /\ got.op = "apply"
       /\ Answered(k, got, [tag |-> "Statement", value |-> got.item])

\* connection: wait for it to finish opening, and only then use it.
Reaches(k) ==
    LET got == call[k]
    IN /\ got.step = "opening"
       /\ Settled(ConnectionOwner(got.conn))
       /\ IF conns[got.conn].status \in {"Failed", "Closed"}
          THEN Answered(k, got, Failed("Driver"))
          ELSE OnConnection(k, got)

\* resolve, once an ancestor's children have been fetched or refused.
Descends(k) ==
    LET got == call[k]
        ancestor == Path[got.item][got.level]
    IN /\ got.step = "expanding"
       /\ HasApplied(got.ordinal)
       /\ Settled(NodeOwner(got.conn, ancestor))
       /\ IF ancestor \in Objects(tree[got.conn]) /\ tree[got.conn].status[ancestor] = "Failed"
          THEN Answered(k, got, Failed("Driver"))
          ELSE Resolve(k, got, got.level + 1)

Wanted == [column |-> 0, dir |-> "Asc"]

SortOf(got) == previews[got.conn][got.item].sort

\* What a preview's rows, or the lack of them, are answered as.
PageAnswer(got) ==
    LET p == previews[got.conn][got.item]
    IN CASE p.data = "Ready" -> [tag |-> "Page", value |-> p.rows]
         [] p.data = "Failed" -> Failed("Driver")
         [] OTHER -> Failed("NotFound")

\* Slip: the rows are answered in whatever order they have.
SortsOnTrust(k, got) == Answered(k, got, PageAnswer(got))

\* sorted, once the sort was asked for: one the store dropped is refused.
AnswerSorted(k, got) ==
    Answered(k, got, IF SortOf(got) = Wanted THEN PageAnswer(got) ELSE Failed("Unsupported"))

DefinitionAnswer(got) ==
    LET d == definitions[got.conn][got.item]
    IN CASE d.data = "Ready" -> [tag |-> "Definition", value |-> d.version]
         [] d.data = "Failed" -> Failed("Driver")
         [] OTHER -> Failed("NotFound")

\* expanded, and then what is below the node.
NodesAnswer(got) ==
    IF got.item \in Objects(tree[got.conn]) /\ tree[got.conn].status[got.item] = "Failed"
    THEN Failed("Driver")
    ELSE [tag |-> "Nodes", value |-> Objects(tree[got.conn]) \cap Children[got.item]]

QueryAnswer(q) ==
    IF Known(q) THEN [tag |-> "Query", value |-> queries[q].data] ELSE Failed("NoSuchQuery")

LibraryAnswerOf(data, value) ==
    CASE data = "Ready" -> [tag |-> "List", value |-> value]
      [] data = "Failed" -> Failed("Unsupported")
      [] OTHER -> Failed("Timeout")

\* apply_template, once the templates were listed: the one that is named, and
\* then the connection whose quoting it is filled in with.
Applies(k, got) ==
    IF templates.data # "Ready"
    THEN Answered(k, got, LibraryAnswerOf(templates.data, {}))
    ELSE IF got.item \notin templates.list
    THEN Answered(k, got, Failed("NoSuchTemplate"))
    ELSE IF conns[got.conn].status = "absent"
    THEN Answered(k, got, Failed("NoSuchConnection"))
    ELSE /\ call' = [call EXCEPT ![k] = [got EXCEPT !.step = "opening"]]
         /\ UNCHANGED inbox

\* What each request waits for once its action is in the queue.
Finished(got) ==
    CASE got.op = "open" -> Settled(ConnectionOwner(got.conn))
      [] got.op = "close" -> conns[got.conn].status = "Closed"
      [] got.op = "preview" -> Settled(PreviewOwner(got.conn, got.item))
      [] got.op = "describe" -> Settled(DefinitionOwner(got.conn, got.item))
      [] got.op = "children" -> Settled(NodeOwner(got.conn, got.item))
      [] got.op = "run" -> Known(got.query)
      [] got.op \in {"estimate", "wait", "cancel"} ->
            Known(got.query) /\ queries[got.query].data # "Loading"
      [] got.op = "history" -> Settled(HistoryOwner)
      [] got.op \in {"templates", "apply"} -> Settled(TemplatesOwner)

\* Slip: an estimate is answered and its query left where it is.
EstimateIsKept(k, got, answer) == Answered(k, got, answer)

\* An estimate is forgotten whatever came of it, and only then answered.
ForgetEstimate(k, got, answer) ==
    Dispatch(k, [got EXCEPT !.answer = answer], "forgetting",
             Action("Forget", None, got.query, None))

\* The wait ends: the store has applied the action and finished with it.
Finishes(k) ==
    LET got == call[k]
    IN /\ got.step = "acting"
       /\ HasApplied(got.ordinal)
       /\ Finished(got)
       /\ \/ /\ got.op \in {"open", "close"}
             /\ Answered(k, got, [tag |-> "Connection", value |-> conns[got.conn].status])
          \/ /\ got.op = "preview"
             /\ IF got.flag /\ SortOf(got) # Wanted
                THEN Dispatch(k, got, "sorting",
                              Action("Sort", got.conn, got.item, 0))
                ELSE Answered(k, got, PageAnswer(got))
          \/ /\ got.op = "describe"
             /\ Answered(k, got, DefinitionAnswer(got))
          \/ /\ got.op = "children"
             /\ Answered(k, got, NodesAnswer(got))
          \/ /\ got.op \in {"run", "wait", "cancel"}
             /\ Answered(k, got, QueryAnswer(got.query))
          \/ /\ got.op = "estimate"
             /\ ForgetEstimate(k, got, QueryAnswer(got.query))
          \/ /\ got.op = "history"
             /\ Answered(k, got, LibraryAnswerOf(search.data, search.found))
          \/ /\ got.op = "templates"
             /\ Answered(k, got, LibraryAnswerOf(templates.data, templates.list))
          \/ /\ got.op = "apply"
             /\ Applies(k, got)

Sorts(k) ==
    LET got == call[k]
    IN /\ got.step = "sorting"
       /\ HasApplied(got.ordinal)
       /\ Settled(PreviewOwner(got.conn, got.item))
       /\ AnswerSorted(k, got)

\* The estimate's query is gone, and the answer held since is given.
Forgets(k) ==
    LET got == call[k]
    IN /\ got.step = "forgetting"
       /\ HasApplied(got.ordinal)
       /\ ~Known(got.query)
       /\ Answered(k, got, got.answer)

\* What a caller does next of its own accord.
Proceeds(k) ==
    /\ Reaches(k) \/ Descends(k) \/ Finishes(k) \/ Sorts(k) \/ Forgets(k)
    /\ UNCHANGED <<vars, applied, running, countVars>>

\* A wait that ends on its own: its time is up, or the store has stopped
\* publishing.  An estimate is still forgotten, and a wait for a query that ran
\* out of time answers with the query as it stands.
GivesUp(k, failure) ==
    LET got == call[k]
    IN IF got.op = "estimate" /\ got.step = "acting"
       THEN ForgetEstimate(k, got, failure)
       ELSE IF got.op = "wait" /\ failure.tag = "Timeout"
       THEN Answered(k, got, QueryAnswer(got.query))
       ELSE IF got.step = "forgetting" /\ got.answer.tag # "Query"
       THEN Answered(k, got, got.answer)
       ELSE Answered(k, got, failure)

TimesOut(k) ==
    /\ scene.late
    /\ call[k].step # "idle"
    /\ GivesUp(k, Failed("Timeout"))
    /\ UNCHANGED <<vars, applied, running, countVars>>

Stopped(k) ==
    /\ ~running
    /\ call[k].step # "idle"
    /\ GivesUp(k, Failed("Driver"))
    /\ UNCHANGED <<vars, applied, running, countVars>>

-----------------------------------------------------------------------------
(* Requests.                                                                *)

\* QueryId::new, for a request that makes a query; there are no more ids than
\* QueryIds.
NewQuery(op) ==
    IF op \notin {"run", "estimate"} THEN {None}
    ELSE LET fresh == {q \in QueryIds : FreshQuery(q)}
         IN IF fresh = {} THEN {} ELSE {CHOOSE q \in fresh : TRUE}

\* The request up to its first wait.
Begins(k, new) ==
    \/ /\ new.op = "open"
       /\ \E c \in ConnIds :
             /\ conns[c].status = "absent"
             /\ \A i \in DOMAIN inbox : inbox[i].conn # c
             /\ Dispatch(k, [new EXCEPT !.conn = c], "acting",
                         Action("Connect", c, None, None))
    \/ /\ new.op \in {"close", "namespaces", "children", "preview", "describe",
                      "run", "estimate"}
       /\ \E c \in ConnIds :
             IF conns[c].status = "absent"
             THEN Answered(k, new, Failed("NoSuchConnection"))
             ELSE IF new.op = "close"
             THEN Dispatch(k, [new EXCEPT !.conn = c], "acting",
                           Action("Disconnect", c, None, None))
             ELSE \E q \in NewQuery(new.op) :
                     /\ call' = [call EXCEPT ![k] = [new EXCEPT !.conn = c, !.query = q,
                                                                !.step = "opening"]]
                     /\ UNCHANGED inbox
    \/ /\ new.op \in {"status", "wait", "cancel"}
       /\ \E q \in QueryIds :
             LET got == [new EXCEPT !.query = IF Known(q) THEN q ELSE None]
                 rows == Rows(QueryOwner(q))
             IN IF \/ ~Known(q)
                   \/ new.op = "status"
                   \/ new.op = "cancel" /\ rows = {}
                THEN Answered(k, got, QueryAnswer(q))
                ELSE IF new.op = "wait"
                THEN /\ call' = [call EXCEPT ![k] = [got EXCEPT !.step = "acting"]]
                     /\ UNCHANGED inbox
                ELSE \E b \in rows :
                        Dispatch(k, got, "acting", Action("Cancel", None, None, b.id))
    \/ /\ new.op = "history"
       /\ Dispatch(k, new, "acting", Action("Search", None, None, new.item))
    \/ /\ new.op = "templates"
       /\ Dispatch(k, new, "acting", Action("Load", None, None, None))
    \/ /\ new.op = "apply"
       /\ \E c \in ConnIds :
             Dispatch(k, [new EXCEPT !.conn = c], "acting",
                      Action("Load", None, None, None))

\* answer
Ask(k) ==
    /\ asks < scene.maxAsks
    /\ asks' = asks + 1
    /\ call[k].step = "idle"
    /\ \E r \in scene.asks :
          Begins(k, [NoCall EXCEPT !.op = r.op, !.item = r.item, !.flag = r.flag])
    /\ UNCHANGED <<vars, applied, running, scene, gestures>>

\* What a person may dispatch now, looking at the screen.
Enqueue(op, c, item, arg) == inbox' = Append(inbox, Action(op, c, item, arg))

Possible(op) ==
    \/ /\ op = "Toggle"
       /\ \E c \in ConnIds, n \in Nodes \ Leaves : Enqueue(op, c, n, None)
    \/ /\ op \in {"Preview", "Sort", "LoadMore", "ForgetPreview"}
       /\ \E c \in ConnIds, t \in Browsed : Enqueue(op, c, t, 0)
    \/ /\ op = "Describe"
       /\ \E c \in ConnIds, t \in Inspected : Enqueue(op, c, t, TRUE)
    \/ /\ op = "Disconnect"
       /\ \E c \in ConnIds : Enqueue(op, c, None, None)
    \/ /\ op = "Cancel"
       /\ \E b \in busy : Enqueue(op, None, None, b.id)
    \/ /\ op \in {"Approve", "Forget"}
       /\ \E q \in QueryIds : Known(q) /\ Enqueue(op, None, q, None)
    \/ /\ op = "Search"
       /\ \E terms \in Terms : Enqueue(op, None, None, terms)
    \/ /\ op \in Ops
       /\ \E item \in Items(op) : Enqueue(op, None, item, None)
    \/ /\ op = "Quit"
       /\ Enqueue(op, None, None, None)

Gesture ==
    /\ running
    /\ gestures < scene.maxGestures
    /\ gestures' = gestures + 1
    /\ \E op \in scene.gestures : Possible(op)
    /\ UNCHANGED <<vars, applied, running, call, scene, asks>>

-----------------------------------------------------------------------------

\* A session a person has been using, with some connections open and nothing
\* in flight.
ServiceInit ==
    /\ scene \in Scenes
    /\ Underway(scene.browsed)
    /\ call = [k \in Clients |-> NoCall]
    /\ asks = 0
    /\ gestures = 0

\* Whether the relation a caller previews fails in this step.
FailsNow(got) ==
    /\ got.op = "preview" /\ got.item \in Browsed /\ got.step # "idle"
    /\ previews[got.conn][got.item].data # "Failed"
    /\ previews'[got.conn][got.item].data = "Failed"

Sees(got) == [got EXCEPT !.seen = @ \/ FailsNow(got)]

\* A step of the store or of what is around it; callers' history is kept up.
Watched == call' = [k \in Clients |-> Sees(call[k])] /\ UNCHANGED countVars

Loop == (Apply \/ Handle) /\ Watched

Tasks(id) == (\E t \in tasks : t.id = id /\ Works(t)) /\ UNCHANGED queueVars /\ Watched

Pool == Blocking /\ UNCHANGED queueVars /\ Watched

Elsewhere == Outside /\ UNCHANGED queueVars /\ Watched

ServiceNext ==
    \/ Loop
    \/ \E id \in BusyId : Tasks(id)
    \/ Pool
    \/ Elsewhere
    \/ \E k \in Clients : Ask(k) \/ Proceeds(k) \/ TimesOut(k) \/ Stopped(k)
    \/ Gesture

ServiceSpec == ServiceInit /\ [][ServiceNext]_serviceVars

\* The store's fairness, and the callers' runtime polls whoever can go on.
\* Nothing is assumed of the person, nor that anybody's time runs out.
ServiceFairness ==
    /\ WF_serviceVars(Loop)
    /\ \A id \in BusyId : WF_serviceVars(Tasks(id))
    /\ WF_serviceVars(Pool)
    /\ \A k \in Clients : WF_serviceVars(Proceeds(k)) /\ WF_serviceVars(Stopped(k))

FairServiceSpec == ServiceSpec /\ ServiceFairness

-----------------------------------------------------------------------------
(* Properties.                                                              *)

Gives(k) == call[k].step # "idle" /\ call'[k].step = "idle"

\* An answer is never from before its request: a preview that is answered as failed
\* has failed since the request was queued (wait.rs, dispatch_and_settle), unless
\* there is no session left to retry it on; and a refreshed definition is at least
\* as new as the request for it, unless somebody cancelled it.
AnswersAreNew ==
    [][\A k \in Clients :
          LET got == call[k]
              answer == call'[k].answer
          IN /\ (/\ Gives(k) /\ got.op = "preview" /\ got.step = "acting"
                 /\ answer.tag = "Driver"
                 /\ running /\ conns[got.conn].session) => got.seen
             /\ (/\ Gives(k) /\ got.op = "describe" /\ got.flag
                 /\ answer.tag = "Definition"
                 /\ asked[got.conn][got.item] >= got.floor) => answer.value >= got.floor]_call

\* A caller who asked for an order is never handed rows in another one, whoever
\* else is reordering the same preview.
SortedPageIsSorted ==
    \A k \in Clients :
        call[k].op = "preview" /\ call[k].flag /\ call[k].answer.tag = "Page" =>
            \A i \in 1 .. Len(call[k].answer.value) : call[k].answer.value[i].sort = Wanted

\* An estimate that was answered left nothing behind: no query, no busy row and
\* no task.
EstimateLeavesNothing ==
    \A k \in Clients :
        call[k].op = "estimate" /\ call[k].step = "idle" /\ call[k].answer.tag = "Query" =>
            /\ ~Known(call[k].query)
            /\ Rows(QueryOwner(call[k].query)) = {}

\* A caller's wait is for something that can no longer come: the query was
\* forgotten, or its connection went before the query was started.
Lost(got) ==
    /\ got.step = "acting"
    /\ \/ got.op \in {"wait", "cancel", "run", "estimate"} /\ ~Known(got.query)
       \/ got.op = "close" /\ conns[got.conn].status # "Closed"

\* Every request is answered without its time running out, whatever else is
\* done to the same session, unless what it waits for is gone.
EveryRequestIsAnswered ==
    \A k \in Clients : call[k].step # "idle" ~> call[k].step = "idle" \/ Lost(call[k])

\* Whatever spins stops spinning and every busy row goes, as long as the loop runs
\* and every call to a database and to the library ends: nothing sits in the status
\* bar for an answer that has been and gone.
EverySpinnerStops ==
    /\ \A c \in ConnIds :
          /\ conns[c].status = "Connecting" ~> conns[c].status # "Connecting" \/ ~running
          /\ \A n \in Nodes :
                tree[c].status[n] = "Loading" ~> tree[c].status[n] # "Loading" \/ ~running
          /\ \A t \in Tables :
                /\ previews[c][t].data = "Loading" ~>
                       previews[c][t].data # "Loading" \/ ~running
                /\ definitions[c][t].data = "Loading" ~>
                       definitions[c][t].data # "Loading" \/ ~running
    /\ \A q \in QueryIds :
          queries[q].data = "Loading" ~> queries[q].data # "Loading" \/ ~running
    /\ templates.data = "Loading" ~> templates.data # "Loading" \/ ~running
    /\ search.data = "Loading" ~> search.data # "Loading" \/ ~running
    /\ \A id \in BusyId : id \in BusyIds ~> id \notin BusyIds \/ ~running

\* Nothing waits for ever: every request is answered and every spinner stops.
NothingWaitsForEver == EveryRequestIsAnswered /\ EverySpinnerStops

=============================================================================
