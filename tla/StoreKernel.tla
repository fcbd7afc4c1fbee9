---------------------------- MODULE StoreKernel ----------------------------
(***************************************************************************)
(* The state of the store (crates/sqlake-app/src/store.rs, `Runtime`) and   *)
(* the bookkeeping every one of its handlers goes through: a busy row per   *)
(* piece of work, a spawned task that sends exactly one event when it is    *)
(* done, the FIFO of those events, and the two ways a row disappears        *)
(* (`end_busy` when the event is handled, `drop_task` when it is aborted).  *)
(* An operator whose comment starts with "Slip" is not the code's: it is a   *)
(* mistake the properties have to catch if the next operator made it.       *)
(*                                                                         *)
(* The store is the only writer of this state, one action or one event at a *)
(* time; the tasks run beside it.  The handlers themselves are in the       *)
(* modules that extend this one, and Store.tla composes them.               *)
(***************************************************************************)
EXTENDS Naturals, Sequences, FiniteSets

CONSTANTS
    ConnIds,      \* connections callers may name; an id is never used twice
    Accesses,     \* what profiles allow: a subset of {"ReadOnly", "ReadWrite"}
    Root,         \* the node every tree hangs from (NodeRef::root())
    Nodes,        \* the other nodes of the catalogue
    Children,     \* [Nodes \cup {Root} -> SUBSET Nodes]: the catalogue
    Leaves,       \* nodes with no children of their own
    Browsed,      \* relations callers preview
    Inspected,    \* relations callers describe
    RelationSize, \* rows in every relation
    PageSize,     \* Settings::page_size
    Widths,       \* numbers of columns a relation may have
    MaxSchema,    \* bound: how often a relation's schema may change
    QueryIds,     \* queries callers may name; an id is never used twice
    Statements,   \* statements: records [writes, dear]
    Budgeted,     \* whether the session has a byte budget
    Library,      \* whether the session keeps templates and a history
    Saved,        \* templates that may be saved
    LibraryOps,   \* library actions in play, a subset of {"Load", "Save", "Replace", "Delete"}
    Terms,        \* words somebody may search the history for
    MaxBusy,      \* bound: pieces of work started in one behaviour
    None          \* the absent value (Rust's Option::None)

BusyId == 0 .. MaxBusy - 1

Tables == Browsed \cup Inspected

SortDirs == {"Asc", "Desc"}
Sort == [column : Nat, dir : SortDirs]
Page == [sort : Sort \cup {None}, offset : Nat]

Owner ==
    [kind : {"Connection"}, conn : ConnIds, item : {None}]
      \cup [kind : {"Node"}, conn : ConnIds, item : Nodes]
      \cup [kind : {"Preview", "Definition"}, conn : ConnIds, item : Tables]
      \cup [kind : {"Query"}, conn : {None}, item : QueryIds]
      \cup [kind : {"Templates", "History"}, conn : {None}, item : {None}]

ConnectionOwner(c) == [kind |-> "Connection", conn |-> c, item |-> None]
NodeOwner(c, n) == [kind |-> "Node", conn |-> c, item |-> n]
PreviewOwner(c, t) == [kind |-> "Preview", conn |-> c, item |-> t]
DefinitionOwner(c, t) == [kind |-> "Definition", conn |-> c, item |-> t]
QueryOwner(q) == [kind |-> "Query", conn |-> None, item |-> q]
TemplatesOwner == [kind |-> "Templates", conn |-> None, item |-> None]
HistoryOwner == [kind |-> "History", conn |-> None, item |-> None]

\* Who a Recorded event is for.  The call has no busy row: nobody asked for it
\* and nobody could cancel it.
RunOwner(q) == [kind |-> "Run", conn |-> None, item |-> q]

ASSUME ConstantsAssumption ==
    /\ PageSize \in Nat \ {0}
    /\ RelationSize \in Nat
    /\ MaxBusy \in Nat
    /\ MaxSchema \in Nat
    /\ Widths \subseteq Nat \ {0}
    /\ Accesses \subseteq {"ReadOnly", "ReadWrite"}
    /\ Root \notin Nodes
    /\ Leaves \subseteq Nodes
    /\ Children \in [Nodes \cup {Root} -> SUBSET Nodes]
    /\ Statements \subseteq [writes : BOOLEAN, dear : BOOLEAN]
    /\ Budgeted \in BOOLEAN
    /\ Library \in BOOLEAN
    /\ LibraryOps \subseteq {"Load", "Save", "Replace", "Delete"}

\* A task with no answer is told from one with any.
ASSUME NoneAssumption ==
    None \notin [tag : {"Ok", "Err", "SessionClosed", "Refused", "NeedsApproval", "Estimated"}]

-----------------------------------------------------------------------------

VARIABLES
    conns,       \* Runtime::conns without the trees
    tree,        \* Conn::tree of each connection
    previews,    \* Runtime::previews
    definitions, \* Runtime::definitions
    queries,     \* Runtime::queries
    runs,        \* Runtime::runs: where each query's history row has got to
    templates,   \* Runtime::templates
    search,      \* Runtime::history: the last search, its words and its answer
    busy,        \* Runtime::busy
    tasks,       \* spawned tasks that have neither sent their event nor been aborted
    events,      \* the channel of events, oldest first
    nextId       \* Runtime::next_id

VARIABLES
    alive,       \* sessions whose actor is running (session.rs)
    width,       \* the databases: how many columns each relation has
    schema,      \* the databases: how often each relation's definition has changed
    asked,       \* schema version when each definition was last asked for, 0 once
                 \* that was cancelled
    sent,        \* how often the server has executed each query's statement
    approved,    \* queries somebody has said yes to
    history,     \* the history table: one row per statement sent
    writing,     \* history writes on the blocking pool
    jobs,        \* template operations on the blocking pool
    ended,       \* how each run really ended, as the store saw it
    saved        \* the templates table

connVars == <<conns, tree>>
previewVars == <<previews, width>>
definitionVars == <<definitions, schema, asked>>
queryVars == <<queries, runs, sent, approved, ended>>
recordVars == <<history>>
libraryVars == <<templates, search, saved, jobs>>
kernelVars == <<busy, tasks, events, nextId>>

vars == <<connVars, previewVars, definitionVars, queryVars, recordVars,
          libraryVars, kernelVars, alive, writing>>

-----------------------------------------------------------------------------
(* Busy rows and tasks.                                                     *)

BusyIds == {b.id : b \in busy}

Rows(owner) == {b \in busy : b.owner = owner}

IdsOf(rows) == {b.id : b \in rows}

\* What a new request for this owner takes the place of: all its rows.
NoneSuperseded(owner) == {}
Superseded(owner) == IdsOf(Rows(owner))

\* drop_task, for a set of ids: each task is aborted before it sends and its
\* row goes.  An event it has already sent stays in the channel.
DropTasks(ids) ==
    /\ busy' = {b \in busy : b.id \notin ids}
    /\ tasks' = {t \in tasks : t.id \notin ids}
    /\ UNCHANGED <<events, nextId>>

\* begin_busy and spawn_task, once the tasks in `superseded` are dropped.
Begin(superseded, owner, req) ==
    /\ nextId < MaxBusy
    /\ nextId' = nextId + 1
    /\ busy' = {b \in busy : b.id \notin superseded}
                 \cup {[id |-> nextId, owner |-> owner]}
    /\ tasks' = {t \in tasks : t.id \notin superseded}
                  \cup {[id |-> nextId, owner |-> owner, req |-> req, got |-> None]}
    /\ UNCHANGED events

\* The last thing a task does: send its event, whose payload is what the
\* database or the library answered.
Send(t, result) ==
    /\ tasks' = tasks \ {t}
    /\ events' = Append(events, [id |-> t.id, owner |-> t.owner,
                                 req |-> t.req, result |-> result])
    /\ UNCHANGED <<busy, nextId>>

\* Slip: the event is handled and its row is left in the status bar.
ReceiveKeepingRow(kind) ==
    /\ events # <<>>
    /\ Head(events).owner.kind = kind
    /\ events' = Tail(events)
    /\ UNCHANGED <<busy, tasks, nextId>>

\* `handle`: take the oldest event, which is about work of this kind, and end
\* its busy row.
Receive(kind) ==
    /\ events # <<>>
    /\ Head(events).owner.kind = kind
    /\ events' = Tail(events)
    /\ busy' = {b \in busy : b.id # Head(events).id}
    /\ UNCHANGED <<tasks, nextId>>

\* The server's answer has reached the task, which has not yet run to send it.
Answer(t, result) ==
    /\ tasks' = (tasks \ {t}) \cup {[t EXCEPT !.got = result]}
    /\ UNCHANGED <<busy, events, nextId>>

\* A reply for this owner is on its way: a task is working or its event waits.
OnItsWay(owner) ==
    \/ \E t \in tasks : t.owner = owner
    \/ \E i \in DOMAIN events : events[i].owner = owner

=============================================================================
