------------------------- MODULE StoreConnections --------------------------
(***************************************************************************)
(* Connections and their object trees: the store's `connect`, `open_node`,   *)
(* `connected`, `expanded` and `session_died` (store.rs), the expansion      *)
(* state of tree.rs, and the `Connect` and `ExpandNode` use cases.           *)
(* `disconnect` and `cancel` reach into every other part and are in Store.   *)
(***************************************************************************)
EXTENDS StoreKernel

Statuses == {"absent", "Connecting", "Ready", "Failed", "Closed"}

\* "None" is a node the status map has no entry for.
NodeStates == {"None", "Leaf", "Collapsed", "Loading", "Expanded", "Failed"}

Conn == [status : Statuses, expanded : BOOLEAN, session : BOOLEAN,
         access : {"ReadOnly", "ReadWrite"}, sortable : BOOLEAN]

Tree == [status : [Nodes -> NodeStates], loaded : SUBSET (Nodes \cup {Root})]

NewConn == [status |-> "Connecting", expanded |-> TRUE, session |-> FALSE,
            access |-> "ReadOnly", sortable |-> FALSE]

EmptyTree == [status |-> [n \in Nodes |-> "None"], loaded |-> {}]

\* What a connection's record becomes when its session opens, when it goes, and
\* when there never was one.
Opened(conn, result) ==
    [conn EXCEPT !.status = "Ready", !.session = TRUE, !.access = result.access,
                 !.sortable = result.sortable]
Parted(conn, status) == [conn EXCEPT !.session = FALSE, !.status = status]
Refused(conn) == [conn EXCEPT !.status = "Failed"]

\* What a live session answers with, whatever was asked.
Failing(c) == IF c \in alive THEN "Err" ELSE "SessionClosed"

-----------------------------------------------------------------------------
(* tree.rs                                                                  *)

\* record_leaves: a child with no children of its own is a leaf.
RecordLeaves(status, children) ==
    [n \in Nodes |-> IF n \in children \cap Leaves THEN "Leaf" ELSE status[n]]

\* set_roots: everything known below is discarded.
SetRoots ==
    [status |-> RecordLeaves(EmptyTree.status, Children[Root]), loaded |-> {Root}]

\* finish_load with the children the catalogue has, or with a failure.
FinishLoad(tr, n, ok) ==
    IF ok THEN [status |-> [RecordLeaves(tr.status, Children[n]) EXCEPT ![n] = "Expanded"],
                loaded |-> tr.loaded \cup {n}]
          ELSE [status |-> [tr.status EXCEPT ![n] = "Failed"],
                loaded |-> tr.loaded \ {n}]

\* What toggle, expand and the store write of one node.
Marked(tr, n, state) == [tr EXCEPT !.status = [@ EXCEPT ![n] = state]]

\* contains: some parent whose children are held names the node.
Contains(tr, n) == \E parent \in tr.loaded : n \in Children[parent]

\* toggle on a node whose children are held: shown or hidden in memory.
\* `expand` is the same without the arm that hides.
Shown(tr, n, mayCollapse) ==
    \/ tr.status[n] = "Expanded" /\ mayCollapse
    \/ tr.status[n] \in {"None", "Collapsed"} /\ n \in tr.loaded

\* toggle on a node whose children have to be fetched: never fetched, or the
\* last fetch failed.
MustLoad(tr, n) ==
    \/ tr.status[n] \in {"None", "Collapsed"} /\ n \notin tr.loaded
    \/ tr.status[n] = "Failed"

-----------------------------------------------------------------------------
(* Actions a front-end dispatches.                                          *)

\* connect.  The id is fresh; a profile may name a driver this build lacks.
Connect(c) ==
    /\ conns[c].status = "absent"
    /\ \/ /\ conns' = [conns EXCEPT ![c] = Refused(NewConn)]
          /\ UNCHANGED kernelVars
       \/ /\ conns' = [conns EXCEPT ![c] = NewConn]
          /\ Begin({}, ConnectionOwner(c), None)
    /\ UNCHANGED <<tree, previewVars, definitionVars, queryVars, recordVars,
                   libraryVars, alive, writing>>

\* open_node on the connection's own row: ToggleNode flips it, ExpandNode opens it.
OpenConnectionRow(c, mayCollapse) ==
    /\ conns[c].status # "absent"
    /\ conns' = [conns EXCEPT ![c].expanded = IF mayCollapse THEN ~ @ ELSE TRUE]
    /\ UNCHANGED <<tree, previewVars, definitionVars, queryVars, recordVars,
                   libraryVars, kernelVars, alive, writing>>

\* open_node below it: shown or hidden from memory, or fetched.
OpenNode(c, n, mayCollapse) ==
    /\ conns[c].session
    /\ Contains(tree[c], n)
    /\ \/ /\ Shown(tree[c], n, mayCollapse)
          /\ tree' = [tree EXCEPT ![c] = Marked(@, n,
                        IF @.status[n] = "Expanded" THEN "Collapsed" ELSE "Expanded")]
          /\ UNCHANGED kernelVars
       \/ /\ MustLoad(tree[c], n)
          /\ tree' = [tree EXCEPT ![c] = Marked(@, n, "Loading")]
          /\ Begin({}, NodeOwner(c, n), None)
    /\ UNCHANGED <<conns, previewVars, definitionVars, queryVars, recordVars,
                   libraryVars, alive, writing>>

-----------------------------------------------------------------------------
(* Tasks.                                                                   *)

\* The Connect use case answers: the profile resolves and the database opens,
\* with a session actor behind it, or something on the way fails.
ConnectAnswers(t) ==
    /\ t.owner.kind = "Connection"
    /\ \/ \E access \in Accesses, sortable \in BOOLEAN :
             /\ Send(t, [tag |-> "Ok", access |-> access, sortable |-> sortable])
             /\ alive' = alive \cup {t.owner.conn}
       \/ /\ Send(t, [tag |-> "Err"])
          /\ UNCHANGED alive
    /\ UNCHANGED <<connVars, previewVars, definitionVars, queryVars, recordVars,
                   libraryVars, writing>>

\* The ExpandNode use case answers.
ExpandAnswers(t) ==
    /\ t.owner.kind = "Node"
    /\ \/ t.owner.conn \in alive /\ Send(t, [tag |-> "Ok"])
       \/ Send(t, [tag |-> Failing(t.owner.conn)])
    /\ UNCHANGED <<connVars, previewVars, definitionVars, queryVars, recordVars,
                   libraryVars, alive, writing>>

\* A session actor ends on its own (a driver call panics): every later answer
\* from this connection is SessionClosed.
ActorDies(c) ==
    /\ c \in alive
    /\ alive' = alive \ {c}
    /\ UNCHANGED <<connVars, previewVars, definitionVars, queryVars, recordVars,
                   libraryVars, kernelVars, writing>>

-----------------------------------------------------------------------------
(* Events.                                                                  *)

\* Slip: the status changes and the dead session stays behind it.
SessionDiedBehindStatus(c) ==
    IF conns[c].status = "Closed"
    THEN UNCHANGED conns
    ELSE conns' = [conns EXCEPT ![c] = Refused(@)]

\* session_died: the connection reads as failed, unless it is already closed.
SessionDied(c) ==
    IF conns[c].status = "Closed"
    THEN UNCHANGED conns
    ELSE conns' = [conns EXCEPT ![c] = Parted(@, "Failed")]

\* connected
Connected ==
    /\ Receive("Connection")
    /\ LET c == Head(events).owner.conn
           result == Head(events).result
       IN \/ /\ result.tag = "Ok"
             /\ conns[c].status = "Connecting"
             /\ conns' = [conns EXCEPT ![c] = Opened(@, result)]
             /\ tree' = [tree EXCEPT ![c] = SetRoots]
             /\ UNCHANGED alive
          \/ /\ result.tag = "Ok"
             /\ conns[c].status # "Connecting"
             /\ alive' = alive \ {c}
             /\ UNCHANGED connVars
          \/ /\ result.tag = "Err"
             /\ conns' = [conns EXCEPT ![c] = Refused(@)]
             /\ UNCHANGED <<tree, alive>>
    /\ UNCHANGED <<previewVars, definitionVars, queryVars, recordVars,
                   libraryVars, writing>>

\* expanded
Expanded ==
    /\ Receive("Node")
    /\ LET c == Head(events).owner.conn
           n == Head(events).owner.item
           tag == Head(events).result.tag
       IN /\ tree' = [tree EXCEPT ![c] = FinishLoad(@, n, tag = "Ok")]
          /\ IF tag = "SessionClosed" THEN SessionDied(c) ELSE UNCHANGED conns
    /\ UNCHANGED <<previewVars, definitionVars, queryVars, recordVars,
                   libraryVars, alive, writing>>

-----------------------------------------------------------------------------
(* Properties.                                                              *)

\* Work can be given to a connection exactly when it reads Ready: no order of
\* connect, disconnect, cancel, a late Connected and a dying actor leaves a
\* row that reads Ready with no session, or a session behind a row that does
\* not (the resurrection `connected` guards against).
ReadyMeansSession ==
    \A c \in ConnIds : conns[c].session <=> conns[c].status = "Ready"

=============================================================================
