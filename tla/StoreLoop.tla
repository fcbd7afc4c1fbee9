----------------------------- MODULE StoreLoop ------------------------------
(***************************************************************************)
(* The store behind its channel: front-ends put actions in it, and the loop   *)
(* (store.rs `Runtime::run`) takes one action or one event at a time and      *)
(* publishes what it left.                                                  *)
(***************************************************************************)
EXTENDS Store

CONSTANTS
    Attached,    \* connections already open when a behaviour begins
    Path         \* [Nodes -> Seq(Nodes)]: the path that names each node

ASSUME LoopAssumption ==
    /\ Attached \subseteq ConnIds
    /\ Path \in [Nodes -> Seq(Nodes)]
    /\ \A n \in Nodes : Path[n] # <<>> /\ Path[n][Len(Path[n])] = n

VARIABLES
    inbox,     \* the channel of actions, oldest first
    applied,   \* Runtime::applied
    running    \* whether the loop is

queueVars == <<inbox, applied, running>>

Action(op, c, item, arg) == [op |-> op, conn |-> c, item |-> item, arg |-> arg]

\* flatten: a connection's objects, down to the first parent that is not open.
Objects(tr) ==
    {n \in Nodes : /\ Root \in tr.loaded
                   /\ \A i \in 1 .. Len(Path[n]) - 1 :
                         /\ tr.status[Path[n][i]] = "Expanded"
                         /\ Path[n][i] \in tr.loaded}

-----------------------------------------------------------------------------
(* The loop: an action is taken off the queue and applied, and one the store  *)
(* turns away is applied too.                                                *)

Perform(a) ==
    \/ a.op = "Connect" /\ Connect(a.conn)
    \/ a.op = "Disconnect" /\ Disconnect(a.conn)
    \/ a.op = "Expand" /\ OpenNode(a.conn, a.item, FALSE)
    \/ a.op = "Toggle" /\ a.item # Root /\ OpenNode(a.conn, a.item, TRUE)
    \/ a.op = "Toggle" /\ a.item = Root /\ OpenConnectionRow(a.conn, TRUE)
    \/ a.op = "Preview" /\ PreviewTable(a.conn, a.item)
    \/ a.op = "Sort" /\ SortPreview(a.conn, a.item, a.arg)
    \/ a.op = "LoadMore" /\ LoadMore(a.conn, a.item)
    \/ a.op = "ForgetPreview" /\ ForgetPreview(a.conn, a.item)
    \/ a.op = "Describe" /\ DescribeTable(a.conn, a.item, a.arg)
    \/ a.op = "ForgetDefinition" /\ ForgetDefinition(a.conn, a.item)
    \/ a.op = "Estimate" /\ EstimateQuery(a.conn, a.item, a.arg)
    \/ a.op = "Run" /\ RunQuery(a.conn, a.item, a.arg)
    \/ a.op = "Approve" /\ ApproveQuery(a.item)
    \/ a.op = "Forget" /\ ForgetQuery(a.item)
    \/ a.op = "Cancel" /\ \E b \in busy : b.id = a.arg /\ Cancel(b)
    \/ a.op = "Search" /\ SearchHistory(a.arg)
    \/ a.op \in Ops /\ WithLibrary(a.op, a.item)

\* One iteration of the loop's action arm.  A quit is the last there is.
Apply ==
    /\ running
    /\ inbox # <<>>
    /\ inbox' = Tail(inbox)
    /\ applied' = applied + 1
    /\ running' = (Head(inbox).op # "Quit")
    /\ \/ Perform(Head(inbox))
       \/ ~ENABLED Perform(Head(inbox)) /\ UNCHANGED vars

\* One iteration of its event arm.
Handle ==
    /\ running
    /\ Handled
    /\ UNCHANGED queueVars

-----------------------------------------------------------------------------
(* A session somebody has been using: some connections open, every namespace  *)
(* opened or none, and nothing in flight.                                     *)

\* Everything has been opened.
FullTree ==
    [status |-> [n \in Nodes |-> IF n \in Leaves THEN "Leaf" ELSE "Expanded"],
     loaded |-> {Root} \cup (Nodes \ Leaves)]

Underway(browsed) ==
    /\ \E sortable \in BOOLEAN :
          conns = [c \in ConnIds |->
                     IF c \in Attached
                     THEN Opened(NewConn, [access |-> "ReadWrite", sortable |-> sortable])
                     ELSE [NewConn EXCEPT !.status = "absent"]]
    /\ tree = [c \in ConnIds |-> IF c \notin Attached THEN EmptyTree
                                ELSE IF browsed THEN FullTree
                                ELSE SetRoots]
    /\ alive = Attached
    /\ NothingYet
    /\ inbox = <<>>
    /\ applied = 0
    /\ running = TRUE

=============================================================================
