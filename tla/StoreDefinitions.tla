-------------------------- MODULE StoreDefinitions --------------------------
(***************************************************************************)
(* Definitions: what a relation is, fetched once and kept until it is asked  *)
(* for again (store.rs `describe_table`, `described`, `forget_definition`).   *)
(* A definition is the version of the schema it was read at.                 *)
(***************************************************************************)
EXTENDS StoreConnections

Definition == [data : {"absent", "Loading", "Ready", "Failed"}, version : Nat]

NoDefinition == [data |-> "absent", version |-> 0]

\* describe_table: held is held, unless a refresh is asked for or the last
\* attempt failed.  Whatever was in flight for it is superseded.
DescribeTable(c, t, refresh) ==
    /\ conns[c].session
    /\ \/ definitions[c][t].data \in {"absent", "Failed"}
       \/ refresh
    /\ definitions' = [definitions EXCEPT ![c][t] = [data |-> "Loading", version |-> 0]]
    /\ Begin(Superseded(DefinitionOwner(c, t)), DefinitionOwner(c, t), None)
    /\ asked' = [asked EXCEPT ![c][t] = schema[t]]
    /\ UNCHANGED <<connVars, previewVars, schema, queryVars, recordVars,
                   libraryVars, alive, writing>>

\* forget_definition
ForgetDefinition(c, t) ==
    /\ definitions[c][t].data # "absent"
    /\ definitions' = [definitions EXCEPT ![c][t] = NoDefinition]
    /\ DropTasks(IdsOf(Rows(DefinitionOwner(c, t))))
    /\ asked' = [asked EXCEPT ![c][t] = 0]
    /\ UNCHANGED <<connVars, previewVars, schema, queryVars, recordVars,
                   libraryVars, alive, writing>>

\* DDL in another window.
SchemaChanges(t) ==
    /\ schema[t] < MaxSchema
    /\ schema' = [schema EXCEPT ![t] = @ + 1]
    /\ UNCHANGED <<connVars, previewVars, definitions, asked, queryVars,
                   recordVars, libraryVars, kernelVars, alive, writing>>

\* The server answers the DescribeTable use case; the task has yet to send it.
DescribeAnswers(t) ==
    /\ t.owner.kind = "Definition"
    /\ t.got = None
    /\ \/ /\ t.owner.conn \in alive
          /\ Answer(t, [tag |-> "Ok", version |-> schema[t.owner.item]])
       \/ Answer(t, [tag |-> Failing(t.owner.conn)])
    /\ UNCHANGED <<connVars, previewVars, definitionVars, queryVars, recordVars,
                   libraryVars, alive, writing>>

DescribeSends(t) ==
    /\ t.owner.kind = "Definition"
    /\ t.got # None
    /\ Send(t, t.got)
    /\ UNCHANGED <<connVars, previewVars, definitionVars, queryVars, recordVars,
                   libraryVars, alive, writing>>

\* described.  Nothing compares the reply with the request that is out, and a
\* session found dead here is reported on the definition alone.
Described ==
    /\ Receive("Definition")
    /\ LET c == Head(events).owner.conn
           t == Head(events).owner.item
           result == Head(events).result
       IN \/ /\ definitions[c][t].data = "absent"
             /\ UNCHANGED definitions
          \/ /\ definitions[c][t].data # "absent"
             /\ result.tag = "Ok"
             /\ definitions' = [definitions EXCEPT ![c][t] =
                                  [data |-> "Ready", version |-> result.version]]
          \/ /\ definitions[c][t].data # "absent"
             /\ result.tag # "Ok"
             /\ definitions' = [definitions EXCEPT ![c][t] =
                                  [data |-> "Failed", version |-> 0]]
    /\ UNCHANGED <<connVars, previewVars, schema, asked, queryVars, recordVars,
                   libraryVars, alive, writing>>

-----------------------------------------------------------------------------
(* Properties.                                                              *)

\* A connection, a node and a definition that spin have a reply coming: whatever
\* cancels or closes one also takes it out of Loading.  TreeState::toggle refuses
\* a loading node, so one with no reply coming could never be opened again.
CatalogueSpinnersAreAnswered ==
    \A c \in ConnIds :
        /\ conns[c].status = "Connecting" => OnItsWay(ConnectionOwner(c))
        /\ \A n \in Nodes : tree[c].status[n] = "Loading" => OnItsWay(NodeOwner(c, n))
        /\ \A t \in Tables :
              definitions[c][t].data = "Loading" => OnItsWay(DefinitionOwner(c, t))

\* Once nothing is in flight, the definition on screen was read no earlier than
\* it was last asked for: a refresh nobody cancelled is never answered by the
\* reply it superseded, however late that one is.
RefreshIsFresh ==
    \A c \in ConnIds, t \in Tables :
        definitions[c][t].data = "Ready" /\ ~OnItsWay(DefinitionOwner(c, t)) =>
            definitions[c][t].version >= asked[c][t]

=============================================================================
