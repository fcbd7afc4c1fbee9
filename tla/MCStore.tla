------------------------------ MODULE MCStore -------------------------------
(***************************************************************************)
(* Instances of Store for TLC.  An empty set of nodes, tables, queries or     *)
(* terms leaves out the actions that need one, so that each configuration is  *)
(* about some of the store with whole handlers around it.                     *)
(***************************************************************************)
EXTENDS Store, TLC

\* What a behaviour of PartSpec is about.
VARIABLE part

\* Connections are interchangeable: nothing in the store orders them.
ConnSymmetry == Permutations(ConnIds)

NoCatalogue == [n \in {"root"} |-> {}]

\* A schema with a relation in it.
SmallCatalogue == [n \in {"root", "public", "users"} |->
                     CASE n = "root" -> {"public"}
                       [] n = "public" -> {"users"}
                       [] OTHER -> {}]

\* A relation straight under the connection.
OneTable == [n \in {"root", "users"} |-> IF n = "root" THEN {"users"} ELSE {}]

\* Reads within the budget, over it, and a write over it.
DearRead == [writes |-> FALSE, dear |-> TRUE]
CheapRead == [writes |-> FALSE, dear |-> FALSE]
DearWrite == [writes |-> TRUE, dear |-> TRUE]
AllStatements == {DearRead, CheapRead, DearWrite}
JustDearRead == {DearRead}
JustCheapRead == {CheapRead}

-----------------------------------------------------------------------------
(* The behaviours of the store in which only one part of it is used: the       *)
(* other parts share no state with it but the ids, the tasks and the rows of    *)
(* the status bar, and are checked together by the API service.                 *)

OneConnection == Cardinality({c \in ConnIds : conns'[c].status # "absent"}) <= 1
Unbrowsed == tree' # tree => conns' # conns
EveryoneWrites ==
    \A i \in 1 .. Len(events') :
       (events'[i].owner.kind = "Connection" /\ events'[i].result.tag = "Ok") =>
          events'[i].result.access = "ReadWrite"

InPart ==
    \/ /\ part = "catalogue"
       /\ nextId' < MaxBusy
       /\ EveryoneWrites
       /\ UNCHANGED <<previewVars, queryVars, recordVars, libraryVars>>
    \/ /\ part = "previews"
       /\ OneConnection
       /\ EveryoneWrites
       /\ Unbrowsed
       /\ UNCHANGED <<definitionVars, queryVars, recordVars, libraryVars>>
    \/ /\ part = "queries"
       /\ OneConnection
       /\ Unbrowsed
       /\ UNCHANGED <<previewVars, definitionVars, libraryVars>>

PartInit ==
    /\ Init
    /\ part \in {"catalogue", "previews", "queries"}
    /\ part # "previews" => \A t \in Tables : width[t] = 1

PartSpec == PartInit /\ [][Next /\ InPart /\ UNCHANGED part]_<<vars, part>>

=============================================================================
