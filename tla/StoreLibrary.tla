---------------------------- MODULE StoreLibrary ----------------------------
(***************************************************************************)
(* Templates and the search through the history (store.rs `with_library`,    *)
(* `library_answered`, `search_history`, `searched`).                        *)
(*                                                                         *)
(* A template operation is a write and then a read on one blocking task,     *)
(* which runs to its end whatever becomes of the task that waits for it.     *)
(***************************************************************************)
EXTENDS StoreKernel

Templates == [data : {"Idle", "Loading", "Ready", "Failed"}, list : SUBSET Saved,
              failed : BOOLEAN]

\* `found` is the terms the rows in a Ready search answer.
Search == [terms : Terms \cup {None},
           data : {"Idle", "Loading", "Ready", "Failed"},
           found : Terms \cup {None}]

Items(op) == IF op = "Load" THEN {None} ELSE Saved

-----------------------------------------------------------------------------
(* Actions a front-end dispatches.                                          *)

\* with_library.  The list on screen stays while the next one is read.  With no
\* library both the list and the attempt say so.
WithLibrary(op, item) ==
    /\ \/ /\ Library
          /\ templates' = [templates EXCEPT !.failed = FALSE,
                                            !.data = IF @ = "Ready" THEN @ ELSE "Loading"]
          /\ Begin({}, TemplatesOwner, op)
          /\ jobs' = jobs \cup {[id |-> nextId, op |-> op, item |-> item,
                                 wrote |-> None]}
       \/ /\ ~Library
          /\ templates' = [data |-> "Failed", list |-> {},
                           failed |-> templates.failed \/ op # "Load"]
          /\ UNCHANGED <<kernelVars, jobs>>
    /\ UNCHANGED <<connVars, previewVars, definitionVars, queryVars, recordVars,
                   search, saved, alive, writing>>

\* search_history: the rows on screen stay, the words change at once, and a
\* search in flight is dropped.
SearchHistory(terms) ==
    /\ \/ /\ Library
          /\ search' = [search EXCEPT !.terms = terms,
                                      !.data = IF @ = "Ready" THEN @ ELSE "Loading"]
          /\ Begin(Superseded(HistoryOwner), HistoryOwner, terms)
       \/ /\ ~Library
          /\ search' = [terms |-> terms, data |-> "Failed", found |-> None]
          /\ UNCHANGED kernelVars
    /\ UNCHANGED <<connVars, previewVars, definitionVars, queryVars, recordVars,
                   templates, saved, jobs, alive, writing>>

-----------------------------------------------------------------------------
(* The blocking pool, the file and the tasks.                                *)

\* Names are unique: saving a taken one and changing a missing one both fail.
Writable(op, item) ==
    \/ op = "Load"
    \/ op = "Save" /\ item \notin saved
    \/ op \in {"Replace", "Delete"} /\ item \in saved

Written(op, item) ==
    CASE op = "Save" -> saved \cup {item}
      [] op = "Delete" -> saved \ {item}
      [] OTHER -> saved

\* The write half: it happens, or the library refuses it.
JobWrites(j) ==
    /\ j.wrote = None
    /\ \E ok \in {Writable(j.op, j.item), j.op = "Load"} :
          /\ jobs' = (jobs \ {j}) \cup {[j EXCEPT !.wrote = ok]}
          /\ saved' = IF ok THEN Written(j.op, j.item) ELSE saved
    /\ UNCHANGED <<connVars, previewVars, definitionVars, queryVars, recordVars,
                   templates, search, kernelVars, alive, writing>>

\* Slip: the answer is built from what the session already has.
ListFromMemory == templates.list

\* The list is read from the file.
ListFromFile == saved

\* The answer goes to the task that waits for the job, if one still does.
Told(t, j, answer) == IF t.id = j.id THEN [t EXCEPT !.got = answer] ELSE t

\* The read half.
JobReads(j) ==
    /\ j.wrote # None
    /\ jobs' = jobs \ {j}
    /\ \E tag \in {"Ok", "Err"} :
          LET answer == [tag |-> tag, wrote |-> j.wrote, item |-> j.item,
                         list |-> ListFromFile]
          IN tasks' = {Told(t, j, answer) : t \in tasks}
    /\ UNCHANGED <<connVars, previewVars, definitionVars, queryVars, recordVars,
                   templates, search, saved, busy, events, nextId, alive, writing>>

LibrarySends(t) ==
    /\ t.owner.kind = "Templates"
    /\ t.got # None
    /\ Send(t, t.got)
    /\ UNCHANGED <<connVars, previewVars, definitionVars, queryVars, recordVars,
                   libraryVars, alive, writing>>

\* A search is a read and no more.
SearchAnswers(t) ==
    /\ t.owner.kind = "History"
    /\ \E tag \in {"Ok", "Err"} : Send(t, [tag |-> tag])
    /\ UNCHANGED <<connVars, previewVars, definitionVars, queryVars, recordVars,
                   libraryVars, alive, writing>>

-----------------------------------------------------------------------------
(* Events.                                                                  *)

\* library_answered.  Nothing compares the list with a later one.
LibraryAnswered ==
    /\ Receive("Templates")
    /\ LET result == Head(events).result
       IN templates' = [data |-> IF result.tag = "Ok" THEN "Ready" ELSE "Failed",
                        list |-> IF result.tag = "Ok" THEN result.list ELSE {},
                        failed |-> ~result.wrote]
    /\ UNCHANGED <<connVars, previewVars, definitionVars, queryVars, recordVars,
                   search, saved, jobs, alive, writing>>

\* Slip: an answer is an answer.
AnswersAnySearch(terms) == TRUE

AnswersTheSearch(terms) == search.terms = terms

\* searched: an answer to words the box no longer holds is dropped.
Searched ==
    /\ Receive("History")
    /\ LET terms == Head(events).req
           ok == Head(events).result.tag = "Ok"
       IN search' = IF ~AnswersTheSearch(terms) THEN search
                    ELSE [search EXCEPT !.data = IF ok THEN "Ready" ELSE "Failed",
                                        !.found = IF ok THEN terms ELSE None]
    /\ UNCHANGED <<connVars, previewVars, definitionVars, queryVars, recordVars,
                   templates, saved, jobs, alive, writing>>

-----------------------------------------------------------------------------
(* Properties.                                                              *)

\* An answer is only ever shown under the words it answers, however many
\* searches were started, dropped, cancelled or answered late around it.
NewestSearchWins ==
    [][search'.found \notin {None, search.found} => search'.found = search'.terms]_search

\* Where nothing is ever deleted, the list that comes back with a save holds
\* what was saved: the write and the read of one operation are one trip.
SaveIsListed ==
    "Delete" \notin LibraryOps =>
    \A i \in DOMAIN events :
        /\ events[i].owner = TemplatesOwner /\ events[i].req = "Save"
        /\ events[i].result.wrote
        =>
            events[i].result.item \in events[i].result.list

=============================================================================
