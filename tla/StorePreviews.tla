--------------------------- MODULE StorePreviews ---------------------------
(***************************************************************************)
(* Previews: the first page of a relation, its reordering and the pages that *)
(* extend it (store.rs `preview_table`, `sort_preview`, `load_more`,         *)
(* `forget_preview`, `fetch_page`, `previewed`; pages.rs `PagedResult`).      *)
(*                                                                         *)
(* A relation has RelationSize rows in whatever order it is asked for, and a *)
(* row is named by the order it was read in and its place in that order, so  *)
(* a grid with a hole, a repeat or two orders in it shows as one.            *)
(***************************************************************************)
EXTENDS StoreConnections

Row == [sort : Sort \cup {None}, place : Nat]

PendingPage == [busy : BusyId, page : Page, append : BOOLEAN]

\* `rows` and `columns` are the PagedResult behind a Ready preview; loaded_rows
\* is its length.  columns outlives the rows, as in the code.
Preview == [data : {"absent", "Loading", "Ready", "Failed"},
            sort : Sort \cup {None},
            page : Page,
            nextOffset : Nat,
            columns : Widths \cup {None},
            pending : PendingPage \cup {None},
            rows : Seq(Row),
            lastError : {"None", "reshaped", "failed"},
            exhausted : BOOLEAN]

FirstPage(sort) == [sort |-> sort, offset |-> 0]

NoPreview == [data |-> "absent", sort |-> None, page |-> FirstPage(None),
              nextOffset |-> 0, columns |-> None, pending |-> None, rows |-> <<>>,
              lastError |-> "None", exhausted |-> FALSE]

\* n consecutive rows of a relation, from one offset of one order.
Slice(page, n) == [i \in 1 .. n |-> [sort |-> page.sort, place |-> page.offset + i]]

PendingIds(p) == IF p.pending = None THEN {} ELSE {p.pending.busy}

-----------------------------------------------------------------------------
(* Actions a front-end dispatches.                                          *)

\* fetch_page, on the preview `p` its caller has just written: a new request
\* supersedes whatever was in flight.
FetchPage(c, t, p, page, append) ==
    /\ previews' = [previews EXCEPT ![c][t] =
                      [p EXCEPT !.pending = [busy |-> nextId, page |-> page,
                                             append |-> append]]]
    /\ Begin(PendingIds(p), PreviewOwner(c, t), page)

Unpaged(p) == [p EXCEPT !.data = "Loading", !.rows = <<>>, !.nextOffset = 0,
                        !.exhausted = FALSE]

\* preview_table: open one, or retry one that failed in the order its header
\* shows.  One that is loading or loaded is left alone.
PreviewTable(c, t) ==
    /\ conns[c].session
    /\ LET p == previews[c][t]
       IN \/ /\ p.data = "absent"
             /\ FetchPage(c, t, Unpaged(NoPreview), FirstPage(None), FALSE)
          \/ /\ p.data = "Failed"
             /\ FetchPage(c, t, [Unpaged(p) EXCEPT !.page = FirstPage(p.sort)],
                          FirstPage(p.sort), FALSE)
    /\ UNCHANGED <<connVars, width, definitionVars, queryVars, recordVars,
                   libraryVars, alive, writing>>

\* The direction is the store's: the other one when the column is already
\* the one sorted by.
Toggled(sort, column) ==
    [column |-> column,
     dir |-> IF sort # None /\ sort = [column |-> column, dir |-> "Asc"]
             THEN "Desc" ELSE "Asc"]

\* sort_preview.  Until a page has landed only column 0 can be asked for.
SortPreview(c, t, column) ==
    /\ conns[c].session
    /\ conns[c].sortable
    /\ LET p == previews[c][t]
           sort == Toggled(p.sort, column)
       IN /\ p.data # "absent"
          /\ column < (IF p.columns = None THEN 1 ELSE p.columns)
          /\ FetchPage(c, t, [Unpaged(p) EXCEPT !.sort = sort], FirstPage(sort), FALSE)
    /\ UNCHANGED <<connVars, width, definitionVars, queryVars, recordVars,
                   libraryVars, alive, writing>>

\* load_more
LoadMore(c, t) ==
    /\ conns[c].session
    /\ LET p == previews[c][t]
       IN /\ p.pending = None
          /\ p.data = "Ready"
          /\ ~p.exhausted
          /\ FetchPage(c, t, p, [p.page EXCEPT !.offset = p.nextOffset], TRUE)
    /\ UNCHANGED <<connVars, width, definitionVars, queryVars, recordVars,
                   libraryVars, alive, writing>>

\* forget_preview drops the request the preview is waiting for, and it alone.
ForgetPreview(c, t) ==
    /\ previews[c][t].data # "absent"
    /\ previews' = [previews EXCEPT ![c][t] = NoPreview]
    /\ DropTasks(PendingIds(previews[c][t]))
    /\ UNCHANGED <<connVars, width, definitionVars, queryVars, recordVars,
                   libraryVars, alive, writing>>

-----------------------------------------------------------------------------
(* The database and the tasks.                                              *)

\* DDL in another window.
Alter(t) ==
    /\ \E w \in Widths \ {width[t]} : width' = [width EXCEPT ![t] = w]
    /\ UNCHANGED <<connVars, previews, definitionVars, queryVars, recordVars,
                   libraryVars, kernelVars, alive, writing>>

Remaining(page) ==
    LET left == IF page.offset < RelationSize THEN RelationSize - page.offset ELSE 0
    IN IF left < PageSize THEN left ELSE PageSize

\* A driver either fills the page as far as the relation goes, knowing the
\* total or not, or knows the total and cuts the page short (BigQuery's cap on
\* a response).
PageSizes(page) ==
    {[n |-> Remaining(page), total |-> total] : total \in {None, RelationSize}}
      \cup {[n |-> n, total |-> RelationSize] : n \in 1 .. Remaining(page)}

\* The PreviewTable use case answers.  Ordering by a column the relation no
\* longer has is an error.
PreviewAnswers(t) ==
    /\ t.owner.kind = "Preview"
    /\ \/ /\ t.owner.conn \in alive
          /\ t.req.sort # None => t.req.sort.column < width[t.owner.item]
          /\ \E size \in PageSizes(t.req) :
                Send(t, [tag |-> "Ok", rows |-> Slice(t.req, size.n),
                         total |-> size.total, columns |-> width[t.owner.item]])
       \/ Send(t, [tag |-> Failing(t.owner.conn)])
    /\ UNCHANGED <<connVars, previewVars, definitionVars, queryVars, recordVars,
                   libraryVars, alive, writing>>

-----------------------------------------------------------------------------
(* Events.                                                                  *)

\* PagedResult::append refuses a page whose columns are not the held ones.
Merges(p, append, result) ==
    append /\ p.data = "Ready" /\ p.columns = result.columns

Reshapes(p, append, result) ==
    append /\ p.data = "Ready" /\ p.columns # result.columns

\* Slip: any short page is the last one.
EndsAtAShortPage(page, result) == Len(result.rows) < PageSize

\* A short page is the last one, unless the total says there is more.
Ends(page, result) ==
    /\ Len(result.rows) < PageSize
    /\ result.total = None \/ page.offset + Len(result.rows) >= result.total

\* previewed, when the page is the one waited for and it came.
Landed(p, page, result) ==
    LET append == p.pending.append
    IN [p EXCEPT !.pending = None,
                 !.data = "Ready",
                 !.rows = IF Merges(p, append, result) THEN @ \o result.rows
                                                       ELSE result.rows,
                 !.lastError = IF Reshapes(p, append, result) THEN "reshaped" ELSE "None",
                 !.exhausted = Ends(page, result),
                 !.page = page,
                 !.nextOffset = page.offset + Len(result.rows),
                 !.columns = result.columns]

\* Slip: a failed append is remembered as still on its way.
MissedStillPending(p) ==
    IF p.pending.append /\ p.data = "Ready"
    THEN [p EXCEPT !.lastError = "failed"]
    ELSE [p EXCEPT !.pending = None, !.data = "Failed", !.rows = <<>>,
                   !.lastError = "None"]

\* Slip: what is right for a failed append is done for every failed page.
MissedAlikeForAll(p) == [p EXCEPT !.pending = None, !.lastError = "failed"]

\* previewed, when it did not: a failed append leaves the rows usable.
Missed(p) ==
    IF p.pending.append /\ p.data = "Ready"
    THEN [p EXCEPT !.pending = None, !.lastError = "failed"]
    ELSE [p EXCEPT !.pending = None, !.data = "Failed", !.rows = <<>>,
                   !.lastError = "None"]

\* Slip: whatever arrives while something is awaited is taken for it.
AwaitsAnything(p, page) == p.pending # None

\* The preview's own record of what it waits for is the authority.
Awaits(p, page) == p.pending # None /\ p.pending.page = page

\* previewed
Previewed ==
    /\ Receive("Preview")
    /\ LET event == Head(events)
           c == event.owner.conn
           t == event.owner.item
           p == previews[c][t]
           tag == event.result.tag
       IN \/ /\ ~Awaits(p, event.req)
             /\ UNCHANGED <<previews, conns>>
          \/ /\ Awaits(p, event.req)
             /\ tag = "Ok"
             /\ previews' = [previews EXCEPT ![c][t] = Landed(p, event.req, event.result)]
             /\ UNCHANGED conns
          \/ /\ Awaits(p, event.req)
             /\ tag # "Ok"
             /\ previews' = [previews EXCEPT ![c][t] = Missed(p)]
             /\ IF tag = "SessionClosed" THEN SessionDied(c) ELSE UNCHANGED conns
    /\ UNCHANGED <<tree, width, definitionVars, queryVars, recordVars,
                   libraryVars, alive, writing>>

-----------------------------------------------------------------------------
(* Properties.                                                              *)

\* A preview that spins is waiting, and never for a page nobody is fetching: the
\* request it records is a running task's or an event's still in the channel,
\* whatever a stale page, a cancel of another request or a dead session did.
PreviewSpinnersAreAnswered ==
    \A c \in ConnIds, t \in Tables :
        LET p == previews[c][t]
        IN /\ p.data = "Loading" => p.pending # None
           /\ p.pending # None =>
                 \/ \E k \in tasks : k.id = p.pending.busy /\ k.req = p.pending.page
                 \/ \E i \in DOMAIN events : /\ events[i].id = p.pending.busy
                                             /\ events[i].req = p.pending.page

\* What a grid draws is consecutive rows in one order -- the order its header
\* shows -- ending where the next page starts, and one that says there are no more
\* has shown the last: no interleaving of sorts, pages, cancels, retries, stale
\* replies, short pages and DDL gives it a hole, a repeat, two orders or an end
\* before the end.
GridIsContiguous ==
    \A c \in ConnIds, t \in Tables :
        LET p == previews[c][t]
        IN /\ p.data = "Ready" =>
                 /\ p.page.sort = p.sort
                 /\ \A i \in DOMAIN p.rows :
                       /\ p.rows[i].sort = p.sort
                       /\ p.rows[i].place = (p.nextOffset - Len(p.rows)) + i
           /\ p.exhausted => p.nextOffset >= RelationSize

\* Until it is forgotten, reordered or visibly replaced, a preview never loses
\* a row it has drawn: a failed or cancelled page leaves them where they were.
DrawnRowsStay ==
    [][\A c \in ConnIds, t \in Tables :
          LET p == previews[c][t]
              q == previews'[c][t]
          IN p.data = "Ready" /\ q.data = "Ready" /\ q.lastError # "reshaped" =>
                /\ Len(p.rows) <= Len(q.rows)
                /\ \A i \in DOMAIN p.rows : q.rows[i] = p.rows[i]]_previews

\* store.rs, load_more guards against "the second page shown as the first,
\* with nothing to say the rows before it are missing": a grid that does not
\* start at the relation's first row has to say so.
MissingRowsAreSaid ==
    \A c \in ConnIds, t \in Tables :
        LET p == previews[c][t]
        IN p.data = "Ready" /\ p.lastError # "reshaped" =>
              p.nextOffset = Len(p.rows)

=============================================================================
