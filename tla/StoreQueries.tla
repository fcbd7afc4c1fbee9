---------------------------- MODULE StoreQueries ----------------------------
(***************************************************************************)
(* Queries and the history kept of them (store.rs `run_query`,               *)
(* `estimate_query`, `approve_query`, `forget_query`, `ran`, `estimated`,    *)
(* `record_start`, `recorded`, `record_end`, `write_outcome`; the RunQuery,  *)
(* EstimateQuery and RunApproved use cases; the gate of core's sql.rs).      *)
(*                                                                         *)
(* The history row is written beside the query: inserting it and settling it *)
(* are calls on the blocking pool, which nothing aborts, and `runs` is what  *)
(* the store remembers between them.                                         *)
(***************************************************************************)
EXTENDS StoreConnections

Outcomes == {"Ok", "Refused", "Failed", "Cancelled"}

\* A query as its view has it.  `needs` is needs_approval; "forgotten" is an
\* id whose query has gone, which no caller names again.
Query == [data : {"absent", "Loading", "Idle", "Ready", "Failed", "forgotten"},
          conn : ConnIds \cup {None},
          sql : Statements \cup {None},
          needs : BOOLEAN]

\* A query is run once, and once more when somebody approves it: a history row
\* is named by its query and which of the two it is for.
Runs == {"Run", "Approved"}

\* Recording: Starting(outcome held back), or Row(the row being kept).
Recording == [state : {"Starting"}, held : Outcomes \cup {None}]
               \cup [state : {"Row"}, run : Runs]

NoQuery == [data |-> "absent", conn |-> None, sql |-> None, needs |-> FALSE]

Known(q) == queries[q].data \notin {"absent", "forgotten"}

\* Which of its runs a query is in.
CurrentRun(q) == IF q \in approved THEN "Approved" ELSE "Run"

-----------------------------------------------------------------------------
(* Recording.  Each is part of the handler that calls it.                    *)

\* record_start: insert a row and remember that it is being written.
RecordStart(q, run) ==
    IF Library
    THEN /\ runs' = [runs EXCEPT ![q] = [state |-> "Starting", held |-> None]]
         /\ writing' = writing \cup {[call |-> "started", query |-> q,
                                      run |-> run, outcome |-> None]}
    ELSE UNCHANGED <<runs, writing>>

\* write_outcome
Settling(q, run, outcome) ==
    [call |-> "settled", query |-> q, run |-> run, outcome |-> outcome]

HasRow(q) == runs[q] # None /\ runs[q].state = "Row"

\* Slip: an end that comes before its row is forgotten.
EndIsForgotten(q, outcome) == None

\* Slip: the row is kept once its outcome has been handed over.
RowIsKept(q, outcome) ==
    IF runs[q] = None \/ HasRow(q) THEN runs[q]
    ELSE [state |-> "Starting", held |-> outcome]

\* `runs` forgets a row as it hands it over, and holds the outcome until there
\* is one.
AfterEnd(q, outcome) ==
    IF runs[q] = None \/ HasRow(q) THEN None
    ELSE [state |-> "Starting", held |-> outcome]

\* record_end, for every query in `qs` at once.
RecordEnd(qs, outcome) ==
    /\ runs' = [q \in QueryIds |-> IF q \in qs THEN AfterEnd(q, outcome) ELSE runs[q]]
    /\ writing' = writing \cup
                    {Settling(q, runs[q].run, outcome) : q \in {q \in qs : HasRow(q)}}
    /\ ended' = ended \cup
                  {[query |-> q, run |-> CurrentRun(q), outcome |-> outcome] : q \in qs}

-----------------------------------------------------------------------------
(* Actions a front-end dispatches.                                          *)

\* run_query
RunQuery(c, q, sql) ==
    /\ conns[c].session
    /\ queries[q].data = "absent"
    /\ queries' = [queries EXCEPT ![q] = [data |-> "Loading", conn |-> c,
                                          sql |-> sql, needs |-> FALSE]]
    /\ RecordStart(q, "Run")
    /\ Begin({}, QueryOwner(q), "Run")
    /\ UNCHANGED <<connVars, previewVars, definitionVars, sent, approved, ended,
                   recordVars, libraryVars, alive>>

\* estimate_query: the same, with nothing recorded.
EstimateQuery(c, q, sql) ==
    /\ conns[c].session
    /\ queries[q].data = "absent"
    /\ queries' = [queries EXCEPT ![q] = [data |-> "Loading", conn |-> c,
                                          sql |-> sql, needs |-> FALSE]]
    /\ Begin({}, QueryOwner(q), "Estimate")
    /\ UNCHANGED <<connVars, previewVars, definitionVars, runs, sent, approved,
                   ended, recordVars, libraryVars, alive, writing>>

\* Slip: the question is still there after it was answered.
ApprovedYetAsking(query) == [query EXCEPT !.data = "Loading"]

Approve(query) == [query EXCEPT !.needs = FALSE, !.data = "Loading"]

\* approve_query takes the question as it answers it, and starts a second row.
ApproveQuery(q) ==
    /\ Known(q)
    /\ conns[queries[q].conn].session
    /\ queries[q].needs
    /\ queries' = [queries EXCEPT ![q] = Approve(@)]
    /\ approved' = approved \cup {q}
    /\ RecordStart(q, "Approved")
    /\ Begin({}, QueryOwner(q), "Approved")
    /\ UNCHANGED <<connVars, previewVars, definitionVars, sent, ended, recordVars,
                   libraryVars, alive>>

\* forget_query leaves `runs` alone.
ForgetQuery(q) ==
    /\ Known(q)
    /\ queries' = [queries EXCEPT ![q].data = "forgotten", ![q].needs = FALSE]
    /\ DropTasks(IdsOf(Rows(QueryOwner(q))))
    /\ UNCHANGED <<connVars, previewVars, definitionVars, runs, sent, approved,
                   ended, recordVars, libraryVars, alive, writing>>

-----------------------------------------------------------------------------
(* The server and the tasks.                                                *)

\* Slip: a statement that may cost too much is asked about whatever it does.
GateOnBudgetAlone(sql, access) ==
    IF Budgeted /\ sql.dear THEN "NeedsApproval" ELSE "Execute"

\* What within() decides, from the access the connection had.
Gate(sql, access) ==
    IF access = "ReadOnly" /\ sql.writes THEN "Refused"
    ELSE IF Budgeted /\ sql.dear THEN "NeedsApproval"
    ELSE "Execute"

\* What the use case does with its query's statement once it is estimated.
Verdict(t) ==
    LET query == queries[t.owner.item]
    IN IF t.req = "Run" THEN Gate(query.sql, conns[query.conn].access)
       ELSE IF t.req = "Approved" THEN "Execute"
       ELSE IF conns[query.conn].access = "ReadOnly" /\ query.sql.writes THEN "Refused"
       ELSE "Estimated"

\* The statement reaches the server, which executes it, and answers.
ServerExecutes(t) ==
    /\ t.owner.kind = "Query"
    /\ t.got = None
    /\ queries[t.owner.item].conn \in alive
    /\ Verdict(t) = "Execute"
    /\ sent' = [sent EXCEPT ![t.owner.item] = @ + 1]
    /\ \E tag \in {"Ok", "Err"} : Answer(t, [tag |-> tag])
    /\ UNCHANGED <<connVars, previewVars, definitionVars, queries, runs, approved,
                   ended, recordVars, libraryVars, alive, writing>>

\* The use case ends without executing anything: the statement is refused, is
\* over the budget, was only to be estimated, does not parse, or the estimate
\* fails.
QueryStops(t) ==
    /\ t.owner.kind = "Query"
    /\ t.got = None
    /\ \/ /\ queries[t.owner.item].conn \in alive
          /\ Verdict(t) \in {"Refused", "NeedsApproval", "Estimated"}
          /\ Answer(t, [tag |-> Verdict(t)])
       \/ Answer(t, [tag |-> Failing(queries[t.owner.item].conn)])
    /\ UNCHANGED <<connVars, previewVars, definitionVars, queryVars, recordVars,
                   libraryVars, alive, writing>>

\* The answer is sent to the store.
QuerySends(t) ==
    /\ t.owner.kind = "Query"
    /\ t.got # None
    /\ Send(t, t.got)
    /\ UNCHANGED <<connVars, previewVars, definitionVars, queryVars, recordVars,
                   libraryVars, alive, writing>>

-----------------------------------------------------------------------------
(* Events.                                                                  *)

\* How `ran` and `estimated` leave the query.
DataAfter(tag) ==
    CASE tag = "Ok" -> "Ready"
      [] tag \in {"NeedsApproval", "Estimated"} -> "Idle"
      [] OTHER -> "Failed"

OutcomeOf(tag) ==
    CASE tag = "Ok" -> "Ok"
      [] tag = "NeedsApproval" -> "Refused"
      [] OTHER -> "Failed"

\* ran and estimated.  A reply for a forgotten query is dropped; nothing else
\* about the query is compared with it.  Neither tells a session that has died.
Ran ==
    /\ Receive("Query")
    /\ LET q == Head(events).owner.item
           tag == Head(events).result.tag
           estimate == Head(events).req = "Estimate"
       IN \/ /\ ~Known(q)
             /\ UNCHANGED <<queryVars, writing>>
          \/ /\ Known(q)
             /\ queries' = [queries EXCEPT ![q].data = DataAfter(tag),
                                           ![q].needs = @ \/ tag = "NeedsApproval"]
             /\ IF estimate THEN UNCHANGED <<runs, writing, ended>>
                            ELSE RecordEnd({q}, OutcomeOf(tag))
             /\ UNCHANGED <<sent, approved>>
    /\ UNCHANGED <<connVars, previewVars, definitionVars, recordVars,
                   libraryVars, alive>>

\* recorded: nothing more is kept of a run whose row could not be written; a
\* run still going is remembered with its row; an outcome waiting for the row
\* is written; a row nothing waits for stays as it is.
Recorded ==
    /\ Receive("Run")
    /\ LET q == Head(events).owner.item
           run == Head(events).req
           ok == Head(events).result.tag = "Ok"
           starting == runs[q] # None /\ ~HasRow(q)
       IN \/ /\ ~ok \/ ~starting
             /\ runs' = [runs EXCEPT ![q] = None]
             /\ UNCHANGED writing
          \/ /\ ok /\ starting /\ runs[q].held = None
             /\ runs' = [runs EXCEPT ![q] = [state |-> "Row", run |-> run]]
             /\ UNCHANGED writing
          \/ /\ ok /\ starting /\ runs[q].held # None
             /\ runs' = [runs EXCEPT ![q] = None]
             /\ writing' = writing \cup {Settling(q, run, runs[q].held)}
    /\ UNCHANGED <<connVars, previewVars, definitionVars, queries, sent, approved,
                   ended, recordVars, libraryVars, alive>>

-----------------------------------------------------------------------------
(* The blocking pool and the history table.                                  *)

\* record_start's call answers: the row exists, or the library refused.
RowInserted(w) ==
    /\ w.call = "started"
    /\ writing' = writing \ {w}
    /\ \E tag \in {"Ok", "Err"} :
          /\ history' = IF tag = "Err" THEN history
                        ELSE history \cup {[query |-> w.query, run |-> w.run,
                                            outcome |-> None]}
          /\ events' = Append(events, [id |-> None, owner |-> RunOwner(w.query),
                                       req |-> w.run, result |-> [tag |-> tag]])
    /\ UNCHANGED <<connVars, previewVars, definitionVars, queryVars, libraryVars,
                   busy, tasks, nextId, alive>>

\* write_outcome's call ends: the row carries the outcome, or the library
\* refused, which costs a line in the log.
RowSettled(w) ==
    /\ w.call = "settled"
    /\ \/ /\ writing' = writing \ {w}
          /\ history' = {IF r.query = w.query /\ r.run = w.run
                         THEN [r EXCEPT !.outcome = w.outcome] ELSE r : r \in history}
       \/ /\ writing' = (writing \ {w}) \cup {[w EXCEPT !.call = "refused"]}
          /\ UNCHANGED history
    /\ UNCHANGED <<connVars, previewVars, definitionVars, queryVars, libraryVars,
                   kernelVars, alive>>

-----------------------------------------------------------------------------
(* Properties.                                                              *)

\* Approving twice, cancelling and approving, answers that arrive late: none of
\* it makes the server execute a statement a second time.
AtMostOnce == \A q \in QueryIds : sent[q] <= 1

\* The server executes nothing the gate stops: no statement over the budget
\* that nobody approved, and no write on a read-only connection, approved or not.
NothingUnapproved ==
    \A q \in QueryIds :
        sent[q] > 0 =>
            /\ Budgeted /\ queries[q].sql.dear => q \in approved
            /\ queries[q].sql.writes => conns[queries[q].conn].access = "ReadWrite"

\* A query waiting for a yes has not been sent, and nothing is running for it:
\* the question is asked before the money is spent.
QuestionBeforeMoney ==
    \A q \in QueryIds :
        queries[q].needs => /\ sent[q] = 0
                           /\ ~\E t \in tasks : t.owner = QueryOwner(q)

\* A history row is settled once: two ends of the same run -- a cancel and a
\* reply that was already in the channel -- do not both write it.
SettledOnce ==
    [][\A r \in history : r.outcome # None => r \in history']_history

\* Nothing about a query is still in flight.
Quiet(q) ==
    /\ ~OnItsWay(QueryOwner(q))
    /\ ~\E i \in DOMAIN events : events[i].owner = RunOwner(q)
    /\ ~\E w \in writing : w.query = q /\ w.call # "refused"

\* A query comes to an end and so does what is said of it.  One that spins has a
\* reply coming; one that ended and was neither forgotten nor approved leaves no
\* history row that looks like it is still going, whether the row or the end came
\* first and whichever of reply, cancel and disconnect ended it.
RunsComeToAnEnd ==
    /\ \A q \in QueryIds : queries[q].data = "Loading" => OnItsWay(QueryOwner(q))
    /\ \A r \in history :
          Known(r.query) /\ r.query \notin approved /\ Quiet(r.query) =>
              \/ r.outcome # None
              \/ \E w \in writing : w.call = "refused" /\ w.query = r.query

\* store.rs, approve_query: "A second run, so a second row: the first is the
\* one that was refused and is still true."  Every settled row says how the run
\* it is for ended.
RowKeepsItsOwnOutcome ==
    \A r \in history : r.outcome # None => r \in ended

=============================================================================
