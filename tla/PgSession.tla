----------------------------- MODULE PgSession ------------------------------
(***************************************************************************)
(* A PostgreSQL session under its actor (crates/sqlake-driver-postgres, lib.rs *)
(* and query.rs).  One mutex, `cancels`, is held while anything runs on the    *)
(* connection; dropping a statement half-way hands it to a request that goes     *)
(* down a second connection and names the backend, not the statement.           *)
(*                                                                         *)
(* The actor's actions are SessionActor's, each joined with what it does here.  *)
(* The server works through one connection in order, at its own pace.           *)
(***************************************************************************)
EXTENDS SessionActor, FiniteSets

VARIABLES
    lock,     \* who PgSession::cancels is held for: a call, or the request that cancels it
    phase,    \* how far the call being served has got
    backend,  \* what the server has been sent and not finished, oldest first
    requests, \* cancel requests being sent: whose statement each was dropped with
    hit       \* [by, of]: a request for `by` went out while the server was on `of`

pgVars == <<lock, phase, backend, requests, hit>>
allVars == <<vars, pgVars>>

\* A call waits for the lock, has sent its only query (for a statement, its
\* Prepare), or has sent the statement itself with the guard armed.
Phases == {"none", "locking", "asking", "armed"}

Work == [by : Callers, armed : BOOLEAN]

PgTypeOK ==
    /\ lock \in Callers \cup {None}
    /\ phase \in Phases
    /\ backend \in Seq(Work)
    /\ requests \in SUBSET Callers
    /\ hit \in SUBSET [by : Callers, of : Callers]

PgInit ==
    /\ Init
    /\ lock = None
    /\ phase = "none"
    /\ backend = <<>>
    /\ requests = {}
    /\ hit = {}

\* Whether the server has finished what the call being served sent last.
Finished(t) ==
    \A i \in 1 .. Len(backend) : backend[i] # [by |-> t, armed |-> phase = "armed"]

\* A step of the actor that is none of the driver's business.
Elsewhere == UNCHANGED pgVars

\* A call to the driver begins by taking the lock, and sends its query.
PgRecv ==
    /\ Recv
    /\ phase' = IF serving' # None THEN "locking" ELSE "none"
    /\ UNCHANGED <<lock, backend, requests, hit>>

PgLock ==
    /\ phase = "locking"
    /\ lock = None
    /\ lock' = serving
    /\ phase' = "asking"
    /\ backend' = Append(backend, [by |-> serving, armed |-> FALSE])
    /\ UNCHANGED <<vars, requests, hit>>

\* The Prepare is answered: the guard is armed, and the statement goes out.
PgExecutes ==
    /\ phase = "asking"
    /\ caller[serving].call = "execute"
    /\ Finished(serving)
    /\ phase' = "armed"
    /\ backend' = Append(backend, [by |-> serving, armed |-> TRUE])
    /\ UNCHANGED <<vars, lock, requests, hit>>

\* The server finishes, fails or cancels what it is on.
ServerEnds ==
    /\ backend # <<>>
    /\ backend' = Tail(backend)
    /\ UNCHANGED <<vars, lock, phase, requests, hit>>

\* Slip: the guard keeps the token and lets go of the lock.
LockIsDropped(t) == lock' = None /\ requests' = requests \cup {t}

\* StopsTheQuery::drop, armed: the lock goes with the request.
LockIsHandedOver(t) == requests' = requests \cup {t} /\ UNCHANGED lock

\* What dropping the call's future does, wherever it has got to.
Dropped(t) ==
    /\ phase' = "none"
    /\ UNCHANGED <<backend, hit>>
    /\ \/ phase = "locking" /\ UNCHANGED <<lock, requests>>
       \/ phase = "asking" /\ lock' = None /\ UNCHANGED requests
       \/ phase = "armed" /\ LockIsHandedOver(t)

\* A call returns: a read when it was answered, a statement when the server
\* refused to prepare it, when it has its last row, when it has as many as it
\* may keep while the server still has more, or when a row fails, armed.
PgAnswers(t) ==
    /\ Answers(t)
    /\ phase' = "none"
    /\ UNCHANGED <<backend, hit>>
    /\ \/ phase = "asking" /\ Finished(t) /\ lock' = None /\ UNCHANGED requests
       \/ phase = "armed" /\ lock' = None /\ UNCHANGED requests
       \/ phase = "armed" /\ Finished(t) /\ LockIsHandedOver(t)

PgUnwinds(t) == Unwinds(t) /\ Dropped(t)

PgPanics(t) == Panics(t) /\ Dropped(t)

\* The request is written.  What it stops is whatever the server is on.
RequestIsSent(t) ==
    /\ t \in requests
    /\ requests' = requests \ {t}
    /\ lock' = None
    /\ hit' = hit \cup (IF backend = <<>> THEN {}
                          ELSE {[by |-> t, of |-> Head(backend).by]})
    /\ UNCHANGED <<vars, phase, backend>>

\* Slip: nothing bounds what comes after the second connection is open.
NeverGivesUp(t) == FALSE

\* It cannot be sent, or DEADLINE passes first.
RequestGivesUp(t) ==
    /\ t \in requests
    /\ requests' = requests \ {t}
    /\ lock' = None
    /\ UNCHANGED <<vars, phase, backend, hit>>

-----------------------------------------------------------------------------

Tasks(t) ==
    \/ Spawn(t) \/ End(t) \/ Enter(t) \/ Leave(t)
    \/ \E call \in Calls : Ask(t, call)

Driver(t) == PgAnswers(t) \/ PgUnwinds(t)

PgNext ==
    \/ \E t \in Callers :
          \/ Tasks(t) /\ Elsewhere
          \/ Driver(t) \/ PgPanics(t)
          \/ RequestIsSent(t) \/ RequestGivesUp(t)
    \/ (Disconnect \/ Forget \/ Disconnected \/ Closed) /\ Elsewhere
    \/ PgRecv
    \/ PgLock
    \/ PgExecutes
    \/ ServerEnds

PgSpec == PgInit /\ [][PgNext]_allVars

\* The actor and the tasks are polled, a task that holds a handle goes on to
\* its next call or ends, one that is aborted is dropped, the server finishes
\* what it was sent, and a cancel request that is not sent by DEADLINE is given
\* up on.  Nobody has to be cancelled, no request has to get through, no session
\* has to be closed, and no driver has to panic.
PgFairness ==
    /\ WF_allVars(PgRecv)
    /\ WF_allVars((Disconnected \/ Closed) /\ Elsewhere)
    /\ WF_allVars(PgLock)
    /\ WF_allVars(PgExecutes)
    /\ WF_allVars(ServerEnds)
    /\ \A t \in Callers :
          /\ WF_allVars((End(t) \/ Enter(t) \/ \E call \in Calls : Ask(t, call)) /\ Elsewhere)
          /\ WF_allVars(aborting /\ Leave(t) /\ Elsewhere)
          /\ WF_allVars(Driver(t))
          /\ WF_allVars(RequestGivesUp(t))

PgFairSpec == PgSpec /\ PgFairness

-----------------------------------------------------------------------------
(* Properties.                                                              *)

\* Every variable of the actor and of the connection has its type.
SessionTypeOK == TypeOK /\ PgTypeOK

\* query.rs, StopsTheQuery: "A cancel names the backend rather than the
\* statement, so one still opening its socket when the next query starts would
\* cancel *that*."  Whatever is dropped, capped, given up on or failed before,
\* the server is never on anybody else's query when a request goes out.
CancelHitsItsOwn == \A h \in hit : h.by = h.of

\* A session that is closed finishes what it has begun: a caller is told
\* SessionClosed after its statement was given to the driver only where the
\* driver took the actor with it.
ClosingLosesNothing ==
    [][\A t \in started :
          caller[t].at # "refused" /\ caller'[t].at = "refused" =>
              actor = "running"]_vars

\* Nobody waits for ever, for room, for an answer or behind a cancel request:
\* every call is answered or refused, or its caller leaves.  And the session of a
\* closed connection ends, even where the channel was full and the Close was
\* dropped: nobody is left who could ask it for anything.
EveryCallIsAnswered ==
    /\ \A t \in Callers :
          /\ caller[t].at = "sending" ~> caller[t].at # "sending"
          /\ caller[t].at = "waiting" ~> caller[t].at # "waiting"
    /\ aborting ~> actor = "stopped"

=============================================================================
