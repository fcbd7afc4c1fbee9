-------------------------- MODULE SessionContract --------------------------
(***************************************************************************)
(* What a SessionHandle (crates/sqlake-app/src/session.rs) promises the tasks *)
(* that hold a clone of it: one call at the driver at a time, every call       *)
(* answered or refused, a statement whose caller has left not begun, and        *)
(* nothing begun once the session is over.  No queue, no order and no room:     *)
(* SessionActor has those.                                                      *)
(***************************************************************************)

CONSTANTS
    Callers,  \* tasks that may be given a handle
    None      \* the absent value

VARIABLES
    caller,   \* what each task is doing with its handle, and its last call
    serving,  \* whose call is at the driver
    started,  \* whose statement has been given to the driver
    over      \* the session takes no more calls to the driver

vars == <<caller, serving, started, over>>

Calls == {"read", "execute"}

Stages == {"idle", "holding", "open", "refused", "done", "gone"}

TypeOK ==
    /\ caller \in [Callers -> [at : Stages, call : Calls \cup {None}]]
    /\ serving \in Callers \cup {None}
    /\ started \in SUBSET Callers
    /\ over \in BOOLEAN

Init ==
    /\ caller = [t \in Callers |-> [at |-> "idle", call |-> None]]
    /\ serving = None
    /\ started = {}
    /\ over = FALSE

Moves(t, at) == caller' = [caller EXCEPT ![t].at = at]

\* A task is given a clone of the handle, and lets go of it when it ends.
Spawn(t) ==
    /\ caller[t].at = "idle"
    /\ Moves(t, "holding")
    /\ UNCHANGED <<serving, started, over>>

End(t) ==
    /\ caller[t].at = "holding"
    /\ caller[t].call # None
    /\ Moves(t, "done")
    /\ UNCHANGED <<serving, started, over>>

\* A task makes one call, or a read and then a statement.
Asks(t, call) ==
    /\ caller[t].at = "holding"
    /\ caller[t].call \in {None} \cup (IF call = "execute" THEN {"read"} ELSE {})

Ask(t, call) ==
    /\ Asks(t, call)
    /\ \/ caller' = [caller EXCEPT ![t] = [at |-> "open", call |-> call]]
       \/ over /\ caller' = [caller EXCEPT ![t] = [at |-> "refused", call |-> call]]
    /\ UNCHANGED <<serving, started, over>>

\* A task is dropped wherever it is.
Leave(t) ==
    /\ caller[t].at \in {"holding", "open"}
    /\ Moves(t, "gone")
    /\ UNCHANGED <<serving, started, over>>

\* The driver begins a call.  A read may be begun for nobody, a statement not.
Start(t) ==
    /\ ~over
    /\ serving = None
    /\ \/ caller[t].at = "open"
       \/ caller[t].at = "gone" /\ caller[t].call = "read"
    /\ serving' = t
    /\ started' = IF caller[t].call = "execute" THEN started \cup {t} ELSE started
    /\ UNCHANGED <<caller, over>>

\* A call at the driver ends, and its caller hears of it unless it has left.
Finish(t) ==
    /\ serving = t
    /\ serving' = None
    /\ \/ caller[t].at = "open" /\ Moves(t, "holding")
       \/ caller[t].at = "gone" /\ UNCHANGED caller
    /\ UNCHANGED <<started, over>>

\* The session ends between two calls, ...
Closes ==
    /\ ~over
    /\ serving = None
    /\ over' = TRUE
    /\ UNCHANGED <<caller, serving, started>>

\* ... and refuses every call it has not answered; one at the driver too, when
\* that is what ended the session.
Stops ==
    /\ over' = TRUE
    /\ serving' = None
    /\ caller' = [t \in Callers |->
                     IF caller[t].at = "open" THEN [caller[t] EXCEPT !.at = "refused"]
                                              ELSE caller[t]]
    /\ UNCHANGED started

Next ==
    \/ \E t \in Callers :
          \/ Spawn(t) \/ End(t) \/ Leave(t) \/ Start(t) \/ Finish(t)
          \/ \E call \in Calls : Ask(t, call)
    \/ Closes
    \/ Stops

Spec == Init /\ [][Next]_vars

=============================================================================
