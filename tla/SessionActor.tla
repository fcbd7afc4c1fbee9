---------------------------- MODULE SessionActor ----------------------------
(***************************************************************************)
(* The actor that owns one connection's session, and its handle             *)
(* (crates/sqlake-app/src/session.rs): a bounded channel of commands, one    *)
(* command served at a time, a statement that is abandoned when its caller    *)
(* goes, and the two ways the actor ends -- the Close command, and nobody      *)
(* left who holds a handle.  The store holds one handle; every task it spawns  *)
(* for the connection holds a clone until it ends or is aborted.               *)
(*                                                                         *)
(* An operator whose comment starts with "Slip" is not the code's: it is a   *)
(* mistake the properties have to catch if the next operator made it.       *)
(***************************************************************************)
EXTENDS Naturals, Sequences

CONSTANTS
    Callers,  \* tasks that may be given a handle
    Depth,    \* QUEUE_DEPTH
    Close,    \* the Close command
    None      \* the absent value

ASSUME SessionAssumption ==
    /\ Depth \in Nat \ {0}
    /\ Close \notin Callers
    /\ None \notin Callers \cup {"read", "execute"}

VARIABLES
    caller,   \* what each task is doing with its handle, and its last call
    senders,  \* callers waiting for room in the channel, oldest first
    queue,    \* the channel: callers whose command is in it, and Close
    serving,  \* whose command the actor is on
    actor,    \* the actor's task
    owner,    \* whether the store still holds a handle
    aborting, \* whether the connection's tasks have been aborted
    started   \* whose statement has been given to the driver

vars == <<caller, senders, queue, serving, actor, owner, aborting, started>>

Calls == {"read", "execute"}

Stages == {"idle", "holding", "sending", "waiting", "refused", "done", "gone"}

TypeOK ==
    /\ caller \in [Callers -> [at : Stages, call : Calls \cup {None}]]
    /\ senders \in Seq(Callers)
    /\ queue \in Seq(Callers \cup {Close})
    /\ Len(queue) <= Depth
    /\ serving \in Callers \cup {None}
    /\ actor \in {"running", "closing", "stopped"}
    /\ owner \in BOOLEAN
    /\ aborting \in BOOLEAN
    /\ started \in SUBSET Callers

\* SessionHandle::spawn.
Init ==
    /\ caller = [t \in Callers |-> [at |-> "idle", call |-> None]]
    /\ senders = <<>>
    /\ queue = <<>>
    /\ serving = None
    /\ actor = "running"
    /\ owner = TRUE
    /\ aborting = FALSE
    /\ started = {}

Moves(t, at) == caller' = [caller EXCEPT ![t].at = at]

Holds(t) == caller[t].at \in {"holding", "sending", "waiting"}

\* The channel's permits are handed to those who wait for one before anybody else.
Room == Len(queue) + Len(senders) < Depth

\* A sequence without its element at i.
Without(s, i) == [j \in 1 .. Len(s) - 1 |-> s[IF j < i THEN j ELSE j + 1]]

-----------------------------------------------------------------------------
(* The store and its tasks.                                                 *)

\* A handler clones the store's handle into a task.
Spawn(t) ==
    /\ owner
    /\ caller[t].at = "idle"
    /\ Moves(t, "holding")
    /\ UNCHANGED <<senders, queue, serving, actor, owner, aborting, started>>

End(t) ==
    /\ caller[t].at = "holding"
    /\ caller[t].call # None
    /\ Moves(t, "done")
    /\ UNCHANGED <<senders, queue, serving, actor, owner, aborting, started>>

\* A task makes one call, or asks for an estimate and then runs the statement.
Asks(t, call) ==
    /\ caller[t].at = "holding"
    /\ caller[t].call \in {None} \cup (IF call = "execute" THEN {"read"} ELSE {})

\* tx.send: refused once the receiver is gone, and it waits for room.
Ask(t, call) ==
    /\ Asks(t, call)
    /\ \/ /\ actor = "stopped"
          /\ caller' = [caller EXCEPT ![t] = [at |-> "refused", call |-> call]]
          /\ UNCHANGED <<senders, queue>>
       \/ /\ actor # "stopped" /\ Room
          /\ caller' = [caller EXCEPT ![t] = [at |-> "waiting", call |-> call]]
          /\ queue' = Append(queue, t)
          /\ UNCHANGED senders
       \/ /\ actor # "stopped" /\ ~Room
          /\ caller' = [caller EXCEPT ![t] = [at |-> "sending", call |-> call]]
          /\ senders' = Append(senders, t)
          /\ UNCHANGED queue
    /\ UNCHANGED <<serving, actor, owner, aborting, started>>

\* Those longest in line own the free places, and take them as they are polled.
Enter(t) ==
    /\ \E i \in 1 .. Len(senders) :
          /\ senders[i] = t
          /\ Len(queue) + i <= Depth
          /\ senders' = Without(senders, i)
    /\ queue' = Append(queue, t)
    /\ Moves(t, "waiting")
    /\ UNCHANGED <<serving, actor, owner, aborting, started>>

\* A task is aborted: whatever it holds is dropped, what it sent is not.
Leave(t) ==
    /\ Holds(t)
    /\ IF caller[t].at = "sending"
         THEN \E i \in 1 .. Len(senders) :
                 senders[i] = t /\ senders' = Without(senders, i)
         ELSE UNCHANGED senders
    /\ Moves(t, "gone")
    /\ UNCHANGED <<queue, serving, actor, owner, aborting, started>>

\* Slip: a session that could not be told to close is kept.
KeptIfFull == ~Room

\* The store lets go of its handle whether or not Close went in.
Kept == FALSE

\* disconnect: try_send, which a full channel drops, and every task is aborted.
Disconnect ==
    /\ owner
    /\ owner' = Kept
    /\ aborting' = TRUE
    /\ queue' = IF actor # "stopped" /\ Room THEN Append(queue, Close) ELSE queue
    /\ UNCHANGED <<caller, senders, serving, actor, started>>

\* session_died: the store drops its handle once it has heard of the death.
Forget ==
    /\ owner
    /\ actor = "stopped"
    /\ \E t \in Callers : caller[t].at = "refused"
    /\ owner' = FALSE
    /\ UNCHANGED <<caller, senders, queue, serving, actor, aborting, started>>

-----------------------------------------------------------------------------
(* The actor.                                                               *)

\* Slip: the two branches of the select are looked at in any order.
DrivenAnyway(t) == FALSE

\* The biased select looks at the caller first.
Abandoned(t) == caller[t].call = "execute" /\ caller[t].at = "gone"

\* Slip: Close is listened for beside the call at the driver.
IdleOrTold == serving = None \/ (queue # <<>> /\ Head(queue) = Close)

\* The actor awaits each call before it takes the next command.
Idle == serving = None

\* rx.recv, and the first poll of what it gave.
Recv ==
    /\ actor = "running"
    /\ Idle
    /\ queue # <<>>
    /\ queue' = Tail(queue)
    /\ LET cmd == Head(queue)
       IN \/ cmd = Close /\ actor' = "closing" /\ UNCHANGED <<serving, started>>
          \/ /\ cmd # Close
             /\ serving' = IF Abandoned(cmd) THEN None ELSE cmd
             /\ started' = IF ~Abandoned(cmd) /\ caller[cmd].call = "execute"
                             THEN started \cup {cmd} ELSE started
             /\ UNCHANGED actor
    /\ UNCHANGED <<caller, senders, owner, aborting>>

\* rx.recv answers None: every handle is gone and the channel is empty.
Disconnected ==
    /\ actor = "running"
    /\ serving = None
    /\ queue = <<>>
    /\ ~owner
    /\ \A t \in Callers : ~Holds(t)
    /\ actor' = "closing"
    /\ UNCHANGED <<caller, senders, queue, serving, owner, aborting, started>>

\* The driver's future is done, and the reply goes to whoever still waits for it.
Answers(t) ==
    /\ serving = t
    /\ serving' = None
    /\ caller' = [caller EXCEPT ![t].at = IF @ = "waiting" THEN "holding" ELSE @]
    /\ UNCHANGED <<senders, queue, actor, owner, aborting, started>>

\* The caller of a running statement goes: the driver's future is dropped.
Unwinds(t) ==
    /\ serving = t
    /\ Abandoned(t)
    /\ serving' = None
    /\ UNCHANGED <<caller, senders, queue, actor, owner, aborting, started>>

\* The receiver is dropped, and with it every command in the channel.
Stops ==
    /\ actor' = "stopped"
    /\ serving' = None
    /\ queue' = <<>>
    /\ senders' = <<>>
    /\ caller' = [t \in Callers |->
                     IF caller[t].at \in {"sending", "waiting"}
                       THEN [caller[t] EXCEPT !.at = "refused"] ELSE caller[t]]
    /\ UNCHANGED <<owner, aborting, started>>

\* session.close has returned, which is when `run` does.
Closed == actor = "closing" /\ Stops

\* The driver panics under a call and takes the actor's task with it.
Panics(t) == serving = t /\ Stops

-----------------------------------------------------------------------------

Next ==
    \/ \E t \in Callers :
          \/ Spawn(t) \/ End(t) \/ Enter(t) \/ Leave(t)
          \/ Answers(t) \/ Unwinds(t) \/ Panics(t)
          \/ \E call \in Calls : Ask(t, call)
    \/ Disconnect
    \/ Forget
    \/ Recv
    \/ Disconnected
    \/ Closed

Spec == Init /\ [][Next]_vars

-----------------------------------------------------------------------------
(* What the handle promises.                                                *)

\* Waiting for room and waiting for an answer are the same to a caller.
Seen(c) == [at |-> IF c.at \in {"sending", "waiting"} THEN "open" ELSE c.at,
            call |-> c.call]

Contract == INSTANCE SessionContract
              WITH caller <- [t \in Callers |-> Seen(caller[t])],
                   over <- actor # "running"

\* The actor keeps the contract: one call at the driver at a time, no answer
\* without it, no statement begun for a caller that has left, and nothing begun
\* once the session is over.
ContractKept == Contract!Spec

=============================================================================
