----------------------------- MODULE SocketFile ------------------------------
(***************************************************************************)
(* The socket of one session name (sqlake-api/src/socket.rs): a path in the  *)
(* runtime directory that processes of one user take, look behind and        *)
(* remove, one system call at a time.                                        *)
(*                                                                           *)
(* A file is known by the process that made it; a file nobody listens behind *)
(* is what a process that was killed has left.                               *)
(***************************************************************************)
EXTENDS Naturals, Processes

CONSTANT Foreign  \* a file that is not a socket

ASSUME SocketAssumption == Foreign \notin Procs /\ Foreign # None

VARIABLES
  file,       \* what is at the path: None, Foreign, or whose socket it is
  listening,  \* the processes that accept connections
  stage,      \* per process: which call it makes next
  peer,       \* per process: the session it is attached to
  raced       \* per process: whether another has changed the path since it
              \* last changed or first looked at it
socketVars == <<file, listening, stage, peer, raced>>

Live(f) == f \in listening

At(p, from, to) == stage[p] = from /\ stage' = [stage EXCEPT ![p] = to]

Touched(p, f) ==
    /\ file' = f
    /\ raced' = [q \in Procs |-> q # p]

Untouched == UNCHANGED <<file, raced>>

-----------------------------------------------------------------------------
(* Listener::bind.  The directory is made and is this user's alone; then the *)
(* path is looked at, probed, judged, cleared, claimed and guarded.          *)

StartBind(p) ==
    /\ At(p, "none", "look")
    /\ raced' = [raced EXCEPT ![p] = FALSE]
    /\ UNCHANGED <<file, listening, peer>>

Look(p) ==
    /\ At(p, "look", IF file = None THEN "claim" ELSE "probe")
    /\ Untouched /\ UNCHANGED <<listening, peer>>

\* Slip: whatever is there is taken for a dead session.
RashProbe(p) ==
    /\ At(p, "probe", "judge")
    /\ Untouched /\ UNCHANGED <<listening, peer>>

Probe(p) ==
    /\ At(p, "probe", IF Live(file) THEN "inUse" ELSE "judge")
    /\ Untouched /\ UNCHANGED <<listening, peer>>

\* Slip: a dead session's file is bound over.
JudgedDead(p) ==
    /\ At(p, "judge", IF file \in Procs THEN "claim" ELSE "refused")
    /\ Untouched /\ UNCHANGED <<listening, peer>>

\* Only a socket is a dead session.
Judge(p) ==
    /\ At(p, "judge", IF file \in Procs THEN "clear" ELSE "refused")
    /\ Untouched /\ UNCHANGED <<listening, peer>>

Clear(p) ==
    /\ \/ file = None /\ At(p, "clear", "refused") /\ Untouched
       \/ file # None /\ At(p, "clear", "claim") /\ Touched(p, None)
    /\ UNCHANGED <<listening, peer>>

Claim(p) ==
    /\ \/ file # None /\ At(p, "claim", "refused") /\ Untouched /\ UNCHANGED listening
       \/ /\ file = None /\ At(p, "claim", "guard")
          /\ Touched(p, p)
          /\ listening' = listening \cup {p}
    /\ UNCHANGED peer

\* The mode is set by path: a path that is gone fails, and the socket closes.
Guard(p) ==
    /\ \/ file = None /\ At(p, "guard", "refused") /\ listening' = listening \ {p}
       \/ file # None /\ At(p, "guard", "up") /\ UNCHANGED listening
    /\ Untouched /\ UNCHANGED peer

-----------------------------------------------------------------------------
(* The end of a listener: the runtime drops it, which removes the path and   *)
(* closes the socket; then its handle removes the path once more.            *)

Drop(p) ==
    /\ At(p, "up", "closing")
    /\ Touched(p, None)
    /\ UNCHANGED <<listening, peer>>

Close(p) ==
    /\ At(p, "closing", "leaving")
    /\ listening' = listening \ {p}
    /\ Untouched /\ UNCHANGED peer

DropHandle(p) ==
    /\ At(p, "leaving", "left")
    /\ Touched(p, None)
    /\ UNCHANGED <<listening, peer>>

\* A process that is killed closes its sockets and leaves its file.
Killed(p) ==
    /\ stage' = [stage EXCEPT ![p] = "left"]
    /\ listening' = listening \ {p}
    /\ Untouched /\ UNCHANGED peer

-----------------------------------------------------------------------------
(* Client::attach.                                                           *)

Attach(p) ==
    /\ At(p, "none", CASE file = None -> "alone"
                       [] Live(file) -> "attached"
                       [] OTHER -> "sweep")
    /\ peer' = [peer EXCEPT ![p] = IF Live(file) THEN file ELSE None]
    /\ raced' = [raced EXCEPT ![p] = FALSE]
    /\ UNCHANGED <<file, listening>>

\* Slip: whatever refuses a connection is removed.
RashSweep(p) ==
    /\ At(p, "sweep", "remove")
    /\ Untouched /\ UNCHANGED <<listening, peer>>

\* A plain file refuses a connection too, and is somebody else's.
Sweep(p) ==
    /\ At(p, "sweep", IF file \in Procs THEN "remove" ELSE "alone")
    /\ Untouched /\ UNCHANGED <<listening, peer>>

Unlink(p) ==
    /\ At(p, "remove", "alone")
    /\ Touched(p, None)
    /\ UNCHANGED <<listening, peer>>

-----------------------------------------------------------------------------
SocketStep(p) ==
    \/ Look(p) \/ Probe(p) \/ Judge(p) \/ Clear(p) \/ Claim(p) \/ Guard(p)
    \/ Close(p) \/ DropHandle(p)
    \/ Sweep(p) \/ Unlink(p)

SocketInit ==
    /\ file \in {None, Foreign}
    /\ listening = {}
    /\ stage = [p \in Procs |-> "none"]
    /\ peer = [p \in Procs |-> None]
    /\ raced = [p \in Procs |-> FALSE]

SocketNext ==
    \E p \in Procs : SocketStep(p) \/ StartBind(p) \/ Attach(p) \/ Drop(p) \/ Killed(p)

SocketSpec == SocketInit /\ [][SocketNext]_socketVars

-----------------------------------------------------------------------------
\* What is at the path is taken away only where nothing is behind it: neither a
\* file that is not a socket nor the socket of a session that listens, unless that
\* session goes itself or the path has changed under whoever removes it (socket.rs
\* bind: "a file that nothing answers on is removed and rebound").
OnlyTheDeadAreRemoved ==
    [][/\ file = Foreign => file' = Foreign
       /\ \A q \in Procs :
             (file = q /\ q \in listening /\ file' # q) =>
                \/ stage[q] = "up" /\ stage'[q] = "closing"
                \/ \E r \in Procs \ {q} : stage'[r] # stage[r] /\ raced[r]]_socketVars

\* A dead session is never in the way: a session that finds one at its path, and
\* nobody else at work there, starts (socket.rs bind: refusing "would mean every
\* crash needs a manual rm").
DeadAreNoObstacle ==
    \A p \in Procs : stage[p] = "refused" => raced[p] \/ file = Foreign

=============================================================================
