------------------------------ MODULE Machine --------------------------------
(***************************************************************************)
(* One person's machine: sessions that listen (sqlake --session), commands   *)
(* that ask one request of a session or of a store of their own              *)
(* (sqlake/src/agent.rs), and MCP servers that ask many (sqlake-mcp).  They   *)
(* share a socket path (SocketFile) and the library (LibraryFile).            *)
(*                                                                           *)
(* A store is known here by the connections it has open; what it answers is   *)
(* module Service's.  Every process runs once; killing one is another's       *)
(* crash to find.                                                            *)
(***************************************************************************)
EXTENDS SocketFile, LibraryFile, SequencesExt

CONSTANTS
  Sessions, Commands, Servers,  \* the processes, by what they were started as
  Kinds,                        \* what is asked
  Profiles,                     \* the profiles configured
  MaxCalls,                     \* calls of an MCP client
  MaxOpened                     \* connections the people open

ASSUME MachineAssumption ==
    /\ Procs = Sessions \cup Commands \cup Servers
    /\ Sessions \cap Commands = {} /\ Commands \cap Servers = {}
    /\ Sessions \cap Servers = {}
    /\ MaxCalls \in Nat /\ MaxOpened \in Nat

VARIABLES
  doing,   \* per process: where its main is
  job,     \* per process: what it asks now, [kind, profile]
  known,   \* per process: the connections it was last told of, and its choice
  answer,  \* per process: how its last request ended
  open,    \* per process: its store's connections
  handles, \* the stores a query was started in that somebody may ask about
  minted,  \* connections made so far
  calls    \* per process: the calls an MCP client has made
machineVars == <<doing, job, known, answer, open, handles, minted, calls>>
allVars == <<socketVars, libraryVars, machineVars>>

-----------------------------------------------------------------------------
(* What a request needs (Command::needs, tools::takes_a_connection).         *)

\* Slip: running a statement is taken for reading one.
NeedsTooLittle(kind) ==
    CASE kind \in {"Schema", "HistorySearch"} -> "Nothing"
      [] kind \in {"Snapshot", "ConnectionList"} -> "Session"
      [] kind \in {"ConnectionOpen", "QueryStatus", "QueryWait", "QueryCancel"} -> "LiveSession"
      [] kind = "ConnectionClose" -> "LiveConnection"
      [] OTHER -> "Connection"

Needs(kind) ==
    CASE kind \in {"Schema", "HistorySearch"} -> "Nothing"
      [] kind \in {"Snapshot", "ConnectionList"} -> "Session"
      [] kind \in {"ConnectionOpen", "QueryStatus", "QueryWait", "QueryCancel"} -> "LiveSession"
      [] kind \in {"ConnectionClose", "QueryRun"} -> "LiveConnection"
      [] OTHER -> "Connection"

OutlivesTheCommand(kind) == Needs(kind) \in {"LiveSession", "LiveConnection"}
NamesAConnection(kind) == Needs(kind) \in {"Connection", "LiveConnection"}
Optional(kind) == kind = "TemplateApply"
TakesAConnection(kind) == NamesAConnection(kind) /\ kind # "TemplateList"
Destructive(kind) == kind = "ConnectionClose"

-----------------------------------------------------------------------------
(* Which connection is meant (socket.rs choose).                             *)

\* Where the connections of a profile are, or all of them.
Matching(conns, profile) ==
    {i \in 1 .. Len(conns) : profile \in {None, conns[i].profile}}

First(conns, places) ==
    conns[CHOOSE i \in places : \A k \in places : i <= k].id

\* Slip: closing takes the first of several, like reading.
ChosenBlindly(conns, profile, destructive) ==
    LET matching == Matching(conns, profile)
    IN IF matching = {} THEN None ELSE First(conns, matching)

\* A ready one before the rest; to close, the only one.
Chosen(conns, profile, destructive) ==
    LET matching == Matching(conns, profile)
        ready == {i \in matching : conns[i].status = "Ready"}
    IN IF matching = {} \/ (destructive /\ Cardinality(matching) > 1) THEN None
       ELSE First(conns, IF ready # {} THEN ready ELSE matching)

-----------------------------------------------------------------------------
(* Stores and those who ask them.                                            *)

\* Whose store a process asks: the session it is attached to, or its own.
Backend(p) == IF stage[p] = "attached" THEN peer[p] ELSE p

\* A session answers once it accepts; what is dropped or killed closes the
\* connections it had.
Answers(p) == Backend(p) = p \/ stage[Backend(p)] = "up"

\* Slip: a session that went is one that has nothing to say yet.
NeverLost(p) == FALSE

Lost(p) == Backend(p) # p /\ stage[Backend(p)] \notin {"guard", "up"}

Enters(p, place) == doing' = [doing EXCEPT ![p] = place]

Opening(b, profile, status) ==
    /\ minted' = minted + 1
    /\ open' = [open EXCEPT ![b] =
                  Append(@, [id |-> minted + 1, profile |-> profile, status |-> status])]

Ids(conns) == {conns[i].id : i \in 1 .. Len(conns)}
Find(conns, id) == CHOOSE i \in 1 .. Len(conns) : conns[i].id = id

\* A request ends.  A command ends with it, and with a store of its own; an MCP
\* server waits for the next call.
Replied(p, tag) ==
    /\ answer' = [answer EXCEPT ![p] = [tag |-> tag, from |-> Backend(p)]]
    /\ Enters(p, IF p \in Servers THEN "idle" ELSE "ended")

-----------------------------------------------------------------------------
(* A session: main with --session.                                           *)

StartsUp(p) ==
    /\ doing[p] = "off"
    /\ OpenLibrary(p)
    /\ Enters(p, "library")
    /\ UNCHANGED <<socketVars, job, known, answer, open, handles, minted, calls>>

HasLibrary(p) == library[p].state \in {"file", "memory"}

\* The store connects first; the path is taken before the screen is.
Listens(p) ==
    /\ doing[p] = "library"
    /\ HasLibrary(p)
    /\ \E profile \in Profiles : Opening(p, profile, "Connecting")
    /\ StartBind(p)
    /\ Enters(p, "serving")
    /\ UNCHANGED <<libraryVars, job, known, answer, handles, calls>>

\* Its connections, as its tasks settle them and its person opens and closes them.
Settles(p, i) ==
    /\ open[p][i].status = "Connecting"
    /\ \E status \in {"Ready", "Failed"} : open' = [open EXCEPT ![p][i].status = status]
    /\ UNCHANGED minted

Used(p) ==
    /\ stage[p] = "up"
    /\ \/ \E i \in 1 .. Len(open[p]) : Settles(p, i)
       \/ minted < MaxOpened /\ \E profile \in Profiles : Opening(p, profile, "Connecting")
       \/ /\ \E i \in 1 .. Len(open[p]) : open' = [open EXCEPT ![p] = RemoveAt(@, i)]
          /\ UNCHANGED minted
    /\ UNCHANGED <<socketVars, libraryVars, doing, job, known, answer, handles, calls>>

\* Its person quits: the runtime goes, and its store and its clients with it.
Quits(p) ==
    /\ Drop(p)
    /\ open' = [open EXCEPT ![p] = <<>>]
    /\ handles' = handles \ {p}
    /\ UNCHANGED <<libraryVars, doing, job, known, answer, minted, calls>>

\* A bind that failed, or a listener that is gone, is the end of main.
Ends(p) ==
    /\ doing[p] = "serving"
    /\ stage[p] \in {"inUse", "refused", "left"}
    /\ Enters(p, "ended")
    /\ open' = [open EXCEPT ![p] = <<>>]
    /\ UNCHANGED <<socketVars, libraryVars, job, known, answer, handles, minted, calls>>

-----------------------------------------------------------------------------
(* A command, or an MCP server (run, serve_mcp, Backend::attach_or_start).   *)

\* A session is attached to where there is a path to one and the request needs one.
Starts(p) ==
    /\ doing[p] = "off"
    /\ \E kind \in Kinds, profile \in Profiles \cup {None} :
          /\ job' = [job EXCEPT ![p] = [kind |-> kind, profile |-> profile, named |-> FALSE]]
          /\ \/ Enters(p, "owning") /\ UNCHANGED socketVars
             \/ /\ p \in Commands => Needs(kind) # "Nothing"
                /\ Attach(p)
                /\ Enters(p, "attaching")
    /\ UNCHANGED <<libraryVars, known, answer, open, handles, minted, calls>>

Attaches(p) ==
    /\ doing[p] = "attaching"
    /\ \/ stage[p] = "alone" /\ Enters(p, "owning")
       \/ /\ stage[p] = "attached"
          /\ Enters(p, CASE p \in Servers -> "idle"
                         [] NamesAConnection(job[p].kind) -> "choosing"
                         [] OTHER -> "asking")
    /\ UNCHANGED <<socketVars, libraryVars, job, known, answer, open, handles,
                   minted, calls>>

\* A store that dies with the command is not a session (one_shot).
Refuses(p) ==
    /\ doing[p] = "owning"
    /\ p \in Commands
    /\ OutlivesTheCommand(job[p].kind)
    /\ Replied(p, "failed")
    /\ UNCHANGED <<socketVars, libraryVars, job, known, open, handles, minted, calls>>

Owns(p) ==
    /\ doing[p] = "owning"
    /\ p \in Commands => ~OutlivesTheCommand(job[p].kind)
    /\ OpenLibrary(p)
    /\ Enters(p, "library")
    /\ UNCHANGED <<socketVars, job, known, answer, open, handles, minted, calls>>

\* One connection is opened before the request, and settles or is given up; a
\* command that needs nothing opens none (one_shot, open).
OpensOwn(p) ==
    /\ doing[p] = "library"
    /\ HasLibrary(p)
    /\ \/ /\ p \in Commands /\ Needs(job[p].kind) = "Nothing"
          /\ Enters(p, "asking")
          /\ UNCHANGED <<open, minted, known, answer>>
       \/ /\ p \in Servers \/ Needs(job[p].kind) # "Nothing"
          /\ \E profile \in IF job[p].profile = None THEN Profiles ELSE {job[p].profile},
                status \in {"Ready", "Failed", "Connecting"} :
                /\ Opening(p, profile, status)
                /\ IF status = "Connecting"
                   THEN Replied(p, "failed") /\ UNCHANGED known
                   ELSE /\ known' = [known EXCEPT ![p].choice = minted + 1]
                        /\ Enters(p, IF p \in Servers THEN "idle" ELSE "asking")
                        /\ UNCHANGED answer
    /\ UNCHANGED <<socketVars, libraryVars, job, handles, calls>>

\* A tool is called, with a connection it names or without (Server::dispatch); one
\* call at a time.
Calls(p) ==
    /\ doing[p] = "idle"
    /\ calls[p] < MaxCalls
    /\ calls' = [calls EXCEPT ![p] = @ + 1]
    /\ \E kind \in Kinds \ {"Schema"}, id \in Ids(known[p].listed) \cup {None} :
          /\ job' = [job EXCEPT ![p].kind = kind, ![p].named = id # None]
          /\ known' = [known EXCEPT ![p].choice = id]
          /\ Enters(p, IF id = None /\ TakesAConnection(kind) THEN "choosing" ELSE "asking")
    /\ UNCHANGED <<socketVars, libraryVars, answer, open, handles, minted>>

\* Which connection is a request of its own (attached, pick).
Chooses(p) ==
    /\ doing[p] = "choosing"
    /\ Answers(p)
    /\ LET conns == open[Backend(p)]
           choice == Chosen(conns, job[p].profile, Destructive(job[p].kind))
       IN /\ known' = [known EXCEPT ![p] = [listed |-> conns, choice |-> choice]]
          /\ IF choice = None /\ ~(p \in Servers /\ Optional(job[p].kind))
             THEN Replied(p, "failed")
             ELSE Enters(p, "asking") /\ UNCHANGED answer
    /\ UNCHANGED <<socketVars, libraryVars, job, open, handles, minted, calls>>

\* What the store does with a request, and whether that is a success (went_wrong).
OpensAnother(p) ==
    /\ \/ \E profile \in Profiles, status \in {"Ready", "Failed", "Connecting"} :
             /\ Opening(Backend(p), profile, status)
             /\ Replied(p, IF status = "Ready" THEN "ok" ELSE "failed")
       \/ Replied(p, "failed") /\ UNCHANGED <<open, minted>>
    /\ UNCHANGED handles

ClosesOne(p) ==
    LET b == Backend(p)
        there == known[p].choice \in Ids(open[b])
    IN /\ open' = IF there
                  THEN [open EXCEPT ![b] = RemoveAt(@, Find(@, known[p].choice))]
                  ELSE open
       /\ Replied(p, IF there THEN "ok" ELSE "failed")
       /\ UNCHANGED <<minted, handles>>

Reads(p) ==
    LET b == Backend(p)
        ready == \E i \in 1 .. Len(open[b]) :
                    open[b][i].id = known[p].choice /\ open[b][i].status = "Ready"
    IN /\ \E tag \in IF Optional(job[p].kind) THEN {"ok"}
                     ELSE IF ready THEN {"ok", "failed"} ELSE {"failed"} :
             /\ Replied(p, tag)
             /\ handles' = IF tag = "ok" /\ job[p].kind = "QueryRun" THEN handles \cup {b}
                           ELSE handles
       /\ UNCHANGED <<open, minted>>

Follows(p) ==
    /\ \E tag \in IF Backend(p) \in handles THEN {"ok", "failed"} ELSE {"failed"} :
          Replied(p, tag)
    /\ UNCHANGED <<open, minted, handles>>

Asks(p) ==
    /\ doing[p] = "asking"
    /\ Answers(p)
    /\ CASE job[p].kind = "ConnectionOpen" -> OpensAnother(p)
         [] job[p].kind = "ConnectionClose" -> ClosesOne(p)
         [] job[p].kind \in {"QueryStatus", "QueryWait", "QueryCancel"} -> Follows(p)
         [] NamesAConnection(job[p].kind) /\ ~Destructive(job[p].kind) -> Reads(p)
         [] OTHER -> Replied(p, "ok") /\ UNCHANGED <<open, minted, handles>>
    /\ UNCHANGED <<socketVars, libraryVars, job, known, calls>>

\* The session went: its end of the connection is closed.
IsCutOff(p) ==
    /\ doing[p] \in {"choosing", "asking"}
    /\ Lost(p)
    /\ Replied(p, "lost")
    /\ UNCHANGED <<socketVars, libraryVars, job, known, open, handles, minted, calls>>

\* The MCP client leaves.
Leaves(p) ==
    /\ doing[p] = "idle"
    /\ Enters(p, "ended")
    /\ UNCHANGED <<socketVars, libraryVars, job, known, answer, open, handles,
                   minted, calls>>

-----------------------------------------------------------------------------
\* A process that is killed takes its store, its sockets and its transaction with it.
Dies(p) ==
    /\ doing[p] \notin {"off", "ended"}
    /\ Killed(p)
    /\ Abandon(p)
    /\ Enters(p, "ended")
    /\ open' = [open EXCEPT ![p] = <<>>]
    /\ handles' = handles \ {p}
    /\ UNCHANGED <<job, known, answer, minted, calls>>

Running(p) == doing[p] \notin {"off", "ended"}

\* What a process does without anybody asking it to.
Goes(p) ==
    \/ Running(p) /\ SocketStep(p) /\ UNCHANGED <<libraryVars, machineVars>>
    \/ Running(p) /\ LibraryStep(p) /\ UNCHANGED <<socketVars, machineVars>>
    \/ p \in Sessions /\ (Listens(p) \/ Ends(p))
    \/ p \notin Sessions /\ \/ Attaches(p) \/ Refuses(p) \/ Owns(p) \/ OpensOwn(p)
                            \/ Chooses(p) \/ Asks(p) \/ IsCutOff(p)

MachineInit ==
    /\ SocketInit
    /\ LibraryInit
    /\ doing = [p \in Procs |-> "off"]
    /\ job = [p \in Procs |-> [kind |-> "Schema", profile |-> None, named |-> FALSE]]
    /\ known = [p \in Procs |-> [listed |-> <<>>, choice |-> None]]
    /\ answer = [p \in Procs |-> [tag |-> "none", from |-> None]]
    /\ open = [p \in Procs |-> <<>>]
    /\ handles = {}
    /\ minted = 0
    /\ calls = [p \in Procs |-> 0]

MachineNext ==
    \/ \E p \in Sessions : StartsUp(p) \/ Used(p) \/ Quits(p)
    \/ \E p \in Commands \cup Servers : Starts(p)
    \/ \E p \in Servers : Calls(p) \/ Leaves(p)
    \/ \E p \in Procs : Goes(p) \/ Dies(p)

\* The scheduler gives every process its turns.
MachineSpec ==
    /\ MachineInit
    /\ [][MachineNext]_allVars
    /\ \A p \in Procs : WF_allVars(Goes(p))

-----------------------------------------------------------------------------
\* A command that succeeds has done what it says where it can still be found: what
\* it opens is open and ready, and neither that nor the query it starts is in a store
\* that ends with it (agent.rs: "a handle nothing can ask about afterwards").
CommandsTellTheTruth ==
    [][\A p \in Commands :
          (answer'[p] # answer[p] /\ answer'[p].tag = "ok") =>
             /\ job[p].kind \in {"ConnectionOpen", "QueryRun"} => answer'[p].from # p
             /\ job[p].kind = "ConnectionOpen" =>
                   \E i \in 1 .. Len(open'[answer'[p].from]) :
                      /\ open'[answer'[p].from][i].id = minted'
                      /\ minted' = minted + 1
                      /\ open'[answer'[p].from][i].status = "Ready"]_allVars

\* Nobody's connection is closed by somebody who did not mean that one: whoever
\* named none and is told that it was closed had one it could have meant, and that
\* one went and nothing else did; told anything else, nothing was closed (socket.rs
\* choose: "a close through the wrong one is somebody else's connection gone").
ClosesOnlyWhatItMeant ==
    [][\A p \in Commands \cup Servers :
          (doing[p] = "asking" /\ job[p].kind = "ConnectionClose" /\ ~job[p].named) =>
             /\ Replied(p, "ok") =>
                   \E i \in 1 .. Len(known[p].listed) :
                      /\ Matching(known[p].listed, job[p].profile) = {i}
                      /\ Ids(open[Backend(p)]) \ Ids(open'[Backend(p)]) = {known[p].listed[i].id}
                      /\ \A b \in Procs \ {Backend(p)} : open'[b] = open[b]
             /\ Replied(p, "failed") \/ Replied(p, "lost") => open' = open]_allVars

\* Whoever is started gets somewhere: a session comes up or says why not, a command
\* or a call is answered, whoever else is killed, migrates, or goes meanwhile.
EverybodyGetsSomewhere ==
    \A p \in Procs :
       (doing[p] \notin {"off", "idle", "ended"} /\ stage[p] # "up") ~>
          (doing[p] \in {"idle", "ended"} \/ stage[p] = "up")

=============================================================================
