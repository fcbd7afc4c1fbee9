--------------------------- MODULE MachineProofs -----------------------------
(***************************************************************************)
(* What holds of the socket path, of the library file and of the processes   *)
(* that share them, for any number of processes.                             *)
(***************************************************************************)
EXTENDS Machine, FiniteSetTheorems, SequenceTheorems, TLAPS

-----------------------------------------------------------------------------
(* The library file.                                                         *)

LibraryTypes ==
    /\ version \in Nat
    /\ writer \in Procs \cup {None}
    /\ library \in [Procs -> [state : {"shut", "memory", "migrating", "file"}, at : Nat]]

\* Whoever migrates is at a migration that follows none it has not seen, and only
\* at the one that comes next while it writes.
LibraryInv ==
    /\ LibraryTypes
    /\ LibraryIsWhole
    /\ \A p \in Procs :
          library[p].state = "migrating" => library[p].at \in 1 .. version + 1
    /\ writer # None =>
          /\ library[writer].state = "migrating"
          /\ library[writer].at = version + 1
          /\ library[writer].at <= Latest

LEMMA InitialLibrary == LibraryInit => LibraryInv
<1>. SUFFICES ASSUME LibraryInit PROVE LibraryInv
  OBVIOUS
<1>1. LibraryTypes
  BY LibraryFileAssumption DEF LibraryInit, LibraryTypes
<1>. QED
  BY <1>1 DEF LibraryInit, LibraryInv, LibraryIsWhole

\* One process moves, and the others keep what they had.
LEMMA HasOne ==
    ASSUME LibraryTypes, NEW p \in Procs, NEW at \in Nat,
           NEW state \in {"shut", "memory", "migrating", "file"}, Has(p, state, at)
    PROVE  /\ library' \in [Procs -> [state : {"shut", "memory", "migrating", "file"}, at : Nat]]
           /\ library'[p].state = state /\ library'[p].at = at
           /\ \A q \in Procs \ {p} : library'[q] = library[q]
  BY DEF LibraryTypes, Has

LEMMA LibraryKeeps == LibraryInv /\ [LibraryNext]_libraryVars => LibraryInv'
<1>. SUFFICES ASSUME LibraryInv, [LibraryNext]_libraryVars PROVE LibraryInv'
  OBVIOUS
<1>. USE ProcessesAssumption, LibraryFileAssumption
<1>0. CASE UNCHANGED libraryVars
  BY <1>0 DEF LibraryInv, LibraryTypes, LibraryIsWhole, libraryVars
<1>1. ASSUME NEW p \in Procs, OpenLibrary(p) PROVE LibraryInv'
  <2>0. LibraryTypes /\ version \in Nat /\ version + 1 \in Nat
    BY DEF LibraryInv, LibraryTypes
  <2>1. PICK state \in {"memory", "migrating"}, at \in {0, version + 1} :
           /\ Has(p, state, at)
           /\ state = "migrating" => at = version + 1
    BY <1>1 DEF OpenLibrary
  <2>2. /\ library' \in [Procs -> [state : {"shut", "memory", "migrating", "file"}, at : Nat]]
        /\ library'[p].state = state /\ library'[p].at = at
        /\ \A q \in Procs \ {p} : library'[q] = library[q]
    BY <2>0, <2>1, HasOne
  <2>3. writer # p
    BY <1>1 DEF OpenLibrary, LibraryInv
  <2>. QED
    BY <1>1, <2>0, <2>1, <2>2, <2>3
    DEF OpenLibrary, LibraryInv, LibraryTypes, LibraryIsWhole
<1>2. ASSUME NEW p \in Procs, Migrate(p) PROVE LibraryInv'
  <2>0. LibraryTypes /\ library[p].at \in Nat
    BY DEF LibraryInv, LibraryTypes
  <2>1. CASE library[p].at \in schema
    <3>1. Has(p, "memory", library[p].at) /\ UNCHANGED <<writer, version, schema>>
      BY <1>2, <2>1 DEF Migrate
    <3>2. /\ library' \in [Procs -> [state : {"shut", "memory", "migrating", "file"}, at : Nat]]
          /\ library'[p].state = "memory"
          /\ \A q \in Procs \ {p} : library'[q] = library[q]
      BY <2>0, <3>1, HasOne
    <3>. QED
      BY <1>2, <3>1, <3>2 DEF Migrate, LibraryInv, LibraryTypes, LibraryIsWhole
  <2>2. CASE library[p].at \notin schema
    BY <1>2, <2>2 DEF Migrate, LibraryInv, LibraryTypes, LibraryIsWhole
  <2>. QED
    BY <2>1, <2>2
<1>3. ASSUME NEW p \in Procs, Commit(p) PROVE LibraryInv'
  <2>0. /\ LibraryTypes /\ library[p].at = version + 1 /\ version \in Nat
        /\ schema = 1 .. version
    BY <1>3 DEF Commit, LibraryInv, LibraryTypes, LibraryIsWhole
  <2>1. /\ library' \in [Procs -> [state : {"shut", "memory", "migrating", "file"}, at : Nat]]
        /\ library'[p].state = "migrating" /\ library'[p].at = version + 2
        /\ \A q \in Procs \ {p} : library'[q] = library[q]
    BY <1>3, <2>0, HasOne DEF Commit
  <2>2. version' = version + 1 /\ schema' = 1 .. version'
    BY <1>3, <2>0 DEF Commit
  <2>3. LibraryTypes' /\ LibraryIsWhole' /\ writer' = None
    BY <1>3, <2>0, <2>1, <2>2 DEF Commit, LibraryTypes, LibraryIsWhole
  <2>4. ASSUME NEW q \in Procs, library'[q].state = "migrating"
        PROVE  library'[q].at \in 1 .. version' + 1
    <3>1. CASE q = p
      BY <2>0, <2>1, <2>2, <3>1
    <3>2. CASE q # p
      <4>1. library[q].state = "migrating" /\ library'[q].at = library[q].at
        BY <2>1, <2>4, <3>2
      <4>2. library[q].at \in 1 .. version + 1
        BY <4>1 DEF LibraryInv
      <4>. QED
        BY <2>0, <2>2, <4>1, <4>2
    <3>. QED
      BY <3>1, <3>2
  <2>. QED
    BY <2>3, <2>4 DEF LibraryInv
<1>4. ASSUME NEW p \in Procs, Migrated(p) PROVE LibraryInv'
  <2>0. /\ LibraryTypes /\ library[p].at \in Nat
        /\ Has(p, "file", library[p].at)
    BY <1>4 DEF Migrated, LibraryInv, LibraryTypes
  <2>1. /\ library' \in [Procs -> [state : {"shut", "memory", "migrating", "file"}, at : Nat]]
        /\ library'[p].state = "file"
        /\ \A q \in Procs \ {p} : library'[q] = library[q]
    BY <2>0, HasOne
  <2>2. writer # p
    BY <1>4, <2>0 DEF Migrated, LibraryInv
  <2>. QED
    BY <1>4, <2>1, <2>2 DEF Migrated, LibraryInv, LibraryTypes, LibraryIsWhole
<1>5. ASSUME NEW p \in Procs, Abandon(p) PROVE LibraryInv'
  <2>0. LibraryTypes /\ Has(p, "shut", 0)
    BY <1>5 DEF Abandon, LibraryInv
  <2>1. /\ library' \in [Procs -> [state : {"shut", "memory", "migrating", "file"}, at : Nat]]
        /\ library'[p].state = "shut"
        /\ \A q \in Procs \ {p} : library'[q] = library[q]
    BY <2>0, HasOne
  <2>. QED
    BY <1>5, <2>1 DEF Abandon, LibraryInv, LibraryTypes, LibraryIsWhole
<1>. QED
  BY <1>0, <1>1, <1>2, <1>3, <1>4, <1>5 DEF LibraryNext, LibraryStep

\* The library is what its version says, for any number of processes and of
\* migrations (LibraryIsWhole; schema.rs migrate).
THEOREM LibraryStaysWhole == LibrarySpec => []LibraryIsWhole
<1>1. LibraryInv => LibraryIsWhole
  BY DEF LibraryInv
<1>. QED
  BY <1>1, InitialLibrary, LibraryKeeps, PTL DEF LibrarySpec

-----------------------------------------------------------------------------
(* The socket path.                                                          *)

Binding == {"look", "probe", "judge", "clear", "claim", "guard", "up", "closing",
            "leaving", "inUse", "refused"}
Attaching == {"alone", "attached", "sweep", "remove"}

SocketTypes ==
    /\ file \in {None, Foreign} \cup Procs
    /\ listening \subseteq Procs
    /\ stage \in [Procs -> {"none", "left"} \cup Binding \cup Attaching]
    /\ peer \in [Procs -> {None} \cup Procs]
    /\ raced \in [Procs -> BOOLEAN]

\* What a process knows of the path while nobody else has changed it: what it last
\* saw there, or what it has made of it.
Knows(p) ==
    /\ stage[p] = "probe" => file # None
    /\ stage[p] \in {"judge", "clear", "sweep", "remove"} =>
          file # None /\ file \notin listening
    /\ stage[p] \in {"clear", "remove"} => file # Foreign
    /\ stage[p] \in {"claim", "closing", "leaving"} => file = None
    /\ stage[p] \in {"guard", "up"} => file = p
    /\ stage[p] = "refused" => file = Foreign

\* Past these a process has seen the path free of what is not a socket.
Past == {"clear", "claim", "guard", "up", "closing", "leaving", "remove"}

SocketInv ==
    /\ SocketTypes
    /\ \A p \in listening : stage[p] \in {"guard", "up", "closing"}
    /\ \A p \in Procs : stage[p] = "attached" => peer[p] \in Procs \ {p}
    /\ \A p \in Procs : raced[p] \/ Knows(p)
    /\ file = Foreign => \A p \in Procs : stage[p] \notin Past

LEMMA InitialSocket == SocketInit => SocketInv
  BY SocketAssumption, ProcessesAssumption
  DEF SocketInit, SocketInv, SocketTypes, Binding, Attaching, Knows, Past

LEMMA SocketKeeps == SocketInv /\ [SocketNext]_socketVars => SocketInv'
<1>. SUFFICES ASSUME SocketInv, [SocketNext]_socketVars PROVE SocketInv'
  OBVIOUS
<1>. USE ProcessesAssumption, SocketAssumption
<1>0. CASE UNCHANGED socketVars
  BY <1>0 DEF SocketInv, SocketTypes, Knows, Past, socketVars
<1>1. ASSUME NEW p \in Procs, StartBind(p) PROVE SocketInv'
  BY <1>1 DEF StartBind, At, SocketInv, SocketTypes, Knows, Past, Binding, Attaching
<1>2. ASSUME NEW p \in Procs, Look(p) PROVE SocketInv'
  BY <1>2 DEF Look, At, Untouched, SocketInv, SocketTypes, Knows, Past, Binding, Attaching
<1>3. ASSUME NEW p \in Procs, Probe(p) PROVE SocketInv'
  BY <1>3 DEF Probe, Live, At, Untouched, SocketInv, SocketTypes, Knows, Past, Binding, Attaching
<1>4. ASSUME NEW p \in Procs, Judge(p) PROVE SocketInv'
  BY <1>4 DEF Judge, At, Untouched, SocketInv, SocketTypes, Knows, Past, Binding, Attaching
<1>5. ASSUME NEW p \in Procs, Clear(p) PROVE SocketInv'
  <2>1. CASE file = None
    BY <1>5, <2>1 DEF Clear, At, Untouched, SocketInv, SocketTypes, Knows, Past, Binding, Attaching
  <2>2. CASE file # None
    <3>1. At(p, "clear", "claim") /\ Touched(p, None) /\ UNCHANGED <<listening, peer>>
      BY <1>5, <2>2 DEF Clear
    <3>a. SocketTypes'
      BY <3>1 DEF At, Touched, SocketInv, SocketTypes, Binding, Attaching
    <3>b. \A q \in listening' : stage'[q] \in {"guard", "up", "closing"}
      BY <3>1 DEF At, Touched, SocketInv, SocketTypes
    <3>c. \A q \in Procs : stage'[q] = "attached" => peer'[q] \in Procs \ {q}
      BY <3>1 DEF At, Touched, SocketInv, SocketTypes
    <3>d. ASSUME NEW q \in Procs PROVE raced'[q] \/ Knows(q)'
      <4>1. CASE q = p
        BY <3>1, <4>1 DEF At, Touched, SocketInv, SocketTypes, Knows
      <4>2. CASE q # p
        BY <3>1, <4>2 DEF At, Touched, SocketInv, SocketTypes, Knows
      <4>. QED
        BY <4>1, <4>2
    <3>e. file' = Foreign => \A q \in Procs : stage'[q] \notin Past
      BY <3>1 DEF At, Touched, SocketInv, SocketTypes, Past
    <3>. QED
      BY <3>a, <3>b, <3>c, <3>d, <3>e DEF SocketInv
  <2>. QED
    BY <2>1, <2>2
<1>6. ASSUME NEW p \in Procs, Claim(p) PROVE SocketInv'
  <2>1. CASE file # None
    BY <1>6, <2>1 DEF Claim, At, Untouched, SocketInv, SocketTypes, Knows, Past, Binding, Attaching
  <2>2. CASE file = None
    <3>1. /\ At(p, "claim", "guard") /\ Touched(p, p)
          /\ listening' = listening \cup {p} /\ UNCHANGED peer
      BY <1>6, <2>2 DEF Claim
    <3>a. SocketTypes'
      BY <3>1 DEF At, Touched, SocketInv, SocketTypes, Binding, Attaching
    <3>b. \A q \in listening' : stage'[q] \in {"guard", "up", "closing"}
      BY <3>1 DEF At, Touched, SocketInv, SocketTypes
    <3>c. \A q \in Procs : stage'[q] = "attached" => peer'[q] \in Procs \ {q}
      BY <3>1 DEF At, Touched, SocketInv, SocketTypes
    <3>d. ASSUME NEW q \in Procs PROVE raced'[q] \/ Knows(q)'
      <4>1. CASE q = p
        BY <3>1, <4>1 DEF At, Touched, SocketInv, SocketTypes, Knows
      <4>2. CASE q # p
        BY <3>1, <4>2 DEF At, Touched, SocketInv, SocketTypes, Knows
      <4>. QED
        BY <4>1, <4>2
    <3>e. file' = Foreign => \A q \in Procs : stage'[q] \notin Past
      BY <3>1 DEF At, Touched, SocketInv, SocketTypes, Past
    <3>. QED
      BY <3>a, <3>b, <3>c, <3>d, <3>e DEF SocketInv
  <2>. QED
    BY <2>1, <2>2
<1>7. ASSUME NEW p \in Procs, Guard(p) PROVE SocketInv'
  BY <1>7 DEF Guard, At, Untouched, SocketInv, SocketTypes, Knows, Past, Binding, Attaching
<1>8. ASSUME NEW p \in Procs, Drop(p) PROVE SocketInv'
  BY <1>8 DEF Drop, At, Touched, SocketInv, SocketTypes, Knows, Past, Binding, Attaching
<1>9. ASSUME NEW p \in Procs, Close(p) PROVE SocketInv'
  BY <1>9 DEF Close, At, Untouched, SocketInv, SocketTypes, Knows, Past, Binding, Attaching
<1>10. ASSUME NEW p \in Procs, DropHandle(p) PROVE SocketInv'
  BY <1>10 DEF DropHandle, At, Touched, SocketInv, SocketTypes, Knows, Past, Binding, Attaching
<1>11. ASSUME NEW p \in Procs, Killed(p) PROVE SocketInv'
  BY <1>11 DEF Killed, Untouched, SocketInv, SocketTypes, Knows, Past, Binding, Attaching
<1>12. ASSUME NEW p \in Procs, Attach(p) PROVE SocketInv'
  <2>1. PICK to \in {"alone", "attached", "sweep"} :
           /\ At(p, "none", to)
           /\ to = "attached" => file \in listening
           /\ to = "sweep" => file # None /\ file \notin listening
    BY <1>12, Zenon DEF Attach, Live
  <2>2. /\ peer' = [peer EXCEPT ![p] = IF file \in listening THEN file ELSE None]
        /\ raced' = [raced EXCEPT ![p] = FALSE]
        /\ UNCHANGED <<file, listening>>
    BY <1>12 DEF Attach, Live
  <2>3. stage[p] = "none" /\ p \notin listening
    BY <2>1 DEF At, SocketInv
  <2>a. SocketTypes'
    BY <2>1, <2>2, <2>3 DEF At, SocketInv, SocketTypes, Binding, Attaching
  <2>b. \A q \in listening' : stage'[q] \in {"guard", "up", "closing"}
    BY <2>1, <2>2, <2>3 DEF At, SocketInv, SocketTypes
  <2>c. \A q \in Procs : stage'[q] = "attached" => peer'[q] \in Procs \ {q}
    BY <2>1, <2>2, <2>3 DEF At, SocketInv, SocketTypes
  <2>d. ASSUME NEW q \in Procs PROVE raced'[q] \/ Knows(q)'
    <3>1. CASE q = p
      BY <2>1, <2>2, <2>3, <3>1 DEF At, SocketInv, SocketTypes, Knows
    <3>2. CASE q # p
      BY <2>1, <2>2, <2>3, <3>2 DEF At, SocketInv, SocketTypes, Knows
    <3>. QED
      BY <3>1, <3>2
  <2>e. file' = Foreign => \A q \in Procs : stage'[q] \notin Past
    BY <2>1, <2>2, <2>3 DEF At, SocketInv, SocketTypes, Past
  <2>. QED
    BY <2>a, <2>b, <2>c, <2>d, <2>e DEF SocketInv
<1>13. ASSUME NEW p \in Procs, Sweep(p) PROVE SocketInv'
  <2>1. PICK to \in {"remove", "alone"} :
           At(p, "sweep", to) /\ (to = "remove" => file \in Procs)
    BY <1>13, Zenon DEF Sweep
  <2>2. UNCHANGED <<file, raced, listening, peer>>
    BY <1>13 DEF Sweep, Untouched
  <2>a. SocketTypes'
    BY <2>1, <2>2 DEF At, SocketInv, SocketTypes, Binding, Attaching
  <2>b. \A q \in listening' : stage'[q] \in {"guard", "up", "closing"}
    BY <2>1, <2>2 DEF At, SocketInv, SocketTypes
  <2>c. \A q \in Procs : stage'[q] = "attached" => peer'[q] \in Procs \ {q}
    BY <2>1, <2>2 DEF At, SocketInv, SocketTypes
  <2>d. ASSUME NEW q \in Procs PROVE raced'[q] \/ Knows(q)'
    <3>1. CASE q = p
      <4>1. stage[p] = "sweep" /\ stage'[p] = to /\ raced'[p] = raced[p]
        BY <2>1, <2>2 DEF At, SocketInv, SocketTypes
      <4>2. raced[p] \/ (file # None /\ file \notin listening)
        BY <4>1 DEF SocketInv, Knows
      <4>3. CASE to = "alone"
        BY <3>1, <4>1, <4>3 DEF Knows
      <4>4. CASE to = "remove"
        <5>1. file # Foreign
          BY <2>1, <4>4, SocketAssumption
        <5>2. (file # None /\ file \notin listening) => Knows(p)'
          BY <2>2, <4>1, <4>4, <5>1 DEF Knows
        <5>. QED
          BY <3>1, <4>1, <4>2, <5>2, Zenon
      <4>. QED
        BY <2>1, <4>3, <4>4
    <3>2. CASE q # p
      BY <2>1, <2>2, <3>2 DEF At, SocketInv, SocketTypes, Knows
    <3>. QED
      BY <3>1, <3>2
  <2>e. file' = Foreign => \A q \in Procs : stage'[q] \notin Past
    BY <2>1, <2>2 DEF At, SocketInv, SocketTypes, Past
  <2>. QED
    BY <2>a, <2>b, <2>c, <2>d, <2>e DEF SocketInv
<1>14. ASSUME NEW p \in Procs, Unlink(p) PROVE SocketInv'
  <2>1. At(p, "remove", "alone") /\ Touched(p, None) /\ UNCHANGED <<listening, peer>>
    BY <1>14 DEF Unlink
  <2>a. SocketTypes'
    BY <2>1 DEF At, Touched, SocketInv, SocketTypes, Binding, Attaching
  <2>b. \A q \in listening' : stage'[q] \in {"guard", "up", "closing"}
    BY <2>1 DEF At, Touched, SocketInv, SocketTypes
  <2>c. \A q \in Procs : stage'[q] = "attached" => peer'[q] \in Procs \ {q}
    BY <2>1 DEF At, Touched, SocketInv, SocketTypes
  <2>d. ASSUME NEW q \in Procs PROVE raced'[q] \/ Knows(q)'
    <3>1. CASE q = p
      BY <2>1, <3>1 DEF At, Touched, SocketInv, SocketTypes, Knows
    <3>2. CASE q # p
      BY <2>1, <3>2 DEF At, Touched, SocketInv, SocketTypes, Knows
    <3>. QED
      BY <3>1, <3>2
  <2>e. file' = Foreign => \A q \in Procs : stage'[q] \notin Past
    BY <2>1 DEF At, Touched, SocketInv, SocketTypes, Past
  <2>. QED
    BY <2>a, <2>b, <2>c, <2>d, <2>e DEF SocketInv
<1>. QED
  BY <1>0, <1>1, <1>2, <1>3, <1>4, <1>5, <1>6, <1>7, <1>8, <1>9, <1>10, <1>11, <1>12,
     <1>13, <1>14 DEF SocketNext, SocketStep

\* The invariant of the socket path, whoever binds, attaches and is killed.
LEMMA SocketInvariant == SocketSpec => []SocketInv
  BY InitialSocket, SocketKeeps, PTL DEF SocketSpec

\* A dead session's file keeps nobody from starting who was alone at the path
\* (DeadAreNoObstacle; Listener::bind).
THEOREM NobodyIsKeptOut == SocketSpec => []DeadAreNoObstacle
<1>1. SocketInv => DeadAreNoObstacle
  BY DEF SocketInv, Knows, DeadAreNoObstacle
<1>. QED
  BY <1>1, SocketInvariant, PTL

\* What somebody listens behind, and what is not a socket, is left at the path by
\* whoever has not been raced (OnlyTheDeadAreRemoved; Listener::bind and drop,
\* Client::attach).
THEOREM TheLivingStay == SocketSpec => OnlyTheDeadAreRemoved
<1>. DEFINE Removed ==
       /\ file = Foreign => file' = Foreign
       /\ \A q \in Procs :
             (file = q /\ q \in listening /\ file' # q) =>
                \/ stage[q] = "up" /\ stage'[q] = "closing"
                \/ \E r \in Procs \ {q} : stage'[r] # stage[r] /\ raced[r]
<1>1. ASSUME SocketInv, [SocketNext]_socketVars PROVE Removed \/ UNCHANGED socketVars
  <2>. USE ProcessesAssumption, SocketAssumption
  <2>1. ASSUME NEW p \in Procs, Clear(p) PROVE Removed
    BY <1>1, <2>1 DEF Clear, At, Touched, Untouched, SocketInv, SocketTypes, Knows, Past
  <2>2. ASSUME NEW p \in Procs, Claim(p) PROVE Removed
    BY <1>1, <2>2 DEF Claim, At, Touched, Untouched, SocketInv, SocketTypes, Knows, Past
  <2>3. ASSUME NEW p \in Procs, Drop(p) PROVE Removed
    BY <1>1, <2>3 DEF Drop, At, Touched, SocketInv, SocketTypes, Knows, Past, Binding, Attaching
  <2>4. ASSUME NEW p \in Procs, DropHandle(p) PROVE Removed
    BY <1>1, <2>4 DEF DropHandle, At, Touched, SocketInv, SocketTypes, Knows, Past
  <2>5. ASSUME NEW p \in Procs, Unlink(p) PROVE Removed
    BY <1>1, <2>5 DEF Unlink, At, Touched, SocketInv, SocketTypes, Knows, Past
  <2>6. CASE file' = file
    BY <2>6
  <2>7. ASSUME NEW p \in Procs,
               \/ Look(p) \/ Probe(p) \/ Judge(p) \/ Guard(p) \/ Close(p) \/ Sweep(p)
               \/ StartBind(p) \/ Attach(p) \/ Killed(p)
        PROVE  file' = file
    BY <2>7 DEF Look, Probe, Judge, Guard, Close, Sweep, StartBind, Attach, Killed, Untouched
  <2>. QED
    BY <1>1, <2>1, <2>2, <2>3, <2>4, <2>5, <2>6, <2>7 DEF SocketNext, SocketStep
<1>2. SocketInv /\ [SocketNext]_socketVars => [Removed]_socketVars
  BY <1>1
<1>. QED
  BY <1>2, SocketInvariant, PTL DEF SocketSpec, OnlyTheDeadAreRemoved

-----------------------------------------------------------------------------
(* The machine: everything its processes do to the path and to the library   *)
(* is one of those modules' steps.                                           *)

LEMMA EveryProcess == \A p : p \in Sessions \cup Commands \cup Servers => p \in Procs
  BY MachineAssumption

LEMMA MachineSteps ==
    [MachineNext]_allVars => [SocketNext]_socketVars /\ [LibraryNext]_libraryVars
<1>. SUFFICES ASSUME [MachineNext]_allVars
              PROVE  [SocketNext]_socketVars /\ [LibraryNext]_libraryVars
  OBVIOUS
<1>0. CASE UNCHANGED allVars
  BY <1>0 DEF allVars
<1>1. ASSUME NEW p \in Sessions, StartsUp(p) \/ Used(p) \/ Quits(p)
      PROVE  [SocketNext]_socketVars /\ [LibraryNext]_libraryVars
  <2>0. p \in Procs
    BY EveryProcess
  <2>1. CASE StartsUp(p)
    BY <2>0, <2>1 DEF StartsUp, LibraryNext
  <2>2. CASE Used(p)
    BY <2>2 DEF Used
  <2>3. CASE Quits(p)
    BY <2>0, <2>3 DEF Quits, SocketNext
  <2>. QED
    BY <1>1, <2>1, <2>2, <2>3
<1>2. ASSUME NEW p \in Commands \cup Servers, Starts(p)
      PROVE  [SocketNext]_socketVars /\ [LibraryNext]_libraryVars
  <2>0. p \in Procs
    BY EveryProcess
  <2>1. UNCHANGED socketVars \/ Attach(p)
    BY <1>2 DEF Starts
  <2>. QED
    BY <1>2, <2>0, <2>1 DEF Starts, SocketNext
<1>3. ASSUME NEW p \in Servers, Calls(p) \/ Leaves(p)
      PROVE  UNCHANGED socketVars /\ UNCHANGED libraryVars
  BY <1>3 DEF Calls, Leaves
<1>4. ASSUME NEW p \in Procs, Goes(p)
      PROVE  [SocketNext]_socketVars /\ [LibraryNext]_libraryVars
  <2>1. CASE SocketStep(p) /\ UNCHANGED <<libraryVars, machineVars>>
    BY <2>1 DEF SocketNext
  <2>2. CASE LibraryStep(p) /\ UNCHANGED <<socketVars, machineVars>>
    BY <2>2 DEF LibraryNext
  <2>3. CASE Listens(p)
    BY <2>3 DEF Listens, SocketNext
  <2>4. CASE Ends(p) \/ Attaches(p) \/ Refuses(p) \/ OpensOwn(p) \/ Chooses(p)
             \/ Asks(p) \/ IsCutOff(p)
    BY <2>4 DEF Ends, Attaches, Refuses, OpensOwn, Chooses, Asks, IsCutOff
  <2>5. CASE Owns(p)
    BY <2>5 DEF Owns, LibraryNext
  <2>. QED
    BY <1>4, <2>1, <2>2, <2>3, <2>4, <2>5 DEF Goes
<1>5. ASSUME NEW p \in Procs, Dies(p)
      PROVE  [SocketNext]_socketVars /\ [LibraryNext]_libraryVars
  BY <1>5 DEF Dies, SocketNext, LibraryNext
<1>. QED
  BY <1>0, <1>1, <1>2, <1>3, <1>4, <1>5 DEF MachineNext

\* Whatever sessions, commands and MCP servers do keeps to the protocols of the
\* socket path and of the library file, so what holds of those holds of the machine
\* (agent.rs, main.rs and sqlake-mcp share nothing else).
THEOREM MachineKeepsToBoth == MachineSpec => SocketSpec /\ LibrarySpec
<1>1. MachineInit => SocketInit /\ LibraryInit
  BY DEF MachineInit
<1>. QED
  BY <1>1, MachineSteps, PTL DEF MachineSpec, SocketSpec, LibrarySpec

-----------------------------------------------------------------------------
(* What a command says of itself.                                            *)

Mains == {"off", "library", "serving", "ended", "owning", "attaching", "idle",
          "choosing", "asking"}
Statuses == {"Connecting", "Ready", "Failed"}
Conns == [id : Nat, profile : Profiles \cup {None}, status : Statuses]
Jobs == [kind : Kinds \cup {"Schema"}, profile : Profiles \cup {None}, named : BOOLEAN]
Outcomes == [tag : {"none", "ok", "failed", "lost"}, from : Procs \cup {None}]

MachineTypes ==
    /\ doing \in [Procs -> Mains]
    /\ job \in [Procs -> Jobs]
    /\ answer \in [Procs -> Outcomes]
    /\ open \in [Procs -> Seq(Conns)]
    /\ minted \in Nat

\* A command that asks for what outlives it asks a session for it.
AsksWhereItLasts(p) ==
    /\ (doing[p] \in {"library", "asking"} /\ OutlivesTheCommand(job[p].kind)) =>
          stage[p] = "attached"
    /\ doing[p] = "choosing" => stage[p] = "attached"

MachineInv ==
    /\ SocketInv
    /\ MachineTypes
    /\ \A p \in Commands : AsksWhereItLasts(p)

LEMMA InitialMachine == MachineInit => MachineInv
<1>. SUFFICES ASSUME MachineInit PROVE MachineInv
  OBVIOUS
<1>1. SocketInv
  BY InitialSocket DEF MachineInit
<1>2. MachineTypes
  BY DEF MachineInit, MachineTypes, Mains, Jobs, Outcomes
<1>3. \A p \in Commands : AsksWhereItLasts(p)
  BY EveryProcess DEF MachineInit, AsksWhereItLasts
<1>. QED
  BY <1>1, <1>2, <1>3 DEF MachineInv

\* Only its own death takes an attached process from its session.
LEMMA AttachedStays ==
    ASSUME SocketTypes, NEW p \in Procs, NEW q \in Procs, stage[q] = "attached",
           SocketStep(p) \/ StartBind(p) \/ Attach(p) \/ Drop(p)
    PROVE  stage'[q] = "attached"
<1>1. CASE p = q
  BY <1>1 DEF SocketTypes, SocketStep, StartBind, Attach, Drop, Look, Probe, Judge, Clear,
     Claim, Guard, Close, DropHandle, Sweep, Unlink, At
<1>2. CASE p # q
  BY <1>2 DEF SocketTypes, SocketStep, StartBind, Attach, Drop, Look, Probe, Judge, Clear,
     Claim, Guard, Close, DropHandle, Sweep, Unlink, At
<1>. QED
  BY <1>1, <1>2

\* A process's main moves, and the others stay where they were.
LEMMA EntersOne ==
    ASSUME MachineTypes, NEW p \in Procs, NEW place \in Mains, Enters(p, place)
    PROVE  /\ doing' \in [Procs -> Mains]
           /\ doing'[p] = place
           /\ \A q \in Procs \ {p} : doing'[q] = doing[q]
  BY DEF MachineTypes, Enters

LEMMA RepliedOne ==
    ASSUME MachineTypes, SocketTypes, NEW p \in Procs,
           NEW tag \in {"ok", "failed", "lost"}, Replied(p, tag)
    PROVE  /\ doing' \in [Procs -> Mains]
           /\ doing'[p] \in {"idle", "ended"}
           /\ \A q \in Procs \ {p} : doing'[q] = doing[q]
           /\ answer' \in [Procs -> Outcomes]
           /\ answer'[p] = [tag |-> tag, from |-> Backend(p)]
           /\ \A q \in Procs \ {p} : answer'[q] = answer[q]
<1>1. PICK place \in {"idle", "ended"} : Enters(p, place)
  BY DEF Replied
<1>2. place \in Mains
  BY <1>1 DEF Mains
<1>3. /\ doing' \in [Procs -> Mains]
      /\ doing'[p] = place
      /\ \A q \in Procs \ {p} : doing'[q] = doing[q]
  BY <1>1, <1>2, EntersOne
<1>4. Backend(p) \in Procs \cup {None}
  BY DEF Backend, SocketTypes
<1>5. [tag |-> tag, from |-> Backend(p)] \in Outcomes
  BY <1>4 DEF Outcomes
<1>6. answer' = [answer EXCEPT ![p] = [tag |-> tag, from |-> Backend(p)]]
  BY DEF Replied
<1>. QED
  BY <1>1, <1>3, <1>5, <1>6 DEF MachineTypes

LEMMA OpeningOne ==
    ASSUME MachineTypes, NEW b \in Procs, NEW profile \in Profiles \cup {None},
           NEW status \in Statuses, Opening(b, profile, status)
    PROVE  /\ minted' = minted + 1 /\ minted' \in Nat
           /\ open' \in [Procs -> Seq(Conns)]
           /\ Len(open[b]) + 1 \in 1 .. Len(open'[b])
           /\ open'[b][Len(open[b]) + 1].id = minted'
           /\ open'[b][Len(open[b]) + 1].status = status
<1>. DEFINE conn == [id |-> minted + 1, profile |-> profile, status |-> status]
<1>1. conn \in Conns /\ conn.id = minted + 1 /\ conn.status = status
  BY DEF Conns, MachineTypes
<1>2. open[b] \in Seq(Conns)
  BY DEF MachineTypes
<1>. HIDE DEF conn
<1>3. /\ Append(open[b], conn) \in Seq(Conns)
      /\ Len(Append(open[b], conn)) = Len(open[b]) + 1
      /\ Append(open[b], conn)[Len(open[b]) + 1] = conn
  BY <1>1, <1>2
<1>4. open' = [open EXCEPT ![b] = Append(@, conn)] /\ minted' = minted + 1
  BY DEF Opening, conn
<1>5. open'[b] = Append(open[b], conn) /\ open' \in [Procs -> Seq(Conns)]
  BY <1>3, <1>4 DEF MachineTypes
<1>. QED
  BY <1>1, <1>2, <1>3, <1>4, <1>5 DEF MachineTypes

LEMMA RemoveOne ==
    ASSUME NEW S, NEW s \in Seq(S), NEW i \in 1 .. Len(s)
    PROVE  RemoveAt(s, i) \in Seq(S)
  BY DEF RemoveAt

\* Where a command is, after a step in which it stayed or moved to a place that
\* asks nothing, and nobody left their session.
LEMMA AsksOn ==
    ASSUME NEW p \in Commands, AsksWhereItLasts(p),
           stage[p] = "attached" => stage'[p] = "attached",
           \/ doing'[p] = doing[p] /\ job'[p] = job[p]
           \/ doing'[p] \notin {"library", "asking", "choosing"}
    PROVE  AsksWhereItLasts(p)'
  BY DEF AsksWhereItLasts

LEMMA MachineTypesKept ==
    ASSUME MachineInv, MachineNext PROVE MachineTypes'
<1>0. MachineTypes /\ SocketTypes
  BY DEF MachineInv, SocketInv
<1>1. ASSUME NEW p \in Sessions, StartsUp(p) PROVE MachineTypes'
  BY <1>0, <1>1, EveryProcess DEF StartsUp, Enters, MachineTypes, Mains
<1>2. ASSUME NEW p \in Sessions, Used(p) PROVE MachineTypes'
  <2>0. p \in Procs /\ open[p] \in Seq(Conns) /\ UNCHANGED <<doing, job, answer>>
    BY <1>0, <1>2, EveryProcess DEF Used, MachineTypes
  <2>1. ASSUME NEW i \in 1 .. Len(open[p]), Settles(p, i) PROVE MachineTypes'
    <3>1. PICK status \in {"Ready", "Failed"} : open' = [open EXCEPT ![p][i].status = status]
      BY <2>1 DEF Settles
    <3>2. [open[p] EXCEPT ![i].status = status] \in Seq(Conns)
      <4>1. open[p][i] \in Conns
        BY <2>0, <2>1
      <4>2. [open[p][i] EXCEPT !.status = status] \in Conns
        BY <3>1, <4>1 DEF Conns, Statuses
      <4>3. ASSUME NEW conn \in Conns PROVE [open[p] EXCEPT ![i] = conn] \in Seq(Conns)
        BY <2>0, <2>1
      <4>. QED
        BY <2>1, <4>2, <4>3
    <3>3. open' = [open EXCEPT ![p] = [open[p] EXCEPT ![i].status = status]]
      BY <1>0, <3>1 DEF MachineTypes
    <3>. QED
      BY <1>0, <2>0, <2>1, <3>2, <3>3 DEF Settles, MachineTypes
  <2>2. ASSUME NEW profile \in Profiles, Opening(p, profile, "Connecting") PROVE MachineTypes'
    <3>1. minted' \in Nat /\ open' \in [Procs -> Seq(Conns)]
      BY <1>0, <2>0, <2>2, OpeningOne DEF Statuses
    <3>. QED
      BY <1>0, <2>0, <3>1 DEF MachineTypes
  <2>3. ASSUME NEW i \in 1 .. Len(open[p]), open' = [open EXCEPT ![p] = RemoveAt(@, i)],
               UNCHANGED minted
        PROVE  MachineTypes'
    <3>1. RemoveAt(open[p], i) \in Seq(Conns)
      BY <2>0, RemoveOne
    <3>. QED
      BY <1>0, <2>0, <2>3, <3>1 DEF MachineTypes
  <2>4. \/ \E i \in 1 .. Len(open[p]) : Settles(p, i)
        \/ \E profile \in Profiles : Opening(p, profile, "Connecting")
        \/ (\E i \in 1 .. Len(open[p]) : open' = [open EXCEPT ![p] = RemoveAt(@, i)])
              /\ UNCHANGED minted
    BY <1>2, Zenon DEF Used
  <2>. QED
    BY <2>1, <2>2, <2>3, <2>4
<1>3. ASSUME NEW p \in Sessions, Quits(p) PROVE MachineTypes'
  <2>1. <<>> \in Seq(Conns)
    OBVIOUS
  <2>2. open' \in [Procs -> Seq(Conns)]
    BY <1>0, <1>3, <2>1 DEF Quits, MachineTypes
  <2>. QED
    BY <1>0, <1>3, <2>2 DEF Quits, MachineTypes
<1>4. ASSUME NEW p \in Commands \cup Servers, Starts(p) PROVE MachineTypes'
  <2>0. p \in Procs
    BY EveryProcess
  <2>1. PICK kind \in Kinds, profile \in Profiles \cup {None} :
           job' = [job EXCEPT ![p] = [kind |-> kind, profile |-> profile, named |-> FALSE]]
    BY <1>4 DEF Starts
  <2>2. [kind |-> kind, profile |-> profile, named |-> FALSE] \in Jobs
    BY DEF Jobs
  <2>3. job' \in [Procs -> Jobs]
    BY <1>0, <2>1, <2>2 DEF MachineTypes
  <2>4. doing' \in [Procs -> Mains]
    BY <1>0, <1>4 DEF Starts, Enters, MachineTypes, Mains
  <2>. QED
    BY <1>0, <1>4, <2>3, <2>4 DEF Starts, MachineTypes
<1>5. ASSUME NEW p \in Servers, Calls(p) PROVE MachineTypes'
  <2>1. PICK kind \in Kinds, named \in BOOLEAN :
           job' = [job EXCEPT ![p].kind = kind, ![p].named = named]
    BY <1>5 DEF Calls
  <2>2. job' \in [Procs -> Jobs]
    BY <1>0, <2>1 DEF MachineTypes, Jobs
  <2>3. doing' \in [Procs -> Mains]
    BY <1>0, <1>5 DEF Calls, Enters, MachineTypes, Mains
  <2>. QED
    BY <1>0, <1>5, <2>2, <2>3 DEF Calls, MachineTypes
<1>6. ASSUME NEW p \in Servers, Leaves(p) PROVE MachineTypes'
  BY <1>0, <1>6 DEF Leaves, Enters, MachineTypes, Mains
<1>7. ASSUME NEW p \in Procs, Goes(p) PROVE MachineTypes'
  <2>1. CASE UNCHANGED machineVars
    BY <1>0, <2>1 DEF machineVars, MachineTypes
  <2>2. CASE Listens(p)
    <3>1. PICK profile \in Profiles : Opening(p, profile, "Connecting")
      BY <2>2 DEF Listens
    <3>2. minted' \in Nat /\ open' \in [Procs -> Seq(Conns)]
      BY <1>0, <3>1, OpeningOne DEF Statuses
    <3>. QED
      BY <1>0, <2>2, <3>2 DEF Listens, Enters, MachineTypes, Mains
  <2>3. CASE Ends(p)
    BY <1>0, <2>3 DEF Ends, Enters, MachineTypes, Mains
  <2>4. CASE Attaches(p) \/ Owns(p)
    BY <1>0, <2>4 DEF Attaches, Owns, Enters, MachineTypes, Mains
  <2>5. CASE Refuses(p)
    BY <1>0, <2>5, RepliedOne DEF Refuses, MachineTypes
  <2>6. CASE OpensOwn(p)
    <3>1. CASE Enters(p, "asking") /\ UNCHANGED <<open, minted, known, answer>>
      BY <1>0, <2>6, <3>1 DEF OpensOwn, Enters, MachineTypes, Mains
    <3>2. ASSUME NEW profile \in Profiles \cup {None}, NEW status \in Statuses,
                 Opening(p, profile, status),
                 \/ Replied(p, "failed")
                 \/ Enters(p, IF p \in Servers THEN "idle" ELSE "asking") /\ UNCHANGED answer
          PROVE  MachineTypes'
      <4>1. minted' \in Nat /\ open' \in [Procs -> Seq(Conns)]
        BY <1>0, <3>2, OpeningOne
      <4>2. doing' \in [Procs -> Mains] /\ answer' \in [Procs -> Outcomes]
        <5>1. CASE Replied(p, "failed")
          BY <1>0, <5>1, RepliedOne
        <5>2. CASE Enters(p, IF p \in Servers THEN "idle" ELSE "asking") /\ UNCHANGED answer
          BY <1>0, <5>2 DEF Enters, MachineTypes, Mains
        <5>. QED
          BY <3>2, <5>1, <5>2
      <4>. QED
        BY <1>0, <2>6, <4>1, <4>2 DEF OpensOwn, MachineTypes
    <3>3. job[p].profile \in Profiles \cup {None}
      BY <1>0 DEF MachineTypes, Jobs
    <3>. QED
      BY <2>6, <3>1, <3>2, <3>3 DEF OpensOwn, Statuses
  <2>7. CASE Chooses(p)
    <3>1. Replied(p, "failed") \/ (Enters(p, "asking") /\ UNCHANGED answer)
      BY <2>7 DEF Chooses
    <3>2. doing' \in [Procs -> Mains] /\ answer' \in [Procs -> Outcomes]
      <4>1. CASE Replied(p, "failed")
        BY <1>0, <4>1, RepliedOne
      <4>2. CASE Enters(p, "asking") /\ UNCHANGED answer
        BY <1>0, <4>2 DEF Enters, MachineTypes, Mains
      <4>. QED
        BY <3>1, <4>1, <4>2
    <3>. QED
      BY <1>0, <2>7, <3>2 DEF Chooses, MachineTypes
  <2>8. CASE Asks(p)
    <3>0. Backend(p) \in Procs
      BY <1>0 DEF Backend, MachineInv, SocketInv
    <3>1. UNCHANGED job
      BY <2>8 DEF Asks
    <3>2. ASSUME NEW tag \in {"ok", "failed", "lost"}, Replied(p, tag)
          PROVE  doing' \in [Procs -> Mains] /\ answer' \in [Procs -> Outcomes]
      BY <1>0, <3>2, RepliedOne
    <3>3. CASE OpensAnother(p)
      <4>1. CASE Replied(p, "failed") /\ UNCHANGED <<open, minted>>
        BY <1>0, <3>1, <3>2, <4>1 DEF MachineTypes
      <4>2. ASSUME NEW profile \in Profiles, NEW status \in Statuses,
                   Opening(Backend(p), profile, status),
                   Replied(p, IF status = "Ready" THEN "ok" ELSE "failed")
            PROVE  MachineTypes'
        <5>1. minted' \in Nat /\ open' \in [Procs -> Seq(Conns)]
          BY <1>0, <3>0, <4>2, OpeningOne
        <5>. QED
          BY <1>0, <3>1, <3>2, <4>2, <5>1 DEF MachineTypes
      <4>. QED
        BY <3>3, <4>1, <4>2 DEF OpensAnother, Statuses
    <3>4. CASE ClosesOne(p)
      <4>. DEFINE b == Backend(p)
                  there == known[p].choice \in Ids(open[b])
      <4>1. Replied(p, IF there THEN "ok" ELSE "failed") /\ UNCHANGED minted
        BY <3>4 DEF ClosesOne
      <4>2. open' \in [Procs -> Seq(Conns)]
        <5>1. CASE there
          <6>1. Find(open[b], known[p].choice) \in 1 .. Len(open[b])
            BY <5>1 DEF Find, Ids
          <6>2. RemoveAt(open[b], Find(open[b], known[p].choice)) \in Seq(Conns)
            BY <1>0, <3>0, <6>1, RemoveOne DEF MachineTypes
          <6>3. open' = [open EXCEPT ![b] = RemoveAt(open[b], Find(open[b], known[p].choice))]
            BY <1>0, <3>0, <3>4, <5>1 DEF ClosesOne, MachineTypes
          <6>. QED
            BY <1>0, <6>2, <6>3 DEF MachineTypes
        <5>2. CASE ~there
          BY <1>0, <3>4, <5>2 DEF ClosesOne, MachineTypes
        <5>. QED
          BY <5>1, <5>2
      <4>3. doing' \in [Procs -> Mains] /\ answer' \in [Procs -> Outcomes]
        BY <3>2, <4>1
      <4>. QED
        BY <1>0, <3>1, <4>1, <4>2, <4>3 DEF MachineTypes
    <3>5. CASE Reads(p) \/ Follows(p)
      <4>1. PICK tag \in {"ok", "failed"} : Replied(p, tag)
        BY <3>5 DEF Reads, Follows
      <4>2. UNCHANGED <<open, minted>>
        BY <3>5 DEF Reads, Follows
      <4>. QED
        BY <1>0, <3>1, <3>2, <4>1, <4>2 DEF MachineTypes
    <3>6. CASE Replied(p, "ok") /\ UNCHANGED <<open, minted, handles>>
      BY <1>0, <3>1, <3>2, <3>6 DEF MachineTypes
    <3>. QED
      BY <2>8, <3>3, <3>4, <3>5, <3>6, Zenon DEF Asks
  <2>9. CASE IsCutOff(p)
    BY <1>0, <2>9, RepliedOne DEF IsCutOff, MachineTypes
  <2>. QED
    BY <1>7, <2>1, <2>2, <2>3, <2>4, <2>5, <2>6, <2>7, <2>8, <2>9 DEF Goes
<1>8. ASSUME NEW p \in Procs, Dies(p) PROVE MachineTypes'
  BY <1>0, <1>8 DEF Dies, Enters, MachineTypes, Mains
<1>. QED
  BY <1>1, <1>2, <1>3, <1>4, <1>5, <1>6, <1>7, <1>8 DEF MachineNext

LEMMA CommandsKept ==
    ASSUME MachineInv, MachineNext, NEW r \in Commands PROVE AsksWhereItLasts(r)'
<1>0. /\ MachineTypes /\ SocketTypes /\ AsksWhereItLasts(r) /\ r \in Procs
      /\ r \notin Sessions /\ r \notin Servers
  BY MachineAssumption DEF MachineInv, SocketInv
<1>1. ASSUME NEW p \in Sessions, StartsUp(p) \/ Used(p) \/ Quits(p)
      PROVE  AsksWhereItLasts(r)'
  <2>1. p # r /\ p \in Procs
    BY <1>0, EveryProcess
  <2>2. doing'[r] = doing[r] /\ job' = job
    BY <1>0, <1>1, <2>1 DEF StartsUp, Used, Quits, Enters, MachineTypes
  <2>3. stage[r] = "attached" => stage'[r] = "attached"
    BY <1>0, <1>1, <2>1, AttachedStays DEF StartsUp, Used, Quits, socketVars
  <2>. QED
    BY <1>0, <2>2, <2>3, AsksOn
<1>2. ASSUME NEW p \in Commands \cup Servers, Starts(p) PROVE AsksWhereItLasts(r)'
  <2>1. p \in Procs
    BY EveryProcess
  <2>2. stage[r] = "attached" => stage'[r] = "attached"
    BY <1>0, <1>2, <2>1, AttachedStays DEF Starts, socketVars
  <2>3. CASE p = r
    <3>1. doing'[r] \in {"owning", "attaching"}
      BY <1>0, <1>2, <2>3 DEF Starts, Enters, MachineTypes
    <3>. QED
      BY <1>0, <2>2, <3>1, AsksOn
  <2>4. CASE p # r
    <3>1. doing'[r] = doing[r] /\ job'[r] = job[r]
      BY <1>0, <1>2, <2>4 DEF Starts, Enters, MachineTypes
    <3>. QED
      BY <1>0, <2>2, <3>1, AsksOn
  <2>. QED
    BY <2>3, <2>4
<1>3. ASSUME NEW p \in Servers, Calls(p) \/ Leaves(p) PROVE AsksWhereItLasts(r)'
  <2>1. p # r
    BY <1>0
  <2>2. doing'[r] = doing[r] /\ job'[r] = job[r] /\ stage' = stage
    BY <1>0, <1>3, <2>1 DEF Calls, Leaves, Enters, MachineTypes, socketVars
  <2>. QED
    BY <1>0, <2>2, AsksOn
<1>4. ASSUME NEW p \in Procs, Goes(p) PROVE AsksWhereItLasts(r)'
  <2>1. CASE SocketStep(p) /\ UNCHANGED <<libraryVars, machineVars>>
    <3>1. stage[r] = "attached" => stage'[r] = "attached"
      BY <1>0, <2>1, AttachedStays
    <3>. QED
      BY <1>0, <2>1, <3>1, AsksOn DEF machineVars
  <2>2. CASE LibraryStep(p) /\ UNCHANGED <<socketVars, machineVars>>
    BY <1>0, <2>2, AsksOn DEF machineVars, socketVars
  <2>3. CASE p \in Sessions /\ (Listens(p) \/ Ends(p))
    <3>1. p # r
      BY <1>0, <2>3
    <3>2. stage[r] = "attached" => stage'[r] = "attached"
      BY <1>0, <2>3, AttachedStays DEF Listens, Ends, socketVars
    <3>3. doing'[r] = doing[r] /\ job'[r] = job[r]
      BY <1>0, <2>3, <3>1 DEF Listens, Ends, Enters, MachineTypes
    <3>. QED
      BY <1>0, <3>2, <3>3, AsksOn
  <2>4. CASE /\ p \notin Sessions
             /\ \/ Attaches(p) \/ Refuses(p) \/ Owns(p) \/ OpensOwn(p)
                \/ Chooses(p) \/ Asks(p) \/ IsCutOff(p)
    <3>1. stage' = stage /\ job' = job
      BY <2>4 DEF Attaches, Refuses, Owns, OpensOwn, Chooses, Asks, IsCutOff, socketVars
    <3>2. CASE p # r
      <4>1. \E place : Enters(p, place)
        BY <2>4 DEF Attaches, Refuses, Owns, OpensOwn, Chooses, Asks, IsCutOff, Replied,
           OpensAnother, ClosesOne, Reads, Follows
      <4>2. doing'[r] = doing[r]
        BY <1>0, <3>2, <4>1 DEF Enters, MachineTypes
      <4>. QED
        BY <1>0, <3>1, <4>2, AsksOn
    <3>3. CASE p = r
      <4>1. CASE Attaches(p)
        <5>1. doing'[r] = "owning" \/ stage[r] = "attached"
          BY <1>0, <3>3, <4>1 DEF Attaches, Enters, MachineTypes
        <5>. QED
          BY <1>0, <3>1, <5>1 DEF AsksWhereItLasts
      <4>2. CASE Owns(p)
        <5>1. doing'[r] = "library" /\ ~OutlivesTheCommand(job[r].kind)
          BY <1>0, <3>3, <4>2 DEF Owns, Enters, MachineTypes
        <5>. QED
          BY <3>1, <5>1 DEF AsksWhereItLasts
      <4>3. CASE OpensOwn(p)
        <5>1. doing[r] = "library"
          BY <3>3, <4>3 DEF OpensOwn
        <5>2. doing'[r] # "choosing"
          BY <1>0, <3>3, <4>3 DEF OpensOwn, Enters, Replied, MachineTypes
        <5>. QED
          BY <1>0, <3>1, <5>1, <5>2 DEF AsksWhereItLasts
      <4>4. CASE Chooses(p)
        <5>1. stage[r] = "attached"
          BY <1>0, <3>3, <4>4 DEF Chooses, AsksWhereItLasts
        <5>. QED
          BY <3>1, <5>1 DEF AsksWhereItLasts
      <4>5. CASE Refuses(p) \/ Asks(p) \/ IsCutOff(p)
        <5>1. PICK tag \in {"ok", "failed", "lost"} : Replied(p, tag)
          BY <4>5 DEF Refuses, Asks, IsCutOff, OpensAnother, ClosesOne, Reads, Follows
        <5>2. doing'[r] \in {"idle", "ended"}
          BY <1>0, <3>3, <5>1, RepliedOne
        <5>. QED
          BY <1>0, <3>1, <5>2, AsksOn
      <4>. QED
        BY <2>4, <4>1, <4>2, <4>3, <4>4, <4>5
    <3>. QED
      BY <3>2, <3>3
  <2>. QED
    BY <1>4, <2>1, <2>2, <2>3, <2>4, Zenon DEF Goes
<1>5. ASSUME NEW p \in Procs, Dies(p) PROVE AsksWhereItLasts(r)'
  <2>1. CASE p = r
    <3>1. doing'[r] = "ended"
      BY <1>0, <1>5, <2>1 DEF Dies, Enters, MachineTypes
    <3>. QED
      BY <3>1 DEF AsksWhereItLasts
  <2>2. CASE p # r
    <3>1. doing'[r] = doing[r] /\ job' = job /\ stage'[r] = stage[r]
      BY <1>0, <1>5, <2>2 DEF Dies, Killed, Enters, MachineTypes, SocketTypes
    <3>. QED
      BY <1>0, <3>1, AsksOn
  <2>. QED
    BY <2>1, <2>2
<1>. QED
  BY <1>1, <1>2, <1>3, <1>4, <1>5 DEF MachineNext

LEMMA MachineInvariant == MachineSpec => []MachineInv
<1>1. MachineInv /\ [MachineNext]_allVars => MachineInv'
  <2>. SUFFICES ASSUME MachineInv, [MachineNext]_allVars PROVE MachineInv'
    OBVIOUS
  <2>1. SocketInv'
    BY MachineSteps, SocketKeeps DEF MachineInv
  <2>2. CASE MachineNext
    BY <2>1, <2>2, MachineTypesKept, CommandsKept DEF MachineInv
  <2>3. CASE UNCHANGED allVars
    BY <2>1, <2>3
    DEF MachineInv, MachineTypes, AsksWhereItLasts, allVars, machineVars, socketVars
  <2>. QED
    BY <2>2, <2>3
<1>. QED
  BY <1>1, InitialMachine, PTL DEF MachineSpec

\* Only a request's end is an answer, and only its own process's.
LEMMA OnlyAsksSucceeds ==
    ASSUME MachineInv, MachineNext, NEW r \in Commands, answer'[r] # answer[r],
           answer'[r].tag = "ok"
    PROVE  Asks(r)
<1>0. /\ MachineTypes /\ SocketTypes /\ r \in Procs /\ r \notin Sessions /\ r \notin Servers
  BY MachineAssumption DEF MachineInv, SocketInv
<1>1. PICK p \in Procs : Refuses(p) \/ OpensOwn(p) \/ Chooses(p) \/ Asks(p) \/ IsCutOff(p)
  <2>1. ASSUME UNCHANGED answer PROVE FALSE
    BY <2>1
  <2>2. ASSUME NEW p \in Procs, Goes(p)
        PROVE  \/ UNCHANGED answer
               \/ Refuses(p) \/ OpensOwn(p) \/ Chooses(p) \/ Asks(p) \/ IsCutOff(p)
    BY <2>2 DEF Goes, Listens, Ends, Attaches, Owns, machineVars
  <2>3. ASSUME NEW p \in Procs, Dies(p) PROVE UNCHANGED answer
    BY <2>3 DEF Dies
  <2>4. ASSUME NEW p \in Commands \cup Servers, Starts(p) PROVE UNCHANGED answer
    BY <2>4 DEF Starts
  <2>5. ASSUME NEW p, StartsUp(p) \/ Used(p) \/ Quits(p) \/ Calls(p) \/ Leaves(p)
        PROVE  UNCHANGED answer
    BY <2>5 DEF StartsUp, Used, Quits, Calls, Leaves
  <2>. QED
    BY <2>1, <2>2, <2>3, <2>4, <2>5 DEF MachineNext
<1>2. ASSUME NEW tag \in {"ok", "failed", "lost"}, Replied(p, tag)
      PROVE  p = r /\ tag = "ok"
  <2>1. answer'[p] = [tag |-> tag, from |-> Backend(p)]
    BY <1>0, <1>2, RepliedOne
  <2>2. p = r
    BY <1>0, <1>2, RepliedOne
  <2>3. answer'[p].tag = tag
    BY <2>1
  <2>. QED
    BY <2>2, <2>3
<1>3. UNCHANGED answer \/ \E tag \in {"ok", "failed", "lost"} :
         Replied(p, tag) /\ (tag # "ok" \/ Asks(p))
  BY <1>1 DEF Refuses, OpensOwn, Chooses, Asks, IsCutOff, OpensAnother, ClosesOne, Reads,
     Follows
<1>. QED
  BY <1>2, <1>3

\* A command's success can still be found: not in a store of its own, and what it
\* opened is open and ready (CommandsTellTheTruth; agent.rs one_shot, attached,
\* went_wrong).
THEOREM CommandsAreTrue == MachineSpec => CommandsTellTheTruth
<1>. DEFINE Told ==
       \A p \in Commands :
          (answer'[p] # answer[p] /\ answer'[p].tag = "ok") =>
             /\ job[p].kind \in {"ConnectionOpen", "QueryRun"} => answer'[p].from # p
             /\ job[p].kind = "ConnectionOpen" =>
                   \E i \in 1 .. Len(open'[answer'[p].from]) :
                      /\ open'[answer'[p].from][i].id = minted'
                      /\ minted' = minted + 1
                      /\ open'[answer'[p].from][i].status = "Ready"
<1>1. ASSUME MachineInv, MachineNext PROVE Told
  <2>. SUFFICES ASSUME NEW p \in Commands, answer'[p] # answer[p], answer'[p].tag = "ok"
                PROVE  /\ job[p].kind \in {"ConnectionOpen", "QueryRun"} => answer'[p].from # p
                       /\ job[p].kind = "ConnectionOpen" =>
                             \E i \in 1 .. Len(open'[answer'[p].from]) :
                                /\ open'[answer'[p].from][i].id = minted'
                                /\ minted' = minted + 1
                                /\ open'[answer'[p].from][i].status = "Ready"
    OBVIOUS
  <2>0. MachineTypes /\ SocketTypes /\ p \in Procs /\ Backend(p) \in Procs
    BY <1>1, EveryProcess DEF MachineInv, SocketInv, Backend
  <2>1. Asks(p) /\ doing[p] = "asking"
    BY <1>1, OnlyAsksSucceeds DEF Asks
  <2>2. PICK tag \in {"ok", "failed", "lost"} : Replied(p, tag)
    BY <2>1 DEF Asks, OpensAnother, ClosesOne, Reads, Follows
  <2>3. answer'[p] = [tag |-> tag, from |-> Backend(p)]
    BY <2>0, <2>2, RepliedOne
  <2>4. ASSUME job[p].kind \in {"ConnectionOpen", "QueryRun"} PROVE answer'[p].from # p
    <3>1. OutlivesTheCommand(job[p].kind)
      BY <2>4 DEF OutlivesTheCommand, Needs
    <3>2. stage[p] = "attached"
      BY <1>1, <2>1, <3>1 DEF MachineInv, AsksWhereItLasts
    <3>. QED
      BY <1>1, <2>0, <2>3, <3>2 DEF MachineInv, SocketInv, Backend
  <2>5. ASSUME job[p].kind = "ConnectionOpen"
        PROVE  \E i \in 1 .. Len(open'[answer'[p].from]) :
                  /\ open'[answer'[p].from][i].id = minted'
                  /\ minted' = minted + 1
                  /\ open'[answer'[p].from][i].status = "Ready"
    <3>0. ~NamesAConnection(job[p].kind)
      BY <2>5 DEF NamesAConnection, Needs
    <3>1. OpensAnother(p)
      BY <2>1, <2>5, <3>0 DEF Asks
    <3>3. ASSUME Replied(p, "failed") PROVE FALSE
      <4>1. answer'[p] = [tag |-> "failed", from |-> Backend(p)]
        BY <2>0, <3>3, RepliedOne
      <4>. QED
        BY <4>1
    <3>4. PICK profile \in Profiles, status \in {"Ready", "Failed", "Connecting"} :
             /\ Opening(Backend(p), profile, status)
             /\ Replied(p, IF status = "Ready" THEN "ok" ELSE "failed")
      BY <3>1, <3>3, Zenon DEF OpensAnother
    <3>4a. status = "Ready"
      BY <3>3, <3>4
    <3>5. /\ minted' = minted + 1
          /\ Len(open[Backend(p)]) + 1 \in 1 .. Len(open'[Backend(p)])
          /\ open'[Backend(p)][Len(open[Backend(p)]) + 1].id = minted'
          /\ open'[Backend(p)][Len(open[Backend(p)]) + 1].status = "Ready"
      BY <2>0, <3>4, <3>4a, OpeningOne DEF Statuses
    <3>. QED
      BY <2>3, <3>5
  <2>. QED
    BY <2>4, <2>5
<1>2. MachineInv /\ [MachineNext]_allVars => [Told]_allVars
  BY <1>1
<1>. QED
  BY <1>2, MachineInvariant, PTL DEF MachineSpec, CommandsTellTheTruth

-----------------------------------------------------------------------------
(* What is closed.                                                           *)

\* The connections of a store are told apart by their ids, which are given out once.
IdsApart ==
    \A b \in Procs : \A i \in 1 .. Len(open[b]) :
       /\ open[b][i].id <= minted
       /\ \A k \in 1 .. Len(open[b]) : open[b][i].id = open[b][k].id => i = k

\* Whoever is about to close one that it did not name knows the only one it can have
\* meant.
MeansOne(p) ==
    (doing[p] = "asking" /\ job[p].kind = "ConnectionClose" /\ ~job[p].named) =>
       \E i \in 1 .. Len(known[p].listed) :
          /\ Matching(known[p].listed, job[p].profile) = {i}
          /\ known[p].choice = known[p].listed[i].id

\* A command with a store of its own closes nothing, and is answered at its end.
OwnsNoClose(p) ==
    /\ doing[p] = "library" => job[p].kind # "ConnectionClose"
    /\ doing[p] # "ended" => answer[p].tag = "none"

CloseInv ==
    /\ MachineInv
    /\ IdsApart
    /\ known = [p \in Procs |-> [listed |-> known[p].listed, choice |-> known[p].choice]]
    /\ \A p \in Commands \cup Servers : MeansOne(p)
    /\ \A p \in Commands : OwnsNoClose(p)

LEMMA InitialClose == MachineInit => CloseInv
<1>. SUFFICES ASSUME MachineInit PROVE CloseInv
  OBVIOUS
<1>1. MachineInv
  BY InitialMachine
<1>2. /\ \A p \in Procs : open[p] = <<>> /\ doing[p] = "off" /\ answer[p].tag = "none"
      /\ known = [p \in Procs |-> [listed |-> <<>>, choice |-> None]]
  BY DEF MachineInit
<1>. QED  BY <1>1, <1>2, EveryProcess DEF CloseInv, IdsApart, MeansOne, OwnsNoClose

\* What becomes of the connections that are open.
Moved ==
    \/ UNCHANGED <<open, minted>>
    \/ \E b \in Procs, profile \in Profiles \cup {None}, status \in Statuses : Opening(b, profile, status)
    \/ \E b \in Procs : open' = [open EXCEPT ![b] = <<>>] /\ UNCHANGED minted
    \/ \E b \in Procs : \E i \in 1 .. Len(open[b]) :
          open' = [open EXCEPT ![b] = RemoveAt(@, i)] /\ UNCHANGED minted
    \/ \E b \in Procs : \E i \in 1 .. Len(open[b]) : Settles(b, i)

LEMMA RemoveAtIs ==
    ASSUME NEW S, NEW s \in Seq(S), NEW i \in 1 .. Len(s)
    PROVE  /\ Len(RemoveAt(s, i)) = Len(s) - 1
           /\ \A k \in 1 .. Len(s) - 1 : RemoveAt(s, i)[k] = s[IF k < i THEN k ELSE k + 1]
<1>. DEFINE low == SubSeq(s, 1, i - 1)
            high == SubSeq(s, i + 1, Len(s))
<1>0. Len(s) \in Nat
  OBVIOUS
<1>1. /\ low \in Seq(S) /\ Len(low) = i - 1
      /\ \A k \in 1 .. i - 1 : low[k] = s[k]
  BY <1>0
<1>2. /\ high \in Seq(S) /\ Len(high) = Len(s) - i
      /\ \A k \in 1 .. Len(s) - i : high[k] = s[k + i]
  BY <1>0
<1>3. RemoveAt(s, i) = low \o high
  BY DEF RemoveAt
<1>. HIDE DEF low, high
<1>4. /\ Len(low \o high) = (i - 1) + (Len(s) - i)
      /\ \A k \in 1 .. (i - 1) + (Len(s) - i) :
            (low \o high)[k] = IF k <= i - 1 THEN low[k] ELSE high[k - (i - 1)]
  <2>1. /\ Len(low \o high) = Len(low) + Len(high)
        /\ \A k \in 1 .. Len(low) + Len(high) :
              (low \o high)[k] = IF k <= Len(low) THEN low[k] ELSE high[k - Len(low)]
    BY <1>1, <1>2, ConcatProperties
  <2>. QED  BY <1>1, <1>2, <2>1
<1>4a. (i - 1) + (Len(s) - i) = Len(s) - 1 /\ \A k \in 1 .. Len(s) - 1 : k <= i - 1 <=> k < i
  BY <1>0
<1>5. ASSUME NEW k \in 1 .. Len(s) - 1
      PROVE  (low \o high)[k] = s[IF k < i THEN k ELSE k + 1]
  <2>1. CASE k < i
    BY <1>0, <1>1, <1>4, <1>4a, <2>1
  <2>2. CASE ~(k < i)
    <3>1. k - (i - 1) \in 1 .. Len(s) - i /\ (k - (i - 1)) + i = k + 1
      BY <1>0, <2>2
    <3>2. high[k - (i - 1)] = s[(k - (i - 1)) + i]
      BY <1>2, <3>1
    <3>. QED  BY <1>4, <1>4a, <2>2, <3>1, <3>2
  <2>. QED  BY <2>1, <2>2
<1>. QED  BY <1>3, <1>4, <1>4a, <1>5

LEMMA IdsStay == ASSUME MachineTypes, IdsApart, Moved PROVE IdsApart'
<1>0. /\ \A b \in Procs : open[b] \in Seq(Conns) /\ Len(open[b]) \in Nat
      /\ minted \in Nat
      /\ \A b \in Procs : \A i \in 1 .. Len(open[b]) : open[b][i].id \in Nat /\ open[b][i].id <= minted
  <2>1. \A b \in Procs : open[b] \in Seq(Conns)
    BY DEF MachineTypes
  <2>2. \A b \in Procs : \A i \in 1 .. Len(open[b]) : open[b][i] \in Conns
    BY <2>1
  <2>3. \A b \in Procs : \A i \in 1 .. Len(open[b]) : open[b][i].id \in Nat /\ open[b][i].id <= minted
    BY <2>2 DEF IdsApart, Conns
  <2>4. minted \in Nat
    BY DEF MachineTypes
  <2>5. \A b \in Procs : Len(open[b]) \in Nat
    BY <2>1, LenProperties
  <2>. QED  BY <2>1, <2>3, <2>4, <2>5
<1>1. CASE UNCHANGED <<open, minted>>
  BY <1>1 DEF IdsApart
<1>2. ASSUME NEW b \in Procs, NEW profile \in Profiles \cup {None}, NEW status \in Statuses, Opening(b, profile, status)
      PROVE  IdsApart'
  <2>. DEFINE conn == [id |-> minted + 1, profile |-> profile, status |-> status]
  <2>1. /\ open' = [open EXCEPT ![b] = Append(@, conn)] /\ minted' = minted + 1
        /\ conn.id = minted + 1
    BY <1>2 DEF Opening
  <2>. HIDE DEF conn
  <2>2. open'[b] = Append(open[b], conn) /\ \A c \in Procs \ {b} : open'[c] = open[c]
    BY <2>1 DEF MachineTypes
  <2>3. /\ Len(open'[b]) = Len(open[b]) + 1
        /\ open'[b][Len(open[b]) + 1] = conn
        /\ \A i \in 1 .. Len(open[b]) : open'[b][i] = open[b][i]
    BY <1>0, <2>2
  <2>4. ASSUME NEW i \in 1 .. Len(open'[b]), NEW k \in 1 .. Len(open'[b])
        PROVE  /\ open'[b][i].id <= minted'
               /\ open'[b][i].id = open'[b][k].id => i = k
    <3>1. CASE i \in 1 .. Len(open[b]) /\ k \in 1 .. Len(open[b])
      <4>1. open'[b][i] = open[b][i] /\ open'[b][k] = open[b][k]
        BY <2>3, <3>1
      <4>2. open[b][i].id = open[b][k].id => i = k
        BY <3>1 DEF IdsApart
      <4>. QED  BY <1>0, <2>1, <3>1, <4>1, <4>2
    <3>2. CASE i = Len(open[b]) + 1 /\ k \in 1 .. Len(open[b])
      <4>1. open'[b][i].id = minted + 1 /\ open'[b][k].id <= minted /\ open'[b][k].id \in Nat
        BY <1>0, <2>1, <2>3, <3>2
      <4>. QED  BY <1>0, <2>1, <4>1
    <3>3. CASE i \in 1 .. Len(open[b]) /\ k = Len(open[b]) + 1
      <4>1. open'[b][k].id = minted + 1 /\ open'[b][i].id <= minted /\ open'[b][i].id \in Nat
        BY <1>0, <2>1, <2>3, <3>3
      <4>. QED  BY <1>0, <2>1, <4>1
    <3>4. CASE i = Len(open[b]) + 1 /\ k = Len(open[b]) + 1
      BY <1>0, <2>1, <2>3, <3>4
    <3>. QED  BY <1>0, <2>3, <2>4, <3>1, <3>2, <3>3, <3>4
  <2>5. ASSUME NEW c \in Procs \ {b}, NEW i \in 1 .. Len(open'[c])
        PROVE  /\ open'[c][i].id <= minted'
               /\ \A k \in 1 .. Len(open'[c]) : open'[c][i].id = open'[c][k].id => i = k
    <3>1. open'[c] = open[c] /\ i \in 1 .. Len(open[c])
      BY <2>2, <2>5
    <3>2. open[c][i].id \in Nat /\ open[c][i].id <= minted
      BY <1>0, <3>1
    <3>3. open[c][i].id <= minted'
      BY <1>0, <2>1, <3>2
    <3>. QED  BY <3>1, <3>3 DEF IdsApart
  <2>. QED  BY <2>4, <2>5 DEF IdsApart
<1>3. ASSUME NEW b \in Procs, open' = [open EXCEPT ![b] = <<>>], UNCHANGED minted PROVE IdsApart'
  <2>1. open'[b] = <<>> /\ \A c \in Procs \ {b} : open'[c] = open[c]
    BY <1>3 DEF MachineTypes
  <2>. QED  BY <1>3, <2>1 DEF IdsApart
<1>4. ASSUME NEW b \in Procs, NEW i \in 1 .. Len(open[b]), open' = [open EXCEPT ![b] = RemoveAt(@, i)], UNCHANGED minted
      PROVE  IdsApart'
  <2>. DEFINE was(k) == IF k < i THEN k ELSE k + 1
  <2>1. open'[b] = RemoveAt(open[b], i) /\ \A c \in Procs \ {b} : open'[c] = open[c]
    BY <1>4 DEF MachineTypes
  <2>2. /\ Len(RemoveAt(open[b], i)) = Len(open[b]) - 1
        /\ \A k \in 1 .. Len(open[b]) - 1 : RemoveAt(open[b], i)[k] = open[b][was(k)]
    BY <1>0, <1>4, RemoveAtIs
  <2>3. \A k, l \in 1 .. Len(open[b]) - 1 :
           was(k) \in 1 .. Len(open[b]) /\ (was(k) = was(l) => k = l)
    BY <1>0, <1>4
  <2>4. \A k \in 1 .. Len(open'[b]) : was(k) \in 1 .. Len(open[b]) /\ open'[b][k] = open[b][was(k)]
    BY <2>1, <2>2, <2>3
  <2>. HIDE DEF was
  <2>5. ASSUME NEW k \in 1 .. Len(open'[b]), NEW l \in 1 .. Len(open'[b])
        PROVE  open'[b][k].id <= minted' /\ (open'[b][k].id = open'[b][l].id => k = l)
    <3>1. open'[b][k] = open[b][was(k)] /\ open'[b][l] = open[b][was(l)]
      BY <2>4
    <3>2. open[b][was(k)].id <= minted /\ (open[b][was(k)].id = open[b][was(l)].id => was(k) = was(l))
      BY <2>4 DEF IdsApart
    <3>3. was(k) = was(l) => k = l
      BY <2>1, <2>2, <2>3
    <3>. QED  BY <1>4, <3>1, <3>2, <3>3
  <2>6. ASSUME NEW c \in Procs \ {b}, NEW k \in 1 .. Len(open'[c])
        PROVE  /\ open'[c][k].id <= minted'
               /\ \A l \in 1 .. Len(open'[c]) : open'[c][k].id = open'[c][l].id => k = l
    BY <1>4, <2>1 DEF IdsApart
  <2>. QED  BY <2>5, <2>6 DEF IdsApart
<1>5. ASSUME NEW b \in Procs, NEW i \in 1 .. Len(open[b]), Settles(b, i) PROVE IdsApart'
  <2>1. PICK status : open' = [open EXCEPT ![b][i].status = status]
    BY <1>5 DEF Settles
  <2>2. open'[b] = [open[b] EXCEPT ![i].status = status] /\ \A c \in Procs \ {b} : open'[c] = open[c]
    BY <2>1 DEF MachineTypes
  <2>3. /\ Len(open'[b]) = Len(open[b])
        /\ \A k \in 1 .. Len(open[b]) : open'[b][k].id = open[b][k].id
    <3>1. open[b] \in Seq(Conns)
      BY <1>0
    <3>2. open[b][i] \in Conns
      BY <3>1
    <3>3. [open[b][i] EXCEPT !.status = status].id = open[b][i].id
      BY <3>2 DEF Conns
    <3>4. \A k \in 1 .. Len(open[b]) : open'[b][k] = IF k = i THEN [open[b][i] EXCEPT !.status = status] ELSE open[b][k]
      BY <2>2, <3>1
    <3>5. Len(open'[b]) = Len(open[b])
      BY <2>2, <3>1
    <3>. QED  BY <3>3, <3>4, <3>5
  <2>4. minted' = minted
    BY <1>5 DEF Settles
  <2>5. ASSUME NEW k \in 1 .. Len(open'[b])
        PROVE  /\ open'[b][k].id <= minted'
               /\ \A l \in 1 .. Len(open'[b]) : open'[b][k].id = open'[b][l].id => k = l
    BY <2>3, <2>4 DEF IdsApart
  <2>6. ASSUME NEW c \in Procs \ {b}, NEW k \in 1 .. Len(open'[c])
        PROVE  /\ open'[c][k].id <= minted'
               /\ \A l \in 1 .. Len(open'[c]) : open'[c][k].id = open'[c][l].id => k = l
    BY <2>2, <2>4 DEF IdsApart
  <2>. QED  BY <2>5, <2>6 DEF IdsApart
<1>. QED  BY <1>1, <1>2, <1>3, <1>4, <1>5 DEF Moved

LEMMA AllMoved == ASSUME MachineInv, MachineNext PROVE Moved
<1>0. MachineTypes /\ SocketTypes
  BY DEF MachineInv, SocketInv
<1>1. ASSUME NEW p \in Procs, Used(p) PROVE Moved
  <2>1. \/ \E i \in 1 .. Len(open[p]) : Settles(p, i)
        \/ \E profile \in Profiles : Opening(p, profile, "Connecting")
        \/ (\E i \in 1 .. Len(open[p]) : open' = [open EXCEPT ![p] = RemoveAt(@, i)])
              /\ UNCHANGED minted
    BY <1>1, Zenon DEF Used
  <2>. QED  BY <2>1 DEF Moved, Statuses
<1>2. ASSUME NEW p \in Procs, Quits(p) \/ Ends(p) \/ Dies(p) PROVE Moved
  BY <1>2 DEF Quits, Ends, Dies, Moved
<1>3. ASSUME NEW p \in Procs, Listens(p) PROVE Moved
  <2>1. PICK profile \in Profiles : Opening(p, profile, "Connecting")
    BY <1>3 DEF Listens
  <2>. QED  BY <2>1 DEF Moved, Statuses
<1>4. ASSUME NEW p \in Procs, OpensOwn(p) PROVE Moved
  <2>1. job[p].profile \in Profiles \cup {None}
    BY <1>0 DEF MachineTypes, Jobs
  <2>2. \/ UNCHANGED <<open, minted>>
        \/ \E profile \in Profiles \cup {None}, status \in Statuses : Opening(p, profile, status)
    BY <1>4, <2>1 DEF OpensOwn, Statuses
  <2>. QED  BY <2>2 DEF Moved
<1>5. ASSUME NEW p \in Procs, Asks(p) PROVE Moved
  <2>0. Backend(p) \in Procs /\ open[Backend(p)] \in Seq(Conns)
    BY <1>0 DEF Backend, MachineInv, SocketInv, MachineTypes
  <2>1. CASE OpensAnother(p)
    <3>1. \/ UNCHANGED <<open, minted>>
          \/ \E profile \in Profiles, status \in Statuses : Opening(Backend(p), profile, status)
      BY <2>1 DEF OpensAnother, Statuses
    <3>. QED  BY <2>0, <3>1 DEF Moved
  <2>2. CASE ClosesOne(p)
    <3>. DEFINE b == Backend(p)
                i == Find(open[b], known[p].choice)
    <3>1. CASE known[p].choice \in Ids(open[b])
      <4>1. i \in 1 .. Len(open[b])
        BY <3>1 DEF Find, Ids
      <4>2. open' = [open EXCEPT ![b] = RemoveAt(@, i)] /\ UNCHANGED minted
        BY <1>0, <2>0, <2>2, <3>1 DEF ClosesOne, MachineTypes
      <4>. QED  BY <2>0, <4>1, <4>2 DEF Moved
    <3>2. CASE known[p].choice \notin Ids(open[b])
      BY <2>2, <3>2 DEF ClosesOne, Moved
    <3>. QED  BY <3>1, <3>2
  <2>3. CASE Reads(p) \/ Follows(p) \/ UNCHANGED <<open, minted>>
    BY <2>3 DEF Reads, Follows, Moved
  <2>. QED  BY <1>5, <2>1, <2>2, <2>3, Zenon DEF Asks
<1>6. ASSUME NEW p \in Procs,
             \/ StartsUp(p) \/ Starts(p) \/ Calls(p) \/ Leaves(p)
             \/ Attaches(p) \/ Refuses(p) \/ Owns(p) \/ Chooses(p) \/ IsCutOff(p)
             \/ UNCHANGED machineVars
      PROVE Moved
  BY <1>6 DEF StartsUp, Starts, Calls, Leaves, Attaches, Refuses, Owns, Chooses, IsCutOff, machineVars, Moved
<1>7. ASSUME NEW p \in Procs, Goes(p) PROVE Moved
  BY <1>2, <1>3, <1>4, <1>5, <1>6, <1>7, Zenon DEF Goes
<1>. QED  BY <1>1, <1>2, <1>6, <1>7, EveryProcess DEF MachineNext

\* The only one there is.
LEMMA ChosenIs ==
    ASSUME NEW conns, NEW profile, Len(conns) \in Nat, Chosen(conns, profile, TRUE) # None
    PROVE  \E i \in 1 .. Len(conns) :
              /\ Matching(conns, profile) = {i}
              /\ Chosen(conns, profile, TRUE) = conns[i].id
<1>. DEFINE matching == Matching(conns, profile)
            ready == {i \in matching : conns[i].status = "Ready"}
<1>1. matching \subseteq 1 .. Len(conns)
  BY DEF Matching
<1>2. IsFiniteSet(matching)
  <2>1. IsFiniteSet(1 .. Len(conns))
    BY FS_Interval
  <2>. QED  BY <1>1, <2>1, FS_Subset
<1>3. matching # {} /\ ~(Cardinality(matching) > 1)
  BY DEF Chosen
<1>4. Chosen(conns, profile, TRUE) = First(conns, IF ready # {} THEN ready ELSE matching)
  BY <1>3 DEF Chosen
<1>5. PICK i : matching = {i}
  <2>1. Cardinality(matching) \in Nat /\ Cardinality(matching) # 0
    BY <1>2, <1>3, FS_CardinalityType, FS_EmptySet
  <2>2. Cardinality(matching) = 1
    BY <1>3, <2>1
  <2>. QED  BY <1>2, <2>2, FS_Singleton
<1>6. i \in 1 .. Len(conns)
  BY <1>1, <1>5
<1>7. (IF ready # {} THEN ready ELSE matching) = {i}
  BY <1>5
<1>8. First(conns, {i}) = conns[i].id
  <2>1. (CHOOSE k \in {i} : \A l \in {i} : k <= l) = i
    BY <1>6
  <2>. QED  BY <2>1 DEF First
<1>. QED  BY <1>4, <1>5, <1>6, <1>7, <1>8

LEMMA MeansOn ==
    ASSUME NEW p, MeansOne(p),
           \/ doing'[p] = doing[p] /\ job'[p] = job[p] /\ known'[p] = known[p]
           \/ doing'[p] # "asking"
           \/ job'[p].kind # "ConnectionClose"
           \/ job'[p].named
    PROVE  MeansOne(p)'
  BY DEF MeansOne

\* Only a process itself moves its main, its job and what it knows.
Alone(r) == doing'[r] = doing[r] /\ job'[r] = job[r] /\ known'[r] = known[r] /\ answer'[r] = answer[r]

Shaped == known = [p \in Procs |-> [listed |-> known[p].listed, choice |-> known[p].choice]]

LEMMA OthersAlone ==
    ASSUME MachineTypes, Shaped, NEW p \in Procs, NEW r \in Procs, r # p,
           \/ StartsUp(p) \/ Used(p) \/ Quits(p) \/ Starts(p) \/ Calls(p) \/ Leaves(p)
           \/ Goes(p) \/ Dies(p)
    PROVE  Alone(r)
<1>1. ASSUME NEW place, Enters(p, place) PROVE doing'[r] = doing[r]
  BY <1>1 DEF Enters, MachineTypes
<1>2. ASSUME NEW tag, Replied(p, tag) PROVE doing'[r] = doing[r] /\ answer'[r] = answer[r]
  BY <1>1, <1>2 DEF Replied, MachineTypes
<1>3. CASE StartsUp(p) \/ Leaves(p) \/ Dies(p) \/ Listens(p) \/ Ends(p) \/ Attaches(p) \/ Owns(p)
  <2>1. \E place : Enters(p, place)
    BY <1>3 DEF StartsUp, Leaves, Dies, Listens, Ends, Attaches, Owns
  <2>. QED  BY <1>1, <1>3, <2>1 DEF StartsUp, Leaves, Dies, Listens, Ends, Attaches, Owns, Alone
<1>4. CASE Used(p) \/ Quits(p) \/ UNCHANGED machineVars
  BY <1>4 DEF Used, Quits, machineVars, Alone
<1>5. CASE Starts(p)
  <2>1. \E place : Enters(p, place)
    BY <1>5 DEF Starts
  <2>2. PICK x : job' = [job EXCEPT ![p] = x]
    BY <1>5 DEF Starts
  <2>3. job'[r] = job[r]
    BY <2>2 DEF MachineTypes
  <2>. QED  BY <1>1, <1>5, <2>1, <2>3 DEF Starts, Alone
<1>6. CASE Calls(p)
  <2>1. \E place : Enters(p, place)
    BY <1>6 DEF Calls
  <2>2. PICK kind, id : /\ job' = [job EXCEPT ![p].kind = kind, ![p].named = id # None]
                        /\ known' = [known EXCEPT ![p].choice = id]
    BY <1>6 DEF Calls
  <2>3. job'[r] = job[r]
    BY <2>2 DEF MachineTypes
  <2>4. known'[r] = known[r]
    BY <2>2 DEF Shaped
  <2>. QED  BY <1>1, <1>6, <2>1, <2>3, <2>4 DEF Calls, Alone
<1>7. CASE Refuses(p) \/ IsCutOff(p) \/ Asks(p)
  <2>1. \E tag : Replied(p, tag)
    BY <1>7 DEF Refuses, IsCutOff, Asks, OpensAnother, ClosesOne, Reads, Follows
  <2>. QED  BY <1>2, <1>7, <2>1 DEF Refuses, IsCutOff, Asks, Alone
<1>8. CASE OpensOwn(p)
  <2>1. \/ Replied(p, "failed")
        \/ Enters(p, "asking") /\ UNCHANGED answer
        \/ Enters(p, IF p \in Servers THEN "idle" ELSE "asking") /\ UNCHANGED answer
    BY <1>8 DEF OpensOwn
  <2>2. \/ UNCHANGED known \/ \E x : known' = [known EXCEPT ![p].choice = x]
    BY <1>8 DEF OpensOwn
  <2>3. known'[r] = known[r]
    BY <2>2 DEF Shaped
  <2>4. job' = job
    BY <1>8 DEF OpensOwn
  <2>. QED  BY <1>1, <1>2, <2>1, <2>3, <2>4 DEF Alone
<1>9. CASE Chooses(p)
  <2>1. Replied(p, "failed") \/ (Enters(p, "asking") /\ UNCHANGED answer)
    BY <1>9 DEF Chooses
  <2>2. PICK x : known' = [known EXCEPT ![p] = x]
    BY <1>9 DEF Chooses
  <2>3. known'[r] = known[r]
    BY <2>2 DEF Shaped
  <2>4. job' = job
    BY <1>9 DEF Chooses
  <2>. QED  BY <1>1, <1>2, <2>1, <2>3, <2>4 DEF Alone
<1>. QED  BY <1>3, <1>4, <1>5, <1>6, <1>7, <1>8, <1>9, Zenon DEF Goes

\* What a process does itself leaves it meaning what it closes.
LEMMA OwnSteps ==
    ASSUME MachineInv, Shaped, NEW p \in Procs,
           p \in Commands \cup Servers => MeansOne(p),
           p \in Commands => OwnsNoClose(p),
           \/ p \in Sessions /\ (StartsUp(p) \/ Used(p) \/ Quits(p))
           \/ p \in Commands \cup Servers /\ Starts(p)
           \/ p \in Servers /\ (Calls(p) \/ Leaves(p))
           \/ Goes(p) \/ Dies(p)
    PROVE  /\ known' = [q \in Procs |-> [listed |-> known'[q].listed, choice |-> known'[q].choice]]
           /\ p \in Commands \cup Servers => MeansOne(p)'
           /\ p \in Commands => OwnsNoClose(p)'
<1>. DEFINE Goal == /\ known' = [q \in Procs |-> [listed |-> known'[q].listed, choice |-> known'[q].choice]]
                    /\ p \in Commands \cup Servers => MeansOne(p)'
                    /\ p \in Commands => OwnsNoClose(p)'
<1>0. MachineTypes /\ SocketTypes
  BY DEF MachineInv, SocketInv
<1>0a. /\ p \in Sessions => p \notin Commands \cup Servers
       /\ p \in Commands => p \notin Servers
  BY MachineAssumption
<1>a. ASSUME NEW place \in Mains, Enters(p, place) PROVE doing'[p] = place
  BY <1>0, <1>a DEF Enters, MachineTypes
<1>b. ASSUME NEW tag \in {"ok", "failed", "lost"}, Replied(p, tag)
      PROVE  doing'[p] = IF p \in Servers THEN "idle" ELSE "ended"
  BY <1>0, <1>b DEF Replied, Enters, MachineTypes
<1>1. CASE p \in Sessions /\ (StartsUp(p) \/ Used(p) \/ Quits(p) \/ Listens(p) \/ Ends(p))
  <2>1. known' = known
    BY <1>1 DEF StartsUp, Used, Quits, Listens, Ends
  <2>. QED  BY <1>0a, <1>1, <2>1 DEF Shaped
<1>2. CASE UNCHANGED machineVars
  BY <1>2 DEF machineVars, Shaped, MeansOne, OwnsNoClose
<1>3. CASE p \in Commands \cup Servers /\ Starts(p)
  <2>1. known' = known /\ answer' = answer /\ doing[p] = "off" /\ doing'[p] \in {"owning", "attaching"}
    BY <1>0, <1>3 DEF Starts, Enters, MachineTypes
  <2>. QED  BY <2>1 DEF Shaped, MeansOne, OwnsNoClose
<1>4. CASE p \in Servers /\ Calls(p)
  <2>1. PICK kind, id :
          /\ job' = [job EXCEPT ![p].kind = kind, ![p].named = id # None]
          /\ known' = [known EXCEPT ![p].choice = id]
          /\ Enters(p, IF id = None /\ TakesAConnection(kind) THEN "choosing" ELSE "asking")
    BY <1>4 DEF Calls
  <2>2. job'[p].kind = kind /\ job'[p].named = (id # None)
    BY <1>0, <2>1 DEF MachineTypes, Jobs
  <2>3. kind = "ConnectionClose" => TakesAConnection(kind)
    BY DEF TakesAConnection, NamesAConnection, Needs
  <2>4. (id = None /\ TakesAConnection(kind)) => doing'[p] = "choosing"
    BY <1>0, <2>1 DEF Enters, MachineTypes
  <2>5. MeansOne(p)'
    BY <2>2, <2>3, <2>4 DEF MeansOne
  <2>6. known' = [q \in Procs |-> [listed |-> known'[q].listed, choice |-> known'[q].choice]]
    BY <2>1 DEF Shaped
  <2>. QED  BY <1>0a, <1>4, <2>5, <2>6
<1>5. CASE p \in Servers /\ Leaves(p)
  <2>1. known' = known /\ doing'[p] = "ended"
    BY <1>0, <1>5 DEF Leaves, Enters, MachineTypes
  <2>. QED  BY <1>0a, <1>5, <2>1 DEF Shaped, MeansOne
<1>6. CASE Dies(p)
  <2>1. known' = known /\ doing'[p] = "ended"
    BY <1>0, <1>6 DEF Dies, Enters, MachineTypes
  <2>. QED  BY <2>1 DEF Shaped, MeansOne, OwnsNoClose
<1>7. CASE Attaches(p)
  <2>1. known' = known /\ answer' = answer /\ job' = job /\ doing[p] = "attaching"
    BY <1>7 DEF Attaches
  <2>2. \/ doing'[p] \in {"owning", "idle", "choosing"}
        \/ doing'[p] = "asking" /\ ~NamesAConnection(job[p].kind)
    BY <1>0, <1>7 DEF Attaches, Enters, MachineTypes
  <2>3. NamesAConnection("ConnectionClose")
    BY DEF NamesAConnection, Needs
  <2>. QED  BY <2>1, <2>2, <2>3 DEF Shaped, MeansOne, OwnsNoClose
<1>8. CASE Owns(p)
  <2>1. known' = known /\ answer' = answer /\ job' = job /\ doing[p] = "owning" /\ doing'[p] = "library"
    BY <1>0, <1>8 DEF Owns, Enters, MachineTypes
  <2>2. p \in Commands => job[p].kind # "ConnectionClose"
    BY <1>8 DEF Owns, OutlivesTheCommand, Needs
  <2>. QED  BY <2>1, <2>2 DEF Shaped, MeansOne, OwnsNoClose
<1>9. CASE Refuses(p) \/ Asks(p) \/ IsCutOff(p)
  <2>1. PICK tag \in {"ok", "failed", "lost"} : Replied(p, tag)
    BY <1>9 DEF Refuses, Asks, IsCutOff, OpensAnother, ClosesOne, Reads, Follows
  <2>2. doing'[p] = IF p \in Servers THEN "idle" ELSE "ended"
    BY <1>b, <2>1
  <2>3. known' = known
    BY <1>9 DEF Refuses, Asks, IsCutOff
  <2>. QED  BY <1>0a, <2>2, <2>3 DEF Shaped, MeansOne, OwnsNoClose
<1>10. CASE p \notin Sessions /\ OpensOwn(p)
  <2>1. doing[p] = "library" /\ job' = job
    BY <1>10 DEF OpensOwn
  <2>2. known' = known \/ \E x : known' = [known EXCEPT ![p].choice = x]
    BY <1>10 DEF OpensOwn
  <2>3. known' = [q \in Procs |-> [listed |-> known'[q].listed, choice |-> known'[q].choice]]
    BY <2>2 DEF Shaped
  <2>4. \/ Replied(p, "failed")
        \/ Enters(p, "asking") /\ p \in Commands /\ UNCHANGED answer
        \/ Enters(p, IF p \in Servers THEN "idle" ELSE "asking") /\ UNCHANGED answer
    BY <1>10 DEF OpensOwn
  <2>5. p \in Servers => doing'[p] = "idle"
    BY <1>0, <1>0a, <2>4 DEF Replied, Enters, MachineTypes
  <2>6. p \in Commands => doing'[p] = "ended" \/ (doing'[p] = "asking" /\ UNCHANGED answer)
    BY <1>0, <1>0a, <2>4 DEF Replied, Enters, MachineTypes
  <2>. QED  BY <2>1, <2>3, <2>5, <2>6 DEF MeansOne, OwnsNoClose
<1>11. CASE p \notin Sessions /\ Chooses(p)
  <2>. DEFINE conns == open[Backend(p)]
              choice == Chosen(conns, job[p].profile, Destructive(job[p].kind))
  <2>0. Backend(p) \in Procs /\ conns \in Seq(Conns)
    BY <1>0 DEF Backend, MachineInv, SocketInv, MachineTypes
  <2>1. /\ doing[p] = "choosing" /\ job' = job
        /\ known' = [known EXCEPT ![p] = [listed |-> conns, choice |-> choice]]
    BY <1>11 DEF Chooses
  <2>2. known'[p].listed = conns /\ known'[p].choice = choice
    BY <2>1 DEF Shaped
  <2>3. known' = [q \in Procs |-> [listed |-> known'[q].listed, choice |-> known'[q].choice]]
    <3>. HIDE DEF conns, choice
    <3>. QED  BY <2>1 DEF Shaped
  <2>4. \/ Replied(p, "failed")
        \/ Enters(p, "asking") /\ UNCHANGED answer
    BY <1>11 DEF Chooses
  <2>5. doing'[p] # "asking" \/ choice # None \/ Optional(job[p].kind)
    BY <1>0, <1>11 DEF Chooses, Replied, Enters, MachineTypes
  <2>6. ASSUME doing'[p] = "asking", job[p].kind = "ConnectionClose" PROVE MeansOne(p)'
    <3>1. choice = Chosen(conns, job[p].profile, TRUE) /\ choice # None
      BY <2>5, <2>6 DEF Destructive, Optional
    <3>2. Len(conns) \in Nat
      BY <2>0, LenProperties
    <3>. HIDE DEF conns, choice
    <3>3. \E i \in 1 .. Len(conns) :
             /\ Matching(conns, job[p].profile) = {i}
             /\ choice = conns[i].id
      BY <3>1, <3>2, ChosenIs
    <3>. QED  BY <2>1, <2>2, <3>3 DEF MeansOne
  <2>7. MeansOne(p)'
    BY <2>1, <2>6 DEF MeansOne
  <2>8. p \in Commands => doing'[p] = "ended" \/ (doing'[p] = "asking" /\ UNCHANGED answer)
    BY <1>0, <1>0a, <2>4 DEF Replied, Enters, MachineTypes
  <2>. QED  BY <2>1, <2>3, <2>7, <2>8 DEF OwnsNoClose
<1>12. CASE Goes(p)
  BY <1>1, <1>2, <1>7, <1>8, <1>9, <1>10, <1>11, <1>12, Zenon DEF Goes
<1>. QED  BY <1>1, <1>3, <1>4, <1>5, <1>6, <1>12, Zenon

LEMMA CloseInvariant == MachineSpec => []CloseInv
<1>1. ASSUME CloseInv, MachineNext, MachineInv' PROVE CloseInv'
  <2>0. MachineInv /\ MachineTypes /\ IdsApart /\ Shaped
    BY <1>1 DEF CloseInv, MachineInv, Shaped
  <2>1. IdsApart'
    BY <1>1, <2>0, AllMoved, IdsStay
  <2>2. PICK p \in Procs :
           \/ p \in Sessions /\ (StartsUp(p) \/ Used(p) \/ Quits(p))
           \/ p \in Commands \cup Servers /\ Starts(p)
           \/ p \in Servers /\ (Calls(p) \/ Leaves(p))
           \/ Goes(p) \/ Dies(p)
    BY <1>1, EveryProcess, Zenon DEF MachineNext
  <2>3. /\ known' = [q \in Procs |-> [listed |-> known'[q].listed, choice |-> known'[q].choice]]
        /\ p \in Commands \cup Servers => MeansOne(p)'
        /\ p \in Commands => OwnsNoClose(p)'
    BY <1>1, <2>0, <2>2, OwnSteps DEF CloseInv
  <2>4. ASSUME NEW r \in Procs, r # p PROVE Alone(r)
    BY <2>0, <2>2, <2>4, OthersAlone
  <2>5. ASSUME NEW r \in Commands \cup Servers PROVE MeansOne(r)'
    <3>1. MeansOne(r) /\ r \in Procs
      BY <1>1, EveryProcess DEF CloseInv
    <3>2. CASE r # p
      <4>1. Alone(r)
        BY <2>4, <3>1, <3>2
      <4>. QED  BY <3>1, <4>1, MeansOn DEF Alone
    <3>. QED  BY <2>3, <3>2
  <2>6. ASSUME NEW r \in Commands PROVE OwnsNoClose(r)'
    <3>1. OwnsNoClose(r) /\ r \in Procs
      BY <1>1, EveryProcess DEF CloseInv
    <3>2. CASE r # p
      <4>1. Alone(r)
        BY <2>4, <3>1, <3>2
      <4>. QED  BY <3>1, <4>1 DEF Alone, OwnsNoClose
    <3>. QED  BY <2>3, <3>2
  <2>. QED  BY <1>1, <2>1, <2>3, <2>5, <2>6 DEF CloseInv
<1>2. ASSUME CloseInv, UNCHANGED allVars, MachineInv' PROVE CloseInv'
  BY <1>2 DEF CloseInv, IdsApart, MeansOne, OwnsNoClose, allVars, machineVars
<1>3. CloseInv /\ MachineInv' /\ [MachineNext]_allVars => CloseInv'
  BY <1>1, <1>2
<1>. QED  BY <1>3, InitialClose, MachineInvariant, PTL DEF MachineSpec

\* A request ends when it is answered or cut off.
LEMMA OnlyAsksEnds ==
    ASSUME CloseInv, MachineNext, NEW p \in Commands \cup Servers, doing[p] = "asking",
           NEW tag \in {"ok", "failed", "lost"}, Replied(p, tag)
    PROVE  Asks(p) \/ IsCutOff(p)
<1>0. /\ MachineInv /\ MachineTypes /\ Shaped /\ p \in Procs /\ p \notin Sessions
      /\ p \in Commands => p \notin Servers /\ OwnsNoClose(p)
  BY MachineAssumption DEF CloseInv, MachineInv, Shaped
<1>1. doing'[p] = (IF p \in Servers THEN "idle" ELSE "ended") /\ answer'[p].tag = tag
  BY <1>0 DEF Replied, Enters, MachineTypes
<1>2. PICK q \in Procs :
         \/ q \in Sessions /\ (StartsUp(q) \/ Used(q) \/ Quits(q))
         \/ q \in Commands \cup Servers /\ Starts(q)
         \/ q \in Servers /\ (Calls(q) \/ Leaves(q))
         \/ Goes(q) \/ Dies(q)
  BY EveryProcess, Zenon DEF MachineNext
<1>3. q = p
  <2>1. CASE q # p
    <3>1. Alone(p)
      BY <1>0, <1>2, <2>1, OthersAlone
    <3>. QED  BY <1>1, <3>1 DEF Alone
  <2>. QED  BY <2>1
<1>4. ~Starts(p) /\ ~Calls(p) /\ ~Leaves(p)
  BY DEF Starts, Calls, Leaves
<1>5. ASSUME Dies(p) PROVE FALSE
  <2>1. doing'[p] = "ended" /\ answer' = answer
    BY <1>0, <1>5 DEF Dies, Enters, MachineTypes
  <2>. QED  BY <1>0, <1>1, <2>1 DEF OwnsNoClose
<1>6. Goes(p)
  BY <1>0, <1>2, <1>3, <1>4, <1>5
<1>7. ~ UNCHANGED machineVars
  BY <1>1 DEF machineVars
<1>8. ~Attaches(p) /\ ~Refuses(p) /\ ~Owns(p) /\ ~OpensOwn(p) /\ ~Chooses(p)
  BY DEF Attaches, Refuses, Owns, OpensOwn, Chooses
<1>. QED  BY <1>0, <1>6, <1>7, <1>8 DEF Goes

\* Nobody's connection is closed by somebody who did not mean that one
\* (ClosesOnlyWhatItMeant; socket.rs choose).
THEOREM OnlyWhatWasMeant == MachineSpec => ClosesOnlyWhatItMeant
<1>. DEFINE Told ==
       \A p \in Commands \cup Servers :
          (doing[p] = "asking" /\ job[p].kind = "ConnectionClose" /\ ~job[p].named) =>
             /\ Replied(p, "ok") =>
                   \E i \in 1 .. Len(known[p].listed) :
                      /\ Matching(known[p].listed, job[p].profile) = {i}
                      /\ Ids(open[Backend(p)]) \ Ids(open'[Backend(p)]) = {known[p].listed[i].id}
                      /\ \A b \in Procs \ {Backend(p)} : open'[b] = open[b]
             /\ Replied(p, "failed") \/ Replied(p, "lost") => open' = open
<1>1. ASSUME CloseInv, MachineNext PROVE Told
  <2>. SUFFICES ASSUME NEW p \in Commands \cup Servers, doing[p] = "asking",
                       job[p].kind = "ConnectionClose", ~job[p].named
                PROVE  /\ Replied(p, "ok") =>
                             \E i \in 1 .. Len(known[p].listed) :
                                /\ Matching(known[p].listed, job[p].profile) = {i}
                                /\ Ids(open[Backend(p)]) \ Ids(open'[Backend(p)]) = {known[p].listed[i].id}
                                /\ \A b \in Procs \ {Backend(p)} : open'[b] = open[b]
                       /\ Replied(p, "failed") \/ Replied(p, "lost") => open' = open
    OBVIOUS
  <2>. DEFINE b == Backend(p)
              conns == open[b]
              j == Find(conns, known[p].choice)
  <2>0. MachineTypes /\ b \in Procs /\ conns \in Seq(Conns) /\ Len(conns) \in Nat /\ p \in Procs
    <3>1. MachineTypes /\ b \in Procs /\ conns \in Seq(Conns) /\ p \in Procs
      BY <1>1, EveryProcess DEF CloseInv, MachineInv, SocketInv, Backend, MachineTypes
    <3>. QED  BY <3>1, LenProperties
  <2>1. ASSUME NEW tag \in {"ok", "failed", "lost"}, Replied(p, tag)
        PROVE  answer'[p].tag = tag
    BY <2>0, <2>1 DEF Replied, MachineTypes
  <2>2. ASSUME Asks(p) PROVE ClosesOne(p)
    <3>1. /\ job[p].kind # "ConnectionOpen"
          /\ job[p].kind \notin {"QueryStatus", "QueryWait", "QueryCancel"}
          /\ Destructive(job[p].kind)
      BY DEF Destructive
    <3>. QED  BY <2>2, <3>1 DEF Asks
  <2>3. ASSUME ClosesOne(p), known[p].choice \notin Ids(conns) PROVE Replied(p, "failed") /\ open' = open
    BY <2>3 DEF ClosesOne
  <2>4. ASSUME ClosesOne(p), known[p].choice \in Ids(conns)
        PROVE  Replied(p, "ok") /\ open' = [open EXCEPT ![b] = RemoveAt(conns, j)]
    BY <2>0, <2>4 DEF ClosesOne, MachineTypes
  <2>5. ASSUME Replied(p, "ok")
        PROVE  \E i \in 1 .. Len(known[p].listed) :
                  /\ Matching(known[p].listed, job[p].profile) = {i}
                  /\ Ids(conns) \ Ids(open'[b]) = {known[p].listed[i].id}
                  /\ \A c \in Procs \ {b} : open'[c] = open[c]
    <3>1. answer'[p].tag = "ok"
      BY <2>1, <2>5
    <3>2. ~IsCutOff(p)
      <4>1. ASSUME IsCutOff(p) PROVE FALSE
        <5>1. Replied(p, "lost")
          BY <4>1 DEF IsCutOff
        <5>2. answer'[p].tag = "lost"
          BY <2>1, <5>1
        <5>. QED  BY <3>1, <5>2
      <4>. QED  BY <4>1
    <3>3. ClosesOne(p)
      BY <1>1, <2>2, <2>5, <3>2, OnlyAsksEnds
    <3>4. known[p].choice \in Ids(conns)
      <4>1. ASSUME known[p].choice \notin Ids(conns) PROVE FALSE
        <5>1. Replied(p, "failed")
          BY <2>3, <3>3, <4>1
        <5>2. answer'[p].tag = "failed"
          BY <2>1, <5>1
        <5>. QED  BY <3>1, <5>2
      <4>. QED  BY <4>1
    <3>5. open' = [open EXCEPT ![b] = RemoveAt(conns, j)]
      BY <2>4, <3>3, <3>4
    <3>6. /\ open'[b] = RemoveAt(conns, j)
          /\ \A c \in Procs \ {b} : open'[c] = open[c]
      BY <2>0, <3>5 DEF MachineTypes
    <3>7. j \in 1 .. Len(conns) /\ conns[j].id = known[p].choice
      BY <3>4 DEF Find, Ids
    <3>8. \A i \in 1 .. Len(conns) : conns[i].id = known[p].choice => i = j
      BY <1>1, <2>0, <3>7 DEF CloseInv, IdsApart
    <3>. HIDE DEF j, b, conns
    <3>9. Ids(conns) \ Ids(open'[b]) = {known[p].choice}
      <4>. DEFINE was(k) == IF k < j THEN k ELSE k + 1
      <4>1. /\ Len(open'[b]) = Len(conns) - 1
            /\ \A k \in 1 .. Len(conns) - 1 : open'[b][k] = conns[was(k)]
        BY <2>0, <3>6, <3>7, RemoveAtIs
      <4>2. \A k \in 1 .. Len(conns) - 1 : was(k) \in 1 .. Len(conns) /\ was(k) # j
        BY <2>0, <3>7
      <4>3. \A i \in 1 .. Len(conns) : i # j => \E k \in 1 .. Len(conns) - 1 : was(k) = i
        <5>. SUFFICES ASSUME NEW i \in 1 .. Len(conns), i # j
                      PROVE  \E k \in 1 .. Len(conns) - 1 : was(k) = i
          OBVIOUS
        <5>1. CASE i < j
          BY <2>0, <3>7, <5>1
        <5>2. CASE i > j
          <6>1. i - 1 \in 1 .. Len(conns) - 1 /\ was(i - 1) = i
            BY <2>0, <3>7, <5>2
          <6>. QED  BY <6>1
        <5>. QED  BY <3>7, <5>1, <5>2
      <4>. HIDE DEF was
      <4>4. known[p].choice \notin Ids(open'[b])
        BY <3>8, <4>1, <4>2 DEF Ids
      <4>5. ASSUME NEW i \in 1 .. Len(conns), i # j PROVE conns[i].id \in Ids(open'[b])
        <5>1. PICK k \in 1 .. Len(conns) - 1 : was(k) = i
          BY <4>3, <4>5
        <5>2. open'[b][k].id = conns[i].id
          BY <4>1, <5>1
        <5>. QED  BY <4>1, <5>2 DEF Ids
      <4>. QED  BY <3>7, <4>4, <4>5 DEF Ids
    <3>10. PICK i \in 1 .. Len(known[p].listed) :
             /\ Matching(known[p].listed, job[p].profile) = {i}
             /\ known[p].choice = known[p].listed[i].id
      BY <1>1 DEF CloseInv, MeansOne
    <3>. QED  BY <3>6, <3>9, <3>10
  <2>6. ASSUME Replied(p, "failed") \/ Replied(p, "lost") PROVE open' = open
    <3>1. PICK tag \in {"failed", "lost"} : Replied(p, tag) /\ answer'[p].tag = tag
      BY <2>1, <2>6
    <3>2. Asks(p) \/ IsCutOff(p)
      BY <1>1, <3>1, OnlyAsksEnds
    <3>3. CASE IsCutOff(p)
      BY <3>3 DEF IsCutOff
    <3>4. CASE Asks(p)
      <4>1. known[p].choice \notin Ids(conns)
        <5>1. ASSUME known[p].choice \in Ids(conns) PROVE FALSE
          <6>1. Replied(p, "ok")
            BY <2>2, <2>4, <3>4, <5>1
          <6>2. answer'[p].tag = "ok"
            BY <2>1, <6>1
          <6>. QED  BY <3>1, <6>2
        <5>. QED  BY <5>1
      <4>. QED  BY <2>2, <2>3, <3>4, <4>1
    <3>. QED  BY <3>2, <3>3, <3>4
  <2>. QED  BY <2>5, <2>6
<1>2. CloseInv /\ [MachineNext]_allVars => [Told]_allVars
  BY <1>1
<1>. QED  BY <1>2, CloseInvariant, PTL DEF MachineSpec, ClosesOnlyWhatItMeant

=============================================================================
