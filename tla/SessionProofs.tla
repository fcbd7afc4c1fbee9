--------------------------- MODULE SessionProofs ----------------------------
(***************************************************************************)
(* SessionActor keeps SessionContract, and a PostgreSQL session under it is  *)
(* still that actor.                                                         *)
(***************************************************************************)
EXTENDS PgSession, TLAPS

\* Where a caller's command is says what the caller is doing: it waits in line
\* for room, or its command is in the channel or at the driver and it waits for
\* the answer or has left.  Nobody has two commands out.
CommandOut(c) == c.at \in {"waiting", "gone"} /\ c.call \in Calls

Outstanding ==
    /\ \A i \in 1 .. Len(senders) :
          caller[senders[i]].at = "sending" /\ caller[senders[i]].call \in Calls
    /\ \A i, j \in 1 .. Len(senders) : i # j => senders[i] # senders[j]
    /\ \A i \in 1 .. Len(queue) : queue[i] # Close => CommandOut(caller[queue[i]])
    /\ \A i, j \in 1 .. Len(queue) : i # j /\ queue[i] # Close => queue[i] # queue[j]
    /\ serving # None => /\ CommandOut(caller[serving])
                         /\ actor = "running"
                         /\ \A i \in 1 .. Len(queue) : queue[i] # serving

IInv == TypeOK /\ Outstanding

-----------------------------------------------------------------------------

\* Without takes one element out and keeps the others in order.
LEMMA WithoutOne ==
    ASSUME NEW S, NEW s \in Seq(S), NEW i \in 1 .. Len(s)
    PROVE  /\ Without(s, i) \in Seq(S)
           /\ Len(Without(s, i)) = Len(s) - 1
           /\ \A j \in 1 .. Len(s) - 1 :
                 Without(s, i)[j] = IF j < i THEN s[j] ELSE s[j + 1]
  BY DEF Without

\* A caller that moves on keeps its type, and nobody else moves.
LEMMA MovesOne ==
    ASSUME NEW t \in Callers, NEW at \in Stages, TypeOK, Moves(t, at)
    PROVE  /\ caller' \in [Callers -> [at : Stages, call : Calls \cup {None}]]
           /\ caller'[t] = [at |-> at, call |-> caller[t].call]
           /\ \A u \in Callers \ {t} : caller'[u] = caller[u]
  BY DEF TypeOK, Moves

-----------------------------------------------------------------------------
(* The actor's invariant.                                                   *)

LEMMA InitialSession == Init => IInv
<1>. SUFFICES ASSUME Init
              PROVE  IInv
  OBVIOUS
<1>1. Len(senders) = 0 /\ Len(queue) = 0
  BY DEF Init
<1>2. caller \in [Callers -> [at : Stages, call : Calls \cup {None}]]
  BY DEF Init, Stages
<1>3. senders \in Seq(Callers) /\ queue \in Seq(Callers \cup {Close})
  BY DEF Init
<1>4. Len(queue) <= Depth
  BY <1>1, SessionAssumption
<1>5. TypeOK
  BY <1>2, <1>3, <1>4 DEF Init, TypeOK
<1>6. Outstanding
  BY <1>1 DEF Init, Outstanding
<1>. QED  BY <1>5, <1>6 DEF IInv

\* Who has no command out has none anywhere.
LEMMA NothingOut ==
    ASSUME IInv, NEW t \in Callers, caller[t].at \notin {"waiting", "gone", "sending"}
    PROVE  /\ \A i \in 1 .. Len(senders) : senders[i] # t
           /\ \A i \in 1 .. Len(queue) : queue[i] # t
           /\ serving # t
  BY SessionAssumption DEF IInv, TypeOK, Outstanding, CommandOut

\* A step of one caller leaves what is said of the others' commands as it was.
LEMMA OthersStay ==
    ASSUME IInv, NEW t \in Callers,
           \A u \in Callers \ {t} : caller'[u] = caller[u],
           UNCHANGED <<serving, actor>>
    PROVE  /\ \A i \in 1 .. Len(senders) : senders[i] # t =>
                 caller'[senders[i]].at = "sending" /\ caller'[senders[i]].call \in Calls
           /\ \A i \in 1 .. Len(queue) : queue[i] \notin {Close, t} => CommandOut(caller'[queue[i]])
           /\ serving \notin {None, t} => CommandOut(caller'[serving])
<1>1. \A i \in 1 .. Len(senders) : senders[i] \in Callers
  BY DEF IInv, TypeOK
<1>2. \A i \in 1 .. Len(queue) : queue[i] \in Callers \cup {Close}
  BY DEF IInv, TypeOK
<1>3. serving # None => serving \in Callers
  BY DEF IInv, TypeOK
<1>4. \A u \in Callers \ {t} : CommandOut(caller[u]) => CommandOut(caller'[u])
  BY DEF CommandOut
<1>5. \A i \in 1 .. Len(senders) : senders[i] # t =>
         caller'[senders[i]].at = "sending" /\ caller'[senders[i]].call \in Calls
  BY <1>1 DEF IInv, Outstanding
<1>6. \A i \in 1 .. Len(queue) : queue[i] \notin {Close, t} => CommandOut(caller'[queue[i]])
  BY <1>2, <1>4 DEF IInv, Outstanding
<1>7. serving \notin {None, t} => CommandOut(caller'[serving])
  BY <1>3, <1>4 DEF IInv, Outstanding
<1>. QED  BY <1>5, <1>6, <1>7

\* The channel left alone, too, and t nowhere in it unless it may be.
LEMMA ChannelStays ==
    ASSUME IInv, NEW t \in Callers,
           \A u \in Callers \ {t} : caller'[u] = caller[u],
           UNCHANGED <<senders, queue, serving, actor>>,
           \A i \in 1 .. Len(senders) : senders[i] # t,
           \/ CommandOut(caller'[t])
           \/ serving # t /\ \A i \in 1 .. Len(queue) : queue[i] # t
    PROVE  Outstanding'
<1>1. \A i \in 1 .. Len(senders) :
         caller'[senders[i]].at = "sending" /\ caller'[senders[i]].call \in Calls
  BY OthersStay
<1>2. \A i \in 1 .. Len(queue) : queue[i] # Close => CommandOut(caller'[queue[i]])
  BY OthersStay
<1>3. serving # None => CommandOut(caller'[serving])
  BY OthersStay
<1>. QED  BY <1>1, <1>2, <1>3 DEF IInv, Outstanding, CommandOut

\* A command of t's goes into the channel.
LEMMA CommandGoesIn ==
    ASSUME IInv, NEW t \in Callers,
           \A u \in Callers \ {t} : caller'[u] = caller[u],
           CommandOut(caller'[t]),
           queue' = Append(queue, t),
           UNCHANGED <<serving, actor>>,
           \A i \in 1 .. Len(queue) : queue[i] # t,
           serving # t
    PROVE  /\ queue' \in Seq(Callers \cup {Close})
           /\ Len(queue') = Len(queue) + 1
           /\ \A i \in 1 .. Len(queue') : queue'[i] # Close => CommandOut(caller'[queue'[i]])
           /\ \A i, j \in 1 .. Len(queue') : i # j /\ queue'[i] # Close => queue'[i] # queue'[j]
           /\ serving # None => /\ CommandOut(caller'[serving])
                                /\ actor = "running"
                                /\ \A i \in 1 .. Len(queue') : queue'[i] # serving
<1>1. /\ queue' \in Seq(Callers \cup {Close})
      /\ Len(queue') = Len(queue) + 1
      /\ \A j \in 1 .. Len(queue) : queue'[j] = queue[j]
      /\ queue'[Len(queue) + 1] = t
      /\ Len(queue) \in Nat
  BY DEF IInv, TypeOK
<1>2. \A j \in 1 .. Len(queue') : queue'[j] # Close => CommandOut(caller'[queue'[j]])
  <2>. SUFFICES ASSUME NEW j \in 1 .. Len(queue'), queue'[j] # Close
                PROVE  CommandOut(caller'[queue'[j]])
    OBVIOUS
  <2>1. CASE j = Len(queue) + 1
    BY <1>1, <2>1
  <2>2. CASE j \in 1 .. Len(queue)
    BY <1>1, <2>2, OthersStay
  <2>. QED  BY <1>1, <2>1, <2>2
<1>3. \A j, k \in 1 .. Len(queue') : j # k /\ queue'[j] # Close => queue'[j] # queue'[k]
  <2>1. \A j, k \in 1 .. Len(queue) : j # k /\ queue[j] # Close => queue[j] # queue[k]
    BY DEF IInv, Outstanding
  <2>. SUFFICES ASSUME NEW j \in 1 .. Len(queue'), NEW k \in 1 .. Len(queue'),
                       j # k, queue'[j] # Close
                PROVE  queue'[j] # queue'[k]
    OBVIOUS
  <2>2. CASE j \in 1 .. Len(queue) /\ k \in 1 .. Len(queue)
    BY <1>1, <2>1, <2>2
  <2>3. CASE j = Len(queue) + 1 /\ k \in 1 .. Len(queue)
    BY <1>1, <2>3
  <2>4. CASE k = Len(queue) + 1 /\ j \in 1 .. Len(queue)
    BY <1>1, <2>4
  <2>. QED  BY <1>1, <2>2, <2>3, <2>4
<1>4. serving # None => /\ CommandOut(caller'[serving])
                        /\ actor = "running"
                        /\ \A j \in 1 .. Len(queue') : queue'[j] # serving
  BY <1>1, OthersStay DEF IInv, Outstanding
<1>. QED  BY <1>1, <1>2, <1>3, <1>4

\* A task that neither has a command out nor waits in line does as it likes.
LEMMA FreeTaskMoves ==
    ASSUME IInv, NEW t \in Callers, NEW at \in {"holding", "done", "gone"},
           caller[t].at \in {"idle", "holding"}, Moves(t, at),
           UNCHANGED <<senders, queue, serving, actor>>,
           owner' \in BOOLEAN, aborting' \in BOOLEAN, started' = started
    PROVE  IInv'
<1>1. TypeOK'
  BY MovesOne DEF IInv, TypeOK, Stages
<1>2. Outstanding'
  <2>1. at \in Stages /\ caller[t].at \notin {"waiting", "gone", "sending"}
    BY DEF Stages
  <2>2. /\ caller' \in [Callers -> [at : Stages, call : Calls \cup {None}]]
        /\ \A u \in Callers \ {t} : caller'[u] = caller[u]
    BY <2>1, MovesOne DEF IInv
  <2>. QED  BY <2>1, <2>2, NothingOut, ChannelStays
<1>. QED  BY <1>1, <1>2 DEF IInv

LEMMA AskKeeps ==
    ASSUME IInv, NEW t \in Callers, NEW call \in Calls, Ask(t, call)
    PROVE  IInv'
<1>1. caller[t].at = "holding"
  BY DEF Ask, Asks
<1>2. /\ \A i \in 1 .. Len(senders) : senders[i] # t
      /\ \A i \in 1 .. Len(queue) : queue[i] # t
      /\ serving # t
  BY <1>1, NothingOut
<1>3. CASE actor = "stopped"
  <2>1. caller' = [caller EXCEPT ![t] = [at |-> "refused", call |-> call]]
        /\ UNCHANGED <<senders, queue, serving, actor, owner, aborting, started>>
    BY <1>3 DEF Ask
  <2>2. TypeOK'
    BY <2>1 DEF IInv, TypeOK, Stages
  <2>3. Outstanding'
    <3>1. \A u \in Callers \ {t} : caller'[u] = caller[u]
      BY <2>1 DEF IInv, TypeOK
    <3>. QED  BY <1>2, <2>1, <3>1, ChannelStays
  <2>. QED  BY <2>2, <2>3 DEF IInv
<1>4. CASE actor # "stopped" /\ Room
  <2>1. /\ caller' = [caller EXCEPT ![t] = [at |-> "waiting", call |-> call]]
        /\ queue' = Append(queue, t)
        /\ UNCHANGED <<senders, serving, actor, owner, aborting, started>>
    BY <1>4 DEF Ask
  <2>2. /\ caller' \in [Callers -> [at : Stages, call : Calls \cup {None}]]
        /\ CommandOut(caller'[t])
        /\ \A u \in Callers \ {t} : caller'[u] = caller[u]
    BY <2>1 DEF IInv, TypeOK, Stages, CommandOut
  <2>3. Len(queue) + 1 <= Depth
    BY <1>4, SessionAssumption DEF IInv, TypeOK, Room
  <2>4. TypeOK'
    BY <1>2, <2>1, <2>2, <2>3, CommandGoesIn DEF IInv, TypeOK
  <2>5. \A i \in 1 .. Len(senders) :
           caller'[senders[i]].at = "sending" /\ caller'[senders[i]].call \in Calls
    BY <1>2, <2>1, <2>2, OthersStay
  <2>6. Outstanding'
    BY <1>2, <2>1, <2>2, <2>5, CommandGoesIn DEF IInv, Outstanding
  <2>. QED  BY <2>4, <2>6 DEF IInv
<1>5. CASE actor # "stopped" /\ ~Room
  <2>1. /\ caller' = [caller EXCEPT ![t] = [at |-> "sending", call |-> call]]
        /\ senders' = Append(senders, t)
        /\ UNCHANGED <<queue, serving, actor, owner, aborting, started>>
    BY <1>5 DEF Ask
  <2>2. TypeOK'
    BY <2>1 DEF IInv, TypeOK, Stages
  <2>3. /\ senders' \in Seq(Callers)
        /\ Len(senders') = Len(senders) + 1
        /\ \A j \in 1 .. Len(senders) : senders'[j] = senders[j]
        /\ senders'[Len(senders) + 1] = t
        /\ Len(senders) \in Nat
    BY <2>1 DEF IInv, TypeOK
  <2>4. /\ caller'[t].at = "sending" /\ caller'[t].call \in Calls
        /\ \A u \in Callers \ {t} : caller'[u] = caller[u]
    BY <2>1 DEF IInv, TypeOK
  <2>5. \A j \in 1 .. Len(senders') :
           caller'[senders'[j]].at = "sending" /\ caller'[senders'[j]].call \in Calls
    <3>. SUFFICES ASSUME NEW j \in 1 .. Len(senders')
                  PROVE  caller'[senders'[j]].at = "sending" /\ caller'[senders'[j]].call \in Calls
      OBVIOUS
    <3>1. CASE j = Len(senders) + 1
      BY <2>3, <2>4, <3>1
    <3>2. CASE j \in 1 .. Len(senders)
      BY <1>2, <2>1, <2>3, <2>4, <3>2, OthersStay
    <3>. QED  BY <2>3, <3>1, <3>2
  <2>6. \A i, j \in 1 .. Len(senders') : i # j => senders'[i] # senders'[j]
    <3>1. \A i, j \in 1 .. Len(senders) : i # j => senders[i] # senders[j]
      BY DEF IInv, Outstanding
    <3>. SUFFICES ASSUME NEW i \in 1 .. Len(senders'), NEW j \in 1 .. Len(senders'), i # j
                  PROVE  senders'[i] # senders'[j]
      OBVIOUS
    <3>2. CASE i \in 1 .. Len(senders) /\ j \in 1 .. Len(senders)
      BY <2>3, <3>1, <3>2
    <3>3. CASE i = Len(senders) + 1 /\ j \in 1 .. Len(senders)
      BY <1>2, <2>3, <3>3
    <3>4. CASE j = Len(senders) + 1 /\ i \in 1 .. Len(senders)
      BY <1>2, <2>3, <3>4
    <3>. QED  BY <2>3, <3>2, <3>3, <3>4
  <2>7. /\ \A i \in 1 .. Len(queue) : queue[i] # Close => CommandOut(caller'[queue[i]])
        /\ serving # None => CommandOut(caller'[serving])
    BY <1>2, <2>1, <2>4, OthersStay
  <2>8. Outstanding'
    BY <2>1, <2>5, <2>6, <2>7 DEF IInv, Outstanding
  <2>. QED  BY <2>2, <2>8 DEF IInv
<1>. QED  BY <1>3, <1>4, <1>5

\* What is left of the line without t, and who is in it.
LEMMA LineWithout ==
    ASSUME IInv, NEW t \in Callers, NEW i \in 1 .. Len(senders), senders[i] = t,
           senders' = Without(senders, i)
    PROVE  /\ senders' \in Seq(Callers)
           /\ \A j \in 1 .. Len(senders') :
                 senders'[j] # t /\ \E k \in 1 .. Len(senders) : senders'[j] = senders[k]
           /\ \A j, k \in 1 .. Len(senders') : j # k => senders'[j] # senders'[k]
           /\ caller[t].at = "sending"
           /\ caller[t].call \in Calls
           /\ \A j \in 1 .. Len(queue) : queue[j] # t
           /\ serving # t
<1>. DEFINE s == senders'
<1>1. /\ s \in Seq(Callers)
      /\ Len(s) = Len(senders) - 1
      /\ \A j \in 1 .. Len(senders) - 1 :
            s[j] = IF j < i THEN senders[j] ELSE senders[j + 1]
  BY WithoutOne DEF IInv, TypeOK
<1>2. \A j, k \in 1 .. Len(senders) : j # k => senders[j] # senders[k]
  BY DEF IInv, TypeOK, Outstanding
<1>3. \A j \in 1 .. Len(s) :
         s[j] # t /\ \E k \in 1 .. Len(senders) : s[j] = senders[k]
  <2>. SUFFICES ASSUME NEW j \in 1 .. Len(s)
                PROVE  s[j] # t /\ \E k \in 1 .. Len(senders) : s[j] = senders[k]
    OBVIOUS
  <2>1. j \in 1 .. Len(senders) - 1
    BY <1>1
  <2>2. Len(senders) \in Nat
    BY DEF IInv, TypeOK
  <2>3. PICK k \in 1 .. Len(senders) : k # i /\ s[j] = senders[k]
    <3>1. CASE j < i
      BY <1>1, <2>1, <2>2, <3>1
    <3>2. CASE ~(j < i)
      BY <1>1, <2>1, <2>2, <3>2
    <3>. QED  BY <3>1, <3>2
  <2>4. senders[k] # senders[i]
    BY <1>2, <2>3
  <2>. QED  BY <2>3, <2>4
<1>4. \A j, k \in 1 .. Len(s) : j # k => s[j] # s[k]
  <2>. SUFFICES ASSUME NEW j \in 1 .. Len(s), NEW k \in 1 .. Len(s), j # k
                PROVE  s[j] # s[k]
    OBVIOUS
  <2>1. j \in 1 .. Len(senders) - 1 /\ k \in 1 .. Len(senders) - 1
    BY <1>1
  <2>. QED  BY <1>1, <1>2, <2>1
<1>5. caller[senders[i]].at = "sending" /\ caller[senders[i]].call \in Calls
  BY DEF IInv, Outstanding
<1>6. ~CommandOut(caller[t])
  BY <1>5 DEF CommandOut
<1>7. t # Close /\ t # None
  BY SessionAssumption
<1>8. \A j \in 1 .. Len(queue) : queue[j] # t
  <2>. SUFFICES ASSUME NEW j \in 1 .. Len(queue), queue[j] = t
                PROVE  FALSE
    OBVIOUS
  <2>1. CommandOut(caller[queue[j]])
    BY <1>7 DEF IInv, Outstanding
  <2>. QED  BY <1>6, <2>1
<1>9. serving # t
  <2>. SUFFICES ASSUME serving = t
                PROVE  FALSE
    OBVIOUS
  <2>1. CommandOut(caller[serving])
    BY <1>7 DEF IInv, Outstanding
  <2>. QED  BY <1>6, <2>1
<1>. QED  BY <1>1, <1>3, <1>4, <1>5, <1>8, <1>9

LEMMA EnterKeeps ==
    ASSUME IInv, NEW t \in Callers, Enter(t)
    PROVE  IInv'
<1>1. PICK i \in 1 .. Len(senders) :
         senders[i] = t /\ Len(queue) + i <= Depth /\ senders' = Without(senders, i)
  BY DEF Enter
<1>2. /\ queue' = Append(queue, t)
      /\ Moves(t, "waiting")
      /\ UNCHANGED <<serving, actor, owner, aborting, started>>
  BY DEF Enter
<1>3. /\ caller' \in [Callers -> [at : Stages, call : Calls \cup {None}]]
      /\ caller'[t] = [at |-> "waiting", call |-> caller[t].call]
      /\ \A u \in Callers \ {t} : caller'[u] = caller[u]
  BY <1>2, MovesOne DEF IInv, Stages
<1>4. /\ senders' \in Seq(Callers)
      /\ \A j \in 1 .. Len(senders') :
            senders'[j] # t /\ \E k \in 1 .. Len(senders) : senders'[j] = senders[k]
      /\ \A j, k \in 1 .. Len(senders') : j # k => senders'[j] # senders'[k]
      /\ caller[t].call \in Calls
      /\ \A j \in 1 .. Len(queue) : queue[j] # t
      /\ serving # t
  BY <1>1, LineWithout
<1>5. CommandOut(caller'[t])
  BY <1>3, <1>4 DEF CommandOut
<1>6. /\ queue' \in Seq(Callers \cup {Close})
      /\ Len(queue') = Len(queue) + 1
      /\ \A j \in 1 .. Len(queue') : queue'[j] # Close => CommandOut(caller'[queue'[j]])
      /\ \A j, k \in 1 .. Len(queue') : j # k /\ queue'[j] # Close => queue'[j] # queue'[k]
      /\ serving # None => /\ CommandOut(caller'[serving])
                           /\ actor = "running"
                           /\ \A j \in 1 .. Len(queue') : queue'[j] # serving
  BY <1>2, <1>3, <1>4, <1>5, CommandGoesIn
<1>7. Len(queue') <= Depth
  BY <1>1, <1>6, SessionAssumption DEF IInv, TypeOK
<1>8. TypeOK'
  BY <1>2, <1>3, <1>4, <1>6, <1>7 DEF IInv, TypeOK
<1>9. \A j \in 1 .. Len(senders') :
         caller'[senders'[j]].at = "sending" /\ caller'[senders'[j]].call \in Calls
  BY <1>2, <1>3, <1>4, OthersStay
<1>10. Outstanding'
  BY <1>2, <1>4, <1>6, <1>9 DEF Outstanding
<1>. QED  BY <1>8, <1>10 DEF IInv

LEMMA LeaveKeeps ==
    ASSUME IInv, NEW t \in Callers, Leave(t)
    PROVE  IInv'
<1>1. CASE caller[t].at = "holding"
  BY <1>1, FreeTaskMoves DEF Leave, IInv, TypeOK
<1>2. CASE caller[t].at = "waiting"
  <2>1. Moves(t, "gone") /\ UNCHANGED <<senders, queue, serving, actor, owner, aborting, started>>
    BY <1>2 DEF Leave
  <2>2. TypeOK'
    BY <2>1, MovesOne DEF IInv, TypeOK, Stages
  <2>3. Outstanding'
    <3>1. /\ caller'[t] = [at |-> "gone", call |-> caller[t].call]
          /\ \A u \in Callers \ {t} : caller'[u] = caller[u]
      BY <2>1, MovesOne DEF IInv, Stages
    <3>2. \A i \in 1 .. Len(senders) : senders[i] # t
      BY <1>2 DEF IInv, Outstanding
    <3>3. \/ CommandOut(caller'[t])
          \/ serving # t /\ \A i \in 1 .. Len(queue) : queue[i] # t
      BY <1>2, <3>1, SessionAssumption DEF IInv, Outstanding, CommandOut
    <3>. QED  BY <2>1, <3>1, <3>2, <3>3, ChannelStays
  <2>. QED  BY <2>2, <2>3 DEF IInv
<1>3. CASE caller[t].at = "sending"
  <2>1. PICK i \in 1 .. Len(senders) : senders[i] = t /\ senders' = Without(senders, i)
    BY <1>3 DEF Leave
  <2>2. Moves(t, "gone") /\ UNCHANGED <<queue, serving, actor, owner, aborting, started>>
    BY DEF Leave
  <2>3. TypeOK'
    BY <2>1, <2>2, LineWithout, MovesOne DEF IInv, TypeOK, Stages
  <2>4. Outstanding'
    <3>1. \A u \in Callers \ {t} : caller'[u] = caller[u]
      BY <2>2, MovesOne DEF IInv, Stages
    <3>2. /\ \A j \in 1 .. Len(senders') :
                senders'[j] # t /\ \E k \in 1 .. Len(senders) : senders'[j] = senders[k]
          /\ \A j, k \in 1 .. Len(senders') : j # k => senders'[j] # senders'[k]
          /\ \A j \in 1 .. Len(queue) : queue[j] # t
          /\ serving # t
      BY <2>1, LineWithout
    <3>3. \A j \in 1 .. Len(senders') :
             caller'[senders'[j]].at = "sending" /\ caller'[senders'[j]].call \in Calls
      BY <2>2, <3>1, <3>2, OthersStay
    <3>4. \A j \in 1 .. Len(queue) : queue[j] # Close => CommandOut(caller'[queue[j]])
      BY <2>2, <3>1, <3>2, OthersStay
    <3>5. serving # None => CommandOut(caller'[serving])
      BY <2>2, <3>1, <3>2, OthersStay
    <3>. QED  BY <2>2, <3>2, <3>3, <3>4, <3>5 DEF IInv, Outstanding, CommandOut
  <2>. QED  BY <2>3, <2>4 DEF IInv
<1>. QED  BY <1>1, <1>2, <1>3 DEF Leave, Holds

LEMMA DisconnectKeeps == ASSUME IInv, Disconnect PROVE IInv'
<1>1. /\ UNCHANGED <<caller, senders, serving, actor, started>>
      /\ owner' \in BOOLEAN /\ aborting' \in BOOLEAN
  BY DEF Disconnect, Kept
<1>2. CASE queue' = queue
  BY <1>1, <1>2 DEF IInv, TypeOK, Outstanding, CommandOut
<1>3. CASE queue' = Append(queue, Close) /\ Room
  <2>1. /\ queue' \in Seq(Callers \cup {Close})
        /\ Len(queue') = Len(queue) + 1
        /\ \A j \in 1 .. Len(queue) : queue'[j] = queue[j]
        /\ queue'[Len(queue) + 1] = Close
    BY <1>3 DEF IInv, TypeOK
  <2>2. Len(queue) \in Nat /\ Len(senders) \in Nat
    BY DEF IInv, TypeOK
  <2>3. Len(queue') <= Depth
    BY <1>3, <2>1, <2>2, SessionAssumption DEF Room
  <2>4. TypeOK'
    BY <1>1, <2>1, <2>3 DEF IInv, TypeOK
  <2>5. serving # None => serving # Close
    BY SessionAssumption DEF IInv, TypeOK
  <2>6. Outstanding'
    BY <1>1, <2>1, <2>2, <2>5 DEF IInv, Outstanding, CommandOut
  <2>. QED  BY <2>4, <2>6 DEF IInv
<1>. QED  BY <1>2, <1>3 DEF Disconnect

LEMMA RecvKeeps == ASSUME IInv, Recv PROVE IInv'
<1>. DEFINE cmd == Head(queue)
<1>1. /\ queue \in Seq(Callers \cup {Close}) /\ Len(queue) \in Nat /\ Len(queue) > 0
      /\ cmd = queue[1] /\ cmd \in Callers \cup {Close}
      /\ queue' \in Seq(Callers \cup {Close})
      /\ Len(queue') = Len(queue) - 1
      /\ \A i \in 1 .. Len(queue) - 1 : queue'[i] = queue[i + 1]
  BY DEF IInv, TypeOK, Recv
<1>2. TypeOK'
  BY <1>1, SessionAssumption DEF IInv, TypeOK, Recv
<1>3. \A i \in 1 .. Len(queue') : cmd # Close => queue'[i] # cmd
  <2>1. \A i, j \in 1 .. Len(queue) : i # j /\ queue[i] # Close => queue[i] # queue[j]
    BY DEF IInv, Outstanding
  <2>2. \A i \in 1 .. Len(queue') : 1 # i + 1 /\ 1 \in 1 .. Len(queue) /\ i + 1 \in 1 .. Len(queue)
    BY <1>1
  <2>. QED  BY <1>1, <2>1, <2>2
<1>4. Outstanding'
  BY <1>1, <1>3, SessionAssumption DEF IInv, TypeOK, Outstanding, CommandOut, Recv, Idle
<1>. QED  BY <1>2, <1>4 DEF IInv

LEMMA StopsKeeps == IInv /\ Stops => IInv'
  BY SessionAssumption DEF IInv, TypeOK, Outstanding, CommandOut, Stops, Stages

LEMMA AnswersKeeps ==
    ASSUME IInv, NEW t \in Callers, Answers(t)
    PROVE  IInv'
<1>1. TypeOK'
  BY DEF IInv, TypeOK, Answers, Stages
<1>2. /\ \A i \in 1 .. Len(queue) : queue[i] # t
      /\ \A i \in 1 .. Len(senders) : senders[i] # t
      /\ \A u \in Callers \ {t} : caller'[u] = caller[u]
  BY SessionAssumption DEF IInv, TypeOK, Outstanding, CommandOut, Answers
<1>3. Outstanding'
  BY <1>1, <1>2 DEF IInv, TypeOK, Outstanding, CommandOut, Answers
<1>. QED  BY <1>1, <1>3 DEF IInv

\* Every step of the actor keeps its invariant.
LEMMA SessionStep == IInv /\ [Next]_vars => IInv'
<1>. SUFFICES ASSUME IInv, [Next]_vars
              PROVE  IInv'
  OBVIOUS
<1>1. ASSUME NEW t \in Callers, Spawn(t)
      PROVE  IInv'
  BY <1>1, FreeTaskMoves DEF Spawn, IInv, TypeOK
<1>2. ASSUME NEW t \in Callers, End(t)
      PROVE  IInv'
  BY <1>2, FreeTaskMoves DEF End, IInv, TypeOK
<1>3. ASSUME NEW t \in Callers, Unwinds(t)
      PROVE  IInv'
  BY <1>3 DEF Unwinds, IInv, TypeOK, Outstanding, CommandOut
<1>4. CASE Forget
  BY <1>4 DEF Forget, IInv, TypeOK, Outstanding, CommandOut
<1>5. CASE Disconnected
  BY <1>5 DEF Disconnected, IInv, TypeOK, Outstanding, CommandOut
<1>6. CASE UNCHANGED vars
  BY <1>6 DEF vars, IInv, TypeOK, Outstanding, CommandOut
<1>. QED
  BY <1>1, <1>2, <1>3, <1>4, <1>5, <1>6, AskKeeps, EnterKeeps, LeaveKeeps,
     DisconnectKeeps, RecvKeeps, StopsKeeps, AnswersKeeps
     DEF Next, Closed, Panics

\* The actor's variables keep their types and its channel its bound.
THEOREM ActorTypes == Spec => []IInv
  BY InitialSession, SessionStep, PTL DEF Spec

-----------------------------------------------------------------------------
(* The actor keeps the contract.                                            *)

seen == [t \in Callers |-> Seen(caller[t])]

Call == [at : Stages, call : Calls \cup {None}]

\* What is seen of a caller.
LEMMA SeenOf ==
    ASSUME TypeOK, NEW t \in Callers
    PROVE  /\ seen[t] = Seen(caller[t])
           /\ seen[t].call = caller[t].call
           /\ caller[t].at \notin {"sending", "waiting"} => seen[t] = caller[t]
           /\ caller[t].at \notin {"sending", "waiting"} => seen[t].at = caller[t].at
           /\ caller[t].at \in {"sending", "waiting"} => seen[t].at = "open"
<1>1. caller[t] \in Call
  BY DEF TypeOK, Call
<1>. QED  BY <1>1 DEF seen, Seen, Call

\* A caller that changes is seen to change, and nobody else is.
LEMMA SeenChange ==
    ASSUME TypeOK, NEW t \in Callers, NEW c, caller' = [caller EXCEPT ![t] = c]
    PROVE  seen' = [seen EXCEPT ![t] = Seen(c)]
  BY DEF TypeOK, seen

LEMMA SeenMove ==
    ASSUME TypeOK, NEW t \in Callers, NEW at \in Stages, Moves(t, at)
    PROVE  seen' = [seen EXCEPT ![t].at = IF at \in {"sending", "waiting"} THEN "open" ELSE at]
<1>. DEFINE c == [caller[t] EXCEPT !.at = at]
            d == IF at \in {"sending", "waiting"} THEN "open" ELSE at
<1>1. caller[t] \in Call
  BY DEF TypeOK, Call
<1>2. caller' = [caller EXCEPT ![t] = c]
  BY DEF Moves
<1>3. seen' = [seen EXCEPT ![t] = Seen(c)]
  BY <1>2, SeenChange
<1>4. seen[t] = Seen(caller[t])
  BY SeenOf
<1>5. Seen(c) = [seen[t] EXCEPT !.at = d]
  BY <1>1, <1>4 DEF Seen, Call
<1>. QED  BY <1>3, <1>5

LEMMA SessionBegins == Init => Contract!Init
  BY DEF Init, Contract!Init, Seen

\* What the contract does not see.
LEMMA NotSeen ==
    ASSUME UNCHANGED <<serving, started>>, (actor # "running")' = (actor # "running"),
           seen' = seen
    PROVE  UNCHANGED Contract!vars
  BY DEF Contract!vars, seen

LEMMA TasksKeepContract ==
    ASSUME IInv, NEW t \in Callers
    PROVE  /\ Spawn(t) => Contract!Spawn(t)
           /\ End(t) => Contract!End(t)
           /\ Leave(t) => Contract!Leave(t)
           /\ Enter(t) => UNCHANGED Contract!vars
<1>. TypeOK
  BY DEF IInv
<1>1. ASSUME Spawn(t) PROVE Contract!Spawn(t)
  <2>1. seen' = [seen EXCEPT ![t].at = "holding"] /\ seen[t].at = "idle"
    BY <1>1, SeenMove, SeenOf DEF Spawn, Stages
  <2>. QED  BY <1>1, <2>1 DEF Spawn, Contract!Spawn, Contract!Moves, seen
<1>2. ASSUME End(t) PROVE Contract!End(t)
  <2>1. /\ seen' = [seen EXCEPT ![t].at = "done"]
        /\ seen[t].at = "holding" /\ seen[t].call # None
    BY <1>2, SeenMove, SeenOf DEF End, Stages
  <2>. QED  BY <1>2, <2>1 DEF End, Contract!End, Contract!Moves, seen
<1>3. ASSUME Leave(t) PROVE Contract!Leave(t)
  <2>1. /\ seen' = [seen EXCEPT ![t].at = "gone"]
        /\ seen[t].at \in {"holding", "open"}
    BY <1>3, SeenMove, SeenOf DEF Leave, Holds, Stages
  <2>. QED  BY <1>3, <2>1 DEF Leave, Contract!Leave, Contract!Moves, seen
<1>4. ASSUME Enter(t) PROVE UNCHANGED Contract!vars
  <2>1. PICK i \in 1 .. Len(senders) :
           senders[i] = t /\ senders' = Without(senders, i)
    BY <1>4 DEF Enter
  <2>2. seen' = [seen EXCEPT ![t].at = "open"]
    BY <1>4, SeenMove DEF Enter, Stages
  <2>3. seen[t].at = "open"
    BY <2>1, LineWithout, SeenOf
  <2>4. seen' = seen
    <3>1. seen[t] = [at |-> seen[t].at, call |-> seen[t].call]
      BY DEF seen, Seen
    <3>2. [seen[t] EXCEPT !.at = "open"] = seen[t]
      BY <2>3, <3>1
    <3>. QED  BY <2>2, <3>2 DEF seen
  <2>. QED  BY <1>4, <2>4, NotSeen DEF Enter
<1>. QED  BY <1>1, <1>2, <1>3, <1>4

LEMMA AskKeepsContract ==
    ASSUME IInv, NEW t \in Callers, NEW call \in Calls, Ask(t, call)
    PROVE  Contract!Ask(t, call)
<1>1. PICK at \in {"refused", "waiting", "sending"} :
         /\ caller' = [caller EXCEPT ![t] = [at |-> at, call |-> call]]
         /\ at = "refused" => actor # "running"
  BY DEF Ask
<1>2. seen' = [seen EXCEPT ![t] = Seen([at |-> at, call |-> call])]
  BY <1>1, SeenChange DEF IInv
<1>3. Seen([at |-> at, call |-> call]) =
         [at |-> IF at = "refused" THEN "refused" ELSE "open", call |-> call]
  BY DEF Seen
<1>4. Contract!Asks(t, call)
  <2>1. seen[t].at = "holding" /\ seen[t].call = caller[t].call
    BY SeenOf DEF IInv, Ask, Asks
  <2>. QED  BY <2>1 DEF Ask, Asks, Contract!Asks, seen
<1>. QED  BY <1>1, <1>2, <1>3, <1>4 DEF Ask, Contract!Ask, seen

LEMMA RecvKeepsContract ==
    ASSUME IInv, Recv
    PROVE  \/ \E t \in Callers : Contract!Start(t)
           \/ Contract!Closes
           \/ UNCHANGED Contract!vars
<1>. DEFINE cmd == Head(queue)
<1>1. cmd = queue[1] /\ 1 \in 1 .. Len(queue) /\ cmd \in Callers \cup {Close}
  BY DEF IInv, TypeOK, Recv
<1>2. seen' = seen /\ serving = None /\ actor = "running" /\ caller' = caller
  BY DEF Recv, Idle, seen
<1>3. CASE cmd = Close
  BY <1>2, <1>3 DEF Recv, Contract!Closes, seen
<1>4. CASE cmd # Close /\ Abandoned(cmd)
  <2>1. UNCHANGED <<serving, started, actor>>
    BY <1>2, <1>4 DEF Recv
  <2>. QED  BY <1>2, <2>1, NotSeen
<1>5. CASE cmd # Close /\ ~Abandoned(cmd)
  <2>1. cmd \in Callers /\ CommandOut(caller[cmd])
    BY <1>1, <1>5 DEF IInv, Outstanding
  <2>2. /\ serving' = cmd
        /\ started' = IF caller[cmd].call = "execute" THEN started \cup {cmd} ELSE started
        /\ actor' = actor
    BY <1>5 DEF Recv
  <2>3. /\ seen[cmd].call = caller[cmd].call
        /\ \/ seen[cmd].at = "open"
           \/ seen[cmd].at = "gone" /\ seen[cmd].call = "read"
    BY <1>5, <2>1, SeenOf DEF IInv, CommandOut, Abandoned, Calls
  <2>4. Contract!Start(cmd)
    BY <1>2, <2>2, <2>3 DEF Contract!Start, seen
  <2>. QED  BY <2>1, <2>4
<1>. QED  BY <1>3, <1>4, <1>5

LEMMA DriverKeepsContract ==
    ASSUME IInv, NEW t \in Callers, serving = t
    PROVE  /\ Answers(t) => Contract!Finish(t)
           /\ Unwinds(t) => Contract!Finish(t)
<1>. TypeOK
  BY DEF IInv
<1>1. caller[t].at \in {"waiting", "gone"} /\ t # None
  BY SessionAssumption DEF IInv, Outstanding, CommandOut
<1>2. ASSUME Answers(t) PROVE Contract!Finish(t)
  <2>1. CASE caller[t].at = "waiting"
    <3>1. Moves(t, "holding")
      BY <1>2, <2>1 DEF Answers, Moves, TypeOK
    <3>2. seen' = [seen EXCEPT ![t].at = "holding"] /\ seen[t].at = "open"
      BY <2>1, <3>1, SeenMove, SeenOf DEF Stages
    <3>. QED  BY <1>2, <3>2 DEF Answers, Contract!Finish, Contract!Moves, seen
  <2>2. CASE caller[t].at = "gone"
    <3>1. caller' = caller
      BY <1>2, <2>2 DEF Answers, TypeOK
    <3>2. seen' = seen /\ seen[t].at = "gone"
      BY <2>2, <3>1, SeenOf DEF seen
    <3>. QED  BY <1>2, <3>2 DEF Answers, Contract!Finish, seen
  <2>. QED  BY <1>1, <2>1, <2>2
<1>3. ASSUME Unwinds(t) PROVE Contract!Finish(t)
  <2>1. seen' = seen /\ seen[t].at = "gone"
    BY <1>3, SeenOf DEF seen, Unwinds, Abandoned
  <2>. QED  BY <1>3, <2>1 DEF Unwinds, Contract!Finish, seen
<1>. QED  BY <1>2, <1>3

LEMMA StopsKeepsContract == ASSUME IInv, Stops PROVE Contract!Stops
<1>1. \A t \in Callers :
         Seen(caller'[t]) = IF seen[t].at = "open" THEN [seen[t] EXCEPT !.at = "refused"]
                                                   ELSE seen[t]
  <2>. SUFFICES ASSUME NEW t \in Callers
                PROVE  Seen(caller'[t]) =
                          IF seen[t].at = "open" THEN [seen[t] EXCEPT !.at = "refused"]
                                                 ELSE seen[t]
    OBVIOUS
  <2>1. caller[t] \in Call /\ seen[t] = Seen(caller[t])
    BY SeenOf DEF IInv, TypeOK, Call
  <2>2. CASE caller[t].at \in {"sending", "waiting"}
    BY <2>1, <2>2 DEF Stops, Seen, Call
  <2>3. CASE caller[t].at \notin {"sending", "waiting"}
    BY <2>1, <2>3 DEF Stops, Seen, Call, Stages
  <2>. QED  BY <2>2, <2>3
<1>2. seen' = [t \in Callers |-> IF seen[t].at = "open" THEN [seen[t] EXCEPT !.at = "refused"]
                                                        ELSE seen[t]]
  BY <1>1 DEF seen
<1>. QED  BY <1>2 DEF Stops, Contract!Stops, seen

LEMMA ContractStep == IInv /\ [Next]_vars => [Contract!Next]_(Contract!vars)
<1>. SUFFICES ASSUME IInv, [Next]_vars
              PROVE  Contract!Next \/ UNCHANGED Contract!vars
  OBVIOUS
<1>1. ASSUME NEW t \in Callers, Answers(t) \/ Unwinds(t)
      PROVE  Contract!Finish(t)
  BY <1>1, DriverKeepsContract DEF Answers, Unwinds
<1>2. CASE Disconnect \/ Forget \/ UNCHANGED vars
  <2>1. seen' = seen /\ UNCHANGED <<serving, started, actor>>
    BY <1>2 DEF Disconnect, Forget, vars, seen
  <2>. QED  BY <2>1, NotSeen
<1>3. CASE Disconnected
  BY <1>3 DEF Disconnected, Contract!Closes, Contract!Next
<1>4. Closed \/ (\E t \in Callers : Panics(t)) => Contract!Next
  BY StopsKeepsContract DEF Closed, Panics, Contract!Next
<1>5. Recv => Contract!Next \/ UNCHANGED Contract!vars
  BY RecvKeepsContract DEF Contract!Next
<1>6. ASSUME NEW t \in Callers, NEW call \in Calls, Ask(t, call)
      PROVE  Contract!Next
  BY <1>6, AskKeepsContract DEF Contract!Next, Contract!Calls, Calls
<1>7. ASSUME NEW t \in Callers, Spawn(t) \/ End(t) \/ Leave(t) \/ Enter(t)
      PROVE  Contract!Next \/ UNCHANGED Contract!vars
  BY <1>7, TasksKeepContract DEF Contract!Next
<1>8. ASSUME NEW t \in Callers, Answers(t) \/ Unwinds(t)
      PROVE  Contract!Next
  BY <1>1, <1>8 DEF Contract!Next
<1>. QED  BY <1>2, <1>3, <1>4, <1>5, <1>6, <1>7, <1>8 DEF Next

\* What SessionHandle promises is kept by its actor, whatever the callers do and
\* however full the channel is: one call at the driver at a time, every call
\* answered or refused, no statement begun for a caller that has left, nothing
\* begun once the session is over.
THEOREM ActorKeepsContract == Spec => ContractKept
<1>1. Spec => []IInv
  BY ActorTypes
<1>. QED  BY <1>1, SessionBegins, ContractStep, PTL DEF Spec, ContractKept, Contract!Spec

-----------------------------------------------------------------------------
(* What closing does to statements that were begun.                         *)

\* A statement that was begun and not answered is the one at the driver.
Begun ==
    \A t \in started :
        /\ caller[t].call = "execute"
        /\ caller[t].at \in {"holding", "waiting", "refused", "done", "gone"}
        /\ caller[t].at = "waiting" => serving = t

LEMMA BegunInitially == Init => Begun
  BY DEF Init, Begun

\* One task moves, and none whose statement was begun goes back to the channel.
LEMMA BegunMove ==
    ASSUME IInv, Begun, NEW t \in Callers, NEW at \in Stages, Moves(t, at),
           serving' = serving, started' = started,
           t \in started => at \in {"holding", "done", "gone"}
    PROVE  Begun'
<1>1. \A u \in started : u \in Callers
  BY DEF IInv, TypeOK
<1>2. /\ caller'[t] = [at |-> at, call |-> caller[t].call]
      /\ \A u \in Callers \ {t} : caller'[u] = caller[u]
  BY MovesOne DEF IInv
<1>. QED  BY <1>1, <1>2 DEF Begun

LEMMA BegunAsk ==
    ASSUME IInv, Begun, NEW t \in Callers, NEW call \in Calls, Ask(t, call)
    PROVE  /\ Begun'
           /\ t \notin started
           /\ \A u \in Callers \ {t} : caller'[u] = caller[u]
<1>1. caller[t].call # "execute"
  BY SessionAssumption DEF Ask, Asks, Calls
<1>2. t \notin started
  BY <1>1 DEF Begun
<1>3. \A u \in started : u \in Callers /\ u # t
  BY <1>2 DEF IInv, TypeOK
<1>4. /\ \A u \in Callers \ {t} : caller'[u] = caller[u]
      /\ serving' = serving /\ started' = started
  BY DEF Ask, IInv, TypeOK
<1>. QED  BY <1>2, <1>3, <1>4 DEF Begun

LEMMA BegunRecv == ASSUME IInv, Begun, Recv PROVE Begun'
<1>. DEFINE cmd == Head(queue)
<1>1. cmd = queue[1] /\ 1 \in 1 .. Len(queue)
  BY DEF IInv, TypeOK, Recv
<1>2. caller' = caller /\ serving = None
  BY DEF Recv, Idle
<1>3. CASE cmd = Close
  BY <1>2, <1>3 DEF Recv, Begun
<1>4. CASE cmd # Close
  <2>1. CommandOut(caller[cmd])
    BY <1>1, <1>4 DEF IInv, Outstanding
  <2>2. \A t \in started : caller[t].at # "waiting"
    BY <1>2, SessionAssumption DEF Begun, IInv, TypeOK
  <2>3. \/ serving' = None /\ started' = started
        \/ serving' = cmd /\ started' = started
        \/ /\ serving' = cmd /\ started' = started \cup {cmd}
           /\ caller[cmd].call = "execute"
    BY <1>4 DEF Recv
  <2>. QED  BY <1>2, <2>1, <2>2, <2>3 DEF Begun, CommandOut
<1>. QED  BY <1>3, <1>4

LEMMA BegunStops == ASSUME IInv, Begun, Stops PROVE Begun'
<1>1. started' = started /\ \A u \in started : u \in Callers
  BY DEF Stops, IInv, TypeOK
<1>2. \A u \in Callers :
         IF caller[u].at \in {"sending", "waiting"}
           THEN caller'[u].at = "refused" /\ caller'[u].call = caller[u].call
           ELSE caller'[u] = caller[u]
  BY DEF Stops, IInv, TypeOK
<1>. QED  BY <1>1, <1>2 DEF Begun

LEMMA BegunStep == IInv /\ Begun /\ [Next]_vars => Begun'
<1>. SUFFICES ASSUME IInv, Begun, [Next]_vars
              PROVE  Begun'
  OBVIOUS
<1>1. ASSUME NEW t \in Callers, Spawn(t) \/ End(t) \/ Leave(t)
      PROVE  Begun'
  BY <1>1, BegunMove DEF Spawn, End, Leave, Stages, Begun
<1>2. ASSUME NEW t \in Callers, Enter(t)
      PROVE  Begun'
  <2>1. PICK i \in 1 .. Len(senders) :
           senders[i] = t /\ senders' = Without(senders, i)
    BY <1>2 DEF Enter
  <2>2. caller[t].at = "sending"
    BY <2>1, LineWithout
  <2>. QED  BY <1>2, <2>2, BegunMove DEF Enter, Stages, Begun
<1>3. ASSUME NEW t \in Callers, Answers(t)
      PROVE  Begun'
  <2>1. \A u \in started : u \in Callers
    BY DEF IInv, TypeOK
  <2>2. /\ caller'[t].call = caller[t].call
        /\ caller'[t].at = IF caller[t].at = "waiting" THEN "holding" ELSE caller[t].at
        /\ \A u \in Callers \ {t} : caller'[u] = caller[u]
        /\ started' = started /\ serving = t
    BY <1>3 DEF Answers, IInv, TypeOK
  <2>. QED  BY <2>1, <2>2 DEF Begun
<1>4. ASSUME NEW t \in Callers, Unwinds(t)
      PROVE  Begun'
  BY <1>4 DEF Unwinds, Abandoned, Begun
<1>5. CASE Disconnect \/ Forget \/ Disconnected \/ UNCHANGED vars
  BY <1>5 DEF Disconnect, Forget, Disconnected, vars, Begun
<1>. QED
  BY <1>1, <1>2, <1>3, <1>4, <1>5, BegunAsk, BegunRecv, BegunStops
     DEF Next, Closed, Panics

\* Closing a session loses no statement that was begun: its caller is told
\* SessionClosed only where the driver took the actor with it.
THEOREM ClosingIsKind == Spec => ClosingLosesNothing
<1>. DEFINE Kind == \A t \in started :
                        caller[t].at # "refused" /\ caller'[t].at = "refused" =>
                            actor = "running"
<1>1. IInv /\ Begun /\ [Next]_vars => [Kind]_vars
  <2>. SUFFICES ASSUME IInv, Begun, Next, NEW t \in started,
                       caller[t].at # "refused", caller'[t].at = "refused"
                PROVE  actor = "running"
    OBVIOUS
  <2>1. t \in Callers
    BY DEF IInv, TypeOK
  <2>2. ASSUME NEW u \in Callers, Spawn(u) \/ End(u) \/ Leave(u) \/ Enter(u)
        PROVE  FALSE
    <3>1. PICK at \in {"holding", "done", "gone", "waiting"} : Moves(u, at)
      BY <2>2 DEF Spawn, End, Leave, Enter
    <3>2. /\ caller'[u] = [at |-> at, call |-> caller[u].call]
          /\ \A v \in Callers \ {u} : caller'[v] = caller[v]
      BY <3>1, MovesOne DEF IInv, Stages
    <3>. QED  BY <2>1, <3>2
  <2>3. ASSUME NEW u \in Callers, NEW call \in Calls, Ask(u, call)
        PROVE  FALSE
    BY <2>1, <2>3, BegunAsk
  <2>4. ASSUME NEW u \in Callers, Answers(u)
        PROVE  FALSE
    BY <2>1, <2>4 DEF Answers, IInv, TypeOK
  <2>5. ASSUME NEW u \in Callers, Panics(u)
        PROVE  actor = "running"
    BY <2>5, SessionAssumption DEF Panics, IInv, Outstanding
  <2>6. ASSUME Closed
        PROVE  FALSE
    <3>1. caller[t].at = "waiting"
      BY <2>1, <2>6 DEF Closed, Stops, Begun, IInv, TypeOK
    <3>2. serving # None /\ actor # "running"
      BY <2>1, <2>6, <3>1, SessionAssumption DEF Begun, Closed
    <3>. QED  BY <3>2 DEF IInv, Outstanding
  <2>7. ASSUME NEW u \in Callers, Unwinds(u)
        PROVE  FALSE
    BY <2>7 DEF Unwinds
  <2>8. ASSUME Disconnect \/ Forget \/ Recv \/ Disconnected
        PROVE  FALSE
    BY <2>8 DEF Disconnect, Forget, Recv, Disconnected
  <2>. QED  BY <2>2, <2>3, <2>4, <2>5, <2>6, <2>7, <2>8 DEF Next
<1>2. Spec => []IInv
  BY ActorTypes
<1>3. Spec => []Begun
  BY <1>2, BegunInitially, BegunStep, PTL DEF Spec
<1>4. Spec => [][Kind]_vars
  BY <1>1, <1>2, <1>3, PTL DEF Spec
<1>. QED  BY <1>4 DEF ClosingLosesNothing

-----------------------------------------------------------------------------
(* A PostgreSQL session under the actor.                                    *)

LEMMA PgBegins == PgInit => Init
  BY DEF PgInit

LEMMA PgIsTheActor == [PgNext]_allVars => [Next]_vars
<1>. SUFFICES ASSUME [PgNext]_allVars
              PROVE  Next \/ UNCHANGED vars
  OBVIOUS
<1>1. ASSUME NEW t \in Callers, Tasks(t)
      PROVE  Next
  BY <1>1 DEF Tasks, Next
<1>2. ASSUME NEW t \in Callers, Driver(t) \/ PgPanics(t)
      PROVE  Next
  BY <1>2 DEF Driver, PgAnswers, PgUnwinds, PgPanics, Next
<1>3. ASSUME NEW t \in Callers, RequestIsSent(t) \/ RequestGivesUp(t)
      PROVE  UNCHANGED vars
  BY <1>3 DEF RequestIsSent, RequestGivesUp
<1>4. PgLock \/ PgExecutes \/ ServerEnds => UNCHANGED vars
  BY DEF PgLock, PgExecutes, ServerEnds
<1>5. PgRecv => Next
  BY DEF PgRecv, Next
<1>6. Disconnect \/ Forget \/ Disconnected \/ Closed => Next
  BY DEF Next
<1>7. UNCHANGED allVars => UNCHANGED vars
  BY DEF allVars
<1>. QED  BY <1>1, <1>2, <1>3, <1>4, <1>5, <1>6, <1>7 DEF PgNext

\* A PostgreSQL session's actor keeps the contract: the driver's lock and its
\* cancel requests take nothing from what SessionHandle promises.
THEOREM PgKeepsContract == PgSpec => ContractKept
<1>1. PgSpec => Spec
  BY PgBegins, PgIsTheActor, PTL DEF PgSpec, Spec
<1>. QED  BY <1>1, ActorKeepsContract

\* Who holds the lock, and what the server can still be on while it is held: the
\* connection is worked through in order, so a statement whose Prepare was
\* answered has nothing of anybody else's before it.
LockHeld ==
    /\ serving = None <=> phase = "none"
    /\ phase \in {"asking", "armed"} => lock = serving /\ requests = {}
    /\ \A t \in requests : lock = t
    /\ phase = "asking" /\ Len(backend) > 0 =>
          backend[Len(backend)] = [by |-> serving, armed |-> FALSE]
    /\ phase = "armed" => \A i \in 1 .. Len(backend) : backend[i].by = serving
    /\ \A t \in requests : \A i \in 1 .. Len(backend) : backend[i].by = t

PgInv == IInv /\ PgTypeOK /\ LockHeld /\ CancelHitsItsOwn

LEMMA PgInitial == PgInit => PgInv
<1>. SUFFICES ASSUME PgInit
              PROVE  PgInv
  OBVIOUS
<1>1. IInv
  BY PgBegins, InitialSession
<1>2. Len(backend) = 0 /\ backend \in Seq(Work)
  BY DEF PgInit
<1>. QED  BY <1>1, <1>2 DEF PgInit, Init, PgInv, PgTypeOK, Phases, LockHeld, CancelHitsItsOwn

\* A step that is none of the driver's business.
LEMMA ElsewhereKeeps ==
    ASSUME PgInv, IInv', Elsewhere, serving' = serving
    PROVE  PgInv'
  BY DEF PgInv, Elsewhere, pgVars, PgTypeOK, LockHeld, CancelHitsItsOwn

LEMMA LockKeeps == ASSUME PgInv, IInv', PgLock PROVE PgInv'
<1>. DEFINE w == [by |-> serving, armed |-> FALSE]
<1>1. serving \in Callers /\ serving # None /\ serving' = serving
  BY DEF PgInv, PgLock, LockHeld, IInv, TypeOK, vars
<1>2. requests = {}
  BY SessionAssumption DEF PgInv, PgLock, LockHeld, PgTypeOK
<1>3. w \in Work /\ backend \in Seq(Work)
  BY <1>1 DEF Work, PgInv, PgTypeOK
<1>4. /\ backend' \in Seq(Work)
      /\ Len(backend') = Len(backend) + 1
      /\ backend'[Len(backend')] = w
  BY <1>3 DEF PgLock
<1>5. PgTypeOK'
  BY <1>1, <1>4 DEF PgInv, PgTypeOK, PgLock, Phases
<1>6. LockHeld'
  BY <1>1, <1>2, <1>4 DEF LockHeld, PgLock
<1>. QED  BY <1>5, <1>6 DEF PgInv, CancelHitsItsOwn, PgLock

LEMMA ExecutesKeeps == ASSUME PgInv, IInv', PgExecutes PROVE PgInv'
<1>. DEFINE w == [by |-> serving, armed |-> TRUE]
<1>1. serving \in Callers /\ serving # None /\ serving' = serving /\ requests = {}
  BY DEF PgInv, PgExecutes, LockHeld, IInv, TypeOK, vars
<1>2. w \in Work /\ backend \in Seq(Work)
  BY <1>1 DEF Work, PgInv, PgTypeOK
<1>3. Len(backend) = 0
  <2>1. (phase = "armed") = FALSE
    BY DEF PgExecutes
  <2>2. \A i \in 1 .. Len(backend) : backend[i] # [by |-> serving, armed |-> FALSE]
    BY <2>1, Zenon DEF PgExecutes, Finished
  <2>3. Len(backend) > 0 => backend[Len(backend)] = [by |-> serving, armed |-> FALSE]
    BY DEF PgInv, LockHeld, PgExecutes
  <2>4. Len(backend) \in Nat
    BY <1>2
  <2>. QED  BY <2>2, <2>3, <2>4
<1>4. /\ backend' \in Seq(Work)
      /\ Len(backend') = 1
      /\ backend'[1] = w
  BY <1>2, <1>3 DEF PgExecutes
<1>5. PgTypeOK'
  BY <1>4 DEF PgInv, PgTypeOK, PgExecutes, Phases
<1>6. LockHeld'
  BY <1>1, <1>4 DEF PgInv, LockHeld, PgExecutes
<1>. QED  BY <1>5, <1>6 DEF PgInv, CancelHitsItsOwn, PgExecutes

LEMMA ServerKeeps == ASSUME PgInv, IInv', ServerEnds PROVE PgInv'
<1>1. serving' = serving /\ UNCHANGED <<lock, phase, requests, hit>>
  BY DEF ServerEnds, vars
<1>2. /\ backend' \in Seq(Work)
      /\ Len(backend) \in Nat /\ Len(backend) > 0
      /\ Len(backend') = Len(backend) - 1
      /\ \A i \in 1 .. Len(backend') : backend'[i] = backend[i + 1]
  BY DEF ServerEnds, PgInv, PgTypeOK
<1>3. \A i \in 1 .. Len(backend') : i + 1 \in 1 .. Len(backend)
  BY <1>2
<1>4. Len(backend') > 0 => backend'[Len(backend')] = backend[Len(backend)]
  BY <1>2
<1>5. PgTypeOK'
  BY <1>1, <1>2 DEF PgInv, PgTypeOK
<1>6. LockHeld'
  BY <1>1, <1>2, <1>3, <1>4 DEF PgInv, LockHeld
<1>. QED  BY <1>1, <1>5, <1>6 DEF PgInv, CancelHitsItsOwn

\* However a call ends, the lock goes with it or with its request.
LEMMA CallEnds ==
    ASSUME PgInv, IInv', NEW t \in Callers, serving = t, serving' = None,
           phase' = "none", UNCHANGED <<backend, hit>>,
           \/ phase = "locking" /\ UNCHANGED <<lock, requests>>
           \/ phase \in {"asking", "armed"} /\ lock' = None /\ UNCHANGED requests
           \/ phase = "armed" /\ LockIsHandedOver(t)
    PROVE  PgInv'
<1>1. PgTypeOK'
  BY DEF PgInv, PgTypeOK, Phases, LockIsHandedOver
<1>2. LockHeld'
  BY DEF PgInv, LockHeld, LockIsHandedOver
<1>. QED  BY <1>1, <1>2 DEF PgInv, CancelHitsItsOwn

LEMMA RequestKeeps ==
    ASSUME PgInv, IInv', NEW t \in Callers, RequestIsSent(t) \/ RequestGivesUp(t)
    PROVE  PgInv'
<1>1. /\ t \in requests /\ requests' = requests \ {t} /\ lock' = None
      /\ UNCHANGED <<phase, backend>> /\ serving' = serving
      /\ hit' = hit \/ (backend # <<>> /\ hit' = hit \cup {[by |-> t, of |-> Head(backend).by]})
  BY DEF RequestIsSent, RequestGivesUp, vars
<1>2. backend # <<>> => Head(backend) \in Work /\ Head(backend).by = t
  <2>. SUFFICES ASSUME backend # <<>>
                PROVE  Head(backend) \in Work /\ Head(backend).by = t
    OBVIOUS
  <2>1. backend \in Seq(Work)
    BY DEF PgInv, PgTypeOK
  <2>2. Len(backend) > 0 /\ Head(backend) = backend[1] /\ Head(backend) \in Work
    BY <2>1
  <2>3. 1 \in 1 .. Len(backend)
    BY <2>1, <2>2
  <2>. QED  BY <1>1, <2>2, <2>3 DEF PgInv, LockHeld
<1>3. PgTypeOK'
  BY <1>1, <1>2 DEF PgInv, PgTypeOK, Work
<1>4. requests' = {} /\ phase \notin {"asking", "armed"}
  BY <1>1 DEF PgInv, LockHeld
<1>5. LockHeld'
  BY <1>1, <1>4 DEF PgInv, LockHeld
<1>6. CancelHitsItsOwn'
  BY <1>1, <1>2 DEF PgInv, CancelHitsItsOwn
<1>. QED  BY <1>3, <1>5, <1>6 DEF PgInv

LEMMA PgStep == PgInv /\ [PgNext]_allVars => PgInv'
<1>. SUFFICES ASSUME PgInv, [PgNext]_allVars
              PROVE  PgInv'
  OBVIOUS
<1>1. IInv'
  BY PgIsTheActor, SessionStep DEF PgInv
<1>2. ASSUME NEW t \in Callers, Tasks(t), Elsewhere
      PROVE  PgInv'
  BY <1>1, <1>2, ElsewhereKeeps DEF Tasks, Spawn, End, Enter, Leave, Ask
<1>3. ASSUME NEW t \in Callers, Driver(t) \/ PgPanics(t)
      PROVE  PgInv'
  BY <1>1, <1>3, CallEnds
     DEF Driver, PgAnswers, PgUnwinds, PgPanics, Dropped, Answers, Unwinds, Panics, Stops
<1>4. ASSUME Disconnect \/ Forget \/ Disconnected \/ Closed, Elsewhere
      PROVE  PgInv'
  <2>1. serving' = serving
    BY <1>4 DEF Disconnect, Forget, Disconnected, Closed, Stops, PgInv, IInv, Outstanding
  <2>. QED  BY <1>1, <1>4, <2>1, ElsewhereKeeps
<1>5. CASE PgRecv
  <2>1. /\ UNCHANGED <<lock, backend, requests, hit>> /\ serving = None /\ phase = "none"
        /\ phase' = IF serving' # None THEN "locking" ELSE "none"
    BY <1>5 DEF PgRecv, Recv, Idle, PgInv, LockHeld
  <2>2. PgTypeOK'
    BY <2>1 DEF PgInv, PgTypeOK, Phases
  <2>3. LockHeld'
    BY <2>1 DEF PgInv, LockHeld
  <2>. QED  BY <1>1, <2>1, <2>2, <2>3 DEF PgInv, CancelHitsItsOwn
<1>6. CASE UNCHANGED allVars
  BY <1>1, <1>6, ElsewhereKeeps DEF allVars, vars, pgVars, Elsewhere
<1>. QED
  BY <1>1, <1>2, <1>3, <1>4, <1>5, <1>6, LockKeeps, ExecutesKeeps, ServerKeeps,
     RequestKeeps DEF PgNext

\* Every variable of the actor and of the connection keeps its type.
THEOREM SessionTypes == PgSpec => []SessionTypeOK
<1>1. PgInv => SessionTypeOK
  BY DEF PgInv, IInv, SessionTypeOK
<1>. QED  BY <1>1, PgInitial, PgStep, PTL DEF PgSpec

\* A cancel request never stops anybody else's query, for any number of tasks
\* and any depth of the channel, although it names only the backend: the lock it
\* carries keeps everybody else off the connection until it has gone out.
THEOREM CancelsHitTheirOwn == PgSpec => []CancelHitsItsOwn
<1>1. PgInv => CancelHitsItsOwn
  BY DEF PgInv
<1>. QED  BY <1>1, PgInitial, PgStep, PTL DEF PgSpec

=============================================================================
