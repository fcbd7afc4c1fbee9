--------------------------- MODULE FrontendProofs ---------------------------
(***************************************************************************)
(* The screen, for every value of the constants and whatever the store       *)
(* publishes: its tabs are what it shows, once each; nobody's text and no      *)
(* template is lost unasked; nothing moves behind a dialog; the selection      *)
(* stays on its node while the search is typed; and it catches up with what     *)
(* the store makes of its runs and its connections.                          *)
(*                                                                         *)
(* Everything an event comes to is a sequence of intents that a recursive     *)
(* function carries out, and everything a snapshot raises another: the first   *)
(* lemmas say what such functions keep, the next what each view command, each   *)
(* key and each click does to a screen, and the last what a burst of them does. *)
(***************************************************************************)
EXTENDS Frontend, FiniteSetTheorems, SequenceTheorems, WellFoundedInduction, TLAPS

-----------------------------------------------------------------------------
(* Induction, and what the recursive functions of the model compute.         *)

\* Every natural number is in a set that has 0 and the successor of each of its
\* members: else the intervals up to those that are not would have a smallest.
LEMMA Induct ==
    ASSUME NEW S, 0 \in S, \A n \in Nat : n \in S => n + 1 \in S
    PROVE  Nat \subseteq S
<1>. DEFINE Up(n) == 1 .. n
            T == {Up(n) : n \in Nat \ S}
<1>. SUFFICES ASSUME NEW m \in Nat, m \notin S PROVE FALSE
  OBVIOUS
<1>1. IsWellFoundedOn(StrictSubsetOrdering(Nat), FiniteSubsetsOf(Nat))
  BY FS_StrictSubsetOrderingWellFounded
<1>2. T \subseteq FiniteSubsetsOf(Nat)
  <2>1. \A n \in Nat : IsFiniteSet(1 .. n)
    BY FS_Interval
  <2>. QED  BY <2>1 DEF FiniteSubsetsOf
<1>3. T # {}
  OBVIOUS
<1>4. PICK low \in T : \A U \in T : ~ (<<U, low>> \in StrictSubsetOrdering(Nat))
  <2>. HIDE DEF T
  <2>. QED  BY <1>1, <1>2, <1>3, WFMin
<1>5. PICK x \in Nat \ S : low = Up(x)
  OBVIOUS
<1>6. x # 0 /\ x - 1 \in Nat \ S
  OBVIOUS
<1>7. <<Up(x - 1), Up(x)>> \in StrictSubsetOrdering(Nat)
  <2>1. Up(x - 1) \in SUBSET Nat /\ Up(x) \in SUBSET Nat
    BY <1>6
  <2>2. x \in Up(x) /\ x \notin Up(x - 1) /\ Up(x - 1) \subseteq Up(x)
    BY <1>6
  <2>. QED  BY <2>1, <2>2 DEF StrictSubsetOrdering
<1>8. Up(x - 1) \in T
  BY <1>6
<1>. QED  BY <1>4, <1>5, <1>7, <1>8

\* The same, up to a bound.
LEMMA InductTo ==
    ASSUME NEW n \in Nat, NEW S, 0 \in S, \A k \in 1 .. n : k - 1 \in S => k \in S
    PROVE  0 .. n \subseteq S
<1>. DEFINE T == {k \in Nat : k <= n => k \in S}
<1>1. 0 \in T
  OBVIOUS
<1>2. ASSUME NEW k \in Nat, k \in T
      PROVE  k + 1 \in T
  BY <1>2
<1>. HIDE DEF T
<1>3. Nat \subseteq T
  BY <1>1, <1>2, Induct
<1>. QED  BY <1>3 DEF T

\* A set of numbers has a least.
LEMMA LeastExists ==
    ASSUME NEW S \in SUBSET Nat, S # {}
    PROVE  \E i \in S : \A k \in S : i <= k
<1>. DEFINE T == {n \in Nat : \A i \in S : n <= i}
<1>. SUFFICES ASSUME \A i \in S : \E k \in S : k < i PROVE FALSE
  OBVIOUS
<1>1. 0 \in T
  OBVIOUS
<1>2. ASSUME NEW n \in Nat, n \in T
      PROVE  n + 1 \in T
  <2>1. \A i \in S : n <= i
    BY <1>2
  <2>2. n \notin S
    BY <2>1
  <2>. QED  BY <2>1, <2>2
<1>. HIDE DEF T
<1>3. Nat \subseteq T
  BY <1>1, <1>2, Induct
<1>4. PICK i \in S : TRUE
  OBVIOUS
<1>5. i + 1 \in T
  BY <1>3
<1>. QED  BY <1>5 DEF T

\* The first that is in a set is one of them, or none is.
LEMMA FirstIsOne ==
    ASSUME NEW seq, NEW set, Len(seq) \in Nat
    PROVE  \/ First(seq, set) = None /\ \A i \in 1 .. Len(seq) : seq[i] \notin set
           \/ /\ First(seq, set) \in set
              /\ \E i \in 1 .. Len(seq) : First(seq, set) = seq[i]
<1>. DEFINE there == {i \in 1 .. Len(seq) : seq[i] \in set}
<1>1. CASE there = {}
  BY <1>1 DEF First
<1>2. CASE there # {}
  <2>1. \E i \in there : \A k \in there : i <= k
    <3>1. there \in SUBSET Nat
      OBVIOUS
    <3>. HIDE DEF there
    <3>. QED  BY <1>2, <3>1, LeastExists
  <2>2. First(seq, set) = seq[CHOOSE i \in there : \A k \in there : i <= k]
    BY <1>2 DEF First
  <2>. QED  BY <2>1, <2>2
<1>. QED  BY <1>1, <1>2

\* What Those computes, an element at a time.
LEMMA ThoseSteps ==
    ASSUME NEW seq, NEW set, Len(seq) \in Nat
    PROVE  \E after : /\ after[0] = <<>>
                      /\ \A k \in 1 .. Len(seq) :
                            after[k] = IF seq[k] \in set THEN Append(after[k - 1], seq[k]) ELSE after[k - 1]
                      /\ Those(seq, set) = after[Len(seq)]
<1>. DEFINE Do(was, k) == IF seq[k] \in set THEN Append(was, seq[k]) ELSE was
            Steps(f, n) == f = [k \in 0 .. n |-> IF k = 0 THEN <<>> ELSE Do(f[k - 1], k)]
            S == {n \in Nat : \E f : Steps(f, n)}
            after == CHOOSE f : Steps(f, Len(seq))
<1>1. Those(seq, set) = after[Len(seq)]
  BY DEF Those
<1>. HIDE DEF Do
<1>2. 0 \in S
  <2>1. Steps([k \in 0 .. 0 |-> <<>>], 0)
    OBVIOUS
  <2>. QED  BY <2>1
<1>3. ASSUME NEW n \in Nat, n \in S
      PROVE  n + 1 \in S
  <2>1. PICK f : Steps(f, n)
    BY <1>3
  <2>. DEFINE g == [k \in 0 .. n + 1 |-> IF k \in 0 .. n THEN f[k] ELSE Do(f[n], n + 1)]
  <2>2. Steps(g, n + 1)
    <3>1. ASSUME NEW k \in 0 .. n + 1
          PROVE  g[k] = IF k = 0 THEN <<>> ELSE Do(g[k - 1], k)
      <4>1. CASE k = 0
        BY <2>1, <4>1
      <4>2. CASE k \in 1 .. n
        BY <2>1, <4>2
      <4>3. CASE k = n + 1
        BY <2>1, <4>3
      <4>. QED  BY <4>1, <4>2, <4>3
    <3>. QED  BY <3>1
  <2>3. \E h : Steps(h, n + 1)
    <3>. HIDE DEF Steps
    <3>. QED  BY <2>2
  <2>. QED  BY <2>3
<1>4. Len(seq) \in S
  <2>. HIDE DEF S
  <2>. QED  BY <1>2, <1>3, Induct
<1>5. Steps(after, Len(seq))
  BY <1>4
<1>. HIDE DEF after
<1>6. ASSUME NEW m \in Nat, Steps(after, m)
      PROVE  /\ after[0] = <<>>
             /\ \A k \in 1 .. m : after[k] = Do(after[k - 1], k)
  BY <1>6
<1>7. /\ after[0] = <<>>
      /\ \A k \in 1 .. Len(seq) : after[k] = Do(after[k - 1], k)
  <2>. HIDE DEF Steps
  <2>. QED  BY <1>5, <1>6
<1>. QED  BY <1>1, <1>7 DEF Do

\* What CarryAll computes, an intent at a time.
LEMMA CarryAllSteps ==
    ASSUME NEW done, NEW shown, NEW intents, Len(intents) \in Nat
    PROVE  \E after : /\ after[0] = done
                      /\ \A k \in 1 .. Len(intents) :
                            after[k] = Carry(after[k - 1], shown, intents[k])
                      /\ CarryAll(done, shown, intents) = after[Len(intents)]
<1>. DEFINE Do(was, k) == Carry(was, shown, intents[k])
            Steps(f, n) == f = [k \in 0 .. n |-> IF k = 0 THEN done ELSE Do(f[k - 1], k)]
            S == {n \in Nat : \E f : Steps(f, n)}
            after == CHOOSE f : Steps(f, Len(intents))
<1>1. CarryAll(done, shown, intents) = after[Len(intents)]
  BY DEF CarryAll
<1>. HIDE DEF Do
<1>2. 0 \in S
  <2>1. Steps([k \in 0 .. 0 |-> done], 0)
    OBVIOUS
  <2>. QED  BY <2>1
<1>3. ASSUME NEW n \in Nat, n \in S
      PROVE  n + 1 \in S
  <2>1. PICK f : Steps(f, n)
    BY <1>3
  <2>. DEFINE g == [k \in 0 .. n + 1 |-> IF k \in 0 .. n THEN f[k] ELSE Do(f[n], n + 1)]
  <2>2. Steps(g, n + 1)
    <3>1. ASSUME NEW k \in 0 .. n + 1
          PROVE  g[k] = IF k = 0 THEN done ELSE Do(g[k - 1], k)
      <4>1. CASE k = 0
        BY <2>1, <4>1
      <4>2. CASE k \in 1 .. n
        BY <2>1, <4>2
      <4>3. CASE k = n + 1
        BY <2>1, <4>3
      <4>. QED  BY <4>1, <4>2, <4>3
    <3>. QED  BY <3>1
  <2>3. \E h : Steps(h, n + 1)
    <3>. HIDE DEF Steps
    <3>. QED  BY <2>2
  <2>. QED  BY <2>3
<1>4. Len(intents) \in S
  <2>. HIDE DEF S
  <2>. QED  BY <1>2, <1>3, Induct
<1>5. Steps(after, Len(intents))
  BY <1>4
<1>. HIDE DEF after
<1>6. ASSUME NEW m \in Nat, Steps(after, m)
      PROVE  /\ after[0] = done
             /\ \A k \in 1 .. m : after[k] = Do(after[k - 1], k)
  BY <1>6
<1>7. /\ after[0] = done
      /\ \A k \in 1 .. Len(intents) : after[k] = Do(after[k - 1], k)
  <2>. HIDE DEF Steps
  <2>. QED  BY <1>5, <1>6
<1>. QED  BY <1>1, <1>7 DEF Do

\* What a burst comes to, and what it asks of the store by itself, when all of it
\* is read against one screen.
CarriedBy(screen, shown, burst) == Carried(screen, shown, Read(screen, shown, burst))
OrdersBy(screen, shown, burst) == Orders(Read(screen, shown, burst))

\* What Carried computes, a list of intents at a time.
LEMMA ReadSteps ==
    ASSUME NEW screen, NEW shown, NEW read, Len(read) \in Nat
    PROVE  \E after : /\ after[0] = Just(screen)
                      /\ \A k \in 1 .. Len(read) :
                            after[k] = CarryAll(after[k - 1], shown, read[k])
                      /\ Carried(screen, shown, read) = after[Len(read)]
<1>. DEFINE Do(was, k) == CarryAll(was, shown, read[k])
            Steps(f, n) == f = [k \in 0 .. n |-> IF k = 0 THEN Just(screen) ELSE Do(f[k - 1], k)]
            S == {n \in Nat : \E f : Steps(f, n)}
            after == CHOOSE f : Steps(f, Len(read))
<1>1. Carried(screen, shown, read) = after[Len(read)]
  BY DEF Carried
<1>. HIDE DEF Do
<1>2. 0 \in S
  <2>1. Steps([k \in 0 .. 0 |-> Just(screen)], 0)
    OBVIOUS
  <2>. QED  BY <2>1
<1>3. ASSUME NEW n \in Nat, n \in S
      PROVE  n + 1 \in S
  <2>1. PICK f : Steps(f, n)
    BY <1>3
  <2>. DEFINE g == [k \in 0 .. n + 1 |-> IF k \in 0 .. n THEN f[k] ELSE Do(f[n], n + 1)]
  <2>2. Steps(g, n + 1)
    <3>1. ASSUME NEW k \in 0 .. n + 1
          PROVE  g[k] = IF k = 0 THEN Just(screen) ELSE Do(g[k - 1], k)
      <4>1. CASE k = 0
        BY <2>1, <4>1
      <4>2. CASE k \in 1 .. n
        BY <2>1, <4>2
      <4>3. CASE k = n + 1
        BY <2>1, <4>3
      <4>. QED  BY <4>1, <4>2, <4>3
    <3>. QED  BY <3>1
  <2>3. \E h : Steps(h, n + 1)
    <3>. HIDE DEF Steps
    <3>. QED  BY <2>2
  <2>. QED  BY <2>3
<1>4. Len(read) \in S
  <2>. HIDE DEF S
  <2>. QED  BY <1>2, <1>3, Induct
<1>5. Steps(after, Len(read))
  BY <1>4
<1>. HIDE DEF after
<1>6. ASSUME NEW m \in Nat, Steps(after, m)
      PROVE  /\ after[0] = Just(screen)
             /\ \A k \in 1 .. m : after[k] = Do(after[k - 1], k)
  BY <1>6
<1>7. /\ after[0] = Just(screen)
      /\ \A k \in 1 .. Len(read) : after[k] = Do(after[k - 1], k)
  <2>. HIDE DEF Steps
  <2>. QED  BY <1>5, <1>6
<1>. QED  BY <1>1, <1>7 DEF Do

LEMMA CarriedSteps ==
    ASSUME NEW screen, NEW shown, NEW burst, Len(burst) \in Nat
    PROVE  \E after : /\ after[0] = Just(screen)
                      /\ \A k \in 1 .. Len(burst) :
                            after[k] = CarryAll(after[k - 1], shown, Intents(screen, shown, burst[k], k))
                      /\ CarriedBy(screen, shown, burst) = after[Len(burst)]
<1>. DEFINE read == Read(screen, shown, burst)
<1>1. Len(read) = Len(burst) /\ \A k \in 1 .. Len(burst) : read[k] = Intents(screen, shown, burst[k], k)
  BY DEF Read
<1>2. CarriedBy(screen, shown, burst) = Carried(screen, shown, read)
  BY DEF CarriedBy
<1>. HIDE DEF read
<1>3. PICK after : /\ after[0] = Just(screen)
                   /\ \A k \in 1 .. Len(read) : after[k] = CarryAll(after[k - 1], shown, read[k])
                   /\ Carried(screen, shown, read) = after[Len(read)]
  <2>1. Len(read) \in Nat
    BY <1>1
  <2>. QED  BY <2>1, ReadSteps
<1>4. \A k \in 1 .. Len(burst) :
         after[k] = CarryAll(after[k - 1], shown, Intents(screen, shown, burst[k], k))
  BY <1>1, <1>3
<1>. QED  BY <1>1, <1>2, <1>3, <1>4

\* What Began computes, an event at a time.
LEMMA BeganSteps ==
    ASSUME NEW screen, NEW shown, Len(scene.before) \in Nat
    PROVE  \E after : /\ after[0] = Just(screen)
                      /\ \A k \in 1 .. Len(scene.before) :
                            after[k] = CarryAll(after[k - 1], shown, Intents(after[k - 1].ui, shown, scene.before[k], 1))
                      /\ Began(screen, shown) = after[Len(scene.before)]
<1>. DEFINE Do(was, k) == CarryAll(was, shown, Intents(was.ui, shown, scene.before[k], 1))
            Steps(f, n) == f = [k \in 0 .. n |-> IF k = 0 THEN Just(screen) ELSE Do(f[k - 1], k)]
            S == {n \in Nat : \E f : Steps(f, n)}
            after == CHOOSE f : Steps(f, Len(scene.before))
<1>1. Began(screen, shown) = after[Len(scene.before)]
  BY DEF Began
<1>. HIDE DEF Do
<1>2. 0 \in S
  <2>1. Steps([k \in 0 .. 0 |-> Just(screen)], 0)
    OBVIOUS
  <2>. QED  BY <2>1
<1>3. ASSUME NEW n \in Nat, n \in S
      PROVE  n + 1 \in S
  <2>1. PICK f : Steps(f, n)
    BY <1>3
  <2>. DEFINE g == [k \in 0 .. n + 1 |-> IF k \in 0 .. n THEN f[k] ELSE Do(f[n], n + 1)]
  <2>2. Steps(g, n + 1)
    <3>1. ASSUME NEW k \in 0 .. n + 1
          PROVE  g[k] = IF k = 0 THEN Just(screen) ELSE Do(g[k - 1], k)
      <4>1. CASE k = 0
        BY <2>1, <4>1
      <4>2. CASE k \in 1 .. n
        BY <2>1, <4>2
      <4>3. CASE k = n + 1
        BY <2>1, <4>3
      <4>. QED  BY <4>1, <4>2, <4>3
    <3>. QED  BY <3>1
  <2>3. \E h : Steps(h, n + 1)
    <3>. HIDE DEF Steps
    <3>. QED  BY <2>2
  <2>. QED  BY <2>3
<1>4. Len(scene.before) \in S
  <2>. HIDE DEF S
  <2>. QED  BY <1>2, <1>3, Induct
<1>5. Steps(after, Len(scene.before))
  BY <1>4
<1>. HIDE DEF after
<1>6. ASSUME NEW m \in Nat, Steps(after, m)
      PROVE  /\ after[0] = Just(screen)
             /\ \A k \in 1 .. m : after[k] = Do(after[k - 1], k)
  BY <1>6
<1>7. /\ after[0] = Just(screen)
      /\ \A k \in 1 .. Len(scene.before) : after[k] = Do(after[k - 1], k)
  <2>. HIDE DEF Steps
  <2>. QED  BY <1>5, <1>6
<1>. QED  BY <1>1, <1>7 DEF Do

\* What is raised for the previews, a tab at a time.
LEMMA PreviewErrorSteps ==
    ASSUME NEW u, NEW shown, Len(u.tabs) \in Nat
    PROVE  \E after : /\ after[0] = u
                      /\ \A k \in 1 .. Len(u.tabs) :
                            after[k] = RaisePreviewError(after[k - 1], shown, u.tabs[k])
                      /\ RaisePreviewErrors(u, shown) = after[Len(u.tabs)]
<1>. DEFINE Do(was, k) == RaisePreviewError(was, shown, u.tabs[k])
            Steps(f, n) == f = [k \in 0 .. n |-> IF k = 0 THEN u ELSE Do(f[k - 1], k)]
            S == {n \in Nat : \E f : Steps(f, n)}
            after == CHOOSE f : Steps(f, Len(u.tabs))
<1>1. RaisePreviewErrors(u, shown) = after[Len(u.tabs)]
  BY DEF RaisePreviewErrors, ForEach
<1>. HIDE DEF Do
<1>2. 0 \in S
  <2>1. Steps([k \in 0 .. 0 |-> u], 0)
    OBVIOUS
  <2>. QED  BY <2>1
<1>3. ASSUME NEW n \in Nat, n \in S
      PROVE  n + 1 \in S
  <2>1. PICK f : Steps(f, n)
    BY <1>3
  <2>. DEFINE g == [k \in 0 .. n + 1 |-> IF k \in 0 .. n THEN f[k] ELSE Do(f[n], n + 1)]
  <2>2. Steps(g, n + 1)
    <3>1. ASSUME NEW k \in 0 .. n + 1
          PROVE  g[k] = IF k = 0 THEN u ELSE Do(g[k - 1], k)
      <4>1. CASE k = 0
        BY <2>1, <4>1
      <4>2. CASE k \in 1 .. n
        BY <2>1, <4>2
      <4>3. CASE k = n + 1
        BY <2>1, <4>3
      <4>. QED  BY <4>1, <4>2, <4>3
    <3>. QED  BY <3>1
  <2>3. \E h : Steps(h, n + 1)
    <3>. HIDE DEF Steps
    <3>. QED  BY <2>2
  <2>. QED  BY <2>3
<1>4. Len(u.tabs) \in S
  <2>. HIDE DEF S
  <2>. QED  BY <1>2, <1>3, Induct
<1>5. Steps(after, Len(u.tabs))
  BY <1>4
<1>. HIDE DEF after
<1>6. ASSUME NEW m \in Nat, Steps(after, m)
      PROVE  /\ after[0] = u
             /\ \A k \in 1 .. m : after[k] = Do(after[k - 1], k)
  BY <1>6
<1>7. /\ after[0] = u
      /\ \A k \in 1 .. Len(u.tabs) : after[k] = Do(after[k - 1], k)
  <2>. HIDE DEF Steps
  <2>. QED  BY <1>5, <1>6
<1>. QED  BY <1>1, <1>7 DEF Do

\* For the queries, a tab at a time.
LEMMA QueryErrorSteps ==
    ASSUME NEW u, NEW shown, Len(u.tabs) \in Nat
    PROVE  \E after : /\ after[0] = u
                      /\ \A k \in 1 .. Len(u.tabs) :
                            after[k] = RaiseQueryError(after[k - 1], shown, u.tabs[k])
                      /\ RaiseQueryErrors(u, shown) = after[Len(u.tabs)]
<1>. DEFINE Do(was, k) == RaiseQueryError(was, shown, u.tabs[k])
            Steps(f, n) == f = [k \in 0 .. n |-> IF k = 0 THEN u ELSE Do(f[k - 1], k)]
            S == {n \in Nat : \E f : Steps(f, n)}
            after == CHOOSE f : Steps(f, Len(u.tabs))
<1>1. RaiseQueryErrors(u, shown) = after[Len(u.tabs)]
  BY DEF RaiseQueryErrors, ForEach
<1>. HIDE DEF Do
<1>2. 0 \in S
  <2>1. Steps([k \in 0 .. 0 |-> u], 0)
    OBVIOUS
  <2>. QED  BY <2>1
<1>3. ASSUME NEW n \in Nat, n \in S
      PROVE  n + 1 \in S
  <2>1. PICK f : Steps(f, n)
    BY <1>3
  <2>. DEFINE g == [k \in 0 .. n + 1 |-> IF k \in 0 .. n THEN f[k] ELSE Do(f[n], n + 1)]
  <2>2. Steps(g, n + 1)
    <3>1. ASSUME NEW k \in 0 .. n + 1
          PROVE  g[k] = IF k = 0 THEN u ELSE Do(g[k - 1], k)
      <4>1. CASE k = 0
        BY <2>1, <4>1
      <4>2. CASE k \in 1 .. n
        BY <2>1, <4>2
      <4>3. CASE k = n + 1
        BY <2>1, <4>3
      <4>. QED  BY <4>1, <4>2, <4>3
    <3>. QED  BY <3>1
  <2>3. \E h : Steps(h, n + 1)
    <3>. HIDE DEF Steps
    <3>. QED  BY <2>2
  <2>. QED  BY <2>3
<1>4. Len(u.tabs) \in S
  <2>. HIDE DEF S
  <2>. QED  BY <1>2, <1>3, Induct
<1>5. Steps(after, Len(u.tabs))
  BY <1>4
<1>. HIDE DEF after
<1>6. ASSUME NEW m \in Nat, Steps(after, m)
      PROVE  /\ after[0] = u
             /\ \A k \in 1 .. m : after[k] = Do(after[k - 1], k)
  BY <1>6
<1>7. /\ after[0] = u
      /\ \A k \in 1 .. Len(u.tabs) : after[k] = Do(after[k - 1], k)
  <2>. HIDE DEF Steps
  <2>. QED  BY <1>5, <1>6
<1>. QED  BY <1>1, <1>7 DEF Do

\* And what is closed, a tab at a time.
LEMMA CloseSteps ==
    ASSUME NEW u, NEW shown, Len(u.tabs) \in Nat
    PROVE  \E after : /\ after[0] = u
                      /\ \A k \in 1 .. Len(u.tabs) :
                            after[k] = (IF u.tabs[k].kind = "Preview" /\ shown.conns[u.tabs[k].conn].status = "Closed" THEN CloseTab(after[k - 1], u.tabs[k].id) ELSE after[k - 1])
                      /\ CloseDisconnected(u, shown) = after[Len(u.tabs)]
<1>. DEFINE Do(was, k) == (IF u.tabs[k].kind = "Preview" /\ shown.conns[u.tabs[k].conn].status = "Closed" THEN CloseTab(was, u.tabs[k].id) ELSE was)
            Steps(f, n) == f = [k \in 0 .. n |-> IF k = 0 THEN u ELSE Do(f[k - 1], k)]
            S == {n \in Nat : \E f : Steps(f, n)}
            after == CHOOSE f : Steps(f, Len(u.tabs))
<1>1. CloseDisconnected(u, shown) = after[Len(u.tabs)]
  BY DEF CloseDisconnected, ForEach
<1>. HIDE DEF Do
<1>2. 0 \in S
  <2>1. Steps([k \in 0 .. 0 |-> u], 0)
    OBVIOUS
  <2>. QED  BY <2>1
<1>3. ASSUME NEW n \in Nat, n \in S
      PROVE  n + 1 \in S
  <2>1. PICK f : Steps(f, n)
    BY <1>3
  <2>. DEFINE g == [k \in 0 .. n + 1 |-> IF k \in 0 .. n THEN f[k] ELSE Do(f[n], n + 1)]
  <2>2. Steps(g, n + 1)
    <3>1. ASSUME NEW k \in 0 .. n + 1
          PROVE  g[k] = IF k = 0 THEN u ELSE Do(g[k - 1], k)
      <4>1. CASE k = 0
        BY <2>1, <4>1
      <4>2. CASE k \in 1 .. n
        BY <2>1, <4>2
      <4>3. CASE k = n + 1
        BY <2>1, <4>3
      <4>. QED  BY <4>1, <4>2, <4>3
    <3>. QED  BY <3>1
  <2>3. \E h : Steps(h, n + 1)
    <3>. HIDE DEF Steps
    <3>. QED  BY <2>2
  <2>. QED  BY <2>3
<1>4. Len(u.tabs) \in S
  <2>. HIDE DEF S
  <2>. QED  BY <1>2, <1>3, Induct
<1>5. Steps(after, Len(u.tabs))
  BY <1>4
<1>. HIDE DEF after
<1>6. ASSUME NEW m \in Nat, Steps(after, m)
      PROVE  /\ after[0] = u
             /\ \A k \in 1 .. m : after[k] = Do(after[k - 1], k)
  BY <1>6
<1>7. /\ after[0] = u
      /\ \A k \in 1 .. Len(u.tabs) : after[k] = Do(after[k - 1], k)
  <2>. HIDE DEF Steps
  <2>. QED  BY <1>5, <1>6
<1>. QED  BY <1>1, <1>7 DEF Do

-----------------------------------------------------------------------------
(* Sequences, whatever is in them.                                           *)

IsSeq(s) == Len(s) \in Nat /\ s = [i \in 1 .. Len(s) |-> s[i]]

\* All that is in a sequence.
In(s) == {s[i] : i \in 1 .. Len(s)}

LEMMA SeqOf ==
    ASSUME NEW s, NEW T
    PROVE  /\ IsSeq(s) /\ In(s) \subseteq T => s \in Seq(T)
           /\ s \in Seq(T) => IsSeq(s) /\ In(s) \subseteq T
<1>1. ASSUME IsSeq(s), In(s) \subseteq T
      PROVE  s \in Seq(T)
  <2>1. Len(s) \in Nat /\ s \in [1 .. Len(s) -> T]
    BY <1>1 DEF IsSeq, In
  <2>. QED  BY <2>1, SeqDef
<1>2. ASSUME s \in Seq(T)
      PROVE  IsSeq(s) /\ In(s) \subseteq T
  <2>1. Len(s) \in Nat /\ s \in [1 .. Len(s) -> T]
    BY <1>2, LenProperties
  <2>. QED  BY <2>1 DEF IsSeq, In
<1>. QED  BY <1>1, <1>2

LEMMA EmptyIs ==
    /\ IsSeq(<<>>) /\ Len(<<>>) = 0
    /\ \A s : IsSeq(s) => (s = <<>> <=> Len(s) = 0)
  BY DEF IsSeq

LEMMA OneIs == \A x : IsSeq(<<x>>) /\ Len(<<x>>) = 1 /\ <<x>>[1] = x
  BY DEF IsSeq

LEMMA ConcatIs ==
    ASSUME NEW s, NEW t, IsSeq(s), IsSeq(t)
    PROVE  /\ IsSeq(s \o t)
           /\ Len(s \o t) = Len(s) + Len(t)
           /\ \A i \in 1 .. Len(s) : (s \o t)[i] = s[i]
           /\ \A i \in 1 .. Len(t) : (s \o t)[Len(s) + i] = t[i]
<1>. DEFINE T == In(s) \cup In(t)
<1>1. s \in Seq(T) /\ t \in Seq(T) /\ Len(s) \in Nat /\ Len(t) \in Nat
  <2>1. In(s) \subseteq T /\ In(t) \subseteq T
    OBVIOUS
  <2>. QED  BY <2>1, SeqOf DEF IsSeq
<1>. HIDE DEF T
<1>2. /\ (s \o t) \in Seq(T)
      /\ Len(s \o t) = Len(s) + Len(t)
      /\ \A i \in 1 .. Len(s) + Len(t) : (s \o t)[i] = IF i <= Len(s) THEN s[i] ELSE t[i - Len(s)]
  BY <1>1, ConcatProperties
<1>3. IsSeq(s \o t)
  BY <1>2, SeqOf
<1>. QED  BY <1>1, <1>2, <1>3

LEMMA AppendIs ==
    ASSUME NEW s, NEW x, IsSeq(s)
    PROVE  /\ IsSeq(Append(s, x))
           /\ Len(Append(s, x)) = Len(s) + 1
           /\ \A i \in 1 .. Len(s) : Append(s, x)[i] = s[i]
           /\ Append(s, x)[Len(s) + 1] = x
<1>. DEFINE T == In(s) \cup {x}
<1>1. s \in Seq(T) /\ x \in T /\ Len(s) \in Nat
  <2>1. In(s) \subseteq T
    OBVIOUS
  <2>. QED  BY <2>1, SeqOf DEF IsSeq
<1>. HIDE DEF T
<1>2. Append(s, x) \in Seq(T)
  BY <1>1
<1>3. IsSeq(Append(s, x))
  BY <1>2, SeqOf
<1>. QED  BY <1>1, <1>3

LEMMA RemoveAtIs ==
    ASSUME NEW s, IsSeq(s), NEW i \in 1 .. Len(s)
    PROVE  /\ IsSeq(Seqs!RemoveAt(s, i))
           /\ Len(Seqs!RemoveAt(s, i)) = Len(s) - 1
           /\ \A k \in 1 .. Len(s) - 1 : Seqs!RemoveAt(s, i)[k] = IF k < i THEN s[k] ELSE s[k + 1]
<1>. DEFINE T == In(s)
            front == SubSeq(s, 1, i - 1)
            back == SubSeq(s, i + 1, Len(s))
<1>1. Len(s) \in Nat /\ \A k \in 1 .. Len(s) : s[k] \in T
  BY DEF IsSeq, In
<1>. HIDE DEF T
<1>2. front \in Seq(T) /\ Len(front) = i - 1 /\ \A k \in 1 .. i - 1 : front[k] = s[k]
  BY <1>1, SubSeqProperties
<1>3. back \in Seq(T) /\ Len(back) = Len(s) - i /\ \A k \in 1 .. Len(s) - i : back[k] = s[k + i]
  BY <1>1, SubSeqProperties
<1>4. Seqs!RemoveAt(s, i) = front \o back
  BY DEF Seqs!RemoveAt
<1>. HIDE DEF front, back
<1>5. IsSeq(front) /\ IsSeq(back)
  BY <1>2, <1>3, SeqOf
<1>6. /\ IsSeq(front \o back)
      /\ Len(front \o back) = Len(s) - 1
      /\ \A k \in 1 .. i - 1 : (front \o back)[k] = s[k]
      /\ \A k \in 1 .. Len(s) - i : (front \o back)[i - 1 + k] = s[k + i]
  <2>1. /\ IsSeq(front \o back)
        /\ Len(front \o back) = Len(front) + Len(back)
        /\ \A k \in 1 .. Len(front) : (front \o back)[k] = front[k]
        /\ \A k \in 1 .. Len(back) : (front \o back)[Len(front) + k] = back[k]
    BY <1>5, ConcatIs
  <2>2. Len(front) + Len(back) = Len(s) - 1
    BY <1>1, <1>2, <1>3
  <2>. QED  BY <1>2, <1>3, <2>1, <2>2
<1>7. ASSUME NEW k \in 1 .. Len(s) - 1
      PROVE  (front \o back)[k] = IF k < i THEN s[k] ELSE s[k + 1]
  <2>1. CASE k < i
    BY <1>6, <2>1
  <2>2. CASE ~ k < i
    <3>1. k - i + 1 \in 1 .. Len(s) - i /\ i - 1 + (k - i + 1) = k /\ (k - i + 1) + i = k + 1
      BY <1>1, <2>2
    <3>. QED  BY <1>6, <2>2, <3>1
  <2>. QED  BY <2>1, <2>2
<1>. QED  BY <1>4, <1>6, <1>7

-----------------------------------------------------------------------------
(* The screen.  M is the ids of the runs that have been made.                *)

ScreenFields ==
    {"focus", "selected", "treeOffset", "filter", "tabs", "active", "nextTab", "grids",
     "sqlLines", "modal", "menu", "detail", "palette", "toasts", "nextToast", "failures",
     "previewErrors", "askedApproval", "queryErrors"}

IsScreen(u) == u = [f \in ScreenFields |-> u[f]]

IsTab(t) == t = [id |-> t.id, kind |-> t.kind, conn |-> t.conn, item |-> t.item,
                 text |-> t.text, query |-> t.query, box |-> t.box]

\* That two tabs may stand beside each other.
Distinct(t, other) ==
    /\ t.id # other.id
    /\ t.kind \in {"Preview", "Definition", "History"} => ~Same(t, other)
    /\ t.query # None => t.query # other.query

TabsOK(u, M) ==
    /\ IsSeq(u.tabs)
    /\ u.nextTab \in Nat
    /\ \A i \in 1 .. Len(u.tabs) :
          /\ IsTab(u.tabs[i])
          /\ u.tabs[i].id \in 1 .. u.nextTab
          /\ u.tabs[i].query \in M \cup {None}
    /\ \A i, k \in 1 .. Len(u.tabs) : i # k => Distinct(u.tabs[i], u.tabs[k])
    /\ IF u.tabs = <<>> THEN u.active = None ELSE u.active \in TabIds(u)
    /\ DOMAIN u.grids \subseteq TabIds(u)

\* What a dialog may offer.
ModalOK(u) ==
    \/ u.modal = None
    \/ u.modal.intent = None
    \/ u.modal.intent.op \in {"Approve", "Replace", "Delete"}

ScreenIs(u, M) ==
    /\ IsScreen(u)
    /\ TabsOK(u, M)
    /\ u.focus \in {"Explorer", "Grid"}
    /\ ModalOK(u)

\* What is done without touching the tabs, the dialog or what keys are read for.
Still(u, next) ==
    /\ IsScreen(next)
    /\ next.tabs = u.tabs
    /\ next.active = u.active
    /\ next.nextTab = u.nextTab
    /\ DOMAIN next.grids \subseteq DOMAIN u.grids \cup TabIds(u)
    /\ next.focus = u.focus
    /\ next.modal = u.modal
    /\ next.filter = u.filter
    /\ next.palette = u.palette
    /\ u.queryErrors \subseteq next.queryErrors

LEMMA NewScreenIs == ASSUME NEW M PROVE ScreenIs(NewScreen, M)
<1>1. IsScreen(NewScreen)
  BY DEF NewScreen, IsScreen, ScreenFields
<1>2. TabsOK(NewScreen, M)
  BY EmptyIs DEF NewScreen, TabsOK, TabIds, TabsOf
<1>. QED  BY <1>1, <1>2 DEF ScreenIs, NewScreen, ModalOK

LEMMA StillTrans ==
    ASSUME NEW u, NEW next, NEW last, Still(u, next), Still(next, last)
    PROVE  Still(u, last)
  BY DEF Still, TabIds, TabsOf

LEMMA StillKeeps ==
    ASSUME NEW u, NEW M, NEW next, ScreenIs(u, M), Still(u, next)
    PROVE  ScreenIs(next, M)
<1>1. TabsOK(next, M)
  BY DEF ScreenIs, TabsOK, Still, TabIds, TabsOf
<1>. QED  BY <1>1 DEF ScreenIs, Still, ModalOK

LEMMA ActiveIs ==
    ASSUME NEW u, NEW M, TabsOK(u, M)
    PROVE  /\ u.active # None => u.active \in TabIds(u)
           /\ \A tab \in Active(u) : tab.id = u.active /\ u.active \in TabIds(u)
  BY DEF TabsOK, Active, TabIds, TabsOf

\* The tab with an id is one.
LEMMA OneTab ==
    ASSUME NEW u, NEW M, TabsOK(u, M), NEW id
    PROVE  /\ \A i, k \in 1 .. Len(u.tabs) : u.tabs[i].id = id /\ u.tabs[k].id = id => i = k
           /\ \A tab, other \in TabsOf(u) : tab.id = id /\ other.id = id => tab = other
  BY DEF TabsOK, Distinct, TabsOf

-----------------------------------------------------------------------------
(* Commands that leave the tabs alone.                                       *)

LEMMA WithGridIs ==
    ASSUME NEW u, NEW id, NEW grid, IsScreen(u), id \in TabIds(u)
    PROVE  Still(u, WithGrid(u, id, grid))
  BY DEF WithGrid, Still, IsScreen, ScreenFields

LEMMA ToastedIs ==
    ASSUME NEW u, NEW about, IsScreen(u)
    PROVE  Still(u, Toasted(u, about))
  BY DEF Toasted, Still, IsScreen, ScreenFields

LEMMA SetOffsetIs ==
    ASSUME NEW u, NEW M, NEW shown, NEW pane, NEW to, ScreenIs(u, M)
    PROVE  Still(u, SetOffset(u, shown, pane, to))
<1>. DEFINE there == Scrolled(to, ContentRows(u, shown, pane), Height)
            grid == [GridOf(u, u.active) EXCEPT !.offset = there]
<1>1. IsScreen(u) /\ (u.active # None => u.active \in TabIds(u))
  BY ActiveIs DEF ScreenIs
<1>2. CASE pane = "Explorer"
  <2>. HIDE DEF there
  <2>1. SetOffset(u, shown, pane, to) = [u EXCEPT !.treeOffset = there]
    BY <1>2 DEF SetOffset, there
  <2>. QED  BY <1>1, <2>1 DEF Still, IsScreen, ScreenFields
<1>3. CASE pane # "Explorer" /\ u.active = None
  BY <1>1, <1>3 DEF SetOffset, Still
<1>4. CASE pane # "Explorer" /\ u.active # None
  <2>1. SetOffset(u, shown, pane, to) = WithGrid(u, u.active, grid)
    BY <1>4 DEF SetOffset
  <2>. HIDE DEF grid
  <2>. QED  BY <1>1, <1>4, <2>1, WithGridIs
<1>. QED  BY <1>2, <1>3, <1>4

LEMMA WantsPageIs ==
    ASSUME NEW u, NEW M, NEW shown, ScreenIs(u, M)
    PROVE  LET page == WantsPage(u, shown)
           IN /\ Still(u, page.ui)
              /\ \/ page.out = <<>>
                 \/ \E tab \in Active(u) :
                       page.out = <<Action("LoadMore", tab.conn, tab.item, None)>>
<1>. DEFINE wanting == {tab \in Active(u) :
                      /\ tab.kind = "Preview"
                      /\ LET preview == shown.previews[tab.conn][tab.item]
                             grid == GridOf(u, tab.id)
                         IN /\ preview.data = "Ready"
                            /\ ~preview.exhausted
                            /\ grid.offset + Height + Margin >= preview.rows
                            /\ AskedNothingSince(grid, preview)}
            tab == CHOOSE tab \in wanting : TRUE
            attempts == shown.previews[tab.conn][tab.item].attempts
            grid == [GridOf(u, tab.id) EXCEPT !.asked = attempts]
<1>1. WantsPage(u, shown) =
        IF wanting = {} THEN Just(u)
        ELSE Asks(WithGrid(u, tab.id, grid), Action("LoadMore", tab.conn, tab.item, None))
  BY DEF WantsPage
<1>2. wanting \subseteq Active(u)
  OBVIOUS
<1>. HIDE DEF wanting, grid
<1>3. CASE wanting = {}
  BY <1>1, <1>3 DEF Just, Still, ScreenIs
<1>4. CASE wanting # {}
  <2>1. tab \in Active(u)
    BY <1>2, <1>4
  <2>. HIDE DEF tab
  <2>2. Still(u, WithGrid(u, tab.id, grid))
    BY <2>1, ActiveIs, WithGridIs DEF ScreenIs
  <2>. QED  BY <1>1, <1>4, <2>1, <2>2 DEF Asks
<1>. QED  BY <1>3, <1>4

LEMMA SelectCellIs ==
    ASSUME NEW u, NEW M, NEW shown, NEW row, ScreenIs(u, M), u.active # None
    PROVE  Still(u, SelectCell(u, shown, row))
<1>. DEFINE rows == IF Active(u) = {} THEN 0
                    ELSE RowCount(CHOOSE tab \in Active(u) : TRUE, shown)
            there == Least(row, rows - 1)
            grid == [GridOf(u, u.active) EXCEPT
                       !.row = there, !.offset = ScrollIntoView(@, there, Height)]
<1>1. SelectCell(u, shown, row) = IF rows = 0 THEN u ELSE WithGrid(u, u.active, grid)
  BY DEF SelectCell
<1>. HIDE DEF rows, grid
<1>. QED  BY <1>1, ActiveIs, WithGridIs DEF ScreenIs, Still

LEMMA SelectTreeRowIs ==
    ASSUME NEW u, NEW shown, NEW index, IsScreen(u)
    PROVE  Still(u, SelectTreeRow(u, shown, index))
<1>. DEFINE there == Least(index, Len(Seen(u, shown)) - 1)
            offset == ScrollIntoView(u.treeOffset, there, Height)
<1>1. \/ SelectTreeRow(u, shown, index) = [u EXCEPT !.selected = None]
      \/ SelectTreeRow(u, shown, index) = [u EXCEPT !.selected = there, !.treeOffset = offset]
  BY DEF SelectTreeRow, IsScreen, ScreenFields
<1>. HIDE DEF there, offset
<1>. QED  BY <1>1 DEF Still, IsScreen, ScreenFields

\* What scrolling and moving about a grid ask for.
Pages(u, out) ==
    \/ out = <<>>
    \/ \E tab \in Active(u) : out = <<Action("LoadMore", tab.conn, tab.item, None)>>

LEMMA ScrollToIs ==
    ASSUME NEW u, NEW M, NEW shown, NEW pane, NEW to, ScreenIs(u, M)
    PROVE  LET done == ScrollTo(u, shown, pane, to)
           IN Still(u, done.ui) /\ Pages(u, done.out)
<1>. DEFINE next == SetOffset(u, shown, pane, to)
<1>1. Still(u, next)
  BY SetOffsetIs
<1>2. ScrollTo(u, shown, pane, to) = IF pane = "Grid" THEN WantsPage(next, shown) ELSE Just(next)
  BY DEF ScrollTo
<1>. HIDE DEF next
<1>3. ScreenIs(next, M) /\ Active(next) = Active(u)
  BY <1>1, StillKeeps DEF Still, Active, TabsOf
<1>4. LET page == WantsPage(next, shown)
      IN Still(next, page.ui) /\ Pages(u, page.out)
  BY <1>3, WantsPageIs DEF Pages
<1>5. Still(u, WantsPage(next, shown).ui)
  BY <1>1, <1>4, StillTrans
<1>. QED  BY <1>1, <1>2, <1>4, <1>5 DEF Just, Pages

LEMMA ReselectIs ==
    ASSUME NEW u, NEW M, NEW shown, NEW anchor, NEW row, ScreenIs(u, M)
    PROVE  LET done == Reselect(u, shown, anchor, row)
           IN Still(u, done.ui) /\ Pages(u, done.out)
<1>. DEFINE grid == [GridOf(u, u.active) EXCEPT !.anchor = anchor]
            anchored == WithGrid(u, u.active, grid)
            next == SelectCell(anchored, shown, row)
<1>1. Reselect(u, shown, anchor, row) =
        IF u.active = None THEN Just(u) ELSE WantsPage(next, shown)
  BY DEF Reselect
<1>2. CASE u.active = None
  BY <1>1, <1>2 DEF Just, Still, ScreenIs, Pages
<1>3. CASE u.active # None
  <2>. HIDE DEF grid
  <2>1. Still(u, anchored)
    BY <1>3, ActiveIs, WithGridIs DEF ScreenIs
  <2>. HIDE DEF anchored
  <2>2. ScreenIs(anchored, M) /\ anchored.active # None
    BY <1>3, <2>1, StillKeeps DEF Still
  <2>3. Still(u, next)
    BY <2>1, <2>2, SelectCellIs, StillTrans
  <2>. HIDE DEF next
  <2>4. ScreenIs(next, M) /\ Active(next) = Active(u)
    BY <2>3, StillKeeps DEF Still, Active, TabsOf
  <2>5. LET page == WantsPage(next, shown)
        IN Still(next, page.ui) /\ Pages(u, page.out)
    BY <2>4, WantsPageIs DEF Pages
  <2>6. Still(u, WantsPage(next, shown).ui)
    BY <2>3, <2>5, StillTrans
  <2>. QED  BY <1>1, <1>3, <2>5, <2>6
<1>. QED  BY <1>2, <1>3

LEMMA CopyIs ==
    ASSUME NEW u, NEW shown, NEW all, IsScreen(u)
    PROVE  Still(u, Copy(u, shown, all))
<1>1. Copy(u, shown, all) = u \/ \E about : Copy(u, shown, all) = Toasted(u, about)
  BY DEF Copy
<1>. QED  BY <1>1, ToastedIs DEF Still

-----------------------------------------------------------------------------
(* Tabs opened, closed and written in.                                       *)

\* What an operation on the tabs leaves alone.
Aside(u, next) ==
    /\ IsScreen(next)
    /\ next.focus = u.focus
    /\ next.modal = u.modal
    /\ next.filter = u.filter
    /\ next.palette = u.palette
    /\ u.queryErrors \subseteq next.queryErrors

OpenedAs(u, next, content) ==
    /\ next.nextTab = u.nextTab + 1
    /\ TabsOf(next) = TabsOf(u) \cup {[content EXCEPT !.id = u.nextTab + 1]}

LEMMA OpenNewIs ==
    ASSUME NEW u, NEW M, NEW content, ScreenIs(u, M), IsTab(content), content.query = None,
           content.kind \in {"Preview", "Definition", "History"} =>
              \A i \in 1 .. Len(u.tabs) : ~Same(u.tabs[i], content)
    PROVE  LET next == OpenNew(u, content)
           IN ScreenIs(next, M) /\ Aside(u, next) /\ OpenedAs(u, next, content)
<1>. DEFINE tab == [content EXCEPT !.id = u.nextTab + 1]
            next == OpenNew(u, content)
            n == Len(u.tabs)
<1>1. IsTab(tab) /\ tab.id = u.nextTab + 1 /\ tab.query = None /\ tab.kind = content.kind
        /\ tab.conn = content.conn /\ tab.item = content.item
  BY DEF IsTab
<1>2. IsSeq(u.tabs) /\ n \in Nat /\ u.nextTab \in Nat
  BY DEF ScreenIs, TabsOK, IsSeq
<1>3. next = [u EXCEPT !.nextTab = @ + 1, !.tabs = Append(@, tab), !.active = tab.id]
  BY DEF OpenNew
<1>. HIDE DEF tab
<1>4. /\ IsSeq(Append(u.tabs, tab))
      /\ Len(Append(u.tabs, tab)) = n + 1
      /\ \A i \in 1 .. n : Append(u.tabs, tab)[i] = u.tabs[i]
      /\ Append(u.tabs, tab)[n + 1] = tab
  BY <1>2, AppendIs
<1>5. /\ IsScreen(next)
      /\ next.tabs = Append(u.tabs, tab) /\ next.nextTab = u.nextTab + 1 /\ next.active = tab.id
      /\ next.focus = u.focus /\ next.modal = u.modal /\ next.grids = u.grids
      /\ next.filter = u.filter /\ next.palette = u.palette /\ next.queryErrors = u.queryErrors
  BY <1>3 DEF ScreenIs, IsScreen, ScreenFields
<1>. HIDE DEF next
<1>6. Aside(u, next)
  BY <1>5 DEF Aside
<1>7. OpenedAs(u, next, content)
  <2>1. TabsOf(next) = TabsOf(u) \cup {tab}
    BY <1>2, <1>4, <1>5 DEF TabsOf
  <2>. QED  BY <1>5, <2>1 DEF OpenedAs, tab
<1>8. \A i \in 1 .. n : u.tabs[i].id \in 1 .. u.nextTab /\ IsTab(u.tabs[i])
                          /\ u.tabs[i].query \in M \cup {None}
  BY DEF ScreenIs, TabsOK
<1>9. \A i \in 1 .. n : Distinct(u.tabs[i], tab) /\ Distinct(tab, u.tabs[i])
  BY <1>1, <1>2, <1>8 DEF Distinct, Same
<1>10. \A i, k \in 1 .. n : i # k => Distinct(u.tabs[i], u.tabs[k])
  BY DEF ScreenIs, TabsOK
<1>11. \A i, k \in 1 .. n + 1 : i # k => Distinct(next.tabs[i], next.tabs[k])
  BY <1>2, <1>4, <1>5, <1>9, <1>10
<1>12. \A i \in 1 .. n + 1 : IsTab(next.tabs[i]) /\ next.tabs[i].id \in 1 .. next.nextTab
                               /\ next.tabs[i].query \in M \cup {None}
  BY <1>1, <1>2, <1>4, <1>5, <1>8
<1>13. TabIds(next) = TabIds(u) \cup {tab.id} /\ next.tabs # <<>>
  <2>1. TabsOf(next) = TabsOf(u) \cup {tab}
    BY <1>7 DEF OpenedAs, tab
  <2>2. Len(next.tabs) = n + 1 /\ n + 1 # 0
    BY <1>2, <1>4, <1>5
  <2>3. next.tabs # <<>>
    BY <2>2, EmptyIs
  <2>. QED  BY <2>1, <2>3 DEF TabIds
<1>14. TabsOK(next, M)
  BY <1>2, <1>4, <1>5, <1>11, <1>12, <1>13 DEF TabsOK, ScreenIs
<1>15. ScreenIs(next, M)
  BY <1>5, <1>14 DEF ScreenIs, ModalOK
<1>. QED  BY <1>6, <1>7, <1>15 DEF next

Focused(u, next) ==
    /\ IsScreen(next)
    /\ next.tabs = u.tabs
    /\ next.nextTab = u.nextTab

LEMMA FocusIs ==
    ASSUME NEW u, NEW M, NEW id, ScreenIs(u, M), id \in TabIds(u)
    PROVE  LET next == [u EXCEPT !.active = id]
           IN ScreenIs(next, M) /\ Aside(u, next) /\ Focused(u, next)
<1>. DEFINE next == [u EXCEPT !.active = id]
<1>1. /\ IsScreen(next)
      /\ next.tabs = u.tabs /\ next.nextTab = u.nextTab /\ next.active = id
      /\ next.focus = u.focus /\ next.modal = u.modal /\ next.grids = u.grids
      /\ next.filter = u.filter /\ next.palette = u.palette /\ next.queryErrors = u.queryErrors
  BY DEF ScreenIs, IsScreen, ScreenFields
<1>. HIDE DEF next
<1>2. u.tabs # <<>>
  BY EmptyIs DEF TabIds, TabsOf
<1>3. TabsOK(next, M)
  BY <1>1, <1>2 DEF ScreenIs, TabsOK, TabIds, TabsOf
<1>. QED  BY <1>1, <1>3 DEF ScreenIs, ModalOK, Aside, Focused, next

LEMMA FocusOrOpenIs ==
    ASSUME NEW u, NEW M, NEW content, ScreenIs(u, M), IsTab(content), content.query = None
    PROVE  LET next == FocusOrOpen(u, content)
           IN /\ ScreenIs(next, M)
              /\ Aside(u, next)
              /\ Focused(u, next) \/ OpenedAs(u, next, content)
<1>. DEFINE there == {i \in 1 .. Len(u.tabs) : Same(u.tabs[i], content)}
            first == CHOOSE i \in there : \A k \in there : i <= k
<1>1. FocusOrOpen(u, content) =
        IF there = {} THEN OpenNew(u, content) ELSE [u EXCEPT !.active = u.tabs[first].id]
  BY DEF FocusOrOpen
<1>2. CASE there = {}
  BY <1>1, <1>2, OpenNewIs
<1>3. CASE there # {}
  <2>1. there \in SUBSET Nat
    OBVIOUS
  <2>. HIDE DEF there
  <2>2. first \in there
    BY <1>3, <2>1, LeastExists
  <2>. HIDE DEF first
  <2>3. u.tabs[first].id \in TabIds(u)
    BY <2>2 DEF there, TabIds, TabsOf
  <2>. QED  BY <1>1, <1>3, <2>3, FocusIs
<1>. QED  BY <1>2, <1>3

\* A tab written in: it is the same tab.
Rewritten(u, next, tab) ==
    /\ next.nextTab = u.nextTab
    /\ TabsOf(next) = {t \in TabsOf(u) : t.id # tab.id} \cup {tab}

LEMMA RetabbedIs ==
    ASSUME NEW u, NEW M, NEW was \in TabsOf(u), NEW tab, NEW id, ScreenIs(u, M), IsTab(tab),
           id = was.id, tab.id = was.id, tab.kind = was.kind, tab.conn = was.conn, tab.item = was.item,
           \/ tab.query = was.query
           \/ tab.query \notin M \cup {None}
    PROVE  LET next == Retabbed(u, id, tab)
           IN /\ ScreenIs(next, M \cup {tab.query})
              /\ tab.query = was.query => ScreenIs(next, M)
              /\ Aside(u, next)
              /\ Rewritten(u, next, tab)
<1>. DEFINE next == Retabbed(u, id, tab)
            n == Len(u.tabs)
            N == IF tab.query = was.query THEN M ELSE M \cup {tab.query}
<1>1. /\ IsScreen(next)
      /\ next.tabs = [i \in 1 .. n |-> IF u.tabs[i].id = id THEN tab ELSE u.tabs[i]]
      /\ next.nextTab = u.nextTab /\ next.active = u.active
      /\ next.focus = u.focus /\ next.modal = u.modal /\ next.grids = u.grids
      /\ next.filter = u.filter /\ next.palette = u.palette /\ next.queryErrors = u.queryErrors
  BY DEF ScreenIs, IsScreen, ScreenFields, Retabbed
<1>. HIDE DEF next
<1>2. n \in Nat /\ IsSeq(u.tabs)
  BY DEF ScreenIs, TabsOK, IsSeq
<1>3. Len(next.tabs) = n /\ IsSeq(next.tabs)
  BY <1>1, <1>2 DEF IsSeq
<1>4. PICK at \in 1 .. n : u.tabs[at] = was
  BY DEF TabsOf
<1>5. \A i \in 1 .. n : u.tabs[i].id = id <=> i = at
  BY <1>4, OneTab DEF ScreenIs
<1>6. \A i \in 1 .. n : next.tabs[i] = IF i = at THEN tab ELSE u.tabs[i]
  BY <1>1, <1>5
<1>7. Rewritten(u, next, tab)
  <2>1. \A i \in 1 .. n : u.tabs[i].id = tab.id <=> i = at
    BY <1>5
  <2>. QED  BY <1>1, <1>3, <1>4, <1>6, <2>1 DEF Rewritten, TabsOf
<1>8. TabIds(next) = TabIds(u)
  <2>1. \A i \in 1 .. n : next.tabs[i].id = u.tabs[i].id
    BY <1>4, <1>6
  <2>. QED  BY <1>3, <2>1 DEF TabIds, TabsOf
<1>9. \A i \in 1 .. n : u.tabs[i].id \in 1 .. u.nextTab /\ IsTab(u.tabs[i])
                          /\ u.tabs[i].query \in M \cup {None}
  BY DEF ScreenIs, TabsOK
<1>10. \A i, k \in 1 .. n : i # k => Distinct(u.tabs[i], u.tabs[k])
  BY DEF ScreenIs, TabsOK
<1>11. \A i \in 1 .. n : i # at => Distinct(u.tabs[i], tab) /\ Distinct(tab, u.tabs[i])
  BY <1>4, <1>9, <1>10 DEF Distinct, Same
<1>12. \A i, k \in 1 .. n : i # k => Distinct(next.tabs[i], next.tabs[k])
  BY <1>6, <1>10, <1>11
<1>13. \A i \in 1 .. n : IsTab(next.tabs[i]) /\ next.tabs[i].id \in 1 .. next.nextTab
                           /\ next.tabs[i].query \in N \cup {None}
  BY <1>1, <1>4, <1>6, <1>9
<1>14. next.tabs = <<>> <=> u.tabs = <<>>
  BY <1>2, <1>3, EmptyIs
<1>15. TabsOK(next, N)
  <2>. HIDE DEF N
  <2>. QED  BY <1>1, <1>3, <1>8, <1>12, <1>13, <1>14 DEF TabsOK, ScreenIs
<1>16. TabsOK(next, M \cup {tab.query})
  BY <1>15 DEF TabsOK
<1>. QED  BY <1>1, <1>7, <1>15, <1>16 DEF ScreenIs, ModalOK, Aside, next

Closed(u, next, id) ==
    /\ next.nextTab = u.nextTab
    /\ TabsOf(next) = {tab \in TabsOf(u) : tab.id # id}

LEMMA CloseTabIs ==
    ASSUME NEW u, NEW M, NEW id, ScreenIs(u, M)
    PROVE  LET next == CloseTab(u, id)
           IN ScreenIs(next, M) /\ Aside(u, next) /\ Closed(u, next, id)
<1>. DEFINE there == {i \in 1 .. Len(u.tabs) : u.tabs[i].id = id}
            position == CHOOSE i \in there : TRUE
            left == Seqs!RemoveAt(u.tabs, position)
            active == IF u.active # id THEN u.active
                      ELSE IF left = <<>> THEN None
                      ELSE left[Least(position, Len(left))].id
            next == CloseTab(u, id)
            n == Len(u.tabs)
<1>1. next = IF there = {} THEN WithoutGrid(u, id)
             ELSE [WithoutGrid(u, id) EXCEPT !.tabs = left, !.active = active]
  <2>1. /\ IsScreen(WithoutGrid(u, id))
        /\ WithoutGrid(u, id).active = u.active
    BY DEF ScreenIs, IsScreen, ScreenFields, WithoutGrid
  <2>. QED  BY <2>1 DEF CloseTab, IsScreen, ScreenFields
<1>. HIDE DEF left, active, next
<1>2. LET without == WithoutGrid(u, id)
      IN /\ Aside(u, without)
         /\ without.tabs = u.tabs /\ without.active = u.active /\ without.nextTab = u.nextTab
         /\ DOMAIN without.grids = DOMAIN u.grids \ {id}
  BY DEF ScreenIs, IsScreen, ScreenFields, WithoutGrid, Aside
<1>3. n \in Nat /\ IsSeq(u.tabs)
  BY DEF ScreenIs, TabsOK, IsSeq
<1>4. CASE there = {}
  <2>1. next = WithoutGrid(u, id)
    BY <1>1, <1>4
  <2>2. id \notin TabIds(u)
    BY <1>4 DEF TabIds, TabsOf
  <2>3. ScreenIs(next, M)
    BY <1>2, <2>1 DEF ScreenIs, Aside, TabsOK, TabIds, TabsOf, ModalOK
  <2>4. Closed(u, next, id)
    BY <1>2, <2>1, <2>2 DEF Closed, TabIds, TabsOf
  <2>. QED  BY <1>2, <2>1, <2>3, <2>4 DEF next
<1>5. CASE there # {}
  <2>1. position \in 1 .. n /\ u.tabs[position].id = id
    BY <1>5
  <2>2. \A i \in 1 .. n : u.tabs[i].id = id <=> i = position
    BY <2>1, OneTab DEF ScreenIs
  <2>. HIDE DEF position
  <2>3. /\ IsSeq(left)
        /\ Len(left) = n - 1
        /\ \A i \in 1 .. n - 1 : left[i] = IF i < position THEN u.tabs[i] ELSE u.tabs[i + 1]
    BY <1>3, <2>1, RemoveAtIs DEF left
  <2>4. /\ Aside(u, next)
        /\ next.tabs = left /\ next.active = active /\ next.nextTab = u.nextTab
        /\ DOMAIN next.grids = DOMAIN u.grids \ {id}
    <3>1. next = [WithoutGrid(u, id) EXCEPT !.tabs = left, !.active = active]
      BY <1>1, <1>5
    <3>. HIDE DEF there
    <3>. QED  BY <1>2, <3>1 DEF Aside, IsScreen, ScreenFields
  <2>5. TabsOf(next) = {tab \in TabsOf(u) : tab.id # id}
    <3>1. ASSUME NEW i \in 1 .. n, i # position
          PROVE  \E k \in 1 .. n - 1 : left[k] = u.tabs[i]
      <4>1. CASE i < position
        BY <1>3, <2>1, <2>3, <4>1
      <4>2. CASE i > position
        <5>1. i - 1 \in 1 .. n - 1 /\ ~ (i - 1 < position) /\ i - 1 + 1 = i
          BY <1>3, <2>1, <4>2
        <5>. QED  BY <2>3, <5>1
      <4>. QED  BY <2>1, <3>1, <4>1, <4>2
    <3>2. ASSUME NEW k \in 1 .. n - 1
          PROVE  \E i \in 1 .. n : i # position /\ left[k] = u.tabs[i]
      BY <1>3, <2>1, <2>3
    <3>3. TabsOf(next) = {left[k] : k \in 1 .. n - 1} /\ TabsOf(u) = {u.tabs[i] : i \in 1 .. n}
      BY <2>3, <2>4 DEF TabsOf
    <3>4. {tab \in TabsOf(u) : tab.id # id} = {u.tabs[i] : i \in {i \in 1 .. n : i # position}}
      BY <2>2, <3>3
    <3>5. {left[k] : k \in 1 .. n - 1} \subseteq {u.tabs[i] : i \in {i \in 1 .. n : i # position}}
      BY <3>2
    <3>6. {u.tabs[i] : i \in {i \in 1 .. n : i # position}} \subseteq {left[k] : k \in 1 .. n - 1}
      BY <3>1
    <3>. QED  BY <3>3, <3>4, <3>5, <3>6
  <2>6. TabIds(next) = TabIds(u) \ {id}
    BY <2>5 DEF TabIds
  <2>7. \A i \in 1 .. n : u.tabs[i].id \in 1 .. u.nextTab /\ IsTab(u.tabs[i])
                            /\ u.tabs[i].query \in M \cup {None}
    BY DEF ScreenIs, TabsOK
  <2>8. \A i, k \in 1 .. n : i # k => Distinct(u.tabs[i], u.tabs[k])
    BY DEF ScreenIs, TabsOK
  <2>9. \A i, k \in 1 .. n - 1 : i # k => Distinct(left[i], left[k])
    <3>. DEFINE from(i) == IF i < position THEN i ELSE i + 1
    <3>1. \A i \in 1 .. n - 1 : from(i) \in 1 .. n /\ left[i] = u.tabs[from(i)]
      BY <1>3, <2>1, <2>3
    <3>2. \A i, k \in 1 .. n - 1 : i # k => from(i) # from(k)
      BY <1>3, <2>1
    <3>. HIDE DEF from
    <3>. QED  BY <2>8, <3>1, <3>2
  <2>10. \A i \in 1 .. n - 1 : left[i].id \in 1 .. u.nextTab /\ IsTab(left[i])
                                 /\ left[i].query \in M \cup {None}
    BY <1>3, <2>1, <2>3, <2>7
  <2>11. IF left = <<>> THEN active = None ELSE active \in TabIds(next)
    <3>1. u.tabs # <<>> /\ u.active \in TabIds(u)
      <4>1. u.tabs # <<>>
        BY <1>3, <2>1, EmptyIs
      <4>. QED  BY <4>1 DEF ScreenIs, TabsOK
    <3>2. CASE u.active # id
      <4>1. active = u.active /\ active \in TabIds(next)
        BY <2>6, <3>1, <3>2 DEF active
      <4>2. left # <<>>
        BY <2>3, <2>4, <4>1, EmptyIs DEF TabIds, TabsOf
      <4>. QED  BY <4>1, <4>2
    <3>3. CASE u.active = id /\ left # <<>>
      <4>1. n \in Nat /\ n > 1
        BY <1>3, <2>1, <2>3, <3>3, EmptyIs
      <4>2. Least(position, n - 1) \in 1 .. n - 1
        <5>1. position \in Int /\ 1 <= position
          BY <2>1
        <5>2. n - 1 \in Int /\ 1 <= n - 1
          <6>. HIDE DEF n
          <6>. QED  BY <4>1
        <5>3. CASE position < n - 1
          BY <5>1, <5>2, <5>3 DEF Least
        <5>4. CASE ~ position < n - 1
          BY <5>1, <5>2, <5>4 DEF Least
        <5>. QED  BY <5>3, <5>4
      <4>3. active = left[Least(position, n - 1)].id
        BY <2>3, <3>3 DEF active
      <4>. QED  BY <2>3, <2>4, <3>3, <4>2, <4>3 DEF TabIds, TabsOf
    <3>4. CASE u.active = id /\ left = <<>>
      BY <3>4 DEF active
    <3>. QED  BY <3>2, <3>3, <3>4
  <2>12. DOMAIN next.grids \subseteq TabIds(next)
    BY <2>4, <2>6 DEF ScreenIs, TabsOK
  <2>13. TabsOK(next, M)
    BY <2>3, <2>4, <2>9, <2>10, <2>11, <2>12 DEF TabsOK, ScreenIs
  <2>14. Closed(u, next, id)
    BY <2>4, <2>5 DEF Closed
  <2>. QED  BY <2>4, <2>13, <2>14 DEF ScreenIs, Aside, ModalOK, next
<1>. QED  BY <1>4, <1>5

-----------------------------------------------------------------------------
(* Commands.                                                                 *)

\* What a command asks the store by itself.
Humble(out) ==
    IsSeq(out) /\ \A i \in 1 .. Len(out) : out[i].op \in {"LoadMore", "Search", "Load", "Save"}

\* A tab that is written in by a command: over nothing, and only its words.
Inserted(u, next) ==
    \E was \in TabsOf(u), tab \in TabsOf(next) :
       /\ tab.id = was.id /\ tab.kind = was.kind /\ tab.conn = was.conn /\ tab.item = was.item
       /\ tab.query = was.query
       /\ was.text # None => tab.text = was.text
       /\ Rewritten(u, next, tab)

\* What a command does to the tabs.
Effect(u, next, v) ==
    \/ Focused(u, next)
    \/ \E content : /\ OpenedAs(u, next, content)
                    /\ IsTab(content)
                    /\ content.query = None
                    /\ content.kind = "Preview" =>
                          v.cmd = "OpenTab" /\ content = Content("Preview", v.at, v.with)
    \/ v.cmd = "CloseTab" /\ Closed(u, next, v.at)
    \/ Inserted(u, next)

\* What is done to a tab, and to nothing a key is read for.
Worked(u, M, next, v) ==
    /\ ScreenIs(next, M)
    /\ Effect(u, next, v)
    /\ next.filter = u.filter
    /\ u.queryErrors \subseteq next.queryErrors

LEMMA HumbleIs ==
    ASSUME NEW u
    PROVE  /\ Humble(<<>>)
           /\ \A out : Pages(u, out) => Humble(out)
           /\ \A a : a.op \in {"LoadMore", "Search", "Load", "Save"} => Humble(<<a>>)
<1>1. Humble(<<>>)
  BY EmptyIs DEF Humble
<1>2. ASSUME NEW a, a.op \in {"LoadMore", "Search", "Load", "Save"}
      PROVE  Humble(<<a>>)
  BY <1>2, OneIs DEF Humble
<1>3. ASSUME NEW out, Pages(u, out)
      PROVE  Humble(out)
  <2>1. CASE out = <<>>
    BY <1>1, <2>1
  <2>2. ASSUME NEW tab \in Active(u), out = <<Action("LoadMore", tab.conn, tab.item, None)>>
        PROVE  Humble(out)
    <3>1. Action("LoadMore", tab.conn, tab.item, None).op = "LoadMore"
      BY DEF Action
    <3>. QED  BY <1>2, <2>2, <3>1
  <2>. QED  BY <1>3, <2>1, <2>2 DEF Pages
<1>. QED  BY <1>1, <1>2, <1>3

LEMMA StillWorked ==
    ASSUME NEW u, NEW M, NEW next, NEW v, ScreenIs(u, M), Still(u, next)
    PROVE  Worked(u, M, next, v)
  BY StillKeeps DEF Worked, Effect, Focused, Still

\* A tab with words that were not there.
LEMMA RewriteWorked ==
    ASSUME NEW u, NEW M, NEW v, NEW was \in TabsOf(u), NEW tab, ScreenIs(u, M), IsTab(tab),
           tab.id = was.id, tab.kind = was.kind, tab.conn = was.conn, tab.item = was.item,
           tab.query = was.query, was.text # None => tab.text = was.text
    PROVE  Worked(u, M, Retabbed(u, was.id, tab), v)
<1>. DEFINE next == Retabbed(u, was.id, tab)
<1>1. ScreenIs(next, M) /\ Aside(u, next) /\ Rewritten(u, next, tab)
  BY RetabbedIs
<1>. HIDE DEF next
<1>2. tab \in TabsOf(next)
  BY <1>1 DEF Rewritten
<1>3. Inserted(u, next)
  BY <1>1, <1>2 DEF Inserted
<1>. QED  BY <1>1, <1>3 DEF Worked, Effect, Aside, next

LEMMA ContentIs ==
    ASSUME NEW kind, NEW c, NEW item
    PROVE  LET content == Content(kind, c, item)
           IN /\ IsTab(content)
              /\ content.query = None /\ content.kind = kind
  BY DEF Content, IsTab

LEMMA TabIsTab ==
    ASSUME NEW u, NEW M, ScreenIs(u, M), NEW tab \in TabsOf(u)
    PROVE  IsTab(tab) /\ tab.id \in 1 .. u.nextTab /\ tab.query \in M \cup {None}
  BY DEF ScreenIs, TabsOK, TabsOf

LEMMA InsertIs ==
    ASSUME NEW u, NEW M, NEW shown, NEW text, NEW v, ScreenIs(u, M)
    PROVE  Worked(u, M, Insert(u, shown, text), v)
<1>. DEFINE empty == {tab \in Active(u) : tab.kind = "Sql" /\ tab.text = None}
            conn == ConnectionForNewTab(u, shown)
            was == CHOOSE tab \in empty : TRUE
            content == [Content("Sql", conn, None) EXCEPT !.text = text]
<1>1. Insert(u, shown, text) =
        IF empty # {} THEN Retabbed(u, was.id, [was EXCEPT !.text = text])
        ELSE IF conn = None THEN Toasted(u, "nothing is connected")
        ELSE OpenNew(u, content)
  BY DEF Insert
<1>2. CASE empty # {}
  <2>1. was \in TabsOf(u) /\ was.text = None
    BY <1>2 DEF Active
  <2>. HIDE DEF was
  <2>. DEFINE tab == [was EXCEPT !.text = text]
  <2>2. IsTab(tab) /\ tab.id = was.id /\ tab.kind = was.kind /\ tab.conn = was.conn
          /\ tab.item = was.item /\ tab.query = was.query
    BY <2>1, TabIsTab DEF IsTab
  <2>. HIDE DEF tab
  <2>3. Worked(u, M, Retabbed(u, was.id, tab), v)
    BY <2>1, <2>2, RewriteWorked
  <2>. QED  BY <1>1, <1>2, <2>3 DEF tab
<1>3. CASE empty = {} /\ conn = None
  <2>1. Insert(u, shown, text) = Toasted(u, "nothing is connected")
    BY <1>1, <1>3
  <2>. QED  BY <2>1, ToastedIs, StillWorked DEF ScreenIs
<1>4. CASE empty = {} /\ conn # None
  <2>. HIDE DEF conn
  <2>1. IsTab(content) /\ content.query = None /\ content.kind = "Sql"
    BY DEF Content, IsTab
  <2>. DEFINE next == OpenNew(u, content)
  <2>2. Insert(u, shown, text) = next
    BY <1>1, <1>4
  <2>. HIDE DEF content
  <2>3. ScreenIs(next, M) /\ Aside(u, next) /\ OpenedAs(u, next, content)
    BY <2>1, OpenNewIs
  <2>. HIDE DEF next
  <2>. QED  BY <2>1, <2>2, <2>3 DEF Worked, Effect, Aside
<1>. QED  BY <1>2, <1>3, <1>4

\* A screen with the same tabs.
Alike(u, next) ==
    /\ next.tabs = u.tabs
    /\ next.nextTab = u.nextTab
    /\ next.filter = u.filter
    /\ next.queryErrors = u.queryErrors

LEMMA AlikeWorked ==
    ASSUME NEW u, NEW M, NEW other, NEW next, NEW v, Alike(u, other), Worked(other, M, next, v)
    PROVE  Worked(u, M, next, v)
<1>1. TabsOf(other) = TabsOf(u) /\ other.nextTab = u.nextTab /\ other.tabs = u.tabs
  BY DEF Alike, TabsOf
<1>2. Effect(u, next, v)
  BY <1>1 DEF Worked, Effect, Focused, OpenedAs, Closed, Inserted, Rewritten
<1>. QED  BY <1>2 DEF Worked, Alike

\* The palette, a menu, a dialog: a field that no tab is behind.
LEMMA PutAside ==
    ASSUME NEW u, NEW M, NEW x, NEW v, ScreenIs(u, M)
    PROVE  /\ LET next == [u EXCEPT !.palette = x]
              IN ScreenIs(next, M) /\ Alike(u, next) /\ Worked(u, M, next, v)
           /\ LET next == [u EXCEPT !.menu = x] IN Worked(u, M, next, v)
           /\ LET next == [u EXCEPT !.detail = x] IN Worked(u, M, next, v)
           /\ LET next == [u EXCEPT !.toasts = x] IN Worked(u, M, next, v)
           /\ x \in {"Explorer", "Grid"} =>
                LET next == [u EXCEPT !.focus = x] IN Worked(u, M, next, v)
           /\ x = None \/ x.intent = None \/ x.intent.op \in {"Approve", "Replace", "Delete"} =>
                LET next == [u EXCEPT !.modal = x] IN Worked(u, M, next, v)
<1>. DEFINE Kept(next) ==
               /\ IsScreen(next)
               /\ next.tabs = u.tabs /\ next.active = u.active /\ next.nextTab = u.nextTab
               /\ next.grids = u.grids /\ next.filter = u.filter /\ next.queryErrors = u.queryErrors
<1>1. ASSUME NEW next, Kept(next), next.focus \in {"Explorer", "Grid"}, ModalOK(next)
      PROVE  ScreenIs(next, M) /\ Alike(u, next) /\ Worked(u, M, next, v)
  <2>1. TabsOK(next, M)
    BY <1>1 DEF ScreenIs, TabsOK, TabIds, TabsOf
  <2>2. ScreenIs(next, M)
    BY <1>1, <2>1 DEF ScreenIs
  <2>. QED  BY <1>1, <2>2 DEF Alike, Worked, Effect, Focused
<1>2. LET next == [u EXCEPT !.palette = x]
      IN Kept(next) /\ next.focus = u.focus /\ next.modal = u.modal
  BY DEF ScreenIs, IsScreen, ScreenFields
<1>3. LET next == [u EXCEPT !.menu = x]
      IN Kept(next) /\ next.focus = u.focus /\ next.modal = u.modal
  BY DEF ScreenIs, IsScreen, ScreenFields
<1>4. LET next == [u EXCEPT !.detail = x]
      IN Kept(next) /\ next.focus = u.focus /\ next.modal = u.modal
  BY DEF ScreenIs, IsScreen, ScreenFields
<1>5. LET next == [u EXCEPT !.toasts = x]
      IN Kept(next) /\ next.focus = u.focus /\ next.modal = u.modal
  BY DEF ScreenIs, IsScreen, ScreenFields
<1>6. LET next == [u EXCEPT !.focus = x]
      IN Kept(next) /\ next.focus = x /\ next.modal = u.modal
  BY DEF ScreenIs, IsScreen, ScreenFields
<1>7. LET next == [u EXCEPT !.modal = x]
      IN Kept(next) /\ next.focus = u.focus /\ next.modal = x
  BY DEF ScreenIs, IsScreen, ScreenFields
<1>. HIDE DEF Kept
<1>8. u.focus \in {"Explorer", "Grid"} /\ ModalOK(u)
  BY DEF ScreenIs
<1>. QED  BY <1>1, <1>2, <1>3, <1>4, <1>5, <1>6, <1>7, <1>8 DEF ModalOK

LEMMA ActionIs ==
    ASSUME NEW op, NEW c, NEW item, NEW arg
    PROVE  Action(op, c, item, arg).op = op
  BY DEF Action

LEMMA UseTemplateIs ==
    ASSUME NEW u, NEW M, NEW shown, NEW t, NEW v, ScreenIs(u, M)
    PROVE  /\ Worked(u, M, UseTemplate(u, shown, t), v)
           /\ Worked(u, M, SubmitTemplate(u, shown), v)
<1>. DEFINE closed == [u EXCEPT !.palette = None]
            asking == [u EXCEPT !.palette.asking = [template |-> t, filled |-> FALSE]]
<1>1. Worked(u, M, u, v)
  BY DEF Worked, Effect, Focused, ScreenIs
<1>2. Worked(u, M, Insert(closed, shown, SavedText), v)
  <2>1. ScreenIs(closed, M) /\ Alike(u, closed)
    BY PutAside
  <2>. HIDE DEF closed
  <2>. QED  BY <2>1, InsertIs, AlikeWorked
<1>3. Worked(u, M, asking, v)
  <2>. DEFINE palette == [u.palette EXCEPT !.asking = [template |-> t, filled |-> FALSE]]
  <2>1. asking = [u EXCEPT !.palette = palette]
    BY DEF ScreenIs, IsScreen, ScreenFields
  <2>. HIDE DEF palette, asking
  <2>. QED  BY <2>1, PutAside
<1>4. \/ UseTemplate(u, shown, t) = u
      \/ UseTemplate(u, shown, t) = Insert(closed, shown, SavedText)
      \/ UseTemplate(u, shown, t) = asking
  BY DEF UseTemplate
<1>5. \/ SubmitTemplate(u, shown) = u
      \/ SubmitTemplate(u, shown) = Insert(closed, shown, SavedText)
  BY DEF SubmitTemplate
<1>. QED  BY <1>1, <1>2, <1>3, <1>4, <1>5

LEMMA ConfirmIs ==
    ASSUME NEW u, NEW M, NEW kind, NEW t, NEW op \in {"Replace", "Delete"}, NEW v, ScreenIs(u, M)
    PROVE  LET next == [u EXCEPT !.palette = None,
                                 !.modal = Dialog(kind, t, Action(op, None, t, None))]
           IN Worked(u, M, next, v)
<1>. DEFINE modal == Dialog(kind, t, Action(op, None, t, None))
            closed == [u EXCEPT !.palette = None]
            next == [closed EXCEPT !.modal = modal]
<1>1. modal.intent.op \in {"Approve", "Replace", "Delete"}
  BY DEF Dialog, Action
<1>. HIDE DEF modal
<1>2. ScreenIs(closed, M) /\ Alike(u, closed)
  BY PutAside
<1>3. next = [u EXCEPT !.palette = None, !.modal = modal]
  BY DEF ScreenIs, IsScreen, ScreenFields
<1>. HIDE DEF closed
<1>4. Worked(closed, M, next, v)
  BY <1>1, <1>2, PutAside
<1>. HIDE DEF next
<1>. QED  BY <1>2, <1>3, <1>4, AlikeWorked DEF modal

LEMMA CommitIs ==
    ASSUME NEW u, NEW M, NEW shown, NEW v, ScreenIs(u, M)
    PROVE  LET done == CommitTemplate(u, shown)
           IN Worked(u, M, done.ui, v) /\ Humble(done.out)
<1>. DEFINE named == {t \in Saved : /\ u.palette # None
                                    /\ u.palette.body # None
                                    /\ Label[t] = u.palette.filter}
            t == CHOOSE t \in named : TRUE
            closed == [u EXCEPT !.palette = None]
            next == [u EXCEPT !.palette = None,
                              !.modal = Dialog("replace", t, Action("Replace", None, t, None))]
<1>1. [closed EXCEPT !.modal = Dialog("replace", t, Action("Replace", None, t, None))] = next
  BY DEF ScreenIs, IsScreen, ScreenFields
<1>2. \/ CommitTemplate(u, shown) = Just(closed)
      \/ CommitTemplate(u, shown) = Just(next)
      \/ CommitTemplate(u, shown) = Asks(closed, Action("Save", None, t, None))
  BY <1>1 DEF CommitTemplate
<1>3. Worked(u, M, closed, v)
  BY PutAside
<1>4. Worked(u, M, next, v)
  BY ConfirmIs
<1>. HIDE DEF closed, next
<1>. QED  BY <1>2, <1>3, <1>4, HumbleIs, ActionIs DEF Just, Asks

LEMMA HistoryTermsIs ==
    ASSUME NEW u, NEW M, NEW box, NEW v, ScreenIs(u, M)
    PROVE  LET done == SetHistoryTerms(u, box)
           IN Worked(u, M, done.ui, v) /\ Humble(done.out)
<1>. DEFINE tabs == {tab \in Active(u) : tab.kind = "History"}
            was == CHOOSE tab \in tabs : TRUE
            next == IF box = None THEN [was.box EXCEPT !.editing = FALSE] ELSE box
            tab == [was EXCEPT !.box = next]
<1>1. SetHistoryTerms(u, box) =
        IF tabs = {} THEN Just(u) ELSE Searches(Retabbed(u, was.id, tab))
  BY DEF SetHistoryTerms
<1>2. CASE tabs = {}
  BY <1>1, <1>2, HumbleIs DEF Just, Worked, Effect, Focused, ScreenIs
<1>3. CASE tabs # {}
  <2>1. was \in TabsOf(u)
    BY <1>3 DEF Active
  <2>. HIDE DEF was, next
  <2>2. IsTab(tab) /\ tab.id = was.id /\ tab.kind = was.kind /\ tab.conn = was.conn
          /\ tab.item = was.item /\ tab.query = was.query /\ tab.text = was.text
    BY <2>1, TabIsTab DEF IsTab
  <2>. HIDE DEF tab
  <2>3. Worked(u, M, Retabbed(u, was.id, tab), v)
    BY <2>1, <2>2, RewriteWorked
  <2>. QED  BY <1>1, <1>3, <2>3, HumbleIs, ActionIs DEF Searches, Asks
<1>. QED  BY <1>2, <1>3

LEMMA SetFilterIs ==
    ASSUME NEW u, NEW M, NEW shown, NEW box, ScreenIs(u, M)
    PROVE  LET next == SetFilter(u, shown, box)
           IN /\ ScreenIs(next, M)
              /\ next.tabs = u.tabs /\ next.nextTab = u.nextTab
              /\ u.queryErrors \subseteq next.queryErrors
<1>. DEFINE with == [u EXCEPT !.filter = box]
<1>1. \E row : SetFilter(u, shown, box) = SelectTreeRow(with, shown, row)
  BY DEF SetFilter
<1>2. /\ IsScreen(with) /\ with.focus = u.focus /\ with.modal = u.modal
      /\ with.tabs = u.tabs /\ with.nextTab = u.nextTab /\ with.active = u.active /\ with.grids = u.grids
      /\ with.queryErrors = u.queryErrors
  BY DEF ScreenIs, IsScreen, ScreenFields
<1>. HIDE DEF with
<1>3. ScreenIs(with, M)
  BY <1>2 DEF ScreenIs, TabsOK, TabIds, TabsOf, ModalOK
<1>4. Still(with, SetFilter(u, shown, box))
  BY <1>1, <1>2, SelectTreeRowIs
<1>. QED  BY <1>2, <1>3, <1>4, StillKeeps DEF Still

-----------------------------------------------------------------------------
(* UiState::apply.                                                           *)

PaneCommands ==
    {"FocusPane", "CycleFocus", "ScrollBy", "ScrollToStart", "ScrollToEnd", "SetFilter",
     "SelectTreeRow", "MoveTreeSelection", "SelectCell", "MoveCellSelection",
     "ExtendCellSelection", "ExtendCellSelectionTo", "Copy", "OpenMenu", "CloseMenu",
     "ToggleDetail", "DismissModal", "DismissToast"}

TabCommands ==
    {"OpenTab", "OpenDefinition", "OpenSqlTab", "OpenHistoryTab", "SetHistoryTerms", "SelectTab",
     "CloseTab", "Palette", "CommitTemplate", "ReuseRun", "UseTemplate", "SubmitTemplate",
     "ConfirmDeleteTemplate"}

\* What a command may be, and what it may be given.
IsCommand(v) ==
    /\ v.cmd \in PaneCommands \cup TabCommands
    /\ v.cmd = "FocusPane" => v.at \in {"Explorer", "Grid"}

\* A command carried out: it asks for little by itself.
Applied(u, M, done, v) ==
    /\ ScreenIs(done.ui, M)
    /\ Effect(u, done.ui, v)
    /\ v.cmd # "SetFilter" => done.ui.filter = u.filter
    /\ u.queryErrors \subseteq done.ui.queryErrors
    /\ Humble(done.out)

LEMMA JustApplied ==
    ASSUME NEW u, NEW M, NEW next, NEW v, Worked(u, M, next, v)
    PROVE  Applied(u, M, Just(next), v)
  BY HumbleIs DEF Applied, Worked, Just

LEMMA PaneApplied ==
    ASSUME NEW u, NEW M, NEW shown, NEW v, ScreenIs(u, M), IsCommand(v), v.cmd \in PaneCommands
    PROVE  Applied(u, M, ApplyView(u, shown, v), v)
<1>0. Worked(u, M, u, v) /\ IsScreen(u)
  BY DEF Worked, Effect, Focused, ScreenIs
<1>1. CASE v.cmd = "FocusPane"
  BY <1>1, PutAside, JustApplied DEF ApplyView, IsCommand
<1>2. CASE v.cmd = "CycleFocus"
  <2>1. Other(u.focus) \in {"Explorer", "Grid"} /\ [u EXCEPT !.focus = Other(@)] = [u EXCEPT !.focus = Other(u.focus)]
    BY <1>0 DEF Other, IsScreen, ScreenFields
  <2>2. ApplyView(u, shown, v) = Just([u EXCEPT !.focus = Other(u.focus)])
    BY <1>2, <2>1 DEF ApplyView
  <2>. QED  BY <2>1, <2>2, PutAside, JustApplied
<1>3. ASSUME NEW pane, NEW to
      PROVE  /\ Applied(u, M, ScrollTo(u, shown, pane, to), v)
             /\ Applied(u, M, Just(SetOffset(u, shown, pane, to)), v)
  <2>1. Still(u, ScrollTo(u, shown, pane, to).ui) /\ Humble(ScrollTo(u, shown, pane, to).out)
    BY ScrollToIs, HumbleIs
  <2>2. Worked(u, M, ScrollTo(u, shown, pane, to).ui, v)
    BY <2>1, StillWorked
  <2>3. Worked(u, M, SetOffset(u, shown, pane, to), v)
    BY SetOffsetIs, StillWorked
  <2>. QED  BY <2>1, <2>2, <2>3, JustApplied DEF Applied, Worked
<1>4. CASE v.cmd \in {"ScrollBy", "ScrollToStart", "ScrollToEnd"}
  <2>1. \/ \E to : ApplyView(u, shown, v) = ScrollTo(u, shown, v.at, to)
        \/ ApplyView(u, shown, v) = Just(SetOffset(u, shown, v.at, 0))
    BY <1>4 DEF ApplyView
  <2>. QED  BY <1>3, <2>1
<1>5. CASE v.cmd = "SetFilter"
  <2>. DEFINE next == SetFilter(u, shown, v.with)
  <2>1. /\ ScreenIs(next, M)
        /\ next.tabs = u.tabs /\ next.nextTab = u.nextTab
        /\ u.queryErrors \subseteq next.queryErrors
    BY SetFilterIs
  <2>2. Effect(u, next, v)
    BY <2>1 DEF Effect, Focused, ScreenIs
  <2>3. ApplyView(u, shown, v) = Just(next)
    BY <1>5 DEF ApplyView
  <2>. HIDE DEF next
  <2>. QED  BY <1>5, <2>1, <2>2, <2>3, HumbleIs DEF Applied, Just
<1>6. CASE v.cmd \in {"SelectTreeRow", "MoveTreeSelection"}
  <2>1. \E row : ApplyView(u, shown, v) = Just(SelectTreeRow(u, shown, row))
    BY <1>6 DEF ApplyView
  <2>. QED  BY <1>0, <2>1, SelectTreeRowIs, StillWorked, JustApplied
<1>7. CASE v.cmd \in {"SelectCell", "MoveCellSelection", "ExtendCellSelection", "ExtendCellSelectionTo"}
  <2>1. \E anchor, row : ApplyView(u, shown, v) = Reselect(u, shown, anchor, row)
    BY <1>7 DEF ApplyView
  <2>2. ASSUME NEW anchor, NEW row
        PROVE  Applied(u, M, Reselect(u, shown, anchor, row), v)
    <3>1. Still(u, Reselect(u, shown, anchor, row).ui) /\ Humble(Reselect(u, shown, anchor, row).out)
      BY ReselectIs, HumbleIs
    <3>2. Worked(u, M, Reselect(u, shown, anchor, row).ui, v)
      BY <3>1, StillWorked
    <3>. QED  BY <3>1, <3>2 DEF Applied, Worked
  <2>. QED  BY <2>1, <2>2
<1>8. CASE v.cmd = "Copy"
  <2>1. ApplyView(u, shown, v) = Just(Copy(u, shown, v.with))
    BY <1>8 DEF ApplyView
  <2>. QED  BY <1>0, <2>1, CopyIs, StillWorked, JustApplied
<1>9. CASE v.cmd \in {"OpenMenu", "CloseMenu", "ToggleDetail", "DismissModal", "DismissToast"}
  <2>1. \/ \E x : ApplyView(u, shown, v) = Just([u EXCEPT !.menu = x])
        \/ \E x : ApplyView(u, shown, v) = Just([u EXCEPT !.detail = x])
        \/ \E x : ApplyView(u, shown, v) = Just([u EXCEPT !.toasts = x])
        \/ ApplyView(u, shown, v) = Just([u EXCEPT !.modal = None])
    <3>1. CASE v.cmd \in {"OpenMenu", "CloseMenu", "DismissModal"}
      BY <3>1 DEF ApplyView
    <3>2. CASE v.cmd = "ToggleDetail"
      <4>1. [u EXCEPT !.detail = ~ @] = [u EXCEPT !.detail = ~ u.detail]
        BY <1>0 DEF IsScreen, ScreenFields
      <4>. QED  BY <3>2, <4>1 DEF ApplyView
    <3>3. CASE v.cmd = "DismissToast"
      <4>. DEFINE left == SelectSeq(u.toasts, LAMBDA toast : toast.id # v.at)
      <4>1. ApplyView(u, shown, v) = Just([u EXCEPT !.toasts = left])
        BY <1>0, <3>3 DEF ApplyView, IsScreen, ScreenFields
      <4>. HIDE DEF left
      <4>. QED  BY <4>1
    <3>. QED  BY <1>9, <3>1, <3>2, <3>3
  <2>. QED  BY <2>1, PutAside, JustApplied
<1>. QED  BY <1>1, <1>2, <1>4, <1>5, <1>6, <1>7, <1>8, <1>9 DEF PaneCommands

LEMMA TabApplied ==
    ASSUME NEW u, NEW M, NEW shown, NEW v, ScreenIs(u, M), v.cmd \in TabCommands
    PROVE  Applied(u, M, ApplyView(u, shown, v), v)
<1>0. Worked(u, M, u, v) /\ IsScreen(u)
  BY DEF Worked, Effect, Focused, ScreenIs
<1>1. ASSUME NEW content, IsTab(content), content.query = None,
             content.kind = "Preview" => v.cmd = "OpenTab" /\ content = Content("Preview", v.at, v.with)
      PROVE  Worked(u, M, FocusOrOpen(u, content), v)
  <2>. DEFINE next == FocusOrOpen(u, content)
  <2>1. ScreenIs(next, M) /\ Aside(u, next) /\ (Focused(u, next) \/ OpenedAs(u, next, content))
    BY <1>1, FocusOrOpenIs
  <2>. HIDE DEF next
  <2>2. Effect(u, next, v)
    BY <1>1, <2>1 DEF Effect
  <2>. QED  BY <2>1, <2>2 DEF Worked, Aside, next
<1>2. CASE v.cmd = "OpenTab"
  <2>. DEFINE content == Content("Preview", v.at, v.with)
  <2>1. ApplyView(u, shown, v) = Just(FocusOrOpen(u, content))
    BY <1>2 DEF ApplyView
  <2>2. IsTab(content) /\ content.query = None
    BY ContentIs
  <2>3. Worked(u, M, FocusOrOpen(u, content), v)
    BY <1>1, <1>2, <2>2
  <2>. QED  BY <2>1, <2>3, JustApplied
<1>3. CASE v.cmd = "OpenDefinition"
  <2>. DEFINE content == Content("Definition", v.at, v.with)
  <2>1. ApplyView(u, shown, v) = Just(FocusOrOpen(u, content))
    BY <1>3 DEF ApplyView
  <2>2. IsTab(content) /\ content.query = None /\ content.kind = "Definition"
    BY ContentIs
  <2>3. Worked(u, M, FocusOrOpen(u, content), v)
    BY <1>1, <2>2
  <2>. QED  BY <2>1, <2>3, JustApplied
<1>4. CASE v.cmd = "OpenSqlTab"
  <2>. DEFINE content == Content("Sql", v.at, None)
              next == OpenNew(u, content)
  <2>1. ApplyView(u, shown, v) = Just(next)
    BY <1>4 DEF ApplyView
  <2>2. IsTab(content) /\ content.query = None /\ content.kind = "Sql"
    BY ContentIs
  <2>. HIDE DEF content
  <2>3. ScreenIs(next, M) /\ Aside(u, next) /\ OpenedAs(u, next, content)
    BY <2>2, OpenNewIs
  <2>. HIDE DEF next
  <2>4. Worked(u, M, next, v)
    BY <2>2, <2>3 DEF Worked, Effect, Aside
  <2>. QED  BY <2>1, <2>4, JustApplied
<1>5. CASE v.cmd = "OpenHistoryTab"
  <2>. DEFINE content == [Content("History", v.at, None) EXCEPT !.box = OpenBox]
              next == FocusOrOpen(u, content)
  <2>1. ApplyView(u, shown, v) = Searches(next)
    BY <1>5 DEF ApplyView
  <2>2. IsTab(content) /\ content.query = None /\ content.kind = "History"
    BY DEF Content, IsTab
  <2>. HIDE DEF content
  <2>3. Worked(u, M, next, v)
    BY <1>1, <2>2
  <2>. HIDE DEF next
  <2>. QED  BY <2>1, <2>3, HumbleIs, ActionIs DEF Searches, Asks, Applied, Worked
<1>6. CASE v.cmd = "SetHistoryTerms"
  <2>. DEFINE done == SetHistoryTerms(u, v.with)
  <2>1. ApplyView(u, shown, v) = done
    BY <1>6 DEF ApplyView
  <2>2. Worked(u, M, done.ui, v) /\ Humble(done.out)
    BY HistoryTermsIs
  <2>. HIDE DEF done
  <2>. QED  BY <1>6, <2>1, <2>2 DEF Applied, Worked
<1>7. CASE v.cmd = "SelectTab"
  <2>. DEFINE next == [u EXCEPT !.active = v.at]
  <2>1. \/ ApplyView(u, shown, v) = Just(u)
        \/ v.at \in TabIds(u) /\ ApplyView(u, shown, v) = Just(next)
    BY <1>7 DEF ApplyView, TabIds
  <2>2. v.at \in TabIds(u) => Worked(u, M, next, v)
    BY FocusIs DEF Worked, Effect, Aside
  <2>. QED  BY <1>0, <2>1, <2>2, JustApplied
<1>8. CASE v.cmd = "CloseTab"
  <2>. DEFINE next == CloseTab(u, v.at)
  <2>1. ApplyView(u, shown, v) = Just(next)
    BY <1>8 DEF ApplyView
  <2>2. ScreenIs(next, M) /\ Aside(u, next) /\ Closed(u, next, v.at)
    BY CloseTabIs
  <2>. HIDE DEF next
  <2>. QED  BY <1>8, <2>1, <2>2, JustApplied DEF Worked, Effect, Aside
<1>9. CASE v.cmd = "Palette"
  <2>1. \E x : \/ ApplyView(u, shown, v) = Just([u EXCEPT !.palette = x])
               \/ ApplyView(u, shown, v) =
                    Asks([u EXCEPT !.palette = x], Action("Load", None, None, None))
    BY <1>9 DEF ApplyView
  <2>2. ASSUME NEW x
        PROVE  /\ Applied(u, M, Just([u EXCEPT !.palette = x]), v)
               /\ Applied(u, M, Asks([u EXCEPT !.palette = x], Action("Load", None, None, None)), v)
    <3>1. Worked(u, M, [u EXCEPT !.palette = x], v)
      BY PutAside
    <3>2. Humble(<<Action("Load", None, None, None)>>)
      BY HumbleIs, ActionIs
    <3>. DEFINE next == [u EXCEPT !.palette = x]
    <3>. HIDE DEF next
    <3>3. Applied(u, M, Asks(next, Action("Load", None, None, None)), v)
      BY <3>1, <3>2 DEF Asks, Applied, Worked, next
    <3>. QED  BY <3>1, <3>3, JustApplied DEF next
  <2>. QED  BY <2>1, <2>2
<1>10. CASE v.cmd = "CommitTemplate"
  <2>1. ApplyView(u, shown, v) = CommitTemplate(u, shown)
    BY <1>10 DEF ApplyView
  <2>. DEFINE done == CommitTemplate(u, shown)
  <2>2. Worked(u, M, done.ui, v) /\ Humble(done.out)
    BY CommitIs
  <2>. HIDE DEF done
  <2>. QED  BY <2>1, <2>2 DEF Applied, Worked, done
<1>11. CASE v.cmd \in {"ReuseRun", "UseTemplate", "SubmitTemplate"}
  <2>1. \/ ApplyView(u, shown, v) = Just(u)
        \/ ApplyView(u, shown, v) = Just(Insert(u, shown, SavedText))
        \/ ApplyView(u, shown, v) = Just(UseTemplate(u, shown, v.at))
        \/ ApplyView(u, shown, v) = Just(SubmitTemplate(u, shown))
    BY <1>11 DEF ApplyView
  <2>. QED  BY <1>0, <2>1, InsertIs, UseTemplateIs, JustApplied
<1>12. CASE v.cmd = "ConfirmDeleteTemplate"
  <2>1. ApplyView(u, shown, v) =
          Just([u EXCEPT !.palette = None,
                         !.modal = Dialog("delete", v.at, Action("Delete", None, v.at, None))])
    BY <1>12 DEF ApplyView, ConfirmDelete
  <2>. QED  BY <2>1, ConfirmIs, JustApplied
<1>. QED  BY <1>2, <1>3, <1>4, <1>5, <1>6, <1>7, <1>8, <1>9, <1>10, <1>11, <1>12 DEF TabCommands

LEMMA ApplyIs ==
    ASSUME NEW u, NEW M, NEW shown, NEW v, ScreenIs(u, M), IsCommand(v)
    PROVE  Applied(u, M, ApplyView(u, shown, v), v)
  BY PaneApplied, TabApplied DEF IsCommand

-----------------------------------------------------------------------------
(* One intent carried out.                                                   *)

IsRun(x) == x.cmd = "App" /\ x.at.op = "Run"

\* The run an intent starts, if it does.
RunOf(x) == IF IsRun(x) THEN {x.at.item} ELSE {}

\* An intent that can be carried out: a run has an id nothing has.
Able(x, M) ==
    \/ IsCommand(x)
    \/ x.cmd = "Edit"
    \/ x.cmd = "App" /\ (IsRun(x) => x.at.item \notin M \cup {None})

\* A tab as somebody left it in an editor.
WrittenIn(u, next) ==
    \E was \in TabsOf(u), tab \in TabsOf(next) :
       /\ tab.id = was.id /\ tab.kind = was.kind /\ tab.conn = was.conn /\ tab.item = was.item
       /\ tab.query = was.query
       /\ Rewritten(u, next, tab)

\* The tab in front, with a run in it.
Started(u, next, q) ==
    \E was \in Active(u) :
       was.kind = "Sql" /\ Rewritten(u, next, [was EXCEPT !.query = q])

Change(u, next, x) ==
    /\ \/ IsCommand(x) /\ Effect(u, next, x)
       \/ ~IsCommand(x) /\ Focused(u, next)
       \/ x.cmd = "Edit" /\ WrittenIn(u, next)
       \/ IsRun(x) /\ Started(u, next, x.at.item)
    /\ u.queryErrors \subseteq next.queryErrors

\* What was asked for stays asked for.
Longer(out, next) ==
    /\ IsSeq(next)
    /\ Len(out) <= Len(next)
    /\ \A i \in 1 .. Len(out) : next[i] = out[i]

LongerBy(out, next, x) ==
    /\ Longer(out, next)
    /\ \A i \in Len(out) + 1 .. Len(next) :
          \/ next[i].op \in {"LoadMore", "Search", "Load", "Save", "Forget"}
          \/ x.cmd = "App" /\ next[i] = x.at
    /\ x.cmd = "App" => Len(next) > Len(out) /\ next[Len(next)] = x.at

LEMMA ConcatLonger ==
    ASSUME NEW out, NEW more, IsSeq(out), IsSeq(more)
    PROVE  /\ Longer(out, out \o more)
           /\ \A i \in Len(out) + 1 .. Len(out \o more) :
                 \E k \in 1 .. Len(more) : (out \o more)[i] = more[k]
<1>1. Len(out) \in Nat /\ Len(more) \in Nat
  BY DEF IsSeq
<1>2. /\ IsSeq(out \o more)
      /\ Len(out \o more) = Len(out) + Len(more)
      /\ \A i \in 1 .. Len(out) : (out \o more)[i] = out[i]
      /\ \A i \in 1 .. Len(more) : (out \o more)[Len(out) + i] = more[i]
  BY ConcatIs
<1>3. Longer(out, out \o more)
  BY <1>1, <1>2 DEF Longer
<1>4. ASSUME NEW i \in Len(out) + 1 .. Len(out \o more)
      PROVE  \E k \in 1 .. Len(more) : (out \o more)[i] = more[k]
  <2>1. i - Len(out) \in 1 .. Len(more) /\ Len(out) + (i - Len(out)) = i
    BY <1>1, <1>2
  <2>. QED  BY <1>2, <2>1
<1>. QED  BY <1>3, <1>4

\* The screen and what it has asked for, before an intent and after it.
IsDone(d, M) == d = [ui |-> d.ui, out |-> d.out] /\ ScreenIs(d.ui, M) /\ IsSeq(d.out)

LEMMA AppendLonger ==
    ASSUME NEW out, NEW x, IsSeq(out), x.cmd = "App"
    PROVE  LongerBy(out, Append(out, x.at), x)
<1>1. Len(out) \in Nat
  BY DEF IsSeq
<1>2. /\ IsSeq(Append(out, x.at))
      /\ Len(Append(out, x.at)) = Len(out) + 1
      /\ \A i \in 1 .. Len(out) : Append(out, x.at)[i] = out[i]
      /\ Append(out, x.at)[Len(out) + 1] = x.at
  BY AppendIs
<1>3. \A i \in Len(out) + 1 .. Len(out) + 1 : i = Len(out) + 1
  BY <1>1
<1>. QED  BY <1>1, <1>2, <1>3 DEF LongerBy, Longer

LEMMA StartIs ==
    ASSUME NEW d, NEW M, NEW x, IsDone(d, M), IsRun(x), x.at.item \notin M \cup {None}
    PROVE  LET next == Start(d, x.at)
           IN /\ IsDone(next, M \cup {x.at.item})
              /\ Focused(d.ui, next.ui) \/ Started(d.ui, next.ui, x.at.item)
              /\ next.ui.filter = d.ui.filter
              /\ d.ui.queryErrors \subseteq next.ui.queryErrors
              /\ LongerBy(d.out, next.out, x)
<1>. DEFINE tabs == {tab \in Active(d.ui) : tab.kind = "Sql"}
            was == CHOOSE tab \in tabs : TRUE
            q == x.at.item
            tab == [was EXCEPT !.query = q]
            forgets == IF was.query = None THEN <<>> ELSE <<Action("Forget", None, was.query, None)>>
            next == Start(d, x.at)
<1>1. x.cmd = "App" /\ ScreenIs(d.ui, M) /\ IsSeq(d.out) /\ d = [ui |-> d.ui, out |-> d.out]
  BY DEF IsRun, IsDone
<1>2. CASE tabs = {}
  <2>1. next = [ui |-> d.ui, out |-> Append(d.out, x.at)]
    BY <1>1, <1>2 DEF Start
  <2>. HIDE DEF next
  <2>2. ScreenIs(d.ui, M \cup {q})
    BY <1>1 DEF ScreenIs, TabsOK
  <2>3. LongerBy(d.out, next.out, x)
    BY <1>1, <2>1, AppendLonger
  <2>4. Focused(d.ui, next.ui)
    BY <1>1, <2>1 DEF Focused, ScreenIs
  <2>. QED  BY <2>1, <2>2, <2>3, <2>4 DEF IsDone, LongerBy, Longer, next
<1>3. CASE tabs # {}
  <2>1. next = [ui |-> Retabbed(d.ui, was.id, tab), out |-> d.out \o forgets \o <<x.at>>]
    BY <1>3 DEF Start
  <2>2. was \in Active(d.ui) /\ was \in TabsOf(d.ui) /\ was.kind = "Sql"
    BY <1>3 DEF Active
  <2>. HIDE DEF was, next
  <2>3. IsTab(tab) /\ tab.id = was.id /\ tab.kind = was.kind /\ tab.conn = was.conn
          /\ tab.item = was.item /\ tab.query = q
    BY <1>1, <2>2, TabIsTab DEF IsTab
  <2>4. /\ ScreenIs(next.ui, M \cup {q})
        /\ Aside(d.ui, next.ui)
        /\ Rewritten(d.ui, next.ui, tab)
    <3>. HIDE DEF tab
    <3>1. LET other == Retabbed(d.ui, was.id, tab)
          IN ScreenIs(other, M \cup {tab.query}) /\ Aside(d.ui, other) /\ Rewritten(d.ui, other, tab)
      BY <1>1, <2>2, <2>3, RetabbedIs
    <3>. QED  BY <2>1, <2>3, <3>1
  <2>5. /\ Started(d.ui, next.ui, q) /\ next.ui.filter = d.ui.filter
        /\ d.ui.queryErrors \subseteq next.ui.queryErrors
    BY <2>2, <2>4 DEF Started, Aside
  <2>6. LongerBy(d.out, next.out, x)
    <3>. DEFINE before == d.out \o forgets
    <3>1. IsSeq(forgets) /\ \A i \in 1 .. Len(forgets) : forgets[i].op = "Forget"
      BY EmptyIs, OneIs, ActionIs
    <3>2. next.out = before \o <<x.at>>
      BY <2>1
    <3>3. IsSeq(<<x.at>>) /\ Len(<<x.at>>) = 1 /\ <<x.at>>[1] = x.at
      BY OneIs
    <3>. HIDE DEF forgets
    <3>4. /\ Longer(d.out, before)
          /\ \A i \in Len(d.out) + 1 .. Len(before) : before[i].op = "Forget"
      BY <1>1, <3>1, ConcatLonger
    <3>. HIDE DEF before
    <3>5. IsSeq(before) /\ Len(before) \in Nat /\ Len(d.out) \in Nat
      BY <1>1, <3>4 DEF Longer, IsSeq
    <3>6. /\ IsSeq(next.out)
          /\ Len(next.out) = Len(before) + 1
          /\ \A i \in 1 .. Len(before) : next.out[i] = before[i]
          /\ next.out[Len(before) + 1] = x.at
      BY <3>2, <3>3, <3>5, ConcatIs
    <3>7. ASSUME NEW i \in Len(d.out) + 1 .. Len(next.out)
          PROVE  next.out[i].op = "Forget" \/ next.out[i] = x.at
      <4>1. i \in Len(d.out) + 1 .. Len(before) \/ i = Len(before) + 1
        BY <3>5, <3>6
      <4>2. CASE i \in Len(d.out) + 1 .. Len(before)
        <5>1. i \in 1 .. Len(before)
          BY <3>5, <4>2
        <5>. QED  BY <3>4, <3>6, <4>2, <5>1
      <4>. QED  BY <3>6, <4>1, <4>2
    <3>8. Longer(d.out, next.out) /\ Len(next.out) > Len(d.out)
      <4>1. \A i \in 1 .. Len(d.out) : i \in 1 .. Len(before)
        BY <3>4, <3>5 DEF Longer
      <4>. QED  BY <3>4, <3>5, <3>6, <4>1 DEF Longer
    <3>. QED  BY <1>1, <3>6, <3>7, <3>8 DEF LongerBy
  <2>. QED  BY <2>1, <2>4, <2>5, <2>6 DEF IsDone, LongerBy, Longer, next
<1>. QED  BY <1>2, <1>3

LEMMA EditedIs ==
    ASSUME NEW u, NEW M, NEW id, NEW edited, ScreenIs(u, M)
    PROVE  LET next == Edited(u, id, edited)
           IN /\ ScreenIs(next, M)
              /\ Focused(u, next) \/ WrittenIn(u, next)
              /\ next.filter = u.filter
              /\ u.queryErrors \subseteq next.queryErrors
<1>. DEFINE tabs == {tab \in TabsOf(u) : tab.id = id /\ tab.kind = "Sql"}
            was == CHOOSE tab \in tabs : TRUE
            tab == [was EXCEPT !.text = edited.text]
            modal == Dialog("editor", id, None)
            next == Edited(u, id, edited)
<1>1. \/ next = u
      \/ tabs # {} /\ next = Retabbed(u, id, tab)
      \/ next = Toasted(u, "editor")
      \/ next = [u EXCEPT !.menu = FALSE, !.modal = modal]
  BY DEF Edited
<1>. HIDE DEF next
<1>2. CASE next = u
  BY <1>2 DEF Focused, ScreenIs, next
<1>3. CASE tabs # {} /\ next = Retabbed(u, id, tab)
  <2>1. was \in TabsOf(u) /\ was.id = id
    BY <1>3
  <2>. HIDE DEF was
  <2>2. IsTab(tab) /\ tab.id = was.id /\ tab.kind = was.kind /\ tab.conn = was.conn
          /\ tab.item = was.item /\ tab.query = was.query
    BY <2>1, TabIsTab DEF IsTab
  <2>. HIDE DEF tab
  <2>3. ScreenIs(next, M) /\ Aside(u, next) /\ Rewritten(u, next, tab)
    BY <1>3, <2>1, <2>2, RetabbedIs
  <2>4. WrittenIn(u, next)
    BY <2>1, <2>2, <2>3 DEF WrittenIn, Rewritten
  <2>. QED  BY <2>3, <2>4 DEF Aside, next
<1>4. CASE next = Toasted(u, "editor")
  <2>1. Still(u, next)
    BY <1>4, ToastedIs DEF ScreenIs
  <2>. QED  BY <2>1, StillKeeps DEF Still, Focused, next
<1>5. CASE next = [u EXCEPT !.menu = FALSE, !.modal = modal]
  <2>1. modal.intent = None
    BY DEF Dialog
  <2>. HIDE DEF modal
  <2>2. /\ IsScreen(next) /\ next.focus = u.focus /\ next.modal = modal
        /\ next.tabs = u.tabs /\ next.nextTab = u.nextTab /\ next.active = u.active
        /\ next.grids = u.grids /\ next.filter = u.filter /\ next.queryErrors = u.queryErrors
    BY <1>5 DEF ScreenIs, IsScreen, ScreenFields
  <2>3. ScreenIs(next, M)
    BY <2>1, <2>2 DEF ScreenIs, TabsOK, TabIds, TabsOf, ModalOK
  <2>. QED  BY <2>2, <2>3 DEF Focused, next
<1>. QED  BY <1>1, <1>2, <1>3, <1>4, <1>5

\* What a command of the screen's comes to: a screen, and what it asks of the store.
IsPair(d) == d = [ui |-> d.ui, out |-> d.out]

LEMMA PairsAre ==
    /\ \A u : IsPair(Just(u))
    /\ \A u, a : IsPair(Asks(u, a))
    /\ \A u, shown : IsPair(WantsPage(u, shown))
    /\ \A u, shown, pane, to : IsPair(ScrollTo(u, shown, pane, to))
    /\ \A u, shown, anchor, row : IsPair(Reselect(u, shown, anchor, row))
    /\ \A u : IsPair(Searches(u))
    /\ \A u, next : IsPair(SetHistoryTerms(u, next))
    /\ \A u, shown : IsPair(CommitTemplate(u, shown))
<1>1. (\A u : IsPair(Just(u))) /\ \A u, a : IsPair(Asks(u, a))
  BY DEF IsPair, Just, Asks
<1>2. \A u, shown : IsPair(WantsPage(u, shown))
  BY <1>1 DEF WantsPage
<1>3. \A u : IsPair(Searches(u))
  BY <1>1 DEF Searches
<1>4. \A u, shown, pane, to : IsPair(ScrollTo(u, shown, pane, to))
  BY <1>1, <1>2 DEF ScrollTo
<1>5. \A u, shown, anchor, row : IsPair(Reselect(u, shown, anchor, row))
  BY <1>1, <1>2 DEF Reselect
<1>6. \A u, next : IsPair(SetHistoryTerms(u, next))
  BY <1>1, <1>3 DEF SetHistoryTerms
<1>7. \A u, shown : IsPair(CommitTemplate(u, shown))
  BY <1>1 DEF CommitTemplate
<1>. QED  BY <1>1, <1>2, <1>3, <1>4, <1>5, <1>6, <1>7

LEMMA ViewIsPair ==
    ASSUME NEW u, NEW shown, NEW v, v.cmd \in PaneCommands \cup TabCommands
    PROVE  IsPair(ApplyView(u, shown, v))
<1>1. CASE v.cmd \in {"FocusPane", "CycleFocus", "ScrollBy", "ScrollToStart", "ScrollToEnd",
                      "SetFilter", "SelectTreeRow", "MoveTreeSelection"}
  BY <1>1, PairsAre DEF ApplyView
<1>2. CASE v.cmd \in {"SelectCell", "MoveCellSelection", "ExtendCellSelection",
                      "ExtendCellSelectionTo", "Copy", "OpenMenu", "CloseMenu", "ToggleDetail",
                      "DismissModal", "DismissToast"}
  BY <1>2, PairsAre DEF ApplyView
<1>3. CASE v.cmd \in {"OpenTab", "OpenDefinition", "OpenSqlTab", "OpenHistoryTab",
                      "SetHistoryTerms", "SelectTab", "CloseTab"}
  BY <1>3, PairsAre DEF ApplyView
<1>4. CASE v.cmd \in {"Palette", "CommitTemplate", "ReuseRun", "UseTemplate", "SubmitTemplate",
                      "ConfirmDeleteTemplate"}
  BY <1>4, PairsAre DEF ApplyView
<1>. QED  BY <1>1, <1>2, <1>3, <1>4 DEF PaneCommands, TabCommands

\* Carrying out a command of the screen's.
LEMMA CarryView ==
    ASSUME NEW d, NEW shown, NEW x, x.cmd \in PaneCommands \cup TabCommands
    PROVE  LET next == ApplyView(d.ui, shown, x)
           IN Carry(d, shown, x) = [ui |-> next.ui, out |-> d.out \o next.out]
<1>. DEFINE next == ApplyView(d.ui, shown, x)
<1>1. x.cmd # "App" /\ x.cmd # "Edit"
  BY DEF PaneCommands, TabCommands
<1>2. next = [ui |-> next.ui, out |-> next.out]
  BY ViewIsPair DEF IsPair
<1>3. Carry(d, shown, x) = [next EXCEPT !.out = d.out \o @]
  BY <1>1 DEF Carry
<1>4. ASSUME NEW r, NEW to, r = [ui |-> r.ui, out |-> r.out]
      PROVE  [r EXCEPT !.out = to] = [ui |-> r.ui, out |-> to]
  BY <1>4
<1>. HIDE DEF next
<1>5. [next EXCEPT !.out = d.out \o next.out] = [ui |-> next.ui, out |-> d.out \o next.out]
  BY <1>2, <1>4
<1>. QED  BY <1>3, <1>5 DEF next

LEMMA CarryViewUi ==
    ASSUME NEW d, NEW shown, NEW x, x.cmd \in PaneCommands \cup TabCommands
    PROVE  Carry(d, shown, x).ui = ApplyView(d.ui, shown, x).ui
<1>. DEFINE next == ApplyView(d.ui, shown, x)
<1>1. Carry(d, shown, x) = [ui |-> next.ui, out |-> d.out \o next.out]
  BY CarryView
<1>. QED  BY <1>1

LEMMA CarryIs ==
    ASSUME NEW d, NEW M, NEW shown, NEW x, IsDone(d, M), Able(x, M)
    PROVE  LET next == Carry(d, shown, x)
           IN /\ IsDone(next, M \cup RunOf(x))
              /\ Change(d.ui, next.ui, x)
              /\ x.cmd # "SetFilter" => next.ui.filter = d.ui.filter
              /\ LongerBy(d.out, next.out, x)
<1>. DEFINE next == Carry(d, shown, x)
<1>1. ScreenIs(d.ui, M) /\ IsSeq(d.out) /\ d = [ui |-> d.ui, out |-> d.out]
  BY DEF IsDone
<1>2. "App" \notin PaneCommands \cup TabCommands /\ "Edit" \notin PaneCommands \cup TabCommands
  BY DEF PaneCommands, TabCommands
<1>3. Longer(d.out, d.out)
  BY <1>1 DEF Longer, IsSeq
<1>4. CASE IsRun(x)
  <2>1. next = Start(d, x.at) /\ ~IsCommand(x) /\ x.cmd = "App"
    BY <1>2, <1>4 DEF Carry, IsRun, IsCommand
  <2>2. RunOf(x) = {x.at.item}
    BY <1>4 DEF RunOf
  <2>3. x.at.item \notin M \cup {None}
    BY <1>4, <2>1 DEF Able, IsRun
  <2>4. LET other == Start(d, x.at)
        IN /\ IsDone(other, M \cup {x.at.item})
           /\ Focused(d.ui, other.ui) \/ Started(d.ui, other.ui, x.at.item)
           /\ other.ui.filter = d.ui.filter
           /\ d.ui.queryErrors \subseteq other.ui.queryErrors
           /\ LongerBy(d.out, other.out, x)
    BY <1>4, <2>3, StartIs
  <2>. QED  BY <1>4, <2>1, <2>2, <2>4 DEF Change
<1>5. CASE x.cmd = "App" /\ ~IsRun(x)
  <2>1. next = [ui |-> d.ui, out |-> Append(d.out, x.at)] /\ ~IsCommand(x)
    BY <1>1, <1>2, <1>5 DEF Carry, IsRun, IsCommand
  <2>. HIDE DEF next
  <2>2. RunOf(x) = {} /\ M \cup {} = M
    BY <1>5 DEF RunOf
  <2>3. LongerBy(d.out, next.out, x)
    BY <1>1, <1>5, <2>1, AppendLonger
  <2>4. Change(d.ui, next.ui, x)
    BY <1>1, <2>1 DEF Change, Focused, ScreenIs
  <2>5. IsDone(next, M)
    BY <1>1, <2>1, <2>3 DEF IsDone, LongerBy, Longer
  <2>. QED  BY <2>1, <2>2, <2>3, <2>4, <2>5 DEF next
<1>6. CASE x.cmd = "Edit"
  <2>1. next = [ui |-> Edited(d.ui, x.at, x.with), out |-> d.out] /\ ~IsCommand(x)
    BY <1>1, <1>2, <1>6 DEF Carry, IsCommand
  <2>. HIDE DEF next
  <2>2. RunOf(x) = {} /\ M \cup {} = M
    BY <1>6 DEF RunOf, IsRun
  <2>3. LongerBy(d.out, next.out, x)
    BY <1>1, <1>3, <1>6, <2>1 DEF LongerBy, IsSeq
  <2>4. /\ ScreenIs(next.ui, M)
        /\ Focused(d.ui, next.ui) \/ WrittenIn(d.ui, next.ui)
        /\ next.ui.filter = d.ui.filter
        /\ d.ui.queryErrors \subseteq next.ui.queryErrors
    BY <1>1, <2>1, EditedIs
  <2>5. Change(d.ui, next.ui, x)
    BY <1>6, <2>1, <2>4 DEF Change
  <2>6. IsDone(next, M)
    BY <1>1, <2>1, <2>4 DEF IsDone
  <2>. QED  BY <2>2, <2>3, <2>4, <2>5, <2>6 DEF next
<1>7. CASE IsCommand(x)
  <2>. DEFINE done == ApplyView(d.ui, shown, x)
  <2>1. x.cmd # "App" /\ x.cmd # "Edit"
    BY <1>2, <1>7 DEF IsCommand
  <2>2. next = [ui |-> done.ui, out |-> d.out \o done.out]
    BY <1>7, CarryView DEF IsCommand
  <2>3. Applied(d.ui, M, done, x)
    BY <1>1, <1>7, ApplyIs
  <2>. HIDE DEF done, next
  <2>4. RunOf(x) = {} /\ M \cup {} = M
    BY <2>1 DEF RunOf, IsRun
  <2>5. Change(d.ui, next.ui, x)
    BY <1>7, <2>2, <2>3 DEF Change, Applied
  <2>6. Longer(d.out, next.out) /\ LongerBy(d.out, next.out, x)
    <3>1. IsSeq(done.out) /\ \A k \in 1 .. Len(done.out) : done.out[k].op \in {"LoadMore", "Search", "Load", "Save"}
      BY <2>3 DEF Applied, Humble
    <3>2. next.out = d.out \o done.out
      BY <2>2
    <3>3. /\ Longer(d.out, next.out)
          /\ \A i \in Len(d.out) + 1 .. Len(next.out) :
                \E k \in 1 .. Len(done.out) : next.out[i] = done.out[k]
      <4>1. /\ Longer(d.out, d.out \o done.out)
            /\ \A i \in Len(d.out) + 1 .. Len(d.out \o done.out) :
                  \E k \in 1 .. Len(done.out) : (d.out \o done.out)[i] = done.out[k]
        BY <1>1, <3>1, ConcatLonger
      <4>. QED  BY <3>2, <4>1
    <3>. QED  BY <2>1, <3>1, <3>3 DEF LongerBy
  <2>7. IsDone(next, M)
    BY <2>2, <2>3, <2>6 DEF IsDone, Applied, Longer
  <2>. QED  BY <2>2, <2>3, <2>4, <2>5, <2>6, <2>7 DEF Applied, next
<1>. QED  BY <1>4, <1>5, <1>6, <1>7 DEF Able

-----------------------------------------------------------------------------
(* What a key or a click comes to.                                           *)

AppOps == {"Connect", "Disconnect", "Toggle", "Preview", "Describe", "Sort", "LoadMore", "Cancel",
           "Quit", "ForgetDefinition", "Forget", "ForgetPreview"}

\* An intent, of an event read against a screen with an id for a run at hand; a tab is
\* handed to the editor, and a search typed, only by an event that may.
IsIntent(x, u, q, may) ==
    \/ IsCommand(x) /\ (x.cmd = "SetFilter" => "SetFilter" \in may)
    \/ x.cmd = "Edit" /\ "Edit" \in may
    \/ x.cmd = "App" /\ x.at.op \in AppOps
    \/ IsRun(x) /\ x.at.item = q
    \/ x.cmd = "App" /\ u.modal # None /\ u.modal.intent # None /\ x.at = u.modal.intent

Intended(list, u, q, may) ==
    /\ IsSeq(list)
    /\ \A i \in 1 .. Len(list) : IsIntent(list[i], u, q, may)
    /\ \A i \in 1 .. Len(list) : list[i].cmd = "OpenTab" =>
          \E k \in 1 .. Len(list) : list[k].cmd = "App"

RunFree(list) == \A i \in 1 .. Len(list) : ~IsRun(list[i])
OneRun(list) == \A i, k \in 1 .. Len(list) : IsRun(list[i]) /\ IsRun(list[k]) => i = k

LEMMA JoinIs ==
    ASSUME NEW s, NEW t, NEW u, NEW q, NEW may, Intended(s, u, q, may), Intended(t, u, q, may), RunFree(s), OneRun(t)
    PROVE  Intended(s \o t, u, q, may) /\ OneRun(s \o t) /\ (RunFree(t) => RunFree(s \o t))
<1>. DEFINE joined == s \o t
<1>1. IsSeq(s) /\ IsSeq(t) /\ Len(s) \in Nat /\ Len(t) \in Nat
  BY DEF Intended, IsSeq
<1>2. /\ IsSeq(joined)
      /\ Len(joined) = Len(s) + Len(t)
      /\ \A i \in 1 .. Len(s) : joined[i] = s[i]
      /\ \A i \in 1 .. Len(t) : joined[Len(s) + i] = t[i]
  BY <1>1, ConcatIs
<1>. HIDE DEF joined
<1>3. \A i \in 1 .. Len(joined) :
         i \in 1 .. Len(s) \/ (i - Len(s) \in 1 .. Len(t) /\ joined[i] = t[i - Len(s)])
  <2>. SUFFICES ASSUME NEW i \in 1 .. Len(joined), i \notin 1 .. Len(s)
                PROVE  i - Len(s) \in 1 .. Len(t) /\ joined[i] = t[i - Len(s)]
    OBVIOUS
  <2>1. i - Len(s) \in 1 .. Len(t) /\ Len(s) + (i - Len(s)) = i
    BY <1>1, <1>2
  <2>. QED  BY <1>2, <2>1
<1>4. \A i \in 1 .. Len(joined) : IsIntent(joined[i], u, q, may)
  BY <1>2, <1>3 DEF Intended
<1>5. \A i, k \in 1 .. Len(joined) : IsRun(joined[i]) /\ IsRun(joined[k]) => i = k
  <2>. SUFFICES ASSUME NEW i \in 1 .. Len(joined), NEW k \in 1 .. Len(joined),
                       IsRun(joined[i]), IsRun(joined[k])
                PROVE  i = k
    OBVIOUS
  <2>1. i \notin 1 .. Len(s) /\ k \notin 1 .. Len(s)
    BY <1>2 DEF RunFree
  <2>2. i - Len(s) = k - Len(s)
    BY <1>3, <2>1 DEF OneRun
  <2>. QED  BY <1>1, <2>2
<1>6. RunFree(t) => RunFree(joined)
  BY <1>2, <1>3 DEF RunFree
<1>7. ASSUME NEW i \in 1 .. Len(joined), joined[i].cmd = "OpenTab"
      PROVE  \E k \in 1 .. Len(joined) : joined[k].cmd = "App"
  <2>1. CASE i \in 1 .. Len(s)
    <3>1. PICK k \in 1 .. Len(s) : s[k].cmd = "App"
      BY <1>2, <1>7, <2>1 DEF Intended
    <3>. QED  BY <1>1, <1>2, <3>1
  <2>2. CASE i \notin 1 .. Len(s)
    <3>1. PICK k \in 1 .. Len(t) : t[k].cmd = "App"
      BY <1>3, <1>7, <2>2 DEF Intended
    <3>2. Len(s) + k \in 1 .. Len(joined)
      BY <1>1, <1>2
    <3>. QED  BY <1>2, <3>1, <3>2
  <2>. QED  BY <2>1, <2>2
<1>. QED  BY <1>2, <1>4, <1>5, <1>6, <1>7 DEF Intended, OneRun, joined

LEMMA ShortIs ==
    ASSUME NEW u, NEW q, NEW may
    PROVE  /\ Intended(<<>>, u, q, may) /\ RunFree(<<>>) /\ OneRun(<<>>)
           /\ \A x : IsIntent(x, u, q, may) /\ x.cmd # "OpenTab" =>
                        Intended(<<x>>, u, q, may) /\ OneRun(<<x>>) /\ (~IsRun(x) => RunFree(<<x>>))
           /\ \A x, y : (/\ IsIntent(x, u, q, may) /\ IsIntent(y, u, q, may)
                         /\ ~IsRun(x) /\ ~IsRun(y)
                         /\ x.cmd = "OpenTab" => y.cmd = "App"
                         /\ y.cmd # "OpenTab") =>
                        Intended(<<x, y>>, u, q, may) /\ RunFree(<<x, y>>)
<1>1. Intended(<<>>, u, q, may) /\ RunFree(<<>>) /\ OneRun(<<>>)
  BY EmptyIs DEF Intended, RunFree, OneRun
<1>2. ASSUME NEW x, IsIntent(x, u, q, may), x.cmd # "OpenTab"
      PROVE  Intended(<<x>>, u, q, may) /\ OneRun(<<x>>) /\ (~IsRun(x) => RunFree(<<x>>))
  BY <1>2, OneIs DEF Intended, RunFree, OneRun
<1>3. ASSUME NEW x, NEW y, IsIntent(x, u, q, may), IsIntent(y, u, q, may), ~IsRun(x), ~IsRun(y),
             x.cmd = "OpenTab" => y.cmd = "App", y.cmd # "OpenTab"
      PROVE  Intended(<<x, y>>, u, q, may) /\ RunFree(<<x, y>>)
  <2>1. IsSeq(<<x, y>>) /\ Len(<<x, y>>) = 2 /\ <<x, y>>[1] = x /\ <<x, y>>[2] = y
    BY DEF IsSeq
  <2>2. \A i \in 1 .. 2 : i = 1 \/ i = 2
    OBVIOUS
  <2>. DEFINE list == <<x, y>>
  <2>. HIDE DEF list
  <2>3. Intended(list, u, q, may) /\ RunFree(list)
    BY <1>3, <2>1, <2>2 DEF Intended, RunFree, list
  <2>. QED  BY <2>3 DEF list
<1>. QED  BY <1>1, <1>2, <1>3

LEMMA FreeIsOne == \A list : RunFree(list) => OneRun(list)
  BY DEF RunFree, OneRun

LEMMA CmdIs ==
    ASSUME NEW cmd, NEW place, NEW with
    PROVE  LET x == Cmd(cmd, place, with)
           IN /\ x.cmd = cmd /\ x.at = place /\ x.with = with
              /\ cmd \in PaneCommands \cup TabCommands
                   /\ (cmd = "FocusPane" => place \in {"Explorer", "Grid"}) => IsCommand(x)
              /\ cmd # "App" => ~IsRun(x)
  BY DEF Cmd, IsCommand, IsRun

LEMMA AppIs ==
    ASSUME NEW op, NEW c, NEW item, NEW arg
    PROVE  LET x == App(op, c, item, arg)
           IN /\ x.cmd = "App" /\ x.at = Action(op, c, item, arg) /\ x.at.op = op
              /\ x.at.item = item
              /\ op # "Run" => ~IsRun(x)
  BY DEF App, Cmd, Action, IsRun

\* One command, or nothing.
Single(list, u, q, may) ==
    list = <<>> \/ \E x : /\ list = <<x>>
                          /\ IsIntent(x, u, q, may) /\ ~IsRun(x) /\ x.cmd # "OpenTab"

LEMMA SingleIs ==
    ASSUME NEW list, NEW u, NEW q, NEW may, Single(list, u, q, may)
    PROVE  Intended(list, u, q, may) /\ RunFree(list)
  BY ShortIs DEF Single

\* The commands that nothing has to be known about.
Plain == (PaneCommands \cup TabCommands) \ {"FocusPane", "OpenTab", "SetFilter"}

LEMMA CommandIsSingle ==
    ASSUME NEW list, NEW u, NEW q, NEW may,
           list = <<>> \/ \E cmd \in Plain : \E place, with :
                             list = <<Cmd(cmd, place, with)>>
    PROVE  Single(list, u, q, may)
<1>1. "App" \notin PaneCommands \cup TabCommands
  BY DEF PaneCommands, TabCommands
<1>2. ASSUME NEW cmd \in Plain, NEW place, NEW with PROVE Single(<<Cmd(cmd, place, with)>>, u, q, may)
  BY <1>1, CmdIs DEF Single, IsIntent, Plain
<1>3. Single(<<>>, u, q, may)
  BY DEF Single
<1>. QED  BY <1>2, <1>3

\* The names of the commands.
LEMMA NamesAre ==
    /\ {"CycleFocus", "ScrollBy", "ScrollToStart", "ScrollToEnd", "MoveTreeSelection",
        "MoveCellSelection", "ExtendCellSelection", "CloseMenu", "OpenMenu", "Copy", "ToggleDetail",
        "DismissModal", "SetHistoryTerms", "SelectTreeRow", "SelectCell",
        "ExtendCellSelectionTo", "DismissToast", "OpenDefinition", "OpenSqlTab", "OpenHistoryTab",
        "SelectTab", "CloseTab", "Palette", "CommitTemplate", "ReuseRun", "UseTemplate",
        "SubmitTemplate", "ConfirmDeleteTemplate"}
         \subseteq Plain
    /\ {"FocusPane", "OpenTab", "SetFilter"} \subseteq PaneCommands \cup TabCommands
    /\ Plain \subseteq PaneCommands \cup TabCommands
    /\ "App" \notin PaneCommands \cup TabCommands
    /\ "Edit" \notin PaneCommands \cup TabCommands
  BY DEF PaneCommands, TabCommands, Plain

LEMMA ViewIntentsAre ==
    ASSUME NEW kind, NEW key, NEW u, NEW shown, NEW q, NEW may, kind = "Filter" => "SetFilter" \in may
    PROVE  Single(ViewIntents(kind, key, u, shown), u, q, may)
<1>. DEFINE list == ViewIntents(kind, key, u, shown)
            Such == list = <<>> \/
                      \E cmd \in Plain : \E place, with :
                         list = <<Cmd(cmd, place, with)>>
<1>1. CASE kind \in {"Focus", "Scroll", "ScrollEdge", "TreeSelection"}
  <2>1. \E cmd \in {"CycleFocus", "ScrollBy", "ScrollToStart", "ScrollToEnd", "MoveTreeSelection"} : \E place, with : list = <<Cmd(cmd, place, with)>>
    BY <1>1 DEF ViewIntents
  <2>. QED  BY <2>1, NamesAre, CommandIsSingle
<1>5. CASE kind = "Filter"
  <2>1. \E cmd \in {"SetFilter", "SetHistoryTerms"} : \E with : list = <<Cmd(cmd, None, with)>>
    BY <1>5 DEF ViewIntents
  <2>2. ASSUME NEW with PROVE Single(<<Cmd("SetFilter", None, with)>>, u, q, may)
    BY <1>5, CmdIs, NamesAre DEF Single, IsIntent
  <2>3. ASSUME NEW with PROVE Single(<<Cmd("SetHistoryTerms", None, with)>>, u, q, may)
    BY NamesAre, CommandIsSingle
  <2>. QED  BY <2>1, <2>2, <2>3
<1>2. CASE kind \in {"GridSelection", "ExtendSelection", "DismissModal"}
  <2>1. \E cmd \in {"MoveCellSelection", "ExtendCellSelection", "DismissModal"} : \E place, with : list = <<Cmd(cmd, place, with)>>
    BY <1>2 DEF ViewIntents
  <2>. QED  BY <2>1, NamesAre, CommandIsSingle
<1>3. CASE kind \in {"Menu", "Copy", "ToggleDetail"}
  <2>1. list = <<>> \/
        \E cmd \in {"CloseMenu", "OpenMenu", "Copy", "ToggleDetail"} : \E place, with : list = <<Cmd(cmd, place, with)>>
    BY <1>3 DEF ViewIntents, ForFront
  <2>. QED  BY <2>1, NamesAre, CommandIsSingle
<1>4. CASE kind \notin {"Focus", "Scroll", "ScrollEdge", "TreeSelection", "GridSelection",
                        "ExtendSelection", "DismissModal", "Filter", "Menu", "Copy", "ToggleDetail"}
  <2>1. list = <<>>
    BY <1>4 DEF ViewIntents
  <2>. QED  BY <2>1, CommandIsSingle
<1>. QED  BY <1>1, <1>2, <1>3, <1>4, <1>5

\* An action for the store.
LEMMA ActionIsSingle ==
    ASSUME NEW list, NEW u, NEW q, NEW may,
           list = <<>> \/ \E op \in AppOps : \E c, item, arg : list = <<App(op, c, item, arg)>>
    PROVE  Single(list, u, q, may)
<1>1. "Run" \notin AppOps
  BY DEF AppOps
<1>. QED  BY <1>1, AppIs DEF Single, IsIntent

\* A command, and an action with it.
LEMMA PairIs ==
    ASSUME NEW u, NEW q, NEW may, NEW cmd \in Plain \cup {"OpenTab"}, NEW place, NEW with,
           NEW op \in AppOps, NEW c, NEW item, NEW arg
    PROVE  LET list == <<Cmd(cmd, place, with), App(op, c, item, arg)>>
           IN Intended(list, u, q, may) /\ RunFree(list)
<1>. DEFINE x == Cmd(cmd, place, with)
            y == App(op, c, item, arg)
<1>1. IsIntent(x, u, q, may) /\ ~IsRun(x)
  BY CmdIs, NamesAre DEF IsIntent, Plain
<1>2. IsIntent(y, u, q, may) /\ ~IsRun(y) /\ y.cmd = "App"
  <2>1. "Run" \notin AppOps
    BY DEF AppOps
  <2>. QED  BY <2>1, AppIs DEF IsIntent
<1>. HIDE DEF x, y
<1>3. Intended(<<x, y>>, u, q, may) /\ RunFree(<<x, y>>)
  BY <1>1, <1>2, ShortIs
<1>. QED  BY <1>3 DEF x, y

LEMMA ActivateIs ==
    ASSUME NEW u, NEW shown, NEW row, NEW q, NEW may
    PROVE  /\ Intended(Activate(u, shown, row), u, q, may) /\ RunFree(Activate(u, shown, row))
           /\ Intended(Describe(u, shown, row), u, q, may) /\ RunFree(Describe(u, shown, row))
<1>1. \/ \E op \in AppOps : \E c, item, arg : Activate(u, shown, row) = <<App(op, c, item, arg)>>
      \/ Activate(u, shown, row) = <<>>
      \/ \E op \in AppOps : \E c, item, arg, place, with :
            Activate(u, shown, row) = <<Cmd("OpenTab", place, with), App(op, c, item, arg)>>
  BY DEF Activate, AppOps
<1>2. \/ Describe(u, shown, row) = <<>>
      \/ \E op \in AppOps : \E c, item, arg, place, with :
            Describe(u, shown, row) = <<Cmd("OpenDefinition", place, with), App(op, c, item, arg)>>
  BY DEF Describe, AppOps
<1>3. Intended(Activate(u, shown, row), u, q, may) /\ RunFree(Activate(u, shown, row))
  BY <1>1, ActionIsSingle, SingleIs, PairIs, NamesAre, ShortIs
<1>4. Intended(Describe(u, shown, row), u, q, may) /\ RunFree(Describe(u, shown, row))
  BY <1>2, PairIs, NamesAre, ShortIs
<1>. QED  BY <1>3, <1>4

LEMMA ToggleIs ==
    ASSUME NEW u, NEW shown, NEW row, NEW collapse, NEW q, NEW may
    PROVE  Single(Toggle(u, shown, row, collapse), u, q, may)
<1>1. \/ \E op \in AppOps : \E c, item, arg : Toggle(u, shown, row, collapse) = <<App(op, c, item, arg)>>
      \/ Toggle(u, shown, row, collapse) = <<>>
  BY DEF Toggle, AppOps
<1>. QED  BY <1>1, ActionIsSingle

LEMMA CloseIs ==
    ASSUME NEW u, NEW id, NEW q, NEW may
    PROVE  Intended(Close(u, id), u, q, may) /\ RunFree(Close(u, id))
<1>. DEFINE tabs == {tab \in TabsOf(u) : tab.id = id}
            tab == CHOOSE tab \in tabs : TRUE
            forgets ==
              CASE tab.kind = "Definition" ->
                    <<App("ForgetDefinition", tab.conn, tab.item, None)>>
              [] tab.kind = "Sql" /\ tab.query # None ->
                    <<App("Forget", None, tab.query, None)>>
              [] /\ tab.kind = "Preview"
                 /\ \A other \in TabsOf(u) \ tabs : ~Same(other, tab) ->
                    <<App("ForgetPreview", tab.conn, tab.item, None)>>
              [] OTHER -> <<>>
            first == <<Cmd("CloseTab", id, None)>>
<1>1. Close(u, id) = <<>> \/ Close(u, id) = first \o forgets
  BY DEF Close
<1>2. Single(first, u, q, may)
  BY NamesAre, CommandIsSingle
<1>3. Single(forgets, u, q, may)
  <2>1. forgets = <<>> \/ \E op \in AppOps : \E c, item, arg : forgets = <<App(op, c, item, arg)>>
    BY DEF AppOps
  <2>. QED  BY <2>1, ActionIsSingle
<1>. HIDE DEF first, forgets
<1>. QED  BY <1>1, <1>2, <1>3, SingleIs, JoinIs, FreeIsOne, ShortIs

LEMMA RunIntentsAre ==
    ASSUME NEW u, NEW M, NEW shown, NEW q, NEW may, ScreenIs(u, M)
    PROVE  Intended(RunIntents(u, shown, q), u, q, may) /\ OneRun(RunIntents(u, shown, q))
<1>. DEFINE n == Cardinality(Runnable(u, shown))
            tab == CHOOSE tab \in Runnable(u, shown) : TRUE
            x == App("Run", tab.conn, q, tab.text)
            list == RunIntents(u, shown, q)
<1>1. list = [i \in 1 .. n |-> x]
  BY DEF RunIntents
<1>2. n = 0 \/ n = 1
  <2>1. \A t, other \in Runnable(u, shown) : t = other
    BY OneTab DEF Runnable, Active, ScreenIs
  <2>2. CASE Runnable(u, shown) = {}
    BY <2>2, FS_EmptySet
  <2>3. CASE Runnable(u, shown) # {}
    <3>1. Runnable(u, shown) = {tab}
      BY <2>1, <2>3
    <3>. HIDE DEF tab
    <3>. QED  BY <3>1, FS_Singleton
  <2>. QED  BY <2>2, <2>3
<1>3. IsRun(x) /\ x.at.item = q /\ x.cmd # "OpenTab"
  BY AppIs DEF IsRun
<1>. HIDE DEF n, x, list
<1>4. CASE n = 0
  <2>1. list = <<>>
    BY <1>1, <1>4
  <2>. QED  BY <2>1, ShortIs DEF list
<1>5. CASE n = 1
  <2>1. list = <<x>>
    BY <1>1, <1>5
  <2>. QED  BY <1>3, <2>1, ShortIs DEF IsIntent, list
<1>. QED  BY <1>2, <1>4, <1>5

\* Behind a dialog only two kinds of key are bound, and they are bound nowhere else.
ModalKinds == {"DismissModal", "ApproveQuery"}

LEMMA KeymapIs ==
    \A b \in KEYMAP :
       /\ b.context \in {"Global", "Filter", "Palette", "Explorer", "Grid", "Modal"}
       /\ b.kind \in ModalKinds <=> b.context = "Modal"
<1>1. \A b \in MovingKeys :
         b.context \in {"Global", "Filter", "Palette", "Explorer", "Grid"} /\ b.kind \notin ModalKinds
  BY DEF MovingKeys, Bound, ModalKinds
<1>2. \A b \in ActingKeys :
         /\ b.context \in {"Global", "Filter", "Palette", "Explorer", "Grid", "Modal"}
         /\ b.kind \in ModalKinds <=> b.context = "Modal"
  <2>1. \A b \in ActingKeys :
           \/ b = Bound("Modal", "DismissModal", {Key("Esc")})
           \/ b = Bound("Modal", "ApproveQuery", {Key("Enter")})
           \/ \E context \in {"Global", "Filter", "Palette", "Explorer", "Grid"} :
              \E kind, keys :
                 b = Bound(context, kind, keys) /\ kind # "DismissModal" /\ kind # "ApproveQuery"
    BY DEF ActingKeys
  <2>. QED  BY <2>1 DEF Bound, ModalKinds
<1>. QED  BY <1>1, <1>2 DEF KEYMAP

LEMMA ContextsAre ==
    {"Global", "Filter", "Palette", "Explorer", "Grid", "Modal"} \subseteq {b.context : b \in KEYMAP}
<1>. DEFINE C == {b.context : b \in KEYMAP}
<1>1. \A context, kind, keys : Bound(context, kind, keys) \in KEYMAP => context \in C
  BY DEF Bound
<1>2. /\ Bound("Global", "Filter", {Key("/")}) \in KEYMAP
      /\ Bound("Filter", "Filter", {Key("Backspace"), Key("Esc"), Key("Enter")}) \in KEYMAP
      /\ Bound("Palette", "UseTemplate", {Key("Enter")}) \in KEYMAP
      /\ Bound("Explorer", "TreeSelection", {Key("Down"), Key("Up")}) \in KEYMAP
      /\ Bound("Grid", "GridSelection", {Key("J"), Key("K")}) \in KEYMAP
      /\ Bound("Modal", "DismissModal", {Key("Esc")}) \in KEYMAP
  BY DEF KEYMAP, MovingKeys, ActingKeys
<1>. HIDE DEF C
<1>. QED  BY <1>1, <1>2 DEF C

LEMMA BoundAre ==
    ASSUME NEW context \in {"Global", "Filter", "Palette", "Explorer", "Grid", "Modal"}, NEW key
    PROVE  \A kind \in BoundIn(context, key) : kind \in ModalKinds <=> context = "Modal"
<1>1. Bindings[context] = {b \in KEYMAP : b.context = context}
  BY ContextsAre DEF Bindings
<1>. SUFFICES ASSUME NEW kind \in BoundIn(context, key)
              PROVE  kind \in ModalKinds <=> context = "Modal"
  OBVIOUS
<1>2. PICK b \in Bindings[context] : b.kind = kind
  BY DEF BoundIn
<1>. QED  BY <1>1, <1>2, KeymapIs

\* The keys that run a statement and that hand a tab to the editor.
LEMMA LettersAre ==
    ASSUME NEW context \in {"Global", "Filter", "Palette", "Explorer", "Grid", "Modal"}, NEW key
    PROVE  /\ "RunQuery" \in BoundIn(context, key) => key.code \in {"r", "Enter"}
           /\ "EditExternally" \in BoundIn(context, key) => key.code = "e"
<1>1. \A b \in KEYMAP :
         /\ b.kind = "RunQuery" => b.keys = {Key("r"), Ctrl("Enter")}
         /\ b.kind = "EditExternally" => b.keys = {Key("e")}
  <2>1. \A b \in MovingKeys : b.kind # "RunQuery" /\ b.kind # "EditExternally"
    BY DEF MovingKeys, Bound
  <2>2. \A b \in ActingKeys :
           \/ b = Bound("Global", "RunQuery", {Key("r"), Ctrl("Enter")})
           \/ b = Bound("Global", "EditExternally", {Key("e")})
           \/ \E c, kind, keys : b = Bound(c, kind, keys) /\ kind # "RunQuery" /\ kind # "EditExternally"
    BY DEF ActingKeys
  <2>3. \A b \in ActingKeys :
           /\ b.kind = "RunQuery" => b.keys = {Key("r"), Ctrl("Enter")}
           /\ b.kind = "EditExternally" => b.keys = {Key("e")}
    BY <2>2 DEF Bound
  <2>. QED  BY <2>1, <2>3 DEF KEYMAP
<1>2. Bindings[context] = {b \in KEYMAP : b.context = context}
  BY ContextsAre DEF Bindings
<1>3. \A kind \in BoundIn(context, key) :
         \E b \in KEYMAP : b.kind = kind /\ \E combo \in b.keys : combo.code = key.code
  BY <1>2 DEF BoundIn, Pressed
<1>4. Key("r").code = "r" /\ Ctrl("Enter").code = "Enter" /\ Key("e").code = "e"
  BY DEF Key, Ctrl
<1>5. ASSUME "RunQuery" \in BoundIn(context, key) PROVE key.code \in {"r", "Enter"}
  <2>1. PICK b \in KEYMAP : b.kind = "RunQuery" /\ \E combo \in b.keys : combo.code = key.code
    BY <1>3, <1>5
  <2>2. b.keys = {Key("r"), Ctrl("Enter")}
    BY <1>1, <2>1
  <2>. QED  BY <1>4, <2>1, <2>2
<1>6. ASSUME "EditExternally" \in BoundIn(context, key) PROVE key.code = "e"
  <2>1. PICK b \in KEYMAP : b.kind = "EditExternally" /\ \E combo \in b.keys : combo.code = key.code
    BY <1>3, <1>6
  <2>2. b.keys = {Key("e")}
    BY <1>1, <2>1
  <2>. QED  BY <1>4, <2>1, <2>2
<1>. QED  BY <1>5, <1>6

LEMMA KindIs ==
    ASSUME NEW u, NEW key, u.focus \in {"Explorer", "Grid"}, NEW kind \in KindOf(u, key)
    PROVE  /\ kind \in ModalKinds <=> u.modal # None
           /\ kind = "RunQuery" => key.code \in {"r", "Enter"}
           /\ kind = "EditExternally" => key.code = "e"
<1>. DEFINE context == KeyContext(u)
            chord == key.mods \cap {"Ctrl", "Alt"} # {}
            typed == context \in {"Filter", "Palette"} /\ ~chord
            bound == BoundIn(context, key)
<1>1. KindOf(u, key) = IF bound # {} THEN bound
                       ELSE IF typed THEN IF IsChar(key) THEN {context} ELSE {}
                       ELSE IF context = "Modal" THEN {}
                       ELSE BoundIn("Global", key)
  BY DEF KindOf
<1>2. /\ context \in {"Filter", "Palette", "Explorer", "Grid", "Modal"}
      /\ context = "Modal" <=> u.modal # None
  BY DEF KeyContext
<1>3. \A k \in bound : k \in ModalKinds <=> context = "Modal"
  BY <1>2, BoundAre
<1>4. \A k \in BoundIn("Global", key) : k \notin ModalKinds
  BY BoundAre
<1>5. typed => context \notin ModalKinds /\ context # "Modal"
  BY DEF ModalKinds
<1>6. \A k \in bound \cup BoundIn("Global", key) :
         /\ k = "RunQuery" => key.code \in {"r", "Enter"}
         /\ k = "EditExternally" => key.code = "e"
  BY <1>2, LettersAre
<1>7. typed => context # "RunQuery" /\ context # "EditExternally"
  OBVIOUS
<1>. HIDE DEF context, typed, bound
<1>8. kind \in ModalKinds <=> u.modal # None
  BY <1>1, <1>2, <1>3, <1>4, <1>5
<1>9. /\ kind = "RunQuery" => key.code \in {"r", "Enter"}
      /\ kind = "EditExternally" => key.code = "e"
  BY <1>1, <1>6, <1>7
<1>. QED  BY <1>8, <1>9

LEMMA PaletteKeysAre ==
    ASSUME NEW u, NEW shown, NEW key, NEW cmd \in {"UseTemplate", "ConfirmDeleteTemplate"}, NEW q, NEW may
    PROVE  /\ Single(PaletteKey(u, shown, key), u, q, may)
           /\ Single(SaveKey(u, shown), u, q, may)
           /\ Single(PickedKey(u, shown, cmd), u, q, may)
<1>1. \E with : PaletteKey(u, shown, key) = <<Cmd("Palette", None, with)>>
  BY DEF PaletteKey
<1>2. \/ SaveKey(u, shown) = <<>>
      \/ \E c \in {"CommitTemplate", "Palette"} : \E with : SaveKey(u, shown) = <<Cmd(c, None, with)>>
  BY DEF SaveKey
<1>3. \/ PickedKey(u, shown, cmd) = <<>>
      \/ \E c \in {"UseTemplate", "ConfirmDeleteTemplate"} : \E place : PickedKey(u, shown, cmd) = <<Cmd(c, place, None)>>
  BY DEF PickedKey
<1>. QED  BY <1>1, <1>2, <1>3, NamesAre, CommandIsSingle

\* What opens, runs or closes something; behind a dialog, its answer.
LEMMA ActingIntentsAre ==
    ASSUME NEW u, NEW M, NEW shown, NEW kind, NEW key, NEW fresh, NEW edited, ScreenIs(u, M),
           NEW may, kind = "EditExternally" => "Edit" \in may,
           kind \in ModalKinds => u.modal # None
    PROVE  LET list == ActingIntents(kind, key, u, shown, fresh, edited)
           IN /\ Intended(list, u, fresh.query, may) /\ OneRun(list)
              /\ (kind # "RunQuery" => RunFree(list))
<1>. DEFINE list == ActingIntents(kind, key, u, shown, fresh, edited)
            q == fresh.query
            Fine == Intended(list, u, q, may) /\ OneRun(list)
                      /\ (kind # "RunQuery" => RunFree(list))
<1>. SUFFICES Fine
  OBVIOUS
<1>1. Single(list, u, q, may) => Fine
  BY SingleIs, FreeIsOne
<1>2. CASE kind \in {"Connect", "Disconnect", "SortPreview", "LoadMore", "Cancel", "Quit"}
  <2>1. list = <<>> \/ \E op \in AppOps : \E c, item, arg : list = <<App(op, c, item, arg)>>
    BY <1>2 DEF ActingIntents, ForFront, AppOps
  <2>. QED  BY <1>1, <2>1, ActionIsSingle
<1>3. CASE kind \in {"OpenSqlTab", "SelectTab", "DismissToast", "ReuseRun", "History"}
  <2>1. \/ list = <<>>
        \/ \E cmd \in {"OpenSqlTab", "SelectTab", "DismissToast", "ReuseRun", "OpenHistoryTab"} :
           \E place, with : list = <<Cmd(cmd, place, with)>>
    BY <1>3 DEF ActingIntents, ForFront
  <2>. QED  BY <1>1, <2>1, NamesAre, CommandIsSingle
<1>4. CASE kind = "EditExternally"
  <2>1. list = <<>> \/ \E place : list = <<Cmd("Edit", place, edited)>>
    BY <1>4 DEF ActingIntents, ForFront
  <2>2. "Edit" \in may
    BY <1>4
  <2>3. ASSUME NEW place PROVE Single(<<Cmd("Edit", place, edited)>>, u, q, may)
    BY <2>2, CmdIs DEF Single, IsIntent
  <2>4. Single(<<>>, u, q, may)
    BY DEF Single
  <2>. QED  BY <1>1, <2>1, <2>3, <2>4
<1>5. CASE kind \in {"PreviewTable", "DescribeTable", "CloseTab", "ToggleNode"}
  <2>1. \/ list = Activate(u, shown, u.selected) \/ list = Describe(u, shown, u.selected)
        \/ list = Close(u, u.active) \/ list = Toggle(u, shown, u.selected, key.code = "Left")
    BY <1>5 DEF ActingIntents
  <2>. QED  BY <1>1, <2>1, ActivateIs, CloseIs, ToggleIs, FreeIsOne
<1>6. CASE kind = "RunQuery"
  <2>1. list = RunIntents(u, shown, q)
    BY <1>6 DEF ActingIntents
  <2>. QED  BY <1>6, <2>1, RunIntentsAre
<1>7. CASE kind = "ApproveQuery"
  <2>1. list = IF u.modal.intent = None THEN <<>> ELSE <<Cmd("App", u.modal.intent, None)>>
    BY <1>7 DEF ActingIntents
  <2>2. u.modal # None
    BY <1>7 DEF ModalKinds
  <2>3. u.modal.intent # None => IsIntent(Cmd("App", u.modal.intent, None), u, q, may)
    BY <2>2, CmdIs DEF IsIntent
  <2>4. Cmd("App", u.modal.intent, None).cmd # "OpenTab"
    BY CmdIs
  <2>. DEFINE answer == Cmd("App", u.modal.intent, None)
  <2>. HIDE DEF answer
  <2>5. list = <<>> \/ (u.modal.intent # None /\ list = <<answer>>)
    BY <2>1 DEF answer
  <2>7. u.modal.intent # None => ~IsRun(answer)
    BY <2>2, CmdIs DEF answer, IsRun, ScreenIs, ModalOK
  <2>6. u.modal.intent # None =>
           Intended(<<answer>>, u, q, may) /\ OneRun(<<answer>>) /\ RunFree(<<answer>>)
    BY <2>3, <2>4, <2>7, ShortIs DEF answer
  <2>. QED  BY <1>7, <2>5, <2>6, ShortIs
<1>8. CASE kind \in {"Palette", "UseTemplate", "DeleteTemplate", "SaveTemplate"}
  <2>1. \/ list = <<>> \/ list = PaletteKey(u, shown, key)
        \/ list = <<Cmd("SubmitTemplate", None, None)>>
        \/ list = PickedKey(u, shown, "UseTemplate")
        \/ list = PickedKey(u, shown, "ConfirmDeleteTemplate") \/ list = SaveKey(u, shown)
    BY <1>8 DEF ActingIntents
  <2>2. Single(<<Cmd("SubmitTemplate", None, None)>>, u, q, may)
    BY NamesAre, CommandIsSingle
  <2>3. Single(<<>>, u, q, may)
    BY DEF Single
  <2>4. /\ Single(PaletteKey(u, shown, key), u, q, may) /\ Single(SaveKey(u, shown), u, q, may)
        /\ Single(PickedKey(u, shown, "UseTemplate"), u, q, may)
        /\ Single(PickedKey(u, shown, "ConfirmDeleteTemplate"), u, q, may)
    BY PaletteKeysAre
  <2>5. Single(list, u, q, may)
    BY <2>1, <2>2, <2>3, <2>4
  <2>. QED  BY <1>1, <2>5
<1>9. CASE kind \notin {"Connect", "Disconnect", "SortPreview", "LoadMore", "Cancel", "Quit",
                        "OpenSqlTab", "SelectTab", "DismissToast", "ReuseRun", "History",
                        "EditExternally", "PreviewTable", "DescribeTable", "CloseTab", "ToggleNode",
                        "RunQuery", "ApproveQuery", "Palette", "UseTemplate", "DeleteTemplate",
                        "SaveTemplate"}
  <2>1. list = <<>>
    BY <1>9 DEF ActingIntents
  <2>. QED  BY <1>1, <2>1, CommandIsSingle
<1>. QED  BY <1>2, <1>3, <1>4, <1>5, <1>6, <1>7, <1>8, <1>9

\* A key that is read as one for a search box.
FilterKey(u, key) ==
    KindOf(u, key) # {} /\ (CHOOSE kind \in KindOf(u, key) : TRUE) = "Filter"

LEMMA OnKeyIs ==
    ASSUME NEW u, NEW M, NEW shown, NEW key, NEW fresh, NEW edited, ScreenIs(u, M),
           NEW may, key.code = "e" => "Edit" \in may,
           FilterKey(u, key) => "SetFilter" \in may
    PROVE  LET list == OnKey(u, shown, key, fresh, edited)
           IN /\ Intended(list, u, fresh.query, may) /\ OneRun(list)
              /\ key.code \notin {"r", "Enter"} => RunFree(list)
<1>. DEFINE list == OnKey(u, shown, key, fresh, edited)
            kinds == KindOf(u, key)
            kind == CHOOSE kind \in kinds : TRUE
            first == ViewIntents(kind, key, u, shown)
            second == ActingIntents(kind, key, u, shown, fresh, edited)
<1>1. CASE kinds = {}
  BY <1>1, ShortIs DEF OnKey
<1>2. CASE kinds # {}
  <2>1. list = first \o second
    BY <1>2 DEF OnKey, Materialise
  <2>2. kind \in kinds
    BY <1>2
  <2>7. kind = "Filter" => "SetFilter" \in may
    BY <1>2 DEF FilterKey
  <2>3. /\ kind \in ModalKinds => u.modal # None
        /\ kind = "EditExternally" => "Edit" \in may
        /\ kind = "Filter" => "SetFilter" \in may
        /\ key.code \notin {"r", "Enter"} => kind # "RunQuery"
    BY <2>2, <2>7, KindIs DEF ScreenIs
  <2>4. Intended(first, u, fresh.query, may) /\ RunFree(first)
    BY <2>3, ViewIntentsAre, SingleIs
  <2>5. /\ Intended(second, u, fresh.query, may) /\ OneRun(second)
        /\ key.code \notin {"r", "Enter"} => RunFree(second)
    BY <2>3, ActingIntentsAre
  <2>. HIDE DEF list, first, second, kind, kinds
  <2>6. /\ Intended(first \o second, u, fresh.query, may) /\ OneRun(first \o second)
        /\ key.code \notin {"r", "Enter"} => RunFree(first \o second)
    BY <2>4, <2>5, JoinIs
  <2>. QED  BY <2>1, <2>6 DEF list
<1>. QED  BY <1>1, <1>2

\* Two commands, and no run.
LEMMA TwoAre ==
    ASSUME NEW u, NEW q, NEW may, NEW cmd \in Plain \cup {"FocusPane"},
           NEW other \in Plain,
           NEW place, NEW with, NEW at, NEW by, cmd = "FocusPane" => place \in {"Explorer", "Grid"}
    PROVE  LET list == <<Cmd(cmd, place, with), Cmd(other, at, by)>>
           IN Intended(list, u, q, may) /\ RunFree(list)
<1>. DEFINE x == Cmd(cmd, place, with)
            y == Cmd(other, at, by)
<1>1. IsIntent(x, u, q, may) /\ ~IsRun(x) /\ x.cmd # "OpenTab"
  BY CmdIs, NamesAre DEF IsIntent, Plain
<1>2. IsIntent(y, u, q, may) /\ ~IsRun(y) /\ y.cmd # "OpenTab"
  BY CmdIs, NamesAre DEF IsIntent, Plain
<1>. HIDE DEF x, y
<1>3. Intended(<<x, y>>, u, q, may) /\ RunFree(<<x, y>>)
  BY <1>1, <1>2, ShortIs
<1>. QED  BY <1>3 DEF x, y

LEMMA PaneGestureIs ==
    ASSUME NEW u, NEW shown, NEW target, NEW q, NEW may,
           target.on = "Pane" => target.at \in {"Explorer", "Grid"},
           target.on = "MenuItem" => target.at \in 1 .. Len(MenuEntries)
    PROVE  Intended(PaneGesture(u, shown, target), u, q, may) /\ RunFree(PaneGesture(u, shown, target))
<1>. DEFINE list == PaneGesture(u, shown, target)
            Fine == Intended(list, u, q, may) /\ RunFree(list)
<1>. SUFFICES Fine
  OBVIOUS
<1>0. Single(list, u, q, may) => Fine
  BY SingleIs
<1>1. CASE target.on = "TreeRow" /\ target.by = "Click"
  <2>1. list = <<Cmd("FocusPane", "Explorer", None), Cmd("SelectTreeRow", target.at, None)>>
    BY <1>1 DEF PaneGesture
  <2>. QED  BY <2>1, TwoAre, NamesAre
<1>2. CASE target.on = "TreeRow" /\ target.by = "DoubleClick"
  <2>1. list = Activate(u, shown, target.at)
    BY <1>2 DEF PaneGesture
  <2>. QED  BY <2>1, ActivateIs
<1>3. CASE target.on = "TreeToggle"
  <2>1. list = Toggle(u, shown, target.at, FALSE)
    BY <1>3 DEF PaneGesture
  <2>. QED  BY <1>0, <2>1, ToggleIs
<1>4. CASE target.on = "GridCell"
  <2>. DEFINE pick == <<Cmd("FocusPane", "Grid", None), Cmd("SelectCell", target.at, None)>>
              menu == <<Cmd("OpenMenu", None, None)>>
  <2>1. \/ list = pick
        \/ list = <<Cmd("ExtendCellSelectionTo", target.at, None)>>
        \/ list = <<>> \o menu \/ list = pick \o menu
        \/ list = <<>>
    BY <1>4 DEF PaneGesture
  <2>2. Intended(pick, u, q, may) /\ RunFree(pick)
    BY TwoAre, NamesAre
  <2>3. Single(menu, u, q, may) /\ Single(<<Cmd("ExtendCellSelectionTo", target.at, None)>>, u, q, may)
    BY NamesAre, CommandIsSingle
  <2>. HIDE DEF pick, menu, list
  <2>4. Intended(menu, u, q, may) /\ RunFree(menu) /\ OneRun(menu)
    BY <2>3, SingleIs, FreeIsOne
  <2>5. Intended(pick \o menu, u, q, may) /\ RunFree(pick \o menu)
    BY <2>2, <2>4, JoinIs
  <2>6. Intended(<<>> \o menu, u, q, may) /\ RunFree(<<>> \o menu)
    BY <2>4, ShortIs, JoinIs
  <2>. QED  BY <1>0, <2>1, <2>2, <2>3, <2>5, <2>6, ShortIs
<1>5. CASE target.on = "GridHeader"
  <2>1. list = <<>> \/ \E op \in AppOps : \E c, item, arg : list = <<App(op, c, item, arg)>>
    BY <1>5 DEF PaneGesture, ForFront, AppOps
  <2>. QED  BY <1>0, <2>1, ActionIsSingle
<1>6. CASE target.on = "Pane"
  <2>1. \/ list = <<Cmd("FocusPane", target.at, None)>>
        \/ list = <<Cmd("ScrollBy", target.at, 3)>>
        \/ list = <<>>
    BY <1>6 DEF PaneGesture
  <2>2. IsIntent(Cmd("FocusPane", target.at, None), u, q, may) /\ ~IsRun(Cmd("FocusPane", target.at, None))
          /\ Cmd("FocusPane", target.at, None).cmd # "OpenTab"
    BY <1>6, CmdIs, NamesAre DEF IsIntent
  <2>3. Single(<<Cmd("ScrollBy", target.at, 3)>>, u, q, may)
    BY NamesAre, CommandIsSingle
  <2>. HIDE DEF list
  <2>. QED  BY <1>0, <2>1, <2>2, <2>3, ShortIs DEF Single
<1>7. CASE target.on = "MenuItem"
  <2>1. list = <<>> \/ list = <<Cmd("CloseMenu", None, None), MenuEntries[target.at]>>
    BY <1>7 DEF PaneGesture
  <2>2. target.at \in 1 .. 3
    BY <1>7 DEF MenuEntries
  <2>3. \E cmd \in {"ToggleDetail", "Copy"} : \E at, by : MenuEntries[target.at] = Cmd(cmd, at, by)
    <3>1. /\ MenuEntries[1] = Cmd("ToggleDetail", None, None)
          /\ MenuEntries[2] = Cmd("Copy", None, FALSE)
          /\ MenuEntries[3] = Cmd("Copy", None, TRUE)
      BY DEF MenuEntries
    <3>2. target.at = 1 \/ target.at = 2 \/ target.at = 3
      BY <2>2
    <3>. QED  BY <3>1, <3>2
  <2>. HIDE DEF list
  <2>. QED  BY <2>1, <2>3, TwoAre, NamesAre, ShortIs
<1>8. CASE target.on = "TreeRow" /\ target.by # "Click" /\ target.by # "DoubleClick"
  <2>1. list = <<>>
    BY <1>8 DEF PaneGesture
  <2>. QED  BY <2>1, ShortIs
<1>9. CASE target.on \notin {"TreeRow", "TreeToggle", "GridCell", "GridHeader", "Pane", "MenuItem"}
  <2>1. list = <<>>
    BY <1>9 DEF PaneGesture
  <2>. QED  BY <2>1, ShortIs
<1>10. CASE target.on = "TreeRow"
  BY <1>1, <1>2, <1>8, <1>10
<1>. QED  BY <1>3, <1>4, <1>5, <1>6, <1>7, <1>9, <1>10

LEMMA ButtonGestureIs ==
    ASSUME NEW u, NEW M, NEW shown, NEW target, NEW fresh, NEW may, ScreenIs(u, M),
           target.on = "Filter" => "SetFilter" \in may
    PROVE  LET list == ButtonGesture(u, shown, target, fresh)
           IN Intended(list, u, fresh.query, may) /\ OneRun(list)
<1>. DEFINE list == ButtonGesture(u, shown, target, fresh)
            q == fresh.query
            next == [u.palette EXCEPT !.selected = target.at]
            picked == Picked(next, Listed(shown))
<1>0. Single(list, u, q, may) => Intended(list, u, q, may) /\ OneRun(list)
  BY SingleIs, FreeIsOne
<1>1. \/ list = <<>>
      \/ target.on = "Filter" /\ \E with : list = <<Cmd("SetFilter", None, with)>>
      \/ \E cmd \in {"SelectTab", "OpenSqlTab", "DismissToast", "Palette", "DismissModal"} :
         \E place, with : list = <<Cmd(cmd, place, with)>>
      \/ list = Close(u, target.at)
      \/ list = <<App("Cancel", None, None, target.at)>>
      \/ list = RunIntents(u, shown, q)
      \/ list = <<Cmd("Palette", None, next), Cmd("UseTemplate", picked, None)>>
      \/ u.modal # None /\ u.modal.intent # None /\ list = <<Cmd("App", u.modal.intent, None)>>
  <2>1. CASE target.on \in {"Tab", "TabClose", "Cancel"}
    BY <2>1 DEF ButtonGesture
  <2>2. CASE target.on \in {"Filter", "PaletteRow"}
    BY <2>2 DEF ButtonGesture
  <2>3. CASE target.on \in {"RunQuery", "NewSqlTab", "ModalChoice"}
    BY <2>3 DEF ButtonGesture
  <2>4. CASE target.on = "Backdrop"
    BY <2>4 DEF ButtonGesture
  <2>5. CASE target.on \in {"Toast", "DismissModal"}
    BY <2>5 DEF ButtonGesture
  <2>6. CASE target.on \notin {"TabClose", "Tab", "Cancel", "Filter", "PaletteRow",
               "RunQuery", "NewSqlTab", "ModalChoice", "Toast", "Backdrop", "DismissModal"}
    BY <2>6 DEF ButtonGesture
  <2>. HIDE DEF list
  <2>. QED  BY <2>1, <2>2, <2>3, <2>4, <2>5, <2>6
<1>2. u.modal # None /\ u.modal.intent # None =>
         /\ IsIntent(Cmd("App", u.modal.intent, None), u, q, may)
         /\ Cmd("App", u.modal.intent, None).cmd # "OpenTab"
  BY CmdIs DEF IsIntent
<1>3. Single(<<App("Cancel", None, None, target.at)>>, u, q, may)
  BY ActionIsSingle DEF AppOps
<1>4. /\ Intended(<<Cmd("Palette", None, next), Cmd("UseTemplate", picked, None)>>, u, q, may)
      /\ OneRun(<<Cmd("Palette", None, next), Cmd("UseTemplate", picked, None)>>)
  BY TwoAre, NamesAre, FreeIsOne
<1>. HIDE DEF list, next, picked, q
<1>9. ASSUME target.on = "Filter", NEW with PROVE Single(<<Cmd("SetFilter", None, with)>>, u, q, may)
  BY <1>9, CmdIs, NamesAre DEF Single, IsIntent
<1>5. ASSUME NEW cmd \in {"SelectTab", "OpenSqlTab", "DismissToast", "Palette", "DismissModal"},
             NEW place, NEW with
      PROVE  Single(<<Cmd(cmd, place, with)>>, u, q, may)
  BY NamesAre, CommandIsSingle
<1>6. Intended(RunIntents(u, shown, q), u, q, may) /\ OneRun(RunIntents(u, shown, q))
  BY RunIntentsAre
<1>7. Intended(Close(u, target.at), u, q, may) /\ OneRun(Close(u, target.at))
  BY CloseIs, FreeIsOne
<1>8. Intended(list, u, q, may) /\ OneRun(list)
  BY <1>0, <1>1, <1>2, <1>3, <1>4, <1>5, <1>6, <1>7, <1>9, ShortIs
<1>. QED  BY <1>8 DEF list, q

LEMMA OnMouseIs ==
    ASSUME NEW u, NEW M, NEW shown, NEW target, NEW fresh, NEW may, ScreenIs(u, M),
           target.on = "Pane" => target.at \in {"Explorer", "Grid"},
           target.on = "MenuItem" => target.at \in 1 .. Len(MenuEntries),
           target.on = "Filter" => "SetFilter" \in may
    PROVE  LET list == OnMouse(u, shown, target, fresh)
           IN Intended(list, u, fresh.query, may) /\ OneRun(list)
<1>. DEFINE list == OnMouse(u, shown, target, fresh)
            q == fresh.query
            first == PaneGesture(u, shown, target)
            second == ButtonGesture(u, shown, target, fresh)
            meant == first \o second
            close == <<Cmd("CloseMenu", None, None)>>
<1>1. list = meant \/ list = close \o meant
  BY DEF OnMouse
<1>2. Intended(first, u, q, may) /\ RunFree(first)
  BY PaneGestureIs
<1>3. Intended(second, u, q, may) /\ OneRun(second)
  BY ButtonGestureIs
<1>4. Intended(close, u, q, may) /\ RunFree(close)
  BY NamesAre, CommandIsSingle, SingleIs
<1>. HIDE DEF first, second, close, q
<1>5. Intended(meant, u, q, may) /\ OneRun(meant)
  BY <1>2, <1>3, JoinIs
<1>. HIDE DEF meant, list
<1>6. Intended(close \o meant, u, q, may) /\ OneRun(close \o meant)
  BY <1>4, <1>5, JoinIs
<1>. QED  BY <1>1, <1>5, <1>6 DEF list, q

\* What may be pressed: a click is on something the screen can show.
IsEvent(e) ==
    e.mouse =>
       /\ e.target.on = "Pane" => e.target.at \in {"Explorer", "Grid"}
       /\ e.target.on = "MenuItem" => e.target.at \in 1 .. Len(MenuEntries)

LEMMA IntentsAre ==
    ASSUME NEW u, NEW M, NEW shown, NEW e, NEW i, NEW may, ScreenIs(u, M), IsEvent(e),
           ~e.mouse /\ e.key.code = "e" => "Edit" \in may,
           ~e.mouse /\ FilterKey(u, e.key) => "SetFilter" \in may,
           e.mouse /\ e.target.on = "Filter" => "SetFilter" \in may
    PROVE  LET list == Intents(u, shown, e, i)
           IN /\ Intended(list, u, Fresh(i).query, may) /\ OneRun(list)
              /\ ~e.mouse /\ e.key.code \notin {"r", "Enter"} => RunFree(list)
<1>. DEFINE fresh == Fresh(i)
            list == Intents(u, shown, e, i)
<1>1. \/ e.mouse /\ list = OnMouse(u, shown, e.target, fresh)
      \/ ~e.mouse /\ list = OnKey(u, shown, e.key, fresh, e.edited)
  BY DEF Intents
<1>. HIDE DEF fresh, list
<1>2. CASE e.mouse
  <2>1. Intended(list, u, fresh.query, may) /\ OneRun(list)
    BY <1>1, <1>2, OnMouseIs DEF IsEvent
  <2>. QED  BY <1>2, <2>1 DEF fresh, list
<1>3. CASE ~e.mouse
  <2>1. /\ Intended(list, u, fresh.query, may) /\ OneRun(list)
        /\ e.key.code \notin {"r", "Enter"} => RunFree(list)
    BY <1>1, <1>3, OnKeyIs
  <2>. QED  BY <2>1 DEF fresh, list
<1>. QED  BY <1>2, <1>3

LEMMA EventsAre ==
    ASSUME NEW drawn, NEW e \in Events(drawn)
    PROVE  IsEvent(e)
<1>1. CASE e \in {Press(key, None) : key \in scene.keys} \cup {Press(Key("e"), edited) : edited \in scene.edits}
  BY <1>1 DEF Press, IsEvent
<1>2. CASE e \in {Click(target) : target \in {t \in Targets(drawn, snap) : t.on \in scene.clicks}}
  <2>1. PICK target \in Targets(drawn, snap) : e = Click(target)
    BY <1>2
  <2>2. e.target = target
    BY <2>1 DEF Click
  <2>3. /\ target.on = "Pane" => target.at \in {"Explorer", "Grid"}
        /\ target.on = "MenuItem" => target.at \in 1 .. Len(MenuEntries)
    BY <2>1 DEF Targets, Target
  <2>. QED  BY <2>2, <2>3 DEF IsEvent
<1>. QED  BY <1>1, <1>2 DEF Events

-----------------------------------------------------------------------------
(* A burst of events.                                                        *)

\* An id that is made for an event is nobody's, and not that of another event.
LEMMA FreshIs ==
    ASSUME NEW i, Fresh(i).query # None
    PROVE  /\ Fresh(i).query \in QueryIds
           /\ Fresh(i).query \notin minted
           /\ \A j : Fresh(j).query = Fresh(i).query => j = i
<1>. DEFINE unused == {k \in 1 .. Len(QuerySeq) : QuerySeq[k] \notin minted}
            ith(n) == {k \in unused : Cardinality({j \in unused : j <= k}) = n}
            place(n) == CHOOSE k \in ith(n) : TRUE
            rank(k) == Cardinality({j \in unused : j <= k})
<1>1. \A n : Fresh(n).query = IF ith(n) = {} THEN None ELSE QuerySeq[place(n)]
  BY DEF Fresh
<1>2. \A n : ith(n) # {} => place(n) \in ith(n)
  OBVIOUS
<1>3. \A n : ith(n) # {} => /\ place(n) \in unused
                            /\ rank(place(n)) = n
  BY <1>2
<1>. HIDE DEF unused, place, rank
<1>4. \A n : Fresh(n).query # None => ith(n) # {} /\ Fresh(n).query = QuerySeq[place(n)]
  BY <1>1
<1>. HIDE DEF ith
<1>5. Fresh(i).query = QuerySeq[place(i)] /\ place(i) \in unused
  BY <1>3, <1>4
<1>6. ASSUME NEW j, Fresh(j).query = Fresh(i).query
      PROVE  j = i
  <2>1. place(j) \in unused /\ QuerySeq[place(j)] = QuerySeq[place(i)]
    BY <1>3, <1>4, <1>5, <1>6
  <2>2. place(j) = place(i)
    BY <1>5, <2>1, ScreenAssumption DEF unused
  <2>. QED  BY <1>3, <1>4, <1>6, <2>2
<1>. QED  BY <1>5, <1>6, ScreenAssumption DEF unused

\* The runs that are started by the first of some intents.
RunsUpTo(list, k) == UNION {RunOf(list[j]) : j \in 1 .. k}

LEMMA RunsUpToIs ==
    ASSUME NEW list, OneRun(list), NEW k \in 1 .. Len(list), Len(list) \in Nat
    PROVE  /\ RunsUpTo(list, k) = RunsUpTo(list, k - 1) \cup RunOf(list[k])
           /\ IsRun(list[k]) => RunsUpTo(list, k - 1) = {}
<1>1. 1 .. k = (1 .. k - 1) \cup {k}
  OBVIOUS
<1>2. RunsUpTo(list, k) = RunsUpTo(list, k - 1) \cup RunOf(list[k])
  BY <1>1 DEF RunsUpTo
<1>3. ASSUME IsRun(list[k]), NEW j \in 1 .. k - 1
      PROVE  RunOf(list[j]) = {}
  BY <1>3 DEF OneRun, RunOf
<1>. QED  BY <1>2, <1>3 DEF RunsUpTo

\* One intent after another.
Carries2(d, M, list, after) ==
    /\ after[0] = d
    /\ \A k \in 0 .. Len(list) : IsDone(after[k], M \cup RunsUpTo(list, k))
    /\ \A k \in 1 .. Len(list) :
          /\ Change(after[k - 1].ui, after[k].ui, list[k])
          /\ list[k].cmd # "SetFilter" => after[k].ui.filter = after[k - 1].ui.filter
          /\ LongerBy(after[k - 1].out, after[k].out, list[k])

LEMMA CarryAllIs ==
    ASSUME NEW d, NEW M, NEW shown, NEW list, NEW u, NEW q, NEW may, IsDone(d, M), ModalOK(u),
           Intended(list, u, q, may), OneRun(list),
           \A k \in 1 .. Len(list) : IsRun(list[k]) => q \notin M \cup {None}
    PROVE  \E after : /\ Carries2(d, M, list, after)
                      /\ CarryAll(d, shown, list) = after[Len(list)]
<1>1. Len(list) \in Nat
  BY DEF Intended, IsSeq
<1>2. PICK after : /\ after[0] = d
                   /\ \A k \in 1 .. Len(list) : after[k] = Carry(after[k - 1], shown, list[k])
                   /\ CarryAll(d, shown, list) = after[Len(list)]
  BY <1>1, CarryAllSteps
<1>3. ASSUME NEW k \in 1 .. Len(list) PROVE Able(list[k], {}) /\ (IsRun(list[k]) => list[k].at.item = q)
  BY DEF Intended, IsIntent, Able, ModalOK, AppOps, IsRun, IsCommand, PaneCommands, TabCommands
<1>. DEFINE Upto(k) == M \cup RunsUpTo(list, k)
            Good == {k \in 0 .. Len(list) : IsDone(after[k], Upto(k))}
<1>4. ASSUME NEW k \in 1 .. Len(list), k - 1 \in Good
      PROVE  /\ k \in Good
             /\ Change(after[k - 1].ui, after[k].ui, list[k])
             /\ list[k].cmd # "SetFilter" => after[k].ui.filter = after[k - 1].ui.filter
             /\ LongerBy(after[k - 1].out, after[k].out, list[k])
  <2>1. Upto(k) = Upto(k - 1) \cup RunOf(list[k])
    BY <1>1, RunsUpToIs
  <2>2. IsRun(list[k]) => Upto(k - 1) = M
    BY <1>1, RunsUpToIs
  <2>. HIDE DEF Upto
  <2>3. Able(list[k], Upto(k - 1))
    BY <1>3, <2>2 DEF Able
  <2>4. IsDone(after[k - 1], Upto(k - 1))
    BY <1>4
  <2>. DEFINE next == Carry(after[k - 1], shown, list[k])
  <2>5. /\ IsDone(next, Upto(k - 1) \cup RunOf(list[k]))
        /\ Change(after[k - 1].ui, next.ui, list[k])
        /\ list[k].cmd # "SetFilter" => next.ui.filter = after[k - 1].ui.filter
        /\ LongerBy(after[k - 1].out, next.out, list[k])
    BY <2>3, <2>4, CarryIs
  <2>6. after[k] = next
    BY <1>2
  <2>. HIDE DEF next
  <2>7. IsDone(after[k], Upto(k))
    BY <2>1, <2>5, <2>6
  <2>8. k \in Good
    BY <1>1, <2>7
  <2>. QED  BY <2>5, <2>6, <2>8
<1>5. 0 \in Good
  <2>1. RunsUpTo(list, 0) = {}
    BY DEF RunsUpTo
  <2>2. Upto(0) = M
    BY <2>1
  <2>. HIDE DEF Upto
  <2>. QED  BY <1>1, <1>2, <2>2
<1>6. 0 .. Len(list) \subseteq Good
  BY <1>1, <1>4, <1>5, InductTo
<1>7. \A k \in 1 .. Len(list) : k - 1 \in Good
  <2>. HIDE DEF Good
  <2>. QED  BY <1>1, <1>6
<1>. QED  BY <1>2, <1>4, <1>6, <1>7 DEF Carries2

-----------------------------------------------------------------------------
(* What a snapshot raises.                                                   *)

LEMMA RaisePreviewErrorIs ==
    ASSUME NEW u, NEW shown, NEW tab, IsScreen(u)
    PROVE  Still(u, RaisePreviewError(u, shown, tab))
<1>1. \A x : Still(u, [u EXCEPT !.previewErrors = x])
  BY DEF Still, IsScreen, ScreenFields
<1>2. \A x, about : Still(u, Toasted([u EXCEPT !.previewErrors = x], about))
  <2>. TAKE x, about
  <2>1. Still(u, [u EXCEPT !.previewErrors = x])
    BY <1>1
  <2>. DEFINE other == [u EXCEPT !.previewErrors = x]
  <2>. HIDE DEF other
  <2>2. Still(u, other) /\ IsScreen(other)
    BY <2>1 DEF other, Still
  <2>3. Still(other, Toasted(other, about))
    BY <2>2, ToastedIs
  <2>4. Still(u, Toasted(other, about))
    BY <2>2, <2>3, StillTrans
  <2>. QED  BY <2>4 DEF other
<1>3. Still(u, u)
  BY DEF Still
<1>. QED  BY <1>1, <1>2, <1>3 DEF RaisePreviewError

LEMMA RaiseQueryErrorIs ==
    ASSUME NEW u, NEW shown, NEW tab, IsScreen(u)
    PROVE  Still(u, RaiseQueryError(u, shown, tab))
<1>1. \A x : u.queryErrors \subseteq x => Still(u, [u EXCEPT !.queryErrors = x])
  BY DEF Still, IsScreen, ScreenFields
<1>2. \A x, about : u.queryErrors \subseteq x => Still(u, Toasted([u EXCEPT !.queryErrors = x], about))
  <2>. SUFFICES ASSUME NEW x, NEW about, u.queryErrors \subseteq x
                PROVE  Still(u, Toasted([u EXCEPT !.queryErrors = x], about))
    OBVIOUS
  <2>1. Still(u, [u EXCEPT !.queryErrors = x])
    BY <1>1
  <2>. DEFINE other == [u EXCEPT !.queryErrors = x]
  <2>. HIDE DEF other
  <2>2. Still(u, other) /\ IsScreen(other)
    BY <2>1 DEF other, Still
  <2>3. Still(other, Toasted(other, about))
    BY <2>2, ToastedIs
  <2>4. Still(u, Toasted(other, about))
    BY <2>2, <2>3, StillTrans
  <2>. QED  BY <2>4 DEF other
<1>3. Still(u, u)
  BY DEF Still
<1>4. [u EXCEPT !.queryErrors = @ \cup {tab.query}] = [u EXCEPT !.queryErrors = u.queryErrors \cup {tab.query}]
  BY DEF IsScreen, ScreenFields
<1>5. Still(u, Toasted([u EXCEPT !.queryErrors = @ \cup {tab.query}], tab.query))
  BY <1>2, <1>4
<1>. QED  BY <1>3, <1>5 DEF RaiseQueryError

LEMMA RaiseErrorsAre ==
    ASSUME NEW u, NEW M, NEW shown, ScreenIs(u, M)
    PROVE  Still(u, RaisePreviewErrors(u, shown)) /\ Still(u, RaiseQueryErrors(u, shown))
<1>1. Len(u.tabs) \in Nat /\ IsScreen(u) /\ Still(u, u)
  BY DEF ScreenIs, TabsOK, IsSeq, Still
<1>2. Still(u, RaisePreviewErrors(u, shown))
  <2>1. PICK after : /\ after[0] = u
                     /\ \A k \in 1 .. Len(u.tabs) :
                           after[k] = RaisePreviewError(after[k - 1], shown, u.tabs[k])
                     /\ RaisePreviewErrors(u, shown) = after[Len(u.tabs)]
    BY <1>1, PreviewErrorSteps
  <2>. DEFINE Good == {k \in 0 .. Len(u.tabs) : Still(u, after[k])}
  <2>2. ASSUME NEW k \in 1 .. Len(u.tabs), k - 1 \in Good PROVE k \in Good
    <3>1. Still(u, after[k - 1]) /\ IsScreen(after[k - 1])
      BY <2>2 DEF Still
    <3>2. Still(after[k - 1], after[k])
      BY <2>1, <3>1, RaisePreviewErrorIs
    <3>. QED  BY <3>1, <3>2, StillTrans
  <2>3. 0 .. Len(u.tabs) \subseteq Good
    <3>1. 0 \in Good
      BY <1>1, <2>1
    <3>. QED  BY <1>1, <2>2, <3>1, InductTo
  <2>. QED  BY <1>1, <2>1, <2>3
<1>3. Still(u, RaiseQueryErrors(u, shown))
  <2>1. PICK after : /\ after[0] = u
                     /\ \A k \in 1 .. Len(u.tabs) :
                           after[k] = RaiseQueryError(after[k - 1], shown, u.tabs[k])
                     /\ RaiseQueryErrors(u, shown) = after[Len(u.tabs)]
    BY <1>1, QueryErrorSteps
  <2>. DEFINE Good == {k \in 0 .. Len(u.tabs) : Still(u, after[k])}
  <2>2. ASSUME NEW k \in 1 .. Len(u.tabs), k - 1 \in Good PROVE k \in Good
    <3>1. Still(u, after[k - 1]) /\ IsScreen(after[k - 1])
      BY <2>2 DEF Still
    <3>2. Still(after[k - 1], after[k])
      BY <2>1, <3>1, RaiseQueryErrorIs
    <3>. QED  BY <3>1, <3>2, StillTrans
  <2>3. 0 .. Len(u.tabs) \subseteq Good
    <3>1. 0 \in Good
      BY <1>1, <2>1
    <3>. QED  BY <1>1, <2>2, <3>1, InductTo
  <2>. QED  BY <1>1, <2>1, <2>3
<1>. QED  BY <1>2, <1>3

\* What a snapshot does to the tabs: some go.
Thinned(u, next) ==
    /\ next.nextTab = u.nextTab
    /\ next.filter = u.filter
    /\ TabsOf(next) \subseteq TabsOf(u)
    /\ u.queryErrors \subseteq next.queryErrors

\* And to the dialog.
Reasked(u, next) ==
    \/ next.modal = u.modal
    \/ next.modal = None
    \/ next.modal.intent = None
    \/ next.modal.intent.op = "Approve"

LEMMA CloseDisconnectedIs ==
    ASSUME NEW u, NEW M, NEW shown, ScreenIs(u, M)
    PROVE  LET next == CloseDisconnected(u, shown)
           IN ScreenIs(next, M) /\ Thinned(u, next) /\ next.modal = u.modal
<1>1. Len(u.tabs) \in Nat
  BY DEF ScreenIs, TabsOK, IsSeq
<1>2. PICK after : /\ after[0] = u
                   /\ \A k \in 1 .. Len(u.tabs) :
                         after[k] = (IF u.tabs[k].kind = "Preview" /\ shown.conns[u.tabs[k].conn].status = "Closed"
                                     THEN CloseTab(after[k - 1], u.tabs[k].id) ELSE after[k - 1])
                   /\ CloseDisconnected(u, shown) = after[Len(u.tabs)]
  BY <1>1, CloseSteps
<1>. DEFINE Fine(next) == ScreenIs(next, M) /\ Thinned(u, next) /\ next.modal = u.modal
            Good == {k \in 0 .. Len(u.tabs) : Fine(after[k])}
<1>3. ASSUME NEW k \in 1 .. Len(u.tabs), k - 1 \in Good PROVE k \in Good
  <2>1. Fine(after[k - 1])
    BY <1>3
  <2>2. ASSUME NEW id PROVE Fine(CloseTab(after[k - 1], id))
    <3>. DEFINE next == CloseTab(after[k - 1], id)
    <3>1. ScreenIs(next, M) /\ Aside(after[k - 1], next) /\ Closed(after[k - 1], next, id)
      BY <2>1, CloseTabIs
    <3>. HIDE DEF next
    <3>2. Fine(next)
      BY <2>1, <3>1 DEF Aside, Closed, Thinned
    <3>. QED  BY <3>2 DEF next
  <2>. HIDE DEF Fine
  <2>3. Fine(after[k])
    BY <1>2, <2>1, <2>2
  <2>. QED  BY <2>3
<1>4. 0 \in Good
  BY <1>1, <1>2 DEF Thinned
<1>5. 0 .. Len(u.tabs) \subseteq Good
  BY <1>1, <1>3, <1>4, InductTo
<1>. QED  BY <1>1, <1>2, <1>5

LEMMA StillThinned ==
    ASSUME NEW u, NEW M, NEW next, ScreenIs(u, M), Still(u, next)
    PROVE  ScreenIs(next, M) /\ Thinned(u, next) /\ next.modal = u.modal
  BY StillKeeps DEF Still, Thinned, TabsOf

\* A dialog that only tells something, or asks for an approval.
LEMMA ReaskIs ==
    ASSUME NEW u, NEW M, NEW x, NEW y, NEW z, ScreenIs(u, M),
           x = None \/ x.intent = None \/ x.intent.op = "Approve"
    PROVE  /\ LET next == [u EXCEPT !.failures = y, !.menu = z, !.modal = x]
              IN ScreenIs(next, M) /\ Thinned(u, next) /\ Reasked(u, next)
           /\ LET next == [u EXCEPT !.askedApproval = y, !.menu = z, !.modal = x]
              IN ScreenIs(next, M) /\ Thinned(u, next) /\ Reasked(u, next)
           /\ LET next == [u EXCEPT !.modal = x]
              IN ScreenIs(next, M) /\ Thinned(u, next) /\ Reasked(u, next)
<1>1. ASSUME NEW next, IsScreen(next), next.tabs = u.tabs, next.active = u.active, next.nextTab = u.nextTab,
             next.grids = u.grids, next.focus = u.focus, next.filter = u.filter, next.modal = x,
             next.queryErrors = u.queryErrors
      PROVE  ScreenIs(next, M) /\ Thinned(u, next) /\ Reasked(u, next)
  BY <1>1 DEF ScreenIs, TabsOK, ModalOK, TabIds, TabsOf, Thinned, Reasked
<1>2. LET next == [u EXCEPT !.failures = y, !.menu = z, !.modal = x]
      IN /\ IsScreen(next) /\ next.tabs = u.tabs /\ next.active = u.active /\ next.nextTab = u.nextTab
         /\ next.grids = u.grids /\ next.focus = u.focus /\ next.filter = u.filter /\ next.modal = x
         /\ next.queryErrors = u.queryErrors
  BY DEF ScreenIs, IsScreen, ScreenFields
<1>3. LET next == [u EXCEPT !.askedApproval = y, !.menu = z, !.modal = x]
      IN /\ IsScreen(next) /\ next.tabs = u.tabs /\ next.active = u.active /\ next.nextTab = u.nextTab
         /\ next.grids = u.grids /\ next.focus = u.focus /\ next.filter = u.filter /\ next.modal = x
         /\ next.queryErrors = u.queryErrors
  BY DEF ScreenIs, IsScreen, ScreenFields
<1>4. LET next == [u EXCEPT !.modal = x]
      IN /\ IsScreen(next) /\ next.tabs = u.tabs /\ next.active = u.active /\ next.nextTab = u.nextTab
         /\ next.grids = u.grids /\ next.focus = u.focus /\ next.filter = u.filter /\ next.modal = x
         /\ next.queryErrors = u.queryErrors
  BY DEF ScreenIs, IsScreen, ScreenFields
<1>. QED  BY <1>1, <1>2, <1>3, <1>4

LEMMA RaiseFailureIs ==
    ASSUME NEW u, NEW M, NEW shown, ScreenIs(u, M)
    PROVE  LET next == RaiseConnectionFailure(u, shown)
           IN ScreenIs(next, M) /\ Thinned(u, next) /\ Reasked(u, next)
<1>1. Thinned(u, u) /\ Reasked(u, u)
  BY DEF Thinned, Reasked
<1>2. \A c : Dialog("failure", c, None).intent = None
  BY DEF Dialog
<1>. QED  BY <1>1, <1>2, ReaskIs DEF RaiseConnectionFailure

LEMMA RaiseApprovalsIs ==
    ASSUME NEW u, NEW M, NEW shown, ScreenIs(u, M)
    PROVE  LET next == RaiseApprovals(u, shown)
           IN ScreenIs(next, M) /\ Thinned(u, next) /\ Reasked(u, next)
<1>1. Thinned(u, u) /\ Reasked(u, u)
  BY DEF Thinned, Reasked
<1>2. \A q : Dialog("question", q, Action("Approve", None, q, None)).intent.op = "Approve"
  BY DEF Dialog, Action
<1>. QED  BY <1>1, <1>2, ReaskIs DEF RaiseApprovals

LEMMA RaisedIs ==
    ASSUME NEW u, NEW M, NEW shown, ScreenIs(u, M)
    PROVE  LET next == Raised(u, shown)
           IN ScreenIs(next, M) /\ Thinned(u, next) /\ Reasked(u, next)
<1>. DEFINE a == RaiseConnectionFailure(u, shown)
            b == RaisePreviewErrors(a, shown)
            c == RaiseApprovals(b, shown)
            e == RaiseQueryErrors(c, shown)
            f == CloseDisconnected(e, shown)
<1>1. ScreenIs(a, M) /\ Thinned(u, a) /\ Reasked(u, a)
  BY RaiseFailureIs
<1>. HIDE DEF a
<1>2. ScreenIs(b, M) /\ Thinned(a, b) /\ b.modal = a.modal
  BY <1>1, RaiseErrorsAre, StillThinned
<1>. HIDE DEF b
<1>3. ScreenIs(c, M) /\ Thinned(b, c) /\ Reasked(b, c)
  BY <1>2, RaiseApprovalsIs
<1>. HIDE DEF c
<1>4. ScreenIs(e, M) /\ Thinned(c, e) /\ e.modal = c.modal
  BY <1>3, RaiseErrorsAre, StillThinned
<1>. HIDE DEF e
<1>5. ScreenIs(f, M) /\ Thinned(e, f) /\ f.modal = e.modal
  BY <1>4, CloseDisconnectedIs
<1>6. Raised(u, shown) = f
  BY DEF Raised, a, b, c, e
<1>. HIDE DEF f
<1>. QED  BY <1>1, <1>2, <1>3, <1>4, <1>5, <1>6 DEF Thinned, Reasked

LEMMA MeasuredIs ==
    ASSUME NEW u, NEW M, NEW shown, ScreenIs(u, M)
    PROVE  Still(u, Measured(u, shown))
<1>. DEFINE tabs == {tab \in Active(u) : tab.kind = "Sql" /\ RowCount(tab, shown) = 0}
            other == [u EXCEPT !.sqlLines = 1]
            grid == [GridOf(u, u.active) EXCEPT !.offset = Least(@, 1 - 1)]
<1>1. Measured(u, shown) = IF tabs = {} THEN u ELSE WithGrid(other, u.active, grid)
  BY DEF Measured
<1>2. Still(u, u) /\ Still(u, other) /\ IsScreen(other) /\ TabIds(other) = TabIds(u)
  BY DEF ScreenIs, Still, IsScreen, ScreenFields, TabIds, TabsOf
<1>3. tabs # {} => u.active \in TabIds(u)
  BY DEF Active, TabIds
<1>. HIDE DEF tabs, other, grid
<1>4. tabs # {} => Still(other, WithGrid(other, u.active, grid))
  BY <1>2, <1>3, WithGridIs
<1>. QED  BY <1>1, <1>2, <1>4, StillTrans

\* The runs an event starts, and those of the first of a burst.
RunsOf(u, shown, burst, i) ==
    RunsUpTo(Intents(u, shown, burst[i], i), Len(Intents(u, shown, burst[i], i)))

BurstRuns(u, shown, burst, i) == UNION {RunsOf(u, shown, burst, j) : j \in 1 .. i}

\* Everything that is waiting can be done: each run has an id.
FreshRuns(u, shown, burst) ==
    \A order \in OrdersBy(u, shown, burst) : order.op = "Run" => order.item # None

LEMMA ScreenGrows ==
    ASSUME NEW u, NEW M, NEW N, ScreenIs(u, M), M \subseteq N
    PROVE  ScreenIs(u, N)
  BY DEF ScreenIs, TabsOK

\* One event after another.
CarriesEach(u, shown, burst, after) ==
    /\ after[0] = Just(u)
    /\ \A i \in 0 .. Len(burst) : IsDone(after[i], minted \cup BurstRuns(u, shown, burst, i))
    /\ \A i \in 1 .. Len(burst) :
          \E M, inner : LET list == Intents(u, shown, burst[i], i)
                        IN /\ Carries2(after[i - 1], M, list, inner)
                           /\ after[i] = inner[Len(list)]

\* The run of an event has the id that was made for it.
RunsAs(list, q) ==
    \A k \in 1 .. Len(list) : IsRun(list[k]) => list[k].at.item = q /\ q # None

\* The intents of an event are for it to carry out: its run is nobody else's.
LEMMA RunsOfIs ==
    ASSUME NEW u, NEW M, NEW shown, NEW burst, NEW i \in 1 .. Len(burst), Len(burst) \in Nat,
           ScreenIs(u, M), IsEvent(burst[i]), FreshRuns(u, shown, burst)
    PROVE  LET list == Intents(u, shown, burst[i], i)
           IN /\ RunsAs(list, Fresh(i).query)
              /\ \A q \in RunsOf(u, shown, burst, i) : q = Fresh(i).query /\ q # None
              /\ RunsOf(u, shown, burst, i) \subseteq Minted(OrdersBy(u, shown, burst))
<1>. DEFINE list == Intents(u, shown, burst[i], i)
            q == Fresh(i).query
<1>1. Intended(list, u, q, {"Edit", "SetFilter"})
  BY IntentsAre
<1>2. ASSUME NEW k \in 1 .. Len(list), IsRun(list[k]) PROVE list[k].at.item = q
  <2>1. IsIntent(list[k], u, q, {"Edit", "SetFilter"})
    BY <1>1 DEF Intended
  <2>. QED  BY <1>2, <2>1 DEF IsIntent, AppOps, ScreenIs, ModalOK, IsRun, IsCommand, PaneCommands, TabCommands
<1>3. ASSUME NEW k \in 1 .. Len(list), IsRun(list[k]) PROVE list[k].at \in OrdersBy(u, shown, burst)
  <2>1. list[k].at \in {list[n].at : n \in {n \in 1 .. Len(list) : list[n].cmd = "App"}}
    BY <1>3 DEF IsRun
  <2>2. OrdersBy(u, shown, burst) =
            UNION {LET read == Intents(u, shown, burst[n], n)
                   IN {read[m].at : m \in {m \in 1 .. Len(read) : read[m].cmd = "App"}} :
                   n \in 1 .. Len(burst)}
    BY DEF OrdersBy, Orders, Read
  <2>. QED  BY <2>1, <2>2
<1>4. \A k \in 1 .. Len(list) : IsRun(list[k]) => list[k].at.item # None
  BY <1>3 DEF FreshRuns, IsRun
<1>5. \A r \in RunsOf(u, shown, burst, i) :
         \E k \in 1 .. Len(list) : IsRun(list[k]) /\ r = list[k].at.item
  BY DEF RunsOf, RunsUpTo, RunOf
<1>6. RunsOf(u, shown, burst, i) \subseteq Minted(OrdersBy(u, shown, burst))
  BY <1>3, <1>5 DEF Minted, IsRun
<1>. HIDE DEF list, q
<1>7. /\ \A k \in 1 .. Len(list) : IsRun(list[k]) => list[k].at.item = q /\ q # None
      /\ \A r \in RunsOf(u, shown, burst, i) : r = q /\ r # None
  BY <1>2, <1>4, <1>5
<1>. QED  BY <1>6, <1>7 DEF list, q, RunsAs

LEMMA CarriedIs ==
    ASSUME NEW u, NEW shown, NEW burst, Len(burst) \in Nat, ScreenIs(u, minted),
           \A i \in 1 .. Len(burst) : IsEvent(burst[i]), FreshRuns(u, shown, burst)
    PROVE  /\ \E after : /\ CarriesEach(u, shown, burst, after)
                         /\ CarriedBy(u, shown, burst) = after[Len(burst)]
           /\ IsDone(CarriedBy(u, shown, burst), minted \cup Minted(OrdersBy(u, shown, burst)))
<1>. DEFINE L(i) == Intents(u, shown, burst[i], i)
            Upto(i) == minted \cup BurstRuns(u, shown, burst, i)
<1>1. PICK after : /\ after[0] = Just(u)
                   /\ \A i \in 1 .. Len(burst) : after[i] = CarryAll(after[i - 1], shown, L(i))
                   /\ CarriedBy(u, shown, burst) = after[Len(burst)]
  BY CarriedSteps
<1>. DEFINE Good == {i \in 0 .. Len(burst) : IsDone(after[i], Upto(i))}
<1>2. 0 \in Good
  <2>1. Upto(0) = minted
    BY DEF BurstRuns
  <2>2. IsDone(Just(u), minted)
    BY EmptyIs DEF IsDone, Just
  <2>. HIDE DEF Upto
  <2>. QED  BY <1>1, <2>1, <2>2
<1>3. ASSUME NEW i \in 1 .. Len(burst), i - 1 \in Good
      PROVE  /\ i \in Good
             /\ \E M, inner : Carries2(after[i - 1], M, L(i), inner) /\ after[i] = inner[Len(L(i))]
  <2>1. Intended(L(i), u, Fresh(i).query, {"Edit", "SetFilter"}) /\ OneRun(L(i))
    BY IntentsAre
  <2>2. ASSUME NEW k \in 1 .. Len(L(i)), IsRun(L(i)[k])
        PROVE  Fresh(i).query \notin Upto(i - 1) \cup {None}
    <3>1. Fresh(i).query # None
      <4>1. IsEvent(burst[i])
        OBVIOUS
      <4>2. RunsAs(L(i), Fresh(i).query)
        BY <4>1, RunsOfIs
      <4>. QED  BY <2>2, <4>2 DEF RunsAs
    <3>2. Fresh(i).query \notin minted /\ \A j : Fresh(j).query = Fresh(i).query => j = i
      BY <3>1, FreshIs
    <3>3. ASSUME NEW j \in 1 .. i - 1 PROVE Fresh(i).query \notin RunsOf(u, shown, burst, j)
      <4>1. j \in 1 .. Len(burst) /\ j # i
        OBVIOUS
      <4>2. \A r \in RunsOf(u, shown, burst, j) : r = Fresh(j).query
        BY <4>1, RunsOfIs
      <4>. QED  BY <3>2, <4>1, <4>2
    <3>4. Fresh(i).query \notin BurstRuns(u, shown, burst, i - 1)
      BY <3>3 DEF BurstRuns
    <3>. QED  BY <3>1, <3>2, <3>4
  <2>3. IsDone(after[i - 1], Upto(i - 1)) /\ ModalOK(u)
    BY <1>3 DEF ScreenIs
  <2>4. Upto(i) = Upto(i - 1) \cup RunsUpTo(L(i), Len(L(i)))
    <3>1. 1 .. i = (1 .. i - 1) \cup {i}
      OBVIOUS
    <3>2. BurstRuns(u, shown, burst, i) = BurstRuns(u, shown, burst, i - 1) \cup RunsOf(u, shown, burst, i)
      BY <3>1 DEF BurstRuns
    <3>. QED  BY <3>2 DEF RunsOf
  <2>5. Len(L(i)) \in Nat
    BY <2>1 DEF Intended, IsSeq
  <2>. DEFINE list == L(i)
              before == Upto(i - 1)
              q == Fresh(i).query
  <2>. HIDE DEF list, before, q, L, Upto
  <2>6. PICK inner : /\ Carries2(after[i - 1], before, list, inner)
                     /\ CarryAll(after[i - 1], shown, list) = inner[Len(list)]
    <3>1. Intended(list, u, q, {"Edit", "SetFilter"}) /\ OneRun(list)
      BY <2>1 DEF list, q
    <3>2. IsDone(after[i - 1], before) /\ ModalOK(u)
      BY <2>3 DEF before
    <3>3. \A k \in 1 .. Len(list) : IsRun(list[k]) => q \notin before \cup {None}
      BY <2>2 DEF list, before, q
    <3>. QED  BY <3>1, <3>2, <3>3, CarryAllIs
  <2>7. after[i] = inner[Len(list)]
    BY <1>1, <2>6 DEF list
  <2>8. IsDone(after[i], before \cup RunsUpTo(list, Len(list)))
    <3>1. Len(list) \in 0 .. Len(list)
      BY <2>5 DEF list
    <3>. QED  BY <2>6, <2>7, <3>1 DEF Carries2
  <2>9. IsDone(after[i], Upto(i))
    BY <2>4, <2>8 DEF list, before
  <2>10. i \in Good
    BY <2>9
  <2>. QED  BY <2>6, <2>7, <2>10 DEF list
<1>4. 0 .. Len(burst) \subseteq Good
  BY <1>2, <1>3, InductTo
<1>5. \A i \in 1 .. Len(burst) : i - 1 \in Good
  <2>. HIDE DEF Good
  <2>. QED  BY <1>4
<1>6. CarriesEach(u, shown, burst, after)
  <2>1. \A i \in 1 .. Len(burst) :
           \E M, inner : Carries2(after[i - 1], M, L(i), inner) /\ after[i] = inner[Len(L(i))]
    BY <1>3, <1>5
  <2>2. \A i \in 0 .. Len(burst) : IsDone(after[i], Upto(i))
    BY <1>4
  <2>. QED  BY <1>1, <2>1, <2>2 DEF CarriesEach
<1>7. IsDone(CarriedBy(u, shown, burst), minted \cup Minted(OrdersBy(u, shown, burst)))
  <2>1. BurstRuns(u, shown, burst, Len(burst)) \subseteq Minted(OrdersBy(u, shown, burst))
    BY RunsOfIs DEF BurstRuns
  <2>2. IsDone(after[Len(burst)], Upto(Len(burst)))
    <3>1. \A i \in 0 .. Len(burst) : IsDone(after[i], Upto(i))
      BY <1>4
    <3>. HIDE DEF Upto
    <3>. QED  BY <3>1
  <2>. QED  BY <1>1, <2>1, <2>2, ScreenGrows DEF IsDone
<1>. QED  BY <1>1, <1>6, <1>7

\* What was done before a behaviour began, while none of it ran anything.
LEMMA BeganIs ==
    ASSUME NEW u, NEW M, NEW shown, ScreenIs(u, M), Len(scene.before) \in Nat,
           \A i \in 1 .. Len(scene.before) : /\ ~scene.before[i].mouse
                                             /\ scene.before[i].key.code \notin {"r", "Enter"}
    PROVE  IsDone(Began(u, shown), M)
<1>. DEFINE L(d, i) == Intents(d.ui, shown, scene.before[i], 1)
<1>1. PICK after : /\ after[0] = Just(u)
                   /\ \A i \in 1 .. Len(scene.before) :
                         after[i] = CarryAll(after[i - 1], shown, L(after[i - 1], i))
                   /\ Began(u, shown) = after[Len(scene.before)]
  BY BeganSteps
<1>. DEFINE Good == {i \in 0 .. Len(scene.before) : IsDone(after[i], M)}
<1>2. 0 \in Good
  BY <1>1, EmptyIs DEF IsDone, Just
<1>3. ASSUME NEW i \in 1 .. Len(scene.before), i - 1 \in Good PROVE i \in Good
  <2>. DEFINE d == after[i - 1]
              list == L(d, i)
              q == Fresh(1).query
  <2>1. IsDone(d, M) /\ ScreenIs(d.ui, M)
    BY <1>3 DEF IsDone
  <2>2. IsEvent(scene.before[i])
    BY DEF IsEvent
  <2>3. Intended(list, d.ui, q, {"Edit", "SetFilter"}) /\ OneRun(list) /\ RunFree(list)
    <3>. DEFINE may == {"Edit", "SetFilter"}
    <3>1. "Edit" \in may /\ "SetFilter" \in may
      OBVIOUS
    <3>2. ~scene.before[i].mouse /\ scene.before[i].key.code \notin {"r", "Enter"}
      OBVIOUS
    <3>. HIDE DEF may, d
    <3>3. Intended(list, d.ui, q, may) /\ OneRun(list)
      BY <2>1, <2>2, <3>1, IntentsAre
    <3>4. RunFree(list)
      BY <2>1, <2>2, <3>1, <3>2, IntentsAre
    <3>. QED  BY <3>3, <3>4 DEF may
  <2>4. after[i] = CarryAll(d, shown, list)
    BY <1>1
  <2>. HIDE DEF d, list, q
  <2>5. \A k \in 1 .. Len(list) : IsRun(list[k]) => q \notin M \cup {None}
    BY <2>3 DEF RunFree
  <2>6. PICK inner : /\ Carries2(d, M, list, inner)
                     /\ CarryAll(d, shown, list) = inner[Len(list)]
    <3>1. ModalOK(d.ui)
      BY <2>1 DEF ScreenIs
    <3>. QED  BY <2>1, <2>3, <2>5, <3>1, CarryAllIs
  <2>7. RunsUpTo(list, Len(list)) = {}
    BY <2>3 DEF RunsUpTo, RunOf, RunFree
  <2>8. M \cup RunsUpTo(list, Len(list)) = M
    BY <2>7
  <2>9. Len(list) \in Nat
    BY <2>3 DEF Intended, IsSeq
  <2>10. IsDone(inner[Len(list)], M \cup RunsUpTo(list, Len(list)))
    <3>1. Len(list) \in 0 .. Len(list)
      BY <2>9
    <3>. QED  BY <2>6, <3>1 DEF Carries2
  <2>11. IsDone(after[i], M)
    BY <2>4, <2>6, <2>8, <2>10
  <2>. QED  BY <2>11
<1>4. 0 .. Len(scene.before) \subseteq Good
  BY <1>2, <1>3, InductTo
<1>. QED  BY <1>1, <1>4

-----------------------------------------------------------------------------
(* The screen, whatever is pressed and whatever the store publishes.          *)

\* The inductive invariant: the runs behind the tabs are among those that were
\* ever made, which is what keeps the next one from being two tabs'.
ScreenInv == scene \in Scenes /\ ScreenIs(ui, minted)

LEMMA BurstIs ==
    ASSUME NEW drawn, NEW n \in Nat, scene \in Scenes, NEW burst \in Bursts(drawn, n)
    PROVE  /\ Len(burst) \in Nat /\ n <= Len(burst)
           /\ \A i \in 1 .. Len(burst) : burst[i] \in Events(drawn) /\ IsEvent(burst[i])
<1>1. scene.burst \in Nat
  BY FrontendAssumption
<1>2. PICK k \in n .. scene.burst : burst \in [1 .. k -> Events(drawn)]
  BY DEF Bursts
<1>3. k \in Nat /\ Len(burst) = k
  BY <1>1, <1>2
<1>. QED  BY <1>2, <1>3, EventsAre

\* One iteration.
LEMMA CarriesIs ==
    ASSUME NEW u, NEW shown, NEW burst, Len(burst) \in Nat, ScreenIs(u, minted),
           \A i \in 1 .. Len(burst) : IsEvent(burst[i]), Carries(u, shown, burst)
    PROVE  /\ FreshRuns(u, shown, burst)
           /\ ScreenIs(ui', minted')
           /\ ui' = CarriedBy(u, shown, burst).ui
           /\ inbox' = inbox \o CarriedBy(u, shown, burst).out
           /\ minted' = minted \cup Minted(OrdersBy(u, shown, burst))
           /\ presses' = presses + Len(burst)
<1>1. /\ Affordable(OrdersBy(u, shown, burst), CarriedBy(u, shown, burst))
      /\ ui' = CarriedBy(u, shown, burst).ui
      /\ inbox' = inbox \o CarriedBy(u, shown, burst).out
      /\ minted' = minted \cup Minted(OrdersBy(u, shown, burst))
      /\ presses' = presses + Len(burst)
  BY DEF Carries, CarriedBy, OrdersBy
<1>2. FreshRuns(u, shown, burst)
  BY <1>1 DEF Affordable, FreshRuns
<1>3. IsDone(CarriedBy(u, shown, burst), minted \cup Minted(OrdersBy(u, shown, burst)))
  BY <1>2, CarriedIs
<1>. QED  BY <1>1, <1>2, <1>3 DEF IsDone

LEMMA ScreenInit == FrontendInit => ScreenInv
<1>. SUFFICES ASSUME FrontendInit PROVE ScreenInv
  OBVIOUS
<1>1. scene \in Scenes
  BY DEF FrontendInit
<1>2. /\ Len(scene.before) \in Nat
      /\ \A i \in 1 .. Len(scene.before) :
            ~scene.before[i].mouse /\ scene.before[i].key.code \notin {"r", "Enter"}
  BY <1>1, FrontendAssumption
<1>. DEFINE screen == Raised(NewScreen, snap)
<1>3. ui = Began(screen, snap).ui
  BY DEF FrontendInit
<1>4. ScreenIs(screen, minted)
  BY NewScreenIs, RaisedIs
<1>. HIDE DEF screen
<1>5. IsDone(Began(screen, snap), minted)
  BY <1>2, <1>4, BeganIs
<1>. QED  BY <1>1, <1>3, <1>5 DEF ScreenInv, IsDone

\* What an iteration starts from.
LEMMA TypedIs ==
    ASSUME ScreenInv, Typed
    PROVE  \E u, burst : /\ u = Measured(ui, snap)
                         /\ burst \in Bursts(u, 1)
                         /\ Carries(u, snap, burst)
                         /\ ScreenIs(u, minted) /\ Still(ui, u)
                         /\ Len(burst) \in Nat /\ 1 <= Len(burst)
                         /\ \A i \in 1 .. Len(burst) : burst[i] \in Events(u) /\ IsEvent(burst[i])
<1>. DEFINE u == Measured(ui, snap)
<1>1. PICK burst \in Bursts(u, 1) : Carries(u, snap, burst)
  BY DEF Typed
<1>2. ScreenIs(u, minted) /\ Still(ui, u)
  BY MeasuredIs, StillKeeps DEF ScreenInv
<1>. HIDE DEF u
<1>3. /\ Len(burst) \in Nat /\ 1 <= Len(burst)
      /\ \A i \in 1 .. Len(burst) : burst[i] \in Events(u) /\ IsEvent(burst[i])
  BY BurstIs DEF ScreenInv
<1>. QED  BY <1>1, <1>2, <1>3 DEF u

LEMMA LookedIs ==
    ASSUME ScreenInv, Looked
    PROVE  \E drawn, u, burst : /\ drawn = Measured(ui, snap) /\ Still(ui, drawn)
                                /\ ScreenIs(drawn, minted)
                                /\ u = Raised(drawn, snap')
                                /\ Carries(u, snap', burst)
                                /\ ScreenIs(u, minted) /\ Thinned(drawn, u) /\ Reasked(drawn, u)
                                /\ Len(burst) \in Nat
                                /\ \A i \in 1 .. Len(burst) : burst[i] \in Events(drawn) /\ IsEvent(burst[i])
<1>. DEFINE drawn == Measured(ui, snap)
            u == Raised(drawn, snap')
<1>1. PICK burst \in IF scene.patient THEN {<<>>} ELSE Bursts(drawn, 0) : Carries(u, snap', burst)
  BY DEF Looked
<1>2. ScreenIs(drawn, minted) /\ Still(ui, drawn)
  BY MeasuredIs, StillKeeps DEF ScreenInv
<1>. HIDE DEF drawn
<1>3. ScreenIs(u, minted) /\ Thinned(drawn, u) /\ Reasked(drawn, u)
  BY <1>2, RaisedIs
<1>. HIDE DEF u
<1>4. /\ Len(burst) \in Nat
      /\ \A i \in 1 .. Len(burst) : burst[i] \in Events(drawn) /\ IsEvent(burst[i])
  BY BurstIs, EmptyIs DEF ScreenInv
<1>. QED  BY <1>1, <1>2, <1>3, <1>4 DEF drawn, u

LEMMA ScreenNext == ScreenInv /\ [FrontendNext]_allVars => ScreenInv'
<1>. SUFFICES ASSUME ScreenInv, [FrontendNext]_allVars PROVE ScreenInv'
  OBVIOUS
<1>1. CASE Typed
  <2>1. scene' = scene
    BY <1>1 DEF Typed
  <2>2. ScreenIs(ui', minted')
    BY <1>1, TypedIs, CarriesIs
  <2>. QED  BY <2>1, <2>2 DEF ScreenInv
<1>2. CASE Looked
  <2>1. scene' = scene
    BY <1>2 DEF Looked
  <2>2. ScreenIs(ui', minted')
    BY <1>2, LookedIs, CarriesIs
  <2>. QED  BY <2>1, <2>2 DEF ScreenInv
<1>3. CASE Loop
  BY <1>3 DEF Loop, ScreenInv
<1>4. CASE Agent
  <2>1. /\ scene' = scene /\ ui' = ui
        /\ minted \subseteq minted'
    BY <1>4 DEF Agent
  <2>. QED  BY <2>1, ScreenGrows DEF ScreenInv
<1>5. CASE (\E id \in BusyId : Tasks(id)) \/ Pool \/ Elsewhere
  BY <1>5 DEF Tasks, Pool, Elsewhere, frontVars, ScreenInv
<1>6. CASE UNCHANGED allVars
  BY <1>6 DEF allVars, frontVars, ScreenInv
<1>. QED  BY <1>1, <1>2, <1>3, <1>4, <1>5, <1>6 DEF FrontendNext

\* The screen's tabs are what it shows once each: no two share an id, a relation, a
\* definition or a run, the one in front is one of them, and no cursor is kept for a
\* tab that has gone (ui.rs OpenTab, input.rs close_tab).
THEOREM ScreenIsOK == FrontendSpec => []ScreenOK
<1>1. FrontendInit => ScreenInv
  BY ScreenInit
<1>2. ScreenInv /\ [FrontendNext]_allVars => ScreenInv'
  BY ScreenNext
<1>3. ScreenInv => ScreenOK
  BY DEF ScreenInv, ScreenIs, TabsOK, Distinct, ScreenOK
<1>. QED  BY <1>1, <1>2, <1>3, PTL DEF FrontendSpec

-----------------------------------------------------------------------------
(* What somebody wrote, and what is asked for.                               *)

\* A tab that was there holds what it held.
Kept(u, next) ==
    /\ u.nextTab <= next.nextTab
    /\ \A tab \in TabsOf(next) : tab.id <= u.nextTab =>
          \E was \in TabsOf(u) : was.id = tab.id /\ (was.text # None => tab.text = was.text)

LEMMA KeptTrans ==
    ASSUME NEW u, NEW L, NEW next, NEW M, NEW last, NEW N, ScreenIs(u, L), ScreenIs(next, M),
           ScreenIs(last, N), Kept(u, next), Kept(next, last)
    PROVE  Kept(u, last)
<1>1. u.nextTab \in Nat /\ next.nextTab \in Nat /\ last.nextTab \in Nat
  BY DEF ScreenIs, TabsOK
<1>2. u.nextTab <= last.nextTab
  BY <1>1 DEF Kept
<1>3. ASSUME NEW tab \in TabsOf(last), tab.id <= u.nextTab
      PROVE  \E was \in TabsOf(u) : was.id = tab.id /\ (was.text # None => tab.text = was.text)
  <2>1. tab.id \in Nat
    BY TabIsTab, <1>1
  <2>2. tab.id <= next.nextTab
    BY <1>1, <1>3, <2>1 DEF Kept
  <2>3. PICK mid \in TabsOf(next) : mid.id = tab.id /\ (mid.text # None => tab.text = mid.text)
    BY <2>2 DEF Kept
  <2>4. PICK was \in TabsOf(u) : was.id = mid.id /\ (was.text # None => mid.text = was.text)
    BY <1>3, <2>3 DEF Kept
  <2>. QED  BY <2>3, <2>4
<1>. QED  BY <1>2, <1>3 DEF Kept

LEMMA SameTabsKept ==
    ASSUME NEW u, NEW M, NEW next, ScreenIs(u, M), next.nextTab = u.nextTab, TabsOf(next) \subseteq TabsOf(u)
    PROVE  Kept(u, next)
<1>1. u.nextTab \in Nat
  BY DEF ScreenIs, TabsOK
<1>. QED  BY <1>1 DEF Kept

LEMMA ChangeKept ==
    ASSUME NEW u, NEW M, NEW next, NEW x, ScreenIs(u, M), Change(u, next, x), x.cmd # "Edit"
    PROVE  Kept(u, next)
<1>1. u.nextTab \in Nat
  BY DEF ScreenIs, TabsOK
<1>2. CASE Focused(u, next)
  BY <1>2, SameTabsKept DEF Focused, TabsOf
<1>3. CASE \E content : OpenedAs(u, next, content) /\ IsTab(content)
  <2>1. PICK content : OpenedAs(u, next, content) /\ IsTab(content)
    BY <1>3
  <2>2. [content EXCEPT !.id = u.nextTab + 1].id = u.nextTab + 1
    BY <2>1 DEF IsTab
  <2>. DEFINE new == [content EXCEPT !.id = u.nextTab + 1]
  <2>4. TabsOf(next) = TabsOf(u) \cup {new} /\ new.id = u.nextTab + 1
    BY <2>1, <2>2 DEF OpenedAs
  <2>. HIDE DEF new
  <2>3. \A tab \in TabsOf(next) : tab.id <= u.nextTab => tab \in TabsOf(u)
    BY <1>1, <2>4
  <2>. QED  BY <1>1, <2>1, <2>3 DEF Kept, OpenedAs
<1>4. CASE Closed(u, next, x.at)
  BY <1>4, SameTabsKept DEF Closed
<1>5. CASE Inserted(u, next)
  BY <1>1, <1>5 DEF Inserted, Rewritten, Kept
<1>6. CASE \E was \in Active(u) : Rewritten(u, next, [was EXCEPT !.query = x.at.item])
  <2>1. PICK was \in Active(u) : Rewritten(u, next, [was EXCEPT !.query = x.at.item])
    BY <1>6
  <2>2. was \in TabsOf(u) /\ IsTab(was)
    BY TabIsTab DEF Active
  <2>. DEFINE tab == [was EXCEPT !.query = x.at.item]
  <2>3. tab.id = was.id /\ tab.text = was.text
    BY <2>2 DEF IsTab
  <2>. HIDE DEF tab
  <2>4. Rewritten(u, next, tab)
    BY <2>1 DEF tab
  <2>. QED  BY <1>1, <2>2, <2>3, <2>4 DEF Rewritten, Kept
<1>. QED  BY <1>2, <1>3, <1>4, <1>5, <1>6 DEF Change, Effect, Started

LEMMA ThinnedKept ==
    ASSUME NEW u, NEW M, NEW next, ScreenIs(u, M), Still(u, next) \/ Thinned(u, next)
    PROVE  Kept(u, next)
  BY SameTabsKept DEF Still, Thinned, TabsOf

\* What an event asks of the store, read against a screen.
IsOrder(a, u) ==
    \/ a.op \in AppOps \cup {"Run", "LoadMore", "Search", "Load", "Save", "Forget"}
    \/ u.modal # None /\ u.modal.intent # None /\ a = u.modal.intent

\* What was asked for stays, and what is new was meant.
Ordered(out, next, u) ==
    /\ Longer(out, next)
    /\ \A i \in Len(out) + 1 .. Len(next) : IsOrder(next[i], u)

LEMMA OrderedTrans ==
    ASSUME NEW out, NEW next, NEW last, NEW u, IsSeq(out), Ordered(out, next, u), Ordered(next, last, u)
    PROVE  Ordered(out, last, u)
<1>1. Len(out) \in Nat /\ Len(next) \in Nat /\ Len(last) \in Nat
  BY DEF IsSeq, Ordered, Longer
<1>2. Longer(out, last)
  BY <1>1 DEF Longer, Ordered
<1>3. ASSUME NEW i \in Len(out) + 1 .. Len(last) PROVE IsOrder(last[i], u)
  <2>1. CASE i <= Len(next)
    <3>1. i \in Len(out) + 1 .. Len(next) /\ i \in 1 .. Len(next)
      BY <1>1, <2>1
    <3>. QED  BY <3>1 DEF Ordered, Longer
  <2>2. CASE ~(i <= Len(next))
    <3>1. i \in Len(next) + 1 .. Len(last)
      BY <1>1, <2>2
    <3>. QED  BY <3>1 DEF Ordered
  <2>. QED  BY <2>1, <2>2
<1>. QED  BY <1>2, <1>3 DEF Ordered

\* What one intent does to both.
Onward(d, next, u, may) ==
    /\ "Edit" \notin may => Kept(d.ui, next.ui)
    /\ Ordered(d.out, next.out, u)

LEMMA OnwardStays ==
    ASSUME NEW d, NEW M, NEW u, NEW may, IsDone(d, M)
    PROVE  Onward(d, d, u, may)
<1>1. Kept(d.ui, d.ui)
  BY SameTabsKept DEF IsDone
<1>2. Ordered(d.out, d.out, u)
  BY DEF Ordered, Longer, IsDone, IsSeq
<1>. QED  BY <1>1, <1>2 DEF Onward

LEMMA OnwardTrans ==
    ASSUME NEW d, NEW L, NEW next, NEW M, NEW last, NEW N, NEW u, NEW may,
           IsDone(d, L), IsDone(next, M), IsDone(last, N), Onward(d, next, u, may), Onward(next, last, u, may)
    PROVE  Onward(d, last, u, may)
<1>1. "Edit" \notin may => Kept(d.ui, last.ui)
  BY KeptTrans DEF Onward, IsDone
<1>2. Ordered(d.out, last.out, u)
  BY OrderedTrans DEF Onward, IsDone
<1>. QED  BY <1>1, <1>2 DEF Onward

LEMMA IntentOnward ==
    ASSUME NEW d, NEW M, NEW next, NEW x, NEW u, NEW q, NEW may, IsDone(d, M), Change(d.ui, next.ui, x),
           LongerBy(d.out, next.out, x), IsIntent(x, u, q, may)
    PROVE  Onward(d, next, u, may)
<1>1. x.cmd = "Edit" => "Edit" \in may
  BY DEF IsIntent, IsCommand, PaneCommands, TabCommands, IsRun
<1>2. "Edit" \notin may => Kept(d.ui, next.ui)
  BY <1>1, ChangeKept DEF IsDone
<1>3. x.cmd = "App" => IsOrder(x.at, u)
  BY DEF IsIntent, IsOrder, IsRun, IsCommand, PaneCommands, TabCommands
<1>4. Ordered(d.out, next.out, u)
  <2>1. ASSUME NEW i \in Len(d.out) + 1 .. Len(next.out) PROVE IsOrder(next.out[i], u)
    BY <1>3 DEF LongerBy, IsOrder
  <2>. QED  BY <2>1 DEF Ordered, LongerBy
<1>. QED  BY <1>2, <1>4 DEF Onward

LEMMA ListOnward ==
    ASSUME NEW d, NEW M, NEW list, NEW after, NEW u, NEW q, NEW may,
           Carries2(d, M, list, after), Intended(list, u, q, may)
    PROVE  Onward(d, after[Len(list)], u, may)
<1>1. Len(list) \in Nat
  BY DEF Intended, IsSeq
<1>2. \A k \in 0 .. Len(list) : IsDone(after[k], M \cup RunsUpTo(list, k))
  BY DEF Carries2
<1>3. after[0] = d
  BY DEF Carries2
<1>. DEFINE Good == {k \in 0 .. Len(list) : Onward(d, after[k], u, may)}
<1>4. 0 \in Good
  <2>1. 0 \in 0 .. Len(list)
    BY <1>1
  <2>2. IsDone(d, M \cup RunsUpTo(list, 0))
    BY <1>2, <1>3, <2>1
  <2>. QED  BY <1>3, <2>1, <2>2, OnwardStays
<1>5. ASSUME NEW k \in 1 .. Len(list), k - 1 \in Good PROVE k \in Good
  <2>1. k \in 0 .. Len(list) /\ k - 1 \in 0 .. Len(list) /\ 0 \in 0 .. Len(list)
    BY <1>1
  <2>2. Onward(after[k - 1], after[k], u, may)
    <3>1. Change(after[k - 1].ui, after[k].ui, list[k]) /\ LongerBy(after[k - 1].out, after[k].out, list[k])
      BY DEF Carries2
    <3>2. IsIntent(list[k], u, q, may)
      BY DEF Intended
    <3>3. IsDone(after[k - 1], M \cup RunsUpTo(list, k - 1))
      BY <1>2, <2>1
    <3>. QED  BY <3>1, <3>2, <3>3, IntentOnward
  <2>3. Onward(d, after[k - 1], u, may)
    BY <1>5
  <2>4. Onward(d, after[k], u, may)
    <3>1. /\ IsDone(d, M \cup RunsUpTo(list, 0))
          /\ IsDone(after[k - 1], M \cup RunsUpTo(list, k - 1))
          /\ IsDone(after[k], M \cup RunsUpTo(list, k))
      BY <1>2, <1>3, <2>1
    <3>. QED  BY <2>2, <2>3, <3>1, OnwardTrans
  <2>. QED  BY <2>1, <2>4
<1>6. 0 .. Len(list) \subseteq Good
  BY <1>1, <1>4, <1>5, InductTo
<1>. QED  BY <1>1, <1>6

LEMMA BurstOnward ==
    ASSUME NEW u, NEW shown, NEW burst, NEW may, Len(burst) \in Nat, ScreenIs(u, minted),
           "SetFilter" \in may,
           \A i \in 1 .. Len(burst) :
              IsEvent(burst[i]) /\ (~burst[i].mouse /\ burst[i].key.code = "e" => "Edit" \in may),
           FreshRuns(u, shown, burst)
    PROVE  Onward(Just(u), CarriedBy(u, shown, burst), u, may)
<1>1. PICK after : /\ CarriesEach(u, shown, burst, after)
                   /\ CarriedBy(u, shown, burst) = after[Len(burst)]
  BY CarriedIs
<1>2. /\ after[0] = Just(u)
      /\ \A i \in 0 .. Len(burst) : IsDone(after[i], minted \cup BurstRuns(u, shown, burst, i))
  BY <1>1 DEF CarriesEach
<1>. DEFINE Good == {i \in 0 .. Len(burst) : Onward(Just(u), after[i], u, may)}
<1>3. 0 \in Good
  <2>1. 0 \in 0 .. Len(burst)
    OBVIOUS
  <2>2. IsDone(Just(u), minted \cup BurstRuns(u, shown, burst, 0))
    BY <1>2, <2>1
  <2>. QED  BY <1>2, <2>1, <2>2, OnwardStays
<1>4. ASSUME NEW i \in 1 .. Len(burst), i - 1 \in Good PROVE i \in Good
  <2>1. i \in 0 .. Len(burst) /\ i - 1 \in 0 .. Len(burst) /\ 0 \in 0 .. Len(burst)
    OBVIOUS
  <2>. DEFINE list == Intents(u, shown, burst[i], i)
  <2>2. Intended(list, u, Fresh(i).query, may)
    BY IntentsAre
  <2>3. PICK M, inner : Carries2(after[i - 1], M, list, inner) /\ after[i] = inner[Len(list)]
    BY <1>1 DEF CarriesEach
  <2>. HIDE DEF list
  <2>4. Onward(after[i - 1], after[i], u, may)
    BY <2>2, <2>3, ListOnward
  <2>5. Onward(Just(u), after[i - 1], u, may)
    BY <1>4
  <2>6. Onward(Just(u), after[i], u, may)
    <3>1. /\ IsDone(Just(u), minted \cup BurstRuns(u, shown, burst, 0))
          /\ IsDone(after[i - 1], minted \cup BurstRuns(u, shown, burst, i - 1))
          /\ IsDone(after[i], minted \cup BurstRuns(u, shown, burst, i))
      BY <1>2, <2>1
    <3>. QED  BY <2>4, <2>5, <3>1, OnwardTrans
  <2>. QED  BY <2>1, <2>6
<1>5. 0 .. Len(burst) \subseteq Good
  BY <1>3, <1>4, InductTo
<1>. QED  BY <1>1, <1>5

-----------------------------------------------------------------------------
(* What the explorer lists.                                                  *)

LEMMA ThoseIs ==
    ASSUME NEW seq, NEW set, Len(seq) \in Nat
    PROVE  IsSeq(Those(seq, set))
<1>1. PICK after : /\ after[0] = <<>>
                   /\ \A k \in 1 .. Len(seq) :
                         after[k] = IF seq[k] \in set THEN Append(after[k - 1], seq[k]) ELSE after[k - 1]
                   /\ Those(seq, set) = after[Len(seq)]
  BY ThoseSteps
<1>. DEFINE Good == {k \in 0 .. Len(seq) : IsSeq(after[k])}
<1>2. 0 \in Good
  BY <1>1, EmptyIs
<1>3. ASSUME NEW k \in 1 .. Len(seq), k - 1 \in Good PROVE k \in Good
  <2>1. IsSeq(after[k - 1])
    BY <1>3
  <2>2. IsSeq(after[k])
    BY <1>1, <2>1, AppendIs
  <2>. QED  BY <2>2
<1>4. 0 .. Len(seq) \subseteq Good
  BY <1>2, <1>3, InductTo
<1>. QED  BY <1>1, <1>4

LEMMA ExplorerIs == IsSeq(Explorer)
<1>. DEFINE top(c) == [conn |-> c, node |-> Root, depth |-> 0, label |-> <<>>]
            listed(c) == Those(NodeSeq, Objects(tree[c]))
            below(c) == [i \in 1 .. Len(listed(c)) |->
                           [conn |-> c, node |-> listed(c)[i], depth |-> Len(Path[listed(c)[i]]),
                            label |-> Label[listed(c)[i]]]]
            rows(c) == IF conns[c].status = "absent" THEN <<>>
                       ELSE IF conns[c].expanded THEN <<top(c)>> \o below(c)
                       ELSE <<top(c)>>
            Do(was, k) == was \o rows(ConnSeq[k])
            Steps(f, n) == f = [k \in 0 .. n |-> IF k = 0 THEN <<>> ELSE Do(f[k - 1], k)]
            after == CHOOSE f : Steps(f, Len(ConnSeq))
<1>1. Explorer = after[Len(ConnSeq)]
  BY DEF Explorer
<1>2. ASSUME NEW c PROVE IsSeq(rows(c))
  <2>1. Len(listed(c)) \in Nat
    BY ScreenAssumption, ThoseIs DEF IsSeq
  <2>2. IsSeq(below(c))
    <3>. HIDE DEF listed
    <3>. QED  BY <2>1 DEF IsSeq
  <2>3. IsSeq(<<top(c)>>)
    <3>. HIDE DEF top
    <3>. QED  BY OneIs
  <2>. HIDE DEF top, below
  <2>4. IsSeq(<<top(c)>> \o below(c))
    BY <2>2, <2>3, ConcatIs
  <2>. QED  BY <2>3, <2>4, EmptyIs
<1>. HIDE DEF rows, Do
<1>. DEFINE S == {n \in Nat : \E f : Steps(f, n)}
<1>3. 0 \in S
  <2>1. Steps([k \in 0 .. 0 |-> <<>>], 0)
    OBVIOUS
  <2>. QED  BY <2>1
<1>4. ASSUME NEW n \in Nat, n \in S
      PROVE  n + 1 \in S
  <2>1. PICK f : Steps(f, n)
    BY <1>4
  <2>. DEFINE g == [k \in 0 .. n + 1 |-> IF k \in 0 .. n THEN f[k] ELSE Do(f[n], n + 1)]
  <2>2. Steps(g, n + 1)
    <3>1. ASSUME NEW k \in 0 .. n + 1
          PROVE  g[k] = IF k = 0 THEN <<>> ELSE Do(g[k - 1], k)
      <4>1. CASE k = 0
        BY <2>1, <4>1
      <4>2. CASE k \in 1 .. n
        BY <2>1, <4>2
      <4>3. CASE k = n + 1
        BY <2>1, <4>3
      <4>. QED  BY <4>1, <4>2, <4>3
    <3>. QED  BY <3>1
  <2>3. \E h : Steps(h, n + 1)
    <3>. HIDE DEF Steps
    <3>. QED  BY <2>2
  <2>. QED  BY <2>3
<1>5. Len(ConnSeq) \in Nat
  BY ScreenAssumption
<1>6. Len(ConnSeq) \in S
  <2>. HIDE DEF S
  <2>. QED  BY <1>3, <1>4, <1>5, Induct
<1>7. Steps(after, Len(ConnSeq))
  BY <1>6
<1>. HIDE DEF after
<1>8. /\ after[0] = <<>>
      /\ \A k \in 1 .. Len(ConnSeq) : after[k] = after[k - 1] \o rows(ConnSeq[k])
  BY <1>5, <1>7 DEF Do
<1>. DEFINE Good == {k \in 0 .. Len(ConnSeq) : IsSeq(after[k])}
<1>9. 0 \in Good
  BY <1>5, <1>8, EmptyIs
<1>10. ASSUME NEW k \in 1 .. Len(ConnSeq), k - 1 \in Good PROVE k \in Good
  <2>1. IsSeq(after[k - 1]) /\ after[k] = after[k - 1] \o rows(ConnSeq[k])
    BY <1>8, <1>10
  <2>2. IsSeq(after[k])
    BY <1>2, <2>1, ConcatIs
  <2>. QED  BY <1>5, <2>2
<1>11. 0 .. Len(ConnSeq) \subseteq Good
  BY <1>5, <1>9, <1>10, InductTo
<1>. QED  BY <1>1, <1>5, <1>11

\* The rows of it that a search leaves are so many.
LEMMA SeenIs ==
    ASSUME NEW u, NEW shown, Len(shown.explorer) \in Nat
    PROVE  Len(Seen(u, shown)) \in Nat
<1>. DEFINE all == [i \in 1 .. Len(shown.explorer) |-> i]
            text == IF u.filter = None THEN <<>> ELSE u.filter.text
            kept == VisibleRows(shown.explorer, text)
<1>1. Len(all) \in Nat
  OBVIOUS
<1>2. Seen(u, shown) \in {all, Those(all, kept)}
  <2>. HIDE DEF text
  <2>1. Drawn(shown.explorer, text) \in {all, Those(all, kept)}
    BY DEF Drawn
  <2>. QED  BY <2>1 DEF Seen, text
<1>. HIDE DEF all, kept
<1>. QED  BY <1>1, <1>2, ThoseIs DEF IsSeq

-----------------------------------------------------------------------------
(* The screen and what is on its way to the store.                           *)

FrontInv == ScreenInv /\ IsSeq(inbox) /\ Len(snap.explorer) \in Nat /\ presses \in Nat

\* The loop takes the oldest of what was asked, and nothing else changes the queue.
Taken == inbox' = inbox \/ (inbox # <<>> /\ inbox' = Tail(inbox))

LEMMA LoopTakes ==
    ASSUME Loop
    PROVE  /\ Taken
           /\ UNCHANGED <<ui, snap, minted, scene, presses>>
           /\ published' = TRUE
<1>1. Apply => inbox # <<>> /\ inbox' = Tail(inbox)
  BY DEF Apply
<1>2. Handle => inbox' = inbox
  BY DEF Handle, queueVars
<1>. QED  BY <1>1, <1>2 DEF Loop, Taken

LEMMA TailIs ==
    ASSUME NEW s, IsSeq(s), s # <<>>
    PROVE  /\ IsSeq(Tail(s)) /\ Len(Tail(s)) = Len(s) - 1
           /\ \A i \in 1 .. Len(s) - 1 : Tail(s)[i] = s[i + 1]
<1>1. s \in Seq(In(s))
  BY SeqOf
<1>2. Tail(s) \in Seq(In(s)) /\ Len(Tail(s)) = Len(s) - 1
  BY <1>1
<1>3. \A i \in 1 .. Len(s) - 1 : Tail(s)[i] = s[i + 1]
  BY <1>1
<1>. QED  BY <1>2, <1>3, SeqOf

LEMMA TakenIs ==
    ASSUME IsSeq(inbox), Taken
    PROVE  IsSeq(inbox') /\ Len(inbox') <= Len(inbox)
<1>1. Len(inbox) \in Nat
  BY DEF IsSeq
<1>2. inbox' = inbox => IsSeq(inbox') /\ Len(inbox') <= Len(inbox)
  BY <1>1
<1>3. inbox # <<>> /\ inbox' = Tail(inbox) => IsSeq(inbox') /\ Len(inbox') <= Len(inbox)
  BY <1>1, TailIs
<1>. QED  BY <1>2, <1>3 DEF Taken

LEMMA FrontInit == FrontendInit => FrontInv
<1>1. FrontendInit => IsSeq(inbox) /\ presses \in Nat
  BY EmptyIs DEF FrontendInit, Underway
<1>2. FrontendInit => Len(snap.explorer) \in Nat
  <2>1. \A n : View(n).explorer = Explorer
    BY DEF View
  <2>. QED  BY <2>1, ExplorerIs DEF FrontendInit, IsSeq
<1>. QED  BY <1>1, <1>2, ScreenInit DEF FrontInv

\* What an iteration puts into the queue comes after what is there.
LEMMA CarriesOut ==
    ASSUME NEW u, NEW shown, NEW burst, Len(burst) \in Nat, ScreenIs(u, minted),
           \A i \in 1 .. Len(burst) : IsEvent(burst[i]), Carries(u, shown, burst), IsSeq(inbox)
    PROVE  LET out == CarriedBy(u, shown, burst).out
           IN /\ IsSeq(out) /\ IsSeq(inbox')
              /\ Len(inbox') = Len(inbox) + Len(out)
              /\ \A i \in 1 .. Len(inbox) : inbox'[i] = inbox[i]
              /\ \A i \in Len(inbox) + 1 .. Len(inbox') :
                    i - Len(inbox) \in 1 .. Len(out) /\ inbox'[i] = out[i - Len(inbox)]
<1>. DEFINE out == CarriedBy(u, shown, burst).out
<1>1. /\ FreshRuns(u, shown, burst)
      /\ inbox' = inbox \o out
  BY CarriesIs
<1>2. IsSeq(out)
  BY <1>1, CarriedIs DEF IsDone
<1>. HIDE DEF out
<1>3. /\ IsSeq(inbox') /\ Len(inbox') = Len(inbox) + Len(out)
      /\ \A i \in 1 .. Len(inbox) : inbox'[i] = inbox[i]
      /\ \A i \in 1 .. Len(out) : inbox'[Len(inbox) + i] = out[i]
  BY <1>1, <1>2, ConcatIs
<1>4. ASSUME NEW i \in Len(inbox) + 1 .. Len(inbox')
      PROVE  i - Len(inbox) \in 1 .. Len(out) /\ inbox'[i] = out[i - Len(inbox)]
  <2>1. Len(inbox) \in Nat /\ Len(out) \in Nat
    BY <1>2 DEF IsSeq
  <2>2. i - Len(inbox) \in 1 .. Len(out) /\ Len(inbox) + (i - Len(inbox)) = i
    BY <1>3, <2>1
  <2>. QED  BY <1>3, <2>2
<1>. QED  BY <1>2, <1>3, <1>4 DEF out

LEMMA FrontNext == FrontInv /\ [FrontendNext]_allVars => FrontInv'
<1>. SUFFICES ASSUME FrontInv, [FrontendNext]_allVars
              PROVE  IsSeq(inbox') /\ Len(snap'.explorer) \in Nat /\ presses' \in Nat
  BY ScreenNext DEF FrontInv
<1>. USE DEF FrontInv
<1>1. CASE Typed
  <2>1. PICK u, burst : /\ Carries(u, snap, burst) /\ ScreenIs(u, minted) /\ Len(burst) \in Nat
                        /\ \A i \in 1 .. Len(burst) : IsEvent(burst[i])
    BY <1>1, TypedIs
  <2>2. IsSeq(inbox')
    BY <2>1, CarriesOut
  <2>3. presses' = presses + Len(burst)
    BY <2>1, CarriesIs
  <2>. QED  BY <1>1, <2>1, <2>2, <2>3 DEF Typed
<1>2. CASE Looked
  <2>1. PICK u, burst : /\ Carries(u, snap', burst) /\ ScreenIs(u, minted) /\ Len(burst) \in Nat
                        /\ \A i \in 1 .. Len(burst) : IsEvent(burst[i])
    BY <1>2, LookedIs
  <2>2. IsSeq(inbox')
    BY <2>1, CarriesOut
  <2>3. presses' = presses + Len(burst)
    BY <2>1, CarriesIs
  <2>4. snap'.explorer = Explorer
    BY <1>2 DEF Looked, View
  <2>. QED  BY <2>1, <2>2, <2>3, <2>4, ExplorerIs DEF IsSeq
<1>3. CASE Loop
  BY <1>3, LoopTakes, TakenIs
<1>4. CASE Agent
  BY <1>4, AppendIs DEF Agent
<1>5. CASE (\E id \in BusyId : Tasks(id)) \/ Pool \/ Elsewhere
  BY <1>5 DEF Tasks, Pool, Elsewhere, queueVars, frontVars
<1>6. CASE UNCHANGED allVars
  BY <1>6 DEF allVars, queueVars, frontVars
<1>. QED  BY <1>1, <1>2, <1>3, <1>4, <1>5, <1>6 DEF FrontendNext

\* Where no editor comes back, no key hands a tab to one.
LEMMA NoEditor ==
    ASSUME NEW drawn, scene \in Scenes, scene.edits = {}, NEW e \in Events(drawn)
    PROVE  ~(~e.mouse /\ e.key.code = "e")
<1>1. CASE e \in {Press(key, None) : key \in scene.keys}
  <2>1. PICK key \in scene.keys : e = Press(key, None)
    BY <1>1
  <2>2. key.code # "e"
    BY FrontendAssumption
  <2>. QED  BY <2>1, <2>2 DEF Press
<1>2. CASE e \in {Click(target) : target \in {t \in Targets(drawn, snap) : t.on \in scene.clicks}}
  BY <1>2 DEF Click
<1>. QED  BY <1>1, <1>2 DEF Events

\* One iteration, of a screen that is what it was.
LEMMA CarriesKeep ==
    ASSUME ScreenInv, NEW u, NEW shown, NEW drawn, NEW burst, Len(burst) \in Nat, ScreenIs(u, minted),
           \A i \in 1 .. Len(burst) : burst[i] \in Events(drawn) /\ IsEvent(burst[i]),
           Carries(u, shown, burst)
    PROVE  /\ scene.edits = {} => Kept(u, ui')
           /\ \A i \in 1 .. Len(CarriedBy(u, shown, burst).out) : IsOrder(CarriedBy(u, shown, burst).out[i], u)
<1>. DEFINE done == CarriedBy(u, shown, burst)
            free == {"SetFilter"}
            both == {"Edit", "SetFilter"}
<1>1. FreshRuns(u, shown, burst) /\ ui' = done.ui
  BY CarriesIs
<1>2. "SetFilter" \in free /\ "SetFilter" \in both /\ "Edit" \notin free /\ "Edit" \in both
  OBVIOUS
<1>3. IsDone(done, minted \cup Minted(OrdersBy(u, shown, burst)))
  BY <1>1, CarriedIs
<1>. HIDE DEF free, both
<1>4. ASSUME scene.edits = {} PROVE Kept(u, ui')
  <2>1. \A i \in 1 .. Len(burst) : ~burst[i].mouse /\ burst[i].key.code = "e" => "Edit" \in free
    BY <1>4, NoEditor DEF ScreenInv
  <2>2. Onward(Just(u), done, u, free)
    BY <1>1, <1>2, <2>1, BurstOnward
  <2>3. Just(u).ui = u
    BY DEF Just
  <2>. QED  BY <1>1, <1>2, <2>2, <2>3 DEF Onward
<1>5. \A i \in 1 .. Len(done.out) : IsOrder(done.out[i], u)
  <2>1. Onward(Just(u), done, u, both)
    BY <1>1, <1>2, BurstOnward
  <2>2. Just(u).out = <<>> /\ Len(<<>>) = 0
    BY EmptyIs DEF Just
  <2>. QED  BY <2>1, <2>2 DEF Onward, Ordered
<1>. QED  BY <1>4, <1>5

\* What is asked for by pressing something, of the screen before.
LEMMA OrdersOfStep ==
    ASSUME FrontInv, Typed \/ Looked
    PROVE  /\ scene.edits = {} => Kept(ui, ui')
           /\ \A i \in Len(inbox) + 1 .. Len(inbox') : \E u : IsOrder(inbox'[i], u) /\ Reasked(ui, u)
<1>. USE DEF FrontInv
<1>0. \E M : ScreenIs(ui, M)
  BY DEF ScreenInv
<1>1. CASE Typed
  <2>1. PICK u, burst : /\ Carries(u, snap, burst)
                        /\ ScreenIs(u, minted) /\ Still(ui, u)
                        /\ Len(burst) \in Nat
                        /\ \A i \in 1 .. Len(burst) : burst[i] \in Events(u) /\ IsEvent(burst[i])
    BY <1>1, TypedIs
  <2>2. Kept(ui, u) /\ Reasked(ui, u)
    BY <1>0, <2>1, ThinnedKept DEF Still, Reasked
  <2>3. ScreenIs(ui', minted')
    BY <2>1, CarriesIs
  <2>4. /\ scene.edits = {} => Kept(u, ui')
        /\ \A i \in 1 .. Len(CarriedBy(u, snap, burst).out) : IsOrder(CarriedBy(u, snap, burst).out[i], u)
    BY <2>1, CarriesKeep
  <2>5. scene.edits = {} => Kept(ui, ui')
    BY <2>1, <2>2, <2>3, <2>4, KeptTrans DEF ScreenInv
  <2>6. \A i \in Len(inbox) + 1 .. Len(inbox') : IsOrder(inbox'[i], u)
    BY <2>1, <2>4, CarriesOut
  <2>. QED  BY <2>2, <2>5, <2>6
<1>2. CASE Looked
  <2>1. PICK drawn, u, burst : /\ Still(ui, drawn)
                               /\ ScreenIs(drawn, minted)
                               /\ Carries(u, snap', burst)
                               /\ ScreenIs(u, minted) /\ Thinned(drawn, u) /\ Reasked(drawn, u)
                               /\ Len(burst) \in Nat
                               /\ \A i \in 1 .. Len(burst) : burst[i] \in Events(drawn) /\ IsEvent(burst[i])
    BY <1>2, LookedIs
  <2>2. Kept(ui, drawn) /\ Kept(drawn, u) /\ Reasked(ui, u)
    BY <1>0, <2>1, ThinnedKept DEF Still, Reasked
  <2>3. ScreenIs(ui', minted')
    BY <2>1, CarriesIs
  <2>4. /\ scene.edits = {} => Kept(u, ui')
        /\ \A i \in 1 .. Len(CarriedBy(u, snap', burst).out) : IsOrder(CarriedBy(u, snap', burst).out[i], u)
    BY <2>1, CarriesKeep
  <2>5. scene.edits = {} => Kept(ui, ui')
    <3>1. Kept(ui, u)
      BY <2>1, <2>2, KeptTrans DEF ScreenInv
    <3>. QED  BY <2>1, <2>3, <2>4, <3>1, KeptTrans DEF ScreenInv
  <2>6. \A i \in Len(inbox) + 1 .. Len(inbox') : IsOrder(inbox'[i], u)
    BY <2>1, <2>4, CarriesOut
  <2>. QED  BY <2>2, <2>5, <2>6
<1>. QED  BY <1>1, <1>2

\* The two properties of one step.
LEMMA LostStep ==
    ASSUME FrontInv, [FrontendNext]_allVars
    PROVE  /\ \A tab \in TabsOf(ui), next \in TabsOf(ui') :
                 (tab.id = next.id /\ tab.text # None /\ scene.edits = {}) => next.text = tab.text
           /\ \A t \in Saved, op \in {"Replace", "Delete"}, i \in Len(inbox) + 1 .. Len(inbox') :
                 inbox'[i] = Action(op, None, t, None) =>
                    ui.modal # None /\ ui.modal.intent = Action(op, None, t, None)
<1>. USE DEF FrontInv
<1>1. CASE Typed \/ Looked
  <2>1. ASSUME NEW tab \in TabsOf(ui), NEW next \in TabsOf(ui'),
               tab.id = next.id, tab.text # None, scene.edits = {}
        PROVE  next.text = tab.text
    <3>1. Kept(ui, ui')
      BY <1>1, <2>1, OrdersOfStep
    <3>2. tab.id <= ui.nextTab
      <4>1. tab.id \in 1 .. ui.nextTab
        BY TabIsTab DEF ScreenInv
      <4>2. ui.nextTab \in Nat
        BY DEF ScreenInv, ScreenIs, TabsOK
      <4>. QED  BY <4>1, <4>2
    <3>3. PICK was \in TabsOf(ui) : was.id = next.id /\ (was.text # None => next.text = was.text)
      BY <2>1, <3>1, <3>2 DEF Kept
    <3>4. was = tab
      BY <2>1, <3>3, OneTab DEF ScreenInv, ScreenIs
    <3>. QED  BY <2>1, <3>3, <3>4
  <2>2. ASSUME NEW t \in Saved, NEW op \in {"Replace", "Delete"}, NEW i \in Len(inbox) + 1 .. Len(inbox'),
               inbox'[i] = Action(op, None, t, None)
        PROVE  ui.modal # None /\ ui.modal.intent = Action(op, None, t, None)
    <3>1. PICK u : IsOrder(inbox'[i], u) /\ Reasked(ui, u)
      BY <1>1, OrdersOfStep
    <3>2. inbox'[i].op = op
      BY <2>2, ActionIs
    <3>3. u.modal # None /\ u.modal.intent # None /\ inbox'[i] = u.modal.intent
      BY <3>1, <3>2 DEF IsOrder, AppOps
    <3>4. u.modal = ui.modal
      BY <3>1, <3>2, <3>3 DEF Reasked
    <3>. QED  BY <2>2, <3>3, <3>4
  <2>. QED  BY <2>1, <2>2
<1>2. CASE Agent
  <2>1. ui' = ui /\ \E a : a.op = "Run" /\ inbox' = Append(inbox, a)
    BY <1>2, ActionIs DEF Agent
  <2>2. PICK a : a.op = "Run" /\ inbox' = Append(inbox, a)
    BY <2>1
  <2>3. Len(inbox) \in Nat /\ Len(inbox') = Len(inbox) + 1 /\ inbox'[Len(inbox) + 1] = a
    BY <2>2, AppendIs DEF IsSeq
  <2>4. \A i \in Len(inbox) + 1 .. Len(inbox') : inbox'[i].op = "Run"
    BY <2>2, <2>3
  <2>5. \A t \in Saved, op \in {"Replace", "Delete"} : Action(op, None, t, None).op # "Run"
    BY ActionIs
  <2>6. \A tab, next \in TabsOf(ui) : tab.id = next.id => tab = next
    BY OneTab DEF ScreenInv, ScreenIs
  <2>. QED  BY <2>1, <2>4, <2>5, <2>6
<1>3. CASE Loop \/ (\E id \in BusyId : Tasks(id)) \/ Pool \/ Elsewhere \/ UNCHANGED allVars
  <2>1. ui' = ui /\ Len(inbox') <= Len(inbox)
    <3>1. CASE Loop
      BY <3>1, LoopTakes, TakenIs
    <3>2. CASE (\E id \in BusyId : Tasks(id)) \/ Pool \/ Elsewhere \/ UNCHANGED allVars
      <4>1. ui' = ui /\ inbox' = inbox
        BY <3>2 DEF Tasks, Pool, Elsewhere, queueVars, frontVars, allVars
      <4>. QED  BY <4>1 DEF IsSeq
    <3>. QED  BY <1>3, <3>1, <3>2
  <2>2. Len(inbox) + 1 .. Len(inbox') = {}
    <3>1. Len(inbox) \in Nat /\ Len(inbox') \in Int
      BY FrontNext DEF IsSeq
    <3>. QED  BY <2>1, <3>1
  <2>3. \A tab, next \in TabsOf(ui) : tab.id = next.id => tab = next
    BY OneTab DEF ScreenInv, ScreenIs
  <2>. QED  BY <2>1, <2>2, <2>3
<1>. QED  BY <1>1, <1>2, <1>3 DEF FrontendNext

\* Nothing somebody wrote or saved is lost unasked: what is in an editor is changed
\* by the editor alone (ui.rs insert), and a template that is there is replaced or
\* deleted only by the answer to the dialog that named it (ui.rs commit_template).
THEOREM NothingLostUnasked == FrontendSpec => NothingIsLostUnasked
<1>1. FrontendInit => FrontInv
  BY FrontInit
<1>2. FrontInv /\ [FrontendNext]_allVars => FrontInv'
  BY FrontNext
<1>3. FrontInv /\ [FrontendNext]_allVars =>
        [\A tab \in TabsOf(ui), next \in TabsOf(ui') :
            (tab.id = next.id /\ tab.text # None /\ scene.edits = {}) => next.text = tab.text]_allVars
  BY LostStep
<1>4. FrontInv /\ [FrontendNext]_allVars =>
        [\A t \in Saved, op \in {"Replace", "Delete"}, i \in Len(inbox) + 1 .. Len(inbox') :
            inbox'[i] = Action(op, None, t, None) =>
               ui.modal # None /\ ui.modal.intent = Action(op, None, t, None)]_allVars
  BY LostStep
<1>. QED  BY <1>1, <1>2, <1>3, <1>4, PTL
     DEF FrontendSpec, NothingIsLostUnasked, WritingIsKept, NamesAreAskedAbout

-----------------------------------------------------------------------------
(* What can be done while a dialog is up.                                    *)

\* The answers to a dialog: it is put away, or what it asked about is ordered.
IsAnswer(x, u) ==
    \/ x = Cmd("CloseMenu", None, None)
    \/ x = Cmd("DismissModal", None, None)
    \/ u.modal.intent # None /\ x = Cmd("App", u.modal.intent, None)

Answers(list, u) == IsSeq(list) /\ \A i \in 1 .. Len(list) : IsAnswer(list[i], u)

LEMMA AnswersJoin ==
    ASSUME NEW s, NEW t, NEW u, Answers(s, u), Answers(t, u)
    PROVE  Answers(s \o t, u)
<1>1. /\ Len(s) \in Nat /\ Len(t) \in Nat
      /\ IsSeq(s \o t) /\ Len(s \o t) = Len(s) + Len(t)
      /\ \A i \in 1 .. Len(s) : (s \o t)[i] = s[i]
      /\ \A i \in 1 .. Len(t) : (s \o t)[Len(s) + i] = t[i]
  BY ConcatIs DEF Answers, IsSeq
<1>2. ASSUME NEW i \in 1 .. Len(s \o t) PROVE IsAnswer((s \o t)[i], u)
  <2>1. CASE i \in 1 .. Len(s)
    BY <1>1, <2>1 DEF Answers
  <2>2. CASE i \notin 1 .. Len(s)
    <3>1. i - Len(s) \in 1 .. Len(t) /\ Len(s) + (i - Len(s)) = i
      BY <1>1, <2>2
    <3>2. (s \o t)[i] = t[i - Len(s)]
      BY <1>1, <3>1
    <3>. QED  BY <3>1, <3>2 DEF Answers
  <2>. QED  BY <2>1, <2>2
<1>. QED  BY <1>1, <1>2 DEF Answers

LEMMA AnswersShort ==
    ASSUME NEW u
    PROVE  /\ Answers(<<>>, u)
           /\ \A x : IsAnswer(x, u) => Answers(<<x>>, u)
<1>1. Answers(<<>>, u)
  BY EmptyIs DEF Answers
<1>2. ASSUME NEW x, IsAnswer(x, u) PROVE Answers(<<x>>, u)
  BY <1>2, OneIs DEF Answers
<1>. QED  BY <1>1, <1>2

\* A key under a dialog.
LEMMA KeyAnswers ==
    ASSUME NEW u, NEW shown, NEW key, NEW fresh, NEW edited, u.modal # None, u.focus \in {"Explorer", "Grid"}
    PROVE  Answers(OnKey(u, shown, key, fresh, edited), u)
<1>. DEFINE list == OnKey(u, shown, key, fresh, edited)
            kinds == KindOf(u, key)
            kind == CHOOSE kind \in kinds : TRUE
            first == ViewIntents(kind, key, u, shown)
            second == ActingIntents(kind, key, u, shown, fresh, edited)
<1>1. CASE kinds = {}
  <2>1. list = <<>>
    BY <1>1 DEF OnKey
  <2>. QED  BY <2>1, AnswersShort
<1>2. CASE kinds # {}
  <2>1. list = first \o second
    BY <1>2 DEF OnKey, Materialise
  <2>2. kind \in ModalKinds
    <3>1. kind \in kinds
      BY <1>2
    <3>. HIDE DEF kind
    <3>. QED  BY <3>1, KindIs
  <2>. HIDE DEF list, kind
  <2>3. Answers(first, u) /\ Answers(second, u)
    <3>1. CASE kind = "DismissModal"
      <4>1. first = <<Cmd("DismissModal", None, None)>>
        BY <3>1 DEF ViewIntents
      <4>2. second = <<>>
        BY <3>1 DEF ActingIntents
      <4>. HIDE DEF first, second
      <4>. QED  BY <4>1, <4>2, AnswersShort DEF IsAnswer
    <3>2. CASE kind = "ApproveQuery"
      <4>1. first = <<>>
        BY <3>2 DEF ViewIntents
      <4>2. second = IF u.modal.intent = None THEN <<>> ELSE <<Cmd("App", u.modal.intent, None)>>
        BY <3>2 DEF ActingIntents
      <4>. HIDE DEF first, second
      <4>. QED  BY <4>1, <4>2, AnswersShort DEF IsAnswer
    <3>. QED  BY <2>2, <3>1, <3>2 DEF ModalKinds
  <2>. HIDE DEF first, second
  <2>4. Answers(first \o second, u)
    BY <2>3, AnswersJoin
  <2>. QED  BY <2>1, <2>4 DEF list
<1>. QED  BY <1>1, <1>2

\* A click on a dialog.
LEMMA ClickAnswers ==
    ASSUME NEW u, NEW shown, NEW target, NEW fresh, u.modal # None,
           target.on \in {"Backdrop", "DismissModal", "ModalChoice"}
    PROVE  Answers(OnMouse(u, shown, target, fresh), u)
<1>. DEFINE pane == PaneGesture(u, shown, target)
            button == ButtonGesture(u, shown, target, fresh)
            close == <<Cmd("CloseMenu", None, None)>>
<1>1. OnMouse(u, shown, target, fresh) \in {pane \o button, close \o (pane \o button)}
  BY DEF OnMouse
<1>2. Answers(pane, u)
  <2>1. pane = <<>>
    BY DEF PaneGesture
  <2>. QED  BY <2>1, AnswersShort
<1>3. Answers(button, u)
  <2>1. \/ button = <<Cmd("DismissModal", None, None)>>
        \/ button = <<>>
        \/ u.modal.intent # None /\ button = <<Cmd("App", u.modal.intent, None)>>
    <3>1. CASE target.on = "Backdrop"
      BY <3>1 DEF ButtonGesture
    <3>2. CASE target.on = "DismissModal"
      BY <3>2 DEF ButtonGesture
    <3>3. CASE target.on = "ModalChoice"
      BY <3>3 DEF ButtonGesture
    <3>. QED  BY <3>1, <3>2, <3>3
  <2>. HIDE DEF button
  <2>. QED  BY <2>1, AnswersShort DEF IsAnswer
<1>4. Answers(close, u)
  BY AnswersShort DEF IsAnswer
<1>. HIDE DEF pane, button, close
<1>5. Answers(pane \o button, u)
  BY <1>2, <1>3, AnswersJoin
<1>6. Answers(close \o (pane \o button), u)
  BY <1>4, <1>5, AnswersJoin
<1>. QED  BY <1>1, <1>5, <1>6

LEMMA EventAnswers ==
    ASSUME NEW u, NEW M, NEW e \in Events(u), NEW i, ScreenIs(u, M), u.modal # None
    PROVE  Answers(Intents(u, snap, e, i), u)
<1>1. CASE ~e.mouse
  <2>1. Intents(u, snap, e, i) = OnKey(u, snap, e.key, Fresh(i), e.edited)
    BY <1>1 DEF Intents
  <2>. QED  BY <2>1, KeyAnswers DEF ScreenIs
<1>2. CASE e.mouse
  <2>1. Intents(u, snap, e, i) = OnMouse(u, snap, e.target, Fresh(i))
    BY <1>2 DEF Intents
  <2>2. PICK target \in Targets(u, snap) : e = Click(target)
    BY <1>2 DEF Events, Press
  <2>3. e.target = target
    BY <2>2 DEF Click
  <2>4. target.on \in {"Backdrop", "DismissModal", "ModalChoice"}
    BY <2>2 DEF Targets, Target
  <2>. QED  BY <2>1, <2>3, <2>4, ClickAnswers
<1>. QED  BY <1>1, <1>2

\* What is behind a dialog, and what the screen has asked for.
Unmoved(u, next) ==
    /\ IsScreen(next)
    /\ next.tabs = u.tabs /\ next.active = u.active /\ next.selected = u.selected
    /\ next.filter = u.filter /\ next.palette = u.palette

Behind(u, d) ==
    /\ d = [ui |-> d.ui, out |-> d.out]
    /\ Unmoved(u, d.ui)
    /\ IsSeq(d.out)
    /\ \A i \in 1 .. Len(d.out) : d.out[i] = u.modal.intent

LEMMA AnswerCarried ==
    ASSUME NEW u, NEW d, NEW shown, NEW x, ModalOK(u), u.modal # None, Behind(u, d), IsAnswer(x, u)
    PROVE  Behind(u, Carry(d, shown, x))
<1>1. CASE x = Cmd("CloseMenu", None, None)
  <2>1. x.cmd = "CloseMenu"
    BY <1>1 DEF Cmd
  <2>. DEFINE next == [d.ui EXCEPT !.menu = FALSE]
  <2>2. Carry(d, shown, x) = [ui |-> next, out |-> d.out \o <<>>]
    <3>1. ApplyView(d.ui, shown, x) = Just(next)
      BY <2>1 DEF ApplyView
    <3>. HIDE DEF next
    <3>2. x.cmd \in PaneCommands
      BY <2>1 DEF PaneCommands
    <3>3. LET done == ApplyView(d.ui, shown, x)
          IN Carry(d, shown, x) = [ui |-> done.ui, out |-> d.out \o done.out]
      BY <3>2, CarryView
    <3>4. Just(next).ui = next /\ Just(next).out = <<>>
      BY DEF Just
    <3>. QED  BY <3>1, <3>3, <3>4
  <2>3. Unmoved(u, next)
    BY DEF Behind, Unmoved, IsScreen, ScreenFields
  <2>. HIDE DEF next
  <2>4. d.out \o <<>> = d.out
    <3>1. d.out \in Seq(In(d.out))
      BY SeqOf DEF Behind
    <3>. QED  BY <3>1
  <2>. QED  BY <2>2, <2>3, <2>4 DEF Behind
<1>2. CASE x = Cmd("DismissModal", None, None)
  <2>1. x.cmd = "DismissModal"
    BY <1>2 DEF Cmd
  <2>. DEFINE next == [d.ui EXCEPT !.modal = None]
  <2>2. Carry(d, shown, x) = [ui |-> next, out |-> d.out \o <<>>]
    <3>1. ApplyView(d.ui, shown, x) = Just(next)
      BY <2>1 DEF ApplyView
    <3>. HIDE DEF next
    <3>2. x.cmd \in PaneCommands
      BY <2>1 DEF PaneCommands
    <3>3. LET done == ApplyView(d.ui, shown, x)
          IN Carry(d, shown, x) = [ui |-> done.ui, out |-> d.out \o done.out]
      BY <3>2, CarryView
    <3>4. Just(next).ui = next /\ Just(next).out = <<>>
      BY DEF Just
    <3>. QED  BY <3>1, <3>3, <3>4
  <2>3. Unmoved(u, next)
    BY DEF Behind, Unmoved, IsScreen, ScreenFields
  <2>. HIDE DEF next
  <2>4. d.out \o <<>> = d.out
    <3>1. d.out \in Seq(In(d.out))
      BY SeqOf DEF Behind
    <3>. QED  BY <3>1
  <2>. QED  BY <2>2, <2>3, <2>4 DEF Behind
<1>3. CASE u.modal.intent # None /\ x = Cmd("App", u.modal.intent, None)
  <2>1. x.cmd = "App" /\ x.at = u.modal.intent /\ x.at.op # "Run"
    BY <1>3 DEF Cmd, ModalOK
  <2>2. Carry(d, shown, x) = [ui |-> d.ui, out |-> Append(d.out, u.modal.intent)]
    BY <2>1 DEF Carry, Behind
  <2>. DEFINE next == Append(d.out, u.modal.intent)
  <2>3. IsSeq(next) /\ \A i \in 1 .. Len(next) : next[i] = u.modal.intent
    <3>1. /\ IsSeq(next) /\ Len(next) = Len(d.out) + 1 /\ Len(d.out) \in Nat
          /\ \A i \in 1 .. Len(d.out) : next[i] = d.out[i]
          /\ next[Len(d.out) + 1] = u.modal.intent
      BY AppendIs DEF Behind, IsSeq
    <3>. HIDE DEF next
    <3>. QED  BY <3>1 DEF Behind
  <2>. HIDE DEF next
  <2>. QED  BY <2>2, <2>3 DEF Behind, next
<1>. QED  BY <1>1, <1>2, <1>3 DEF IsAnswer

LEMMA AnswersCarried ==
    ASSUME NEW u, NEW d, NEW shown, NEW list, ModalOK(u), u.modal # None, Behind(u, d), Answers(list, u)
    PROVE  Behind(u, CarryAll(d, shown, list))
<1>1. Len(list) \in Nat
  BY DEF Answers, IsSeq
<1>2. PICK after : /\ after[0] = d
                   /\ \A k \in 1 .. Len(list) : after[k] = Carry(after[k - 1], shown, list[k])
                   /\ CarryAll(d, shown, list) = after[Len(list)]
  BY <1>1, CarryAllSteps
<1>. DEFINE Good == {k \in 0 .. Len(list) : Behind(u, after[k])}
<1>3. 0 \in Good
  BY <1>1, <1>2
<1>4. ASSUME NEW k \in 1 .. Len(list), k - 1 \in Good PROVE k \in Good
  <2>1. Behind(u, after[k - 1]) /\ IsAnswer(list[k], u)
    BY <1>4 DEF Answers
  <2>2. Behind(u, after[k])
    BY <1>2, <2>1, AnswerCarried
  <2>. QED  BY <1>1, <2>2
<1>5. 0 .. Len(list) \subseteq Good
  BY <1>1, <1>3, <1>4, InductTo
<1>. QED  BY <1>1, <1>2, <1>5

LEMMA BurstAnswers ==
    ASSUME NEW u, NEW M, NEW burst, Len(burst) \in Nat, ScreenIs(u, M), u.modal # None,
           \A i \in 1 .. Len(burst) : burst[i] \in Events(u)
    PROVE  Behind(u, CarriedBy(u, snap, burst))
<1>1. PICK after : /\ after[0] = Just(u)
                   /\ \A k \in 1 .. Len(burst) :
                         after[k] = CarryAll(after[k - 1], snap, Intents(u, snap, burst[k], k))
                   /\ CarriedBy(u, snap, burst) = after[Len(burst)]
  BY CarriedSteps
<1>. DEFINE Good == {k \in 0 .. Len(burst) : Behind(u, after[k])}
<1>2. 0 \in Good
  <2>1. Behind(u, Just(u))
    BY EmptyIs DEF Behind, Just, Unmoved, ScreenIs
  <2>. QED  BY <1>1, <2>1
<1>3. ASSUME NEW k \in 1 .. Len(burst), k - 1 \in Good PROVE k \in Good
  <2>. DEFINE list == Intents(u, snap, burst[k], k)
  <2>1. Answers(list, u)
    BY EventAnswers
  <2>. HIDE DEF list
  <2>2. Behind(u, CarryAll(after[k - 1], snap, list))
    BY <1>3, <2>1, AnswersCarried DEF ScreenIs
  <2>3. Behind(u, after[k])
    BY <1>1, <2>2 DEF list
  <2>. QED  BY <2>3
<1>4. 0 .. Len(burst) \subseteq Good
  BY <1>2, <1>3, InductTo
<1>. QED  BY <1>1, <1>4

\* Drawing moves nothing.
LEMMA MeasuredUnmoved ==
    ASSUME NEW u, NEW shown, IsScreen(u)
    PROVE  Measured(u, shown).selected = u.selected
<1>. DEFINE other == [u EXCEPT !.sqlLines = 1]
            grid == [GridOf(u, u.active) EXCEPT !.offset = Least(@, 1 - 1)]
<1>1. Measured(u, shown) \in {u, WithGrid(other, u.active, grid)}
  BY DEF Measured
<1>2. IsScreen(other) /\ other.selected = u.selected
  BY DEF IsScreen, ScreenFields
<1>. HIDE DEF other, grid
<1>3. WithGrid(other, u.active, grid).selected = other.selected
  BY <1>2 DEF WithGrid, IsScreen, ScreenFields
<1>. QED  BY <1>1, <1>2, <1>3

LEMMA DialogStep ==
    ASSUME FrontInv, [FrontendNext]_allVars, ui.modal # None, published' = published
    PROVE  /\ <<ui.tabs, ui.active, ui.selected, ui.filter, ui.palette>>
                = <<ui'.tabs, ui'.active, ui'.selected, ui'.filter, ui'.palette>>
           /\ presses' # presses =>
                \A i \in Len(inbox) + 1 .. Len(inbox') : inbox'[i] = ui.modal.intent
<1>1. CASE Typed
  <2>1. PICK u, burst : /\ u = Measured(ui, snap)
                        /\ Carries(u, snap, burst)
                        /\ ScreenIs(u, minted) /\ Still(ui, u)
                        /\ Len(burst) \in Nat
                        /\ \A i \in 1 .. Len(burst) : burst[i] \in Events(u) /\ IsEvent(burst[i])
    BY <1>1, TypedIs DEF FrontInv
  <2>2. u.selected = ui.selected
    BY <2>1, MeasuredUnmoved DEF FrontInv, ScreenInv, ScreenIs
  <2>. DEFINE done == CarriedBy(u, snap, burst)
  <2>3. u.modal = ui.modal
    BY <2>1 DEF Still
  <2>4. Behind(u, done)
    BY <2>1, <2>3, BurstAnswers
  <2>5. ui' = done.ui
    BY <2>1, CarriesIs
  <2>6. \A i \in Len(inbox) + 1 .. Len(inbox') :
           i - Len(inbox) \in 1 .. Len(done.out) /\ inbox'[i] = done.out[i - Len(inbox)]
    BY <2>1, CarriesOut DEF FrontInv
  <2>. HIDE DEF done
  <2>7. Unmoved(ui, ui')
    BY <2>1, <2>2, <2>4, <2>5 DEF Behind, Unmoved, Still
  <2>8. \A i \in Len(inbox) + 1 .. Len(inbox') : inbox'[i] = ui.modal.intent
    BY <2>3, <2>4, <2>6 DEF Behind
  <2>. QED  BY <2>7, <2>8 DEF Unmoved
<1>2. CASE Looked
  BY <1>2 DEF Looked
<1>3. CASE Loop
  BY <1>3, LoopTakes
<1>4. CASE Agent \/ (\E id \in BusyId : Tasks(id)) \/ Pool \/ Elsewhere \/ UNCHANGED allVars
  BY <1>4 DEF Agent, Tasks, Pool, Elsewhere, frontVars, allVars
<1>. QED  BY <1>1, <1>2, <1>3, <1>4 DEF FrontendNext

\* A dialog takes every key and every click: until it is answered or put away,
\* nothing behind it moves, opens, closes or is typed into, and all that is asked of
\* the store is what it offers (input.rs key_context).
THEOREM NothingMoves == FrontendSpec => NothingMovesBehindADialog
<1>1. FrontendInit => FrontInv
  BY FrontInit
<1>2. FrontInv /\ [FrontendNext]_allVars => FrontInv'
  BY FrontNext
<1>3. FrontInv /\ [FrontendNext]_allVars =>
        [(ui.modal # None /\ published' = published) =>
           /\ <<ui.tabs, ui.active, ui.selected, ui.filter, ui.palette>>
                = <<ui'.tabs, ui'.active, ui'.selected, ui'.filter, ui'.palette>>
           /\ presses' # presses =>
                \A i \in Len(inbox) + 1 .. Len(inbox') : inbox'[i] = ui.modal.intent]_allVars
  BY DialogStep
<1>. QED  BY <1>1, <1>2, <1>3, PTL DEF FrontendSpec, NothingMovesBehindADialog

-----------------------------------------------------------------------------
(* The selection and the search.                                             *)

\* A snapshot leaves the selection where it is.
LEMMA PreviewErrorSteady ==
    ASSUME NEW u, NEW shown, NEW tab, IsScreen(u)
    PROVE  RaisePreviewError(u, shown, tab).selected = u.selected
<1>. DEFINE forget(held) == [u EXCEPT !.previewErrors = @ \ held]
            tell(held, told) == [u EXCEPT !.previewErrors = (@ \ held) \cup {told}]
<1>1. ASSUME NEW held, NEW told
      PROVE  /\ forget(held).selected = u.selected
             /\ Toasted(tell(held, told), tab.item).selected = u.selected
  BY DEF IsScreen, ScreenFields, Toasted
<1>2. \E held, told : RaisePreviewError(u, shown, tab) \in {u, forget(held), Toasted(tell(held, told), tab.item)}
  BY DEF RaisePreviewError
<1>. HIDE DEF forget, tell
<1>. QED  BY <1>1, <1>2

LEMMA QueryErrorSteady ==
    ASSUME NEW u, NEW shown, NEW tab, IsScreen(u)
    PROVE  RaiseQueryError(u, shown, tab).selected = u.selected
<1>1. [u EXCEPT !.queryErrors = @ \cup {tab.query}].selected = u.selected
  BY DEF IsScreen, ScreenFields
<1>2. Toasted([u EXCEPT !.queryErrors = @ \cup {tab.query}], tab.query).selected = u.selected
  BY DEF IsScreen, ScreenFields, Toasted
<1>. QED  BY <1>2 DEF RaiseQueryError

LEMMA ErrorsSteady ==
    ASSUME NEW u, NEW M, NEW shown, ScreenIs(u, M)
    PROVE  /\ RaisePreviewErrors(u, shown).selected = u.selected
           /\ RaiseQueryErrors(u, shown).selected = u.selected
<1>1. Len(u.tabs) \in Nat /\ IsScreen(u)
  BY DEF ScreenIs, TabsOK, IsSeq
<1>. DEFINE Like(next) == IsScreen(next) /\ next.selected = u.selected
<1>2. Like(RaisePreviewErrors(u, shown))
  <2>1. PICK after : /\ after[0] = u
                     /\ \A k \in 1 .. Len(u.tabs) :
                           after[k] = RaisePreviewError(after[k - 1], shown, u.tabs[k])
                     /\ RaisePreviewErrors(u, shown) = after[Len(u.tabs)]
    BY <1>1, PreviewErrorSteps
  <2>. DEFINE Good == {k \in 0 .. Len(u.tabs) : Like(after[k])}
  <2>2. ASSUME NEW k \in 1 .. Len(u.tabs), k - 1 \in Good PROVE k \in Good
    <3>1. IsScreen(after[k - 1]) /\ after[k - 1].selected = u.selected
      BY <2>2
    <3>2. IsScreen(after[k]) /\ after[k].selected = after[k - 1].selected
      BY <2>1, <3>1, RaisePreviewErrorIs, PreviewErrorSteady DEF Still
    <3>. QED  BY <3>1, <3>2
  <2>3. 0 \in Good
    BY <1>1, <2>1
  <2>4. 0 .. Len(u.tabs) \subseteq Good
    BY <1>1, <2>2, <2>3, InductTo
  <2>. QED  BY <1>1, <2>1, <2>4
<1>3. Like(RaiseQueryErrors(u, shown))
  <2>1. PICK after : /\ after[0] = u
                     /\ \A k \in 1 .. Len(u.tabs) :
                           after[k] = RaiseQueryError(after[k - 1], shown, u.tabs[k])
                     /\ RaiseQueryErrors(u, shown) = after[Len(u.tabs)]
    BY <1>1, QueryErrorSteps
  <2>. DEFINE Good == {k \in 0 .. Len(u.tabs) : Like(after[k])}
  <2>2. ASSUME NEW k \in 1 .. Len(u.tabs), k - 1 \in Good PROVE k \in Good
    <3>1. IsScreen(after[k - 1]) /\ after[k - 1].selected = u.selected
      BY <2>2
    <3>2. IsScreen(after[k]) /\ after[k].selected = after[k - 1].selected
      BY <2>1, <3>1, RaiseQueryErrorIs, QueryErrorSteady DEF Still
    <3>. QED  BY <3>1, <3>2
  <2>3. 0 \in Good
    BY <1>1, <2>1
  <2>4. 0 .. Len(u.tabs) \subseteq Good
    BY <1>1, <2>2, <2>3, InductTo
  <2>. QED  BY <1>1, <2>1, <2>4
<1>. QED  BY <1>2, <1>3

LEMMA CloseSteady ==
    ASSUME NEW u, NEW id, IsScreen(u)
    PROVE  CloseTab(u, id).selected = u.selected
<1>1. WithoutGrid(u, id).selected = u.selected /\ IsScreen(WithoutGrid(u, id))
  BY DEF WithoutGrid, IsScreen, ScreenFields
<1>2. \A tabs, active :
         [WithoutGrid(u, id) EXCEPT !.tabs = tabs, !.active = active].selected = u.selected
  BY <1>1 DEF IsScreen, ScreenFields
<1>3. \/ CloseTab(u, id) = WithoutGrid(u, id)
      \/ \E tabs, active : CloseTab(u, id) = [WithoutGrid(u, id) EXCEPT !.tabs = tabs, !.active = active]
  BY DEF CloseTab
<1>. QED  BY <1>1, <1>2, <1>3

LEMMA DisconnectedSteady ==
    ASSUME NEW u, NEW M, NEW shown, ScreenIs(u, M)
    PROVE  CloseDisconnected(u, shown).selected = u.selected
<1>1. Len(u.tabs) \in Nat
  BY DEF ScreenIs, TabsOK, IsSeq
<1>2. PICK after : /\ after[0] = u
                   /\ \A k \in 1 .. Len(u.tabs) :
                         after[k] = (IF u.tabs[k].kind = "Preview" /\ shown.conns[u.tabs[k].conn].status = "Closed"
                                     THEN CloseTab(after[k - 1], u.tabs[k].id) ELSE after[k - 1])
                   /\ CloseDisconnected(u, shown) = after[Len(u.tabs)]
  BY <1>1, CloseSteps
<1>. DEFINE Like(next) == ScreenIs(next, M) /\ next.selected = u.selected
            Good == {k \in 0 .. Len(u.tabs) : Like(after[k])}
<1>3. ASSUME NEW k \in 1 .. Len(u.tabs), k - 1 \in Good PROVE k \in Good
  <2>1. ScreenIs(after[k - 1], M) /\ IsScreen(after[k - 1]) /\ after[k - 1].selected = u.selected
    BY <1>3 DEF ScreenIs
  <2>2. ASSUME NEW id PROVE Like(CloseTab(after[k - 1], id))
    BY <2>1, CloseTabIs, CloseSteady
  <2>3. Like(after[k])
    <3>. HIDE DEF Like
    <3>1. Like(after[k - 1])
      BY <2>1 DEF Like
    <3>. QED  BY <1>2, <2>2, <3>1
  <2>. QED  BY <2>3
<1>4. 0 \in Good
  BY <1>1, <1>2
<1>5. 0 .. Len(u.tabs) \subseteq Good
  BY <1>1, <1>3, <1>4, InductTo
<1>. QED  BY <1>1, <1>2, <1>5

LEMMA RaisedSteady ==
    ASSUME NEW u, NEW M, NEW shown, ScreenIs(u, M)
    PROVE  Raised(u, shown).selected = u.selected
<1>. DEFINE a == RaiseConnectionFailure(u, shown)
            b == RaisePreviewErrors(a, shown)
            c == RaiseApprovals(b, shown)
            e == RaiseQueryErrors(c, shown)
            f == CloseDisconnected(e, shown)
<1>1. ScreenIs(a, M) /\ a.selected = u.selected
  <2>1. \A x, y : [u EXCEPT !.failures = x, !.menu = FALSE, !.modal = y].selected = u.selected
    BY DEF ScreenIs, IsScreen, ScreenFields
  <2>2. a = u \/ \E x, y : a = [u EXCEPT !.failures = x, !.menu = FALSE, !.modal = y]
    BY DEF RaiseConnectionFailure
  <2>. QED  BY <2>1, <2>2, RaiseFailureIs
<1>. HIDE DEF a
<1>2. ScreenIs(b, M) /\ b.selected = a.selected
  BY <1>1, RaiseErrorsAre, StillThinned, ErrorsSteady
<1>. HIDE DEF b
<1>3. ScreenIs(c, M) /\ c.selected = b.selected
  <2>1. /\ \A x, y : [b EXCEPT !.askedApproval = x, !.menu = FALSE, !.modal = y].selected = b.selected
        /\ [b EXCEPT !.modal = None].selected = b.selected
    BY <1>2 DEF ScreenIs, IsScreen, ScreenFields
  <2>2. \/ c = b \/ c = [b EXCEPT !.modal = None]
        \/ \E x, y : c = [b EXCEPT !.askedApproval = x, !.menu = FALSE, !.modal = y]
    <3>. DEFINE asking == First(QuerySeq, {q \in Mine(b) \ b.askedApproval : shown.queries[q].needs})
                other == [b EXCEPT !.askedApproval = @ \cup {asking}, !.menu = FALSE,
                                   !.modal = Dialog("question", asking, Action("Approve", None, asking, None))]
    <3>1. c = IF asking # None THEN other
              ELSE IF b.modal # None /\ b.modal.intent # None THEN [b EXCEPT !.modal = None]
              ELSE b
      BY DEF RaiseApprovals
    <3>2. \E x, y : other = [b EXCEPT !.askedApproval = x, !.menu = FALSE, !.modal = y]
      <4>. HIDE DEF asking
      <4>. QED  OBVIOUS
    <3>. HIDE DEF other, asking, c
    <3>. QED  BY <3>1, <3>2
  <2>3. ScreenIs(c, M)
    BY <1>2, RaiseApprovalsIs
  <2>4. c.selected = b.selected
    <3>. HIDE DEF c
    <3>1. CASE c = b
      BY <3>1
    <3>2. CASE c = [b EXCEPT !.modal = None]
      BY <2>1, <3>2
    <3>3. CASE \E x, y : c = [b EXCEPT !.askedApproval = x, !.menu = FALSE, !.modal = y]
      <4>1. PICK x, y : c = [b EXCEPT !.askedApproval = x, !.menu = FALSE, !.modal = y]
        BY <3>3
      <4>2. [b EXCEPT !.askedApproval = x, !.menu = FALSE, !.modal = y].selected = b.selected
        BY <2>1
      <4>. QED  BY <4>1, <4>2
    <3>. QED  BY <2>2, <3>1, <3>2, <3>3
  <2>. QED  BY <2>3, <2>4
<1>. HIDE DEF c
<1>4. ScreenIs(e, M) /\ e.selected = c.selected
  BY <1>3, RaiseErrorsAre, StillThinned, ErrorsSteady
<1>. HIDE DEF e
<1>5. f.selected = e.selected
  BY <1>4, DisconnectedSteady
<1>6. Raised(u, shown) = f
  BY DEF Raised, a, b, c, e
<1>. HIDE DEF f
<1>. QED  BY <1>1, <1>2, <1>3, <1>4, <1>5, <1>6

\* What a change of the search does to the selection.
Followed(u, next, shown) ==
    (/\ NodeAt(u, shown, u.selected) # None
     /\ \E row \in 0 .. Len(Seen(next, shown)) :
           NodeAt(next, shown, row) = NodeAt(u, shown, u.selected)) =>
       NodeAt(next, shown, next.selected) = NodeAt(u, shown, u.selected)

LEMMA FilterFollows ==
    ASSUME NEW u, NEW shown, NEW box, IsScreen(u), Len(shown.explorer) \in Nat
    PROVE  Followed(u, SetFilter(u, shown, box), shown)
<1>. DEFINE was == NodeAt(u, shown, u.selected)
            mid == [u EXCEPT !.filter = box]
            seen == Seen(mid, shown)
            now == Seqs!SelectInSeq(seen, LAMBDA k : shown.explorer[k] = was)
            next == SetFilter(u, shown, box)
<1>1. Len(seen) \in Nat /\ None \notin Nat
  <2>. HIDE DEF mid
  <2>. QED  BY SeenIs, ScreenAssumption
<1>2. IsScreen(mid) /\ mid.filter = box
  BY DEF IsScreen, ScreenFields
<1>3. SUFFICES ASSUME was # None, NEW row \in 0 .. Len(Seen(next, shown)), NodeAt(next, shown, row) = was
               PROVE  NodeAt(next, shown, next.selected) = was
  BY DEF Followed
<1>4. ASSUME NEW index
      PROVE  SelectTreeRow(mid, shown, index).filter = box
  <2>. HIDE DEF mid
  <2>. QED  BY <1>2, SelectTreeRowIs DEF Still
<1>5. next = IF was # None /\ now > 0 THEN SelectTreeRow(mid, shown, now - 1)
             ELSE SelectTreeRow(mid, shown, 0)
  BY DEF SetFilter
<1>6. Seen(next, shown) = seen
  <2>1. next.filter = box
    <3>. HIDE DEF next, mid, now, was
    <3>. QED  BY <1>4, <1>5
  <2>. HIDE DEF next, mid
  <2>2. mid.filter = box
    BY <1>2
  <2>. QED  BY <2>1, <2>2 DEF Seen, seen
<1>. DEFINE I == {i \in 1 .. Len(seen) : shown.explorer[seen[i]] = was}
<1>7. row + 1 \in I
  <2>1. row < Len(seen) /\ shown.explorer[seen[row + 1]] = was
    <3>. HIDE DEF next, seen, was
    <3>. QED  BY <1>3, <1>6 DEF NodeAt
  <2>. HIDE DEF seen, was
  <2>. QED  BY <1>1, <1>3, <1>6, <2>1
<1>8. now \in I /\ \A i \in I : now <= i
  <2>1. now = CHOOSE i \in I : \A k \in I : i <= k
    <3>1. now = IF I # {} THEN Seqs!Min(I) ELSE 0
      BY DEF Seqs!SelectInSeq
    <3>. HIDE DEF now, I
    <3>. QED  BY <1>7, <3>1 DEF Seqs!Min
  <2>2. I \in SUBSET Nat
    <3>. HIDE DEF seen, was
    <3>. QED  BY <1>1
  <2>. HIDE DEF now, I
  <2>3. \E i \in I : \A k \in I : i <= k
    BY <1>7, <2>2, LeastExists
  <2>. QED  BY <2>1, <2>3
<1>9. now \in 1 .. Len(seen) /\ shown.explorer[seen[now]] = was
  <2>. HIDE DEF now, seen, was
  <2>. QED  BY <1>8
<1>10. next = SelectTreeRow(mid, shown, now - 1)
  <2>. HIDE DEF next, now, mid, was, seen
  <2>. QED  BY <1>1, <1>3, <1>5, <1>9
<1>11. next.selected = now - 1
  <2>. HIDE DEF now, mid
  <2>1. SelectTreeRow(mid, shown, now - 1) =
          [mid EXCEPT !.selected = Least(now - 1, Len(seen) - 1),
                      !.treeOffset = ScrollIntoView(@, Least(now - 1, Len(seen) - 1), Height)]
    <3>. HIDE DEF next
    <3>1. Len(seen) # 0
      <4>. HIDE DEF seen
      <4>. QED  BY <1>1, <1>9
    <3>. QED  BY <3>1 DEF SelectTreeRow
  <2>. HIDE DEF seen, next
  <2>2. Least(now - 1, Len(seen) - 1) = now - 1
    BY <1>1, <1>9 DEF Least
  <2>. QED  BY <1>2, <1>10, <2>1, <2>2 DEF IsScreen, ScreenFields
<1>. HIDE DEF next, now, seen, was
<1>12. next.selected # None /\ next.selected < Len(seen) /\ next.selected + 1 = now
  BY <1>1, <1>9, <1>11
<1>. QED  BY <1>6, <1>9, <1>12 DEF NodeAt

-----------------------------------------------------------------------------
(* The selection follows its node through every step.                        *)

\* An event that is not one for the explorer's search leaves the search alone.
Filters(u, e) == \/ ~e.mouse /\ FilterKey(u, e.key)
                 \/ e.mouse /\ e.target.on = "Filter"

LEMMA FilterStays ==
    ASSUME NEW u, NEW M, NEW d, NEW shown, NEW list, NEW q, NEW may, ModalOK(u), IsDone(d, M),
           Intended(list, u, q, may), OneRun(list), "SetFilter" \notin may,
           \A k \in 1 .. Len(list) : IsRun(list[k]) => q \notin M \cup {None}
    PROVE  CarryAll(d, shown, list).ui.filter = d.ui.filter
<1>1. PICK after : /\ Carries2(d, M, list, after)
                   /\ CarryAll(d, shown, list) = after[Len(list)]
  BY CarryAllIs
<1>2. Len(list) \in Nat
  BY DEF Intended, IsSeq
<1>. DEFINE Good == {k \in 0 .. Len(list) : after[k].ui.filter = d.ui.filter}
<1>3. 0 \in Good
  BY <1>1, <1>2 DEF Carries2
<1>4. ASSUME NEW k \in 1 .. Len(list), k - 1 \in Good PROVE k \in Good
  <2>1. list[k].cmd # "SetFilter"
    <3>1. IsIntent(list[k], u, q, may)
      BY DEF Intended
    <3>. QED  BY <3>1 DEF IsIntent, IsRun
  <2>2. after[k].ui.filter = after[k - 1].ui.filter
    BY <1>1, <2>1 DEF Carries2
  <2>3. after[k - 1].ui.filter = d.ui.filter
    BY <1>4
  <2>. QED  BY <1>2, <2>2, <2>3
<1>5. 0 .. Len(list) \subseteq Good
  BY <1>2, <1>3, <1>4, InductTo
<1>. QED  BY <1>1, <1>2, <1>5

\* What an event comes to that is for the search.
Two(list, x, y) == Len(list) = 2 /\ list[1] = x /\ list[2] = y

FilterList(u, list) ==
    \E with : \/ list = <<>>
              \/ list = <<Cmd("SetFilter", None, with)>>
              \/ list = <<Cmd("SetHistoryTerms", None, with)>>
              \/ Two(list, Cmd("CloseMenu", None, None), Cmd("SetFilter", None, with))
              \/ list = <<Cmd("CloseMenu", None, None)>>

LEMMA FilterListIs ==
    ASSUME NEW u, NEW shown, NEW e, NEW i, Filters(u, e)
    PROVE  FilterList(u, Intents(u, shown, e, i))
<1>. DEFINE list == Intents(u, shown, e, i)
<1>1. CASE ~e.mouse
  <2>. DEFINE kinds == KindOf(u, e.key)
              kind == CHOOSE kind \in kinds : TRUE
              cmd == IF HistoryBox(u) = None THEN "SetFilter" ELSE "SetHistoryTerms"
              with == NextBox(Box(u), e.key)
  <2>1. kinds # {} /\ kind = "Filter"
    BY <1>1 DEF Filters, FilterKey
  <2>2. list = Materialise(kind, e.key, u, shown, Fresh(i), e.edited)
    BY <1>1, <2>1 DEF Intents, OnKey
  <2>. HIDE DEF kind
  <2>3. ViewIntents(kind, e.key, u, shown) = <<Cmd(cmd, None, with)>>
    BY <2>1 DEF ViewIntents
  <2>4. ActingIntents(kind, e.key, u, shown, Fresh(i), e.edited) = <<>>
    BY <2>1 DEF ActingIntents
  <2>5. list = <<Cmd(cmd, None, with)>> \o <<>>
    BY <2>2, <2>3, <2>4 DEF Materialise
  <2>6. <<Cmd(cmd, None, with)>> \o <<>> = <<Cmd(cmd, None, with)>>
    <3>. HIDE DEF cmd, with
    <3>. QED  OBVIOUS
  <2>7. list = <<Cmd("SetFilter", None, with)>> \/ list = <<Cmd("SetHistoryTerms", None, with)>>
    <3>. HIDE DEF list, with
    <3>. QED  BY <2>5, <2>6
  <2>. HIDE DEF list, with
  <2>8. FilterList(u, list)
    BY <2>7 DEF FilterList
  <2>. QED  BY <2>8 DEF list
<1>2. CASE e.mouse
  <2>. DEFINE target == e.target
              pane == PaneGesture(u, shown, target)
              button == ButtonGesture(u, shown, target, Fresh(i))
              close == <<Cmd("CloseMenu", None, None)>>
              with == [u.filter EXCEPT !.editing = TRUE]
              set == <<Cmd("SetFilter", None, with)>>
  <2>1. target.on = "Filter"
    BY <1>2 DEF Filters
  <2>2. list \in {pane \o button, close \o (pane \o button)}
    BY <1>2 DEF Intents, OnMouse
  <2>3. pane = <<>>
    BY <2>1 DEF PaneGesture
  <2>4. button \in {<<>>, set}
    BY <2>1 DEF ButtonGesture
  <2>. HIDE DEF pane, button, with, list
  <2>5. list \in {<<>> \o <<>>, <<>> \o set, close \o (<<>> \o <<>>), close \o (<<>> \o set)}
    BY <2>2, <2>3, <2>4
  <2>6. /\ <<>> \o <<>> = <<>> /\ <<>> \o set = set /\ close \o <<>> = close
        /\ Two(close \o set, Cmd("CloseMenu", None, None), Cmd("SetFilter", None, with))
    <3>. DEFINE x == Cmd("CloseMenu", None, None)
                y == Cmd("SetFilter", None, with)
    <3>. HIDE DEF x, y
    <3>1. <<>> \o <<y>> = <<y>> /\ <<x>> \o <<>> = <<x>> /\ <<>> \o <<>> = <<>>
      OBVIOUS
    <3>2. Two(<<x>> \o <<y>>, x, y)
      <4>1. /\ IsSeq(<<x>>) /\ Len(<<x>>) = 1 /\ <<x>>[1] = x
            /\ IsSeq(<<y>>) /\ Len(<<y>>) = 1 /\ <<y>>[1] = y
        BY OneIs
      <4>. DEFINE s == <<x>>
                  t == <<y>>
      <4>. HIDE DEF s, t
      <4>2. /\ Len(s \o t) = Len(s) + Len(t)
            /\ \A k \in 1 .. Len(s) : (s \o t)[k] = s[k]
            /\ \A k \in 1 .. Len(t) : (s \o t)[Len(s) + k] = t[k]
        BY <4>1, ConcatIs DEF s, t
      <4>3. Len(s) = 1 /\ Len(t) = 1 /\ s[1] = x /\ t[1] = y
        BY <4>1 DEF s, t
      <4>4. Two(s \o t, x, y)
        BY <4>2, <4>3 DEF Two
      <4>. QED  BY <4>4 DEF s, t
    <3>. QED  BY <3>1, <3>2 DEF x, y
  <2>7. FilterList(u, list)
    BY <2>5, <2>6 DEF FilterList
  <2>. QED  BY <2>7 DEF list
<1>. QED  BY <1>1, <1>2

\* One command carried out: a list of one, and of two.
LEMMA CarryOne ==
    ASSUME NEW d, NEW shown, NEW x
    PROVE  /\ CarryAll(d, shown, <<>>) = d
           /\ CarryAll(d, shown, <<x>>) = Carry(d, shown, x)
<1>1. CarryAll(d, shown, <<>>) = d
  <2>1. Len(<<>>) = 0
    BY EmptyIs
  <2>. QED  BY <2>1, CarryAllSteps
<1>2. CarryAll(d, shown, <<x>>) = Carry(d, shown, x)
  <2>1. Len(<<x>>) = 1 /\ <<x>>[1] = x
    OBVIOUS
  <2>2. PICK after : /\ after[0] = d
                     /\ \A k \in 1 .. Len(<<x>>) : after[k] = Carry(after[k - 1], shown, <<x>>[k])
                     /\ CarryAll(d, shown, <<x>>) = after[Len(<<x>>)]
    BY <2>1, CarryAllSteps
  <2>3. after[1] = Carry(after[1 - 1], shown, <<x>>[1])
    BY <2>1, <2>2
  <2>. QED  BY <2>1, <2>2, <2>3
<1>. QED  BY <1>1, <1>2

LEMMA CarryTwo ==
    ASSUME NEW d, NEW shown, NEW list, NEW x, NEW y, Two(list, x, y)
    PROVE  CarryAll(d, shown, list) = Carry(Carry(d, shown, x), shown, y)
<1>1. Len(list) = 2 /\ list[1] = x /\ list[2] = y
  BY DEF Two
<1>2. PICK after : /\ after[0] = d
                   /\ \A k \in 1 .. Len(list) : after[k] = Carry(after[k - 1], shown, list[k])
                   /\ CarryAll(d, shown, list) = after[Len(list)]
  <2>1. Len(list) \in Nat
    BY <1>1
  <2>. QED  BY <2>1, CarryAllSteps
<1>3. /\ after[1] = Carry(after[1 - 1], shown, list[1])
      /\ after[2] = Carry(after[2 - 1], shown, list[2])
  BY <1>1, <1>2
<1>4. 1 - 1 = 0 /\ 2 - 1 = 1
  OBVIOUS
<1>. QED  BY <1>1, <1>2, <1>3, <1>4

LEMMA FilterCarried ==
    ASSUME NEW u, NEW M, NEW shown, NEW list, ScreenIs(u, M), Len(shown.explorer) \in Nat,
           FilterList(u, list)
    PROVE  LET next == CarryAll(Just(u), shown, list).ui
           IN next.filter # u.filter => Followed(u, next, shown)
<1>. DEFINE next == CarryAll(Just(u), shown, list).ui
<1>. SUFFICES ASSUME next.filter # u.filter PROVE Followed(u, next, shown)
  OBVIOUS
<1>1. PICK with : \/ list = <<>>
                  \/ list = <<Cmd("SetFilter", None, with)>>
                  \/ list = <<Cmd("SetHistoryTerms", None, with)>>
                  \/ Two(list, Cmd("CloseMenu", None, None), Cmd("SetFilter", None, with))
                  \/ list = <<Cmd("CloseMenu", None, None)>>
  BY DEF FilterList
<1>. DEFINE set == Cmd("SetFilter", None, with)
            terms == Cmd("SetHistoryTerms", None, with)
            close == Cmd("CloseMenu", None, None)
            closed == [u EXCEPT !.menu = FALSE]
<1>2. set.cmd = "SetFilter" /\ set.with = with /\ terms.cmd = "SetHistoryTerms" /\ close.cmd = "CloseMenu"
  BY DEF Cmd
<1>3. Just(u).ui = u
  BY DEF Just
<1>4. \A d : Carry(d, shown, set).ui = SetFilter(d.ui, shown, with)
  <2>. HIDE DEF set
  <2>1. \A w : ApplyView(w, shown, set).ui = SetFilter(w, shown, with)
    BY <1>2 DEF ApplyView, Just
  <2>2. \A d : Carry(d, shown, set).ui = ApplyView(d.ui, shown, set).ui
    BY <1>2, CarryViewUi DEF PaneCommands
  <2>. QED  BY <2>1, <2>2
<1>5. \A d : Carry(d, shown, close).ui = [d.ui EXCEPT !.menu = FALSE]
  <2>. HIDE DEF close
  <2>1. \A w : ApplyView(w, shown, close).ui = [w EXCEPT !.menu = FALSE]
    BY <1>2 DEF ApplyView, Just
  <2>2. \A d : Carry(d, shown, close).ui = ApplyView(d.ui, shown, close).ui
    BY <1>2, CarryViewUi DEF PaneCommands
  <2>. QED  BY <2>1, <2>2
<1>6. Carry(Just(u), shown, terms).ui.filter = u.filter
  <2>. HIDE DEF terms
  <2>1. ApplyView(u, shown, terms).ui.filter = u.filter
    BY <1>2, TabApplied DEF TabCommands, Applied
  <2>2. Carry(Just(u), shown, terms).ui = ApplyView(u, shown, terms).ui
    BY <1>2, <1>3, CarryViewUi DEF TabCommands
  <2>. QED  BY <2>1, <2>2
<1>7. closed.filter = u.filter /\ closed.selected = u.selected /\ IsScreen(closed)
  BY DEF ScreenIs, IsScreen, ScreenFields
<1>. HIDE DEF next, set, terms, close, closed
<1>8. CASE list = <<set>>
  <2>1. next = SetFilter(u, shown, with)
    <3>1. CarryAll(Just(u), shown, <<set>>) = Carry(Just(u), shown, set)
      BY CarryOne
    <3>. QED  BY <1>3, <1>4, <1>8, <3>1 DEF next
  <2>. QED  BY <2>1, FilterFollows DEF ScreenIs
<1>9. CASE Two(list, close, set)
  <2>1. next = SetFilter(closed, shown, with)
    <3>1. next = Carry(Carry(Just(u), shown, close), shown, set).ui
      <4>1. CarryAll(Just(u), shown, list) = Carry(Carry(Just(u), shown, close), shown, set)
        BY <1>9, CarryTwo
      <4>. QED  BY <4>1 DEF next
    <3>. QED  BY <1>3, <1>4, <1>5, <3>1 DEF closed
  <2>2. Followed(closed, next, shown)
    BY <1>7, <2>1, FilterFollows
  <2>3. NodeAt(closed, shown, closed.selected) = NodeAt(u, shown, u.selected)
    BY <1>7 DEF NodeAt, Seen
  <2>. QED  BY <2>2, <2>3 DEF Followed
<1>10. CASE list \in {<<>>, <<terms>>, <<close>>}
  <2>1. next.filter = u.filter
    <3>1. /\ CarryAll(Just(u), shown, <<>>) = Just(u)
          /\ CarryAll(Just(u), shown, <<terms>>) = Carry(Just(u), shown, terms)
          /\ CarryAll(Just(u), shown, <<close>>) = Carry(Just(u), shown, close)
      BY CarryOne
    <3>2. Carry(Just(u), shown, close).ui.filter = u.filter
      BY <1>3, <1>5, <1>7 DEF closed
    <3>. QED  BY <1>3, <1>6, <1>10, <3>1, <3>2 DEF next
  <2>. QED  BY <2>1
<1>. QED  BY <1>1, <1>8, <1>9, <1>10 DEF set, terms, close

\* One event of one iteration.
LEMMA EventFollows ==
    ASSUME NEW u, NEW shown, NEW burst, Len(burst) = 1, ScreenIs(u, minted), IsEvent(burst[1]),
           FreshRuns(u, shown, burst), Len(shown.explorer) \in Nat
    PROVE  LET next == CarriedBy(u, shown, burst).ui
           IN next.filter # u.filter => Followed(u, next, shown)
<1>. DEFINE list == Intents(u, shown, burst[1], 1)
            q == Fresh(1).query
<1>1. CarriedBy(u, shown, burst) = CarryAll(Just(u), shown, list)
  <2>1. PICK after : /\ after[0] = Just(u)
                     /\ \A k \in 1 .. Len(burst) :
                           after[k] = CarryAll(after[k - 1], shown, Intents(u, shown, burst[k], k))
                     /\ CarriedBy(u, shown, burst) = after[Len(burst)]
    BY CarriedSteps
  <2>2. after[1] = CarryAll(after[1 - 1], shown, Intents(u, shown, burst[1], 1))
    BY <2>1
  <2>3. 1 - 1 = 0
    OBVIOUS
  <2>. QED  BY <2>1, <2>2, <2>3
<1>2. CASE Filters(u, burst[1])
  <2>1. FilterList(u, list)
    BY <1>2, FilterListIs
  <2>. HIDE DEF list
  <2>. QED  BY <1>1, <2>1, FilterCarried
<1>3. CASE ~Filters(u, burst[1])
  <2>. DEFINE may == {"Edit"}
  <2>1. "Edit" \in may /\ "SetFilter" \notin may
    OBVIOUS
  <2>. HIDE DEF may
  <2>2. Intended(list, u, q, may) /\ OneRun(list)
    BY <1>3, <2>1, IntentsAre DEF Filters
  <2>3. \A k \in 1 .. Len(list) : IsRun(list[k]) => q \notin minted \cup {None}
    <3>1. RunsAs(list, q)
      <4>1. 1 \in 1 .. Len(burst) /\ Len(burst) \in Nat
        OBVIOUS
      <4>. QED  BY <4>1, RunsOfIs
    <3>2. q # None => q \notin minted
      BY FreshIs
    <3>. HIDE DEF list, q
    <3>. QED  BY <3>1, <3>2 DEF RunsAs
  <2>4. IsDone(Just(u), minted) /\ Just(u).ui = u
    BY EmptyIs DEF IsDone, Just
  <2>. HIDE DEF list, q
  <2>5. CarryAll(Just(u), shown, list).ui.filter = u.filter
    BY <2>1, <2>2, <2>3, <2>4, FilterStays DEF ScreenIs
  <2>. QED  BY <1>1, <2>5
<1>. QED  BY <1>2, <1>3

LEMMA FollowStep ==
    ASSUME FrontInv, [FrontendNext]_allVars, ui'.filter # ui.filter, presses' = presses + 1
    PROVE  Followed(ui, ui', snap')
<1>0. ScreenIs(ui, minted) /\ IsScreen(ui) /\ presses \in Nat
  BY DEF FrontInv, ScreenInv, ScreenIs
<1>1. ASSUME NEW u, NEW shown, NEW burst, Carries(u, shown, burst), ScreenIs(u, minted),
             Len(burst) \in Nat, \A i \in 1 .. Len(burst) : IsEvent(burst[i]),
             u.filter = ui.filter, u.selected = ui.selected, Len(shown.explorer) \in Nat,
             shown = snap'
      PROVE  Followed(ui, ui', snap')
  <2>1. /\ FreshRuns(u, shown, burst) /\ ui' = CarriedBy(u, shown, burst).ui
        /\ presses' = presses + Len(burst)
    BY <1>1, CarriesIs
  <2>2. Len(burst) = 1
    <3>1. presses + Len(burst) = presses + 1
      BY <2>1
    <3>2. presses \in Nat /\ Len(burst) \in Nat
      BY <1>0, <1>1
    <3>3. \A p, n \in Nat : p + n = p + 1 => n = 1
      OBVIOUS
    <3>. QED  BY <3>1, <3>2, <3>3
  <2>3. ui'.filter # u.filter => Followed(u, ui', shown)
    BY <1>1, <2>1, <2>2, EventFollows
  <2>4. NodeAt(u, shown, u.selected) = NodeAt(ui, shown, ui.selected)
    BY <1>1 DEF NodeAt, Seen
  <2>. QED  BY <1>1, <2>3, <2>4 DEF Followed
<1>2. CASE Typed
  <2>1. PICK u, burst : /\ u = Measured(ui, snap)
                        /\ Carries(u, snap, burst)
                        /\ ScreenIs(u, minted) /\ Still(ui, u)
                        /\ Len(burst) \in Nat
                        /\ \A i \in 1 .. Len(burst) : IsEvent(burst[i])
    BY <1>2, TypedIs DEF FrontInv
  <2>2. u.selected = ui.selected /\ u.filter = ui.filter
    BY <1>0, <2>1, MeasuredUnmoved DEF Still
  <2>3. snap' = snap /\ Len(snap.explorer) \in Nat
    BY <1>2 DEF Typed, FrontInv
  <2>. QED  BY <1>1, <2>1, <2>2, <2>3
<1>3. CASE Looked
  <2>1. PICK drawn, u, burst : /\ drawn = Measured(ui, snap) /\ Still(ui, drawn)
                               /\ ScreenIs(drawn, minted)
                               /\ u = Raised(drawn, snap')
                               /\ Carries(u, snap', burst)
                               /\ ScreenIs(u, minted) /\ Thinned(drawn, u)
                               /\ Len(burst) \in Nat
                               /\ \A i \in 1 .. Len(burst) : IsEvent(burst[i])
    BY <1>3, LookedIs DEF FrontInv
  <2>2. u.selected = ui.selected /\ u.filter = ui.filter
    BY <1>0, <2>1, MeasuredUnmoved, RaisedSteady DEF Still, Thinned
  <2>3. Len(snap'.explorer) \in Nat
    BY FrontNext DEF FrontInv
  <2>. QED  BY <1>1, <2>1, <2>2, <2>3
<1>4. CASE Loop
  BY <1>4, LoopTakes
<1>5. CASE Agent \/ (\E id \in BusyId : Tasks(id)) \/ Pool \/ Elsewhere \/ UNCHANGED allVars
  BY <1>5 DEF Agent, Tasks, Pool, Elsewhere, frontVars, allVars
<1>. QED  BY <1>2, <1>3, <1>4, <1>5 DEF FrontendNext

\* The row that is selected is the one that was, for as long as what is typed into
\* the search leaves it on the screen (ui.rs set_filter): a row number would be
\* another node's as soon as rows above it went.
THEOREM SelectionFollowed == FrontendSpec => SelectionIsFollowed
<1>1. FrontendInit => FrontInv
  BY FrontInit
<1>2. FrontInv /\ [FrontendNext]_allVars => FrontInv'
  BY FrontNext
<1>3. FrontInv /\ [FrontendNext]_allVars =>
        [(/\ ui'.filter # ui.filter
          /\ presses' = presses + 1
          /\ NodeAt(ui, snap', ui.selected) # None
          /\ \E row \in 0 .. Len(Seen(ui', snap')) :
                NodeAt(ui', snap', row) = NodeAt(ui, snap', ui.selected)) =>
            NodeAt(ui', snap', ui'.selected) = NodeAt(ui, snap', ui.selected)]_allVars
  BY FollowStep DEF Followed
<1>. QED  BY <1>1, <1>2, <1>3, PTL DEF FrontendSpec, SelectionIsFollowed

-----------------------------------------------------------------------------
(* What the store makes of its queries.                                      *)

IsQuery(x) == x = [data |-> x.data, conn |-> x.conn, sql |-> x.sql, needs |-> x.needs]

\* Every query has its fields, and nothing else.
QueriesAre ==
    /\ queries = [q \in QueryIds |-> queries[q]]
    /\ \A q \in QueryIds : IsQuery(queries[q])

\* The store has heard of a query: it has it, or works for it.
Heard(q) == Known(q) \/ \E b \in busy : b.owner = QueryOwner(q)

LEMMA QueryFields ==
    ASSUME NEW x, IsQuery(x), NEW data, NEW needs
    PROVE  LET new == [x EXCEPT !.data = data, !.needs = needs] IN IsQuery(new) /\ new.data = data
<1>1. IsQuery([x EXCEPT !.data = data])
  BY DEF IsQuery
<1>2. \A y : IsQuery(y) => IsQuery([y EXCEPT !.needs = needs])
  BY DEF IsQuery
<1>3. [x EXCEPT !.data = data, !.needs = needs] = [[x EXCEPT !.data = data] EXCEPT !.needs = needs]
  OBVIOUS
<1>4. [x EXCEPT !.data = data, !.needs = needs].data = data
  BY DEF IsQuery
<1>. QED  BY <1>1, <1>2, <1>3, <1>4

\* One of them has another state.
LEMMA OneQuery ==
    ASSUME QueriesAre, NEW p, NEW x, p \in QueryIds => IsQuery(x), queries' = [queries EXCEPT ![p] = x]
    PROVE  /\ QueriesAre'
           /\ \A q \in QueryIds : q # p => queries'[q] = queries[q]
           /\ p \in QueryIds => queries'[p] = x
<1>1. queries' = [q \in QueryIds |-> IF q = p THEN x ELSE queries[q]]
  BY DEF QueriesAre
<1>2. queries' = [q \in QueryIds |-> queries'[q]]
  BY <1>1
<1>. QED  BY <1>1, <1>2 DEF QueriesAre, IsQuery

\* What is begun for anything else is no query's.
Unasked == \A b \in busy' : b \in busy \/ b.owner.kind # "Query"

LEMMA UnaskedIs ==
    /\ \A ids, owner, req : owner.kind # "Query" /\ Begin(ids, owner, req) => Unasked
    /\ \A ids : DropTasks(ids) => Unasked
    /\ \A kind : Receive(kind) => Unasked
    /\ UNCHANGED kernelVars => Unasked
<1>1. ASSUME NEW ids, NEW owner, NEW req, owner.kind # "Query", Begin(ids, owner, req) PROVE Unasked
  BY <1>1 DEF Begin, Unasked
<1>. QED  BY <1>1 DEF Unasked, DropTasks, Receive, kernelVars

\* Everything that is not about a query.
LEMMA OtherDispatched ==
    /\ \A c : Connect(c) => UNCHANGED queries /\ Unasked
    /\ \A c, may : OpenConnectionRow(c, may) => UNCHANGED queries /\ Unasked
    /\ \A c, n, may : OpenNode(c, n, may) => UNCHANGED queries /\ Unasked
    /\ \A c, t : PreviewTable(c, t) => UNCHANGED queries /\ Unasked
    /\ \A c, t, column : SortPreview(c, t, column) => UNCHANGED queries /\ Unasked
    /\ \A c, t : LoadMore(c, t) => UNCHANGED queries /\ Unasked
    /\ \A c, t : ForgetPreview(c, t) => UNCHANGED queries /\ Unasked
    /\ \A c, t, refresh : DescribeTable(c, t, refresh) => UNCHANGED queries /\ Unasked
    /\ \A c, t : ForgetDefinition(c, t) => UNCHANGED queries /\ Unasked
    /\ \A op, item : WithLibrary(op, item) => UNCHANGED queries /\ Unasked
    /\ \A terms : SearchHistory(terms) => UNCHANGED queries /\ Unasked
<1>1. /\ \A c : ConnectionOwner(c).kind # "Query"
      /\ \A c, n : NodeOwner(c, n).kind # "Query"
      /\ \A c, t : PreviewOwner(c, t).kind # "Query"
      /\ \A c, t : DefinitionOwner(c, t).kind # "Query"
      /\ TemplatesOwner.kind # "Query" /\ HistoryOwner.kind # "Query"
  BY DEF ConnectionOwner, NodeOwner, PreviewOwner, DefinitionOwner, TemplatesOwner, HistoryOwner
<1>2. \A c : Connect(c) => UNCHANGED queries /\ Unasked
  BY <1>1, UnaskedIs DEF Connect, queryVars
<1>3. \A c, may : OpenConnectionRow(c, may) => UNCHANGED queries /\ Unasked
  BY UnaskedIs DEF OpenConnectionRow, queryVars
<1>4. \A c, n, may : OpenNode(c, n, may) => UNCHANGED queries /\ Unasked
  BY <1>1, UnaskedIs DEF OpenNode, queryVars
<1>5. \A c, t, p, page, append : FetchPage(c, t, p, page, append) => Unasked
  BY <1>1, UnaskedIs DEF FetchPage
<1>6. /\ \A c, t : PreviewTable(c, t) => UNCHANGED queries /\ Unasked
      /\ \A c, t, column : SortPreview(c, t, column) => UNCHANGED queries /\ Unasked
      /\ \A c, t : LoadMore(c, t) => UNCHANGED queries /\ Unasked
  BY <1>5 DEF PreviewTable, SortPreview, LoadMore, queryVars
<1>7. \A c, t : ForgetPreview(c, t) => UNCHANGED queries /\ Unasked
  BY UnaskedIs DEF ForgetPreview, queryVars
<1>8. /\ \A c, t, refresh : DescribeTable(c, t, refresh) => UNCHANGED queries /\ Unasked
      /\ \A c, t : ForgetDefinition(c, t) => UNCHANGED queries /\ Unasked
  BY <1>1, UnaskedIs DEF DescribeTable, ForgetDefinition, queryVars
<1>9. \A op, item : WithLibrary(op, item) => UNCHANGED queries /\ Unasked
  BY <1>1, UnaskedIs DEF WithLibrary, queryVars
<1>10. \A terms : SearchHistory(terms) => UNCHANGED queries /\ Unasked
  BY <1>1, UnaskedIs DEF SearchHistory, queryVars
<1>. QED  BY <1>2, <1>3, <1>4, <1>6, <1>7, <1>8, <1>9, <1>10

LEMMA OtherHandled ==
    /\ Connected => UNCHANGED queries /\ Unasked
    /\ Expanded => UNCHANGED queries /\ Unasked
    /\ Previewed => UNCHANGED queries /\ Unasked
    /\ Described => UNCHANGED queries /\ Unasked
    /\ Recorded => UNCHANGED queries /\ Unasked
    /\ LibraryAnswered => UNCHANGED queries /\ Unasked
    /\ Searched => UNCHANGED queries /\ Unasked
<1>1. (Connected => UNCHANGED queries /\ Unasked) /\ (Expanded => UNCHANGED queries /\ Unasked)
  BY UnaskedIs DEF Connected, Expanded, queryVars
<1>2. (Previewed => UNCHANGED queries /\ Unasked) /\ (Described => UNCHANGED queries /\ Unasked)
  BY UnaskedIs DEF Previewed, Described, queryVars
<1>3. Recorded => UNCHANGED queries /\ Unasked
  BY UnaskedIs DEF Recorded, queryVars
<1>4. (LibraryAnswered => UNCHANGED queries /\ Unasked) /\ (Searched => UNCHANGED queries /\ Unasked)
  BY UnaskedIs DEF LibraryAnswered, Searched, queryVars
<1>. QED  BY <1>1, <1>2, <1>3, <1>4

\* What it has heard of, it knew or was told.
Learns(told) ==
    QueriesAre' /\ \A q \in QueryIds : Heard(q)' => Heard(q) \/ q \in told

LEMMA NothingLearned ==
    ASSUME QueriesAre, UNCHANGED queries, Unasked, NEW told
    PROVE  Learns(told)
  BY DEF QueriesAre, Learns, Heard, Known, Unasked, QueryOwner

LEMMA AskedLearns ==
    ASSUME QueriesAre, NEW q
    PROVE  /\ \A c, sql : RunQuery(c, q, sql) \/ EstimateQuery(c, q, sql) => Learns({q})
           /\ \A told : ApproveQuery(q) \/ ForgetQuery(q) => Learns(told)
<1>1. ASSUME NEW c, NEW sql, RunQuery(c, q, sql) \/ EstimateQuery(c, q, sql)
      PROVE  Learns({q})
  <2>. DEFINE new == [data |-> "Loading", conn |-> c, sql |-> sql, needs |-> FALSE]
  <2>1. queries' = [queries EXCEPT ![q] = new]
    BY <1>1 DEF RunQuery, EstimateQuery
  <2>2. IsQuery(new)
    BY DEF IsQuery
  <2>3. \A b \in busy' : b \in busy \/ b.owner = QueryOwner(q)
    BY <1>1 DEF RunQuery, EstimateQuery, Begin
  <2>4. \A p : QueryOwner(p) = QueryOwner(q) => p = q
    BY DEF QueryOwner
  <2>. HIDE DEF new
  <2>5. QueriesAre' /\ \A p \in QueryIds : p # q => queries'[p] = queries[p]
    BY <2>1, <2>2, OneQuery
  <2>. QED  BY <2>3, <2>4, <2>5 DEF Learns, Heard, Known
<1>2. ASSUME NEW told, ApproveQuery(q)
      PROVE  Learns(told)
  <2>. DEFINE new == Approve(queries[q])
  <2>1. queries' = [queries EXCEPT ![q] = new] /\ Known(q)
    BY <1>2 DEF ApproveQuery
  <2>2. q \in QueryIds => IsQuery(new)
    <3>1. new = [queries[q] EXCEPT !.data = "Loading", !.needs = FALSE]
      BY DEF Approve
    <3>. HIDE DEF new
    <3>. QED  BY <3>1, QueryFields DEF QueriesAre
  <2>3. \A b \in busy' : b \in busy \/ b.owner = QueryOwner(q)
    BY <1>2 DEF ApproveQuery, Begin
  <2>4. \A p : QueryOwner(p) = QueryOwner(q) => p = q
    BY DEF QueryOwner
  <2>. HIDE DEF new
  <2>5. QueriesAre' /\ \A p \in QueryIds : p # q => queries'[p] = queries[p]
    BY <2>1, <2>2, OneQuery
  <2>. QED  BY <2>1, <2>3, <2>4, <2>5 DEF Learns, Heard, Known
<1>3. ASSUME NEW told, ForgetQuery(q)
      PROVE  Learns(told)
  <2>. DEFINE new == [queries[q] EXCEPT !.data = "forgotten", !.needs = FALSE]
  <2>1. queries' = [queries EXCEPT ![q] = new] /\ Known(q)
    BY <1>3 DEF ForgetQuery, QueriesAre
  <2>2. q \in QueryIds => IsQuery(new)
    BY QueryFields DEF QueriesAre
  <2>3. Unasked
    BY <1>3, UnaskedIs DEF ForgetQuery
  <2>. HIDE DEF new
  <2>5. QueriesAre' /\ \A p \in QueryIds : p # q => queries'[p] = queries[p]
    BY <2>1, <2>2, OneQuery
  <2>. QED  BY <2>1, <2>3, <2>5 DEF Learns, Heard, Known, Unasked, QueryOwner
<1>. QED  BY <1>1, <1>2, <1>3

LEMMA EndsLearn ==
    ASSUME QueriesAre, NEW told
    PROVE  /\ \A b : Cancel(b) => Learns(told)
           /\ \A c : Disconnect(c) => Learns(told)
           /\ Ran => Learns(told)
<1>1. ASSUME NEW b, Cancel(b) PROVE Learns(told)
  <2>1. Unasked
    BY <1>1, UnaskedIs DEF Cancel
  <2>2. CASE UNCHANGED queries
    BY <2>1, <2>2, NothingLearned
  <2>3. CASE AbandonQuery(b.owner.item)
    <3>. DEFINE q == b.owner.item
                new == [queries[q] EXCEPT !.data = IF Known(q) THEN "Failed" ELSE @]
    <3>1. queries' = [queries EXCEPT ![q] = new]
      BY <2>3 DEF AbandonQuery
    <3>2. q \in QueryIds => IsQuery(new) /\ (new.data = queries[q].data \/ Known(q))
      BY DEF IsQuery, QueriesAre
    <3>. HIDE DEF new, q
    <3>3. /\ QueriesAre'
          /\ \A p \in QueryIds : p # q => queries'[p] = queries[p]
          /\ q \in QueryIds => queries'[q] = new
      BY <3>1, <3>2, OneQuery
    <3>. QED  BY <2>1, <3>2, <3>3 DEF Learns, Heard, Known, Unasked, QueryOwner
  <2>. QED  BY <1>1, <2>2, <2>3
       DEF Cancel, AbandonConnection, AbandonNode, AbandonPreview, AbandonDefinition, AbandonTemplates,
           AbandonHistory, queryVars
<1>2. ASSUME NEW c, Disconnect(c) PROVE Learns(told)
  <2>1. Unasked
    BY <1>2, UnaskedIs DEF Disconnect
  <2>2. \A q \in QueriesCut(c) : \E b \in busy : b.owner = QueryOwner(q)
    BY DEF QueriesCut, Rows
  <2>. DEFINE cut(q) == [queries[q] EXCEPT !.data = "Failed"]
  <2>3. \A q \in QueryIds : IsQuery(cut(q))
    BY DEF QueriesAre, IsQuery
  <2>4. queries' = [q \in QueryIds |-> IF q \in QueriesCut(c) THEN cut(q) ELSE queries[q]]
    BY <1>2 DEF Disconnect
  <2>. HIDE DEF cut
  <2>5. \A q \in QueryIds : queries'[q] = IF q \in QueriesCut(c) THEN cut(q) ELSE queries[q]
    BY <2>4
  <2>6. queries' = [q \in QueryIds |-> queries'[q]]
    BY <2>4
  <2>7. QueriesAre'
    BY <2>3, <2>5, <2>6 DEF QueriesAre
  <2>. QED  BY <2>1, <2>2, <2>5, <2>7 DEF Learns, Heard, Known, Unasked, QueryOwner
<1>3. ASSUME Ran PROVE Learns(told)
  <2>. DEFINE q == Head(events).owner.item
              tag == Head(events).result.tag
              needs == queries[q].needs \/ tag = "NeedsApproval"
              new == [queries[q] EXCEPT !.data = DataAfter(tag), !.needs = needs]
  <2>1. Unasked
    BY <1>3, UnaskedIs DEF Ran
  <2>2. CASE UNCHANGED queries
    BY <2>1, <2>2, NothingLearned
  <2>3. CASE Known(q) /\ queries' = [queries EXCEPT ![q].data = DataAfter(tag),
                                                    ![q].needs = @ \/ tag = "NeedsApproval"]
    <3>1. queries' = [queries EXCEPT ![q] = new] /\ Known(q)
      BY <2>3 DEF QueriesAre
    <3>2. q \in QueryIds => IsQuery(new)
      BY QueryFields DEF QueriesAre
    <3>. HIDE DEF new, q
    <3>3. QueriesAre' /\ \A p \in QueryIds : p # q => queries'[p] = queries[p]
      BY <3>1, <3>2, OneQuery
    <3>. QED  BY <2>1, <3>1, <3>3 DEF Learns, Heard, Known, Unasked, QueryOwner
  <2>. QED  BY <1>3, <2>2, <2>3 DEF Ran, queryVars
<1>. QED  BY <1>1, <1>2, <1>3

\* One iteration of the loop.
LEMMA LoopLearns ==
    ASSUME QueriesAre, Loop
    PROVE  /\ QueriesAre'
           /\ \A q \in QueryIds :
                 Heard(q)' => \/ Heard(q)
                              \/ /\ inbox # <<>>
                                 /\ Head(inbox).op \in {"Run", "Estimate"}
                                 /\ Head(inbox).item = q
<1>. DEFINE a == Head(inbox)
<1>1. ASSUME Perform(a), a.op \notin {"Run", "Estimate"}, NEW told PROVE Learns(told)
  <2>1. \/ UNCHANGED queries /\ Unasked
        \/ \E c : Disconnect(c)
        \/ \E q : ApproveQuery(q) \/ ForgetQuery(q)
        \/ \E b : Cancel(b)
    <3>. HIDE DEF a
    <3>. QED  BY <1>1, OtherDispatched DEF Perform
  <2>. QED  BY <2>1, NothingLearned, AskedLearns, EndsLearn
<1>2. ASSUME Perform(a), a.op \in {"Run", "Estimate"} PROVE Learns({a.item})
  <2>1. \E c, sql : RunQuery(c, a.item, sql) \/ EstimateQuery(c, a.item, sql)
    <3>. HIDE DEF a
    <3>. QED  BY <1>2 DEF Perform, Ops
  <2>. QED  BY <2>1, AskedLearns
<1>3. ASSUME Handled, NEW told PROVE Learns(told)
  BY <1>3, OtherHandled, NothingLearned, EndsLearn DEF Handled
<1>4. ASSUME UNCHANGED vars, NEW told PROVE Learns(told)
  BY <1>4, UnaskedIs, NothingLearned DEF vars, queryVars
<1>5. Apply => inbox # <<>> /\ (Perform(a) \/ UNCHANGED vars)
  BY DEF Apply
<1>6. Handle => Handled
  BY DEF Handle
<1>7. \/ Learns({})
      \/ inbox # <<>> /\ a.op \in {"Run", "Estimate"} /\ Learns({a.item})
  <2>. HIDE DEF a
  <2>. QED  BY <1>1, <1>2, <1>3, <1>4, <1>5, <1>6 DEF Loop
<1>. QED  BY <1>7 DEF Learns

\* Nothing else but the loop has to do with what the store knows.
LEMMA OthersLeave ==
    ASSUME (\E id \in BusyId : Tasks(id)) \/ Pool \/ Elsewhere
    PROVE  UNCHANGED <<conns, queries, busy, inbox, ui, snap, published, minted, scene>>
<1>1. \A t : Works(t) => UNCHANGED <<conns, queries, busy>>
  BY DEF Works, ConnectAnswers, ExpandAnswers, PreviewAnswers, DescribeAnswers, DescribeSends,
         ServerExecutes, QueryStops, QuerySends, LibrarySends, SearchAnswers, Send, Answer,
         connVars, queryVars
<1>2. Blocking => UNCHANGED <<conns, queries, busy>>
  BY DEF Blocking, RowInserted, RowSettled, JobWrites, JobReads, kernelVars, connVars, queryVars
<1>3. Outside => UNCHANGED <<conns, queries, busy>>
  BY DEF Outside, ActorDies, Alter, SchemaChanges, kernelVars, connVars, queryVars
<1>. QED  BY <1>1, <1>2, <1>3 DEF Tasks, Pool, Elsewhere, queueVars, frontVars

-----------------------------------------------------------------------------
(* What a snapshot has to say is said.                                        *)

\* The connections there is a preview of.
Watched(u) == {tab.conn : tab \in {tab \in TabsOf(u) : tab.kind = "Preview"}}

LEMMA FailureIsTold ==
    ASSUME NEW u, NEW shown, NEW tab, IsScreen(u), tab.query # None, shown.queries[tab.query].data = "Failed"
    PROVE  tab.query \in RaiseQueryError(u, shown, tab).queryErrors
<1>. DEFINE more == u.queryErrors \cup {tab.query}
            other == [u EXCEPT !.queryErrors = more]
<1>1. [u EXCEPT !.queryErrors = @ \cup {tab.query}] = other
  BY DEF IsScreen, ScreenFields
<1>2. IsScreen(other) /\ other.queryErrors = more
  BY DEF IsScreen, ScreenFields
<1>3. RaiseQueryError(u, shown, tab) = IF tab.query \notin u.queryErrors THEN Toasted(other, tab.query) ELSE u
  BY <1>1 DEF RaiseQueryError
<1>. HIDE DEF other
<1>4. other.queryErrors \subseteq Toasted(other, tab.query).queryErrors
  BY <1>2, ToastedIs DEF Still
<1>. QED  BY <1>2, <1>3, <1>4

LEMMA FailuresAreTold ==
    ASSUME NEW u, NEW M, NEW shown, ScreenIs(u, M)
    PROVE  \A q \in Mine(u) : shown.queries[q].data = "Failed" => q \in RaiseQueryErrors(u, shown).queryErrors
<1>1. Len(u.tabs) \in Nat /\ IsScreen(u) /\ Still(u, u)
  BY DEF ScreenIs, TabsOK, IsSeq, Still
<1>2. PICK after : /\ after[0] = u
                   /\ \A k \in 1 .. Len(u.tabs) :
                         after[k] = RaiseQueryError(after[k - 1], shown, u.tabs[k])
                   /\ RaiseQueryErrors(u, shown) = after[Len(u.tabs)]
  BY <1>1, QueryErrorSteps
<1>. DEFINE Fails(k) == u.tabs[k].query # None /\ shown.queries[u.tabs[k].query].data = "Failed"
            Good == {k \in 0 .. Len(u.tabs) :
                       /\ IsScreen(after[k])
                       /\ \A j \in 1 .. k : Fails(j) => u.tabs[j].query \in after[k].queryErrors}
<1>3. ASSUME NEW k \in 1 .. Len(u.tabs), k - 1 \in Good PROVE k \in Good
  <2>1. /\ IsScreen(after[k - 1])
        /\ \A j \in 1 .. k - 1 : Fails(j) => u.tabs[j].query \in after[k - 1].queryErrors
    BY <1>3
  <2>. HIDE DEF Fails
  <2>2. /\ IsScreen(after[k])
        /\ after[k - 1].queryErrors \subseteq after[k].queryErrors
    BY <1>2, <2>1, RaiseQueryErrorIs DEF Still
  <2>3. Fails(k) => u.tabs[k].query \in after[k].queryErrors
    BY <1>2, <2>1, FailureIsTold DEF Fails
  <2>4. \A j \in 1 .. k : j \in 1 .. k - 1 \/ j = k
    OBVIOUS
  <2>5. \A j \in 1 .. k : Fails(j) => u.tabs[j].query \in after[k].queryErrors
    BY <2>1, <2>2, <2>3, <2>4
  <2>. QED  BY <2>2, <2>5
<1>4. 0 \in Good
  BY <1>1, <1>2
<1>5. 0 .. Len(u.tabs) \subseteq Good
  BY <1>1, <1>3, <1>4, InductTo
<1>6. \A j \in 1 .. Len(u.tabs) : Fails(j) => u.tabs[j].query \in RaiseQueryErrors(u, shown).queryErrors
  BY <1>1, <1>2, <1>5
<1>. QED  BY <1>6 DEF Mine, TabsOf

LEMMA ClosedAreShut ==
    ASSUME NEW u, NEW M, NEW shown, ScreenIs(u, M)
    PROVE  \A c \in Watched(CloseDisconnected(u, shown)) : shown.conns[c].status # "Closed"
<1>1. Len(u.tabs) \in Nat
  BY DEF ScreenIs, TabsOK, IsSeq
<1>. DEFINE Gone(tab) == tab.kind = "Preview" /\ shown.conns[tab.conn].status = "Closed"
<1>2. PICK after : /\ after[0] = u
                   /\ \A k \in 1 .. Len(u.tabs) :
                         after[k] = (IF Gone(u.tabs[k]) THEN CloseTab(after[k - 1], u.tabs[k].id)
                                     ELSE after[k - 1])
                   /\ CloseDisconnected(u, shown) = after[Len(u.tabs)]
  BY <1>1, CloseSteps
<1>. DEFINE Left(k) == \A tab \in TabsOf(after[k]) :
                          Gone(tab) => \E j \in k + 1 .. Len(u.tabs) : u.tabs[j] = tab
            Good == {k \in 0 .. Len(u.tabs) : ScreenIs(after[k], M) /\ Left(k)}
<1>3. ASSUME NEW k \in 1 .. Len(u.tabs), k - 1 \in Good PROVE k \in Good
  <2>1. ScreenIs(after[k - 1], M) /\ Left(k - 1)
    BY <1>3
  <2>. HIDE DEF Gone
  <2>2. ASSUME NEW tab, \E j \in (k - 1) + 1 .. Len(u.tabs) : u.tabs[j] = tab, tab # u.tabs[k]
        PROVE  \E j \in k + 1 .. Len(u.tabs) : u.tabs[j] = tab
    <3>1. PICK j \in (k - 1) + 1 .. Len(u.tabs) : u.tabs[j] = tab
      BY <2>2
    <3>2. j \in k + 1 .. Len(u.tabs)
      BY <1>1, <2>2, <3>1
    <3>. QED  BY <3>1, <3>2
  <2>3. CASE Gone(u.tabs[k])
    <3>. DEFINE next == CloseTab(after[k - 1], u.tabs[k].id)
    <3>1. ScreenIs(next, M) /\ Closed(after[k - 1], next, u.tabs[k].id)
      BY <2>1, CloseTabIs
    <3>2. after[k] = next
      BY <1>2, <2>3
    <3>. HIDE DEF next
    <3>3. \A tab \in TabsOf(after[k]) : tab \in TabsOf(after[k - 1]) /\ tab # u.tabs[k]
      BY <3>1, <3>2 DEF Closed
    <3>4. Left(k)
      BY <2>1, <2>2, <3>3
    <3>. QED  BY <3>1, <3>2, <3>4
  <2>4. CASE ~Gone(u.tabs[k])
    <3>1. after[k] = after[k - 1]
      BY <1>2, <2>4
    <3>2. Left(k)
      BY <2>1, <2>2, <2>4, <3>1
    <3>. QED  BY <2>1, <3>1, <3>2
  <2>. QED  BY <2>3, <2>4
<1>4. 0 \in Good
  <2>1. Left(0)
    BY <1>1, <1>2 DEF TabsOf
  <2>. QED  BY <1>1, <1>2, <2>1
<1>5. 0 .. Len(u.tabs) \subseteq Good
  BY <1>1, <1>3, <1>4, InductTo
<1>6. Left(Len(u.tabs))
  <2>1. Len(u.tabs) \in Good
    BY <1>1, <1>5
  <2>. QED  BY <2>1
<1>7. \A tab \in TabsOf(after[Len(u.tabs)]) : ~Gone(tab)
  BY <1>1, <1>6
<1>. QED  BY <1>2, <1>7 DEF Watched

\* All of it.
LEMMA SnapshotIsTold ==
    ASSUME NEW u, NEW M, NEW shown, ScreenIs(u, M)
    PROVE  LET next == Raised(u, shown)
           IN /\ \A q \in Mine(next) : shown.queries[q].data = "Failed" => q \in next.queryErrors
              /\ \A c \in Watched(next) : shown.conns[c].status # "Closed"
              /\ Mine(next) \subseteq Mine(u)
<1>. DEFINE a == RaiseConnectionFailure(u, shown)
            b == RaisePreviewErrors(a, shown)
            c == RaiseApprovals(b, shown)
            e == RaiseQueryErrors(c, shown)
            f == CloseDisconnected(e, shown)
<1>1. ScreenIs(a, M)
  BY RaiseFailureIs
<1>. HIDE DEF a
<1>2. ScreenIs(b, M)
  BY <1>1, RaiseErrorsAre, StillThinned
<1>. HIDE DEF b
<1>3. ScreenIs(c, M)
  BY <1>2, RaiseApprovalsIs
<1>. HIDE DEF c
<1>4. ScreenIs(e, M) /\ Still(c, e)
  BY <1>3, RaiseErrorsAre, StillKeeps
<1>5. \A q \in Mine(c) : shown.queries[q].data = "Failed" => q \in e.queryErrors
  BY <1>3, FailuresAreTold
<1>. HIDE DEF e
<1>4a. e.tabs = c.tabs
  BY <1>4 DEF Still
<1>6. Thinned(e, f)
  BY <1>4, CloseDisconnectedIs
<1>7. \A k \in Watched(f) : shown.conns[k].status # "Closed"
  BY <1>4, ClosedAreShut
<1>8. Raised(u, shown) = f
  BY DEF Raised, a, b, c, e
<1>. HIDE DEF f
<1>9. Mine(f) \subseteq Mine(c)
  BY <1>4a, <1>6 DEF Mine, TabsOf, Thinned
<1>10. \A q \in Mine(f) : shown.queries[q].data = "Failed" => q \in f.queryErrors
  BY <1>5, <1>6, <1>9 DEF Thinned
<1>11. Thinned(u, f)
  BY <1>8, RaisedIs
<1>12. Mine(f) \subseteq Mine(u)
  BY <1>11 DEF Thinned, Mine
<1>. QED  BY <1>7, <1>8, <1>10, <1>12

-----------------------------------------------------------------------------
(* What carrying something out makes of the runs behind the tabs, of the      *)
(* previews that are up and of what is asked for.                             *)

Making == {"Run", "Estimate"}

\* Nothing that was said is taken back, and only what is in R is begun.
Moving(d, next, R) ==
    /\ d.ui.queryErrors \subseteq next.ui.queryErrors
    /\ Mine(next.ui) \subseteq Mine(d.ui) \cup R
    /\ Longer(d.out, next.out)
    /\ \A i \in Len(d.out) + 1 .. Len(next.out) : next.out[i].op \in Making => next.out[i].item \in R

\* Nor is a preview opened without asking the store for it.
Going(d, next, R) ==
    /\ Moving(d, next, R)
    /\ Watched(next.ui) \subseteq Watched(d.ui) \/ Len(d.out) < Len(next.out)

LEMMA GoingStays ==
    ASSUME NEW d, NEW M, NEW R, IsDone(d, M)
    PROVE  Moving(d, d, R) /\ Going(d, d, R)
<1>1. Len(d.out) \in Nat /\ Longer(d.out, d.out)
  BY DEF Longer, IsDone, IsSeq
<1>. QED  BY <1>1 DEF Moving, Going

LEMMA GoingTrans ==
    ASSUME NEW d, NEW M, NEW next, NEW last, NEW R, IsDone(d, M), Moving(d, next, R), Moving(next, last, R)
    PROVE  /\ Moving(d, last, R)
           /\ Len(d.out) <= Len(next.out) /\ Len(next.out) <= Len(last.out)
           /\ Going(d, next, R) /\ Going(next, last, R) => Going(d, last, R)
<1>1. Len(d.out) \in Nat /\ Len(next.out) \in Nat /\ Len(last.out) \in Nat
  BY DEF IsDone, IsSeq, Moving, Longer
<1>2. Len(d.out) <= Len(next.out) /\ Len(next.out) <= Len(last.out)
  BY DEF Moving, Longer
<1>3. Longer(d.out, last.out)
  BY <1>1, <1>2 DEF Moving, Longer
<1>4. ASSUME NEW i \in Len(d.out) + 1 .. Len(last.out), last.out[i].op \in Making
      PROVE  last.out[i].item \in R
  <2>1. CASE i <= Len(next.out)
    <3>1. i \in Len(d.out) + 1 .. Len(next.out) /\ i \in 1 .. Len(next.out)
      BY <1>1, <2>1
    <3>2. last.out[i] = next.out[i]
      BY <3>1 DEF Moving, Longer
    <3>. QED  BY <1>4, <3>1, <3>2 DEF Moving
  <2>2. CASE ~(i <= Len(next.out))
    <3>1. i \in Len(next.out) + 1 .. Len(last.out)
      BY <1>1, <2>2
    <3>. QED  BY <1>4, <3>1 DEF Moving
  <2>. QED  BY <2>1, <2>2
<1>5. Mine(last.ui) \subseteq Mine(d.ui) \cup R /\ d.ui.queryErrors \subseteq last.ui.queryErrors
  BY DEF Moving
<1>6. Moving(d, last, R)
  BY <1>3, <1>4, <1>5 DEF Moving
<1>7. Len(d.out) < Len(next.out) \/ Len(next.out) < Len(last.out) => Len(d.out) < Len(last.out)
  BY <1>1, <1>2
<1>8. Going(d, next, R) /\ Going(next, last, R) => Going(d, last, R)
  BY <1>6, <1>7 DEF Going
<1>. QED  BY <1>2, <1>6, <1>8

\* The runs behind the tabs and the previews, after one intent.
LEMMA ChangeMoves ==
    ASSUME NEW u, NEW M, NEW next, NEW x, ScreenIs(u, M), Change(u, next, x)
    PROVE  /\ Mine(next) \subseteq Mine(u) \cup RunOf(x)
           /\ x.cmd # "OpenTab" => Watched(next) \subseteq Watched(u)
<1>. DEFINE Moves == /\ Mine(next) \subseteq Mine(u) \cup RunOf(x)
                     /\ x.cmd # "OpenTab" => Watched(next) \subseteq Watched(u)
<1>. SUFFICES Moves
  OBVIOUS
<1>1. TabsOf(next) \subseteq TabsOf(u) => Moves
  BY DEF Mine, Watched
<1>2. CASE Focused(u, next)
  BY <1>1, <1>2 DEF Focused, TabsOf
<1>3. ASSUME NEW content, OpenedAs(u, next, content), IsTab(content), content.query = None,
             content.kind = "Preview" => x.cmd = "OpenTab"
      PROVE  Moves
  <2>. DEFINE new == [content EXCEPT !.id = u.nextTab + 1]
  <2>1. new.query = None /\ new.kind = content.kind
    BY <1>3 DEF IsTab
  <2>2. TabsOf(next) = TabsOf(u) \cup {new}
    BY <1>3 DEF OpenedAs
  <2>. HIDE DEF new
  <2>. QED  BY <1>3, <2>1, <2>2 DEF Mine, Watched
<1>4. CASE \E id : Closed(u, next, id)
  BY <1>1, <1>4 DEF Closed
<1>5. ASSUME NEW was \in TabsOf(u), NEW tab, Rewritten(u, next, tab), tab.kind = was.kind, tab.conn = was.conn,
             tab.query \in {was.query} \cup RunOf(x)
      PROVE  Moves
  <2>1. TabsOf(next) \subseteq TabsOf(u) \cup {tab}
    BY <1>5 DEF Rewritten
  <2>2. Mine(next) \subseteq Mine(u) \cup RunOf(x)
    BY <1>5, <2>1 DEF Mine
  <2>3. Watched(next) \subseteq Watched(u)
    BY <1>5, <2>1 DEF Watched
  <2>. QED  BY <2>2, <2>3
<1>6. CASE Inserted(u, next)
  <2>1. PICK was \in TabsOf(u), tab \in TabsOf(next) :
                /\ tab.kind = was.kind /\ tab.conn = was.conn /\ tab.query = was.query /\ Rewritten(u, next, tab)
    BY <1>6 DEF Inserted
  <2>. QED  BY <1>5, <2>1
<1>7. CASE WrittenIn(u, next)
  <2>1. PICK was \in TabsOf(u), tab \in TabsOf(next) :
                /\ tab.kind = was.kind /\ tab.conn = was.conn /\ tab.query = was.query /\ Rewritten(u, next, tab)
    BY <1>7 DEF WrittenIn
  <2>. QED  BY <1>5, <2>1
<1>8. CASE IsRun(x) /\ Started(u, next, x.at.item)
  <2>1. PICK was \in Active(u) : Rewritten(u, next, [was EXCEPT !.query = x.at.item])
    BY <1>8 DEF Started
  <2>2. was \in TabsOf(u) /\ IsTab(was)
    BY TabIsTab DEF Active
  <2>. DEFINE tab == [was EXCEPT !.query = x.at.item]
  <2>3. tab.kind = was.kind /\ tab.conn = was.conn /\ tab.query = x.at.item
    BY <2>2 DEF IsTab
  <2>4. Rewritten(u, next, tab)
    BY <2>1
  <2>. HIDE DEF tab
  <2>5. tab.query \in RunOf(x)
    BY <1>8, <2>3 DEF RunOf
  <2>. QED  BY <1>5, <2>2, <2>3, <2>4, <2>5
<1>9. Effect(u, next, x) => Moves
  <2>. HIDE DEF Moves
  <2>. QED  BY <1>2, <1>3, <1>4, <1>6 DEF Effect
<1>. HIDE DEF Moves
<1>. QED  BY <1>2, <1>7, <1>8, <1>9 DEF Change

LEMMA IntentGoes ==
    ASSUME NEW d, NEW M, NEW next, NEW x, NEW u, NEW q, NEW may, NEW R, IsDone(d, M),
           Change(d.ui, next.ui, x), LongerBy(d.out, next.out, x), IsIntent(x, u, q, may), ModalOK(u),
           RunOf(x) \subseteq R
    PROVE  /\ Moving(d, next, R)
           /\ x.cmd # "OpenTab" => Watched(next.ui) \subseteq Watched(d.ui)
           /\ x.cmd = "App" => Len(d.out) < Len(next.out)
<1>1. /\ Mine(next.ui) \subseteq Mine(d.ui) \cup R
      /\ x.cmd # "OpenTab" => Watched(next.ui) \subseteq Watched(d.ui)
  BY ChangeMoves DEF IsDone
<1>2. d.ui.queryErrors \subseteq next.ui.queryErrors
  BY DEF Change
<1>3. x.cmd = "App" /\ x.at.op \in Making => IsRun(x)
  BY DEF Making, IsIntent, AppOps, ModalOK, IsRun, IsCommand, PaneCommands, TabCommands
<1>4. ASSUME NEW i \in Len(d.out) + 1 .. Len(next.out), next.out[i].op \in Making
      PROVE  next.out[i].item \in R
  <2>1. x.cmd = "App" /\ next.out[i] = x.at
    BY <1>4 DEF LongerBy, Making
  <2>2. x.at.item \in RunOf(x)
    BY <1>3, <1>4, <2>1 DEF RunOf
  <2>. QED  BY <2>1, <2>2
<1>5. Moving(d, next, R)
  BY <1>1, <1>2, <1>4 DEF Moving, LongerBy
<1>6. x.cmd = "App" => Len(d.out) < Len(next.out)
  <2>1. Len(d.out) \in Nat /\ Len(next.out) \in Nat
    BY DEF IsDone, IsSeq, LongerBy, Longer
  <2>. QED  BY <2>1 DEF LongerBy
<1>. QED  BY <1>1, <1>5, <1>6

LEMMA ListGoes ==
    ASSUME NEW d, NEW M, NEW list, NEW after, NEW u, NEW q, NEW may, NEW R,
           Carries2(d, M, list, after), Intended(list, u, q, may), ModalOK(u),
           \A k \in 1 .. Len(list) : RunOf(list[k]) \subseteq R
    PROVE  Going(d, after[Len(list)], R)
<1>1. Len(list) \in Nat
  BY DEF Intended, IsSeq
<1>2. \A k \in 0 .. Len(list) : IsDone(after[k], M \cup RunsUpTo(list, k))
  BY DEF Carries2
<1>3. after[0] = d
  BY DEF Carries2
<1>3a. IsDone(d, M \cup RunsUpTo(list, 0))
  <2>1. 0 \in 0 .. Len(list)
    BY <1>1
  <2>. QED  BY <1>2, <1>3, <2>1
<1>. DEFINE Shut(k) == (\A j \in 1 .. k : list[j].cmd # "OpenTab") => Watched(after[k].ui) \subseteq Watched(d.ui)
            Asked(k) == (\E j \in 1 .. k : list[j].cmd = "App") => Len(d.out) < Len(after[k].out)
            Good == {k \in 0 .. Len(list) : Moving(d, after[k], R) /\ Shut(k) /\ Asked(k)}
<1>4. 0 \in Good
  <2>1. 0 \in 0 .. Len(list)
    BY <1>1
  <2>2. Moving(d, after[0], R) /\ Shut(0) /\ Asked(0)
    BY <1>3, <1>3a, GoingStays
  <2>. QED  BY <2>1, <2>2
<1>5. ASSUME NEW k \in 1 .. Len(list), k - 1 \in Good PROVE k \in Good
  <2>1. k \in 0 .. Len(list) /\ k - 1 \in 0 .. Len(list)
    BY <1>1
  <2>2. /\ Moving(after[k - 1], after[k], R)
        /\ list[k].cmd # "OpenTab" => Watched(after[k].ui) \subseteq Watched(after[k - 1].ui)
        /\ list[k].cmd = "App" => Len(after[k - 1].out) < Len(after[k].out)
    <3>1. Change(after[k - 1].ui, after[k].ui, list[k]) /\ LongerBy(after[k - 1].out, after[k].out, list[k])
      BY DEF Carries2
    <3>2. IsIntent(list[k], u, q, may)
      BY DEF Intended
    <3>3. IsDone(after[k - 1], M \cup RunsUpTo(list, k - 1))
      BY <1>2, <2>1
    <3>. QED  BY <3>1, <3>2, <3>3, IntentGoes
  <2>3. Moving(d, after[k - 1], R) /\ Shut(k - 1) /\ Asked(k - 1)
    BY <1>5
  <2>4. /\ Moving(d, after[k], R)
        /\ Len(d.out) <= Len(after[k - 1].out) /\ Len(after[k - 1].out) <= Len(after[k].out)
    BY <1>3a, <2>2, <2>3, GoingTrans
  <2>5. Shut(k)
    <3>1. \A j \in 1 .. k - 1 : j \in 1 .. k
      OBVIOUS
    <3>2. k \in 1 .. k
      OBVIOUS
    <3>. QED  BY <2>2, <2>3, <3>1, <3>2
  <2>6. Asked(k)
    <3>1. \A j \in 1 .. k : j \in 1 .. k - 1 \/ j = k
      OBVIOUS
    <3>2. Len(d.out) \in Nat /\ Len(after[k - 1].out) \in Nat /\ Len(after[k].out) \in Nat
      BY <1>3a, <2>3, <2>4 DEF IsDone, IsSeq, Moving, Longer
    <3>. QED  BY <2>2, <2>3, <2>4, <3>1, <3>2
  <2>. QED  BY <2>1, <2>4, <2>5, <2>6
<1>6. 0 .. Len(list) \subseteq Good
  BY <1>1, <1>4, <1>5, InductTo
<1>7. Moving(d, after[Len(list)], R) /\ Shut(Len(list)) /\ Asked(Len(list))
  <2>1. Len(list) \in Good
    BY <1>1, <1>6
  <2>. QED  BY <2>1
<1>8. (\E j \in 1 .. Len(list) : list[j].cmd = "OpenTab") => \E j \in 1 .. Len(list) : list[j].cmd = "App"
  BY DEF Intended
<1>. QED  BY <1>7, <1>8 DEF Going

LEMMA BurstGoes ==
    ASSUME NEW u, NEW shown, NEW burst, Len(burst) \in Nat, ScreenIs(u, minted),
           \A i \in 1 .. Len(burst) : IsEvent(burst[i]), FreshRuns(u, shown, burst)
    PROVE  Going(Just(u), CarriedBy(u, shown, burst), BurstRuns(u, shown, burst, Len(burst)))
<1>1. PICK after : /\ CarriesEach(u, shown, burst, after)
                   /\ CarriedBy(u, shown, burst) = after[Len(burst)]
  BY CarriedIs
<1>2. /\ after[0] = Just(u)
      /\ \A i \in 0 .. Len(burst) : IsDone(after[i], minted \cup BurstRuns(u, shown, burst, i))
  BY <1>1 DEF CarriesEach
<1>. DEFINE R == BurstRuns(u, shown, burst, Len(burst))
            Good == {i \in 0 .. Len(burst) : Going(Just(u), after[i], R)}
<1>2a. ASSUME NEW i \in 1 .. Len(burst) PROVE RunsOf(u, shown, burst, i) \subseteq R
  BY DEF BurstRuns
<1>2b. IsDone(Just(u), minted \cup BurstRuns(u, shown, burst, 0))
  <2>1. 0 \in 0 .. Len(burst)
    OBVIOUS
  <2>. QED  BY <1>2, <2>1
<1>. HIDE DEF R
<1>3. 0 \in Good
  BY <1>2, <1>2b, GoingStays
<1>4. ASSUME NEW i \in 1 .. Len(burst), i - 1 \in Good PROVE i \in Good
  <2>1. i \in 0 .. Len(burst) /\ ModalOK(u)
    BY DEF ScreenIs
  <2>. DEFINE list == Intents(u, shown, burst[i], i)
  <2>2. Intended(list, u, Fresh(i).query, {"Edit", "SetFilter"})
    BY IntentsAre
  <2>3. PICK M, inner : Carries2(after[i - 1], M, list, inner) /\ after[i] = inner[Len(list)]
    BY <1>1 DEF CarriesEach
  <2>4. RunsUpTo(list, Len(list)) \subseteq R
    BY <1>2a DEF RunsOf
  <2>. HIDE DEF list
  <2>5. \A k \in 1 .. Len(list) : RunOf(list[k]) \subseteq R
    BY <2>4 DEF RunsUpTo
  <2>6. Going(after[i - 1], after[i], R)
    BY <2>1, <2>2, <2>3, <2>5, ListGoes
  <2>7. Going(Just(u), after[i - 1], R)
    BY <1>4
  <2>8. Going(Just(u), after[i], R)
    <3>1. Moving(Just(u), after[i - 1], R) /\ Moving(after[i - 1], after[i], R)
      BY <2>6, <2>7 DEF Going
    <3>. QED  BY <1>2b, <2>6, <2>7, <3>1, GoingTrans
  <2>. QED  BY <2>1, <2>8
<1>5. 0 .. Len(burst) \subseteq Good
  BY <1>3, <1>4, InductTo
<1>. QED  BY <1>1, <1>5 DEF R

-----------------------------------------------------------------------------
(* The screen catches up.                                                    *)

\* What was done before a behaviour began, and asked for nothing.
LEMMA BeganGoes ==
    ASSUME NEW u, NEW M, NEW shown, ScreenIs(u, M), Len(scene.before) \in Nat,
           \A i \in 1 .. Len(scene.before) : /\ ~scene.before[i].mouse
                                             /\ scene.before[i].key.code \notin {"r", "Enter"}
    PROVE  Going(Just(u), Began(u, shown), {})
<1>. DEFINE L(d, i) == Intents(d.ui, shown, scene.before[i], 1)
<1>1. PICK after : /\ after[0] = Just(u)
                   /\ \A i \in 1 .. Len(scene.before) :
                         after[i] = CarryAll(after[i - 1], shown, L(after[i - 1], i))
                   /\ Began(u, shown) = after[Len(scene.before)]
  BY BeganSteps
<1>. DEFINE Good == {i \in 0 .. Len(scene.before) : IsDone(after[i], M) /\ Going(Just(u), after[i], {})}
<1>2. IsDone(Just(u), M)
  BY EmptyIs DEF IsDone, Just
<1>2a. 0 \in Good
  BY <1>1, <1>2, GoingStays
<1>3. ASSUME NEW i \in 1 .. Len(scene.before), i - 1 \in Good PROVE i \in Good
  <2>. DEFINE d == after[i - 1]
              list == L(d, i)
              q == Fresh(1).query
  <2>1. IsDone(d, M) /\ ScreenIs(d.ui, M) /\ Going(Just(u), d, {})
    BY <1>3 DEF IsDone
  <2>2. IsEvent(scene.before[i])
    BY DEF IsEvent
  <2>3. Intended(list, d.ui, q, {"Edit", "SetFilter"}) /\ OneRun(list) /\ RunFree(list)
    <3>. DEFINE may == {"Edit", "SetFilter"}
    <3>1. "Edit" \in may /\ "SetFilter" \in may
      OBVIOUS
    <3>2. ~scene.before[i].mouse /\ scene.before[i].key.code \notin {"r", "Enter"}
      OBVIOUS
    <3>. HIDE DEF may, d
    <3>3. Intended(list, d.ui, q, may) /\ OneRun(list)
      BY <2>1, <2>2, <3>1, IntentsAre
    <3>4. RunFree(list)
      BY <2>1, <2>2, <3>1, <3>2, IntentsAre
    <3>. QED  BY <3>3, <3>4 DEF may
  <2>4. after[i] = CarryAll(d, shown, list)
    BY <1>1
  <2>. HIDE DEF d, list, q
  <2>5. \A k \in 1 .. Len(list) : ~IsRun(list[k])
    BY <2>3 DEF RunFree
  <2>6. ModalOK(d.ui)
    BY <2>1 DEF ScreenIs
  <2>7. PICK inner : /\ Carries2(d, M, list, inner)
                     /\ CarryAll(d, shown, list) = inner[Len(list)]
    BY <2>1, <2>3, <2>5, <2>6, CarryAllIs
  <2>8. \A k \in 1 .. Len(list) : RunOf(list[k]) \subseteq {}
    BY <2>5 DEF RunOf
  <2>9. Going(d, after[i], {})
    <3>1. Going(d, inner[Len(list)], {})
      BY <2>3, <2>6, <2>7, <2>8, ListGoes
    <3>. QED  BY <2>4, <2>7, <3>1
  <2>10. IsDone(after[i], M)
    <3>1. RunsUpTo(list, Len(list)) = {}
      BY <2>8 DEF RunsUpTo
    <3>2. Len(list) \in 0 .. Len(list)
      BY <2>3 DEF Intended, IsSeq
    <3>3. IsDone(inner[Len(list)], M \cup RunsUpTo(list, Len(list)))
      BY <2>7, <3>2 DEF Carries2
    <3>. QED  BY <2>4, <2>7, <3>1, <3>3
  <2>11. Going(Just(u), after[i], {})
    <3>1. Moving(Just(u), d, {}) /\ Moving(d, after[i], {})
      BY <2>1, <2>9 DEF Going
    <3>. QED  BY <1>2, <2>1, <2>9, <3>1, GoingTrans
  <2>. QED  BY <2>10, <2>11
<1>4. 0 .. Len(scene.before) \subseteq Good
  BY <1>2a, <1>3, InductTo
<1>. QED  BY <1>1, <1>4

\* The inductive invariant.  A run has an id nobody had: until the store has taken
\* it from the queue it knows nothing of it, so that it cannot have failed unsaid.
Caught ==
    /\ QueriesAre
    /\ Mine(ui) \subseteq QueryIds
    /\ \A q \in QueryIds : Heard(q) => q \in minted
    /\ \A i \in 1 .. Len(inbox) : inbox[i].op \in Making => inbox[i].item \in minted

\* What there is to catch up with, once the store has published nothing new.
UpToDate ==
    /\ \A q \in Mine(ui) : queries[q].data = "Failed" => q \in ui.queryErrors
    /\ inbox = <<>> => \A c \in Watched(ui) : conns[c].status # "Closed"

LEMMA CatchesUpIs == ScreenCatchesUp <=> (~published => UpToDate)
  BY DEF ScreenCatchesUp, UpToDate, Watched

LEMMA RunsAreNew ==
    ASSUME NEW u, NEW shown, NEW burst, Len(burst) \in Nat, ScreenIs(u, minted),
           \A i \in 1 .. Len(burst) : IsEvent(burst[i]), FreshRuns(u, shown, burst),
           NEW q \in BurstRuns(u, shown, burst, Len(burst))
    PROVE  q \in QueryIds /\ q \notin minted /\ q \in Minted(OrdersBy(u, shown, burst))
<1>1. PICK i \in 1 .. Len(burst) : q \in RunsOf(u, shown, burst, i)
  BY DEF BurstRuns
<1>2. /\ q = Fresh(i).query /\ q # None
      /\ q \in Minted(OrdersBy(u, shown, burst))
  BY <1>1, RunsOfIs
<1>. QED  BY <1>2, FreshIs

\* One iteration.
LEMMA CarriesGoes ==
    ASSUME NEW u, NEW shown, NEW burst, Len(burst) \in Nat, ScreenIs(u, minted),
           \A i \in 1 .. Len(burst) : IsEvent(burst[i]), Carries(u, shown, burst), IsSeq(inbox),
           Mine(u) \subseteq QueryIds,
           \A i \in 1 .. Len(inbox) : inbox[i].op \in Making => inbox[i].item \in minted
    PROVE  /\ minted \subseteq minted'
           /\ u.queryErrors \subseteq ui'.queryErrors
           /\ \A q \in Mine(ui') : q \in Mine(u) \/ (q \in QueryIds /\ q \notin minted)
           /\ inbox' = <<>> => inbox = <<>> /\ Watched(ui') \subseteq Watched(u)
           /\ \A i \in 1 .. Len(inbox') : inbox'[i].op \in Making => inbox'[i].item \in minted'
<1>. DEFINE done == CarriedBy(u, shown, burst)
            out == done.out
            R == BurstRuns(u, shown, burst, Len(burst))
            more == Minted(OrdersBy(u, shown, burst))
<1>1. FreshRuns(u, shown, burst) /\ ui' = done.ui /\ minted' = minted \cup more
  BY CarriesIs
<1>2. Going(Just(u), done, R)
  BY <1>1, BurstGoes
<1>3. \A q \in R : q \in QueryIds /\ q \notin minted /\ q \in more
  BY <1>1, RunsAreNew
<1>4. /\ IsSeq(out) /\ IsSeq(inbox')
      /\ Len(inbox') = Len(inbox) + Len(out)
      /\ \A i \in 1 .. Len(inbox) : inbox'[i] = inbox[i]
      /\ \A i \in Len(inbox) + 1 .. Len(inbox') :
            i - Len(inbox) \in 1 .. Len(out) /\ inbox'[i] = out[i - Len(inbox)]
  BY CarriesOut
<1>5. Just(u).ui = u /\ Just(u).out = <<>> /\ Len(<<>>) = 0
  BY EmptyIs DEF Just
<1>. HIDE DEF R, more, done
<1>6. /\ u.queryErrors \subseteq done.ui.queryErrors
      /\ Mine(done.ui) \subseteq Mine(u) \cup R
      /\ \A i \in 1 .. Len(out) : out[i].op \in Making => out[i].item \in R
      /\ Watched(done.ui) \subseteq Watched(u) \/ 0 < Len(out)
  BY <1>2, <1>5 DEF Going, Moving
<1>7. inbox' = <<>> => inbox = <<>> /\ Watched(ui') \subseteq Watched(u)
  <2>1. Len(inbox) \in Nat /\ Len(out) \in Nat
    BY <1>4 DEF IsSeq
  <2>2. inbox' = <<>> => Len(inbox) + Len(out) = 0
    BY <1>4, <1>5
  <2>3. inbox' = <<>> => Len(inbox) = 0 /\ ~(0 < Len(out))
    BY <2>1, <2>2
  <2>. QED  BY <1>1, <1>6, <2>3, EmptyIs
<1>8. ASSUME NEW i \in 1 .. Len(inbox'), inbox'[i].op \in Making PROVE inbox'[i].item \in minted'
  <2>1. Len(inbox) \in Nat /\ Len(inbox') \in Nat
    BY <1>4 DEF IsSeq
  <2>2. CASE i \in 1 .. Len(inbox)
    BY <1>1, <1>4, <1>8, <2>2
  <2>3. CASE i \in Len(inbox) + 1 .. Len(inbox')
    <3>1. i - Len(inbox) \in 1 .. Len(out) /\ inbox'[i] = out[i - Len(inbox)]
      BY <1>4, <2>3
    <3>2. inbox'[i].item \in R
      BY <1>6, <1>8, <3>1
    <3>. QED  BY <1>1, <1>3, <3>2
  <2>. QED  BY <2>1, <2>2, <2>3
<1>. QED  BY <1>1, <1>3, <1>6, <1>7, <1>8

LEMMA CatchInit == FrontendInit => Caught /\ ScreenCatchesUp
<1>. SUFFICES ASSUME FrontendInit PROVE Caught /\ ScreenCatchesUp
  OBVIOUS
<1>. DEFINE screen == Raised(NewScreen, snap)
            began == Began(screen, snap)
<1>1. /\ Len(scene.before) \in Nat
      /\ \A i \in 1 .. Len(scene.before) :
            ~scene.before[i].mouse /\ scene.before[i].key.code \notin {"r", "Enter"}
  BY FrontendAssumption DEF FrontendInit
<1>2. began.out = <<>> /\ ui = began.ui
  BY DEF FrontendInit
<1>3. ScreenIs(screen, {}) /\ Thinned(NewScreen, screen)
  BY NewScreenIs, RaisedIs
<1>. HIDE DEF screen
<1>4. Going(Just(screen), began, {})
  BY <1>1, <1>3, BeganGoes
<1>5. Just(screen).ui = screen /\ Just(screen).out = <<>> /\ Len(<<>>) = 0
  BY EmptyIs DEF Just
<1>. HIDE DEF began
<1>6. Mine(ui) \subseteq Mine(screen) /\ Watched(ui) \subseteq Watched(screen)
  BY <1>2, <1>4, <1>5 DEF Going, Moving
<1>7. TabsOf(screen) = {}
  <2>1. TabsOf(NewScreen) = {}
    BY <1>5 DEF NewScreen, TabsOf
  <2>. QED  BY <1>3, <2>1 DEF Thinned
<1>8. Mine(ui) = {} /\ Watched(ui) = {}
  BY <1>6, <1>7 DEF Mine, Watched
<1>9. queries = [q \in QueryIds |-> NoQuery] /\ busy = {} /\ inbox = <<>>
  BY DEF FrontendInit, Underway, NothingYet
<1>10. IsQuery(NoQuery) /\ NoQuery.data = "absent"
  BY DEF IsQuery, NoQuery
<1>11. QueriesAre
  <2>. HIDE DEF NoQuery
  <2>. QED  BY <1>9, <1>10 DEF QueriesAre
<1>12. \A q \in QueryIds : ~Heard(q)
  <2>. HIDE DEF NoQuery
  <2>. QED  BY <1>9, <1>10 DEF Heard, Known
<1>13. Len(inbox) = 0
  BY <1>5, <1>9
<1>14. Caught
  BY <1>8, <1>11, <1>12, <1>13 DEF Caught
<1>15. UpToDate
  BY <1>8 DEF UpToDate
<1>. QED  BY <1>14, <1>15, CatchesUpIs

LEMMA CatchTyped ==
    ASSUME FrontInv, Caught, ScreenCatchesUp, Typed
    PROVE  Caught' /\ ScreenCatchesUp'
<1>1. PICK u, burst : /\ Carries(u, snap, burst)
                      /\ ScreenIs(u, minted) /\ Still(ui, u)
                      /\ Len(burst) \in Nat
                      /\ \A i \in 1 .. Len(burst) : IsEvent(burst[i])
  BY TypedIs DEF FrontInv
<1>2. UNCHANGED <<conns, queries, busy, published>>
  BY DEF Typed, vars, connVars, queryVars, kernelVars
<1>3. Mine(u) = Mine(ui) /\ Watched(u) = Watched(ui) /\ ui.queryErrors \subseteq u.queryErrors
  BY <1>1 DEF Still, Mine, Watched, TabsOf
<1>4. /\ minted \subseteq minted'
      /\ u.queryErrors \subseteq ui'.queryErrors
      /\ \A q \in Mine(ui') : q \in Mine(u) \/ (q \in QueryIds /\ q \notin minted)
      /\ inbox' = <<>> => inbox = <<>> /\ Watched(ui') \subseteq Watched(u)
      /\ \A i \in 1 .. Len(inbox') : inbox'[i].op \in Making => inbox'[i].item \in minted'
  BY <1>1, <1>3, CarriesGoes DEF FrontInv, Caught
<1>5. Caught'
  BY <1>2, <1>3, <1>4 DEF Caught, QueriesAre, Heard, Known
<1>6. ASSUME UpToDate PROVE UpToDate'
  <2>1. ASSUME NEW q \in Mine(ui'), queries'[q].data = "Failed" PROVE q \in ui'.queryErrors
    <3>1. q \notin QueryIds \/ q \in minted
      BY <1>2, <2>1 DEF Caught, Heard, Known
    <3>2. q \in Mine(ui)
      BY <1>3, <1>4, <3>1
    <3>. QED  BY <1>2, <1>3, <1>4, <1>6, <2>1, <3>2 DEF UpToDate
  <2>2. inbox' = <<>> => \A c \in Watched(ui') : conns'[c].status # "Closed"
    BY <1>2, <1>3, <1>4, <1>6 DEF UpToDate
  <2>. QED  BY <2>1, <2>2 DEF UpToDate
<1>7. ScreenCatchesUp'
  <2>1. ~published => UpToDate
    BY CatchesUpIs
  <2>2. (~published => UpToDate)'
    BY <1>2, <1>6, <2>1
  <2>. QED  BY <2>2, CatchesUpIs, PTL
<1>. QED  BY <1>5, <1>7

LEMMA CatchLooked ==
    ASSUME FrontInv, Caught, Looked
    PROVE  Caught' /\ ScreenCatchesUp'
<1>1. PICK drawn, u, burst : /\ Still(ui, drawn)
                             /\ ScreenIs(drawn, minted)
                             /\ u = Raised(drawn, snap')
                             /\ Carries(u, snap', burst)
                             /\ ScreenIs(u, minted)
                             /\ Len(burst) \in Nat
                             /\ \A i \in 1 .. Len(burst) : IsEvent(burst[i])
  BY LookedIs DEF FrontInv
<1>2. UNCHANGED <<conns, queries, busy>>
  BY DEF Looked, vars, connVars, queryVars, kernelVars
<1>3. /\ snap'.conns = conns
      /\ \A q \in QueryIds : snap'.queries[q] = IF Known(q) THEN queries[q] ELSE NoQuery
  BY DEF Looked, View
<1>4. /\ \A q \in Mine(u) : snap'.queries[q].data = "Failed" => q \in u.queryErrors
      /\ \A c \in Watched(u) : snap'.conns[c].status # "Closed"
      /\ Mine(u) \subseteq Mine(drawn)
  BY <1>1, SnapshotIsTold
<1>5. Mine(u) \subseteq QueryIds
  BY <1>1, <1>4 DEF Still, Mine, TabsOf, Caught
<1>6. /\ minted \subseteq minted'
      /\ u.queryErrors \subseteq ui'.queryErrors
      /\ \A q \in Mine(ui') : q \in Mine(u) \/ (q \in QueryIds /\ q \notin minted)
      /\ inbox' = <<>> => inbox = <<>> /\ Watched(ui') \subseteq Watched(u)
      /\ \A i \in 1 .. Len(inbox') : inbox'[i].op \in Making => inbox'[i].item \in minted'
  BY <1>1, <1>5, CarriesGoes DEF FrontInv, Caught
<1>7. Caught'
  BY <1>2, <1>5, <1>6 DEF Caught, QueriesAre, Heard, Known
<1>8. ASSUME NEW q \in Mine(ui'), queries'[q].data = "Failed" PROVE q \in ui'.queryErrors
  <2>1. q \notin QueryIds \/ q \in minted
    BY <1>2, <1>8 DEF Caught, Heard, Known
  <2>2. q \in Mine(u) /\ q \in QueryIds
    BY <1>5, <1>6, <2>1
  <2>3. snap'.queries[q].data = "Failed"
    BY <1>2, <1>3, <1>8, <2>2 DEF Known
  <2>. QED  BY <1>4, <1>6, <2>2, <2>3
<1>9. inbox' = <<>> => \A c \in Watched(ui') : conns'[c].status # "Closed"
  BY <1>2, <1>3, <1>4, <1>6
<1>10. UpToDate'
  BY <1>8, <1>9 DEF UpToDate
<1>. QED  BY <1>7, <1>10, CatchesUpIs, PTL

LEMMA CatchLoop ==
    ASSUME FrontInv, Caught, Loop
    PROVE  Caught' /\ ScreenCatchesUp'
<1>1. Taken /\ UNCHANGED <<ui, minted>> /\ published' = TRUE
  BY LoopTakes
<1>2. /\ QueriesAre'
      /\ \A q \in QueryIds :
            Heard(q)' => \/ Heard(q)
                         \/ /\ inbox # <<>>
                            /\ Head(inbox).op \in {"Run", "Estimate"}
                            /\ Head(inbox).item = q
  BY LoopLearns DEF Caught
<1>3. inbox # <<>> => Len(inbox) \in Nat \ {0} /\ Head(inbox) = inbox[1]
  BY EmptyIs DEF FrontInv, IsSeq
<1>4. ASSUME NEW q \in QueryIds, Heard(q)' PROVE q \in minted'
  <2>1. inbox # <<>> /\ Head(inbox).op \in Making => Head(inbox).item \in minted
    BY <1>3 DEF Caught
  <2>. QED  BY <1>1, <1>2, <1>4, <2>1 DEF Caught, Making
<1>5. ASSUME NEW i \in 1 .. Len(inbox'), inbox'[i].op \in Making PROVE inbox'[i].item \in minted'
  <2>1. CASE inbox' = inbox
    BY <1>1, <1>5, <2>1 DEF Caught
  <2>2. CASE inbox # <<>> /\ inbox' = Tail(inbox)
    <3>1. i \in 1 .. Len(inbox) - 1 /\ inbox'[i] = inbox[i + 1]
      BY <2>2, TailIs DEF FrontInv
    <3>2. i + 1 \in 1 .. Len(inbox)
      BY <1>3, <2>2, <3>1
    <3>. QED  BY <1>1, <1>5, <3>1, <3>2 DEF Caught
  <2>. QED  BY <1>1, <2>1, <2>2 DEF Taken
<1>6. Caught'
  BY <1>1, <1>2, <1>4, <1>5 DEF Caught
<1>7. ScreenCatchesUp'
  BY <1>1 DEF ScreenCatchesUp
<1>. QED  BY <1>6, <1>7

LEMMA CatchAgent ==
    ASSUME FrontInv, Caught, ScreenCatchesUp, Agent
    PROVE  Caught' /\ ScreenCatchesUp'
<1>1. PICK c, q, s : /\ inbox' = Append(inbox, Action("Run", c, q, s))
                     /\ minted' = minted \cup {q}
  BY DEF Agent
<1>2. UNCHANGED <<conns, queries, busy, ui, published>>
  BY DEF Agent, vars, connVars, queryVars, kernelVars
<1>3. Action("Run", c, q, s).item = q
  BY DEF Action
<1>. DEFINE new == Action("Run", c, q, s)
<1>. HIDE DEF new
<1>4. /\ Len(inbox) \in Nat /\ Len(inbox') = Len(inbox) + 1
      /\ \A i \in 1 .. Len(inbox) : inbox'[i] = inbox[i]
      /\ inbox'[Len(inbox) + 1] = new
  BY <1>1, AppendIs DEF FrontInv, IsSeq, new
<1>5. ASSUME NEW i \in 1 .. Len(inbox'), inbox'[i].op \in Making PROVE inbox'[i].item \in minted'
  <2>1. i \in 1 .. Len(inbox) \/ i = Len(inbox) + 1
    BY <1>4
  <2>2. new.item = q
    BY <1>3 DEF new
  <2>. QED  BY <1>1, <1>4, <1>5, <2>1, <2>2 DEF Caught
<1>6. Caught'
  BY <1>1, <1>2, <1>5 DEF Caught, QueriesAre, Heard, Known
<1>7. inbox' # <<>>
  BY <1>4, EmptyIs
<1>8. ScreenCatchesUp'
  BY <1>2, <1>7 DEF ScreenCatchesUp
<1>. QED  BY <1>6, <1>8

LEMMA CatchNext == FrontInv /\ Caught /\ ScreenCatchesUp /\ [FrontendNext]_allVars => Caught' /\ ScreenCatchesUp'
<1>. SUFFICES ASSUME FrontInv, Caught, ScreenCatchesUp, [FrontendNext]_allVars
              PROVE  Caught' /\ ScreenCatchesUp'
  OBVIOUS
<1>1. CASE UNCHANGED <<conns, queries, busy, inbox, ui, published, minted>>
  BY <1>1 DEF Caught, QueriesAre, Heard, Known, ScreenCatchesUp
<1>2. CASE UNCHANGED allVars
  <2>1. UNCHANGED <<conns, queries, busy, inbox, ui, published, minted>>
    BY <1>2 DEF allVars, frontVars, queueVars, vars, connVars, queryVars, kernelVars
  <2>. QED  BY <1>1, <2>1
<1>3. CASE (\E id \in BusyId : Tasks(id)) \/ Pool \/ Elsewhere
  BY <1>1, <1>3, OthersLeave
<1>. QED  BY <1>2, <1>3, CatchTyped, CatchLooked, CatchLoop, CatchAgent DEF FrontendNext

\* The screen catches up with the store: once it shows what there is, a run that
\* failed behind one of its tabs has been said, whatever was pressed while the
\* snapshot was on its way and whichever tab was in front; and once nothing is asked
\* for either, no preview of a closed connection is up (ui.rs raise_query_errors,
\* close_disconnected_tabs).
THEOREM ScreenKeepsUp == FrontendSpec => []ScreenCatchesUp
<1>1. FrontendInit => FrontInv /\ Caught /\ ScreenCatchesUp
  BY FrontInit, CatchInit
<1>2. FrontInv /\ Caught /\ ScreenCatchesUp /\ [FrontendNext]_allVars => (FrontInv /\ Caught /\ ScreenCatchesUp)'
  BY FrontNext, CatchNext
<1>. QED  BY <1>1, <1>2, PTL DEF FrontendSpec

=============================================================================
