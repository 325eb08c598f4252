--------------------------- MODULE GroupingProofs ---------------------------
(***************************************************************************)
(* Proofs about Grouping: for every batch and every window, the union-find *)
(* stays a forest, the groups are the connected components, and the list   *)
(* returned is the one GroupingSpec names.                                 *)
(*                                                                         *)
(* The argument needs no induction over paths.  A witness function rt      *)
(* names the root of every identifier; each action says how rt moves with  *)
(* the links.  What is joined is measured by sets: soundness by the sets   *)
(* closed under the relation, which rt never crosses, completeness by the  *)
(* fibres of rt, which no scanned related pair crosses.                    *)
(*                                                                         *)
(* The order of the result needs two facts more: a batch has one order by  *)
(* time (OneOrder), and an alert that is filed takes the next rank in its  *)
(* group and a group the next one in the list (NthGrows), so that at each  *)
(* step what is filed is what the specification picks from the alerts so   *)
(* far (Filing).                                                           *)
(***************************************************************************)
EXTENDS Grouping, FiniteSetTheorems, FunctionTheorems, WellFoundedInduction, TLAPS

Here == IdsOf(alerts)

-----------------------------------------------------------------------------
(* The inductive invariant, in named parts.                                *)

\* The call is past Sort.
Started == pc # "start" /\ alerts # <<>>

Shape ==
  /\ alerts \in Batches
  /\ pc \in PCs
  /\ i \in Nat /\ j \in Nat
  /\ groups \in Seq([root : Ids, members : Seq(Alert)])

\* Before Sort, and in a call without alerts, nothing has happened.
Idle ==
  ~Started =>
    /\ pc \in {"start", "done"}
    /\ pc = "done" => alerts = <<>>
    /\ sorted = <<>> /\ parent = <<>> /\ groups = <<>>
    /\ i = 1 /\ j = 2 /\ cur = None /\ rootA = None

\* The sorted list is the batch, in time order.
Sorted ==
  Started =>
    /\ sorted \in Seq(Alert)
    /\ N > 0
    /\ \A k \in 1..N : \E p \in DOMAIN alerts : sorted[k] = alerts[p]
    /\ \A p \in DOMAIN alerts : \E k \in 1..N : alerts[p] = sorted[k]
    /\ \A k, l \in 1..N : k < l => ParseTs(sorted[k].ts) <= ParseTs(sorted[l].ts)

\* The positions of the loops.
Positions ==
  Started =>
    /\ pc \in {"scan", "findA", "findB"} => i < j /\ groups = <<>>
    /\ pc = "scan" => /\ i \in 1..(N + 1) /\ j \in 2..(N + 2)
                      /\ cur = None /\ rootA = None
    /\ pc \in {"findA", "findB"} =>
         /\ i \in 1..N /\ j \in 1..N
         /\ Related(sorted[i], sorted[j])
    /\ pc = "collect" => i \in 1..N /\ j \in 2..(N + 2)
    /\ pc = "done" => i = N + 1 /\ j \in 2..(N + 2)
    /\ pc \in {"collect", "done", "findA"} => rootA = None
    /\ pc \in Finding => cur \in Here
    /\ pc = "findB" => rootA \in Here
    /\ pc = "done" => cur = None

\* The pairs of positions the scan has dealt with.
Scanned(p, q) ==
  \/ pc \in {"collect", "done"}
  \/ p < i
  \/ p = i /\ q < j

\* rt names the root of every identifier.
Rooted(rt) ==
  /\ parent \in [Here -> Here]
  /\ rt \in [Here -> Here]
  /\ \A x \in Here : rt[parent[x]] = rt[x]
  /\ \A x \in Here : parent[rt[x]] = rt[x]
  /\ \A x \in Here : parent[x] = x => rt[x] = x

\* No closed set separates an identifier from its root.
Sound(rt) ==
  \A S \in SUBSET Here : Closed(alerts, S) => \A x \in Here : x \in S <=> rt[x] \in S

\* Related alerts the scan has dealt with have one root.
Complete(rt) ==
  \A p, q \in 1..N :
    p < q /\ Scanned(p, q) /\ Related(sorted[p], sorted[q])
      => rt[sorted[p].id] = rt[sorted[q].id]

\* The walk of find stays in the tree it started in.
Walk(rt) ==
  /\ pc = "findA" => rt[cur] = rt[sorted[i].id]
  /\ pc = "findB" => /\ rt[cur] = rt[sorted[j].id]
                     /\ parent[rootA] = rootA
                     /\ rt[sorted[i].id] = rootA
  /\ pc = "collect" => rt[cur] = rt[sorted[i].id]

\* The groups file the alerts collected so far under their roots.
Collected(rt) ==
  /\ \A g, h \in DOMAIN groups : groups[g].root = groups[h].root => g = h
  /\ \A g \in DOMAIN groups : \A k \in DOMAIN groups[g].members :
       \E l \in 1..N : /\ groups[g].members[k] = sorted[l]
                       /\ rt[sorted[l].id] = groups[g].root
  /\ pc \in {"collect", "done"} =>
       \A l \in 1..(i - 1) : \E g \in DOMAIN groups :
         \E k \in DOMAIN groups[g].members : groups[g].members[k] = sorted[l]

Good(rt) == Rooted(rt) /\ Sound(rt) /\ Complete(rt) /\ Walk(rt) /\ Collected(rt)

IInv ==
  /\ Shape /\ Idle /\ Sorted /\ Positions /\ Forest
  /\ Started => \E rt \in [Here -> Here] : Good(rt)

-----------------------------------------------------------------------------
(* Facts about the relation and about batches.                             *)

\* Being related does not depend on the order of the two alerts.
LEMMA RelatedSymmetric ==
  ASSUME NEW a, NEW b
  PROVE  Related(a, b) <=> Related(b, a)
  BY DEF Related, Shared, SecondSignal

\* A batch is a sequence of alerts, and its identifiers are identifiers.
LEMMA BatchFacts ==
  ASSUME alerts \in Batches
  PROVE  /\ alerts \in Seq(Alert)
         /\ DOMAIN alerts = 1..Len(alerts)
         /\ \A p \in DOMAIN alerts : alerts[p] \in Alert /\ alerts[p].id \in Here
         /\ Here \subseteq Ids
         /\ alerts # <<>> => Len(alerts) > 0
  <1>1. alerts \in Seq(Alert)
    BY BatchesAssumption
  <1>2. DOMAIN alerts = 1..Len(alerts) /\ (alerts # <<>> => Len(alerts) > 0)
    BY <1>1
  <1>3. \A p \in DOMAIN alerts : alerts[p] \in Alert
    BY <1>1, <1>2
  <1>4. \A p \in DOMAIN alerts : alerts[p].id \in Here
    BY DEF Here, IdsOf
  <1>5. Here \subseteq Ids
    BY <1>3 DEF Here, IdsOf, Alert
  <1> QED
    BY <1>1, <1>2, <1>3, <1>4, <1>5

\* The time of an alert is an integer.
LEMMA ParseTsInt ==
  ASSUME NEW a \in Alert
  PROVE  ParseTs(a.ts) \in Int
  <1>1. a.ts \in Int \cup {None}
    BY DEF Alert
  <1> QED
    BY <1>1 DEF ParseTs

\* What the sorted list holds.
LEMMA SortedFacts ==
  ASSUME Shape, Sorted, Started
  PROVE  \A k \in 1..N : /\ sorted[k] \in Alert
                          /\ sorted[k].id \in Here
                          /\ ParseTs(sorted[k].ts) \in Int
  <1>1. alerts \in Batches
    BY DEF Shape
  <1> TAKE k \in 1..N
  <1>2. PICK p \in DOMAIN alerts : sorted[k] = alerts[p]
    BY DEF Sorted
  <1> QED
    BY <1>1, <1>2, BatchFacts, ParseTsInt

-----------------------------------------------------------------------------
(* The union-find.                                                         *)

\* Halving a path at c keeps the links a forest with the same roots.
LEMMA HalvingKeepsRoots ==
  ASSUME NEW rt, Rooted(rt), Forest,
         NEW c \in Here, parent[c] # c,
         parent' = [parent EXCEPT ![c] = parent[parent[c]]],
         UNCHANGED alerts
  PROVE  Forest' /\ Rooted(rt)'
  <1> DEFINE p  == parent[c]
             pp == parent[p]
  <1>1. /\ parent \in [Here -> Here] /\ DOMAIN parent = Here
        /\ p \in Here /\ pp \in Here
        /\ Here' = Here
    BY DEF Rooted, Here
  <1>2. parent' \in [Here -> Here] /\ DOMAIN parent' = Here
    BY <1>1
  <1>3. parent'[c] = pp /\ \A x \in Here : x # c => parent'[x] = parent[x]
    BY <1>1
  <1>4. pp # c
    <2> SUFFICES ASSUME pp = c PROVE FALSE
      OBVIOUS
    <2>1. PICK x \in {c, p} : parent[x] = x \/ parent[x] \notin {c, p}
      BY <1>1 DEF Forest
    <2> QED
      BY <2>1
  <1>5. Forest'
    <2> SUFFICES ASSUME NEW S \in SUBSET Here, S # {},
                        \A x \in S : parent'[x] # x /\ parent'[x] \in S
                 PROVE  FALSE
      BY <1>2 DEF Forest
    <2>1. CASE c \notin S
      <3>1. \A x \in S : parent[x] # x /\ parent[x] \in S
        BY <2>1, <1>3
      <3> QED
        BY <3>1, <1>1 DEF Forest
    <2>2. CASE c \in S
      <3>1. pp \in S
        BY <2>2, <1>3
      <3>2. pp # p
        BY <3>1, <1>3
      <3>3. \A x \in S \cup {p} : parent[x] # x /\ parent[x] \in S \cup {p}
        BY <3>1, <3>2, <1>3
      <3>4. S \cup {p} \in SUBSET (DOMAIN parent) /\ S \cup {p} # {}
        BY <1>1
      <3> QED
        BY <3>3, <3>4 DEF Forest
    <2> QED
      BY <2>1, <2>2
  <1>6. Rooted(rt)'
    <2>1. \A x \in Here : rt[parent'[x]] = rt[x]
      BY <1>1, <1>3 DEF Rooted
    <2>2. \A x \in Here : parent'[rt[x]] = rt[x]
      BY <1>1, <1>3 DEF Rooted
    <2>3. \A x \in Here : parent'[x] = x => rt[x] = x
      BY <1>3, <1>4 DEF Rooted
    <2> QED
      BY <2>1, <2>2, <2>3, <1>1, <1>2 DEF Rooted
  <1> QED
    BY <1>5, <1>6

\* The roots after a has been hung under b.
Hung(rt, a, b) == [x \in Here |-> IF rt[x] = a THEN b ELSE rt[x]]

\* Hanging one root under another keeps the links a forest.
LEMMA LinkingMovesRoots ==
  ASSUME NEW rt, Rooted(rt), Forest,
         NEW a \in Here, NEW b \in Here, a # b, parent[a] = a, parent[b] = b,
         parent' = [parent EXCEPT ![a] = b],
         UNCHANGED alerts
  PROVE  Forest' /\ Rooted(Hung(rt, a, b))'
  <1> DEFINE rt2 == Hung(rt, a, b)
  <1>1. /\ parent \in [Here -> Here] /\ DOMAIN parent = Here
        /\ rt \in [Here -> Here]
        /\ Here' = Here
    BY DEF Rooted, Here
  <1>2. parent' \in [Here -> Here] /\ DOMAIN parent' = Here
    BY <1>1
  <1>3. parent'[a] = b /\ \A x \in Here : x # a => parent'[x] = parent[x]
    BY <1>1
  <1>4. Forest'
    <2> SUFFICES ASSUME NEW S \in SUBSET Here, S # {},
                        \A x \in S : parent'[x] # x /\ parent'[x] \in S
                 PROVE  FALSE
      BY <1>2 DEF Forest
    <2>1. b \notin S
      BY <1>3
    <2>2. a \notin S
      BY <2>1, <1>3
    <2>3. \A x \in S : parent[x] # x /\ parent[x] \in S
      BY <2>2, <1>3
    <2> QED
      BY <2>3, <1>1 DEF Forest
  <1>5. Hung(rt, a, b)' = Hung(rt', a', b')
    BY <1>1 DEF Hung
  <1>6. \A x \in Here : rt2[x] = IF rt[x] = a THEN b ELSE rt[x]
    BY DEF Hung
  <1>7. rt2 \in [Here -> Here]
    BY <1>1 DEF Hung
  <1>8. rt[a] = a /\ rt[b] = b
    BY DEF Rooted
  <1>9. \A x \in Here : rt2[parent'[x]] = rt2[x]
    BY <1>1, <1>3, <1>6, <1>8 DEF Rooted
  <1>10. \A x \in Here : parent'[rt2[x]] = rt2[x]
    BY <1>1, <1>3, <1>6, <1>8 DEF Rooted
  <1>11. \A x \in Here : parent'[x] = x => rt2[x] = x
    BY <1>1, <1>3, <1>6, <1>8 DEF Rooted
  <1> QED
    BY <1>1, <1>2, <1>4, <1>7, <1>9, <1>10, <1>11 DEF Rooted, Hung

-----------------------------------------------------------------------------
(* The initial states, and the steps that leave the links alone.           *)

LEMMA InitIInv == Init => IInv
  <1> SUFFICES ASSUME Init PROVE IInv
    OBVIOUS
  <1> USE DEF Init
  <1>1. ~Started
    BY DEF Started
  <1>2. Shape
    BY DEF Shape, PCs
  <1>3. Idle
    BY DEF Idle
  <1>4. Forest
    BY DEF Forest
  <1> QED
    BY <1>1, <1>2, <1>3, <1>4 DEF IInv, Sorted, Positions

LEMMA NoAlertsStep == IInv /\ NoAlerts => IInv'
  <1> SUFFICES ASSUME IInv, NoAlerts PROVE IInv'
    OBVIOUS
  <1> USE DEF NoAlerts
  <1>1. ~Started /\ ~Started'
    BY DEF Started
  <1>2. Shape'
    BY DEF IInv, Shape, PCs
  <1>3. Idle'
    BY <1>1 DEF IInv, Idle
  <1>4. Forest'
    BY DEF IInv, Forest
  <1> QED
    BY <1>1, <1>2, <1>3, <1>4 DEF IInv, Sorted, Positions

LEMMA SortStep == IInv /\ Sort => IInv'
  <1> SUFFICES ASSUME IInv, Sort PROVE IInv'
    OBVIOUS
  <1> DEFINE id == [x \in Here |-> x]
  <1>1. /\ ~Started /\ Started' /\ alerts' = alerts /\ Here' = Here
        /\ pc' = "scan" /\ i' = 1 /\ j' = 2 /\ cur' = None /\ rootA' = None /\ groups' = <<>>
        /\ parent' = id /\ alerts # <<>>
    BY DEF Sort, Started, IInv, Idle, Here
  <1>2. alerts \in Batches
    BY DEF IInv, Shape
  <1>3. PICK order \in TimeOrders(alerts) :
          sorted' = [k \in DOMAIN alerts |-> alerts[order[k]]]
    BY DEF Sort
  <1>4. /\ order \in [DOMAIN alerts -> DOMAIN alerts]
        /\ \A p \in DOMAIN alerts : \E k \in DOMAIN alerts : order[k] = p
        /\ \A k, l \in DOMAIN alerts : k < l => Later(alerts[order[l]], alerts[order[k]]) >= 0
    <2>1. order \in Bijection(DOMAIN alerts, DOMAIN alerts)
      BY DEF TimeOrders
    <2>2. /\ order \in [DOMAIN alerts -> DOMAIN alerts]
          /\ \A p \in DOMAIN alerts : \E k \in DOMAIN alerts : order[k] = p
      BY <2>1 DEF Bijection, Injection, Surjection
    <2>3. ASSUME NEW k \in DOMAIN alerts, NEW l \in DOMAIN alerts, k < l
          PROVE  Later(alerts[order[l]], alerts[order[k]]) >= 0
      <3>1. \/ Later(alerts[order[l]], alerts[order[k]]) > 0
            \/ Later(alerts[order[l]], alerts[order[k]]) = 0
        BY <2>3 DEF TimeOrders
      <3>2. alerts[order[l]] \in Alert /\ alerts[order[k]] \in Alert
        BY <1>2, <2>2, BatchFacts
      <3>3. ParseTs(alerts[order[l]].ts) \in Int /\ ParseTs(alerts[order[k]].ts) \in Int
        BY <3>2, ParseTsInt
      <3>4. Later(alerts[order[l]], alerts[order[k]]) \in Int
        BY <3>3 DEF Later
      <3> QED
        BY <3>1, <3>4
    <2> QED
      BY <2>2, <2>3
  <1>5. /\ sorted' \in Seq(Alert) /\ Len(sorted') = Len(alerts) /\ Len(alerts) > 0
        /\ DOMAIN alerts = 1..Len(alerts)
        /\ \A k \in DOMAIN alerts : sorted'[k] = alerts[order[k]] /\ alerts[order[k]] \in Alert
    <2>1. /\ DOMAIN alerts = 1..Len(alerts) /\ Len(alerts) > 0
          /\ \A k \in DOMAIN alerts : alerts[order[k]] \in Alert
          /\ Len(alerts) \in Nat
      BY <1>1, <1>2, <1>4, BatchFacts
    <2>2. sorted' \in [1..Len(alerts) -> Alert]
      BY <1>3, <2>1
    <2>3. sorted' \in Seq(Alert) /\ Len(sorted') = Len(alerts)
      BY <2>1, <2>2
    <2> QED
      BY <1>3, <2>1, <2>3
  <1>6. Shape'
    BY <1>1, <1>2 DEF Shape, PCs, IInv
  <1>7. Sorted'
    <2>1. \A k, l \in DOMAIN alerts : k < l => ParseTs(sorted'[k].ts) <= ParseTs(sorted'[l].ts)
      <3> SUFFICES ASSUME NEW k \in DOMAIN alerts, NEW l \in DOMAIN alerts, k < l
                   PROVE  ParseTs(alerts[order[k]].ts) <= ParseTs(alerts[order[l]].ts)
        BY <1>5
      <3>1. Later(alerts[order[l]], alerts[order[k]]) >= 0
        BY <1>4
      <3>2. ParseTs(alerts[order[k]].ts) \in Int /\ ParseTs(alerts[order[l]].ts) \in Int
        BY <1>5, ParseTsInt
      <3> QED
        BY <3>1, <3>2 DEF Later
    <2>2. N' = Len(alerts) /\ 1..N' = DOMAIN alerts
      BY <1>5 DEF N
    <2>3. \A k \in 1..N' : \E p \in DOMAIN alerts : sorted'[k] = alerts'[p]
      BY <1>1, <1>4, <1>5, <2>2
    <2>4. ASSUME NEW p \in DOMAIN alerts
          PROVE  \E k \in DOMAIN alerts : alerts[p] = sorted'[k]
      <3>1. PICK k \in DOMAIN alerts : order[k] = p
        BY <1>4
      <3>2. sorted'[k] = alerts[p]
        BY <3>1, <1>5
      <3> QED
        BY <3>2
    <2> QED
      BY <1>1, <1>5, <2>1, <2>2, <2>3, <2>4 DEF Sorted
  <1>8. Positions'
    BY <1>1, <1>5 DEF Positions, N, Finding
  <1>9. Forest'
    BY <1>1 DEF Forest
  <1>10. Good(id)' /\ id \in [Here -> Here]
    <2>1. Rooted(id)'
      BY <1>1 DEF Rooted
    <2>2. Sound(id)'
      BY <1>1 DEF Sound
    <2>3. Complete(id)'
      BY <1>1, <1>5 DEF Complete, Scanned, N
    <2>4. Walk(id)' /\ Collected(id)'
      BY <1>1 DEF Walk, Collected
    <2> QED
      BY <2>1, <2>2, <2>3, <2>4 DEF Good
  <1> QED
    BY <1>1, <1>6, <1>7, <1>8, <1>9, <1>10 DEF IInv, Idle

\* What every later step may rely on.
LEMMA Unpack ==
  ASSUME IInv, Started
  PROVE  /\ Shape /\ Sorted /\ Positions /\ Forest
         /\ \E rt \in [Here -> Here] : Good(rt)
         /\ N \in Nat /\ DOMAIN sorted = 1..N
         /\ i \in Nat /\ j \in Nat
  BY DEF IInv, Shape, Sorted, N

LEMMA NextAnchorStep == IInv /\ NextAnchor => IInv'
  <1> SUFFICES ASSUME IInv, NextAnchor PROVE IInv'
    OBVIOUS
  <1>1. Started
    BY DEF NextAnchor, IInv, Idle, Started
  <1>2. PICK rt \in [Here -> Here] : Good(rt)
    BY <1>1, Unpack
  <1>3. /\ UNCHANGED <<alerts, pc, sorted, parent, cur, rootA, groups>>
        /\ pc = "scan" /\ i' = i + 1 /\ j' = i + 2 /\ i <= N
        /\ Started' /\ Here' = Here /\ N' = N
    BY <1>1 DEF NextAnchor, Started, Here, N
  <1>4. Shape' /\ Sorted' /\ Forest' /\ Idle'
    <2>1. Shape'
      BY <1>1, <1>3, Unpack DEF Shape
    <2>2. Sorted' /\ Idle'
      BY <1>1, <1>3, Unpack DEF Sorted, Idle
    <2>3. Forest'
      BY <1>1, <1>3, Unpack DEF Forest
    <2> QED
      BY <2>1, <2>2, <2>3
  <1>5. Positions'
    BY <1>1, <1>3, Unpack DEF Positions, Finding
  <1>6. Complete(rt)'
    <2> SUFFICES ASSUME NEW p \in 1..N, NEW q \in 1..N, p < q, p = i, q >= j,
                        Related(sorted[p], sorted[q])
                 PROVE  FALSE
      <3>1. ASSUME NEW p \in 1..N, NEW q \in 1..N, p < q, Scanned(p, q)',
                   Related(sorted[p], sorted[q])
            PROVE  rt[sorted[p].id] = rt[sorted[q].id]
        <4>1. p < i \/ p = i \/ (p = i + 1 /\ q < i + 2)
          BY <3>1, <1>1, <1>3, Unpack DEF Scanned
        <4>2. Scanned(p, q) \/ (p = i /\ q >= j)
          BY <3>1, <4>1, <1>1, Unpack DEF Scanned
        <4> QED
          BY <3>1, <4>2, <1>2 DEF Good, Complete
      <3> QED
        BY <3>1, <1>3 DEF Complete
    <2>1. j <= N /\ ~InWindow(sorted[i], sorted[j]) /\ j \in 1..N
      BY <1>1, <1>3, Unpack DEF NextAnchor, Positions
    <2>2. ParseTs(sorted[j].ts) <= ParseTs(sorted[q].ts)
      <3>1. j = q \/ j < q
        BY <1>1, Unpack
      <3>2. ParseTs(sorted[j].ts) \in Int
        BY <2>1, <1>1, Unpack, SortedFacts
      <3>3. j < q => ParseTs(sorted[j].ts) <= ParseTs(sorted[q].ts)
        BY <2>1, <1>1, Unpack DEF Sorted
      <3> QED
        BY <3>1, <3>2, <3>3
    <2>3. /\ ParseTs(sorted[i].ts) \in Int /\ ParseTs(sorted[j].ts) \in Int
          /\ ParseTs(sorted[q].ts) \in Int
      BY <2>1, <1>1, Unpack, SortedFacts
    <2>4. Later(sorted[q], sorted[i]) <= Window
      BY <1>3 DEF Related
    <2> QED
      BY <2>1, <2>2, <2>3, <2>4, WindowAssumption DEF Later, InWindow
  <1>7. Good(rt)'
    BY <1>2, <1>3, <1>6 DEF Good, Rooted, Sound, Walk, Collected
  <1> QED
    BY <1>3, <1>4, <1>5, <1>7 DEF IInv

LEMMA SkipStep == IInv /\ Skip => IInv'
  <1> SUFFICES ASSUME IInv, Skip PROVE IInv'
    OBVIOUS
  <1>1. Started
    BY DEF Skip, IInv, Idle, Started
  <1>2. PICK rt \in [Here -> Here] : Good(rt)
    BY <1>1, Unpack
  <1>3. /\ UNCHANGED <<alerts, pc, sorted, parent, i, cur, rootA, groups>>
        /\ pc = "scan" /\ j' = j + 1 /\ i <= N /\ j <= N
        /\ ~Related(sorted[i], sorted[j])
        /\ Started' /\ Here' = Here /\ N' = N
    BY <1>1 DEF Skip, Started, Here, N
  <1>4. Shape' /\ Sorted' /\ Forest' /\ Idle'
    <2>1. Shape'
      BY <1>1, <1>3, Unpack DEF Shape
    <2>2. Sorted' /\ Idle'
      BY <1>1, <1>3, Unpack DEF Sorted, Idle
    <2>3. Forest'
      BY <1>1, <1>3, Unpack DEF Forest
    <2> QED
      BY <2>1, <2>2, <2>3
  <1>5. Positions'
    BY <1>1, <1>3, Unpack DEF Positions, Finding
  <1>6. Complete(rt)'
    <2>1. ASSUME NEW p \in 1..N, NEW q \in 1..N, p < q, Scanned(p, q)',
                 Related(sorted[p], sorted[q])
          PROVE  rt[sorted[p].id] = rt[sorted[q].id]
      <3>1. Scanned(p, q) \/ (p = i /\ q = j)
        BY <2>1, <1>1, <1>3, Unpack DEF Scanned
      <3> QED
        BY <2>1, <3>1, <1>2, <1>3 DEF Good, Complete
    <2> QED
      BY <2>1, <1>3 DEF Complete
  <1>7. Good(rt)'
    BY <1>2, <1>3, <1>6 DEF Good, Rooted, Sound, Walk, Collected
  <1> QED
    BY <1>3, <1>4, <1>5, <1>7 DEF IInv

LEMMA JoinStep == IInv /\ Join => IInv'
  <1> SUFFICES ASSUME IInv, Join PROVE IInv'
    OBVIOUS
  <1>1. Started
    BY DEF Join, IInv, Idle, Started
  <1>2. PICK rt \in [Here -> Here] : Good(rt)
    BY <1>1, Unpack
  <1>3. /\ UNCHANGED <<alerts, sorted, parent, i, j, rootA, groups>>
        /\ pc = "scan" /\ pc' = "findA" /\ i <= N /\ j <= N
        /\ Related(sorted[i], sorted[j]) /\ cur' = sorted[i].id
        /\ Started' /\ Here' = Here /\ N' = N
    BY <1>1 DEF Join, Started, Here, N
  <1>4. Shape' /\ Sorted' /\ Forest' /\ Idle'
    BY <1>1, <1>3, Unpack DEF Shape, Sorted, Forest, Idle, PCs, Finding
  <1>5. i \in 1..N /\ j \in 1..N /\ i < j /\ sorted[i].id \in Here
    BY <1>1, <1>3, Unpack, SortedFacts DEF Positions
  <1>6. Positions'
    BY <1>1, <1>3, <1>5, Unpack DEF Positions, Finding
  <1>7. Good(rt)'
    BY <1>2, <1>3 DEF Good, Rooted, Sound, Complete, Scanned, Walk, Collected
  <1> QED
    BY <1>3, <1>4, <1>6, <1>7 DEF IInv

-----------------------------------------------------------------------------
(* The steps of find and union.                                            *)

LEMMA HalveStep == IInv /\ Halve => IInv'
  <1> SUFFICES ASSUME IInv, Halve PROVE IInv'
    OBVIOUS
  <1>1. Started
    BY DEF Halve, IInv, Idle, Started, Finding
  <1>2. PICK rt \in [Here -> Here] : Good(rt)
    BY <1>1, Unpack
  <1>3. /\ UNCHANGED <<alerts, pc, sorted, i, j, rootA, groups>>
        /\ pc \in Finding /\ parent[cur] # cur
        /\ parent' = [parent EXCEPT ![cur] = parent[parent[cur]]]
        /\ cur' = parent[parent[cur]]
        /\ Started' /\ Here' = Here /\ N' = N
    BY <1>1 DEF Halve, Started, Here, N
  <1>4. cur \in Here
    BY <1>1, <1>3, Unpack DEF Positions
  <1>5. /\ parent \in [Here -> Here]
        /\ parent[cur] \in Here /\ parent[parent[cur]] \in Here
        /\ rt[parent[parent[cur]]] = rt[cur]
    BY <1>2, <1>4 DEF Good, Rooted
  <1>6. Forest' /\ Rooted(rt)'
    <2>1. PICK c : c = cur
      OBVIOUS
    <2> QED
      BY <2>1, <1>1, <1>2, <1>3, <1>4, Unpack, HalvingKeepsRoots DEF Good
  <1>7. Shape' /\ Sorted' /\ Idle'
    BY <1>1, <1>3, Unpack DEF Shape, Sorted, Idle
  <1>8. Positions'
    BY <1>1, <1>3, <1>5, Unpack DEF Positions, Finding
  <1>9. Walk(rt)'
    <2>1. pc = "findB" => parent'[rootA] = rootA
      <3>1. pc = "findB" => rootA \in Here /\ parent[rootA] = rootA
        BY <1>1, <1>2, Unpack DEF Positions, Good, Walk
      <3> QED
        BY <3>1, <1>3, <1>5
    <2> QED
      BY <2>1, <1>2, <1>3, <1>5 DEF Good, Walk
  <1>10. Sound(rt)' /\ Complete(rt)' /\ Collected(rt)'
    BY <1>2, <1>3 DEF Good, Sound, Complete, Scanned, Collected
  <1> QED
    BY <1>3, <1>6, <1>7, <1>8, <1>9, <1>10 DEF IInv, Good

LEMMA FoundAStep == IInv /\ FoundA => IInv'
  <1> SUFFICES ASSUME IInv, FoundA PROVE IInv'
    OBVIOUS
  <1>1. Started
    BY DEF FoundA, IInv, Idle, Started
  <1>2. PICK rt \in [Here -> Here] : Good(rt)
    BY <1>1, Unpack
  <1>3. /\ UNCHANGED <<alerts, sorted, parent, i, j, groups>>
        /\ pc = "findA" /\ pc' = "findB" /\ parent[cur] = cur
        /\ rootA' = cur /\ cur' = sorted[j].id
        /\ Started' /\ Here' = Here /\ N' = N
    BY <1>1 DEF FoundA, Started, Here, N
  <1>4. /\ i \in 1..N /\ j \in 1..N /\ i < j /\ groups = <<>>
        /\ Related(sorted[i], sorted[j])
        /\ cur \in Here /\ sorted[j].id \in Here
    BY <1>1, <1>3, Unpack, SortedFacts DEF Positions, Finding
  <1>5. rt[sorted[i].id] = cur
    BY <1>2, <1>3, <1>4 DEF Good, Rooted, Walk
  <1>6. Shape' /\ Sorted' /\ Idle' /\ Forest'
    <2>1. Shape'
      BY <1>1, <1>3, Unpack DEF Shape, PCs, Finding
    <2>2. Sorted' /\ Idle'
      BY <1>1, <1>3, Unpack DEF Sorted, Idle
    <2>3. Forest'
      BY <1>1, <1>3, Unpack DEF Forest
    <2> QED
      BY <2>1, <2>2, <2>3
  <1>7. Positions'
    BY <1>3, <1>4 DEF Positions, Finding
  <1>8. Good(rt)'
    BY <1>2, <1>3, <1>5 DEF Good, Rooted, Sound, Complete, Scanned, Walk, Collected
  <1> QED
    BY <1>3, <1>6, <1>7, <1>8 DEF IInv

LEMMA UnionStep == IInv /\ Union => IInv'
  <1> SUFFICES ASSUME IInv, Union PROVE IInv'
    OBVIOUS
  <1>1. Started
    BY DEF Union, IInv, Idle, Started
  <1>2. PICK rt \in [Here -> Here] : Good(rt)
    BY <1>1, Unpack
  <1>3. /\ UNCHANGED <<alerts, sorted, i, groups>>
        /\ pc = "findB" /\ pc' = "scan" /\ parent[cur] = cur
        /\ parent' = IF rootA # cur THEN [parent EXCEPT ![rootA] = cur] ELSE parent
        /\ j' = j + 1 /\ cur' = None /\ rootA' = None
        /\ Started' /\ Here' = Here /\ N' = N
    BY <1>1 DEF Union, Started, Here, N
  <1>4. /\ i \in 1..N /\ j \in 1..N /\ i < j /\ groups = <<>>
        /\ Related(sorted[i], sorted[j])
        /\ cur \in Here /\ rootA \in Here
    BY <1>1, <1>3, Unpack DEF Positions, Finding
  <1>5. PICK a, b : a = rootA /\ b = cur
    OBVIOUS
  <1>6. /\ a \in Here /\ b \in Here /\ parent[a] = a /\ parent[b] = b
        /\ rt[sorted[i].id] = a /\ rt[sorted[j].id] = b /\ rt[a] = a /\ rt[b] = b
    BY <1>2, <1>3, <1>4, <1>5 DEF Good, Rooted, Walk
  <1> DEFINE rt2 == Hung(rt, a, b)
  <1>7. \A x \in Here : rt2[x] = IF rt[x] = a THEN b ELSE rt[x]
    BY DEF Hung
  <1>8. rt2 \in [Here -> Here]
    BY <1>6 DEF Hung
  <1>9. Shape' /\ Sorted' /\ Idle'
    <2>1. Shape'
      BY <1>1, <1>3, Unpack DEF Shape, PCs
    <2> QED
      BY <2>1, <1>1, <1>3, Unpack DEF Sorted, Idle
  <1>10. Positions'
    BY <1>1, <1>3, <1>4, Unpack DEF Positions, Finding
  <1>11. \A k \in 1..N : sorted[k].id \in Here
    BY <1>1, Unpack, SortedFacts
  <1>12. \E next \in [Here -> Here] :
           /\ \A x \in Here : next[x] = IF rt[x] = a THEN b ELSE rt[x]
           /\ Forest' /\ Rooted(next)'
    <2>1. CASE a # b
      <3>1. parent' = [parent EXCEPT ![a] = b]
        BY <2>1, <1>3, <1>5
      <3>2. Forest' /\ Rooted(Hung(rt, a, b))'
        BY <2>1, <3>1, <1>1, <1>2, <1>3, <1>6, Unpack, LinkingMovesRoots DEF Good
      <3>3. PICK m : m = rt2
        OBVIOUS
      <3>4. Hung(rt, a, b)' = m
        BY <3>3, <1>3 DEF Hung
      <3>5. Rooted(m)'
        BY <3>2, <3>4, <1>3 DEF Rooted
      <3>6. m \in [Here -> Here] /\ \A x \in Here : m[x] = IF rt[x] = a THEN b ELSE rt[x]
        BY <3>3, <1>7, <1>8
      <3> QED
        BY <3>2, <3>5, <3>6
    <2>2. CASE a = b
      <3>1. Forest' /\ Rooted(rt)'
        BY <2>2, <1>1, <1>2, <1>3, <1>5, Unpack DEF Forest, Good, Rooted
      <3> QED
        BY <2>2, <3>1, <1>2
    <2> QED
      BY <2>1, <2>2
  <1>13. PICK next \in [Here -> Here] :
           /\ \A x \in Here : next[x] = IF rt[x] = a THEN b ELSE rt[x]
           /\ Forest' /\ Rooted(next)'
    BY <1>12
  <1>14. Sound(next)'
    <2> SUFFICES ASSUME NEW S \in SUBSET Here, Closed(alerts, S), NEW x \in Here
                 PROVE  x \in S <=> next[x] \in S
      BY <1>3 DEF Sound
    <2>1. \A y \in Here : y \in S <=> rt[y] \in S
      BY <1>2 DEF Good, Sound
    <2>2. sorted[i].id \in S <=> sorted[j].id \in S
      <3>1. PICK p \in DOMAIN alerts : sorted[i] = alerts[p]
        BY <1>1, <1>4, Unpack DEF Sorted
      <3>2. PICK q \in DOMAIN alerts : sorted[j] = alerts[q]
        BY <1>1, <1>4, Unpack DEF Sorted
      <3> QED
        BY <3>1, <3>2, <1>4 DEF Closed
    <2>3. a \in S <=> b \in S
      BY <2>1, <2>2, <1>4, <1>6, <1>11
    <2> QED
      BY <2>1, <2>3, <1>13
  <1>15. Complete(next)'
    <2>1. ASSUME NEW p \in 1..N, NEW q \in 1..N, p < q, Scanned(p, q)',
                 Related(sorted[p], sorted[q])
          PROVE  next[sorted[p].id] = next[sorted[q].id]
      <3>1. Scanned(p, q) \/ (p = i /\ q = j)
        BY <2>1, <1>1, <1>3, Unpack DEF Scanned
      <3>2. CASE Scanned(p, q)
        <4>1. rt[sorted[p].id] = rt[sorted[q].id]
          BY <2>1, <3>2, <1>2 DEF Good, Complete
        <4> QED
          BY <4>1, <1>11, <1>13
      <3>3. CASE p = i /\ q = j
        BY <3>3, <1>4, <1>6, <1>11, <1>13
      <3> QED
        BY <3>1, <3>2, <3>3
    <2> QED
      BY <2>1, <1>3 DEF Complete
  <1>16. Walk(next)' /\ Collected(next)'
    BY <1>3, <1>4 DEF Walk, Collected
  <1> QED
    BY <1>3, <1>9, <1>10, <1>13, <1>14, <1>15, <1>16 DEF IInv, Good

-----------------------------------------------------------------------------
(* Collecting.                                                             *)

LEMMA ScanDoneStep == IInv /\ ScanDone => IInv'
  <1> SUFFICES ASSUME IInv, ScanDone PROVE IInv'
    OBVIOUS
  <1>1. Started
    BY DEF ScanDone, IInv, Idle, Started
  <1>2. PICK rt \in [Here -> Here] : Good(rt)
    BY <1>1, Unpack
  <1>3. /\ UNCHANGED <<alerts, sorted, parent, j, rootA, groups>>
        /\ pc = "scan" /\ pc' = "collect" /\ i > N /\ i' = 1 /\ cur' = sorted[1].id
        /\ Started' /\ Here' = Here /\ N' = N
    BY <1>1 DEF ScanDone, Started, Here, N
  <1>4. /\ N \in Nat /\ N > 0 /\ i = N + 1 /\ j \in 2..(N + 2) /\ groups = <<>>
        /\ rootA = None /\ 1 \in 1..N /\ sorted[1].id \in Here
    <2>1. N \in Nat /\ N > 0
      BY <1>1, Unpack DEF Sorted
    <2>2. 1 \in 1..N /\ sorted[1].id \in Here
      BY <2>1, <1>1, Unpack, SortedFacts
    <2> QED
      BY <2>1, <2>2, <1>1, <1>3, Unpack DEF Positions
  <1>5. Shape' /\ Sorted' /\ Idle' /\ Forest'
    <2>1. Shape'
      BY <1>1, <1>3, Unpack DEF Shape, PCs, Finding
    <2>2. Sorted' /\ Idle'
      BY <1>1, <1>3, Unpack DEF Sorted, Idle
    <2>3. Forest'
      BY <1>1, <1>3, Unpack DEF Forest
    <2> QED
      BY <2>1, <2>2, <2>3
  <1>6. Positions'
    BY <1>3, <1>4 DEF Positions, Finding
  <1>7. Complete(rt)'
    <2>1. \A p, q \in 1..N : Scanned(p, q)
      BY <1>4 DEF Scanned
    <2> QED
      BY <2>1, <1>2, <1>3 DEF Good, Complete
  <1>8. Collected(rt)'
    BY <1>3, <1>4 DEF Collected
  <1>9. Rooted(rt)' /\ Sound(rt)' /\ Walk(rt)'
    BY <1>2, <1>3 DEF Good, Rooted, Sound, Walk
  <1> QED
    BY <1>3, <1>5, <1>6, <1>7, <1>8, <1>9 DEF IInv, Good

LEMMA CollectStep == IInv /\ Collect => IInv'
  <1> SUFFICES ASSUME IInv, Collect PROVE IInv'
    OBVIOUS
  <1>1. Started
    BY DEF Collect, IInv, Idle, Started
  <1>2. PICK rt \in [Here -> Here] : Good(rt)
    BY <1>1, Unpack
  <1>3. /\ UNCHANGED <<alerts, sorted, parent, j, rootA>>
        /\ pc = "collect" /\ parent[cur] = cur /\ i' = i + 1
        /\ groups' = Filed(cur, sorted[i])
        /\ IF i < N THEN cur' = sorted[i + 1].id /\ pc' = pc ELSE cur' = None /\ pc' = "done"
        /\ Started' /\ Here' = Here /\ N' = N
    BY <1>1 DEF Collect, Started, Here, N
  <1>4. /\ N \in Nat /\ i \in 1..N /\ j \in 2..(N + 2) /\ rootA = None /\ cur \in Here
        /\ sorted[i] \in Alert /\ sorted[i].id \in Here
        /\ i < N => sorted[i + 1].id \in Here
    <2>1. N \in Nat /\ i \in 1..N /\ j \in 2..(N + 2) /\ rootA = None /\ cur \in Here
      BY <1>1, <1>3, Unpack DEF Positions, Finding
    <2>2. i < N => i + 1 \in 1..N
      BY <2>1
    <2> QED
      BY <2>1, <2>2, <1>1, Unpack, SortedFacts
  <1>5. rt[sorted[i].id] = cur /\ cur \in Ids
    <2>1. alerts \in Batches
      BY <1>1, Unpack DEF Shape
    <2> QED
      BY <2>1, <1>2, <1>3, <1>4, BatchFacts DEF Good, Rooted, Walk
  <1> DEFINE e   == sorted[i]
             Grp == [root : Ids, members : Seq(Alert)]
  <1>6. /\ groups \in Seq(Grp)
        /\ DOMAIN groups = 1..Len(groups) /\ Len(groups) \in Nat
        /\ \A g \in DOMAIN groups : groups[g] \in Grp
    <2>1. groups \in Seq(Grp)
      BY <1>1, Unpack DEF Shape
    <2> HIDE DEF Grp
    <2> QED
      BY <2>1
  \* The two ways of filing an alert, and what they have in common.
  <1>7. /\ groups' \in Seq(Grp)
        /\ \A g, h \in DOMAIN groups' : groups'[g].root = groups'[h].root => g = h
        /\ \A g \in DOMAIN groups' : \A k \in DOMAIN groups'[g].members :
             \/ groups'[g].members[k] = e /\ groups'[g].root = cur
             \/ /\ g \in DOMAIN groups /\ groups'[g].root = groups[g].root
                /\ k \in DOMAIN groups[g].members
                /\ groups'[g].members[k] = groups[g].members[k]
        /\ \A g \in DOMAIN groups :
             /\ g \in DOMAIN groups'
             /\ \A k \in DOMAIN groups[g].members :
                  /\ k \in DOMAIN groups'[g].members
                  /\ groups'[g].members[k] = groups[g].members[k]
        /\ \E g \in DOMAIN groups' : \E k \in DOMAIN groups'[g].members :
             groups'[g].members[k] = e
    <2>1. \A g, h \in DOMAIN groups : groups[g].root = groups[h].root => g = h
      BY <1>2 DEF Good, Collected
    <2>2. CASE \E g \in DOMAIN groups : groups[g].root = cur
      <3>1. PICK f \in DOMAIN groups : groups[f].root = cur
        BY <2>2
      <3>2. /\ groups[f] \in Grp /\ groups[f].members \in Seq(Alert)
            /\ e \in Alert
        BY <1>4, <1>6, <3>1
      <3> DEFINE new == Append(groups[f].members, e)
      <3>3. /\ new \in Seq(Alert)
            /\ Len(new) = Len(groups[f].members) + 1
            /\ DOMAIN new = 1..(Len(groups[f].members) + 1)
            /\ DOMAIN groups[f].members = 1..Len(groups[f].members)
            /\ \A k \in DOMAIN groups[f].members : new[k] = groups[f].members[k]
            /\ new[Len(groups[f].members) + 1] = e
            /\ Len(groups[f].members) \in Nat
        BY <3>2
      <3> HIDE DEF new
      <3>4. groups' = [g \in DOMAIN groups |->
                         IF groups[g].root = cur
                         THEN [groups[g] EXCEPT !.members = Append(@, e)]
                         ELSE groups[g]]
        BY <1>3, <2>2 DEF Filed
      <3>5. DOMAIN groups' = DOMAIN groups /\ DOMAIN groups = 1..Len(groups)
        BY <3>4, <1>6
      <3>6. \A g \in DOMAIN groups : g # f => groups'[g] = groups[g]
        BY <3>1, <3>4, <2>1
      <3>7. groups'[f] = [root |-> cur, members |-> new]
        BY <3>1, <3>2, <3>4 DEF new
      <3>8. groups' \in Seq(Grp)
        <4>1. \A g \in DOMAIN groups : groups'[g] \in Grp
          <5>1. groups'[f] \in Grp
            BY <3>3, <3>7, <1>5
          <5> HIDE DEF Grp
          <5> QED
            BY <5>1, <1>6, <3>6
        <4> HIDE DEF Grp
        <4>2. groups' \in [1..Len(groups) -> Grp]
          BY <4>1, <3>4, <3>5
        <4> QED
          BY <4>2, <1>6
      <3>9. \A g \in DOMAIN groups : groups'[g].root = groups[g].root
        BY <3>1, <3>6, <3>7
      <3>10. \E k \in DOMAIN groups'[f].members : groups'[f].members[k] = e
        BY <3>3, <3>7
      <3>11. \A k \in DOMAIN groups'[f].members :
               \/ groups'[f].members[k] = e
               \/ /\ k \in DOMAIN groups[f].members
                  /\ groups'[f].members[k] = groups[f].members[k]
        BY <3>3, <3>7
      <3>12. \A k \in DOMAIN groups[f].members :
               /\ k \in DOMAIN groups'[f].members
               /\ groups'[f].members[k] = groups[f].members[k]
        BY <3>3, <3>7
      <3> QED
        BY <2>1, <3>1, <3>5, <3>6, <3>8, <3>9, <3>10, <3>11, <3>12
    <2>3. CASE ~\E g \in DOMAIN groups : groups[g].root = cur
      <3> DEFINE fresh == [root |-> cur, members |-> <<e>>]
      <3>1. fresh \in Grp /\ DOMAIN fresh.members = {1} /\ fresh.members[1] = e
        BY <1>4, <1>5
      <3>2. groups' = Append(groups, fresh)
        BY <1>3, <2>3 DEF Filed
      <3>3. fresh.root = cur
        OBVIOUS
      <3> HIDE DEF fresh
      <3>4. /\ groups' \in Seq(Grp)
            /\ DOMAIN groups = 1..Len(groups) /\ Len(groups) \in Nat
            /\ DOMAIN groups' = 1..(Len(groups) + 1)
            /\ groups'[Len(groups) + 1] = fresh
            /\ \A g \in DOMAIN groups : groups'[g] = groups[g]
        BY <3>1, <3>2, <1>6
      <3>5. \A g \in DOMAIN groups' : g \in DOMAIN groups \/ g = Len(groups) + 1
        BY <3>4
      <3>6. \A g \in DOMAIN groups : g \in DOMAIN groups'
        BY <3>4
      <3>7. Len(groups) + 1 \in DOMAIN groups'
        BY <3>4
      <3>8. \A g, h \in DOMAIN groups' : groups'[g].root = groups'[h].root => g = h
        BY <2>1, <2>3, <3>3, <3>4, <3>5
      <3>9. \E g \in DOMAIN groups' : \E k \in DOMAIN groups'[g].members :
              groups'[g].members[k] = e
        BY <3>1, <3>4, <3>7
      <3>10. \A g \in DOMAIN groups' : \A k \in DOMAIN groups'[g].members :
               \/ groups'[g].members[k] = e /\ groups'[g].root = cur
               \/ /\ g \in DOMAIN groups /\ groups'[g].root = groups[g].root
                  /\ k \in DOMAIN groups[g].members
                  /\ groups'[g].members[k] = groups[g].members[k]
        BY <3>1, <3>3, <3>4, <3>5
      <3> QED
        BY <3>4, <3>6, <3>8, <3>9, <3>10
    <2> QED
      BY <2>2, <2>3
  <1>8. Shape' /\ Sorted' /\ Idle' /\ Forest'
    <2>1. Shape'
      BY <1>1, <1>3, <1>7, Unpack DEF Shape, PCs
    <2>2. Sorted' /\ Idle'
      BY <1>1, <1>3, Unpack DEF Sorted, Idle
    <2>3. Forest'
      BY <1>1, <1>3, Unpack DEF Forest
    <2> QED
      BY <2>1, <2>2, <2>3
  <1>9. Positions'
    BY <1>3, <1>4 DEF Positions, Finding
  <1>10. Collected(rt)'
    <2>1. \A g \in DOMAIN groups' : \A k \in DOMAIN groups'[g].members :
            \E l \in 1..N : /\ groups'[g].members[k] = sorted[l]
                            /\ rt[sorted[l].id] = groups'[g].root
      <3> TAKE g \in DOMAIN groups'
      <3> TAKE k \in DOMAIN groups'[g].members
      <3>1. CASE groups'[g].members[k] = e /\ groups'[g].root = cur
        BY <3>1, <1>4, <1>5
      <3>2. CASE /\ g \in DOMAIN groups /\ groups'[g].root = groups[g].root
                 /\ k \in DOMAIN groups[g].members
                 /\ groups'[g].members[k] = groups[g].members[k]
        BY <3>2, <1>2 DEF Good, Collected
      <3> QED
        BY <3>1, <3>2, <1>7
    <2>2. ASSUME NEW l \in 1..i
          PROVE  \E g \in DOMAIN groups' : \E k \in DOMAIN groups'[g].members :
                   groups'[g].members[k] = sorted[l]
      <3>1. CASE l = i
        BY <3>1, <1>7
      <3>2. CASE l \in 1..(i - 1)
        <4>1. PICK g \in DOMAIN groups : \E k \in DOMAIN groups[g].members :
                groups[g].members[k] = sorted[l]
          BY <3>2, <1>2, <1>3 DEF Good, Collected
        <4> QED
          BY <4>1, <1>7
      <3> QED
        BY <3>1, <3>2, <1>4
    <2>3. i' - 1 = i
      BY <1>3, <1>4
    <2> QED
      BY <2>1, <2>2, <2>3, <1>3, <1>7 DEF Collected
  <1>11. Rooted(rt)' /\ Sound(rt)' /\ Complete(rt)' /\ Walk(rt)'
    BY <1>2, <1>3 DEF Good, Rooted, Sound, Complete, Scanned, Walk
  <1> QED
    BY <1>3, <1>8, <1>9, <1>10, <1>11 DEF IInv, Good

-----------------------------------------------------------------------------
(* The invariant, and what follows from it.                                *)

LEMMA NextIInv == IInv /\ [Next]_vars => IInv'
  <1> SUFFICES ASSUME IInv, [Next]_vars PROVE IInv'
    OBVIOUS
  <1>1. CASE UNCHANGED vars
    <2>1. UNCHANGED <<alerts, pc, sorted, parent, i, j, cur, rootA, groups>>
          /\ Started' = Started /\ Here' = Here /\ N' = N
      BY <1>1 DEF vars, Started, Here, N
    <2>2. Shape' /\ Idle' /\ Sorted' /\ Forest'
      BY <2>1 DEF IInv, Shape, Idle, Sorted, Forest
    <2>3. Positions'
      BY <2>1 DEF IInv, Positions
    <2>4. ASSUME NEW rt \in [Here -> Here], Good(rt)
          PROVE  Good(rt)'
      BY <2>1, <2>4 DEF Good, Rooted, Sound, Complete, Scanned, Walk, Collected
    <2> QED
      BY <2>1, <2>2, <2>3, <2>4 DEF IInv
  <1> QED
    BY <1>1, NoAlertsStep, SortStep, NextAnchorStep, SkipStep, JoinStep, HalveStep,
       FoundAStep, UnionStep, ScanDoneStep, CollectStep DEF Next

\* Once every pair is scanned, having one root is being connected.
LEMMA RootsAreComponents ==
  ASSUME Shape, Sorted, Started, pc \in {"collect", "done"},
         NEW rt \in [Here -> Here], Good(rt),
         NEW x \in Here, NEW y \in Here
  PROVE  rt[x] = rt[y] <=> Connected(alerts, x, y)
  <1>1. ASSUME rt[x] = rt[y] PROVE Connected(alerts, x, y)
    BY <1>1 DEF Connected, Good, Sound, Here
  <1>2. ASSUME Connected(alerts, x, y) PROVE rt[x] = rt[y]
    <2> DEFINE S == {z \in Here : rt[z] = rt[x]}
    <2>1. ASSUME NEW p \in 1..N, NEW q \in 1..N, Related(sorted[p], sorted[q])
          PROVE  rt[sorted[p].id] = rt[sorted[q].id]
      <3>1. p < q \/ q < p \/ p = q
        OBVIOUS
      <3>2. Related(sorted[q], sorted[p])
        BY <2>1, RelatedSymmetric
      <3>3. Scanned(p, q) /\ Scanned(q, p)
        BY DEF Scanned
      <3> QED
        BY <2>1, <3>1, <3>2, <3>3 DEF Good, Complete
    <2>2. Closed(alerts, S)
      <3> SUFFICES ASSUME NEW p \in DOMAIN alerts, NEW q \in DOMAIN alerts,
                          Related(alerts[p], alerts[q])
                   PROVE  alerts[p].id \in S <=> alerts[q].id \in S
        BY DEF Closed
      <3>1. PICK k \in 1..N : alerts[p] = sorted[k]
        BY DEF Sorted
      <3>2. PICK l \in 1..N : alerts[q] = sorted[l]
        BY DEF Sorted
      <3>3. rt[alerts[p].id] = rt[alerts[q].id]
        BY <2>1, <3>1, <3>2
      <3> QED
        BY <3>3, BatchFacts DEF Shape
    <2>3. x \in S /\ S \in SUBSET IdsOf(alerts)
      BY DEF Here
    <2>4. y \in S
      BY <1>2, <2>2, <2>3 DEF Connected
    <2> QED
      BY <2>4
  <1> QED
    BY <1>1, <1>2

LEMMA InvariantHolds == Spec => []IInv
  <1> QED
    BY InitIInv, NextIInv, PTL DEF Spec

\* Every variable keeps its type.
THEOREM GroupingTypeCorrect == Spec => []TypeOK
  <1>1. IInv => TypeOK
    <2> SUFFICES ASSUME IInv PROVE TypeOK
      OBVIOUS
    <2>1. CASE ~Started
      BY <2>1 DEF IInv, Shape, Idle, TypeOK, N
    <2>2. CASE Started
      <3>1. PICK rt \in [Here -> Here] : Good(rt)
        BY <2>2, Unpack
      <3>2. parent \in [Here -> Here] /\ Here \subseteq Ids
        BY <3>1, BatchFacts DEF Good, Rooted, IInv, Shape
      <3>3. parent \in [DOMAIN parent -> Ids]
        BY <3>2
      <3>4. N \in Nat /\ i \in 1..(N + 1) /\ j \in 2..(N + 2)
        BY <2>2, Unpack DEF Positions, Shape, PCs, Finding, Started
      <3>5. cur \in Ids \cup {None} /\ rootA \in Ids \cup {None}
        BY <2>2, <3>2, Unpack DEF Positions, Shape, PCs, Finding, Started
      <3> QED
        BY <2>2, <3>3, <3>4, <3>5, Unpack DEF TypeOK, Shape, Sorted
    <2> QED
      BY <2>1, <2>2
  <1> QED
    BY <1>1, InvariantHolds, PTL

\* The links of the union-find never form a cycle, for any batch.
THEOREM UnionFindIsForest == Spec => []Forest
  <1>1. IInv => Forest
    BY DEF IInv
  <1> QED
    BY <1>1, InvariantHolds, PTL

\* For every batch and every window, the groups returned are exactly the
\* connected components of the relation.
THEOREM GroupsAreCorrect == Spec => []GroupsAreComponents
  <1>1. IInv => GroupsAreComponents
    <2> SUFFICES ASSUME IInv, pc = "done" PROVE GroupsAreComponents
      BY DEF GroupsAreComponents
    <2>1. CASE ~Started
      BY <2>1, BatchesAssumption DEF IInv, Idle, GroupsAreComponents
    <2>2. CASE Started
      <3>1. PICK rt \in [Here -> Here] : Good(rt)
        BY <2>2, Unpack
      <3>2. i - 1 = N /\ N \in Nat
        BY <2>2, Unpack DEF Positions
      <3>3. ASSUME NEW p \in DOMAIN alerts
            PROVE  \E g \in DOMAIN groups : \E k \in DOMAIN groups[g].members :
                     groups[g].members[k] = alerts[p]
        <4>1. PICK l \in 1..N : alerts[p] = sorted[l]
          BY <2>2, Unpack DEF Sorted
        <4> QED
          BY <4>1, <3>1, <3>2 DEF Good, Collected
      <3>4. ASSUME NEW g \in DOMAIN groups, NEW h \in DOMAIN groups,
                   NEW k \in DOMAIN groups[g].members, NEW l \in DOMAIN groups[h].members
            PROVE  g = h <=> Connected(alerts, groups[g].members[k].id, groups[h].members[l].id)
        <4>1. PICK m \in 1..N : /\ groups[g].members[k] = sorted[m]
                                /\ rt[sorted[m].id] = groups[g].root
          BY <3>1 DEF Good, Collected
        <4>2. PICK n \in 1..N : /\ groups[h].members[l] = sorted[n]
                                /\ rt[sorted[n].id] = groups[h].root
          BY <3>1 DEF Good, Collected
        <4>3. g = h <=> rt[sorted[m].id] = rt[sorted[n].id]
          BY <4>1, <4>2, <3>1 DEF Good, Collected
        <4>4. sorted[m].id \in Here /\ sorted[n].id \in Here
          BY <2>2, Unpack, SortedFacts
        <4>5. rt[sorted[m].id] = rt[sorted[n].id]
                <=> Connected(alerts, sorted[m].id, sorted[n].id)
          BY <2>2, <3>1, <4>4, Unpack, RootsAreComponents
        <4> QED
          BY <4>1, <4>2, <4>3, <4>5
      <3> QED
        BY <3>3, <3>4 DEF GroupsAreComponents
    <2> QED
      BY <2>1, <2>2
  <1> QED
    BY <1>1, InvariantHolds, PTL

\* Copies of an alert name the same source.
CopiesAgree ==
  \A batch \in Batches : \A p, q \in DOMAIN batch :
    batch[p].id = batch[q].id => batch[p].src = batch[q].src

\* If copies of an alert agree on its source, no group mixes sources.
THEOREM SourcesStayApart ==
  ASSUME CopiesAgree
  PROVE  Spec => []OneSourcePerGroup
  <1>1. IInv /\ GroupsAreComponents => OneSourcePerGroup
    <2> SUFFICES ASSUME IInv, GroupsAreComponents, pc = "done",
                        NEW g \in DOMAIN groups,
                        NEW k \in DOMAIN groups[g].members, NEW l \in DOMAIN groups[g].members
                 PROVE  groups[g].members[k].src = groups[g].members[l].src
      BY DEF OneSourcePerGroup
    <2>1. Started
      BY DEF IInv, Idle
    <2>2. PICK rt \in [Here -> Here] : Good(rt)
      BY <2>1, Unpack
    <2>3. \A m \in DOMAIN groups[g].members :
            \E p \in DOMAIN alerts : groups[g].members[m] = alerts[p]
      <3> TAKE m \in DOMAIN groups[g].members
      <3>1. PICK n \in 1..N : groups[g].members[m] = sorted[n]
        BY <2>2 DEF Good, Collected
      <3> QED
        BY <3>1, <2>1, Unpack DEF Sorted
    <2>4. PICK p \in DOMAIN alerts : groups[g].members[k] = alerts[p]
      BY <2>3
    <2>5. PICK q \in DOMAIN alerts : groups[g].members[l] = alerts[q]
      BY <2>3
    <2> DEFINE S == {z \in Here : \E r \in DOMAIN alerts :
                                     alerts[r].id = z /\ alerts[r].src = alerts[p].src}
    <2>6. alerts \in Batches
      BY DEF IInv, Shape
    <2>7. \A r \in DOMAIN alerts : alerts[r].id \in S <=> alerts[r].src = alerts[p].src
      BY <2>6, BatchFacts DEF CopiesAgree
    <2>8. Closed(alerts, S)
      BY <2>7 DEF Closed, Related, Shared
    <2>9. Connected(alerts, alerts[p].id, alerts[q].id)
      BY <2>4, <2>5 DEF GroupsAreComponents
    <2>10. S \in SUBSET IdsOf(alerts)
      BY DEF Here
    <2>11. alerts[q].id \in S
      BY <2>7, <2>8, <2>9, <2>10 DEF Connected
    <2> QED
      BY <2>4, <2>5, <2>7, <2>11
  <1> QED
    BY <1>1, InvariantHolds, GroupsAreCorrect, PTL

-----------------------------------------------------------------------------
(* The order of the result.                                                *)

\* Behind all the places, a further one takes the next rank, and the others
\* keep theirs.
LEMMA NthGrows ==
  ASSUME NEW n \in Nat, NEW P \in SUBSET (1..(n - 1))
  PROVE  /\ Cardinality(P) \in Nat
         /\ Cardinality(P \cup {n}) = Cardinality(P) + 1
         /\ \A q \in 1..Cardinality(P) : Nth(P \cup {n}, q) = Nth(P, q)
         /\ Nth(P \cup {n}, Cardinality(P) + 1) = n
  <1> DEFINE Q == P \cup {n}
  <1>1. IsFiniteSet(P)
    <2>1. n - 1 \in Int /\ 1 \in Int
      OBVIOUS
    <2>2. IsFiniteSet(1..(n - 1))
      BY <2>1, FS_Interval
    <2> QED
      BY <2>2, FS_Subset
  <1>2. Cardinality(P) \in Nat
    BY <1>1, FS_CardinalityType
  <1>3. n \notin P /\ \A k \in P : k \in Int /\ k < n
    OBVIOUS
  <1>4. Cardinality(Q) = Cardinality(P) + 1
    BY <1>1, <1>3, FS_AddElement
  <1>5. Rank(Q, n) = Cardinality(P) + 1
    <2>1. \A l \in Q : l <= n
      BY <1>3
    <2>2. {l \in Q : l <= n} = Q
      BY <2>1
    <2> HIDE DEF Q
    <2> QED
      BY <1>4, <2>2 DEF Rank
  <1>6. ASSUME NEW k \in P
        PROVE  Rank(Q, k) = Rank(P, k) /\ Rank(P, k) \in Nat /\ Rank(P, k) <= Cardinality(P)
    <2> DEFINE R == {l \in P : l <= k}
    <2>1. {l \in Q : l <= k} = R
      BY <1>3
    <2>2. R \in SUBSET P
      OBVIOUS
    <2> HIDE DEF R
    <2>3. IsFiniteSet(R) /\ Cardinality(R) <= Cardinality(P)
      BY <1>1, <2>2, FS_Subset
    <2>4. Cardinality(R) \in Nat
      BY <2>3, FS_CardinalityType
    <2> QED
      BY <2>1, <2>3, <2>4 DEF Rank, R
  <1> HIDE DEF Q
  <1>7. ASSUME NEW q \in 1..Cardinality(P)
        PROVE  Nth(Q, q) = Nth(P, q)
    <2>1. \A k : (k \in Q /\ Rank(Q, k) = q) <=> (k \in P /\ Rank(P, k) = q)
      <3>1. Cardinality(P) + 1 # q
        BY <1>2
      <3> QED
        BY <1>3, <1>5, <1>6, <3>1 DEF Q
    <2> QED
      BY <2>1, Zenon DEF Nth
  <1>8. Nth(Q, Cardinality(P) + 1) = n
    <2>1. \A k : (k \in Q /\ Rank(Q, k) = Cardinality(P) + 1) <=> k = n
      <3>1. \A k \in P : Rank(Q, k) # Cardinality(P) + 1
        BY <1>2, <1>6
      <3> QED
        BY <1>5, <3>1 DEF Q
    <2> DEFINE c == Cardinality(P) + 1
    <2> HIDE DEF c
    <2>2. n \in Q /\ Rank(Q, n) = c /\ \A k \in Q : Rank(Q, k) = c => k = n
      BY <2>1 DEF c
    <2>3. Nth(Q, c) = n
      BY <2>2 DEF Nth
    <2> QED
      BY <2>3 DEF c
  <1> QED
    BY <1>2, <1>4, <1>7, <1>8 DEF Q

\* So the element there is appended to what is picked.
LEMMA PickAppends ==
  ASSUME NEW s, NEW n \in Nat, NEW P \in SUBSET (1..(n - 1)), NEW T,
         Pick(s, P) \in Seq(T), s[n] \in T
  PROVE  Pick(s, P \cup {n}) = Append(Pick(s, P), s[n])
  <1> DEFINE c == Cardinality(P)
             Q == P \cup {n}
  <1>1. /\ c \in Nat /\ Cardinality(Q) = c + 1
        /\ \A q \in 1..c : Nth(Q, q) = Nth(P, q)
        /\ Nth(Q, c + 1) = n
    BY NthGrows
  <1> HIDE DEF c, Q
  <1>2. Pick(s, P) = [q \in 1..c |-> s[Nth(P, q)]] /\ Pick(s, Q) = [q \in 1..(c + 1) |-> s[Nth(Q, q)]]
    BY <1>1 DEF Pick, c
  <1>3. Len(Pick(s, P)) = c
    BY <1>1, <1>2
  <1>4. Append(Pick(s, P), s[n]) = [q \in 1..(c + 1) |-> IF q = c + 1 THEN s[n] ELSE Pick(s, P)[q]]
    BY <1>1, <1>3
  <1>5. \A q \in 1..(c + 1) :
          s[Nth(Q, q)] = IF q = c + 1 THEN s[n] ELSE Pick(s, P)[q]
    <2> TAKE q \in 1..(c + 1)
    <2>1. CASE q = c + 1
      BY <1>1, <2>1
    <2>2. CASE q # c + 1
      <3>1. q \in 1..c
        BY <1>1, <2>2
      <3> QED
        BY <1>1, <1>2, <2>2, <3>1
    <2> QED
      BY <2>1, <2>2
  <1>6. Pick(s, Q) = Append(Pick(s, P), s[n])
    BY <1>2, <1>4, <1>5
  <1> QED
    BY <1>6 DEF Q

\* A non-empty set of natural numbers has a least one.
LEMMA LeastOne ==
  ASSUME NEW S \in SUBSET Nat, S # {}
  PROVE  \E x \in S : \A y \in S : x <= y
  <1>1. PICK x \in S : \A y \in S : ~ (<<y, x>> \in OpToRel(<, Nat))
    BY NatLessThanWellFounded, WFMin
  <1>2. \A y \in S : x <= y
    <2>1. \A y \in S : ~ (y < x)
      BY <1>1 DEF OpToRel
    <2> QED
      BY <2>1
  <1> QED
    BY <1>2

\* There is one order of a batch by time.
LEMMA OneOrder ==
  ASSUME NEW batch \in Batches, NEW o \in TimeOrders(batch), NEW p \in TimeOrders(batch)
  PROVE  o = p
  <1> DEFINE n == Len(batch)
             Before(x, y) == \/ Later(batch[y], batch[x]) > 0
                             \/ Later(batch[y], batch[x]) = 0 /\ x < y
  <1>1. n \in Nat /\ DOMAIN batch = 1..n /\ \A x \in 1..n : batch[x] \in Alert
    <2>1. batch \in Seq(Alert)
      BY BatchesAssumption
    <2> QED
      BY <2>1
  <1> HIDE DEF n
  <1>2. /\ \A x, y \in 1..n : ~(Before(x, y) /\ Before(y, x))
    <2> SUFFICES ASSUME NEW x \in 1..n, NEW y \in 1..n, Before(x, y), Before(y, x)
                 PROVE  FALSE
      OBVIOUS
    <2>1. ParseTs(batch[x].ts) \in Int /\ ParseTs(batch[y].ts) \in Int
      BY <1>1, ParseTsInt
    <2> QED
      BY <1>1, <2>1 DEF Later
  <1>3. ASSUME NEW f \in TimeOrders(batch)
        PROVE  /\ f \in [1..n -> 1..n]
               /\ \A x \in 1..n : \E k \in 1..n : f[k] = x
               /\ \A k, l \in 1..n : f[k] = f[l] => k = l
               /\ \A k, l \in 1..n : k < l => Before(f[k], f[l])
    <2>1. f \in Bijection(1..n, 1..n)
      BY <1>1 DEF TimeOrders
    <2>2. \A k, l \in 1..n : k < l => Before(f[k], f[l])
      BY <1>1 DEF TimeOrders
    <2> HIDE DEF Before
    <2>3. f \in Injection(1..n, 1..n) /\ f \in Surjection(1..n, 1..n)
      BY <2>1 DEF Bijection
    <2>4. f \in [1..n -> 1..n] /\ \A k, l \in 1..n : f[k] = f[l] => k = l
      BY <2>3 DEF Injection, IsInjective
    <2>5. \A x \in 1..n : \E k \in 1..n : f[k] = x
      BY <2>3 DEF Surjection
    <2> QED
      BY <2>2, <2>4, <2>5
  <1>4. /\ o \in [1..n -> 1..n] /\ p \in [1..n -> 1..n]
        /\ \A x \in 1..n : (\E k \in 1..n : o[k] = x) /\ (\E k \in 1..n : p[k] = x)
        /\ \A k, l \in 1..n : (o[k] = o[l] => k = l) /\ (p[k] = p[l] => k = l)
        /\ \A k, l \in 1..n : k < l => Before(o[k], o[l]) /\ Before(p[k], p[l])
    BY <1>3
  <1> HIDE DEF Before
  <1>5. ASSUME o # p
        PROVE  FALSE
    <2> DEFINE S == {k \in 1..n : o[k] # p[k]}
    <2>1. S \in SUBSET Nat /\ S # {}
      <3>1. S \in SUBSET Nat
        OBVIOUS
      <3>2. o \in [1..n -> 1..n] /\ p \in [1..n -> 1..n]
        BY <1>4
      <3>3. o = [k \in 1..n |-> o[k]] /\ p = [k \in 1..n |-> p[k]]
        BY <3>2
      <3>4. \E k \in 1..n : o[k] # p[k]
        BY <1>5, <3>3
      <3> QED
        BY <3>1, <3>4
    <2>2. PICK k \in S : \A y \in S : k <= y
      <3> HIDE DEF S
      <3> QED
        BY <2>1, LeastOne
    <2>3. k \in 1..n /\ o[k] # p[k] /\ \A y \in 1..n : y < k => o[y] = p[y]
      BY <2>2
    <2>4. PICK l \in 1..n : p[l] = o[k]
      BY <1>4, <2>3
    <2>5. PICK m \in 1..n : o[m] = p[k]
      BY <1>4, <2>3
    <2>6. k < l
      <3>1. l # k
        BY <2>3, <2>4
      <3>2. ~(l < k)
        BY <1>4, <2>3, <2>4
      <3> QED
        BY <2>3, <3>1, <3>2
    <2>7. k < m
      <3>1. m # k
        BY <2>3, <2>5
      <3>2. ~(m < k)
        BY <1>4, <2>3, <2>5
      <3> QED
        BY <2>3, <3>1, <3>2
    <2>8. Before(p[k], p[l]) /\ Before(o[k], o[m])
      BY <1>4, <2>3, <2>6, <2>7
    <2>9. o[k] \in 1..n /\ p[k] \in 1..n
      BY <1>4, <2>3
    <2> QED
      BY <1>2, <2>4, <2>5, <2>8, <2>9
  <1> QED
    BY <1>5

\* What the call has filed, in terms of the relation.
FirstsOf(n) ==
  {k \in 1..n : \A l \in 1..(k - 1) : ~Connected(alerts, sorted[l].id, sorted[k].id)}

MembersOf(k, n) == {l \in 1..n : Connected(alerts, sorted[l].id, sorted[k].id)}

InOrder == Started => sorted = SortedAlerts(alerts)

Filing ==
  Started /\ pc \in {"collect", "done"} =>
    LET firsts == FirstsOf(i - 1)
    IN  /\ DOMAIN groups = 1..Cardinality(firsts)
        /\ \A g \in DOMAIN groups :
             LET k == Nth(firsts, g)
             IN  /\ k \in firsts
                 /\ groups[g].members = Pick(sorted, MembersOf(k, i - 1))
                 /\ groups[g].root \in Here /\ parent[groups[g].root] = groups[g].root
                 /\ Connected(alerts, groups[g].root, sorted[k].id)

\* The result and its order are settled as the call goes along.
OrderInv == IInv /\ InOrder /\ Filing

LEMMA InitOrder == Init => OrderInv
  <1> SUFFICES ASSUME Init PROVE OrderInv
    OBVIOUS
  <1>1. ~Started
    BY DEF Init, Started
  <1> QED
    BY <1>1, InitIInv DEF OrderInv, InOrder, Filing

LEMMA SortInOrder == OrderInv /\ Sort => InOrder'
  <1> SUFFICES ASSUME OrderInv, Sort PROVE InOrder'
    OBVIOUS
  <1>1. PICK order \in TimeOrders(alerts) :
          sorted' = [k \in DOMAIN alerts |-> alerts[order[k]]]
    BY DEF Sort
  <1>2. alerts \in Batches /\ alerts' = alerts
    BY DEF Sort, OrderInv, IInv, Shape
  <1> DEFINE first == CHOOSE o \in TimeOrders(alerts) : TRUE
  <1>3. first \in TimeOrders(alerts)
    BY <1>1
  <1> HIDE DEF first
  <1>4. first = order
    BY <1>1, <1>2, <1>3, OneOrder
  <1>5. SortedAlerts(alerts) = [k \in DOMAIN alerts |-> alerts[first[k]]]
    BY DEF SortedAlerts, first
  <1> QED
    BY <1>1, <1>2, <1>4, <1>5 DEF InOrder

\* The first of the loop that collects.
LEMMA ScanDoneFiles == OrderInv /\ ScanDone => Filing'
  <1> SUFFICES ASSUME OrderInv, ScanDone PROVE Filing'
    OBVIOUS
  <1>1. Started /\ groups = <<>>
    BY Unpack DEF ScanDone, OrderInv, IInv, Idle, Started, Positions
  <1>2. i' - 1 = 0 /\ groups' = <<>>
    BY <1>1 DEF ScanDone
  <1>3. FirstsOf(i - 1)' = {}
    BY <1>2 DEF FirstsOf
  <1>4. DOMAIN groups' = {} /\ 1..Cardinality({}) = {}
    BY <1>2, FS_EmptySet
  <1> QED
    BY <1>3, <1>4 DEF Filing

\* Halving a path takes no root away.
LEMMA HalveFiles == OrderInv /\ Halve => Filing'
  <1> SUFFICES ASSUME OrderInv, Halve, Started', pc' \in {"collect", "done"} PROVE Filing'
    BY DEF Filing
  <1>1. /\ UNCHANGED <<alerts, pc, sorted, i, groups>> /\ parent[cur] # cur
        /\ parent' = [parent EXCEPT ![cur] = parent[parent[cur]]]
        /\ Started /\ pc \in {"collect", "done"} /\ Here' = Here
    BY DEF Halve, Started, Here
  <1>2. FirstsOf(i - 1)' = FirstsOf(i - 1) /\ \A k : MembersOf(k, i - 1)' = MembersOf(k, i - 1)
    BY <1>1 DEF FirstsOf, MembersOf
  <1>3. \A x \in Here : parent[x] = x => parent'[x] = x
    <2>1. PICK rt \in [Here -> Here] : Good(rt)
      BY <1>1, Unpack DEF OrderInv
    <2>2. parent \in [Here -> Here]
      BY <2>1 DEF Good, Rooted
    <2> QED
      BY <1>1, <2>2
  <1> QED
    BY <1>1, <1>2, <1>3 DEF OrderInv, Filing

\* Filing one more alert.
LEMMA CollectFiles == OrderInv /\ Collect => Filing'
  <1> SUFFICES ASSUME OrderInv, Collect PROVE Filing'
    OBVIOUS
  <1>1. /\ IInv /\ Started /\ Shape /\ Sorted /\ Positions /\ pc = "collect"
    BY Unpack DEF OrderInv, Collect, IInv, Idle, Started
  <1>2. PICK rt \in [Here -> Here] : Good(rt)
    BY <1>1, Unpack
  <1> DEFINE e == sorted[i]
             F == FirstsOf(i - 1)
             K(g) == Nth(F, g)
             Linked(x, y) == Connected(alerts, x, y)
             Grp == [root : Ids, members : Seq(Alert)]
  <1>3. /\ UNCHANGED <<alerts, sorted, parent>> /\ parent[cur] = cur /\ i' = i + 1
        /\ groups' = Filed(cur, e) /\ Here' = Here
    BY DEF Collect, Here
  <1>4. N \in Nat /\ i \in 1..N /\ i \in Nat /\ i - 1 \in Nat /\ cur \in Here
    BY <1>1, Unpack DEF Positions, Finding
  <1>5. \A k \in 1..N : sorted[k] \in Alert /\ sorted[k].id \in Here
    BY <1>1, SortedFacts
  <1>6. \A x, y \in Here : rt[x] = rt[y] <=> Linked(x, y)
    BY <1>1, <1>2, RootsAreComponents
  <1>7. rt[e.id] = cur /\ rt[cur] = cur
    BY <1>1, <1>2, <1>3, <1>4, <1>5 DEF Good, Rooted, Walk
  <1>8. /\ F \in SUBSET (1..(i - 1)) /\ DOMAIN groups = 1..Cardinality(F)
        /\ \A g \in DOMAIN groups :
             /\ K(g) \in F /\ groups[g].members = Pick(sorted, MembersOf(K(g), i - 1))
             /\ groups[g].root \in Here /\ parent[groups[g].root] = groups[g].root
             /\ Linked(groups[g].root, sorted[K(g)].id)
    BY <1>1 DEF OrderInv, Filing, FirstsOf
  <1>9. /\ groups \in Seq(Grp) /\ Len(groups) \in Nat /\ DOMAIN groups = 1..Len(groups)
        /\ \A g \in DOMAIN groups : groups[g] \in Grp
    <2>1. groups \in Seq(Grp)
      BY <1>1 DEF Shape
    <2> HIDE DEF Grp
    <2> QED
      BY <2>1
  <1> HIDE DEF F, K, Linked, e
  <1>10. /\ 1..(i - 1) \subseteq 1..N /\ i \notin 1..(i - 1) /\ i' - 1 = i
         /\ e \in Alert /\ e.id \in Here
    BY <1>3, <1>4, <1>5 DEF e
  <1>11. \A g \in DOMAIN groups :
           /\ K(g) \in 1..(i - 1) /\ sorted[K(g)].id \in Here
           /\ rt[groups[g].root] = groups[g].root
           /\ groups[g].root = rt[sorted[K(g)].id]
    <2> TAKE g \in DOMAIN groups
    <2>1. K(g) \in 1..(i - 1) /\ sorted[K(g)].id \in Here
      BY <1>5, <1>8, <1>10
    <2>2. rt[groups[g].root] = groups[g].root
      BY <1>2, <1>8 DEF Good, Rooted
    <2> QED
      BY <1>6, <1>8, <2>1, <2>2
  \* Which places the alert is added to.
  <1>12. \A g \in DOMAIN groups : Linked(e.id, sorted[K(g)].id) <=> groups[g].root = cur
    BY <1>6, <1>7, <1>10, <1>11
  <1>13. ASSUME NEW k \in 1..i
         PROVE  MembersOf(k, i)
                  = IF Linked(e.id, sorted[k].id) THEN MembersOf(k, i - 1) \cup {i}
                    ELSE MembersOf(k, i - 1)
    <2>1. 1..i = 1..(i - 1) \cup {i}
      BY <1>4
    <2> QED
      BY <2>1 DEF MembersOf, Linked, e
  <1>14. FirstsOf(i)
           = IF \E l \in 1..(i - 1) : Linked(sorted[l].id, e.id) THEN F ELSE F \cup {i}
    <2>1. 1..i = 1..(i - 1) \cup {i}
      BY <1>4
    <2> QED
      BY <2>1 DEF FirstsOf, F, Linked, e
  <1>15. SUFFICES
           /\ DOMAIN groups' = 1..Cardinality(FirstsOf(i))
           /\ \A g \in DOMAIN groups' :
                LET k == Nth(FirstsOf(i), g)
                IN  /\ k \in FirstsOf(i)
                    /\ groups'[g].members = Pick(sorted, MembersOf(k, i))
                    /\ groups'[g].root \in Here /\ parent[groups'[g].root] = groups'[g].root
                    /\ Linked(groups'[g].root, sorted[k].id)
    <2>1. FirstsOf(i - 1)' = FirstsOf(i) /\ \A k : MembersOf(k, i - 1)' = MembersOf(k, i)
      BY <1>3, <1>10 DEF FirstsOf, MembersOf
    <2> QED
      BY <1>3, <2>1 DEF Filing, Linked
  <1>16. CASE \E f \in DOMAIN groups : groups[f].root = cur
    <2>1. PICK f \in DOMAIN groups : groups[f].root = cur
      BY <1>16
    <2>2. \A g \in DOMAIN groups : groups[g].root = cur => g = f
      BY <1>2, <2>1 DEF Good, Collected
    <2>3. FirstsOf(i) = F
      <3>1. K(f) \in 1..(i - 1) /\ Linked(sorted[K(f)].id, e.id)
        BY <1>6, <1>7, <1>10, <1>11, <2>1
      <3> QED
        BY <1>14, <3>1
    <2>4. groups' = [g \in DOMAIN groups |->
                       IF groups[g].root = cur
                       THEN [groups[g] EXCEPT !.members = Append(@, e)]
                       ELSE groups[g]]
      BY <1>3, <1>16 DEF Filed
    <2>5. DOMAIN groups' = DOMAIN groups
      BY <2>4
    <2>6. ASSUME NEW g \in DOMAIN groups
          PROVE  /\ groups'[g].members = Pick(sorted, MembersOf(K(g), i))
                 /\ groups'[g].root = groups[g].root
      <3>1. K(g) \in 1..i
        BY <1>4, <1>11
      <3>2. CASE groups[g].root = cur
        <4>1. /\ groups'[g].members = Append(groups[g].members, e)
              /\ groups'[g].root = groups[g].root
          BY <1>9, <2>4, <3>2
        <4>2. MembersOf(K(g), i) = MembersOf(K(g), i - 1) \cup {i}
          BY <1>12, <1>13, <3>1, <3>2
        <4>3. MembersOf(K(g), i - 1) \in SUBSET (1..(i - 1))
          BY DEF MembersOf
        <4>4. groups[g].members \in Seq(Alert)
          BY <1>9
        <4>5. Pick(sorted, MembersOf(K(g), i - 1) \cup {i})
                = Append(Pick(sorted, MembersOf(K(g), i - 1)), sorted[i])
          BY <1>4, <1>5, <1>8, <4>3, <4>4, PickAppends
        <4> QED
          BY <1>8, <4>1, <4>2, <4>5 DEF e
      <3>3. CASE groups[g].root # cur
        <4>1. groups'[g] = groups[g]
          BY <2>4, <3>3
        <4>2. MembersOf(K(g), i) = MembersOf(K(g), i - 1)
          BY <1>12, <1>13, <3>1, <3>3
        <4> QED
          BY <1>8, <4>1, <4>2
      <3> QED
        BY <3>2, <3>3
    <2> QED
      BY <1>8, <2>3, <2>5, <2>6 DEF K
  <1>17. CASE ~\E f \in DOMAIN groups : groups[f].root = cur
    <2>1. \A l \in 1..(i - 1) : ~Linked(sorted[l].id, e.id)
      <3> SUFFICES ASSUME NEW l \in 1..(i - 1), Linked(sorted[l].id, e.id) PROVE FALSE
        OBVIOUS
      <3>1. rt[sorted[l].id] = cur
        BY <1>5, <1>6, <1>7, <1>10
      <3>2. PICK g \in DOMAIN groups : \E k \in DOMAIN groups[g].members :
              groups[g].members[k] = sorted[l]
        BY <1>1, <1>2 DEF Good, Collected
      <3>3. PICK k \in DOMAIN groups[g].members : groups[g].members[k] = sorted[l]
        BY <3>2
      <3>4. PICK m \in 1..N : /\ groups[g].members[k] = sorted[m]
                              /\ rt[sorted[m].id] = groups[g].root
        BY <1>2 DEF Good, Collected
      <3> QED
        BY <1>17, <3>1, <3>3, <3>4
    <2>2. FirstsOf(i) = F \cup {i}
      BY <1>14, <2>1
    <2>3. /\ Cardinality(F) \in Nat /\ Cardinality(F \cup {i}) = Cardinality(F) + 1
          /\ \A q \in 1..Cardinality(F) : Nth(F \cup {i}, q) = K(q)
          /\ Nth(F \cup {i}, Cardinality(F) + 1) = i
      BY <1>4, <1>8, NthGrows DEF K
    <2> DEFINE fresh == [root |-> cur, members |-> <<e>>]
               last == Cardinality(F) + 1
    <2>4. fresh.root = cur /\ fresh.members = <<e>>
      OBVIOUS
    <2>5. groups' = Append(groups, fresh)
      BY <1>3, <1>17 DEF Filed
    <2> HIDE DEF fresh
    <2>6. Len(groups) = Cardinality(F)
      BY <1>8, <1>9, <2>3
    <2>7. /\ DOMAIN groups' = 1..last
          /\ groups'[last] = fresh
          /\ \A g \in 1..Cardinality(F) : groups'[g] = groups[g]
      <3> HIDE DEF Grp
      <3> QED
        BY <1>9, <2>5, <2>6
    <2>8. ASSUME NEW g \in 1..Cardinality(F)
          PROVE  groups'[g].members = Pick(sorted, MembersOf(K(g), i))
      <3>1. K(g) \in 1..i /\ groups[g].root # cur /\ g \in DOMAIN groups
        BY <1>4, <1>8, <1>11, <1>17
      <3>2. MembersOf(K(g), i) = MembersOf(K(g), i - 1)
        BY <1>12, <1>13, <3>1
      <3> QED
        BY <1>8, <2>7, <3>1, <3>2
    <2>9. fresh.members = Pick(sorted, MembersOf(i, i))
      <3>1. MembersOf(i, i - 1) = {}
        BY <2>1 DEF MembersOf, Linked, e
      <3>2. Linked(e.id, e.id)
        BY <1>6, <1>10
      <3>3. MembersOf(i, i) = {} \cup {i}
        <4>1. i \in 1..i
          BY <1>4
        <4>2. sorted[i] = e
          BY DEF e
        <4> QED
          BY <1>13, <3>1, <3>2, <4>1, <4>2
      <3>4. Pick(sorted, {}) = <<>>
        <4>1. Cardinality({}) = 0
          BY FS_EmptySet
        <4> DEFINE At(q) == sorted[Nth({}, q)]
        <4>2. Pick(sorted, {}) = [q \in 1..Cardinality({}) |-> At(q)]
          BY DEF Pick
        <4> HIDE DEF At
        <4>3. [q \in 1..0 |-> At(q)] = <<>>
          OBVIOUS
        <4> QED
          BY <4>1, <4>2, <4>3
      <3>5. {} \in SUBSET (1..(i - 1)) /\ <<>> \in Seq(Alert) /\ sorted[i] \in Alert
        BY <1>4, <1>5
      <3>6. Pick(sorted, {} \cup {i}) = Append(Pick(sorted, {}), sorted[i])
        BY <1>4, <3>4, <3>5, PickAppends
      <3>7. Append(<<>>, e) = <<e>>
        OBVIOUS
      <3> QED
        BY <2>4, <3>3, <3>4, <3>6, <3>7 DEF e
    <2>10. Linked(cur, e.id)
      BY <1>4, <1>6, <1>7, <1>10
    <2>11. ASSUME NEW g \in 1..last
           PROVE  LET k == Nth(F \cup {i}, g)
                  IN  /\ k \in F \cup {i}
                      /\ groups'[g].members = Pick(sorted, MembersOf(k, i))
                      /\ groups'[g].root \in Here /\ parent[groups'[g].root] = groups'[g].root
                      /\ Linked(groups'[g].root, sorted[k].id)
      <3>1. CASE g = last
        BY <1>3, <1>4, <2>3, <2>4, <2>7, <2>9, <2>10, <3>1 DEF e
      <3>2. CASE g # last
        <4>1. g \in 1..Cardinality(F)
          BY <2>3, <3>2
        <4>2. g \in DOMAIN groups /\ groups'[g] = groups[g] /\ Nth(F \cup {i}, g) = K(g)
          BY <1>8, <2>3, <2>7, <4>1
        <4> QED
          BY <1>8, <2>8, <4>1, <4>2
      <3> QED
        BY <3>1, <3>2
    <2> QED
      BY <2>2, <2>3, <2>7, <2>11
  <1> QED
    BY <1>16, <1>17

LEMMA NextOrder == OrderInv /\ [Next]_vars => OrderInv'
  <1> SUFFICES ASSUME OrderInv, [Next]_vars PROVE OrderInv'
    OBVIOUS
  <1>1. IInv'
    BY NextIInv DEF OrderInv
  <1>2. CASE Sort
    <2>1. ~(pc' \in {"collect", "done"})
      BY <1>2 DEF Sort
    <2> QED
      BY <1>1, <1>2, <2>1, SortInOrder DEF OrderInv, Filing
  <1>3. CASE ~Sort
    <2>1. alerts' = alerts /\ sorted' = sorted /\ (Started' => Started)
      BY <1>3 DEF vars, Next, NoAlerts, NextAnchor, Skip, Join, Halve, FoundA, Union, ScanDone,
                  Collect, Started, Finding
    <2>2. InOrder'
      BY <2>1 DEF OrderInv, InOrder
    <2>3. Filing'
      <3>1. CASE ScanDone \/ Halve \/ Collect
        BY <3>1, ScanDoneFiles, HalveFiles, CollectFiles
      <3>2. CASE NoAlerts \/ NextAnchor \/ Skip \/ Join \/ FoundA \/ Union
        <4>1. Started' => pc' \notin {"collect", "done"}
          BY <3>2 DEF NoAlerts, NextAnchor, Skip, Join, FoundA, Union, Started
        <4> QED
          BY <4>1 DEF Filing
      <3>3. CASE UNCHANGED vars
        BY <3>3 DEF OrderInv, Filing, FirstsOf, MembersOf, Started, Here, vars
      <3> QED
        BY <1>3, <3>1, <3>2, <3>3 DEF Next
    <2> QED
      BY <1>1, <2>2, <2>3 DEF OrderInv
  <1> QED
    BY <1>2, <1>3

\* What a finished call returns is the list the specification names.
Answered ==
  pc = "done" => [g \in DOMAIN groups |-> groups[g].members] = CandidateGroups(alerts)

LEMMA DoneIsAnswer == OrderInv => Answered
  <1> SUFFICES ASSUME OrderInv, pc = "done"
               PROVE  [g \in DOMAIN groups |-> groups[g].members] = CandidateGroups(alerts)
    BY DEF Answered
  <1> DEFINE result == [g \in DOMAIN groups |-> groups[g].members]
  <1>1. CASE ~Started
    <2>1. alerts = <<>> /\ groups = <<>>
      BY <1>1 DEF OrderInv, IInv, Idle
    <2>2. result = <<>>
      BY <2>1
    <2> DEFINE sort == SortedAlerts(<<>>)
               First(k) == \A l \in 1..(k - 1) : ~Connected(<<>>, sort[l].id, sort[k].id)
               firsts == {k \in DOMAIN sort : First(k)}
               Group(k) == Pick(sort, {l \in DOMAIN sort : Connected(<<>>, sort[l].id, sort[k].id)})
    <2>3. DOMAIN sort = {}
      BY DEF SortedAlerts
    <2>4. Cardinality(firsts) = 0
      BY <2>3, FS_EmptySet
    <2>5. CandidateGroups(<<>>) = [g \in 1..Cardinality(firsts) |-> Group(Nth(firsts, g))]
      BY DEF CandidateGroups
    <2>6. 1..0 = {}
      OBVIOUS
    <2> HIDE DEF sort, firsts, Group
    <2>7. CandidateGroups(<<>>) = <<>>
      BY <2>4, <2>5, <2>6
    <2> QED
      BY <2>1, <2>2, <2>7
  <1>2. CASE Started
    <2>1. /\ sorted = SortedAlerts(alerts) /\ i - 1 = N /\ DOMAIN sorted = 1..N
          /\ alerts # <<>>
      BY <1>2, Unpack DEF OrderInv, InOrder, Positions, Started
    <2> DEFINE firsts == FirstsOf(N)
               Group(k) == Pick(sorted, MembersOf(k, N))
    <2>2. /\ DOMAIN groups = 1..Cardinality(firsts)
          /\ \A g \in DOMAIN groups : groups[g].members = Group(Nth(firsts, g))
      BY <1>2, <2>1 DEF OrderInv, Filing
    <2>3. CandidateGroups(alerts) = [g \in 1..Cardinality(firsts) |-> Group(Nth(firsts, g))]
      BY <2>1 DEF CandidateGroups, FirstsOf, MembersOf
    <2> HIDE DEF firsts, Group
    <2> QED
      BY <2>2, <2>3
  <1> QED
    BY <1>1, <1>2

\* The specification means by its operators what the model means by them.
LEMMA SameGroups ==
  ASSUME NEW batch
  PROVE  Abstract!CandidateGroups(batch) = CandidateGroups(batch)
  <1>1. \A S : Abstract!Cardinality(S) = Cardinality(S)
    BY DEF Cardinality, Abstract!Cardinality
  <1>2. \A P, q : Abstract!Nth(P, q) = Nth(P, q)
    BY <1>1 DEF Nth, Abstract!Nth, Rank, Abstract!Rank
  <1>3. \A s, P : Abstract!Pick(s, P) = Pick(s, P)
    BY <1>1, <1>2 DEF Pick, Abstract!Pick
  <1>4. \A a, b : Abstract!Later(a, b) = Later(a, b)
    BY DEF Later, Abstract!Later, ParseTs, Abstract!ParseTs
  <1>5. \A a, b : Abstract!Related(a, b) <=> Related(a, b)
    BY <1>4 DEF Related, Abstract!Related, Shared, Abstract!Shared, SecondSignal,
                Abstract!SecondSignal
  <1>6. \A S : Abstract!Closed(batch, S) <=> Closed(batch, S)
    BY <1>5 DEF Closed, Abstract!Closed
  <1>7. Abstract!IdsOf(batch) = IdsOf(batch)
    BY DEF IdsOf, Abstract!IdsOf
  <1>8. \A x, y : Abstract!Connected(batch, x, y) <=> Connected(batch, x, y)
    BY <1>6, <1>7 DEF Connected, Abstract!Connected
  <1>9. Abstract!TimeOrders(batch) = TimeOrders(batch)
    <2>1. \A S, T : Abstract!Bijection(S, T) = Bijection(S, T)
      BY DEF Bijection, Abstract!Bijection, Injection, Abstract!Injection, Surjection,
             Abstract!Surjection, IsInjective, Abstract!IsInjective
    <2> QED
      BY <1>4, <2>1 DEF TimeOrders, Abstract!TimeOrders
  <1>10. Abstract!SortedAlerts(batch) = SortedAlerts(batch)
    BY <1>9 DEF SortedAlerts, Abstract!SortedAlerts
  <1> QED
    BY <1>1, <1>2, <1>3, <1>8, <1>10 DEF CandidateGroups, Abstract!CandidateGroups

\* The call implements the specification step by step: it begins with no
\* result, every step but the last leaves it so, and the last one answers
\* with the groups in the order the specification gives them (the liveness
\* of that specification is left to TLC).
THEOREM CallImplementsGrouping == Spec => Abstract!Init /\ [][Abstract!Answer]_(Abstract!vars)
  <1>1. Init => Abstract!Init
    BY DEF Init, Abstract!Init
  <1>2. Answered' /\ [Next]_vars => [Abstract!Answer]_(Abstract!vars)
    <2> SUFFICES ASSUME Answered', [Next]_vars
                 PROVE  [Abstract!Answer]_(Abstract!vars)
      OBVIOUS
    <2>1. alerts' = alerts
      BY DEF vars, Next, NoAlerts, Sort, NextAnchor, Skip, Join, Halve, FoundA, Union, ScanDone,
             Collect
    <2>2. CASE pc = "done"
      <3>1. UNCHANGED vars
        BY <2>2 DEF Next, NoAlerts, Sort, NextAnchor, Skip, Join, Halve, FoundA, Union, ScanDone,
                    Collect, Finding
      <3> QED
        BY <3>1 DEF vars, Abstract!vars
    <2>3. CASE pc # "done" /\ pc' # "done"
      BY <2>1, <2>3 DEF Abstract!vars
    <2>4. CASE pc # "done" /\ pc' = "done"
      <3>1. [g \in DOMAIN groups' |-> groups'[g].members] = CandidateGroups(alerts)'
        BY <2>4 DEF Answered
      <3>2. CandidateGroups(alerts)' = Abstract!CandidateGroups(alerts)
        BY <2>1, SameGroups
      <3> QED
        BY <2>1, <2>4, <3>1, <3>2 DEF Abstract!Answer
    <2> QED
      BY <2>2, <2>3, <2>4
  <1> QED
    BY <1>1, <1>2, InitOrder, NextOrder, DoneIsAnswer, PTL DEF Spec
=============================================================================
