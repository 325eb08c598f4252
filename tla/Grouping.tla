------------------------------ MODULE Grouping ------------------------------
(***************************************************************************)
(* grouping.py: group_candidates, one call on one batch of alerts.  The    *)
(* batch is sorted by time, every pair inside the window is scanned, the   *)
(* related pairs are joined in a union-find keyed by alert identifier, and *)
(* the alerts are collected by root.  One action is one iteration of one   *)
(* of the loops, so that the halving of paths by find, which happens       *)
(* between and during unions, is visible.                                  *)
(***************************************************************************)
EXTENDS Alerts

CONSTANT Batches    \* the batches of alerts the function may be called with

ASSUME BatchesAssumption == Batches \subseteq Seq(Alert)

VARIABLES
  alerts,   \* the argument
  pc,       \* where the call is
  sorted,   \* events_sorted
  parent,   \* _UnionFind.parent
  i, j,     \* positions of a and b in sorted (1-based)
  cur,      \* x in _UnionFind.find
  rootA,    \* ra in _UnionFind.union
  groups    \* the dictionary root -> members, in insertion order

vars == <<alerts, pc, sorted, parent, i, j, cur, rootA, groups>>

Finding == {"findA", "findB", "collect"}
PCs     == {"start", "scan", "done"} \cup Finding

N == Len(sorted)

-----------------------------------------------------------------------------
Init ==
  /\ alerts \in Batches
  /\ pc = "start"
  /\ sorted = <<>>
  /\ parent = <<>>
  /\ i = 1 /\ j = 2
  /\ cur = None /\ rootA = None
  /\ groups = <<>>

NoAlerts ==
  /\ pc = "start"
  /\ alerts = <<>>
  /\ pc' = "done"
  /\ UNCHANGED <<alerts, sorted, parent, i, j, cur, rootA, groups>>

Sort ==
  /\ pc = "start"
  /\ alerts # <<>>
  /\ parent' = [x \in IdsOf(alerts) |-> x]
  /\ \E order \in TimeOrders(alerts) : sorted' = [k \in DOMAIN alerts |-> alerts[order[k]]]
  /\ pc' = "scan"
  /\ UNCHANGED <<alerts, i, j, cur, rootA, groups>>

-----------------------------------------------------------------------------
(* The scan over pairs.                                                    *)

InWindow(a, b) == Later(b, a) <= Window

\* Mutant: the outer loop runs past the last alert.
NextAnchorPastEnd ==
  /\ pc = "scan"
  /\ \/ j > N
     \/ j <= N /\ ~InWindow(sorted[i], sorted[j])
  /\ i' = i + 1
  /\ j' = i + 2
  /\ UNCHANGED <<alerts, pc, sorted, parent, cur, rootA, groups>>

NextAnchor ==
  /\ pc = "scan"
  /\ i <= N
  /\ \/ j > N
     \/ j <= N /\ ~InWindow(sorted[i], sorted[j])
  /\ i' = i + 1
  /\ j' = i + 2
  /\ UNCHANGED <<alerts, pc, sorted, parent, cur, rootA, groups>>

\* Mutant: one unrelated alert ends the inner loop.
SkipEndsInnerLoop ==
  /\ pc = "scan"
  /\ i <= N /\ j <= N
  /\ InWindow(sorted[i], sorted[j])
  /\ ~Related(sorted[i], sorted[j])
  /\ i' = i + 1 /\ j' = i + 2
  /\ UNCHANGED <<alerts, pc, sorted, parent, cur, rootA, groups>>

Skip ==
  /\ pc = "scan"
  /\ i <= N /\ j <= N
  /\ InWindow(sorted[i], sorted[j])
  /\ ~Related(sorted[i], sorted[j])
  /\ j' = j + 1
  /\ UNCHANGED <<alerts, pc, sorted, parent, i, cur, rootA, groups>>

Join ==
  /\ pc = "scan"
  /\ i <= N /\ j <= N
  /\ InWindow(sorted[i], sorted[j])
  /\ Related(sorted[i], sorted[j])
  /\ pc' = "findA"
  /\ cur' = sorted[i].id
  /\ UNCHANGED <<alerts, sorted, parent, i, j, rootA, groups>>

-----------------------------------------------------------------------------
(* find and union.                                                         *)

\* Mutant: find halves the path but does not move along it.
HalveInPlace ==
  /\ pc \in Finding
  /\ parent[cur] # cur
  /\ parent' = [parent EXCEPT ![cur] = parent[parent[cur]]]
  /\ UNCHANGED <<alerts, pc, sorted, i, j, cur, rootA, groups>>

Halve ==
  /\ pc \in Finding
  /\ parent[cur] # cur
  /\ parent' = [parent EXCEPT ![cur] = parent[parent[cur]]]
  /\ cur' = parent[parent[cur]]
  /\ UNCHANGED <<alerts, pc, sorted, i, j, rootA, groups>>

FoundA ==
  /\ pc = "findA"
  /\ parent[cur] = cur
  /\ rootA' = cur
  /\ cur' = sorted[j].id
  /\ pc' = "findB"
  /\ UNCHANGED <<alerts, sorted, parent, i, j, groups>>

\* Mutant: the root of a is hung under b itself, compared with b itself.
UnionWithoutRootOfB ==
  /\ pc = "findB"
  /\ parent[cur] = cur
  /\ parent' = [parent EXCEPT ![rootA] = sorted[j].id]
  /\ pc' = "scan"
  /\ j' = j + 1
  /\ cur' = None /\ rootA' = None
  /\ UNCHANGED <<alerts, sorted, i, groups>>

Union ==
  /\ pc = "findB"
  /\ parent[cur] = cur
  /\ parent' = IF rootA # cur THEN [parent EXCEPT ![rootA] = cur] ELSE parent
  /\ pc' = "scan"
  /\ j' = j + 1
  /\ cur' = None /\ rootA' = None
  /\ UNCHANGED <<alerts, sorted, i, groups>>

-----------------------------------------------------------------------------
(* Collecting the alerts by root.                                          *)

ScanDone ==
  /\ pc = "scan"
  /\ i > N
  /\ pc' = "collect"
  /\ i' = 1
  /\ cur' = sorted[1].id
  /\ UNCHANGED <<alerts, sorted, parent, j, rootA, groups>>

\* groups.setdefault(root, []).append(e)
Filed(root, e) ==
  IF \E g \in DOMAIN groups : groups[g].root = root
  THEN [g \in DOMAIN groups |->
          IF groups[g].root = root
          THEN [groups[g] EXCEPT !.members = Append(@, e)]
          ELSE groups[g]]
  ELSE Append(groups, [root |-> root, members |-> <<e>>])

Collect ==
  /\ pc = "collect"
  /\ parent[cur] = cur
  /\ groups' = Filed(cur, sorted[i])
  /\ i' = i + 1
  /\ IF i < N
     THEN cur' = sorted[i + 1].id /\ pc' = pc
     ELSE cur' = None /\ pc' = "done"
  /\ UNCHANGED <<alerts, sorted, parent, j, rootA>>

-----------------------------------------------------------------------------
Next ==
  \/ NoAlerts \/ Sort
  \/ NextAnchor \/ Skip \/ Join
  \/ Halve \/ FoundA \/ Union
  \/ ScanDone \/ Collect

\* A call runs to its end: one thread, no blocking operation.
Spec == Init /\ [][Next]_vars /\ WF_vars(Next)

-----------------------------------------------------------------------------
(* Properties.                                                             *)

IdsHere == IdsOf(alerts)

\* Type invariant.
TypeOK ==
  /\ alerts \in Batches
  /\ pc \in PCs
  /\ sorted \in Seq(Alert)
  /\ parent \in [DOMAIN parent -> Ids]
  /\ i \in 1..(N + 1) /\ j \in 2..(N + 2)
  /\ cur \in Ids \cup {None} /\ rootA \in Ids \cup {None}
  /\ groups \in Seq([root : Ids, members : Seq(Alert)])

\* The union-find never has a cycle: every set of identifiers holds one that
\* is a root or whose link leaves the set.  So find, which runs between any
\* two unions and rewrites links as it goes, cannot walk in a circle
\* (grouping.py: find, union).
Forest ==
  \A S \in SUBSET (DOMAIN parent) :
    S # {} => \E x \in S : parent[x] = x \/ parent[x] \notin S

\* When the call returns, every alert is in a group, and two alerts are in
\* the same group exactly when a chain of related alerts connects them: the
\* `break' at the window's edge, the order of the unions and the halving
\* lose no link and invent none (grouping.py: group_candidates).
GroupsAreComponents ==
  pc = "done" =>
    /\ \A p \in DOMAIN alerts :
         \E g \in DOMAIN groups : \E k \in DOMAIN groups[g].members :
           groups[g].members[k] = alerts[p]
    /\ \A g, h \in DOMAIN groups :
         \A k \in DOMAIN groups[g].members, l \in DOMAIN groups[h].members :
           g = h <=> Connected(alerts, groups[g].members[k].id, groups[h].members[l].id)

\* The result is the list the abstract specification names, in its order:
\* groups by first alert, alerts by time, ties as they arrived.
Abstract == INSTANCE GroupingSpec WITH
  result <- IF pc = "done" THEN [g \in DOMAIN groups |-> groups[g].members] ELSE None

ComputesCandidateGroups == Abstract!Spec

\* The alerts of a group come from one source: an address that took part in
\* nothing else is never drawn in through a chain (grouping.py: _related).
OneSourcePerGroup ==
  pc = "done" =>
    \A g \in DOMAIN groups :
      \A k, l \in DOMAIN groups[g].members :
        groups[g].members[k].src = groups[g].members[l].src

\* The module's docstring: two events join a candidate group only if they
\* are within the window, share a source and one more attribute; so a group
\* of several alerts holds two that are related.
JoinedOnlyByRelation ==
  pc = "done" =>
    \A g \in DOMAIN groups :
      LET m == groups[g].members
      IN  Len(m) > 1 => \E k, l \in DOMAIN m : Related(m[k], m[l])
=============================================================================
