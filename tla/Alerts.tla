------------------------------- MODULE Alerts -------------------------------
(***************************************************************************)
(* The alerts scripts/nisec_correlate works on, and the pure functions     *)
(* over them that its stages share: when two alerts are related            *)
(* (grouping.py), which copies of an alert are collapsed and under which   *)
(* key an analysis is cached (dedup.py).                                   *)
(*                                                                         *)
(* An alert keeps the fields that those functions read.  A missing field   *)
(* is None; a category is the set of its comma-separated parts; `text'     *)
(* stands for everything else that is sent to the model but takes part in  *)
(* no decision (severity, description).                                    *)
(***************************************************************************)
EXTENDS Integers, Sequences, FiniteSets, Functions, Places

CONSTANTS Ids,      \* identifiers an alert may carry
          Values,   \* addresses, ports, agents, rules, categories, texts
          None,     \* a field the raw alert does not have
          Window    \* CORRELATION_WINDOW_SECONDS, any integer the environment gives

ASSUME WindowAssumption == Window \in Int

Alert == [id   : Ids,
          ts   : Int \cup {None},
          src  : Values \cup {None},
          dst  : Values \cup {None},
          port : Values \cup {None},
          agent: Values \cup {None},
          rule : Values \cup {None},
          cats : SUBSET Values,
          text : Values \cup {None}]

-----------------------------------------------------------------------------
(* Relating two alerts.                                                    *)

\* A timestamp that does not parse counts as the epoch.
ParseTs(ts) == IF ts = None THEN 0 ELSE ts

Later(b, a) == ParseTs(b.ts) - ParseTs(a.ts)

Shared(x, y) == x # None /\ x = y

SecondSignal(a, b) ==
  \/ Shared(a.dst, b.dst)
  \/ Shared(a.agent, b.agent)
  \/ Shared(a.port, b.port)
  \/ a.cats \cap b.cats # {}

\* Mutant: the source is one signal among others.
RelatedByAnyTwo(a, b) ==
  /\ a.id # b.id
  /\ Later(a, b) <= Window /\ Later(b, a) <= Window
  /\ SecondSignal(a, b)

Related(a, b) ==
  /\ a.id # b.id
  /\ Later(a, b) <= Window /\ Later(b, a) <= Window
  /\ Shared(a.src, b.src)
  /\ SecondSignal(a, b)

-----------------------------------------------------------------------------
(* The reference: candidate groups are the connected components of the     *)
(* relation.  A set of identifiers is closed when no related pair crosses  *)
(* its border; two identifiers are connected when no closed set separates  *)
(* them.                                                                   *)

IdsOf(alerts) == {alerts[k].id : k \in DOMAIN alerts}

Closed(alerts, S) ==
  \A p, q \in DOMAIN alerts :
    Related(alerts[p], alerts[q]) => (alerts[p].id \in S <=> alerts[q].id \in S)

Connected(alerts, x, y) ==
  \A S \in SUBSET IdsOf(alerts) : Closed(alerts, S) => (x \in S <=> y \in S)

\* The positions of a batch in time order, ties in the order of the batch.
TimeOrders(alerts) ==
  {order \in Bijection(DOMAIN alerts, DOMAIN alerts) :
     \A k, l \in DOMAIN alerts :
       k < l => \/ Later(alerts[order[l]], alerts[order[k]]) > 0
                \/ /\ Later(alerts[order[l]], alerts[order[k]]) = 0
                   /\ order[k] < order[l]}

SortedAlerts(alerts) ==
  LET order == CHOOSE o \in TimeOrders(alerts) : TRUE
  IN  [k \in DOMAIN alerts |-> alerts[order[k]]]

\* The candidate groups of a batch, each in time order, in the order of
\* their first alerts.
CandidateGroups(alerts) ==
  LET sorted   == SortedAlerts(alerts)
      First(k) == \A l \in 1..(k - 1) : ~Connected(alerts, sorted[l].id, sorted[k].id)
      Group(k) == Pick(sorted, {l \in DOMAIN sorted : Connected(alerts, sorted[l].id, sorted[k].id)})
      firsts   == {k \in DOMAIN sorted : First(k)}
  IN  [g \in 1..Cardinality(firsts) |-> Group(Nth(firsts, g))]

-----------------------------------------------------------------------------
(* Collapsing copies and naming a group (dedup.py).                        *)

\* The code hashes the strings of the timestamp and the categories; two that
\* differ but read as the same second, or as one set, are copies here and not
\* there.  No property tells the two apart.
EventFingerprint(e) == <<e.ts, e.src, e.dst, e.rule, e.cats>>

DedupeForAI(alerts) ==
  LET FirstCopy(k) == \A l \in 1..(k - 1) :
                        EventFingerprint(alerts[l]) # EventFingerprint(alerts[k])
  IN  Pick(alerts, {k \in DOMAIN alerts : FirstCopy(k)})

\* Mutant: only the first identifier goes into the key.
FingerprintOfFirst(alerts) == {alerts[1].id}

\* The cache key: the sorted identifiers, that is, the bag of them.  The
\* prompt version is one constant of the program and is left out.
GroupFingerprint(alerts) ==
  [i \in IdsOf(alerts) |-> Cardinality({k \in DOMAIN alerts : alerts[k].id = i})]
=============================================================================
