---------------------------- MODULE IntakeProofs -----------------------------
(***************************************************************************)
(* Proofs about Intake, for any window, tail, lag, number of readers and   *)
(* of broken connections: what the answers of the manager have in common.  *)
(*                                                                         *)
(* The log only grows, so that a query of the past can be asked again: its *)
(* answer is still told by how long the log was.  Two answers about one    *)
(* window differ by what the log has grown by, and by what has left its    *)
(* tail; and what the log has grown by is at most MaxLag older than the    *)
(* query.                                                                  *)
(*                                                                         *)
(* The page shows what the second query of a hunt listed.  Its rows stand  *)
(* for the places of the alerts in the log, one each; sorting moves them   *)
(* and keeps them; a frequency counts the rows of a rule, so that all of   *)
(* them count the table; and the headings of the report tell the parser    *)
(* which rows are which.  These are lemmas about the operators of Places   *)
(* and Evidence; the invariant only says which queries a report is of.     *)
(***************************************************************************)
EXTENDS Intake, SequenceTheorems, FiniteSetTheorems, TLAPS

Entry == [raw : Raws, ts : Int]
Query == [at : Nat, length : Nat, got : SUBSET Nat, whole : BOOLEAN]
Labels == {"absent", "idle", "since", "counted", "quit", "reported", "loaded", "failed"}

\* How many queries a reader has asked.
Asked(place) ==
  IF place = "reported" THEN 2 ELSE IF place \in {"counted", "quit", "loaded"} THEN 1 ELSE 0

-----------------------------------------------------------------------------
(* The inductive invariant.                                                *)

Types ==
  /\ now \in Nat /\ log \in Seq(Entry)
  /\ pc \in [Readers -> Labels]
  /\ answer \in [Readers -> Seq(Query)]
  /\ DOMAIN since = Readers /\ DOMAIN total = Hunts
  /\ \A r \in Readers :
       /\ Len(answer[r]) = Asked(pc[r])
       /\ pc[r] \notin {"absent", "idle", "failed"} => since[r] \in Int

\* The places that a query selects while the log has the length.
Selected(length, start) == {k \in 1..length : k > length - TailLines /\ log[k].ts >= start}

\* A query has what was selected, unless the connection broke.
Truthful(query, start) ==
  /\ query.got \subseteq Selected(query.length, start)
  /\ query.whole => query.got = Selected(query.length, start)

\* What has come into the log since a query was asked is at most MaxLag older.
Since(query) ==
  /\ query.at <= now /\ query.length <= Len(log)
  /\ \A k \in DOMAIN log : k > query.length => log[k].ts >= query.at - MaxLag

Answers ==
  \A r \in Readers : \A i \in 1..Asked(pc[r]) :
    Truthful(answer[r][i], since[r]) /\ Since(answer[r][i])

\* A hunt goes on with the count of an answer that came whole.
Counts ==
  \A h \in Hunts :
    /\ pc[h] \in {"counted", "reported"} =>
         answer[h][1].whole /\ total[h] = Cardinality(answer[h][1].got)
    /\ pc[h] = "reported" => answer[h][1].length <= answer[h][2].length

IntakeInv == Types /\ Answers /\ Counts

-----------------------------------------------------------------------------
(* Lemmas about queries.                                                   *)

\* A query is answered truthfully, and nothing has come after it yet.
LEMMA AskStep ==
  ASSUME Types, NEW r \in Readers, Ask(r, Window(since[r]))
  PROVE  \E query \in Query :
           /\ answer' = [answer EXCEPT ![r] = Append(answer[r], query)]
           /\ query.length = Len(log) /\ query.at = now
           /\ Truthful(query, since[r]) /\ Since(query)
  <1> DEFINE places == Window(since[r])
             Q(got) == [at |-> now, length |-> Len(log), got |-> got, whole |-> got = places]
  <1>1. log \in Seq(Entry) /\ now \in Nat BY DEF Types
  <1>2. Len(log) \in Nat /\ DOMAIN log = 1..Len(log) BY <1>1
  <1>3. places = Selected(Len(log), since[r]) /\ places \subseteq Nat
    BY <1>2 DEF Window, Selected
  <1> HIDE DEF places
  <1>4. PICK got : got \subseteq places /\ answer' = [answer EXCEPT ![r] = Append(answer[r], Q(got))]
    BY DEF Ask, places
  <1>5. Q(got) \in Query BY <1>1, <1>2, <1>3, <1>4 DEF Query
  <1>6. Truthful(Q(got), since[r]) BY <1>3, <1>4 DEF Truthful
  <1>7. Since(Q(got)) BY <1>1, <1>2 DEF Since
  <1> QED BY <1>4, <1>5, <1>6, <1>7

\* A reader that asks, and that has asked once more thereafter.
LEMMA ReaderAsks ==
  ASSUME Types, Answers, NEW r \in Readers, pc[r] \in {"since", "counted"},
         Ask(r, Window(since[r])), NEW label \in Labels, Goto(r, label),
         label \notin {"absent", "idle", "failed"}, Asked(label) = Asked(pc[r]) + 1,
         UNCHANGED <<now, log, since>>, DOMAIN total' = Hunts
  PROVE  /\ Types' /\ Answers'
         /\ \E query \in Query :
              /\ Truthful(query, since[r]) /\ query.length = Len(log)
              /\ answer'[r] = Append(answer[r], query)
         /\ \A s \in Readers : s # r => answer'[s] = answer[s] /\ pc'[s] = pc[s]
         /\ \A i \in 1..Asked(pc[r]) : answer'[r][i] = answer[r][i]
         /\ pc'[r] = label
  <1>1. PICK query \in Query :
          /\ answer' = [answer EXCEPT ![r] = Append(answer[r], query)]
          /\ query.length = Len(log) /\ query.at = now
          /\ Truthful(query, since[r]) /\ Since(query)
    BY AskStep
  <1>2. pc' = [pc EXCEPT ![r] = label] BY DEF Goto
  <1>3. pc'[r] = label /\ \A s \in Readers : s # r => answer'[s] = answer[s] /\ pc'[s] = pc[s]
    BY <1>1, <1>2 DEF Types
  <1>4. answer'[r] = Append(answer[r], query) /\ answer[r] \in Seq(Query)
    BY <1>1 DEF Types
  <1>5. /\ answer'[r] \in Seq(Query) /\ Len(answer'[r]) = Asked(pc[r]) + 1
        /\ answer'[r][Asked(pc[r]) + 1] = query
        /\ \A i \in 1..Asked(pc[r]) : answer'[r][i] = answer[r][i]
    <2>1. Len(answer[r]) = Asked(pc[r]) BY DEF Types
    <2> QED BY <1>4, <2>1, AppendProperties
  <1>6. Types'
    <2>1. answer' \in [Readers -> Seq(Query)] BY <1>1, <1>4, <1>5 DEF Types
    <2>2. pc' \in [Readers -> Labels] BY <1>2 DEF Types
    <2>3. \A s \in Readers : Len(answer'[s]) = Asked(pc'[s]) BY <1>3, <1>5 DEF Types
    <2>4. \A s \in Readers : pc'[s] \notin {"absent", "idle", "failed"} => since'[s] \in Int
      BY <1>3 DEF Types
    <2> QED BY <2>1, <2>2, <2>3, <2>4 DEF Types
  <1>7. Answers'
    <2>1. ASSUME NEW s \in Readers, NEW i \in 1..Asked(pc'[s])
          PROVE  Truthful(answer'[s][i], since[s]) /\ Since(answer'[s][i])
      <3>1. CASE s # r BY <2>1, <3>1, <1>3 DEF Answers
      <3>2. CASE s = r /\ i \in 1..Asked(pc[r]) BY <3>2, <1>5 DEF Answers
      <3>3. CASE s = r /\ i = Asked(pc[r]) + 1 BY <3>3, <1>1, <1>5
      <3>4. s = r => i \in 1..Asked(pc[r]) \/ i = Asked(pc[r]) + 1
        BY <2>1, <1>3 DEF Asked
      <3> QED BY <3>1, <3>2, <3>3, <3>4
    <2> QED BY <2>1 DEF Answers, Truthful, Selected, Since
  <1> QED BY <1>1, <1>3, <1>4, <1>5, <1>6, <1>7

-----------------------------------------------------------------------------
(* Every step keeps the invariant.                                         *)

\* It holds before anything is asked.
LEMMA InitInv == Init => IntakeInv
  <1> SUFFICES ASSUME Init PROVE IntakeInv OBVIOUS
  <1>1. PICK cast \in Casts : pc = [r \in Readers |-> IF r \in cast THEN "idle" ELSE "absent"]
    BY DEF Init
  <1>2. \A r \in Readers : pc[r] \in {"idle", "absent"} BY <1>1
  <1>3. Types
    <2>1. pc \in [Readers -> Labels] BY <1>1 DEF Labels
    <2>2. log \in Seq(Entry) /\ now \in Nat BY DEF Init
    <2>3. answer \in [Readers -> Seq(Query)] /\ \A r \in Readers : Len(answer[r]) = 0
      BY DEF Init
    <2>4. DOMAIN since = Readers /\ DOMAIN total = Hunts BY DEF Init
    <2> QED BY <1>2, <2>1, <2>2, <2>3, <2>4 DEF Types, Asked
  <1>4. 1..0 = {} OBVIOUS
  <1>5. Answers BY <1>2, <1>4 DEF Answers, Asked
  <1>6. Counts
    <2>1. \A h \in Hunts : pc[h] \in {"idle", "absent"} BY <1>2 DEF Readers
    <2> QED BY <2>1 DEF Counts
  <1> QED BY <1>3, <1>5, <1>6 DEF IntakeInv

\* Time passes.
LEMMA TickInv == ASSUME IntakeInv, Tick PROVE IntakeInv'
  <1>1. /\ now' = now + 1 /\ log' = log /\ pc' = pc /\ since' = since /\ total' = total
        /\ answer' = answer
    BY DEF Tick
  <1>2. Types' BY <1>1 DEF IntakeInv, Types
  <1>3. Answers'
    <2>1. ASSUME NEW r \in Readers, NEW i \in 1..Asked(pc[r]) PROVE Since(answer[r][i])'
      <3>1. Since(answer[r][i]) BY DEF IntakeInv, Answers
      <3>2. answer[r][i] \in Query
        <4>1. answer[r] \in Seq(Query) /\ Len(answer[r]) = Asked(pc[r]) BY DEF IntakeInv, Types
        <4> QED BY <4>1, ElementOfSeq
      <3>3. now \in Nat /\ answer[r][i].at \in Nat BY <3>2 DEF IntakeInv, Types, Query
      <3>4. answer[r][i].at <= now' BY <3>1, <3>3, <1>1 DEF Since
      <3> QED BY <3>1, <3>4, <1>1 DEF Since
    <2> QED BY <2>1, <1>1 DEF IntakeInv, Answers, Truthful, Selected
  <1>4. Counts' BY <1>1 DEF IntakeInv, Counts
  <1> QED BY <1>2, <1>3, <1>4 DEF IntakeInv

\* An alert that is logged changes no answer, and is at most MaxLag late.
LEMMA RaiseInv == ASSUME IntakeInv, Raise PROVE IntakeInv'
  <1>1. /\ now' = now /\ pc' = pc /\ since' = since /\ total' = total /\ answer' = answer
    BY DEF Raise
  <1>2. PICK raw \in Raws, lag \in 0..MaxLag : log' = Append(log, [raw |-> raw, ts |-> now - lag])
    BY DEF Raise
  <1> DEFINE entry == [raw |-> raw, ts |-> now - lag]
  <1>3. log \in Seq(Entry) /\ now \in Nat BY DEF IntakeInv, Types
  <1>4. entry \in Entry /\ entry.ts = now - lag /\ lag \in 0..MaxLag /\ MaxLag \in Nat
    BY <1>3, BoundsAssumption DEF Entry
  <1>5. log' = Append(log, entry) BY <1>2
  <1> HIDE DEF entry
  <1>6. /\ log' \in Seq(Entry) /\ Len(log') = Len(log) + 1 /\ log'[Len(log) + 1] = entry
        /\ \A k \in 1..Len(log) : log'[k] = log[k]
    BY <1>3, <1>4, <1>5, AppendProperties
  <1>7. Len(log) \in Nat /\ DOMAIN log = 1..Len(log) /\ DOMAIN log' = 1..Len(log) + 1
    BY <1>3, <1>6
  <1>8. Types' BY <1>1, <1>6 DEF IntakeInv, Types
  <1>9. ASSUME NEW r \in Readers, NEW i \in 1..Asked(pc[r])
        PROVE  Truthful(answer[r][i], since[r])' /\ Since(answer[r][i])'
    <2> DEFINE query == answer[r][i]
    <2>1. Truthful(query, since[r]) /\ Since(query) BY DEF IntakeInv, Answers
    <2>2. query \in Query
      <3>1. answer[r] \in Seq(Query) /\ Len(answer[r]) = Asked(pc[r]) BY DEF IntakeInv, Types
      <3> QED BY <3>1, ElementOfSeq
    <2>3. query.at \in Nat /\ query.length \in Nat BY <2>2 DEF Query
    <2>4. query.at <= now /\ query.length <= Len(log)
          /\ \A k \in DOMAIN log : k > query.length => log[k].ts >= query.at - MaxLag
      BY <2>1 DEF Since
    <2>5. Selected(query.length, since[r])' = Selected(query.length, since[r])
      <3> DEFINE length == query.length
                 start  == since[r]
      <3>1. \A k \in 1..length : log'[k] = log[k] BY <2>3, <2>4, <1>6, <1>7
      <3>2. length' = length /\ start' = start BY <1>1
      <3> HIDE DEF length, start
      <3>3. Selected(length, start)' = Selected(length, start) BY <3>1, <3>2 DEF Selected
      <3> QED BY <3>3 DEF length, start
    <2>6. Truthful(query, since[r])' BY <2>1, <2>5, <1>1 DEF Truthful
    <2>7. ASSUME NEW k \in DOMAIN log', k > query.length PROVE log'[k].ts >= query.at - MaxLag
      <3>1. CASE k \in DOMAIN log BY <3>1, <2>4, <2>7, <1>6, <1>7
      <3>2. CASE k = Len(log) + 1
        <4>1. log'[k].ts = now - lag BY <3>2, <1>4, <1>6
        <4> QED BY <4>1, <2>3, <2>4, <1>3, <1>4
      <3> QED BY <3>1, <3>2, <2>7, <1>7
    <2>8. query.length <= Len(log') BY <2>3, <2>4, <1>6, <1>7
    <2>9. Since(query)' BY <2>4, <2>7, <2>8, <1>1 DEF Since
    <2> QED BY <2>6, <2>9
  <1>10. Answers' BY <1>1, <1>9 DEF Answers
  <1>11. Counts' BY <1>1 DEF IntakeInv, Counts
  <1> QED BY <1>8, <1>10, <1>11 DEF IntakeInv

\* A reader that has asked nothing yet.
LEMMA NothingAsked ==
  ASSUME IntakeInv, NEW r \in Readers, NEW label \in {"since", "failed"}, pc[r] = "idle",
         Goto(r, label), UNCHANGED <<now, log, total, answer>>, DOMAIN since' = Readers,
         \A s \in Readers : s # r => since'[s] = since[s], label = "since" => since'[r] \in Int
  PROVE  IntakeInv'
  <1>1. pc' = [pc EXCEPT ![r] = label] /\ pc \in [Readers -> Labels] BY DEF Goto, IntakeInv, Types
  <1>2. pc'[r] = label /\ \A s \in Readers : s # r => pc'[s] = pc[s] BY <1>1
  <1>3. Asked(pc'[r]) = 0 /\ Asked(pc[r]) = 0 BY <1>2 DEF Asked
  <1>4. \A s \in Readers : Asked(pc'[s]) = Asked(pc[s]) BY <1>2, <1>3
  <1>5. Types'
    <2>1. pc' \in [Readers -> Labels] BY <1>1 DEF Labels
    <2>2. \A s \in Readers : pc'[s] \notin {"absent", "idle", "failed"} => since'[s] \in Int
      BY <1>2 DEF IntakeInv, Types
    <2> QED BY <1>4, <2>1, <2>2 DEF IntakeInv, Types
  <1>6. Answers'
    <2>1. 1..0 = {} OBVIOUS
    <2>2. ASSUME NEW s \in Readers, NEW i \in 1..Asked(pc'[s])
          PROVE  s # r /\ Truthful(answer[s][i], since'[s]) /\ Since(answer[s][i])
      <3>1. s # r BY <2>1, <2>2, <1>3
      <3> QED BY <3>1, <2>2, <1>2 DEF IntakeInv, Answers
    <2> QED BY <2>2 DEF Answers, Truthful, Selected, Since
  <1>7. Counts'
    <2>1. \A h \in Hunts : pc'[h] \in {"counted", "reported"} => pc'[h] = pc[h]
      BY <1>2 DEF Readers
    <2> QED BY <2>1 DEF IntakeInv, Counts
  <1> QED BY <1>5, <1>6, <1>7 DEF IntakeInv

\* The clock is read before the log.
LEMMA ReadClockInv == ASSUME IntakeInv, NEW r \in Readers, ReadClock(r) PROVE IntakeInv'
  <1>1. now - Hours \in Int BY WindowAssumption DEF IntakeInv, Types
  <1>2. since' = [since EXCEPT ![r] = now - Hours] /\ DOMAIN since = Readers
    BY DEF ReadClock, IntakeInv, Types
  <1>3. pc[r] = "idle" /\ Goto(r, "since") /\ UNCHANGED <<now, log, total, answer>>
    BY DEF ReadClock
  <1> QED BY <1>1, <1>2, <1>3, NothingAsked

\* Without a connection nothing is asked.
LEMMA UnreachableInv == ASSUME IntakeInv, NEW r \in Readers, Unreachable(r) PROVE IntakeInv'
  <1>1. /\ pc[r] = "idle" /\ Goto(r, "failed") /\ UNCHANGED <<now, log, total, answer>>
        /\ since' = since
    BY DEF Unreachable
  <1>2. DOMAIN since = Readers BY DEF IntakeInv, Types
  <1> QED BY <1>1, <1>2, NothingAsked

\* The first query of a hunt: its count, if it came whole.
LEMMA CountAlertsInv == ASSUME IntakeInv, NEW h \in Hunts, CountAlerts(h) PROVE IntakeInv'
  <1> DEFINE query == answer'[h][1]
             count == IF query.whole THEN Cardinality(query.got) ELSE 0
             label == IF count = 0 THEN "quit" ELSE "counted"
  <1>1. /\ h \in Readers /\ pc[h] = "since" /\ Ask(h, Window(since[h]))
        /\ total' = [total EXCEPT ![h] = count] /\ Goto(h, label)
        /\ UNCHANGED <<now, log, since>>
    BY DEF CountAlerts, Readers
  <1>2. /\ label \in {"quit", "counted"}
        /\ label = "counted" => query.whole /\ count = Cardinality(query.got)
    OBVIOUS
  <1> HIDE DEF label, count
  <1>3. /\ label \in Labels /\ label \notin {"absent", "idle", "failed"}
        /\ Asked(label) = Asked(pc[h]) + 1
    BY <1>1, <1>2 DEF Labels, Asked
  <1>4. DOMAIN total = Hunts /\ DOMAIN total' = Hunts BY <1>1 DEF IntakeInv, Types
  <1>5. /\ Types' /\ Answers' /\ pc'[h] = label
        /\ \A s \in Readers : s # h => answer'[s] = answer[s] /\ pc'[s] = pc[s]
    BY <1>1, <1>3, <1>4, ReaderAsks DEF IntakeInv
  <1>6. Counts'
    <2>1. total'[h] = count /\ \A g \in Hunts : g # h => total'[g] = total[g] BY <1>1, <1>4
    <2>2. ASSUME NEW g \in Hunts, g # h
          PROVE  /\ pc'[g] \in {"counted", "reported"} =>
                      answer'[g][1].whole /\ total'[g] = Cardinality(answer'[g][1].got)
                 /\ pc'[g] = "reported" => answer'[g][1].length <= answer'[g][2].length
      BY <2>1, <2>2, <1>5 DEF IntakeInv, Counts, Readers
    <2> QED BY <2>1, <2>2, <1>2, <1>5 DEF Counts
  <1> QED BY <1>5, <1>6 DEF IntakeInv

\* The second query of a hunt comes after the first.
LEMMA ListAlertsInv == ASSUME IntakeInv, NEW h \in Hunts, ListAlerts(h) PROVE IntakeInv'
  <1>1. /\ h \in Readers /\ pc[h] = "counted" /\ Ask(h, Window(since[h]))
        /\ Goto(h, "reported") /\ UNCHANGED <<now, log, since>> /\ total' = total
    BY DEF ListAlerts, Readers
  <1>2. Asked("reported") = 2 /\ Asked(pc[h]) = 1 /\ "reported" \in Labels
    BY <1>1 DEF Asked, Labels
  <1>3. DOMAIN total' = Hunts BY <1>1 DEF IntakeInv, Types
  <1>4. /\ Types' /\ Answers' /\ pc'[h] = "reported"
        /\ \A s \in Readers : s # h => answer'[s] = answer[s] /\ pc'[s] = pc[s]
        /\ answer'[h][1] = answer[h][1]
        /\ \E query \in Query :
              query.length = Len(log) /\ answer'[h] = Append(answer[h], query)
    BY <1>1, <1>2, <1>3, ReaderAsks DEF IntakeInv
  <1>5. answer'[h][2].length = Len(log)
    <2>1. PICK query \in Query :
            query.length = Len(log) /\ answer'[h] = Append(answer[h], query)
      BY <1>4
    <2>2. answer[h] \in Seq(Query) /\ Len(answer[h]) = 1 BY <1>1, <1>2 DEF IntakeInv, Types
    <2>3. answer'[h][2] = query BY <2>1, <2>2
    <2> QED BY <2>1, <2>3
  <1>6. answer[h][1].length <= Len(log)
    BY <1>1, <1>2 DEF IntakeInv, Answers, Since
  <1>7. Counts'
    <2>1. ASSUME NEW g \in Hunts, g # h
          PROVE  /\ pc'[g] \in {"counted", "reported"} =>
                      answer'[g][1].whole /\ total'[g] = Cardinality(answer'[g][1].got)
                 /\ pc'[g] = "reported" => answer'[g][1].length <= answer'[g][2].length
      BY <2>1, <1>1, <1>4 DEF IntakeInv, Counts, Readers
    <2>2. answer[h][1].whole /\ total[h] = Cardinality(answer[h][1].got)
      BY <1>1 DEF IntakeInv, Counts
    <2> QED BY <2>1, <2>2, <1>1, <1>4, <1>5, <1>6 DEF Counts
  <1> QED BY <1>4, <1>7 DEF IntakeInv

\* The one query of a fetch.
LEMMA FetchAlertsInv == ASSUME IntakeInv, NEW f \in Fetches, FetchAlerts(f) PROVE IntakeInv'
  <1>1. /\ f \in Readers /\ pc[f] = "since" /\ Ask(f, Window(since[f]))
        /\ Goto(f, "loaded") /\ UNCHANGED <<now, log, since>> /\ total' = total
    BY DEF FetchAlerts, Readers
  <1>2. Asked("loaded") = Asked(pc[f]) + 1 /\ "loaded" \in Labels
    BY <1>1 DEF Asked, Labels
  <1>3. DOMAIN total' = Hunts BY <1>1 DEF IntakeInv, Types
  <1>4. /\ Types' /\ Answers' /\ pc'[f] = "loaded"
        /\ \A s \in Readers : s # f => answer'[s] = answer[s] /\ pc'[s] = pc[s]
    BY <1>1, <1>2, <1>3, ReaderAsks DEF IntakeInv
  <1>5. Counts'
    <2>1. \A h \in Hunts : pc'[h] \in {"counted", "reported"} => h # f BY <1>4
    <2> QED BY <2>1, <1>1, <1>4 DEF IntakeInv, Counts, Readers
  <1> QED BY <1>4, <1>5 DEF IntakeInv

\* Every step keeps the invariant.
LEMMA NextInv == IntakeInv /\ [Next]_vars => IntakeInv'
  <1> SUFFICES ASSUME IntakeInv, [Next]_vars PROVE IntakeInv' OBVIOUS
  <1>1. ASSUME UNCHANGED vars PROVE IntakeInv'
    <2>1. /\ now' = now /\ log' = log /\ pc' = pc /\ since' = since /\ total' = total
          /\ answer' = answer
      BY <1>1 DEF vars
    <2>2. Types' BY <2>1 DEF IntakeInv, Types
    <2>3. Answers' BY <2>1 DEF IntakeInv, Answers, Truthful, Selected, Since
    <2>4. Counts' BY <2>1 DEF IntakeInv, Counts
    <2> QED BY <2>2, <2>3, <2>4 DEF IntakeInv
  <1> QED
    BY <1>1, TickInv, RaiseInv, ReadClockInv, UnreachableInv, CountAlertsInv, ListAlertsInv,
       FetchAlertsInv
    DEF Next

\* IntakeInv always holds.
THEOREM IntakeAlways == Spec => []IntakeInv
  BY InitInv, NextInv, PTL DEF Spec

-----------------------------------------------------------------------------
(* Theorems.                                                               *)

\* The total and the table of a hunt report differ only by what was logged
\* between the two reads and by what had left the tail by the second, for any
\* window, tail and log (hunt.sh: TOTAL, ALERT_TSV).
THEOREM TotalAndTableAgree == Spec => []HuntTableMatchesTotal
  <1>1. IntakeInv => HuntTableMatchesTotal
    <2> SUFFICES ASSUME IntakeInv, NEW h \in Hunts, pc[h] = "reported"
                 PROVE  LET first  == answer[h][1]
                            second == answer[h][2]
                        IN  /\ total[h] = Cardinality(first.got)
                            /\ second.got \ first.got \subseteq (first.length + 1)..second.length
                            /\ second.whole =>
                                 first.got \ second.got \subseteq Scrolled(second.length)
      BY DEF HuntTableMatchesTotal
    <2> DEFINE first  == answer[h][1]
               second == answer[h][2]
               s      == since[h]
    <2>1. h \in Readers /\ Asked(pc[h]) = 2 BY DEF Readers, Asked
    <2>2. first \in Query /\ second \in Query
      <3>1. answer[h] \in Seq(Query) /\ Len(answer[h]) = 2 BY <2>1 DEF IntakeInv, Types
      <3> QED BY <3>1
    <2>3. /\ Truthful(first, s) /\ Truthful(second, s) /\ first.whole
          /\ total[h] = Cardinality(first.got) /\ first.length <= second.length
      <3>1. \A i \in 1..2 : Truthful(answer[h][i], s) BY <2>1 DEF IntakeInv, Answers
      <3> QED BY <3>1 DEF IntakeInv, Counts
    <2>4. first.length \in Nat /\ second.length \in Nat BY <2>2 DEF Query
    <2> HIDE DEF first, second, s
    <2>5. first.got = Selected(first.length, s) /\ second.got \subseteq Selected(second.length, s)
      BY <2>3 DEF Truthful
    <2>6. ASSUME NEW k \in second.got \ first.got
          PROVE  k \in (first.length + 1)..second.length
      <3>1. k \in 1..second.length /\ k > second.length - TailLines /\ log[k].ts >= s
        BY <2>5 DEF Selected
      <3>2. k \in 1..first.length => k > first.length - TailLines
        BY <3>1, <2>3, <2>4, WindowAssumption
      <3>3. k \notin 1..first.length BY <3>1, <3>2, <2>5 DEF Selected
      <3> QED BY <3>1, <3>3, <2>4
    <2>7. ASSUME second.whole, NEW k \in first.got \ second.got
          PROVE  k \in Scrolled(second.length)
      <3>1. k \in 1..first.length /\ log[k].ts >= s BY <2>5 DEF Selected
      <3>2. second.got = Selected(second.length, s) BY <2>3, <2>7 DEF Truthful
      <3>3. k \in 1..second.length BY <3>1, <2>3, <2>4
      <3>4. ~ (k > second.length - TailLines) BY <3>1, <3>2, <3>3 DEF Selected
      <3> QED BY <3>3, <3>4, <2>4, WindowAssumption DEF Scrolled
    <2> QED BY <2>3, <2>6, <2>7 DEF first, second
  <1> QED BY <1>1, IntakeAlways, PTL

\* Nothing falls between two fetches whose windows overlap by the lag, unless it
\* has left the tail, for any window, tail, lag and log (events.py: fetch_live).
THEOREM NothingBetweenFetches == Spec => []FetchesCoverTheLog
  <1>1. IntakeInv => FetchesCoverTheLog
    <2> SUFFICES ASSUME IntakeInv, NEW f \in Fetches, NEW g \in Fetches,
                        pc[f] = "loaded", pc[g] = "loaded",
                        answer[g][1].whole, since[g] + MaxLag <= answer[f][1].at
                 PROVE  (answer[f][1].length + 1)..answer[g][1].length
                          \subseteq answer[g][1].got \cup Scrolled(answer[g][1].length)
      BY DEF FetchesCoverTheLog
    <2> DEFINE first  == answer[f][1]
               second == answer[g][1]
               s      == since[g]
    <2>1. f \in Readers /\ g \in Readers /\ Asked("loaded") = 1 BY DEF Readers, Asked
    <2>2. first \in Query /\ second \in Query
      <3>1. /\ answer[f] \in Seq(Query) /\ Len(answer[f]) = 1
            /\ answer[g] \in Seq(Query) /\ Len(answer[g]) = 1
        BY <2>1 DEF IntakeInv, Types
      <3> QED BY <3>1
    <2>3. Since(first) /\ Truthful(second, s) /\ Since(second)
      BY <2>1 DEF IntakeInv, Answers
    <2>4. s \in Int /\ log \in Seq(Entry) BY <2>1 DEF IntakeInv, Types
    <2>5. first.length \in Nat /\ second.length \in Nat /\ first.at \in Nat BY <2>2 DEF Query
    <2>6. second.whole /\ s + MaxLag <= first.at OBVIOUS
    <2> HIDE DEF first, second, s
    <2>7. second.got = Selected(second.length, s) BY <2>3, <2>6 DEF Truthful
    <2>8. second.length <= Len(log) /\ Len(log) \in Nat /\ DOMAIN log = 1..Len(log)
      BY <2>3, <2>4 DEF Since
    <2>9. ASSUME NEW k \in (first.length + 1)..second.length
          PROVE  k \in second.got \cup Scrolled(second.length)
      <3>1. k \in 1..second.length /\ k > first.length /\ k \in DOMAIN log BY <2>5, <2>8
      <3>2. log[k].ts >= first.at - MaxLag BY <3>1, <2>3 DEF Since
      <3>3. log[k].ts \in Int
        <4>1. log[k] \in Entry BY <3>1, <2>4, <2>8, ElementOfSeq
        <4> QED BY <4>1 DEF Entry
      <3>4. log[k].ts >= s BY <3>2, <3>3, <2>4, <2>5, <2>6, BoundsAssumption
      <3>5. CASE k > second.length - TailLines BY <3>1, <3>4, <3>5, <2>7 DEF Selected
      <3>6. CASE ~ (k > second.length - TailLines)
        BY <3>1, <3>6, <2>5, WindowAssumption DEF Scrolled
      <3> QED BY <3>5, <3>6
    <2> QED BY <2>9 DEF first, second
  <1> QED BY <1>1, IntakeAlways, PTL

-----------------------------------------------------------------------------
(* What the page counts: places, sums and sections.                        *)

\* The places of a set are numbered from one on, none twice.
LEMMA RankCovers ==
  ASSUME NEW P, P \subseteq Nat, IsFiniteSet(P)
  PROVE  /\ \A k \in P : Rank(P, k) \in 1..Cardinality(P)
         /\ \A k, l \in P : Rank(P, k) = Rank(P, l) => k = l
         /\ \A n \in 1..Cardinality(P) : \E k \in P : Rank(P, k) = n
  <1> DEFINE Upto(k) == {l \in P : l <= k}
  <1>1. Cardinality(P) \in Nat
    BY FS_CardinalityType
  <1>2. ASSUME NEW k \in P
        PROVE  /\ IsFiniteSet(Upto(k)) /\ Rank(P, k) = Cardinality(Upto(k))
               /\ Rank(P, k) \in 1..Cardinality(P)
    <2>1. Upto(k) \in SUBSET P
      OBVIOUS
    <2>2. IsFiniteSet(Upto(k)) /\ Cardinality(Upto(k)) <= Cardinality(P)
      BY <2>1, FS_Subset
    <2>3. Cardinality(Upto(k)) \in Nat
      BY <2>2, FS_CardinalityType
    <2>4. k \in Upto(k)
      OBVIOUS
    <2> HIDE DEF Upto
    <2>5. Cardinality(Upto(k)) # 0
      BY <2>2, <2>4, FS_EmptySet
    <2>6. Rank(P, k) = Cardinality(Upto(k))
      BY DEF Rank, Upto
    <2> QED
      BY <1>1, <2>2, <2>3, <2>5, <2>6
  <1>3. ASSUME NEW k \in P, NEW l \in P, k < l
        PROVE  Rank(P, k) # Rank(P, l)
    <2>1. Upto(k) \in SUBSET Upto(l) /\ l \in Upto(l) /\ l \notin Upto(k)
      <3>1. k \in Nat /\ l \in Nat
        OBVIOUS
      <3>2. ASSUME NEW x \in Upto(k) PROVE x \in Upto(l)
        <4>1. x \in P /\ x \in Nat /\ x <= k
          OBVIOUS
        <4> QED
          BY <1>3, <3>1, <4>1
      <3>3. l <= l /\ ~(l <= k)
        BY <1>3, <3>1
      <3> QED
        BY <3>2, <3>3
    <2>2. IsFiniteSet(Upto(l)) /\ Rank(P, k) = Cardinality(Upto(k))
          /\ Rank(P, l) = Cardinality(Upto(l))
      BY <1>2
    <2> HIDE DEF Upto
    <2>3. Cardinality(Upto(l)) = Cardinality(Upto(k)) => Upto(l) = Upto(k)
      BY <2>1, <2>2, FS_Subset
    <2> QED
      BY <2>1, <2>2, <2>3
  <1> HIDE DEF Upto
  <1>4. \A k, l \in P : Rank(P, k) = Rank(P, l) => k = l
    BY <1>3
  <1> DEFINE rank == [k \in P |-> Rank(P, k)]
             places == 1..Cardinality(P)
  <1>5. rank \in Injection(P, places)
    BY <1>2, <1>4 DEF Injection, IsInjective
  <1>6. IsFiniteSet(places) /\ Cardinality(places) = Cardinality(P)
    <2>1. 1 \in Int /\ Cardinality(P) \in Int
      BY <1>1
    <2>2. IsFiniteSet(places)
      BY <2>1, FS_Interval
    <2>3. Cardinality(places) = IF 1 > Cardinality(P) THEN 0 ELSE Cardinality(P) - 1 + 1
      BY <2>1, FS_Interval
    <2> QED
      BY <1>1, <2>2, <2>3
  <1>7. rank \in Surjection(P, places)
    <2> HIDE DEF rank, places
    <2> QED
      BY <1>5, <1>6, FS_Injection
  <1>8. \A n \in places : \E k \in P : Rank(P, k) = n
    BY <1>7 DEF Surjection
  <1> QED
    BY <1>2, <1>4, <1>8

\* A part of a sequence has what is at its places.
LEMMA PickCovers ==
  ASSUME NEW seq, NEW P, P \subseteq Nat, IsFiniteSet(P)
  PROVE  /\ Cardinality(P) \in Nat
         /\ \A n \in 1..Cardinality(P) : Nth(P, n) \in P /\ Pick(seq, P)[n] = seq[Nth(P, n)]
         /\ \A k \in P : \E n \in 1..Cardinality(P) : Nth(P, n) = k
         /\ \A m, n \in 1..Cardinality(P) : Nth(P, m) = Nth(P, n) => m = n
  <1>1. Cardinality(P) \in Nat
    BY FS_CardinalityType
  <1>2. \A n \in 1..Cardinality(P) : Nth(P, n) \in P /\ Rank(P, Nth(P, n)) = n
    <2> TAKE n \in 1..Cardinality(P)
    <2>1. \E k \in P : Rank(P, k) = n
      BY RankCovers
    <2> QED
      BY <2>1 DEF Nth
  <1>3. \A n \in 1..Cardinality(P) : Pick(seq, P)[n] = seq[Nth(P, n)]
    BY DEF Pick
  <1>4. \A k \in P : Rank(P, k) \in 1..Cardinality(P) /\ Nth(P, Rank(P, k)) = k
    <2> TAKE k \in P
    <2>1. Rank(P, k) \in 1..Cardinality(P)
      BY RankCovers
    <2>2. Nth(P, Rank(P, k)) \in P /\ Rank(P, Nth(P, Rank(P, k))) = Rank(P, k)
      BY <1>2, <2>1
    <2> QED
      BY <2>1, <2>2, RankCovers
  <1> QED
    BY <1>1, <1>2, <1>3, <1>4

-----------------------------------------------------------------------------
(* The order of the timeline.                                              *)

\* A table of alerts: so many rows, each with a time.
IsTable(table, n) ==
  /\ n \in Nat /\ table = [k \in 1..n |-> table[k]]
  /\ \A k \in 1..n : table[k].ts \in Int

\* Every row has its place among those before it.
LEMMA BeforeCovers ==
  ASSUME NEW table, NEW n, IsTable(table, n)
  PROVE  /\ \A k \in 1..n : IsFiniteSet(Before(table, k))
                            /\ Cardinality(Before(table, k)) \in 0..(n - 1)
         /\ \A k, l \in 1..n :
              Cardinality(Before(table, k)) = Cardinality(Before(table, l)) => k = l
         /\ \A i \in 1..n : \E k \in 1..n : Cardinality(Before(table, k)) = i - 1
  <1>1. n \in Nat /\ DOMAIN table = 1..n /\ \A k \in 1..n : table[k].ts \in Int
    BY DEF IsTable
  <1>2. IsFiniteSet(1..n) /\ Cardinality(1..n) = n
    <2>1. 1 \in Int /\ n \in Int
      BY <1>1
    <2>2. IsFiniteSet(1..n)
      BY <2>1, FS_Interval
    <2>3. Cardinality(1..n) = IF 1 > n THEN 0 ELSE n - 1 + 1
      BY <2>1, FS_Interval
    <2> QED
      BY <1>1, <2>2, <2>3
  <1>3. ASSUME NEW k \in 1..n
        PROVE  /\ IsFiniteSet(Before(table, k)) /\ k \notin Before(table, k)
               /\ Cardinality(Before(table, k)) \in 0..(n - 1)
    <2>1. Before(table, k) \in SUBSET (1..n)
      BY <1>1 DEF Before
    <2>2. k \notin Before(table, k)
      <3>1. table[k].ts \in Int
        BY <1>1
      <3>2. ~(table[k].ts < table[k].ts) /\ ~(k < k)
        BY <3>1
      <3> QED
        BY <3>2 DEF Before
    <2>3. IsFiniteSet(Before(table, k)) /\ Cardinality(Before(table, k)) <= n
      BY <1>2, <2>1, FS_Subset
    <2>4. n = Cardinality(Before(table, k)) => 1..n = Before(table, k)
      BY <1>2, <2>1, FS_Subset
    <2>5. Cardinality(Before(table, k)) \in Nat
      BY <2>3, FS_CardinalityType
    <2> QED
      BY <1>1, <2>2, <2>3, <2>4, <2>5
  <1>4. ASSUME NEW k \in 1..n, NEW l \in Before(table, k)
        PROVE  Cardinality(Before(table, l)) # Cardinality(Before(table, k))
    <2>1. l \in 1..n /\ (table[l].ts < table[k].ts \/ (table[l].ts = table[k].ts /\ l < k))
      BY <1>1 DEF Before
    <2>2. \A m \in Before(table, l) : m \in Before(table, k)
      <3> TAKE m \in Before(table, l)
      <3>1. m \in 1..n /\ (table[m].ts < table[l].ts \/ (table[m].ts = table[l].ts /\ m < l))
        BY <1>1 DEF Before
      <3>2. table[m].ts \in Int /\ table[l].ts \in Int /\ table[k].ts \in Int
        BY <1>1, <2>1, <3>1
      <3>3. table[m].ts < table[k].ts \/ (table[m].ts = table[k].ts /\ m < k)
        BY <1>1, <2>1, <3>1, <3>2
      <3> QED
        BY <1>1, <3>1, <3>3 DEF Before
    <2>3. l \notin Before(table, l)
      BY <1>3, <2>1
    <2>4. IsFiniteSet(Before(table, k))
      BY <1>3
    <2>5. Before(table, l) \in SUBSET Before(table, k)
      BY <2>2
    <2>6. Cardinality(Before(table, k)) = Cardinality(Before(table, l))
            => Before(table, k) = Before(table, l)
      BY <2>4, <2>5, FS_Subset
    <2> QED
      BY <2>3, <2>6
  <1>5. ASSUME NEW k \in 1..n, NEW l \in 1..n,
               Cardinality(Before(table, k)) = Cardinality(Before(table, l))
        PROVE  k = l
    <2>1. l \notin Before(table, k) /\ k \notin Before(table, l)
      BY <1>4, <1>5
    <2>2. table[k].ts \in Int /\ table[l].ts \in Int
      BY <1>1
    <2> QED
      BY <1>1, <2>1, <2>2 DEF Before
  <1> DEFINE place == [k \in 1..n |-> Cardinality(Before(table, k)) + 1]
             places == 1..n
  <1>6. place \in [places -> places]
    <2>1. \A k \in 1..n : Cardinality(Before(table, k)) + 1 \in 1..n
      BY <1>1, <1>3
    <2> QED
      BY <2>1
  <1>7. \A k, l \in places : place[k] = place[l] => k = l
    <2> SUFFICES ASSUME NEW k \in 1..n, NEW l \in 1..n,
                        Cardinality(Before(table, k)) + 1 = Cardinality(Before(table, l)) + 1
                 PROVE  k = l
      OBVIOUS
    <2>1. Cardinality(Before(table, k)) \in 0..(n - 1) /\ Cardinality(Before(table, l)) \in 0..(n - 1)
      BY <1>3
    <2>2. Cardinality(Before(table, k)) = Cardinality(Before(table, l))
      BY <1>1, <2>1
    <2> QED
      BY <1>5, <2>2
  <1>8. place \in Surjection(places, places)
    <2> HIDE DEF place
    <2>1. place \in Injection(places, places)
      BY <1>6, <1>7 DEF Injection, IsInjective
    <2> HIDE DEF places
    <2>2. IsFiniteSet(places)
      BY <1>2 DEF places
    <2> QED
      BY <2>1, <2>2, FS_Injection
  <1>9. \A i \in 1..n : \E k \in 1..n : Cardinality(Before(table, k)) = i - 1
    <2> TAKE i \in 1..n
    <2>1. PICK k \in 1..n : place[k] = i
      BY <1>8 DEF Surjection
    <2>2. Cardinality(Before(table, k)) \in 0..(n - 1)
      BY <1>3
    <2>3. Cardinality(Before(table, k)) + 1 = i
      BY <2>1
    <2> QED
      BY <1>1, <2>2, <2>3
  <1> QED
    BY <1>3, <1>5, <1>9

\* Sorting keeps the rows, and puts one of the oldest first.
LEMMA SortedRows ==
  ASSUME NEW table, NEW n, IsTable(table, n)
  PROVE  /\ DOMAIN Sorted(table) = 1..n
         /\ \A i \in 1..n : \E k \in 1..n : Sorted(table)[i] = table[k]
         /\ \A k \in 1..n : \E i \in 1..n : Sorted(table)[i] = table[k]
         /\ \A k \in 1..n : Sorted(table)[1].ts <= table[k].ts
  <1> DEFINE At(i) == CHOOSE k \in 1..n : Cardinality(Before(table, k)) = i - 1
  <1>1. n \in Nat /\ DOMAIN table = 1..n /\ \A k \in 1..n : table[k].ts \in Int
    BY DEF IsTable
  <1>2. DOMAIN Sorted(table) = 1..n /\ \A i \in 1..n : Sorted(table)[i] = table[At(i)]
    BY <1>1 DEF Sorted
  <1>3. \A i \in 1..n : At(i) \in 1..n /\ Cardinality(Before(table, At(i))) = i - 1
    <2> TAKE i \in 1..n
    <2>1. \E k \in 1..n : Cardinality(Before(table, k)) = i - 1
      BY BeforeCovers
    <2> QED
      BY <2>1
  <1> HIDE DEF At
  <1>4. ASSUME NEW k \in 1..n
        PROVE  \E i \in 1..n : Sorted(table)[i] = table[k]
    <2> DEFINE i == Cardinality(Before(table, k)) + 1
    <2>1. Cardinality(Before(table, k)) \in 0..(n - 1)
      BY BeforeCovers
    <2>2. i \in 1..n /\ i - 1 = Cardinality(Before(table, k))
      BY <1>1, <2>1
    <2>3. At(i) \in 1..n /\ Cardinality(Before(table, At(i))) = Cardinality(Before(table, k))
      BY <1>3, <2>2
    <2>4. At(i) = k
      BY <2>3, BeforeCovers
    <2> HIDE DEF i
    <2> QED
      BY <1>2, <2>2, <2>4
  <1>5. ASSUME NEW k \in 1..n
        PROVE  Sorted(table)[1].ts <= table[k].ts
    <2>1. 1 \in 1..n
      BY <1>1
    <2>2. At(1) \in 1..n /\ Cardinality(Before(table, At(1))) = 0
      BY <1>3, <2>1
    <2>3. IsFiniteSet(Before(table, At(1)))
      BY <2>2, BeforeCovers
    <2>4. Before(table, At(1)) = {}
      BY <2>2, <2>3, FS_EmptySet
    <2>5. ~(table[k].ts < table[At(1)].ts)
      BY <1>1, <2>4 DEF Before
    <2>6. table[k].ts \in Int /\ table[At(1)].ts \in Int
      BY <1>1, <2>2
    <2> QED
      BY <1>2, <2>1, <2>5, <2>6
  <1> QED
    BY <1>2, <1>3, <1>4, <1>5

-----------------------------------------------------------------------------
(* The frequencies.                                                        *)

\* Every rule of a table, each once, as r elements.
ListsRules(rules, r, table, n) ==
  /\ rules \in [1..r -> {table[k].rule : k \in 1..n}]
  /\ \A i, j \in 1..r : rules[i] = rules[j] => i = j
  /\ \A k \in 1..n : \E i \in 1..r : rules[i] = table[k].rule

\* The rules that a hunt reports are listed so.
LEMMA RulesListed ==
  ASSUME NEW table, NEW n, IsTable(table, n)
  PROVE  \E r \in Nat : ListsRules(RulesOf(table), r, table, n)
  <1> DEFINE rules == RulesOf(table)
             used  == {table[k].rule : k \in 1..n}
             r     == Cardinality(used)
             first == [k \in 1..n |-> table[k].rule]
  <1>1. n \in Nat /\ DOMAIN table = 1..n
    BY DEF IsTable
  <1>2. rules = SetToSeq(used)
    BY <1>1 DEF RulesOf
  <1>3. first \in Surjection(1..n, used)
    BY DEF Surjection
  <1>4. IsFiniteSet(1..n)
    <2>1. 1 \in Int /\ n \in Int
      BY <1>1
    <2> QED
      BY <2>1, FS_Interval
  <1>5. IsFiniteSet(used)
    <2> HIDE DEF used, first
    <2> QED
      BY <1>3, <1>4, FS_Surjection
  <1> HIDE DEF rules, used, first
  <1>6. r \in Nat /\ ExistsBijection(1..r, used)
    BY <1>5, FS_CardinalityType
  <1>7. PICK f \in Bijection(1..r, used) : TRUE
    BY <1>6 DEF ExistsBijection
  <1>8. rules \in [1..r -> used] /\ IsInjective(rules)
    <2>1. f \in [1..r -> used] /\ IsInjective(f)
      BY <1>7 DEF Bijection, Injection
    <2>2. SetToSeq(used) = CHOOSE g \in [1..r -> used] : IsInjective(g)
      BY DEF SetToSeq
    <2> QED
      BY <1>2, <2>1, <2>2
  <1>9. rules \in Surjection(1..r, used)
    <2>1. rules \in Injection(1..r, used)
      BY <1>8 DEF Injection
    <2>2. IsFiniteSet(1..r) /\ Cardinality(1..r) = r
      <3>1. 1 \in Int /\ r \in Int
        BY <1>6
      <3>2. IsFiniteSet(1..r)
        BY <3>1, FS_Interval
      <3>3. Cardinality(1..r) = IF 1 > r THEN 0 ELSE r - 1 + 1
        BY <3>1, FS_Interval
      <3> QED
        BY <1>6, <3>2, <3>3
    <2>3. Cardinality(1..r) = Cardinality(used)
      BY <2>2
    <2> QED
      BY <1>5, <2>1, <2>3, FS_Injection
  <1>10. \A i, j \in 1..r : rules[i] = rules[j] => i = j
    BY <1>8 DEF IsInjective
  <1>11. \A k \in 1..n : \E i \in 1..r : rules[i] = table[k].rule
    <2>1. \A k \in 1..n : table[k].rule \in used
      BY DEF used
    <2> QED
      BY <1>9, <2>1 DEF Surjection
  <1> QED
    BY <1>6, <1>8, <1>10, <1>11 DEF rules, used, ListsRules

\* A sum of frequencies is the number of the rows they are of.
LEMMA SumCounts ==
  ASSUME NEW table, NEW n, IsTable(table, n), NEW D, NEW R, R \subseteq D,
         NEW counts, counts = [rule \in D |-> CountOf(table, rule)]
  PROVE  SumOf(counts, R) = Cardinality({k \in 1..n : table[k].rule \in R})
  <1> DEFINE Of(rule)    == {k \in 1..n : table[k].rule = rule}
             Pairs(rule) == {rule} \X (1..counts[rule])
             pairs       == UNION {Pairs(rule) : rule \in R}
             K           == {k \in 1..n : table[k].rule \in R}
             pair        == [k \in K |-> <<table[k].rule, Rank(Of(table[k].rule), k)>>]
  <1>1. n \in Nat /\ DOMAIN table = 1..n
    BY DEF IsTable
  <1>2. IsFiniteSet(1..n)
    <2>1. 1 \in Int /\ n \in Int
      BY <1>1
    <2> QED
      BY <2>1, FS_Interval
  <1>3. ASSUME NEW rule
        PROVE  IsFiniteSet(Of(rule)) /\ Of(rule) \subseteq Nat
    <2>1. Of(rule) \in SUBSET (1..n) /\ Of(rule) \subseteq Nat
      BY <1>1
    <2> QED
      BY <1>2, <2>1, FS_Subset
  <1>4. \A rule \in R : counts[rule] = Cardinality(Of(rule))
    BY <1>1 DEF CountOf
  <1>5. ASSUME NEW rule
        PROVE  /\ \A k \in Of(rule) : Rank(Of(rule), k) \in 1..Cardinality(Of(rule))
               /\ \A k, l \in Of(rule) : Rank(Of(rule), k) = Rank(Of(rule), l) => k = l
               /\ \A i \in 1..Cardinality(Of(rule)) : \E k \in Of(rule) : Rank(Of(rule), k) = i
    <2>1. IsFiniteSet(Of(rule)) /\ Of(rule) \subseteq Nat
      BY <1>3
    <2> HIDE DEF Of
    <2> QED
      BY <2>1, RankCovers
  <1>6. \A k \in K : k \in Of(table[k].rule) /\ table[k].rule \in R /\ k \in 1..n
    OBVIOUS
  <1>7. \A p : p \in pairs <=>
          \E rule \in R : \E i \in 1..counts[rule] : p = <<rule, i>>
    OBVIOUS
  <1>8. pair \in [K -> pairs]
    <2> SUFFICES ASSUME NEW k \in K
                 PROVE  <<table[k].rule, Rank(Of(table[k].rule), k)>> \in pairs
      OBVIOUS
    <2> HIDE DEF Of, K, pairs
    <2>1. Rank(Of(table[k].rule), k) \in 1..counts[table[k].rule]
      BY <1>4, <1>5, <1>6
    <2> QED
      BY <1>6, <1>7, <2>1
  <1>9. \A k, l \in K : pair[k] = pair[l] => k = l
    <2> SUFFICES ASSUME NEW k \in K, NEW l \in K, table[k].rule = table[l].rule,
                        Rank(Of(table[k].rule), k) = Rank(Of(table[l].rule), l)
                 PROVE  k = l
      OBVIOUS
    <2> HIDE DEF Of, K
    <2> QED
      BY <1>5, <1>6
  <1>10. ASSUME NEW p \in pairs
         PROVE  \E k \in K : pair[k] = p
    <2>1. PICK rule \in R : \E i \in 1..counts[rule] : p = <<rule, i>>
      <3> HIDE DEF pairs
      <3> QED
        BY <1>7
    <2>2. PICK i \in 1..counts[rule] : p = <<rule, i>>
      BY <2>1
    <2>3. PICK k \in Of(rule) : Rank(Of(rule), k) = i
      <3> HIDE DEF Of
      <3> QED
        BY <1>4, <1>5
    <2>4. k \in K /\ table[k].rule = rule
      OBVIOUS
    <2> HIDE DEF K, Of
    <2> QED
      BY <2>2, <2>3, <2>4
  <1>11. pair \in Bijection(K, pairs)
    <2> HIDE DEF K, pairs, Of, pair
    <2>1. DOMAIN pair = K
      BY <1>8
    <2> QED
      BY <1>8, <1>9, <1>10, <2>1 DEF Bijection, Injection, Surjection, IsInjective
  <1>12. IsFiniteSet(K)
    <2>1. K \in SUBSET (1..n)
      OBVIOUS
    <2> HIDE DEF K
    <2> QED
      BY <1>2, <2>1, FS_Subset
  <1>13. Cardinality(pairs) = Cardinality(K)
    <2> HIDE DEF K, pairs, pair
    <2>1. ExistsBijection(K, pairs)
      BY <1>11 DEF ExistsBijection
    <2> QED
      BY <1>12, <2>1, FS_Bijection
  <1>14. SumOf(counts, R) = Cardinality(pairs)
    BY DEF SumOf
  <1> QED
    BY <1>13, <1>14

\* The rules of the sensor and the others add up to the table.
LEMMA SumsAddUp ==
  ASSUME NEW table, NEW n, IsTable(table, n), NEW D, \A k \in 1..n : table[k].rule \in D,
         NEW counts, counts = [rule \in D |-> CountOf(table, rule)], NEW A
  PROVE  SumOf(counts, D \cap A) + SumOf(counts, D \ A) = n
  <1> DEFINE S == {k \in 1..n : table[k].rule \in D \cap A}
             T == {k \in 1..n : table[k].rule \in D \ A}
  <1>1. SumOf(counts, D \cap A) = Cardinality(S)
    BY SumCounts
  <1>2. SumOf(counts, D \ A) = Cardinality(T)
    BY SumCounts
  <1>3. n \in Nat
    BY DEF IsTable
  <1>4. IsFiniteSet(1..n) /\ Cardinality(1..n) = n
    <2>1. 1 \in Int /\ n \in Int
      BY <1>3
    <2>2. IsFiniteSet(1..n)
      BY <2>1, FS_Interval
    <2>3. Cardinality(1..n) = IF 1 > n THEN 0 ELSE n - 1 + 1
      BY <2>1, FS_Interval
    <2> QED
      BY <1>3, <2>2, <2>3
  <1>5. S \in SUBSET (1..n) /\ T \in SUBSET (1..n) /\ S \cap T = {} /\ S \cup T = 1..n
    OBVIOUS
  <1> HIDE DEF S, T
  <1>6. IsFiniteSet(S) /\ IsFiniteSet(T)
    BY <1>4, <1>5, FS_Subset
  <1>7. Cardinality(S \cup T) = Cardinality(S) + Cardinality(T) - Cardinality(S \cap T)
    BY <1>6, FS_Union
  <1>8. Cardinality(S) \in Nat /\ Cardinality(T) \in Nat
    BY <1>6, FS_CardinalityType
  <1>9. Cardinality(S \cap T) = 0
    BY <1>5, FS_EmptySet
  <1>10. Cardinality(S \cup T) = n
    BY <1>4, <1>5
  <1> QED
    BY <1>1, <1>2, <1>7, <1>8, <1>9, <1>10

-----------------------------------------------------------------------------
(* The report of a hunt, line by line.                                     *)

\* Lines with one such title, in line a; rows follow up to the title in b.
Titled(lines, n, a, b, title) ==
  /\ n \in Nat /\ DOMAIN lines = 1..n /\ a \in 1..n /\ b \in 1..n /\ a < b
  /\ \A k \in 1..n : (lines[k].tag = "title" /\ lines[k].text = title) <=> k = a
  /\ \A k \in (a + 1)..(b - 1) : lines[k].tag = "row"
  /\ lines[b].tag = "title"

\* The rows of a section are those between its title and the next one.
LEMMA SectionPlaces ==
  ASSUME NEW lines, NEW n, NEW a, NEW b, NEW title, Titled(lines, n, a, b, title)
  PROVE  Section(lines, title) = (a + 1)..(b - 1)
  <1> USE DEF Titled
  <1>1. ASSUME NEW k \in Section(lines, title)
        PROVE  k \in (a + 1)..(b - 1)
    <2>1. k \in 1..n /\ lines[k].tag = "row" /\ Below(lines, k, "title", title, {"title"})
      BY DEF Section, RowPlaces
    <2>2. PICK j \in 1..(k - 1) : /\ lines[j].tag = "title" /\ lines[j].text = title
                                  /\ \A i \in (j + 1)..k : lines[i].tag \notin {"title"}
      BY <2>1 DEF Below
    <2>3. j \in 1..n
      BY <2>1
    <2>4. j = a
      BY <2>2, <2>3
    <2>5. ~(b \in (a + 1)..k)
      BY <2>2, <2>4
    <2> QED
      BY <2>1, <2>4, <2>5
  <1>2. ASSUME NEW k \in (a + 1)..(b - 1)
        PROVE  k \in Section(lines, title)
    <2>1. k \in 1..n /\ lines[k].tag = "row"
      OBVIOUS
    <2>2. \A i \in (a + 1)..k : lines[i].tag \notin {"title"}
      <3> TAKE i \in (a + 1)..k
      <3>1. i \in (a + 1)..(b - 1)
        OBVIOUS
      <3>2. lines[i].tag = "row"
        BY <3>1
      <3> QED
        BY <3>2
    <2>3. a \in 1..(k - 1) /\ lines[a].tag = "title" /\ lines[a].text = title
      OBVIOUS
    <2>4. Below(lines, k, "title", title, {"title"})
      BY <2>2, <2>3 DEF Below
    <2> QED
      BY <2>1, <2>4 DEF Section, RowPlaces
  <1> QED
    BY <1>1, <1>2

\* The cells of a stretch of lines.
LEMMA CellsOfStretch ==
  ASSUME NEW lines, NEW n \in Nat, DOMAIN lines = 1..n,
         NEW a \in Nat, NEW t \in Nat, a + t <= n
  PROVE  CellsAt(lines, (a + 1)..(a + t)) = [i \in 1..t |-> lines[a + i].cells]
  <1> DEFINE P == (a + 1)..(a + t)
  <1>1. Cardinality(P) = t
    <2>1. a + 1 \in Int /\ a + t \in Int
      OBVIOUS
    <2>2. Cardinality(P) = IF a + 1 > a + t THEN 0 ELSE a + t - (a + 1) + 1
      BY <2>1, FS_Interval
    <2> QED
      BY <2>2
  <1>2. ASSUME NEW k \in P
        PROVE  Rank(P, k) = k - a
    <2>1. {l \in P : l <= k} = (a + 1)..k
      OBVIOUS
    <2>2. a + 1 \in Int /\ k \in Int
      OBVIOUS
    <2>3. Cardinality((a + 1)..k) = IF a + 1 > k THEN 0 ELSE k - (a + 1) + 1
      BY <2>2, FS_Interval
    <2>4. Rank(P, k) = Cardinality((a + 1)..k)
      BY <2>1 DEF Rank
    <2> QED
      BY <2>3, <2>4
  <1>3. ASSUME NEW i \in 1..t
        PROVE  Nth(P, i) = a + i
    <2>1. a + i \in P /\ a + i - a = i
      OBVIOUS
    <2>2. \A k \in P : k - a = i => k = a + i
      OBVIOUS
    <2> HIDE DEF P
    <2> QED
      BY <1>2, <2>1, <2>2 DEF Nth
  <1>4. \A i \in 1..t : a + i \in 1..n
    OBVIOUS
  <1> HIDE DEF P
  <1>5. CellsAt(lines, P) = [i \in 1..t |-> [k \in DOMAIN lines |-> lines[k].cells][Nth(P, i)]]
    BY <1>1 DEF CellsAt, Pick
  <1>6. CellsAt(lines, P) = [i \in 1..t |-> lines[a + i].cells]
    BY <1>3, <1>4, <1>5
  <1> QED
    BY <1>6 DEF P

\* What a sequence holds that is put together from two.
LEMMA Glued ==
  ASSUME NEW S, NEW s \in Seq(S), NEW u \in Seq(S)
  PROVE  /\ s \o u \in Seq(S) /\ Len(s \o u) = Len(s) + Len(u)
         /\ \A i \in 1..Len(s) : (s \o u)[i] = s[i]
         /\ \A i \in 1..Len(u) : (s \o u)[Len(s) + i] = u[i]
  <1>1. /\ s \o u \in Seq(S) /\ Len(s \o u) = Len(s) + Len(u)
        /\ \A i \in 1..(Len(s) + Len(u)) :
             (s \o u)[i] = IF i <= Len(s) THEN s[i] ELSE u[i - Len(s)]
    BY ConcatProperties
  <1>2. Len(s) \in Nat /\ Len(u) \in Nat
    OBVIOUS
  <1>3. \A i \in 1..Len(s) : (s \o u)[i] = s[i]
    <2> TAKE i \in 1..Len(s)
    <2>1. i \in 1..(Len(s) + Len(u)) /\ i <= Len(s)
      BY <1>2
    <2> QED
      BY <1>1, <2>1
  <1>4. \A i \in 1..Len(u) : (s \o u)[Len(s) + i] = u[i]
    <2> TAKE i \in 1..Len(u)
    <2>1. Len(s) + i \in 1..(Len(s) + Len(u)) /\ ~(Len(s) + i <= Len(s))
          /\ Len(s) + i - Len(s) = i
      BY <1>2
    <2> QED
      BY <1>1, <2>1
  <1> QED
    BY <1>1, <1>3, <1>4

\* As many rows as the cap lets through.
Capped(n) == IF n < TimelineCap THEN n ELSE TimelineCap

LEMMA FirstRowsAre ==
  ASSUME NEW rows, NEW n \in Nat, rows = [k \in 1..n |-> rows[k]]
  PROVE  /\ Capped(n) \in 0..n
         /\ FirstRows(rows) = [k \in 1..Capped(n) |-> rows[k]]
  <1>1. Capped(n) \in 0..n
    BY CapAssumption DEF Capped
  <1> DEFINE S == {rows[k] : k \in 1..n}
  <1>2. rows \in Seq(S) /\ Len(rows) = n
    <2>1. \A k \in 1..n : rows[k] \in S
      OBVIOUS
    <2> HIDE DEF S
    <2>2. rows \in [1..n -> S]
      BY <2>1
    <2> QED
      BY <2>2
  <1>3. FirstRows(rows) = SubSeq(rows, 1, Capped(n))
    BY <1>2 DEF FirstRows, Capped
  <1> HIDE DEF S
  <1>4. SubSeq(rows, 1, Capped(n)) = [k \in 1..Capped(n) |-> rows[k]]
    BY <1>1, <1>2
  <1> QED
    BY <1>1, <1>3, <1>4

\* A list of cells becomes as many rows.
LEMMA RowsAre ==
  ASSUME NEW S, NEW cells, NEW n \in Nat, DOMAIN cells = 1..n,
         \A k \in 1..n : Row(cells[k]) \in S
  PROVE  /\ Rows(cells) \in Seq(S) /\ Len(Rows(cells)) = n
         /\ \A k \in 1..n : Rows(cells)[k] = Row(cells[k])
  <1>1. Rows(cells) = [k \in 1..n |-> Row(cells[k])]
    BY DEF Rows
  <1> HIDE DEF Row
  <1>2. Rows(cells) \in [1..n -> S]
    BY <1>1
  <1> QED
    BY <1>1, <1>2

LEMMA FewLines ==
  ASSUME NEW S, NEW x \in S, NEW y \in S
  PROVE  /\ <<x>> \in Seq(S) /\ Len(<<x>>) = 1
         /\ <<x, y>> \in Seq(S) /\ Len(<<x, y>>) = 2
  OBVIOUS

\* The report of a hunt: the total, and three lists with their titles, of t
\* rows and twice of r.
HasShape(lines, tot, table, t, r) ==
  LET rules == RulesOf(table)
  IN  /\ DOMAIN lines = 1..(t + r + r + 6)
      /\ lines[1] = Total(tot) /\ lines[2] = Title("Event Timeline")
      /\ \A k \in 1..t : lines[2 + k] = Row(Sorted(table)[k])
      /\ lines[t + 3] = Title("MITRE ATT&CK Mapping")
      /\ \A k \in 1..r : lines[t + 3 + k].tag = "row"
      /\ lines[t + r + 4] = Title("Remediation Advice")
      /\ lines[t + r + 5] = Title("Rule Frequency Breakdown")
      /\ \A k \in 1..r : lines[t + r + 5 + k]
                           = Row([rule |-> rules[k], count |-> CountOf(table, rules[k])])
      /\ lines[t + r + r + 6] = Title("Method")

LEMMA HuntShape ==
  ASSUME NEW tot, NEW table, NEW n, IsTable(table, n),
         NEW r \in Nat, DOMAIN RulesOf(table) = 1..r
  PROVE  HasShape(HuntLines(tot, table), tot, table, Capped(n), r)
  <1> DEFINE lines == HuntLines(tot, table)
             rules == RulesOf(table)
             t     == Capped(n)
             shown   == FirstRows(Sorted(table))
             mapped  == [k \in DOMAIN rules |-> [rule |-> rules[k], technique |-> Technique[rules[k]]]]
             counted == [k \in DOMAIN rules |-> [rule |-> rules[k], count |-> CountOf(table, rules[k])]]
             p1 == <<Total(tot), Title("Event Timeline")>>
             p2 == Rows(shown)
             p3 == <<Title("MITRE ATT&CK Mapping")>>
             p4 == Rows(mapped)
             p5 == <<Title("Remediation Advice"), Title("Rule Frequency Breakdown")>>
             p6 == Rows(counted)
             p7 == <<Title("Method")>>
             S  == {Total(tot), Title("Event Timeline"), Title("MITRE ATT&CK Mapping"),
                    Title("Remediation Advice"), Title("Rule Frequency Breakdown"),
                    Title("Method")}
                   \cup {Row(shown[k]) : k \in 1..t}
                   \cup {Row(mapped[k]) : k \in 1..r} \cup {Row(counted[k]) : k \in 1..r}
  <1>1. lines = p1 \o p2 \o p3 \o p4 \o p5 \o p6 \o p7
    BY DEF HuntLines
  <1>2. n \in Nat /\ t \in 0..n /\ shown = [k \in 1..t |-> Sorted(table)[k]]
    <2>1. n \in Nat /\ DOMAIN table = 1..n
      BY DEF IsTable
    <2>2. Sorted(table) = [k \in 1..n |-> Sorted(table)[k]]
      BY <2>1 DEF Sorted
    <2> QED
      BY <2>1, <2>2, FirstRowsAre
  <1> HIDE DEF lines, t, shown
  <1>3. DOMAIN mapped = 1..r /\ DOMAIN counted = 1..r /\ DOMAIN shown = 1..t
    BY <1>2
  <1>4. \A k \in 1..r : counted[k] = [rule |-> rules[k], count |-> CountOf(table, rules[k])]
    OBVIOUS
  <1> HIDE DEF rules, mapped, counted
  <1>5. /\ \A k \in 1..t : Row(shown[k]) \in S
        /\ \A k \in 1..r : Row(mapped[k]) \in S /\ Row(counted[k]) \in S
    OBVIOUS
  <1>6. /\ p1 \in Seq(S) /\ Len(p1) = 2 /\ p3 \in Seq(S) /\ Len(p3) = 1
        /\ p5 \in Seq(S) /\ Len(p5) = 2 /\ p7 \in Seq(S) /\ Len(p7) = 1
    <2>1. /\ Total(tot) \in S /\ Title("Event Timeline") \in S
          /\ Title("MITRE ATT&CK Mapping") \in S /\ Title("Remediation Advice") \in S
          /\ Title("Rule Frequency Breakdown") \in S /\ Title("Method") \in S
      OBVIOUS
    <2> HIDE DEF S
    <2>2. p1 \in Seq(S) /\ Len(p1) = 2
      BY <2>1, FewLines
    <2>3. p3 \in Seq(S) /\ Len(p3) = 1
      BY <2>1, FewLines
    <2>4. p5 \in Seq(S) /\ Len(p5) = 2
      BY <2>1, FewLines
    <2>5. p7 \in Seq(S) /\ Len(p7) = 1
      BY <2>1, FewLines
    <2> QED
      BY <2>2, <2>3, <2>4, <2>5
  <1> HIDE DEF S
  <1>7. t \in Nat
    BY <1>2
  <1>8. p2 \in Seq(S) /\ Len(p2) = t /\ \A k \in 1..t : p2[k] = Row(shown[k])
    <2>1. DOMAIN shown = 1..t /\ t \in Nat
      BY <1>3, <1>7
    <2>2. \A k \in 1..t : Row(shown[k]) \in S
      BY <1>5
    <2> QED
      BY <2>1, <2>2, RowsAre
  <1>9. p4 \in Seq(S) /\ Len(p4) = r /\ \A k \in 1..r : p4[k] = Row(mapped[k])
    <2>1. DOMAIN mapped = 1..r /\ r \in Nat
      BY <1>3, <1>7
    <2>2. \A k \in 1..r : Row(mapped[k]) \in S
      BY <1>5
    <2> QED
      BY <2>1, <2>2, RowsAre
  <1>10. p6 \in Seq(S) /\ Len(p6) = r /\ \A k \in 1..r : p6[k] = Row(counted[k])
    <2>1. DOMAIN counted = 1..r /\ r \in Nat
      BY <1>3, <1>7
    <2>2. \A k \in 1..r : Row(counted[k]) \in S
      BY <1>5
    <2> QED
      BY <2>1, <2>2, RowsAre
  <1>11. /\ p1[1] = Total(tot) /\ p1[2] = Title("Event Timeline")
         /\ p3[1] = Title("MITRE ATT&CK Mapping")
         /\ p5[1] = Title("Remediation Advice") /\ p5[2] = Title("Rule Frequency Breakdown")
         /\ p7[1] = Title("Method")
    OBVIOUS
  <1> HIDE DEF p1, p2, p3, p4, p5, p6, p7
  <1> DEFINE s2 == p1 \o p2
             s3 == s2 \o p3
             s4 == s3 \o p4
             s5 == s4 \o p5
             s6 == s5 \o p6
             s7 == s6 \o p7
  <1> HIDE DEF s2, s3, s4, s5, s6, s7
  <1>12. /\ s2 \in Seq(S) /\ Len(s2) = 2 + t
         /\ \A i \in 1..(2) : s2[i] = p1[i]
         /\ \A i \in 1..t : s2[2 + i] = p2[i]
    <2>1. p1 \in Seq(S) /\ p2 \in Seq(S)
      BY <1>6, <1>8
    <2>2. Len(p1) = 2 /\ Len(p2) = t
      BY <1>6, <1>8
    <2>3. /\ p1 \o p2 \in Seq(S) /\ Len(p1 \o p2) = Len(p1) + Len(p2)
          /\ \A i \in 1..Len(p1) : (p1 \o p2)[i] = p1[i]
          /\ \A i \in 1..Len(p2) : (p1 \o p2)[Len(p1) + i] = p2[i]
      BY <2>1, Glued
    <2> QED
      BY <2>2, <2>3 DEF s2
  <1>13. /\ s3 \in Seq(S) /\ Len(s3) = 2 + t + 1
         /\ \A i \in 1..(2 + t) : s3[i] = s2[i]
         /\ \A i \in 1..1 : s3[2 + t + i] = p3[i]
    <2>1. s2 \in Seq(S) /\ p3 \in Seq(S)
      BY <1>6, <1>12
    <2>2. Len(s2) = 2 + t /\ Len(p3) = 1
      BY <1>6, <1>12
    <2>3. /\ s2 \o p3 \in Seq(S) /\ Len(s2 \o p3) = Len(s2) + Len(p3)
          /\ \A i \in 1..Len(s2) : (s2 \o p3)[i] = s2[i]
          /\ \A i \in 1..Len(p3) : (s2 \o p3)[Len(s2) + i] = p3[i]
      BY <2>1, Glued
    <2> QED
      BY <2>2, <2>3 DEF s3
  <1>14. /\ s4 \in Seq(S) /\ Len(s4) = 2 + t + 1 + r
         /\ \A i \in 1..(2 + t + 1) : s4[i] = s3[i]
         /\ \A i \in 1..r : s4[2 + t + 1 + i] = p4[i]
    <2>1. s3 \in Seq(S) /\ p4 \in Seq(S)
      BY <1>9, <1>13
    <2>2. Len(s3) = 2 + t + 1 /\ Len(p4) = r
      BY <1>9, <1>13
    <2>3. /\ s3 \o p4 \in Seq(S) /\ Len(s3 \o p4) = Len(s3) + Len(p4)
          /\ \A i \in 1..Len(s3) : (s3 \o p4)[i] = s3[i]
          /\ \A i \in 1..Len(p4) : (s3 \o p4)[Len(s3) + i] = p4[i]
      BY <2>1, Glued
    <2> QED
      BY <2>2, <2>3 DEF s4
  <1>15. /\ s5 \in Seq(S) /\ Len(s5) = 2 + t + 1 + r + 2
         /\ \A i \in 1..(2 + t + 1 + r) : s5[i] = s4[i]
         /\ \A i \in 1..2 : s5[2 + t + 1 + r + i] = p5[i]
    <2>1. s4 \in Seq(S) /\ p5 \in Seq(S)
      BY <1>6, <1>14
    <2>2. Len(s4) = 2 + t + 1 + r /\ Len(p5) = 2
      BY <1>6, <1>14
    <2>3. /\ s4 \o p5 \in Seq(S) /\ Len(s4 \o p5) = Len(s4) + Len(p5)
          /\ \A i \in 1..Len(s4) : (s4 \o p5)[i] = s4[i]
          /\ \A i \in 1..Len(p5) : (s4 \o p5)[Len(s4) + i] = p5[i]
      BY <2>1, Glued
    <2> QED
      BY <2>2, <2>3 DEF s5
  <1>16. /\ s6 \in Seq(S) /\ Len(s6) = 2 + t + 1 + r + 2 + r
         /\ \A i \in 1..(2 + t + 1 + r + 2) : s6[i] = s5[i]
         /\ \A i \in 1..r : s6[2 + t + 1 + r + 2 + i] = p6[i]
    <2>1. s5 \in Seq(S) /\ p6 \in Seq(S)
      BY <1>10, <1>15
    <2>2. Len(s5) = 2 + t + 1 + r + 2 /\ Len(p6) = r
      BY <1>10, <1>15
    <2>3. /\ s5 \o p6 \in Seq(S) /\ Len(s5 \o p6) = Len(s5) + Len(p6)
          /\ \A i \in 1..Len(s5) : (s5 \o p6)[i] = s5[i]
          /\ \A i \in 1..Len(p6) : (s5 \o p6)[Len(s5) + i] = p6[i]
      BY <2>1, Glued
    <2> QED
      BY <2>2, <2>3 DEF s6
  <1>17. /\ s7 \in Seq(S) /\ Len(s7) = 2 + t + 1 + r + 2 + r + 1
         /\ \A i \in 1..(2 + t + 1 + r + 2 + r) : s7[i] = s6[i]
         /\ \A i \in 1..1 : s7[2 + t + 1 + r + 2 + r + i] = p7[i]
    <2>1. s6 \in Seq(S) /\ p7 \in Seq(S)
      BY <1>6, <1>16
    <2>2. Len(s6) = 2 + t + 1 + r + 2 + r /\ Len(p7) = 1
      BY <1>6, <1>16
    <2>3. /\ s6 \o p7 \in Seq(S) /\ Len(s6 \o p7) = Len(s6) + Len(p7)
          /\ \A i \in 1..Len(s6) : (s6 \o p7)[i] = s6[i]
          /\ \A i \in 1..Len(p7) : (s6 \o p7)[Len(s6) + i] = p7[i]
      BY <2>1, Glued
    <2> QED
      BY <2>2, <2>3 DEF s7
  <1>18. lines = s7
    BY <1>1 DEF s2, s3, s4, s5, s6, s7
  <1>19. DOMAIN lines = 1..(t + r + r + 6)
    <2>1. 2 + t + 1 + r + 2 + r + 1 = t + r + r + 6
      BY <1>7
    <2> QED
      BY <1>17, <1>18, <2>1
  <1>20. lines[1] = Total(tot) /\ lines[2] = Title("Event Timeline")
    <2>1. 1 \in 1..2 /\ 2 \in 1..2
      OBVIOUS
    <2>2. lines[1] = p1[1] /\ lines[2] = p1[2]
      BY <1>7, <1>12, <1>13, <1>14, <1>15, <1>16, <1>17, <1>18, <2>1
    <2> QED
      BY <1>11, <2>2
  <1>21. \A k \in 1..t : lines[2 + k] = Row(Sorted(table)[k])
    <2> TAKE k \in 1..t
    <2>1. lines[2 + k] = p2[k]
      BY <1>7, <1>12, <1>13, <1>14, <1>15, <1>16, <1>17, <1>18
    <2>2. shown[k] = Sorted(table)[k]
      BY <1>2
    <2> QED
      BY <1>8, <2>1, <2>2
  <1>22. lines[t + 3] = Title("MITRE ATT&CK Mapping")
    <2>1. t + 3 = 2 + t + 1 /\ 1 \in 1..1
      BY <1>7
    <2>2. lines[2 + t + 1] = p3[1]
      BY <1>7, <1>13, <1>14, <1>15, <1>16, <1>17, <1>18
    <2> QED
      BY <1>11, <2>1, <2>2
  <1>23. \A k \in 1..r : lines[t + 3 + k].tag = "row"
    <2> TAKE k \in 1..r
    <2>1. t + 3 + k = 2 + t + 1 + k
      BY <1>7
    <2>2. lines[2 + t + 1 + k] = p4[k]
      BY <1>7, <1>14, <1>15, <1>16, <1>17, <1>18
    <2> QED
      BY <1>9, <2>1, <2>2 DEF Row
  <1>24. lines[t + r + 4] = Title("Remediation Advice")
         /\ lines[t + r + 5] = Title("Rule Frequency Breakdown")
    <2>1. t + r + 4 = 2 + t + 1 + r + 1 /\ t + r + 5 = 2 + t + 1 + r + 2
      BY <1>7
    <2>2. 1 \in 1..2 /\ 2 \in 1..2
      OBVIOUS
    <2>3. lines[2 + t + 1 + r + 1] = p5[1]
      BY <1>7, <1>15, <1>16, <1>17, <1>18, <2>2
    <2>4. lines[2 + t + 1 + r + 2] = p5[2]
      BY <1>7, <1>15, <1>16, <1>17, <1>18, <2>2
    <2> QED
      BY <1>11, <2>1, <2>3, <2>4
  <1>25. \A k \in 1..r : lines[t + r + 5 + k]
           = Row([rule |-> rules[k], count |-> CountOf(table, rules[k])])
    <2> TAKE k \in 1..r
    <2>1. t + r + 5 + k = 2 + t + 1 + r + 2 + k
      BY <1>7
    <2>2. lines[2 + t + 1 + r + 2 + k] = p6[k]
      BY <1>7, <1>16, <1>17, <1>18
    <2> QED
      BY <1>4, <1>10, <2>1, <2>2
  <1>26. lines[t + r + r + 6] = Title("Method")
    <2>1. t + r + r + 6 = 2 + t + 1 + r + 2 + r + 1 /\ 1 \in 1..1
      BY <1>7
    <2> QED
      BY <1>11, <1>17, <1>18, <2>1
  <1> QED
    BY <1>19, <1>20, <1>21, <1>22, <1>23, <1>24, <1>25, <1>26 DEF HasShape, lines, t, rules

-----------------------------------------------------------------------------
(* What the page makes of the report.                                      *)

\* The two lists that are read are where their titles say.
HasSections(lines, tot, t, r) ==
  /\ ParseHuntTotal(lines) = tot
  /\ Section(lines, "Event Timeline") = 3..(t + 2)
  /\ Section(lines, "Rule Frequency Breakdown") = (t + r + 6)..(t + r + r + 5)

LEMMA HuntSections ==
  ASSUME NEW tot, NEW table, NEW n, IsTable(table, n),
         NEW r \in Nat, DOMAIN RulesOf(table) = 1..r
  PROVE  HasSections(HuntLines(tot, table), tot, Capped(n), r)
  <1> DEFINE lines == HuntLines(tot, table)
             rules == RulesOf(table)
             t     == Capped(n)
             m     == t + r + r + 6
  <1>0. HasShape(lines, tot, table, t, r)
    BY HuntShape
  <1>1. n \in Nat /\ t \in 0..n
    <2>1. n \in Nat
      BY DEF IsTable
    <2> QED
      BY <2>1, CapAssumption DEF Capped
  <1> HIDE DEF lines, t, rules
  <1>2. DOMAIN lines = 1..m
    BY <1>0 DEF HasShape
  <1>3. lines[1].tag = "total" /\ lines[1].cells = tot
    <2>1. lines[1] = Total(tot)
      BY <1>0 DEF HasShape
    <2> QED
      BY <2>1 DEF Total
  <1>4. /\ lines[2].tag = "title" /\ lines[2].text = "Event Timeline"
        /\ lines[t + 3].tag = "title" /\ lines[t + 3].text = "MITRE ATT&CK Mapping"
        /\ lines[t + r + 4].tag = "title" /\ lines[t + r + 4].text = "Remediation Advice"
        /\ lines[t + r + 5].tag = "title" /\ lines[t + r + 5].text = "Rule Frequency Breakdown"
        /\ lines[m].tag = "title" /\ lines[m].text = "Method"
    <2>1. \A x : Title(x).tag = "title" /\ Title(x).text = x
      BY DEF Title
    <2>2. /\ lines[2] = Title("Event Timeline")
          /\ lines[t + 3] = Title("MITRE ATT&CK Mapping")
          /\ lines[t + r + 4] = Title("Remediation Advice")
          /\ lines[t + r + 5] = Title("Rule Frequency Breakdown")
          /\ lines[m] = Title("Method")
      BY <1>0 DEF HasShape
    <2> QED
      BY <2>1, <2>2
  <1>5. /\ \A k \in 1..t : lines[2 + k].tag = "row"
        /\ \A k \in 1..r : lines[t + 3 + k].tag = "row"
        /\ \A k \in 1..r : lines[t + r + 5 + k].tag = "row"
    <2>1. \A c : Row(c).tag = "row"
      BY DEF Row
    <2> QED
      BY <1>0, <2>1 DEF HasShape
  <1>6. t \in Nat /\ m \in Nat
    BY <1>1
  <1>7. ASSUME NEW k \in 1..m
        PROVE  \/ k = 1 \/ k = 2 \/ k = t + 3 \/ k = t + r + 4 \/ k = t + r + 5 \/ k = m
               \/ k - 2 \in 1..t \/ k - (t + 3) \in 1..r \/ k - (t + r + 5) \in 1..r
    BY <1>6
  <1>8. ASSUME NEW k \in 1..m, k \notin {1, 2, t + 3, t + r + 4, t + r + 5, m}
        PROVE  lines[k].tag = "row"
    <2>1. CASE k - 2 \in 1..t
      <3>1. k = 2 + (k - 2)
        BY <1>6
      <3> QED
        BY <1>5, <2>1, <3>1
    <2>2. CASE k - (t + 3) \in 1..r
      <3>1. k = t + 3 + (k - (t + 3))
        BY <1>6
      <3> QED
        BY <1>5, <2>2, <3>1
    <2>3. CASE k - (t + r + 5) \in 1..r
      <3>1. k = t + r + 5 + (k - (t + r + 5))
        BY <1>6
      <3> QED
        BY <1>5, <2>3, <3>1
    <2> QED
      BY <1>7, <1>8, <2>1, <2>2, <2>3
  <1>9. ParseHuntTotal(lines) = tot
    <2>1. {k \in DOMAIN lines : lines[k].tag = "total"} = {1}
      <3>1. 1 \in 1..m
        BY <1>6
      <3>2. ASSUME NEW k \in 1..m, lines[k].tag = "total" PROVE k = 1
        BY <1>4, <1>8, <3>2
      <3> QED
        BY <1>2, <1>3, <3>1, <3>2
    <2>2. Min({1}) = 1
      BY DEF Min
    <2> QED
      BY <1>3, <2>1, <2>2 DEF ParseHuntTotal
  <1>10. Section(lines, "Event Timeline") = 3..(t + 2)
    <2> DEFINE title == "Event Timeline"
               a == 2
               b == t + 3
    <2>1. \A k \in 1..m : (lines[k].tag = "title" /\ lines[k].text = title) <=> k = a
      <3> TAKE k \in 1..m
      <3>1. k = 1 \/ k \notin {1, 2, t + 3, t + r + 4, t + r + 5, m} => lines[k].tag # "title"
        BY <1>3, <1>8
      <3>2. k \in {t + 3, t + r + 4, t + r + 5, m} => lines[k].text # title
        BY <1>4
      <3>3. k \in {t + 3, t + r + 4, t + r + 5, m} => k # a
        BY <1>6
      <3> QED
        BY <1>4, <3>1, <3>2, <3>3
    <2>2. a \in 1..m /\ b \in 1..m /\ a < b /\ a + 1 = 3 /\ b - 1 = t + 2
      BY <1>6
    <2>3. \A k \in (a + 1)..(b - 1) : lines[k].tag = "row"
      <3> TAKE k \in (a + 1)..(b - 1)
      <3>1. k \in 1..m /\ k \notin {1, 2, t + 3, t + r + 4, t + r + 5, m}
        BY <1>6
      <3> QED
        BY <1>8, <3>1
    <2>4. lines[b].tag = "title"
      BY <1>4
    <2> HIDE DEF title, m, a, b
    <2>5. Titled(lines, m, a, b, title)
      BY <1>2, <1>6, <2>1, <2>2, <2>3, <2>4 DEF Titled
    <2>6. Section(lines, title) = (a + 1)..(b - 1)
      BY <2>5, SectionPlaces
    <2> QED
      BY <2>2, <2>6 DEF title
  <1>11. Section(lines, "Rule Frequency Breakdown") = (t + r + 6)..(t + r + r + 5)
    <2> DEFINE title == "Rule Frequency Breakdown"
               a == t + r + 5
    <2>1. \A k \in 1..m : (lines[k].tag = "title" /\ lines[k].text = title) <=> k = a
      <3> TAKE k \in 1..m
      <3>1. k = 1 \/ k \notin {1, 2, t + 3, t + r + 4, t + r + 5, m} => lines[k].tag # "title"
        BY <1>3, <1>8
      <3>2. k \in {2, t + 3, t + r + 4, m} => lines[k].text # title
        BY <1>4
      <3>3. k \in {1, 2, t + 3, t + r + 4, m} => k # a
        BY <1>6
      <3> QED
        BY <1>4, <3>1, <3>2, <3>3
    <2>2. a \in 1..m /\ m \in 1..m /\ a < m /\ a + 1 = t + r + 6 /\ m - 1 = t + r + r + 5
      BY <1>6
    <2>3. \A k \in (a + 1)..(m - 1) : lines[k].tag = "row"
      <3> TAKE k \in (a + 1)..(m - 1)
      <3>1. k \in 1..m /\ k \notin {1, 2, t + 3, t + r + 4, t + r + 5, m}
        BY <1>6
      <3> QED
        BY <1>8, <3>1
    <2>4. lines[m].tag = "title"
      BY <1>4
    <2> HIDE DEF title, m, a
    <2>5. Titled(lines, m, a, m, title)
      BY <1>2, <1>6, <2>1, <2>2, <2>3, <2>4 DEF Titled
    <2>6. Section(lines, title) = (a + 1)..(m - 1)
      BY <2>5, SectionPlaces
    <2> QED
      BY <2>2, <2>6 DEF title
  <1> QED
    BY <1>9, <1>10, <1>11 DEF HasSections, lines, t

\* What the page shows of a hunt's report.
LEMMA PageOfHunt ==
  ASSUME NEW tot, NEW table, NEW n, IsTable(table, n)
  PROVE  LET page  == BuildReportData(<<>>, HuntLines(tot, table), <<>>)
             times == {table[k].ts : k \in 1..n}
         IN  /\ page.total = tot
             /\ page.suricata + page.wazuh = n
             /\ TimelineCap > 0 => page.seen[1] = MinOrNone(times)
             /\ n <= TimelineCap => page.seen[2] = MaxOrNone(times)
  <1>0. PICK r \in Nat : ListsRules(RulesOf(table), r, table, n)
    BY RulesListed
  <1> DEFINE page  == BuildReportData(<<>>, HuntLines(tot, table), <<>>)
             times == {table[k].ts : k \in 1..n}
             lines == HuntLines(tot, table)
             rules == RulesOf(table)
             t     == Capped(n)
             shown == {Sorted(table)[k].ts : k \in 1..t}
             used  == {table[k].rule : k \in 1..n}
             counts == ParseRuleFrequency(lines)
  <1>1. n \in Nat /\ t \in 0..n /\ DOMAIN table = 1..n /\ \A k \in 1..n : table[k].ts \in Int
    <2>1. n \in Nat /\ DOMAIN table = 1..n /\ \A k \in 1..n : table[k].ts \in Int
      BY DEF IsTable
    <2>2. t \in 0..n
      BY <2>1, CapAssumption DEF Capped
    <2> QED
      BY <2>1, <2>2
  <1>2. /\ rules \in [1..r -> used]
        /\ \A i, j \in 1..r : rules[i] = rules[j] => i = j
        /\ \A k \in 1..n : \E i \in 1..r : rules[i] = table[k].rule
    BY <1>0 DEF ListsRules
  <1>3. DOMAIN RulesOf(table) = 1..r
    BY <1>2
  <1>4. HasShape(lines, tot, table, t, r)
    BY <1>3, HuntShape
  <1>5. /\ ParseHuntTotal(lines) = tot
        /\ Section(lines, "Event Timeline") = 3..(t + 2)
        /\ Section(lines, "Rule Frequency Breakdown") = (t + r + 6)..(t + r + r + 5)
    <2>1. HasSections(lines, tot, t, r)
      BY <1>3, HuntSections
    <2> QED
      BY <2>1 DEF HasSections
  <1>6. \A c : Row(c).cells = c
    BY DEF Row
  <1> HIDE DEF lines, rules, t
  <1>7. counts = [rule \in used |-> CountOf(table, rule)]
    <2> DEFINE rows == (t + r + 6)..(t + r + r + 5)
               Of(rule) == {k \in rows : lines[k].cells.rule = rule}
    <2>1. t \in Nat
      BY <1>1
    <2>2. \A i \in 1..r : t + r + 5 + i \in rows
      BY <2>1
    <2>3. \A k \in rows : k - (t + r + 5) \in 1..r /\ k = t + r + 5 + (k - (t + r + 5))
      BY <2>1
    <2>4. \A i \in 1..r : lines[t + r + 5 + i].cells
                            = [rule |-> rules[i], count |-> CountOf(table, rules[i])]
      BY <1>4, <1>6 DEF HasShape, rules
    <2>5. \A k \in rows : /\ lines[k].cells.rule = rules[k - (t + r + 5)]
                          /\ lines[k].cells.count = CountOf(table, rules[k - (t + r + 5)])
      <3> TAKE k \in rows
      <3>1. lines[t + r + 5 + (k - (t + r + 5))].cells
              = [rule |-> rules[k - (t + r + 5)], count |-> CountOf(table, rules[k - (t + r + 5)])]
        BY <2>3, <2>4
      <3>2. lines[k].cells
              = [rule |-> rules[k - (t + r + 5)], count |-> CountOf(table, rules[k - (t + r + 5)])]
        BY <2>3, <3>1
      <3> QED
        BY <3>2
    <2> HIDE DEF rows
    <2>6. {lines[k].cells.rule : k \in rows} = used
      <3>1. ASSUME NEW k \in rows PROVE lines[k].cells.rule \in used
        BY <1>2, <2>3, <2>5
      <3>2. ASSUME NEW k \in 1..n PROVE \E l \in rows : lines[l].cells.rule = table[k].rule
        <4>1. PICK i \in 1..r : rules[i] = table[k].rule
          BY <1>2
        <4>2. t + r + 5 + i \in rows
          BY <2>2
        <4>3. lines[t + r + 5 + i].cells = [rule |-> rules[i], count |-> CountOf(table, rules[i])]
          BY <2>4
        <4>4. lines[t + r + 5 + i].cells.rule = rules[i]
          BY <4>3
        <4> QED
          BY <4>1, <4>2, <4>4
      <3> QED
        BY <3>1, <3>2
    <2>7. ASSUME NEW rule \in used
          PROVE  lines[Max(Of(rule))].cells.count = CountOf(table, rule)
      <3>1. PICK k \in rows : lines[k].cells.rule = rule
        BY <2>6
      <3>2. ASSUME NEW l \in rows, lines[l].cells.rule = rule
            PROVE  l = k
        <4>1. rules[k - (t + r + 5)] = rules[l - (t + r + 5)]
          BY <2>5, <3>1, <3>2
        <4>2. k - (t + r + 5) = l - (t + r + 5)
          BY <1>2, <2>3, <4>1
        <4>3. k = t + r + 5 + (k - (t + r + 5)) /\ l = t + r + 5 + (l - (t + r + 5))
          BY <2>3
        <4> QED
          BY <4>2, <4>3
      <3>3. Of(rule) = {k}
        BY <3>1, <3>2
      <3>4. Max({k}) = k
        <4>1. k \in Int
          BY <2>1 DEF rows
        <4> QED
          BY <4>1 DEF Max
      <3>5. lines[k].cells.count = CountOf(table, rule)
        BY <2>5, <3>1
      <3> QED
        BY <3>3, <3>4, <3>5
    <2>8. counts = [rule \in {lines[k].cells.rule : k \in rows} |-> lines[Max(Of(rule))].cells.count]
      BY <1>5 DEF ParseRuleFrequency, rows
    <2> HIDE DEF Of, counts, used
    <2> QED
      BY <2>6, <2>7, <2>8
  <1>8. ParseHuntTimeline(lines) = [i \in 1..t |-> Sorted(table)[i]]
    <2>1. DOMAIN lines = 1..(t + r + r + 6)
      BY <1>4 DEF HasShape
    <2>2. t \in Nat /\ t + r + r + 6 \in Nat /\ 2 + t <= t + r + r + 6 /\ 2 + 1 = 3 /\ 2 + t = t + 2
      BY <1>1
    <2>3. CellsAt(lines, (2 + 1)..(2 + t)) = [i \in 1..t |-> lines[2 + i].cells]
      <3> DEFINE a == 2
                 m == t + r + r + 6
      <3>1. DOMAIN lines = 1..m /\ m \in Nat /\ a \in Nat /\ t \in Nat /\ a + t <= m
        BY <2>1, <2>2
      <3> HIDE DEF a, m
      <3>2. CellsAt(lines, (a + 1)..(a + t)) = [i \in 1..t |-> lines[a + i].cells]
        BY <3>1, CellsOfStretch
      <3> QED
        BY <3>2 DEF a
    <2>4. \A i \in 1..t : lines[2 + i].cells = Sorted(table)[i]
      BY <1>4, <1>6 DEF HasShape
    <2>5. ParseHuntTimeline(lines) = CellsAt(lines, 3..(t + 2))
      BY <1>5 DEF ParseHuntTimeline
    <2>6. (2 + 1)..(2 + t) = 3..(t + 2)
      BY <2>2
    <2>7. CellsAt(lines, 3..(t + 2)) = [i \in 1..t |-> lines[2 + i].cells]
      BY <2>3, <2>6
    <2> QED
      BY <2>4, <2>5, <2>7
  <1> HIDE DEF counts, used, shown, times
  <1>9. /\ page.total = ParseHuntTotal(lines)
        /\ page.suricata = SumOf(counts, DOMAIN counts \cap SuricataRuleIds)
        /\ page.wazuh = SumOf(counts, DOMAIN counts \ SuricataRuleIds)
    BY DEF BuildReportData, counts, lines
  <1>10. page.seen = <<MinOrNone(shown), MaxOrNone(shown)>>
    <2> DEFINE timeline == ParseHuntTimeline(lines)
    <2>1. page.seen = <<MinOrNone({timeline[k].ts : k \in DOMAIN timeline}),
                        MaxOrNone({timeline[k].ts : k \in DOMAIN timeline})>>
      BY DEF BuildReportData, Columns, lines
    <2>2. {timeline[k].ts : k \in DOMAIN timeline} = shown
      BY <1>8 DEF shown
    <2> QED
      BY <2>1, <2>2
  <1> HIDE DEF page
  <1>11. page.suricata + page.wazuh = n
    <2>1. DOMAIN counts = used
      BY <1>7
    <2>2. \A k \in 1..n : table[k].rule \in used
      BY DEF used
    <2>3. SumOf(counts, used \cap SuricataRuleIds) + SumOf(counts, used \ SuricataRuleIds) = n
      BY <1>7, <2>2, SumsAddUp
    <2> QED
      BY <1>9, <2>1, <2>3
  <1>12. /\ \A i \in 1..n : \E k \in 1..n : Sorted(table)[i] = table[k]
         /\ \A k \in 1..n : \E i \in 1..n : Sorted(table)[i] = table[k]
         /\ \A k \in 1..n : Sorted(table)[1].ts <= table[k].ts
    BY SortedRows
  <1>13. shown \subseteq times
    <2>1. \A i \in 1..t : i \in 1..n
      BY <1>1
    <2>2. ASSUME NEW i \in 1..t PROVE Sorted(table)[i].ts \in times
      <3>1. PICK k \in 1..n : Sorted(table)[i] = table[k]
        BY <1>12, <2>1
      <3> QED
        BY <3>1 DEF times
    <2> QED
      BY <2>2 DEF shown
  <1>14. ASSUME TimelineCap > 0
         PROVE  MinOrNone(shown) = MinOrNone(times)
    <2>1. CASE n = 0
      <3>1. times = {}
        BY <2>1 DEF times
      <3> QED
        BY <1>13, <3>1
    <2>2. CASE n > 0
      <3> DEFINE oldest == Sorted(table)[1].ts
      <3>1. 1 \in 1..t
        BY <1>1, <1>14, <2>2, CapAssumption DEF t, Capped
      <3>2. oldest \in shown /\ oldest \in times
        BY <1>13, <3>1 DEF shown
      <3>3. \A x \in times : x \in Int /\ oldest <= x
        BY <1>1, <1>12 DEF times
      <3> HIDE DEF oldest
      <3>4. Min(shown) = oldest
        BY <1>13, <3>2, <3>3 DEF Min
      <3>5. Min(times) = oldest
        BY <3>2, <3>3 DEF Min
      <3> QED
        BY <3>2, <3>4, <3>5 DEF MinOrNone
    <2> QED
      BY <1>1, <2>1, <2>2
  <1>15. ASSUME n <= TimelineCap
         PROVE  shown = times
    <2>1. t = n
      BY <1>1, <1>15, CapAssumption DEF t, Capped
    <2>2. ASSUME NEW k \in 1..n PROVE table[k].ts \in shown
      <3>1. PICK i \in 1..t : Sorted(table)[i] = table[k]
        BY <1>12, <2>1
      <3> QED
        BY <3>1 DEF shown
    <2>3. times \subseteq shown
      BY <2>2 DEF times
    <2> QED
      BY <1>13, <2>3
  <1>16. page.total = tot
    BY <1>5, <1>9
  <1>17. page.seen[1] = MinOrNone(shown) /\ page.seen[2] = MaxOrNone(shown)
    BY <1>10
  <1>18. TimelineCap > 0 => page.seen[1] = MinOrNone(times)
    BY <1>14, <1>17
  <1>19. n <= TimelineCap => page.seen[2] = MaxOrNone(times)
    BY <1>15, <1>17
  <1> QED
    BY <1>11, <1>16, <1>18, <1>19 DEF page, times

-----------------------------------------------------------------------------
(* A report that has been written stands for its second query.             *)

\* The table of a query, in a log.
TableOf(entries, got) == [n \in 1..Cardinality(got) |-> HuntRow(entries[Nth(got, n)])]

Reports ==
  /\ DOMAIN output = Readers
  /\ \A h \in Hunts : pc[h] = "reported" =>
       output[h] = HuntLines(total[h], TableOf(log, answer[h][2].got))

\* Alerts that come later do not change the table of an answer.
LEMMA TableStays ==
  ASSUME NEW old, NEW new, NEW got, got \subseteq Nat, IsFiniteSet(got),
         \A k \in got : old[k] = new[k]
  PROVE  TableOf(old, got) = TableOf(new, got)
  <1>1. \A n \in 1..Cardinality(got) : Nth(got, n) \in got
    BY PickCovers
  <1> QED
    BY <1>1 DEF TableOf

\* The places of an answer are in the log.
LEMMA AnswerInLog ==
  ASSUME IntakeInv, NEW h \in Hunts, pc[h] = "reported"
  PROVE  LET got == answer[h][2].got
         IN  got \subseteq 1..Len(log) /\ got \subseteq Nat /\ IsFiniteSet(got)
  <1> DEFINE query == answer[h][2]
  <1>1. h \in Readers /\ Asked(pc[h]) = 2
    BY DEF Readers, Asked
  <1>2. Truthful(query, since[h]) /\ Since(query)
    <2>1. 2 \in 1..2
      OBVIOUS
    <2> QED
      BY <1>1, <2>1 DEF IntakeInv, Answers
  <1>3. query.length \in Nat /\ Len(log) \in Nat
    <2>1. answer[h] \in Seq(Query) /\ Len(answer[h]) = 2
      BY <1>1 DEF IntakeInv, Types
    <2>2. query \in Query
      BY <2>1
    <2> QED
      BY <2>2 DEF IntakeInv, Types, Query
  <1>4. query.got \subseteq 1..query.length /\ query.length <= Len(log)
    BY <1>2 DEF Truthful, Selected, Since
  <1>5. query.got \subseteq 1..Len(log)
    BY <1>3, <1>4
  <1>6. IsFiniteSet(1..Len(log))
    <2>1. 1 \in Int /\ Len(log) \in Int
      BY <1>3
    <2> QED
      BY <2>1, FS_Interval
  <1> HIDE DEF query
  <1>7. IsFiniteSet(query.got)
    BY <1>5, <1>6, FS_Subset
  <1> QED
    BY <1>5, <1>7 DEF query

\* A report that was there stays what it was.
LEMMA ReportStays ==
  ASSUME IntakeInv, Reports, NEW h \in Hunts, pc[h] = "reported",
         output'[h] = output[h], total'[h] = total[h], answer'[h] = answer[h],
         \A k \in 1..Len(log) : log'[k] = log[k]
  PROVE  output'[h] = HuntLines(total'[h], TableOf(log', answer'[h][2].got))
  <1> DEFINE got == answer[h][2].got
  <1>1. got \subseteq 1..Len(log) /\ got \subseteq Nat /\ IsFiniteSet(got)
    BY AnswerInLog
  <1> HIDE DEF got
  <1>2. \A k \in got : log[k] = log'[k]
    BY <1>1
  <1>3. TableOf(log, got) = TableOf(log', got)
    BY <1>1, <1>2, TableStays
  <1> QED
    BY <1>3 DEF Reports, got

\* A step of a hunt's or of another reader's that leaves the reports alone.
LEMMA NoReport ==
  ASSUME IntakeInv, Reports, NEW r \in Readers, NEW label, label # "reported",
         pc[r] # "reported", Goto(r, label), DOMAIN output' = Readers,
         \A s \in Readers : s # r => output'[s] = output[s] /\ answer'[s] = answer[s],
         \A h \in Hunts : h # r => total'[h] = total[h], log' = log
  PROVE  Reports'
  <1>1. pc' = [pc EXCEPT ![r] = label] /\ pc \in [Readers -> Labels]
    BY DEF Goto, IntakeInv, Types
  <1>2. ASSUME NEW h \in Hunts, pc'[h] = "reported"
        PROVE  output'[h] = HuntLines(total'[h], TableOf(log', answer'[h][2].got))
    <2>1. h \in Readers
      BY DEF Readers
    <2>2. h # r /\ pc[h] = "reported"
      BY <1>1, <1>2, <2>1
    <2> QED
      BY <2>1, <2>2, ReportStays
  <1> QED
    BY <1>2 DEF Reports

\* The second query of a hunt makes its report.
LEMMA ListAlertsReports ==
  ASSUME IntakeInv, Reports, NEW h \in Hunts, ListAlerts(h)
  PROVE  Reports'
  <1>1. /\ h \in Readers /\ pc[h] = "counted" /\ Ask(h, Window(since[h]))
        /\ log' = log /\ total' = total
        /\ output' = [output EXCEPT ![h] = Report(h, answer'[h][2])]
        /\ pc' = [pc EXCEPT ![h] = "reported"]
    BY DEF ListAlerts, Readers, Goto
  <1>2. PICK query \in Query : answer' = [answer EXCEPT ![h] = Append(answer[h], query)]
    BY <1>1, AskStep DEF IntakeInv
  <1>3. \A s \in Readers : s # h =>
          output'[s] = output[s] /\ answer'[s] = answer[s] /\ pc'[s] = pc[s]
    BY <1>1, <1>2 DEF IntakeInv, Types, Reports
  <1>4. DOMAIN output' = Readers /\ output'[h] = Report(h, answer'[h][2])
    BY <1>1 DEF Reports
  <1>5. Report(h, answer'[h][2]) = HuntLines(total[h], TableOf(log, answer'[h][2].got))
    <2> DEFINE got == answer'[h][2].got
    <2>1. DOMAIN Pick(log, got) = 1..Cardinality(got)
          /\ \A n \in 1..Cardinality(got) : Pick(log, got)[n] = log[Nth(got, n)]
      BY DEF Pick
    <2> HIDE DEF got
    <2>2. [k \in DOMAIN Pick(log, got) |-> HuntRow(Pick(log, got)[k])] = TableOf(log, got)
      BY <2>1 DEF TableOf
    <2> QED
      BY <2>2 DEF Report, Entries, got
  <1>6. ASSUME NEW g \in Hunts, g # h, pc'[g] = "reported"
        PROVE  output'[g] = HuntLines(total'[g], TableOf(log', answer'[g][2].got))
    <2>1. g \in Readers
      BY DEF Readers
    <2>2. pc[g] = "reported" /\ output'[g] = output[g] /\ answer'[g] = answer[g]
      BY <1>3, <1>6, <2>1
    <2> QED
      BY <1>1, <2>2, ReportStays
  <1> QED
    BY <1>1, <1>4, <1>5, <1>6 DEF Reports

LEMMA NextReports == IntakeInv /\ Reports /\ [Next]_vars => Reports'
  <1> SUFFICES ASSUME IntakeInv, Reports, [Next]_vars PROVE Reports'
    OBVIOUS
  <1>1. ASSUME pc' = pc, output' = output, total' = total, answer' = answer,
               \A k \in 1..Len(log) : log'[k] = log[k]
        PROVE  Reports'
    <2>1. ASSUME NEW h \in Hunts, pc'[h] = "reported"
          PROVE  output'[h] = HuntLines(total'[h], TableOf(log', answer'[h][2].got))
      <3>1. pc[h] = "reported"
        BY <1>1, <2>1
      <3> QED
        BY <1>1, <3>1, ReportStays
    <2> QED
      BY <1>1, <2>1 DEF Reports
  <1>2. ASSUME Raise PROVE Reports'
    <2>1. PICK raw \in Raws, lag \in 0..MaxLag : log' = Append(log, [raw |-> raw, ts |-> now - lag])
      BY <1>2 DEF Raise
    <2> DEFINE entry == [raw |-> raw, ts |-> now - lag]
    <2>2. log \in Seq(Entry) /\ entry \in Entry
      <3>1. now \in Nat /\ lag \in Int
        BY BoundsAssumption DEF IntakeInv, Types
      <3> QED
        BY <3>1 DEF Entry, IntakeInv, Types
    <2> HIDE DEF entry
    <2>3. log' = Append(log, entry)
      BY <2>1 DEF entry
    <2>4. \A k \in 1..Len(log) : log'[k] = log[k]
      BY <2>2, <2>3, AppendProperties
    <2> QED
      BY <1>1, <1>2, <2>4 DEF Raise
  <1>3. ASSUME UNCHANGED vars \/ Tick PROVE Reports'
    BY <1>1, <1>3 DEF Tick, vars
  <1>4. ASSUME NEW r \in Readers, ReadClock(r) \/ Unreachable(r) PROVE Reports'
    <2>1. pc[r] = "idle" /\ log' = log /\ total' = total /\ answer' = answer /\ output' = output
      BY <1>4 DEF ReadClock, Unreachable
    <2>2. Goto(r, "since") \/ Goto(r, "failed")
      BY <1>4 DEF ReadClock, Unreachable
    <2>3. DOMAIN output' = Readers
      BY <2>1 DEF Reports
    <2> QED
      BY <2>1, <2>2, <2>3, NoReport
  <1>5. ASSUME NEW h \in Hunts, CountAlerts(h) PROVE Reports'
    <2>1. /\ h \in Readers /\ pc[h] = "since" /\ Ask(h, Window(since[h]))
          /\ log' = log /\ output' = output
      BY <1>5 DEF CountAlerts, Readers
    <2>2. PICK query \in Query : answer' = [answer EXCEPT ![h] = Append(answer[h], query)]
      BY <2>1, AskStep DEF IntakeInv
    <2>3. \A s \in Readers : s # h => answer'[s] = answer[s]
      BY <2>2 DEF IntakeInv, Types
    <2>4. \A g \in Hunts : g # h => total'[g] = total[g]
      BY <1>5 DEF CountAlerts, IntakeInv, Types
    <2>5. Goto(h, "quit") \/ Goto(h, "counted")
      BY <1>5 DEF CountAlerts, Goto
    <2>6. DOMAIN output' = Readers
      BY <2>1 DEF Reports
    <2> QED
      BY <2>1, <2>3, <2>4, <2>5, <2>6, NoReport
  <1>6. ASSUME NEW f \in Fetches, FetchAlerts(f) PROVE Reports'
    <2>1. /\ f \in Readers /\ pc[f] = "since" /\ Ask(f, Window(since[f]))
          /\ log' = log /\ total' = total /\ Goto(f, "loaded")
          /\ output' = [output EXCEPT ![f] = Events(Entries(answer'[f][1]))]
      BY <1>6 DEF FetchAlerts, Readers
    <2>2. PICK query \in Query : answer' = [answer EXCEPT ![f] = Append(answer[f], query)]
      BY <2>1, AskStep DEF IntakeInv
    <2>3. \A s \in Readers : s # f => output'[s] = output[s] /\ answer'[s] = answer[s]
      BY <2>1, <2>2 DEF IntakeInv, Types, Reports
    <2>4. DOMAIN output' = Readers
      BY <2>1 DEF Reports
    <2> QED
      BY <2>1, <2>3, <2>4, NoReport
  <1> QED
    BY <1>2, <1>3, <1>4, <1>5, <1>6, ListAlertsReports DEF Next

\* The page of a hunt's report shows the alerts of the table, all of them: the
\* split by sensor adds up to their number, and the times are their times, for
\* any rules, cap, tail and log (hunt.sh; evidence_parser.py:
\* _parse_rule_frequency, _parse_hunt_timeline).
THEOREM PageShowsTheHunt == Spec => []PageCountsTheTable
  <1>1. Init => Reports
    <2> SUFFICES ASSUME Init PROVE Reports
      OBVIOUS
    <2>1. DOMAIN output = Readers
      BY DEF Init
    <2>2. ASSUME NEW h \in Hunts PROVE pc[h] # "reported"
      <3>1. h \in Readers
        BY DEF Readers
      <3> QED
        BY <3>1 DEF Init
    <2> QED
      BY <2>1, <2>2 DEF Reports
  <1>2. IntakeInv /\ Reports => PageCountsTheTable
    <2> SUFFICES ASSUME IntakeInv, Reports, NEW h \in Hunts, pc[h] = "reported"
                 PROVE  LET page   == BuildReportData(<<>>, output[h], <<>>)
                            listed == answer[h][2].got
                            times  == {log[k].ts : k \in listed}
                        IN  /\ page.total = total[h]
                            /\ page.suricata + page.wazuh = Cardinality(listed)
                            /\ TimelineCap > 0 => page.seen[1] = MinOrNone(times)
                            /\ Cardinality(listed) <= TimelineCap =>
                                 page.seen[2] = MaxOrNone(times)
      BY DEF PageCountsTheTable
    <2> DEFINE listed == answer[h][2].got
               table  == TableOf(log, listed)
               n      == Cardinality(listed)
               times  == {log[k].ts : k \in listed}
    <2>1. listed \subseteq 1..Len(log) /\ listed \subseteq Nat /\ IsFiniteSet(listed)
      BY AnswerInLog
    <2>2. output[h] = HuntLines(total[h], table)
      BY DEF Reports
    <2> HIDE DEF listed
    <2>3. /\ n \in Nat /\ \A i \in 1..n : Nth(listed, i) \in listed
          /\ \A k \in listed : \E i \in 1..n : Nth(listed, i) = k
      BY <2>1, PickCovers
    <2>4. \A k \in listed : log[k].ts \in Int
      <3>1. log \in Seq(Entry)
        BY DEF IntakeInv, Types
      <3>2. \A k \in listed : log[k] \in Entry
        BY <2>1, <3>1
      <3> QED
        BY <3>2 DEF Entry
    <2>5. DOMAIN table = 1..n /\ \A i \in 1..n : table[i].ts = log[Nth(listed, i)].ts
      BY DEF TableOf, HuntRow
    <2>6. IsTable(table, n)
      <3>1. table = [i \in 1..n |-> table[i]]
        BY DEF TableOf
      <3> HIDE DEF table, n
      <3> QED
        BY <2>3, <2>4, <2>5, <3>1 DEF IsTable
    <2>7. {table[i].ts : i \in 1..n} = times
      <3> HIDE DEF table, n
      <3>1. ASSUME NEW i \in 1..n PROVE table[i].ts \in times
        BY <2>3, <2>5
      <3>2. ASSUME NEW k \in listed PROVE \E i \in 1..n : table[i].ts = log[k].ts
        BY <2>3, <2>5
      <3> QED
        BY <3>1, <3>2
    <2> HIDE DEF table, n, times
    <2>8. LET page == BuildReportData(<<>>, HuntLines(total[h], table), <<>>)
          IN  /\ page.total = total[h]
              /\ page.suricata + page.wazuh = n
              /\ TimelineCap > 0 => page.seen[1] = MinOrNone({table[i].ts : i \in 1..n})
              /\ n <= TimelineCap => page.seen[2] = MaxOrNone({table[i].ts : i \in 1..n})
      BY <2>6, PageOfHunt
    <2> QED
      BY <2>2, <2>7, <2>8 DEF listed, n, times
  <1>3. Spec => []Reports
    BY <1>1, NextReports, IntakeAlways, PTL DEF Spec
  <1> QED
    BY <1>2, <1>3, IntakeAlways, PTL

=============================================================================
