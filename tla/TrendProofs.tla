---------------------------- MODULE TrendProofs ----------------------------
(***************************************************************************)
(* Proofs about Trend, for any files, any number of tests and a newest     *)
(* file that grows at any time: the verdict on two detections in a row     *)
(* follows their latencies, the trend is the verdict on the last of them,  *)
(* a detection is shown with its own rule, and the HTML report agrees on   *)
(* what was detected.                                                      *)
(*                                                                         *)
(* A file only grows at its end, so the first row of a test stays what it  *)
(* is once it is there (FirstRowStays): what was read of it remains true.  *)
(* The loop over the runs has as its invariant that the row so far is      *)
(* right (GoodRow), which needs to know what prev_val is after a run that  *)
(* detected the attack (GoodPrev).                                         *)
(***************************************************************************)
EXTENDS Trend, FiniteSetTheorems, FunctionTheorems, TLAPS

-----------------------------------------------------------------------------
(* Reading a file that grows.                                              *)

\* What is there of a file are its first lines.
LEMMA TextFacts ==
  ASSUME NEW file, IsResults(file)
  PROVE  /\ Len(file.lines) \in Nat /\ DOMAIN file.lines = 1..Len(file.lines)
         /\ file.there \in Nat /\ file.there <= Len(file.lines)
         /\ DOMAIN Text(file) = 1..file.there
         /\ \A k \in 1..file.there : k \in DOMAIN file.lines /\ Text(file)[k] = file.lines[k]
  BY DEF IsResults, Text

\* A test has at most one first row.
LEMMA FirstRowIsOne ==
  ASSUME NEW lines, NEW test, NEW n \in Nat, DOMAIN lines = 1..n,
         NEW row \in FirstRowOf(lines, test), NEW other \in FirstRowOf(lines, test)
  PROVE  row = other
  <1>1. PICK k \in 1..n : /\ row = lines[k].cells /\ IsRowOf(lines[k], test)
                          /\ \A j \in 1..(k - 1) : ~IsRowOf(lines[j], test)
    BY DEF FirstRowOf
  <1>2. PICK l \in 1..n : /\ other = lines[l].cells /\ IsRowOf(lines[l], test)
                          /\ \A j \in 1..(l - 1) : ~IsRowOf(lines[j], test)
    BY DEF FirstRowOf
  <1>3. k = l
    <2>1. ~(k < l)
      BY <1>1, <1>2
    <2>2. ~(l < k)
      BY <1>1, <1>2
    <2> QED
      BY <2>1, <2>2
  <1> QED
    BY <1>1, <1>2, <1>3

\* The first row stays the first row while lines are appended.
LEMMA FirstRowStays ==
  ASSUME NEW short, NEW long, NEW test, NEW m \in Nat, NEW n \in Nat, m <= n,
         DOMAIN short = 1..m, DOMAIN long = 1..n,
         \A k \in 1..m : short[k] = long[k]
  PROVE  FirstRowOf(short, test) \subseteq FirstRowOf(long, test)
  <1> SUFFICES ASSUME NEW row \in FirstRowOf(short, test)
               PROVE  row \in FirstRowOf(long, test)
    OBVIOUS
  <1>1. PICK k \in 1..m : /\ row = short[k].cells /\ IsRowOf(short[k], test)
                          /\ \A j \in 1..(k - 1) : ~IsRowOf(short[j], test)
    BY DEF FirstRowOf
  <1>2. /\ k \in 1..n /\ row = long[k].cells /\ IsRowOf(long[k], test)
        /\ \A j \in 1..(k - 1) : ~IsRowOf(long[j], test)
    <2>1. \A j \in 1..(k - 1) : j \in 1..m
      OBVIOUS
    <2> QED
      BY <1>1, <2>1
  <1> QED
    BY <1>2 DEF FirstRowOf

\* So the first row of what is there is the first row of the file.
LEMMA FirstRowOfText ==
  ASSUME NEW file, IsResults(file), NEW test
  PROVE  FirstRowOf(Text(file), test) \subseteq FirstRowOf(file.lines, test)
  <1>1. file.there \in Nat /\ file.there <= Len(file.lines)
    BY TextFacts DEF IsResults
  <1> QED
    BY <1>1, TextFacts, FirstRowStays

\* A first row is one of the rows that were measured.
LEMMA FirstRowIsMeasured ==
  ASSUME NEW file, IsResults(file), NEW test, NEW row \in FirstRowOf(file.lines, test)
  PROVE  /\ row.latency \in Nat \cup {None}
         /\ row.latency # None => row.rule # None /\ row.result # "**NOT DETECTED**"
  BY DEF FirstRowOf, IsRowOf, IsResults, RowsAreMeasured

-----------------------------------------------------------------------------
(* Parts of a sequence.                                                    *)

\* The ranks of n places are the numbers from 1 to n.
LEMMA Ranks ==
  ASSUME NEW n \in Nat, NEW P \in SUBSET (1..n)
  PROVE  /\ IsFiniteSet(P) /\ Cardinality(P) \in Nat
         /\ \A k \in P : Rank(P, k) \in 1..Cardinality(P)
         /\ \A m \in 1..Cardinality(P) : \E k \in P : Rank(P, k) = m
  <1> DEFINE UpTo(k) == {l \in P : l <= k}
             rank == [k \in P |-> Rank(P, k)]
             card == Cardinality(P)
  <1>1. IsFiniteSet(P) /\ card \in Nat
    <2>1. IsFiniteSet(1..n)
      BY FS_Interval
    <2>2. IsFiniteSet(P)
      BY <2>1, FS_Subset
    <2> QED
      BY <2>2, FS_CardinalityType
  <1>2. \A k \in P : /\ IsFiniteSet(UpTo(k)) /\ Cardinality(UpTo(k)) \in Nat
                     /\ Cardinality(UpTo(k)) <= card
    <2> SUFFICES ASSUME NEW k \in P
                 PROVE  /\ IsFiniteSet(UpTo(k)) /\ Cardinality(UpTo(k)) \in Nat
                        /\ Cardinality(UpTo(k)) <= card
      OBVIOUS
    <2> DEFINE U == UpTo(k)
    <2>1. U \in SUBSET P
      OBVIOUS
    <2> HIDE DEF U
    <2>2. IsFiniteSet(U) /\ Cardinality(U) <= card
      BY <1>1, <2>1, FS_Subset
    <2>3. Cardinality(U) \in Nat
      BY <2>2, FS_CardinalityType
    <2> QED
      BY <2>2, <2>3 DEF U
  <1>3. \A k \in P : Cardinality(UpTo(k)) # 0
    <2> SUFFICES ASSUME NEW k \in P PROVE Cardinality(UpTo(k)) # 0
      OBVIOUS
    <2>1. k \in UpTo(k)
      OBVIOUS
    <2> HIDE DEF UpTo
    <2> QED
      BY <1>2, <2>1, FS_EmptySet
  <1>4. \A k \in P : Rank(P, k) = Cardinality(UpTo(k))
    BY DEF Rank
  <1>5. \A k \in P : Rank(P, k) \in 1..card
    <2> HIDE DEF UpTo
    <2> QED
      BY <1>1, <1>2, <1>3, <1>4
  <1>6. \A k, l \in P : k < l => Rank(P, k) # Rank(P, l)
    <2> SUFFICES ASSUME NEW k \in P, NEW l \in P, k < l
                 PROVE  Cardinality(UpTo(k)) # Cardinality(UpTo(l))
      BY <1>4
    <2>1. k \in Int /\ l \in Int /\ \A m \in P : m \in Int
      OBVIOUS
    <2>2. UpTo(k) \in SUBSET UpTo(l)
      <3>1. \A m \in P : m <= k => m <= l
        <4> HIDE DEF UpTo, rank, card
        <4> QED
          BY <2>1
      <3> QED
        BY <3>1
    <2>3. l \in UpTo(l) /\ l \notin UpTo(k)
      BY <2>1
    <2> HIDE DEF UpTo
    <2> QED
      BY <1>2, <2>2, <2>3, FS_Subset
  <1>7. rank \in Injection(P, 1..card)
    <2>1. rank \in [P -> 1..card]
      BY <1>5
    <2>2. \A k, l \in P : k # l => k < l \/ l < k
      <3>1. \A k \in P : k \in Int
        OBVIOUS
      <3> HIDE DEF rank, card, UpTo
      <3> QED
        BY <3>1
    <2>3. \A k, l \in P : rank[k] = rank[l] => k = l
      BY <1>6, <2>2
    <2> HIDE DEF rank
    <2> QED
      BY <2>1, <2>3, Fun_IsInj
  <1>8. rank \in Surjection(P, 1..card)
    <2>1. IsFiniteSet(1..card) /\ Cardinality(1..card) = card
      BY <1>1, FS_Interval
    <2> HIDE DEF rank, card
    <2> QED
      BY <1>7, <2>1, FS_Injection DEF card
  <1>9. \A m \in 1..card : \E k \in P : rank[k] = m
    <2> HIDE DEF rank, card
    <2> QED
      BY <1>8, Fun_SurjectionProperties
  <1> QED
    BY <1>1, <1>5, <1>9

\* What is picked is what is at the places.
LEMMA PickedAreThePlaces ==
  ASSUME NEW n \in Nat, NEW P \in SUBSET (1..n), NEW seq
  PROVE  ToSet(Pick(seq, P)) = {seq[k] : k \in P}
  <1>1. \A m \in 1..Cardinality(P) : Nth(P, m) \in P
    BY Ranks DEF Nth
  <1>2. \A k \in P : \E m \in 1..Cardinality(P) : Nth(P, m) = k
    BY Ranks DEF Nth
  <1>3. ToSet(Pick(seq, P)) = {seq[Nth(P, m)] : m \in 1..Cardinality(P)}
    BY DEF Pick, ToSet
  <1> QED
    BY <1>1, <1>2, <1>3

-----------------------------------------------------------------------------
(* The verdict.                                                            *)

\* The percentage that the division truncates compares like the fraction.
LEMMA QuotientBounds ==
  ASSUME NEW a \in Int, NEW b \in Nat \ {0}
  PROVE  /\ Quotient(a, b) \in Int
         /\ Quotient(a, b) > 20 <=> a >= 21 * b
         /\ Quotient(a, b) < -10 <=> a <= (-11) * b
  <1>1. CASE a >= 0
    <2> DEFINE q == a \div b
    <2>1. q \in Int /\ q * b <= a /\ a < (q + 1) * b
      BY <1>1
    <2> QED
      BY <1>1, <2>1 DEF Quotient
  <1>2. CASE a < 0
    <2> DEFINE c == -a
    <2> DEFINE q == c \div b
    <2>1. q \in Int /\ q * b <= c /\ c < (q + 1) * b
      BY <1>2
    <2> QED
      BY <1>2, <2>1 DEF Quotient
  <1> QED
    BY <1>1, <1>2

\* The verdict on a latency, in terms of the fractions.
LEMMA VerdictBounds ==
  ASSUME NEW val \in Nat \ {0}, NEW prev \in Nat \ {0}
  PROVE  LET verdict == Verdict(Percent(val, prev))
         IN  /\ verdict \in {"regression", "improved", "stable"}
             /\ verdict = "regression" <=> val * 100 >= prev * 121
             /\ verdict = "improved" <=> val * 100 <= prev * 89
  <1> DEFINE a == (val - prev) * 100
  <1>1. a \in Int /\ Percent(val, prev) = Quotient(a, prev)
    BY DEF Percent
  <1>2. /\ Quotient(a, prev) \in Int
        /\ Quotient(a, prev) > 20 <=> a >= 21 * prev
        /\ Quotient(a, prev) < -10 <=> a <= (-11) * prev
    BY <1>1, QuotientBounds
  <1>3. a >= 21 * prev <=> val * 100 >= prev * 121
    OBVIOUS
  <1>4. a <= (-11) * prev <=> val * 100 <= prev * 89
    OBVIOUS
  <1> HIDE DEF a
  <1> QED
    BY <1>1, <1>2, <1>3, <1>4 DEF Verdict

-----------------------------------------------------------------------------
(* The inductive invariant.                                                *)

\* Places of the loops: what has been read, and how many cells are there.
LatencyRead(k, t) ==
  \/ pc \in {"compare", "done"}
  \/ k < idx
  \/ k = idx /\ t < key
  \/ k = idx /\ t = key /\ pc = "rule"

RuleRead(k, t) ==
  \/ pc \in {"compare", "done"}
  \/ k < idx
  \/ k = idx /\ t < key

CellsThere(t) ==
  IF pc = "done" \/ (pc = "compare" /\ t < key) THEN Len(files)
  ELSE IF pc = "compare" /\ t = key THEN idx - 1
  ELSE 0

\* A value for each run and test.
IsTable(table, n) == table = [k \in 1..n |-> [t \in Tests |-> table[k][t]]]

Shape ==
  /\ Len(files) \in Nat \ {0} /\ DOMAIN files = 1..Len(files)
  /\ \A k \in 1..Len(files) : IsResults(files[k])
  /\ pc \in {"latency", "rule", "compare", "done"}
  /\ idx \in 1..Len(files) /\ key \in Tests
  /\ IsTable(latency, Len(files))
  /\ IsTable(rule, Len(files))
  /\ report = [t \in Tests |-> report[t]]

\* A latency that was read is that of the first row of its test; only the
\* newest file may have changed since.
LatencyInv ==
  \A k \in 1..Len(files) : \A t \in Tests : LatencyRead(k, t) =>
    /\ latency[k][t] # Miss =>
         /\ latency[k][t] \in Nat \ {0}
         /\ \E row \in FirstRowOf(Text(files[k]), TestKeys[t]) : row.latency = latency[k][t]
    /\ k < Len(files) => latency[k][t] = ParseLatency(Text(files[k]), TestKeys[t])

\* The rule beside it comes from the same row.
RuleInv ==
  \A k \in 1..Len(files) : \A t \in Tests : RuleRead(k, t) /\ latency[k][t] # Miss =>
    \A row \in FirstRowOf(Text(files[k]), TestKeys[t]) : row.rule = rule[k][t]

\* prev_val after n runs: a latency, and that of run n if it has one.
GoodPrev(t, n, prev) ==
  /\ prev \in (Nat \ {0}) \cup {None}
  /\ n = 0 => prev = None
  /\ n > 0 /\ Alerted(t, n) => prev = latency[n][t]

CellValues == {"miss", "detected", "regression", "improved", "stable"}

GoodRow(row, t, n) ==
  /\ row = [prev |-> row.prev, trend |-> row.trend, cells |-> row.cells]
  /\ row.cells \in Seq(CellValues) /\ Len(row.cells) = n
  /\ GoodPrev(t, n, row.prev)
  /\ \A k \in 1..n : CellFollows(t, k, row.cells[k])
  /\ n > 0 => TrendFollows(t, n, row.cells, row.trend)

ReportInv == \A t \in Tests : GoodRow(report[t], t, CellsThere(t))

TrendInv == Shape /\ LatencyInv /\ RuleInv /\ ReportInv

-----------------------------------------------------------------------------
LEMMA TestsFacts == Len(TestKeys) \in Nat \ {0} /\ Tests = 1..Len(TestKeys)
  BY TestsAssumption DEF Tests

LEMMA InitInv == Init => TrendInv
  <1> SUFFICES ASSUME Init PROVE TrendInv
    OBVIOUS
  <1> USE DEF Init
  <1>1. Shape
    <2>1. files \in Seq(Range(files)) \ {<<>>} /\ \A k \in DOMAIN files : IsResults(files[k])
      BY HistoriesAssumption
    <2>2. Len(files) \in Nat \ {0} /\ DOMAIN files = 1..Len(files)
      BY <2>1
    <2> QED
      BY <2>1, <2>2, TestsFacts DEF Shape, IsTable
  <1>2. \A k \in 1..Len(files) : \A t \in Tests : ~LatencyRead(k, t) /\ ~RuleRead(k, t)
    BY <1>1, TestsFacts DEF LatencyRead, RuleRead, Shape
  <1>3. LatencyInv /\ RuleInv
    BY <1>2 DEF LatencyInv, RuleInv
  <1>4. ReportInv
    <2> SUFFICES ASSUME NEW t \in Tests PROVE GoodRow(NoRuns, t, 0)
      BY DEF ReportInv, CellsThere
    <2>1. /\ NoRuns = [prev |-> NoRuns.prev, trend |-> NoRuns.trend, cells |-> NoRuns.cells]
          /\ NoRuns.prev = None /\ NoRuns.trend = "stable" /\ NoRuns.cells = <<>>
      BY DEF NoRuns
    <2>2. <<>> \in Seq(CellValues) /\ Len(<<>>) = 0
      OBVIOUS
    <2>3. GoodPrev(t, 0, None)
      BY DEF GoodPrev
    <2> HIDE DEF NoRuns
    <2> QED
      BY <2>1, <2>2, <2>3 DEF GoodRow
  <1> QED
    BY <1>1, <1>3, <1>4 DEF TrendInv

\* A row is judged by the latencies that were read.
LEMMA GoodRowStays ==
  ASSUME latency' = latency, NEW row, NEW t, NEW n, GoodRow(row, t, n)
  PROVE  GoodRow(row, t, n)'
  <1>1. \A k, cell : CellFollows(t, k, cell)' <=> CellFollows(t, k, cell)
    BY DEF CellFollows, Alerted
  <1>2. \A prev : GoodPrev(t, n, prev)' <=> GoodPrev(t, n, prev)
    BY DEF GoodPrev, Alerted
  <1>3. \A cells, trend : TrendFollows(t, n, cells, trend)' <=> TrendFollows(t, n, cells, trend)
    BY DEF TrendFollows, Alerted
  <1> QED
    BY <1>1, <1>2, <1>3 DEF GoodRow

-----------------------------------------------------------------------------
(* The steps.                                                              *)

\* More of the newest file.
LEMMA GrowStep == TrendInv /\ Grow => TrendInv'
  <1> SUFFICES ASSUME TrendInv, Grow PROVE TrendInv'
    OBVIOUS
  <1> DEFINE last == Len(files)
  <1>1. /\ Len(files) \in Nat \ {0} /\ DOMAIN files = 1..Len(files)
        /\ \A k \in 1..Len(files) : IsResults(files[k])
    BY DEF TrendInv, Shape
  <1>2. /\ files' = [files EXCEPT ![last].there = @ + 1]
        /\ files[last].there < Len(files[last].lines)
        /\ UNCHANGED <<pc, idx, key, latency, rule, report>>
    BY DEF Grow
  <1>3. Len(files') = Len(files) /\ DOMAIN files' = 1..Len(files)
    BY <1>1, <1>2
  <1>4. \A k \in 1..Len(files) : k # last => files'[k] = files[k]
    BY <1>1, <1>2
  <1>5. /\ files'[last] = Results(files[last].lines, files[last].there + 1)
        /\ files'[last].lines = files[last].lines
        /\ files'[last].there = files[last].there + 1
    BY <1>1, <1>2 DEF IsResults, Results
  <1>6. IsResults(files'[last])
    <2>2. files[last].there + 1 \in 0..Len(files[last].lines)
      BY <1>1, <1>2, TextFacts DEF IsResults
    <2> QED
      BY <1>1, <1>5, <2>2 DEF IsResults
  <1>7. \A k \in 1..Len(files) : \A test :
          FirstRowOf(Text(files[k]), test) \subseteq FirstRowOf(Text(files'[k]), test)
    <2> SUFFICES ASSUME NEW k \in 1..Len(files), NEW test, k = last
                 PROVE  FirstRowOf(Text(files[k]), test) \subseteq FirstRowOf(Text(files'[k]), test)
      BY <1>4
    <2> DEFINE old == files[last]  new == files'[last]
    <2>1. old.there \in Nat /\ new.there \in Nat /\ old.there <= new.there
      BY <1>1, <1>5, TextFacts
    <2>2. /\ DOMAIN Text(old) = 1..old.there
          /\ \A n \in 1..old.there : Text(old)[n] = old.lines[n]
      BY <1>1, TextFacts
    <2>3. /\ DOMAIN Text(new) = 1..new.there
          /\ \A n \in 1..new.there : Text(new)[n] = old.lines[n]
      BY <1>5, <1>6, TextFacts
    <2>4. \A n \in 1..old.there : Text(old)[n] = Text(new)[n]
      BY <2>1, <2>2, <2>3
    <2> HIDE DEF old, new
    <2>5. FirstRowOf(Text(old), test) \subseteq FirstRowOf(Text(new), test)
      BY <2>1, <2>2, <2>3, <2>4, FirstRowStays
    <2> QED
      BY <2>5 DEF old, new
  <1>8. Shape'
    <2>1. \A k \in 1..Len(files) : IsResults(files'[k])
      BY <1>1, <1>4, <1>6
    <2> QED
      BY <1>2, <1>3, <2>1 DEF TrendInv, Shape
  <1>9. LatencyInv'
    <2> SUFFICES ASSUME NEW k \in 1..Len(files), NEW t \in Tests, LatencyRead(k, t)
                 PROVE  /\ latency[k][t] # Miss =>
                             /\ latency[k][t] \in Nat \ {0}
                             /\ \E row \in FirstRowOf(Text(files'[k]), TestKeys[t]) :
                                  row.latency = latency[k][t]
                        /\ k < Len(files) => latency[k][t] = ParseLatency(Text(files'[k]), TestKeys[t])
      BY <1>2, <1>3 DEF LatencyInv, LatencyRead
    <2>1. CASE latency[k][t] # Miss
      <3>1. /\ latency[k][t] \in Nat \ {0}
            /\ \E row \in FirstRowOf(Text(files[k]), TestKeys[t]) : row.latency = latency[k][t]
        BY <2>1 DEF TrendInv, LatencyInv
      <3> QED
        BY <1>4, <1>7, <3>1 DEF TrendInv, LatencyInv
    <2>2. CASE latency[k][t] = Miss
      <3> SUFFICES ASSUME k < Len(files)
                   PROVE  latency[k][t] = ParseLatency(Text(files'[k]), TestKeys[t])
        BY <2>2
      <3>1. latency[k][t] = ParseLatency(Text(files[k]), TestKeys[t])
        BY DEF TrendInv, LatencyInv
      <3>2. k # last
        <4>1. k \in Nat /\ Len(files) \in Nat
          BY <1>1
        <4> QED
          BY <4>1
      <3> QED
        BY <1>4, <3>1, <3>2
    <2> QED
      BY <2>1, <2>2
  <1>10. RuleInv'
    <2> SUFFICES ASSUME NEW k \in 1..Len(files), NEW t \in Tests, RuleRead(k, t), latency[k][t] # Miss,
                        NEW row \in FirstRowOf(Text(files'[k]), TestKeys[t])
                 PROVE  row.rule = rule[k][t]
      BY <1>2, <1>3 DEF RuleInv, RuleRead
    <2>1. LatencyRead(k, t)
      BY DEF RuleRead, LatencyRead
    <2>2. PICK first \in FirstRowOf(Text(files[k]), TestKeys[t]) : TRUE
      BY <2>1 DEF TrendInv, LatencyInv
    <2>3. first \in FirstRowOf(Text(files'[k]), TestKeys[t])
      BY <1>7, <2>2
    <2>4. IsResults(files'[k])
      BY <1>1, <1>4, <1>6
    <2>5. files'[k].there \in Nat /\ DOMAIN Text(files'[k]) = 1..files'[k].there
      BY <2>4, TextFacts DEF IsResults
    <2>6. first = row
      BY <2>3, <2>5, FirstRowIsOne
    <2> QED
      BY <2>2, <2>6 DEF TrendInv, RuleInv
  <1>11. ReportInv'
    <2> SUFFICES ASSUME NEW t \in Tests PROVE GoodRow(report[t], t, CellsThere(t))'
      BY DEF ReportInv
    <2>1. latency' = latency /\ report' = report /\ CellsThere(t)' = CellsThere(t)
      BY <1>2, <1>3 DEF CellsThere
    <2>2. GoodRow(report[t], t, CellsThere(t))
      BY DEF TrendInv, ReportInv
    <2> QED
      BY <2>1, <2>2, GoodRowStays
  <1> QED
    BY <1>8, <1>9, <1>10, <1>11 DEF TrendInv

\* What is read of a latency.
LEMMA ParseLatencyFacts ==
  ASSUME NEW file, IsResults(file), NEW test
  PROVE  LET got == ParseLatency(Text(file), test)
         IN  got # Miss =>
               /\ got \in Nat \ {0}
               /\ \E row \in FirstRowOf(Text(file), test) : row.latency = got
  <1> DEFINE first == FirstRowOf(Text(file), test)
             got   == ParseLatency(Text(file), test)
  <1> SUFFICES ASSUME got # Miss
               PROVE  got \in Nat \ {0} /\ \E row \in first : row.latency = got
    OBVIOUS
  <1>1. PICK row \in first : row.latency # None /\ row.latency > 0
    BY DEF ParseLatency
  <1>2. got = (CHOOSE r \in first : TRUE).latency
    BY <1>1 DEF ParseLatency
  <1>3. \A other \in first : other = row
    BY FirstRowIsOne, TextFacts DEF IsResults
  <1>4. (CHOOSE r \in first : TRUE) = row
    BY <1>1, <1>3
  <1>5. row.latency \in Nat
    BY <1>1, FirstRowOfText, FirstRowIsMeasured
  <1>6. got = row.latency
    BY <1>2, <1>4
  <1> HIDE DEF first, got
  <1> QED
    BY <1>1, <1>5, <1>6

\* What is read of a rule is that of the first row.
LEMMA ParseRuleFacts ==
  ASSUME NEW file, IsResults(file), NEW test, NEW row \in FirstRowOf(Text(file), test)
  PROVE  row.rule = ParseRule(Text(file), test)
  <1> DEFINE first == FirstRowOf(Text(file), test)
  <1>1. \A other \in first : other = row
    BY FirstRowIsOne, TextFacts
  <1>2. (CHOOSE r \in first : TRUE) = row
    BY <1>1
  <1>3. ParseRule(Text(file), test) = (CHOOSE r \in first : TRUE).rule
    BY DEF ParseRule
  <1> QED
    BY <1>2, <1>3

\* Changing one entry of a table.
With(table, i, j, got) == [table EXCEPT ![i][j] = got]

LEMMA OneEntry ==
  ASSUME NEW table, NEW n \in Nat, NEW i \in 1..n, NEW j \in Tests, NEW got,
         IsTable(table, n)
  PROVE  LET new == With(table, i, j, got)
         IN  /\ \A k \in 1..n : \A t \in Tests :
                  new[k][t] = IF k = i /\ t = j THEN got ELSE table[k][t]
             /\ IsTable(new, n)
  <1> DEFINE new == With(table, i, j, got)
  <1>1. \A k \in 1..n : table[k] = [t \in Tests |-> table[k][t]]
    BY DEF IsTable
  <1>2. new = [k \in 1..n |-> IF k = i THEN [table[i] EXCEPT ![j] = got] ELSE table[k]]
    BY DEF IsTable, With
  <1>3. \A k \in 1..n : new[k] = [t \in Tests |-> IF k = i /\ t = j THEN got ELSE table[k][t]]
    BY <1>1, <1>2
  <1>4. \A k \in 1..n : new[k] = [t \in Tests |-> new[k][t]]
    BY <1>3
  <1>5. new = [k \in 1..n |-> new[k]]
    BY <1>2
  <1>6. IsTable(new, n)
    BY <1>4, <1>5 DEF IsTable
  <1>7. \A k \in 1..n : \A t \in Tests :
          new[k][t] = IF k = i /\ t = j THEN got ELSE table[k][t]
    BY <1>3
  <1> QED
    BY <1>6, <1>7

LEMMA ReadLatencyStep == TrendInv /\ ReadLatency => TrendInv'
  <1> SUFFICES ASSUME TrendInv, ReadLatency PROVE TrendInv'
    OBVIOUS
  <1> DEFINE got == ParseLatency(Text(files[idx]), TestKeys[key])
  <1>1. Shape /\ LatencyInv /\ RuleInv /\ ReportInv
    BY DEF TrendInv
  <1>2. /\ pc = "latency" /\ pc' = "rule"
        /\ UNCHANGED <<files, idx, key, rule, report>>
        /\ latency' = [latency EXCEPT ![idx][key] = got]
    BY DEF ReadLatency
  <1>3. idx \in 1..Len(files) /\ key \in Tests /\ Len(files) \in Nat
    BY <1>1 DEF Shape
  <1>4. /\ \A k \in 1..Len(files) : \A t \in Tests :
             latency'[k][t] = IF k = idx /\ t = key THEN got ELSE latency[k][t]
        /\ IsTable(latency', Len(files))
    <2>1. IsTable(latency, Len(files))
      BY <1>1 DEF Shape
    <2>2. latency' = With(latency, idx, key, got)
      BY <1>2 DEF With
    <2> HIDE DEF got
    <2> QED
      BY <1>3, <2>1, <2>2, OneEntry
  <1> HIDE DEF got
  <1>5. Shape'
    BY <1>1, <1>2, <1>4 DEF Shape
  <1>6. \A k \in 1..Len(files) : \A t \in Tests :
          LatencyRead(k, t)' => LatencyRead(k, t) \/ (k = idx /\ t = key)
    BY <1>2, <1>3, TestsFacts DEF LatencyRead
  <1>7. LatencyInv'
    <2> SUFFICES ASSUME NEW k \in 1..Len(files), NEW t \in Tests, LatencyRead(k, t)'
                 PROVE  /\ latency'[k][t] # Miss =>
                             /\ latency'[k][t] \in Nat \ {0}
                             /\ \E row \in FirstRowOf(Text(files[k]), TestKeys[t]) :
                                  row.latency = latency'[k][t]
                        /\ k < Len(files) => latency'[k][t] = ParseLatency(Text(files[k]), TestKeys[t])
      BY <1>2 DEF LatencyInv
    <2>1. CASE k = idx /\ t = key
      <3>1. latency'[k][t] = got
        BY <1>4, <2>1
      <3>2. IsResults(files[k])
        BY <1>1 DEF Shape
      <3>3. got = ParseLatency(Text(files[k]), TestKeys[t])
        BY <2>1 DEF got
      <3> QED
        BY <3>1, <3>2, <3>3, ParseLatencyFacts
    <2>2. CASE ~(k = idx /\ t = key)
      <3>1. latency'[k][t] = latency[k][t] /\ LatencyRead(k, t)
        BY <1>4, <1>6, <2>2
      <3> QED
        BY <1>1, <3>1 DEF LatencyInv
    <2> QED
      BY <2>1, <2>2
  <1>8. RuleInv'
    <2> SUFFICES ASSUME NEW k \in 1..Len(files), NEW t \in Tests, RuleRead(k, t)', latency'[k][t] # Miss,
                        NEW row \in FirstRowOf(Text(files[k]), TestKeys[t])
                 PROVE  row.rule = rule[k][t]
      BY <1>2 DEF RuleInv
    <2>1. RuleRead(k, t) /\ ~(k = idx /\ t = key)
      BY <1>2, <1>3, TestsFacts DEF RuleRead
    <2>2. latency'[k][t] = latency[k][t]
      BY <1>4, <2>1
    <2> QED
      BY <1>1, <2>1, <2>2 DEF RuleInv
  <1>9. ReportInv'
    <2> SUFFICES ASSUME NEW t \in Tests PROVE GoodRow(report[t], t, 0)'
      BY <1>2 DEF ReportInv, CellsThere
    <2>1. GoodRow(report[t], t, 0)
      BY <1>1, <1>2 DEF ReportInv, CellsThere
    <2> QED
      BY <1>2, <2>1, TestsFacts DEF GoodRow, GoodPrev
  <1> QED
    BY <1>5, <1>7, <1>8, <1>9 DEF TrendInv

LEMMA ReadRuleStep == TrendInv /\ ReadRule => TrendInv'
  <1> SUFFICES ASSUME TrendInv, ReadRule PROVE TrendInv'
    OBVIOUS
  <1> DEFINE got == ParseRule(Text(files[idx]), TestKeys[key])
  <1>1. Shape /\ LatencyInv /\ RuleInv /\ ReportInv
    BY DEF TrendInv
  <1>2. /\ pc = "rule"
        /\ UNCHANGED <<files, latency, report>>
        /\ rule' = [rule EXCEPT ![idx][key] = got]
        /\ IF key < Len(TestKeys) THEN pc' = "latency" /\ key' = key + 1 /\ idx' = idx
           ELSE /\ key' = 1
                /\ IF idx < Len(files) THEN pc' = "latency" /\ idx' = idx + 1
                                       ELSE pc' = "compare" /\ idx' = 1
    BY DEF ReadRule
  <1>3. /\ idx \in 1..Len(files) /\ key \in Tests /\ Len(files) \in Nat \ {0}
        /\ Len(TestKeys) \in Nat \ {0} /\ Tests = 1..Len(TestKeys)
    BY <1>1, TestsFacts DEF Shape
  <1>4. /\ \A k \in 1..Len(files) : \A t \in Tests :
             rule'[k][t] = IF k = idx /\ t = key THEN got ELSE rule[k][t]
        /\ IsTable(rule', Len(files))
    <2>1. IsTable(rule, Len(files))
      BY <1>1 DEF Shape
    <2>2. rule' = With(rule, idx, key, got)
      BY <1>2 DEF With
    <2> HIDE DEF got
    <2> QED
      BY <1>3, <2>1, <2>2, OneEntry
  <1> HIDE DEF got
  <1>5. Shape'
    <2>1. idx' \in 1..Len(files) /\ key' \in Tests /\ pc' \in {"latency", "compare"}
      BY <1>2, <1>3
    <2> QED
      BY <1>1, <1>2, <1>4, <2>1 DEF Shape
  <1>6. \A k \in 1..Len(files) : \A t \in Tests :
          /\ LatencyRead(k, t)' => LatencyRead(k, t)
          /\ RuleRead(k, t)' => RuleRead(k, t) \/ (k = idx /\ t = key)
    BY <1>2, <1>3 DEF LatencyRead, RuleRead
  <1>7. LatencyInv'
    BY <1>1, <1>2, <1>6 DEF LatencyInv
  <1>8. RuleInv'
    <2> SUFFICES ASSUME NEW k \in 1..Len(files), NEW t \in Tests, RuleRead(k, t)', latency[k][t] # Miss,
                        NEW row \in FirstRowOf(Text(files[k]), TestKeys[t])
                 PROVE  row.rule = rule'[k][t]
      BY <1>2 DEF RuleInv
    <2>1. CASE k = idx /\ t = key
      <3>1. IsResults(files[k])
        BY <1>1 DEF Shape
      <3>2. row.rule = got
        BY <2>1, <3>1, ParseRuleFacts DEF got
      <3> QED
        BY <1>4, <2>1, <3>2
    <2>2. CASE ~(k = idx /\ t = key)
      BY <1>1, <1>4, <1>6, <2>2 DEF RuleInv
    <2> QED
      BY <2>1, <2>2
  <1>9. ReportInv'
    <2> SUFFICES ASSUME NEW t \in Tests PROVE GoodRow(report[t], t, 0)'
      BY <1>2, <1>3 DEF ReportInv, CellsThere
    <2>1. GoodRow(report[t], t, 0)
      BY <1>1, <1>2 DEF ReportInv, CellsThere
    <2> QED
      BY <1>2, <2>1 DEF GoodRow, GoodPrev
  <1> QED
    BY <1>5, <1>7, <1>8, <1>9 DEF TrendInv

\* A cell that fits what is there makes a good row one longer.
LongerRow(row, prev, trend, cell) ==
  [prev |-> prev, trend |-> trend, cells |-> Append(row.cells, cell)]

LEMMA GoodAppend ==
  ASSUME NEW t, NEW n \in Nat, NEW row, GoodRow(row, t, n),
         NEW prev, NEW trend, NEW cell \in CellValues,
         GoodPrev(t, n + 1, prev), CellFollows(t, n + 1, cell),
         ~Alerted(t, n + 1) => trend = "missed",
         n > 0 /\ Alerted(t, n + 1) /\ Alerted(t, n) => trend = cell
  PROVE  GoodRow(LongerRow(row, prev, trend, cell), t, n + 1)
  <1> DEFINE cells == Append(row.cells, cell)
             new == LongerRow(row, prev, trend, cell)
  <1>1. /\ row.cells \in Seq(CellValues) /\ Len(row.cells) = n
        /\ \A k \in 1..n : CellFollows(t, k, row.cells[k])
    BY DEF GoodRow
  <1>2. /\ cells \in Seq(CellValues) /\ Len(cells) = n + 1 /\ cells[n + 1] = cell
        /\ \A k \in 1..n : cells[k] = row.cells[k]
    BY <1>1
  <1>3. /\ new = [prev |-> new.prev, trend |-> new.trend, cells |-> new.cells]
        /\ new.prev = prev /\ new.trend = trend /\ new.cells = cells
    BY DEF LongerRow
  <1> HIDE DEF new, cells
  <1>4. TrendFollows(t, n + 1, cells, trend)
    <2>1. (n + 1) - 1 = n /\ (n + 1 > 1 => n > 0)
      OBVIOUS
    <2> QED
      BY <1>2, <2>1 DEF TrendFollows
  <1>5. \A k \in 1..(n + 1) : CellFollows(t, k, cells[k])
    <2> SUFFICES ASSUME NEW k \in 1..(n + 1) PROVE CellFollows(t, k, cells[k])
      OBVIOUS
    <2>1. CASE k = n + 1
      BY <1>2, <2>1
    <2>2. CASE k # n + 1
      <3>1. k \in 1..n
        BY <2>2
      <3> QED
        BY <1>1, <1>2, <3>1
    <2> QED
      BY <2>1, <2>2
  <1>6. GoodRow(new, t, n + 1)
    BY <1>2, <1>3, <1>4, <1>5 DEF GoodRow
  <1> QED
    BY <1>6 DEF new

\* One more cell.
LEMMA OneMoreCell ==
  ASSUME NEW t, NEW n \in Nat, NEW row, GoodRow(row, t, n),
         \A j \in 1..(n + 1) : latency[j][t] \in (Nat \ {0}) \cup {Miss}
  PROVE  GoodRow(Compare(row, latency[n + 1][t]), t, n + 1)
  <1> DEFINE val == latency[n + 1][t]
             new == Compare(row, val)
  <1>1. /\ row = [prev |-> row.prev, trend |-> row.trend, cells |-> row.cells]
        /\ GoodPrev(t, n, row.prev)
    BY DEF GoodRow
  <1>2. /\ val \in (Nat \ {0}) \cup {Miss} /\ Miss \notin Nat /\ None \notin Nat
        /\ Alerted(t, n + 1) <=> val # Miss
    BY MissAssumption DEF Alerted
  <1>3. (n + 1) - 1 = n /\ n + 1 > 0 /\ (n + 1 = 1 <=> n = 0) /\ (n + 1 > 1 <=> n > 0)
    OBVIOUS
  <1>4. \A prev, trend : \A cell \in CellValues :
          /\ GoodPrev(t, n + 1, prev) /\ CellFollows(t, n + 1, cell)
          /\ ~Alerted(t, n + 1) => trend = "missed"
          /\ n > 0 /\ Alerted(t, n + 1) /\ Alerted(t, n) => trend = cell
          => GoodRow(LongerRow(row, prev, trend, cell), t, n + 1)
    BY GoodAppend
  <1> SUFFICES GoodRow(new, t, n + 1)
    OBVIOUS
  <1>5. CASE val = Miss
    <2>1. new = LongerRow(row, row.prev, "missed", "miss")
      BY <1>1, <1>5 DEF Compare, LongerRow
    <2>2. GoodPrev(t, n + 1, row.prev)
      BY <1>1, <1>2, <1>3, <1>5 DEF GoodPrev
    <2>3. CellFollows(t, n + 1, "miss")
      BY <1>2, <1>5 DEF CellFollows
    <2> HIDE DEF new, val
    <2> QED
      BY <1>2, <1>4, <1>5, <2>1, <2>2, <2>3 DEF CellValues
  <1>6. CASE val # Miss /\ row.prev = None
    <2>1. ~(n > 0 /\ Alerted(t, n))
      <3> SUFFICES ASSUME n > 0, Alerted(t, n) PROVE FALSE
        OBVIOUS
      <3>1. None = latency[n][t]
        BY <1>1, <1>6 DEF GoodPrev
      <3>2. latency[n][t] \in Nat \cup {Miss} /\ latency[n][t] # Miss
        BY DEF Alerted
      <3> QED
        BY <1>2, <3>1, <3>2
    <2>2. new = LongerRow(row, val, row.trend, "detected")
      BY <1>1, <1>6 DEF Compare, LongerRow
    <2>3. GoodPrev(t, n + 1, val)
      BY <1>2, <1>3, <1>6 DEF GoodPrev
    <2>4. CellFollows(t, n + 1, "detected")
      BY <1>2, <1>3, <1>6, <2>1 DEF CellFollows
    <2> HIDE DEF new, val
    <2> QED
      BY <1>2, <1>4, <1>6, <2>1, <2>2, <2>3, <2>4 DEF CellValues
  <1>7. CASE val # Miss /\ row.prev # None
    <2> DEFINE verdict == Verdict(Percent(val, row.prev))
    <2>1. row.prev \in Nat \ {0} /\ val \in Nat \ {0} /\ n > 0
      BY <1>1, <1>2, <1>7 DEF GoodPrev
    <2>2. /\ verdict \in {"regression", "improved", "stable"}
          /\ verdict = "regression" <=> val * 100 >= row.prev * 121
          /\ verdict = "improved" <=> val * 100 <= row.prev * 89
      BY <2>1, VerdictBounds
    <2>3. new = LongerRow(row, val, verdict, verdict)
      BY <1>1, <1>7 DEF Compare, LongerRow
    <2> HIDE DEF verdict
    <2>4. GoodPrev(t, n + 1, val)
      BY <1>2, <1>3, <1>7 DEF GoodPrev
    <2>5. CellFollows(t, n + 1, verdict)
      <3>1. Alerted(t, n) => row.prev = latency[n][t]
        BY <1>1, <2>1 DEF GoodPrev
      <3>2. val * 100 >= row.prev * 121 => val * 100 > row.prev * 120
        BY <2>1
      <3>3. val * 100 <= row.prev * 89 => val * 100 < row.prev * 90
        BY <2>1
      <3> QED
        BY <1>2, <1>3, <1>7, <2>1, <2>2, <3>1, <3>2, <3>3 DEF CellFollows
    <2> HIDE DEF new, val
    <2> QED
      BY <1>2, <1>4, <1>7, <2>2, <2>3, <2>4, <2>5 DEF CellValues
  <1> QED
    BY <1>5, <1>6, <1>7

LEMMA CompareRunStep == TrendInv /\ CompareRun => TrendInv'
  <1> SUFFICES ASSUME TrendInv, CompareRun PROVE TrendInv'
    OBVIOUS
  <1>1. Shape /\ LatencyInv /\ RuleInv /\ ReportInv
    BY DEF TrendInv
  <1>2. /\ pc = "compare"
        /\ UNCHANGED <<files, latency, rule>>
        /\ report' = [report EXCEPT ![key] = Compare(report[key], latency[idx][key])]
        /\ IF idx < Len(files) THEN idx' = idx + 1 /\ UNCHANGED <<pc, key>>
           ELSE /\ idx' = 1
                /\ IF key < Len(TestKeys) THEN key' = key + 1 /\ pc' = pc
                                          ELSE key' = 1 /\ pc' = "done"
    BY DEF CompareRun
  <1>3. /\ idx \in 1..Len(files) /\ key \in Tests /\ Len(files) \in Nat \ {0}
        /\ Len(TestKeys) \in Nat \ {0} /\ Tests = 1..Len(TestKeys)
        /\ report = [t \in Tests |-> report[t]]
    BY <1>1, TestsFacts DEF Shape
  <1>4. \A t \in Tests :
          report'[t] = IF t = key THEN Compare(report[key], latency[idx][key]) ELSE report[t]
    BY <1>2, <1>3
  <1>5. Shape'
    <2>1. idx' \in 1..Len(files) /\ key' \in Tests /\ pc' \in {"compare", "done"}
      BY <1>2, <1>3
    <2>2. report' = [t \in Tests |-> report'[t]]
      BY <1>2, <1>3
    <2> QED
      BY <1>1, <1>2, <2>1, <2>2 DEF Shape
  <1>6. LatencyInv' /\ RuleInv'
    BY <1>1, <1>2 DEF LatencyInv, RuleInv, LatencyRead, RuleRead
  <1>7. ReportInv'
    <2> SUFFICES ASSUME NEW t \in Tests PROVE GoodRow(report[t], t, CellsThere(t))'
      BY DEF ReportInv
    <2>1. \A row, n : GoodRow(row, t, n) => GoodRow(row, t, n)'
      BY <1>2, GoodRowStays
    <2>2. GoodRow(report[t], t, CellsThere(t))
      BY <1>1 DEF ReportInv
    <2>3. CASE t = key
      <3>1. CellsThere(t) = idx - 1 /\ CellsThere(t)' = idx
        BY <1>2, <1>3, <2>3 DEF CellsThere
      <3>2. \A j \in 1..idx : latency[j][t] \in (Nat \ {0}) \cup {Miss}
        BY <1>1, <1>2, <1>3 DEF LatencyInv, LatencyRead
      <3>3. idx - 1 \in Nat /\ (idx - 1) + 1 = idx
        BY <1>3
      <3>4. GoodRow(Compare(report[t], latency[idx][t]), t, idx)
        BY <2>2, <3>1, <3>2, <3>3, OneMoreCell
      <3> QED
        BY <1>4, <2>1, <2>3, <3>1, <3>4
    <2>4. CASE t # key
      <3>1. CellsThere(t)' = CellsThere(t)
        BY <1>2, <1>3, <2>4 DEF CellsThere
      <3> QED
        BY <1>4, <2>1, <2>2, <2>4, <3>1
    <2> QED
      BY <2>3, <2>4
  <1> QED
    BY <1>5, <1>6, <1>7 DEF TrendInv

LEMMA TrendAlways == Spec => []TrendInv
  <1>1. TrendInv /\ [Next]_vars => TrendInv'
    <2> SUFFICES ASSUME TrendInv, [Next]_vars PROVE TrendInv'
      OBVIOUS
    <2>1. CASE UNCHANGED vars
      <3>1. UNCHANGED <<files, pc, idx, key, latency, rule, report>>
        BY <2>1 DEF vars
      <3>2. Shape'
        BY <3>1 DEF TrendInv, Shape, IsTable
      <3>3. LatencyInv' /\ RuleInv'
        BY <3>1 DEF TrendInv, LatencyInv, LatencyRead, RuleInv, RuleRead
      <3>4. ReportInv'
        <4>1. \A t : CellsThere(t)' = CellsThere(t)
          BY <3>1 DEF CellsThere
        <4> QED
          BY <3>1, <4>1, GoodRowStays DEF TrendInv, ReportInv
      <3> QED
        BY <3>2, <3>3, <3>4 DEF TrendInv
    <2> QED
      BY <2>1, GrowStep, ReadLatencyStep, ReadRuleStep, CompareRunStep DEF Next
  <1> QED
    BY <1>1, InitInv, PTL DEF Spec

\* What the table says of two detections in a row follows from their
\* latencies, and its trend from the last two, for any number of runs and
\* tests and any misses between (compare-runs.sh: the loop over the runs).
THEOREM TableIsRight == Spec => []TableFollowsLatencies
  <1>1. TrendInv => TableFollowsLatencies
    <2> SUFFICES ASSUME TrendInv, NEW t \in Tests
                 PROVE  LET cells == report[t].cells
                        IN  /\ \A k \in DOMAIN cells : CellFollows(t, k, cells[k])
                            /\ pc = "done" =>
                                 /\ Len(cells) = Len(files)
                                 /\ TrendFollows(t, Len(files), cells, report[t].trend)
      BY DEF TableFollowsLatencies
    <2>1. GoodRow(report[t], t, CellsThere(t))
      BY DEF TrendInv, ReportInv
    <2>2. DOMAIN report[t].cells = 1..CellsThere(t)
      BY <2>1 DEF GoodRow
    <2>3. Len(files) > 0
      BY DEF TrendInv, Shape
    <2>4. pc = "done" => CellsThere(t) = Len(files)
      BY DEF CellsThere
    <2> QED
      BY <2>1, <2>2, <2>3, <2>4 DEF GoodRow
  <1> QED
    BY <1>1, TrendAlways, PTL

\* A detection is shown with the rule and the latency of one row, however the
\* file grows between the two reads (compare-runs.sh: parse_latency, parse_rule).
THEOREM DetectionsNameTheirRules == Spec => []DetectionNamesItsRule
  <1>1. TrendInv => DetectionNamesItsRule
    <2> SUFFICES ASSUME TrendInv, pc \in {"compare", "done"},
                        NEW k \in DOMAIN files, NEW t \in Tests, latency[k][t] # Miss
                 PROVE  /\ rule[k][t] # None
                        /\ \E row \in FirstRowOf(files[k].lines, TestKeys[t]) :
                             row.rule = rule[k][t] /\ row.latency = latency[k][t]
      BY DEF DetectionNamesItsRule
    <2>1. k \in 1..Len(files) /\ IsResults(files[k]) /\ LatencyRead(k, t) /\ RuleRead(k, t)
      BY DEF TrendInv, Shape, LatencyRead, RuleRead
    <2>2. /\ latency[k][t] \in Nat
          /\ \E row \in FirstRowOf(Text(files[k]), TestKeys[t]) : row.latency = latency[k][t]
      BY <2>1 DEF TrendInv, LatencyInv
    <2>3. PICK row \in FirstRowOf(Text(files[k]), TestKeys[t]) : row.latency = latency[k][t]
      BY <2>2
    <2>4. row.rule = rule[k][t]
      BY <2>1, <2>3 DEF TrendInv, RuleInv
    <2>5. row \in FirstRowOf(files[k].lines, TestKeys[t])
      BY <2>1, FirstRowOfText
    <2>6. row.rule # None
      BY <2>1, <2>2, <2>3, <2>5, FirstRowIsMeasured, MissAssumption
    <2> QED
      BY <2>3, <2>4, <2>5, <2>6
  <1> QED
    BY <1>1, TrendAlways, PTL

\* The rows of a test in the HTML report.
IsShown(file, k, test) ==
  /\ IsRowOf(file.lines[k], test)
  /\ file.lines[k].cells.result # "**NOT DETECTED**"
  /\ file.lines[k].cells.latency # None

RowsShown(file, test) ==
  {row \in ToSet(ParseDetectionResults(Text(file))) : row.test = test}

LEMMA RowsOfTheReport ==
  ASSUME NEW file, IsResults(file), NEW test
  PROVE  \A row : row \in RowsShown(file, test) <=>
                    \E k \in 1..file.there : IsShown(file, k, test) /\ row = file.lines[k].cells
  <1> DEFINE lines == Text(file)
             cells == [k \in DOMAIN lines |-> lines[k].cells]
             places == {k \in RowPlaces(lines) : /\ lines[k].cells.result # "**NOT DETECTED**"
                                                 /\ lines[k].cells.latency # None}
             shown == ToSet(ParseDetectionResults(lines))
  <1>1. /\ file.there \in Nat /\ DOMAIN lines = 1..file.there
        /\ \A k \in 1..file.there : lines[k] = file.lines[k]
    BY TextFacts
  <1>2. places \in SUBSET (1..file.there)
    BY <1>1 DEF RowPlaces
  <1>3. shown = {cells[k] : k \in places}
    <2>1. ParseDetectionResults(lines) = Pick(cells, places)
      BY DEF ParseDetectionResults, CellsAt
    <2> HIDE DEF places, cells, lines
    <2> QED
      BY <1>1, <1>2, <2>1, PickedAreThePlaces
  <1>4. \A k \in places : cells[k] = file.lines[k].cells
    BY <1>1, <1>2
  <1>5. \A k \in 1..file.there :
          IsShown(file, k, test) <=> k \in places /\ file.lines[k].cells.test = test
    BY <1>1 DEF RowPlaces, IsShown, IsRowOf
  <1>6. RowsShown(file, test) = {row \in shown : row.test = test}
    BY DEF RowsShown
  <1> HIDE DEF places, cells, lines, shown
  <1> QED
    BY <1>2, <1>3, <1>4, <1>5, <1>6

\* A test that was measured once has one row.
LEMMA OnceMeansOneRow ==
  ASSUME NEW n \in Nat, NEW lines, DOMAIN lines = 1..n, NEW test,
         Cardinality({i \in DOMAIN lines : IsRowOf(lines[i], test)}) = 1
  PROVE  \E k \in 1..n : \A i \in 1..n : IsRowOf(lines[i], test) <=> i = k
  <1> DEFINE at == {i \in 1..n : IsRowOf(lines[i], test)}
  <1>1. IsFiniteSet(at)
    <2>1. IsFiniteSet(1..n) /\ at \in SUBSET (1..n)
      BY FS_Interval
    <2> QED
      BY <2>1, FS_Subset
  <1>2. Cardinality(at) = 1
    OBVIOUS
  <1>3. \A i \in 1..n : i \in at <=> IsRowOf(lines[i], test)
    OBVIOUS
  <1>4. at \subseteq 1..n
    OBVIOUS
  <1> HIDE DEF at
  <1>5. PICK k : at = {k}
    BY <1>1, <1>2, FS_Singleton
  <1> QED
    BY <1>3, <1>4, <1>5

\* The shell script and the HTML report take a test that was measured once for
\* detected on the same grounds (compare-runs.sh: parse_latency;
\* evidence_parser.py: _parse_detection_results).
THEOREM ReadersReadTheSame == Spec => []ReadersAgree
  <1>1. TrendInv => ReadersAgree
    <2> SUFFICES ASSUME TrendInv, pc \in {"compare", "done"},
                        NEW k \in DOMAIN files, NEW t \in Tests,
                        Cardinality({i \in DOMAIN files[k].lines : IsRowOf(files[k].lines[i], TestKeys[t])}) = 1
                 PROVE  LET rows == RowsShown(files[k], TestKeys[t])
                        IN  /\ latency[k][t] # Miss => {row.latency : row \in rows} = {latency[k][t]}
                            /\ latency[k][t] = Miss /\ k < Len(files)
                                 => {row.latency : row \in rows} \subseteq {0}
      BY DEF ReadersAgree, RowsShown
    <2> DEFINE file == files[k]
               test == TestKeys[t]
    <2>1. k \in 1..Len(files) /\ IsResults(file) /\ LatencyRead(k, t)
      BY DEF TrendInv, Shape, LatencyRead
    <2>2. /\ latency[k][t] # Miss =>
               /\ latency[k][t] \in Nat
               /\ \E row \in FirstRowOf(Text(file), test) : row.latency = latency[k][t]
          /\ k < Len(files) => latency[k][t] = ParseLatency(Text(file), test)
      BY <2>1 DEF TrendInv, LatencyInv
    <2>3. /\ Len(file.lines) \in Nat /\ DOMAIN file.lines = 1..Len(file.lines)
          /\ file.there \in Nat /\ file.there <= Len(file.lines)
          /\ DOMAIN Text(file) = 1..file.there
          /\ \A i \in 1..file.there : Text(file)[i] = file.lines[i]
      BY <2>1, TextFacts
    <2>4. PICK i \in 1..Len(file.lines) :
            \A j \in 1..Len(file.lines) : IsRowOf(file.lines[j], test) <=> j = i
      BY <2>3, OnceMeansOneRow
    <2>5. \A row : row \in RowsShown(file, test) <=>
                     \E j \in 1..file.there : IsShown(file, j, test) /\ row = file.lines[j].cells
      BY <2>1, RowsOfTheReport
    <2>6. \A j \in 1..file.there : IsShown(file, j, test) => j = i
      <3> SUFFICES ASSUME NEW j \in 1..file.there, IsRowOf(file.lines[j], test)
                   PROVE  j = i
        BY DEF IsShown
      <3>1. j \in 1..Len(file.lines)
        BY <2>3
      <3> QED
        BY <2>4, <3>1
    <2>7. \A row \in FirstRowOf(Text(file), test) : i \in 1..file.there /\ row = file.lines[i].cells
      BY <2>3, <2>4 DEF FirstRowOf
    <2>8. i \in 1..file.there => file.lines[i].cells \in FirstRowOf(Text(file), test)
      <3> SUFFICES ASSUME i \in 1..file.there
                   PROVE  /\ IsRowOf(Text(file)[i], test)
                          /\ \A j \in 1..(i - 1) : ~IsRowOf(Text(file)[j], test)
        BY <2>3 DEF FirstRowOf
      <3> QED
        BY <2>3, <2>4
    <2>9. /\ IsRowOf(file.lines[i], test)
          /\ file.lines[i].cells.latency \in Nat \cup {None}
          /\ file.lines[i].cells.latency # None => file.lines[i].cells.result # "**NOT DETECTED**"
      BY <2>1, <2>3, <2>4 DEF IsResults, RowsAreMeasured, IsRowOf
    <2> HIDE DEF file, test
    <2>10. CASE latency[k][t] # Miss
      <3>1. i \in 1..file.there /\ file.lines[i].cells.latency = latency[k][t]
        BY <2>2, <2>7, <2>10
      <3>2. IsShown(file, i, test)
        BY <2>2, <2>9, <2>10, <3>1, MissAssumption DEF IsShown
      <3>3. RowsShown(file, test) = {file.lines[i].cells}
        BY <2>5, <2>6, <3>1, <3>2
      <3> QED
        BY <2>10, <3>1, <3>3 DEF file, test
    <2>11. CASE latency[k][t] = Miss
      <3> SUFFICES ASSUME k < Len(files), NEW j \in 1..file.there, IsShown(file, j, test)
                   PROVE  file.lines[j].cells.latency = 0
        BY <2>5, <2>11 DEF file, test
      <3>1. j = i /\ file.lines[i].cells.latency \in Nat /\ file.lines[i].cells \in FirstRowOf(Text(file), test)
        BY <2>6, <2>8, <2>9 DEF IsShown
      <3> SUFFICES ASSUME file.lines[i].cells.latency > 0 PROVE FALSE
        BY <3>1
      <3>2. ParseLatency(Text(file), test) = (CHOOSE row \in FirstRowOf(Text(file), test) : TRUE).latency
        <4>1. \E row \in FirstRowOf(Text(file), test) :
                row.result # "**NOT DETECTED**" /\ row.latency # None /\ row.latency > 0
          <5> DEFINE row == file.lines[i].cells
          <5>1. row \in FirstRowOf(Text(file), test) /\ row.latency > 0 /\ row.latency \in Nat
            BY <3>1
          <5>2. row.latency # None
            BY <5>1, MissAssumption
          <5>3. row.result # "**NOT DETECTED**"
            BY <2>9, <5>2
          <5> QED
            BY <5>1, <5>2, <5>3
        <4> QED
          BY <4>1 DEF ParseLatency
      <3>3. (CHOOSE row \in FirstRowOf(Text(file), test) : TRUE) = file.lines[i].cells
        BY <2>7, <3>1
      <3> QED
        BY <2>2, <2>11, <3>1, <3>2, <3>3, MissAssumption
    <2> QED
      BY <2>10, <2>11
  <1> QED
    BY <1>1, TrendAlways, PTL
=============================================================================
