-------------------------------- MODULE Trend --------------------------------
(***************************************************************************)
(* compare-runs.sh: the results of earlier measurements side by side, with *)
(* a verdict on how the latency of each test changes.  The newest file may *)
(* still be growing while it is read, and a measurement that was killed    *)
(* has left its file short.                                                *)
(***************************************************************************)
EXTENDS Evidence

CONSTANTS
  Miss,       \* what parse_latency prints for a test that was not detected
  TestKeys,   \* TEST_KEYS, by the name their rows begin with
  Histories   \* bound: the sequences of files there may be, oldest first

\* A file has its lines when it is finished, and how many of them are there:
\* echo writes whole lines.
Results(lines, n) == [lines |-> lines, there |-> n]
Text(file) == SubSeq(file.lines, 1, file.there)

\* Rows as measure-detection.sh writes them: a latency is a number of seconds
\* or none (`>180 s', a dash), and a row with a latency names the rule that fired.
RowsAreMeasured(lines) ==
  \A k \in DOMAIN lines : lines[k].tag = "row" =>
    /\ lines[k].cells.latency \in Nat \cup {None}
    /\ lines[k].cells.latency # None =>
         /\ lines[k].cells.rule # None /\ lines[k].cells.result # "**NOT DETECTED**"

IsResults(file) ==
  /\ file = Results(file.lines, file.there)
  /\ file.lines \in Seq(Range(file.lines))
  /\ file.there \in 0..Len(file.lines)
  /\ RowsAreMeasured(file.lines)

ASSUME HistoriesAssumption ==
  \A files \in Histories :
    /\ files \in Seq(Range(files)) \ {<<>>}
    /\ \A k \in DOMAIN files : IsResults(files[k])
ASSUME TestsAssumption == TestKeys \in Seq(Range(TestKeys)) \ {<<>>}
ASSUME MissAssumption == Miss # None /\ None \notin Nat /\ Miss \notin Nat

VARIABLES
  files,     \* detection-results_*.md, in the order of their names
  pc,        \* where the script is: reading a latency or a rule, or comparing
  idx, key,  \* the run and the test of the loops
  latency,   \* LATENCY: of run idx and test key
  rule,      \* RULE_FIRED
  report     \* the rows of the table, by test: prev_val, overall_trend, cells

vars == <<files, pc, idx, key, latency, rule, report>>

Tests == DOMAIN TestKeys

-----------------------------------------------------------------------------
(* Reading.                                                                *)

IsRowOf(line, test) == line.tag = "row" /\ line.cells.test = test

\* grep | head -1: the first row of the test, as a set of at most one.
FirstRowOf(lines, test) ==
  {lines[k].cells : k \in {i \in DOMAIN lines : /\ IsRowOf(lines[i], test)
                                               /\ \A j \in 1..(i - 1) : ~IsRowOf(lines[j], test)}}

ParseLatency(lines, test) ==
  IF \E row \in FirstRowOf(lines, test) :
       row.result # "**NOT DETECTED**" /\ row.latency # None /\ row.latency > 0
  THEN (CHOOSE row \in FirstRowOf(lines, test) : TRUE).latency
  ELSE Miss

\* Mutant: the last row of the test is taken.
ParseRuleOfLast(lines, test) ==
  LET at == {k \in DOMAIN lines : IsRowOf(lines[k], test)}
  IN  IF at = {} THEN None ELSE lines[Max(at)].cells.rule

\* The column of a row without a rule holds a dash, as does the report where
\* there is no row.
ParseRule(lines, test) ==
  IF FirstRowOf(lines, test) = {} THEN None
  ELSE (CHOOSE row \in FirstRowOf(lines, test) : TRUE).rule

-----------------------------------------------------------------------------
(* The row of a test.                                                      *)

\* Division of the shell, which truncates.
Quotient(a, b) == IF a >= 0 THEN a \div b ELSE -((-a) \div b)

Percent(val, prev) == IF prev > 0 THEN Quotient((val - prev) * 100, prev) ELSE 0

Verdict(pct) ==
  IF pct > 20 THEN "regression" ELSE IF pct < -10 THEN "improved" ELSE "stable"

\* Mutant: every run is compared with the first one that detected the attack.
CompareWithFirst(row, val) ==
  IF val = Miss
  THEN [row EXCEPT !.trend = "missed", !.cells = Append(@, "miss")]
  ELSE IF row.prev = None
  THEN [row EXCEPT !.prev = val, !.cells = Append(@, "detected")]
  ELSE LET verdict == Verdict(Percent(val, row.prev))
       IN  [row EXCEPT !.trend = verdict, !.cells = Append(@, verdict)]

\* One more run: the latency is compared with that of the last run that
\* detected the attack.
Compare(row, val) ==
  IF val = Miss
  THEN [row EXCEPT !.trend = "missed", !.cells = Append(@, "miss")]
  ELSE IF row.prev = None
  THEN [row EXCEPT !.prev = val, !.cells = Append(@, "detected")]
  ELSE LET verdict == Verdict(Percent(val, row.prev))
       IN  [prev |-> val, trend |-> verdict, cells |-> Append(row.cells, verdict)]

NoRuns == [prev |-> None, trend |-> "stable", cells |-> <<>>]

-----------------------------------------------------------------------------
Init ==
  /\ files \in Histories
  /\ pc = "latency" /\ idx = 1 /\ key = 1
  /\ latency = [k \in DOMAIN files |-> [t \in Tests |-> None]]
  /\ rule = [k \in DOMAIN files |-> [t \in Tests |-> None]]
  /\ report = [t \in Tests |-> NoRuns]

\* The measurement under way writes more of the newest file.
Grow ==
  LET last == Len(files)
  IN  /\ files[last].there < Len(files[last].lines)
      /\ files' = [files EXCEPT ![last].there = @ + 1]
      /\ UNCHANGED <<pc, idx, key, latency, rule, report>>

ReadLatency ==
  /\ pc = "latency"
  /\ latency' = [latency EXCEPT ![idx][key] = ParseLatency(Text(files[idx]), TestKeys[key])]
  /\ pc' = "rule"
  /\ UNCHANGED <<files, idx, key, rule, report>>

\* The next test of the run, the first one of the next run, or the table.
ReadRule ==
  /\ pc = "rule"
  /\ rule' = [rule EXCEPT ![idx][key] = ParseRule(Text(files[idx]), TestKeys[key])]
  /\ IF key < Len(TestKeys) THEN pc' = "latency" /\ key' = key + 1 /\ idx' = idx
     ELSE /\ key' = 1
          /\ IF idx < Len(files) THEN pc' = "latency" /\ idx' = idx + 1
                                 ELSE pc' = "compare" /\ idx' = 1
  /\ UNCHANGED <<files, latency, report>>

\* One cell of the table.
CompareRun ==
  /\ pc = "compare"
  /\ report' = [report EXCEPT ![key] = Compare(@, latency[idx][key])]
  /\ IF idx < Len(files) THEN idx' = idx + 1 /\ UNCHANGED <<pc, key>>
     ELSE /\ idx' = 1
          /\ IF key < Len(TestKeys) THEN key' = key + 1 /\ pc' = pc
                                    ELSE key' = 1 /\ pc' = "done"
  /\ UNCHANGED <<files, latency, rule>>

Next == Grow \/ ReadLatency \/ ReadRule \/ CompareRun

Spec == Init /\ [][Next]_vars

-----------------------------------------------------------------------------
(* Properties.                                                             *)

Alerted(t, k) == latency[k][t] # Miss

\* Of two runs in a row that detected the attack, the second is a regression
\* only if it is slower by more than a fifth, and certainly if by 21 percent;
\* improved only if faster by more than a tenth, and certainly if by 11.
CellFollows(t, k, cell) ==
  LET val  == latency[k][t]
      prev == latency[k - 1][t]
  IN  /\ cell = "miss" <=> ~Alerted(t, k)
      /\ k = 1 /\ Alerted(t, k) => cell = "detected"
      /\ k > 1 /\ Alerted(t, k) /\ Alerted(t, k - 1) =>
           /\ cell \in {"regression", "improved", "stable"}
           /\ cell = "regression" => val * 100 > prev * 120
           /\ cell = "improved" => val * 100 < prev * 90
           /\ val * 100 >= prev * 121 => cell = "regression"
           /\ val * 100 <= prev * 89 => cell = "improved"

\* The trend of n runs: that of the last two where both detected the attack.
TrendFollows(t, n, cells, trend) ==
  /\ ~Alerted(t, n) => trend = "missed"
  /\ n > 1 /\ Alerted(t, n) /\ Alerted(t, n - 1) => trend = cells[n]

\* Where the text of the report and its loop agree, the table says of every
\* test what the latencies say: every miss is a miss, a verdict on a pair of
\* detections follows their latencies within a percent, however long the
\* history before them, and the trend is the verdict on the last pair
\* (compare-runs.sh: prev_val, overall_trend).
TableFollowsLatencies ==
  \A t \in Tests :
    LET cells == report[t].cells
    IN  /\ \A k \in DOMAIN cells : CellFollows(t, k, cells[k])
        /\ pc = "done" => /\ Len(cells) = Len(files)
                          /\ TrendFollows(t, Len(files), cells, report[t].trend)

\* A test that is shown as detected is shown with the rule that fired, also
\* if its row was being written between the two reads (parse_latency and
\* parse_rule read the file one after the other).
DetectionNamesItsRule ==
  pc \in {"compare", "done"} => \A k \in DOMAIN files : \A t \in Tests : latency[k][t] # Miss =>
    /\ rule[k][t] # None
    /\ \E row \in FirstRowOf(files[k].lines, TestKeys[t]) :
         row.rule = rule[k][t] /\ row.latency = latency[k][t]

\* The two programs that read a result file agree: a test measured once is
\* detected here exactly if it is in the rows of the HTML report, with one
\* latency, unless that is zero or the file has grown since
\* (compare-runs.sh: parse_latency; evidence_parser.py: _parse_detection_results).
ReadersAgree ==
  pc \in {"compare", "done"} => \A k \in DOMAIN files : \A t \in Tests :
    LET lines == files[k].lines
        once  == Cardinality({i \in DOMAIN lines : IsRowOf(lines[i], TestKeys[t])}) = 1
        rows  == {row \in ToSet(ParseDetectionResults(Text(files[k]))) : row.test = TestKeys[t]}
    IN  once =>
          /\ latency[k][t] # Miss => {row.latency : row \in rows} = {latency[k][t]}
          /\ latency[k][t] = Miss /\ k < Len(files) => {row.latency : row \in rows} \subseteq {0}

-----------------------------------------------------------------------------
(* What the script says of its report, and the report does not keep: each  *)
(* of these has a configuration that finds it violated.                    *)

\* "regression (>20% slower than previous run)": the percentage is truncated
\* before it is compared, so the verdict starts at 21 percent.
RegressionAboveAFifth ==
  \A t \in Tests : \A k \in DOMAIN report[t].cells \ {1} :
    Alerted(t, k) /\ Alerted(t, k - 1) /\ latency[k][t] * 100 > latency[k - 1][t] * 120 =>
      report[t].cells[k] = "regression"

\* "vs the immediately preceding run": prev_val outlives the runs that missed
\* the attack.
ComparedWithPrecedingRun ==
  \A t \in Tests : \A k \in DOMAIN report[t].cells \ {1} :
    ~Alerted(t, k - 1) => report[t].cells[k] \in {"miss", "detected"}

\* "Trend column reflects the most recent pair of runs only": two tests that
\* went alike in the last two runs have one trend.
TrendIsOfLastPair ==
  LET n == Len(files)
  IN  pc = "done" /\ n > 1 => \A t, u \in Tests :
        latency[n - 1][t] = latency[n - 1][u] /\ latency[n][t] = latency[n][u] =>
          report[t].trend = report[u].trend

\* "not detected within timeout": a miss in the table is one in the results.
\* A detection in the second of T0 has latency 0, which is read as a miss.
MissesWereNotDetected ==
  \A t \in Tests : \A k \in DOMAIN report[t].cells :
    report[t].cells[k] = "miss" /\ files[k].there = Len(files[k].lines) =>
      \A row \in FirstRowOf(files[k].lines, TestKeys[t]) : row.result # "DETECTED"
=============================================================================
