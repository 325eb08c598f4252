------------------------------ MODULE Evidence ------------------------------
(***************************************************************************)
(* The markdown files of evidence/ that the tools exchange: the lines that *)
(* measure-detection.sh, hunt.sh and report.py write, and what             *)
(* evidence_parser.py reads from them.                                     *)
(*                                                                         *)
(* A file is a sequence of lines.  Lines that no parser looks at are left  *)
(* out.  A file that is still being written is a prefix of its lines: the  *)
(* shell's echo hands over a line at a time, and of a file that Python     *)
(* writes in blocks a line that is cut in two matches no pattern of        *)
(* evidence_parser.py, or the same as the whole line.  The looser grep and *)
(* awk of compare-runs.sh, which would read a latency of 1 in a 12 that is *)
(* cut, meet only lines from echo.                                         *)
(***************************************************************************)
EXTENDS Integers, SequencesExt, Places

CONSTANTS
  None,            \* no value: a dash in a table, a file that is not there
  SuricataRuleIds, \* rules fed by the sensor
  HighRiskRules,   \* rules whose detection makes a report HIGH
  Technique,       \* attack_lookup: the technique of a rule, or None
  Phrases,         \* names of stages that are more than one word
  TimelineCap      \* rows of a timeline that are written, and shown

ASSUME CapAssumption == TimelineCap \in Nat

Title(text) == [tag |-> "title", text |-> text, cells |-> None]
Bold(text)  == [tag |-> "bold", text |-> text, cells |-> None]
Break       == [tag |-> "break", text |-> None, cells |-> None]
Total(n)    == [tag |-> "total", text |-> None, cells |-> n]
Row(cells)  == [tag |-> "row", text |-> None, cells |-> cells]

Rows(cells) == [k \in DOMAIN cells |-> Row(cells[k])]

FirstRows(rows) == SubSeq(rows, 1, IF Len(rows) < TimelineCap THEN Len(rows) ELSE TimelineCap)

-----------------------------------------------------------------------------
(* What is written.                                                        *)

\* A row per test: its name, verdict, rule and latency.  A row without a
\* latency stands for `>180 s' of a test that was not detected, and for the
\* dash of one that failed: neither reader takes them for a number.
DetectionLines(results) == Rows(results)

RulesOf(table) == SetToSeq({table[k].rule : k \in DOMAIN table})

\* Mutant: what the timeline shows is counted.
CountOfShown(table, rule) ==
  LET shown == FirstRows(table) IN Cardinality({k \in DOMAIN shown : shown[k].rule = rule})

CountOf(table, rule) == Cardinality({k \in DOMAIN table : table[k].rule = rule})

\* The rows that sort puts before row k.  A time is in whole seconds here;
\* what sort compares beyond that is taken to follow the order of the log.
Before(table, k) ==
  {l \in DOMAIN table : \/ table[l].ts < table[k].ts
                        \/ table[l].ts = table[k].ts /\ l < k}

Sorted(table) ==
  [n \in DOMAIN table |->
     table[CHOOSE k \in DOMAIN table : Cardinality(Before(table, k)) = n - 1]]

\* The number of alerts of the first query; timeline, mapping and frequency
\* of the alerts of the second.
HuntLines(total, table) ==
  LET rules     == RulesOf(table)
      Mapped(k) == [rule |-> rules[k], technique |-> Technique[rules[k]]]
      Counted(k) == [rule |-> rules[k], count |-> CountOf(table, rules[k])]
  IN  <<Total(total), Title("Event Timeline")>> \o Rows(FirstRows(Sorted(table)))
      \o <<Title("MITRE ATT&CK Mapping")>> \o Rows([k \in DOMAIN rules |-> Mapped(k)])
      \o <<Title("Remediation Advice"), Title("Rule Frequency Breakdown")>>
      \o Rows([k \in DOMAIN rules |-> Counted(k)]) \o <<Title("Method")>>

\* A chain row has a stage, the identifiers of its alerts and a confidence.
IncidentLines(result) ==
  (IF result = None \/ result.chain = <<>> THEN <<>>
   ELSE <<Bold("Attack chain:")>> \o Rows(result.chain))
  \o (IF result = None \/ result.links = <<>> THEN <<>>
      ELSE <<Bold("Relationships:")>> \o Rows(result.links))
  \o <<Break>>

CorrelationLines(results) ==
  <<Title("Incidents")>> \o FlattenSeq([k \in DOMAIN results |-> IncidentLines(results[k])])
  \o <<Title("Method")>>

-----------------------------------------------------------------------------
(* What is read.                                                           *)

RowPlaces(lines) == {k \in DOMAIN lines : lines[k].tag = "row"}

CellsAt(lines, places) == Pick([k \in DOMAIN lines |-> lines[k].cells], places)

\* Line k is below the heading, before any line with one of the end tags.
Below(lines, k, tag, heading, ends) ==
  \E j \in 1..(k - 1) :
    /\ lines[j].tag = tag /\ lines[j].text = heading
    /\ \A i \in (j + 1)..k : lines[i].tag \notin ends

Section(lines, title) == {k \in RowPlaces(lines) : Below(lines, k, "title", title, {"title"})}

\* Mutant: the first row is taken for the heading of the table.
ParseDetectionResultsBelowFirst(lines) ==
  CellsAt(lines, {k \in RowPlaces(lines) : /\ k > 1
                                           /\ lines[k].cells.result # "**NOT DETECTED**"
                                           /\ lines[k].cells.latency # None})

\* A verdict of one word and a latency that is a number.
ParseDetectionResults(lines) ==
  CellsAt(lines, {k \in RowPlaces(lines) : /\ lines[k].cells.result # "**NOT DETECTED**"
                                           /\ lines[k].cells.latency # None})

ParseHuntTotal(lines) ==
  LET totals == {k \in DOMAIN lines : lines[k].tag = "total"}
  IN  IF totals = {} THEN 0 ELSE lines[Min(totals)].cells

ParseHuntTimeline(lines) == CellsAt(lines, Section(lines, "Event Timeline"))

\* A rule without an established technique is left out.
ParseHuntMitre(lines) ==
  CellsAt(lines, {k \in Section(lines, "MITRE ATT&CK Mapping") : lines[k].cells.technique # None})

\* Per rule; the last row of a rule counts.
ParseRuleFrequency(lines) ==
  LET rows     == Section(lines, "Rule Frequency Breakdown")
      Of(rule) == {k \in rows : lines[k].cells.rule = rule}
  IN  [rule \in {lines[k].cells.rule : k \in rows} |-> lines[Max(Of(rule))].cells.count]

\* The chains of all incidents, one after the other.  The pattern takes
\* stages of one word; an empty list of identifiers is read as one empty one.
Stages(lines) ==
  {k \in RowPlaces(lines) : /\ Below(lines, k, "bold", "Attack chain:", {"bold", "break"})
                            /\ lines[k].cells.stage \notin Phrases}

ParseAttackChain(lines) ==
  LET rows == CellsAt(lines, Stages(lines))
  IN  [n \in DOMAIN rows |->
         IF rows[n].ids = <<>> THEN [rows[n] EXCEPT !.ids = <<"">>] ELSE rows[n]]

\* What the programs that write keep to: a rule has one row among the
\* frequencies, with the number of its alerts, and a stage lists its alerts.
IsWritten(lines) ==
  /\ Len(lines) \in Nat /\ lines = [k \in 1..Len(lines) |-> lines[k]]
  /\ \A k, l \in Section(lines, "Rule Frequency Breakdown") :
       /\ lines[k].cells.count \in Nat
       /\ lines[k].cells.rule = lines[l].cells.rule => k = l
  /\ \A k \in Stages(lines) :
       /\ DOMAIN lines[k].cells = {"stage", "ids", "conf"}
       /\ lines[k].cells.ids \in Seq(Range(lines[k].cells.ids))

-----------------------------------------------------------------------------
(* build_report_data.                                                      *)

Detected(rows) == SelectSeq(rows, LAMBDA row : row.result = "DETECTED")

Severity(rows) ==
  IF \E k \in DOMAIN Detected(rows) : Detected(rows)[k].rule \in HighRiskRules THEN "HIGH"
  ELSE IF rows # <<>> THEN "MEDIUM" ELSE "UNKNOWN"

\* A sum of counts, as the number of things that were counted.
SumOf(counts, rules) == Cardinality(UNION {{rule} \X (1..counts[rule]) : rule \in rules})

\* The average as the sum and the number of the latencies.
AverageLatency(rows) ==
  LET detected == Detected(rows)
  IN  IF detected = <<>> THEN None
      ELSE <<SumFunction([k \in DOMAIN detected |-> detected[k].latency]), Len(detected)>>

Columns(rows, Cell(_)) == {Cell(rows[k]) : k \in DOMAIN rows}

MinOrNone(S) == IF S = {} THEN None ELSE Min(S)
MaxOrNone(S) == IF S = {} THEN None ELSE Max(S)

BuildReportData(detection, hunt, correlation) ==
  LET rows     == ParseDetectionResults(detection)
      timeline == ParseHuntTimeline(hunt)
      times    == Columns(timeline, LAMBDA e : e.ts)
      counts   == ParseRuleFrequency(hunt)
      chain    == ParseAttackChain(correlation)
  IN  [severity   |-> Severity(rows),
       seen       |-> <<MinOrNone(times), MaxOrNone(times)>>,
       sources    |-> Columns(timeline, LAMBDA e : e.src) \ {None},
       targets    |-> Columns(timeline, LAMBDA e : e.agent),
       total      |-> ParseHuntTotal(hunt),
       suricata   |-> SumOf(counts, DOMAIN counts \cap SuricataRuleIds),
       wazuh      |-> SumOf(counts, DOMAIN counts \ SuricataRuleIds),
       correlated |-> Cardinality(UNION {ToSet(chain[k].ids) : k \in DOMAIN chain}),
       latency    |-> AverageLatency(rows),
       chain      |-> chain,
       mitre      |-> ParseHuntMitre(hunt),
       detections |-> rows,
       timeline   |-> timeline]

\* What is sent to the model, and what the cache key is made of: everything
\* but the timeline, the names of the files and the time of the report.
AsAIContext(data) ==
  [field \in DOMAIN data \ {"timeline"} |-> data[field]]
=============================================================================
