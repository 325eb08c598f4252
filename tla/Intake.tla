------------------------------- MODULE Intake -------------------------------
(***************************************************************************)
(* The alert log on the manager and the programs that query it: hunt.sh,   *)
(* which asks twice for one report, and fetch_live of correlate.py, run    *)
(* again and again.  The log grows between any two commands; only its tail *)
(* is read; alerts may reach it late; the connection may break and leave   *)
(* part of an answer.                                                      *)
(*                                                                         *)
(* A line that is still being written counts as one that is not there yet: *)
(* jq and fetch_live skip it.                                              *)
(***************************************************************************)
EXTENDS Evidence

CONSTANTS
  Raws,       \* what a raw alert may hold, but for its time
  Garbled,    \* a port that is no number
  Hunts,      \* runs of hunt.sh
  Fetches,    \* calls of fetch_live
  Hours,      \* the window: HUNT_HOURS, --hours
  TailLines,  \* lines that a query looks at: 20000
  Casts,      \* bound: which of them run in one behaviour
  MaxLag,     \* bound: how late an alert is logged
  MaxClock, MaxLog, MaxDrops   \* bounds: time, alerts, broken connections

ASSUME WindowAssumption == Hours \in Nat /\ TailLines \in Nat
ASSUME BoundsAssumption == MaxLag \in Nat /\ MaxClock \in Nat /\ MaxLog \in Nat /\ MaxDrops \in Nat

-----------------------------------------------------------------------------
(* _from_raw.  Empty strings, zero and null count as missing.              *)

Either(x, y) == IF x # None THEN x ELSE y

\* The Suricata groups are those that have the word in them.
ClassifySource(raw) ==
  IF "suricata" \in raw.groups \/ raw.signature # None THEN "suricata" ELSE "wazuh"

PortOf(raw) ==
  LET port == Either(raw.dstport, raw.dest_port) IN IF port = Garbled THEN None ELSE port

\* An alert without an identifier is named by its place in the answer.
FromRaw(entry, idx) ==
  LET raw == entry.raw
  IN  [id     |-> Either(raw.id, <<"evt", idx>>),
       ts     |-> entry.ts,
       source |-> ClassifySource(raw),
       src    |-> Either(raw.srcip, raw.src_ip),
       dst    |-> Either(raw.dstip, raw.dest_ip),
       port   |-> PortOf(raw),
       cats   |-> IF raw.groups # {} THEN raw.groups ELSE raw.category,
       rule   |-> Either(raw.signature, raw.rule),
       agent  |-> raw.agent]

Events(entries) == [k \in DOMAIN entries |-> FromRaw(entries[k], k - 1)]

\* A row of hunt.sh's table.
HuntRow(entry) ==
  [ts |-> entry.ts, rule |-> entry.raw.rule, agent |-> entry.raw.agent,
   src |-> Either(entry.raw.srcip, entry.raw.src_ip)]

-----------------------------------------------------------------------------
VARIABLES
  now,     \* the manager's clock
  log,     \* alerts.json: raw alerts with their times
  pc,      \* where a reader is
  since,   \* the start of its window
  total,   \* hunt.sh: TOTAL
  answer,  \* history: the queries of a reader: when, how much log there was,
           \* the places in the log of the answer, and whether it came whole
  output,  \* the report, or the events
  drops    \* broken connections so far

vars == <<now, log, pc, since, total, answer, output, drops>>

Readers == Hunts \cup Fetches

\* Mutant: the start of the window is not in it.
WindowAfter(start) == {k \in DOMAIN log : k > Len(log) - TailLines /\ log[k].ts > start}

\* The places in the log of the alerts that a query selects.
Window(start) == {k \in DOMAIN log : k > Len(log) - TailLines /\ log[k].ts >= start}

Init ==
  /\ now = 0 /\ log = <<>> /\ drops = 0
  /\ \E cast \in Casts : pc = [r \in Readers |-> IF r \in cast THEN "idle" ELSE "absent"]
  /\ since = [r \in Readers |-> None]
  /\ total = [h \in Hunts |-> 0]
  /\ answer = [r \in Readers |-> <<>>]
  /\ output = [r \in Readers |-> None]

Tick ==
  /\ now < MaxClock
  /\ now' = now + 1
  /\ UNCHANGED <<log, pc, since, total, answer, output, drops>>

\* The manager logs an alert.
Raise ==
  /\ Len(log) < MaxLog
  /\ \E raw \in Raws, lag \in 0..MaxLag : log' = Append(log, [raw |-> raw, ts |-> now - lag])
  /\ UNCHANGED <<now, pc, since, total, answer, output, drops>>

Drop == drops < MaxDrops /\ drops' = drops + 1

Goto(r, label) == pc' = [pc EXCEPT ![r] = label]

\* A query is answered with the places it selects, or with the first of them
\* when the connection breaks.
Ask(r, places) ==
  \E got \in {places} \cup {{k \in places : k < cut} : cut \in places} :
    /\ IF got = places THEN UNCHANGED drops ELSE Drop
    /\ answer' = [answer EXCEPT ![r] =
         Append(@, [at |-> now, length |-> Len(log), got |-> got, whole |-> got = places])]

\* The alerts of an answer, in the order of the log.
Entries(query) == Pick(log, query.got)

\* date -d '-N hours' on the manager.
ReadClock(r) ==
  /\ pc[r] = "idle"
  /\ since' = [since EXCEPT ![r] = now - Hours]
  /\ Goto(r, "since")
  /\ UNCHANGED <<now, log, total, answer, output, drops>>

\* hunt.sh gives up, fetch_live raises.
Unreachable(r) ==
  /\ pc[r] = "idle"
  /\ Drop
  /\ Goto(r, "failed")
  /\ UNCHANGED <<now, log, since, total, answer, output>>

\* The first query ends in wc -l on the manager: the count comes whole or
\* not at all.  Without alerts no report is written.
CountAlerts(h) ==
  /\ pc[h] = "since"
  /\ Ask(h, Window(since[h]))
  /\ LET query == answer'[h][1]
         count == IF query.whole THEN Cardinality(query.got) ELSE 0
     IN  /\ total' = [total EXCEPT ![h] = count]
         /\ Goto(h, IF count = 0 THEN "quit" ELSE "counted")
  /\ UNCHANGED <<now, log, since, output>>

Report(h, query) ==
  LET entries == Entries(query)
  IN  HuntLines(total[h], [k \in DOMAIN entries |-> HuntRow(entries[k])])

\* Mutant: the window is computed anew.
ListAlertsNow(h) ==
  /\ pc[h] = "counted"
  /\ Ask(h, Window(now - Hours))
  /\ output' = [output EXCEPT ![h] = Report(h, answer'[h][2])]
  /\ Goto(h, "reported")
  /\ UNCHANGED <<now, log, since, total>>

\* The second query, and the report.
ListAlerts(h) ==
  /\ pc[h] = "counted"
  /\ Ask(h, Window(since[h]))
  /\ output' = [output EXCEPT ![h] = Report(h, answer'[h][2])]
  /\ Goto(h, "reported")
  /\ UNCHANGED <<now, log, since, total>>

FetchAlerts(f) ==
  /\ pc[f] = "since"
  /\ Ask(f, Window(since[f]))
  /\ output' = [output EXCEPT ![f] = Events(Entries(answer'[f][1]))]
  /\ Goto(f, "loaded")
  /\ UNCHANGED <<now, log, since, total>>

Next ==
  \/ Tick \/ Raise
  \/ \E r \in Readers : ReadClock(r) \/ Unreachable(r)
  \/ \E h \in Hunts : CountAlerts(h) \/ ListAlerts(h)
  \/ \E f \in Fetches : FetchAlerts(f)

Spec == Init /\ [][Next]_vars

-----------------------------------------------------------------------------
(* Properties.                                                             *)

Scrolled(length) == 1..(length - TailLines)

\* The total and the table of one hunt report, which come from two reads of
\* the log, differ by the alerts that were logged between the reads, and by
\* those that had left the tail of the log by the second; alerts late for
\* their second count as logged when they came (hunt.sh: TOTAL, ALERT_TSV).
HuntTableMatchesTotal ==
  \A h \in Hunts : pc[h] = "reported" =>
    LET first  == answer[h][1]
        second == answer[h][2]
    IN  /\ total[h] = Cardinality(first.got)
        /\ second.got \ first.got \subseteq (first.length + 1)..second.length
        /\ second.whole => first.got \ second.got \subseteq Scrolled(second.length)

\* The statistics the HTML report draws from a hunt are those of the alerts
\* of the table, all of them, whatever the cap on the timeline is, and times
\* from its oldest alerts (hunt.sh: the frequency section; evidence_parser:
\* _parse_rule_frequency, _parse_hunt_timeline).
PageCountsTheTable ==
  \A h \in Hunts : pc[h] = "reported" =>
    LET page   == BuildReportData(<<>>, output[h], <<>>)
        listed == answer[h][2].got
        times  == {log[k].ts : k \in listed}
    IN  /\ page.total = total[h]
        /\ page.suricata + page.wazuh = Cardinality(listed)
        /\ TimelineCap > 0 => page.seen[1] = MinOrNone(times)
        /\ Cardinality(listed) <= TimelineCap => page.seen[2] = MaxOrNone(times)

\* An alert that comes into the log between two fetches is in the second,
\* provided its window reaches back to the first, alerts are at most MaxLag
\* late, and the alert is still in the tail: nothing falls between two runs
\* of correlate (events.py: fetch_live, the clock read before the log).
FetchesCoverTheLog ==
  \A f, g \in Fetches : pc[f] = "loaded" /\ pc[g] = "loaded" =>
    LET first  == answer[f][1]
        second == answer[g][1]
    IN  second.whole /\ since[g] + MaxLag <= first.at =>
          (first.length + 1)..second.length
             \subseteq second.got \cup Scrolled(second.length)
=============================================================================
