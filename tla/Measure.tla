------------------------------ MODULE Measure -------------------------------
(***************************************************************************)
(* measure-detection.sh with _alert-probe.sh: one attack after another is  *)
(* launched, and the manager's alert log is polled for a matching alert    *)
(* until a deadline.  The log grows meanwhile: alerts come while an attack *)
(* runs, after it has ended, and from other traffic.                       *)
(*                                                                         *)
(* Time is in whole seconds, as the alerts' timestamps and `date +%s' are. *)
(* `now' is the manager's clock; the host's differs by Skew.  The baseline *)
(* and the sensor's drop counters are left out: they only observe.         *)
(***************************************************************************)
EXTENDS Integers, Sequences

CONSTANTS
  Plan,         \* the tests of a run, in order, all of them known: another name
                \* ends the script where it comes, and no results are written
  Watched,      \* the rule ids each test looks for
  Timeout,      \* the seconds each test waits
  Raises,       \* the rule ids of the alerts each attack may raise
  NoiseRules,   \* the rule ids other traffic may raise
  PollSeconds,  \* POLL_SECONDS
  TailLines,    \* the last lines of the log that the probe reads
  Skew,         \* how far the host's clock is ahead of the manager's
  Outages,      \* whether the manager may fail to answer
  Lag,          \* bound: seconds a step of the script takes at most
  MaxAlerts     \* bound: alerts in the log

Tests == {Plan[k] : k \in DOMAIN Plan}

ASSUME PlanAssumption ==
  /\ Plan \in Seq(Tests)
  /\ Timeout \in [Tests -> Nat]
ASSUME TimesAssumption == PollSeconds \in Nat \ {0} /\ Skew \in Int /\ Lag \in Nat
ASSUME LagAssumption == Lag <= PollSeconds \/ \A t \in Tests : Lag < Timeout[t]
ASSUME LogAssumption == TailLines \in Nat \ {0} /\ MaxAlerts \in Nat /\ Outages \in BOOLEAN

VARIABLES
  now,       \* the manager's clock
  due,       \* the time until which the present step of the script may last
  pc,        \* where run_test is
  t0,        \* T0
  deadline,  \* the deadline, on the host's clock
  attack,    \* the attack in the background
  hit,       \* the line of the log the probe returned, or 0
  start,     \* history: when run_test began
  old,       \* history: the lines of the log at that time
  sure,      \* history: every probe of this test was answered
  rows,      \* ROWS
  log        \* alerts.json

script == <<pc, t0, deadline, hit, start, old, sure, rows>>
vars   == <<now, due, attack, log, script>>

Host == now + Skew

\* The test under way.
At   == Len(rows) + 1
Test == Plan[At]

Row(verdict) ==
  [verdict |-> verdict, deadline |-> deadline, hit |-> hit,
   start |-> start, old |-> old, sure |-> sure]

\* The script goes on, and gets there within Lag seconds.
GoTo(place) == pc' = place /\ due' = now + Lag

\* run_test returns, and its variables are gone.
Return(verdict) ==
  /\ rows' = Append(rows, Row(verdict))
  /\ t0' = 0 /\ deadline' = 0 /\ hit' = 0 /\ start' = 0 /\ old' = 0 /\ sure' = TRUE
  /\ GoTo("ready")

-----------------------------------------------------------------------------
Init ==
  /\ now = 10 /\ due = 10
  /\ pc = "ready"
  /\ t0 = 0 /\ deadline = 0 /\ hit = 0 /\ start = 0 /\ old = 0 /\ sure = TRUE
  /\ attack = "none"
  /\ rows = <<>>
  /\ log = <<>>

-----------------------------------------------------------------------------
(* run_test.                                                               *)

\* Mutant: T0 is read on the host.
ReadHostClock ==
  /\ pc = "ready"
  /\ At \in DOMAIN Plan
  /\ t0' = Host
  /\ start' = now /\ old' = Len(log)
  /\ GoTo("launch")
  /\ UNCHANGED <<now, deadline, attack, hit, sure, rows, log>>

ReadClock ==
  /\ pc = "ready"
  /\ At \in DOMAIN Plan
  /\ t0' = now
  /\ start' = now /\ old' = Len(log)
  /\ GoTo("launch")
  /\ UNCHANGED <<now, deadline, attack, hit, sure, rows, log>>

\* Without a clock the test is given up.
NoClock ==
  /\ pc = "ready"
  /\ At \in DOMAIN Plan
  /\ Outages
  /\ Return("ERROR")
  /\ UNCHANGED <<now, attack, log>>

Launch ==
  /\ pc = "launch"
  /\ attack' = "running"
  /\ deadline' = Host + Timeout[Test]
  /\ GoTo("poll")
  /\ UNCHANGED <<now, t0, hit, start, old, sure, rows, log>>

StartProbe ==
  /\ pc = "poll"
  /\ Host < deadline
  /\ GoTo("probe")
  /\ UNCHANGED <<now, t0, deadline, attack, hit, start, old, sure, rows, log>>

DeadlinePassed ==
  /\ pc = "poll"
  /\ Host >= deadline
  /\ GoTo("wait")
  /\ UNCHANGED <<now, t0, deadline, attack, hit, start, old, sure, rows, log>>

\* The lines of the log a test from time T0 on would take for its own.
Matches(test, from) ==
  {l \in DOMAIN log : log[l].rule \in Watched[test] /\ log[l].ts >= from}

InTail(l) == l > Len(log) - TailLines

\* Mutant: the probe prints the line after the match.
ProbeHitsNext ==
  /\ pc = "probe"
  /\ \E l \in Matches(Test, t0) : InTail(l) /\ hit' = l + 1
  /\ GoTo("wait")
  /\ UNCHANGED <<now, t0, deadline, attack, start, old, sure, rows, log>>

\* The probe prints the first match in the tail.
ProbeHits ==
  /\ pc = "probe"
  /\ \E l \in Matches(Test, t0) :
       /\ InTail(l)
       /\ \A m \in Matches(Test, t0) : m < l => ~InTail(m)
       /\ hit' = l
  /\ GoTo("wait")
  /\ UNCHANGED <<now, t0, deadline, attack, start, old, sure, rows, log>>

\* Mutant: after a probe without a hit the loop sleeps out its timeout.
ProbeMissesOnce ==
  /\ pc = "probe"
  /\ \A l \in Matches(Test, t0) : ~InTail(l)
  /\ pc' = "sleep" /\ due' = now + Timeout[Test]
  /\ UNCHANGED <<now, t0, deadline, attack, hit, start, old, sure, rows, log>>

ProbeMisses ==
  /\ pc = "probe"
  /\ \A l \in Matches(Test, t0) : ~InTail(l)
  /\ pc' = "sleep" /\ due' = now + PollSeconds
  /\ UNCHANGED <<now, t0, deadline, attack, hit, start, old, sure, rows, log>>

\* No answer looks like no hit.
ProbeUnanswered ==
  /\ pc = "probe"
  /\ Outages
  /\ sure' = FALSE
  /\ pc' = "sleep" /\ due' = now + PollSeconds
  /\ UNCHANGED <<now, t0, deadline, attack, hit, start, old, rows, log>>

Wake ==
  /\ pc = "sleep"
  /\ now = due
  /\ GoTo("poll")
  /\ UNCHANGED <<now, t0, deadline, attack, hit, start, old, sure, rows, log>>

\* Mutant: a test without a hit leaves no row.
RecordHitsOnly ==
  /\ pc = "wait"
  /\ attack = "ended"
  /\ hit # 0
  /\ Return("DETECTED")
  /\ UNCHANGED <<now, attack, log>>

\* The attack is waited for before the row is written.
Record ==
  /\ pc = "wait"
  /\ attack = "ended"
  /\ Return(IF hit # 0 THEN "DETECTED" ELSE "NOT DETECTED")
  /\ UNCHANGED <<now, attack, log>>

\* The results file.
WriteResults ==
  /\ pc = "ready"
  /\ At \notin DOMAIN Plan
  /\ GoTo("done")
  /\ UNCHANGED <<now, t0, deadline, attack, hit, start, old, sure, rows, log>>

-----------------------------------------------------------------------------
(* The lab.                                                                *)

AttackEnds ==
  /\ attack = "running"
  /\ attack' = "ended"
  /\ UNCHANGED <<now, due, log, script>>

\* The tests whose attack was launched: its alerts may come late.
Launched ==
  {Plan[k] : k \in {j \in DOMAIN rows : rows[j].verdict # "ERROR"}}
  \cup (IF pc \in {"poll", "probe", "sleep", "wait"} THEN {Test} ELSE {})

\* The manager analyses an event and appends an alert, stamped now.
Alert(rule) ==
  /\ Len(log) < MaxAlerts
  /\ pc # "done"
  /\ log' = Append(log, [ts |-> now, rule |-> rule])
  /\ UNCHANGED <<now, due, attack, script>>

Tick ==
  /\ pc # "done"
  /\ now < due
  /\ now' = now + 1
  /\ UNCHANGED <<due, attack, log, script>>

-----------------------------------------------------------------------------
Script ==
  \/ ReadClock \/ NoClock \/ Launch
  \/ StartProbe \/ DeadlinePassed
  \/ ProbeHits \/ ProbeMisses \/ ProbeUnanswered
  \/ Wake \/ Record \/ WriteResults

Lab ==
  \/ AttackEnds
  \/ \E rule \in NoiseRules \cup UNION {Raises[t] : t \in Launched} : Alert(rule)

Next == Script \/ Lab \/ Tick

\* The script is scheduled and its ssh calls return, time passes, and an
\* attack script comes to its end.
Spec == Init /\ [][Next]_vars /\ WF_vars(Script) /\ WF_vars(Tick) /\ WF_vars(AttackEnds)

-----------------------------------------------------------------------------
(* Properties.                                                             *)

RowType ==
  [verdict : {"ERROR", "DETECTED", "NOT DETECTED"},
   deadline : Int, hit : Nat, start : Nat, old : Nat, sure : BOOLEAN]

AlertType ==
  [ts : Nat, rule : NoiseRules \cup UNION {Raises[t] : t \in Tests}]

\* Type invariant.
TypeOK ==
  /\ now \in Nat /\ due \in Nat /\ now <= due
  /\ pc \in {"ready", "launch", "poll", "probe", "sleep", "wait", "done"}
  /\ t0 \in Nat /\ deadline \in Int
  /\ start \in Nat /\ old \in Nat /\ sure \in BOOLEAN
  /\ attack \in {"none", "running", "ended"}
  /\ hit \in 0..Len(log)
  /\ rows \in Seq(RowType) /\ Len(rows) <= Len(Plan)
  /\ log \in Seq(AlertType)

\* Line l scrolled out of the part of the log the probe reads.
Scrolled(l) == l + TailLines <= Len(log)

\* What a row credits is the first matching alert since its T0, whatever
\* order attacks, alerts and probes come in and however the clocks differ;
\* only a match that scrolled away before a probe saw it is passed over
\* (run_test, _alert-probe.sh).
CreditsTheFirstAlert ==
  \A k \in DOMAIN rows : rows[k].verdict = "DETECTED" =>
    /\ rows[k].hit \in Matches(Plan[k], rows[k].start)
    /\ \A l \in Matches(Plan[k], rows[k].start) : l < rows[k].hit => Scrolled(l)

\* A test that was not detected, the manager having answered throughout, can
\* have lost only alerts of its last seconds: one sleep and the step after it
\* (run_test: the loop, with its deadline on another clock).
MissesOnlyAtTheEnd ==
  \A k \in DOMAIN rows : rows[k].verdict = "NOT DETECTED" /\ rows[k].sure =>
    \A l \in Matches(Plan[k], rows[k].start) :
      \/ log[l].ts >= rows[k].deadline - Skew - (PollSeconds + Lag)
      \/ Scrolled(l)

\* Every test of the run gets its row, if every attack ends.
EveryTestIsReported == <>(pc = "done" /\ Len(rows) = Len(Plan))

-----------------------------------------------------------------------------
(* What the documentation says, and the program does not do.               *)

\* measure-detection.sh: an alert left over from a previous run can never be
\* credited to this one.
NoStaleCredit ==
  \A k \in DOMAIN rows : rows[k].verdict = "DETECTED" => rows[k].hit > rows[k].old
=============================================================================
