--------------------------- MODULE MeasureProofs ----------------------------
(***************************************************************************)
(* Proofs about Measure, for any plan of tests, timeouts, clock skew and   *)
(* growth of the log: types, that a row credits the first matching alert,  *)
(* and that a probed test loses only the alerts of its last seconds.       *)
(*                                                                         *)
(* The bound on what is lost is carried from step to step by `due': it     *)
(* tells how long ago the last probe was.                                  *)
(***************************************************************************)
EXTENDS Measure, TLAPS

Active == {"launch", "poll", "probe", "sleep", "wait"}

\* What an unanswered second costs: a sleep and the step after it.
Loss == PollSeconds + Lag

\* The matching alerts the probe can still see came at `time' or later.
SeenUntil(test, from, time) ==
  \A l \in Matches(test, from) : log[l].ts >= time \/ Scrolled(l)

-----------------------------------------------------------------------------
(* The inductive invariant.                                                *)

\* Inside run_test there is a test, and T0 is when it began.
Placed == pc \in Active => At \in DOMAIN Plan /\ t0 = start

\* A hit ends the loop, and no later alert takes its place.
HitOK ==
  hit # 0 =>
    /\ pc = "wait"
    /\ hit \in Matches(Test, start)
    /\ \A l \in Matches(Test, start) : l < hit => Scrolled(l)

\* The loop was just entered: no probe was due yet.
Entered ==
  /\ deadline - Skew = due - Lag + Timeout[Test]
  /\ due - Lag <= start + Lag

\* How long ago the last probe was, while the manager answers.
ProbedOK ==
  sure =>
    /\ pc = "launch" => due <= start + Lag
    /\ pc = "poll" =>
         due - Lag <= now /\ (Entered \/ SeenUntil(Test, start, due - Loss))
    /\ pc = "sleep" =>
         due - PollSeconds <= now /\ SeenUntil(Test, start, due - PollSeconds)
    /\ pc = "wait" /\ hit = 0 =>
         /\ deadline - Skew - Loss <= now
         /\ SeenUntil(Test, start, deadline - Skew - Loss)

\* The same two facts for the rows that are written.
RowOK(k) ==
  /\ rows[k].verdict = "DETECTED" =>
       /\ rows[k].hit \in Matches(Plan[k], rows[k].start)
       /\ \A l \in Matches(Plan[k], rows[k].start) : l < rows[k].hit => Scrolled(l)
  /\ rows[k].verdict = "NOT DETECTED" /\ rows[k].sure =>
       /\ rows[k].deadline - Skew - Loss <= now
       /\ SeenUntil(Plan[k], rows[k].start, rows[k].deadline - Skew - Loss)

RowsOK == \A k \in DOMAIN rows : RowOK(k)

IInv == TypeOK /\ Placed /\ HitOK /\ ProbedOK /\ RowsOK

-----------------------------------------------------------------------------
(* Lemmas.                                                                 *)

\* A test of the plan has a timeout (the case statement of the script).
LEMMA TestsHaveTimeouts ==
  \A k \in DOMAIN Plan : Plan[k] \in Tests /\ Timeout[Plan[k]] \in Nat
BY PlanAssumption DEF Tests

\* Lengths are numbers.
LEMMA Lengths ==
  ASSUME TypeOK
  PROVE  /\ Len(rows) \in Nat /\ DOMAIN rows = 1..Len(rows)
         /\ Len(log) \in Nat /\ DOMAIN log = 1..Len(log)
         /\ Len(Plan) \in Nat /\ DOMAIN Plan = 1..Len(Plan)
         /\ hit \in Nat
<1>1. rows \in Seq(RowType) /\ log \in Seq(AlertType) /\ hit \in 0..Len(log)
  BY DEF TypeOK
<1>2. Plan \in Seq(Tests) BY PlanAssumption
<1>3. Len(log) \in Nat BY <1>1
<1>. QED BY <1>1, <1>2, <1>3

\* Only tests of the plan are launched.
LEMMA LaunchedTests ==
  ASSUME IInv
  PROVE  Launched \subseteq Tests
<1>1. DOMAIN rows \subseteq DOMAIN Plan BY Lengths DEF IInv, TypeOK
<1>2. pc \in {"poll", "probe", "sleep", "wait"} => At \in DOMAIN Plan
  BY DEF IInv, Placed, Active
<1>. QED BY <1>1, <1>2, TestsHaveTimeouts DEF Launched, Test

\* Every verdict makes a row.
LEMMA Rows ==
  ASSUME TypeOK
  PROVE  /\ Row("ERROR") \in RowType
         /\ Row(IF hit # 0 THEN "DETECTED" ELSE "NOT DETECTED") \in RowType
<1>1. hit \in Nat BY Lengths
<1>. QED BY <1>1 DEF TypeOK, RowType, Row

\* Return writes one row more, of the right type, and leaves the others.
LEMMA ReturnAppends ==
  ASSUME NEW verdict, Row(verdict) \in RowType, TypeOK, Return(verdict)
  PROVE  /\ rows' \in Seq(RowType)
         /\ Len(rows') = At
         /\ At \in DOMAIN rows' /\ At \in Nat
         /\ rows'[At] = Row(verdict)
         /\ \A k \in DOMAIN rows : rows'[k] = rows[k]
         /\ \A k \in DOMAIN rows' : k = At \/ k \in DOMAIN rows
<1>1. rows \in Seq(RowType) BY DEF TypeOK
<1>2. rows' = Append(rows, Row(verdict)) BY DEF Return
<1>3. rows' \in Seq(RowType) /\ Len(rows') = Len(rows) + 1 BY <1>1, <1>2
<1>4. rows'[Len(rows) + 1] = Row(verdict) BY <1>1, <1>2
<1>5. \A k \in 1..Len(rows) : rows'[k] = rows[k] BY <1>1, <1>2
<1>6. DOMAIN rows' = 1..Len(rows') BY <1>3
<1>. QED BY <1>3, <1>4, <1>5, <1>6, Lengths DEF At

\* Where the log is unchanged, a written row stays right as time goes on.
LEMMA RowsKept ==
  ASSUME IInv, UNCHANGED log, now' \in Nat, now' >= now,
         NEW k \in DOMAIN rows, k \in DOMAIN rows', rows'[k] = rows[k]
  PROVE  RowOK(k)'
<1>1. rows[k] \in RowType BY DEF IInv, TypeOK
<1>2. rows[k].deadline \in Int BY <1>1 DEF RowType
<1>3. now \in Nat /\ Skew \in Int /\ Loss \in Int
  BY TimesAssumption DEF IInv, TypeOK, Loss
<1>4. RowOK(k) BY DEF IInv, RowsOK
<1>5. /\ \A test, from : Matches(test, from)' = Matches(test, from)
      /\ \A l : Scrolled(l)' <=> Scrolled(l)
  BY DEF Matches, Scrolled
<1>6. CASE rows[k].verdict = "DETECTED" BY <1>4, <1>5, <1>6 DEF RowOK
<1>7. CASE rows[k].verdict # "DETECTED"
  <2>. DEFINE D == rows[k].deadline - Skew - Loss
  <2>1. SeenUntil(Plan[k], rows[k].start, D) => SeenUntil(Plan[k], rows[k].start, D)'
    BY <1>5 DEF SeenUntil, Loss
  <2>2. D \in Int BY <1>2, <1>3
  <2>3. D <= now => D <= now' BY <1>3, <2>2
  <2>4. D' = D BY DEF Loss
  <2>. QED BY <1>4, <1>7, <2>1, <2>3, <2>4 DEF RowOK
<1>. QED BY <1>6, <1>7

\* An alert adds one line, stamped now; what the probe could not see any
\* more it never sees again.
LEMMA AlertOnlyAdds ==
  ASSUME TypeOK, TypeOK', NEW rule, Alert(rule)
  PROVE  /\ \A test, from : Matches(test, from) \subseteq Matches(test, from)'
         /\ \A test, from : \A l \in Matches(test, from)' :
              \/ l \in Matches(test, from) /\ log'[l] = log[l]
              \/ l = Len(log) + 1 /\ log'[l].ts = now
         /\ \A l \in Nat : Scrolled(l) => Scrolled(l)'
         /\ \A l \in DOMAIN log : l \in Nat /\ l <= Len(log)
<1>1. log \in Seq(AlertType) /\ log' \in Seq(AlertType) BY DEF TypeOK
<1>2. log' = Append(log, [ts |-> now, rule |-> rule]) BY DEF Alert
<1>3. /\ Len(log') = Len(log) + 1 /\ Len(log) \in Nat
      /\ DOMAIN log = 1..Len(log) /\ DOMAIN log' = 1..Len(log) + 1
      /\ \A l \in 1..Len(log) : log'[l] = log[l]
      /\ log'[Len(log) + 1] = [ts |-> now, rule |-> rule]
  BY <1>1, <1>2
<1>4. log'[Len(log) + 1].ts = now BY <1>3
<1>. QED BY <1>3, <1>4, LogAssumption DEF Matches, Scrolled

\* An alert comes too late to be lost by an earlier probe.
LEMMA AlertSeen ==
  ASSUME TypeOK, TypeOK', NEW rule, Alert(rule),
         NEW test, NEW from, NEW time \in Int,
         time <= now, SeenUntil(test, from, time)
  PROVE  SeenUntil(test, from, time)'
<1>1. \A l \in Matches(test, from) : l \in Nat BY AlertOnlyAdds DEF Matches
<1>2. now \in Int BY DEF TypeOK
<1>3. ASSUME NEW l \in Matches(test, from)'
      PROVE  log'[l].ts >= time \/ Scrolled(l)'
  <2>1. CASE l = Len(log) + 1 /\ log'[l].ts = now BY <1>2, <2>1
  <2>2. CASE l \in Matches(test, from) /\ log'[l] = log[l]
    BY <1>1, <2>2, AlertOnlyAdds DEF SeenUntil
  <2>. QED BY <2>1, <2>2, AlertOnlyAdds
<1>. QED BY <1>3 DEF SeenUntil

\* A test's matches came after it began.
LEMMA MatchesSince ==
  ASSUME NEW test, NEW from \in Nat, NEW time \in Int, time <= from, TypeOK
  PROVE  SeenUntil(test, from, time)
<1>1. \A l \in DOMAIN log : log[l].ts \in Nat
  <2>1. \A l \in DOMAIN log : log[l] \in AlertType BY DEF TypeOK
  <2>. QED BY <2>1 DEF AlertType
<1>. QED BY <1>1 DEF SeenUntil, Matches

\* What holds until a time holds until an earlier one.
LEMMA SeenEarlier ==
  ASSUME NEW test, NEW from, NEW time \in Int, NEW earlier \in Int,
         earlier <= time, SeenUntil(test, from, time), TypeOK
  PROVE  SeenUntil(test, from, earlier)
<1>1. \A l \in DOMAIN log : log[l].ts \in Nat
  <2>1. \A l \in DOMAIN log : log[l] \in AlertType BY DEF TypeOK
  <2>. QED BY <2>1 DEF AlertType
<1>. QED BY <1>1 DEF SeenUntil, Matches

\* The passing of time leaves what was probed.
LEMMA ProbedKept ==
  ASSUME IInv, UNCHANGED <<due, log, script>>, now' \in Nat, now' >= now
  PROVE  ProbedOK'
<1>. USE TimesAssumption DEF IInv, TypeOK, script, Loss
<1>1. /\ \A test, from : Matches(test, from)' = Matches(test, from)
      /\ \A l : Scrolled(l)' <=> Scrolled(l)
  BY DEF Matches, Scrolled
<1>2. /\ SeenUntil(Test, start, due - Loss)' <=> SeenUntil(Test, start, due - Loss)
      /\ SeenUntil(Test, start, due - PollSeconds)'
         <=> SeenUntil(Test, start, due - PollSeconds)
      /\ SeenUntil(Test, start, deadline - Skew - Loss)'
         <=> SeenUntil(Test, start, deadline - Skew - Loss)
  BY <1>1 DEF SeenUntil, Test, At
<1>3. Entered' <=> Entered BY DEF Entered, Test, At
<1>. QED BY <1>2, <1>3 DEF ProbedOK

-----------------------------------------------------------------------------
(* Type correctness.                                                       *)

\* Every step keeps the types.
LEMMA TypeStep ==
  ASSUME IInv, [Next]_vars
  PROVE  TypeOK'
<1>. USE TimesAssumption DEF IInv, TypeOK, GoTo, Host
<1>1. CASE ReadClock BY <1>1 DEF ReadClock
<1>2. CASE NoClock
  <2>1. rows' \in Seq(RowType) /\ Len(rows') = At
    BY <1>2, Rows, ReturnAppends DEF NoClock
  <2>2. At \in DOMAIN Plan BY <1>2 DEF NoClock, Placed, Active
  <2>3. Len(rows') <= Len(Plan) BY <2>1, <2>2, Lengths
  <2>4. sure' \in BOOLEAN BY <1>2 DEF NoClock, Return
  <2>. QED BY <1>2, <2>1, <2>3, <2>4 DEF NoClock, Return
<1>3. CASE Launch
  BY <1>3, TestsHaveTimeouts DEF Launch, Placed, Active, Test
<1>4. CASE StartProbe BY <1>4 DEF StartProbe
<1>5. CASE DeadlinePassed BY <1>5 DEF DeadlinePassed
<1>6. CASE ProbeHits BY <1>6 DEF ProbeHits, Matches
<1>7. CASE ProbeMisses BY <1>7 DEF ProbeMisses
<1>8. CASE ProbeUnanswered
  <2>1. sure' \in BOOLEAN BY <1>8 DEF ProbeUnanswered
  <2>. QED BY <1>8, <2>1 DEF ProbeUnanswered
<1>9. CASE Wake BY <1>9 DEF Wake
<1>10. CASE Record
  <2>. DEFINE verdict == IF hit # 0 THEN "DETECTED" ELSE "NOT DETECTED"
  <2>5. Return(verdict) /\ Row(verdict) \in RowType BY <1>10, Rows DEF Record
  <2>6. TypeOK OBVIOUS
  <2>. HIDE DEF verdict
  <2>1. rows' \in Seq(RowType) /\ Len(rows') = At
    BY ONLY <2>5, <2>6, ReturnAppends
  <2>2. At \in DOMAIN Plan BY <1>10 DEF Record, Placed, Active
  <2>3. Len(rows') <= Len(Plan) BY <2>1, <2>2, Lengths
  <2>4. sure' \in BOOLEAN BY ONLY <2>5 DEF Return
  <2>7. /\ UNCHANGED <<now, attack, log>>
        /\ t0' = 0 /\ deadline' = 0 /\ hit' = 0 /\ start' = 0 /\ old' = 0
        /\ pc' = "ready" /\ due' = now + Lag
    BY <1>10 DEF Record, Return
  <2>. QED BY <2>1, <2>3, <2>4, <2>7
<1>11. CASE WriteResults BY <1>11 DEF WriteResults
<1>12. CASE AttackEnds BY <1>12 DEF AttackEnds, script
<1>13. CASE \E rule \in NoiseRules \cup UNION {Raises[t] : t \in Launched} : Alert(rule)
  <2>1. PICK rule \in NoiseRules \cup UNION {Raises[t] : t \in Launched} : Alert(rule)
    BY <1>13
  <2>2. [ts |-> now, rule |-> rule] \in AlertType
    <3>1. Launched \subseteq Tests BY LaunchedTests
    <3>2. rule \in NoiseRules \cup UNION {Raises[t] : t \in Tests}
      BY ONLY <2>1, <3>1
    <3>. QED BY <3>2 DEF AlertType
  <2>3. log' \in Seq(AlertType) /\ Len(log') = Len(log) + 1
    BY <2>1, <2>2 DEF Alert
  <2>4. hit' \in 0..Len(log') BY <2>1, <2>3, Lengths DEF Alert, script
  <2>. QED BY <2>1, <2>3, <2>4 DEF Alert, script
<1>14. CASE Tick BY <1>14 DEF Tick, script
<1>15. CASE UNCHANGED vars BY <1>15 DEF vars, script
<1>. QED
  BY <1>1, <1>2, <1>3, <1>4, <1>5, <1>6, <1>7, <1>8, <1>9, <1>10, <1>11, <1>12,
     <1>13, <1>14, <1>15 DEF Next, Script, Lab

-----------------------------------------------------------------------------
(* The other parts of the invariant.                                       *)

\* Inside run_test there goes on to be a test.
LEMMA PlacedStep ==
  ASSUME IInv, [Next]_vars
  PROVE  Placed'
<1>. USE DEF IInv, Placed, Active, At, GoTo
<1>1. CASE ReadClock BY <1>1 DEF ReadClock
<1>2. CASE NoClock BY <1>2 DEF NoClock, Return
<1>3. CASE Launch BY <1>3 DEF Launch
<1>4. CASE StartProbe \/ DeadlinePassed BY <1>4 DEF StartProbe, DeadlinePassed
<1>5. CASE ProbeHits \/ ProbeMisses \/ ProbeUnanswered
  BY <1>5 DEF ProbeHits, ProbeMisses, ProbeUnanswered
<1>6. CASE Wake \/ WriteResults BY <1>6 DEF Wake, WriteResults
<1>7. CASE Record BY <1>7 DEF Record, Return
<1>8. CASE Lab \/ Tick BY <1>8 DEF Lab, AttackEnds, Alert, Tick, script
<1>9. CASE UNCHANGED vars BY <1>9 DEF vars, script
<1>. QED
  BY <1>1, <1>2, <1>3, <1>4, <1>5, <1>6, <1>7, <1>8, <1>9 DEF Next, Script

\* A hit stays the first match.
LEMMA HitStep ==
  ASSUME IInv, [Next]_vars, TypeOK'
  PROVE  HitOK'
<1>. USE DEF IInv, HitOK, GoTo
<1>1. CASE ReadClock BY <1>1 DEF ReadClock
<1>2. CASE NoClock BY <1>2 DEF NoClock, Return
<1>3. CASE Launch BY <1>3 DEF Launch
<1>4. CASE StartProbe \/ DeadlinePassed BY <1>4 DEF StartProbe, DeadlinePassed
<1>5. CASE ProbeHits
  <2>1. t0 = start BY <1>5 DEF ProbeHits, Placed, Active
  <2>2. \A m \in DOMAIN log : ~InTail(m) => Scrolled(m)
    BY Lengths, LogAssumption DEF InTail, Scrolled
  <2>3. hit' \in Matches(Test, start) /\ \A l \in Matches(Test, start) : l < hit' => Scrolled(l)
    BY <1>5, <2>1, <2>2 DEF ProbeHits, Matches
  <2>4. Matches(Test, start)' = Matches(Test, start) /\ \A l : Scrolled(l)' <=> Scrolled(l)
    BY <1>5 DEF ProbeHits, Matches, Scrolled, Test, At
  <2>. QED BY <1>5, <2>3, <2>4 DEF ProbeHits
<1>6. CASE ProbeMisses \/ ProbeUnanswered BY <1>6 DEF ProbeMisses, ProbeUnanswered
<1>7. CASE Wake \/ WriteResults BY <1>7 DEF Wake, WriteResults
<1>8. CASE Record BY <1>8 DEF Record, Return
<1>9. CASE AttackEnds \/ Tick \/ UNCHANGED vars
  <2>1. UNCHANGED <<pc, hit, start, log, rows>> BY <1>9 DEF AttackEnds, Tick, vars, script
  <2>. QED BY <2>1 DEF Matches, Scrolled, Test, At
<1>10. ASSUME NEW rule, Alert(rule) PROVE HitOK'
  <2>1. UNCHANGED <<pc, hit, start, rows>> BY <1>10 DEF Alert, script
  <2>2. ASSUME hit # 0 PROVE HitOK'
    <3>. PICK test, from : test = Test /\ from = start OBVIOUS
    <3>1. Test' = test /\ start' = from BY <2>1 DEF Test, At
    <3>2. hit \in Matches(test, from) /\ hit <= Len(log) /\ Len(log) \in Nat
      BY <2>2, Lengths DEF TypeOK
    <3>3. hit \in Matches(test, from)' BY <1>10, <3>2, AlertOnlyAdds
    <3>4. ASSUME NEW l \in Matches(test, from)', l < hit PROVE Scrolled(l)'
      <4>1. l # Len(log) + 1 BY <3>2, <3>4, Lengths
      <4>2. l \in Matches(test, from) BY <1>10, <3>4, <4>1, AlertOnlyAdds
      <4>3. l \in Nat BY <1>10, <4>2, AlertOnlyAdds DEF Matches
      <4>. QED BY <1>10, <2>2, <3>4, <4>2, <4>3, AlertOnlyAdds
    <3>. QED BY <2>1, <2>2, <3>1, <3>3, <3>4
  <2>. QED BY <2>1, <2>2
<1>. QED
  BY <1>1, <1>2, <1>3, <1>4, <1>5, <1>6, <1>7, <1>8, <1>9, <1>10 DEF Next, Script, Lab
\* The last probe is never longer ago than `due' tells.
LEMMA ProbedStep ==
  ASSUME IInv, [Next]_vars, TypeOK'
  PROVE  ProbedOK'
<1>. USE TimesAssumption DEF IInv, TypeOK, GoTo, Loss
<1>1. CASE ReadClock BY <1>1 DEF ReadClock, ProbedOK
<1>2. CASE NoClock BY <1>2 DEF NoClock, Return, ProbedOK
<1>3. CASE Launch
  <2>1. Timeout[Test] \in Nat
    BY <1>3, TestsHaveTimeouts DEF Launch, Placed, Active, Test
  <2>2. sure => due <= start + Lag BY <1>3 DEF Launch, ProbedOK
  <2>3. pc' = "poll" /\ due' = now + Lag /\ UNCHANGED <<now, start, sure>>
        /\ deadline' = now + Skew + Timeout[Test] /\ Test' = Test
    BY <1>3 DEF Launch, Host, Test, At
  <2>4. ASSUME sure PROVE Entered'
    <3>. DEFINE T == Timeout[Test]
    <3>1. T \in Nat BY <2>1
    <3>5. T' = T BY ONLY <2>3
    <3>2. deadline' = now + Skew + T BY <2>3
    <3>. HIDE DEF T
    <3>3. deadline' - Skew = due' - Lag + T BY <2>3, <3>1, <3>2
    <3>4. due' - Lag <= start' + Lag BY <2>2, <2>3, <2>4
    <3>. USE DEF T
    <3>. QED BY <3>1, <3>5, <3>3, <3>4 DEF Entered
  <2>. QED BY <2>3, <2>4 DEF ProbedOK
<1>4. CASE StartProbe BY <1>4 DEF StartProbe, ProbedOK
<1>5. CASE DeadlinePassed
  <2>1. Timeout[Test] \in Nat
    BY <1>5, TestsHaveTimeouts DEF DeadlinePassed, Placed, Active, Test
  <2>2. deadline - Skew <= now /\ now <= due BY <1>5 DEF DeadlinePassed, Host
  <2>. DEFINE D == deadline - Skew - Loss
  <2>3. D \in Int /\ D <= now BY <2>2
  <2>4. ASSUME sure PROVE SeenUntil(Test, start, D)
    <3>1. CASE Entered
      <4>1. Lag <= PollSeconds \/ Lag < Timeout[Test]
        BY <1>5, LagAssumption, TestsHaveTimeouts DEF DeadlinePassed, Placed, Active, Test
      <4>. DEFINE T == Timeout[Test]
      <4>2. /\ deadline - Skew = due - Lag + T /\ due - Lag <= start + Lag
            /\ T \in Nat /\ (Lag <= PollSeconds \/ Lag < T)
        BY <2>1, <3>1, <4>1 DEF Entered
      <4>. HIDE DEF T
      <4>3. D <= start BY <2>2, <4>2
      <4>. QED BY <2>3, <4>3, MatchesSince
    <3>2. CASE SeenUntil(Test, start, due - Loss)
      <4>1. D <= due - Loss BY <2>2
      <4>. QED BY <2>3, <3>2, <4>1, SeenEarlier
    <3>. QED BY <1>5, <2>4, <3>1, <3>2 DEF DeadlinePassed, ProbedOK
  <2>5. UNCHANGED <<now, deadline, start, sure, log, rows>> /\ pc' = "wait"
    BY <1>5 DEF DeadlinePassed
  <2>6. SeenUntil(Test, start, D)' <=> SeenUntil(Test, start, D)
    BY <2>5 DEF SeenUntil, Matches, Scrolled, Test, At
  <2>. QED BY <2>3, <2>4, <2>5, <2>6 DEF ProbedOK
<1>6. CASE ProbeHits
  <2>1. pc' = "wait" /\ hit' # 0 BY <1>6, Lengths DEF ProbeHits, Matches
  <2>. QED BY <2>1 DEF ProbedOK
<1>7. CASE ProbeMisses
  <2>1. t0 = start BY <1>7 DEF ProbeMisses, Placed, Active
  <2>2. \A l \in Matches(Test, start) : Scrolled(l)
    BY <1>7, <2>1, Lengths, LogAssumption DEF ProbeMisses, InTail, Scrolled, Matches
  <2>3. pc' = "sleep" /\ due' = now + PollSeconds /\ UNCHANGED <<now, start, log, rows>>
    BY <1>7 DEF ProbeMisses
  <2>4. SeenUntil(Test, start, due - PollSeconds)'
    BY <2>2, <2>3 DEF SeenUntil, Matches, Scrolled, Test, At
  <2>. QED BY <2>3, <2>4 DEF ProbedOK
<1>8. CASE ProbeUnanswered BY <1>8 DEF ProbeUnanswered, ProbedOK
<1>9. CASE Wake
  <2>1. pc = "sleep" /\ pc' = "poll" /\ due' = due + Lag
        /\ UNCHANGED <<now, start, sure, log, rows>> /\ now = due
    BY <1>9 DEF Wake
  <2>2. due' - Loss' = due - PollSeconds BY <2>1
  <2>3. SeenUntil(Test, start, due - PollSeconds) => SeenUntil(Test, start, due - Loss)'
    BY <2>1, <2>2 DEF SeenUntil, Matches, Scrolled, Test, At
  <2>. QED BY <2>1, <2>3 DEF ProbedOK
<1>10. CASE Record BY <1>10 DEF Record, Return, ProbedOK
<1>11. CASE WriteResults BY <1>11 DEF WriteResults, ProbedOK
<1>12. CASE AttackEnds \/ UNCHANGED vars
  <2>1. UNCHANGED <<now, due, log, script>> BY <1>12 DEF AttackEnds, vars
  <2>. QED BY <2>1, ProbedKept DEF script
<1>13. CASE Tick
  <2>1. UNCHANGED <<due, log, script>> /\ now' = now + 1 BY <1>13 DEF Tick
  <2>. QED BY <2>1, ProbedKept DEF script
<1>14. ASSUME NEW rule, Alert(rule) PROVE ProbedOK'
  <2>. PICK test, from : test = Test /\ from = start OBVIOUS
  <2>1. UNCHANGED <<now, due, pc, deadline, hit, start, sure, rows>>
    BY <1>14 DEF Alert, script
  <2>2. Test' = test /\ start' = from BY <2>1 DEF Test, At
  <2>3. \A time \in Int : time <= now /\ SeenUntil(test, from, time)
          => SeenUntil(test, from, time)'
    BY <1>14, AlertSeen
  <2>4. PICK p, q, d : p = due - Loss /\ q = due - PollSeconds /\ d = deadline - Skew - Loss
    OBVIOUS
  <2>5. p \in Int /\ q \in Int /\ d \in Int BY <2>4
  <2>6. (due - Loss)' = p /\ (due - PollSeconds)' = q /\ (deadline - Skew - Loss)' = d
    BY <2>1, <2>4
  <2>7. p <= due - Lag BY <2>4
  <2>8. Entered' <=> Entered BY <2>1, <2>2 DEF Entered
  <2>9. CASE pc = "poll" BY <2>1, <2>2, <2>3, <2>4, <2>5, <2>6, <2>7, <2>8, <2>9 DEF ProbedOK
  <2>10. CASE pc = "sleep" BY <2>1, <2>2, <2>3, <2>4, <2>5, <2>6, <2>10 DEF ProbedOK
  <2>11. CASE pc = "wait" BY <2>1, <2>2, <2>3, <2>4, <2>5, <2>6, <2>11 DEF ProbedOK
  <2>12. CASE pc \notin {"poll", "sleep", "wait"} BY <2>1, <2>12 DEF ProbedOK
  <2>. QED BY <2>9, <2>10, <2>11, <2>12
<1>. QED
  BY <1>1, <1>2, <1>3, <1>4, <1>5, <1>6, <1>7, <1>8, <1>9, <1>10, <1>11, <1>12,
     <1>13, <1>14 DEF Next, Script, Lab
\* It is enough to look at the row Return writes.
LEMMA NewRow ==
  ASSUME IInv, UNCHANGED log, now' \in Nat, now' >= now,
         NEW verdict, Row(verdict) \in RowType, Return(verdict),
         NEW row, row = Row(verdict),
         row.verdict = "DETECTED" =>
           /\ row.hit \in Matches(Test, row.start)
           /\ \A l \in Matches(Test, row.start) : l < row.hit => Scrolled(l),
         row.verdict = "NOT DETECTED" /\ row.sure =>
           /\ row.deadline - Skew - Loss <= now
           /\ SeenUntil(Test, row.start, row.deadline - Skew - Loss)
  PROVE  RowsOK'
<1>1. /\ At \in DOMAIN rows' /\ rows'[At] = row
      /\ \A k \in DOMAIN rows : rows'[k] = rows[k]
      /\ \A k \in DOMAIN rows' : k = At \/ k \in DOMAIN rows
  BY ReturnAppends DEF IInv
<1>2. ASSUME NEW k \in DOMAIN rows', k \in DOMAIN rows PROVE RowOK(k)'
  BY <1>1, <1>2, RowsKept
<1>3. PICK n : n = At OBVIOUS
<1>4. n \in DOMAIN rows' /\ rows'[n] = row /\ Plan[n] = Test BY <1>1, <1>3 DEF Test
<1>5. /\ \A test, from : Matches(test, from)' = Matches(test, from)
      /\ \A l : Scrolled(l)' <=> Scrolled(l)
  BY DEF Matches, Scrolled
<1>6. PICK time : time = row.deadline - Skew - Loss OBVIOUS
<1>7. time \in Int
  <2>1. row \in RowType OBVIOUS
  <2>2. row.deadline \in Int BY ONLY <2>1 DEF RowType
  <2>3. Skew \in Int /\ Loss \in Int BY ONLY TimesAssumption DEF Loss
  <2>. QED BY ONLY <1>6, <2>2, <2>3
<1>8. time <= now => time <= now'
  <2>1. now \in Nat BY DEF IInv, TypeOK
  <2>. QED BY ONLY <1>7, <2>1, now' \in Nat, now' >= now
<1>9. SeenUntil(Plan[n], row.start, time)' <=> SeenUntil(Plan[n], row.start, time)
  BY <1>5 DEF SeenUntil
<1>10. (rows[n].deadline - Skew - Loss)' = time BY <1>4, <1>6 DEF Loss
<1>11. RowOK(n)' BY <1>4, <1>5, <1>6, <1>8, <1>9, <1>10 DEF RowOK
<1>. QED BY <1>1, <1>2, <1>3, <1>11 DEF RowsOK

\* A written row stays right, and the row that is written is right.
LEMMA RowsStep ==
  ASSUME IInv, [Next]_vars, TypeOK'
  PROVE  RowsOK'
<1>. USE DEF RowsOK
<1>1. ASSUME UNCHANGED <<rows, log>>, now' >= now PROVE RowsOK'
  BY <1>1, RowsKept DEF TypeOK
<1>2. CASE NoClock
  <2>1. now' \in Nat /\ now' >= now /\ UNCHANGED log
    BY <1>2 DEF NoClock, IInv, TypeOK
  <2>2. PICK verdict : verdict = "ERROR" OBVIOUS
  <2>3. PICK row : row = Row(verdict) OBVIOUS
  <2>4. Return(verdict) /\ Row(verdict) \in RowType BY <1>2, <2>2, Rows DEF NoClock, IInv
  <2>5. row.verdict # "DETECTED" /\ row.verdict # "NOT DETECTED" BY <2>2, <2>3 DEF Row
  <2>. QED BY <2>1, <2>3, <2>4, <2>5, NewRow
<1>3. CASE Record
  <2>. DEFINE verdict == IF hit # 0 THEN "DETECTED" ELSE "NOT DETECTED"
  <2>1. now' \in Nat /\ now' >= now /\ UNCHANGED log
    <3>1. UNCHANGED <<now, log>> BY <1>3 DEF Record
    <3>. QED BY <3>1 DEF IInv, TypeOK
  <2>2. Return(verdict) /\ Row(verdict) \in RowType BY <1>3, Rows DEF Record, IInv
  <2>3. /\ Row(verdict).verdict = verdict /\ Row(verdict).hit = hit
        /\ Row(verdict).start = start /\ Row(verdict).sure = sure
        /\ Row(verdict).deadline = deadline
    BY DEF Row
  <2>4. verdict = "DETECTED" => hit # 0 OBVIOUS
  <2>5. verdict = "NOT DETECTED" => hit = 0 OBVIOUS
  <2>6. pc = "wait" BY <1>3 DEF Record
  <2>. HIDE DEF verdict
  <2>7. PICK row : row = Row(verdict) OBVIOUS
  <2>8. row.verdict = "DETECTED" =>
           /\ row.hit \in Matches(Test, row.start)
           /\ \A l \in Matches(Test, row.start) : l < row.hit => Scrolled(l)
    BY <2>3, <2>4, <2>7 DEF IInv, HitOK
  <2>9. row.verdict = "NOT DETECTED" /\ row.sure =>
           /\ row.deadline - Skew - Loss <= now
           /\ SeenUntil(Test, row.start, row.deadline - Skew - Loss)
    BY <2>3, <2>5, <2>6, <2>7 DEF IInv, ProbedOK
  <2>. QED BY <2>1, <2>2, <2>7, <2>8, <2>9, NewRow
<1>4. ASSUME NEW rule, Alert(rule) PROVE RowsOK'
  <2>1. UNCHANGED <<now, rows>> BY <1>4 DEF Alert, script
  <2>2. ASSUME NEW k \in DOMAIN rows PROVE RowOK(k)'
    <3>. PICK row : row = rows[k] OBVIOUS
    <3>1. PICK time : time = row.deadline - Skew - Loss OBVIOUS
    <3>2. time \in Int
      <4>1. rows \in Seq(RowType) BY DEF IInv, TypeOK
      <4>2. row \in RowType BY ONLY <4>1, row = rows[k], k \in DOMAIN rows
      <4>3. row.deadline \in Int BY ONLY <4>2 DEF RowType
      <4>. QED BY <3>1, <4>3, TimesAssumption DEF Loss
    <3>3. rows'[k] = row /\ (rows[k].deadline - Skew - Loss)' = time
      BY <2>1, <3>1 DEF Loss
    <3>4. RowOK(k) BY DEF IInv
    <3>5. TypeOK BY DEF IInv
    <3>6. time <= now /\ SeenUntil(Plan[k], row.start, time)
          => SeenUntil(Plan[k], row.start, time)'
      BY <1>4, <3>2, <3>5, AlertSeen
    <3>7. CASE row.verdict = "DETECTED"
      <4>1. row.hit \in Matches(Plan[k], row.start) /\ row.hit \in Nat /\ row.hit <= Len(log)
        BY <1>4, <3>4, <3>5, <3>7, AlertOnlyAdds DEF RowOK, Matches
      <4>2. row.hit \in Matches(Plan[k], row.start)' BY <1>4, <3>5, <4>1, AlertOnlyAdds
      <4>3. ASSUME NEW l \in Matches(Plan[k], row.start)', l < row.hit PROVE Scrolled(l)'
        <5>1. l # Len(log) + 1 BY <3>5, <4>1, <4>3, Lengths
        <5>2. l \in Matches(Plan[k], row.start) BY <1>4, <3>5, <4>3, <5>1, AlertOnlyAdds
        <5>3. l \in Nat BY <1>4, <3>5, <5>2, AlertOnlyAdds DEF Matches
        <5>4. Scrolled(l) BY <3>4, <3>7, <4>3, <5>2 DEF RowOK
        <5>. QED BY <1>4, <3>5, <5>3, <5>4, AlertOnlyAdds
      <4>. QED BY <3>3, <3>7, <4>2, <4>3 DEF RowOK
    <3>8. CASE row.verdict # "DETECTED"
      BY <2>1, <3>1, <3>3, <3>4, <3>6, <3>8 DEF RowOK
    <3>. QED BY <3>7, <3>8
  <2>. QED BY <2>1, <2>2
<1>5. CASE ReadClock \/ Launch \/ StartProbe \/ DeadlinePassed \/ ProbeHits \/ ProbeMisses
           \/ ProbeUnanswered \/ Wake \/ WriteResults
  <2>1. UNCHANGED <<now, rows, log>>
    BY <1>5 DEF ReadClock, Launch, StartProbe, DeadlinePassed, ProbeHits, ProbeMisses,
                ProbeUnanswered, Wake, WriteResults
  <2>. QED BY <1>1, <2>1 DEF IInv, TypeOK
<1>6. CASE AttackEnds \/ Tick \/ UNCHANGED vars
  <2>1. UNCHANGED <<rows, log>> /\ (now' = now \/ now' = now + 1)
    BY <1>6 DEF AttackEnds, Tick, vars, script
  <2>. QED BY <1>1, <2>1 DEF IInv, TypeOK
<1>. QED
  BY <1>2, <1>3, <1>4, <1>5, <1>6 DEF Next, Script, Lab

-----------------------------------------------------------------------------
(* The theorems.                                                           *)

\* Init establishes the invariant.
LEMMA InitInvariant == Init => IInv
<1>. SUFFICES ASSUME Init PROVE IInv OBVIOUS
<1>1. TypeOK
  <2>1. Len(Plan) \in Nat BY PlanAssumption
  <2>. QED BY <2>1 DEF Init, TypeOK
<1>. QED BY <1>1 DEF Init, IInv, Placed, Active, HitOK, ProbedOK, RowsOK

\* The inductive invariant holds throughout every run of the script.
THEOREM MeasureInvariant == Spec => []IInv
<1>1. IInv /\ [Next]_vars => IInv'
  BY TypeStep, PlacedStep, HitStep, ProbedStep, RowsStep DEF IInv
<1>. QED BY InitInvariant, <1>1, PTL DEF Spec

\* The types are right (measure-detection.sh: the variables of run_test).
THEOREM MeasureTypeCorrect == Spec => []TypeOK
<1>1. IInv => TypeOK BY DEF IInv
<1>. QED BY MeasureInvariant, <1>1, PTL

\* A row credits the first matching alert since its T0 that the probe could
\* see, for any skew and any growth of the log (run_test, _alert-probe.sh).
THEOREM FirstAlertIsCredited == Spec => []CreditsTheFirstAlert
<1>1. IInv => CreditsTheFirstAlert
  BY DEF IInv, RowsOK, RowOK, CreditsTheFirstAlert
<1>. QED BY MeasureInvariant, <1>1, PTL

\* Where the manager answers, a test that was not detected lost only alerts
\* of its last POLL_SECONDS and one step (run_test: the loop).
THEOREM OnlyTheEndIsMissed == Spec => []MissesOnlyAtTheEnd
<1>1. IInv => MissesOnlyAtTheEnd
  <2>. SUFFICES ASSUME IInv, NEW k \in DOMAIN rows,
                       rows[k].verdict = "NOT DETECTED" /\ rows[k].sure,
                       NEW l \in Matches(Plan[k], rows[k].start)
                PROVE  \/ log[l].ts >= rows[k].deadline - Skew - (PollSeconds + Lag)
                       \/ Scrolled(l)
    BY DEF MissesOnlyAtTheEnd
  <2>. QED BY DEF IInv, RowsOK, RowOK, SeenUntil, Loss
<1>. QED BY MeasureInvariant, <1>1, PTL
=============================================================================
