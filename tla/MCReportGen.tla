---------------------------- MODULE MCReportGen -----------------------------
(***************************************************************************)
(* Evidence, producers and runs for ReportGen.                             *)
(***************************************************************************)
EXTENDS ReportGen, TLC

MCTechnique == [rule \in {"5710", "100120", "100101"} |->
                  IF rule = "100101" THEN None ELSE "T-" \o rule]

Test(test, verdict, rule, latency) ==
  [test |-> test, result |-> verdict, rule |-> rule, latency |-> latency]

Scan  == Test("scan", "DETECTED", "100120", 4)
Brute == Test("brute", "**NOT DETECTED**", None, None)
Fim   == Test("fim", "DETECTED", "550", 9)

Seen(ts, rule, src) == [ts |-> ts, rule |-> rule, agent |-> "web", src |-> src]

Table == <<Seen(1, "100120", "kali"), Seen(2, "5710", "kali"), Seen(3, "100101", None)>>

Stage(stage, ids) == [stage |-> stage, ids |-> ids, conf |-> 9]

Chains == <<[chain |-> <<Stage("reconnaissance", <<"a1">>), Stage("Initial Access", <<"a2">>)>>,
             links |-> <<"a1-a2">>],
            None,
            [chain |-> <<Stage("impact", <<>>)>>, links |-> <<>>]>>

Measured   == DetectionLines(<<Scan, Brute, Fim>>)
Hunted     == HuntLines(4, Table)
Correlated == CorrelationLines(Chains)

\* An evidence directory before the runs: nothing yet; everything; and what
\* programs that were killed have left.
None0 == [kind \in Kinds |-> <<>>]
File0(lines, n) == 0 :> Evidence(lines, n)

Left0 ==
  [detection |-> File0(Measured, 1), hunt |-> File0(Hunted, 7), correlation |-> File0(Correlated, 3)]

\* Two runs on evidence that stays; one while evidence is written; two runs
\* with a correlation between them.
MCScenes ==
  {[cast |-> {"r1", "r2"}, dir |-> Left0],
   [cast |-> {"r1", "measure", "correlate"}, dir |-> None0],
   [cast |-> {"r1", "measure", "correlate"}, dir |-> Left0],
   [cast |-> {"r1", "r3", "correlate"}, dir |-> None0]}

MCModels == {"flash", "pro"}

Run(mode, model, force, dryRun, auth) ==
  [mode |-> mode, model |-> model, force |-> force, dryRun |-> dryRun,
   auth |-> auth, client |-> TRUE, limit |-> None]

\* A gemini run beside one of another kind.
MCInvocations ==
  "r1" :> {Run("gemini", "flash", FALSE, FALSE, "key")}
  @@ "r2" :> {[Run("gemini", "pro", TRUE, FALSE, "project") EXCEPT !.limit = 0],
              Run("gemini", "pro", FALSE, FALSE, "noproject"),
              Run("gemini", "pro", FALSE, FALSE, "none"),
              Run("mock", "flash", FALSE, FALSE, "none")}
  @@ "r3" :> {Run("mock", "flash", FALSE, FALSE, "none")}

MCProduces ==
  [measure   |-> [kind |-> "detection", lines |-> Measured, cuts |-> {1}],
   correlate |-> [kind |-> "correlation", lines |-> CorrelationLines(SubSeq(Chains, 2, 3)),
                  cuts |-> {}]]
=============================================================================
