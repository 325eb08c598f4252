---------------------------- MODULE MCCorrelate -----------------------------
(***************************************************************************)
(* Batches and invocations for Correlate.                                  *)
(***************************************************************************)
EXTENDS Correlate, TLC

MCIds    == {"a1", "a2", "a3", "b1", "b2", "c1", "evt0", "evt1", "ghost"}
MCValues == {"kali", "mallory", "client", "web", "db", "scan", "sshd", "5710"}
MCScan == {"scan"}
MCAuth == {"sshd"}
MCFim  == {}

Mk(id, ts, src, dst, cats) ==
  [id |-> id, ts |-> ts, src |-> src, dst |-> dst, port |-> None, agent |-> None,
   rule |-> None, cats |-> cats, text |-> None]

\* One attacker's chain of three, another's of two, and an alert of nobody's.
A1 == Mk("a1", 100, "kali", "web", {"scan"})
A2 == Mk("a2", 101, "kali", "web", {"sshd"})
A3 == Mk("a3", 102, "kali", "web", {})
B1 == Mk("b1", 101, "mallory", "db", {"scan"})
B2 == Mk("b2", 103, "mallory", "db", {"scan"})
C1 == Mk("c1", 103, "client", "db", {"scan"})

OneGroup  == <<A1, A2, C1>>
LateGroup == <<A3, A1>>
TwoGroups == <<B2, A1, A3, A2, B1, C1>>

\* Alerts without an identifier are numbered by position.
Monday  == <<[A1 EXCEPT !.id = "evt0"], [A2 EXCEPT !.id = "evt1"]>>
Tuesday == <<[B1 EXCEPT !.id = "evt0"], [B2 EXCEPT !.id = "evt1"]>>

MCBatches == {<<>>, OneGroup, LateGroup, TwoGroups, Monday, Tuesday}

ASSUME BatchesAssumption == IncidentsAreListed /\ KeysDiffer

MCRefSets == {{}, {"a1", "a2"}, {"b1", "ghost"}}

Run(mode, model, force, dryRun, batch) ==
  [mode |-> mode, model |-> model, force |-> force, dryRun |-> dryRun,
   creds |-> "key", client |-> TRUE, batch |-> batch]

MCModels == {"flash", "pro"}

Overlapping ==
  {Run("gemini", "flash", FALSE, FALSE, OneGroup),
   Run("gemini", "pro",   FALSE, FALSE, TwoGroups),
   Run("mock",   "flash", FALSE, FALSE, TwoGroups),
   Run("gemini", "flash", TRUE,  FALSE, OneGroup),
   Run("gemini", "flash", FALSE, FALSE, LateGroup)}

Settings ==
  {Run("gemini", "flash", FALSE, FALSE, OneGroup),
   Run("gemini", "flash", FALSE, FALSE, TwoGroups),
   Run("gemini", "pro",   TRUE,  FALSE, OneGroup),
   Run("gemini", "flash", FALSE, TRUE,  TwoGroups),
   Run("mock",   "flash", FALSE, FALSE, OneGroup),
   Run("mock",   "flash", FALSE, FALSE, <<>>),
   [Run("gemini", "flash", FALSE, FALSE, OneGroup)  EXCEPT !.mode = "other"],
   [Run("gemini", "flash", FALSE, FALSE, TwoGroups) EXCEPT !.creds = "none"],
   [Run("gemini", "flash", FALSE, FALSE, TwoGroups) EXCEPT !.creds = "enterprise", !.client = FALSE]}

Positional ==
  {Run("gemini", "flash", FALSE, FALSE, Monday), Run("gemini", "flash", FALSE, FALSE, Tuesday)}

\* Runs are interchangeable.
RunSymmetry == Permutations(Runs)
=============================================================================
