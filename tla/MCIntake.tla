------------------------------ MODULE MCIntake ------------------------------
(***************************************************************************)
(* Alerts and readers for Intake.                                          *)
(***************************************************************************)
EXTENDS Intake

Raw(id, rule, groups, signature) ==
  [id |-> id, rule |-> rule, groups |-> groups, signature |-> signature, category |-> None,
   agent |-> "web", srcip |-> None, src_ip |-> "kali", dstip |-> "web", dest_ip |-> None,
   dstport |-> Garbled, dest_port |-> None]

\* An alert of each of the two sources, the second without an identifier.
MCRaws == {Raw("a1", "100120", {"nisec", "suricata"}, "9000001"),
           [Raw(None, "5710", {"sshd"}, None) EXCEPT !.srcip = "kali", !.dstport = 22]}

MCTechnique == [rule \in {"100120", "5710"} |-> "T-" \o rule]
=============================================================================
