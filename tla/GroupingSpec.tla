---------------------------- MODULE GroupingSpec ----------------------------
(***************************************************************************)
(* What group_candidates promises its caller: after some time, in one      *)
(* step, the connected components of the batch, and nothing before.        *)
(***************************************************************************)
EXTENDS Alerts

CONSTANT Batches
VARIABLES alerts, result

vars == <<alerts, result>>

Init == alerts \in Batches /\ result = None

Answer ==
  /\ result = None
  /\ result' = CandidateGroups(alerts)
  /\ UNCHANGED alerts

Spec == Init /\ [][Answer]_vars /\ <>(result # None)
=============================================================================
