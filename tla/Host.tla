-------------------------------- MODULE Host ---------------------------------
(***************************************************************************)
(* The host that the scripts change: ossec.conf with the service that      *)
(* reads it, and the firewall and the dashboard.                           *)
(***************************************************************************)
EXTENDS OssecConf, Dashboard

CONSTANT Casts   \* bound: the scripts that are run in a behaviour

ASSUME CastsAssumption == Casts \subseteq SUBSET (Callers \cup Runs)

hostVars == <<confVars, dashVars>>

\* A dashboard that nobody hardens is one that would take the timeout.
Init ==
  \E cast \in Casts :
    /\ ConfInit(cast) /\ DashInit(cast)
    /\ cast \cap Runs = {} => up /\ accepts /\ ~slow

Next ==
  \/ ConfNext /\ UNCHANGED dashVars
  \/ DashNext /\ UNCHANGED confVars

Spec == Init /\ [][Next]_hostVars
=============================================================================
