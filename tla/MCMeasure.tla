----------------------------- MODULE MCMeasure ------------------------------
(***************************************************************************)
(* Tests for Measure.  Port scan and ping flood both watch 100120, which   *)
(* either attack may raise; only port scan watches 100102.                 *)
(***************************************************************************)
EXTENDS Measure

MCPlan == <<"portscan", "pingflood">>
MCWatched == [t \in Tests |-> IF t = "portscan" THEN {"100120", "100102"} ELSE {"100120"}]
MCRaises == [t \in Tests |-> IF t = "portscan" THEN {"100120", "100102"} ELSE {"100120"}]
MCTimeout == [t \in Tests |-> IF t = "portscan" THEN 3 ELSE 1]
MCNoise == {}
MCSlow == -2
=============================================================================
