------------------------------ MODULE Dashboard ------------------------------
(***************************************************************************)
(* harden-dashboard.sh: the firewall is reset and built up again, and the  *)
(* session timeout is appended to the dashboard's configuration, with a    *)
(* backup that comes back if the dashboard does not start.  Runs may be    *)
(* repeated, overlap and be killed.                                        *)
(***************************************************************************)
EXTENDS Naturals

CONSTANTS
  Runs,         \* invocations of the script
  FwRules,      \* number of the firewall's rules
  None,         \* no backup
  MaxDashKills  \* bound: runs that are killed

ASSUME FwRulesAssumption == FwRules \in Nat
ASSUME DashKillsAssumption == MaxDashKills \in Nat
ASSUME NoneAssumption == None \notin [legacy : BOOLEAN, ttl : Nat]

VARIABLES
  fw,        \* the firewall: whether it filters, the rules it has, and, as history,
             \* those that ufw has refused since the last reset
  dash,      \* the configuration: a key of old, and how often the timeout is set
  backup,    \* dash.nisec-bak, or None
  up,        \* the dashboard runs
  accepts,   \* it takes the timeout key
  slow,      \* it takes more than five seconds to fail
  pc,        \* where a run is
  allowed,   \* how many of the rules it has set
  together,  \* history: two runs were active at once
  loose,     \* history: one was killed between a change of dash and the restart or
             \* the check that follows, and no run has come to its own since
  dashKills  \* number of kills so far

host     == <<accepts, slow>>
dashVars == <<fw, dash, backup, up, host, pc, allowed, together, loose, dashKills>>

\* The dashboard starts only if it knows every key, and each is there once.
Accepted(file) == ~file.legacy /\ (file.ttl = 0 \/ (file.ttl = 1 /\ accepts))

Ended  == {"set", "reverted", "configured", "killed"}
Active == {r \in Runs : pc[r] \notin Ended \cup {"absent", "idle"}}

Goto(r, label) == pc' = [pc EXCEPT ![r] = label]

\* The host as it is installed, or with the key that an earlier version of
\* the script has left.
DashInit(cast) ==
  /\ fw = [on |-> FALSE, rules |-> {}, refused |-> {}]
  /\ dash \in [legacy : BOOLEAN, ttl : {0}]
  /\ backup = None
  /\ accepts \in BOOLEAN /\ slow \in BOOLEAN
  /\ up = ~dash.legacy
  /\ pc = [r \in Runs |-> IF r \in cast THEN "idle" ELSE "absent"]
  /\ allowed = [r \in Runs |-> 0]
  /\ together = FALSE /\ loose = FALSE /\ dashKills = 0

Harden(r) ==
  /\ pc[r] = "idle"
  /\ Goto(r, "reset")
  /\ together' = (together \/ Active # {})
  /\ UNCHANGED <<fw, dash, backup, up, host, allowed, loose, dashKills>>

-----------------------------------------------------------------------------
(* The firewall.                                                           *)

\* Mutant: the firewall filters while its rules are set.
ResetRulesOnly(r) ==
  /\ pc[r] = "reset"
  /\ fw' = [fw EXCEPT !.rules = {}, !.refused = {}]
  /\ Goto(r, "allow")
  /\ UNCHANGED <<dash, backup, up, host, allowed, together, loose, dashKills>>

\* Without its rules it does not filter.
Reset(r) ==
  /\ pc[r] = "reset"
  /\ fw' = [on |-> FALSE, rules |-> {}, refused |-> {}]
  /\ Goto(r, "allow")
  /\ UNCHANGED <<dash, backup, up, host, allowed, together, loose, dashKills>>

Allow(r) ==
  /\ pc[r] = "allow" /\ allowed[r] < FwRules
  /\ allowed' = [allowed EXCEPT ![r] = @ + 1]
  /\ fw' = [fw EXCEPT !.rules = @ \cup {allowed[r] + 1}]
  /\ UNCHANGED <<dash, backup, up, host, pc, together, loose, dashKills>>

\* ufw fails, which nobody looks at: there is no set -e.
AllowFails(r) ==
  /\ pc[r] = "allow" /\ allowed[r] < FwRules
  /\ allowed' = [allowed EXCEPT ![r] = @ + 1]
  /\ fw' = [fw EXCEPT !.refused = @ \cup {allowed[r] + 1}]
  /\ UNCHANGED <<dash, backup, up, host, pc, together, loose, dashKills>>

Enable(r) ==
  /\ pc[r] = "allow" /\ allowed[r] = FwRules
  /\ fw' = [fw EXCEPT !.on = TRUE]
  /\ Goto(r, "legacy")
  /\ UNCHANGED <<dash, backup, up, host, allowed, together, loose, dashKills>>

-----------------------------------------------------------------------------
(* The session timeout.                                                    *)

Restart == up' = Accepted(dash)

StripLegacy(r) ==
  /\ pc[r] = "legacy" /\ dash.legacy
  /\ dash' = [dash EXCEPT !.legacy = FALSE]
  /\ Goto(r, "restart legacy")
  /\ UNCHANGED <<fw, backup, up, host, allowed, together, loose, dashKills>>

RestartStripped(r) ==
  /\ pc[r] = "restart legacy"
  /\ Restart
  /\ Goto(r, "grep")
  /\ UNCHANGED <<fw, dash, backup, host, allowed, together, loose, dashKills>>

NoLegacy(r) ==
  /\ pc[r] = "legacy" /\ ~dash.legacy
  /\ Goto(r, "grep")
  /\ UNCHANGED <<fw, dash, backup, up, host, allowed, together, loose, dashKills>>

AlreadyConfigured(r) ==
  /\ pc[r] = "grep" /\ dash.ttl > 0
  /\ Goto(r, "configured")
  /\ UNCHANGED <<fw, dash, backup, up, host, allowed, together, loose, dashKills>>

\* Mutant: the key is not looked for.
ConfigureAnyway(r) ==
  /\ pc[r] = "grep"
  /\ Goto(r, "backup")
  /\ UNCHANGED <<fw, dash, backup, up, host, allowed, together, loose, dashKills>>

NotConfigured(r) ==
  /\ pc[r] = "grep" /\ dash.ttl = 0
  /\ Goto(r, "backup")
  /\ UNCHANGED <<fw, dash, backup, up, host, allowed, together, loose, dashKills>>

BackUp(r) ==
  /\ pc[r] = "backup"
  /\ backup' = dash
  /\ Goto(r, "append")
  /\ UNCHANGED <<fw, dash, up, host, allowed, together, loose, dashKills>>

AppendTimeout(r) ==
  /\ pc[r] = "append"
  /\ dash' = [dash EXCEPT !.ttl = @ + 1]
  /\ Goto(r, "restart")
  /\ UNCHANGED <<fw, backup, up, host, allowed, together, loose, dashKills>>

RestartAppended(r) ==
  /\ pc[r] = "restart"
  /\ Restart
  /\ Goto(r, "check")
  /\ UNCHANGED <<fw, dash, backup, host, allowed, together, loose, dashKills>>

\* Mutant: the dashboard is assumed to be up.
AssumeUp(r) ==
  /\ pc[r] = "check"
  /\ Goto(r, "set")
  /\ backup' = None /\ loose' = FALSE
  /\ UNCHANGED <<fw, dash, up, host, allowed, together, dashKills>>

\* is-active, after five seconds.
CheckUp(r) ==
  /\ pc[r] = "check" /\ (up \/ slow)
  /\ Goto(r, "set")
  /\ backup' = None /\ loose' = FALSE
  /\ UNCHANGED <<fw, dash, up, host, allowed, together, dashKills>>

\* The backup comes back, unless another run has taken it.
RevertTimeout(r) ==
  /\ pc[r] = "check" /\ ~up
  /\ dash' = IF backup = None THEN dash ELSE backup
  /\ backup' = None
  /\ Goto(r, "restart reverted")
  /\ UNCHANGED <<fw, up, host, allowed, together, loose, dashKills>>

RestartReverted(r) ==
  /\ pc[r] = "restart reverted"
  /\ Restart
  /\ loose' = FALSE
  /\ Goto(r, "reverted")
  /\ UNCHANGED <<fw, dash, backup, host, allowed, together, dashKills>>

KillRun(r) ==
  /\ r \in Active
  /\ dashKills < MaxDashKills
  /\ dashKills' = dashKills + 1
  /\ loose' = (loose \/ pc[r] \in {"restart legacy", "restart", "check", "restart reverted"})
  /\ Goto(r, "killed")
  /\ UNCHANGED <<fw, dash, backup, up, host, allowed, together>>

DashNext ==
  \E r \in Runs :
    \/ Harden(r) \/ Reset(r) \/ Allow(r) \/ AllowFails(r) \/ Enable(r)
    \/ StripLegacy(r) \/ RestartStripped(r) \/ NoLegacy(r)
    \/ AlreadyConfigured(r) \/ NotConfigured(r) \/ BackUp(r) \/ AppendTimeout(r)
    \/ RestartAppended(r) \/ CheckUp(r) \/ RevertTimeout(r) \/ RestartReverted(r) \/ KillRun(r)

-----------------------------------------------------------------------------
(* Properties.                                                             *)

\* Unless two runs overlap, the firewall filters only with all the rules that
\* ufw did not refuse, the one for the administrator's access included,
\* wherever runs were killed (harden-dashboard.sh:6, "rather than locking you
\* out").
NeverLockedOut == ~together => (fw.on => fw.rules = (1..FwRules) \ fw.refused)

\* The timeout is set once at most, also by repeated runs and after kills,
\* and a run that says so has set it: no two runs append it unless they
\* overlap (harden-dashboard.sh:83).
TimeoutSetOnce ==
  ~together =>
    /\ dash.ttl <= 1
    /\ \A r \in Runs : pc[r] \in {"set", "configured"} => dash.ttl = 1

\* When a run has ended by itself, the dashboard runs with a configuration
\* it accepts, and no backup lies about unless a run was killed.  Excepted
\* are runs that overlap, a dashboard that fails late, and a kill between a
\* change of the configuration and the restart and check that follow, until
\* a run has got to its own check or rollback again (harden-dashboard.sh:89,
\* "roll back if the service does not come back up").
EndsWithDashboardUp ==
  ~together /\ ~loose /\ ~slow =>
    \A r \in Runs : pc[r] \in {"set", "reverted", "configured"} /\ Active = {} =>
      up /\ Accepted(dash) /\ (dashKills = 0 => backup = None)

-----------------------------------------------------------------------------
(* What the script says of itself and does not do.                         *)

\* The firewall never filters without the rule for the administrator's access
\* (harden-dashboard.sh:6, "safe changes rather than locking you out").  It
\* does: the rules are set and the firewall is enabled whether ufw took the
\* rules or not.
EveryRuleIsThere == ~together => (fw.on => fw.rules = 1..FwRules)

\* A run that finds the timeout already configured leaves a dashboard that is
\* up (harden-dashboard.sh:88, "Verify rather than assume").  It does not: a
\* run that is killed before its check leaves the timeout unverified, and the
\* next one only looks for the key (harden-dashboard.sh:83).
ConfiguredIsVerified ==
  ~together /\ ~slow => \A r \in Runs : pc[r] = "configured" /\ Active = {} => up
=============================================================================
