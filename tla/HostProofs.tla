------------------------------ MODULE HostProofs ------------------------------
(***************************************************************************)
(* Proofs about Host, for any number of callers, runs, blocks and kills.   *)
(*                                                                         *)
(* The dashboard: nobody is locked out, the timeout is set once, and the   *)
(* dashboard is up when a run has ended by itself.  As long as runs do not *)
(* overlap, the place of the one that is active says what the firewall,    *)
(* the configuration and the backup hold; the invariant lists this place   *)
(* by place, and what killed runs leave.  Steps on ossec.conf change none  *)
(* of it.                                                                  *)
(*                                                                         *)
(* ossec.conf: no block is merged twice, none is lost, and what has been   *)
(* announced is what the service runs with.  As long as callers do not     *)
(* overlap, the file is complete unless one of them has it open for        *)
(* writing, and then that caller holds the complete one.  A complete file  *)
(* has only whole blocks, so that the markers that are looked for are the  *)
(* blocks that are there.  Steps on the dashboard change none of it.       *)
(***************************************************************************)
EXTENDS Host, SequenceTheorems, WellFoundedInduction, TLAPS

-----------------------------------------------------------------------------
(* The dashboard: places.                                                  *)

Restarting == {"restart legacy", "restart", "restart reverted"}
Appended   == {"restart", "check"}
Places     == Ended \cup {"absent", "idle", "reset", "allow", "legacy", "grep", "backup", "append"}
                    \cup Restarting \cup Appended

\* Places behind the removal of the old key.
Passed == {"grep", "backup", "append", "set", "reverted", "configured"} \cup Restarting \cup Appended

File == [legacy : BOOLEAN, ttl : Nat]

-----------------------------------------------------------------------------
(* The dashboard: the inductive invariant.                                 *)

Types ==
  /\ fw \in [on : BOOLEAN, rules : SUBSET (1..FwRules), refused : SUBSET (1..FwRules)]
  /\ dash \in File /\ (backup = None \/ backup \in File)
  /\ pc \in [Runs -> Places]
  /\ allowed \in [Runs -> 0..FwRules]
  /\ up \in BOOLEAN /\ dashKills \in Nat
  /\ loose => dashKills # 0

Single == \A r, s \in Active : r = s

\* A run that sets up the firewall has switched it off.
Fire ==
  /\ fw.on => fw.rules = (1..FwRules) \ fw.refused
  /\ \A r \in Runs : pc[r] \in {"idle", "reset"} => allowed[r] = 0
  /\ \A r \in Runs : pc[r] = "allow" =>
       ~fw.on /\ fw.refused \subseteq 1..allowed[r] /\ fw.rules = (1..allowed[r]) \ fw.refused

\* The old key does not come back.
NoLegacyKey ==
  /\ \A r \in Runs : pc[r] \in Passed => ~dash.legacy
  /\ backup # None => ~backup.legacy

\* How often the timeout is set, by place.
Timeout ==
  /\ dash.ttl \in {0, 1}
  /\ \A r \in Runs :
       /\ pc[r] \in {"backup", "append", "restart reverted"} => dash.ttl = 0
       /\ pc[r] \in Appended \cup {"set", "configured"} => dash.ttl = 1
       /\ pc[r] \in Appended \cup {"append"} => backup # None /\ backup.ttl = 0
       /\ pc[r] \in Appended => \A s \in Runs : pc[s] \notin {"set", "configured"}

\* The service was restarted with what a run is about to check.
Checked == \A r \in Runs : pc[r] = "check" => up = Accepted(dash)

At(places) == \E r \in Runs : pc[r] \in places

\* Between restarts the dashboard runs if it can, and keeps the timeout only
\* if it takes it.
Upright ==
  /\ ~At(Restarting) => up = Accepted(dash)
  /\ dash.ttl = 1 /\ ~At(Appended) => accepts
  /\ dashKills = 0 /\ ~At(Appended \cup {"append"}) => backup = None

DashInv ==
  /\ Types /\ NoLegacyKey
  /\ ~together => Single /\ Fire /\ Timeout /\ Checked
  /\ ~together /\ ~loose /\ ~slow => Upright

-----------------------------------------------------------------------------
(* Lemmas.                                                                 *)

\* The host as it is installed satisfies the invariant.
LEMMA DashInitInv == Init => DashInv
  <1> SUFFICES ASSUME Init PROVE DashInv OBVIOUS
  <1>1. PICK cast \in Casts : DashInit(cast) BY DEF Init
  <1>2. \A r \in Runs : pc[r] \in {"idle", "absent"} /\ allowed[r] = 0 BY <1>1 DEF DashInit
  <1>3. Types
    BY <1>1, FwRulesAssumption DEF DashInit, Types, File, Places
  <1>4. NoLegacyKey /\ Single
    BY <1>1, <1>2 DEF DashInit, NoLegacyKey, Passed, Restarting, Appended, Single, Active
  <1>5. Fire BY <1>1, <1>2 DEF DashInit, Fire
  <1>6. Timeout BY <1>1, <1>2 DEF DashInit, Timeout, Appended
  <1>7. Upright BY <1>1, <1>2 DEF DashInit, Upright, Accepted, At, Restarting, Appended
  <1>8. Checked BY <1>2 DEF Checked
  <1> QED BY <1>3, <1>4, <1>5, <1>6, <1>7, <1>8 DEF DashInv

\* Where a step leads the run that takes it.
LEMMA GotoPlace ==
  ASSUME Types, NEW r \in Runs, NEW place \in Places, Goto(r, place)
  PROVE  /\ pc' \in [Runs -> Places] /\ pc'[r] = place
         /\ \A s \in Runs \ {r} : pc'[s] = pc[s]
  BY DEF Types, Goto

\* Switched off, and without rules.
LEMMA ResetInv ==
  ASSUME DashInv, NEW r \in Runs, Reset(r)
  PROVE  DashInv'
  <1>0. Types /\ NoLegacyKey BY DEF DashInv
  <1>1. /\ pc' \in [Runs -> Places] /\ pc'[r] = "allow"
        /\ \A s \in Runs \ {r} : pc'[s] = pc[s]
    BY <1>0, GotoPlace DEF Reset, Places, Ended, Restarting, Appended
  <1>2. Types' /\ NoLegacyKey'
    BY <1>0, <1>1 DEF Reset, Types, NoLegacyKey, File, Places, Ended, Passed, Restarting, Appended
  <1>3. ASSUME ~together' PROVE Single' /\ Fire' /\ Timeout' /\ Checked'
    <2>1. ~together /\ Single /\ Fire /\ Timeout BY <1>3 DEF DashInv, Reset
    <2>2. r \in Active BY DEF Reset, Active, Ended
    <2>3. Active' \subseteq Active BY <1>1, <2>2 DEF Active, Ended
    <2>4. \A s \in Runs \ {r} : pc[s] \in Ended \cup {"absent", "idle"}
      BY <2>1, <2>2 DEF Single, Active
    <2>5. Single' BY <2>1, <2>3 DEF Single
    <2>6. Fire'
      <3>1. ~fw'.on /\ fw'.rules = {} /\ fw'.refused = {} /\ allowed' = allowed /\ allowed[r] = 0
        BY <2>1 DEF Reset, Fire
      <3>2. 1..0 = {} OBVIOUS
      <3> QED BY <1>1, <2>1, <2>4, <3>1, <3>2 DEF Fire, Ended
    <2>7. Timeout' BY <1>0, <1>1, <1>2, <2>1, <2>4 DEF Reset, Timeout, Types, File, Appended, Ended
    <2>8. Checked' BY <1>1, <2>4 DEF Checked, Ended
    <2> QED BY <2>5, <2>6, <2>7, <2>8
  <1>4. ASSUME ~together', ~loose', ~slow' PROVE Upright'
    <2>1. /\ ~together /\ ~loose /\ ~slow
          /\ Single /\ Timeout /\ Upright
      BY <1>4 DEF DashInv, Reset, host
    <2>2. r \in Active BY DEF Reset, Active, Ended
    <2>4. \A s \in Runs \ {r} : pc[s] \in Ended \cup {"absent", "idle"}
      BY <2>1, <2>2 DEF Single, Active
    <2> QED BY <1>0, <1>1, <2>1, <2>4
            DEF Reset, Upright, Timeout, NoLegacyKey, Types, File, At, Accepted, host,
                Places, Ended, Passed, Restarting, Appended
  <1> QED BY <1>2, <1>3, <1>4 DEF DashInv

\* One more rule, or one more that is refused, while it does not filter.
LEMMA AllowInv ==
  ASSUME DashInv, NEW r \in Runs, Allow(r) \/ AllowFails(r)
  PROVE  DashInv'
  <1> DEFINE rule == allowed[r] + 1
  <1>0. Types /\ NoLegacyKey BY DEF DashInv
  <1>1. /\ pc[r] = "allow" /\ allowed[r] < FwRules
        /\ allowed' = [allowed EXCEPT ![r] = rule]
        /\ UNCHANGED <<dash, backup, up, host, pc, together, loose, dashKills>>
    BY DEF Allow, AllowFails
  <1>2. /\ fw'.on = fw.on
        /\ \/ fw'.rules = fw.rules \cup {rule} /\ fw'.refused = fw.refused
           \/ fw'.rules = fw.rules /\ fw'.refused = fw.refused \cup {rule}
    BY <1>0 DEF Allow, AllowFails, Types
  <1>3. /\ allowed[r] \in Nat /\ rule \in 1..FwRules /\ allowed'[r] = rule
        /\ \A s \in Runs \ {r} : allowed'[s] = allowed[s]
    BY <1>0, <1>1, FwRulesAssumption DEF Types
  <1>4. Types' /\ NoLegacyKey'
    <2>1. allowed' \in [Runs -> 0..FwRules] BY <1>0, <1>1, <1>3 DEF Types
    <2>2. fw' \in [on : BOOLEAN, rules : SUBSET (1..FwRules), refused : SUBSET (1..FwRules)]
      BY <1>0, <1>3 DEF Allow, AllowFails, Types
    <2> QED BY <1>0, <1>1, <2>1, <2>2 DEF Types, NoLegacyKey
  <1>5. r \in Active BY <1>1 DEF Active, Ended
  <1>6. ASSUME ~together' PROVE Single' /\ Fire' /\ Timeout' /\ Checked'
    <2>1. ~together /\ Single /\ Fire /\ Timeout /\ Checked BY <1>1, <1>6 DEF DashInv
    <2>2. \A s \in Runs \ {r} : pc[s] \in Ended \cup {"absent", "idle"}
      BY <1>5, <2>1 DEF Single, Active
    <2>3. Single' BY <1>1, <2>1 DEF Single, Active
    <2>4. Fire'
      <3>1. ~fw.on /\ fw.refused \subseteq 1..allowed[r] /\ fw.rules = (1..allowed[r]) \ fw.refused
        BY <1>1, <2>1 DEF Fire
      <3>2. 1..rule = 1..allowed[r] \cup {rule} /\ rule \notin 1..allowed[r] BY <1>3
      <3>3. ~fw'.on /\ fw'.refused \subseteq 1..rule /\ fw'.rules = (1..rule) \ fw'.refused
        <4> HIDE DEF rule
        <4> QED BY <1>2, <3>1, <3>2
      <3> QED BY <1>1, <1>3, <2>1, <2>2, <3>3 DEF Fire, Ended
    <2>5. Timeout' BY <1>1, <2>1 DEF Timeout
    <2>6. Checked' BY <1>1, <2>1 DEF Checked, Accepted, host
    <2> QED BY <2>3, <2>4, <2>5, <2>6
  <1>7. ASSUME ~together', ~loose', ~slow' PROVE Upright'
    BY <1>1, <1>7 DEF DashInv, Upright, Accepted, At, host
  <1> QED BY <1>4, <1>6, <1>7 DEF DashInv

\* It filters once every rule is there that ufw took.
LEMMA EnableInv ==
  ASSUME DashInv, NEW r \in Runs, Enable(r)
  PROVE  DashInv'
  <1>0. Types /\ NoLegacyKey BY DEF DashInv
  <1>1. /\ pc' \in [Runs -> Places] /\ pc'[r] = "legacy"
        /\ \A s \in Runs \ {r} : pc'[s] = pc[s]
    BY <1>0, GotoPlace DEF Enable, Places, Ended, Restarting, Appended
  <1>2. Types' /\ NoLegacyKey'
    BY <1>0, <1>1 DEF Enable, Types, NoLegacyKey, File, Places, Ended, Passed, Restarting, Appended
  <1>3. ASSUME ~together' PROVE Single' /\ Fire' /\ Timeout' /\ Checked'
    <2>1. ~together /\ Single /\ Fire /\ Timeout BY <1>3 DEF DashInv, Enable
    <2>2. r \in Active BY DEF Enable, Active, Ended
    <2>3. Active' \subseteq Active BY <1>1, <2>2 DEF Active, Ended
    <2>4. \A s \in Runs \ {r} : pc[s] \in Ended \cup {"absent", "idle"}
      BY <2>1, <2>2 DEF Single, Active
    <2>5. Single' BY <2>1, <2>3 DEF Single
    <2>6. Fire'
      <3>1. /\ fw.rules = (1..FwRules) \ fw.refused /\ fw'.rules = fw.rules
            /\ fw'.refused = fw.refused /\ allowed' = allowed
        BY <1>0, <2>1 DEF Enable, Fire, Types
      <3> QED BY <1>1, <2>1, <2>4, <3>1 DEF Fire, Ended
    <2>7. Timeout' BY <1>0, <1>1, <1>2, <2>1, <2>4 DEF Enable, Timeout, Types, File, Appended, Ended
    <2>8. Checked' BY <1>1, <2>4 DEF Checked, Ended
    <2> QED BY <2>5, <2>6, <2>7, <2>8
  <1>4. ASSUME ~together', ~loose', ~slow' PROVE Upright'
    <2>1. /\ ~together /\ ~loose /\ ~slow
          /\ Single /\ Timeout /\ Upright
      BY <1>4 DEF DashInv, Enable, host
    <2>2. r \in Active BY DEF Enable, Active, Ended
    <2>4. \A s \in Runs \ {r} : pc[s] \in Ended \cup {"absent", "idle"}
      BY <2>1, <2>2 DEF Single, Active
    <2> QED BY <1>0, <1>1, <2>1, <2>4
            DEF Enable, Upright, Timeout, NoLegacyKey, Types, File, At, Accepted,
                host, Places, Ended, Passed, Restarting, Appended
  <1> QED BY <1>2, <1>3, <1>4 DEF DashInv

\* The old key goes; the restart is to come.
LEMMA StripLegacyInv ==
  ASSUME DashInv, NEW r \in Runs, StripLegacy(r)
  PROVE  DashInv'
  <1>0. Types /\ NoLegacyKey BY DEF DashInv
  <1>1. /\ pc' \in [Runs -> Places] /\ pc'[r] = "restart legacy"
        /\ \A s \in Runs \ {r} : pc'[s] = pc[s]
    BY <1>0, GotoPlace DEF StripLegacy, Places, Ended, Restarting, Appended
  <1>2. Types' /\ NoLegacyKey'
    BY <1>0, <1>1
      DEF StripLegacy, Types, NoLegacyKey, File, Places, Ended, Passed, Restarting,
          Appended
  <1>3. ASSUME ~together' PROVE Single' /\ Fire' /\ Timeout' /\ Checked'
    <2>1. ~together /\ Single /\ Fire /\ Timeout BY <1>3 DEF DashInv, StripLegacy
    <2>2. r \in Active BY DEF StripLegacy, Active, Ended
    <2>3. Active' \subseteq Active BY <1>1, <2>2 DEF Active, Ended
    <2>4. \A s \in Runs \ {r} : pc[s] \in Ended \cup {"absent", "idle"}
      BY <2>1, <2>2 DEF Single, Active
    <2>5. Single' BY <2>1, <2>3 DEF Single
    <2>6. Fire' BY <1>0, <1>1, <2>1, <2>4 DEF StripLegacy, Fire, Types
    <2>7. Timeout' BY <1>0, <1>1, <1>2, <2>1, <2>4
      DEF StripLegacy, Timeout, Types, File, Appended, Ended
    <2>8. Checked' BY <1>1, <2>4 DEF Checked, Ended
    <2> QED BY <2>5, <2>6, <2>7, <2>8
  <1>4. ASSUME ~together', ~loose', ~slow' PROVE Upright'
    <2>1. /\ ~together /\ ~loose /\ ~slow
          /\ Single /\ Timeout /\ Upright
      BY <1>4 DEF DashInv, StripLegacy, host
    <2>2. r \in Active BY DEF StripLegacy, Active, Ended
    <2>4. \A s \in Runs \ {r} : pc[s] \in Ended \cup {"absent", "idle"}
      BY <2>1, <2>2 DEF Single, Active
    <2> QED BY <1>0, <1>1, <2>1, <2>4
            DEF StripLegacy, Upright, Timeout, NoLegacyKey, Types, File, At, Accepted,
                host, Places, Ended, Passed, Restarting, Appended
  <1> QED BY <1>2, <1>3, <1>4 DEF DashInv

\* The dashboard runs again, with what it accepts.
LEMMA RestartStrippedInv ==
  ASSUME DashInv, NEW r \in Runs, RestartStripped(r)
  PROVE  DashInv'
  <1>0. Types /\ NoLegacyKey BY DEF DashInv
  <1>1. /\ pc' \in [Runs -> Places] /\ pc'[r] = "grep"
        /\ \A s \in Runs \ {r} : pc'[s] = pc[s]
    BY <1>0, GotoPlace DEF RestartStripped, Places, Ended, Restarting, Appended
  <1>2. Types' /\ NoLegacyKey'
    BY <1>0, <1>1
      DEF RestartStripped, Restart, Accepted, Types, NoLegacyKey, File, Places, Ended,
          Passed, Restarting, Appended
  <1>3. ASSUME ~together' PROVE Single' /\ Fire' /\ Timeout' /\ Checked'
    <2>1. ~together /\ Single /\ Fire /\ Timeout BY <1>3 DEF DashInv, RestartStripped
    <2>2. r \in Active BY DEF RestartStripped, Active, Ended
    <2>3. Active' \subseteq Active BY <1>1, <2>2 DEF Active, Ended
    <2>4. \A s \in Runs \ {r} : pc[s] \in Ended \cup {"absent", "idle"}
      BY <2>1, <2>2 DEF Single, Active
    <2>5. Single' BY <2>1, <2>3 DEF Single
    <2>6. Fire' BY <1>0, <1>1, <2>1, <2>4 DEF RestartStripped, Fire, Types
    <2>7. Timeout' BY <1>0, <1>1, <1>2, <2>1, <2>4
      DEF RestartStripped, Timeout, Types, File, Appended, Ended
    <2>8. Checked' BY <1>1, <2>4 DEF Checked, Ended
    <2> QED BY <2>5, <2>6, <2>7, <2>8
  <1>4. ASSUME ~together', ~loose', ~slow' PROVE Upright'
    <2>1. /\ ~together /\ ~loose /\ ~slow
          /\ Single /\ Timeout /\ Upright
      BY <1>4 DEF DashInv, RestartStripped, host
    <2>2. r \in Active BY DEF RestartStripped, Active, Ended
    <2>4. \A s \in Runs \ {r} : pc[s] \in Ended \cup {"absent", "idle"}
      BY <2>1, <2>2 DEF Single, Active
    <2> QED BY <1>0, <1>1, <2>1, <2>4
            DEF RestartStripped, Restart, Upright, Timeout, NoLegacyKey, Types, File,
                At, Accepted, host, Places, Ended, Passed, Restarting, Appended
  <1> QED BY <1>2, <1>3, <1>4 DEF DashInv

\* Nothing to strip.
LEMMA NoLegacyInv ==
  ASSUME DashInv, NEW r \in Runs, NoLegacy(r)
  PROVE  DashInv'
  <1>0. Types /\ NoLegacyKey BY DEF DashInv
  <1>1. /\ pc' \in [Runs -> Places] /\ pc'[r] = "grep"
        /\ \A s \in Runs \ {r} : pc'[s] = pc[s]
    BY <1>0, GotoPlace DEF NoLegacy, Places, Ended, Restarting, Appended
  <1>2. Types' /\ NoLegacyKey'
    BY <1>0, <1>1
      DEF NoLegacy, Types, NoLegacyKey, File, Places, Ended, Passed, Restarting,
          Appended
  <1>3. ASSUME ~together' PROVE Single' /\ Fire' /\ Timeout' /\ Checked'
    <2>1. ~together /\ Single /\ Fire /\ Timeout BY <1>3 DEF DashInv, NoLegacy
    <2>2. r \in Active BY DEF NoLegacy, Active, Ended
    <2>3. Active' \subseteq Active BY <1>1, <2>2 DEF Active, Ended
    <2>4. \A s \in Runs \ {r} : pc[s] \in Ended \cup {"absent", "idle"}
      BY <2>1, <2>2 DEF Single, Active
    <2>5. Single' BY <2>1, <2>3 DEF Single
    <2>6. Fire' BY <1>0, <1>1, <2>1, <2>4 DEF NoLegacy, Fire, Types
    <2>7. Timeout' BY <1>0, <1>1, <1>2, <2>1, <2>4
      DEF NoLegacy, Timeout, Types, File, Appended, Ended
    <2>8. Checked' BY <1>1, <2>4 DEF Checked, Ended
    <2> QED BY <2>5, <2>6, <2>7, <2>8
  <1>4. ASSUME ~together', ~loose', ~slow' PROVE Upright'
    <2>1. /\ ~together /\ ~loose /\ ~slow
          /\ Single /\ Timeout /\ Upright
      BY <1>4 DEF DashInv, NoLegacy, host
    <2>2. r \in Active BY DEF NoLegacy, Active, Ended
    <2>4. \A s \in Runs \ {r} : pc[s] \in Ended \cup {"absent", "idle"}
      BY <2>1, <2>2 DEF Single, Active
    <2> QED BY <1>0, <1>1, <2>1, <2>4
            DEF NoLegacy, Upright, Timeout, NoLegacyKey, Types, File, At, Accepted,
                host, Places, Ended, Passed, Restarting, Appended
  <1> QED BY <1>2, <1>3, <1>4 DEF DashInv

\* The timeout that is found is the one that was set.
LEMMA AlreadyConfiguredInv ==
  ASSUME DashInv, NEW r \in Runs, AlreadyConfigured(r)
  PROVE  DashInv'
  <1>0. Types /\ NoLegacyKey BY DEF DashInv
  <1>1. /\ pc' \in [Runs -> Places] /\ pc'[r] = "configured"
        /\ \A s \in Runs \ {r} : pc'[s] = pc[s]
    BY <1>0, GotoPlace DEF AlreadyConfigured, Places, Ended, Restarting, Appended
  <1>2. Types' /\ NoLegacyKey'
    BY <1>0, <1>1
      DEF AlreadyConfigured, Types, NoLegacyKey, File, Places, Ended, Passed,
          Restarting, Appended
  <1>3. ASSUME ~together' PROVE Single' /\ Fire' /\ Timeout' /\ Checked'
    <2>1. ~together /\ Single /\ Fire /\ Timeout BY <1>3 DEF DashInv, AlreadyConfigured
    <2>2. r \in Active BY DEF AlreadyConfigured, Active, Ended
    <2>3. Active' \subseteq Active BY <1>1, <2>2 DEF Active, Ended
    <2>4. \A s \in Runs \ {r} : pc[s] \in Ended \cup {"absent", "idle"}
      BY <2>1, <2>2 DEF Single, Active
    <2>5. Single' BY <2>1, <2>3 DEF Single
    <2>6. Fire' BY <1>0, <1>1, <2>1, <2>4 DEF AlreadyConfigured, Fire, Types
    <2>7. Timeout'
      <3>1. dash' = dash /\ backup' = backup BY DEF AlreadyConfigured
      <3>2. dash.ttl = 1
        <4>1. dash.ttl \in {0, 1} BY <2>1 DEF Timeout
        <4>2. dash.ttl > 0 BY DEF AlreadyConfigured
        <4> QED BY <4>1, <4>2
      <3>3. \A s \in Runs : pc'[s] \notin Appended BY <1>1, <2>4 DEF Appended, Ended
      <3> QED BY <1>1, <2>1, <2>4, <3>1, <3>2, <3>3 DEF Timeout, Appended, Ended
    <2>8. Checked' BY <1>1, <2>4 DEF Checked, Ended
    <2> QED BY <2>5, <2>6, <2>7, <2>8
  <1>4. ASSUME ~together', ~loose', ~slow' PROVE Upright'
    <2>1. /\ ~together /\ ~loose /\ ~slow
          /\ Single /\ Timeout /\ Upright
      BY <1>4 DEF DashInv, AlreadyConfigured, host
    <2>2. r \in Active BY DEF AlreadyConfigured, Active, Ended
    <2>4. \A s \in Runs \ {r} : pc[s] \in Ended \cup {"absent", "idle"}
      BY <2>1, <2>2 DEF Single, Active
    <2> QED BY <1>0, <1>1, <2>1, <2>4
            DEF AlreadyConfigured, Upright, Timeout, NoLegacyKey, Types, File, At,
                Accepted, host, Places, Ended, Passed, Restarting, Appended
  <1> QED BY <1>2, <1>3, <1>4 DEF DashInv

\* No timeout yet.
LEMMA NotConfiguredInv ==
  ASSUME DashInv, NEW r \in Runs, NotConfigured(r)
  PROVE  DashInv'
  <1>0. Types /\ NoLegacyKey BY DEF DashInv
  <1>1. /\ pc' \in [Runs -> Places] /\ pc'[r] = "backup"
        /\ \A s \in Runs \ {r} : pc'[s] = pc[s]
    BY <1>0, GotoPlace DEF NotConfigured, Places, Ended, Restarting, Appended
  <1>2. Types' /\ NoLegacyKey'
    BY <1>0, <1>1
      DEF NotConfigured, Types, NoLegacyKey, File, Places, Ended, Passed, Restarting,
          Appended
  <1>3. ASSUME ~together' PROVE Single' /\ Fire' /\ Timeout' /\ Checked'
    <2>1. ~together /\ Single /\ Fire /\ Timeout BY <1>3 DEF DashInv, NotConfigured
    <2>2. r \in Active BY DEF NotConfigured, Active, Ended
    <2>3. Active' \subseteq Active BY <1>1, <2>2 DEF Active, Ended
    <2>4. \A s \in Runs \ {r} : pc[s] \in Ended \cup {"absent", "idle"}
      BY <2>1, <2>2 DEF Single, Active
    <2>5. Single' BY <2>1, <2>3 DEF Single
    <2>6. Fire' BY <1>0, <1>1, <2>1, <2>4 DEF NotConfigured, Fire, Types
    <2>7. Timeout' BY <1>0, <1>1, <1>2, <2>1, <2>4
      DEF NotConfigured, Timeout, Types, File, Appended, Ended
    <2>8. Checked' BY <1>1, <2>4 DEF Checked, Ended
    <2> QED BY <2>5, <2>6, <2>7, <2>8
  <1>4. ASSUME ~together', ~loose', ~slow' PROVE Upright'
    <2>1. /\ ~together /\ ~loose /\ ~slow
          /\ Single /\ Timeout /\ Upright
      BY <1>4 DEF DashInv, NotConfigured, host
    <2>2. r \in Active BY DEF NotConfigured, Active, Ended
    <2>4. \A s \in Runs \ {r} : pc[s] \in Ended \cup {"absent", "idle"}
      BY <2>1, <2>2 DEF Single, Active
    <2> QED BY <1>0, <1>1, <2>1, <2>4
            DEF NotConfigured, Upright, Timeout, NoLegacyKey, Types, File, At,
                Accepted, host, Places, Ended, Passed, Restarting, Appended
  <1> QED BY <1>2, <1>3, <1>4 DEF DashInv

\* The backup holds no timeout.
LEMMA BackUpInv ==
  ASSUME DashInv, NEW r \in Runs, BackUp(r)
  PROVE  DashInv'
  <1>0. Types /\ NoLegacyKey BY DEF DashInv
  <1>1. /\ pc' \in [Runs -> Places] /\ pc'[r] = "append"
        /\ \A s \in Runs \ {r} : pc'[s] = pc[s]
    BY <1>0, GotoPlace DEF BackUp, Places, Ended, Restarting, Appended
  <1>2. Types' /\ NoLegacyKey'
    BY <1>0, <1>1 DEF BackUp, Types, NoLegacyKey, File, Places, Ended, Passed, Restarting, Appended
  <1>3. ASSUME ~together' PROVE Single' /\ Fire' /\ Timeout' /\ Checked'
    <2>1. ~together /\ Single /\ Fire /\ Timeout BY <1>3 DEF DashInv, BackUp
    <2>2. r \in Active BY DEF BackUp, Active, Ended
    <2>3. Active' \subseteq Active BY <1>1, <2>2 DEF Active, Ended
    <2>4. \A s \in Runs \ {r} : pc[s] \in Ended \cup {"absent", "idle"}
      BY <2>1, <2>2 DEF Single, Active
    <2>5. Single' BY <2>1, <2>3 DEF Single
    <2>6. Fire' BY <1>0, <1>1, <2>1, <2>4 DEF BackUp, Fire, Types
    <2>7. Timeout'
      <3>1. dash' = dash /\ backup' = dash /\ dash.ttl = 0 BY <2>1 DEF BackUp, Timeout
      <3>2. dash # None BY <1>0, NoneAssumption DEF Types, File
      <3>3. \A s \in Runs : pc'[s] \notin Appended BY <1>1, <2>4 DEF Appended, Ended
      <3> QED BY <1>1, <2>1, <2>4, <3>1, <3>2, <3>3 DEF Timeout, Ended
    <2>8. Checked' BY <1>1, <2>4 DEF Checked, Ended
    <2> QED BY <2>5, <2>6, <2>7, <2>8
  <1>4. ASSUME ~together', ~loose', ~slow' PROVE Upright'
    <2>1. /\ ~together /\ ~loose /\ ~slow
          /\ Single /\ Timeout /\ Upright
      BY <1>4 DEF DashInv, BackUp, host
    <2>2. r \in Active BY DEF BackUp, Active, Ended
    <2>4. \A s \in Runs \ {r} : pc[s] \in Ended \cup {"absent", "idle"}
      BY <2>1, <2>2 DEF Single, Active
    <2> QED BY <1>0, <1>1, <2>1, <2>4
            DEF BackUp, Upright, Timeout, NoLegacyKey, Types, File, At, Accepted,
                host, Places, Ended, Passed, Restarting, Appended
  <1> QED BY <1>2, <1>3, <1>4 DEF DashInv

\* The first timeout; the backup is still without.
LEMMA AppendTimeoutInv ==
  ASSUME DashInv, NEW r \in Runs, AppendTimeout(r)
  PROVE  DashInv'
  <1>0. Types /\ NoLegacyKey BY DEF DashInv
  <1>1. /\ pc' \in [Runs -> Places] /\ pc'[r] = "restart"
        /\ \A s \in Runs \ {r} : pc'[s] = pc[s]
    BY <1>0, GotoPlace DEF AppendTimeout, Places, Ended, Restarting, Appended
  <1>2. Types' /\ NoLegacyKey'
    <2>1. dash' \in File /\ dash'.legacy = dash.legacy BY <1>0 DEF AppendTimeout, Types, File
    <2> QED BY <1>0, <1>1, <2>1 DEF AppendTimeout, Types, NoLegacyKey, Passed, Restarting, Appended
  <1>3. ASSUME ~together' PROVE Single' /\ Fire' /\ Timeout' /\ Checked'
    <2>1. ~together /\ Single /\ Fire /\ Timeout BY <1>3 DEF DashInv, AppendTimeout
    <2>2. r \in Active BY DEF AppendTimeout, Active, Ended
    <2>3. Active' \subseteq Active BY <1>1, <2>2 DEF Active, Ended
    <2>4. \A s \in Runs \ {r} : pc[s] \in Ended \cup {"absent", "idle"}
      BY <2>1, <2>2 DEF Single, Active
    <2>5. Single' BY <2>1, <2>3 DEF Single
    <2>6. Fire' BY <1>0, <1>1, <2>1, <2>4 DEF AppendTimeout, Fire, Types
    <2>7. Timeout'
      <3>1. dash.ttl = 0 /\ backup' = backup /\ backup # None /\ backup.ttl = 0
        BY <2>1 DEF AppendTimeout, Timeout
      <3>2. dash'.ttl = 1 BY <1>0, <3>1 DEF AppendTimeout, Types, File
      <3>3. \A s \in Runs : pc[s] \notin {"set", "configured"}
        BY <2>1, <3>1 DEF Timeout
      <3> QED BY <1>1, <2>4, <3>1, <3>2, <3>3 DEF Timeout, Appended, Ended
    <2>8. Checked' BY <1>1, <2>4 DEF Checked, Ended
    <2> QED BY <2>5, <2>6, <2>7, <2>8
  <1>4. ASSUME ~together', ~loose', ~slow' PROVE Upright'
    <2>1. /\ ~together /\ ~loose /\ ~slow
          /\ Single /\ Timeout /\ Upright
      BY <1>4 DEF DashInv, AppendTimeout, host
    <2>2. r \in Active BY DEF AppendTimeout, Active, Ended
    <2>4. \A s \in Runs \ {r} : pc[s] \in Ended \cup {"absent", "idle"}
      BY <2>1, <2>2 DEF Single, Active
    <2> QED BY <1>0, <1>1, <2>1, <2>4
            DEF AppendTimeout, Upright, Timeout, NoLegacyKey, Types, File, At,
                Accepted, host, Places, Ended, Passed, Restarting, Appended
  <1> QED BY <1>2, <1>3, <1>4 DEF DashInv

\* It comes up if it takes the timeout.
LEMMA RestartAppendedInv ==
  ASSUME DashInv, NEW r \in Runs, RestartAppended(r)
  PROVE  DashInv'
  <1>0. Types /\ NoLegacyKey BY DEF DashInv
  <1>1. /\ pc' \in [Runs -> Places] /\ pc'[r] = "check"
        /\ \A s \in Runs \ {r} : pc'[s] = pc[s]
    BY <1>0, GotoPlace DEF RestartAppended, Places, Ended, Restarting, Appended
  <1>2. Types' /\ NoLegacyKey'
    BY <1>0, <1>1
      DEF RestartAppended, Restart, Accepted, Types, NoLegacyKey, File, Places, Ended,
          Passed, Restarting, Appended
  <1>3. ASSUME ~together' PROVE Single' /\ Fire' /\ Timeout' /\ Checked'
    <2>1. ~together /\ Single /\ Fire /\ Timeout BY <1>3 DEF DashInv, RestartAppended
    <2>2. r \in Active BY DEF RestartAppended, Active, Ended
    <2>3. Active' \subseteq Active BY <1>1, <2>2 DEF Active, Ended
    <2>4. \A s \in Runs \ {r} : pc[s] \in Ended \cup {"absent", "idle"}
      BY <2>1, <2>2 DEF Single, Active
    <2>5. Single' BY <2>1, <2>3 DEF Single
    <2>6. Fire' BY <1>0, <1>1, <2>1, <2>4 DEF RestartAppended, Fire, Types
    <2>7. Timeout' BY <1>0, <1>1, <1>2, <2>1, <2>4
      DEF RestartAppended, Timeout, Types, File, Appended, Ended
    <2>8. Checked' BY <1>1, <2>4 DEF RestartAppended, Restart, Checked, Accepted, host, Ended
    <2> QED BY <2>5, <2>6, <2>7, <2>8
  <1>4. ASSUME ~together', ~loose', ~slow' PROVE Upright'
    <2>1. /\ ~together /\ ~loose /\ ~slow
          /\ Single /\ Timeout /\ Upright
      BY <1>4 DEF DashInv, RestartAppended, host
    <2>2. r \in Active BY DEF RestartAppended, Active, Ended
    <2>4. \A s \in Runs \ {r} : pc[s] \in Ended \cup {"absent", "idle"}
      BY <2>1, <2>2 DEF Single, Active
    <2> QED BY <1>0, <1>1, <2>1, <2>4
            DEF RestartAppended, Restart, Upright, Timeout, NoLegacyKey, Types, File,
                At, Accepted, host, Places, Ended, Passed, Restarting, Appended
  <1> QED BY <1>2, <1>3, <1>4 DEF DashInv

\* Unless it is slow to fail, it is up and takes the timeout.
LEMMA CheckUpInv ==
  ASSUME DashInv, NEW r \in Runs, CheckUp(r)
  PROVE  DashInv'
  <1>0. Types /\ NoLegacyKey BY DEF DashInv
  <1>1. /\ pc' \in [Runs -> Places] /\ pc'[r] = "set"
        /\ \A s \in Runs \ {r} : pc'[s] = pc[s]
    BY <1>0, GotoPlace DEF CheckUp, Places, Ended, Restarting, Appended
  <1>2. Types' /\ NoLegacyKey'
    BY <1>0, <1>1 DEF CheckUp, Types, NoLegacyKey, File, Places, Ended, Passed, Restarting, Appended
  <1>3. ASSUME ~together' PROVE Single' /\ Fire' /\ Timeout' /\ Checked'
    <2>1. ~together /\ Single /\ Fire /\ Timeout BY <1>3 DEF DashInv, CheckUp
    <2>2. r \in Active BY DEF CheckUp, Active, Ended
    <2>3. Active' \subseteq Active BY <1>1, <2>2 DEF Active, Ended
    <2>4. \A s \in Runs \ {r} : pc[s] \in Ended \cup {"absent", "idle"}
      BY <2>1, <2>2 DEF Single, Active
    <2>5. Single' BY <2>1, <2>3 DEF Single
    <2>6. Fire' BY <1>0, <1>1, <2>1, <2>4 DEF CheckUp, Fire, Types
    <2>7. Timeout' BY <1>0, <1>1, <1>2, <2>1, <2>4
      DEF CheckUp, Timeout, Types, File, Appended, Ended
    <2>8. Checked' BY <1>1, <2>4 DEF Checked, Ended
    <2> QED BY <2>5, <2>6, <2>7, <2>8
  <1>4. ASSUME ~together', ~loose', ~slow' PROVE Upright'
    <2>1. /\ ~together /\ ~slow
          /\ Single /\ Timeout /\ Checked
      BY <1>4 DEF DashInv, CheckUp, host
    <2>2. r \in Active BY DEF CheckUp, Active, Ended
    <2>4. \A s \in Runs \ {r} : pc[s] \in Ended \cup {"absent", "idle"}
      BY <2>1, <2>2 DEF Single, Active
    <2>5. ~At(Restarting) /\ ~At(Restarting)' /\ ~At(Appended)'
      BY <1>1, <2>4 DEF CheckUp, At, Ended, Restarting, Appended
    <2>6. Accepted(dash) /\ up
      BY <2>1 DEF CheckUp, Checked
    <2>7. dash.ttl = 1 BY <2>1 DEF CheckUp, Timeout, Appended
    <2>8. accepts BY <2>6, <2>7 DEF Accepted
    <2>9. dash' = dash /\ up' = up /\ accepts' = accepts /\ backup' = None
      BY DEF CheckUp, host
    <2> QED BY <2>5, <2>6, <2>8, <2>9 DEF Upright, Accepted
  <1> QED BY <1>2, <1>3, <1>4 DEF DashInv

\* The backup, without the timeout, comes back.
LEMMA RevertTimeoutInv ==
  ASSUME DashInv, NEW r \in Runs, RevertTimeout(r)
  PROVE  DashInv'
  <1>0. Types /\ NoLegacyKey BY DEF DashInv
  <1>1. /\ pc' \in [Runs -> Places] /\ pc'[r] = "restart reverted"
        /\ \A s \in Runs \ {r} : pc'[s] = pc[s]
    BY <1>0, GotoPlace DEF RevertTimeout, Places, Ended, Restarting, Appended
  <1>2. Types' /\ NoLegacyKey'
    BY <1>0, <1>1
      DEF RevertTimeout, Types, NoLegacyKey, File, Places, Ended, Passed, Restarting,
          Appended
  <1>3. ASSUME ~together' PROVE Single' /\ Fire' /\ Timeout' /\ Checked'
    <2>1. ~together /\ Single /\ Fire /\ Timeout BY <1>3 DEF DashInv, RevertTimeout
    <2>2. r \in Active BY DEF RevertTimeout, Active, Ended
    <2>3. Active' \subseteq Active BY <1>1, <2>2 DEF Active, Ended
    <2>4. \A s \in Runs \ {r} : pc[s] \in Ended \cup {"absent", "idle"}
      BY <2>1, <2>2 DEF Single, Active
    <2>5. Single' BY <2>1, <2>3 DEF Single
    <2>6. Fire' BY <1>0, <1>1, <2>1, <2>4 DEF RevertTimeout, Fire, Types
    <2>7. Timeout' BY <1>0, <1>1, <1>2, <2>1, <2>4
      DEF RevertTimeout, Timeout, Types, File, Appended, Ended
    <2>8. Checked' BY <1>1, <2>4 DEF Checked, Ended
    <2> QED BY <2>5, <2>6, <2>7, <2>8
  <1>4. ASSUME ~together', ~loose', ~slow' PROVE Upright'
    <2>1. /\ ~together /\ ~loose /\ ~slow
          /\ Single /\ Timeout /\ Upright
      BY <1>4 DEF DashInv, RevertTimeout, host
    <2>2. r \in Active BY DEF RevertTimeout, Active, Ended
    <2>4. \A s \in Runs \ {r} : pc[s] \in Ended \cup {"absent", "idle"}
      BY <2>1, <2>2 DEF Single, Active
    <2> QED BY <1>0, <1>1, <2>1, <2>4
            DEF RevertTimeout, Upright, Timeout, NoLegacyKey, Types, File, At,
                Accepted, host, Places, Ended, Passed, Restarting, Appended
  <1> QED BY <1>2, <1>3, <1>4 DEF DashInv

\* It comes up without the timeout.
LEMMA RestartRevertedInv ==
  ASSUME DashInv, NEW r \in Runs, RestartReverted(r)
  PROVE  DashInv'
  <1>0. Types /\ NoLegacyKey BY DEF DashInv
  <1>1. /\ pc' \in [Runs -> Places] /\ pc'[r] = "reverted"
        /\ \A s \in Runs \ {r} : pc'[s] = pc[s]
    BY <1>0, GotoPlace DEF RestartReverted, Places, Ended, Restarting, Appended
  <1>2. Types' /\ NoLegacyKey'
    BY <1>0, <1>1
      DEF RestartReverted, Restart, Accepted, Types, NoLegacyKey, File, Places, Ended,
          Passed, Restarting, Appended
  <1>3. ASSUME ~together' PROVE Single' /\ Fire' /\ Timeout' /\ Checked'
    <2>1. ~together /\ Single /\ Fire /\ Timeout BY <1>3 DEF DashInv, RestartReverted
    <2>2. r \in Active BY DEF RestartReverted, Active, Ended
    <2>3. Active' \subseteq Active BY <1>1, <2>2 DEF Active, Ended
    <2>4. \A s \in Runs \ {r} : pc[s] \in Ended \cup {"absent", "idle"}
      BY <2>1, <2>2 DEF Single, Active
    <2>5. Single' BY <2>1, <2>3 DEF Single
    <2>6. Fire' BY <1>0, <1>1, <2>1, <2>4 DEF RestartReverted, Fire, Types
    <2>7. Timeout' BY <1>0, <1>1, <1>2, <2>1, <2>4
      DEF RestartReverted, Timeout, Types, File, Appended, Ended
    <2>8. Checked' BY <1>1, <2>4 DEF Checked, Ended
    <2> QED BY <2>5, <2>6, <2>7, <2>8
  <1>4. ASSUME ~together', ~loose', ~slow' PROVE Upright'
    <2>1. /\ ~together /\ ~slow /\ Single /\ Timeout
          /\ ~loose => Upright
      BY <1>4 DEF DashInv, RestartReverted, host
    <2>2. r \in Active BY DEF RestartReverted, Active, Ended
    <2>3. \A s \in Runs \ {r} : pc[s] \in Ended \cup {"absent", "idle"}
      BY <2>1, <2>2 DEF Single, Active
    <2>4. pc[r] = "restart reverted" /\ dash.ttl = 0 BY <2>1 DEF RestartReverted, Timeout
    <2>5. ~dash.legacy BY <1>0, <2>4 DEF NoLegacyKey, Passed, Restarting
    <2>6. dashKills = 0 => backup = None
      <3>1. ~At(Appended \cup {"append"}) BY <2>3, <2>4 DEF At, Ended, Appended
      <3> QED BY <1>0, <2>1, <3>1 DEF Types, Upright
    <2>7. /\ up' = Accepted(dash) /\ dash' = dash /\ accepts' = accepts
          /\ backup' = backup /\ dashKills' = dashKills
      BY DEF RestartReverted, Restart, host
    <2>8. Accepted(dash) /\ Accepted(dash)'
      <3>1. Accepted(dash) BY <2>4, <2>5 DEF Accepted
      <3>2. dash' = dash /\ accepts' = accepts BY <2>7
      <3> QED BY <3>1, <3>2 DEF Accepted
    <2>9. dash'.ttl # 1
      <3>1. dash' = dash /\ dash.ttl = 0 BY <2>4, <2>7
      <3>2. 0 # 1 OBVIOUS
      <3> QED BY <3>1, <3>2
    <2> QED BY <2>6, <2>7, <2>8, <2>9 DEF Upright
  <1> QED BY <1>2, <1>3, <1>4 DEF DashInv

\* A run starts when no other is active, or runs overlap from here on.
LEMMA HardenInv ==
  ASSUME DashInv, NEW r \in Runs, Harden(r)
  PROVE  DashInv'
  <1>0. Types /\ NoLegacyKey BY DEF DashInv
  <1>1. /\ pc' \in [Runs -> Places] /\ pc'[r] = "reset"
        /\ \A s \in Runs \ {r} : pc'[s] = pc[s]
    BY <1>0, GotoPlace DEF Harden, Places, Ended, Restarting, Appended
  <1>2. Types' /\ NoLegacyKey'
    BY <1>0, <1>1 DEF Harden, Types, NoLegacyKey, Passed, Restarting, Appended
  <1>3. ASSUME ~together' PROVE Single' /\ Fire' /\ Timeout' /\ Checked'
    <2>1. ~together /\ Active = {} /\ Fire /\ Timeout /\ Checked BY <1>3 DEF DashInv, Harden
    <2>2. Active' \subseteq {r} BY <1>1, <2>1 DEF Active
    <2>3. Single' BY <2>2 DEF Single
    <2>4. Fire' BY <1>1, <2>1 DEF Harden, Fire
    <2>5. Timeout' BY <1>1, <2>1 DEF Harden, Timeout, Appended
    <2>6. Checked' BY <1>1, <2>1 DEF Harden, Checked, Accepted, host
    <2> QED BY <2>3, <2>4, <2>5, <2>6
  <1>4. ASSUME ~together', ~loose', ~slow' PROVE Upright'
    <2>1. Upright BY <1>4 DEF DashInv, Harden, host
    <2>2. pc[r] = "idle" BY DEF Harden
    <2>3. /\ At(Restarting)' <=> At(Restarting)
          /\ At(Appended)' <=> At(Appended)
          /\ At(Appended \cup {"append"})' <=> At(Appended \cup {"append"})
      BY <1>1, <2>2 DEF At, Restarting, Appended
    <2> QED BY <2>1, <2>3 DEF Harden, Upright, Accepted, host
  <1> QED BY <1>2, <1>3, <1>4 DEF DashInv

\* A killed run stays where the configuration is settled, or is loose.
LEMMA KillRunInv ==
  ASSUME DashInv, NEW r \in Runs, KillRun(r)
  PROVE  DashInv'
  <1>0. Types /\ NoLegacyKey BY DEF DashInv
  <1>1. /\ pc' \in [Runs -> Places] /\ pc'[r] = "killed"
        /\ \A s \in Runs \ {r} : pc'[s] = pc[s]
    BY <1>0, GotoPlace DEF KillRun, Places, Ended, Restarting, Appended
  <1>2. Types' /\ NoLegacyKey'
    <2>1. dashKills' = dashKills + 1 BY DEF KillRun
    <2>2. dashKills \in Nat BY <1>0 DEF Types
    <2>3. dashKills' \in Nat /\ dashKills' # 0 BY <2>1, <2>2
    <2>4. UNCHANGED <<fw, dash, backup, up, allowed>> BY DEF KillRun
    <2> QED BY <1>0, <1>1, <2>3, <2>4 DEF Types, NoLegacyKey, Passed, Restarting, Appended
  <1>3. ASSUME ~together' PROVE Single' /\ Fire' /\ Timeout' /\ Checked'
    <2>1. Single /\ Fire /\ Timeout /\ Checked BY <1>3 DEF DashInv, KillRun
    <2>2. Active' \subseteq Active BY <1>1 DEF Active, Ended
    <2>3. Single' BY <2>1, <2>2 DEF Single
    <2>4. Fire' BY <1>1, <2>1 DEF KillRun, Fire
    <2>5. Timeout' BY <1>1, <2>1 DEF KillRun, Timeout, Appended
    <2>6. Checked' BY <1>1, <2>1 DEF KillRun, Checked, Accepted, host
    <2> QED BY <2>3, <2>4, <2>5, <2>6
  <1>4. ASSUME ~together', ~loose', ~slow' PROVE Upright'
    <2>1. Upright BY <1>4 DEF DashInv, KillRun, host
    <2>2. pc[r] \notin Restarting \cup Appended
      BY <1>4 DEF KillRun, Restarting, Appended
    <2>3. /\ At(Restarting)' <=> At(Restarting)
          /\ At(Appended)' <=> At(Appended)
      BY <1>1, <2>2 DEF At, Restarting, Appended
    <2>4. dashKills' # 0
      <3>1. dashKills' = dashKills + 1 BY DEF KillRun
      <3>2. dashKills \in Nat BY <1>0 DEF Types
      <3> QED BY <3>1, <3>2
    <2> QED BY <2>1, <2>3, <2>4 DEF KillRun, Upright, Accepted, host
  <1> QED BY <1>2, <1>3, <1>4 DEF DashInv

\* The invariant is inductive.
LEMMA NextInv == DashInv /\ [Next]_hostVars => DashInv'
  <1> SUFFICES ASSUME DashInv, [Next]_hostVars PROVE DashInv' OBVIOUS
  <1>1. ASSUME DashNext PROVE DashInv'
    BY <1>1, HardenInv, ResetInv, AllowInv, EnableInv, StripLegacyInv, RestartStrippedInv,
       NoLegacyInv, AlreadyConfiguredInv, NotConfiguredInv, BackUpInv, AppendTimeoutInv,
       RestartAppendedInv, CheckUpInv, RevertTimeoutInv, RestartRevertedInv, KillRunInv
    DEF DashNext
  <1>2. ASSUME UNCHANGED dashVars PROVE DashInv'
    BY <1>2 DEF dashVars, host, DashInv, Types, NoLegacyKey, Single, Active, Fire, Timeout,
                Checked, Upright, At, Accepted
  <1> QED BY <1>1, <1>2 DEF Next, hostVars

\* The place of the active run tells what the host holds.
THEOREM DashInvHolds == Spec => []DashInv
  BY DashInitInv, NextInv, PTL DEF Spec

-----------------------------------------------------------------------------
(* What is promised.                                                       *)

\* However often the script runs and wherever it is killed, a firewall that
\* filters has every rule that ufw did not refuse, the one for the
\* administrator included, as long as runs do not overlap.
THEOREM NobodyIsLockedOut == Spec => []NeverLockedOut
  <1>1. DashInv => NeverLockedOut BY DEF DashInv, Fire, NeverLockedOut
  <1> QED BY <1>1, DashInvHolds, PTL

\* Runs that do not overlap set the timeout once, and say so only if it is set.
THEOREM TimeoutIsSetOnce == Spec => []TimeoutSetOnce
  <1>1. ASSUME DashInv, ~together
        PROVE  dash.ttl <= 1 /\ \A r \in Runs : pc[r] \in {"set", "configured"} => dash.ttl = 1
    <2>1. dash.ttl \in {0, 1} BY <1>1 DEF DashInv, Timeout
    <2>2. dash.ttl <= 1 BY <2>1
    <2> QED BY <1>1, <2>2 DEF DashInv, Timeout
  <1>2. DashInv => TimeoutSetOnce BY <1>1 DEF TimeoutSetOnce
  <1> QED BY <1>2, DashInvHolds, PTL

\* The dashboard runs, with a configuration that it accepts, when a run has
\* ended by itself and none was killed between a change and its check.
THEOREM DashboardEndsUp == Spec => []EndsWithDashboardUp
  <1>1. DashInv => EndsWithDashboardUp
    <2> SUFFICES ASSUME DashInv, ~together, ~loose, ~slow,
                        NEW r \in Runs, pc[r] \in {"set", "reverted", "configured"}, Active = {}
                 PROVE  up /\ Accepted(dash) /\ (dashKills = 0 => backup = None)
      BY DEF EndsWithDashboardUp
    <2>1. Timeout /\ Upright /\ NoLegacyKey BY DEF DashInv
    <2>2. ~At(Restarting) /\ ~At(Appended \cup {"append"}) /\ ~At(Appended)
      BY DEF At, Active, Ended, Restarting, Appended
    <2>3. ~dash.legacy BY <2>1 DEF NoLegacyKey, Passed
    <2>4. Accepted(dash) BY <2>1, <2>2, <2>3 DEF Timeout, Upright, Accepted
    <2> QED BY <2>1, <2>2, <2>4 DEF Upright
  <1> QED BY <1>1, DashInvHolds, PTL

-----------------------------------------------------------------------------
(* ossec.conf: places.                                                     *)

Piecewise == [block : Blocks, text : {"whole", "marked", "unmarked"}]

Sites   == {"absent", "idle", "grep", "read", "open", "write", "part", "restart",
            "enabled", "failed", "killed"}
Merging == {"grep", "read", "open", "write", "part"}
Holding == {"open", "write", "part"}

-----------------------------------------------------------------------------
(* ossec.conf: the inductive invariant.                                    *)

ConfTypes ==
  /\ conf \in Seq(Piecewise) /\ held \in [Callers -> Seq(Piecewise)]
  /\ at \in [Callers -> Sites]
  /\ done \in [Callers -> Nat]
  /\ \A c \in Callers :
       /\ done[c] <= Len(Programs[c])
       /\ at[c] \in {"idle"} \cup Merging => done[c] < Len(Programs[c])
       /\ at[c] \in {"restart", "enabled"} => done[c] = Len(Programs[c])

OneBusy == \A c, d \in Busy : c = d

Once(file) ==
  \A i, j \in DOMAIN file : file[i].text = "whole" /\ file[j] = file[i] => i = j

\* A caller that holds the file has found no marker in it.
Unmarked ==
  \A c \in Callers :
    /\ at[c] = "read" => ~HasMarker(conf, Block(c))
    /\ at[c] \in Holding => Once(held[c]) /\ ~HasMarker(held[c], Block(c))
    /\ at[c] = "open" => held[c] = conf

AllWhole(file) == \A k \in DOMAIN file : file[k].text = "whole"

MergedBlocks == {Base} \cup UNION {{Programs[c][k] : k \in 1..done[c]} : c \in Callers}

\* The file has the blocks that were merged, unless it is being written:
\* then the one who writes has it.
Complete(file) == AllWhole(file) /\ WholeBlocks(file) = MergedBlocks

Kept ==
  /\ ~Writing => Complete(conf)
  /\ \A c \in Callers : at[c] \in Holding => Complete(held[c])

ConfInv ==
  /\ ConfTypes
  /\ ~mixed => OneBusy /\ Once(conf) /\ Unmarked
  /\ ~mixed /\ ~cut => Kept /\ EnabledIsLoaded
-----------------------------------------------------------------------------
(* Lemmas about the file.                                                  *)

\* A non-empty set of natural numbers has a least one.
LEMMA Least ==
  ASSUME NEW S \in SUBSET Nat, S # {}
  PROVE  \E x \in S : \A y \in S : x <= y
  <1>1. PICK x \in S : \A y \in S : ~ (<<y, x>> \in OpToRel(<, Nat))
    BY NatLessThanWellFounded, WFMin
  <1>2. \A y \in S : ~ (y < x)
    BY <1>1 DEF OpToRel
  <1> QED BY <1>2

\* The last place of a set of places of a file is one of them.
LEMMA MaxIn ==
  ASSUME NEW n \in Nat, NEW S \in SUBSET (1..n), S # {}
  PROVE  Max(S) \in S
  <1> DEFINE T == {k \in Nat : \E x \in S : k = n - x}
  <1>1. T \in SUBSET Nat /\ T # {}
    <2>1. PICK x \in S : TRUE OBVIOUS
    <2>2. n - x \in Nat /\ x \in Nat BY <2>1
    <2> QED BY <2>1, <2>2
  <1>2. PICK k \in T : \A j \in T : k <= j
    <2> HIDE DEF T
    <2> QED BY <1>1, Least
  <1>3. PICK x \in S : k = n - x BY <1>2
  <1>4. \A y \in S : y <= x
    <2> TAKE y \in S
    <2>1. n - y \in T /\ x \in 1..n /\ y \in 1..n BY <1>3
    <2> QED BY <2>1, <1>2, <1>3
  <1> QED BY <1>3, <1>4 DEF Max

\* The new block stands at some place of the file, whole, and the pieces keep
\* their order.
LEMMA WithBlockShape ==
  ASSUME NEW file \in Seq(Piecewise), NEW b \in Blocks
  PROVE  /\ WithBlock(file, b) \in Seq(Piecewise)
         /\ Len(WithBlock(file, b)) = Len(file) + 1
         /\ \E e \in 0..Len(file) : \A k \in 1..Len(file) + 1 :
              WithBlock(file, b)[k] = IF k <= e THEN file[k]
                                      ELSE IF k = e + 1 THEN Piece(b, "whole") ELSE file[k - 1]
  <1> DEFINE whole == {k \in DOMAIN file : file[k].text = "whole"}
             e     == IF whole = {} THEN Len(file) ELSE Max(whole)
             head  == SubSeq(file, 1, e)
             new   == <<Piece(b, "whole")>>
             tail  == SubSeq(file, e + 1, Len(file))
  <1>1. Len(file) \in Nat /\ DOMAIN file = 1..Len(file) OBVIOUS
  <1>2. e \in 0..Len(file)
    <2>1. CASE whole = {} BY <2>1, <1>1
    <2>2. CASE whole # {}
      <3>1. whole \in SUBSET (1..Len(file)) BY <1>1
      <3>2. Max(whole) \in whole
        <4> HIDE DEF whole
        <4> QED BY <3>1, <1>1, <2>2, MaxIn
      <3> QED BY <3>1, <3>2, <2>2
    <2> QED BY <2>1, <2>2
  <1>3. Piece(b, "whole") \in Piecewise BY DEF Piece, Piecewise
  <1>4. WithBlock(file, b) = head \o new \o tail BY DEF WithBlock
  <1> HIDE DEF e
  <1>5. /\ head \in Seq(Piecewise) /\ Len(head) = e
        /\ \A k \in 1..e : head[k] = file[k]
    BY <1>1, <1>2
  <1>6. /\ tail \in Seq(Piecewise) /\ Len(tail) = Len(file) - e
        /\ \A k \in 1..Len(file) - e : tail[k] = file[e + k]
    <2>1. /\ \A i \in e + 1..Len(file) : file[i] \in Piecewise
          /\ e \in Nat /\ e + 1 \in Int /\ Len(file) \in Int /\ e <= Len(file)
      BY <1>1, <1>2
    <2>2. /\ tail \in Seq(Piecewise)
          /\ Len(tail) = IF e + 1 <= Len(file) THEN Len(file) - (e + 1) + 1 ELSE 0
          /\ \A i \in 1..Len(file) - (e + 1) + 1 : tail[i] = file[e + 1 + i - 1]
      BY <2>1, SubSeqProperties
    <2> HIDE DEF tail
    <2>3. Len(file) - (e + 1) + 1 = Len(file) - e BY <2>1
    <2>4. Len(tail) = Len(file) - e BY <2>1, <2>2
    <2>5. \A i \in 1..Len(file) - e : e + 1 + i - 1 = e + i BY <2>1
    <2> QED BY <2>2, <2>3, <2>4, <2>5
  <1>7. new \in Seq(Piecewise) /\ Len(new) = 1 /\ new[1] = Piece(b, "whole") BY <1>3
  <1> HIDE DEF head, new, tail
  <1> DEFINE front == head \o new
  <1>8. /\ front \in Seq(Piecewise) /\ Len(front) = e + 1
        /\ \A k \in 1..e + 1 : front[k] = IF k <= e THEN file[k] ELSE Piece(b, "whole")
    <2>1. /\ front \in Seq(Piecewise) /\ Len(front) = Len(head) + Len(new)
          /\ \A k \in 1..Len(head) + Len(new) :
               front[k] = IF k <= Len(head) THEN head[k] ELSE new[k - Len(head)]
      BY <1>5, <1>7, ConcatProperties
    <2> HIDE DEF front
    <2> QED BY <1>2, <1>5, <1>7, <2>1
  <1> HIDE DEF front
  <1>9. /\ front \o tail \in Seq(Piecewise) /\ Len(front \o tail) = Len(file) + 1
        /\ \A k \in 1..Len(file) + 1 :
             (front \o tail)[k] = IF k <= e + 1 THEN front[k] ELSE tail[k - (e + 1)]
    <2>1. /\ front \o tail \in Seq(Piecewise) /\ Len(front \o tail) = Len(front) + Len(tail)
          /\ \A k \in 1..Len(front) + Len(tail) :
               (front \o tail)[k] = IF k <= Len(front) THEN front[k] ELSE tail[k - Len(front)]
      BY <1>6, <1>8, ConcatProperties
    <2>2. Len(front) + Len(tail) = Len(file) + 1 BY <1>1, <1>2, <1>6, <1>8
    <2> QED BY <1>8, <2>1, <2>2
  <1>10. ASSUME NEW k \in 1..Len(file) + 1
         PROVE  (front \o tail)[k] = IF k <= e THEN file[k]
                                     ELSE IF k = e + 1 THEN Piece(b, "whole") ELSE file[k - 1]
    <2>1. CASE k <= e + 1 BY <2>1, <1>2, <1>8, <1>9
    <2>2. CASE ~ (k <= e + 1)
      <3>1. k - (e + 1) \in 1..Len(file) - e /\ e + (k - (e + 1)) = k - 1
        BY <2>2, <1>1, <1>2
      <3>2. ~ (k <= e) /\ k # e + 1 /\ ~ (k <= e + 1) BY <2>2, <1>1, <1>2
      <3>3. (front \o tail)[k] = tail[k - (e + 1)] BY <1>9, <3>2
      <3>4. tail[k - (e + 1)] = file[k - 1] BY <3>1, <1>6
      <3> QED BY <3>2, <3>3, <3>4
    <2> QED BY <2>1, <2>2
  <1> QED BY <1>2, <1>4, <1>9, <1>10 DEF front

\* What merging does to the blocks of a file.
LEMMA WithBlockMerges ==
  ASSUME NEW file \in Seq(Piecewise), NEW b \in Blocks
  PROVE  /\ WholeBlocks(WithBlock(file, b)) = WholeBlocks(file) \cup {b}
         /\ AllWhole(file) => AllWhole(WithBlock(file, b))
         /\ Once(file) /\ ~HasMarker(file, b) => Once(WithBlock(file, b))
  <1> DEFINE W == WithBlock(file, b)
  <1>1. /\ W \in Seq(Piecewise) /\ Len(W) = Len(file) + 1
        /\ \E e \in 0..Len(file) : \A k \in 1..Len(file) + 1 :
             W[k] = IF k <= e THEN file[k]
                    ELSE IF k = e + 1 THEN Piece(b, "whole") ELSE file[k - 1]
    BY WithBlockShape
  <1> HIDE DEF W
  <1>2. PICK e \in 0..Len(file) : \A k \in 1..Len(file) + 1 :
          W[k] = IF k <= e THEN file[k]
                 ELSE IF k = e + 1 THEN Piece(b, "whole") ELSE file[k - 1]
    BY <1>1
  <1>3. /\ Len(file) \in Nat /\ DOMAIN file = 1..Len(file) /\ DOMAIN W = 1..Len(file) + 1
    BY <1>1
  <1>4. Piece(b, "whole").block = b /\ Piece(b, "whole").text = "whole" BY DEF Piece
  \* A place of the new file is the new block, or a place of the old one.
  <1> DEFINE Old(k) == IF k <= e THEN k ELSE k - 1
  <1>5. ASSUME NEW k \in DOMAIN W, k # e + 1
        PROVE  Old(k) \in DOMAIN file /\ W[k] = file[Old(k)]
    <2>1. CASE k <= e BY <2>1, <1>2, <1>3
    <2>2. CASE ~ (k <= e)
      <3>1. k - 1 \in 1..Len(file) BY <2>2, <1>3, <1>5
      <3> QED BY <3>1, <2>2, <1>2, <1>3, <1>5
    <2> QED BY <2>1, <2>2
  <1>6. e + 1 \in DOMAIN W /\ W[e + 1] = Piece(b, "whole")
    BY <1>2, <1>3
  <1>7. ASSUME NEW i \in DOMAIN file
        PROVE  \E k \in DOMAIN W : k # e + 1 /\ W[k] = file[i]
    <2>1. CASE i <= e
      <3>1. i \in DOMAIN W /\ i # e + 1 /\ W[i] = file[i] BY <2>1, <1>2, <1>3
      <3> QED BY <3>1
    <2>2. CASE ~ (i <= e)
      <3>1. i + 1 \in DOMAIN W /\ i + 1 # e + 1 /\ ~ (i + 1 <= e) /\ (i + 1) - 1 = i
        BY <2>2, <1>3
      <3>2. W[i + 1] = file[i] BY <3>1, <1>2, <1>3
      <3> QED BY <3>1, <3>2
    <2> QED BY <2>1, <2>2
  <1>8. \A k, l \in DOMAIN W : k # e + 1 /\ l # e + 1 /\ Old(k) = Old(l) => k = l
    BY <1>2, <1>3
  <1>9. WholeBlocks(W) = WholeBlocks(file) \cup {b}
    <2>1. ASSUME NEW x \in WholeBlocks(W) PROVE x \in WholeBlocks(file) \cup {b}
      <3>1. PICK k \in DOMAIN W : W[k].text = "whole" /\ x = W[k].block BY DEF WholeBlocks
      <3>2. CASE k = e + 1 BY <3>1, <3>2, <1>4, <1>6
      <3>3. CASE k # e + 1
        <4> HIDE DEF Old
        <4> QED BY <3>1, <3>3, <1>5 DEF WholeBlocks
      <3> QED BY <3>2, <3>3
    <2>2. b \in WholeBlocks(W) BY <1>4, <1>6 DEF WholeBlocks
    <2>3. ASSUME NEW x \in WholeBlocks(file) PROVE x \in WholeBlocks(W)
      <3>1. PICK i \in DOMAIN file : file[i].text = "whole" /\ x = file[i].block
        BY DEF WholeBlocks
      <3>2. PICK k \in DOMAIN W : W[k] = file[i] BY <1>7
      <3> QED BY <3>1, <3>2 DEF WholeBlocks
    <2> QED BY <2>1, <2>2, <2>3
  <1> HIDE DEF Old
  <1>10. ASSUME AllWhole(file) PROVE AllWhole(W)
    <2>1. ASSUME NEW k \in DOMAIN W PROVE W[k].text = "whole"
      <3>1. CASE k = e + 1 BY <3>1, <1>4, <1>6
      <3>2. CASE k # e + 1 BY <3>2, <1>5, <1>10 DEF AllWhole
      <3> QED BY <3>1, <3>2
    <2> QED BY <2>1 DEF AllWhole
  <1>11. ASSUME Once(file), ~HasMarker(file, b) PROVE Once(W)
    <2>1. ASSUME NEW k \in DOMAIN W, W[k] = Piece(b, "whole") PROVE k = e + 1
      <3> SUFFICES ASSUME k # e + 1 PROVE FALSE OBVIOUS
      <3>1. Old(k) \in DOMAIN file /\ file[Old(k)] = Piece(b, "whole") BY <1>5, <2>1
      <3> QED BY <3>1, <1>4, <1>11 DEF HasMarker
    <2>2. ASSUME NEW i \in DOMAIN W, NEW j \in DOMAIN W, W[i].text = "whole", W[j] = W[i]
          PROVE  i = j
      <3>1. CASE i = e + 1 BY <3>1, <2>1, <2>2, <1>6
      <3>2. CASE j = e + 1 BY <3>2, <2>1, <2>2, <1>6
      <3>3. CASE i # e + 1 /\ j # e + 1
        <4>1. Old(i) \in DOMAIN file /\ W[i] = file[Old(i)] BY <1>5, <3>3
        <4>2. Old(j) \in DOMAIN file /\ W[j] = file[Old(j)] BY <1>5, <3>3
        <4>3. Old(i) = Old(j) BY <4>1, <4>2, <2>2, <1>11 DEF Once
        <4> QED BY <4>3, <3>3, <1>8
      <3> QED BY <3>1, <3>2, <3>3
    <2> QED BY <2>2 DEF Once
  <1> QED BY <1>9, <1>10, <1>11 DEF W

\* A file that is cut off has a block twice only if the whole one has.
LEMMA CutsOnce ==
  ASSUME NEW file \in Seq(Piecewise), NEW f \in Cuts(file)
  PROVE  f \in Seq(Piecewise) /\ (Once(file) => Once(f))
  <1>1. PICK k \in DOMAIN file :
          \/ f = SubSeq(file, 1, k - 1)
          \/ \E text \in {"marked", "unmarked"} :
               f = Append(SubSeq(file, 1, k - 1), Piece(file[k].block, text))
    BY DEF Cuts
  <1> DEFINE head == SubSeq(file, 1, k - 1)
  <1>2. /\ head \in Seq(Piecewise) /\ Len(head) = k - 1 /\ k \in 1..Len(file)
        /\ \A i \in 1..k - 1 : i \in DOMAIN file /\ head[i] = file[i]
        /\ DOMAIN head = 1..k - 1
    OBVIOUS
  <1> HIDE DEF head
  <1>3. CASE f = head
    <2>1. Once(file) => Once(f) BY <1>2, <1>3 DEF Once
    <2> QED BY <2>1, <1>2, <1>3
  <1>4. ASSUME NEW text \in {"marked", "unmarked"},
               f = Append(head, Piece(file[k].block, text))
        PROVE  f \in Seq(Piecewise) /\ (Once(file) => Once(f))
    <2> DEFINE p == Piece(file[k].block, text)
    <2>1. p \in Piecewise /\ p.text # "whole"
      <3>1. file[k] \in Piecewise BY <1>1
      <3> QED BY <3>1, <1>4 DEF Piece, Piecewise
    <2> HIDE DEF p
    <2>2. /\ f \in Seq(Piecewise) /\ Len(f) = k /\ DOMAIN f = 1..k
          /\ f[k] = p /\ \A i \in 1..k - 1 : f[i] = file[i]
      <3>1. f = Append(head, p) BY <1>4 DEF p
      <3> QED BY <3>1, <2>1, <1>2
    <2>3. ASSUME Once(file), NEW i \in DOMAIN f, NEW j \in DOMAIN f,
                 f[i].text = "whole", f[j] = f[i]
          PROVE  i = j
      <3>1. i # k /\ j # k BY <2>1, <2>2, <2>3
      <3>2. i \in 1..k - 1 /\ j \in 1..k - 1 BY <3>1, <2>2, <1>2
      <3>3. file[i].text = "whole" /\ file[j] = file[i] BY <3>2, <2>2, <2>3
      <3> QED BY <3>2, <3>3, <1>2, <2>3 DEF Once
    <2> QED BY <2>2, <2>3 DEF Once
  <1> QED BY <1>1, <1>3, <1>4 DEF head

\* In a file of whole blocks those with a marker are those that are whole.
LEMMA MarkersOfWhole ==
  ASSUME NEW file, AllWhole(file), NEW b
  PROVE  HasMarker(file, b) <=> b \in WholeBlocks(file)
  BY DEF AllWhole, HasMarker, WholeBlocks

-----------------------------------------------------------------------------
(* Lemmas about the state.                                                 *)

\* A caller that merges has a block to merge, and it is not the package's.
LEMMA BlockToMerge ==
  ASSUME ConfTypes, NEW c \in Callers, at[c] \in Merging
  PROVE  /\ done[c] + 1 \in 1..Len(Programs[c])
         /\ Block(c) \in Blocks \ {Base}
  <1>1. Programs[c] \in Seq(Blocks \ {Base}) BY ProgramsAssumption
  <1>2. done[c] \in Nat /\ done[c] < Len(Programs[c]) BY DEF ConfTypes
  <1>3. done[c] + 1 \in 1..Len(Programs[c]) BY <1>1, <1>2
  <1> QED BY <1>1, <1>3 DEF Block

\* As long as callers do not overlap, the one that takes a step is the only
\* one that is active, before and after.
LEMMA BusyStep ==
  ASSUME ConfTypes, OneBusy, NEW c \in Busy, NEW place, at' = [at EXCEPT ![c] = place]
  PROVE  /\ OneBusy'
         /\ \A d \in Callers : d # c =>
              at'[d] = at[d] /\ at[d] \in {"absent", "idle", "enabled", "failed", "killed"}
  <1>1. c \in Callers /\ \A d \in Callers : d # c => d \notin Busy
    BY DEF OneBusy, Busy
  <1>2. \A d \in Callers : d # c =>
          at'[d] = at[d] /\ at[d] \in {"absent", "idle", "enabled", "failed", "killed"}
    BY <1>1 DEF Busy, ConfTypes
  <1>3. Busy' \subseteq {c} BY <1>2 DEF Busy
  <1> QED BY <1>2, <1>3 DEF OneBusy

\* A caller that has got to the restart has all its blocks among the merged.
LEMMA AllMerged ==
  ASSUME ConfTypes, NEW c \in Callers, at[c] \in {"restart", "enabled"}
  PROVE  {Base} \cup ToSet(Programs[c]) \subseteq MergedBlocks
  <1>1. Programs[c] \in Seq(Blocks \ {Base}) BY ProgramsAssumption
  <1>2. done[c] = Len(Programs[c]) BY DEF ConfTypes
  <1> QED BY <1>1, <1>2 DEF ToSet, MergedBlocks

\* What Merged does to the places and to the set of merged blocks.
LEMMA MergedStep ==
  ASSUME ConfTypes, NEW c \in Callers, at[c] \in Merging, Merged(c)
  PROVE  /\ \E place \in {"grep", "restart"} : at' = [at EXCEPT ![c] = place]
         /\ at' \in [Callers -> Sites] /\ done' \in [Callers -> Nat]
         /\ \A d \in Callers :
              /\ done'[d] <= Len(Programs[d])
              /\ at'[d] \in {"idle"} \cup Merging => done'[d] < Len(Programs[d])
              /\ at'[d] \in {"restart", "enabled"} => done'[d] = Len(Programs[d])
         /\ MergedBlocks' = MergedBlocks \cup {Block(c)}
  <1>1. Programs[c] \in Seq(Blocks \ {Base}) BY ProgramsAssumption
  <1>2. Len(Programs[c]) \in Nat BY <1>1
  <1>3. done \in [Callers -> Nat] /\ done[c] < Len(Programs[c]) /\ at \in [Callers -> Sites]
    BY DEF ConfTypes
  <1>4. done' = [done EXCEPT ![c] = done[c] + 1] BY DEF Merged
  <1>5. at' = [at EXCEPT ![c] = IF done[c] + 1 < Len(Programs[c]) THEN "grep" ELSE "restart"]
    BY DEF Merged, Go
  <1>6. done' \in [Callers -> Nat] BY <1>3, <1>4
  <1>7. at' \in [Callers -> Sites] BY <1>3, <1>5 DEF Sites
  <1>8. ASSUME NEW d \in Callers
        PROVE  /\ done'[d] <= Len(Programs[d])
               /\ at'[d] \in {"idle"} \cup Merging => done'[d] < Len(Programs[d])
               /\ at'[d] \in {"restart", "enabled"} => done'[d] = Len(Programs[d])
    <2>1. CASE d = c
      <3>1. done'[d] = done[c] + 1 BY <1>3, <1>4, <2>1
      <3>2. at'[d] = IF done[c] + 1 < Len(Programs[c]) THEN "grep" ELSE "restart"
        BY <1>3, <1>5, <2>1
      <3> QED BY <1>2, <1>3, <2>1, <3>1, <3>2 DEF Merging
    <2>2. CASE d # c
      <3>1. done'[d] = done[d] /\ at'[d] = at[d] BY <1>3, <1>4, <1>5, <2>2
      <3> QED BY <3>1 DEF ConfTypes
    <2> QED BY <2>1, <2>2
  <1>9. MergedBlocks' = MergedBlocks \cup {Block(c)}
    <2> DEFINE Of(d) == {Programs[d][k] : k \in 1..done[d]}
               New(d) == {Programs[d][k] : k \in 1..done'[d]}
    <2>1. \A d \in Callers : New(d) = IF d = c THEN Of(d) \cup {Block(c)} ELSE Of(d)
      <3> TAKE d \in Callers
      <3>1. CASE d = c
        <4>1. done'[c] = done[c] + 1 /\ done[c] \in Nat BY <1>3, <1>4
        <4>2. 1..done[c] + 1 = 1..done[c] \cup {done[c] + 1} BY <4>1
        <4> QED BY <3>1, <4>1, <4>2 DEF Block
      <3>2. CASE d # c BY <1>3, <1>4, <3>2
      <3> QED BY <3>1, <3>2
    <2>2. MergedBlocks = {Base} \cup UNION {Of(d) : d \in Callers} BY DEF MergedBlocks
    <2>3. MergedBlocks' = {Base} \cup UNION {New(d) : d \in Callers} BY DEF MergedBlocks
    <2> HIDE DEF Of, New
    <2> QED BY <2>1, <2>2, <2>3
  <1> QED BY <1>5, <1>6, <1>7, <1>8, <1>9

\* A step that only moves a caller to a place where nothing more is asked of it
\* than before keeps the types.
LEMMA MoveTypes ==
  ASSUME ConfTypes, NEW c \in Callers, NEW place \in Sites, Go(c, place), done' = done,
         conf' \in Seq(Piecewise), held' \in [Callers -> Seq(Piecewise)],
         place \in {"idle"} \cup Merging => done[c] < Len(Programs[c]),
         place \in {"restart", "enabled"} => done[c] = Len(Programs[c])
  PROVE  ConfTypes'
  <1>1. at' = [at EXCEPT ![c] = place] /\ at \in [Callers -> Sites] BY DEF Go, ConfTypes
  <1>2. at' \in [Callers -> Sites] BY <1>1
  <1>3. \A d \in Callers : at'[d] = IF d = c THEN place ELSE at[d] BY <1>1
  <1> QED BY <1>2, <1>3 DEF ConfTypes

-----------------------------------------------------------------------------
(* Every step keeps the invariant.                                         *)

\* The installed host satisfies the invariant.
LEMMA ConfInitInv == Init => ConfInv
  <1> SUFFICES ASSUME Init PROVE ConfInv OBVIOUS
  <1>1. PICK cast \in Casts : ConfInit(cast) BY DEF Init
  <1> DEFINE first == <<Piece(Base, "whole")>>
  <1>2. /\ first \in Seq(Piecewise) /\ Len(first) = 1 /\ DOMAIN first = {1}
        /\ first[1].text = "whole" /\ first[1].block = Base
    BY DEF Piece, Piecewise, Blocks
  <1>3. conf = first /\ \A c \in Callers : at[c] \in {"idle", "absent"} /\ done[c] = 0
    BY <1>1 DEF ConfInit
  <1> HIDE DEF first
  <1>4. ConfTypes
    <2>1. \A c \in Callers : Programs[c] \in Seq(Blocks \ {Base}) /\ Programs[c] # <<>>
      BY ProgramsAssumption
    <2>2. \A c \in Callers : Len(Programs[c]) \in Nat /\ Len(Programs[c]) > 0 BY <2>1
    <2>3. held \in [Callers -> Seq(Piecewise)] BY <1>1 DEF ConfInit
    <2>4. at \in [Callers -> Sites] BY <1>1 DEF ConfInit, Sites
    <2>5. done \in [Callers -> Nat] BY <1>1 DEF ConfInit
    <2> QED BY <1>2, <1>3, <2>2, <2>3, <2>4, <2>5 DEF ConfTypes, Merging
  <1>5. OneBusy BY <1>3 DEF OneBusy, Busy
  <1>6. Once(conf) BY <1>2, <1>3 DEF Once
  <1>7. Unmarked BY <1>3 DEF Unmarked, Holding
  <1>8. Complete(conf)
    <2>1. MergedBlocks = {Base}
      <3>1. 1..0 = {} OBVIOUS
      <3> QED BY <1>3, <3>1 DEF MergedBlocks
    <2> QED BY <1>2, <1>3, <2>1 DEF Complete, AllWhole, WholeBlocks
  <1>9. Kept /\ EnabledIsLoaded
    BY <1>3, <1>8 DEF Kept, Holding, EnabledIsLoaded
  <1> QED BY <1>4, <1>5, <1>6, <1>7, <1>9 DEF ConfInv

\* Starting a script touches nothing; overlaps are noted.
LEMMA CallInv == ASSUME ConfInv, NEW c \in Callers, Call(c) PROVE ConfInv'
  <1>1. ConfTypes BY DEF ConfInv
  <1>2. /\ at[c] = "idle" /\ Go(c, "grep") /\ conf' = conf /\ service' = service
        /\ done' = done /\ held' = held /\ cut' = cut
    BY DEF Call
  <1>3. ~mixed' => ~mixed /\ Busy = {} BY DEF Call
  <1>4. at' = [at EXCEPT ![c] = "grep"] /\ \A d \in Callers : d # c => at'[d] = at[d]
    BY <1>1, <1>2 DEF Go, ConfTypes
  <1>5. at'[c] = "grep" BY <1>1, <1>4 DEF ConfTypes
  <1>6. ConfTypes'
    <2>1. done[c] < Len(Programs[c]) BY <1>1, <1>2 DEF ConfTypes
    <2>2. conf' \in Seq(Piecewise) /\ held' \in [Callers -> Seq(Piecewise)]
      BY <1>1, <1>2 DEF ConfTypes
    <2> QED BY <1>1, <1>2, <2>1, <2>2, MoveTypes DEF Sites
  <1>7. ASSUME ~mixed' PROVE OneBusy' /\ Once(conf)' /\ Unmarked'
    <2>1. Busy' \subseteq {c}
      <3>1. \A d \in Callers : d # c => d \notin Busy' BY <1>3, <1>4, <1>7 DEF Busy
      <3> QED BY <3>1 DEF Busy
    <2>2. OneBusy' BY <2>1 DEF OneBusy
    <2>3. Once(conf)' BY <1>2, <1>3, <1>7 DEF ConfInv, Once
    <2>4. Unmarked'
      <3>1. Unmarked BY <1>3, <1>7 DEF ConfInv
      <3> QED BY <3>1, <1>2, <1>4, <1>5 DEF Unmarked, Holding, Once, HasMarker, Block
    <2> QED BY <2>2, <2>3, <2>4
  <1>8. ASSUME ~mixed', ~cut' PROVE Kept' /\ EnabledIsLoaded'
    <2>1. Kept /\ EnabledIsLoaded BY <1>2, <1>3, <1>8 DEF ConfInv
    <2>2. Writing' <=> Writing BY <1>2, <1>4, <1>5 DEF Writing
    <2>3. MergedBlocks' = MergedBlocks BY <1>2 DEF MergedBlocks
    <2>5. Kept'
      BY <2>1, <2>2, <2>3, <1>2, <1>4, <1>5
      DEF Kept, Holding, Complete, AllWhole, WholeBlocks
    <2>6. EnabledIsLoaded'
      BY <2>1, <1>2, <1>3, <1>4, <1>5, <1>8 DEF EnabledIsLoaded, WholeBlocks
    <2> QED BY <2>5, <2>6
  <1> QED BY <1>6, <1>7, <1>8 DEF ConfInv

\* A block with a marker is in the file, so that skipping it merges it.
LEMMA SkipInv == ASSUME ConfInv, NEW c \in Callers, Skip(c) PROVE ConfInv'
  <1>1. ConfTypes BY DEF ConfInv
  <1>2. /\ at[c] = "grep" /\ HasMarker(conf, Block(c)) /\ Merged(c)
        /\ conf' = conf /\ service' = service /\ held' = held /\ mixed' = mixed /\ cut' = cut
    BY DEF Skip
  <1>3. c \in Busy /\ at[c] \in Merging BY <1>2 DEF Busy, Merging
  <1>4. PICK place \in {"grep", "restart"} : at' = [at EXCEPT ![c] = place]
    BY <1>1, <1>2, <1>3, MergedStep
  <1>5. at'[c] = place BY <1>1, <1>4 DEF ConfTypes
  <1>6. MergedBlocks' = MergedBlocks \cup {Block(c)} BY <1>1, <1>2, <1>3, MergedStep
  <1>7. ConfTypes' BY <1>1, <1>2, <1>3, MergedStep DEF ConfTypes
  <1>8. ASSUME ~mixed
        PROVE  /\ OneBusy' /\ OneBusy
               /\ \A d \in Callers : d # c =>
                    at'[d] = at[d] /\ at[d] \in {"absent", "idle", "enabled", "failed", "killed"}
    <2>1. OneBusy BY <1>8 DEF ConfInv
    <2> QED BY <2>1, <1>1, <1>3, <1>4, BusyStep
  <1>9. ASSUME ~mixed' PROVE OneBusy' /\ Once(conf)' /\ Unmarked'
    <2>1. Once(conf)' BY <1>2, <1>9 DEF ConfInv, Once
    <2>2. \A d \in Callers : at'[d] \notin Holding \cup {"read"}
      BY <1>2, <1>5, <1>8, <1>9 DEF Holding
    <2> QED BY <2>1, <2>2, <1>2, <1>8, <1>9 DEF Unmarked, Holding
  <1>10. ASSUME ~mixed', ~cut' PROVE Kept' /\ EnabledIsLoaded'
    <2>1. Kept /\ EnabledIsLoaded BY <1>2, <1>10 DEF ConfInv
    <2>2. \A d \in Callers : at[d] \notin Holding /\ at'[d] \notin Holding
      BY <1>2, <1>5, <1>8, <1>10 DEF Holding
    <2>3. Complete(conf) BY <2>1, <2>2 DEF Kept, Writing, Holding
    <2>4. MergedBlocks' = MergedBlocks
      BY <2>3, <1>2, <1>6, MarkersOfWhole DEF Complete
    <2>5. Complete(conf)' BY <2>3, <2>4, <1>2 DEF Complete, AllWhole, WholeBlocks
    <2>6. Kept' BY <2>2, <2>5 DEF Kept
    <2>7. EnabledIsLoaded'
      BY <2>1, <1>2, <1>5, <1>8, <1>10 DEF EnabledIsLoaded, WholeBlocks
    <2> QED BY <2>6, <2>7
  <1> QED BY <1>7, <1>9, <1>10 DEF ConfInv

\* A block is taken up only if the file has no marker of it.
LEMMA InsertInv == ASSUME ConfInv, NEW c \in Callers, Insert(c) PROVE ConfInv'
  <1>1. ConfTypes BY DEF ConfInv
  <1>2. /\ at[c] = "grep" /\ ~HasMarker(conf, Block(c)) /\ Go(c, "read") /\ done' = done
        /\ conf' = conf /\ service' = service /\ held' = held /\ mixed' = mixed /\ cut' = cut
    BY DEF Insert
  <1>3. c \in Busy /\ at' = [at EXCEPT ![c] = "read"] BY <1>2 DEF Busy, Go
  <1>4. at'[c] = "read" BY <1>1, <1>3 DEF ConfTypes
  <1>5. MergedBlocks' = MergedBlocks BY <1>2 DEF MergedBlocks
  <1>6. ConfTypes'
    <2>1. done[c] < Len(Programs[c]) BY <1>1, <1>2 DEF ConfTypes, Merging
    <2>2. conf' \in Seq(Piecewise) /\ held' \in [Callers -> Seq(Piecewise)]
      BY <1>1, <1>2 DEF ConfTypes
    <2> QED BY <1>1, <1>2, <2>1, <2>2, MoveTypes DEF Sites
  <1>7. ASSUME ~mixed
        PROVE  /\ OneBusy' /\ OneBusy
               /\ \A d \in Callers : d # c =>
                    at'[d] = at[d] /\ at[d] \in {"absent", "idle", "enabled", "failed", "killed"}
    <2>1. OneBusy BY <1>7 DEF ConfInv
    <2> QED BY <2>1, <1>1, <1>3, BusyStep
  <1>8. ASSUME ~mixed' PROVE OneBusy' /\ Once(conf)' /\ Unmarked'
    <2>1. Once(conf)' BY <1>2, <1>8 DEF ConfInv, Once
    <2>2. \A d \in Callers : at'[d] \notin Holding /\ (at'[d] = "read" => d = c)
      BY <1>2, <1>4, <1>7, <1>8 DEF Holding
    <2>3. ~HasMarker(conf, Block(c))' BY <1>2 DEF HasMarker, Block
    <2> QED BY <2>1, <2>2, <2>3, <1>2, <1>7, <1>8 DEF Unmarked, Holding
  <1>9. ASSUME ~mixed', ~cut' PROVE Kept' /\ EnabledIsLoaded'
    <2>1. Kept /\ EnabledIsLoaded BY <1>2, <1>9 DEF ConfInv
    <2>2. \A d \in Callers : at[d] \notin Holding /\ at'[d] \notin Holding
      BY <1>2, <1>4, <1>7, <1>9 DEF Holding
    <2>3. Complete(conf) BY <2>1, <2>2 DEF Kept, Writing, Holding
    <2>4. Complete(conf)' BY <2>3, <1>2, <1>5 DEF Complete, AllWhole, WholeBlocks
    <2>5. Kept' BY <2>2, <2>4 DEF Kept
    <2>6. EnabledIsLoaded'
      BY <2>1, <1>2, <1>4, <1>7, <1>9 DEF EnabledIsLoaded, WholeBlocks
    <2> QED BY <2>5, <2>6
  <1> QED BY <1>6, <1>8, <1>9 DEF ConfInv

\* What a caller reads is the file, which nobody else is writing.
LEMMA ReadInv == ASSUME ConfInv, NEW c \in Callers, Read(c) PROVE ConfInv'
  <1>1. ConfTypes BY DEF ConfInv
  <1>2. /\ at[c] = "read" /\ held' = [held EXCEPT ![c] = conf] /\ Go(c, "open") /\ done' = done
        /\ conf' = conf /\ service' = service /\ mixed' = mixed /\ cut' = cut
    BY DEF Read
  <1>3. c \in Busy /\ at' = [at EXCEPT ![c] = "open"] BY <1>2 DEF Busy, Go
  <1>4. at'[c] = "open" /\ held'[c] = conf BY <1>1, <1>2, <1>3 DEF ConfTypes
  <1>5. MergedBlocks' = MergedBlocks BY <1>2 DEF MergedBlocks
  <1>6. ConfTypes'
    <2>1. done[c] < Len(Programs[c]) BY <1>1, <1>2 DEF ConfTypes, Merging
    <2>2. conf' \in Seq(Piecewise) /\ held' \in [Callers -> Seq(Piecewise)]
      BY <1>1, <1>2 DEF ConfTypes
    <2> QED BY <1>1, <1>2, <2>1, <2>2, MoveTypes DEF Sites
  <1>7. ASSUME ~mixed
        PROVE  /\ OneBusy' /\ OneBusy
               /\ \A d \in Callers : d # c =>
                    at'[d] = at[d] /\ at[d] \in {"absent", "idle", "enabled", "failed", "killed"}
    <2>1. OneBusy BY <1>7 DEF ConfInv
    <2> QED BY <2>1, <1>1, <1>3, BusyStep
  <1>8. ASSUME ~mixed' PROVE OneBusy' /\ Once(conf)' /\ Unmarked'
    <2>1. Once(conf) /\ ~HasMarker(conf, Block(c)) BY <1>2, <1>8 DEF ConfInv, Unmarked
    <2>2. \A d \in Callers : at'[d] # "read" /\ (at'[d] \in Holding => d = c)
      BY <1>2, <1>4, <1>7, <1>8 DEF Holding
    <2>3. Once(conf)' /\ Once(held[c])' BY <2>1, <1>2, <1>4 DEF Once
    <2>4. ~HasMarker(held[c], Block(c))' BY <2>1, <1>2, <1>4 DEF HasMarker, Block
    <2> QED BY <2>2, <2>3, <2>4, <1>2, <1>4, <1>7, <1>8 DEF Unmarked
  <1>9. ASSUME ~mixed', ~cut' PROVE Kept' /\ EnabledIsLoaded'
    <2>1. Kept /\ EnabledIsLoaded BY <1>2, <1>9 DEF ConfInv
    <2>2. \A d \in Callers : at[d] \notin Holding /\ (at'[d] \in Holding => d = c)
      BY <1>2, <1>4, <1>7, <1>9 DEF Holding
    <2>3. Complete(conf) BY <2>1, <2>2 DEF Kept, Writing, Holding
    <2>4. Complete(conf)' /\ Complete(held[c])'
      BY <2>3, <1>2, <1>4, <1>5 DEF Complete, AllWhole, WholeBlocks
    <2>5. Kept' BY <2>2, <2>4 DEF Kept
    <2>6. EnabledIsLoaded'
      BY <2>1, <1>2, <1>4, <1>7, <1>9 DEF EnabledIsLoaded, WholeBlocks
    <2> QED BY <2>5, <2>6
  <1> QED BY <1>6, <1>8, <1>9 DEF ConfInv

\* Opening empties the file: what it had is with the caller.
LEMMA OpenInv == ASSUME ConfInv, NEW c \in Callers, Open(c) PROVE ConfInv'
  <1>1. ConfTypes BY DEF ConfInv
  <1>2. /\ at[c] = "open" /\ conf' = <<>> /\ Go(c, "write") /\ done' = done
        /\ held' = held /\ service' = service /\ mixed' = mixed /\ cut' = cut
    BY DEF Open
  <1>3. c \in Busy /\ at' = [at EXCEPT ![c] = "write"] BY <1>2 DEF Busy, Go
  <1>4. at'[c] = "write" BY <1>1, <1>3 DEF ConfTypes
  <1>5. MergedBlocks' = MergedBlocks BY <1>2 DEF MergedBlocks
  <1>6. ConfTypes'
    <2>1. done[c] < Len(Programs[c]) BY <1>1, <1>2 DEF ConfTypes, Merging
    <2>2. conf' \in Seq(Piecewise) /\ held' \in [Callers -> Seq(Piecewise)]
      BY <1>1, <1>2 DEF ConfTypes
    <2> QED BY <1>1, <1>2, <2>1, <2>2, MoveTypes DEF Sites
  <1>7. ASSUME ~mixed
        PROVE  /\ OneBusy' /\ OneBusy
               /\ \A d \in Callers : d # c =>
                    at'[d] = at[d] /\ at[d] \in {"absent", "idle", "enabled", "failed", "killed"}
    <2>1. OneBusy BY <1>7 DEF ConfInv
    <2> QED BY <2>1, <1>1, <1>3, BusyStep
  <1>8. ASSUME ~mixed' PROVE OneBusy' /\ Once(conf)' /\ Unmarked'
    <2>1. Once(held[c]) /\ ~HasMarker(held[c], Block(c))
      BY <1>2, <1>8 DEF ConfInv, Unmarked, Holding
    <2>2. \A d \in Callers : at'[d] \notin {"read", "open"} /\ (at'[d] \in Holding => d = c)
      BY <1>2, <1>4, <1>7, <1>8 DEF Holding
    <2>3. Once(conf)'
      <3>1. DOMAIN conf' = {} BY <1>2
      <3> QED BY <3>1 DEF Once
    <2>4. Once(held[c])' /\ ~HasMarker(held[c], Block(c))'
      BY <2>1, <1>2 DEF Once, HasMarker, Block
    <2> QED BY <2>2, <2>3, <2>4, <1>2, <1>7, <1>8 DEF Unmarked
  <1>9. ASSUME ~mixed', ~cut' PROVE Kept' /\ EnabledIsLoaded'
    <2>1. Kept /\ EnabledIsLoaded BY <1>2, <1>9 DEF ConfInv
    <2>2. Writing' /\ \A d \in Callers : at'[d] \in Holding => d = c
      BY <1>2, <1>4, <1>7, <1>9 DEF Holding, Writing
    <2>3. Complete(held[c]) BY <2>1, <1>2 DEF Kept, Holding
    <2>4. Complete(held[c])' BY <2>3, <1>2, <1>5 DEF Complete, AllWhole, WholeBlocks
    <2>5. Kept' BY <2>2, <2>4 DEF Kept
    <2>6. EnabledIsLoaded'
      BY <2>1, <1>2, <1>4, <1>7, <1>9 DEF EnabledIsLoaded, WholeBlocks
    <2> QED BY <2>5, <2>6
  <1> QED BY <1>6, <1>8, <1>9 DEF ConfInv

\* While the file is written it is a part of what the caller will leave.
LEMMA WritePartInv == ASSUME ConfInv, NEW c \in Callers, WritePart(c) PROVE ConfInv'
  <1> DEFINE W == WithBlock(held[c], Block(c))
  <1>1. ConfTypes BY DEF ConfInv
  <1>2. /\ at[c] = "write" /\ conf' \in Cuts(W) /\ Go(c, "part") /\ done' = done
        /\ held' = held /\ service' = service /\ mixed' = mixed /\ cut' = cut
    BY DEF WritePart
  <1>3. c \in Busy /\ at' = [at EXCEPT ![c] = "part"] BY <1>2 DEF Busy, Go
  <1>4. at'[c] = "part" BY <1>1, <1>3 DEF ConfTypes
  <1>5. MergedBlocks' = MergedBlocks BY <1>2 DEF MergedBlocks
  <1>6. held[c] \in Seq(Piecewise) /\ Block(c) \in Blocks
    BY <1>1, <1>2, BlockToMerge DEF ConfTypes, Merging
  <1>7. W \in Seq(Piecewise) /\ (Once(held[c]) /\ ~HasMarker(held[c], Block(c)) => Once(W))
    BY <1>6, WithBlockShape, WithBlockMerges
  <1> HIDE DEF W
  <1>8. conf' \in Seq(Piecewise) /\ (Once(W) => Once(conf'))
    <2> DEFINE f == conf'
    <2>1. f \in Cuts(W) BY <1>2
    <2> HIDE DEF f
    <2>2. f \in Seq(Piecewise) /\ (Once(W) => Once(f)) BY <2>1, <1>7, CutsOnce
    <2> QED BY <2>2 DEF f
  <1>9. ConfTypes'
    <2>1. done[c] < Len(Programs[c]) BY <1>1, <1>2 DEF ConfTypes, Merging
    <2>2. held' \in [Callers -> Seq(Piecewise)] BY <1>1, <1>2 DEF ConfTypes
    <2> QED BY <1>1, <1>2, <1>8, <2>1, <2>2, MoveTypes DEF Sites
  <1>10. ASSUME ~mixed
         PROVE  /\ OneBusy' /\ OneBusy
                /\ \A d \in Callers : d # c =>
                     at'[d] = at[d] /\ at[d] \in {"absent", "idle", "enabled", "failed", "killed"}
    <2>1. OneBusy BY <1>10 DEF ConfInv
    <2> QED BY <2>1, <1>1, <1>3, BusyStep
  <1>11. ASSUME ~mixed' PROVE OneBusy' /\ Once(conf)' /\ Unmarked'
    <2>1. Once(held[c]) /\ ~HasMarker(held[c], Block(c))
      BY <1>2, <1>11 DEF ConfInv, Unmarked, Holding
    <2>2. \A d \in Callers : at'[d] \notin {"read", "open"} /\ (at'[d] \in Holding => d = c)
      BY <1>2, <1>4, <1>10, <1>11 DEF Holding
    <2>3. Once(conf)' BY <2>1, <1>7, <1>8 DEF Once
    <2>4. Once(held[c])' /\ ~HasMarker(held[c], Block(c))'
      BY <2>1, <1>2 DEF Once, HasMarker, Block
    <2> QED BY <2>2, <2>3, <2>4, <1>2, <1>10, <1>11 DEF Unmarked
  <1>12. ASSUME ~mixed', ~cut' PROVE Kept' /\ EnabledIsLoaded'
    <2>1. Kept /\ EnabledIsLoaded BY <1>2, <1>12 DEF ConfInv
    <2>2. Writing' /\ \A d \in Callers : at'[d] \in Holding => d = c
      BY <1>2, <1>4, <1>10, <1>12 DEF Holding, Writing
    <2>3. Complete(held[c]) BY <2>1, <1>2 DEF Kept, Holding
    <2>4. Complete(held[c])' BY <2>3, <1>2, <1>5 DEF Complete, AllWhole, WholeBlocks
    <2>5. Kept' BY <2>2, <2>4 DEF Kept
    <2>6. EnabledIsLoaded'
      BY <2>1, <1>2, <1>4, <1>10, <1>12 DEF EnabledIsLoaded, WholeBlocks
    <2> QED BY <2>5, <2>6
  <1> QED BY <1>9, <1>11, <1>12 DEF ConfInv

\* When the file is closed it has the caller's block and what it had before;
\* only two writers at once leave anything else.
LEMMA WriteRestInv == ASSUME ConfInv, NEW c \in Callers, WriteRest(c) PROVE ConfInv'
  <1> DEFINE b == Block(c)
             W == WithBlock(held[c], b)
  <1>1. ConfTypes BY DEF ConfInv
  <1>2. /\ at[c] \in {"write", "part"} /\ Merged(c) /\ held' = [held EXCEPT ![c] = <<>>]
        /\ service' = service /\ mixed' = mixed /\ cut' = cut
    BY DEF WriteRest
  <1>3. c \in Busy /\ at[c] \in Merging BY <1>2 DEF Busy, Merging
  <1>4. PICK place \in {"grep", "restart"} : at' = [at EXCEPT ![c] = place]
    BY <1>1, <1>2, <1>3, MergedStep
  <1>5. at'[c] = place BY <1>1, <1>4 DEF ConfTypes
  <1>6. MergedBlocks' = MergedBlocks \cup {b} BY <1>1, <1>2, <1>3, MergedStep
  <1>7. held[c] \in Seq(Piecewise) /\ b \in Blocks
    BY <1>1, <1>3, BlockToMerge DEF ConfTypes
  <1>8. PICK end \in Ends(c) : conf' = W \o end BY DEF WriteRest
  <1> HIDE DEF b
  <1>9. /\ W \in Seq(Piecewise) /\ WholeBlocks(W) = WholeBlocks(held[c]) \cup {b}
        /\ AllWhole(held[c]) => AllWhole(W)
        /\ Once(held[c]) /\ ~HasMarker(held[c], b) => Once(W)
    BY <1>7, WithBlockShape, WithBlockMerges
  <1> HIDE DEF W
  <1>10. ~mixed => conf' = W
    <2>1. ~mixed => end = <<>> BY <1>8 DEF Ends
    <2> QED BY <2>1, <1>8, <1>9, ConcatEmptySeq
  <1>11. conf' \in Seq(Piecewise)
    <2>1. end = <<>> \/ \E x \in Blocks \ {Base} : end = <<Piece(x, "marked")>>
      BY <1>8 DEF Ends
    <2>2. \A x \in Blocks : Piece(x, "marked") \in Piecewise BY DEF Piece, Piecewise
    <2>3. \A x \in Blocks : <<Piece(x, "marked")>> \in Seq(Piecewise)
      <3> TAKE x \in Blocks
      <3>1. Piece(x, "marked") \in Piecewise BY <2>2
      <3> HIDE DEF Piecewise
      <3> QED BY <3>1
    <2>4. end \in Seq(Piecewise)
      <3>1. CASE end = <<>> BY <3>1
      <3>2. ASSUME NEW x \in Blocks, end = <<Piece(x, "marked")>> PROVE end \in Seq(Piecewise)
        BY <3>2, <2>3
      <3> QED BY <2>1, <3>1, <3>2
    <2> QED BY <2>4, <1>8, <1>9, ConcatProperties
  <1>12. ConfTypes'
    <2>1. held' \in [Callers -> Seq(Piecewise)] BY <1>1, <1>2 DEF ConfTypes
    <2> QED BY <2>1, <1>1, <1>2, <1>3, <1>11, MergedStep DEF ConfTypes
  <1>13. ASSUME ~mixed
         PROVE  /\ OneBusy' /\ OneBusy
                /\ \A d \in Callers : d # c =>
                     at'[d] = at[d] /\ at[d] \in {"absent", "idle", "enabled", "failed", "killed"}
    <2>1. OneBusy BY <1>13 DEF ConfInv
    <2> QED BY <2>1, <1>1, <1>3, <1>4, BusyStep
  <1>14. ASSUME ~mixed' PROVE OneBusy' /\ Once(conf)' /\ Unmarked'
    <2>1. Once(held[c]) /\ ~HasMarker(held[c], b)
      BY <1>2, <1>14 DEF ConfInv, Unmarked, Holding, b
    <2>2. Once(conf)' BY <2>1, <1>2, <1>9, <1>10, <1>14 DEF Once
    <2>3. \A d \in Callers : at'[d] \notin Holding \cup {"read"}
      BY <1>2, <1>5, <1>13, <1>14 DEF Holding
    <2> QED BY <2>2, <2>3, <1>2, <1>13, <1>14 DEF Unmarked, Holding
  <1>15. ASSUME ~mixed', ~cut' PROVE Kept' /\ EnabledIsLoaded'
    <2>1. Kept /\ EnabledIsLoaded BY <1>2, <1>15 DEF ConfInv
    <2>2. \A d \in Callers : at'[d] \notin Holding
      BY <1>2, <1>5, <1>13, <1>15 DEF Holding
    <2>3. Complete(held[c]) BY <2>1, <1>2 DEF Kept, Holding
    <2>4. AllWhole(W) /\ WholeBlocks(W) = MergedBlocks \cup {b} BY <2>3, <1>9 DEF Complete
    <2>5. Complete(conf)'
      BY <2>4, <1>2, <1>6, <1>10, <1>15 DEF Complete, AllWhole, WholeBlocks
    <2>6. Kept' BY <2>2, <2>5 DEF Kept
    <2>7. EnabledIsLoaded'
      BY <2>1, <1>2, <1>5, <1>13, <1>15 DEF EnabledIsLoaded, WholeBlocks
    <2> QED BY <2>6, <2>7
  <1> QED BY <1>12, <1>14, <1>15 DEF ConfInv

\* The service is given a complete file, so that it starts, with the blocks of
\* everyone who has announced success before.
LEMMA RestartInv == ASSUME ConfInv, NEW c \in Callers, RestartService(c) PROVE ConfInv'
  <1> DEFINE place == IF Starts(conf) THEN "enabled" ELSE "failed"
  <1>1. ConfTypes BY DEF ConfInv
  <1>2. /\ at[c] = "restart" /\ Go(c, place) /\ done' = done /\ conf' = conf
        /\ held' = held /\ mixed' = mixed /\ cut' = cut
        /\ service' = IF Starts(conf) THEN conf ELSE <<>>
    BY DEF RestartService
  <1>3. place \in {"enabled", "failed"} OBVIOUS
  <1> HIDE DEF place
  <1>4. c \in Busy /\ at' = [at EXCEPT ![c] = place] BY <1>2 DEF Busy, Go
  <1>5. at'[c] = place BY <1>1, <1>4 DEF ConfTypes
  <1>6. MergedBlocks' = MergedBlocks BY <1>2 DEF MergedBlocks
  <1>7. ConfTypes'
    <2>1. done[c] = Len(Programs[c]) BY <1>1, <1>2 DEF ConfTypes
    <2>2. conf' \in Seq(Piecewise) /\ held' \in [Callers -> Seq(Piecewise)]
      BY <1>1, <1>2 DEF ConfTypes
    <2>3. place \in Sites /\ place \notin {"idle"} \cup Merging BY <1>3 DEF Sites, Merging
    <2> QED BY <1>1, <1>2, <2>1, <2>2, <2>3, MoveTypes
  <1>8. ASSUME ~mixed
        PROVE  /\ OneBusy' /\ OneBusy
               /\ \A d \in Callers : d # c =>
                    at'[d] = at[d] /\ at[d] \in {"absent", "idle", "enabled", "failed", "killed"}
    <2>1. OneBusy BY <1>8 DEF ConfInv
    <2> QED BY <2>1, <1>1, <1>4, BusyStep
  <1>9. ASSUME ~mixed' PROVE OneBusy' /\ Once(conf)' /\ Unmarked'
    <2>1. Once(conf)' BY <1>2, <1>9 DEF ConfInv, Once
    <2>2. \A d \in Callers : at'[d] \notin Holding \cup {"read"}
      BY <1>2, <1>3, <1>5, <1>8, <1>9 DEF Holding
    <2> QED BY <2>1, <2>2, <1>2, <1>8, <1>9 DEF Unmarked, Holding
  <1>10. ASSUME ~mixed', ~cut' PROVE Kept' /\ EnabledIsLoaded'
    <2>1. Kept BY <1>2, <1>10 DEF ConfInv
    <2>2. \A d \in Callers : at[d] \notin Holding /\ at'[d] \notin Holding
      BY <1>2, <1>3, <1>5, <1>8, <1>10 DEF Holding
    <2>3. Complete(conf) BY <2>1, <2>2 DEF Kept, Writing, Holding
    <2>4. Kept'
      <3>1. Complete(conf)' BY <2>3, <1>2, <1>6 DEF Complete, AllWhole, WholeBlocks
      <3> QED BY <2>2, <3>1 DEF Kept
    <2>5. Starts(conf)
      <3>1. Base \in WholeBlocks(conf) BY <2>3 DEF Complete, MergedBlocks
      <3>2. conf # <<>> BY <3>1 DEF WholeBlocks
      <3> QED BY <3>2, <2>3 DEF Starts, Complete, AllWhole
    <2>6. WholeBlocks(service)' = MergedBlocks
      BY <2>3, <2>5, <1>2 DEF Complete, WholeBlocks
    <2>7. ASSUME NEW d \in Callers, at'[d] = "enabled"
          PROVE  {Base} \cup ToSet(Programs[d]) \subseteq WholeBlocks(service)'
      <3>1. at[d] \in {"restart", "enabled"} BY <2>7, <1>2, <1>8, <1>10
      <3> QED BY <3>1, <2>6, <1>1, AllMerged
    <2> QED BY <2>4, <2>7 DEF EnabledIsLoaded
  <1> QED BY <1>7, <1>9, <1>10 DEF ConfInv

\* A caller that is killed while the file is open for writing is remembered;
\* killed elsewhere it leaves the file as it is.
LEMMA KillInv == ASSUME ConfInv, NEW c \in Callers, KillCaller(c) PROVE ConfInv'
  <1>1. ConfTypes BY DEF ConfInv
  <1>2. /\ c \in Busy /\ Go(c, "killed") /\ done' = done /\ conf' = conf
        /\ service' = service /\ mixed' = mixed /\ held' = [held EXCEPT ![c] = <<>>]
    BY DEF KillCaller
  <1>3. ~cut' => ~cut /\ at[c] \notin {"write", "part"} BY DEF KillCaller
  <1>4. at' = [at EXCEPT ![c] = "killed"] BY <1>2 DEF Go
  <1>5. at'[c] = "killed" BY <1>1, <1>4 DEF ConfTypes
  <1>6. MergedBlocks' = MergedBlocks BY <1>2 DEF MergedBlocks
  <1>7. ConfTypes'
    <2>1. conf' \in Seq(Piecewise) /\ held' \in [Callers -> Seq(Piecewise)]
      BY <1>1, <1>2 DEF ConfTypes
    <2>2. "killed" \in Sites /\ "killed" \notin {"idle"} \cup Merging BY DEF Sites, Merging
    <2> QED BY <1>1, <1>2, <2>1, <2>2, MoveTypes
  <1>8. ASSUME ~mixed
        PROVE  /\ OneBusy' /\ OneBusy
               /\ \A d \in Callers : d # c =>
                    at'[d] = at[d] /\ at[d] \in {"absent", "idle", "enabled", "failed", "killed"}
    <2>1. OneBusy BY <1>8 DEF ConfInv
    <2> QED BY <2>1, <1>1, <1>2, <1>4, BusyStep
  <1>9. ASSUME ~mixed' PROVE OneBusy' /\ Once(conf)' /\ Unmarked'
    <2>1. Once(conf)' BY <1>2, <1>9 DEF ConfInv, Once
    <2>2. \A d \in Callers : at'[d] \notin Holding \cup {"read"}
      BY <1>2, <1>5, <1>8, <1>9 DEF Holding
    <2> QED BY <2>1, <2>2, <1>2, <1>8, <1>9 DEF Unmarked, Holding
  <1>10. ASSUME ~mixed', ~cut' PROVE Kept' /\ EnabledIsLoaded'
    <2>1. Kept /\ EnabledIsLoaded BY <1>2, <1>3, <1>10 DEF ConfInv
    <2>2. \A d \in Callers : at[d] \notin {"write", "part"} /\ at'[d] \notin Holding
      BY <1>2, <1>3, <1>5, <1>8, <1>10 DEF Holding
    <2>3. Complete(conf) BY <2>1, <2>2 DEF Kept, Writing
    <2>4. Complete(conf)' BY <2>3, <1>2, <1>6 DEF Complete, AllWhole, WholeBlocks
    <2>5. Kept' BY <2>2, <2>4 DEF Kept
    <2>6. EnabledIsLoaded'
      BY <2>1, <1>2, <1>3, <1>5, <1>8, <1>10 DEF EnabledIsLoaded, WholeBlocks
    <2> QED BY <2>5, <2>6
  <1> QED BY <1>7, <1>9, <1>10 DEF ConfInv

\* Every step of a caller keeps the invariant, and steps on the dashboard do
\* not touch it.
LEMMA ConfNextInv == ConfInv /\ [Next]_hostVars => ConfInv'
  <1> SUFFICES ASSUME ConfInv, [Next]_hostVars PROVE ConfInv' OBVIOUS
  <1>1. ASSUME UNCHANGED confVars PROVE ConfInv'
    <2>1. /\ conf' = conf /\ service' = service /\ at' = at /\ done' = done /\ held' = held
          /\ mixed' = mixed /\ cut' = cut
      BY <1>1 DEF confVars
    <2>2. ConfTypes' = ConfTypes BY <2>1 DEF ConfTypes
    <2>3. OneBusy' = OneBusy BY <2>1 DEF OneBusy, Busy
    <2>4. Once(conf)' = Once(conf) BY <2>1 DEF Once
    <2>5. Unmarked' = Unmarked BY <2>1 DEF Unmarked, Once, HasMarker, Block
    <2>6. Kept' = Kept
      BY <2>1 DEF Kept, Writing, Complete, AllWhole, WholeBlocks, MergedBlocks
    <2>7. EnabledIsLoaded' = EnabledIsLoaded BY <2>1 DEF EnabledIsLoaded, WholeBlocks
    <2> QED BY <2>1, <2>2, <2>3, <2>4, <2>5, <2>6, <2>7 DEF ConfInv
  <1>2. ASSUME NEW c \in Callers,
               \/ Call(c) \/ Skip(c) \/ Insert(c) \/ Read(c) \/ Open(c)
               \/ WritePart(c) \/ WriteRest(c) \/ RestartService(c) \/ KillCaller(c)
        PROVE  ConfInv'
    BY <1>2, CallInv, SkipInv, InsertInv, ReadInv, OpenInv, WritePartInv, WriteRestInv,
       RestartInv, KillInv
  <1> QED BY <1>1, <1>2 DEF Next, ConfNext, hostVars

\* ConfInv always holds.
THEOREM ConfAlways == Spec => []ConfInv
  BY ConfInitInv, ConfNextInv, PTL DEF Spec

-----------------------------------------------------------------------------
(* Theorems.                                                               *)

\* Unless callers overlap, no block comes to be in ossec.conf twice, whole,
\* however often the scripts are repeated and wherever they are killed, for any
\* scripts and any blocks (_ossec-merge.sh:17, the marker).
THEOREM BlocksAreMergedOnce == Spec => []NoBlockTwice
  <1>1. ConfInv => NoBlockTwice BY DEF ConfInv, Once, NoBlockTwice
  <1> QED BY <1>1, ConfAlways, PTL

\* Unless callers overlap or one is killed while the file is open, the file has
\* exactly the package's configuration and the merged blocks whenever nobody is
\* writing it, for any scripts and any blocks (_ossec-merge.sh:36).
THEOREM MergesLoseNothing == Spec => []MergedBlocksStay
  <1>1. ConfInv => MergedBlocksStay
    BY DEF ConfInv, Kept, Complete, MergedBlocks, MergedBlocksStay
  <1> QED BY <1>1, ConfAlways, PTL

\* Under the same conditions the service runs with the blocks of every caller
\* that has announced success (enable-active-response.sh:30).
THEOREM AnnouncedIsLoaded == Spec => []EnabledIsLoaded
  <1>1. ConfInv => EnabledIsLoaded BY DEF ConfInv, EnabledIsLoaded
  <1> QED BY <1>1, ConfAlways, PTL
=============================================================================
