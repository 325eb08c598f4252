----------------------------- MODULE MCGrouping -----------------------------
(***************************************************************************)
(* Batches for Grouping: four alerts of one attacker's hour, any of which  *)
(* may repeat, in any order of arrival.                                    *)
(***************************************************************************)
EXTENDS Grouping, TLC

MCIds    == {"e1", "e2", "e3", "e4"}
MCValues == {"kali", "web", "db", "sshd", "scan", "p22"}

Mk(id, ts, src, dst, port, agent, cats) ==
  [id |-> id, ts |-> ts, src |-> src, dst |-> dst, port |-> port, agent |-> agent,
   rule |-> None, cats |-> cats, text |-> None]

\* Times are minutes, Window is 5.
Scan(id, ts)    == Mk(id, ts, "kali", "web", None, None, {"scan"})
Brute(id, ts)   == Mk(id, ts, "kali", "db",  "p22", "db", {"sshd"})
Pivot(id, ts)   == Mk(id, ts, "kali", "web", None, "db", {})
Local(id, ts)   == Mk(id, ts, None, None, None, "db", {"sshd"})

\* For each position, the alerts that may stand there.
Choice(k) ==
  LET id == <<"e1", "e2", "e3", "e4">>[k]
  IN  {Scan(id, 100), Scan(id, 106), Brute(id, 103), Pivot(id, 104),
       Pivot(id, 100), Local(id, 103), Scan(id, None)}

MCBatches ==
  {<<>>} \cup {<<a>> : a \in Choice(1)}
  \cup {<<a, b, c>> : a \in Choice(1), b \in Choice(2), c \in Choice(3)}
  \cup {<<a, b, c, d>> : a \in {Scan("e1", 100), Brute("e1", 108), Scan("e1", 106)},
                         b \in {Scan("e2", 106), Brute("e2", 103), Pivot("e2", 104)},
                         c \in {Pivot("e3", 104), Brute("e3", 108), Scan("e3", 100)},
                         d \in {Scan("e4", 106), Pivot("e4", 104), Brute("e4", 103),
                                Pivot("e4", 100)}}
  \* the same alert delivered twice
  \cup {<<a, a, b>> : a \in Choice(1), b \in Choice(2)}

\* One alert that shares nothing with the other, delivered twice.
MCRedelivered == {<<Local("e1", 103), Local("e1", 103), Scan("e2", 106)>>}
=============================================================================
