------------------------------ MODULE MCTrend -------------------------------
(***************************************************************************)
(* Result files for Trend.                                                 *)
(***************************************************************************)
EXTENDS Trend, TLC

MCTestKeys == <<"scan", "brute">>

Line(test, verdict, id, seconds) ==
  [test |-> test, result |-> verdict, rule |-> id, latency |-> seconds]

\* 29 to 35 is 20.7 percent, 29 to 26 is 10.3 percent; 26 to 35 and 35 to 29
\* are more.
Scans == {Line("scan", "DETECTED", "100120", n) : n \in {0, 26, 29, 35}}
         \cup {Line("scan", "**NOT DETECTED**", None, None), Line("scan", "ERROR", None, None)}

Brute == Line("brute", "DETECTED", "5710", 29)
Again == Line("brute", "DETECTED", "100200", 35)

\* One test in each run, or none.
Single == {<<row>> : row \in Scans} \cup {<<>>}
Whole(rows) == Results(DetectionLines(rows), Len(rows))

Older == UNION {{[k \in 1..n |-> Whole(f[k])] : f \in [1..n -> Single]} : n \in 0..3}

\* The newest file has any number of its lines; a test may be in it twice.
Newest == UNION {{Results(DetectionLines(rows), n) : n \in 0..Len(rows)} :
                   rows \in {<<row, Brute>> : row \in Scans} \cup {<<Brute, row, Again>> : row \in Scans}}

MCHistories ==
  {Append(older, newest) : older \in {o \in Older : Len(o) <= 1}, newest \in Newest}
  \cup {older \in Older : Len(older) >= 1}
  \cup {Append(older, Whole(<<row>>)) : older \in {o \in Older : Len(o) = 3}, row \in Scans}

\* Three runs of two tests, each missed or detected, and as fast as ever.
Went(test, id) == {Line(test, "DETECTED", id, 29), Line(test, "**NOT DETECTED**", None, None)}

MCPairs ==
  [1..3 -> {Whole(<<scan, brute>>) : scan \in Went("scan", "100120"), brute \in Went("brute", "5710")}]
=============================================================================
