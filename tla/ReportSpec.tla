----------------------------- MODULE ReportSpec -----------------------------
(***************************************************************************)
(* What generate_html_report.py keeps, without files, caches or a network: *)
(* narratives are written about the facts of some evidence, and a report   *)
(* that comes out shows facts with a narrative written about those very    *)
(* facts, or says that it has none.  Where what was written about these    *)
(* facts is empty, it may have none and not say so.                        *)
(***************************************************************************)
CONSTANTS Reports, None, NoNarrative,
          Basis(_),     \* of the facts of a page, the ones a narrative is about
          Announces(_), \* the page says that it has no narrative
          Empty(_)      \* what was written says nothing

VARIABLES
  written,   \* narratives written so far
  out        \* the page a report came out with, or None

vars == <<written, out>>

Init == written = {} /\ out = [r \in Reports |-> None]

Write == written \subseteq written' /\ UNCHANGED out

About(page, story) == story \in written /\ story.about = Basis(page.data)

Honest(page) ==
  \/ About(page, page.narrative) /\ ~Empty(page.narrative)
  \/ /\ page.narrative = NoNarrative
     /\ Announces(page) \/ \E story \in written : About(page, story) /\ Empty(story)

\* A report comes out once, or not at all.
ComeOut(r) ==
  /\ out[r] = None
  /\ out' = [out EXCEPT ![r] = out'[r]]
  /\ Honest(out'[r])
  /\ UNCHANGED written

Next == Write \/ \E r \in Reports : ComeOut(r)

Spec == Init /\ [][Next]_vars
=============================================================================
