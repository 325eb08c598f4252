-------------------------------- MODULE Seal ---------------------------------
(***************************************************************************)
(* seal-evidence.sh: the manifest of the files under evidence/, and its    *)
(* verification, while files come, change and go.  A seal goes over the    *)
(* files twice, for the count in the heading and for the lines, and may be *)
(* killed at any step; its lines reach the manifest in blocks.             *)
(*                                                                         *)
(* A hash stands for the content it was made of.  Files are hashed in the  *)
(* order of their names.                                                   *)
(***************************************************************************)
EXTENDS FiniteSetsExt, Functions, Integers

CONSTANTS
  Names,       \* names of evidence files
  Contents,    \* what may be in them
  None,        \* no file, no count
  MaxChanges,  \* bound: changes to the files
  MaxKills     \* bound: seals that are killed

ASSUME NamesAssumption == Names \subseteq Nat
ASSUME ContentsAssumption == None \notin Contents
ASSUME BoundsAssumption == MaxChanges \in Nat /\ MaxKills \in Nat

NoLines == [n \in {} |-> None]

VARIABLES
  files,     \* evidence/: the content of a file, or None
  manifest,  \* the count and the lines of MANIFEST.sha256, or None
  pc,        \* where the seal is
  listed,    \* the files it has still to hash in this pass
  hashed,    \* the lines of this pass so far
  count,     \* COUNT
  check,     \* where the verification is
  claims,    \* the lines it has still to check
  matching,  \* the ones so far matched
  changes,   \* number of changes so far
  kills,     \* number of kills so far
  last,      \* history: how the last seal that opened the manifest has ended
  held,      \* history: what each file has held while it wrote
  since,     \* history: the files changed since it opened the manifest
  alone      \* history: nothing happened beside the verification

sealer   == <<pc, listed, hashed, count>>
verifier == <<check, claims, matching>>
memory   == <<last, held, since>>
vars     == <<files, manifest, sealer, verifier, changes, kills, memory, alone>>

There == {n \in Names : files[n] # None}

Init ==
  /\ files \in [Names -> Contents \cup {None}]
  /\ manifest = None
  /\ pc = "idle" /\ listed = {} /\ hashed = NoLines /\ count = None
  /\ check = "idle" /\ claims = NoLines /\ matching = TRUE
  /\ changes = 0 /\ kills = 0
  /\ last = "none" /\ held = [n \in Names |-> {}] /\ since = {} /\ alone = TRUE

\* Someone writes, rewrites or removes a file.
Change(n, content) ==
  /\ changes < MaxChanges
  /\ files[n] # content
  /\ files' = [files EXCEPT ![n] = content]
  /\ changes' = changes + 1
  /\ held' = IF pc \in {"heading", "lines"} THEN [held EXCEPT ![n] = @ \cup {content}] ELSE held
  /\ since' = since \cup {n}
  /\ alone' = FALSE
  /\ UNCHANGED <<manifest, sealer, verifier, kills, last>>

-----------------------------------------------------------------------------
(* The seal.                                                               *)

ListForCount ==
  /\ pc = "idle"
  /\ pc' = "count" /\ listed' = There /\ hashed' = NoLines
  /\ alone' = FALSE
  /\ UNCHANGED <<files, manifest, count, verifier, changes, kills, memory>>

\* The next file is hashed, if it is still there.
Hash ==
  LET n == Min(listed)
  IN  /\ pc \in {"count", "lines"} /\ listed # {}
      /\ listed' = listed \ {n}
      /\ hashed' = IF files[n] = None THEN hashed
                   ELSE [m \in DOMAIN hashed \cup {n} |-> IF m = n THEN files[n] ELSE hashed[m]]
      /\ alone' = FALSE
      /\ UNCHANGED <<files, manifest, pc, count, verifier, changes, kills, memory>>

\* No evidence files yet: the manifest there is stays.
FindNothing ==
  /\ pc = "count" /\ listed = {} /\ hashed = NoLines
  /\ pc' = "idle"
  /\ UNCHANGED <<files, manifest, listed, hashed, count, verifier, changes, kills, memory, alone>>

\* Mutant: the lines of the first pass are kept.
TruncateKeepingLines ==
  /\ pc = "count" /\ listed = {} /\ hashed # NoLines
  /\ count' = Cardinality(DOMAIN hashed) /\ hashed' = hashed
  /\ manifest' = [count |-> None, lines |-> NoLines]
  /\ pc' = "heading" /\ last' = "running"
  /\ held' = [n \in Names |-> {files[n]}] /\ since' = {}
  /\ alone' = FALSE
  /\ UNCHANGED <<files, listed, verifier, changes, kills>>

\* The manifest is opened for writing.
Truncate ==
  /\ pc = "count" /\ listed = {} /\ hashed # NoLines
  /\ count' = Cardinality(DOMAIN hashed) /\ hashed' = NoLines
  /\ manifest' = [count |-> None, lines |-> NoLines]
  /\ pc' = "heading" /\ last' = "running"
  /\ held' = [n \in Names |-> {files[n]}] /\ since' = {}
  /\ alone' = FALSE
  /\ UNCHANGED <<files, listed, verifier, changes, kills>>

\* Its heading, and the second listing.
WriteHeading ==
  /\ pc = "heading"
  /\ manifest' = [manifest EXCEPT !.count = count]
  /\ pc' = "lines" /\ listed' = There
  /\ alone' = FALSE
  /\ UNCHANGED <<files, hashed, count, verifier, changes, kills, memory>>

\* Another block of the lines so far, behind those that are there already.
Flush ==
  /\ pc = "lines"
  /\ \E n \in DOMAIN hashed \ DOMAIN manifest.lines :
       manifest' = [manifest EXCEPT !.lines = Restrict(hashed, {m \in DOMAIN hashed : m <= n})]
  /\ alone' = FALSE
  /\ UNCHANGED <<files, sealer, verifier, changes, kills, memory>>

Finish ==
  /\ pc = "lines" /\ listed = {}
  /\ DOMAIN hashed \subseteq DOMAIN manifest.lines
  /\ pc' = "idle" /\ hashed' = NoLines /\ count' = None
  /\ last' = "done"
  /\ UNCHANGED <<files, manifest, listed, verifier, changes, kills, held, since, alone>>

Kill ==
  /\ pc # "idle"
  /\ kills < MaxKills
  /\ kills' = kills + 1
  /\ pc' = "idle" /\ listed' = {} /\ hashed' = NoLines /\ count' = None
  /\ last' = IF pc = "count" THEN last ELSE "killed"
  /\ UNCHANGED <<files, manifest, verifier, changes, held, since, alone>>

-----------------------------------------------------------------------------
(* The verification.                                                       *)

Verify ==
  /\ check # "checking"
  /\ manifest # None
  /\ check' = "checking" /\ claims' = manifest.lines
  /\ matching' = (manifest.lines # NoLines)
  /\ alone' = (pc = "idle")
  /\ UNCHANGED <<files, manifest, sealer, changes, kills, memory>>

\* Mutant: a file that is missing is passed over.
CompareFound ==
  LET n == Min(DOMAIN claims)
  IN  /\ check = "checking" /\ claims # NoLines
      /\ matching' = (matching /\ files[n] \in {claims[n], None})
      /\ claims' = Restrict(claims, DOMAIN claims \ {n})
      /\ UNCHANGED <<files, manifest, sealer, check, changes, kills, memory, alone>>

Compare ==
  LET n == Min(DOMAIN claims)
  IN  /\ check = "checking" /\ claims # NoLines
      /\ matching' = (matching /\ files[n] = claims[n])
      /\ claims' = Restrict(claims, DOMAIN claims \ {n})
      /\ UNCHANGED <<files, manifest, sealer, check, changes, kills, memory, alone>>

Report ==
  /\ check = "checking" /\ claims = NoLines
  /\ check' = IF matching THEN "ok" ELSE "mismatch"
  /\ UNCHANGED <<files, manifest, sealer, claims, matching, changes, kills, memory, alone>>

Next ==
  \/ \E n \in Names, content \in Contents \cup {None} : Change(n, content)
  \/ ListForCount \/ Hash \/ FindNothing \/ Truncate \/ WriteHeading \/ Flush \/ Finish \/ Kill
  \/ Verify \/ Compare \/ Report

Spec == Init /\ [][Next]_vars

-----------------------------------------------------------------------------
(* Properties.                                                             *)

\* The manifest is that of a seal that has finished.
Sealed == last = "done"

\* A verification of such a manifest that runs alone and says OK has seen
\* every file that was there while the manifest was written, with a content
\* it had then: none was rewritten or removed since, not even by a change
\* that came between the hash of the file and the end of the seal unless the
\* hash is of the changed content (seal-evidence.sh:54).
ChangeIsDetected ==
  check = "ok" /\ alone /\ Sealed =>
    \A n \in Names : None \notin held[n] => files[n] \in held[n]

\* A verification of such a manifest that runs alone reports a mismatch only
\* if a file has changed since the manifest was opened, or if the last files
\* were removed between the two passes, which leaves a heading without lines
\* (seal-evidence.sh:57: MISMATCH, "A file changed, or is missing").
NoFalseAlarm ==
  check = "mismatch" /\ alone /\ Sealed => since # {} \/ manifest.lines = NoLines
=============================================================================
