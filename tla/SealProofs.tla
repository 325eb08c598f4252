----------------------------- MODULE SealProofs ------------------------------
(***************************************************************************)
(* Proofs about Seal, for any files, contents, changes and kills: what a   *)
(* verification that nothing interferes with says is true.                 *)
(*                                                                         *)
(* While the manifest is open, held has whatever a file has had in it      *)
(* since, so that each line, whenever it was hashed, is of something held; *)
(* and a file that was never missing, and that is not still on the list,   *)
(* has a line.  A seal that finishes hands both facts over to the          *)
(* manifest, and a verification that runs alone compares the files with    *)
(* that very manifest.                                                     *)
(***************************************************************************)
EXTENDS Seal, WellFoundedInduction, TLAPS

Lines == UNION {[D -> Contents] : D \in SUBSET Names}

\* The manifest is open.
Open == pc \in {"heading", "lines"}

-----------------------------------------------------------------------------
(* The inductive invariant.                                                *)

Types ==
  /\ files \in [Names -> Contents \cup {None}]
  /\ held \in [Names -> SUBSET (Contents \cup {None})]
  /\ since \subseteq Names /\ listed \subseteq Names
  /\ hashed \in Lines /\ claims \in Lines
  /\ pc \in {"idle", "count", "heading", "lines"}
  /\ matching \in BOOLEAN
  /\ check \in {"idle", "checking", "ok", "mismatch"}

IsManifest ==
  /\ manifest = [count |-> manifest.count, lines |-> manifest.lines]
  /\ manifest.lines \in Lines

\* How far the last seal has got, and what is known of the manifest.
Stage ==
  /\ manifest # None \/ last # "none" => IsManifest
  /\ last = "running" <=> Open
  /\ pc # "idle" => ~alone

\* What was in a file since the manifest was opened.
Memory ==
  /\ Open => \A n \in Names : files[n] \in held[n]
  /\ last # "none" => \A n \in Names \ since : held[n] = {files[n]}

\* A line is of a content that the file had while the seal wrote.
Honest(lines) == \A n \in DOMAIN lines : lines[n] \in held[n]

\* While it writes, a seal has hashed every file that stayed and that is not
\* still on its list.
Hashing ==
  /\ pc = "heading" => hashed = NoLines
  /\ pc = "lines" =>
       /\ Honest(hashed) /\ DOMAIN hashed \cap listed = {}
       /\ \A n \in Names \ listed : None \notin held[n] => n \in DOMAIN hashed
  /\ Sealed =>
       /\ Honest(manifest.lines)
       /\ \A n \in Names : None \notin held[n] => n \in DOMAIN manifest.lines

\* Lines of the manifest are lines that were hashed.
Flushed ==
  Open => \A n \in DOMAIN manifest.lines : n \in DOMAIN hashed /\ manifest.lines[n] = hashed[n]

Differs(n) == files[n] # manifest.lines[n]

\* A verification that runs alone goes by the manifest there is.
Verified ==
  alone =>
    /\ check = "checking" =>
         /\ IsManifest
         /\ \A n \in DOMAIN claims :
              n \in DOMAIN manifest.lines /\ claims[n] = manifest.lines[n]
         /\ matching => \A n \in DOMAIN manifest.lines \ DOMAIN claims : ~Differs(n)
         /\ ~matching =>
              manifest.lines = NoLines \/ \E n \in DOMAIN manifest.lines : Differs(n)
    /\ check = "ok" => \A n \in DOMAIN manifest.lines : ~Differs(n)
    /\ check = "mismatch" =>
         manifest.lines = NoLines \/ \E n \in DOMAIN manifest.lines : Differs(n)

SealInv == Types /\ Stage /\ Memory /\ Hashing /\ Flushed /\ Verified

-----------------------------------------------------------------------------
(* Lemmas about sets of names and lines.                                   *)

\* The first of some names is one of them.
LEMMA FirstName ==
  ASSUME NEW S \in SUBSET Names, S # {}
  PROVE  Min(S) \in S
  <1>1. S \in SUBSET Nat BY NamesAssumption
  <1>2. PICK x \in S : \A y \in S : ~ (<<y, x>> \in OpToRel(<, Nat))
    BY <1>1, NatLessThanWellFounded, WFMin
  <1>3. \A y \in S : ~ (y < x) BY <1>1, <1>2 DEF OpToRel
  <1>4. \A y \in S : x <= y BY <1>1, <1>3
  <1> QED BY <1>4 DEF Min

\* What lines are.
LEMMA LinesAre ==
  ASSUME NEW f \in Lines
  PROVE  /\ DOMAIN f \subseteq Names /\ \A n \in DOMAIN f : f[n] \in Contents
         /\ DOMAIN f = {} => f = NoLines
         /\ \A S \in SUBSET DOMAIN f :
              Restrict(f, S) \in Lines /\ DOMAIN Restrict(f, S) = S
              /\ \A n \in S : Restrict(f, S)[n] = f[n]
  <1>1. PICK D \in SUBSET Names : f \in [D -> Contents] BY DEF Lines
  <1>2. ASSUME DOMAIN f = {} PROVE f = NoLines
    <2>1. f = [n \in {} |-> f[n]] BY <1>1, <1>2
    <2>2. [n \in {} |-> f[n]] = [n \in {} |-> None] OBVIOUS
    <2> QED BY <2>1, <2>2 DEF NoLines
  <1>3. ASSUME NEW S \in SUBSET DOMAIN f
        PROVE  Restrict(f, S) \in Lines /\ DOMAIN Restrict(f, S) = S
               /\ \A n \in S : Restrict(f, S)[n] = f[n]
    <2>1. Restrict(f, S) \in [S -> Contents] BY <1>1 DEF Restrict
    <2> QED BY <2>1, <1>1 DEF Lines, Restrict
  <1> QED BY <1>1, <1>2, <1>3

\* No lines are lines.
LEMMA NoLinesAre == NoLines \in Lines /\ DOMAIN NoLines = {}
  <1>1. NoLines \in [{} -> Contents] BY DEF NoLines
  <1> QED BY <1>1 DEF Lines

-----------------------------------------------------------------------------
(* Every step keeps the invariant.                                         *)

\* It holds at first, with any files.
LEMMA InitInv == Init => SealInv
  <1> SUFFICES ASSUME Init PROVE SealInv OBVIOUS
  <1>1. Types BY NoLinesAre DEF Init, Types
  <1>2. Stage BY DEF Init, Stage, Open
  <1>3. Memory BY DEF Init, Memory, Open
  <1>4. Hashing BY DEF Init, Hashing, Sealed
  <1>5. Flushed BY DEF Init, Flushed, Open
  <1>6. Verified BY DEF Init, Verified
  <1> QED BY <1>1, <1>2, <1>3, <1>4, <1>5, <1>6 DEF SealInv

\* A change is remembered, and while a seal writes also what it changes to.
LEMMA ChangeInv ==
  ASSUME SealInv, NEW n \in Names, NEW content \in Contents \cup {None}, Change(n, content)
  PROVE  SealInv'
  <1>1. /\ files' = [files EXCEPT ![n] = content] /\ since' = since \cup {n}
        /\ manifest' = manifest /\ pc' = pc /\ listed' = listed /\ hashed' = hashed
        /\ check' = check /\ claims' = claims /\ matching' = matching /\ last' = last
        /\ ~alone'
    BY DEF Change, sealer, verifier
  <1>2. held' = IF Open THEN [held EXCEPT ![n] = @ \cup {content}] ELSE held
    BY DEF Change, Open
  <1>3. Types /\ Stage /\ Memory /\ Hashing /\ Flushed BY DEF SealInv
  <1>4. Types'
    <2>1. files' \in [Names -> Contents \cup {None}] BY <1>1, <1>3 DEF Types
    <2>2. held' \in [Names -> SUBSET (Contents \cup {None})]
      <3>1. held[n] \cup {content} \in SUBSET (Contents \cup {None}) BY <1>3 DEF Types
      <3> QED BY <3>1, <1>2, <1>3 DEF Types
    <2> QED BY <2>1, <2>2, <1>1, <1>3 DEF Types
  <1>5. \A m \in Names : held[m] \subseteq held'[m] BY <1>2, <1>3 DEF Types
  <1>6. \A m \in Names : m # n => files'[m] = files[m] /\ held'[m] = held[m]
    BY <1>1, <1>2, <1>3 DEF Types
  <1>7. files'[n] = content /\ (Open => content \in held'[n])
    BY <1>1, <1>2, <1>3 DEF Types
  <1>8. Stage' BY <1>1, <1>3 DEF Stage, IsManifest, Open
  <1>9. Memory'
    <2>1. ASSUME Open PROVE \A m \in Names : files'[m] \in held'[m]
      BY <2>1, <1>3, <1>6, <1>7 DEF Memory
    <2>2. last # "none" => \A m \in Names \ since' : held'[m] = {files'[m]}
      BY <1>1, <1>3, <1>6 DEF Memory
    <2> QED BY <2>1, <2>2, <1>1 DEF Memory, Open
  <1>10. Hashing'
    <2>1. \A m \in Names : None \notin held'[m] => None \notin held[m] BY <1>5
    <2>2. ASSUME pc = "lines"
          PROVE  /\ \A m \in DOMAIN hashed : hashed[m] \in held'[m]
                 /\ DOMAIN hashed \cap listed = {}
                 /\ \A m \in Names \ listed : None \notin held'[m] => m \in DOMAIN hashed
      <3>1. DOMAIN hashed \subseteq Names BY <1>3, LinesAre DEF Types
      <3> QED BY <2>1, <2>2, <3>1, <1>3, <1>5 DEF Hashing, Honest
    <2>3. ASSUME last = "done"
          PROVE  /\ \A m \in DOMAIN manifest.lines : manifest.lines[m] \in held'[m]
                 /\ \A m \in Names : None \notin held'[m] => m \in DOMAIN manifest.lines
      <3>1. manifest.lines \in Lines BY <2>3, <1>3 DEF Stage, IsManifest
      <3>2. DOMAIN manifest.lines \subseteq Names BY <3>1, LinesAre
      <3> QED BY <2>1, <2>3, <3>2, <1>3, <1>5 DEF Hashing, Honest, Sealed
    <2>4. pc' = "heading" => hashed' = NoLines BY <1>1, <1>3 DEF Hashing
    <2> QED BY <2>2, <2>3, <2>4, <1>1 DEF Hashing, Honest, Sealed
  <1>11. Flushed' BY <1>1, <1>3 DEF Flushed, Open
  <1>12. Verified' BY <1>1 DEF Verified
  <1> QED BY <1>4, <1>8, <1>9, <1>10, <1>11, <1>12 DEF SealInv

\* The first pass has nothing to do with the manifest.
LEMMA ListForCountInv == ASSUME SealInv, ListForCount PROVE SealInv'
  <1>1. /\ pc = "idle" /\ pc' = "count" /\ listed' = There /\ hashed' = NoLines /\ ~alone'
        /\ files' = files /\ manifest' = manifest /\ check' = check /\ claims' = claims
        /\ matching' = matching /\ last' = last /\ held' = held /\ since' = since
    BY DEF ListForCount, verifier, memory
  <1>2. Types /\ Stage /\ Memory /\ Hashing /\ Flushed BY DEF SealInv
  <1>3. Types' BY <1>1, <1>2, NoLinesAre DEF Types, There
  <1>4. ~Open /\ ~Open' BY <1>1 DEF Open
  <1>5. Stage' BY <1>1, <1>2, <1>4 DEF Stage, IsManifest
  <1>6. Memory' BY <1>1, <1>2, <1>4 DEF Memory
  <1>7. Hashing' BY <1>1, <1>2 DEF Hashing, Honest, Sealed
  <1>8. Flushed' BY <1>4 DEF Flushed
  <1>9. Verified' BY <1>1 DEF Verified
  <1> QED BY <1>3, <1>5, <1>6, <1>7, <1>8, <1>9 DEF SealInv

\* A file that stays is hashed, with what is in it at the time.
LEMMA HashInv == ASSUME SealInv, Hash PROVE SealInv'
  <1> DEFINE n == Min(listed)
  <1>1. /\ pc \in {"count", "lines"} /\ listed # {} /\ listed' = listed \ {n}
        /\ hashed' = IF files[n] = None THEN hashed
                     ELSE [m \in DOMAIN hashed \cup {n} |-> IF m = n THEN files[n] ELSE hashed[m]]
        /\ ~alone' /\ pc' = pc
        /\ files' = files /\ manifest' = manifest /\ check' = check /\ claims' = claims
        /\ matching' = matching /\ last' = last /\ held' = held /\ since' = since
    BY DEF Hash, verifier, memory
  <1>2. Types /\ Stage /\ Memory /\ Hashing /\ Flushed BY DEF SealInv
  <1>3. n \in listed /\ n \in Names
    <2>1. listed \in SUBSET Names BY <1>2 DEF Types
    <2>2. n \in listed BY <2>1, <1>1, FirstName
    <2> QED BY <2>1, <2>2
  <1> HIDE DEF n
  <1>4. files[n] \in Contents \cup {None} BY <1>2, <1>3 DEF Types
  <1>5. DOMAIN hashed \subseteq Names /\ \A m \in DOMAIN hashed : hashed[m] \in Contents
    BY <1>2, LinesAre DEF Types
  <1>6. /\ DOMAIN hashed' = IF files[n] = None THEN DOMAIN hashed ELSE DOMAIN hashed \cup {n}
        /\ \A m \in DOMAIN hashed' : m # n => m \in DOMAIN hashed /\ hashed'[m] = hashed[m]
        /\ files[n] # None => hashed'[n] = files[n]
        /\ files[n] = None => hashed' = hashed
    BY <1>1
  <1>7. hashed' \in Lines
    <2>1. CASE files[n] = None BY <2>1, <1>1, <1>2 DEF Types
    <2>2. CASE files[n] # None
      <3>1. hashed' \in [DOMAIN hashed \cup {n} -> Contents]
        BY <2>2, <1>1, <1>4, <1>5
      <3>2. DOMAIN hashed \cup {n} \in SUBSET Names BY <1>3, <1>5
      <3> QED BY <3>1, <3>2 DEF Lines
    <2> QED BY <2>1, <2>2
  <1>8. Types' BY <1>1, <1>2, <1>7 DEF Types
  <1>9. Stage' BY <1>1, <1>2 DEF Stage, IsManifest, Open
  <1>10. Memory' BY <1>1, <1>2 DEF Memory, Open
  <1>11. ASSUME pc = "lines"
         PROVE  /\ \A m \in DOMAIN hashed' : hashed'[m] \in held[m]
                /\ DOMAIN hashed' \cap listed' = {}
                /\ \A m \in Names \ listed' : None \notin held[m] => m \in DOMAIN hashed'
    <2>1. files[n] \in held[n] BY <1>2, <1>3, <1>11 DEF Memory, Open
    <2>2. /\ Honest(hashed) /\ DOMAIN hashed \cap listed = {}
          /\ \A m \in Names \ listed : None \notin held[m] => m \in DOMAIN hashed
      BY <1>2, <1>11 DEF Hashing
    <2>3. ASSUME NEW m \in DOMAIN hashed' PROVE hashed'[m] \in held[m]
      <3>1. CASE m # n BY <2>2, <3>1, <1>6 DEF Honest
      <3>2. CASE m = n
        <4>1. CASE files[n] = None BY <4>1, <2>2, <2>3, <1>6 DEF Honest
        <4>2. CASE files[n] # None BY <4>2, <3>2, <2>1, <1>6
        <4> QED BY <4>1, <4>2
      <3> QED BY <3>1, <3>2
    <2>4. ASSUME NEW m \in Names \ listed', None \notin held[m] PROVE m \in DOMAIN hashed'
      <3>1. CASE m # n BY <2>2, <2>4, <3>1, <1>1, <1>6
      <3>2. CASE m = n BY <2>1, <2>4, <3>2, <1>6
      <3> QED BY <3>1, <3>2
    <2>5. DOMAIN hashed' \cap listed' = {} BY <2>2, <1>1, <1>6
    <2> QED BY <2>3, <2>4, <2>5
  <1>12. Hashing'
    <2>1. pc' = "heading" => hashed' = NoLines BY <1>1
    <2>2. Sealed' => Honest(manifest.lines)' /\ \A m \in Names' :
            None \notin held'[m] => m \in DOMAIN manifest'.lines
      BY <1>1, <1>2 DEF Hashing, Honest, Sealed
    <2> QED BY <2>1, <2>2, <1>1, <1>11 DEF Hashing, Honest
  <1>13. Flushed'
    <2>1. ASSUME Open, NEW m \in DOMAIN manifest.lines
          PROVE  m \in DOMAIN hashed' /\ manifest.lines[m] = hashed'[m]
      <3>1. m \in DOMAIN hashed /\ manifest.lines[m] = hashed[m] BY <2>1, <1>2 DEF Flushed
      <3>2. DOMAIN hashed \cap listed = {} BY <2>1, <1>1, <1>2 DEF Open, Hashing
      <3>3. m # n BY <3>1, <3>2, <1>3
      <3>4. m \in DOMAIN hashed' BY <3>1, <1>6
      <3> QED BY <3>1, <3>3, <3>4, <1>6
    <2> QED BY <2>1, <1>1 DEF Flushed, Open
  <1>14. Verified' BY <1>1 DEF Verified
  <1> QED BY <1>8, <1>9, <1>10, <1>12, <1>13, <1>14 DEF SealInv

\* Where there is nothing to seal the manifest stays.
LEMMA FindNothingInv == ASSUME SealInv, FindNothing PROVE SealInv'
  <1>1. /\ pc = "count" /\ pc' = "idle" /\ listed' = listed /\ hashed' = hashed
        /\ alone' = alone
        /\ files' = files /\ manifest' = manifest /\ check' = check /\ claims' = claims
        /\ matching' = matching /\ last' = last /\ held' = held /\ since' = since
    BY DEF FindNothing, verifier, memory
  <1>2. Types /\ Stage /\ Memory /\ Hashing /\ Flushed BY DEF SealInv
  <1>3. ~Open /\ ~Open' /\ ~alone' BY <1>1, <1>2 DEF Open, Stage
  <1>4. Types' BY <1>1, <1>2 DEF Types
  <1>5. Stage' BY <1>1, <1>2, <1>3 DEF Stage, IsManifest
  <1>6. Memory' BY <1>1, <1>2, <1>3 DEF Memory
  <1>7. Hashing' BY <1>1, <1>2 DEF Hashing, Honest, Sealed
  <1>8. Flushed' BY <1>3 DEF Flushed
  <1>9. Verified' BY <1>3 DEF Verified
  <1> QED BY <1>4, <1>5, <1>6, <1>7, <1>8, <1>9 DEF SealInv

\* Opening the manifest starts the record of what the files hold.
LEMMA TruncateInv == ASSUME SealInv, Truncate PROVE SealInv'
  <1>1. /\ pc = "count" /\ pc' = "heading" /\ listed' = listed /\ hashed' = NoLines
        /\ manifest' = [count |-> None, lines |-> NoLines]
        /\ last' = "running" /\ held' = [n \in Names |-> {files[n]}] /\ since' = {}
        /\ ~alone'
        /\ files' = files /\ check' = check /\ claims' = claims /\ matching' = matching
    BY DEF Truncate, verifier
  <1>2. Types /\ Stage BY DEF SealInv
  <1>3. manifest'.count = None /\ manifest'.lines = NoLines BY <1>1
  <1>4. Types'
    <2>1. held' \in [Names -> SUBSET (Contents \cup {None})] BY <1>1, <1>2 DEF Types
    <2> QED BY <2>1, <1>1, <1>2, NoLinesAre DEF Types
  <1>5. Stage'
    <2>1. IsManifest' BY <1>1, <1>3, NoLinesAre DEF IsManifest
    <2> QED BY <2>1, <1>1 DEF Stage, Open
  <1>6. Memory' BY <1>1 DEF Memory
  <1>7. Hashing' BY <1>1 DEF Hashing, Sealed
  <1>8. Flushed' BY <1>3, NoLinesAre DEF Flushed
  <1>9. Verified' BY <1>1 DEF Verified
  <1> QED BY <1>4, <1>5, <1>6, <1>7, <1>8, <1>9 DEF SealInv

\* The second listing: what is not on it is not there.
LEMMA WriteHeadingInv == ASSUME SealInv, WriteHeading PROVE SealInv'
  <1>1. /\ pc = "heading" /\ pc' = "lines" /\ listed' = There /\ hashed' = hashed
        /\ manifest' = [manifest EXCEPT !.count = count]
        /\ ~alone'
        /\ files' = files /\ check' = check /\ claims' = claims /\ matching' = matching
        /\ last' = last /\ held' = held /\ since' = since
    BY DEF WriteHeading, verifier, memory
  <1>2. Types /\ Stage /\ Memory /\ Hashing /\ Flushed BY DEF SealInv
  <1>3. last = "running" /\ hashed = NoLines BY <1>1, <1>2 DEF Stage, Open, Hashing
  <1>4. IsManifest BY <1>2, <1>3 DEF Stage
  <1>5. manifest' = [count |-> count, lines |-> manifest.lines]
    BY <1>1, <1>4 DEF IsManifest
  <1>6. IsManifest' /\ manifest'.lines = manifest.lines BY <1>4, <1>5 DEF IsManifest
  <1>7. Types' BY <1>1, <1>2 DEF Types, There
  <1>8. Stage' BY <1>1, <1>3, <1>6 DEF Stage, Open
  <1>9. Memory' BY <1>1, <1>2 DEF Memory, Open
  <1>10. Hashing'
    <2>1. \A m \in Names \ There : None \in held[m]
      BY <1>1, <1>2 DEF There, Memory, Open
    <2> QED BY <2>1, <1>1, <1>3, NoLinesAre DEF Hashing, Honest, Sealed
  <1>11. Flushed' BY <1>1, <1>2, <1>6 DEF Flushed, Open
  <1>12. Verified' BY <1>1 DEF Verified
  <1> QED BY <1>7, <1>8, <1>9, <1>10, <1>11, <1>12 DEF SealInv

\* Only lines that were hashed reach the manifest.
LEMMA FlushInv == ASSUME SealInv, Flush PROVE SealInv'
  <1>1. /\ pc = "lines" /\ pc' = pc /\ listed' = listed /\ hashed' = hashed
        /\ ~alone'
        /\ files' = files /\ check' = check /\ claims' = claims /\ matching' = matching
        /\ last' = last /\ held' = held /\ since' = since
    BY DEF Flush, sealer, verifier, memory
  <1>2. Types /\ Stage /\ Memory /\ Hashing BY DEF SealInv
  <1>3. last = "running" BY <1>1, <1>2 DEF Stage, Open
  <1>4. IsManifest BY <1>2, <1>3 DEF Stage
  <1>5. PICK S \in SUBSET DOMAIN hashed :
          manifest' = [manifest EXCEPT !.lines = Restrict(hashed, S)]
    BY DEF Flush
  <1> DEFINE lines == Restrict(hashed, S)
  <1>6. lines \in Lines /\ DOMAIN lines = S /\ \A n \in S : lines[n] = hashed[n]
    BY <1>2, LinesAre DEF Types
  <1> HIDE DEF lines
  <1>7. manifest' = [count |-> manifest.count, lines |-> lines]
    BY <1>4, <1>5 DEF IsManifest, lines
  <1>8. IsManifest' /\ manifest'.lines = lines BY <1>6, <1>7 DEF IsManifest
  <1>9. Types' BY <1>1, <1>2 DEF Types
  <1>10. Stage' BY <1>1, <1>3, <1>8 DEF Stage, Open
  <1>11. Memory' BY <1>1, <1>2 DEF Memory, Open
  <1>12. Hashing' BY <1>1, <1>2, <1>3 DEF Hashing, Honest, Sealed
  <1>13. Flushed' BY <1>1, <1>5, <1>6, <1>8 DEF Flushed
  <1>14. Verified' BY <1>1 DEF Verified
  <1> QED BY <1>9, <1>10, <1>11, <1>12, <1>13, <1>14 DEF SealInv

\* A seal that has finished has the lines it has hashed in the manifest, and
\* has hashed every file that stayed.
LEMMA FinishInv == ASSUME SealInv, Finish PROVE SealInv'
  <1>1. /\ pc = "lines" /\ listed = {} /\ DOMAIN hashed \subseteq DOMAIN manifest.lines
        /\ pc' = "idle" /\ listed' = listed /\ hashed' = NoLines /\ last' = "done"
        /\ alone' = alone
        /\ files' = files /\ manifest' = manifest /\ check' = check /\ claims' = claims
        /\ matching' = matching /\ held' = held /\ since' = since
    BY DEF Finish, verifier
  <1>2. Types /\ Stage /\ Memory /\ Hashing /\ Flushed BY DEF SealInv
  <1>3. Open /\ ~Open' /\ ~alone' /\ last = "running" BY <1>1, <1>2 DEF Open, Stage
  <1>4. Types' BY <1>1, <1>2, NoLinesAre DEF Types
  <1>5. Stage' BY <1>1, <1>2, <1>3 DEF Stage, IsManifest
  <1>6. Memory' BY <1>1, <1>2, <1>3 DEF Memory
  <1>7. Hashing'
    <2>1. \A n \in DOMAIN manifest.lines : n \in DOMAIN hashed /\ manifest.lines[n] = hashed[n]
      BY <1>2, <1>3 DEF Flushed
    <2>2. /\ \A n \in DOMAIN hashed : hashed[n] \in held[n]
          /\ \A n \in Names : None \notin held[n] => n \in DOMAIN hashed
      BY <1>1, <1>2 DEF Hashing, Honest
    <2>3. \A n \in DOMAIN manifest.lines : manifest.lines[n] \in held[n] BY <2>1, <2>2
    <2>4. \A n \in Names : None \notin held[n] => n \in DOMAIN manifest.lines
      BY <2>2, <1>1
    <2> QED BY <2>3, <2>4, <1>1 DEF Hashing, Honest
  <1>8. Flushed' BY <1>3 DEF Flushed
  <1>9. Verified' BY <1>3 DEF Verified
  <1> QED BY <1>4, <1>5, <1>6, <1>7, <1>8, <1>9 DEF SealInv

\* A seal that is killed in its first pass leaves the manifest that there was.
LEMMA KillInv == ASSUME SealInv, Kill PROVE SealInv'
  <1>1. /\ pc # "idle" /\ pc' = "idle" /\ listed' = {} /\ hashed' = NoLines
        /\ last' = (IF pc = "count" THEN last ELSE "killed")
        /\ alone' = alone
        /\ files' = files /\ manifest' = manifest /\ check' = check /\ claims' = claims
        /\ matching' = matching /\ held' = held /\ since' = since
    BY DEF Kill, verifier
  <1>2. Types /\ Stage /\ Memory /\ Hashing BY DEF SealInv
  <1>3. ~Open' /\ ~alone' BY <1>1, <1>2 DEF Open, Stage
  <1>4. last' # "none" => last # "none"
    BY <1>1, <1>2 DEF Stage, Open, Types
  <1>5. last' # "running" BY <1>1, <1>2 DEF Stage, Open
  <1>6. last' = "done" => last = "done" BY <1>1
  <1>7. Types' BY <1>1, <1>2, NoLinesAre DEF Types
  <1>8. Stage' BY <1>1, <1>2, <1>3, <1>4, <1>5 DEF Stage, IsManifest
  <1>9. Memory' BY <1>1, <1>2, <1>3, <1>4 DEF Memory
  <1>10. Hashing' BY <1>1, <1>2, <1>6 DEF Hashing, Honest, Sealed
  <1>11. Flushed' BY <1>3 DEF Flushed
  <1>12. Verified' BY <1>3 DEF Verified
  <1> QED BY <1>7, <1>8, <1>9, <1>10, <1>11, <1>12 DEF SealInv

\* A step of the verification changes nothing of the seal.
LEMMA VerifierStep ==
  ASSUME SealInv, UNCHANGED <<files, manifest, sealer, changes, kills, memory>>,
         claims' \in Lines, matching' \in BOOLEAN,
         check' \in {"idle", "checking", "ok", "mismatch"}, pc # "idle" => ~alone', Verified'
  PROVE  SealInv'
  <1>1. /\ files' = files /\ manifest' = manifest /\ pc' = pc /\ listed' = listed
        /\ hashed' = hashed /\ last' = last /\ held' = held /\ since' = since
    BY DEF sealer, memory
  <1>2. Types /\ Stage /\ Memory /\ Hashing /\ Flushed BY DEF SealInv
  <1>3. Types' BY <1>1, <1>2 DEF Types
  <1>4. Stage' BY <1>1, <1>2 DEF Stage, IsManifest, Open
  <1>5. Memory' BY <1>1, <1>2 DEF Memory, Open
  <1>6. Hashing' BY <1>1, <1>2 DEF Hashing, Honest, Sealed
  <1>7. Flushed' BY <1>1, <1>2 DEF Flushed, Open
  <1> QED BY <1>3, <1>4, <1>5, <1>6, <1>7 DEF SealInv

\* A verification starts with the lines of the manifest.
LEMMA VerifyInv == ASSUME SealInv, Verify PROVE SealInv'
  <1>1. /\ check' = "checking" /\ claims' = manifest.lines /\ manifest # None
        /\ files' = files /\ manifest' = manifest
    BY DEF Verify
  <1>2. matching' = (manifest.lines # NoLines) BY DEF Verify
  <1>3. alone' = (pc = "idle") BY DEF Verify
  <1>4. IsManifest BY <1>1 DEF SealInv, Stage
  <1>5. claims' \in Lines BY <1>1, <1>4 DEF IsManifest
  <1>6. Verified'
    <2>1. IsManifest' BY <1>1, <1>4 DEF IsManifest
    <2>2. ~matching' => manifest'.lines = NoLines BY <1>1, <1>2
    <2>3. claims' = manifest'.lines BY <1>1
    <2> QED BY <2>1, <2>2, <2>3, <1>1 DEF Verified
  <1>7. UNCHANGED <<files, manifest, sealer, changes, kills, memory>> BY DEF Verify
  <1>8. matching' \in BOOLEAN BY <1>2
  <1>9. pc # "idle" => ~alone' BY <1>3
  <1> QED BY <1>1, <1>5, <1>6, <1>7, <1>8, <1>9, VerifierStep

\* A line is compared with the file there is now.
LEMMA CompareInv == ASSUME SealInv, Compare PROVE SealInv'
  <1> DEFINE n == Min(DOMAIN claims)
  <1>1. /\ check = "checking" /\ claims # NoLines
        /\ claims' = Restrict(claims, DOMAIN claims \ {n})
        /\ check' = check /\ alone' = alone /\ files' = files /\ manifest' = manifest
    BY DEF Compare
  <1>2. matching' = (matching /\ files[n] = claims[n]) BY DEF Compare
  <1>3. claims \in Lines /\ Verified /\ (pc # "idle" => ~alone) BY DEF SealInv, Types, Stage
  <1>4. DOMAIN claims # {} /\ DOMAIN claims \in SUBSET Names BY <1>1, <1>3, LinesAre
  <1>5. n \in DOMAIN claims BY <1>4, FirstName
  <1> HIDE DEF n
  <1>6. /\ claims' \in Lines /\ DOMAIN claims' = DOMAIN claims \ {n}
        /\ \A m \in DOMAIN claims' : claims'[m] = claims[m]
    <2>1. DOMAIN claims \ {n} \in SUBSET DOMAIN claims OBVIOUS
    <2> QED BY <2>1, <1>1, <1>3, LinesAre
  <1>7. Verified'
    <2> SUFFICES ASSUME alone
                 PROVE  /\ IsManifest'
                        /\ \A m \in DOMAIN claims' :
                             m \in DOMAIN manifest.lines /\ claims'[m] = manifest.lines[m]
                        /\ matching' =>
                             \A m \in DOMAIN manifest.lines \ DOMAIN claims' : ~Differs(m)
                        /\ ~matching' =>
                             \/ manifest.lines = NoLines
                             \/ \E m \in DOMAIN manifest.lines : Differs(m)
      BY <1>1 DEF Verified, Differs
    <2>1. /\ IsManifest
          /\ \A m \in DOMAIN claims :
               m \in DOMAIN manifest.lines /\ claims[m] = manifest.lines[m]
          /\ matching => \A m \in DOMAIN manifest.lines \ DOMAIN claims : ~Differs(m)
          /\ ~matching =>
               manifest.lines = NoLines \/ \E m \in DOMAIN manifest.lines : Differs(m)
      BY <1>1, <1>3 DEF Verified
    <2>2. IsManifest' BY <2>1, <1>1 DEF IsManifest
    <2>3. n \in DOMAIN manifest.lines /\ claims[n] = manifest.lines[n] BY <2>1, <1>5
    <2>4. ASSUME matching', NEW m \in DOMAIN manifest.lines \ DOMAIN claims'
          PROVE  ~Differs(m)
      <3>1. matching /\ files[n] = claims[n] BY <2>4, <1>2
      <3>2. CASE m = n BY <3>1, <3>2, <2>3 DEF Differs
      <3>3. CASE m # n BY <3>1, <3>3, <2>1, <2>4, <1>6
      <3> QED BY <3>2, <3>3
    <2>5. ASSUME ~matching'
          PROVE  manifest.lines = NoLines \/ \E m \in DOMAIN manifest.lines : Differs(m)
      <3>1. ~matching \/ files[n] # claims[n] BY <2>5, <1>2
      <3>2. CASE ~matching BY <3>2, <2>1
      <3>3. CASE files[n] # claims[n] BY <3>3, <2>3 DEF Differs
      <3> QED BY <3>1, <3>2, <3>3
    <2> QED BY <2>1, <2>2, <2>4, <2>5, <1>6
  <1>8. UNCHANGED <<files, manifest, sealer, changes, kills, memory>> BY DEF Compare
  <1>9. matching' \in BOOLEAN BY <1>2
  <1>10. pc # "idle" => ~alone' BY <1>1, <1>3
  <1> QED BY <1>1, <1>6, <1>7, <1>8, <1>9, <1>10, VerifierStep

\* The report says whether every line matched.
LEMMA ReportInv == ASSUME SealInv, Report PROVE SealInv'
  <1>1. /\ check = "checking" /\ claims = NoLines
        /\ check' = IF matching THEN "ok" ELSE "mismatch"
        /\ alone' = alone /\ files' = files /\ manifest' = manifest
        /\ claims' = claims /\ matching' = matching
    BY DEF Report
  <1>2. claims \in Lines /\ Verified /\ matching \in BOOLEAN /\ (pc # "idle" => ~alone)
    BY DEF SealInv, Types, Stage
  <1>3. Verified'
    <2>1. ASSUME alone, matching PROVE \A m \in DOMAIN manifest.lines : ~Differs(m)
      BY <2>1, <1>1, <1>2, NoLinesAre DEF Verified
    <2>2. ASSUME alone, ~matching
          PROVE  manifest.lines = NoLines \/ \E m \in DOMAIN manifest.lines : Differs(m)
      BY <2>2, <1>1, <1>2 DEF Verified
    <2>3. check' # "checking" /\ (check' = "ok" => matching) /\ (check' = "mismatch" => ~matching)
      BY <1>1
    <2> QED BY <2>1, <2>2, <2>3, <1>1 DEF Verified, Differs
  <1>4. UNCHANGED <<files, manifest, sealer, changes, kills, memory>> BY DEF Report
  <1>5. claims' \in Lines /\ matching' \in BOOLEAN /\ (pc # "idle" => ~alone')
    BY <1>1, <1>2
  <1>6. check' \in {"idle", "checking", "ok", "mismatch"} BY <1>1
  <1> QED BY <1>3, <1>4, <1>5, <1>6, VerifierStep

\* Every step keeps the invariant.
LEMMA NextInv == SealInv /\ [Next]_vars => SealInv'
  <1> SUFFICES ASSUME SealInv, [Next]_vars PROVE SealInv' OBVIOUS
  <1>1. ASSUME UNCHANGED vars PROVE SealInv'
    <2>1. /\ UNCHANGED <<files, manifest, sealer, changes, kills, memory>>
          /\ claims' = claims /\ matching' = matching /\ check' = check /\ alone' = alone
          /\ files' = files /\ manifest' = manifest
      BY <1>1 DEF vars, verifier
    <2>2. Verified' BY <2>1 DEF SealInv, Verified, IsManifest, Differs
    <2>3. claims' \in Lines /\ matching' \in BOOLEAN
          /\ check' \in {"idle", "checking", "ok", "mismatch"} /\ (pc # "idle" => ~alone')
      BY <2>1 DEF SealInv, Types, Stage
    <2> QED BY <2>1, <2>2, <2>3, VerifierStep
  <1>2. ASSUME NEW n \in Names, NEW content \in Contents \cup {None}, Change(n, content)
        PROVE  SealInv'
    BY <1>2, ChangeInv
  <1> QED
    BY <1>1, <1>2, ListForCountInv, HashInv, FindNothingInv, TruncateInv, WriteHeadingInv,
       FlushInv, FinishInv, KillInv, VerifyInv, CompareInv, ReportInv
    DEF Next

\* SealInv always holds.
THEOREM SealAlways == Spec => []SealInv
  BY InitInv, NextInv, PTL DEF Spec

-----------------------------------------------------------------------------
(* Theorems.                                                               *)

\* A verification that runs alone and says OK has found every file that stayed
\* while the manifest was written with a content it had then, for any files,
\* contents and number of changes and kills (seal-evidence.sh:54).
THEOREM OkMeansUnchanged == Spec => []ChangeIsDetected
  <1>1. SealInv => ChangeIsDetected
    <2> SUFFICES ASSUME SealInv, check = "ok", alone, Sealed,
                        NEW n \in Names, None \notin held[n]
                 PROVE  files[n] \in held[n]
      BY DEF ChangeIsDetected
    <2>1. n \in DOMAIN manifest.lines /\ manifest.lines[n] \in held[n]
      BY DEF SealInv, Hashing, Honest
    <2>2. files[n] = manifest.lines[n] BY <2>1 DEF SealInv, Verified, Differs
    <2> QED BY <2>1, <2>2
  <1> QED BY <1>1, SealAlways, PTL

\* A verification that runs alone reports a mismatch only if a file has changed
\* since the manifest was opened, or if it has no lines (seal-evidence.sh:57).
THEOREM MismatchMeansChanged == Spec => []NoFalseAlarm
  <1>1. SealInv => NoFalseAlarm
    <2> SUFFICES ASSUME SealInv, check = "mismatch", alone, Sealed, since = {},
                        manifest.lines # NoLines
                 PROVE  FALSE
      BY DEF NoFalseAlarm
    <2>1. PICK n \in DOMAIN manifest.lines : files[n] # manifest.lines[n]
      BY DEF SealInv, Verified, Differs
    <2>2. n \in Names
      <3>1. manifest.lines \in Lines BY DEF SealInv, Stage, IsManifest, Sealed
      <3> QED BY <3>1, LinesAre
    <2>3. manifest.lines[n] \in held[n] BY DEF SealInv, Hashing, Honest
    <2>4. held[n] = {files[n]} BY <2>2 DEF SealInv, Memory, Sealed
    <2> QED BY <2>1, <2>3, <2>4
  <1> QED BY <1>1, SealAlways, PTL
=============================================================================
