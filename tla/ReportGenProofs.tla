-------------------------- MODULE ReportGenProofs --------------------------
(***************************************************************************)
(* Proofs about ReportGen, for any evidence, any number of overlapping     *)
(* runs, any answers and kills: the facts of a page are those of the files *)
(* it lists, what it says fits its facts, what is kept in the cache is an  *)
(* answer about the facts it is kept for, requests are bounded, an         *)
(* announced page is there, and every step is one of ReportSpec.           *)
(*                                                                         *)
(* A narrative goes from the answer to the cache file, from there to other *)
(* runs, and with the facts of the run onto a page.  The invariant IInv    *)
(* states at each stage that it was written about the facts it lies        *)
(* beside, or stands for a null answer about them (Kept): Told for a run,  *)
(* CacheInv for a file, GoodPage for a page.  The key carries this across  *)
(* runs, because it is the context itself.  What the parsers compute is    *)
(* not looked into for this.                                               *)
(*                                                                         *)
(* It is for the facts.  The invariant ReadInv says that what a run has    *)
(* read of a file is a beginning of it, whoever writes to it meanwhile;    *)
(* and each parser finds in a beginning of a file the first of what it     *)
(* finds in the file (FactsOfStarts), or, where it counts, no more.        *)
(***************************************************************************)
EXTENDS ReportGen, FiniteSetTheorems, FunctionTheorems, WellFoundedInduction, TLAPS

Asking   == {"waiting", "backoff", "retrying"}
Unasked  == {"absent", "idle", "glob", "look", "ask", "forecast"} \cup Kinds
Printed  == {"printing", "announced", "crashed"}
Informed == {"store", "filling", "render", "printing"}

-----------------------------------------------------------------------------
(* The inductive invariant.                                                *)

\* The variables that hold a value for every run do so.
IsFun(f) == f = [r \in Runs |-> f[r]]

Funs ==
  /\ IsFun(inv) /\ IsFun(pc) /\ IsFun(data) /\ IsFun(narrative) /\ IsFun(status)
  /\ IsFun(stamp) /\ IsFun(sent) /\ IsFun(out)

\* Requests sent so far, by place.
Counted(p, n) ==
  /\ n \in 0..2
  /\ p \in Unasked => n = 0
  /\ p \in {"waiting", "backoff"} => n = 1

\* Only a run in another mode than mock that is no dry run asks.
Entitled(p, n, c) ==
  /\ p \notin {"absent", "idle"} => c.mode \in {"mock", "gemini", "other"}
  /\ p = "ask" => ~c.dryRun
  /\ p \in Asking \/ n > 0 => c.mode # "mock" /\ ~c.dryRun

Label(c) == IF c.mode = "gemini" THEN c.model ELSE Mock

\* What an answer to these facts has left: a narrative about them, or the
\* fallback text of a null answer.
Kept(story, about) ==
  \/ story \in written /\ ~Empty(story) /\ story.about = about
  \/ story = Fallback /\ NullAnswer(about)

\* The narrative of a run that has got an answer, or none.
Told(p, story, state, facts, c) ==
  /\ p \in {"store", "filling"} => state = "ok"
  /\ p \in Informed =>
       \/ story = Fallback /\ state \notin {"ok", "cached"}
       \/ /\ Kept(story, AsAIContext(facts))
          /\ state \in {"ok", "cached"}
          /\ state = "ok" /\ c.mode # "other" => story = Fallback \/ story.by = Label(c)

GoodPage(page, c) ==
  \/ page.narrative = Fallback /\ page.note /\ page.status \notin {"ok", "cached"}
  \/ /\ Kept(page.narrative, AsAIContext(page.data))
     /\ \/ c.mode # "other" => page.narrative = Fallback \/ page.narrative.by = page.model
        \/ page.cache = "hit" /\ page.status = "cached" /\ page.note

\* What a finished run has announced.
Shown(p, o, c) == o # None => p = "announced" /\ GoodPage(o.page, c)

\* A run that has sent a request has no narrative from the cache, and says
\* that it made a call.
Billed(p, n, state, o, c) ==
  /\ p \in Informed /\ n > 0 => state # "cached"
  /\ o # None /\ n > 0 /\ c.mode = "gemini" => o.calls = 1 \/ Limit(c) < 1

RunInv(r) ==
  /\ Counted(pc[r], sent[r])
  /\ Entitled(pc[r], sent[r], inv[r])
  /\ Told(pc[r], narrative[r], status[r], data[r], inv[r])
  /\ Shown(pc[r], out[r], inv[r])
  /\ Billed(pc[r], sent[r], status[r], out[r], inv[r])

\* What came back is no fallback text.
WrittenInv == \A answer \in written : answer.shape \in Shapes

CacheInv ==
  \A key \in DOMAIN cache : cache[key].whole => Kept(cache[key].content, key)

PageInv ==
  \A s \in DOMAIN pages : pages[s].whole =>
    LET page == pages[s].content
    IN  page.narrative = Fallback \/ page.narrative.about = AsAIContext(page.data)

\* A page file that two runs had open at once has the name of both.
Twins(o, p, s) == o # p /\ stamp[o] = s /\ stamp[p] = s /\ pc[o] \in Printed /\ pc[p] \in Printed

ClashInv == \A s : <<"page", s>> \in clashed => \E o, p \in Runs : Twins(o, p, s)

Own(r) ==
  pc[r] = "announced" =>
    \/ pages[stamp[r]] = File(out[r].page)
    \/ \E o \in Runs : Twins(o, r, stamp[r])

Opened(r) == pc[r] \in {"printing", "announced"} => stamp[r] \in DOMAIN pages

IInv ==
  /\ Funs
  /\ \A r \in Runs : RunInv(r) /\ Own(r) /\ Opened(r)
  /\ WrittenInv /\ CacheInv /\ PageInv /\ ClashInv

-----------------------------------------------------------------------------
(* Lemmas.                                                                 *)

\* Taking rows off the timeline does not change what is sent to the model.
LEMMA ContextIgnoresTimeline ==
  ASSUME NEW facts, NEW rows
  PROVE  AsAIContext([facts EXCEPT !.timeline = rows]) = AsAIContext(facts)
  BY DEF AsAIContext

\* What came back is not the fallback text.
LEMMA NotFallback ==
  ASSUME NEW answer, answer.shape \in Shapes
  PROVE  answer # Fallback
  BY DEF Fallback, Shapes

\* What has been answered stays so.
LEMMA KeptStays ==
  ASSUME written \subseteq written', NEW story, NEW about, Kept(story, about)
  PROVE  Kept(story, about)'
  BY DEF Kept, NullAnswer

LEMMA CacheStays ==
  ASSUME CacheInv, written \subseteq written', cache' = cache
  PROVE  CacheInv'
  BY KeptStays DEF CacheInv

LEMMA InitInv == Init => IInv
  <1> SUFFICES ASSUME Init PROVE IInv OBVIOUS
  <1>1. Funs BY DEF Init, Funs, IsFun
  <1>2. ASSUME NEW r \in Runs PROVE RunInv(r) /\ Own(r) /\ Opened(r)
    <2>1. pc[r] \in {"absent", "idle"} /\ sent[r] = 0 /\ out[r] = None BY DEF Init
    <2> QED BY <2>1 DEF RunInv, Own, Opened, Counted, Entitled, Told, Shown, Billed,
                        Unasked, Asking, Informed
  <1>3. WrittenInv /\ CacheInv /\ PageInv /\ ClashInv
    BY DEF Init, WrittenInv, CacheInv, PageInv, ClashInv
  <1> QED BY <1>1, <1>2, <1>3 DEF IInv

-----------------------------------------------------------------------------
(* Steps that open and fill no page.                                       *)

\* The variables of a run stay.
Same(r) ==
  /\ pc'[r] = pc[r] /\ inv'[r] = inv[r] /\ data'[r] = data[r]
  /\ narrative'[r] = narrative[r] /\ status'[r] = status[r] /\ stamp'[r] = stamp[r]
  /\ sent'[r] = sent[r] /\ out'[r] = out[r]

\* All but those of one run do.
OnlyOf(r) == Funs' /\ \A o \in Runs \ {r} : Same(o)

\* Page files stay, and the history of who had them open.
SamePages ==
  pages' = pages /\ stamp' = stamp /\ \A s : <<"page", s>> \in clashed' => <<"page", s>> \in clashed

LEMMA SameKeepsRunInv ==
  ASSUME NEW r, RunInv(r), Same(r), written \subseteq written'
  PROVE  RunInv(r)'
  <1>1. Counted(pc[r], sent[r])' /\ Entitled(pc[r], sent[r], inv[r])'
    BY DEF RunInv, Same, Counted, Entitled
  <1>2. Told(pc[r], narrative[r], status[r], data[r], inv[r])'
    BY KeptStays DEF RunInv, Same, Told
  <1>3. Shown(pc[r], out[r], inv[r])'
    BY KeptStays DEF RunInv, Same, Shown, GoodPage
  <1>4. Billed(pc[r], sent[r], status[r], out[r], inv[r])'
    BY DEF RunInv, Same, Billed, Limit
  <1> QED BY <1>1, <1>2, <1>3, <1>4 DEF RunInv

LEMMA LocalStep ==
  ASSUME IInv, NEW r \in Runs, OnlyOf(r), SamePages, written \subseteq written',
         pc[r] \in Printed => pc'[r] \in Printed,
         pc'[r] \notin {"printing", "announced"},
         RunInv(r)', WrittenInv', CacheInv'
  PROVE  IInv'
  <1>1. ASSUME NEW o \in Runs PROVE RunInv(o)'
    <2>1. CASE o = r BY <2>1
    <2>2. CASE o # r BY <2>2, SameKeepsRunInv DEF IInv, OnlyOf
    <2> QED BY <2>1, <2>2
  <1>2. ASSUME NEW o \in Runs, NEW p \in Runs, NEW s, Twins(o, p, s) PROVE Twins(o, p, s)'
    BY <1>2 DEF Twins, OnlyOf, Same, SamePages
  <1>3. ASSUME NEW o \in Runs PROVE Own(o)' /\ Opened(o)'
    <2>1. CASE o = r BY <2>1 DEF Own, Opened
    <2>2. CASE o # r
      <3>1. Same(o) /\ Own(o) /\ Opened(o) BY <2>2 DEF IInv, OnlyOf
      <3>2. Opened(o)' BY <3>1 DEF Opened, Same, SamePages
      <3>3. SUFFICES ASSUME pc'[o] = "announced"
                     PROVE  \/ pages'[stamp'[o]] = File(out'[o].page)
                            \/ \E q \in Runs : Twins(q, o, stamp[o])'
        BY <3>2 DEF Own
      <3>4. CASE pages[stamp[o]] = File(out[o].page) BY <3>1, <3>4 DEF Same, SamePages
      <3>5. CASE \E q \in Runs : Twins(q, o, stamp[o])
        <4>1. PICK q \in Runs : Twins(q, o, stamp[o]) BY <3>5
        <4>2. stamp'[o] = stamp[o] BY <3>1 DEF Same
        <4> QED BY <1>2, <4>1, <4>2 DEF Twins
      <3> QED BY <3>1, <3>3, <3>4, <3>5 DEF Own, Same
    <2> QED BY <2>1, <2>2
  <1>4. ClashInv'
    <2> SUFFICES ASSUME NEW s, <<"page", s>> \in clashed' PROVE \E o, p \in Runs : Twins(o, p, s)'
      BY DEF ClashInv
    <2>1. PICK o, p \in Runs : Twins(o, p, s) BY DEF IInv, ClashInv, SamePages
    <2> QED BY <1>2, <2>1
  <1>5. PageInv' BY DEF IInv, PageInv, SamePages
  <1> QED BY <1>1, <1>3, <1>4, <1>5 DEF IInv, OnlyOf

\* What OnlyOf says of a step that leaves all but the place of a run alone.
LEMMA ReadingStep ==
  ASSUME IInv, NEW r \in Runs, NEW place, Goto(r, place),
         pc[r] \in Unasked \ {"ask", "forecast"}, place \in Unasked \ {"ask", "forecast"},
         IsFun(data'), \A o \in Runs \ {r} : data'[o] = data[o],
         IsFun(inv'), \A o \in Runs \ {r} : inv'[o] = inv[o],
         inv'[r].mode \in {"mock", "gemini", "other"},
         UNCHANGED <<result, disk, history>>
  PROVE  IInv'
  <1>1. OnlyOf(r)
    BY DEF IInv, Funs, IsFun, OnlyOf, Same, Goto, result, history
  <1>2. SamePages BY DEF SamePages, disk, result
  <1>3. pc'[r] = place BY DEF IInv, Funs, IsFun, Goto
  <1>4. RunInv(r)'
    <2>1. RunInv(r) /\ sent' = sent /\ out' = out BY DEF IInv, history
    <2>2. place \notin Asking \cup Informed /\ place # "announced" /\ pc[r] # "announced"
      BY DEF Unasked, Kinds, Asking, Informed
    <2>3. Counted(pc[r], sent[r])' /\ Entitled(pc[r], sent[r], inv[r])'
      BY <1>3, <2>1, <2>2 DEF RunInv, Counted, Entitled, Asking
    <2>4. Told(pc[r], narrative[r], status[r], data[r], inv[r])'
      BY <1>3, <2>2 DEF Told, Informed
    <2>5. Shown(pc[r], out[r], inv[r])' BY <2>1, <2>2 DEF RunInv, Shown
    <2>6. Billed(pc[r], sent[r], status[r], out[r], inv[r])'
      BY <1>3, <2>1, <2>2 DEF RunInv, Shown, Billed
    <2> QED BY <2>3, <2>4, <2>5, <2>6 DEF RunInv
  <1>5. WrittenInv' /\ CacheInv' BY CacheStays DEF IInv, WrittenInv, disk, history
  <1>6. pc[r] \notin Printed /\ pc'[r] \notin {"printing", "announced"}
    BY <1>3 DEF Unasked, Kinds, Printed
  <1>7. written \subseteq written' BY DEF history
  <1> QED BY <1>1, <1>2, <1>4, <1>5, <1>6, <1>7, LocalStep

\* A run that ends before a page is open, or is killed.
LEMMA EndingStep ==
  ASSUME IInv, NEW r \in Runs, NEW place, Exit(r, place),
         place \in {"forecast", "failed", "crashed"},
         place = "forecast" => pc[r] = "look",
         place = "crashed" \/ pc[r] \notin Printed,
         pc[r] \notin {"absent", "idle", "announced"},
         UNCHANGED <<disk, sent, written, out>>
  PROVE  IInv'
  <1>1. OnlyOf(r)
    BY DEF IInv, Funs, IsFun, OnlyOf, Same, Exit, Goto
  <1>2. SamePages BY DEF SamePages, disk, Exit
  <1>3. pc'[r] = place /\ inv' = inv BY DEF IInv, Funs, IsFun, Exit, Goto
  <1>4. RunInv(r)'
    <2>1. RunInv(r) BY DEF IInv
    <2>2. Counted(pc[r], sent[r])' BY <1>3, <2>1 DEF RunInv, Counted, Unasked, Kinds
    <2>3. Entitled(pc[r], sent[r], inv[r])' BY <1>3, <2>1 DEF RunInv, Entitled, Asking
    <2>4. Told(pc[r], narrative[r], status[r], data[r], inv[r])' BY <1>3 DEF Told, Informed
    <2>5. Shown(pc[r], out[r], inv[r])' BY <2>1 DEF RunInv, Shown
    <2>6. Billed(pc[r], sent[r], status[r], out[r], inv[r])'
      BY <1>3, <2>1 DEF RunInv, Shown, Billed, Informed
    <2> QED BY <2>2, <2>3, <2>4, <2>5, <2>6 DEF RunInv
  <1>5. WrittenInv' /\ CacheInv' BY CacheStays DEF IInv, WrittenInv, disk
  <1>6. pc[r] \in Printed => pc'[r] \in Printed BY <1>3 DEF Printed
  <1> QED BY <1>1, <1>2, <1>3, <1>4, <1>5, <1>6, LocalStep

\* A run that goes on, in the same settings and with the same facts.
Onward(r, place) ==
  /\ Goto(r, place) /\ place \notin {"printing", "announced"}
  /\ pc[r] \notin Printed
  /\ UNCHANGED <<inputs, stamp, out>>

LEMMA OnwardStep ==
  ASSUME IInv, NEW r \in Runs, NEW place, Onward(r, place),
         SamePages, written \subseteq written', WrittenInv', CacheInv',
         IsFun(narrative'), \A o \in Runs \ {r} : narrative'[o] = narrative[o],
         IsFun(status'), \A o \in Runs \ {r} : status'[o] = status[o],
         IsFun(sent'), \A o \in Runs \ {r} : sent'[o] = sent[o],
         Counted(place, sent'[r]),
         Entitled(place, sent'[r], inv[r]),
         Told(place, narrative[r], status[r], data[r], inv[r])',
         place \in Informed /\ sent'[r] > 0 => status'[r] # "cached"
  PROVE  IInv'
  <1>1. inv' = inv /\ data' = data /\ stamp' = stamp /\ out' = out BY DEF Onward, inputs
  <1>2. IsFun(pc') /\ pc'[r] = place /\ \A o \in Runs \ {r} : pc'[o] = pc[o]
    BY DEF IInv, Funs, IsFun, Onward, Goto
  <1>3. OnlyOf(r)
    <2>1. IsFun(inv') /\ IsFun(data') /\ IsFun(stamp') /\ IsFun(out') BY <1>1 DEF IInv, Funs, IsFun
    <2> QED BY <1>1, <1>2, <2>1 DEF OnlyOf, Same, Funs, IsFun
  <1>4. RunInv(r)'
    <2>1. Shown(pc[r], out[r], inv[r])'
      BY <1>1, <1>2 DEF IInv, RunInv, Shown, Onward, Printed
    <2>2. Told(place, narrative[r], status[r], data[r], inv[r])' BY <1>2
    <2>3. Counted(pc[r], sent[r])' /\ Entitled(pc[r], sent[r], inv[r])' BY <1>1, <1>2
    <2>4. Told(pc[r], narrative[r], status[r], data[r], inv[r])' BY <1>1, <1>2, <2>2 DEF Told
    <2>5. Billed(pc[r], sent[r], status[r], out[r], inv[r])'
      BY <1>1, <1>2 DEF IInv, RunInv, Shown, Billed, Onward, Printed
    <2> QED BY <2>1, <2>3, <2>4, <2>5 DEF RunInv
  <1>5. pc'[r] \notin {"printing", "announced"} /\ pc[r] \notin Printed BY <1>2 DEF Onward
  <1> QED BY <1>3, <1>4, <1>5, LocalStep

-----------------------------------------------------------------------------
(* The steps, up to the page.                                              *)

LEMMA ReadingInv ==
  ASSUME IInv, NEW r \in Runs,
         Invoke(r) \/ Glob(r) \/ ReadDetection(r) \/ ReadHunt(r) \/ ReadCorrelation(r) \/ Miss(r)
  PROVE  IInv'
  <1> DEFINE Facts == /\ IsFun(data') /\ \A o \in Runs \ {r} : data'[o] = data[o]
                      /\ IsFun(inv') /\ \A o \in Runs \ {r} : inv'[o] = inv[o]
                      /\ inv'[r].mode \in {"mock", "gemini", "other"}
  <1>0. pc[r] \notin {"absent", "idle"} => inv[r].mode \in {"mock", "gemini", "other"}
    BY DEF IInv, RunInv, Entitled
  <1>1. CASE Invoke(r)
    <2>1. Facts
      <3>1. PICK c \in Invocations[r] :
              inv' = [inv EXCEPT ![r] =
                        [c EXCEPT !.dryRun = @ \/ (c.mode = "gemini" /\ c.auth = "none")]]
        BY <1>1 DEF Invoke
      <3>2. c \in Invocation BY InvocationsAssumption
      <3>3. inv'[r].mode = c.mode BY <3>1, <3>2 DEF IInv, Funs, IsFun, Invocation
      <3>4. c.mode \in {"mock", "gemini", "other"} BY <3>2 DEF Invocation
      <3> QED BY <1>1, <3>1, <3>3, <3>4 DEF IInv, Funs, IsFun, Invoke
    <2>2. Goto(r, "glob") /\ pc[r] = "idle" /\ UNCHANGED <<result, disk, history>> BY <1>1 DEF Invoke
    <2> QED BY <2>1, <2>2, ReadingStep DEF Unasked
  <1>2. CASE Glob(r)
    <2>1. Facts BY <1>0, <1>2 DEF IInv, Funs, IsFun, Glob
    <2>2. Goto(r, "detection") /\ pc[r] = "glob" /\ UNCHANGED <<result, disk, history>>
      BY <1>2 DEF Glob
    <2> QED BY <2>1, <2>2, ReadingStep DEF Unasked, Kinds
  <1>3. CASE ReadDetection(r)
    <2>1. Facts BY <1>0, <1>3 DEF IInv, Funs, IsFun, ReadDetection, Read
    <2>2. Goto(r, "hunt") /\ pc[r] = "detection" /\ UNCHANGED <<result, disk, history>>
      BY <1>3 DEF ReadDetection, Read
    <2> QED BY <2>1, <2>2, ReadingStep DEF Unasked, Kinds
  <1>4. CASE ReadHunt(r)
    <2>1. Facts BY <1>0, <1>4 DEF IInv, Funs, IsFun, ReadHunt, Read
    <2>2. Goto(r, "correlation") /\ pc[r] = "hunt" /\ UNCHANGED <<result, disk, history>>
      BY <1>4 DEF ReadHunt, Read
    <2> QED BY <2>1, <2>2, ReadingStep DEF Unasked, Kinds
  <1>5. CASE ReadCorrelation(r)
    <2>1. Facts BY <1>0, <1>5 DEF IInv, Funs, IsFun, ReadCorrelation
    <2>2. Goto(r, "look") /\ pc[r] = "correlation" /\ UNCHANGED <<result, disk, history>>
      BY <1>5 DEF ReadCorrelation
    <2> QED BY <2>1, <2>2, ReadingStep DEF Unasked, Kinds
  <1>6. CASE Miss(r)
    <2>1. Onward(r, "ask") /\ SamePages BY <1>6 DEF Miss, Onward, SamePages, result, disk, history, Printed
    <2>2. UNCHANGED <<narrative, status, sent, written, cache>> BY <1>6 DEF Miss, result, disk, history
    <2>3. WrittenInv' /\ CacheInv' BY <2>2, CacheStays DEF IInv, WrittenInv
    <2>4. Counted("ask", sent[r]) /\ Entitled("ask", sent[r], inv[r])
      BY <1>6 DEF IInv, RunInv, Miss, Counted, Entitled, Unasked, Kinds, Asking
    <2>5. Told("ask", narrative[r], status[r], data[r], inv[r])' BY DEF Told, Informed
    <2>6. "ask" \notin Informed BY DEF Informed
    <2> QED BY <2>1, <2>2, <2>3, <2>4, <2>5, <2>6, OnwardStep DEF IInv, Funs
  <1> QED BY <1>1, <1>2, <1>3, <1>4, <1>5, <1>6

LEMMA DryLookInv ==
  ASSUME IInv, NEW r \in Runs, DryLook(r)
  PROVE  IInv'
  <1>1. /\ Exit(r, "forecast") /\ pc[r] = "look"
        /\ UNCHANGED <<disk, sent, written, out>>
    BY DEF DryLook, history
  <1> QED BY <1>1, EndingStep DEF Printed

LEMMA HitInv ==
  ASSUME IInv, NEW r \in Runs, Hit(r)
  PROVE  IInv'
  <1>1. /\ Onward(r, "render") /\ SamePages
        /\ UNCHANGED <<inv, data, sent, written, cache>>
    BY DEF Hit, Onward, SamePages, inputs, disk, history, Printed
  <1>2. /\ IsFun(narrative') /\ narrative'[r] = cache[Key(r)].content
        /\ \A o \in Runs \ {r} : narrative'[o] = narrative[o]
        /\ IsFun(status') /\ status'[r] = "cached"
        /\ \A o \in Runs \ {r} : status'[o] = status[o]
    BY DEF Hit, IInv, Funs, IsFun
  <1>3. WrittenInv' /\ CacheInv' BY <1>1, CacheStays DEF IInv, WrittenInv
  <1>4. Counted("render", sent[r]) /\ Entitled("render", sent[r], inv[r])
    BY DEF Hit, IInv, RunInv, Counted, Entitled, Unasked, Kinds, Asking
  <1>5. Told("render", narrative[r], status[r], data[r], inv[r])'
    <2>1. Kept(narrative'[r], Context(r))
      BY <1>2 DEF Hit, Readable, IInv, CacheInv, Key, Fingerprint
    <2>2. Kept(narrative[r], Context(r))' BY <1>1, <2>1, KeptStays DEF Context
    <2> QED BY <1>1, <1>2, <2>2 DEF Told, Informed, Context
  <1>6. ~(sent'[r] > 0) BY <1>1 DEF Hit, IInv, RunInv, Counted, Unasked
  <1> QED BY <1>1, <1>2, <1>3, <1>4, <1>5, <1>6, OnwardStep DEF IInv, Funs

LEMMA FallBackInv ==
  ASSUME IInv, NEW r \in Runs, NEW why, FallBack(r, why), pc[r] \notin Printed,
         why \notin {"ok", "cached"}, Entitled("render", sent[r], inv[r])
  PROVE  IInv'
  <1>1. /\ Onward(r, "render") /\ SamePages
        /\ UNCHANGED <<inv, data, sent, written, cache>>
    BY DEF FallBack, Onward, SamePages, inputs, disk, history
  <1>2. /\ IsFun(narrative') /\ narrative'[r] = Fallback
        /\ \A o \in Runs \ {r} : narrative'[o] = narrative[o]
        /\ IsFun(status') /\ status'[r] = why
        /\ \A o \in Runs \ {r} : status'[o] = status[o]
    BY DEF FallBack, IInv, Funs, IsFun
  <1>3. WrittenInv' /\ CacheInv' BY <1>1, CacheStays DEF IInv, WrittenInv
  <1>4. Counted("render", sent[r]) BY DEF IInv, RunInv, Counted, Unasked, Kinds
  <1>5. Told("render", narrative[r], status[r], data[r], inv[r])'
    BY <1>2 DEF Told, Informed
  <1> QED BY <1>1, <1>2, <1>3, <1>4, <1>5, OnwardStep DEF IInv, Funs

LEMMA AcceptInv ==
  ASSUME IInv, NEW r \in Runs, NEW by, NEW shape \in Shapes, Accept(r, by, shape),
         pc[r] \notin Printed, by = Label(inv[r]) \/ inv[r].mode = "other",
         Entitled("store", sent[r], inv[r])
  PROVE  IInv'
  <1> DEFINE answer == Narrative(by, Context(r), shape)
  <1>1. answer.by = by /\ answer.about = Context(r) /\ answer.shape = shape BY DEF Narrative
  <1>2. /\ Onward(r, "store") /\ SamePages
        /\ UNCHANGED <<inv, data, sent, cache>>
        /\ written' = written \cup {answer}
    BY DEF Accept, Onward, SamePages, inputs, disk
  <1>3. /\ IsFun(narrative') /\ narrative'[r] = Usable(answer)
        /\ \A o \in Runs \ {r} : narrative'[o] = narrative[o]
        /\ IsFun(status') /\ status'[r] = "ok"
        /\ \A o \in Runs \ {r} : status'[o] = status[o]
    BY DEF Accept, IInv, Funs, IsFun
  <1> HIDE DEF answer
  <1>4. WrittenInv' /\ CacheInv' BY <1>1, <1>2, CacheStays DEF IInv, WrittenInv
  <1>5. Counted("store", sent[r]) BY DEF IInv, RunInv, Counted, Unasked, Kinds
  <1>6. Kept(narrative[r], Context(r))'
    <2>1. CASE Empty(answer) BY <1>1, <1>2, <1>3, <2>1 DEF Kept, NullAnswer, Usable, Context
    <2>2. CASE ~Empty(answer) BY <1>1, <1>2, <1>3, <2>2 DEF Kept, Usable, Context
    <2> QED BY <2>1, <2>2
  <1>7. narrative'[r] = Fallback \/ narrative'[r].by = by BY <1>1, <1>3 DEF Usable
  <1>8. Told("store", narrative[r], status[r], data[r], inv[r])'
    BY <1>2, <1>3, <1>6, <1>7 DEF Told, Context
  <1> QED BY <1>2, <1>3, <1>4, <1>5, <1>8, OnwardStep DEF IInv, Funs

LEMMA AnswersInv ==
  ASSUME IInv, NEW r \in Runs,
         MockNarrate(r) \/ Unavailable(r) \/ Answer(r) \/ BadJson(r) \/ Fail(r)
  PROVE  IInv'
  <1>1. CASE MockNarrate(r)
    <2>1. Entitled("store", sent[r], inv[r])
      BY <1>1 DEF MockNarrate, IInv, RunInv, Entitled, Counted, Unasked, Asking
    <2>2. Accept(r, Mock, "good") /\ pc[r] \notin Printed /\ Mock = Label(inv[r])
      BY <1>1 DEF MockNarrate, Printed, Label
    <2> QED BY <2>1, <2>2, AcceptInv DEF Shapes
  <1>2. CASE Unavailable(r)
    <2>1. Entitled("render", sent[r], inv[r])
      BY <1>2 DEF Unavailable, IInv, RunInv, Entitled, Asking
    <2> QED BY <1>2, <2>1, FallBackInv DEF Unavailable, Printed
  <1>3. CASE Answer(r) \/ BadJson(r) \/ Fail(r)
    <2>1. /\ Asked(r) /\ pc[r] \notin Printed
          /\ Entitled("store", sent[r], inv[r]) /\ Entitled("render", sent[r], inv[r])
          /\ inv[r].mode # "mock"
      BY <1>3 DEF Answer, BadJson, Fail, Asked, IInv, RunInv, Entitled, Asking, Printed
    <2>2. CASE Answer(r)
      <3>1. PICK shape \in Shapes : Accept(r, inv[r].model, shape) BY <2>2 DEF Answer
      <3>2. CASE inv[r].mode = "gemini"
        BY <2>1, <3>1, <3>2, AcceptInv DEF Label
      <3>3. CASE inv[r].mode = "other"
        BY <2>1, <3>1, <3>3, AcceptInv
      <3>4. inv[r].mode \in {"gemini", "other"}
        BY <2>1 DEF Asked, IInv, RunInv, Entitled
      <3> QED BY <3>2, <3>3, <3>4
    <2>3. CASE BadJson(r) BY <2>1, <2>3, FallBackInv DEF BadJson
    <2>4. CASE Fail(r) BY <2>1, <2>4, FallBackInv DEF Fail
    <2> QED BY <1>3, <2>2, <2>3, <2>4
  <1> QED BY <1>1, <1>2, <1>3

LEMMA SendToInv ==
  ASSUME IInv, NEW r \in Runs, NEW place \in Asking, SendTo(r, place),
         Counted(place, sent[r] + 1), Entitled(place, 1, inv[r]), pc[r] \notin Printed
  PROVE  IInv'
  <1>1. /\ Onward(r, place) /\ SamePages
        /\ UNCHANGED <<narrative, status, written, cache>>
    BY DEF SendTo, Onward, SamePages, inputs, result, disk, Asking
  <1>2. IsFun(sent') /\ sent'[r] = sent[r] + 1 /\ \A o \in Runs \ {r} : sent'[o] = sent[o]
    BY DEF SendTo, IInv, Funs, IsFun
  <1>3. WrittenInv' /\ CacheInv' BY <1>1, CacheStays DEF IInv, WrittenInv
  <1>4. Counted(place, sent'[r]) /\ Entitled(place, sent'[r], inv[r])
    BY <1>2 DEF Entitled
  <1>5. Told(place, narrative[r], status[r], data[r], inv[r])' BY DEF Told, Informed, Asking
  <1>6. place \notin Informed BY DEF Informed, Asking
  <1> QED BY <1>1, <1>2, <1>3, <1>4, <1>5, <1>6, OnwardStep DEF IInv, Funs

LEMMA RequestsInv ==
  ASSUME IInv, NEW r \in Runs, Send(r) \/ Transient(r) \/ Retry(r)
  PROVE  IInv'
  <1>1. CASE Send(r)
    <2>1. pc[r] = "ask" /\ SendTo(r, "waiting") /\ inv[r].mode # "mock" BY <1>1 DEF Send
    <2>2. sent[r] = 0 BY <2>1 DEF IInv, RunInv, Counted, Unasked
    <2>3. Counted("waiting", sent[r] + 1) BY <2>2 DEF Counted, Unasked, Kinds
    <2>4. Entitled("waiting", 1, inv[r]) BY <2>1 DEF IInv, RunInv, Entitled, Asking
    <2> QED BY <2>1, <2>3, <2>4, SendToInv DEF Asking, Printed
  <1>2. CASE Retry(r)
    <2>1. pc[r] = "backoff" /\ SendTo(r, "retrying") BY <1>2 DEF Retry
    <2>2. sent[r] = 1 BY <2>1 DEF IInv, RunInv, Counted
    <2>3. Counted("retrying", sent[r] + 1) BY <2>2 DEF Counted, Unasked, Kinds
    <2>4. Entitled("retrying", 1, inv[r]) BY <2>1, <2>2 DEF IInv, RunInv, Entitled, Asking
    <2> QED BY <2>1, <2>3, <2>4, SendToInv DEF Asking, Printed
  <1>3. CASE Transient(r)
    <2>1. /\ Onward(r, "backoff") /\ SamePages
          /\ UNCHANGED <<narrative, status, sent, written, cache>>
      BY <1>3 DEF Transient, Onward, SamePages, result, disk, history, Printed
    <2>2. WrittenInv' /\ CacheInv' BY <2>1, CacheStays DEF IInv, WrittenInv
    <2>3. Counted("backoff", sent[r]) /\ Entitled("backoff", sent[r], inv[r])
      BY <1>3 DEF Transient, IInv, RunInv, Counted, Entitled, Unasked, Kinds, Asking
    <2>4. Told("backoff", narrative[r], status[r], data[r], inv[r])' BY DEF Told, Informed
    <2>5. "backoff" \notin Informed BY DEF Informed
    <2> QED BY <2>1, <2>2, <2>3, <2>4, <2>5, OnwardStep DEF IInv, Funs
  <1> QED BY <1>1, <1>2, <1>3

\* A step that writes the cache file of a run.
LEMMA CacheStep ==
  ASSUME IInv, NEW r \in Runs, NEW place \in {"filling", "render"}, Goto(r, place),
         pc[r] \in {"store", "filling"}, SamePages, CacheInv',
         UNCHANGED <<inputs, result, history>>
  PROVE  IInv'
  <1>1. /\ Onward(r, place)
        /\ UNCHANGED <<inv, data, narrative, status, sent, written>>
    BY DEF Onward, inputs, result, history, Printed
  <1>2. WrittenInv' BY <1>1 DEF IInv, WrittenInv
  <1>3. Counted(place, sent[r]) /\ Entitled(place, sent[r], inv[r])
    BY DEF IInv, RunInv, Counted, Entitled, Unasked, Kinds, Asking
  <1>4. Told(place, narrative[r], status[r], data[r], inv[r])'
    BY <1>1, KeptStays DEF IInv, RunInv, Told, Informed
  <1>5. status'[r] # "cached" BY <1>1 DEF IInv, RunInv, Told
  <1> QED BY <1>1, <1>2, <1>3, <1>4, <1>5, OnwardStep DEF IInv, Funs

LEMMA CachePut ==
  ASSUME CacheInv, NEW key, NEW file, cache' = Put(cache, key, file), written' = written,
         file.whole => Kept(file.content, key)
  PROVE  CacheInv'
  <1> SUFFICES ASSUME NEW k \in DOMAIN cache', cache'[k].whole
               PROVE  Kept(cache'[k].content, k)
    BY KeptStays DEF CacheInv
  <1>1. CASE k = key
    <2>1. cache'[k] = file BY <1>1 DEF Put
    <2> QED BY <1>1, <2>1
  <1>2. CASE k # key
    <2>1. DOMAIN cache' = DOMAIN cache \cup {key} BY DEF Put
    <2>2. k \in DOMAIN cache BY <1>2, <2>1
    <2>3. cache'[k] = cache[k] BY <1>2, <2>2 DEF Put
    <2> QED BY <2>2, <2>3 DEF CacheInv
  <1> QED BY <1>1, <1>2

LEMMA CacheFileInv ==
  ASSUME IInv, NEW r \in Runs, OpenCacheFile(r) \/ FillCacheFile(r)
  PROVE  IInv'
  <1>1. CASE OpenCacheFile(r)
    <2>1. SamePages
      BY <1>1 DEF OpenCacheFile, NoteWriter, SamePages, result
    <2>2. cache' = Put(cache, Key(r), Torn) /\ written' = written
      BY <1>1 DEF OpenCacheFile, history
    <2>3. CacheInv'
      BY <2>2, CachePut DEF IInv, Torn
    <2> QED BY <1>1, <2>1, <2>3, CacheStep DEF OpenCacheFile
  <1>2. CASE FillCacheFile(r)
    <2>1. SamePages BY <1>2 DEF FillCacheFile, SamePages, result
    <2>2. PICK file \in Left("cache", Key(r), narrative[r]) : cache' = Put(cache, Key(r), file)
      BY <1>2 DEF FillCacheFile
    <2>3. written' = written BY <1>2 DEF FillCacheFile, history
    <2>4. Kept(narrative[r], Key(r))
      <3>1. Told(pc[r], narrative[r], status[r], data[r], inv[r]) BY DEF IInv, RunInv
      <3> QED BY <1>2, <3>1 DEF FillCacheFile, Told, Informed, Key, Fingerprint, Context
    <2>5. file.whole => file.content = narrative[r]
      BY DEF Left, File, Torn
    <2>6. CacheInv'
      BY <2>2, <2>3, <2>4, <2>5, CachePut DEF IInv
    <2> QED BY <1>2, <2>1, <2>6, CacheStep DEF FillCacheFile
  <1> QED BY <1>1, <1>2

LEMMA EndsInv ==
  ASSUME IInv, NEW r \in Runs, RenderFails(r) \/ Crash(r)
  PROVE  IInv'
  <1>1. CASE RenderFails(r)
    BY <1>1, EndingStep DEF RenderFails, history, Printed
  <1>2. CASE Crash(r)
    <2>1. Exit(r, "crashed") /\ UNCHANGED <<disk, sent, written, out>> BY <1>2 DEF Crash
    <2>2. pc[r] \notin {"absent", "idle", "announced"} BY <1>2 DEF Crash, Active, Ended
    <2> QED BY <2>1, <2>2, EndingStep
  <1> QED BY <1>1, <1>2

-----------------------------------------------------------------------------
(* The page.                                                               *)

LEMMA PagePut ==
  ASSUME PageInv, NEW s, NEW file, pages' = Put(pages, s, file),
         file.whole => \/ file.content.narrative = Fallback
                       \/ file.content.narrative.about = AsAIContext(file.content.data)
  PROVE  PageInv'
  <1> SUFFICES ASSUME NEW k \in DOMAIN pages', pages'[k].whole
               PROVE  \/ pages'[k].content.narrative = Fallback
                      \/ pages'[k].content.narrative.about = AsAIContext(pages'[k].content.data)
    BY DEF PageInv
  <1>1. CASE k = s
    <2>1. pages'[k] = file BY <1>1 DEF Put
    <2> QED BY <1>1, <2>1
  <1>2. CASE k # s
    <2>1. DOMAIN pages' = DOMAIN pages \cup {s} BY DEF Put
    <2>2. k \in DOMAIN pages BY <1>2, <2>1
    <2>3. pages'[k] = pages[k] BY <1>2, <2>2 DEF Put
    <2> QED BY <2>2, <2>3 DEF PageInv
  <1> QED BY <1>1, <1>2

LEMMA OpenPageInv ==
  ASSUME IInv, NEW r \in Runs, OpenPage(r)
  PROVE  IInv'
  <1>1. /\ pc[r] = "render" /\ pages' = Put(pages, now, Torn) /\ NoteWriter("page", now)
        /\ Goto(r, "printing") /\ stamp' = [stamp EXCEPT ![r] = now]
        /\ UNCHANGED <<inv, data, narrative, status, cache, sent, written, out>>
    BY DEF OpenPage, inputs, history
  <1>2. /\ IsFun(pc') /\ pc'[r] = "printing" /\ \A o \in Runs \ {r} : pc'[o] = pc[o]
        /\ IsFun(stamp') /\ stamp'[r] = now /\ \A o \in Runs \ {r} : stamp'[o] = stamp[o]
    BY <1>1 DEF IInv, Funs, IsFun, Goto
  <1>3. Funs' BY <1>1, <1>2 DEF IInv, Funs, IsFun
  <1>4. ASSUME NEW o \in Runs PROVE RunInv(o)'
    <2>1. RunInv(o) BY DEF IInv
    <2>2. CASE o # r BY <1>1, <1>2, <2>1, <2>2, SameKeepsRunInv DEF Same
    <2>3. CASE o = r
      <3>1. RunInv(r) /\ pc'[r] = "printing" BY <1>2, <2>1, <2>3
      <3>2. Counted(pc[r], sent[r])' /\ Entitled(pc[r], sent[r], inv[r])'
        BY <1>1, <3>1 DEF RunInv, Counted, Entitled, Unasked, Kinds, Asking
      <3>3. Told(pc[r], narrative[r], status[r], data[r], inv[r])'
        BY <1>1, <3>1, KeptStays DEF RunInv, Told, Informed
      <3>4. Shown(pc[r], out[r], inv[r])' BY <1>1, <3>1 DEF RunInv, Shown
      <3>5. Billed(pc[r], sent[r], status[r], out[r], inv[r])'
        BY <1>1, <3>1 DEF RunInv, Shown, Billed, Informed
      <3> QED BY <2>3, <3>2, <3>3, <3>4, <3>5 DEF RunInv
    <2> QED BY <2>2, <2>3
  <1>5. ASSUME NEW o \in Runs, NEW p \in Runs, NEW s, Twins(o, p, s) PROVE Twins(o, p, s)'
    BY <1>1, <1>2, <1>5 DEF Twins, Printed
  <1>6. DOMAIN pages' = DOMAIN pages \cup {now} BY <1>1 DEF Put
  <1>7. ASSUME NEW o \in Runs PROVE Opened(o)'
    BY <1>2, <1>6 DEF IInv, Opened
  <1>8. ASSUME NEW o \in Runs PROVE Own(o)'
    <2> SUFFICES ASSUME pc'[o] = "announced"
                 PROVE  \/ pages'[stamp'[o]] = File(out'[o].page)
                        \/ \E q \in Runs : Twins(q, o, stamp[o])'
      BY DEF Own
    <2>1. o # r /\ pc[o] = "announced" /\ stamp'[o] = stamp[o] BY <1>2
    <2>2. CASE stamp[o] = now
      <3>1. Twins(r, o, stamp[o])' BY <1>2, <2>1, <2>2 DEF Twins, Printed
      <3> QED BY <3>1
    <2>3. CASE stamp[o] # now
      <3>1. stamp[o] \in DOMAIN pages BY <2>1 DEF IInv, Opened
      <3>2. pages'[stamp[o]] = pages[stamp[o]] BY <1>1, <2>3, <3>1 DEF Put
      <3>3. CASE pages[stamp[o]] = File(out[o].page) BY <1>1, <2>1, <3>2, <3>3
      <3>4. CASE \E q \in Runs : Twins(q, o, stamp[o])
        <4>1. PICK q \in Runs : Twins(q, o, stamp[o]) BY <3>4
        <4> QED BY <1>5, <2>1, <4>1 DEF Twins
      <3> QED BY <2>1, <3>3, <3>4 DEF IInv, Own
    <2> QED BY <2>2, <2>3
  <1>9. ClashInv'
    <2> SUFFICES ASSUME NEW s, <<"page", s>> \in clashed' PROVE \E o, p \in Runs : Twins(o, p, s)'
      BY DEF ClashInv
    <2>1. CASE <<"page", s>> \in clashed
      <3>1. PICK o, p \in Runs : Twins(o, p, s) BY <2>1 DEF IInv, ClashInv
      <3> QED BY <1>5, <3>1
    <2>2. CASE <<"page", s>> \notin clashed
      <3>1. s = now /\ Busy("page", now) BY <1>1, <2>2 DEF NoteWriter
      <3>2. PICK o \in Runs : pc[o] = "printing" /\ stamp[o] = now BY <3>1 DEF Busy
      <3>3. o # r BY <1>1, <3>2
      <3>4. Twins(o, r, s)' BY <1>2, <3>1, <3>2, <3>3 DEF Twins, Printed
      <3> QED BY <3>4
    <2> QED BY <2>1, <2>2
  <1>10. PageInv' BY <1>1, PagePut DEF IInv, Torn
  <1>11. WrittenInv' /\ CacheInv' BY <1>1, CacheStays DEF IInv, WrittenInv
  <1> QED BY <1>3, <1>4, <1>7, <1>8, <1>9, <1>10, <1>11 DEF IInv

\* The page of a run that is told right is right.
LEMMA RenderIsGood ==
  ASSUME IInv, NEW r \in Runs, pc[r] = "printing"
  PROVE  /\ GoodPage(Render(r), inv[r])
         /\ \/ Render(r).narrative = Fallback
            \/ Render(r).narrative.about = AsAIContext(Render(r).data)
  <1>1. Told(pc[r], narrative[r], status[r], data[r], inv[r]) BY DEF IInv, RunInv
  <1>2. /\ Render(r).narrative = narrative[r] /\ Render(r).status = status[r]
        /\ Render(r).note = (status[r] # "ok") /\ Render(r).model = Label(inv[r])
        /\ Render(r).cache = CacheLabel(r)
        /\ Render(r).data = [data[r] EXCEPT !.timeline = FirstRows(@)]
    BY DEF Render, ModelLabel, Label
  <1>3. AsAIContext(Render(r).data) = AsAIContext(data[r]) BY <1>2, ContextIgnoresTimeline
  <1>4. CASE narrative[r] = Fallback /\ status[r] \notin {"ok", "cached"}
    <2>1. Render(r).note BY <1>2, <1>4
    <2> QED BY <1>2, <1>4, <2>1 DEF GoodPage
  <1>5. CASE /\ Kept(narrative[r], AsAIContext(data[r]))
             /\ status[r] \in {"ok", "cached"}
             /\ status[r] = "ok" /\ inv[r].mode # "other" =>
                  narrative[r] = Fallback \/ narrative[r].by = Label(inv[r])
    <2> \/ narrative[r] = Fallback
        \/ narrative[r].about = AsAIContext(data[r])
      BY <1>5 DEF Kept
    <2>1. CASE status[r] = "ok" BY <1>2, <1>3, <1>5, <2>1 DEF GoodPage
    <2>2. CASE status[r] = "cached"
      <3>1. Render(r).cache = "hit" /\ Render(r).note BY <1>2, <2>2 DEF CacheLabel
      <3> QED BY <1>2, <1>3, <1>5, <2>2, <3>1 DEF GoodPage
    <2> QED BY <1>5, <2>1, <2>2
  <1> QED BY <1>1, <1>4, <1>5 DEF Told, Informed

LEMMA FillPageInv ==
  ASSUME IInv, NEW r \in Runs, FillPage(r)
  PROVE  IInv'
  <1>1. /\ pc[r] = "printing" /\ Exit(r, "announced")
        /\ out' = [out EXCEPT ![r] = [page |-> Render(r), calls |-> CallsMade(r)]]
        /\ UNCHANGED <<inv, stamp, cache, clashed, sent, written>>
    BY DEF FillPage, Exit
  <1>2. PICK file \in Left("page", stamp[r], Render(r)) : pages' = Put(pages, stamp[r], file)
    BY DEF FillPage
  <1>3. /\ IsFun(pc') /\ pc'[r] = "announced" /\ \A o \in Runs \ {r} : pc'[o] = pc[o]
        /\ IsFun(out') /\ out'[r].page = Render(r) /\ out'[r].calls = CallsMade(r)
        /\ \A o \in Runs \ {r} : out'[o] = out[o]
    BY <1>1 DEF IInv, Funs, IsFun, Exit, Goto
  <1>4. OnlyOf(r) BY <1>1, <1>3 DEF IInv, Funs, IsFun, OnlyOf, Same, Exit
  <1>5. file = File(Render(r)) \/ (file = Torn /\ <<"page", stamp[r]>> \in clashed)
    BY DEF Left
  <1>6. ASSUME NEW o \in Runs PROVE RunInv(o)'
    <2>1. CASE o # r BY <1>1, <1>4, <2>1, SameKeepsRunInv DEF IInv, OnlyOf
    <2>2. CASE o = r
      <3>1. RunInv(r) BY DEF IInv
      <3>2. Counted(pc[r], sent[r])' /\ Entitled(pc[r], sent[r], inv[r])'
        BY <1>1, <1>3, <3>1 DEF RunInv, Counted, Entitled, Unasked, Kinds, Asking
      <3>3. Told(pc[r], narrative[r], status[r], data[r], inv[r])' BY <1>3 DEF Told, Informed
      <3>4. GoodPage(Render(r), inv[r]) BY <1>1, RenderIsGood
      <3>5. Shown(pc[r], out[r], inv[r])' BY <1>1, <1>3, <3>4, KeptStays DEF Shown, GoodPage
      <3>6. Billed(pc[r], sent[r], status[r], out[r], inv[r])'
        BY <1>1, <1>3, <3>1 DEF RunInv, Billed, Informed, CallsMade
      <3> QED BY <2>2, <3>2, <3>3, <3>5, <3>6 DEF RunInv
    <2> QED BY <2>1, <2>2
  <1>7. ASSUME NEW o \in Runs, NEW p \in Runs, NEW s, Twins(o, p, s) PROVE Twins(o, p, s)'
    BY <1>1, <1>3, <1>7 DEF Twins, Printed
  <1>8. DOMAIN pages' = DOMAIN pages \cup {stamp[r]} BY <1>2 DEF Put
  <1>9. ASSUME NEW o \in Runs PROVE Opened(o)'
    BY <1>1, <1>3, <1>8 DEF IInv, Opened
  <1>10. ASSUME NEW o \in Runs PROVE Own(o)'
    <2> SUFFICES ASSUME pc'[o] = "announced"
                 PROVE  \/ pages'[stamp'[o]] = File(out'[o].page)
                        \/ \E q \in Runs : Twins(q, o, stamp[o])'
      BY DEF Own
    <2>1. stamp' = stamp BY <1>1
    <2>2. CASE o = r
      <3>1. CASE file = File(Render(r)) BY <1>2, <1>3, <2>1, <2>2, <3>1 DEF Put
      <3>2. CASE <<"page", stamp[r]>> \in clashed
        <4>1. PICK p, q \in Runs : Twins(p, q, stamp[r]) BY <3>2 DEF IInv, ClashInv
        <4>2. CASE p # r
          <5>1. Twins(p, r, stamp[r])' BY <1>3, <1>7, <2>1, <4>1, <4>2 DEF Twins, Printed
          <5> QED BY <2>2, <5>1
        <4>3. CASE q # r
          <5>1. Twins(q, r, stamp[r])' BY <1>3, <1>7, <2>1, <4>1, <4>3 DEF Twins, Printed
          <5> QED BY <2>2, <5>1
        <4> QED BY <4>1, <4>2, <4>3 DEF Twins
      <3> QED BY <1>5, <3>1, <3>2
    <2>3. CASE o # r
      <3>1. pc[o] = "announced" /\ out'[o] = out[o] BY <1>3, <2>3
      <3>2. CASE stamp[o] = stamp[r]
        <4>1. Twins(r, o, stamp[o])' BY <1>3, <2>1, <2>3, <3>1, <3>2 DEF Twins, Printed
        <4> QED BY <4>1
      <3>3. CASE stamp[o] # stamp[r]
        <4>1. stamp[o] \in DOMAIN pages BY <3>1 DEF IInv, Opened
        <4>2. pages'[stamp[o]] = pages[stamp[o]] BY <1>2, <3>3, <4>1 DEF Put
        <4>3. CASE pages[stamp[o]] = File(out[o].page) BY <2>1, <3>1, <4>2, <4>3
        <4>4. CASE \E q \in Runs : Twins(q, o, stamp[o])
          <5>1. PICK q \in Runs : Twins(q, o, stamp[o]) BY <4>4
          <5> QED BY <1>7, <2>1, <5>1 DEF Twins
        <4> QED BY <3>1, <4>3, <4>4 DEF IInv, Own
      <3> QED BY <3>2, <3>3
    <2> QED BY <2>2, <2>3
  <1>11. ClashInv'
    <2> SUFFICES ASSUME NEW s, <<"page", s>> \in clashed' PROVE \E o, p \in Runs : Twins(o, p, s)'
      BY DEF ClashInv
    <2>1. PICK o, p \in Runs : Twins(o, p, s) BY <1>1 DEF IInv, ClashInv
    <2> QED BY <1>7, <2>1
  <1>12. PageInv'
    <2>1. file.whole => file = File(Render(r)) BY <1>5 DEF Torn
    <2>2. File(Render(r)).content = Render(r) BY DEF File
    <2>3. \/ Render(r).narrative = Fallback
          \/ Render(r).narrative.about = AsAIContext(Render(r).data)
      BY <1>1, RenderIsGood
    <2>4. file.whole => \/ file.content.narrative = Fallback
                        \/ file.content.narrative.about = AsAIContext(file.content.data)
      BY <2>1, <2>2, <2>3
    <2> QED BY <1>2, <2>4, PagePut DEF IInv
  <1>13. WrittenInv' /\ CacheInv' BY <1>1, CacheStays DEF IInv, WrittenInv
  <1> QED BY <1>4, <1>6, <1>9, <1>10, <1>11, <1>12, <1>13 DEF IInv, OnlyOf

-----------------------------------------------------------------------------
(* The theorems.                                                           *)

LEMMA StepInv ==
  ASSUME IInv, NEW r \in Runs, Step(r)
  PROVE  IInv'
  <1>1. CASE Glob(r) \/ ReadDetection(r) \/ ReadHunt(r) \/ ReadCorrelation(r) \/ Miss(r)
    BY <1>1, ReadingInv
  <1>2. CASE DryLook(r) \/ Hit(r) BY <1>2, DryLookInv, HitInv
  <1>3. CASE MockNarrate(r) \/ Unavailable(r) \/ Answer(r) \/ BadJson(r) \/ Fail(r)
    BY <1>3, AnswersInv
  <1>4. CASE Send(r) \/ Transient(r) \/ Retry(r) BY <1>4, RequestsInv
  <1>5. CASE OpenCacheFile(r) \/ FillCacheFile(r) BY <1>5, CacheFileInv
  <1>6. CASE RenderFails(r) BY <1>6, EndsInv
  <1>7. CASE OpenPage(r) \/ FillPage(r) BY <1>7, OpenPageInv, FillPageInv
  <1> QED BY <1>1, <1>2, <1>3, <1>4, <1>5, <1>6, <1>7 DEF Step

\* A step that is no run's.
LEMMA OtherInv ==
  ASSUME IInv, UNCHANGED <<inputs, pc, result, disk, history>>
  PROVE  IInv'
  <1>1. written \subseteq written' /\ cache' = cache BY DEF disk, history
  <1>2. ASSUME NEW r \in Runs PROVE RunInv(r)'
    BY <1>1, SameKeepsRunInv DEF IInv, Same, inputs, result, history
  <1>3. CacheInv' BY <1>1, CacheStays DEF IInv
  <1> QED
    BY <1>2, <1>3 DEF IInv, Funs, IsFun, WrittenInv, PageInv, ClashInv, Own, Opened, Twins,
                      inputs, result, disk, history

LEMMA NextInv == IInv /\ [Next]_vars => IInv'
  <1> SUFFICES ASSUME IInv, [Next]_vars PROVE IInv' OBVIOUS
  <1>1. CASE Tick BY <1>1, OtherInv DEF Tick
  <1>2. CASE \E p \in Producers : OpenEvidence(p) \/ WriteEvidence(p)
    <2>1. UNCHANGED <<inputs, pc, result, disk, history>>
      BY <1>2 DEF OpenEvidence, WriteEvidence
    <2> QED BY <2>1, OtherInv
  <1>3. CASE \E r \in Runs : Invoke(r) \/ Step(r) \/ Crash(r)
    BY <1>3, ReadingInv, StepInv, EndsInv
  <1>4. CASE UNCHANGED vars
    <2>1. UNCHANGED <<inputs, pc, result, disk, history>> BY <1>4 DEF vars
    <2> QED BY <2>1, OtherInv
  <1> QED BY <1>1, <1>2, <1>3, <1>4 DEF Next

LEMMA Invariance == Spec => []IInv
  BY InitInv, NextInv, PTL DEF Spec

\* Whatever run wrote a narrative, and from whatever evidence, it is shown
\* only beside the facts it was written about (pipeline.py: _fingerprint).
THEOREM NarrativesFitTheirPages == Spec => []NarrativeFitsPage
  <1>1. IInv => NarrativeFitsPage
    <2> SUFFICES ASSUME IInv PROVE NarrativeFitsPage OBVIOUS
    <2>1. ASSUME NEW r \in Runs, pc[r] = "render"
          PROVE  narrative[r] = Fallback \/ narrative[r].about = Context(r)
      BY <2>1 DEF IInv, RunInv, Told, Informed, Kept, Context
    <2> QED BY <2>1 DEF IInv, PageInv, NarrativeFitsPage
  <1> QED BY <1>1, Invariance, PTL

\* The fallback text goes unlabelled, or into the cache, only beside facts
\* that the API has answered null to (gemini_client.py: get_narrative).
THEOREM OnlyNullAnswersGoUnlabelled == Spec => []OnlyNullGoesUnlabelled
  <1>1. IInv => OnlyNullGoesUnlabelled
    <2> SUFFICES ASSUME IInv PROVE OnlyNullGoesUnlabelled OBVIOUS
    <2>1. ASSUME NEW about, Kept(Fallback, about) PROVE NullAnswer(about)
      <3>1. Fallback \notin written BY NotFallback DEF IInv, WrittenInv
      <3> QED BY <2>1, <3>1 DEF Kept
    <2>2. ASSUME NEW r \in Runs, out[r] # None, out[r].page.narrative = Fallback
          PROVE  \/ out[r].page.note /\ out[r].page.status \notin {"ok", "cached"}
                 \/ NullAnswer(AsAIContext(out[r].page.data))
      <3>1. GoodPage(out[r].page, inv[r]) BY <2>2 DEF IInv, RunInv, Shown
      <3> QED BY <2>1, <2>2, <3>1 DEF GoodPage
    <2>3. ASSUME NEW key \in DOMAIN cache, cache[key].whole, cache[key].content = Fallback
          PROVE  NullAnswer(key)
      BY <2>1, <2>3 DEF IInv, CacheInv
    <2> QED BY <2>2, <2>3 DEF OnlyNullGoesUnlabelled
  <1> QED BY <1>1, Invariance, PTL

\* A run sends two requests at most, none in mock mode or for a dry run, and
\* does not hide that it sent one unless its limit is below one
\* (gemini_client.py: the loop over two attempts; pipeline.py: the calls made).
THEOREM ReportRequestsAreBounded == Spec => []RequestsBounded
  <1>1. IInv => RequestsBounded
    BY DEF IInv, RunInv, Counted, Entitled, Billed, RequestsBounded
  <1> QED BY <1>1, Invariance, PTL

\* Only a page that says its narrative comes from the cache may name another
\* model than the one that wrote it (pipeline.py: ai_meta).
THEOREM OnlyCachedPagesMisname == Spec => []OnlyCachedPagesMayMisname
  <1>1. IInv => OnlyCachedPagesMayMisname
    BY DEF IInv, RunInv, Shown, GoodPage, OnlyCachedPagesMayMisname
  <1> QED BY <1>1, Invariance, PTL

\* The file a run has announced holds its page, unless another run's page
\* has the same name (pipeline.py: report_<ts>.html).
THEOREM AnnouncedPagesAreOwn == Spec => []AnnouncedPageIsOwn
  <1>1. IInv => AnnouncedPageIsOwn
    BY DEF IInv, RunInv, Shown, Own, Twins, AnnouncedPageIsOwn
  <1> QED BY <1>1, Invariance, PTL

-----------------------------------------------------------------------------
(* Parts of a sequence.                                                    *)

\* The ranks of n places are the numbers from 1 to n.
LEMMA Ranks ==
  ASSUME NEW n \in Nat, NEW P \in SUBSET (1..n)
  PROVE  /\ IsFiniteSet(P) /\ Cardinality(P) \in Nat
         /\ \A k \in P : Rank(P, k) \in 1..Cardinality(P)
         /\ \A m \in 1..Cardinality(P) : \E k \in P : Rank(P, k) = m
  <1> DEFINE UpTo(k) == {l \in P : l <= k}
             rank == [k \in P |-> Rank(P, k)]
             card == Cardinality(P)
  <1>1. IsFiniteSet(P) /\ card \in Nat
    <2>1. IsFiniteSet(1..n)
      BY FS_Interval
    <2>2. IsFiniteSet(P)
      BY <2>1, FS_Subset
    <2> QED
      BY <2>2, FS_CardinalityType
  <1>2. \A k \in P : /\ IsFiniteSet(UpTo(k)) /\ Cardinality(UpTo(k)) \in Nat
                     /\ Cardinality(UpTo(k)) <= card
    <2> SUFFICES ASSUME NEW k \in P
                 PROVE  /\ IsFiniteSet(UpTo(k)) /\ Cardinality(UpTo(k)) \in Nat
                        /\ Cardinality(UpTo(k)) <= card
      OBVIOUS
    <2> DEFINE U == UpTo(k)
    <2>1. U \in SUBSET P
      OBVIOUS
    <2> HIDE DEF U
    <2>2. IsFiniteSet(U) /\ Cardinality(U) <= card
      BY <1>1, <2>1, FS_Subset
    <2>3. Cardinality(U) \in Nat
      BY <2>2, FS_CardinalityType
    <2> QED
      BY <2>2, <2>3 DEF U
  <1>3. \A k \in P : Cardinality(UpTo(k)) # 0
    <2> SUFFICES ASSUME NEW k \in P PROVE Cardinality(UpTo(k)) # 0
      OBVIOUS
    <2>1. k \in UpTo(k)
      OBVIOUS
    <2> HIDE DEF UpTo
    <2> QED
      BY <1>2, <2>1, FS_EmptySet
  <1>4. \A k \in P : Rank(P, k) = Cardinality(UpTo(k))
    BY DEF Rank
  <1>5. \A k \in P : Rank(P, k) \in 1..card
    <2> HIDE DEF UpTo
    <2> QED
      BY <1>1, <1>2, <1>3, <1>4
  <1>6. \A k, l \in P : k < l => Rank(P, k) # Rank(P, l)
    <2> SUFFICES ASSUME NEW k \in P, NEW l \in P, k < l
                 PROVE  Cardinality(UpTo(k)) # Cardinality(UpTo(l))
      BY <1>4
    <2>1. k \in Int /\ l \in Int /\ \A m \in P : m \in Int
      OBVIOUS
    <2>2. UpTo(k) \in SUBSET UpTo(l)
      <3>1. \A m \in P : m <= k => m <= l
        <4> HIDE DEF UpTo, rank, card
        <4> QED
          BY <2>1
      <3> QED
        BY <3>1
    <2>3. l \in UpTo(l) /\ l \notin UpTo(k)
      BY <2>1
    <2> HIDE DEF UpTo
    <2> QED
      BY <1>2, <2>2, <2>3, FS_Subset
  <1>7. rank \in Injection(P, 1..card)
    <2>1. rank \in [P -> 1..card]
      BY <1>5
    <2>2. \A k, l \in P : k # l => k < l \/ l < k
      <3>1. \A k \in P : k \in Int
        OBVIOUS
      <3> HIDE DEF rank, card, UpTo
      <3> QED
        BY <3>1
    <2>3. \A k, l \in P : rank[k] = rank[l] => k = l
      BY <1>6, <2>2
    <2> HIDE DEF rank
    <2> QED
      BY <2>1, <2>3, Fun_IsInj
  <1>8. rank \in Surjection(P, 1..card)
    <2>1. IsFiniteSet(1..card) /\ Cardinality(1..card) = card
      BY <1>1, FS_Interval
    <2> HIDE DEF rank, card
    <2> QED
      BY <1>7, <2>1, FS_Injection DEF card
  <1>9. \A m \in 1..card : \E k \in P : rank[k] = m
    <2> HIDE DEF rank, card
    <2> QED
      BY <1>8, Fun_SurjectionProperties
  <1> QED
    BY <1>1, <1>5, <1>9

\* A file that is still being written, and the file that it becomes.
StartOf(short, long, m, n) ==
  /\ m \in Nat /\ n \in Nat /\ m <= n
  /\ DOMAIN short = 1..m /\ DOMAIN long = 1..n
  /\ \A k \in 1..m : short[k] = long[k]

\* A sequence that another one begins with, by their elements.
IsSeqOf(s, n) == s = [k \in 1..n |-> s[k]]

Leads(s, t, i, j) ==
  /\ i \in Nat /\ j \in Nat /\ i <= j
  /\ IsSeqOf(s, i) /\ IsSeqOf(t, j)
  /\ \A k \in 1..i : s[k] = t[k]

LEMMA LeadsIsPrefix ==
  ASSUME NEW s, NEW t, NEW i, NEW j, Leads(s, t, i, j)
  PROVE  IsPrefix(s, t)
  <1> USE DEF Leads
  <1>1. Len(s) = i /\ Len(t) = j
    BY DEF IsSeqOf
  <1>2. SubSeq(s, 1, i) = SubSeq(t, 1, i)
    <2> DEFINE T == {s[k] : k \in 1..i} \cup {t[k] : k \in 1..j}
    <2>1. s \in Seq(T) /\ t \in Seq(T)
      BY DEF IsSeqOf
    <2> HIDE DEF T
    <2>2. SubSeq(s, 1, i) = [k \in 1..i |-> s[k]] /\ SubSeq(t, 1, i) = [k \in 1..i |-> t[k]]
      BY <1>1, <2>1
    <2> QED
      BY <2>2
  <1> QED
    BY <1>1, <1>2 DEF IsPrefix

\* Of the elements at some places, those at the first places come first.
LEMMA PickedLead ==
  ASSUME NEW m \in Nat, NEW n \in Nat, m <= n, NEW P \in SUBSET (1..n),
         NEW Q, Q = P \cap (1..m), NEW short, NEW long,
         \A k \in Q : short[k] = long[k]
  PROVE  Leads(Pick(short, Q), Pick(long, P), Cardinality(Q), Cardinality(P))
  <1>1. /\ IsFiniteSet(P) /\ Cardinality(P) \in Nat
        /\ \A k \in P : Rank(P, k) \in 1..Cardinality(P)
    BY Ranks
  <1>2. /\ IsFiniteSet(Q) /\ Cardinality(Q) \in Nat
        /\ \A k \in Q : Rank(Q, k) \in 1..Cardinality(Q)
        /\ \A q \in 1..Cardinality(Q) : \E k \in Q : Rank(Q, k) = q
    <2>1. Q \in SUBSET (1..m)
      OBVIOUS
    <2> QED
      BY <2>1, Ranks
  <1>3. Cardinality(Q) <= Cardinality(P)
    BY <1>1, FS_Subset
  <1>4. \A k \in Q : Rank(Q, k) = Rank(P, k)
    <2> SUFFICES ASSUME NEW k \in Q PROVE {l \in Q : l <= k} = {l \in P : l <= k}
      BY DEF Rank
    <2>1. \A l \in P : l <= k => l \in Q
      <3> SUFFICES ASSUME NEW l \in P, l <= k PROVE l \in 1..m
        OBVIOUS
      <3>1. l \in 1..n /\ k \in 1..m
        OBVIOUS
      <3> QED
        BY <3>1
    <2> QED
      BY <2>1
  <1>5. \A k \in P \ Q : Rank(P, k) > Cardinality(Q)
    <2> SUFFICES ASSUME NEW k \in P \ Q PROVE Rank(P, k) > Cardinality(Q)
      OBVIOUS
    <2> DEFINE U == {l \in P : l <= k}
    <2>1. k > m
      OBVIOUS
    <2>2. \A l \in Q : l <= k
      BY <2>1
    <2>3. Q \in SUBSET U /\ k \in U /\ k \notin Q /\ U \in SUBSET P
      BY <2>2
    <2>4. Rank(P, k) = Cardinality(U)
      BY DEF Rank
    <2> HIDE DEF U
    <2>5. IsFiniteSet(U) /\ Cardinality(U) \in Nat
      BY <1>1, <2>3, FS_Subset, FS_CardinalityType
    <2>6. Cardinality(Q) <= Cardinality(U) /\ Cardinality(Q) # Cardinality(U)
      BY <2>3, <2>5, FS_Subset
    <2> QED
      BY <1>2, <2>4, <2>5, <2>6
  <1>6. ASSUME NEW q \in 1..Cardinality(Q)
        PROVE  Pick(short, Q)[q] = Pick(long, P)[q]
    <2>1. PICK k \in Q : Rank(Q, k) = q
      BY <1>2
    <2>2. Nth(Q, q) \in Q
      BY <2>1 DEF Nth
    <2>3. Nth(P, q) = Nth(Q, q)
      <3>1. \A l : (l \in P /\ Rank(P, l) = q) <=> (l \in Q /\ Rank(Q, l) = q)
        <4>1. \A l \in P \ Q : Rank(P, l) # q
          <5> SUFFICES ASSUME NEW l \in P \ Q PROVE Rank(P, l) # q
            OBVIOUS
          <5>1. Rank(P, l) > Cardinality(Q) /\ Rank(P, l) \in Nat
            BY <1>1, <1>5
          <5> QED
            BY <1>2, <5>1
        <4> QED
          BY <1>4, <4>1
      <3> QED
        BY <3>1, Zenon DEF Nth
    <2>4. q \in 1..Cardinality(P)
      BY <1>1, <1>2, <1>3
    <2> QED
      BY <2>2, <2>3, <2>4 DEF Pick
  <1>7. IsSeqOf(Pick(short, Q), Cardinality(Q)) /\ IsSeqOf(Pick(long, P), Cardinality(P))
    BY DEF Pick, IsSeqOf
  <1> QED
    BY <1>1, <1>2, <1>3, <1>6, <1>7 DEF Leads

\* So it is with the rows that a parser takes.
LEMMA RowsLead ==
  ASSUME NEW short, NEW long, NEW m, NEW n, StartOf(short, long, m, n),
         NEW P \in SUBSET (1..n), NEW Q, Q = P \cap (1..m)
  PROVE  Leads(CellsAt(short, Q), CellsAt(long, P), Cardinality(Q), Cardinality(P))
  <1> DEFINE a == [k \in DOMAIN short |-> short[k].cells]
             b == [k \in DOMAIN long |-> long[k].cells]
  <1>1. m \in Nat /\ n \in Nat /\ m <= n
    BY DEF StartOf
  <1>2. \A k \in Q : a[k] = b[k]
    BY DEF StartOf
  <1>3. CellsAt(short, Q) = Pick(a, Q) /\ CellsAt(long, P) = Pick(b, P)
    BY DEF CellsAt
  <1> HIDE DEF a, b
  <1> QED
    BY <1>1, <1>2, <1>3, PickedLead

-----------------------------------------------------------------------------
(* What the parsers read of a file that is still being written.            *)

\* Whether a line is below a heading depends on the lines before it.
LEMMA BelowStart ==
  ASSUME NEW short, NEW long, NEW m, NEW n, StartOf(short, long, m, n), NEW k \in 1..m,
         NEW tag, NEW heading, NEW ends
  PROVE  Below(short, k, tag, heading, ends) <=> Below(long, k, tag, heading, ends)
  <1>1. \A j \in 1..(k - 1) : j \in 1..m /\ short[j] = long[j]
    BY DEF StartOf
  <1>2. \A j \in 1..(k - 1) : \A i \in (j + 1)..k : short[i] = long[i]
    BY DEF StartOf
  <1> QED
    BY <1>1, <1>2 DEF Below

LEMMA SectionStart ==
  ASSUME NEW short, NEW long, NEW m, NEW n, StartOf(short, long, m, n), NEW title
  PROVE  /\ Section(long, title) \in SUBSET (1..n)
         /\ Section(short, title) = Section(long, title) \cap (1..m)
  <1>1. /\ DOMAIN short = 1..m /\ DOMAIN long = 1..n /\ 1..m \subseteq 1..n
        /\ \A k \in 1..m : short[k] = long[k]
    BY DEF StartOf
  <1>2. \A k \in 1..m : Below(short, k, "title", title, {"title"})
                          <=> Below(long, k, "title", title, {"title"})
    BY BelowStart
  <1> QED
    BY <1>1, <1>2 DEF Section, RowPlaces

LEMMA StagesStart ==
  ASSUME NEW short, NEW long, NEW m, NEW n, StartOf(short, long, m, n)
  PROVE  /\ Stages(long) \in SUBSET (1..n)
         /\ Stages(short) = Stages(long) \cap (1..m)
  <1>1. /\ DOMAIN short = 1..m /\ DOMAIN long = 1..n /\ 1..m \subseteq 1..n
        /\ \A k \in 1..m : short[k] = long[k]
    BY DEF StartOf
  <1>2. \A k \in 1..m : Below(short, k, "bold", "Attack chain:", {"bold", "break"})
                          <=> Below(long, k, "bold", "Attack chain:", {"bold", "break"})
    BY BelowStart
  <1> QED
    BY <1>1, <1>2 DEF Stages, RowPlaces

\* The tables: rows are read in order, up to where the file ends.
LEMMA DetectionsLead ==
  ASSUME NEW short, NEW long, NEW m, NEW n, StartOf(short, long, m, n)
  PROVE  IsPrefix(ParseDetectionResults(short), ParseDetectionResults(long))
  <1> DEFINE Of(lines) == {k \in RowPlaces(lines) : /\ lines[k].cells.result # "**NOT DETECTED**"
                                                    /\ lines[k].cells.latency # None}
             P == Of(long)  Q == Of(short)
  <1>1. P \in SUBSET (1..n) /\ Q = P \cap (1..m)
    <2>1. /\ DOMAIN short = 1..m /\ DOMAIN long = 1..n /\ 1..m \subseteq 1..n
          /\ \A k \in 1..m : short[k] = long[k]
      BY DEF StartOf
    <2> QED
      BY <2>1 DEF RowPlaces
  <1>2. ParseDetectionResults(short) = CellsAt(short, Q) /\ ParseDetectionResults(long) = CellsAt(long, P)
    BY DEF ParseDetectionResults
  <1> HIDE DEF P, Q
  <1> QED
    BY <1>1, <1>2, RowsLead, LeadsIsPrefix

LEMMA TimelineLead ==
  ASSUME NEW short, NEW long, NEW m, NEW n, StartOf(short, long, m, n)
  PROVE  IsPrefix(ParseHuntTimeline(short), ParseHuntTimeline(long))
  <1> DEFINE P == Section(long, "Event Timeline")
             Q == Section(short, "Event Timeline")
  <1>1. P \in SUBSET (1..n) /\ Q = P \cap (1..m)
    <2>1. \A title : /\ Section(long, title) \in SUBSET (1..n)
                     /\ Section(short, title) = Section(long, title) \cap (1..m)
      BY SectionStart
    <2> QED
      BY <2>1
  <1>2. ParseHuntTimeline(short) = CellsAt(short, Q) /\ ParseHuntTimeline(long) = CellsAt(long, P)
    BY DEF ParseHuntTimeline
  <1> HIDE DEF P, Q
  <1> QED
    BY <1>1, <1>2, RowsLead, LeadsIsPrefix

LEMMA MitreLead ==
  ASSUME NEW short, NEW long, NEW m, NEW n, StartOf(short, long, m, n)
  PROVE  IsPrefix(ParseHuntMitre(short), ParseHuntMitre(long))
  <1> DEFINE title == "MITRE ATT&CK Mapping"
             P == {k \in Section(long, title) : long[k].cells.technique # None}
             Q == {k \in Section(short, title) : short[k].cells.technique # None}
  <1>1. P \in SUBSET (1..n) /\ Q = P \cap (1..m)
    <2>1. \A k \in 1..m : short[k] = long[k]
      BY DEF StartOf
    <2>3. \A text : /\ Section(long, text) \in SUBSET (1..n)
                    /\ Section(short, text) = Section(long, text) \cap (1..m)
      BY SectionStart
    <2>2. /\ Section(long, title) \in SUBSET (1..n)
          /\ Section(short, title) = Section(long, title) \cap (1..m)
      BY <2>3
    <2> HIDE DEF title
    <2> QED
      BY <2>1, <2>2
  <1>2. ParseHuntMitre(short) = CellsAt(short, Q) /\ ParseHuntMitre(long) = CellsAt(long, P)
    BY DEF ParseHuntMitre
  <1> HIDE DEF P, Q
  <1> QED
    BY <1>1, <1>2, RowsLead, LeadsIsPrefix

\* The chain, and that its identifiers are finitely many.
LEMMA ChainLeads ==
  ASSUME NEW short, NEW long, NEW m, NEW n, StartOf(short, long, m, n), IsWritten(long)
  PROVE  LET a == ParseAttackChain(short)
             b == ParseAttackChain(long)
             i == Cardinality(Stages(short))
             j == Cardinality(Stages(long))
         IN  Leads(a, b, i, j) /\ \A k \in 1..j : \E c \in Nat : DOMAIN b[k].ids = 1..c
  <1> DEFINE P == Stages(long)  Q == Stages(short)
             a == CellsAt(short, Q)  b == CellsAt(long, P)
             i == Cardinality(Q)  j == Cardinality(P)
             Mended(row) == IF row.ids = <<>> THEN [row EXCEPT !.ids = <<"">>] ELSE row
  <1>1. P \in SUBSET (1..n) /\ Q = P \cap (1..m)
    BY StagesStart
  <1>2. Leads(a, b, i, j)
    <2> HIDE DEF P, Q
    <2> QED
      BY <1>1, RowsLead
  <1>3. /\ ParseAttackChain(short) = [k \in DOMAIN a |-> Mended(a[k])]
        /\ ParseAttackChain(long) = [k \in DOMAIN b |-> Mended(b[k])]
    BY DEF ParseAttackChain
  <1>4. \A k \in 1..j : \E l \in P : b[k] = long[l].cells
    <2> SUFFICES ASSUME NEW k \in 1..j PROVE \E l \in P : b[k] = long[l].cells
      OBVIOUS
    <2>1. n \in Nat /\ DOMAIN long = 1..n
      BY DEF StartOf
    <2>2. \E l \in P : Rank(P, l) = k
      <3> HIDE DEF P
      <3> QED
        BY <1>1, <2>1, Ranks DEF j
    <2>3. Nth(P, k) \in P
      <3> HIDE DEF P
      <3> QED
        BY <2>2 DEF Nth
    <2>4. b[k] = long[Nth(P, k)].cells
      <3>1. Nth(P, k) \in DOMAIN long
        <4> HIDE DEF P
        <4> QED
          BY <1>1, <2>1, <2>3
      <3> HIDE DEF P
      <3> QED
        BY <3>1 DEF CellsAt, Pick, b, j
    <2> QED
      BY <2>3, <2>4
  <1>5. \A k \in 1..j : /\ DOMAIN b[k] = {"stage", "ids", "conf"}
                        /\ \E c \in Nat : DOMAIN b[k].ids = 1..c
    <2> HIDE DEF b, j, P
    <2>1. \A l \in P : /\ DOMAIN long[l].cells = {"stage", "ids", "conf"}
                        /\ \E c \in Nat : DOMAIN long[l].cells.ids = 1..c
      <3>1. \A l \in P : /\ DOMAIN long[l].cells = {"stage", "ids", "conf"}
                          /\ long[l].cells.ids \in Seq(Range(long[l].cells.ids))
        BY DEF IsWritten, P
      <3> QED
        BY <3>1
    <2> QED
      BY <1>4, <2>1
  <1>6. \A k \in 1..j : \E c \in Nat : DOMAIN Mended(b[k]).ids = 1..c
    <2> SUFFICES ASSUME NEW k \in 1..j PROVE \E c \in Nat : DOMAIN Mended(b[k]).ids = 1..c
      OBVIOUS
    <2> HIDE DEF b, j
    <2>1. CASE b[k].ids = <<>>
      <3>1. Mended(b[k]).ids = <<"">>
        BY <1>5, <2>1
      <3>2. DOMAIN <<"">> = 1..1 /\ 1 \in Nat
        OBVIOUS
      <3> HIDE DEF Mended
      <3> QED
        BY <3>1, <3>2
    <2>2. CASE b[k].ids # <<>>
      BY <1>5, <2>2
    <2> QED
      BY <2>1, <2>2
  <1> HIDE DEF Mended, P, Q, a, b, i, j
  <1>7. DOMAIN a = 1..i /\ DOMAIN b = 1..j
    BY <1>2 DEF Leads, IsSeqOf
  <1>8. Leads(ParseAttackChain(short), ParseAttackChain(long), i, j)
    <2>1. /\ \A k \in 1..i : ParseAttackChain(short)[k] = Mended(a[k])
          /\ \A k \in 1..j : ParseAttackChain(long)[k] = Mended(b[k])
      BY <1>3, <1>7
    <2>2. \A k \in 1..i : k \in 1..j /\ a[k] = b[k]
      BY <1>2 DEF Leads
    <2>3. IsSeqOf(ParseAttackChain(short), i) /\ IsSeqOf(ParseAttackChain(long), j)
      BY <1>3, <1>7 DEF IsSeqOf
    <2> QED
      BY <1>2, <2>1, <2>2, <2>3 DEF Leads
  <1>9. \A k \in 1..j : ParseAttackChain(long)[k].ids = Mended(b[k]).ids
    BY <1>3, <1>7
  <1> QED
    BY <1>6, <1>8, <1>9 DEF i, j, P, Q

\* A non-empty set of natural numbers has a least one.
LEMMA Least ==
  ASSUME NEW S \in SUBSET Nat, S # {}
  PROVE  Min(S) \in S /\ \A y \in S : Min(S) <= y
  <1>1. PICK x \in S : \A y \in S : ~ (<<y, x>> \in OpToRel(<, Nat))
    BY NatLessThanWellFounded, WFMin
  <1>2. \A y \in S : x <= y
    <2>1. \A y \in S : ~ (y < x)
      BY <1>1 DEF OpToRel
    <2> QED
      BY <2>1
  <1> QED
    BY <1>2 DEF Min

\* The number of alerts is the first one there is, or zero.
LEMMA TotalStart ==
  ASSUME NEW short, NEW long, NEW m, NEW n, StartOf(short, long, m, n)
  PROVE  ParseHuntTotal(short) \in {0, ParseHuntTotal(long)}
  <1> DEFINE Q == {k \in DOMAIN short : short[k].tag = "total"}
             P == {k \in DOMAIN long : long[k].tag = "total"}
  <1>1. /\ m \in Nat /\ n \in Nat /\ m <= n
        /\ P \in SUBSET (1..n) /\ Q = P \cap (1..m)
        /\ \A k \in 1..m : short[k] = long[k]
    BY DEF StartOf
  <1>2. /\ ParseHuntTotal(short) = IF Q = {} THEN 0 ELSE short[Min(Q)].cells
        /\ ParseHuntTotal(long) = IF P = {} THEN 0 ELSE long[Min(P)].cells
    BY DEF ParseHuntTotal
  <1> HIDE DEF P, Q
  <1>3. CASE Q = {}
    BY <1>2, <1>3
  <1>4. CASE Q # {}
    <2>1. Q \in SUBSET Nat /\ P \in SUBSET Nat /\ P # {}
      BY <1>1, <1>4
    <2>2. /\ Min(Q) \in Q /\ \A k \in Q : Min(Q) <= k
          /\ Min(P) \in P /\ \A k \in P : Min(P) <= k
      BY <1>4, <2>1, Least
    <2>3. Min(Q) \in P /\ Min(Q) \in 1..m /\ Min(P) \in 1..n
      BY <1>1, <2>2
    <2>4. Min(P) <= Min(Q)
      BY <2>2, <2>3
    <2>5. Min(P) \in Q
      BY <1>1, <2>2, <2>3, <2>4
    <2>6. Min(P) = Min(Q)
      BY <2>2, <2>3, <2>4, <2>5
    <2> QED
      BY <1>1, <1>2, <1>4, <2>1, <2>3, <2>6
  <1> QED
    BY <1>3, <1>4

\* The counts of the rules whose row is there are those of the whole file.
LEMMA FrequencyStart ==
  ASSUME NEW short, NEW long, NEW m, NEW n, StartOf(short, long, m, n), IsWritten(long)
  PROVE  LET few == ParseRuleFrequency(short)
             all == ParseRuleFrequency(long)
         IN  /\ IsFiniteSet(DOMAIN all) /\ DOMAIN few \subseteq DOMAIN all
             /\ \A rule \in DOMAIN few : few[rule] = all[rule]
             /\ \A rule \in DOMAIN all : all[rule] \in Nat
  <1> DEFINE title == "Rule Frequency Breakdown"
             P == Section(long, title)  Q == Section(short, title)
             few == ParseRuleFrequency(short)  all == ParseRuleFrequency(long)
  <1>1. P \in SUBSET (1..n) /\ Q = P \cap (1..m)
    <2>1. \A text : /\ Section(long, text) \in SUBSET (1..n)
                    /\ Section(short, text) = Section(long, text) \cap (1..m)
      BY SectionStart
    <2> QED
      BY <2>1
  <1>2. /\ m \in Nat /\ n \in Nat /\ \A k \in 1..m : short[k] = long[k]
    BY DEF StartOf
  <1>3. \A k, l \in P : /\ long[k].cells.count \in Nat
                        /\ long[k].cells.rule = long[l].cells.rule => k = l
    BY DEF IsWritten
  <1>4. /\ few = [rule \in {short[k].cells.rule : k \in Q} |->
                    short[Max({k \in Q : short[k].cells.rule = rule})].cells.count]
        /\ all = [rule \in {long[k].cells.rule : k \in P} |->
                    long[Max({k \in P : long[k].cells.rule = rule})].cells.count]
    BY DEF ParseRuleFrequency
  <1> HIDE DEF P, Q, few, all
  <1>5. \A k \in Int : Max({k}) = k
    BY DEF Max
  <1>6. ASSUME NEW k \in P PROVE long[k].cells.rule \in DOMAIN all /\ all[long[k].cells.rule] = long[k].cells.count
    <2>1. {l \in P : long[l].cells.rule = long[k].cells.rule} = {k}
      BY <1>3
    <2>2. k \in Int
      BY <1>1
    <2> QED
      BY <1>4, <1>5, <2>1, <2>2
  <1>7. ASSUME NEW k \in Q PROVE few[long[k].cells.rule] = long[k].cells.count
    <2>1. \A l \in Q : short[l] = long[l] /\ l \in P
      BY <1>1, <1>2
    <2>2. {l \in Q : short[l].cells.rule = short[k].cells.rule} = {k}
      BY <1>3, <2>1
    <2>3. k \in Int
      BY <1>1
    <2>4. few[short[k].cells.rule] = short[k].cells.count
      BY <1>4, <1>5, <2>2, <2>3
    <2> QED
      BY <2>1, <2>4
  <1>8. \A rule \in DOMAIN few : \E k \in Q : k \in P /\ rule = long[k].cells.rule
    BY <1>1, <1>2, <1>4
  <1>9. \A rule \in DOMAIN all : \E k \in P : rule = long[k].cells.rule
    BY <1>4
  <1>10. IsFiniteSet(DOMAIN all)
    <2> DEFINE f == [k \in P |-> long[k].cells.rule]
    <2>1. f \in [P -> DOMAIN all] /\ \A rule \in DOMAIN all : \E k \in P : f[k] = rule
      BY <1>6, <1>9
    <2>4. IsFiniteSet(1..n)
      BY <1>2, FS_Interval
    <2>2. IsFiniteSet(P)
      BY <1>1, <2>4, FS_Subset
    <2> HIDE DEF f
    <2>3. f \in Surjection(P, DOMAIN all)
      BY <2>1, Fun_IsSurj
    <2> QED
      BY <2>2, <2>3, FS_Surjection
  <1>11. /\ DOMAIN few \subseteq DOMAIN all
         /\ \A rule \in DOMAIN few : few[rule] = all[rule]
    BY <1>6, <1>7, <1>8
  <1>12. \A rule \in DOMAIN all : all[rule] \in Nat
    BY <1>3, <1>6, <1>9
  <1> QED
    BY <1>10, <1>11, <1>12 DEF few, all

\* A set of finite sets indexed by a finite set has a finite union.
LEMMA FiniteUnion ==
  ASSUME NEW S, IsFiniteSet(S), NEW f, \A x \in S : IsFiniteSet(f[x])
  PROVE  IsFiniteSet(UNION {f[x] : x \in S})
  <1> DEFINE T == {f[x] : x \in S}
             g == [x \in S |-> f[x]]
  <1>1. g \in [S -> T] /\ \A t \in T : \E x \in S : g[x] = t
    OBVIOUS
  <1>2. \A t \in T : IsFiniteSet(t)
    OBVIOUS
  <1> HIDE DEF T, g
  <1>3. g \in Surjection(S, T)
    BY <1>1, Fun_IsSurj
  <1>4. IsFiniteSet(T)
    BY <1>3, FS_Surjection
  <1>5. IsFiniteSet(UNION T)
    BY <1>2, <1>4, FS_UNION
  <1> QED
    BY <1>5 DEF T

\* Fewer rules have fewer alerts.
LEMMA SumGrows ==
  ASSUME NEW few, NEW all, NEW some, NEW rules, some \subseteq rules, IsFiniteSet(rules),
         \A rule \in some : few[rule] = all[rule], \A rule \in rules : all[rule] \in Nat
  PROVE  SumOf(few, some) <= SumOf(all, rules)
  <1> DEFINE f == [rule \in rules |-> {rule} \X (1..all[rule])]
             A == UNION {{rule} \X (1..few[rule]) : rule \in some}
             B == UNION {f[rule] : rule \in rules}
  <1>1. \A rule \in rules : IsFiniteSet(f[rule])
    <2> SUFFICES ASSUME NEW rule \in rules PROVE IsFiniteSet({rule} \X (1..all[rule]))
      OBVIOUS
    <2>1. all[rule] \in Int /\ 1 \in Int
      OBVIOUS
    <2>2. IsFiniteSet(1..all[rule])
      BY <2>1, FS_Interval
    <2>3. IsFiniteSet({rule})
      BY FS_Singleton
    <2> QED
      BY <2>2, <2>3, FS_Product
  <1>2. B = UNION {{rule} \X (1..all[rule]) : rule \in rules}
    OBVIOUS
  <1>3. A \in SUBSET B
    BY <1>2
  <1>4. SumOf(few, some) = Cardinality(A) /\ SumOf(all, rules) = Cardinality(B)
    BY <1>2 DEF SumOf
  <1>5. IsFiniteSet(B)
    <2> HIDE DEF f
    <2> QED
      BY <1>1, FiniteUnion
  <1> HIDE DEF A, B
  <1> QED
    BY <1>3, <1>4, <1>5, FS_Subset

\* Fewer stages name fewer alerts.
LEMMA CorrelatedStart ==
  ASSUME NEW a, NEW b, NEW i, NEW j, Leads(a, b, i, j),
         \A k \in 1..j : \E c \in Nat : DOMAIN b[k].ids = 1..c
  PROVE  Cardinality(UNION {ToSet(a[k].ids) : k \in DOMAIN a})
           <= Cardinality(UNION {ToSet(b[k].ids) : k \in DOMAIN b})
  <1> DEFINE f == [k \in 1..j |-> ToSet(b[k].ids)]
             A == UNION {ToSet(a[k].ids) : k \in DOMAIN a}
             B == UNION {f[k] : k \in 1..j}
  <1>1. /\ DOMAIN a = 1..i /\ DOMAIN b = 1..j /\ 1..i \subseteq 1..j /\ j \in Nat
        /\ \A k \in 1..i : a[k] = b[k]
    <2>1. DOMAIN a = 1..i /\ DOMAIN b = 1..j
      BY DEF Leads, IsSeqOf
    <2>2. i \in Nat /\ j \in Nat /\ i <= j /\ \A k \in 1..i : a[k] = b[k]
      BY DEF Leads
    <2>3. 1..i \subseteq 1..j
      BY <2>2
    <2> QED
      BY <2>1, <2>2, <2>3
  <1>2. \A k \in 1..j : IsFiniteSet(f[k])
    <2> SUFFICES ASSUME NEW k \in 1..j PROVE IsFiniteSet(ToSet(b[k].ids))
      OBVIOUS
    <2> DEFINE ids == b[k].ids
               g == [x \in DOMAIN ids |-> ids[x]]
    <2>1. PICK c \in Nat : DOMAIN ids = 1..c
      OBVIOUS
    <2>2. IsFiniteSet(DOMAIN ids)
      BY <2>1, FS_Interval
    <2>3. g \in [DOMAIN ids -> ToSet(ids)] /\ \A x \in ToSet(ids) : \E y \in DOMAIN ids : g[y] = x
      BY DEF ToSet
    <2> HIDE DEF g, ids
    <2>4. g \in Surjection(DOMAIN ids, ToSet(ids))
      BY <2>3, Fun_IsSurj
    <2>5. IsFiniteSet(ToSet(ids))
      BY <2>2, <2>4, FS_Surjection
    <2> QED
      BY <2>5 DEF ids
  <1>3. B = UNION {ToSet(b[k].ids) : k \in DOMAIN b}
    BY <1>1
  <1>4. A \in SUBSET B
    BY <1>1, <1>3
  <1>5. IsFiniteSet(B)
    <2> DEFINE S == 1..j
    <2>0. j \in Int /\ 1 \in Int
      BY <1>1
    <2>1. IsFiniteSet(1..j)
      BY <2>0, FS_Interval
    <2> HIDE DEF f, S
    <2>3. IsFiniteSet(S) /\ \A k \in S : IsFiniteSet(f[k])
      BY <1>2, <2>1 DEF S
    <2>2. IsFiniteSet(UNION {f[k] : k \in S})
      BY <2>3, FiniteUnion
    <2> QED
      BY <2>2 DEF S
  <1> HIDE DEF A, B
  <1>6. Cardinality(A) <= Cardinality(B)
    BY <1>4, <1>5, FS_Subset
  <1> QED
    BY <1>3, <1>6 DEF A

\* So the facts of files that are still being written are part of the facts of
\* the files.
LEMMA FactsOfStarts ==
  ASSUME NEW d, NEW detection, NEW dm, NEW dn, StartOf(d, detection, dm, dn),
         NEW h, NEW hunt, NEW hm, NEW hn, StartOf(h, hunt, hm, hn), IsWritten(hunt),
         NEW c, NEW correlation, NEW cm, NEW cn, StartOf(c, correlation, cm, cn),
         IsWritten(correlation)
  PROVE  Part(BuildReportData(d, h, c), BuildReportData(detection, hunt, correlation))
  <1> DEFINE facts == BuildReportData(d, h, c)
             whole == BuildReportData(detection, hunt, correlation)
             few == ParseRuleFrequency(h)  all == ParseRuleFrequency(hunt)
             a == ParseAttackChain(c)  b == ParseAttackChain(correlation)
  <1>1. /\ facts.detections = ParseDetectionResults(d)
        /\ whole.detections = ParseDetectionResults(detection)
        /\ facts.timeline = ParseHuntTimeline(h) /\ whole.timeline = ParseHuntTimeline(hunt)
        /\ facts.mitre = ParseHuntMitre(h) /\ whole.mitre = ParseHuntMitre(hunt)
        /\ facts.chain = a /\ whole.chain = b
        /\ facts.total = ParseHuntTotal(h) /\ whole.total = ParseHuntTotal(hunt)
        /\ facts.suricata = SumOf(few, DOMAIN few \cap SuricataRuleIds)
        /\ whole.suricata = SumOf(all, DOMAIN all \cap SuricataRuleIds)
        /\ facts.wazuh = SumOf(few, DOMAIN few \ SuricataRuleIds)
        /\ whole.wazuh = SumOf(all, DOMAIN all \ SuricataRuleIds)
        /\ facts.correlated = Cardinality(UNION {ToSet(a[k].ids) : k \in DOMAIN a})
        /\ whole.correlated = Cardinality(UNION {ToSet(b[k].ids) : k \in DOMAIN b})
    BY DEF BuildReportData
  <1> HIDE DEF facts, whole, few, all, a, b
  <1>2. IsPrefix(facts.detections, whole.detections)
    BY <1>1, DetectionsLead
  <1>3. IsPrefix(facts.timeline, whole.timeline) /\ IsPrefix(facts.mitre, whole.mitre)
    BY <1>1, TimelineLead, MitreLead
  <1>4. facts.total \in {0, whole.total}
    BY <1>1, TotalStart
  <1>5. /\ IsFiniteSet(DOMAIN all) /\ DOMAIN few \subseteq DOMAIN all
        /\ \A rule \in DOMAIN few : few[rule] = all[rule]
        /\ \A rule \in DOMAIN all : all[rule] \in Nat
    BY FrequencyStart DEF few, all
  <1>6. facts.suricata <= whole.suricata
    <2> DEFINE some == DOMAIN few \cap SuricataRuleIds
               rules == DOMAIN all \cap SuricataRuleIds
    <2>1. /\ some \subseteq rules /\ IsFiniteSet(rules)
          /\ \A rule \in some : few[rule] = all[rule]
          /\ \A rule \in rules : all[rule] \in Nat
      BY <1>5, FS_Subset
    <2> HIDE DEF some, rules
    <2>2. SumOf(few, some) <= SumOf(all, rules)
      BY <2>1, SumGrows
    <2> QED
      BY <1>1, <2>2 DEF some, rules
  <1>7. facts.wazuh <= whole.wazuh
    <2> DEFINE some == DOMAIN few \ SuricataRuleIds
               rules == DOMAIN all \ SuricataRuleIds
    <2>1. /\ some \subseteq rules /\ IsFiniteSet(rules)
          /\ \A rule \in some : few[rule] = all[rule]
          /\ \A rule \in rules : all[rule] \in Nat
      BY <1>5, FS_Subset
    <2> HIDE DEF some, rules
    <2>2. SumOf(few, some) <= SumOf(all, rules)
      BY <2>1, SumGrows
    <2> QED
      BY <1>1, <2>2 DEF some, rules
  <1>8. /\ Leads(a, b, Cardinality(Stages(c)), Cardinality(Stages(correlation)))
        /\ \A k \in 1..Cardinality(Stages(correlation)) : \E x \in Nat : DOMAIN b[k].ids = 1..x
    BY ChainLeads DEF a, b
  <1>9. IsPrefix(facts.chain, whole.chain)
    BY <1>1, <1>8, LeadsIsPrefix
  <1>10. facts.correlated <= whole.correlated
    BY <1>1, <1>8, CorrelatedStart
  <1>11. Part(facts, whole)
    BY <1>2, <1>3, <1>4, <1>6, <1>7, <1>9, <1>10 DEF Part
  <1> QED
    BY <1>11 DEF facts, whole

-----------------------------------------------------------------------------
(* The facts of a run come from the files it listed.                       *)

Begins(short, long) == \E m, n : StartOf(short, long, m, n)

\* The evidence files: they are named by the seconds that have passed, and
\* what a producer writes is what it has to write.
DirInv ==
  /\ now \in Nat /\ DOMAIN dir = Kinds
  /\ \A kind \in Kinds : DOMAIN dir[kind] \subseteq 0..now
  /\ \A kind \in Kinds : \A s \in DOMAIN dir[kind] : IsEvidence(dir[kind][s])
  /\ DOMAIN prod = Producers /\ DOMAIN name = Producers
  /\ \A p \in Producers : prod[p] = "writing" =>
       /\ name[p] \in DOMAIN dir[Kind(p)]
       /\ dir[Kind(p)][name[p]].lines = Produces[p].lines

\* What a run has listed and read.
Unread == {"absent", "idle", "glob"}
Early  == Unread \cup Kinds

FactsOf(r) ==
  BuildReportData(LinesOf(r, "detection"), LinesOf(r, "hunt"), LinesOf(r, "correlation"))

FactsInv(r) ==
  /\ \A kind \in Kinds : names[r][kind] = None \/ names[r][kind] \in DOMAIN dir[kind]
  /\ \A kind \in Kinds : Begins(seen[r][kind], LinesOf(r, kind))
  /\ pc[r] \in Unread => \A kind \in Kinds : seen[r][kind] = <<>>
  /\ pc[r] \in Early => data[r] = None
  /\ data[r] # None => Part(data[r], FactsOf(r))

Tables ==
  /\ DOMAIN names = Runs /\ DOMAIN seen = Runs /\ DOMAIN data = Runs /\ DOMAIN pc = Runs
  /\ \A r \in Runs : DOMAIN names[r] = Kinds /\ DOMAIN seen[r] = Kinds

ReadInv == DirInv /\ Tables /\ \A r \in Runs : FactsInv(r)

\* No line is the beginning of any file.
LEMMA NothingBegins ==
  ASSUME NEW lines, IsWritten(lines)
  PROVE  Begins(<<>>, lines)
  <1>1. /\ Len(lines) \in Nat /\ lines = [k \in 1..Len(lines) |-> lines[k]]
    BY DEF IsWritten
  <1>2. DOMAIN lines = 1..Len(lines) /\ 0 <= Len(lines)
    BY <1>1
  <1>3. DOMAIN <<>> = 1..0 /\ 1..0 = {}
    OBVIOUS
  <1>4. StartOf(<<>>, lines, 0, Len(lines))
    BY <1>1, <1>2, <1>3 DEF StartOf
  <1> QED
    BY <1>4 DEF Begins

\* What there is of a file is its beginning.
LEMMA TextBegins ==
  ASSUME NEW file, IsEvidence(file)
  PROVE  Begins(Text(file), file.lines)
  <1>1. /\ Len(file.lines) \in Nat /\ file.lines = [k \in 1..Len(file.lines) |-> file.lines[k]]
        /\ file.there \in 0..Len(file.lines)
    BY DEF IsEvidence, IsWritten
  <1>2. StartOf(Text(file), file.lines, file.there, Len(file.lines))
    <2> DEFINE T == {file.lines[k] : k \in 1..Len(file.lines)}
    <2>1. file.lines \in Seq(T)
      BY <1>1
    <2> HIDE DEF T
    <2>2. Text(file) = [k \in 1..file.there |-> file.lines[k]]
      BY <1>1, <2>1 DEF Text
    <2> QED
      BY <1>1, <2>2 DEF StartOf
  <1> QED
    BY <1>2 DEF Begins

\* A file that is not there has no lines.
LEMMA NoFileIsWritten == IsWritten(<<>>)
  BY DEF IsWritten, Section, Stages, RowPlaces

LEMMA LinesAreWritten ==
  ASSUME DirInv, NEW r \in Runs, FactsInv(r), NEW kind \in Kinds
  PROVE  IsWritten(LinesOf(r, kind))
  BY NoFileIsWritten DEF DirInv, FactsInv, LinesOf, IsEvidence

\* What a run reads of a file it has listed is the beginning of that file.
LEMMA ReadsBegin ==
  ASSUME DirInv, NEW r \in Runs, FactsInv(r), NEW kind \in Kinds
  PROVE  Begins(TextOf(r, kind), LinesOf(r, kind))
  <1>1. CASE names[r][kind] = None
    BY <1>1, NoFileIsWritten, NothingBegins DEF TextOf, LinesOf
  <1>2. CASE names[r][kind] # None
    BY <1>2, TextBegins DEF DirInv, FactsInv, TextOf, LinesOf
  <1> QED
    BY <1>1, <1>2

\* So what it takes for facts is part of the facts of these files.
LEMMA FactsArePart ==
  ASSUME DirInv, NEW r \in Runs, FactsInv(r), NEW d, NEW h, NEW c,
         Begins(d, LinesOf(r, "detection")), Begins(h, LinesOf(r, "hunt")),
         Begins(c, LinesOf(r, "correlation"))
  PROVE  Part(BuildReportData(d, h, c), FactsOf(r))
  <1>1. IsWritten(LinesOf(r, "hunt")) /\ IsWritten(LinesOf(r, "correlation"))
    BY LinesAreWritten DEF Kinds
  <1>2. PICK dm, dn : StartOf(d, LinesOf(r, "detection"), dm, dn)
    BY DEF Begins
  <1>3. PICK hm, hn : StartOf(h, LinesOf(r, "hunt"), hm, hn)
    BY DEF Begins
  <1>4. PICK cm, cn : StartOf(c, LinesOf(r, "correlation"), cm, cn)
    BY DEF Begins
  <1> QED
    BY <1>1, <1>2, <1>3, <1>4, FactsOfStarts DEF FactsOf

\* The last second of a set is in it.
LEMMA LatestIsThere ==
  ASSUME DirInv, NEW kind \in Kinds, DOMAIN dir[kind] # {}
  PROVE  Latest(kind) \in DOMAIN dir[kind]
  <1> DEFINE S == DOMAIN dir[kind]
             T == {k \in Nat : \E x \in S : k = now - x}
  <1>1. S \subseteq 0..now /\ now \in Nat /\ S # {}
    BY DEF DirInv
  <1> HIDE DEF S
  <1>2. T \in SUBSET Nat /\ T # {}
    <2>1. PICK x \in S : TRUE
      BY <1>1
    <2>2. now - x \in Nat
      BY <1>1, <2>1
    <2>3. now - x \in T
      BY <2>2
    <2> QED
      BY <2>3
  <1>3. Min(T) \in T /\ \A k \in T : Min(T) <= k
    <2> HIDE DEF T
    <2> QED
      BY <1>2, Least
  <1>4. PICK x \in S : Min(T) = now - x
    BY <1>3
  <1>5. \A y \in S : x >= y
    <2> SUFFICES ASSUME NEW y \in S PROVE x >= y
      OBVIOUS
    <2>1. now - y \in T /\ x \in 0..now /\ y \in 0..now
      BY <1>1
    <2>2. now - x <= now - y
      BY <1>3, <1>4, <2>1
    <2> QED
      BY <1>1, <2>1, <2>2
  <1>6. Max(S) \in S
    BY <1>5 DEF Max
  <1> QED
    BY <1>1, <1>6 DEF Latest, MaxOrNone, S

\* A step that leaves what a run has listed and read alone, and takes no line
\* from a file, keeps its facts.
FilesStay ==
  \A kind \in Kinds : \A s \in DOMAIN dir[kind] :
    s \in DOMAIN dir'[kind] /\ dir'[kind][s].lines = dir[kind][s].lines

LEMMA KeepFacts ==
  ASSUME NEW r \in Runs, FactsInv(r), FilesStay,
         names'[r] = names[r], seen'[r] = seen[r], data'[r] = data[r],
         pc'[r] \in Unread => pc[r] \in Unread,
         pc'[r] \in Early => pc[r] \in Early
  PROVE  FactsInv(r)'
  <1>1. \A kind \in Kinds : LinesOf(r, kind)' = LinesOf(r, kind)
    BY DEF FactsInv, FilesStay, LinesOf
  <1>2. FactsOf(r)' = FactsOf(r)
    BY <1>1 DEF FactsOf, Kinds
  <1>3. \A kind \in Kinds : Begins(seen'[r][kind], LinesOf(r, kind)')
    BY <1>1 DEF FactsInv
  <1>4. \A kind \in Kinds : names'[r][kind] = None \/ names'[r][kind] \in DOMAIN dir'[kind]
    BY DEF FactsInv, FilesStay
  <1>5. data'[r] # None => Part(data'[r], FactsOf(r)')
    BY <1>2 DEF FactsInv
  <1>6. pc'[r] \in Unread => \A kind \in Kinds : seen'[r][kind] = <<>>
    BY DEF FactsInv
  <1>7. pc'[r] \in Early => data'[r] = None
    BY DEF FactsInv
  <1> QED
    BY <1>3, <1>4, <1>5, <1>6, <1>7 DEF FactsInv

\* A run that has ended knows nothing.
LEMMA ForgetFacts ==
  ASSUME NEW r \in Runs, \A kind \in Kinds : names'[r][kind] = None,
         \A kind \in Kinds : seen'[r][kind] = <<>>, data'[r] = None
  PROVE  FactsInv(r)'
  <1>1. \A kind \in Kinds : LinesOf(r, kind)' = <<>>
    BY DEF LinesOf
  <1>2. \A kind \in Kinds : Begins(seen'[r][kind], LinesOf(r, kind)')
    BY <1>1, NoFileIsWritten, NothingBegins
  <1> QED
    BY <1>2 DEF FactsInv

LEMMA InitReads == Init => ReadInv
  <1> SUFFICES ASSUME Init PROVE ReadInv
    OBVIOUS
  <1>1. Tables
    BY DEF Init, Tables
  <1>2. DirInv
    <2>1. PICK scene \in Scenes :
            /\ dir = scene.dir
            /\ prod = [p \in Producers |-> IF p \in scene.cast THEN "idle" ELSE "absent"]
      BY DEF Init
    <2>2. /\ DOMAIN dir = Kinds
          /\ \A kind \in Kinds :
               /\ DOMAIN dir[kind] \subseteq {0}
               /\ \A s \in DOMAIN dir[kind] : IsEvidence(dir[kind][s])
      BY <2>1, ScenesAssumption
    <2>3. now = 1 /\ {0} \subseteq 0..1
      BY DEF Init
    <2>4. \A kind \in Kinds : DOMAIN dir[kind] \subseteq 0..now
      BY <2>2, <2>3
    <2>5. DOMAIN prod = Producers /\ DOMAIN name = Producers
      BY <2>1 DEF Init
    <2>6. \A p \in Producers : prod[p] # "writing"
      BY <2>1
    <2> QED
      BY <2>2, <2>3, <2>4, <2>5, <2>6 DEF DirInv
  <1>3. ASSUME NEW r \in Runs
        PROVE  FactsInv(r)
    <2>1. /\ \A kind \in Kinds : names[r][kind] = None /\ seen[r][kind] = <<>>
          /\ data[r] = None
      BY DEF Init
    <2>2. \A kind \in Kinds : Begins(seen[r][kind], LinesOf(r, kind))
      BY <2>1, NoFileIsWritten, NothingBegins DEF LinesOf
    <2> QED
      BY <2>1, <2>2 DEF FactsInv
  <1> QED
    BY <1>1, <1>2, <1>3 DEF ReadInv

-----------------------------------------------------------------------------
(* The programs that write, and the clock.                                 *)

\* No run takes a step.
Watching == UNCHANGED <<inputs, pc>>

LEMMA WatchingReads ==
  ASSUME ReadInv, Watching, FilesStay, DirInv'
  PROVE  ReadInv'
  <1>1. names' = names /\ seen' = seen /\ data' = data /\ pc' = pc
    BY DEF Watching, inputs
  <1>2. ASSUME NEW r \in Runs
        PROVE  FactsInv(r)'
    BY <1>1, KeepFacts DEF ReadInv
  <1>3. Tables'
    BY <1>1 DEF ReadInv, Tables
  <1> QED
    BY <1>2, <1>3 DEF ReadInv

LEMMA TickReads ==
  ASSUME ReadInv, Tick
  PROVE  ReadInv'
  <1>1. now \in Nat /\ now' = now + 1 /\ dir' = dir /\ prod' = prod /\ name' = name
    BY DEF ReadInv, DirInv, Tick, evidence
  <1>2. 0..now \subseteq 0..now' /\ now' \in Nat
    BY <1>1
  <1>3. DirInv'
    BY <1>1, <1>2 DEF ReadInv, DirInv
  <1>4. FilesStay
    BY <1>1 DEF FilesStay
  <1>5. Watching
    BY DEF Tick, Watching
  <1> QED
    BY <1>3, <1>4, <1>5, WatchingReads

LEMMA OpenEvidenceReads ==
  ASSUME ReadInv, NEW p \in Producers, OpenEvidence(p)
  PROVE  ReadInv'
  <1> DEFINE new == Evidence(Produces[p].lines, 0)
             here == Kind(p)
  <1>1. /\ here \in Kinds /\ IsWritten(Produces[p].lines)
        /\ new.lines = Produces[p].lines /\ new.there = 0
    BY ProducesAssumption DEF Kind, Evidence
  <1>2. IsEvidence(new)
    <2>1. Len(Produces[p].lines) \in Nat
      BY <1>1 DEF IsWritten
    <2>2. 0 \in 0..Len(Produces[p].lines)
      BY <2>1
    <2> QED
      BY <1>1, <2>2 DEF IsEvidence
  <1> HIDE DEF new, here
  <1>3. /\ now \notin DOMAIN dir[here] /\ now' = now
        /\ name' = [name EXCEPT ![p] = now] /\ prod' = [prod EXCEPT ![p] = "writing"]
        /\ dir' = [dir EXCEPT ![here] = Put(@, now, new)]
    BY DEF OpenEvidence, new, here
  <1>4. /\ DOMAIN dir' = Kinds /\ \A kind \in Kinds \ {here} : dir'[kind] = dir[kind]
        /\ DOMAIN dir'[here] = DOMAIN dir[here] \cup {now} /\ dir'[here][now] = new
        /\ \A s \in DOMAIN dir[here] : dir'[here][s] = dir[here][s]
    BY <1>1, <1>3 DEF ReadInv, DirInv, Put
  <1>5. FilesStay
    BY <1>1, <1>4 DEF FilesStay
  <1>6. DirInv'
    <2>1. now \in Nat /\ now \in 0..now
      BY DEF ReadInv, DirInv
    <2>2. \A kind \in Kinds : DOMAIN dir'[kind] \subseteq 0..now
      BY <1>4, <2>1 DEF ReadInv, DirInv
    <2>3. \A kind \in Kinds : \A s \in DOMAIN dir'[kind] : IsEvidence(dir'[kind][s])
      BY <1>2, <1>4 DEF ReadInv, DirInv
    <2>4. ASSUME NEW q \in Producers, prod'[q] = "writing"
          PROVE  /\ name'[q] \in DOMAIN dir'[Kind(q)]
                 /\ dir'[Kind(q)][name'[q]].lines = Produces[q].lines
      <3>1. CASE q = p
        BY <1>1, <1>3, <1>4, <3>1 DEF ReadInv, DirInv, here
      <3>2. CASE q # p
        <4>1. prod[q] = "writing" /\ name'[q] = name[q]
          BY <1>3, <2>4, <3>2 DEF ReadInv, DirInv
        <4>2. Kind(q) \in Kinds
          BY ProducesAssumption DEF Kind
        <4> QED
          BY <1>5, <4>1, <4>2 DEF ReadInv, DirInv, FilesStay
      <3> QED
        BY <3>1, <3>2
    <2>5. DOMAIN prod' = Producers /\ DOMAIN name' = Producers
      BY <1>3 DEF ReadInv, DirInv
    <2> QED
      BY <1>3, <1>4, <2>1, <2>2, <2>3, <2>4, <2>5 DEF DirInv
  <1>7. Watching
    BY DEF OpenEvidence, Watching
  <1> QED
    BY <1>5, <1>6, <1>7, WatchingReads

LEMMA WriteEvidenceReads ==
  ASSUME ReadInv, NEW p \in Producers, WriteEvidence(p)
  PROVE  ReadInv'
  <1> DEFINE lines == Produces[p].lines
             here == Kind(p)
             own == name[p]
  <1>1. here \in Kinds /\ IsWritten(lines) /\ Produces[p].cuts \subseteq 0..Len(lines)
    BY ProducesAssumption DEF Kind
  <1>2. PICK n \in Produces[p].cuts \cup {Len(lines)} :
          /\ dir' = [dir EXCEPT ![here][own] = Evidence(lines, n)]
          /\ prod' = [prod EXCEPT ![p] = IF n >= Len(lines) THEN "ended" ELSE @]
    BY DEF WriteEvidence
  <1> DEFINE new == Evidence(lines, n)
  <1>3. new.lines = lines /\ new.there = n
    BY DEF Evidence
  <1>4. IsEvidence(new)
    <2>1. Len(lines) \in Nat
      BY <1>1 DEF IsWritten
    <2>2. n \in 0..Len(lines)
      BY <1>1, <2>1
    <2> QED
      BY <1>1, <1>3, <2>2 DEF IsEvidence
  <1> HIDE DEF new, here, lines, own
  <1>5. /\ own \in DOMAIN dir[here] /\ dir[here][own].lines = lines
        /\ dir' = [dir EXCEPT ![here][own] = new]
        /\ name' = name /\ now' = now
    BY <1>2 DEF ReadInv, DirInv, WriteEvidence, here, own, lines, new
  <1>6. /\ DOMAIN dir' = Kinds /\ \A kind \in Kinds \ {here} : dir'[kind] = dir[kind]
        /\ DOMAIN dir'[here] = DOMAIN dir[here] /\ dir'[here][own] = new
        /\ \A s \in DOMAIN dir[here] \ {own} : dir'[here][s] = dir[here][s]
    BY <1>1, <1>5 DEF ReadInv, DirInv
  <1>7. FilesStay
    BY <1>1, <1>3, <1>5, <1>6 DEF FilesStay
  <1>8. DirInv'
    <2>1. \A kind \in Kinds : DOMAIN dir'[kind] \subseteq 0..now
      BY <1>6 DEF ReadInv, DirInv
    <2>2. \A kind \in Kinds : \A s \in DOMAIN dir'[kind] : IsEvidence(dir'[kind][s])
      BY <1>4, <1>6 DEF ReadInv, DirInv
    <2>3. ASSUME NEW q \in Producers, prod'[q] = "writing"
          PROVE  /\ name'[q] \in DOMAIN dir'[Kind(q)]
                 /\ dir'[Kind(q)][name'[q]].lines = Produces[q].lines
      <3>1. prod[q] = "writing"
        <4>1. CASE q = p
          BY <4>1 DEF WriteEvidence
        <4>2. CASE q # p
          BY <1>2, <2>3, <4>2 DEF ReadInv, DirInv
        <4> QED
          BY <4>1, <4>2
      <3>2. Kind(q) \in Kinds
        BY ProducesAssumption DEF Kind
      <3> QED
        BY <1>5, <1>7, <3>1, <3>2 DEF ReadInv, DirInv, FilesStay
    <2>4. DOMAIN prod' = Producers
      BY <1>2 DEF ReadInv, DirInv
    <2> QED
      BY <1>5, <1>6, <2>1, <2>2, <2>3, <2>4 DEF ReadInv, DirInv
  <1>9. Watching
    BY DEF WriteEvidence, Watching
  <1> QED
    BY <1>7, <1>8, <1>9, WatchingReads

-----------------------------------------------------------------------------
(* The runs.                                                               *)

\* A step of one run: its tables keep their domains, and no other run's part
\* of them changes.
StepOf(r) ==
  /\ Tables'
  /\ \A o \in Runs \ {r} : /\ names'[o] = names[o] /\ seen'[o] = seen[o]
                           /\ data'[o] = data[o] /\ pc'[o] = pc[o]

LEMMA RunReads ==
  ASSUME ReadInv, NEW r \in Runs, UNCHANGED <<now, evidence>>, StepOf(r), FactsInv(r)'
  PROVE  ReadInv'
  <1>1. now' = now /\ dir' = dir /\ prod' = prod /\ name' = name
    BY DEF evidence
  <1>2. DirInv' /\ FilesStay
    BY <1>1 DEF ReadInv, DirInv, FilesStay
  <1>3. ASSUME NEW o \in Runs \ {r}
        PROVE  FactsInv(o)'
    BY <1>2, <1>3, KeepFacts DEF ReadInv, StepOf
  <1> QED
    BY <1>2, <1>3 DEF ReadInv, StepOf

\* A run goes on with the facts it has.
LEMMA GoesOn ==
  ASSUME ReadInv, NEW r \in Runs, NEW place, UNCHANGED <<now, evidence, names, seen, data>>,
         Goto(r, place),
         place \in Unread => pc[r] \in Unread,
         place \in Early => pc[r] \in Early
  PROVE  ReadInv'
  <1>1. DOMAIN pc = Runs /\ pc' = [pc EXCEPT ![r] = place]
    BY DEF ReadInv, Tables, Goto
  <1>2. StepOf(r)
    BY <1>1 DEF ReadInv, Tables, StepOf
  <1>3. FilesStay
    BY DEF FilesStay, evidence
  <1>4. FactsInv(r)'
    BY <1>1, <1>3, KeepFacts DEF ReadInv
  <1> QED
    BY <1>2, <1>4, RunReads

\* A run ends.
LEMMA ExitReads ==
  ASSUME ReadInv, NEW r \in Runs, NEW place, UNCHANGED <<now, evidence>>, Exit(r, place)
  PROVE  ReadInv'
  <1>1. /\ pc' = [pc EXCEPT ![r] = place]
        /\ names' = [names EXCEPT ![r] = [kind \in Kinds |-> None]]
        /\ seen' = [seen EXCEPT ![r] = [kind \in Kinds |-> <<>>]]
        /\ data' = [data EXCEPT ![r] = None]
    BY DEF Exit, Goto
  <1>2. StepOf(r)
    BY <1>1 DEF ReadInv, Tables, StepOf
  <1>3. /\ \A kind \in Kinds : names'[r][kind] = None /\ seen'[r][kind] = <<>>
        /\ data'[r] = None
    BY <1>1 DEF ReadInv, Tables
  <1>4. FactsInv(r)'
    BY <1>3, ForgetFacts
  <1> QED
    BY <1>2, <1>4, RunReads

\* The listing: the newest file of each kind that there is.
LEMMA GlobReads ==
  ASSUME ReadInv, NEW r \in Runs, Glob(r)
  PROVE  ReadInv'
  <1>1. /\ pc[r] = "glob" /\ pc' = [pc EXCEPT ![r] = "detection"]
        /\ names' = [names EXCEPT ![r] = [kind \in Kinds |-> Latest(kind)]]
        /\ seen' = seen /\ data' = data
        /\ UNCHANGED <<now, evidence>>
    BY DEF Glob, Goto
  <1>2. StepOf(r)
    BY <1>1 DEF ReadInv, Tables, StepOf
  <1>3. dir' = dir /\ DirInv
    BY <1>1 DEF ReadInv, evidence
  <1>4. pc'[r] = "detection" /\ \A kind \in Kinds : names'[r][kind] = Latest(kind)
    BY <1>1 DEF ReadInv, Tables
  <1>5. /\ \A kind \in Kinds : seen'[r][kind] = <<>>
        /\ data'[r] = None
    BY <1>1 DEF ReadInv, FactsInv, Unread, Early
  <1>6. ASSUME NEW kind \in Kinds
        PROVE  names'[r][kind] = None \/ names'[r][kind] \in DOMAIN dir'[kind]
    <2>1. CASE DOMAIN dir[kind] = {}
      BY <1>4, <2>1 DEF Latest, MaxOrNone
    <2>2. CASE DOMAIN dir[kind] # {}
      BY <1>3, <1>4, <2>2, LatestIsThere
    <2> QED
      BY <2>1, <2>2
  <1>7. ASSUME NEW kind \in Kinds
        PROVE  Begins(seen'[r][kind], LinesOf(r, kind)')
    <2>1. IsWritten(LinesOf(r, kind)')
      BY <1>3, <1>6, NoFileIsWritten DEF LinesOf, DirInv, IsEvidence
    <2> QED
      BY <1>5, <2>1, NothingBegins
  <1>8. FactsInv(r)'
    BY <1>4, <1>5, <1>6, <1>7 DEF FactsInv, Unread
  <1> QED
    BY <1>1, <1>2, <1>8, RunReads

\* The first two files.
LEMMA FileReads ==
  ASSUME ReadInv, NEW r \in Runs, NEW kind \in Kinds, NEW next \in {"hunt", "correlation"},
         Read(r, kind, next)
  PROVE  ReadInv'
  <1>1. /\ pc[r] = kind /\ pc' = [pc EXCEPT ![r] = next]
        /\ seen' = [seen EXCEPT ![r][kind] = TextOf(r, kind)]
        /\ names' = names /\ data' = data
        /\ UNCHANGED <<now, evidence>>
    BY DEF Read, Goto
  <1>2. StepOf(r)
    BY <1>1 DEF ReadInv, Tables, StepOf
  <1>3. dir' = dir /\ DirInv /\ FactsInv(r)
    BY <1>1 DEF ReadInv, evidence
  <1>4. /\ pc'[r] = next /\ seen'[r][kind] = TextOf(r, kind)
        /\ \A k \in Kinds \ {kind} : seen'[r][k] = seen[r][k]
    BY <1>1 DEF ReadInv, Tables
  <1>5. \A k \in Kinds : LinesOf(r, k)' = LinesOf(r, k)
    BY <1>1, <1>3 DEF LinesOf
  <1>6. ASSUME NEW k \in Kinds
        PROVE  Begins(seen'[r][k], LinesOf(r, k)')
    BY <1>3, <1>4, <1>5, ReadsBegin DEF FactsInv
  <1>7. data'[r] = None
    BY <1>1, <1>3 DEF FactsInv, Early
  <1>8. \A k \in Kinds : names'[r][k] = None \/ names'[r][k] \in DOMAIN dir'[k]
    BY <1>1, <1>3 DEF FactsInv
  <1>9. FactsInv(r)'
    BY <1>4, <1>6, <1>7, <1>8 DEF FactsInv, Unread
  <1> QED
    BY <1>1, <1>2, <1>9, RunReads

\* The third file, and the facts of the three.
LEMMA CorrelationReads ==
  ASSUME ReadInv, NEW r \in Runs, ReadCorrelation(r)
  PROVE  ReadInv'
  <1> DEFINE facts == BuildReportData(seen[r]["detection"], seen[r]["hunt"], TextOf(r, "correlation"))
  <1>1. /\ pc' = [pc EXCEPT ![r] = "look"] /\ names' = names
        /\ seen' = [seen EXCEPT ![r] = [kind \in Kinds |-> <<>>]]
        /\ data' = [data EXCEPT ![r] = facts]
        /\ UNCHANGED <<now, evidence>>
    BY DEF ReadCorrelation, Goto
  <1>2. DirInv /\ FactsInv(r) /\ dir' = dir
    BY <1>1 DEF ReadInv, evidence
  <1>3. Part(facts, FactsOf(r))
    <2>1. /\ Begins(seen[r]["detection"], LinesOf(r, "detection"))
          /\ Begins(seen[r]["hunt"], LinesOf(r, "hunt"))
      BY <1>2 DEF FactsInv, Kinds
    <2>2. Begins(TextOf(r, "correlation"), LinesOf(r, "correlation"))
      BY <1>2, ReadsBegin DEF Kinds
    <2> QED
      BY <1>2, <2>1, <2>2, FactsArePart
  <1> HIDE DEF facts
  <1>4. StepOf(r)
    BY <1>1 DEF ReadInv, Tables, StepOf
  <1>5. /\ pc'[r] = "look" /\ data'[r] = facts
        /\ \A kind \in Kinds : seen'[r][kind] = <<>>
    BY <1>1 DEF ReadInv, Tables
  <1>6. \A kind \in Kinds : LinesOf(r, kind)' = LinesOf(r, kind)
    BY <1>1, <1>2 DEF LinesOf
  <1>7. FactsOf(r)' = FactsOf(r)
    BY <1>6 DEF FactsOf, Kinds
  <1>8. ASSUME NEW kind \in Kinds
        PROVE  Begins(seen'[r][kind], LinesOf(r, kind)')
    <2>1. IsWritten(LinesOf(r, kind))
      BY <1>2, LinesAreWritten
    <2> QED
      BY <1>5, <1>6, <2>1, NothingBegins
  <1>9. \A kind \in Kinds : names'[r][kind] = None \/ names'[r][kind] \in DOMAIN dir'[kind]
    BY <1>1, <1>2 DEF FactsInv
  <1>10. pc'[r] \notin Early
    BY <1>5 DEF Early, Unread, Kinds
  <1>11. Part(data'[r], FactsOf(r)')
    BY <1>3, <1>5, <1>7
  <1>12. pc'[r] \notin Unread
    BY <1>10 DEF Early
  <1>13. FactsInv(r)'
    BY <1>8, <1>9, <1>10, <1>11, <1>12 DEF FactsInv
  <1> QED
    BY <1>1, <1>4, <1>13, RunReads

\* The steps that read no file.
LEMMA OtherStepReads ==
  ASSUME ReadInv, NEW r \in Runs,
         \/ Invoke(r) \/ Hit(r) \/ Miss(r) \/ MockNarrate(r) \/ Unavailable(r) \/ Send(r)
         \/ Answer(r) \/ BadJson(r) \/ Fail(r) \/ Transient(r) \/ Retry(r)
         \/ OpenCacheFile(r) \/ FillCacheFile(r) \/ OpenPage(r)
  PROVE  ReadInv'
  <1> DEFINE Later == {"render", "ask", "store", "waiting", "backoff", "retrying", "filling", "printing"}
             Still == UNCHANGED <<now, evidence, names, seen, data>>
  <1>1. CASE Invoke(r)
    <2>1. Still /\ Goto(r, "glob") /\ pc[r] \in Unread
      BY <1>1 DEF Invoke, Unread
    <2> QED
      BY <2>1, GoesOn DEF Early
  <1>2. CASE ~Invoke(r)
    <2>1. \E place \in Later : Still /\ Goto(r, place)
      <3>1. CASE Hit(r) \/ Miss(r) \/ Transient(r)
        BY <3>1 DEF Hit, Miss, Transient, inputs
      <3>2. CASE MockNarrate(r) \/ Answer(r)
        BY <3>2 DEF MockNarrate, Answer, Accept, inputs
      <3>3. CASE Unavailable(r) \/ BadJson(r) \/ Fail(r)
        BY <3>3 DEF Unavailable, BadJson, Fail, FallBack, inputs
      <3>4. CASE Send(r) \/ Retry(r)
        BY <3>4 DEF Send, Retry, SendTo, inputs
      <3>5. CASE OpenCacheFile(r) \/ FillCacheFile(r) \/ OpenPage(r)
        BY <3>5 DEF OpenCacheFile, FillCacheFile, OpenPage, inputs
      <3> QED
        BY <1>2, <3>1, <3>2, <3>3, <3>4, <3>5
    <2>2. PICK place \in Later : Still /\ Goto(r, place)
      BY <2>1
    <2>3. place \notin Early
      BY <2>2 DEF Early, Unread, Kinds
    <2> QED
      BY <2>2, <2>3, GoesOn DEF Early
  <1> QED
    BY <1>1, <1>2

\* The steps that end a run.
LEMMA EndReads ==
  ASSUME ReadInv, NEW r \in Runs, DryLook(r) \/ RenderFails(r) \/ FillPage(r) \/ Crash(r)
  PROVE  ReadInv'
  <1>1. \E place \in Ended : UNCHANGED <<now, evidence>> /\ Exit(r, place)
    BY DEF DryLook, RenderFails, FillPage, Crash, Ended
  <1> QED
    BY <1>1, ExitReads

LEMMA NextReads == ReadInv /\ [Next]_vars => ReadInv'
  <1> SUFFICES ASSUME ReadInv, [Next]_vars PROVE ReadInv'
    OBVIOUS
  <1>1. CASE Tick
    BY <1>1, TickReads
  <1>2. CASE \E p \in Producers : OpenEvidence(p) \/ WriteEvidence(p)
    BY <1>2, OpenEvidenceReads, WriteEvidenceReads
  <1>3. ASSUME NEW r \in Runs, Invoke(r) \/ Step(r) \/ Crash(r)
        PROVE  ReadInv'
    <2>1. CASE Glob(r)
      BY <2>1, GlobReads
    <2>2. CASE ReadDetection(r) \/ ReadHunt(r)
      BY <2>2, FileReads DEF ReadDetection, ReadHunt, Kinds
    <2>3. CASE ReadCorrelation(r)
      BY <2>3, CorrelationReads
    <2>4. CASE DryLook(r) \/ RenderFails(r) \/ FillPage(r) \/ Crash(r)
      BY <2>4, EndReads
    <2>5. CASE \/ Invoke(r) \/ Hit(r) \/ Miss(r) \/ MockNarrate(r) \/ Unavailable(r) \/ Send(r)
               \/ Answer(r) \/ BadJson(r) \/ Fail(r) \/ Transient(r) \/ Retry(r)
               \/ OpenCacheFile(r) \/ FillCacheFile(r) \/ OpenPage(r)
      BY <2>5, OtherStepReads
    <2> QED
      BY <1>3, <2>1, <2>2, <2>3, <2>4, <2>5 DEF Step
  <1>4. CASE UNCHANGED vars
    <2>1. Watching /\ FilesStay /\ DirInv'
      BY <1>4 DEF vars, Watching, FilesStay, evidence, ReadInv, DirInv
    <2> QED
      BY <2>1, WatchingReads
  <1> QED
    BY <1>1, <1>2, <1>3, <1>4 DEF Next

\* The facts of a page are facts of the very files it lists: where a file was
\* still being written they are the first ones of that file, no count exceeds
\* the one of the finished file, and nothing of a file that came meanwhile is
\* among them, for any evidence, any cut of a file and any interleaving of
\* writers, runs and kills
\* (build_report_data: one listing, then three reads).
THEOREM FactsComeFromTheFiles == Spec => []FactsComeFromListedFiles
  <1>1. ReadInv => FactsComeFromListedFiles
    BY DEF ReadInv, FactsInv, FactsOf, FactsComeFromListedFiles
  <1> QED
    BY <1>1, InitReads, NextReads, PTL DEF Spec

-----------------------------------------------------------------------------
(* The refinement.  Only FillPage changes what comes out, and only Accept  *)
(* what has been written.                                                  *)

PagesOut == [r \in Runs |-> IF out[r] = None THEN None ELSE out[r].page]

LEMMA StepKeepsPromise ==
  ASSUME IInv, [Next]_vars
  PROVE  [Spec1!Next]_(Spec1!vars)
  <1>1. CASE UNCHANGED out /\ written \subseteq written'
    BY <1>1 DEF Spec1!Next, Spec1!Write
  <1>2. CASE \E r \in Runs : FillPage(r)
    <2>1. PICK r \in Runs : FillPage(r) BY <1>2
    <2>2. /\ pc[r] = "printing" /\ written' = written
          /\ out' = [out EXCEPT ![r] = [page |-> Render(r), calls |-> CallsMade(r)]]
      BY <2>1 DEF FillPage
    <2>3. out[r] = None BY <2>2 DEF IInv, RunInv, Shown
    <2>4. CASE [page |-> Render(r), calls |-> CallsMade(r)] = None
      <3>1. out' = out BY <2>2, <2>3, <2>4 DEF IInv, Funs, IsFun
      <3> QED BY <1>1, <2>2, <3>1
    <2>5. CASE [page |-> Render(r), calls |-> CallsMade(r)] # None
      <3>1. /\ out'[r] # None /\ out'[r].page = Render(r) /\ IsFun(out')
            /\ \A o \in Runs \ {r} : out'[o] = out[o]
        BY <2>2, <2>5 DEF IInv, Funs, IsFun
      <3>2. PagesOut[r] = None /\ PagesOut'[r] = Render(r) BY <2>3, <3>1 DEF PagesOut
      <3>3. PagesOut' = [PagesOut EXCEPT ![r] = PagesOut'[r]] BY <3>1 DEF PagesOut
      <3>4. GoodPage(Render(r), inv[r]) BY <2>2, RenderIsGood
      <3>5. Spec1!Honest(Render(r))
        BY <3>4 DEF GoodPage, Kept, NullAnswer, Announces, Spec1!Honest, Spec1!About
      <3>6. Spec1!ComeOut(r)
        BY <2>2, <3>2, <3>3, <3>5 DEF Spec1!ComeOut, PagesOut
      <3> QED BY <3>6 DEF Spec1!Next
    <2> QED BY <2>4, <2>5
  <1>3. CASE Tick \/ (\E p \in Producers : OpenEvidence(p) \/ WriteEvidence(p)) \/ UNCHANGED vars
    <2>1. UNCHANGED <<out, written>>
      BY <1>3 DEF Tick, OpenEvidence, WriteEvidence, vars, history
    <2> QED BY <1>1, <2>1
  <1>4. ASSUME NEW r \in Runs, Invoke(r) \/ Step(r) \/ Crash(r), ~FillPage(r)
        PROVE  UNCHANGED out /\ written \subseteq written'
    <2>1. CASE \/ Invoke(r) \/ Glob(r) \/ ReadDetection(r) \/ ReadHunt(r) \/ ReadCorrelation(r)
               \/ DryLook(r) \/ Hit(r) \/ Miss(r) \/ Unavailable(r) \/ BadJson(r) \/ Fail(r)
      BY <2>1 DEF Invoke, Glob, ReadDetection, ReadHunt, Read, ReadCorrelation, DryLook, Hit, Miss,
                  Unavailable, BadJson, Fail, FallBack, history
    <2>2. CASE MockNarrate(r) \/ Answer(r) BY <2>2 DEF MockNarrate, Answer, Accept
    <2>3. CASE Send(r) \/ Retry(r) \/ Transient(r)
      BY <2>3 DEF Send, Retry, SendTo, Transient, history
    <2>4. CASE \/ OpenCacheFile(r) \/ FillCacheFile(r) \/ RenderFails(r) \/ OpenPage(r) \/ Crash(r)
      BY <2>4 DEF OpenCacheFile, FillCacheFile, RenderFails, OpenPage, Crash, history
    <2> QED BY <1>4, <2>1, <2>2, <2>3, <2>4 DEF Step
  <1> QED BY <1>1, <1>2, <1>3, <1>4 DEF Next

\* Every run keeps the promise of ReportSpec, whatever the API answers and
\* wherever runs and producers are killed.
THEOREM ReportsKeepTheirPromise == Spec => ImplementsReportSpec
  <1>1. Init => Spec1!Init BY DEF Init, Spec1!Init
  <1> QED BY <1>1, Invariance, StepKeepsPromise, PTL DEF Spec, ImplementsReportSpec, Spec1!Spec
=============================================================================
