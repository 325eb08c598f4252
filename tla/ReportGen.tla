----------------------------- MODULE ReportGen ------------------------------
(***************************************************************************)
(* generate_html_report.py: runs of generate_report over an evidence       *)
(* directory that measure, hunt and correlate are writing to, sharing one  *)
(* cache directory and one API.  Runs may overlap and may be killed at any *)
(* step, and so may the programs that write the evidence.                  *)
(*                                                                         *)
(* Files are named by the second.  The steps are the ones another process  *)
(* can come between: listing the directory, reading each of the three      *)
(* files, reading the cache, the request, the two halves of a file write.  *)
(***************************************************************************)
EXTENDS Evidence

CONSTANTS
  Runs,          \* invocations of the program
  Scenes,        \* bound: who takes part in a behaviour, and the evidence files
                 \* that are there when it starts
  Producers,     \* invocations of measure, hunt and correlate
  Produces,      \* what each of them writes, and where a reader may find it cut
  Models,        \* values of GEMINI_MODEL
  Invocations,   \* command lines and environments each run may have
  MaxClock,      \* bound: seconds of a behaviour
  MaxActive,     \* bound: runs at the same time
  MaxCrashes     \* bound: kills in a behaviour

Mock  == "mock"
Kinds == {"detection", "hunt", "correlation"}

\* The environment and the flags.  auth: no key, a key, a service account
\* with its project or without; limit: None stands for no integer.
Invocation == [mode   : {"mock", "gemini", "other"},
               model  : Models,
               force  : BOOLEAN,
               dryRun : BOOLEAN,
               auth   : {"none", "key", "project", "noproject"},
               client : BOOLEAN,   \* google-genai importable
               limit  : Int \cup {None}]

\* An evidence file: the lines it has when it is finished, and how many of
\* them are there.  A program that is killed leaves them so.
Evidence(lines, n) == [lines |-> lines, there |-> n]
Text(file) == SubSeq(file.lines, 1, file.there)

IsEvidence(file) ==
  /\ file = Evidence(file.lines, file.there)
  /\ IsWritten(file.lines) /\ file.there \in 0..Len(file.lines)

ASSUME InvocationsAssumption == Invocations \in [Runs -> SUBSET Invocation]
ASSUME ProducesAssumption ==
  \A p \in Producers :
    /\ Produces[p].kind \in Kinds
    /\ IsWritten(Produces[p].lines) /\ Produces[p].cuts \subseteq 0..Len(Produces[p].lines)
ASSUME ScenesAssumption ==
  \A scene \in Scenes :
    /\ DOMAIN scene.dir = Kinds
    /\ \A kind \in Kinds :
         /\ DOMAIN scene.dir[kind] \subseteq {0}
         /\ \A s \in DOMAIN scene.dir[kind] : IsEvidence(scene.dir[kind][s])
ASSUME BoundsAssumption == MaxClock \in Nat /\ MaxActive \in Nat /\ MaxCrashes \in Nat
ASSUME LabelsAssumption == Mock \notin Models /\ None \notin Models \cup {Mock}

\* GEMINI_MAX_REQUESTS_PER_RUN, as _int_env reads it.
Limit(c) == IF c.limit = None THEN 1 ELSE c.limit

\* A narrative keeps who wrote it, the context it was asked for, and whether
\* the renderer can use it: what the API returns is any JSON value.
Shapes    == {"good", "null", "misshapen"}
Fallback  == [by |-> None, about |-> None, shape |-> "fallback"]
Narrative(by, about, shape) == [by |-> by, about |-> about, shape |-> shape]

\* get_narrative: an answer that parses to None is taken for no answer, and
\* keeps the status of one.
Empty(answer)  == answer.shape = "null"
Usable(answer) == IF Empty(answer) THEN Fallback ELSE answer

\* A file that was written whole, or one that does not parse.
File(content) == [whole |-> TRUE, content |-> content]
Torn          == [whole |-> FALSE, content |-> None]

Put(f, x, v) == [y \in DOMAIN f \cup {x} |-> IF y = x THEN v ELSE f[y]]

-----------------------------------------------------------------------------
VARIABLES
  now,        \* the clock, in seconds
  dir,        \* evidence files, by kind and second of the name
  prod,       \* where a producer is
  name,       \* the second in the name of its file
  inv,        \* a run's flags and environment
  pc,         \* where it is
  names,      \* the files it found, by kind
  seen,       \* the lines it read, by kind
  data,       \* ReportData
  narrative,  \* the narrative to show
  status,     \* ai_status
  required,   \* gemini_requests_required
  stamp,      \* the second in the name of its page
  cache,      \* cache files, by key
  pages,      \* report_*.html, by second
  clashed,    \* files opened while another writer had them open
  sent,       \* history: requests handed to the API
  written,    \* history: answers that came back
  out,        \* what a run has announced: its page and the calls made
  crashes     \* number of kills so far

evidence == <<dir, prod, name>>
inputs   == <<inv, names, seen, data>>
result   == <<narrative, status, required, stamp>>
disk     == <<cache, pages, clashed>>
history  == <<sent, written, out, crashes>>
vars     == <<now, evidence, inputs, pc, result, disk, history>>

Ended  == {"forecast", "announced", "failed", "crashed"}
Active == {r \in Runs : pc[r] \notin Ended \cup {"absent", "idle"}}

Goto(r, label) == pc' = [pc EXCEPT ![r] = label]

\* The process ends, and its memory with it.
Exit(r, label) ==
  /\ Goto(r, label)
  /\ names' = [names EXCEPT ![r] = [kind \in Kinds |-> None]]
  /\ seen' = [seen EXCEPT ![r] = [kind \in Kinds |-> <<>>]]
  /\ data' = [data EXCEPT ![r] = None]
  /\ narrative' = [narrative EXCEPT ![r] = None]
  /\ status' = [status EXCEPT ![r] = None]
  /\ UNCHANGED <<inv, stamp>>

Init ==
  /\ now = 1
  /\ \E scene \in Scenes :
       /\ dir = scene.dir
       /\ prod = [p \in Producers |-> IF p \in scene.cast THEN "idle" ELSE "absent"]
       /\ pc = [r \in Runs |-> IF r \in scene.cast THEN "idle" ELSE "absent"]
  /\ name = [p \in Producers |-> None]
  /\ inv = [r \in Runs |-> None]
  /\ names = [r \in Runs |-> [kind \in Kinds |-> None]]
  /\ seen = [r \in Runs |-> [kind \in Kinds |-> <<>>]]
  /\ data = [r \in Runs |-> None]
  /\ narrative = [r \in Runs |-> None]
  /\ status = [r \in Runs |-> None]
  /\ required = [r \in Runs |-> None]
  /\ stamp = [r \in Runs |-> None]
  /\ cache = <<>>
  /\ pages = <<>>
  /\ clashed = {}
  /\ sent = [r \in Runs |-> 0]
  /\ written = {}
  /\ out = [r \in Runs |-> None]
  /\ crashes = 0

Tick ==
  /\ now < MaxClock
  /\ now' = now + 1
  /\ UNCHANGED <<evidence, inputs, pc, result, disk, history>>

-----------------------------------------------------------------------------
(* The programs that write evidence.                                       *)

Kind(p) == Produces[p].kind

\* Bound: two producers of a kind do not start in one second.
OpenEvidence(p) ==
  /\ prod[p] = "idle"
  /\ now \notin DOMAIN dir[Kind(p)]
  /\ name' = [name EXCEPT ![p] = now]
  /\ dir' = [dir EXCEPT ![Kind(p)] = Put(@, now, Evidence(Produces[p].lines, 0))]
  /\ prod' = [prod EXCEPT ![p] = "writing"]
  /\ UNCHANGED <<now, inputs, pc, result, disk, history>>

\* Another piece of the file reaches the disk.
WriteEvidence(p) ==
  LET lines == Produces[p].lines
  IN  /\ prod[p] = "writing"
      /\ \E n \in Produces[p].cuts \cup {Len(lines)} :
           /\ n > dir[Kind(p)][name[p]].there
           /\ dir' = [dir EXCEPT ![Kind(p)][name[p]] = Evidence(lines, n)]
           /\ prod' = [prod EXCEPT ![p] = IF n >= Len(lines) THEN "ended" ELSE @]
      /\ UNCHANGED <<now, name, inputs, pc, result, disk, history>>

-----------------------------------------------------------------------------
(* build_report_data.                                                      *)

\* main: gemini mode without a key and without a service account falls back
\* to a dry run.
Invoke(r) ==
  /\ pc[r] = "idle"
  /\ Cardinality(Active) < MaxActive
  /\ \E c \in Invocations[r] :
       inv' = [inv EXCEPT ![r] =
                 [c EXCEPT !.dryRun = @ \/ (c.mode = "gemini" /\ c.auth = "none")]]
  /\ Goto(r, "glob")
  /\ UNCHANGED <<now, evidence, names, seen, data, result, disk, history>>

\* The last name in sorted order, files still being written included.  The
\* program lists the directory once for each kind, one right after the other.
Latest(kind) == MaxOrNone(DOMAIN dir[kind])

Glob(r) ==
  /\ pc[r] = "glob"
  /\ names' = [names EXCEPT ![r] = [kind \in Kinds |-> Latest(kind)]]
  /\ Goto(r, "detection")
  /\ UNCHANGED <<now, evidence, inv, seen, data, result, disk, history>>

\* Mutant: the file to read is looked for a second time.
TextOfLatest(r, kind) ==
  IF Latest(kind) = None THEN <<>> ELSE Text(dir[kind][Latest(kind)])

TextOf(r, kind) ==
  IF names[r][kind] = None THEN <<>> ELSE Text(dir[kind][names[r][kind]])

Read(r, kind, next) ==
  /\ pc[r] = kind
  /\ seen' = [seen EXCEPT ![r][kind] = TextOf(r, kind)]
  /\ Goto(r, next)
  /\ UNCHANGED <<now, evidence, inv, names, data, result, disk, history>>

ReadDetection(r) == Read(r, "detection", "hunt")
ReadHunt(r)      == Read(r, "hunt", "correlation")

ReadCorrelation(r) ==
  /\ pc[r] = "correlation"
  /\ data' = [data EXCEPT ![r] =
                BuildReportData(seen[r]["detection"], seen[r]["hunt"], TextOf(r, "correlation"))]
  /\ seen' = [seen EXCEPT ![r] = [kind \in Kinds |-> <<>>]]
  /\ Goto(r, "look")
  /\ UNCHANGED <<now, evidence, inv, names, result, disk, history>>

-----------------------------------------------------------------------------
(* generate_report: the cache and the narrative.                           *)

Context(r) == AsAIContext(data[r])

\* Mutant: the key leaves the correlation out.
FingerprintOfAlerts(context) == [context EXCEPT !.chain = <<>>, !.correlated = 0]

\* Two constants of the program are hashed with the context and left out.
Fingerprint(context) == context

Key(r) == Fingerprint(Context(r))

Readable(key) == key \in DOMAIN cache /\ cache[key].whole

DryLook(r) ==
  /\ pc[r] = "look"
  /\ inv[r].dryRun
  /\ required' = [required EXCEPT ![r] = IF Readable(Key(r)) /\ ~inv[r].force THEN 0 ELSE 1]
  /\ Exit(r, "forecast")
  /\ UNCHANGED <<now, evidence, disk, history>>

Hit(r) ==
  /\ pc[r] = "look"
  /\ ~inv[r].dryRun /\ ~inv[r].force
  /\ Readable(Key(r))
  /\ narrative' = [narrative EXCEPT ![r] = cache[Key(r)].content]
  /\ status' = [status EXCEPT ![r] = "cached"]
  /\ Goto(r, "render")
  /\ UNCHANGED <<now, evidence, inputs, required, stamp, disk, history>>

Miss(r) ==
  /\ pc[r] = "look"
  /\ ~inv[r].dryRun
  /\ inv[r].force \/ ~Readable(Key(r))
  /\ Goto(r, "ask")
  /\ UNCHANGED <<now, evidence, inputs, result, disk, history>>

\* A JSON value came back.
Accept(r, by, shape) ==
  LET answer == Narrative(by, Context(r), shape)
  IN  /\ narrative' = [narrative EXCEPT ![r] = Usable(answer)]
      /\ status' = [status EXCEPT ![r] = "ok"]
      /\ written' = written \cup {answer}
      /\ Goto(r, "store")
      /\ UNCHANGED <<now, evidence, inputs, required, stamp, disk, sent, out, crashes>>

\* Mutant: the fallback text is stored like an answer.
StoreFallback(r, why) ==
  /\ narrative' = [narrative EXCEPT ![r] = Fallback]
  /\ status' = [status EXCEPT ![r] = why]
  /\ Goto(r, "store")
  /\ UNCHANGED <<now, evidence, inputs, required, stamp, disk, history>>

\* No answer came back, or none that is JSON.
FallBack(r, why) ==
  /\ narrative' = [narrative EXCEPT ![r] = Fallback]
  /\ status' = [status EXCEPT ![r] = why]
  /\ Goto(r, "render")
  /\ UNCHANGED <<now, evidence, inputs, required, stamp, disk, history>>

MockNarrate(r) ==
  /\ pc[r] = "ask"
  /\ inv[r].mode = "mock"
  /\ Accept(r, Mock, "good")

CanCall(r) == inv[r].auth \in {"key", "project"} /\ inv[r].client

Unavailable(r) ==
  /\ pc[r] = "ask"
  /\ inv[r].mode # "mock"
  /\ ~CanCall(r)
  /\ FallBack(r, "unavailable")

SendTo(r, label) ==
  /\ sent' = [sent EXCEPT ![r] = @ + 1]
  /\ Goto(r, label)
  /\ UNCHANGED <<now, evidence, inputs, result, disk, written, out, crashes>>

Send(r) ==
  /\ pc[r] = "ask"
  /\ inv[r].mode # "mock"
  /\ CanCall(r)
  /\ SendTo(r, "waiting")

Asked(r) == pc[r] \in {"waiting", "retrying"}

Answer(r) == Asked(r) /\ \E shape \in Shapes : Accept(r, inv[r].model, shape)

\* Output that is not JSON.
BadJson(r) == Asked(r) /\ FallBack(r, "validation_failed")

\* A request-shaped error, or the second failure.
Fail(r) == Asked(r) /\ FallBack(r, "error")

\* Any other failure of the first attempt.
Transient(r) ==
  /\ pc[r] = "waiting"
  /\ Goto(r, "backoff")
  /\ UNCHANGED <<now, evidence, inputs, result, disk, history>>

\* Mutant: the attempts are not counted.
RetryForever(r) == pc[r] = "backoff" /\ SendTo(r, "waiting")

Retry(r) == pc[r] = "backoff" /\ SendTo(r, "retrying")

-----------------------------------------------------------------------------
(* cache.set and the page: open for writing truncates, the content follows *)
(* on close.  Of two writers that had a file open at once each may leave   *)
(* its content, or a mixture.                                              *)

Busy(store, file) ==
  \E r \in Runs : \/ store = "cache" /\ pc[r] = "filling" /\ Key(r) = file
                  \/ store = "page" /\ pc[r] = "printing" /\ stamp[r] = file

NoteWriter(store, file) ==
  clashed' = IF Busy(store, file) THEN clashed \cup {<<store, file>>}
                                  ELSE clashed \ {<<store, file>>}

Left(store, file, content) ==
  {File(content)} \cup (IF <<store, file>> \in clashed THEN {Torn} ELSE {})

\* Mutant: a file that does not parse is taken for one in use.
OpenCacheFileWhenFree(r) ==
  /\ pc[r] = "store"
  /\ Key(r) \in DOMAIN cache => cache[Key(r)].whole
  /\ cache' = Put(cache, Key(r), Torn)
  /\ NoteWriter("cache", Key(r))
  /\ Goto(r, "filling")
  /\ UNCHANGED <<now, evidence, inputs, result, pages, history>>

OpenCacheFile(r) ==
  /\ pc[r] = "store"
  /\ cache' = Put(cache, Key(r), Torn)
  /\ NoteWriter("cache", Key(r))
  /\ Goto(r, "filling")
  /\ UNCHANGED <<now, evidence, inputs, result, pages, history>>

\* Mutant: what is stored takes the name of the configured model.
FillCacheFileRenamed(r) ==
  /\ pc[r] = "filling"
  /\ \E file \in Left("cache", Key(r), [narrative[r] EXCEPT !.by = inv[r].model]) :
       cache' = Put(cache, Key(r), file)
  /\ Goto(r, "render")
  /\ UNCHANGED <<now, evidence, inputs, result, pages, clashed, history>>

FillCacheFile(r) ==
  /\ pc[r] = "filling"
  /\ \E file \in Left("cache", Key(r), narrative[r]) : cache' = Put(cache, Key(r), file)
  /\ Goto(r, "render")
  /\ UNCHANGED <<now, evidence, inputs, result, pages, clashed, history>>

\* Mutant: the configured model is named in every mode.
ModelConfigured(r) == inv[r].model

\* The labels of the page and of the printed summary.
ModelLabel(r) == IF inv[r].mode = "gemini" THEN inv[r].model ELSE Mock
CacheLabel(r) ==
  IF status[r] = "cached" THEN "hit" ELSE IF status[r] = "ok" THEN "stored" ELSE "n/a"

\* api_calls_made.
CallsMade(r) ==
  IF status[r] = "cached" \/ inv[r].mode # "gemini" THEN 0
  ELSE IF Limit(inv[r]) < 1 THEN Limit(inv[r]) ELSE 1

\* render_html: the facts as they were read, the timeline once more capped;
\* a note above every narrative that was not asked for in this run.
Render(r) ==
  [data      |-> [data[r] EXCEPT !.timeline = FirstRows(@)],
   files     |-> names[r],
   narrative |-> narrative[r],
   note      |-> status[r] # "ok",
   status    |-> status[r],
   model     |-> ModelLabel(r),
   cache     |-> CacheLabel(r)]

\* The shape of a narrative stops render_html before the page is opened.
RenderFails(r) ==
  /\ pc[r] = "render"
  /\ narrative[r].shape = "misshapen"
  /\ Exit(r, "failed")
  /\ UNCHANGED <<now, evidence, required, disk, history>>

OpenPage(r) ==
  /\ pc[r] = "render"
  /\ narrative[r].shape # "misshapen"
  /\ stamp' = [stamp EXCEPT ![r] = now]
  /\ pages' = Put(pages, now, Torn)
  /\ NoteWriter("page", now)
  /\ Goto(r, "printing")
  /\ UNCHANGED <<now, evidence, inputs, narrative, status, required, cache, history>>

\* Mutant: the clock is read again for the name.
FillPageNow(r) ==
  /\ pc[r] = "printing"
  /\ \E file \in Left("page", stamp[r], Render(r)) : pages' = Put(pages, now, file)
  /\ out' = [out EXCEPT ![r] = [page |-> Render(r), calls |-> CallsMade(r)]]
  /\ Exit(r, "announced")
  /\ UNCHANGED <<now, evidence, required, cache, clashed, sent, written, crashes>>

FillPage(r) ==
  /\ pc[r] = "printing"
  /\ \E file \in Left("page", stamp[r], Render(r)) : pages' = Put(pages, stamp[r], file)
  /\ out' = [out EXCEPT ![r] = [page |-> Render(r), calls |-> CallsMade(r)]]
  /\ Exit(r, "announced")
  /\ UNCHANGED <<now, evidence, required, cache, clashed, sent, written, crashes>>

-----------------------------------------------------------------------------
\* The process is killed; files stay as they are.
Crash(r) ==
  /\ r \in Active
  /\ crashes < MaxCrashes
  /\ crashes' = crashes + 1
  /\ Exit(r, "crashed")
  /\ UNCHANGED <<now, evidence, required, disk, sent, written, out>>

Step(r) ==
  \/ Glob(r) \/ ReadDetection(r) \/ ReadHunt(r) \/ ReadCorrelation(r)
  \/ DryLook(r) \/ Hit(r) \/ Miss(r)
  \/ MockNarrate(r) \/ Unavailable(r) \/ Send(r)
  \/ Answer(r) \/ BadJson(r) \/ Fail(r) \/ Transient(r) \/ Retry(r)
  \/ OpenCacheFile(r) \/ FillCacheFile(r)
  \/ RenderFails(r) \/ OpenPage(r) \/ FillPage(r)

Next ==
  \/ Tick
  \/ \E p \in Producers : OpenEvidence(p) \/ WriteEvidence(p)
  \/ \E r \in Runs : Invoke(r) \/ Step(r) \/ Crash(r)

\* A started run is scheduled, and a request ends within its timeout.
Spec == Init /\ [][Next]_vars /\ \A r \in Runs : WF_vars(Step(r))

-----------------------------------------------------------------------------
(* Properties.                                                             *)

\* A page never shows a narrative beside facts it was not written about,
\* also when the narrative comes from another run's cache file and that run
\* read other evidence, and even if two runs end in one second; nor does an
\* answer about other facts stop a page, if the renderer cannot take its
\* shape (pipeline.py: _fingerprint, the cache hit, the page file).
NarrativeFitsPage ==
  /\ \A s \in DOMAIN pages : pages[s].whole =>
       LET page == pages[s].content
       IN  page.narrative = Fallback \/ page.narrative.about = AsAIContext(page.data)
  /\ \A r \in Runs : pc[r] = "render" =>
       narrative[r] = Fallback \/ narrative[r].about = Context(r)

\* The fallback text is labelled as such and kept from later runs, whichever
\* way the call failed, with one exception: once the API has answered null
\* to some facts, the text may stand unlabelled beside these facts, and be
\* served from the cache for these facts, but for no others (pipeline.py:
\* only "ok" is stored; gemini_client.py: get_narrative).
NullAnswer(about) == \E answer \in written : Empty(answer) /\ answer.about = about

OnlyNullGoesUnlabelled ==
  /\ \A r \in Runs : out[r] # None /\ out[r].page.narrative = Fallback =>
       LET page == out[r].page
       IN  \/ page.note /\ page.status \notin {"ok", "cached"}
           \/ NullAnswer(AsAIContext(page.data))
  /\ \A key \in DOMAIN cache : cache[key].whole /\ cache[key].content = Fallback =>
       NullAnswer(key)

\* The facts of a page are those of the very files it lists, or fewer when a
\* file was still being written: never rows of a file that came meanwhile,
\* never rows out of order (build_report_data: three reads after one
\* listing, parsers that stop at the end of what is there).
Part(facts, whole) ==
  /\ \A field \in {"detections", "timeline", "mitre", "chain"} : IsPrefix(facts[field], whole[field])
  /\ facts.total \in {0, whole.total}
  /\ facts.suricata <= whole.suricata /\ facts.wazuh <= whole.wazuh
  /\ facts.correlated <= whole.correlated

LinesOf(r, kind) == IF names[r][kind] = None THEN <<>> ELSE dir[kind][names[r][kind]].lines

FactsComeFromListedFiles ==
  \A r \in Runs : data[r] # None =>
    Part(data[r], BuildReportData(LinesOf(r, "detection"), LinesOf(r, "hunt"),
                                  LinesOf(r, "correlation")))

\* A run hands the API at most two requests, none in mock mode and none for
\* a dry run, and a run in gemini mode that handed one over reports a call,
\* unless its limit is below one (gemini_client.py: the retry; main and
\* generate_report, the calls made).
RequestsBounded ==
  \A r \in Runs :
    /\ sent[r] <= 2
    /\ sent[r] > 0 => inv[r].mode # "mock" /\ ~inv[r].dryRun
    /\ sent[r] > 0 /\ out[r] # None /\ inv[r].mode = "gemini" =>
         out[r].calls = 1 \/ Limit(inv[r]) < 1

\* The page of a run in one of the two documented modes names the author of
\* its narrative, whichever run wrote the cache file last, unless the page
\* says that the narrative comes from the cache: then it names the model of
\* the run that shows it (pipeline.py: ai_meta).
OnlyCachedPagesMayMisname ==
  \A r \in Runs : out[r] # None /\ inv[r].mode # "other" =>
    LET page == out[r].page
    IN  \/ page.narrative = Fallback \/ page.narrative.by = page.model
        \/ page.cache = "hit" /\ page.status = "cached" /\ page.note

\* The file a finished run has announced holds the page of that run, whole,
\* unless another run's page has the same second in its name (pipeline.py:
\* report_<ts>.html).
AnnouncedPageIsOwn ==
  \A r \in Runs : out[r] # None =>
    \/ pages[stamp[r]] = File(out[r].page)
    \/ \E o \in Runs \ {r} : stamp[o] = stamp[r]

\* Every run that was started ends or is killed, whatever the API does; a run
\* starts only once, so it is enough that no run stays under way for ever
\* (gemini_client.py: one retry).
EveryReportEnds == []<>(Active = {})

\* The runs keep the promise of ReportSpec.
Announces(page) == page.note

Spec1 == INSTANCE ReportSpec WITH
           Reports <- Runs, NoNarrative <- Fallback,
           out <- [r \in Runs |-> IF out[r] = None THEN None ELSE out[r].page],
           Basis <- AsAIContext, Announces <- Announces, Empty <- Empty

ImplementsReportSpec == Spec1!Spec

-----------------------------------------------------------------------------
(* What the repository says, and the program does not do: each of these    *)
(* has a configuration that finds it violated.                             *)

\* measure-detection.sh: keep the rows of tests that were not detected.
MissesAreShown ==
  \A r \in Runs : out[r] # None /\ out[r].page.files["detection"] # None =>
    LET file  == dir["detection"][out[r].page.files["detection"]]
        shown == out[r].page.data.detections
    IN  file.there = Len(file.lines) =>
          {shown[k].test : k \in DOMAIN shown} = {line.cells.test : line \in ToSet(file.lines)}

\* docs/ai-html-report.md: a page without a narrative is clearly labelled.
\* The text of a null answer has status "ok", and no label above it.
FallbackIsLabelled ==
  \A r \in Runs : out[r] # None /\ out[r].page.narrative = Fallback => out[r].page.note

\* docs/ai-html-report.md: the report is never blocked on Gemini.  An answer
\* of another shape stops the renderer, whatever the evidence.
NeverBlocked == \A r \in Runs : pc[r] # "failed"

\* pipeline.py: the ceiling on requests is not silently exceeded.  It is
\* applied to the number that is printed, after the call.
LimitIsKept ==
  \A r \in Runs : inv[r] # None /\ inv[r].mode = "gemini" =>
    sent[r] = 0 \/ Limit(inv[r]) > 0
=============================================================================
