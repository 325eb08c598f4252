----------------------------- MODULE Correlate ------------------------------
(***************************************************************************)
(* correlate.py: invocations of run_pipeline on batches of alerts, sharing *)
(* one cache directory.  Invocations may follow one another or overlap,    *)
(* may be killed at any step, and talk to a model that may answer, invent  *)
(* identifiers, send malformed output or fail.                             *)
(*                                                                         *)
(* Grouping is taken at its result, CandidateGroups, which module Grouping *)
(* computes loop by loop.  The steps here are the ones another invocation, *)
(* a crash or the network can come between: reading a cache file, sending  *)
(* a request, getting its answer, truncating the cache file, filling it.   *)
(***************************************************************************)
EXTENDS Alerts

CONSTANTS
  Runs,          \* invocations of the program
  Batches,       \* what fetch_live or load_from_file may return
  Models,        \* values of GEMINI_MODEL
  Invocations,   \* command lines and environments an invocation may have
  RefSets,       \* sets of identifiers a model's answer may cite
  ScanWords, AuthWords, FimWords,   \* what call_mock takes as a keyword
  MaxRequests,   \* GEMINI_MAX_REQUESTS_PER_RUN
  MaxEvents,     \* GEMINI_MAX_EVENTS_PER_REQUEST
  MaxActive,     \* bound: invocations running at the same time
  MaxCrashes     \* bound: kills in a behaviour

Mock == "mock"

Invocation == [mode   : {"mock", "gemini", "other"},  \* AI_CORRELATION_MODE, --mock
               model  : Models,
               force  : BOOLEAN,
               dryRun : BOOLEAN,
               creds  : {"none", "key", "enterprise"},
               client : BOOLEAN,   \* google-genai importable, project set
               batch  : Batches]

ASSUME InvocationsAssumption == Invocations \subseteq Invocation /\ None \notin Invocation
ASSUME RefSetsAssumption == RefSets \subseteq SUBSET Ids
ASSUME LimitsAssumption == MaxRequests \in Int /\ MaxEvents \in Int
ASSUME BoundsAssumption == MaxActive \in Nat \ {0} /\ MaxCrashes \in Nat
ASSUME LabelsAssumption == Mock \notin Models /\ None \notin Models \cup {Mock}

-----------------------------------------------------------------------------
(* What one invocation has to analyse.                                     *)

\* The slice [:MaxEvents]: a negative limit counts from the end.
FirstEvents(group) ==
  LET last == IF MaxEvents < 0 THEN Len(group) + MaxEvents ELSE MaxEvents
  IN  SubSeq(group, 1, IF Len(group) < last THEN Len(group) ELSE last)

MultiEventGroups(batch) == SelectSeq(CandidateGroups(batch), LAMBDA g : Len(g) > 1)

\* For every batch, the events that stand for each of its incidents.
Work == [batch \in Batches |->
           LET multi == MultiEventGroups(batch)
           IN  [k \in DOMAIN multi |-> FirstEvents(DedupeForAI(multi[k]))]]

WorkItems == UNION {{Work[batch][k] : k \in DOMAIN Work[batch]} : batch \in Batches}

Keys == {GroupFingerprint(events) : events \in WorkItems}

\* The incidents of a batch come one after the other, and no two have one key:
\* their groups have no alert in common.
IncidentsAreListed == \A batch \in Batches : Work[batch] \in Seq(WorkItems)

KeysDiffer ==
  \A batch \in Batches : \A j, k \in DOMAIN Work[batch] :
    GroupFingerprint(Work[batch][j]) = GroupFingerprint(Work[batch][k]) => j = k

-----------------------------------------------------------------------------
(* Analyses.  A result keeps who produced it, the alerts it was made from  *)
(* and the identifiers it cites; validation leaves only known ones.        *)

Result == [by    : Models \cup {Mock},
           about : {Range(events) : events \in WorkItems},
           refs  : SUBSET UNION {IdsOf(events) : events \in WorkItems}]

\* A file of the cache directory: missing; torn, that is, truncated, partly
\* written or garbled, so that json.load fails; or a whole record.
CacheFile ==
  [status : {"absent", "torn"}, model : {None}, result : {None}]
  \cup [status : {"whole"}, model : Models \cup {Mock}, result : Result]

Unreadable(status)  == [status |-> status, model |-> None, result |-> None]
Whole(by, analysis) == [status |-> "whole", model |-> by, result |-> analysis]

Mentions(events, words) ==
  \E k \in DOMAIN events : (events[k].cats \cup {events[k].text}) \cap words # {}

Cited(events, positions) == {events[k].id : k \in DOMAIN events \cap positions}

\* The identifiers call_mock puts into its stages and relationships.
MockRefs(events) ==
  LET n    == Len(events)
      half == n \div 2
      scan == Mentions(events, ScanWords)
      auth == Mentions(events, AuthWords)
      fim  == Mentions(events, FimWords)
  IN  IF n < 2 \/ ~(scan \/ auth \/ fim) THEN {}
      ELSE Cited(events, {1, n}
                   \cup (IF scan THEN 1..half ELSE {})
                   \cup (IF auth THEN (half + 1)..n ELSE {})
                   \cup (IF fim /\ ~scan /\ ~auth THEN 1..n ELSE {}))

Analysis(by, events, refs) == [by |-> by, about |-> Range(events), refs |-> refs]

\* Mutant: the validation is satisfied by one known identifier.
SomeReferenceExists(refs, events) == refs \cap IdsOf(events) # {} \/ refs = {}

AllReferencesExist(refs, events) == refs \subseteq IdsOf(events)

-----------------------------------------------------------------------------
VARIABLES
  inv,        \* the invocation's command line and environment
  pc,         \* where it is
  at,         \* the incident it is at
  incidents,  \* RunSummary.incidents
  cached,     \* cached_count
  newCalls,   \* new_calls
  limited,    \* limit_reached
  answer,     \* the result about to be stored
  cache,      \* the files of the cache directory
  clashed,    \* keys whose file was opened while another writer had it open
  sent,       \* history: requests handed to the API
  paid,       \* history: accepted answers per key
  crashes     \* number of kills so far

summary == <<incidents, cached, newCalls, limited>>
disk    == <<cache, clashed>>
history == <<sent, paid, crashes>>
vars    == <<inv, pc, at, summary, answer, disk, history>>

Ended  == {"quit", "reported", "crashed"}
Active == {r \in Runs : pc[r] \notin {"idle"} \cup Ended}

Todo(r)    == Work[inv[r].batch]
Current(r) == Todo(r)[at[r]]
Key(r)     == GroupFingerprint(Current(r))

\* cache.get returns a record.
Readable(k) == cache[k].status = "whole"

Incident(events, status, model, result) ==
  [events |-> events, status |-> status, model |-> model, result |-> result]

\* The incident is appended and the loop goes on.
Conclude(r, status, model, result) ==
  /\ incidents' = [incidents EXCEPT ![r] =
                     Append(@, Incident(Current(r), status, model, result))]
  /\ at' = [at EXCEPT ![r] = @ + 1]
  /\ pc' = [pc EXCEPT ![r] = "next"]

\* The labels at the end of the loop body look at cfg.mode.
ModeStatus(r, status) == IF inv[r].mode = "gemini" THEN status ELSE "ok"
ModeModel(r)          == IF inv[r].mode = "gemini" THEN inv[r].model ELSE Mock

Bump(counter, r) == [counter EXCEPT ![r] = @ + 1]

-----------------------------------------------------------------------------
Init ==
  /\ inv = [r \in Runs |-> None]
  /\ pc = [r \in Runs |-> "idle"]
  /\ at = [r \in Runs |-> 1]
  /\ incidents = [r \in Runs |-> <<>>]
  /\ cached = [r \in Runs |-> 0]
  /\ newCalls = [r \in Runs |-> 0]
  /\ limited = [r \in Runs |-> FALSE]
  /\ answer = [r \in Runs |-> None]
  /\ cache = [k \in Keys |-> Unreadable("absent")]
  /\ clashed = {}
  /\ sent = [r \in Runs |-> 0]
  /\ paid = [k \in Keys |-> 0]
  /\ crashes = 0

\* main: without credentials gemini mode falls back to a dry run; without
\* alerts the program stops before the pipeline.
Invoke(r) ==
  /\ pc[r] = "idle"
  /\ Cardinality(Active) < MaxActive
  /\ \E c \in Invocations :
       /\ inv' = [inv EXCEPT ![r] =
                    [c EXCEPT !.dryRun = @ \/ (c.mode = "gemini" /\ c.creds = "none")]]
       /\ pc' = [pc EXCEPT ![r] = IF c.batch = <<>> THEN "quit" ELSE "next"]
  /\ UNCHANGED <<at, summary, answer, disk, history>>

-----------------------------------------------------------------------------
(* The head of the loop.                                                   *)

AtIncident(r) == pc[r] = "next" /\ at[r] \in DOMAIN Todo(r)

\* Mutant: a dry run takes an unreadable file for a hit.
DryLookTrustsFile(r) ==
  /\ AtIncident(r)
  /\ inv[r].dryRun
  /\ IF cache[Key(r)].status # "absent"
     THEN cached' = Bump(cached, r) /\ UNCHANGED newCalls
     ELSE newCalls' = Bump(newCalls, r) /\ UNCHANGED cached
  /\ Conclude(r, "dry_run", None, None)
  /\ UNCHANGED <<inv, limited, answer, disk, history>>

DryLook(r) ==
  /\ AtIncident(r)
  /\ inv[r].dryRun
  /\ IF Readable(Key(r))
     THEN cached' = Bump(cached, r) /\ UNCHANGED newCalls
     ELSE newCalls' = Bump(newCalls, r) /\ UNCHANGED cached
  /\ Conclude(r, "dry_run", None, None)
  /\ UNCHANGED <<inv, limited, answer, disk, history>>

\* Mutant: a cached result is labelled with the model of this run.
HitRelabels(r) ==
  /\ AtIncident(r)
  /\ ~inv[r].dryRun /\ ~inv[r].force
  /\ Readable(Key(r))
  /\ cached' = Bump(cached, r)
  /\ Conclude(r, "cached", ModeModel(r), cache[Key(r)].result)
  /\ UNCHANGED <<inv, newCalls, limited, answer, disk, history>>

Hit(r) ==
  /\ AtIncident(r)
  /\ ~inv[r].dryRun /\ ~inv[r].force
  /\ Readable(Key(r))
  /\ cached' = Bump(cached, r)
  /\ Conclude(r, "cached", cache[Key(r)].model, cache[Key(r)].result)
  /\ UNCHANGED <<inv, newCalls, limited, answer, disk, history>>

\* Mutant: every run analyses afresh.
MissAlways(r) ==
  /\ AtIncident(r)
  /\ ~inv[r].dryRun
  /\ pc' = [pc EXCEPT ![r] = "analyse"]
  /\ UNCHANGED <<inv, at, summary, answer, disk, history>>

Miss(r) ==
  /\ AtIncident(r)
  /\ ~inv[r].dryRun
  /\ inv[r].force \/ ~Readable(Key(r))
  /\ pc' = [pc EXCEPT ![r] = "analyse"]
  /\ UNCHANGED <<inv, at, summary, answer, disk, history>>

-----------------------------------------------------------------------------
(* Analysing one incident.                                                 *)

MockAnalyse(r) ==
  /\ pc[r] = "analyse"
  /\ inv[r].mode = "mock"
  /\ answer' = [answer EXCEPT ![r] = Analysis(Mock, Current(r), MockRefs(Current(r)))]
  /\ pc' = [pc EXCEPT ![r] = "store"]
  /\ UNCHANGED <<inv, at, summary, disk, history>>

CanCall(r) == inv[r].creds # "none" /\ inv[r].client

\* Mutant: reaching the limit is not noted.
LimitReachedSilently(r) ==
  /\ pc[r] = "analyse"
  /\ inv[r].mode # "mock"
  /\ newCalls[r] >= MaxRequests
  /\ Conclude(r, "skipped_limit_reached", None, None)
  /\ UNCHANGED <<inv, cached, newCalls, limited, answer, disk, history>>

LimitReached(r) ==
  /\ pc[r] = "analyse"
  /\ inv[r].mode # "mock"
  /\ newCalls[r] >= MaxRequests
  /\ limited' = [limited EXCEPT ![r] = TRUE]
  /\ Conclude(r, "skipped_limit_reached", None, None)
  /\ UNCHANGED <<inv, cached, newCalls, answer, disk, history>>

Unavailable(r) ==
  /\ pc[r] = "analyse"
  /\ inv[r].mode # "mock"
  /\ newCalls[r] < MaxRequests
  /\ ~CanCall(r)
  /\ newCalls' = Bump(newCalls, r)
  /\ Conclude(r, ModeStatus(r, "unavailable"), ModeModel(r), None)
  /\ UNCHANGED <<inv, cached, limited, answer, disk, history>>

\* Mutant: the limit is compared one too late.
SendOneTooMany(r) ==
  /\ pc[r] = "analyse"
  /\ inv[r].mode # "mock"
  /\ newCalls[r] <= MaxRequests
  /\ CanCall(r)
  /\ sent' = Bump(sent, r)
  /\ pc' = [pc EXCEPT ![r] = "waiting"]
  /\ UNCHANGED <<inv, at, summary, answer, disk, paid, crashes>>

Send(r) ==
  /\ pc[r] = "analyse"
  /\ inv[r].mode # "mock"
  /\ newCalls[r] < MaxRequests
  /\ CanCall(r)
  /\ sent' = Bump(sent, r)
  /\ pc' = [pc EXCEPT ![r] = "waiting"]
  /\ UNCHANGED <<inv, at, summary, answer, disk, paid, crashes>>

Asked(r) == pc[r] \in {"waiting", "retrying"}

AnswerAccepted(r) ==
  /\ Asked(r)
  /\ \E refs \in RefSets :
       /\ AllReferencesExist(refs, Current(r))
       /\ answer' = [answer EXCEPT ![r] = Analysis(inv[r].model, Current(r), refs)]
  /\ newCalls' = Bump(newCalls, r)
  /\ paid' = [paid EXCEPT ![Key(r)] = @ + 1]
  /\ pc' = [pc EXCEPT ![r] = "store"]
  /\ UNCHANGED <<inv, at, incidents, cached, limited, disk, sent, crashes>>

AnswerRejected(r) ==
  /\ Asked(r)
  /\ \E refs \in RefSets : ~AllReferencesExist(refs, Current(r))
  /\ newCalls' = Bump(newCalls, r)
  /\ Conclude(r, ModeStatus(r, "validation_failed"), ModeModel(r), None)
  /\ UNCHANGED <<inv, cached, limited, answer, disk, history>>

\* Mutant: what a failed call returns is cached like an answer.
FailIsCached(r) ==
  /\ Asked(r)
  /\ newCalls' = Bump(newCalls, r)
  /\ answer' = [answer EXCEPT ![r] = None]
  /\ pc' = [pc EXCEPT ![r] = "store"]
  /\ UNCHANGED <<inv, at, incidents, cached, limited, disk, history>>

\* Output that is not JSON, a request-shaped error, or a second failure.
Fail(r) ==
  /\ Asked(r)
  /\ newCalls' = Bump(newCalls, r)
  /\ Conclude(r, ModeStatus(r, "error"), ModeModel(r), None)
  /\ UNCHANGED <<inv, cached, limited, answer, disk, history>>

\* Any other failure of the first attempt.
Transient(r) ==
  /\ pc[r] = "waiting"
  /\ pc' = [pc EXCEPT ![r] = "backoff"]
  /\ UNCHANGED <<inv, at, summary, answer, disk, history>>

\* Mutant: the attempts are not counted.
RetryForever(r) ==
  /\ pc[r] = "backoff"
  /\ pc' = [pc EXCEPT ![r] = "waiting"]
  /\ UNCHANGED <<inv, at, summary, answer, disk, history>>

Retry(r) ==
  /\ pc[r] = "backoff"
  /\ sent' = Bump(sent, r)
  /\ pc' = [pc EXCEPT ![r] = "retrying"]
  /\ UNCHANGED <<inv, at, summary, answer, disk, paid, crashes>>

-----------------------------------------------------------------------------
(* cache.set: open for writing truncates the file, the record follows.     *)

Writers(k) == {r \in Runs : pc[r] = "writing" /\ Key(r) = k}

OpenCacheFile(r) ==
  /\ pc[r] = "store"
  /\ cache' = [cache EXCEPT ![Key(r)] = Unreadable("torn")]
  /\ clashed' = IF Writers(Key(r)) = {} THEN clashed \ {Key(r)} ELSE clashed \cup {Key(r)}
  /\ pc' = [pc EXCEPT ![r] = "writing"]
  /\ UNCHANGED <<inv, at, summary, answer, history>>

\* Two writers with the file open at once overwrite each other from its
\* start: what is left is one record, or one with a piece of the other.
FillCacheFile(r) ==
  LET by == IF inv[r].mode = "mock" THEN Mock ELSE inv[r].model
  IN  /\ pc[r] = "writing"
      /\ \/ cache' = [cache EXCEPT ![Key(r)] = Whole(by, answer[r])]
         \/ Key(r) \in clashed /\ cache' = [cache EXCEPT ![Key(r)] = Unreadable("torn")]
      /\ answer' = [answer EXCEPT ![r] = None]
      /\ Conclude(r, "ok", ModeModel(r), answer[r])
      /\ UNCHANGED <<inv, cached, newCalls, limited, clashed, history>>

-----------------------------------------------------------------------------
\* write_report, after the loop.
Report(r) ==
  /\ pc[r] = "next"
  /\ at[r] \notin DOMAIN Todo(r)
  /\ pc' = [pc EXCEPT ![r] = "reported"]
  /\ UNCHANGED <<inv, at, summary, answer, disk, history>>

\* The process is killed; files stay as they are.
Crash(r) ==
  /\ r \in Active
  /\ crashes < MaxCrashes
  /\ crashes' = crashes + 1
  /\ pc' = [pc EXCEPT ![r] = "crashed"]
  /\ answer' = [answer EXCEPT ![r] = None]
  /\ UNCHANGED <<inv, at, summary, disk, sent, paid>>

Step(r) ==
  \/ DryLook(r) \/ Hit(r) \/ Miss(r)
  \/ MockAnalyse(r) \/ LimitReached(r) \/ Unavailable(r) \/ Send(r)
  \/ AnswerAccepted(r) \/ AnswerRejected(r) \/ Fail(r) \/ Transient(r) \/ Retry(r)
  \/ OpenCacheFile(r) \/ FillCacheFile(r)
  \/ Report(r)

Next == \E r \in Runs : Invoke(r) \/ Step(r) \/ Crash(r)

\* A started process is scheduled, and a request ends within its timeout.
Spec == Init /\ [][Next]_vars /\ \A r \in Runs : WF_vars(Step(r))

-----------------------------------------------------------------------------
(* Properties.                                                             *)

\* Type invariant.
TypeOK ==
  /\ inv \in [Runs -> Invocation \cup {None}]
  /\ pc \in [Runs -> Ended \cup {"idle", "next", "analyse", "waiting", "backoff", "retrying",
                                 "store", "writing"}]
  /\ at \in [Runs -> Nat \ {0}]
  /\ incidents \in [Runs -> Seq([events : WorkItems,
                                  status : {"dry_run", "cached", "ok", "skipped_limit_reached",
                                            "unavailable", "validation_failed", "error"},
                                  model  : Models \cup {Mock, None},
                                  result : Result \cup {None}])]
  /\ cached \in [Runs -> Nat] /\ newCalls \in [Runs -> Nat]
  /\ limited \in [Runs -> BOOLEAN]
  /\ answer \in [Runs -> Result \cup {None}]
  /\ cache \in [Keys -> CacheFile]
  /\ clashed \subseteq Keys
  /\ sent \in [Runs -> Nat] /\ paid \in [Keys -> Nat] /\ crashes \in Nat

Reported(r) == {incidents[r][k] : k \in DOMAIN incidents[r]}

\* Whatever the model answered, and whichever run's file a result comes from,
\* a result in a report cites only alerts of the incident it is shown under:
\* an answer is validated once, for the run that asked, and is then served
\* to every later run by key (schema.py: all_event_ids_referenced_exist;
\* pipeline.py: the cache hit).
ResultsCiteOwnAlerts ==
  \A r \in Runs : \A inc \in Reported(r) :
    inc.result # None => inc.result.refs \subseteq IdsOf(inc.events)

\* A result in a report was made from the very alerts of the incident.  The
\* key names identifiers only, so this holds when they are stable.
ResultsMatchIncidents ==
  \A r \in Runs : \A inc \in Reported(r) :
    inc.result # None => inc.result.about = Range(inc.events)

\* In the two documented modes the model an incident names is the one that
\* produced its result, also when the result comes from a run with another
\* GEMINI_MODEL or another mode, and whichever writer filled the file last
\* (pipeline.py: the labels of a hit and of a fresh result).
ResultsNameTheirModel ==
  \A r \in Runs : inv[r] # None /\ inv[r].mode # "other" =>
    \A inc \in Reported(r) : inc.result # None => inc.result.by = inc.model

\* A run hands at most two requests to the API for each call it counts, and
\* counts at most GEMINI_MAX_REQUESTS_PER_RUN calls; in mock mode, and for a
\* dry run, it hands over none (pipeline.py: the limit; call_gemini: the retry).
RequestCeiling ==
  \A r \in Runs :
    /\ sent[r] <= 2 * (IF MaxRequests < 0 THEN 0 ELSE MaxRequests)
    /\ sent[r] > 0 => inv[r].mode # "mock" /\ ~inv[r].dryRun

\* The summary of a finished run accounts for its incidents: each is there
\* once, in order; cache hits and new calls are the incidents that say so;
\* and an incident is skipped only once the whole budget is counted.
Count(r, statuses) ==
  Cardinality({k \in DOMAIN incidents[r] : incidents[r][k].status \in statuses})

SummaryAccountsForIncidents ==
  \A r \in Runs : pc[r] = "reported" =>
    /\ [k \in DOMAIN incidents[r] |-> incidents[r][k].events] = Todo(r)
    /\ inv[r].dryRun => cached[r] + newCalls[r] = Len(incidents[r])
    /\ ~inv[r].dryRun => cached[r] = Count(r, {"cached"})
    /\ ~inv[r].dryRun /\ inv[r].mode = "gemini" =>
         newCalls[r] = Count(r, {"ok", "unavailable", "validation_failed", "error"})
    /\ limited[r] <=> Count(r, {"skipped_limit_reached"}) > 0
    /\ limited[r] => newCalls[r] >= MaxRequests

\* As long as invocations do not overlap, an analysis is paid for once, once
\* more for every kill, and once more for every run with --force: the files
\* a killed run leaves truncated are noticed and repaired by the next one
\* (cache.py: get, set).
CrashCostsOneAnalysis ==
  \A k \in Keys :
    paid[k] <= 1 + crashes + Cardinality({r \in Runs : inv[r] # None /\ inv[r].force})

\* What a run of these settings would send for, the cache being as it is.
WouldCall(c) ==
  IF c.mode = "mock" THEN 0
  ELSE LET misses == Cardinality({k \in DOMAIN Work[c.batch] :
                        c.force \/ ~Readable(GroupFingerprint(Work[c.batch][k]))})
       IN  IF misses <= MaxRequests THEN misses ELSE MaxRequests

ForecastIsExact(r) ==
  pc[r] = "next" /\ pc'[r] = "reported" /\ inv[r].dryRun => newCalls[r] = WouldCall(inv[r])

\* A dry run in gemini mode, without --force and within the limit, announces
\* the number of groups a real run would send for, torn files included,
\* provided no other run is under way.
DryRunForecasts ==
  [][\A r \in Runs :
       inv[r] # None /\ inv[r].mode = "gemini" /\ ~inv[r].force /\ newCalls[r] <= MaxRequests
         => ForecastIsExact(r)]_vars

\* Every invocation ends, unless it is killed: a transient failure is retried
\* once, and the limit does not stop the loop (pipeline.py, gemini_client.py).
EveryRunEnds == \A r \in Runs : pc[r] \notin {"idle"} \cup Ended ~> pc[r] \in Ended

-----------------------------------------------------------------------------
(* What the repository says of the program and it does not do.             *)

\* The API is called in gemini mode only (config.py:44, "never call the real
\* API unless explicitly asked").  It is not: whatever is not "mock", a
\* misspelt value too, takes the branch that calls (pipeline.py:98).
NoCallUnlessAsked == \A r \in Runs : sent[r] > 0 => inv[r].mode = "gemini"
=============================================================================
