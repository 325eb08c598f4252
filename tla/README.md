# Verification of the NISec lab tools

NISec is a security lab: four virtual machines, attack scripts, Suricata and
Wazuh for detection, and tools that measure, hunt, correlate, compare, report,
seal and harden. This directory holds TLA+ models of the tools' own logic, the
TLC configurations that check them on small instances, and proofs of the main
results for every value of the constants.

## The system

| Part | Sources | State | Operations | What makes it correct |
|---|---|---|---|---|
| Alert intake | `nisec_correlate/events.py` | none | query the log, map raw alerts to `Event`s | nothing falls between two queries |
| Candidate grouping | `grouping.py` | union-find, sorted list, groups | scan pairs, `find`, `union`, collect | groups are the connected components of the relation |
| Deduplication, cache keys | `dedup.py` | none | collapse copies, name a group | equal keys only for equal groups |
| Correlation pipeline | `pipeline.py`, `correlate.py` | counters, incidents of a run | dry run, hit, mock, call, skip | reports show the right result, label and counts; spending is bounded |
| Result cache | `cache.py` | one file per key | `get`, `set` | a file that parses is a record; anything else is a miss |
| Gemini client | `gemini_client.py`, `schema.py` | attempts | request, retry, validate | no answer with invented identifiers gets through |
| Markdown report | `report.py` | one file | write | prints the summary |
| HTML report | `nisec_report/`, `generate_html_report.py` | the same cache directory, pages | list and parse evidence, narrate, render | facts and narrative belong together, labels are honest, requests are bounded |
| Measurement | `measure-detection.sh`, `_alert-probe.sh` | T0, deadline, rows | launch an attack, poll | no stale credit, no missed detection |
| Threat hunt | `hunt.sh` | window | two reads of the alert log | total and table agree |
| Run comparison | `compare-runs.sh` | latencies and rules read | read, compare, write | verdicts and trends follow the latencies, and a miss is a test that was not detected |
| Sealing | `seal-evidence.sh` | manifest | count, hash, verify | OK and MISMATCH mean what they say |
| Hardening | `harden-dashboard.sh` | firewall, configuration, backup | reset, allow, append, restart, roll back | nobody is locked out, the dashboard runs |
| Configuration merge | `_ossec-merge.sh`, `enable-active-response.sh`, provisioning | `ossec.conf`, the service | test, rewrite, restart | each block once, nothing lost |
| Everything else | scoring, provisioning, attacks, capture, rules, Docker, health check, retention, entry points | outside the code | calls of external tools | not modelled |

The parts meet in files. The manager's alert log feeds measurement, hunt and
correlation. These write markdown files into `evidence/`, which the HTML report
and the comparison read back, and which sealing hashes. Correlation and the HTML
report keep their answers in one cache directory, under keys of their own.
Nothing takes a lock and nothing is written beside and renamed: overlapping
invocations, files that are still being written, and kills between two writes
are where a test hardly looks. The list of hazards, line by line, is in
`PROJECT.json`.

## Modules

| Module | Models |
|---|---|
| `Places` | parts of a sequence, by the places of their elements: what a filter, a sort or a `grep` keeps, in the order it is in |
| `Alerts` | an alert, the relation between two alerts, connected components as the reference for groups, copies, cache keys |
| `GroupingSpec` | the promise of `group_candidates`: the candidate groups, in one step, and that they come |
| `Grouping`, `MCGrouping` | `group_candidates` loop by loop, with the union-find; batches for TLC |
| `Correlate`, `MCCorrelate` | `correlate.py` and `run_pipeline`: invocations that share the cache |
| `Measure`, `MCMeasure` | `measure-detection.sh` with `_alert-probe.sh` against a log that grows |
| `Evidence` | the markdown files: the lines that are written, and the parsers of `evidence_parser.py` |
| `ReportSpec` | the promise of the HTML report: facts with a narrative about them, or a note, which an empty narrative may lack |
| `ReportGen`, `MCReportGen` | `generate_html_report.py` and `generate_report`, beside the programs that write evidence |
| `Intake`, `MCIntake` | queries of the alert log: `hunt.sh` and `fetch_live`, and what they make of the answer |
| `Trend`, `MCTrend` | `compare-runs.sh`, read by read and cell by cell |
| `Seal` | `seal-evidence.sh`, sealing and verifying |
| `OssecConf` | `_ossec-merge.sh` and its callers |
| `Dashboard` | `harden-dashboard.sh` |
| `Host`, `MCHost` | the host both of them change |
| `GroupingProofs`, `CorrelateProofs`, `MeasureProofs`, `ReportGenProofs`, `IntakeProofs`, `TrendProofs`, `SealProofs` | theorems about these modules |
| `HostProofs` | theorems about `Host`: its `ossec.conf`, its firewall and its dashboard |

`Places` names the element that a filter or a sort puts at a place by a rank,
the number of places up to it, where the library has a recursive filter or a
comparison passed as an argument: TLC evaluates either, but only ranks can be
reasoned about for every input (see Proofs).

`Evidence` is what composes the tools: `Intake` writes a hunt report with it and
reads it back, `ReportGen` reads files of all three kinds, `Trend` reads the
lines that a measurement wrote and is compared with the other reader of the
same lines.

### Alerts

An alert keeps the fields some function reads; a missing field is `None`, a
category the set of its comma-separated parts, and `text` whatever is only sent
to the model. Hashes are replaced by what is hashed: the event fingerprint by
the tuple of fields, the cache key by the bag of identifiers. Collisions of
SHA-256, and the 64 bits `event_fingerprint` keeps of it, are left out; so is
the prompt version, a constant of the program. A time that does not parse counts
as the epoch, as in `_parse_ts`.

`CandidateGroups` is not a transcription of the union-find. Two identifiers are
`Connected` when no set closed under the relation separates them, and a group
collects the alerts connected with its first one.

### Grouping

One action is one iteration of one loop: the outer loop (`NextAnchor`), the
inner one (`Skip`, `Join`), the loop of `find` (`Halve`), the two ends of `find`
in `union` (`FoundA`, `Union`), and the collecting loop (`Collect`). Path halving
between and during unions is thereby visible. `i` and `j` are the positions of
`a` and `b`, 1-based. Python's dictionary keeps insertion order, so `groups` is a
sequence.

`ComputesCandidateGroups` says that `Grouping` implements `GroupingSpec` under
the mapping that shows the groups once the call has ended, the answer that
`GroupingSpec` promises (`<>(result # None)`) included.

### Correlate

A behaviour is a number of invocations of the program (`Runs`), each with a
command line, an environment and a batch, one after the other or overlapping,
over one cache directory. Grouping enters as `CandidateGroups`, which `Grouping`
is shown to compute. The steps of `run_pipeline` are cut where another process, a
kill or the network can come in between:

| Action | Code |
|---|---|
| `Invoke` | `main` up to `run_pipeline`: the fall back to a dry run, the early return without alerts |
| `DryLook` | the dry-run branch |
| `Hit`, `Miss` | the cache lookup |
| `MockAnalyse` | `call_mock` |
| `LimitReached`, `Unavailable` | the request limit, the checks before a request |
| `Send`, `Transient`, `Retry` | the request and its one retry |
| `AnswerAccepted`, `AnswerRejected`, `Fail` | the ways `call_gemini` returns after a request |
| `OpenCacheFile`, `FillCacheFile` | `cache.set`: the file is truncated, then written |
| `Report` | the end of the loop and `write_report` |
| `Crash` | a kill, at any step |

A cache file is absent, torn or whole. Two writers that have one file open at
the same time (`clashed`) may leave it torn. A result is a record of who
produced it, the alerts it was made from and the identifiers it cites. That is
what the properties tell apart; the rest of an answer is left out. `sent`, `paid`
and `crashes` are history variables.

### Measure

A run of the script is a list of tests, each a pass through `run_test`:

| Action | Code |
|---|---|
| `ReadClock`, `NoClock` | T0 from the manager, or an ERROR row and `return` |
| `Launch` | the attack in the background, the deadline from the host's clock |
| `StartProbe`, `DeadlinePassed` | the condition of the loop |
| `ProbeHits`, `ProbeMisses`, `ProbeUnanswered` | one call of the probe; no answer looks like no hit |
| `Wake` | the end of `sleep` |
| `Record` | `wait` for the attack, then the row |
| `WriteResults` | the results file |
| `AttackEnds`, `Alert`, `Tick` | the lab: an attack ends, the manager appends an alert, time passes |

Time is in whole seconds, as the timestamps and `date +%s` are; there is a clock
on the manager and one on the host, `Skew` apart. A step of the script takes
between 0 and `Lag` seconds, a sleep exactly `POLL_SECONDS`: `due` is the time by
which the present step has to end. The probe reads the last `TailLines` lines of
the log, 5000 in the code. `start`, `old` and `sure` are history variables.
Alerts of an attack may come after the attack, and after its test.

### Evidence

A file is a sequence of lines, and only lines that some parser looks at are
kept: headings, bold labels, breaks between incidents, the total of a hunt, rows
of tables. A row is the record of its cells. Writers (`DetectionLines`,
`HuntLines`, `CorrelationLines`) and readers (`ParseDetectionResults`,
`ParseHuntTimeline`, `ParseAttackChain` and so on) are operators, and `BuildReportData`
is the pure part of the function of that name. What a regular expression refuses is
kept where a property could tell: a verdict of two words, a latency that is no
number (`>180 s`, a dash), a stage of two words, an empty list of identifiers that is read as one
empty identifier. A file that is still being written is a prefix of its lines: `echo`
writes whole lines, and the parsers of the page refuse a line that is cut, or read it
as the whole one.

`Sorted` is the `sort` of the timeline: a row comes after the rows `Before` it. Times
are in whole seconds, and what `sort` compares beyond that is taken to follow the log.
What the programs that write keep to, and the parsers count on, is said by
`IsWritten` here, `RowsAreMeasured` in `Trend` and `IsEvidence` in `ReportGen`: a rule has one row among the frequencies of a hunt, a stage lists its
alerts, a row with a latency names its rule. They are assumptions on the constants
that hold the evidence; TLC evaluates them for every file of the runs.

### ReportGen

| Action | Code |
|---|---|
| `Tick` | the second that names files |
| `OpenEvidence`, `WriteEvidence` | measure, hunt and correlate: a file is opened, and reaches the disk in pieces |
| `Invoke` | `main`: settings, the fall back to a dry run |
| `Glob` | `build_report_data`: the newest file of each kind, by name |
| `ReadDetection`, `ReadHunt`, `ReadCorrelation` | the three reads, and the parsers |
| `DryLook`, `Hit`, `Miss` | `generate_report`: the key, the cache |
| `MockNarrate`, `Unavailable`, `Send`, `Transient`, `Retry` | `call_gemini` up to an answer |
| `Answer`, `BadJson`, `Fail` | the ways it ends |
| `OpenCacheFile`, `FillCacheFile` | `cache.set`, only after "ok" |
| `RenderFails`, `OpenPage`, `FillPage` | `render_html`, and the page |
| `Crash` | a kill, at any step |

A narrative is a record of who wrote it, the context it was asked for and its
shape: the API may return any JSON value. `null` (`Empty`) turns into the fallback
text (`Usable`) and keeps the status "ok": the text is stored, shown without a note,
and served to later runs with the same facts. Another shape stops the renderer. The cache key is the context itself;
`_fingerprint` hashes it together with two constants. A run's memory is cleared
when it ends: nothing of it is used afterwards. `sent`, `written` and `out` are
history variables: the requests, the narratives that came back, and what a run
announced when it ended.

`ImplementsReportSpec` maps `out` to the pages of `ReportSpec`, which knows no
files, cache or network: a narrative is written, or a report comes out with a
narrative about its own facts, or with the fallback and a note. The note may be
missing only if what was written about these facts is empty. That is weaker than
what the documentation promises; the configuration `unlabelled` shows the difference.

### Intake

The log grows between any two commands (`Raise`, with alerts late by up to
`MaxLag`). `hunt.sh` reads the manager's clock (`ReadClock`), counts
(`CountAlerts`), reads again (`ListAlerts`) and writes; `fetch_live` reads the
clock and the log (`FetchAlerts`). A query sees the last `TailLines` lines and the
alerts from the start of its window on. A connection that breaks cuts an answer
short; the count of `hunt.sh` comes whole or not at all, because `wc` runs on the
manager. `Ask` is a query; its answer is kept as the places in the log of the alerts
it has, and `Entries` are those alerts in the order of the log. `FromRaw` maps a
raw alert to an event, with its fall-backs from one field
to another and a port that is no number.

### Trend

The script calls `grep` on each file for each test twice, for the latency and
for the rule: `ReadLatency` and `ReadRule` are one such call each, in the order of the
loops over runs and tests (`idx`, `key`). The newest file grows meanwhile (`Grow`). Then
`CompareRun` writes one cell of the table, in the order of the loops over tests and
runs: `Compare` is the body of that loop, on the record of `prev_val`, `overall_trend`
and the cells of a row, with the shell's truncating division.

### Seal

| Action | Code |
|---|---|
| `ListForCount`, `Hash`, `FindNothing` | the first pass of `hash_evidence`, for the count |
| `Truncate`, `WriteHeading` | the manifest is opened, its heading |
| `Hash`, `Flush`, `Finish` | the second pass, whose lines reach the disk in blocks |
| `Kill` | the seal is killed |
| `Verify`, `Compare`, `Report` | `sha256sum -c` on the lines of the manifest |
| `Change` | someone writes, rewrites or removes a file, at any time |

A hash is the content. `last`, `held`, `since` and `alone` are history variables: how
the last seal ended, what each file held while it wrote, what changed since it
opened the manifest, and whether a verification ran alone.

### OssecConf, Dashboard and Host

`ossec.conf` is a sequence of blocks, each whole or cut off above or below its
marker. A caller merges its blocks one by one: it looks for the marker (`Skip`,
`Insert`), reads the file (`Read`), truncates it (`Open`), writes it back with the
block, in one piece or two (`WritePart`, `WriteRest`), and restarts the service when
it has merged all (`RestartService`). `Call` and `KillCaller` begin and end it. The
service starts with well-formed blocks only.

A run of `harden-dashboard.sh` resets the firewall (`Reset`), sets its rules one by
one (`Allow`, or `AllowFails` if ufw refuses one, which nobody looks at), switches it
on (`Enable`), removes the key of an earlier version (`StripLegacy`, `RestartStripped`), looks for the timeout (`AlreadyConfigured`,
`NotConfigured`), keeps a backup (`BackUp`), appends (`AppendTimeout`), restarts
(`RestartAppended`), checks (`CheckUp`) and, if the dashboard is down, restores and
restarts (`RevertTimeout`, `RestartReverted`). `Harden` and `KillRun` begin and end
it. Whether the dashboard takes the key, and whether it fails only after the five
seconds the script waits, is open (`accepts`, `slow`).

`Host` composes the two: either takes a step, and neither touches the files of the
other. `mixed`, `cut`, `together` and `loose` are history variables that
the properties use to except overlapping runs and kills at unsafe points.

## Runs

| Run | Distinct states | What is in it |
|---|---|---|
| `grouping` | 8,786 | batches of up to four alerts: chains beyond the window, ties, alerts without time or source, copies of an identifier |
| `overlap` | 57,673 | two invocations of correlate at once, one kill |
| `rerun` | 361,192 | three invocations of correlate after one another, one kill |
| `tests` | 1,186,140 | two tests of one rule, late alerts, a manager that may not answer |
| `reports` | 151,008 | two runs of the report generator over evidence that is cut, growing or whole, one kill |
| `queries` | 1,558,534 | a hunt, or two fetches, over a log that grows |
| `trends` | 66,981 | up to four result files, the newest growing |
| `seal` | 2,328,145 | seals and verifications over three files that change twice, one kill |
| `host` | 2,650,655 | merges and hardening, repeated, overlapping, killed, with rules that ufw refuses |

`grouping`: four alerts are the smallest number with a chain, a tie and an
outsider, and give trees deep enough for `find` to halve.

`overlap` has different models and modes, with and without `--force`, on batches
that share groups and whose keys would collide if they were made of one
identifier. With two runs every pair of writers and every reader-writer pair of a
file occurs. A limit of one request makes a second group skip. `rerun` has dry
runs, forced runs, runs without credentials, without a client, without alerts.
Three runs are needed for one that pays, one that is killed while it repairs and
one that reads. Invocations are interchangeable there, so the run uses symmetry.
Both bound the invocations (`Runs`), those running at once (`MaxActive`) and the
kills (`MaxCrashes`).

`tests` has port scan and ping flood, which watch the same rule, on a host whose
clock is behind: late alerts of the first meet the second. The first timeout
leaves room for several probes, the second for one or none. A tail one line
shorter than the log makes a match scroll away. The log (`MaxAlerts`) and the
length of a step (`Lag`) are bounded.

`reports` has four scenes (`Scenes`, who takes part and what evidence there is):
two gemini runs, or a gemini and a mock run, on files that killed programs left
short; one run while a measurement and a correlation are written, from nothing or
over older files; two runs with a correlation between them. Narratives come
whole, `null` or misshapen. A behaviour lasts two seconds (`MaxClock`), so that names
collide and differ; two producers of one kind do not start in one second.
Two runs are the fewest that share a cache file, a page or a name; producers cut
their files at one inner place each.

`queries` bounds the time, the log, broken connections (`MaxClock`, `MaxLog`,
`MaxDrops`) and reads a tail of two lines, so that a log of three scrolls; a
timeline of one row lets the table be longer than what is shown. Alerts are late
by up to one second.

`trends` takes every history of at most one older file with a newest file of any
length, in which a test may occur twice, and every history of up to four files
of one row: four are needed for a detection, a miss, another detection and a
change back. Latencies are chosen on both sides of the limits of the verdict,
with zero, misses and error rows.

`seal` has three files with two contents. Two changes are enough to replace a
file between the passes and another one behind the hash; seals do not overlap.

`host` has three hardening runs, three of the same merge, two of a merge of two
blocks, and a pair of both scripts (`Casts`), with one kill of each kind
(`MaxConfKills`, `MaxDashKills`): one run to be killed, one to repair and one to
meet the result. A file is cut at one
place while it is written, and where two writers overlap at most one block of the
other's file follows what the last one wrote.

Deadlock is not checked: invocations, measurements and scripts really end.

Three runs show where the program does not do what a line of the repository says of
it. Each checks one property and finds it violated; `PROJECT.json` quotes the line.

| Run | Property | What happens |
|---|---|---|
| `positional` | `ResultsMatchIncidents` | positional identifiers collide in the cache |
| `stale` | `NoStaleCredit` | an alert of an earlier test, in the second of T0, is credited |
| `misses` | `MissesAreShown` | tests that were not detected are missing from the HTML page |

Twelve more configurations do the same, one property each, with the constants of the
passing run of their module (`misspelt` has the settings of `rerun`, one invocation
after another, and `pair` has three whole files of two tests). They are not among the
runs of `PROJECT.json`, which asks one question of each kind; `tlc -config
MCTrend_pair.cfg MCTrend` shows the trace.

| Configuration | Property | What a line says | What happens |
|---|---|---|---|
| `MCCorrelate_misspelt` | `NoCallUnlessAsked` | `config.py:44` "never call the real API unless explicitly asked" | a misspelt mode reaches the network |
| `MCReportGen_unlabelled` | `FallbackIsLabelled` | `docs/ai-html-report.md:80` "a clearly labeled placeholder" | after an answer `null` the page shows the fallback text without a note |
| `MCReportGen_blocked` | `NeverBlocked` | `docs/ai-html-report.md:83` "never blocked on Gemini" | an answer of another shape stops the renderer |
| `MCReportGen_ceiling` | `LimitIsKept` | `nisec_report/pipeline.py:63` "never silently exceed the ceiling" | with a limit of zero the request goes out |
| `MCTrend_threshold` | `RegressionAboveAFifth` | `compare-runs.sh:13` ">20% slower than the previous run" | a regression of 20.7 % is called stable |
| `MCTrend_preceding` | `ComparedWithPrecedingRun` | `compare-runs.sh:261` "vs the immediately preceding run" | a run is compared with one before the preceding run |
| `MCTrend_pair` | `TrendIsOfLastPair` | `compare-runs.sh:262` "the most recent pair of runs only" | a trend depends on runs before the last pair |
| `MCTrend_zero` | `MissesWereNotDetected` | `compare-runs.sh:146` "not detected within timeout" | a detection with latency 0 is shown as a miss |
| `MCHost_unverified` | `ConfiguredIsVerified` | `harden-dashboard.sh:88` "Verify rather than assume" | a timeout that was never checked is taken for configured, the dashboard down |
| `MCHost_refused` | `EveryRuleIsThere` | `harden-dashboard.sh:6` "rather than locking you out" | the firewall is enabled without a rule that ufw refused |
| `MCHost_truncated` | `AppendKeepsTheRest` | `_ossec-merge.sh:2` "append" | a kill while `ossec.conf` is written loses what was in it |
| `MCHost_twice` | `SnippetsAreThereOnce` | `_ossec-merge.sh:2` "once" | two callers that overlap insert a snippet twice |

### Other divergences

Met while modelling, visible in the models, and not given a configuration of their own:

- `docs/ai-correlation.md:70` promises at most the configured number of
  requests; a retry is one more (`RequestCeiling` says two per call).
- The mode "dry-run" of the HTML report, which `nisec_report/config.py:22` names, sends
  a request and counts none (`nisec_report/pipeline.py:61`).
- A redelivered single alert is sent on its own (`pipeline.py:7`, `:58`).
- A kill between truncating and filling a cache file makes a later run pay again
  (`docs/ai-correlation.md:82`).
- A dry run ignores `--force`, the limit and the mode (`correlate.py:6`).
- An alert in the last sleep of a test is missed (`measure-detection.sh:88`, `:239`).
- Alerts of the lab's own sensor rules count as host alerts on the page
  (`evidence_parser.py:53`, `local_rules.xml:42`).
- Chains of several incidents are merged into one, and stages of more than one
  word dropped, where `evidence_parser.py:131` says "verbatim". A dry-run or
  empty correlation report masks the last chain.
- "One Gemini call, ever" does not count the retry.
- A page with a cached narrative says it is unavailable and names this run's model.
- An unknown name among the tests of a measurement ends the script where it comes,
  and the results of the tests before it are not written (`measure-detection.sh:197`).
- A block of `ossec.conf` that was cut off below its marker is never repaired.
- A seal whose files are all removed between its passes leaves a heading without
  lines, which verifies as MISMATCH. The shorter manifest of a killed seal
  verifies as OK; only its count tells.

## Fairness

`Grouping` has weak fairness of `Next`: the call is a single thread that waits
for nothing. `Correlate` and `ReportGen` have weak fairness of `Step(r)` for every
run: a started process is scheduled, and a request ends, with an answer or by
its timeout (`timeout_seconds` is given to the client). Invocations need not start,
kills need not happen, and producers of evidence need not finish. Which answer
comes is not fair in any way: a model may fail for ever, and `EveryRunEnds` and
`EveryReportEnds` hold because the attempts are counted. `Measure` has weak
fairness of the script, of time and of the end of an attack: `run_test` waits for
the attack without a limit, so a row comes only if the attack ends. `GroupingSpec`
promises an answer outright, without a fairness of its own. The other modules state
no fairness and no liveness property.

## Proofs

`GroupingProofs` shows, for any batches and any window, that types hold
(`GroupingTypeCorrect`), the links of the union-find never form a cycle
(`UnionFindIsForest`), the groups are the connected components
(`GroupsAreCorrect`), and the alerts of a group share their source
(`SourcesStayApart`, if copies of an alert do). The invariant names a witness,
the root of every identifier, and each action says how it moves. Closed sets
measure that nothing too much is joined, the fibres of the witness that nothing
is missed. No induction over paths is needed. `Forest` alone is not inductive: a
union keeps it only because what it links are roots.

The same module has the refinement (`CallImplementsGrouping`): each step of the call
is a stutter of `GroupingSpec` or its one answer, groups in the order it names and each
in the order of time. `GroupingSpec` names an order by places, the code by what its
loops append, and so the invariant says what is collected at every position of the
last loop (`Filing`): the groups of the first alerts found so far, each with the alerts
found so far. It rests on two lemmas: a batch has one order by time, since ties are
left as they are (`OneOrder`), and an alert that is filed takes the next rank in its
group, as a group does in the list (`NthGrows`).

`CorrelateProofs` shows, for any number of invocations overlapping and killed in
any way, any settings and any integer limits, that types hold
(`CorrelateTypeCorrect`), a run sends at most two requests per call of its budget
(`RequestsAreBounded`), a result shown in a report cites only the incident's own
alerts (`CitationsAreOwn`), it is labelled with what produced it
(`LabelsAreRight`), and where identifiers are stable it was made from the
incident's own alerts (`ResultsAreNotStale`). A result travels from an answer to
a file, to other runs and into their reports; the invariant states the same fact
at each stage. The key carries it from run to run: its domain is the set of
identifiers of every group it stands for. The budget needs the requests in flight
(`Pending`), because a request is counted only when its call returns. The premise
of `ResultsAreNotStale` cannot be dropped, as the run `positional` shows.

The same module has the accounts. For any overlap, the summary of a finished run
accounts for its incidents (`SummariesAccount`): the invariant (`AccountInv`) says it
of the unfinished run, where a call is counted before its incident is there. For
invocations after one another (`MaxActive = 1`), an analysis costs no more than once,
plus kills and runs with `--force` (`KillsCostOneAnalysis`). That is not inductive: the
file of a key may be there, torn, or on its way. The invariant (`CostInv`) is an
account for each key, of the analysis that is there or on its way on one side and the
analyses that forced runs still owe on the other; a kill may take the former away.
A dry run announces what a real run would send for (`DryRunsForecast`), because
no file changes while it looks (`ForecastInv`). What `Work` computes for a batch is
never looked into, since the prover does not expand filters of sequences. Where a
theorem needs that incidents are a sequence (`IncidentsAreListed`) or that no two of a
batch have one key (`KeysDiffer`), that is its hypothesis, and TLC evaluates both for
the batches of the runs. The second is true as long as the limit of events for a
request leaves each incident one, because two groups of a batch have no identifier in common.

`MeasureProofs` shows, for any tests, timeouts, skew and log, that types hold
(`MeasureTypeCorrect`), a row credits the first matching alert since its T0 that
has not scrolled away (`FirstAlertIsCredited`), and, where the manager answers, a
test that was not detected lost only alerts of its last sleep and the step after
it (`OnlyTheEndIsMissed`). The row does not tell when the last probe was. The
invariant therefore bounds the unseen alerts by `due` while the loop goes on, and
by the deadline once it has ended; before the first probe they are bounded by
the start of the test.

`ReportGenProofs` shows, for any runs, evidence, producers, models, clock and
kills: a page shows no narrative about other facts (`NarrativesFitTheirPages`), a
fallback without a note, or in the cache, is there only because the API has answered
`null` to these very facts (`OnlyNullAnswersGoUnlabelled`), requests are
bounded (`ReportRequestsAreBounded`), only a page with a cached narrative may name
another model than its author (`OnlyCachedPagesMisname`), an announced page is the
run's own unless names collide (`AnnouncedPagesAreOwn`), and the generator
implements `ReportSpec` (`ReportsKeepTheirPromise`). The invariant follows a
narrative from the answer to the cache file, to the runs that read it and into
the pages: at each stage it is one that was written, and about the facts it lies
next to, or the fallback that stands for a `null` about these facts. A cache file is
tied to its narrative by its key, which is the context; a page that is being written
by its `stamp`. What a run reports to have called (`Billed`) needs that one which sent
a request has nothing from the cache. `AnnouncedPageIsOwn` needs, beyond
that, that a page among the clashed has two runs that opened it (`ClashInv`).
For these, what the parsers compute does not matter.
For `FactsComeFromTheFiles` it does: the facts of a run are the first ones of the very
files it listed, and no count exceeds theirs. A file that is read while it is written
is a prefix, and each parser is shown to be monotone in prefixes: a section of a prefix
is a prefix of the section, unless its heading was cut off too (`FactsOfStarts`). The
invariant (`ReadInv`) says that what a run has seen of a kind is the beginning of the
file it listed, and that its facts are part of the facts of those files.

`HostProofs` shows, for any number of runs, rules and kills, that a firewall that
filters has every rule that ufw did not refuse (`NobodyIsLockedOut`), the timeout is set once
(`TimeoutIsSetOnce`), and the dashboard is up when a run has ended by itself
(`DashboardEndsUp`). None of these is inductive: what the firewall, the
configuration and the backup hold depends on where the active run is, and the
invariant (`DashInv`) says it place by place, for one active run at a time. That a
killed run leaves the host in a state the next one can start from is the case of
`KillRun`. If it was between a change and its check, nothing is said of the dashboard
until a later run has restarted it and got to a check of its own: what that run finds
there does not depend on what was before (`Checked`). Steps on `ossec.conf` change nothing of it.

The same module shows, for any callers, blocks, repetitions and kills: no block comes to
be in `ossec.conf` twice unless callers overlap (`BlocksAreMergedOnce`), the file has
exactly the merged blocks whenever nobody writes it (`MergesLoseNothing`), and the
service runs with what was announced (`AnnouncedIsLoaded`), the last two unless a
caller is killed with the file open. While a caller writes, the file is a piece of
itself, so `MergedBlocksStay` says nothing of it; the invariant (`ConfInv`) says that
the caller then holds the complete file. A complete file has whole blocks only, so
that the markers that are looked for tell which blocks are there. `NoBlockTwice`
needs the same of what is held, and that a caller between its test and its write
found no marker.

`SealProofs` shows, for any files, contents, changes and kills, that a verification
that runs alone is right when it says OK (`OkMeansUnchanged`) and when it says
MISMATCH (`MismatchMeansChanged`). The invariant (`SealInv`) says of the lines that
are hashed that each is of a content the file had since the manifest was opened,
that every file that was never missing is among them or still on the list, and
that what is flushed are lines that were hashed. A seal that finishes hands these facts
over to the manifest; a kill does not, and the manifest it leaves is one of which the
properties say nothing.

`IntakeProofs` shows, for any window, tail, lag, number of readers and of broken
connections, that the total and the table of a hunt differ only as `HuntTableMatchesTotal`
says (`TotalAndTableAgree`) and that nothing falls between two fetches
(`NothingBetweenFetches`). Because the log only grows, an answer stays what the query
would select if it were asked of the log of that length again; the invariant
(`IntakeInv`) says this of every answer there is, and that whatever came
into the log later is at most `MaxLag` older than the query.

The same module proves `PageCountsTheTable` (`PageShowsTheHunt`): the page of the HTML
report shows the total, as many alerts as the table has, and its first and last times.
The number on the page is a sum over rules of frequencies that are read back from
lines below one heading, of rules that a hunt lists from a table that was sorted, of
entries at the places that a query selected. Each of these has its lemma: places are
numbered from one on, none twice (`RankCovers`, `PickCovers`); sorting keeps the rows
and puts the oldest first (`BeforeCovers`, `SortedRows`); the rules are listed once and
their frequencies add up to the rows (`RulesListed`, `SumCounts`, `SumsAddUp`); where
the headings of the report are and which rows the parser finds below each
(`HuntShape`, `SectionPlaces`, `HuntSections`). A sum is handled by a bijection with
the set of rows, so that none of it is an induction. The invariant (`Reports`) ties the
report to the second query: the log may grow after it, and does not change what was
listed.

`TrendProofs` shows, for any histories and tests, that the table is right where text and
loop of the script agree (`TableIsRight`): every miss is a miss, the verdict on a
detection that follows a detection is that of their latencies within a percent, however
long the history before them, and the trend is the verdict on the last such pair. Where
they disagree, after a miss and between 20 and 21 percent, nothing is said; the
configurations `threshold`, `preceding` and `pair` show the code there. A detection is
shown with the rule of the row its latency was read from (`DetectionsNameTheirRules`), and the script agrees with the HTML
report about a test measured once (`ReadersReadTheSame`). The invariant says
of each read that lies behind the loops what it saw: a latency is that of the
first row of its test, which stays the first one while the file grows, and the rule
read after it is from the same row; a miss still holds of every file but the newest.
Of a row of the table that is being written it says that `prev` is the latency of the
last detection among its cells. The percentages are integer arithmetic: truncation
makes "more than 20 %" begin at 21 %, for every latency.

The assumptions are the ones the modules name: a step of the script is no longer
than its sleep or than every timeout (`LagAssumption`), `Window` and the limits
are integers, negative ones too, settings are records of the right shape, `"mock"` is not the name
of a model, `None` is neither a model, nor settings, nor a configuration file,
files that are sealed are numbered in the order of their names
(`NamesAssumption`), and evidence is such as its writers produce
(`IsWritten`, `RowsAreMeasured`, `IsEvidence`; see Evidence).

Every safety invariant that a passing run checks is thereby a theorem. Checked by TLC
only is what the prover cannot do, liveness under fairness: `EveryRunEnds`,
`EveryTestIsReported`, `EveryReportEnds`, and that `group_candidates` answers at all, the
part of `ComputesCandidateGroups` that `CallImplementsGrouping` leaves open.

## Not modelled

The prompt, the text of answers, processing times, the layout of reports and
pages, charts and escaping. The baseline and the sensor's drop counters of a
measurement, which only observe. The banner, severity summary and advice of a
hunt, and the steps of `harden-dashboard.sh` that print advice: nothing reads
them. A ufw that fails to reset or to enable, and a name of a test that is unknown.
The parsing of integers from the environment. Every alert is assumed to have
a rule, and time stamps to be in UTC, as the manager writes them (`jq` ignores an
offset). A file that two writers had open at once either parses as one of their
records or does not parse.

`score-signatures.sh` counts the alerts of a capture replay, divides and prints.
Retention is one document sent to the indexer, whose state machine is not part of
the repository. Health check, capture, attacks, provisioning (but for its merges
into `ossec.conf`), Docker files and entry points call external tools and keep no
state. `nisec-correlate-feature/` and `nisec-report-feature/` are older copies of
the two packages. Each is listed with its reason in `PROJECT.json`.

## What is left

The runs and configurations that end in a violation, and the divergences listed above,
are questions to the code. Of the model, the prompt and the two retries' waiting times
could be added to `Correlate` and `ReportGen` if a property came to depend on them.
Two hazards of `PROJECT.json` have no property, because the code does nothing against
them: an attack that never ends, and callers of the merge that overlap. For eight
more a property says what holds and a configuration shows what does not; their notes
name both.
