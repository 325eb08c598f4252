-------------------------- MODULE CorrelateProofs ---------------------------
(***************************************************************************)
(* Proofs about Correlate, for any batches, settings, answers and kills.   *)
(*                                                                         *)
(* For any number of overlapping invocations: types, the ceiling on        *)
(* requests, and that a result is shown only where its citations and its   *)
(* label are right.  A result travels from an answer to a file, from the   *)
(* file to other runs and from there into reports, and the invariant       *)
(* states the same fact at each stage: RunOK for a pending answer and for  *)
(* the incidents of a report, FileOK for a file.  The key is what carries  *)
(* the fact across runs: its domain is the set of identifiers of every     *)
(* group it stands for.                                                    *)
(*                                                                         *)
(* Likewise for any overlap: the summary accounts for the incidents        *)
(* (AccountInv).  For invocations after one another: what analyses cost    *)
(* (CostInv), and what a dry run announces (ForecastInv).                  *)
(*                                                                         *)
(* What Work computes is never looked into.  Where a proof needs that      *)
(* incidents are a sequence, or have keys of their own, the theorem says   *)
(* so.                                                                     *)
(***************************************************************************)
EXTENDS Correlate, FiniteSetTheorems, TLAPS

Working == {"analyse", "waiting", "backoff", "retrying", "store", "writing"}

IncidentType ==
  [events : WorkItems,
   status : {"dry_run", "cached", "ok", "skipped_limit_reached",
             "unavailable", "validation_failed", "error"},
   model  : Models \cup {Mock, None},
   result : Result \cup {None}]

-----------------------------------------------------------------------------
(* The inductive invariant.                                                *)

\* A started run has settings; inside the loop body it is at an incident
\* and is no dry run; only a run that is not in mock mode asks a model.
Placed(r) ==
  /\ IF pc[r] = "idle" THEN incidents[r] = <<>> ELSE inv[r] \in Invocation
  /\ pc[r] \in Working => at[r] \in DOMAIN Todo(r) /\ ~inv[r].dryRun
  /\ pc[r] \in {"waiting", "backoff", "retrying"} => inv[r].mode # "mock"

\* The label the answer of this run will be stored under.
Producer(r) == IF inv[r].mode = "mock" THEN Mock ELSE inv[r].model

\* An answer about to be stored is the run's own and cites its alerts.
AnswerOK(r) ==
  pc[r] \in {"store", "writing"} =>
    /\ answer[r] \in Result
    /\ answer[r].by = Producer(r)
    /\ answer[r].refs \subseteq IdsOf(Current(r))
    /\ answer[r].about = Range(Current(r))

\* Identifiers are stable: none stands for two different alerts.
IdsAreStable ==
  \A e, f \in WorkItems : \A k \in DOMAIN e, l \in DOMAIN f :
    e[k].id = f[l].id => e[k] = f[l]

\* What the report shows so far.
IncidentOK(r, inc) ==
  inc.result # None =>
    /\ inc.result.refs \subseteq IdsOf(inc.events)
    /\ IdsAreStable => inc.result.about = Range(inc.events)
    /\ inv[r].mode # "other" => inc.result.by = inc.model

ReportOK(r) == \A k \in DOMAIN incidents[r] : IncidentOK(r, incidents[r][k])

\* Requests in flight for a call that is not counted yet.
Pending(r) == IF pc[r] \in {"waiting", "backoff"} THEN 1
              ELSE IF pc[r] = "retrying" THEN 2 ELSE 0

Budget(r) ==
  /\ pc[r] = "idle" => sent[r] = 0
  /\ pc[r] # "idle" /\ inv[r].dryRun => sent[r] = 0
  /\ sent[r] > 0 => inv[r].mode # "mock"
  /\ pc[r] \in {"waiting", "backoff", "retrying"} => newCalls[r] < MaxRequests
  /\ sent[r] > 0 => newCalls[r] <= MaxRequests /\ sent[r] <= 2 * MaxRequests
  /\ sent[r] > 0 /\ pc[r] # "crashed" => sent[r] <= 2 * newCalls[r] + Pending(r)
  /\ sent[r] = 0 => pc[r] \notin {"waiting", "backoff", "retrying"}

RunOK(r) == Placed(r) /\ AnswerOK(r) /\ ReportOK(r) /\ Budget(r)

FileOK(k) ==
  cache[k].status = "whole" =>
    /\ cache[k].result.refs \subseteq DOMAIN k
    /\ cache[k].result.by = cache[k].model
    /\ IdsAreStable => \A events \in WorkItems :
         GroupFingerprint(events) = k => cache[k].result.about = Range(events)

IInv ==
  /\ TypeOK
  /\ \A r \in Runs : RunOK(r)
  /\ \A k \in Keys : FileOK(k)

-----------------------------------------------------------------------------
(* Facts about what a run has to do.                                       *)

Statuses == {"dry_run", "cached", "ok", "skipped_limit_reached",
             "unavailable", "validation_failed", "error"}

\* Every incident of a batch is a work item, its key is one of the keys, and
\* the key names its identifiers.
LEMMA WorkItemFacts ==
  ASSUME NEW batch \in Batches, NEW k \in DOMAIN Work[batch]
  PROVE  /\ Work[batch][k] \in WorkItems
         /\ GroupFingerprint(Work[batch][k]) \in Keys
         /\ DOMAIN GroupFingerprint(Work[batch][k]) = IdsOf(Work[batch][k])
  <1>1. Work[batch][k] \in WorkItems  BY DEF WorkItems
  <1> QED  BY <1>1 DEF Keys, GroupFingerprint

\* A run at an incident.
LEMMA CurrentFacts ==
  ASSUME NEW r \in Runs, inv[r] \in Invocation, at[r] \in DOMAIN Todo(r)
  PROVE  /\ Current(r) \in WorkItems
         /\ Key(r) \in Keys
         /\ DOMAIN Key(r) = IdsOf(Current(r))
         /\ IdsOf(Current(r)) \subseteq UNION {IdsOf(events) : events \in WorkItems}
  <1>1. inv[r].batch \in Batches  BY DEF Invocation
  <1>2. Current(r) \in WorkItems /\ Key(r) \in Keys /\ DOMAIN Key(r) = IdsOf(Current(r))
    BY <1>1, WorkItemFacts DEF Current, Key, Todo
  <1> QED  BY <1>2

\* The identifiers a mock analysis cites are the group's.
LEMMA MockRefsOwn == ASSUME NEW events PROVE MockRefs(events) \subseteq IdsOf(events)
  BY DEF MockRefs, Cited, IdsOf

\* A group with the key of another is that other, when identifiers are stable.
LEMMA SameKeySameAlerts ==
  ASSUME IdsAreStable, NEW e \in WorkItems, NEW f \in WorkItems,
         GroupFingerprint(e) = GroupFingerprint(f)
  PROVE  Range(e) = Range(f)
  <1>1. IdsOf(e) = IdsOf(f)
    <2>1. DOMAIN GroupFingerprint(e) = IdsOf(e)  BY DEF GroupFingerprint
    <2>2. DOMAIN GroupFingerprint(f) = IdsOf(f)  BY DEF GroupFingerprint
    <2> QED  BY <2>1, <2>2
  <1>2. \A k \in DOMAIN e : \E l \in DOMAIN f : e[k] = f[l]
    <2> SUFFICES ASSUME NEW k \in DOMAIN e PROVE \E l \in DOMAIN f : e[k] = f[l]
      OBVIOUS
    <2>1. e[k].id \in IdsOf(f)  BY <1>1 DEF IdsOf
    <2>2. PICK l \in DOMAIN f : f[l].id = e[k].id  BY <2>1 DEF IdsOf
    <2> QED  BY <2>2 DEF IdsAreStable
  <1>3. \A l \in DOMAIN f : \E k \in DOMAIN e : e[k] = f[l]
    <2> SUFFICES ASSUME NEW l \in DOMAIN f PROVE \E k \in DOMAIN e : e[k] = f[l]
      OBVIOUS
    <2>1. f[l].id \in IdsOf(e)  BY <1>1 DEF IdsOf
    <2>2. PICK k \in DOMAIN e : e[k].id = f[l].id  BY <2>1 DEF IdsOf
    <2> QED  BY <2>2 DEF IdsAreStable
  <1> QED  BY <1>2, <1>3 DEF Range

\* An analysis by a known producer is a result.
LEMMA AnalysisIsResult ==
  ASSUME NEW events \in WorkItems, NEW by \in Models \cup {Mock},
         NEW refs, refs \subseteq IdsOf(events)
  PROVE  /\ Analysis(by, events, refs) \in Result
         /\ Analysis(by, events, refs).by = by
         /\ Analysis(by, events, refs).about = Range(events)
         /\ Analysis(by, events, refs).refs = refs
  <1>1. refs \in SUBSET UNION {IdsOf(e) : e \in WorkItems}  OBVIOUS
  <1>2. Range(events) \in {Range(e) : e \in WorkItems}  OBVIOUS
  <1> QED  BY <1>1, <1>2 DEF Analysis, Result

-----------------------------------------------------------------------------
(* Frames.                                                                 *)

\* What the invariant says of a run is about that run's variables only.
LEMMA RunFrame ==
  ASSUME NEW r \in Runs, RunOK(r),
         inv'[r] = inv[r], pc'[r] = pc[r], at'[r] = at[r], answer'[r] = answer[r],
         incidents'[r] = incidents[r], newCalls'[r] = newCalls[r], sent'[r] = sent[r]
  PROVE  RunOK(r)'
  <1>1. Current(r)' = Current(r) /\ Todo(r)' = Todo(r)  BY DEF Current, Todo
  <1>2. Placed(r)'  BY <1>1 DEF RunOK, Placed
  <1>3. AnswerOK(r)'  BY <1>1 DEF RunOK, AnswerOK, Producer
  <1>4. ReportOK(r)'  BY DEF RunOK, ReportOK, IncidentOK
  <1>5. Budget(r)'  BY DEF RunOK, Budget, Pending
  <1> QED  BY <1>2, <1>3, <1>4, <1>5 DEF RunOK

\* A file that is not touched stays as good as it was.
LEMMA FileFrame ==
  ASSUME NEW k \in Keys, FileOK(k), cache'[k] = cache[k]
  PROVE  FileOK(k)'
  BY DEF FileOK

\* Appending an incident: the types, the other runs, and the report.
LEMMA Concluding ==
  ASSUME TypeOK, NEW r \in Runs, Current(r) \in WorkItems, ReportOK(r), inv' = inv,
         NEW status \in Statuses, NEW model \in Models \cup {Mock, None},
         NEW result \in Result \cup {None},
         Conclude(r, status, model, result),
         IncidentOK(r, Incident(Current(r), status, model, result))
  PROVE  /\ incidents' \in [Runs -> Seq(IncidentType)]
         /\ at' \in [Runs -> Nat \ {0}]
         /\ pc' = [pc EXCEPT ![r] = "next"]
         /\ pc'[r] = "next"
         /\ \A q \in Runs \ {r} : /\ incidents'[q] = incidents[q]
                                 /\ at'[q] = at[q] /\ pc'[q] = pc[q]
         /\ ReportOK(r)'
  <1> DEFINE inc == Incident(Current(r), status, model, result)
  <1>1. inc \in IncidentType  BY DEF Incident, IncidentType, Statuses
  <1>2. incidents \in [Runs -> Seq(IncidentType)]  BY DEF TypeOK, IncidentType
  <1>3. incidents' = [incidents EXCEPT ![r] = Append(incidents[r], inc)]
    BY DEF Conclude
  <1> HIDE DEF inc
  <1>4. incidents' \in [Runs -> Seq(IncidentType)]  BY <1>1, <1>2, <1>3
  <1>5. at' \in [Runs -> Nat \ {0}]  BY DEF TypeOK, Conclude
  <1>6. pc' = [pc EXCEPT ![r] = "next"] /\ pc'[r] = "next"  BY DEF TypeOK, Conclude
  <1>7. \A q \in Runs \ {r} : /\ incidents'[q] = incidents[q]
                           /\ at'[q] = at[q] /\ pc'[q] = pc[q]
    BY DEF TypeOK, Conclude
  <1>8. ReportOK(r)'
    <2>1. incidents'[r] = Append(incidents[r], inc)  BY <1>2, <1>3
    <2>2. incidents[r] \in Seq(IncidentType)  BY <1>2
    <2>3. \A k \in DOMAIN incidents'[r] :
            \/ k \in DOMAIN incidents[r] /\ incidents'[r][k] = incidents[r][k]
            \/ incidents'[r][k] = inc
      BY <2>1, <2>2, <1>1
    <2>4. IncidentOK(r, inc)  BY DEF inc
    <2>5. \A x : IncidentOK(r, x) => IncidentOK(r, x)'  BY DEF IncidentOK
    <2> QED  BY <2>3, <2>4, <2>5 DEF ReportOK, IncidentOK
  <1> QED  BY <1>4, <1>5, <1>6, <1>7, <1>8

-----------------------------------------------------------------------------
(* The initial states, and one lemma per kind of step.                     *)

\* Initially no run has settings and every file is missing.
LEMMA InitIInv == Init => IInv
  <1> SUFFICES ASSUME Init PROVE IInv  OBVIOUS
  <1>1. TypeOK
    <2>1. incidents \in [Runs -> Seq(IncidentType)]  BY DEF Init
    <2>2. cache \in [Keys -> CacheFile]  BY DEF Init, CacheFile, Unreadable
    <2> QED  BY <2>1, <2>2 DEF Init, TypeOK, IncidentType, Ended
  <1>2. ASSUME NEW r \in Runs PROVE RunOK(r)
    <2>1. inv[r] = None /\ pc[r] = "idle" /\ incidents[r] = <<>> /\ sent[r] = 0
      BY DEF Init
    <2> QED  BY <2>1 DEF RunOK, Placed, Working, AnswerOK, ReportOK, Budget
  <1>3. ASSUME NEW k \in Keys PROVE FileOK(k)
    BY DEF Init, FileOK, Unreadable
  <1> QED  BY <1>1, <1>2, <1>3 DEF IInv

\* A run starts.
LEMMA InvokeStep ==
  ASSUME IInv, NEW r \in Runs, Invoke(r)
  PROVE  IInv'
  <1> USE DEF Invoke, summary, disk, history
  <1>1. PICK c \in Invocations :
          /\ inv' = [inv EXCEPT ![r] =
                       [c EXCEPT !.dryRun = @ \/ (c.mode = "gemini" /\ c.creds = "none")]]
          /\ pc' = [pc EXCEPT ![r] = IF c.batch = <<>> THEN "quit" ELSE "next"]
    OBVIOUS
  <1>2. inv'[r] \in Invocation
    <2>1. c \in Invocation  BY InvocationsAssumption
    <2>2. inv'[r] = [c EXCEPT !.dryRun = @ \/ (c.mode = "gemini" /\ c.creds = "none")]
      BY <1>1 DEF IInv, TypeOK
    <2> QED  BY <2>1, <2>2 DEF Invocation
  <1>3. TypeOK'
    <2>1. inv' \in [Runs -> Invocation \cup {None}]  BY <1>1, <1>2 DEF IInv, TypeOK
    <2>2. pc' \in [Runs -> Ended \cup {"idle", "next", "analyse", "waiting", "backoff",
                                      "retrying", "store", "writing"}]
      BY <1>1 DEF IInv, TypeOK, Ended
    <2> QED  BY <2>1, <2>2 DEF IInv, TypeOK
  <1>4. ASSUME NEW q \in Runs, q # r PROVE RunOK(q)'
    BY <1>1, <1>4, RunFrame DEF IInv, TypeOK
  <1>5. RunOK(r)'
    <2>1. pc'[r] \in {"quit", "next"}  BY <1>1 DEF IInv, TypeOK
    <2>2. Placed(r)'  BY <1>2, <2>1 DEF Placed, Working
    <2>3. AnswerOK(r)'  BY <2>1 DEF AnswerOK
    <2>4. sent'[r] = 0 /\ incidents'[r] = <<>>  BY DEF IInv, RunOK, Budget, Placed
    <2>5. ReportOK(r)'  BY <2>4 DEF ReportOK
    <2>6. Budget(r)'  BY <2>1, <2>4 DEF Budget
    <2> QED  BY <2>2, <2>3, <2>5, <2>6 DEF RunOK
  <1>6. ASSUME NEW k \in Keys PROVE FileOK(k)'  BY FileFrame DEF IInv
  <1> QED  BY <1>3, <1>4, <1>5, <1>6 DEF IInv

\* A step that ends the work on an incident without a result: the dry-run
\* look, the limit, an unavailable client, a rejected or a failed answer.
LEMMA ConcludingWithoutResult ==
  ASSUME IInv, NEW r \in Runs, NEW status \in Statuses,
         NEW model \in Models \cup {Mock, None},
         pc[r] # "idle", pc[r] # "crashed", at[r] \in DOMAIN Todo(r),
         Conclude(r, status, model, None),
         cached' \in [Runs -> Nat], limited' \in [Runs -> BOOLEAN],
         newCalls' \in [Runs -> Nat], \A q \in Runs \ {r} : newCalls'[q] = newCalls[q],
         IF pc[r] \in {"waiting", "backoff", "retrying"}
           THEN newCalls'[r] = newCalls[r] + 1
           ELSE \/ newCalls'[r] = newCalls[r]
                \/ /\ newCalls'[r] = newCalls[r] + 1
                   /\ inv[r].dryRun \/ newCalls[r] < MaxRequests,
         UNCHANGED <<inv, answer, disk, history>>
  PROVE  IInv'
  <1> USE DEF disk, history
  <1>1. inv[r] \in Invocation  BY DEF IInv, RunOK, Placed
  <1>2. Current(r) \in WorkItems  BY <1>1, CurrentFacts
  <1>3. IncidentOK(r, Incident(Current(r), status, model, None))
    BY DEF IncidentOK, Incident
  <1>4. ReportOK(r) /\ Budget(r)  BY DEF IInv, RunOK
  <1>5. /\ incidents' \in [Runs -> Seq(IncidentType)]
        /\ at' \in [Runs -> Nat \ {0}]
        /\ pc' = [pc EXCEPT ![r] = "next"]
        /\ pc'[r] = "next"
        /\ \A q \in Runs \ {r} : /\ incidents'[q] = incidents[q]
                                /\ at'[q] = at[q] /\ pc'[q] = pc[q]
        /\ ReportOK(r)'
    BY <1>2, <1>3, <1>4, Concluding DEF IInv
  <1>6. TypeOK'  BY <1>5 DEF IInv, TypeOK, IncidentType
  <1>7. ASSUME NEW q \in Runs, q # r PROVE RunOK(q)'
    BY <1>5, <1>7, RunFrame DEF IInv
  <1>8. RunOK(r)'
    <2>1. Placed(r)'  BY <1>1, <1>5 DEF Placed, Working
    <2>2. AnswerOK(r)'  BY <1>5 DEF AnswerOK
    <2>3. Budget(r)'
      <3>1. newCalls[r] \in Nat /\ sent[r] \in Nat /\ sent'[r] = sent[r]
        BY DEF IInv, TypeOK
      <3>2. newCalls'[r] \in Nat  OBVIOUS
      <3>3. sent'[r] > 0 => inv'[r].mode # "mock"  BY <1>4, <1>5, <3>1 DEF Budget
      <3>4. CASE pc[r] \in {"waiting", "backoff", "retrying"}
        <4>1. newCalls'[r] = newCalls[r] + 1 /\ newCalls[r] < MaxRequests /\ ~inv[r].dryRun
          BY <1>4, <3>4 DEF Budget, IInv, RunOK, Placed, Working
        <4>2. sent[r] > 0 => sent[r] <= 2 * newCalls[r] + 2 /\ sent[r] <= 2 * MaxRequests
          BY <1>4, <3>1, <3>4 DEF Budget, Pending
        <4> QED
          BY <1>5, <3>1, <3>2, <3>3, <4>1, <4>2, LimitsAssumption DEF Budget, Pending
      <3>5. CASE pc[r] \notin {"waiting", "backoff", "retrying"}
        <4>1. \/ newCalls'[r] = newCalls[r]
              \/ /\ newCalls'[r] = newCalls[r] + 1
                 /\ inv[r].dryRun \/ newCalls[r] < MaxRequests
          BY <3>5
        <4>2. inv[r].dryRun => sent[r] = 0  BY <1>4 DEF Budget
        <4>3. sent[r] > 0 => /\ sent[r] <= 2 * newCalls[r] /\ sent[r] <= 2 * MaxRequests
                             /\ newCalls[r] <= MaxRequests
          BY <1>4, <3>1, <3>5 DEF Budget, Pending
        <4> QED
          BY <1>5, <3>1, <3>2, <3>3, <4>1, <4>2, <4>3, LimitsAssumption DEF Budget, Pending
      <3> QED  BY <3>4, <3>5
    <2> QED  BY <1>5, <2>1, <2>2, <2>3 DEF RunOK
  <1>9. ASSUME NEW k \in Keys PROVE FileOK(k)'  BY FileFrame DEF IInv
  <1> QED  BY <1>6, <1>7, <1>8, <1>9 DEF IInv

\* The dry-run look.
LEMMA DryLookStep ==
  ASSUME IInv, NEW r \in Runs, DryLook(r)
  PROVE  IInv'
  <1>1. /\ cached \in [Runs -> Nat] /\ newCalls \in [Runs -> Nat] /\ limited \in [Runs -> BOOLEAN]
    BY DEF IInv, TypeOK
  <1>2. cached' \in [Runs -> Nat] /\ limited' = limited  BY <1>1 DEF DryLook, Bump
  <1>3. /\ newCalls' \in [Runs -> Nat]
        /\ \A q \in Runs \ {r} : newCalls'[q] = newCalls[q]
        /\ newCalls'[r] = newCalls[r] \/ newCalls'[r] = newCalls[r] + 1
    BY <1>1 DEF DryLook, Bump
  <1>4. /\ Conclude(r, "dry_run", None, None) /\ inv[r].dryRun
        /\ pc[r] = "next" /\ at[r] \in DOMAIN Todo(r)
        /\ UNCHANGED <<inv, answer, disk, history>>
    BY DEF DryLook, AtIncident
  <1>5. "dry_run" \in Statuses /\ None \in Models \cup {Mock, None}  BY DEF Statuses
  <1>6. pc[r] \notin {"idle", "crashed", "waiting", "backoff", "retrying"}  BY <1>4
  <1> QED  BY <1>1, <1>2, <1>3, <1>4, <1>5, <1>6, ConcludingWithoutResult

\* The limit.
LEMMA LimitReachedStep ==
  ASSUME IInv, NEW r \in Runs, LimitReached(r)
  PROVE  IInv'
  <1>1. /\ cached' \in [Runs -> Nat] /\ newCalls' \in [Runs -> Nat]
        /\ limited' \in [Runs -> BOOLEAN]
        /\ \A q \in Runs : newCalls'[q] = newCalls[q]
    BY DEF LimitReached, IInv, TypeOK
  <1>2. PICK status \in Statuses : Conclude(r, status, None, None)
    BY DEF LimitReached, Statuses
  <1>3. pc[r] = "analyse" /\ UNCHANGED <<inv, answer, disk, history>>
    BY DEF LimitReached
  <1>4. at[r] \in DOMAIN Todo(r)  BY <1>3 DEF IInv, RunOK, Placed, Working
  <1> QED  BY <1>1, <1>2, <1>3, <1>4, ConcludingWithoutResult

\* The labels of a call that brought no result.
LEMMA LabelFacts ==
  ASSUME NEW r \in Runs, inv[r] \in Invocation, NEW status \in Statuses
  PROVE  /\ ModeStatus(r, status) \in Statuses
         /\ ModeModel(r) \in Models \cup {Mock, None}
  BY DEF ModeStatus, ModeModel, Statuses, Invocation

\* No client, or no project for it.
LEMMA UnavailableStep ==
  ASSUME IInv, NEW r \in Runs, Unavailable(r)
  PROVE  IInv'
  <1>1. /\ cached \in [Runs -> Nat] /\ newCalls \in [Runs -> Nat] /\ limited \in [Runs -> BOOLEAN]
    BY DEF IInv, TypeOK
  <1>2. /\ newCalls' \in [Runs -> Nat] /\ cached' = cached /\ limited' = limited
        /\ \A q \in Runs \ {r} : newCalls'[q] = newCalls[q]
        /\ newCalls'[r] = newCalls[r] + 1
    BY <1>1 DEF Unavailable, Bump
  <1>3. /\ Conclude(r, ModeStatus(r, "unavailable"), ModeModel(r), None)
        /\ pc[r] = "analyse" /\ newCalls[r] < MaxRequests
        /\ UNCHANGED <<inv, answer, disk, history>>
    BY DEF Unavailable
  <1>4. at[r] \in DOMAIN Todo(r) /\ inv[r] \in Invocation
    BY <1>3 DEF IInv, RunOK, Placed, Working
  <1>5. ModeStatus(r, "unavailable") \in Statuses /\ ModeModel(r) \in Models \cup {Mock, None}
    BY <1>4, LabelFacts DEF Statuses
  <1> QED  BY <1>1, <1>2, <1>3, <1>4, <1>5, ConcludingWithoutResult

\* An answer that is rejected or does not come.
LEMMA NoAnswerStep ==
  ASSUME IInv, NEW r \in Runs, AnswerRejected(r) \/ Fail(r)
  PROVE  IInv'
  <1>1. /\ cached \in [Runs -> Nat] /\ newCalls \in [Runs -> Nat] /\ limited \in [Runs -> BOOLEAN]
    BY DEF IInv, TypeOK
  <1>2. /\ newCalls' \in [Runs -> Nat] /\ cached' = cached /\ limited' = limited
        /\ \A q \in Runs \ {r} : newCalls'[q] = newCalls[q]
        /\ newCalls'[r] = newCalls[r] + 1
    BY <1>1 DEF AnswerRejected, Fail, Bump
  <1>3. PICK status \in {"validation_failed", "error"} :
          Conclude(r, ModeStatus(r, status), ModeModel(r), None)
    BY DEF AnswerRejected, Fail
  <1>4. pc[r] \in {"waiting", "retrying"} /\ UNCHANGED <<inv, answer, disk, history>>
    BY DEF AnswerRejected, Fail, Asked
  <1>5. at[r] \in DOMAIN Todo(r) /\ inv[r] \in Invocation
    BY <1>4 DEF IInv, RunOK, Placed, Working
  <1>6. ModeStatus(r, status) \in Statuses /\ ModeModel(r) \in Models \cup {Mock, None}
    BY <1>5, LabelFacts DEF Statuses
  <1> QED  BY <1>1, <1>2, <1>3, <1>4, <1>5, <1>6, ConcludingWithoutResult

\* A hit: what the file says goes into the report.
LEMMA HitStep ==
  ASSUME IInv, NEW r \in Runs, Hit(r)
  PROVE  IInv'
  <1> DEFINE model == cache[Key(r)].model
             result == cache[Key(r)].result
  <1>1. /\ Conclude(r, "cached", model, result)
        /\ pc[r] = "next" /\ at[r] \in DOMAIN Todo(r) /\ ~inv[r].dryRun
        /\ cache[Key(r)].status = "whole"
        /\ UNCHANGED <<inv, newCalls, limited, answer, cache, clashed, sent, paid, crashes>>
    BY DEF Hit, AtIncident, Readable, disk, history
  <1>2. inv[r] \in Invocation  BY <1>1 DEF IInv, RunOK, Placed
  <1>3. /\ Current(r) \in WorkItems /\ Key(r) \in Keys
        /\ DOMAIN Key(r) = IdsOf(Current(r))
    BY <1>1, <1>2, CurrentFacts
  <1>4. model \in Models \cup {Mock, None} /\ result \in Result
    <2>1. cache[Key(r)] \in CacheFile  BY <1>3 DEF IInv, TypeOK
    <2> QED  BY <1>1, <2>1 DEF CacheFile
  <1>5. IncidentOK(r, Incident(Current(r), "cached", model, result))
    <2>1. FileOK(Key(r))  BY <1>3 DEF IInv
    <2>2. /\ result.refs \subseteq IdsOf(Current(r)) /\ result.by = model
          /\ IdsAreStable => result.about = Range(Current(r))
      BY <1>1, <1>3, <2>1 DEF FileOK, Key
    <2> QED  BY <2>2 DEF IncidentOK, Incident
  <1> HIDE DEF model, result
  <1>6. ReportOK(r) /\ Budget(r)  BY DEF IInv, RunOK
  <1>7. /\ incidents' \in [Runs -> Seq(IncidentType)]
        /\ at' \in [Runs -> Nat \ {0}]
        /\ pc' = [pc EXCEPT ![r] = "next"]
        /\ pc'[r] = "next"
        /\ \A q \in Runs \ {r} : /\ incidents'[q] = incidents[q]
                                /\ at'[q] = at[q] /\ pc'[q] = pc[q]
        /\ ReportOK(r)'
    <2>1. "cached" \in Statuses  BY DEF Statuses
    <2> QED  BY <1>1, <1>3, <1>4, <1>5, <1>6, <2>1, Concluding DEF IInv
  <1>8. cached' \in [Runs -> Nat]  BY DEF IInv, TypeOK, Hit, Bump
  <1>9. TypeOK'  BY <1>1, <1>7, <1>8 DEF IInv, TypeOK, IncidentType
  <1>10. ASSUME NEW q \in Runs, q # r PROVE RunOK(q)'
    BY <1>1, <1>7, <1>10, RunFrame DEF IInv
  <1>11. RunOK(r)'
    <2>1. Placed(r)'  BY <1>1, <1>2, <1>7 DEF Placed, Working
    <2>2. AnswerOK(r)'  BY <1>7 DEF AnswerOK
    <2>3. Budget(r)'  BY <1>1, <1>6, <1>7 DEF Budget, Pending
    <2> QED  BY <1>7, <2>1, <2>2, <2>3 DEF RunOK
  <1>12. ASSUME NEW k \in Keys PROVE FileOK(k)'  BY <1>1, FileFrame DEF IInv
  <1> QED  BY <1>9, <1>10, <1>11, <1>12 DEF IInv

\* Steps that only move a run to another place, where it has no answer yet:
\* a miss, a failure of the first attempt, the end of the loop.
LEMMA MovingStep ==
  ASSUME IInv, NEW r \in Runs, Miss(r) \/ Transient(r) \/ Report(r)
  PROVE  IInv'
  <1>1. PICK place \in {"analyse", "backoff", "reported"} :
          /\ pc' = [pc EXCEPT ![r] = place]
          /\ place = "analyse" => pc[r] = "next" /\ at[r] \in DOMAIN Todo(r) /\ ~inv[r].dryRun
          /\ place = "backoff" => pc[r] = "waiting"
          /\ place = "reported" => pc[r] = "next"
    BY DEF Miss, Transient, Report, AtIncident
  <1>2. UNCHANGED <<inv, at, incidents, cached, newCalls, limited, answer, cache, clashed,
                    sent, paid, crashes>>
    BY DEF Miss, Transient, Report, summary, disk, history
  <1>3. pc'[r] = place /\ \A q \in Runs \ {r} : pc'[q] = pc[q]
    BY <1>1 DEF IInv, TypeOK
  <1>4. TypeOK'
    <2>1. pc' \in [Runs -> Ended \cup {"idle", "next", "analyse", "waiting", "backoff",
                                      "retrying", "store", "writing"}]
      BY <1>1 DEF IInv, TypeOK, Ended
    <2> QED  BY <1>2, <2>1 DEF IInv, TypeOK
  <1>5. ASSUME NEW q \in Runs, q # r PROVE RunOK(q)'
    BY <1>2, <1>3, <1>5, RunFrame DEF IInv
  <1>6. RunOK(r)'
    <2>1. Placed(r) /\ ReportOK(r) /\ Budget(r)  BY DEF IInv, RunOK
    <2>2. Placed(r)'
      <3>1. Todo(r)' = Todo(r)  BY <1>2 DEF Todo
      <3> QED  BY <1>1, <1>2, <1>3, <2>1, <3>1 DEF Placed, Working
    <2>3. AnswerOK(r)'  BY <1>3 DEF AnswerOK
    <2>4. ReportOK(r)'  BY <1>2, <2>1 DEF ReportOK, IncidentOK
    <2>5. Budget(r)'  BY <1>1, <1>2, <1>3, <2>1 DEF Budget, Pending
    <2> QED  BY <2>2, <2>3, <2>4, <2>5 DEF RunOK
  <1>7. ASSUME NEW k \in Keys PROVE FileOK(k)'  BY <1>2, FileFrame DEF IInv
  <1> QED  BY <1>4, <1>5, <1>6, <1>7 DEF IInv

\* A request goes out: the first one, or the second.
LEMMA SendingStep ==
  ASSUME IInv, NEW r \in Runs, Send(r) \/ Retry(r)
  PROVE  IInv'
  <1>1. PICK place \in {"waiting", "retrying"} :
          /\ pc' = [pc EXCEPT ![r] = place]
          /\ place = "waiting" => /\ pc[r] = "analyse" /\ newCalls[r] < MaxRequests
                                  /\ inv[r].mode # "mock"
          /\ place = "retrying" => pc[r] = "backoff"
    BY DEF Send, Retry
  <1>2. UNCHANGED <<inv, at, incidents, cached, newCalls, limited, answer, cache, clashed,
                    paid, crashes>>
    BY DEF Send, Retry, summary, disk
  <1>3. pc'[r] = place /\ \A q \in Runs \ {r} : pc'[q] = pc[q]
    BY <1>1 DEF IInv, TypeOK
  <1>4. sent' = [sent EXCEPT ![r] = sent[r] + 1]  BY DEF Send, Retry, Bump
  <1>5. /\ sent' \in [Runs -> Nat] /\ sent'[r] = sent[r] + 1
        /\ \A q \in Runs \ {r} : sent'[q] = sent[q]
    BY <1>4 DEF IInv, TypeOK
  <1>6. TypeOK'
    <2>1. pc' \in [Runs -> Ended \cup {"idle", "next", "analyse", "waiting", "backoff",
                                      "retrying", "store", "writing"}]
      BY <1>1 DEF IInv, TypeOK, Ended
    <2> QED  BY <1>2, <1>5, <2>1 DEF IInv, TypeOK
  <1>7. ASSUME NEW q \in Runs, q # r PROVE RunOK(q)'
    BY <1>2, <1>3, <1>5, <1>7, RunFrame DEF IInv
  <1>8. RunOK(r)'
    <2>1. Placed(r) /\ ReportOK(r) /\ Budget(r)  BY DEF IInv, RunOK
    <2>2. /\ at[r] \in DOMAIN Todo(r) /\ inv[r] \in Invocation
          /\ ~inv[r].dryRun /\ inv[r].mode # "mock"
      BY <1>1, <2>1 DEF Placed, Working
    <2>3. Placed(r)'
      <3>1. Todo(r)' = Todo(r)  BY <1>2 DEF Todo
      <3> QED  BY <1>2, <1>3, <2>2, <3>1 DEF Placed, Working
    <2>4. AnswerOK(r)'  BY <1>3 DEF AnswerOK
    <2>5. ReportOK(r)'  BY <1>2, <2>1 DEF ReportOK, IncidentOK
    <2>6. Budget(r)'
      <3>1. sent[r] \in Nat /\ newCalls[r] \in Nat /\ MaxRequests \in Int
        BY LimitsAssumption DEF IInv, TypeOK
      <3>2. /\ newCalls[r] < MaxRequests
            /\ sent[r] + 1 <= 2 * newCalls[r] + (IF place = "waiting" THEN 1 ELSE 2)
        BY <1>1, <2>1, <3>1 DEF Budget, Pending
      <3>3. sent'[r] <= 2 * MaxRequests  BY <1>5, <3>1, <3>2
      <3> QED  BY <1>2, <1>3, <1>5, <2>2, <3>1, <3>2, <3>3 DEF Budget, Pending
    <2> QED  BY <2>3, <2>4, <2>5, <2>6 DEF RunOK
  <1>9. ASSUME NEW k \in Keys PROVE FileOK(k)'  BY <1>2, FileFrame DEF IInv
  <1> QED  BY <1>6, <1>7, <1>8, <1>9 DEF IInv

\* An analysis is there: the mock's, or the model's after validation.
LEMMA AnsweringStep ==
  ASSUME IInv, NEW r \in Runs, MockAnalyse(r) \/ AnswerAccepted(r)
  PROVE  IInv'
  <1>1. PICK by \in Models \cup {Mock}, refs \in SUBSET IdsOf(Current(r)) :
          /\ answer' = [answer EXCEPT ![r] = Analysis(by, Current(r), refs)]
          /\ by = Producer(r)
          /\ pc' = [pc EXCEPT ![r] = "store"]
          /\ \/ pc[r] = "analyse" /\ newCalls' = newCalls /\ paid' = paid
             \/ /\ pc[r] \in {"waiting", "retrying"}
                /\ newCalls' = [newCalls EXCEPT ![r] = newCalls[r] + 1]
                /\ paid' = [paid EXCEPT ![Key(r)] = @ + 1]
    <2>1. CASE MockAnalyse(r)
      <3>1. MockRefs(Current(r)) \in SUBSET IdsOf(Current(r))  BY MockRefsOwn
      <3> QED  BY <2>1, <3>1 DEF MockAnalyse, summary, history, Producer
    <2>2. CASE AnswerAccepted(r)
      <3>1. pc[r] \in {"waiting", "retrying"}  BY <2>2 DEF AnswerAccepted, Asked
      <3>2. inv[r] \in Invocation /\ Budget(r)
        BY <3>1 DEF IInv, RunOK, Placed
      <3>3. Producer(r) = inv[r].model
        BY <3>1 DEF IInv, RunOK, Placed, Producer
      <3> QED
        BY <2>2, <3>1, <3>2, <3>3
           DEF AnswerAccepted, AllReferencesExist, Invocation, Bump
    <2> QED  BY <2>1, <2>2
  <1>2. UNCHANGED <<inv, at, incidents, cached, limited, cache, clashed, sent, crashes>>
    BY DEF MockAnalyse, AnswerAccepted, summary, disk, history
  <1>3. /\ pc'[r] = "store" /\ answer'[r] = Analysis(by, Current(r), refs)
        /\ \A q \in Runs \ {r} : pc'[q] = pc[q] /\ answer'[q] = answer[q]
    BY <1>1 DEF IInv, TypeOK
  <1>4. /\ newCalls' \in [Runs -> Nat]
        /\ \A q \in Runs \ {r} : newCalls'[q] = newCalls[q]
        /\ newCalls'[r] \in {newCalls[r], newCalls[r] + 1}
        /\ pc[r] # "analyse" => newCalls'[r] = newCalls[r] + 1
        /\ pc[r] = "analyse" => newCalls'[r] = newCalls[r]
    <2>1. newCalls \in [Runs -> Nat]  BY DEF IInv, TypeOK
    <2>2. CASE pc[r] = "analyse"  BY <1>1, <2>1, <2>2
    <2>3. CASE newCalls' = [newCalls EXCEPT ![r] = newCalls[r] + 1] /\ pc[r] # "analyse"
      BY <2>1, <2>3
    <2> QED  BY <1>1, <2>2, <2>3
  <1>5. /\ pc[r] \in Working /\ Placed(r) /\ ReportOK(r) /\ Budget(r)
        /\ at[r] \in DOMAIN Todo(r) /\ inv[r] \in Invocation /\ ~inv[r].dryRun
    BY <1>1 DEF IInv, RunOK, Placed, Working
  <1>6. Current(r) \in WorkItems  BY <1>5, CurrentFacts
  <1>7. /\ Analysis(by, Current(r), refs) \in Result
        /\ Analysis(by, Current(r), refs).by = by
        /\ Analysis(by, Current(r), refs).about = Range(Current(r))
        /\ Analysis(by, Current(r), refs).refs = refs
    BY <1>6, AnalysisIsResult
  <1>8. TypeOK'
    <2>1. answer' \in [Runs -> Result \cup {None}]  BY <1>1, <1>7 DEF IInv, TypeOK
    <2>2. paid' \in [Keys -> Nat]
      <3>1. paid \in [Keys -> Nat]  BY DEF IInv, TypeOK
      <3>2. CASE paid' = [paid EXCEPT ![Key(r)] = @ + 1]
        <4>1. PICK k \in Keys : k = Key(r)  BY <1>5, CurrentFacts
        <4>2. paid' = [paid EXCEPT ![k] = paid[k] + 1] /\ paid[k] \in Nat
          BY <3>1, <3>2, <4>1
        <4> QED  BY <3>1, <4>2
      <3> QED  BY <1>1, <3>1, <3>2
    <2>3. pc' \in [Runs -> Ended \cup {"idle", "next", "analyse", "waiting", "backoff",
                                      "retrying", "store", "writing"}]
      BY <1>1 DEF IInv, TypeOK, Ended
    <2> QED  BY <1>2, <1>4, <2>1, <2>2, <2>3 DEF IInv, TypeOK
  <1>9. ASSUME NEW q \in Runs, q # r PROVE RunOK(q)'
    BY <1>2, <1>3, <1>4, <1>9, RunFrame DEF IInv
  <1>10. RunOK(r)'
    <2>1. Current(r)' = Current(r) /\ Todo(r)' = Todo(r) /\ Producer(r)' = Producer(r)
      BY <1>2 DEF Current, Todo, Producer
    <2>2. Placed(r)'  BY <1>2, <1>3, <1>5, <2>1 DEF Placed, Working
    <2>3. AnswerOK(r)'  BY <1>1, <1>3, <1>7, <2>1 DEF AnswerOK
    <2>4. ReportOK(r)'  BY <1>2, <1>5 DEF ReportOK, IncidentOK
    <2>5. Budget(r)'
      <3>1. /\ sent[r] \in Nat /\ newCalls[r] \in Nat /\ newCalls'[r] \in Nat
            /\ MaxRequests \in Int
        BY <1>4, LimitsAssumption DEF IInv, TypeOK
      <3> QED  BY <1>1, <1>2, <1>3, <1>4, <1>5, <3>1 DEF Budget, Pending
    <2> QED  BY <2>2, <2>3, <2>4, <2>5 DEF RunOK
  <1>11. ASSUME NEW k \in Keys PROVE FileOK(k)'  BY <1>2, FileFrame DEF IInv
  <1> QED  BY <1>8, <1>9, <1>10, <1>11 DEF IInv

\* The file is opened: whatever it held is gone.
LEMMA OpenStep ==
  ASSUME IInv, NEW r \in Runs, OpenCacheFile(r)
  PROVE  IInv'
  <1>1. /\ pc[r] = "store" /\ pc' = [pc EXCEPT ![r] = "writing"]
        /\ cache' = [cache EXCEPT ![Key(r)] = Unreadable("torn")]
        /\ clashed' \in {clashed \ {Key(r)}, clashed \cup {Key(r)}}
        /\ UNCHANGED <<inv, at, incidents, cached, newCalls, limited, answer, sent, paid, crashes>>
    BY DEF OpenCacheFile, summary, history
  <1>2. pc'[r] = "writing" /\ \A q \in Runs \ {r} : pc'[q] = pc[q]
    BY <1>1 DEF IInv, TypeOK
  <1>3. /\ Placed(r) /\ AnswerOK(r) /\ ReportOK(r) /\ Budget(r)
        /\ at[r] \in DOMAIN Todo(r) /\ inv[r] \in Invocation
    BY <1>1 DEF IInv, RunOK, Placed, Working
  <1>4. PICK key \in Keys : key = Key(r)  BY <1>3, CurrentFacts
  <1>5. cache' = [cache EXCEPT ![key] = Unreadable("torn")]  BY <1>1, <1>4
  <1>6. TypeOK'
    <2>1. Unreadable("torn") \in CacheFile  BY DEF Unreadable, CacheFile
    <2>2. cache' \in [Keys -> CacheFile]  BY <1>5, <2>1 DEF IInv, TypeOK
    <2>3. clashed' \subseteq Keys  BY <1>1, <1>4 DEF IInv, TypeOK
    <2>4. pc' \in [Runs -> Ended \cup {"idle", "next", "analyse", "waiting", "backoff",
                                      "retrying", "store", "writing"}]
      BY <1>1 DEF IInv, TypeOK, Ended
    <2> QED  BY <1>1, <2>2, <2>3, <2>4 DEF IInv, TypeOK
  <1>7. ASSUME NEW q \in Runs, q # r PROVE RunOK(q)'
    BY <1>1, <1>2, <1>7, RunFrame DEF IInv
  <1>8. RunOK(r)'
    <2>1. Current(r)' = Current(r) /\ Todo(r)' = Todo(r) /\ Producer(r)' = Producer(r)
      BY <1>1 DEF Current, Todo, Producer
    <2>2. Placed(r)'  BY <1>1, <1>2, <1>3, <2>1 DEF Placed, Working
    <2>3. AnswerOK(r)'  BY <1>1, <1>2, <1>3, <2>1 DEF AnswerOK
    <2>4. ReportOK(r)'  BY <1>1, <1>3 DEF ReportOK, IncidentOK
    <2>5. Budget(r)'  BY <1>1, <1>2, <1>3 DEF Budget, Pending
    <2> QED  BY <2>2, <2>3, <2>4, <2>5 DEF RunOK
  <1>9. ASSUME NEW k \in Keys PROVE FileOK(k)'
    <2>1. CASE k = key
      BY <1>5, <2>1 DEF FileOK, Unreadable, IInv, TypeOK
    <2>2. CASE k # key
      BY <1>5, <2>2, FileFrame DEF IInv, TypeOK
    <2> QED  BY <2>1, <2>2
  <1> QED  BY <1>6, <1>7, <1>8, <1>9 DEF IInv

\* The record is written, whole or mixed up with another's, and the incident
\* is reported with it.
LEMMA FillStep ==
  ASSUME IInv, NEW r \in Runs, FillCacheFile(r)
  PROVE  IInv'
  <1>1. /\ pc[r] = "writing"
        /\ Conclude(r, "ok", ModeModel(r), answer[r])
        /\ answer' = [answer EXCEPT ![r] = None]
        /\ UNCHANGED <<inv, cached, newCalls, limited, clashed, sent, paid, crashes>>
    BY DEF FillCacheFile, history
  <1>2. /\ Placed(r) /\ ReportOK(r) /\ Budget(r)
        /\ at[r] \in DOMAIN Todo(r) /\ inv[r] \in Invocation
        /\ answer[r] \in Result /\ answer[r].by = Producer(r)
        /\ answer[r].refs \subseteq IdsOf(Current(r))
        /\ answer[r].about = Range(Current(r))
    BY <1>1 DEF IInv, RunOK, Placed, Working, AnswerOK
  <1>3. /\ Current(r) \in WorkItems /\ Key(r) \in Keys
        /\ DOMAIN Key(r) = IdsOf(Current(r))
    BY <1>2, CurrentFacts
  <1>4. PICK key \in Keys : key = Key(r)  BY <1>3
  <1>5. PICK file : /\ cache' = [cache EXCEPT ![key] = file]
                    /\ file \in {Whole(Producer(r), answer[r]), Unreadable("torn")}
    BY <1>4 DEF FillCacheFile, Producer
  <1>6. Producer(r) \in Models \cup {Mock}  BY <1>2 DEF Producer, Invocation
  <1>7. /\ incidents' \in [Runs -> Seq(IncidentType)]
        /\ at' \in [Runs -> Nat \ {0}]
        /\ pc' = [pc EXCEPT ![r] = "next"]
        /\ pc'[r] = "next"
        /\ \A q \in Runs \ {r} : /\ incidents'[q] = incidents[q]
                                /\ at'[q] = at[q] /\ pc'[q] = pc[q]
        /\ ReportOK(r)'
    <2>1. "ok" \in Statuses /\ ModeModel(r) \in Models \cup {Mock, None}
      BY <1>2, LabelFacts DEF Statuses
    <2>2. IncidentOK(r, Incident(Current(r), "ok", ModeModel(r), answer[r]))
      BY <1>2 DEF IncidentOK, Incident, ModeModel, Producer, Invocation
    <2>3. answer[r] \in Result \cup {None}  BY <1>2
    <2> QED  BY <1>1, <1>2, <1>3, <2>1, <2>2, <2>3, Concluding DEF IInv
  <1>8. TypeOK'
    <2>1. file \in CacheFile
      BY <1>2, <1>5, <1>6 DEF Unreadable, Whole, CacheFile
    <2>2. cache' \in [Keys -> CacheFile]  BY <1>5, <2>1 DEF IInv, TypeOK
    <2>3. answer' \in [Runs -> Result \cup {None}]  BY <1>1 DEF IInv, TypeOK
    <2> QED  BY <1>1, <1>7, <2>2, <2>3 DEF IInv, TypeOK, IncidentType
  <1>9. ASSUME NEW q \in Runs, q # r PROVE RunOK(q)'
    <2>1. answer'[q] = answer[q]  BY <1>1, <1>9 DEF IInv, TypeOK
    <2> QED  BY <1>1, <1>7, <1>9, <2>1, RunFrame DEF IInv
  <1>10. RunOK(r)'
    <2>1. Placed(r)'  BY <1>1, <1>2, <1>7 DEF Placed, Working
    <2>2. AnswerOK(r)'  BY <1>7 DEF AnswerOK
    <2>3. Budget(r)'  BY <1>1, <1>2, <1>7 DEF Budget, Pending
    <2> QED  BY <1>7, <2>1, <2>2, <2>3 DEF RunOK
  <1>11. ASSUME NEW k \in Keys PROVE FileOK(k)'
    <2>1. CASE k # key
      BY <1>5, <2>1, FileFrame DEF IInv, TypeOK
    <2>2. CASE k = key /\ file = Unreadable("torn")
      BY <1>5, <2>2 DEF FileOK, Unreadable, IInv, TypeOK
    <2>3. CASE k = key /\ file = Whole(Producer(r), answer[r])
      <3>1. cache'[k].result = answer[r] /\ cache'[k].model = Producer(r)
        BY <1>5, <2>3 DEF Whole, IInv, TypeOK
      <3>2. answer[r].refs \subseteq DOMAIN k /\ answer[r].by = Producer(r)
        BY <1>2, <1>3, <1>4, <2>3
      <3>3. IdsAreStable => \A events \in WorkItems :
              GroupFingerprint(events) = k => answer[r].about = Range(events)
        BY <1>2, <1>3, <1>4, <2>3, SameKeySameAlerts DEF Key
      <3> QED  BY <3>1, <3>2, <3>3 DEF FileOK
    <2> QED  BY <1>5, <2>1, <2>2, <2>3
  <1> QED  BY <1>8, <1>9, <1>10, <1>11 DEF IInv

\* A kill leaves the files as they are.
LEMMA CrashStep ==
  ASSUME IInv, NEW r \in Runs, Crash(r)
  PROVE  IInv'
  <1>1. /\ pc[r] # "idle" /\ crashes' = crashes + 1
        /\ pc' = [pc EXCEPT ![r] = "crashed"] /\ answer' = [answer EXCEPT ![r] = None]
        /\ UNCHANGED <<inv, at, incidents, cached, newCalls, limited, cache, clashed, sent, paid>>
    BY DEF Crash, Active, summary, disk
  <1>2. /\ pc'[r] = "crashed"
        /\ \A q \in Runs \ {r} : pc'[q] = pc[q] /\ answer'[q] = answer[q]
    BY <1>1 DEF IInv, TypeOK
  <1>3. TypeOK'
    <2>1. answer' \in [Runs -> Result \cup {None}]  BY <1>1 DEF IInv, TypeOK
    <2>2. pc' \in [Runs -> Ended \cup {"idle", "next", "analyse", "waiting", "backoff",
                                      "retrying", "store", "writing"}]
      BY <1>1 DEF IInv, TypeOK, Ended
    <2>3. crashes' \in Nat  BY <1>1 DEF IInv, TypeOK
    <2> QED  BY <1>1, <2>1, <2>2, <2>3 DEF IInv, TypeOK
  <1>4. ASSUME NEW q \in Runs, q # r PROVE RunOK(q)'
    BY <1>1, <1>2, <1>4, RunFrame DEF IInv
  <1>5. RunOK(r)'
    <2>1. Placed(r) /\ ReportOK(r) /\ Budget(r)  BY DEF IInv, RunOK
    <2>2. Placed(r)'  BY <1>1, <1>2, <2>1 DEF Placed, Working
    <2>3. AnswerOK(r)'  BY <1>2 DEF AnswerOK
    <2>4. ReportOK(r)'  BY <1>1, <2>1 DEF ReportOK, IncidentOK
    <2>5. Budget(r)'  BY <1>1, <1>2, <2>1 DEF Budget
    <2> QED  BY <2>2, <2>3, <2>4, <2>5 DEF RunOK
  <1>6. ASSUME NEW k \in Keys PROVE FileOK(k)'  BY <1>1, FileFrame DEF IInv
  <1> QED  BY <1>3, <1>4, <1>5, <1>6 DEF IInv

-----------------------------------------------------------------------------
(* The theorems.                                                           *)

\* Every step keeps the invariant.
LEMMA NextIInv == IInv /\ [Next]_vars => IInv'
  <1> SUFFICES ASSUME IInv, [Next]_vars PROVE IInv'  OBVIOUS
  <1>1. ASSUME NEW r \in Runs, Invoke(r) PROVE IInv'  BY <1>1, InvokeStep
  <1>2. ASSUME NEW r \in Runs, Crash(r) PROVE IInv'  BY <1>2, CrashStep
  <1>3. ASSUME NEW r \in Runs, Step(r) PROVE IInv'
    <2>1. CASE DryLook(r)  BY <2>1, DryLookStep
    <2>2. CASE Hit(r)  BY <2>2, HitStep
    <2>3. CASE Miss(r) \/ Transient(r) \/ Report(r)  BY <2>3, MovingStep
    <2>4. CASE MockAnalyse(r) \/ AnswerAccepted(r)  BY <2>4, AnsweringStep
    <2>5. CASE LimitReached(r)  BY <2>5, LimitReachedStep
    <2>6. CASE Unavailable(r)  BY <2>6, UnavailableStep
    <2>7. CASE Send(r) \/ Retry(r)  BY <2>7, SendingStep
    <2>8. CASE AnswerRejected(r) \/ Fail(r)  BY <2>8, NoAnswerStep
    <2>9. CASE OpenCacheFile(r)  BY <2>9, OpenStep
    <2>10. CASE FillCacheFile(r)  BY <2>10, FillStep
    <2> QED
      BY <1>3, <2>1, <2>2, <2>3, <2>4, <2>5, <2>6, <2>7, <2>8, <2>9, <2>10 DEF Step
  <1>4. CASE UNCHANGED vars
    <2>1. UNCHANGED <<inv, pc, at, incidents, cached, newCalls, limited, answer, cache,
                      clashed, sent, paid, crashes>>
      BY <1>4 DEF vars, summary, disk, history
    <2>2. TypeOK'  BY <2>1 DEF IInv, TypeOK
    <2>3. ASSUME NEW q \in Runs PROVE RunOK(q)'  BY <2>1, RunFrame DEF IInv
    <2>4. ASSUME NEW k \in Keys PROVE FileOK(k)'  BY <2>1, FileFrame DEF IInv
    <2> QED  BY <2>2, <2>3, <2>4 DEF IInv
  <1> QED  BY <1>1, <1>2, <1>3, <1>4 DEF Next

\* The invariant holds in every reachable state, whatever overlaps.
THEOREM CorrelateInvariant == Spec => []IInv
  BY InitIInv, NextIInv, PTL DEF Spec

\* Types: among them, a file that parses holds a validated result of a
\* known group, whichever writers had it open.
THEOREM CorrelateTypeCorrect == Spec => []TypeOK
  <1>1. IInv => TypeOK  BY DEF IInv
  <1> QED  BY <1>1, CorrelateInvariant, PTL

\* A run never hands over more than two requests per call of its budget,
\* for every budget the environment may give, negative ones included, and
\* none in mock mode or for a dry run (pipeline.py, gemini_client.py).
THEOREM RequestsAreBounded == Spec => []RequestCeiling
  <1>1. IInv => RequestCeiling
    <2> SUFFICES ASSUME IInv, NEW r \in Runs
                 PROVE  /\ sent[r] <= 2 * (IF MaxRequests < 0 THEN 0 ELSE MaxRequests)
                        /\ sent[r] > 0 => inv[r].mode # "mock" /\ ~inv[r].dryRun
      BY DEF RequestCeiling
    <2>1. Budget(r) /\ sent[r] \in Nat /\ MaxRequests \in Int
      BY LimitsAssumption DEF IInv, RunOK, TypeOK
    <2>2. CASE sent[r] = 0  BY <2>1, <2>2
    <2>3. CASE sent[r] > 0
      <3>1. sent[r] <= 2 * MaxRequests  BY <2>1, <2>3 DEF Budget
      <3>2. sent[r] # 0  BY <2>3
      <3>3. inv[r].mode # "mock" /\ ~inv[r].dryRun  BY <2>1, <2>3, <3>2 DEF Budget
      <3> QED  BY <2>1, <2>3, <3>1, <3>3
    <2> QED  BY <2>1, <2>2, <2>3
  <1> QED  BY <1>1, CorrelateInvariant, PTL

\* No report shows a result that cites an alert of another incident: the
\* check made for the run that asked holds for every run served by key.
THEOREM CitationsAreOwn == Spec => []ResultsCiteOwnAlerts
  <1>1. IInv => ResultsCiteOwnAlerts
    BY DEF IInv, RunOK, ReportOK, IncidentOK, ResultsCiteOwnAlerts, Reported
  <1> QED  BY <1>1, CorrelateInvariant, PTL

\* In the documented modes a result is labelled with what produced it.
THEOREM LabelsAreRight == Spec => []ResultsNameTheirModel
  <1>1. IInv => ResultsNameTheirModel
    BY DEF IInv, RunOK, ReportOK, IncidentOK, ResultsNameTheirModel, Reported
  <1> QED  BY <1>1, CorrelateInvariant, PTL

\* Where identifiers are stable, a result was made from the incident's own
\* alerts.  The run `positional' shows that the premise cannot be dropped.
THEOREM ResultsAreNotStale ==
  ASSUME IdsAreStable
  PROVE  Spec => []ResultsMatchIncidents
  <1>1. IInv => ResultsMatchIncidents
    BY DEF IInv, RunOK, ReportOK, IncidentOK, ResultsMatchIncidents, Reported
  <1> QED  BY <1>1, CorrelateInvariant, PTL

-----------------------------------------------------------------------------
(* One invocation at a time.                                               *)

Started == {r \in Runs : pc[r] # "idle"}

AloneInv == IsFiniteSet(Started) /\ \A r, q \in Active : r = q

\* The place where a step leaves the run that takes it, and the others.
LEMMA WhereItGoes ==
  ASSUME IInv, NEW q \in Runs, Step(q) \/ Crash(q)
  PROVE  /\ inv' = inv /\ q \in Active
         /\ pc'[q] # "idle" /\ \A r \in Runs : r # q => pc'[r] = pc[r]
         /\ pc'[q] = "next" /\ inv[q].dryRun => DryLook(q)
         /\ pc[q] = "next" /\ pc'[q] = "reported" => at[q] \notin DOMAIN Todo(q)
  <1>1. pc \in [Runs -> Ended \cup {"idle", "next", "analyse", "waiting", "backoff", "retrying",
                                   "store", "writing"}]
    BY DEF IInv, TypeOK
  <1>2. pc[q] \in Working => ~inv[q].dryRun BY DEF IInv, RunOK, Placed
  <1>3. CASE Crash(q) BY <1>1, <1>3 DEF Crash
  <1>4. CASE DryLook(q) \/ Hit(q)
    BY <1>1, <1>4 DEF DryLook, Hit, AtIncident, Conclude, Active, Ended
  <1>5. CASE Miss(q) \/ MockAnalyse(q) \/ Send(q) \/ Transient(q) \/ Retry(q)
             \/ OpenCacheFile(q) \/ AnswerAccepted(q)
    BY <1>1, <1>5 DEF Miss, MockAnalyse, Send, Transient, Retry, OpenCacheFile, AnswerAccepted,
       AtIncident, Asked, Active, Ended
  <1>6. CASE LimitReached(q) \/ Unavailable(q) \/ AnswerRejected(q) \/ Fail(q)
             \/ FillCacheFile(q)
    <2>1. /\ pc[q] \in Working /\ inv' = inv
          /\ pc' = [pc EXCEPT ![q] = "next"]
      BY <1>6 DEF LimitReached, Unavailable, AnswerRejected, Fail, FillCacheFile, Asked,
         Conclude, Working
    <2> QED BY <1>1, <1>2, <2>1 DEF Active, Ended, Working
  <1>7. CASE Report(q) BY <1>1, <1>7 DEF Report, Active, Ended
  <1> QED BY <1>3, <1>4, <1>5, <1>6, <1>7 DEF Step

\* No invocation is under way when one starts.
LEMMA StartsAlone ==
  ASSUME AloneInv, MaxActive = 1, NEW r \in Runs, Invoke(r)
  PROVE  Active = {}
  <1>1. Cardinality(Active) < 1 BY DEF Invoke
  <1>2. Active \in SUBSET Started BY DEF Active, Started
  <1>3. IsFiniteSet(Active) BY <1>2, FS_Subset DEF AloneInv
  <1>4. Cardinality(Active) = 0 BY <1>1, <1>3, FS_CardinalityType
  <1> QED BY <1>3, <1>4, FS_EmptySet

\* Initially no run has started.
LEMMA InitAlone == Init => AloneInv
  <1> SUFFICES ASSUME Init PROVE AloneInv OBVIOUS
  <1>1. Started = {} /\ Active = {} BY DEF Init, Started, Active
  <1> QED BY <1>1, FS_EmptySet DEF AloneInv

\* With one place for active runs there is one active run at most.
LEMMA NextAlone ==
  ASSUME MaxActive = 1, IInv, AloneInv, [Next]_vars
  PROVE  AloneInv'
  <1>1. CASE UNCHANGED vars
    <2>1. Started' = Started /\ Active' = Active BY <1>1 DEF vars, Started, Active
    <2> QED BY <2>1 DEF AloneInv
  <1>2. ASSUME NEW r \in Runs, Invoke(r) PROVE AloneInv'
    <2>1. Active = {} BY <1>2, StartsAlone
    <2>2. \A q \in Runs : q # r => pc'[q] = pc[q] BY <1>2 DEF Invoke, IInv, TypeOK
    <2>3. Active' \subseteq {r} BY <2>1, <2>2 DEF Active
    <2>4. Started' \in SUBSET (Started \cup {r}) BY <2>2 DEF Started
    <2>5. IsFiniteSet(Started') BY <2>4, FS_AddElement, FS_Subset DEF AloneInv
    <2> QED BY <2>3, <2>5 DEF AloneInv
  <1>3. ASSUME NEW q \in Runs, Step(q) \/ Crash(q) PROVE AloneInv'
    <2>1. /\ q \in Active /\ pc'[q] # "idle"
          /\ \A r \in Runs : r # q => pc'[r] = pc[r]
      BY <1>3, WhereItGoes
    <2>2. Started' = Started BY <2>1 DEF Started, Active
    <2>3. Active' \subseteq Active BY <2>1 DEF Active
    <2> QED BY <2>2, <2>3 DEF AloneInv
  <1> QED BY <1>1, <1>2, <1>3 DEF Next

-----------------------------------------------------------------------------
(* What analyses cost, as long as invocations do not overlap.              *)

Analysing == {"analyse", "waiting", "backoff", "retrying"}

\* A run with --force has still to analyse the incident of the key.
Owes(r, k) ==
  /\ r \in Active /\ inv[r].force
  /\ \E j \in DOMAIN Todo(r) \cap Nat :
       /\ GroupFingerprint(Todo(r)[j]) = k
       /\ IF pc[r] \in {"store", "writing"} THEN at[r] < j ELSE at[r] <= j

\* The analysis for the key is in its file, or on its way there.
Carries(r, k) == pc[r] \in {"store", "writing"} /\ Key(r) = k

Have(k) == Readable(k) \/ \E r \in Runs : Carries(r, k)

One(P) == IF P THEN 1 ELSE 0

Forced == {r \in Runs : inv[r] # None /\ inv[r].force}

\* An analysis that is neither there nor owed has cost a kill or a --force.
Paid(k) ==
  paid[k] + One(\E r \in Runs : Owes(r, k)) <= crashes + Cardinality(Forced) + One(Have(k))

CostInv ==
  /\ AloneInv
  /\ \A r \in Runs : pc[r] = "idle" => inv[r] = None
  /\ clashed = {}
  /\ \A r \in Active : pc[r] \in Analysing /\ ~inv[r].force => ~Readable(Key(r))
  /\ \A k \in Keys : Paid(k)

\* Runs with --force are among those that have started.
LEMMA ForcedAreStarted ==
  ASSUME CostInv
  PROVE  IsFiniteSet(Forced) /\ Forced \subseteq Started /\ Cardinality(Forced) \in Nat
  <1>1. Forced \in SUBSET Started BY DEF CostInv, AloneInv, Forced, Started
  <1>2. IsFiniteSet(Started) BY DEF CostInv, AloneInv
  <1> QED BY <1>1, <1>2, FS_Subset, FS_CardinalityType

\* The account of a key, from the side of the one run that is active.
Balance(r, k, forced) ==
  paid[k] + One(Owes(r, k)) <= crashes + forced + One(Readable(k) \/ Carries(r, k))

\* Before the step of a run that is active.
LEMMA BalanceHolds ==
  ASSUME CostInv, NEW r \in Runs, r \in Active, NEW k \in Keys
  PROVE  Balance(r, k, Cardinality(Forced))
  <1>1. Paid(k) BY DEF CostInv
  <1>2. \A q \in Runs : q # r => ~Owes(q, k) /\ ~Carries(q, k)
    BY DEF CostInv, AloneInv, Owes, Carries, Active, Ended
  <1>3. (\E q \in Runs : Owes(q, k)) <=> Owes(r, k) BY <1>2
  <1>4. Have(k) <=> Readable(k) \/ Carries(r, k) BY <1>2 DEF Have
  <1> QED BY <1>1, <1>3, <1>4 DEF Paid, Balance, One

\* After it.
LEMMA BalanceSuffices ==
  ASSUME TypeOK, CostInv, NEW r \in Runs, r \in Active, UNCHANGED inv, clashed' = {},
         pc'[r] # "idle", \A q \in Runs : q # r => pc'[q] = pc[q],
         r \in Active' /\ pc'[r] \in Analysing /\ ~inv[r].force => ~Readable(Key(r))',
         \A k \in Keys : Balance(r, k, Cardinality(Forced))'
  PROVE  CostInv'
  <1>1. Started' = Started BY DEF Started, Active
  <1>2. \A q \in Active' : q = r BY DEF CostInv, AloneInv, Active
  <1>3. \A q \in Runs : pc'[q] = "idle" => inv'[q] = None BY DEF CostInv
  <1>4. ASSUME NEW k \in Keys PROVE Paid(k)'
    <2>1. \A q \in Runs : q # r => ~Owes(q, k)' /\ ~Carries(q, k)'
      BY <1>2 DEF Owes, Carries, Active, Ended
    <2>2. (\E q \in Runs : Owes(q, k))' <=> Owes(r, k)' BY <2>1
    <2>3. Have(k)' <=> Readable(k)' \/ Carries(r, k)' BY <2>1 DEF Have
    <2>4. Balance(r, k, Cardinality(Forced))' OBVIOUS
    <2> QED BY <2>2, <2>3, <2>4 DEF Paid, Balance, One
  <1> QED BY <1>1, <1>2, <1>3, <1>4 DEF CostInv, AloneInv

\* A step that pays for nothing, does not take the analysis of a key away
\* and adds none that are owed.
LEMMA NothingPaid ==
  ASSUME IInv, CostInv, NEW r \in Runs, r \in Active, UNCHANGED <<inv, clashed, paid, crashes>>,
         pc'[r] # "idle", \A q \in Runs : q # r => pc'[q] = pc[q],
         r \in Active' /\ pc'[r] \in Analysing /\ ~inv[r].force => ~Readable(Key(r))',
         \A k \in Keys : /\ Owes(r, k)' => Owes(r, k)
                         /\ Readable(k) \/ Carries(r, k) => Readable(k)' \/ Carries(r, k)'
  PROVE  CostInv'
  <1>1. TypeOK BY DEF IInv
  <1>2. Forced' = Forced BY DEF Forced
  <1>3. Cardinality(Forced) \in Nat BY ForcedAreStarted
  <1>4. ASSUME NEW k \in Keys PROVE Balance(r, k, Cardinality(Forced))'
    <2>1. Balance(r, k, Cardinality(Forced)) BY BalanceHolds
    <2>2. paid[k] \in Nat /\ crashes \in Nat BY <1>1 DEF TypeOK
    <2> HIDE DEF Forced
    <2> QED BY <1>2, <1>3, <2>1, <2>2 DEF Balance, One
  <1>5. clashed' = {} BY DEF CostInv
  <1> QED BY <1>1, <1>4, <1>5, BalanceSuffices

\* The work on an incident ends, or was never taken up.
LEMMA ConcludingCosts ==
  ASSUME IInv, CostInv, NEW r \in Runs, pc[r] \in {"next"} \cup Analysing,
         NEW status, NEW model, NEW result, Conclude(r, status, model, result),
         UNCHANGED <<inv, disk, paid, crashes>>
  PROVE  CostInv'
  <1> USE DEF Analysing
  <1>1. pc' = [pc EXCEPT ![r] = "next"] /\ at' = [at EXCEPT ![r] = @ + 1] BY DEF Conclude
  <1>2. pc'[r] = "next" /\ \A q \in Runs : q # r => pc'[q] = pc[q] BY <1>1 DEF IInv, TypeOK
  <1>3. at[r] \in Nat /\ at'[r] = at[r] + 1 BY <1>1 DEF IInv, TypeOK
  <1>4. Todo(r)' = Todo(r) BY DEF Todo
  <1>5. r \in Active BY DEF Active, Ended
  <1>6. ASSUME NEW k \in Keys
        PROVE  /\ Owes(r, k)' => Owes(r, k)
               /\ Readable(k) \/ Carries(r, k) => Readable(k)' \/ Carries(r, k)'
    <2>1. ASSUME Owes(r, k)' PROVE Owes(r, k)
      <3>1. PICK j \in DOMAIN Todo(r) \cap Nat :
              GroupFingerprint(Todo(r)[j]) = k /\ at'[r] <= j
        BY <1>2, <1>4, <2>1 DEF Owes
      <3>2. at[r] <= j BY <1>3, <3>1
      <3> QED BY <1>5, <2>1, <3>1, <3>2 DEF Owes
    <2>2. ~Carries(r, k) BY DEF Carries
    <2>3. Readable(k)' = Readable(k) BY DEF Readable, disk
    <2> QED BY <2>1, <2>2, <2>3
  <1> QED BY <1>2, <1>5, <1>6, NothingPaid DEF disk

\* The work on an incident goes on.
LEMMA MovingCosts ==
  ASSUME IInv, CostInv, NEW r \in Runs, pc[r] \in {"next"} \cup Analysing,
         NEW label \in {"reported"} \cup Analysing, pc' = [pc EXCEPT ![r] = label],
         label = "analyse" => inv[r].force \/ ~Readable(Key(r)),
         label # "analyse" => pc[r] \in Analysing \/ label = "reported",
         UNCHANGED <<inv, at, disk, paid, crashes>>
  PROVE  CostInv'
  <1> USE DEF Analysing
  <1>1. pc'[r] = label /\ \A q \in Runs : q # r => pc'[q] = pc[q] BY DEF IInv, TypeOK
  <1>2. Todo(r)' = Todo(r) /\ Key(r)' = Key(r) BY DEF Todo, Key, Current
  <1>3. r \in Active BY DEF Active, Ended
  <1>4. \A k : Readable(k)' = Readable(k) BY DEF Readable, disk
  <1>5. pc'[r] \in Analysing /\ ~inv[r].force => ~Readable(Key(r))'
    BY <1>1, <1>2, <1>3 DEF CostInv, Readable, disk
  <1>6. ASSUME NEW k \in Keys
        PROVE  /\ Owes(r, k)' => Owes(r, k)
               /\ Readable(k) \/ Carries(r, k) => Readable(k)' \/ Carries(r, k)'
    <2>1. ~Carries(r, k) BY DEF Carries
    <2>2. Owes(r, k)' => Owes(r, k) BY <1>1, <1>2, <1>3 DEF Owes
    <2> QED BY <1>4, <2>1, <2>2
  <1> QED BY <1>1, <1>3, <1>5, <1>6, NothingPaid DEF disk

\* A mock analysis costs nothing.
LEMMA MockCosts ==
  ASSUME IInv, CostInv, NEW r \in Runs, MockAnalyse(r)
  PROVE  CostInv'
  <1>1. /\ pc[r] = "analyse" /\ pc' = [pc EXCEPT ![r] = "store"]
        /\ UNCHANGED <<inv, at, cache, clashed, paid, crashes>>
    BY DEF MockAnalyse, disk, history
  <1>2. pc'[r] = "store" /\ \A q \in Runs : q # r => pc'[q] = pc[q]
    BY <1>1 DEF IInv, TypeOK
  <1>3. Todo(r)' = Todo(r) BY <1>1 DEF Todo
  <1>4. r \in Active BY <1>1 DEF Active, Ended
  <1>5. at[r] \in Nat /\ at'[r] = at[r] BY <1>1 DEF IInv, TypeOK
  <1>6. ASSUME NEW k \in Keys
        PROVE  /\ Owes(r, k)' => Owes(r, k)
               /\ Readable(k) \/ Carries(r, k) => Readable(k)' \/ Carries(r, k)'
    <2>1. ~Carries(r, k) BY <1>1 DEF Carries
    <2>2. Readable(k)' = Readable(k) BY <1>1 DEF Readable
    <2>3. ASSUME Owes(r, k)' PROVE Owes(r, k)
      <3>1. PICK j \in DOMAIN Todo(r) \cap Nat : GroupFingerprint(Todo(r)[j]) = k /\ at[r] < j
        BY <1>2, <1>3, <1>5, <2>3 DEF Owes
      <3>2. at[r] <= j BY <1>5, <3>1
      <3> QED BY <1>1, <1>4, <2>3, <3>1, <3>2 DEF Owes
    <2> QED BY <2>1, <2>2, <2>3
  <1> QED BY <1>1, <1>2, <1>4, <1>6, NothingPaid DEF Analysing

\* An accepted answer is paid for: a run without --force had no file for the
\* key, and one with it owed the analysis, once.
LEMMA AcceptedCosts ==
  ASSUME IInv, CostInv, KeysDiffer, NEW r \in Runs, AnswerAccepted(r)
  PROVE  CostInv'
  <1>1. /\ pc[r] \in {"waiting", "retrying"} /\ pc' = [pc EXCEPT ![r] = "store"]
        /\ paid' = [paid EXCEPT ![Key(r)] = @ + 1]
        /\ UNCHANGED <<inv, at, cache, clashed, crashes>>
    BY DEF AnswerAccepted, Asked, disk
  <1>2. pc'[r] = "store" /\ \A q \in Runs : q # r => pc'[q] = pc[q]
    BY <1>1 DEF IInv, TypeOK
  <1>3. Todo(r)' = Todo(r) /\ Key(r)' = Key(r) BY <1>1 DEF Todo, Key, Current
  <1>4. r \in Active /\ r \in Active' BY <1>1, <1>2 DEF Active, Ended
  <1>5. at[r] \in Nat /\ at'[r] = at[r] BY <1>1 DEF IInv, TypeOK
  <1>6. /\ at[r] \in DOMAIN Todo(r) /\ inv[r] \in Invocation
        /\ paid \in [Keys -> Nat] /\ crashes \in Nat
    BY <1>1 DEF IInv, TypeOK, RunOK, Placed, Working
  <1>7. Key(r) \in Keys /\ inv[r].batch \in Batches BY <1>6, CurrentFacts DEF Invocation
  <1>8. Cardinality(Forced) \in Nat BY ForcedAreStarted
  <1>9. Forced' = Forced BY <1>1 DEF Forced
  <1>10. ASSUME NEW k \in Keys, k # Key(r) PROVE Balance(r, k, Cardinality(Forced))'
    <2>1. Balance(r, k, Cardinality(Forced)) BY <1>4, BalanceHolds
    <2>2. paid'[k] = paid[k] /\ crashes' = crashes BY <1>1, <1>6, <1>10
    <2>3. ~Carries(r, k) BY <1>1 DEF Carries
    <2>4. Readable(k)' = Readable(k) BY <1>1 DEF Readable
    <2>5. ASSUME Owes(r, k)' PROVE Owes(r, k)
      <3>1. PICK j \in DOMAIN Todo(r) \cap Nat : GroupFingerprint(Todo(r)[j]) = k /\ at[r] < j
        BY <1>2, <1>3, <1>5, <2>5 DEF Owes
      <3>2. at[r] <= j BY <1>5, <3>1
      <3> QED BY <1>1, <1>4, <2>5, <3>1, <3>2 DEF Owes
    <2>6. paid[k] \in Nat BY <1>6
    <2> HIDE DEF Forced
    <2> QED BY <1>6, <1>8, <1>9, <2>1, <2>2, <2>3, <2>4, <2>5, <2>6 DEF Balance, One
  <1>11. Balance(r, Key(r), Cardinality(Forced))'
    <2> DEFINE k == Key(r)
    <2>1. Balance(r, k, Cardinality(Forced)) BY <1>4, <1>7, BalanceHolds
    <2>2. paid'[k] = paid[k] + 1 /\ crashes' = crashes /\ paid[k] \in Nat BY <1>1, <1>6, <1>7
    <2>3. Carries(r, k)' BY <1>2, <1>3 DEF Carries
    <2>4. ~Owes(r, k)'
      <3>1. SUFFICES ASSUME NEW j \in DOMAIN Todo(r) \cap Nat,
                            GroupFingerprint(Todo(r)[j]) = k, at[r] < j
                     PROVE  FALSE
        BY <1>2, <1>3, <1>5 DEF Owes
      <3>2. j = at[r] BY <1>6, <1>7, <3>1 DEF KeysDiffer, Todo, Key, Current
      <3> QED BY <1>5, <3>1, <3>2
    <2>5. CASE inv[r].force
      <3>1. Owes(r, k) BY <1>1, <1>4, <1>5, <1>6, <2>5 DEF Owes, Key, Current
      <3> HIDE DEF Forced, k
      <3> QED BY <1>3, <1>6, <1>8, <1>9, <2>1, <2>2, <2>3, <2>4, <3>1 DEF Balance, One, k
    <2>6. CASE ~inv[r].force
      <3>1. ~Readable(k) BY <1>1, <1>4, <2>6 DEF CostInv, Analysing
      <3>2. ~Carries(r, k) /\ ~Owes(r, k) BY <1>1, <2>6 DEF Carries, Owes
      <3> HIDE DEF Forced, k
      <3> QED BY <1>3, <1>6, <1>8, <1>9, <2>1, <2>2, <2>3, <2>4, <3>1, <3>2 DEF Balance, One, k
    <2> QED BY <2>5, <2>6
  <1>12. ASSUME NEW k \in Keys PROVE Balance(r, k, Cardinality(Forced))'
    BY <1>3, <1>10, <1>11
  <1>13. TypeOK /\ clashed' = {} BY <1>1 DEF IInv, CostInv
  <1>14. pc'[r] \notin Analysing BY <1>2 DEF Analysing
  <1> QED BY <1>1, <1>2, <1>4, <1>12, <1>13, <1>14, BalanceSuffices

\* A file that is opened is torn, but the analysis is on its way.
LEMMA OpenCosts ==
  ASSUME IInv, CostInv, NEW r \in Runs, OpenCacheFile(r)
  PROVE  CostInv'
  <1>1. /\ pc[r] = "store" /\ pc' = [pc EXCEPT ![r] = "writing"]
        /\ cache' = [cache EXCEPT ![Key(r)] = Unreadable("torn")]
        /\ clashed' = IF Writers(Key(r)) = {} THEN clashed \ {Key(r)} ELSE clashed \cup {Key(r)}
        /\ UNCHANGED <<inv, at, paid, crashes>>
    BY DEF OpenCacheFile, history
  <1>2. pc'[r] = "writing" /\ \A q \in Runs : q # r => pc'[q] = pc[q]
    BY <1>1 DEF IInv, TypeOK
  <1>3. Todo(r)' = Todo(r) /\ Key(r)' = Key(r) BY <1>1 DEF Todo, Key, Current
  <1>4. r \in Active BY <1>1 DEF Active, Ended
  <1>5. at'[r] = at[r] /\ cache \in [Keys -> CacheFile] BY <1>1 DEF IInv, TypeOK
  <1>6. clashed' = clashed
    <2>1. ASSUME NEW q \in Writers(Key(r)) PROVE FALSE
      <3>1. q \in Active /\ q # r BY <1>1 DEF Writers, Active, Ended
      <3> QED BY <1>4, <3>1 DEF CostInv, AloneInv
    <2> QED BY <1>1, <2>1 DEF CostInv
  <1>7. ASSUME NEW k \in Keys
        PROVE  /\ Owes(r, k)' => Owes(r, k)
               /\ Readable(k) \/ Carries(r, k) => Readable(k)' \/ Carries(r, k)'
    <2>1. Owes(r, k)' => Owes(r, k) BY <1>1, <1>2, <1>3, <1>4, <1>5 DEF Owes
    <2>2. CASE k = Key(r) BY <1>2, <1>3, <2>1, <2>2 DEF Carries
    <2>3. CASE k # Key(r)
      <3>1. cache'[k] = cache[k] BY <1>1, <1>5, <2>3
      <3> QED BY <2>1, <2>3, <3>1 DEF Carries, Readable
    <2> QED BY <2>2, <2>3
  <1> QED BY <1>1, <1>2, <1>4, <1>6, <1>7, NothingPaid DEF Analysing

\* A file that nobody else has open is whole when it has been written.
LEMMA FillCosts ==
  ASSUME IInv, CostInv, NEW r \in Runs, FillCacheFile(r)
  PROVE  CostInv'
  <1>1. /\ pc[r] = "writing" /\ Conclude(r, "ok", ModeModel(r), answer[r])
        /\ UNCHANGED <<inv, clashed, paid, crashes>>
    BY DEF FillCacheFile, history
  <1>2. /\ pc' = [pc EXCEPT ![r] = "next"] /\ at' = [at EXCEPT ![r] = @ + 1]
        /\ pc'[r] = "next" /\ \A q \in Runs : q # r => pc'[q] = pc[q]
    BY <1>1 DEF Conclude, IInv, TypeOK
  <1>3. at[r] \in Nat /\ at'[r] = at[r] + 1 BY <1>2 DEF IInv, TypeOK
  <1>4. Todo(r)' = Todo(r) BY <1>1 DEF Todo
  <1>5. r \in Active BY <1>1 DEF Active, Ended
  <1>6. PICK by : cache' = [cache EXCEPT ![Key(r)] = Whole(by, answer[r])]
    BY DEF FillCacheFile, CostInv
  <1>7. cache \in [Keys -> CacheFile] BY DEF IInv, TypeOK
  <1>8. ASSUME NEW k \in Keys
        PROVE  /\ Owes(r, k)' => Owes(r, k)
               /\ Readable(k) \/ Carries(r, k) => Readable(k)' \/ Carries(r, k)'
    <2>1. ASSUME Owes(r, k)' PROVE Owes(r, k)
      <3>1. PICK j \in DOMAIN Todo(r) \cap Nat :
              GroupFingerprint(Todo(r)[j]) = k /\ at'[r] <= j
        BY <1>2, <1>4, <2>1 DEF Owes
      <3>2. at[r] < j BY <1>3, <3>1
      <3> QED BY <1>1, <1>5, <2>1, <3>1, <3>2 DEF Owes
    <2>2. CASE k = Key(r)
      <3>1. Readable(k)' BY <1>6, <1>7, <2>2 DEF Readable, Whole
      <3> QED BY <2>1, <3>1
    <2>3. CASE k # Key(r)
      <3>1. cache'[k] = cache[k] BY <1>6, <1>7, <2>3
      <3> QED BY <2>1, <2>3, <3>1 DEF Carries, Readable
    <2> QED BY <2>2, <2>3
  <1> QED BY <1>1, <1>2, <1>5, <1>8, NothingPaid DEF Analysing

\* A kill costs one analysis at most: the one that the run had not stored.
LEMMA CrashCosts ==
  ASSUME IInv, CostInv, NEW r \in Runs, Crash(r)
  PROVE  CostInv'
  <1>1. /\ r \in Active /\ pc' = [pc EXCEPT ![r] = "crashed"] /\ crashes' = crashes + 1
        /\ UNCHANGED <<inv, cache, clashed, paid>>
    BY DEF Crash, disk
  <1>2. pc'[r] = "crashed" /\ \A q \in Runs : q # r => pc'[q] = pc[q]
    BY <1>1 DEF IInv, TypeOK
  <1>3. r \notin Active' BY <1>2 DEF Active, Ended
  <1>4. Cardinality(Forced) \in Nat BY ForcedAreStarted
  <1>5. Forced' = Forced BY <1>1 DEF Forced
  <1>6. ASSUME NEW k \in Keys PROVE Balance(r, k, Cardinality(Forced))'
    <2>1. Balance(r, k, Cardinality(Forced)) BY <1>1, BalanceHolds
    <2>2. paid[k] \in Nat /\ crashes \in Nat BY DEF IInv, TypeOK
    <2>3. ~Owes(r, k)' BY <1>3 DEF Owes
    <2> HIDE DEF Forced
    <2> QED BY <1>1, <1>4, <1>5, <2>1, <2>2, <2>3 DEF Balance, One
  <1>7. TypeOK /\ clashed' = {} BY <1>1 DEF IInv, CostInv
  <1> QED BY <1>1, <1>2, <1>3, <1>6, <1>7, BalanceSuffices

\* A run that starts may owe analyses only if it is forced to.
LEMMA InvokeCosts ==
  ASSUME IInv, CostInv, MaxActive = 1, NEW r \in Runs, Invoke(r)
  PROVE  CostInv'
  <1>1. /\ pc[r] = "idle" /\ Cardinality(Active) < 1
        /\ UNCHANGED <<cache, clashed, paid, crashes>>
    BY DEF Invoke, disk, history
  <1>2. PICK c \in Invocations :
          /\ inv' = [inv EXCEPT ![r] =
                       [c EXCEPT !.dryRun = @ \/ (c.mode = "gemini" /\ c.creds = "none")]]
          /\ pc' = [pc EXCEPT ![r] = IF c.batch = <<>> THEN "quit" ELSE "next"]
    BY DEF Invoke
  <1> DEFINE settings == [c EXCEPT !.dryRun = @ \/ (c.mode = "gemini" /\ c.creds = "none")]
             label == IF c.batch = <<>> THEN "quit" ELSE "next"
  <1>3. /\ inv' = [inv EXCEPT ![r] = settings] /\ pc' = [pc EXCEPT ![r] = label]
         /\ label \in {"quit", "next"}
    BY <1>2
  <1> HIDE DEF settings, label
  <1>4. /\ inv'[r] = settings /\ pc'[r] = label
        /\ \A q \in Runs : q # r => inv'[q] = inv[q] /\ pc'[q] = pc[q]
    BY <1>3 DEF IInv, TypeOK
  <1>5. Active = {} BY StartsAlone DEF CostInv
  <1>6. inv[r] = None BY <1>1 DEF CostInv
  <1>7. AloneInv' BY NextAlone DEF CostInv, Next
  <1>8. \A q \in Runs : pc'[q] = "idle" => inv'[q] = None BY <1>4, <1>3 DEF CostInv
  <1>9. \A q \in Active' : q = r BY <1>4, <1>5 DEF Active
  <1>10. pc'[r] \notin Analysing \cup {"store", "writing"} BY <1>4, <1>3 DEF Analysing
  <1>11. ASSUME NEW k \in Keys PROVE Paid(k)'
    <2>1. Paid(k) BY DEF CostInv
    <2>2. ~\E q \in Runs : Owes(q, k) BY <1>5 DEF Owes
    <2>3. \A q \in Runs : ~Carries(q, k) /\ ~Carries(q, k)'
      BY <1>1, <1>4, <1>5, <1>9, <1>10 DEF Carries, Active, Ended
    <2>4. Have(k)' <=> Have(k) BY <1>1, <2>3 DEF Have, Readable
    <2>5. paid[k] \in Nat /\ crashes \in Nat /\ paid'[k] = paid[k] /\ crashes' = crashes
      BY <1>1 DEF IInv, TypeOK
    <2>6. Cardinality(Forced) \in Nat BY ForcedAreStarted
    <2>7. CASE (\E q \in Runs : Owes(q, k)')
      <3>1. settings.force BY <1>4, <1>9, <2>7 DEF Owes
      <3>2. settings \in Invocation
        <4>1. IInv' BY InvokeStep
        <4>2. RunOK(r)' /\ pc'[r] # "idle" BY <1>4, <1>3, <4>1 DEF IInv
        <4> QED BY <1>4, <4>2 DEF RunOK, Placed
      <3>3. Forced' = Forced \cup {r} /\ r \notin Forced
        BY <1>4, <1>6, <3>1, <3>2, InvocationsAssumption DEF Forced
      <3>4. Cardinality(Forced') = Cardinality(Forced) + 1
        BY <3>3, ForcedAreStarted, FS_AddElement
      <3> HIDE DEF Forced
      <3> QED BY <2>1, <2>2, <2>4, <2>5, <2>6, <3>4 DEF Paid, One
    <2>8. CASE ~\E q \in Runs : Owes(q, k)'
      <3>1. Forced' \in {Forced, Forced \cup {r}} BY <1>4, <1>6 DEF Forced
      <3>2. Cardinality(Forced') \in {Cardinality(Forced), Cardinality(Forced) + 1}
        <4>1. CASE Forced' = Forced BY <4>1
        <4>2. CASE Forced' = Forced \cup {r} BY <4>2, ForcedAreStarted, FS_AddElement
        <4> QED BY <3>1, <4>1, <4>2
      <3> QED BY <2>1, <2>2, <2>4, <2>5, <2>6, <2>8, <3>2 DEF Paid, One
    <2> QED BY <2>7, <2>8
  <1> QED BY <1>1, <1>7, <1>8, <1>9, <1>10, <1>11 DEF CostInv

\* Initially nothing is paid.
LEMMA InitCosts == Init => CostInv
  <1> SUFFICES ASSUME Init PROVE CostInv OBVIOUS
  <1>1. Started = {} /\ Active = {} /\ Forced = {} BY DEF Init, Started, Active, Forced
  <1>2. IsFiniteSet({}) /\ Cardinality({}) = 0 BY FS_EmptySet
  <1>3. ASSUME NEW k \in Keys PROVE Paid(k)
    <2>1. ~\E r \in Runs : Owes(r, k) BY <1>1 DEF Owes
    <2>2. paid[k] = 0 /\ crashes = 0 BY DEF Init
    <2> QED BY <1>1, <1>2, <2>1, <2>2 DEF Paid, One
  <1> QED BY <1>1, <1>3, InitAlone DEF Init, CostInv

\* No step spends more than it may.
LEMMA NextCosts ==
  ASSUME MaxActive = 1, KeysDiffer, IInv, CostInv, [Next]_vars
  PROVE  CostInv'
  <1>1. CASE UNCHANGED vars
    <2>1. UNCHANGED <<inv, pc, at, cache, clashed, paid, crashes>>
      BY <1>1 DEF vars, disk, history
    <2>2. Started' = Started /\ Forced' = Forced /\ Active' = Active
      BY <2>1 DEF Started, Forced, Active
    <2>3. \A r \in Runs : Key(r)' = Key(r) /\ Todo(r)' = Todo(r) BY <2>1 DEF Key, Current, Todo
    <2>4. ASSUME NEW k \in Keys PROVE Paid(k)'
      <3>1. \A r \in Runs : (Owes(r, k)' <=> Owes(r, k)) /\ (Carries(r, k)' <=> Carries(r, k))
        BY <2>1, <2>2, <2>3 DEF Owes, Carries
      <3>2. Have(k)' <=> Have(k) BY <2>1, <3>1 DEF Have, Readable
      <3>3. Paid(k) BY DEF CostInv
      <3> QED BY <2>1, <2>2, <3>1, <3>2, <3>3 DEF Paid, One
    <2>5. \A r \in Active : pc[r] \in Analysing /\ ~inv[r].force => ~Readable(Key(r))'
      BY <2>1, <2>3 DEF CostInv, Readable, Active
    <2>6. AloneInv' BY NextAlone DEF CostInv
    <2> QED BY <2>1, <2>2, <2>4, <2>5, <2>6 DEF CostInv
  <1>2. ASSUME NEW r \in Runs, Invoke(r) PROVE CostInv' BY <1>2, InvokeCosts
  <1>3. ASSUME NEW r \in Runs, Crash(r) PROVE CostInv' BY <1>3, CrashCosts
  <1>4. ASSUME NEW r \in Runs, Step(r) PROVE CostInv'
    <2> USE DEF Analysing
    <2>1. CASE DryLook(r) BY <2>1, ConcludingCosts DEF DryLook, AtIncident, history
    <2>2. CASE Hit(r) BY <2>2, ConcludingCosts DEF Hit, AtIncident, history
    <2>3. CASE Miss(r) BY <2>3, MovingCosts DEF Miss, AtIncident, history
    <2>4. CASE MockAnalyse(r) BY <2>4, MockCosts
    <2>5. CASE LimitReached(r) BY <2>5, ConcludingCosts DEF LimitReached, history
    <2>6. CASE Unavailable(r) BY <2>6, ConcludingCosts DEF Unavailable, history
    <2>7. CASE Send(r) BY <2>7, MovingCosts DEF Send
    <2>8. CASE AnswerAccepted(r) BY <2>8, AcceptedCosts
    <2>9. CASE AnswerRejected(r) BY <2>9, ConcludingCosts DEF AnswerRejected, Asked, history
    <2>10. CASE Fail(r) BY <2>10, ConcludingCosts DEF Fail, Asked, history
    <2>11. CASE Transient(r) BY <2>11, MovingCosts DEF Transient, history
    <2>12. CASE Retry(r) BY <2>12, MovingCosts DEF Retry
    <2>13. CASE OpenCacheFile(r) BY <2>13, OpenCosts
    <2>14. CASE FillCacheFile(r) BY <2>14, FillCosts
    <2>15. CASE Report(r) BY <2>15, MovingCosts DEF Report, history
    <2> QED
      BY <1>4, <2>1, <2>2, <2>3, <2>4, <2>5, <2>6, <2>7, <2>8, <2>9, <2>10, <2>11, <2>12,
         <2>13, <2>14, <2>15 DEF Step
  <1> QED BY <1>1, <1>2, <1>3, <1>4 DEF Next

\* As long as invocations do not overlap, an analysis is paid for once, once
\* more for every kill, and once more for every run with --force, for any
\* number of runs and kills, any settings and batches whose groups have keys
\* of their own (pipeline.py, cache.py).
THEOREM KillsCostOneAnalysis ==
  ASSUME MaxActive = 1, KeysDiffer
  PROVE  Spec => []CrashCostsOneAnalysis
  <1>1. IInv /\ CostInv => CrashCostsOneAnalysis
    <2> SUFFICES ASSUME IInv, CostInv, NEW k \in Keys
                 PROVE  paid[k] <= 1 + crashes + Cardinality(Forced)
      BY DEF CrashCostsOneAnalysis, Forced
    <2>1. Paid(k) /\ paid[k] \in Nat /\ crashes \in Nat BY DEF CostInv, IInv, TypeOK
    <2>2. Cardinality(Forced) \in Nat BY ForcedAreStarted
    <2> HIDE DEF Forced
    <2> QED BY <2>1, <2>2 DEF Paid, One
  <1>2. IInv /\ CostInv /\ [Next]_vars => IInv' /\ CostInv' BY NextIInv, NextCosts
  <1> QED BY <1>1, <1>2, InitIInv, InitCosts, PTL DEF Spec

-----------------------------------------------------------------------------
(* The summary, for any number of overlapping invocations.                 *)

Called == {"ok", "unavailable", "validation_failed", "error"}
Skipped == {"skipped_limit_reached"}

\* The incidents are those up to the one the run is at.
Listed(r) ==
  /\ Len(incidents[r]) = at[r] - 1
  /\ \A k \in DOMAIN incidents[r] :
       k \in DOMAIN Todo(r) /\ incidents[r][k].events = Todo(r)[k]
  /\ pc[r] = "reported" => at[r] \notin DOMAIN Todo(r)

\* Calls are counted when they return, before their incident is there.
Tally(r) ==
  /\ inv[r].dryRun => cached[r] + newCalls[r] = Len(incidents[r])
  /\ ~inv[r].dryRun => cached[r] = Count(r, {"cached"})
  /\ ~inv[r].dryRun /\ inv[r].mode = "gemini" /\ pc[r] # "crashed" =>
       newCalls[r] = Count(r, Called) + One(pc[r] \in {"store", "writing"})
  /\ limited[r] <=> Count(r, Skipped) > 0
  /\ limited[r] => newCalls[r] >= MaxRequests

Account(r) ==
  IF pc[r] = "idle"
  THEN /\ at[r] = 1 /\ incidents[r] = <<>> /\ cached[r] = 0 /\ newCalls[r] = 0 /\ ~limited[r]
  ELSE Listed(r) /\ Tally(r)

AccountInv == \A r \in Runs : Account(r)

\* How many incidents of a report have a status.
LEMMA CountIsNat ==
  ASSUME NEW r, incidents[r] \in Seq(IncidentType), NEW statuses
  PROVE  Count(r, statuses) \in Nat
  <1> DEFINE S == {k \in DOMAIN incidents[r] : incidents[r][k].status \in statuses}
  <1>1. DOMAIN incidents[r] = 1..Len(incidents[r]) /\ Len(incidents[r]) \in Nat OBVIOUS
  <1>2. IsFiniteSet(1..Len(incidents[r])) BY <1>1, FS_Interval
  <1>3. S \in SUBSET (1..Len(incidents[r])) BY <1>1
  <1>4. IsFiniteSet(S) BY <1>2, <1>3, FS_Subset
  <1> QED BY <1>4, FS_CardinalityType DEF Count

\* How many have it when one more has been appended.
LEMMA CountAppended ==
  ASSUME NEW r, incidents[r] \in Seq(IncidentType), NEW inc \in IncidentType,
         incidents'[r] = Append(incidents[r], inc), NEW statuses
  PROVE  Count(r, statuses)' = Count(r, statuses) + One(inc.status \in statuses)
  <1> DEFINE n == Len(incidents[r])
             S == {k \in DOMAIN incidents[r] : incidents[r][k].status \in statuses}
             T == {k \in DOMAIN incidents'[r] : incidents'[r][k].status \in statuses}
  <1>1. DOMAIN incidents[r] = 1..n /\ n \in Nat OBVIOUS
  <1>2. /\ DOMAIN incidents'[r] = 1..(n + 1) /\ incidents'[r][n + 1] = inc
        /\ \A k \in 1..n : incidents'[r][k] = incidents[r][k]
    OBVIOUS
  <1>3. IsFiniteSet(1..n) BY <1>1, FS_Interval
  <1>4. S \in SUBSET (1..n) BY <1>1
  <1>5. IsFiniteSet(S) BY <1>3, <1>4, FS_Subset
  <1>6. n + 1 \notin S BY <1>1, <1>4
  <1>7. Count(r, statuses) = Cardinality(S) /\ Count(r, statuses)' = Cardinality(T) BY DEF Count
  <1>8. Cardinality(S) \in Nat BY <1>5, FS_CardinalityType
  <1>9. \A k : k \in 1..(n + 1) <=> k \in 1..n \/ k = n + 1 BY <1>1
  <1>10. CASE inc.status \in statuses
    <2>1. T = S \cup {n + 1} BY <1>1, <1>2, <1>9, <1>10
    <2> HIDE DEF S, T
    <2> QED BY <1>5, <1>6, <1>7, <1>8, <1>10, <2>1, FS_AddElement DEF One
  <1>11. CASE inc.status \notin statuses
    <2>1. T = S BY <1>1, <1>2, <1>9, <1>11
    <2> HIDE DEF S, T
    <2> QED BY <1>7, <1>8, <1>11, <2>1 DEF One
  <1> QED BY <1>10, <1>11

\* What is said of a run depends on its own variables.
LEMMA AccountFrame ==
  ASSUME NEW r \in Runs, Account(r),
         inv'[r] = inv[r], pc'[r] = pc[r], at'[r] = at[r], incidents'[r] = incidents[r],
         cached'[r] = cached[r], newCalls'[r] = newCalls[r], limited'[r] = limited[r]
  PROVE  Account(r)'
  <1>1. Todo(r)' = Todo(r) BY DEF Todo
  <1>2. \A statuses : Count(r, statuses)' = Count(r, statuses) BY DEF Count
  <1>3. Listed(r) => Listed(r)' BY <1>1 DEF Listed
  <1>4. Tally(r) => Tally(r)' BY <1>2 DEF Tally
  <1> QED BY <1>3, <1>4 DEF Account

\* The step of a run that is not at the end of an incident.
LEMMA MovingAccounts ==
  ASSUME IInv, AccountInv, NEW r \in Runs, NEW label, pc' = [pc EXCEPT ![r] = label],
         pc[r] \notin {"idle", "crashed"}, label # "idle",
         label = "reported" => at[r] \notin DOMAIN Todo(r),
         UNCHANGED <<inv, at, incidents, cached, limited>>,
         newCalls' \in [Runs -> Nat], \A q \in Runs : q # r => newCalls'[q] = newCalls[q],
         inv[r].dryRun => newCalls'[r] = newCalls[r],
         newCalls'[r] >= newCalls[r],
         ~inv[r].dryRun /\ inv[r].mode = "gemini" /\ label # "crashed" =>
           newCalls'[r] + One(pc[r] \in {"store", "writing"})
             = newCalls[r] + One(label \in {"store", "writing"})
  PROVE  AccountInv'
  <1>1. pc'[r] = label /\ \A q \in Runs : q # r => pc'[q] = pc[q] BY DEF IInv, TypeOK
  <1>2. ASSUME NEW q \in Runs, q # r PROVE Account(q)'
    BY <1>1, <1>2, AccountFrame DEF AccountInv
  <1>3. Listed(r) /\ Tally(r) BY DEF AccountInv, Account
  <1>4. Todo(r)' = Todo(r) BY DEF Todo
  <1>5. \A statuses : Count(r, statuses)' = Count(r, statuses) BY DEF Count
  <1>6. Listed(r)' BY <1>1, <1>3, <1>4 DEF Listed
  <1>7. incidents[r] \in Seq(IncidentType) BY DEF IInv, TypeOK, IncidentType
  <1>8. Count(r, Called) \in Nat BY <1>7, CountIsNat
  <1>9. newCalls[r] \in Nat /\ newCalls'[r] \in Nat /\ MaxRequests \in Int
    BY LimitsAssumption DEF IInv, TypeOK
  <1>10. ~inv'[r].dryRun /\ inv'[r].mode = "gemini" /\ pc'[r] # "crashed" =>
           newCalls'[r] = Count(r, Called)' + One(pc'[r] \in {"store", "writing"})
    <2> SUFFICES ASSUME ~inv[r].dryRun, inv[r].mode = "gemini", label # "crashed"
                 PROVE  newCalls'[r] = Count(r, Called) + One(label \in {"store", "writing"})
      BY <1>1, <1>5
    <2>1. newCalls[r] = Count(r, Called) + One(pc[r] \in {"store", "writing"})
      BY <1>3 DEF Tally
    <2>2. newCalls'[r] + One(pc[r] \in {"store", "writing"})
             = newCalls[r] + One(label \in {"store", "writing"})
      OBVIOUS
    <2> QED BY <1>8, <1>9, <2>1, <2>2 DEF One
  <1>11. limited'[r] => newCalls'[r] >= MaxRequests BY <1>3, <1>9 DEF Tally
  <1>12. Tally(r)' BY <1>3, <1>5, <1>10, <1>11 DEF Tally
  <1> QED BY <1>1, <1>2, <1>6, <1>12 DEF AccountInv, Account

\* The step that ends an incident.
LEMMA ConcludingAccounts ==
  ASSUME IInv, AccountInv, NEW r \in Runs, pc[r] \in {"next"} \cup Working,
         at[r] \in DOMAIN Todo(r), inv' = inv,
         NEW status \in Statuses, NEW model \in Models \cup {Mock, None},
         NEW result \in Result \cup {None}, Conclude(r, status, model, result),
         newCalls' \in [Runs -> Nat], limited' \in [Runs -> BOOLEAN],
         \A q \in Runs : q # r => /\ cached'[q] = cached[q] /\ newCalls'[q] = newCalls[q]
                                  /\ limited'[q] = limited[q],
         inv[r].dryRun => cached'[r] + newCalls'[r] = cached[r] + newCalls[r] + 1,
         ~inv[r].dryRun => cached'[r] = cached[r] + One(status \in {"cached"}),
         ~inv[r].dryRun /\ inv[r].mode = "gemini" =>
           newCalls'[r] + One(pc[r] \in {"store", "writing"})
             = newCalls[r] + One(status \in Called),
         limited'[r] = (limited[r] \/ status \in Skipped),
         newCalls'[r] >= newCalls[r],
         status \in Skipped => newCalls'[r] >= MaxRequests
  PROVE  AccountInv'
  <1> DEFINE inc == Incident(Current(r), status, model, result)
  <1>1. inv[r] \in Invocation /\ Listed(r) /\ Tally(r) /\ pc[r] # "crashed"
    BY DEF IInv, RunOK, Placed, AccountInv, Account, Working
  <1>2. Current(r) \in WorkItems BY <1>1, CurrentFacts
  <1>3. inc \in IncidentType /\ inc.status = status /\ inc.events = Current(r)
    BY <1>2 DEF Incident, IncidentType, Statuses
  <1>4. incidents \in [Runs -> Seq(IncidentType)] BY DEF IInv, TypeOK, IncidentType
  <1>5. /\ incidents' = [incidents EXCEPT ![r] = Append(incidents[r], inc)]
        /\ at' = [at EXCEPT ![r] = at[r] + 1] /\ pc' = [pc EXCEPT ![r] = "next"]
    BY DEF Conclude
  <1> HIDE DEF inc
  <1>6. /\ incidents'[r] = Append(incidents[r], inc) /\ at'[r] = at[r] + 1 /\ pc'[r] = "next"
        /\ \A q \in Runs : q # r => /\ incidents'[q] = incidents[q] /\ at'[q] = at[q]
                                    /\ pc'[q] = pc[q]
    BY <1>4, <1>5 DEF IInv, TypeOK
  <1>7. ASSUME NEW q \in Runs, q # r PROVE Account(q)'
    BY <1>6, <1>7, AccountFrame DEF AccountInv
  <1>8. incidents[r] \in Seq(IncidentType) /\ Todo(r)' = Todo(r) BY <1>4 DEF Todo
  <1>9. Len(incidents[r]) = at[r] - 1 /\ at[r] \in Nat \ {0} BY <1>1 DEF Listed, IInv, TypeOK
  <1>10. Listed(r)'
    <2>1. /\ Len(incidents'[r]) = Len(incidents[r]) + 1
          /\ \A k \in DOMAIN incidents'[r] :
               \/ k \in DOMAIN incidents[r] /\ incidents'[r][k] = incidents[r][k]
               \/ k = Len(incidents[r]) + 1 /\ incidents'[r][k] = inc
      BY <1>3, <1>6, <1>8
    <2>2. Len(incidents[r]) + 1 = at[r] BY <1>9
    <2>3. \A k \in DOMAIN incidents'[r] :
            k \in DOMAIN Todo(r) /\ incidents'[r][k].events = Todo(r)[k]
      BY <1>1, <1>3, <2>1, <2>2 DEF Listed, Current
    <2>4. Len(incidents'[r]) = at'[r] - 1 BY <1>6, <1>9, <2>1
    <2> QED BY <1>6, <1>8, <2>3, <2>4 DEF Listed
  <1>11. \A statuses : Count(r, statuses)' = Count(r, statuses) + One(status \in statuses)
    BY <1>3, <1>6, <1>8, CountAppended
  <1>12. \A statuses : Count(r, statuses) \in Nat BY <1>8, CountIsNat
  <1>13. /\ newCalls[r] \in Nat /\ newCalls'[r] \in Nat /\ MaxRequests \in Int
         /\ cached[r] \in Nat
    BY LimitsAssumption DEF IInv, TypeOK
  <1>14. Tally(r)'
    <2>1. inv[r].dryRun => cached'[r] + newCalls'[r] = Len(incidents'[r])
      <3>1. inv[r].dryRun => cached[r] + newCalls[r] = Len(incidents[r]) BY <1>1 DEF Tally
      <3>2. Len(incidents'[r]) = Len(incidents[r]) + 1 BY <1>3, <1>6, <1>8
      <3> QED BY <1>9, <3>1, <3>2
    <2>2. ~inv[r].dryRun => cached'[r] = Count(r, {"cached"})' BY <1>1, <1>11 DEF Tally
    <2>3. ASSUME ~inv[r].dryRun, inv[r].mode = "gemini"
          PROVE  newCalls'[r] = Count(r, Called)' + One(pc'[r] \in {"store", "writing"})
      <3>1. newCalls[r] = Count(r, Called) + One(pc[r] \in {"store", "writing"})
        BY <1>1, <2>3 DEF Tally
      <3>2. newCalls'[r] + One(pc[r] \in {"store", "writing"})
              = newCalls[r] + One(status \in Called)
        BY <2>3
      <3>3. Count(r, Called)' = Count(r, Called) + One(status \in Called) BY <1>11
      <3>4. One(pc'[r] \in {"store", "writing"}) = 0 BY <1>6 DEF One
      <3>5. Count(r, Called) \in Nat BY <1>12
      <3> QED BY <1>13, <3>1, <3>2, <3>3, <3>4, <3>5 DEF One
    <2>4. limited'[r] <=> Count(r, Skipped)' > 0
      <3>1. limited[r] <=> Count(r, Skipped) > 0 BY <1>1 DEF Tally
      <3>2. Count(r, Skipped)' = Count(r, Skipped) + One(status \in Skipped) BY <1>11
      <3>3. Count(r, Skipped) \in Nat BY <1>12
      <3>4. CASE status \in Skipped
        <4>1. Count(r, Skipped)' > 0 BY <3>2, <3>3, <3>4 DEF One
        <4> QED BY <3>4, <4>1
      <3>5. CASE status \notin Skipped
        <4>1. Count(r, Skipped)' = Count(r, Skipped) BY <3>2, <3>3, <3>5 DEF One
        <4> QED BY <3>1, <3>5, <4>1
      <3> QED BY <3>4, <3>5
    <2>5. limited'[r] => newCalls'[r] >= MaxRequests
      <3>1. limited[r] => newCalls[r] >= MaxRequests BY <1>1 DEF Tally
      <3> QED BY <1>13, <3>1
    <2> QED BY <1>6, <2>1, <2>2, <2>3, <2>4, <2>5 DEF Tally
  <1> QED BY <1>6, <1>7, <1>10, <1>14 DEF AccountInv, Account

\* Facts about Bump.
LEMMA Bumping ==
  ASSUME NEW counter \in [Runs -> Nat], NEW r \in Runs
  PROVE  /\ Bump(counter, r) \in [Runs -> Nat] /\ Bump(counter, r)[r] = counter[r] + 1
         /\ \A q \in Runs : q # r => Bump(counter, r)[q] = counter[q]
  BY DEF Bump

\* The counters have their types, and a run at an incident has settings.
LEMMA Counters ==
  ASSUME IInv
  PROVE  /\ cached \in [Runs -> Nat] /\ newCalls \in [Runs -> Nat]
         /\ limited \in [Runs -> BOOLEAN] /\ MaxRequests \in Int
         /\ \A r \in Runs : pc[r] \in Working => at[r] \in DOMAIN Todo(r) /\ ~inv[r].dryRun
  BY LimitsAssumption DEF IInv, TypeOK, RunOK, Placed

\* A dry look counts a hit or a call.
LEMMA DryLookAccounts ==
  ASSUME IInv, AccountInv, NEW r \in Runs, DryLook(r)
  PROVE  AccountInv'
  <1>1. /\ pc[r] = "next" /\ at[r] \in DOMAIN Todo(r) /\ inv[r].dryRun
        /\ Conclude(r, "dry_run", None, None) /\ UNCHANGED <<inv, limited>>
        /\ \/ cached' = Bump(cached, r) /\ newCalls' = newCalls
           \/ newCalls' = Bump(newCalls, r) /\ cached' = cached
    BY DEF DryLook, AtIncident
  <1>2. /\ cached \in [Runs -> Nat] /\ newCalls \in [Runs -> Nat] /\ limited \in [Runs -> BOOLEAN]
    BY Counters
  <1>3. /\ newCalls' \in [Runs -> Nat]
        /\ \A q \in Runs : q # r => cached'[q] = cached[q] /\ newCalls'[q] = newCalls[q]
        /\ cached'[r] + newCalls'[r] = cached[r] + newCalls[r] + 1
        /\ newCalls'[r] >= newCalls[r]
    <2>1. cached[r] \in Nat /\ newCalls[r] \in Nat BY <1>2
    <2>2. CASE cached' = Bump(cached, r) /\ newCalls' = newCalls
      <3>1. cached'[r] = cached[r] + 1 /\ \A q \in Runs : q # r => cached'[q] = cached[q]
        BY <1>2, <2>2, Bumping
      <3> QED BY <1>2, <2>1, <2>2, <3>1
    <2>3. CASE newCalls' = Bump(newCalls, r) /\ cached' = cached
      <3>1. /\ newCalls'[r] = newCalls[r] + 1 /\ newCalls' \in [Runs -> Nat]
            /\ \A q \in Runs : q # r => newCalls'[q] = newCalls[q]
        BY <1>2, <2>3, Bumping
      <3> QED BY <1>2, <2>1, <2>3, <3>1
    <2> QED BY <1>1, <2>2, <2>3
  <1>4. "dry_run" \in Statuses \ Skipped /\ None \in Models \cup {Mock, None}
        /\ None \in Result \cup {None}
    BY DEF Statuses, Skipped
  <1> QED BY <1>1, <1>2, <1>3, <1>4, ConcludingAccounts

\* A hit is counted as one.
LEMMA HitAccounts ==
  ASSUME IInv, AccountInv, NEW r \in Runs, Hit(r)
  PROVE  AccountInv'
  <1>1. /\ pc[r] = "next" /\ at[r] \in DOMAIN Todo(r) /\ ~inv[r].dryRun /\ Readable(Key(r))
        /\ Conclude(r, "cached", cache[Key(r)].model, cache[Key(r)].result)
        /\ UNCHANGED <<inv, newCalls, limited>> /\ cached' = Bump(cached, r)
    BY DEF Hit, AtIncident
  <1>2. /\ cached \in [Runs -> Nat] /\ newCalls \in [Runs -> Nat] /\ limited \in [Runs -> BOOLEAN]
    BY Counters
  <1>3. /\ \A q \in Runs : q # r => cached'[q] = cached[q]
        /\ cached'[r] = cached[r] + 1
    BY <1>1, <1>2, Bumping
  <1>4. "cached" \in Statuses /\ "cached" \notin Skipped /\ "cached" \notin Called
    BY DEF Statuses, Skipped, Called
  <1>5. inv[r] \in Invocation BY <1>1 DEF IInv, RunOK, Placed
  <1>6. Key(r) \in Keys BY <1>1, <1>5, CurrentFacts
  <1>7. cache[Key(r)] \in CacheFile BY <1>6 DEF IInv, TypeOK
  <1>8. /\ cache[Key(r)].model \in Models \cup {Mock, None}
        /\ cache[Key(r)].result \in Result \cup {None}
    BY <1>7 DEF CacheFile
  <1>9. One("cached" \in {"cached"}) = 1 /\ One("cached" \in Called) = 0
        /\ One(pc[r] \in {"store", "writing"}) = 0
    BY <1>1, <1>4 DEF One
  <1>10. newCalls'[r] \in Nat /\ newCalls'[r] = newCalls[r] BY <1>1, <1>2
  <1> QED BY <1>1, <1>2, <1>3, <1>4, <1>8, <1>9, <1>10, ConcludingAccounts

\* An incident is skipped when the budget is counted.
LEMMA LimitAccounts ==
  ASSUME IInv, AccountInv, NEW r \in Runs, LimitReached(r)
  PROVE  AccountInv'
  <1>1. /\ pc[r] = "analyse" /\ newCalls[r] >= MaxRequests
        /\ Conclude(r, "skipped_limit_reached", None, None)
        /\ UNCHANGED <<inv, cached, newCalls>> /\ limited' = [limited EXCEPT ![r] = TRUE]
    BY DEF LimitReached
  <1>2. /\ cached \in [Runs -> Nat] /\ newCalls \in [Runs -> Nat] /\ limited \in [Runs -> BOOLEAN]
        /\ at[r] \in DOMAIN Todo(r) /\ ~inv[r].dryRun
    BY <1>1, Counters DEF Working
  <1>3. "skipped_limit_reached" \in Statuses \cap Skipped
        /\ "skipped_limit_reached" \notin Called \cup {"cached"}
    BY DEF Statuses, Skipped, Called
  <1>4. One("skipped_limit_reached" \in {"cached"}) = 0
        /\ One("skipped_limit_reached" \in Called) = 0
        /\ One(pc[r] \in {"store", "writing"}) = 0
    BY <1>1, <1>3 DEF One
  <1>5. /\ limited' \in [Runs -> BOOLEAN] /\ limited'[r] = TRUE
        /\ \A q \in Runs : q # r => limited'[q] = limited[q]
    BY <1>1, <1>2
  <1>6. newCalls'[r] = newCalls[r] /\ newCalls[r] \in Nat /\ cached[r] \in Nat BY <1>1, <1>2
  <1>7. pc[r] \in Working BY <1>1 DEF Working
  <1>8. /\ cached'[r] = cached[r] + One("skipped_limit_reached" \in {"cached"})
        /\ newCalls'[r] + One(pc[r] \in {"store", "writing"})
             = newCalls[r] + One("skipped_limit_reached" \in Called)
        /\ newCalls'[r] >= newCalls[r] /\ newCalls'[r] >= MaxRequests
    BY <1>1, <1>4, <1>6
  <1>9. limited'[r] = (limited[r] \/ "skipped_limit_reached" \in Skipped) BY <1>3, <1>5
  <1>10. \A q \in Runs : q # r => cached'[q] = cached[q] /\ newCalls'[q] = newCalls[q]
    BY <1>1
  <1>11. newCalls' \in [Runs -> Nat] /\ None \in Models \cup {Mock, None}
         /\ None \in Result \cup {None}
    BY <1>1, <1>2
  <1> QED
    BY <1>1, <1>2, <1>3, <1>5, <1>7, <1>8, <1>9, <1>10, <1>11, ConcludingAccounts

\* A call that comes back without a result counts.
LEMMA NoResultAccounts ==
  ASSUME IInv, AccountInv, NEW r \in Runs, pc[r] \in Analysing,
         NEW status \in Called, NEW shown, shown = ModeStatus(r, status),
         Conclude(r, shown, ModeModel(r), None),
         newCalls' = Bump(newCalls, r), UNCHANGED <<inv, cached, limited>>
  PROVE  AccountInv'
  <1>1. pc[r] \in Working /\ pc[r] \notin {"store", "writing"} BY DEF Analysing, Working
  <1>2. /\ cached \in [Runs -> Nat] /\ newCalls \in [Runs -> Nat] /\ limited \in [Runs -> BOOLEAN]
        /\ at[r] \in DOMAIN Todo(r) /\ ~inv[r].dryRun
    BY <1>1, Counters
  <1>3. /\ newCalls' \in [Runs -> Nat] /\ newCalls'[r] = newCalls[r] + 1
        /\ \A q \in Runs : q # r => newCalls'[q] = newCalls[q]
    BY <1>2, Bumping
  <1>4. shown \in Called BY DEF ModeStatus, Called
  <1>5. shown \in Statuses /\ shown \notin Skipped /\ shown \notin {"cached"}
    BY <1>4 DEF Called, Statuses, Skipped
  <1>6. One(shown \in Called) = 1 /\ One(shown \in {"cached"}) = 0
        /\ One(pc[r] \in {"store", "writing"}) = 0
    BY <1>1, <1>4, <1>5 DEF One
  <1>7. ModeModel(r) \in Models \cup {Mock, None}
    <2>1. inv[r] \in Invocation BY <1>1 DEF IInv, RunOK, Placed, Working
    <2>2. "ok" \in Statuses BY DEF Statuses
    <2> QED BY <2>1, <2>2, LabelFacts
  <1>8. newCalls[r] \in Nat /\ cached[r] \in Nat BY <1>2
  <1>9. /\ cached'[r] = cached[r] + One(shown \in {"cached"})
        /\ newCalls'[r] + One(pc[r] \in {"store", "writing"}) = newCalls[r] + One(shown \in Called)
        /\ newCalls'[r] >= newCalls[r]
    BY <1>3, <1>6, <1>8
  <1>10. limited'[r] = (limited[r] \/ shown \in Skipped) BY <1>2, <1>5
  <1>11. limited' \in [Runs -> BOOLEAN] /\ None \in Result \cup {None}
         /\ \A q \in Runs : q # r => cached'[q] = cached[q] /\ limited'[q] = limited[q]
    BY <1>2
  <1>12. Conclude(r, shown, ModeModel(r), None) /\ inv' = inv OBVIOUS
  <1> QED
    BY <1>1, <1>2, <1>3, <1>5, <1>7, <1>9, <1>10, <1>11, <1>12, ConcludingAccounts

\* An answer that has been stored is reported.
LEMMA FillAccounts ==
  ASSUME IInv, AccountInv, NEW r \in Runs, FillCacheFile(r)
  PROVE  AccountInv'
  <1>1. /\ pc[r] = "writing" /\ Conclude(r, "ok", ModeModel(r), answer[r])
        /\ UNCHANGED <<inv, cached, newCalls, limited>>
    BY DEF FillCacheFile
  <1>2. /\ cached \in [Runs -> Nat] /\ newCalls \in [Runs -> Nat] /\ limited \in [Runs -> BOOLEAN]
        /\ at[r] \in DOMAIN Todo(r) /\ ~inv[r].dryRun /\ pc[r] \in Working
    BY <1>1, Counters DEF Working
  <1>3. "ok" \in Statuses /\ "ok" \in Called /\ "ok" \notin Skipped
    BY DEF Called, Statuses, Skipped
  <1>4. One("ok" \in Called) = 1 /\ One("ok" \in {"cached"}) = 0
        /\ One(pc[r] \in {"store", "writing"}) = 1
    BY <1>1, <1>3 DEF One
  <1>5. ModeModel(r) \in Models \cup {Mock, None} /\ answer[r] \in Result \cup {None}
    <2>1. inv[r] \in Invocation /\ answer[r] \in Result
      BY <1>1 DEF IInv, RunOK, Placed, AnswerOK
    <2>2. "ok" \in Statuses BY DEF Statuses
    <2> QED BY <2>1, <2>2, LabelFacts
  <1>6. newCalls[r] \in Nat /\ cached[r] \in Nat BY <1>2
  <1>7. /\ cached'[r] = cached[r] + One("ok" \in {"cached"})
        /\ newCalls'[r] + One(pc[r] \in {"store", "writing"}) = newCalls[r] + One("ok" \in Called)
        /\ newCalls'[r] >= newCalls[r]
    BY <1>1, <1>4, <1>6
  <1>8. limited'[r] = (limited[r] \/ "ok" \in Skipped) BY <1>1, <1>2, <1>3
  <1>9. newCalls' \in [Runs -> Nat] /\ limited' \in [Runs -> BOOLEAN]
        /\ \A q \in Runs : q # r => /\ cached'[q] = cached[q] /\ newCalls'[q] = newCalls[q]
                                    /\ limited'[q] = limited[q]
    BY <1>1, <1>2
  <1> QED
    BY <1>1, <1>2, <1>3, <1>5, <1>7, <1>8, <1>9, ConcludingAccounts

\* An accepted answer is counted before it is stored.
LEMMA AcceptedAccounts ==
  ASSUME IInv, AccountInv, NEW r \in Runs, AnswerAccepted(r)
  PROVE  AccountInv'
  <1>1. /\ pc[r] \in {"waiting", "retrying"} /\ pc' = [pc EXCEPT ![r] = "store"]
        /\ newCalls' = Bump(newCalls, r) /\ UNCHANGED <<inv, at, incidents, cached, limited>>
    BY DEF AnswerAccepted, Asked
  <1>2. newCalls \in [Runs -> Nat] /\ ~inv[r].dryRun BY <1>1, Counters DEF Working
  <1>3. /\ newCalls' \in [Runs -> Nat] /\ newCalls'[r] = newCalls[r] + 1
        /\ \A q \in Runs : q # r => newCalls'[q] = newCalls[q]
    BY <1>1, <1>2, Bumping
  <1>4. One(pc[r] \in {"store", "writing"}) = 0 /\ One("store" \in {"store", "writing"}) = 1
    BY <1>1 DEF One
  <1>5. newCalls[r] \in Nat BY <1>2
  <1>6. /\ newCalls'[r] + One(pc[r] \in {"store", "writing"})
             = newCalls[r] + One("store" \in {"store", "writing"})
        /\ newCalls'[r] >= newCalls[r]
    BY <1>3, <1>4, <1>5
  <1>7. pc[r] \notin {"idle", "crashed"} BY <1>1
  <1> QED BY <1>1, <1>2, <1>3, <1>6, <1>7, MovingAccounts

\* Other moves inside the loop, and its end.
LEMMA UncountedAccounts ==
  ASSUME IInv, AccountInv, NEW r \in Runs, NEW label, pc' = [pc EXCEPT ![r] = label],
         UNCHANGED <<inv, at, summary>>, label # "idle",
         \/ pc[r] \in {"next"} \cup Analysing /\ label \in Analysing \cup {"reported"}
         \/ pc[r] = "analyse" /\ label = "store" /\ inv[r].mode # "gemini"
         \/ pc[r] = "store" /\ label = "writing"
         \/ r \in Active /\ label = "crashed",
         label = "reported" => at[r] \notin DOMAIN Todo(r)
  PROVE  AccountInv'
  <1>1. newCalls \in [Runs -> Nat] BY Counters
  <1>2. newCalls' = newCalls /\ UNCHANGED <<incidents, cached, limited>> BY DEF summary
  <1>3. pc[r] \notin {"idle", "crashed"} BY DEF Analysing, Active, Ended
  <1>4. \/ label = "crashed" \/ inv[r].mode # "gemini"
        \/ One(pc[r] \in {"store", "writing"}) = One(label \in {"store", "writing"})
    BY DEF One, Analysing
  <1>5. newCalls'[r] = newCalls[r] /\ newCalls'[r] >= newCalls[r] BY <1>1, <1>2
  <1>6. newCalls' \in [Runs -> Nat] /\ \A q \in Runs : q # r => newCalls'[q] = newCalls[q]
    BY <1>1, <1>2
  <1>7. ~inv[r].dryRun /\ inv[r].mode = "gemini" /\ label # "crashed" =>
          newCalls'[r] + One(pc[r] \in {"store", "writing"})
            = newCalls[r] + One(label \in {"store", "writing"})
    BY <1>4, <1>5
  <1> QED BY <1>2, <1>3, <1>5, <1>6, <1>7, MovingAccounts

\* A run starts with nothing on its account.
LEMMA InvokeAccounts ==
  ASSUME IInv, AccountInv, NEW r \in Runs, Invoke(r)
  PROVE  AccountInv'
  <1>1. pc[r] = "idle" /\ UNCHANGED <<at, incidents, cached, newCalls, limited>>
    BY DEF Invoke, summary
  <1>2. PICK settings : inv' = [inv EXCEPT ![r] = settings] BY DEF Invoke
  <1>3. PICK label : pc' = [pc EXCEPT ![r] = label] /\ label \in {"quit", "next"}
    BY DEF Invoke
  <1>4. pc'[r] = label /\ \A q \in Runs : q # r => inv'[q] = inv[q] /\ pc'[q] = pc[q]
    BY <1>2, <1>3 DEF IInv, TypeOK
  <1>5. ASSUME NEW q \in Runs, q # r PROVE Account(q)'
    BY <1>1, <1>4, <1>5, AccountFrame DEF AccountInv
  <1>6. at[r] = 1 /\ incidents[r] = <<>> /\ cached[r] = 0 /\ newCalls[r] = 0 /\ limited[r] = FALSE
    BY <1>1, Counters DEF AccountInv, Account
  <1>7. \A statuses : Count(r, statuses)' = 0
    <2>1. DOMAIN incidents'[r] = {} BY <1>1, <1>6
    <2> QED BY <2>1, FS_EmptySet DEF Count
  <1>8. Listed(r)' BY <1>1, <1>3, <1>4, <1>6 DEF Listed
  <1>9. One(pc'[r] \in {"store", "writing"}) = 0 BY <1>3, <1>4 DEF One
  <1>10. Tally(r)' BY <1>1, <1>6, <1>7, <1>9 DEF Tally
  <1> QED BY <1>3, <1>4, <1>5, <1>8, <1>10 DEF AccountInv, Account

\* Initially no run has an account.
LEMMA InitAccounts == Init => AccountInv
  BY DEF Init, AccountInv, Account

\* Every step keeps the accounts.
LEMMA NextAccounts == IInv /\ AccountInv /\ [Next]_vars => AccountInv'
  <1> SUFFICES ASSUME IInv, AccountInv, [Next]_vars PROVE AccountInv' OBVIOUS
  <1>1. CASE UNCHANGED vars
    BY <1>1, AccountFrame DEF AccountInv, vars, summary
  <1>2. ASSUME NEW r \in Runs, Invoke(r) PROVE AccountInv' BY <1>2, InvokeAccounts
  <1>3. ASSUME NEW r \in Runs, Crash(r) PROVE AccountInv'
    BY <1>3, UncountedAccounts DEF Crash
  <1>4. ASSUME NEW r \in Runs, Step(r) PROVE AccountInv'
    <2>1. CASE DryLook(r) BY <2>1, DryLookAccounts
    <2>2. CASE Hit(r) BY <2>2, HitAccounts
    <2>3. CASE Miss(r) BY <2>3, UncountedAccounts DEF Miss, AtIncident, Analysing
    <2>4. CASE MockAnalyse(r) BY <2>4, UncountedAccounts DEF MockAnalyse
    <2>5. CASE LimitReached(r) BY <2>5, LimitAccounts
    <2>6. CASE Unavailable(r)
      BY <2>6, NoResultAccounts DEF Unavailable, Analysing, Called
    <2>7. CASE Send(r) BY <2>7, UncountedAccounts DEF Send, Analysing
    <2>8. CASE AnswerAccepted(r) BY <2>8, AcceptedAccounts
    <2>9. CASE AnswerRejected(r)
      BY <2>9, NoResultAccounts DEF AnswerRejected, Asked, Analysing, Called
    <2>10. CASE Fail(r) BY <2>10, NoResultAccounts DEF Fail, Asked, Analysing, Called
    <2>11. CASE Transient(r) BY <2>11, UncountedAccounts DEF Transient, Analysing
    <2>12. CASE Retry(r) BY <2>12, UncountedAccounts DEF Retry, Analysing
    <2>13. CASE OpenCacheFile(r) BY <2>13, UncountedAccounts DEF OpenCacheFile
    <2>14. CASE FillCacheFile(r) BY <2>14, FillAccounts
    <2>15. CASE Report(r) BY <2>15, UncountedAccounts DEF Report
    <2> QED
      BY <1>4, <2>1, <2>2, <2>3, <2>4, <2>5, <2>6, <2>7, <2>8, <2>9, <2>10, <2>11, <2>12,
         <2>13, <2>14, <2>15 DEF Step
  <1> QED BY <1>1, <1>2, <1>3, <1>4 DEF Next

\* The accounts are right in every reachable state.
LEMMA AccountsHold == Spec => [](IInv /\ AccountInv)
  BY InitIInv, InitAccounts, NextIInv, NextAccounts, PTL DEF Spec

\* The summary of a finished run accounts for its incidents, however runs
\* overlap and are killed, for any settings and batches whose incidents are a
\* sequence (pipeline.py: run_pipeline).
THEOREM SummariesAccount ==
  ASSUME IncidentsAreListed
  PROVE  Spec => []SummaryAccountsForIncidents
  <1>1. IInv /\ AccountInv => SummaryAccountsForIncidents
    <2> SUFFICES ASSUME IInv, AccountInv, NEW r \in Runs, pc[r] = "reported"
                 PROVE  /\ [k \in DOMAIN incidents[r] |-> incidents[r][k].events] = Todo(r)
                        /\ Tally(r)
                        /\ ~inv[r].dryRun /\ inv[r].mode = "gemini" =>
                             newCalls[r] = Count(r, Called)
      BY DEF SummaryAccountsForIncidents, Tally, Called, Skipped
    <2>1. Listed(r) /\ Tally(r) BY DEF AccountInv, Account
    <2>2. inv[r].batch \in Batches BY DEF IInv, RunOK, Placed, Invocation
    <2>3. Todo(r) \in Seq(WorkItems) BY <2>2 DEF IncidentsAreListed, Todo
    <2>4. incidents[r] \in Seq(IncidentType) /\ at[r] \in Nat \ {0}
      BY DEF IInv, TypeOK, IncidentType
    <2>5. DOMAIN incidents[r] = DOMAIN Todo(r)
      <3>1. /\ DOMAIN incidents[r] = 1..Len(incidents[r]) /\ Len(incidents[r]) \in Nat
            /\ DOMAIN Todo(r) = 1..Len(Todo(r)) /\ Len(Todo(r)) \in Nat
        BY <2>3, <2>4
      <3>2. Len(incidents[r]) = at[r] - 1 /\ at[r] \notin DOMAIN Todo(r)
            /\ DOMAIN incidents[r] \subseteq DOMAIN Todo(r)
        BY <2>1 DEF Listed
      <3>3. Len(Todo(r)) < at[r] BY <2>4, <3>1, <3>2
      <3> QED BY <2>4, <3>1, <3>2, <3>3
    <2>6. \A k \in DOMAIN Todo(r) : incidents[r][k].events = Todo(r)[k]
      BY <2>1, <2>5 DEF Listed
    <2>7. Todo(r) = [k \in DOMAIN Todo(r) |-> Todo(r)[k]] BY <2>3
    <2>8. One(pc[r] \in {"store", "writing"}) = 0 BY DEF One
    <2>9. Count(r, Called) \in Nat BY <2>4, CountIsNat
    <2>10. ~inv[r].dryRun /\ inv[r].mode = "gemini" => newCalls[r] = Count(r, Called)
      BY <2>1, <2>8, <2>9 DEF Tally
    <2> QED BY <2>1, <2>5, <2>6, <2>7, <2>10
  <1> QED BY <1>1, AccountsHold, PTL

-----------------------------------------------------------------------------
(* What a dry run announces, as long as invocations do not overlap.        *)

\* The incidents before a place that no file can be read for.
Missing(r, place) == {k \in 1..(place - 1) : ~Readable(GroupFingerprint(Todo(r)[k]))}

ForecastInv ==
  \A r \in Runs : pc[r] = "next" /\ inv[r].dryRun =>
    newCalls[r] = Cardinality(Missing(r, at[r]))

\* There are finitely many.
LEMMA MissingIsFinite ==
  ASSUME NEW r, NEW place \in Nat \ {0}
  PROVE  IsFiniteSet(Missing(r, place)) /\ Cardinality(Missing(r, place)) \in Nat
  <1>1. IsFiniteSet(1..(place - 1)) BY FS_Interval
  <1>2. Missing(r, place) \in SUBSET (1..(place - 1)) BY DEF Missing
  <1>3. IsFiniteSet(Missing(r, place)) BY <1>1, <1>2, FS_Subset
  <1> QED BY <1>3, FS_CardinalityType

\* A dry look counts an incident that it finds no file for.
LEMMA DryLookForecasts ==
  ASSUME IInv, AccountInv, ForecastInv, NEW r \in Runs, DryLook(r)
  PROVE  newCalls'[r] = Cardinality(Missing(r, at[r])')
  <1>1. /\ pc[r] = "next" /\ inv[r].dryRun /\ UNCHANGED <<inv, cache>>
        /\ at' = [at EXCEPT ![r] = @ + 1]
        /\ newCalls' = IF Readable(Key(r)) THEN newCalls ELSE Bump(newCalls, r)
    BY DEF DryLook, AtIncident, Conclude, disk
  <1>2. at[r] \in Nat \ {0} /\ at'[r] = at[r] + 1 BY <1>1 DEF IInv, TypeOK
  <1>3. newCalls \in [Runs -> Nat] BY Counters
  <1>4. newCalls[r] = Cardinality(Missing(r, at[r])) BY <1>1 DEF ForecastInv
  <1>5. \A k : Readable(k)' = Readable(k) BY <1>1 DEF Readable
  <1>6. Todo(r)' = Todo(r) BY <1>1 DEF Todo
  <1>7. \A k : k \in 1..(at'[r] - 1) <=> k \in 1..(at[r] - 1) \/ k = at[r] BY <1>2
  <1>8. at[r] \notin Missing(r, at[r]) BY <1>2 DEF Missing
  <1>9. IsFiniteSet(Missing(r, at[r])) BY <1>2, MissingIsFinite
  <1>10. CASE Readable(Key(r))
    <2>1. Missing(r, at[r])' = Missing(r, at[r])
      BY <1>5, <1>6, <1>7, <1>10 DEF Missing, Key, Current
    <2> QED BY <1>1, <1>4, <1>10, <2>1
  <1>11. CASE ~Readable(Key(r))
    <2>1. Missing(r, at[r])' = Missing(r, at[r]) \cup {at[r]}
      BY <1>5, <1>6, <1>7, <1>11 DEF Missing, Key, Current
    <2>2. newCalls'[r] = newCalls[r] + 1 BY <1>1, <1>3, <1>11, Bumping
    <2> QED BY <1>4, <1>8, <1>9, <2>1, <2>2, FS_AddElement
  <1> QED BY <1>10, <1>11

\* Initially no run is in its loop.
LEMMA InitForecasts == Init => ForecastInv
  BY DEF Init, ForecastInv

\* Every step keeps what dry runs have counted.
LEMMA NextForecasts ==
  ASSUME MaxActive = 1, IInv, AloneInv, AccountInv, ForecastInv, [Next]_vars
  PROVE  ForecastInv'
  <1>1. CASE UNCHANGED vars
    <2>1. UNCHANGED <<inv, pc, at, newCalls, cache>> BY <1>1 DEF vars, summary, disk
    <2>2. \A r \in Runs : Missing(r, at[r])' = Missing(r, at[r])
      BY <2>1 DEF Missing, Todo, Readable
    <2> QED BY <2>1, <2>2 DEF ForecastInv
  <1>2. ASSUME NEW q \in Runs, Invoke(q) PROVE ForecastInv'
    <2>1. Active = {} BY <1>2, StartsAlone
    <2>2. SUFFICES ASSUME NEW r \in Runs, pc'[r] = "next"
                   PROVE  newCalls'[r] = Cardinality(Missing(r, at[r])')
      BY DEF ForecastInv
    <2>3. r = q
      <3>1. pc[q] = "idle" /\ \A s \in Runs : s # q => pc'[s] = pc[s]
        BY <1>2 DEF Invoke, IInv, TypeOK
      <3> QED BY <2>1, <2>2, <3>1 DEF Active, Ended
    <2>4. at[r] = 1 /\ newCalls[r] = 0 /\ at'[r] = at[r] /\ newCalls'[r] = newCalls[r]
      BY <1>2, <2>3 DEF Invoke, summary, AccountInv, Account
    <2>5. Missing(r, at[r])' = {} BY <2>4 DEF Missing
    <2> QED BY <2>4, <2>5, FS_EmptySet
  <1>3. ASSUME NEW q \in Runs, Step(q) \/ Crash(q) PROVE ForecastInv'
    <2>1. SUFFICES ASSUME NEW r \in Runs, pc'[r] = "next", inv'[r].dryRun
                   PROVE  newCalls'[r] = Cardinality(Missing(r, at[r])')
      BY DEF ForecastInv
    <2>2. r = q
      <3>1. q \in Active /\ \A s \in Runs : s # q => pc'[s] = pc[s] BY <1>3, WhereItGoes
      <3> QED BY <2>1, <3>1 DEF AloneInv, Active, Ended
    <2>3. DryLook(r) BY <1>3, <2>1, <2>2, WhereItGoes
    <2> QED BY <2>3, DryLookForecasts
  <1> QED BY <1>1, <1>2, <1>3 DEF Next

\* A run that ends has been at all its incidents.
LEMMA EndsAtTheEnd ==
  ASSUME IncidentsAreListed, IInv, AccountInv, NEW r \in Runs, pc[r] = "next",
         at[r] \notin DOMAIN Todo(r)
  PROVE  DOMAIN Todo(r) = 1..(at[r] - 1)
  <1>1. Listed(r) BY DEF AccountInv, Account
  <1>2. inv[r].batch \in Batches BY DEF IInv, RunOK, Placed, Invocation
  <1>3. Todo(r) \in Seq(WorkItems) BY <1>2 DEF IncidentsAreListed, Todo
  <1>4. incidents[r] \in Seq(IncidentType) /\ at[r] \in Nat \ {0}
    BY DEF IInv, TypeOK, IncidentType
  <1>5. /\ DOMAIN incidents[r] = 1..Len(incidents[r]) /\ Len(incidents[r]) = at[r] - 1
        /\ DOMAIN Todo(r) = 1..Len(Todo(r)) /\ Len(Todo(r)) \in Nat
    BY <1>1, <1>3, <1>4 DEF Listed
  <1>6. 1..(at[r] - 1) \subseteq DOMAIN Todo(r) BY <1>1, <1>5 DEF Listed
  <1>7. Len(Todo(r)) < at[r] BY <1>4, <1>5
  <1>8. at[r] # 1 => at[r] - 1 <= Len(Todo(r)) BY <1>4, <1>5, <1>6
  <1>9. Len(Todo(r)) = at[r] - 1 BY <1>4, <1>5, <1>7, <1>8
  <1> QED BY <1>5, <1>9

\* Only the end of the loop makes a run reported.
LEMMA ReportedAtTheEnd ==
  ASSUME IInv, [Next]_vars, NEW r \in Runs, pc[r] = "next", pc'[r] = "reported"
  PROVE  at[r] \notin DOMAIN Todo(r)
  <1>1. pc' # pc BY DEF IInv, TypeOK
  <1>2. PICK q \in Runs : Invoke(q) \/ Step(q) \/ Crash(q) BY <1>1 DEF Next, vars
  <1>3. CASE Invoke(q)
    <2>1. pc[q] = "idle" /\ \A s \in Runs : s # q => pc'[s] = pc[s]
      BY <1>3 DEF Invoke, IInv, TypeOK
    <2> QED BY <2>1
  <1>4. CASE Step(q) \/ Crash(q) BY <1>4, WhereItGoes
  <1> QED BY <1>2, <1>3, <1>4

\* A dry run in gemini mode, without --force and within the limit, announces
\* exactly the number of groups a real run would send for, as long as
\* invocations do not overlap, for any batches, files and earlier kills
\* (pipeline.py: the dry-run branch).
THEOREM DryRunsForecast ==
  ASSUME MaxActive = 1, IncidentsAreListed
  PROVE  Spec => DryRunForecasts
  <1>1. IInv /\ AccountInv /\ ForecastInv /\ [Next]_vars =>
          [\A r \in Runs :
             inv[r] # None /\ inv[r].mode = "gemini" /\ ~inv[r].force /\ newCalls[r] <= MaxRequests
               => ForecastIsExact(r)]_vars
    <2> SUFFICES ASSUME IInv, AccountInv, ForecastInv, [Next]_vars, NEW r \in Runs,
                        inv[r].mode = "gemini", ~inv[r].force, newCalls[r] <= MaxRequests,
                        pc[r] = "next", pc'[r] = "reported", inv[r].dryRun
                 PROVE  newCalls[r] = WouldCall(inv[r])
      BY DEF ForecastIsExact
    <2>1. DOMAIN Todo(r) = 1..(at[r] - 1) BY ReportedAtTheEnd, EndsAtTheEnd
    <2>2. newCalls[r] = Cardinality(Missing(r, at[r])) BY DEF ForecastInv
    <2>3. Missing(r, at[r]) =
            {k \in DOMAIN Work[inv[r].batch] :
               inv[r].force \/ ~Readable(GroupFingerprint(Work[inv[r].batch][k]))}
      BY <2>1 DEF Missing, Todo
    <2> QED BY <2>2, <2>3 DEF WouldCall
  <1>2. IInv /\ AloneInv /\ AccountInv /\ ForecastInv /\ [Next]_vars =>
          IInv' /\ AloneInv' /\ AccountInv' /\ ForecastInv'
    BY NextIInv, NextAlone, NextAccounts, NextForecasts
  <1> QED
    BY <1>1, <1>2, InitIInv, InitAlone, InitAccounts, InitForecasts, PTL DEF Spec, DryRunForecasts
=============================================================================
