------------------------------ MODULE ProjectRuns ------------------------------
(***************************************************************************)
(* Analysis runs of a whole project.  The author asks for a run over the   *)
(* scenes with dirty chunks, or over those that failed in an earlier run;  *)
(* the run's rows and its outbox event are created together.  A worker     *)
(* walks the scenes in narrative order, catches what a scene throws,       *)
(* counts, and gives the run its outcome.  If anything around that throws, *)
(* the job is retried and the whole run is walked again; an exhausted job  *)
(* is finalised by the transaction that settles its event.                 *)
(*                                                                         *)
(* The queue is the one of AnalysisDispatch, seen from one run, and what   *)
(* an analysis does to a scene is the subject of SceneAnalysis: here a     *)
(* scene is dirty or clean.                                                *)
(***************************************************************************)
EXTENDS Naturals, Sequences, FiniteSets

CONSTANTS Scenes,      \* the project's scenes, numbered in narrative order
          Workers,     \* BullMQ workers
          Attempts,    \* JOB_ATTEMPTS
          MaxStalledCount, \* BullMQ: stalls a job survives
          MaxRuns,     \* bound: runs created
          FaultBudget, \* bound: crashes, lost locks, redeliveries
          NoWorker

ASSUME ScenesAssumption == Scenes \subseteq Nat /\ IsFiniteSet(Scenes)
ASSUME BoundsAssumption == /\ Attempts \in Nat \ {0}
                           /\ MaxStalledCount \in Nat
                           /\ MaxRuns \in Nat
                           /\ FaultBudget \in Nat
ASSUME NoWorkerAssumption == NoWorker \notin Workers

VARIABLES
  dirty,      \* scenes with a dirty chunk
  live,       \* scenes that are not deleted
  runs,       \* KnowledgeAnalysisRun rows with their event and job, in order
  request,    \* a retryFailed that has read the failed scenes of a run
  worker,     \* what each worker is doing
  faults,     \* faults so far
  redelivered \* history: a lock was lost, or a completed job was added again

vars == <<dirty, live, runs, request, worker, faults, redelivered>>

Outcome == {"SUCCEEDED", "PARTIAL", "FAILED"}
SceneStatus == {"QUEUED", "RUNNING", "SUCCEEDED", "FAILED"}
Phases == {"idle", "scene", "analysing", "analysed", "progress", "audit"}
JobStates == {"waiting", "active", "failed", "gone"}
RunIds == DOMAIN runs

Idle == [pc |-> "idle", run |-> 0, scene |-> 0, todo |-> {}]
NoRequest == [run |-> 0, scenes |-> {}]

Active(r) == runs[r].status \in {"QUEUED", "RUNNING"}
Count(scenes, statuses) == Cardinality({s \in DOMAIN scenes : scenes[s] \in statuses})

(***************************************************************************)
(* A job the queue gave up is finalised when its attempts are used up.     *)
(* One that BullMQ failed for stalling too often has attempts left:        *)
(* neither the callback nor the poll ends its run, and no poll adds it     *)
(* again.                                                                  *)
(***************************************************************************)
Exhausted(r) == runs[r].job = "failed" /\ runs[r].tries >= Attempts
Stranded(r) == runs[r].job = "failed" /\ runs[r].tries < Attempts

TypeOK ==
  /\ dirty \subseteq Scenes /\ live \subseteq Scenes
  /\ \A r \in RunIds :
       /\ runs[r].status \in Outcome \cup {"QUEUED", "RUNNING"}
       /\ DOMAIN runs[r].scenes \in (SUBSET Scenes) \ {{}}
       /\ \A s \in DOMAIN runs[r].scenes : runs[r].scenes[s] \in SceneStatus
       /\ runs[r].processed \in 0..Cardinality(DOMAIN runs[r].scenes)
       /\ runs[r].failed \in 0..Cardinality(DOMAIN runs[r].scenes)
       /\ runs[r].settled \in BOOLEAN
       /\ runs[r].job \in JobStates
       /\ runs[r].tries \in 0..Attempts
       /\ runs[r].stalls \in Nat
       /\ runs[r].holder \in Workers \cup {NoWorker}
  /\ request \in [run : {0} \cup RunIds, scenes : SUBSET Scenes]
  /\ worker \in [Workers -> [pc : Phases, run : {0} \cup RunIds,
                             scene : {0} \cup Scenes, todo : SUBSET Scenes]]
  /\ faults \in 0..FaultBudget
  /\ redelivered \in BOOLEAN

Init ==
  /\ dirty \in SUBSET Scenes
  /\ live = Scenes
  /\ runs = <<>>
  /\ request = NoRequest
  /\ worker = [w \in Workers |-> Idle]
  /\ faults = 0
  /\ redelivered = FALSE

-----------------------------------------------------------------------------
(* The author, and the analyses of single scenes.                          *)

Edit(s) ==
  /\ s \in live \ dirty
  /\ dirty' = dirty \cup {s}
  /\ UNCHANGED <<live, runs, request, worker, faults, redelivered>>

SoftDelete(s) ==
  /\ s \in live
  /\ live' = live \ {s}
  /\ UNCHANGED <<dirty, runs, request, worker, faults, redelivered>>

\* An event of the scene alone is analysed.
AnalysedElsewhere(s) ==
  /\ s \in dirty
  /\ dirty' = dirty \ {s}
  /\ UNCHANGED <<live, runs, request, worker, faults, redelivered>>

NewRun(scenes) ==
  [status |-> "QUEUED", scenes |-> [s \in scenes |-> "QUEUED"], processed |-> 0,
   failed |-> 0, settled |-> FALSE, job |-> "waiting", tries |-> 0, stalls |-> 0,
   holder |-> NoWorker]

CreateRun(scenes) ==
  /\ scenes # {}
  /\ Len(runs) < MaxRuns
  /\ runs' = Append(runs, NewRun(scenes))
  /\ UNCHANGED <<dirty, live, worker, faults, redelivered>>

\* startAnalysis is one serializable transaction.
StartAnalysis ==
  /\ ~\E r \in RunIds : Active(r)
  /\ CreateRun(live \cap dirty)
  /\ UNCHANGED request

\* retryFailed reads the failed scenes first; the transaction that creates the
\* run looks at no other run.
ReadFailed(r) ==
  /\ request = NoRequest
  /\ LET failed == {s \in DOMAIN runs[r].scenes : runs[r].scenes[s] = "FAILED"} IN
     /\ failed # {}
     /\ request' = [run |-> r, scenes |-> failed]
  /\ UNCHANGED <<dirty, live, runs, worker, faults, redelivered>>

RetryFailed ==
  /\ request # NoRequest
  /\ CreateRun(live \cap dirty \cap request.scenes)
  /\ request' = NoRequest

\* "Failed scenes have no pending chunks".
RefuseRetry ==
  /\ request # NoRequest
  /\ live \cap dirty \cap request.scenes = {}
  /\ request' = NoRequest
  /\ UNCHANGED <<dirty, live, runs, worker, faults, redelivered>>

-----------------------------------------------------------------------------
(* The worker.                                                             *)

At(w, phase) == worker[w].pc = phase
Run(w) == worker[w].run
Scene(w) == worker[w].scene
SceneRows(w) == runs[Run(w)].scenes
HoldsLock(w) == runs[Run(w)].holder = w
GoTo(w, phase) == worker' = [worker EXCEPT ![w].pc = phase]
SetScene(w, status) == runs' = [runs EXCEPT ![Run(w)].scenes[Scene(w)] = status]
Release(w) == worker' = [worker EXCEPT ![w] = Idle]

\* The job starts: processOutboxEvent does not ask whether its event is
\* processed, and the run becomes RUNNING whatever it was before.
Take(w, r) ==
  /\ At(w, "idle")
  /\ runs[r].job = "waiting"
  /\ runs' = [runs EXCEPT ![r].job = "active", ![r].holder = w, ![r].status = "RUNNING"]
  /\ worker' = [worker EXCEPT ![w] =
                  [Idle EXCEPT !.pc = "scene", !.run = r, !.todo = DOMAIN runs[r].scenes]]
  /\ UNCHANGED <<dirty, live, request, faults, redelivered>>

\* The next scene in narrative order, finished or not in an earlier attempt.
BeginScene(w, s) ==
  /\ At(w, "scene")
  /\ s \in worker[w].todo
  /\ \A t \in worker[w].todo : s <= t
  /\ runs' = [runs EXCEPT ![Run(w)].scenes[s] = "RUNNING"]
  /\ worker' = [worker EXCEPT ![w].pc = "analysing", ![w].scene = s, ![w].todo = @ \ {s}]
  /\ UNCHANGED <<dirty, live, request, faults, redelivered>>

\* processSceneChanged returns.
Analyse(w) ==
  /\ At(w, "analysing")
  /\ Scene(w) \in live
  /\ dirty' = dirty \ {Scene(w)}
  /\ GoTo(w, "analysed")
  /\ UNCHANGED <<live, runs, request, faults, redelivered>>

\* It throws, before or after the chunks were cleared, or the scene is gone: the
\* error ends the scene and not the run.
FailScene(w) ==
  /\ At(w, "analysing")
  /\ IF Scene(w) \in live THEN dirty' \in {dirty, dirty \ {Scene(w)}}
                          ELSE UNCHANGED dirty
  /\ SetScene(w, "FAILED")
  /\ GoTo(w, "progress")
  /\ UNCHANGED <<live, request, faults, redelivered>>

\* Chunks that are dirty by now fail the scene.
FinishScene(w) ==
  /\ At(w, "analysed")
  /\ SetScene(w, IF Scene(w) \in dirty THEN "FAILED" ELSE "SUCCEEDED")
  /\ GoTo(w, "progress")
  /\ UNCHANGED <<dirty, live, request, faults, redelivered>>

\* Mutant of Progress: failed scenes are not counted as processed.
ProgressOfSucceeded(w) ==
  /\ At(w, "progress")
  /\ runs' = [runs EXCEPT ![Run(w)].processed = Count(SceneRows(w), {"SUCCEEDED"}),
                          ![Run(w)].failed = Count(SceneRows(w), {"FAILED"})]
  /\ GoTo(w, "scene")
  /\ UNCHANGED <<dirty, live, request, faults, redelivered>>

Progress(w) ==
  /\ At(w, "progress")
  /\ runs' = [runs EXCEPT ![Run(w)].processed = Count(SceneRows(w), {"SUCCEEDED", "FAILED"}),
                          ![Run(w)].failed = Count(SceneRows(w), {"FAILED"})]
  /\ GoTo(w, "scene")
  /\ UNCHANGED <<dirty, live, request, faults, redelivered>>

OutcomeOf(scenes) ==
  CASE Count(scenes, {"FAILED"}) = 0 -> "SUCCEEDED"
    [] Count(scenes, {"FAILED"}) > 0 /\ Count(scenes, {"SUCCEEDED"}) = 0 -> "FAILED"
    [] OTHER -> "PARTIAL"

\* The outcome is written before the audit of the analysed scenes.
Complete(w) ==
  /\ At(w, "scene")
  /\ worker[w].todo = {}
  /\ runs' = [runs EXCEPT ![Run(w)].status = OutcomeOf(SceneRows(w)),
                          ![Run(w)].failed = Count(SceneRows(w), {"FAILED"})]
  /\ GoTo(w, "audit")
  /\ UNCHANGED <<dirty, live, request, faults, redelivered>>

\* The audit, if a scene succeeded, then markProcessed; the job completes if the
\* worker still holds its lock.
MarkProcessed(w) ==
  /\ At(w, "audit")
  /\ LET settled == [runs[Run(w)] EXCEPT !.settled = TRUE] IN
     runs' = [runs EXCEPT ![Run(w)] =
                IF HoldsLock(w) THEN [settled EXCEPT !.job = "gone", !.holder = NoWorker]
                                ELSE settled]
  /\ Release(w)
  /\ UNCHANGED <<dirty, live, request, faults, redelivered>>

\* A write around the scenes throws, or the audit does: BullMQ retries the job
\* until its attempts are used up.
Throw(w) ==
  /\ ~At(w, "idle")
  /\ LET last == runs[Run(w)].tries + 1 >= Attempts IN
     runs' = IF HoldsLock(w)
             THEN [runs EXCEPT ![Run(w)].tries = @ + 1, ![Run(w)].holder = NoWorker,
                               ![Run(w)].job = IF last THEN "failed" ELSE "waiting"]
             ELSE runs
  /\ Release(w)
  /\ UNCHANGED <<dirty, live, request, faults, redelivered>>

\* The scenes an exhausted run gives up: those it did not finish, or else its
\* last one.
GivenUp(r) ==
  LET scenes == runs[r].scenes
      open == {s \in DOMAIN scenes : scenes[s] \in {"QUEUED", "RUNNING"}}
      last == {s \in DOMAIN scenes : \A t \in DOMAIN scenes : t <= s}
  IN  IF open # {} THEN open ELSE last

\* Mutant of FinalizeFailed: the event is settled without its run.
SettleEventOnly(r) ==
  /\ Exhausted(r)
  /\ ~runs[r].settled
  /\ runs' = [runs EXCEPT ![r].settled = TRUE]
  /\ UNCHANGED <<dirty, live, request, worker, faults, redelivered>>

\* handleFailedOutboxTransaction claims the event, and markFailedProjectAnalysisRun
\* closes the run.
FinalizeFailed(r) ==
  /\ Exhausted(r)
  /\ ~runs[r].settled
  /\ LET scenes == [s \in DOMAIN runs[r].scenes |->
                      IF s \in GivenUp(r) THEN "FAILED" ELSE runs[r].scenes[s]] IN
     runs' = [runs EXCEPT
       ![r].settled = TRUE,
       ![r].scenes = scenes,
       ![r].processed = Count(scenes, {"SUCCEEDED", "FAILED"}),
       ![r].failed = Count(scenes, {"FAILED"}),
       ![r].status = IF Count(scenes, {"SUCCEEDED"}) > 0 THEN "PARTIAL" ELSE "FAILED"]
  /\ dirty' = dirty \cup GivenUp(r)
  /\ UNCHANGED <<live, request, worker, faults, redelivered>>

-----------------------------------------------------------------------------
(* Faults of the worker and of the queue, as in AnalysisDispatch: what the *)
(* stalled check finds without a lock waits again, or is failed when it    *)
(* stalled more than MaxStalledCount times, which may count as an attempt. *)

Fault == faults < FaultBudget /\ faults' = faults + 1

Stall(r) ==
  LET row == [runs[r] EXCEPT !.stalls = @ + 1, !.holder = NoWorker] IN
  \/ /\ row.stalls <= MaxStalledCount
     /\ runs' = [runs EXCEPT ![r] = [row EXCEPT !.job = "waiting"]]
  \/ /\ row.stalls > MaxStalledCount
     /\ \E made \in {row.tries, row.tries + 1} :
          runs' = [runs EXCEPT ![r] = [row EXCEPT !.job = "failed", !.tries = made]]

Crash(w) ==
  /\ ~At(w, "idle")
  /\ Fault
  /\ IF HoldsLock(w) THEN Stall(Run(w)) ELSE UNCHANGED runs
  /\ Release(w)
  /\ UNCHANGED <<dirty, live, request, redelivered>>

\* A worker that lost its lock goes on with its run.
LoseLock(r) ==
  /\ runs[r].job = "active"
  /\ Fault
  /\ Stall(r)
  /\ redelivered' = TRUE
  /\ UNCHANGED <<dirty, live, request, worker>>

\* A poll pass that read the event before it was processed adds a completed job
\* again.
Requeue(r) ==
  /\ runs[r].job = "gone"
  /\ Fault
  /\ runs' = [runs EXCEPT ![r].job = "waiting", ![r].tries = 0, ![r].stalls = 0]
  /\ redelivered' = TRUE
  /\ UNCHANGED <<dirty, live, request, worker>>

Next ==
  \/ \E s \in Scenes : Edit(s)
  \/ \E s \in Scenes : SoftDelete(s)
  \/ \E s \in Scenes : AnalysedElsewhere(s)
  \/ StartAnalysis
  \/ \E r \in RunIds : ReadFailed(r)
  \/ RetryFailed
  \/ RefuseRetry
  \/ \E w \in Workers, r \in RunIds : Take(w, r)
  \/ \E w \in Workers, s \in Scenes : BeginScene(w, s)
  \/ \E w \in Workers : Analyse(w)
  \/ \E w \in Workers : FailScene(w)
  \/ \E w \in Workers : FinishScene(w)
  \/ \E w \in Workers : Progress(w)
  \/ \E w \in Workers : Complete(w)
  \/ \E w \in Workers : MarkProcessed(w)
  \/ \E w \in Workers : Throw(w)
  \/ \E r \in RunIds : FinalizeFailed(r)
  \/ \E w \in Workers : Crash(w)
  \/ \E r \in RunIds : LoseLock(r)
  \/ \E r \in RunIds : Requeue(r)

(***************************************************************************)
(* An idle worker takes a waiting job, a run goes on, and an exhausted job *)
(* is finalised by the next poll; nothing ends a stranded one.  A run may  *)
(* walk its scenes for ever only by being retried for ever, which Attempts *)
(* forbids.                                                                *)
(***************************************************************************)
WorkerStep(w) == \/ \E s \in Scenes : BeginScene(w, s)
                 \/ Analyse(w) \/ FailScene(w) \/ FinishScene(w)
                 \/ Progress(w) \/ Complete(w) \/ MarkProcessed(w)

Fairness ==
  /\ \A w \in Workers : /\ WF_vars(\E r \in RunIds : Take(w, r))
                        /\ WF_vars(WorkerStep(w))
  /\ \A r \in 1..MaxRuns : WF_vars(r \in RunIds /\ FinalizeFailed(r))

Spec == Init /\ [][Next]_vars /\ Fairness

-----------------------------------------------------------------------------
(* Properties.                                                             *)

Executing(r) == \E w \in Workers : Run(w) = r

\* While a run is QUEUED or RUNNING, startAnalysis answers ALREADY_QUEUED.  So an
\* active run needs somebody who will end it: an event that is not settled, with a
\* job that can run again or is exhausted.  Failed writes, failed audits and errors
\* always leave one.  Crashes do until a job has stalled too often: then its event is
\* pending and its run active for good (system.service.ts:102, 184).  A redelivery
\* of a settled event may leave neither (system.service.ts:181).
ActiveRunHasWork ==
  ~redelivered => \A r \in RunIds : Active(r) =>
    /\ ~runs[r].settled
    /\ runs[r].job # "gone"
    /\ Stranded(r) => runs[r].stalls > MaxStalledCount

\* When the event of a run is settled, the run's row tells the truth about its
\* scenes, whichever of the two writers closed it and after however many
\* attempts: every scene is finished, the counters match, and the outcome is
\* SUCCEEDED, FAILED or PARTIAL as the scenes say.
SettledRunAddsUp ==
  ~redelivered => \A r \in RunIds : runs[r].settled =>
    LET scenes == runs[r].scenes IN
    /\ runs[r].processed = Cardinality(DOMAIN scenes)
    /\ \A s \in DOMAIN scenes : scenes[s] \in {"SUCCEEDED", "FAILED"}
    /\ runs[r].failed = Count(scenes, {"FAILED"})
    /\ runs[r].status = OutcomeOf(scenes)

\* startAnalysis keeps at most one run active, as long as nobody retries failed
\* scenes and no finished run is walked again after an error or a crash.
OneActiveRunUnlessRepeated ==
  (faults = 0 /\ \A r \in RunIds : runs[r].tries = 0 /\ Count(runs[r].scenes, {"FAILED"}) = 0)
    => Cardinality({r \in RunIds : Active(r)}) <= 1

\* The three above, in every interleaving of requests, attempts and faults.
RunsAreSound ==
  TypeOK /\ ActiveRunHasWork /\ SettledRunAddsUp /\ OneActiveRunUnlessRepeated

Unfinished(r) == r \in RunIds /\ Active(r)

\* A run that was asked for comes to an outcome: failing scenes, retries, exhausted
\* attempts and crashes included, unless its job was failed for stalling too often
\* with attempts left.  Such a run stays RUNNING, and startAnalysis answers
\* ALREADY_QUEUED from then on.
RunsEnd ==
  \A r \in 1..MaxRuns :
    Unfinished(r) ~> (~Unfinished(r) \/ redelivered \/ (r \in RunIds /\ Stranded(r)))

\* "returns an existing active run instead of enqueueing a duplicate"
\* (project-knowledge-review.service.spec.ts:92): a project never has two active
\* runs.
OneActiveRun == Cardinality({r \in RunIds : Active(r)}) <= 1
=============================================================================
