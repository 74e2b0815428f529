------------------------------ MODULE SummaryJobs ------------------------------
(***************************************************************************)
(* Summaries of scenes and of their chapter.  The author asks for one, or  *)
(* an invalidation asks for a new one of each summary a changed scene      *)
(* makes stale; a job generates it from the text it reads, checks that the *)
(* text is still the same, and stores it.  Meanwhile the author goes on    *)
(* writing, edits summaries by hand and asks again.                        *)
(*                                                                         *)
(* The events that start an invalidation (scene.content.updated) are read  *)
(* by SummaryOutboxPoller and written by nobody in this repository: here   *)
(* they come from outside, and may never come.                             *)
(***************************************************************************)
EXTENDS Naturals, Sequences, FiniteSets

CONSTANTS Scenes,           \* the scenes of one chapter
          Texts,            \* texts an author may write
          Empty,            \* a scene without text
          Authors,          \* requests of the author that can be in flight
          Workers,          \* concurrent generations (concurrency 2)
          Attempts,         \* attempts of a generation job
          MaxJobs,          \* bound: rows of SummaryGenerationJob
          MaxSaves,         \* bound: saves and deletions of scenes
          Disturbances,     \* bound: invalidation events and faults
          Chapter, NoWorker

ASSUME TextsAssumption == Empty \notin Texts
ASSUME ChapterAssumption == Chapter \notin Scenes
ASSUME WorkersAssumption == NoWorker \notin Workers
ASSUME BoundsAssumption == /\ Attempts \in Nat \ {0}
                           /\ MaxJobs \in Nat /\ MaxSaves \in Nat
                           /\ Disturbances \in Nat

VARIABLES
  text,          \* what a scene says (it stands for its hash)
  live,          \* scenes that are not deleted
  summary,       \* the Summary row of a scope
  jobs,          \* rows of SummaryGenerationJob with their BullMQ jobs
  requests,      \* requests between two awaits
  stale,         \* summaries an invalidation found and has not asked for again
  worker,        \* what each worker is doing
  saves, invalidations, faults,
  overlapping    \* history: two requests for one scope were in flight together

sourceVars == <<text, live, saves>>
countVars == <<invalidations, faults, overlapping>>
requestVars == <<requests, stale>>
vars == <<sourceVars, summary, jobs, requestVars, worker, countVars>>

Scopes == Scenes \cup {Chapter}

\* The input of a scope: what each of its scenes says.
Inputs == UNION {[S -> Texts \cup {Empty}] : S \in SUBSET Scenes}
Members(scope) == IF scope = Chapter THEN Scenes ELSE {scope}
Input(scope) == [s \in Members(scope) \cap live |-> text[s]]
Present(scope) == scope \in live \cup {Chapter}
NoInput == [s \in {} |-> Empty]

NoSummary == [source |-> "none", dirty |-> FALSE]

JobIds == DOMAIN jobs
\* The author's requests, and the one that asks for what an invalidation found.
Invalidation == "invalidation"
Requesters == Authors \cup {Invalidation}
Quiet == [pc |-> "idle", scope |-> Chapter, input |-> NoInput, job |-> 0]
Idle == [pc |-> "idle", job |-> 0, input |-> NoInput, parts |-> {},
         raced |-> FALSE, edited |-> FALSE]

RowStatus == {"QUEUED", "PROCESSING", "COMPLETED", "FAILED"}
QueueState == {"none", "waiting", "active", "delayed", "completed", "failed"}
Phases == {"idle", "read", "generate", "check", "store",
           "complete", "record", "throw", "return"}

TypeOK ==
  /\ text \in [Scenes -> Texts \cup {Empty}]
  /\ live \subseteq Scenes
  /\ \A c \in Scopes : /\ summary[c].source \in {"none", "ai_generated", "author_manual"}
                       /\ summary[c].dirty \in BOOLEAN
  /\ \A i \in JobIds : /\ jobs[i].scope \in Scopes /\ jobs[i].hash \in Inputs
                       /\ jobs[i].force \in BOOLEAN
                       /\ jobs[i].status \in RowStatus /\ jobs[i].queue \in QueueState
                       /\ jobs[i].tries \in 0..Attempts /\ jobs[i].stalled \in BOOLEAN
                       /\ jobs[i].holder \in Workers \cup {NoWorker}
  /\ \A r \in Requesters : /\ requests[r].pc \in {"idle", "list", "find", "create", "enqueue"}
                           /\ requests[r].job \in {0} \cup JobIds
  /\ stale \subseteq Scopes
  /\ \A w \in Workers : /\ worker[w].pc \in Phases
                        /\ worker[w].job \in {0} \cup JobIds
                        /\ worker[w].input \in Inputs
                        /\ worker[w].parts \subseteq DOMAIN worker[w].input
  /\ Len(jobs) <= MaxJobs /\ saves <= MaxSaves
  /\ invalidations \in Nat /\ faults \in Nat /\ invalidations + faults <= Disturbances

Init ==
  /\ text \in [Scenes -> Texts]
  /\ live = Scenes
  /\ summary = [c \in Scopes |-> NoSummary]
  /\ jobs = <<>>
  /\ requests = [r \in Requesters |-> Quiet] /\ stale = {}
  /\ worker = [w \in Workers |-> Idle]
  /\ saves = 0 /\ invalidations = 0 /\ faults = 0 /\ overlapping = FALSE

-----------------------------------------------------------------------------
(* The author.                                                             *)

At(w, phase) == worker[w].pc = phase
Doing(w) == jobs[worker[w].job]

\* History: a run that has checked its source and not yet stored the summary.
Raced(s) == [w \in Workers |->
               IF At(w, "store") /\ s \in Members(Doing(w).scope)
               THEN [worker[w] EXCEPT !.raced = TRUE] ELSE worker[w]]

WriteScene(s, t) ==
  /\ saves < MaxSaves
  /\ s \in live
  /\ t # text[s]
  /\ text' = [text EXCEPT ![s] = t]
  /\ saves' = saves + 1
  /\ worker' = Raced(s)
  /\ UNCHANGED <<live, summary, jobs, requestVars, countVars>>

DeleteScene(s) ==
  /\ saves < MaxSaves
  /\ s \in live
  /\ live' = live \ {s}
  /\ saves' = saves + 1
  /\ worker' = Raced(s)
  /\ UNCHANGED <<text, summary, jobs, requestVars, countVars>>

\* updateManual: an update by id, whoever is generating.
UpdateManual(c) ==
  /\ summary[c].source # "none"
  /\ summary' = [summary EXCEPT ![c].source = "author_manual", ![c].dirty = FALSE]
  /\ worker' = [w \in Workers |->
                  IF worker[w].pc \in {"generate", "check", "store"} /\ Doing(w).scope = c
                  THEN [worker[w] EXCEPT !.edited = TRUE] ELSE worker[w]]
  /\ UNCHANGED <<sourceVars, jobs, requestVars, countVars>>

-----------------------------------------------------------------------------
(* Requests: requestGeneration, and enqueueInvalidatedSummary for each     *)
(* summary processInvalidation finds.  Each await is a step.               *)

Forced(r) == r \in Authors
Waiting(r, pc) == requests[r].pc = pc
InFlight(c) == \E r \in Requesters : /\ requests[r].pc \in {"find", "create", "enqueue"}
                                     /\ requests[r].scope = c

\* What is asked for, and the text it says at that moment.
Ask(r, c) ==
  /\ Waiting(r, "idle")
  /\ requests' = [requests EXCEPT ![r] = [Quiet EXCEPT !.pc = "find", !.scope = c,
                                                     !.input = Input(c)]]
  /\ overlapping' = (overlapping \/ InFlight(c))
  /\ UNCHANGED <<sourceVars, summary, jobs, worker, invalidations, faults>>

\* A scene that is gone answers 404; a chapter is there even without scenes.
RequestGeneration(r, c) ==
  /\ r \in Authors
  /\ Present(c)
  /\ Ask(r, c)
  /\ UNCHANGED stale

Disturbed == invalidations + faults < Disturbances
Fault == Disturbed /\ faults' = faults + 1

\* invalidateScene: both summaries become dirty in one transaction.
ProcessInvalidation(s) ==
  /\ Disturbed
  /\ invalidations' = invalidations + 1
  /\ stale = {} /\ Waiting(Invalidation, "idle")
  /\ LET hit == {c \in {s, Chapter} : summary[c].source # "none"} IN
     /\ summary' = [c \in Scopes |-> IF c \in hit THEN [summary[c] EXCEPT !.dirty = TRUE]
                                     ELSE summary[c]]
     /\ stale' = hit
  /\ requests' = [requests EXCEPT ![Invalidation].pc = "list"]
  /\ UNCHANGED <<sourceVars, jobs, worker, faults, overlapping>>

\* They are read back: those the model wrote are to be asked for again.
ListInvalidated ==
  /\ Waiting(Invalidation, "list")
  /\ stale' = {c \in stale : summary[c].source = "ai_generated"}
  /\ requests' = [requests EXCEPT ![Invalidation] = Quiet]
  /\ UNCHANGED <<sourceVars, summary, jobs, worker, countVars>>

\* enqueueInvalidatedSummary, for the two in either order: they are asked for
\* together, but what is done for one does not look at the other.
EnqueueInvalidated(c) ==
  /\ c \in stale
  /\ Present(c)
  /\ Ask(Invalidation, c)
  /\ stale' = stale \ {c}

\* Nothing is asked for a scene that is gone.
SkipInvalidated(c) ==
  /\ c \in stale
  /\ Waiting(Invalidation, "idle") /\ ~Present(c)
  /\ stale' = stale \ {c}
  /\ UNCHANGED <<sourceVars, summary, requests, jobs, worker, countVars>>

Active(i) == jobs[i].status \in {"QUEUED", "PROCESSING"}
SameInput(i, r) == jobs[i].scope = requests[r].scope /\ jobs[i].hash = requests[r].input

\* Mutant of InFlightJob: a job that is being processed is not looked at.
QueuedJob(i, r) == jobs[i].status = "QUEUED" /\ SameInput(i, r)

InFlightJob(i, r) == Active(i) /\ SameInput(i, r)

\* createOrGetJob looks for the newest job in flight with this input, whatever its
\* force; the caller enqueues it only while it is QUEUED.
FindJob(r) ==
  /\ Waiting(r, "find")
  /\ LET found == {i \in JobIds : InFlightJob(i, r)} IN
     \/ /\ found = {}
        /\ requests' = [requests EXCEPT ![r].pc = "create"]
     \/ \E i \in found :
          /\ \A k \in found : k <= i
          /\ requests' = [requests EXCEPT ![r] = IF jobs[i].status = "QUEUED"
                            THEN [@ EXCEPT !.pc = "enqueue", !.job = i] ELSE Quiet]
  /\ UNCHANGED <<sourceVars, summary, jobs, worker, stale, countVars>>

CreateJob(r) ==
  /\ Waiting(r, "create")
  /\ Len(jobs) < MaxJobs
  /\ jobs' = Append(jobs, [scope |-> requests[r].scope, hash |-> requests[r].input,
                           force |-> Forced(r), status |-> "QUEUED", queue |-> "none",
                           tries |-> 0, stalled |-> FALSE, holder |-> NoWorker])
  /\ requests' = [requests EXCEPT ![r].pc = "enqueue", ![r].job = Len(jobs) + 1]
  /\ UNCHANGED <<sourceVars, summary, worker, stale, countVars>>

\* queue.add does nothing when there is a job with this id.  A found job keeps
\* the force it was created with: the queue's copy is written once.
EnqueueJob(r) ==
  /\ Waiting(r, "enqueue")
  /\ LET i == requests[r].job IN
     jobs' = IF jobs[i].queue = "none"
             THEN [jobs EXCEPT ![i].queue = "waiting", ![i].force = Forced(r)] ELSE jobs
  /\ requests' = [requests EXCEPT ![r] = Quiet]
  /\ UNCHANGED <<sourceVars, summary, worker, stale, countVars>>

\* The web process dies or Redis refuses, between any two awaits of a request; an
\* invalidation that used up its attempts gives up the rest.
RequestDies(r) ==
  /\ ~Waiting(r, "idle")
  /\ Fault
  /\ requests' = [requests EXCEPT ![r] = Quiet]
  /\ stale' = IF r = Invalidation THEN {} ELSE stale
  /\ UNCHANGED <<sourceVars, summary, jobs, worker, invalidations, overlapping>>

-----------------------------------------------------------------------------
(* The worker: processGeneration.                                          *)

Scope(w) == Doing(w).scope
GoTo(w, phase) == worker' = [worker EXCEPT ![w].pc = phase]
Release(w) == worker' = [worker EXCEPT ![w] = Idle]
HoldsLock(w) == Doing(w).holder = w
\* An exception inside the try block: what was read is forgotten.
Fail(w) == worker' = [worker EXCEPT ![w] = [Idle EXCEPT !.pc = "record", !.job = worker[w].job]]
Row(w, status) == jobs' = [jobs EXCEPT ![worker[w].job].status = status]

\* BullMQ gives out a job (the priorities only choose which one first) and markJobProcessing writes its row.
Take(w, i) ==
  /\ At(w, "idle")
  /\ jobs[i].queue = "waiting"
  /\ jobs' = [jobs EXCEPT ![i].queue = "active", ![i].holder = w, ![i].status = "PROCESSING"]
  /\ worker' = [worker EXCEPT ![w] = [Idle EXCEPT !.pc = "read", !.job = i]]
  /\ UNCHANGED <<sourceVars, summary, requestVars, countVars>>

\* That write fails, outside the try block.
TakeFails(w, i) ==
  /\ At(w, "idle")
  /\ jobs[i].queue = "waiting"
  /\ Fault
  /\ jobs' = [jobs EXCEPT ![i].queue = "active", ![i].holder = w]
  /\ worker' = [worker EXCEPT ![w] = [Idle EXCEPT !.pc = "throw", !.job = i]]
  /\ UNCHANGED <<sourceVars, summary, requestVars, invalidations, overlapping>>

\* Mutant of KeepsManual: a job always generates.
NeverKept(w) == FALSE

\* A text the author wrote is left alone unless the author asked.
KeepsManual(w) == summary[Scope(w)].source = "author_manual" /\ ~Doing(w).force

\* The source and the current summary are read by two queries; the first does not
\* read what an edit by hand writes and the second not what a save writes, so one
\* step stands for both.
ReadSource(w) ==
  /\ At(w, "read")
  /\ worker' = [worker EXCEPT ![w].pc = IF ~Present(Scope(w)) THEN "record"
                                        ELSE IF KeepsManual(w) THEN "complete" ELSE "generate",
                              ![w].input = Input(Scope(w))]
  /\ UNCHANGED <<sourceVars, summary, jobs, requestVars, countVars>>

\* generateChapter reuses the summaries of its scenes that are not dirty and
\* generates the others; a scene is generated from its text, if it has one.
Reused(w, s) == Scope(w) = Chapter /\ summary[s].source # "none" /\ ~summary[s].dirty

GeneratePart(w, s) ==
  /\ At(w, "generate")
  /\ s \in DOMAIN worker[w].input \ worker[w].parts
  /\ Reused(w, s) \/ worker[w].input[s] # Empty
  /\ LET parts == worker[w].parts \cup {s} IN
     worker' = [worker EXCEPT ![w].parts = parts,
                  ![w].pc = IF parts = DOMAIN worker[w].input THEN "check" ELSE @]
  /\ UNCHANGED <<sourceVars, summary, jobs, requestVars, countVars>>

\* The model fails, the text is empty or the chapter is, or the summary is not
\* faithful even after one correction.
GenerationFails(w) ==
  /\ At(w, "generate")
  /\ Fail(w)
  /\ UNCHANGED <<sourceVars, summary, jobs, requestVars, countVars>>

CheckSource(w) ==
  /\ At(w, "check")
  /\ IF Present(Scope(w)) /\ Input(Scope(w)) = worker[w].input THEN GoTo(w, "store") ELSE Fail(w)
  /\ UNCHANGED <<sourceVars, summary, jobs, requestVars, countVars>>

UpsertGenerated(w) ==
  /\ At(w, "store")
  /\ summary' = [summary EXCEPT ![Scope(w)] = [source |-> "ai_generated", dirty |-> FALSE]]
  /\ worker' = [worker EXCEPT ![w] = [Idle EXCEPT !.pc = "complete", !.job = worker[w].job]]
  /\ UNCHANGED <<sourceVars, jobs, requestVars, countVars>>

MarkCompleted(w) ==
  /\ At(w, "complete")
  /\ Row(w, "COMPLETED")
  /\ GoTo(w, "return")
  /\ UNCHANGED <<sourceVars, summary, requestVars, countVars>>

MarkFailed(w) ==
  /\ At(w, "record")
  /\ Row(w, "FAILED")
  /\ GoTo(w, "throw")
  /\ UNCHANGED <<sourceVars, summary, requestVars, countVars>>

\* A write or a read of the database fails: inside the try block the failure is
\* recorded, outside it is thrown at once.
DatabaseDown(w) ==
  /\ worker[w].pc \in {"read", "check", "store", "complete", "record"}
  /\ Fault
  /\ IF At(w, "record") THEN GoTo(w, "throw") ELSE Fail(w)
  /\ UNCHANGED <<sourceVars, summary, jobs, requestVars, invalidations, overlapping>>

\* moveToCompleted and moveToFailed, if the worker still holds the lock.
Return(w) ==
  /\ At(w, "return")
  /\ jobs' = IF HoldsLock(w)
             THEN [jobs EXCEPT ![worker[w].job].queue = "completed",
                               ![worker[w].job].holder = NoWorker]
             ELSE jobs
  /\ Release(w)
  /\ UNCHANGED <<sourceVars, summary, requestVars, countVars>>

Throw(w) ==
  /\ At(w, "throw")
  /\ LET last == Doing(w).tries + 1 >= Attempts IN
     jobs' = IF HoldsLock(w)
             THEN [jobs EXCEPT ![worker[w].job].queue = IF last THEN "failed" ELSE "delayed",
                               ![worker[w].job].tries = @ + 1,
                               ![worker[w].job].holder = NoWorker]
             ELSE jobs
  /\ Release(w)
  /\ UNCHANGED <<sourceVars, summary, requestVars, countVars>>

Promote(i) ==
  /\ jobs[i].queue = "delayed"
  /\ jobs' = [jobs EXCEPT ![i].queue = "waiting"]
  /\ UNCHANGED <<sourceVars, summary, requestVars, worker, countVars>>

\* A lock expires, with its worker process or although the run goes on; the
\* stalled check gives the job to another worker once (maxStalledCount 1).
LoseLock(w, dies) ==
  /\ ~At(w, "idle")
  /\ HoldsLock(w)
  /\ Fault
  /\ jobs' = [jobs EXCEPT ![worker[w].job].queue = IF Doing(w).stalled THEN "failed" ELSE "waiting",
                          ![worker[w].job].stalled = TRUE,
                          ![worker[w].job].holder = NoWorker]
  /\ worker' = IF dies THEN [worker EXCEPT ![w] = Idle] ELSE worker
  /\ UNCHANGED <<sourceVars, summary, requestVars, invalidations, overlapping>>

Next ==
  \/ \E s \in Scenes, t \in Texts \cup {Empty} : WriteScene(s, t)
  \/ \E s \in Scenes : DeleteScene(s)
  \/ \E c \in Scopes : UpdateManual(c)
  \/ \E r \in Authors, c \in Scopes : RequestGeneration(r, c)
  \/ \E s \in Scenes : ProcessInvalidation(s)
  \/ ListInvalidated
  \/ \E c \in Scopes : EnqueueInvalidated(c)
  \/ \E c \in Scopes : SkipInvalidated(c)
  \/ \E r \in Requesters : FindJob(r)
  \/ \E r \in Requesters : CreateJob(r)
  \/ \E r \in Requesters : EnqueueJob(r)
  \/ \E r \in Requesters : RequestDies(r)
  \/ \E w \in Workers, i \in JobIds : Take(w, i)
  \/ \E w \in Workers, i \in JobIds : TakeFails(w, i)
  \/ \E w \in Workers : ReadSource(w)
  \/ \E w \in Workers, s \in Scenes : GeneratePart(w, s)
  \/ \E w \in Workers : GenerationFails(w)
  \/ \E w \in Workers : CheckSource(w)
  \/ \E w \in Workers : UpsertGenerated(w)
  \/ \E w \in Workers : MarkCompleted(w)
  \/ \E w \in Workers : MarkFailed(w)
  \/ \E w \in Workers : DatabaseDown(w)
  \/ \E w \in Workers : Return(w)
  \/ \E w \in Workers : Throw(w)
  \/ \E i \in JobIds : Promote(i)
  \/ \E w \in Workers, dies \in BOOLEAN : LoseLock(w, dies)

Spec == Init /\ [][Next]_vars

-----------------------------------------------------------------------------
(* Properties.                                                             *)

\* As long as no two requests for a scope are in flight together and nothing is
\* retried, an input has one job in flight: asking again, or an invalidation,
\* joins it (createOrGetJob finds, then creates).
OneJobInFlight ==
  (~overlapping /\ faults = 0 /\ \A i \in JobIds : jobs[i].tries = 0)
    => \A i, k \in JobIds : Active(i) /\ Active(k) /\ i # k =>
         <<jobs[i].scope, jobs[i].hash>> # <<jobs[k].scope, jobs[k].hash>>

Stores(w, c) == At(w, "store") /\ Scope(w) = c /\ worker'[w].pc = "complete"

\* A text the author wrote by hand is replaced only by a job the author asked
\* for, or by one that looked before the author wrote: an invalidation alone
\* never takes it away.
ManualTextIsKept ==
  [][\A c \in Scopes : summary[c].source = "author_manual" /\ summary'[c].source = "ai_generated"
       => \E w \in Workers : Stores(w, c) /\ (Doing(w).force \/ worker[w].edited)]_vars

\* A summary is stored for the text its scenes have at that moment, unless they
\* changed after the run checked them: changes during the model calls, deletions
\* included, fail the run.
StoredForCurrentText ==
  [][\A w \in Workers, c \in Scopes : Stores(w, c) /\ ~worker[w].raced
       => worker[w].input = Input(c)]_vars

\* Without a fault the row of a job tells what became of it in the queue, retries
\* of changed sources and failed generations included.
QueueAgreesWithRow ==
  faults = 0 => \A i \in JobIds : /\ jobs[i].queue = "completed" => jobs[i].status = "COMPLETED"
                                  /\ jobs[i].queue = "failed" => jobs[i].status = "FAILED"

\* Without a fault no request is lost: a job that is in flight is in the queue, or
\* somebody is about to put it there.
ActiveJobRuns ==
  faults = 0 => \A i \in JobIds : Active(i) =>
    \/ jobs[i].queue \in {"waiting", "active", "delayed"}
    \/ \E r \in Requesters : Waiting(r, "enqueue") /\ requests[r].job = i

\* Requests, rows and the queue agree about every job, with retries, invalidations
\* and faults.
JobsAreSound == TypeOK /\ OneJobInFlight /\ QueueAgreesWithRow /\ ActiveJobRuns

\* What a generation may overwrite, for both of its scopes.
StoresAreEarned == ManualTextIsKept /\ StoredForCurrentText
=============================================================================
