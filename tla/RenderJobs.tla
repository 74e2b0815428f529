------------------------------- MODULE RenderJobs -------------------------------
(***************************************************************************)
(* Jobs that render something for the author: images of an entity and      *)
(* exports of a book.  A request writes the job and its outbox event in    *)
(* one transaction; a relay in every web process moves events to a BullMQ  *)
(* queue; a worker claims the job, renders, uploads and commits.  Unlike   *)
(* the analysis dispatcher, the relay settles an event when it is          *)
(* enqueued, and nothing listens to the failures of the queue: the row of  *)
(* the job is only ever written by its own runs.                           *)
(*                                                                         *)
(* Both kinds have the same control; what tells them apart is that an      *)
(* image job also refuses a run once it has its image.                     *)
(***************************************************************************)
EXTENDS Naturals, FiniteSets

CONSTANTS Jobs,            \* jobs that may be requested
          ImageJobs,       \* those that make an image; the others are exports
          Pollers,         \* web processes, each with one relay
          Workers,         \* concurrent runs of the worker processes
          BatchSize,       \* rows a poll takes
          Attempts,        \* attempts of the BullMQ job
          MaxStalledCount, \* BullMQ: stalls a job survives
          FaultBudget,     \* bound: faults
          NoJob, NoWorker

ASSUME ImageJobsAssumption == ImageJobs \subseteq Jobs
ASSUME JobsAssumption == IsFiniteSet(Jobs) /\ NoJob \notin Jobs
ASSUME WorkersAssumption == NoWorker \notin Workers
ASSUME BoundsAssumption == /\ BatchSize \in Nat \ {0}
                           /\ Attempts \in Nat \ {0}
                           /\ MaxStalledCount \in Nat
                           /\ FaultBudget \in Nat

VARIABLES
  order,     \* position of a job's event in createdAt order, 0 before the request
  processed, \* jobs whose event has processedAt
  batch,     \* events a relay has read and not yet dealt with
  marking,   \* the event a relay has enqueued and not yet marked
  queue,     \* state of the BullMQ job
  tries,     \* attemptsMade of the BullMQ job
  stalls,    \* stalledCounter of the BullMQ job
  holder,    \* worker holding its lock
  status,    \* status of the job's row
  images,    \* GeneratedImage rows created for the job
  uploaded,  \* jobs whose file is in the bucket
  run,       \* what each worker is doing
  enqueued,  \* history: jobs that were added to the queue
  faults,    \* faults so far
  doubled,   \* history: a running worker lost its lock
  uncertain  \* history: a commit succeeded whose answer was lost

relayVars == <<order, processed, batch, marking, enqueued>>
queueVars == <<queue, tries, stalls, holder>>
rowVars == <<status, images, uploaded>>
historyVars == <<faults, doubled, uncertain>>
vars == <<relayVars, queueVars, rowVars, run, historyVars>>

RowStatus == {"NONE", "QUEUED", "PROCESSING", "COMPLETED", "FAILED"}
Phases == {"idle", "claim", "render", "upload", "commit", "record", "throw", "return"}
Idle == [pc |-> "idle", job |-> NoJob]

Requested == {j \in Jobs : order[j] > 0}
Pending == Requested \ processed
OldestPending ==
  {j \in Pending : Cardinality({k \in Pending : order[k] < order[j]}) < BatchSize}

TypeOK ==
  /\ order \in [Jobs -> Nat]
  /\ processed \subseteq Jobs /\ uploaded \subseteq Jobs /\ enqueued \subseteq Jobs
  /\ batch \in [Pollers -> SUBSET Jobs]
  /\ marking \in [Pollers -> Jobs \cup {NoJob}]
  /\ queue \in [Jobs -> {"none", "waiting", "active", "delayed", "completed", "failed"}]
  /\ tries \in [Jobs -> 0..Attempts]
  /\ stalls \in [Jobs -> 0..(MaxStalledCount + 1)]
  /\ holder \in [Jobs -> Workers \cup {NoWorker}]
  /\ status \in [Jobs -> RowStatus]
  /\ images \in [Jobs -> Nat]
  /\ run \in [Workers -> [pc : Phases, job : Jobs \cup {NoJob}]]
  /\ faults \in 0..FaultBudget
  /\ doubled \in BOOLEAN /\ uncertain \in BOOLEAN

Init ==
  /\ order = [j \in Jobs |-> 0]
  /\ processed = {} /\ uploaded = {} /\ enqueued = {}
  /\ batch = [p \in Pollers |-> {}]
  /\ marking = [p \in Pollers |-> NoJob]
  /\ queue = [j \in Jobs |-> "none"]
  /\ tries = [j \in Jobs |-> 0]
  /\ stalls = [j \in Jobs |-> 0]
  /\ holder = [j \in Jobs |-> NoWorker]
  /\ status = [j \in Jobs |-> "NONE"]
  /\ images = [j \in Jobs |-> 0]
  /\ run = [w \in Workers |-> Idle]
  /\ faults = 0
  /\ doubled = FALSE /\ uncertain = FALSE

-----------------------------------------------------------------------------
(* The request.                                                            *)

Request(j) ==
  /\ order[j] = 0
  /\ order' = [order EXCEPT ![j] = Cardinality(Requested) + 1]
  /\ status' = [status EXCEPT ![j] = "QUEUED"]
  /\ UNCHANGED <<processed, batch, marking, enqueued, queueVars, images, uploaded,
                 run, historyVars>>

-----------------------------------------------------------------------------
(* The relay: OutboxPoller.poll and the processEvent of the two pollers.   *)

\* `running' keeps a relay from reading while a batch is in progress.
Poll(p) ==
  /\ batch[p] = {}
  /\ Pending # {}
  /\ batch' = [batch EXCEPT ![p] = OldestPending]
  /\ UNCHANGED <<order, processed, marking, enqueued, queueVars, rowVars, run, historyVars>>

NextEvent(p, j) ==
  /\ marking[p] = NoJob
  /\ j \in batch[p]
  /\ \A k \in batch[p] : order[j] <= order[k]

\* queue.add does nothing when a job has the id, finished ones included: they are
\* kept (removeOnComplete and removeOnFail 1000).
Enqueue(p, j) ==
  /\ NextEvent(p, j)
  /\ queue' = [queue EXCEPT ![j] = IF @ = "none" THEN "waiting" ELSE @]
  /\ enqueued' = enqueued \cup {j}
  /\ marking' = [marking EXCEPT ![p] = j]
  /\ UNCHANGED <<order, processed, batch, tries, stalls, holder, rowVars, run, historyVars>>

Mark(p) ==
  /\ marking[p] # NoJob
  /\ processed' = processed \cup {marking[p]}
  /\ batch' = [batch EXCEPT ![p] = @ \ {marking[p]}]
  /\ marking' = [marking EXCEPT ![p] = NoJob]
  /\ UNCHANGED <<order, enqueued, queueVars, rowVars, run, historyVars>>

Fault == faults < FaultBudget /\ faults' = faults + 1

\* Mutant of RelayFails: an event that could not be enqueued is marked.
MarkAnyway(p, j) ==
  /\ NextEvent(p, j) \/ j = marking[p]
  /\ j \in batch[p]
  /\ Fault
  /\ processed' = processed \cup {j}
  /\ batch' = [batch EXCEPT ![p] = @ \ {j}]
  /\ marking' = [marking EXCEPT ![p] = NoJob]
  /\ UNCHANGED <<order, enqueued, queueVars, rowVars, run, doubled, uncertain>>

\* Redis or the database refuses: the error is swallowed and the pass goes on;
\* or the process dies and with it the rest of the pass.
RelayFails(p, j) ==
  /\ NextEvent(p, j) \/ j = marking[p]
  /\ j \in batch[p]
  /\ Fault
  /\ \E rest \in {{}, batch[p] \ {j}} : batch' = [batch EXCEPT ![p] = rest]
  /\ marking' = [marking EXCEPT ![p] = NoJob]
  /\ UNCHANGED <<order, processed, enqueued, queueVars, rowVars, run, doubled, uncertain>>

-----------------------------------------------------------------------------
(* The worker: processImageGeneration and processExport.                   *)

At(w, phase) == run[w].pc = phase
Job(w) == run[w].job
GoTo(w, phase) == run' = [run EXCEPT ![w].pc = phase]
HoldsLock(w) == holder[Job(w)] = w
Release(w) == run' = [run EXCEPT ![w] = Idle]

Take(w, j) ==
  /\ At(w, "idle")
  /\ queue[j] = "waiting"
  /\ queue' = [queue EXCEPT ![j] = "active"]
  /\ holder' = [holder EXCEPT ![j] = w]
  /\ run' = [run EXCEPT ![w] = [pc |-> "claim", job |-> j]]
  /\ UNCHANGED <<relayVars, tries, stalls, rowVars, historyVars>>

\* Mutant of Claimable: the image is not looked at.
NotCompleted(j) == status[j] \in {"QUEUED", "PROCESSING", "FAILED"}

\* The claim takes any job that is not COMPLETED, one that is being processed
\* included.
Claimable(j) == /\ status[j] \in {"QUEUED", "PROCESSING", "FAILED"}
                /\ j \in ImageJobs => images[j] = 0

\* The row is read and claimed by a conditional update; the return before the
\* claim is for rows the claim refuses as well.
Claim(w) ==
  /\ At(w, "claim")
  /\ IF Claimable(Job(w))
     THEN /\ status' = [status EXCEPT ![Job(w)] = "PROCESSING"]
          /\ GoTo(w, "render")
     ELSE /\ UNCHANGED status
          /\ GoTo(w, "return")
  /\ UNCHANGED <<relayVars, queueVars, images, uploaded, historyVars>>

\* The provider or the renderer answers.
Render(w) ==
  /\ At(w, "render")
  /\ GoTo(w, "upload")
  /\ UNCHANGED <<relayVars, queueVars, rowVars, historyVars>>

\* The file goes to a key that depends on the job only.
Upload(w) ==
  /\ At(w, "upload")
  /\ uploaded' = uploaded \cup {Job(w)}
  /\ GoTo(w, "commit")
  /\ UNCHANGED <<relayVars, queueVars, status, images, historyVars>>

Completed(w) ==
  /\ status' = [status EXCEPT ![Job(w)] = "COMPLETED"]
  /\ images' = [images EXCEPT ![Job(w)] = IF Job(w) \in ImageJobs THEN @ + 1 ELSE @]

\* One transaction creates the image and completes the job; an export completes
\* with one update.
Commit(w) ==
  /\ At(w, "commit")
  /\ Completed(w)
  /\ GoTo(w, "return")
  /\ UNCHANGED <<relayVars, queueVars, uploaded, historyVars>>

\* The commit took place, but its answer never came: the run goes on as if it had
\* thrown.
CommitUnanswered(w) ==
  /\ At(w, "commit")
  /\ Fault
  /\ Completed(w)
  /\ uncertain' = TRUE
  /\ GoTo(w, "record")
  /\ UNCHANGED <<relayVars, queueVars, uploaded, doubled>>

\* Something between the claim and the commit throws.
RunFails(w) ==
  /\ run[w].pc \in {"render", "upload", "commit"}
  /\ GoTo(w, "record")
  /\ UNCHANGED <<relayVars, queueVars, rowVars, historyVars>>

\* The catch block writes FAILED over whatever the row says, and throws on.
RecordFailure(w) ==
  /\ At(w, "record")
  /\ status' = [status EXCEPT ![Job(w)] = "FAILED"]
  /\ GoTo(w, "throw")
  /\ UNCHANGED <<relayVars, queueVars, images, uploaded, historyVars>>

\* Or the database refuses that write too, or refused the claim.
DatabaseDown(w) ==
  /\ run[w].pc \in {"claim", "record"}
  /\ Fault
  /\ GoTo(w, "throw")
  /\ UNCHANGED <<relayVars, queueVars, rowVars, doubled, uncertain>>

\* moveToFailed: another attempt after a backoff, or the end.
Throw(w) ==
  /\ At(w, "throw")
  /\ IF HoldsLock(w)
     THEN LET last == tries[Job(w)] + 1 >= Attempts IN
          /\ tries' = [tries EXCEPT ![Job(w)] = @ + 1]
          /\ holder' = [holder EXCEPT ![Job(w)] = NoWorker]
          /\ queue' = [queue EXCEPT ![Job(w)] = IF last THEN "failed" ELSE "delayed"]
     ELSE UNCHANGED <<tries, holder, queue>>
  /\ Release(w)
  /\ UNCHANGED <<relayVars, stalls, rowVars, historyVars>>

\* moveToCompleted, if the worker still holds the lock.
Return(w) ==
  /\ At(w, "return")
  /\ IF HoldsLock(w)
     THEN /\ queue' = [queue EXCEPT ![Job(w)] = "completed"]
          /\ holder' = [holder EXCEPT ![Job(w)] = NoWorker]
     ELSE UNCHANGED <<queue, holder>>
  /\ Release(w)
  /\ UNCHANGED <<relayVars, tries, stalls, rowVars, historyVars>>

Promote(j) ==
  /\ queue[j] = "delayed"
  /\ queue' = [queue EXCEPT ![j] = "waiting"]
  /\ UNCHANGED <<relayVars, tries, stalls, holder, rowVars, run, historyVars>>

-----------------------------------------------------------------------------
(* Faults of a worker, and BullMQ's stalled check.                         *)

Crash(w) ==
  /\ ~At(w, "idle")
  /\ Fault
  /\ Release(w)
  /\ UNCHANGED <<relayVars, queueVars, rowVars, doubled, uncertain>>

Orphaned(j) == \A w \in Workers : holder[j] = w => Job(w) # j

Stall(j) ==
  /\ queue[j] = "active"
  /\ holder' = [holder EXCEPT ![j] = NoWorker]
  /\ stalls' = [stalls EXCEPT ![j] = @ + 1]
  /\ queue' = [queue EXCEPT ![j] = IF stalls[j] + 1 > MaxStalledCount THEN "failed" ELSE "waiting"]
  /\ UNCHANGED <<relayVars, tries, rowVars, run, uncertain>>

StalledAfterCrash(j) == Stall(j) /\ Orphaned(j) /\ UNCHANGED <<faults, doubled>>

\* The holder is alive (a long synchronous rendering, Redis out of reach) and goes
\* on.
StalledWhileRunning(j) == Stall(j) /\ ~Orphaned(j) /\ Fault /\ doubled' = TRUE

Next ==
  \/ \E j \in Jobs : Request(j)
  \/ \E p \in Pollers : Poll(p)
  \/ \E p \in Pollers, j \in Jobs : Enqueue(p, j)
  \/ \E p \in Pollers : Mark(p)
  \/ \E p \in Pollers, j \in Jobs : RelayFails(p, j)
  \/ \E w \in Workers, j \in Jobs : Take(w, j)
  \/ \E w \in Workers : Claim(w)
  \/ \E w \in Workers : Render(w)
  \/ \E w \in Workers : Upload(w)
  \/ \E w \in Workers : Commit(w)
  \/ \E w \in Workers : CommitUnanswered(w)
  \/ \E w \in Workers : RunFails(w)
  \/ \E w \in Workers : RecordFailure(w)
  \/ \E w \in Workers : DatabaseDown(w)
  \/ \E w \in Workers : Throw(w)
  \/ \E w \in Workers : Return(w)
  \/ \E j \in Jobs : Promote(j)
  \/ \E w \in Workers : Crash(w)
  \/ \E j \in Jobs : StalledAfterCrash(j)
  \/ \E j \in Jobs : StalledWhileRunning(j)

(***************************************************************************)
(* Timers fire, an idle worker takes a waiting job, and every step of a    *)
(* relay or a run ends, one way or the other (calls have timeouts).        *)
(***************************************************************************)
RelayStep(p) == Mark(p) \/ \E j \in Jobs : Enqueue(p, j)
RunStep(w) == \/ Claim(w) \/ Render(w) \/ Upload(w) \/ Commit(w) \/ RunFails(w)
              \/ RecordFailure(w) \/ Throw(w) \/ Return(w)

Fairness ==
  /\ \A p \in Pollers : WF_vars(Poll(p)) /\ WF_vars(RelayStep(p))
  /\ \A w \in Workers : WF_vars(\E j \in Jobs : Take(w, j)) /\ WF_vars(RunStep(w))
  /\ \A j \in Jobs : WF_vars(Promote(j)) /\ WF_vars(StalledAfterCrash(j))

Spec == Init /\ [][Next]_vars /\ Fairness

-----------------------------------------------------------------------------
(* Properties.                                                             *)

\* Whatever happens to the relays, to the workers and to the answers of the
\* database, a job is COMPLETED, and offered for download, only when its file is
\* in the bucket.
CompletedHasFile == \A j \in Jobs : status[j] = "COMPLETED" => j \in uploaded

\* Retries, crashes between any two steps and commits without an answer never
\* leave a second image in the gallery; only a run that overlaps another after
\* losing its lock may.
OneImagePerJob == ~doubled => \A j \in Jobs : images[j] <= 1

\* Nor does anything take a COMPLETED job back, unless two runs overlapped or an
\* answer was lost.
CompletedIsFinal ==
  [][~(doubled' \/ uncertain') =>
       \A j \in Jobs : status[j] = "COMPLETED" => status'[j] = "COMPLETED"]_vars

\* The queue and the row tell the same end: a job the queue completed is COMPLETED
\* unless two runs overlapped or an answer was lost, and one the queue gave up is
\* FAILED unless there was a fault (no listener of the queue writes the row, so a
\* job that stalled too often stays PROCESSING).
QueueAgreesWithRow ==
  \A j \in Jobs :
    /\ (queue[j] = "completed" /\ ~doubled /\ ~uncertain) => status[j] = "COMPLETED"
    /\ (queue[j] = "failed" /\ faults = 0) => status[j] = "FAILED"

\* The row, the file, the gallery and the queue never disagree but where a fault
\* the code cannot see explains it.
JobsAreSound == TypeOK /\ CompletedHasFile /\ QueueAgreesWithRow /\ OneImagePerJob

\* Every requested job comes to an end in the queue: no crash of a relay loses an
\* event and no crash of a worker loses a job.
EveryJobEnds == \A j \in Jobs : (order[j] > 0) ~> (queue[j] \in {"completed", "failed"})

(***************************************************************************)
(* The outbox promise the relay keeps: here to handle an event is to have  *)
(* its job in the queue, and no event is abandoned.                        *)
(***************************************************************************)
Promise == INSTANCE OutboxPromise WITH
             Events    <- Jobs,
             recorded  <- Requested,
             handled   <- enqueued,
             abandoned <- {},
             settled   <- processed

\* Every behaviour of the relay is one the outbox promise allows.
KeepsPromise == Promise!Spec
=============================================================================
