--------------------------- MODULE AnalysisDispatch ---------------------------
(***************************************************************************)
(* How an analysis event travels from the outbox table to a finished (or   *)
(* failed) analysis: the dispatcher that polls the table, the BullMQ queue *)
(* `entity-extraction', the worker that runs the pipeline, and the two     *)
(* paths that finalise an event whose job failed for good.  What a run of  *)
(* the pipeline does to the scene is in SceneAnalysis; here it is one step.*)
(*                                                                         *)
(* A worker process has one worker (concurrency 1) and polls the table     *)
(* every few seconds without waiting for the previous poll, so poll passes *)
(* overlap: Passes is the set of passes that may be in flight together.    *)
(***************************************************************************)
EXTENDS Naturals, FiniteSets

CONSTANTS Events,          \* outbox rows that may be written
          SceneEvents,     \* those of type scene_changed: their payload has a status
          Workers,         \* BullMQ workers, one per worker process
          Passes,          \* poll passes that can overlap
          Attempts,        \* JOB_ATTEMPTS
          BatchSize,       \* OUTBOX_BATCH_SIZE
          MaxStalledCount, \* BullMQ: stalls a job survives
          FaultBudget,     \* bound: crashes, lost locks, lost callbacks
          NoEvent, NoWorker

ASSUME EventsAssumption == IsFiniteSet(Events)
ASSUME SceneEventsAssumption == SceneEvents \subseteq Events
ASSUME AttemptsAssumption == Attempts \in Nat \ {0}
ASSUME BatchAssumption == BatchSize \in Nat \ {0}
ASSUME StalledAssumption == MaxStalledCount \in Nat
ASSUME BudgetAssumption == FaultBudget \in Nat
ASSUME NoEventAssumption == NoEvent \notin Events
ASSUME NoWorkerAssumption == NoWorker \notin Workers

VARIABLES
  order,     \* position of a row in createdAt order, 0 before it is written
  processed, \* rows with processedAt set
  status,    \* payload.analysisStatus of a row
  jobState,  \* state of the BullMQ job whose id is the row's id
  made,      \* attemptsMade of that job
  stalls,    \* stalledCounter of that job
  holder,    \* worker holding the job's lock
  batch,     \* rows a poll pass has read and not yet dispatched
  run,       \* event a worker is running
  pc,        \* where the worker is in it
  callbacks, \* 'failed' callbacks scheduled and not yet executed
  completed, \* events some run of the pipeline handled to the end (history)
  faults     \* faults so far

vars == <<order, processed, status, jobState, made, stalls, holder, batch,
          run, pc, callbacks, completed, faults>>
rowVars == <<order, processed, status>>
jobVars == <<jobState, made, stalls, holder>>
workerVars == <<run, pc>>

Status == {"NONE", "QUEUED", "RUNNING", "SUCCEEDED", "FAILED"}
JobState == {"none", "waiting", "active", "delayed", "failed"}
Phase == {"idle", "taken", "analysing", "handled", "marked"}

Recorded == {e \in Events : order[e] > 0}
Pending == Recorded \ processed

(***************************************************************************)
(* The rows a poll returns: processedAt null, oldest first, BatchSize.     *)
(***************************************************************************)
OldestPending ==
  {e \in Pending : Cardinality({f \in Pending : order[f] < order[e]}) < BatchSize}

Exhausted(e) == jobState[e] = "failed" /\ made[e] >= Attempts

(***************************************************************************)
(* A job BullMQ failed for stalling too often, with attempts left.  The    *)
(* dispatcher neither adds it again nor finalises its row.                 *)
(***************************************************************************)
Stranded(e) == jobState[e] = "failed" /\ made[e] < Attempts

TypeOK ==
  /\ order \in [Events -> Nat]
  /\ processed \subseteq Events
  /\ status \in [Events -> Status]
  /\ jobState \in [Events -> JobState]
  /\ made \in [Events -> Nat]
  /\ stalls \in [Events -> Nat]
  /\ holder \in [Events -> Workers \cup {NoWorker}]
  /\ batch \in [Passes -> SUBSET Events]
  /\ run \in [Workers -> Events \cup {NoEvent}]
  /\ pc \in [Workers -> Phase]
  /\ callbacks \subseteq Events
  /\ completed \subseteq Events
  /\ faults \in Nat

Init ==
  /\ order = [e \in Events |-> 0]
  /\ processed = {}
  /\ status = [e \in Events |-> "NONE"]
  /\ jobState = [e \in Events |-> "none"]
  /\ made = [e \in Events |-> 0]
  /\ stalls = [e \in Events |-> 0]
  /\ holder = [e \in Events |-> NoWorker]
  /\ batch = [p \in Passes |-> {}]
  /\ run = [w \in Workers |-> NoEvent]
  /\ pc = [w \in Workers |-> "idle"]
  /\ callbacks = {}
  /\ completed = {}
  /\ faults = 0

-----------------------------------------------------------------------------
(* The writers of the table.                                               *)

Record(e) ==
  /\ order[e] = 0
  /\ order' = [order EXCEPT ![e] = Cardinality(Recorded) + 1]
  /\ status' = [status EXCEPT ![e] = IF e \in SceneEvents THEN "QUEUED" ELSE "NONE"]
  /\ UNCHANGED <<processed, jobVars, batch, workerVars, callbacks, completed, faults>>

-----------------------------------------------------------------------------
(* markOutboxEventFailed: its transaction claims the row only while        *)
(* processedAt is null, and does nothing otherwise.                        *)

MarkFailed(e) ==
  IF e \in processed
  THEN UNCHANGED <<processed, status>>
  ELSE /\ processed' = processed \cup {e}
       /\ status' = [status EXCEPT ![e] = "FAILED"]

-----------------------------------------------------------------------------
(* The dispatcher.  A pass reads its rows once and then walks them in      *)
(* order, one queue round trip per row.                                    *)

PollRead(p) ==
  /\ batch[p] = {}
  /\ Pending # {}
  /\ batch' = [batch EXCEPT ![p] = OldestPending]
  /\ UNCHANGED <<rowVars, jobVars, workerVars, callbacks, completed, faults>>

NextRow(p, e) == /\ e \in batch[p]
                 /\ \A f \in batch[p] : order[e] <= order[f]

AddJob(p, e) ==
  /\ jobState' = [jobState EXCEPT ![e] = "waiting"]
  /\ made' = [made EXCEPT ![e] = 0]
  /\ stalls' = [stalls EXCEPT ![e] = 0]
  /\ batch' = [batch EXCEPT ![p] = @ \ {e}]
  /\ UNCHANGED <<order, status, holder, workerVars, callbacks, completed, faults>>

\* Mutant of Enqueue: a fresh job per poll, without the row's id as job id.
EnqueueAgain(p, e) == NextRow(p, e) /\ AddJob(p, e) /\ UNCHANGED processed

\* Mutant of Enqueue: the row is settled when it is enqueued.
EnqueueAndSettle(p, e) == /\ NextRow(p, e)
                          /\ jobState[e] = "none"
                          /\ AddJob(p, e)
                          /\ processed' = processed \cup {e}

\* No job with the row's id: add one.  getJob and add are two round trips, but
\* add does nothing when the id exists by then, so the add decides.
Enqueue(p, e) == /\ NextRow(p, e)
                 /\ jobState[e] = "none"
                 /\ AddJob(p, e)
                 /\ UNCHANGED processed

\* Mutant of FinalizeExhausted: only the worker's callback finalises a row.
FinalizeNothing(p, e) ==
  /\ NextRow(p, e)
  /\ Exhausted(e)
  /\ batch' = [batch EXCEPT ![p] = @ \ {e}]
  /\ UNCHANGED <<rowVars, jobVars, workerVars, callbacks, completed, faults>>

\* The job used up its attempts and nothing finalised the row yet.
FinalizeExhausted(p, e) ==
  /\ NextRow(p, e)
  /\ Exhausted(e)
  /\ MarkFailed(e)
  /\ batch' = [batch EXCEPT ![p] = @ \ {e}]
  /\ UNCHANGED <<order, jobVars, workerVars, callbacks, completed, faults>>

\* Any other job with the row's id is left alone.
SkipRow(p, e) ==
  /\ NextRow(p, e)
  /\ jobState[e] # "none"
  /\ ~Exhausted(e)
  /\ batch' = [batch EXCEPT ![p] = @ \ {e}]
  /\ UNCHANGED <<rowVars, jobVars, workerVars, callbacks, completed, faults>>

PollRow(p) == \E e \in Events : Enqueue(p, e) \/ FinalizeExhausted(p, e) \/ SkipRow(p, e)

\* Redis or the database refuses the row (logged, the pass goes on with the
\* next one), or the process dies and the rest of the pass with it.
AbandonRows(p, e) ==
  /\ NextRow(p, e)
  /\ faults < FaultBudget
  /\ faults' = faults + 1
  /\ \E rest \in {{}, batch[p] \ {e}} : batch' = [batch EXCEPT ![p] = rest]
  /\ UNCHANGED <<rowVars, jobVars, workerVars, callbacks, completed>>

-----------------------------------------------------------------------------
(* The worker.                                                             *)

Take(w, e) ==
  /\ pc[w] = "idle"
  /\ jobState[e] = "waiting"
  /\ jobState' = [jobState EXCEPT ![e] = "active"]
  /\ holder' = [holder EXCEPT ![e] = w]
  /\ run' = [run EXCEPT ![w] = e]
  /\ pc' = [pc EXCEPT ![w] = "taken"]
  /\ UNCHANGED <<rowVars, made, stalls, batch, callbacks, completed, faults>>

\* processOutboxEvent reads the row, whether processed or not, and marks a
\* scene analysis RUNNING.
Begin(w) ==
  /\ pc[w] = "taken"
  /\ status' = IF run[w] \in SceneEvents
               THEN [status EXCEPT ![run[w]] = "RUNNING"] ELSE status
  /\ pc' = [pc EXCEPT ![w] = "analysing"]
  /\ UNCHANGED <<order, processed, jobVars, batch, run, callbacks, completed, faults>>

\* The handler of the event's type returns.
Handle(w) ==
  /\ pc[w] = "analysing"
  /\ completed' = completed \cup {run[w]}
  /\ pc' = [pc EXCEPT ![w] = "handled"]
  /\ UNCHANGED <<rowVars, jobVars, batch, run, callbacks, faults>>

\* Mutant of MarkProcessed: the row is settled before the handler returns.
MarkProcessedEarly(w) ==
  /\ pc[w] = "analysing"
  /\ processed' = processed \cup {run[w]}
  /\ status' = IF run[w] \in SceneEvents
               THEN [status EXCEPT ![run[w]] = "SUCCEEDED"] ELSE status
  /\ pc' = [pc EXCEPT ![w] = "marked"]
  /\ UNCHANGED <<order, jobVars, batch, run, callbacks, completed, faults>>

MarkProcessed(w) ==
  /\ pc[w] = "handled"
  /\ processed' = processed \cup {run[w]}
  /\ status' = IF run[w] \in SceneEvents
               THEN [status EXCEPT ![run[w]] = "SUCCEEDED"] ELSE status
  /\ pc' = [pc EXCEPT ![w] = "marked"]
  /\ UNCHANGED <<order, jobVars, batch, run, callbacks, completed, faults>>

HoldsLock(w) == holder[run[w]] = w

GoIdle(w) == /\ run' = [run EXCEPT ![w] = NoEvent]
             /\ pc' = [pc EXCEPT ![w] = "idle"]

\* moveToCompleted; removeOnComplete deletes the job.  Without the lock the
\* queue refuses and the job is left to its new holder.
Complete(w) ==
  /\ pc[w] = "marked"
  /\ IF HoldsLock(w)
     THEN /\ jobState' = [jobState EXCEPT ![run[w]] = "none"]
          /\ holder' = [holder EXCEPT ![run[w]] = NoWorker]
     ELSE UNCHANGED <<jobState, holder>>
  /\ GoIdle(w)
  /\ UNCHANGED <<rowVars, made, stalls, batch, callbacks, completed, faults>>

\* The pipeline, or a database write around it, throws: moveToFailed, which
\* delays the job for another attempt or fails it and emits 'failed'.
Throw(w) ==
  /\ pc[w] \in {"taken", "analysing", "handled"}
  /\ IF HoldsLock(w)
     THEN LET e == run[w] IN
          /\ made' = [made EXCEPT ![e] = @ + 1]
          /\ holder' = [holder EXCEPT ![e] = NoWorker]
          /\ IF made[e] + 1 < Attempts
             THEN /\ jobState' = [jobState EXCEPT ![e] = "delayed"]
                  /\ UNCHANGED callbacks
             ELSE /\ jobState' = [jobState EXCEPT ![e] = "failed"]
                  /\ callbacks' = callbacks \cup {e}
     ELSE UNCHANGED <<made, holder, jobState, callbacks>>
  /\ GoIdle(w)
  /\ UNCHANGED <<rowVars, stalls, batch, completed, faults>>

\* The backoff of a delayed job ends.
Promote(e) ==
  /\ jobState[e] = "delayed"
  /\ jobState' = [jobState EXCEPT ![e] = "waiting"]
  /\ UNCHANGED <<rowVars, made, stalls, holder, batch, workerVars, callbacks,
                 completed, faults>>

\* The 'failed' callback of the worker, started without waiting for it.
FailedCallback(e) ==
  /\ e \in callbacks
  /\ callbacks' = callbacks \ {e}
  /\ MarkFailed(e)
  /\ UNCHANGED <<order, jobVars, batch, workerVars, completed, faults>>

\* The callback's transaction fails (it is only logged) or its process dies.
LoseCallback(e) ==
  /\ e \in callbacks
  /\ faults < FaultBudget
  /\ faults' = faults + 1
  /\ callbacks' = callbacks \ {e}
  /\ UNCHANGED <<rowVars, jobVars, batch, workerVars, completed>>

-----------------------------------------------------------------------------
(* Faults of the worker process and what BullMQ's stalled check makes of   *)
(* them: a job whose lock expired goes back to waiting, or fails once it   *)
(* stalled more than MaxStalledCount times.  Failing it that way may count *)
(* as an attempt, depending on the BullMQ release.                         *)

Crash(w) ==
  /\ pc[w] # "idle"
  /\ faults < FaultBudget
  /\ faults' = faults + 1
  /\ GoIdle(w)
  /\ UNCHANGED <<rowVars, jobVars, batch, callbacks, completed>>

Orphaned(e) == /\ jobState[e] = "active"
               /\ \A w \in Workers : holder[e] = w => run[w] # e

LoseLock(e) ==
  /\ jobState[e] = "active"
  /\ holder' = [holder EXCEPT ![e] = NoWorker]
  /\ stalls' = [stalls EXCEPT ![e] = @ + 1]
  /\ IF stalls[e] + 1 > MaxStalledCount
     THEN /\ jobState' = [jobState EXCEPT ![e] = "failed"]
          /\ \E m \in {made[e], made[e] + 1} :
               /\ made' = [made EXCEPT ![e] = m]
               /\ callbacks' = IF m >= Attempts THEN callbacks \cup {e} ELSE callbacks
     ELSE /\ jobState' = [jobState EXCEPT ![e] = "waiting"]
          /\ UNCHANGED <<made, callbacks>>
  /\ UNCHANGED <<rowVars, batch, workerVars, completed>>

\* The holder is gone: the lock expires for certain.
StalledAfterCrash(e) == Orphaned(e) /\ LoseLock(e) /\ UNCHANGED faults

\* The holder is alive but could not renew its lock (blocked event loop,
\* Redis out of reach); it goes on with its run.
StalledWhileRunning(e) ==
  /\ ~Orphaned(e)
  /\ faults < FaultBudget
  /\ faults' = faults + 1
  /\ LoseLock(e)

-----------------------------------------------------------------------------
Next ==
  \/ \E e \in Events : Record(e)
  \/ \E p \in Passes : PollRead(p)
  \/ \E p \in Passes, e \in Events : Enqueue(p, e)
  \/ \E p \in Passes, e \in Events : FinalizeExhausted(p, e)
  \/ \E p \in Passes, e \in Events : SkipRow(p, e)
  \/ \E p \in Passes, e \in Events : AbandonRows(p, e)
  \/ \E w \in Workers, e \in Events : Take(w, e)
  \/ \E w \in Workers : Begin(w)
  \/ \E w \in Workers : Handle(w)
  \/ \E w \in Workers : MarkProcessed(w)
  \/ \E w \in Workers : Complete(w)
  \/ \E w \in Workers : Throw(w)
  \/ \E e \in Events : Promote(e)
  \/ \E e \in Events : FailedCallback(e)
  \/ \E e \in Events : LoseCallback(e)
  \/ \E w \in Workers : Crash(w)
  \/ \E e \in Events : StalledAfterCrash(e)
  \/ \E e \in Events : StalledWhileRunning(e)

(***************************************************************************)
(* Timers fire (polls, backoff, stalled check), an idle worker takes a     *)
(* waiting job, and a run that does not throw goes on.  Nothing is assumed *)
(* about the author (Record), about errors (Throw) or about faults.        *)
(***************************************************************************)
Fairness ==
  /\ \A p \in Passes : WF_vars(PollRead(p)) /\ WF_vars(PollRow(p))
  /\ \A w \in Workers : /\ WF_vars(\E e \in Events : Take(w, e))
                        /\ WF_vars(Begin(w))
                        /\ WF_vars(Handle(w))
                        /\ WF_vars(MarkProcessed(w))
                        /\ WF_vars(Complete(w))
  /\ \A e \in Events : /\ WF_vars(Promote(e))
                       /\ WF_vars(FailedCallback(e))
                       /\ WF_vars(StalledAfterCrash(e))

Spec == Init /\ [][Next]_vars /\ Fairness

-----------------------------------------------------------------------------
(* Properties.                                                             *)

\* processedAt is set (markProcessed, handleFailedOutboxTransaction) only when
\* a run handled the event to its end, or its job used up every attempt: no
\* crash, redelivery or lost callback settles an event nobody dealt with.
SettledForCause == \A e \in processed : e \in completed \/ Exhausted(e)

\* The author is told FAILED only about an event whose job really used up its
\* attempts, never after a stall that left some (system.service.ts:102, 184).
FailedMeansExhausted == \A e \in Events : status[e] = "FAILED" => Exhausted(e)

\* Whatever is settled has been dealt with and whatever is reported FAILED has
\* really failed, in every interleaving of polls, runs, callbacks and faults.
OutcomeIsEarned == TypeOK /\ SettledForCause /\ FailedMeansExhausted

\* The jobId = row id and the lock keep runs apart: as long as nothing crashed
\* and no lock was lost, no two workers run the same event, however the poll
\* passes overlap.
NoOverlapWithoutFaults ==
  faults = 0 => \A v, w \in Workers : v # w /\ run[v] # NoEvent => run[v] # run[w]

\* A failure never replaces the outcome of an event that is already settled:
\* the claim on processedAt null decides between a late failure and a success.
FailureNeverOverwrites ==
  [][\A e \in processed : status'[e] = "FAILED" => status[e] = "FAILED"]_vars

\* Stranded rows stay among the oldest pending ones: each takes a place of every
\* batch, and enough of them fill it.
BatchIsStuck == Cardinality({e \in Events : Stranded(e)}) >= BatchSize

\* Every recorded event is settled in the end, crashes, lost callbacks and lost
\* locks included, unless its job was failed for stalling with attempts left,
\* or as many jobs as a batch takes were.
EventuallySettled ==
  \A e \in Events : (order[e] > 0) ~> (e \in processed \/ Stranded(e) \/ BatchIsStuck)

(***************************************************************************)
(* The outbox promise this dispatcher keeps.                               *)
(***************************************************************************)
Promise == INSTANCE OutboxPromise WITH
             recorded  <- Recorded,
             handled   <- completed,
             abandoned <- {e \in Events : Exhausted(e)},
             settled   <- processed

\* Every behaviour of the dispatcher is one the outbox promise allows.
KeepsPromise == Promise!Spec
=============================================================================
