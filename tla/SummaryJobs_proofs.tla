------------------------- MODULE SummaryJobs_proofs -------------------------
(***************************************************************************)
(* What SummaryJobs satisfies for any number of scenes, requests, workers, *)
(* attempts, faults and jobs.  A worker changes one job and what it does   *)
(* next, a request what it asks for, an author what scenes say: one lemma  *)
(* for each of the three says what such a step must respect (RunStep,      *)
(* RequestStep, AuthorStep), and the actions are shown to respect it.      *)
(*                                                                         *)
(* The last part is about the counts and first mentions of the chat        *)
(* (MCCounts), for any manuscript and any size of a page: sums over sets,  *)
(* places in an order, what a page holds, and from these what the pages    *)
(* read together hold.                                                     *)
(***************************************************************************)
EXTENDS SummaryJobs, MCCounts, FiniteSetTheorems, WellFoundedInduction, TLAPS

SummaryRow == [source : {"none", "ai_generated", "author_manual"}, dirty : BOOLEAN]
JobRow == [scope : Scopes, hash : Inputs, force : BOOLEAN, status : RowStatus,
           queue : QueueState, tries : 0..Attempts, stalled : BOOLEAN,
           holder : Workers \cup {NoWorker}]
RequestPhases == {"idle", "list", "find", "create", "enqueue"}
RequestRow == [pc : RequestPhases, scope : Scopes, input : Inputs, job : Nat]
WorkerRow == [pc : Phases, job : Nat, input : Inputs, parts : SUBSET Scenes,
              raced : BOOLEAN, edited : BOOLEAN]

Types ==
  /\ text \in [Scenes -> Texts \cup {Empty}]
  /\ live \subseteq Scenes
  /\ summary \in [Scopes -> SummaryRow]
  /\ jobs \in Seq(JobRow)
  /\ requests \in [Requesters -> RequestRow]
  /\ stale \subseteq Scopes
  /\ worker \in [Workers -> WorkerRow]

BoundsInv ==
  /\ Len(jobs) <= MaxJobs
  /\ saves \in Nat /\ saves <= MaxSaves
  /\ invalidations \in Nat /\ faults \in Nat /\ invalidations + faults <= Disturbances

\* Requests and workers hold jobs that exist; what a worker holds has been in the queue.
HeldInv ==
  /\ \A r \in Requesters : /\ requests[r].job \in {0} \cup JobIds
                           /\ Waiting(r, "enqueue") => requests[r].job \in JobIds
  /\ \A w \in Workers : /\ worker[w].job \in {0} \cup JobIds
                        /\ ~At(w, "idle") => worker[w].job \in JobIds /\ Doing(w).queue # "none"
                        /\ worker[w].parts \subseteq DOMAIN worker[w].input
                        /\ At(w, "read") => worker[w].parts = {}

\* A lock is of an active job, and a job that may run again has attempts left.
LockInv ==
  \A i \in JobIds :
    /\ jobs[i].holder # NoWorker => jobs[i].queue = "active"
    /\ jobs[i].queue \notin {"completed", "failed"} => jobs[i].tries < Attempts

\* What a generation that has not stored yet may overwrite, and what it read.
ManualInv ==
  \A w \in Workers : worker[w].pc \in {"generate", "check", "store"} =>
    Doing(w).force \/ worker[w].edited \/ summary[Scope(w)].source # "author_manual"

SourceInv ==
  \A w \in Workers : At(w, "store") /\ ~worker[w].raced => worker[w].input = Input(Scope(w))

\* Without a fault a worker has its job for itself, and the row tells how far it is.
RowOf(pc) == IF pc = "throw" THEN "FAILED" ELSE IF pc = "return" THEN "COMPLETED" ELSE "PROCESSING"

OwnInv ==
  faults = 0 => \A w \in Workers : ~At(w, "idle") =>
    HoldsLock(w) /\ Doing(w).status = RowOf(worker[w].pc)

RowInv ==
  faults = 0 => \A i \in JobIds :
    /\ jobs[i].queue = "none" => /\ jobs[i].status = "QUEUED"
                                 /\ \E r \in Requesters : Waiting(r, "enqueue") /\ requests[r].job = i
    /\ jobs[i].queue = "waiting" => jobs[i].status \in {"QUEUED", "FAILED"}
    /\ jobs[i].queue = "delayed" => jobs[i].status = "FAILED"
    /\ jobs[i].queue \in {"waiting", "delayed"} /\ jobs[i].status = "FAILED" => jobs[i].tries > 0
    /\ jobs[i].queue = "completed" => jobs[i].status = "COMPLETED"
    /\ jobs[i].queue = "failed" => jobs[i].status = "FAILED"

\* Requests that do not overlap are for different scopes, and what one of them is
\* about to create is not in flight.
Asking(r) == requests[r].pc \in {"find", "create", "enqueue"}
Untried == faults = 0 /\ \A i \in JobIds : jobs[i].tries = 0

AskInv ==
  ~overlapping =>
    /\ \A q, r \in Requesters : Asking(q) /\ Asking(r) /\ q # r =>
         requests[q].scope # requests[r].scope
    /\ Untried => \A r \in Requesters, i \in JobIds : Waiting(r, "create") => ~InFlightJob(i, r)

IInv == /\ Types /\ BoundsInv /\ HeldInv /\ LockInv
        /\ ManualInv /\ SourceInv /\ OwnInv /\ RowInv /\ AskInv /\ OneJobInFlight

-----------------------------------------------------------------------------
(* What the operators of the model return.                                 *)

\* What a scope says is one of the inputs there can be.
LEMMA InputType == ASSUME Types, NEW c \in Scopes PROVE Input(c) \in Inputs
<1> DEFINE S == Members(c) \cap live
<1>1. S \in SUBSET Scenes
  BY DEF Types
<1>2. Input(c) \in [S -> Texts \cup {Empty}]
  BY <1>1 DEF Types, Input
<1> QED
  BY <1>1, <1>2 DEF Inputs

\* So is saying nothing, which what is idle holds.
LEMMA NoInputType == NoInput \in Inputs
<1>1. NoInput \in [{} -> Texts \cup {Empty}] /\ {} \in SUBSET Scenes
  BY DEF NoInput
<1> QED
  BY <1>1 DEF Inputs

LEMMA IdleType == Idle \in WorkerRow /\ DOMAIN Idle.input = {}
  BY NoInputType DEF Idle, WorkerRow, Phases, NoInput

LEMMA QuietType == Quiet \in RequestRow
  BY NoInputType DEF Quiet, RequestRow, RequestPhases, Scopes

\* Replacing one row of a job keeps the others.
LEMMA ReplaceRow ==
  ASSUME Types, NEW i \in JobIds, NEW row \in JobRow, jobs' = [jobs EXCEPT ![i] = row]
  PROVE  /\ jobs' \in Seq(JobRow) /\ Len(jobs') = Len(jobs) /\ JobIds' = JobIds
         /\ jobs'[i] = row
         /\ \A k \in JobIds \ {i} : jobs'[k] = jobs[k]
  BY DEF Types, JobIds

\* Nothing is replaced by itself.
LEMMA SameRow == ASSUME Types, NEW i \in JobIds PROVE jobs = [jobs EXCEPT ![i] = jobs[i]]
  BY DEF Types, JobIds

\* A job and a worker that exist have rows.
LEMMA Rows ==
  ASSUME Types
  PROVE  /\ \A i \in JobIds : jobs[i] \in JobRow
         /\ \A w \in Workers : worker[w] \in WorkerRow
         /\ \A r \in Requesters : requests[r] \in RequestRow
  BY DEF Types, JobIds

-----------------------------------------------------------------------------
(* One worker and one job change.                                          *)

\* A step that gives job i a new row and worker w something to do next; all that it
\* may do to IInv is said of these two.
RunStep(w, i, row, mine) ==
  /\ jobs' = [jobs EXCEPT ![i] = row] /\ worker' = [worker EXCEPT ![w] = mine]
  /\ UNCHANGED <<sourceVars, requestVars, invalidations, overlapping>>
  /\ UNCHANGED faults \/ Fault
  /\ summary' \in [Scopes -> SummaryRow]
  /\ \A c \in Scopes : summary'[c].source = "author_manual" => summary[c].source = "author_manual"
  /\ row.scope = jobs[i].scope /\ row.hash = jobs[i].hash /\ row.force = jobs[i].force
  /\ row.tries >= jobs[i].tries /\ row.queue # "none"
  /\ row.holder # NoWorker => row.queue = "active"
  /\ row.queue \notin {"completed", "failed"} => row.tries < Attempts
  /\ mine.job \in {0, i} /\ (mine.pc # "idle" => mine.job = i)
  /\ mine.parts \subseteq DOMAIN mine.input /\ (mine.pc = "read" => mine.parts = {})
  /\ mine.pc \in {"generate", "check", "store"} =>
       row.force \/ mine.edited \/ summary[row.scope].source # "author_manual"
  /\ mine.pc = "store" /\ ~mine.raced => mine.input = Input(row.scope)
  /\ faults' = 0 =>
       /\ jobs[i].holder \in {w, NoWorker}
       /\ mine.pc # "idle" => row.holder = w /\ row.status = RowOf(mine.pc)
       /\ row.queue = "waiting" => row.status \in {"QUEUED", "FAILED"}
       /\ row.queue = "delayed" => row.status = "FAILED"
       /\ row.queue \in {"waiting", "delayed"} /\ row.status = "FAILED" => row.tries > 0
       /\ row.queue = "completed" => row.status = "COMPLETED"
       /\ row.queue = "failed" => row.status = "FAILED"
       /\ row.tries = 0 /\ row.status \in {"QUEUED", "PROCESSING"} => Active(i)

\* The other jobs and workers are not concerned.
LEMMA RunKeeps ==
  ASSUME IInv, NEW w \in Workers, NEW i \in JobIds, NEW row \in JobRow, NEW mine \in WorkerRow,
         RunStep(w, i, row, mine)
  PROVE  IInv'
<1> USE DEF RunStep
<1> USE DEF IInv
<1>0. faults' \in Nat /\ faults <= faults' /\ invalidations' + faults' <= Disturbances
  BY BoundsAssumption DEF BoundsInv, Fault, Disturbed
<1>1. /\ jobs' \in Seq(JobRow) /\ Len(jobs') = Len(jobs) /\ JobIds' = JobIds
      /\ jobs'[i] = row
      /\ \A k \in JobIds \ {i} : jobs'[k] = jobs[k]
  BY ReplaceRow
<1>2. /\ worker' \in [Workers -> WorkerRow] /\ worker'[w] = mine
      /\ \A v \in Workers \ {w} : worker'[v] = worker[v]
  BY DEF Types
<1>3. \A v \in Workers \ {w} : ~At(v, "idle") =>
        /\ worker[v].job \in JobIds
        /\ Scope(v)' = Scope(v) /\ Doing(v)'.force = Doing(v).force /\ Doing(v)'.queue # "none"
  BY <1>1, <1>2 DEF HeldInv, Doing, Scope
<1>4. mine.pc # "idle" => Doing(w)' = row /\ Scope(w)' = row.scope
  BY <1>1, <1>2 DEF Doing, Scope
<1>5. Types'
  BY <1>1, <1>2 DEF Types, sourceVars, requestVars
<1>6. BoundsInv'
  BY <1>0, <1>1 DEF BoundsInv, sourceVars
<1>7. HeldInv'
  BY <1>1, <1>2, <1>3, <1>4 DEF HeldInv, At, Waiting, requestVars
<1>8. LockInv'
  BY <1>1 DEF LockInv
<1>9. ManualInv'
  BY <1>2, <1>3, <1>4, Rows DEF ManualInv, At, Scope, Doing, JobRow
<1>10. SourceInv'
  <2> SUFFICES ASSUME NEW v \in Workers, At(v, "store")', ~worker'[v].raced
               PROVE  worker'[v].input = Input(Scope(v))'
    BY DEF SourceInv
  <2>1. Input(Scope(v))' = Input(Scope(v)')
    BY DEF Input, sourceVars
  <2>2. worker'[v].input = Input(Scope(v)')
    BY <1>2, <1>3, <1>4 DEF SourceInv, At
  <2> QED
    BY <2>1, <2>2
<1>11. OwnInv'
  <2>1. ASSUME faults' = 0, NEW v \in Workers \ {w}, ~At(v, "idle") PROVE worker[v].job # i
    BY <1>0, <2>1, WorkersAssumption DEF OwnInv, HoldsLock, Doing, BoundsInv
  <2> QED
    BY <1>0, <1>1, <1>2, <1>3, <1>4, <2>1 DEF OwnInv, HoldsLock, Doing, At, BoundsInv
<1>12. RowInv'
  BY <1>0, <1>1 DEF RowInv, Waiting, requestVars, BoundsInv
<1>13. Untried' => Untried /\ \A k \in JobIds : Active(k)' => Active(k)
  <2>1. \A k \in JobIds : jobs[k].tries \in Nat /\ row.tries \in Nat
    BY BoundsAssumption, Rows DEF JobRow
  <2> QED
    BY <1>0, <1>1, <2>1 DEF Untried, Active, BoundsInv
<1>14. \A k \in JobIds : jobs'[k].scope = jobs[k].scope /\ jobs'[k].hash = jobs[k].hash
  BY <1>1
<1>15. AskInv'
  BY <1>1, <1>13, <1>14 DEF AskInv, Asking, Waiting, InFlightJob, SameInput, requestVars
<1>16. OneJobInFlight'
  BY <1>1, <1>13, <1>14 DEF OneJobInFlight, Untried
<1> QED
  BY <1>5, <1>6, <1>7, <1>8, <1>9, <1>10, <1>11, <1>12, <1>15, <1>16

\* What a busy worker knows of its job.
LEMMA HeldJob ==
  ASSUME IInv, NEW w \in Workers, ~At(w, "idle")
  PROVE  /\ worker[w].job \in JobIds /\ Doing(w) \in JobRow /\ worker[w] \in WorkerRow
         /\ Doing(w).queue # "none"
         /\ Doing(w).holder # NoWorker => Doing(w).queue = "active"
         /\ Doing(w).queue \notin {"completed", "failed"} => Doing(w).tries < Attempts
         /\ faults = 0 => /\ Doing(w).holder = w /\ Doing(w).queue = "active"
                          /\ Doing(w).status = RowOf(worker[w].pc)
  BY Rows, WorkersAssumption DEF IInv, HeldInv, LockInv, OwnInv, HoldsLock, Doing

\* A step of a busy worker that writes no row of a job.
WorkStep(w, mine) ==
  /\ ~At(w, "idle")
  /\ UNCHANGED jobs /\ worker' = [worker EXCEPT ![w] = mine]
  /\ UNCHANGED <<sourceVars, requestVars, invalidations, overlapping>>
  /\ UNCHANGED faults \/ Fault
  /\ summary' \in [Scopes -> SummaryRow]
  /\ \A c \in Scopes : summary'[c].source = "author_manual" => summary[c].source = "author_manual"
  /\ mine.job = worker[w].job /\ mine.pc # "idle"
  /\ mine.parts \subseteq DOMAIN mine.input /\ (mine.pc = "read" => mine.parts = {})
  /\ mine.pc \in {"generate", "check", "store"} =>
       Doing(w).force \/ mine.edited \/ summary[Scope(w)].source # "author_manual"
  /\ mine.pc = "store" /\ ~mine.raced => mine.input = Input(Scope(w))
  /\ faults' = 0 => RowOf(mine.pc) = RowOf(worker[w].pc)

LEMMA WorkKeeps ==
  ASSUME IInv, NEW w \in Workers, NEW mine \in WorkerRow, WorkStep(w, mine)
  PROVE  IInv'
<1> DEFINE i == worker[w].job
           row == jobs[i]
<1> USE DEF WorkStep
<1>1. /\ i \in JobIds /\ row \in JobRow /\ row = Doing(w) /\ row.scope = Scope(w)
      /\ row.queue # "none"
      /\ row.holder # NoWorker => row.queue = "active"
      /\ row.queue \notin {"completed", "failed"} => row.tries < Attempts
      /\ faults = 0 => row.holder = w /\ row.queue = "active" /\ row.status = RowOf(worker[w].pc)
  BY HeldJob DEF Doing, Scope
<1>2. faults' = 0 => faults = 0
  BY DEF Fault, IInv, BoundsInv
<1>3. jobs' = [jobs EXCEPT ![i] = row]
  BY <1>1 DEF IInv, Types, JobIds
<1>4. row.tries >= jobs[i].tries
  BY <1>1, BoundsAssumption DEF JobRow
<1>5. row.status \in {"QUEUED", "PROCESSING"} => Active(i)
  BY DEF Active
<1>6. RunStep(w, i, row, mine)
  BY <1>1, <1>2, <1>3, <1>4, <1>5 DEF RunStep
<1> QED
  BY <1>1, <1>6, RunKeeps

-----------------------------------------------------------------------------
(* The worker.                                                             *)

\* A job that is waiting is nobody's; its next run has the row for itself.
LEMMA TakeKeeps == ASSUME IInv, NEW w \in Workers, NEW i \in JobIds, Take(w, i) PROVE IInv'
<1> DEFINE row == [jobs[i] EXCEPT !.queue = "active", !.holder = w, !.status = "PROCESSING"]
           mine == [Idle EXCEPT !.pc = "read", !.job = i]
<1>1. /\ jobs[i] \in JobRow /\ jobs[i].queue = "waiting" /\ jobs[i].tries < Attempts
      /\ jobs[i].holder = NoWorker
      /\ faults = 0 => \/ jobs[i].status = "QUEUED"
                       \/ jobs[i].tries > 0
  BY Rows DEF IInv, Take, LockInv, RowInv
<1>2. mine \in WorkerRow /\ mine.pc = "read" /\ mine.job = i /\ mine.parts = {}
  <2>1. i \in Nat
    BY DEF IInv, Types, JobIds
  <2>2. Idle \in WorkerRow /\ Idle.parts = {}
    BY IdleType DEF Idle
  <2> QED
    BY <2>1, <2>2 DEF WorkerRow, Phases
<1>3. row \in JobRow
  BY <1>1 DEF JobRow, QueueState, RowStatus
<1>4. /\ jobs' = [jobs EXCEPT ![i] = row] /\ worker' = [worker EXCEPT ![w] = mine]
      /\ UNCHANGED <<sourceVars, requestVars, summary, countVars>>
  BY DEF Take
<1>5. /\ row.scope = jobs[i].scope /\ row.hash = jobs[i].hash /\ row.force = jobs[i].force
      /\ row.tries = jobs[i].tries /\ row.tries \in Nat
      /\ row.queue = "active" /\ row.holder = w /\ row.status = "PROCESSING"
  BY <1>1, BoundsAssumption DEF JobRow
<1>6. RunStep(w, i, row, mine)
  <2> HIDE DEF row, mine
  <2> QED
    BY <1>1, <1>2, <1>4, <1>5 DEF RunStep, IInv, Types, RowOf, Active, countVars
<1> QED
  BY <1>2, <1>3, <1>6, RunKeeps

\* Its row is not written: what fails is outside the try block.
LEMMA TakeFailsKeeps == ASSUME IInv, NEW w \in Workers, NEW i \in JobIds, TakeFails(w, i) PROVE IInv'
<1> DEFINE row == [jobs[i] EXCEPT !.queue = "active", !.holder = w]
           mine == [Idle EXCEPT !.pc = "throw", !.job = i]
<1>1. jobs[i] \in JobRow /\ jobs[i].queue = "waiting" /\ jobs[i].tries < Attempts /\ faults' # 0
  BY Rows DEF IInv, TakeFails, LockInv, Fault, BoundsInv
<1>2. mine \in WorkerRow /\ mine.pc = "throw" /\ mine.job = i /\ mine.parts = {}
  <2>1. i \in Nat
    BY DEF IInv, Types, JobIds
  <2>2. Idle \in WorkerRow /\ Idle.parts = {}
    BY IdleType DEF Idle
  <2> QED
    BY <2>1, <2>2 DEF WorkerRow, Phases
<1>3. row \in JobRow
  BY <1>1 DEF JobRow, QueueState
<1>4. /\ jobs' = [jobs EXCEPT ![i] = row] /\ worker' = [worker EXCEPT ![w] = mine] /\ Fault
      /\ UNCHANGED <<sourceVars, requestVars, summary, invalidations, overlapping>>
  BY DEF TakeFails
<1>5. /\ row.scope = jobs[i].scope /\ row.hash = jobs[i].hash /\ row.force = jobs[i].force
      /\ row.tries = jobs[i].tries /\ row.tries \in Nat /\ row.queue = "active"
  BY <1>1, BoundsAssumption DEF JobRow
<1>6. RunStep(w, i, row, mine)
  <2> HIDE DEF row, mine
  <2> QED
    BY <1>1, <1>2, <1>4, <1>5 DEF RunStep, IInv, Types
<1> QED
  BY <1>2, <1>3, <1>6, RunKeeps

\* What keeps a text of the author is looked at here, and the input is read.
LEMMA ReadSourceKeeps == ASSUME IInv, NEW w \in Workers, ReadSource(w) PROVE IInv'
<1> DEFINE mine == [worker[w] EXCEPT
             !.pc = IF ~Present(Scope(w)) THEN "record"
                    ELSE IF KeepsManual(w) THEN "complete" ELSE "generate",
             !.input = Input(Scope(w))]
<1> USE DEF IInv, ReadSource
<1>1. ~At(w, "idle") /\ worker[w].pc = "read"
  BY DEF At
<1>2. worker[w] \in WorkerRow /\ Scope(w) \in Scopes
  BY <1>1, HeldJob DEF Scope, JobRow
<1>3. mine \in WorkerRow
  BY <1>2, InputType DEF WorkerRow, Phases
<1>4. worker[w].parts = {} /\ mine.parts = worker[w].parts
  BY <1>2 DEF HeldInv, WorkerRow
<1>5. WorkStep(w, mine)
  BY <1>1, <1>2, <1>3, <1>4 DEF WorkStep, Types, KeepsManual, RowOf, countVars, WorkerRow
<1> QED
  BY <1>3, <1>5, WorkKeeps

\* One part more.
LEMMA GeneratePartKeeps ==
  ASSUME IInv, NEW w \in Workers, NEW s \in Scenes, GeneratePart(w, s)
  PROVE  IInv'
<1> DEFINE parts == worker[w].parts \cup {s}
           mine == [worker[w] EXCEPT !.parts = parts,
             !.pc = IF parts = DOMAIN worker[w].input THEN "check" ELSE @]
<1> USE DEF IInv, GeneratePart
<1>1. ~At(w, "idle") /\ worker[w].pc = "generate" /\ worker[w] \in WorkerRow
  BY Rows DEF At
<1>2. mine \in WorkerRow
  BY <1>1 DEF WorkerRow, Phases
<1>3. WorkStep(w, mine)
  BY <1>1, <1>2 DEF WorkStep, Types, HeldInv, ManualInv, RowOf, countVars, WorkerRow
<1> QED
  BY <1>2, <1>3, WorkKeeps

\* What was read is forgotten.
LEMMA FailKeeps ==
  ASSUME IInv, NEW w \in Workers, worker[w].pc \in {"read", "generate", "check", "store", "complete"}, Fail(w),
         UNCHANGED <<sourceVars, summary, jobs, requestVars, invalidations, overlapping>>,
         UNCHANGED faults \/ Fault
  PROVE  IInv'
<1> DEFINE mine == [Idle EXCEPT !.pc = "record", !.job = worker[w].job]
<1>1. worker[w] \in WorkerRow
  BY Rows DEF IInv
<1>2. mine \in WorkerRow /\ mine.parts \subseteq DOMAIN mine.input
  BY <1>1, IdleType DEF WorkerRow, Phases, Idle
<1>3. WorkStep(w, mine)
  BY <1>1, <1>2 DEF WorkStep, IInv, Types, Fail, At, RowOf, Idle
<1> QED
  BY <1>2, <1>3, WorkKeeps

\* A failure inside the try block, without a fault.
LEMMA GenerationFailsKeeps == ASSUME IInv, NEW w \in Workers, GenerationFails(w) PROVE IInv'
  BY FailKeeps DEF GenerationFails, At, countVars

\* It goes on only while its input is what the scope says.
LEMMA CheckSourceKeeps == ASSUME IInv, NEW w \in Workers, CheckSource(w) PROVE IInv'
<1>1. worker[w].pc = "check" /\ ~At(w, "idle") /\ worker[w] \in WorkerRow
  BY Rows DEF CheckSource, At, IInv
<1>2. CASE Fail(w)
  BY <1>1, <1>2, FailKeeps DEF CheckSource, countVars
<1>3. CASE Input(Scope(w)) = worker[w].input /\ GoTo(w, "store")
  <2> DEFINE mine == [worker[w] EXCEPT !.pc = "store"]
  <2>1. mine \in WorkerRow
    BY <1>1 DEF WorkerRow, Phases
  <2>2. WorkStep(w, mine)
    BY <1>1, <1>3 DEF WorkStep, CheckSource, GoTo, IInv, Types, HeldInv, ManualInv, RowOf, countVars, WorkerRow
  <2> QED
    BY <2>1, <2>2, WorkKeeps
<1> QED
  BY <1>2, <1>3 DEF CheckSource

\* No text becomes the author's.
LEMMA UpsertGeneratedKeeps == ASSUME IInv, NEW w \in Workers, UpsertGenerated(w) PROVE IInv'
<1> DEFINE mine == [Idle EXCEPT !.pc = "complete", !.job = worker[w].job]
<1>1. worker[w].pc = "store" /\ ~At(w, "idle") /\ worker[w] \in WorkerRow
  BY Rows DEF UpsertGenerated, At, IInv
<1>2. mine \in WorkerRow /\ mine.parts \subseteq DOMAIN mine.input
  BY <1>1, IdleType DEF WorkerRow, Phases, Idle
<1>3. summary' \in [Scopes -> SummaryRow]
  BY DEF UpsertGenerated, IInv, Types, SummaryRow
<1>4. WorkStep(w, mine)
  BY <1>1, <1>2, <1>3 DEF WorkStep, UpsertGenerated, IInv, Types, RowOf, Idle, countVars
<1> QED
  BY <1>2, <1>4, WorkKeeps

\* The row is written before the queue is told.
LEMMA MarkCompletedKeeps == ASSUME IInv, NEW w \in Workers, MarkCompleted(w) PROVE IInv'
<1> DEFINE i == worker[w].job
           row == [jobs[i] EXCEPT !.status = "COMPLETED"]
           mine == [worker[w] EXCEPT !.pc = "return"]
<1> USE DEF IInv, MarkCompleted, GoTo, Row
<1>1. ~At(w, "idle") /\ worker[w].pc = "complete"
  BY DEF At
<1>2. /\ i \in JobIds /\ jobs[i] \in JobRow /\ worker[w] \in WorkerRow
      /\ jobs[i].queue # "none"
      /\ jobs[i].holder # NoWorker => jobs[i].queue = "active"
      /\ jobs[i].queue \notin {"completed", "failed"} => jobs[i].tries < Attempts
      /\ faults = 0 => jobs[i].holder = w /\ jobs[i].queue = "active"
  BY <1>1, HeldJob DEF Doing
<1>3. row \in JobRow /\ mine \in WorkerRow
  BY <1>2 DEF JobRow, RowStatus, WorkerRow, Phases
<1>4. /\ jobs' = [jobs EXCEPT ![i] = row] /\ worker' = [worker EXCEPT ![w] = mine]
      /\ UNCHANGED <<sourceVars, requestVars, summary, countVars>>
  BY <1>2 DEF Types
<1>5. mine.job = i /\ mine.parts \subseteq DOMAIN mine.input /\ mine.pc = "return"
  BY <1>2 DEF HeldInv, WorkerRow
<1>6. RunStep(w, i, row, mine)
  BY <1>2, <1>3, <1>4, <1>5, BoundsAssumption DEF RunStep, Types, RowOf, JobRow, countVars
<1> QED
  BY <1>2, <1>3, <1>6, RunKeeps

\* So is a failure.
LEMMA MarkFailedKeeps == ASSUME IInv, NEW w \in Workers, MarkFailed(w) PROVE IInv'
<1> DEFINE i == worker[w].job
           row == [jobs[i] EXCEPT !.status = "FAILED"]
           mine == [worker[w] EXCEPT !.pc = "throw"]
<1> USE DEF IInv, MarkFailed, GoTo, Row
<1>1. ~At(w, "idle") /\ worker[w].pc = "record"
  BY DEF At
<1>2. /\ i \in JobIds /\ jobs[i] \in JobRow /\ worker[w] \in WorkerRow
      /\ jobs[i].queue # "none"
      /\ jobs[i].holder # NoWorker => jobs[i].queue = "active"
      /\ jobs[i].queue \notin {"completed", "failed"} => jobs[i].tries < Attempts
      /\ faults = 0 => jobs[i].holder = w /\ jobs[i].queue = "active"
  BY <1>1, HeldJob DEF Doing
<1>3. row \in JobRow /\ mine \in WorkerRow
  BY <1>2 DEF JobRow, RowStatus, WorkerRow, Phases
<1>4. /\ jobs' = [jobs EXCEPT ![i] = row] /\ worker' = [worker EXCEPT ![w] = mine]
      /\ UNCHANGED <<sourceVars, requestVars, summary, countVars>>
  BY <1>2 DEF Types
<1>5. mine.job = i /\ mine.parts \subseteq DOMAIN mine.input /\ mine.pc = "throw"
  BY <1>2 DEF HeldInv, WorkerRow
<1>6. RunStep(w, i, row, mine)
  BY <1>2, <1>3, <1>4, <1>5, BoundsAssumption DEF RunStep, Types, RowOf, JobRow, countVars
<1> QED
  BY <1>2, <1>3, <1>6, RunKeeps

\* A fault, inside the try block or outside it.
LEMMA DatabaseDownKeeps == ASSUME IInv, NEW w \in Workers, DatabaseDown(w) PROVE IInv'
<1>1. /\ ~At(w, "idle") /\ worker[w] \in WorkerRow /\ faults' # 0
      /\ UNCHANGED <<sourceVars, summary, jobs, requestVars, invalidations, overlapping>>
  BY Rows DEF DatabaseDown, At, IInv, Fault, BoundsInv
<1>2. CASE At(w, "record")
  <2> DEFINE mine == [worker[w] EXCEPT !.pc = "throw"]
  <2>1. mine \in WorkerRow
    BY <1>1 DEF WorkerRow, Phases
  <2>2. WorkStep(w, mine)
    BY <1>1, <1>2 DEF WorkStep, DatabaseDown, GoTo, IInv, Types, HeldInv, WorkerRow
  <2> QED
    BY <2>1, <2>2, WorkKeeps
<1>3. CASE ~At(w, "record")
  BY <1>1, <1>3, FailKeeps DEF DatabaseDown, At
<1> QED
  BY <1>2, <1>3

\* The queue is told what the row says; a worker that lost its lock tells it nothing.
LEMMA ReturnKeeps == ASSUME IInv, NEW w \in Workers, Return(w) PROVE IInv'
<1> DEFINE i == worker[w].job
           row == IF HoldsLock(w) THEN [jobs[i] EXCEPT !.queue = "completed", !.holder = NoWorker]
                  ELSE jobs[i]
<1>1. ~At(w, "idle") /\ worker[w].pc = "return"
  BY DEF At, Return
<1>2. /\ i \in JobIds /\ jobs[i] \in JobRow
      /\ jobs[i].queue # "none"
      /\ jobs[i].holder # NoWorker => jobs[i].queue = "active"
      /\ jobs[i].queue \notin {"completed", "failed"} => jobs[i].tries < Attempts
      /\ HoldsLock(w) <=> jobs[i].holder = w
      /\ faults = 0 => jobs[i].holder = w /\ jobs[i].status = "COMPLETED"
  BY <1>1, HeldJob DEF Doing, RowOf, HoldsLock
<1>3. row \in JobRow
  BY <1>2 DEF JobRow, QueueState
<1>4. /\ worker' = [worker EXCEPT ![w] = Idle]
      /\ UNCHANGED <<sourceVars, requestVars, summary, countVars>>
  BY DEF Return, Release
<1>5. jobs' = [jobs EXCEPT ![i] = row]
  <2>1. CASE HoldsLock(w)
    BY <1>2, <2>1 DEF Return, IInv, Types
  <2>2. CASE ~HoldsLock(w)
    BY <1>2, <2>2, SameRow DEF Return, IInv
  <2> QED
    BY <2>1, <2>2
<1>6. RunStep(w, i, row, Idle)
  BY <1>2, <1>3, <1>4, <1>5, BoundsAssumption, IdleType DEF RunStep, IInv, Types, JobRow, Idle, countVars
<1> QED
  BY <1>2, <1>3, <1>6, IdleType, RunKeeps

\* A try more; a job that has none left is failed.
LEMMA ThrowKeeps == ASSUME IInv, NEW w \in Workers, Throw(w) PROVE IInv'
<1> DEFINE i == worker[w].job
           last == jobs[i].tries + 1 >= Attempts
           tried == [jobs[i] EXCEPT !.queue = IF last THEN "failed" ELSE "delayed",
                                    !.tries = @ + 1, !.holder = NoWorker]
           row == IF HoldsLock(w) THEN tried ELSE jobs[i]
<1>1. ~At(w, "idle") /\ worker[w].pc = "throw"
  BY DEF At, Throw
<1>2. /\ i \in JobIds /\ jobs[i] \in JobRow
      /\ jobs[i].queue # "none"
      /\ jobs[i].holder # NoWorker => jobs[i].queue = "active"
      /\ jobs[i].queue \notin {"completed", "failed"} => jobs[i].tries < Attempts
      /\ HoldsLock(w) <=> jobs[i].holder = w
      /\ faults = 0 => jobs[i].holder = w /\ jobs[i].status = "FAILED"
      /\ jobs[i].tries \in Nat
  BY <1>1, HeldJob, BoundsAssumption DEF Doing, RowOf, HoldsLock, JobRow
<1>3. /\ worker' = [worker EXCEPT ![w] = Idle]
      /\ UNCHANGED <<sourceVars, requestVars, summary, countVars>>
  BY DEF Throw, Release
<1>4. CASE HoldsLock(w)
  <2>1. jobs[i].queue = "active" /\ jobs[i].tries < Attempts
    BY <1>2, <1>4, WorkersAssumption
  <2>2. tried \in JobRow /\ tried.tries = jobs[i].tries + 1 /\ tried.holder = NoWorker
    <3>1. jobs[i].tries + 1 \in 0..Attempts
      BY <1>2, <2>1, BoundsAssumption
    <3>2. IF last THEN "failed" \in QueueState ELSE "delayed" \in QueueState
      BY DEF QueueState
    <3> QED
      BY <1>2, <3>1, <3>2 DEF JobRow
  <2>3. jobs' = [jobs EXCEPT ![i] = tried]
    BY <1>2, <1>4 DEF Throw, Doing, IInv, Types
  <2>4. RunStep(w, i, tried, Idle)
    BY <1>2, <1>3, <2>1, <2>2, <2>3, BoundsAssumption, IdleType
    DEF RunStep, IInv, Types, JobRow, Idle, countVars
  <2> QED
    BY <1>2, <2>2, <2>4, IdleType, RunKeeps
<1>5. CASE ~HoldsLock(w)
  <2>1. jobs' = [jobs EXCEPT ![i] = jobs[i]]
    BY <1>2, <1>5, SameRow DEF Throw, IInv
  <2>2. RunStep(w, i, jobs[i], Idle)
    BY <1>2, <1>3, <1>5, <2>1, IdleType DEF RunStep, IInv, Types, Idle, countVars
  <2> QED
    BY <1>2, <2>2, IdleType, RunKeeps
<1> QED
  BY <1>4, <1>5

\* The job goes back to the queue, whatever its worker still does.
LEMMA LoseLockKeeps ==
  ASSUME IInv, NEW w \in Workers, NEW dies \in BOOLEAN, LoseLock(w, dies)
  PROVE  IInv'
<1> DEFINE i == worker[w].job
           row == [jobs[i] EXCEPT !.queue = IF jobs[i].stalled THEN "failed" ELSE "waiting",
                                  !.stalled = TRUE, !.holder = NoWorker]
           mine == IF dies THEN Idle ELSE worker[w]
<1> USE DEF IInv, LoseLock
<1>1. /\ i \in JobIds /\ jobs[i] \in JobRow /\ worker[w] \in WorkerRow
      /\ jobs[i].queue = "active" /\ jobs[i].tries < Attempts /\ faults' # 0
  BY HeldJob, WorkersAssumption DEF Doing, HoldsLock, Fault, BoundsInv
<1>2. row \in JobRow /\ mine \in WorkerRow
  BY <1>1, IdleType DEF JobRow, QueueState
<1>3. jobs' = [jobs EXCEPT ![i] = row] /\ worker' = [worker EXCEPT ![w] = mine]
  BY <1>1 DEF Types, JobIds, Doing
<1>4. /\ mine.parts \subseteq DOMAIN mine.input /\ (mine.pc = "read" => mine.parts = {})
      /\ mine.job \in {0, i} /\ (mine.pc # "idle" => mine.job = i)
  <2>1. CASE dies
    BY <2>1, IdleType DEF Idle
  <2>2. CASE ~dies
    BY <2>2 DEF HeldInv, At
  <2> QED
    BY <2>1, <2>2
<1>5. /\ mine.pc \in {"generate", "check", "store"} =>
           row.force \/ mine.edited \/ summary[row.scope].source # "author_manual"
      /\ mine.pc = "store" /\ ~mine.raced => mine.input = Input(row.scope)
  BY <1>1 DEF Idle, ManualInv, SourceInv, Scope, Doing, At, JobRow
<1>6. Fault /\ UNCHANGED <<sourceVars, summary, requestVars, invalidations, overlapping>>
  OBVIOUS
<1>7. RunStep(w, i, row, mine)
  <2> HIDE DEF mine, LoseLock
  <2> QED
    BY <1>1, <1>2, <1>3, <1>4, <1>5, <1>6, BoundsAssumption DEF RunStep, Types, JobRow
<1> QED
  BY <1>1, <1>2, <1>7, RunKeeps

-----------------------------------------------------------------------------
(* Requests.                                                               *)

\* A step that gives requester r something to do next, and no job or worker.
RequestStep(r, row) ==
  /\ requests' = [requests EXCEPT ![r] = row]
  /\ UNCHANGED <<sourceVars, jobs, worker>>
  /\ stale' \subseteq Scopes
  /\ summary' \in [Scopes -> SummaryRow]
  /\ \A c \in Scopes : summary'[c].source = "author_manual" => summary[c].source = "author_manual"
  /\ BoundsInv' /\ (faults' = 0 => faults = 0)
  /\ row.job \in {0} \cup JobIds /\ (row.pc = "enqueue" => row.job \in JobIds)
  /\ faults' = 0 => requests[r].pc # "enqueue"
  /\ ~overlapping' =>
       /\ ~overlapping
       /\ row.pc \in {"find", "create", "enqueue"} =>
            \/ Asking(r) /\ row.scope = requests[r].scope
            \/ ~InFlight(row.scope)
       /\ Untried /\ row.pc = "create" =>
            \A i \in JobIds : Active(i) => ~(jobs[i].scope = row.scope /\ jobs[i].hash = row.input)

\* The other requesters are not concerned.
LEMMA RequestKeeps ==
  ASSUME IInv, NEW r \in Requesters, NEW row \in RequestRow, RequestStep(r, row)
  PROVE  IInv'
<1> USE DEF IInv, RequestStep
<1>1. /\ requests' \in [Requesters -> RequestRow] /\ requests'[r] = row
      /\ \A q \in Requesters \ {r} : requests'[q] = requests[q]
  BY DEF Types
<1>2. Types' /\ BoundsInv'
  BY <1>1 DEF Types, sourceVars
<1>3. HeldInv' /\ LockInv'
  BY <1>1 DEF HeldInv, LockInv, Waiting, At, Doing, JobIds
<1>4. ManualInv'
  BY Rows DEF ManualInv, HeldInv, At, Scope, Doing, JobRow
<1>5. SourceInv'
  BY DEF SourceInv, At, Scope, Doing, Input, sourceVars
<1>6. OwnInv' /\ RowInv'
  BY <1>1 DEF OwnInv, RowInv, HoldsLock, Doing, At, Waiting, JobIds
<1>7. OneJobInFlight'
  BY DEF OneJobInFlight, Active, JobIds
<1>8. AskInv'
  BY <1>1 DEF AskInv, Asking, InFlight, Untried, Waiting, InFlightJob, SameInput, Active, JobIds
<1> QED
  BY <1>2, <1>3, <1>4, <1>5, <1>6, <1>7, <1>8

\* History: a request beside another for the same scope is remembered.
LEMMA AskKeeps ==
  ASSUME IInv, NEW r \in Requesters, NEW c \in Scopes, Ask(r, c), stale' \subseteq Scopes
  PROVE  IInv'
<1> DEFINE row == [Quiet EXCEPT !.pc = "find", !.scope = c, !.input = Input(c)]
<1>1. row \in RequestRow /\ row.pc = "find" /\ row.scope = c /\ row.job = 0
  BY QuietType, InputType DEF IInv, RequestRow, RequestPhases, Quiet
<1>2. requests' = [requests EXCEPT ![r] = row]
  BY DEF Ask
<1>3. RequestStep(r, row)
  <2> HIDE DEF row
  <2> QED
    BY <1>1, <1>2 DEF RequestStep, Ask, Waiting, IInv, Types, BoundsInv, sourceVars
<1> QED
  BY <1>1, <1>3, RequestKeeps

\* By the author.
LEMMA RequestGenerationKeeps ==
  ASSUME IInv, NEW r \in Authors, NEW c \in Scopes, RequestGeneration(r, c)
  PROVE  IInv'
  BY AskKeeps DEF RequestGeneration, Requesters, IInv, Types

\* By an invalidation.
LEMMA EnqueueInvalidatedKeeps == ASSUME IInv, NEW c \in Scopes, EnqueueInvalidated(c) PROVE IInv'
  BY AskKeeps DEF EnqueueInvalidated, Requesters, IInv, Types

\* Summaries become dirty and stay whose they are.
LEMMA ProcessInvalidationKeeps == ASSUME IInv, NEW s \in Scenes, ProcessInvalidation(s) PROVE IInv'
<1> DEFINE row == [requests[Invalidation] EXCEPT !.pc = "list"]
<1>1. Invalidation \in Requesters /\ requests[Invalidation] \in RequestRow
  BY Rows DEF Requesters, IInv
<1>2. row \in RequestRow /\ row.pc = "list" /\ row.job = requests[Invalidation].job
  BY <1>1 DEF RequestRow, RequestPhases
<1>3. requests' = [requests EXCEPT ![Invalidation] = row]
  BY DEF ProcessInvalidation
<1>4. /\ summary' \in [Scopes -> SummaryRow]
      /\ \A c \in Scopes : summary'[c].source = summary[c].source
  BY DEF ProcessInvalidation, IInv, Types, SummaryRow
<1>5. BoundsInv' /\ faults' = faults
  BY BoundsAssumption DEF ProcessInvalidation, Disturbed, BoundsInv, IInv, sourceVars
<1>6. stale' \subseteq Scopes
  BY DEF ProcessInvalidation, Scopes
<1>7. RequestStep(Invalidation, row)
  <2> HIDE DEF row
  <2> QED
    BY <1>1, <1>2, <1>3, <1>4, <1>5, <1>6
    DEF RequestStep, ProcessInvalidation, Waiting, IInv, HeldInv
<1> QED
  BY <1>1, <1>2, <1>7, RequestKeeps

\* The list gets shorter.
LEMMA ListInvalidatedKeeps == ASSUME IInv, ListInvalidated PROVE IInv'
<1>1. Invalidation \in Requesters /\ requests[Invalidation].pc = "list"
  BY DEF Requesters, ListInvalidated, Waiting
<1>2. requests' = [requests EXCEPT ![Invalidation] = Quiet] /\ Quiet.pc = "idle" /\ Quiet.job = 0
  BY DEF ListInvalidated, Quiet
<1>3. RequestStep(Invalidation, Quiet)
  <2> HIDE DEF Quiet
  <2> QED
    BY <1>1, <1>2 DEF RequestStep, ListInvalidated, IInv, Types, BoundsInv, sourceVars, countVars
<1> QED
  BY <1>1, <1>3, QuietType, RequestKeeps

\* A requester that finds nothing in flight may create.
LEMMA FindJobKeeps == ASSUME IInv, NEW r \in Requesters, FindJob(r) PROVE IInv'
<1> DEFINE found == {i \in JobIds : InFlightJob(i, r)}
           enqueue(i) == [requests[r] EXCEPT !.pc = "enqueue", !.job = i]
<1>1. requests[r] \in RequestRow /\ requests[r].pc = "find"
  BY Rows DEF IInv, FindJob, Waiting
<1>2. /\ UNCHANGED <<sourceVars, summary, jobs, worker, stale, countVars>>
      /\ BoundsInv'
  BY DEF FindJob, IInv, BoundsInv, sourceVars, countVars
<1>3. CASE found = {} /\ requests' = [requests EXCEPT ![r].pc = "create"]
  <2> DEFINE row == [requests[r] EXCEPT !.pc = "create"]
  <2>1. /\ row \in RequestRow /\ row.pc = "create" /\ row.job = requests[r].job
        /\ row.scope = requests[r].scope /\ row.input = requests[r].input
    BY <1>1 DEF RequestRow, RequestPhases
  <2>2. requests' = [requests EXCEPT ![r] = row]
    BY <1>3
  <2>3. RequestStep(r, row)
    <3> HIDE DEF row
    <3> QED
      BY <1>1, <1>2, <1>3, <2>1, <2>2
      DEF RequestStep, IInv, Types, HeldInv, Asking, InFlightJob, SameInput, countVars
  <2> QED
    BY <2>1, <2>3, RequestKeeps
<1>4. CASE requests' = [requests EXCEPT ![r] = Quiet]
  <2>1. Quiet.pc = "idle" /\ Quiet.job = 0
    BY DEF Quiet
  <2>2. RequestStep(r, Quiet)
    <3> HIDE DEF Quiet
    <3> QED
      BY <1>1, <1>2, <1>4, <2>1 DEF RequestStep, IInv, Types, countVars
  <2> QED
    BY <2>2, QuietType, RequestKeeps
<1>5. ASSUME NEW i \in JobIds, requests' = [requests EXCEPT ![r] = enqueue(i)]
      PROVE  IInv'
  <2> DEFINE row == enqueue(i)
  <2>1. i \in Nat
    BY DEF IInv, Types, JobIds
  <2>2. row \in RequestRow /\ row.pc = "enqueue" /\ row.job = i /\ row.scope = requests[r].scope
    BY <1>1, <2>1 DEF RequestRow, RequestPhases
  <2>3. requests' = [requests EXCEPT ![r] = row]
    BY <1>5
  <2>4. RequestStep(r, row)
    <3> HIDE DEF row
    <3> QED
      BY <1>1, <1>2, <2>2, <2>3 DEF RequestStep, IInv, Types, Asking, countVars
  <2> QED
    BY <2>2, <2>4, RequestKeeps
<1>6. \/ found = {} /\ requests' = [requests EXCEPT ![r].pc = "create"]
      \/ requests' = [requests EXCEPT ![r] = Quiet]
      \/ \E i \in JobIds : requests' = [requests EXCEPT ![r] = enqueue(i)]
  BY DEF FindJob
<1> QED
  BY <1>3, <1>4, <1>5, <1>6

\* What was asked for is given up.
LEMMA RequestDiesKeeps == ASSUME IInv, NEW r \in Requesters, RequestDies(r) PROVE IInv'
<1>1. /\ requests' = [requests EXCEPT ![r] = Quiet] /\ Quiet.pc = "idle" /\ Quiet.job = 0
      /\ stale' \subseteq Scopes
      /\ UNCHANGED <<sourceVars, summary, jobs, worker, invalidations, overlapping>>
  BY DEF RequestDies, Quiet, IInv, Types
<1>2. BoundsInv' /\ faults' # 0
  BY <1>1, BoundsAssumption DEF RequestDies, Fault, Disturbed, BoundsInv, IInv, sourceVars
<1>3. RequestStep(r, Quiet)
  <2> HIDE DEF Quiet
  <2> QED
    BY <1>1, <1>2 DEF RequestStep, IInv, Types
<1> QED
  BY <1>3, QuietType, RequestKeeps

\* The new job is the only one in flight with its input, unless requests overlapped.
LEMMA CreateJobKeeps == ASSUME IInv, NEW r \in Requesters, CreateJob(r) PROVE IInv'
<1> DEFINE new == Len(jobs) + 1
           made == [scope |-> requests[r].scope, hash |-> requests[r].input,
                    force |-> Forced(r), status |-> "QUEUED", queue |-> "none",
                    tries |-> 0, stalled |-> FALSE, holder |-> NoWorker]
           row == [requests[r] EXCEPT !.pc = "enqueue", !.job = new]
<1> USE DEF IInv
<1>1. requests[r] \in RequestRow /\ requests[r].pc = "create" /\ Len(jobs) \in Nat /\ Len(jobs) < MaxJobs
  BY Rows DEF CreateJob, Waiting, Types
<1>2. made \in JobRow
  BY <1>1, BoundsAssumption DEF JobRow, RequestRow, RowStatus, QueueState, Forced
<1>3. /\ jobs' \in Seq(JobRow) /\ Len(jobs') = new /\ JobIds' = JobIds \cup {new} /\ new \notin JobIds
      /\ jobs'[new] = made
      /\ \A k \in JobIds : jobs'[k] = jobs[k]
  BY <1>1, <1>2 DEF CreateJob, Types, JobIds
<1>4. /\ row \in RequestRow /\ row.pc = "enqueue" /\ row.job = new
      /\ row.scope = requests[r].scope /\ row.input = requests[r].input
  <2>1. new \in Nat
    BY <1>1
  <2> HIDE DEF new
  <2> QED
    BY <1>1, <2>1 DEF RequestRow, RequestPhases
<1>5. requests' = [requests EXCEPT ![r] = row] /\ UNCHANGED <<sourceVars, summary, worker, stale, countVars>>
  BY DEF CreateJob, Types
<1>6. /\ requests' \in [Requesters -> RequestRow] /\ requests'[r] = row
      /\ \A q \in Requesters \ {r} : requests'[q] = requests[q]
  BY <1>4, <1>5 DEF Types
<1>7. /\ made.scope = requests[r].scope /\ made.hash = requests[r].input /\ made.status = "QUEUED"
      /\ made.queue = "none" /\ made.tries = 0 /\ made.holder = NoWorker
  OBVIOUS
<1> HIDE DEF new, made, row
<1>8. Types' /\ BoundsInv'
  BY <1>1, <1>3, <1>5, <1>6, BoundsAssumption DEF Types, BoundsInv, sourceVars, countVars, new
<1>9. HeldInv' /\ LockInv'
  BY <1>3, <1>4, <1>5, <1>6, <1>7, BoundsAssumption DEF HeldInv, LockInv, Waiting, At, Doing
<1>10. \A w \in Workers : ~At(w, "idle") => Doing(w)' = Doing(w)
  BY <1>3, <1>5 DEF HeldInv, Doing
<1>11. ManualInv' /\ OwnInv'
  BY <1>5, <1>10 DEF ManualInv, OwnInv, At, Scope, HoldsLock, countVars
<1>12. SourceInv'
  <2> SUFFICES ASSUME NEW w \in Workers, At(w, "store")', ~worker'[w].raced
               PROVE  worker'[w].input = Input(Scope(w))'
    BY DEF SourceInv
  <2>1. Input(Scope(w))' = Input(Scope(w)') /\ Scope(w)' = Scope(w)
    BY <1>5, <1>10 DEF Input, Scope, At, sourceVars
  <2> QED
    BY <1>5, <2>1 DEF SourceInv, At
<1>13. RowInv'
  BY <1>1, <1>3, <1>4, <1>5, <1>6, <1>7 DEF RowInv, Waiting, countVars
<1>14. Untried' => Untried
  BY <1>3, <1>5 DEF Untried, countVars
<1>15. AskInv'
  BY <1>1, <1>3, <1>4, <1>5, <1>6, <1>7, <1>14
  DEF AskInv, Asking, Waiting, InFlightJob, SameInput, Active, countVars
<1>16. OneJobInFlight'
  BY <1>1, <1>3, <1>5, <1>7, <1>14
  DEF OneJobInFlight, AskInv, Untried, Waiting, InFlightJob, SameInput, Active, countVars
<1> QED
  BY <1>8, <1>9, <1>11, <1>12, <1>13, <1>15, <1>16

\* A job enters the queue once, and from then on keeps the force of who put it there.
LEMMA EnqueueJobKeeps == ASSUME IInv, NEW r \in Requesters, EnqueueJob(r) PROVE IInv'
<1> DEFINE i == requests[r].job
           row == IF jobs[i].queue = "none"
                  THEN [jobs[i] EXCEPT !.queue = "waiting", !.force = Forced(r)] ELSE jobs[i]
<1> USE DEF IInv
<1>1. i \in JobIds /\ jobs[i] \in JobRow
  BY Rows DEF EnqueueJob, HeldInv
<1>2. /\ row \in JobRow
      /\ row.scope = jobs[i].scope /\ row.hash = jobs[i].hash /\ row.status = jobs[i].status
      /\ row.tries = jobs[i].tries /\ row.holder = jobs[i].holder
      /\ jobs[i].queue # "none" => row = jobs[i]
      /\ jobs[i].queue = "none" => row.queue = "waiting"
  <2>1. CASE jobs[i].queue # "none"
    BY <1>1, <2>1
  <2>2. CASE jobs[i].queue = "none"
    <3>1. Forced(r) \in BOOLEAN
      BY DEF Forced
    <3> QED
      BY <1>1, <2>2, <3>1 DEF JobRow, QueueState
  <2> QED
    BY <2>1, <2>2
<1>3. jobs' = [jobs EXCEPT ![i] = row]
  <2>1. CASE jobs[i].queue = "none"
    BY <1>1, <2>1 DEF EnqueueJob, Types
  <2>2. CASE jobs[i].queue # "none"
    BY <1>1, <2>2, SameRow DEF EnqueueJob
  <2> QED
    BY <2>1, <2>2
<1>4. /\ requests' = [requests EXCEPT ![r] = Quiet] /\ Quiet.pc = "idle" /\ Quiet.job = 0
      /\ UNCHANGED <<sourceVars, summary, worker, stale, countVars>>
  BY DEF EnqueueJob, Quiet
<1>5. /\ requests' \in [Requesters -> RequestRow] /\ requests'[r] = Quiet
      /\ \A q \in Requesters \ {r} : requests'[q] = requests[q]
  BY <1>4, QuietType DEF Types
<1> HIDE DEF i, row, Quiet
<1>6. /\ jobs' \in Seq(JobRow) /\ Len(jobs') = Len(jobs) /\ JobIds' = JobIds
      /\ jobs'[i] = row
      /\ \A k \in JobIds \ {i} : jobs'[k] = jobs[k]
  BY <1>1, <1>2, <1>3, ReplaceRow
<1>7. Types' /\ BoundsInv'
  BY <1>4, <1>5, <1>6 DEF Types, BoundsInv, sourceVars, countVars
<1>8. HeldInv' /\ LockInv'
  BY <1>2, <1>4, <1>5, <1>6 DEF HeldInv, LockInv, Waiting, At, Doing
<1>9. \A w \in Workers : ~At(w, "idle") => Doing(w)' = Doing(w)
  BY <1>2, <1>4, <1>6 DEF HeldInv, Doing
<1>10. ManualInv' /\ OwnInv'
  BY <1>4, <1>9 DEF ManualInv, OwnInv, At, Scope, HoldsLock, countVars
<1>11. SourceInv'
  <2> SUFFICES ASSUME NEW w \in Workers, At(w, "store")', ~worker'[w].raced
               PROVE  worker'[w].input = Input(Scope(w))'
    BY DEF SourceInv
  <2>1. Input(Scope(w))' = Input(Scope(w)') /\ Scope(w)' = Scope(w)
    BY <1>4, <1>9 DEF Input, Scope, At, sourceVars
  <2> QED
    BY <1>4, <2>1 DEF SourceInv, At
<1>12. RowInv'
  BY <1>1, <1>2, <1>4, <1>5, <1>6 DEF RowInv, Waiting, countVars, i
<1>13. /\ Untried' => Untried
       /\ \A k \in JobIds : Active(k)' = Active(k) /\ jobs'[k].scope = jobs[k].scope /\ jobs'[k].hash = jobs[k].hash
  BY <1>2, <1>4, <1>6 DEF Untried, Active, countVars
<1>14. AskInv'
  BY <1>4, <1>5, <1>6, <1>13 DEF AskInv, Asking, Waiting, InFlightJob, SameInput, countVars
<1>15. OneJobInFlight'
  BY <1>4, <1>6, <1>13 DEF OneJobInFlight, Untried, countVars
<1> QED
  BY <1>7, <1>8, <1>10, <1>11, <1>12, <1>14, <1>15

\* A job that waited for its next try has had one.
LEMMA PromoteKeeps == ASSUME IInv, NEW i \in JobIds, Promote(i) PROVE IInv'
<1> DEFINE row == [jobs[i] EXCEPT !.queue = "waiting"]
<1> USE DEF IInv
<1>1. jobs[i] \in JobRow /\ jobs[i].queue = "delayed" /\ jobs[i].holder = NoWorker
  BY Rows DEF Promote, LockInv
<1>2. /\ row \in JobRow /\ row.scope = jobs[i].scope /\ row.hash = jobs[i].hash /\ row.force = jobs[i].force
      /\ row.status = jobs[i].status /\ row.tries = jobs[i].tries /\ row.holder = NoWorker
      /\ row.queue = "waiting"
  BY <1>1 DEF JobRow, QueueState
<1>3. /\ jobs' = [jobs EXCEPT ![i] = row]
      /\ UNCHANGED <<sourceVars, summary, requestVars, worker, countVars>>
  BY <1>1 DEF Promote, Types
<1> HIDE DEF row
<1>4. /\ jobs' \in Seq(JobRow) /\ Len(jobs') = Len(jobs) /\ JobIds' = JobIds
      /\ jobs'[i] = row
      /\ \A k \in JobIds \ {i} : jobs'[k] = jobs[k]
  BY <1>2, <1>3, ReplaceRow
<1>5. Types' /\ BoundsInv'
  BY <1>3, <1>4 DEF Types, BoundsInv, sourceVars, requestVars, countVars
<1>6. HeldInv' /\ LockInv'
  BY <1>1, <1>2, <1>3, <1>4 DEF HeldInv, LockInv, Waiting, At, Doing, requestVars
<1>7. \A w \in Workers : ~At(w, "idle") =>
        Scope(w)' = Scope(w) /\ Doing(w)'.force = Doing(w).force
  BY <1>2, <1>3, <1>4 DEF HeldInv, Doing, Scope
<1>8. ManualInv'
  BY <1>3, <1>7 DEF ManualInv, At
<1>9. OwnInv'
  BY <1>1, <1>3, <1>4, WorkersAssumption DEF OwnInv, HeldInv, HoldsLock, Doing, At, countVars
<1>10. SourceInv'
  <2> SUFFICES ASSUME NEW w \in Workers, At(w, "store")', ~worker'[w].raced
               PROVE  worker'[w].input = Input(Scope(w))'
    BY DEF SourceInv
  <2>1. Input(Scope(w))' = Input(Scope(w)') /\ Scope(w)' = Scope(w)
    BY <1>3, <1>7 DEF Input, At, sourceVars
  <2> QED
    BY <1>3, <2>1 DEF SourceInv, At
<1>11. RowInv'
  BY <1>1, <1>2, <1>3, <1>4 DEF RowInv, Waiting, requestVars, countVars
<1>12. /\ Untried' => Untried
       /\ \A k \in JobIds : Active(k)' = Active(k) /\ jobs'[k].scope = jobs[k].scope /\ jobs'[k].hash = jobs[k].hash
  BY <1>2, <1>3, <1>4 DEF Untried, Active, countVars
<1>13. AskInv'
  BY <1>3, <1>4, <1>12 DEF AskInv, Asking, Waiting, InFlightJob, SameInput, requestVars, countVars
<1>14. OneJobInFlight'
  BY <1>3, <1>4, <1>12 DEF OneJobInFlight, Untried, countVars
<1> QED
  BY <1>5, <1>6, <1>8, <1>9, <1>10, <1>11, <1>13, <1>14

-----------------------------------------------------------------------------
(* The author, and steps that concern nobody.                              *)

\* A step that leaves jobs, requests and what workers are doing as they are.
AuthorStep ==
  /\ UNCHANGED <<jobs, requests, faults, overlapping>>
  /\ Types' /\ BoundsInv' /\ ManualInv' /\ SourceInv'
  /\ \A w \in Workers : /\ worker'[w].pc = worker[w].pc /\ worker'[w].job = worker[w].job
                        /\ worker'[w].input = worker[w].input /\ worker'[w].parts = worker[w].parts

LEMMA AuthorKeeps == ASSUME IInv, AuthorStep PROVE IInv'
<1> USE DEF IInv, AuthorStep
<1>1. HeldInv' /\ LockInv'
  BY DEF HeldInv, LockInv, Waiting, At, Doing, JobIds
<1>2. OwnInv' /\ RowInv'
  BY DEF OwnInv, RowInv, HoldsLock, Doing, At, Waiting, JobIds
<1>3. AskInv' /\ OneJobInFlight'
  BY DEF AskInv, OneJobInFlight, Asking, Untried, Waiting, InFlightJob, SameInput, Active, JobIds
<1> QED
  BY <1>1, <1>2, <1>3

\* A run that has checked is remembered as raced, if the scene is one of its scope.
LEMMA RacedFacts ==
  ASSUME IInv, NEW s \in Scenes, worker' = Raced(s), UNCHANGED jobs
  PROVE  /\ worker' \in [Workers -> WorkerRow]
         /\ \A w \in Workers : /\ worker'[w].pc = worker[w].pc /\ worker'[w].job = worker[w].job
                               /\ worker'[w].input = worker[w].input /\ worker'[w].parts = worker[w].parts
                               /\ worker'[w].edited = worker[w].edited
                               /\ At(w, "store") /\ ~worker'[w].raced =>
                                    ~worker[w].raced /\ s \notin Members(Scope(w))
<1>1. \A w \in Workers : worker[w] \in WorkerRow /\ [worker[w] EXCEPT !.raced = TRUE] \in WorkerRow
  BY Rows DEF IInv, WorkerRow
<1> QED
  BY <1>1 DEF Raced, Scope, WorkerRow

\* What the other scopes say does not change.
LEMMA WriteSceneKeeps ==
  ASSUME IInv, NEW s \in Scenes, NEW t \in Texts \cup {Empty}, WriteScene(s, t)
  PROVE  IInv'
<1> USE DEF IInv
<1>1. /\ text' = [text EXCEPT ![s] = t] /\ worker' = Raced(s)
      /\ UNCHANGED <<live, summary, jobs, requestVars, countVars>>
  BY DEF WriteScene
<1>2. Types'
  BY <1>1, RacedFacts DEF Types, requestVars
<1>3. BoundsInv'
  BY <1>1, BoundsAssumption DEF WriteScene, BoundsInv, countVars
<1>4. ManualInv'
  BY <1>1, RacedFacts DEF ManualInv, Doing, Scope
<1>5. SourceInv'
  <2> SUFFICES ASSUME NEW w \in Workers, At(w, "store")', ~worker'[w].raced
               PROVE  worker'[w].input = Input(Scope(w))'
    BY DEF SourceInv
  <2>1. /\ At(w, "store") /\ ~worker[w].raced /\ s \notin Members(Scope(w))
        /\ worker'[w].input = worker[w].input /\ Scope(w)' = Scope(w)
    BY <1>1, RacedFacts DEF At, Scope, Doing
  <2>2. [x \in Members(Scope(w)) \cap live |-> text'[x]] = [x \in Members(Scope(w)) \cap live |-> text[x]]
    <3>1. \A x \in Members(Scope(w)) \cap live : text'[x] = text[x]
      BY <1>1, <2>1 DEF Types
    <3> QED
      BY <3>1
  <2>3. Input(Scope(w))' = Input(Scope(w))
    BY <1>1, <2>1, <2>2 DEF Input
  <2> QED
    BY <2>1, <2>3 DEF SourceInv
<1>6. AuthorStep
  BY <1>1, <1>2, <1>3, <1>4, <1>5, RacedFacts DEF AuthorStep, requestVars, countVars
<1> QED
  BY <1>6, AuthorKeeps

\* Nor when a scene is gone.
LEMMA DeleteSceneKeeps == ASSUME IInv, NEW s \in Scenes, DeleteScene(s) PROVE IInv'
<1> USE DEF IInv
<1>1. /\ live' = live \ {s} /\ worker' = Raced(s)
      /\ UNCHANGED <<text, summary, jobs, requestVars, countVars>>
  BY DEF DeleteScene
<1>2. Types'
  BY <1>1, RacedFacts DEF Types, requestVars
<1>3. BoundsInv'
  BY <1>1, BoundsAssumption DEF DeleteScene, BoundsInv, countVars
<1>4. ManualInv'
  BY <1>1, RacedFacts DEF ManualInv, Doing, Scope
<1>5. SourceInv'
  <2> SUFFICES ASSUME NEW w \in Workers, At(w, "store")', ~worker'[w].raced
               PROVE  worker'[w].input = Input(Scope(w))'
    BY DEF SourceInv
  <2>1. /\ At(w, "store") /\ ~worker[w].raced /\ s \notin Members(Scope(w))
        /\ worker'[w].input = worker[w].input /\ Scope(w)' = Scope(w)
    BY <1>1, RacedFacts DEF At, Scope, Doing
  <2>2. Members(Scope(w)) \cap live' = Members(Scope(w)) \cap live
    BY <1>1, <2>1
  <2>3. Input(Scope(w))' = Input(Scope(w))
    BY <1>1, <2>1, <2>2 DEF Input
  <2> QED
    BY <2>1, <2>3 DEF SourceInv
<1>6. AuthorStep
  BY <1>1, <1>2, <1>3, <1>4, <1>5, RacedFacts DEF AuthorStep, requestVars, countVars
<1> QED
  BY <1>6, AuthorKeeps

\* A run that has looked is remembered as edited.
LEMMA UpdateManualKeeps == ASSUME IInv, NEW c \in Scopes, UpdateManual(c) PROVE IInv'
<1> USE DEF IInv
<1>1. UNCHANGED <<sourceVars, jobs, requestVars, countVars>>
  BY DEF UpdateManual
<1>2. /\ summary' \in [Scopes -> SummaryRow]
      /\ \A d \in Scopes : d # c => summary'[d] = summary[d]
  BY DEF UpdateManual, Types, SummaryRow
<1>3. /\ worker' \in [Workers -> WorkerRow]
      /\ \A w \in Workers :
           /\ worker'[w].pc = worker[w].pc /\ worker'[w].job = worker[w].job
           /\ worker'[w].input = worker[w].input /\ worker'[w].parts = worker[w].parts
           /\ worker'[w].raced = worker[w].raced
           /\ worker[w].edited => worker'[w].edited
           /\ worker[w].pc \in {"generate", "check", "store"} /\ Scope(w) = c => worker'[w].edited
  <2>1. \A w \in Workers : worker[w] \in WorkerRow /\ [worker[w] EXCEPT !.edited = TRUE] \in WorkerRow
    BY Rows DEF WorkerRow
  <2> QED
    BY <2>1 DEF UpdateManual, Scope, WorkerRow
<1>4. Types' /\ BoundsInv'
  BY <1>1, <1>2, <1>3 DEF Types, BoundsInv, sourceVars, requestVars, countVars
<1>5. ManualInv'
  <2>1. \A w \in Workers : worker[w].pc \in {"generate", "check", "store"} => Scope(w) \in Scopes
    BY Rows DEF HeldInv, At, Scope, Doing, JobRow
  <2> QED
    BY <1>1, <1>2, <1>3, <2>1 DEF ManualInv, Scope, Doing
<1>6. SourceInv'
  <2> SUFFICES ASSUME NEW w \in Workers, At(w, "store")', ~worker'[w].raced
               PROVE  worker'[w].input = Input(Scope(w))'
    BY DEF SourceInv
  <2>1. Input(Scope(w))' = Input(Scope(w)') /\ Scope(w)' = Scope(w)
    BY <1>1, <1>3 DEF Input, Scope, Doing, sourceVars
  <2> QED
    BY <1>3, <2>1 DEF SourceInv, At
<1>7. AuthorStep
  BY <1>1, <1>3, <1>4, <1>5, <1>6 DEF AuthorStep, requestVars, countVars
<1> QED
  BY <1>7, AuthorKeeps

\* Nothing but the list of an invalidation changes, or nothing.
LEMMA SkipKeeps ==
  ASSUME IInv, stale' \subseteq stale, UNCHANGED <<sourceVars, summary, requests, jobs, worker, countVars>>
  PROVE  IInv'
<1> USE DEF IInv
<1>1. Types' /\ BoundsInv'
  BY DEF Types, BoundsInv, sourceVars, countVars
<1>2. ManualInv'
  BY DEF ManualInv, Scope, Doing
<1>3. SourceInv'
  BY DEF SourceInv, At, Scope, Doing, Input, sourceVars
<1>4. AuthorStep
  BY <1>1, <1>2, <1>3 DEF AuthorStep, countVars
<1> QED
  BY <1>4, AuthorKeeps

-----------------------------------------------------------------------------
(* Every step, and the theorems.                                           *)

\* Nothing is asked for yet.
LEMMA InitIInv == Init => IInv
<1> SUFFICES ASSUME Init PROVE IInv
  OBVIOUS
<1> USE DEF Init
<1>1. JobIds = {} /\ jobs \in Seq(JobRow) /\ Len(jobs) = 0
  BY DEF JobIds
<1>2. Types
  BY <1>1, QuietType, IdleType DEF Types, NoSummary, SummaryRow
<1>3. BoundsInv
  BY <1>1, BoundsAssumption DEF BoundsInv
<1>4. HeldInv /\ LockInv
  BY <1>1 DEF HeldInv, LockInv, Waiting, At, Quiet, Idle
<1>5. ManualInv /\ SourceInv /\ OwnInv /\ RowInv /\ AskInv /\ OneJobInFlight
  BY <1>1 DEF ManualInv, SourceInv, OwnInv, RowInv, AskInv, OneJobInFlight, Asking, Waiting, At, Quiet, Idle
<1> QED
  BY <1>2, <1>3, <1>4, <1>5 DEF IInv

\* The invariant is inductive: one step for each group of actions.
LEMMA NextKeeps == IInv /\ [Next]_vars => IInv'
<1> SUFFICES ASSUME IInv, [Next]_vars PROVE IInv'
  OBVIOUS
<1>1. CASE UNCHANGED vars
  BY <1>1, SkipKeeps DEF vars, requestVars
<1>2. ASSUME NEW s \in Scenes, NEW t \in Texts \cup {Empty}, WriteScene(s, t) PROVE IInv'
  BY <1>2, WriteSceneKeeps
<1>3. ASSUME NEW s \in Scenes, DeleteScene(s) \/ ProcessInvalidation(s) PROVE IInv'
  BY <1>3, DeleteSceneKeeps, ProcessInvalidationKeeps
<1>4. ASSUME NEW c \in Scopes, UpdateManual(c) \/ EnqueueInvalidated(c) PROVE IInv'
  BY <1>4, UpdateManualKeeps, EnqueueInvalidatedKeeps
<1>5. ASSUME NEW c \in Scopes, SkipInvalidated(c) PROVE IInv'
  BY <1>5, SkipKeeps DEF SkipInvalidated
<1>6. ASSUME NEW r \in Authors, NEW c \in Scopes, RequestGeneration(r, c) PROVE IInv'
  BY <1>6, RequestGenerationKeeps
<1>7. CASE ListInvalidated
  BY <1>7, ListInvalidatedKeeps
<1>8. ASSUME NEW r \in Requesters, FindJob(r) \/ CreateJob(r) \/ EnqueueJob(r) \/ RequestDies(r)
      PROVE  IInv'
  BY <1>8, FindJobKeeps, CreateJobKeeps, EnqueueJobKeeps, RequestDiesKeeps
<1>9. ASSUME NEW w \in Workers, NEW i \in JobIds, Take(w, i) \/ TakeFails(w, i) PROVE IInv'
  BY <1>9, TakeKeeps, TakeFailsKeeps
<1>10. ASSUME NEW w \in Workers, NEW s \in Scenes, GeneratePart(w, s) PROVE IInv'
  BY <1>10, GeneratePartKeeps
<1>11. ASSUME NEW w \in Workers,
              ReadSource(w) \/ GenerationFails(w) \/ CheckSource(w) \/ UpsertGenerated(w) \/ DatabaseDown(w)
       PROVE  IInv'
  BY <1>11, ReadSourceKeeps, GenerationFailsKeeps, CheckSourceKeeps, UpsertGeneratedKeeps, DatabaseDownKeeps
<1>12. ASSUME NEW w \in Workers, MarkCompleted(w) \/ MarkFailed(w) \/ Return(w) \/ Throw(w) PROVE IInv'
  BY <1>12, MarkCompletedKeeps, MarkFailedKeeps, ReturnKeeps, ThrowKeeps
<1>13. ASSUME NEW i \in JobIds, Promote(i) PROVE IInv'
  BY <1>13, PromoteKeeps
<1>14. ASSUME NEW w \in Workers, NEW dies \in BOOLEAN, LoseLock(w, dies) PROVE IInv'
  BY <1>14, LoseLockKeeps
<1> QED
  BY <1>1, <1>2, <1>3, <1>4, <1>5, <1>6, <1>7, <1>8, <1>9, <1>10, <1>11, <1>12, <1>13, <1>14 DEF Next

\* What the run checks of rows, requests and the queue is read off the invariant.
LEMMA IInvImplies == IInv => JobsAreSound
<1> SUFFICES ASSUME IInv PROVE JobsAreSound
  OBVIOUS
<1>1. TypeOK
  BY Rows DEF IInv, Types, BoundsInv, HeldInv, TypeOK,
     SummaryRow, JobRow, RequestRow, RequestPhases, WorkerRow
<1>2. QueueAgreesWithRow
  BY DEF IInv, RowInv, QueueAgreesWithRow
<1>3. ActiveJobRuns
  BY Rows DEF IInv, RowInv, ActiveJobRuns, Active, JobRow, QueueState
<1> QED
  BY <1>1, <1>2, <1>3 DEF IInv, JobsAreSound

\* A summary becomes generated only where a run stores it.
LEMMA OnlyStoresGenerate ==
  ASSUME Types, Next, NEW c \in Scopes,
         summary[c].source = "author_manual", summary'[c].source = "ai_generated"
  PROVE  \E w \in Workers : UpsertGenerated(w) /\ Scope(w) = c
<1>1. ~ UNCHANGED summary
  OBVIOUS
<1>2. ASSUME NEW d \in Scopes, UpdateManual(d) PROVE FALSE
  <2>1. CASE d = c
    BY <1>2, <2>1 DEF UpdateManual, Types, SummaryRow
  <2>2. CASE d # c
    BY <1>2, <2>2 DEF UpdateManual, Types
  <2> QED
    BY <2>1, <2>2
<1>3. ASSUME NEW s \in Scenes, ProcessInvalidation(s) PROVE FALSE
  BY <1>3 DEF ProcessInvalidation, Types, SummaryRow
<1>4. ASSUME NEW w \in Workers, UpsertGenerated(w) PROVE Scope(w) = c
  BY <1>4 DEF UpsertGenerated, Types
<1>5. \A s \in Scenes, t \in Texts \cup {Empty} : ~WriteScene(s, t)
  BY <1>1 DEF WriteScene
<1>6. \A s \in Scenes : ~DeleteScene(s)
  BY <1>1 DEF DeleteScene
<1>7. ~ListInvalidated /\ \A r \in Authors, d \in Scopes : ~RequestGeneration(r, d)
  BY <1>1 DEF ListInvalidated, RequestGeneration, Ask
<1>8. \A d \in Scopes : ~EnqueueInvalidated(d) /\ ~SkipInvalidated(d)
  BY <1>1 DEF EnqueueInvalidated, Ask, SkipInvalidated
<1>9. \A r \in Requesters : ~FindJob(r) /\ ~CreateJob(r) /\ ~EnqueueJob(r) /\ ~RequestDies(r)
  BY <1>1 DEF FindJob, CreateJob, EnqueueJob, RequestDies
<1>10. \A w \in Workers : \A i \in JobIds : ~Take(w, i) /\ ~TakeFails(w, i)
  BY <1>1 DEF Take, TakeFails
<1>11. \A w \in Workers : /\ ~ReadSource(w) /\ ~GenerationFails(w) /\ ~CheckSource(w) /\ ~DatabaseDown(w)
                          /\ \A s \in Scenes : ~GeneratePart(w, s)
  BY <1>1 DEF ReadSource, GenerationFails, CheckSource, DatabaseDown, GeneratePart
<1>12. \A w \in Workers : ~MarkCompleted(w) /\ ~MarkFailed(w) /\ ~Return(w) /\ ~Throw(w)
  BY <1>1 DEF MarkCompleted, MarkFailed, Return, Throw
<1>13. /\ \A i \in JobIds : ~Promote(i)
       /\ \A w \in Workers, dies \in BOOLEAN : ~LoseLock(w, dies)
  BY <1>1 DEF Promote, LoseLock
<1> QED
  BY <1>2, <1>3, <1>4, <1>5, <1>6, <1>7, <1>8, <1>9, <1>10, <1>11, <1>12, <1>13 DEF Next

\* Requests, rows and the queue agree about every job, whatever the number of jobs,
\* requests, workers, attempts and faults: an input has one job in flight unless
\* requests overlapped or something was retried; without a fault the end of a job in the
\* queue is the one its row tells, and no request is lost.
THEOREM RequestsRowsAndQueueAgree == Spec => []JobsAreSound
<1>1. Init => IInv
  BY InitIInv
<1>2. IInv /\ [Next]_vars => IInv'
  BY NextKeeps
<1>3. IInv => JobsAreSound
  BY IInvImplies
<1> QED
  BY <1>1, <1>2, <1>3, PTL DEF Spec

\* A text the author wrote is replaced only by a job the author asked for or one that
\* had looked before, and what is stored was generated from what its scenes say at that
\* moment, unless they changed after the run checked.
THEOREM OnlyEarnedStores == Spec => StoresAreEarned
<1>1. Init => IInv
  BY InitIInv
<1>2. IInv /\ [Next]_vars => IInv'
  BY NextKeeps
<1>3. IInv /\ [Next]_vars =>
        [\A c \in Scopes : summary[c].source = "author_manual" /\ summary'[c].source = "ai_generated"
           => \E w \in Workers : Stores(w, c) /\ (Doing(w).force \/ worker[w].edited)]_vars
  <2> SUFFICES ASSUME IInv, Next, NEW c \in Scopes,
                      summary[c].source = "author_manual", summary'[c].source = "ai_generated"
               PROVE  \E w \in Workers : Stores(w, c) /\ (Doing(w).force \/ worker[w].edited)
    OBVIOUS
  <2>1. PICK w \in Workers : UpsertGenerated(w) /\ Scope(w) = c
    BY OnlyStoresGenerate DEF IInv
  <2>2. worker'[w].pc = "complete"
    BY <2>1 DEF UpsertGenerated, Idle, IInv, Types
  <2>3. Stores(w, c)
    BY <2>1, <2>2 DEF Stores, UpsertGenerated
  <2> QED
    BY <2>1, <2>3 DEF IInv, ManualInv, Stores, At
<1>4. IInv =>
        [\A w \in Workers, c \in Scopes : Stores(w, c) /\ ~worker[w].raced
           => worker[w].input = Input(c)]_vars
  BY DEF IInv, SourceInv, Stores
<1> QED
  BY <1>1, <1>2, <1>3, <1>4, PTL DEF Spec, StoresAreEarned, ManualTextIsKept, StoredForCurrentText

-----------------------------------------------------------------------------
(* ChatRetrieval: v1 is the chunks, v2 what the vectors return, v3 the     *)
(* question, v4 the step, v5 what was found, v6 whether a save fell        *)
(* between two reads.                                                      *)

\* Finite sets are reached by adding one element at a time.
LEMMA SetsGrow ==
  ASSUME NEW A, IsFiniteSet(A), NEW Good \in SUBSET (SUBSET A),
         \A s \in SUBSET A : (\A x \in s : s \ {x} \in Good) => s \in Good
  PROVE  Good = SUBSET A
<1> DEFINE Bad == (SUBSET A) \ Good
           Sizes == {Cardinality(s) : s \in Bad}
<1>1. SUFFICES ASSUME Bad # {} PROVE FALSE
  OBVIOUS
<1>2. \A s \in SUBSET A : IsFiniteSet(s) /\ Cardinality(s) \in Nat
  BY FS_Subset, FS_CardinalityType
<1>3. PICK n \in Sizes : \A l \in Sizes : ~(<<l, n>> \in OpToRel(<, Nat))
  <2>1. Sizes \in SUBSET Nat /\ Sizes # {}
    BY <1>1, <1>2
  <2> HIDE DEF Sizes
  <2> QED
    BY <2>1, NatLessThanWellFounded, WFMin
<1>4. PICK s \in Bad : Cardinality(s) = n
  OBVIOUS
<1>5. ASSUME NEW x \in s PROVE s \ {x} \in Good
  <2>1. IsFiniteSet(s) /\ Cardinality(s) \in Nat /\ s \ {x} \in SUBSET A
    BY <1>2
  <2>2. Cardinality(s \ {x}) = n - 1 /\ n \in Nat /\ Cardinality(s \ {x}) \in Nat
    BY <1>2, <1>4, <2>1, FS_RemoveElement
  <2>3. <<n - 1, n>> \in OpToRel(<, Nat)
    BY <2>2 DEF OpToRel
  <2> DEFINE t == s \ {x}
  <2>4. t \in SUBSET A /\ Cardinality(t) = n - 1
    BY <2>1, <2>2
  <2> HIDE DEF t
  <2>5. t \notin Bad
    <3> SUFFICES ASSUME t \in Bad PROVE FALSE
      OBVIOUS
    <3>1. Cardinality(t) \in Sizes
      OBVIOUS
    <3> HIDE DEF Sizes
    <3>2. ~(<<Cardinality(t), n>> \in OpToRel(<, Nat))
      BY <1>3, <3>1
    <3> QED
      BY <2>3, <2>4, <3>2
  <2>6. t \in Good
    BY <2>4, <2>5
  <2> QED
    BY <2>6 DEF t
<1> QED
  BY <1>4, <1>5
-----------------------------------------------------------------------------
(* Sums over sets. *)

Chosen(s) == CHOOSE x \in s : TRUE

LEMMA ChosenIs == \A s : s # {} => Chosen(s) \in s
BY DEF Chosen

AreSums(g, f, S) ==
  g = [s \in SUBSET S |-> IF s = {} THEN 0 ELSE f[Chosen(s)] + g[s \ {Chosen(s)}]]

Total(f, S) == Retrieval!SumFunctionOnSet(f, S)

LEMMA TotalOfOne ==
  ASSUME NEW f, NEW S
  PROVE  Total(f, S) = (CHOOSE g : AreSums(g, f, S))[S]
BY Zenon DEF Total, Retrieval!SumFunctionOnSet, Retrieval!FoldFunctionOnSet,
             Retrieval!MapThenFoldSet, AreSums, Chosen

LEMMA SumsAre ==
  ASSUME NEW f, NEW S, NEW g, AreSums(g, f, S)
  PROVE  /\ g[{}] = 0
         /\ \A s \in SUBSET S : s # {} =>
              /\ Chosen(s) \in s /\ s \ {Chosen(s)} \in SUBSET S
              /\ g[s] = f[Chosen(s)] + g[s \ {Chosen(s)}]
<1>1. \A s \in SUBSET S : g[s] = IF s = {} THEN 0 ELSE f[Chosen(s)] + g[s \ {Chosen(s)}]
  BY DEF AreSums
<1>2. {} \in SUBSET S
  OBVIOUS
<1> QED
  BY <1>1, <1>2, ChosenIs

LEMMA SumsAgree ==
  ASSUME NEW f, NEW A, NEW B, IsFiniteSet(A), NEW g, NEW h, AreSums(g, f, A), AreSums(h, f, B)
  PROVE  \A s \in SUBSET (A \cap B) : g[s] = h[s]
<1> DEFINE C == A \cap B
           Good == {s \in SUBSET C : g[s] = h[s]}
<1>1. IsFiniteSet(C)
  BY FS_Subset
<1>2. ASSUME NEW s \in SUBSET C, \A x \in s : s \ {x} \in Good PROVE s \in Good
  <2>1. CASE s = {}
    BY <2>1, SumsAre
  <2>2. CASE s # {}
    <3>1. Chosen(s) \in s
      BY <2>2, ChosenIs
    <3>2. g[s \ {Chosen(s)}] = h[s \ {Chosen(s)}]
      BY <1>2, <3>1
    <3>3. s \in SUBSET A /\ s \in SUBSET B
      OBVIOUS
    <3>4. g[s] = f[Chosen(s)] + g[s \ {Chosen(s)}] /\ h[s] = f[Chosen(s)] + h[s \ {Chosen(s)}]
      BY <2>2, <3>3, SumsAre
    <3> QED
      BY <3>2, <3>4
  <2> QED
    BY <2>1, <2>2
<1>3. Good = SUBSET C
  <2>1. Good \in SUBSET (SUBSET C)
    OBVIOUS
  <2> HIDE DEF Good, C
  <2> QED
    BY <1>1, <1>2, <2>1, SetsGrow
<1> QED
  BY <1>3

LEMMA SumsExist ==
  ASSUME NEW f, NEW A, IsFiniteSet(A)
  PROVE  \E g : AreSums(g, f, A)
<1> DEFINE Good == {s \in SUBSET A : \E g : AreSums(g, f, s)}
<1>1. ASSUME NEW s \in SUBSET A, \A x \in s : s \ {x} \in Good PROVE s \in Good
  <2>1. CASE s = {}
    <3> DEFINE g == [t \in SUBSET {} |-> 0]
    <3>1. g = [t \in SUBSET {} |-> IF t = {} THEN 0 ELSE f[Chosen(t)] + g[t \ {Chosen(t)}]]
      BY \A t \in SUBSET {} : t = {}
    <3>2. AreSums(g, f, {})
      BY <3>1, Zenon DEF AreSums
    <3> QED
      BY <2>1, <3>2
  <2>2. CASE s # {}
    <3> DEFINE h(x) == CHOOSE g : AreSums(g, f, s \ {x})
               c == Chosen(s)
               Without(t) == Chosen(s \ t)
               g == [t \in SUBSET s |-> IF t = s THEN f[c] + h(c)[s \ {c}] ELSE h(Without(t))[t]]
    <3>1. \A x \in s : AreSums(h(x), f, s \ {x})
      <4> SUFFICES ASSUME NEW x \in s PROVE AreSums(h(x), f, s \ {x})
        OBVIOUS
      <4>1. \E k : AreSums(k, f, s \ {x})
        BY <1>1
      <4> QED
        BY <4>1, Zenon
    <3>2. \A t \in SUBSET s : t # s => Without(t) \in s /\ t \in SUBSET (s \ {Without(t)})
      <4> SUFFICES ASSUME NEW t \in SUBSET s, t # s
                   PROVE  Without(t) \in s /\ t \in SUBSET (s \ {Without(t)})
        OBVIOUS
      <4>1. Without(t) \in s \ t
        BY ChosenIs
      <4> QED
        BY <4>1
    <3> HIDE DEF h, Without
    <3>3. \A x, y \in s : \A t \in SUBSET s : x \notin t /\ y \notin t => h(x)[t] = h(y)[t]
      <4> SUFFICES ASSUME NEW x \in s, NEW y \in s, NEW t \in SUBSET s, x \notin t, y \notin t
                   PROVE  h(x)[t] = h(y)[t]
        OBVIOUS
      <4>1. t \in SUBSET ((s \ {x}) \cap (s \ {y}))
        OBVIOUS
      <4>2. IsFiniteSet(s \ {x})
        BY FS_Subset
      <4>3. AreSums(h(x), f, s \ {x}) /\ AreSums(h(y), f, s \ {y})
        BY <3>1
      <4> QED
        BY <4>1, <4>2, <4>3, SumsAgree
    <3>4. c \in s
      BY <2>2, ChosenIs
    <3>5. ASSUME NEW t \in SUBSET s
          PROVE  g[t] = IF t = {} THEN 0 ELSE f[Chosen(t)] + g[t \ {Chosen(t)}]
      <4>1. CASE t = s
        <5>1. s \ {c} \in SUBSET s /\ s \ {c} # s
          BY <3>4
        <5>2. g[s] = f[c] + h(c)[s \ {c}] /\ g[s \ {c}] = h(Without(s \ {c}))[s \ {c}]
          BY <5>1
        <5>3. Without(s \ {c}) \in s /\ Without(s \ {c}) \notin s \ {c} /\ c \notin s \ {c}
          BY <3>2, <5>1
        <5>4. h(Without(s \ {c}))[s \ {c}] = h(c)[s \ {c}]
          BY <3>3, <3>4, <5>1, <5>3
        <5> HIDE DEF g
        <5> QED
          BY <2>2, <4>1, <5>2, <5>4
      <4>2. CASE t # s
        <5> DEFINE d == Without(t)
        <5>1. d \in s /\ t \in SUBSET (s \ {d}) /\ AreSums(h(d), f, s \ {d})
          BY <3>1, <3>2, <4>2
        <5>2. g[t] = h(d)[t]
          BY <4>2
        <5>3. CASE t = {}
          BY <5>1, <5>2, <5>3, SumsAre
        <5>4. CASE t # {}
          <6> DEFINE u == t \ {Chosen(t)}
          <6>1. Chosen(t) \in t /\ h(d)[t] = f[Chosen(t)] + h(d)[u]
            BY <5>1, <5>4, SumsAre
          <6>2. u \in SUBSET s /\ u # s
            BY <6>1
          <6>3. g[u] = h(Without(u))[u]
            BY <6>2
          <6>4. Without(u) \in s /\ Without(u) \notin u /\ d \notin u
            BY <3>2, <5>1, <6>2
          <6>5. h(Without(u))[u] = h(d)[u]
            BY <3>3, <5>1, <6>2, <6>4
          <6> HIDE DEF g, u, d
          <6>6. g[t] = f[Chosen(t)] + g[u]
            BY <5>2, <6>1, <6>3, <6>5
          <6> QED
            BY <5>4, <6>6 DEF u
        <5> QED
          BY <5>3, <5>4
      <4> QED
        BY <4>1, <4>2
    <3>6. AreSums(g, f, s)
      <4>1. g = [t \in SUBSET s |-> g[t]]
        OBVIOUS
      <4> HIDE DEF g
      <4> QED
        BY <3>5, <4>1 DEF AreSums
    <3> QED
      BY <3>6
  <2> QED
    BY <2>1, <2>2
<1>2. Good = SUBSET A
  <2>1. Good \in SUBSET (SUBSET A)
    OBVIOUS
  <2> HIDE DEF Good
  <2> QED
    BY <1>1, <2>1, SetsGrow
<1> QED
  BY <1>2

\* The sum of a set is that of the set without any one of its elements, and that one.
LEMMA TotalIs ==
  ASSUME NEW f, NEW A, IsFiniteSet(A), \A x \in A : f[x] \in Nat
  PROVE  /\ Total(f, {}) = 0
         /\ \A s \in SUBSET A : /\ Total(f, s) \in Nat
                                /\ \A x \in s : Total(f, s) = f[x] + Total(f, s \ {x})
<1>1. PICK g : AreSums(g, f, A)
  BY SumsExist
<1>2. ASSUME NEW s \in SUBSET A PROVE Total(f, s) = g[s]
  <2> DEFINE h == CHOOSE k : AreSums(k, f, s)
  <2>1. IsFiniteSet(s)
    BY FS_Subset
  <2>2. AreSums(h, f, s)
    <3>1. \E k : AreSums(k, f, s)
      BY <2>1, SumsExist
    <3> QED
      BY <3>1, Zenon
  <2>3. Total(f, s) = h[s]
    BY TotalOfOne
  <2> HIDE DEF h
  <2>4. s \in SUBSET (s \cap A)
    OBVIOUS
  <2>5. h[s] = g[s]
    BY <1>1, <2>1, <2>2, <2>4, SumsAgree
  <2> QED
    BY <2>3, <2>5
<1> DEFINE Good == {s \in SUBSET A :
                      /\ g[s] \in Nat
                      /\ \A x \in s : g[s \ {x}] \in Nat /\ g[s] = f[x] + g[s \ {x}]}
<1>3. ASSUME NEW s \in SUBSET A, \A x \in s : s \ {x} \in Good PROVE s \in Good
  <2>1. CASE s = {}
    BY <1>1, <2>1, SumsAre
  <2>2. CASE s # {}
    <3> DEFINE c == Chosen(s)
    <3>1. c \in s /\ g[s] = f[c] + g[s \ {c}]
      BY <1>1, <2>2, SumsAre
    <3> HIDE DEF c
    <3>2. \A x \in s : g[s \ {x}] \in Nat /\ f[x] \in Nat
      BY <1>3
    <3>3. ASSUME NEW x \in s PROVE g[s] = f[x] + g[s \ {x}]
      <4>1. CASE x = c
        BY <3>1, <4>1
      <4>2. CASE x # c
        <5>1. x \in s \ {c} /\ c \in s \ {x}
          BY <3>1, <4>2
        <5>2. /\ g[s \ {c}] = f[x] + g[(s \ {c}) \ {x}] /\ g[s \ {x}] = f[c] + g[(s \ {x}) \ {c}]
              /\ g[(s \ {x}) \ {c}] \in Nat
          BY <1>3, <3>1, <5>1
        <5>3. (s \ {c}) \ {x} = (s \ {x}) \ {c}
          OBVIOUS
        <5> DEFINE a == g[s \ {c}]
                   b == g[s \ {x}]
                   d == g[(s \ {x}) \ {c}]
        <5>4. g[s] = f[c] + a /\ a = f[x] + d /\ b = f[c] + d
          BY <3>1, <5>2, <5>3
        <5>5. d \in Nat /\ f[c] \in Nat /\ f[x] \in Nat
          BY <3>1, <3>2, <5>2
        <5> HIDE DEF a, b, d
        <5>6. g[s] = f[x] + b
          BY <5>4, <5>5
        <5> QED
          BY <5>6 DEF b
      <4> QED
        BY <4>1, <4>2
    <3>4. g[s] \in Nat
      BY <3>1, <3>2
    <3> QED
      BY <3>2, <3>3, <3>4
  <2> QED
    BY <2>1, <2>2
<1>4. Good = SUBSET A
  <2>1. Good \in SUBSET (SUBSET A)
    OBVIOUS
  <2> HIDE DEF Good
  <2> QED
    BY <1>3, <2>1, SetsGrow
<1>5. ASSUME NEW s \in SUBSET A
      PROVE  Total(f, s) \in Nat /\ \A x \in s : Total(f, s) = f[x] + Total(f, s \ {x})
  <2>1. \A x \in s : s \ {x} \in SUBSET A
    OBVIOUS
  <2>2. s \in Good
    BY <1>4
  <2>3. g[s] \in Nat /\ \A x \in s : g[s] = f[x] + g[s \ {x}]
    BY <2>2 DEF Good
  <2> HIDE DEF Good
  <2> QED
    BY <1>2, <2>1, <2>3
<1>6. Total(f, {}) = 0
  BY <1>1, <1>2, SumsAre
<1> QED
  BY <1>5, <1>6

NatOn(f, A) == \A x \in A : f[x] \in Nat

Apart(A, B, C) == B \in SUBSET A /\ C \in SUBSET (A \ B)

LEMMA TotalJoins ==
  ASSUME NEW f, NEW A, IsFiniteSet(A), NatOn(f, A), NEW B, NEW C, Apart(A, B, C)
  PROVE  Total(f, B \cup C) = Total(f, B) + Total(f, C)
<1>0. B \in SUBSET A /\ C \in SUBSET (A \ B) /\ \A x \in A : f[x] \in Nat
  BY DEF Apart, NatOn
<1> DEFINE Good == {s \in SUBSET (A \ B) : Total(f, B \cup s) = Total(f, B) + Total(f, s)}
<1>1. ASSUME NEW s \in SUBSET (A \ B), \A x \in s : s \ {x} \in Good PROVE s \in Good
  <2>1. CASE s = {}
    <3>1. B \cup s = B /\ Total(f, B) \in Nat /\ Total(f, s) = 0
      BY <1>0, <2>1, TotalIs
    <3>2. Total(f, B \cup s) = Total(f, B)
      BY <3>1
    <3> QED
      BY <3>1, <3>2
  <2>2. CASE s # {}
    <3>1. PICK x \in s : TRUE
      BY <2>2
    <3> DEFINE t == s \ {x}
    <3>2. t \in SUBSET A /\ Total(f, B \cup t) = Total(f, B) + Total(f, t)
      BY <1>1, <1>0
    <3>3. (B \cup s) \ {x} = B \cup t /\ x \in B \cup s /\ B \cup s \in SUBSET A /\ s \in SUBSET A
      BY <1>0
    <3>4. /\ Total(f, B \cup s) = f[x] + Total(f, (B \cup s) \ {x}) /\ Total(f, s) = f[x] + Total(f, t)
      BY <1>0, <3>3, TotalIs
    <3>5. Total(f, B \cup s) = f[x] + Total(f, B \cup t)
      BY <3>3, <3>4
    <3>6. f[x] \in Nat /\ Total(f, B) \in Nat /\ Total(f, t) \in Nat
      BY <1>0, <3>2, <3>3, TotalIs
    <3> HIDE DEF t
    <3> QED
      BY <3>2, <3>4, <3>5, <3>6
  <2> QED
    BY <2>1, <2>2
<1>2. Good = SUBSET (A \ B)
  <2>1. Good \in SUBSET (SUBSET (A \ B)) /\ IsFiniteSet(A \ B)
    BY FS_Subset
  <2> HIDE DEF Good
  <2> QED
    BY <1>1, <2>1, SetsGrow
<1> QED
  BY <1>2, <1>0

LEMMA TotalOfZeros ==
  ASSUME NEW f, NEW A, IsFiniteSet(A), \A x \in A : f[x] = 0
  PROVE  Total(f, A) = 0
<1> DEFINE Good == {s \in SUBSET A : Total(f, s) = 0}
<1>1. ASSUME NEW s \in SUBSET A, \A x \in s : s \ {x} \in Good PROVE s \in Good
  <2>1. CASE s = {}
    BY <2>1, TotalIs
  <2>2. CASE s # {}
    <3>1. PICK x \in s : TRUE
      BY <2>2
    <3>2. Total(f, s \ {x}) = 0
      BY <1>1
    <3>3. Total(f, s) = f[x] + Total(f, s \ {x})
      BY TotalIs
    <3> QED
      BY <3>2, <3>3
  <2> QED
    BY <2>1, <2>2
<1>2. Good = SUBSET A
  <2>1. Good \in SUBSET (SUBSET A)
    OBVIOUS
  <2> HIDE DEF Good
  <2> QED
    BY <1>1, <2>1, SetsGrow
<1> QED
  BY <1>2

\* The sum of what a one-to-one map names.
LEMMA TotalAlong ==
  ASSUME NEW F, NEW f, NEW p, NEW A, IsFiniteSet(A),
         \A i \in A : F[i] = f[p[i]] /\ F[i] \in Nat,
         \A i, j \in A : p[i] = p[j] => i = j
  PROVE  Total(F, A) = Total(f, {p[i] : i \in A})
<1> DEFINE Named(s) == {p[i] : i \in s}
           Good == {s \in SUBSET A : Total(F, s) = Total(f, Named(s))}
<1>1. IsFiniteSet(Named(A)) /\ \A x \in Named(A) : f[x] \in Nat
  <2>1. IsFiniteSet(Named(A))
    <3> DEFINE h == [i \in A |-> p[i]]
    <3>1. h \in Surjection(A, Named(A))
      BY DEF Surjection
    <3> HIDE DEF h, Named
    <3> QED
      BY <3>1, FS_Surjection
  <2> QED
    BY <2>1
<1>2. \A s \in SUBSET A : Named(s) \in SUBSET Named(A)
  OBVIOUS
<1>3. Named({}) = {}
  OBVIOUS
<1>4. ASSUME NEW s \in SUBSET A, NEW x \in s
      PROVE  Named(s) \ {p[x]} = Named(s \ {x}) /\ p[x] \in Named(s)
  OBVIOUS
<1> HIDE DEF Named
<1>5. ASSUME NEW s \in SUBSET A, \A x \in s : s \ {x} \in Good PROVE s \in Good
  <2>1. CASE s = {}
    <3>1. Total(F, {}) = 0 /\ Total(f, {}) = 0
      BY <1>1, TotalIs
    <3> QED
      BY <1>3, <2>1, <3>1
  <2>2. CASE s # {}
    <3>1. PICK x \in s : TRUE
      BY <2>2
    <3>2. Total(F, s \ {x}) = Total(f, Named(s \ {x}))
      BY <1>5
    <3>3. Total(F, s) = F[x] + Total(F, s \ {x})
      BY TotalIs
    <3>4. Named(s) \in SUBSET Named(A) /\ p[x] \in Named(s)
      BY <1>2, <1>4
    <3>5. Total(f, Named(s)) = f[p[x]] + Total(f, Named(s) \ {p[x]})
      BY <1>1, <3>4, TotalIs
    <3>6. Named(s) \ {p[x]} = Named(s \ {x})
      BY <1>4
    <3> QED
      BY <3>2, <3>3, <3>5, <3>6
  <2> QED
    BY <2>1, <2>2
<1>6. Good = SUBSET A
  <2>1. Good \in SUBSET (SUBSET A)
    OBVIOUS
  <2> HIDE DEF Good
  <2> QED
    BY <1>5, <2>1, SetsGrow
<1> QED
  BY <1>6 DEF Named

AreGroups(F, I, sc, T, C) == \A t \in T : C[t] = Total(F, {i \in I : sc[i] = t})

\* The sum of the sums of groups.
LEMMA TotalOfGroups ==
  ASSUME NEW F, NEW I, IsFiniteSet(I), NatOn(F, I),
         NEW sc, NEW T, IsFiniteSet(T), NEW C, AreGroups(F, I, sc, T, C)
  PROVE  /\ \A t \in T : C[t] \in Nat
         /\ Total(C, T) = Total(F, {i \in I : sc[i] \in T})
<1> DEFINE Of(s) == {i \in I : sc[i] \in s}
           Group(t) == {i \in I : sc[i] = t}
           Good == {s \in SUBSET T : Total(C, s) = Total(F, Of(s))}
<1>0. \A i \in I : F[i] \in Nat
  BY DEF NatOn
<1>1. \A t \in T : C[t] \in Nat
  <2> SUFFICES ASSUME NEW t \in T PROVE C[t] \in Nat
    OBVIOUS
  <2>1. Group(t) \in SUBSET I
    OBVIOUS
  <2>2. C[t] = Total(F, Group(t))
    BY DEF AreGroups
  <2> HIDE DEF Group
  <2> QED
    BY <1>0, <2>1, <2>2, TotalIs
<1>2. Of({}) = {}
  OBVIOUS
<1>3. ASSUME NEW s \in SUBSET T, NEW x \in s
      PROVE  /\ Of(s \ {x}) \cup Group(x) = Of(s)
             /\ Of(s \ {x}) \in SUBSET I /\ Group(x) \in SUBSET (I \ Of(s \ {x}))
  OBVIOUS
<1>4. \A t \in T : C[t] = Total(F, Group(t))
  BY DEF AreGroups
<1> HIDE DEF Of, Group
<1>5. ASSUME NEW s \in SUBSET T, \A x \in s : s \ {x} \in Good PROVE s \in Good
  <2>1. CASE s = {}
    <3>1. Total(F, {}) = 0 /\ Total(C, {}) = 0
      BY <1>1, <1>0, TotalIs
    <3> QED
      BY <1>2, <2>1, <3>1
  <2>2. CASE s # {}
    <3>1. PICK x \in s : TRUE
      BY <2>2
    <3>2. Total(C, s \ {x}) = Total(F, Of(s \ {x}))
      BY <1>5
    <3>3. Total(C, s) = C[x] + Total(C, s \ {x})
      BY <1>1, <1>0, TotalIs
    <3> DEFINE B == Of(s \ {x})
               D == Group(x)
    <3>4. B \in SUBSET I /\ D \in SUBSET (I \ B) /\ B \cup D = Of(s)
      BY <1>3
    <3>5. C[x] = Total(F, D) /\ Total(C, s \ {x}) = Total(F, B)
      BY <1>4, <3>2
    <3> HIDE DEF B, D
    <3>6. Total(F, B \cup D) = Total(F, B) + Total(F, D)
      <4>1. Apart(I, B, D)
        BY <3>4 DEF Apart
      <4> QED
        BY <4>1, TotalJoins
    <3>7. Total(F, B) \in Nat /\ D \in SUBSET I
      BY <1>0, <3>4, TotalIs
    <3>8. Total(F, D) \in Nat
      BY <1>0, <3>7, TotalIs
    <3>9. Total(C, s) = Total(F, B \cup D)
      BY <3>3, <3>5, <3>6, <3>7, <3>8
    <3> QED
      BY <3>4, <3>9
  <2> QED
    BY <2>1, <2>2
<1>6. Good = SUBSET T
  <2>1. Good \in SUBSET (SUBSET T)
    OBVIOUS
  <2> HIDE DEF Good
  <2> QED
    BY <1>5, <2>1, SetsGrow
<1> QED
  BY <1>1, <1>6 DEF Of

-----------------------------------------------------------------------------
(* Places in an order. *)

Ahead(S, R, a) == {o \in S : <<o, a>> \in R}

Rank(S, R, a) == Cardinality(Ahead(S, R, a))

IsOrder(S, R) ==
  /\ \A a \in S : <<a, a>> \notin R
  /\ \A a, b \in S : a # b => <<a, b>> \in R \/ <<b, a>> \in R
  /\ \A a, b, c \in S : <<a, b>> \in R /\ <<b, c>> \in R => <<a, c>> \in R

\* Every place below the size of the set is taken by one element.
LEMMA RanksAre ==
  ASSUME NEW S, IsFiniteSet(S), NEW R, IsOrder(S, R)
  PROVE  /\ Cardinality(S) \in Nat
         /\ \A a \in S : Rank(S, R, a) \in 0..(Cardinality(S) - 1)
         /\ \A a, b \in S : <<a, b>> \in R <=> Rank(S, R, a) < Rank(S, R, b)
         /\ \A k \in 0..(Cardinality(S) - 1) : \E a \in S : Rank(S, R, a) = k
<1> DEFINE n == Cardinality(S)
<1>1. n \in Nat
  BY FS_CardinalityType
<1>2. ASSUME NEW a \in S PROVE Rank(S, R, a) \in 0..(n - 1)
  <2>1. Ahead(S, R, a) \in SUBSET (S \ {a})
    BY DEF Ahead, IsOrder
  <2>2. IsFiniteSet(S \ {a}) /\ Cardinality(S \ {a}) = n - 1
    BY FS_RemoveElement
  <2>3. IsFiniteSet(Ahead(S, R, a)) /\ Cardinality(Ahead(S, R, a)) <= n - 1
    BY <2>1, <2>2, FS_Subset
  <2>4. Cardinality(Ahead(S, R, a)) \in Nat
    BY <2>3, FS_CardinalityType
  <2> HIDE DEF n
  <2> QED
    BY <1>1, <2>3, <2>4 DEF Rank
<1>3. ASSUME NEW a \in S, NEW b \in S, <<a, b>> \in R
      PROVE  Rank(S, R, a) < Rank(S, R, b)
  <2> DEFINE low == Ahead(S, R, a)
             up == Ahead(S, R, b)
  <2>1. IsFiniteSet(low) /\ IsFiniteSet(up)
    <3>1. low \in SUBSET S /\ up \in SUBSET S
      BY DEF Ahead
    <3> QED
      BY <3>1, FS_Subset
  <2>2. low \cup {a} \in SUBSET up /\ a \notin low
    BY <1>3 DEF Ahead, IsOrder
  <2> HIDE DEF low, up
  <2>3. Cardinality(low \cup {a}) = Cardinality(low) + 1
    BY <2>1, <2>2, FS_AddElement
  <2>4. Cardinality(low \cup {a}) <= Cardinality(up)
    BY <2>1, <2>2, FS_Subset
  <2>5. Cardinality(low) \in Nat /\ Cardinality(up) \in Nat
    BY <2>1, FS_CardinalityType
  <2>6. Cardinality(low) < Cardinality(up)
    BY <2>3, <2>4, <2>5
  <2> QED
    BY <2>6 DEF Rank, low, up
<1>4. ASSUME NEW a \in S, NEW b \in S, Rank(S, R, a) < Rank(S, R, b)
      PROVE  <<a, b>> \in R
  <2>1. Rank(S, R, a) \in Nat /\ Rank(S, R, b) \in Nat
    BY <1>1, <1>2
  <2>2. a # b
    BY <1>4, <2>1
  <2>3. CASE <<b, a>> \in R
    <3>1. Rank(S, R, b) < Rank(S, R, a)
      BY <1>3, <2>3
    <3> QED
      BY <1>4, <2>1, <3>1
  <2> QED
    BY <2>2, <2>3 DEF IsOrder
<1>5. \A k \in 0..(n - 1) : \E a \in S : Rank(S, R, a) = k
  <2> DEFINE rank == [a \in S |-> Rank(S, R, a)]
  <2>1. rank \in [S -> 0..(n - 1)]
    BY <1>2
  <2>2. ASSUME NEW a \in S, NEW b \in S, a # b PROVE rank[a] # rank[b]
    <3>1. Rank(S, R, a) \in Nat /\ Rank(S, R, b) \in Nat
      BY <1>1, <1>2
    <3>2. Rank(S, R, a) < Rank(S, R, b) \/ Rank(S, R, b) < Rank(S, R, a)
      BY <1>3, <2>2 DEF IsOrder
    <3> QED
      BY <3>1, <3>2
  <2>3. IsFiniteSet(0..(n - 1)) /\ Cardinality(0..(n - 1)) = n
    BY <1>1, FS_Interval
  <2> HIDE DEF rank
  <2>4. rank \in Injection(S, 0..(n - 1))
    BY <2>1, <2>2 DEF Injection, IsInjective
  <2>5. rank \in Surjection(S, 0..(n - 1))
    BY <2>3, <2>4, FS_Injection
  <2>6. \A k \in 0..(n - 1) : \E a \in S : rank[a] = k
    BY <2>5 DEF Surjection
  <2> QED
    BY <2>6 DEF rank
<1> QED
  BY <1>1, <1>2, <1>3, <1>4, <1>5
-----------------------------------------------------------------------------
(* The pages. *)

USE CountsAssumption DEF Retrieval!RetrievalAssumption

LEMMA SameCount ==
  /\ \A S : Retrieval!Cardinality(S) = Cardinality(S)
  /\ \A S : Retrieval!IsFiniteSet(S) <=> IsFiniteSet(S)
BY DEF Retrieval!Cardinality, Retrieval!IsFiniteSet, Cardinality, IsFiniteSet

Lower(a, b) == IF a <= b THEN a ELSE b

LEMMA LeastOfTwo ==
  ASSUME NEW a \in Nat, NEW b \in Nat
  PROVE  Retrieval!Min({a, b}) = Lower(a, b)
BY DEF Retrieval!Min, Lower

LEMMA LeastIs ==
  ASSUME NEW S \in SUBSET Nat, S # {}
  PROVE  Retrieval!Min(S) \in S /\ \A x \in S : Retrieval!Min(S) <= x
<1>1. PICK n \in S : \A l \in S : ~(<<l, n>> \in OpToRel(<, Nat))
  BY NatLessThanWellFounded, WFMin
<1>2. ASSUME NEW x \in S PROVE n <= x
  <2>1. ~(<<x, n>> \in OpToRel(<, Nat)) /\ x \in Nat /\ n \in Nat
    BY <1>1
  <2> QED
    BY <2>1 DEF OpToRel
<1>3. \E x \in S : \A y \in S : x <= y
  BY <1>2
<1> QED
  BY <1>3 DEF Retrieval!Min

Order(ids) == {e \in ids \X ids : Retrieval!RowBefore(e[1], e[2])}

LEMMA RowsAreOrdered ==
  ASSUME Retrieval!IsManuscript(v1), NEW ids \in SUBSET DOMAIN v1
  PROVE  /\ IsFiniteSet(ids) /\ IsOrder(ids, Order(ids))
         /\ \A a, b \in ids : <<a, b>> \in Order(ids) <=> Retrieval!RowBefore(a, b)
<1>1. IsFiniteSet(ids)
  BY SameCount, FS_Subset DEF Retrieval!IsManuscript
<1>2. \A a, b \in ids : <<a, b>> \in Order(ids) <=> Retrieval!RowBefore(a, b)
  BY DEF Order
<1>3. CASE v3 = "count"
  <2>1. \A a, b \in ids : <<a, b>> \in Order(ids) <=> a < b
    BY <1>2, <1>3 DEF Retrieval!RowBefore
  <2>2. ids \in SUBSET Nat
    BY DEF Retrieval!IsManuscript
  <2> QED
    BY <1>1, <1>2, <2>1, <2>2 DEF IsOrder
<1>4. CASE v3 # "count"
  <2> DEFINE key(a) == SceneKeys[v1[a].scene]
  <2>1. \A a, b \in ids : <<a, b>> \in Order(ids) <=>
          \/ key(a) < key(b)
          \/ v1[a].scene = v1[b].scene /\ v1[a].index < v1[b].index
    BY <1>2, <1>4 DEF Retrieval!RowBefore
  <2>2. \A a \in ids : v1[a].scene \in StoryScenes /\ v1[a].index \in Nat /\ key(a) \in Nat
    BY DEF Retrieval!IsManuscript, Retrieval!Chunk
  <2>3. \A a, b \in ids : key(a) = key(b) <=> v1[a].scene = v1[b].scene
    BY <2>2 DEF Retrieval!IsInjective
  <2>4. \A a, b \in ids : a # b => v1[a].scene # v1[b].scene \/ v1[a].index # v1[b].index
    BY DEF Retrieval!IsManuscript
  <2> HIDE DEF key
  <2>5. \A a \in ids : <<a, a>> \notin Order(ids)
    BY <2>1, <2>2
  <2>6. \A a, b \in ids : a # b => <<a, b>> \in Order(ids) \/ <<b, a>> \in Order(ids)
    BY <2>1, <2>2, <2>3, <2>4
  <2>7. \A a, b, c \in ids :
          <<a, b>> \in Order(ids) /\ <<b, c>> \in Order(ids) => <<a, c>> \in Order(ids)
    BY <2>1, <2>2, <2>3
  <2> QED
    BY <1>1, <1>2, <2>5, <2>6, <2>7 DEF IsOrder
<1> QED
  BY <1>3, <1>4

\* A page holds the rows of a set that come first in the order of the database, in
\* that order, and all of them unless it is full.
IsPageOf(page, ids) ==
  /\ Len(page) <= PageRows
  /\ Len(page) < PageRows \/ Cardinality(ids) <= PageRows =>
       \A id \in ids : \E i \in DOMAIN page : page[i].id = id
  /\ \A i \in DOMAIN page : page[i].id \in ids /\ page[i].chunk = v1[page[i].id]
  /\ \A i, j \in DOMAIN page : i < j => Retrieval!RowBefore(page[i].id, page[j].id)
  /\ \A id \in ids : \A i \in DOMAIN page :
       Retrieval!RowBefore(id, page[i].id) => \E j \in DOMAIN page : page[j].id = id

LEMMA PageIs ==
  ASSUME Retrieval!IsManuscript(v1), NEW ids \in SUBSET DOMAIN v1
  PROVE  /\ Retrieval!Page(ids) \in Seq([id : ids, chunk : {v1[id] : id \in ids}])
         /\ IsPageOf(Retrieval!Page(ids), ids)
<1> DEFINE n == Cardinality(ids)
           m == Lower(PageRows, n)
           page == Retrieval!Page(ids)
           rank(a) == Rank(ids, Order(ids), a)
           Nth(i) == CHOOSE id \in ids : rank(id) = i - 1
<1>1. /\ n \in Nat
      /\ \A a \in ids : rank(a) \in 0..(n - 1)
      /\ \A a, b \in ids : Retrieval!RowBefore(a, b) <=> rank(a) < rank(b)
      /\ \A k \in 0..(n - 1) : \E a \in ids : rank(a) = k
  <2>1. IsFiniteSet(ids) /\ IsOrder(ids, Order(ids))
    BY RowsAreOrdered
  <2>2. \A a, b \in ids : <<a, b>> \in Order(ids) <=> Retrieval!RowBefore(a, b)
    BY RowsAreOrdered
  <2> HIDE DEF page
  <2> QED
    BY <2>1, <2>2, RanksAre
<1>2. \A id \in ids :
        Retrieval!Cardinality({other \in ids : Retrieval!RowBefore(other, id)}) = rank(id)
  <2> SUFFICES ASSUME NEW id \in ids
               PROVE  Cardinality({other \in ids : Retrieval!RowBefore(other, id)}) = rank(id)
    BY SameCount
  <2>1. {other \in ids : Retrieval!RowBefore(other, id)} = Ahead(ids, Order(ids), id)
    BY RowsAreOrdered DEF Ahead
  <2> QED
    BY <2>1 DEF Rank
<1>3. m \in Nat /\ m <= n /\ m <= PageRows /\ (m < PageRows \/ n <= PageRows => m = n)
  BY <1>1 DEF Lower
<1>4. Retrieval!Min({PageRows, Retrieval!Cardinality(ids)}) = m
  BY <1>1, SameCount, LeastOfTwo
<1>5. page = [i \in 1..m |-> Retrieval!Row(Nth(i))]
  <2> DEFINE Given(i) ==
               CHOOSE id \in ids :
                 Retrieval!Cardinality({other \in ids : Retrieval!RowBefore(other, id)}) = i - 1
             length == Retrieval!Min({PageRows, Retrieval!Cardinality(ids)})
  <2>1. \A i : Given(i) = Nth(i)
    BY <1>2
  <2>2. page = [i \in 1..length |-> Retrieval!Row(Given(i))]
    BY DEF Retrieval!Page
  <2> HIDE DEF page, Given, length, Nth, m
  <2> QED
    BY <1>4, <2>1, <2>2 DEF length
<1> HIDE DEF n, m, page, rank
<1>6. \A i \in 1..m : Nth(i) \in ids /\ rank(Nth(i)) = i - 1
  <2> SUFFICES ASSUME NEW i \in 1..m PROVE Nth(i) \in ids /\ rank(Nth(i)) = i - 1
    OBVIOUS
  <2>1. i - 1 \in 0..(n - 1)
    BY <1>1, <1>3
  <2>2. \E a \in ids : rank(a) = i - 1
    BY <1>1, <2>1
  <2> QED
    BY <2>2
<1>7. \A i \in 1..m : \A a \in ids : rank(a) = i - 1 => a = Nth(i)
  <2> SUFFICES ASSUME NEW i \in 1..m, NEW a \in ids, rank(a) = i - 1 PROVE a = Nth(i)
    OBVIOUS
  <2>1. ~Retrieval!RowBefore(a, Nth(i)) /\ ~Retrieval!RowBefore(Nth(i), a)
    BY <1>1, <1>6
  <2>2. <<a, Nth(i)>> \notin Order(ids) /\ <<Nth(i), a>> \notin Order(ids)
    BY <1>6, <2>1, RowsAreOrdered
  <2> QED
    BY <1>6, <2>2, RowsAreOrdered DEF IsOrder
<1> HIDE DEF Nth
<1>8. /\ DOMAIN page = 1..m
      /\ \A i \in 1..m : page[i] = [id |-> Nth(i), chunk |-> v1[Nth(i)]]
  BY <1>5 DEF Retrieval!Row
<1>9. page \in Seq([id : ids, chunk : {v1[id] : id \in ids}]) /\ Len(page) = m
  <2>1. page = [i \in 1..m |-> page[i]]
    BY <1>5
  <2>2. \A i \in 1..m : page[i] \in [id : ids, chunk : {v1[id] : id \in ids}]
    BY <1>6, <1>8
  <2> DEFINE Pages == [id : ids, chunk : {v1[id] : id \in ids}]
  <2>3. \A i \in 1..m : page[i] \in Pages
    BY <2>2
  <2> HIDE DEF Pages
  <2>4. page \in Seq(Pages) /\ Len(page) = m
    BY <1>3, <2>1, <2>3
  <2> QED
    BY <2>4 DEF Pages
<1>10. \A i \in 1..m : page[i].id = Nth(i) /\ page[i].chunk = v1[Nth(i)]
  BY <1>8
<1>11. \A id \in ids : rank(id) < m => \E i \in 1..m : page[i].id = id
  <2> SUFFICES ASSUME NEW id \in ids, rank(id) < m PROVE \E i \in 1..m : page[i].id = id
    OBVIOUS
  <2>1. rank(id) + 1 \in 1..m /\ rank(id) = (rank(id) + 1) - 1
    BY <1>1, <1>3
  <2> QED
    BY <1>7, <1>10, <2>1
<1>12. Len(page) < PageRows \/ n <= PageRows => \A id \in ids : rank(id) < m
  BY <1>1, <1>3, <1>9
<1>13. \A i, j \in 1..m : i < j => Retrieval!RowBefore(page[i].id, page[j].id)
  BY <1>1, <1>6, <1>10
<1>14. \A id \in ids : \A i \in 1..m : Retrieval!RowBefore(id, page[i].id) => rank(id) < m
  <2> SUFFICES ASSUME NEW id \in ids, NEW i \in 1..m, Retrieval!RowBefore(id, Nth(i))
               PROVE  rank(id) < m
    BY <1>10
  <2> QED
    BY <1>1, <1>3, <1>6
<1>15. IsPageOf(page, ids)
  BY <1>3, <1>6, <1>8, <1>9, <1>10, <1>11, <1>12, <1>13, <1>14 DEF IsPageOf, n
<1> QED
  BY <1>9, <1>15 DEF page

-----------------------------------------------------------------------------
(* What was found. *)

\* These rows are those of the set, each once.
Lists(rows, ids) ==
  /\ rows \in Seq([id : ids, chunk : {v1[id] : id \in ids}])
  /\ \A i \in DOMAIN rows : rows[i].id \in ids /\ rows[i].chunk = v1[rows[i].id]
  /\ \A i, j \in DOMAIN rows : i # j => rows[i].id # rows[j].id
  /\ \A id \in ids : \E i \in DOMAIN rows : rows[i].id = id

InOrder(rows) ==
  \A i, j \in DOMAIN rows : i < j => Retrieval!RowBefore(rows[i].id, rows[j].id)

Last(rows) == rows[Len(rows)].id

UpTo(last) == {id \in Retrieval!Candidates : id <= last}

ListedSoFar == v5 # <<>> /\ Last(v5) \in DOMAIN v1 /\ Lists(v5, UpTo(Last(v5)))

ListedAll ==
  /\ v3 = "count" => Lists(v5, Retrieval!Candidates)
  /\ v3 # "count" /\ Cardinality(Retrieval!Candidates) <= PageRows =>
       Lists(v5, Retrieval!Candidates) /\ InOrder(v5)

ReadInv ==
  /\ Retrieval!IsManuscript(v1) /\ v3 \in {"count", "first", "followed"} /\ v6 \in BOOLEAN
  /\ v4 \in {"search", "more", "found"}
  /\ v4 = "more" => v3 = "count"
  /\ v4 = "more" /\ ~v6 => ListedSoFar
  /\ v4 = "found" /\ ~v6 => ListedAll

CountsInv == part = "retrieval" => ReadInv

LEMMA PageLists ==
  ASSUME Retrieval!IsManuscript(v1), NEW ids \in SUBSET DOMAIN v1, NEW page,
         page \in Seq([id : ids, chunk : {v1[id] : id \in ids}]), IsPageOf(page, ids),
         Len(page) < PageRows \/ Cardinality(ids) <= PageRows
  PROVE  Lists(page, ids) /\ InOrder(page)
<1>1. \A a, b \in ids : Retrieval!RowBefore(a, b) => a # b
  BY RowsAreOrdered DEF IsOrder
<1>2. DOMAIN page \in SUBSET Nat /\ \A i \in DOMAIN page : page[i].id \in ids
  BY DEF IsPageOf
<1>3. \A i, j \in DOMAIN page : i < j => page[i].id # page[j].id
  BY <1>1, <1>2 DEF IsPageOf
<1>4. \A i, j \in DOMAIN page : i # j => page[i].id # page[j].id
  BY <1>2, <1>3
<1> QED
  BY <1>4 DEF IsPageOf, Lists, InOrder

LEMMA PageListsLow ==
  ASSUME Retrieval!IsManuscript(v1), v3 = "count", NEW ids \in SUBSET DOMAIN v1, NEW page,
         page \in Seq([id : ids, chunk : {v1[id] : id \in ids}]), IsPageOf(page, ids),
         page # <<>>
  PROVE  /\ Last(page) \in ids
         /\ Lists(page, {id \in ids : id <= Last(page)})
<1> DEFINE n == Len(page)
           last == Last(page)
           Low == {id \in ids : id <= last}
<1>1. \A a, b \in ids : Retrieval!RowBefore(a, b) <=> a < b
  BY DEF Retrieval!RowBefore
<1>2. ids \in SUBSET Nat
  BY DEF Retrieval!IsManuscript
<1>3. n \in Nat \ {0} /\ DOMAIN page = 1..n
  OBVIOUS
<1>4. last \in ids /\ last = page[n].id
  BY <1>3 DEF IsPageOf, Last
<1> HIDE DEF n, last
<1>5. \A i \in 1..n : page[i].id \in ids /\ page[i].chunk = v1[page[i].id]
  BY <1>3 DEF IsPageOf
<1>6. \A i, j \in 1..n : i < j => page[i].id < page[j].id
  BY <1>1, <1>3, <1>5 DEF IsPageOf
<1>7. \A i \in 1..n : page[i].id \in Low
  <2> SUFFICES ASSUME NEW i \in 1..n PROVE page[i].id <= last
    BY <1>5
  <2>1. i = n \/ i < n
    BY <1>3
  <2>2. n \in 1..n
    BY <1>3
  <2>3. i < n => page[i].id < last
    BY <1>4, <1>6, <2>2
  <2>4. page[i].id \in Nat /\ last \in Nat
    BY <1>2, <1>4, <1>5
  <2> QED
    BY <1>4, <2>1, <2>3, <2>4
<1>8. \A i, j \in 1..n : i # j => page[i].id # page[j].id
  <2> SUFFICES ASSUME NEW i \in 1..n, NEW j \in 1..n, i # j PROVE page[i].id # page[j].id
    OBVIOUS
  <2>1. i < j \/ j < i
    BY <1>3
  <2>2. page[i].id \in Nat /\ page[j].id \in Nat
    BY <1>2, <1>5
  <2>3. page[i].id < page[j].id \/ page[j].id < page[i].id
    BY <1>6, <2>1
  <2> QED
    BY <2>2, <2>3
<1>9. \A id \in Low : \E i \in 1..n : page[i].id = id
  <2> SUFFICES ASSUME NEW id \in Low PROVE \E i \in 1..n : page[i].id = id
    OBVIOUS
  <2>1. id \in ids /\ (id = last \/ id < last)
    BY <1>2, <1>4
  <2>2. n \in 1..n
    BY <1>3
  <2>3. CASE id = last
    BY <1>4, <2>2, <2>3
  <2>4. CASE id < last
    <3>1. Retrieval!RowBefore(id, page[n].id)
      BY <1>1, <1>4, <2>1, <2>4
    <3> QED
      BY <1>3, <2>1, <2>2, <3>1 DEF IsPageOf
  <2> QED
    BY <2>1, <2>3, <2>4
<1>10. page \in Seq([id : Low, chunk : {v1[id] : id \in Low}])
  <2> DEFINE All == [id : ids, chunk : {v1[id] : id \in ids}]
             Some == [id : Low, chunk : {v1[id] : id \in Low}]
  <2> HIDE DEF All, Some
  <2>1. page \in Seq(All)
    BY DEF All
  <2>2. \A i \in 1..n : page[i] \in All
    BY <1>3, <2>1
  <2>3. ASSUME NEW i \in 1..n PROVE page[i] \in Some
    <3>1. page[i] = [id |-> page[i].id, chunk |-> page[i].chunk]
      BY <2>2 DEF All
    <3>2. page[i].id \in Low /\ page[i].chunk = v1[page[i].id]
      BY <1>5, <1>7
    <3> HIDE DEF Low
    <3>3. page[i].chunk \in {v1[id] : id \in Low}
      BY <3>2
    <3> QED
      BY <3>1, <3>2, <3>3 DEF Some
  <2>4. page = [i \in 1..n |-> page[i]]
    BY <1>3
  <2>5. page \in Seq(Some)
    BY <1>3, <2>3, <2>4
  <2> QED
    BY <2>5 DEF Some
<1>11. \A i \in DOMAIN page : page[i].id \in Low /\ page[i].chunk = v1[page[i].id]
  BY <1>3, <1>5, <1>7
<1> HIDE DEF Low
<1>12. Lists(page, Low)
  BY <1>3, <1>8, <1>9, <1>10, <1>11 DEF Lists
<1> QED
  BY <1>4, <1>12 DEF Low, last

LEMMA ListsJoin ==
  ASSUME NEW a, NEW b, NEW S, NEW T, Lists(a, S), Lists(b, T), S \cap T = {}
  PROVE  Lists(a \o b, S \cup T)
<1> DEFINE Of(ids) == [id : ids, chunk : {v1[id] : id \in ids}]
           U == S \cup T
           c == a \o b
           m == Len(a)
           n == Len(b)
<1>1. a \in Seq(Of(S)) /\ b \in Seq(Of(T))
  BY DEF Lists
<1>2. \A r : r \in Of(S) \/ r \in Of(T) => r \in Of(U)
  OBVIOUS
<1>3. a \in Seq(Of(U)) /\ b \in Seq(Of(U))
  <2> HIDE DEF Of, U
  <2> QED
    BY <1>1, <1>2
<1>4. /\ c \in Seq(Of(U)) /\ DOMAIN c = 1..(m + n) /\ m \in Nat /\ n \in Nat
      /\ DOMAIN a = 1..m /\ DOMAIN b = 1..n
      /\ \A i \in 1..m : c[i] = a[i]
      /\ \A i \in 1..n : c[m + i] = b[i]
  <2> HIDE DEF Of, U
  <2> QED
    BY <1>3
<1> HIDE DEF c, m, n
<1>5. \A i \in 1..m : c[i].id \in S /\ c[i].chunk = v1[c[i].id]
  BY <1>4 DEF Lists
<1>6. \A i \in 1..n : c[m + i].id \in T /\ c[m + i].chunk = v1[c[m + i].id]
  <2> SUFFICES ASSUME NEW i \in 1..n
               PROVE  c[m + i].id \in T /\ c[m + i].chunk = v1[c[m + i].id]
    OBVIOUS
  <2>1. c[m + i] = b[i]
    BY <1>4
  <2>2. b[i].id \in T /\ b[i].chunk = v1[b[i].id]
    BY <1>4 DEF Lists
  <2> QED
    BY <2>1, <2>2
<1>7. \A i \in 1..(m + n) : i \in 1..m \/ (i - m \in 1..n /\ i = m + (i - m))
  BY <1>4
<1>8. \A i \in 1..(m + n) : c[i].id \in U /\ c[i].chunk = v1[c[i].id]
  BY <1>5, <1>6, <1>7
<1>9. ASSUME NEW i \in 1..(m + n), NEW j \in 1..(m + n), i # j PROVE c[i].id # c[j].id
  <2>1. CASE i \in 1..m /\ j \in 1..m
    <3>1. a[i].id # a[j].id
      BY <1>4, <1>9, <2>1 DEF Lists
    <3> QED
      BY <1>4, <2>1, <3>1
  <2>2. CASE i \in 1..m /\ j \notin 1..m
    BY <1>5, <1>6, <1>7, <2>2
  <2>3. CASE i \notin 1..m /\ j \in 1..m
    BY <1>5, <1>6, <1>7, <2>3
  <2>4. CASE i \notin 1..m /\ j \notin 1..m
    <3> DEFINE k == i - m
               l == j - m
    <3>1. k \in 1..n /\ l \in 1..n /\ k # l /\ i = m + k /\ j = m + l
      BY <1>4, <1>7, <1>9, <2>4
    <3> HIDE DEF k, l
    <3>2. b[k].id # b[l].id
      BY <1>4, <3>1 DEF Lists
    <3>3. c[i] = b[k] /\ c[j] = b[l]
      BY <1>4, <3>1
    <3> QED
      BY <3>2, <3>3
  <2> QED
    BY <2>1, <2>2, <2>3, <2>4
<1>10. ASSUME NEW id \in U PROVE \E i \in 1..(m + n) : c[i].id = id
  <2>1. CASE id \in S
    <3>1. PICK i \in 1..m : a[i].id = id
      BY <1>4, <2>1 DEF Lists
    <3>2. i \in 1..(m + n)
      BY <1>4
    <3> QED
      BY <1>4, <3>1, <3>2
  <2>2. CASE id \in T
    <3>1. PICK i \in 1..n : b[i].id = id
      BY <1>4, <2>2 DEF Lists
    <3>2. m + i \in 1..(m + n)
      BY <1>4
    <3> QED
      BY <1>4, <3>1, <3>2
  <2> QED
    BY <2>1, <2>2
<1> HIDE DEF U
<1>11. Lists(c, U)
  BY <1>4, <1>8, <1>9, <1>10 DEF Lists
<1> QED
  BY <1>11 DEF c, U

-----------------------------------------------------------------------------
(* The steps. *)

LEMMA CandidatesStay ==
  ASSUME v1' = v1, v2' = v2, v3' = v3
  PROVE  /\ Retrieval!Candidates' = Retrieval!Candidates
         /\ \A last : UpTo(last)' = UpTo(last)
         /\ \A rows, ids : Lists(rows, ids)' <=> Lists(rows, ids)
         /\ \A rows : InOrder(rows)' <=> InOrder(rows)
         /\ Retrieval!IsManuscript(v1)' <=> Retrieval!IsManuscript(v1)
<1>1. \A a, b : Retrieval!RowBefore(a, b)' <=> Retrieval!RowBefore(a, b)
  BY DEF Retrieval!RowBefore
<1>2. Retrieval!Candidates' = Retrieval!Candidates
  BY DEF Retrieval!Candidates, Retrieval!Matches
<1> QED
  BY <1>1, <1>2 DEF UpTo, Lists, InOrder, Retrieval!IsManuscript

LEMMA FirstPageReads ==
  ASSUME ReadInv, Retrieval!FetchFirstPage
  PROVE  ReadInv'
<1>1. PICK ids : ids = Retrieval!Candidates
  OBVIOUS
<1>2. PICK page : page = Retrieval!Page(ids)
  OBVIOUS
<1>3. /\ v1' = v1 /\ v2' = v2 /\ v3' = v3 /\ v6' = v6 /\ v5' = page
      /\ v4' = IF Retrieval!FullPage(page) THEN "more" ELSE "found"
  BY <1>1, <1>2 DEF Retrieval!FetchFirstPage
<1>4. Retrieval!IsManuscript(v1) /\ ids \in SUBSET DOMAIN v1 /\ v3 \in {"count", "first", "followed"}
  BY <1>1 DEF ReadInv, Retrieval!Candidates
<1>5. page \in Seq([id : ids, chunk : {v1[id] : id \in ids}]) /\ IsPageOf(page, ids)
  BY <1>2, <1>4, PageIs
<1>6. CASE Retrieval!FullPage(page)
  <2>1. v3 = "count" /\ Len(page) = PageRows /\ page # <<>>
    BY <1>6 DEF Retrieval!FullPage
  <2>2. PICK last : last = Last(page)
    OBVIOUS
  <2>3. last \in ids /\ Lists(page, {id \in ids : id <= last})
    BY <1>4, <1>5, <2>1, <2>2, PageListsLow
  <2>4. Lists(page, UpTo(last))
    BY <1>1, <2>3 DEF UpTo
  <2>5. PICK low : low = UpTo(last)
    OBVIOUS
  <2>6. Lists(page, low)' /\ UpTo(last)' = low
    BY <1>3, <2>4, <2>5, CandidatesStay
  <2>7. Last(v5)' = last
    BY <1>3, <2>2 DEF Last
  <2>8. Lists(v5, UpTo(Last(v5)))'
    BY <1>3, <2>6, <2>7 DEF Lists, UpTo
  <2>9. ListedSoFar'
    BY <1>3, <1>4, <2>1, <2>3, <2>7, <2>8 DEF ListedSoFar
  <2> QED
    BY <1>3, <1>6, <2>1, <2>9, CandidatesStay DEF ReadInv
<1>7. CASE ~Retrieval!FullPage(page)
  <2>1. v3 = "count" => Len(page) < PageRows
    BY <1>5, <1>7 DEF Retrieval!FullPage, IsPageOf
  <2>2. v3 = "count" => Lists(page, ids)
    BY <1>4, <1>5, <2>1, PageLists
  <2>3. Cardinality(ids) <= PageRows => Lists(page, ids) /\ InOrder(page)
    BY <1>4, <1>5, PageLists
  <2>4. /\ Retrieval!Candidates' = ids
        /\ Lists(page, ids)' <=> Lists(page, ids)
        /\ InOrder(page)' <=> InOrder(page)
    BY <1>1, <1>3, CandidatesStay
  <2>5. Lists(page, ids)' <=> Lists(v5, Retrieval!Candidates)'
    BY <1>3, <2>4 DEF Lists
  <2>6. InOrder(page)' <=> InOrder(v5)'
    BY <1>3 DEF InOrder
  <2>7. ListedAll'
    BY <1>3, <2>2, <2>3, <2>4, <2>5, <2>6 DEF ListedAll
  <2> QED
    BY <1>3, <1>7, <2>7, CandidatesStay DEF ReadInv
<1> QED
  BY <1>6, <1>7

LEMMA NextPageReads ==
  ASSUME ReadInv, Retrieval!AppendRemainingChunks
  PROVE  ReadInv'
<1>1. PICK all : all = Retrieval!Candidates
  OBVIOUS
<1>2. PICK last : last = Last(v5)
  OBVIOUS
<1>3. PICK ids : ids = Retrieval!RowsAfter(last)
  OBVIOUS
<1>4. PICK page : page = Retrieval!Page(ids)
  OBVIOUS
<1>5. PICK rows : rows = v5 \o page
  OBVIOUS
<1>6. /\ v1' = v1 /\ v2' = v2 /\ v3' = v3 /\ v6' = v6 /\ v5' = rows /\ v4 = "more"
      /\ v4' = IF Retrieval!FullPage(page) THEN "more" ELSE "found"
  BY <1>2, <1>3, <1>4, <1>5 DEF Retrieval!AppendRemainingChunks, Last
<1>7. Retrieval!IsManuscript(v1) /\ all \in SUBSET DOMAIN v1 /\ v3 = "count" /\ all \in SUBSET Nat
  BY <1>1, <1>6 DEF ReadInv, Retrieval!Candidates, Retrieval!IsManuscript
<1>8. CASE v6
  BY <1>6, <1>7, <1>8, CandidatesStay DEF ReadInv
<1>9. CASE ~v6
  <2>1. v5 # <<>> /\ last \in DOMAIN v1 /\ Lists(v5, UpTo(last))
    BY <1>2, <1>6, <1>9 DEF ReadInv, ListedSoFar
  <2>2. ids = {id \in all : id > last} /\ ids \in SUBSET DOMAIN v1 /\ last \in Nat
    BY <1>1, <1>3, <1>7, <2>1 DEF Retrieval!RowsAfter, Retrieval!IsManuscript
  <2>3. page \in Seq([id : ids, chunk : {v1[id] : id \in ids}]) /\ IsPageOf(page, ids)
    BY <1>4, <1>7, <2>2, PageIs
  <2>4. UpTo(last) \cap ids = {} /\ UpTo(last) \cup ids = all
    BY <1>1, <1>7, <2>2 DEF UpTo
  <2>5. CASE Retrieval!FullPage(page)
    <3>1. Len(page) = PageRows /\ page # <<>>
      BY <2>5 DEF Retrieval!FullPage
    <3>2. PICK next : next = Last(page)
      OBVIOUS
    <3> DEFINE low == {id \in ids : id <= next}
    <3>3. next \in ids /\ Lists(page, low)
      BY <1>7, <2>2, <2>3, <3>1, <3>2, PageListsLow
    <3>4. UpTo(last) \cap low = {}
      BY <2>4
    <3>5. UpTo(last) \cup low = UpTo(next)
      <4>1. next \in Nat /\ last < next /\ next \in all
        BY <1>7, <2>2, <3>3
      <4>2. \A id \in all : id <= next <=> id <= last \/ (id > last /\ id <= next)
        BY <1>7, <2>2, <4>1
      <4> QED
        BY <1>1, <2>2, <4>2 DEF UpTo
    <3> HIDE DEF low
    <3>6. Lists(rows, UpTo(next))
      BY <1>5, <2>1, <3>3, <3>4, <3>5, ListsJoin
    <3>7. rows # <<>> /\ Last(rows) = next
      <4> DEFINE S == [id : UpTo(last), chunk : {v1[id] : id \in UpTo(last)}]
                 T == [id : ids, chunk : {v1[id] : id \in ids}]
                 X == S \cup T
      <4>1. v5 \in Seq(S) /\ page \in Seq(T)
        BY <2>1, <2>3 DEF Lists
      <4> HIDE DEF S, T
      <4>2. v5 \in Seq(X) /\ page \in Seq(X)
        BY <4>1
      <4> HIDE DEF X
      <4>3. Len(v5) \in Nat /\ Len(page) \in Nat \ {0}
        BY <3>1, <4>2
      <4>4. Len(rows) = Len(v5) + Len(page) /\ rows[Len(v5) + Len(page)] = page[Len(page)]
        BY <1>5, <4>3, <4>2
      <4>5. rows \in Seq(X) /\ Len(rows) # 0
        BY <1>5, <4>2, <4>4, <4>3
      <4> QED
        BY <3>2, <4>4, <4>5 DEF Last
    <3>8. PICK upTo : upTo = UpTo(next)
      OBVIOUS
    <3>9. Lists(rows, upTo)' /\ UpTo(next)' = upTo
      BY <1>6, <3>6, <3>8, CandidatesStay
    <3>10. Last(v5)' = next
      BY <1>6, <3>7 DEF Last
    <3>11. Lists(v5, UpTo(Last(v5)))'
      BY <1>6, <3>9, <3>10 DEF Lists, UpTo
    <3>12. ListedSoFar'
      BY <1>6, <2>2, <3>3, <3>7, <3>10, <3>11 DEF ListedSoFar
    <3> QED
      BY <1>6, <1>7, <2>5, <3>12, CandidatesStay DEF ReadInv
  <2>6. CASE ~Retrieval!FullPage(page)
    <3>1. Len(page) < PageRows
      BY <1>7, <2>3, <2>6 DEF Retrieval!FullPage, IsPageOf
    <3>2. Lists(page, ids)
      BY <1>7, <2>2, <2>3, <3>1, PageLists
    <3>3. Lists(rows, all)
      BY <1>5, <2>1, <2>4, <3>2, ListsJoin
    <3>4. Retrieval!Candidates' = all /\ Lists(rows, all)'
      BY <1>1, <1>6, <3>3, CandidatesStay
    <3>5. Lists(v5, Retrieval!Candidates)'
      BY <1>6, <3>4 DEF Lists
    <3>6. ListedAll'
      BY <1>6, <1>7, <3>5 DEF ListedAll
    <3> QED
      BY <1>6, <1>7, <2>6, <3>6, CandidatesStay DEF ReadInv
  <2> QED
    BY <2>5, <2>6
<1> QED
  BY <1>8, <1>9

Resaved(rows, scene, saved, id) ==
  [i \in {o \in DOMAIN rows : rows[o].scene # scene} \cup {id} |->
     IF i = id THEN [saved EXCEPT !.scene = scene] ELSE rows[i]]

\* A save leaves a manuscript.
LEMMA SavesKeepManuscripts ==
  ASSUME NEW rows, Retrieval!IsManuscript(rows), NEW scene \in StoryScenes,
         NEW saved \in SavedChunks, NEW id \in ChunkIds \ DOMAIN rows
  PROVE  Retrieval!IsManuscript(Resaved(rows, scene, saved, id))
<1> DEFINE new == Resaved(rows, scene, saved, id)
           kept == {i \in DOMAIN rows : rows[i].scene # scene}
           chunk == [saved EXCEPT !.scene = scene]
<1>1. saved \in Retrieval!Chunk
  OBVIOUS
<1>2. chunk \in Retrieval!Chunk /\ chunk.scene = scene
  BY <1>1 DEF Retrieval!Chunk
<1> HIDE DEF chunk
<1>3. /\ DOMAIN new = kept \cup {id} /\ id \notin kept /\ kept \in SUBSET DOMAIN rows
      /\ new[id] = chunk /\ \A i \in kept : new[i] = rows[i]
  BY DEF chunk, Resaved
<1> HIDE DEF new
<1>4. IsFiniteSet(kept \cup {id})
  <2>1. IsFiniteSet(DOMAIN rows)
    BY SameCount DEF Retrieval!IsManuscript
  <2>2. IsFiniteSet(kept)
    BY <1>3, <2>1, FS_Subset
  <2> QED
    BY <2>2, FS_AddElement
<1>5. DOMAIN new \subseteq ChunkIds /\ Retrieval!IsFiniteSet(DOMAIN new)
  BY <1>3, <1>4, SameCount DEF Retrieval!IsManuscript
<1>6. \A i \in kept : rows[i] \in Retrieval!Chunk /\ rows[i].scene # scene
  BY <1>3 DEF Retrieval!IsManuscript
<1>7. \A i \in DOMAIN new : new[i] \in Retrieval!Chunk
  BY <1>2, <1>3, <1>6
<1>8. ASSUME NEW a \in DOMAIN new, NEW b \in DOMAIN new, a # b
      PROVE  new[a].scene # new[b].scene \/ new[a].index # new[b].index
  <2>1. CASE a \in kept /\ b \in kept
    <3>1. rows[a].scene # rows[b].scene \/ rows[a].index # rows[b].index
      BY <1>3, <1>8, <2>1 DEF Retrieval!IsManuscript
    <3> QED
      BY <1>3, <2>1, <3>1
  <2>2. CASE a \in kept /\ b = id
    BY <1>2, <1>3, <1>6, <2>2
  <2>3. CASE a = id /\ b \in kept
    BY <1>2, <1>3, <1>6, <2>3
  <2> QED
    BY <1>3, <1>8, <2>1, <2>2, <2>3
<1> QED
  BY <1>5, <1>7, <1>8 DEF Retrieval!IsManuscript, new

LEMMA SaveReads ==
  ASSUME ReadInv, NEW scene \in StoryScenes, NEW saved \in SavedChunks,
         Retrieval!SaveScene(scene, saved)
  PROVE  ReadInv'
<1>1. PICK id \in ChunkIds \ DOMAIN v1 : v1' = Resaved(v1, scene, saved, id)
  BY DEF Retrieval!SaveScene, Resaved
<1>3. /\ v4 # "found" /\ v3' = v3 /\ v4' = v4 /\ v5' = v5
      /\ v6' = (v6 \/ v4 = "more")
  BY DEF Retrieval!SaveScene
<1>4. PICK old, new : old = v1 /\ new = v1'
  OBVIOUS
<1>5. Retrieval!IsManuscript(new)
  <2>1. Retrieval!IsManuscript(old)
    BY <1>4 DEF ReadInv
  <2>2. id \in ChunkIds \ DOMAIN old /\ new = Resaved(old, scene, saved, id)
    BY <1>1, <1>4
  <2> QED
    BY <2>1, <2>2, SavesKeepManuscripts
<1>6. Retrieval!IsManuscript(v1)'
  BY <1>4, <1>5 DEF Retrieval!IsManuscript
<1>7. v6' \in BOOLEAN /\ (v4 = "more" => v6')
  BY <1>3
<1> QED
  BY <1>3, <1>6, <1>7 DEF ReadInv

LEMMA CountsInvStep ==
  ASSUME CountsInv, CountsNext
  PROVE  CountsInv'
<1>1. part' = part /\ part = "retrieval" /\ Retrieval!Next /\ ReadInv
  BY DEF CountsNext, CountsInv
<1>2. ReadInv'
  BY <1>1, FirstPageReads, NextPageReads, SaveReads DEF Retrieval!Next
<1> QED
  BY <1>1, <1>2 DEF CountsInv

LEMMA CountsInvInit ==
  ASSUME CountsInit
  PROVE  CountsInv
BY DEF CountsInit, CountsInv, Retrieval!Init, ReadInv

LEMMA CountsInvStays ==
  ASSUME CountsInv, UNCHANGED countsVars
  PROVE  CountsInv'
<1>1. /\ part' = part /\ v1' = v1 /\ v2' = v2 /\ v3' = v3 /\ v4' = v4 /\ v5' = v5 /\ v6' = v6
  BY DEF countsVars
<1> QED
  BY <1>1 DEF CountsInv, ReadInv, ListedSoFar, ListedAll, Lists, InOrder, Last, UpTo,
              Retrieval!RowBefore, Retrieval!Candidates, Retrieval!Matches,
              Retrieval!IsManuscript

-----------------------------------------------------------------------------
(* The answers. *)

LEMMA CountIsExact ==
  ASSUME Retrieval!IsManuscript(v1), Lists(v5, Retrieval!Candidates)
  PROVE  Retrieval!CountAnswer.total =
           Total([id \in DOMAIN v1 |-> Retrieval!Occurrences(v1[id])], Retrieval!Candidates)
<1> DEFINE I == DOMAIN v5
           F == [i \in I |-> Retrieval!Occurrences(v5[i].chunk)]
           p == [i \in I |-> v5[i].id]
           sc == [i \in I |-> v5[i].chunk.scene]
           f == [id \in DOMAIN v1 |-> Retrieval!Occurrences(v1[id])]
           C == [scene \in StoryScenes |-> Retrieval!CountIn(scene)]
           all == Retrieval!Candidates
           T == Retrieval!Counted
<1>1. Retrieval!CountAnswer.total = Total(C, T)
  BY DEF Retrieval!CountAnswer, Total
<1>2. \A scene \in StoryScenes : C[scene] = Total(F, {i \in I : sc[i] = scene})
  <2> SUFFICES ASSUME NEW scene \in StoryScenes
               PROVE  C[scene] = Total(F, {i \in I : sc[i] = scene})
    OBVIOUS
  <2>1. {i \in I : sc[i] = scene} = {i \in I : v5[i].chunk.scene = scene}
    OBVIOUS
  <2>2. C[scene] = Retrieval!CountIn(scene)
    OBVIOUS
  <2>3. Retrieval!CountIn(scene) = Total(F, {i \in I : v5[i].chunk.scene = scene})
    BY DEF Retrieval!CountIn, Total
  <2> QED
    BY <2>1, <2>2, <2>3
<1>3. T = {scene \in StoryScenes : C[scene] > 0}
  BY DEF Retrieval!Counted
<1>4. IsFiniteSet(I) /\ \A i \in I : p[i] \in all /\ v5[i].chunk = v1[p[i]]
  <2> DEFINE Of == [id : all, chunk : {v1[id] : id \in all}]
  <2> HIDE DEF Of
  <2>1. v5 \in Seq(Of)
    BY DEF Lists, Of
  <2>2. Len(v5) \in Nat /\ I = 1..Len(v5)
    BY <2>1
  <2>3. IsFiniteSet(I)
    BY <2>2, FS_Interval
  <2> QED
    BY <2>3 DEF Lists
<1>5. all \in SUBSET DOMAIN v1
  BY DEF Retrieval!Candidates
<1>6. \A i, j \in I : p[i] = p[j] => i = j
  BY DEF Lists
<1>7. {p[i] : i \in I} = all
  <2>1. \A id \in all : \E i \in I : p[i] = id
    BY DEF Lists
  <2> HIDE DEF p, I, all
  <2> QED
    BY <1>4, <2>1
<1>8. \A i \in I : v1[p[i]] \in Retrieval!Chunk
  BY <1>4, <1>5 DEF Retrieval!IsManuscript
<1>9. \A i \in I : F[i] = f[p[i]] /\ F[i] \in Nat
  <2> SUFFICES ASSUME NEW i \in I PROVE F[i] = f[p[i]] /\ F[i] \in Nat
    OBVIOUS
  <2>1. v1[p[i]].plain \in Nat /\ v1[p[i]].accented \in Nat
    BY <1>8 DEF Retrieval!Chunk
  <2>2. F[i] = Retrieval!Occurrences(v1[p[i]]) /\ f[p[i]] = Retrieval!Occurrences(v1[p[i]])
    BY <1>4, <1>5
  <2> QED
    BY <2>1, <2>2 DEF Retrieval!Occurrences
<1>10. \A i \in I : sc[i] \in StoryScenes
  BY <1>4, <1>8 DEF Retrieval!Chunk
<1>11. IsFiniteSet(StoryScenes)
  BY SameCount
<1> HIDE DEF I, F, p, sc, f, C, all, T
<1>12. Total(F, I) = Total(f, all)
  BY <1>4, <1>6, <1>7, <1>9, TotalAlong
<1>13. /\ \A scene \in StoryScenes : C[scene] \in Nat
       /\ Total(C, StoryScenes) = Total(F, {i \in I : sc[i] \in StoryScenes})
  <2>1. NatOn(F, I)
    BY <1>9 DEF NatOn
  <2>2. IsFiniteSet(I)
    BY <1>4
  <2>3. AreGroups(F, I, sc, StoryScenes, C)
    BY <1>2 DEF AreGroups
  <2> QED
    BY <1>11, <2>1, <2>2, <2>3, TotalOfGroups
<1>14. {i \in I : sc[i] \in StoryScenes} = I
  BY <1>10
<1>15. Total(C, StoryScenes) = Total(C, T)
  <2> DEFINE Z == StoryScenes \ T
  <2>1. T \in SUBSET StoryScenes /\ Z \in SUBSET (StoryScenes \ T) /\ T \cup Z = StoryScenes
    BY <1>3
  <2>2. \A scene \in Z : C[scene] = 0
    BY <1>3, <1>13
  <2> HIDE DEF Z
  <2>3. IsFiniteSet(Z)
    BY <1>11, <2>1, FS_Subset
  <2>4. Total(C, Z) = 0
    BY <2>2, <2>3, TotalOfZeros
  <2>5. Total(C, T \cup Z) = Total(C, T) + Total(C, Z)
    <3>1. NatOn(C, StoryScenes)
      BY <1>13 DEF NatOn
    <3>2. Apart(StoryScenes, T, Z)
      BY <2>1 DEF Apart
    <3> QED
      BY <1>11, <3>1, <3>2, TotalJoins
  <2>6. Total(C, T) \in Nat
    BY <1>11, <1>13, <2>1, TotalIs
  <2> QED
    BY <2>1, <2>4, <2>5, <2>6
<1>16. Total(C, T) = Total(f, all)
  BY <1>12, <1>13, <1>14, <1>15
<1> QED
  BY <1>1, <1>16 DEF f, all

LEMMA FirstIsFirst ==
  ASSUME Retrieval!IsManuscript(v1), v3 # "count",
         Lists(v5, Retrieval!Candidates), InOrder(v5), v5 # <<>>
  PROVE  /\ Retrieval!FirstMention \in Retrieval!Candidates
         /\ \A id \in Retrieval!Candidates \ {Retrieval!FirstMention} :
              Retrieval!Earlier(Retrieval!FirstMention, id)
<1> DEFINE I == DOMAIN v5
           sc(i) == v5[i].chunk.scene
           first == Retrieval!Min({sc(i) : i \in I})
           Firsts == {i \in I : sc(i) = first}
           k == Retrieval!Min(Firsts)
<1>1. Retrieval!FirstMention = v5[k].id
  BY DEF Retrieval!FirstMention
<1>2. I \in SUBSET Nat /\ I # {}
  <2> DEFINE Of == [id : Retrieval!Candidates, chunk : {v1[id] : id \in Retrieval!Candidates}]
  <2> HIDE DEF Of
  <2>1. v5 \in Seq(Of)
    BY DEF Lists, Of
  <2>2. Len(v5) \in Nat \ {0} /\ I = 1..Len(v5)
    BY <2>1
  <2> HIDE DEF I
  <2> QED
    BY <2>2
<1>3. \A i \in I : /\ v5[i].id \in DOMAIN v1 /\ sc(i) = v1[v5[i].id].scene
                   /\ v1[v5[i].id] \in Retrieval!Chunk
  BY DEF Lists, Retrieval!Candidates, Retrieval!IsManuscript
<1>4. \A i \in I : sc(i) \in StoryScenes /\ sc(i) \in Nat
  BY <1>3 DEF Retrieval!Chunk
<1>5. first \in Nat /\ (\E i \in I : sc(i) = first) /\ \A i \in I : first <= sc(i)
  <2> DEFINE Of == {sc(i) : i \in I}
  <2>1. Of \in SUBSET Nat /\ Of # {} /\ \A x \in Of : \E i \in I : sc(i) = x
    BY <1>2, <1>4
  <2>2. \A i \in I : sc(i) \in Of
    OBVIOUS
  <2>3. first = Retrieval!Min(Of)
    OBVIOUS
  <2> HIDE DEF Of, sc, first
  <2>4. first \in Of /\ \A x \in Of : first <= x
    BY <2>1, <2>3, LeastIs
  <2> QED
    BY <2>1, <2>2, <2>4
<1> HIDE DEF first
<1>6. k \in I /\ sc(k) = first /\ \A i \in I : sc(i) = first => k <= i
  <2>1. Firsts \in SUBSET Nat /\ Firsts # {}
    BY <1>2, <1>5
  <2>2. k = Retrieval!Min(Firsts)
    OBVIOUS
  <2> HIDE DEF k
  <2>3. k \in Firsts /\ \A x \in Firsts : k <= x
    <3> HIDE DEF Firsts
    <3> QED
      BY <2>1, <2>2, LeastIs
  <2> QED
    BY <2>3
<1> HIDE DEF k, sc
<1>7. ASSUME NEW j \in I, j # k
      PROVE  Retrieval!Earlier(v5[k].id, v5[j].id)
  <2>1. sc(k) = v1[v5[k].id].scene /\ sc(j) = v1[v5[j].id].scene
    BY <1>3, <1>6
  <2>2. CASE sc(j) = first
    <3>1. k < j
      BY <1>2, <1>6, <1>7, <2>2
    <3>2. Retrieval!RowBefore(v5[k].id, v5[j].id)
      BY <1>6, <3>1 DEF InOrder
    <3>3. v1[v5[k].id].scene = v1[v5[j].id].scene
      BY <1>6, <2>1, <2>2
    <3>4. SceneKeys[v1[v5[k].id].scene] \in Nat
      BY <1>4, <1>6, <2>1
    <3>5. v1[v5[k].id].index < v1[v5[j].id].index
      BY <3>2, <3>3, <3>4 DEF Retrieval!RowBefore
    <3> QED
      BY <3>3, <3>5 DEF Retrieval!Earlier
  <2>3. CASE sc(j) # first
    <3>1. sc(k) < sc(j)
      BY <1>4, <1>5, <1>6, <2>3
    <3> QED
      BY <2>1, <3>1 DEF Retrieval!Earlier
  <2> QED
    BY <2>2, <2>3
<1>8. v5[k].id \in Retrieval!Candidates
  BY <1>6 DEF Lists
<1> QED
  <2> SUFFICES ASSUME NEW id \in Retrieval!Candidates, id # v5[k].id
               PROVE  Retrieval!Earlier(v5[k].id, id)
    BY <1>1, <1>8
  <2>1. PICK j \in I : v5[j].id = id
    BY DEF Lists
  <2> QED
    BY <1>7, <2>1

LEMMA CountsInvAnswers ==
  ASSUME CountsInv
  PROVE  AnswersAreExact
<1> SUFFICES ASSUME ReadInv, v4 = "found", ~v6
             PROVE  Retrieval!AnswersAreExact
  BY DEF AnswersAreExact, CountsInv, Retrieval!AnswersAreExact
<1>1. Retrieval!IsManuscript(v1) /\ ListedAll
  BY DEF ReadInv
<1>2. ASSUME v3 = "count"
      PROVE  Retrieval!CountAnswer.total =
               Total([id \in DOMAIN v1 |-> Retrieval!Occurrences(v1[id])], Retrieval!Candidates)
  BY <1>1, <1>2, CountIsExact DEF ListedAll
<1>3. ASSUME v3 # "count", v5 # <<>>, Retrieval!Cardinality(Retrieval!Candidates) <= PageRows
      PROVE  /\ Retrieval!FirstMention \in Retrieval!Candidates
             /\ \A id \in Retrieval!Candidates \ {Retrieval!FirstMention} :
                  Retrieval!Earlier(Retrieval!FirstMention, id)
  <2>1. Lists(v5, Retrieval!Candidates) /\ InOrder(v5)
    BY <1>1, <1>3, SameCount DEF ListedAll
  <2> QED
    BY <1>1, <1>3, <2>1, FirstIsFirst
<1>4. ASSUME v3 # "count"
      PROVE  \A id : id \in Retrieval!Candidates <=>
               /\ id \in DOMAIN v1
               /\ v1[id].plain > 0 \/ (v3 = "followed" /\ v1[id].earlier)
  BY <1>4 DEF Retrieval!Candidates, Retrieval!Matches
<1> DEFINE first == Retrieval!FirstMention
           Before(one, other) == Retrieval!Earlier(one, other)
           Few == Retrieval!Cardinality(Retrieval!Candidates) <= PageRows
<1>5. ASSUME v3 # "count", v5 # <<>>, Few
      PROVE  /\ \A id \in DOMAIN v1 \ {first} :
                  v1[id].plain > 0 \/ (v3 = "followed" /\ v1[id].earlier) => Before(first, id)
             /\ v1[first].plain > 0 \/ (v3 = "followed" /\ v1[first].earlier)
  <2>1. first \in Retrieval!Candidates /\ \A id \in Retrieval!Candidates \ {first} : Before(first, id)
    BY <1>3, <1>5
  <2> HIDE DEF first, Before
  <2> QED
    BY <1>4, <1>5, <2>1
<1> QED
  BY <1>2, <1>5 DEF Retrieval!AnswersAreExact, Total

\* ChatRetrieval: for every manuscript, and every page size, a count that no save
\* disturbed covers every chunk found, and a first mention is the first in the book of
\* the words searched: that of the question, and those of the last two questions before
\* it (retrieveSources, buildChunkWhere, rankManuscriptSources).
THEOREM AnswersAreAlwaysExact == CountsSpec => []AnswersAreExact
<1>1. CountsSpec => []CountsInv
  BY CountsInvInit, CountsInvStep, CountsInvStays, PTL DEF CountsSpec
<1> QED
  BY <1>1, CountsInvAnswers, PTL
=============================================================================
