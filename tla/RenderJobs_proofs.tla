--------------------------- MODULE RenderJobs_proofs ---------------------------
(***************************************************************************)
(* What RenderJobs satisfies for every number of jobs, relays and workers, *)
(* for both kinds.  IInv adds to the properties what a relay has in hand   *)
(* (RelayInv), what the queue and its lock say of a run (QueueInv, RunInv, *)
(* LockInv), and what a run knows about its row at each step (ImageInv,    *)
(* ClaimInv, FaultFreeInv).                                                *)
(*                                                                         *)
(* Then, apart from these, what MCAnswers satisfies: the answers of the    *)
(* chat (ExchangeInv, over v1 the thread, v2 its messages, v3 the requests *)
(* in flight) and the selection of their sources (SelectionInv); and what  *)
(* MCManuscript satisfies: the chunks of a text (Extends, what each round  *)
(* of the loops does to a builder) and the text of a book that is          *)
(* imported (ReadInv).  What these compute is recursive: LoopExists and    *)
(* LoopStays say that such a function is there and keeps its type,         *)
(* CountedUp what it reaches.                                              *)
(***************************************************************************)
EXTENDS RenderJobs, MCAnswers, MCManuscript, FiniteSetTheorems, WellFoundedInduction, TLAPS

\* An event is recorded, then read, then enqueued, then marked.
RelayInv ==
  /\ enqueued \subseteq Requested
  /\ processed \subseteq enqueued
  /\ \A p \in Pollers : batch[p] \subseteq Requested
  /\ \A p \in Pollers : marking[p] # NoJob => marking[p] \in enqueued
  /\ \A j \in Jobs : queue[j] # "none" => j \in enqueued
  /\ \A j \in Jobs : status[j] = "NONE" <=> order[j] = 0

\* A job that is not at its end has attempts and stalls left.
QueueInv ==
  \A j \in Jobs : /\ holder[j] # NoWorker => queue[j] = "active"
                  /\ queue[j] \notin {"completed", "failed"} =>
                       tries[j] < Attempts /\ stalls[j] <= MaxStalledCount

RunInv ==
  \A w \in Workers : /\ At(w, "idle") <=> Job(w) = NoJob
                     /\ Job(w) # NoJob => queue[Job(w)] # "none"

\* Until a lock is lost, a worker holds the lock of the job it runs.
LockInv == ~doubled => \A w \in Workers : Job(w) # NoJob => HoldsLock(w)

FileInv == /\ \A w \in Workers : At(w, "commit") => Job(w) \in uploaded
           /\ CompletedHasFile

\* A run that passed the claim works on a job without an image.
ImageInv ==
  /\ \A j \in Jobs \ ImageJobs : images[j] = 0
  /\ ~doubled => \A w \in Workers :
       run[w].pc \in {"render", "upload", "commit"} => images[Job(w)] = 0
  /\ OneImagePerJob

\* A run that has claimed its job.
Working(w) == run[w].pc \in {"render", "upload", "commit", "record"}

\* What the row says while a run works on it, and when the run returns.
ClaimInv ==
  (~doubled /\ ~uncertain) =>
    /\ \A w \in Workers : Working(w) => status[Job(w)] = "PROCESSING"
    /\ \A w \in Workers : At(w, "return") => status[Job(w)] = "COMPLETED"
    /\ \A j \in Jobs : images[j] # 0 => status[j] = "COMPLETED"

\* Without faults an active job has a worker that runs it, and only a recorded
\* failure is thrown on.
FaultFreeInv ==
  faults = 0 =>
    /\ ~doubled /\ ~uncertain
    /\ \A j \in Jobs : queue[j] = "active" =>
         holder[j] \in Workers /\ Job(holder[j]) = j
    /\ \A w \in Workers : At(w, "throw") => status[Job(w)] = "FAILED"

IInv == /\ TypeOK
        /\ RelayInv
        /\ QueueInv
        /\ RunInv
        /\ LockInv
        /\ FileInv
        /\ ImageInv
        /\ ClaimInv
        /\ FaultFreeInv
        /\ QueueAgreesWithRow

-----------------------------------------------------------------------------
\* A poll returns recorded events.
LEMMA OldestPendingRequested == OldestPending \subseteq Requested
BY DEF OldestPending, Pending

\* A position in the createdAt order is a number.
LEMMA RequestedCardinality == Cardinality(Requested) \in Nat
BY JobsAssumption, FS_Subset, FS_CardinalityType DEF Requested

\* The initial state satisfies the invariant.
LEMMA InitIInv == Init => IInv
<1> SUFFICES ASSUME Init PROVE IInv
  OBVIOUS
<1> USE BoundsAssumption, JobsAssumption, WorkersAssumption DEF Init
<1>1. TypeOK
  <2>1. /\ 0 \in 0..Attempts
        /\ 0 \in 0..(MaxStalledCount + 1)
        /\ 0 \in 0..FaultBudget
    OBVIOUS
  <2>2. run \in [Workers -> [pc : Phases, job : Jobs \cup {NoJob}]]
    BY DEF Phases, Idle
  <2> QED
    BY <2>1, <2>2 DEF TypeOK, RowStatus
<1>2. RelayInv /\ QueueInv
  BY DEF RelayInv, QueueInv, Requested
<1>3. RunInv /\ LockInv
  BY DEF RunInv, LockInv, Idle, At, Job
<1>4. FileInv /\ ImageInv
  BY DEF FileInv, CompletedHasFile, ImageInv, OneImagePerJob, Idle, At, Job
<1>5. ClaimInv /\ FaultFreeInv /\ QueueAgreesWithRow
  BY DEF ClaimInv, Working, FaultFreeInv, QueueAgreesWithRow, Idle, At, Job
<1> QED
  BY <1>1, <1>2, <1>3, <1>4, <1>5 DEF IInv

-----------------------------------------------------------------------------
\* Every step preserves the invariant.
LEMMA NextIInv == IInv /\ [Next]_vars => IInv'
<1> SUFFICES ASSUME IInv, [Next]_vars PROVE IInv'
  OBVIOUS
<1> USE BoundsAssumption, JobsAssumption, WorkersAssumption
    DEF IInv, vars, relayVars, queueVars, rowVars, historyVars, At, Job, HoldsLock, GoTo
<1>1. ASSUME NEW j \in Jobs, Request(j) PROVE IInv'
  <2> USE <1>1 DEF Request
  <2>1. TypeOK'
    BY RequestedCardinality DEF TypeOK, RowStatus, Phases, Idle, QueueInv, RunInv
  <2>2. RelayInv'
    <3>1. order'[j] # 0 /\ order' = [order EXCEPT ![j] = order'[j]]
      BY RequestedCardinality DEF TypeOK
    <3>2. Requested \subseteq Requested'
      BY RequestedCardinality DEF TypeOK, Requested
    <3>3. \A k \in Jobs : status'[k] = "NONE" <=> order'[k] = 0
      BY <3>1 DEF TypeOK, RelayInv
    <3> QED
      BY <3>2, <3>3 DEF RelayInv
  <2>3. FileInv'
    BY DEF TypeOK, FileInv, CompletedHasFile, RunInv, Idle
  <2>4. ClaimInv'
    BY DEF TypeOK, ClaimInv, Working, ImageInv, OneImagePerJob, LockInv, RelayInv,
       RunInv, Idle, Requested
  <2>5. FaultFreeInv'
    <3>1. \A w \in Workers : Job(w) # j
      BY DEF TypeOK, RunInv, RelayInv, Requested
    <3> QED
      BY <3>1 DEF TypeOK, FaultFreeInv, RunInv
  <2>6. QueueAgreesWithRow'
    BY DEF TypeOK, QueueAgreesWithRow, FaultFreeInv, ClaimInv, Working, LockInv,
       QueueInv, RunInv, RelayInv
  <2>7. QueueInv' /\ RunInv' /\ LockInv' /\ ImageInv'
    BY DEF QueueInv, RunInv, LockInv, ImageInv, OneImagePerJob
  <2> QED
    BY <2>1, <2>2, <2>3, <2>4, <2>5, <2>6, <2>7 DEF IInv
<1>2. ASSUME NEW p \in Pollers, Poll(p) PROVE IInv'
  <2> USE <1>2 DEF Poll
  <2>1. TypeOK'
    <3>1. OldestPending \subseteq Jobs
      BY OldestPendingRequested DEF Requested
    <3> QED
      BY <3>1 DEF TypeOK, RowStatus, Phases
  <2>2. RelayInv'
    BY OldestPendingRequested DEF TypeOK, RelayInv, Requested, RunInv
  <2>3. /\ QueueInv'
        /\ RunInv'
        /\ LockInv'
        /\ FileInv'
        /\ ImageInv'
        /\ ClaimInv'
        /\ FaultFreeInv'
        /\ QueueAgreesWithRow'
    BY DEF QueueInv, RunInv, LockInv, FileInv, CompletedHasFile, ImageInv,
       OneImagePerJob, ClaimInv, Working, FaultFreeInv, QueueAgreesWithRow
  <2> QED
    BY <2>1, <2>2, <2>3 DEF IInv
<1>3. ASSUME NEW p \in Pollers, NEW j \in Jobs, Enqueue(p, j) PROVE IInv'
  <2> USE <1>3 DEF Enqueue, NextEvent
  <2>1. TypeOK'
    BY DEF TypeOK, RowStatus, Phases, Idle, QueueInv, RunInv
  <2>2. RelayInv'
    BY DEF TypeOK, RelayInv, Requested, RunInv
  <2>3. QueueInv'
    BY DEF TypeOK, QueueInv, RunInv
  <2>4. RunInv'
    BY DEF TypeOK, RunInv, Idle
  <2>5. FaultFreeInv'
    BY DEF TypeOK, FaultFreeInv, LockInv, QueueInv, RunInv, Idle
  <2>6. QueueAgreesWithRow'
    BY DEF TypeOK, QueueAgreesWithRow, FaultFreeInv, ClaimInv, Working, LockInv,
       QueueInv, RunInv, RelayInv
  <2>7. LockInv' /\ FileInv' /\ ImageInv' /\ ClaimInv'
    BY DEF LockInv, FileInv, CompletedHasFile, ImageInv, OneImagePerJob, ClaimInv,
       Working
  <2> QED
    BY <2>1, <2>2, <2>3, <2>4, <2>5, <2>6, <2>7 DEF IInv
<1>4. ASSUME NEW p \in Pollers, Mark(p) PROVE IInv'
  <2> USE <1>4 DEF Mark
  <2>1. TypeOK'
    BY DEF TypeOK, RowStatus, Phases, Idle, QueueInv, RunInv
  <2>2. RelayInv'
    BY DEF TypeOK, RelayInv, Requested, RunInv
  <2>3. /\ QueueInv'
        /\ RunInv'
        /\ LockInv'
        /\ FileInv'
        /\ ImageInv'
        /\ ClaimInv'
        /\ FaultFreeInv'
        /\ QueueAgreesWithRow'
    BY DEF QueueInv, RunInv, LockInv, FileInv, CompletedHasFile, ImageInv,
       OneImagePerJob, ClaimInv, Working, FaultFreeInv, QueueAgreesWithRow
  <2> QED
    BY <2>1, <2>2, <2>3 DEF IInv
<1>5. ASSUME NEW p \in Pollers, NEW j \in Jobs, RelayFails(p, j) PROVE IInv'
  <2> USE <1>5 DEF RelayFails, NextEvent, Fault
  <2>1. TypeOK'
    BY DEF TypeOK, RowStatus, Phases, Idle, QueueInv, RunInv
  <2>2. RelayInv'
    BY DEF TypeOK, RelayInv, Requested, RunInv
  <2>3. FaultFreeInv'
    BY DEF TypeOK, FaultFreeInv, LockInv, QueueInv, RunInv, Idle
  <2>4. QueueAgreesWithRow'
    BY DEF TypeOK, QueueAgreesWithRow, FaultFreeInv, ClaimInv, Working, LockInv,
       QueueInv, RunInv, RelayInv
  <2>5. QueueInv' /\ RunInv' /\ LockInv' /\ FileInv' /\ ImageInv' /\ ClaimInv'
    BY DEF QueueInv, RunInv, LockInv, FileInv, CompletedHasFile, ImageInv,
       OneImagePerJob, ClaimInv, Working
  <2> QED
    BY <2>1, <2>2, <2>3, <2>4, <2>5 DEF IInv
<1>6. ASSUME NEW w \in Workers, NEW j \in Jobs, Take(w, j) PROVE IInv'
  <2> USE <1>6 DEF Take
  <2>1. TypeOK'
    BY DEF TypeOK, RowStatus, Phases, Idle, QueueInv, RunInv
  <2>2. RelayInv'
    BY DEF TypeOK, RelayInv, Requested, RunInv
  <2>3. QueueInv'
    BY DEF TypeOK, QueueInv, RunInv
  <2>4. RunInv'
    BY DEF TypeOK, RunInv, Idle
  <2>5. LockInv'
    BY DEF TypeOK, LockInv, QueueInv, RunInv, Idle
  <2>6. FileInv'
    BY DEF TypeOK, FileInv, CompletedHasFile, RunInv, Idle
  <2>7. ImageInv'
    BY DEF TypeOK, ImageInv, OneImagePerJob, LockInv, RunInv, Idle
  <2>8. ClaimInv'
    BY DEF TypeOK, ClaimInv, Working, ImageInv, OneImagePerJob, LockInv, RelayInv,
       RunInv, Idle, Requested
  <2>9. FaultFreeInv'
    BY DEF TypeOK, FaultFreeInv, LockInv, QueueInv, RunInv, Idle
  <2>10. QueueAgreesWithRow'
    BY DEF TypeOK, QueueAgreesWithRow, FaultFreeInv, ClaimInv, Working, LockInv,
       QueueInv, RunInv, RelayInv
  <2> QED
    BY <2>1, <2>2, <2>3, <2>4, <2>5, <2>6, <2>7, <2>8, <2>9, <2>10 DEF IInv
<1>7. ASSUME NEW w \in Workers, Claim(w) PROVE IInv'
  <2> USE <1>7 DEF Claim, Claimable
  <2>1. TypeOK'
    <3>1. run' \in [Workers -> [pc : Phases, job : Jobs \cup {NoJob}]]
      BY DEF TypeOK, Phases
    <3>2. status' \in [Jobs -> RowStatus]
      BY DEF TypeOK, RowStatus
    <3> QED
      BY <3>1, <3>2 DEF TypeOK
  <2>2. RelayInv'
    BY DEF TypeOK, RelayInv, Requested, RunInv
  <2>3. RunInv'
    <3>1. \A v \in Workers : v # w => run'[v] = run[v]
      BY DEF TypeOK
    <3>2. run'[w].job = run[w].job /\ run'[w].pc \in {"render", "return"}
      BY DEF TypeOK
    <3> QED
      BY <3>1, <3>2 DEF RunInv
  <2>4. LockInv'
    BY DEF TypeOK, LockInv, QueueInv, RunInv, Idle
  <2>5. FileInv'
    BY DEF TypeOK, FileInv, CompletedHasFile, RunInv, Idle
  <2>6. ImageInv'
    <3>1. \A v \in Workers : v # w => run'[v] = run[v]
      BY DEF TypeOK
    <3>2. /\ run'[w].job = run[w].job
          /\ run'[w].pc = "return" \/ (run'[w].pc = "render" /\ Claimable(Job(w)))
      BY DEF TypeOK
    <3>3. Job(w) \in Jobs
      BY DEF TypeOK, RunInv
    <3> QED
      BY <3>1, <3>2, <3>3, ImageJobsAssumption DEF ImageInv, OneImagePerJob
  <2>7. ClaimInv'
    <3>1. \A v \in Workers : v # w => run'[v] = run[v]
      BY DEF TypeOK
    <3>2. run'[w].job = run[w].job
      BY DEF TypeOK
    <3>3. Job(w) \in Jobs /\ status[Job(w)] # "NONE"
      BY DEF TypeOK, RunInv, RelayInv, Requested
    <3>4. ~doubled => \A v \in Workers : v # w => Job(v) # Job(w)
      BY <3>3 DEF LockInv
    <3>5. CASE Claimable(Job(w))
      <4>1. run'[w].pc = "render" /\ status' = [status EXCEPT ![Job(w)] = "PROCESSING"]
        BY <3>5 DEF TypeOK
      <4>2. ~doubled /\ ~uncertain => images[Job(w)] = 0
        BY <3>3, <3>5, ImageJobsAssumption DEF TypeOK, ImageInv
      <4>3. ~doubled /\ ~uncertain =>
             \A v \in Workers : Working(v)' => status'[Job(v)'] = "PROCESSING"
        <5>1. status'[Job(w)] = "PROCESSING"
          BY <3>3, <4>1 DEF TypeOK
        <5>2. \A v \in Workers : v # w => (Working(v)' => Working(v)) /\ Job(v)' = Job(v)
          BY <3>1 DEF Working
        <5>3. \A k \in Jobs : k # Job(w) => status'[k] = status[k]
          BY <4>1 DEF TypeOK
        <5>4. \A v \in Workers : Working(v) => Job(v) \in Jobs
          BY DEF TypeOK, RunInv, Working
        <5> QED
          BY <3>2, <3>4, <5>1, <5>2, <5>3, <5>4 DEF ClaimInv
      <4>4. ~doubled /\ ~uncertain =>
             \A v \in Workers : At(v, "return")' => status'[Job(v)'] = "COMPLETED"
        <5>1. \A v \in Workers : At(v, "return")' => v # w /\ run'[v] = run[v]
          BY <3>1, <4>1
        <5>2. \A k \in Jobs : k # Job(w) => status'[k] = status[k]
          BY <4>1 DEF TypeOK
        <5>3. \A v \in Workers : At(v, "return") => Job(v) \in Jobs
          BY DEF TypeOK, RunInv
        <5> QED
          BY <3>4, <5>1, <5>2, <5>3 DEF ClaimInv
      <4>5. ~doubled /\ ~uncertain => \A k \in Jobs : images[k] # 0 => status'[k] = "COMPLETED"
        BY <3>3, <4>1, <4>2 DEF TypeOK, ClaimInv
      <4> QED
        BY <4>3, <4>4, <4>5 DEF ClaimInv
    <3>6. CASE ~Claimable(Job(w))
      <4>1. run'[w].pc = "return" /\ status' = status
        BY <3>6 DEF TypeOK
      <4>2. ~doubled /\ ~uncertain => status[Job(w)] = "COMPLETED"
        BY <3>3, <3>6 DEF TypeOK, RowStatus, ClaimInv
      <4> QED
        BY <3>1, <3>2, <4>1, <4>2 DEF ClaimInv, Working
    <3> QED
      BY <3>5, <3>6
  <2>8. FaultFreeInv'
    <3>1. \A v \in Workers : run'[v].job = run[v].job
      <4>1. \A v \in Workers : v # w => run'[v] = run[v]
        BY DEF TypeOK
      <4>2. run'[w].job = run[w].job
        BY DEF TypeOK
      <4> QED
        BY <4>1, <4>2
    <3>2. \A v \in Workers : run'[v].pc = "throw" => v # w /\ run[v].pc = "throw"
      BY DEF TypeOK
    <3>3. \A j \in Jobs : j # Job(w) => status'[j] = status[j]
      BY DEF TypeOK
    <3>4. \A v \in Workers : run[v].pc = "throw" => Job(v) \in Jobs
      BY DEF TypeOK, RunInv
    <3>5. ~doubled => \A v \in Workers : v # w /\ Job(v) \in Jobs => Job(v) # Job(w)
      BY DEF LockInv, RunInv, TypeOK
    <3> QED
      BY <3>1, <3>2, <3>3, <3>4, <3>5 DEF TypeOK, FaultFreeInv
  <2>9. QueueAgreesWithRow'
    BY DEF TypeOK, QueueAgreesWithRow, FaultFreeInv, ClaimInv, Working, LockInv,
       QueueInv, RunInv, RelayInv
  <2>10. QueueInv'
    BY DEF QueueInv
  <2> QED
    BY <2>1, <2>2, <2>3, <2>4, <2>5, <2>6, <2>7, <2>8, <2>9, <2>10 DEF IInv
<1>8. ASSUME NEW w \in Workers, Render(w) PROVE IInv'
  <2> USE <1>8 DEF Render
  <2>1. TypeOK'
    BY DEF TypeOK, RowStatus, Phases, Idle, QueueInv, RunInv
  <2>2. RunInv'
    BY DEF TypeOK, RunInv, Idle
  <2>3. LockInv'
    BY DEF TypeOK, LockInv, QueueInv, RunInv, Idle
  <2>4. FileInv'
    BY DEF TypeOK, FileInv, CompletedHasFile, RunInv, Idle
  <2>5. ImageInv'
    BY DEF TypeOK, ImageInv, OneImagePerJob, LockInv, RunInv, Idle
  <2>6. ClaimInv'
    BY DEF TypeOK, ClaimInv, Working, ImageInv, OneImagePerJob, LockInv, RelayInv,
       RunInv, Idle, Requested
  <2>7. FaultFreeInv'
    BY DEF TypeOK, FaultFreeInv, LockInv, QueueInv, RunInv, Idle
  <2>8. RelayInv' /\ QueueInv' /\ QueueAgreesWithRow'
    BY DEF RelayInv, Requested, QueueInv, QueueAgreesWithRow
  <2> QED
    BY <2>1, <2>2, <2>3, <2>4, <2>5, <2>6, <2>7, <2>8 DEF IInv
<1>9. ASSUME NEW w \in Workers, Upload(w) PROVE IInv'
  <2> USE <1>9 DEF Upload
  <2>1. TypeOK'
    BY DEF TypeOK, RowStatus, Phases, Idle, QueueInv, RunInv
  <2>2. RunInv'
    BY DEF TypeOK, RunInv, Idle
  <2>3. LockInv'
    BY DEF TypeOK, LockInv, QueueInv, RunInv, Idle
  <2>4. FileInv'
    BY DEF TypeOK, FileInv, CompletedHasFile, RunInv, Idle
  <2>5. ImageInv'
    BY DEF TypeOK, ImageInv, OneImagePerJob, LockInv, RunInv, Idle
  <2>6. ClaimInv'
    BY DEF TypeOK, ClaimInv, Working, ImageInv, OneImagePerJob, LockInv, RelayInv,
       RunInv, Idle, Requested
  <2>7. FaultFreeInv'
    BY DEF TypeOK, FaultFreeInv, LockInv, QueueInv, RunInv, Idle
  <2>8. RelayInv' /\ QueueInv' /\ QueueAgreesWithRow'
    BY DEF RelayInv, Requested, QueueInv, QueueAgreesWithRow
  <2> QED
    BY <2>1, <2>2, <2>3, <2>4, <2>5, <2>6, <2>7, <2>8 DEF IInv
<1>10. ASSUME NEW w \in Workers, Commit(w) PROVE IInv'
  <2> USE <1>10 DEF Commit, Completed
  <2>1. TypeOK'
    BY DEF TypeOK, RowStatus, Phases, Idle, QueueInv, RunInv
  <2>2. RelayInv'
    BY DEF TypeOK, RelayInv, Requested, RunInv
  <2>3. RunInv'
    BY DEF TypeOK, RunInv, Idle
  <2>4. LockInv'
    BY DEF TypeOK, LockInv, QueueInv, RunInv, Idle
  <2>5. FileInv'
    BY DEF TypeOK, FileInv, CompletedHasFile, RunInv, Idle
  <2>6. ImageInv'
    BY DEF TypeOK, ImageInv, OneImagePerJob, LockInv, RunInv, Idle
  <2>7. ClaimInv'
    BY DEF TypeOK, ClaimInv, Working, ImageInv, OneImagePerJob, LockInv, RelayInv,
       RunInv, Idle, Requested
  <2>8. FaultFreeInv'
    BY DEF TypeOK, FaultFreeInv, LockInv, QueueInv, RunInv, Idle
  <2>9. QueueAgreesWithRow'
    BY DEF TypeOK, QueueAgreesWithRow, FaultFreeInv, ClaimInv, Working, LockInv,
       QueueInv, RunInv, RelayInv
  <2>10. QueueInv'
    BY DEF QueueInv
  <2> QED
    BY <2>1, <2>2, <2>3, <2>4, <2>5, <2>6, <2>7, <2>8, <2>9, <2>10 DEF IInv
<1>11. ASSUME NEW w \in Workers, CommitUnanswered(w) PROVE IInv'
  <2> USE <1>11 DEF CommitUnanswered, Completed, Fault
  <2>1. TypeOK'
    BY DEF TypeOK, RowStatus, Phases, Idle, QueueInv, RunInv
  <2>2. RelayInv'
    BY DEF TypeOK, RelayInv, Requested, RunInv
  <2>3. RunInv'
    BY DEF TypeOK, RunInv, Idle
  <2>4. LockInv'
    BY DEF TypeOK, LockInv, QueueInv, RunInv, Idle
  <2>5. FileInv'
    BY DEF TypeOK, FileInv, CompletedHasFile, RunInv, Idle
  <2>6. ImageInv'
    BY DEF TypeOK, ImageInv, OneImagePerJob, LockInv, RunInv, Idle
  <2>7. ClaimInv'
    BY DEF TypeOK, ClaimInv, Working, ImageInv, OneImagePerJob, LockInv, RelayInv,
       RunInv, Idle, Requested
  <2>8. FaultFreeInv'
    BY DEF TypeOK, FaultFreeInv, LockInv, QueueInv, RunInv, Idle
  <2>9. QueueAgreesWithRow'
    BY DEF TypeOK, QueueAgreesWithRow, FaultFreeInv, ClaimInv, Working, LockInv,
       QueueInv, RunInv, RelayInv
  <2>10. QueueInv'
    BY DEF QueueInv
  <2> QED
    BY <2>1, <2>2, <2>3, <2>4, <2>5, <2>6, <2>7, <2>8, <2>9, <2>10 DEF IInv
<1>12. ASSUME NEW w \in Workers, RunFails(w) PROVE IInv'
  <2> USE <1>12 DEF RunFails
  <2>1. TypeOK'
    BY DEF TypeOK, RowStatus, Phases, Idle, QueueInv, RunInv
  <2>2. RunInv'
    BY DEF TypeOK, RunInv, Idle
  <2>3. LockInv'
    BY DEF TypeOK, LockInv, QueueInv, RunInv, Idle
  <2>4. FileInv'
    BY DEF TypeOK, FileInv, CompletedHasFile, RunInv, Idle
  <2>5. ImageInv'
    BY DEF TypeOK, ImageInv, OneImagePerJob, LockInv, RunInv, Idle
  <2>6. ClaimInv'
    BY DEF TypeOK, ClaimInv, Working, ImageInv, OneImagePerJob, LockInv, RelayInv,
       RunInv, Idle, Requested
  <2>7. FaultFreeInv'
    BY DEF TypeOK, FaultFreeInv, LockInv, QueueInv, RunInv, Idle
  <2>8. RelayInv' /\ QueueInv' /\ QueueAgreesWithRow'
    BY DEF RelayInv, Requested, QueueInv, QueueAgreesWithRow
  <2> QED
    BY <2>1, <2>2, <2>3, <2>4, <2>5, <2>6, <2>7, <2>8 DEF IInv
<1>13. ASSUME NEW w \in Workers, RecordFailure(w) PROVE IInv'
  <2> USE <1>13 DEF RecordFailure
  <2>1. TypeOK'
    BY DEF TypeOK, RowStatus, Phases, Idle, QueueInv, RunInv
  <2>2. RelayInv'
    BY DEF TypeOK, RelayInv, Requested, RunInv
  <2>3. RunInv'
    BY DEF TypeOK, RunInv, Idle
  <2>4. LockInv'
    BY DEF TypeOK, LockInv, QueueInv, RunInv, Idle
  <2>5. FileInv'
    BY DEF TypeOK, FileInv, CompletedHasFile, RunInv, Idle
  <2>6. ImageInv'
    BY DEF TypeOK, ImageInv, OneImagePerJob, LockInv, RunInv, Idle
  <2>7. ClaimInv'
    BY DEF TypeOK, ClaimInv, Working, ImageInv, OneImagePerJob, LockInv, RelayInv,
       RunInv, Idle, Requested
  <2>8. FaultFreeInv'
    BY DEF TypeOK, FaultFreeInv, LockInv, QueueInv, RunInv, Idle
  <2>9. QueueAgreesWithRow'
    BY DEF TypeOK, QueueAgreesWithRow, FaultFreeInv, ClaimInv, Working, LockInv,
       QueueInv, RunInv, RelayInv
  <2>10. QueueInv'
    BY DEF QueueInv
  <2> QED
    BY <2>1, <2>2, <2>3, <2>4, <2>5, <2>6, <2>7, <2>8, <2>9, <2>10 DEF IInv
<1>14. ASSUME NEW w \in Workers, DatabaseDown(w) PROVE IInv'
  <2> USE <1>14 DEF DatabaseDown, Fault
  <2>1. TypeOK'
    BY DEF TypeOK, RowStatus, Phases, Idle, QueueInv, RunInv
  <2>2. RunInv'
    BY DEF TypeOK, RunInv, Idle
  <2>3. LockInv'
    BY DEF TypeOK, LockInv, QueueInv, RunInv, Idle
  <2>4. FileInv'
    BY DEF TypeOK, FileInv, CompletedHasFile, RunInv, Idle
  <2>5. ImageInv'
    BY DEF TypeOK, ImageInv, OneImagePerJob, LockInv, RunInv, Idle
  <2>6. ClaimInv'
    BY DEF TypeOK, ClaimInv, Working, ImageInv, OneImagePerJob, LockInv, RelayInv,
       RunInv, Idle, Requested
  <2>7. FaultFreeInv'
    BY DEF TypeOK, FaultFreeInv, LockInv, QueueInv, RunInv, Idle
  <2>8. QueueAgreesWithRow'
    BY DEF TypeOK, QueueAgreesWithRow, FaultFreeInv, ClaimInv, Working, LockInv,
       QueueInv, RunInv, RelayInv
  <2>9. RelayInv' /\ QueueInv'
    BY DEF RelayInv, Requested, QueueInv
  <2> QED
    BY <2>1, <2>2, <2>3, <2>4, <2>5, <2>6, <2>7, <2>8, <2>9 DEF IInv
<1>15. ASSUME NEW w \in Workers, Throw(w) PROVE IInv'
  <2> USE <1>15 DEF Throw, Release
  <2>1. TypeOK'
    <3>1. HoldsLock(w) => tries[Job(w)] < Attempts
      BY DEF TypeOK, QueueInv, RunInv
    <3>2. tries' \in [Jobs -> 0..Attempts]
      BY <3>1 DEF TypeOK, RunInv
    <3>3. run' \in [Workers -> [pc : Phases, job : Jobs \cup {NoJob}]]
      BY DEF TypeOK, Phases, Idle
    <3>4. queue' \in [Jobs -> {"none", "waiting", "active", "delayed", "completed", "failed"}]
      BY DEF TypeOK, RunInv
    <3>5. holder' \in [Jobs -> Workers \cup {NoWorker}]
      BY DEF TypeOK, RunInv
    <3> QED
      BY <3>2, <3>3, <3>4, <3>5 DEF TypeOK
  <2>2. RelayInv'
    BY DEF TypeOK, RelayInv, Requested, RunInv
  <2>3. QueueInv'
    BY DEF TypeOK, QueueInv, RunInv
  <2>4. RunInv'
    BY DEF TypeOK, RunInv, Idle
  <2>5. LockInv'
    BY DEF TypeOK, LockInv, QueueInv, RunInv, Idle
  <2>6. FileInv'
    BY DEF TypeOK, FileInv, CompletedHasFile, RunInv, Idle
  <2>7. ImageInv'
    BY DEF TypeOK, ImageInv, OneImagePerJob, LockInv, RunInv, Idle
  <2>8. ClaimInv'
    BY DEF TypeOK, ClaimInv, Working, ImageInv, OneImagePerJob, LockInv, RelayInv,
       RunInv, Idle, Requested
  <2>9. FaultFreeInv'
    <3>1. Job(w) \in Jobs
      BY DEF TypeOK, RunInv
    <3>2. faults = 0 => HoldsLock(w) /\ \A v \in Workers : v # w => Job(v) # Job(w)
      BY <3>1 DEF FaultFreeInv, LockInv
    <3>3. faults = 0 => \A k \in Jobs : queue'[k] = "active" => k # Job(w) /\ queue[k] = "active"
      BY <3>1, <3>2 DEF TypeOK
    <3>4. faults = 0 => \A k \in Jobs : k # Job(w) => holder'[k] = holder[k]
      BY <3>1, <3>2 DEF TypeOK
    <3>5. \A v \in Workers : v # w => run'[v] = run[v]
      BY DEF TypeOK
    <3>6. \A v \in Workers : run'[v].pc = "throw" => run[v].pc = "throw" /\ run'[v] = run[v]
      BY <3>5 DEF TypeOK, Idle
    <3> QED
      BY <3>2, <3>3, <3>4, <3>5, <3>6 DEF FaultFreeInv
  <2>10. QueueAgreesWithRow'
    BY DEF TypeOK, QueueAgreesWithRow, FaultFreeInv, ClaimInv, Working, LockInv,
       QueueInv, RunInv, RelayInv
  <2> QED
    BY <2>1, <2>2, <2>3, <2>4, <2>5, <2>6, <2>7, <2>8, <2>9, <2>10 DEF IInv
<1>16. ASSUME NEW w \in Workers, Return(w) PROVE IInv'
  <2> USE <1>16 DEF Return, Release
  <2>1. TypeOK'
    BY DEF TypeOK, RowStatus, Phases, Idle, QueueInv, RunInv
  <2>2. RelayInv'
    BY DEF TypeOK, RelayInv, Requested, RunInv
  <2>3. QueueInv'
    BY DEF TypeOK, QueueInv, RunInv
  <2>4. RunInv'
    BY DEF TypeOK, RunInv, Idle
  <2>5. LockInv'
    BY DEF TypeOK, LockInv, QueueInv, RunInv, Idle
  <2>6. FileInv'
    BY DEF TypeOK, FileInv, CompletedHasFile, RunInv, Idle
  <2>7. ImageInv'
    BY DEF TypeOK, ImageInv, OneImagePerJob, LockInv, RunInv, Idle
  <2>8. ClaimInv'
    BY DEF TypeOK, ClaimInv, Working, ImageInv, OneImagePerJob, LockInv, RelayInv,
       RunInv, Idle, Requested
  <2>9. FaultFreeInv'
    BY DEF TypeOK, FaultFreeInv, LockInv, QueueInv, RunInv, Idle
  <2>10. QueueAgreesWithRow'
    BY DEF TypeOK, QueueAgreesWithRow, FaultFreeInv, ClaimInv, Working, LockInv,
       QueueInv, RunInv, RelayInv
  <2> QED
    BY <2>1, <2>2, <2>3, <2>4, <2>5, <2>6, <2>7, <2>8, <2>9, <2>10 DEF IInv
<1>17. ASSUME NEW j \in Jobs, Promote(j) PROVE IInv'
  <2> USE <1>17 DEF Promote
  <2>1. TypeOK'
    BY DEF TypeOK, RowStatus, Phases, Idle, QueueInv, RunInv
  <2>2. RelayInv'
    BY DEF TypeOK, RelayInv, Requested, RunInv
  <2>3. QueueInv'
    BY DEF TypeOK, QueueInv, RunInv
  <2>4. RunInv'
    BY DEF TypeOK, RunInv, Idle
  <2>5. FaultFreeInv'
    BY DEF TypeOK, FaultFreeInv, LockInv, QueueInv, RunInv, Idle
  <2>6. QueueAgreesWithRow'
    BY DEF TypeOK, QueueAgreesWithRow, FaultFreeInv, ClaimInv, Working, LockInv,
       QueueInv, RunInv, RelayInv
  <2>7. LockInv' /\ FileInv' /\ ImageInv' /\ ClaimInv'
    BY DEF LockInv, FileInv, CompletedHasFile, ImageInv, OneImagePerJob, ClaimInv,
       Working
  <2> QED
    BY <2>1, <2>2, <2>3, <2>4, <2>5, <2>6, <2>7 DEF IInv
<1>18. ASSUME NEW w \in Workers, Crash(w) PROVE IInv'
  <2> USE <1>18 DEF Crash, Release, Fault
  <2>1. TypeOK'
    BY DEF TypeOK, RowStatus, Phases, Idle, QueueInv, RunInv
  <2>2. RunInv'
    BY DEF TypeOK, RunInv, Idle
  <2>3. LockInv'
    BY DEF TypeOK, LockInv, QueueInv, RunInv, Idle
  <2>4. FileInv'
    BY DEF TypeOK, FileInv, CompletedHasFile, RunInv, Idle
  <2>5. ImageInv'
    BY DEF TypeOK, ImageInv, OneImagePerJob, LockInv, RunInv, Idle
  <2>6. ClaimInv'
    BY DEF TypeOK, ClaimInv, Working, ImageInv, OneImagePerJob, LockInv, RelayInv,
       RunInv, Idle, Requested
  <2>7. FaultFreeInv'
    BY DEF TypeOK, FaultFreeInv, LockInv, QueueInv, RunInv, Idle
  <2>8. QueueAgreesWithRow'
    BY DEF TypeOK, QueueAgreesWithRow, FaultFreeInv, ClaimInv, Working, LockInv,
       QueueInv, RunInv, RelayInv
  <2>9. RelayInv' /\ QueueInv'
    BY DEF RelayInv, Requested, QueueInv
  <2> QED
    BY <2>1, <2>2, <2>3, <2>4, <2>5, <2>6, <2>7, <2>8, <2>9 DEF IInv
<1>19. ASSUME NEW j \in Jobs, StalledAfterCrash(j) PROVE IInv'
  <2> USE <1>19 DEF StalledAfterCrash, Stall, Orphaned
  <2>1. TypeOK'
    BY DEF TypeOK, RowStatus, Phases, Idle, QueueInv, RunInv
  <2>2. RelayInv'
    BY DEF TypeOK, RelayInv, Requested, RunInv
  <2>3. QueueInv'
    BY DEF TypeOK, QueueInv, RunInv
  <2>4. RunInv'
    BY DEF TypeOK, RunInv, Idle
  <2>5. LockInv'
    BY DEF TypeOK, LockInv, QueueInv, RunInv, Idle
  <2>6. FaultFreeInv'
    BY DEF TypeOK, FaultFreeInv, LockInv, QueueInv, RunInv, Idle
  <2>7. QueueAgreesWithRow'
    BY DEF TypeOK, QueueAgreesWithRow, FaultFreeInv, ClaimInv, Working, LockInv,
       QueueInv, RunInv, RelayInv
  <2>8. FileInv' /\ ImageInv' /\ ClaimInv'
    BY DEF FileInv, CompletedHasFile, ImageInv, OneImagePerJob, ClaimInv, Working
  <2> QED
    BY <2>1, <2>2, <2>3, <2>4, <2>5, <2>6, <2>7, <2>8 DEF IInv
<1>20. ASSUME NEW j \in Jobs, StalledWhileRunning(j) PROVE IInv'
  <2> USE <1>20 DEF StalledWhileRunning, Stall, Orphaned, Fault
  <2>1. TypeOK'
    BY DEF TypeOK, RowStatus, Phases, Idle, QueueInv, RunInv
  <2>2. RelayInv'
    BY DEF TypeOK, RelayInv, Requested, RunInv
  <2>3. QueueInv'
    BY DEF TypeOK, QueueInv, RunInv
  <2>4. RunInv'
    BY DEF TypeOK, RunInv, Idle
  <2>5. LockInv'
    BY DEF TypeOK, LockInv, QueueInv, RunInv, Idle
  <2>6. ImageInv'
    BY DEF TypeOK, ImageInv, OneImagePerJob, LockInv, RunInv, Idle
  <2>7. ClaimInv'
    BY DEF TypeOK, ClaimInv, Working, ImageInv, OneImagePerJob, LockInv, RelayInv,
       RunInv, Idle, Requested
  <2>8. FaultFreeInv'
    BY DEF TypeOK, FaultFreeInv, LockInv, QueueInv, RunInv, Idle
  <2>9. QueueAgreesWithRow'
    BY DEF TypeOK, QueueAgreesWithRow, FaultFreeInv, ClaimInv, Working, LockInv,
       QueueInv, RunInv, RelayInv
  <2>10. FileInv'
    BY DEF FileInv, CompletedHasFile
  <2> QED
    BY <2>1, <2>2, <2>3, <2>4, <2>5, <2>6, <2>7, <2>8, <2>9, <2>10 DEF IInv
<1>21. CASE UNCHANGED vars
  BY <1>21 DEF TypeOK, RelayInv, QueueInv, RunInv, LockInv, FileInv, ImageInv, ClaimInv,
     FaultFreeInv, QueueAgreesWithRow, CompletedHasFile, OneImagePerJob, Working,
     Requested
<1> QED
  BY <1>1, <1>2, <1>3, <1>4, <1>5, <1>6, <1>7, <1>8, <1>9, <1>10, <1>11,
     <1>12, <1>13, <1>14, <1>15, <1>16, <1>17, <1>18, <1>19, <1>20, <1>21 DEF Next

\* The invariant holds in every reachable state.
THEOREM Invariance == Spec => []IInv
BY InitIInv, NextIInv, PTL DEF Spec

\* Every variable keeps its type; in particular no job is tried more often than
\* its attempts, nor survives more stalls than BullMQ grants.
THEOREM TypeCorrect == Spec => []TypeOK
<1>1. IInv => TypeOK
  BY DEF IInv
<1> QED
  BY <1>1, Invariance, PTL

\* A COMPLETED job has its file.
THEOREM FileBeforeCompletion == Spec => []CompletedHasFile
<1>1. IInv => CompletedHasFile
  BY DEF IInv, FileInv
<1> QED
  BY <1>1, Invariance, PTL

\* No job makes two images, unless a running worker lost its lock.
THEOREM NoDuplicateImage == Spec => []OneImagePerJob
<1>1. IInv => OneImagePerJob
  BY DEF IInv, ImageInv
<1> QED
  BY <1>1, Invariance, PTL

\* The end the queue sees is the end the row tells.
THEOREM QueueAndRowAgree == Spec => []QueueAgreesWithRow
<1>1. IInv => QueueAgreesWithRow
  BY DEF IInv
<1> QED
  BY <1>1, Invariance, PTL

\* What the run checks as one invariant: row, file, gallery and queue agree.
THEOREM RowsFilesAndQueueAgree == Spec => []JobsAreSound
<1>1. TypeOK /\ CompletedHasFile /\ QueueAgreesWithRow /\ OneImagePerJob => JobsAreSound
  BY DEF JobsAreSound
<1> QED
  BY <1>1, TypeCorrect, FileBeforeCompletion, QueueAndRowAgree, NoDuplicateImage, PTL

-----------------------------------------------------------------------------
\* No step takes a COMPLETED job back, unless runs overlapped or an answer was
\* lost.
LEMMA StepKeepsCompleted ==
  ASSUME IInv, [Next]_vars, ~(doubled' \/ uncertain'), NEW j \in Jobs, status[j] = "COMPLETED"
  PROVE  status'[j] = "COMPLETED"
<1> USE DEF IInv, At, Job
<1>1. ~doubled /\ ~uncertain
  BY DEF Next, vars, relayVars, queueVars, rowVars, historyVars, Request, Poll, Enqueue,
     Mark, RelayFails, Take, Claim, Render, Upload, Commit, CommitUnanswered, RunFails,
     RecordFailure, DatabaseDown, Throw, Return, Promote, Crash, StalledAfterCrash,
     StalledWhileRunning, Stall
<1>2. CASE \E k \in Jobs : Request(k)
  BY <1>2 DEF TypeOK, RelayInv, Request
<1>3. CASE \E w \in Workers : Claim(w)
  BY <1>3 DEF TypeOK, Claim, Claimable
<1>4. CASE \E w \in Workers : Commit(w) \/ CommitUnanswered(w)
  BY <1>4 DEF TypeOK, Commit, CommitUnanswered, Completed
<1>5. CASE \E w \in Workers : RecordFailure(w)
  <2>1. PICK w \in Workers : RecordFailure(w)
    BY <1>5
  <2>2. status[Job(w)] = "PROCESSING"
    BY <1>1, <2>1 DEF RecordFailure, ClaimInv, Working
  <2> QED
    BY <2>1, <2>2 DEF TypeOK, RecordFailure
<1>6. CASE UNCHANGED status
  BY <1>6
<1> QED
  BY <1>2, <1>3, <1>4, <1>5, <1>6
     DEF Next, vars, rowVars, Poll, Enqueue, Mark, RelayFails, Take, Render, Upload, RunFails,
     DatabaseDown, Throw, Return, Promote, Crash, StalledAfterCrash, StalledWhileRunning, Stall

\* COMPLETED is final, under the same condition.
THEOREM CompletionIsFinal == Spec => CompletedIsFinal
<1>1. IInv /\ [Next]_vars =>
        [~(doubled' \/ uncertain') =>
           \A j \in Jobs : status[j] = "COMPLETED" => status'[j] = "COMPLETED"]_vars
  BY StepKeepsCompleted
<1> QED
  BY <1>1, Invariance, PTL DEF Spec, CompletedIsFinal

-----------------------------------------------------------------------------
\* Every step of the relay and of the workers is a step of the outbox promise or
\* leaves it unchanged.
LEMMA StepSimulation == IInv /\ [Next]_vars => [Promise!Next]_(Promise!vars)
<1> SUFFICES ASSUME IInv, [Next]_vars PROVE Promise!Next \/ UNCHANGED Promise!vars
  OBVIOUS
<1> USE DEF IInv, RelayInv
<1>1. ASSUME NEW j \in Jobs, Request(j) PROVE Promise!Record(j)
  <2>1. order'[j] > 0 /\ \A k \in Jobs \ {j} : order'[k] = order[k]
    BY <1>1, RequestedCardinality DEF Request, TypeOK
  <2> QED
    BY <1>1, <2>1 DEF Request, Requested, Promise!Record
<1>2. ASSUME NEW p \in Pollers, NEW j \in Jobs, Enqueue(p, j) PROVE Promise!Handle(j)
  BY <1>2 DEF Enqueue, NextEvent, Requested, Promise!Handle
<1>3. ASSUME NEW p \in Pollers, Mark(p) PROVE Promise!Settle(marking[p])
  BY <1>3 DEF Mark, Requested, Promise!Settle
<1>4. ASSUME UNCHANGED <<order, enqueued, processed>> PROVE UNCHANGED Promise!vars
  BY <1>4 DEF Requested, Promise!vars
<1>5. CASE \/ \E j \in Jobs : Request(j)
           \/ \E p \in Pollers, j \in Jobs : Enqueue(p, j)
           \/ \E p \in Pollers : Mark(p)
  <2>1. \A p \in Pollers : Mark(p) => marking[p] \in Jobs
    BY DEF Mark, TypeOK
  <2> QED
    BY <1>1, <1>2, <1>3, <1>5, <2>1 DEF Promise!Next
<1>6. CASE UNCHANGED <<order, enqueued, processed>>
  BY <1>4, <1>6
<1> QED
  BY <1>5, <1>6
     DEF Next, vars, relayVars, Poll, RelayFails, Take, Claim, Render, Upload, Commit,
     CommitUnanswered, RunFails, RecordFailure, DatabaseDown, Throw, Return, Promote, Crash,
     StalledAfterCrash, StalledWhileRunning, Stall

\* The relay implements OutboxPromise: no event is settled before its job is in
\* the queue.
THEOREM Refinement == Spec => KeepsPromise
<1>1. Init => Promise!Init
  BY DEF Init, Requested, Promise!Init
<1>2. IInv /\ [Next]_vars => [Promise!Next]_(Promise!vars)
  BY StepSimulation
<1> QED
  BY <1>1, <1>2, Invariance, PTL DEF Spec, KeepsPromise, Promise!Spec
-----------------------------------------------------------------------------
(* Functions defined step by step, up to n.                                *)

\* What holds of 0 and passes from each number to the next holds up to n.
LEMMA CountedUp ==
  ASSUME NEW n \in Nat, NEW Good \in SUBSET (0..n), 0 \in Good,
         \A i \in 1..n : i - 1 \in Good => i \in Good
  PROVE  Good = 0..n
<1> DEFINE Bad == (0..n) \ Good
<1>1. SUFFICES ASSUME Bad # {} PROVE FALSE
  OBVIOUS
<1>2. PICK k \in Bad : \A l \in Bad : ~(<<l, k>> \in OpToRel(<, Nat))
  <2>1. Bad \in SUBSET Nat
    OBVIOUS
  <2> HIDE DEF Bad
  <2> QED
    BY <1>1, <2>1, NatLessThanWellFounded, WFMin
<1>3. k \in 1..n /\ k \notin Good
  <2>1. k \in 0..n /\ k \notin Good
    BY <1>2
  <2>2. k # 0
    BY <2>1
  <2> QED
    BY <2>1, <2>2
<1>4. k - 1 \in Bad
  BY <1>3
<1>5. <<k - 1, k>> \in OpToRel(<, Nat)
  BY <1>3 DEF OpToRel
<1> QED
  BY <1>2, <1>4, <1>5

\* The values of a loop of n rounds.
IsLoop(f, n, start, step) == f = [i \in 0..n |-> IF i = 0 THEN start ELSE step[<<f[i - 1], i>>]]

\* There are such values, whatever the rounds do.
LEMMA LoopExists ==
  ASSUME NEW n \in Nat, NEW start, NEW step
  PROVE  \E f : IsLoop(f, n, start, step)
<1> DEFINE Good == {k \in 0..n : \E f : IsLoop(f, k, start, step)}
<1>1. 0 \in Good
  <2>1. \A i \in 0..0 : i = 0
    OBVIOUS
  <2>2. IsLoop([i \in 0..0 |-> start], 0, start, step)
    BY <2>1 DEF IsLoop
  <2> QED
    BY <2>2
<1>2. ASSUME NEW k \in 1..n, k - 1 \in Good PROVE k \in Good
  <2>1. PICK f : IsLoop(f, k - 1, start, step)
    BY <1>2
  <2> DEFINE g == [i \in 0..k |-> IF i = k THEN step[<<f[k - 1], k>>] ELSE f[i]]
  <2>2. ASSUME NEW i \in 0..k PROVE g[i] = IF i = 0 THEN start ELSE step[<<g[i - 1], i>>]
    <3>1. CASE i = k
      <4>1. k - 1 \in 0..k /\ k - 1 # k /\ i # 0
        BY <3>1
      <4>2. g[i] = step[<<f[k - 1], k>>] /\ g[k - 1] = f[k - 1]
        BY <3>1, <4>1
      <4> QED
        BY <3>1, <4>1, <4>2
    <3>2. CASE i # k
      <4>1. i \in 0..(k - 1) /\ g[i] = f[i]
        BY <3>2
      <4>2. f[i] = IF i = 0 THEN start ELSE step[<<f[i - 1], i>>]
        BY <2>1, <4>1 DEF IsLoop
      <4>3. i # 0 => i - 1 \in 0..k /\ i - 1 # k
        BY <4>1
      <4>4. i # 0 => g[i - 1] = f[i - 1]
        BY <4>3
      <4> QED
        BY <4>1, <4>2, <4>4
    <3> QED
      BY <3>1, <3>2
  <2>3. g = [i \in 0..k |-> g[i]]
    OBVIOUS
  <2>4. IsLoop(g, k, start, step)
    <3> HIDE DEF g
    <3> QED
      BY <2>2, <2>3 DEF IsLoop
  <2> QED
    BY <2>4
<1>3. Good = 0..n
  <2>1. Good \in SUBSET (0..n)
    OBVIOUS
  <2> HIDE DEF Good
  <2> QED
    BY <1>1, <1>2, <2>1, CountedUp
<1> QED
  BY <1>3

\* If the rounds keep to a set, so do the values.
LEMMA LoopStays ==
  ASSUME NEW n \in Nat, NEW Acc, NEW start \in Acc, NEW step \in [Acc \X (1..n) -> Acc],
         NEW f, IsLoop(f, n, start, step)
  PROVE  \A i \in 0..n : f[i] \in Acc
<1> DEFINE Good == {i \in 0..n : f[i] \in Acc}
<1>1. f[0] = start
  BY DEF IsLoop
<1>2. ASSUME NEW i \in 1..n, i - 1 \in Good PROVE i \in Good
  <2>1. f[i] = step[<<f[i - 1], i>>]
    BY DEF IsLoop
  <2>2. <<f[i - 1], i>> \in Acc \X (1..n)
    BY <1>2
  <2> QED
    BY <2>1, <2>2
<1>3. 0 \in Good
  BY <1>1
<1>4. Good \in SUBSET (0..n)
  OBVIOUS
<1>5. Good = 0..n
  <2> HIDE DEF Good
  <2> QED
    BY <1>2, <1>3, <1>4, CountedUp
<1> QED
  BY <1>5

Elements(s) == {s[i] : i \in DOMAIN s}

LEMMA Appended ==
  ASSUME NEW U, NEW s \in Seq(U), NEW e \in U
  PROVE  /\ Append(s, e) \in Seq(U) /\ Len(Append(s, e)) = Len(s) + 1
         /\ \A i \in 1..Len(s) : Append(s, e)[i] = s[i]
         /\ Append(s, e)[Len(s) + 1] = e
         /\ Elements(Append(s, e)) = Elements(s) \cup {e}
<1>1. /\ Append(s, e) \in Seq(U) /\ Len(Append(s, e)) = Len(s) + 1
      /\ \A i \in 1..Len(s) : Append(s, e)[i] = s[i]
      /\ Append(s, e)[Len(s) + 1] = e
  OBVIOUS
<1>2. /\ DOMAIN s = 1..Len(s) /\ Len(s) \in Nat
      /\ DOMAIN Append(s, e) = 1..(Len(s) + 1)
  BY <1>1
<1> DEFINE t == Append(s, e)
<1>3. 1..(Len(s) + 1) = (1..Len(s)) \cup {Len(s) + 1}
  BY <1>2
<1> HIDE DEF t
<1>4. Elements(t) = Elements(s) \cup {e}
  <2>1. /\ DOMAIN t = (1..Len(s)) \cup {Len(s) + 1} /\ t[Len(s) + 1] = e
        /\ \A i \in 1..Len(s) : t[i] = s[i]
    BY <1>1, <1>2, <1>3 DEF t
  <2> QED
    BY <1>2, <2>1 DEF Elements
<1> QED
  BY <1>1, <1>4 DEF t
-----------------------------------------------------------------------------
(* ChatExchange: the numbers of a grounded answer, and the request that    *)
(* carries it from the question to the stored message.                     *)

\* A sequence of pieces of evidence of the sources of U.
EvidenceOf(claim, U) ==
  /\ Len(claim) \in Nat /\ DOMAIN claim = 1..Len(claim)
  /\ \A j \in 1..Len(claim) : claim[j].source \in U

\* The sources used after each piece of evidence of a claim.
AreCited(f, used, claim) ==
  f = [j \in 0..Len(claim) |->
        IF j = 0 THEN used
        ELSE IF Exchange!Contains(f[j - 1], claim[j].source) THEN f[j - 1]
        ELSE Append(f[j - 1], claim[j].source)]

LEMMA CitedAre ==
  ASSUME NEW U, NEW used \in Seq(U), NEW claim, EvidenceOf(claim, U)
  PROVE  \E f : /\ f[0] = used /\ Exchange!Cite(used, claim) = f[Len(claim)]
                /\ \A j \in 1..Len(claim) :
                     f[j] = IF Exchange!Contains(f[j - 1], claim[j].source) THEN f[j - 1]
                            ELSE Append(f[j - 1], claim[j].source)
<1> DEFINE n == Len(claim)
           Acc == Seq(U)
           step == [p \in Acc \X (1..n) |-> IF Exchange!Contains(p[1], claim[p[2]].source) THEN p[1]
                                            ELSE Append(p[1], claim[p[2]].source)]
           f == CHOOSE g : AreCited(g, used, claim)
<1>0. Len(claim) \in Nat /\ \A j \in 1..Len(claim) : claim[j].source \in U
  BY DEF EvidenceOf
<1>1. step \in [Acc \X (1..n) -> Acc]
  BY <1>0, Appended
<1>2. PICK g : IsLoop(g, n, used, step)
  <2> HIDE DEF step
  <2> QED
    BY <1>0, LoopExists
<1>3. \A i \in 0..n : g[i] \in Acc
  <2> HIDE DEF step, Acc, n
  <2>1. n \in Nat /\ used \in Acc
    BY <1>0 DEF n, Acc
  <2> QED
    BY <1>1, <1>2, <2>1, LoopStays
<1>4. AreCited(g, used, claim)
  <2>1. ASSUME NEW i \in 0..n, i # 0
        PROVE  step[<<g[i - 1], i>>] = IF Exchange!Contains(g[i - 1], claim[i].source) THEN g[i - 1]
                                       ELSE Append(g[i - 1], claim[i].source)
    <3>1. i - 1 \in 0..n /\ i \in 1..n
      BY <1>0, <2>1
    <3>2. <<g[i - 1], i>> \in Acc \X (1..n)
      BY <1>3, <3>1
    <3> HIDE DEF Acc
    <3> QED
      BY <3>2
  <2> HIDE DEF step
  <2> QED
    BY <1>2, <2>1 DEF IsLoop, AreCited
<1>5. AreCited(f, used, claim)
  <2>1. \E h : AreCited(h, used, claim)
    BY <1>4
  <2> QED
    BY <2>1, Zenon
<1>6. Exchange!Cite(used, claim) = f[Len(claim)]
  BY Zenon DEF Exchange!Cite, AreCited
<1> HIDE DEF f
<1>7. 0 \in 0..Len(claim) /\ \A j \in 1..Len(claim) : j \in 0..Len(claim) /\ j # 0
  BY <1>0
<1>8. /\ f[0] = used
      /\ \A j \in 1..Len(claim) :
           f[j] = IF Exchange!Contains(f[j - 1], claim[j].source) THEN f[j - 1]
                  ELSE Append(f[j - 1], claim[j].source)
  BY <1>5, <1>7 DEF AreCited
<1> QED
  BY <1>6, <1>8, Zenon

\* A claim adds its sources to the used ones.
LEMMA CiteAdds ==
  ASSUME NEW U, NEW used \in Seq(U), NEW claim, EvidenceOf(claim, U)
  PROVE  /\ Exchange!Cite(used, claim) \in Seq(U)
         /\ Elements(Exchange!Cite(used, claim)) = Elements(used) \cup Exchange!SourcesOf(claim)
<1>1. PICK f : /\ f[0] = used /\ Exchange!Cite(used, claim) = f[Len(claim)]
               /\ \A j \in 1..Len(claim) :
                    f[j] = IF Exchange!Contains(f[j - 1], claim[j].source) THEN f[j - 1]
                           ELSE Append(f[j - 1], claim[j].source)
  BY CitedAre
<1> DEFINE Upto(j) == {claim[k].source : k \in 1..j}
           Good == {j \in 0..Len(claim) : f[j] \in Seq(U) /\ Elements(f[j]) = Elements(used) \cup Upto(j)}
<1>0. /\ Len(claim) \in Nat /\ DOMAIN claim = 1..Len(claim)
      /\ \A j \in 1..Len(claim) : claim[j].source \in U
  BY DEF EvidenceOf
<1>2. 0 \in Good
  BY <1>0, <1>1
<1>3. ASSUME NEW j \in 1..Len(claim), j - 1 \in Good PROVE j \in Good
  <2>1. f[j - 1] \in Seq(U) /\ Elements(f[j - 1]) = Elements(used) \cup Upto(j - 1)
    BY <1>3
  <2>2. Upto(j) = Upto(j - 1) \cup {claim[j].source}
    <3>1. 1..j = (1..(j - 1)) \cup {j}
      BY <1>0
    <3> QED
      BY <3>1
  <2>3. f[j] \in Seq(U) /\ Elements(f[j]) = Elements(f[j - 1]) \cup {claim[j].source}
    <3>1. CASE Exchange!Contains(f[j - 1], claim[j].source)
      <4>1. claim[j].source \in Elements(f[j - 1])
        BY <2>1, <3>1 DEF Elements, Exchange!Contains
      <4> QED
        BY <1>1, <2>1, <3>1, <4>1
    <3>2. CASE ~Exchange!Contains(f[j - 1], claim[j].source)
      <4>1. claim[j].source \in U /\ f[j] = Append(f[j - 1], claim[j].source)
        BY <1>0, <1>1, <3>2
      <4> QED
        BY <2>1, <4>1, Appended
    <3> QED
      BY <3>1, <3>2
  <2> HIDE DEF Upto
  <2> QED
    BY <1>0, <2>1, <2>2, <2>3
<1>4. Good = 0..Len(claim)
  <2>1. Good \in SUBSET (0..Len(claim))
    OBVIOUS
  <2> HIDE DEF Good
  <2> QED
    BY <1>0, <1>2, <1>3, <2>1, CountedUp
<1>5. Len(claim) \in Good
  <2> HIDE DEF Good
  <2> QED
    BY <1>0, <1>4
<1>6. Upto(Len(claim)) = Exchange!SourcesOf(claim)
  BY <1>0 DEF Exchange!SourcesOf
<1>7. f[Len(claim)] \in Seq(U) /\ Elements(f[Len(claim)]) = Elements(used) \cup Upto(Len(claim))
  BY <1>5
<1> HIDE DEF Upto
<1> QED
  BY <1>1, <1>6, <1>7

\* Claims with evidence of the sources of U.
ClaimsOf(claims, U) ==
  /\ Len(claims) \in Nat /\ DOMAIN claims = 1..Len(claims)
  /\ \A i \in 1..Len(claims) : EvidenceOf(claims[i], U)

\* The sources used after each claim.
AreUsed(f, claims) ==
  f = [i \in 0..Len(claims) |-> IF i = 0 THEN <<>> ELSE Exchange!Cite(f[i - 1], claims[i])]

LEMMA UsedAre ==
  ASSUME NEW U, NEW claims, ClaimsOf(claims, U)
  PROVE  \E f : /\ f[0] = <<>> /\ Exchange!UsedSources(claims) = f[Len(claims)]
                /\ \A i \in 1..Len(claims) : f[i] = Exchange!Cite(f[i - 1], claims[i])
<1> DEFINE n == Len(claims)
           Acc == Seq(U)
           step == [p \in Acc \X (1..n) |-> Exchange!Cite(p[1], claims[p[2]])]
           f == CHOOSE g : AreUsed(g, claims)
<1>0. Len(claims) \in Nat /\ \A i \in 1..Len(claims) : EvidenceOf(claims[i], U)
  BY DEF ClaimsOf
<1>1. step \in [Acc \X (1..n) -> Acc]
  BY <1>0, CiteAdds
<1>2. PICK g : IsLoop(g, n, <<>>, step)
  <2> HIDE DEF step
  <2> QED
    BY <1>0, LoopExists
<1>3. \A i \in 0..n : g[i] \in Acc
  <2>1. n \in Nat /\ <<>> \in Acc
    BY <1>0
  <2> HIDE DEF step, Acc, n
  <2> QED
    BY <1>1, <1>2, <2>1, LoopStays
<1>4. AreUsed(g, claims)
  <2>1. ASSUME NEW i \in 0..n, i # 0 PROVE step[<<g[i - 1], i>>] = Exchange!Cite(g[i - 1], claims[i])
    <3>1. i - 1 \in 0..n /\ i \in 1..n
      BY <1>0, <2>1
    <3>2. <<g[i - 1], i>> \in Acc \X (1..n)
      BY <1>3, <3>1
    <3> HIDE DEF Acc
    <3> QED
      BY <3>2
  <2> HIDE DEF step
  <2> QED
    BY <1>2, <2>1 DEF IsLoop, AreUsed
<1>5. AreUsed(f, claims)
  <2>1. \E h : AreUsed(h, claims)
    BY <1>4
  <2> QED
    BY <2>1, Zenon
<1>6. Exchange!UsedSources(claims) = f[Len(claims)]
  BY Zenon DEF Exchange!UsedSources, AreUsed
<1> HIDE DEF f
<1>7. 0 \in 0..Len(claims) /\ \A i \in 1..Len(claims) : i \in 0..Len(claims) /\ i # 0
  BY <1>0
<1>8. f[0] = <<>> /\ \A i \in 1..Len(claims) : f[i] = Exchange!Cite(f[i - 1], claims[i])
  BY <1>5, <1>7 DEF AreUsed
<1> QED
  BY <1>6, <1>8, Zenon

\* The used sources are those of the claims.
LEMMA UsedAreOfClaims ==
  ASSUME NEW U, NEW claims, ClaimsOf(claims, U)
  PROVE  /\ Exchange!UsedSources(claims) \in Seq(U)
         /\ Elements(Exchange!UsedSources(claims))
              = UNION {Exchange!SourcesOf(claims[i]) : i \in DOMAIN claims}
<1>1. PICK f : /\ f[0] = <<>> /\ Exchange!UsedSources(claims) = f[Len(claims)]
               /\ \A i \in 1..Len(claims) : f[i] = Exchange!Cite(f[i - 1], claims[i])
  BY UsedAre
<1> DEFINE Upto(i) == UNION {Exchange!SourcesOf(claims[k]) : k \in 1..i}
           Good == {i \in 0..Len(claims) : f[i] \in Seq(U) /\ Elements(f[i]) = Upto(i)}
<1>0. /\ Len(claims) \in Nat /\ DOMAIN claims = 1..Len(claims)
      /\ \A i \in 1..Len(claims) : EvidenceOf(claims[i], U)
  BY DEF ClaimsOf
<1>2. 0 \in Good
  <2>1. f[0] \in Seq(U) /\ Elements(f[0]) = {}
    BY <1>1 DEF Elements
  <2>2. Upto(0) = {}
    OBVIOUS
  <2> QED
    BY <1>0, <2>1, <2>2
<1>3. ASSUME NEW i \in 1..Len(claims), i - 1 \in Good PROVE i \in Good
  <2>1. f[i - 1] \in Seq(U) /\ Elements(f[i - 1]) = Upto(i - 1)
    BY <1>3
  <2>2. Upto(i) = Upto(i - 1) \cup Exchange!SourcesOf(claims[i])
    <3>1. 1..i = (1..(i - 1)) \cup {i}
      BY <1>0
    <3> QED
      BY <3>1, Zenon
  <2>3. f[i] \in Seq(U) /\ Elements(f[i]) = Elements(f[i - 1]) \cup Exchange!SourcesOf(claims[i])
    <3>1. EvidenceOf(claims[i], U) /\ f[i] = Exchange!Cite(f[i - 1], claims[i])
      BY <1>0, <1>1
    <3> QED
      BY <2>1, <3>1, CiteAdds
  <2> HIDE DEF Upto
  <2>4. i \in 0..Len(claims) /\ Elements(f[i]) = Upto(i)
    BY <1>0, <2>1, <2>2, <2>3
  <2> QED
    BY <2>3, <2>4
<1>4. Good = 0..Len(claims)
  <2>1. Good \in SUBSET (0..Len(claims))
    OBVIOUS
  <2> HIDE DEF Good
  <2> QED
    BY <1>0, <1>2, <1>3, <2>1, CountedUp
<1>5. Len(claims) \in Good
  <2> HIDE DEF Good
  <2> QED
    BY <1>0, <1>4
<1>7. f[Len(claims)] \in Seq(U) /\ Elements(f[Len(claims)]) = Upto(Len(claims))
  BY <1>5
<1>6. Upto(Len(claims)) = UNION {Exchange!SourcesOf(claims[i]) : i \in DOMAIN claims}
  BY <1>0, Zenon
<1> HIDE DEF Upto
<1> QED
  BY <1>1, <1>6, <1>7, Zenon

\* The sources shown after each of the reviewed ones.
AreShown(f, cited, reviewed) ==
  f = [n \in 0..Len(reviewed) |->
        IF n = 0 THEN cited
        ELSE IF Exchange!Contains(cited, reviewed[n]) THEN f[n - 1]
        ELSE Append(f[n - 1], reviewed[n])]

ShowsThem(f, cited, reviewed) ==
  /\ f[0] = cited /\ Exchange!PresentReviewedSources(cited, reviewed) = f[Len(reviewed)]
  /\ \A n \in 1..Len(reviewed) :
       f[n] = IF Exchange!Contains(cited, reviewed[n]) THEN f[n - 1]
              ELSE Append(f[n - 1], reviewed[n])

LEMMA ShownAre ==
  ASSUME NEW U, NEW cited \in Seq(U), NEW reviewed \in Seq(U)
  PROVE  \E f : ShowsThem(f, cited, reviewed)
<1> DEFINE n == Len(reviewed)
           Acc == Seq(U)
           step == [p \in Acc \X (1..n) |-> IF Exchange!Contains(cited, reviewed[p[2]]) THEN p[1]
                                            ELSE Append(p[1], reviewed[p[2]])]
           f == CHOOSE g : AreShown(g, cited, reviewed)
<1>0. Len(reviewed) \in Nat /\ \A j \in 1..Len(reviewed) : reviewed[j] \in U
  OBVIOUS
<1>1. step \in [Acc \X (1..n) -> Acc]
  BY <1>0, Appended
<1>2. PICK g : IsLoop(g, n, cited, step)
  <2> HIDE DEF step
  <2> QED
    BY <1>0, LoopExists
<1>3. \A i \in 0..n : g[i] \in Acc
  <2>1. n \in Nat /\ cited \in Acc
    BY <1>0
  <2> HIDE DEF step, Acc, n
  <2> QED
    BY <1>1, <1>2, <2>1, LoopStays
<1>4. AreShown(g, cited, reviewed)
  <2>1. ASSUME NEW i \in 0..n, i # 0
        PROVE  step[<<g[i - 1], i>>] = IF Exchange!Contains(cited, reviewed[i]) THEN g[i - 1]
                                       ELSE Append(g[i - 1], reviewed[i])
    <3>1. i - 1 \in 0..n /\ i \in 1..n
      BY <1>0, <2>1
    <3>2. <<g[i - 1], i>> \in Acc \X (1..n)
      BY <1>3, <3>1
    <3> HIDE DEF Acc
    <3> QED
      BY <3>2
  <2> HIDE DEF step
  <2> QED
    BY <1>2, <2>1 DEF IsLoop, AreShown
<1>5. AreShown(f, cited, reviewed)
  <2>1. \E h : AreShown(h, cited, reviewed)
    BY <1>4
  <2> QED
    BY <2>1, Zenon
<1>6. Exchange!PresentReviewedSources(cited, reviewed) = f[Len(reviewed)]
  BY Zenon DEF Exchange!PresentReviewedSources, AreShown
<1> HIDE DEF f
<1>7. 0 \in 0..Len(reviewed) /\ \A j \in 1..Len(reviewed) : j \in 0..Len(reviewed) /\ j # 0
  BY <1>0
<1>8. /\ f[0] = cited
      /\ \A j \in 1..Len(reviewed) :
           f[j] = IF Exchange!Contains(cited, reviewed[j]) THEN f[j - 1]
                  ELSE Append(f[j - 1], reviewed[j])
  BY <1>5, <1>7 DEF AreShown
<1> QED
  BY <1>6, <1>8, Zenon DEF ShowsThem

\* The cited sources come first and in their order, and every reviewed one is shown.
LEMMA CitedAreShownFirst ==
  ASSUME NEW U, NEW cited \in Seq(U), NEW reviewed \in Seq(U)
  PROVE  LET shown == Exchange!PresentReviewedSources(cited, reviewed)
         IN /\ shown \in Seq(U)
            /\ \A i \in 1..Len(cited) : i \in DOMAIN shown /\ shown[i] = cited[i]
            /\ Elements(shown) = Elements(cited) \cup Elements(reviewed)
<1>a. PICK f : ShowsThem(f, cited, reviewed)
  BY ShownAre, Zenon
<1>1. /\ f[0] = cited /\ Exchange!PresentReviewedSources(cited, reviewed) = f[Len(reviewed)]
      /\ \A n \in 1..Len(reviewed) :
           f[n] = IF Exchange!Contains(cited, reviewed[n]) THEN f[n - 1]
                  ELSE Append(f[n - 1], reviewed[n])
  BY <1>a DEF ShowsThem
<1> DEFINE Upto(n) == {reviewed[k] : k \in 1..n}
           Begins(s) == Len(cited) <= Len(s) /\ \A i \in 1..Len(cited) : s[i] = cited[i]
           Good == {n \in 0..Len(reviewed) : /\ f[n] \in Seq(U) /\ Begins(f[n])
                                             /\ Elements(f[n]) = Elements(cited) \cup Upto(n)}
<1>0. Len(cited) \in Nat /\ Len(reviewed) \in Nat /\ \A j \in 1..Len(reviewed) : reviewed[j] \in U
  OBVIOUS
<1>2. 0 \in Good
  BY <1>0, <1>1
<1>3. ASSUME NEW n \in 1..Len(reviewed), n - 1 \in Good PROVE n \in Good
  <2>1. f[n - 1] \in Seq(U) /\ Begins(f[n - 1]) /\ Elements(f[n - 1]) = Elements(cited) \cup Upto(n - 1)
    BY <1>3
  <2>2. Upto(n) = Upto(n - 1) \cup {reviewed[n]}
    <3>1. 1..n = (1..(n - 1)) \cup {n}
      BY <1>0
    <3> QED
      BY <3>1
  <2>3. CASE Exchange!Contains(cited, reviewed[n])
    <3>1. reviewed[n] \in Elements(cited) /\ f[n] = f[n - 1]
      BY <1>1, <2>3 DEF Elements, Exchange!Contains
    <3> HIDE DEF Upto, Begins
    <3> QED
      BY <1>0, <2>1, <2>2, <3>1
  <2>4. CASE ~Exchange!Contains(cited, reviewed[n])
    <3>1. reviewed[n] \in U /\ f[n] = Append(f[n - 1], reviewed[n])
      BY <1>0, <1>1, <2>4
    <3>2. /\ f[n] \in Seq(U) /\ Len(f[n]) = Len(f[n - 1]) + 1
          /\ \A i \in 1..Len(f[n - 1]) : f[n][i] = f[n - 1][i]
          /\ Elements(f[n]) = Elements(f[n - 1]) \cup {reviewed[n]}
      BY <2>1, <3>1, Appended
    <3>3. Len(f[n - 1]) \in Nat
      BY <2>1
    <3>4. Begins(f[n])
      BY <1>0, <2>1, <3>2, <3>3
    <3> HIDE DEF Upto, Begins
    <3> QED
      BY <1>0, <2>1, <2>2, <3>2, <3>4
  <2> QED
    BY <2>3, <2>4
<1>4. Good = 0..Len(reviewed)
  <2>1. Good \in SUBSET (0..Len(reviewed))
    OBVIOUS
  <2> HIDE DEF Good
  <2> QED
    BY <1>0, <1>2, <1>3, <2>1, CountedUp
<1>5. Len(reviewed) \in Good
  <2> HIDE DEF Good
  <2> QED
    BY <1>0, <1>4
<1> DEFINE shown == f[Len(reviewed)]
<1>7. shown \in Seq(U) /\ Begins(shown) /\ Elements(shown) = Elements(cited) \cup Upto(Len(reviewed))
  BY <1>5
<1>6. Upto(Len(reviewed)) = Elements(reviewed)
  BY <1>0 DEF Elements
<1>8. \A i \in 1..Len(cited) : i \in DOMAIN shown /\ shown[i] = cited[i]
  BY <1>0, <1>7
<1> HIDE DEF Upto, shown
<1> QED
  BY <1>1, <1>6, <1>7, <1>8 DEF shown

Evidence == [source : Excerpts, quoted : BOOLEAN]
Phrases == Seq(Seq(Evidence))
Numbers == Seq(SUBSET Nat)
AnswerKinds == {"none", "policy", "fixed", "no_evidence", "clarify", "ungrounded", "evidence", "grounded"}

Sending ==
  [phase : {"idle", "route", "retrieve", "generate", "verify", "persist", "store", "done", "failed"},
   title : {"default", "author", "question"}, counted : Nat,
   domain : {"work", "application_help"}, retry : BOOLEAN, used : Nat, calls : Nat,
   sources : Seq(Excerpts), alert : BOOLEAN, claims : Phrases,
   answer : AnswerKinds, cited : Seq(Excerpts), numbers : Numbers]

StoredAnswer ==
  [of : Messages, answer : AnswerKinds, tokens : Nat, sources : Seq(Excerpts),
   numbers : Numbers, notice : BOOLEAN]

\* What is, or will be, stored leads to its sources.
Citable(answer, cited, numbers, claims, sources) ==
  CASE answer = "grounded" ->
         \A k \in DOMAIN claims :
           LET Cited == {cited[n] : n \in numbers[k]}
           IN /\ Cited = Exchange!SourcesOf(claims[k])
              /\ Cited # {}
              /\ Cited \subseteq Exchange!ToSet(sources)
              /\ \A j \in DOMAIN claims[k] : claims[k][j].quoted
    [] answer = "evidence" -> Exchange!ToSet(cited) = Exchange!ToSet(sources)
    [] OTHER -> cited = <<>>

Threads ==
  [title : {"default", "author", "question"}, archived : BOOLEAN, there : {"live", "hidden", "gone"}]

ExchangeTypes ==
  /\ v1 \in Threads
  /\ v2 \in Seq(StoredAnswer)
  /\ v3 \in [Messages -> Sending]

\* Tokens are those of the calls until the answer is stored, a verification is of claims
\* that were found grounded, and what is about to be stored leads to its sources.
SendingIsSound(row) ==
  /\ row.phase # "done" => row.used = row.calls
  /\ row.phase = "verify" => Exchange!Grounded(row.claims, row.sources)
  /\ row.phase \in {"persist", "store"} =>
       Citable(row.answer, row.cited, row.numbers, row.claims, row.sources)

StoredIsSound(m, row) ==
  /\ row.phase = "done"
  /\ m.tokens = row.calls
  /\ Citable(m.answer, m.sources, m.numbers, row.claims, row.sources)

ExchangeInv ==
  /\ ExchangeTypes
  /\ \A r \in Messages : SendingIsSound(v3[r])
  /\ \A i \in DOMAIN v2 : StoredIsSound(v2[i], v3[v2[i].of])

LEMMA ExchangeAnswersAreSound == ASSUME ExchangeInv PROVE Exchange!AnswersAreSound
<1>1. \A i \in DOMAIN v2 : StoredIsSound(v2[i], v3[v2[i].of])
  BY DEF ExchangeInv
<1>2. Exchange!ChargedForEveryCall
  BY <1>1, Zenon DEF Exchange!ChargedForEveryCall, StoredIsSound
<1>3. Exchange!CitationsLeadToTheirSource
  BY <1>1, Zenon DEF Exchange!CitationsLeadToTheirSource, StoredIsSound, Citable
<1> QED
  BY <1>2, <1>3 DEF Exchange!AnswersAreSound

\* An answer verified to be supported is numbered by the places of its sources.
LEMMA GroundedIsCitable ==
  ASSUME NEW claims \in Phrases, NEW sources \in Seq(Excerpts), Exchange!Grounded(claims, sources)
  PROVE  LET cited == Exchange!PresentReviewedSources(Exchange!UsedSources(claims), sources)
             numbers == Exchange!Citations(claims)
         IN /\ cited \in Seq(Excerpts) /\ numbers \in Numbers
            /\ Citable("grounded", cited, numbers, claims, sources)
<1> DEFINE used == Exchange!UsedSources(claims)
           cited == Exchange!PresentReviewedSources(used, sources)
           numbers == Exchange!Citations(claims)
<1>1. /\ Len(claims) \in Nat /\ DOMAIN claims = 1..Len(claims)
      /\ \A i \in DOMAIN claims : claims[i] \in Seq(Evidence)
  BY DEF Phrases
<1>2. ClaimsOf(claims, Excerpts)
  <2>1. ASSUME NEW claim \in Seq(Evidence) PROVE EvidenceOf(claim, Excerpts)
    <3>1. \A e \in Evidence : e.source \in Excerpts
      BY DEF Evidence
    <3>2. Len(claim) \in Nat /\ DOMAIN claim = 1..Len(claim) /\ \A j \in 1..Len(claim) : claim[j] \in Evidence
      OBVIOUS
    <3> QED
      BY <3>1, <3>2 DEF EvidenceOf
  <2> QED
    BY <1>1, <2>1 DEF ClaimsOf
<1>3. /\ used \in Seq(Excerpts)
      /\ Elements(used) = UNION {Exchange!SourcesOf(claims[i]) : i \in DOMAIN claims}
  BY <1>2, UsedAreOfClaims
<1> HIDE DEF used
<1>4. /\ cited \in Seq(Excerpts)
      /\ \A i \in 1..Len(used) : i \in DOMAIN cited /\ cited[i] = used[i]
  BY <1>3, CitedAreShownFirst
<1> HIDE DEF cited
<1>5. numbers = [i \in DOMAIN claims |-> {n \in DOMAIN used : used[n] \in Exchange!SourcesOf(claims[i])}]
  BY Zenon DEF Exchange!Citations, used
<1> HIDE DEF numbers
<1>6. DOMAIN used = 1..Len(used) /\ Len(used) \in Nat
  BY <1>3
<1>7. numbers \in Numbers
  <2>1. \A i \in DOMAIN claims : numbers[i] \in SUBSET Nat
    BY <1>5, <1>6
  <2>2. numbers \in [1..Len(claims) -> SUBSET Nat]
    BY <1>1, <1>5, <2>1
  <2> QED
    BY <1>1, <2>2 DEF Numbers
<1>8. ASSUME NEW k \in DOMAIN claims
      PROVE  /\ {cited[n] : n \in numbers[k]} = Exchange!SourcesOf(claims[k])
             /\ Exchange!SourcesOf(claims[k]) # {}
             /\ Exchange!SourcesOf(claims[k]) \subseteq Exchange!ToSet(sources)
             /\ \A j \in DOMAIN claims[k] : claims[k][j].quoted
  <2>1. Exchange!ClaimGrounded(claims[k], sources)
    BY DEF Exchange!Grounded
  <2>2. /\ claims[k] # <<>>
        /\ \A j \in DOMAIN claims[k] : claims[k][j].quoted /\ Exchange!Contains(sources, claims[k][j].source)
    BY <2>1, Zenon DEF Exchange!ClaimGrounded
  <2>3. Exchange!SourcesOf(claims[k]) \subseteq Elements(used)
    BY <1>3, Zenon
  <2>4. {cited[n] : n \in numbers[k]} = Exchange!SourcesOf(claims[k])
    <3> DEFINE S == Exchange!SourcesOf(claims[k])
    <3> HIDE DEF S
    <3>1. numbers[k] = {n \in DOMAIN used : used[n] \in S}
      BY <1>5 DEF S
    <3>2. \A n \in numbers[k] : cited[n] = used[n] /\ n \in DOMAIN used
      BY <1>4, <1>6, <3>1
    <3>3. \A s \in S : \E n \in DOMAIN used : used[n] = s
      BY <2>3 DEF Elements, S
    <3>4. {cited[n] : n \in numbers[k]} = S
      BY <3>1, <3>2, <3>3
    <3> QED
      BY <3>4 DEF S
  <2>5. Exchange!SourcesOf(claims[k]) # {}
    <3>1. claims[k] \in Seq(Evidence)
      BY <1>1
    <3>2. 1 \in DOMAIN claims[k]
      BY <2>2, <3>1
    <3> QED
      BY <3>2 DEF Exchange!SourcesOf
  <2>6. Exchange!SourcesOf(claims[k]) \subseteq Exchange!ToSet(sources)
    <3>1. DOMAIN sources = 1..Len(sources)
      OBVIOUS
    <3> QED
      BY <2>2, <3>1 DEF Exchange!SourcesOf, Exchange!ToSet, Exchange!Contains
  <2>7. \A j \in DOMAIN claims[k] : claims[k][j].quoted
    BY <2>2, Zenon
  <2> QED
    BY <2>4, <2>5, <2>6, <2>7
<1>9. Citable("grounded", cited, numbers, claims, sources)
  BY <1>8, Zenon DEF Citable
<1> QED
  BY <1>4, <1>7, <1>9 DEF cited, numbers, used

\* The sources of a count or of a first mention are all shown.
LEMMA EvidenceIsCitable ==
  ASSUME NEW first \in Seq(Excerpts), NEW sources \in Seq(Excerpts), NEW numbers, NEW claims,
         Elements(first) \subseteq Elements(sources)
  PROVE  LET cited == Exchange!PresentReviewedSources(first, sources)
         IN cited \in Seq(Excerpts) /\ Citable("evidence", cited, numbers, claims, sources)
<1> DEFINE cited == Exchange!PresentReviewedSources(first, sources)
<1>1. cited \in Seq(Excerpts) /\ Elements(cited) = Elements(first) \cup Elements(sources)
  BY CitedAreShownFirst
<1> HIDE DEF cited
<1>2. Exchange!ToSet(cited) = Exchange!ToSet(sources)
  BY <1>1 DEF Elements, Exchange!ToSet
<1>3. "evidence" # "grounded"
  OBVIOUS
<1>4. Citable("evidence", cited, numbers, claims, sources)
  BY <1>2, <1>3, Zenon DEF Citable
<1> QED
  BY <1>1, <1>4 DEF cited

\* A step of one message that stores nothing.
LEMMA OneSending ==
  ASSUME ExchangeInv, NEW r \in Messages, v3[r].phase # "done", UNCHANGED <<v1, v2>>,
         NEW row \in Sending, SendingIsSound(row), v3' = [v3 EXCEPT ![r] = row]
  PROVE  ExchangeInv'
<1>1. ExchangeTypes'
  BY DEF ExchangeInv, ExchangeTypes
<1>2. \A q \in Messages : v3'[q] = IF q = r THEN row ELSE v3[q]
  BY DEF ExchangeInv, ExchangeTypes
<1>3. \A q \in Messages : SendingIsSound(v3[q])'
  <2> SUFFICES ASSUME NEW q \in Messages PROVE SendingIsSound(v3'[q])
    BY DEF SendingIsSound
  <2> QED
    BY <1>2 DEF ExchangeInv
<1>4. ASSUME NEW i \in DOMAIN v2 PROVE StoredIsSound(v2[i], v3'[v2[i].of])
  <2>1. StoredIsSound(v2[i], v3[v2[i].of]) /\ v2[i] \in StoredAnswer
    BY DEF ExchangeInv, ExchangeTypes
  <2>2. v2[i].of \in Messages /\ v2[i].of # r
    BY <2>1 DEF StoredIsSound, StoredAnswer
  <2>3. v3'[v2[i].of] = v3[v2[i].of]
    BY <1>2, <2>2
  <2> QED
    BY <2>1, <2>3
<1>5. \A i \in DOMAIN v2' : StoredIsSound(v2'[i], v3'[v2'[i].of])
  BY <1>4
<1> QED
  BY <1>1, <1>3, <1>5 DEF ExchangeInv, StoredIsSound

\* A row of a message that is not sent, or sent to no effect.
Blank(p, flag) ==
  [phase |-> p, title |-> "default", counted |-> 0, domain |-> "work", retry |-> flag,
   used |-> 0, calls |-> 0, sources |-> <<>>, alert |-> flag, claims |-> <<>>,
   answer |-> "none", cited |-> <<>>, numbers |-> <<>>]

SendPhases == {"idle", "route", "retrieve", "generate", "verify", "persist", "store", "done", "failed"}

Sent(row, calls, sources, claims) ==
  [row EXCEPT !.phase = "done", !.calls = calls, !.sources = sources, !.claims = claims]

LEMMA BlankIs ==
  ASSUME NEW flag \in BOOLEAN, NEW p \in SendPhases, NEW q \in SendPhases
  PROVE  Blank(p, flag) \in Sending /\ [Blank(p, flag) EXCEPT !.phase = q] = Blank(q, flag)
<1>1. <<>> \in Seq(Excerpts) /\ <<>> \in Phrases /\ <<>> \in Numbers
  BY DEF Phrases, Numbers
<1>2. Blank(p, flag) \in Sending
  BY <1>1 DEF Blank, Sending, SendPhases, AnswerKinds
<1>3. [Blank(p, flag) EXCEPT !.phase = q] = Blank(q, flag)
  BY DEF Blank
<1> QED
  BY <1>2, <1>3

LEMMA SentIs ==
  ASSUME NEW row \in Sending, NEW calls \in Nat, NEW sources \in Seq(Excerpts), NEW claims \in Phrases
  PROVE  /\ Sent(row, calls, sources, claims) \in Sending
         /\ Sent(row, calls, sources, claims).phase = "done"
         /\ Sent(row, calls, sources, claims).calls = calls
         /\ Sent(row, calls, sources, claims).sources = sources
         /\ Sent(row, calls, sources, claims).claims = claims
BY DEF Sending, Sent

LEMMA NotSentIs ==
  /\ Exchange!NotSent \in Sending /\ SendingIsSound(Exchange!NotSent)
  /\ [Exchange!NotSent EXCEPT !.phase = "failed"] \in Sending
  /\ SendingIsSound([Exchange!NotSent EXCEPT !.phase = "failed"])
<1>1. Exchange!NotSent = Blank("idle", FALSE)
  BY Zenon DEF Exchange!NotSent, Blank
<1>2. "idle" \in SendPhases /\ "failed" \in SendPhases /\ FALSE \in BOOLEAN
  BY DEF SendPhases
<1>3. /\ Exchange!NotSent \in Sending
      /\ [Exchange!NotSent EXCEPT !.phase = "failed"] = Blank("failed", FALSE)
      /\ Blank("failed", FALSE) \in Sending
  BY <1>1, <1>2, BlankIs, Zenon
<1>4. ASSUME NEW p \in {"idle", "failed"}, NEW flag PROVE SendingIsSound(Blank(p, flag))
  BY DEF SendingIsSound, Blank
<1>5. SendingIsSound(Exchange!NotSent) /\ SendingIsSound([Exchange!NotSent EXCEPT !.phase = "failed"])
  <2>1. "idle" \in {"idle", "failed"} /\ "failed" \in {"idle", "failed"}
    OBVIOUS
  <2> QED
    BY <1>1, <1>3, <1>4, <2>1, Zenon
<1> QED
  BY <1>3, <1>5, Zenon

LEMMA ExchangeStarts == ASSUME Exchange!Init PROVE ExchangeInv
<1>1. v2 = <<>> /\ v3 = [r \in Messages |-> Exchange!NotSent]
  BY DEF Exchange!Init
<1>2. v1 \in Threads
  <2>1. v1 = [title |-> "default", archived |-> FALSE, there |-> "live"] /\ FALSE \in BOOLEAN
    BY Zenon DEF Exchange!Init
  <2>2. ASSUME NEW flag \in BOOLEAN PROVE [title |-> "default", archived |-> flag, there |-> "live"] \in Threads
    BY DEF Threads
  <2> QED
    BY <2>1, <2>2, Zenon
<1>3. Exchange!NotSent \in Sending /\ SendingIsSound(Exchange!NotSent)
  BY NotSentIs
<1>4. ExchangeTypes
  BY <1>1, <1>2, <1>3 DEF ExchangeTypes
<1>5. \A r \in Messages : SendingIsSound(v3[r])
  BY <1>1, <1>3
<1>6. DOMAIN v2 = {}
  BY <1>1
<1> QED
  BY <1>4, <1>5, <1>6, Zenon DEF ExchangeInv

\* A call to a model is counted twice.
LEMMA CalledIs ==
  ASSUME NEW row \in Sending, NEW r
  PROVE  LET after == Exchange!Called(r, row)
         IN /\ after \in Sending
            /\ after.calls = row.calls + 1 /\ after.used = row.used + 1
            /\ after.sources = row.sources /\ after.claims = row.claims /\ after.retry = row.retry
<1> DEFINE after == Exchange!Called(r, row)
<1>1. after = [row EXCEPT !.calls = row.calls + 1, !.used = row.used + 1]
  BY DEF Exchange!Called, Sending
<1>2. row.calls + 1 \in Nat /\ row.used + 1 \in Nat
  BY DEF Sending
<1> HIDE DEF after
<1>3. after \in Sending
  BY <1>1, <1>2 DEF Sending
<1>4. /\ after.calls = row.calls + 1 /\ after.used = row.used + 1
      /\ after.sources = row.sources /\ after.claims = row.claims /\ after.retry = row.retry
  BY <1>1 DEF Sending
<1> QED
  BY <1>3, <1>4 DEF after

\* A message gets its answer.
LEMMA AnswerIsSound ==
  ASSUME ExchangeInv, NEW r \in Messages, v3[r].phase # "done", UNCHANGED <<v1, v2>>,
         NEW row \in Sending, row.used = row.calls, NEW kind \in AnswerKinds,
         NEW cited \in Seq(Excerpts), NEW numbers \in Numbers,
         Citable(kind, cited, numbers, row.claims, row.sources),
         Exchange!Answering(r, row, kind, cited, numbers)
  PROVE  ExchangeInv'
<1> DEFINE answered == [row EXCEPT !.phase = "persist", !.answer = kind, !.cited = cited,
                                   !.numbers = numbers]
<1>1. v3' = [v3 EXCEPT ![r] = answered]
  BY DEF Exchange!Answering
<1>2. /\ answered \in Sending
      /\ answered.phase = "persist" /\ answered.answer = kind /\ answered.cited = cited
      /\ answered.numbers = numbers /\ answered.used = row.used /\ answered.calls = row.calls
      /\ answered.claims = row.claims /\ answered.sources = row.sources
  BY DEF Sending
<1> HIDE DEF answered
<1>3. SendingIsSound(answered)
  BY <1>2 DEF SendingIsSound
<1> QED
  BY <1>1, <1>2, <1>3, OneSending

LEMMA PlainAnswerIsSound ==
  ASSUME ExchangeInv, NEW r \in Messages, v3[r].phase # "done", UNCHANGED <<v1, v2>>,
         NEW row \in Sending, row.used = row.calls,
         NEW kind \in {"policy", "fixed", "no_evidence", "clarify", "ungrounded"},
         Exchange!Answering(r, row, kind, <<>>, <<>>)
  PROVE  ExchangeInv'
<1>1. kind \in AnswerKinds /\ <<>> \in Seq(Excerpts) /\ <<>> \in Numbers
  BY DEF AnswerKinds, Numbers
<1>2. kind # "grounded" /\ kind # "evidence"
  OBVIOUS
<1>3. Citable(kind, <<>>, <<>>, row.claims, row.sources)
  BY <1>2, Zenon DEF Citable
<1> QED
  BY <1>1, <1>3, AnswerIsSound

LEMMA FailIsSound ==
  ASSUME ExchangeInv, NEW r \in Messages, v3[r].phase # "done", UNCHANGED <<v1, v2>>,
         Exchange!Fail(r)
  PROVE  ExchangeInv'
BY NotSentIs, OneSending DEF Exchange!Fail

\* An author's step leaves the messages in flight alone.
LEMMA AuthorIsHarmless ==
  ASSUME ExchangeInv, Exchange!UpdateTitle \/ Exchange!UpdateArchived \/ Exchange!DeleteThread
                        \/ Exchange!DeleteProject
  PROVE  ExchangeInv'
<1>1. v3' = v3 /\ (v2' = v2 \/ v2' = <<>>)
  BY DEF Exchange!UpdateTitle, Exchange!UpdateArchived, Exchange!DeleteThread, Exchange!DeleteProject
<1>2. v1' \in Threads
  <2>0. v1 \in Threads
    BY DEF ExchangeInv, ExchangeTypes
  <2>1. CASE Exchange!UpdateTitle
    BY <2>0, <2>1 DEF Exchange!UpdateTitle, Threads
  <2>2. CASE Exchange!UpdateArchived
    <3>1. v1' = [v1 EXCEPT !.archived = ~v1.archived]
      BY <2>2, Zenon DEF Exchange!UpdateArchived
    <3>2. PICK flag \in BOOLEAN : flag = ~v1.archived
      BY Zenon
    <3>3. v1' = [v1 EXCEPT !.archived = flag]
      BY <3>1, <3>2, Zenon
    <3> QED
      BY <2>0, <3>3 DEF Threads
  <2>3. CASE Exchange!DeleteThread \/ Exchange!DeleteProject
    BY <2>0, <2>3 DEF Exchange!DeleteThread, Exchange!DeleteProject, Threads
  <2> QED
    BY <2>1, <2>2, <2>3
<1>3. v2' \in Seq(StoredAnswer)
  <2>1. v2 \in Seq(StoredAnswer) /\ <<>> \in Seq(StoredAnswer)
    BY DEF ExchangeInv, ExchangeTypes
  <2> QED
    BY <1>1, <2>1
<1>4. ExchangeTypes'
  BY <1>1, <1>2, <1>3 DEF ExchangeInv, ExchangeTypes
<1>5. \A r \in Messages : SendingIsSound(v3'[r])
  BY <1>1 DEF ExchangeInv
<1>6. \A i \in DOMAIN v2' : StoredIsSound(v2'[i], v3'[v2'[i].of])
  BY <1>1 DEF ExchangeInv
<1> QED
  BY <1>4, <1>5, <1>6 DEF ExchangeInv, SendingIsSound, StoredIsSound

\* What is known of a message that is in a phase before its end.
LEMMA RowIs ==
  ASSUME ExchangeInv, NEW r \in Messages
  PROVE  v3[r] \in Sending /\ SendingIsSound(v3[r])
BY DEF ExchangeInv, ExchangeTypes

LEMMA RoutingKeeps ==
  ASSUME ExchangeInv, NEW r \in Messages,
         \/ Exchange!Send(r) \/ Exchange!RouteByPolicy(r) \/ Exchange!RouteToFixedAnswer(r)
         \/ \E domain \in Exchange!Domains : Exchange!RouteToDomain(r, domain)
  PROVE  ExchangeInv'
<1> DEFINE row == v3[r]
           called == Exchange!Called(r, row)
<1>0. row \in Sending /\ SendingIsSound(row)
  BY RowIs
<1>1. /\ called \in Sending /\ called.calls = row.calls + 1 /\ called.used = row.used + 1
      /\ called.sources = row.sources /\ called.claims = row.claims
  BY <1>0, CalledIs
<1>2. CASE Exchange!Send(r)
  <2>1. UNCHANGED <<v1, v2>> /\ row.phase = "idle"
    BY <1>2 DEF Exchange!Send
  <2>2. CASE v1.there = "live" /\ ~v1.archived
    <3> DEFINE sent == [row EXCEPT !.phase = "route", !.title = v1.title]
    <3>1. v3' = [v3 EXCEPT ![r] = sent]
      BY <1>2, <2>2 DEF Exchange!Send, ExchangeInv, ExchangeTypes
    <3>2. v1.title \in {"default", "author", "question"}
      BY DEF ExchangeInv, ExchangeTypes, Threads
    <3>3. /\ sent \in Sending /\ sent.phase = "route" /\ sent.used = row.used
          /\ sent.calls = row.calls
      BY <1>0, <3>2 DEF Sending
    <3> HIDE DEF sent
    <3>4. SendingIsSound(sent)
      BY <1>0, <2>1, <3>3 DEF SendingIsSound
    <3> QED
      BY <2>1, <3>1, <3>3, <3>4, OneSending
  <2>3. CASE ~(v1.there = "live" /\ ~v1.archived)
    <3>1. Exchange!Fail(r)
      BY <1>2, <2>3 DEF Exchange!Send
    <3> QED
      BY <2>1, <3>1, FailIsSound
  <2> QED
    BY <2>2, <2>3
<1>3. CASE Exchange!RouteByPolicy(r)
  <2>1. UNCHANGED <<v1, v2>> /\ row.phase = "route" /\ Exchange!Answering(r, row, "policy", <<>>, <<>>)
    BY <1>3 DEF Exchange!RouteByPolicy
  <2>2. row.used = row.calls
    BY <1>0, <2>1 DEF SendingIsSound
  <2> QED
    BY <1>0, <2>1, <2>2, PlainAnswerIsSound
<1>4. CASE Exchange!RouteToFixedAnswer(r)
  <2>1. UNCHANGED <<v1, v2>> /\ row.phase = "route" /\ Exchange!Answering(r, called, "fixed", <<>>, <<>>)
    BY <1>4 DEF Exchange!RouteToFixedAnswer
  <2>2. called.used = called.calls
    BY <1>0, <1>1, <2>1 DEF SendingIsSound
  <2> HIDE DEF called
  <2> QED
    BY <1>1, <2>1, <2>2, PlainAnswerIsSound
<1>5. ASSUME NEW domain \in Exchange!Domains, Exchange!RouteToDomain(r, domain) PROVE ExchangeInv'
  <2> DEFINE Routed(flag) == [called EXCEPT !.phase = "retrieve", !.domain = domain, !.retry = flag]
  <2>1. UNCHANGED <<v1, v2>> /\ row.phase = "route" /\ v3' = [v3 EXCEPT ![r] = Routed(TRUE)]
    BY <1>5, Zenon DEF Exchange!RouteToDomain
  <2>2. ASSUME NEW flag \in BOOLEAN
        PROVE  /\ Routed(flag) \in Sending /\ Routed(flag).phase = "retrieve"
               /\ Routed(flag).used = called.used /\ Routed(flag).calls = called.calls
    BY <1>1 DEF Sending, Exchange!Domains
  <2>3. called.used = called.calls
    BY <1>0, <1>1, <2>1 DEF SendingIsSound
  <2> HIDE DEF Routed, called
  <2>4. ASSUME NEW flag \in BOOLEAN PROVE SendingIsSound(Routed(flag))
    BY <2>2, <2>3 DEF SendingIsSound
  <2>5. Routed(TRUE) \in Sending /\ SendingIsSound(Routed(TRUE))
    <3>1. TRUE \in BOOLEAN
      OBVIOUS
    <3> QED
      BY <3>1, <2>2, <2>4, Zenon
  <2>6. PICK routed : routed = Routed(TRUE)
    OBVIOUS
  <2>7. /\ routed \in Sending /\ SendingIsSound(routed) /\ v3' = [v3 EXCEPT ![r] = routed]
    BY <2>1, <2>5, <2>6, Zenon
  <2> QED
    BY <2>1, <2>7, OneSending
<1> QED
  BY <1>2, <1>3, <1>4, <1>5

\* Four sources at most are looked at, three of them are cited.
LEMMA PrimaryIs ==
  ASSUME NEW n \in Nat
  PROVE  Exchange!Min({Exchange!Primary, n}) \in 0..n
<1> DEFINE S == {Exchange!Primary, n}
<1>1. \E x \in S : \A y \in S : x <= y
  BY DEF Exchange!Primary
<1>2. Exchange!Min(S) \in S /\ \A y \in S : Exchange!Min(S) <= y
  BY <1>1, Zenon DEF Exchange!Min
<1> HIDE DEF S
<1>3. Exchange!Min(S) \in {Exchange!Primary, n} /\ n \in S
  BY <1>2 DEF S
<1>4. Exchange!Min(S) \in Nat /\ Exchange!Min(S) <= n
  BY <1>2, <1>3 DEF Exchange!Primary
<1> QED
  BY <1>4 DEF S

LEMMA RetrievalKeeps ==
  ASSUME ExchangeInv, NEW r \in Messages, NEW found \in Seq(Excerpts), NEW alert \in BOOLEAN,
         Exchange!Retrieve(r, found, alert)
  PROVE  ExchangeInv'
<1> DEFINE row == v3[r]
<1>0. row \in Sending /\ SendingIsSound(row)
  BY RowIs
<1>1. UNCHANGED <<v1, v2>> /\ row.phase = "retrieve"
  BY Zenon DEF Exchange!Retrieve
<1>2. row.used = row.calls
  BY <1>0, <1>1 DEF SendingIsSound
<1>3. CASE found = <<>>
  <2>1. Exchange!Answering(r, row, "no_evidence", <<>>, <<>>)
    BY <1>3, Zenon DEF Exchange!Retrieve
  <2> QED
    BY <1>0, <1>1, <1>2, <2>1, PlainAnswerIsSound
<1>4. CASE found # <<>>
  <2> DEFINE next == [row EXCEPT !.phase = "generate", !.sources = found, !.alert = alert]
  <2>1. v3' = [v3 EXCEPT ![r] = next]
    <3>1. v3' = [v3 EXCEPT ![r].phase = "generate", ![r].sources = found, ![r].alert = alert]
      BY <1>4, Zenon DEF Exchange!Retrieve
    <3>2. v3 \in [Messages -> Sending]
      BY DEF ExchangeInv, ExchangeTypes
    <3> QED
      BY <3>1, <3>2
  <2>2. /\ next \in Sending /\ next.phase = "generate" /\ next.used = row.used
        /\ next.calls = row.calls
    BY <1>0 DEF Sending
  <2> HIDE DEF next
  <2>3. SendingIsSound(next)
    BY <1>2, <2>2 DEF SendingIsSound
  <2> QED
    BY <1>1, <2>1, <2>2, <2>3, OneSending
<1> QED
  BY <1>3, <1>4

LEMMA EvidenceKeeps ==
  ASSUME ExchangeInv, NEW r \in Messages,
         Exchange!AnswerCount(r) \/ \E i \in DOMAIN v3[r].sources : Exchange!AnswerFirstMention(r, i)
  PROVE  ExchangeInv'
<1> DEFINE row == v3[r]
           sources == row.sources
<1>0. row \in Sending /\ SendingIsSound(row) /\ sources \in Seq(Excerpts)
  BY RowIs DEF Sending
<1>a. Len(sources) \in Nat /\ DOMAIN sources = 1..Len(sources)
  BY <1>0
<1>b. "evidence" \in AnswerKinds
  BY DEF AnswerKinds
<1>1. CASE Exchange!AnswerCount(r)
  <2> DEFINE n == Exchange!Min({Exchange!Primary, Len(sources)})
             first == SubSeq(sources, 1, n)
             cited == Exchange!PresentReviewedSources(first, sources)
  <2>1. /\ UNCHANGED <<v1, v2>> /\ row.phase = "generate"
        /\ Exchange!Answering(r, row, "evidence", cited, <<1..n>>)
    BY <1>1, Zenon DEF Exchange!AnswerCount
  <2>2. n \in 0..Len(sources)
    BY <1>a, PrimaryIs
  <2> HIDE DEF n
  <2>3. first \in Seq(Excerpts) /\ Elements(first) \subseteq Elements(sources)
    BY <1>0, <1>a, <2>2 DEF Elements
  <2> HIDE DEF first
  <2>4. cited \in Seq(Excerpts) /\ Citable("evidence", cited, <<1..n>>, row.claims, sources)
    BY <1>0, <2>3, EvidenceIsCitable, Zenon
  <2>5. <<1..n>> \in Numbers
    BY <1>a, <2>2 DEF Numbers
  <2>6. row.used = row.calls
    BY <1>0, <2>1 DEF SendingIsSound
  <2> HIDE DEF cited
  <2> QED
    BY <1>0, <1>b, <2>1, <2>4, <2>5, <2>6, AnswerIsSound
<1>2. ASSUME NEW i \in DOMAIN sources, Exchange!AnswerFirstMention(r, i) PROVE ExchangeInv'
  <2> DEFINE first == <<sources[i]>>
             cited == Exchange!PresentReviewedSources(first, sources)
  <2>1. /\ UNCHANGED <<v1, v2>> /\ row.phase = "generate"
        /\ Exchange!Answering(r, row, "evidence", cited, <<{1}>>)
    BY <1>2, Zenon DEF Exchange!AnswerFirstMention
  <2>3. first \in Seq(Excerpts) /\ Elements(first) \subseteq Elements(sources)
    BY <1>0, <1>a DEF Elements
  <2> HIDE DEF first
  <2>4. cited \in Seq(Excerpts) /\ Citable("evidence", cited, <<{1}>>, row.claims, sources)
    BY <1>0, <2>3, EvidenceIsCitable, Zenon
  <2>5. <<{1}>> \in Numbers
    BY DEF Numbers
  <2>6. row.used = row.calls
    BY <1>0, <2>1 DEF SendingIsSound
  <2> HIDE DEF cited
  <2> QED
    BY <1>0, <1>b, <2>1, <2>4, <2>5, <2>6, AnswerIsSound
<1> QED
  BY <1>1, <1>2

LEMMA GenerationKeeps ==
  ASSUME ExchangeInv, NEW r \in Messages,
         Exchange!GenerateMismatch(r) \/ Exchange!GenerateOutOfScope(r)
  PROVE  ExchangeInv'
<1> DEFINE row == v3[r]
           called == Exchange!Called(r, row)
<1>0. row \in Sending /\ SendingIsSound(row)
  BY RowIs
<1>1. UNCHANGED <<v1, v2>> /\ row.phase = "generate"
  BY Zenon DEF Exchange!GenerateMismatch, Exchange!GenerateOutOfScope
<1>2. called \in Sending /\ called.used = called.calls
  BY <1>0, <1>1, CalledIs DEF SendingIsSound
<1> HIDE DEF called
<1>3. CASE Exchange!GenerateOutOfScope(r)
  <2>1. Exchange!Answering(r, called, "fixed", <<>>, <<>>)
    BY <1>3, Zenon DEF Exchange!GenerateOutOfScope, called
  <2> QED
    BY <1>1, <1>2, <2>1, PlainAnswerIsSound
<1>4. CASE Exchange!GenerateMismatch(r) /\ ~called.retry
  <2>1. Exchange!Answering(r, called, "clarify", <<>>, <<>>)
    BY <1>4, Zenon DEF Exchange!GenerateMismatch, called
  <2> QED
    BY <1>1, <1>2, <2>1, PlainAnswerIsSound
<1>5. CASE Exchange!GenerateMismatch(r) /\ called.retry
  <2> DEFINE Turned(flag) == [called EXCEPT !.phase = "retrieve", !.domain = Exchange!Other(@),
                                            !.retry = flag, !.sources = <<>>, !.alert = flag]
  <2>1. v3' = [v3 EXCEPT ![r] = Turned(FALSE)]
    BY <1>5, Zenon DEF Exchange!GenerateMismatch, called
  <2>2. Exchange!Other(called.domain) \in {"work", "application_help"}
    <3>1. called.domain \in {"work", "application_help"}
      BY <1>2 DEF Sending
    <3>2. \E d \in Exchange!Domains : d # called.domain
      BY <3>1 DEF Exchange!Domains
    <3>3. Exchange!Other(called.domain) \in Exchange!Domains
      BY <3>2, Zenon DEF Exchange!Other
    <3> QED
      BY <3>3 DEF Exchange!Domains
  <2>3. ASSUME NEW flag \in BOOLEAN
        PROVE  /\ Turned(flag) \in Sending /\ Turned(flag).phase = "retrieve"
               /\ Turned(flag).used = called.used /\ Turned(flag).calls = called.calls
    <3> DEFINE d == Exchange!Other(called.domain)
    <3>1. Turned(flag) = [called EXCEPT !.phase = "retrieve", !.domain = d,
                                        !.retry = flag, !.sources = <<>>, !.alert = flag]
      BY <1>2 DEF Sending
    <3>2. <<>> \in Seq(Excerpts)
      OBVIOUS
    <3> HIDE DEF d, Turned
    <3>3. d \in {"work", "application_help"}
      BY <2>2 DEF d
    <3> QED
      BY <1>2, <3>1, <3>2, <3>3 DEF Sending
  <2> HIDE DEF Turned
  <2>4. ASSUME NEW flag \in BOOLEAN PROVE SendingIsSound(Turned(flag))
    BY <1>2, <2>3 DEF SendingIsSound
  <2>5. Turned(FALSE) \in Sending /\ SendingIsSound(Turned(FALSE))
    <3>1. FALSE \in BOOLEAN
      OBVIOUS
    <3> QED
      BY <3>1, <2>3, <2>4, Zenon
  <2>6. PICK turned : turned = Turned(FALSE)
    OBVIOUS
  <2>7. turned \in Sending /\ SendingIsSound(turned) /\ v3' = [v3 EXCEPT ![r] = turned]
    BY <2>1, <2>5, <2>6, Zenon
  <2> QED
    BY <1>1, <2>7, OneSending
<1> QED
  BY <1>3, <1>4, <1>5

LEMMA ClaimsKeep ==
  ASSUME ExchangeInv, NEW r \in Messages, NEW claims \in Phrases, Exchange!Generate(r, claims)
  PROVE  ExchangeInv'
<1> DEFINE row == v3[r]
           called == Exchange!Called(r, row)
<1>0. row \in Sending /\ SendingIsSound(row)
  BY RowIs
<1>1. UNCHANGED <<v1, v2>> /\ row.phase = "generate"
  BY Zenon DEF Exchange!Generate
<1>2. called \in Sending /\ called.used = called.calls
  BY <1>0, <1>1, CalledIs DEF SendingIsSound
<1> HIDE DEF called
<1>3. CASE claims = <<>>
  <2>1. Exchange!Answering(r, called, "no_evidence", <<>>, <<>>)
    BY <1>3, Zenon DEF Exchange!Generate, called
  <2> QED
    BY <1>1, <1>2, <2>1, PlainAnswerIsSound
<1>4. CASE claims # <<>> /\ ~Exchange!Grounded(claims, called.sources)
  <2>1. Exchange!Answering(r, called, "ungrounded", <<>>, <<>>)
    BY <1>4, Zenon DEF Exchange!Generate, called
  <2> QED
    BY <1>1, <1>2, <2>1, PlainAnswerIsSound
<1>5. CASE claims # <<>> /\ Exchange!Grounded(claims, called.sources)
  <2> DEFINE next == [called EXCEPT !.phase = "verify", !.claims = claims]
  <2>1. v3' = [v3 EXCEPT ![r] = next]
    BY <1>5, Zenon DEF Exchange!Generate, called
  <2>2. /\ next \in Sending /\ next.phase = "verify" /\ next.used = called.used
        /\ next.calls = called.calls /\ next.claims = claims /\ next.sources = called.sources
    BY <1>2 DEF Sending
  <2> HIDE DEF next
  <2>3. SendingIsSound(next)
    BY <1>2, <1>5, <2>2 DEF SendingIsSound
  <2> QED
    BY <1>1, <2>1, <2>2, <2>3, OneSending
<1> QED
  BY <1>3, <1>4, <1>5

LEMMA VerificationKeeps ==
  ASSUME ExchangeInv, NEW r \in Messages, NEW supported \in BOOLEAN, Exchange!Verify(r, supported)
  PROVE  ExchangeInv'
<1> DEFINE row == v3[r]
           called == Exchange!Called(r, row)
           cited == Exchange!PresentReviewedSources(Exchange!UsedSources(called.claims), called.sources)
           numbers == Exchange!Citations(called.claims)
<1>0. row \in Sending /\ SendingIsSound(row)
  BY RowIs
<1>1. UNCHANGED <<v1, v2>> /\ row.phase = "verify"
  BY Zenon DEF Exchange!Verify
<1>2. /\ called \in Sending /\ called.used = called.calls
      /\ called.claims \in Phrases /\ called.sources \in Seq(Excerpts)
      /\ Exchange!Grounded(called.claims, called.sources)
  <2>1. /\ called \in Sending /\ called.used = called.calls
        /\ called.claims = row.claims /\ called.sources = row.sources
    BY <1>0, <1>1, CalledIs DEF SendingIsSound
  <2>2. Exchange!Grounded(row.claims, row.sources)
    BY <1>0, <1>1 DEF SendingIsSound
  <2> HIDE DEF called
  <2>3. called.claims \in Phrases /\ called.sources \in Seq(Excerpts)
    BY <2>1 DEF Sending
  <2> QED
    BY <2>1, <2>2, <2>3
<1> HIDE DEF called
<1>3. CASE supported
  <2>1. Exchange!Answering(r, called, "grounded", cited, numbers)
    BY <1>3, Zenon DEF Exchange!Verify, called
  <2>2. /\ cited \in Seq(Excerpts) /\ numbers \in Numbers
        /\ Citable("grounded", cited, numbers, called.claims, called.sources)
    BY <1>2, GroundedIsCitable, Zenon
  <2>3. "grounded" \in AnswerKinds
    BY DEF AnswerKinds
  <2> HIDE DEF cited, numbers
  <2> QED
    BY <1>1, <1>2, <2>1, <2>2, <2>3, AnswerIsSound
<1>4. CASE ~supported
  <2>1. Exchange!Answering(r, called, "no_evidence", <<>>, <<>>)
    BY <1>4, Zenon DEF Exchange!Verify, called
  <2> QED
    BY <1>1, <1>2, <2>1, PlainAnswerIsSound
<1> QED
  BY <1>3, <1>4

LEMMA CountKeeps ==
  ASSUME ExchangeInv, NEW r \in Messages, Exchange!CountMessages(r)
  PROVE  ExchangeInv'
<1> DEFINE row == v3[r]
           next == [row EXCEPT !.phase = "store", !.counted = Len(v2)]
<1>0. row \in Sending /\ SendingIsSound(row)
  BY RowIs
<1>1. UNCHANGED <<v1, v2>> /\ row.phase = "persist"
  BY Zenon DEF Exchange!CountMessages
<1>2. v3' = [v3 EXCEPT ![r] = next]
  BY DEF Exchange!CountMessages, ExchangeInv, ExchangeTypes
<1>3. Len(v2) \in Nat
  BY DEF ExchangeInv, ExchangeTypes
<1>4. /\ next \in Sending /\ next.phase = "store" /\ next.used = row.used /\ next.calls = row.calls
      /\ next.answer = row.answer /\ next.cited = row.cited /\ next.numbers = row.numbers
      /\ next.claims = row.claims /\ next.sources = row.sources
  BY <1>0, <1>3 DEF Sending
<1> HIDE DEF next
<1>5. SendingIsSound(next)
  BY <1>0, <1>1, <1>4 DEF SendingIsSound
<1> QED
  BY <1>1, <1>2, <1>4, <1>5, OneSending

\* What is stored for a row.
Stored(r, row, flag) ==
  [of |-> r, answer |-> row.answer, tokens |-> row.used, sources |-> row.cited,
   numbers |-> row.numbers, notice |-> flag]

LEMMA StoreKeeps ==
  ASSUME ExchangeInv, NEW r \in Messages, Exchange!Store(r)
  PROVE  ExchangeInv'
<1> DEFINE row == v3[r]
<1>0. row \in Sending /\ SendingIsSound(row)
  BY RowIs
<1>1. row.phase = "store"
  BY Zenon DEF Exchange!Store
<1>2. CASE v1.there = "gone"
  <2>1. Exchange!Fail(r) /\ UNCHANGED <<v1, v2>>
    BY <1>2, Zenon DEF Exchange!Store
  <2> QED
    BY <1>1, <2>1, FailIsSound
<1>3. CASE v1.there # "gone"
  <2> DEFINE sent == Sent(Exchange!NotSent, row.calls, row.sources, row.claims)
             noticed == row.alert /\ row.answer \in {"evidence", "grounded", "no_evidence", "ungrounded"}
  <2>1. /\ v2' = Append(v2, Stored(r, row, noticed))
        /\ v1' = [v1 EXCEPT !.title = Exchange!Titled(r)]
        /\ v3' = [v3 EXCEPT ![r] = sent]
    BY <1>3, Zenon DEF Exchange!Store, Stored, Sent
  <2>2. PICK flag \in BOOLEAN : flag = noticed
    BY Zenon
  <2> HIDE DEF noticed
  <2> DEFINE m == Stored(r, row, flag)
  <2>3. v2' = Append(v2, m)
    BY <2>1, <2>2, Zenon
  <2>4. /\ m \in StoredAnswer /\ m.of = r /\ m.tokens = row.used /\ m.answer = row.answer
        /\ m.sources = row.cited /\ m.numbers = row.numbers
    BY <1>0 DEF Sending, StoredAnswer, Stored
  <2>5. /\ sent \in Sending /\ sent.phase = "done" /\ sent.calls = row.calls
        /\ sent.sources = row.sources /\ sent.claims = row.claims
    <3>1. row.calls \in Nat /\ row.sources \in Seq(Excerpts) /\ row.claims \in Phrases
      BY <1>0 DEF Sending
    <3> QED
      BY <3>1, NotSentIs, SentIs
  <2> HIDE DEF m, sent
  <2>6. StoredIsSound(m, sent) /\ SendingIsSound(sent)
    BY <1>0, <1>1, <2>4, <2>5 DEF StoredIsSound, SendingIsSound
  <2>7. /\ v2 \in Seq(StoredAnswer) /\ v3 \in [Messages -> Sending] /\ v1 \in Threads
    BY DEF ExchangeInv, ExchangeTypes
  <2>8. /\ v2' \in Seq(StoredAnswer) /\ Len(v2') = Len(v2) + 1 /\ Len(v2) \in Nat
        /\ \A i \in 1..Len(v2) : v2'[i] = v2[i]
        /\ v2'[Len(v2) + 1] = m
    BY <2>3, <2>4, <2>7, Appended
  <2>9. v1' \in Threads
    <3>1. Exchange!Titled(r) \in {"default", "author", "question"}
      BY <2>7 DEF Exchange!Titled, Threads
    <3> QED
      BY <2>1, <2>7, <3>1 DEF Threads
  <2>10. \A q \in Messages : v3'[q] = IF q = r THEN sent ELSE v3[q]
    BY <2>1, <2>7
  <2>11. ExchangeTypes'
    BY <2>1, <2>5, <2>7, <2>8, <2>9 DEF ExchangeTypes
  <2>12. \A q \in Messages : SendingIsSound(v3'[q])
    BY <2>6, <2>10 DEF ExchangeInv
  <2>13. ASSUME NEW i \in DOMAIN v2' PROVE StoredIsSound(v2'[i], v3'[v2'[i].of])
    <3>1. i \in 1..(Len(v2) + 1)
      BY <2>8
    <3>2. CASE i = Len(v2) + 1
      BY <2>4, <2>6, <2>8, <2>10, <3>2
    <3>3. CASE i # Len(v2) + 1
      <4>1. i \in 1..Len(v2) /\ i \in DOMAIN v2 /\ v2'[i] = v2[i] /\ v2[i] \in StoredAnswer
        BY <2>7, <2>8, <3>1, <3>3
      <4>2. StoredIsSound(v2[i], v3[v2[i].of])
        BY <4>1 DEF ExchangeInv
      <4>3. v2[i].of \in Messages /\ v2[i].of # r
        BY <1>1, <4>1, <4>2 DEF StoredIsSound, StoredAnswer
      <4>4. v3'[v2[i].of] = v3[v2[i].of]
        BY <2>10, <4>3
      <4> QED
        BY <4>1, <4>2, <4>4
    <3> QED
      BY <3>2, <3>3
  <2> QED
    BY <2>11, <2>12, <2>13 DEF ExchangeInv, SendingIsSound, StoredIsSound
<1> QED
  BY <1>2, <1>3

LEMMA ExchangeKeeps == ASSUME ExchangeInv, Exchange!Next PROVE ExchangeInv'
<1>0. /\ Retrievals \subseteq Seq(Excerpts)
      /\ Generated \subseteq Phrases
  BY AnswersAssumption DEF Exchange!ExchangeAssumption, Phrases, Evidence
<1>1. CASE Exchange!UpdateTitle \/ Exchange!UpdateArchived \/ Exchange!DeleteThread \/ Exchange!DeleteProject
  BY <1>1, AuthorIsHarmless
<1>2. ASSUME NEW r \in Messages, Exchange!Abort(r) \/ Exchange!ModelFails(r) PROVE ExchangeInv'
  BY <1>2, FailIsSound DEF Exchange!Abort, Exchange!ModelFails, Exchange!InFlight
<1>3. ASSUME NEW r \in Messages,
             \/ Exchange!Send(r) \/ Exchange!RouteByPolicy(r) \/ Exchange!RouteToFixedAnswer(r)
             \/ \E domain \in Exchange!Domains : Exchange!RouteToDomain(r, domain)
      PROVE  ExchangeInv'
  BY <1>3, RoutingKeeps
<1>4. ASSUME NEW r \in Messages, NEW found \in Retrievals, NEW alert \in BOOLEAN,
             Exchange!Retrieve(r, found, alert)
      PROVE  ExchangeInv'
  BY <1>0, <1>4, RetrievalKeeps
<1>5. ASSUME NEW r \in Messages,
             Exchange!AnswerCount(r) \/ \E i \in DOMAIN v3[r].sources : Exchange!AnswerFirstMention(r, i)
      PROVE  ExchangeInv'
  BY <1>5, EvidenceKeeps
<1>6. ASSUME NEW r \in Messages, Exchange!GenerateMismatch(r) \/ Exchange!GenerateOutOfScope(r)
      PROVE  ExchangeInv'
  BY <1>6, GenerationKeeps
<1>7. ASSUME NEW r \in Messages, NEW claims \in Generated, Exchange!Generate(r, claims) PROVE ExchangeInv'
  BY <1>0, <1>7, ClaimsKeep
<1>8. ASSUME NEW r \in Messages, NEW supported \in BOOLEAN, Exchange!Verify(r, supported) PROVE ExchangeInv'
  BY <1>8, VerificationKeeps
<1>9. ASSUME NEW r \in Messages, Exchange!CountMessages(r) PROVE ExchangeInv'
  BY <1>9, CountKeeps
<1>10. ASSUME NEW r \in Messages, Exchange!Store(r) PROVE ExchangeInv'
  BY <1>10, StoreKeeps
<1> QED
  BY <1>1, <1>2, <1>3, <1>4, <1>5, <1>6, <1>7, <1>8, <1>9, <1>10, Zenon DEF Exchange!Next
-----------------------------------------------------------------------------
\* Whatever a generation claims and a retrieval returns, whoever aborts or fails, the
\* numbers after a stored statement are the places of exactly the sources it rests on,
\* and the tokens stored with an answer are those of every call made for it.
THEOREM StoredAnswersAreSound == AnswersSpec => []AnswersAreSound
<1> DEFINE Inv == part = "exchange" => ExchangeInv
<1>1. AnswersInit => Inv
  BY ExchangeStarts DEF AnswersInit
<1>2. Inv /\ [AnswersNext]_answersVars => Inv'
  <2> SUFFICES ASSUME Inv, [AnswersNext]_answersVars, part' = "exchange" PROVE ExchangeInv'
    OBVIOUS
  <2>1. part = "exchange" /\ (Exchange!Next \/ UNCHANGED <<v1, v2, v3, v4>>)
    BY DEF AnswersNext, answersVars
  <2>2. CASE Exchange!Next
    BY <2>1, <2>2, ExchangeKeeps
  <2>3. CASE UNCHANGED <<v1, v2, v3, v4>>
    BY <2>1, <2>3 DEF ExchangeInv, ExchangeTypes, SendingIsSound, StoredIsSound
  <2> QED
    BY <2>1, <2>2, <2>3
<1>3. Inv => AnswersAreSound
  BY ExchangeAnswersAreSound DEF AnswersAreSound
<1> QED
  BY <1>1, <1>2, <1>3, PTL DEF AnswersSpec
-----------------------------------------------------------------------------
(* ChatSources: v1 is the question, v2 how many sources each ranking has,  *)
(* v3 whether the context v4 is there.                                     *)

Kinds == Selection!Kinds
Source == [kind : Kinds, rank : Nat]

\* What one source more does to a context.
Taken(fitted, source) ==
  IF Len(fitted.list) >= MaxContext \/ fitted.size + SourceSize[source.kind] > MaxSize
  THEN fitted
  ELSE [list |-> Append(fitted.list, source), size |-> fitted.size + SourceSize[source.kind]]

AreTaken(f, sources) ==
  f = [n \in 0..Len(sources) |-> IF n = 0 THEN [list |-> <<>>, size |-> 0] ELSE Taken(f[n - 1], sources[n])]

TakesThem(f, sources) ==
  /\ f[0] = [list |-> <<>>, size |-> 0] /\ Selection!FitContext(sources) = f[Len(sources)].list
  /\ \A n \in 1..Len(sources) : f[n] = Taken(f[n - 1], sources[n])

LEMMA TakenAre ==
  ASSUME NEW sources \in Seq(Source)
  PROVE  \E f : TakesThem(f, sources)
<1> DEFINE n == Len(sources)
           Acc == [list : Seq(Source), size : Nat]
           start == [list |-> <<>>, size |-> 0]
           step == [p \in Acc \X (1..n) |-> Taken(p[1], sources[p[2]])]
           f == CHOOSE g : AreTaken(g, sources)
<1>0. Len(sources) \in Nat /\ \A j \in 1..Len(sources) : sources[j] \in Source
  OBVIOUS
<1>a. ASSUME NEW fitted \in Acc, NEW source \in Source PROVE Taken(fitted, source) \in Acc
  <2>1. fitted.list \in Seq(Source) /\ fitted.size \in Nat /\ SourceSize[source.kind] \in Nat
    BY AnswersAssumption DEF Selection!SizeAssumption, Source, Kinds
  <2>2. Append(fitted.list, source) \in Seq(Source) /\ fitted.size + SourceSize[source.kind] \in Nat
    BY <2>1
  <2> QED
    BY <2>2 DEF Taken
<1>1. step \in [Acc \X (1..n) -> Acc]
  <2> HIDE DEF Acc
  <2> QED
    BY <1>0, <1>a
<1>2. PICK g : IsLoop(g, n, start, step)
  <2> HIDE DEF step, start
  <2> QED
    BY <1>0, LoopExists
<1>3. \A i \in 0..n : g[i] \in Acc
  <2>1. n \in Nat /\ start \in Acc
    BY <1>0
  <2> HIDE DEF step, Acc, n, start
  <2> QED
    BY <1>1, <1>2, <2>1, LoopStays
<1>4. AreTaken(g, sources)
  <2>1. ASSUME NEW i \in 0..n, i # 0 PROVE step[<<g[i - 1], i>>] = Taken(g[i - 1], sources[i])
    <3>1. i - 1 \in 0..n /\ i \in 1..n
      BY <1>0, <2>1
    <3>2. <<g[i - 1], i>> \in Acc \X (1..n)
      BY <1>3, <3>1
    <3> HIDE DEF Acc
    <3> QED
      BY <3>2
  <2> HIDE DEF step
  <2> QED
    BY <1>2, <2>1 DEF IsLoop, AreTaken
<1>5. AreTaken(f, sources)
  <2>1. \E h : AreTaken(h, sources)
    BY <1>4
  <2> QED
    BY <2>1, Zenon
<1>6. Selection!FitContext(sources) = f[Len(sources)].list
  BY Zenon DEF Selection!FitContext, AreTaken, Taken
<1> HIDE DEF f
<1>7. 0 \in 0..Len(sources) /\ \A j \in 1..Len(sources) : j \in 0..Len(sources) /\ j # 0
  BY <1>0
<1>8. f[0] = start /\ \A j \in 1..Len(sources) : f[j] = Taken(f[j - 1], sources[j])
  BY <1>5, <1>7 DEF AreTaken
<1> QED
  BY <1>6, <1>8, Zenon DEF TakesThem

\* As long as there is a place, there is room.
LEMMA ThereIsRoom ==
  ASSUME NEW places \in Nat, NEW room \in Nat, NEW taken \in Nat, NEW size \in Nat, NEW more \in Nat,
         taken < places, places * more <= room, places * size <= taken * room
  PROVE  size + more <= room /\ places * (size + more) <= (taken + 1) * room
<1>1. places * (size + more) = places * size + places * more
  OBVIOUS
<1>2. (taken + 1) * room = taken * room + room
  OBVIOUS
<1>3. places * (size + more) <= (taken + 1) * room
  <2> DEFINE a == places * size
             b == places * more
             c == taken * room
  <2>1. a \in Nat /\ b \in Nat /\ c \in Nat /\ a <= c /\ b <= room
    OBVIOUS
  <2> HIDE DEF a, b, c
  <2>2. a + b <= c + room
    BY <2>1
  <2> QED
    BY <1>1, <1>2, <2>2 DEF a, b, c
<1>4. (taken + 1) * room <= places * room
  <2>1. PICK left \in Nat : places = taken + 1 + left
    <3>1. places - (taken + 1) \in Nat
      OBVIOUS
    <3> QED
      BY <3>1
  <2>2. places * room = (taken + 1) * room + left * room
    BY <2>1
  <2>3. left * room \in Nat /\ (taken + 1) * room \in Nat
    BY <2>1
  <2> QED
    BY <2>2, <2>3
<1>5. ASSUME size + more > room PROVE FALSE
  <2>1. PICK over \in Nat : size + more = room + 1 + over
    <3>1. size + more - (room + 1) \in Nat
      BY <1>5
    <3> QED
      BY <3>1
  <2>2. places * (size + more) = places * room + places + places * over
    BY <2>1
  <2>3. places * over \in Nat /\ places * room \in Nat /\ places >= 1 /\ (taken + 1) * room \in Nat
        /\ places * (size + more) \in Nat
    BY <2>1
  <2> QED
    BY <1>3, <1>4, <2>2, <2>3
<1> QED
  BY <1>3, <1>5

\* The first n of the sources.
Begins(list, sources, n) ==
  /\ list \in Seq(Source) /\ Len(list) = n
  /\ \A i \in 1..n : list[i] = sources[i]

Least(m, n) == IF m < n THEN m ELSE n

\* What fits is the first sources, as many as a context holds.
LEMMA FirstSourcesFit ==
  ASSUME NEW sources \in Seq(Source)
  PROVE  Begins(Selection!FitContext(sources), sources, Least(Len(sources), MaxContext))
<1>0. /\ Len(sources) \in Nat /\ \A j \in 1..Len(sources) : sources[j] \in Source
      /\ MaxContext \in Nat /\ MaxContext > 0 /\ MaxSize \in Nat
  BY AnswersAssumption DEF Selection!SizeAssumption
<1>1. PICK f : TakesThem(f, sources)
  BY TakenAre
<1> DEFINE Good == {n \in 0..Len(sources) :
                     LET t == Least(n, MaxContext)
                     IN /\ Begins(f[n].list, sources, t) /\ f[n].size \in Nat
                        /\ MaxContext * f[n].size <= t * MaxSize}
<1>2. 0 \in Good
  <2>1. f[0] = [list |-> <<>>, size |-> 0]
    BY <1>1 DEF TakesThem
  <2>2. Least(0, MaxContext) = 0
    BY <1>0 DEF Least
  <2>3. f[0].list = <<>> /\ f[0].size = 0 /\ MaxContext * 0 <= 0 * MaxSize
    BY <1>0, <2>1
  <2>4. Begins(<<>>, sources, 0)
    BY DEF Begins
  <2> QED
    BY <1>0, <2>2, <2>3, <2>4
<1>3. ASSUME NEW n \in 1..Len(sources), n - 1 \in Good PROVE n \in Good
  <2> DEFINE t == Least(n - 1, MaxContext)
             u == Least(n, MaxContext)
             list == f[n - 1].list
             size == f[n - 1].size
             more == SourceSize[sources[n].kind]
  <2>1. Begins(list, sources, t) /\ size \in Nat /\ MaxContext * size <= t * MaxSize
    BY <1>3
  <2>2. t \in Nat /\ t <= MaxContext /\ n \in Nat
    BY <1>0 DEF Least
  <2>3. /\ sources[n] \in Source /\ more \in Nat /\ MaxContext * more <= MaxSize
    <3>1. sources[n] \in Source /\ sources[n].kind \in Kinds
      BY <1>0 DEF Source
    <3> QED
      BY <3>1, AnswersAssumption DEF Selection!SizeAssumption, Kinds
  <2>4. f[n] = Taken(f[n - 1], sources[n])
    BY <1>1 DEF TakesThem
  <2>5. Len(list) = t /\ list \in Seq(Source)
    BY <2>1 DEF Begins
  <2> HIDE DEF list, size, more
  <2>6. CASE t = MaxContext
    <3>1. u = t
      BY <1>0, <2>2, <2>6 DEF Least
    <3>2. f[n] = f[n - 1]
      BY <2>4, <2>5, <2>6, <1>0 DEF Taken, list
    <3> HIDE DEF t, u
    <3>3. Begins(f[n].list, sources, u) /\ f[n].size \in Nat /\ MaxContext * f[n].size <= u * MaxSize
      BY <2>1, <3>1, <3>2 DEF list, size
    <3> QED
      BY <3>3 DEF u
  <2>7. CASE t # MaxContext
    <3>1. t < MaxContext
      BY <1>0, <2>2, <2>7
    <3>2. u = t + 1 /\ t + 1 = n
      BY <1>0, <2>2, <3>1 DEF Least
    <3> HIDE DEF t
    <3>3. size + more <= MaxSize /\ MaxContext * (size + more) <= (t + 1) * MaxSize
      BY <1>0, <2>1, <2>2, <2>3, <3>1, ThereIsRoom
    <3>4. f[n] = [list |-> Append(list, sources[n]), size |-> size + more]
      <4>1. ~(Len(list) >= MaxContext \/ size + more > MaxSize)
        BY <1>0, <2>1, <2>2, <2>3, <2>5, <3>1, <3>3
      <4> QED
        BY <2>4, <4>1 DEF Taken, list, size, more
    <3>5. f[n].list = Append(list, sources[n]) /\ f[n].size = size + more
      BY <3>4
    <3>6. Begins(Append(list, sources[n]), sources, t + 1)
      <4>1. /\ Append(list, sources[n]) \in Seq(Source) /\ Len(Append(list, sources[n])) = t + 1
            /\ \A i \in 1..t : Append(list, sources[n])[i] = list[i]
            /\ Append(list, sources[n])[t + 1] = sources[n]
        BY <2>3, <2>5, Appended
      <4>2. \A i \in 1..t : list[i] = sources[i]
        BY <2>1 DEF Begins
      <4>3. \A i \in 1..(t + 1) : i \in 1..t \/ i = t + 1
        BY <2>2
      <4> QED
        BY <3>2, <4>1, <4>2, <4>3 DEF Begins
    <3>7. size + more \in Nat
      BY <2>1, <2>3
    <3>8. Begins(f[n].list, sources, u) /\ f[n].size \in Nat /\ MaxContext * f[n].size <= u * MaxSize
      BY <3>2, <3>3, <3>5, <3>6, <3>7
    <3> QED
      BY <3>8
  <2> QED
    BY <2>6, <2>7
<1>4. Good = 0..Len(sources)
  <2>1. Good \in SUBSET (0..Len(sources))
    OBVIOUS
  <2> HIDE DEF Good
  <2> QED
    BY <1>0, <1>2, <1>3, <2>1, CountedUp
<1>5. Len(sources) \in Good
  <2> HIDE DEF Good
  <2> QED
    BY <1>0, <1>4
<1> QED
  BY <1>1, <1>5 DEF TakesThem

\* A ranking of each kind, of so many sources, mixed in some order.
Ranked(s, d) ==
  /\ s \in Seq(Source)
  /\ d \in [Kinds -> Nat]
  /\ \A i \in 1..Len(s) : s[i].rank \in 1..d[s[i].kind]
  /\ \A k \in Kinds : \A r \in 1..d[k] : \E i \in 1..Len(s) : s[i] = [kind |-> k, rank |-> r]
  /\ \A i, j \in 1..Len(s) : i < j /\ s[i].kind = s[j].kind => s[i].rank < s[j].rank
  /\ Len(s) = d["manuscript"] + d["wiki"] + d["timeline"]

\* A part of the ranking of a kind.
Run(t, k, from, to) ==
  /\ t \in Seq(Source) /\ from \in Nat /\ to \in Nat /\ Len(t) = to - from
  /\ \A i \in 1..Len(t) : t[i] = [kind |-> k, rank |-> from + i]

LEMMA Joined ==
  ASSUME NEW S, NEW s \in Seq(S), NEW t \in Seq(S)
  PROVE  /\ s \o t \in Seq(S) /\ Len(s \o t) = Len(s) + Len(t) /\ Len(s) \in Nat /\ Len(t) \in Nat
         /\ \A i \in 1..Len(s) : (s \o t)[i] = s[i]
         /\ \A i \in 1..Len(t) : (s \o t)[Len(s) + i] = t[i]
         /\ \A i \in 1..Len(s \o t) : i \in 1..Len(s) \/ (i - Len(s) \in 1..Len(t) /\ (s \o t)[i] = t[i - Len(s)])
         /\ s \o <<>> = s /\ <<>> \o s = s
OBVIOUS

LEMMA NothingRanked == Ranked(<<>>, [k \in Kinds |-> 0])
BY DEF Ranked, Kinds, Selection!Kinds

\* The next part of a kind continues its ranking.
LEMMA RunContinues ==
  ASSUME NEW s, NEW d, Ranked(s, d), NEW k \in Kinds, NEW to \in Nat, NEW t, Run(t, k, d[k], to)
  PROVE  Ranked(s \o t, [d EXCEPT ![k] = to])
<1> DEFINE u == s \o t
           e == [d EXCEPT ![k] = to]
           m == Len(s)
           n == Len(t)
<1>0. s \in Seq(Source) /\ t \in Seq(Source) /\ d \in [Kinds -> Nat]
  BY DEF Ranked, Run
<1>1. \A i \in 1..m : s[i].rank \in 1..d[s[i].kind] /\ s[i] \in Source
  BY DEF Ranked
<1>t. \A i \in 1..n : t[i] = [kind |-> k, rank |-> d[k] + i]
  BY DEF Run
<1>2. /\ u \in Seq(Source) /\ Len(u) = m + n /\ m \in Nat /\ n \in Nat
      /\ \A i \in 1..m : u[i] = s[i]
      /\ \A i \in 1..n : u[m + i] = t[i]
      /\ \A i \in 1..(m + n) : i \in 1..m \/ (i - m \in 1..n /\ u[i] = t[i - m])
  BY <1>0, Joined
<1>3. /\ e \in [Kinds -> Nat] /\ e[k] = to /\ \A l \in Kinds : l # k => e[l] = d[l]
      /\ d[k] \in Nat /\ to = d[k] + n /\ d[k] <= to /\ \A l \in Kinds : d[l] \in Nat
  BY <1>0, <1>2 DEF Run
<1> HIDE DEF u, e, m, n
<1>4. \A i \in 1..m : u[i].kind \in Kinds /\ u[i].rank \in 1..d[u[i].kind]
  BY <1>1, <1>2 DEF Source
<1>5. ASSUME NEW i \in 1..(m + n), i \notin 1..m
      PROVE  i - m \in 1..n /\ u[i].kind = k /\ u[i].rank = d[k] + (i - m)
  <2>1. i - m \in 1..n /\ u[i] = t[i - m]
    BY <1>2, <1>5
  <2>2. u[i] = [kind |-> k, rank |-> d[k] + (i - m)]
    BY <1>t, <2>1
  <2> QED
    BY <2>1, <2>2
<1>6. ASSUME NEW i \in 1..(m + n) PROVE u[i].rank \in 1..e[u[i].kind]
  <2>1. CASE i \in 1..m
    BY <1>3, <1>4, <2>1
  <2>2. CASE i \notin 1..m
    <3>1. i - m \in 1..n /\ u[i].kind = k /\ u[i].rank = d[k] + (i - m)
      BY <1>5, <2>2
    <3> QED
      BY <1>2, <1>3, <3>1
  <2> QED
    BY <2>1, <2>2
<1>7. ASSUME NEW l \in Kinds, NEW r \in 1..e[l]
      PROVE  \E i \in 1..(m + n) : u[i] = [kind |-> l, rank |-> r]
  <2>1. CASE r \in 1..d[l]
    <3>1. PICK i \in 1..m : s[i] = [kind |-> l, rank |-> r]
      BY <2>1 DEF Ranked, m
    <3>2. i \in 1..(m + n) /\ u[i] = [kind |-> l, rank |-> r]
      BY <1>2, <3>1
    <3> QED
      BY <3>2
  <2>2. CASE r \notin 1..d[l]
    <3>1. l = k /\ r - d[k] \in 1..n
      BY <1>2, <1>3, <2>2
    <3>2. m + (r - d[k]) \in 1..(m + n) /\ u[m + (r - d[k])] = t[r - d[k]]
      BY <1>2, <1>3, <3>1
    <3>3. t[r - d[k]] = [kind |-> k, rank |-> d[k] + (r - d[k])] /\ d[k] + (r - d[k]) = r
      BY <1>t, <1>3, <3>1
    <3> QED
      BY <3>1, <3>2, <3>3
  <2> QED
    BY <2>1, <2>2
<1>8. ASSUME NEW i \in 1..(m + n), NEW j \in 1..(m + n), i < j, u[i].kind = u[j].kind
      PROVE  u[i].rank < u[j].rank
  <2>1. CASE j \in 1..m
    <3>1. i \in 1..m /\ u[i] = s[i] /\ u[j] = s[j]
      BY <1>2, <1>8, <2>1
    <3> QED
      BY <1>8, <2>1, <3>1 DEF Ranked, m
  <2>2. CASE j \notin 1..m /\ i \in 1..m
    <3>1. u[j].kind = k /\ u[j].rank = d[k] + (j - m) /\ j - m \in 1..n
      BY <1>5, <2>2
    <3>2. u[i].rank \in 1..d[k]
      BY <1>4, <1>8, <2>2, <3>1
    <3> QED
      BY <1>3, <3>1, <3>2
  <2>3. CASE j \notin 1..m /\ i \notin 1..m
    <3>1. /\ u[j].rank = d[k] + (j - m) /\ j - m \in 1..n
          /\ u[i].rank = d[k] + (i - m) /\ i - m \in 1..n
      BY <1>5, <2>3
    <3> QED
      BY <1>2, <1>3, <1>8, <3>1
  <2> QED
    BY <2>1, <2>2, <2>3
<1>9. Len(u) = e["manuscript"] + e["wiki"] + e["timeline"]
  <2>1. m = d["manuscript"] + d["wiki"] + d["timeline"]
    BY DEF Ranked, m
  <2>2. k \in {"manuscript", "wiki", "timeline"} /\ Kinds = {"manuscript", "wiki", "timeline"}
    BY DEF Kinds, Selection!Kinds
  <2>3. d["manuscript"] \in Nat /\ d["wiki"] \in Nat /\ d["timeline"] \in Nat
    BY <1>0, <2>2
  <2>4. Len(u) = m + n /\ to = d[k] + n /\ n \in Nat
    BY <1>2, <1>3
  <2>5. CASE k = "manuscript"
    <3>1. e["manuscript"] = to /\ e["wiki"] = d["wiki"] /\ e["timeline"] = d["timeline"]
      BY <1>3, <2>2, <2>5
    <3> QED
      BY <2>1, <2>3, <2>4, <2>5, <3>1
  <2>6. CASE k = "wiki"
    <3>1. e["wiki"] = to /\ e["manuscript"] = d["manuscript"] /\ e["timeline"] = d["timeline"]
      BY <1>3, <2>2, <2>6
    <3> QED
      BY <2>1, <2>3, <2>4, <2>6, <3>1
  <2>7. CASE k = "timeline"
    <3>1. e["timeline"] = to /\ e["manuscript"] = d["manuscript"] /\ e["wiki"] = d["wiki"]
      BY <1>3, <2>2, <2>7
    <3> QED
      BY <2>1, <2>3, <2>4, <2>7, <3>1
  <2> QED
    BY <2>2, <2>5, <2>6, <2>7
<1>10. Len(u) = m + n
  BY <1>2
<1>11. Ranked(u, e)
  <2>1. /\ u \in Seq(Source) /\ e \in [Kinds -> Nat]
    BY <1>2, <1>3
  <2>2. \A i \in 1..Len(u) : u[i].rank \in 1..e[u[i].kind]
    BY <1>6, <1>10
  <2>3. \A l \in Kinds : \A r \in 1..e[l] : \E i \in 1..Len(u) : u[i] = [kind |-> l, rank |-> r]
    BY <1>7, <1>10
  <2>4. \A i, j \in 1..Len(u) : i < j /\ u[i].kind = u[j].kind => u[i].rank < u[j].rank
    BY <1>8, <1>10
  <2> QED
    BY <1>9, <2>1, <2>2, <2>3, <2>4, Zenon DEF Ranked
<1> QED
  BY <1>11 DEF u, e

\* Numbers with all numbers below them.
LEMMA InitialSegment ==
  ASSUME NEW n \in Nat, NEW X \in SUBSET (1..n), \A r \in X : \A q \in 1..r : q \in X
  PROVE  X = 1..Cardinality(X)
<1> DEFINE Good == {m \in 0..n : \E l \in 0..m : X \cap (1..m) = 1..l}
<1>1. 0 \in Good
  <2>1. X \cap (1..0) = 1..0 /\ 0 \in 0..0
    OBVIOUS
  <2> QED
    BY <2>1
<1>2. ASSUME NEW m \in 1..n, m - 1 \in Good PROVE m \in Good
  <2>1. CASE m \in X
    <3>1. X \cap (1..m) = 1..m /\ m \in 0..m
      BY <2>1
    <3> QED
      BY <3>1
  <2>2. CASE m \notin X
    <3>1. PICK l \in 0..(m - 1) : X \cap (1..(m - 1)) = 1..l
      BY <1>2
    <3>2. 1..m = (1..(m - 1)) \cup {m}
      OBVIOUS
    <3>3. X \cap (1..m) = 1..l /\ l \in 0..m
      BY <2>2, <3>1, <3>2
    <3> QED
      BY <3>3
  <2> QED
    BY <2>1, <2>2
<1>3. n \in Good
  <2>1. Good \in SUBSET (0..n) /\ n \in 0..n
    OBVIOUS
  <2> HIDE DEF Good
  <2> QED
    BY <1>1, <1>2, <2>1, CountedUp
<1>4. PICK l \in 0..n : X \cap (1..n) = 1..l
  BY <1>3
<1>5. X = 1..l
  BY <1>4
<1>6. Cardinality(1..l) = l
  BY FS_Interval
<1> QED
  BY <1>5, <1>6

LEMMA SameCount == ASSUME NEW S PROVE Selection!Cardinality(S) = Cardinality(S)
BY Zenon DEF Selection!Cardinality, Cardinality, Selection!IsFiniteSet, IsFiniteSet

\* What a context of the first sources of a mix holds.
LEMMA FirstOfRanked ==
  ASSUME NEW mix, NEW d, Ranked(mix, d), NEW n \in Nat, n <= Len(mix), NEW list, Begins(list, mix, n)
  PROVE  /\ Len(list) = Selection!Cardinality(Selection!Range(list))
         /\ \A k \in Kinds :
              LET ranks == {list[i].rank : i \in {j \in DOMAIN list : list[j].kind = k}}
              IN ranks = 1..Selection!Cardinality(ranks)
<1>1. /\ list \in Seq(Source) /\ Len(list) = n /\ DOMAIN list = 1..n
      /\ \A i \in 1..n : list[i] = mix[i] /\ i \in 1..Len(mix)
  <2>1. list \in Seq(Source) /\ Len(list) = n /\ \A i \in 1..n : list[i] = mix[i]
    BY DEF Begins
  <2>2. mix \in Seq(Source)
    BY DEF Ranked
  <2> QED
    BY <2>1, <2>2
<1>2. \A i, j \in 1..Len(mix) : i < j /\ mix[i].kind = mix[j].kind => mix[i].rank < mix[j].rank
  BY DEF Ranked
<1>3. Len(list) = Selection!Cardinality(Selection!Range(list))
  <2> DEFINE R == Selection!Range(list)
  <2>1. R = {list[i] : i \in 1..n}
    BY <1>1 DEF Selection!Range
  <2>2. ASSUME NEW i \in 1..n, NEW j \in 1..n, i < j PROVE list[i] # list[j]
    <3>1. list[i] = mix[i] /\ list[j] = mix[j] /\ i \in 1..Len(mix) /\ j \in 1..Len(mix)
      BY <1>1
    <3>2. mix[i].rank \in Nat /\ mix[j].rank \in Nat
      <4>1. list[i] \in Source /\ list[j] \in Source
        BY <1>1
      <4> QED
        BY <3>1, <4>1 DEF Source
    <3>3. mix[i].kind = mix[j].kind => mix[i].rank < mix[j].rank
      BY <1>2, <2>2, <3>1
    <3>4. mix[i].kind # mix[j].kind \/ mix[i].rank # mix[j].rank
      BY <3>2, <3>3
    <3> QED
      BY <3>1, <3>4
  <2>3. \A i, j \in 1..n : list[i] = list[j] => i = j
    <3> SUFFICES ASSUME NEW i \in 1..n, NEW j \in 1..n, i # j PROVE list[i] # list[j]
      OBVIOUS
    <3>1. i < j \/ j < i
      OBVIOUS
    <3> QED
      BY <2>2, <3>1
  <2>4. list \in [1..n -> R]
    BY <1>1, <2>1
  <2> HIDE DEF R
  <2>5. list \in Bijection(1..n, R)
    BY <2>1, <2>3, <2>4 DEF Bijection, Injection, Surjection, IsInjective
  <2>6. IsFiniteSet(1..n) /\ Cardinality(1..n) = n
    BY FS_Interval
  <2>7. Cardinality(R) = n
    BY <2>5, <2>6, FS_Bijection, Zenon DEF ExistsBijection
  <2> QED
    BY <1>1, <2>7, SameCount DEF R
<1>4. ASSUME NEW k \in Kinds
      PROVE  LET ranks == {list[i].rank : i \in {j \in DOMAIN list : list[j].kind = k}}
             IN ranks = 1..Selection!Cardinality(ranks)
  <2> DEFINE ranks == {list[i].rank : i \in {j \in DOMAIN list : list[j].kind = k}}
  <2>0. d[k] \in Nat
    BY DEF Ranked
  <2>1. ASSUME NEW r \in ranks PROVE \E i \in 1..n : mix[i].kind = k /\ mix[i].rank = r /\ r \in 1..d[k]
    <3>1. PICK i \in 1..n : list[i].kind = k /\ list[i].rank = r
      BY <1>1
    <3>2. mix[i].kind = k /\ mix[i].rank = r /\ i \in 1..Len(mix)
      BY <1>1, <3>1
    <3>3. mix[i].rank \in 1..d[mix[i].kind]
      BY <3>2 DEF Ranked
    <3> QED
      BY <3>2, <3>3
  <2>2. ASSUME NEW r \in ranks, NEW q \in 1..r PROVE q \in ranks
    <3>1. PICK i \in 1..n : mix[i].kind = k /\ mix[i].rank = r /\ r \in 1..d[k]
      BY <2>1
    <3>2. q \in 1..d[k]
      BY <2>0, <3>1
    <3>3. PICK j \in 1..Len(mix) : mix[j] = [kind |-> k, rank |-> q]
      BY <3>2 DEF Ranked
    <3>4. mix[j].kind = k /\ mix[j].rank = q
      BY <3>3
    <3>5. j <= i
      <4>1. i \in 1..Len(mix) /\ mix[i].kind = mix[j].kind
        BY <1>1, <3>1, <3>4
      <4>2. i < j => mix[i].rank < mix[j].rank
        BY <1>2, <4>1
      <4>3. i < j => r < q
        BY <3>1, <3>4, <4>2
      <4>4. i \in Nat /\ j \in Nat /\ q <= r /\ q \in Nat /\ r \in Nat
        BY <1>1, <2>0, <3>1, <3>2
      <4> QED
        BY <4>3, <4>4
    <3>6. j \in 1..n /\ list[j].kind = k /\ list[j].rank = q
      BY <1>1, <3>4, <3>5
    <3> QED
      BY <1>1, <3>6
  <2>3. ranks \in SUBSET (1..d[k])
    BY <2>1
  <2> HIDE DEF ranks
  <2>4. ranks = 1..Cardinality(ranks)
    BY <2>0, <2>2, <2>3, InitialSegment
  <2> QED
    BY <2>4, SameCount DEF ranks
<1> QED
  BY <1>3, <1>4

-----------------------------------------------------------------------------
LEMMA TakenSources ==
  ASSUME NEW k \in Kinds, NEW c \in Nat
  PROVE  Run(Selection!Sources(k, c), k, 0, c)
<1>1. Selection!Sources(k, c) = [i \in 1..c |-> [kind |-> k, rank |-> i]]
  BY DEF Selection!Sources
<1>2. \A i \in 1..c : [kind |-> k, rank |-> i] \in Source
  BY DEF Source
<1>3. Selection!Sources(k, c) \in Seq(Source) /\ Len(Selection!Sources(k, c)) = c
  BY <1>1, <1>2
<1> QED
  BY <1>1, <1>3 DEF Run

\* A ranking cut after its first n sources.
LEMMA TheTwoParts ==
  ASSUME NEW k \in Kinds, NEW c \in Nat, NEW n \in Nat
  PROVE  /\ Run(Selection!First(Selection!Sources(k, c), n), k, 0, Least(c, n))
         /\ Run(Selection!Rest(Selection!Sources(k, c), n), k, Least(c, n), c)
         /\ c <= n => /\ Selection!Rest(Selection!Sources(k, c), n) = <<>>
                      /\ Selection!First(Selection!Sources(k, c), n) = Selection!Sources(k, c)
<1> DEFINE s == Selection!Sources(k, c)
<1>1. /\ s \in Seq(Source) /\ Len(s) = c
      /\ \A i \in 1..c : s[i] = [kind |-> k, rank |-> 0 + i]
  BY TakenSources DEF Run
<1>2. \A i \in 1..c : s[i] = [kind |-> k, rank |-> i]
  BY <1>1
<1> HIDE DEF s
<1>3. Run(Selection!First(s, n), k, 0, Least(c, n))
  <2> DEFINE l == IF n < Len(s) THEN n ELSE Len(s)
             t == SubSeq(s, 1, l)
  <2>1. l = Least(c, n) /\ l \in Nat /\ l <= c
    BY <1>1 DEF Least
  <2> HIDE DEF l
  <2>2. t \in Seq(Source) /\ Len(t) = l /\ \A i \in 1..l : t[i] = s[i]
    BY <1>1, <2>1
  <2>3. \A i \in 1..l : t[i] = [kind |-> k, rank |-> 0 + i]
    BY <1>2, <2>1, <2>2
  <2>4. Run(t, k, 0, l)
    BY <2>1, <2>2, <2>3 DEF Run
  <2> QED
    BY <2>1, <2>4 DEF Selection!First, l
<1>4. Run(Selection!Rest(s, n), k, Least(c, n), c)
  <2> DEFINE l == Least(c, n)
             t == SubSeq(s, n + 1, Len(s))
  <2>1. l \in Nat /\ l <= c /\ (n < c => l = n) /\ (c <= n => l = c)
    BY DEF Least
  <2> HIDE DEF l
  <2>2. t \in Seq(Source) /\ Len(t) = c - l /\ \A i \in 1..(c - l) : t[i] = s[n + i] /\ l = n
    BY <1>1, <2>1
  <2>3. ASSUME NEW i \in 1..(c - l) PROVE t[i] = [kind |-> k, rank |-> l + i]
    <3> HIDE DEF t
    <3>1. t[i] = s[n + i] /\ n + i = l + i
      BY <2>2
    <3>2. l + i \in 1..c
      BY <2>1
    <3>3. t[i] = s[l + i]
      BY <3>1
    <3> QED
      BY <1>2, <3>2, <3>3
  <2> HIDE DEF t
  <2>4. Run(t, k, l, c)
    BY <2>1, <2>2, <2>3 DEF Run
  <2> QED
    BY <2>4 DEF Selection!Rest, l, t
<1>5. c <= n => Selection!Rest(s, n) = <<>>
  BY <1>1 DEF Selection!Rest
<1>6. ASSUME c <= n PROVE Selection!First(s, n) = s
  <2>1. (IF n < Len(s) THEN n ELSE Len(s)) = Len(s)
    BY <1>1, <1>6
  <2>2. SubSeq(s, 1, Len(s)) = s
    BY <1>1
  <2> QED
    BY <2>1, <2>2, Zenon DEF Selection!First
<1> QED
  BY <1>3, <1>4, <1>5, <1>6 DEF s

\* The source of a rank is one of the first m.
Early(s, k, r, m) == \E i \in 1..Len(s) : i <= m /\ s[i] = [kind |-> k, rank |-> r]

LEMMA StaysEarly ==
  ASSUME NEW s \in Seq(Source), NEW t \in Seq(Source), NEW k, NEW r, NEW m \in Nat, Early(s, k, r, m)
  PROVE  Early(s \o t, k, r, m)
<1>1. PICK i \in 1..Len(s) : i <= m /\ s[i] = [kind |-> k, rank |-> r]
  BY DEF Early
<1>2. i \in 1..Len(s \o t) /\ (s \o t)[i] = s[i]
  BY <1>1, Joined
<1> QED
  BY <1>1, <1>2 DEF Early

LEMMA AllEarly ==
  ASSUME NEW s, NEW d, Ranked(s, d), NEW k \in Kinds, NEW r \in 1..d[k], NEW m \in Nat, Len(s) <= m
  PROVE  Early(s, k, r, m)
<1>1. PICK i \in 1..Len(s) : s[i] = [kind |-> k, rank |-> r]
  BY DEF Ranked
<1>2. i <= m
  BY <1>1 DEF Ranked
<1> QED
  BY <1>1, <1>2 DEF Early

LEMMA RunIsSequence == ASSUME NEW t, NEW k, NEW m, NEW n, Run(t, k, m, n) PROVE t \in Seq(Source)
BY DEF Run

Total(p) == p["manuscript"] + p["wiki"] + p["timeline"]

\* A portion of each ranking, and the rest of each.
AreParts(a1, a2, a3, b1, b2, b3, k1, k2, k3, p, c) ==
  /\ <<k1, k2, k3>> \in {<<"manuscript", "wiki", "timeline">>, <<"timeline", "manuscript", "wiki">>}
  /\ p \in [Kinds -> Nat] /\ c \in [Kinds -> Nat] /\ \A k \in Kinds : p[k] <= c[k]
  /\ Run(a1, k1, 0, p[k1]) /\ Run(a2, k2, 0, p[k2]) /\ Run(a3, k3, 0, p[k3])
  /\ Run(b1, k1, p[k1], c[k1]) /\ Run(b2, k2, p[k2], c[k2]) /\ Run(b3, k3, p[k3], c[k3])

LEMMA Portions ==
  ASSUME NEW a1, NEW a2, NEW a3, NEW b1, NEW b2, NEW b3, NEW k1, NEW k2, NEW k3, NEW p, NEW c,
         AreParts(a1, a2, a3, b1, b2, b3, k1, k2, k3, p, c)
  PROVE  /\ Ranked(a1 \o a2 \o a3 \o b1 \o b2 \o b3, c)
         /\ \A k \in Kinds : \A r \in 1..p[k] : Early(a1 \o a2 \o a3 \o b1 \o b2 \o b3, k, r, Total(p))
<1> DEFINE d0 == [k \in Kinds |-> 0]
           d1 == [d0 EXCEPT ![k1] = p[k1]]
           d2 == [d1 EXCEPT ![k2] = p[k2]]
           d3 == [d2 EXCEPT ![k3] = p[k3]]
           e1 == [p EXCEPT ![k1] = c[k1]]
           e2 == [e1 EXCEPT ![k2] = c[k2]]
           e3 == [e2 EXCEPT ![k3] = c[k3]]
           m == Total(p)
<1>p. /\ <<k1, k2, k3>> \in {<<"manuscript", "wiki", "timeline">>, <<"timeline", "manuscript", "wiki">>}
      /\ p \in [Kinds -> Nat] /\ c \in [Kinds -> Nat] /\ \A k \in Kinds : p[k] <= c[k]
      /\ Run(a1, k1, 0, p[k1]) /\ Run(a2, k2, 0, p[k2]) /\ Run(a3, k3, 0, p[k3])
      /\ Run(b1, k1, p[k1], c[k1]) /\ Run(b2, k2, p[k2], c[k2]) /\ Run(b3, k3, p[k3], c[k3])
  BY DEF AreParts
<1>0. Kinds = {"manuscript", "wiki", "timeline"}
  BY DEF Kinds, Selection!Kinds
<1>1. /\ k1 \in Kinds /\ k2 \in Kinds /\ k3 \in Kinds /\ k1 # k2 /\ k2 # k3 /\ k1 # k3
      /\ \A k \in Kinds : k \in {k1, k2, k3}
  <2>1. CASE k1 = "manuscript" /\ k2 = "wiki" /\ k3 = "timeline"
    BY <1>0, <2>1
  <2>2. CASE k1 = "timeline" /\ k2 = "manuscript" /\ k3 = "wiki"
    BY <1>0, <2>2
  <2> QED
    BY <1>p, <2>1, <2>2
<1>2. d0[k1] = 0 /\ d1[k2] = 0 /\ d2[k3] = 0 /\ e1[k2] = p[k2] /\ e2[k3] = p[k3]
  BY <1>p, <1>1
<1>3. d3 = p
  <2>1. d3 \in [Kinds -> Nat] /\ \A k \in Kinds : d3[k] = p[k]
    BY <1>p, <1>1
  <2> HIDE DEF d3
  <2> QED
    BY <1>p, <2>1
<1>4. e3 = c
  <2>1. e3 \in [Kinds -> Nat] /\ \A k \in Kinds : e3[k] = c[k]
    BY <1>p, <1>1
  <2> HIDE DEF e3
  <2> QED
    BY <1>p, <2>1
<1>5. p[k1] \in Nat /\ p[k2] \in Nat /\ p[k3] \in Nat /\ c[k1] \in Nat /\ c[k2] \in Nat /\ c[k3] \in Nat
  BY <1>p, <1>1
<1>6. /\ a1 \in Seq(Source) /\ a2 \in Seq(Source) /\ a3 \in Seq(Source)
      /\ b1 \in Seq(Source) /\ b2 \in Seq(Source) /\ b3 \in Seq(Source)
  BY <1>p, RunIsSequence
<1> DEFINE s1 == <<>> \o a1
           s2 == s1 \o a2
           s3 == s2 \o a3
           s4 == s3 \o b1
           s5 == s4 \o b2
           s6 == s5 \o b3
<1>7. s1 = a1
  BY <1>6
<1> HIDE DEF s1, s2, s3, s4, s5, s6, d1, d2, d3, e1, e2, e3, d0
<1>8. Ranked(s1, d1)
  <2>1. Ranked(<<>>, d0)
    BY NothingRanked DEF d0
  <2>2. Run(a1, k1, d0[k1], p[k1])
    BY <1>p, <1>2
  <2> QED
    BY <2>1, <2>2, <1>1, <1>5, RunContinues DEF s1, d1
<1>9. Ranked(s2, d2)
  <2>2. Run(a2, k2, d1[k2], p[k2])
    BY <1>p, <1>2
  <2> QED
    BY <1>8, <2>2, <1>1, <1>5, RunContinues DEF s2, d2
<1>10. Ranked(s3, p)
  <2>2. Run(a3, k3, d2[k3], p[k3])
    BY <1>p, <1>2
  <2>3. Ranked(s3, d3)
    BY <1>9, <2>2, <1>1, <1>5, RunContinues DEF s3, d3
  <2> QED
    BY <1>3, <2>3
<1>11. Ranked(s4, e1)
  BY <1>p, <1>10, <1>1, <1>5, RunContinues DEF s4, e1
<1>12. Ranked(s5, e2)
  <2>2. Run(b2, k2, e1[k2], c[k2])
    BY <1>p, <1>2
  <2> QED
    BY <1>11, <2>2, <1>1, <1>5, RunContinues DEF s5, e2
<1>13. Ranked(s6, c)
  <2>2. Run(b3, k3, e2[k3], c[k3])
    BY <1>p, <1>2
  <2>3. Ranked(s6, e3)
    BY <1>12, <2>2, <1>1, <1>5, RunContinues DEF s6, e3
  <2> QED
    BY <1>4, <2>3
<1>14. s6 = a1 \o a2 \o a3 \o b1 \o b2 \o b3
  BY <1>7, Zenon DEF s2, s3, s4, s5, s6
<1>15. ASSUME NEW k \in Kinds, NEW r \in 1..p[k] PROVE Early(s6, k, r, m)
  <2>1. s3 \in Seq(Source) /\ s4 \in Seq(Source) /\ s5 \in Seq(Source)
    BY <1>10, <1>11, <1>12 DEF Ranked
  <2>2. Len(s3) = Total(p) /\ Len(s3) \in Nat
    BY <1>10, <2>1 DEF Ranked, Total
  <2>3. Early(s3, k, r, m)
    BY <1>10, <2>2, AllEarly DEF m
  <2>4. Early(s4, k, r, m)
    BY <1>6, <2>1, <2>2, <2>3, StaysEarly DEF s4
  <2>5. Early(s5, k, r, m)
    BY <1>6, <2>1, <2>2, <2>4, StaysEarly DEF s5
  <2> QED
    BY <1>6, <2>1, <2>2, <2>5, StaysEarly DEF s6
<1> QED
  BY <1>13, <1>14, <1>15 DEF m

\* A question that cuts every ranking: the portions first, and then the rest.
Mix(c, n, k1, k2, k3) ==
  Selection!First(Selection!Sources(k1, c[k1]), n[k1]) \o Selection!First(Selection!Sources(k2, c[k2]), n[k2])
    \o Selection!First(Selection!Sources(k3, c[k3]), n[k3]) \o Selection!Rest(Selection!Sources(k1, c[k1]), n[k1])
    \o Selection!Rest(Selection!Sources(k2, c[k2]), n[k2]) \o Selection!Rest(Selection!Sources(k3, c[k3]), n[k3])

\* The two best of every kind are among the first twenty.
BestAreEarly(s, c) == \A k \in Kinds : \A r \in 1..2 : r <= c[k] => Early(s, k, r, 20)

LEMMA MixIsRanked ==
  ASSUME NEW c \in [Kinds -> Nat], NEW n \in [Kinds -> Nat], NEW k1, NEW k2, NEW k3,
         <<k1, k2, k3>> \in {<<"manuscript", "wiki", "timeline">>, <<"timeline", "manuscript", "wiki">>},
         \A k \in Kinds : n[k] >= 2, n["manuscript"] + n["wiki"] + n["timeline"] <= 20
  PROVE  Ranked(Mix(c, n, k1, k2, k3), c) /\ BestAreEarly(Mix(c, n, k1, k2, k3), c)
<1> DEFINE p == [k \in Kinds |-> Least(c[k], n[k])]
           F(k) == Selection!First(Selection!Sources(k, c[k]), n[k])
           R(k) == Selection!Rest(Selection!Sources(k, c[k]), n[k])
<1>0. Kinds = {"manuscript", "wiki", "timeline"}
  BY DEF Kinds, Selection!Kinds
<1>1. k1 \in Kinds /\ k2 \in Kinds /\ k3 \in Kinds
  <2>1. CASE k1 = "manuscript" /\ k2 = "wiki" /\ k3 = "timeline"
    BY <1>0, <2>1
  <2>2. CASE k1 = "timeline" /\ k2 = "manuscript" /\ k3 = "wiki"
    BY <1>0, <2>2
  <2> QED
    BY <2>1, <2>2
<1>2. ASSUME NEW k \in Kinds
      PROVE  /\ p[k] = Least(c[k], n[k]) /\ p[k] \in Nat /\ p[k] <= c[k] /\ p[k] <= n[k] /\ n[k] \in Nat
             /\ \A r \in 1..2 : r <= c[k] => r \in 1..p[k]
  <2>1. p[k] = Least(c[k], n[k]) /\ c[k] \in Nat /\ n[k] \in Nat /\ n[k] >= 2
    OBVIOUS
  <2> HIDE DEF p
  <2> QED
    BY <2>1 DEF Least
<1>3. p \in [Kinds -> Nat]
  BY <1>2
<1>4. ASSUME NEW k \in Kinds PROVE Run(F(k), k, 0, p[k]) /\ Run(R(k), k, p[k], c[k])
  <2>1. c[k] \in Nat /\ n[k] \in Nat /\ p[k] = Least(c[k], n[k])
    BY <1>2
  <2> QED
    BY <2>1, TheTwoParts
<1>5. p["manuscript"] + p["wiki"] + p["timeline"] <= 20
  <2>1. /\ p["manuscript"] \in Nat /\ p["wiki"] \in Nat /\ p["timeline"] \in Nat
        /\ n["manuscript"] \in Nat /\ n["wiki"] \in Nat /\ n["timeline"] \in Nat
        /\ p["manuscript"] <= n["manuscript"] /\ p["wiki"] <= n["wiki"] /\ p["timeline"] <= n["timeline"]
    BY <1>0, <1>2
  <2> QED
    BY <2>1
<1>6. \A k \in Kinds : p[k] <= c[k]
  BY <1>2
<1> HIDE DEF p, F, R
<1>7. /\ Run(F(k1), k1, 0, p[k1]) /\ Run(F(k2), k2, 0, p[k2]) /\ Run(F(k3), k3, 0, p[k3])
      /\ Run(R(k1), k1, p[k1], c[k1]) /\ Run(R(k2), k2, p[k2], c[k2]) /\ Run(R(k3), k3, p[k3], c[k3])
  BY <1>1, <1>4, Zenon
<1> DEFINE all == F(k1) \o F(k2) \o F(k3) \o R(k1) \o R(k2) \o R(k3)
<1>8. Ranked(all, c) /\ \A k \in Kinds : \A r \in 1..p[k] : Early(all, k, r, Total(p))
  <2>1. AreParts(F(k1), F(k2), F(k3), R(k1), R(k2), R(k3), k1, k2, k3, p, c)
    BY <1>3, <1>6, <1>7, Zenon DEF AreParts
  <2> QED
    BY <2>1, Portions
<1>9. all = Mix(c, n, k1, k2, k3)
  BY Zenon DEF Mix, F, R
<1> HIDE DEF all
<1>10. ASSUME NEW k \in Kinds, NEW r \in 1..2, r <= c[k] PROVE Early(all, k, r, 20)
  <2>1. Early(all, k, r, Total(p)) /\ all \in Seq(Source)
    BY <1>2, <1>8, <1>10 DEF Ranked
  <2>2. Total(p) \in Nat /\ Total(p) <= 20
    BY <1>0, <1>3, <1>5 DEF Total
  <2> QED
    BY <2>1, <2>2 DEF Early
<1> QED
  BY <1>8, <1>9, <1>10 DEF BestAreEarly

\* A question that cuts none: the rankings one after the other.
LEMMA WholeRankings ==
  ASSUME NEW c \in [Kinds -> Nat]
  PROVE  Ranked(Selection!Sources("manuscript", c["manuscript"]) \o Selection!Sources("wiki", c["wiki"])
                  \o Selection!Sources("timeline", c["timeline"]), c)
<1> DEFINE a1 == Selection!Sources("manuscript", c["manuscript"])
           a2 == Selection!Sources("wiki", c["wiki"])
           a3 == Selection!Sources("timeline", c["timeline"])
           s == a1 \o a2 \o a3
           m == c["manuscript"] + c["wiki"] + c["timeline"]
<1>0. "manuscript" \in Kinds /\ "wiki" \in Kinds /\ "timeline" \in Kinds
  BY DEF Kinds, Selection!Kinds
<1>1. \A k \in Kinds : c[k] \in Nat /\ Run(Selection!Sources(k, c[k]), k, 0, c[k]) /\ Run(<<>>, k, c[k], c[k])
  <2> SUFFICES ASSUME NEW k \in Kinds
               PROVE  c[k] \in Nat /\ Run(Selection!Sources(k, c[k]), k, 0, c[k]) /\ Run(<<>>, k, c[k], c[k])
    OBVIOUS
  <2>1. c[k] \in Nat
    OBVIOUS
  <2>2. Run(<<>>, k, c[k], c[k])
    BY <2>1 DEF Run
  <2> QED
    BY <2>1, <2>2, TakenSources
<1> HIDE DEF a1, a2, a3
<1>2. /\ Run(a1, "manuscript", 0, c["manuscript"]) /\ Run(a2, "wiki", 0, c["wiki"])
      /\ Run(a3, "timeline", 0, c["timeline"])
  BY <1>0, <1>1, Zenon DEF a1, a2, a3
<1>3. /\ Run(<<>>, "manuscript", c["manuscript"], c["manuscript"]) /\ Run(<<>>, "wiki", c["wiki"], c["wiki"])
      /\ Run(<<>>, "timeline", c["timeline"], c["timeline"]) /\ m \in Nat
  BY <1>0, <1>1
<1>4. Ranked(s \o <<>> \o <<>> \o <<>>, c)
  <2>1. \A k \in Kinds : c[k] <= c[k]
    BY <1>1
  <2>2. AreParts(a1, a2, a3, <<>>, <<>>, <<>>, "manuscript", "wiki", "timeline", c, c)
    BY <1>2, <1>3, <2>1, Zenon DEF AreParts
  <2> QED
    BY <2>2, Portions
<1>5. s \in Seq(Source)
  <2>1. a1 \in Seq(Source) /\ a2 \in Seq(Source) /\ a3 \in Seq(Source)
    BY <1>2, RunIsSequence
  <2> QED
    BY <2>1, Joined
<1>6. s \o <<>> \o <<>> \o <<>> = s
  BY <1>5
<1> QED
  BY <1>4, <1>6 DEF a1, a2, a3

Questions == [type : Selection!Types, broadTimeline : BOOLEAN]
Rankings == [manuscript : 0..MaxManuscript, wiki : 0..MaxWiki, timeline : 0..MaxTimeline]

IsSpecialised(q) == q.broadTimeline \/ q.type \notin {"general", "first_appearance"}

MixFor(q, c) ==
  Selection!PrioritizeWorkSources(q.type, q.broadTimeline, Selection!Sources("manuscript", c.manuscript),
    Selection!Sources("wiki", c.wiki), Selection!Sources("timeline", c.timeline))

LEMMA RankingsAre ==
  ASSUME NEW c \in Rankings
  PROVE  /\ c \in [Kinds -> Nat] /\ DOMAIN c = Kinds
         /\ c["manuscript"] \in 0..14 /\ c["wiki"] \in 0..10
         /\ c.manuscript = c["manuscript"] /\ c.wiki = c["wiki"] /\ c.timeline = c["timeline"]
<1>0. Kinds = {"manuscript", "wiki", "timeline"}
  BY DEF Kinds, Selection!Kinds
<1>1. MaxManuscript \in 0..14 /\ MaxWiki \in 0..10 /\ MaxTimeline \in Nat
  BY AnswersAssumption DEF Selection!SizeAssumption
<1>2. c["manuscript"] \in 0..MaxManuscript /\ c["wiki"] \in 0..MaxWiki /\ c["timeline"] \in 0..MaxTimeline
      /\ DOMAIN c = {"manuscript", "wiki", "timeline"}
  BY DEF Rankings
<1>3. c = [k \in {"manuscript", "wiki", "timeline"} |-> c[k]]
  BY DEF Rankings
<1>4. c["manuscript"] \in 0..14 /\ c["wiki"] \in 0..10 /\ c["timeline"] \in Nat
  BY <1>1, <1>2
<1>5. c \in [Kinds -> Nat]
  BY <1>0, <1>3, <1>4
<1> QED
  BY <1>0, <1>2, <1>4, <1>5

Portion(m, w, t) == [k \in Kinds |-> IF k = "manuscript" THEN m ELSE IF k = "wiki" THEN w ELSE t]

LEMMA UsualMix ==
  ASSUME NEW c \in [Kinds -> Nat], NEW n \in [Kinds -> Nat],
         \A k \in Kinds : n[k] >= 2, n["manuscript"] + n["wiki"] + n["timeline"] <= 20
  PROVE  /\ Ranked(Mix(c, n, "manuscript", "wiki", "timeline"), c)
         /\ BestAreEarly(Mix(c, n, "manuscript", "wiki", "timeline"), c)
         /\ Ranked(Mix(c, n, "timeline", "manuscript", "wiki"), c)
         /\ BestAreEarly(Mix(c, n, "timeline", "manuscript", "wiki"), c)
BY MixIsRanked

\* For every question the sources are a mix of the rankings, and for a particular one
\* the best of each kind are early in it.
LEMMA MixForIsRanked ==
  ASSUME NEW q \in Questions, NEW c \in Rankings
  PROVE  Ranked(MixFor(q, c), c) /\ (IsSpecialised(q) => BestAreEarly(MixFor(q, c), c))
<1> DEFINE M == Selection!Sources("manuscript", c["manuscript"])
           W == Selection!Sources("wiki", c["wiki"])
           T == Selection!Sources("timeline", c["timeline"])
<1>0. /\ c \in [Kinds -> Nat] /\ c["manuscript"] \in 0..14 /\ c["wiki"] \in 0..10 /\ c["timeline"] \in Nat
      /\ "manuscript" \in Kinds /\ "wiki" \in Kinds /\ "timeline" \in Kinds
  <2>1. "manuscript" \in Kinds /\ "wiki" \in Kinds /\ "timeline" \in Kinds
    BY DEF Kinds, Selection!Kinds
  <2> QED
    BY <2>1, RankingsAre
<1>1. MixFor(q, c) = Selection!PrioritizeWorkSources(q.type, q.broadTimeline, M, W, T)
  BY RankingsAre DEF MixFor
<1>2. q.type \in Selection!Types /\ q.broadTimeline \in BOOLEAN
  BY DEF Questions
<1>3. \A n \in Nat : /\ Selection!First(M, n) \in Seq(Source) /\ Selection!Rest(M, n) \in Seq(Source)
                      /\ Selection!First(W, n) \in Seq(Source) /\ Selection!Rest(W, n) \in Seq(Source)
                      /\ Selection!First(T, n) \in Seq(Source) /\ Selection!Rest(T, n) \in Seq(Source)
  <2> SUFFICES ASSUME NEW n \in Nat
      PROVE  /\ Selection!First(M, n) \in Seq(Source) /\ Selection!Rest(M, n) \in Seq(Source)
             /\ Selection!First(W, n) \in Seq(Source) /\ Selection!Rest(W, n) \in Seq(Source)
             /\ Selection!First(T, n) \in Seq(Source) /\ Selection!Rest(T, n) \in Seq(Source)
    OBVIOUS
  <2> QED
    BY <1>0, TheTwoParts, RunIsSequence
<1>4. Selection!Rest(W, 10) = <<>> /\ Selection!Rest(M, 14) = <<>> /\ Selection!First(M, 14) = M
  BY <1>0, TheTwoParts
<1> HIDE DEF M, W, T
<1>5. CASE q.broadTimeline \/ q.type = "chronology"
  <2> DEFINE n == Portion(6, 2, 12)
  <2>1. MixFor(q, c) = Selection!First(T, 12) \o Selection!First(M, 6) \o Selection!First(W, 2)
                         \o Selection!Rest(T, 12) \o Selection!Rest(M, 6) \o Selection!Rest(W, 2)
    BY <1>1, <1>5, Zenon DEF Selection!PrioritizeWorkSources
  <2>2. /\ n \in [Kinds -> Nat] /\ n["manuscript"] = 6 /\ n["wiki"] = 2 /\ n["timeline"] = 12
        /\ (\A k \in Kinds : n[k] >= 2) /\ n["manuscript"] + n["wiki"] + n["timeline"] <= 20
    BY DEF Portion, Kinds, Selection!Kinds
  <2> HIDE DEF n
  <2>3. MixFor(q, c) = Mix(c, n, "timeline", "manuscript", "wiki")
    BY <2>1, <2>2, Zenon DEF Mix, M, W, T
  <2> QED
    BY <1>0, <2>2, <2>3, UsualMix
<1>6. CASE ~q.broadTimeline /\ q.type = "character_profile"
  <2> DEFINE n == Portion(8, 10, 2)
             x == Selection!First(M, 8) \o Selection!First(W, 10) \o Selection!First(T, 2) \o Selection!Rest(M, 8)
  <2>1. MixFor(q, c) = x \o Selection!Rest(T, 2)
    BY <1>1, <1>6 DEF Selection!PrioritizeWorkSources
  <2>2. /\ n \in [Kinds -> Nat] /\ n["manuscript"] = 8 /\ n["wiki"] = 10 /\ n["timeline"] = 2
        /\ (\A k \in Kinds : n[k] >= 2) /\ n["manuscript"] + n["wiki"] + n["timeline"] <= 20
    BY DEF Portion, Kinds, Selection!Kinds
  <2>3. x \o Selection!Rest(W, 10) = x
    <3>1. x \in Seq(Source)
      BY <1>3
    <3> HIDE DEF x
    <3> QED
      BY <1>4, <3>1
  <2> HIDE DEF n
  <2>4. x \o Selection!Rest(W, 10) \o Selection!Rest(T, 2) = Mix(c, n, "manuscript", "wiki", "timeline")
    BY <2>2, Zenon DEF Mix, M, W, T
  <2>5. MixFor(q, c) = Mix(c, n, "manuscript", "wiki", "timeline")
    BY <2>1, <2>3, <2>4, Zenon
  <2> QED
    BY <1>0, <2>2, <2>5, UsualMix
<1>7. CASE ~q.broadTimeline /\ q.type = "relationship"
  <2> DEFINE n == Portion(10, 8, 2)
  <2>1. MixFor(q, c) = Selection!First(M, 10) \o Selection!First(W, 8) \o Selection!First(T, 2)
                         \o Selection!Rest(M, 10) \o Selection!Rest(W, 8) \o Selection!Rest(T, 2)
    BY <1>1, <1>7 DEF Selection!PrioritizeWorkSources
  <2>2. /\ n \in [Kinds -> Nat] /\ n["manuscript"] = 10 /\ n["wiki"] = 8 /\ n["timeline"] = 2
        /\ (\A k \in Kinds : n[k] >= 2) /\ n["manuscript"] + n["wiki"] + n["timeline"] <= 20
    BY DEF Portion, Kinds, Selection!Kinds
  <2> HIDE DEF n
  <2>3. MixFor(q, c) = Mix(c, n, "manuscript", "wiki", "timeline")
    BY <2>1, <2>2, Zenon DEF Mix, M, W, T
  <2> QED
    BY <1>0, <2>2, <2>3, UsualMix
<1>8. CASE ~q.broadTimeline /\ q.type \in {"chapter_fact", "character_state"}
  <2> DEFINE n == Portion(14, 4, 2)
             x == Selection!First(M, 14) \o Selection!First(W, 4) \o Selection!First(T, 2)
  <2>1. MixFor(q, c) = M \o Selection!First(W, 4) \o Selection!First(T, 2)
                         \o Selection!Rest(W, 4) \o Selection!Rest(T, 2)
    BY <1>1, <1>8 DEF Selection!PrioritizeWorkSources
  <2>2. /\ n \in [Kinds -> Nat] /\ n["manuscript"] = 14 /\ n["wiki"] = 4 /\ n["timeline"] = 2
        /\ (\A k \in Kinds : n[k] >= 2) /\ n["manuscript"] + n["wiki"] + n["timeline"] <= 20
    BY DEF Portion, Kinds, Selection!Kinds
  <2>3. x \o Selection!Rest(M, 14) = x
    <3>1. x \in Seq(Source)
      BY <1>3
    <3> HIDE DEF x
    <3> QED
      BY <1>4, <3>1
  <2>4. MixFor(q, c) = x \o Selection!Rest(W, 4) \o Selection!Rest(T, 2)
    BY <1>4, <2>1, Zenon
  <2> HIDE DEF n
  <2>5. x \o Selection!Rest(M, 14) \o Selection!Rest(W, 4) \o Selection!Rest(T, 2)
          = Mix(c, n, "manuscript", "wiki", "timeline")
    BY <2>2, Zenon DEF Mix, M, W, T
  <2>6. MixFor(q, c) = Mix(c, n, "manuscript", "wiki", "timeline")
    BY <2>3, <2>4, <2>5, Zenon
  <2> QED
    BY <1>0, <2>2, <2>6, UsualMix
<1>9. CASE ~q.broadTimeline /\ q.type \in {"general", "first_appearance"}
  <2>1. MixFor(q, c) = M \o W \o T
    BY <1>1, <1>9 DEF Selection!PrioritizeWorkSources
  <2>2. Ranked(M \o W \o T, c)
    BY <1>0, WholeRankings DEF M, W, T
  <2>3. ~IsSpecialised(q)
    BY <1>9 DEF IsSpecialised
  <2> QED
    BY <2>1, <2>2, <2>3
<1> QED
  BY <1>2, <1>5, <1>6, <1>7, <1>8, <1>9 DEF Selection!Types

\* What NoKindIsCrowdedOut says of a question, the rankings and a context.
Balanced(q, c, list) ==
  LET RanksOf(kind) == {list[i].rank : i \in {j \in DOMAIN list : list[j].kind = kind}}
  IN /\ Len(list) = Selection!Cardinality(Selection!Range(list))
     /\ \A kind \in DOMAIN c :
          /\ RanksOf(kind) = 1..Selection!Cardinality(RanksOf(kind))
          /\ IsSpecialised(q) => \A rank \in 1..2 : rank <= c[kind] => rank \in RanksOf(kind)
     /\ LET all == c.manuscript + c.wiki + c.timeline
        IN Len(list) = IF all < MaxContext THEN all ELSE MaxContext

LEMMA ContextIsBalanced ==
  ASSUME NEW q \in Questions, NEW c \in Rankings
  PROVE  Balanced(q, c, Selection!FitContext(MixFor(q, c)))
<1> DEFINE mix == MixFor(q, c)
           n == Least(Len(mix), MaxContext)
           list == Selection!FitContext(mix)
           RanksOf(kind) == {list[i].rank : i \in {j \in DOMAIN list : list[j].kind = kind}}
<1>1. Ranked(mix, c) /\ (IsSpecialised(q) => BestAreEarly(mix, c))
  BY MixForIsRanked
<1> HIDE DEF mix
<1>2. mix \in Seq(Source) /\ Len(mix) \in Nat
  BY <1>1 DEF Ranked
<1>3. MaxContext \in Nat /\ MaxContext >= 20
  BY AnswersAssumption DEF Selection!SizeAssumption
<1>4. Begins(list, mix, n)
  BY <1>2, FirstSourcesFit
<1>5. n \in Nat /\ n <= Len(mix) /\ \A i \in 1..Len(mix) : i <= 20 => i \in 1..n
  BY <1>2, <1>3 DEF Least
<1> HIDE DEF n, list
<1>6. /\ Len(list) = Selection!Cardinality(Selection!Range(list))
      /\ \A k \in Kinds : RanksOf(k) = 1..Selection!Cardinality(RanksOf(k))
  BY <1>1, <1>4, <1>5, FirstOfRanked
<1>7. DOMAIN list = 1..n /\ Len(list) = n /\ \A i \in 1..n : list[i] = mix[i]
  BY <1>4, <1>5 DEF Begins
<1>8. ASSUME IsSpecialised(q), NEW k \in Kinds, NEW rank \in 1..2, rank <= c[k] PROVE rank \in RanksOf(k)
  <2>1. Early(mix, k, rank, 20)
    BY <1>1, <1>8 DEF BestAreEarly
  <2>2. PICK i \in 1..Len(mix) : i <= 20 /\ mix[i] = [kind |-> k, rank |-> rank]
    BY <2>1 DEF Early
  <2>3. i \in 1..n /\ list[i] = [kind |-> k, rank |-> rank]
    BY <1>5, <1>7, <2>2
  <2>4. i \in DOMAIN list /\ list[i].kind = k /\ list[i].rank = rank
    BY <1>7, <2>3
  <2> QED
    BY <2>4
<1>9. DOMAIN c = Kinds /\ c.manuscript = c["manuscript"] /\ c.wiki = c["wiki"] /\ c.timeline = c["timeline"]
  BY RankingsAre
<1>10. Len(mix) = c.manuscript + c.wiki + c.timeline
  BY <1>1, <1>9 DEF Ranked
<1>11. Len(list) = IF c.manuscript + c.wiki + c.timeline < MaxContext
                   THEN c.manuscript + c.wiki + c.timeline ELSE MaxContext
  BY <1>2, <1>3, <1>7, <1>10 DEF n, Least
<1>12. \A k \in DOMAIN c :
         /\ RanksOf(k) = 1..Selection!Cardinality(RanksOf(k))
         /\ IsSpecialised(q) => \A rank \in 1..2 : rank <= c[k] => rank \in RanksOf(k)
  <2> HIDE DEF RanksOf
  <2> QED
    BY <1>6, <1>8, <1>9
<1>13. Balanced(q, c, list)
  BY <1>6, <1>11, <1>12, Zenon DEF Balanced
<1> QED
  BY <1>13 DEF list, mix

SelectionInv ==
  /\ v1 \in Questions /\ v2 \in Rankings
  /\ v3 => Balanced(v1, v2, v4)

LEMMA BalancedIs == ASSUME v3 => Balanced(v1, v2, v4) PROVE Selection!NoKindIsCrowdedOut
BY Zenon DEF Balanced, Selection!NoKindIsCrowdedOut, Selection!RanksOf, Selection!Specialised, IsSpecialised

LEMMA SelectionStarts == ASSUME Selection!Init PROVE SelectionInv
BY DEF Selection!Init, SelectionInv, Questions, Rankings

LEMMA SelectionKeeps == ASSUME SelectionInv, Selection!Next PROVE SelectionInv'
<1>1. /\ v1' = v1 /\ v2' = v2
      /\ v4' = Selection!FitContext(MixFor(v1, v2))
  BY Zenon DEF Selection!Next, Selection!RetrieveSources, MixFor, Selection!ManuscriptSources,
               Selection!WikiSources, Selection!TimelineSources
<1>2. v1 \in Questions /\ v2 \in Rankings
  BY DEF SelectionInv
<1>3. Balanced(v1, v2, Selection!FitContext(MixFor(v1, v2)))
  BY <1>2, ContextIsBalanced
<1>4. Balanced(v1', v2', v4')
  BY <1>1, <1>3, Zenon
<1> QED
  BY <1>1, <1>2, <1>4, Zenon DEF SelectionInv
-----------------------------------------------------------------------------
\* For any caps of the rankings within those of the code, any sizes that let a context's
\* worth of sources fit, and any number of candidates, no source enters a context twice,
\* the best of a kind enter first, a context is as full as it can be, and a question of
\* a particular type leaves no kind out.
THEOREM ContextIsAlwaysBalanced == AnswersSpec => []NoKindIsCrowdedOut
<1> DEFINE Inv == part = "sources" => SelectionInv
<1>1. AnswersInit => Inv
  BY SelectionStarts DEF AnswersInit
<1>2. Inv /\ [AnswersNext]_answersVars => Inv'
  <2> SUFFICES ASSUME Inv, [AnswersNext]_answersVars, part' = "sources" PROVE SelectionInv'
    OBVIOUS
  <2>1. part = "sources" /\ (Selection!Next \/ UNCHANGED <<v1, v2, v3, v4>>)
    BY DEF AnswersNext, answersVars
  <2>2. CASE Selection!Next
    BY <2>1, <2>2, SelectionKeeps
  <2>3. CASE UNCHANGED <<v1, v2, v3, v4>>
    BY <2>1, <2>3, Zenon DEF SelectionInv
  <2> QED
    BY <2>1, <2>2, <2>3
<1>3. Inv => NoKindIsCrowdedOut
  BY BalancedIs DEF NoKindIsCrowdedOut, SelectionInv
<1> QED
  BY <1>1, <1>2, <1>3, PTL DEF AnswersSpec
-----------------------------------------------------------------------------
(* SceneChunking: v1 is the text, v2 whether it was planned, v3 its chunks. *)

LEMMA JoinedThree ==
  ASSUME NEW S, NEW s \in Seq(S), NEW t \in Seq(S), NEW u \in Seq(S)
  PROVE  (s \o t) \o u = s \o (t \o u)
OBVIOUS

\* The first n elements.
First(s, n) == SubSeq(s, 1, n)

LEMMA FirstIs ==
  ASSUME NEW S, NEW s \in Seq(S)
  PROVE  /\ First(s, 0) = <<>> /\ First(s, Len(s)) = s
         /\ \A n \in 0..Len(s) : First(s, n) \in Seq(S) /\ Len(First(s, n)) = n
         /\ \A n \in 1..Len(s) : First(s, n) = Append(First(s, n - 1), s[n]) /\ s[n] \in S
<1>1. First(s, 0) = <<>> /\ First(s, Len(s)) = s
  BY DEF First
<1>2. \A n \in 0..Len(s) : First(s, n) \in Seq(S) /\ Len(First(s, n)) = n
  BY DEF First
<1>3. ASSUME NEW n \in 1..Len(s) PROVE First(s, n) = Append(First(s, n - 1), s[n]) /\ s[n] \in S
  BY DEF First
<1> QED
  BY <1>1, <1>2, <1>3

Flat(ss) == Chunking!FlattenSeq(ss)

Then(s, t) == s \o t

AreJoined(f, ss) == f = [i \in 1..Len(ss) |-> IF i = 1 THEN ss[i] ELSE Then(f[i - 1], ss[i])]

LEMMA FlatOfOne ==
  ASSUME NEW ss
  PROVE  Flat(ss) = IF Len(ss) = 0 THEN ss ELSE (CHOOSE f : AreJoined(f, ss))[Len(ss)]
BY Zenon DEF Flat, Chunking!FlattenSeq, AreJoined, Then

LEMMA ThenIs ==
  ASSUME NEW S, NEW s \in Seq(S), NEW t \in Seq(S)
  PROVE  Then(s, t) \in Seq(S) /\ Then(<<>>, t) = t /\ Then(s, <<>>) = s
BY Joined DEF Then

LEMMA ThenThen ==
  ASSUME NEW S, NEW s \in Seq(S), NEW t \in Seq(S), NEW u \in Seq(S)
  PROVE  Then(Then(s, t), u) = Then(s, Then(t, u))
BY JoinedThree DEF Then

LEMMA ThenAppend ==
  ASSUME NEW S, NEW s \in Seq(S), NEW t \in Seq(S), NEW e \in S
  PROVE  Then(s, Append(t, e)) = Append(Then(s, t), e)
BY DEF Then

\* Sequences put one after the other, up to each.
Joins(f, ss) ==
  /\ f[0] = <<>> /\ Flat(ss) = f[Len(ss)]
  /\ \A i \in 1..Len(ss) : f[i] = Then(f[i - 1], ss[i])

LEMMA JoinsExists ==
  ASSUME NEW S, NEW ss \in Seq(Seq(S))
  PROVE  \E f : Joins(f, ss) /\ \A i \in 0..Len(ss) : f[i] \in Seq(S)
<1> DEFINE n == Len(ss)
           Acc == Seq(S)
           step == [p \in Acc \X (1..n) |-> Then(p[1], ss[p[2]])]
           F == CHOOSE f : AreJoined(f, ss)
<1>0. n \in Nat /\ \A i \in 1..n : ss[i] \in Acc
  OBVIOUS
<1>1. step \in [Acc \X (1..n) -> Acc]
  <2>1. \A u \in Acc, i \in 1..n : Then(u, ss[i]) \in Acc
    BY <1>0, ThenIs
  <2> HIDE DEF Acc
  <2> QED
    BY <2>1
<1>2. PICK g : IsLoop(g, n, <<>>, step)
  <2> HIDE DEF step
  <2> QED
    BY <1>0, LoopExists
<1>3. \A i \in 0..n : g[i] \in Acc
  <2>1. <<>> \in Acc
    OBVIOUS
  <2> HIDE DEF step, Acc, n
  <2> QED
    BY <1>0, <1>1, <1>2, <2>1, LoopStays
<1>4. g[0] = <<>> /\ \A i \in 1..n : g[i] = Then(g[i - 1], ss[i])
  <2>1. g[0] = <<>> /\ \A i \in 1..n : g[i] = step[<<g[i - 1], i>>]
    <3> HIDE DEF step, n
    <3>1. 0 \in 0..n /\ \A i \in 1..n : i \in 0..n /\ i # 0
      BY <1>0
    <3> QED
      BY <1>2, <3>1 DEF IsLoop
  <2>2. \A i \in 1..n : step[<<g[i - 1], i>>] = Then(g[i - 1], ss[i])
    <3> SUFFICES ASSUME NEW i \in 1..n PROVE step[<<g[i - 1], i>>] = Then(g[i - 1], ss[i])
      OBVIOUS
    <3>1. <<g[i - 1], i>> \in Acc \X (1..n)
      BY <1>0, <1>3
    <3> HIDE DEF Acc
    <3> QED
      BY <3>1
  <2> QED
    BY <2>1, <2>2
<1> HIDE DEF step, F
<1>5. ASSUME n # 0 PROVE F[n] = g[n]
  <2>1. AreJoined([i \in 1..n |-> g[i]], ss)
    <3>1. \A i \in 1..n : g[i] = IF i = 1 THEN ss[i] ELSE Then([k \in 1..n |-> g[k]][i - 1], ss[i])
      <4> SUFFICES ASSUME NEW i \in 1..n
                   PROVE  g[i] = IF i = 1 THEN ss[i] ELSE Then([k \in 1..n |-> g[k]][i - 1], ss[i])
        OBVIOUS
      <4>1. CASE i = 1
        <5>1. g[i] = Then(<<>>, ss[i]) /\ ss[i] \in Seq(S)
          BY <1>0, <1>4, <4>1
        <5> QED
          BY <4>1, <5>1, ThenIs
      <4>2. CASE i # 1
        <5>1. i - 1 \in 1..n
          BY <1>0, <4>2
        <5> QED
          BY <1>4, <4>2, <5>1
      <4> QED
        BY <4>1, <4>2
    <3> QED
      BY <3>1 DEF AreJoined
  <2>2. AreJoined(F, ss)
    <3>1. \E h : AreJoined(h, ss)
      BY <2>1
    <3> QED
      BY <3>1, Zenon DEF F
  <2> DEFINE Good == {i \in 0..n : i # 0 => F[i] = g[i]}
  <2>3. ASSUME NEW i \in 1..n, i - 1 \in Good PROVE i \in Good
    <3>1. F[i] = IF i = 1 THEN ss[i] ELSE Then(F[i - 1], ss[i])
      BY <2>2 DEF AreJoined
    <3>2. CASE i = 1
      <4>1. g[i] = Then(<<>>, ss[i]) /\ ss[i] \in Seq(S)
        BY <1>0, <1>4, <3>2
      <4> QED
        BY <3>1, <3>2, <4>1, ThenIs
    <3>3. CASE i # 1
      BY <1>4, <2>3, <3>1, <3>3
    <3> QED
      BY <3>2, <3>3
  <2>4. 0 \in Good /\ Good \in SUBSET (0..n) /\ n \in 0..n
    BY <1>0
  <2>5. n \in Good
    <3> HIDE DEF Good
    <3> QED
      BY <1>0, <2>3, <2>4, CountedUp
  <2> QED
    BY <1>5, <2>5
<1>6. Flat(ss) = g[n]
  <2>1. CASE n = 0
    <3>1. ss = <<>>
      BY <2>1
    <3> QED
      BY <1>4, <2>1, <3>1, FlatOfOne
  <2>2. CASE n # 0
    BY <1>5, <2>2, FlatOfOne DEF F
  <2> QED
    BY <2>1, <2>2
<1> QED
  BY <1>3, <1>4, <1>6 DEF Joins

LEMMA FlatAppends ==
  ASSUME NEW S, NEW ss \in Seq(Seq(S)), NEW t \in Seq(S)
  PROVE  Flat(ss) \in Seq(S) /\ Flat(Append(ss, t)) = Then(Flat(ss), t)
<1> DEFINE tt == Append(ss, t)
           n == Len(ss)
<1>0. /\ n \in Nat /\ tt \in Seq(Seq(S)) /\ Len(tt) = n + 1 /\ tt[n + 1] = t
      /\ \A i \in 1..n : tt[i] = ss[i]
  <2>1. Append(ss, t) \in Seq(Seq(S)) /\ Len(Append(ss, t)) = Len(ss) + 1 /\ Append(ss, t)[Len(ss) + 1] = t
        /\ \A i \in 1..Len(ss) : Append(ss, t)[i] = ss[i]
    BY Appended
  <2> QED
    BY <2>1
<1> HIDE DEF tt
<1>1. PICK f : Joins(f, ss) /\ \A i \in 0..Len(ss) : f[i] \in Seq(S)
  BY JoinsExists
<1>2. PICK g : Joins(g, tt) /\ \A i \in 0..Len(tt) : g[i] \in Seq(S)
  BY <1>0, JoinsExists
<1> DEFINE Good == {i \in 0..n : f[i] = g[i]}
<1>3. ASSUME NEW i \in 1..n, i - 1 \in Good PROVE i \in Good
  <2>1. f[i] = Then(f[i - 1], ss[i])
    BY <1>1 DEF Joins
  <2>2. g[i] = Then(g[i - 1], tt[i]) /\ tt[i] = ss[i]
    BY <1>0, <1>2 DEF Joins
  <2> QED
    BY <1>3, <2>1, <2>2
<1>4. 0 \in Good /\ Good \in SUBSET (0..n) /\ n \in 0..n
  BY <1>0, <1>1, <1>2 DEF Joins
<1>5. n \in Good
  <2> HIDE DEF Good
  <2> QED
    BY <1>0, <1>3, <1>4, CountedUp
<1>6. g[n + 1] = Then(g[n], t)
  <2>1. n + 1 \in 1..Len(tt) /\ n + 1 - 1 = n
    BY <1>0
  <2>2. g[n + 1] = Then(g[n + 1 - 1], tt[n + 1])
    BY <1>2, <2>1 DEF Joins
  <2> QED
    BY <1>0, <2>1, <2>2
<1>7. Flat(ss) = f[n] /\ Flat(tt) = g[n + 1] /\ f[n] \in Seq(S)
  BY <1>0, <1>1, <1>2 DEF Joins
<1> QED
  BY <1>5, <1>6, <1>7 DEF tt

LEMMA FlatOfNone == Flat(<<>>) = <<>>
BY FlatOfOne

\* The first sequences are those before the last of them and that.
LEMMA FlatFirst ==
  ASSUME NEW S, NEW ss \in Seq(Seq(S)), NEW n \in 1..Len(ss)
  PROVE  /\ Flat(First(ss, n - 1)) \in Seq(S) /\ Flat(First(ss, n)) \in Seq(S) /\ ss[n] \in Seq(S)
         /\ Flat(First(ss, n)) = Then(Flat(First(ss, n - 1)), ss[n])
<1>1. First(ss, n) = Append(First(ss, n - 1), ss[n]) /\ ss[n] \in Seq(S)
  BY FirstIs
<1>2. First(ss, n - 1) \in Seq(Seq(S)) /\ First(ss, n) \in Seq(Seq(S))
  BY FirstIs
<1> QED
  BY <1>1, <1>2, FlatAppends

LEMMA FlatJoins ==
  ASSUME NEW S, NEW ss \in Seq(Seq(S)), NEW tt \in Seq(Seq(S))
  PROVE  Flat(Then(ss, tt)) = Then(Flat(ss), Flat(tt)) /\ Flat(ss) \in Seq(S) /\ Flat(tt) \in Seq(S)
<1> DEFINE n == Len(tt)
           Good == {i \in 0..n : Flat(Then(ss, First(tt, i))) = Then(Flat(ss), Flat(First(tt, i)))}
<1>0. n \in Nat /\ n \in 0..n /\ Flat(ss) \in Seq(S) /\ Flat(tt) \in Seq(S)
  <2>1. <<>> \in Seq(S)
    OBVIOUS
  <2> QED
    BY <2>1, FlatAppends
<1>1. 0 \in Good
  <2>1. First(tt, 0) = <<>> /\ Then(ss, <<>>) = ss
    <3>1. <<>> \in Seq(Seq(S))
      OBVIOUS
    <3> QED
      BY <3>1, FirstIs, ThenIs
  <2>2. Then(Flat(ss), <<>>) = Flat(ss)
    <3>1. <<>> \in Seq(S)
      OBVIOUS
    <3> QED
      BY <1>0, <3>1, ThenIs
  <2> QED
    BY <1>0, <2>1, <2>2, FlatOfNone
<1>2. ASSUME NEW i \in 1..n, i - 1 \in Good PROVE i \in Good
  <2> DEFINE u == First(tt, i - 1)
             t == tt[i]
  <2>1. First(tt, i) = Append(u, t) /\ t \in Seq(S) /\ u \in Seq(Seq(S))
    BY FirstIs
  <2>2. Flat(Then(ss, u)) = Then(Flat(ss), Flat(u))
    BY <1>2
  <2> HIDE DEF u, t
  <2>3. Then(ss, Append(u, t)) = Append(Then(ss, u), t) /\ Then(ss, u) \in Seq(Seq(S))
    BY <2>1, ThenIs, ThenAppend
  <2>4. /\ Flat(Append(Then(ss, u), t)) = Then(Flat(Then(ss, u)), t)
        /\ Flat(Append(u, t)) = Then(Flat(u), t) /\ Flat(u) \in Seq(S)
    BY <2>1, <2>3, FlatAppends
  <2>5. Then(Then(Flat(ss), Flat(u)), t) = Then(Flat(ss), Then(Flat(u), t))
    BY <1>0, <2>1, <2>4, ThenThen
  <2>6. Flat(Then(ss, First(tt, i))) = Then(Flat(ss), Flat(First(tt, i)))
    BY <2>1, <2>2, <2>3, <2>4, <2>5
  <2> QED
    BY <2>6
<1>3. Good \in SUBSET (0..n)
  OBVIOUS
<1>4. n \in Good
  <2> HIDE DEF Good
  <2> QED
    BY <1>0, <1>1, <1>2, <1>3, CountedUp
<1>5. First(tt, n) = tt
  BY FirstIs
<1> QED
  BY <1>0, <1>4, <1>5

LEMMA JoinedElements ==
  ASSUME NEW S, NEW s \in Seq(S), NEW t \in Seq(S)
  PROVE  Elements(Then(s, t)) = Elements(s) \cup Elements(t)
<1> DEFINE u == s \o t
<1>1. /\ DOMAIN s = 1..Len(s) /\ DOMAIN t = 1..Len(t) /\ DOMAIN u = 1..Len(u)
      /\ Len(s) \in Nat /\ Len(t) \in Nat /\ Len(u) = Len(s) + Len(t)
      /\ \A i \in 1..Len(s) : u[i] = s[i]
      /\ \A i \in 1..Len(t) : u[Len(s) + i] = t[i]
      /\ \A i \in 1..Len(u) : i \in 1..Len(s) \/ (i - Len(s) \in 1..Len(t) /\ u[i] = t[i - Len(s)])
  BY Joined
<1> HIDE DEF u
<1>2. Elements(u) \subseteq Elements(s) \cup Elements(t)
  <2> SUFFICES ASSUME NEW i \in 1..Len(u) PROVE u[i] \in Elements(s) \cup Elements(t)
    BY <1>1 DEF Elements
  <2> QED
    BY <1>1 DEF Elements
<1>3. Elements(s) \subseteq Elements(u)
  <2> SUFFICES ASSUME NEW i \in 1..Len(s) PROVE s[i] \in Elements(u)
    BY <1>1 DEF Elements
  <2>1. i \in DOMAIN u /\ u[i] = s[i]
    BY <1>1
  <2> QED
    BY <2>1 DEF Elements
<1>4. Elements(t) \subseteq Elements(u)
  <2> SUFFICES ASSUME NEW i \in 1..Len(t) PROVE t[i] \in Elements(u)
    BY <1>1 DEF Elements
  <2>1. Len(s) + i \in DOMAIN u /\ u[Len(s) + i] = t[i]
    BY <1>1
  <2> QED
    BY <2>1 DEF Elements
<1> QED
  BY <1>2, <1>3, <1>4 DEF u, Then

\* What is in one of them is in all of them together.
LEMMA InFlat ==
  ASSUME NEW S, NEW ss \in Seq(Seq(S)), NEW k \in 1..Len(ss)
  PROVE  Elements(ss[k]) \subseteq Elements(Flat(ss))
<1> DEFINE n == Len(ss)
           Good == {i \in 0..n : k <= i => Elements(ss[k]) \subseteq Elements(Flat(First(ss, i)))}
<1>0. n \in Nat /\ n \in 0..n
  OBVIOUS
<1>1. 0 \in Good
  OBVIOUS
<1>2. ASSUME NEW i \in 1..n, i - 1 \in Good PROVE i \in Good
  <2> DEFINE u == Flat(First(ss, i - 1))
             t == ss[i]
  <2>1. u \in Seq(S) /\ t \in Seq(S) /\ Flat(First(ss, i)) = Then(u, t)
    BY FlatFirst
  <2>2. k <= i - 1 => Elements(ss[k]) \subseteq Elements(u)
    BY <1>2
  <2>6. Flat(First(ss, i)) = Then(u, t)
    BY <2>1
  <2> HIDE DEF u
  <2>3. Elements(u) \subseteq Elements(Then(u, t)) /\ Elements(t) \subseteq Elements(Then(u, t))
    BY <2>1, JoinedElements
  <2>4. k <= i - 1 \/ k = i \/ ~(k <= i)
    OBVIOUS
  <2>5. k <= i => Elements(ss[k]) \subseteq Elements(Then(u, t))
    BY <2>2, <2>3, <2>4
  <2> QED
    BY <2>5, <2>6
<1>3. Good \in SUBSET (0..n)
  OBVIOUS
<1>4. n \in Good
  <2> HIDE DEF Good
  <2> QED
    BY <1>0, <1>1, <1>2, <1>3, CountedUp
<1>5. First(ss, n) = ss /\ k <= n
  BY FirstIs
<1> QED
  BY <1>4, <1>5

\* The values of a loop whose rounds keep to a set.
Goes(f, n, Acc, start, step) ==
  /\ f[0] = start
  /\ \A i \in 0..n : f[i] \in Acc
  /\ \A i \in 1..n : f[i] = step[<<f[i - 1], i>>] /\ <<f[i - 1], i>> \in Acc \X (1..n)

LEMMA LoopGoes ==
  ASSUME NEW n \in Nat, NEW Acc, NEW start \in Acc, NEW step \in [Acc \X (1..n) -> Acc]
  PROVE  \E f : IsLoop(f, n, start, step) /\ Goes(f, n, Acc, start, step)
<1>1. PICK f : IsLoop(f, n, start, step)
  BY LoopExists
<1>2. \A i \in 0..n : f[i] \in Acc
  BY <1>1, LoopStays
<1>3. 0 \in 0..n /\ \A i \in 1..n : i \in 0..n /\ i # 0 /\ i - 1 \in 0..n
  OBVIOUS
<1>4. f[0] = start /\ \A i \in 1..n : f[i] = step[<<f[i - 1], i>>]
  BY <1>1, <1>3 DEF IsLoop
<1> QED
  BY <1>1, <1>2, <1>3, <1>4 DEF Goes

Place ==
  {p \in Nat \X Nat \X Nat : /\ p[1] \in DOMAIN v1 /\ p[2] \in DOMAIN v1[p[1]]
                             /\ p[3] \in DOMAIN v1[p[1]][p[2]]}

LEMMA TextIs ==
  ASSUME v1 \in ChunkedTexts
  PROVE  /\ Len(v1) \in Nat /\ DOMAIN v1 = 1..Len(v1)
         /\ \A b \in 1..Len(v1) : /\ Len(v1[b]) \in Nat /\ DOMAIN v1[b] = 1..Len(v1[b])
                                  /\ \A s \in 1..Len(v1[b]) : v1[b][s] \in Seq(Nat) /\ v1[b][s] # <<>>
<1>1. v1 \in Seq(Seq(Seq(Nat) \ {<<>>}))
  BY ChunksAssumption DEF Chunking!TextsAssumption
<1>2. Len(v1) \in Nat /\ DOMAIN v1 = 1..Len(v1) /\ \A b \in 1..Len(v1) : v1[b] \in Seq(Seq(Nat) \ {<<>>})
  BY <1>1
<1>3. ASSUME NEW b \in 1..Len(v1)
      PROVE  /\ Len(v1[b]) \in Nat /\ DOMAIN v1[b] = 1..Len(v1[b])
             /\ \A s \in 1..Len(v1[b]) : v1[b][s] \in Seq(Nat) /\ v1[b][s] # <<>>
  <2>1. v1[b] \in Seq(Seq(Nat) \ {<<>>})
    BY <1>2
  <2> QED
    BY <2>1
<1> QED
  BY <1>2, <1>3

LEMMA PlaceHasChars == ASSUME v1 \in ChunkedTexts, NEW p \in Place PROVE Chunking!CharsOf(p) \in Nat
<1>1. p[1] \in 1..Len(v1) /\ p[2] \in 1..Len(v1[p[1]]) /\ p[3] \in DOMAIN v1[p[1]][p[2]]
  BY TextIs DEF Place
<1>2. v1[p[1]][p[2]] \in Seq(Nat)
  BY <1>1, TextIs
<1>3. v1[p[1]][p[2]][p[3]] \in Nat
  <2> DEFINE t == v1[p[1]][p[2]]
             i == p[3]
  <2>1. t \in Seq(Nat) /\ i \in DOMAIN t
    BY <1>1, <1>2
  <2> HIDE DEF t, i
  <2>2. t[i] \in Nat
    BY <2>1
  <2> QED
    BY <2>2 DEF t, i
<1> QED
  BY <1>3 DEF Chunking!CharsOf

LEMMA WordsAre ==
  ASSUME v1 \in ChunkedTexts, NEW b \in 1..Len(v1), NEW s \in 1..Len(v1[b])
  PROVE  Chunking!Words(b, s) \in Seq(Place) /\ Chunking!Words(b, s) # <<>>
<1> DEFINE t == v1[b][s]
           n == Len(t)
<1>1. t \in Seq(Nat) /\ t # <<>> /\ b \in Nat /\ s \in Nat /\ b \in DOMAIN v1 /\ s \in DOMAIN v1[b]
  BY TextIs
<1>2. n \in Nat /\ n # 0 /\ DOMAIN t = 1..n
  BY <1>1
<1>3. Chunking!Words(b, s) = [w \in 1..n |-> <<b, s, w>>]
  BY <1>2 DEF Chunking!Words
<1>4. ASSUME NEW w \in 1..n PROVE <<b, s, w>> \in Place
  <2>1. w \in Nat /\ w \in DOMAIN v1[b][s]
    BY <1>2
  <2> QED
    BY <1>1, <2>1 DEF Place
<1> HIDE DEF n, t
<1>5. [w \in 1..n |-> <<b, s, w>>] \in Seq(Place)
  BY <1>2, <1>4
<1>6. Len([w \in 1..n |-> <<b, s, w>>]) = n
  BY <1>2
<1>7. Len(<<>>) = 0
  OBVIOUS
<1> QED
  BY <1>2, <1>3, <1>5, <1>6, <1>7

\* Characters, up to each word.
AreChars(f, words) ==
  f = [n \in 0..Len(words) |->
         IF n = 0 THEN 0 ELSE f[n - 1] + Chunking!CharsOf(words[n]) + (IF n = 1 THEN 0 ELSE 1)]

CountsChars(f, words) ==
  /\ f[0] = 0 /\ Chunking!Chars(words) = f[Len(words)] /\ \A i \in 0..Len(words) : f[i] \in Nat
  /\ \A i \in 1..Len(words) : f[i] = f[i - 1] + Chunking!CharsOf(words[i]) + (IF i = 1 THEN 0 ELSE 1)

LEMMA CharsExist ==
  ASSUME v1 \in ChunkedTexts, NEW words \in Seq(Place)
  PROVE  \E f : CountsChars(f, words)
<1> DEFINE n == Len(words)
           More(i) == Chunking!CharsOf(words[i]) + (IF i = 1 THEN 0 ELSE 1)
           step == [p \in Nat \X (1..n) |-> p[1] + Chunking!CharsOf(words[p[2]]) + (IF p[2] = 1 THEN 0 ELSE 1)]
           F == CHOOSE f : AreChars(f, words)
<1>0. n \in Nat /\ \A i \in 1..n : words[i] \in Place /\ Chunking!CharsOf(words[i]) \in Nat
  BY PlaceHasChars
<1>1. step \in [Nat \X (1..n) -> Nat]
  BY <1>0
<1>2. PICK g : IsLoop(g, n, 0, step) /\ Goes(g, n, Nat, 0, step)
  <2> HIDE DEF step, n
  <2> QED
    BY <1>0, <1>1, LoopGoes
<1>3. \A i \in 1..n : step[<<g[i - 1], i>>] = g[i - 1] + Chunking!CharsOf(words[i]) + (IF i = 1 THEN 0 ELSE 1)
  BY <1>2 DEF Goes
<1>4. AreChars(g, words)
  <2>1. g = [i \in 0..n |-> IF i = 0 THEN 0 ELSE step[<<g[i - 1], i>>]]
    BY <1>2, Zenon DEF IsLoop
  <2>2. \A i \in 0..n : i # 0 => i \in 1..n
    BY <1>0
  <2> HIDE DEF step
  <2> QED
    BY <1>3, <2>1, <2>2 DEF AreChars
<1>5. AreChars(F, words)
  <2>1. \E h : AreChars(h, words)
    BY <1>4
  <2> QED
    BY <2>1, Zenon
<1>6. Chunking!Chars(words) = F[n]
  BY Zenon DEF Chunking!Chars, AreChars
<1> HIDE DEF F
<1>7. \A i \in 0..n : F[i] = IF i = 0 THEN 0 ELSE F[i - 1] + Chunking!CharsOf(words[i]) + (IF i = 1 THEN 0 ELSE 1)
  BY <1>5 DEF AreChars
<1> DEFINE Good == {i \in 0..n : F[i] \in Nat}
<1>8. ASSUME NEW i \in 1..n, i - 1 \in Good PROVE i \in Good
  <2>1. F[i] = F[i - 1] + Chunking!CharsOf(words[i]) + (IF i = 1 THEN 0 ELSE 1)
    BY <1>7
  <2> QED
    BY <1>0, <1>8, <2>1
<1>9. 0 \in Good /\ Good \in SUBSET (0..n)
  BY <1>0, <1>7
<1>10. Good = 0..n
  <2> HIDE DEF Good
  <2> QED
    BY <1>0, <1>8, <1>9, CountedUp
<1>11. \A i \in 1..n : i \in 0..n /\ i # 0
  OBVIOUS
<1> QED
  BY <1>0, <1>6, <1>7, <1>10, <1>11 DEF CountsChars

Gap(s, t) == IF s = <<>> \/ t = <<>> THEN 0 ELSE 1

LEMMA CharsAppend ==
  ASSUME v1 \in ChunkedTexts, NEW s \in Seq(Place), NEW w \in Place
  PROVE  /\ Chunking!Chars(<<>>) = 0 /\ Chunking!Chars(s) \in Nat
         /\ Chunking!Chars(Append(s, w)) = Chunking!Chars(s) + Chunking!CharsOf(w) + (IF s = <<>> THEN 0 ELSE 1)
<1> DEFINE t == Append(s, w)
           n == Len(s)
<1>0. /\ n \in Nat /\ t \in Seq(Place) /\ Len(t) = n + 1 /\ t[n + 1] = w
      /\ \A i \in 1..n : t[i] = s[i]
      /\ (n = 0 <=> s = <<>>)
  <2>1. /\ t \in Seq(Place) /\ Len(t) = n + 1 /\ t[n + 1] = w /\ \A i \in 1..n : t[i] = s[i]
    BY Appended
  <2> QED
    BY <2>1
<1> HIDE DEF t
<1>1. PICK f : CountsChars(f, s)
  BY CharsExist
<1>2. PICK g : CountsChars(g, t)
  BY <1>0, CharsExist
<1>3. PICK h : CountsChars(h, <<>>)
  <2>1. <<>> \in Seq(Place)
    OBVIOUS
  <2> QED
    BY <2>1, CharsExist
<1> DEFINE Good == {i \in 0..n : f[i] = g[i]}
<1>4. ASSUME NEW i \in 1..n, i - 1 \in Good PROVE i \in Good
  <2>1. f[i] = f[i - 1] + Chunking!CharsOf(s[i]) + (IF i = 1 THEN 0 ELSE 1)
    BY <1>1 DEF CountsChars
  <2>2. g[i] = g[i - 1] + Chunking!CharsOf(t[i]) + (IF i = 1 THEN 0 ELSE 1) /\ t[i] = s[i]
    BY <1>0, <1>2 DEF CountsChars
  <2> QED
    BY <1>4, <2>1, <2>2
<1>5. 0 \in Good /\ Good \in SUBSET (0..n) /\ n \in 0..n
  BY <1>0, <1>1, <1>2 DEF CountsChars
<1>6. f[n] = g[n]
  <2>1. n \in Good
    <3> HIDE DEF Good
    <3> QED
      BY <1>0, <1>4, <1>5, CountedUp
  <2> QED
    BY <2>1
<1>7. g[n + 1] = g[n] + Chunking!CharsOf(w) + (IF n = 0 THEN 0 ELSE 1)
  <2>1. n + 1 \in 1..Len(t) /\ n + 1 - 1 = n /\ (n + 1 = 1 <=> n = 0)
    BY <1>0
  <2>2. g[n + 1] = g[n + 1 - 1] + Chunking!CharsOf(t[n + 1]) + (IF n + 1 = 1 THEN 0 ELSE 1)
    BY <1>2, <2>1 DEF CountsChars
  <2> QED
    BY <1>0, <2>1, <2>2
<1>8. Chunking!Chars(s) = f[n] /\ f[n] \in Nat /\ Chunking!Chars(t) = g[n + 1]
  BY <1>0, <1>1, <1>2 DEF CountsChars
<1>9. Chunking!Chars(<<>>) = 0
  BY <1>3 DEF CountsChars
<1> QED
  BY <1>0, <1>6, <1>7, <1>8, <1>9 DEF t

LEMMA CharsJoin ==
  ASSUME v1 \in ChunkedTexts, NEW s \in Seq(Place), NEW t \in Seq(Place)
  PROVE  /\ Chunking!Chars(s) \in Nat /\ Chunking!Chars(t) \in Nat
         /\ Chunking!Chars(Then(s, t)) = Chunking!Chars(s) + Chunking!Chars(t) + Gap(s, t)
<1> DEFINE n == Len(t)
           Sums(u) == Chunking!Chars(Then(s, u)) = Chunking!Chars(s) + Chunking!Chars(u) + Gap(s, u)
           Good == {i \in 0..n : Sums(First(t, i))}
<1>0. n \in Nat /\ n \in 0..n
  OBVIOUS
<1>1. \A u \in Seq(Place) : Chunking!Chars(u) \in Nat
  <2> SUFFICES ASSUME NEW u \in Seq(Place) PROVE Chunking!Chars(u) \in Nat
    OBVIOUS
  <2>1. PICK f : CountsChars(f, u)
    BY CharsExist
  <2> QED
    BY <2>1 DEF CountsChars
<1>2. 0 \in Good
  <2>1. First(t, 0) = <<>> /\ Then(s, <<>>) = s
    <3>1. <<>> \in Seq(Place)
      OBVIOUS
    <3> QED
      BY <3>1, FirstIs, ThenIs
  <2>2. Chunking!Chars(<<>>) = 0 /\ Gap(s, <<>>) = 0
    <3>1. PICK h : CountsChars(h, <<>>)
      <4>1. <<>> \in Seq(Place)
        OBVIOUS
      <4> QED
        BY <4>1, CharsExist
    <3> QED
      BY <3>1 DEF CountsChars, Gap
  <2>3. Sums(<<>>)
    BY <1>1, <2>1, <2>2
  <2> QED
    BY <1>0, <2>1, <2>3
<1>3. ASSUME NEW i \in 1..n, i - 1 \in Good PROVE i \in Good
  <2> DEFINE u == First(t, i - 1)
             w == t[i]
  <2>1. First(t, i) = Append(u, w) /\ w \in Place /\ u \in Seq(Place)
    BY FirstIs
  <2>2. Sums(u)
    BY <1>3
  <2> HIDE DEF u, w
  <2>3. Then(s, Append(u, w)) = Append(Then(s, u), w) /\ Then(s, u) \in Seq(Place)
    BY <2>1, ThenAppend, ThenIs
  <2>4. /\ Chunking!Chars(Append(Then(s, u), w)) =
             Chunking!Chars(Then(s, u)) + Chunking!CharsOf(w) + (IF Then(s, u) = <<>> THEN 0 ELSE 1)
        /\ Chunking!Chars(Append(u, w)) = Chunking!Chars(u) + Chunking!CharsOf(w) + (IF u = <<>> THEN 0 ELSE 1)
    BY <2>1, <2>3, CharsAppend
  <2>5. Append(u, w) # <<>> /\ (Then(s, u) = <<>> <=> s = <<>> /\ u = <<>>)
    BY <2>1 DEF Then
  <2>6. Chunking!CharsOf(w) \in Nat /\ Chunking!Chars(s) \in Nat /\ Chunking!Chars(u) \in Nat
    BY <1>1, <2>1, PlaceHasChars
  <2>7. Sums(Append(u, w))
    <3>1. CASE s = <<>>
      BY <2>2, <2>3, <2>4, <2>5, <2>6, <3>1 DEF Gap
    <3>2. CASE s # <<>> /\ u = <<>>
      BY <2>2, <2>3, <2>4, <2>5, <2>6, <3>2 DEF Gap
    <3>3. CASE s # <<>> /\ u # <<>>
      BY <2>2, <2>3, <2>4, <2>5, <2>6, <3>3 DEF Gap
    <3> QED
      BY <3>1, <3>2, <3>3
  <2>8. Sums(First(t, i))
    <3> HIDE DEF Sums
    <3> QED
      BY <2>1, <2>7
  <2> HIDE DEF Sums
  <2> QED
    BY <2>8
<1>4. Good \in SUBSET (0..n)
  OBVIOUS
<1>5. n \in Good
  <2> HIDE DEF Good
  <2> QED
    BY <1>0, <1>2, <1>3, <1>4, CountedUp
<1>6. First(t, n) = t
  BY FirstIs
<1> QED
  BY <1>1, <1>5, <1>6
-----------------------------------------------------------------------------
(* The ChunkBuilder. *)

GoodChunk(c) == c # <<>> /\ (Chunking!Fits(c) \/ Len(c) = 1)

Builder(x, y, z) == [chunks |-> x, current |-> y, chars |-> z]

\* The builders that can be: their chunks are good, and the characters are not too few.
Sound ==
  {b \in [chunks : Seq(Seq(Place)), current : Seq(Place), chars : Nat] :
     /\ \A i \in 1..Len(b.chunks) : GoodChunk(b.chunks[i])
     /\ b.current # <<>> => GoodChunk(b.current)
     /\ Chunking!Chars(b.current) <= b.chars}

\* The words a builder was told, and whether some are in one chunk.
Told(b) == Then(Flat(b.chunks), b.current)
Holds(b, Y) ==
  (\E i \in 1..Len(b.chunks) : Y \subseteq Elements(b.chunks[i])) \/ Y \subseteq Elements(b.current)

Keeps(b, c) == \A Y \in (SUBSET Place) \ {{}} : Holds(b, Y) => Holds(c, Y)

\* c is what b becomes when it is told some more words.
Extends(b, c, words) == c \in Sound /\ Told(c) = Then(Told(b), words) /\ Keeps(b, c)

LEMMA BuilderHas ==
  ASSUME NEW x, NEW y, NEW z
  PROVE  /\ Builder(x, y, z).chunks = x /\ Builder(x, y, z).current = y /\ Builder(x, y, z).chars = z
BY DEF Builder

Builders == [chunks : Seq(Seq(Place)), current : Seq(Place), chars : Nat]

WithChunks(b, x) == [b EXCEPT !.chunks = x]
WithCurrent(b, y) == [b EXCEPT !.current = y]
WithChars(b, z) == [b EXCEPT !.chars = z]

LEMMA BuilderWith ==
  ASSUME NEW b \in Builders
  PROVE  /\ \A x \in Seq(Seq(Place)) : WithChunks(b, x) = Builder(x, b.current, b.chars)
         /\ \A y \in Seq(Place) :
              WithCurrent(b, y) = Builder(b.chunks, y, b.chars) /\ WithCurrent(b, y) \in Builders
         /\ \A z \in Nat : WithChars(b, z) = Builder(b.chunks, b.current, z)
<1>1. ASSUME NEW A, NEW B, NEW d \in [chunks : Seq(A), current : Seq(B), chars : Nat], NEW x \in Seq(A)
      PROVE  [d EXCEPT !.chunks = x] = Builder(x, d.current, d.chars)
  BY SMT DEF Builder
<1>2. \A x \in Seq(Seq(Place)) : WithChunks(b, x) = Builder(x, b.current, b.chars)
  BY <1>1 DEF WithChunks, Builders
<1>3. \A y \in Seq(Place) :
        WithCurrent(b, y) = Builder(b.chunks, y, b.chars) /\ WithCurrent(b, y) \in Builders
  BY SMT DEF WithCurrent, Builder, Builders
<1>4. \A z \in Nat : WithChars(b, z) = Builder(b.chunks, b.current, z)
  BY SMT DEF WithChars, Builder, Builders
<1> QED
  BY <1>2, <1>3, <1>4

\* What the builders of the code do to one.
More(b, s, m, g) == [b EXCEPT !.current = @ \o s, !.chars = @ + m + g]

LEMMA BuilderWithMore ==
  ASSUME NEW b \in Builders
  PROVE  /\ \A s \in Seq(Seq(Place)) :
              [b EXCEPT !.chunks = @ \o s] = Builder(Then(b.chunks, s), b.current, b.chars)
         /\ \A s \in Seq(Place) : \A m \in Nat : \A g \in Nat :
              More(b, s, m, g) = Builder(b.chunks, Then(b.current, s), b.chars + m + g)
<1>1. b.chunks \in Seq(Seq(Place)) /\ b.current \in Seq(Place) /\ b.chars \in Nat
  BY DEF Builders
<1>2. ASSUME NEW s \in Seq(Seq(Place))
      PROVE  [b EXCEPT !.chunks = @ \o s] = Builder(Then(b.chunks, s), b.current, b.chars)
  <2>1. [b EXCEPT !.chunks = @ \o s] = WithChunks(b, Then(b.chunks, s))
    BY Zenon DEF WithChunks, Then
  <2>2. Then(b.chunks, s) \in Seq(Seq(Place))
    BY <1>1, ThenIs
  <2> QED
    BY <2>1, <2>2, BuilderWith
<1>3. ASSUME NEW s \in Seq(Place), NEW m \in Nat, NEW g \in Nat
      PROVE  More(b, s, m, g) = Builder(b.chunks, Then(b.current, s), b.chars + m + g)
  <2> DEFINE y == Then(b.current, s)
             z == b.chars + m + g
             c == WithCurrent(b, y)
  <2>1. More(b, s, m, g) = WithChars(c, z)
    BY Zenon DEF More, WithCurrent, WithChars, Then
  <2>2. y \in Seq(Place) /\ z \in Nat
    BY <1>1, ThenIs
  <2> HIDE DEF y, z
  <2>3. c = Builder(b.chunks, y, b.chars) /\ c \in Builders
    BY <2>2, BuilderWith
  <2> HIDE DEF c
  <2>4. WithChars(c, z) = Builder(c.chunks, c.current, z)
    BY <2>2, <2>3, BuilderWith
  <2>5. c.chunks = b.chunks /\ c.current = y
    BY <2>3, BuilderHas
  <2> QED
    BY <2>1, <2>4, <2>5 DEF y, z
<1> QED
  BY <1>2, <1>3

LEMMA BuilderIsSound ==
  ASSUME NEW x \in Seq(Seq(Place)), NEW y \in Seq(Place), NEW z \in Nat,
         \A i \in 1..Len(x) : GoodChunk(x[i]), y # <<>> => GoodChunk(y), Chunking!Chars(y) <= z
  PROVE  Builder(x, y, z) \in Sound
<1>1. Builder(x, y, z) \in [chunks : Seq(Seq(Place)), current : Seq(Place), chars : Nat]
  BY DEF Builder
<1> QED
  BY <1>1, BuilderHas DEF Sound

LEMMA SoundIs ==
  ASSUME NEW b \in Sound
  PROVE  /\ b = Builder(b.chunks, b.current, b.chars)
         /\ b.chunks \in Seq(Seq(Place)) /\ b.current \in Seq(Place) /\ b.chars \in Nat
         /\ \A i \in 1..Len(b.chunks) : GoodChunk(b.chunks[i])
         /\ b.current # <<>> => GoodChunk(b.current)
         /\ Chunking!Chars(b.current) <= b.chars
<1>1. b \in [chunks : Seq(Seq(Place)), current : Seq(Place), chars : Nat]
  BY DEF Sound
<1>2. b = Builder(b.chunks, b.current, b.chars)
  BY <1>1 DEF Builder
<1>3. b.chunks \in Seq(Seq(Place)) /\ b.current \in Seq(Place) /\ b.chars \in Nat
  BY <1>1
<1> QED
  BY <1>2, <1>3 DEF Sound

LEMMA ToldIs ==
  ASSUME NEW b \in Sound
  PROVE  Told(b) \in Seq(Place) /\ Flat(b.chunks) \in Seq(Place)
<1>1. b.chunks \in Seq(Seq(Place)) /\ b.current \in Seq(Place)
  BY SoundIs
<1>2. Flat(b.chunks) \in Seq(Place)
  <2>1. <<>> \in Seq(Place)
    OBVIOUS
  <2> QED
    BY <1>1, <2>1, FlatAppends
<1> QED
  BY <1>1, <1>2, ThenIs DEF Told

LEMMA ExtendsThen ==
  ASSUME NEW b \in Sound, NEW c, NEW d, NEW s \in Seq(Place), NEW t \in Seq(Place),
         Extends(b, c, s), Extends(c, d, t)
  PROVE  Extends(b, d, Then(s, t)) /\ c \in Sound /\ d \in Sound
<1>1. Then(Told(c), t) = Then(Told(b), Then(s, t))
  BY ToldIs, ThenThen DEF Extends
<1>2. Keeps(b, d)
  BY DEF Extends, Keeps
<1> QED
  BY <1>1, <1>2 DEF Extends

LEMMA ExtendsNone ==
  ASSUME NEW b \in Sound
  PROVE  Extends(b, b, <<>>)
<1>1. Told(b) \in Seq(Place) /\ <<>> \in Seq(Place)
  BY ToldIs
<1> QED
  BY <1>1, ThenIs DEF Extends, Keeps

\* A new builder holds nothing.
LEMMA NewIsSound ==
  ASSUME v1 \in ChunkedTexts
  PROVE  /\ Chunking!NewBuilder = Builder(<<>>, <<>>, 0) /\ Chunking!NewBuilder \in Sound
         /\ Told(Chunking!NewBuilder) = <<>>
<1>1. Chunking!NewBuilder = Builder(<<>>, <<>>, 0)
  BY DEF Chunking!NewBuilder, Builder
<1>2. /\ <<>> \in Seq(Seq(Place)) /\ <<>> \in Seq(Place) /\ 0 \in Nat
      /\ \A i \in 1..Len(<<>>) : FALSE
  OBVIOUS
<1>3. Chunking!Chars(<<>>) = 0
  <2>1. PICK h : CountsChars(h, <<>>)
    BY <1>2, CharsExist
  <2> QED
    BY <2>1 DEF CountsChars
<1>4. Builder(<<>>, <<>>, 0) \in Sound
  <2>1. Chunking!Chars(<<>>) <= 0
    BY <1>3
  <2>2. ASSUME NEW x, NEW y, x = <<>>, y = <<>> PROVE Builder(x, y, 0) \in Sound
    <3>1. /\ x \in Seq(Seq(Place)) /\ y \in Seq(Place) /\ 0 \in Nat
          /\ \A i \in 1..Len(x) : GoodChunk(x[i])
      BY <1>2, <2>2
    <3>2. (y # <<>> => GoodChunk(y)) /\ Chunking!Chars(y) <= 0
      BY <2>1, <2>2
    <3> QED
      BY <3>1, <3>2, BuilderIsSound
  <2> QED
    BY <2>2
<1>5. Told(Builder(<<>>, <<>>, 0)) = <<>>
  <2>1. Told(Builder(<<>>, <<>>, 0)) = Then(Flat(<<>>), <<>>)
    BY BuilderHas DEF Told
  <2> QED
    BY <1>2, <2>1, FlatOfNone, ThenIs
<1> QED
  BY <1>1, <1>4, <1>5

LEMMA FlushExtends ==
  ASSUME v1 \in ChunkedTexts, NEW b \in Sound
  PROVE  /\ Extends(b, Chunking!Flush(b), <<>>)
         /\ Chunking!Flush(b).current = <<>> /\ Chunking!Flush(b).chars = 0
<1> DEFINE x == IF b.current = <<>> THEN b.chunks ELSE Append(b.chunks, b.current)
           c == Builder(x, <<>>, 0)
<1>1. Chunking!Flush(b) = c
  BY DEF Chunking!Flush, Chunking!NewBuilder, Builder
<1>2. /\ b.chunks \in Seq(Seq(Place)) /\ b.current \in Seq(Place)
      /\ \A i \in 1..Len(b.chunks) : GoodChunk(b.chunks[i])
      /\ b.current # <<>> => GoodChunk(b.current)
  BY SoundIs
<1>3. <<>> \in Seq(Place) /\ Chunking!Chars(<<>>) <= 0
  <2>1. PICK h : CountsChars(h, <<>>)
    <3>1. <<>> \in Seq(Place)
      OBVIOUS
    <3> QED
      BY <3>1, CharsExist
  <2> QED
    BY <2>1 DEF CountsChars
<1>4. /\ x \in Seq(Seq(Place)) /\ \A i \in 1..Len(x) : GoodChunk(x[i])
      /\ Flat(x) = Told(b) /\ Flat(x) \in Seq(Place)
      /\ \A i \in 1..Len(b.chunks) : i \in 1..Len(x) /\ x[i] = b.chunks[i]
      /\ b.current # <<>> => Len(x) \in 1..Len(x) /\ x[Len(x)] = b.current
  <2>1. CASE b.current = <<>>
    <3>1. x = b.chunks
      BY <2>1
    <3>2. Flat(b.chunks) = Told(b)
      BY <2>1, ToldIs, ThenIs DEF Told
    <3> HIDE DEF x
    <3> QED
      BY <1>2, <2>1, <3>1, <3>2, ToldIs
  <2>2. CASE b.current # <<>>
    <3>1. x = Append(b.chunks, b.current)
      BY <2>2
    <3>2. /\ x \in Seq(Seq(Place)) /\ Len(x) = Len(b.chunks) + 1 /\ x[Len(b.chunks) + 1] = b.current
          /\ \A i \in 1..Len(b.chunks) : x[i] = b.chunks[i]
      BY <1>2, <3>1, Appended
    <3>3. Flat(x) = Told(b)
      BY <1>2, <3>1, FlatAppends DEF Told
    <3>4. Len(b.chunks) \in Nat
      BY <1>2
    <3> HIDE DEF x
    <3>5. \A i \in 1..Len(x) : GoodChunk(x[i])
      <4> SUFFICES ASSUME NEW i \in 1..Len(x) PROVE GoodChunk(x[i])
        OBVIOUS
      <4>1. i \in 1..Len(b.chunks) \/ i = Len(b.chunks) + 1
        BY <3>2, <3>4
      <4> QED
        BY <1>2, <2>2, <3>2, <4>1
    <3> QED
      BY <1>2, <2>2, <3>2, <3>3, <3>4, <3>5, ToldIs
  <2> QED
    BY <2>1, <2>2
<1> HIDE DEF x
<1>5. c \in Sound
  <2>1. ASSUME NEW y, y = <<>> PROVE Builder(x, y, 0) \in Sound
    <3>1. y \in Seq(Place) /\ (y # <<>> => GoodChunk(y)) /\ Chunking!Chars(y) <= 0 /\ 0 \in Nat
      BY <1>3, <2>1
    <3> QED
      BY <1>4, <3>1, BuilderIsSound
  <2> QED
    BY <2>1
<1>6. Told(c) = Then(Told(b), <<>>)
  BY <1>4, BuilderHas DEF Told
<1>7. Keeps(b, c)
  <2> SUFFICES ASSUME NEW Y \in (SUBSET Place) \ {{}}, Holds(b, Y) PROVE Holds(c, Y)
    BY DEF Keeps
  <2>0. c.chunks = x
    BY BuilderHas
  <2> HIDE DEF c
  <2>1. CASE \E i \in 1..Len(b.chunks) : Y \subseteq Elements(b.chunks[i])
    <3>1. PICK i \in 1..Len(b.chunks) : Y \subseteq Elements(b.chunks[i])
      BY <2>1
    <3>2. i \in 1..Len(x) /\ x[i] = b.chunks[i]
      BY <1>4
    <3> QED
      BY <2>0, <3>1, <3>2 DEF Holds
  <2>2. CASE Y \subseteq Elements(b.current)
    <3>1. b.current # <<>>
      <4>1. Elements(<<>>) = {}
        BY DEF Elements
      <4> QED
        BY <2>2, <4>1
    <3> QED
      BY <1>4, <2>0, <2>2, <3>1 DEF Holds
  <2> QED
    BY <2>1, <2>2 DEF Holds
<1>8. c.current = <<>> /\ c.chars = 0
  BY BuilderHas
<1> QED
  BY <1>1, <1>5, <1>6, <1>7, <1>8 DEF Extends

\* A piece that does not fit the current chunk closes it.
LEMMA PieceExtends ==
  ASSUME v1 \in ChunkedTexts, NEW b \in Sound, NEW words \in Seq(Place), GoodChunk(words),
         NEW sep \in {1, 2}
  PROVE  /\ Extends(b, Chunking!AppendPiece(b, words, sep), words)
         /\ Holds(Chunking!AppendPiece(b, words, sep), Elements(words))
<1> DEFINE G(current) == IF current = <<>> THEN 0 ELSE sep
           full == /\ b.current # <<>>
                   /\ \/ b.chars + Chunking!Chars(words) + G(b.current) > ChunkChars
                      \/ Len(b.current) + Len(words) > ChunkWords
           room == IF full THEN Chunking!Flush(b) ELSE b
           x == room.chunks
           y == Then(room.current, words)
           z == room.chars + Chunking!Chars(words) + G(room.current)
           c == Builder(x, y, z)
<1>1. room \in Sound /\ Extends(b, room, <<>>)
  <2>1. Chunking!Flush(b) \in Sound /\ Extends(b, Chunking!Flush(b), <<>>)
    BY FlushExtends DEF Extends
  <2> QED
    BY <2>1, ExtendsNone
<1>2. /\ room = Builder(room.chunks, room.current, room.chars)
      /\ x \in Seq(Seq(Place)) /\ room.current \in Seq(Place) /\ room.chars \in Nat
      /\ \A i \in 1..Len(x) : GoodChunk(x[i])
      /\ Chunking!Chars(room.current) <= room.chars
  <2> HIDE DEF room
  <2> QED
    BY <1>1, SoundIs
<1>3. \/ room.current = <<>>
      \/ /\ room.chars + Chunking!Chars(words) + sep <= ChunkChars
         /\ Len(room.current) + Len(words) <= ChunkWords
  <2>1. CASE full
    BY <2>1, FlushExtends
  <2>2. CASE ~full
    <3>1. room = b
      BY <2>2
    <3>2. CASE b.current = <<>>
      BY <3>1, <3>2
    <3>3. CASE b.current # <<>>
      <4>1. /\ ~(b.chars + Chunking!Chars(words) + sep > ChunkChars)
            /\ ~(Len(b.current) + Len(words) > ChunkWords)
        BY <2>2, <3>3
      <4>2. /\ b.chars \in Nat /\ Chunking!Chars(words) \in Nat /\ sep \in Nat
            /\ b.current \in Seq(Place) /\ ChunkChars \in Nat /\ ChunkWords \in Nat
        BY SoundIs, CharsJoin, ChunksAssumption DEF Chunking!LimitAssumption
      <4>3. Len(b.current) \in Nat /\ Len(words) \in Nat
        BY <4>2
      <4>4. /\ b.chars + Chunking!Chars(words) + sep <= ChunkChars
            /\ Len(b.current) + Len(words) <= ChunkWords
        BY <4>1, <4>2, <4>3
      <4> QED
        BY <3>1, <4>4
    <3> QED
      BY <3>2, <3>3
  <2> QED
    BY <2>1, <2>2
<1>4. Chunking!AppendPiece(b, words, sep) = c
  <2>1. Chunking!AppendPiece(b, words, sep) =
          More(room, words, Chunking!Chars(words), G(room.current))
    BY DEF Chunking!AppendPiece, More
  <2> HIDE DEF room, G
  <2>3. More(room, words, Chunking!Chars(words), G(room.current))
          = Builder(room.chunks, Then(room.current, words), room.chars + Chunking!Chars(words) + G(room.current))
    <3>1. room \in Builders
      BY <1>1 DEF Sound, Builders
    <3>2. Chunking!Chars(words) \in Nat /\ G(room.current) \in Nat
      BY CharsJoin DEF G
    <3> QED
      BY <3>1, <3>2, BuilderWithMore
  <2> QED
    BY <2>1, <2>3
<1> HIDE DEF room
<1>5. /\ Chunking!Chars(words) \in Nat /\ sep \in Nat /\ sep >= 1 /\ y \in Seq(Place) /\ words # <<>>
      /\ Chunking!Chars(y) \in Nat
      /\ Chunking!Chars(y) = Chunking!Chars(room.current) + Chunking!Chars(words) + Gap(room.current, words)
      /\ Chunking!Chars(room.current) \in Nat
      /\ Len(y) = Len(room.current) + Len(words)
  <2>1. y \in Seq(Place) /\ Len(y) = Len(room.current) + Len(words)
    BY <1>2, ThenIs, Joined DEF Then
  <2> HIDE DEF y
  <2>2. Chunking!Chars(y) = Chunking!Chars(room.current) + Chunking!Chars(words) + Gap(room.current, words)
    BY <1>2, CharsJoin DEF y
  <2>3. Chunking!Chars(y) \in Nat /\ Chunking!Chars(words) \in Nat /\ Chunking!Chars(room.current) \in Nat
    BY <1>2, <2>1, CharsJoin
  <2>4. sep \in Nat /\ sep >= 1 /\ words # <<>>
    BY DEF GoodChunk
  <2> QED
    BY <2>1, <2>2, <2>3, <2>4
<1>6. y # <<>> /\ GoodChunk(y) /\ z \in Nat /\ Chunking!Chars(y) <= z
  <2>1. CASE room.current = <<>>
    <3>1. y = words
      BY <2>1, ThenIs
    <3>2. z = room.chars + Chunking!Chars(words)
      BY <1>2, <1>5, <2>1
    <3> HIDE DEF y, z
    <3> QED
      BY <1>2, <1>5, <3>1, <3>2
  <2>2. CASE room.current # <<>>
    <3>1. Gap(room.current, words) = 1 /\ G(room.current) = sep
      BY <1>5, <2>2 DEF Gap
    <3>2. /\ room.chars + Chunking!Chars(words) + sep <= ChunkChars
          /\ Len(room.current) + Len(words) <= ChunkWords
      BY <1>3, <2>2
    <3> HIDE DEF y, G
    <3>3. z = room.chars + Chunking!Chars(words) + sep
      BY <3>1
    <3> HIDE DEF z
    <3>4. ChunkChars \in Nat
      BY ChunksAssumption DEF Chunking!LimitAssumption
    <3>5. z \in Nat /\ Chunking!Chars(y) <= z /\ Chunking!Chars(y) <= ChunkChars
      <4> DEFINE has == Chunking!Chars(room.current)
                 more == Chunking!Chars(words)
      <4>1. /\ has \in Nat /\ more \in Nat /\ room.chars \in Nat /\ sep \in Nat /\ sep >= 1
            /\ Chunking!Chars(y) = has + more + 1 /\ has <= room.chars
        BY <1>2, <1>5, <3>1
      <4>2. room.chars + more + sep <= ChunkChars /\ z = room.chars + more + sep
        BY <3>2, <3>3
      <4> HIDE DEF has, more
      <4> QED
        BY <3>4, <4>1, <4>2
    <3>6. Len(y) <= ChunkWords
      BY <1>5, <3>2
    <3>7. y # <<>>
      <4>1. Len(words) \in Nat /\ Len(words) # 0 /\ Len(room.current) \in Nat
        BY <1>2, <1>5
      <4>2. Len(y) # 0
        BY <1>5, <4>1
      <4> QED
        BY <4>2
    <3> QED
      BY <3>5, <3>6, <3>7 DEF GoodChunk, Chunking!Fits
  <2> QED
    BY <2>1, <2>2
<1> HIDE DEF z
<1>7. c \in Sound
  <2> HIDE DEF x, y
  <2> QED
    BY <1>2, <1>5, <1>6, BuilderIsSound
<1>8. Told(c) = Then(Told(b), words)
  <2>1. Told(c) = Then(Flat(x), Then(room.current, words))
    BY BuilderHas DEF Told
  <2>2. Flat(x) \in Seq(Place)
    BY <1>1, ToldIs
  <2>3. Then(Flat(x), Then(room.current, words)) = Then(Told(room), words)
    BY <1>2, <2>2, ThenThen DEF Told
  <2>4. Told(room) = Told(b)
    <3>1. Told(b) \in Seq(Place)
      BY ToldIs
    <3> QED
      BY <1>1, <3>1, ThenIs DEF Extends
  <2> QED
    BY <2>1, <2>3, <2>4
<1>9. Elements(y) = Elements(room.current) \cup Elements(words)
  BY <1>2, JoinedElements
<1>10. Keeps(room, c) /\ Holds(c, Elements(words))
  <2> HIDE DEF x, y
  <2>1. c.chunks = x /\ c.current = y /\ x = room.chunks
    BY BuilderHas DEF x
  <2> HIDE DEF c
  <2> QED
    BY <1>9, <2>1 DEF Keeps, Holds
<1>11. Keeps(b, c)
  BY <1>1, <1>10 DEF Extends, Keeps
<1> QED
  BY <1>4, <1>7, <1>8, <1>10, <1>11 DEF Extends

\* A loop whose rounds each tell a builder some more words.
Grows(F, n, W) ==
  /\ F[0] \in Sound /\ W[0] = <<>>
  /\ \A i \in 1..n : F[i - 1] \in Sound =>
       \E t \in Seq(Place) : Extends(F[i - 1], F[i], t) /\ W[i] = Then(W[i - 1], t)

LEMMA GrowsTo ==
  ASSUME NEW n \in Nat, NEW F, NEW W, Grows(F, n, W)
  PROVE  /\ \A i \in 0..n : F[i] \in Sound /\ Keeps(F[i], F[n])
         /\ Extends(F[0], F[n], W[n])
<1> DEFINE Good == {i \in 0..n : F[i] \in Sound /\ W[i] \in Seq(Place) /\ Extends(F[0], F[i], W[i])}
<1>1. ASSUME NEW i \in 1..n, i - 1 \in Good PROVE i \in Good
  <2>1. PICK t \in Seq(Place) : Extends(F[i - 1], F[i], t) /\ W[i] = Then(W[i - 1], t)
    BY <1>1 DEF Grows
  <2>2. F[0] \in Sound /\ W[i - 1] \in Seq(Place) /\ Extends(F[0], F[i - 1], W[i - 1])
    BY <1>1 DEF Grows
  <2>3. Extends(F[0], F[i], Then(W[i - 1], t)) /\ F[i] \in Sound
    BY <2>1, <2>2, ExtendsThen
  <2>4. Then(W[i - 1], t) \in Seq(Place)
    BY <2>2, ThenIs
  <2> QED
    BY <2>1, <2>3, <2>4
<1>2. 0 \in Good /\ Good \in SUBSET (0..n)
  <2>1. <<>> \in Seq(Place)
    OBVIOUS
  <2>2. F[0] \in Sound /\ W[0] = <<>> /\ Extends(F[0], F[0], <<>>)
    BY ExtendsNone DEF Grows
  <2>3. F[0] \in Sound /\ W[0] \in Seq(Place) /\ Extends(F[0], F[0], W[0])
    BY <2>1, <2>2
  <2> QED
    BY <2>3
<1>3. Good = 0..n
  <2> HIDE DEF Good
  <2> QED
    BY <1>1, <1>2, CountedUp
<1>4. ASSUME NEW k \in 0..n PROVE Keeps(F[k], F[n])
  <2> DEFINE Kept == {i \in 0..n : k <= i => Keeps(F[k], F[i])}
  <2>1. ASSUME NEW i \in 1..n, i - 1 \in Kept PROVE i \in Kept
    <3>1. k <= i - 1 \/ k = i \/ ~(k <= i)
      OBVIOUS
    <3>2. Keeps(F[i - 1], F[i])
      <4>1. F[i - 1] \in Sound
        BY <1>3
      <4> QED
        BY <4>1 DEF Grows, Extends
    <3>3. Keeps(F[i], F[i])
      BY DEF Keeps
    <3>4. k <= i - 1 => Keeps(F[k], F[i])
      BY <2>1, <3>2 DEF Keeps
    <3>5. k <= i => Keeps(F[k], F[i])
      BY <3>1, <3>3, <3>4
    <3> QED
      BY <3>5
  <2>2. 0 \in Kept /\ Kept \in SUBSET (0..n)
    <3>1. Keeps(F[0], F[0])
      BY DEF Keeps
    <3>2. 0 <= 0 => (k <= 0 => k = 0)
      OBVIOUS
    <3> QED
      BY <3>1, <3>2
  <2>3. Kept = 0..n
    <3> HIDE DEF Kept
    <3> QED
      BY <2>1, <2>2, CountedUp
  <2> QED
    BY <2>3
<1>5. n \in 0..n
  OBVIOUS
<1> QED
  BY <1>3, <1>4, <1>5

LEMMA AppendIs ==
  ASSUME NEW S, NEW s \in Seq(S), NEW e \in S
  PROVE  Append(s, e) = Then(s, <<e>>)
BY DEF Then

\* appendWords.
AreWords(f, b, words) ==
  f = [n \in 0..Len(words) |->
         IF n = 0 THEN b ELSE Chunking!AppendPiece(f[n - 1], <<words[n]>>, 1)]

LEMMA WordExtends ==
  ASSUME v1 \in ChunkedTexts, NEW b \in Sound, NEW w \in Place
  PROVE  Extends(b, Chunking!AppendPiece(b, <<w>>, 1), <<w>>)
<1>1. <<w>> \in Seq(Place) /\ <<w>> # <<>> /\ Len(<<w>>) = 1
  OBVIOUS
<1>2. GoodChunk(<<w>>)
  BY <1>1 DEF GoodChunk
<1> QED
  BY <1>1, <1>2, PieceExtends

LEMMA WordsExtend ==
  ASSUME v1 \in ChunkedTexts, NEW b \in Sound, NEW words \in Seq(Place)
  PROVE  Extends(b, Chunking!AppendWords(b, words), words)
<1> DEFINE n == Len(words)
           step == [p \in Sound \X (1..n) |-> Chunking!AppendPiece(p[1], <<words[p[2]]>>, 1)]
           F == CHOOSE f : AreWords(f, b, words)
           W == [i \in 0..n |-> First(words, i)]
<1>0. n \in Nat /\ n \in 0..n /\ \A i \in 1..n : words[i] \in Place
  OBVIOUS
<1>1. step \in [Sound \X (1..n) -> Sound]
  <2>1. \A p \in Sound \X (1..n) : Chunking!AppendPiece(p[1], <<words[p[2]]>>, 1) \in Sound
    BY <1>0, WordExtends DEF Extends
  <2> QED
    BY <2>1
<1>2. PICK g : IsLoop(g, n, b, step) /\ Goes(g, n, Sound, b, step)
  <2> HIDE DEF step, n
  <2> QED
    BY <1>0, <1>1, LoopGoes
<1>3. \A i \in 1..n : step[<<g[i - 1], i>>] = Chunking!AppendPiece(g[i - 1], <<words[i]>>, 1)
  BY <1>2 DEF Goes
<1>4. AreWords(g, b, words)
  <2>1. g = [i \in 0..n |-> IF i = 0 THEN b ELSE step[<<g[i - 1], i>>]]
    BY <1>2, Zenon DEF IsLoop
  <2>2. \A i \in 0..n : i # 0 => i \in 1..n
    BY <1>0
  <2> HIDE DEF step
  <2> QED
    BY <1>3, <2>1, <2>2 DEF AreWords
<1>5. AreWords(F, b, words)
  <2>1. \E h : AreWords(h, b, words)
    BY <1>4
  <2> QED
    BY <2>1, Zenon
<1>6. Chunking!AppendWords(b, words) = F[n]
  BY Zenon DEF Chunking!AppendWords, AreWords
<1> HIDE DEF F, step
<1>7. \A i \in 0..n : F[i] = IF i = 0 THEN b ELSE Chunking!AppendPiece(F[i - 1], <<words[i]>>, 1)
  BY <1>5 DEF AreWords
<1>8. Grows(F, n, W)
  <2>1. F[0] = b /\ \A i \in 1..n : F[i] = Chunking!AppendPiece(F[i - 1], <<words[i]>>, 1)
    <3>1. 0 \in 0..n /\ \A i \in 1..n : i \in 0..n /\ i # 0
      BY <1>0
    <3> QED
      BY <1>7, <3>1
  <2>2. W[0] = <<>>
    BY <1>0, FirstIs
  <2>3. ASSUME NEW i \in 1..n, F[i - 1] \in Sound
        PROVE  \E t \in Seq(Place) : Extends(F[i - 1], F[i], t) /\ W[i] = Then(W[i - 1], t)
    <3>1. Extends(F[i - 1], F[i], <<words[i]>>) /\ <<words[i]>> \in Seq(Place)
      BY <1>0, <2>1, <2>3, WordExtends
    <3>2. First(words, i) = Append(First(words, i - 1), words[i]) /\ First(words, i - 1) \in Seq(Place)
      BY FirstIs
    <3>3. W[i] = First(words, i) /\ W[i - 1] = First(words, i - 1)
      BY <1>0
    <3>4. Append(First(words, i - 1), words[i]) = Then(First(words, i - 1), <<words[i]>>)
      BY <1>0, <3>2, AppendIs
    <3> QED
      BY <3>1, <3>2, <3>3, <3>4
  <2> HIDE DEF W
  <2> QED
    BY <2>1, <2>2, <2>3 DEF Grows
<1>9. F[0] = b /\ W[n] = words
  <2>1. F[0] = b
    <3>1. 0 \in 0..n
      BY <1>0
    <3> QED
      BY <1>7, <3>1
  <2>2. W[n] = First(words, n)
    BY <1>0
  <2> QED
    BY <2>1, <2>2, FirstIs
<1>10. Extends(F[0], F[n], W[n])
  <2> HIDE DEF W, n
  <2> QED
    BY <1>0, <1>8, GrowsTo
<1> QED
  BY <1>6, <1>9, <1>10

\* appendSentence.
LEMMA SentenceExtends ==
  ASSUME v1 \in ChunkedTexts, NEW b \in Sound, NEW words \in Seq(Place), words # <<>>
  PROVE  /\ Extends(b, Chunking!AppendSentence(b, words), words)
         /\ Chunking!Fits(words) => Holds(Chunking!AppendSentence(b, words), Elements(words))
<1>1. CASE Chunking!Fits(words)
  <2>1. Chunking!AppendSentence(b, words) = Chunking!AppendPiece(b, words, 1)
    BY <1>1, Zenon DEF Chunking!AppendSentence
  <2>2. GoodChunk(words)
    BY <1>1 DEF GoodChunk
  <2> QED
    BY <2>1, <2>2, PieceExtends
<1>2. CASE ~Chunking!Fits(words)
  <2>1. Chunking!AppendSentence(b, words) = Chunking!AppendWords(Chunking!Flush(b), words)
    BY <1>2, Zenon DEF Chunking!AppendSentence
  <2>2. Extends(b, Chunking!Flush(b), <<>>) /\ Chunking!Flush(b) \in Sound
    BY FlushExtends DEF Extends
  <2>3. Extends(Chunking!Flush(b), Chunking!AppendWords(Chunking!Flush(b), words), words)
    BY <2>2, WordsExtend
  <2>4. <<>> \in Seq(Place) /\ Then(<<>>, words) = words
    BY ThenIs
  <2>5. Extends(b, Chunking!AppendWords(Chunking!Flush(b), words), Then(<<>>, words))
    BY <2>2, <2>3, <2>4, ExtendsThen
  <2> QED
    BY <1>2, <2>1, <2>4, <2>5
<1> QED
  BY <1>1, <1>2

\* splitOversizedBlock.
AreSentences(f, k) ==
  f = [n \in 0..Len(v1[k]) |->
         IF n = 0 THEN Chunking!NewBuilder
         ELSE Chunking!AppendSentence(f[n - 1], Chunking!Words(k, n))]

LEMMA SentencesAre ==
  ASSUME v1 \in ChunkedTexts, NEW k \in 1..Len(v1)
  PROVE  /\ Chunking!Sentences(k) \in Seq(Seq(Place)) /\ Len(Chunking!Sentences(k)) = Len(v1[k])
         /\ Len(v1[k]) \in Nat
         /\ \A s \in 1..Len(v1[k]) : /\ Chunking!Sentences(k)[s] = Chunking!Words(k, s)
                                     /\ Chunking!Words(k, s) \in Seq(Place)
                                     /\ Chunking!Words(k, s) # <<>>
<1> DEFINE n == Len(v1[k])
<1>1. n \in Nat /\ DOMAIN v1[k] = 1..n
  BY TextIs
<1>2. \A s \in 1..n : Chunking!Words(k, s) \in Seq(Place) /\ Chunking!Words(k, s) # <<>>
  BY WordsAre
<1>3. Chunking!Sentences(k) = [s \in 1..n |-> Chunking!Words(k, s)]
  BY <1>1 DEF Chunking!Sentences
<1> HIDE DEF n
<1>4. [s \in 1..n |-> Chunking!Words(k, s)] \in Seq(Seq(Place))
  BY <1>1, <1>2
<1>5. Len([s \in 1..n |-> Chunking!Words(k, s)]) = n
  BY <1>1
<1>6. \A s \in 1..n : [r \in 1..n |-> Chunking!Words(k, r)][s] = Chunking!Words(k, s)
  OBVIOUS
<1> QED
  BY <1>1, <1>2, <1>3, <1>4, <1>5, <1>6 DEF n

\* What is told of a block: its words, and each sentence that fits in one chunk.
Covers(b, c, k) ==
  /\ Extends(b, c, Flat(Chunking!Sentences(k)))
  /\ \A s \in 1..Len(v1[k]) :
       Chunking!Fits(Chunking!Words(k, s)) => Holds(c, Elements(Chunking!Words(k, s)))

LEMMA HasElement ==
  ASSUME NEW words \in Seq(Place), words # <<>>
  PROVE  Elements(words) \in (SUBSET Place) \ {{}}
<1>1. 1 \in DOMAIN words /\ \A i \in DOMAIN words : words[i] \in Place
  OBVIOUS
<1>2. words[1] \in Elements(words) /\ Elements(words) \subseteq Place
  BY <1>1 DEF Elements
<1> QED
  BY <1>2

\* The builder of an oversized block, before it is emptied.
LEMMA SplitCovers ==
  ASSUME v1 \in ChunkedTexts, NEW k \in 1..Len(v1)
  PROVE  \E c : /\ Chunking!SplitOversizedBlock(k) = Chunking!Flush(c).chunks
                /\ Covers(Chunking!NewBuilder, c, k)
<1> DEFINE n == Len(v1[k])
           words(i) == Chunking!Words(k, i)
           ss == Chunking!Sentences(k)
           step == [p \in Sound \X (1..n) |-> Chunking!AppendSentence(p[1], Chunking!Words(k, p[2]))]
           F == CHOOSE f : AreSentences(f, k)
           W == [i \in 0..n |-> Flat(First(ss, i))]
<1>0. /\ n \in Nat /\ n \in 0..n /\ Chunking!NewBuilder \in Sound
      /\ \A i \in 1..n : words(i) \in Seq(Place) /\ words(i) # <<>> /\ ss[i] = words(i)
      /\ ss \in Seq(Seq(Place)) /\ Len(ss) = n
  <2>1. n \in Nat
    BY SentencesAre
  <2> QED
    BY <2>1, SentencesAre, NewIsSound
<1> HIDE DEF ss
<1>1. step \in [Sound \X (1..n) -> Sound]
  <2>1. \A p \in Sound \X (1..n) : Chunking!AppendSentence(p[1], Chunking!Words(k, p[2])) \in Sound
    BY <1>0, SentenceExtends DEF Extends
  <2> QED
    BY <2>1
<1>2. PICK g : /\ IsLoop(g, n, Chunking!NewBuilder, step)
               /\ Goes(g, n, Sound, Chunking!NewBuilder, step)
  <2> HIDE DEF step, n
  <2> QED
    BY <1>0, <1>1, LoopGoes
<1>3. \A i \in 1..n : step[<<g[i - 1], i>>] = Chunking!AppendSentence(g[i - 1], words(i))
  BY <1>2 DEF Goes
<1>4. AreSentences(g, k)
  <2>1. g = [i \in 0..n |-> IF i = 0 THEN Chunking!NewBuilder ELSE step[<<g[i - 1], i>>]]
    BY <1>2, Zenon DEF IsLoop
  <2>2. \A i \in 0..n : i # 0 => i \in 1..n
    BY <1>0
  <2> HIDE DEF step
  <2> QED
    BY <1>3, <2>1, <2>2 DEF AreSentences
<1>5. AreSentences(F, k)
  <2>1. \E h : AreSentences(h, k)
    BY <1>4
  <2> QED
    BY <2>1, Zenon
<1>6. Chunking!SplitOversizedBlock(k) = Chunking!Flush(F[n]).chunks
  BY Zenon DEF Chunking!SplitOversizedBlock, AreSentences
<1> HIDE DEF F, step
<1>7. F[0] = Chunking!NewBuilder /\ \A i \in 1..n : F[i] = Chunking!AppendSentence(F[i - 1], words(i))
  <2>1. 0 \in 0..n /\ \A i \in 1..n : i \in 0..n /\ i # 0
    BY <1>0
  <2>2. \A i \in 0..n : F[i] = IF i = 0 THEN Chunking!NewBuilder
                               ELSE Chunking!AppendSentence(F[i - 1], words(i))
    BY <1>5 DEF AreSentences
  <2> QED
    BY <2>1, <2>2
<1>8. ASSUME NEW i \in 1..n, F[i - 1] \in Sound
      PROVE  /\ Extends(F[i - 1], F[i], words(i)) /\ W[i] = Then(W[i - 1], words(i))
             /\ Chunking!Fits(words(i)) => Holds(F[i], Elements(words(i)))
  <2>1. /\ Extends(F[i - 1], F[i], words(i))
        /\ Chunking!Fits(words(i)) => Holds(F[i], Elements(words(i)))
    BY <1>0, <1>7, <1>8, SentenceExtends
  <2>2. Flat(First(ss, i)) = Then(Flat(First(ss, i - 1)), ss[i])
    BY <1>0, FlatFirst
  <2>3. W[i] = Flat(First(ss, i)) /\ W[i - 1] = Flat(First(ss, i - 1))
    BY <1>0
  <2> QED
    BY <1>0, <2>1, <2>2, <2>3
<1>9. W[0] = <<>> /\ W[n] = Flat(ss)
  <2>1. W[0] = Flat(First(ss, 0)) /\ W[n] = Flat(First(ss, n))
    BY <1>0
  <2> QED
    BY <1>0, <2>1, FirstIs, FlatOfNone
<1> HIDE DEF W
<1>10. Grows(F, n, W)
  <2>1. ASSUME NEW i \in 1..n, F[i - 1] \in Sound
        PROVE  \E t \in Seq(Place) : Extends(F[i - 1], F[i], t) /\ W[i] = Then(W[i - 1], t)
    <3>1. words(i) \in Seq(Place)
      BY <1>0
    <3> QED
      BY <1>8, <2>1, <3>1
  <2> QED
    BY <1>0, <1>7, <1>9, <2>1 DEF Grows
<1>11. (\A i \in 0..n : F[i] \in Sound /\ Keeps(F[i], F[n])) /\ Extends(F[0], F[n], W[n])
  <2> HIDE DEF n
  <2> QED
    BY <1>0, <1>10, GrowsTo
<1>12. ASSUME NEW s \in 1..n, Chunking!Fits(words(s)) PROVE Holds(F[n], Elements(words(s)))
  <2>1. s - 1 \in 0..n /\ s \in 0..n
    BY <1>0
  <2>2. Holds(F[s], Elements(words(s))) /\ Keeps(F[s], F[n])
    BY <1>8, <1>11, <1>12, <2>1
  <2>3. Elements(words(s)) \in (SUBSET Place) \ {{}}
    BY <1>0, HasElement
  <2> QED
    BY <2>2, <2>3 DEF Keeps
<1>13. Covers(Chunking!NewBuilder, F[n], k)
  BY <1>7, <1>9, <1>11, <1>12 DEF Covers, ss
<1> QED
  BY <1>6, <1>13

\* appendBlock.
LEMMA BlockCovers ==
  ASSUME v1 \in ChunkedTexts, NEW b \in Sound, NEW k \in 1..Len(v1)
  PROVE  Covers(b, Chunking!AppendBlock(b, k), k) /\ Flat(Chunking!Sentences(k)) \in Seq(Place)
<1> DEFINE ss == Chunking!Sentences(k)
           words == Flat(ss)
           c == Chunking!AppendBlock(b, k)
           W(s) == Chunking!Words(k, s)
<1>1. /\ ss \in Seq(Seq(Place)) /\ Len(ss) = Len(v1[k])
      /\ \A s \in 1..Len(v1[k]) : ss[s] = W(s) /\ W(s) \in Seq(Place) /\ W(s) # <<>>
  BY SentencesAre
<1>2. words \in Seq(Place)
  <2>1. <<>> \in Seq(Place)
    OBVIOUS
  <2> QED
    BY <1>1, <2>1, FlatAppends
<1>3. \A s \in 1..Len(v1[k]) : Elements(W(s)) \subseteq Elements(words)
  <2> HIDE DEF ss
  <2> QED
    BY <1>1, InFlat
<1> HIDE DEF words
<1>4. CASE words = <<>>
  <2>1. c = b
    BY <1>4, Zenon DEF Chunking!AppendBlock, words, Flat
  <2>2. Extends(b, c, words)
    BY <1>4, <2>1, ExtendsNone
  <2>3. Elements(<<>>) = {}
    BY DEF Elements
  <2>4. ASSUME NEW s \in 1..Len(v1[k]) PROVE FALSE
    <3>1. W(s) \in Seq(Place) /\ W(s) # <<>> /\ Elements(W(s)) \subseteq {}
      BY <1>1, <1>3, <1>4, <2>3
    <3> QED
      BY <3>1, HasElement
  <2> QED
    BY <1>2, <2>2, <2>4 DEF Covers, words
<1>5. CASE words # <<>> /\ Chunking!Fits(words)
  <2>1. c = Chunking!AppendPiece(b, words, 2)
    BY <1>5, Zenon DEF Chunking!AppendBlock, words, Flat
  <2>2. GoodChunk(words)
    BY <1>5 DEF GoodChunk
  <2>3. Extends(b, c, words) /\ Holds(c, Elements(words))
    BY <1>2, <2>1, <2>2, PieceExtends
  <2> HIDE DEF c
  <2>4. \A s \in 1..Len(v1[k]) : Holds(c, Elements(W(s)))
    BY <1>3, <2>3 DEF Holds
  <2> QED
    BY <1>2, <2>3, <2>4 DEF Covers, words, c
<1>6. CASE words # <<>> /\ ~Chunking!Fits(words)
  <2> DEFINE closed == Chunking!Flush(b)
             new == Chunking!NewBuilder
  <2>1. PICK d : Chunking!SplitOversizedBlock(k) = Chunking!Flush(d).chunks /\ Covers(new, d, k)
    BY SplitCovers
  <2> DEFINE e == Chunking!Flush(d)
             x == Then(closed.chunks, e.chunks)
  <2>2. c = [closed EXCEPT !.chunks = @ \o Chunking!SplitOversizedBlock(k)]
    BY <1>6, Zenon DEF Chunking!AppendBlock, words, Flat
  <2>3. Extends(b, closed, <<>>) /\ closed.current = <<>> /\ closed.chars = 0 /\ closed \in Sound
    BY FlushExtends DEF Extends
  <2>4. d \in Sound /\ Extends(new, d, words)
    BY <2>1 DEF Covers, Extends, words
  <2>5. Extends(d, e, <<>>) /\ e.current = <<>> /\ e.chars = 0 /\ e \in Sound
    BY <2>4, FlushExtends DEF Extends
  <2>6. c = Builder(x, <<>>, 0)
    <3>2. [closed EXCEPT !.chunks = @ \o e.chunks] = Builder(Then(closed.chunks, e.chunks), <<>>, 0)
      <4> HIDE DEF closed, e
      <4>1. closed \in Builders /\ e.chunks \in Seq(Seq(Place))
        BY <2>3, <2>5, SoundIs DEF Sound, Builders
      <4> QED
        BY <2>3, <4>1, BuilderWithMore
    <3> QED
      BY <2>1, <2>2, <3>2
  <2> HIDE DEF c, closed, e
  <2>7. /\ closed.chunks \in Seq(Seq(Place)) /\ e.chunks \in Seq(Seq(Place))
        /\ \A i \in 1..Len(closed.chunks) : GoodChunk(closed.chunks[i])
        /\ \A i \in 1..Len(e.chunks) : GoodChunk(e.chunks[i])
    BY <2>3, <2>5, SoundIs
  <2>8. /\ x \in Seq(Seq(Place))
        /\ \A i \in 1..Len(x) : GoodChunk(x[i])
        /\ \A i \in 1..Len(closed.chunks) : i \in 1..Len(x) /\ x[i] = closed.chunks[i]
        /\ \A i \in 1..Len(e.chunks) : Len(closed.chunks) + i \in 1..Len(x) /\ x[Len(closed.chunks) + i] = e.chunks[i]
    <3> DEFINE p == closed.chunks
               q == e.chunks
    <3> HIDE DEF p, q
    <3>1. /\ p \o q \in Seq(Seq(Place)) /\ Len(p \o q) = Len(p) + Len(q) /\ Len(p) \in Nat /\ Len(q) \in Nat
          /\ \A i \in 1..Len(p) : (p \o q)[i] = p[i]
          /\ \A i \in 1..Len(q) : (p \o q)[Len(p) + i] = q[i]
          /\ \A i \in 1..Len(p \o q) :
               i \in 1..Len(p) \/ (i - Len(p) \in 1..Len(q) /\ (p \o q)[i] = q[i - Len(p)])
      <4>1. p \in Seq(Seq(Place)) /\ q \in Seq(Seq(Place))
        BY <2>7 DEF p, q
      <4> QED
        BY <4>1, Joined
    <3>2. x = p \o q
      BY DEF Then, p, q
    <3> HIDE DEF x
    <3>3. \A i \in 1..Len(x) : GoodChunk(x[i])
      <4> SUFFICES ASSUME NEW i \in 1..Len(x) PROVE GoodChunk(x[i])
        OBVIOUS
      <4>1. CASE i \in 1..Len(p)
        BY <2>7, <3>1, <3>2, <4>1 DEF p
      <4>2. CASE i - Len(p) \in 1..Len(q) /\ x[i] = q[i - Len(p)]
        BY <2>7, <4>2 DEF q
      <4> QED
        BY <3>1, <3>2, <4>1, <4>2
    <3>4. \A i \in 1..Len(p) : i \in 1..Len(x) /\ x[i] = p[i]
      BY <3>1, <3>2
    <3>5. \A i \in 1..Len(q) : Len(p) + i \in 1..Len(x) /\ x[Len(p) + i] = q[i]
      BY <3>1, <3>2
    <3> QED
      BY <3>1, <3>2, <3>3, <3>4, <3>5 DEF p, q
  <2>9. c \in Sound
    <3>1. Chunking!Chars(<<>>) <= 0
      <4>1. PICK h : CountsChars(h, <<>>)
        <5>1. <<>> \in Seq(Place)
          OBVIOUS
        <5> QED
          BY <5>1, CharsExist
      <4> QED
        BY <4>1 DEF CountsChars
    <3> HIDE DEF x
    <3>2. ASSUME NEW y, y = <<>> PROVE Builder(x, y, 0) \in Sound
      <4>1. y \in Seq(Place) /\ (y # <<>> => GoodChunk(y)) /\ Chunking!Chars(y) <= 0 /\ 0 \in Nat
        BY <3>1, <3>2
      <4> QED
        BY <2>8, <4>1, BuilderIsSound
    <3> QED
      BY <2>6, <3>2
  <2>10. Flat(closed.chunks) = Told(b) /\ Flat(e.chunks) = words
    <3>1. Told(b) \in Seq(Place) /\ Told(d) \in Seq(Place) /\ Flat(closed.chunks) \in Seq(Place) /\ Flat(e.chunks) \in Seq(Place)
      BY <2>3, <2>4, <2>5, ToldIs
    <3>2. Told(closed) = Flat(closed.chunks) /\ Told(e) = Flat(e.chunks)
      BY <2>3, <2>5, <3>1, ThenIs DEF Told
    <3>3. Told(closed) = Told(b) /\ Told(e) = Told(d)
      BY <2>3, <2>5, <3>1, ThenIs DEF Extends
    <3>4. Told(d) = words
      BY <1>2, <2>4, NewIsSound, ThenIs DEF Extends
    <3> QED
      BY <3>2, <3>3, <3>4
  <2>11. Told(c) = Then(Told(b), words)
    <3>1. Told(c) = Then(Flat(x), <<>>)
      BY <2>6, BuilderHas DEF Told
    <3>2. Flat(x) = Then(Flat(closed.chunks), Flat(e.chunks)) /\ Flat(x) \in Seq(Place)
      <4>1. Flat(closed.chunks) \in Seq(Place) /\ Flat(e.chunks) \in Seq(Place)
        BY <2>3, <2>5, ToldIs
      <4>2. Flat(x) = Then(Flat(closed.chunks), Flat(e.chunks))
        BY <2>7, FlatJoins
      <4> QED
        BY <4>1, <4>2, ThenIs
    <3> QED
      BY <2>10, <3>1, <3>2, ThenIs
  <2>12. c.chunks = x /\ c.current = <<>>
    BY <2>6, BuilderHas
  <2> HIDE DEF x
  <2>13. \A Y \in (SUBSET Place) \ {{}} :
           (Holds(closed, Y) => Holds(c, Y)) /\ (Holds(e, Y) => Holds(c, Y))
    <3>1. Elements(<<>>) = {}
      BY DEF Elements
    <3> SUFFICES ASSUME NEW Y \in (SUBSET Place) \ {{}}
                 PROVE  (Holds(closed, Y) => Holds(c, Y)) /\ (Holds(e, Y) => Holds(c, Y))
      OBVIOUS
    <3>2. ASSUME Holds(closed, Y) PROVE Holds(c, Y)
      <4>1. PICK i \in 1..Len(closed.chunks) : Y \subseteq Elements(closed.chunks[i])
        BY <2>3, <3>1, <3>2 DEF Holds
      <4> QED
        BY <2>8, <2>12, <4>1 DEF Holds
    <3>3. ASSUME Holds(e, Y) PROVE Holds(c, Y)
      <4>1. PICK i \in 1..Len(e.chunks) : Y \subseteq Elements(e.chunks[i])
        BY <2>5, <3>1, <3>3 DEF Holds
      <4> QED
        BY <2>8, <2>12, <4>1 DEF Holds
    <3> QED
      BY <3>2, <3>3
  <2>14. Keeps(b, c)
    BY <2>3, <2>13 DEF Extends, Keeps
  <2>15. ASSUME NEW s \in 1..Len(v1[k]), Chunking!Fits(W(s)) PROVE Holds(c, Elements(W(s)))
    <3>1. Elements(W(s)) \in (SUBSET Place) \ {{}}
      BY <1>1, HasElement
    <3>2. Holds(d, Elements(W(s)))
      BY <2>1, <2>15 DEF Covers
    <3>3. Holds(e, Elements(W(s)))
      BY <2>5, <3>1, <3>2 DEF Extends, Keeps
    <3> QED
      BY <2>13, <3>1, <3>3
  <2> QED
    BY <1>2, <2>9, <2>11, <2>14, <2>15 DEF Covers, Extends, c, words
<1> QED
  BY <1>4, <1>5, <1>6

\* chunkBlocks.
AreBlocks(f) ==
  f = [n \in 0..Len(v1) |->
         IF n = 0 THEN Chunking!NewBuilder ELSE Chunking!AppendBlock(f[n - 1], n)]

BlockWords == [k \in DOMAIN v1 |-> Flat(Chunking!Sentences(k))]

\* The builder of a text, before it is emptied.
LEMMA TextCovers ==
  ASSUME v1 \in ChunkedTexts
  PROVE  \E c : /\ Chunking!ChunkBlocks = Chunking!Flush(c).chunks
                /\ Extends(Chunking!NewBuilder, c, Flat(BlockWords))
                /\ \A k \in 1..Len(v1) : \A s \in 1..Len(v1[k]) :
                     Chunking!Fits(Chunking!Words(k, s)) => Holds(c, Elements(Chunking!Words(k, s)))
<1> DEFINE n == Len(v1)
           ss == BlockWords
           step == [p \in Sound \X (1..n) |-> Chunking!AppendBlock(p[1], p[2])]
           F == CHOOSE f : AreBlocks(f)
           W == [i \in 0..n |-> Flat(First(ss, i))]
<1>0. /\ n \in Nat /\ n \in 0..n /\ Chunking!NewBuilder \in Sound
      /\ \A i \in 1..n : ss[i] = Flat(Chunking!Sentences(i)) /\ ss[i] \in Seq(Place)
      /\ ss \in Seq(Seq(Place)) /\ Len(ss) = n
  <2>1. n \in Nat /\ DOMAIN v1 = 1..n /\ Chunking!NewBuilder \in Sound
    BY TextIs, NewIsSound
  <2>2. \A i \in 1..n : Flat(Chunking!Sentences(i)) \in Seq(Place)
    BY <2>1, BlockCovers
  <2>3. ss = [i \in 1..n |-> Flat(Chunking!Sentences(i))]
    BY <2>1 DEF BlockWords
  <2> HIDE DEF ss, n
  <2>4. ss \in Seq(Seq(Place)) /\ Len(ss) = n
    BY <2>1, <2>2, <2>3
  <2>5. n \in 0..n
    BY <2>1
  <2> QED
    BY <2>1, <2>2, <2>3, <2>4, <2>5
<1> HIDE DEF ss
<1>1. step \in [Sound \X (1..n) -> Sound]
  <2>1. \A p \in Sound \X (1..n) : Chunking!AppendBlock(p[1], p[2]) \in Sound
    BY <1>0, BlockCovers DEF Covers, Extends
  <2> QED
    BY <2>1
<1>2. PICK g : /\ IsLoop(g, n, Chunking!NewBuilder, step)
               /\ Goes(g, n, Sound, Chunking!NewBuilder, step)
  <2> HIDE DEF step, n
  <2> QED
    BY <1>0, <1>1, LoopGoes
<1>3. \A i \in 1..n : step[<<g[i - 1], i>>] = Chunking!AppendBlock(g[i - 1], i)
  BY <1>2 DEF Goes
<1>4. AreBlocks(g)
  <2>1. g = [i \in 0..n |-> IF i = 0 THEN Chunking!NewBuilder ELSE step[<<g[i - 1], i>>]]
    BY <1>2, Zenon DEF IsLoop
  <2>2. \A i \in 0..n : i # 0 => i \in 1..n
    BY <1>0
  <2> HIDE DEF step
  <2> QED
    BY <1>3, <2>1, <2>2 DEF AreBlocks
<1>5. AreBlocks(F)
  <2>1. \E h : AreBlocks(h)
    BY <1>4
  <2> QED
    BY <2>1, Zenon
<1>6. Chunking!ChunkBlocks = Chunking!Flush(F[n]).chunks
  BY Zenon DEF Chunking!ChunkBlocks, AreBlocks
<1> HIDE DEF F, step
<1>7. F[0] = Chunking!NewBuilder /\ \A i \in 1..n : F[i] = Chunking!AppendBlock(F[i - 1], i)
  <2>1. 0 \in 0..n /\ \A i \in 1..n : i \in 0..n /\ i # 0
    BY <1>0
  <2>2. \A i \in 0..n : F[i] = IF i = 0 THEN Chunking!NewBuilder ELSE Chunking!AppendBlock(F[i - 1], i)
    BY <1>5 DEF AreBlocks
  <2> QED
    BY <2>1, <2>2
<1>8. ASSUME NEW i \in 1..n, F[i - 1] \in Sound
      PROVE  Covers(F[i - 1], F[i], i) /\ Extends(F[i - 1], F[i], ss[i]) /\ W[i] = Then(W[i - 1], ss[i])
  <2>1. Covers(F[i - 1], F[i], i)
    BY <1>7, <1>8, BlockCovers
  <2>2. Flat(First(ss, i)) = Then(Flat(First(ss, i - 1)), ss[i])
    BY <1>0, FlatFirst
  <2>3. W[i] = Flat(First(ss, i)) /\ W[i - 1] = Flat(First(ss, i - 1))
    BY <1>0
  <2>4. Extends(F[i - 1], F[i], ss[i])
    BY <1>0, <2>1 DEF Covers
  <2> QED
    BY <2>1, <2>2, <2>3, <2>4
<1>9. W[0] = <<>> /\ W[n] = Flat(ss)
  <2>1. W[0] = Flat(First(ss, 0)) /\ W[n] = Flat(First(ss, n))
    BY <1>0
  <2> QED
    BY <1>0, <2>1, FirstIs, FlatOfNone
<1> HIDE DEF W
<1>10. Grows(F, n, W)
  <2>1. ASSUME NEW i \in 1..n, F[i - 1] \in Sound
        PROVE  \E t \in Seq(Place) : Extends(F[i - 1], F[i], t) /\ W[i] = Then(W[i - 1], t)
    <3>1. ss[i] \in Seq(Place)
      BY <1>0
    <3> QED
      BY <1>8, <2>1, <3>1
  <2> QED
    BY <1>0, <1>7, <1>9, <2>1 DEF Grows
<1>11. (\A i \in 0..n : F[i] \in Sound /\ Keeps(F[i], F[n])) /\ Extends(F[0], F[n], W[n])
  <2> HIDE DEF n
  <2> QED
    BY <1>0, <1>10, GrowsTo
<1>12. ASSUME NEW k \in 1..n, NEW s \in 1..Len(v1[k]), Chunking!Fits(Chunking!Words(k, s))
       PROVE  Holds(F[n], Elements(Chunking!Words(k, s)))
  <2>1. k - 1 \in 0..n /\ k \in 0..n
    BY <1>0
  <2>2. Holds(F[k], Elements(Chunking!Words(k, s))) /\ Keeps(F[k], F[n])
    BY <1>8, <1>11, <1>12, <2>1 DEF Covers
  <2>3. Elements(Chunking!Words(k, s)) \in (SUBSET Place) \ {{}}
    BY WordsAre, HasElement
  <2> QED
    BY <2>2, <2>3 DEF Keeps
<1>13. Extends(Chunking!NewBuilder, F[n], Flat(BlockWords))
  BY <1>7, <1>9, <1>11 DEF ss
<1> QED
  BY <1>6, <1>12, <1>13

\* The chunks of a text, whatever it is: its words in its order, in good chunks, with no
\* sentence that fits cut.
TheText(chunks) ==
  /\ Chunking!FlattenSeq(chunks) =
       Chunking!FlattenSeq([b \in DOMAIN v1 |-> Chunking!FlattenSeq(Chunking!Sentences(b))])
  /\ \A i \in DOMAIN chunks :
       chunks[i] # <<>> /\ (Chunking!Fits(chunks[i]) \/ Len(chunks[i]) = 1)
  /\ \A b \in DOMAIN v1 : \A s \in DOMAIN v1[b] :
       Chunking!Fits(Chunking!Words(b, s)) =>
         \E i \in DOMAIN chunks :
           Chunking!ToSet(Chunking!Words(b, s)) \subseteq Chunking!ToSet(chunks[i])

LEMMA TextIsChunked ==
  ASSUME v1 \in ChunkedTexts
  PROVE  TheText(Chunking!ChunkBlocks)
<1>1. PICK c : /\ Chunking!ChunkBlocks = Chunking!Flush(c).chunks
               /\ Extends(Chunking!NewBuilder, c, Flat(BlockWords))
               /\ \A k \in 1..Len(v1) : \A s \in 1..Len(v1[k]) :
                    Chunking!Fits(Chunking!Words(k, s)) => Holds(c, Elements(Chunking!Words(k, s)))
  BY TextCovers
<1> DEFINE e == Chunking!Flush(c)
           cs == Chunking!ChunkBlocks
<1>2. c \in Sound /\ Told(c) = Then(<<>>, Flat(BlockWords))
  BY <1>1, NewIsSound DEF Extends
<1>3. e \in Sound /\ Extends(c, e, <<>>) /\ e.current = <<>> /\ cs = e.chunks
  BY <1>1, <1>2, FlushExtends DEF Extends
<1> HIDE DEF e, cs
<1>4. Flat(cs) = Flat(BlockWords)
  <2>1. Flat(cs) \in Seq(Place) /\ Told(e) = Then(Flat(cs), <<>>) /\ Told(c) \in Seq(Place)
    BY <1>2, <1>3, ToldIs DEF Told
  <2>2. Told(e) = Flat(cs) /\ Told(e) = Told(c)
    BY <1>3, <2>1, ThenIs DEF Extends
  <2>3. Flat(BlockWords) \in Seq(Place)
    <3>1. DOMAIN v1 = 1..Len(v1) /\ Len(v1) \in Nat /\ <<>> \in Seq(Place)
      BY TextIs
    <3>2. \A k \in 1..Len(v1) : Flat(Chunking!Sentences(k)) \in Seq(Place)
      BY NewIsSound, BlockCovers
    <3>3. BlockWords \in Seq(Seq(Place))
      BY <3>1, <3>2 DEF BlockWords
    <3> QED
      BY <3>1, <3>3, FlatAppends
  <2>4. Told(c) = Flat(BlockWords)
    BY <1>2, <2>3, ThenIs
  <2> QED
    BY <2>2, <2>4
<1>5. cs \in Seq(Seq(Place)) /\ \A i \in 1..Len(cs) : GoodChunk(cs[i])
  BY <1>3, SoundIs
<1>6. DOMAIN cs = 1..Len(cs)
  BY <1>5
<1>7. Chunking!FlattenSeq(cs) = Chunking!FlattenSeq([b \in DOMAIN v1 |-> Chunking!FlattenSeq(Chunking!Sentences(b))])
  BY <1>4, Zenon DEF Flat, BlockWords
<1>8. \A i \in DOMAIN cs : cs[i] # <<>> /\ (Chunking!Fits(cs[i]) \/ Len(cs[i]) = 1)
  BY <1>5, <1>6 DEF GoodChunk
<1>9. ASSUME NEW k \in DOMAIN v1, NEW s \in DOMAIN v1[k], Chunking!Fits(Chunking!Words(k, s))
      PROVE  \E i \in DOMAIN cs :
               Chunking!ToSet(Chunking!Words(k, s)) \subseteq Chunking!ToSet(cs[i])
  <2>1. k \in 1..Len(v1) /\ s \in 1..Len(v1[k])
    BY TextIs
  <2> DEFINE Y == Elements(Chunking!Words(k, s))
  <2>2. Y \in (SUBSET Place) \ {{}}
    BY <2>1, WordsAre, HasElement
  <2>3. Holds(e, Y)
    <3>1. Holds(c, Y)
      BY <1>1, <1>9, <2>1
    <3> QED
      BY <1>3, <2>2, <3>1 DEF Extends, Keeps
  <2>4. Elements(<<>>) = {}
    BY DEF Elements
  <2>5. PICK i \in 1..Len(cs) : Y \subseteq Elements(cs[i])
    BY <1>3, <2>2, <2>3, <2>4 DEF Holds
  <2>6. Chunking!ToSet(cs[i]) = Elements(cs[i]) /\ Chunking!ToSet(Chunking!Words(k, s)) = Y
    BY Zenon DEF Chunking!ToSet, Elements
  <2> QED
    BY <1>6, <2>5, <2>6
<1> QED
  BY <1>7, <1>8, <1>9 DEF TheText, cs

\* A step that leaves the text alone leaves what fits alone.
LEMMA FitsStays ==
  ASSUME v1' = v1, NEW words
  PROVE  Chunking!Fits(words)' <=> Chunking!Fits(words)
<1>1. Chunking!Chars(words)' = Chunking!Chars(words)
  BY SMT DEF Chunking!Chars, Chunking!CharsOf
<1> QED
  BY <1>1 DEF Chunking!Fits

ChunksInv ==
  part = "chunking" => v1 \in ChunkedTexts /\ Chunking!ChunksAreTheText

\* SceneChunking.ChunksAreTheText, for every text and both limits: what is sent to the
\* extraction, chunk by chunk, is the scene (scene-chunking.ts).
THEOREM ChunksAreAlwaysTheText == ChunksSpec => []ChunksAreTheText
<1>1. ChunksInit => ChunksInv
  BY DEF ChunksInit, ChunksInv, Chunking!Init, Chunking!ChunksAreTheText
<1>2. ASSUME ChunksInv, [ChunksNext]_chunksVars PROVE ChunksInv'
  <2>1. CASE ChunksNext
    <3>1. part = "chunking" /\ v1' = v1 /\ v3' = Chunking!ChunkBlocks /\ v1 \in ChunkedTexts
      BY <1>2, <2>1 DEF ChunksNext, Chunking!Next, Chunking!PlanSceneChunks, ChunksInv
    <3>2. TheText(v3')
      BY <3>1, TextIsChunked
    <3>3. Chunking!ChunksAreTheText'
      <4>1. \A words : Chunking!Fits(words)' <=> Chunking!Fits(words)
        BY <3>1, FitsStays
      <4>2. \A b : Chunking!Sentences(b)' = Chunking!Sentences(b)
        BY <3>1 DEF Chunking!Sentences, Chunking!Words
      <4>3. \A b, s : Chunking!Words(b, s)' = Chunking!Words(b, s)
        BY <3>1 DEF Chunking!Words
      <4>4. (\A i \in DOMAIN v3 :
                v3[i] # <<>> /\ (Chunking!Fits(v3[i]) \/ Len(v3[i]) = 1))'
        BY <3>2, <4>1 DEF TheText
      <4>5. (\A b \in DOMAIN v1 : \A s \in DOMAIN v1[b] :
               Chunking!Fits(Chunking!Words(b, s)) =>
                 \E i \in DOMAIN v3 :
                   Chunking!ToSet(Chunking!Words(b, s)) \subseteq Chunking!ToSet(v3[i]))'
        BY <3>1, <3>2, <4>1, <4>3 DEF TheText
      <4>6. (Chunking!FlattenSeq(v3) =
               Chunking!FlattenSeq([b \in DOMAIN v1 |-> Chunking!FlattenSeq(Chunking!Sentences(b))]))'
        BY <3>1, <3>2, <4>2 DEF TheText
      <4> QED
        BY <4>4, <4>5, <4>6 DEF Chunking!ChunksAreTheText
    <3> QED
      BY <3>1, <3>3 DEF ChunksInv
  <2>2. CASE UNCHANGED chunksVars
    <3>1. part' = part /\ v1' = v1 /\ v2' = v2 /\ v3' = v3
      BY <2>2 DEF chunksVars
    <3>2. Chunking!ChunksAreTheText => Chunking!ChunksAreTheText'
      <4>1. \A words : Chunking!Fits(words)' <=> Chunking!Fits(words)
        BY <3>1, FitsStays
      <4> QED
        BY <3>1, <4>1 DEF Chunking!ChunksAreTheText, Chunking!Sentences, Chunking!Words
    <3> QED
      BY <1>2, <3>1, <3>2 DEF ChunksInv
  <2> QED
    BY <1>2, <2>1, <2>2
<1>3. ChunksInv => ChunksAreTheText
  BY DEF ChunksInv, ChunksAreTheText
<1> QED
  BY <1>1, <1>2, <1>3, PTL DEF ChunksSpec
-----------------------------------------------------------------------------
(* EpubImport: v1 is the phase, v2 the spine, v3 the place, v4 the blocks, *)
(* v5 the outline, v6 the state.                                           *)
(*                                                                         *)
(* A text is a sequence of blocks, each known by its place.  StoryOf gives *)
(* the text of chapters, Said that of the state of a document; what begins *)
(* or ends a chapter or a scene leaves it as it is, and what reads a block *)
(* adds the block at its end.  So the outline tells the documents before   *)
(* (Kept) and the state the blocks before (Reading), in order (InOrder).   *)

Id == Nat \X Nat
Titles == [label : {"plain", "intro"}, number : Nat]
SceneOf == [title : {"Texto", "scene"}, blocks : Seq(Id) \ {<<>>}]
OpenChapter == [title : Titles, scenes : Seq(SceneOf)]
WholeChapter == [title : Titles, scenes : Seq(SceneOf) \ {<<>>}]

TextsOf(scenes) == [s \in 1..Len(scenes) |-> scenes[s].blocks]

\* The text of scenes, and that of chapters.
Blocks(scenes) == Flat(TextsOf(scenes))

ChapterTexts(chapters) == [k \in 1..Len(chapters) |-> Blocks(chapters[k].scenes)]

StoryOf(chapters) == Flat(ChapterTexts(chapters))

LEMMA TextsAre ==
  ASSUME NEW scenes \in Seq(SceneOf)
  PROVE  TextsOf(scenes) \in Seq(Seq(Id)) /\ Blocks(scenes) \in Seq(Id)
<1>1. TextsOf(scenes) \in Seq(Seq(Id))
  <2>1. Len(scenes) \in Nat /\ \A s \in 1..Len(scenes) : scenes[s] \in SceneOf
    OBVIOUS
  <2>2. \A s \in 1..Len(scenes) : scenes[s].blocks \in Seq(Id)
    BY <2>1 DEF SceneOf
  <2> QED
    BY <2>1, <2>2 DEF TextsOf
<1>2. <<>> \in Seq(Id)
  OBVIOUS
<1> QED
  BY <1>1, <1>2, FlatAppends DEF Blocks

LEMMA BlocksOfNone == Blocks(<<>>) = <<>>
<1>1. TextsOf(<<>>) = <<>>
  BY DEF TextsOf
<1> QED
  BY <1>1, FlatOfNone DEF Blocks

LEMMA SequenceIs ==
  ASSUME NEW S, NEW s \in Seq(S)
  PROVE  s = [i \in 1..Len(s) |-> s[i]]
OBVIOUS

LEMMA BlocksAppend ==
  ASSUME NEW scenes \in Seq(SceneOf), NEW scene \in SceneOf
  PROVE  /\ Append(scenes, scene) \in Seq(SceneOf) /\ Append(scenes, scene) # <<>>
         /\ Blocks(Append(scenes, scene)) = Then(Blocks(scenes), scene.blocks)
<1>1. scene.blocks \in Seq(Id)
  BY DEF SceneOf
<1> DEFINE more == Append(scenes, scene)
           n == Len(scenes)
<1>2. /\ more \in Seq(SceneOf) /\ Len(more) = n + 1 /\ more[n + 1] = scene /\ n \in Nat
      /\ \A s \in 1..n : more[s] = scenes[s]
  BY Appended
<1>3. TextsOf(more) = Append(TextsOf(scenes), scene.blocks)
  <2> HIDE DEF more
  <2> DEFINE t == TextsOf(scenes)
             b == scene.blocks
             u == Append(t, b)
  <2>1. t \in Seq(Seq(Id)) /\ Len(t) = n /\ \A s \in 1..n : t[s] = scenes[s].blocks
    BY <1>2, TextsAre DEF TextsOf
  <2>2. b \in Seq(Id)
    BY <1>1
  <2> HIDE DEF t, b
  <2>3. /\ Len(u) = n + 1 /\ u \in Seq(Seq(Id)) /\ u[n + 1] = b
        /\ \A s \in 1..n : u[s] = t[s]
    <3>1. /\ u \in Seq(Seq(Id)) /\ Len(u) = Len(t) + 1 /\ u[Len(t) + 1] = b
          /\ \A s \in 1..Len(t) : u[s] = t[s]
      <4> DEFINE X == Seq(Id)
      <4>1. t \in Seq(X) /\ b \in X
        BY <2>1, <2>2
      <4> HIDE DEF X
      <4>2. /\ u \in Seq(X) /\ Len(u) = Len(t) + 1 /\ u[Len(t) + 1] = b
            /\ \A s \in 1..Len(t) : u[s] = t[s]
        BY <4>1, Appended
      <4> QED
        BY <4>2 DEF X
    <3> QED
      BY <2>1, <3>1
  <2>4. u = [s \in 1..(n + 1) |-> u[s]]
    <3> HIDE DEF u
    <3> QED
      BY <2>3, SequenceIs
  <2> HIDE DEF u
  <2>5. ASSUME NEW s \in 1..(n + 1) PROVE u[s] = more[s].blocks
    <3>1. CASE s = n + 1
      BY <1>2, <2>3, <3>1 DEF b
    <3>2. CASE s # n + 1
      <4>1. s \in 1..n
        BY <1>2, <3>2
      <4> QED
        BY <1>2, <2>1, <2>3, <4>1
    <3> QED
      BY <3>1, <3>2
  <2>6. TextsOf(more) = u
    BY <1>2, <2>4, <2>5 DEF TextsOf
  <2> QED
    BY <2>6 DEF u, t, b
<1>4. Blocks(more) = Then(Blocks(scenes), scene.blocks)
  <2>1. TextsOf(scenes) \in Seq(Seq(Id))
    BY TextsAre
  <2> HIDE DEF more
  <2> QED
    BY <1>1, <1>3, <2>1, FlatAppends DEF Blocks
<1> QED
  BY <1>2, <1>4

LEMMA BlocksOfOne ==
  ASSUME NEW scene \in SceneOf
  PROVE  Blocks(<<scene>>) = scene.blocks
<1>1. <<>> \in Seq(SceneOf) /\ <<scene>> = Append(<<>>, scene) /\ scene.blocks \in Seq(Id)
  BY DEF SceneOf
<1>2. Blocks(Append(<<>>, scene)) = Then(Blocks(<<>>), scene.blocks)
  BY <1>1, BlocksAppend
<1> QED
  BY <1>1, <1>2, BlocksOfNone, ThenIs

LEMMA ChapterTextsAre ==
  ASSUME NEW chapters \in Seq(WholeChapter)
  PROVE  ChapterTexts(chapters) \in Seq(Seq(Id)) /\ StoryOf(chapters) \in Seq(Id)
<1>1. ChapterTexts(chapters) \in Seq(Seq(Id))
  <2>1. Len(chapters) \in Nat /\ \A k \in 1..Len(chapters) : chapters[k] \in WholeChapter
    OBVIOUS
  <2>2. \A k \in 1..Len(chapters) : chapters[k].scenes \in Seq(SceneOf)
    BY <2>1 DEF WholeChapter
  <2>3. \A k \in 1..Len(chapters) : Blocks(chapters[k].scenes) \in Seq(Id)
    BY <2>2, TextsAre
  <2> QED
    BY <2>1, <2>3 DEF ChapterTexts
<1>2. <<>> \in Seq(Id)
  OBVIOUS
<1> QED
  BY <1>1, <1>2, FlatAppends DEF StoryOf

LEMMA StoryOfNone == StoryOf(<<>>) = <<>>
<1>1. ChapterTexts(<<>>) = <<>>
  BY DEF ChapterTexts
<1> QED
  BY <1>1, FlatOfNone DEF StoryOf

LEMMA StoryJoins ==
  ASSUME NEW c \in Seq(WholeChapter), NEW e \in Seq(WholeChapter)
  PROVE  c \o e \in Seq(WholeChapter) /\ StoryOf(c \o e) = Then(StoryOf(c), StoryOf(e))
<1> DEFINE all == c \o e
           m == Len(c)
           n == Len(e)
           t == ChapterTexts(c)
           u == ChapterTexts(e)
           both == t \o u
<1>1. /\ all \in Seq(WholeChapter) /\ m \in Nat /\ n \in Nat /\ Len(all) = m + n
      /\ \A k \in 1..m : all[k] = c[k]
      /\ \A k \in 1..n : all[m + k] = e[k]
  BY Joined
<1>2. t \in Seq(Seq(Id)) /\ u \in Seq(Seq(Id)) /\ Len(t) = m /\ Len(u) = n
  BY <1>1, ChapterTextsAre DEF ChapterTexts
<1>3. /\ \A k \in 1..m : t[k] = Blocks(c[k].scenes)
      /\ \A k \in 1..n : u[k] = Blocks(e[k].scenes)
  BY DEF ChapterTexts
<1> HIDE DEF all, t, u
<1>4. /\ both \in Seq(Seq(Id)) /\ Len(both) = m + n
      /\ \A k \in 1..m : both[k] = t[k]
      /\ \A k \in 1..n : both[m + k] = u[k]
  <2> DEFINE X == Seq(Id)
  <2>1. t \in Seq(X) /\ u \in Seq(X)
    BY <1>2
  <2> HIDE DEF X
  <2>2. /\ both \in Seq(X) /\ Len(both) = Len(t) + Len(u)
        /\ \A k \in 1..Len(t) : both[k] = t[k]
        /\ \A k \in 1..Len(u) : both[Len(t) + k] = u[k]
    BY <2>1, Joined
  <2> QED
    BY <1>2, <2>2 DEF X
<1> HIDE DEF both
<1>5. both = [k \in 1..(m + n) |-> both[k]]
  BY <1>4, SequenceIs
<1>6. ASSUME NEW k \in 1..(m + n) PROVE both[k] = Blocks(all[k].scenes)
  <2>1. CASE k \in 1..m
    BY <1>1, <1>3, <1>4, <2>1
  <2>2. CASE k \notin 1..m
    <3>1. PICK i \in 1..n : k = m + i
      <4>1. k - m \in 1..n /\ k = m + (k - m)
        BY <1>1, <2>2
      <4> QED
        BY <4>1
    <3> QED
      BY <1>1, <1>3, <1>4, <3>1
  <2> QED
    BY <2>1, <2>2
<1>7. ChapterTexts(all) = both
  BY <1>1, <1>5, <1>6 DEF ChapterTexts
<1>8. both = Then(t, u)
  BY DEF both, Then
<1>9. Flat(Then(t, u)) = Then(Flat(t), Flat(u))
  BY <1>2, FlatJoins
<1> QED
  BY <1>1, <1>7, <1>8, <1>9 DEF StoryOf, all, t, u

LEMMA StoryOfOne ==
  ASSUME NEW ch \in WholeChapter
  PROVE  <<ch>> \in Seq(WholeChapter) /\ StoryOf(<<ch>>) = Blocks(ch.scenes)
<1>1. ChapterTexts(<<ch>>) = <<Blocks(ch.scenes)>>
  BY DEF ChapterTexts
<1>2. ch.scenes \in Seq(SceneOf)
  BY DEF WholeChapter
<1>3. Blocks(ch.scenes) \in Seq(Id)
  BY <1>2, TextsAre
<1> DEFINE b == Blocks(ch.scenes)
<1> HIDE DEF b
<1>4. <<>> \in Seq(Seq(Id)) /\ <<b>> = Append(<<>>, b)
  OBVIOUS
<1>5. Flat(<<b>>) = Then(Flat(<<>>), b)
  BY <1>3, <1>4, FlatAppends DEF b
<1>6. Flat(<<b>>) = b
  BY <1>3, <1>5, FlatOfNone, ThenIs DEF b
<1> QED
  BY <1>1, <1>6 DEF StoryOf, b

LEMMA StoryAppends ==
  ASSUME NEW c \in Seq(WholeChapter), NEW ch \in WholeChapter
  PROVE  /\ Append(c, ch) \in Seq(WholeChapter)
         /\ StoryOf(Append(c, ch)) = Then(StoryOf(c), Blocks(ch.scenes))
<1>1. Append(c, ch) = c \o <<ch>> /\ Append(c, ch) \in Seq(WholeChapter)
  OBVIOUS
<1> QED
  BY <1>1, StoryJoins, StoryOfOne

LEMMA LastIs ==
  ASSUME NEW S, NEW s \in Seq(S), s # <<>>
  PROVE  /\ Len(s) \in 1..Len(s) /\ s[Len(s)] \in S
         /\ First(s, Len(s) - 1) \in Seq(S)
         /\ s = Append(First(s, Len(s) - 1), s[Len(s)])
<1>1. Len(s) \in 1..Len(s) /\ Len(s) - 1 \in 0..Len(s)
  OBVIOUS
<1> DEFINE n == Len(s)
           m == Len(s) - 1
<1>2. First(s, m) \in Seq(S)
  <2>1. m \in 0..Len(s)
    BY <1>1
  <2> HIDE DEF m
  <2> QED
    BY <2>1, FirstIs
<1>3. First(s, n) = Append(First(s, n - 1), s[n]) /\ s[n] \in S /\ First(s, n) = s
  <2>1. n \in 1..Len(s)
    BY <1>1
  <2>2. First(s, n) = s
    BY FirstIs
  <2> HIDE DEF n
  <2> QED
    BY <2>1, <2>2, FirstIs
<1> QED
  BY <1>1, <1>2, <1>3

LEMMA OnlyIs ==
  ASSUME NEW S, NEW s \in Seq(S), Len(s) = 1
  PROVE  s[1] \in S /\ s = <<s[1]>>
<1>1. s[1] \in S /\ <<s[1]>> \in Seq(S) /\ Len(<<s[1]>>) = 1 /\ <<s[1]>>[1] = s[1]
  OBVIOUS
<1>2. s = [i \in 1..1 |-> s[i]] /\ <<s[1]>> = [i \in 1..1 |-> <<s[1]>>[i]]
  BY <1>1, SequenceIs
<1>3. \A i \in 1..1 : i = 1
  OBVIOUS
<1> QED
  BY <1>1, <1>2, <1>3

LEMMA SwapLast ==
  ASSUME NEW S, NEW s \in Seq(S), s # <<>>, NEW e \in S
  PROVE  [s EXCEPT ![Len(s)] = e] = Append(First(s, Len(s) - 1), e)
<1> DEFINE n == Len(s)
           t == First(s, n - 1)
           u == Append(t, e)
           w == [s EXCEPT ![n] = e]
<1>1. n \in Nat /\ n >= 1 /\ n \in 1..n
  BY LastIs
<1>2. t \in Seq(S) /\ Len(t) = n - 1 /\ s = Append(t, s[n]) /\ s[n] \in S
  <2>1. Len(t) = n - 1
    <3> DEFINE m == n - 1
    <3>1. m \in 0..Len(s)
      BY <1>1
    <3> HIDE DEF m
    <3>2. Len(First(s, m)) = m
      BY <3>1, FirstIs
    <3> QED
      BY <3>2 DEF m
  <2> QED
    BY <2>1, LastIs
<1>3. \A i \in 1..(n - 1) : t[i] = s[i]
  <2> DEFINE x == s[n]
             y == Append(t, x)
  <2>1. x \in S
    BY <1>2
  <2> HIDE DEF x, t, n
  <2>2. \A i \in 1..Len(t) : y[i] = t[i]
    BY <1>2, <2>1, Appended
  <2> QED
    BY <1>2, <2>2 DEF x
<1> HIDE DEF t
<1>4. u \in Seq(S) /\ Len(u) = n /\ u[n] = e /\ \A i \in 1..(n - 1) : u[i] = t[i]
  <2>1. u \in Seq(S) /\ Len(u) = Len(t) + 1 /\ u[Len(t) + 1] = e /\ \A i \in 1..Len(t) : u[i] = t[i]
    BY <1>2, Appended
  <2> QED
    BY <1>1, <1>2, <2>1
<1>5. u = [i \in 1..n |-> u[i]]
  <2> HIDE DEF u
  <2> QED
    BY <1>4, SequenceIs
<1>6. w = [i \in 1..n |-> IF i = n THEN e ELSE s[i]]
  OBVIOUS
<1> HIDE DEF u
<1>7. ASSUME NEW i \in 1..n PROVE u[i] = IF i = n THEN e ELSE s[i]
  <2>1. i = n \/ i \in 1..(n - 1)
    BY <1>1
  <2> QED
    BY <1>3, <1>4, <2>1
<1>8. w = u
  <2> HIDE DEF w
  <2> QED
    BY <1>5, <1>6, <1>7
<1> QED
  BY <1>8 DEF u, t

\* The last scene goes on.
LEMMA BlocksGoOn ==
  ASSUME NEW scenes \in Seq(SceneOf), scenes # <<>>, NEW b \in Seq(Id),
         NEW scene \in SceneOf, scene.blocks = Then(scenes[Len(scenes)].blocks, b)
  PROVE  LET more == [scenes EXCEPT ![Len(scenes)] = scene]
         IN  more \in Seq(SceneOf) \ {<<>>} /\ Blocks(more) = Then(Blocks(scenes), b)
<1> DEFINE n == Len(scenes)
           t == First(scenes, n - 1)
           last == scenes[n]
<1>1. t \in Seq(SceneOf) /\ last \in SceneOf /\ scenes = Append(t, last)
  BY LastIs
<1>2. [scenes EXCEPT ![n] = scene] = Append(t, scene)
  BY SwapLast
<1>3. scene.blocks = Then(last.blocks, b) /\ last.blocks \in Seq(Id)
  BY <1>1 DEF SceneOf
<1> HIDE DEF t, last
<1>4. Blocks(Append(t, scene)) = Then(Blocks(t), scene.blocks) /\ Append(t, scene) \in Seq(SceneOf) \ {<<>>}
  BY <1>1, BlocksAppend
<1>5. Blocks(Append(t, last)) = Then(Blocks(t), last.blocks) /\ Blocks(t) \in Seq(Id)
  BY <1>1, BlocksAppend, TextsAre
<1>6. Then(Blocks(t), Then(last.blocks, b)) = Then(Then(Blocks(t), last.blocks), b)
  BY <1>3, <1>5, ThenThen
<1>7. Blocks(Append(t, scene)) = Then(Blocks(scenes), b)
  BY <1>1, <1>3, <1>4, <1>5, <1>6
<1> QED
  BY <1>2, <1>4, <1>7

\* The last chapter goes on.
LEMMA StoryGoesOn ==
  ASSUME NEW c \in Seq(WholeChapter), c # <<>>, NEW b \in Seq(Id),
         NEW ch \in WholeChapter, Blocks(ch.scenes) = Then(Blocks(c[Len(c)].scenes), b)
  PROVE  LET more == [c EXCEPT ![Len(c)] = ch]
         IN  more \in Seq(WholeChapter) /\ StoryOf(more) = Then(StoryOf(c), b)
<1> DEFINE n == Len(c)
           t == First(c, n - 1)
           last == c[n]
<1>1. t \in Seq(WholeChapter) /\ last \in WholeChapter /\ c = Append(t, last)
  BY LastIs
<1>2. [c EXCEPT ![n] = ch] = Append(t, ch)
  BY SwapLast
<1>3. Blocks(ch.scenes) = Then(Blocks(last.scenes), b) /\ last.scenes \in Seq(SceneOf)
  BY <1>1 DEF WholeChapter
<1> HIDE DEF t, last
<1>4. StoryOf(Append(t, ch)) = Then(StoryOf(t), Blocks(ch.scenes)) /\ Append(t, ch) \in Seq(WholeChapter)
  BY <1>1, StoryAppends
<1>5. StoryOf(Append(t, last)) = Then(StoryOf(t), Blocks(last.scenes)) /\ StoryOf(t) \in Seq(Id)
  BY <1>1, StoryAppends, ChapterTextsAre
<1>6. Then(StoryOf(t), Then(Blocks(last.scenes), b)) = Then(Then(StoryOf(t), Blocks(last.scenes)), b)
  BY <1>3, <1>5, TextsAre, ThenThen
<1>7. StoryOf(Append(t, ch)) = Then(StoryOf(c), b)
  BY <1>1, <1>3, <1>4, <1>5, <1>6
<1> QED
  BY <1>2, <1>4, <1>7

\* An introduction that continues the chapter before it, or not: the text goes on.
LEMMA MergedIs ==
  ASSUME NEW c \in Seq(WholeChapter), NEW found \in Seq(WholeChapter)
  PROVE  /\ Import!Merged(c, found) \in Seq(WholeChapter)
         /\ StoryOf(Import!Merged(c, found)) = Then(StoryOf(c), StoryOf(found))
<1>1. CASE ~Import!ContinuesBefore(c, found)
  <2>1. Import!Merged(c, found) = c \o found
    BY <1>1 DEF Import!Merged
  <2> QED
    BY <2>1, StoryJoins
<1>2. CASE Import!ContinuesBefore(c, found)
  <2> DEFINE n == Len(c)
             last == c[n]
             scenes == last.scenes
             end == Len(scenes)
             intro == found[1]
             b == intro.scenes[1].blocks
             scene == [scenes[end] EXCEPT !.blocks = @ \o b]
             ch == [last EXCEPT !.scenes = [scenes EXCEPT ![end] = scene]]
             more == [c EXCEPT ![n] = ch]
  <2>1. Len(found) >= 2 /\ c # <<>> /\ Len(intro.scenes) = 1
    BY <1>2 DEF Import!ContinuesBefore
  <2>2. Import!Merged(c, found) = [c EXCEPT ![n].scenes[end].blocks = @ \o b] \o Tail(found)
    BY <1>2 DEF Import!Merged
  <2>3. [c EXCEPT ![n].scenes[end].blocks = @ \o b] = more
    OBVIOUS
  <2>4. last \in WholeChapter
    BY <2>1, LastIs
  <2>5. scenes \in Seq(SceneOf) /\ scenes # <<>>
    BY <2>4 DEF WholeChapter
  <2>6. scenes[end] \in SceneOf
    <3> HIDE DEF scenes
    <3> QED
      BY <2>5, LastIs
  <2>7. intro \in WholeChapter /\ Tail(found) \in Seq(WholeChapter) /\ found = <<intro>> \o Tail(found)
    BY <2>1
  <2>8. intro.scenes \in Seq(SceneOf) /\ intro.scenes[1] \in SceneOf /\ intro.scenes = <<intro.scenes[1]>>
    <3> DEFINE s == intro.scenes
    <3>1. s \in Seq(SceneOf) /\ Len(s) = 1
      BY <2>1, <2>7 DEF WholeChapter
    <3> HIDE DEF s
    <3>2. s[1] \in SceneOf /\ s = <<s[1]>>
      BY <3>1, OnlyIs
    <3> QED
      BY <3>1, <3>2 DEF s
  <2>9. b \in Seq(Id) /\ Blocks(intro.scenes) = b
    <3> DEFINE i == intro.scenes[1]
    <3>1. i \in SceneOf /\ intro.scenes = <<i>>
      BY <2>8
    <3> HIDE DEF i
    <3>2. Blocks(<<i>>) = i.blocks /\ i.blocks \in Seq(Id)
      BY <3>1, BlocksOfOne DEF SceneOf
    <3> QED
      BY <3>1, <3>2 DEF i
  <2> HIDE DEF b, intro
  <2>10. scene \in SceneOf /\ scene.blocks = Then(scenes[end].blocks, b)
    <3> DEFINE old == scenes[end]
               text == old.blocks
               joined == text \o b
    <3>1. old \in SceneOf
      BY <2>6
    <3> HIDE DEF old
    <3>2. text \in Seq(Id) /\ text # <<>>
      BY <3>1 DEF SceneOf
    <3> HIDE DEF text
    <3>3. joined \in Seq(Id) /\ joined # <<>>
      BY <2>9, <3>2
    <3> HIDE DEF joined
    <3>4. /\ [old EXCEPT !.blocks = joined] \in SceneOf
          /\ [old EXCEPT !.blocks = joined].blocks = joined
      BY <3>1, <3>3 DEF SceneOf
    <3> QED
      BY <3>4 DEF old, text, joined, Then
  <2> HIDE DEF scene
  <2> DEFINE now == [scenes EXCEPT ![end] = scene]
  <2>11. now \in Seq(SceneOf) \ {<<>>} /\ Blocks(now) = Then(Blocks(scenes), b)
    <3> HIDE DEF scenes
    <3> QED
      BY <2>5, <2>9, <2>10, BlocksGoOn
  <2>12. ch \in WholeChapter /\ Blocks(ch.scenes) = Then(Blocks(c[n].scenes), b)
    <3>1. ch = [last EXCEPT !.scenes = now]
      OBVIOUS
    <3> HIDE DEF now, last
    <3>2. [last EXCEPT !.scenes = now] \in WholeChapter /\ [last EXCEPT !.scenes = now].scenes = now
      BY <2>4, <2>11 DEF WholeChapter
    <3> QED
      BY <2>11, <3>1, <3>2 DEF last
  <2> HIDE DEF ch
  <2>13. more \in Seq(WholeChapter) /\ StoryOf(more) = Then(StoryOf(c), b)
    BY <2>1, <2>9, <2>12, StoryGoesOn
  <2> DEFINE rest == Tail(found)
  <2>14. StoryOf(found) = Then(b, StoryOf(rest)) /\ StoryOf(rest) \in Seq(Id)
    <3>1. rest \in Seq(WholeChapter) /\ found = <<intro>> \o rest
      BY <2>7
    <3> HIDE DEF rest
    <3>2. StoryOf(<<intro>>) = b /\ <<intro>> \in Seq(WholeChapter)
      BY <2>7, <2>9, StoryOfOne
    <3>3. StoryOf(<<intro>> \o rest) = Then(StoryOf(<<intro>>), StoryOf(rest))
      BY <3>1, <3>2, StoryJoins
    <3> QED
      BY <3>1, <3>2, <3>3, ChapterTextsAre
  <2>15. more \o rest \in Seq(WholeChapter) /\ StoryOf(more \o rest) = Then(StoryOf(more), StoryOf(rest))
    <3>1. rest \in Seq(WholeChapter)
      BY <2>7
    <3> HIDE DEF more, rest
    <3> QED
      BY <2>13, <3>1, StoryJoins
  <2>16. Then(Then(StoryOf(c), b), StoryOf(rest)) = Then(StoryOf(c), Then(b, StoryOf(rest)))
    <3>1. StoryOf(c) \in Seq(Id)
      BY ChapterTextsAre
    <3> HIDE DEF rest
    <3> QED
      BY <2>9, <2>14, <3>1, ThenThen
  <2> HIDE DEF more
  <2>17. Import!Merged(c, found) = more \o rest
    BY <2>2, <2>3
  <2> HIDE DEF rest
  <2> QED
    BY <2>13, <2>14, <2>15, <2>16, <2>17
<1> QED
  BY <1>1, <1>2

(* The scenes that are created tell what the outline tells.                *)

Tagged == [chapter : Nat, scene : SceneOf]

Lines(tags) == Flat([n \in 1..Len(tags) |-> tags[n].scene.blocks])

TagsOf(chapter, k) == [s \in 1..Len(chapter.scenes) |-> [chapter |-> k, scene |-> chapter.scenes[s]]]

AllTags(chapters) == [k \in 1..Len(chapters) |-> TagsOf(chapters[k], k)]

LEMMA SameFlat == ASSUME NEW ss PROVE Import!FlattenSeq(ss) = Flat(ss)
BY DEF Flat, Chunking!FlattenSeq, Import!FlattenSeq

LEMMA StoryIs ==
  ASSUME v5 \in Seq(WholeChapter), Flat(AllTags(v5)) \in Seq(Tagged)
  PROVE  Import!Scenes = Flat(AllTags(v5)) /\ Import!Story = Lines(Flat(AllTags(v5)))
<1>1. DOMAIN v5 = 1..Len(v5) /\ \A k \in 1..Len(v5) : v5[k] \in WholeChapter
  OBVIOUS
<1>2. \A k \in 1..Len(v5) : DOMAIN v5[k].scenes = 1..Len(v5[k].scenes)
  <2> SUFFICES ASSUME NEW k \in 1..Len(v5) PROVE DOMAIN v5[k].scenes = 1..Len(v5[k].scenes)
    OBVIOUS
  <2>1. v5[k].scenes \in Seq(SceneOf)
    BY <1>1 DEF WholeChapter
  <2> QED
    BY <2>1
<1>3. Import!Scenes = Flat(AllTags(v5))
  BY <1>1, <1>2, SameFlat DEF Import!Scenes, AllTags, TagsOf
<1>4. DOMAIN Import!Scenes = 1..Len(Import!Scenes)
  BY <1>3
<1> QED
  BY <1>3, <1>4, SameFlat DEF Import!Story, Lines

LEMMA TagsAre ==
  ASSUME NEW c \in Seq(WholeChapter)
  PROVE  /\ AllTags(c) \in Seq(Seq(Tagged)) /\ Len(AllTags(c)) = Len(c)
         /\ \A k \in 1..Len(c) : /\ AllTags(c)[k] \in Seq(Tagged)
                                 /\ Lines(AllTags(c)[k]) = Blocks(c[k].scenes)
<1>1. Len(c) \in Nat /\ \A k \in 1..Len(c) : k \in Nat /\ c[k] \in WholeChapter
  OBVIOUS
<1>2. ASSUME NEW k \in 1..Len(c)
      PROVE  TagsOf(c[k], k) \in Seq(Tagged) /\ Lines(TagsOf(c[k], k)) = Blocks(c[k].scenes)
  <2> DEFINE s == c[k].scenes
  <2>1. s \in Seq(SceneOf)
    BY <1>1 DEF WholeChapter
  <2>2. TagsOf(c[k], k) = [i \in 1..Len(s) |-> [chapter |-> k, scene |-> s[i]]]
    BY DEF TagsOf
  <2> DEFINE t == [i \in 1..Len(s) |-> [chapter |-> k, scene |-> s[i]]]
  <2> HIDE DEF s
  <2>3. Len(s) \in Nat /\ \A i \in 1..Len(s) : [chapter |-> k, scene |-> s[i]] \in Tagged
    BY <1>1, <2>1 DEF Tagged
  <2>4. t \in Seq(Tagged) /\ Len(t) = Len(s) /\ \A i \in 1..Len(s) : t[i].scene.blocks = s[i].blocks
    BY <2>3
  <2> HIDE DEF t
  <2>5. Lines(t) = Blocks(s)
    BY <2>4 DEF Lines, Blocks, TextsOf
  <2> QED
    BY <2>2, <2>4, <2>5 DEF t, s
<1>3. \A k \in 1..Len(c) : AllTags(c)[k] = TagsOf(c[k], k)
  BY DEF AllTags
<1>4. AllTags(c) \in Seq(Seq(Tagged)) /\ Len(AllTags(c)) = Len(c)
  <2> DEFINE X == Seq(Tagged)
  <2>1. \A k \in 1..Len(c) : TagsOf(c[k], k) \in X
    BY <1>2
  <2> HIDE DEF X
  <2>2. AllTags(c) \in Seq(X) /\ Len(AllTags(c)) = Len(c)
    BY <1>1, <2>1 DEF AllTags
  <2> QED
    BY <2>2 DEF X
<1> QED
  BY <1>2, <1>3, <1>4

LEMMA LinesJoin ==
  ASSUME NEW t \in Seq(Tagged), NEW u \in Seq(Tagged)
  PROVE  Lines(Then(t, u)) = Then(Lines(t), Lines(u))
<1> DEFINE all == t \o u
           m == Len(t)
           n == Len(u)
           tt == [i \in 1..m |-> t[i].scene.blocks]
           uu == [i \in 1..n |-> u[i].scene.blocks]
           both == tt \o uu
<1>1. /\ all \in Seq(Tagged) /\ m \in Nat /\ n \in Nat /\ Len(all) = m + n
      /\ \A k \in 1..m : all[k] = t[k]
      /\ \A k \in 1..n : all[m + k] = u[k]
  BY Joined
<1>2. tt \in Seq(Seq(Id)) /\ uu \in Seq(Seq(Id)) /\ Len(tt) = m /\ Len(uu) = n
  <2>1. (\A i \in 1..m : t[i] \in Tagged) /\ \A i \in 1..n : u[i] \in Tagged
    OBVIOUS
  <2>2. (\A i \in 1..m : t[i].scene.blocks \in Seq(Id)) /\ \A i \in 1..n : u[i].scene.blocks \in Seq(Id)
    BY <2>1 DEF Tagged, SceneOf
  <2> DEFINE X == Seq(Id)
  <2> HIDE DEF X
  <2>3. tt \in Seq(X) /\ uu \in Seq(X) /\ Len(tt) = m /\ Len(uu) = n
    BY <1>1, <2>2 DEF X
  <2> QED
    BY <2>3 DEF X
<1>3. /\ \A k \in 1..m : tt[k] = t[k].scene.blocks
      /\ \A k \in 1..n : uu[k] = u[k].scene.blocks
  OBVIOUS
<1>a. Lines(t) = Flat(tt) /\ Lines(u) = Flat(uu)
  BY DEF Lines
<1> HIDE DEF all, tt, uu
<1>4. /\ both \in Seq(Seq(Id)) /\ Len(both) = m + n
      /\ \A k \in 1..m : both[k] = tt[k]
      /\ \A k \in 1..n : both[m + k] = uu[k]
  <2> DEFINE X == Seq(Id)
  <2>1. tt \in Seq(X) /\ uu \in Seq(X)
    BY <1>2
  <2> HIDE DEF X
  <2>2. /\ both \in Seq(X) /\ Len(both) = Len(tt) + Len(uu)
        /\ \A k \in 1..Len(tt) : both[k] = tt[k]
        /\ \A k \in 1..Len(uu) : both[Len(tt) + k] = uu[k]
    BY <2>1, Joined
  <2> QED
    BY <1>2, <2>2 DEF X
<1>8. both = Then(tt, uu)
  BY DEF both, Then
<1> HIDE DEF both
<1>5. both = [k \in 1..(m + n) |-> both[k]]
  BY <1>4, SequenceIs
<1>6. ASSUME NEW k \in 1..(m + n) PROVE both[k] = all[k].scene.blocks
  <2>1. CASE k \in 1..m
    BY <1>1, <1>3, <1>4, <2>1
  <2>2. CASE k \notin 1..m
    <3>1. PICK i \in 1..n : k = m + i
      <4>1. k - m \in 1..n /\ k = m + (k - m)
        BY <1>1, <2>2
      <4> QED
        BY <4>1
    <3> QED
      BY <1>1, <1>3, <1>4, <3>1
  <2> QED
    BY <2>1, <2>2
<1>7. Lines(all) = Flat(both)
  BY <1>1, <1>5, <1>6 DEF Lines
<1>9. Flat(Then(tt, uu)) = Then(Flat(tt), Flat(uu))
  BY <1>2, FlatJoins
<1>10. all = Then(t, u)
  BY DEF all, Then
<1> QED
  BY <1>7, <1>8, <1>9, <1>10, <1>a

LEMMA LinesOfNone == Lines(<<>>) = <<>>
<1>1. [n \in 1..Len(<<>>) |-> <<>>[n].scene.blocks] = <<>>
  OBVIOUS
<1> QED
  BY <1>1, FlatOfNone DEF Lines

LEMMA LinesAreTold ==
  ASSUME NEW c \in Seq(WholeChapter)
  PROVE  Flat(AllTags(c)) \in Seq(Tagged) /\ Lines(Flat(AllTags(c))) = StoryOf(c)
<1> DEFINE tags == AllTags(c)
           n == Len(c)
           Good == {i \in 0..n : Lines(Flat(First(tags, i))) = StoryOf(First(c, i))}
<1>0. n \in Nat /\ n \in 0..n /\ tags \in Seq(Seq(Tagged)) /\ Len(tags) = n
  BY TagsAre
<1>1. 0 \in Good
  <2>1. First(tags, 0) = <<>> /\ First(c, 0) = <<>>
    BY <1>0, FirstIs
  <2> QED
    BY <1>0, <2>1, FlatOfNone, LinesOfNone, StoryOfNone
<1>2. ASSUME NEW i \in 1..n, i - 1 \in Good PROVE i \in Good
  <2> DEFINE u == Flat(First(tags, i - 1))
             t == tags[i]
             before == First(c, i - 1)
             ch == c[i]
  <2>1. u \in Seq(Tagged) /\ t \in Seq(Tagged) /\ Flat(First(tags, i)) = Then(u, t)
    BY <1>0, FlatFirst
  <2>2. First(c, i) = Append(before, ch) /\ ch \in WholeChapter /\ before \in Seq(WholeChapter)
    <3>1. First(c, i) = Append(First(c, i - 1), c[i]) /\ c[i] \in WholeChapter
      BY <1>0, FirstIs
    <3>2. i - 1 \in 0..n
      BY <1>0
    <3>3. First(c, i - 1) \in Seq(WholeChapter)
      BY <3>2, FirstIs
    <3> QED
      BY <3>1, <3>3
  <2>3. Lines(t) = Blocks(ch.scenes)
    BY TagsAre
  <2>4. Lines(u) = StoryOf(before)
    BY <1>2
  <2> HIDE DEF u, t, before, ch
  <2>5. Lines(Then(u, t)) = Then(Lines(u), Lines(t))
    BY <2>1, LinesJoin
  <2>6. StoryOf(Append(before, ch)) = Then(StoryOf(before), Blocks(ch.scenes))
    BY <2>2, StoryAppends
  <2>7. Lines(Flat(First(tags, i))) = StoryOf(First(c, i))
    BY <2>1, <2>2, <2>3, <2>4, <2>5, <2>6
  <2> QED
    BY <2>7
<1>3. Good \in SUBSET (0..n)
  OBVIOUS
<1>4. n \in Good
  <2> HIDE DEF Good
  <2> QED
    BY <1>0, <1>1, <1>2, <1>3, CountedUp
<1>5. First(tags, n) = tags /\ First(c, n) = c
  BY <1>0, FirstIs
<1>6. Flat(tags) \in Seq(Tagged)
  <2>1. <<>> \in Seq(Tagged)
    OBVIOUS
  <2> QED
    BY <1>0, <2>1, FlatAppends
<1> QED
  BY <1>4, <1>5, <1>6

(* Texts in the order of the book.                                         *)

InOrder(t) == \A i, j \in 1..Len(t) : i < j => Import!Before(t[i], t[j])

LEMMA OrderAppend ==
  ASSUME NEW t \in Seq(Id), NEW e \in Id, InOrder(t), \A x \in Elements(t) : Import!Before(x, e)
  PROVE  Append(t, e) \in Seq(Id) /\ InOrder(Append(t, e)) /\ Elements(Append(t, e)) = Elements(t) \cup {e}
<1> DEFINE u == Append(t, e)
           n == Len(t)
<1>1. /\ u \in Seq(Id) /\ Len(u) = n + 1 /\ u[n + 1] = e /\ n \in Nat
      /\ \A i \in 1..n : u[i] = t[i]
      /\ Elements(u) = Elements(t) \cup {e}
  BY Appended
<1>2. \A i \in 1..n : t[i] \in Elements(t)
  BY DEF Elements
<1> HIDE DEF u
<1>3. ASSUME NEW i \in 1..(n + 1), NEW j \in 1..(n + 1), i < j PROVE Import!Before(u[i], u[j])
  <2>1. i \in 1..n
    BY <1>1, <1>3
  <2>2. CASE j = n + 1
    BY <1>1, <1>2, <2>1, <2>2
  <2>3. CASE j # n + 1
    <3>1. j \in 1..n
      BY <1>1, <2>3
    <3> QED
      BY <1>1, <1>3, <2>1, <3>1 DEF InOrder
  <2> QED
    BY <2>2, <2>3
<1>4. InOrder(u)
  BY <1>1, <1>3 DEF InOrder
<1> QED
  BY <1>1, <1>4 DEF u

LEMMA OrderJoin ==
  ASSUME NEW t \in Seq(Id), NEW u \in Seq(Id), InOrder(t), InOrder(u),
         \A x \in Elements(t), y \in Elements(u) : Import!Before(x, y)
  PROVE  Then(t, u) \in Seq(Id) /\ InOrder(Then(t, u)) /\ Elements(Then(t, u)) = Elements(t) \cup Elements(u)
<1> DEFINE w == t \o u
           m == Len(t)
           n == Len(u)
<1>1. /\ w \in Seq(Id) /\ Len(w) = m + n /\ m \in Nat /\ n \in Nat
      /\ \A i \in 1..m : w[i] = t[i]
      /\ \A i \in 1..n : w[m + i] = u[i]
  BY Joined
<1>2. (\A i \in 1..m : t[i] \in Elements(t)) /\ \A i \in 1..n : u[i] \in Elements(u)
  BY DEF Elements
<1> HIDE DEF w
<1>3. ASSUME NEW i \in 1..(m + n), NEW j \in 1..(m + n), i < j PROVE Import!Before(w[i], w[j])
  <2>1. CASE i \in 1..m /\ j \in 1..m
    BY <1>1, <1>3, <2>1 DEF InOrder
  <2>2. CASE i \in 1..m /\ j \notin 1..m
    <3>1. PICK k \in 1..n : j = m + k
      <4>1. j - m \in 1..n /\ j = m + (j - m)
        BY <1>1, <2>2
      <4> QED
        BY <4>1
    <3> QED
      BY <1>1, <1>2, <2>2, <3>1
  <2>3. CASE i \notin 1..m
    <3>1. PICK k \in 1..n, l \in 1..n : i = m + k /\ j = m + l /\ k < l
      <4>1. i - m \in 1..n /\ i = m + (i - m) /\ j - m \in 1..n /\ j = m + (j - m) /\ i - m < j - m
        BY <1>1, <1>3, <2>3
      <4> QED
        BY <4>1
    <3>2. Import!Before(u[k], u[l])
      BY <3>1 DEF InOrder
    <3> QED
      BY <1>1, <3>1, <3>2
  <2> QED
    BY <2>1, <2>2, <2>3
<1>4. InOrder(w)
  BY <1>1, <1>3 DEF InOrder
<1>5. Elements(Then(t, u)) = Elements(t) \cup Elements(u)
  BY JoinedElements
<1> QED
  BY <1>1, <1>4, <1>5 DEF w, Then

Chosen(u, e, chosen) == IF e \in chosen THEN Append(u, e) ELSE u

AreAmong(f, s, chosen) ==
  f = [i \in 0..Len(s) |-> IF i = 0 THEN <<>> ELSE Chosen(f[i - 1], s[i], chosen)]

LEMMA AmongOf ==
  ASSUME NEW s, NEW chosen
  PROVE  Import!Among(s, chosen) = (CHOOSE f : AreAmong(f, s, chosen))[Len(s)]
BY Zenon DEF Import!Among, AreAmong, Chosen

LEMMA AmongExists ==
  ASSUME NEW S, NEW s \in Seq(S), NEW chosen
  PROVE  \E f : AreAmong(f, s, chosen)
<1> DEFINE n == Len(s)
           Acc == Seq(S)
           step == [p \in Acc \X (1..n) |-> Chosen(p[1], s[p[2]], chosen)]
<1>0. n \in Nat /\ <<>> \in Acc /\ \A i \in 1..n : s[i] \in S
  OBVIOUS
<1>1. step \in [Acc \X (1..n) -> Acc]
  <2>1. \A u \in Acc, i \in 1..n : Chosen(u, s[i], chosen) \in Acc
    BY <1>0 DEF Chosen
  <2> HIDE DEF Acc
  <2> QED
    BY <2>1
<1>2. PICK g : IsLoop(g, n, <<>>, step) /\ Goes(g, n, Acc, <<>>, step)
  <2> HIDE DEF step, Acc, n
  <2> QED
    BY <1>0, <1>1, LoopGoes
<1>3. \A i \in 1..n : step[<<g[i - 1], i>>] = Chosen(g[i - 1], s[i], chosen)
  <2> SUFFICES ASSUME NEW i \in 1..n PROVE step[<<g[i - 1], i>>] = Chosen(g[i - 1], s[i], chosen)
    OBVIOUS
  <2>1. <<g[i - 1], i>> \in Acc \X (1..n)
    BY <1>2 DEF Goes
  <2> HIDE DEF Acc
  <2> QED
    BY <2>1
<1> HIDE DEF step
<1>4. \A i \in 0..n : i # 0 => i \in 1..n
  BY <1>0
<1>5. g = [i \in 0..n |-> IF i = 0 THEN <<>> ELSE Chosen(g[i - 1], s[i], chosen)]
  BY <1>2, <1>3, <1>4 DEF IsLoop
<1> QED
  BY <1>5 DEF AreAmong

\* Some of a text, in order, is in order.
LEMMA AmongIs ==
  ASSUME NEW s \in Seq(Id), NEW chosen, InOrder(s)
  PROVE  /\ Import!Among(s, chosen) \in Seq(Id) /\ InOrder(Import!Among(s, chosen))
         /\ Elements(Import!Among(s, chosen)) \subseteq Elements(s)
<1> DEFINE n == Len(s)
           F == CHOOSE f : AreAmong(f, s, chosen)
           From(i) == /\ F[i] \in Seq(Id) /\ InOrder(F[i])
                      /\ \A e \in Elements(F[i]) : \E j \in 1..i : e = s[j]
           Good == {i \in 0..n : From(i)}
<1>0. n \in Nat /\ n \in 0..n
  OBVIOUS
<1>1. AreAmong(F, s, chosen)
  BY AmongExists, Zenon
<1> HIDE DEF F
<1>2. F[0] = <<>> /\ \A i \in 1..n : F[i] = Chosen(F[i - 1], s[i], chosen)
  <2>1. 0 \in 0..n /\ \A i \in 1..n : i \in 0..n /\ i # 0
    BY <1>0
  <2> QED
    BY <1>1, <2>1 DEF AreAmong
<1>3. From(0)
  <2>1. <<>> \in Seq(Id) /\ InOrder(<<>>) /\ Elements(<<>>) = {}
    BY DEF InOrder, Elements
  <2> QED
    BY <1>2, <2>1
<1>4. ASSUME NEW i \in 1..n, From(i - 1) PROVE From(i)
  <2> DEFINE u == F[i - 1]
             e == s[i]
  <2>1. /\ u \in Seq(Id) /\ InOrder(u) /\ e \in Id
        /\ \A x \in Elements(u) : \E j \in 1..(i - 1) : x = s[j]
    BY <1>4
  <2>2. F[i] = Chosen(u, e, chosen)
    BY <1>2
  <2>3. \A x \in Elements(u) : \E j \in 1..i : x = s[j]
    BY <2>1
  <2>4. \A x \in Elements(u) : Import!Before(x, e)
    <3> SUFFICES ASSUME NEW x \in Elements(u) PROVE Import!Before(x, e)
      OBVIOUS
    <3>1. PICK j \in 1..(i - 1) : x = s[j]
      BY <2>1
    <3>2. j \in 1..n /\ j < i
      BY <1>0
    <3> QED
      BY <3>1, <3>2 DEF InOrder
  <2>5. CASE e \in chosen
    <3>1. F[i] = Append(u, e)
      BY <2>2, <2>5 DEF Chosen
    <3> HIDE DEF u
    <3>2. /\ Append(u, e) \in Seq(Id) /\ InOrder(Append(u, e))
          /\ Elements(Append(u, e)) = Elements(u) \cup {e}
      <4> HIDE DEF e
      <4> QED
        BY <2>1, <2>4, OrderAppend
    <3>3. i \in 1..i
      OBVIOUS
    <3> QED
      BY <2>3, <3>1, <3>2, <3>3
  <2>6. CASE e \notin chosen
    <3>1. F[i] = u
      BY <2>2, <2>6 DEF Chosen
    <3> QED
      BY <2>1, <2>3, <3>1
  <2> QED
    BY <2>5, <2>6
<1>5. n \in Good
  <2>1. 0 \in Good /\ Good \in SUBSET (0..n)
    BY <1>0, <1>3
  <2>2. ASSUME NEW i \in 1..n, i - 1 \in Good PROVE i \in Good
    <3>1. From(i - 1) /\ i \in 0..n
      BY <2>2
    <3>2. From(i)
      BY <1>4, <3>1
    <3> HIDE DEF From
    <3> QED
      BY <3>1, <3>2
  <2> HIDE DEF Good
  <2> QED
    BY <1>0, <2>1, <2>2, CountedUp
<1>6. Import!Among(s, chosen) = F[n]
  BY AmongOf DEF F
<1>7. \A j \in 1..n : s[j] \in Elements(s)
  BY DEF Elements
<1> QED
  BY <1>5, <1>6, <1>7

Kind(book, id) == book[id[1]].blocks[id[2]].kind

\* What ContentBlocks is, of any book.
Contents(book, d) ==
  LET ids == [i \in DOMAIN book[d].blocks |-> <<d, i>>]
      withText == Import!Among(ids, {id \in Import!ToSet(ids) : Kind(book, id) # "empty"})
      preamble == {withText[i] : i \in {j \in DOMAIN withText :
                      j <= 3 /\ Kind(book, withText[j]) \in {"year", "book"}}}
  IN Import!Among(withText, Import!ToSet(withText) \ preamble)

LEMMA ContentBlocksAre ==
  ASSUME NEW d
  PROVE  Import!ContentBlocks(d) = Contents(v2, d)
BY Zenon DEF Import!ContentBlocks, Import!KindOf, Import!Block, Contents, Kind

LEMMA ContentsAre ==
  ASSUME NEW book \in Seq(Import!Document), NEW d \in 1..Len(book)
  PROVE  /\ Contents(book, d) \in Seq(Id) /\ InOrder(Contents(book, d))
         /\ \A e \in Elements(Contents(book, d)) : e[1] = d /\ e[2] \in DOMAIN book[d].blocks
<1> DEFINE ids == [i \in DOMAIN book[d].blocks |-> <<d, i>>]
           withText == Import!Among(ids, {id \in Import!ToSet(ids) : Kind(book, id) # "empty"})
           preamble == {withText[i] : i \in {j \in DOMAIN withText :
                          j <= 3 /\ Kind(book, withText[j]) \in {"year", "book"}}}
           n == Len(book[d].blocks)
<1>1. n \in Nat /\ DOMAIN book[d].blocks = 1..n
  BY DEF Import!Document
<1>2. d \in Nat
  OBVIOUS
<1>3. Contents(book, d) = Import!Among(withText, Import!ToSet(withText) \ preamble)
  BY Zenon DEF Contents
<1>4. ids \in Seq(Id) /\ Len(ids) = n /\ \A i \in 1..n : ids[i] = <<d, i>>
  BY <1>1, <1>2 DEF Id
<1>5. InOrder(ids)
  <2> HIDE DEF ids
  <2> QED
    BY <1>1, <1>2, <1>4 DEF InOrder, Import!Before
<1>6. \A e \in Elements(ids) : e[1] = d /\ e[2] \in DOMAIN book[d].blocks
  <2> HIDE DEF ids
  <2> QED
    BY <1>1, <1>4 DEF Elements
<1> HIDE DEF ids
<1>7. withText \in Seq(Id) /\ InOrder(withText) /\ Elements(withText) \subseteq Elements(ids)
  <2> DEFINE chosen == {id \in Import!ToSet(ids) : Kind(book, id) # "empty"}
  <2> HIDE DEF chosen
  <2>1. /\ Import!Among(ids, chosen) \in Seq(Id) /\ InOrder(Import!Among(ids, chosen))
        /\ Elements(Import!Among(ids, chosen)) \subseteq Elements(ids)
    BY <1>4, <1>5, AmongIs
  <2> QED
    BY <2>1 DEF chosen
<1> HIDE DEF preamble, withText
<1>8. /\ Contents(book, d) \in Seq(Id) /\ InOrder(Contents(book, d))
      /\ Elements(Contents(book, d)) \subseteq Elements(withText)
  BY <1>3, <1>7, AmongIs
<1> QED
  BY <1>6, <1>7, <1>8

(* What the operations of LogicalChapterState do to the text of a state.   *)

LogicalState ==
  [chapters : Seq(WholeChapter), chapter : OpenChapter \cup {Import!NoChapter},
   sceneTitle : {"Texto", "scene"}, scene : Seq(Id), prelude : Seq(Id)]

StateInv(st) ==
  /\ st \in LogicalState
  /\ Import!HasChapter(st) => st.prelude = <<>>
  /\ ~Import!HasChapter(st) => st.scene = <<>>

\* The text of the open chapter, and that of the state.
Open(st) == Then(Blocks(st.chapter.scenes), st.scene)
Said(st) == Then(StoryOf(st.chapters), Then(Open(st), st.prelude))

LEMMA OpenOrNot ==
  ASSUME NEW st \in LogicalState
  PROVE  /\ Import!HasChapter(st) => st.chapter \in OpenChapter
         /\ st.chapter \in OpenChapter => Import!HasChapter(st)
         /\ ~Import!HasChapter(st) => st.chapter = Import!NoChapter
         /\ st.chapter.scenes \in Seq(SceneOf)
<1>1. Import!NoChapter \notin OpenChapter /\ Import!NoChapter.scenes = <<>>
  BY DEF Import!NoChapter, Import!Title, OpenChapter, Titles
<1>2. st.chapter \in OpenChapter \cup {Import!NoChapter}
  BY DEF LogicalState
<1>3. st.chapter \in OpenChapter => st.chapter.scenes \in Seq(SceneOf)
  BY DEF OpenChapter
<1>4. <<>> \in Seq(SceneOf)
  OBVIOUS
<1> HIDE DEF LogicalState
<1> QED
  BY <1>1, <1>2, <1>3, <1>4, Zenon DEF Import!HasChapter

LEMMA StateHas ==
  ASSUME NEW st \in LogicalState
  PROVE  /\ st.chapters \in Seq(WholeChapter) /\ StoryOf(st.chapters) \in Seq(Id)
         /\ Blocks(st.chapter.scenes) \in Seq(Id) /\ st.scene \in Seq(Id) /\ st.prelude \in Seq(Id)
         /\ Open(st) \in Seq(Id) /\ Said(st) \in Seq(Id)
         /\ st.sceneTitle \in {"Texto", "scene"}
<1>1. /\ st.chapters \in Seq(WholeChapter) /\ st.scene \in Seq(Id) /\ st.prelude \in Seq(Id)
      /\ st.sceneTitle \in {"Texto", "scene"}
  BY DEF LogicalState
<1>2. StoryOf(st.chapters) \in Seq(Id)
  BY <1>1, ChapterTextsAre
<1>3. Blocks(st.chapter.scenes) \in Seq(Id)
  BY OpenOrNot, TextsAre
<1>4. Open(st) \in Seq(Id)
  BY <1>1, <1>3, ThenIs DEF Open
<1>5. Then(Open(st), st.prelude) \in Seq(Id)
  BY <1>1, <1>4, ThenIs
<1> QED
  BY <1>1, <1>2, <1>3, <1>4, <1>5, ThenIs DEF Said

LEMMA FlushSceneIs ==
  ASSUME NEW st, StateInv(st), Import!HasChapter(st)
  PROVE  LET f == Import!FlushScene(st)
         IN  /\ StateInv(f) /\ Import!HasChapter(f) /\ f.chapters = st.chapters
             /\ f.scene = <<>> /\ Blocks(f.chapter.scenes) = Open(st) /\ Said(f) = Said(st)
<1> DEFINE f == Import!FlushScene(st)
           scenes == st.chapter.scenes
           scene == [title |-> st.sceneTitle, blocks |-> st.scene]
           now == IF st.scene # <<>> THEN Append(scenes, scene) ELSE scenes
           ch == [st.chapter EXCEPT !.scenes = now]
<1>1. st \in LogicalState /\ st.prelude = <<>> /\ st.chapter \in OpenChapter
  BY OpenOrNot DEF StateInv
<1>2. f = [st EXCEPT !.scene = <<>>, !.chapter = ch]
  BY DEF Import!FlushScene
<1>3. scenes \in Seq(SceneOf) /\ st.chapter.title \in Titles
  BY <1>1 DEF OpenChapter
<1>4. st.scene # <<>> => scene \in SceneOf
  BY <1>1, StateHas DEF SceneOf
<1>5. now \in Seq(SceneOf) /\ Blocks(now) = Open(st)
  <2>1. CASE st.scene # <<>>
    <3>1. scene \in SceneOf /\ scene.blocks = st.scene
      BY <1>4, <2>1
    <3> HIDE DEF scene, scenes
    <3>2. Append(scenes, scene) \in Seq(SceneOf) /\ Blocks(Append(scenes, scene)) = Then(Blocks(scenes), scene.blocks)
      BY <1>3, <3>1, BlocksAppend
    <3> QED
      BY <2>1, <3>1, <3>2 DEF Open, scenes
  <2>2. CASE st.scene = <<>>
    <3>1. Then(Blocks(scenes), <<>>) = Blocks(scenes)
      BY <1>1, StateHas, ThenIs
    <3> QED
      BY <1>3, <2>2, <3>1 DEF Open
  <2> QED
    BY <2>1, <2>2
<1> HIDE DEF now
<1>6. ch \in OpenChapter /\ ch.scenes = now
  BY <1>1, <1>5 DEF OpenChapter
<1> HIDE DEF ch, f
<1>7. /\ f \in LogicalState /\ f.chapters = st.chapters /\ f.chapter = ch /\ f.scene = <<>>
      /\ f.prelude = <<>>
  <2>1. <<>> \in Seq(Id)
    OBVIOUS
  <2> QED
    BY <1>1, <1>2, <1>6, <2>1 DEF LogicalState
<1>8. Import!HasChapter(f) /\ StateInv(f)
  BY <1>6, <1>7, OpenOrNot DEF StateInv
<1>9. Said(f) = Said(st)
  <2>1. Open(f) = Open(st)
    <3>1. Open(st) \in Seq(Id)
      BY <1>1, StateHas
    <3>2. Then(Open(st), <<>>) = Open(st)
      BY <3>1, ThenIs
    <3>3. Open(f) = Then(Open(st), <<>>)
      BY <1>5, <1>6, <1>7, Zenon DEF Open
    <3> QED
      BY <3>2, <3>3
  <2> QED
    BY <1>1, <1>7, <2>1 DEF Said
<1> QED
  BY <1>5, <1>6, <1>7, <1>8, <1>9 DEF f

LEMMA FlushChapterIs ==
  ASSUME NEW st, StateInv(st)
  PROVE  LET f == Import!FlushChapter(st)
         IN  /\ StateInv(f) /\ f.chapter = Import!NoChapter /\ f.scene = <<>>
             /\ f.prelude = st.prelude /\ f.sceneTitle = "Texto"
             /\ StoryOf(f.chapters) = Then(StoryOf(st.chapters), Open(st)) /\ Said(f) = Said(st)
<1> DEFINE f == Import!FlushChapter(st)
           g == Import!FlushScene(st)
           now == IF g.chapter.scenes # <<>> THEN Append(g.chapters, g.chapter) ELSE g.chapters
<1>1. f = [g EXCEPT !.chapters = now, !.chapter = Import!NoChapter, !.sceneTitle = "Texto"]
  BY DEF Import!FlushChapter
<1>2. /\ g \in LogicalState /\ g.chapters = st.chapters /\ g.prelude = st.prelude /\ g.scene = <<>>
      /\ Blocks(g.chapter.scenes) = Open(st) /\ Open(st) \in Seq(Id)
      /\ Import!HasChapter(st) => g.chapter \in OpenChapter
      /\ ~Import!HasChapter(st) => g.chapter.scenes = <<>>
  <2>1. CASE Import!HasChapter(st)
    <3>1. StateInv(g) /\ Import!HasChapter(g) /\ st.prelude = <<>> /\ st \in LogicalState
      BY <2>1, FlushSceneIs DEF StateInv
    <3> QED
      BY <2>1, <3>1, FlushSceneIs, OpenOrNot, StateHas DEF StateInv
  <2>2. CASE ~Import!HasChapter(st)
    <3>1. st \in LogicalState /\ st.chapter = Import!NoChapter /\ st.scene = <<>>
      BY <2>2, OpenOrNot DEF StateInv
    <3>2. Import!NoChapter.scenes = <<>>
      BY DEF Import!NoChapter
    <3>3. g = st
      <4>1. g = [st EXCEPT !.scene = <<>>, !.chapter.scenes = @]
        BY <2>2 DEF Import!FlushScene
      <4> DEFINE none == Import!NoChapter
                 ch == [none EXCEPT !.scenes = @]
      <4>2. ch = none
        BY DEF Import!NoChapter
      <4> HIDE DEF ch
      <4>3. g = [st EXCEPT !.scene = <<>>, !.chapter = ch]
        BY <3>1, <4>1 DEF ch
      <4>4. [st EXCEPT !.scene = <<>>, !.chapter = none] = st
        <5> HIDE DEF none
        <5>1. st.chapter = none /\ st.scene = <<>>
          BY <3>1 DEF none
        <5> QED
          BY <3>1, <5>1 DEF LogicalState
      <4> QED
        BY <4>2, <4>3, <4>4
    <3>4. Open(st) = <<>>
      <4>1. Blocks(st.chapter.scenes) = <<>> /\ <<>> \in Seq(Id)
        BY <3>1, <3>2, BlocksOfNone
      <4> QED
        BY <3>1, <4>1, ThenIs DEF Open
    <3> QED
      BY <2>2, <3>1, <3>2, <3>3, <3>4, StateHas, BlocksOfNone
  <2> QED
    BY <2>1, <2>2
<1> HIDE DEF g
<1>3. now \in Seq(WholeChapter) /\ StoryOf(now) = Then(StoryOf(st.chapters), Open(st))
  <2>1. CASE g.chapter.scenes # <<>>
    <3> DEFINE ch == g.chapter
               chapters == g.chapters
    <3>1. ch \in WholeChapter
      BY <1>2, <2>1 DEF OpenChapter, WholeChapter
    <3>2. chapters \in Seq(WholeChapter)
      BY <1>2, StateHas
    <3>3. now = Append(chapters, ch) /\ Blocks(ch.scenes) = Open(st) /\ chapters = st.chapters
      BY <1>2, <2>1
    <3> HIDE DEF ch, chapters
    <3>4. /\ Append(chapters, ch) \in Seq(WholeChapter)
          /\ StoryOf(Append(chapters, ch)) = Then(StoryOf(chapters), Blocks(ch.scenes))
      BY <3>1, <3>2, StoryAppends
    <3> QED
      BY <3>3, <3>4
  <2>2. CASE g.chapter.scenes = <<>>
    <3>1. Open(st) = <<>> /\ now = st.chapters
      BY <1>2, <2>2, BlocksOfNone
    <3>2. st.chapters \in Seq(WholeChapter)
      BY <1>2, StateHas
    <3>3. StoryOf(st.chapters) \in Seq(Id) /\ <<>> \in Seq(Id)
      BY <3>2, ChapterTextsAre
    <3>4. Then(StoryOf(st.chapters), <<>>) = StoryOf(st.chapters)
      BY <3>3, ThenIs
    <3> QED
      BY <3>1, <3>2, <3>4
  <2> QED
    BY <2>1, <2>2
<1> HIDE DEF now, f
<1>4. /\ f \in LogicalState /\ f.chapters = now /\ f.chapter = Import!NoChapter /\ f.scene = <<>>
      /\ f.prelude = st.prelude /\ f.sceneTitle = "Texto"
  BY <1>1, <1>2, <1>3 DEF LogicalState
<1>5. ~Import!HasChapter(f) /\ StateInv(f)
  BY <1>4 DEF StateInv, Import!HasChapter
<1>6. Said(f) = Said(st)
  <2>1. Open(f) = <<>>
    <3>1. Import!NoChapter.scenes = <<>> /\ <<>> \in Seq(Id)
      BY DEF Import!NoChapter
    <3>2. Blocks(f.chapter.scenes) = <<>>
      BY <1>4, <3>1, BlocksOfNone
    <3> QED
      BY <1>4, <3>1, <3>2, ThenIs DEF Open
  <2>2. st.prelude \in Seq(Id) /\ Open(st) \in Seq(Id) /\ StoryOf(st.chapters) \in Seq(Id)
    BY <1>2, StateHas DEF StateInv
  <2>3. Said(f) = Then(Then(StoryOf(st.chapters), Open(st)), Then(<<>>, st.prelude))
    BY <1>3, <1>4, <2>1, Zenon DEF Said
  <2>4. Then(<<>>, st.prelude) = st.prelude
    BY <2>2, ThenIs
  <2>5. Then(Then(StoryOf(st.chapters), Open(st)), st.prelude) = Then(StoryOf(st.chapters), Then(Open(st), st.prelude))
    BY <2>2, ThenThen
  <2> QED
    BY <2>3, <2>4, <2>5 DEF Said
<1> QED
  BY <1>3, <1>4, <1>5, <1>6 DEF f

LEMMA NewChapterIs ==
  ASSUME NEW title \in Titles
  PROVE  LET ch == [Import!NoChapter EXCEPT !.title = title]
         IN  ch \in OpenChapter /\ ch.scenes = <<>>
<1>1. [Import!NoChapter EXCEPT !.title = title] = [title |-> title, scenes |-> <<>>]
  BY DEF Import!NoChapter
<1>2. <<>> \in Seq(SceneOf)
  OBVIOUS
<1> QED
  BY <1>1, <1>2 DEF OpenChapter

LEMMA OpenWithPreludeIs ==
  ASSUME NEW st, StateInv(st), ~Import!HasChapter(st), NEW title \in Titles
  PROVE  LET f == Import!OpenWithPrelude(st, title)
         IN  StateInv(f) /\ Import!HasChapter(f) /\ Said(f) = Said(st)
<1> DEFINE f == Import!OpenWithPrelude(st, title)
           ch == [Import!NoChapter EXCEPT !.title = title]
<1>1. st \in LogicalState /\ st.chapter = Import!NoChapter /\ st.scene = <<>>
  BY OpenOrNot DEF StateInv
<1>2. ch \in OpenChapter /\ ch.scenes = <<>> /\ Import!NoChapter.scenes = <<>>
  BY NewChapterIs DEF Import!NoChapter
<1>3. f = [st EXCEPT !.chapter = ch, !.sceneTitle = "Texto", !.scene = st.prelude, !.prelude = <<>>]
  BY DEF Import!OpenWithPrelude
<1> HIDE DEF ch, f
<1>4. /\ f \in LogicalState /\ f.chapters = st.chapters /\ f.chapter = ch
      /\ f.scene = st.prelude /\ f.prelude = <<>>
  <2>1. <<>> \in Seq(Id)
    OBVIOUS
  <2> QED
    BY <1>1, <1>2, <1>3, <2>1 DEF LogicalState
<1>5. Import!HasChapter(f) /\ StateInv(f)
  BY <1>2, <1>4, OpenOrNot DEF StateInv
<1>6. Said(f) = Said(st)
  <2>1. <<>> \in Seq(Id) /\ st.prelude \in Seq(Id)
    BY <1>1, StateHas
  <2>2. Open(f) = st.prelude
    BY <1>2, <1>4, <2>1, BlocksOfNone, ThenIs DEF Open
  <2>3. Open(st) = <<>>
    BY <1>1, <1>2, <2>1, BlocksOfNone, ThenIs DEF Open
  <2>4. Then(st.prelude, <<>>) = st.prelude /\ Then(<<>>, st.prelude) = st.prelude
    BY <2>1, ThenIs
  <2> QED
    BY <1>4, <2>2, <2>3, <2>4 DEF Said
<1> QED
  BY <1>5, <1>6 DEF f

LEMMA BeginChapterIs ==
  ASSUME NEW st, StateInv(st), NEW title \in Titles
  PROVE  StateInv(Import!BeginChapter(st, title)) /\ Said(Import!BeginChapter(st, title)) = Said(st)
<1> DEFINE intro == Import!Title("intro", 0)
           before == IF ~Import!HasChapter(st) /\ st.prelude # <<>>
                     THEN Import!OpenWithPrelude(st, intro) ELSE st
           g == Import!FlushChapter(before)
           ch == [Import!NoChapter EXCEPT !.title = title]
           f == Import!BeginChapter(st, title)
<1>1. StateInv(before) /\ Said(before) = Said(st) /\ (before.prelude = <<>>)
  <2>1. intro \in Titles
    BY DEF Import!Title, Titles
  <2> HIDE DEF intro
  <2>2. CASE ~Import!HasChapter(st) /\ st.prelude # <<>>
    <3>1. before = Import!OpenWithPrelude(st, intro)
      BY <2>2
    <3> HIDE DEF before
    <3>2. StateInv(before) /\ Said(before) = Said(st) /\ Import!HasChapter(before)
      BY <2>1, <2>2, <3>1, OpenWithPreludeIs
    <3> QED
      BY <3>2 DEF StateInv
  <2>3. CASE ~(~Import!HasChapter(st) /\ st.prelude # <<>>)
    BY <2>3 DEF StateInv
  <2> QED
    BY <2>2, <2>3
<1>2. f = [g EXCEPT !.chapter = ch]
  BY DEF Import!BeginChapter
<1> HIDE DEF before
<1>3. /\ StateInv(g) /\ g.chapter = Import!NoChapter /\ g.scene = <<>> /\ g.prelude = <<>>
      /\ Said(g) = Said(st)
  BY <1>1, FlushChapterIs
<1>4. ch \in OpenChapter /\ ch.scenes = <<>> /\ Import!NoChapter.scenes = <<>>
  BY NewChapterIs DEF Import!NoChapter
<1> HIDE DEF g, ch, f
<1>5. /\ f \in LogicalState /\ f.chapters = g.chapters /\ f.chapter = ch
      /\ f.scene = <<>> /\ f.prelude = <<>>
  BY <1>2, <1>3, <1>4 DEF StateInv, LogicalState
<1>6. StateInv(f)
  BY <1>4, <1>5, OpenOrNot DEF StateInv
<1>7. Open(f) = Open(g)
  BY <1>3, <1>4, <1>5 DEF Open
<1>8. Said(f) = Said(st)
  BY <1>3, <1>5, <1>7 DEF Said
<1> QED
  BY <1>6, <1>8 DEF f

LEMMA BeginSceneIs ==
  ASSUME NEW st, StateInv(st), NEW title \in Titles
  PROVE  StateInv(Import!BeginScene(st, title)) /\ Said(Import!BeginScene(st, title)) = Said(st)
<1> DEFINE open == IF Import!HasChapter(st) THEN st ELSE Import!OpenWithPrelude(st, title)
           g == Import!FlushScene(open)
           f == Import!BeginScene(st, title)
<1>1. StateInv(open) /\ Said(open) = Said(st) /\ Import!HasChapter(open)
  BY OpenWithPreludeIs
<1>2. f = [g EXCEPT !.sceneTitle = "scene"]
  BY DEF Import!BeginScene
<1> HIDE DEF open
<1>3. StateInv(g) /\ Import!HasChapter(g) /\ Said(g) = Said(st)
  BY <1>1, FlushSceneIs
<1> HIDE DEF g, f
<1>4. /\ f \in LogicalState /\ f.chapters = g.chapters /\ f.chapter = g.chapter
      /\ f.scene = g.scene /\ f.prelude = g.prelude
  BY <1>2, <1>3 DEF StateInv, LogicalState
<1>5. StateInv(f)
  BY <1>3, <1>4 DEF StateInv, Import!HasChapter
<1>6. Said(f) = Said(st)
  BY <1>3, <1>4 DEF Said, Open
<1> QED
  BY <1>5, <1>6 DEF f

LEMMA TextGrows ==
  ASSUME NEW t \in Seq(Id), NEW u \in Seq(Id), NEW id \in Id
  PROVE  Then(t, u) \in Seq(Id) /\ Then(t, Append(u, id)) = Append(Then(t, u), id)
BY DEF Then

LEMMA AddBlockIs ==
  ASSUME NEW st, StateInv(st), NEW id \in Id
  PROVE  StateInv(Import!AddBlock(st, id)) /\ Said(Import!AddBlock(st, id)) = Append(Said(st), id)
<1> DEFINE f == Import!AddBlock(st, id)
           tt == StoryOf(st.chapters)
           bb == Blocks(st.chapter.scenes)
           ss == st.scene
           pp == st.prelude
<1>1. st \in LogicalState
  BY DEF StateInv
<1>2. tt \in Seq(Id) /\ bb \in Seq(Id) /\ ss \in Seq(Id) /\ pp \in Seq(Id) /\ Open(st) \in Seq(Id)
  BY <1>1, StateHas
<1>3. Said(st) = Then(tt, Then(Then(bb, ss), pp))
  BY DEF Said, Open
<1>4. CASE Import!HasChapter(st)
  <2> DEFINE more == Append(st.scene, id)
  <2>1. f = [st EXCEPT !.scene = more]
    BY <1>4 DEF Import!AddBlock
  <2>2. more \in Seq(Id)
    BY <1>2
  <2> HIDE DEF f, more
  <2>3. /\ f \in LogicalState /\ f.chapters = st.chapters /\ f.chapter = st.chapter
        /\ f.scene = more /\ f.prelude = st.prelude
    BY <1>1, <2>1, <2>2 DEF LogicalState
  <2>4. st.prelude = <<>>
    BY <1>4 DEF StateInv
  <2>5. StateInv(f)
    BY <1>4, <2>3, <2>4 DEF StateInv, Import!HasChapter
  <2>6. Said(f) = Append(Said(st), id)
    <3> HIDE DEF tt, bb, ss
    <3>1. Said(f) = Then(tt, Then(Then(bb, Append(ss, id)), <<>>))
      <4>1. f.scene = Append(ss, id) /\ StoryOf(f.chapters) = tt /\ Blocks(f.chapter.scenes) = bb /\ f.prelude = <<>>
        BY <2>3, <2>4 DEF more, tt, bb, ss
      <4> QED
        BY <4>1 DEF Said, Open
    <3>2. Then(bb, Append(ss, id)) = Append(Then(bb, ss), id) /\ Then(bb, ss) \in Seq(Id)
      BY <1>2, TextGrows
    <3> DEFINE w == Then(bb, ss)
    <3>3. w \in Seq(Id)
      BY <3>2
    <3>a. Said(f) = Then(tt, Then(Append(w, id), <<>>)) /\ Said(st) = Then(tt, Then(w, <<>>))
      BY <1>3, <2>4, <3>1, <3>2
    <3> HIDE DEF w
    <3>4. Append(w, id) \in Seq(Id)
      BY <3>3
    <3>5. Then(Append(w, id), <<>>) = Append(w, id) /\ Then(w, <<>>) = w
      BY <3>3, <3>4, ThenIs
    <3>6. Then(tt, Append(w, id)) = Append(Then(tt, w), id)
      BY <1>2, <3>3, TextGrows
    <3> QED
      BY <3>a, <3>5, <3>6
  <2> QED
    BY <2>5, <2>6 DEF f
<1>5. CASE ~Import!HasChapter(st)
  <2> DEFINE more == Append(st.prelude, id)
  <2>1. f = [st EXCEPT !.prelude = more]
    BY <1>5 DEF Import!AddBlock
  <2>2. more \in Seq(Id)
    BY <1>2
  <2> HIDE DEF f, more
  <2>3. /\ f \in LogicalState /\ f.chapters = st.chapters /\ f.chapter = st.chapter
        /\ f.scene = st.scene /\ f.prelude = more
    BY <1>1, <2>1, <2>2 DEF LogicalState
  <2>5. StateInv(f)
    BY <1>5, <2>3 DEF StateInv, Import!HasChapter
  <2>6. Said(f) = Append(Said(st), id)
    <3> DEFINE w == Then(bb, ss)
    <3>1. w \in Seq(Id)
      BY <1>2, ThenIs
    <3>2. Said(f) = Then(tt, Then(w, Append(pp, id))) /\ Said(st) = Then(tt, Then(w, pp))
      <4>1. f.prelude = Append(pp, id) /\ StoryOf(f.chapters) = tt /\ Then(Blocks(f.chapter.scenes), f.scene) = w
        BY <2>3 DEF more
      <4> HIDE DEF tt, w, pp
      <4>2. Said(f) = Then(tt, Then(w, Append(pp, id)))
        BY <4>1 DEF Said, Open
      <4> QED
        BY <1>3, <4>2 DEF w
    <3> HIDE DEF tt, w, pp
    <3>3. Then(w, Append(pp, id)) = Append(Then(w, pp), id) /\ Then(w, pp) \in Seq(Id)
      BY <1>2, <3>1, TextGrows
    <3>4. Then(tt, Append(Then(w, pp), id)) = Append(Then(tt, Then(w, pp)), id)
      BY <1>2, <3>3, TextGrows
    <3> QED
      BY <3>2, <3>3, <3>4
  <2> QED
    BY <2>5, <2>6 DEF f
<1> QED
  BY <1>4, <1>5

\* The chapters of a document hold the text of its state.
LEMMA ChaptersAre ==
  ASSUME NEW bs, NEW st, StateInv(st), NEW title \in Titles
  PROVE  /\ Import!ChaptersOf(bs, st, title) \in Seq(WholeChapter)
         /\ StoryOf(Import!ChaptersOf(bs, st, title)) = Said(st)
<1> DEFINE before == IF ~Import!HasChapter(st) /\ st.prelude # <<>>
                     THEN Import!OpenWithPrelude(st, title) ELSE st
           g == Import!FlushChapter(before)
           c == g.chapters
           f == Import!ChaptersOf(bs, st, title)
           one == [c[1] EXCEPT !.title = title]
<1>1. StateInv(before) /\ Said(before) = Said(st) /\ (before.prelude = <<>>)
  <2>2. CASE ~Import!HasChapter(st) /\ st.prelude # <<>>
    <3>1. before = Import!OpenWithPrelude(st, title)
      BY <2>2
    <3> HIDE DEF before
    <3>2. StateInv(before) /\ Said(before) = Said(st) /\ Import!HasChapter(before)
      BY <2>2, <3>1, OpenWithPreludeIs
    <3> QED
      BY <3>2 DEF StateInv
  <2>3. CASE ~(~Import!HasChapter(st) /\ st.prelude # <<>>)
    BY <2>3 DEF StateInv
  <2> QED
    BY <2>2, <2>3
<1>2. f = IF Len(c) = 1 THEN <<one>> ELSE c
  BY DEF Import!ChaptersOf, Import!Finish
<1> HIDE DEF before, f
<1>3. StateInv(g) /\ StoryOf(c) = Then(StoryOf(before.chapters), Open(before))
  BY <1>1, FlushChapterIs
<1> HIDE DEF g
<1>4. c \in Seq(WholeChapter)
  BY <1>3, StateHas DEF StateInv
<1>5. StoryOf(c) = Said(st)
  <2>1. Open(before) \in Seq(Id)
    BY <1>1, StateHas DEF StateInv
  <2>2. Then(Open(before), <<>>) = Open(before)
    BY <2>1, ThenIs
  <2> QED
    BY <1>1, <1>3, <2>2 DEF Said
<1> HIDE DEF c
<1>6. CASE Len(c) = 1
  <2> DEFINE old == c[1]
  <2>1. old \in WholeChapter /\ c = <<old>>
    BY <1>4, <1>6, OnlyIs
  <2>2. f = <<[old EXCEPT !.title = title]>>
    BY <1>2, <1>6
  <2> HIDE DEF old
  <2> DEFINE new == [old EXCEPT !.title = title]
  <2>3. new \in WholeChapter /\ new.scenes = old.scenes
    BY <2>1 DEF WholeChapter
  <2>4. f = <<new>>
    BY <2>2
  <2> HIDE DEF new
  <2>5. <<new>> \in Seq(WholeChapter) /\ StoryOf(<<new>>) = StoryOf(<<old>>)
    BY <2>1, <2>3, StoryOfOne
  <2> QED
    BY <1>5, <2>1, <2>4, <2>5 DEF f
<1>7. CASE Len(c) # 1
  BY <1>2, <1>4, <1>5, <1>7 DEF f
<1> QED
  BY <1>6, <1>7

LEMMA OneSceneIs ==
  ASSUME NEW bs \in Seq(Id), bs # <<>>, NEW title \in Titles
  PROVE  /\ Import!OneScene(bs, title) \in Seq(WholeChapter)
         /\ StoryOf(Import!OneScene(bs, title)) = bs
<1> DEFINE scene == [title |-> "Texto", blocks |-> bs]
           ch == [title |-> title, scenes |-> <<scene>>]
<1>1. Import!OneScene(bs, title) = <<ch>>
  BY DEF Import!OneScene
<1>2. scene \in SceneOf /\ scene.blocks = bs
  BY DEF SceneOf
<1> HIDE DEF scene
<1>3. <<scene>> \in Seq(SceneOf) \ {<<>>} /\ Blocks(<<scene>>) = bs
  BY <1>2, BlocksOfOne
<1>4. ch \in WholeChapter /\ ch.scenes = <<scene>>
  BY <1>3 DEF WholeChapter
<1> HIDE DEF ch
<1>5. <<ch>> \in Seq(WholeChapter) /\ StoryOf(<<ch>>) = bs
  BY <1>3, <1>4, StoryOfOne
<1> QED
  BY <1>1, <1>5

(* The spine is read: the outline tells the documents before, the state    *)
(* the blocks before in the document that is being read.                   *)

\* A block that must be in the text.
Wanted(book, bs, j) ==
  /\ Kind(book, bs[j]) \in {"text", "intro"}
  /\ ~(j > 1 /\ Kind(book, bs[j - 1]) = "numeral")

HasWanted(book, t, bs) == \A j \in 1..Len(bs) : Wanted(book, bs, j) => bs[j] \in Elements(t)

\* The text of the documents before the n-th.
Kept(book, t, n) ==
  /\ t \in Seq(Id) /\ InOrder(t)
  /\ \A e \in Elements(t) : e[1] < n
  /\ \A d \in 1..Len(book) : d < n /\ ~book[d].front => HasWanted(book, t, Contents(book, d))

\* The text of the blocks before the i-th.
Reading(book, bs, t, i) ==
  /\ t \in Seq(Id) /\ InOrder(t)
  /\ \A e \in Elements(t) : \E j \in 1..(i - 1) : e = bs[j]
  /\ \A j \in 1..(i - 1) : Wanted(book, bs, j) => bs[j] \in Elements(t)

ReadInv ==
  /\ v2 \in Seq(Import!Document)
  /\ v3 \in [document : Nat \ {0}, block : Nat \ {0}]
  /\ v5 \in Seq(WholeChapter)
  /\ v1 \in {"spine", "blocks", "create"} => Kept(v2, StoryOf(v5), v3.document)
  /\ v1 = "spine" => v3.block = 1
  /\ v1 = "blocks" => /\ v3.document \in 1..Len(v2) /\ v4 = Contents(v2, v3.document)
                      /\ v3.block <= Len(v4) + 1
                      /\ StateInv(v6) /\ Reading(v2, v4, Said(v6), v3.block)
  /\ v1 = "create" => v3.document > Len(v2)

LEMMA KeptOneMore ==
  ASSUME NEW book \in Seq(Import!Document), NEW n \in 1..Len(book), NEW t, Kept(book, t, n),
         NEW u \in Seq(Id), InOrder(u), \A e \in Elements(u) : e[1] = n,
         ~book[n].front => HasWanted(book, u, Contents(book, n))
  PROVE  Kept(book, Then(t, u), n + 1)
<1> DEFINE w == Then(t, u)
<1>0. n \in Nat /\ Len(book) \in Nat
  OBVIOUS
<1>1. t \in Seq(Id) /\ InOrder(t) /\ (\A e \in Elements(t) : e[1] < n) /\ (\A e \in Elements(t) : e \in Id)
  BY DEF Kept, Elements
<1>2. \A x \in Elements(t), y \in Elements(u) : Import!Before(x, y)
  BY <1>1 DEF Import!Before
<1>3. w \in Seq(Id) /\ InOrder(w) /\ Elements(w) = Elements(t) \cup Elements(u)
  BY <1>1, <1>2, OrderJoin
<1> HIDE DEF w
<1>4. \A e \in Elements(w) : e[1] < n + 1
  <2> SUFFICES ASSUME NEW e \in Elements(w) PROVE e[1] < n + 1
    OBVIOUS
  <2>1. CASE e \in Elements(t)
    <3>1. e[1] < n /\ e[1] \in Nat
      BY <1>1, <2>1 DEF Id
    <3> QED
      BY <1>0, <3>1
  <2>2. CASE e \in Elements(u)
    BY <1>0, <2>2
  <2> QED
    BY <1>3, <2>1, <2>2
<1>5. ASSUME NEW d \in 1..Len(book), d < n + 1, ~book[d].front
      PROVE  HasWanted(book, w, Contents(book, d))
  <2>1. CASE d = n
    BY <1>3, <1>5, <2>1 DEF HasWanted
  <2>2. CASE d # n
    <3>1. d < n
      BY <1>0, <1>5, <2>2
    <3>2. HasWanted(book, t, Contents(book, d))
      BY <1>5, <3>1 DEF Kept
    <3> QED
      BY <1>3, <3>2 DEF HasWanted
  <2> QED
    BY <2>1, <2>2
<1>6. Kept(book, w, n + 1)
  BY <1>3, <1>4, <1>5 DEF Kept
<1> QED
  BY <1>6 DEF w

LEMMA ReadingSkips ==
  ASSUME NEW book, NEW bs, NEW t, NEW i \in Nat \ {0}, Reading(book, bs, t, i), ~Wanted(book, bs, i)
  PROVE  Reading(book, bs, t, i + 1)
<1>1. 1..(i + 1 - 1) = (1..(i - 1)) \cup {i}
  OBVIOUS
<1> QED
  BY <1>1 DEF Reading

LEMMA ReadingAdds ==
  ASSUME NEW book, NEW bs \in Seq(Id), InOrder(bs), NEW t, NEW i \in 1..Len(bs), Reading(book, bs, t, i)
  PROVE  Reading(book, bs, Append(t, bs[i]), i + 1)
<1> DEFINE e == bs[i]
           u == Append(t, e)
<1>1. 1..(i + 1 - 1) = (1..(i - 1)) \cup {i}
  OBVIOUS
<1>2. e \in Id /\ t \in Seq(Id) /\ InOrder(t)
  BY DEF Reading
<1>3. \A x \in Elements(t) : Import!Before(x, e)
  <2> SUFFICES ASSUME NEW x \in Elements(t) PROVE Import!Before(x, e)
    OBVIOUS
  <2>1. PICK j \in 1..(i - 1) : x = bs[j]
    BY DEF Reading
  <2>2. j \in 1..Len(bs) /\ j < i
    OBVIOUS
  <2> QED
    BY <2>1, <2>2 DEF InOrder
<1>4. u \in Seq(Id) /\ InOrder(u) /\ Elements(u) = Elements(t) \cup {e}
  <2> HIDE DEF e
  <2> QED
    BY <1>2, <1>3, OrderAppend
<1> HIDE DEF u
<1>5. \A x \in Elements(u) : \E j \in 1..(i + 1 - 1) : x = bs[j]
  BY <1>1, <1>4 DEF Reading
<1>6. \A j \in 1..(i + 1 - 1) : Wanted(book, bs, j) => bs[j] \in Elements(u)
  BY <1>1, <1>4 DEF Reading
<1>7. Reading(book, bs, u, i + 1)
  BY <1>4, <1>5, <1>6 DEF Reading
<1> QED
  BY <1>7 DEF u

\* All blocks are read.
LEMMA ReadingEnds ==
  ASSUME NEW book, NEW d, NEW bs \in Seq(Id), NEW t, Reading(book, bs, t, Len(bs) + 1),
         \A e \in Elements(bs) : e[1] = d
  PROVE  t \in Seq(Id) /\ InOrder(t) /\ (\A e \in Elements(t) : e[1] = d) /\ HasWanted(book, t, bs)
<1>1. Len(bs) + 1 - 1 = Len(bs) /\ \A j \in 1..Len(bs) : bs[j] \in Elements(bs)
  BY DEF Elements
<1> QED
  BY <1>1 DEF Reading, HasWanted

LEMMA AddDocumentKeeps ==
  ASSUME ReadInv, v1 \in {"spine", "blocks"}, v3.document <= Len(v2), v2' = v2,
         NEW found \in Seq(WholeChapter), Import!AddDocument(found),
         InOrder(StoryOf(found)), \A e \in Elements(StoryOf(found)) : e[1] = v3.document,
         ~v2[v3.document].front => HasWanted(v2, StoryOf(found), Contents(v2, v3.document))
  PROVE  ReadInv'
<1> DEFINE d == v3.document
           t == StoryOf(v5)
           u == StoryOf(found)
<1>1. /\ v2 \in Seq(Import!Document) /\ v5 \in Seq(WholeChapter) /\ d \in Nat \ {0} /\ d \in 1..Len(v2)
      /\ Kept(v2, t, d)
  BY DEF ReadInv
<1>2. /\ v5' = Import!Merged(v5, found) /\ v1' \in {"failed", "spine"}
      /\ v3' = [document |-> d + 1, block |-> 1]
  BY DEF Import!AddDocument
<1>3. v5' \in Seq(WholeChapter) /\ StoryOf(v5') = Then(t, u)
  BY <1>1, <1>2, MergedIs
<1>4. u \in Seq(Id)
  BY ChapterTextsAre
<1>5. Kept(v2, Then(t, u), d + 1)
  <2> HIDE DEF t, u, d
  <2>1. InOrder(u) /\ (\A e \in Elements(u) : e[1] = d) /\ (~v2[d].front => HasWanted(v2, u, Contents(v2, d)))
    BY DEF u, d
  <2> QED
    BY <1>1, <1>4, <2>1, KeptOneMore
<1>6. v3' \in [document : Nat \ {0}, block : Nat \ {0}] /\ v3'.document = d + 1 /\ v3'.block = 1
  BY <1>1, <1>2
<1>7. Kept(v2', StoryOf(v5'), v3'.document)
  BY <1>3, <1>5, <1>6
<1> QED
  BY <1>1, <1>2, <1>3, <1>6, <1>7 DEF ReadInv

Piece == [kind : Import!Kinds, number : Nat, fits : BOOLEAN, image : Pictures \cup {NoPicture}]

LEMMA DocumentIs ==
  ASSUME v2 \in Seq(Import!Document), NEW d \in 1..Len(v2)
  PROVE  v2[d].title \in Titles /\ v2[d].blocks \in Seq(Piece)
<1>1. v2[d] \in Import!Document
  OBVIOUS
<1> DEFINE doc == v2[d]
<1> HIDE DEF doc
<1>2. doc \in [front : BOOLEAN, title : Titles, blocks : Seq(Piece)]
  BY <1>1 DEF Import!Document, doc, Titles, Piece
<1>3. doc.title \in Titles /\ doc.blocks \in Seq(Piece)
  BY <1>2
<1> QED
  BY <1>3 DEF doc

LEMMA BoundaryIs ==
  ASSUME v2 \in Seq(Import!Document), NEW d \in 1..Len(v2), NEW bs, bs = Contents(v2, d),
         NEW i \in 1..Len(bs)
  PROVE  LET boundary == Import!Boundaries(bs)[i]
         IN  /\ boundary.kind \in {"chapter", "scene"} => ~Wanted(v2, bs, i)
             /\ boundary.kind = "chapter" => boundary.title \in Titles
             /\ boundary.consumeNext => ~Wanted(v2, bs, i + 1)
             /\ boundary = Import!NoBoundary \/ boundary.kind \in {"chapter", "scene"}
<1> DEFINE block == Import!Block(bs[i])
           boundary == Import!Boundaries(bs)[i]
<1>1. bs \in Seq(Id) /\ bs[i] \in Elements(bs) /\ DOMAIN bs = 1..Len(bs)
  BY ContentsAre DEF Elements
<1>2. bs[i][1] = d /\ bs[i][2] \in DOMAIN v2[d].blocks
  BY <1>1, ContentsAre
<1>3. block.number \in Nat /\ block.kind = Kind(v2, bs[i])
  <2>1. v2[d].blocks \in Seq(Piece)
    BY DocumentIs
  <2>2. block = v2[d].blocks[bs[i][2]]
    BY <1>2 DEF Import!Block
  <2>3. v2[d].blocks[bs[i][2]] \in Piece
    BY <1>2, <2>1
  <2>4. block.number \in Nat
    BY <2>2, <2>3 DEF Piece
  <2> QED
    BY <2>4 DEF Kind, Import!Block
<1>4. boundary = Import!StructuralBoundary(bs, i)
  BY <1>1 DEF Import!Boundaries
<1>a. Import!RomanChapter(bs, i) => block.kind = "numeral"
  BY DEF Import!RomanChapter, Import!Numerals, Import!KindOf
<1> HIDE DEF block, boundary
<1>5. CASE block.kind = "scene"
  <2>1. boundary = [Import!NoBoundary EXCEPT !.kind = "scene"]
    BY <1>4, <1>5, <1>a DEF Import!StructuralBoundary, block
  <2>2. boundary.kind = "scene" /\ boundary.consumeNext = FALSE
    BY <2>1 DEF Import!NoBoundary
  <2> QED
    BY <1>3, <1>5, <2>2 DEF Wanted, boundary
<1>6. CASE block.kind \in {"named", "heading"}
  <2>1. boundary = Import!ChapterAt(Import!Title("plain", block.number), FALSE)
    BY <1>4, <1>6, <1>a DEF Import!StructuralBoundary, block
  <2>2. boundary.kind = "chapter" /\ boundary.consumeNext = FALSE /\ boundary.title \in Titles
    BY <1>3, <2>1 DEF Import!ChapterAt, Import!Title, Titles
  <2> QED
    BY <1>3, <1>6, <2>2 DEF Wanted, boundary
<1>7. CASE block.kind \notin {"scene", "named", "heading"} /\ Import!RomanChapter(bs, i)
  <2>1. boundary = Import!ChapterAt(Import!Title("plain", block.number), TRUE)
    BY <1>4, <1>7 DEF Import!StructuralBoundary, block
  <2>2. boundary.kind = "chapter" /\ boundary.title \in Titles
    BY <1>3, <2>1 DEF Import!ChapterAt, Import!Title, Titles
  <2>3. Kind(v2, bs[i]) = "numeral"
    BY <1>7 DEF Import!RomanChapter, Import!Numerals, Import!KindOf, Import!Block, Kind
  <2>4. ~Wanted(v2, bs, i) /\ ~Wanted(v2, bs, i + 1)
    <3>1. i + 1 > 1 /\ i + 1 - 1 = i
      OBVIOUS
    <3> QED
      BY <2>3, <3>1 DEF Wanted
  <2> QED
    BY <2>2, <2>4 DEF boundary
<1>8. CASE block.kind \notin {"scene", "named", "heading"} /\ ~Import!RomanChapter(bs, i)
  <2>1. boundary = Import!NoBoundary
    BY <1>4, <1>8 DEF Import!StructuralBoundary, block
  <2>2. boundary.kind = "none" /\ boundary.consumeNext = FALSE
    BY <2>1 DEF Import!NoBoundary
  <2> QED
    BY <2>1, <2>2 DEF boundary
<1> QED
  BY <1>5, <1>6, <1>7, <1>8

LEMMA NoneIsTold ==
  /\ <<>> \in Seq(WholeChapter) /\ <<>> \in Seq(Id) /\ StoryOf(<<>>) = <<>> /\ InOrder(<<>>)
  /\ Elements(<<>>) = {}
BY StoryOfNone DEF InOrder, Elements

LEMMA TitleIs ==
  ASSUME v2 \in Seq(Import!Document), NEW d \in 1..Len(v2)
  PROVE  Import!TitleOf(d) \in Titles
BY DocumentIs DEF Import!TitleOf

LEMMA EmptyStateIs == StateInv(Import!EmptyState) /\ Said(Import!EmptyState) = <<>>
<1> DEFINE st == Import!EmptyState
<1>1. /\ st.chapters = <<>> /\ st.chapter = Import!NoChapter /\ st.scene = <<>> /\ st.prelude = <<>>
      /\ st \in LogicalState /\ Import!NoChapter.scenes = <<>>
  <2>1. <<>> \in Seq(WholeChapter) /\ <<>> \in Seq(Id)
    OBVIOUS
  <2> QED
    BY <2>1 DEF Import!EmptyState, Import!NoChapter, LogicalState
<1> HIDE DEF st
<1>2. StateInv(st)
  BY <1>1 DEF StateInv
<1>3. Then(<<>>, <<>>) = <<>>
  BY NoneIsTold, ThenIs
<1>4. Said(st) = <<>>
  BY <1>1, <1>3, BlocksOfNone, StoryOfNone DEF Said, Open
<1> QED
  BY <1>2, <1>4 DEF st

LEMMA ReadingStarts == \A book, bs : Reading(book, bs, <<>>, 1)
BY NoneIsTold DEF Reading

LEMMA ImportStarts == ASSUME Import!Init PROVE ReadInv
<1>1. /\ v2 \in Spines /\ v1 = "spine" /\ v3 = [document |-> 1, block |-> 1] /\ v5 = <<>>
  BY DEF Import!Init
<1>2. v2 \in Seq(Import!Document)
  BY <1>1, BooksAssumption DEF Import!SpinesAssumption
<1>3. Kept(v2, <<>>, 1)
  BY NoneIsTold DEF Kept
<1>4. v3.document = 1 /\ v3 \in [document : Nat \ {0}, block : Nat \ {0}]
  BY <1>1
<1> QED
  BY <1>1, <1>2, <1>3, <1>4, NoneIsTold DEF ReadInv

LEMMA BeginDocumentKeeps == ASSUME ReadInv, Import!BeginDocument PROVE ReadInv'
<1> DEFINE d == v3.document
           bs == Contents(v2, d)
<1>1. /\ v1 = "spine" /\ d <= Len(v2) /\ v2' = v2 /\ v4' = bs /\ v6' = Import!EmptyState
  BY ContentBlocksAre DEF Import!BeginDocument
<1>2. d \in 1..Len(v2) /\ v2 \in Seq(Import!Document)
  BY <1>1 DEF ReadInv
<1>3. bs \in Seq(Id) /\ InOrder(bs) /\ \A e \in Elements(bs) : e[1] = d
  BY <1>2, ContentsAre
<1>4. ASSUME Import!AddDocument(<<>>), v2[d].front \/ bs = <<>> PROVE ReadInv'
  <2>1. ~v2[d].front => HasWanted(v2, <<>>, bs)
    BY <1>4 DEF HasWanted
  <2>2. \A e \in Elements(StoryOf(<<>>)) : e[1] = d
    BY NoneIsTold
  <2> QED
    BY <1>1, <1>2, <1>4, <2>1, <2>2, NoneIsTold, AddDocumentKeeps
<1>5. CASE Import!IsFront(d)
  BY <1>4, <1>5 DEF Import!BeginDocument, Import!IsFront
<1>6. CASE ~Import!IsFront(d)
  <2>1. CASE bs = <<>>
    BY <1>4, <1>6, <2>1, ContentBlocksAre DEF Import!BeginDocument
  <2>2. CASE bs # <<>> /\ \A i \in DOMAIN bs : Import!Boundaries(bs)[i] = Import!NoBoundary
    <3> DEFINE found == Import!OneScene(bs, Import!TitleOf(d))
    <3>1. Import!AddDocument(found)
      BY <1>6, <2>2, ContentBlocksAre DEF Import!BeginDocument
    <3>2. found \in Seq(WholeChapter) /\ StoryOf(found) = bs
      BY <1>2, <1>3, <2>2, TitleIs, OneSceneIs
    <3> HIDE DEF found
    <3>3. HasWanted(v2, StoryOf(found), bs)
      BY <3>2 DEF HasWanted, Elements
    <3> QED
      BY <1>1, <1>2, <1>3, <3>1, <3>2, <3>3, AddDocumentKeeps
  <2>3. CASE bs # <<>> /\ ~\A i \in DOMAIN bs : Import!Boundaries(bs)[i] = Import!NoBoundary
    <3>1. v1' = "blocks" /\ v5' = v5 /\ v3' = v3
      BY <1>6, <2>3, ContentBlocksAre DEF Import!BeginDocument
    <3>2. v3.block = 1 /\ v3 \in [document : Nat \ {0}, block : Nat \ {0}] /\ v5 \in Seq(WholeChapter)
          /\ Kept(v2, StoryOf(v5), d)
      BY <1>1 DEF ReadInv
    <3>3. StateInv(v6') /\ Said(v6') = <<>> /\ Reading(v2, bs, <<>>, 1)
      BY <1>1, EmptyStateIs, ReadingStarts
    <3>4. Len(bs) \in Nat
      BY <1>3
    <3> HIDE DEF bs
    <3>5. /\ v2' \in Seq(Import!Document) /\ v3' \in [document : Nat \ {0}, block : Nat \ {0}]
          /\ v5' \in Seq(WholeChapter) /\ Kept(v2', StoryOf(v5'), v3'.document)
      BY <1>1, <1>2, <3>1, <3>2
    <3>6. v3'.document \in 1..Len(v2') /\ v4' = Contents(v2', v3'.document) /\ v3'.block <= Len(v4') + 1
      BY <1>1, <1>2, <3>1, <3>2, <3>4 DEF bs
    <3>7. Reading(v2', v4', Said(v6'), v3'.block)
      BY <1>1, <3>1, <3>2, <3>3
    <3> QED
      BY <3>1, <3>3, <3>5, <3>6, <3>7 DEF ReadInv
  <2> QED
    BY <2>1, <2>2, <2>3
<1> QED
  BY <1>5, <1>6

LEMMA ReadBlockKeeps == ASSUME ReadInv, Import!ReadBlock PROVE ReadInv'
<1> DEFINE d == v3.document
           i == v3.block
           bs == v4
           boundary == Import!Boundaries(bs)[i]
           before == Import!Boundaries(bs)[i - 1]
           title == Import!TitleOf(d)
           Consumed == i > 1 /\ before.consumeNext
<1>1. /\ v1 = "blocks" /\ i <= Len(bs) /\ v3' = [v3 EXCEPT !.block = i + 1]
      /\ v1' = v1 /\ v2' = v2 /\ v4' = v4 /\ v5' = v5
  BY DEF Import!ReadBlock
<1>2. v6' = IF Consumed THEN v6
            ELSE CASE boundary.kind = "chapter" -> Import!BeginChapter(v6, boundary.title)
                   [] boundary.kind = "scene" -> Import!BeginScene(v6, title)
                   [] OTHER -> Import!AddBlock(v6, bs[i])
  BY DEF Import!ReadBlock
<1>3. /\ v2 \in Seq(Import!Document) /\ v3 \in [document : Nat \ {0}, block : Nat \ {0}]
      /\ v5 \in Seq(WholeChapter) /\ Kept(v2, StoryOf(v5), d)
      /\ d \in 1..Len(v2) /\ bs = Contents(v2, d) /\ StateInv(v6) /\ Reading(v2, bs, Said(v6), i)
  BY <1>1 DEF ReadInv
<1>4. bs \in Seq(Id) /\ InOrder(bs)
  BY <1>3, ContentsAre
<1>5. i \in 1..Len(bs) /\ i \in Nat \ {0}
  BY <1>1, <1>3, <1>4
<1>6. /\ boundary.kind \in {"chapter", "scene"} => ~Wanted(v2, bs, i)
      /\ boundary.kind = "chapter" => boundary.title \in Titles
  BY <1>3, <1>5, BoundaryIs
<1>7. Consumed => ~Wanted(v2, bs, i)
  <2> SUFFICES ASSUME Consumed PROVE ~Wanted(v2, bs, i)
    OBVIOUS
  <2> DEFINE j == i - 1
  <2>1. j \in 1..Len(bs) /\ j + 1 = i
    BY <1>5
  <2>2. Import!Boundaries(bs)[j].consumeNext
    OBVIOUS
  <2> HIDE DEF j
  <2>3. ~Wanted(v2, bs, j + 1)
    BY <1>3, <2>1, <2>2, BoundaryIs
  <2> QED
    BY <2>1, <2>3
<1>8. title \in Titles
  BY <1>3, TitleIs
<1>9. bs[i] \in Id
  BY <1>4, <1>5
<1> HIDE DEF boundary, before, title, Consumed
<1>10. StateInv(v6') /\ Reading(v2, bs, Said(v6'), i + 1)
  <2> HIDE DEF i, bs
  <2>1. CASE Consumed
    <3>1. v6' = v6
      BY <1>2, <2>1
    <3> QED
      BY <1>3, <1>5, <1>7, <2>1, <3>1, ReadingSkips
  <2>2. CASE ~Consumed /\ boundary.kind = "chapter"
    <3>1. v6' = Import!BeginChapter(v6, boundary.title)
      BY <1>2, <2>2
    <3>2. StateInv(v6') /\ Said(v6') = Said(v6)
      BY <1>3, <1>6, <2>2, <3>1, BeginChapterIs
    <3> QED
      BY <1>3, <1>5, <1>6, <2>2, <3>2, ReadingSkips
  <2>3. CASE ~Consumed /\ boundary.kind = "scene"
    <3>1. v6' = Import!BeginScene(v6, title)
      BY <1>2, <2>3
    <3>2. StateInv(v6') /\ Said(v6') = Said(v6)
      BY <1>3, <1>8, <3>1, BeginSceneIs
    <3> QED
      BY <1>3, <1>5, <1>6, <2>3, <3>2, ReadingSkips
  <2>4. CASE ~Consumed /\ boundary.kind \notin {"chapter", "scene"}
    <3>1. v6' = Import!AddBlock(v6, bs[i])
      BY <1>2, <2>4
    <3>2. StateInv(v6') /\ Said(v6') = Append(Said(v6), bs[i])
      BY <1>3, <1>9, <3>1, AddBlockIs
    <3> QED
      BY <1>3, <1>4, <1>5, <3>2, ReadingAdds
  <2> QED
    BY <2>1, <2>2, <2>3, <2>4
<1>11. v3' \in [document : Nat \ {0}, block : Nat \ {0}] /\ v3'.document = d /\ v3'.block = i + 1
  BY <1>1, <1>3, <1>5
<1>12. v3'.block <= Len(v4') + 1
  BY <1>1, <1>5, <1>11
<1> HIDE DEF i, d, bs
<1>13. /\ v2' \in Seq(Import!Document) /\ v5' \in Seq(WholeChapter) /\ Kept(v2', StoryOf(v5'), v3'.document)
       /\ v3'.document \in 1..Len(v2') /\ v4' = Contents(v2', v3'.document)
       /\ Reading(v2', v4', Said(v6'), v3'.block) /\ v1' = "blocks"
  BY <1>1, <1>3, <1>10, <1>11 DEF bs
<1> QED
  BY <1>10, <1>11, <1>12, <1>13 DEF ReadInv

LEMMA EndDocumentKeeps == ASSUME ReadInv, Import!EndDocument PROVE ReadInv'
<1> DEFINE d == v3.document
           bs == v4
           found == Import!ChaptersOf(bs, v6, Import!TitleOf(d))
<1>1. v1 = "blocks" /\ v3.block > Len(bs) /\ v2' = v2 /\ Import!AddDocument(found)
  BY DEF Import!EndDocument
<1>2. /\ v2 \in Seq(Import!Document) /\ d \in 1..Len(v2) /\ bs = Contents(v2, d)
      /\ StateInv(v6) /\ Reading(v2, bs, Said(v6), v3.block) /\ v3.block <= Len(bs) + 1
      /\ v3.block \in Nat
  BY <1>1 DEF ReadInv
<1>3. bs \in Seq(Id) /\ \A e \in Elements(bs) : e[1] = d
  BY <1>2, ContentsAre
<1>4. v3.block = Len(bs) + 1
  BY <1>1, <1>2, <1>3
<1>5. found \in Seq(WholeChapter) /\ StoryOf(found) = Said(v6)
  BY <1>2, TitleIs, ChaptersAre
<1> HIDE DEF found
<1>6. /\ Said(v6) \in Seq(Id) /\ InOrder(Said(v6)) /\ (\A e \in Elements(Said(v6)) : e[1] = d)
      /\ HasWanted(v2, Said(v6), bs)
  <2> HIDE DEF bs, d
  <2>1. Reading(v2, bs, Said(v6), Len(bs) + 1)
    BY <1>2, <1>4
  <2> QED
    BY <1>3, <2>1, ReadingEnds
<1>7. d <= Len(v2)
  BY <1>2
<1> QED
  BY <1>1, <1>2, <1>5, <1>6, <1>7, AddDocumentKeeps

\* The other actions leave what was read alone.
LEMMA AfterTheSpine ==
  ASSUME ReadInv, Import!Next, ~Import!BeginDocument, ~Import!ReadBlock, ~Import!EndDocument
  PROVE  ReadInv'
<1>1. UNCHANGED <<v2, v3, v4, v5, v6>>
  BY DEF Import!Next, Import!CannotRead, Import!EndSpine, Import!CreateProject, Import!CreateChapter,
         Import!AttachImages, Import!CreateScene, Import!Imported, Import!CreateFails, Import!CleanUp,
         Import!parserVars
<1>2. CASE Import!EndSpine
  <2>1. v1 = "spine" /\ v1' \in {"failed", "create"} /\ v3.document > Len(v2)
    BY <1>2 DEF Import!EndSpine
  <2> QED
    BY <1>1, <2>1 DEF ReadInv
<1>3. CASE ~Import!EndSpine
  <2>1. v1' \notin {"spine", "blocks", "create"}
    BY <1>3 DEF Import!Next, Import!CannotRead, Import!CreateProject, Import!CreateChapter,
         Import!AttachImages, Import!CreateScene, Import!Imported, Import!CreateFails, Import!CleanUp
  <2> QED
    BY <1>1, <2>1 DEF ReadInv
<1> QED
  BY <1>2, <1>3

LEMMA StoryHolds == ASSUME ReadInv PROVE Import!StoryIsKept
<1> SUFFICES ASSUME v1 = "create" PROVE Import!StoryIsKept
  BY DEF Import!StoryIsKept
<1> DEFINE story == Import!Story
           scenes == Import!Scenes
<1>1. /\ v2 \in Seq(Import!Document) /\ v5 \in Seq(WholeChapter) /\ v3.document > Len(v2)
      /\ Kept(v2, StoryOf(v5), v3.document) /\ v3.document \in Nat /\ Len(v2) \in Nat
  BY DEF ReadInv
<1>2. scenes \in Seq(Tagged) /\ story = StoryOf(v5)
  BY <1>1, LinesAreTold, StoryIs
<1>3. story \in Seq(Id) /\ InOrder(story)
  BY <1>1, <1>2 DEF Kept
<1> HIDE DEF story, scenes
<1>4. \A i, j \in DOMAIN story : i < j => Import!Before(story[i], story[j])
  <2>1. DOMAIN story = 1..Len(story)
    BY <1>3
  <2> QED
    BY <1>3, <2>1 DEF InOrder
<1>5. \A n \in DOMAIN scenes : scenes[n].scene.blocks # <<>>
  <2>1. \A n \in DOMAIN scenes : scenes[n] \in Tagged
    BY <1>2
  <2> QED
    BY <2>1 DEF Tagged, SceneOf
<1>6. ASSUME NEW d \in DOMAIN v2, ~Import!IsFront(d), NEW i \in DOMAIN Import!ContentBlocks(d),
             Import!KindOf(Import!ContentBlocks(d)[i]) \in {"text", "intro"},
             ~(i > 1 /\ Import!KindOf(Import!ContentBlocks(d)[i - 1]) = "numeral")
      PROVE  Import!ContentBlocks(d)[i] \in Import!ToSet(story)
  <2> DEFINE bs == Contents(v2, d)
  <2>1. d \in 1..Len(v2) /\ d < v3.document
    BY <1>1
  <2>2. bs \in Seq(Id) /\ Import!ContentBlocks(d) = bs
    BY <1>1, <2>1, ContentsAre, ContentBlocksAre
  <2>3. HasWanted(v2, story, bs)
    BY <1>1, <1>2, <1>6, <2>1 DEF Kept, Import!IsFront
  <2> HIDE DEF bs
  <2>4. i \in 1..Len(bs) /\ Wanted(v2, bs, i)
    BY <1>6, <2>2 DEF Wanted, Kind, Import!KindOf, Import!Block
  <2>5. bs[i] \in Elements(story)
    BY <2>3, <2>4 DEF HasWanted
  <2> QED
    BY <2>2, <2>5 DEF Elements, Import!ToSet
<1> QED
  BY <1>4, <1>5, <1>6 DEF Import!StoryIsKept, story, scenes

(***************************************************************************)
(* The text of a book is kept, however many documents and blocks it has    *)
(* and wherever its chapters and scenes begin: when the spine has been     *)
(* read, the scenes tell in order every paragraph of the documents that    *)
(* were not skipped, except those after a numeral                          *)
(* (epub-import.parser.ts: parseSpine).                                    *)
(***************************************************************************)
THEOREM StoryStaysWhole == BookSpec => []StoryIsKept
<1> DEFINE Inv == part = "import" => ReadInv
<1>1. BookInit => Inv
  BY ImportStarts DEF BookInit
<1>2. Inv /\ [BookNext]_bookVars => Inv'
  <2> SUFFICES ASSUME Inv, [BookNext]_bookVars, part' = "import" PROVE ReadInv'
    OBVIOUS
  <2>1. part = "import" /\ (Import!Next \/ UNCHANGED <<v1, v2, v3, v4, v5, v6>>)
    BY DEF BookNext, bookVars
  <2>2. ReadInv
    BY <2>1
  <2>3. CASE Import!Next
    BY <2>2, <2>3, BeginDocumentKeeps, ReadBlockKeeps, EndDocumentKeeps, AfterTheSpine
  <2>4. CASE UNCHANGED <<v1, v2, v3, v4, v5, v6>>
    BY <2>2, <2>4 DEF ReadInv
  <2> QED
    BY <2>1, <2>3, <2>4
<1>3. Inv => StoryIsKept
  BY StoryHolds DEF StoryIsKept
<1> QED
  BY <1>1, <1>2, <1>3, PTL DEF BookSpec
=============================================================================
