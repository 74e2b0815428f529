-------------------------- MODULE ProjectRuns_proofs --------------------------
(***************************************************************************)
(* That the rows of the analysis runs of a project are sound, for any      *)
(* finite set of scenes and any number of workers, runs, attempts, retries *)
(* and faults.                                                             *)
(*                                                                         *)
(* The invariant says what a row is worth to whoever reads it: always      *)
(* (RowOK), when no job was delivered twice (SettledOK), and before any    *)
(* fault (FirstOK); and what a worker knows of the run it walks (InWalk,   *)
(* Kept, FirstWalk).                                                       *)
(***************************************************************************)
EXTENDS ProjectRuns, FiniteSetTheorems, SequenceTheorems, WellFoundedInduction, TLAPS

Finished == {"SUCCEEDED", "FAILED"}

Walks == UNION {[S -> SceneStatus] : S \in SUBSET Scenes}

Rows == [status : Outcome \cup {"QUEUED", "RUNNING"}, scenes : Walks, processed : Nat,
         failed : Nat, settled : BOOLEAN, job : JobStates, tries : 0..Attempts,
         stalls : Nat, holder : Workers \cup {NoWorker}]

Jobs == [pc : Phases, run : Nat, scene : {0} \cup Scenes, todo : SUBSET Scenes]

NoneFailed(scenes) == \A s \in DOMAIN scenes : scenes[s] # "FAILED"

InProgress(row) == row.status \in {"QUEUED", "RUNNING"}

\* The four things a settled row says of its scenes.
AddsUp(row) ==
  /\ row.processed = Cardinality(DOMAIN row.scenes)
  /\ \A s \in DOMAIN row.scenes : row.scenes[s] \in Finished
  /\ row.failed = Count(row.scenes, {"FAILED"})
  /\ row.status = OutcomeOf(row.scenes)

\* At all times: the counters count scenes of the run, a job that can still be taken has
\* an attempt left, the lock is held exactly while the job is active, a job that completed
\* has settled its event, and one that failed is exhausted or stalled too often.
RowOK(row) ==
  /\ DOMAIN row.scenes # {}
  /\ row.processed <= Cardinality(DOMAIN row.scenes)
  /\ row.failed <= Cardinality(DOMAIN row.scenes)
  /\ row.job \in {"waiting", "active"} => row.tries < Attempts
  /\ row.job = "active" <=> row.holder # NoWorker
  /\ row.job = "gone" => row.settled
  /\ row.job = "failed" => row.tries >= Attempts \/ row.stalls > MaxStalledCount

\* While no job was delivered twice: a settled run is over, and adds up.
SettledOK(row) ==
  row.settled => AddsUp(row) /\ row.job \in {"gone", "failed"} /\ row.status \in Outcome

\* Before any fault: a job that waits for its first attempt finds what was created.
FirstOK(row) ==
  row.tries = 0 /\ row.job = "waiting" =>
    row.status = "QUEUED" /\ \A s \in DOMAIN row.scenes : row.scenes[s] = "QUEUED"

\* A worker on a run walks scenes of the run, and the one in hand is not ahead of it.
InWalk(me, row) ==
  /\ me.pc # "idle"
  /\ me.todo \subseteq DOMAIN row.scenes
  /\ me.pc \in {"analysing", "analysed", "progress"} => me.scene \in DOMAIN row.scenes \ me.todo

\* What a worker has behind it stays as it left it, because nobody else writes the row.
Kept(me, row) ==
  /\ me.pc \in {"scene", "progress"} =>
       \A s \in DOMAIN row.scenes \ me.todo : row.scenes[s] \in Finished
  /\ me.pc \in {"analysing", "analysed"} =>
       \A s \in DOMAIN row.scenes \ (me.todo \cup {me.scene}) : row.scenes[s] \in Finished
  /\ me.pc = "scene" /\ me.todo # DOMAIN row.scenes =>
       row.processed = Count(row.scenes, Finished)
  /\ me.pc = "audit" => AddsUp(row)

\* The first attempt meets every scene as it was created.
FirstWalk(me, row) ==
  /\ \A s \in me.todo : row.scenes[s] = "QUEUED"
  /\ me.pc \in {"analysing", "analysed"} => row.scenes[me.scene] = "RUNNING"

Types ==
  /\ dirty \subseteq Scenes /\ live \subseteq Scenes
  /\ runs \in Seq(Rows)
  /\ request \in [run : {0} \cup RunIds, scenes : SUBSET Scenes]
  /\ worker \in [Workers -> Jobs]
  /\ faults \in 0..FaultBudget
  /\ redelivered \in BOOLEAN

RowsInv ==
  \A r \in RunIds : /\ RowOK(runs[r])
                    /\ ~redelivered => SettledOK(runs[r])
                    /\ faults = 0 => FirstOK(runs[r])

OnRun(me) ==
  /\ me.run \in RunIds
  /\ InWalk(me, runs[me.run])
  /\ faults = 0 /\ runs[me.run].tries = 0 => FirstWalk(me, runs[me.run])

\* While no job was delivered twice, whoever works on a run holds its lock.
WorkersInv ==
  \A w \in Workers : worker[w] # Idle =>
    OnRun(worker[w]) /\ (~redelivered => /\ runs[worker[w].run].holder = w
                                         /\ Kept(worker[w], runs[worker[w].run]))

LockInv ==
  \A r \in RunIds : runs[r].holder # NoWorker =>
    worker[runs[r].holder] # Idle /\ worker[runs[r].holder].run = r

FaultInv == redelivered => faults > 0

\* Nothing failed, nothing was tried again, and no fault happened.
Undisturbed ==
  faults = 0 /\ \A r \in RunIds : runs[r].tries = 0 /\ NoneFailed(runs[r].scenes)

OnceInv ==
  Undisturbed => /\ request = NoRequest
                 /\ \A r, q \in RunIds : Active(r) /\ Active(q) => r = q

IInv == Types /\ RowsInv /\ WorkersInv /\ LockInv /\ FaultInv /\ OnceInv
-----------------------------------------------------------------------------
(* Finite sets of scenes, and counts of them *)

LEMMA LeastNatural ==
  ASSUME NEW T \in SUBSET Nat, T # {}
  PROVE  \E n \in T : \A m \in T : n <= m
<1>1. IsWellFoundedOn(OpToRel(<, Nat), Nat)
  BY NatLessThanWellFounded
<1>2. \E n \in T : \A m \in T : ~(<<m, n>> \in OpToRel(<, Nat))
  BY <1>1, WFMin
<1>3. \A m, n \in Nat : m < n => <<m, n>> \in OpToRel(<, Nat)
  <2> SUFFICES ASSUME NEW m \in Nat, NEW n \in Nat, m < n
               PROVE  <<m, n>> \in {ss \in Nat \X Nat : ss[1] < ss[2]}
    BY DEF OpToRel
  <2> QED
    OBVIOUS
<1>4. \A m, n \in Nat : ~(m < n) => n <= m
  OBVIOUS
<1> QED
  BY <1>2, <1>3, <1>4

LEMMA GreatestOfFinite ==
  ASSUME NEW S \in SUBSET Nat, IsFiniteSet(S), S # {}
  PROVE  \E s \in S : \A t \in S : t <= s
<1> DEFINE HasMax(T) == \E s \in T : \A t \in T : t <= s
           Bad == {T \in SUBSET S : T # {} /\ ~HasMax(T)}
           Sizes == {Cardinality(T) : T \in Bad}
<1>1. \A T \in SUBSET S : IsFiniteSet(T) /\ Cardinality(T) \in Nat
  BY FS_Subset, FS_CardinalityType
<1>2. SUFFICES ASSUME Bad # {} PROVE FALSE
  OBVIOUS
<1>3. PICK T \in Bad : \A U \in Bad : Cardinality(T) <= Cardinality(U)
  <2>1. Sizes \in SUBSET Nat /\ Sizes # {}
    BY <1>1, <1>2
  <2>2. PICK n \in Sizes : \A m \in Sizes : n <= m
    BY <2>1, LeastNatural
  <2> QED
    BY <2>2
<1>4. PICK x \in T : TRUE
  BY <1>3
<1>5. Cardinality(T \ {x}) < Cardinality(T) /\ T \ {x} \in SUBSET S
  BY <1>1, <1>3, <1>4, FS_RemoveElement
<1>6. T \ {x} \notin Bad
  <2>1. Cardinality(T) \in Nat /\ Cardinality(T \ {x}) \in Nat
    BY <1>1, <1>3, <1>5
  <2>2. ~(Cardinality(T) <= Cardinality(T \ {x}))
    BY <1>5, <2>1
  <2> QED
    BY <1>3, <2>2
<1>7. CASE T \ {x} = {}
  BY <1>3, <1>4, <1>7
<1>8. CASE HasMax(T \ {x})
  <2>1. PICK s \in T \ {x} : \A t \in T \ {x} : t <= s
    BY <1>8
  <2>2. s \in Nat /\ x \in Nat /\ T \subseteq Nat
    BY <1>3, <1>4, <2>1
  <2>3. CASE x <= s
    BY <1>3, <2>1, <2>2, <2>3
  <2>4. CASE ~(x <= s)
    BY <1>3, <1>4, <2>1, <2>2, <2>4
  <2> QED
    BY <2>3, <2>4
<1> QED
  BY <1>5, <1>6, <1>7, <1>8

LEMMA ScenesFinite ==
  ASSUME NEW scenes \in Walks
  PROVE  /\ DOMAIN scenes \subseteq Scenes
         /\ IsFiniteSet(DOMAIN scenes)
         /\ Cardinality(DOMAIN scenes) \in Nat
         /\ DOMAIN scenes \subseteq Nat
         /\ \A s \in DOMAIN scenes : scenes[s] \in SceneStatus
<1>1. DOMAIN scenes \subseteq Scenes /\ \A s \in DOMAIN scenes : scenes[s] \in SceneStatus
  BY DEF Walks
<1> QED
  BY <1>1, ScenesAssumption, FS_Subset, FS_CardinalityType

LEMMA CountBounds ==
  ASSUME NEW scenes \in Walks, NEW statuses
  PROVE  /\ Count(scenes, statuses) \in Nat
         /\ Count(scenes, statuses) <= Cardinality(DOMAIN scenes)
         /\ Count(scenes, statuses) = 0 <=> \A s \in DOMAIN scenes : scenes[s] \notin statuses
<1> DEFINE C == {s \in DOMAIN scenes : scenes[s] \in statuses}
<1>1. IsFiniteSet(DOMAIN scenes) /\ C \in SUBSET DOMAIN scenes
  BY ScenesFinite
<1>2. IsFiniteSet(C) /\ Cardinality(C) <= Cardinality(DOMAIN scenes)
  BY <1>1, FS_Subset
<1>3. Cardinality(C) \in Nat
  BY <1>2, FS_CardinalityType
<1>4. Cardinality(C) = 0 <=> C = {}
  BY <1>2, FS_EmptySet
<1>5. C = {} <=> \A s \in DOMAIN scenes : scenes[s] \notin statuses
  OBVIOUS
<1> QED
  BY <1>2, <1>3, <1>4, <1>5 DEF Count

LEMMA CountOfAll ==
  ASSUME NEW scenes, NEW statuses, \A s \in DOMAIN scenes : scenes[s] \in statuses
  PROVE  Count(scenes, statuses) = Cardinality(DOMAIN scenes)
<1>1. {s \in DOMAIN scenes : scenes[s] \in statuses} = DOMAIN scenes
  OBVIOUS
<1> QED
  BY <1>1 DEF Count

LEMMA OutcomeType ==
  ASSUME NEW scenes
  PROVE  OutcomeOf(scenes) \in Outcome
BY DEF OutcomeOf, Outcome

LEMMA NoneFailedIsCount ==
  ASSUME NEW scenes \in Walks
  PROVE  Count(scenes, {"FAILED"}) = 0 <=> NoneFailed(scenes)
BY CountBounds DEF NoneFailed

\* One scene of a walk gets another status.
LEMMA SceneWritten ==
  ASSUME NEW scenes \in Walks, NEW s \in DOMAIN scenes, NEW status \in SceneStatus,
         NEW written, written = [scenes EXCEPT ![s] = status]
  PROVE  /\ written \in Walks
         /\ DOMAIN written = DOMAIN scenes
         /\ written[s] = status
         /\ \A t \in DOMAIN scenes \ {s} : written[t] = scenes[t]
<1>1. PICK S \in SUBSET Scenes : scenes \in [S -> SceneStatus]
  BY DEF Walks
<1>2. written \in [S -> SceneStatus]
  BY <1>1
<1> QED
  BY <1>1, <1>2 DEF Walks
-----------------------------------------------------------------------------
(* What a step must respect *)

LEMMA RunTyped ==
  ASSUME Types, NEW r \in RunIds
  PROVE  runs[r] \in Rows /\ runs[r].scenes \in Walks
<1>1. RunIds = 1..Len(runs) /\ runs \in Seq(Rows)
  BY DEF RunIds, Types
<1>2. runs[r] \in Rows
  BY <1>1
<1> QED
  BY <1>2 DEF Rows

LEMMA RunWritten ==
  ASSUME Types, NEW r \in RunIds, NEW row \in Rows, runs' = [runs EXCEPT ![r] = row]
  PROVE  /\ runs' \in Seq(Rows)
         /\ RunIds' = RunIds
         /\ Len(runs') = Len(runs)
         /\ runs'[r] = row
         /\ \A q \in RunIds : q # r => runs'[q] = runs[q]
<1>1. RunIds = 1..Len(runs) /\ runs \in Seq(Rows)
  BY DEF RunIds, Types
<1>2. /\ runs' \in Seq(Rows)
      /\ Len(runs') = Len(runs)
      /\ \A q \in 1..Len(runs) : runs'[q] = IF q = r THEN row ELSE runs[q]
  BY <1>1, ExceptSeq
<1> QED
  BY <1>1, <1>2 DEF RunIds

\* The bookkeeping of undisturbed runs after a step that writes one row.
LEMMA OnceKeeps ==
  ASSUME IInv, NEW r \in RunIds, NEW row \in Rows, runs' = [runs EXCEPT ![r] = row],
         request' = request, faults' = 0 => faults = 0,
         faults' = 0 /\ row.tries = 0 /\ NoneFailed(row.scenes) =>
           /\ runs[r].tries = 0 /\ NoneFailed(runs[r].scenes)
           /\ InProgress(row) => InProgress(runs[r])
  PROVE  OnceInv'
<1> SUFFICES ASSUME Undisturbed'
             PROVE  /\ request' = NoRequest
                    /\ \A p, q \in RunIds' : Active(p)' /\ Active(q)' => p = q
  BY DEF OnceInv
<1>1. /\ RunIds' = RunIds /\ runs'[r] = row
      /\ \A q \in RunIds : q # r => runs'[q] = runs[q]
  BY RunWritten DEF IInv
<1>2. Undisturbed
  BY <1>1 DEF Undisturbed
<1>3. request = NoRequest /\ \A p, q \in RunIds : Active(p) /\ Active(q) => p = q
  BY <1>2 DEF IInv, OnceInv
<1>4. \A q \in RunIds : Active(q)' => Active(q)
  <2> SUFFICES ASSUME NEW q \in RunIds, Active(q)' PROVE Active(q)
    OBVIOUS
  <2>1. CASE q = r
    <3>1. faults' = 0 /\ row.tries = 0 /\ NoneFailed(row.scenes)
      BY <1>1 DEF Undisturbed
    <3> QED
      BY <1>1, <2>1, <3>1 DEF Active, InProgress
  <2>2. CASE q # r
    BY <1>1, <2>2 DEF Active
  <2> QED
    BY <2>1, <2>2
<1> QED
  BY <1>1, <1>3, <1>4

\* A step of a worker w on its run r: what it writes into the row and what it holds after.
LEMMA WorkerKeeps ==
  ASSUME IInv, NEW w \in Workers, NEW r \in RunIds, NEW row \in Rows, NEW me \in Jobs,
         runs' = [runs EXCEPT ![r] = row], worker' = [worker EXCEPT ![w] = me],
         dirty' \subseteq Scenes, live' = live, request' = request,
         redelivered' = redelivered, faults' \in 0..FaultBudget, faults <= faults',
         worker[w] = Idle \/ worker[w].run = r,
         ~redelivered => runs[r].holder \in {NoWorker, w},
         DOMAIN row.scenes = DOMAIN runs[r].scenes,
         RowOK(row), ~redelivered => SettledOK(row), faults' = 0 => FirstOK(row),
         row.holder \in {NoWorker, runs[r].holder, w},
         runs[r].holder = w \/ row.holder = w => row.holder = NoWorker \/ me # Idle,
         me # Idle => /\ me.run = r /\ InWalk(me, row)
                      /\ faults' = 0 /\ row.tries = 0 => FirstWalk(me, row)
                      /\ ~redelivered => row.holder = w /\ Kept(me, row),
         faults' = 0 /\ row.tries = 0 /\ NoneFailed(row.scenes) =>
           /\ runs[r].tries = 0 /\ NoneFailed(runs[r].scenes)
           /\ InProgress(row) => InProgress(runs[r])
  PROVE  IInv'
<1>0. NoWorker # w
  BY NoWorkerAssumption
<1>1. /\ runs' \in Seq(Rows) /\ RunIds' = RunIds /\ runs'[r] = row
      /\ \A q \in RunIds : q # r => runs'[q] = runs[q]
  BY RunWritten DEF IInv
<1>2. /\ worker' \in [Workers -> Jobs] /\ worker'[w] = me
      /\ \A v \in Workers : v # w => worker'[v] = worker[v]
  BY DEF IInv, Types
<1>3. faults \in Nat /\ faults' \in Nat /\ (faults' = 0 => faults = 0)
  BY BoundsAssumption DEF IInv, Types
<1>4. Types'
  BY <1>1, <1>2 DEF IInv, Types
<1>5. RowsInv'
  BY <1>1, <1>3 DEF IInv, RowsInv
<1>6. WorkersInv'
  <2> SUFFICES ASSUME NEW v \in Workers, worker'[v] # Idle
               PROVE  OnRun(worker[v])' /\ (~redelivered => /\ runs'[worker'[v].run].holder = v
                                              /\ Kept(worker'[v], runs'[worker'[v].run]))
    BY DEF WorkersInv
  <2>1. CASE v = w
    BY <1>1, <1>2, <2>1 DEF OnRun
  <2>2. CASE v # w
    <3>1. worker'[v] = worker[v] /\ OnRun(worker[v])
          /\ (~redelivered => /\ runs[worker[v].run].holder = v
                              /\ Kept(worker[v], runs[worker[v].run]))
      BY <1>2, <2>2 DEF IInv, WorkersInv
    <3>2. CASE worker[v].run # r
      BY <1>1, <1>3, <3>1, <3>2 DEF OnRun
    <3>3. CASE worker[v].run = r
      \* Two workers on one run: a job was delivered twice.
      <4>1. redelivered
        BY <2>2, <3>1, <3>3, NoWorkerAssumption
      <4>2. faults' # 0
        BY <1>3, <4>1 DEF IInv, FaultInv, Types
      <4>3. InWalk(worker[v], row)
        BY <3>1, <3>3 DEF OnRun, InWalk
      <4> QED
        BY <1>1, <3>1, <3>3, <4>1, <4>2, <4>3 DEF OnRun
    <3> QED
      BY <3>2, <3>3
  <2> QED
    BY <2>1, <2>2
<1>7. LockInv'
  <2> SUFFICES ASSUME NEW q \in RunIds, runs'[q].holder # NoWorker
               PROVE  /\ worker'[runs'[q].holder] # Idle
                      /\ worker'[runs'[q].holder].run = q
    BY <1>1 DEF LockInv
  <2>1. CASE q # r
    <3>1. /\ runs'[q] = runs[q] /\ worker[runs[q].holder] # Idle
          /\ worker[runs[q].holder].run = q
      BY <1>1, <2>1 DEF IInv, LockInv
    <3>2. runs[q].holder # w
      BY <2>1, <3>1
    <3>3. runs[q].holder \in Workers
      <4>1. runs[q] \in Rows
        BY DEF IInv, Types, RunIds
      <4> QED
        BY <1>1, <2>1, <4>1 DEF Rows
    <3> QED
      BY <1>2, <3>1, <3>2, <3>3
  <2>2. CASE q = r
    <3>1. runs'[q] = row /\ row.holder # NoWorker
      BY <1>1, <2>2
    <3>2. CASE row.holder = w
      BY <1>2, <2>2, <3>1, <3>2
    <3>3. CASE row.holder # w
      <4>1. row.holder = runs[r].holder /\ row.holder \in Workers
        BY <3>1, <3>3 DEF Rows
      <4>2. worker[row.holder] # Idle /\ worker[row.holder].run = r
        BY <3>1, <4>1 DEF IInv, LockInv
      <4> QED
        BY <1>2, <2>2, <3>1, <3>3, <4>1, <4>2
    <3> QED
      BY <3>2, <3>3
  <2> QED
    BY <2>1, <2>2
<1>8. FaultInv'
  BY <1>3 DEF IInv, FaultInv
<1>9. OnceInv'
  BY <1>3, OnceKeeps
<1> QED
  BY <1>4, <1>5, <1>6, <1>7, <1>8, <1>9 DEF IInv

\* A step of the queue or of the dispatcher on a run: no worker changes, and unless a job
\* is delivered twice by now nobody is on the run.
LEMMA QueueKeeps ==
  ASSUME IInv, NEW r \in RunIds, NEW row \in Rows,
         runs' = [runs EXCEPT ![r] = row], worker' = worker,
         dirty' \subseteq Scenes, live' = live, request' = request,
         redelivered' \in BOOLEAN, redelivered => redelivered', redelivered' => faults' > 0,
         faults' \in 0..FaultBudget, faults <= faults',
         ~redelivered' => SettledOK(row) /\ runs[r].holder = NoWorker,
         DOMAIN row.scenes = DOMAIN runs[r].scenes,
         RowOK(row), faults' = 0 => FirstOK(row),
         row.holder = NoWorker,
         faults' = 0 /\ row.tries = 0 /\ NoneFailed(row.scenes) =>
           /\ runs[r].tries = 0 /\ NoneFailed(runs[r].scenes)
           /\ InProgress(row) => InProgress(runs[r])
  PROVE  IInv'
<1>1. /\ runs' \in Seq(Rows) /\ RunIds' = RunIds /\ runs'[r] = row
      /\ \A q \in RunIds : q # r => runs'[q] = runs[q]
  BY RunWritten DEF IInv
<1>3. faults \in Nat /\ faults' \in Nat /\ (faults' = 0 => faults = 0)
  BY BoundsAssumption DEF IInv, Types
<1>4. Types'
  BY <1>1 DEF IInv, Types
<1>5. RowsInv'
  BY <1>1, <1>3 DEF IInv, RowsInv
<1>6. WorkersInv'
  <2> SUFFICES ASSUME NEW v \in Workers, worker[v] # Idle
               PROVE  OnRun(worker[v])' /\ (~redelivered' => /\ runs'[worker[v].run].holder = v
                                              /\ Kept(worker[v], runs'[worker[v].run]))
    BY DEF WorkersInv
  <2>1. OnRun(worker[v])
        /\ (~redelivered => /\ runs[worker[v].run].holder = v
                            /\ Kept(worker[v], runs[worker[v].run]))
    BY DEF IInv, WorkersInv
  <2>2. CASE worker[v].run # r
    BY <1>1, <1>3, <2>1, <2>2 DEF OnRun
  <2>3. CASE worker[v].run = r
    <3>1. redelivered'
      BY <2>1, <2>3, NoWorkerAssumption
    <3>2. faults' # 0
      BY <1>3, <3>1
    <3>3. InWalk(worker[v], row)
      BY <2>1, <2>3 DEF OnRun, InWalk
    <3> QED
      BY <1>1, <2>1, <2>3, <3>1, <3>2, <3>3 DEF OnRun
  <2> QED
    BY <2>2, <2>3
<1>7. LockInv'
  BY <1>1 DEF IInv, LockInv
<1>8. FaultInv'
  BY DEF FaultInv
<1>9. OnceInv'
  BY <1>3, OnceKeeps
<1> QED
  BY <1>4, <1>5, <1>6, <1>7, <1>8, <1>9 DEF IInv

\* Steps that write no run.
LEMMA OutsideKeeps ==
  ASSUME IInv, dirty' \subseteq Scenes, live' \subseteq Scenes,
         request' \in [run : {0} \cup RunIds, scenes : SUBSET Scenes],
         Undisturbed => request' = NoRequest,
         UNCHANGED <<runs, worker, faults, redelivered>>
  PROVE  IInv'
BY DEF IInv, Types, RowsInv, WorkersInv, OnRun, LockInv, FaultInv, OnceInv, Undisturbed, Active,
       RunIds
-----------------------------------------------------------------------------
LEMMA TypesHold == IInv => TypeOK
<1> SUFFICES ASSUME IInv PROVE TypeOK
  OBVIOUS
<1>1. ASSUME NEW r \in RunIds
      PROVE  /\ runs[r].status \in Outcome \cup {"QUEUED", "RUNNING"}
             /\ DOMAIN runs[r].scenes \in (SUBSET Scenes) \ {{}}
             /\ \A s \in DOMAIN runs[r].scenes : runs[r].scenes[s] \in SceneStatus
             /\ runs[r].processed \in 0..Cardinality(DOMAIN runs[r].scenes)
             /\ runs[r].failed \in 0..Cardinality(DOMAIN runs[r].scenes)
             /\ runs[r].settled \in BOOLEAN
             /\ runs[r].job \in JobStates
             /\ runs[r].tries \in 0..Attempts
             /\ runs[r].stalls \in Nat
             /\ runs[r].holder \in Workers \cup {NoWorker}
  <2>1. runs[r] \in Rows /\ RowOK(runs[r])
    BY RunTyped DEF IInv, RowsInv
  <2>2. runs[r].scenes \in Walks
    BY RunTyped DEF IInv
  <2>3. /\ DOMAIN runs[r].scenes \subseteq Scenes /\ Cardinality(DOMAIN runs[r].scenes) \in Nat
        /\ \A s \in DOMAIN runs[r].scenes : runs[r].scenes[s] \in SceneStatus
    BY <2>2, ScenesFinite
  <2>4. runs[r].processed \in Nat /\ runs[r].failed \in Nat
    BY <2>1 DEF Rows
  <2>5. /\ runs[r].processed \in 0..Cardinality(DOMAIN runs[r].scenes)
        /\ runs[r].failed \in 0..Cardinality(DOMAIN runs[r].scenes)
        /\ DOMAIN runs[r].scenes # {}
    BY <2>1, <2>3, <2>4 DEF RowOK
  <2>6. /\ runs[r].status \in Outcome \cup {"QUEUED", "RUNNING"}
        /\ runs[r].settled \in BOOLEAN
        /\ runs[r].job \in JobStates
        /\ runs[r].tries \in 0..Attempts
        /\ runs[r].stalls \in Nat
        /\ runs[r].holder \in Workers \cup {NoWorker}
    BY <2>1 DEF Rows
  <2>7. DOMAIN runs[r].scenes \in (SUBSET Scenes) \ {{}}
    BY <2>3, <2>5
  <2> QED
    BY <2>3, <2>5, <2>6, <2>7
<1>2. worker \in [Workers -> [pc : Phases, run : {0} \cup RunIds,
                              scene : {0} \cup Scenes, todo : SUBSET Scenes]]
  <2> SUFFICES ASSUME NEW w \in Workers PROVE worker[w].run \in {0} \cup RunIds
    BY DEF IInv, Types, Jobs
  <2>1. CASE worker[w] = Idle
    BY <2>1 DEF Idle
  <2>2. CASE worker[w] # Idle
    BY <2>2 DEF IInv, WorkersInv, OnRun
  <2> QED
    BY <2>1, <2>2
<1> QED
  BY <1>1, <1>2 DEF IInv, Types, TypeOK

LEMMA OnceHolds == IInv => OneActiveRunUnlessRepeated
<1> SUFFICES ASSUME IInv, faults = 0,
                    \A r \in RunIds : runs[r].tries = 0 /\ Count(runs[r].scenes, {"FAILED"}) = 0
             PROVE  Cardinality({r \in RunIds : Active(r)}) <= 1
  BY DEF OneActiveRunUnlessRepeated
<1> DEFINE A == {r \in RunIds : Active(r)}
<1>1. \A r \in RunIds : runs[r].scenes \in Walks
  BY RunTyped DEF IInv
<1>2. Undisturbed
  BY <1>1, NoneFailedIsCount DEF Undisturbed
<1>3. \A r, q \in A : r = q
  BY <1>2 DEF IInv, OnceInv
<1>4. CASE A = {}
  BY <1>4, FS_EmptySet
<1>5. CASE A # {}
  <2>1. \E r : A = {r}
    <3>1. PICK r \in A : TRUE
      BY <1>5
    <3>2. A = {r}
      BY <1>3, <3>1
    <3> QED
      BY <3>2
  <2>2. PICK r : A = {r}
    BY <2>1
  <2>3. Cardinality({r}) = 1
    BY FS_Singleton
  <2> QED
    BY <2>2, <2>3
<1> QED
  BY <1>4, <1>5

LEMMA SoundHolds == IInv => RunsAreSound
<1> SUFFICES ASSUME IInv PROVE RunsAreSound
  OBVIOUS
<1>1. ActiveRunHasWork
  <2> SUFFICES ASSUME ~redelivered, NEW r \in RunIds, Active(r)
               PROVE  /\ ~runs[r].settled /\ runs[r].job # "gone"
                      /\ Stranded(r) => runs[r].stalls > MaxStalledCount
    BY DEF ActiveRunHasWork
  <2>1. RowOK(runs[r]) /\ SettledOK(runs[r]) /\ runs[r].tries \in Nat
    BY RunTyped, BoundsAssumption DEF IInv, RowsInv, Rows
  <2>2. ~runs[r].settled
    BY <2>1 DEF SettledOK, Active, Outcome
  <2> QED
    BY <2>1, <2>2, BoundsAssumption DEF RowOK, Stranded
<1>2. SettledRunAddsUp
  BY DEF IInv, RowsInv, SettledOK, AddsUp, SettledRunAddsUp, Finished
<1> QED
  BY <1>1, <1>2, TypesHold, OnceHolds DEF RunsAreSound
-----------------------------------------------------------------------------
LEMMA InitEstablishes == Init => IInv
<1> SUFFICES ASSUME Init PROVE IInv
  OBVIOUS
<1>1. runs \in Seq(Rows) /\ RunIds = {}
  BY DEF Init, RunIds
<1>2. Idle \in Jobs
  BY DEF Idle, Jobs, Phases
<1>3. NoRequest \in [run : {0} \cup RunIds, scenes : SUBSET Scenes]
  BY DEF NoRequest
<1>4. Types
  <2>1. worker \in [Workers -> Jobs]
    BY <1>2 DEF Init
  <2>2. faults \in 0..FaultBudget
    BY BoundsAssumption DEF Init
  <2>3. dirty \subseteq Scenes /\ live \subseteq Scenes /\ redelivered \in BOOLEAN
    BY DEF Init
  <2>4. request \in [run : {0} \cup RunIds, scenes : SUBSET Scenes]
    BY <1>3 DEF Init
  <2> QED
    BY <1>1, <2>1, <2>2, <2>3, <2>4 DEF Types
<1> QED
  BY <1>1, <1>4 DEF Init, IInv, RowsInv, WorkersInv, LockInv, FaultInv, OnceInv, Undisturbed

(* The author *)

\* A run is created with its event: nothing was done of it.
LEMMA CreatePreserves ==
  ASSUME IInv, NEW scenes \in SUBSET Scenes, CreateRun(scenes),
         request' \in [run : {0} \cup RunIds, scenes : SUBSET Scenes],
         Undisturbed => request' = NoRequest /\ \A r \in RunIds : ~Active(r)
  PROVE  IInv'
<1> DEFINE row == NewRun(scenes)
           n == Len(runs) + 1
<1>1. row \in Rows /\ row.scenes \in Walks /\ DOMAIN row.scenes = scenes
  <2>1. [s \in scenes |-> "QUEUED"] \in [scenes -> SceneStatus]
    BY DEF SceneStatus
  <2>2. [s \in scenes |-> "QUEUED"] \in Walks
    BY <2>1 DEF Walks
  <2> QED
    BY <2>2, BoundsAssumption DEF NewRun, Rows, JobStates
<1>2. RunIds = 1..Len(runs) /\ runs \in Seq(Rows) /\ Len(runs) \in Nat
  BY DEF IInv, Types, RunIds
<1>3. runs' = Append(runs, row) /\ UNCHANGED <<dirty, live, worker, faults, redelivered>> /\ scenes # {}
  BY DEF CreateRun
<1>4. /\ runs' \in Seq(Rows) /\ RunIds' = RunIds \cup {n} /\ n \notin RunIds
      /\ runs'[n] = row /\ \A r \in RunIds : runs'[r] = runs[r]
  <2>1. /\ runs' \in Seq(Rows) /\ Len(runs') = n
        /\ \A r \in 1..Len(runs) : runs'[r] = runs[r]
        /\ runs'[n] = row
    BY <1>1, <1>2, <1>3, AppendProperties
  <2>2. RunIds' = 1..n
    BY <2>1 DEF RunIds
  <2> QED
    BY <1>2, <2>1, <2>2
<1>5. RowOK(row) /\ SettledOK(row) /\ FirstOK(row)
  <2>1. Cardinality(scenes) \in Nat
    BY <1>1, ScenesFinite
  <2> QED
    BY <1>1, <1>3, <2>1, BoundsAssumption DEF RowOK, SettledOK, FirstOK, NewRun
<1>6. Types'
  BY <1>3, <1>4 DEF IInv, Types
<1>7. RowsInv'
  BY <1>3, <1>4, <1>5 DEF IInv, RowsInv
<1>8. WorkersInv'
  BY <1>3, <1>4 DEF IInv, WorkersInv, OnRun
<1>9. LockInv'
  <2>1. row.holder = NoWorker
    BY DEF NewRun
  <2> QED
    BY <1>3, <1>4, <2>1 DEF IInv, LockInv
<1>10. FaultInv'
  BY <1>3 DEF IInv, FaultInv
<1>11. OnceInv'
  <2> SUFFICES ASSUME Undisturbed'
               PROVE  /\ request' = NoRequest
                      /\ \A r, q \in RunIds' : Active(r)' /\ Active(q)' => r = q
    BY DEF OnceInv
  <2>1. Undisturbed
    BY <1>3, <1>4 DEF Undisturbed
  <2>2. \A r \in RunIds : ~Active(r)'
    BY <1>4, <2>1 DEF Active
  <2> QED
    BY <1>4, <2>1, <2>2
<1> QED
  BY <1>6, <1>7, <1>8, <1>9, <1>10, <1>11 DEF IInv

LEMMA AuthorPreserves ==
  ASSUME IInv,
         \/ \E s \in Scenes : Edit(s) \/ SoftDelete(s) \/ AnalysedElsewhere(s)
         \/ StartAnalysis \/ RetryFailed \/ RefuseRetry
         \/ \E r \in RunIds : ReadFailed(r)
  PROVE  IInv'
<1>0. /\ dirty \subseteq Scenes /\ live \subseteq Scenes
      /\ request \in [run : {0} \cup RunIds, scenes : SUBSET Scenes]
      /\ Undisturbed => request = NoRequest
      /\ NoRequest \in [run : {0} \cup RunIds, scenes : SUBSET Scenes]
  BY DEF IInv, Types, OnceInv, NoRequest
<1>1. ASSUME NEW s \in Scenes, Edit(s) \/ SoftDelete(s) \/ AnalysedElsewhere(s) PROVE IInv'
  BY <1>0, <1>1, OutsideKeeps DEF Edit, SoftDelete, AnalysedElsewhere
<1>2. CASE StartAnalysis
  BY <1>0, <1>2, CreatePreserves DEF StartAnalysis
<1>3. CASE RetryFailed
  BY <1>0, <1>3, CreatePreserves DEF RetryFailed
<1>4. CASE RefuseRetry
  BY <1>0, <1>4, OutsideKeeps DEF RefuseRetry
<1>5. ASSUME NEW r \in RunIds, ReadFailed(r) PROVE IInv'
  \* A run with a failed scene disturbs.
  <2> DEFINE failed == {s \in DOMAIN runs[r].scenes : runs[r].scenes[s] = "FAILED"}
  <2>1. /\ failed # {} /\ request' = [run |-> r, scenes |-> failed]
        /\ UNCHANGED <<dirty, live, runs, worker, faults, redelivered>>
    BY <1>5 DEF ReadFailed
  <2>2. failed \subseteq Scenes
    BY RunTyped, ScenesFinite DEF IInv
  <2>3. ~Undisturbed
    BY <2>1 DEF Undisturbed, NoneFailed
  <2> QED
    BY <1>0, <2>1, <2>2, <2>3, OutsideKeeps
<1> QED
  BY <1>1, <1>2, <1>3, <1>4, <1>5
-----------------------------------------------------------------------------
(* The worker *)

\* What is known of a worker that is on a run.
LEMMA AtWork ==
  ASSUME IInv, NEW w \in Workers, worker[w].pc # "idle"
  PROVE  LET me == worker[w]
             r == me.run
         IN /\ me # Idle /\ me \in Jobs /\ r \in RunIds
            /\ runs[r] \in Rows /\ runs[r].scenes \in Walks
            /\ InWalk(me, runs[r])
            /\ faults = 0 /\ runs[r].tries = 0 => FirstWalk(me, runs[r])
            /\ ~redelivered => runs[r].holder = w /\ Kept(me, runs[r])
            /\ RowOK(runs[r])
            /\ faults = 0 => FirstOK(runs[r]) /\ ~redelivered
            /\ ~redelivered => ~runs[r].settled /\ runs[r].job = "active"
<1>1. worker[w] # Idle /\ worker[w] \in Jobs
  BY DEF IInv, Types, Idle
<1>2. OnRun(worker[w]) /\ (~redelivered => /\ runs[worker[w].run].holder = w
                                          /\ Kept(worker[w], runs[worker[w].run]))
  BY <1>1 DEF IInv, WorkersInv
<1>3. /\ RowOK(runs[worker[w].run])
      /\ ~redelivered => SettledOK(runs[worker[w].run])
      /\ faults = 0 => FirstOK(runs[worker[w].run])
  BY <1>2 DEF OnRun, IInv, RowsInv
<1>4. ~redelivered => runs[worker[w].run].job = "active"
  BY <1>2, <1>3, NoWorkerAssumption DEF RowOK
<1>5. ~redelivered => ~runs[worker[w].run].settled
  BY <1>3, <1>4 DEF SettledOK
<1>6. faults = 0 => ~redelivered
  BY DEF IInv, FaultInv
<1> QED
  BY <1>1, <1>2, <1>3, <1>4, <1>5, <1>6, RunTyped DEF OnRun, IInv

\* A step of a worker within the walk: it holds the run before and after, and the row
\* keeps what the queue reads of it.
LEMMA WalkKeeps ==
  ASSUME IInv, NEW w \in Workers, worker[w].pc # "idle",
         NEW row \in Rows, NEW me \in Jobs, me.run = worker[w].run,
         runs' = [runs EXCEPT ![worker[w].run] = row], worker' = [worker EXCEPT ![w] = me],
         dirty' \subseteq Scenes, UNCHANGED <<live, request, faults, redelivered>>,
         DOMAIN row.scenes = DOMAIN runs[worker[w].run].scenes,
         row.processed <= Cardinality(DOMAIN row.scenes),
         row.failed <= Cardinality(DOMAIN row.scenes),
         row.settled = runs[worker[w].run].settled, row.job = runs[worker[w].run].job,
         row.tries = runs[worker[w].run].tries, row.holder = runs[worker[w].run].holder,
         row.stalls = runs[worker[w].run].stalls, InWalk(me, row), ~redelivered => Kept(me, row),
         faults = 0 /\ row.tries = 0 =>
           /\ FirstWalk(me, row)
           /\ NoneFailed(row.scenes) => NoneFailed(runs[worker[w].run].scenes)
           /\ InProgress(row) => InProgress(runs[worker[w].run])
  PROVE  IInv'
<1> DEFINE r == worker[w].run
<1>1. /\ worker[w] # Idle /\ r \in RunIds /\ RowOK(runs[r])
      /\ ~redelivered => runs[r].holder = w /\ ~runs[r].settled /\ runs[r].job = "active"
      /\ faults = 0 => ~redelivered
  BY AtWork
<1>2. RowOK(row)
  BY <1>1 DEF RowOK
<1>3. ~redelivered => SettledOK(row)
  BY <1>1 DEF SettledOK
<1>4. faults = 0 => FirstOK(row)
  BY <1>1 DEF FirstOK
<1>5. me # Idle
  BY DEF InWalk, Idle
<1>6. faults \in 0..FaultBudget /\ faults <= faults /\ live \subseteq Scenes
  BY BoundsAssumption DEF IInv, Types
<1> QED
  BY <1>1, <1>2, <1>3, <1>4, <1>5, <1>6, WorkerKeeps

LEMMA TakePreserves ==
  ASSUME IInv, NEW w \in Workers, NEW r \in RunIds, Take(w, r)
  PROVE  IInv'
<1> DEFINE row == [runs[r] EXCEPT !.job = "active", !.holder = w, !.status = "RUNNING"]
           me == [Idle EXCEPT !.pc = "scene", !.run = r, !.todo = DOMAIN runs[r].scenes]
<1>1. /\ worker[w].pc = "idle" /\ runs[r].job = "waiting"
      /\ runs' = [runs EXCEPT ![r] = row] /\ worker' = [worker EXCEPT ![w] = me]
      /\ UNCHANGED <<dirty, live, request, faults, redelivered>>
  BY DEF Take, At
<1>2. /\ runs[r] \in Rows /\ runs[r].scenes \in Walks /\ RowOK(runs[r])
      /\ ~redelivered => SettledOK(runs[r])
      /\ faults = 0 => FirstOK(runs[r])
  BY RunTyped DEF IInv, RowsInv
<1>3. worker[w] = Idle
  <2>1. CASE worker[w] # Idle
    BY <1>1, <2>1 DEF IInv, WorkersInv, OnRun, InWalk
  <2> QED
    BY <2>1
<1>4. /\ row \in Rows /\ row.scenes = runs[r].scenes /\ row.job = "active" /\ row.holder = w
      /\ row.status = "RUNNING" /\ row.tries = runs[r].tries /\ row.settled = runs[r].settled
      /\ row.processed = runs[r].processed /\ row.failed = runs[r].failed
  BY <1>2 DEF Rows, JobStates
<1>5. /\ me \in Jobs /\ me.pc = "scene" /\ me.run = r /\ me.todo = DOMAIN runs[r].scenes
      /\ me # Idle
  <2>1. r \in Nat
    BY DEF RunIds, IInv, Types
  <2>2. DOMAIN runs[r].scenes \subseteq Scenes
    BY <1>2, ScenesFinite
  <2> QED
    BY <2>1, <2>2 DEF Idle, Jobs, Phases
<1>6. runs[r].holder = NoWorker /\ RowOK(row)
  BY <1>1, <1>2, <1>4, NoWorkerAssumption DEF RowOK
<1>7. ~redelivered => SettledOK(row)
  BY <1>1, <1>2, <1>4 DEF SettledOK
<1>8. FirstOK(row)
  BY <1>4 DEF FirstOK
<1>9. InWalk(me, row) /\ Kept(me, row)
  BY <1>4, <1>5 DEF InWalk, Kept
<1>10. faults = 0 /\ row.tries = 0 => FirstWalk(me, row) /\ runs[r].status = "QUEUED"
  BY <1>1, <1>2, <1>4, <1>5 DEF FirstOK, FirstWalk
<1>11. faults \in 0..FaultBudget /\ faults <= faults /\ dirty \subseteq Scenes /\ live \subseteq Scenes
  BY BoundsAssumption DEF IInv, Types
<1> QED
  BY <1>1, <1>3, <1>4, <1>5, <1>6, <1>7, <1>8, <1>9, <1>10, <1>11, WorkerKeeps DEF InProgress

LEMMA BeginScenePreserves ==
  ASSUME IInv, NEW w \in Workers, NEW s \in Scenes, BeginScene(w, s)
  PROVE  IInv'
<1> DEFINE r == worker[w].run
           scenes == [runs[r].scenes EXCEPT ![s] = "RUNNING"]
           row == [runs[r] EXCEPT !.scenes = scenes]
           me == [worker[w] EXCEPT !.pc = "analysing", !.scene = s, !.todo = worker[w].todo \ {s}]
<1>1. /\ worker[w].pc = "scene" /\ s \in worker[w].todo
      /\ UNCHANGED <<dirty, live, request, faults, redelivered>>
  BY DEF BeginScene, At
<1>2. /\ runs' = [runs EXCEPT ![r] = row]
      /\ worker' = [worker EXCEPT ![w] = me]
  BY DEF BeginScene, Run
<1>3. /\ worker[w] \in Jobs /\ r \in RunIds /\ runs[r] \in Rows /\ runs[r].scenes \in Walks
      /\ InWalk(worker[w], runs[r]) /\ RowOK(runs[r])
      /\ faults = 0 /\ runs[r].tries = 0 => FirstWalk(worker[w], runs[r])
      /\ ~redelivered => Kept(worker[w], runs[r])
  BY <1>1, AtWork
<1>4. s \in DOMAIN runs[r].scenes
  BY <1>1, <1>3 DEF InWalk
<1>5. /\ scenes \in Walks /\ DOMAIN scenes = DOMAIN runs[r].scenes /\ scenes[s] = "RUNNING"
      /\ \A t \in DOMAIN scenes \ {s} : scenes[t] = runs[r].scenes[t]
  <2>1. "RUNNING" \in SceneStatus
    BY DEF SceneStatus
  <2> HIDE DEF scenes
  <2>2. scenes = [runs[r].scenes EXCEPT ![s] = "RUNNING"]
    BY DEF scenes
  <2> QED
    BY <1>3, <1>4, <2>1, <2>2, SceneWritten
<1> HIDE DEF scenes
<1>6. /\ row \in Rows /\ row.scenes = scenes /\ row.job = runs[r].job /\ row.holder = runs[r].holder
      /\ row.status = runs[r].status /\ row.tries = runs[r].tries
      /\ row.stalls = runs[r].stalls
      /\ row.settled = runs[r].settled /\ row.processed = runs[r].processed
      /\ row.failed = runs[r].failed
  BY <1>3, <1>5 DEF Rows
<1>7. /\ me \in Jobs /\ me.pc = "analysing" /\ me.run = r /\ me.scene = s
      /\ me.todo = worker[w].todo \ {s}
  BY <1>3 DEF Jobs, Phases
<1> HIDE DEF row, me
<1>8. row.processed <= Cardinality(DOMAIN scenes) /\ row.failed <= Cardinality(DOMAIN scenes)
  BY <1>3, <1>5, <1>6 DEF RowOK
<1>9. InWalk(me, row)
  BY <1>1, <1>3, <1>5, <1>6, <1>7 DEF InWalk
<1>10. ~redelivered => Kept(me, row)
  BY <1>1, <1>3, <1>5, <1>6, <1>7 DEF Kept
<1>11. faults = 0 /\ row.tries = 0 =>
         FirstWalk(me, row) /\ (NoneFailed(scenes) => NoneFailed(runs[r].scenes))
  <2> SUFFICES ASSUME faults = 0, runs[r].tries = 0
               PROVE  FirstWalk(me, row) /\ (NoneFailed(scenes) => NoneFailed(runs[r].scenes))
    BY <1>6
  <2>1. \A t \in worker[w].todo : runs[r].scenes[t] = "QUEUED" /\ t \in DOMAIN scenes
    BY <1>3, <1>5 DEF FirstWalk, InWalk
  <2>2. FirstWalk(me, row)
    BY <1>5, <1>6, <1>7, <2>1 DEF FirstWalk
  <2>3. runs[r].scenes[s] # "FAILED"
    BY <1>1, <2>1
  <2>4. NoneFailed(scenes) => NoneFailed(runs[r].scenes)
    BY <1>5, <2>3 DEF NoneFailed
  <2> QED
    BY <2>2, <2>4
<1>12. dirty' \subseteq Scenes
  BY <1>1 DEF IInv, Types
<1> QED
  BY <1>1, <1>2, <1>5, <1>6, <1>7, <1>8, <1>9, <1>10, <1>11, <1>12, WalkKeeps DEF InProgress

\* FailScene and FinishScene write how the scene in hand ended.
LEMMA SceneEnds ==
  ASSUME IInv, NEW w \in Workers, worker[w].pc \in {"analysing", "analysed"},
         NEW status \in Finished, SetScene(w, status), GoTo(w, "progress"),
         dirty' \subseteq Scenes, UNCHANGED <<live, request, faults, redelivered>>
  PROVE  IInv'
<1> DEFINE r == worker[w].run
           s == worker[w].scene
           scenes == [runs[r].scenes EXCEPT ![s] = status]
           row == [runs[r] EXCEPT !.scenes = scenes]
           me == [worker[w] EXCEPT !.pc = "progress"]
<1>2. /\ runs' = [runs EXCEPT ![r] = row]
      /\ worker' = [worker EXCEPT ![w] = me]
  BY DEF SetScene, GoTo, Run, Scene
<1>3. /\ worker[w] \in Jobs /\ r \in RunIds /\ runs[r] \in Rows /\ runs[r].scenes \in Walks
      /\ InWalk(worker[w], runs[r]) /\ RowOK(runs[r])
      /\ faults = 0 /\ runs[r].tries = 0 => FirstWalk(worker[w], runs[r])
      /\ ~redelivered => Kept(worker[w], runs[r])
  BY AtWork
<1>4. s \in DOMAIN runs[r].scenes \ worker[w].todo
  BY <1>3 DEF InWalk
<1>5. /\ scenes \in Walks /\ DOMAIN scenes = DOMAIN runs[r].scenes /\ scenes[s] = status
      /\ \A t \in DOMAIN scenes \ {s} : scenes[t] = runs[r].scenes[t]
  <2>1. status \in SceneStatus
    BY DEF SceneStatus, Finished
  <2> HIDE DEF scenes
  <2>2. scenes = [runs[r].scenes EXCEPT ![s] = status]
    BY DEF scenes
  <2> QED
    BY <1>3, <1>4, <2>1, <2>2, SceneWritten
<1> HIDE DEF scenes
<1>6. /\ row \in Rows /\ row.scenes = scenes /\ row.job = runs[r].job /\ row.holder = runs[r].holder
      /\ row.status = runs[r].status /\ row.tries = runs[r].tries
      /\ row.stalls = runs[r].stalls
      /\ row.settled = runs[r].settled /\ row.processed = runs[r].processed
      /\ row.failed = runs[r].failed
  BY <1>3, <1>5 DEF Rows
<1>7. /\ me \in Jobs /\ me.pc = "progress" /\ me.run = r /\ me.scene = s
      /\ me.todo = worker[w].todo
  BY <1>3 DEF Jobs, Phases
<1> HIDE DEF row, me
<1>8. row.processed <= Cardinality(DOMAIN scenes) /\ row.failed <= Cardinality(DOMAIN scenes)
  BY <1>3, <1>5, <1>6 DEF RowOK
<1>9. InWalk(me, row)
  BY <1>3, <1>4, <1>5, <1>6, <1>7 DEF InWalk
<1>10. ~redelivered => Kept(me, row)
  BY <1>3, <1>5, <1>6, <1>7 DEF Kept
<1>11. faults = 0 /\ row.tries = 0 =>
         FirstWalk(me, row) /\ (NoneFailed(scenes) => NoneFailed(runs[r].scenes))
  <2> SUFFICES ASSUME faults = 0, runs[r].tries = 0
               PROVE  FirstWalk(me, row) /\ (NoneFailed(scenes) => NoneFailed(runs[r].scenes))
    BY <1>6
  <2>1. /\ \A t \in worker[w].todo : runs[r].scenes[t] = "QUEUED" /\ t # s /\ t \in DOMAIN scenes
        /\ runs[r].scenes[s] = "RUNNING"
    BY <1>3, <1>4, <1>5 DEF FirstWalk, InWalk
  <2> QED
    BY <1>5, <1>6, <1>7, <2>1 DEF FirstWalk, NoneFailed
<1> QED
  BY <1>2, <1>5, <1>6, <1>7, <1>8, <1>9, <1>10, <1>11, WalkKeeps DEF InProgress

LEMMA AnalysisPreserves ==
  ASSUME IInv, NEW w \in Workers, Analyse(w) \/ FailScene(w) \/ FinishScene(w)
  PROVE  IInv'
<1>0. dirty \subseteq Scenes
  BY DEF IInv, Types
<1>1. CASE Analyse(w)
  <2> DEFINE r == worker[w].run
             me == [worker[w] EXCEPT !.pc = "analysed"]
  <2>1. /\ worker[w].pc = "analysing" /\ worker' = [worker EXCEPT ![w] = me]
        /\ dirty' \subseteq Scenes /\ UNCHANGED <<live, runs, request, faults, redelivered>>
    BY <1>0, <1>1 DEF Analyse, At, GoTo
  <2>2. /\ worker[w] \in Jobs /\ r \in RunIds /\ runs[r] \in Rows
        /\ InWalk(worker[w], runs[r]) /\ RowOK(runs[r])
        /\ faults = 0 /\ runs[r].tries = 0 => FirstWalk(worker[w], runs[r])
        /\ ~redelivered => Kept(worker[w], runs[r])
    BY <2>1, AtWork
  <2>3. runs' = [runs EXCEPT ![r] = runs[r]]
    BY <2>1, <2>2 DEF IInv, Types
  <2>4. /\ me \in Jobs /\ me.pc = "analysed" /\ me.run = r /\ me.scene = worker[w].scene
        /\ me.todo = worker[w].todo
    BY <2>2 DEF Jobs, Phases
  <2> HIDE DEF me
  <2>5. InWalk(me, runs[r])
    BY <2>1, <2>2, <2>4 DEF InWalk
  <2>6. ~redelivered => Kept(me, runs[r])
    BY <2>1, <2>2, <2>4 DEF Kept
  <2>7. faults = 0 /\ runs[r].tries = 0 => FirstWalk(me, runs[r])
    BY <2>1, <2>2, <2>4 DEF FirstWalk
  <2>8. /\ runs[r].processed <= Cardinality(DOMAIN runs[r].scenes)
        /\ runs[r].failed <= Cardinality(DOMAIN runs[r].scenes)
    BY <2>2 DEF RowOK
  <2> QED
    BY <2>1, <2>2, <2>3, <2>4, <2>5, <2>6, <2>7, <2>8, WalkKeeps
<1>2. CASE FailScene(w)
  <2>1. dirty' \subseteq Scenes
    BY <1>0, <1>2 DEF FailScene
  <2> QED
    BY <1>2, <2>1, SceneEnds DEF FailScene, At, Finished
<1>3. CASE FinishScene(w)
  BY <1>0, <1>3, SceneEnds DEF FinishScene, At, Finished
<1> QED
  BY <1>1, <1>2, <1>3

LEMMA ProgressPreserves ==
  ASSUME IInv, NEW w \in Workers, Progress(w)
  PROVE  IInv'
<1> DEFINE r == worker[w].run
           p == Count(runs[r].scenes, {"SUCCEEDED", "FAILED"})
           f == Count(runs[r].scenes, {"FAILED"})
           row == [runs[r] EXCEPT !.processed = p, !.failed = f]
           me == [worker[w] EXCEPT !.pc = "scene"]
<1>1. /\ worker[w].pc = "progress" /\ UNCHANGED <<dirty, live, request, faults, redelivered>>
  BY DEF Progress, At
<1>2. /\ runs' = [runs EXCEPT ![r] = row] /\ worker' = [worker EXCEPT ![w] = me]
  BY DEF Progress, GoTo, Run, SceneRows
<1>3. /\ worker[w] \in Jobs /\ r \in RunIds /\ runs[r] \in Rows /\ runs[r].scenes \in Walks
      /\ InWalk(worker[w], runs[r]) /\ RowOK(runs[r])
      /\ faults = 0 /\ runs[r].tries = 0 => FirstWalk(worker[w], runs[r])
      /\ ~redelivered => Kept(worker[w], runs[r])
  BY <1>1, AtWork
<1>4. /\ p \in Nat /\ p <= Cardinality(DOMAIN runs[r].scenes)
      /\ f \in Nat /\ f <= Cardinality(DOMAIN runs[r].scenes)
  BY <1>3, CountBounds
<1> HIDE DEF p, f
<1>5. /\ row \in Rows /\ row.scenes = runs[r].scenes /\ row.job = runs[r].job
      /\ row.holder = runs[r].holder /\ row.status = runs[r].status /\ row.tries = runs[r].tries
      /\ row.stalls = runs[r].stalls
      /\ row.settled = runs[r].settled /\ row.processed = p /\ row.failed = f
  BY <1>3, <1>4 DEF Rows
<1>6. /\ me \in Jobs /\ me.pc = "scene" /\ me.run = r /\ me.todo = worker[w].todo
  BY <1>3 DEF Jobs, Phases
<1> HIDE DEF row, me
<1>7. InWalk(me, row)
  BY <1>3, <1>5, <1>6 DEF InWalk
<1>8. ~redelivered => Kept(me, row)
  BY <1>1, <1>3, <1>5, <1>6 DEF Kept, Finished, p
<1>9. faults = 0 /\ row.tries = 0 => FirstWalk(me, row)
  BY <1>3, <1>5, <1>6 DEF FirstWalk
<1>10. dirty' \subseteq Scenes
  BY <1>1 DEF IInv, Types
<1>11. row.processed <= Cardinality(DOMAIN row.scenes) /\ row.failed <= Cardinality(DOMAIN row.scenes)
  BY <1>4, <1>5
<1>12. worker[w].pc # "idle" /\ (InProgress(row) => InProgress(runs[r]))
  BY <1>1, <1>5 DEF InProgress
<1> QED
  BY <1>1, <1>2, <1>5, <1>6, <1>7, <1>8, <1>9, <1>10, <1>11, <1>12, WalkKeeps

\* The walk is over: every scene is finished, and the counter of the last progress holds.
LEMMA CompletePreserves ==
  ASSUME IInv, NEW w \in Workers, Complete(w)
  PROVE  IInv'
<1> DEFINE r == worker[w].run
           o == OutcomeOf(runs[r].scenes)
           f == Count(runs[r].scenes, {"FAILED"})
           row == [runs[r] EXCEPT !.status = o, !.failed = f]
           me == [worker[w] EXCEPT !.pc = "audit"]
<1>1. /\ worker[w].pc = "scene" /\ worker[w].todo = {}
      /\ UNCHANGED <<dirty, live, request, faults, redelivered>>
  BY DEF Complete, At
<1>2. /\ runs' = [runs EXCEPT ![r] = row] /\ worker' = [worker EXCEPT ![w] = me]
  BY DEF Complete, GoTo, Run, SceneRows
<1>3. /\ worker[w] \in Jobs /\ r \in RunIds /\ runs[r] \in Rows /\ runs[r].scenes \in Walks
      /\ InWalk(worker[w], runs[r]) /\ RowOK(runs[r])
      /\ ~redelivered => Kept(worker[w], runs[r])
  BY <1>1, AtWork
<1>4. /\ f \in Nat /\ f <= Cardinality(DOMAIN runs[r].scenes)
      /\ o \in Outcome
  BY <1>3, CountBounds, OutcomeType
<1> HIDE DEF f, o
<1>5. /\ row \in Rows /\ row.scenes = runs[r].scenes /\ row.job = runs[r].job
      /\ row.holder = runs[r].holder /\ row.status = o /\ row.tries = runs[r].tries
      /\ row.stalls = runs[r].stalls
      /\ row.settled = runs[r].settled /\ row.processed = runs[r].processed /\ row.failed = f
  BY <1>3, <1>4 DEF Rows
<1>6. /\ me \in Jobs /\ me.pc = "audit" /\ me.run = r /\ me.todo = {}
  BY <1>1, <1>3 DEF Jobs, Phases
<1> HIDE DEF row, me
<1>7. InWalk(me, row)
  BY <1>3, <1>5, <1>6 DEF InWalk
<1>8. ~redelivered => AddsUp(row)
  <2> SUFFICES ASSUME ~redelivered PROVE AddsUp(row)
    OBVIOUS
  <2>1. \A s \in DOMAIN runs[r].scenes : runs[r].scenes[s] \in Finished
    BY <1>1, <1>3 DEF Kept
  <2>2. runs[r].processed = Count(runs[r].scenes, Finished)
    BY <1>1, <1>3 DEF Kept, RowOK
  <2>3. Count(runs[r].scenes, Finished) = Cardinality(DOMAIN runs[r].scenes)
    BY <2>1, CountOfAll
  <2> QED
    BY <1>5, <2>1, <2>2, <2>3 DEF AddsUp, f, o
<1>9. ~redelivered => Kept(me, row)
  BY <1>6, <1>8 DEF Kept
<1>10. FirstWalk(me, row)
  BY <1>6 DEF FirstWalk
<1>11. dirty' \subseteq Scenes
  BY <1>1 DEF IInv, Types
<1>12. InProgress(row) => FALSE
  BY <1>4, <1>5 DEF InProgress, Outcome
<1>13. row.processed <= Cardinality(DOMAIN row.scenes) /\ row.failed <= Cardinality(DOMAIN row.scenes)
  BY <1>3, <1>4, <1>5 DEF RowOK
<1> QED
  BY <1>1, <1>2, <1>5, <1>6, <1>7, <1>9, <1>10, <1>11, <1>12, <1>13, WalkKeeps

\* MarkProcessed, Throw and Crash: the worker is done, and it gives back a lock that it
\* still holds.
LEMMA WorkEnds ==
  ASSUME IInv, NEW w \in Workers, worker[w].pc # "idle", NEW row \in Rows,
         runs' = [runs EXCEPT ![worker[w].run] = row], Release(w),
         UNCHANGED <<dirty, live, request, redelivered>>,
         faults' \in 0..FaultBudget, faults <= faults',
         row.scenes = runs[worker[w].run].scenes,
         row.processed = runs[worker[w].run].processed,
         row.failed = runs[worker[w].run].failed, row.status = runs[worker[w].run].status,
         IF runs[worker[w].run].holder = w
         THEN /\ row.holder = NoWorker /\ row.job # "active"
              /\ row.job = "waiting" => row.tries < Attempts /\ (row.tries = 0 => faults' > 0)
              /\ row.job = "gone" => row.settled
              /\ row.job = "failed" => row.tries >= Attempts \/ row.stalls > MaxStalledCount
         ELSE /\ row.holder = runs[worker[w].run].holder /\ row.job = runs[worker[w].run].job
              /\ row.tries = runs[worker[w].run].tries /\ row.stalls = runs[worker[w].run].stalls
              /\ runs[worker[w].run].settled => row.settled,
         row.tries = 0 => runs[worker[w].run].tries = 0,
         ~redelivered => SettledOK(row)
  PROVE  IInv'
<1> DEFINE r == worker[w].run
<1>1. /\ worker[w] # Idle /\ r \in RunIds /\ RowOK(runs[r]) /\ runs[r] \in Rows
      /\ ~redelivered => runs[r].holder = w
      /\ faults = 0 => ~redelivered
  BY AtWork
<1>2. Idle \in Jobs /\ worker' = [worker EXCEPT ![w] = Idle]
  BY DEF Idle, Jobs, Phases, Release
<1>3. faults \in Nat /\ faults' \in Nat /\ dirty' \subseteq Scenes
  BY BoundsAssumption DEF IInv, Types
<1>4. RowOK(row)
  BY <1>1 DEF RowOK
<1>5. faults' = 0 => FirstOK(row)
  BY <1>1, <1>3 DEF FirstOK
<1> QED
  BY <1>1, <1>2, <1>3, <1>4, <1>5, WorkerKeeps DEF InProgress

LEMMA MarkProcessedPreserves ==
  ASSUME IInv, NEW w \in Workers, MarkProcessed(w)
  PROVE  IInv'
<1> DEFINE r == worker[w].run
           settled == [runs[r] EXCEPT !.settled = TRUE]
           row == IF runs[r].holder = w THEN [settled EXCEPT !.job = "gone", !.holder = NoWorker]
                  ELSE settled
<1>1. /\ worker[w].pc = "audit" /\ Release(w) /\ runs' = [runs EXCEPT ![r] = row]
      /\ UNCHANGED <<dirty, live, request, faults, redelivered>>
  BY DEF MarkProcessed, At, Run, HoldsLock
<1>2. /\ runs[r] \in Rows /\ RowOK(runs[r])
      /\ ~redelivered => runs[r].holder = w /\ Kept(worker[w], runs[r])
  BY <1>1, AtWork
<1>3. /\ row \in Rows /\ row.settled /\ row.scenes = runs[r].scenes /\ row.status = runs[r].status
      /\ row.processed = runs[r].processed /\ row.failed = runs[r].failed
      /\ row.tries = runs[r].tries /\ row.stalls = runs[r].stalls
      /\ runs[r].holder = w => row.job = "gone" /\ row.holder = NoWorker
      /\ runs[r].holder # w => row.job = runs[r].job /\ row.holder = runs[r].holder
  <2>1. CASE runs[r].holder = w
    BY <1>2, <2>1 DEF Rows, JobStates
  <2>2. CASE runs[r].holder # w
    BY <1>2, <2>2 DEF Rows
  <2> QED
    BY <2>1, <2>2
<1> HIDE DEF row
<1>4. ~redelivered => SettledOK(row)
  <2> SUFFICES ASSUME ~redelivered PROVE AddsUp(row) /\ row.job = "gone" /\ row.status \in Outcome
    BY DEF SettledOK
  <2>1. AddsUp(runs[r])
    BY <1>1, <1>2 DEF Kept
  <2>2. runs[r].status \in Outcome
    BY <2>1, OutcomeType DEF AddsUp
  <2> QED
    BY <1>2, <1>3, <2>1, <2>2 DEF AddsUp
<1>5. faults \in 0..FaultBudget /\ faults <= faults
  BY BoundsAssumption DEF IInv, Types
<1> QED
  BY <1>1, <1>2, <1>3, <1>4, <1>5, WorkEnds

LEMMA ThrowPreserves ==
  ASSUME IInv, NEW w \in Workers, Throw(w)
  PROVE  IInv'
<1> DEFINE r == worker[w].run
           job == IF runs[r].tries + 1 >= Attempts THEN "failed" ELSE "waiting"
           row == IF runs[r].holder = w
                  THEN [runs[r] EXCEPT !.tries = runs[r].tries + 1, !.holder = NoWorker, !.job = job]
                  ELSE runs[r]
<1>1. /\ worker[w].pc # "idle" /\ Release(w)
      /\ UNCHANGED <<dirty, live, request, faults, redelivered>>
  BY DEF Throw, At
<1>2. /\ r \in RunIds /\ runs[r] \in Rows /\ RowOK(runs[r])
      /\ ~redelivered => runs[r].holder = w /\ ~runs[r].settled
  BY <1>1, AtWork
<1>3. runs' = [runs EXCEPT ![r] = row]
  <2>1. CASE runs[r].holder = w
    BY <2>1 DEF Throw, HoldsLock, Run
  <2>2. CASE runs[r].holder # w
    <3>1. runs' = runs
      BY <2>2 DEF Throw, HoldsLock, Run
    <3> QED
      BY <1>2, <2>2, <3>1 DEF IInv, Types
  <2> QED
    BY <2>1, <2>2
<1>4. runs[r].tries \in Nat
  BY <1>2, BoundsAssumption DEF Rows
<1>5. runs[r].holder = w => runs[r].tries + 1 \in 0..Attempts /\ runs[r].tries < Attempts
  BY <1>2, <1>4, NoWorkerAssumption, BoundsAssumption DEF RowOK
<1>6. /\ row \in Rows /\ row.settled = runs[r].settled /\ row.scenes = runs[r].scenes
      /\ row.status = runs[r].status
      /\ row.processed = runs[r].processed /\ row.failed = runs[r].failed
      /\ runs[r].holder = w => /\ row.tries = runs[r].tries + 1 /\ row.holder = NoWorker
                               /\ row.job = job
      /\ runs[r].holder # w => row = runs[r]
  <2>1. CASE runs[r].holder = w
    BY <1>2, <1>5, <2>1 DEF Rows, JobStates
  <2>2. CASE runs[r].holder # w
    BY <1>2, <2>2
  <2> QED
    BY <2>1, <2>2
<1> HIDE DEF row
<1>7. runs[r].holder = w /\ row.job = "waiting" => row.tries < Attempts
  BY <1>4, <1>6, BoundsAssumption
<1>8. ~redelivered => SettledOK(row)
  BY <1>2, <1>6 DEF SettledOK
<1>9. faults \in 0..FaultBudget /\ faults <= faults
  BY BoundsAssumption DEF IInv, Types
<1>10. row.tries = 0 => runs[r].tries = 0 /\ runs[r].holder # w
  BY <1>4, <1>6
<1>11. runs[r].holder = w => row.job # "active"
  BY <1>6
<1> QED
  BY <1>1, <1>2, <1>3, <1>6, <1>7, <1>8, <1>9, <1>10, <1>11, WorkEnds

\* What the stalled check makes of an active job: it waits again as it was, or it is given
\* up, with its last attempt counted or not.
LEMMA StallIs ==
  ASSUME Types, NEW r \in RunIds, RowOK(runs[r]), runs[r].job = "active", Stall(r)
  PROVE  \E row \in Rows :
           /\ runs' = [runs EXCEPT ![r] = row]
           /\ row.scenes = runs[r].scenes /\ row.status = runs[r].status
           /\ row.processed = runs[r].processed /\ row.failed = runs[r].failed
           /\ row.settled = runs[r].settled /\ row.holder = NoWorker
           /\ row.tries = 0 => runs[r].tries = 0
           /\ row.job \in {"waiting", "failed"}
           /\ row.job = "waiting" => row.tries < Attempts
           /\ row.job = "failed" => row.stalls > MaxStalledCount
<1> DEFINE stalled == [runs[r] EXCEPT !.stalls = @ + 1, !.holder = NoWorker]
<1>1. /\ runs[r] \in Rows /\ runs[r].tries \in 0..Attempts /\ runs[r].tries < Attempts
      /\ runs[r].stalls + 1 \in Nat
  BY RunTyped DEF Rows, RowOK
<1>2. /\ stalled \in Rows
      /\ stalled.scenes = runs[r].scenes /\ stalled.status = runs[r].status
      /\ stalled.processed = runs[r].processed /\ stalled.failed = runs[r].failed
      /\ stalled.settled = runs[r].settled /\ stalled.holder = NoWorker
      /\ stalled.tries = runs[r].tries
  BY <1>1 DEF Rows
<1>3. \/ /\ stalled.stalls <= MaxStalledCount
         /\ runs' = [runs EXCEPT ![r] = [stalled EXCEPT !.job = "waiting"]]
      \/ /\ stalled.stalls > MaxStalledCount
         /\ \E made \in {stalled.tries, stalled.tries + 1} :
              runs' = [runs EXCEPT ![r] = [stalled EXCEPT !.job = "failed", !.tries = made]]
  BY DEF Stall
<1> HIDE DEF stalled
<1>4. CASE runs' = [runs EXCEPT ![r] = [stalled EXCEPT !.job = "waiting"]]
  <2> DEFINE row == [stalled EXCEPT !.job = "waiting"]
  <2>1. row \in Rows
    BY <1>2 DEF Rows, JobStates
  <2>2. /\ row.scenes = stalled.scenes /\ row.status = stalled.status
        /\ row.processed = stalled.processed /\ row.failed = stalled.failed
        /\ row.settled = stalled.settled /\ row.holder = stalled.holder
        /\ row.tries = stalled.tries /\ row.job = "waiting"
    BY <1>2 DEF Rows
  <2> HIDE DEF row
  <2> QED
    BY <1>1, <1>2, <1>4, <2>1, <2>2 DEF row
<1>5. ASSUME stalled.stalls > MaxStalledCount, NEW made \in {stalled.tries, stalled.tries + 1},
             runs' = [runs EXCEPT ![r] = [stalled EXCEPT !.job = "failed", !.tries = made]]
      PROVE  \E row \in Rows :
               /\ runs' = [runs EXCEPT ![r] = row]
               /\ row.scenes = runs[r].scenes /\ row.status = runs[r].status
               /\ row.processed = runs[r].processed /\ row.failed = runs[r].failed
               /\ row.settled = runs[r].settled /\ row.holder = NoWorker
               /\ row.tries = 0 => runs[r].tries = 0
               /\ row.job \in {"waiting", "failed"}
               /\ row.job = "waiting" => row.tries < Attempts
               /\ row.job = "failed" => row.stalls > MaxStalledCount
  <2> DEFINE row == [stalled EXCEPT !.job = "failed", !.tries = made]
  <2>1. made \in 0..Attempts /\ (made = 0 => runs[r].tries = 0)
    BY <1>1, <1>2, BoundsAssumption
  <2>2. row \in Rows
    BY <1>2, <2>1 DEF Rows, JobStates
  <2>3. /\ row.scenes = stalled.scenes /\ row.status = stalled.status
        /\ row.processed = stalled.processed /\ row.failed = stalled.failed
        /\ row.settled = stalled.settled /\ row.holder = stalled.holder
        /\ row.tries = made /\ row.job = "failed" /\ row.stalls = stalled.stalls
    BY <1>2 DEF Rows
  <2> HIDE DEF row
  <2> QED
    BY <1>2, <1>5, <2>1, <2>2, <2>3 DEF row
<1> QED
  BY <1>3, <1>4, <1>5

LEMMA CrashPreserves ==
  ASSUME IInv, NEW w \in Workers, Crash(w)
  PROVE  IInv'
<1> DEFINE r == worker[w].run
<1>1. /\ worker[w].pc # "idle" /\ Release(w) /\ faults < FaultBudget /\ faults' = faults + 1
      /\ UNCHANGED <<dirty, live, request, redelivered>>
  BY DEF Crash, At, Fault
<1>2. /\ r \in RunIds /\ runs[r] \in Rows /\ RowOK(runs[r])
      /\ ~redelivered => runs[r].holder = w /\ ~runs[r].settled
  BY <1>1, AtWork
<1>3. faults' \in 0..FaultBudget /\ faults <= faults' /\ faults' > 0
  BY <1>1, BoundsAssumption DEF IInv, Types
<1>4. CASE runs[r].holder = w
  <2>1. runs[r].job = "active" /\ Stall(r)
    BY <1>2, <1>4, NoWorkerAssumption DEF Crash, HoldsLock, Run, RowOK
  <2>2. PICK row \in Rows :
           /\ runs' = [runs EXCEPT ![r] = row]
           /\ row.scenes = runs[r].scenes /\ row.status = runs[r].status
           /\ row.processed = runs[r].processed /\ row.failed = runs[r].failed
           /\ row.settled = runs[r].settled /\ row.holder = NoWorker
           /\ row.tries = 0 => runs[r].tries = 0
           /\ row.job \in {"waiting", "failed"}
           /\ row.job = "waiting" => row.tries < Attempts
           /\ row.job = "failed" => row.stalls > MaxStalledCount
    BY <1>2, <2>1, StallIs DEF IInv
  <2>3. ~redelivered => SettledOK(row)
    BY <1>2, <2>2 DEF SettledOK
  <2>4. row.job # "active" /\ row.job # "gone"
    BY <2>2
  <2> QED
    BY <1>1, <1>3, <1>4, <2>2, <2>3, <2>4, WorkEnds
<1>5. CASE runs[r].holder # w
  <2>1. runs' = [runs EXCEPT ![r] = runs[r]]
    <3>1. runs' = runs
      BY <1>5 DEF Crash, HoldsLock, Run
    <3> QED
      BY <1>2, <3>1 DEF IInv, Types
  <2>2. ~redelivered => SettledOK(runs[r])
    BY <1>2 DEF SettledOK
  <2> QED
    BY <1>1, <1>2, <1>3, <1>5, <2>1, <2>2, WorkEnds
<1> QED
  BY <1>4, <1>5
-----------------------------------------------------------------------------
(* The dispatcher and the queue *)

\* The scenes a failed run gives up leave none unfinished, and there is one at least: its
\* last one is the greatest of a finite set.
LEMMA GivenUpOfRun ==
  ASSUME Types, NEW r \in RunIds, DOMAIN runs[r].scenes # {}
  PROVE  /\ GivenUp(r) \subseteq DOMAIN runs[r].scenes
         /\ GivenUp(r) # {}
         /\ \A s \in DOMAIN runs[r].scenes \ GivenUp(r) : runs[r].scenes[s] \in Finished
<1> DEFINE scenes == runs[r].scenes
           open == {s \in DOMAIN scenes : scenes[s] \in {"QUEUED", "RUNNING"}}
           last == {s \in DOMAIN scenes : \A t \in DOMAIN scenes : t <= s}
<1>1. /\ DOMAIN scenes \in SUBSET Nat /\ IsFiniteSet(DOMAIN scenes)
      /\ \A s \in DOMAIN scenes : scenes[s] \in SceneStatus
  BY RunTyped, ScenesFinite
<1>2. GivenUp(r) = IF open # {} THEN open ELSE last
  BY DEF GivenUp
<1>3. last # {}
  BY <1>1, GreatestOfFinite
<1>4. \A s \in DOMAIN scenes \ open : scenes[s] \in Finished
  BY <1>1 DEF SceneStatus, Finished
<1> QED
  BY <1>2, <1>3, <1>4

LEMMA FinalizeFailedPreserves ==
  ASSUME IInv, NEW r \in RunIds, FinalizeFailed(r)
  PROVE  IInv'
<1> DEFINE scenes == [s \in DOMAIN runs[r].scenes |->
                        IF s \in GivenUp(r) THEN "FAILED" ELSE runs[r].scenes[s]]
           status == IF Count(scenes, {"SUCCEEDED"}) > 0 THEN "PARTIAL" ELSE "FAILED"
           row == [runs[r] EXCEPT !.settled = TRUE, !.scenes = scenes,
                                  !.processed = Count(scenes, {"SUCCEEDED", "FAILED"}),
                                  !.failed = Count(scenes, {"FAILED"}), !.status = status]
<1>1. /\ Exhausted(r) /\ runs[r].job = "failed" /\ runs' = [runs EXCEPT ![r] = row]
      /\ dirty' = dirty \cup GivenUp(r)
      /\ UNCHANGED <<live, request, worker, faults, redelivered>>
  BY DEF FinalizeFailed, Exhausted
<1>2. runs[r] \in Rows /\ runs[r].scenes \in Walks /\ RowOK(runs[r]) /\ DOMAIN runs[r].scenes # {}
  BY RunTyped DEF IInv, RowsInv, RowOK
<1>3. /\ GivenUp(r) \subseteq DOMAIN runs[r].scenes /\ GivenUp(r) # {}
      /\ \A s \in DOMAIN runs[r].scenes \ GivenUp(r) : runs[r].scenes[s] \in Finished
  BY <1>2, GivenUpOfRun DEF IInv
<1>4. /\ scenes \in Walks /\ DOMAIN scenes = DOMAIN runs[r].scenes
      /\ \A s \in DOMAIN scenes : scenes[s] \in Finished
      /\ \E s \in DOMAIN scenes : scenes[s] = "FAILED"
  <2>1. \A s \in DOMAIN scenes : scenes[s] \in Finished
    BY <1>3 DEF Finished
  <2>2. scenes \in [DOMAIN runs[r].scenes -> SceneStatus]
    BY <2>1 DEF Finished, SceneStatus
  <2>3. DOMAIN runs[r].scenes \subseteq Scenes
    BY <1>2, ScenesFinite
  <2>4. scenes \in Walks
    BY <2>2, <2>3 DEF Walks
  <2> QED
    BY <1>3, <2>1, <2>4
<1> HIDE DEF scenes
<1>5. /\ Count(scenes, {"SUCCEEDED", "FAILED"}) = Cardinality(DOMAIN scenes)
      /\ Count(scenes, {"FAILED"}) \in Nat /\ Count(scenes, {"FAILED"}) # 0
      /\ Count(scenes, {"FAILED"}) <= Cardinality(DOMAIN scenes)
      /\ Count(scenes, {"SUCCEEDED"}) \in Nat
      /\ Cardinality(DOMAIN scenes) \in Nat
  BY <1>4, CountOfAll, CountBounds, ScenesFinite DEF Finished
<1>6. status = OutcomeOf(scenes) /\ status \in Outcome
  <2>1. CASE Count(scenes, {"SUCCEEDED"}) > 0
    BY <1>5, <2>1 DEF OutcomeOf, Outcome
  <2>2. CASE ~(Count(scenes, {"SUCCEEDED"}) > 0)
    <3>1. Count(scenes, {"SUCCEEDED"}) = 0 /\ Count(scenes, {"FAILED"}) > 0
      BY <1>5, <2>2
    <3> QED
      BY <1>5, <2>2, <3>1 DEF OutcomeOf, Outcome
  <2> QED
    BY <2>1, <2>2
<1> HIDE DEF status
<1>7. /\ row \in Rows /\ row.settled /\ row.scenes = scenes /\ row.status = status
      /\ row.processed = Cardinality(DOMAIN scenes) /\ row.failed = Count(scenes, {"FAILED"})
      /\ row.job = "failed" /\ row.tries = runs[r].tries /\ row.stalls = runs[r].stalls /\ row.holder = runs[r].holder
  BY <1>1, <1>2, <1>4, <1>5, <1>6 DEF Rows
<1> HIDE DEF row
<1>8. SettledOK(row)
  BY <1>4, <1>6, <1>7 DEF SettledOK, AddsUp
<1>9. runs[r].holder = NoWorker
  BY <1>1, <1>2 DEF RowOK
<1>10. RowOK(row)
  <2>1. row.tries >= Attempts
    BY <1>1, <1>7 DEF Exhausted
  <2> QED
    BY <1>2, <1>4, <1>5, <1>7, <1>9, <2>1 DEF RowOK
<1>11. FirstOK(row) /\ ~NoneFailed(row.scenes)
  BY <1>4, <1>7 DEF FirstOK, NoneFailed
<1>12. dirty' \subseteq Scenes
  BY <1>1, <1>2, <1>3, ScenesFinite DEF IInv, Types
<1>13. faults \in 0..FaultBudget /\ faults <= faults /\ redelivered \in BOOLEAN
       /\ (redelivered => faults > 0)
  BY BoundsAssumption DEF IInv, Types, FaultInv
<1> QED
  BY <1>1, <1>4, <1>7, <1>8, <1>9, <1>10, <1>11, <1>12, <1>13, QueueKeeps

\* A job that is delivered again: from here on less is promised.
LEMMA RequeuePreserves ==
  ASSUME IInv, NEW r \in RunIds, Requeue(r)
  PROVE  IInv'
<1> DEFINE row == [runs[r] EXCEPT !.job = "waiting", !.tries = 0, !.stalls = 0]
<1>0. runs[r] \in Rows /\ RowOK(runs[r])
  BY RunTyped DEF IInv, RowsInv
<1>1. /\ faults < FaultBudget /\ faults' = faults + 1 /\ redelivered'
      /\ redelivered' \in BOOLEAN
      /\ UNCHANGED <<dirty, live, request, worker>>
      /\ runs[r].job = "gone" /\ runs' = [runs EXCEPT ![r] = row]
  BY DEF Requeue, Fault
<1>2. /\ row \in Rows /\ row.scenes = runs[r].scenes /\ row.job = "waiting"
      /\ row.holder = runs[r].holder /\ row.tries = 0
      /\ row.processed = runs[r].processed /\ row.failed = runs[r].failed
  <2>1. 0 \in 0..Attempts /\ 0 \in Nat /\ "waiting" \in JobStates
    BY BoundsAssumption DEF JobStates
  <2> QED
    BY <1>0, <2>1 DEF Rows
<1> HIDE DEF row
<1>3. RowOK(row) /\ row.holder = NoWorker
  BY <1>0, <1>1, <1>2, BoundsAssumption DEF RowOK
<1>4. /\ faults' \in 0..FaultBudget /\ faults <= faults' /\ faults' > 0 /\ faults' # 0
      /\ dirty' \subseteq Scenes
  BY <1>1, BoundsAssumption DEF IInv, Types
<1>5. UNCHANGED <<live, request, worker>>
  BY <1>1
<1>6. redelivered' /\ redelivered' \in BOOLEAN
  BY <1>1
<1>7. runs' = [runs EXCEPT ![r] = row]
  BY <1>1
<1> QED
  BY <1>2, <1>3, <1>4, <1>5, <1>6, <1>7, QueueKeeps

\* The lock is lost while the worker goes on.
LEMMA LoseLockPreserves ==
  ASSUME IInv, NEW r \in RunIds, LoseLock(r)
  PROVE  IInv'
<1>0. runs[r] \in Rows /\ RowOK(runs[r])
  BY RunTyped DEF IInv, RowsInv
<1>1. /\ faults < FaultBudget /\ faults' = faults + 1 /\ redelivered'
      /\ redelivered' \in BOOLEAN
      /\ UNCHANGED <<dirty, live, request, worker>>
      /\ runs[r].job = "active" /\ Stall(r)
  BY DEF LoseLock, Fault
<1>2. PICK row \in Rows :
         /\ runs' = [runs EXCEPT ![r] = row]
         /\ row.scenes = runs[r].scenes /\ row.status = runs[r].status
         /\ row.processed = runs[r].processed /\ row.failed = runs[r].failed
         /\ row.settled = runs[r].settled /\ row.holder = NoWorker
         /\ row.tries = 0 => runs[r].tries = 0
         /\ row.job \in {"waiting", "failed"}
         /\ row.job = "waiting" => row.tries < Attempts
         /\ row.job = "failed" => row.stalls > MaxStalledCount
  BY <1>0, <1>1, StallIs DEF IInv
<1>3. RowOK(row)
  <2>1. /\ row.job # "active" /\ row.job # "gone"
        /\ row.job = "waiting" => row.tries < Attempts
        /\ row.job = "failed" => row.stalls > MaxStalledCount
    BY <1>2
  <2> QED
    BY <1>0, <1>2, <2>1 DEF RowOK
<1>4. /\ faults' \in 0..FaultBudget /\ faults <= faults' /\ faults' > 0 /\ faults' # 0
      /\ dirty' \subseteq Scenes
  BY <1>1, BoundsAssumption DEF IInv, Types
<1>5. UNCHANGED <<live, request, worker>>
  BY <1>1
<1>6. redelivered' /\ redelivered' \in BOOLEAN
  BY <1>1
<1> QED
  BY <1>2, <1>3, <1>4, <1>5, <1>6, QueueKeeps

LEMMA NextPreserves == IInv /\ [Next]_vars => IInv'
<1> SUFFICES ASSUME IInv, [Next]_vars PROVE IInv'
  OBVIOUS
<1>1. CASE UNCHANGED vars
  BY <1>1 DEF vars, IInv, Types, RowsInv, WorkersInv, OnRun, LockInv, FaultInv, OnceInv,
              Undisturbed, Active, RunIds
<1>2. CASE Next
  BY <1>2, AuthorPreserves, TakePreserves, BeginScenePreserves, AnalysisPreserves,
     ProgressPreserves, CompletePreserves, MarkProcessedPreserves, ThrowPreserves,
     FinalizeFailedPreserves, CrashPreserves, LoseLockPreserves, RequeuePreserves DEF Next
<1> QED
  BY <1>1, <1>2
-----------------------------------------------------------------------------
\* project-knowledge-review.service.ts and the runs of the pipeline: a run in progress has an
\* event that somebody will settle, a settled run adds up, and the project has one
\* active run as long as nothing is repeated. Nobody settles the event of a job that
\* stalled too often (Stranded).
THEOREM RunsStaySound == Spec => []RunsAreSound
<1> QED
  BY InitEstablishes, NextPreserves, SoundHolds, PTL DEF Spec
=============================================================================
