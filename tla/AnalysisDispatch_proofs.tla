------------------------ MODULE AnalysisDispatch_proofs ------------------------
(***************************************************************************)
(* What AnalysisDispatch satisfies for every number of events, workers and *)
(* poll passes.  Everything follows from one inductive invariant, IInv:    *)
(* the queue's lock (LockInv), what a worker may be running (RunInv), what *)
(* a scheduled 'failed' callback stands for (CallbackInv) and the order in *)
(* which an event comes to exist, to have a job and to be settled          *)
(* (RecordedInv).  The second half is about the audits it dispatches, the  *)
(* components of MCAudits, each with an invariant of its own: AuditInv for *)
(* the audit of a book, AlertsInv and ReportInv for the alerts of a scene. *)
(***************************************************************************)
EXTENDS AnalysisDispatch, MCAudits, FiniteSetTheorems, TLAPS

LockInv == \A e \in Events : holder[e] # NoWorker => jobState[e] = "active"

CallbackInv == \A e \in callbacks : Exhausted(e)

RunInv == \A w \in Workers :
  /\ pc[w] = "idle" <=> run[w] = NoEvent
  /\ pc[w] \in {"handled", "marked"} => run[w] \in completed

\* Nothing happens to an event before its row exists.
RecordedInv ==
  /\ \A e \in Events : jobState[e] # "none" => e \in Recorded
  /\ \A p \in Passes : batch[p] \subseteq Recorded
  /\ \A w \in Workers : run[w] # NoEvent => run[w] \in Recorded
  /\ completed \subseteq Recorded

\* Without faults a worker holds the lock of the job it is running.
LockedWithoutFaults ==
  faults = 0 => \A w \in Workers : run[w] # NoEvent => holder[run[w]] = w

IInv == /\ TypeOK
        /\ LockInv
        /\ CallbackInv
        /\ RunInv
        /\ RecordedInv
        /\ LockedWithoutFaults
        /\ SettledForCause
        /\ FailedMeansExhausted

-----------------------------------------------------------------------------
\* The initial state satisfies the invariant.
LEMMA InitIInv == Init => IInv
<1> SUFFICES ASSUME Init PROVE IInv
  OBVIOUS
<1> USE DEF Init
<1>1. TypeOK
  BY NoEventAssumption, NoWorkerAssumption DEF TypeOK, Status, JobState, Phase
<1>2. LockInv /\ CallbackInv
  BY DEF LockInv, CallbackInv
<1>3. RunInv /\ LockedWithoutFaults
  BY DEF RunInv, LockedWithoutFaults
<1>4. RecordedInv
  BY DEF RecordedInv
<1>5. SettledForCause /\ FailedMeansExhausted
  BY DEF SettledForCause, FailedMeansExhausted
<1> QED
  BY <1>1, <1>2, <1>3, <1>4, <1>5 DEF IInv

\* A position in the createdAt order is a number.
LEMMA RecordedCardinality == Cardinality(Recorded) \in Nat
BY EventsAssumption, FS_Subset, FS_CardinalityType DEF Recorded

\* A poll returns rows of the table.
LEMMA OldestPendingRecorded == OldestPending \subseteq Recorded
BY DEF OldestPending, Pending

-----------------------------------------------------------------------------
\* Every step preserves the invariant.
LEMMA NextIInv == IInv /\ [Next]_vars => IInv'
<1> SUFFICES ASSUME IInv, [Next]_vars PROVE IInv'
  OBVIOUS
<1> USE NoEventAssumption, NoWorkerAssumption DEF IInv, vars, rowVars, jobVars, workerVars
<1>1. ASSUME NEW e \in Events, Record(e) PROVE IInv'
  <2> USE <1>1 DEF Record
  <2>1. TypeOK'
    BY RecordedCardinality DEF TypeOK, Status, JobState, Phase
  <2>2. LockInv'
    BY DEF TypeOK, LockInv
  <2>3. CallbackInv'
    BY DEF TypeOK, CallbackInv, Exhausted
  <2>4. RunInv'
    BY DEF TypeOK, RunInv
  <2>5. RecordedInv'
    BY DEF TypeOK, RecordedInv, Recorded
  <2>6. LockedWithoutFaults'
    BY DEF TypeOK, LockedWithoutFaults
  <2>7. SettledForCause'
    BY DEF TypeOK, SettledForCause, Exhausted
  <2>8. FailedMeansExhausted'
    BY DEF TypeOK, FailedMeansExhausted, Exhausted
  <2> QED
    BY <2>1, <2>2, <2>3, <2>4, <2>5, <2>6, <2>7, <2>8 DEF IInv
<1>2. ASSUME NEW p \in Passes, PollRead(p) PROVE IInv'
  <2> USE <1>2 DEF PollRead
  <2>1. TypeOK'
    BY OldestPendingRecorded DEF TypeOK, Status, JobState, Phase, Recorded
  <2>2. LockInv'
    BY DEF TypeOK, LockInv
  <2>3. CallbackInv'
    BY DEF TypeOK, CallbackInv, Exhausted
  <2>4. RunInv'
    BY DEF TypeOK, RunInv
  <2>5. RecordedInv'
    BY OldestPendingRecorded DEF TypeOK, RecordedInv, Recorded
  <2>6. LockedWithoutFaults'
    BY DEF TypeOK, LockedWithoutFaults
  <2>7. SettledForCause'
    BY DEF TypeOK, SettledForCause, Exhausted
  <2>8. FailedMeansExhausted'
    BY DEF TypeOK, FailedMeansExhausted, Exhausted
  <2> QED
    BY <2>1, <2>2, <2>3, <2>4, <2>5, <2>6, <2>7, <2>8 DEF IInv
<1>3. ASSUME NEW p \in Passes, NEW e \in Events, Enqueue(p, e) PROVE IInv'
  <2> USE <1>3 DEF Enqueue, AddJob, NextRow
  <2>1. TypeOK'
    BY DEF TypeOK, Status, JobState, Phase
  <2>2. LockInv'
    BY DEF TypeOK, LockInv
  <2>3. CallbackInv'
    BY DEF TypeOK, CallbackInv, Exhausted
  <2>4. RunInv'
    BY DEF TypeOK, RunInv
  <2>5. RecordedInv'
    BY DEF TypeOK, RecordedInv, Recorded
  <2>6. LockedWithoutFaults'
    BY DEF TypeOK, LockedWithoutFaults
  <2>7. SettledForCause'
    BY DEF TypeOK, SettledForCause, Exhausted
  <2>8. FailedMeansExhausted'
    BY DEF TypeOK, FailedMeansExhausted, Exhausted
  <2> QED
    BY <2>1, <2>2, <2>3, <2>4, <2>5, <2>6, <2>7, <2>8 DEF IInv
<1>4. ASSUME NEW p \in Passes, NEW e \in Events, FinalizeExhausted(p, e) PROVE IInv'
  <2> USE <1>4 DEF FinalizeExhausted, NextRow, MarkFailed
  <2>1. TypeOK'
    BY DEF TypeOK, Status, JobState, Phase
  <2>2. LockInv'
    BY DEF TypeOK, LockInv
  <2>3. CallbackInv'
    BY DEF TypeOK, CallbackInv, Exhausted
  <2>4. RunInv'
    BY DEF TypeOK, RunInv
  <2>5. RecordedInv'
    BY DEF TypeOK, RecordedInv, Recorded
  <2>6. LockedWithoutFaults'
    BY DEF TypeOK, LockedWithoutFaults
  <2>7. SettledForCause'
    BY DEF TypeOK, SettledForCause, Exhausted
  <2>8. FailedMeansExhausted'
    BY DEF TypeOK, FailedMeansExhausted, Exhausted
  <2> QED
    BY <2>1, <2>2, <2>3, <2>4, <2>5, <2>6, <2>7, <2>8 DEF IInv
<1>5. ASSUME NEW p \in Passes, NEW e \in Events, SkipRow(p, e) PROVE IInv'
  <2> USE <1>5 DEF SkipRow, NextRow
  <2>1. TypeOK'
    BY DEF TypeOK, Status, JobState, Phase
  <2>2. LockInv'
    BY DEF TypeOK, LockInv
  <2>3. CallbackInv'
    BY DEF TypeOK, CallbackInv, Exhausted
  <2>4. RunInv'
    BY DEF TypeOK, RunInv
  <2>5. RecordedInv'
    BY DEF TypeOK, RecordedInv, Recorded
  <2>6. LockedWithoutFaults'
    BY DEF TypeOK, LockedWithoutFaults
  <2>7. SettledForCause'
    BY DEF TypeOK, SettledForCause, Exhausted
  <2>8. FailedMeansExhausted'
    BY DEF TypeOK, FailedMeansExhausted, Exhausted
  <2> QED
    BY <2>1, <2>2, <2>3, <2>4, <2>5, <2>6, <2>7, <2>8 DEF IInv
<1>6. ASSUME NEW p \in Passes, NEW e \in Events, AbandonRows(p, e) PROVE IInv'
  <2> USE <1>6 DEF AbandonRows, NextRow
  <2>1. TypeOK'
    BY DEF TypeOK, Status, JobState, Phase
  <2>2. LockInv'
    BY DEF TypeOK, LockInv
  <2>3. CallbackInv'
    BY DEF TypeOK, CallbackInv, Exhausted
  <2>4. RunInv'
    BY DEF TypeOK, RunInv
  <2>5. RecordedInv'
    BY DEF TypeOK, RecordedInv, Recorded
  <2>6. LockedWithoutFaults'
    BY DEF TypeOK, LockedWithoutFaults
  <2>7. SettledForCause'
    BY DEF TypeOK, SettledForCause, Exhausted
  <2>8. FailedMeansExhausted'
    BY DEF TypeOK, FailedMeansExhausted, Exhausted
  <2> QED
    BY <2>1, <2>2, <2>3, <2>4, <2>5, <2>6, <2>7, <2>8 DEF IInv
<1>7. ASSUME NEW w \in Workers, NEW e \in Events, Take(w, e) PROVE IInv'
  <2> USE <1>7 DEF Take
  <2>1. TypeOK'
    BY DEF TypeOK, Status, JobState, Phase
  <2>2. LockInv'
    BY DEF TypeOK, LockInv
  <2>3. CallbackInv'
    BY DEF TypeOK, CallbackInv, Exhausted
  <2>4. RunInv'
    BY DEF TypeOK, RunInv
  <2>5. RecordedInv'
    BY DEF TypeOK, RecordedInv, Recorded
  <2>6. LockedWithoutFaults'
    BY DEF TypeOK, LockedWithoutFaults, LockInv, RunInv
  <2>7. SettledForCause'
    BY DEF TypeOK, SettledForCause, Exhausted
  <2>8. FailedMeansExhausted'
    BY DEF TypeOK, FailedMeansExhausted, Exhausted
  <2> QED
    BY <2>1, <2>2, <2>3, <2>4, <2>5, <2>6, <2>7, <2>8 DEF IInv
<1>8. ASSUME NEW w \in Workers, Begin(w) PROVE IInv'
  <2> USE <1>8 DEF Begin
  <2>a. run[w] \in Events
    BY DEF TypeOK, RunInv
  <2>1. TypeOK'
    BY <2>a DEF TypeOK, Status, JobState, Phase
  <2>2. LockInv'
    BY DEF TypeOK, LockInv
  <2>3. CallbackInv'
    BY DEF TypeOK, CallbackInv, Exhausted
  <2>4. RunInv'
    BY DEF TypeOK, RunInv
  <2>5. RecordedInv'
    BY DEF TypeOK, RecordedInv, Recorded
  <2>6. LockedWithoutFaults'
    BY DEF TypeOK, LockedWithoutFaults
  <2>7. SettledForCause'
    BY DEF TypeOK, SettledForCause, Exhausted
  <2>8. FailedMeansExhausted'
    BY DEF TypeOK, FailedMeansExhausted, Exhausted
  <2> QED
    BY <2>1, <2>2, <2>3, <2>4, <2>5, <2>6, <2>7, <2>8 DEF IInv
<1>9. ASSUME NEW w \in Workers, Handle(w) PROVE IInv'
  <2> USE <1>9 DEF Handle
  <2>a. run[w] \in Events
    BY DEF TypeOK, RunInv
  <2>1. TypeOK'
    BY <2>a DEF TypeOK, Status, JobState, Phase
  <2>2. LockInv'
    BY DEF TypeOK, LockInv
  <2>3. CallbackInv'
    BY DEF TypeOK, CallbackInv, Exhausted
  <2>4. RunInv'
    BY DEF TypeOK, RunInv
  <2>5. RecordedInv'
    BY <2>a DEF TypeOK, RecordedInv, Recorded
  <2>6. LockedWithoutFaults'
    BY DEF TypeOK, LockedWithoutFaults
  <2>7. SettledForCause'
    BY DEF TypeOK, SettledForCause, Exhausted
  <2>8. FailedMeansExhausted'
    BY DEF TypeOK, FailedMeansExhausted, Exhausted
  <2> QED
    BY <2>1, <2>2, <2>3, <2>4, <2>5, <2>6, <2>7, <2>8 DEF IInv
<1>10. ASSUME NEW w \in Workers, MarkProcessed(w) PROVE IInv'
  <2> USE <1>10 DEF MarkProcessed
  <2>a. run[w] \in Events
    BY DEF TypeOK, RunInv
  <2>1. TypeOK'
    BY <2>a DEF TypeOK, Status, JobState, Phase
  <2>2. LockInv'
    BY DEF TypeOK, LockInv
  <2>3. CallbackInv'
    BY DEF TypeOK, CallbackInv, Exhausted
  <2>4. RunInv'
    BY DEF TypeOK, RunInv
  <2>5. RecordedInv'
    BY DEF TypeOK, RecordedInv, Recorded
  <2>6. LockedWithoutFaults'
    BY DEF TypeOK, LockedWithoutFaults
  <2>7. SettledForCause'
    BY <2>a DEF TypeOK, SettledForCause, Exhausted, RunInv
  <2>8. FailedMeansExhausted'
    BY DEF TypeOK, FailedMeansExhausted, Exhausted
  <2> QED
    BY <2>1, <2>2, <2>3, <2>4, <2>5, <2>6, <2>7, <2>8 DEF IInv
<1>11. ASSUME NEW w \in Workers, Complete(w) PROVE IInv'
  <2> USE <1>11 DEF Complete, HoldsLock, GoIdle
  <2>a. run[w] \in Events
    BY DEF TypeOK, RunInv
  <2>b. HoldsLock(w) => jobState[run[w]] = "active"
    BY <2>a DEF TypeOK, LockInv
  <2>1. TypeOK'
    BY DEF TypeOK, Status, JobState, Phase
  <2>2. LockInv'
    BY DEF TypeOK, LockInv
  <2>3. CallbackInv'
    BY <2>a, <2>b DEF TypeOK, CallbackInv, Exhausted
  <2>4. RunInv'
    BY DEF TypeOK, RunInv
  <2>5. RecordedInv'
    BY DEF TypeOK, RecordedInv, Recorded
  <2>6. LockedWithoutFaults'
    BY DEF TypeOK, LockedWithoutFaults
  <2>7. SettledForCause'
    BY <2>a, <2>b DEF TypeOK, SettledForCause, Exhausted
  <2>8. FailedMeansExhausted'
    BY <2>a, <2>b DEF TypeOK, FailedMeansExhausted, Exhausted
  <2> QED
    BY <2>1, <2>2, <2>3, <2>4, <2>5, <2>6, <2>7, <2>8 DEF IInv
<1>12. ASSUME NEW w \in Workers, Throw(w) PROVE IInv'
  <2> USE <1>12 DEF Throw, HoldsLock, GoIdle
  <2>a. run[w] \in Events
    BY DEF TypeOK, RunInv
  <2>b. HoldsLock(w) => jobState[run[w]] = "active"
    BY <2>a DEF TypeOK, LockInv
  <2>1. TypeOK'
    BY <2>a DEF TypeOK, Status, JobState, Phase
  <2>2. LockInv'
    BY DEF TypeOK, LockInv
  <2>3. CallbackInv'
    <3>1. CASE HoldsLock(w) /\ made[run[w]] + 1 >= Attempts
      <4>1. made' = [made EXCEPT ![run[w]] = @ + 1]
            /\ jobState' = [jobState EXCEPT ![run[w]] = "failed"]
            /\ callbacks' = callbacks \cup {run[w]}
        BY <2>a, <3>1, AttemptsAssumption DEF TypeOK
      <4> QED
        BY <2>a, <2>b, <3>1, <4>1 DEF TypeOK, CallbackInv, Exhausted
    <3>2. CASE HoldsLock(w) /\ made[run[w]] + 1 < Attempts
      BY <2>a, <2>b, <3>2 DEF TypeOK, CallbackInv, Exhausted
    <3>3. CASE ~HoldsLock(w)
      BY <3>3 DEF CallbackInv, Exhausted
    <3> QED
      BY <2>a, <3>1, <3>2, <3>3, AttemptsAssumption DEF TypeOK
  <2>4. RunInv'
    BY DEF TypeOK, RunInv
  <2>5. RecordedInv'
    BY DEF TypeOK, RecordedInv, Recorded
  <2>6. LockedWithoutFaults'
    BY DEF TypeOK, LockedWithoutFaults
  <2>7. SettledForCause'
    BY <2>a, <2>b DEF TypeOK, SettledForCause, Exhausted
  <2>8. FailedMeansExhausted'
    BY <2>a, <2>b DEF TypeOK, FailedMeansExhausted, Exhausted
  <2> QED
    BY <2>1, <2>2, <2>3, <2>4, <2>5, <2>6, <2>7, <2>8 DEF IInv
<1>13. ASSUME NEW e \in Events, Promote(e) PROVE IInv'
  <2> USE <1>13 DEF Promote
  <2>1. TypeOK'
    BY DEF TypeOK, Status, JobState, Phase
  <2>2. LockInv'
    BY DEF TypeOK, LockInv
  <2>3. CallbackInv'
    BY DEF TypeOK, CallbackInv, Exhausted
  <2>4. RunInv'
    BY DEF TypeOK, RunInv
  <2>5. RecordedInv'
    BY DEF TypeOK, RecordedInv, Recorded
  <2>6. LockedWithoutFaults'
    BY DEF TypeOK, LockedWithoutFaults
  <2>7. SettledForCause'
    BY DEF TypeOK, SettledForCause, Exhausted
  <2>8. FailedMeansExhausted'
    BY DEF TypeOK, FailedMeansExhausted, Exhausted
  <2> QED
    BY <2>1, <2>2, <2>3, <2>4, <2>5, <2>6, <2>7, <2>8 DEF IInv
<1>14. ASSUME NEW e \in Events, FailedCallback(e) PROVE IInv'
  <2> USE <1>14 DEF FailedCallback, MarkFailed
  <2>1. TypeOK'
    BY DEF TypeOK, Status, JobState, Phase
  <2>2. LockInv'
    BY DEF TypeOK, LockInv
  <2>3. CallbackInv'
    BY DEF TypeOK, CallbackInv, Exhausted
  <2>4. RunInv'
    BY DEF TypeOK, RunInv
  <2>5. RecordedInv'
    BY DEF TypeOK, RecordedInv, Recorded
  <2>6. LockedWithoutFaults'
    BY DEF TypeOK, LockedWithoutFaults
  <2>7. SettledForCause'
    BY DEF TypeOK, SettledForCause, Exhausted, CallbackInv
  <2>8. FailedMeansExhausted'
    BY DEF TypeOK, FailedMeansExhausted, Exhausted, CallbackInv
  <2> QED
    BY <2>1, <2>2, <2>3, <2>4, <2>5, <2>6, <2>7, <2>8 DEF IInv
<1>15. ASSUME NEW e \in Events, LoseCallback(e) PROVE IInv'
  <2> USE <1>15 DEF LoseCallback
  <2>1. TypeOK'
    BY DEF TypeOK, Status, JobState, Phase
  <2>2. LockInv'
    BY DEF TypeOK, LockInv
  <2>3. CallbackInv'
    BY DEF TypeOK, CallbackInv, Exhausted
  <2>4. RunInv'
    BY DEF TypeOK, RunInv
  <2>5. RecordedInv'
    BY DEF TypeOK, RecordedInv, Recorded
  <2>6. LockedWithoutFaults'
    BY DEF TypeOK, LockedWithoutFaults
  <2>7. SettledForCause'
    BY DEF TypeOK, SettledForCause, Exhausted
  <2>8. FailedMeansExhausted'
    BY DEF TypeOK, FailedMeansExhausted, Exhausted
  <2> QED
    BY <2>1, <2>2, <2>3, <2>4, <2>5, <2>6, <2>7, <2>8 DEF IInv
<1>16. ASSUME NEW w \in Workers, Crash(w) PROVE IInv'
  <2> USE <1>16 DEF Crash, GoIdle
  <2>1. TypeOK'
    BY DEF TypeOK, Status, JobState, Phase
  <2>2. LockInv'
    BY DEF TypeOK, LockInv
  <2>3. CallbackInv'
    BY DEF TypeOK, CallbackInv, Exhausted
  <2>4. RunInv'
    BY DEF TypeOK, RunInv
  <2>5. RecordedInv'
    BY DEF TypeOK, RecordedInv, Recorded
  <2>6. LockedWithoutFaults'
    BY DEF TypeOK, LockedWithoutFaults
  <2>7. SettledForCause'
    BY DEF TypeOK, SettledForCause, Exhausted
  <2>8. FailedMeansExhausted'
    BY DEF TypeOK, FailedMeansExhausted, Exhausted
  <2> QED
    BY <2>1, <2>2, <2>3, <2>4, <2>5, <2>6, <2>7, <2>8 DEF IInv
<1>17. ASSUME NEW e \in Events, StalledAfterCrash(e) PROVE IInv'
  <2> USE <1>17 DEF StalledAfterCrash, Orphaned, LoseLock
  <2>1. TypeOK'
    BY DEF TypeOK, Status, JobState, Phase
  <2>2. LockInv'
    BY DEF TypeOK, LockInv
  <2>3. CallbackInv'
    BY DEF TypeOK, CallbackInv, Exhausted
  <2>4. RunInv'
    BY DEF TypeOK, RunInv
  <2>5. RecordedInv'
    BY DEF TypeOK, RecordedInv, Recorded
  <2>6. LockedWithoutFaults'
    BY DEF TypeOK, LockedWithoutFaults
  <2>7. SettledForCause'
    BY DEF TypeOK, SettledForCause, Exhausted
  <2>8. FailedMeansExhausted'
    BY DEF TypeOK, FailedMeansExhausted, Exhausted
  <2> QED
    BY <2>1, <2>2, <2>3, <2>4, <2>5, <2>6, <2>7, <2>8 DEF IInv
<1>18. ASSUME NEW e \in Events, StalledWhileRunning(e) PROVE IInv'
  <2> USE <1>18 DEF StalledWhileRunning, LoseLock
  <2>1. TypeOK'
    BY DEF TypeOK, Status, JobState, Phase
  <2>2. LockInv'
    BY DEF TypeOK, LockInv
  <2>3. CallbackInv'
    BY DEF TypeOK, CallbackInv, Exhausted
  <2>4. RunInv'
    BY DEF TypeOK, RunInv
  <2>5. RecordedInv'
    BY DEF TypeOK, RecordedInv, Recorded
  <2>6. LockedWithoutFaults'
    BY DEF TypeOK, LockedWithoutFaults
  <2>7. SettledForCause'
    BY DEF TypeOK, SettledForCause, Exhausted
  <2>8. FailedMeansExhausted'
    BY DEF TypeOK, FailedMeansExhausted, Exhausted
  <2> QED
    BY <2>1, <2>2, <2>3, <2>4, <2>5, <2>6, <2>7, <2>8 DEF IInv
<1>19. CASE UNCHANGED vars
  BY <1>19
  DEF TypeOK, LockInv, CallbackInv, RunInv, RecordedInv, LockedWithoutFaults,
      SettledForCause, FailedMeansExhausted, Exhausted, Recorded
<1> QED
  BY <1>1, <1>2, <1>3, <1>4, <1>5, <1>6, <1>7, <1>8, <1>9, <1>10, <1>11, <1>12,
     <1>13, <1>14, <1>15, <1>16, <1>17, <1>18, <1>19 DEF Next

-----------------------------------------------------------------------------
\* The invariant holds of every behaviour, fair or not.
THEOREM Invariance == Spec => []IInv
<1>1. Init => IInv
  BY InitIInv
<1>2. IInv /\ [Next]_vars => IInv'
  BY NextIInv
<1> QED
  BY <1>1, <1>2, PTL DEF Spec

\* Every variable keeps its type.
THEOREM TypeCorrect == Spec => []TypeOK
<1>1. IInv => TypeOK
  BY DEF IInv
<1> QED
  BY <1>1, Invariance, PTL

\* processedAt is set only on an event a run handled to its end, or whose job
\* used up every attempt.
THEOREM SettlesForCause == Spec => []SettledForCause
<1>1. IInv => SettledForCause
  BY DEF IInv
<1> QED
  BY <1>1, Invariance, PTL

\* FAILED is written only for a job that used up its attempts.
THEOREM FailureIsEarned == Spec => []FailedMeansExhausted
<1>1. IInv => FailedMeansExhausted
  BY DEF IInv
<1> QED
  BY <1>1, Invariance, PTL

\* What the run checks as one invariant: nothing is settled or reported FAILED that
\* was not dealt with or did not fail.
THEOREM OutcomesAreEarned == Spec => []OutcomeIsEarned
<1>1. TypeOK /\ SettledForCause /\ FailedMeansExhausted => OutcomeIsEarned
  BY DEF OutcomeIsEarned
<1> QED
  BY <1>1, TypeCorrect, SettlesForCause, FailureIsEarned, PTL

\* Overlapping polls alone never make two workers run one event.
THEOREM RunsAreExclusive == Spec => []NoOverlapWithoutFaults
<1>1. IInv => NoOverlapWithoutFaults
  <2> SUFFICES ASSUME IInv, faults = 0,
                      NEW v \in Workers, NEW w \in Workers, v # w, run[v] # NoEvent
               PROVE  run[v] # run[w]
    BY DEF NoOverlapWithoutFaults
  <2>1. holder[run[v]] = v
    BY DEF IInv, LockedWithoutFaults
  <2>2. CASE run[w] = NoEvent
    BY <2>2
  <2>3. CASE run[w] # NoEvent
    BY <2>1, <2>3 DEF IInv, LockedWithoutFaults
  <2> QED
    BY <2>2, <2>3
<1> QED
  BY <1>1, Invariance, PTL

-----------------------------------------------------------------------------
\* A settled event's outcome is never replaced by a failure.
THEOREM FailureIsNotLate == Spec => FailureNeverOverwrites
<1>1. ASSUME IInv, [Next]_vars, NEW e \in processed, status'[e] = "FAILED"
      PROVE  status[e] = "FAILED"
  <2> USE DEF rowVars
  <2>1. e \in Events /\ status \in [Events -> Status]
    BY <1>1 DEF IInv, TypeOK
  <2>2. ASSUME NEW f \in Events, Record(f) PROVE status[e] = "FAILED"
    BY <1>1, <2>1, <2>2 DEF Record
  <2>3. ASSUME NEW f \in Events, MarkFailed(f) PROVE status[e] = "FAILED"
    BY <1>1, <2>1, <2>3 DEF MarkFailed
  <2>4. ASSUME NEW w \in Workers, Begin(w) PROVE status[e] = "FAILED"
    BY <1>1, <2>1, <2>4 DEF Begin
  <2>5. ASSUME NEW w \in Workers, MarkProcessed(w) PROVE status[e] = "FAILED"
    BY <1>1, <2>1, <2>5 DEF MarkProcessed
  <2>6. CASE UNCHANGED status
    BY <1>1, <2>6
  <2> QED
    BY <1>1, <2>2, <2>3, <2>4, <2>5, <2>6
       DEF Next, vars, PollRead, Enqueue, AddJob, FinalizeExhausted, SkipRow, AbandonRows,
           Take, Handle, Complete, Throw, Promote, FailedCallback, LoseCallback,
           Crash, StalledAfterCrash, StalledWhileRunning, LoseLock
<1>2. IInv /\ [Next]_vars
        => [\A e \in processed : status'[e] = "FAILED" => status[e] = "FAILED"]_vars
  BY <1>1
<1> QED
  BY <1>2, Invariance, PTL DEF Spec, FailureNeverOverwrites

-----------------------------------------------------------------------------
\* Each step of the dispatcher, the queue and the worker is one step of the
\* outbox promise or leaves the promise's state alone.
LEMMA StepSimulation ==
  ASSUME IInv, [Next]_vars
  PROVE  [Promise!Next]_(Promise!vars)
<1> DEFINE abandoned == {e \in Events : Exhausted(e)}
<1> USE DEF IInv, TypeOK, RecordedInv, rowVars, jobVars, workerVars
<1>1. ASSUME NEW e \in Events, Record(e) PROVE Promise!Record(e)
  <2>1. order' = [order EXCEPT ![e] = Cardinality(Recorded) + 1] /\ order[e] = 0
    BY <1>1 DEF Record
  <2>2. Recorded' = Recorded \cup {e} /\ e \notin Recorded
    BY <2>1, RecordedCardinality DEF Recorded
  <2> QED
    BY <1>1, <2>2 DEF Record, Exhausted, Promise!Record
<1>2. ASSUME NEW w \in Workers, Handle(w) PROVE Promise!Handle(run[w])
  <2>1. run[w] \in Recorded
    BY <1>2 DEF Handle, RunInv
  <2> QED
    BY <1>2, <2>1 DEF Handle, Recorded, Exhausted, Promise!Handle
<1>3. ASSUME NEW w \in Workers, MarkProcessed(w) PROVE Promise!Settle(run[w])
  <2>1. run[w] \in completed
    BY <1>3 DEF MarkProcessed, RunInv
  <2> QED
    BY <1>3, <2>1 DEF MarkProcessed, Recorded, Exhausted, Promise!Settle
<1>4. ASSUME NEW e \in Events, Exhausted(e), MarkFailed(e),
             UNCHANGED <<order, jobVars, completed>>
      PROVE  Promise!Settle(e) \/ UNCHANGED Promise!vars
  BY <1>4 DEF MarkFailed, Recorded, Exhausted, Promise!Settle, Promise!vars
<1>5. ASSUME NEW e \in Events, jobState[e] = "active", abandoned' = abandoned \cup {e},
             UNCHANGED <<rowVars, completed>>
      PROVE  Promise!Abandon(e)
  BY <1>5 DEF Recorded, Promise!Abandon
<1>6. ASSUME abandoned' = abandoned, UNCHANGED <<order, processed, completed>>
      PROVE  UNCHANGED Promise!vars
  BY <1>6 DEF Recorded, Promise!vars
<1> DEFINE Mapped == Promise!Next \/ UNCHANGED Promise!vars
<1>7. ASSUME NEW p \in Passes, NEW e \in Events, FinalizeExhausted(p, e) PROVE Mapped
  BY <1>4, <1>7 DEF FinalizeExhausted, Promise!Next
<1>8. ASSUME NEW e \in Events, FailedCallback(e) PROVE Mapped
  BY <1>4, <1>8 DEF FailedCallback, CallbackInv, Promise!Next
<1>9. ASSUME NEW w \in Workers, Throw(w) PROVE Mapped
  <2>1. run[w] \in Events
    BY <1>9 DEF Throw, RunInv
  <2>2. CASE HoldsLock(w)
    <3>1. jobState[run[w]] = "active"
      BY <2>1, <2>2, NoWorkerAssumption DEF HoldsLock, LockInv
    <3>2. abandoned' = abandoned \/ abandoned' = abandoned \cup {run[w]}
      BY <1>9, <2>1, <2>2, <3>1, AttemptsAssumption DEF Throw, Exhausted
    <3> QED
      BY <1>5, <1>6, <1>9, <2>1, <3>1, <3>2 DEF Throw, Promise!Next
  <2>3. CASE ~HoldsLock(w)
    <3>1. abandoned' = abandoned
      BY <1>9, <2>3 DEF Throw, Exhausted
    <3> QED
      BY <1>6, <1>9, <3>1 DEF Throw
  <2> QED
    BY <2>2, <2>3
<1>10. ASSUME NEW e \in Events, LoseLock(e) PROVE Mapped
  <2>1. jobState[e] = "active" /\ UNCHANGED <<rowVars, completed>>
    BY <1>10 DEF LoseLock
  <2>2. abandoned' = abandoned \/ abandoned' = abandoned \cup {e}
    BY <1>10, <2>1, AttemptsAssumption DEF LoseLock, Exhausted
  <2> QED
    BY <1>5, <1>6, <2>1, <2>2 DEF Promise!Next
<1>11. ASSUME NEW p \in Passes, NEW e \in Events, Enqueue(p, e) PROVE Mapped
  <2>1. abandoned' = abandoned
    BY <1>11 DEF Enqueue, AddJob, Exhausted
  <2> QED
    BY <1>6, <1>11, <2>1 DEF Enqueue, AddJob
<1>12. ASSUME NEW w \in Workers, NEW e \in Events, Take(w, e) PROVE Mapped
  <2>1. abandoned' = abandoned
    BY <1>12 DEF Take, Exhausted
  <2> QED
    BY <1>6, <1>12, <2>1 DEF Take
<1>13. ASSUME NEW w \in Workers, Complete(w) PROVE Mapped
  <2>1. run[w] \in Events
    BY <1>13 DEF Complete, RunInv
  <2>2. HoldsLock(w) => jobState[run[w]] = "active"
    BY <2>1, NoWorkerAssumption DEF HoldsLock, LockInv
  <2>3. abandoned' = abandoned
    BY <1>13, <2>1, <2>2 DEF Complete, Exhausted
  <2> QED
    BY <1>6, <1>13, <2>3 DEF Complete
<1>14. ASSUME NEW e \in Events, Promote(e) PROVE Mapped
  <2>1. abandoned' = abandoned
    BY <1>14 DEF Promote, Exhausted
  <2> QED
    BY <1>6, <1>14, <2>1 DEF Promote
<1>15. ASSUME UNCHANGED <<order, processed, jobVars, completed>> PROVE Mapped
  <2>1. abandoned' = abandoned
    BY <1>15 DEF Exhausted
  <2> QED
    BY <1>6, <1>15, <2>1
<1>16. CASE \/ \E p \in Passes : PollRead(p)
            \/ \E p \in Passes, e \in Events : SkipRow(p, e)
            \/ \E p \in Passes, e \in Events : AbandonRows(p, e)
            \/ \E w \in Workers : Begin(w)
            \/ \E e \in Events : LoseCallback(e)
            \/ \E w \in Workers : Crash(w)
            \/ UNCHANGED vars
  <2>1. UNCHANGED <<order, processed, jobVars, completed>>
    BY <1>16 DEF PollRead, SkipRow, AbandonRows, Begin, LoseCallback, Crash, vars
  <2> QED
    BY <1>15, <2>1
<1>17. CASE \E e \in Events : StalledAfterCrash(e) \/ StalledWhileRunning(e)
  BY <1>10, <1>17 DEF StalledAfterCrash, StalledWhileRunning
<1>18. CASE \/ \E e \in Events : Record(e)
            \/ \E w \in Workers : Handle(w)
            \/ \E w \in Workers : MarkProcessed(w)
  <2>1. \A w \in Workers : Handle(w) \/ MarkProcessed(w) => run[w] \in Events
    BY DEF Handle, MarkProcessed, RunInv
  <2> QED
    BY <1>1, <1>2, <1>3, <1>18, <2>1 DEF Promise!Next
<1> QED
  BY <1>7, <1>8, <1>9, <1>11, <1>12, <1>13, <1>14, <1>16, <1>17, <1>18 DEF Next

\* The dispatcher implements OutboxPromise: at-least-once handling, and no row
\* settled without a handled or an abandoned event behind it.
THEOREM Refinement == Spec => KeepsPromise
<1>1. Init => Promise!Init
  BY DEF Init, Recorded, Exhausted, Promise!Init
<1>2. IInv /\ [Next]_vars => [Promise!Next]_(Promise!vars)
  BY StepSimulation
<1> QED
  BY <1>1, <1>2, Invariance, PTL DEF Spec, KeepsPromise, Promise!Spec
-----------------------------------------------------------------------------
(* MCAudits: a behaviour is one of an audit or of the alerts of a scene.   *)
(* The variables have the names v1, v2, ... of the composition; each       *)
(* section says which is which.                                            *)

LEMMA PartInits ==
  ASSUME AuditsInit
  PROVE  /\ part = "audit" => Audit!Init
         /\ part = "alerts" => Alerts!Init
BY DEF AuditsInit

LEMMA PartSteps ==
  ASSUME [AuditsNext]_auditVars
  PROVE  /\ part' = part
         /\ part = "audit" => (Audit!Next \/ UNCHANGED <<v1, v2, v3, v4, v5, v6, v7, v8, v9, v10>>)
         /\ part = "alerts" => (Alerts!Next \/ UNCHANGED <<v1, v2, v3, v4, v5, v6, v7, v8, v9, v10>>)
BY DEF AuditsNext, auditVars

\* A bounded set of numbers has a greatest one: the least of its bounds.
LEMMA GreatestOfBounded ==
  ASSUME NEW S \in SUBSET Nat, S # {}, NEW n \in Nat, \A s \in S : s <= n
  PROVE  \E s \in S : \A t \in S : s >= t
<1> DEFINE Bounds == {m \in Nat : \A s \in S : s <= m}
<1>1. PICK m \in Bounds : \A l \in Bounds : ~(<<l, m>> \in OpToRel(<, Nat))
  <2>1. Bounds \in SUBSET Nat /\ Bounds # {}
    OBVIOUS
  <2> HIDE DEF Bounds
  <2> QED
    BY <2>1, NatLessThanWellFounded, WFMin
<1>2. m \in Nat /\ \A s \in S : s <= m
  BY <1>1
<1>3. CASE m \in S
  BY <1>2, <1>3
<1>4. CASE m \notin S
  <2>1. \A s \in S : s <= m - 1
    BY <1>2, <1>4
  <2>2. m - 1 \in Nat
    <3>1. PICK s \in S : s \in Nat /\ s <= m - 1
      BY <2>1
    <3> QED
      BY <1>2, <3>1
  <2>3. m - 1 \in Bounds
    BY <2>1, <2>2
  <2>4. <<m - 1, m>> \in OpToRel(<, Nat)
    BY <1>2, <2>2 DEF OpToRel
  <2> QED
    BY <1>1, <2>3, <2>4
<1> QED
  BY <1>3, <1>4
-----------------------------------------------------------------------------
(* ContinuityAudit: v1 is the order, v2 the texts, v3 the checkpoints, v4  *)
(* the alerts, v6 the queue, v7 the audit that runs, v8 whether something   *)
(* happened that an audit does not make good.                              *)
(*                                                                         *)
(* A scene is settled when neither it nor one before it waits for its      *)
(* audit.  What a settled scene contradicts is an alert, and its           *)
(* checkpoint has the claims an audit of all scenes would have there,      *)
(* unless the audit that runs has yet to come to it (RightInv).  This      *)
(* holds because that audit read settled scenes as they are (ReadInv), and *)
(* carries the claims up to the scene it is at (StepInv).  Where an active *)
(* alert quotes its scene as it was, that scene waits or is being audited; *)
(* so does one of the earlier scenes, where it quotes none as it is        *)
(* (QuotesInv).                                                            *)

\* The claims after the i-th scene, as a recursive function gives them.
AreClaimsAfter(f, n, sequence, text) ==
  f = [i \in 0..n |-> IF i = 0 THEN <<>>
                      ELSE Audit!Merge(f[i - 1], Audit!Claims(sequence[i], text[sequence[i]]))]

\* There is such a function for every length.
LEMMA ClaimsExist ==
  ASSUME NEW n \in Nat, NEW sequence, NEW text
  PROVE  \E f : AreClaimsAfter(f, n, sequence, text)
<1> DEFINE Bad == {k \in Nat : ~ \E f : AreClaimsAfter(f, k, sequence, text)}
<1>1. SUFFICES ASSUME Bad # {} PROVE FALSE
  OBVIOUS
<1>2. PICK k \in Bad : \A l \in Bad : ~(<<l, k>> \in OpToRel(<, Nat))
  <2>1. Bad \in SUBSET Nat
    OBVIOUS
  <2> HIDE DEF Bad
  <2> QED
    BY <1>1, <2>1, NatLessThanWellFounded, WFMin
<1>3. k \in Nat /\ ~ \E f : AreClaimsAfter(f, k, sequence, text)
  BY <1>2
<1>4. CASE k = 0
  <2> DEFINE f == [i \in 0..0 |-> <<>>]
  <2>1. \A i \in 0..0 : i = 0
    OBVIOUS
  <2>2. AreClaimsAfter(f, 0, sequence, text)
    BY <2>1 DEF AreClaimsAfter
  <2> QED
    BY <1>3, <1>4, <2>2
<1>5. CASE k # 0
  <2>1. k - 1 \in Nat
    BY <1>3, <1>5
  <2>2. <<k - 1, k>> \in OpToRel(<, Nat)
    BY <1>3, <2>1 DEF OpToRel
  <2>3. PICK f : AreClaimsAfter(f, k - 1, sequence, text)
    BY <1>2, <2>1, <2>2
  <2> DEFINE g == [i \in 0..k |-> IF i = k THEN Audit!Merge(f[k - 1], Audit!Claims(sequence[k], text[sequence[k]]))
                                  ELSE f[i]]
  <2>4. ASSUME NEW i \in 0..k
        PROVE  g[i] = IF i = 0 THEN <<>>
                      ELSE Audit!Merge(g[i - 1], Audit!Claims(sequence[i], text[sequence[i]]))
    <3>1. CASE i = k
      <4>1. k - 1 \in 0..k /\ k - 1 # k
        BY <1>3, <2>1
      <4>2. g[k] = Audit!Merge(f[k - 1], Audit!Claims(sequence[k], text[sequence[k]])) /\ g[k - 1] = f[k - 1]
        BY <1>3, <4>1
      <4> QED
        BY <1>5, <3>1, <4>2
    <3>2. CASE i # k
      <4>1. i \in 0..(k - 1) /\ g[i] = f[i]
        BY <1>3, <3>2
      <4>2. f[i] = IF i = 0 THEN <<>> ELSE Audit!Merge(f[i - 1], Audit!Claims(sequence[i], text[sequence[i]]))
        BY <4>1, <2>3 DEF AreClaimsAfter
      <4>3. CASE i = 0
        BY <4>1, <4>2, <4>3
      <4>4. CASE i # 0
        <5>1. i - 1 \in 0..k /\ i - 1 # k
          BY <1>3, <4>1, <4>4
        <5>2. g[i - 1] = f[i - 1]
          BY <5>1
        <5> QED
          BY <4>1, <4>2, <4>4, <5>2
      <4> QED
        BY <4>3, <4>4
    <3> QED
      BY <3>1, <3>2
  <2>5. g = [i \in 0..k |-> g[i]]
    OBVIOUS
  <2>6. AreClaimsAfter(g, k, sequence, text)
    <3> HIDE DEF g
    <3> QED
      BY <2>4, <2>5 DEF AreClaimsAfter
  <2> QED
    BY <1>3, <2>6
<1> QED
  BY <1>4, <1>5

LEMMA ClaimsAre ==
  ASSUME NEW sequence, NEW text, Len(sequence) \in Nat
  PROVE  /\ Audit!ClaimsAfter(sequence, text)[0] = <<>>
         /\ \A i \in 1..Len(sequence) :
              Audit!ClaimsAfter(sequence, text)[i]
                = Audit!Merge(Audit!ClaimsAfter(sequence, text)[i - 1], Audit!Claims(sequence[i], text[sequence[i]]))
<1> DEFINE f == Audit!ClaimsAfter(sequence, text)
<1>1. AreClaimsAfter(f, Len(sequence), sequence, text)
  <2>1. f = CHOOSE g : AreClaimsAfter(g, Len(sequence), sequence, text)
    BY Zenon DEF Audit!ClaimsAfter, AreClaimsAfter
  <2> HIDE DEF f
  <2> QED
    BY <2>1, ClaimsExist
<1>2. 0 \in 0..Len(sequence) /\ \A i \in 1..Len(sequence) : i \in 0..Len(sequence) /\ i # 0
  OBVIOUS
<1> HIDE DEF f
<1>3. /\ f[0] = <<>>
      /\ \A i \in 1..Len(sequence) : f[i] = Audit!Merge(f[i - 1], Audit!Claims(sequence[i], text[sequence[i]]))
  BY <1>1, <1>2 DEF AreClaimsAfter
<1> QED
  BY <1>3 DEF f

\* The claims after a scene depend on what comes up to it.
LEMMA ClaimsOfPrefix ==
  ASSUME NEW sequence, NEW text, NEW other, NEW changed, NEW n \in Nat,
         Len(sequence) \in Nat, Len(other) \in Nat, n <= Len(sequence), n <= Len(other),
         \A j \in 1..n : other[j] = sequence[j] /\ changed[sequence[j]] = text[sequence[j]]
  PROVE  \A i \in 0..n : Audit!ClaimsAfter(other, changed)[i] = Audit!ClaimsAfter(sequence, text)[i]
<1> DEFINE f == Audit!ClaimsAfter(sequence, text)
           g == Audit!ClaimsAfter(other, changed)
           Bad == {i \in 0..n : g[i] # f[i]}
<1>1. /\ f[0] = <<>> /\ g[0] = <<>>
      /\ \A i \in 1..Len(sequence) : f[i] = Audit!Merge(f[i - 1], Audit!Claims(sequence[i], text[sequence[i]]))
      /\ \A i \in 1..Len(other) : g[i] = Audit!Merge(g[i - 1], Audit!Claims(other[i], changed[other[i]]))
  <2>1. /\ f[0] = <<>>
        /\ \A i \in 1..Len(sequence) : f[i] = Audit!Merge(f[i - 1], Audit!Claims(sequence[i], text[sequence[i]]))
    BY ClaimsAre, Zenon
  <2>2. /\ g[0] = <<>>
        /\ \A i \in 1..Len(other) : g[i] = Audit!Merge(g[i - 1], Audit!Claims(other[i], changed[other[i]]))
    BY ClaimsAre, Zenon
  <2> QED
    BY <2>1, <2>2
<1> HIDE DEF f, g
<1>2. SUFFICES ASSUME Bad # {} PROVE FALSE
  BY DEF f, g
<1>3. PICK k \in Bad : \A l \in Bad : ~(<<l, k>> \in OpToRel(<, Nat))
  <2>1. Bad \in SUBSET Nat
    OBVIOUS
  <2> HIDE DEF Bad
  <2> QED
    BY <1>2, <2>1, NatLessThanWellFounded, WFMin
<1>4. k \in 0..n /\ g[k] # f[k] /\ k # 0
  BY <1>1, <1>3
<1>5. k - 1 \in 0..n /\ k \in 1..n /\ k \in 1..Len(sequence) /\ k \in 1..Len(other)
  BY <1>4
<1>6. <<k - 1, k>> \in OpToRel(<, Nat)
  BY <1>4, <1>5 DEF OpToRel
<1>7. g[k - 1] = f[k - 1]
  BY <1>3, <1>5, <1>6
<1>8. other[k] = sequence[k] /\ changed[other[k]] = text[sequence[k]]
  BY <1>5
<1> QED
  BY <1>1, <1>4, <1>5, <1>7, <1>8, Zenon

\* A finite set in some order.
LEMMA SameFinite ==
  ASSUME NEW S
  PROVE  /\ Audit!IsFiniteSet(S) <=> IsFiniteSet(S)
         /\ Audit!Cardinality(S) = Cardinality(S)
BY Zenon DEF Audit!IsFiniteSet, IsFiniteSet, Audit!Cardinality, Cardinality

LEMMA SetToSeqIs ==
  ASSUME NEW S, IsFiniteSet(S)
  PROVE  Audit!SetToSeq(S) \in Seq(S)
<1>1. Cardinality(S) \in Nat /\ ExistsBijection(1..Cardinality(S), S)
  BY FS_CardinalityType
<1>2. PICK f : f \in [1..Cardinality(S) -> S] /\ Audit!IsInjective(f)
  BY <1>1 DEF ExistsBijection, Bijection, Injection, IsInjective, Audit!IsInjective
<1>3. Audit!SetToSeq(S) \in [1..Cardinality(S) -> S]
  <2> DEFINE F == [1..Audit!Cardinality(S) -> S]
  <2>1. F = [1..Cardinality(S) -> S]
    BY SameFinite
  <2>2. Audit!SetToSeq(S) = CHOOSE g \in F : Audit!IsInjective(g)
    BY Zenon DEF Audit!SetToSeq
  <2> HIDE DEF F
  <2>3. f \in F
    BY <1>2, <2>1
  <2>4. (CHOOSE g \in F : Audit!IsInjective(g)) \in F
    BY <1>2, <2>3, Zenon
  <2> QED
    BY <2>1, <2>2, <2>4
<1> QED
  BY <1>1, <1>3

LEMMA ClaimsAreFinite ==
  ASSUME NEW s, NEW t, IsFiniteSet(DOMAIN t)
  PROVE  IsFiniteSet(Audit!Claims(s, t))
<1> DEFINE claim == [f \in DOMAIN t |-> [field |-> f, value |-> t[f], scene |-> s, text |-> t]]
<1>1. claim \in Surjection(DOMAIN t, Audit!Claims(s, t))
  BY DEF Surjection, Audit!Claims
<1> QED
  BY <1>1, FS_Surjection

\* What is merged is one of the claims there were or a new one.
LEMMA MergeIs ==
  ASSUME NEW S, NEW claims \in Seq(S), NEW new \in SUBSET S, IsFiniteSet(new)
  PROVE  Audit!Merge(claims, new) \in Seq(S)
<1> DEFINE same(i) == {n \in new : n.field = claims[i].field}
           replaced == [i \in DOMAIN claims |-> IF same(i) = {} THEN claims[i] ELSE CHOOSE n \in same(i) : TRUE]
           added == {n \in new : \A i \in DOMAIN claims : claims[i].field # n.field}
           all == replaced \o Audit!SetToSeq(added)
           from == 1 + (IF Len(all) > MaxClaims THEN Len(all) - MaxClaims ELSE 0)
<1>1. Audit!Merge(claims, new) = SubSeq(all, from, Len(all))
  BY Zenon DEF Audit!Merge
<1>2. replaced \in Seq(S)
  <2>1. ASSUME NEW i \in DOMAIN claims PROVE replaced[i] \in S
    <3>1. CASE same(i) = {}
      BY <3>1
    <3>2. CASE same(i) # {}
      <4>1. (CHOOSE n \in same(i) : TRUE) \in same(i)
        BY <3>2, Zenon
      <4> QED
        BY <3>2, <4>1
    <3> QED
      BY <3>1, <3>2
  <2>2. DOMAIN replaced = 1..Len(claims) /\ Len(claims) \in Nat /\ DOMAIN claims = 1..Len(claims)
    OBVIOUS
  <2>3. replaced = [i \in 1..Len(claims) |-> replaced[i]]
    BY <2>2
  <2> HIDE DEF replaced
  <2> QED
    BY <2>1, <2>2, <2>3
<1>3. Audit!SetToSeq(added) \in Seq(S)
  <2>1. IsFiniteSet(added) /\ added \in SUBSET S
    BY FS_Subset
  <2> HIDE DEF added
  <2>2. Audit!SetToSeq(added) \in Seq(added)
    BY <2>1, SetToSeqIs
  <2> QED
    BY <2>1, <2>2
<1> HIDE DEF replaced, added
<1>4. all \in Seq(S)
  BY <1>2, <1>3
<1>5. MaxClaims \in Nat
  BY AuditsAssumption DEF Audit!AuditAssumption
<1>6. Len(all) \in Nat /\ from \in Nat /\ from >= 1
  BY <1>4, <1>5
<1> HIDE DEF all, from
<1> QED
  BY <1>1, <1>4, <1>6

IsCurrent(q, text) == text[q.scene] = q.text

\* The claims after a scene are those of scenes up to it, and what they quote is current.
LEMMA ClaimsAreSaid ==
  ASSUME NEW sequence \in Seq(AuditedScenes), NEW text \in [AuditedScenes -> SceneClaims],
         NEW n \in 0..Len(sequence), NEW q \in Audit!Range(Audit!ClaimsAfter(sequence, text)[n])
  PROVE  \E j \in 1..n : q.scene = sequence[j] /\ IsCurrent(q, text)
<1> DEFINE f == Audit!ClaimsAfter(sequence, text)
           Said(i) == UNION {Audit!Claims(sequence[j], text[sequence[j]]) : j \in 1..i}
           Bad == {i \in 0..Len(sequence) : f[i] \notin Seq(Said(i))}
<1>1. /\ f[0] = <<>>
      /\ \A i \in 1..Len(sequence) : f[i] = Audit!Merge(f[i - 1], Audit!Claims(sequence[i], text[sequence[i]]))
  <2>1. Len(sequence) \in Nat
    OBVIOUS
  <2> QED
    BY <2>1, ClaimsAre, Zenon
<1> HIDE DEF f
<1>2. \A i \in 0..Len(sequence) : f[i] \in Seq(Said(i))
  <2>1. SUFFICES ASSUME Bad # {} PROVE FALSE
    BY Zenon
  <2>2. PICK k \in Bad : \A l \in Bad : ~(<<l, k>> \in OpToRel(<, Nat))
    <3>1. Bad \in SUBSET Nat
      <4>1. \A i \in 0..Len(sequence) : i \in Nat
        OBVIOUS
      <4> QED
        BY <4>1, Zenon
    <3> HIDE DEF Bad
    <3> QED
      BY <2>1, <3>1, NatLessThanWellFounded, WFMin
  <2>3. k \in 0..Len(sequence) /\ f[k] \notin Seq(Said(k))
    BY <2>2, Zenon
  <2>4. k # 0
    <3> HIDE DEF Said
    <3>1. <<>> \in Seq(Said(0))
      OBVIOUS
    <3> QED
      BY <1>1, <2>3, <3>1, Zenon
  <2>5. k - 1 \in 0..Len(sequence) /\ k \in 1..Len(sequence) /\ k - 1 \in Nat /\ k \in Nat /\ k - 1 < k
    BY <2>3, <2>4
  <2>6. <<k - 1, k>> \in OpToRel(<, Nat)
    BY <2>5 DEF OpToRel
  <2>7. f[k - 1] \in Seq(Said(k - 1))
    BY <2>2, <2>5, <2>6, Zenon
  <2>8. Said(k - 1) \subseteq Said(k) /\ Audit!Claims(sequence[k], text[sequence[k]]) \in SUBSET Said(k)
    BY <2>5
  <2>9. IsFiniteSet(Audit!Claims(sequence[k], text[sequence[k]]))
    <3>1. sequence[k] \in AuditedScenes /\ text[sequence[k]] \in SceneClaims
      BY <2>5
    <3>2. IsFiniteSet(DOMAIN text[sequence[k]])
      BY <3>1, AuditsAssumption, SameFinite, Zenon DEF Audit!AuditAssumption
    <3> QED
      BY <3>2, ClaimsAreFinite
  <2> HIDE DEF Said
  <2>10. f[k - 1] \in Seq(Said(k))
    BY <2>7, <2>8
  <2>11. f[k] \in Seq(Said(k))
    BY <1>1, <2>5, <2>8, <2>9, <2>10, MergeIs
  <2> QED
    BY <2>3, <2>11
<1>3. q \in Said(n)
  <2>1. f[n] \in Seq(Said(n)) /\ q \in Audit!Range(f[n])
    BY <1>2 DEF f
  <2> HIDE DEF Said
  <2> QED
    BY <2>1 DEF Audit!Range
<1> QED
  BY <1>3 DEF Audit!Claims, IsCurrent
-----------------------------------------------------------------------------
IsCheckpoint(held) == held = [valid |-> held.valid, text |-> held.text, claims |-> held.claims]

IsAuditJob(held) ==
  \/ held = Audit!Idle
  \/ /\ held.step \in {"resolving", "extracting", "recording", "storing", "ending"}
     /\ held = [step |-> held.step, claims |-> held.claims, next |-> held.next, found |-> held.found,
                active |-> held.active, affected |-> held.affected, target |-> held.target, scenes |-> held.scenes]
     /\ Len(held.scenes) \in Nat

IsOrder(sequence) ==
  sequence \in Seq(AuditedScenes) /\ \A i, j \in 1..Len(sequence) : i # j => sequence[i] # sequence[j]

AuditTypes ==
  /\ IsOrder(v1)
  /\ v2 \in [AuditedScenes -> SceneClaims]
  /\ v3 = [s \in AuditedScenes |-> v3[s]] /\ \A s \in AuditedScenes : IsCheckpoint(v3[s])
  /\ IsAuditJob(v7)

\* No scene up to the i-th waits for its audit.
Settled(i, sequence, queued) == i \in 0..Len(sequence) /\ \A j \in 1..i : sequence[j] \notin queued

ClaimsAt(i, sequence, text) == Audit!ClaimsAfter(sequence, text)[i]

\* What the i-th scene contradicts is reported.
ToldIn(rows, i, sequence, text) ==
  \A p \in Audit!Range(ClaimsAt(i - 1, sequence, text)), n \in Audit!Claims(sequence[i], text[sequence[i]]) :
    Audit!Contradicts(p, n) => Audit!Reported(rows, p, n)

\* The row is active, or quotes another earlier scene.
Standing(rows, p, n) ==
  LET k == Audit!Fingerprint(p, n)
  IN  /\ k \in DOMAIN rows
      /\ rows[k].status = "ACTIVE" \/ \E z \in rows[k].scenes : z # p.scene

\* What the i-th scene contradicts was found; a row that was active then still stands.
FoundIn(held, rows, i, sequence, text) ==
  \A p \in Audit!Range(ClaimsAt(i - 1, sequence, text)), n \in Audit!Claims(sequence[i], text[sequence[i]]) :
    Audit!Contradicts(p, n) =>
      /\ [first |-> p, second |-> n] \in held.found
      /\ Audit!Fingerprint(p, n) \in held.active => Standing(rows, p, n)

\* The i-th scene is dealt with: its contradictions are alerts, and its checkpoint, when
\* it has one, is what an audit of all scenes would store.
Right(i, sequence, text, checkpoint, alerts) ==
  /\ ToldIn(alerts, i, sequence, text)
  /\ checkpoint[sequence[i]].valid => checkpoint[sequence[i]].claims = ClaimsAt(i, sequence, text)

\* The first scene the audit that runs has yet to deal with.
Reach(held, sequence) ==
  CASE held.step = "idle" -> Len(sequence) + 1
    [] held.step = "resolving" -> held.target
    [] OTHER -> held.next

RightInv(sequence, text, checkpoint, alerts, queued, held) ==
  \A i \in 1..Len(sequence) :
    Settled(i, sequence, queued) /\ i < Reach(held, sequence) => Right(i, sequence, text, checkpoint, alerts)

\* The scenes an audit read are those in their order, unless all of them wait for
\* another one.
Aligned(held, sequence, queued) ==
  \/ \A i \in 1..Len(sequence) : sequence[i] \in queued
  \/ Len(held.scenes) = Len(sequence) /\ \A i \in 1..Len(sequence) : held.scenes[i].scene = sequence[i]

\* What was read is still so, or waits for another audit.
ReadInv(sequence, text, queued, held) ==
  held.step # "idle" =>
    /\ Aligned(held, sequence, queued)
    /\ \A i \in 1..Len(held.scenes) :
         held.scenes[i].scene \in queued \/ held.scenes[i].text = text[held.scenes[i].scene]
    /\ held.target \in 1..Len(held.scenes)

StepInv(sequence, text, alerts, queued, held) ==
  /\ held.step = "extracting" =>
       /\ held.next \in 1..Len(held.scenes)
       /\ Settled(held.next - 1, sequence, queued) => held.claims = ClaimsAt(held.next - 1, sequence, text)
  /\ held.step \in {"recording", "storing"} =>
       /\ held.next \in 1..Len(held.scenes)
       /\ Settled(held.next, sequence, queued) => held.claims = ClaimsAt(held.next, sequence, text)
  /\ held.step = "recording" /\ Settled(held.next, sequence, queued) => FoundIn(held, alerts, held.next, sequence, text)
  /\ held.step = "storing" /\ Settled(held.next, sequence, queued) => ToldIn(alerts, held.next, sequence, text)
  /\ held.step = "ending" => held.next \in Nat /\ \A i \in 1..Len(sequence) : Settled(i, sequence, queued) => i < held.next

\* Scenes whose outdated alerts an audit will find.
Awaited(queued, held) ==
  queued \cup (CASE held.step = "idle" -> {}
                 [] held.step = "resolving" -> {held.scenes[held.target].scene}
                 [] OTHER -> held.affected)

\* An active alert quotes its scene, and one before it, as it is, or an audit is to come.
Quoting(k, row, text, awaited) ==
  /\ text[k.scene] = k.newer \/ k.scene \in awaited
  /\ \E z \in row.scenes : text[z] = k.older \/ z \in awaited

FoundQuotes(found, text, awaited) ==
  \A one \in found : \A q \in {one.first, one.second} : IsCurrent(q, text) \/ q.scene \in awaited

QuotesInv(text, alerts, queued, held) ==
  /\ \A k \in DOMAIN alerts :
       alerts[k].status = "ACTIVE" => Quoting(k, alerts[k], text, Awaited(queued, held))
  /\ held.step = "recording" => FoundQuotes(held.found, text, Awaited(queued, held))

AuditInv ==
  v8 \in BOOLEAN /\ (~v8 =>
    /\ AuditTypes
    /\ RightInv(v1, v2, v3, v4, v6, v7)
    /\ ReadInv(v1, v2, v6, v7)
    /\ StepInv(v1, v2, v4, v6, v7)
    /\ QuotesInv(v2, v4, v6, v7))

LEMMA OrderIs ==
  ASSUME NEW sequence, IsOrder(sequence)
  PROVE  /\ Len(sequence) \in Nat /\ DOMAIN sequence = 1..Len(sequence)
         /\ \A i \in 1..Len(sequence) : sequence[i] \in AuditedScenes
BY DEF IsOrder

LEMMA ReportedIsStanding ==
  ASSUME NEW rows, NEW p, NEW n
  PROVE  Audit!Reported(rows, p, n) <=>
           /\ Standing(rows, p, n) /\ p.scene \in rows[Audit!Fingerprint(p, n)].scenes
BY DEF Audit!Reported, Standing

LEMMA ArrangedIs ==
  ASSUME NEW S \in SUBSET AuditedScenes, NEW sequence \in Audit!SetToSeqs(S)
  PROVE  /\ IsOrder(sequence) /\ \A i \in 1..Len(sequence) : sequence[i] \in S
<1>1. IsFiniteSet(S)
  BY FS_Subset, AuditsAssumption, SameFinite DEF Audit!AuditAssumption
<1>2. Audit!Cardinality(S) \in Nat
  BY <1>1, FS_CardinalityType, SameFinite
<1>3. /\ sequence \in [1..Audit!Cardinality(S) -> S]
      /\ \A i, j \in 1..Audit!Cardinality(S) : i # j => sequence[i] # sequence[j]
  BY Zenon DEF Audit!SetToSeqs
<1>4. Len(sequence) = Audit!Cardinality(S) /\ sequence \in Seq(S)
  BY <1>2, <1>3
<1> QED
  BY <1>3, <1>4 DEF IsOrder

\* Before the first scene there are no claims, and all of them wait.
LEMMA AuditStart ==
  ASSUME Audit!Init
  PROVE  AuditInv
<1>1. IsOrder(v1) /\ \A i \in 1..Len(v1) : v1[i] \in AuditedScenes
  BY ArrangedIs DEF Audit!Init
<1>2. v8 = FALSE /\ DOMAIN v4 = {} /\ v6 = AuditedScenes /\ v7 = [step |-> "idle"]
  BY DEF Audit!Init, Audit!Idle
<1>3. v2 \in [AuditedScenes -> SceneClaims]
  BY DEF Audit!Init
<1>4. v3 = [s \in AuditedScenes |-> v3[s]] /\ \A s \in AuditedScenes : IsCheckpoint(v3[s])
  <2>1. v3 = [s \in AuditedScenes |-> Audit!NoCheckpoint(s)]
    BY DEF Audit!Init
  <2>2. \A s \in AuditedScenes : v3[s] = [valid |-> FALSE, text |-> v2[s], claims |-> <<>>]
    BY <2>1 DEF Audit!NoCheckpoint
  <2> QED
    BY <2>1, <2>2 DEF IsCheckpoint
<1>5. RightInv(v1, v2, v3, v4, v6, v7)
  <2>1. \A i \in 1..Len(v1) : ~Settled(i, v1, v6)
    BY <1>1, <1>2, OrderIs DEF Settled
  <2> QED
    BY <2>1 DEF RightInv
<1>6. ReadInv(v1, v2, v6, v7) /\ StepInv(v1, v2, v4, v6, v7) /\ QuotesInv(v2, v4, v6, v7)
  BY <1>2 DEF ReadInv, StepInv, QuotesInv
<1> QED
  BY <1>1, <1>2, <1>3, <1>4, <1>5, <1>6 DEF AuditInv, AuditTypes, IsAuditJob, Audit!Idle

\* Where a scene is settled, an audit read the scenes up to it as they are.
LEMMA ReadAsIs ==
  ASSUME AuditInv, ~v8, v7.step # "idle", NEW i \in 1..Len(v1), Settled(i, v1, v6)
  PROVE  /\ Len(v7.scenes) = Len(v1) /\ \A j \in 1..Len(v1) : v7.scenes[j].scene = v1[j]
         /\ \A j \in 1..i : v7.scenes[j].text = v2[v1[j]]
<1>1. IsOrder(v1) /\ ReadInv(v1, v2, v6, v7)
  BY DEF AuditInv, AuditTypes
<1>2. i \in 1..i /\ \A j \in 1..i : v1[j] \notin v6 /\ j \in 1..Len(v1)
  BY <1>1, OrderIs DEF Settled
<1>3. Len(v7.scenes) = Len(v1) /\ \A j \in 1..Len(v1) : v7.scenes[j].scene = v1[j]
  BY <1>1, <1>2 DEF ReadInv, Aligned
<1> QED
  BY <1>1, <1>2, <1>3 DEF ReadInv

LEMMA AuditJobIs ==
  ASSUME AuditInv, ~v8, v7.step # "idle"
  PROVE  /\ v7 = [step |-> v7.step, claims |-> v7.claims, next |-> v7.next, found |-> v7.found,
                  active |-> v7.active, affected |-> v7.affected, target |-> v7.target, scenes |-> v7.scenes]
         /\ Len(v7.scenes) \in Nat
BY DEF AuditInv, AuditTypes, IsAuditJob, Audit!Idle

\* An invalidated checkpoint.
LEMMA Invalid ==
  ASSUME NEW held, IsCheckpoint(held), NEW cut, cut = [held EXCEPT !.valid = FALSE]
  PROVE  IsCheckpoint(cut) /\ cut.claims = held.claims /\ ~cut.valid
<1>1. ASSUME NEW flag
      PROVE  [held EXCEPT !.valid = flag] = [valid |-> flag, text |-> held.text, claims |-> held.claims]
  BY DEF IsCheckpoint
<1>2. cut = [valid |-> FALSE, text |-> held.text, claims |-> held.claims]
  BY <1>1, Zenon
<1> QED
  BY <1>2 DEF IsCheckpoint

\* auditScene reads the scenes: one scene less waits, and the audit has to deal with it.
LEMMA LoadKeeps ==
  ASSUME AuditInv, NEW s \in AuditedScenes, Audit!LoadScenes(s)
  PROVE  AuditInv'
<1>1. /\ v7.step = "idle" /\ s \in v6 /\ UNCHANGED <<v1, v2, v3, v4, v8>> /\ v6' = v6 \ {s}
      /\ \E i \in DOMAIN v1 : v1[i] = s
  BY DEF Audit!LoadScenes, Audit!Idle, Audit!Range
<1>2. CASE v8
  BY <1>1, <1>2 DEF AuditInv
<1>3. CASE ~v8
  <2> DEFINE t == CHOOSE i \in DOMAIN v1 : v1[i] = s
             read == [i \in DOMAIN v1 |-> [scene |-> v1[i], text |-> v2[v1[i]]]]
  <2>1. AuditTypes /\ RightInv(v1, v2, v3, v4, v6, v7) /\ QuotesInv(v2, v4, v6, v7)
    BY <1>3 DEF AuditInv
  <2>2. Len(v1) \in Nat /\ DOMAIN v1 = 1..Len(v1) /\ \A i, j \in 1..Len(v1) : i # j => v1[i] # v1[j]
    BY <2>1, OrderIs DEF AuditTypes, IsOrder
  <2>3. t \in 1..Len(v1) /\ v1[t] = s
    BY <1>1, <2>2
  <2>4. v7' = [step |-> "resolving", claims |-> <<>>, next |-> 0, found |-> {}, active |-> {},
               affected |-> {}, target |-> t, scenes |-> read]
    BY Zenon DEF Audit!LoadScenes
  <2>5. /\ Len(read) = Len(v1)
        /\ \A i \in 1..Len(v1) : read[i].scene = v1[i] /\ read[i].text = v2[v1[i]]
    BY <2>2
  <2> HIDE DEF t, read
  <2>6. AuditTypes'
    BY <1>1, <2>1, <2>2, <2>4, <2>5 DEF AuditTypes, IsAuditJob
  <2>7. RightInv(v1, v2, v3, v4, v6, v7)'
    <3>1. ASSUME NEW i \in 1..Len(v1), Settled(i, v1, v6'), i < t
          PROVE  Settled(i, v1, v6)
      BY <1>1, <2>2, <2>3, <3>1 DEF Settled
    <3>2. Reach(v7, v1)' = t /\ Reach(v7, v1) = Len(v1) + 1
      BY <1>1, <2>4 DEF Reach
    <3> QED
      BY <1>1, <2>1, <2>2, <2>3, <3>1, <3>2 DEF RightInv
  <2>8. ReadInv(v1, v2, v6, v7)' /\ StepInv(v1, v2, v4, v6, v7)'
    BY <1>1, <2>3, <2>4, <2>5 DEF ReadInv, Aligned, StepInv
  <2>9. QuotesInv(v2, v4, v6, v7)'
    <3>1. Awaited(v6, v7) \subseteq Awaited(v6, v7)'
      BY <1>1, <2>3, <2>4, <2>5 DEF Awaited
    <3> QED
      BY <1>1, <2>1, <2>4, <3>1 DEF QuotesInv, Quoting
  <2> QED
    BY <1>1, <1>3, <2>6, <2>7, <2>8, <2>9 DEF AuditInv
<1> QED
  BY <1>2, <1>3 DEF AuditInv

\* resolveContinuityResumePoint: the checkpoint it resumes behind is right, when that
\* scene is settled; the others only lose theirs.
LEMMA ResumeKeeps ==
  ASSUME AuditInv, Audit!Resume
  PROVE  AuditInv'
<1>1. v7.step = "resolving" /\ UNCHANGED <<v1, v2, v4, v6, v8>>
  BY Zenon DEF Audit!Resume
<1>2. CASE v8
  BY <1>1, <1>2 DEF AuditInv
<1>3. CASE ~v8
  <2> DEFINE good == {i \in Audit!Candidates : Audit!Holds(v3[v7.scenes[i].scene], v7.scenes[i].text)}
             from == IF good = {} THEN 0 ELSE CHOOSE i \in good : \A j \in good : j <= i
             failed == {v7.scenes[i].scene : i \in {j \in Audit!Candidates : j > from}}
             affected == {v7.scenes[i].scene : i \in Audit!Behind(from)..Len(v7.scenes)}
             claims == IF from = 0 THEN <<>> ELSE v3[v7.scenes[from].scene].claims
  <2>1. /\ AuditTypes /\ RightInv(v1, v2, v3, v4, v6, v7) /\ QuotesInv(v2, v4, v6, v7)
        /\ ReadInv(v1, v2, v6, v7)
    BY <1>3 DEF AuditInv
  <2>2. /\ v7' = [v7 EXCEPT !.step = "extracting", !.next = Audit!Behind(from), !.affected = affected,
                            !.claims = claims]
        /\ v3' = [s \in AuditedScenes |-> IF s \in failed THEN [v3[s] EXCEPT !.valid = FALSE] ELSE v3[s]]
    BY Zenon DEF Audit!Resume
  <2>3. v7.target \in 1..Len(v7.scenes) /\ Len(v7.scenes) \in Nat
    BY <1>1, <1>3, <2>1, AuditJobIs DEF ReadInv
  <2>4. /\ from \in 0..(v7.target - 1)
        /\ from # 0 => v3[v7.scenes[from].scene].valid
    <3>1. good \subseteq 1..(v7.target - 1) /\ \A i \in good : v3[v7.scenes[i].scene].valid
      BY DEF Audit!Candidates, Audit!Valid
    <3>2. CASE good = {}
      BY <2>3, <3>2
    <3>3. CASE good # {}
      <4>1. good \in SUBSET Nat /\ \A i \in good : i <= v7.target
        BY <2>3, <3>1
      <4>5. v7.target \in Nat
        BY <2>3
      <4> HIDE DEF good
      <4>2. \E i \in good : \A j \in good : i >= j
        BY <3>3, <4>1, <4>5, GreatestOfBounded
      <4>3. \E i \in good : \A j \in good : j <= i
        BY <4>1, <4>2
      <4>4. (CHOOSE i \in good : \A j \in good : j <= i) \in good
        BY <4>3, Zenon
      <4>6. from \in good
        BY <3>3, <4>4, Zenon
      <4>7. from \in 1..(v7.target - 1) /\ v3[v7.scenes[from].scene].valid
        BY <3>1, <4>6, Zenon
      <4> HIDE DEF from
      <4>8. from \in 0..(v7.target - 1)
        BY <2>3, <4>7
      <4> QED
        BY <4>7, <4>8, Zenon
    <3> QED
      BY <3>2, <3>3
  <2> HIDE DEF good, from, failed, claims
  <2>5. /\ v7' = [step |-> "extracting", claims |-> claims, next |-> from + 1, found |-> v7.found,
                  active |-> v7.active, affected |-> affected, target |-> v7.target, scenes |-> v7.scenes]
        /\ affected = {v7.scenes[i].scene : i \in (from + 1)..Len(v7.scenes)}
    BY <1>1, <1>3, <2>2, AuditJobIs DEF Audit!Behind
  <2>6. v7.scenes[v7.target].scene \in affected
    <3>1. v7.target \in (from + 1)..Len(v7.scenes)
      BY <2>3, <2>4
    <3> QED
      BY <2>5, <3>1, Zenon
  <2> HIDE DEF affected
  <2>7. /\ v3' = [s \in AuditedScenes |-> v3'[s]]
        /\ \A s \in AuditedScenes : /\ IsCheckpoint(v3'[s]) /\ v3'[s].claims = v3[s].claims
                                    /\ v3'[s].valid => v3[s].valid
    <3>1. ASSUME NEW s \in AuditedScenes
          PROVE  IsCheckpoint(v3'[s]) /\ v3'[s].claims = v3[s].claims /\ (v3'[s].valid => v3[s].valid)
      <4>1. IsCheckpoint(v3[s])
        BY <2>1 DEF AuditTypes
      <4>2. v3'[s] = v3[s] \/ v3'[s] = [v3[s] EXCEPT !.valid = FALSE]
        BY <2>2
      <4> QED
        BY <4>1, <4>2, Invalid
    <3> QED
      BY <2>2, <3>1
  <2>8. AuditTypes'
    BY <1>1, <2>1, <2>3, <2>5, <2>7 DEF AuditTypes, IsAuditJob
  <2>9. RightInv(v1, v2, v3, v4, v6, v7)'
    <3>1. Reach(v7, v1)' = from + 1 /\ Reach(v7, v1) = v7.target
      BY <1>1, <2>5 DEF Reach
    <3>2. ASSUME NEW i \in 1..Len(v1), Settled(i, v1, v6), i < from + 1
          PROVE  Right(i, v1, v2, v3', v4)
      <4>1. Right(i, v1, v2, v3, v4)
        BY <2>1, <2>3, <2>4, <3>1, <3>2, OrderIs DEF RightInv, AuditTypes
      <4>2. v1[i] \in AuditedScenes
        BY <2>1, OrderIs DEF AuditTypes
      <4> QED
        BY <2>7, <4>1, <4>2 DEF Right
    <3> QED
      BY <1>1, <3>1, <3>2 DEF RightInv
  <2>10. ReadInv(v1, v2, v6, v7)'
    BY <1>1, <2>1, <2>5 DEF ReadInv, Aligned
  <2>11. StepInv(v1, v2, v4, v6, v7)'
    <3>1. from + 1 \in 1..Len(v7.scenes)
      BY <2>3, <2>4
    <3>2. ASSUME Settled(from, v1, v6)
          PROVE  claims = ClaimsAt(from, v1, v2)
      <4>1. CASE from = 0
        BY <2>1, <4>1, ClaimsAre, OrderIs DEF ClaimsAt, AuditTypes, claims
      <4>2. CASE from # 0
        <5>1. from \in 1..Len(v1)
          BY <2>1, <3>2, <4>2, OrderIs DEF Settled, AuditTypes
        <5>2. v7.scenes[from].scene = v1[from]
          BY <1>1, <1>3, <3>2, <5>1, ReadAsIs
        <5>3. Right(from, v1, v2, v3, v4)
          BY <1>1, <2>1, <2>3, <2>4, <3>2, <5>1 DEF RightInv, Reach
        <5> QED
          BY <2>4, <4>2, <5>2, <5>3 DEF Right, claims
      <4> QED
        BY <4>1, <4>2
    <3>3. (from + 1) - 1 = from
      BY <2>4
    <3> QED
      BY <1>1, <2>5, <3>1, <3>2, <3>3 DEF StepInv
  <2>12. QuotesInv(v2, v4, v6, v7)'
    <3>1. Awaited(v6, v7) \subseteq Awaited(v6, v7)'
      BY <1>1, <2>5, <2>6 DEF Awaited
    <3> QED
      BY <1>1, <2>1, <2>5, <3>1 DEF QuotesInv, Quoting
  <2> QED
    BY <1>1, <1>3, <2>8, <2>9, <2>10, <2>11, <2>12 DEF AuditInv
<1> QED
  BY <1>2, <1>3 DEF AuditInv

\* The next scene is read against the claims before it: what it contradicts is found,
\* and what is found was current when it was checked.
LEMMA ExtractKeeps ==
  ASSUME AuditInv, Audit!Extract
  PROVE  AuditInv'
<1>1. v7.step = "extracting" /\ UNCHANGED <<v1, v2, v3, v4, v6, v8>>
  BY DEF Audit!Extract
<1>2. CASE v8
  BY <1>1, <1>2 DEF AuditInv
<1>3. CASE ~v8
  <2> DEFINE read == v7.scenes[v7.next]
             new == Audit!Claims(read.scene, read.text)
             pairs == Audit!Compared(Audit!Range(v7.claims), new)
             found == {alert \in pairs : /\ Audit!Contradicts(alert.first, alert.second)
                                         /\ Audit!Current(alert.first) /\ Audit!Current(alert.second)}
             claims == Audit!Merge(v7.claims, new)
             active == {k \in DOMAIN v4 : v4[k].status = "ACTIVE"}
             AllFound(set) ==
               \A p \in Audit!Range(ClaimsAt(v7.next - 1, v1, v2)),
                  n \in Audit!Claims(v1[v7.next], v2[v1[v7.next]]) :
                 Audit!Contradicts(p, n) => [first |-> p, second |-> n] \in set
  <2>1. /\ AuditTypes /\ RightInv(v1, v2, v3, v4, v6, v7) /\ QuotesInv(v2, v4, v6, v7)
        /\ ReadInv(v1, v2, v6, v7) /\ StepInv(v1, v2, v4, v6, v7)
    BY <1>3 DEF AuditInv
  <2>2. v7' = [v7 EXCEPT !.step = "recording", !.claims = claims, !.found = found, !.active = active]
    BY Zenon DEF Audit!Extract
  <2>3. v7.next \in 1..Len(v7.scenes) /\ Len(v7.scenes) \in Nat
    BY <1>1, <1>3, <2>1, AuditJobIs DEF StepInv
  <2>4. Settled(v7.next, v1, v6) =>
          claims = ClaimsAt(v7.next, v1, v2) /\ AllFound(found)
    <3> SUFFICES ASSUME Settled(v7.next, v1, v6)
                 PROVE  claims = ClaimsAt(v7.next, v1, v2) /\ AllFound(found)
      OBVIOUS
    <3>1. v7.next \in 1..Len(v1) /\ v7.next - 1 \in 0..Len(v1) /\ Len(v1) \in Nat
      BY <2>1, <2>3, OrderIs DEF Settled, AuditTypes
    <3>2. read.scene = v1[v7.next] /\ read.text = v2[v1[v7.next]]
      BY <1>1, <1>3, <3>1, ReadAsIs
    <3>3. v7.claims = ClaimsAt(v7.next - 1, v1, v2)
      BY <1>1, <2>1, <3>1 DEF StepInv, Settled
    <3>4. new = Audit!Claims(v1[v7.next], v2[v1[v7.next]])
      BY <3>2
    <3>5. claims = ClaimsAt(v7.next, v1, v2)
      BY <3>1, <3>3, <3>4, ClaimsAre DEF ClaimsAt
    <3>6. ASSUME NEW p \in Audit!Range(v7.claims), NEW n \in new, Audit!Contradicts(p, n)
          PROVE  [first |-> p, second |-> n] \in found
      <4>1. IsCurrent(p, v2)
        BY <2>1, <3>1, <3>3, <3>6, ClaimsAreSaid DEF ClaimsAt, AuditTypes, IsOrder
      <4>2. IsCurrent(n, v2)
        BY <3>4, <3>6 DEF Audit!Claims, IsCurrent
      <4>3. [first |-> p, second |-> n] \in pairs
        BY <3>6 DEF Audit!Compared
      <4> HIDE DEF pairs
      <4> QED
        BY <3>6, <4>1, <4>2, <4>3 DEF Audit!Current, IsCurrent
    <3> HIDE DEF new, found
    <3> QED
      BY <3>3, <3>4, <3>5, <3>6
  <2>5. \A one \in found : IsCurrent(one.first, v2) /\ IsCurrent(one.second, v2)
    BY DEF Audit!Current, IsCurrent
  <2>12. \A k \in active : k \in DOMAIN v4 /\ v4[k].status = "ACTIVE"
    OBVIOUS
  <2> HIDE DEF found, claims, active
  <2>6. v7' = [step |-> "recording", claims |-> claims, next |-> v7.next, found |-> found,
               active |-> active, affected |-> v7.affected, target |-> v7.target, scenes |-> v7.scenes]
    BY <1>1, <1>3, <2>2, AuditJobIs
  <2>7. AuditTypes'
    BY <1>1, <2>1, <2>3, <2>6 DEF AuditTypes, IsAuditJob
  <2>8. RightInv(v1, v2, v3, v4, v6, v7)'
    <3>1. Reach(v7, v1)' = Reach(v7, v1)
      BY <1>1, <2>6 DEF Reach
    <3> QED
      BY <1>1, <2>1, <3>1 DEF RightInv
  <2>9. ReadInv(v1, v2, v6, v7)'
    BY <1>1, <2>1, <2>6 DEF ReadInv, Aligned
  <2>10. StepInv(v1, v2, v4, v6, v7)'
    <3>1. \A p, n : Audit!Fingerprint(p, n) \in active => Standing(v4, p, n)
      BY <2>12 DEF Standing
    <3>2. AllFound(found) => FoundIn(v7', v4, v7.next, v1, v2)
      BY <2>6, <3>1 DEF FoundIn
    <3> HIDE DEF AllFound
    <3> QED
      BY <1>1, <2>3, <2>4, <2>6, <3>2 DEF StepInv
  <2>11. QuotesInv(v2, v4, v6, v7)'
    <3>1. Awaited(v6, v7)' = Awaited(v6, v7)
      BY <1>1, <2>6 DEF Awaited
    <3> QED
      BY <1>1, <2>1, <2>5, <2>6, <3>1 DEF QuotesInv, FoundQuotes
  <2> QED
    BY <1>1, <1>3, <2>7, <2>8, <2>9, <2>10, <2>11 DEF AuditInv
<1> QED
  BY <1>2, <1>3 DEF AuditInv

\* What was found becomes alerts; an audit whose scene changed ends there, and that
\* scene waits.
LEMMA RecordKeeps ==
  ASSUME AuditInv, Audit!Record
  PROVE  AuditInv'
<1>1. v7.step = "recording" /\ UNCHANGED <<v1, v2, v3, v6, v8>>
  BY DEF Audit!Record
<1>2. CASE v8
  BY <1>1, <1>2 DEF AuditInv
<1>3. CASE ~v8
  <2> DEFINE read == v7.scenes[v7.next]
             found == {Audit!Fingerprint(one.first, one.second) : one \in v7.found}
             step == IF v2[read.scene] = read.text THEN "storing" ELSE "ending"
  <2>1. /\ AuditTypes /\ RightInv(v1, v2, v3, v4, v6, v7) /\ QuotesInv(v2, v4, v6, v7)
        /\ ReadInv(v1, v2, v6, v7) /\ StepInv(v1, v2, v4, v6, v7)
    BY <1>3 DEF AuditInv
  <2>2. v7.next \in 1..Len(v7.scenes) /\ Len(v7.scenes) \in Nat
    BY <1>1, <1>3, <2>1, AuditJobIs DEF StepInv
  <2>3. step = "ending" => \A i \in 1..Len(v1) : Settled(i, v1, v6) => i < v7.next
    <3> SUFFICES ASSUME step = "ending", NEW i \in 1..Len(v1), Settled(i, v1, v6), i >= v7.next
                 PROVE  FALSE
      BY <2>1, <2>2, OrderIs DEF AuditTypes
    <3>1. v7.next \in 1..i
      BY <2>1, <2>2, OrderIs DEF AuditTypes
    <3>2. v7.scenes[v7.next].scene = v1[v7.next] /\ v7.scenes[v7.next].text = v2[v1[v7.next]]
      BY <1>1, <1>3, <3>1, ReadAsIs, v7.next \in 1..Len(v1)
    <3> QED
      BY <3>2
  <2>4. step \in {"storing", "ending"}
    OBVIOUS
  <2>5. v7' = [step |-> step, claims |-> v7.claims, next |-> v7.next, found |-> {},
               active |-> {}, affected |-> v7.affected, target |-> v7.target, scenes |-> v7.scenes]
    <3>1. v7' = [v7 EXCEPT !.step = step, !.found = {}, !.active = {}]
      BY Zenon DEF Audit!Record
    <3> HIDE DEF step
    <3> QED
      BY <1>1, <1>3, <3>1, AuditJobIs
  <2> HIDE DEF step
  <2>11. /\ v4' = [k \in DOMAIN v4 \cup found |-> Audit!Recorded(k)]
         /\ DOMAIN v4' = DOMAIN v4 \cup found
    BY Zenon DEF Audit!Record
  <2>12. ASSUME NEW k \in DOMAIN v4 \cup found
         PROVE  \/ k \in DOMAIN v4 /\ k \notin found /\ v4'[k] = v4[k]
                \/ /\ k \in found
                   /\ v4'[k].status = IF k \in v7.active THEN v4[k].status ELSE "ACTIVE"
                   /\ v4'[k].scenes = Audit!FoundScenes(k) \cup (IF k \in DOMAIN v4 THEN v4[k].scenes ELSE {})
    <3>1. v4'[k] = Audit!Recorded(k)
      BY <2>11
    <3>2. Audit!FoundScenes(k) = {} <=> k \notin found
      BY DEF Audit!FoundScenes
    <3> QED
      BY <3>1, <3>2 DEF Audit!Recorded
  <2>13. ASSUME NEW p, NEW n, Standing(v4, p, n)
         PROVE  Standing(v4', p, n)
    <3> DEFINE k == Audit!Fingerprint(p, n)
    <3>1. k \in DOMAIN v4 /\ (v4[k].status = "ACTIVE" \/ \E z \in v4[k].scenes : z # p.scene)
      BY <2>13 DEF Standing
    <3> HIDE DEF found
    <3>2. k \in DOMAIN v4' /\ (v4'[k].status = "ACTIVE" \/ \E z \in v4'[k].scenes : z # p.scene)
      <4> HIDE DEF k
      <4> QED
        BY <2>11, <2>12, <3>1
    <3> QED
      BY <3>2 DEF Standing
  <2>14. ASSUME NEW p, NEW n, Audit!Reported(v4, p, n)
         PROVE  Audit!Reported(v4', p, n)
    <3> DEFINE k == Audit!Fingerprint(p, n)
    <3>1. Standing(v4, p, n) /\ p.scene \in v4[k].scenes /\ k \in DOMAIN v4
      BY <2>14, ReportedIsStanding DEF Standing
    <3>2. p.scene \in v4'[k].scenes
      <4> HIDE DEF found, k
      <4> QED
        BY <2>12, <3>1
    <3> QED
      BY <2>13, <3>1, <3>2, ReportedIsStanding
  <2>15. ASSUME NEW p, NEW n, [first |-> p, second |-> n] \in v7.found,
                Audit!Fingerprint(p, n) \in v7.active => Standing(v4, p, n)
         PROVE  Audit!Reported(v4', p, n)
    <3> DEFINE k == Audit!Fingerprint(p, n)
    <3>1. k \in found /\ p.scene \in Audit!FoundScenes(k)
      BY <2>15 DEF Audit!FoundScenes
    <3>2. k \in DOMAIN v4' /\ p.scene \in v4'[k].scenes
      <4> HIDE DEF found, k
      <4> QED
        BY <2>11, <2>12, <3>1
    <3>3. Standing(v4', p, n)
      <4>1. CASE k \in v7.active
        BY <2>13, <2>15, <4>1
      <4>2. CASE k \notin v7.active
        <5>1. v4'[k].status = "ACTIVE"
          <6> HIDE DEF found, k
          <6> QED
            BY <2>12, <3>1, <4>2
        <5> QED
          BY <3>2, <5>1 DEF Standing
      <4> QED
        BY <4>1, <4>2
    <3> QED
      BY <3>2, <3>3, ReportedIsStanding
  <2> HIDE DEF found
  <2>6. AuditTypes'
    BY <1>1, <2>1, <2>2, <2>4, <2>5 DEF AuditTypes, IsAuditJob
  <2>7. RightInv(v1, v2, v3, v4, v6, v7)'
    <3>1. Reach(v7, v1)' = Reach(v7, v1)
      BY <1>1, <2>4, <2>5 DEF Reach
    <3>2. ASSUME NEW i, Right(i, v1, v2, v3, v4)
          PROVE  Right(i, v1, v2, v3, v4')
      BY <2>14, <3>2 DEF Right, ToldIn
    <3> QED
      BY <1>1, <2>1, <3>1, <3>2 DEF RightInv
  <2>8. ReadInv(v1, v2, v6, v7)'
    BY <1>1, <2>1, <2>4, <2>5 DEF ReadInv, Aligned
  <2>9. StepInv(v1, v2, v4, v6, v7)'
    <3>1. Settled(v7.next, v1, v6) =>
            v7.claims = ClaimsAt(v7.next, v1, v2) /\ FoundIn(v7, v4, v7.next, v1, v2)
      BY <1>1, <2>1 DEF StepInv
    <3>2. Settled(v7.next, v1, v6) => ToldIn(v4', v7.next, v1, v2)
      BY <2>15, <3>1 DEF ToldIn, FoundIn
    <3>3. v7.next \in Nat
      BY <2>2
    <3> QED
      BY <1>1, <2>2, <2>3, <2>4, <2>5, <3>1, <3>2, <3>3 DEF StepInv
  <2>10. QuotesInv(v2, v4, v6, v7)'
    <3>1. Awaited(v6, v7)' = Awaited(v6, v7)
      BY <1>1, <2>4, <2>5 DEF Awaited
    <3> DEFINE awaited == Awaited(v6, v7)
    <3>2. /\ \A k \in DOMAIN v4 : v4[k].status = "ACTIVE" => Quoting(k, v4[k], v2, awaited)
          /\ FoundQuotes(v7.found, v2, awaited)
      BY <1>1, <2>1 DEF QuotesInv
    <3> HIDE DEF awaited
    <3>3. ASSUME NEW k \in DOMAIN v4 \cup found, v4'[k].status = "ACTIVE"
          PROVE  Quoting(k, v4'[k], v2, awaited)
      <4>1. CASE k \notin found
        BY <2>12, <3>2, <3>3, <4>1
      <4>2. CASE k \in found
        <5>1. PICK one \in v7.found : k = Audit!Fingerprint(one.first, one.second)
          BY <4>2 DEF found
        <5>2. one.first.scene \in v4'[k].scenes
          <6>1. one.first.scene \in Audit!FoundScenes(k)
            BY <5>1 DEF Audit!FoundScenes
          <6> QED
            BY <2>12, <4>2, <6>1
        <5>3. k.scene = one.second.scene /\ k.newer = one.second.text /\ k.older = one.first.text
          BY <5>1 DEF Audit!Fingerprint
        <5>4. /\ IsCurrent(one.first, v2) \/ one.first.scene \in awaited
              /\ IsCurrent(one.second, v2) \/ one.second.scene \in awaited
          BY <3>2 DEF FoundQuotes
        <5> QED
          BY <5>2, <5>3, <5>4 DEF Quoting, IsCurrent
      <4> QED
        BY <4>1, <4>2
    <3>4. Awaited(v6, v7)' = awaited
      BY <3>1 DEF awaited
    <3> QED
      BY <1>1, <2>4, <2>5, <2>11, <3>3, <3>4 DEF QuotesInv
  <2> QED
    BY <1>1, <1>3, <2>6, <2>7, <2>8, <2>9, <2>10 DEF AuditInv
<1> QED
  BY <1>2, <1>3 DEF AuditInv

\* The checkpoint of a scene has the claims up to it, when the scene is settled.
LEMMA StoreKeeps ==
  ASSUME AuditInv, Audit!Store
  PROVE  AuditInv'
<1>1. v7.step = "storing" /\ UNCHANGED <<v1, v2, v4, v6, v8>>
  BY DEF Audit!Store
<1>2. CASE v8
  BY <1>1, <1>2 DEF AuditInv
<1>3. CASE ~v8
  <2> DEFINE read == v7.scenes[v7.next]
             row == [valid |-> TRUE, text |-> read.text, claims |-> v7.claims]
             step == IF v7.next = Len(v7.scenes) THEN "ending" ELSE "extracting"
  <2>1. /\ AuditTypes /\ RightInv(v1, v2, v3, v4, v6, v7) /\ QuotesInv(v2, v4, v6, v7)
        /\ ReadInv(v1, v2, v6, v7) /\ StepInv(v1, v2, v4, v6, v7)
    BY <1>3 DEF AuditInv
  <2>2. v7.next \in 1..Len(v7.scenes) /\ Len(v7.scenes) \in Nat
    BY <1>1, <1>3, <2>1, AuditJobIs DEF StepInv
  <2>3. step \in {"ending", "extracting"} /\ (step = "ending" <=> v7.next = Len(v7.scenes))
    OBVIOUS
  <2>4. v7' = [step |-> step, claims |-> v7.claims, next |-> v7.next + 1, found |-> v7.found,
               active |-> v7.active, affected |-> v7.affected, target |-> v7.target, scenes |-> v7.scenes]
    <3>1. v7' = [v7 EXCEPT !.next = v7.next + 1, !.step = step]
      BY Zenon DEF Audit!Store
    <3> HIDE DEF step
    <3> QED
      BY <1>1, <1>3, <3>1, AuditJobIs
  <2>5. v3' = [v3 EXCEPT ![read.scene] = row]
    BY Zenon DEF Audit!Store
  <2>6. IsCheckpoint(row) /\ row.claims = v7.claims
    BY DEF IsCheckpoint
  <2> HIDE DEF step, row
  <2>7. AuditTypes'
    <3>1. v3' = [s \in AuditedScenes |-> v3'[s]] /\ \A s \in AuditedScenes : IsCheckpoint(v3'[s])
      <4> HIDE DEF read
      <4>1. v3' = [s \in AuditedScenes |-> IF s = read.scene THEN row ELSE v3[s]]
        BY <2>1, <2>5 DEF AuditTypes
      <4> QED
        BY <2>1, <2>6, <4>1 DEF AuditTypes
    <3> QED
      BY <1>1, <2>1, <2>2, <2>3, <2>4, <3>1 DEF AuditTypes, IsAuditJob
  <2>8. RightInv(v1, v2, v3, v4, v6, v7)'
    <3>1. Reach(v7, v1)' = v7.next + 1 /\ Reach(v7, v1) = v7.next
      BY <1>1, <2>3, <2>4 DEF Reach
    <3>2. ASSUME NEW i \in 1..Len(v1), Settled(i, v1, v6), i < v7.next + 1
          PROVE  Right(i, v1, v2, v3', v4)
      <4>1. /\ IsOrder(v1) /\ Len(v1) \in Nat /\ \A j \in 1..Len(v1) : v1[j] \in AuditedScenes
            /\ v3 = [s \in AuditedScenes |-> v3[s]]
        BY <2>1, OrderIs DEF AuditTypes
      <4>2. Len(v7.scenes) = Len(v1) /\ \A j \in 1..Len(v1) : v7.scenes[j].scene = v1[j]
        BY <1>1, <1>3, <3>2, ReadAsIs
      <4>3. v7.next \in 1..Len(v1) /\ read.scene = v1[v7.next]
        BY <2>2, <4>2
      <4>4. CASE i = v7.next
        <5>1. v3'[v1[i]] = row
          BY <2>5, <4>1, <4>3, <4>4
        <5>2. v7.claims = ClaimsAt(i, v1, v2) /\ ToldIn(v4, i, v1, v2)
          BY <1>1, <2>1, <3>2, <4>4 DEF StepInv
        <5> QED
          BY <2>6, <5>1, <5>2 DEF Right
      <4>5. CASE i # v7.next
        <5>1. v1[i] # v1[v7.next]
          BY <4>1, <4>3, <4>5 DEF IsOrder
        <5>2. v3'[v1[i]] = v3[v1[i]]
          BY <2>5, <4>1, <4>3, <5>1
        <5>3. i < v7.next
          BY <3>2, <4>1, <4>3, <4>5
        <5>4. Right(i, v1, v2, v3, v4)
          BY <2>1, <3>1, <3>2, <5>3 DEF RightInv
        <5> QED
          BY <5>2, <5>4 DEF Right
      <4> QED
        BY <4>4, <4>5
    <3> QED
      BY <1>1, <3>1, <3>2 DEF RightInv
  <2>9. ReadInv(v1, v2, v6, v7)'
    BY <1>1, <2>1, <2>3, <2>4 DEF ReadInv, Aligned
  <2>10. StepInv(v1, v2, v4, v6, v7)'
    <3>1. /\ Settled(v7.next, v1, v6) => v7.claims = ClaimsAt(v7.next, v1, v2)
          /\ (v7.next + 1) - 1 = v7.next /\ v7.next + 1 \in Nat
      BY <1>1, <2>1, <2>2 DEF StepInv
    <3>2. step = "extracting" => v7.next + 1 \in 1..Len(v7.scenes)
      BY <2>2, <2>3
    <3>3. step = "ending" => \A i \in 1..Len(v1) : Settled(i, v1, v6) => i < v7.next + 1
      <4> SUFFICES ASSUME step = "ending", NEW i \in 1..Len(v1), Settled(i, v1, v6)
                   PROVE  i < v7.next + 1
        OBVIOUS
      <4>1. Len(v7.scenes) = Len(v1) /\ Len(v1) \in Nat
        BY <1>1, <1>3, <2>1, ReadAsIs, OrderIs DEF AuditTypes
      <4> QED
        BY <2>3, <4>1
    <3> QED
      BY <1>1, <2>3, <2>4, <3>1, <3>2, <3>3 DEF StepInv
  <2>11. QuotesInv(v2, v4, v6, v7)'
    <3>1. Awaited(v6, v7)' = Awaited(v6, v7)
      BY <1>1, <2>3, <2>4 DEF Awaited
    <3> QED
      BY <1>1, <2>1, <2>3, <2>4, <3>1 DEF QuotesInv
  <2> QED
    BY <1>1, <1>3, <2>7, <2>8, <2>9, <2>10, <2>11 DEF AuditInv
<1> QED
  BY <1>2, <1>3 DEF AuditInv

\* A contradiction stays reported when its row is made obsolete for another scene.
LEMMA ObsoleteReports ==
  ASSUME NEW gone, v4' = Audit!Obsoleted(gone), NEW p, NEW n,
         Audit!Fingerprint(p, n) \in gone =>
           \E z \in v4[Audit!Fingerprint(p, n)].scenes : z # p.scene
  PROVE  /\ Standing(v4, p, n) => Standing(v4', p, n)
         /\ Audit!Reported(v4, p, n) => Audit!Reported(v4', p, n)
<1> DEFINE k == Audit!Fingerprint(p, n)
<1>1. DOMAIN v4' = DOMAIN v4
  BY DEF Audit!Obsoleted
<1>2. k \in DOMAIN v4 => /\ v4'[k].scenes = v4[k].scenes
                         /\ v4'[k].status = IF k \in gone THEN "OBSOLETE" ELSE v4[k].status
  <2> HIDE DEF k
  <2> QED
    BY DEF Audit!Obsoleted
<1> HIDE DEF k
<1>3. k \in gone => \E z \in v4[k].scenes : z # p.scene
  BY DEF k
<1>4. \A rows : Standing(rows, p, n) <=>
                   k \in DOMAIN rows /\ (rows[k].status = "ACTIVE" \/ \E z \in rows[k].scenes : z # p.scene)
  BY DEF Standing, k
<1>5. Standing(v4, p, n) => Standing(v4', p, n)
  BY <1>1, <1>2, <1>3, <1>4
<1>6. \A rows : Audit!Reported(rows, p, n) <=> Standing(rows, p, n) /\ p.scene \in rows[k].scenes
  BY ReportedIsStanding DEF k
<1> QED
  BY <1>2, <1>4, <1>5, <1>6

\* What no longer quotes the text of an audited scene is obsolete; what is so stays told.
LEMMA EndKeeps ==
  ASSUME AuditInv, Audit!EndAudit
  PROVE  AuditInv'
<1>1. v7.step = "ending" /\ UNCHANGED <<v1, v2, v3, v6, v8>> /\ v7' = [step |-> "idle"]
  BY DEF Audit!EndAudit, Audit!Idle
<1>2. CASE v8
  BY <1>1, <1>2 DEF AuditInv
<1>3. CASE ~v8
  <2>1. /\ AuditTypes /\ RightInv(v1, v2, v3, v4, v6, v7) /\ QuotesInv(v2, v4, v6, v7)
        /\ StepInv(v1, v2, v4, v6, v7)
    BY <1>3 DEF AuditInv
  <2>2. v4' = Audit!Obsoleted(Audit!Outdated)
    BY Zenon DEF Audit!EndAudit
  <2>7. /\ DOMAIN v4' = DOMAIN v4
        /\ \A k \in DOMAIN v4 : /\ v4'[k].scenes = v4[k].scenes
                                /\ v4'[k].status = IF k \in Audit!Outdated THEN "OBSOLETE" ELSE v4[k].status
    BY <2>2 DEF Audit!Obsoleted
  <2>8. ASSUME NEW k \in DOMAIN v4
        PROVE  k \in Audit!Outdated <=>
                 \/ k.scene \in v7.affected /\ v2[k.scene] # k.newer
                 \/ \E z \in v4[k].scenes : z \in v7.affected /\ v2[z] # k.older
    <3> DEFINE Stale(q) == q.scene \in v7.affected /\ v2[q.scene] # q.text
               sources == Audit!Sources(k, v4[k])
    <3>1. k \in Audit!Outdated <=> \E q \in sources : Stale(q)
      BY DEF Audit!Outdated, Audit!Current
    <3>2. \A q : q \in sources <=> \/ \E z \in v4[k].scenes : q = [scene |-> z, text |-> k.older]
                                  \/ q = [scene |-> k.scene, text |-> k.newer]
      BY DEF Audit!Sources
    <3>3. /\ \A z : Stale([scene |-> z, text |-> k.older]) <=> z \in v7.affected /\ v2[z] # k.older
          /\ Stale([scene |-> k.scene, text |-> k.newer]) <=> k.scene \in v7.affected /\ v2[k.scene] # k.newer
      OBVIOUS
    <3> HIDE DEF Stale, sources
    <3>4. CASE \E z \in v4[k].scenes : z \in v7.affected /\ v2[z] # k.older
      <4>1. PICK z \in v4[k].scenes : z \in v7.affected /\ v2[z] # k.older
        BY <3>4
      <4> DEFINE q == [scene |-> z, text |-> k.older]
      <4>2. q \in sources
        BY <3>2
      <4>3. Stale(q)
        BY <3>3, <4>1
      <4> HIDE DEF q
      <4> QED
        BY <3>1, <3>4, <4>2, <4>3
    <3>5. CASE k.scene \in v7.affected /\ v2[k.scene] # k.newer
      <4> DEFINE q == [scene |-> k.scene, text |-> k.newer]
      <4>1. q \in sources
        BY <3>2
      <4>2. Stale(q)
        BY <3>3, <3>5
      <4> HIDE DEF q
      <4> QED
        BY <3>1, <3>5, <4>1, <4>2
    <3>6. ASSUME NEW q \in sources, Stale(q)
          PROVE  \/ k.scene \in v7.affected /\ v2[k.scene] # k.newer
                 \/ \E z \in v4[k].scenes : z \in v7.affected /\ v2[z] # k.older
      <4>1. CASE q = [scene |-> k.scene, text |-> k.newer]
        BY <3>3, <3>6, <4>1
      <4>2. ASSUME NEW z \in v4[k].scenes, q = [scene |-> z, text |-> k.older]
            PROVE  z \in v7.affected /\ v2[z] # k.older
        BY <3>3, <3>6, <4>2
      <4> QED
        BY <3>2, <3>6, <4>1, <4>2
    <3> QED
      BY <3>1, <3>4, <3>5, <3>6
  <2>3. AuditTypes'
    BY <1>1, <2>1 DEF AuditTypes, IsAuditJob, Audit!Idle
  <2>4. RightInv(v1, v2, v3, v4, v6, v7)'
    <3> SUFFICES ASSUME NEW i \in 1..Len(v1), Settled(i, v1, v6)
                 PROVE  Right(i, v1, v2, v3, v4')
      BY <1>1 DEF RightInv
    <3>1. i < v7.next /\ Reach(v7, v1) = v7.next
      BY <1>1, <2>1 DEF StepInv, Reach
    <3>2. Right(i, v1, v2, v3, v4)
      BY <2>1, <3>1 DEF RightInv
    <3>3. ASSUME NEW p \in Audit!Range(ClaimsAt(i - 1, v1, v2)),
                 NEW n \in Audit!Claims(v1[i], v2[v1[i]]), Audit!Contradicts(p, n)
          PROVE  Audit!Reported(v4', p, n)
      <4> DEFINE k == Audit!Fingerprint(p, n)
      <4>1. Audit!Reported(v4, p, n)
        BY <3>2, <3>3 DEF Right, ToldIn
      <4>2. i - 1 \in 0..Len(v1)
        BY <2>1, OrderIs DEF AuditTypes
      <4>3. IsCurrent(p, v2)
        BY <2>1, <4>2, ClaimsAreSaid DEF ClaimsAt, AuditTypes, IsOrder
      <4>4. IsCurrent(n, v2)
        BY DEF Audit!Claims, IsCurrent
      <4>5. k.scene = n.scene /\ k.newer = n.text /\ k.older = p.text
        BY DEF Audit!Fingerprint
      <4>6. k \in DOMAIN v4
        BY <4>1 DEF Audit!Reported
      <4>7. k \in Audit!Outdated => \E z \in v4[k].scenes : z # p.scene
        <5> HIDE DEF k
        <5> QED
          BY <2>8, <4>3, <4>4, <4>5, <4>6 DEF IsCurrent
      <4> QED
        BY <2>2, <4>1, <4>7, ObsoleteReports
    <3> QED
      BY <3>2, <3>3 DEF Right, ToldIn
  <2>5. ReadInv(v1, v2, v6, v7)' /\ StepInv(v1, v2, v4, v6, v7)'
    BY <1>1 DEF ReadInv, StepInv
  <2>6. QuotesInv(v2, v4, v6, v7)'
    <3>1. Awaited(v6, v7) = v6 \cup v7.affected /\ Awaited(v6, v7)' = v6
      BY <1>1 DEF Awaited
    <3> QED
      BY <1>1, <2>1, <2>7, <2>8, <3>1 DEF QuotesInv, Quoting
  <2> QED
    BY <1>1, <1>3, <2>3, <2>4, <2>5, <2>6 DEF AuditInv
<1> QED
  BY <1>2, <1>3 DEF AuditInv

\* What settled scenes say stays the same when one that waits is rewritten.
LEMMA SaveKeeps ==
  ASSUME AuditInv, NEW s \in AuditedScenes, NEW t \in SceneClaims, Audit!Save(s, t)
  PROVE  AuditInv'
<1>1. /\ UNCHANGED <<v1, v7, v8>> /\ v6' = v6 \cup {s} /\ v2' = [v2 EXCEPT ![s] = t]
      /\ v4' = Audit!Obsoleted({k \in DOMAIN v4 : s \in Audit!Named(k)})
  BY Zenon DEF Audit!Save
<1>2. CASE v8
  BY <1>1, <1>2 DEF AuditInv
<1>3. CASE ~v8
  <2>1. /\ AuditTypes /\ RightInv(v1, v2, v3, v4, v6, v7) /\ QuotesInv(v2, v4, v6, v7)
        /\ ReadInv(v1, v2, v6, v7) /\ StepInv(v1, v2, v4, v6, v7)
    BY <1>3 DEF AuditInv
  <2>2. /\ v2' \in [AuditedScenes -> SceneClaims] /\ IsOrder(v1) /\ v2 \in [AuditedScenes -> SceneClaims]
        /\ \A q : q # s => v2'[q] = v2[q]
    BY <1>1, <2>1 DEF AuditTypes
  <2>3. /\ v3' = [q \in AuditedScenes |-> v3'[q]]
        /\ \A q \in AuditedScenes : /\ IsCheckpoint(v3'[q]) /\ v3'[q].claims = v3[q].claims
                                    /\ v3'[q].valid => v3[q].valid
    <3>1. v3' = [q \in AuditedScenes |-> IF q \in Audit!Invalidated(s) THEN [v3[q] EXCEPT !.valid = FALSE]
                                         ELSE v3[q]]
      BY Zenon DEF Audit!Save
    <3>2. ASSUME NEW q \in AuditedScenes
          PROVE  IsCheckpoint(v3'[q]) /\ v3'[q].claims = v3[q].claims /\ (v3'[q].valid => v3[q].valid)
      <4>1. IsCheckpoint(v3[q])
        BY <2>1 DEF AuditTypes
      <4>2. v3'[q] = v3[q] \/ v3'[q] = [v3[q] EXCEPT !.valid = FALSE]
        BY <3>1
      <4> QED
        BY <4>1, <4>2, Invalid
    <3> QED
      BY <3>1, <3>2
  <2>4. ASSUME NEW i, Settled(i, v1, v6')
        PROVE  /\ Settled(i, v1, v6) /\ \A j \in 1..i : v1[j] # s
               /\ \A j \in 0..i : ClaimsAt(j, v1, v2') = ClaimsAt(j, v1, v2)
    <3>1. i \in Nat /\ i <= Len(v1) /\ Len(v1) \in Nat
      BY <2>2, <2>4, OrderIs DEF Settled
    <3>2. Settled(i, v1, v6) /\ \A j \in 1..i : v1[j] # s
      BY <1>1, <2>4 DEF Settled
    <3>3. \A j \in 1..i : v1[j] = v1[j] /\ v2'[v1[j]] = v2[v1[j]]
      BY <2>2, <3>2
    <3>4. \A j \in 0..i : Audit!ClaimsAfter(v1, v2')[j] = Audit!ClaimsAfter(v1, v2)[j]
      BY <3>1, <3>3, ClaimsOfPrefix
    <3> QED
      BY <3>2, <3>4 DEF ClaimsAt
  <2>5. ASSUME NEW i \in 1..Len(v1), Settled(i, v1, v6')
        PROVE  /\ ToldIn(v4, i, v1, v2) => ToldIn(v4', i, v1, v2')
               /\ FoundIn(v7, v4, i, v1, v2) => FoundIn(v7, v4', i, v1, v2')
    <3>1. i - 1 \in 0..i /\ i - 1 \in 0..Len(v1) /\ i \in 1..i /\ Len(v1) \in Nat
      BY <2>2, OrderIs
    <3>2. ClaimsAt(i - 1, v1, v2') = ClaimsAt(i - 1, v1, v2) /\ v1[i] # s /\ v2'[v1[i]] = v2[v1[i]]
      BY <2>2, <2>4, <2>5, <3>1
    <3>3. ASSUME NEW p \in Audit!Range(ClaimsAt(i - 1, v1, v2)) PROVE p.scene # s
      <4>1. PICK j \in 1..(i - 1) : p.scene = v1[j]
        BY <2>2, <3>1, ClaimsAreSaid DEF ClaimsAt, IsOrder
      <4>2. j \in 1..i
        BY <3>1
      <4> QED
        BY <2>4, <2>5, <4>1, <4>2
    <3>4. \A n \in Audit!Claims(v1[i], v2[v1[i]]) : n.scene # s
      BY <3>2 DEF Audit!Claims
    <3>5. ASSUME NEW p \in Audit!Range(ClaimsAt(i - 1, v1, v2)), NEW n \in Audit!Claims(v1[i], v2[v1[i]])
          PROVE  /\ Standing(v4, p, n) => Standing(v4', p, n)
                 /\ Audit!Reported(v4, p, n) => Audit!Reported(v4', p, n)
      <4> DEFINE k == Audit!Fingerprint(p, n)
                 gone == {other \in DOMAIN v4 : s \in Audit!Named(other)}
      <4>1. k.scene # s /\ p.scene # s
        BY <3>3, <3>4 DEF Audit!Fingerprint
      <4>2. k \in gone => \E z \in v4[k].scenes : z # p.scene
        <5> HIDE DEF k
        <5> QED
          BY <4>1 DEF Audit!Named
      <4> HIDE DEF gone
      <4>3. v4' = Audit!Obsoleted(gone)
        BY <1>1 DEF gone
      <4> QED
        BY <4>2, <4>3, ObsoleteReports
    <3>6. ToldIn(v4, i, v1, v2) => ToldIn(v4', i, v1, v2')
      BY <3>2, <3>5 DEF ToldIn
    <3>7. FoundIn(v7, v4, i, v1, v2) => FoundIn(v7, v4', i, v1, v2')
      BY <3>2, <3>5 DEF FoundIn
    <3> QED
      BY <3>6, <3>7
  <2>6. AuditTypes'
    BY <1>1, <2>1, <2>2, <2>3 DEF AuditTypes
  <2>7. RightInv(v1, v2, v3, v4, v6, v7)'
    <3>1. ASSUME NEW i \in 1..Len(v1), Settled(i, v1, v6'), i < Reach(v7, v1)
          PROVE  Right(i, v1, v2', v3', v4')
      <4>1. Right(i, v1, v2, v3, v4)
        BY <2>1, <2>4, <3>1 DEF RightInv
      <4>2. ToldIn(v4', i, v1, v2')
        BY <1>1, <2>5, <3>1, <4>1 DEF Right
      <4>3. ClaimsAt(i, v1, v2') = ClaimsAt(i, v1, v2) /\ v1[i] \in AuditedScenes
        BY <2>2, <2>4, <3>1, OrderIs, i \in 0..i
      <4> QED
        BY <2>3, <4>1, <4>2, <4>3 DEF Right
    <3> QED
      BY <1>1, <3>1 DEF RightInv
  <2>8. ReadInv(v1, v2, v6, v7)'
    BY <1>1, <2>1, <2>2 DEF ReadInv, Aligned
  <2>9. StepInv(v1, v2, v4, v6, v7)'
    <3> USE DEF StepInv
    <3>1. ASSUME v7.step = "extracting", Settled(v7.next - 1, v1, v6')
          PROVE  v7.claims = ClaimsAt(v7.next - 1, v1, v2')
      BY <2>1, <2>4, <3>1, v7.next - 1 \in 0..(v7.next - 1) DEF Settled
    <3>2. ASSUME v7.step \in {"recording", "storing"}, Settled(v7.next, v1, v6')
          PROVE  v7.next \in 1..Len(v1) /\ v7.claims = ClaimsAt(v7.next, v1, v2')
      <4>1. v7.next \in 0..v7.next /\ v7.next \in 1..Len(v1)
        BY <1>3, <2>1, <2>2, <3>2, OrderIs, AuditJobIs DEF Settled
      <4> QED
        BY <2>1, <2>4, <3>2, <4>1
    <3>3. ASSUME v7.step = "recording", Settled(v7.next, v1, v6')
          PROVE  FoundIn(v7, v4', v7.next, v1, v2')
      BY <2>1, <2>4, <2>5, <3>2, <3>3
    <3>4. ASSUME v7.step = "storing", Settled(v7.next, v1, v6')
          PROVE  ToldIn(v4', v7.next, v1, v2')
      BY <1>1, <2>1, <2>4, <2>5, <3>2, <3>4
    <3>5. v7.step = "ending" => v7.next \in Nat /\ \A i \in 1..Len(v1) : Settled(i, v1, v6') => i < v7.next
      BY <2>1, <2>4
    <3> QED
      BY <1>1, <2>1, <3>1, <3>2, <3>3, <3>4, <3>5
  <2>10. QuotesInv(v2, v4, v6, v7)'
    <3>1. Awaited(v6, v7) \cup {s} = Awaited(v6, v7)'
      BY <1>1 DEF Awaited
    <3>2. ASSUME NEW q, IsCurrent(q, v2) \/ q.scene \in Awaited(v6, v7)
          PROVE  IsCurrent(q, v2') \/ q.scene \in Awaited(v6, v7)'
      BY <2>2, <3>1, <3>2 DEF IsCurrent
    <3> HIDE DEF Awaited
    <3>3. ASSUME NEW k \in DOMAIN v4', v4'[k].status = "ACTIVE"
          PROVE  Quoting(k, v4'[k], v2', Awaited(v6, v7)')
      <4>1. k \in DOMAIN v4 /\ v4[k].status = "ACTIVE" /\ v4'[k].scenes = v4[k].scenes
        BY <1>1, <3>3 DEF Audit!Obsoleted
      <4>2. k.scene # s /\ s \notin v4[k].scenes
        BY <1>1, <3>3, <4>1 DEF Audit!Obsoleted, Audit!Named
      <4>3. Quoting(k, v4[k], v2, Awaited(v6, v7))
        BY <2>1, <4>1 DEF QuotesInv
      <4> QED
        BY <2>2, <3>1, <4>1, <4>2, <4>3 DEF Quoting
    <3>4. v7.step = "recording" => FoundQuotes(v7.found, v2', Awaited(v6, v7)')
      <4>1. v7.step = "recording" => FoundQuotes(v7.found, v2, Awaited(v6, v7))
        BY <2>1 DEF QuotesInv
      <4> HIDE DEF IsCurrent
      <4> QED
        BY <3>2, <4>1 DEF FoundQuotes
    <3> QED
      BY <1>1, <3>3, <3>4 DEF QuotesInv
  <2> QED
    BY <1>1, <1>3, <2>6, <2>7, <2>8, <2>9, <2>10 DEF AuditInv
<1> QED
  BY <1>2, <1>3 DEF AuditInv

\* Another order: all scenes wait.
LEMMA MoveKeeps ==
  ASSUME AuditInv, Audit!MoveScene
  PROVE  AuditInv'
<1>1. /\ UNCHANGED <<v2, v3, v4, v7, v8>> /\ v6' = v6 \cup Audit!Range(v1)
      /\ v1' \in Audit!SetToSeqs(Audit!Range(v1))
  BY DEF Audit!MoveScene, Audit!Change
<1>2. CASE v8
  BY <1>1, <1>2 DEF AuditInv
<1>3. CASE ~v8
  <2>1. /\ AuditTypes /\ RightInv(v1, v2, v3, v4, v6, v7) /\ QuotesInv(v2, v4, v6, v7)
        /\ ReadInv(v1, v2, v6, v7) /\ StepInv(v1, v2, v4, v6, v7)
    BY <1>3 DEF AuditInv
  <2>2. Audit!Range(v1) \in SUBSET AuditedScenes
    BY <2>1, OrderIs DEF AuditTypes, Audit!Range
  <2>3. IsOrder(v1)' /\ \A i \in 1..Len(v1') : v1'[i] \in v6'
    BY <1>1, <2>2, ArrangedIs DEF IsOrder
  <2>4. Len(v1') \in Nat /\ Len(v1) \in Nat
    BY <2>1, <2>3, OrderIs DEF AuditTypes
  <2>5. \A i : Settled(i, v1', v6') => i = 0
    <3> SUFFICES ASSUME NEW i, Settled(i, v1', v6'), i # 0 PROVE FALSE
      OBVIOUS
    <3>1. i \in 1..i /\ i \in 1..Len(v1') /\ v1'[i] \notin v6'
      BY <2>4 DEF Settled
    <3> QED
      BY <2>3, <3>1
  <2>6. Settled(0, v1, v6) /\ ClaimsAt(0, v1, v2) = <<>> /\ ClaimsAt(0, v1', v2) = <<>>
    BY <2>4, ClaimsAre DEF Settled, ClaimsAt
  <2>7. AuditTypes'
    BY <1>1, <2>1, <2>3 DEF AuditTypes
  <2>8. RightInv(v1, v2, v3, v4, v6, v7)'
    BY <2>5 DEF RightInv
  <2>9. ReadInv(v1, v2, v6, v7)'
    BY <1>1, <2>1, <2>3 DEF ReadInv, Aligned
  <2>10. StepInv(v1, v2, v4, v6, v7)'
    <3>1. \A i \in 1..Len(v1') : ~Settled(i, v1', v6')
      BY <2>5
    <3>2. ASSUME v7.step \in {"recording", "storing"} PROVE ~Settled(v7.next, v1', v6')
      <4>1. v7.next # 0
        BY <1>3, <2>1, <3>2, AuditJobIs DEF StepInv
      <4> QED
        BY <2>5, <4>1
    <3>3. ASSUME v7.step = "extracting", Settled(v7.next - 1, v1', v6')
          PROVE  v7.claims = ClaimsAt(v7.next - 1, v1', v2)
      BY <2>1, <2>5, <2>6, <3>3 DEF StepInv
    <3> HIDE DEF Settled
    <3> QED
      BY <1>1, <2>1, <3>1, <3>2, <3>3 DEF StepInv
  <2>11. QuotesInv(v2, v4, v6, v7)'
    <3>1. Awaited(v6, v7) \subseteq Awaited(v6, v7)'
      BY <1>1 DEF Awaited
    <3> QED
      BY <1>1, <2>1, <3>1 DEF QuotesInv, Quoting, FoundQuotes
  <2> QED
    BY <1>1, <1>3, <2>7, <2>8, <2>9, <2>10, <2>11 DEF AuditInv
<1> QED
  BY <1>2, <1>3 DEF AuditInv

LEMMA AuditStep ==
  ASSUME AuditInv, Audit!Next \/ UNCHANGED <<v1, v2, v3, v4, v5, v6, v7, v8, v9, v10>>
  PROVE  AuditInv'
<1>1. CASE UNCHANGED <<v1, v2, v3, v4, v5, v6, v7, v8, v9, v10>> \/ Audit!ChangeMode
  <2>1. UNCHANGED <<v1, v2, v3, v4, v6, v7, v8>>
    BY <1>1 DEF Audit!ChangeMode, Audit!Change
  <2> QED
    BY <2>1 DEF AuditInv, AuditTypes
<1>2. CASE \/ \E s \in AuditedScenes : Audit!SkipAudit(s) \/ Audit!RemoveScene(s)
           \/ Audit!FailAudit
  BY <1>2 DEF Audit!SkipAudit, Audit!RemoveScene, Audit!FailAudit, AuditInv
<1> QED
  BY <1>1, <1>2, LoadKeeps, ResumeKeeps, ExtractKeeps, RecordKeeps, StoreKeeps, EndKeeps, SaveKeeps,
     MoveKeeps, Zenon DEF Audit!Next

LEMMA QuietIsComplete ==
  ASSUME AuditInv
  PROVE  Audit!QuietAuditIsComplete
<1> SUFFICES ASSUME v7 = Audit!Idle, v6 = {}, ~v8
             PROVE  /\ \A i \in DOMAIN v1 : ToldIn(v4, i, v1, v2)
                    /\ \A k \in DOMAIN v4 : v4[k].status = "ACTIVE" => Quoting(k, v4[k], v2, {})
  BY DEF Audit!QuietAuditIsComplete, Quoting, ToldIn, ClaimsAt
<1>1. AuditTypes /\ RightInv(v1, v2, v3, v4, v6, v7) /\ QuotesInv(v2, v4, v6, v7) /\ v7.step = "idle"
  BY DEF AuditInv, Audit!Idle
<1>2. Len(v1) \in Nat /\ DOMAIN v1 = 1..Len(v1)
  BY <1>1, OrderIs DEF AuditTypes
<1>3. \A i \in 1..Len(v1) : Settled(i, v1, v6) /\ i < Reach(v7, v1)
  BY <1>1, <1>2 DEF Settled, Reach
<1>4. \A i \in 1..Len(v1) : Right(i, v1, v2, v3, v4)
  BY <1>1, <1>3 DEF RightInv
<1>5. Awaited(v6, v7) = {}
  BY <1>1 DEF Awaited
<1> QED
  BY <1>1, <1>2, <1>4, <1>5 DEF Right, QuotesInv

\* Once every queued audit has run, each contradiction of a scene with the claims before
\* it is an alert, active unless its row has come to quote a third scene, and an active
\* alert quotes the current text of its scene and of an earlier one, for any number of
\* scenes, saves and moves (auditScene, resolveContinuityResumePoint, createAlert,
\* mergeSourceConflict, obsoleteCrossChunkAlertsForProject).
THEOREM AuditIsComplete == AuditsSpec => []QuietAuditIsComplete
<1> DEFINE Inv == part = "audit" => AuditInv
<1>1. AuditsInit => Inv
  BY PartInits, AuditStart
<1>2. Inv /\ [AuditsNext]_auditVars => Inv'
  BY PartSteps, AuditStep
<1>3. Inv => QuietAuditIsComplete
  BY QuietIsComplete DEF QuietAuditIsComplete
<1>4. QED
  BY <1>1, <1>2, <1>3, PTL DEF AuditsSpec
-----------------------------------------------------------------------------
(* SceneAlerts: v4 are the alerts, v5 the patterns the author dismissed,   *)
(* v6 is the analysis that runs.                                           *)
(*                                                                         *)
(* Between its check for a dismissal and its write, the pattern an         *)
(* analysis is about to write is not dismissed, or it was overtaken.       *)

IsAlert(row) == row = [fingerprint |-> row.fingerprint, status |-> row.status, sources |-> row.sources]

IsAlertJob(held) ==
  \/ held = Alerts!Idle
  \/ /\ held.step \in {"extracting", "auditing", "finding"}
     /\ held = [step |-> held.step, dirty |-> held.dirty, found |-> held.found,
                overtaken |-> held.overtaken]
  \/ /\ held.step = "writing"
     /\ held = [step |-> "writing", dirty |-> held.dirty, found |-> held.found,
                overtaken |-> held.overtaken, known |-> held.known]

CheckedInv ==
  v6.step \in {"finding", "writing"} /\ ~v6.overtaken => Alerts!Pattern(Alerts!ThisPrint) \notin v5

AlertsInv == (\A row \in v4 : IsAlert(row)) /\ IsAlertJob(v6) /\ CheckedInv

LEMMA AlertsInit ==
  ASSUME Alerts!Init
  PROVE  AlertsInv
BY DEF Alerts!Init, Alerts!Idle, AlertsInv, IsAlertJob, CheckedInv

\* What is made obsolete is not active, and nothing else changes.
LEMMA ObsoleteKeeps ==
  ASSUME AlertsInv, NEW stale, v4' = Alerts!Obsolete(stale)
  PROVE  /\ \A row \in v4' : IsAlert(row)
         /\ Alerts!DismissedReturnsOvertaken
<1>1. ASSUME NEW row \in v4'
      PROVE  IsAlert(row) /\ (row.status = "ACTIVE" => row \in v4)
  <2>1. PICK old \in v4 :
          row = IF old.status = "ACTIVE" /\ old \in stale THEN [old EXCEPT !.status = "OBSOLETE"] ELSE old
    BY DEF Alerts!Obsolete
  <2>2. old = [fingerprint |-> old.fingerprint, status |-> old.status, sources |-> old.sources]
    BY DEF AlertsInv, IsAlert
  <2>3. CASE row = old
    BY <2>2, <2>3 DEF IsAlert
  <2>4. CASE row = [old EXCEPT !.status = "OBSOLETE"]
    <3>1. row = [fingerprint |-> old.fingerprint, status |-> "OBSOLETE", sources |-> old.sources]
      BY <2>2, <2>4
    <3>2. QED
      BY <3>1 DEF IsAlert
  <2>5. QED
    BY <2>1, <2>3, <2>4
<1>2. QED
  BY <1>1 DEF Alerts!DismissedReturnsOvertaken

\* The author's decision is about one alert; one that becomes active loses its pattern.
LEMMA DecisionKeeps ==
  ASSUME AlertsInv, NEW old \in v4, NEW decision, Alerts!Decide(old, decision),
         decision = "ACTIVE" => Alerts!Pattern(old.fingerprint) \notin v5'
  PROVE  /\ \A row \in v4' : IsAlert(row)
         /\ Alerts!DismissedReturnsOvertaken
<1> DEFINE new == [old EXCEPT !.status = decision]
<1>1. v4' = (v4 \ {old}) \cup {new}
  BY DEF Alerts!Decide
<1>2. old = [fingerprint |-> old.fingerprint, status |-> old.status, sources |-> old.sources]
  BY DEF AlertsInv, IsAlert
<1>3. new = [fingerprint |-> old.fingerprint, status |-> decision, sources |-> old.sources]
  BY <1>2
<1> HIDE DEF new
<1>4. IsAlert(new) /\ new.status = decision /\ new.fingerprint = old.fingerprint
  BY <1>3 DEF IsAlert
<1>5. QED
  BY <1>1, <1>4 DEF AlertsInv, Alerts!DismissedReturnsOvertaken

LEMMA AlertsStep ==
  ASSUME AlertsInv, Alerts!Next \/ UNCHANGED <<v1, v2, v3, v4, v5, v6, v7, v8, v9, v10>>
  PROVE  AlertsInv' /\ Alerts!DismissedReturnsOvertaken
<1>1. CASE UNCHANGED <<v1, v2, v3, v4, v5, v6, v7, v8, v9, v10>>
  BY <1>1 DEF AlertsInv, CheckedInv, Alerts!ThisPrint, Alerts!This, Alerts!Fingerprint,
              Alerts!Pattern, Alerts!DismissedReturnsOvertaken
<1>2. CASE Alerts!Begin
  <2>1. PICK dirty : v6' \in {Alerts!Idle, v6, [step |-> "extracting", dirty |-> dirty, found |-> <<>>,
                                                overtaken |-> FALSE]}
                     /\ v6 = Alerts!Idle
    BY <1>2 DEF Alerts!Begin, Alerts!EndJob
  <2>2. IsAlertJob(v6') /\ CheckedInv'
    BY <2>1 DEF IsAlertJob, CheckedInv, Alerts!Idle
  <2>3. QED
    BY <1>2, <2>2, ObsoleteKeeps DEF Alerts!Begin, AlertsInv
<1>3. CASE Alerts!LoadChunks
  <2>1. v4' = v4 /\ v6.step = "extracting"
        /\ v6' = [v6 EXCEPT !.step = "auditing", !.found = Alerts!Reported(v2, v6.dirty)]
    BY <1>3 DEF Alerts!LoadChunks
  <2>2. v6 = [step |-> "extracting", dirty |-> v6.dirty, found |-> v6.found, overtaken |-> v6.overtaken]
    BY <2>1 DEF AlertsInv, IsAlertJob, Alerts!Idle
  <2>3. v6' = [step |-> "auditing", dirty |-> v6.dirty, found |-> Alerts!Reported(v2, v6.dirty),
               overtaken |-> v6.overtaken]
    BY <2>1, <2>2
  <2>4. IsAlertJob(v6') /\ CheckedInv'
    BY <2>3 DEF IsAlertJob, CheckedInv
  <2>5. QED
    BY <2>1, <2>4 DEF AlertsInv, Alerts!DismissedReturnsOvertaken
<1>4. CASE Alerts!Fail
  <2>1. v4' = v4 /\ v6' = Alerts!Idle
    BY <1>4 DEF Alerts!Fail
  <2>2. IsAlertJob(v6') /\ CheckedInv'
    BY <2>1 DEF IsAlertJob, CheckedInv, Alerts!Idle
  <2>3. QED
    BY <2>1, <2>2 DEF AlertsInv, Alerts!DismissedReturnsOvertaken
<1>5. CASE Alerts!CheckSuppression
  <2>1. v4' = v4 /\ v6.step = "auditing"
    BY <1>5 DEF Alerts!CheckSuppression
  <2>2. v6 = [step |-> "auditing", dirty |-> v6.dirty, found |-> v6.found, overtaken |-> v6.overtaken]
    BY <2>1 DEF AlertsInv, IsAlertJob, Alerts!Idle
  <2>3. CASE v6' = [v6 EXCEPT !.step = "auditing", !.found = Tail(@)]
    <3>1. v6' = [step |-> "auditing", dirty |-> v6.dirty, found |-> Tail(v6.found), overtaken |-> v6.overtaken]
      BY <2>2, <2>3
    <3>2. IsAlertJob(v6') /\ CheckedInv'
      BY <3>1 DEF IsAlertJob, CheckedInv
    <3>3. QED
      BY <2>1, <3>2 DEF AlertsInv, Alerts!DismissedReturnsOvertaken
  <2>4. CASE /\ v6' = [v6 EXCEPT !.step = "finding", !.overtaken = FALSE]
             /\ ~Alerts!Suppressed(Alerts!ThisPrint) /\ v5' = v5
    <3>1. v6' = [step |-> "finding", dirty |-> v6.dirty, found |-> v6.found, overtaken |-> FALSE]
      BY <2>2, <2>4
    <3>2. Alerts!Pattern(Alerts!ThisPrint) \notin v5
      BY <2>4 DEF Alerts!Suppressed
    <3>3. Alerts!ThisPrint' = Alerts!ThisPrint
      BY <3>1 DEF Alerts!ThisPrint, Alerts!This, Alerts!Fingerprint
    <3>4. IsAlertJob(v6') /\ CheckedInv'
      BY <2>4, <3>1, <3>2, <3>3 DEF IsAlertJob, CheckedInv, Alerts!Pattern
    <3>5. QED
      BY <2>1, <3>4 DEF AlertsInv, Alerts!DismissedReturnsOvertaken
  <2>5. QED
    BY <1>5, <2>3, <2>4 DEF Alerts!CheckSuppression, Alerts!SkipThis
<1>6. CASE Alerts!FindAlert
  <2>1. v4' = v4 /\ v5' = v5 /\ v6.step = "finding"
    BY <1>6 DEF Alerts!FindAlert
  <2>2. v6 = [step |-> "finding", dirty |-> v6.dirty, found |-> v6.found, overtaken |-> v6.overtaken]
    BY <2>1 DEF AlertsInv, IsAlertJob, Alerts!Idle
  <2>3. CASE v6' = [v6 EXCEPT !.step = "auditing", !.found = Tail(@)]
    <3>1. v6' = [step |-> "auditing", dirty |-> v6.dirty, found |-> Tail(v6.found), overtaken |-> v6.overtaken]
      BY <2>2, <2>3
    <3>2. IsAlertJob(v6') /\ CheckedInv'
      BY <3>1 DEF IsAlertJob, CheckedInv
    <3>3. QED
      BY <2>1, <3>2 DEF AlertsInv, Alerts!DismissedReturnsOvertaken
  <2>4. ASSUME NEW known, v6' = [step |-> "writing", dirty |-> v6.dirty, found |-> v6.found,
                                 overtaken |-> v6.overtaken, known |-> known]
        PROVE  AlertsInv' /\ Alerts!DismissedReturnsOvertaken
    <3>1. Alerts!ThisPrint' = Alerts!ThisPrint
      BY <2>4 DEF Alerts!ThisPrint, Alerts!This, Alerts!Fingerprint
    <3>2. IsAlertJob(v6')
      BY <2>4 DEF IsAlertJob
    <3>3. CheckedInv'
      BY <2>1, <2>4, <3>1 DEF AlertsInv, CheckedInv, Alerts!Pattern
    <3>4. QED
      BY <2>1, <3>2, <3>3 DEF AlertsInv, Alerts!DismissedReturnsOvertaken
  <2>5. QED
    BY <1>6, <2>3, <2>4 DEF Alerts!FindAlert, Alerts!SkipThis
<1>7. CASE Alerts!WriteAlert
  <2>1. v6.step = "writing" /\ v5' = v5
        /\ v6' = [step |-> "auditing", dirty |-> v6.dirty, found |-> Tail(v6.found), overtaken |-> FALSE]
    BY <1>7 DEF Alerts!WriteAlert
  <2>2. IsAlertJob(v6') /\ CheckedInv'
    BY <2>1 DEF IsAlertJob, CheckedInv
  <2>3. \A row \in v4' : row \in v4 \/ (IsAlert(row) /\ row.fingerprint = Alerts!ThisPrint)
    BY <1>7 DEF Alerts!WriteAlert, IsAlert
  <2>4. v6.overtaken \/ Alerts!Pattern(Alerts!ThisPrint) \notin v5
    BY <2>1 DEF AlertsInv, CheckedInv
  <2>5. QED
    BY <2>2, <2>3, <2>4 DEF AlertsInv, Alerts!DismissedReturnsOvertaken
<1>8. CASE Alerts!Reconcile
  <2>1. v6' = Alerts!Idle
    BY <1>8 DEF Alerts!Reconcile, Alerts!EndJob
  <2>2. IsAlertJob(v6') /\ CheckedInv'
    BY <2>1 DEF IsAlertJob, CheckedInv, Alerts!Idle
  <2>3. QED
    BY <1>8, <2>2, ObsoleteKeeps DEF Alerts!Reconcile, AlertsInv
<1>9. ASSUME NEW content, Alerts!Save(content)
      PROVE  AlertsInv' /\ Alerts!DismissedReturnsOvertaken
  <2>1. v5' = v5 /\ v6' = v6
    BY <1>9 DEF Alerts!Save
  <2>2. IsAlertJob(v6') /\ CheckedInv'
    BY <2>1 DEF AlertsInv, CheckedInv, Alerts!ThisPrint, Alerts!This, Alerts!Fingerprint, Alerts!Pattern
  <2>3. QED
    BY <1>9, <2>2, ObsoleteKeeps DEF Alerts!Save, AlertsInv
<1>10. ASSUME NEW old \in v4, Alerts!Resolve(old) \/ Alerts!RestoreAlert(old)
       PROVE  AlertsInv' /\ Alerts!DismissedReturnsOvertaken
  <2>1. v6' = v6 /\ v5' \subseteq v5
    BY <1>10 DEF Alerts!Resolve, Alerts!RestoreAlert
  <2>2. IsAlertJob(v6') /\ CheckedInv'
    BY <2>1 DEF AlertsInv, CheckedInv, Alerts!ThisPrint, Alerts!This, Alerts!Fingerprint, Alerts!Pattern
  <2>3. CASE Alerts!Resolve(old)
    BY <2>2, <2>3, DecisionKeeps DEF Alerts!Resolve, AlertsInv
  <2>4. CASE Alerts!RestoreAlert(old)
    <3>1. Alerts!Decide(old, "ACTIVE") /\ Alerts!Pattern(old.fingerprint) \notin v5'
      BY <2>4 DEF Alerts!RestoreAlert
    <3>2. QED
      BY <2>2, <3>1, DecisionKeeps DEF AlertsInv
  <2>5. QED
    BY <1>10, <2>3, <2>4
<1>11. ASSUME NEW old \in v4, Alerts!Dismiss(old)
       PROVE  AlertsInv' /\ Alerts!DismissedReturnsOvertaken
  <2>1. v6' = IF v6.step \in {"finding", "writing"} THEN [v6 EXCEPT !.overtaken = TRUE] ELSE v6
    BY <1>11 DEF Alerts!Dismiss
  <2>2. CASE v6' = v6 /\ v6.step \notin {"finding", "writing"}
    BY <1>11, <2>2, DecisionKeeps DEF Alerts!Dismiss, AlertsInv, CheckedInv
  <2>3. CASE v6.step = "finding"
    <3>1. v6 = [step |-> "finding", dirty |-> v6.dirty, found |-> v6.found, overtaken |-> v6.overtaken]
      BY <2>3 DEF AlertsInv, IsAlertJob, Alerts!Idle
    <3>2. v6' = [step |-> "finding", dirty |-> v6.dirty, found |-> v6.found, overtaken |-> TRUE]
      BY <2>1, <2>3, <3>1
    <3>3. IsAlertJob(v6') /\ CheckedInv'
      BY <3>2 DEF IsAlertJob, CheckedInv
    <3>4. QED
      BY <1>11, <3>3, DecisionKeeps DEF Alerts!Dismiss, AlertsInv
  <2>4. CASE v6.step = "writing"
    <3>1. v6 = [step |-> "writing", dirty |-> v6.dirty, found |-> v6.found, overtaken |-> v6.overtaken,
                known |-> v6.known]
      BY <2>4 DEF AlertsInv, IsAlertJob, Alerts!Idle
    <3>2. v6' = [step |-> "writing", dirty |-> v6.dirty, found |-> v6.found, overtaken |-> TRUE,
                 known |-> v6.known]
      BY <2>1, <2>4, <3>1
    <3>3. IsAlertJob(v6') /\ CheckedInv'
      BY <3>2 DEF IsAlertJob, CheckedInv
    <3>4. QED
      BY <1>11, <3>3, DecisionKeeps DEF Alerts!Dismiss, AlertsInv
  <2>5. QED
    BY <2>1, <2>2, <2>3, <2>4
<1>12. QED
  BY <1>1, <1>2, <1>3, <1>4, <1>5, <1>6, <1>7, <1>8, <1>9, <1>10, <1>11 DEF Alerts!Next

\* An analysis never makes a conflict active that the author has dismissed, whatever was
\* edited, moved or swapped, unless the dismissal came after the alert's check for one
\* (cross-chunk-audit.service.ts, createAlert).
THEOREM DismissedIsFinal == AuditsSpec => DismissedStaysAway
<1> DEFINE Inv == part = "alerts" => AlertsInv
<1>1. AuditsInit => Inv
  BY PartInits, AlertsInit
<1>2. Inv /\ [AuditsNext]_auditVars => Inv'
  BY PartSteps, AlertsStep
<1>3. Inv /\ [AuditsNext]_auditVars => [part = "alerts" => Alerts!DismissedReturnsOvertaken]_auditVars
  BY PartSteps, AlertsStep
<1>4. QED
  BY <1>1, <1>2, <1>3, PTL DEF AuditsSpec, DismissedStaysAway
-----------------------------------------------------------------------------
(* SceneAlerts again, once all is done: v1 is the mode, v2 the chunks, v3  *)
(* the events that wait, v4 the alerts, v5 the patterns that are           *)
(* suppressed, v6 the analysis, v7 the decisions, v8 whether one failed.   *)
(*                                                                         *)
(* Two clean neighbours that contradict each other, in a way nobody        *)
(* decided about, have an alert that tells of them, or the analysis that   *)
(* runs has them among what it is about to write (AllTold).  That the      *)
(* write tells of them needs to know what it read: the alert of the        *)
(* fingerprint as it was, or none (KnownIs), and that a save that made it  *)
(* obsolete since left one of the two chunks dirty (Overtaken).  From the  *)
(* beginning of the last analysis on, what is active quotes current text   *)
(* (LastCurrent).                                                          *)


\* A text is a sequence.
IsText(text) == \E S : text \in Seq(S)

LEMMA EmptyText == IsText(<<>>)
<1>1. <<>> \in Seq({})
  OBVIOUS
<1> QED
  BY <1>1 DEF IsText

\* A function on the first numbers is a sequence of that length.
LEMMA TextIs ==
  ASSUME NEW n \in Nat, NEW text, text = [i \in 1..n |-> text[i]]
  PROVE  IsText(text) /\ Len(text) = n /\ DOMAIN text = 1..n
<1> DEFINE S == {text[i] : i \in 1..n}
<1>1. text \in [1..n -> S]
  OBVIOUS
<1> HIDE DEF S
<1>2. text \in Seq(S)
  BY <1>1
<1>3. DOMAIN text = 1..Len(text) /\ DOMAIN text = 1..n /\ Len(text) \in Nat
  BY <1>1, <1>2
<1>4. Len(text) = n
  BY <1>3
<1>5. QED
  BY <1>2, <1>3, <1>4 DEF IsText

\* What a sequence and its tail are.
LEMMA IsTextOf ==
  ASSUME NEW text, IsText(text)
  PROVE  /\ Len(text) \in Nat /\ DOMAIN text = 1..Len(text)
         /\ text = [i \in 1..Len(text) |-> text[i]]
         /\ text # <<>> => /\ Len(text) > 0 /\ Head(text) = text[1]
                           /\ IsText(Tail(text)) /\ Len(Tail(text)) = Len(text) - 1
                           /\ \A i \in 1..(Len(text) - 1) : Tail(text)[i] = text[i + 1]
         /\ text = <<>> => Len(text) = 0
<1>1. PICK S : text \in Seq(S)
  BY DEF IsText
<1>2. Tail(text) \in Seq(S) \/ text = <<>>
  BY <1>1
<1>3. QED
  BY <1>1, <1>2 DEF IsText

\* A sequence with one element more.
LEMMA TextAppended ==
  ASSUME NEW text, IsText(text), NEW one
  PROVE  /\ IsText(Append(text, one)) /\ Len(Append(text, one)) = Len(text) + 1
         /\ Append(text, one)[Len(text) + 1] = one
         /\ Append(text, one) # <<>>
<1>1. PICK S : text \in Seq(S)
  BY DEF IsText
<1>2. text \in Seq(S \cup {one}) /\ one \in S \cup {one}
  BY <1>1
<1>3. Append(text, one) \in Seq(S \cup {one})
  BY <1>2
<1>4. Len(Append(text, one)) = Len(text) + 1 /\ Len(text) \in Nat
  BY <1>2
<1>5. QED
  BY <1>2, <1>3, <1>4 DEF IsText

\* The instance counts what the library's theorems count.
LEMMA SameCount == \A S : Alerts!Cardinality(S) = Cardinality(S)
BY DEF Alerts!Cardinality, Cardinality

\* A row has its place in its identity.
IsChunk(row, i) == row = [id |-> row.id, text |-> row.text, dirty |-> row.dirty] /\ row.id[2] = i

AreChunks(rows) == IsText(rows) /\ \A i \in 1..Len(rows) : IsChunk(rows[i], i)

\* Narrative order of pairs, and what comes before one of them.
Earlier(p, q) == p[1] < q[1] \/ (p[1] = q[1] /\ p[2] < q[2])

RankIn(Found, p) ==
  Alerts!Cardinality({q \in Found : q[1] < p[1] \/ (q[1] = p[1] /\ q[2] < p[2])})

\* The pairs of n places in narrative order, each at the rank that the size of what comes
\* before gives it.
LEMMA RanksAreFilled ==
  ASSUME NEW n \in Nat, NEW Found \in SUBSET ((1..n) \X (1..n))
  PROVE  /\ Cardinality(Found) \in Nat
         /\ \A p \in Found : RankIn(Found, p) \in Nat /\ RankIn(Found, p) + 1 \in 1..Cardinality(Found)
         /\ \A p, q \in Found : RankIn(Found, p) = RankIn(Found, q) => p = q
         /\ \A k \in 1..Cardinality(Found) : \E p \in Found : RankIn(Found, p) = k - 1
<1> DEFINE Before(p) == {q \in Found : Earlier(q, p)}
           Rank(p) == Cardinality(Before(p))
           size == Cardinality(Found)
           rank == [p \in Found |-> Rank(p) + 1]
<1>1. IsFiniteSet(Found)
  <2>1. IsFiniteSet(1..n)
    BY FS_Interval
  <2>2. IsFiniteSet((1..n) \X (1..n))
    BY <2>1, FS_Product
  <2>3. QED
    BY <2>2, FS_Subset
<1>2. size \in Nat
  BY <1>1, FS_CardinalityType
<1>3. \A p \in Found : /\ p[1] \in Nat /\ p[2] \in Nat /\ p = <<p[1], p[2]>>
  OBVIOUS
<1>4. ASSUME NEW p \in Found, NEW S \in SUBSET Found, p \notin S, Before(p) \subseteq S
      PROVE  /\ Before(p) \in SUBSET S /\ IsFiniteSet(S) /\ Rank(p) \in Nat
             /\ Cardinality(S) \in Nat /\ Rank(p) <= Cardinality(S)
  <2>1. IsFiniteSet(S)
    BY <1>1, FS_Subset
  <2> HIDE DEF Before
  <2>2. QED
    BY <1>4, <2>1, FS_Subset, FS_CardinalityType
<1>5. ASSUME NEW p \in Found
      PROVE  p \notin Before(p) /\ Before(p) \in SUBSET Found
  BY <1>3 DEF Earlier
<1>6. ASSUME NEW p \in Found, NEW T \in SUBSET Found, p \in T, Before(p) \subseteq T
      PROVE  Rank(p) < Cardinality(T) /\ Rank(p) \in Nat /\ Cardinality(T) \in Nat
  <2>1. IsFiniteSet(T)
    BY <1>1, FS_Subset
  <2>2. p \notin Before(p)
    BY <1>5
  <2> HIDE DEF Before
  <2>3. Rank(p) <= Cardinality(T) /\ (Cardinality(T) = Rank(p) => T = Before(p))
        /\ Cardinality(T) \in Nat /\ Rank(p) \in Nat
    BY <1>6, <2>1, FS_Subset, FS_CardinalityType
  <2>4. QED
    BY <1>6, <2>2, <2>3
<1>7. ASSUME NEW p \in Found, NEW q \in Found, Earlier(p, q)
      PROVE  Rank(p) < Rank(q) /\ Rank(p) \in Nat /\ Rank(q) \in Nat
  <2>1. p \in Before(q) /\ Before(p) \subseteq Before(q) /\ Before(q) \in SUBSET Found
    BY <1>3, <1>7 DEF Earlier
  <2> HIDE DEF Before
  <2>2. QED
    BY <1>6, <2>1
<1>8. \A p \in Found : Rank(p) \in Nat /\ Rank(p) < size
  <2> TAKE p \in Found
  <2>1. Before(p) \subseteq Found
    OBVIOUS
  <2> HIDE DEF Before
  <2>2. QED
    BY <1>6, <2>1
<1>9. ASSUME NEW p \in Found, NEW q \in Found, Rank(p) = Rank(q)
      PROVE  p = q
  <2>1. p = q \/ Earlier(p, q) \/ Earlier(q, p)
    BY <1>3 DEF Earlier
  <2> HIDE DEF Before
  <2>2. QED
    BY <1>7, <1>9, <2>1
<1> HIDE DEF Before
<1>10. rank \in Injection(Found, 1..size)
  BY <1>2, <1>8, <1>9 DEF Injection, IsInjective
<1>11. rank \in Surjection(Found, 1..size)
  <2>1. IsFiniteSet(1..size) /\ Cardinality(1..size) = size
    BY <1>2, FS_Interval
  <2> HIDE DEF rank, size
  <2>2. Cardinality(Found) = Cardinality(1..size)
    BY <2>1 DEF size
  <2>3. QED
    BY <1>10, <2>1, <2>2, FS_Injection
<1>12. \A k \in 1..size : \E p \in Found : Rank(p) = k - 1
  <2> TAKE k \in 1..size
  <2>1. PICK p \in Found : rank[p] = k
    BY <1>11 DEF Surjection
  <2>2. QED
    BY <1>2, <1>8, <2>1
<1>13. \A p : RankIn(Found, p) = Rank(p)
  BY SameCount DEF RankIn, Before, Earlier
<1> HIDE DEF Rank
<1>14. QED
  BY <1>2, <1>8, <1>9, <1>12, <1>13

\* Of n chunks, two neighbours with a dirty one between them are a pair the audit looks
\* at, whether it goes by neighbours or by groups.
LEMMA NeighboursAreAudited ==
  ASSUME NEW n \in Nat, NEW dirty, NEW i \in 1..(n - 1), {i, i + 1} \cap dirty # {}
  PROVE  /\ <<i, i + 1>> \in Alerts!AdjacentPairs(n, dirty)
         /\ <<i, i + 1>> \in Alerts!GroupedPairs(n, dirty)
<1>1. <<i, i + 1>> \in Alerts!AdjacentPairs(n, dirty)
  BY DEF Alerts!AdjacentPairs
<1>2. Alerts!Stride \in Nat /\ Alerts!Stride > 0 /\ GroupSize = Alerts!Stride + 1
  BY AuditsAssumption DEF Alerts!SceneAssumption, Alerts!Stride
<1>3. PICK k \in Nat : k * Alerts!Stride <= i - 1 /\ i - 1 < k * Alerts!Stride + Alerts!Stride
  <2> DEFINE k == (i - 1) \div Alerts!Stride
  <2>1. i - 1 \in Nat
    OBVIOUS
  <2> HIDE DEF k
  <2>2. k \in Nat /\ k * Alerts!Stride <= i - 1 /\ i - 1 < k * Alerts!Stride + Alerts!Stride
    BY <1>2, <2>1 DEF k
  <2>3. QED
    BY <2>2
<1>4. PICK begin \in Nat : begin = k * Alerts!Stride
  BY <1>2
<1>5. k \in 0..n
  <2>1. k <= k * Alerts!Stride
    BY <1>2
  <2>2. QED
    BY <1>3, <1>4, <2>1
<1> DEFINE g == (begin + 1)..(IF n < begin + GroupSize THEN n ELSE begin + GroupSize)
<1>6. g \in Alerts!Groups(n)
  <2>1. k * Alerts!Stride < n - 1
    BY <1>3, <1>4
  <2>2. k \in {j \in 0..n : j * Alerts!Stride < n - 1}
    BY <1>5, <2>1
  <2>3. g = (k * Alerts!Stride + 1)..(IF n < k * Alerts!Stride + GroupSize THEN n
                                      ELSE k * Alerts!Stride + GroupSize)
    BY <1>4
  <2> HIDE DEF g
  <2>4. QED
    BY <2>2, <2>3 DEF Alerts!Groups
<1>7. i \in g /\ i + 1 \in g
  BY <1>2, <1>3, <1>4
<1> HIDE DEF g
<1>8. <<i, i + 1>> \in {p \in g \X g : p[1] < p[2]}
  BY <1>7
<1>9. g \cap dirty # {}
  BY <1>7
<1>10. <<i, i + 1>> \in Alerts!GroupedPairs(n, dirty)
  BY <1>6, <1>8, <1>9 DEF Alerts!GroupedPairs
<1>11. QED
  BY <1>1, <1>10

\* What the audit looks at are places of the scene.
LEMMA PairsArePlaces ==
  ASSUME NEW n \in Nat, NEW dirty
  PROVE  /\ Alerts!AdjacentPairs(n, dirty) \subseteq (1..n) \X (1..n)
         /\ Alerts!GroupedPairs(n, dirty) \subseteq (1..n) \X (1..n)
<1>1. Alerts!AdjacentPairs(n, dirty) \subseteq (1..n) \X (1..n)
  BY DEF Alerts!AdjacentPairs
<1>2. Alerts!Stride \in Nat /\ GroupSize \in Nat
  BY AuditsAssumption DEF Alerts!SceneAssumption, Alerts!Stride
<1>3. ASSUME NEW g \in Alerts!Groups(n)
      PROVE  g \subseteq 1..n
  <2>1. PICK k \in 0..n :
          g = (k * Alerts!Stride + 1)..(IF n < k * Alerts!Stride + GroupSize THEN n
                                        ELSE k * Alerts!Stride + GroupSize)
    BY <1>3 DEF Alerts!Groups
  <2>2. PICK begin \in Nat : begin = k * Alerts!Stride
    BY <1>2
  <2>3. g = (begin + 1)..(IF n < begin + GroupSize THEN n ELSE begin + GroupSize)
    BY <2>1, <2>2
  <2>4. QED
    BY <1>2, <2>3
<1>4. Alerts!GroupedPairs(n, dirty) \subseteq (1..n) \X (1..n)
  BY <1>3 DEF Alerts!GroupedPairs
<1>5. QED
  BY <1>1, <1>4

\* The pairs of places an audit reports, and the one it reports as number k.
FoundPairs(rows, dirty) ==
  LET places == {i \in DOMAIN rows : rows[i].id \in dirty}
      pairs == IF v1 = "ADJACENT" THEN Alerts!AdjacentPairs(Len(rows), places)
                                  ELSE Alerts!GroupedPairs(Len(rows), places)
  IN  {p \in pairs : Alerts!Contradict(rows[p[1]], rows[p[2]])}

PairAt(Found, k) == CHOOSE p \in Found : RankIn(Found, p) = k - 1

\* Everything that is reported is two chunks of the scene, and two neighbours that
\* contradict each other, one of them dirty, are reported (ReportedIs).
IsReport(rows, dirty, told) ==
  /\ IsText(told)
  /\ \A k \in 1..Len(told) : \E i, j \in 1..Len(rows) :
       told[k].first = rows[i] /\ told[k].second = rows[j]
  /\ \A i \in 1..(Len(rows) - 1) :
       /\ Alerts!Contradict(rows[i], rows[i + 1])
       /\ rows[i].id \in dirty \/ rows[i + 1].id \in dirty
       => \E k \in 1..Len(told) : told[k].first = rows[i] /\ told[k].second = rows[i + 1]

\* The model's report is one.
LEMMA ReportedIs ==
  ASSUME NEW rows, AreChunks(rows), NEW dirty
  PROVE  IsReport(rows, dirty, Alerts!Reported(rows, dirty))
<1> DEFINE told == Alerts!Reported(rows, dirty)
           F == FoundPairs(rows, dirty)
           places == {i \in DOMAIN rows : rows[i].id \in dirty}
<1>1. Len(rows) \in Nat /\ DOMAIN rows = 1..Len(rows)
  BY IsTextOf DEF AreChunks
<1>2. F \in SUBSET ((1..Len(rows)) \X (1..Len(rows)))
  BY <1>1, PairsArePlaces DEF FoundPairs
<1>3. told = [k \in 1..Cardinality(F) |-> [first |-> rows[PairAt(F, k)[1]], second |-> rows[PairAt(F, k)[2]]]]
  <2>1. Alerts!Cardinality(F) = Cardinality(F)
    BY SameCount
  <2>2. told = [k \in 1..Alerts!Cardinality(F) |->
                  [first |-> rows[PairAt(F, k)[1]], second |-> rows[PairAt(F, k)[2]]]]
    BY DEF Alerts!Reported, FoundPairs, PairAt, RankIn
  <2> HIDE DEF told, F
  <2>3. QED
    BY <2>1, <2>2
<1>4. ASSUME NEW i \in 1..(Len(rows) - 1), Alerts!Contradict(rows[i], rows[i + 1]),
             rows[i].id \in dirty \/ rows[i + 1].id \in dirty
      PROVE  <<i, i + 1>> \in F
  <2>1. {i, i + 1} \cap places # {}
    BY <1>1, <1>4
  <2> HIDE DEF places
  <2>2. /\ <<i, i + 1>> \in Alerts!AdjacentPairs(Len(rows), places)
        /\ <<i, i + 1>> \in Alerts!GroupedPairs(Len(rows), places)
    BY <1>1, <2>1, NeighboursAreAudited
  <2>3. QED
    BY <1>4, <2>2 DEF FoundPairs, places
<1> HIDE DEF F, told
<1>5. /\ Cardinality(F) \in Nat
      /\ \A p \in F : RankIn(F, p) \in Nat /\ RankIn(F, p) + 1 \in 1..Cardinality(F)
      /\ \A p, q \in F : RankIn(F, p) = RankIn(F, q) => p = q
      /\ \A k \in 1..Cardinality(F) : \E p \in F : RankIn(F, p) = k - 1
  BY <1>1, <1>2, RanksAreFilled
<1>6. ASSUME NEW k \in 1..Cardinality(F)
      PROVE  PairAt(F, k) \in F /\ RankIn(F, PairAt(F, k)) = k - 1
  BY <1>5 DEF PairAt
<1>7. IsText(told) /\ DOMAIN told = 1..Cardinality(F) /\ Len(told) = Cardinality(F)
  BY <1>3, <1>5, TextIs
<1>8. ASSUME NEW k \in 1..Len(told)
      PROVE  \E i, j \in 1..Len(rows) : told[k].first = rows[i] /\ told[k].second = rows[j]
  <2>1. PairAt(F, k) \in (1..Len(rows)) \X (1..Len(rows))
    BY <1>2, <1>6, <1>7
  <2>2. told[k] = [first |-> rows[PairAt(F, k)[1]], second |-> rows[PairAt(F, k)[2]]]
    BY <1>3, <1>7
  <2>3. QED
    BY <2>1, <2>2
<1>9. ASSUME NEW i \in 1..(Len(rows) - 1), Alerts!Contradict(rows[i], rows[i + 1]),
             rows[i].id \in dirty \/ rows[i + 1].id \in dirty
      PROVE  \E k \in 1..Len(told) : told[k].first = rows[i] /\ told[k].second = rows[i + 1]
  <2> DEFINE p == <<i, i + 1>>
             k == RankIn(F, p) + 1
  <2>1. p \in F
    BY <1>4, <1>9
  <2> HIDE DEF p
  <2>2. k \in 1..Cardinality(F) /\ k - 1 = RankIn(F, p)
    BY <1>5, <2>1
  <2>3. PairAt(F, k) = p
    BY <1>5, <1>6, <2>1, <2>2
  <2> HIDE DEF k
  <2>4. told[k] = [first |-> rows[p[1]], second |-> rows[p[2]]]
    BY <1>3, <2>2, <2>3
  <2>5. QED
    BY <1>7, <2>2, <2>4 DEF p
<1>10. QED
  BY <1>7, <1>8, <1>9 DEF told, IsReport

\* The fingerprint and the sources of a pair of chunks.
PrintOf(pair) == Alerts!Fingerprint(pair.first, pair.second)
PlaceOf(pair) == Alerts!Evidence(pair.first, pair.second)
Neighbours(rows, i) == [first |-> rows[i], second |-> rows[i + 1]]

\* The author has decided about the pattern.
DecidedOn(decided, print) == \E d \in decided : d.pattern = Alerts!Pattern(print)

\* Two clean neighbours that contradict each other, in a way nobody decided about.
MustTell(rows, decided, i) ==
  /\ i \in 1..(Len(rows) - 1)
  /\ ~rows[i].dirty /\ ~rows[i + 1].dirty
  /\ Alerts!Contradict(rows[i], rows[i + 1])
  /\ ~DecidedOn(decided, PrintOf(Neighbours(rows, i)))

\* An alert of these texts that is active for this place, or was merged from two.
Tells(row, pair) ==
  /\ row.fingerprint = PrintOf(pair)
  /\ Alerts!Scattered(row) \/ (row.status = "ACTIVE" /\ row.sources = PlaceOf(pair))

\* The analysis has read the chunks; the pair is among what it still has to write.
Auditing(held) == held.step \in {"auditing", "finding", "writing"}

StillFound(held, pair) ==
  Auditing(held) /\ \E k \in 1..Len(held.found) :
    PrintOf(held.found[k]) = PrintOf(pair) /\ PlaceOf(held.found[k]) = PlaceOf(pair)

\* They have an alert, or the analysis that runs is about to see to one.
AllTold(failed, rows, decided, held, alerts) ==
  ~failed => \A i : MustTell(rows, decided, i) =>
    \/ StillFound(held, Neighbours(rows, i))
    \/ \E row \in alerts : Tells(row, Neighbours(rows, i))

\* The event that waits last has the content of the scene, and an analysis has an event.
EventsAre(events, rows, held) ==
  /\ IsText(events)
  /\ events # <<>> => events[Len(events)] = [i \in DOMAIN rows |-> rows[i].text]
  /\ held.step # "idle" => events # <<>>

\* What the analysis has found, at each step.
IsAudit(held) ==
  held.step # "idle" => /\ IsText(held.found)
                        /\ held.step \in {"finding", "writing"} => held.found # <<>>

\* A source quotes the text its alert is about.
IsSource(s, print) ==
  /\ s = [chunk |-> s.chunk, text |-> s.text, side |-> s.side]
  /\ \/ s.side = "first" /\ s.text = print[1]
     \/ s.side = "second" /\ s.text = print[2]

\* An alert the author has not decided about is active or obsolete.
IsSound(row, decided) ==
  /\ IsFiniteSet(row.sources) /\ \A s \in row.sources : IsSource(s, row.fingerprint)
  /\ row.status \in {"ACTIVE", "OBSOLETE"} \/ DecidedOn(decided, row.fingerprint)

\* There is one alert of a fingerprint, and only decisions suppress a pattern.
AlertsAre(alerts, suppressed, decided) ==
  /\ \A p \in suppressed : \E d \in decided : d.pattern = p
  /\ \A row \in alerts : IsAlert(row) /\ IsSound(row, decided)
  /\ \A row \in alerts, other \in alerts : row.fingerprint = other.fingerprint => row = other

\* What an analysis has read of the alert it is about to write.
KnownIs(held, alerts, decided) ==
  held.step = "writing" =>
    LET print == PrintOf(Head(held.found)) IN
    \/ held.known = {} /\ \A row \in alerts : row.fingerprint # print
    \/ \E old : /\ held.known = {old}
                /\ \E row \in alerts : row.fingerprint = old.fingerprint /\ row.sources = old.sources
                /\ \/ /\ old.fingerprint = print
                      /\ old.status \in {"ACTIVE", "OBSOLETE"} \/ DecidedOn(decided, print)
                   \/ /\ Alerts!Pattern(old.fingerprint) = Alerts!Pattern(print)
                      /\ DecidedOn(decided, print)
                      /\ \A row \in alerts : row.fingerprint # print

\* When the alert was made obsolete since, a chunk it quotes is dirty.
Overtaken(held, alerts, decided, rows) ==
  held.step = "writing" /\ ~DecidedOn(decided, PrintOf(Head(held.found))) =>
    \A old \in held.known, row \in alerts :
      /\ row.fingerprint = old.fingerprint
      /\ old.status = "ACTIVE" /\ row.status = "OBSOLETE"
      => \E s \in old.sources : \A i \in 1..Len(rows) : rows[i].id = s.chunk => rows[i].dirty

\* A source is current; a decision made the alert active again.
IsQuoted(s, rows) == \E i \in 1..Len(rows) : rows[i].id = s.chunk /\ rows[i].text = s.text

Restored(decided, print) == \E d \in decided : d.status = "ACTIVE" /\ d.pattern = Alerts!Pattern(print)

\* What is active quotes current text, and so does what is still to be written.
AllCurrent(alerts, decided, held, rows) ==
  /\ \A row \in alerts :
       row.status = "ACTIVE" /\ ~Restored(decided, row.fingerprint) /\ ~Alerts!Scattered(row) =>
         \A s \in row.sources : IsQuoted(s, rows)
  /\ Auditing(held) =>
       \A k \in 1..Len(held.found) : \A s \in PlaceOf(held.found[k]) : IsQuoted(s, rows)

\* From the moment the last event runs, or none waits.
LastCurrent(failed, events, alerts, decided, held, rows) ==
  ~failed /\ Len(events) <= 1 /\ (held.step # "idle" \/ events = <<>>) =>
    AllCurrent(alerts, decided, held, rows)

\* The invariant.
ReportInv ==
  /\ AreChunks(v2) /\ EventsAre(v3, v2, v6) /\ IsAlertJob(v6) /\ IsAudit(v6)
  /\ AlertsAre(v4, v5, v7) /\ KnownIs(v6, v4, v7) /\ Overtaken(v6, v4, v7, v2)
  /\ AllTold(v8, v2, v7, v6, v4)
  /\ LastCurrent(v8, v3, v4, v7, v6, v2)

\* A scene that was saved once is dirty, and its event waits.
LEMMA ReportInit ==
  ASSUME Alerts!Init
  PROVE  ReportInv
<1>1. PICK content \in SceneTexts :
        v2 = [i \in DOMAIN content |-> Alerts!Row(i, content[i])] /\ v3 = <<content>>
  BY DEF Alerts!Init
<1>2. v4 = {} /\ v5 = {} /\ v6 = [step |-> "idle"] /\ v7 = {} /\ v8 = FALSE
  BY DEF Alerts!Init, Alerts!Idle
<1>3. IsText(content)
  BY AuditsAssumption DEF Alerts!SceneAssumption, IsText
<1>4. /\ Len(content) \in Nat /\ DOMAIN content = 1..Len(content)
      /\ content = [i \in 1..Len(content) |-> content[i]]
  BY <1>3, IsTextOf
<1>5. v2 = [i \in 1..Len(content) |-> v2[i]]
  BY <1>1, <1>4
<1>6. IsText(v2) /\ Len(v2) = Len(content) /\ DOMAIN v2 = 1..Len(content)
  BY <1>4, <1>5, TextIs
<1>7. ASSUME NEW i \in 1..Len(content)
      PROVE  IsChunk(v2[i], i) /\ v2[i].dirty /\ v2[i].text = content[i]
  <2>1. v2[i] = [id |-> <<0, i>>, text |-> content[i], dirty |-> TRUE]
    BY <1>1, <1>4 DEF Alerts!Row
  <2>2. QED
    BY <2>1 DEF IsChunk
<1>8. AreChunks(v2)
  BY <1>6, <1>7 DEF AreChunks
<1>9. [i \in DOMAIN v2 |-> v2[i].text] = content
  BY <1>4, <1>6, <1>7
<1>10. v3 = <<content>> /\ IsText(v3) /\ Len(v3) = 1 /\ v3[1] = content /\ v3 # <<>>
  <2>1. v3 \in Seq({content}) /\ Len(v3) = 1 /\ v3[1] = content
    BY <1>1
  <2>2. QED
    BY <1>1, <2>1 DEF IsText
<1>11. EventsAre(v3, v2, v6)
  BY <1>2, <1>9, <1>10 DEF EventsAre
<1>12. IsAlertJob(v6) /\ IsAudit(v6) /\ v6.step = "idle"
  BY <1>2 DEF IsAlertJob, IsAudit, Alerts!Idle
<1>13. AlertsAre(v4, v5, v7) /\ KnownIs(v6, v4, v7) /\ Overtaken(v6, v4, v7, v2)
  BY <1>2, <1>12 DEF AlertsAre, KnownIs, Overtaken
<1>14. AllTold(v8, v2, v7, v6, v4)
  <2> SUFFICES ASSUME NEW i, MustTell(v2, v7, i) PROVE FALSE
    BY DEF AllTold
  <2>1. QED
    BY <1>4, <1>6, <1>7 DEF MustTell
<1>15. LastCurrent(v8, v3, v4, v7, v6, v2)
  BY <1>10, <1>12 DEF LastCurrent
<1>16. QED
  BY <1>8, <1>11, <1>12, <1>13, <1>14, <1>15 DEF ReportInv

\* IsQuoted is what the module says of a source.
LEMMA CurrentIs ==
  ASSUME AreChunks(v2)
  PROVE  \A s : Alerts!IsCurrent(s) <=> IsQuoted(s, v2)
<1>1. DOMAIN v2 = 1..Len(v2)
  BY IsTextOf DEF AreChunks
<1>2. QED
  BY <1>1 DEF Alerts!IsCurrent, Alerts!Range, IsQuoted

\* A pair gives two sources, of its texts and its chunks.
LEMMA PlaceIs ==
  ASSUME NEW pair
  PROVE  /\ IsFiniteSet(PlaceOf(pair)) /\ Cardinality(PlaceOf(pair)) = 2
         /\ ~Alerts!Scattered([fingerprint |-> PrintOf(pair), status |-> "ACTIVE", sources |-> PlaceOf(pair)])
         /\ \A s \in PlaceOf(pair) : /\ IsSource(s, PrintOf(pair))
                                     /\ s.chunk \in {pair.first.id, pair.second.id}
<1> DEFINE s1 == [chunk |-> pair.first.id, text |-> pair.first.text, side |-> "first"]
           s2 == [chunk |-> pair.second.id, text |-> pair.second.text, side |-> "second"]
<1>1. PlaceOf(pair) = {s1, s2} /\ s1.side # s2.side
  BY DEF PlaceOf, Alerts!Evidence
<1>2. \A s \in PlaceOf(pair) : /\ IsSource(s, PrintOf(pair))
                               /\ s.chunk \in {pair.first.id, pair.second.id}
  BY <1>1 DEF IsSource, PrintOf, Alerts!Fingerprint
<1> HIDE DEF s1, s2
<1>3. s1 # s2
  BY <1>1
<1>4. IsFiniteSet({s1}) /\ Cardinality({s1}) = 1
  BY FS_Singleton
<1>5. IsFiniteSet({s1} \cup {s2}) /\ Cardinality({s1} \cup {s2}) = 2
  BY <1>3, <1>4, FS_AddElement
<1>6. {s1} \cup {s2} = PlaceOf(pair)
  BY <1>1
<1>7. IsFiniteSet(PlaceOf(pair)) /\ Cardinality(PlaceOf(pair)) = 2
  BY <1>5, <1>6
<1>8. QED
  BY <1>2, <1>7, SameCount DEF Alerts!Scattered

\* Of one fingerprint, what is merged is all there was and all that comes.
LEMMA MergedIs ==
  ASSUME NEW pair, NEW old, IsFiniteSet(old), \A s \in old : IsSource(s, PrintOf(pair))
  PROVE  LET merged == Alerts!MergeSources(old, PlaceOf(pair)) IN
         /\ merged = old \cup PlaceOf(pair) /\ IsFiniteSet(merged)
         /\ \A s \in merged : IsSource(s, PrintOf(pair))
         /\ \/ merged = PlaceOf(pair) /\ old \subseteq PlaceOf(pair)
            \/ Cardinality(merged) > 2
         /\ Cardinality(old) > 2 => Cardinality(merged) > 2
<1> DEFINE merged == Alerts!MergeSources(old, PlaceOf(pair))
<1>1. \A s \in PlaceOf(pair) : IsSource(s, PrintOf(pair))
  BY PlaceIs
<1>2. ASSUME NEW s \in old, NEW n \in PlaceOf(pair), n.chunk = s.chunk, n.side = s.side
      PROVE  s = n
  BY <1>1, <1>2 DEF IsSource
<1>3. merged = old \cup PlaceOf(pair)
  BY <1>2 DEF Alerts!MergeSources
<1> HIDE DEF merged
<1>4. IsFiniteSet(PlaceOf(pair)) /\ Cardinality(PlaceOf(pair)) = 2
  BY PlaceIs
<1>5. IsFiniteSet(merged)
  BY <1>3, <1>4, FS_Union
<1>6. /\ PlaceOf(pair) \in SUBSET merged /\ old \in SUBSET merged
      /\ Cardinality(merged) \in Nat /\ Cardinality(old) \in Nat
      /\ Cardinality(PlaceOf(pair)) <= Cardinality(merged)
      /\ Cardinality(merged) = Cardinality(PlaceOf(pair)) => merged = PlaceOf(pair)
      /\ Cardinality(old) <= Cardinality(merged)
  BY <1>3, <1>5, FS_Subset, FS_CardinalityType
<1>7. \/ merged = PlaceOf(pair) /\ old \subseteq PlaceOf(pair)
      \/ Cardinality(merged) > 2
  BY <1>3, <1>4, <1>6
<1>8. Cardinality(old) > 2 => Cardinality(merged) > 2
  BY <1>6
<1>9. \A s \in merged : IsSource(s, PrintOf(pair))
  BY <1>1, <1>3
<1>10. QED
  BY <1>3, <1>5, <1>7, <1>8, <1>9 DEF merged

\* Rows are told apart by their places.
LEMMA RowsDiffer ==
  ASSUME NEW rows, AreChunks(rows), NEW i \in 1..Len(rows), NEW j \in 1..Len(rows), rows[i].id = rows[j].id
  PROVE  i = j
BY DEF AreChunks, IsChunk

\* What two neighbours say is current.
LEMMA NeighboursAreQuoted ==
  ASSUME NEW rows, NEW i \in 1..(Len(rows) - 1), Len(rows) \in Nat
  PROVE  \A s \in PlaceOf(Neighbours(rows, i)) : IsQuoted(s, rows)
BY DEF PlaceOf, Neighbours, Alerts!Evidence, IsQuoted
\* After it each alert has the fingerprint and the sources of one before, and the other
\* way round.
SameAlerts(before, after) ==
  /\ \A row \in after : IsAlert(row) /\ \E old \in before : row.fingerprint = old.fingerprint /\ row.sources = old.sources
  /\ \A old \in before : \E row \in after : row.fingerprint = old.fingerprint /\ row.sources = old.sources

\* Making alerts obsolete changes the status of those that are active, and of no other.
LEMMA ObsoleteIs ==
  ASSUME \A row \in v4 : IsAlert(row), NEW stale
  PROVE  LET after == Alerts!Obsolete(stale)
             Hit(row) == row.status = "ACTIVE" /\ row \in stale
         IN  /\ SameAlerts(v4, after)
             /\ \A row \in after : \E old \in v4 :
                  /\ row.fingerprint = old.fingerprint /\ row.sources = old.sources
                  /\ \/ row = old /\ ~Hit(old)
                     \/ Hit(old) /\ row.status = "OBSOLETE"
             /\ \A old \in v4 : Hit(old) \/ old \in after
<1> DEFINE after == Alerts!Obsolete(stale)
           Hit(row) == row.status = "ACTIVE" /\ row \in stale
<1>1. ASSUME NEW old \in v4
      PROVE  LET row == [old EXCEPT !.status = "OBSOLETE"] IN
             /\ row.fingerprint = old.fingerprint /\ row.sources = old.sources
             /\ row.status = "OBSOLETE" /\ IsAlert(row)
  <2>1. [old EXCEPT !.status = "OBSOLETE"]
          = [fingerprint |-> old.fingerprint, status |-> "OBSOLETE", sources |-> old.sources]
    BY DEF IsAlert
  <2>2. QED
    BY <2>1 DEF IsAlert
<1>2. after = {IF Hit(old) THEN [old EXCEPT !.status = "OBSOLETE"] ELSE old : old \in v4}
  BY DEF Alerts!Obsolete
<1> HIDE DEF after
<1>3. ASSUME NEW row \in after
      PROVE  /\ IsAlert(row)
             /\ \E old \in v4 : /\ row.fingerprint = old.fingerprint /\ row.sources = old.sources
                                /\ \/ row = old /\ ~Hit(old)
                                   \/ Hit(old) /\ row.status = "OBSOLETE"
  <2>1. PICK old \in v4 : row = IF Hit(old) THEN [old EXCEPT !.status = "OBSOLETE"] ELSE old
    BY <1>2
  <2>2. QED
    BY <1>1, <2>1
<1>4. ASSUME NEW old \in v4
      PROVE  /\ Hit(old) \/ old \in after
             /\ \E row \in after : row.fingerprint = old.fingerprint /\ row.sources = old.sources
  <2>1. (IF Hit(old) THEN [old EXCEPT !.status = "OBSOLETE"] ELSE old) \in after
    BY <1>2
  <2>2. QED
    BY <1>1, <2>1
<1>5. QED
  BY <1>3, <1>4 DEF after, SameAlerts

\* What is known of an alert stays true.
LEMMA KnownKept ==
  ASSUME NEW held, NEW before, NEW after, SameAlerts(before, after), NEW decided, NEW decided2,
         decided \subseteq decided2, KnownIs(held, before, decided)
  PROVE  KnownIs(held, after, decided2)
<1> SUFFICES ASSUME held.step = "writing" PROVE KnownIs(held, after, decided2)
  BY DEF KnownIs
<1> DEFINE print == PrintOf(Head(held.found))
<1>1. \A p : DecidedOn(decided, p) => DecidedOn(decided2, p)
  BY DEF DecidedOn
<1>2. (\A row \in before : row.fingerprint # print) => (\A row \in after : row.fingerprint # print)
  BY DEF SameAlerts
<1>3. \A old : (\E row \in before : row.fingerprint = old.fingerprint /\ row.sources = old.sources)
               => (\E row \in after : row.fingerprint = old.fingerprint /\ row.sources = old.sources)
  BY DEF SameAlerts
<1> HIDE DEF print
<1>4. CASE held.known = {} /\ \A row \in before : row.fingerprint # print
  BY <1>2, <1>4 DEF KnownIs, print
<1>5. ASSUME NEW old, held.known = {old},
             \E row \in before : row.fingerprint = old.fingerprint /\ row.sources = old.sources,
             \/ /\ old.fingerprint = print
                /\ old.status \in {"ACTIVE", "OBSOLETE"} \/ DecidedOn(decided, print)
             \/ /\ Alerts!Pattern(old.fingerprint) = Alerts!Pattern(print)
                /\ DecidedOn(decided, print)
                /\ \A row \in before : row.fingerprint # print
      PROVE  KnownIs(held, after, decided2)
  <2>1. \E row \in after : row.fingerprint = old.fingerprint /\ row.sources = old.sources
    BY <1>3, <1>5
  <2>2. \/ /\ old.fingerprint = print
           /\ old.status \in {"ACTIVE", "OBSOLETE"} \/ DecidedOn(decided2, print)
        \/ /\ Alerts!Pattern(old.fingerprint) = Alerts!Pattern(print)
           /\ DecidedOn(decided2, print)
           /\ \A row \in after : row.fingerprint # print
    BY <1>1, <1>2, <1>5
  <2>3. QED
    BY <1>5, <2>1, <2>2 DEF KnownIs, print
<1>6. QED
  BY <1>4, <1>5 DEF KnownIs, print

\* Alerts that are made obsolete stay what alerts are.
LEMMA ObsoleteSound ==
  ASSUME NEW suppressed, NEW decided, AlertsAre(v4, suppressed, decided), NEW stale
  PROVE  AlertsAre(Alerts!Obsolete(stale), suppressed, decided)
<1> DEFINE after == Alerts!Obsolete(stale)
<1>1. \A row \in v4 : IsAlert(row)
  BY DEF AlertsAre
<1>2. /\ \A row \in after : IsAlert(row)
      /\ \A row \in after : \E old \in v4 :
           /\ row.fingerprint = old.fingerprint /\ row.sources = old.sources
           /\ row = old \/ row.status = "OBSOLETE"
           /\ row = old <=> ~(old.status = "ACTIVE" /\ old \in stale)
  BY <1>1, ObsoleteIs DEF SameAlerts
<1> HIDE DEF after
<1>3. ASSUME NEW row \in after PROVE IsSound(row, decided)
  BY <1>2 DEF AlertsAre, IsSound
<1>4. ASSUME NEW row \in after, NEW other \in after, row.fingerprint = other.fingerprint
      PROVE  row = other
  <2>1. PICK old \in v4 : /\ row.fingerprint = old.fingerprint /\ row.sources = old.sources
                          /\ row = old \/ row.status = "OBSOLETE"
                          /\ row = old <=> ~(old.status = "ACTIVE" /\ old \in stale)
    BY <1>2
  <2>2. PICK old2 \in v4 : /\ other.fingerprint = old2.fingerprint /\ other.sources = old2.sources
                           /\ other = old2 \/ other.status = "OBSOLETE"
                           /\ other = old2 <=> ~(old2.status = "ACTIVE" /\ old2 \in stale)
    BY <1>2
  <2>3. old = old2
    BY <1>4, <2>1, <2>2 DEF AlertsAre
  <2>4. IsAlert(row) /\ IsAlert(other)
    BY <1>2
  <2>5. row.status = other.status
    BY <2>1, <2>2, <2>3
  <2>6. QED
    BY <1>4, <2>1, <2>2, <2>3, <2>4, <2>5 DEF IsAlert
<1>5. QED
  BY <1>2, <1>3, <1>4 DEF AlertsAre, after

\* An alert that is not among the stale ones goes on telling.
LEMMA ObsoleteTells ==
  ASSUME \A row \in v4 : IsAlert(row), NEW stale, NEW pair, NEW row \in v4, Tells(row, pair),
         row.sources = PlaceOf(pair) => row \notin stale
  PROVE  \E after \in Alerts!Obsolete(stale) : Tells(after, pair)
<1>1. CASE Alerts!Scattered(row)
  <2>1. PICK after \in Alerts!Obsolete(stale) :
          after.fingerprint = row.fingerprint /\ after.sources = row.sources
    BY ObsoleteIs DEF SameAlerts
  <2>2. Alerts!Scattered(after)
    BY <1>1, <2>1 DEF Alerts!Scattered
  <2>3. QED
    BY <2>1, <2>2 DEF Tells
<1>2. CASE row.status = "ACTIVE" /\ row.sources = PlaceOf(pair)
  <2>1. row \in Alerts!Obsolete(stale)
    BY <1>2, ObsoleteIs
  <2>2. QED
    BY <2>1
<1>3. QED
  BY <1>1, <1>2 DEF Tells

\* Of a worker without a job there is nothing to say.
LEMMA IdleIs ==
  /\ Alerts!Idle.step = "idle" /\ IsAlertJob(Alerts!Idle) /\ IsAudit(Alerts!Idle)
  /\ \A alerts, decided, rows : KnownIs(Alerts!Idle, alerts, decided) /\ Overtaken(Alerts!Idle, alerts, decided, rows)
  /\ ~Auditing(Alerts!Idle)
BY DEF Alerts!Idle, IsAlertJob, IsAudit, KnownIs, Overtaken, Auditing

\* The newest event is the last to be taken.
LEMMA EventTaken ==
  ASSUME NEW events, NEW rows, NEW held, EventsAre(events, rows, held), events # <<>>
  PROVE  /\ EventsAre(Tail(events), rows, Alerts!Idle)
         /\ Tail(events) = <<>> => Len(events) = 1
<1>1. /\ Len(events) \in Nat /\ Len(events) > 0 /\ IsText(Tail(events)) /\ Len(Tail(events)) = Len(events) - 1
      /\ \A i \in 1..(Len(events) - 1) : Tail(events)[i] = events[i + 1]
      /\ Tail(events) = <<>> => Len(Tail(events)) = 0
      /\ Tail(events) # <<>> => Len(Tail(events)) > 0
  BY IsTextOf DEF EventsAre
<1>2. ASSUME Tail(events) # <<>>
      PROVE  Tail(events)[Len(Tail(events))] = events[Len(events)]
  <2> DEFINE n == Len(events) - 1
  <2>1. n \in Nat /\ n > 0 /\ Len(events) = n + 1 /\ Len(Tail(events)) = n
    BY <1>1, <1>2
  <2> HIDE DEF n
  <2>2. Tail(events)[n] = events[n + 1]
    BY <1>1, <2>1
  <2>3. QED
    BY <2>1, <2>2
<1>3. QED
  BY <1>1, <1>2, IdleIs DEF EventsAre

\* Making obsolete what does not quote current text leaves what tells of the scene, and
\* only current text quoted.
LEMMA ObsoleteStale ==
  ASSUME ReportInv, NEW stale, \A row \in stale : \E s \in row.sources : ~IsQuoted(s, v2)
  PROVE  LET after == Alerts!Obsolete(stale) IN
         /\ AlertsAre(after, v5, v7)
         /\ \A i : MustTell(v2, v7, i) /\ (\E row \in v4 : Tells(row, Neighbours(v2, i))) =>
              \E row \in after : Tells(row, Neighbours(v2, i))
         /\ \A row \in after : row.status = "ACTIVE" => row \in v4 /\ row \notin stale
<1> DEFINE after == Alerts!Obsolete(stale)
<1>1. (\A row \in v4 : IsAlert(row)) /\ AlertsAre(v4, v5, v7)
  BY DEF ReportInv, AlertsAre
<1>2. AlertsAre(after, v5, v7)
  BY <1>1, ObsoleteSound
<1>3. \A row \in after : row.status = "ACTIVE" => row \in v4 /\ row \notin stale
  BY <1>1, ObsoleteIs
<1>4. ASSUME NEW i, MustTell(v2, v7, i), NEW row \in v4, Tells(row, Neighbours(v2, i))
      PROVE  \E other \in after : Tells(other, Neighbours(v2, i))
  <2>1. \A s \in PlaceOf(Neighbours(v2, i)) : IsQuoted(s, v2)
    BY <1>4, NeighboursAreQuoted, IsTextOf DEF MustTell, ReportInv, AreChunks
  <2>2. row.sources = PlaceOf(Neighbours(v2, i)) => row \notin stale
    BY <2>1
  <2>3. QED
    BY <1>1, <1>4, <2>2, ObsoleteTells
<1>5. QED
  BY <1>2, <1>3, <1>4 DEF after

\* An analysis begins, or finds nothing to do: what is active quotes current text.
LEMMA BeginReports ==
  ASSUME ReportInv, Alerts!Begin
  PROVE  ReportInv'
<1> DEFINE stale == {row \in v4 : \E s \in row.sources : ~Alerts!IsCurrent(s)}
<1>1. /\ v2' = v2 /\ v5' = v5 /\ v7' = v7 /\ v8' = v8
      /\ v6 = Alerts!Idle /\ v3 # <<>> /\ v4' = Alerts!Obsolete(stale)
  BY DEF Alerts!Begin
<1>2. PICK dirty : \/ v6' = Alerts!Idle /\ v3' = Tail(v3)
                   \/ /\ v6' = [step |-> "extracting", dirty |-> dirty, found |-> <<>>, overtaken |-> FALSE]
                      /\ v3' = v3
  BY DEF Alerts!Begin, Alerts!EndJob
<1>3. \A row \in stale : \E s \in row.sources : ~IsQuoted(s, v2)
  BY CurrentIs DEF ReportInv
<1>4. \A row \in v4 : row \notin stale => \A s \in row.sources : IsQuoted(s, v2)
  BY CurrentIs DEF ReportInv
<1> HIDE DEF stale
<1>5. /\ AlertsAre(v4', v5, v7)
      /\ \A i : MustTell(v2, v7, i) /\ (\E row \in v4 : Tells(row, Neighbours(v2, i))) =>
           \E row \in v4' : Tells(row, Neighbours(v2, i))
      /\ \A row \in v4' : row.status = "ACTIVE" => row \in v4 /\ row \notin stale
  BY <1>1, <1>3, ObsoleteStale
<1>6. /\ IsAlertJob(v6') /\ IsAudit(v6') /\ ~Auditing(v6') /\ v6'.step # "writing"
      /\ KnownIs(v6', v4', v7) /\ Overtaken(v6', v4', v7, v2) /\ EventsAre(v3', v2, v6')
  <2>1. CASE v6' = Alerts!Idle /\ v3' = Tail(v3)
    BY <1>1, <2>1, IdleIs, EventTaken DEF ReportInv
  <2>2. CASE v6' = [step |-> "extracting", dirty |-> dirty, found |-> <<>>, overtaken |-> FALSE] /\ v3' = v3
    BY <1>1, <2>2, EmptyText DEF ReportInv, IsAlertJob, IsAudit, Auditing, KnownIs, Overtaken, EventsAre
  <2>3. QED
    BY <1>2, <2>1, <2>2
<1>7. AllTold(v8, v2, v7, v6', v4')
  BY <1>1, <1>5, IdleIs DEF ReportInv, AllTold, StillFound
<1>8. LastCurrent(v8, v3', v4', v7, v6', v2)
  BY <1>4, <1>5, <1>6 DEF LastCurrent, AllCurrent
<1>9. QED
  BY <1>1, <1>5, <1>6, <1>7, <1>8 DEF ReportInv

\* An analysis ends, with nothing left to write.
LEMMA ReconcileReports ==
  ASSUME ReportInv, Alerts!Reconcile
  PROVE  ReportInv'
<1> DEFINE stale == {row \in v4 : \E s \in row.sources : s.chunk \in v6.dirty /\ ~Alerts!IsCurrent(s)}
<1>1. /\ v2' = v2 /\ v5' = v5 /\ v7' = v7 /\ v8' = v8
      /\ v6.step = "auditing" /\ v6.found = <<>> /\ v6' = Alerts!Idle /\ v3' = Tail(v3)
      /\ v4' = Alerts!Obsolete(stale)
  BY DEF Alerts!Reconcile, Alerts!EndJob
<1>2. \A row \in stale : \E s \in row.sources : ~IsQuoted(s, v2)
  BY CurrentIs DEF ReportInv
<1> HIDE DEF stale
<1>3. /\ AlertsAre(v4', v5, v7)
      /\ \A i : MustTell(v2, v7, i) /\ (\E row \in v4 : Tells(row, Neighbours(v2, i))) =>
           \E row \in v4' : Tells(row, Neighbours(v2, i))
      /\ \A row \in v4' : row.status = "ACTIVE" => row \in v4
  BY <1>1, <1>2, ObsoleteStale
<1>4. v3 # <<>> /\ EventsAre(v3, v2, v6)
  BY <1>1 DEF ReportInv, EventsAre
<1>5. /\ IsAlertJob(v6') /\ IsAudit(v6') /\ KnownIs(v6', v4', v7) /\ Overtaken(v6', v4', v7, v2)
      /\ EventsAre(v3', v2, v6') /\ ~Auditing(v6') /\ v6'.step = "idle"
  BY <1>1, <1>4, IdleIs, EventTaken
<1>6. AllTold(v8, v2, v7, v6', v4')
  <2>1. \A pair : ~StillFound(v6, pair)
    BY <1>1 DEF StillFound
  <2>2. QED
    BY <1>3, <2>1 DEF ReportInv, AllTold
<1>7. LastCurrent(v8, v3', v4', v7, v6', v2)
  <2> SUFFICES ASSUME ~v8, v3' = <<>> PROVE AllCurrent(v4', v7, v6', v2)
    BY <1>5 DEF LastCurrent
  <2>1. Len(v3) = 1
    BY <1>1, <1>4, EventTaken
  <2>2. AllCurrent(v4, v7, v6, v2)
    BY <1>1, <2>1 DEF ReportInv, LastCurrent
  <2>3. QED
    BY <1>3, <1>5, <2>2 DEF AllCurrent
<1>8. QED
  BY <1>1, <1>3, <1>5, <1>6, <1>7 DEF ReportInv

\* A row whose flag is cleared, and one that is written.
LEMMA FlagSet ==
  ASSUME NEW row, row = [id |-> row.id, text |-> row.text, dirty |-> row.dirty], NEW flag
  PROVE  [row EXCEPT !.dirty = flag] = [id |-> row.id, text |-> row.text, dirty |-> flag]
OBVIOUS

LEMMA ChunkChanged ==
  ASSUME NEW row, NEW i, IsChunk(row, i), NEW text, NEW flag
  PROVE  /\ [row EXCEPT !.dirty = flag] = [id |-> row.id, text |-> row.text, dirty |-> flag]
         /\ [row EXCEPT !.text = text, !.dirty = flag] = [id |-> row.id, text |-> text, dirty |-> flag]
<1>1. row = [id |-> row.id, text |-> row.text, dirty |-> row.dirty]
  BY DEF IsChunk
<1>2. [row EXCEPT !.text = text] = [id |-> row.id, text |-> text, dirty |-> row.dirty]
  BY <1>1
<1> DEFINE written == [row EXCEPT !.text = text]
<1>3. written.id = row.id /\ written.text = text /\ written.dirty = row.dirty
  BY <1>2
<1>4. written = [id |-> written.id, text |-> written.text, dirty |-> written.dirty]
  BY <1>2, <1>3
<1> HIDE DEF written
<1>5. [written EXCEPT !.dirty = flag] = [id |-> row.id, text |-> text, dirty |-> flag]
  BY <1>3, <1>4
<1>6. [row EXCEPT !.text = text, !.dirty = flag] = [written EXCEPT !.dirty = flag]
  BY Zenon DEF written
<1>7. QED
  BY <1>1, <1>5, <1>6, FlagSet

\* Flags are cleared, and nothing else changes.
LEMMA ClearedIs ==
  ASSUME AreChunks(v2)
  PROVE  LET cleared == Alerts!Cleared IN
         /\ AreChunks(cleared) /\ Len(cleared) = Len(v2) /\ DOMAIN cleared = DOMAIN v2
         /\ \A i \in 1..Len(v2) : /\ cleared[i].id = v2[i].id /\ cleared[i].text = v2[i].text
                                  /\ v2[i].id \notin v6.dirty => cleared[i] = v2[i]
         /\ [i \in DOMAIN cleared |-> cleared[i].text] = [i \in DOMAIN v2 |-> v2[i].text]
         /\ \A s : IsQuoted(s, v2) => IsQuoted(s, cleared)
<1> DEFINE cleared == Alerts!Cleared
<1>1. Len(v2) \in Nat /\ DOMAIN v2 = 1..Len(v2)
  BY IsTextOf DEF AreChunks
<1>2. cleared = [i \in 1..Len(v2) |-> IF v2[i].id \in v6.dirty THEN [v2[i] EXCEPT !.dirty = FALSE] ELSE v2[i]]
  BY <1>1 DEF Alerts!Cleared
<1> HIDE DEF cleared
<1>3. cleared = [i \in 1..Len(v2) |-> cleared[i]]
  BY <1>2
<1>4. IsText(cleared) /\ Len(cleared) = Len(v2) /\ DOMAIN cleared = 1..Len(v2)
  BY <1>1, <1>3, TextIs
<1>5. ASSUME NEW i \in 1..Len(v2)
      PROVE  /\ IsChunk(cleared[i], i) /\ cleared[i].id = v2[i].id /\ cleared[i].text = v2[i].text
             /\ v2[i].id \notin v6.dirty => cleared[i] = v2[i]
  <2>1. v2[i] = [id |-> v2[i].id, text |-> v2[i].text, dirty |-> v2[i].dirty] /\ v2[i].id[2] = i
    BY DEF AreChunks, IsChunk
  <2>2. [v2[i] EXCEPT !.dirty = FALSE] = [id |-> v2[i].id, text |-> v2[i].text, dirty |-> FALSE]
    <3>1. IsChunk(v2[i], i)
      BY DEF AreChunks
    <3>2. QED
      BY <3>1, ChunkChanged, Zenon
  <2>3. CASE v2[i].id \in v6.dirty
    <3>1. cleared[i] = [id |-> v2[i].id, text |-> v2[i].text, dirty |-> FALSE]
      BY <1>2, <2>2, <2>3
    <3>2. QED
      BY <2>1, <2>3, <3>1 DEF IsChunk
  <2>4. CASE v2[i].id \notin v6.dirty
    <3>1. cleared[i] = v2[i]
      BY <1>2, <2>4
    <3>2. QED
      BY <3>1 DEF AreChunks
  <2>5. QED
    BY <2>3, <2>4
<1>6. AreChunks(cleared)
  BY <1>4, <1>5 DEF AreChunks
<1>7. [i \in DOMAIN cleared |-> cleared[i].text] = [i \in DOMAIN v2 |-> v2[i].text]
  BY <1>1, <1>4, <1>5
<1>8. \A s : IsQuoted(s, v2) => IsQuoted(s, cleared)
  BY <1>4, <1>5 DEF IsQuoted
<1>9. QED
  BY <1>1, <1>4, <1>5, <1>6, <1>7, <1>8 DEF cleared

\* An analysis that fails is what the property leaves out.
LEMMA FailReports ==
  ASSUME ReportInv, Alerts!Fail
  PROVE  ReportInv'
<1>1. /\ v3' = v3 /\ v4' = v4 /\ v5' = v5 /\ v7' = v7 /\ v8' = TRUE /\ v6' = Alerts!Idle
      /\ v2' = v2 \/ v2' = Alerts!Cleared
  BY DEF Alerts!Fail
<1>2. AreChunks(v2') /\ [i \in DOMAIN v2' |-> v2'[i].text] = [i \in DOMAIN v2 |-> v2[i].text]
  BY <1>1, ClearedIs DEF ReportInv
<1>3. EventsAre(v3', v2', v6')
  BY <1>1, <1>2, IdleIs DEF ReportInv, EventsAre
<1>4. AllTold(v8', v2', v7', v6', v4') /\ LastCurrent(v8', v3', v4', v7', v6', v2')
  BY <1>1 DEF AllTold, LastCurrent
<1>5. QED
  BY <1>1, <1>2, <1>3, <1>4, IdleIs DEF ReportInv

\* The chunks are read; those that were dirty are found again if they contradict a neighbour.
LEMMA LoadReports ==
  ASSUME ReportInv, Alerts!LoadChunks
  PROVE  ReportInv'
<1> DEFINE found == Alerts!Reported(v2, v6.dirty)
<1>1. /\ v3' = v3 /\ v4' = v4 /\ v5' = v5 /\ v7' = v7 /\ v8' = v8 /\ v2' = Alerts!Cleared
      /\ v6.step = "extracting" /\ v6' = [v6 EXCEPT !.step = "auditing", !.found = found]
  BY DEF Alerts!LoadChunks
<1>2. v6 = [step |-> "extracting", dirty |-> v6.dirty, found |-> v6.found, overtaken |-> v6.overtaken]
  BY <1>1 DEF ReportInv, IsAlertJob, Alerts!Idle
<1>3. AreChunks(v2) /\ Len(v2) \in Nat /\ DOMAIN v2 = 1..Len(v2)
  BY IsTextOf DEF ReportInv, AreChunks
<1>4. IsReport(v2, v6.dirty, found)
  BY <1>3, ReportedIs
<1> HIDE DEF found
<1>5. v6' = [step |-> "auditing", dirty |-> v6.dirty, found |-> found, overtaken |-> v6.overtaken]
  BY <1>1, <1>2
<1>6. /\ AreChunks(v2') /\ Len(v2') = Len(v2) /\ DOMAIN v2' = DOMAIN v2
      /\ \A i \in 1..Len(v2) : /\ v2'[i].id = v2[i].id /\ v2'[i].text = v2[i].text
                               /\ v2[i].id \notin v6.dirty => v2'[i] = v2[i]
      /\ [i \in DOMAIN v2' |-> v2'[i].text] = [i \in DOMAIN v2 |-> v2[i].text]
      /\ \A s : IsQuoted(s, v2) => IsQuoted(s, v2')
  BY <1>1, <1>3, ClearedIs
<1>7. EventsAre(v3', v2', v6')
  BY <1>1, <1>6 DEF ReportInv, EventsAre
<1>8. /\ IsAlertJob(v6') /\ IsAudit(v6') /\ KnownIs(v6', v4', v7') /\ Overtaken(v6', v4', v7', v2')
  BY <1>4, <1>5 DEF IsReport, IsAlertJob, IsAudit, KnownIs, Overtaken
<1>9. AllTold(v8', v2', v7', v6', v4')
  <2> SUFFICES ASSUME ~v8, NEW i, MustTell(v2', v7, i)
               PROVE  \/ StillFound(v6', Neighbours(v2', i))
                      \/ \E row \in v4 : Tells(row, Neighbours(v2', i))
    BY <1>1 DEF AllTold
  <2>1. /\ i \in 1..(Len(v2) - 1) /\ i \in 1..Len(v2) /\ i + 1 \in 1..Len(v2)
        /\ ~v2'[i].dirty /\ ~v2'[i + 1].dirty
    BY <1>3, <1>6 DEF MustTell
  <2>2. /\ PrintOf(Neighbours(v2', i)) = PrintOf(Neighbours(v2, i))
        /\ PlaceOf(Neighbours(v2', i)) = PlaceOf(Neighbours(v2, i))
    BY <1>6, <2>1 DEF Neighbours, PrintOf, PlaceOf, Alerts!Fingerprint, Alerts!Evidence
  <2>3. Alerts!Contradict(v2[i], v2[i + 1]) /\ ~DecidedOn(v7, PrintOf(Neighbours(v2, i)))
    BY <1>6, <2>1, <2>2 DEF MustTell, Alerts!Contradict
  <2>4. CASE v2[i].id \in v6.dirty \/ v2[i + 1].id \in v6.dirty
    <3>1. PICK k \in 1..Len(found) : found[k].first = v2[i] /\ found[k].second = v2[i + 1]
      BY <1>4, <2>1, <2>3, <2>4 DEF IsReport
    <3>2. /\ PrintOf(found[k]) = PrintOf(Neighbours(v2, i))
          /\ PlaceOf(found[k]) = PlaceOf(Neighbours(v2, i))
      BY <3>1 DEF Neighbours, PrintOf, PlaceOf
    <3>3. StillFound(v6', Neighbours(v2', i))
      BY <1>5, <2>2, <3>2 DEF StillFound, Auditing
    <3>4. QED
      BY <3>3
  <2>5. CASE v2[i].id \notin v6.dirty /\ v2[i + 1].id \notin v6.dirty
    <3>1. v2'[i] = v2[i] /\ v2'[i + 1] = v2[i + 1]
      BY <1>6, <2>1, <2>5
    <3>2. MustTell(v2, v7, i)
      BY <2>1, <2>3, <3>1 DEF MustTell
    <3>3. \E row \in v4 : Tells(row, Neighbours(v2, i))
      BY <1>1, <3>2 DEF ReportInv, AllTold, StillFound, Auditing
    <3>4. QED
      BY <2>2, <3>3 DEF Tells
  <2>6. QED
    BY <2>4, <2>5
<1>10. LastCurrent(v8', v3', v4', v7', v6', v2')
  <2> SUFFICES ASSUME ~v8, Len(v3) <= 1 PROVE AllCurrent(v4, v7, v6', v2')
    BY <1>1 DEF LastCurrent
  <2>1. AllCurrent(v4, v7, v6, v2)
    BY <1>1 DEF ReportInv, LastCurrent
  <2>2. ASSUME NEW k \in 1..Len(found), NEW s \in PlaceOf(found[k])
        PROVE  IsQuoted(s, v2)
    <3>1. PICK i \in 1..Len(v2), j \in 1..Len(v2) : found[k].first = v2[i] /\ found[k].second = v2[j]
      BY <1>4 DEF IsReport
    <3>2. (s.chunk = v2[i].id /\ s.text = v2[i].text) \/ (s.chunk = v2[j].id /\ s.text = v2[j].text)
      BY <2>2, <3>1 DEF PlaceOf, Alerts!Evidence
    <3>3. QED
      BY <3>2 DEF IsQuoted
  <2>3. QED
    BY <1>5, <1>6, <2>1, <2>2 DEF AllCurrent
<1>11. QED
  BY <1>1, <1>6, <1>7, <1>8, <1>9, <1>10 DEF ReportInv

\* What is found is the one that is written next and the others.
LEMMA FoundTail ==
  ASSUME NEW found, IsText(found), found # <<>>
  PROVE  /\ IsText(Tail(found)) /\ Len(found) \in Nat /\ 1 \in 1..Len(found) /\ Head(found) = found[1]
         /\ \A k \in 1..Len(found) :
              found[k] = Head(found) \/ \E l \in 1..Len(Tail(found)) : Tail(found)[l] = found[k]
         /\ \A l \in 1..Len(Tail(found)) : \E k \in 1..Len(found) : found[k] = Tail(found)[l]
<1>1. /\ Len(found) \in Nat /\ Len(found) > 0 /\ Head(found) = found[1]
      /\ IsText(Tail(found)) /\ Len(Tail(found)) = Len(found) - 1
      /\ \A i \in 1..(Len(found) - 1) : Tail(found)[i] = found[i + 1]
  BY IsTextOf
<1>2. ASSUME NEW k \in 1..Len(found), k # 1
      PROVE  \E l \in 1..Len(Tail(found)) : Tail(found)[l] = found[k]
  <2> DEFINE l == k - 1
  <2>1. l \in 1..(Len(found) - 1) /\ k = l + 1
    BY <1>1, <1>2
  <2> HIDE DEF l
  <2>2. Tail(found)[l] = found[k]
    BY <1>1, <2>1
  <2>3. QED
    BY <1>1, <2>1, <2>2
<1>3. ASSUME NEW l \in 1..Len(Tail(found))
      PROVE  \E k \in 1..Len(found) : found[k] = Tail(found)[l]
  <2>1. l + 1 \in 1..Len(found) /\ Tail(found)[l] = found[l + 1]
    BY <1>1
  <2>2. QED
    BY <2>1
<1>4. QED
  BY <1>1, <1>2, <1>3

\* What is suppressed the author has decided about.
LEMMA SuppressedIsDecided ==
  ASSUME ReportInv, NEW print, Alerts!Suppressed(print) \/ \E row \in v4 : row.fingerprint = print /\ row.status = "DISMISSED"
  PROVE  DecidedOn(v7, print)
<1>1. AlertsAre(v4, v5, v7)
  BY DEF ReportInv
<1>2. CASE Alerts!Pattern(print) \in v5
  BY <1>1, <1>2 DEF AlertsAre, DecidedOn
<1>3. ASSUME NEW row \in v4, row.status = "DISMISSED", Alerts!Pattern(row.fingerprint) = Alerts!Pattern(print)
      PROVE  DecidedOn(v7, print)
  <2>1. DecidedOn(v7, row.fingerprint)
    BY <1>1, <1>3 DEF AlertsAre, IsSound
  <2>2. QED
    BY <1>3, <2>1 DEF DecidedOn
<1>4. QED
  BY <1>2, <1>3 DEF Alerts!Suppressed

\* A pair may be skipped when it no longer is in the scene or the author decided about it.
LEMMA SkipReports ==
  ASSUME ReportInv, v6.step \in {"auditing", "finding"}, v6.found # <<>>,
         UNCHANGED <<v2, v3, v4, v7, v8>>, AlertsAre(v4, v5', v7),
         v6' = [step |-> "auditing", dirty |-> v6.dirty, found |-> Tail(v6.found), overtaken |-> v6.overtaken],
         (\A s \in PlaceOf(Head(v6.found)) : IsQuoted(s, v2)) => DecidedOn(v7, PrintOf(Head(v6.found)))
  PROVE  ReportInv'
<1>1. IsText(v6.found) /\ Auditing(v6)
  BY DEF ReportInv, IsAudit, Auditing
<1>2. /\ v6'.step = "auditing" /\ v6'.found = Tail(v6.found) /\ Auditing(v6')
      /\ IsAlertJob(v6') /\ IsAudit(v6') /\ KnownIs(v6', v4, v7) /\ Overtaken(v6', v4, v7, v2)
  BY <1>1, FoundTail DEF IsAlertJob, IsAudit, KnownIs, Overtaken, Auditing
<1>3. EventsAre(v3, v2, v6')
  BY DEF ReportInv, EventsAre
<1>4. AllTold(v8, v2, v7, v6', v4)
  <2> SUFFICES ASSUME ~v8, NEW i, MustTell(v2, v7, i), StillFound(v6, Neighbours(v2, i))
               PROVE  StillFound(v6', Neighbours(v2, i))
    BY DEF ReportInv, AllTold
  <2>1. PICK k \in 1..Len(v6.found) :
          /\ PrintOf(v6.found[k]) = PrintOf(Neighbours(v2, i))
          /\ PlaceOf(v6.found[k]) = PlaceOf(Neighbours(v2, i))
    BY DEF StillFound
  <2>2. \A s \in PlaceOf(Neighbours(v2, i)) : IsQuoted(s, v2)
    BY NeighboursAreQuoted, IsTextOf DEF MustTell, ReportInv, AreChunks
  <2>3. v6.found[k] # Head(v6.found)
    BY <2>1, <2>2 DEF MustTell
  <2>4. PICK l \in 1..Len(Tail(v6.found)) : Tail(v6.found)[l] = v6.found[k]
    BY <1>1, <2>3, FoundTail
  <2>5. QED
    BY <1>2, <2>1, <2>4 DEF StillFound
<1>5. LastCurrent(v8, v3, v4, v7, v6', v2)
  <2> SUFFICES ASSUME AllCurrent(v4, v7, v6, v2) PROVE AllCurrent(v4, v7, v6', v2)
    BY DEF ReportInv, LastCurrent
  <2>1. \A l \in 1..Len(Tail(v6.found)) : \E k \in 1..Len(v6.found) : v6.found[k] = Tail(v6.found)[l]
    BY <1>1, FoundTail
  <2>2. QED
    BY <1>1, <1>2, <2>1 DEF AllCurrent
<1>6. QED
  BY <1>2, <1>3, <1>4, <1>5 DEF ReportInv

\* The analysis goes on to the next step of the same pair.
LEMMA GoesOnReports ==
  ASSUME ReportInv, Auditing(v6), Auditing(v6'), v6'.found = v6.found, IsAlertJob(v6'), IsAudit(v6'),
         KnownIs(v6', v4, v7), Overtaken(v6', v4, v7, v2), UNCHANGED <<v2, v3, v4, v7, v8>>, v5' = v5
  PROVE  ReportInv'
<1>1. EventsAre(v3, v2, v6')
  BY DEF ReportInv, EventsAre, Auditing
<1>2. AllTold(v8, v2, v7, v6', v4)
  BY DEF ReportInv, AllTold, StillFound
<1>3. LastCurrent(v8, v3, v4, v7, v6', v2)
  BY DEF ReportInv, LastCurrent, AllCurrent, Auditing
<1>4. QED
  BY <1>1, <1>2, <1>3 DEF ReportInv

\* The check for a dismissal skips the pair or goes on with it.
LEMMA CheckReports ==
  ASSUME ReportInv, Alerts!CheckSuppression
  PROVE  ReportInv'
<1>1. UNCHANGED <<v2, v3, v4, v7, v8>> /\ v6.step = "auditing" /\ v6.found # <<>>
  BY DEF Alerts!CheckSuppression
<1>2. v6 = [step |-> "auditing", dirty |-> v6.dirty, found |-> v6.found, overtaken |-> v6.overtaken]
  BY <1>1 DEF ReportInv, IsAlertJob, Alerts!Idle
<1> DEFINE head == Head(v6.found)
           print == Alerts!ThisPrint
           quoted == \A s \in PlaceOf(head) : IsQuoted(s, v2)
<1>3. print = PrintOf(head)
  BY DEF PrintOf, Alerts!ThisPrint, Alerts!This
<1>4. quoted <=> \A s \in Alerts!Evidence(Alerts!This.first, Alerts!This.second) : Alerts!IsCurrent(s)
  BY CurrentIs DEF ReportInv, PlaceOf, Alerts!This
<1>5. \/ /\ v6' = [v6 EXCEPT !.step = "auditing", !.found = Tail(@)]
         /\ ~(quoted /\ ~Alerts!Suppressed(print))
      \/ v6' = [v6 EXCEPT !.step = "finding", !.overtaken = FALSE] /\ quoted /\ ~Alerts!Suppressed(print)
  BY <1>4 DEF Alerts!CheckSuppression, Alerts!SkipThis
<1>6. v5' = IF quoted /\ Alerts!Suppressed(print) THEN v5 \cup {Alerts!Pattern(print)} ELSE v5
  BY <1>4 DEF Alerts!CheckSuppression
<1> HIDE DEF quoted, print
<1>7. quoted /\ Alerts!Suppressed(print) => DecidedOn(v7, print)
  BY SuppressedIsDecided
<1>8. AlertsAre(v4, v5', v7)
  BY <1>6, <1>7 DEF ReportInv, AlertsAre, DecidedOn
<1>9. CASE v6' = [v6 EXCEPT !.step = "auditing", !.found = Tail(@)] /\ ~(quoted /\ ~Alerts!Suppressed(print))
  <2>1. v6' = [step |-> "auditing", dirty |-> v6.dirty, found |-> Tail(v6.found), overtaken |-> v6.overtaken]
    BY <1>2, <1>9
  <2>2. (\A s \in PlaceOf(head) : IsQuoted(s, v2)) => DecidedOn(v7, PrintOf(head))
    BY <1>3, <1>7, <1>9 DEF quoted
  <2> HIDE DEF head
  <2>3. QED
    BY <1>1, <1>8, <2>1, <2>2, SkipReports DEF head
<1>10. CASE /\ v6' = [v6 EXCEPT !.step = "finding", !.overtaken = FALSE]
            /\ quoted /\ ~Alerts!Suppressed(print)
  <2>1. v6' = [step |-> "finding", dirty |-> v6.dirty, found |-> v6.found, overtaken |-> FALSE]
    BY <1>2, <1>10
  <2>2. v6'.step = "finding" /\ v6'.found = v6.found /\ Auditing(v6) /\ Auditing(v6')
    BY <1>1, <2>1 DEF Auditing
  <2>3. IsAlertJob(v6') /\ IsAudit(v6') /\ KnownIs(v6', v4, v7) /\ Overtaken(v6', v4, v7, v2)
    BY <1>1, <2>1 DEF ReportInv, IsAlertJob, IsAudit, KnownIs, Overtaken
  <2>4. v5' = v5
    BY <1>6, <1>10
  <2>5. QED
    BY <1>1, <2>2, <2>3, <2>4, GoesOnReports
<1>11. QED
  BY <1>5, <1>9, <1>10

\* The alert of the fingerprint is read, or one that was resolved, or none.
LEMMA FindReports ==
  ASSUME ReportInv, Alerts!FindAlert
  PROVE  ReportInv'
<1> DEFINE print == Alerts!ThisPrint
           same == {row \in v4 : row.fingerprint = print}
           resolved == {row \in v4 : row.status = "RESOLVED"
                                     /\ Alerts!Pattern(row.fingerprint) = Alerts!Pattern(print)}
           found == IF same # {} THEN same ELSE resolved
<1>1. UNCHANGED <<v2, v3, v4, v7, v8>> /\ v5' = v5 /\ v6.step = "finding" /\ Auditing(v6)
  BY DEF Alerts!FindAlert, Auditing
<1>2. v6 = [step |-> "finding", dirty |-> v6.dirty, found |-> v6.found, overtaken |-> v6.overtaken]
      /\ v6.found # <<>> /\ IsText(v6.found)
  BY <1>1 DEF ReportInv, IsAlertJob, IsAudit, Alerts!Idle
<1>3. \/ (\E row \in same : row.status = "DISMISSED") /\ v6' = [v6 EXCEPT !.step = "auditing", !.found = Tail(@)]
      \/ \E row \in found :
           /\ row.status # "DISMISSED"
           /\ v6' = [step |-> "writing", dirty |-> v6.dirty, found |-> v6.found,
                     overtaken |-> v6.overtaken, known |-> {row}]
      \/ /\ found = {}
         /\ v6' = [step |-> "writing", dirty |-> v6.dirty, found |-> v6.found,
                   overtaken |-> v6.overtaken, known |-> {}]
  BY DEF Alerts!FindAlert, Alerts!SkipThis
<1>4. print = PrintOf(Head(v6.found))
  BY DEF PrintOf, Alerts!ThisPrint, Alerts!This
<1> HIDE DEF print
<1>5. AlertsAre(v4, v5, v7)
  BY DEF ReportInv
<1>6. ASSUME NEW row \in same, row.status = "DISMISSED", v6' = [v6 EXCEPT !.step = "auditing", !.found = Tail(@)]
      PROVE  ReportInv'
  <2>1. DecidedOn(v7, PrintOf(Head(v6.found)))
    BY <1>4, <1>6, SuppressedIsDecided
  <2>2. v6' = [step |-> "auditing", dirty |-> v6.dirty, found |-> Tail(v6.found), overtaken |-> v6.overtaken]
    BY <1>2, <1>6
  <2>3. QED
    BY <1>1, <1>2, <1>5, <2>1, <2>2, SkipReports
<1>7. ASSUME NEW known, v6' = [step |-> "writing", dirty |-> v6.dirty, found |-> v6.found,
                               overtaken |-> v6.overtaken, known |-> known],
             KnownIs(v6', v4, v7), known \subseteq v4
      PROVE  ReportInv'
  <2>1. v6'.found = v6.found /\ v6'.known = known /\ Auditing(v6') /\ IsAlertJob(v6') /\ IsAudit(v6')
    BY <1>2, <1>7 DEF Auditing, IsAlertJob, IsAudit
  <2>2. Overtaken(v6', v4, v7, v2)
    BY <1>5, <1>7, <2>1 DEF AlertsAre, Overtaken
  <2>3. QED
    BY <1>1, <1>7, <2>1, <2>2, GoesOnReports
<1>8. ASSUME NEW row \in found, row.status # "DISMISSED",
             v6' = [step |-> "writing", dirty |-> v6.dirty, found |-> v6.found,
                    overtaken |-> v6.overtaken, known |-> {row}]
      PROVE  ReportInv'
  <2>1. row \in v4 /\ v6'.known = {row} /\ v6'.found = v6.found
    BY <1>8
  <2>2. KnownIs(v6', v4, v7)
    <3>1. CASE row.fingerprint = print
      <4>1. row.status \in {"ACTIVE", "OBSOLETE"} \/ DecidedOn(v7, print)
        BY <1>5, <2>1, <3>1 DEF AlertsAre, IsSound
      <4>2. QED
        BY <1>4, <2>1, <3>1, <4>1 DEF KnownIs
    <3>2. CASE /\ row.status = "RESOLVED" /\ Alerts!Pattern(row.fingerprint) = Alerts!Pattern(print)
               /\ \A other \in v4 : other.fingerprint # print
      <4>1. DecidedOn(v7, row.fingerprint)
        BY <1>5, <2>1, <3>2 DEF AlertsAre, IsSound
      <4>2. DecidedOn(v7, print)
        BY <3>2, <4>1 DEF DecidedOn
      <4>3. QED
        BY <1>4, <2>1, <3>2, <4>2 DEF KnownIs
    <3>3. QED
      BY <1>8, <3>1, <3>2
  <2>3. QED
    BY <1>7, <1>8, <2>1, <2>2
<1>9. ASSUME found = {}, v6' = [step |-> "writing", dirty |-> v6.dirty, found |-> v6.found,
                                overtaken |-> v6.overtaken, known |-> {}]
      PROVE  ReportInv'
  <2>1. \A row \in v4 : row.fingerprint # print
    BY <1>9
  <2>2. KnownIs(v6', v4, v7)
    BY <1>4, <1>9, <2>1 DEF KnownIs
  <2>3. QED
    BY <1>7, <1>9, <2>2
<1>10. QED
  BY <1>3, <1>6, <1>8, <1>9

\* An alert that tells of the pair takes the place of those that are gone, unless the
\* author decided about it or a chunk of the pair is dirty.
Replaces(gone, written, pair) ==
  /\ v4' = (v4 \ gone) \cup {written}
  /\ IsAlert(written) /\ written.fingerprint = PrintOf(pair) /\ IsSound(written, v7)
  /\ \A row \in v4 \ gone : row.fingerprint # PrintOf(pair)
  /\ ~Alerts!Scattered(written) => written.sources = PlaceOf(pair)
  /\ \/ written.status = "ACTIVE" \/ Alerts!Scattered(written) \/ DecidedOn(v7, PrintOf(pair))
     \/ \E s \in PlaceOf(pair) : \A i \in 1..Len(v2) : v2[i].id = s.chunk => v2[i].dirty
  /\ \A row \in gone : \A other : Tells(row, other) =>
       \/ Tells(written, other) \/ DecidedOn(v7, PrintOf(other))
       \/ PrintOf(other) = PrintOf(pair) /\ PlaceOf(other) = PlaceOf(pair)

\* The alert that is written takes the place of the one it was found in, if any.
LEMMA WrittenIs ==
  ASSUME ReportInv, Alerts!WriteAlert
  PROVE  \E gone \in SUBSET v4 : \E written : Replaces(gone, written, Head(v6.found))
<1> DEFINE head == Head(v6.found)
           print == PrintOf(head)
           place == PlaceOf(head)
           StoredFor(one) == CHOOSE other \in v4 : other.fingerprint = one.fingerprint
           NewStatus(one) == IF one.status \in {"OBSOLETE", "RESOLVED"} THEN "ACTIVE" ELSE StoredFor(one).status
           Sources(one) == IF one.fingerprint = print THEN Alerts!MergeSources(one.sources, place) ELSE place
           First == [fingerprint |-> print, status |-> "ACTIVE", sources |-> place]
           Again(one) == [fingerprint |-> print, status |-> NewStatus(one), sources |-> Sources(one)]
<1>1. v6.step = "writing"
      /\ v4' = (v4 \ {StoredFor(one) : one \in v6.known})
               \cup (IF v6.known = {} THEN {First} ELSE {Again(one) : one \in v6.known})
  BY DEF Alerts!WriteAlert, Alerts!This, Alerts!ThisPrint, PrintOf, PlaceOf
<1>2. AlertsAre(v4, v5, v7) /\ KnownIs(v6, v4, v7) /\ Overtaken(v6, v4, v7, v2)
  BY DEF ReportInv
<1>3. /\ IsFiniteSet(place) /\ Cardinality(place) = 2 /\ \A s \in place : IsSource(s, print)
      /\ \A row : row.sources = place => ~Alerts!Scattered(row)
  <2>1. IsFiniteSet(place) /\ Cardinality(place) = 2 /\ \A s \in place : IsSource(s, print)
    BY PlaceIs
  <2>2. QED
    BY <2>1, SameCount DEF Alerts!Scattered
<1> HIDE DEF head, print, place
<1>4. CASE v6.known = {} /\ \A row \in v4 : row.fingerprint # print
  <2>1. v4' = (v4 \ {}) \cup {First}
    BY <1>1, <1>4
  <2>2. /\ IsAlert(First) /\ First.fingerprint = print /\ First.status = "ACTIVE" /\ First.sources = place
    BY DEF IsAlert
  <2> HIDE DEF First
  <2>3. IsSound(First, v7)
    BY <1>3, <2>2 DEF IsSound
  <2>4. Replaces({}, First, head)
    BY <1>4, <2>1, <2>2, <2>3 DEF Replaces, print, place
  <2>5. QED
    BY <2>4 DEF head
<1>5. ASSUME NEW old, v6.known = {old},
             NEW stored \in v4, stored.fingerprint = old.fingerprint, stored.sources = old.sources,
             \/ /\ old.fingerprint = print
                /\ old.status \in {"ACTIVE", "OBSOLETE"} \/ DecidedOn(v7, print)
             \/ /\ Alerts!Pattern(old.fingerprint) = Alerts!Pattern(print)
                /\ DecidedOn(v7, print)
                /\ \A row \in v4 : row.fingerprint # print
      PROVE  \E gone \in SUBSET v4 : \E written : Replaces(gone, written, head)
  <2>1. \A row \in v4 : row.fingerprint = old.fingerprint <=> row = stored
    BY <1>2, <1>5 DEF AlertsAre
  <2>2. StoredFor(old) = stored
    BY <2>1
  <2> DEFINE written == Again(old)
  <2>3. v4' = (v4 \ {stored}) \cup {written}
    <3> HIDE DEF StoredFor, Again
    <3>1. QED
      BY <1>1, <1>5, <2>2
  <2> HIDE DEF StoredFor, Sources
  <2>4. /\ IsAlert(written) /\ written.fingerprint = print
        /\ written.status = IF old.status \in {"OBSOLETE", "RESOLVED"} THEN "ACTIVE" ELSE stored.status
        /\ written.sources = IF old.fingerprint = print THEN Alerts!MergeSources(old.sources, place) ELSE place
    <3>1. written.status = NewStatus(old) /\ written.sources = Sources(old) /\ written.fingerprint = print
      OBVIOUS
    <3>2. IsAlert(written)
      <4> HIDE DEF NewStatus
      <4>1. QED
        BY DEF IsAlert
    <3>3. QED
      BY <2>2, <3>1, <3>2 DEF Sources
  <2> HIDE DEF written
  <2>5. IsSound(stored, v7)
    BY <1>2 DEF AlertsAre
  <2>6. old.fingerprint = print =>
          /\ IsFiniteSet(written.sources) /\ \A s \in written.sources : IsSource(s, print)
          /\ \/ written.sources = place /\ old.sources \subseteq place
             \/ Cardinality(written.sources) > 2
          /\ Cardinality(old.sources) > 2 => Cardinality(written.sources) > 2
    <3> SUFFICES ASSUME old.fingerprint = print
                 PROVE  LET merged == Alerts!MergeSources(old.sources, place) IN
                        /\ IsFiniteSet(merged) /\ \A s \in merged : IsSource(s, print)
                        /\ \/ merged = place /\ old.sources \subseteq place
                           \/ Cardinality(merged) > 2
                        /\ Cardinality(old.sources) > 2 => Cardinality(merged) > 2
      BY <2>4
    <3>1. IsFiniteSet(old.sources) /\ \A s \in old.sources : IsSource(s, print)
      BY <1>5, <2>5 DEF IsSound
    <3>2. QED
      BY <3>1, MergedIs DEF print, place
  <2>7. \A row : Alerts!Scattered(row) <=> Cardinality(row.sources) > 2
    BY SameCount DEF Alerts!Scattered
  <2>8. IsSound(written, v7)
    <3>1. IsFiniteSet(written.sources) /\ \A s \in written.sources : IsSource(s, print)
      BY <1>3, <2>4, <2>6
    <3>2. written.status \in {"ACTIVE", "OBSOLETE"} \/ DecidedOn(v7, print)
      BY <1>5, <2>4, <2>5 DEF IsSound
    <3>3. QED
      BY <2>4, <3>1, <3>2 DEF IsSound
  <2>9. \A row \in v4 \ {stored} : row.fingerprint # print
    BY <1>5, <2>1
  <2>10. ~Alerts!Scattered(written) => written.sources = place
    BY <2>4, <2>6, <2>7
  <2>11. \/ written.status = "ACTIVE" \/ Alerts!Scattered(written) \/ DecidedOn(v7, print)
         \/ \E s \in place : \A i \in 1..Len(v2) : v2[i].id = s.chunk => v2[i].dirty
    <3> SUFFICES ASSUME ~DecidedOn(v7, print), ~Alerts!Scattered(written), written.status # "ACTIVE"
                 PROVE  \E s \in place : \A i \in 1..Len(v2) : v2[i].id = s.chunk => v2[i].dirty
      OBVIOUS
    <3>1. old.fingerprint = print /\ old.status = "ACTIVE" /\ written.status = stored.status
      BY <1>5, <2>4
    <3>2. stored.status = "OBSOLETE"
      BY <1>5, <2>5, <3>1 DEF IsSound
    <3>3. PICK s \in old.sources : \A i \in 1..Len(v2) : v2[i].id = s.chunk => v2[i].dirty
      BY <1>1, <1>2, <1>5, <3>1, <3>2 DEF Overtaken, print, head
    <3>4. s \in place
      BY <2>6, <2>7, <3>1
    <3>5. QED
      BY <3>3, <3>4
  <2>12. ASSUME NEW pair, Tells(stored, pair), ~DecidedOn(v7, PrintOf(pair))
         PROVE  Tells(written, pair) \/ (PrintOf(pair) = print /\ PlaceOf(pair) = place)
    <3>1. PrintOf(pair) = old.fingerprint
      BY <1>5, <2>12 DEF Tells
    <3>2. old.fingerprint = print
      BY <1>5, <2>12, <3>1 DEF DecidedOn
    <3>3. CASE Alerts!Scattered(written)
      BY <2>4, <3>1, <3>2, <3>3 DEF Tells
    <3>4. CASE ~Alerts!Scattered(written)
      <4>1. old.sources \subseteq place /\ ~Alerts!Scattered(stored)
        BY <1>5, <2>6, <2>7, <3>2, <3>4
      <4>2. PlaceOf(pair) \subseteq place
        BY <1>5, <2>12, <4>1 DEF Tells
      <4>3. Cardinality(PlaceOf(pair)) = Cardinality(place)
        BY <1>3, PlaceIs
      <4>4. PlaceOf(pair) = place
        BY <1>3, <4>2, <4>3, FS_Subset
      <4>5. QED
        BY <3>1, <3>2, <4>4
    <3>5. QED
      BY <3>3, <3>4
  <2>13. QED
    <3>1. {stored} \in SUBSET v4
      OBVIOUS
    <3>2. Replaces({stored}, written, head)
      BY <2>3, <2>4, <2>8, <2>9, <2>10, <2>11, <2>12 DEF Replaces, print, place
    <3>3. QED
      BY <3>1, <3>2
<1>6. QED
  <2>1. CASE \E old : /\ v6.known = {old}
                      /\ \E row \in v4 : row.fingerprint = old.fingerprint /\ row.sources = old.sources
                      /\ \/ /\ old.fingerprint = print
                            /\ old.status \in {"ACTIVE", "OBSOLETE"} \/ DecidedOn(v7, print)
                         \/ /\ Alerts!Pattern(old.fingerprint) = Alerts!Pattern(print)
                            /\ DecidedOn(v7, print)
                            /\ \A row \in v4 : row.fingerprint # print
    BY <1>5, <2>1, Zenon DEF head
  <2>2. QED
    BY <1>1, <1>2, <1>4, <2>1 DEF KnownIs, print, head

\* After the write the alert tells of the pair.
LEMMA WriteReports ==
  ASSUME ReportInv, Alerts!WriteAlert
  PROVE  ReportInv'
<1> DEFINE head == Head(v6.found)
           print == PrintOf(head)
<1>1. /\ v6.step = "writing" /\ UNCHANGED <<v2, v3, v7, v8>> /\ v5' = v5
      /\ v6' = [step |-> "auditing", dirty |-> v6.dirty, found |-> Tail(v6.found), overtaken |-> FALSE]
  BY DEF Alerts!WriteAlert
<1>2. v6.found # <<>> /\ IsText(v6.found) /\ Auditing(v6)
  BY <1>1 DEF ReportInv, IsAudit, Auditing
<1>3. PICK gone \in SUBSET v4, written \in v4' : Replaces(gone, written, head)
  <2>1. PICK gone \in SUBSET v4 : \E written : Replaces(gone, written, head)
    BY WrittenIs
  <2>2. PICK written : Replaces(gone, written, head)
    BY <2>1
  <2>3. written \in v4'
    BY <2>2 DEF Replaces
  <2>4. QED
    BY <2>2, <2>3
<1> HIDE DEF head
<1>4. /\ v6'.step = "auditing" /\ v6'.found = Tail(v6.found) /\ Auditing(v6')
      /\ IsAlertJob(v6') /\ IsAudit(v6') /\ KnownIs(v6', v4', v7) /\ Overtaken(v6', v4', v7, v2)
  BY <1>1, <1>2, FoundTail DEF IsAlertJob, IsAudit, KnownIs, Overtaken, Auditing
<1>5. EventsAre(v3, v2, v6')
  BY <1>1 DEF ReportInv, EventsAre
<1>6. AlertsAre(v4', v5, v7)
  BY <1>3 DEF ReportInv, AlertsAre, Replaces
<1>7. AllTold(v8, v2, v7, v6', v4')
  <2> SUFFICES ASSUME ~v8, NEW i, MustTell(v2, v7, i)
               PROVE  \/ StillFound(v6', Neighbours(v2, i))
                      \/ \E row \in v4' : Tells(row, Neighbours(v2, i))
    BY DEF AllTold
  <2> DEFINE pair == Neighbours(v2, i)
  <2>1. ~DecidedOn(v7, PrintOf(pair))
    BY DEF MustTell
  <2>2. \A s \in PlaceOf(pair) : \E j \in 1..Len(v2) : v2[j].id = s.chunk /\ ~v2[j].dirty
    <3> SUFFICES ASSUME NEW s \in PlaceOf(pair) PROVE \E j \in 1..Len(v2) : v2[j].id = s.chunk /\ ~v2[j].dirty
      OBVIOUS
    <3>1. s.chunk \in {v2[i].id, v2[i + 1].id}
      <4>1. pair.first = v2[i] /\ pair.second = v2[i + 1]
        BY DEF Neighbours
      <4> HIDE DEF pair
      <4>2. s.chunk \in {pair.first.id, pair.second.id}
        BY PlaceIs
      <4>3. QED
        BY <4>1, <4>2
    <3>2. Len(v2) \in Nat
      BY IsTextOf DEF ReportInv, AreChunks
    <3>3. i \in 1..Len(v2) /\ i + 1 \in 1..Len(v2) /\ ~v2[i].dirty /\ ~v2[i + 1].dirty
      BY <3>2 DEF MustTell
    <3>4. QED
      BY <3>1, <3>3
  <2> HIDE DEF pair
  <2>3. ASSUME PrintOf(pair) = print, PlaceOf(pair) = PlaceOf(head)
        PROVE  Tells(written, pair)
    <3>1. Alerts!Scattered(written) \/ (written.sources = PlaceOf(pair) /\ written.status = "ACTIVE")
      BY <1>3, <2>1, <2>2, <2>3 DEF Replaces
    <3>2. QED
      BY <1>3, <2>3, <3>1 DEF Tells, Replaces
  <2>4. CASE StillFound(v6, pair)
    <3>1. PICK k \in 1..Len(v6.found) :
            PrintOf(v6.found[k]) = PrintOf(pair) /\ PlaceOf(v6.found[k]) = PlaceOf(pair)
      BY <2>4 DEF StillFound
    <3>2. CASE v6.found[k] = head
      BY <1>3, <2>3, <3>1, <3>2 DEF pair
    <3>3. ASSUME NEW l \in 1..Len(Tail(v6.found)), Tail(v6.found)[l] = v6.found[k]
          PROVE  StillFound(v6', pair)
      BY <1>4, <3>1, <3>3 DEF StillFound
    <3>4. QED
      BY <1>2, <3>2, <3>3, FoundTail DEF head, pair
  <2>5. CASE \E row \in v4 : Tells(row, pair)
    <3>1. PICK row \in v4 : Tells(row, pair)
      BY <2>5
    <3>2. CASE row \in gone
      BY <1>3, <2>1, <2>3, <3>1, <3>2 DEF Replaces, pair
    <3>3. CASE row \notin gone
      BY <1>3, <3>1, <3>3 DEF Replaces, pair
    <3>4. QED
      BY <3>2, <3>3
  <2>6. QED
    BY <2>4, <2>5 DEF ReportInv, AllTold, pair
<1>8. LastCurrent(v8, v3, v4', v7, v6', v2)
  <2> SUFFICES ASSUME AllCurrent(v4, v7, v6, v2) PROVE AllCurrent(v4', v7, v6', v2)
    BY <1>1 DEF ReportInv, LastCurrent
  <2>1. \A s \in PlaceOf(head) : IsQuoted(s, v2)
    BY <1>2, FoundTail DEF AllCurrent, head
  <2>2. \A l \in 1..Len(Tail(v6.found)) : \E k \in 1..Len(v6.found) : v6.found[k] = Tail(v6.found)[l]
    BY <1>2, FoundTail
  <2>3. ASSUME NEW l \in 1..Len(v6'.found), NEW s \in PlaceOf(v6'.found[l])
        PROVE  IsQuoted(s, v2)
    BY <1>2, <1>4, <2>2, <2>3 DEF AllCurrent
  <2>4. ASSUME NEW row \in v4', row.status = "ACTIVE", ~Restored(v7, row.fingerprint), ~Alerts!Scattered(row),
               NEW s \in row.sources
        PROVE  IsQuoted(s, v2)
    BY <1>3, <2>1, <2>4 DEF AllCurrent, Replaces
  <2>5. QED
    BY <2>3, <2>4 DEF AllCurrent
<1>9. QED
  BY <1>1, <1>4, <1>5, <1>6, <1>7, <1>8 DEF ReportInv

\* A decision changes one alert, and takes its pattern out of what must be told.
LEMMA DecideReports ==
  ASSUME ReportInv, NEW old \in v4, NEW decision \in {"ACTIVE", "RESOLVED", "DISMISSED"},
         Alerts!Decide(old, decision), \A p \in v5' : \E d \in v7' : d.pattern = p,
         IsAlertJob(v6'), v6'.step = v6.step, v6.step # "idle" => v6'.found = v6.found,
         v6.step = "writing" => v6'.known = v6.known
  PROVE  ReportInv'
<1> DEFINE new == [fingerprint |-> old.fingerprint, status |-> decision, sources |-> old.sources]
<1>1. AlertsAre(v4, v5, v7) /\ IsAlert(old) /\ IsSound(old, v7)
  BY DEF ReportInv, AlertsAre
<1>2. [old EXCEPT !.status = decision] = new
  BY <1>1 DEF IsAlert
<1>3. /\ UNCHANGED <<v2, v3, v8>> /\ v4' = (v4 \ {old}) \cup {new}
      /\ v7' = v7 \cup {[pattern |-> Alerts!Pattern(old.fingerprint), status |-> decision]}
  BY <1>2 DEF Alerts!Decide
<1>4. /\ IsAlert(new) /\ new.fingerprint = old.fingerprint /\ new.sources = old.sources
      /\ new.status = decision
  BY DEF IsAlert
<1> HIDE DEF new
<1>5. SameAlerts(v4, v4')
  BY <1>1, <1>3, <1>4 DEF SameAlerts, AlertsAre
<1>6. /\ v7 \subseteq v7' /\ DecidedOn(v7', old.fingerprint)
      /\ \A p : DecidedOn(v7, p) => DecidedOn(v7', p)
      /\ \A p : Restored(v7, p) => Restored(v7', p)
      /\ decision = "ACTIVE" => Restored(v7', old.fingerprint)
  <2> DEFINE d == [pattern |-> Alerts!Pattern(old.fingerprint), status |-> decision]
  <2>1. d \in v7' /\ v7 \subseteq v7' /\ d.pattern = Alerts!Pattern(old.fingerprint) /\ d.status = decision
    BY <1>3
  <2> HIDE DEF d
  <2>2. QED
    BY <2>1 DEF DecidedOn, Restored
<1>7. AlertsAre(v4', v5', v7')
  <2>1. IsSound(new, v7')
    BY <1>1, <1>4, <1>6 DEF IsSound
  <2>2. \A row \in v4 : IsSound(row, v7')
    BY <1>1, <1>6 DEF AlertsAre, IsSound
  <2>3. QED
    <3>1. \A row \in v4' : (row \in v4 /\ row # old) \/ row = new
      BY <1>3
    <3>2. \A row \in v4' : IsAlert(row) /\ IsSound(row, v7')
      BY <1>1, <1>4, <2>1, <2>2, <3>1 DEF AlertsAre
    <3>3. ASSUME NEW row \in v4', NEW other \in v4', row.fingerprint = other.fingerprint
          PROVE  row = other
      BY <1>1, <1>4, <3>1, <3>3 DEF AlertsAre
    <3>4. QED
      BY <3>2, <3>3 DEF AlertsAre
<1>8. KnownIs(v6', v4', v7')
  <2>1. KnownIs(v6', v4, v7)
    BY DEF ReportInv, KnownIs
  <2>2. QED
    BY <1>5, <1>6, <2>1, KnownKept
<1>9. Overtaken(v6', v4', v7', v2)
  <2>1. \A row \in v4' : row.status = "OBSOLETE" => row \in v4
    BY <1>3, <1>4
  <2>2. Overtaken(v6, v4, v7, v2)
    BY DEF ReportInv
  <2>3. v6'.step = "writing" => /\ v6.step = "writing" /\ v6'.found = v6.found /\ v6'.known = v6.known
                                /\ \A p : DecidedOn(v7, p) => DecidedOn(v7', p)
    BY <1>6
  <2>4. QED
    BY <2>1, <2>2, <2>3 DEF Overtaken
<1>10. EventsAre(v3, v2, v6') /\ IsAudit(v6') /\ (Auditing(v6') <=> Auditing(v6))
  BY DEF ReportInv, EventsAre, IsAudit, Auditing
<1>11. AllTold(v8, v2, v7', v6', v4')
  <2> SUFFICES ASSUME ~v8, NEW i, MustTell(v2, v7', i)
               PROVE  \/ StillFound(v6', Neighbours(v2, i))
                      \/ \E row \in v4' : Tells(row, Neighbours(v2, i))
    BY DEF AllTold
  <2>1. MustTell(v2, v7, i) /\ PrintOf(Neighbours(v2, i)) # old.fingerprint
    BY <1>6 DEF MustTell
  <2>2. CASE StillFound(v6, Neighbours(v2, i))
    BY <1>10, <2>2 DEF StillFound, Auditing
  <2>3. CASE \E row \in v4 : Tells(row, Neighbours(v2, i))
    BY <1>3, <2>1, <2>3 DEF Tells
  <2>4. QED
    BY <2>1, <2>2, <2>3 DEF ReportInv, AllTold
<1>12. LastCurrent(v8, v3, v4', v7', v6', v2)
  <2> SUFFICES ASSUME AllCurrent(v4, v7, v6, v2) PROVE AllCurrent(v4', v7', v6', v2)
    BY DEF ReportInv, LastCurrent
  <2>1. ASSUME NEW row \in v4', row.status = "ACTIVE", ~Restored(v7', row.fingerprint)
        PROVE  row \in v4 /\ ~Restored(v7, row.fingerprint)
    BY <1>3, <1>4, <1>6, <2>1
  <2>2. Auditing(v6') => v6'.found = v6.found
    BY <1>10 DEF Auditing
  <2>3. QED
    BY <1>10, <2>1, <2>2 DEF AllCurrent
<1>13. QED
  BY <1>3, <1>7, <1>8, <1>9, <1>10, <1>11, <1>12 DEF ReportInv

\* The three decisions.
LEMMA ResolveReports ==
  ASSUME ReportInv, NEW old \in v4, Alerts!Resolve(old)
  PROVE  ReportInv'
<1>1. Alerts!Decide(old, "RESOLVED") /\ v5' = v5 /\ v6' = v6 /\ v7 \subseteq v7'
  BY DEF Alerts!Resolve, Alerts!Decide
<1>2. \A p \in v5' : \E d \in v7' : d.pattern = p
  BY <1>1 DEF ReportInv, AlertsAre
<1>3. IsAlertJob(v6')
  BY <1>1 DEF ReportInv
<1>4. QED
  BY <1>1, <1>2, <1>3, DecideReports

LEMMA RestoreReports ==
  ASSUME ReportInv, NEW old \in v4, Alerts!RestoreAlert(old)
  PROVE  ReportInv'
<1>1. Alerts!Decide(old, "ACTIVE") /\ v5' \subseteq v5 /\ v6' = v6 /\ v7 \subseteq v7'
  BY DEF Alerts!RestoreAlert, Alerts!Decide
<1>2. \A p \in v5' : \E d \in v7' : d.pattern = p
  BY <1>1 DEF ReportInv, AlertsAre
<1>3. IsAlertJob(v6')
  BY <1>1 DEF ReportInv
<1>4. QED
  BY <1>1, <1>2, <1>3, DecideReports

\* A job that is marked as overtaken.
LEMMA OvertakenSet ==
  ASSUME NEW held, NEW flag
  PROVE  /\ held = [step |-> "finding", dirty |-> held.dirty, found |-> held.found, overtaken |-> held.overtaken]
              => [held EXCEPT !.overtaken = flag]
                   = [step |-> "finding", dirty |-> held.dirty, found |-> held.found, overtaken |-> flag]
         /\ held = [step |-> "writing", dirty |-> held.dirty, found |-> held.found, overtaken |-> held.overtaken,
                    known |-> held.known]
              => [held EXCEPT !.overtaken = flag]
                   = [step |-> "writing", dirty |-> held.dirty, found |-> held.found, overtaken |-> flag,
                      known |-> held.known]
OBVIOUS

LEMMA DismissReports ==
  ASSUME ReportInv, NEW old \in v4, Alerts!Dismiss(old)
  PROVE  ReportInv'
<1> DEFINE d == [pattern |-> Alerts!Pattern(old.fingerprint), status |-> "DISMISSED"]
<1>1. /\ Alerts!Decide(old, "DISMISSED") /\ v5' = v5 \cup {Alerts!Pattern(old.fingerprint)}
      /\ v6' = IF v6.step \in {"finding", "writing"} THEN [v6 EXCEPT !.overtaken = TRUE] ELSE v6
      /\ v7' = v7 \cup {d} /\ d.pattern = Alerts!Pattern(old.fingerprint)
  BY DEF Alerts!Dismiss, Alerts!Decide
<1> HIDE DEF d
<1>2. \A p \in v5' : \E e \in v7' : e.pattern = p
  BY <1>1 DEF ReportInv, AlertsAre
<1>3. /\ IsAlertJob(v6') /\ v6'.step = v6.step /\ (v6.step # "idle" => v6'.found = v6.found)
      /\ v6.step = "writing" => v6'.known = v6.known
  <2>1. IsAlertJob(v6)
    BY DEF ReportInv
  <2>2. CASE v6.step = "finding"
    <3>1. v6 = [step |-> "finding", dirty |-> v6.dirty, found |-> v6.found, overtaken |-> v6.overtaken]
      BY <2>1, <2>2 DEF IsAlertJob, Alerts!Idle
    <3>2. v6' = [v6 EXCEPT !.overtaken = TRUE]
      BY <1>1, <2>2
    <3>3. v6' = [step |-> "finding", dirty |-> v6.dirty, found |-> v6.found, overtaken |-> TRUE]
      BY <3>1, <3>2, OvertakenSet, Zenon
    <3>4. QED
      BY <2>2, <3>3 DEF IsAlertJob
  <2>3. CASE v6.step = "writing"
    <3>1. v6 = [step |-> "writing", dirty |-> v6.dirty, found |-> v6.found, overtaken |-> v6.overtaken,
                known |-> v6.known]
      BY <2>1, <2>3 DEF IsAlertJob, Alerts!Idle
    <3>2. v6' = [v6 EXCEPT !.overtaken = TRUE]
      BY <1>1, <2>3
    <3>3. v6' = [step |-> "writing", dirty |-> v6.dirty, found |-> v6.found, overtaken |-> TRUE,
                 known |-> v6.known]
      BY <3>1, <3>2, OvertakenSet, Zenon
    <3>4. QED
      BY <2>3, <3>3 DEF IsAlertJob
  <2>4. CASE v6.step \notin {"finding", "writing"}
    BY <1>1, <2>1, <2>4
  <2>5. QED
    BY <2>2, <2>3, <2>4
<1>4. QED
  BY <1>1, <1>2, <1>3, DecideReports

\* A chunk whose text was saved anew is dirty; a clean one was not touched.
LEMMA SavedRows ==
  ASSUME AreChunks(v2), NEW content \in SceneTexts, Alerts!Save(content)
  PROVE  /\ AreChunks(v2') /\ Len(v2') = Len(content) /\ Len(content) \in Nat
         /\ [i \in DOMAIN v2' |-> v2'[i].text] = content
         /\ \A i \in 1..Len(content) :
              \/ v2'[i].dirty /\ (i <= Len(v2) => v2'[i].id = v2[i].id)
              \/ i <= Len(v2) /\ v2'[i] = v2[i] /\ v2[i].text = content[i]
<1>1. IsText(content)
  BY AuditsAssumption DEF Alerts!SceneAssumption, IsText
<1>2. /\ Len(content) \in Nat /\ DOMAIN content = 1..Len(content)
      /\ content = [i \in 1..Len(content) |-> content[i]]
  BY <1>1, IsTextOf
<1>3. Len(v2) \in Nat /\ DOMAIN v2 = 1..Len(v2)
  BY IsTextOf DEF AreChunks
<1> DEFINE New(i) == [id |-> <<v9', i>>, text |-> content[i], dirty |-> TRUE]
           Changed(i) == [v2[i] EXCEPT !.text = content[i], !.dirty = TRUE]
           Saved(i) == IF i > Len(v2) THEN New(i) ELSE IF v2[i].text = content[i] THEN v2[i] ELSE Changed(i)
<1>4. v2' = [i \in 1..Len(content) |-> Saved(i)]
  <2>1. v2' = [i \in DOMAIN content |-> Saved(i)]
    BY Zenon DEF Alerts!Save
  <2> HIDE DEF Saved
  <2>2. QED
    BY <1>2, <2>1
<1> HIDE DEF New, Changed, Saved
<1>5. v2' = [i \in 1..Len(content) |-> v2'[i]]
  BY <1>4
<1>6. IsText(v2') /\ Len(v2') = Len(content) /\ DOMAIN v2' = 1..Len(content)
  BY <1>2, <1>5, TextIs
<1>7. ASSUME NEW i \in 1..Len(content)
      PROVE  /\ IsChunk(v2'[i], i) /\ v2'[i].text = content[i]
             /\ \/ v2'[i].dirty /\ (i <= Len(v2) => v2'[i].id = v2[i].id)
                \/ i <= Len(v2) /\ v2'[i] = v2[i] /\ v2[i].text = content[i]
  <2>1. CASE i > Len(v2)
    <3>1. v2'[i] = [id |-> <<v9', i>>, text |-> content[i], dirty |-> TRUE]
      BY <1>4, <2>1 DEF Saved, New
    <3>2. IsChunk(v2'[i], i) /\ v2'[i].text = content[i] /\ v2'[i].dirty
      BY <3>1 DEF IsChunk
    <3>3. QED
      BY <1>2, <1>3, <2>1, <3>2
  <2>2. CASE i <= Len(v2) /\ v2[i].text = content[i]
    <3>1. v2'[i] = v2[i]
      BY <1>2, <1>3, <1>4, <2>2 DEF Saved
    <3>2. IsChunk(v2[i], i)
      BY <1>2, <1>3, <2>2 DEF AreChunks
    <3>3. QED
      BY <2>2, <3>1, <3>2
  <2>3. CASE i <= Len(v2) /\ v2[i].text # content[i]
    <3>1. IsChunk(v2[i], i)
      BY <1>2, <1>3, <2>3 DEF AreChunks
    <3>2. v2'[i] = Changed(i)
      BY <1>2, <1>3, <1>4, <2>3 DEF Saved
    <3>3. Changed(i) = [id |-> v2[i].id, text |-> content[i], dirty |-> TRUE]
      BY <3>1, ChunkChanged, Zenon DEF Changed
    <3>4. v2'[i] = [id |-> v2[i].id, text |-> content[i], dirty |-> TRUE]
      BY <3>2, <3>3
    <3>5. QED
      BY <3>1, <3>4 DEF IsChunk
  <2>4. QED
    BY <1>2, <1>3, <2>1, <2>2, <2>3
<1>8. AreChunks(v2')
  BY <1>6, <1>7 DEF AreChunks
<1>9. [i \in DOMAIN v2' |-> v2'[i].text] = content
  BY <1>2, <1>6, <1>7
<1>10. QED
  BY <1>2, <1>6, <1>7, <1>8, <1>9

\* A save makes its texts dirty and obsoletes the alerts that quote another; its event waits.
LEMMA SaveReports ==
  ASSUME ReportInv, NEW content \in SceneTexts, Alerts!Save(content)
  PROVE  ReportInv'
<1> DEFINE stale == {row \in v4 : \E s \in row.sources, i \in DOMAIN v2 :
                       /\ s.chunk = v2[i].id
                       /\ i > Len(content) \/ v2[i].text # content[i]}
<1>1. /\ v5' = v5 /\ v6' = v6 /\ v7' = v7 /\ v8' = v8 /\ v4' = Alerts!Obsolete(stale)
      /\ content # [i \in DOMAIN v2 |-> v2[i].text]
      /\ v3' = IF v3 # <<>> /\ v3[Len(v3)] = content THEN v3 ELSE Append(v3, content)
  BY Zenon DEF Alerts!Save
<1>2. /\ AreChunks(v2') /\ Len(v2') = Len(content) /\ Len(content) \in Nat
      /\ [i \in DOMAIN v2' |-> v2'[i].text] = content
      /\ \A i \in 1..Len(content) :
           \/ v2'[i].dirty /\ (i <= Len(v2) => v2'[i].id = v2[i].id)
           \/ i <= Len(v2) /\ v2'[i] = v2[i] /\ v2[i].text = content[i]
  BY SavedRows DEF ReportInv
<1>3. AreChunks(v2) /\ Len(v2) \in Nat /\ DOMAIN v2 = 1..Len(v2)
  BY IsTextOf DEF ReportInv, AreChunks
<1>4. \A row \in stale : \E s \in row.sources, i \in 1..Len(v2) :
        s.chunk = v2[i].id /\ (i > Len(content) \/ v2[i].text # content[i])
  BY <1>3
<1> HIDE DEF stale
<1>5. v3' = Append(v3, content) /\ IsText(v3)
  BY <1>1 DEF ReportInv, EventsAre
<1>6. /\ IsText(v3') /\ Len(v3') = Len(v3) + 1 /\ v3'[Len(v3')] = content /\ v3' # <<>> /\ Len(v3) \in Nat
      /\ v3 # <<>> => Len(v3') > 1
  <2>1. Len(v3) \in Nat /\ (v3 # <<>> => Len(v3) > 0)
    BY <1>5, IsTextOf
  <2>2. IsText(v3') /\ Len(v3') = Len(v3) + 1 /\ v3'[Len(v3) + 1] = content /\ v3' # <<>>
    BY <1>5, TextAppended
  <2>3. QED
    BY <2>1, <2>2
<1>7. EventsAre(v3', v2', v6)
  BY <1>2, <1>6 DEF EventsAre
<1>8. (\A row \in v4 : IsAlert(row)) /\ AlertsAre(v4, v5, v7)
  BY DEF ReportInv, AlertsAre
<1>9. AlertsAre(v4', v5, v7)
  BY <1>1, <1>8, ObsoleteSound
<1>10. /\ SameAlerts(v4, v4')
       /\ \A row \in v4' : row.status = "OBSOLETE" =>
            row \in v4 \/ \E old \in stale : row.fingerprint = old.fingerprint /\ row.sources = old.sources /\ old \in v4
  BY <1>1, <1>8, ObsoleteIs
<1>11. KnownIs(v6, v4', v7)
  BY <1>10, KnownKept DEF ReportInv
\* A clean chunk is the one it was.
<1>12. ASSUME NEW i \in 1..Len(v2'), ~v2'[i].dirty
       PROVE  i \in 1..Len(v2) /\ v2'[i] = v2[i] /\ v2[i].text = content[i] /\ i <= Len(content)
  BY <1>2, <1>3, <1>12
<1>13. Overtaken(v6, v4', v7, v2')
  <2> SUFFICES ASSUME v6.step = "writing", ~DecidedOn(v7, PrintOf(Head(v6.found))),
                      NEW old \in v6.known, NEW row \in v4', row.fingerprint = old.fingerprint,
                      old.status = "ACTIVE", row.status = "OBSOLETE"
               PROVE  \E s \in old.sources : \A i \in 1..Len(v2') : v2'[i].id = s.chunk => v2'[i].dirty
    BY DEF Overtaken
  <2>1. CASE row \in v4
    <3>1. PICK s \in old.sources : \A i \in 1..Len(v2) : v2[i].id = s.chunk => v2[i].dirty
      BY <2>1 DEF ReportInv, Overtaken
    <3>2. QED
      BY <1>12, <3>1
  <2>2. ASSUME NEW read \in stale, row.fingerprint = read.fingerprint, read \in v4
        PROVE  \E s \in old.sources : \A i \in 1..Len(v2') : v2'[i].id = s.chunk => v2'[i].dirty
    <3>1. read.sources = old.sources
      <4>1. PICK known : /\ v6.known = {known}
                         /\ \E one \in v4 : one.fingerprint = known.fingerprint /\ one.sources = known.sources
        BY DEF ReportInv, KnownIs
      <4>2. PICK one \in v4 : one.fingerprint = old.fingerprint /\ one.sources = old.sources
        BY <4>1
      <4>3. one = read
        BY <1>8, <2>2, <4>2 DEF AlertsAre
      <4>4. QED
        BY <4>2, <4>3
    <3>2. PICK s \in old.sources, j \in 1..Len(v2) :
            s.chunk = v2[j].id /\ (j > Len(content) \/ v2[j].text # content[j])
      BY <1>4, <2>2, <3>1
    <3>3. ASSUME NEW i \in 1..Len(v2'), v2'[i].id = s.chunk, ~v2'[i].dirty
          PROVE  FALSE
      <4>1. i \in 1..Len(v2) /\ v2'[i] = v2[i] /\ v2[i].text = content[i] /\ i <= Len(content)
        BY <1>12, <3>3
      <4>2. i = j
        BY <1>3, <3>2, <3>3, <4>1, RowsDiffer
      <4>3. QED
        BY <1>2, <1>3, <3>2, <4>1, <4>2
    <3>4. QED
      BY <3>3
  <2>3. QED
    BY <1>10, <2>1, <2>2
<1>14. AllTold(v8, v2', v7, v6, v4')
  <2> SUFFICES ASSUME ~v8, NEW i, MustTell(v2', v7, i)
               PROVE  \/ StillFound(v6, Neighbours(v2', i))
                      \/ \E row \in v4' : Tells(row, Neighbours(v2', i))
    BY DEF AllTold
  <2>1. /\ i \in 1..Len(v2') /\ i + 1 \in 1..Len(v2') /\ ~v2'[i].dirty /\ ~v2'[i + 1].dirty /\ i \in Nat
    BY <1>2 DEF MustTell
  <2>2. /\ i \in 1..Len(v2) /\ v2'[i] = v2[i] /\ v2[i].text = content[i] /\ i <= Len(content)
        /\ i + 1 \in 1..Len(v2) /\ v2'[i + 1] = v2[i + 1] /\ v2[i + 1].text = content[i + 1]
        /\ i + 1 <= Len(content)
    BY <1>12, <2>1
  <2>3. MustTell(v2, v7, i) /\ Neighbours(v2', i) = Neighbours(v2, i)
    BY <1>3, <2>1, <2>2 DEF MustTell, Neighbours
  <2> DEFINE pair == Neighbours(v2, i)
  <2>4. ASSUME NEW row \in v4, Tells(row, pair)
        PROVE  \E after \in v4' : Tells(after, pair)
    <3>1. ASSUME row.sources = PlaceOf(pair), row \in stale PROVE FALSE
      <4>1. PICK s \in row.sources, j \in 1..Len(v2) :
              s.chunk = v2[j].id /\ (j > Len(content) \/ v2[j].text # content[j])
        BY <1>4, <3>1
      <4>2. pair.first = v2[i] /\ pair.second = v2[i + 1]
        BY DEF Neighbours
      <4> HIDE DEF pair
      <4>3. s.chunk \in {v2[i].id, v2[i + 1].id}
        BY <3>1, <4>2, PlaceIs
      <4>4. j = i \/ j = i + 1
        BY <1>3, <2>2, <4>1, <4>3, RowsDiffer
      <4>5. QED
        BY <1>2, <2>2, <4>1, <4>4
    <3> HIDE DEF pair
    <3>2. QED
      BY <1>1, <1>8, <2>4, <3>1, ObsoleteTells
  <2>5. QED
    BY <2>3, <2>4 DEF ReportInv, AllTold
<1>15. LastCurrent(v8, v3', v4', v7, v6, v2')
  BY <1>6 DEF ReportInv, EventsAre, LastCurrent
<1>16. QED
  BY <1>1, <1>2, <1>7, <1>9, <1>11, <1>13, <1>14, <1>15 DEF ReportInv

\* Every step keeps the invariant.
LEMMA ReportStep ==
  ASSUME ReportInv, Alerts!Next \/ UNCHANGED <<v1, v2, v3, v4, v5, v6, v7, v8, v9, v10>>
  PROVE  ReportInv'
<1>1. CASE UNCHANGED <<v1, v2, v3, v4, v5, v6, v7, v8, v9, v10>>
  BY <1>1 DEF ReportInv
<1>2. ASSUME NEW content \in SceneTexts, Alerts!Save(content)
      PROVE  ReportInv'
  BY <1>2, SaveReports
<1>3. ASSUME NEW old \in v4, Alerts!Resolve(old) \/ Alerts!Dismiss(old) \/ Alerts!RestoreAlert(old)
      PROVE  ReportInv'
  BY <1>3, ResolveReports, DismissReports, RestoreReports
<1>4. CASE \/ Alerts!Begin \/ Alerts!LoadChunks \/ Alerts!Fail \/ Alerts!CheckSuppression
           \/ Alerts!FindAlert \/ Alerts!WriteAlert \/ Alerts!Reconcile
  BY <1>4, BeginReports, LoadReports, FailReports, CheckReports, FindReports, WriteReports,
     ReconcileReports
<1>5. QED
  BY <1>1, <1>2, <1>3, <1>4 DEF Alerts!Next

\* Once all is done the invariant is the property.
LEMMA ReportedQuiet ==
  ASSUME ReportInv
  PROVE  Alerts!QuietSceneIsReported
<1> SUFFICES ASSUME Alerts!Quiet PROVE Alerts!QuietSceneIsReported
  BY DEF Alerts!QuietSceneIsReported
<1>1. v6 = Alerts!Idle /\ v3 = <<>> /\ ~v8 /\ \A row \in Alerts!Range(v2) : ~row.dirty
  BY DEF Alerts!Quiet
<1>2. AreChunks(v2) /\ Len(v2) \in Nat /\ DOMAIN v2 = 1..Len(v2)
  BY IsTextOf DEF ReportInv, AreChunks
<1>3. \A i \in 1..Len(v2) : ~v2[i].dirty
  BY <1>1, <1>2 DEF Alerts!Range
<1>4. ASSUME NEW i \in 1..(Len(v2) - 1), Alerts!Contradict(v2[i], v2[i + 1])
      PROVE  LET print == Alerts!Fingerprint(v2[i], v2[i + 1]) IN
             \/ Alerts!Pattern(print) \in {d.pattern : d \in v7}
             \/ \E row \in v4 : row.fingerprint = print /\ (row.status # "OBSOLETE" \/ Alerts!Scattered(row))
  <2>1. PrintOf(Neighbours(v2, i)) = Alerts!Fingerprint(v2[i], v2[i + 1])
    BY DEF PrintOf, Neighbours
  <2>2. CASE DecidedOn(v7, PrintOf(Neighbours(v2, i)))
    BY <2>1, <2>2 DEF DecidedOn
  <2>3. CASE ~DecidedOn(v7, PrintOf(Neighbours(v2, i)))
    <3>1. i \in 1..Len(v2) /\ i + 1 \in 1..Len(v2)
      BY <1>2
    <3>2. MustTell(v2, v7, i)
      BY <1>3, <1>4, <2>3, <3>1 DEF MustTell
    <3>3. ~StillFound(v6, Neighbours(v2, i))
      BY <1>1, IdleIs DEF StillFound
    <3>4. PICK row \in v4 : Tells(row, Neighbours(v2, i))
      BY <1>1, <3>2, <3>3 DEF ReportInv, AllTold
    <3>5. QED
      BY <2>1, <3>4 DEF Tells
  <2>4. QED
    BY <2>2, <2>3
<1>5. ASSUME NEW row \in v4, row.status = "ACTIVE", ~Alerts!Scattered(row),
             Alerts!Pattern(row.fingerprint) \notin Alerts!Decided("ACTIVE"), NEW s \in row.sources
      PROVE  Alerts!IsCurrent(s)
  <2>1. ~Restored(v7, row.fingerprint)
    BY <1>5 DEF Restored, Alerts!Decided
  <2>2. Len(v3) = 0
    BY <1>1
  <2>3. AllCurrent(v4, v7, v6, v2)
    BY <1>1, <2>2 DEF ReportInv, LastCurrent
  <2>4. IsQuoted(s, v2)
    BY <1>5, <2>1, <2>3 DEF AllCurrent
  <2>5. QED
    BY <1>2, <2>4, CurrentIs
<1>6. QED
  BY <1>4, <1>5 DEF Alerts!QuietSceneIsReported

\* Once every event is done, two neighbouring chunks of a scene that contradict each
\* other have an alert that was not made obsolete, unless the author decided about them,
\* and what is active quotes current text (cross-chunk-audit.service.ts, createAlert;
\* entity-extraction-pipeline.service.ts, processSceneChanged).
THEOREM SceneIsReported == AuditsSpec => []QuietSceneIsReported
<1> DEFINE Inv == part = "alerts" => ReportInv
<1>1. AuditsInit => Inv
  BY PartInits, ReportInit
<1>2. Inv /\ [AuditsNext]_auditVars => Inv'
  BY PartSteps, ReportStep
<1>3. Inv => QuietSceneIsReported
  BY ReportedQuiet DEF QuietSceneIsReported
<1> QED
  BY <1>1, <1>2, <1>3, PTL DEF AuditsSpec
=============================================================================
