----------------------------- MODULE SceneAnalysis -----------------------------
(***************************************************************************)
(* One scene: the author who writes it and the workers that analyse it.    *)
(* Saving a scene rewrites its chunk rows, marks the changed ones dirty    *)
(* and writes an outbox event; a worker that runs the event reads the      *)
(* chunks once, calls the model for each dirty one, stores what it found   *)
(* with the chunk's id and hash as evidence, and clears the dirty flag.    *)
(*                                                                         *)
(* Saves are transactions; a run is not, so the author writes between any  *)
(* two of its steps.  A content is the sequence of the texts planSceneChunks *)
(* cuts it into; a hash is the text it stands for.                         *)
(***************************************************************************)
EXTENDS Naturals, Sequences

CONSTANTS Texts,       \* chunk texts
          Contents,    \* contents the scene may hold: sequences of chunk texts
          Workers,     \* BullMQ workers
          Kinds,       \* kinds of evidence an extraction stores
          Attempts,    \* JOB_ATTEMPTS
          MaxEvents,   \* bound: outbox events written
          MaxSaves,    \* bound: saves and restores
          FaultBudget, \* bound: crashes, lost locks, redeliveries
          NoWorker

ASSUME ContentsAssumption == Contents \subseteq Seq(Texts) /\ Contents # {}
ASSUME KindsAssumption == Kinds \subseteq {"alert", "state", "entity", "relationship"}
ASSUME BoundsAssumption == /\ Attempts \in Nat \ {0}
                           /\ MaxEvents \in Nat
                           /\ MaxSaves \in Nat
                           /\ FaultBudget \in Nat
ASSUME NoWorkerAssumption == NoWorker \notin Workers

VARIABLES
  content,    \* the scene's content
  live,       \* deletedAt is null
  auto,       \* the author's autoAnalyzeOnAutosave
  rows,       \* the scene's chunk rows, by chunkIndex
  ids,        \* chunk ids given out so far
  events,     \* the scene's scene_changed events, in createdAt order
  worker,     \* what each worker is doing
  evidence,   \* pending proposals and active alerts, with the chunk they quote
  approved,   \* relationship proposals approved by the automation
  saves,      \* saves and restores so far
  faults,     \* faults so far
  overlapped, \* history: the text changed while a run was going on
  optedOut    \* history: the author saved while automatic analysis was off

vars == <<content, live, auto, rows, ids, events, worker, evidence, approved,
          saves, faults, overlapped, optedOut>>
authorVars == <<content, live, auto, saves, overlapped, optedOut>>

NoChunk == 0
Ids == 1..ids
EventIds == DOMAIN events

\* A row is a chunk; `owed' (history) says that its text was written by a save
\* and has not been extracted since.
Current(id, text) == \E k \in DOMAIN rows : rows[k].id = id /\ rows[k].text = text
Exists(id) == \E k \in DOMAIN rows : rows[k].id = id

Phases == {"idle", "read", "prune", "chunk", "clear", "review", "approve", "mark"}
Idle == [pc |-> "idle", event |-> 0, hasText |-> FALSE, seen |-> {}, todo |-> {},
         eligible |-> {}, quiet |-> FALSE]

JobStates == {"waiting", "active", "retry", "failed", "gone"}
Fact == [kind : Kinds, chunk : Nat, text : Texts]
Event == [hash : Contents, done : BOOLEAN, job : JobStates,
          status : {"QUEUED", "RUNNING", "SUCCEEDED", "FAILED"},
          tries : 0..Attempts, holder : Workers \cup {NoWorker}]
Row == [id : Ids, text : Texts, dirty : BOOLEAN, owed : BOOLEAN]
Copies == [id : Ids, text : Texts]
Run == [pc : Phases, event : {0} \cup EventIds, hasText : BOOLEAN, seen : SUBSET Copies,
        todo : SUBSET Copies, eligible : SUBSET Fact, quiet : BOOLEAN]

TypeOK ==
  /\ content \in Contents
  /\ live \in BOOLEAN /\ auto \in BOOLEAN
  /\ overlapped \in BOOLEAN /\ optedOut \in BOOLEAN
  /\ ids \in Nat /\ saves \in 0..MaxSaves /\ faults \in 0..FaultBudget
  /\ rows \in Seq(Row)
  /\ events \in Seq(Event)
  /\ worker \in [Workers -> Run]
  /\ evidence \subseteq Fact /\ approved \subseteq Fact

\* createForUser: the rows of a new scene are clean and nothing is queued.
Init ==
  /\ content \in Contents
  /\ live = TRUE /\ auto \in BOOLEAN
  /\ rows = [k \in DOMAIN content |->
               [id |-> k, text |-> content[k], dirty |-> FALSE, owed |-> FALSE]]
  /\ ids = Len(content)
  /\ events = <<>>
  /\ worker = [w \in Workers |-> Idle]
  /\ evidence = {} /\ approved = {}
  /\ saves = 0 /\ faults = 0
  /\ overlapped = FALSE /\ optedOut = FALSE

-----------------------------------------------------------------------------
(* The author.                                                             *)

\* syncSceneChunks: a row whose text is unchanged is left alone, a changed or
\* new one is dirty, and rows beyond the new text are deleted.
SyncedRows(c) ==
  [k \in DOMAIN c |->
     IF k \notin DOMAIN rows
     THEN [id |-> ids + k - Len(rows), text |-> c[k], dirty |-> TRUE, owed |-> TRUE]
     ELSE IF rows[k].text = c[k] THEN rows[k]
     ELSE [rows[k] EXCEPT !.text = c[k], !.dirty = TRUE, !.owed = TRUE]]

\* Mutant of Rewritten: deleted chunks are forgotten.
RewrittenInPlace(c) == {rows[k].id : k \in {k \in DOMAIN rows \cap DOMAIN c : rows[k].text # c[k]}}

Rewritten(c) == {rows[k].id : k \in {k \in DOMAIN rows : k \notin DOMAIN c \/ rows[k].text # c[k]}}
Removed(c) == {rows[k].id : k \in {k \in DOMAIN rows : k \notin DOMAIN c}}

\* obsoleteAlertsForChangedChunks drops the alerts of changed chunks; deleting
\* a chunk sets the foreign key of its proposals to NULL (an entity proposal
\* keeps the id in its data).
SyncedEvidence(c) ==
  LET Detach(f) == IF f.kind \in {"state", "relationship"} /\ f.chunk \in Removed(c)
                   THEN [f EXCEPT !.chunk = NoChunk] ELSE f
  IN  {Detach(f) : f \in {f \in evidence : f.kind = "alert" => f.chunk \notin Rewritten(c)}}

Sync(c) ==
  /\ rows' = SyncedRows(c)
  /\ ids' = ids + (IF Len(c) > Len(rows) THEN Len(c) - Len(rows) ELSE 0)
  /\ evidence' = SyncedEvidence(c)

Pending == {i \in EventIds : ~events[i].done}
\* Mutant of LatestPendingMatches: any unprocessed event will do.
SomethingPending(h) == Pending # {}

LatestPendingMatches(h) ==
  \E i \in Pending : (\A j \in Pending : j <= i) /\ events[i].hash = h

NewEvent(h) == [hash |-> h, done |-> FALSE, job |-> "waiting", status |-> "QUEUED",
                tries |-> 0, holder |-> NoWorker]

CreateEvent(h) == Len(events) < MaxEvents /\ events' = Append(events, NewEvent(h))

\* enqueueSceneChanged: the newest unprocessed event is enough if it is for
\* the same hash.
EnqueueSceneChanged(h) ==
  IF LatestPendingMatches(h) THEN UNCHANGED events ELSE CreateEvent(h)

\* History: whoever is running shares the scene with someone else from now on.
Disturbed == [w \in Workers |-> [worker[w] EXCEPT !.quiet = FALSE]]
Analysing == \E w \in Workers : worker[w].pc # "idle"

Rewrite(c) ==
  /\ live
  /\ saves < MaxSaves
  /\ saves' = saves + 1
  /\ content' = c
  /\ Sync(c)
  /\ overlapped' = (overlapped \/ Analysing)
  /\ worker' = Disturbed
  /\ UNCHANGED <<live, auto, approved, faults>>

\* updateContentForUser: nothing happens when the hash is the stored one.
Save(c) ==
  /\ c # content
  /\ Rewrite(c)
  /\ IF auto THEN EnqueueSceneChanged(c) ELSE UNCHANGED events
  /\ optedOut' = (optedOut \/ ~auto)

\* restoreVersionForUser compares no hash and always writes an event.
Restore(c) ==
  /\ Rewrite(c)
  /\ CreateEvent(c)
  /\ UNCHANGED optedOut

\* hasStaleKnowledgeEvidence looks at entity and relationship proposals.
StaleKnowledge ==
  \E f \in evidence :
    \/ f.kind = "entity" /\ ~Current(f.chunk, f.text)
    \/ /\ f.kind = "relationship"
       /\ IF f.chunk = NoChunk THEN \A k \in DOMAIN rows : rows[k].text # f.text
                               ELSE ~Current(f.chunk, f.text)

AnythingDirty == \E k \in DOMAIN rows : rows[k].dirty

\* requestAnalysisForUser, when it answers neither ALREADY_QUEUED nor NO_CHANGES.
RequestAnalysis ==
  /\ live
  /\ ~LatestPendingMatches(content)
  /\ AnythingDirty \/ StaleKnowledge
  /\ EnqueueSceneChanged(content)
  /\ UNCHANGED <<authorVars, rows, ids, worker, evidence, approved, faults>>

ToggleAutoAnalysis ==
  /\ auto' = ~auto
  /\ UNCHANGED <<content, live, saves, overlapped, optedOut, rows, ids, events,
                 worker, evidence, approved, faults>>

SoftDelete ==
  /\ live
  /\ live' = FALSE
  /\ UNCHANGED <<content, auto, saves, overlapped, optedOut, rows, ids, events,
                 worker, evidence, approved, faults>>

-----------------------------------------------------------------------------
(* The worker.  The queue is the one of AnalysisDispatch, seen from one    *)
(* scene: jobs start in the order of their events, except those that are   *)
(* waiting out a backoff or were taken from a stalled worker.              *)

Doing(w) == worker[w].event
\* The dirty chunks are extracted in the order of the text, in which ids were given.
First(todo) == CHOOSE s \in todo : \A t \in todo : s.id <= t.id
Chunk(w) == First(worker[w].todo)
HoldsLock(w) == events[Doing(w)].holder = w
At(w, phase) == worker[w].pc = phase
GoTo(w, phase) == worker' = [worker EXCEPT ![w].pc = phase]
Release(w) == worker' = [worker EXCEPT ![w] = Idle]

Ready(i) == \/ events[i].job = "retry"
            \/ /\ events[i].job = "waiting"
               /\ \A j \in EventIds : j < i => events[j].job # "waiting"

\* The event becomes RUNNING and the scene is read: its text, or nothing when
\* it has been deleted.
Take(w, i) ==
  /\ At(w, "idle")
  /\ Ready(i)
  /\ events' = [events EXCEPT ![i].job = "active", ![i].holder = w, ![i].status = "RUNNING"]
  /\ worker' = [Disturbed EXCEPT ![w] =
                  [Idle EXCEPT !.pc = IF live THEN "read" ELSE "mark",
                               !.event = i,
                               !.hasText = (content # <<>>),
                               !.quiet = \A v \in Workers : v # w => At(v, "idle")]]
  /\ UNCHANGED <<authorVars, rows, ids, evidence, approved, faults>>

Copy(k) == [id |-> rows[k].id, text |-> rows[k].text]
DirtyRows == {k \in DOMAIN rows : rows[k].dirty}

\* Mutant of ReadChunks: the flags are cleared when the chunks are read.
ReadAndClearChunks(w) ==
  /\ At(w, "read")
  /\ worker' = [worker EXCEPT ![w].pc = "prune",
                              ![w].seen = {Copy(k) : k \in DOMAIN rows},
                              ![w].todo = {Copy(k) : k \in DirtyRows}]
  /\ rows' = [k \in DOMAIN rows |-> [rows[k] EXCEPT !.dirty = FALSE]]
  /\ UNCHANGED <<authorVars, ids, events, evidence, approved, faults>>

\* The chunks are read once, in a query of their own.
ReadChunks(w) ==
  /\ At(w, "read")
  /\ worker' = [worker EXCEPT ![w].pc = "prune",
                              ![w].seen = {Copy(k) : k \in DOMAIN rows},
                              ![w].todo = {Copy(k) : k \in DirtyRows}]
  /\ UNCHANGED <<authorVars, rows, ids, events, evidence, approved, faults>>

\* Mutant of Supported: a relationship whose chunk was deleted is kept.
SupportedById(f, seen) ==
  f.chunk # NoChunk => [id |-> f.chunk, text |-> f.text] \in seen

\* What the chunks a run has read still support.  A relationship whose chunk was
\* deleted is looked up by its hash, a state proposal in that case is not looked
\* up at all.
Supported(f, seen) ==
  CASE f.chunk # NoChunk -> [id |-> f.chunk, text |-> f.text] \in seen
    [] f.chunk = NoChunk /\ f.kind = "relationship" -> \E s \in seen : s.text = f.text
    [] OTHER -> TRUE

NextChunk(w, todo) ==
  IF todo # {} THEN IF worker[w].hasText THEN "chunk" ELSE "clear" ELSE "review"

\* Alerts and proposals without support become OBSOLETE.  Without chunks, or
\* without a dirty one, the run ends here.
Prune(w) ==
  /\ At(w, "prune")
  /\ evidence' = {f \in evidence : Supported(f, worker[w].seen)}
  /\ GoTo(w, IF worker[w].todo = {} THEN "mark" ELSE NextChunk(w, worker[w].todo))
  /\ UNCHANGED <<authorVars, rows, ids, events, approved, faults>>

Found(w, kinds) == [kind : kinds, chunk : {Chunk(w).id}, text : {Chunk(w).text}]

\* processDirtyChunk: the model is called with the text that was read, and what
\* it finds is stored with that chunk's id and hash.
Extract(w) ==
  /\ At(w, "chunk")
  /\ Exists(Chunk(w).id)
  /\ evidence' = evidence \cup Found(w, Kinds)
  /\ rows' = [k \in DOMAIN rows |->
                [rows[k] EXCEPT !.owed = @ /\ Copy(k) # Chunk(w)]]
  /\ GoTo(w, "clear")
  /\ UNCHANGED <<authorVars, ids, events, approved, faults>>

\* clearChunkDirtyFlag updates the row by its id, whatever its text is by now.
ClearDirty(w) ==
  /\ At(w, "clear")
  /\ Exists(Chunk(w).id)
  /\ rows' = [k \in DOMAIN rows |-> [rows[k] EXCEPT !.dirty = @ /\ rows[k].id # Chunk(w).id]]
  /\ LET rest == worker[w].todo \ {Chunk(w)} IN
     worker' = [worker EXCEPT ![w].todo = rest, ![w].pc = NextChunk(w, rest)]
  /\ UNCHANGED <<authorVars, ids, events, evidence, approved, faults>>

\* reviewScene: relationship proposals whose chunk is clean and unchanged.
Fresh(f) == \E k \in DOMAIN rows : /\ rows[k].id = f.chunk
                                   /\ rows[k].text = f.text
                                   /\ ~rows[k].dirty

Review(w) ==
  /\ At(w, "review")
  /\ LET found == {f \in evidence : f.kind = "relationship" /\ Fresh(f)} IN
     worker' = [worker EXCEPT ![w].pc = IF live /\ found # {} THEN "approve" ELSE "mark",
                              ![w].eligible = IF live THEN found ELSE {}]
  /\ UNCHANGED <<authorVars, rows, ids, events, evidence, approved, faults>>

\* acceptProposal finds the proposal by its id and status; deleting its chunk in
\* the meantime detached it.
Approve(w, f) ==
  /\ At(w, "approve")
  /\ f \in worker[w].eligible
  /\ LET g == IF f \in evidence THEN f ELSE [f EXCEPT !.chunk = NoChunk] IN
     /\ g \in evidence
     /\ evidence' = evidence \ {g}
     /\ approved' = approved \cup {g}
  /\ worker' = [worker EXCEPT ![w].eligible = @ \ {f},
                              ![w].pc = IF worker[w].eligible = {f} THEN "mark" ELSE @]
  /\ UNCHANGED <<authorVars, rows, ids, events, faults>>

\* markProcessed, and the job completes if the worker still holds its lock.
MarkProcessed(w) ==
  /\ At(w, "mark")
  /\ LET i == Doing(w)
         e == [events[i] EXCEPT !.done = TRUE, !.status = "SUCCEEDED"] IN
     events' = [events EXCEPT ![i] =
                  IF HoldsLock(w) THEN [e EXCEPT !.job = "gone", !.holder = NoWorker] ELSE e]
  /\ Release(w)
  /\ UNCHANGED <<authorVars, rows, ids, evidence, approved, faults>>

\* What processDirtyChunk may have stored when it throws: alerts, state changes,
\* entities and relationships are written in this order, each by itself, and only
\* alerts, which have no foreign key, for a chunk that was deleted under the run.
StoredKinds(w) ==
  {{}, {"alert"}} \cup (IF Exists(Chunk(w).id)
                       THEN {{"alert", "state"}, {"alert", "state", "entity"}, Kinds} ELSE {})

\* Any step of a run may throw: the job is retried until its attempts are used up.
Throw(w) ==
  /\ ~At(w, "idle")
  /\ LET i == Doing(w)
         last == events[i].tries + 1 >= Attempts IN
     events' = IF HoldsLock(w)
               THEN [events EXCEPT ![i].tries = @ + 1, ![i].holder = NoWorker,
                                   ![i].job = IF last THEN "failed" ELSE "retry"]
               ELSE events
  /\ IF At(w, "chunk")
     THEN \E stored \in StoredKinds(w) : evidence' = evidence \cup Found(w, stored \cap Kinds)
     ELSE UNCHANGED evidence
  /\ Release(w)
  /\ UNCHANGED <<authorVars, rows, ids, approved, faults>>

\* handleFailedOutboxTransaction: the event is claimed while processedAt is null
\* and every chunk of the scene becomes dirty again.
FinalizeFailed(i) ==
  /\ events[i].job = "failed"
  /\ ~events[i].done
  /\ events' = [events EXCEPT ![i].done = TRUE, ![i].status = "FAILED"]
  /\ rows' = [k \in DOMAIN rows |-> [rows[k] EXCEPT !.dirty = TRUE]]
  /\ worker' = Disturbed
  /\ UNCHANGED <<authorVars, ids, evidence, approved, faults>>

-----------------------------------------------------------------------------
(* Faults of the worker and of the queue, as in AnalysisDispatch.          *)

Fault == faults < FaultBudget /\ faults' = faults + 1

Crash(w) ==
  /\ ~At(w, "idle")
  /\ Fault
  /\ events' = IF HoldsLock(w)
               THEN [events EXCEPT ![Doing(w)].job = "retry", ![Doing(w)].holder = NoWorker]
               ELSE events
  /\ Release(w)
  /\ UNCHANGED <<authorVars, rows, ids, evidence, approved>>

\* A worker that lost its lock goes on with its run.
LoseLock(i) ==
  /\ events[i].job = "active"
  /\ Fault
  /\ events' = [events EXCEPT ![i].job = "retry", ![i].holder = NoWorker]
  /\ UNCHANGED <<authorVars, rows, ids, worker, evidence, approved>>

\* A poll pass that read the row before it was processed adds a completed job
\* again; processOutboxEvent does not look at processedAt.
Requeue(i) ==
  /\ events[i].job = "gone"
  /\ Fault
  /\ events' = [events EXCEPT ![i].job = "waiting", ![i].tries = 0]
  /\ UNCHANGED <<authorVars, rows, ids, worker, evidence, approved>>

Next ==
  \/ \E c \in Contents : Save(c)
  \/ \E c \in Contents : Restore(c)
  \/ RequestAnalysis
  \/ ToggleAutoAnalysis
  \/ SoftDelete
  \/ \E w \in Workers, i \in EventIds : Take(w, i)
  \/ \E w \in Workers : ReadChunks(w)
  \/ \E w \in Workers : Prune(w)
  \/ \E w \in Workers : Extract(w)
  \/ \E w \in Workers : ClearDirty(w)
  \/ \E w \in Workers : Review(w)
  \/ \E w \in Workers : \E f \in worker[w].eligible : Approve(w, f)
  \/ \E w \in Workers : MarkProcessed(w)
  \/ \E w \in Workers : Throw(w)
  \/ \E i \in EventIds : FinalizeFailed(i)
  \/ \E w \in Workers : Crash(w)
  \/ \E i \in EventIds : LoseLock(i)
  \/ \E i \in EventIds : Requeue(i)

Spec == Init /\ [][Next]_vars

-----------------------------------------------------------------------------
(* Properties.                                                             *)

\* As long as no save fell into a run, a text an author wrote stays dirty
\* until it has been extracted: retries, exhausted attempts, crashes, lost locks
\* and redeliveries never lose one.
OnlyOverlapLosesText ==
  ~overlapped => \A k \in DOMAIN rows : rows[k].owed => rows[k].dirty

\* Under the same condition an active alert always quotes the text its chunk has
\* now, before any new analysis: saving drops the alerts of the chunks it changes
\* or deletes (obsoleteAlertsForChangedChunks).
AlertsQuoteCurrentText ==
  ~overlapped => \A f \in evidence : f.kind = "alert" => Current(f.chunk, f.text)

\* With automatic analysis always on, no fault and no failed attempt, a dirty
\* chunk of a live scene has an unprocessed event, although an event with the
\* current hash stops another from being written.
DirtyIsQueued ==
  (live /\ ~optedOut /\ faults = 0 /\ (\A i \in EventIds : events[i].tries = 0) /\ AnythingDirty)
     => Pending # {}

\* Evidence that quotes what its chunk says now.  The state proposals of a deleted
\* chunk are an exception: obsoleteProposalsWithoutCurrentChunkSupport skips them
\* (temporal-state.service.ts:757).
InForce(f) == \/ f.chunk = NoChunk /\ f.kind = "state"
              \/ f.chunk = NoChunk /\ \E k \in DOMAIN rows : rows[k].text = f.text
              \/ Current(f.chunk, f.text)

Finishes(w) == /\ At(w, "mark")
               /\ worker'[w] = Idle
               /\ events'[Doing(w)].done
               /\ events'[Doing(w)].tries = events[Doing(w)].tries
               /\ faults' = faults

Settles(w) == Finishes(w) /\ live => ~AnythingDirty /\ \A f \in evidence : InForce(f)

\* The freshness the review looked at is not looked at again by acceptProposal.
ApprovesFresh(w) == At(w, "approve") => \A f \in approved' \ approved : Fresh(f)

\* A run that had the scene to itself and succeeds leaves it settled, whatever
\* happened before: no dirty chunk, no pending evidence that quotes a text the
\* scene no longer has, and no relationship approved on such evidence.
QuietRunSettles ==
  [][\A w \in Workers : worker[w].quiet => Settles(w) /\ ApprovesFresh(w)]_vars

LastFailed == events # <<>> /\ events[Len(events)].status = "FAILED"

\* When the last event of the scene failed for good, however far its attempts
\* got, the author can ask again and will not be told that nothing changed.  An
\* older event that is retried later than the last one may clear the flags, and
\* so may a worker that lost its lock: both are excluded.
FailureCanBeRetried ==
  (/\ live /\ faults = 0 /\ rows # <<>> /\ LastFailed
   /\ \A i \in EventIds \ {Len(events)} : events[i].tries = 0)
     => AnythingDirty

\* The author's text is never forgotten: what is dirty is queued, or the author
\* can queue it.
WorkIsNotForgotten == TypeOK /\ DirtyIsQueued /\ FailureCanBeRetried

\* "ignores clean chunks and clears blank dirty chunks without sending them to
\* extraction" (entity-extraction-pipeline.service.spec.ts:581): only a blank
\* chunk loses its flag without an extraction of its text.
ClearedMeansExtracted == \A k \in DOMAIN rows : rows[k].owed => rows[k].dirty
=============================================================================
