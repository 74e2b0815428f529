------------------------- MODULE SceneAnalysis_proofs -------------------------
(***************************************************************************)
(* What an analysis does to the text of its author, for any number of      *)
(* workers, chunks, events and saves.                                      *)
(*                                                                         *)
(* Three facts carry the proof.  While no save falls into a run, every     *)
(* run sees the rows as they are (CurrentRun).  A run that has the scene   *)
(* to itself has only evidence in force behind it and every dirty row      *)
(* before it (QuietRun).  And with one worker, events are taken in their   *)
(* order, so that the last of them is for what the scene says (WorkInv).   *)
(***************************************************************************)
EXTENDS SceneAnalysis, SequenceTheorems, WellFoundedInduction, TLAPS

\* The rows are the chunks of the content, and an id is given once.
RowsInv ==
  /\ DOMAIN rows = DOMAIN content
  /\ \A k \in DOMAIN rows : rows[k].text = content[k]
  /\ \A j, k \in DOMAIN rows : j # k => rows[j].id # rows[k].id

\* Only state changes and relationships outlive the chunk they quote.
EvidenceInv == \A f \in evidence : f.chunk = NoChunk => f.kind \in {"state", "relationship"}

\* A job is held while it is active, and has an attempt left until it fails for good.
EventOK(e) == /\ e.holder # NoWorker => e.job = "active"
              /\ e.job # "failed" => e.tries < Attempts

EventInv == \A i \in EventIds : EventOK(events[i])

\* What a run has read, and what it has still to do.
RunOK(w) ==
  /\ worker[w].todo \subseteq worker[w].seen
  /\ At(w, "idle") => worker[w].seen = {} /\ ~worker[w].quiet
  /\ At(w, "chunk") \/ At(w, "clear") => worker[w].todo # {}

\* The worker has seen the rows as they are.
SeesRows(w) == \A s \in worker[w].seen : Current(s.id, s.text)

\* A run into which no save fell sees the scene as it is, and clears what it extracted.
CurrentRun(w) ==
  /\ ~At(w, "idle") => worker[w].hasText = (content # <<>>)
  /\ SeesRows(w)
  /\ At(w, "clear") => \A k \in DOMAIN rows : rows[k].id = Chunk(w).id => ~rows[k].owed

OwedIsDirty == \A k \in DOMAIN rows : rows[k].owed => rows[k].dirty
AlertsAreCurrent == \A f \in evidence : f.kind = "alert" => Current(f.chunk, f.text)

\* The dirty rows are what the worker has still to do; past its last chunk there are none.
Covers(w) ==
  /\ ~At(w, "read") => \A k \in DirtyRows : \E s \in worker[w].todo : s.id = rows[k].id
  /\ worker[w].pc \in {"review", "approve", "mark"} => DirtyRows = {}

Pruned == {"chunk", "clear", "review", "approve", "mark"}

\* A run that has a live scene to itself.
QuietRun(w) ==
  /\ live => Covers(w)
  /\ live /\ ~At(w, "read") => SeesRows(w)
  /\ live /\ worker[w].pc \in Pruned => \A f \in evidence : InForce(f)
  /\ At(w, "approve") => \A f \in worker[w].eligible : f \in evidence /\ Fresh(f)

Alone(w) == \A v \in Workers \ {w} : At(v, "idle")

CurrentInv == ~overlapped => OwedIsDirty /\ AlertsAreCurrent /\ \A w \in Workers : CurrentRun(w)
QuietInv == \A w \in Workers : worker[w].quiet => Alone(w) /\ QuietRun(w)

IInv ==
  /\ TypeOK /\ RowsInv /\ EvidenceInv /\ EventInv
  /\ \A w \in Workers : RunOK(w)
  /\ CurrentInv /\ QuietInv
-----------------------------------------------------------------------------
(* One worker: the events are handled in their order *)

\* No fault, and only the last event may have failed attempts.
Orderly == faults = 0 /\ \A i \in EventIds \ {Len(events)} : events[i].tries = 0
Undisturbed == faults = 0 /\ \A i \in EventIds : events[i].tries = 0

Runs(w, i) == ~At(w, "idle") /\ Doing(w) = i /\ events[i].holder = w

\* An event is processed once its job is over, and is retried after a failed attempt.
Handled(e) == \/ e.job = "gone"
              \/ e.job = "failed" /\ e.status = "FAILED"
JobOK(e) == /\ e.done <=> Handled(e)
            /\ e.status = "FAILED" => e.job = "failed"
            /\ e.job \in {"retry", "failed"} => e.tries # 0

\* Events are taken one after the other, each when those before it are done.
QueueInv ==
  /\ \A i \in EventIds :
       /\ JobOK(events[i])
       /\ events[i].job = "active" => \E w \in Workers : Runs(w, i)
       /\ events[i].job # "waiting" => \A j \in EventIds : j < i => events[j].job = "gone"
  /\ \A w \in Workers : ~At(w, "idle") => Doing(w) # 0 /\ events[Doing(w)].job = "active"

\* The last event is for what the scene says, and a run of it leaves nothing to do.
LastEventInv ==
  /\ events # <<>> => events[Len(events)].hash = content
  /\ live => /\ DirtyRows # {} => Pending # {}
             /\ \A w \in Workers : ~At(w, "idle") /\ Doing(w) = Len(events) => Covers(w)

\* Once the last event has failed for good, every row is dirty.
FailureInv == LastFailed => DirtyRows = DOMAIN rows

WorkInv ==
  /\ Orderly => QueueInv /\ FailureInv
  /\ Undisturbed /\ ~optedOut => LastEventInv
-----------------------------------------------------------------------------
(* The operators *)

LEMMA LeastId ==
  ASSUME NEW S, S # {}, \A s \in S : s.id \in Nat
  PROVE  \E s \in S : \A t \in S : s.id <= t.id
<1> DEFINE T == {s.id : s \in S}
<1>1. T \in SUBSET Nat /\ T # {}
  OBVIOUS
<1>2. \E n \in T : \A m \in T : ~(<<m, n>> \in OpToRel(<, Nat))
  BY <1>1, NatLessThanWellFounded, WFMin
<1>3. \A m, n \in Nat : m < n => <<m, n>> \in OpToRel(<, Nat)
  <2> SUFFICES ASSUME NEW m \in Nat, NEW n \in Nat, m < n
               PROVE  <<m, n>> \in {ss \in Nat \X Nat : ss[1] < ss[2]}
    BY DEF OpToRel
  <2> QED
    OBVIOUS
<1>4. \A m, n \in Nat : ~(m < n) => n <= m
  OBVIOUS
<1>5. PICK n \in T : \A m \in T : n <= m
  BY <1>1, <1>2, <1>3, <1>4
<1> QED
  BY <1>5

\* The chunk a run works on is one it has still to do.
LEMMA FirstIsIn ==
  ASSUME NEW S, S # {}, \A s \in S : s.id \in Nat
  PROVE  First(S) \in S
BY LeastId DEF First

LEMMA SeqByElements ==
  ASSUME NEW n \in Nat, NEW S, NEW s, s = [k \in 1..n |-> s[k]], \A k \in 1..n : s[k] \in S
  PROVE  s \in Seq(S)
OBVIOUS

\* The rows keep their ids and texts: all that evidence is about.
SameTexts ==
  /\ DOMAIN rows' = DOMAIN rows
  /\ \A k \in DOMAIN rows : rows'[k].id = rows[k].id /\ rows'[k].text = rows[k].text

LEMMA CurrentKept ==
  ASSUME SameTexts, NEW id, NEW text
  PROVE  Current(id, text)' <=> Current(id, text)
BY DEF SameTexts, Current

LEMMA InForceKept ==
  ASSUME SameTexts, NEW f
  PROVE  InForce(f)' <=> InForce(f)
<1>1. Current(f.chunk, f.text)' <=> Current(f.chunk, f.text)
  BY CurrentKept
<1>2. (\E k \in DOMAIN rows : rows[k].text = f.text)' <=> \E k \in DOMAIN rows : rows[k].text = f.text
  BY DEF SameTexts
<1> QED
  BY <1>1, <1>2 DEF InForce

LEMMA RowsKept ==
  ASSUME RowsInv, SameTexts, content' = content
  PROVE  RowsInv'
BY DEF RowsInv, SameTexts

\* Who the invariant is about.
LEMMA RunType ==
  ASSUME TypeOK, NEW w \in Workers
  PROVE  /\ worker[w] \in Run
         /\ worker[w].pc \in Phases /\ worker[w].event \in {0} \cup EventIds
         /\ worker[w].hasText \in BOOLEAN /\ worker[w].quiet \in BOOLEAN
         /\ worker[w].seen \subseteq Copies /\ worker[w].todo \subseteq Copies
         /\ worker[w].eligible \subseteq Fact
<1>1. worker[w] \in Run
  BY DEF TypeOK
<1> QED
  BY <1>1 DEF Run

LEMMA RowType ==
  ASSUME TypeOK, NEW k \in DOMAIN rows
  PROVE  /\ rows[k] \in Row
         /\ rows[k].id \in Ids /\ rows[k].text \in Texts
         /\ rows[k].dirty \in BOOLEAN /\ rows[k].owed \in BOOLEAN
         /\ Copy(k) \in Copies
<1>1. rows[k] \in Row
  BY DEF TypeOK
<1> QED
  BY <1>1 DEF Row, Copy, Copies

LEMMA EventType ==
  ASSUME TypeOK, NEW i \in EventIds
  PROVE  /\ events[i] \in Event
         /\ events[i].hash \in Contents /\ events[i].done \in BOOLEAN
         /\ events[i].job \in JobStates /\ events[i].tries \in 0..Attempts
         /\ events[i].status \in {"QUEUED", "RUNNING", "SUCCEEDED", "FAILED"}
         /\ events[i].holder \in Workers \cup {NoWorker}
<1>1. events[i] \in Event
  BY DEF TypeOK, EventIds
<1> QED
  BY <1>1 DEF Event

\* A worker that has a chunk to do works on one that it has seen.
LEMMA ChunkIsSeen ==
  ASSUME TypeOK, NEW w \in Workers, RunOK(w), worker[w].todo # {}
  PROVE  /\ Chunk(w) \in worker[w].todo /\ Chunk(w) \in worker[w].seen
         /\ Chunk(w) \in Copies /\ Chunk(w).id \in Ids /\ Chunk(w).text \in Texts
<1>1. worker[w].todo \subseteq Copies
  BY RunType
<1>2. \A s \in worker[w].todo : s.id \in Nat
  BY <1>1 DEF Copies, Ids, TypeOK
<1>3. Chunk(w) \in worker[w].todo
  BY <1>2, FirstIsIn DEF Chunk
<1> QED
  BY <1>1, <1>3 DEF RunOK, Copies

\* Types of later states: ids and events are only added.
LEMMA RunTypeKept ==
  ASSUME TypeOK, ids' \in Nat, ids <= ids', EventIds \subseteq EventIds'
  PROVE  Run \subseteq Run' /\ Copies \subseteq Copies' /\ Ids \subseteq Ids'
<1>1. Ids \subseteq Ids'
  BY DEF Ids, TypeOK
<1>2. Copies \subseteq Copies'
  BY <1>1 DEF Copies
<1> QED
  BY <1>1, <1>2 DEF Run

\* A step that adds events or leaves them alone.
LEMMA EventInvKept ==
  ASSUME EventInv, \A i \in EventIds' : (i \in EventIds /\ events'[i] = events[i]) \/ EventOK(events'[i])
  PROVE  EventInv'
<1> SUFFICES ASSUME NEW i \in EventIds' PROVE EventOK(events'[i])
  BY DEF EventInv, EventOK
<1> QED
  BY DEF EventInv

LEMMA EventsAppended ==
  ASSUME TypeOK, NEW h \in Contents, CreateEvent(h)
  PROVE  /\ events' \in Seq(Event) /\ Len(events') = Len(events) + 1
         /\ EventIds' = EventIds \cup {Len(events) + 1} /\ Len(events) + 1 \notin EventIds
         /\ \A i \in EventIds : events'[i] = events[i]
         /\ events'[Len(events) + 1] = NewEvent(h)
<1>1. NewEvent(h) \in Event
  BY BoundsAssumption DEF NewEvent, Event, JobStates
<1> QED
  BY <1>1 DEF CreateEvent, TypeOK, EventIds

LEMMA EventsEnqueued ==
  ASSUME TypeOK, NEW h \in Contents, EnqueueSceneChanged(h) \/ CreateEvent(h) \/ UNCHANGED events
  PROVE  /\ events' \in Seq(Event) /\ EventIds \subseteq EventIds'
         /\ \A i \in EventIds : events'[i] = events[i]
         /\ EventInv => EventInv'
<1>1. CASE CreateEvent(h)
  <2>1. EventOK(NewEvent(h))
    BY BoundsAssumption DEF EventOK, NewEvent
  <2>2. EventInv => EventInv'
    BY <1>1, <2>1, EventsAppended, EventInvKept
  <2> QED
    BY <1>1, <2>2, EventsAppended
<1>2. CASE UNCHANGED events
  BY <1>2 DEF TypeOK, EventIds, EventInv
<1> QED
  BY <1>1, <1>2 DEF EnqueueSceneChanged

LEMMA EventChanged ==
  ASSUME TypeOK, NEW i \in EventIds, NEW e \in Event, events' = [events EXCEPT ![i] = e]
  PROVE  /\ events' \in Seq(Event) /\ EventIds' = EventIds /\ Len(events') = Len(events)
         /\ events'[i] = e /\ \A j \in EventIds : j # i => events'[j] = events[j]
BY DEF TypeOK, EventIds
-----------------------------------------------------------------------------
LEMMA InitEstablishes == Init => IInv
<1> SUFFICES ASSUME Init PROVE IInv
  OBVIOUS
<1>1. content \in Seq(Texts)
  BY ContentsAssumption DEF Init
<1>2. /\ DOMAIN rows = DOMAIN content /\ ids = Len(content) /\ DOMAIN content = 1..Len(content)
      /\ Len(content) \in Nat
      /\ \A k \in DOMAIN rows : rows[k] = [id |-> k, text |-> content[k], dirty |-> FALSE, owed |-> FALSE]
  BY <1>1 DEF Init
<1>3. rows \in Seq(Row)
  <2>1. ASSUME NEW k \in DOMAIN rows PROVE rows[k] \in Row
    <3>1. k \in Ids /\ content[k] \in Texts
      BY <1>1, <1>2, ElementOfSeq DEF Ids
    <3>2. rows[k] = [id |-> k, text |-> content[k], dirty |-> FALSE, owed |-> FALSE]
      BY <1>2
    <3> QED
      BY ONLY <3>1, <3>2 DEF Row
  <2>2. rows = [k \in 1..Len(content) |-> rows[k]]
    BY <1>2 DEF Init
  <2> QED
    BY <1>2, <2>1, <2>2
<1>4. Idle \in Run
  BY DEF Idle, Run, Phases
<1>5. TypeOK
  <2>1. worker \in [Workers -> Run]
    BY <1>4 DEF Init
  <2>2. events \in Seq(Event) /\ evidence \subseteq Fact /\ approved \subseteq Fact
    BY DEF Init
  <2>3. /\ content \in Contents /\ live \in BOOLEAN /\ auto \in BOOLEAN
        /\ overlapped \in BOOLEAN /\ optedOut \in BOOLEAN
    BY DEF Init
  <2>4. ids \in Nat /\ saves \in 0..MaxSaves /\ faults \in 0..FaultBudget
    BY <1>2, BoundsAssumption DEF Init
  <2> QED
    BY <1>3, <2>1, <2>2, <2>3, <2>4 DEF TypeOK
<1>6. RowsInv
  BY <1>2 DEF RowsInv
<1>7. /\ \A w \in Workers : RunOK(w) /\ CurrentRun(w) /\ ~worker[w].quiet
      /\ EvidenceInv /\ EventInv /\ OwedIsDirty /\ AlertsAreCurrent
  BY <1>2 DEF Init, EventInv, EventIds, RunOK, CurrentRun, SeesRows, At, Idle, EvidenceInv, OwedIsDirty, AlertsAreCurrent
<1> QED
  BY <1>5, <1>6, <1>7 DEF IInv, CurrentInv, QuietInv
-----------------------------------------------------------------------------
(* What a step must respect *)

\* A step that changes neither rows, workers nor evidence.
LEMMA OtherStepKeeps ==
  ASSUME IInv, TypeOK', EventInv', UNCHANGED <<content, rows, worker, evidence, overlapped>>, live' => live
  PROVE  IInv'
<1>1. SameTexts
  BY DEF SameTexts
<1>2. RowsInv' /\ EvidenceInv'
  BY <1>1, RowsKept DEF IInv, EvidenceInv
<1>3. \A w \in Workers : RunOK(w)'
  BY DEF IInv, RunOK, At
<1>4. CurrentInv'
  BY DEF IInv, CurrentInv, OwedIsDirty, AlertsAreCurrent, CurrentRun, SeesRows, Current, At, Chunk
<1>5. QuietInv'
  <2> SUFFICES ASSUME NEW w \in Workers, worker'[w].quiet PROVE Alone(w)' /\ QuietRun(w)'
    BY DEF QuietInv
  <2>1. Alone(w) /\ QuietRun(w)
    BY DEF IInv, QuietInv
  <2>2. Alone(w)'
    BY <2>1 DEF Alone, At
  <2>3. Covers(w) => Covers(w)'
    BY DEF Covers, At, DirtyRows
  <2>4. SeesRows(w) => SeesRows(w)'
    BY DEF SeesRows, Current
  <2>5. \A f \in evidence : InForce(f) => InForce(f)'
    BY <1>1, InForceKept
  <2>6. \A f \in evidence : Fresh(f) => Fresh(f)'
    BY DEF Fresh
  <2> QED
    BY <2>1, <2>2, <2>3, <2>4, <2>5, <2>6 DEF QuietRun, At
<1> QED
  BY <1>2, <1>3, <1>4, <1>5 DEF IInv

\* A step of a run: what it changes of the scene is the flags of rows, and what it stores
\* quotes a chunk it has seen.
LEMMA RunStepKeeps ==
  ASSUME IInv, TypeOK', EventInv', NEW w \in Workers, ~At(w, "idle"),
         NEW run, worker' = [worker EXCEPT ![w] = run],
         UNCHANGED <<content, live, overlapped>>, SameTexts,
         \A k \in DOMAIN rows : rows'[k].owed => rows[k].owed,
         \A f \in evidence' : f \in evidence \/ [id |-> f.chunk, text |-> f.text] \in worker[w].seen,
         RunOK(w)',
         ~overlapped => OwedIsDirty' /\ CurrentRun(w)',
         run.quiet => worker[w].quiet /\ QuietRun(w)'
  PROVE  IInv'
<1>1. worker'[w] = run /\ \A v \in Workers : v # w => worker'[v] = worker[v]
  BY DEF IInv, TypeOK
<1>2. RowsInv'
  BY RowsKept DEF IInv
<1>3. EvidenceInv'
  <2> SUFFICES ASSUME NEW f \in evidence', f.chunk = NoChunk, f \notin evidence PROVE FALSE
    BY DEF IInv, EvidenceInv
  <2>1. [id |-> f.chunk, text |-> f.text] \in Copies
    BY RunType DEF IInv
  <2> QED
    BY <2>1 DEF Copies, Ids, NoChunk
<1>4. \A v \in Workers : RunOK(v)'
  <2> SUFFICES ASSUME NEW v \in Workers, v # w PROVE RunOK(v)'
    OBVIOUS
  <2> QED
    BY <1>1 DEF IInv, RunOK, At
<1>5. CurrentInv'
  <2> SUFFICES ASSUME ~overlapped PROVE AlertsAreCurrent' /\ \A v \in Workers : CurrentRun(v)'
    BY DEF CurrentInv
  <2>1. AlertsAreCurrent /\ \A v \in Workers : CurrentRun(v)
    BY DEF IInv, CurrentInv
  <2>2. AlertsAreCurrent'
    <3> SUFFICES ASSUME NEW f \in evidence', f.kind = "alert" PROVE Current(f.chunk, f.text)'
      BY DEF AlertsAreCurrent
    <3>1. CASE f \in evidence
      BY <2>1, <3>1, CurrentKept DEF AlertsAreCurrent
    <3>2. CASE f \notin evidence
      <4>1. PICK s \in worker[w].seen : s.id = f.chunk /\ s.text = f.text
        BY <3>2
      <4>2. Current(s.id, s.text)
        BY <2>1, <4>1 DEF CurrentRun, SeesRows
      <4> QED
        BY <4>1, <4>2, CurrentKept
    <3> QED
      BY <3>1, <3>2
  <2>3. ASSUME NEW v \in Workers, v # w PROVE CurrentRun(v)'
    <3>1. CurrentRun(v) /\ worker'[v] = worker[v]
      BY <1>1, <2>1, <2>3
    <3>2. SeesRows(v)'
      <4> SUFFICES ASSUME NEW s \in worker[v].seen PROVE Current(s.id, s.text)'
        BY <3>1 DEF SeesRows
      <4> QED
        BY <3>1, CurrentKept DEF CurrentRun, SeesRows
    <3>3. At(v, "clear")' => \A k \in DOMAIN rows' : rows'[k].id = (Chunk(v).id)' => ~rows'[k].owed
      <4>1. Chunk(v)' = Chunk(v)
        BY <3>1 DEF Chunk
      <4>2. At(v, "clear")' => At(v, "clear")
        BY <3>1 DEF At
      <4>3. At(v, "clear") => \A k \in DOMAIN rows : rows[k].id = Chunk(v).id => ~rows[k].owed
        BY <3>1 DEF CurrentRun
      <4> QED
        BY <4>1, <4>2, <4>3 DEF SameTexts
    <3> QED
      BY <3>1, <3>2, <3>3 DEF CurrentRun, At, SameTexts, Chunk
  <2> QED
    BY <2>2, <2>3
<1>6. QuietInv'
  <2> SUFFICES ASSUME NEW v \in Workers, worker'[v].quiet PROVE Alone(v)' /\ QuietRun(v)'
    BY DEF QuietInv
  <2>1. v = w
    BY <1>1 DEF IInv, QuietInv, Alone
  <2>2. Alone(w)
    BY <1>1, <2>1 DEF IInv, QuietInv
  <2> QED
    BY <1>1, <2>1, <2>2 DEF Alone, At
<1> QED
  BY <1>2, <1>3, <1>4, <1>5, <1>6 DEF IInv

\* The end of a run, whatever came of it.
LEMMA ReleaseKeeps ==
  ASSUME IInv, TypeOK', EventInv', NEW w \in Workers, ~At(w, "idle"), Release(w),
         UNCHANGED <<content, live, overlapped, rows>>,
         \A f \in evidence' : f \in evidence \/ [id |-> f.chunk, text |-> f.text] \in worker[w].seen
  PROVE  IInv'
<1>1. worker' = [worker EXCEPT ![w] = Idle] /\ worker'[w] = Idle
  BY DEF Release, IInv, TypeOK
<1>2. SameTexts
  BY DEF SameTexts
<1>3. RunOK(w)'
  BY <1>1 DEF RunOK, At, Idle
<1>4. ~overlapped => OwedIsDirty' /\ CurrentRun(w)'
  BY <1>1 DEF IInv, CurrentInv, OwedIsDirty, CurrentRun, SeesRows, At, Idle
<1>5. ~Idle.quiet
  BY DEF Idle
<1> QED
  BY <1>1, <1>2, <1>3, <1>4, <1>5, RunStepKeeps
-----------------------------------------------------------------------------
(* The author *)

\* What syncSceneChunks makes of the rows.
LEMMA SyncedFacts ==
  ASSUME IInv, NEW c \in Contents, Sync(c)
  PROVE  /\ ids' \in Nat /\ ids <= ids' /\ DOMAIN rows' = DOMAIN c /\ rows' \in Seq(Row)'
         /\ \A k \in DOMAIN c \cap DOMAIN rows :
              /\ rows'[k].id = rows[k].id /\ rows'[k].text = c[k]
              /\ rows[k].text = c[k] => rows'[k] = rows[k]
              /\ rows[k].text # c[k] => rows'[k].dirty
         /\ \A k \in DOMAIN c \ DOMAIN rows :
              rows'[k].id = ids + k - Len(rows) /\ rows'[k].text = c[k] /\ rows'[k].dirty
<1>1. /\ c \in Seq(Texts) /\ DOMAIN c = 1..Len(c) /\ Len(c) \in Nat
      /\ rows \in Seq(Row) /\ DOMAIN rows = 1..Len(rows) /\ Len(rows) \in Nat /\ ids \in Nat
  BY ContentsAssumption DEF IInv, TypeOK
<1>2. ids' \in Nat /\ ids <= ids' /\ (Len(c) > Len(rows) => ids' = ids + Len(c) - Len(rows))
  BY <1>1 DEF Sync
<1>3. DOMAIN rows' = DOMAIN c
  BY DEF Sync, SyncedRows
<1>4. ASSUME NEW k \in DOMAIN c, k \in DOMAIN rows
      PROVE  /\ rows'[k].id = rows[k].id /\ rows'[k].text = c[k] /\ rows'[k] \in Row'
             /\ rows[k].text = c[k] => rows'[k] = rows[k]
             /\ rows[k].text # c[k] => rows'[k].dirty
  <2>1. rows[k] \in Row /\ c[k] \in Texts
    BY <1>1, <1>4, ElementOfSeq
  <2>2. Row \subseteq Row'
    BY <1>1, <1>2 DEF Row, Ids
  <2>3. CASE rows[k].text = c[k]
    <3>1. rows'[k] = rows[k]
      BY <1>4, <2>3 DEF Sync, SyncedRows
    <3> QED
      BY <2>1, <2>2, <2>3, <3>1
  <2>4. CASE rows[k].text # c[k]
    <3>1. rows'[k] = [rows[k] EXCEPT !.text = c[k], !.dirty = TRUE, !.owed = TRUE]
      BY <1>4, <2>4 DEF Sync, SyncedRows
    <3>2. rows'[k] = [id |-> rows[k].id, text |-> c[k], dirty |-> TRUE, owed |-> TRUE]
      BY ONLY <2>1, <3>1 DEF Row
    <3>3. rows'[k] \in Row
      BY <2>1, <3>2 DEF Row
    <3> QED
      BY <2>2, <2>4, <3>2, <3>3
  <2> QED
    BY <2>3, <2>4
<1>5. ASSUME NEW k \in DOMAIN c, k \notin DOMAIN rows
      PROVE  /\ rows'[k].id = ids + k - Len(rows) /\ rows'[k].text = c[k] /\ rows'[k].dirty
             /\ rows'[k] \in Row'
  <2>1. rows'[k] = [id |-> ids + k - Len(rows), text |-> c[k], dirty |-> TRUE, owed |-> TRUE]
    BY <1>5 DEF Sync, SyncedRows
  <2>2. ids + k - Len(rows) \in 1..ids'
    BY <1>1, <1>2, <1>5
  <2>3. c[k] \in Texts
    BY <1>1, ElementOfSeq
  <2>4. rows'[k] \in Row'
    BY <2>1, <2>2, <2>3 DEF Row, Ids
  <2> QED
    BY <2>1, <2>4
<1>6. rows' \in Seq(Row)'
  <2>1. \A k \in 1..Len(c) : rows'[k] \in Row'
    BY <1>1, <1>4, <1>5
  <2>2. rows' = [k \in 1..Len(c) |-> rows'[k]]
    BY <1>1 DEF Sync, SyncedRows
  <2>3. PICK R : R = Row'
    OBVIOUS
  <2>4. rows' \in Seq(R)
    BY <1>1, <2>1, <2>2, <2>3
  <2> QED
    BY <2>3, <2>4
<1> QED
  BY <1>2, <1>3, <1>4, <1>5, <1>6

\* What it makes of the evidence: a fact is kept, or loses the chunk that was deleted.
LEMMA SyncedEvidenceFacts ==
  ASSUME IInv, NEW c \in Contents, NEW f \in SyncedEvidence(c)
  PROVE  /\ f \in Fact
         /\ f.chunk = NoChunk => f.kind \in {"state", "relationship"}
         /\ f.kind = "alert" => f \in evidence /\ f.chunk \notin Rewritten(c)
<1>1. PICK g \in evidence :
        /\ g.kind = "alert" => g.chunk \notin Rewritten(c)
        /\ f = IF g.kind \in {"state", "relationship"} /\ g.chunk \in Removed(c)
               THEN [g EXCEPT !.chunk = NoChunk] ELSE g
  BY DEF SyncedEvidence
<1>2. g \in Fact /\ (g.chunk = NoChunk => g.kind \in {"state", "relationship"})
  BY DEF IInv, TypeOK, EvidenceInv
<1>3. CASE f = g
  BY <1>1, <1>2, <1>3
<1>4. CASE f # g
  <2>1. f = [g EXCEPT !.chunk = NoChunk] /\ g.kind \in {"state", "relationship"}
    BY <1>1, <1>4
  <2>2. f = [kind |-> g.kind, chunk |-> NoChunk, text |-> g.text]
    BY ONLY <1>2, <2>1 DEF Fact
  <2> QED
    BY <1>2, <2>1, <2>2 DEF Fact, NoChunk
<1> QED
  BY <1>3, <1>4

LEMMA DisturbedFacts ==
  ASSUME TypeOK, NEW w \in Workers
  PROVE  /\ Disturbed[w] \in Run /\ ~Disturbed[w].quiet
         /\ Disturbed[w].pc = worker[w].pc /\ Disturbed[w].event = worker[w].event
         /\ Disturbed[w].hasText = worker[w].hasText /\ Disturbed[w].seen = worker[w].seen
         /\ Disturbed[w].todo = worker[w].todo /\ Disturbed[w].eligible = worker[w].eligible
<1>1. worker[w] \in Run
  BY RunType
<1>2. Disturbed[w] = [worker[w] EXCEPT !.quiet = FALSE]
  BY DEF Disturbed
<1>3. Disturbed[w] = [pc |-> worker[w].pc, event |-> worker[w].event, hasText |-> worker[w].hasText,
                      seen |-> worker[w].seen, todo |-> worker[w].todo,
                      eligible |-> worker[w].eligible, quiet |-> FALSE]
  BY ONLY <1>1, <1>2 DEF Run
<1> QED
  BY <1>1, <1>3 DEF Run

LEMMA RewriteKeeps ==
  ASSUME IInv, NEW c \in Contents, Rewrite(c), optedOut' \in BOOLEAN,
         EnqueueSceneChanged(c) \/ CreateEvent(c) \/ UNCHANGED events
  PROVE  IInv'
<1> USE DEF Rewrite
<1>1. Sync(c) /\ worker' = Disturbed /\ content' = c
  OBVIOUS
<1>2. /\ events' \in Seq(Event) /\ EventIds \subseteq EventIds' /\ EventInv'
  BY EventsEnqueued DEF IInv
<1>3. ids' \in Nat /\ ids <= ids' /\ rows' \in Seq(Row)'
  BY <1>1, SyncedFacts
<1>4. evidence' = SyncedEvidence(c)
  BY <1>1 DEF Sync
<1>5. \A w \in Workers :
        /\ ~worker'[w].quiet /\ worker'[w].pc = worker[w].pc /\ worker'[w].hasText = worker[w].hasText
        /\ worker'[w].seen = worker[w].seen /\ worker'[w].todo = worker[w].todo
  BY <1>1, DisturbedFacts DEF IInv
<1>6. TypeOK'
  <2>1. Run \subseteq Run'
    BY <1>2, <1>3, RunTypeKept DEF IInv
  <2>2. worker' \in [Workers -> Run']
    BY <1>1, <2>1, DisturbedFacts DEF IInv, Disturbed
  <2>3. saves' \in 0..MaxSaves
    BY BoundsAssumption DEF IInv, TypeOK
  <2>4. overlapped' \in BOOLEAN
    BY DEF IInv, TypeOK
  <2>5. evidence' \subseteq Fact
    BY <1>4, SyncedEvidenceFacts
  <2>6. /\ content' \in Contents /\ live' \in BOOLEAN /\ auto' \in BOOLEAN /\ faults' \in 0..FaultBudget
        /\ approved' \subseteq Fact
    BY DEF IInv, TypeOK
  <2>7. events' \in Seq(Event)'
    BY <1>2 DEF Event
  <2>8. worker' \in [Workers -> Run]'
    BY <2>2
  <2> QED
    BY <1>3, <2>3, <2>4, <2>5, <2>6, <2>7, <2>8 DEF TypeOK, Fact
<1>7. RowsInv'
  <2>1. \A k \in DOMAIN rows : rows[k].id \in Ids
    BY RowType DEF IInv
  <2>2. /\ DOMAIN c = 1..Len(c) /\ Len(c) \in Nat /\ DOMAIN rows = 1..Len(rows) /\ Len(rows) \in Nat
        /\ ids \in Nat
    BY ContentsAssumption DEF IInv, TypeOK
  <2>3. ASSUME NEW j \in DOMAIN c, NEW k \in DOMAIN c, j # k PROVE rows'[j].id # rows'[k].id
    <3>1. CASE j \in DOMAIN rows /\ k \in DOMAIN rows
      BY <1>1, <2>3, <3>1, SyncedFacts DEF IInv, RowsInv
    <3>2. CASE j \in DOMAIN rows /\ k \notin DOMAIN rows
      <4>1. rows'[j].id \in 1..ids /\ rows'[k].id = ids + k - Len(rows)
        BY <1>1, <2>1, <3>2, SyncedFacts DEF Ids
      <4> QED
        BY <2>2, <3>2, <4>1
    <3>3. CASE j \notin DOMAIN rows /\ k \in DOMAIN rows
      <4>1. rows'[k].id \in 1..ids /\ rows'[j].id = ids + j - Len(rows)
        BY <1>1, <2>1, <3>3, SyncedFacts DEF Ids
      <4> QED
        BY <2>2, <3>3, <4>1
    <3>4. CASE j \notin DOMAIN rows /\ k \notin DOMAIN rows
      <4>1. rows'[k].id = ids + k - Len(rows) /\ rows'[j].id = ids + j - Len(rows)
        BY <1>1, <3>4, SyncedFacts
      <4> QED
        BY <2>2, <2>3, <4>1
    <3> QED
      BY <3>1, <3>2, <3>3, <3>4
  <2>4. DOMAIN rows' = DOMAIN c /\ \A k \in DOMAIN c : rows'[k].text = c[k]
    BY <1>1, SyncedFacts
  <2> QED
    BY <1>1, <2>3, <2>4 DEF RowsInv
<1>8. EvidenceInv'
  BY <1>4, SyncedEvidenceFacts DEF EvidenceInv
<1>9. \A w \in Workers : RunOK(w)'
  BY <1>5 DEF IInv, RunOK, At
<1>10. CurrentInv'
  <2> SUFFICES ASSUME ~overlapped' PROVE OwedIsDirty' /\ AlertsAreCurrent' /\ \A w \in Workers : CurrentRun(w)'
    BY DEF CurrentInv
  <2>1. ~overlapped /\ \A w \in Workers : At(w, "idle")
    BY DEF Analysing, At
  <2>2. OwedIsDirty /\ AlertsAreCurrent
    BY <2>1 DEF IInv, CurrentInv
  <2>3. OwedIsDirty'
    <3> SUFFICES ASSUME NEW k \in DOMAIN c, rows'[k].owed PROVE rows'[k].dirty
      BY <1>1, SyncedFacts DEF OwedIsDirty
    <3>1. CASE k \notin DOMAIN rows \/ rows[k].text # c[k]
      BY <1>1, <3>1, SyncedFacts
    <3>2. CASE k \in DOMAIN rows /\ rows[k].text = c[k]
      BY <1>1, <2>2, <3>2, SyncedFacts DEF OwedIsDirty
    <3> QED
      BY <3>1, <3>2
  <2>4. AlertsAreCurrent'
    <3> SUFFICES ASSUME NEW f \in evidence', f.kind = "alert" PROVE Current(f.chunk, f.text)'
      BY DEF AlertsAreCurrent
    <3>1. f \in evidence /\ f.chunk \notin Rewritten(c)
      BY <1>4, SyncedEvidenceFacts
    <3>2. PICK k \in DOMAIN rows : rows[k].id = f.chunk /\ rows[k].text = f.text
      BY <2>2, <3>1 DEF AlertsAreCurrent, Current
    <3>3. k \in DOMAIN c /\ rows[k].text = c[k]
      BY <3>1, <3>2 DEF Rewritten
    <3>4. k \in DOMAIN rows' /\ rows'[k] = rows[k]
      BY <1>1, <3>3, SyncedFacts
    <3> QED
      BY <3>2, <3>4 DEF Current
  <2>5. ASSUME NEW w \in Workers PROVE CurrentRun(w)'
    <3>1. At(w, "idle") /\ At(w, "idle")' /\ worker'[w].seen = {}
      BY <1>5, <2>1 DEF IInv, RunOK, At
    <3> QED
      BY <3>1 DEF CurrentRun, SeesRows, At
  <2> QED
    BY <2>3, <2>4, <2>5
<1>11. QuietInv'
  BY <1>5 DEF QuietInv
<1> QED
  BY <1>2, <1>6, <1>7, <1>8, <1>9, <1>10, <1>11 DEF IInv
-----------------------------------------------------------------------------
(* The steps of a run *)

LEMMA TypesKept ==
  ASSUME TypeOK, UNCHANGED <<content, overlapped, ids, saves>>,
         live' \in BOOLEAN, auto' \in BOOLEAN, optedOut' \in BOOLEAN, faults' \in 0..FaultBudget,
         rows' \in Seq(Row), events' \in Seq(Event), EventIds' = EventIds,
         worker' \in [Workers -> Run], evidence' \subseteq Fact, approved' \subseteq Fact
  PROVE  TypeOK'
<1>1. Row' = Row /\ Run' = Run
  BY DEF Row, Run, Copies, Ids
<1>2. rows' \in Seq(Row)' /\ worker' \in [Workers -> Run]'
  BY <1>1
<1> QED
  BY <1>2 DEF TypeOK, Event, Fact

LEMMA WorkerTyped ==
  ASSUME TypeOK, NEW w \in Workers, NEW run \in Run, worker' = [worker EXCEPT ![w] = run]
  PROVE  worker' \in [Workers -> Run] /\ worker'[w] = run
BY DEF TypeOK

LEMMA IdleTyped == Idle \in Run
BY DEF Idle, Run, Phases

LEMMA EventsSame ==
  ASSUME TypeOK, UNCHANGED events
  PROVE  /\ events' \in Seq(Event) /\ EventIds' = EventIds
         /\ EventInv => EventInv'
BY DEF TypeOK, EventIds, EventInv, EventOK

LEMMA TakeKeeps ==
  ASSUME IInv, NEW w \in Workers, NEW i \in EventIds, Take(w, i)
  PROVE  IInv'
<1> USE DEF Take
<1>1. TypeOK
  BY DEF IInv
<1>a. PICK alone \in BOOLEAN : alone <=> \A v \in Workers : v # w => At(v, "idle")
  OBVIOUS
<1>b. alone = \A v \in Workers : v # w => At(v, "idle")
  BY <1>a
<1>c. PICK text \in BOOLEAN : text = (content # <<>>)
  OBVIOUS
<1>e. PICK pc : pc = IF live THEN "read" ELSE "mark"
  OBVIOUS
<1>f. PICK run : run = [Idle EXCEPT !.pc = pc, !.event = i, !.hasText = text, !.quiet = alone]
  OBVIOUS
<1>d. run = [pc |-> pc, event |-> i, hasText |-> text, seen |-> {}, todo |-> {}, eligible |-> {},
             quiet |-> alone]
  BY ONLY <1>f DEF Idle
<1>2. worker' = [Disturbed EXCEPT ![w] = run]
  <2>2. worker' = [Disturbed EXCEPT ![w] =
                     [Idle EXCEPT !.pc = pc, !.event = i, !.hasText = text, !.quiet = alone]]
    BY <1>b, <1>c, <1>e
  <2> QED
    BY ONLY <1>f, <2>2
<1>3. run \in Run
  BY <1>a, <1>c, <1>d, <1>e DEF Run, Phases
<1>4. worker' \in [Workers -> Run] /\ worker'[w] = run
      /\ \A v \in Workers : v # w => worker'[v] = Disturbed[v]
  <2>1. DOMAIN Disturbed = Workers /\ \A v \in Workers : Disturbed[v] \in Run
    BY <1>1, DisturbedFacts DEF Disturbed
  <2>3. Disturbed = [v \in Workers |-> Disturbed[v]]
    BY DEF Disturbed
  <2> QED
    BY ONLY <1>2, <1>3, <2>1, <2>3
<1>5. events' \in Seq(Event) /\ EventIds' = EventIds /\ EventInv'
  <2>1. events[i] \in Event
    BY <1>1, EventType
  <2>4. PICK e : e = [events[i] EXCEPT !.job = "active", !.holder = w, !.status = "RUNNING"]
    OBVIOUS
  <2>2. e = [hash |-> events[i].hash, done |-> events[i].done, job |-> "active",
             status |-> "RUNNING", tries |-> events[i].tries, holder |-> w]
    BY ONLY <2>1, <2>4 DEF Event
  <2>3. e \in Event
    BY <2>1, <2>2 DEF Event, JobStates
  <2>5. events' = [events EXCEPT ![i] = e]
    BY <1>1, <2>4 DEF TypeOK, EventIds
  \* A job that is ready has an attempt left.
  <2>6. EventOK(e)
    <3>1. events[i].job # "failed" /\ EventOK(events[i])
      BY DEF Ready, IInv, EventInv
    <3> QED
      BY <2>2, <3>1 DEF EventOK
  <2>8. /\ events' \in Seq(Event) /\ EventIds' = EventIds /\ events'[i] = e
        /\ \A j \in EventIds : j # i => events'[j] = events[j]
    BY <1>1, <2>3, <2>5, EventChanged
  <2>7. EventInv'
    BY <2>6, <2>8, EventInvKept DEF IInv
  <2> QED
    BY <2>7, <2>8
<1>6. TypeOK'
  BY <1>1, <1>4, <1>5, TypesKept DEF authorVars, TypeOK
<1>7. SameTexts
  BY DEF SameTexts
<1>8. RowsInv' /\ EvidenceInv'
  BY <1>7, RowsKept DEF IInv, EvidenceInv, authorVars
<1>9. /\ worker'[w].pc \in {"read", "mark"} /\ worker'[w].seen = {} /\ worker'[w].todo = {}
      /\ worker'[w].hasText = (content # <<>>)
      /\ worker'[w].quiet => \A v \in Workers : v # w => worker[v].pc = "idle"
      /\ live => worker'[w].pc = "read"
  <2>1. /\ run.pc = pc /\ run.seen = {} /\ run.todo = {} /\ run.hasText = text /\ run.quiet = alone
    BY ONLY <1>d
  <2>2. worker'[w] = run
    BY <1>4
  <2>3. alone => \A v \in Workers : v # w => worker[v].pc = "idle"
    BY <1>a DEF At
  <2> QED
    BY ONLY <1>c, <1>e, <2>1, <2>2, <2>3
<1>10. \A v \in Workers : v # w =>
         /\ ~worker'[v].quiet /\ worker'[v].pc = worker[v].pc /\ worker'[v].hasText = worker[v].hasText
         /\ worker'[v].seen = worker[v].seen /\ worker'[v].todo = worker[v].todo
  BY <1>1, <1>4, DisturbedFacts
<1>11. \A v \in Workers : RunOK(v)'
  BY <1>9, <1>10 DEF IInv, RunOK, At
<1>12. CurrentInv'
  <2> SUFFICES ASSUME ~overlapped PROVE OwedIsDirty' /\ AlertsAreCurrent' /\ \A v \in Workers : CurrentRun(v)'
    BY DEF CurrentInv, authorVars
  <2>1. OwedIsDirty' /\ AlertsAreCurrent'
    BY DEF IInv, CurrentInv, OwedIsDirty, AlertsAreCurrent, Current
  <2>2. CurrentRun(w)'
    BY <1>9 DEF CurrentRun, SeesRows, At, authorVars
  <2>3. ASSUME NEW v \in Workers, v # w PROVE CurrentRun(v)'
    <3>1. CurrentRun(v)
      BY DEF IInv, CurrentInv
    <3> QED
      BY <1>10, <2>3, <3>1 DEF CurrentRun, SeesRows, At, authorVars, Current, Chunk
  <2> QED
    BY <2>1, <2>2, <2>3
<1>13. QuietInv'
  <2> SUFFICES ASSUME NEW v \in Workers, worker'[v].quiet PROVE Alone(v)' /\ QuietRun(v)'
    BY DEF QuietInv
  <2>1. v = w
    BY <1>10
  <2>2. Alone(w)'
    BY <1>9, <1>10, <2>1 DEF Alone, At
  <2>3. QuietRun(w)'
    BY <1>9 DEF QuietRun, Covers, At, Pruned, authorVars
  <2> QED
    BY <2>1, <2>2, <2>3
<1> QED
  BY <1>5, <1>6, <1>8, <1>11, <1>12, <1>13 DEF IInv

LEMMA ReadChunksKeeps ==
  ASSUME IInv, NEW w \in Workers, ReadChunks(w)
  PROVE  IInv'
<1> USE DEF ReadChunks
<1>1. TypeOK /\ worker[w] \in Run
  BY RunType DEF IInv
<1>a. PICK seen, todo : seen = {Copy(k) : k \in DOMAIN rows} /\ todo = {Copy(k) : k \in DirtyRows}
  OBVIOUS
<1>b. PICK run : run = [worker[w] EXCEPT !.pc = "prune", !.seen = seen, !.todo = todo]
  OBVIOUS
<1>c. run = [pc |-> "prune", event |-> worker[w].event, hasText |-> worker[w].hasText,
             seen |-> seen, todo |-> todo, eligible |-> worker[w].eligible, quiet |-> worker[w].quiet]
  BY ONLY <1>1, <1>b DEF Run
<1>3. \A k \in DOMAIN rows : Copy(k) \in Copies
  BY <1>1, RowType
<1>4. run \in Run
  <2>1. /\ worker[w].event \in {0} \cup EventIds /\ worker[w].hasText \in BOOLEAN
        /\ worker[w].eligible \in SUBSET Fact /\ worker[w].quiet \in BOOLEAN
    BY <1>1, RunType
  <2>2. seen \in SUBSET Copies /\ todo \in SUBSET Copies
    BY <1>a, <1>3 DEF DirtyRows
  <2> QED
    BY <1>c, <2>1, <2>2 DEF Run, Phases
<1>5. worker' = [worker EXCEPT ![w] = run]
  BY <1>1, <1>a, <1>b DEF TypeOK
<1>6. worker' \in [Workers -> Run] /\ worker'[w] = run
  BY <1>1, <1>4, <1>5, WorkerTyped
<1>7. TypeOK'
  BY <1>1, <1>6, EventsSame, TypesKept DEF authorVars, TypeOK
<1>8. SameTexts
  BY DEF SameTexts
<1>f. /\ run.seen = {Copy(k) : k \in DOMAIN rows} /\ run.todo = {Copy(k) : k \in DirtyRows}
      /\ run.pc = "prune" /\ run.hasText = worker[w].hasText /\ run.quiet = worker[w].quiet
  BY ONLY <1>a, <1>c
<1>9. SeesRows(w)'
  <2> SUFFICES ASSUME NEW s \in run.seen PROVE Current(s.id, s.text)'
    BY <1>6 DEF SeesRows
  <2>1. PICK k \in DOMAIN rows : s = Copy(k)
    BY <1>f
  <2>2. s.id = rows[k].id /\ s.text = rows[k].text
    BY ONLY <2>1 DEF Copy
  <2> QED
    BY <2>2 DEF Current
<1>10. RunOK(w)'
  BY <1>f, <1>6 DEF RunOK, At, DirtyRows
<1>11. ~overlapped => OwedIsDirty' /\ CurrentRun(w)'
  <2> SUFFICES ASSUME ~overlapped PROVE OwedIsDirty' /\ CurrentRun(w)'
    OBVIOUS
  <2>1. OwedIsDirty /\ CurrentRun(w)
    BY DEF IInv, CurrentInv
  <2> QED
    BY <1>f, <1>6, <1>9, <2>1 DEF CurrentRun, OwedIsDirty, At, authorVars
<1>12. run.quiet => worker[w].quiet /\ QuietRun(w)'
  <2>1. Covers(w)'
    <3>a. DirtyRows' = DirtyRows /\ rows' = rows
      BY DEF DirtyRows
    <3>1. ASSUME NEW k \in DirtyRows PROVE \E s \in run.todo : s.id = rows[k].id
      <4>1. Copy(k) \in run.todo
        BY <1>f
      <4>2. Copy(k).id = rows[k].id
        BY DEF Copy
      <4> QED
        BY <4>1, <4>2
    <3>2. worker'[w].todo = run.todo /\ worker'[w].pc = "prune"
      BY <1>f, <1>6
    <3> QED
      BY ONLY <3>a, <3>1, <3>2 DEF Covers, At
  <2> QED
    BY <1>f, <1>6, <1>9, <2>1 DEF QuietRun, At, Pruned
<1>13. ~At(w, "idle") /\ UNCHANGED <<content, live, overlapped>>
  BY DEF At, authorVars
<1>14. EventInv'
  BY <1>1, EventsSame DEF IInv
<1> QED
  BY <1>5, <1>7, <1>8, <1>10, <1>11, <1>12, <1>13, <1>14, RunStepKeeps DEF SameTexts

\* A run that goes on to another phase.
LEMMA GoToFacts ==
  ASSUME TypeOK, NEW w \in Workers, NEW phase \in Phases, GoTo(w, phase)
  PROVE  \E run \in Run :
           /\ worker' = [worker EXCEPT ![w] = run] /\ worker'[w] = run
           /\ run.pc = phase /\ run.seen = worker[w].seen /\ run.todo = worker[w].todo
           /\ run.hasText = worker[w].hasText /\ run.quiet = worker[w].quiet
           /\ run.eligible = worker[w].eligible /\ run.event = worker[w].event
<1>1. worker[w] \in Run
  BY RunType
<1>2. PICK run : run = [worker[w] EXCEPT !.pc = phase]
  OBVIOUS
<1>3. run = [pc |-> phase, event |-> worker[w].event, hasText |-> worker[w].hasText,
             seen |-> worker[w].seen, todo |-> worker[w].todo, eligible |-> worker[w].eligible,
             quiet |-> worker[w].quiet]
  BY ONLY <1>1, <1>2 DEF Run
<1>4. run \in Run
  BY <1>1, <1>3 DEF Run
<1>5. worker' = [worker EXCEPT ![w] = run] /\ worker'[w] = run
  BY <1>2 DEF GoTo, TypeOK
<1> QED
  BY <1>3, <1>4, <1>5

LEMMA PruneKeeps ==
  ASSUME IInv, NEW w \in Workers, Prune(w)
  PROVE  IInv'
<1> USE DEF Prune
<1>1. TypeOK /\ RunOK(w)
  BY DEF IInv
<1>2. PICK phase \in {"mark", "chunk", "clear", "review"} :
        /\ GoTo(w, phase)
        /\ phase = IF worker[w].todo = {} THEN "mark" ELSE NextChunk(w, worker[w].todo)
  BY DEF NextChunk
<1>3. PICK run \in Run :
        /\ worker' = [worker EXCEPT ![w] = run] /\ worker'[w] = run
        /\ run.pc = phase /\ run.seen = worker[w].seen /\ run.todo = worker[w].todo
        /\ run.hasText = worker[w].hasText /\ run.quiet = worker[w].quiet
        /\ run.eligible = worker[w].eligible
  BY <1>1, <1>2, GoToFacts DEF Phases
<1>4. /\ phase = "mark" => worker[w].todo = {}
      /\ phase # "mark" => worker[w].todo # {}
      /\ phase = "clear" => ~worker[w].hasText
      /\ phase # "review"
  BY <1>2 DEF NextChunk
<1>5. evidence' \subseteq evidence /\ UNCHANGED <<rows, ids, events, approved, faults>> /\ SameTexts
  BY DEF SameTexts
<1>6. TypeOK'
  <2>1. worker' \in [Workers -> Run] /\ events' \in Seq(Event) /\ EventIds' = EventIds
    BY <1>1, <1>3, WorkerTyped, EventsSame
  <2> QED
    BY <1>1, <1>5, <2>1, TypesKept DEF authorVars, TypeOK
<1>7. RunOK(w)'
  BY <1>1, <1>3, <1>4 DEF RunOK, At
<1>8. ~overlapped => OwedIsDirty' /\ CurrentRun(w)'
  <2> SUFFICES ASSUME ~overlapped PROVE OwedIsDirty' /\ CurrentRun(w)'
    OBVIOUS
  <2>1. OwedIsDirty /\ CurrentRun(w)
    BY DEF IInv, CurrentInv
  <2>2. OwedIsDirty' /\ SeesRows(w)'
    BY <1>3, <1>5, <2>1 DEF OwedIsDirty, CurrentRun, SeesRows, Current
  \* What is still to do are rows, so the scene has a text.
  <2>3. phase # "clear"
    <3> SUFFICES ASSUME phase = "clear" PROVE FALSE
      OBVIOUS
    <3>1. Chunk(w) \in worker[w].seen
      BY <1>1, <1>4, ChunkIsSeen
    <3>2. rows # <<>> /\ DOMAIN rows # {}
      BY <2>1, <3>1 DEF CurrentRun, SeesRows, Current
    <3>3. content # <<>>
      BY <3>2 DEF IInv, RowsInv
    <3> QED
      BY <1>4, <2>1, <3>3 DEF CurrentRun, At
  <2> QED
    BY <1>3, <2>1, <2>2, <2>3 DEF CurrentRun, At, authorVars
<1>9. run.quiet => worker[w].quiet /\ QuietRun(w)'
  <2> SUFFICES ASSUME worker[w].quiet PROVE QuietRun(w)'
    BY <1>3
  <2>1. QuietRun(w) /\ EvidenceInv
    BY DEF IInv, QuietInv
  <2>2. ASSUME live PROVE Covers(w)' /\ SeesRows(w)' /\ \A f \in evidence' : InForce(f)'
    <3>1. Covers(w) /\ SeesRows(w)
      BY <2>1, <2>2 DEF QuietRun, At
    <3>2. SeesRows(w)'
      BY <1>3, <1>5, <3>1 DEF SeesRows, Current
    <3>3. \A k \in DirtyRows : \E s \in worker[w].todo : s.id = rows[k].id
      BY <3>1 DEF Covers, At
    <3>4. DirtyRows' = DirtyRows /\ (phase = "mark" => DirtyRows = {})
      BY <1>4, <1>5, <3>3 DEF DirtyRows
    <3>5. Covers(w)'
      BY <1>3, <1>4, <1>5, <3>3, <3>4 DEF Covers, At
    <3>6. ASSUME NEW f \in evidence' PROVE InForce(f)'
      <4>1. f \in evidence /\ Supported(f, worker[w].seen)
        OBVIOUS
      <4>2. InForce(f)
        <5>1. CASE f.chunk # NoChunk
          <6>1. [id |-> f.chunk, text |-> f.text] \in worker[w].seen
            BY <4>1, <5>1 DEF Supported
          <6> QED
            BY <3>1, <6>1 DEF SeesRows, InForce
        <5>2. CASE f.chunk = NoChunk /\ f.kind = "relationship"
          <6>1. PICK s \in worker[w].seen : s.text = f.text
            BY <4>1, <5>2 DEF Supported
          <6> QED
            BY <3>1, <5>2, <6>1 DEF SeesRows, InForce, Current
        <5>3. CASE f.chunk = NoChunk /\ f.kind = "state"
          BY <5>3 DEF InForce
        <5> QED
          BY <2>1, <4>1, <5>1, <5>2, <5>3 DEF EvidenceInv
      <4> QED
        BY <1>5, <4>2, InForceKept
    <3> QED
      BY <3>2, <3>5, <3>6
  <2> QED
    BY <1>3, <2>2 DEF QuietRun, At, authorVars
<1>10. /\ ~At(w, "idle") /\ UNCHANGED <<content, live, overlapped>>
       /\ \A k \in DOMAIN rows : rows'[k].owed => rows[k].owed
       /\ \A f \in evidence' : f \in evidence
  BY <1>5 DEF At, authorVars
<1>11. EventInv'
  BY <1>1, EventsSame DEF IInv
<1> QED
  BY <1>3, <1>5, <1>6, <1>7, <1>8, <1>9, <1>10, <1>11, RunStepKeeps

\* What a run finds in a chunk quotes that chunk.
LEMMA FoundFacts ==
  ASSUME IInv, NEW w \in Workers, worker[w].todo # {}, NEW kinds \in SUBSET Kinds,
         NEW f \in Found(w, kinds)
  PROVE  /\ f \in Fact /\ f.chunk = Chunk(w).id /\ f.text = Chunk(w).text /\ f.chunk # NoChunk
         /\ [id |-> f.chunk, text |-> f.text] \in worker[w].seen
<1>1. Chunk(w) \in worker[w].seen /\ Chunk(w) \in Copies
  BY ChunkIsSeen DEF IInv
<1>2. f.kind \in kinds /\ f.chunk = Chunk(w).id /\ f.text = Chunk(w).text
      /\ f = [kind |-> f.kind, chunk |-> Chunk(w).id, text |-> Chunk(w).text]
  BY DEF Found
<1>3. Chunk(w).id \in Nat /\ Chunk(w).id # NoChunk /\ Chunk(w).text \in Texts
  BY <1>1 DEF Copies, Ids, NoChunk
<1>4. [id |-> f.chunk, text |-> f.text] = Chunk(w)
  BY <1>1, <1>2 DEF Copies
<1> QED
  BY <1>1, <1>2, <1>3, <1>4 DEF Fact

LEMMA ExtractKeeps ==
  ASSUME IInv, NEW w \in Workers, Extract(w)
  PROVE  IInv'
<1> USE DEF Extract
<1>1. TypeOK /\ RunOK(w) /\ worker[w].todo # {}
  BY DEF IInv, RunOK
<1>2. PICK run \in Run :
        /\ worker' = [worker EXCEPT ![w] = run] /\ worker'[w] = run
        /\ run.pc = "clear" /\ run.seen = worker[w].seen /\ run.todo = worker[w].todo
        /\ run.hasText = worker[w].hasText /\ run.quiet = worker[w].quiet
        /\ run.eligible = worker[w].eligible
  BY <1>1, GoToFacts DEF Phases
<1>3. /\ DOMAIN rows' = DOMAIN rows
      /\ \A k \in DOMAIN rows :
           /\ rows'[k] \in Row /\ rows'[k].id = rows[k].id /\ rows'[k].text = rows[k].text
           /\ rows'[k].dirty = rows[k].dirty /\ (rows'[k].owed => rows[k].owed)
           /\ rows'[k].owed => Copy(k) # Chunk(w)
  <2> SUFFICES ASSUME NEW k \in DOMAIN rows
               PROVE  /\ rows'[k] \in Row /\ rows'[k].id = rows[k].id /\ rows'[k].text = rows[k].text
                      /\ rows'[k].dirty = rows[k].dirty /\ (rows'[k].owed => rows[k].owed)
                      /\ rows'[k].owed => Copy(k) # Chunk(w)
    OBVIOUS
  <2>1. rows[k] \in Row
    BY <1>1, RowType
  <2>2. PICK owed \in BOOLEAN : owed = (rows[k].owed /\ Copy(k) # Chunk(w))
    OBVIOUS
  <2>3. rows'[k] = [rows[k] EXCEPT !.owed = owed]
    BY <2>2
  <2>4. rows'[k] = [id |-> rows[k].id, text |-> rows[k].text, dirty |-> rows[k].dirty, owed |-> owed]
    BY ONLY <2>1, <2>3 DEF Row
  <2> QED
    BY <2>1, <2>2, <2>4 DEF Row
<1>4. SameTexts
  BY <1>3 DEF SameTexts
<1>5. rows' \in Seq(Row)
  <2>1. DOMAIN rows = 1..Len(rows) /\ Len(rows) \in Nat
    BY <1>1 DEF TypeOK
  <2>2. rows' = [k \in 1..Len(rows) |-> rows'[k]]
    BY <2>1
  <2>3. \A k \in 1..Len(rows) : rows'[k] \in Row
    BY <1>3, <2>1
  <2> QED
    BY <2>1, <2>2, <2>3, SeqByElements
<1>6. evidence' = evidence \cup Found(w, Kinds)
  OBVIOUS
<1>7. \A f \in Found(w, Kinds) :
        /\ f \in Fact /\ f.chunk = Chunk(w).id /\ f.text = Chunk(w).text /\ f.chunk # NoChunk
        /\ [id |-> f.chunk, text |-> f.text] \in worker[w].seen
  BY <1>1, FoundFacts
<1>8. TypeOK'
  <2>1. worker' \in [Workers -> Run] /\ events' \in Seq(Event) /\ EventIds' = EventIds
    BY <1>1, <1>2, WorkerTyped, EventsSame
  <2>2. evidence' \subseteq Fact
    BY <1>1, <1>6, <1>7 DEF TypeOK
  <2> QED
    BY <1>1, <1>5, <2>1, <2>2, TypesKept DEF authorVars, TypeOK
<1>9. RunOK(w)'
  BY <1>1, <1>2 DEF RunOK, At
<1>10. ~overlapped => OwedIsDirty' /\ CurrentRun(w)'
  <2> SUFFICES ASSUME ~overlapped PROVE OwedIsDirty' /\ CurrentRun(w)'
    OBVIOUS
  <2>1. OwedIsDirty /\ CurrentRun(w)
    BY DEF IInv, CurrentInv
  <2>2. OwedIsDirty'
    BY <1>3, <2>1 DEF OwedIsDirty
  <2>3. SeesRows(w)'
    <3> SUFFICES ASSUME NEW s \in worker[w].seen PROVE Current(s.id, s.text)'
      BY <1>2 DEF SeesRows
    <3> QED
      BY <1>4, <2>1, CurrentKept DEF CurrentRun, SeesRows
  \* The chunk has been extracted, and there is one row with its id.
  <2>4. ASSUME NEW k \in DOMAIN rows', rows'[k].id = Chunk(w).id PROVE ~rows'[k].owed
    <3>1. Chunk(w) \in worker[w].seen /\ Chunk(w) \in Copies
      BY <1>1, ChunkIsSeen
    <3>2. PICK j \in DOMAIN rows : rows[j].id = Chunk(w).id /\ rows[j].text = Chunk(w).text
      BY <2>1, <3>1 DEF CurrentRun, SeesRows, Current
    <3>3. j = k
      <4>1. k \in DOMAIN rows /\ rows[k].id = Chunk(w).id
        BY <1>3, <2>4
      <4> QED
        BY <3>2, <4>1 DEF IInv, RowsInv
    <3>4. Copy(k) = Chunk(w)
      BY <3>1, <3>2, <3>3 DEF Copy, Copies
    <3> QED
      BY <1>3, <2>4, <3>4
  <2>5. Chunk(w)' = Chunk(w)
    BY <1>2 DEF Chunk
  <2>6. \A k \in DOMAIN rows' : rows'[k].id = (Chunk(w).id)' => ~rows'[k].owed
    BY <2>4, <2>5
  <2>7. (~At(w, "idle"))' => worker'[w].hasText = (content' # <<>>)
    BY <1>2, <2>1 DEF CurrentRun, At, authorVars
  <2> QED
    BY <2>2, <2>3, <2>6, <2>7 DEF CurrentRun
<1>11. run.quiet => worker[w].quiet /\ QuietRun(w)'
  <2> SUFFICES ASSUME worker[w].quiet PROVE QuietRun(w)'
    BY <1>2
  <2>1. QuietRun(w)
    BY DEF IInv, QuietInv
  <2>2. ASSUME live PROVE Covers(w)' /\ SeesRows(w)' /\ \A f \in evidence' : InForce(f)'
    <3>1. Covers(w) /\ SeesRows(w) /\ \A f \in evidence : InForce(f)
      BY <2>1, <2>2 DEF QuietRun, At, Pruned
    <3>2. SeesRows(w)'
      <4> SUFFICES ASSUME NEW s \in worker[w].seen PROVE Current(s.id, s.text)'
        BY <1>2 DEF SeesRows
      <4> QED
        BY <1>4, <3>1, CurrentKept DEF SeesRows
    <3>3. Covers(w)'
      <4>1. \A k \in DirtyRows : \E s \in worker[w].todo : s.id = rows[k].id
        BY <3>1 DEF Covers, At
      <4>2. DirtyRows' = DirtyRows
        BY <1>3 DEF DirtyRows
      <4>3. \A k \in DirtyRows : rows'[k].id = rows[k].id
        BY <1>3 DEF DirtyRows
      <4>4. worker'[w].todo = worker[w].todo /\ worker'[w].pc = "clear"
        BY <1>2
      <4> QED
        BY ONLY <4>1, <4>2, <4>3, <4>4 DEF Covers
    <3>4. ASSUME NEW f \in evidence' PROVE InForce(f)'
      <4>1. CASE f \in evidence
        BY <1>4, <3>1, <4>1, InForceKept
      <4>2. CASE f \in Found(w, Kinds)
        <5>1. [id |-> f.chunk, text |-> f.text] \in worker[w].seen
          BY <1>7, <4>2
        <5> QED
          BY <1>2, <3>2, <5>1 DEF InForce, SeesRows
      <4> QED
        BY <1>6, <4>1, <4>2
    <3> QED
      BY <3>2, <3>3, <3>4
  <2> QED
    BY <1>2, <2>2 DEF QuietRun, At, authorVars
<1>12. /\ ~At(w, "idle") /\ UNCHANGED <<content, live, overlapped>>
       /\ \A k \in DOMAIN rows : rows'[k].owed => rows[k].owed
       /\ \A f \in evidence' : f \in evidence \/ [id |-> f.chunk, text |-> f.text] \in worker[w].seen
  BY <1>3, <1>6, <1>7 DEF At, authorVars
<1>13. EventInv'
  BY <1>1, EventsSame DEF IInv
<1> QED
  BY <1>2, <1>4, <1>8, <1>9, <1>10, <1>11, <1>12, <1>13, RunStepKeeps

LEMMA ClearDirtyKeeps ==
  ASSUME IInv, NEW w \in Workers, ClearDirty(w)
  PROVE  IInv'
<1> USE DEF ClearDirty
<1>1. TypeOK /\ RunOK(w) /\ worker[w].todo # {} /\ worker[w] \in Run
  BY RunType DEF IInv, RunOK
<1>2. PICK rest, phase :
        /\ rest = worker[w].todo \ {Chunk(w)} /\ phase = NextChunk(w, rest)
        /\ worker' = [worker EXCEPT ![w].todo = rest, ![w].pc = phase]
  OBVIOUS
<1>3. /\ phase \in {"chunk", "clear", "review"}
      /\ phase = "review" => rest = {}
      /\ phase # "review" => rest # {}
      /\ phase = "clear" => ~worker[w].hasText
  BY <1>2 DEF NextChunk
<1>4. PICK run : run = [worker[w] EXCEPT !.todo = rest, !.pc = phase]
  OBVIOUS
<1>5. run = [pc |-> phase, event |-> worker[w].event, hasText |-> worker[w].hasText,
             seen |-> worker[w].seen, todo |-> rest, eligible |-> worker[w].eligible,
             quiet |-> worker[w].quiet]
  BY ONLY <1>1, <1>4 DEF Run
<1>6. /\ run \in Run /\ run.pc = phase /\ run.seen = worker[w].seen /\ run.todo = rest
      /\ run.hasText = worker[w].hasText /\ run.quiet = worker[w].quiet
  <2>1. rest \in SUBSET Copies
    BY <1>1, <1>2, RunType
  <2>2. phase \in Phases
    BY <1>3 DEF Phases
  <2>3. /\ worker[w].event \in {0} \cup EventIds /\ worker[w].hasText \in BOOLEAN
        /\ worker[w].eligible \in SUBSET Fact /\ worker[w].quiet \in BOOLEAN
        /\ worker[w].seen \in SUBSET Copies
    BY <1>1, RunType
  <2> QED
    BY ONLY <1>5, <2>1, <2>2, <2>3 DEF Run
<1>7. worker' = [worker EXCEPT ![w] = run] /\ worker'[w] = run
  BY <1>1, <1>2, <1>4 DEF TypeOK
<1>8. /\ DOMAIN rows' = DOMAIN rows
      /\ \A k \in DOMAIN rows :
           /\ rows'[k] \in Row /\ rows'[k].id = rows[k].id /\ rows'[k].text = rows[k].text
           /\ rows'[k].owed = rows[k].owed
           /\ rows'[k].dirty <=> rows[k].dirty /\ rows[k].id # Chunk(w).id
  <2> SUFFICES ASSUME NEW k \in DOMAIN rows
               PROVE  /\ rows'[k] \in Row /\ rows'[k].id = rows[k].id /\ rows'[k].text = rows[k].text
                      /\ rows'[k].owed = rows[k].owed
                      /\ rows'[k].dirty <=> rows[k].dirty /\ rows[k].id # Chunk(w).id
    OBVIOUS
  <2>1. rows[k] \in Row
    BY <1>1, RowType
  <2>2. PICK dirty \in BOOLEAN : dirty = (rows[k].dirty /\ rows[k].id # Chunk(w).id)
    OBVIOUS
  <2>3. rows'[k] = [rows[k] EXCEPT !.dirty = dirty]
    BY <2>2
  <2>4. rows'[k] = [id |-> rows[k].id, text |-> rows[k].text, dirty |-> dirty, owed |-> rows[k].owed]
    BY ONLY <2>1, <2>3 DEF Row
  <2> QED
    BY <2>1, <2>2, <2>4 DEF Row
<1>9. SameTexts
  BY <1>8 DEF SameTexts
<1>10. rows' \in Seq(Row)
  <2>1. DOMAIN rows = 1..Len(rows) /\ Len(rows) \in Nat
    BY <1>1 DEF TypeOK
  <2>2. rows' = [k \in 1..Len(rows) |-> rows'[k]]
    BY <2>1
  <2>3. \A k \in 1..Len(rows) : rows'[k] \in Row
    BY <1>8, <2>1
  <2> QED
    BY <2>1, <2>2, <2>3, SeqByElements
<1>11. TypeOK'
  <2>1. worker' \in [Workers -> Run] /\ events' \in Seq(Event) /\ EventIds' = EventIds
    BY <1>1, <1>6, <1>7, WorkerTyped, EventsSame
  <2> QED
    BY <1>1, <1>10, <2>1, TypesKept DEF authorVars, TypeOK
<1>12. RunOK(w)'
  BY <1>1, <1>2, <1>3, <1>6, <1>7 DEF RunOK, At
<1>13. SeesRows(w) => SeesRows(w)'
  <2> SUFFICES ASSUME SeesRows(w), NEW s \in worker[w].seen PROVE Current(s.id, s.text)'
    BY <1>6, <1>7 DEF SeesRows
  <2> QED
    BY <1>9, CurrentKept DEF SeesRows
<1>14. ~overlapped => OwedIsDirty' /\ CurrentRun(w)'
  <2> SUFFICES ASSUME ~overlapped PROVE OwedIsDirty' /\ CurrentRun(w)'
    OBVIOUS
  <2>1. OwedIsDirty /\ CurrentRun(w)
    BY DEF IInv, CurrentInv
  <2>2. OwedIsDirty'
    <3> SUFFICES ASSUME NEW k \in DOMAIN rows, rows[k].owed PROVE rows'[k].dirty
      BY <1>8 DEF OwedIsDirty
    <3>1. rows[k].dirty /\ rows[k].id # Chunk(w).id
      BY <2>1 DEF OwedIsDirty, CurrentRun
    <3> QED
      BY <1>8, <3>1
  <2>3. phase # "clear"
    <3> SUFFICES ASSUME phase = "clear" PROVE FALSE
      OBVIOUS
    <3>1. Chunk(w) \in worker[w].seen
      BY <1>1, ChunkIsSeen
    <3>2. rows # <<>> /\ DOMAIN rows # {}
      BY <2>1, <3>1 DEF CurrentRun, SeesRows, Current
    <3>3. content # <<>>
      BY <3>2 DEF IInv, RowsInv
    <3> QED
      BY <1>3, <2>1, <3>3 DEF CurrentRun, At
  <2> QED
    BY <1>6, <1>7, <1>13, <2>1, <2>2, <2>3 DEF CurrentRun, At, authorVars
<1>15. run.quiet => worker[w].quiet /\ QuietRun(w)'
  <2> SUFFICES ASSUME worker[w].quiet PROVE QuietRun(w)'
    BY <1>6
  <2>1. QuietRun(w)
    BY DEF IInv, QuietInv
  <2>2. ASSUME live PROVE Covers(w)' /\ SeesRows(w)' /\ \A f \in evidence' : InForce(f)'
    <3>1. Covers(w) /\ SeesRows(w) /\ \A f \in evidence : InForce(f)
      BY <2>1, <2>2 DEF QuietRun, At, Pruned
    <3>2. ASSUME NEW k \in DirtyRows' PROVE \E s \in rest : s.id = rows'[k].id
      <4>1. k \in DirtyRows /\ rows[k].id # Chunk(w).id /\ rows'[k].id = rows[k].id
        BY <1>8, <3>2 DEF DirtyRows
      <4>2. PICK s \in worker[w].todo : s.id = rows[k].id
        BY <3>1, <4>1 DEF Covers, At
      <4> QED
        BY <1>2, <4>1, <4>2
    <3>3. Covers(w)'
      BY <1>3, <1>6, <1>7, <3>2 DEF Covers
    <3>4. \A f \in evidence' : InForce(f)'
      BY <1>9, <3>1, InForceKept
    <3> QED
      BY <1>13, <3>1, <3>3, <3>4
  <2> QED
    BY <1>3, <1>6, <1>7, <2>2 DEF QuietRun, At, authorVars
<1>16. /\ ~At(w, "idle") /\ UNCHANGED <<content, live, overlapped>>
       /\ \A k \in DOMAIN rows : rows'[k].owed => rows[k].owed
       /\ \A f \in evidence' : f \in evidence
  BY <1>8 DEF At, authorVars
<1>17. EventInv'
  BY <1>1, EventsSame DEF IInv
<1> QED
  BY <1>7, <1>9, <1>11, <1>12, <1>14, <1>15, <1>16, <1>17, RunStepKeeps

LEMMA ReviewKeeps ==
  ASSUME IInv, NEW w \in Workers, Review(w)
  PROVE  IInv'
<1> USE DEF Review
<1>1. TypeOK /\ RunOK(w) /\ worker[w] \in Run
  BY RunType DEF IInv
<1>2. PICK found, phase, eligible :
        /\ found = {f \in evidence : f.kind = "relationship" /\ Fresh(f)}
        /\ phase = IF live /\ found # {} THEN "approve" ELSE "mark"
        /\ eligible = IF live THEN found ELSE {}
        /\ worker' = [worker EXCEPT ![w].pc = phase, ![w].eligible = eligible]
  OBVIOUS
<1>3. /\ phase \in {"approve", "mark"} /\ eligible \subseteq evidence
      /\ \A f \in eligible : f \in evidence /\ Fresh(f)
  BY <1>2
<1>4. PICK run : run = [worker[w] EXCEPT !.pc = phase, !.eligible = eligible]
  OBVIOUS
<1>5. run = [pc |-> phase, event |-> worker[w].event, hasText |-> worker[w].hasText,
             seen |-> worker[w].seen, todo |-> worker[w].todo, eligible |-> eligible,
             quiet |-> worker[w].quiet]
  BY ONLY <1>1, <1>4 DEF Run
<1>6. /\ run \in Run /\ run.pc = phase /\ run.seen = worker[w].seen /\ run.todo = worker[w].todo
      /\ run.hasText = worker[w].hasText /\ run.quiet = worker[w].quiet /\ run.eligible = eligible
  <2>1. eligible \in SUBSET Fact /\ phase \in Phases
    BY <1>1, <1>3 DEF TypeOK, Phases
  <2>2. /\ worker[w].event \in {0} \cup EventIds /\ worker[w].hasText \in BOOLEAN
        /\ worker[w].todo \in SUBSET Copies /\ worker[w].quiet \in BOOLEAN
        /\ worker[w].seen \in SUBSET Copies
    BY <1>1, RunType
  <2> QED
    BY ONLY <1>5, <2>1, <2>2 DEF Run
<1>7. worker' = [worker EXCEPT ![w] = run] /\ worker'[w] = run
  BY <1>1, <1>2, <1>4 DEF TypeOK
<1>8. UNCHANGED <<rows, ids, events, evidence, approved, faults>> /\ SameTexts
  BY DEF SameTexts
<1>9. TypeOK'
  <2>1. worker' \in [Workers -> Run] /\ events' \in Seq(Event) /\ EventIds' = EventIds
    BY <1>1, <1>6, <1>7, WorkerTyped, EventsSame
  <2> QED
    BY <1>1, <2>1, TypesKept DEF authorVars, TypeOK
<1>10. RunOK(w)'
  BY <1>1, <1>3, <1>6, <1>7 DEF RunOK, At
<1>11. SeesRows(w) => SeesRows(w)'
  BY <1>6, <1>7, <1>8 DEF SeesRows, Current
<1>12. ~overlapped => OwedIsDirty' /\ CurrentRun(w)'
  <2>1. ~overlapped => OwedIsDirty /\ CurrentRun(w)
    BY DEF IInv, CurrentInv
  <2> QED
    BY <1>3, <1>6, <1>7, <1>8, <1>11, <2>1 DEF OwedIsDirty, CurrentRun, At, authorVars
<1>13. run.quiet => worker[w].quiet /\ QuietRun(w)'
  <2> SUFFICES ASSUME worker[w].quiet PROVE QuietRun(w)'
    BY <1>6
  <2>1. QuietRun(w)
    BY DEF IInv, QuietInv
  <2>2. ASSUME live PROVE Covers(w)' /\ SeesRows(w)' /\ \A f \in evidence' : InForce(f)'
    <3>1. Covers(w) /\ SeesRows(w) /\ \A f \in evidence : InForce(f)
      BY <2>1, <2>2 DEF QuietRun, At, Pruned
    <3>2. DirtyRows = {} /\ DirtyRows' = {}
      BY <1>8, <3>1 DEF Covers, At, DirtyRows
    <3>3. \A f \in evidence' : InForce(f)'
      BY <1>8, <3>1, InForceKept
    <3> QED
      BY <1>11, <3>1, <3>2, <3>3 DEF Covers
  <2>3. \A f \in eligible : f \in evidence' /\ Fresh(f)'
    BY <1>3, <1>8 DEF Fresh
  <2> QED
    BY <1>6, <1>7, <2>2, <2>3 DEF QuietRun, At, authorVars
<1>14. /\ ~At(w, "idle") /\ UNCHANGED <<content, live, overlapped>>
       /\ \A k \in DOMAIN rows : rows'[k].owed => rows[k].owed
       /\ \A f \in evidence' : f \in evidence
  BY <1>8 DEF At, authorVars
<1>15. EventInv'
  BY <1>1, EventsSame DEF IInv
<1> QED
  BY <1>7, <1>8, <1>9, <1>10, <1>12, <1>13, <1>14, <1>15, RunStepKeeps

LEMMA ApproveKeeps ==
  ASSUME IInv, NEW w \in Workers, NEW f \in worker[w].eligible, Approve(w, f)
  PROVE  IInv'
<1> USE DEF Approve
<1>1. TypeOK /\ RunOK(w) /\ worker[w] \in Run
  BY RunType DEF IInv
<1>2. PICK phase, eligible :
        /\ eligible = worker[w].eligible \ {f}
        /\ phase = IF worker[w].eligible = {f} THEN "mark" ELSE "approve"
        /\ worker' = [worker EXCEPT ![w].eligible = eligible, ![w].pc = phase]
  BY DEF At
<1>3. phase \in {"approve", "mark"}
  BY <1>2
<1>4. PICK run : run = [worker[w] EXCEPT !.eligible = eligible, !.pc = phase]
  OBVIOUS
<1>5. run = [pc |-> phase, event |-> worker[w].event, hasText |-> worker[w].hasText,
             seen |-> worker[w].seen, todo |-> worker[w].todo, eligible |-> eligible,
             quiet |-> worker[w].quiet]
  BY ONLY <1>1, <1>4 DEF Run
<1>6. /\ run \in Run /\ run.pc = phase /\ run.seen = worker[w].seen /\ run.todo = worker[w].todo
      /\ run.hasText = worker[w].hasText /\ run.quiet = worker[w].quiet /\ run.eligible = eligible
  <2>1. eligible \in SUBSET Fact /\ phase \in Phases
    BY <1>1, <1>2, <1>3, RunType DEF Phases
  <2>2. /\ worker[w].event \in {0} \cup EventIds /\ worker[w].hasText \in BOOLEAN
        /\ worker[w].todo \in SUBSET Copies /\ worker[w].quiet \in BOOLEAN
        /\ worker[w].seen \in SUBSET Copies
    BY <1>1, RunType
  <2> QED
    BY ONLY <1>5, <2>1, <2>2 DEF Run
<1>7. worker' = [worker EXCEPT ![w] = run] /\ worker'[w] = run
  BY <1>1, <1>2, <1>4 DEF TypeOK
<1>8. PICK g \in evidence :
        /\ g = IF f \in evidence THEN f ELSE [f EXCEPT !.chunk = NoChunk]
        /\ evidence' = evidence \ {g} /\ approved' = approved \cup {g}
  OBVIOUS
<1>9. UNCHANGED <<rows, ids, events, faults>> /\ SameTexts
  BY DEF SameTexts
<1>10. TypeOK'
  <2>1. worker' \in [Workers -> Run] /\ events' \in Seq(Event) /\ EventIds' = EventIds
    BY <1>1, <1>6, <1>7, WorkerTyped, EventsSame
  <2>2. evidence' \subseteq Fact /\ approved' \subseteq Fact
    BY <1>1, <1>8 DEF TypeOK
  <2> QED
    BY <1>1, <2>1, <2>2, TypesKept DEF authorVars, TypeOK
<1>11. RunOK(w)'
  BY <1>1, <1>3, <1>6, <1>7 DEF RunOK, At
<1>12. SeesRows(w) => SeesRows(w)'
  BY <1>6, <1>7, <1>9 DEF SeesRows, Current
<1>13. ~overlapped => OwedIsDirty' /\ CurrentRun(w)'
  <2>1. ~overlapped => OwedIsDirty /\ CurrentRun(w)
    BY DEF IInv, CurrentInv
  <2> QED
    BY <1>3, <1>6, <1>7, <1>9, <1>12, <2>1 DEF OwedIsDirty, CurrentRun, At, authorVars
<1>14. run.quiet => worker[w].quiet /\ QuietRun(w)'
  <2> SUFFICES ASSUME worker[w].quiet PROVE QuietRun(w)'
    BY <1>6
  <2>1. QuietRun(w)
    BY DEF IInv, QuietInv
  <2>2. ASSUME live PROVE Covers(w)' /\ SeesRows(w)' /\ \A e \in evidence' : InForce(e)'
    <3>1. Covers(w) /\ SeesRows(w) /\ \A e \in evidence : InForce(e)
      BY <2>1, <2>2 DEF QuietRun, At, Pruned
    <3>2. DirtyRows = {} /\ DirtyRows' = {}
      BY <1>9, <3>1 DEF Covers, At, DirtyRows
    <3>3. \A e \in evidence' : InForce(e)'
      BY <1>8, <1>9, <3>1, InForceKept
    <3> QED
      BY <1>12, <3>1, <3>2, <3>3 DEF Covers
  \* What is approved was fresh evidence, and what stays eligible still is.
  <2>3. \A e \in eligible : e \in evidence' /\ Fresh(e)'
    <3>1. \A e \in worker[w].eligible : e \in evidence /\ Fresh(e)
      BY <2>1 DEF QuietRun
    <3>2. g = f
      BY <1>8, <3>1
    <3> QED
      BY <1>2, <1>8, <1>9, <3>1, <3>2 DEF Fresh
  <2> QED
    BY <1>6, <1>7, <2>2, <2>3 DEF QuietRun, At, authorVars
<1>15. /\ ~At(w, "idle") /\ UNCHANGED <<content, live, overlapped>>
       /\ \A k \in DOMAIN rows : rows'[k].owed => rows[k].owed
       /\ \A e \in evidence' : e \in evidence
  BY <1>8, <1>9 DEF At, authorVars
<1>16. EventInv'
  BY <1>1, EventsSame DEF IInv
<1> QED
  BY <1>7, <1>9, <1>10, <1>11, <1>13, <1>14, <1>15, <1>16, RunStepKeeps

\* The event a step writes has the types; writing an event that is not there does nothing.
LEMMA EventWritten ==
  ASSUME TypeOK, EventInv, NEW i, NEW e, events' = [events EXCEPT ![i] = e],
         i \in EventIds => e \in Event /\ EventOK(e)
  PROVE  events' \in Seq(Event) /\ EventIds' = EventIds /\ EventInv'
<1>1. CASE i \in EventIds
  BY <1>1, EventChanged, EventInvKept
<1>2. CASE i \notin EventIds
  <2>1. DOMAIN events = 1..Len(events) /\ Len(events) \in Nat /\ \A j \in DOMAIN events : events[j] \in Event
    BY DEF TypeOK
  <2>3. DOMAIN events' = DOMAIN events /\ \A j \in DOMAIN events : events'[j] = events[j]
    BY <1>2 DEF EventIds
  <2>4. events' = [j \in 1..Len(events) |-> events'[j]]
    BY <2>1
  <2>2. events' \in Seq(Event)
    BY <2>1, <2>3, <2>4, SeqByElements
  <2> QED
    BY <2>2, <2>3, EventInvKept DEF EventIds
<1> QED
  BY <1>1, <1>2

LEMMA MarkProcessedKeeps ==
  ASSUME IInv, NEW w \in Workers, MarkProcessed(w)
  PROVE  IInv'
<1> USE DEF MarkProcessed
<1>1. TypeOK /\ EventInv
  BY DEF IInv
<1>2. PICK i, e, f :
        /\ i = Doing(w) /\ e = [events[i] EXCEPT !.done = TRUE, !.status = "SUCCEEDED"]
        /\ f = IF HoldsLock(w) THEN [e EXCEPT !.job = "gone", !.holder = NoWorker] ELSE e
        /\ events' = [events EXCEPT ![i] = f]
  OBVIOUS
<1>3. ASSUME i \in EventIds PROVE f \in Event /\ EventOK(f)
  <2>1. events[i] \in Event /\ EventOK(events[i])
    BY <1>1, <1>3, EventType DEF EventInv
  <2>2. e = [hash |-> events[i].hash, done |-> TRUE, job |-> events[i].job, status |-> "SUCCEEDED",
             tries |-> events[i].tries, holder |-> events[i].holder]
    BY ONLY <1>2, <2>1 DEF Event
  <2>3. e \in Event /\ EventOK(e)
    BY <2>1, <2>2 DEF Event, EventOK
  <2>4. PICK g : g = [e EXCEPT !.job = "gone", !.holder = NoWorker]
    OBVIOUS
  <2>5. g = [hash |-> e.hash, done |-> e.done, job |-> "gone", status |-> e.status,
             tries |-> e.tries, holder |-> NoWorker]
    BY ONLY <2>3, <2>4 DEF Event
  <2>6. g \in Event
    BY <2>3, <2>5 DEF Event, JobStates
  <2>7. HoldsLock(w) => EventOK(g)
    <3>1. HoldsLock(w) => events[i].job = "active"
      BY <1>2, <2>1, NoWorkerAssumption DEF HoldsLock, EventOK
    <3> QED
      BY <2>1, <2>2, <2>5, <3>1 DEF EventOK
  <2> QED
    BY <1>2, <2>3, <2>4, <2>6, <2>7
<1>4. events' \in Seq(Event) /\ EventIds' = EventIds /\ EventInv'
  BY <1>1, <1>2, <1>3, EventWritten
<1>5. worker' = [worker EXCEPT ![w] = Idle] /\ worker' \in [Workers -> Run]
  BY <1>1, IdleTyped, WorkerTyped DEF Release
<1>6. TypeOK'
  BY <1>1, <1>4, <1>5, TypesKept DEF authorVars, TypeOK
<1>7. ~At(w, "idle") /\ UNCHANGED <<content, live, overlapped, rows, evidence>>
  BY DEF At, authorVars
<1> QED
  BY <1>4, <1>6, <1>7, ReleaseKeeps

\* What a failed attempt does to the job, if the worker still holds its lock.
LEMMA ThrowKeeps ==
  ASSUME IInv, NEW w \in Workers, Throw(w)
  PROVE  IInv'
<1> USE DEF Throw
<1>1. TypeOK /\ EventInv
  BY DEF IInv
<1>2. PICK i, job : i = Doing(w) /\ job = IF events[i].tries + 1 >= Attempts THEN "failed" ELSE "retry"
  OBVIOUS
<1>3. events' \in Seq(Event) /\ EventIds' = EventIds /\ EventInv'
  <2>1. CASE ~HoldsLock(w)
    BY <1>1, <2>1, EventsSame
  <2>2. CASE HoldsLock(w)
    <3>1. PICK e : e = [events[i] EXCEPT !.tries = events[i].tries + 1, !.holder = NoWorker, !.job = job]
      OBVIOUS
    <3>2. events' = [events EXCEPT ![i] = e]
      BY <1>1, <1>2, <2>2, <3>1 DEF TypeOK, EventIds
    <3>3. ASSUME i \in EventIds PROVE e \in Event /\ EventOK(e)
      <4>1. events[i] \in Event /\ EventOK(events[i]) /\ events[i].tries \in 0..Attempts
        BY <1>1, <3>3, EventType DEF EventInv
      <4>2. events[i].tries + 1 \in 0..Attempts
        BY <1>2, <2>2, <4>1, BoundsAssumption, NoWorkerAssumption DEF HoldsLock, EventOK
      <4>3. e = [hash |-> events[i].hash, done |-> events[i].done, job |-> job,
                 status |-> events[i].status, tries |-> events[i].tries + 1, holder |-> NoWorker]
        BY ONLY <3>1, <4>1 DEF Event
      <4> QED
        BY <1>2, <4>1, <4>2, <4>3, BoundsAssumption DEF Event, EventOK, JobStates
    <3> QED
      BY <1>1, <3>2, <3>3, EventWritten
  <2> QED
    BY <2>1, <2>2
<1>4. \A f \in evidence' : f \in Fact /\ (f \in evidence \/ [id |-> f.chunk, text |-> f.text] \in worker[w].seen)
  <2>1. CASE ~At(w, "chunk")
    BY <1>1, <2>1 DEF TypeOK
  <2>2. CASE At(w, "chunk")
    <3>1. PICK stored \in StoredKinds(w) : evidence' = evidence \cup Found(w, stored \cap Kinds)
      BY <2>2
    <3>2. worker[w].todo # {}
      BY <2>2 DEF IInv, RunOK
    <3>3. \A f \in Found(w, stored \cap Kinds) :
            f \in Fact /\ [id |-> f.chunk, text |-> f.text] \in worker[w].seen
      BY <3>2, FoundFacts
    <3> QED
      BY <1>1, <3>1, <3>3 DEF TypeOK
  <2> QED
    BY <2>1, <2>2
<1>5. worker' = [worker EXCEPT ![w] = Idle] /\ worker' \in [Workers -> Run]
  BY <1>1, IdleTyped, WorkerTyped DEF Release
<1>6. TypeOK'
  BY <1>1, <1>3, <1>4, <1>5, TypesKept DEF authorVars, TypeOK
<1>7. ~At(w, "idle") /\ UNCHANGED <<content, live, overlapped, rows>>
  BY DEF authorVars
<1> QED
  BY <1>3, <1>4, <1>6, <1>7, ReleaseKeeps

LEMMA CrashKeeps ==
  ASSUME IInv, NEW w \in Workers, Crash(w)
  PROVE  IInv'
<1> USE DEF Crash
<1>1. TypeOK /\ EventInv
  BY DEF IInv
<1>2. PICK i : i = Doing(w)
  OBVIOUS
<1>3. events' \in Seq(Event) /\ EventIds' = EventIds /\ EventInv'
  <2>1. CASE ~HoldsLock(w)
    BY <1>1, <2>1, EventsSame
  <2>2. CASE HoldsLock(w)
    <3>1. PICK e : e = [events[i] EXCEPT !.job = "retry", !.holder = NoWorker]
      OBVIOUS
    <3>2. events' = [events EXCEPT ![i] = e]
      BY <1>1, <1>2, <2>2, <3>1 DEF TypeOK, EventIds
    <3>3. ASSUME i \in EventIds PROVE e \in Event /\ EventOK(e)
      <4>1. events[i] \in Event /\ EventOK(events[i])
        BY <1>1, <3>3, EventType DEF EventInv
      <4>2. events[i].tries < Attempts
        BY <1>2, <2>2, <4>1, NoWorkerAssumption DEF HoldsLock, EventOK
      <4>3. e = [hash |-> events[i].hash, done |-> events[i].done, job |-> "retry",
                 status |-> events[i].status, tries |-> events[i].tries, holder |-> NoWorker]
        BY ONLY <3>1, <4>1 DEF Event
      <4> QED
        BY <4>1, <4>2, <4>3 DEF Event, EventOK, JobStates
    <3> QED
      BY <1>1, <3>2, <3>3, EventWritten
  <2> QED
    BY <2>1, <2>2
<1>4. worker' = [worker EXCEPT ![w] = Idle] /\ worker' \in [Workers -> Run]
  BY <1>1, IdleTyped, WorkerTyped DEF Release
<1>5. faults' \in 0..FaultBudget
  BY <1>1, BoundsAssumption DEF Fault, TypeOK
<1>6. TypeOK'
  BY <1>1, <1>3, <1>4, <1>5, TypesKept DEF authorVars, TypeOK
<1>7. ~At(w, "idle") /\ UNCHANGED <<content, live, overlapped, rows, evidence>>
  BY DEF authorVars
<1> QED
  BY <1>3, <1>6, <1>7, ReleaseKeeps

\* An event that failed for good: the rows are dirty again, and nobody is alone.
LEMMA FinalizeFailedKeeps ==
  ASSUME IInv, NEW i \in EventIds, FinalizeFailed(i)
  PROVE  IInv'
<1> USE DEF FinalizeFailed
<1>1. TypeOK /\ EventInv
  BY DEF IInv
<1>2. /\ DOMAIN rows' = DOMAIN rows
      /\ \A k \in DOMAIN rows :
           /\ rows'[k] \in Row /\ rows'[k].id = rows[k].id /\ rows'[k].text = rows[k].text
           /\ rows'[k].dirty /\ rows'[k].owed = rows[k].owed
  <2> SUFFICES ASSUME NEW k \in DOMAIN rows
               PROVE  /\ rows'[k] \in Row /\ rows'[k].id = rows[k].id /\ rows'[k].text = rows[k].text
                      /\ rows'[k].dirty /\ rows'[k].owed = rows[k].owed
    OBVIOUS
  <2>1. rows[k] \in Row
    BY <1>1, RowType
  <2>2. rows'[k] = [rows[k] EXCEPT !.dirty = TRUE]
    OBVIOUS
  <2>3. rows'[k] = [id |-> rows[k].id, text |-> rows[k].text, dirty |-> TRUE, owed |-> rows[k].owed]
    BY ONLY <2>1, <2>2 DEF Row
  <2> QED
    BY <2>1, <2>3 DEF Row
<1>3. rows' \in Seq(Row)
  <2>1. DOMAIN rows = 1..Len(rows) /\ Len(rows) \in Nat
    BY <1>1 DEF TypeOK
  <2>2. rows' = [k \in 1..Len(rows) |-> rows'[k]]
    BY <2>1
  <2>3. \A k \in 1..Len(rows) : rows'[k] \in Row
    BY <1>2, <2>1
  <2> QED
    BY <2>1, <2>2, <2>3, SeqByElements
<1>4. SameTexts
  BY <1>2 DEF SameTexts
<1>5. \A w \in Workers :
        /\ worker'[w] \in Run /\ ~worker'[w].quiet
        /\ worker'[w].pc = worker[w].pc /\ worker'[w].hasText = worker[w].hasText
        /\ worker'[w].seen = worker[w].seen /\ worker'[w].todo = worker[w].todo
  BY <1>1, DisturbedFacts
<1>6. events' \in Seq(Event) /\ EventIds' = EventIds /\ EventInv'
  <2>1. PICK e : e = [events[i] EXCEPT !.done = TRUE, !.status = "FAILED"]
    OBVIOUS
  <2>2. events' = [events EXCEPT ![i] = e]
    BY <1>1, <2>1 DEF TypeOK, EventIds
  <2>3. events[i] \in Event /\ EventOK(events[i])
    BY <1>1, EventType DEF EventInv
  <2>4. e = [hash |-> events[i].hash, done |-> TRUE, job |-> events[i].job, status |-> "FAILED",
             tries |-> events[i].tries, holder |-> events[i].holder]
    BY ONLY <2>1, <2>3 DEF Event
  <2>5. e \in Event /\ EventOK(e)
    BY <2>3, <2>4 DEF Event, EventOK
  <2> QED
    BY <1>1, <2>2, <2>5, EventWritten
<1>7. worker' \in [Workers -> Run]
  BY <1>5 DEF Disturbed
<1>8. TypeOK'
  BY <1>1, <1>3, <1>6, <1>7, TypesKept DEF authorVars, TypeOK
<1>9. RowsInv' /\ EvidenceInv'
  BY <1>4, RowsKept DEF IInv, EvidenceInv, authorVars
<1>10. \A w \in Workers : RunOK(w)'
  BY <1>5 DEF IInv, RunOK, At
<1>11. CurrentInv'
  <2> SUFFICES ASSUME ~overlapped PROVE OwedIsDirty' /\ AlertsAreCurrent' /\ \A w \in Workers : CurrentRun(w)'
    BY DEF CurrentInv, authorVars
  <2>1. AlertsAreCurrent /\ \A w \in Workers : CurrentRun(w)
    BY DEF IInv, CurrentInv
  <2>2. OwedIsDirty'
    BY <1>2 DEF OwedIsDirty
  <2>3. AlertsAreCurrent'
    BY <1>4, <2>1, CurrentKept DEF AlertsAreCurrent
  <2>4. ASSUME NEW w \in Workers PROVE CurrentRun(w)'
    <3>1. CurrentRun(w)
      BY <2>1
    <3>2. SeesRows(w)'
      <4> SUFFICES ASSUME NEW s \in worker[w].seen PROVE Current(s.id, s.text)'
        BY <1>5 DEF SeesRows
      <4> QED
        BY <1>4, <3>1, CurrentKept DEF CurrentRun, SeesRows
    <3>3. Chunk(w)' = Chunk(w)
      BY <1>5 DEF Chunk
    <3>4. At(w, "clear")' => \A k \in DOMAIN rows' : rows'[k].id = Chunk(w).id => ~rows'[k].owed
      BY <1>2, <1>5, <3>1 DEF CurrentRun, At
    <3> QED
      BY <1>5, <3>1, <3>2, <3>3, <3>4 DEF CurrentRun, At, authorVars
  <2> QED
    BY <2>2, <2>3, <2>4
<1>12. QuietInv'
  BY <1>5 DEF QuietInv
<1> QED
  BY <1>6, <1>8, <1>9, <1>10, <1>11, <1>12 DEF IInv

\* What happens to events only: requests, lost locks and redeliveries.
LEMMA LoseLockKeeps ==
  ASSUME IInv, NEW i \in EventIds, LoseLock(i)
  PROVE  IInv'
<1> USE DEF LoseLock
<1>1. TypeOK /\ EventInv
  BY DEF IInv
<1>2. PICK e : e = [events[i] EXCEPT !.job = "retry", !.holder = NoWorker]
  OBVIOUS
<1>3. events' = [events EXCEPT ![i] = e]
  BY <1>1, <1>2 DEF TypeOK, EventIds
<1>4. events[i] \in Event /\ EventOK(events[i])
  BY <1>1, EventType DEF EventInv
<1>5. e = [hash |-> events[i].hash, done |-> events[i].done, job |-> "retry",
           status |-> events[i].status, tries |-> events[i].tries, holder |-> NoWorker]
  BY ONLY <1>2, <1>4 DEF Event
<1>6. e \in Event /\ EventOK(e)
  BY <1>4, <1>5 DEF Event, EventOK, JobStates
<1>7. events' \in Seq(Event) /\ EventIds' = EventIds /\ EventInv'
  BY <1>1, <1>3, <1>6, EventWritten
<1>8. faults' \in 0..FaultBudget
  BY <1>1, BoundsAssumption DEF Fault, TypeOK
<1>9. TypeOK'
  BY <1>1, <1>7, <1>8, TypesKept DEF authorVars, TypeOK
<1>10. UNCHANGED <<content, rows, worker, evidence, overlapped, live>>
  BY DEF authorVars
<1> QED
  BY <1>7, <1>9, <1>10, OtherStepKeeps

LEMMA RequeueKeeps ==
  ASSUME IInv, NEW i \in EventIds, Requeue(i)
  PROVE  IInv'
<1> USE DEF Requeue
<1>1. TypeOK /\ EventInv
  BY DEF IInv
<1>2. PICK e : e = [events[i] EXCEPT !.job = "waiting", !.tries = 0]
  OBVIOUS
<1>3. events' = [events EXCEPT ![i] = e]
  BY <1>1, <1>2 DEF TypeOK, EventIds
<1>4. events[i] \in Event /\ EventOK(events[i])
  BY <1>1, EventType DEF EventInv
<1>5. e = [hash |-> events[i].hash, done |-> events[i].done, job |-> "waiting",
           status |-> events[i].status, tries |-> 0, holder |-> events[i].holder]
  BY ONLY <1>2, <1>4 DEF Event
<1>6. e \in Event /\ EventOK(e)
  BY <1>4, <1>5, BoundsAssumption DEF Event, EventOK, JobStates
<1>7. events' \in Seq(Event) /\ EventIds' = EventIds /\ EventInv'
  BY <1>1, <1>3, <1>6, EventWritten
<1>8. faults' \in 0..FaultBudget
  BY <1>1, BoundsAssumption DEF Fault, TypeOK
<1>9. TypeOK'
  BY <1>1, <1>7, <1>8, TypesKept DEF authorVars, TypeOK
<1>10. UNCHANGED <<content, rows, worker, evidence, overlapped, live>>
  BY DEF authorVars
<1> QED
  BY <1>7, <1>9, <1>10, OtherStepKeeps

LEMMA RequestAnalysisKeeps ==
  ASSUME IInv, RequestAnalysis
  PROVE  IInv'
<1> USE DEF RequestAnalysis
<1>1. TypeOK /\ EventInv /\ content \in Contents
  BY DEF IInv, TypeOK
<1>2. events' \in Seq(Event) /\ EventIds \subseteq EventIds' /\ EventInv'
  BY <1>1, EventsEnqueued
<1>3. TypeOK'
  <2>1. Run \subseteq Run' /\ Row' = Row
    BY <1>1, <1>2, RunTypeKept DEF TypeOK, Row, Ids
  <2>2. worker' \in [Workers -> Run]'
    BY <1>1, <2>1 DEF TypeOK
  <2>3. rows' \in Seq(Row)'
    BY <1>1, <2>1 DEF TypeOK
  <2> QED
    BY <1>1, <1>2, <2>2, <2>3 DEF TypeOK, authorVars, Event, Fact
<1>4. UNCHANGED <<content, rows, worker, evidence, overlapped, live>>
  BY DEF authorVars
<1> QED
  BY <1>2, <1>3, <1>4, OtherStepKeeps

LEMMA NextKeeps == IInv /\ [Next]_vars => IInv'
<1> SUFFICES ASSUME IInv, [Next]_vars PROVE IInv'
  OBVIOUS
<1>0. TypeOK /\ EventInv
  BY DEF IInv
<1>1. ASSUME NEW c \in Contents, Save(c) PROVE IInv'
  <2>1. EnqueueSceneChanged(c) \/ UNCHANGED events
    BY <1>1 DEF Save
  <2>2. optedOut' \in BOOLEAN /\ Rewrite(c)
    BY <1>0, <1>1 DEF Save, TypeOK
  <2> QED
    BY <2>1, <2>2, RewriteKeeps
<1>2. ASSUME NEW c \in Contents, Restore(c) PROVE IInv'
  <2>1. optedOut' \in BOOLEAN /\ Rewrite(c) /\ CreateEvent(c)
    BY <1>0, <1>2 DEF Restore, TypeOK
  <2> QED
    BY <2>1, RewriteKeeps
<1>3. CASE RequestAnalysis
  BY <1>3, RequestAnalysisKeeps
<1>4. CASE ToggleAutoAnalysis \/ SoftDelete
  <2>1. /\ UNCHANGED <<content, saves, overlapped, optedOut, rows, ids, events, worker, evidence,
                       approved, faults>>
        /\ live' \in BOOLEAN /\ auto' \in BOOLEAN /\ (live' => live)
    <3>1. CASE ToggleAutoAnalysis
      BY <1>0, <3>1 DEF ToggleAutoAnalysis, TypeOK
    <3>2. CASE SoftDelete
      BY <1>0, <3>2 DEF SoftDelete, TypeOK
    <3> QED
      BY <1>4, <3>1, <3>2
  <2>2. TypeOK'
    BY <1>0, <2>1, TypesKept DEF TypeOK, EventIds
  <2>3. EventInv'
    BY <1>0, <2>1, EventsSame
  <2> QED
    BY <2>1, <2>2, <2>3, OtherStepKeeps
<1>5. ASSUME NEW w \in Workers, NEW i \in EventIds, Take(w, i) PROVE IInv'
  BY <1>5, TakeKeeps
<1>6. ASSUME NEW w \in Workers, ReadChunks(w) PROVE IInv'
  BY <1>6, ReadChunksKeeps
<1>7. ASSUME NEW w \in Workers, Prune(w) PROVE IInv'
  BY <1>7, PruneKeeps
<1>8. ASSUME NEW w \in Workers, Extract(w) PROVE IInv'
  BY <1>8, ExtractKeeps
<1>9. ASSUME NEW w \in Workers, ClearDirty(w) PROVE IInv'
  BY <1>9, ClearDirtyKeeps
<1>10. ASSUME NEW w \in Workers, Review(w) PROVE IInv'
  BY <1>10, ReviewKeeps
<1>11. ASSUME NEW w \in Workers, NEW f \in worker[w].eligible, Approve(w, f) PROVE IInv'
  BY <1>11, ApproveKeeps
<1>12. ASSUME NEW w \in Workers, MarkProcessed(w) PROVE IInv'
  BY <1>12, MarkProcessedKeeps
<1>13. ASSUME NEW w \in Workers, Throw(w) PROVE IInv'
  BY <1>13, ThrowKeeps
<1>14. ASSUME NEW i \in EventIds, FinalizeFailed(i) PROVE IInv'
  BY <1>14, FinalizeFailedKeeps
<1>15. ASSUME NEW w \in Workers, Crash(w) PROVE IInv'
  BY <1>15, CrashKeeps
<1>16. ASSUME NEW i \in EventIds, LoseLock(i) PROVE IInv'
  BY <1>16, LoseLockKeeps
<1>17. ASSUME NEW i \in EventIds, Requeue(i) PROVE IInv'
  BY <1>17, RequeueKeeps
<1>18. CASE UNCHANGED vars
  <2>1. UNCHANGED <<content, live, auto, saves, overlapped, optedOut, rows, ids, events, worker,
                    evidence, approved, faults>>
    BY <1>18 DEF vars
  <2>2. TypeOK'
    BY <1>0, <2>1, TypesKept DEF TypeOK, EventIds
  <2>3. EventInv'
    BY <1>0, <2>1, EventsSame
  <2> QED
    BY <2>1, <2>2, <2>3, OtherStepKeeps
<1> QED
  BY <1>1, <1>2, <1>3, <1>4, <1>5, <1>6, <1>7, <1>8, <1>9, <1>10, <1>11, <1>12, <1>13, <1>14,
     <1>15, <1>16, <1>17, <1>18 DEF Next

\* A step of the automation approves what the review found fresh.
LEMMA QuietStepSettles ==
  ASSUME IInv, [Next]_vars, NEW w \in Workers, worker[w].quiet
  PROVE  Settles(w) /\ ApprovesFresh(w)
<1>1. Alone(w) /\ QuietRun(w)
  BY DEF IInv, QuietInv
<1>2. Settles(w)
  <2> SUFFICES ASSUME At(w, "mark"), live PROVE ~AnythingDirty /\ \A f \in evidence : InForce(f)
    BY DEF Settles, Finishes
  <2>1. DirtyRows = {}
    BY <1>1 DEF QuietRun, Covers, At
  <2> QED
    BY <1>1, <2>1 DEF QuietRun, At, Pruned, AnythingDirty, DirtyRows
<1>3. ApprovesFresh(w)
  <2> SUFFICES ASSUME At(w, "approve"), NEW f \in approved' \ approved PROVE Fresh(f)
    BY DEF ApprovesFresh
  <2>1. PICK v \in Workers : \E g \in worker[v].eligible : Approve(v, g)
    BY DEF Next, vars, Save, Restore, Rewrite, RequestAnalysis, ToggleAutoAnalysis, SoftDelete, Take,
           ReadChunks, Prune, Extract, ClearDirty, Review, MarkProcessed, Throw, FinalizeFailed,
           Crash, LoseLock, Requeue
  <2>0. PICK g \in worker[v].eligible : Approve(v, g)
    BY <2>1
  <2>2. v = w
    BY <1>1, <2>0 DEF Alone, Approve, At
  <2>3. g \in evidence /\ Fresh(g)
    BY <1>1, <2>0, <2>2 DEF QuietRun, Approve
  <2>4. f = g
    BY <2>0, <2>3 DEF Approve
  <2> QED
    BY <2>3, <2>4
<1> QED
  BY <1>2, <1>3
-----------------------------------------------------------------------------
(* One worker *)

\* What is known while an event is handled: those before it are gone, those after it wait.
LEMMA OneRun ==
  ASSUME NEW w, Workers = {w}, TypeOK, QueueInv, ~At(w, "idle")
  PROVE  /\ Doing(w) \in EventIds /\ HoldsLock(w)
         /\ events[Doing(w)].job = "active" /\ ~events[Doing(w)].done
         /\ events[Doing(w)].status # "FAILED"
         /\ \A j \in EventIds : j < Doing(w) => events[j].job = "gone"
         /\ \A j \in EventIds : j > Doing(w) => events[j].job = "waiting"
         /\ ~LastFailed
<1>1. /\ Doing(w) \in EventIds /\ events[Doing(w)].job = "active"
      /\ \A j \in EventIds : j \in Nat
      /\ events # <<>> => Len(events) \in EventIds /\ \A j \in EventIds : j <= Len(events)
  BY RunType DEF QueueInv, Doing, EventIds, TypeOK
<1>2. PICK v \in Workers : Runs(v, Doing(w))
  BY <1>1 DEF QueueInv
<1>3. HoldsLock(w)
  BY <1>2 DEF Runs, HoldsLock
<1>4. \A j \in EventIds : j < Doing(w) => events[j].job = "gone"
  BY <1>1 DEF QueueInv
<1>5. \A j \in EventIds : j > Doing(w) => events[j].job = "waiting"
  <2> SUFFICES ASSUME NEW j \in EventIds, j > Doing(w), events[j].job # "waiting" PROVE FALSE
    OBVIOUS
  <2>1. Doing(w) < j
    BY <1>1
  <2>2. events[Doing(w)].job = "gone"
    BY <1>1, <2>1 DEF QueueInv
  <2> QED
    BY <1>1, <2>2
<1>6. ~events[Doing(w)].done /\ events[Doing(w)].status # "FAILED"
  BY <1>1 DEF QueueInv, JobOK, Handled
<1>7. ~LastFailed
  <2> SUFFICES ASSUME LastFailed PROVE FALSE
    OBVIOUS
  <2>1. Len(events) \in EventIds /\ events[Len(events)].status = "FAILED"
    BY <1>1 DEF LastFailed
  <2>2. events[Len(events)].job = "failed"
    BY <2>1 DEF QueueInv, JobOK
  <2>4. Doing(w) \in Nat /\ Len(events) \in Nat /\ Doing(w) <= Len(events)
    BY <1>1, <2>1 DEF LastFailed
  <2>3. Len(events) = Doing(w) \/ Len(events) > Doing(w)
    BY ONLY <2>4
  <2> QED
    BY <1>1, <1>5, <2>1, <2>2, <2>3
<1> QED
  BY <1>1, <1>3, <1>4, <1>5, <1>6, <1>7

LEMMA OrderlyIfUndisturbed == Undisturbed => Orderly
BY DEF Undisturbed, Orderly

\* A step of a run that writes no event.
LEMMA RunKeepsWork ==
  ASSUME NEW w, Workers = {w}, TypeOK, WorkInv, ~At(w, "idle"), ~At(w, "idle")',
         Doing(w)' = Doing(w), UNCHANGED <<content, live, events, faults, optedOut>>,
         DirtyRows' \subseteq DirtyRows, live /\ Covers(w) => Covers(w)'
  PROVE  WorkInv'
<1>1. /\ EventIds' = EventIds /\ Pending' = Pending
      /\ Orderly' <=> Orderly
      /\ Undisturbed' <=> Undisturbed
  BY DEF EventIds, Pending, Orderly, Undisturbed
<1>2. \A v \in Workers, i \in EventIds : Runs(v, i) => Runs(v, i)'
  BY DEF Runs
<1>3. ASSUME Orderly PROVE QueueInv' /\ FailureInv'
  <2>1. QueueInv
    BY <1>3 DEF WorkInv
  <2>2. ~LastFailed
    BY <2>1, OneRun
  <2>3. FailureInv'
    BY <2>2 DEF FailureInv, LastFailed
  <2>4. \A v \in Workers : ~At(v, "idle")' => Doing(v)' # 0 /\ events'[Doing(v)'].job = "active"
    BY <2>1 DEF QueueInv
  <2>5. \A i \in EventIds : events[i].job = "active" => \E v \in Workers : Runs(v, i)'
    BY <1>2, <2>1 DEF QueueInv
  <2>6. QueueInv'
    BY <1>1, <2>1, <2>4, <2>5 DEF QueueInv
  <2> QED
    BY <2>3, <2>6
<1>4. ASSUME Undisturbed, ~optedOut PROVE LastEventInv'
  <2>1. LastEventInv
    BY <1>4 DEF WorkInv
  <2> QED
    BY <1>1, <2>1 DEF LastEventInv
<1> QED
  BY <1>1, <1>3, <1>4 DEF WorkInv

\* A step that writes an event for the content of the scene.
LEMMA AppendKeepsWork ==
  ASSUME NEW w, Workers = {w}, TypeOK, WorkInv, NEW h \in Contents, CreateEvent(h), h = content',
         faults' = faults, worker'[w].pc = worker[w].pc, worker'[w].event = worker[w].event
  PROVE  WorkInv'
<1>1. PICK n : n = Len(events) + 1
  OBVIOUS
<1>2. /\ n \in Nat /\ Len(events') = n /\ events' # <<>>
      /\ EventIds' = EventIds \cup {n}
      /\ \A i \in EventIds : i < n /\ i \in Nat /\ events'[i] = events[i]
      /\ events'[n] = NewEvent(h)
  <2>1. Len(events) \in Nat /\ EventIds = 1..Len(events)
    BY DEF TypeOK, EventIds
  <2>2. n \in Nat /\ \A i \in EventIds : i < n /\ i \in Nat
    BY ONLY <1>1, <2>1
  <2>3. /\ Len(events') = n /\ EventIds' = EventIds \cup {n} /\ events'[n] = NewEvent(h)
        /\ \A i \in EventIds : events'[i] = events[i]
    BY <1>1, EventsAppended
  <2>4. events' # <<>>
    <3>1. n \in DOMAIN events'
      BY <2>3 DEF EventIds
    <3> QED
      BY ONLY <3>1
  <2> QED
    BY <2>2, <2>3, <2>4
<1>3. /\ events'[n].job = "waiting" /\ ~events'[n].done /\ events'[n].status = "QUEUED"
      /\ events'[n].hash = h
  BY <1>2 DEF NewEvent
<1>4. Orderly' => Orderly
  BY <1>2 DEF Orderly
<1>5. ASSUME Orderly PROVE QueueInv' /\ FailureInv'
  <2>1. QueueInv
    BY <1>5 DEF WorkInv
  <2>2. FailureInv'
    BY <1>2, <1>3 DEF FailureInv, LastFailed
  <2>3. \A v \in Workers, i \in EventIds : Runs(v, i) => Runs(v, i)'
    BY <1>2 DEF Runs, At, Doing
  <2>4. \A v \in Workers : ~At(v, "idle")' => Doing(v)' # 0 /\ events'[Doing(v)'].job = "active"
    <3>1. ~At(w, "idle") => Doing(w) \in EventIds /\ events[Doing(w)].job = "active"
      BY <2>1, OneRun
    <3>2. ~At(w, "idle") => Doing(w) # 0
      BY <2>1 DEF QueueInv
    <3> QED
      BY <1>2, <3>1, <3>2 DEF At, Doing
  <2>5. ASSUME NEW i \in EventIds
        PROVE  /\ JobOK(events'[i])
               /\ events'[i].job = "active" => \E v \in Workers : Runs(v, i)'
               /\ events'[i].job # "waiting" => \A j \in EventIds' : j < i => events'[j].job = "gone"
    <3>1. \A j \in EventIds' : j < i => j \in EventIds
      BY <1>2
    <3> QED
      BY <1>2, <2>1, <2>3, <3>1 DEF QueueInv
  <2> QED
    BY <1>2, <1>3, <2>2, <2>4, <2>5 DEF QueueInv, JobOK, Handled
<1>6. LastEventInv'
  <2>1. Doing(w)' # n
    <3>1. Doing(w) \in {0} \cup EventIds
      BY RunType DEF Doing
    <3> QED
      BY <1>1, <1>2, <3>1 DEF Doing, TypeOK
  <2>2. n \in Pending'
    BY <1>2, <1>3 DEF Pending
  <2> QED
    BY <1>2, <1>3, <2>1, <2>2 DEF LastEventInv
<1> QED
  BY <1>4, <1>5, <1>6 DEF WorkInv

\* Another step that writes no event.
LEMMA OtherKeepsWork ==
  ASSUME NEW w, Workers = {w}, TypeOK, WorkInv, UNCHANGED <<events, faults>>,
         worker'[w].pc = worker[w].pc, worker'[w].event = worker[w].event,
         DirtyRows = DOMAIN rows => DirtyRows' = DOMAIN rows',
         Undisturbed /\ ~optedOut' => LastEventInv'
  PROVE  WorkInv'
<1>1. EventIds' = EventIds /\ (Orderly' <=> Orderly) /\ (Undisturbed' <=> Undisturbed)
  BY DEF EventIds, Orderly, Undisturbed
<1>2. \A v \in Workers, i \in EventIds : Runs(v, i) => Runs(v, i)'
  BY DEF Runs, At, Doing
<1>3. ASSUME Orderly PROVE QueueInv' /\ FailureInv'
  <2>1. QueueInv /\ FailureInv
    BY <1>3 DEF WorkInv
  <2>2. FailureInv'
    BY <2>1 DEF FailureInv, LastFailed
  <2>3. \A v \in Workers : ~At(v, "idle")' => Doing(v)' # 0 /\ events'[Doing(v)'].job = "active"
    BY <2>1 DEF QueueInv, At, Doing
  <2>4. \A i \in EventIds : events[i].job = "active" => \E v \in Workers : Runs(v, i)'
    BY <1>2, <2>1 DEF QueueInv
  <2>5. QueueInv'
    BY <1>1, <2>1, <2>3, <2>4 DEF QueueInv
  <2> QED
    BY <2>2, <2>5
<1> QED
  BY <1>1, <1>3 DEF WorkInv

\* A job is taken when those before it are gone.
LEMMA TakeKeepsWork ==
  ASSUME NEW w, Workers = {w}, TypeOK, WorkInv, NEW i \in EventIds, Take(w, i)
  PROVE  WorkInv'
<1> USE DEF Take
<1>1. PICK e, run, pc :
        /\ e = [events[i] EXCEPT !.job = "active", !.holder = w, !.status = "RUNNING"]
        /\ run = worker'[w] /\ pc = IF live THEN "read" ELSE "mark"
  OBVIOUS
<1>2. /\ e.job = "active" /\ e.holder = w /\ e.status = "RUNNING"
      /\ e.hash = events[i].hash /\ e.done = events[i].done /\ e.tries = events[i].tries
  <2>1. events[i] \in Event
    BY EventType
  <2>2. e = [hash |-> events[i].hash, done |-> events[i].done, job |-> "active",
             status |-> "RUNNING", tries |-> events[i].tries, holder |-> w]
    BY ONLY <1>1, <2>1 DEF Event
  <2> QED
    BY ONLY <2>2
<1>3. /\ EventIds' = EventIds /\ Len(events') = Len(events) /\ (events' = <<>> <=> events = <<>>)
      /\ events'[i] = e /\ \A j \in EventIds : j # i => events'[j] = events[j]
  BY <1>1 DEF TypeOK, EventIds
<1>4. worker'[w].pc = pc /\ worker'[w].event = i
  <2>1. DOMAIN Disturbed = Workers
    BY DEF Disturbed
  <2>2. PICK text, alone :
          worker'[w] = [Idle EXCEPT !.pc = pc, !.event = i, !.hasText = text, !.quiet = alone]
    BY <1>1, <2>1
  <2> QED
    BY ONLY <2>2 DEF Idle
<1>a. \A j \in EventIds : events'[j].tries = events[j].tries
  BY <1>2, <1>3
<1>5. (Orderly' => Orderly) /\ (Undisturbed' => Undisturbed)
  BY <1>3, <1>a DEF Orderly, Undisturbed
<1>6. ASSUME Orderly PROVE QueueInv' /\ FailureInv'
  <2>1. QueueInv /\ FailureInv
    BY <1>6 DEF WorkInv
  <2>2. FailureInv'
    <3>1. LastFailed' => LastFailed
      <4> SUFFICES ASSUME LastFailed' PROVE LastFailed
        OBVIOUS
      <4>1. PICK n : n = Len(events)
        OBVIOUS
      <4>2. events # <<>> /\ n \in EventIds /\ events'[n].status = "FAILED"
        BY <1>3, <4>1 DEF LastFailed, EventIds, TypeOK
      <4>3. n # i
        BY <1>2, <1>3, <4>2
      <4> QED
        BY <1>3, <4>1, <4>2, <4>3 DEF LastFailed
    <3> QED
      BY <2>1, <3>1 DEF FailureInv, DirtyRows
  <2>3. events[i].job \in {"waiting", "retry"} /\ ~events[i].done
    BY <2>1 DEF QueueInv, Ready, JobOK, Handled
  \* Nobody runs, and only the last event may be waiting out a backoff.
  <2>4. \A j \in EventIds : events[j].job # "active"
    BY <2>1 DEF QueueInv, Runs
  <2>5. \A j \in EventIds : j < i => events[j].job = "gone"
    <3>1. CASE events[i].job = "retry"
      BY <2>1, <3>1 DEF QueueInv
    <3>2. CASE events[i].job = "waiting"
      <4> SUFFICES ASSUME NEW j \in EventIds, j < i PROVE events[j].job = "gone"
        OBVIOUS
      <4>1. events[j].job # "waiting"
        BY <3>2 DEF Ready
      <4>2. events[j].tries = 0
        BY <1>6 DEF Orderly, EventIds, TypeOK
      <4> QED
        BY <2>1, <2>4, <4>1, <4>2, EventType DEF QueueInv, JobOK, JobStates
    <3> QED
      BY <2>3, <3>1, <3>2
  <2>6. Runs(w, i)' /\ i # 0
    <3>1. i # 0
      BY DEF EventIds, TypeOK
    <3>2. pc # "idle"
      BY <1>1
    <3>3. Doing(w)' = i /\ ~At(w, "idle")'
      BY ONLY <1>4, <3>2 DEF Doing, At
    <3>4. events'[i].holder = w
      BY <1>2, <1>3
    <3> QED
      BY ONLY <3>1, <3>3, <3>4 DEF Runs
  <2>7. \A v \in Workers : Doing(v)' # 0 /\ events'[Doing(v)'].job = "active"
    <3> SUFFICES Doing(w)' # 0 /\ events'[Doing(w)'].job = "active"
      OBVIOUS
    <3>1. Doing(w)' = i
      BY <2>6 DEF Runs
    <3> QED
      BY <1>2, <1>3, <2>6, <3>1
  <2>8. ASSUME NEW j \in EventIds
        PROVE  /\ JobOK(events'[j])
               /\ events'[j].job = "active" => \E v \in Workers : Runs(v, j)'
               /\ events'[j].job # "waiting" => \A k \in EventIds : k < j => events'[k].job = "gone"
    <3>1. CASE j = i
      <4>1. \A k \in EventIds : k < j => events'[k].job = "gone"
        BY <1>3, <2>5, <3>1 DEF EventIds, TypeOK
      <4> QED
        BY <1>2, <1>3, <2>3, <2>6, <3>1, <4>1 DEF JobOK, Handled
    <3>2. CASE j # i
      <4>1. events'[j] = events[j]
        BY <1>3, <3>2
      <4>2. events[j].job # "waiting" => \A k \in EventIds : k < j => k # i /\ events[k].job = "gone"
        BY <2>1, <2>3 DEF QueueInv
      <4>3. events'[j].job # "waiting" => \A k \in EventIds : k < j => events'[k].job = "gone"
        BY <1>3, <4>1, <4>2
      <4>4. events'[j].job # "active"
        BY <2>4, <4>1
      <4>5. JobOK(events'[j])
        BY <2>1, <4>1 DEF QueueInv
      <4> QED
        BY ONLY <4>3, <4>4, <4>5
    <3> QED
      BY <3>1, <3>2
  <2> QED
    BY <1>3, <2>2, <2>7, <2>8 DEF QueueInv
<1>7. ASSUME Undisturbed, ~optedOut PROVE LastEventInv'
  <2>1. LastEventInv
    BY <1>7 DEF WorkInv
  <2>2. \A j \in EventIds : events'[j].hash = events[j].hash /\ events'[j].done = events[j].done
    BY <1>2, <1>3
  <2>3. Pending' = Pending
    BY <1>3, <2>2 DEF Pending
  <2>4. events # <<>> => Len(events) \in EventIds
    BY DEF TypeOK, EventIds
  <2>5. live => Covers(w)'
    BY <1>1, <1>4 DEF Covers, At
  <2> QED
    BY <1>3, <2>1, <2>2, <2>3, <2>4, <2>5 DEF LastEventInv, DirtyRows, authorVars
<1> QED
  BY <1>5, <1>6, <1>7, OrderlyIfUndisturbed DEF WorkInv, authorVars

LEMMA ReadChunksKeepsWork ==
  ASSUME NEW w, Workers = {w}, TypeOK, WorkInv, ReadChunks(w)
  PROVE  WorkInv'
<1> USE DEF ReadChunks
<1>1. worker[w] \in Run
  BY RunType
<1>2. PICK seen, todo, run :
        /\ seen = {Copy(k) : k \in DOMAIN rows} /\ todo = {Copy(k) : k \in DirtyRows}
        /\ run = [worker[w] EXCEPT !.pc = "prune", !.seen = seen, !.todo = todo]
  OBVIOUS
<1>3. run = [pc |-> "prune", event |-> worker[w].event, hasText |-> worker[w].hasText,
             seen |-> seen, todo |-> todo, eligible |-> worker[w].eligible, quiet |-> worker[w].quiet]
  BY ONLY <1>1, <1>2 DEF Run
<1>4. worker'[w] = run
  BY <1>2 DEF TypeOK
<1>8. worker'[w].pc = "prune" /\ worker'[w].todo = todo /\ worker'[w].event = worker[w].event
  BY ONLY <1>3, <1>4
<1>5. DirtyRows' = DirtyRows /\ rows' = rows
  BY DEF DirtyRows
<1>6. Covers(w)'
  <2>1. ASSUME NEW k \in DirtyRows PROVE \E s \in todo : s.id = rows[k].id
    <3>1. Copy(k) \in todo /\ Copy(k).id = rows[k].id
      BY <1>2 DEF Copy
    <3> QED
      BY <3>1
  <2> QED
    BY ONLY <1>5, <1>8, <2>1 DEF Covers
<1>7. ~At(w, "idle") /\ ~At(w, "idle")' /\ Doing(w)' = Doing(w)
  BY <1>8 DEF At, Doing
<1> QED
  BY <1>5, <1>6, <1>7, RunKeepsWork DEF authorVars

LEMMA PruneKeepsWork ==
  ASSUME NEW w, Workers = {w}, TypeOK, WorkInv, Prune(w)
  PROVE  WorkInv'
<1> USE DEF Prune
<1>1. PICK phase \in {"mark", "chunk", "clear", "review"} :
        /\ GoTo(w, phase)
        /\ phase = IF worker[w].todo = {} THEN "mark" ELSE NextChunk(w, worker[w].todo)
  BY DEF NextChunk
<1>2. /\ phase = "mark" => worker[w].todo = {}
      /\ phase # "review"
  BY <1>1 DEF NextChunk
<1>3. /\ worker'[w].pc = phase /\ worker'[w].todo = worker[w].todo
      /\ worker'[w].event = worker[w].event
  BY <1>1, GoToFacts DEF Phases
<1>4. DirtyRows' = DirtyRows /\ rows' = rows
  BY DEF DirtyRows
<1>5. Covers(w) => Covers(w)'
  BY <1>1, <1>2, <1>3, <1>4 DEF Covers, At
<1>6. ~At(w, "idle") /\ ~At(w, "idle")' /\ Doing(w)' = Doing(w)
  BY <1>1, <1>3 DEF At, Doing
<1> QED
  BY <1>4, <1>5, <1>6, RunKeepsWork DEF authorVars

LEMMA ExtractKeepsWork ==
  ASSUME NEW w, Workers = {w}, TypeOK, WorkInv, Extract(w)
  PROVE  WorkInv'
<1> USE DEF Extract
<1>1. /\ worker'[w].pc = "clear" /\ worker'[w].todo = worker[w].todo
      /\ worker'[w].event = worker[w].event
  BY GoToFacts DEF Phases
<1>2. /\ DOMAIN rows' = DOMAIN rows
      /\ \A k \in DOMAIN rows : rows'[k].id = rows[k].id /\ (rows'[k].dirty <=> rows[k].dirty)
  <2> SUFFICES ASSUME NEW k \in DOMAIN rows
               PROVE  rows'[k].id = rows[k].id /\ (rows'[k].dirty <=> rows[k].dirty)
    OBVIOUS
  <2>1. rows[k] \in Row
    BY RowType
  <2>2. PICK owed : rows'[k] = [rows[k] EXCEPT !.owed = owed]
    OBVIOUS
  <2> QED
    BY ONLY <2>1, <2>2 DEF Row
<1>3. DirtyRows' = DirtyRows
  BY <1>2 DEF DirtyRows
<1>4. ASSUME Covers(w) PROVE Covers(w)'
  <2>1. \A k \in DirtyRows : \E s \in worker[w].todo : s.id = rows[k].id
    BY <1>4 DEF Covers, At
  <2>2. \A k \in DirtyRows : rows'[k].id = rows[k].id
    BY <1>2 DEF DirtyRows
  <2> QED
    BY ONLY <1>1, <1>3, <2>1, <2>2 DEF Covers
<1>5. ~At(w, "idle") /\ ~At(w, "idle")' /\ Doing(w)' = Doing(w)
  BY <1>1 DEF At, Doing
<1> QED
  BY <1>3, <1>4, <1>5, RunKeepsWork DEF authorVars

LEMMA ClearDirtyKeepsWork ==
  ASSUME NEW w, Workers = {w}, TypeOK, RunOK(w), WorkInv, ClearDirty(w)
  PROVE  WorkInv'
<1> USE DEF ClearDirty
<1>1. worker[w] \in Run
  BY RunType
<1>2. PICK rest, phase, run :
        /\ rest = worker[w].todo \ {Chunk(w)} /\ phase = NextChunk(w, rest)
        /\ run = [worker[w] EXCEPT !.todo = rest, !.pc = phase]
        /\ worker' = [worker EXCEPT ![w].todo = rest, ![w].pc = phase]
  OBVIOUS
<1>3. run = [pc |-> phase, event |-> worker[w].event, hasText |-> worker[w].hasText,
             seen |-> worker[w].seen, todo |-> rest, eligible |-> worker[w].eligible,
             quiet |-> worker[w].quiet]
  BY ONLY <1>1, <1>2 DEF Run
<1>4. worker'[w] = run
  BY <1>2 DEF TypeOK
<1>5. worker'[w].pc = phase /\ worker'[w].todo = rest /\ worker'[w].event = worker[w].event
  BY ONLY <1>3, <1>4
<1>6. phase \in {"chunk", "clear", "review"} /\ (phase = "review" => rest = {})
  BY <1>2 DEF NextChunk
<1>7. /\ DOMAIN rows' = DOMAIN rows
      /\ \A k \in DOMAIN rows :
           /\ rows'[k].id = rows[k].id
           /\ rows'[k].dirty <=> rows[k].dirty /\ rows[k].id # Chunk(w).id
  <2> SUFFICES ASSUME NEW k \in DOMAIN rows
               PROVE  /\ rows'[k].id = rows[k].id
                      /\ rows'[k].dirty <=> rows[k].dirty /\ rows[k].id # Chunk(w).id
    OBVIOUS
  <2>1. rows[k] \in Row
    BY RowType
  <2>2. PICK dirty \in BOOLEAN : dirty = (rows[k].dirty /\ rows[k].id # Chunk(w).id)
    OBVIOUS
  <2>3. rows'[k] = [rows[k] EXCEPT !.dirty = dirty]
    BY <2>2
  <2>4. rows'[k] = [id |-> rows[k].id, text |-> rows[k].text, dirty |-> dirty, owed |-> rows[k].owed]
    BY ONLY <2>1, <2>3 DEF Row
  <2> QED
    BY <2>2, <2>4
<1>8. DirtyRows' \subseteq DirtyRows
  BY <1>7 DEF DirtyRows
<1>9. ASSUME Covers(w) PROVE Covers(w)'
  <2>1. ASSUME NEW k \in DirtyRows' PROVE \E s \in rest : s.id = rows'[k].id
    <3>1. k \in DirtyRows /\ rows[k].id # Chunk(w).id /\ rows'[k].id = rows[k].id
      BY <1>7, <2>1 DEF DirtyRows
    <3>2. PICK s \in worker[w].todo : s.id = rows[k].id
      BY <1>9, <3>1 DEF Covers, At
    <3> QED
      BY <1>2, <3>1, <3>2
  <2> QED
    BY <1>5, <1>6, <2>1 DEF Covers
<1>10. ~At(w, "idle") /\ ~At(w, "idle")' /\ Doing(w)' = Doing(w)
  BY <1>5, <1>6 DEF At, Doing
<1> QED
  BY <1>8, <1>9, <1>10, RunKeepsWork DEF authorVars

LEMMA ReviewKeepsWork ==
  ASSUME NEW w, Workers = {w}, TypeOK, WorkInv, Review(w)
  PROVE  WorkInv'
<1> USE DEF Review
<1>1. worker[w] \in Run
  BY RunType
<1>2. PICK phase, eligible :
        /\ phase \in {"approve", "mark"}
        /\ worker' = [worker EXCEPT ![w].pc = phase, ![w].eligible = eligible]
  OBVIOUS
<1>4. PICK run : run = [worker[w] EXCEPT !.pc = phase, !.eligible = eligible]
  OBVIOUS
<1>5. run = [pc |-> phase, event |-> worker[w].event, hasText |-> worker[w].hasText,
             seen |-> worker[w].seen, todo |-> worker[w].todo, eligible |-> eligible,
             quiet |-> worker[w].quiet]
  BY ONLY <1>1, <1>4 DEF Run
<1>6. worker'[w] = run
  BY <1>2, <1>4 DEF TypeOK
<1>7. worker'[w].pc = phase /\ worker'[w].todo = worker[w].todo /\ worker'[w].event = worker[w].event
  BY ONLY <1>5, <1>6
<1>8. DirtyRows' = DirtyRows /\ rows' = rows
  BY DEF DirtyRows
<1>9. Covers(w) => Covers(w)'
  BY <1>7, <1>8 DEF Covers, At
<1>10. ~At(w, "idle") /\ ~At(w, "idle")' /\ Doing(w)' = Doing(w)
  BY <1>2, <1>7 DEF At, Doing
<1> QED
  BY <1>8, <1>9, <1>10, RunKeepsWork DEF authorVars

LEMMA ApproveKeepsWork ==
  ASSUME NEW w, Workers = {w}, TypeOK, WorkInv, NEW f \in worker[w].eligible, Approve(w, f)
  PROVE  WorkInv'
<1> USE DEF Approve
<1>1. worker[w] \in Run
  BY RunType
<1>a. PICK eligible : eligible = worker[w].eligible \ {f}
  OBVIOUS
<1>b. PICK phase : phase = IF worker[w].eligible = {f} THEN "mark" ELSE worker[w].pc
  OBVIOUS
<1>2. worker' = [worker EXCEPT ![w].eligible = eligible, ![w].pc = phase]
  BY <1>1, <1>a, <1>b DEF TypeOK
<1>3. phase \in {"approve", "mark"}
  BY <1>b DEF At
<1>4. PICK run : run = [worker[w] EXCEPT !.eligible = eligible, !.pc = phase]
  OBVIOUS
<1>5. run = [pc |-> phase, event |-> worker[w].event, hasText |-> worker[w].hasText,
             seen |-> worker[w].seen, todo |-> worker[w].todo, eligible |-> eligible,
             quiet |-> worker[w].quiet]
  BY ONLY <1>1, <1>4 DEF Run
<1>6. worker'[w] = run
  BY <1>2, <1>4 DEF TypeOK
<1>7. worker'[w].pc = phase /\ worker'[w].todo = worker[w].todo /\ worker'[w].event = worker[w].event
  BY ONLY <1>5, <1>6
<1>8. DirtyRows' = DirtyRows /\ rows' = rows
  BY DEF DirtyRows
<1>9. Covers(w) => Covers(w)'
  BY <1>7, <1>8 DEF Covers, At
<1>10. ~At(w, "idle") /\ ~At(w, "idle")' /\ Doing(w)' = Doing(w)
  BY <1>3, <1>7 DEF At, Doing
<1> QED
  BY <1>8, <1>9, <1>10, RunKeepsWork DEF authorVars

\* The job of a run is the only one of its event, so that it holds its lock.
LEMMA MarkProcessedKeepsWork ==
  ASSUME NEW w, Workers = {w}, TypeOK, WorkInv, MarkProcessed(w)
  PROVE  WorkInv'
<1> USE DEF MarkProcessed
<1>1. PICK i, e, g : /\ i = Doing(w) /\ e = [events[i] EXCEPT !.done = TRUE, !.status = "SUCCEEDED"]
                     /\ g = [e EXCEPT !.job = "gone", !.holder = NoWorker]
  OBVIOUS
<1>2. worker'[w].pc = "idle"
  BY DEF Release, Idle, TypeOK
<1>3. ASSUME QueueInv
      PROVE  /\ i \in EventIds /\ EventIds' = EventIds /\ Len(events') = Len(events)
             /\ events'[i] = g /\ \A j \in EventIds : j # i => events'[j] = events[j]
             /\ g.job = "gone" /\ g.done /\ g.status = "SUCCEEDED"
             /\ g.tries = events[i].tries /\ g.hash = events[i].hash
  <2>1. i \in EventIds /\ HoldsLock(w)
    BY <1>1, <1>3, OneRun DEF At
  <2>2. events' = [events EXCEPT ![i] = g]
    BY <1>1, <2>1
  <2>3. events[i] \in Event
    BY <2>1, EventType
  <2>4. e = [hash |-> events[i].hash, done |-> TRUE, job |-> events[i].job, status |-> "SUCCEEDED",
             tries |-> events[i].tries, holder |-> events[i].holder]
    BY ONLY <1>1, <2>3 DEF Event
  <2>5. g = [hash |-> events[i].hash, done |-> TRUE, job |-> "gone", status |-> "SUCCEEDED",
             tries |-> events[i].tries, holder |-> NoWorker]
    BY ONLY <1>1, <2>4
  <2>6. /\ g.job = "gone" /\ g.done /\ g.status = "SUCCEEDED"
        /\ g.tries = events[i].tries /\ g.hash = events[i].hash
    BY ONLY <2>5
  <2>7. /\ EventIds' = EventIds /\ Len(events') = Len(events)
        /\ events'[i] = g /\ \A j \in EventIds : j # i => events'[j] = events[j]
    BY <2>1, <2>2 DEF TypeOK, EventIds
  <2> QED
    BY <2>1, <2>6, <2>7
<1>4. EventIds' = EventIds /\ Len(events') = Len(events) /\ \A j \in EventIds : events'[j].tries = events[j].tries
  <2>1. PICK f : f = IF HoldsLock(w) THEN g ELSE e
    OBVIOUS
  <2>2. events' = [events EXCEPT ![i] = f]
    BY <1>1, <2>1
  <2>3. EventIds' = EventIds /\ Len(events') = Len(events)
    BY <2>2 DEF TypeOK, EventIds
  <2>4. ASSUME NEW j \in EventIds PROVE events'[j].tries = events[j].tries
    <3>1. CASE j # i
      BY <2>2, <3>1 DEF TypeOK, EventIds
    <3>2. CASE j = i
      <4>1. events[i] \in Event
        BY <3>2, EventType
      <4>2. e.tries = events[i].tries /\ g.tries = events[i].tries
        <5>1. e = [hash |-> events[i].hash, done |-> TRUE, job |-> events[i].job, status |-> "SUCCEEDED",
                   tries |-> events[i].tries, holder |-> events[i].holder]
          BY ONLY <1>1, <4>1 DEF Event
        <5>2. g = [hash |-> events[i].hash, done |-> TRUE, job |-> "gone", status |-> "SUCCEEDED",
                   tries |-> events[i].tries, holder |-> NoWorker]
          BY ONLY <1>1, <5>1
        <5> QED
          BY ONLY <5>1, <5>2
      <4>3. events'[i] = f
        BY <2>2, <3>2 DEF TypeOK, EventIds
      <4> QED
        BY <2>1, <3>2, <4>2, <4>3
    <3> QED
      BY <3>1, <3>2
  <2> QED
    BY <2>3, <2>4
<1>5. (Orderly' => Orderly) /\ (Undisturbed' => Undisturbed)
  BY <1>4 DEF Orderly, Undisturbed
<1>6. ASSUME QueueInv PROVE QueueInv' /\ FailureInv'
  <2>1. /\ events[i].job = "active" /\ ~LastFailed /\ i \in Nat
        /\ \A j \in EventIds : j < i => events[j].job = "gone"
        /\ \A j \in EventIds : j > i => events[j].job = "waiting"
    BY <1>1, <1>6, <1>3, OneRun DEF At, EventIds, TypeOK
  <2>2. FailureInv'
    <3>1. PICK n : n = Len(events)
      OBVIOUS
    <3>2. ASSUME LastFailed' PROVE FALSE
      <4>1. events # <<>> /\ n \in EventIds /\ events'[n].status = "FAILED"
        BY <1>4, <3>1, <3>2 DEF LastFailed, EventIds, TypeOK
      <4>2. n # i
        BY <1>3, <1>6, <4>1
      <4> QED
        BY <1>3, <1>6, <2>1, <3>1, <4>1, <4>2 DEF LastFailed
    <3> QED
      BY <3>2 DEF FailureInv
  <2>3. \A v \in Workers : At(v, "idle")'
    BY <1>2 DEF At
  <2>4. ASSUME NEW j \in EventIds
        PROVE  /\ JobOK(events'[j]) /\ events'[j].job # "active"
               /\ events'[j].job # "waiting" => \A k \in EventIds : k < j => events'[k].job = "gone"
    <3>1. CASE j = i
      <4>1. JobOK(g)
        BY <1>3, <1>6 DEF JobOK, Handled
      <4>2. \A k \in EventIds : k < i => events'[k].job = "gone"
        BY <1>3, <1>6, <2>1
      <4> QED
        BY <1>3, <1>6, <3>1, <4>1, <4>2
    <3>2. CASE j # i
      <4>1. events'[j] = events[j] /\ JobOK(events[j])
        BY <1>3, <1>6, <3>2 DEF QueueInv
      <4>2. CASE j < i
        <5>1. events[j].job = "gone"
          BY <2>1, <4>2
        <5>2. \A k \in EventIds : k < j => k # i /\ events[k].job = "gone"
          BY <1>6, <5>1, <2>1, <4>2 DEF QueueInv, EventIds, TypeOK
        <5> QED
          BY <1>3, <1>6, <4>1, <5>1, <5>2
      <4>3. CASE j > i
        BY <2>1, <4>1, <4>3
      <4> QED
        BY <2>1, <3>2, <4>2, <4>3 DEF EventIds, TypeOK
    <3> QED
      BY <3>1, <3>2
  <2> QED
    BY <1>4, <2>2, <2>3, <2>4 DEF QueueInv
<1>7. ASSUME Orderly, Undisturbed, ~optedOut PROVE LastEventInv'
  <2>1. LastEventInv /\ QueueInv
    BY <1>7 DEF WorkInv
  <2>2. PICK n : n = Len(events)
    OBVIOUS
  <2>3. events # <<>> /\ n \in EventIds /\ n \in Nat /\ i \in Nat /\ i <= n /\ events' # <<>>
    BY <1>3, <2>1, <2>2 DEF TypeOK, EventIds
  <2>4. events'[n].hash = content
    BY <1>3, <2>1, <2>2, <2>3 DEF LastEventInv
  <2>5. ASSUME live, DirtyRows # {} PROVE Pending' # {}
    <3>1. i # n
      <4> SUFFICES ASSUME i = n PROVE FALSE
        OBVIOUS
      <4>1. Covers(w)
        BY <1>1, <2>1, <2>2, <2>5 DEF LastEventInv, At
      <4> QED
        BY <2>5, <4>1 DEF Covers, At
    <3>2. events[n].job = "waiting"
      <4>1. n > i
        BY <2>3, <3>1
      <4> QED
        BY <1>1, <2>1, <2>3, <4>1, OneRun DEF At
    <3>3. ~events'[n].done
      BY <1>3, <2>1, <2>3, <3>1, <3>2 DEF QueueInv, JobOK, Handled
    <3> QED
      BY <1>4, <2>3, <3>3 DEF Pending
  <2>6. \A v \in Workers : At(v, "idle")'
    BY <1>2 DEF At
  <2> QED
    BY <1>4, <2>2, <2>4, <2>5, <2>6 DEF LastEventInv, DirtyRows, authorVars
<1> QED
  BY <1>5, <1>6, <1>7, OrderlyIfUndisturbed DEF WorkInv, authorVars

\* A failed attempt leaves its mark on the event, the last one if the others are unmarked.
LEMMA ThrowKeepsWork ==
  ASSUME NEW w, Workers = {w}, TypeOK, WorkInv, Throw(w)
  PROVE  WorkInv'
<1> USE DEF Throw
<1>1. PICK i, job, e :
        /\ i = Doing(w) /\ job = IF events[i].tries + 1 >= Attempts THEN "failed" ELSE "retry"
        /\ e = [events[i] EXCEPT !.tries = events[i].tries + 1, !.holder = NoWorker, !.job = job]
  OBVIOUS
<1>2. ASSUME i \in EventIds
      PROVE  /\ e.tries = events[i].tries + 1 /\ e.job = job /\ e.done = events[i].done
             /\ e.status = events[i].status /\ e.tries # 0
  <2>1. events[i] \in Event /\ events[i].tries \in Nat
    BY <1>2, EventType, BoundsAssumption
  <2>2. e = [hash |-> events[i].hash, done |-> events[i].done, job |-> job,
             status |-> events[i].status, tries |-> events[i].tries + 1, holder |-> NoWorker]
    BY ONLY <1>1, <2>1 DEF Event
  <2> QED
    BY ONLY <2>1, <2>2
<1>3. /\ HoldsLock(w) => events' = [events EXCEPT ![i] = e]
      /\ ~HoldsLock(w) => events' = events
  BY <1>1 DEF TypeOK, EventIds
<1>4. /\ EventIds' = EventIds /\ Len(events') = Len(events)
      /\ \A j \in EventIds : j # i => events'[j] = events[j]
      /\ HoldsLock(w) /\ i \in EventIds => events'[i] = e
  BY <1>3 DEF TypeOK, EventIds
<1>5. \A j \in EventIds : events'[j].tries = 0 => events[j].tries = 0
  BY <1>2, <1>3, <1>4
<1>6. (Orderly' => Orderly) /\ (Undisturbed' => Undisturbed)
  BY <1>4, <1>5 DEF Orderly, Undisturbed
<1>7. ASSUME QueueInv
      PROVE  /\ i \in EventIds /\ HoldsLock(w) /\ events[i].job = "active" /\ ~events[i].done
             /\ events[i].status # "FAILED" /\ ~LastFailed /\ i \in Nat
             /\ \A j \in EventIds : j < i => events[j].job = "gone"
             /\ \A j \in EventIds : j > i => events[j].job = "waiting"
             /\ events'[i] = e
  <2>1. i \in EventIds /\ HoldsLock(w)
    BY <1>1, <1>7, OneRun
  <2>2. i \in Nat
    BY <2>1 DEF EventIds, TypeOK
  <2> QED
    BY <1>1, <1>4, <1>7, <2>1, <2>2, OneRun
<1>8. ~Undisturbed' \/ ~Orderly
  BY <1>2, <1>4, <1>7 DEF Undisturbed, WorkInv
<1>9. worker'[w].pc = "idle"
  BY DEF Release, Idle, TypeOK
<1>10. ASSUME QueueInv PROVE QueueInv' /\ FailureInv'
  <2>2. FailureInv'
    <3>1. PICK n : n = Len(events)
      OBVIOUS
    <3>2. ASSUME LastFailed' PROVE FALSE
      <4>1. events # <<>> /\ n \in EventIds /\ events'[n].status = "FAILED"
        BY <1>4, <3>1, <3>2 DEF LastFailed, EventIds, TypeOK
      <4>2. n # i
        BY <1>2, <1>7, <1>10, <4>1
      <4> QED
        BY <1>4, <1>7, <1>10, <3>1, <4>1, <4>2 DEF LastFailed
    <3> QED
      BY <3>2 DEF FailureInv
  <2>3. \A v \in Workers : At(v, "idle")'
    BY <1>9 DEF At
  <2>4. ASSUME NEW j \in EventIds
        PROVE  /\ JobOK(events'[j]) /\ events'[j].job # "active"
               /\ events'[j].job # "waiting" => \A k \in EventIds : k < j => events'[k].job = "gone"
    <3>1. CASE j = i
      <4>1. JobOK(e) /\ e.job # "active"
        BY <1>1, <1>2, <1>7, <1>10 DEF JobOK, Handled
      <4>2. \A k \in EventIds : k < i => events'[k].job = "gone"
        BY <1>4, <1>7, <1>10
      <4> QED
        BY <1>7, <1>10, <3>1, <4>1, <4>2
    <3>2. CASE j # i
      <4>1. events'[j] = events[j] /\ JobOK(events[j])
        BY <1>4, <1>10, <3>2 DEF QueueInv
      <4>2. CASE j < i
        <5>1. events[j].job = "gone"
          BY <1>7, <1>10, <4>2
        <5>2. \A k \in EventIds : k < j => k # i /\ events[k].job = "gone"
          BY <1>7, <1>10, <4>2, <5>1 DEF QueueInv, EventIds, TypeOK
        <5> QED
          BY <1>4, <4>1, <5>1, <5>2
      <4>3. CASE j > i
        BY <1>7, <1>10, <4>1, <4>3
      <4> QED
        BY <1>7, <1>10, <3>2, <4>2, <4>3 DEF EventIds, TypeOK
    <3> QED
      BY <3>1, <3>2
  <2> QED
    BY <1>4, <2>2, <2>3, <2>4 DEF QueueInv
<1> QED
  BY <1>6, <1>8, <1>10, OrderlyIfUndisturbed DEF WorkInv

\* The transaction of a failed job processes its event and marks every row.
LEMMA FinalizeFailedKeepsWork ==
  ASSUME NEW w, Workers = {w}, TypeOK, WorkInv, NEW i \in EventIds, FinalizeFailed(i)
  PROVE  WorkInv'
<1> USE DEF FinalizeFailed
<1>1. PICK e : e = [events[i] EXCEPT !.done = TRUE, !.status = "FAILED"]
  OBVIOUS
<1>2. e.job = "failed" /\ e.done /\ e.status = "FAILED" /\ e.tries = events[i].tries
  <2>1. events[i] \in Event
    BY EventType
  <2>2. e = [hash |-> events[i].hash, done |-> TRUE, job |-> events[i].job, status |-> "FAILED",
             tries |-> events[i].tries, holder |-> events[i].holder]
    BY ONLY <1>1, <2>1 DEF Event
  <2> QED
    BY ONLY <2>2, FinalizeFailed(i)
<1>3. /\ EventIds' = EventIds /\ Len(events') = Len(events)
      /\ events'[i] = e /\ \A j \in EventIds : j # i => events'[j] = events[j]
  BY <1>1 DEF TypeOK, EventIds
<1>4. \A j \in EventIds : events'[j].tries = events[j].tries /\ events'[j].job = events[j].job
  BY <1>2, <1>3
<1>5. (Orderly' => Orderly) /\ (Undisturbed' => Undisturbed)
  BY <1>3, <1>4 DEF Orderly, Undisturbed
<1>6. DirtyRows' = DOMAIN rows'
  <2> SUFFICES ASSUME NEW k \in DOMAIN rows PROVE rows'[k].dirty
    BY DEF DirtyRows
  <2>1. rows[k] \in Row /\ rows'[k] = [rows[k] EXCEPT !.dirty = TRUE]
    BY RowType
  <2> QED
    BY ONLY <2>1 DEF Row
<1>7. worker'[w].pc = worker[w].pc /\ worker'[w].event = worker[w].event
  <2>1. worker[w] \in Run /\ worker'[w] = [worker[w] EXCEPT !.quiet = FALSE]
    BY RunType DEF Disturbed
  <2> QED
    BY ONLY <2>1 DEF Run
<1>8. ASSUME QueueInv PROVE QueueInv'
  <2>1. ASSUME NEW j \in EventIds PROVE JobOK(events'[j])
    <3>1. JobOK(events[j]) /\ JobOK(events[i])
      BY <1>8 DEF QueueInv
    <3>2. CASE j = i
      BY <1>2, <1>3, <3>1, <3>2 DEF JobOK, Handled
    <3>3. CASE j # i
      BY <1>3, <3>1, <3>3
    <3> QED
      BY <3>2, <3>3
  <2>2. \A j \in EventIds : events[j].job = "active" => \E v \in Workers : Runs(v, j)'
    <3> SUFFICES ASSUME NEW j \in EventIds, events[j].job = "active" PROVE Runs(w, j)'
      OBVIOUS
    <3>1. j # i /\ Runs(w, j)
      BY <1>8 DEF QueueInv
    <3> QED
      BY <1>3, <1>7, <3>1 DEF Runs, At, Doing
  <2>3. \A v \in Workers : ~At(v, "idle")' => Doing(v)' # 0 /\ events'[Doing(v)'].job = "active"
    <3>1. ~At(w, "idle") => Doing(w) \in EventIds /\ Doing(w) # 0 /\ events[Doing(w)].job = "active"
      BY <1>8, OneRun DEF QueueInv
    <3> QED
      BY <1>4, <1>7, <3>1 DEF At, Doing
  <2>4. ASSUME NEW j \in EventIds, events'[j].job # "waiting", NEW k \in EventIds, k < j
        PROVE  events'[k].job = "gone"
    <3>1. events[j].job # "waiting"
      BY <1>4, <2>4
    <3>2. events[k].job = "gone"
      BY <1>8, <2>4, <3>1 DEF QueueInv
    <3> QED
      BY <1>4, <3>2
  <2>5. \A j \in EventIds : events'[j].job = "active" => \E v \in Workers : Runs(v, j)'
    BY <1>4, <2>2
  <2> QED
    BY <1>3, <2>1, <2>3, <2>4, <2>5 DEF QueueInv
<1>9. ~Undisturbed \/ ~QueueInv
  BY DEF Undisturbed, QueueInv, JobOK
<1> QED
  BY <1>5, <1>6, <1>8, <1>9, OrderlyIfUndisturbed DEF WorkInv, FailureInv

\* A fault ends what the two invariants are about.
LEMMA FaultKeepsWork == TypeOK /\ Fault => WorkInv'
BY DEF Fault, WorkInv, Orderly, Undisturbed, TypeOK

\* What is written is dirty: if every row was, every row is.
LEMMA SyncKeepsDirty ==
  ASSUME TypeOK, NEW c \in Contents, Sync(c), DirtyRows = DOMAIN rows
  PROVE  DirtyRows' = DOMAIN rows'
<1> SUFFICES ASSUME NEW k \in DOMAIN rows' PROVE rows'[k].dirty
  BY DEF DirtyRows
<1>1. rows' = SyncedRows(c) /\ k \in DOMAIN c
  BY DEF Sync, SyncedRows
<1>2. CASE k \notin DOMAIN rows
  BY <1>1, <1>2 DEF SyncedRows
<1>3. CASE k \in DOMAIN rows
  <2>1. rows[k] \in Row /\ rows[k].dirty
    BY <1>3, RowType DEF DirtyRows
  <2>2. rows'[k] = rows[k] \/ rows'[k] = [rows[k] EXCEPT !.text = c[k], !.dirty = TRUE, !.owed = TRUE]
    BY <1>1, <1>3 DEF SyncedRows
  <2> QED
    BY ONLY <2>1, <2>2 DEF Row
<1> QED
  BY <1>2, <1>3

\* Only the last event can be the latest pending one, and it is for the content.
LEMMA LatestIsCurrent ==
  ASSUME NEW w, Workers = {w}, TypeOK, WorkInv, Undisturbed, ~optedOut,
         NEW h, LatestPendingMatches(h)
  PROVE  h = content
<1>1. QueueInv /\ LastEventInv
  BY OrderlyIfUndisturbed DEF WorkInv
<1>2. PICK i \in Pending : (\A j \in Pending : j <= i) /\ events[i].hash = h
  BY DEF LatestPendingMatches
<1>3. PICK n : n = Len(events)
  OBVIOUS
<1>4. i \in EventIds /\ ~events[i].done /\ n \in EventIds /\ i \in Nat /\ n \in Nat /\ i <= n
  BY <1>2, <1>3 DEF Pending, EventIds, TypeOK
<1>5. ~events[n].done
  <2> SUFFICES ASSUME events[n].done PROVE FALSE
    OBVIOUS
  <2>1. events[n].job = "gone"
    <3>1. JobOK(events[n]) /\ events[n].tries = 0
      BY <1>1, <1>4 DEF QueueInv, Undisturbed
    <3> QED
      BY ONLY events[n].done, <3>1 DEF JobOK, Handled
  <2>2. i < n
    BY <1>4, <2>1
  <2>3. events[i].job = "gone"
    BY <1>1, <1>4, <2>1, <2>2 DEF QueueInv
  <2> QED
    BY <1>1, <1>4, <2>3 DEF QueueInv, JobOK, Handled
<1>6. n = i
  <2>1. n \in Pending
    BY <1>4, <1>5 DEF Pending
  <2>2. n <= i
    BY <1>2, <2>1
  <2> QED
    BY ONLY <1>4, <2>2
<1> QED
  BY <1>1, <1>2, <1>3, <1>4, <1>6 DEF LastEventInv, EventIds, TypeOK

LEMMA RewriteKeepsRun ==
  ASSUME TypeOK, NEW w \in Workers, NEW c \in Contents, Rewrite(c)
  PROVE  worker'[w].pc = worker[w].pc /\ worker'[w].event = worker[w].event
<1>1. worker[w] \in Run /\ worker'[w] = [worker[w] EXCEPT !.quiet = FALSE]
  BY RunType DEF Rewrite, Disturbed
<1> QED
  BY ONLY <1>1 DEF Run

LEMMA SaveKeepsWork ==
  ASSUME NEW w, Workers = {w}, TypeOK, WorkInv, NEW c \in Contents, Save(c)
  PROVE  WorkInv'
<1>1. /\ Rewrite(c) /\ Sync(c) /\ content' = c /\ faults' = faults
      /\ worker'[w].pc = worker[w].pc /\ worker'[w].event = worker[w].event
  BY RewriteKeepsRun DEF Save, Rewrite
<1>2. CASE CreateEvent(c)
  BY <1>1, <1>2, AppendKeepsWork
<1>3. CASE UNCHANGED events
  <2>1. ~(Undisturbed /\ ~optedOut')
    <3> SUFFICES ASSUME Undisturbed, ~optedOut' PROVE FALSE
      OBVIOUS
    <3>1. ~optedOut /\ auto /\ c # content /\ EnqueueSceneChanged(c)
      BY DEF Save
    <3>2. ~CreateEvent(c)
      BY <1>3 DEF CreateEvent, TypeOK
    <3>3. LatestPendingMatches(c)
      BY <3>1, <3>2 DEF EnqueueSceneChanged
    <3> QED
      BY <3>1, <3>3, LatestIsCurrent
  <2> QED
    BY <1>1, <1>3, <2>1, SyncKeepsDirty, OtherKeepsWork
<1> QED
  BY <1>2, <1>3 DEF Save, EnqueueSceneChanged

LEMMA WorkNext ==
  ASSUME NEW w, Workers = {w}
  PROVE  IInv /\ WorkInv /\ [Next]_vars => WorkInv'
<1> SUFFICES ASSUME IInv, WorkInv, [Next]_vars PROVE WorkInv'
  OBVIOUS
<1>0. TypeOK /\ RunOK(w)
  BY DEF IInv
<1>1. ASSUME NEW c \in Contents, Save(c) PROVE WorkInv'
  BY <1>0, <1>1, SaveKeepsWork
<1>2. ASSUME NEW c \in Contents, Restore(c) PROVE WorkInv'
  BY <1>0, <1>2, AppendKeepsWork, RewriteKeepsRun DEF Restore, Rewrite
<1>3. CASE RequestAnalysis
  BY <1>0, <1>3, AppendKeepsWork DEF RequestAnalysis, EnqueueSceneChanged, authorVars, TypeOK
<1>4. CASE ToggleAutoAnalysis \/ SoftDelete \/ UNCHANGED vars
  <2>1. UNCHANGED <<content, optedOut, rows, events, worker, faults>> /\ (live' => live)
    <3>1. CASE ToggleAutoAnalysis
      BY <3>1 DEF ToggleAutoAnalysis
    <3>2. CASE SoftDelete
      BY <3>2 DEF SoftDelete
    <3>3. CASE UNCHANGED vars
      BY <3>3 DEF vars
    <3> QED
      BY <1>4, <3>1, <3>2, <3>3
  <2>2. DirtyRows' = DirtyRows /\ Pending' = Pending
    BY <2>1 DEF DirtyRows, Pending, EventIds
  <2>3. Undisturbed /\ ~optedOut => LastEventInv'
    BY <2>1, <2>2 DEF WorkInv, LastEventInv, At, Doing, Covers
  <2> QED
    BY <1>0, <2>1, <2>2, <2>3, OtherKeepsWork
<1>5. ASSUME NEW v \in Workers, NEW i \in EventIds, Take(v, i) PROVE WorkInv'
  BY <1>0, <1>5, TakeKeepsWork
<1>6. ASSUME NEW v \in Workers, ReadChunks(v) PROVE WorkInv'
  BY <1>0, <1>6, ReadChunksKeepsWork
<1>7. ASSUME NEW v \in Workers, Prune(v) PROVE WorkInv'
  BY <1>0, <1>7, PruneKeepsWork
<1>8. ASSUME NEW v \in Workers, Extract(v) PROVE WorkInv'
  BY <1>0, <1>8, ExtractKeepsWork
<1>9. ASSUME NEW v \in Workers, ClearDirty(v) PROVE WorkInv'
  BY <1>0, <1>9, ClearDirtyKeepsWork
<1>10. ASSUME NEW v \in Workers, Review(v) PROVE WorkInv'
  BY <1>0, <1>10, ReviewKeepsWork
<1>11. ASSUME NEW v \in Workers, NEW f \in worker[v].eligible, Approve(v, f) PROVE WorkInv'
  BY <1>0, <1>11, ApproveKeepsWork
<1>12. ASSUME NEW v \in Workers, MarkProcessed(v) PROVE WorkInv'
  BY <1>0, <1>12, MarkProcessedKeepsWork
<1>13. ASSUME NEW v \in Workers, Throw(v) PROVE WorkInv'
  BY <1>0, <1>13, ThrowKeepsWork
<1>14. ASSUME NEW i \in EventIds, FinalizeFailed(i) PROVE WorkInv'
  BY <1>0, <1>14, FinalizeFailedKeepsWork
<1>15. ASSUME NEW v \in Workers, Crash(v) PROVE WorkInv'
  BY <1>0, <1>15, FaultKeepsWork DEF Crash
<1>16. ASSUME NEW i \in EventIds, LoseLock(i) PROVE WorkInv'
  BY <1>0, <1>16, FaultKeepsWork DEF LoseLock
<1>17. ASSUME NEW i \in EventIds, Requeue(i) PROVE WorkInv'
  BY <1>0, <1>17, FaultKeepsWork DEF Requeue
<1> QED
  BY <1>1, <1>2, <1>3, <1>4, <1>5, <1>6, <1>7, <1>8, <1>9, <1>10, <1>11, <1>12, <1>13, <1>14,
     <1>15, <1>16, <1>17 DEF Next

LEMMA InitWork == Init => WorkInv
<1> SUFFICES ASSUME Init PROVE WorkInv
  OBVIOUS
<1>1. EventIds = {} /\ events = <<>> /\ \A w \in Workers : At(w, "idle")
  BY DEF Init, EventIds, At, Idle
<1>2. DirtyRows = {}
  BY DEF Init, DirtyRows
<1> QED
  BY <1>1, <1>2 DEF WorkInv, QueueInv, FailureInv, LastFailed, LastEventInv
-----------------------------------------------------------------------------
THEOREM Invariance == Spec => []IInv
BY InitEstablishes, NextKeeps, PTL DEF Spec

\* Retries, exhausted attempts, crashes, lost locks and redeliveries never lose a text: as
\* long as no save fell into a run, what the author wrote stays dirty until it has been
\* extracted (processDirtyChunk, clearChunkDirtyFlag).
THEOREM TextIsNotLost == Spec => []OnlyOverlapLosesText
<1>1. IInv => OnlyOverlapLosesText
  BY DEF IInv, CurrentInv, OwedIsDirty, OnlyOverlapLosesText
<1> QED
  BY <1>1, Invariance, PTL

\* Under the same condition an active alert quotes the text its chunk has now
\* (obsoleteAlertsForChangedChunks).
THEOREM AlertsStayCurrent == Spec => []AlertsQuoteCurrentText
<1>1. IInv => AlertsQuoteCurrentText
  BY DEF IInv, CurrentInv, AlertsAreCurrent, AlertsQuoteCurrentText
<1> QED
  BY <1>1, Invariance, PTL

\* A run that had the scene to itself and succeeds leaves it settled: no dirty chunk, no
\* evidence out of force, and nothing approved on a quote that is gone (processSceneChanged).
THEOREM QuietRunsSettle == Spec => QuietRunSettles
<1>1. IInv /\ [Next]_vars =>
        [\A w \in Workers : worker[w].quiet => Settles(w) /\ ApprovesFresh(w)]_vars
  BY QuietStepSettles
<1> QED
  BY <1>1, Invariance, PTL DEF Spec, QuietRunSettles

\* With one worker, as the service starts one job at a time, the author's text is never
\* forgotten: what is dirty is queued, or the author can queue it (enqueueSceneChanged,
\* requestAnalysisForUser, handleFailedOutboxTransaction).
THEOREM WorkIsKept ==
  ASSUME NEW w, Workers = {w}
  PROVE  Spec => []WorkIsNotForgotten
<1>1. IInv /\ WorkInv => WorkIsNotForgotten
  <2> SUFFICES ASSUME IInv, WorkInv PROVE WorkIsNotForgotten
    OBVIOUS
  <2>1. TypeOK
    BY DEF IInv
  <2>2. DirtyIsQueued
    <3> SUFFICES ASSUME live, ~optedOut, Undisturbed, AnythingDirty PROVE Pending # {}
      BY DEF DirtyIsQueued, Undisturbed
    <3>1. DirtyRows # {}
      BY DEF AnythingDirty, DirtyRows
    <3> QED
      BY <3>1 DEF WorkInv, LastEventInv
  <2>3. FailureCanBeRetried
    <3> SUFFICES ASSUME Orderly, LastFailed, rows # <<>> PROVE AnythingDirty
      BY DEF FailureCanBeRetried, Orderly
    <3>1. DirtyRows = DOMAIN rows
      BY DEF WorkInv, FailureInv
    <3>2. DOMAIN rows # {}
      <4>1. rows \in Seq(Row)
        BY <2>1 DEF TypeOK
      <4>2. Len(rows) # 0
        BY <4>1, EmptySeq
      <4>3. DOMAIN rows = 1..Len(rows) /\ Len(rows) \in Nat
        BY <4>1
      <4> QED
        BY <4>2, <4>3
    <3> QED
      BY <3>1, <3>2 DEF AnythingDirty, DirtyRows
  <2> QED
    BY <2>1, <2>2, <2>3 DEF WorkIsNotForgotten
<1>2. Spec => []WorkInv
  BY InitWork, WorkNext, Invariance, PTL DEF Spec
<1> QED
  BY <1>1, <1>2, Invariance, PTL
=============================================================================
