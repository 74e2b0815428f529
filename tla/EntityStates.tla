----------------------------- MODULE EntityStates -----------------------------
(***************************************************************************)
(* The states of one entity over the scenes of a project: the author's own *)
(* states, the proposals extracted from the text and what is confirmed     *)
(* from an alert, all applied to the same rows; the snapshot that says     *)
(* which state holds at a scene; the audit of the scenes whose snapshot    *)
(* may have changed.                                                       *)
(*                                                                         *)
(* A scene is its position in the narrative.  What the author and the      *)
(* automation do changes rows in one transaction and is one action: two    *)
(* that overlap at READ COMMITTED are not modelled.  What an analysis does *)
(* to the proposals, createProposal and the marking of stale ones, is a    *)
(* sequence of single statements and takes one action each; one analysis   *)
(* runs at a time.  State tracking is enabled.                             *)
(***************************************************************************)
EXTENDS Naturals, Sequences, FiniteSets, SequencesExt

CONSTANTS NumScenes,    \* scenes 1..NumScenes, in narrative order
          Keys,         \* attributes
          SingleValue,  \* location, status, health_status
          Values,
          Proposed,     \* what may be extracted: [scene, key, value, order, kind]
          Conflicts,    \* what an alert may ask to confirm: [scene, key, value]
          Edits,        \* what the author may write: [value, from, to]
          Deletable,    \* scenes that may be deleted
          MaxRows,      \* bound: rows of EntityState
          MaxBusyRows   \* bound: rows while an analysis writes proposals

Scenes == 1..NumScenes
NoScene == 0            \* validToSceneId null
NoOrder == 0            \* narrativeOrder null, below every order
Kinds == {"none", "transition", "contradiction", "uncertain"}

StatesAssumption ==
  /\ NumScenes \in Nat /\ MaxRows \in Nat /\ MaxBusyRows \in Nat
  /\ SingleValue \subseteq Keys
  /\ IsFiniteSet(Proposed)
  /\ Proposed \subseteq [scene : Scenes, key : Keys, value : Values, order : Nat, kind : Kinds]
  /\ Conflicts \subseteq [scene : Scenes, key : SingleValue, value : Values]
  /\ Edits \subseteq [value : Values, from : Scenes, to : Scenes \cup {NoScene}]
  /\ Deletable \subseteq Scenes

VARIABLES
  rows,       \* EntityState rows in the order of their creation
  live,       \* scenes that are not deleted
  locked,     \* keys in Entity.userLockedFields
  review,     \* status and conflictsWithLocked of each proposal
  evidence,   \* what became of the chunk each proposal quotes
  held,       \* what the analysis holds: the proposals it is about and what it read
  alerts,     \* active alerts that may be applied
  lockedFirst,\* history: keys locked before anything was proposed for them, or being so
  inOrder,    \* history: keys whose states were only ever added after the last one
  step        \* the last step: the scenes it wrote an audit event for, and
              \* whether it was the automation's

vars == <<rows, live, locked, review, evidence, held, alerts, lockedFirst, inOrder, step>>

Row == [key : Keys, value : Values, from : Scenes, to : Scenes \cup {NoScene}, order : Nat]
Statuses == {"none", "PENDING", "APPROVED", "REJECTED", "OBSOLETE"}
Decided == {"APPROVED", "REJECTED"}

\* locks: it read the locks of the entity; proposal: and the proposal; stale: it read
\* the pending proposals and will mark these.
NoRun == [phase |-> "idle", of |-> {}, conflict |-> FALSE, was |-> "none"]

TypeOK ==
  /\ rows \in Seq(Row) /\ Len(rows) <= MaxRows
  /\ live \subseteq Scenes
  /\ locked \subseteq Keys
  /\ review \in [Proposed -> [status : Statuses, conflict : BOOLEAN]]
  /\ evidence \in [Proposed -> {"current", "edited", "deleted"}]
  /\ held \in [phase : {"idle", "locks", "proposal", "stale"}, of : SUBSET Proposed,
               conflict : BOOLEAN, was : Statuses]
  /\ alerts \subseteq Conflicts
  /\ lockedFirst \subseteq Keys /\ inOrder \subseteq Keys
  /\ step \in [audited : SUBSET Scenes, automatic : BOOLEAN]
  /\ \A i \in DOMAIN rows : rows[i].to # NoScene => rows[i].from < rows[i].to

Init ==
  /\ rows = <<>>
  /\ live = Scenes
  /\ locked = {}
  /\ review = [p \in Proposed |-> [status |-> "none", conflict |-> FALSE]]
  /\ evidence = [p \in Proposed |-> "edited"]
  /\ held = NoRun
  /\ alerts = Conflicts
  /\ lockedFirst = {} /\ inOrder = Keys
  /\ step = [audited |-> {}, automatic |-> FALSE]

-----------------------------------------------------------------------------
(* The snapshot of a scene.                                                *)

\* A row whose first or last scene is deleted is active nowhere.
ActiveAt(row, s) ==
  /\ row.from \in live /\ row.from <= s
  /\ row.to = NoScene \/ (row.to \in live /\ s < row.to)

ActiveRows(rs, k, s) == {i \in DOMAIN rs : rs[i].key = k /\ ActiveAt(rs[i], s)}

\* Later scene first, then later order, then later creation.
After(rs, i, j) ==
  \/ rs[i].from > rs[j].from
  \/ rs[i].from = rs[j].from /\ rs[i].order > rs[j].order
  \/ rs[i].from = rs[j].from /\ rs[i].order = rs[j].order /\ i > j

Latest(rs, S) == CHOOSE i \in S : \A j \in S \ {i} : After(rs, i, j)

\* selectActiveStates: the latest row of a standard key, every row of another.
Selected(rs, k, s) ==
  LET active == ActiveRows(rs, k, s) IN
  IF k \in SingleValue /\ active # {} THEN {Latest(rs, active)} ELSE active

View(rs, k, s) == {rs[i].value : i \in Selected(rs, k, s)}

-----------------------------------------------------------------------------
(* applyStateChange.                                                       *)

WindowOK(from, to) == from \in live /\ (to = NoScene \/ (to \in live /\ from < to))

\* The row of the same scene an unordered change, or one of its order, rewrites.
\* Rows of equal order are taken in the order of their creation.
SameScene(rs, k, from) ==
  LET here == {i \in ActiveRows(rs, k, from) : rs[i].from = from} IN
  CHOOSE i \in here : \A j \in here : rs[j].order < rs[i].order
                                      \/ (rs[j].order = rs[i].order /\ i <= j)

\* Mutant of Rewrites: an unordered change does not rewrite an ordered state.
RewritesItsOrder(rs, c) ==
  /\ c.key \in SingleValue
  /\ \E i \in ActiveRows(rs, c.key, c.from) : rs[i].from = c.from
  /\ c.order = rs[SameScene(rs, c.key, c.from)].order

Rewrites(rs, c) ==
  /\ c.key \in SingleValue
  /\ \E i \in ActiveRows(rs, c.key, c.from) : rs[i].from = c.from
  /\ c.order \in {NoOrder, rs[SameScene(rs, c.key, c.from)].order}

\* The states that are active where a standard state begins end there.
Closed(rs, c) ==
  [i \in DOMAIN rs |->
     IF c.key \in SingleValue /\ i \in ActiveRows(rs, c.key, c.from) /\ rs[i].from # c.from
     THEN [rs[i] EXCEPT !.to = c.from] ELSE rs[i]]

ApplyStateChange(rs, c) ==
  IF Rewrites(rs, c)
  THEN [rs EXCEPT ![SameScene(rs, c.key, c.from)] =
          [@ EXCEPT !.value = c.value, !.to = c.to]]
  ELSE Append(Closed(rs, c), c)

\* enqueueTemporalAudit: the scene of the change and all later ones.
AuditFrom(s) == IF s \in live THEN {q \in live : q >= s} ELSE {}

\* History: a change that comes after every row of its key keeps them in order.
Follows(rs, c) ==
  \A i \in DOMAIN rs : rs[i].key = c.key =>
    \/ rs[i].from < c.from
    \/ rs[i].from = c.from /\ (rs[i].order <= c.order \/ c.order = NoOrder)
InOrderAfter(rs, keys, c) == IF Follows(rs, c) THEN keys ELSE keys \ {c.key}
Proposing(p) == held.phase \in {"locks", "proposal"} /\ p \in held.of
LockFirst(k) == IF \A p \in Proposed : p.key = k => review[p].status = "none" /\ ~Proposing(p)
                THEN lockedFirst \cup {k} ELSE lockedFirst

-----------------------------------------------------------------------------
(* The author's own states.                                                *)

ByHand(S) == step' = [audited |-> S, automatic |-> FALSE]

CreateState(k, e) ==
  LET c == [key |-> k, value |-> e.value, from |-> e.from, to |-> e.to, order |-> NoOrder] IN
  /\ WindowOK(e.from, e.to)
  /\ rows' = ApplyStateChange(rows, c)
  /\ locked' = locked \cup {k}
  /\ lockedFirst' = LockFirst(k) /\ inOrder' = InOrderAfter(rows, inOrder, c)
  /\ ByHand(AuditFrom(e.from))
  /\ UNCHANGED <<live, review, evidence, held, alerts>>

\* Rows of one scene and different orders are not compared, nor rows of deleted scenes.
Overlap(rs, i, j) ==
  /\ rs[i].key = rs[j].key
  /\ ~(rs[i].from = rs[j].from /\ rs[i].order # rs[j].order)
  /\ \A x \in {i, j} : rs[x].from \in live /\ rs[x].to \in live \cup {NoScene}
  /\ rs[j].to = NoScene \/ rs[i].from < rs[j].to
  /\ rs[i].to = NoScene \/ rs[j].from < rs[i].to

NoStandardOverlaps(rs) ==
  \A i, j \in DOMAIN rs : rs[i].key \in SingleValue /\ i # j => ~Overlap(rs, i, j)

\* Mutant of AuditStart: only the scenes after the new beginning are audited.
NewStart(old, new) == new

\* An audit starts at the earlier beginning, at the new one if the old scene is gone.
AuditStart(old, new) == IF old \notin live \/ new < old THEN new ELSE old

UpdateState(i, k, e) ==
  LET changed == [rows EXCEPT ![i] = [@ EXCEPT !.key = k, !.value = e.value, !.from = e.from,
                                               !.to = e.to]] IN
  /\ WindowOK(e.from, e.to)
  /\ NoStandardOverlaps(changed)
  /\ rows' = changed
  /\ locked' = locked \cup {rows[i].key, k}
  /\ lockedFirst' = LockFirst(rows[i].key) \cup LockFirst(k)
  /\ inOrder' = inOrder \ {rows[i].key, k}
  /\ ByHand(AuditFrom(AuditStart(rows[i].from, e.from)))
  /\ UNCHANGED <<live, review, evidence, held, alerts>>

RemoveState(i) ==
  /\ rows' = RemoveAt(rows, i)
  /\ ByHand(AuditFrom(rows[i].from))
  /\ UNCHANGED <<live, locked, review, evidence, held, alerts, lockedFirst, inOrder>>

-----------------------------------------------------------------------------
(* Proposals.                                                              *)

ConflictsWithLocked(p) == p.key \in locked

Pending(p) == review[p].status = "PENDING"

Marked(S, status) ==
  [p \in Proposed |-> IF p \in S THEN [review[p] EXCEPT !.status = status] ELSE review[p]]

\* createProposal, in a run that found p in its chunk: it reads the locks, then the
\* proposal, and writes.
ReadLocks(p) ==
  /\ held.phase = "idle"
  /\ evidence[p] # "deleted"
  /\ evidence' = [evidence EXCEPT ![p] = "current"]
  /\ held' = [phase |-> "locks", of |-> {p}, conflict |-> ConflictsWithLocked(p), was |-> "none"]
  /\ ByHand({})
  /\ UNCHANGED <<rows, live, locked, review, alerts, lockedFirst, inOrder>>

\* A rejected proposal is left alone.
ReadProposal ==
  /\ held.phase = "locks"
  /\ \E p \in held.of :
       held' = IF review[p].status = "REJECTED" THEN NoRun
               ELSE [held EXCEPT !.phase = "proposal", !.was = review[p].status]
  /\ ByHand({})
  /\ UNCHANGED <<rows, live, locked, review, evidence, alerts, lockedFirst, inOrder>>

\* One there is gets the conflict that was read, and is pending again if it was obsolete.
\* A new one refers to its chunk, which must still exist.
WriteProposal ==
  /\ held.phase = "proposal"
  /\ \E p \in held.of :
       review' = IF held.was = "none" /\ evidence[p] = "deleted" THEN review
                 ELSE [review EXCEPT ![p] =
                        [status |-> IF held.was \in {"none", "OBSOLETE"} THEN "PENDING" ELSE @.status,
                         conflict |-> held.conflict]]
  /\ held' = NoRun
  /\ ByHand({})
  /\ UNCHANGED <<rows, live, locked, evidence, alerts, lockedFirst, inOrder>>

\* A save rewrites the chunk or deletes it, and then the proposal quotes none.
ChangeChunk(p, became) ==
  /\ evidence[p] \notin {became, "deleted"}
  /\ evidence' = [evidence EXCEPT ![p] = became]
  /\ ByHand({})
  /\ UNCHANGED <<rows, live, locked, review, held, alerts, lockedFirst, inOrder>>

StaleProposals(S, unsupported) == {p \in S : evidence[p] \in unsupported /\ Pending(p)}

\* Listing marks the proposals that are still pending.
ListPendingProposals ==
  LET stale == StaleProposals(Proposed, {"edited", "deleted"}) IN
  /\ stale # {}
  /\ review' = Marked(stale, "OBSOLETE")
  /\ ByHand({})
  /\ UNCHANGED <<rows, live, locked, evidence, held, alerts, lockedFirst, inOrder>>

\* obsoleteProposalsWithoutCurrentChunkSupport, as the analysis of a scene begins: it
\* reads the pending proposals; those without a chunk are kept, and so may be those
\* whose chunk was edited after it read the chunks.
FindStale(s) ==
  /\ held.phase = "idle"
  /\ \E S \in SUBSET StaleProposals({p \in Proposed : p.scene = s}, {"edited"}) :
       S # {} /\ held' = [phase |-> "stale", of |-> S, conflict |-> FALSE, was |-> "none"]
  /\ ByHand({})
  /\ UNCHANGED <<rows, live, locked, review, evidence, alerts, lockedFirst, inOrder>>

\* Then it marks them by their ids, whatever their status is now.
MarkStale ==
  /\ held.phase = "stale"
  /\ review' = Marked(held.of, "OBSOLETE")
  /\ held' = NoRun
  /\ ByHand({})
  /\ UNCHANGED <<rows, live, locked, evidence, alerts, lockedFirst, inOrder>>

Windows == {[from |-> e.from, to |-> e.to] : e \in Edits}

Change(p, from, to) == [key |-> p.key, value |-> p.value, from |-> from, to |-> to,
                        order |-> p.order]

\* acceptProposal, at the proposal's scene or in the author's window.  Edited evidence
\* makes it obsolete; evidence that was deleted is not asked for.
AcceptProposal(p, w) ==
  /\ Pending(p)
  /\ IF evidence[p] = "edited"
     THEN /\ review' = Marked({p}, "OBSOLETE")
          /\ ByHand({})
          /\ UNCHANGED <<rows, inOrder>>
     ELSE /\ WindowOK(w.from, w.to)
          /\ rows' = ApplyStateChange(rows, Change(p, w.from, w.to))
          /\ review' = Marked({p}, "APPROVED")
          /\ inOrder' = InOrderAfter(rows, inOrder, Change(p, w.from, w.to))
          /\ ByHand(AuditFrom(w.from))
  /\ UNCHANGED <<live, locked, evidence, held, alerts, lockedFirst>>

RejectProposal(p) ==
  /\ Pending(p)
  /\ review' = Marked({p}, "REJECTED")
  /\ ByHand({})
  /\ UNCHANGED <<rows, live, locked, evidence, held, alerts, lockedFirst, inOrder>>

Group(S, p) == {q \in S : q.key = p.key /\ q.scene = p.scene}
SameValue(S) == \A p, q \in S : p.value = q.value
Transitions(S) == \A p \in S : p.kind = "transition"

\* By scene, then by order, those without one last.
Before(p, q) ==
  \/ p.scene < q.scene
  \/ p.scene = q.scene /\ q.order = NoOrder /\ p.order # NoOrder
  \/ p.scene = q.scene /\ p.order < q.order /\ p.order # NoOrder

\* The orders the accepted proposals may be applied in.
Sorted(S) ==
  {seq \in SetToSeqs(S) : \A i, j \in DOMAIN seq : i < j => ~Before(seq[j], seq[i])}

\* The rows after the accepted proposals, and the keys they leave in order.
ApplySequence(seq) ==
  LET after[n \in 0..Len(seq)] ==
        IF n = 0 THEN [rows |-> rows, inOrder |-> inOrder]
        ELSE LET c == Change(seq[n], seq[n].scene, NoScene)
                 before == after[n - 1]
             IN  [rows |-> ApplyStateChange(before.rows, c),
                  inOrder |-> InOrderAfter(before.rows, before.inOrder, c)]
  IN  after[Len(seq)]

\* acceptProposalSequence: everything or nothing.
AcceptSequence(accepted, rejected, automatic) ==
  /\ accepted \cap rejected = {} /\ accepted \cup rejected # {}
  /\ \A p \in accepted \cup rejected : Pending(p)
  /\ \A p \in accepted : LET g == Group(accepted, p) IN SameValue(g) \/ Transitions(g)
  /\ LET stale == {p \in accepted : evidence[p] = "edited"} IN
     IF stale # {}
     THEN /\ review' = Marked(stale, "OBSOLETE")
          /\ step' = [audited |-> {}, automatic |-> automatic]
          /\ UNCHANGED <<rows, inOrder>>
     ELSE /\ \A p \in accepted : p.scene \in live /\ ~review[p].conflict
          /\ \E seq \in Sorted(accepted) :
               rows' = ApplySequence(seq).rows /\ inOrder' = ApplySequence(seq).inOrder
          /\ review' = [p \in Proposed |->
               IF p \in accepted THEN Marked(accepted, "APPROVED")[p]
               ELSE Marked(rejected, "REJECTED")[p]]
          /\ step' = [audited |-> UNION {AuditFrom(p.scene) : p \in accepted},
                      automatic |-> automatic]
  /\ UNCHANGED <<live, locked, evidence, held, alerts, lockedFirst>>

\* autoApproveStates: the groups of a scene without stale evidence, a conflict, an
\* uncertainty or values that are not all steps of a transition.
Approvable(g) ==
  /\ \A p \in g : /\ evidence[p] = "current" /\ ~review[p].conflict
                  /\ p.kind \notin {"contradiction", "uncertain"}
  /\ SameValue(g) \/ Transitions(g)

ReviewScene(s) ==
  LET pending == {p \in Proposed : p.scene = s /\ Pending(p)} IN
  /\ s \in live
  /\ AcceptSequence({p \in pending : Approvable(Group(pending, p))}, {}, TRUE)

-----------------------------------------------------------------------------
(* Confirmed alerts, and scenes.                                           *)

\* applyKnowledgeUpdate: some row of the scene gets the value, or the active ones
\* end there and a new one begins; the alert is resolved.
ApplyKnowledgeUpdate(c) ==
  LET here == {i \in DOMAIN rows : rows[i].key = c.key /\ rows[i].from = c.scene}
      new == [key |-> c.key, value |-> c.value, from |-> c.scene, to |-> NoScene,
              order |-> NoOrder]
  IN  /\ c \in alerts
      /\ c.scene \in live
      /\ IF here # {}
         THEN \E i \in here : rows' = [rows EXCEPT ![i].value = c.value]
         ELSE rows' = Append(Closed(rows, new), new)
      /\ locked' = locked \cup {c.key}
      /\ alerts' = alerts \ {c}
      /\ lockedFirst' = LockFirst(c.key)
      /\ inOrder' = IF here = {} THEN InOrderAfter(rows, inOrder, new) ELSE inOrder
      /\ ByHand(AuditFrom(c.scene))
      /\ UNCHANGED <<live, review, evidence, held>>

\* softDeleteForUser: the states stay.
DeleteScene(s) ==
  /\ s \in live
  /\ live' = live \ {s}
  /\ ByHand({})
  /\ UNCHANGED <<rows, locked, review, evidence, held, alerts, lockedFirst, inOrder>>

Next ==
  \/ \E k \in Keys, e \in Edits : CreateState(k, e)
  \/ \E i \in DOMAIN rows, k \in Keys, e \in Edits : UpdateState(i, k, e)
  \/ \E i \in DOMAIN rows : RemoveState(i)
  \/ \E p \in Proposed : ReadLocks(p)
  \/ ReadProposal \/ WriteProposal
  \/ \E p \in Proposed, became \in {"edited", "deleted"} : ChangeChunk(p, became)
  \/ ListPendingProposals
  \/ \E s \in Scenes : FindStale(s)
  \/ MarkStale
  \/ \E p \in Proposed, w \in Windows : AcceptProposal(p, w)
  \/ \E p \in Proposed : AcceptProposal(p, [from |-> p.scene, to |-> NoScene])
  \/ \E p \in Proposed : RejectProposal(p)
  \/ \E A, R \in SUBSET Proposed : AcceptSequence(A, R, FALSE)
  \/ \E s \in Scenes : ReviewScene(s)
  \/ \E c \in Conflicts : ApplyKnowledgeUpdate(c)
  \/ \E s \in Deletable : DeleteScene(s)

\* Bounds: MaxRows, and MaxBusyRows while an analysis is between two statements.
Bounded ==
  /\ Next
  /\ Len(rows') <= MaxRows
  /\ held'.phase # "idle" => Len(rows') <= MaxBusyRows

Spec == Init /\ [][Bounded]_vars

-----------------------------------------------------------------------------
(* Properties.                                                             *)

HasTwin(rs, i) ==
  \E j \in ActiveRows(rs, rs[i].key, rs[i].from) \ {i} :
    rs[j].from = rs[i].from /\ rs[j].order = rs[i].order

\* Whatever the rows, a standard state that is applied at a scene holds there, unless
\* the scene has a state of a later order, or two of one order (the first of them is
\* rewritten, the last one shown); and no earlier scene is touched.
AppliedValueHolds ==
  \A k \in SingleValue, v \in Values, w \in Windows,
     order \in {NoOrder} \cup {p.order : p \in Proposed} :
    WindowOK(w.from, w.to) =>
      LET c == [key |-> k, value |-> v, from |-> w.from, to |-> w.to, order |-> order]
          new == ApplyStateChange(rows, c)
      IN  /\ \A s \in live : s < w.from => View(new, k, s) = View(rows, k, s)
          /\ \/ View(new, k, w.from) = {v}
             \/ order # NoOrder /\ \E i \in ActiveRows(rows, k, w.from) :
                  rows[i].from = w.from /\ rows[i].order > order
             \/ Rewrites(rows, c) /\ HasTwin(rows, SameScene(rows, k, w.from))

\* A step that changes the snapshot of a scene has it audited, whichever handler changed it.
\* (Deleting a scene changes snapshots and audits nothing.)
ChangedScenesAreAudited ==
  [][rows' # rows /\ live' = live =>
       \A k \in Keys, s \in live :
         View(rows', k, s) # View(rows, k, s) => s \in step'.audited]_vars

RowsOf(rs, k) == [i \in {j \in DOMAIN rs : rs[j].key = k} |-> rs[i]]

\* What the author locked before an analysis began to propose anything for it is never
\* changed by the automation.
LockedKeyIsLeftAlone ==
  [][step'.automatic => \A k \in lockedFirst : RowsOf(rows', k) = RowsOf(rows, k)]_vars

\* What the author or the automation decided about a proposal stays decided, however
\* often it is extracted again and whatever happens to its evidence; only an analysis
\* that read it as pending and stale before the decision makes it obsolete after.
DecisionIsFinal ==
  [][\A p \in Proposed : review[p].status \in Decided =>
       \/ review'[p].status = review[p].status
       \/ held.phase = "stale" /\ p \in held.of /\ held' = NoRun]_vars

\* States that were added one after the other never overlap, ordered transitions
\* within a scene apart: the author can still edit them.
InOrderStatesAreDisjoint ==
  \A k \in inOrder \cap SingleValue :
    \A i, j \in DOMAIN rows : rows[i].key = k /\ rows[j].key = k /\ i # j => ~Overlap(rows, i, j)

\* The rows of an attribute stay what the author would call consistent.
RowsAreSound == TypeOK /\ AppliedValueHolds /\ InOrderStatesAreDisjoint

\* What the author decided, locked or could be told about is respected by every step.
StepsRespectTheAuthor == ChangedScenesAreAudited /\ LockedKeyIsLeftAlone /\ DecisionIsFinal
=============================================================================
