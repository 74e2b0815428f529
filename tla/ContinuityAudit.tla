-------------------------- MODULE ContinuityAudit --------------------------
(***************************************************************************)
(* The audit that compares the scenes of a project with what the text      *)
(* before them claims (cross-chunk-audit.service.ts, mode PROJECT_SUMMARY). *)
(* After each scene it stores a checkpoint with the claims made so far, and *)
(* the next audit resumes behind the last checkpoint that still holds.     *)
(* Saving a scene invalidates the checkpoints from there on and makes the  *)
(* alerts that quote it obsolete (prisma-scene-repository.adapter.ts).     *)
(*                                                                         *)
(* An alert is a row found by its fingerprint, which names the scene       *)
(* audited but not the earlier one: two earlier scenes with the same text  *)
(* share the row, which then has both as sources and is obsolete when      *)
(* either is stale (audit.service.ts).                                     *)
(*                                                                         *)
(* A scene is one chunk, a text is what the model reads out of it: for     *)
(* some fields, a value.  Its hash is the text itself.  The author's       *)
(* verdicts on alerts are those of SceneAlerts.                            *)
(***************************************************************************)
EXTENDS SequencesExt

CONSTANTS
  Scenes,      \* scenes of the project
  Texts,       \* functions from some fields to values
  MaxClaims,   \* claims a checkpoint holds (200 in the code)
  MaxSaves,    \* bound on the author's saves
  MaxChanges   \* bound on moves, removals, changes of mode and failures

AuditAssumption ==
  /\ IsFiniteSet(Scenes) /\ MaxClaims \in Nat
  /\ \A t \in Texts : IsFiniteSet(DOMAIN t)

VARIABLES
  order,       \* the live scenes in narrative order
  text,        \* the text of each scene
  checkpoint,  \* per scene: [valid, text, claims]
  alerts,      \* per fingerprint: [status, scenes], the earlier scenes it quotes
  mode,        \* the project's audit mode
  queued,      \* scenes whose analysis waits
  job,         \* the audit that runs (the worker takes one job at a time)
  excused,     \* what happened that an audit does not make good
  saves, changes

auditVars == <<order, text, checkpoint, alerts, mode, queued, job, excused, saves, changes>>

Idle == [step |-> "idle"]

NoCheckpoint(s) == [valid |-> FALSE, text |-> text[s], claims |-> <<>>]

Init ==
  /\ order \in SetToSeqs(Scenes)
  /\ text \in [Scenes -> Texts]
  /\ checkpoint = [s \in Scenes |-> NoCheckpoint(s)]
  /\ alerts = [k \in {} |-> [status |-> "ACTIVE", scenes |-> {}]]
  /\ mode = "PROJECT_SUMMARY"
  /\ queued = Scenes
  /\ job = Idle
  /\ excused = FALSE
  /\ saves = 0 /\ changes = 0

-----------------------------------------------------------------------------
(* Claims.                                                                 *)

Claims(s, t) == {[field |-> f, value |-> t[f], scene |-> s, text |-> t] : f \in DOMAIN t}

\* mergeContinuityClaims: a claim takes the place of the older one of its field, a new
\* field goes last, and the last MaxClaims stay.
Merge(claims, new) ==
  LET replaced == [i \in DOMAIN claims |->
                     LET same == {c \in new : c.field = claims[i].field}
                     IN  IF same = {} THEN claims[i] ELSE CHOOSE c \in same : TRUE]
      added == {c \in new : \A i \in DOMAIN claims : claims[i].field # c.field}
      all == replaced \o SetToSeq(added)
  IN  SubSeq(all, 1 + (IF Len(all) > MaxClaims THEN Len(all) - MaxClaims ELSE 0), Len(all))

\* The claims after each scene when an audit reads all of them; none before the first.
ClaimsAfter(scenes, texts) ==
  LET after[i \in 0..Len(scenes)] ==
        IF i = 0 THEN <<>> ELSE Merge(after[i - 1], Claims(scenes[i], texts[scenes[i]]))
  IN  after

\* loadCurrentClaims: those whose chunk still has the text they quote.
Current(claim) == text[claim.scene] = claim.text

-----------------------------------------------------------------------------
(* Alerts.                                                                 *)

\* createFingerprint: the text and the field stand for the values.
Fingerprint(p, n) == [scene |-> n.scene, older |-> p.text, newer |-> n.text, field |-> n.field]

\* The supportingChunks of a row, the first ones and the second; mergeSourceConflict
\* keeps one source per chunk.
Sources(k, row) ==
  {[scene |-> s, text |-> k.older] : s \in row.scenes} \cup {[scene |-> k.scene, text |-> k.newer]}

Named(k) == alerts[k].scenes \cup {k.scene}

\* The rows when some are made obsolete.
Obsoleted(gone) ==
  [k \in DOMAIN alerts |-> [status |-> IF k \in gone THEN "OBSOLETE" ELSE alerts[k].status,
                            scenes |-> alerts[k].scenes]]

-----------------------------------------------------------------------------
(* The audit of one scene's analysis.                                      *)

Contradicts(claim, new) == claim.field = new.field /\ claim.value # new.value

\* What the model is asked to compare, as the alerts it may lead to.
Compared(older, newer) == {[first |-> p, second |-> n] : p \in older, n \in newer}

\* auditScene reads the mode and the scenes; a mode other than PROJECT_SUMMARY asks
\* obsoleteCrossChunkAlertsForProject for a clean-up without naming chunks, which does
\* nothing.
SkipAudit(s) ==
  /\ job = Idle /\ s \in queued
  /\ mode # "PROJECT_SUMMARY" \/ s \notin Range(order)
  /\ queued' = queued \ {s}
  /\ excused' = TRUE
  /\ UNCHANGED <<order, text, checkpoint, alerts, mode, job, saves, changes>>

LoadScenes(s) ==
  /\ job = Idle /\ s \in queued /\ s \in Range(order)
  /\ mode = "PROJECT_SUMMARY"
  /\ queued' = queued \ {s}
  /\ job' = [step |-> "resolving", claims |-> <<>>, next |-> 0, found |-> {}, active |-> {},
             affected |-> {},
             target |-> CHOOSE i \in DOMAIN order : order[i] = s,
             scenes |-> [i \in DOMAIN order |-> [scene |-> order[i], text |-> text[order[i]]]]]
  /\ UNCHANGED <<order, text, checkpoint, alerts, mode, excused, saves, changes>>

\* resolveContinuityResumePoint: the checkpoint has the hash of the scene that was read
\* and every claim it stores is still there.
Holds(c, read) == c.text = read /\ \A i \in DOMAIN c.claims : Current(c.claims[i])

Valid(i) == checkpoint[job.scenes[i].scene].valid

Candidates == {i \in 1..(job.target - 1) : Valid(i)}

\* A mutant of Behind.
BehindTheNext(i) == IF i = 0 THEN 1 ELSE i + 2

\* The scene an audit resumes with when the i-th one has the checkpoint; from the
\* start, when none holds.
Behind(i) == i + 1

\* The valid checkpoints before the audited scene are tried from the last to the
\* first; those that fail are invalidated.
Resume ==
  /\ job.step = "resolving"
  /\ LET good == {i \in Candidates : Holds(checkpoint[job.scenes[i].scene], job.scenes[i].text)}
         from == IF good = {} THEN 0 ELSE CHOOSE i \in good : \A j \in good : j <= i
         failed == {job.scenes[i].scene : i \in {j \in Candidates : j > from}}
     IN  /\ job' = [job EXCEPT
              !.step = "extracting",
              !.next = Behind(from),
              !.affected = {job.scenes[i].scene : i \in Behind(from)..Len(job.scenes)},
              !.claims = IF from = 0 THEN <<>> ELSE checkpoint[job.scenes[from].scene].claims]
         /\ checkpoint' = [s \in Scenes |->
              IF s \in failed THEN [checkpoint[s] EXCEPT !.valid = FALSE] ELSE checkpoint[s]]
  /\ UNCHANGED <<order, text, alerts, mode, queued, excused, saves, changes>>

\* persistContradiction checks that neither text changed since it was read, and
\* createAlert reads the row of the fingerprint.
Extract ==
  /\ job.step = "extracting" /\ job.next <= Len(job.scenes)
  /\ LET read == job.scenes[job.next]
         new == Claims(read.scene, read.text)
     IN  job' = [job EXCEPT
           !.step = "recording",
           !.claims = Merge(@, new),
           !.found = {alert \in Compared(Range(job.claims), new) :
                        /\ Contradicts(alert.first, alert.second)
                        /\ Current(alert.first) /\ Current(alert.second)},
           !.active = {k \in DOMAIN alerts : alerts[k].status = "ACTIVE"}]
  /\ UNCHANGED <<order, text, checkpoint, alerts, mode, queued, excused, saves, changes>>

\* The earlier scenes of the contradictions found under a fingerprint.
FoundScenes(k) == {alert.first.scene : alert \in {a \in job.found : Fingerprint(a.first, a.second) = k}}

\* createAlert: the new sources join those of the row, which is active from now on; one
\* that was read as active keeps the status it has.
Recorded(k) ==
  IF FoundScenes(k) = {} THEN alerts[k]
  ELSE [status |-> IF k \in job.active THEN alerts[k].status ELSE "ACTIVE",
        scenes |-> FoundScenes(k) \cup (IF k \in DOMAIN alerts THEN alerts[k].scenes ELSE {})]

\* createCrossChunkContinuityAlert for each; persistContinuityCheckpoint reads the
\* chunks again, and a scene that changed ends the audit.
Record ==
  /\ job.step = "recording"
  /\ alerts' = [k \in DOMAIN alerts \cup {Fingerprint(a.first, a.second) : a \in job.found} |-> Recorded(k)]
  /\ LET read == job.scenes[job.next]
     IN  job' = [job EXCEPT !.step = IF text[read.scene] = read.text THEN "storing" ELSE "ending",
                            !.found = {}, !.active = {}]
  /\ UNCHANGED <<order, text, checkpoint, mode, queued, excused, saves, changes>>

Store ==
  /\ job.step = "storing"
  /\ LET read == job.scenes[job.next]
     IN  checkpoint' = [checkpoint EXCEPT
              ![read.scene] = [valid |-> TRUE, text |-> read.text, claims |-> job.claims]]
  /\ job' = [job EXCEPT !.next = @ + 1,
                        !.step = IF job.next = Len(job.scenes) THEN "ending" ELSE "extracting"]
  /\ UNCHANGED <<order, text, alerts, mode, queued, excused, saves, changes>>

\* obsoleteCrossChunkAlertsForProject: the alerts with a source in an audited scene
\* whose text is no longer the one the alert quotes.
Outdated ==
  {k \in DOMAIN alerts : \E q \in Sources(k, alerts[k]) : q.scene \in job.affected /\ ~ Current(q)}

EndAudit ==
  /\ job.step = "ending"
  /\ alerts' = Obsoleted(Outdated)
  /\ job' = Idle
  /\ UNCHANGED <<order, text, checkpoint, mode, queued, excused, saves, changes>>

\* The model's answer or a write fails.  The flags of the scene's chunks are clear by
\* then, so the retry finds nothing to audit.
FailAudit ==
  /\ job.step \in {"resolving", "extracting", "recording", "storing", "ending"}
  /\ changes < MaxChanges
  /\ changes' = changes + 1
  /\ job' = Idle
  /\ excused' = TRUE
  /\ UNCHANGED <<order, text, checkpoint, alerts, mode, queued, saves>>

-----------------------------------------------------------------------------
(* The author.                                                             *)

\* invalidateContinuityCheckpointsFromScene.
Invalidated(s) ==
  LET i == CHOOSE i \in DOMAIN order : order[i] = s
  IN  Range(SubSeq(order, i, Len(order)))

\* updateContentForUser, syncSceneChunks, obsoleteAlertsForChangedChunks, one transaction.
Save(s, t) ==
  /\ saves < MaxSaves
  /\ s \in Range(order) /\ t # text[s]
  /\ text' = [text EXCEPT ![s] = t]
  /\ alerts' = Obsoleted({k \in DOMAIN alerts : s \in Named(k)})
  /\ checkpoint' = [c \in Scenes |->
       IF c \in Invalidated(s) THEN [checkpoint[c] EXCEPT !.valid = FALSE] ELSE checkpoint[c]]
  /\ queued' = queued \cup {s}
  /\ saves' = saves + 1
  /\ UNCHANGED <<order, mode, job, excused, changes>>

Change ==
  /\ changes < MaxChanges
  /\ changes' = changes + 1
  /\ UNCHANGED <<text, checkpoint, alerts, job, saves>>

\* updateForUser: a new place in the order queues an audit of every scene
\* (enqueueProjectTemporalAudit) and leaves the checkpoints alone.
MoveScene ==
  /\ Change
  /\ \E o \in SetToSeqs(Range(order)) : o # order /\ order' = o
  /\ queued' = queued \cup Range(order)
  /\ UNCHANGED <<mode, excused>>

\* softDeleteForUser: neither checkpoints nor alerts nor an audit.
RemoveScene(s) ==
  /\ Change
  /\ s \in Range(order)
  /\ order' = Remove(order, s)
  /\ excused' = TRUE
  /\ UNCHANGED <<mode, queued>>

ChangeMode ==
  /\ Change
  /\ mode' = IF mode = "PROJECT_SUMMARY" THEN "DISABLED" ELSE "PROJECT_SUMMARY"
  /\ UNCHANGED <<order, queued, excused>>

Next ==
  \/ \E s \in Scenes : SkipAudit(s) \/ LoadScenes(s)
  \/ Resume \/ Extract \/ Record \/ Store \/ EndAudit \/ FailAudit
  \/ \E s \in Scenes, t \in Texts : Save(s, t)
  \/ MoveScene
  \/ \E s \in Scenes : RemoveScene(s)
  \/ ChangeMode

Spec == Init /\ [][Next]_auditVars

-----------------------------------------------------------------------------
(* Properties.                                                             *)

\* The contradiction has a row that quotes both scenes, and the row is active unless it
\* quotes another earlier scene as well.
Reported(rows, p, n) ==
  LET k == Fingerprint(p, n)
  IN  /\ k \in DOMAIN rows /\ p.scene \in rows[k].scenes
      /\ rows[k].status = "ACTIVE" \/ rows[k].scenes # {p.scene}

\* Once every queued audit has run, each contradiction of a scene with the claims before
\* it is an alert, active unless its row has a third scene among its sources, and an
\* active alert quotes the current text of its scene and of an earlier one: resuming
\* behind a checkpoint, stopping at a scene that changed and overtaken audits lose nothing.
QuietAuditIsComplete ==
  job = Idle /\ queued = {} /\ ~ excused =>
    /\ \A i \in DOMAIN order :
         \A p \in Range(ClaimsAfter(order, text)[i - 1]), n \in Claims(order[i], text[order[i]]) :
           Contradicts(p, n) => Reported(alerts, p, n)
    /\ \A k \in DOMAIN alerts : alerts[k].status = "ACTIVE" =>
         /\ text[k.scene] = k.newer
         /\ \E s \in alerts[k].scenes : text[s] = k.older
=============================================================================
