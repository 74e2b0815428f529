----------------------------- MODULE SceneAlerts -----------------------------
(***************************************************************************)
(* The alerts between the chunks of one scene: what the audit of a scene   *)
(* finds (cross-chunk-audit.service.ts, modes ADJACENT and SCENE_GROUPED), *)
(* how an alert is stored, found again, merged and made obsolete, and what *)
(* the author decides about it (audit.service.ts).                         *)
(*                                                                         *)
(* An alert is known by its fingerprint, which has the hashes of both      *)
(* texts; the author's dismissal by its pattern, which has the two values  *)
(* in any order and no text.  A chunk's text is its hash; a text claims    *)
(* one value or none (0).  The model reports what it can see.  The worker  *)
(* takes one job at a time.                                                *)
(***************************************************************************)
EXTENDS Sequences, FiniteSets, Functions

CONSTANTS
  Contents,      \* the contents of the scene, sequences of texts
  Value,         \* what a text claims
  GroupSize,     \* MAX_SCENE_GROUP_CHUNKS, 5 in the code
  MaxSaves,      \* bound on the author's saves
  MaxVerdicts    \* bound on the author's decisions about alerts

SceneAssumption ==
  /\ GroupSize \in Nat /\ GroupSize > 1 /\ MaxSaves \in Nat
  /\ \A c \in Contents : c \in Seq(Range(c))

VARIABLES
  mode,          \* the project's audit mode
  rows,          \* the chunks of the scene: [id, text, dirty]
  events,        \* contents of the events that wait, the one that runs first
  alerts,        \* [fingerprint, status, sources]
  suppressed,    \* patterns of AuditFalsePositive rows
  job,           \* the analysis that runs
  decided,       \* the author's decisions: [pattern, status]
  failed,        \* an analysis failed after it had cleared flags
  saves, verdicts

sceneAlertsVars == <<mode, rows, events, alerts, suppressed, job, decided, failed, saves, verdicts>>

Idle == [step |-> "idle"]

Row(i, t) == [id |-> <<0, i>>, text |-> t, dirty |-> TRUE]

\* A scene that was saved once.
Init ==
  /\ mode \in {"ADJACENT", "SCENE_GROUPED"}
  /\ \E c \in Contents : /\ rows = [i \in DOMAIN c |-> Row(i, c[i])]
                         /\ events = <<c>>
  /\ alerts = {} /\ suppressed = {}
  /\ job = Idle
  /\ decided = {} /\ failed = FALSE
  /\ saves = 0 /\ verdicts = 0

-----------------------------------------------------------------------------
(* Alerts.                                                                 *)

\* createFingerprint: neither the chunks nor their places.
Fingerprint(first, second) == <<first.text, second.text>>

\* createSuppressionKey sorts the values.
Pattern(f) == {Value[f[1]], Value[f[2]]}

Evidence(first, second) ==
  {[chunk |-> first.id, text |-> first.text, side |-> "first"],
   [chunk |-> second.id, text |-> second.text, side |-> "second"]}

\* mergeSourceConflict: a source takes the place of the older one of its chunk and side.
MergeSources(old, new) ==
  {s \in old : ~ \E n \in new : n.chunk = s.chunk /\ n.side = s.side} \cup new

IsCurrent(source) == \E r \in Range(rows) : r.id = source.chunk /\ r.text = source.text

Obsolete(stale) ==
  {IF a.status = "ACTIVE" /\ a \in stale THEN [a EXCEPT !.status = "OBSOLETE"] ELSE a : a \in alerts}

-----------------------------------------------------------------------------
(* What the audit looks at.                                                *)

\* auditAdjacentChunks, auditAdjacentPair.
AdjacentPairs(n, dirty) == {<<i, i + 1>> : i \in {k \in 1..(n - 1) : {k, k + 1} \cap dirty # {}}}

\* A mutant of Stride.
StrideWithoutOverlap == GroupSize

\* auditSceneGroups: each group begins with the last chunk of the one before it.
Stride == GroupSize - 1

Groups(n) ==
  {(k * Stride + 1)..(IF n < k * Stride + GroupSize THEN n ELSE k * Stride + GroupSize) :
     k \in {j \in 0..n : j * Stride < n - 1}}

\* auditSceneGroup, shouldAuditSceneGroup.
GroupedPairs(n, dirty) ==
  UNION {{p \in g \X g : p[1] < p[2]} : g \in {h \in Groups(n) : h \cap dirty # {}}}

Contradict(first, second) ==
  Value[first.text] # 0 /\ Value[second.text] # 0 /\ Value[first.text] # Value[second.text]

\* What the model reports of the chunks it is shown, in narrative order.
Reported(read, dirty) ==
  LET places == {i \in DOMAIN read : read[i].id \in dirty}
      pairs == IF mode = "ADJACENT" THEN AdjacentPairs(Len(read), places)
                                    ELSE GroupedPairs(Len(read), places)
      found == {p \in pairs : Contradict(read[p[1]], read[p[2]])}
      Before(p) == {q \in found : q[1] < p[1] \/ (q[1] = p[1] /\ q[2] < p[2])}
      At(k) == CHOOSE p \in found : Cardinality(Before(p)) = k - 1
  IN  [k \in 1..Cardinality(found) |-> [first |-> read[At(k)[1]], second |-> read[At(k)[2]]]]

-----------------------------------------------------------------------------
(* The analysis of the scene.                                              *)

EndJob == job' = Idle /\ events' = Tail(events)

\* processSceneChanged: obsoleteAlertsWithoutCurrentChunkSupport, then the dirty
\* chunks; without one there is no audit.
Begin ==
  /\ job = Idle /\ events # <<>>
  /\ alerts' = Obsolete({a \in alerts : \E s \in a.sources : ~ IsCurrent(s)})
  /\ LET dirty == {r.id : r \in {q \in Range(rows) : q.dirty}} IN
     IF dirty = {} THEN EndJob
     ELSE /\ job' = [step |-> "extracting", dirty |-> dirty, found |-> <<>>, overtaken |-> FALSE]
          /\ UNCHANGED events
  /\ UNCHANGED <<mode, rows, suppressed, decided, failed, saves, verdicts>>

Cleared == [i \in DOMAIN rows |-> IF rows[i].id \in job.dirty THEN [rows[i] EXCEPT !.dirty = FALSE] ELSE rows[i]]

\* The chunks are extracted and their flags cleared one after the other; then auditScene
\* reads the chunks again.
LoadChunks ==
  /\ job.step = "extracting"
  /\ job.dirty \subseteq {r.id : r \in Range(rows)}
  /\ rows' = Cleared
  /\ job' = [job EXCEPT !.step = "auditing", !.found = Reported(rows, job.dirty)]
  /\ UNCHANGED <<mode, events, alerts, suppressed, decided, failed, saves, verdicts>>

\* A chunk that was deleted meanwhile makes the job fail after the ones before it; so
\* does the model or a write.  The retry finds no flag.
Fail ==
  /\ \/ /\ job.step = "extracting" /\ rows' = Cleared
     \/ /\ job.step \in {"auditing", "finding", "writing"} /\ UNCHANGED rows
  /\ job' = Idle
  /\ failed' = TRUE
  /\ UNCHANGED <<mode, events, alerts, suppressed, decided, saves, verdicts>>

This == Head(job.found)
ThisPrint == Fingerprint(This.first, This.second)
SkipThis == job' = [job EXCEPT !.step = "auditing", !.found = Tail(@)]

\* A mutant of Suppressed.
SuppressedByAlert(f) == \E a \in alerts : a.status = "DISMISSED" /\ a.fingerprint = f

Suppressed(f) ==
  \/ Pattern(f) \in suppressed
  \/ \E a \in alerts : a.status = "DISMISSED" /\ Pattern(a.fingerprint) = Pattern(f)

\* persistContradiction reads both chunks again; createAlert asks for a dismissal, and
\* makes up for the suppression of an alert that was dismissed without one.
CheckSuppression ==
  /\ job.step = "auditing" /\ job.found # <<>>
  /\ LET quoted == \A s \in Evidence(This.first, This.second) : IsCurrent(s) IN
     /\ suppressed' = IF quoted /\ Suppressed(ThisPrint) THEN suppressed \cup {Pattern(ThisPrint)} ELSE suppressed
     /\ IF quoted /\ ~ Suppressed(ThisPrint)
        THEN job' = [job EXCEPT !.step = "finding", !.overtaken = FALSE]
        ELSE SkipThis
  /\ UNCHANGED <<mode, rows, events, alerts, decided, failed, saves, verdicts>>

\* createAlert: the alert of this fingerprint, or a resolved one of the same pattern,
\* or none.
FindAlert ==
  /\ job.step = "finding"
  /\ LET same == {a \in alerts : a.fingerprint = ThisPrint}
         resolved == {a \in alerts : a.status = "RESOLVED" /\ Pattern(a.fingerprint) = Pattern(ThisPrint)}
         found == IF same # {} THEN same ELSE resolved
     IN  \/ /\ \E a \in same : a.status = "DISMISSED"
            /\ SkipThis
         \/ \E a \in found :
              /\ a.status # "DISMISSED"
              /\ job' = [step |-> "writing", dirty |-> job.dirty, found |-> job.found,
                         overtaken |-> job.overtaken, known |-> {a}]
         \/ /\ found = {}
            /\ job' = [step |-> "writing", dirty |-> job.dirty, found |-> job.found,
                       overtaken |-> job.overtaken, known |-> {}]
  /\ UNCHANGED <<mode, rows, events, alerts, suppressed, decided, failed, saves, verdicts>>

\* An obsolete or resolved alert is active again; a resolved one of the pattern takes
\* the new fingerprint and the new sources.
WriteAlert ==
  /\ job.step = "writing"
  /\ LET new == Evidence(This.first, This.second)
         Stored(a) == CHOOSE b \in alerts : b.fingerprint = a.fingerprint
         written == IF job.known = {} THEN {[fingerprint |-> ThisPrint, status |-> "ACTIVE", sources |-> new]}
                    ELSE {[fingerprint |-> ThisPrint,
                           status |-> IF a.status \in {"OBSOLETE", "RESOLVED"} THEN "ACTIVE" ELSE Stored(a).status,
                           sources |-> IF a.fingerprint = ThisPrint THEN MergeSources(a.sources, new) ELSE new]
                          : a \in job.known}
     IN  alerts' = (alerts \ {Stored(a) : a \in job.known}) \cup written
  /\ job' = [step |-> "auditing", dirty |-> job.dirty, found |-> Tail(job.found), overtaken |-> FALSE]
  /\ UNCHANGED <<mode, rows, events, suppressed, decided, failed, saves, verdicts>>

\* reconcileSceneAuditAlerts, obsoleteCrossChunkAlertsForChunks; markProcessed.
Reconcile ==
  /\ job.step = "auditing" /\ job.found = <<>>
  /\ alerts' = Obsolete({a \in alerts : \E s \in a.sources : s.chunk \in job.dirty /\ ~ IsCurrent(s)})
  /\ EndJob
  /\ UNCHANGED <<mode, rows, suppressed, decided, failed, saves, verdicts>>

-----------------------------------------------------------------------------
(* The author.                                                             *)

\* updateContentForUser: syncSceneChunks rewrites the rows in place by their index,
\* obsoleteAlertsForChangedChunks, and enqueueSceneChanged writes no event when the
\* newest one that waits has this content.
Save(content) ==
  /\ saves < MaxSaves
  /\ saves' = saves + 1
  /\ content # [i \in DOMAIN rows |-> rows[i].text]
  /\ rows' = [i \in DOMAIN content |->
       IF i > Len(rows) THEN [id |-> <<saves', i>>, text |-> content[i], dirty |-> TRUE]
       ELSE IF rows[i].text = content[i] THEN rows[i]
       ELSE [rows[i] EXCEPT !.text = content[i], !.dirty = TRUE]]
  /\ alerts' = Obsolete({a \in alerts :
       \E s \in a.sources, i \in DOMAIN rows :
         /\ s.chunk = rows[i].id
         /\ i > Len(content) \/ rows[i].text # content[i]})
  /\ events' = IF events # <<>> /\ events[Len(events)] = content THEN events ELSE Append(events, content)
  /\ UNCHANGED <<mode, suppressed, job, decided, failed, verdicts>>

Decide(a, status) ==
  /\ verdicts < MaxVerdicts
  /\ verdicts' = verdicts + 1
  /\ a.status # status
  /\ alerts' = (alerts \ {a}) \cup {[a EXCEPT !.status = status]}
  /\ decided' = decided \cup {[pattern |-> Pattern(a.fingerprint), status |-> status]}
  /\ UNCHANGED <<mode, rows, events, failed, saves>>

\* updateStatus RESOLVED.
Resolve(a) ==
  /\ Decide(a, "RESOLVED")
  /\ UNCHANGED <<suppressed, job>>

\* updateStatus DISMISSED: the pattern is remembered.
Dismiss(a) ==
  /\ Decide(a, "DISMISSED")
  /\ suppressed' = suppressed \cup {Pattern(a.fingerprint)}
  /\ job' = IF job.step \in {"finding", "writing"} THEN [job EXCEPT !.overtaken = TRUE] ELSE job

\* updateStatus ACTIVE: the pattern is forgotten.
RestoreAlert(a) ==
  /\ Decide(a, "ACTIVE")
  /\ suppressed' = suppressed \ {Pattern(a.fingerprint)}
  /\ UNCHANGED job

Next ==
  \/ Begin \/ LoadChunks \/ Fail \/ CheckSuppression \/ FindAlert \/ WriteAlert \/ Reconcile
  \/ \E c \in Contents : Save(c)
  \/ \E a \in alerts : Resolve(a) \/ Dismiss(a) \/ RestoreAlert(a)

Spec == Init /\ [][Next]_sceneAlertsVars

-----------------------------------------------------------------------------
(* Properties.                                                             *)

Quiet ==
  job = Idle /\ events = <<>> /\ (\A r \in Range(rows) : ~ r.dirty) /\ ~ failed

Decided(status) == {d.pattern : d \in {e \in decided : e.status = status}}

\* Found in two places: by another place of the same texts, now or earlier.
Scattered(a) == Cardinality(a.sources) > 2

\* Although only the pairs and groups with a dirty chunk are audited, once every event is
\* done two neighbouring chunks that contradict each other have an alert that was not
\* made obsolete, and what is active quotes current text.  Except for the patterns the
\* author decided about (a resolved alert leaves its place for another contradiction of
\* its pattern) and for the alerts that were merged from two places.
QuietSceneIsReported ==
  Quiet =>
    /\ \A i \in 1..(Len(rows) - 1) :
         LET f == Fingerprint(rows[i], rows[i + 1]) IN
         Contradict(rows[i], rows[i + 1]) =>
           \/ Pattern(f) \in {d.pattern : d \in decided}
           \/ \E a \in alerts : a.fingerprint = f /\ (a.status # "OBSOLETE" \/ Scattered(a))
    /\ \A a \in alerts :
         a.status = "ACTIVE" /\ Pattern(a.fingerprint) \notin Decided("ACTIVE") /\ ~ Scattered(a) =>
           \A s \in a.sources : IsCurrent(s)

DismissedReturnsOvertaken ==
  \A a \in alerts' :
    /\ a.status = "ACTIVE"
    /\ Pattern(a.fingerprint) \in suppressed \cap suppressed'
    /\ ~ \E b \in alerts : b.fingerprint = a.fingerprint /\ b.status = "ACTIVE"
    => job.overtaken

\* An analysis never makes a conflict active that the author has dismissed, although its
\* texts are edited, moved or swapped, unless the dismissal came after the alert's
\* check for one.
DismissedStaysAway == [][DismissedReturnsOvertaken]_sceneAlertsVars

\* A conflict the author had marked as resolved and a later analysis detects again is
\* open (the audit makes the alert active with the sources of its former place as well,
\* and obsoletes it for them when it reconciles).
DetectedAgainIsOpen ==
  Quiet =>
    \A i \in 1..(Len(rows) - 1), a \in alerts :
      LET f == Fingerprint(rows[i], rows[i + 1]) IN
      /\ Contradict(rows[i], rows[i + 1])
      /\ a.fingerprint = f
      /\ Pattern(f) \in Decided("RESOLVED") \ (suppressed \cup Decided("ACTIVE"))
      => a.status # "OBSOLETE"
=============================================================================
