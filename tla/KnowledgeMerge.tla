--------------------------- MODULE KnowledgeMerge ---------------------------
(***************************************************************************)
(* How what the extraction says about an entity that already exists        *)
(* becomes a pending update, how updates of one entity are merged while    *)
(* they wait, and what acceptance writes over the author's own values      *)
(* (entity-extraction-pipeline.service.ts, entity-proposal.service.ts,     *)
(* knowledge.service.ts).  An analysis works on copies of the entity and   *)
(* of the pending update that it read when it began; the author edits,     *)
(* accepts and rejects meanwhile.                                          *)
(*                                                                         *)
(* A description is a sequence of statements, and "includes" is contiguous *)
(* containment; attributes are one key with a value.  Whether a candidate  *)
(* is this entity is EntityReview's question, and every candidate here is. *)
(***************************************************************************)
EXTENDS Sequences, Functions

CONSTANTS
  Names,          \* names the entity may have
  Values,         \* values of the attribute
  Candidates,     \* what one chunk says: [aliases, description, attribute]
  Unset,          \* no value for the attribute
  MaxCandidates,  \* bound on the candidates of one analysis
  MaxEdits,       \* bound on the author's edits
  MaxProposals    \* bound on the updates ever proposed

\* A text is a sequence of statements.
TextsAssumption == \A c \in Candidates : c.description \in Seq(Range(c.description))

VARIABLES
  entity,     \* the row: [name, aliases, description, attribute, locks]
  proposals,  \* its updates, in order
  job,        \* the analysis: the copies it read and what it still handles
  edits,      \* the author's edits
  heard,      \* statements and aliases an undisturbed analysis handled, but for
              \* those the author took out of the entity
  preceded    \* updates that waited when the author locked a field, or that
              \* an analysis wrote from what it had read before

mergeVars == <<entity, proposals, job, edits, heard, preceded>>

Ids == 1..Len(proposals)

Pending == {i \in Ids : proposals[i].status = "PENDING"}

Idle == [running |-> FALSE, todo |-> <<>>]

Init ==
  /\ entity \in {[name |-> n, aliases |-> {}, description |-> d, attribute |-> v, locks |-> {}] :
                   n \in Names, d \in {<<>>} \cup {c.description : c \in Candidates},
                   v \in Values \cup {Unset}}
  /\ proposals = <<>>
  /\ job = Idle
  /\ edits = 0
  /\ heard = {}
  /\ preceded = {}

Includes(text, part) == \E i, j \in 0..Len(text) : SubSeq(text, i + 1, j) = part

(* getSuggestedDescription: nothing when either text includes the other.   *)
SuggestedDescription(current, incoming) ==
  IF \/ incoming = <<>>
     \/ current # <<>> /\ (Includes(current, incoming) \/ Includes(incoming, current))
    THEN <<>>
    ELSE incoming

(* A mutant of Combined.                                                   *)
CombinedFirstOnly(current, incoming) == IF current = <<>> THEN incoming ELSE current

(* combineDescriptions: while it waits, a text that includes the other     *)
(* changes nothing.                                                        *)
Combined(current, incoming) ==
  CASE incoming = <<>> -> current
    [] incoming # <<>> /\ current = <<>> -> incoming
    [] OTHER -> IF Includes(current, incoming) \/ Includes(incoming, current)
                  THEN current ELSE current \o incoming

(* mergeDescriptions: at acceptance the longer of the two is kept.         *)
Joined(current, suggested) ==
  CASE suggested = <<>> \/ Includes(current, suggested) -> current
    [] Includes(suggested, current) -> suggested
    [] OTHER -> current \o suggested

(* createEntityUpdateProposalData: what the candidate adds to the entity,  *)
(* with the name the entity has when it is read.                           *)
Update(e, c) ==
  [name |-> e.name,
   aliases |-> c.aliases \ (e.aliases \cup {e.name}),
   description |-> SuggestedDescription(e.description, c.description),
   attribute |-> IF c.attribute = e.attribute THEN Unset ELSE c.attribute]

Empty(update) ==
  update.aliases = {} /\ update.description = <<>> /\ update.attribute = Unset

(* mergeUpdateProposalData: the attribute that came later wins.            *)
MergedUpdate(current, incoming) ==
  [current EXCEPT !.aliases = @ \cup incoming.aliases,
                  !.description = Combined(@, incoming.description),
                  !.attribute = IF incoming.attribute = Unset THEN @ ELSE incoming.attribute]

(* A mutant of LockedConflict.                                             *)
LockedConflictInText(e, c) ==
  \/ "description" \in e.locks /\ c.description # <<>> /\ c.description # e.description
  \/ "aliases" \in e.locks /\ ~ (c.aliases \subseteq e.aliases)

(* hasLockedConflict: whatever the candidate says of a locked field.       *)
LockedConflict(e, c) ==
  \/ "description" \in e.locks /\ c.description # <<>> /\ c.description # e.description
  \/ "aliases" \in e.locks /\ ~ (c.aliases \subseteq e.aliases)
  \/ "attribute" \in e.locks /\ c.attribute # Unset

-----------------------------------------------------------------------------
(* The analysis.                                                           *)

(* The update of the entity that comes first in the list, or 0.            *)
FirstPending ==
  IF Pending = {} THEN 0 ELSE CHOOSE i \in Pending : \A j \in Pending : i <= j

(* processSceneChanged reads the confirmed entity and the pending updates; *)
(* the chunks it will extract give the candidates.                         *)
StartAnalysis ==
  /\ ~ job.running
  /\ \E s \in UNION {[1..n -> Candidates] : n \in 1..MaxCandidates} :
       job' = [running |-> TRUE, entity |-> entity, todo |-> s, disturbed |-> FALSE,
               update |-> FirstPending,
               data |-> IF FirstPending = 0 THEN <<>> ELSE proposals[FirstPending]]
  /\ UNCHANGED <<entity, proposals, edits, heard, preceded>>

(* What the candidate says of the entity: no alias that is its name, and   *)
(* no text that includes one already known.                                *)
Said(c, name, known) ==
  LET repeats == \E d \in known : d # <<>> /\ Includes(c.description, d)
  IN  (c.aliases \ {name}) \cup (IF repeats THEN {} ELSE Range(c.description))

(* forEachSequentially: the candidate that is next.                        *)
Handle(c) ==
  /\ job.todo # <<>>
  /\ c = Head(job.todo)
  /\ heard' = IF job.disturbed THEN heard
              ELSE heard \cup Said(c, job.entity.name, {job.entity.description}
                                     \cup IF job.update = 0 THEN {} ELSE {job.data.description})
  /\ UNCHANGED <<entity, edits>>

(* processConfirmedEntityCandidate returns early: nothing new.             *)
SkipCandidate(c) ==
  /\ Handle(c)
  /\ Empty(Update(job.entity, c))
  /\ job' = [job EXCEPT !.todo = Tail(@)]
  /\ UNCHANGED <<proposals, preceded>>

(* createEntityUpdateProposal, which records whether a locked field is     *)
(* touched.                                                                *)
CreateUpdate(c) ==
  /\ Handle(c)
  /\ ~ Empty(Update(job.entity, c))
  /\ job.update = 0
  /\ Len(proposals) < MaxProposals
  /\ LET update == Update(job.entity, c) IN
       proposals' = Append(proposals,
         [status |-> "PENDING", conflict |-> LockedConflict(job.entity, c), merged |-> FALSE,
          name |-> update.name, aliases |-> update.aliases, description |-> update.description,
          attribute |-> update.attribute])
  /\ job' = [job EXCEPT !.todo = Tail(@), !.update = Len(proposals'),
                        !.data = proposals'[Len(proposals')]]
  /\ preceded' = IF job.disturbed THEN preceded \cup {Len(proposals')} ELSE preceded

(* updateExistingEntityProposal writes the merge of the copy and the       *)
(* candidate, whatever became of the row, and keeps the mark it has: the   *)
(* conflict of the merged candidate is not passed.                         *)
MergeUpdate(c) ==
  /\ Handle(c)
  /\ ~ Empty(Update(job.entity, c))
  /\ job.update # 0
  /\ proposals' = [proposals EXCEPT
       ![job.update] = [MergedUpdate(job.data, Update(job.entity, c)) EXCEPT
                          !.status = proposals[job.update].status, !.merged = TRUE]]
  /\ job' = [job EXCEPT !.todo = Tail(@), !.data = proposals'[job.update]]
  /\ UNCHANGED preceded

EndAnalysis ==
  /\ job.running /\ job.todo = <<>>
  /\ job' = Idle
  /\ UNCHANGED <<entity, proposals, edits, heard, preceded>>

-----------------------------------------------------------------------------
(* The author.                                                             *)

Disturbed == IF job.running THEN [job EXCEPT !.disturbed = TRUE] ELSE job

(* updateEntity: a field the author changes is locked (mergeLockedFields). *)
(* He replaces a text or the aliases as a whole, so that what an analysis  *)
(* had said may leave the entity by his own hand.                          *)
EditEntity ==
  /\ edits < MaxEdits
  /\ \/ \E n \in Names \ {entity.name} :
          /\ entity' = [entity EXCEPT !.name = n, !.locks = @ \cup {"name"}]
          /\ UNCHANGED heard
     \/ \E v \in Values \ {entity.attribute} :
          /\ entity' = [entity EXCEPT !.attribute = v, !.locks = @ \cup {"attribute"}]
          /\ UNCHANGED heard
     \/ \E c \in Candidates :
          /\ c.description # entity.description
          /\ entity' = [entity EXCEPT !.description = c.description,
                                      !.locks = @ \cup {"description"}]
          /\ heard' = heard \ Range(entity.description)
     \/ \E c \in Candidates :
          /\ c.aliases # entity.aliases
          /\ entity' = [entity EXCEPT !.aliases = c.aliases, !.locks = @ \cup {"aliases"}]
          /\ heard' = heard \ entity.aliases
  /\ edits' = edits + 1
  /\ preceded' = preceded \cup Pending
  /\ job' = Disturbed
  /\ UNCHANGED proposals

(* acceptProposal: the stored name replaces the entity's, the attribute    *)
(* too, aliases and description are added (buildAcceptedUpdateEntityData). *)
AcceptUpdate(i) ==
  /\ i \in Pending
  /\ LET p == proposals[i] IN
       entity' = [entity EXCEPT
         !.name = p.name,
         !.aliases = @ \cup p.aliases,
         !.description = Joined(@, p.description),
         !.attribute = IF p.attribute = Unset THEN @ ELSE p.attribute]
  /\ proposals' = [proposals EXCEPT ![i].status = "APPROVED"]
  /\ job' = Disturbed
  /\ UNCHANGED <<edits, heard, preceded>>

RejectUpdate(i) ==
  /\ i \in Pending
  /\ proposals' = [proposals EXCEPT ![i].status = "REJECTED"]
  /\ job' = Disturbed
  /\ UNCHANGED <<entity, edits, heard, preceded>>

Next ==
  \/ StartAnalysis
  \/ \E c \in Candidates : SkipCandidate(c) \/ CreateUpdate(c) \/ MergeUpdate(c)
  \/ EndAnalysis
  \/ EditEntity
  \/ \E i \in Ids : AcceptUpdate(i) \/ RejectUpdate(i)

Spec == Init /\ [][Next]_mergeVars
-----------------------------------------------------------------------------
(* Properties *)

\* Every alias and statement an analysis handled while the author did not touch the
\* entity is in the entity or in an update he could see, unless he took it out himself,
\* and except a description that repeats a known text and adds to it: only a race loses
\* what the extraction said (processConfirmedEntityCandidate).
FactsReachTheAuthor ==
  heard \subseteq
    entity.aliases \cup Range(entity.description)
    \cup UNION {proposals[i].aliases \cup Range(proposals[i].description) : i \in Ids}

LockedIsWarned ==
  \A i \in Ids :
    /\ proposals[i].status = "PENDING" /\ proposals'[i].status = "APPROVED"
    /\ \/ "name" \in entity.locks /\ entity'.name # entity.name
       \/ "attribute" \in entity.locks /\ entity'.attribute # entity.attribute
       \/ "description" \in entity.locks /\ entity'.description # entity.description
       \/ "aliases" \in entity.locks /\ entity'.aliases # entity.aliases
    => proposals[i].conflict \/ proposals[i].merged \/ i \in preceded

\* Acceptance changes a value the author had locked without a warning only when the
\* update waited before the lock, was written from an older reading, or was merged into
\* an earlier one (conflictsWithLocked).
LockedValueIsWarned == [][LockedIsWarned]_mergeVars
=============================================================================
