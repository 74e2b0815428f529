----------------------------- MODULE EntityReview -----------------------------
(***************************************************************************)
(* Entities of a project and the proposals that are extracted for them.    *)
(* An analysis reads the entities, the chunk of its scene and the pending  *)
(* proposals by separate queries, takes back the proposals its scene no    *)
(* longer supports, and merges what the model finds into entities and      *)
(* proposals it holds in memory; meanwhile the author saves scenes, edits  *)
(* entities and decides proposals.                                         *)
(*                                                                         *)
(* A name stands for every label that resolves to it (EntityResolution     *)
(* says which do), a text for what it says of each name it mentions, and a *)
(* scene has one chunk.  One worker analyses scenes one after the other.   *)
(***************************************************************************)
EXTENDS Naturals, FiniteSets

CONSTANTS Scenes, Names, Entities, Proposals, Requests,
          None,       \* no entity, no proposal, no scene, no name
          MaxChunks,  \* bound: chunk rows ever created
          MaxRemoved  \* bound: entities removed

ASSUME ConstantsAssumption ==
  /\ MaxChunks \in Nat /\ MaxRemoved \in Nat
  /\ None \notin Scenes \cup Entities \cup Proposals \cup Names

VARIABLES
  chunk,      \* the chunk of each scene: its id (0: it has none) and isDirty
  lastId,     \* the id of the last chunk row created
  entity,     \* rows of Entity
  proposal,   \* rows of EntityProposal
  run,        \* the analysis under way and what it holds in memory
  request,    \* acceptances that have read and not yet written: proposal, entity found
  excused     \* history: names the author made an entity of, or whose proposal was
              \* accepted where an analysis under way does not see it, or twice

vars == <<chunk, lastId, entity, proposal, run, request, excused>>

Statuses == {"none", "PENDING", "APPROVED", "REJECTED", "OBSOLETE"}

NoEntity == [name |-> None, live |-> FALSE]
NoProposal == [name |-> None, scene |-> None, target |-> None,
               status |-> "none", chunks |-> {}]
NoChunk == [id |-> 0, dirty |-> FALSE]
Idle == [phase |-> "idle", scene |-> None, chunk |-> NoChunk,
         seen |-> {}, known |-> {}, prune |-> {}, todo |-> {}]
NoRequest == [proposal |-> None, target |-> None]

ChunkRow == [id : 0..MaxChunks, dirty : BOOLEAN]
EntityRow == [name : Names \cup {None}, live : BOOLEAN]
ProposalRow == [name : Names \cup {None}, scene : Scenes \cup {None},
                target : Entities \cup {None}, status : Statuses,
                chunks : SUBSET (1..MaxChunks)]
Phases == {"idle", "entities", "prune", "extract"}
Run == [phase : Phases, scene : Scenes \cup {None}, chunk : ChunkRow, seen : SUBSET Entities,
        known : SUBSET Proposals, prune : SUBSET Proposals, todo : SUBSET Names]

\* Types, and: what a proposal points at exists and has its name, and an analysis
\* holds no proposal it has taken back.
TypeOK ==
  /\ chunk \in [Scenes -> ChunkRow]
  /\ entity \in [Entities -> EntityRow]
  /\ proposal \in [Proposals -> ProposalRow]
  /\ run \in Run
  /\ request \in [Requests -> [proposal : Proposals \cup {None}, target : Entities \cup {None}]]
  /\ excused \subseteq Names
  /\ lastId \in 0..MaxChunks
  /\ \A p \in Proposals : proposal[p].target # None =>
       entity[proposal[p].target].name = proposal[p].name
  /\ run.todo # {} =>
       \A p \in run.known : proposal[p].status \in {"PENDING", "APPROVED", "REJECTED"}

Init ==
  /\ chunk = [s \in Scenes |-> NoChunk] /\ lastId = 0
  /\ entity = [e \in Entities |-> NoEntity]
  /\ proposal = [p \in Proposals |-> NoProposal]
  /\ run = Idle
  /\ request = [q \in Requests |-> NoRequest]
  /\ excused = {}

Row(p) == proposal[p]
Fresh(rows, none) == {i \in DOMAIN rows : rows[i] = none}

\* The chunks of this scene only, whatever scene a quote is from; a chunk is
\* recognised by its id, not by its text.
Active == IF run.chunk.id = 0 THEN {} ELSE {run.chunk.id}

\* Mutant of Supported: a chunk that was rewritten in place backs nothing.
SupportedIfClean(p) == IF run.chunk.dirty THEN {} ELSE Row(p).chunks \cap Active

Supported(p) == Row(p).chunks \cap Active

-----------------------------------------------------------------------------
(* The author writes.                                                      *)

\* A save rewrites the chunk in place, replaces it by a new row, or leaves none.
Save(s) ==
  /\ \E id \in {chunk[s].id, lastId + 1, 0} \cap 0..MaxChunks :
       /\ chunk' = [chunk EXCEPT ![s] = [id |-> id, dirty |-> id # 0]]
       /\ lastId' = IF id > lastId THEN id ELSE lastId
  /\ UNCHANGED <<entity, proposal, run, request, excused>>

CreateEntity(n) ==
  /\ \E e \in Fresh(entity, NoEntity) :
       entity' = [entity EXCEPT ![e] = [name |-> n, live |-> TRUE]]
  /\ excused' = excused \cup {n}
  /\ UNCHANGED <<chunk, lastId, proposal, run, request>>

Removed == {e \in Entities : entity[e] # NoEntity /\ ~entity[e].live}

RemoveEntity(e) ==
  /\ entity[e].live /\ Cardinality(Removed) < MaxRemoved
  /\ entity' = [entity EXCEPT ![e].live = FALSE]
  /\ UNCHANGED <<chunk, lastId, proposal, run, request, excused>>

-----------------------------------------------------------------------------
(* The author decides.                                                     *)

\* acceptProposal reads: a proposal whose entity is gone makes a new one.
ReadAccepted(q, p) ==
  LET target == Row(p).target IN
  /\ request[q] = NoRequest
  /\ Row(p).status = "PENDING"
  /\ request' = [request EXCEPT ![q] =
       [proposal |-> p,
        target |-> IF target # None /\ entity[target].live THEN target ELSE None]]
  /\ UNCHANGED <<chunk, lastId, entity, proposal, run, excused>>

\* The entity an acceptance writes: the one it found, or a new one.
Consolidated(r) == IF r.target # None THEN {r.target} ELSE Fresh(entity, NoEntity)

\* ... and writes, without asking for the status again.
WriteAccepted(q) ==
  LET r == request[q]
      p == r.proposal
      n == Row(p).name
      unseen == run.phase = "entities" \/ (p \in run.prune /\ Supported(p) = {})
  IN
  /\ r # NoRequest
  /\ \E e \in Consolidated(r) :
       /\ entity' = IF r.target = None
                    THEN [entity EXCEPT ![e] = [name |-> n, live |-> TRUE]] ELSE entity
       /\ proposal' = [proposal EXCEPT ![p].status = "APPROVED"]
  /\ excused' = IF unseen \/ Row(p).status # "PENDING" THEN excused \cup {n} ELSE excused
  /\ request' = [request EXCEPT ![q] = NoRequest]
  /\ UNCHANGED <<chunk, lastId, run>>

RejectProposal(p) ==
  /\ Row(p).status = "PENDING"
  /\ proposal' = [proposal EXCEPT ![p].status = "REJECTED"]
  /\ UNCHANGED <<chunk, lastId, entity, run, request, excused>>

-----------------------------------------------------------------------------
(* An analysis.                                                            *)

\* The entities and the chunk are read.
StartAnalysis(s) ==
  /\ run = Idle
  /\ run' = [Idle EXCEPT !.phase = "entities", !.scene = s, !.chunk = chunk[s],
                         !.seen = {e \in Entities : entity[e].live}]
  /\ UNCHANGED <<chunk, lastId, entity, proposal, request, excused>>

\* Then the pending proposals of the project; those of the scene are pruned.
ReadProposals ==
  LET pending == {p \in Proposals : Row(p).status = "PENDING"} IN
  /\ run.phase = "entities"
  /\ run' = [run EXCEPT !.phase = "prune", !.known = pending,
       !.prune = {p \in pending : Row(p).scene = run.scene /\ Supported(p) # Row(p).chunks}]
  /\ UNCHANGED <<chunk, lastId, entity, proposal, request, excused>>

Forgotten(p) == run.known \ {p}

\* A proposal that has been decided meanwhile is written all the same.
PruneProposal(p) ==
  LET gone == Supported(p) = {} IN
  /\ run.phase = "prune" /\ p \in run.prune
  /\ proposal' = IF gone THEN [proposal EXCEPT ![p].status = "OBSOLETE"]
                 ELSE [proposal EXCEPT ![p].chunks = Supported(p)]
  /\ run' = [run EXCEPT !.prune = @ \ {p}, !.known = IF gone THEN Forgotten(p) ELSE @]
  /\ UNCHANGED <<chunk, lastId, entity, request, excused>>

\* A clean or empty scene ends here; the model names what the chunk mentions.
ExtractEntities ==
  /\ run.phase = "prune" /\ run.prune = {}
  /\ \/ /\ run.chunk.id = 0 \/ ~run.chunk.dirty
        /\ run' = Idle
     \/ /\ run.chunk.id # 0 /\ run.chunk.dirty
        /\ \E found \in SUBSET Names :
             run' = [run EXCEPT !.phase = "extract", !.todo = found]
  /\ UNCHANGED <<chunk, lastId, entity, proposal, request, excused>>

Quote == run.chunk.id

Confirmed(n) == {e \in run.seen : entity[e].name = n}

\* Mutant of PendingFor: the proposals of the scene only.
PendingOfScene(n) == {p \in run.known : Row(p).name = n /\ Row(p).scene = run.scene}

PendingFor(n) == {p \in run.known : Row(p).name = n}

UpdatesOf(e) == {p \in run.known : Row(p).target = e}

Handled(n) == run' = [run EXCEPT !.todo = @ \ {n}]

Create(n, target) ==
  \E p \in Fresh(proposal, NoProposal) :
    /\ proposal' = [proposal EXCEPT ![p] =
         [name |-> n, scene |-> run.scene, target |-> target, status |-> "PENDING", chunks |-> {Quote}]]
    /\ run' = [run EXCEPT !.todo = @ \ {n}, !.known = @ \cup {p}]

\* An entity of that name: an update, unless the text says nothing new of it.
ProcessConfirmed(n) ==
  /\ n \in run.todo
  /\ \E e \in Confirmed(n) :
       \/ Handled(n) /\ UNCHANGED proposal
       \/ UpdatesOf(e) = {} /\ Create(n, e)
       \/ \E p \in UpdatesOf(e) :
            /\ proposal' = [proposal EXCEPT ![p].chunks = @ \cup {Quote}]
            /\ Handled(n)
  /\ UNCHANGED <<chunk, lastId, entity, request, excused>>

\* No entity, but a proposal: it gains a quote.
ProcessPending(n) ==
  /\ n \in run.todo /\ Confirmed(n) = {}
  /\ \E p \in PendingFor(n) :
       proposal' = [proposal EXCEPT ![p].chunks = @ \cup {Quote}]
  /\ Handled(n)
  /\ UNCHANGED <<chunk, lastId, entity, request, excused>>

\* Neither: a new proposal, unless the name is ignored or below the thresholds.
ProcessNew(n) ==
  /\ n \in run.todo /\ Confirmed(n) = {} /\ PendingFor(n) = {}
  /\ \/ Create(n, None)
     \/ Handled(n) /\ UNCHANGED proposal
  /\ UNCHANGED <<chunk, lastId, entity, request, excused>>

\* The flag is cleared whatever the chunk holds by now; a chunk that is gone fails the job.
FinishAnalysis ==
  /\ run.phase = "extract" /\ run.todo = {}
  /\ chunk' = IF chunk[run.scene].id = run.chunk.id
              THEN [chunk EXCEPT ![run.scene].dirty = FALSE] ELSE chunk
  /\ run' = Idle
  /\ UNCHANGED <<lastId, entity, proposal, request, excused>>

AnalysisFails ==
  /\ run # Idle
  /\ run' = Idle
  /\ UNCHANGED <<chunk, lastId, entity, proposal, request, excused>>

Next ==
  \/ \E s \in Scenes : Save(s) \/ StartAnalysis(s)
  \/ \E n \in Names : CreateEntity(n)
                      \/ ProcessConfirmed(n) \/ ProcessPending(n) \/ ProcessNew(n)
  \/ \E e \in Entities : RemoveEntity(e)
  \/ \E p \in Proposals : RejectProposal(p) \/ PruneProposal(p)
  \/ \E q \in Requests : WriteAccepted(q) \/ \E p \in Proposals : ReadAccepted(q, p)
  \/ ReadProposals \/ ExtractEntities \/ FinishAnalysis \/ AnalysisFails

Spec == Init /\ [][Next]_vars

-----------------------------------------------------------------------------
\* One entity per name: two live entities of one name were made by the author's own
\* hand, or by an acceptance that came between two reads of one analysis, or twice.
\* Resolution against entities and pending proposals, whatever scene they are from
\* and however analyses, acceptances and removals interleave, makes no others.
TwinsNeedARace ==
  \A e, f \in Entities :
    e # f /\ entity[e].live /\ entity[f].live /\ entity[e].name = entity[f].name
      => entity[e].name \in excused

\* An analysis takes a proposal back for good, and only once the scene it was made
\* for has lost the chunk that backs it: no interleaving with saves makes it drop
\* one whose chunk is still there.
SupportedStaysOpen ==
  \A p \in Proposals : Row(p).status = "OBSOLETE" => chunk[Row(p).scene].id \notin Row(p).chunks

\* Evidence and proposals stay tied to each other.
ProposalsAreBacked == TypeOK /\ SupportedStaysOpen
=============================================================================
