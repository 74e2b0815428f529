------------------------- MODULE EntityReview_proofs -------------------------
(***************************************************************************)
(* What EntityReview satisfies for any number of scenes, names, entities,  *)
(* proposals and requests.  To the properties IInv adds what an analysis   *)
(* holds in memory (RunInv), what it may have missed since it read         *)
(* (MemoryInv), and what an acceptance knows that has read and not written *)
(* (RequestInv).  The second half is about EntityStates, the states of the *)
(* entities that were reviewed (StatesInv).                                *)
(***************************************************************************)
EXTENDS EntityReview, MCEntityStates, TLAPS, FiniteSetTheorems, NaturalsInduction, WellFoundedInduction

Types ==
  /\ chunk \in [Scenes -> ChunkRow]
  /\ entity \in [Entities -> EntityRow]
  /\ proposal \in [Proposals -> ProposalRow]
  /\ run \in Run
  /\ request \in [Requests -> [proposal : Proposals \cup {None}, target : Entities \cup {None}]]
  /\ excused \subseteq Names
  /\ lastId \in 0..MaxChunks

\* What a proposal points at exists and has its name.
PointsInv ==
  \A p \in Proposals : proposal[p].target # None =>
    entity[proposal[p].target].name = proposal[p].name

\* Chunk ids are given once.
ChunkInv ==
  /\ \A s \in Scenes : chunk[s].id <= lastId
  /\ run.chunk.id <= lastId

\* Rows that exist have a name; quotes are of chunks that existed.
RowInv ==
  /\ \A e \in Entities : entity[e].live => entity[e].name \in Names
  /\ \A p \in Proposals :
       /\ proposal[p].status # "none" => proposal[p].scene \in Scenes /\ proposal[p].name \in Names
       /\ proposal[p].target # None => proposal[p].name \in Names
       /\ proposal[p].chunks \subseteq 1..lastId

\* What the analysis holds at each phase.
RunInv ==
  /\ run.phase = "idle" => run = Idle
  /\ run.phase # "idle" => run.scene \in Scenes
  /\ run.phase # "prune" => run.prune = {}
  /\ run.prune \subseteq run.known
  /\ \A p \in run.prune : proposal[p].scene = run.scene
  /\ run.todo # {} => run.phase = "extract"
  /\ run.phase = "extract" => run.chunk.id # 0
  /\ \A p \in run.known : proposal[p].status \in {"PENDING", "APPROVED", "REJECTED"}
  /\ \A e \in run.seen : entity[e].name \in Names

\* A chunk that replaced the one the analysis read is quoted by nothing.
UnquotedInv ==
  run.phase # "idle" =>
    \/ chunk[run.scene].id \in {0, run.chunk.id}
    \/ \A p \in Proposals : chunk[run.scene].id \notin proposal[p].chunks

\* An acceptance that found no entity will not find one later.
RequestInv ==
  \A q \in Requests : request[q] # NoRequest =>
    LET p == request[q].proposal IN
    /\ p \in Proposals
    /\ proposal[p].status # "none"
    /\ request[q].target = None /\ proposal[p].target # None => ~entity[proposal[p].target].live

Live(n) == {e \in Entities : entity[e].live /\ entity[e].name = n}
Pending(n) == {p \in Proposals : proposal[p].status = "PENDING" /\ proposal[p].name = n}

\* One entity or one pending proposal of a name, or an entity and its update.
SingleInv ==
  \A n \in Names \ excused :
    /\ \A e, f \in Live(n) : e = f
    /\ \A p, q \in Pending(n) : p = q
    /\ \A e \in Live(n), p \in Pending(n) : proposal[p].target = e

\* A proposal of the name that the analysis will still know when it extracts.
Remembered(n) ==
  \E p \in PendingFor(n) :
    /\ p \in run.prune => Supported(p) # {}
    /\ \A e \in Confirmed(n) : proposal[p].target = e

\* An entity the analysis has not read was made of a proposal it knows.
MemoryInv ==
  run.phase # "idle" =>
    \A n \in Names \ excused :
      /\ \A e, f \in Confirmed(n) : e = f
      /\ \A e \in Confirmed(n), p \in Pending(n) : proposal[p].target = e
      /\ run.phase = "entities" => Live(n) \subseteq run.seen
      /\ run.phase # "entities" => /\ Pending(n) \subseteq run.known
                                   /\ Live(n) \subseteq run.seen \/ Remembered(n)

IInv ==
  /\ Types /\ PointsInv /\ SupportedStaysOpen
  /\ ChunkInv /\ RowInv /\ RunInv /\ UnquotedInv /\ RequestInv /\ SingleInv /\ MemoryInv

-----------------------------------------------------------------------------
(* Initial states, and what follows from IInv.                             *)

\* Nothing exists yet.
LEMMA InitIInv == Init => IInv
<1> SUFFICES ASSUME Init PROVE IInv
  OBVIOUS
<1> USE ConstantsAssumption DEF Init
<1>1. run \in Run /\ chunk \in [Scenes -> ChunkRow]
  BY DEF Idle, NoChunk, Run, ChunkRow, Phases
<1>2. Types
  BY <1>1 DEF Types, NoEntity, NoProposal, NoRequest, EntityRow, ProposalRow, Statuses
<1>3. PointsInv /\ RowInv /\ RequestInv /\ SupportedStaysOpen
  BY DEF PointsInv, RowInv, RequestInv, SupportedStaysOpen, Row, NoEntity, NoProposal
<1>4. ChunkInv /\ RunInv /\ UnquotedInv /\ MemoryInv
  BY DEF ChunkInv, RunInv, UnquotedInv, MemoryInv, Idle, NoChunk
<1>5. SingleInv
  BY DEF SingleInv, Live, Pending, NoEntity, NoProposal
<1> QED
  BY <1>2, <1>3, <1>4, <1>5 DEF IInv

\* The two properties are read off the invariant.
LEMMA IInvImplies == IInv => ProposalsAreBacked /\ TwinsNeedARace
<1> SUFFICES ASSUME IInv PROVE ProposalsAreBacked /\ TwinsNeedARace
  OBVIOUS
<1>1. ProposalsAreBacked
  BY DEF IInv, Types, PointsInv, RunInv, ProposalsAreBacked, TypeOK
<1>2. TwinsNeedARace
  BY DEF IInv, RowInv, SingleInv, Live, TwinsNeedARace
<1> QED
  BY <1>1, <1>2

-----------------------------------------------------------------------------
(* The author.                                                             *)

\* A new chunk has an id that nothing quotes; proposals and entities do not change.
LEMMA SaveKeeps == ASSUME IInv, NEW s \in Scenes, Save(s) PROVE IInv'
<1> USE DEF IInv, Save
<1>1. Types' /\ ChunkInv'
  BY DEF Types, ChunkInv, ChunkRow, Run
<1>2. PointsInv' /\ RunInv' /\ RequestInv' /\ SingleInv'
  BY DEF PointsInv, RunInv, RequestInv, SingleInv, Live, Pending
<1>3. RowInv'
  BY DEF RowInv, Types
<1>4. SupportedStaysOpen' /\ UnquotedInv'
  BY DEF SupportedStaysOpen, UnquotedInv, Row, RowInv, ChunkInv, RunInv, Types, ChunkRow, Run
<1>5. MemoryInv'
  <2>1. \A n \in Names : Remembered(n) => Remembered(n)'
    BY DEF Remembered, PendingFor, Confirmed, Supported, Active, Row
  <2> QED
    BY <2>1 DEF MemoryInv, Live, Pending, Confirmed
<1> QED
  BY <1>1, <1>2, <1>3, <1>4, <1>5

\* The name is excused from then on.
LEMMA CreateEntityKeeps == ASSUME IInv, NEW n \in Names, CreateEntity(n) PROVE IInv'
<1> USE DEF IInv, CreateEntity, Fresh, NoEntity
<1>1. Types'
  BY DEF Types, EntityRow
<1>2. PointsInv' /\ RowInv' /\ RunInv' /\ RequestInv'
  BY ConstantsAssumption DEF PointsInv, RowInv, RunInv, RequestInv, Types, EntityRow, ProposalRow, Run
<1>3. ChunkInv' /\ UnquotedInv' /\ SupportedStaysOpen'
  BY DEF ChunkInv, UnquotedInv, SupportedStaysOpen, Row
<1>4. SingleInv'
  BY DEF SingleInv, Live, Pending, Types, EntityRow
<1>5. MemoryInv'
  BY DEF MemoryInv, Live, Pending, Remembered, PendingFor, Confirmed, Supported, Active,
         Row, RunInv, Types, EntityRow
<1> QED
  BY <1>1, <1>2, <1>3, <1>4, <1>5

\* One entity less, and no other change.
LEMMA RemoveEntityKeeps == ASSUME IInv, NEW e \in Entities, RemoveEntity(e) PROVE IInv'
<1> USE DEF IInv, RemoveEntity
<1>1. Types'
  <2>1. entity' \in [Entities -> EntityRow]
    BY DEF Types, EntityRow
  <2> QED
    BY <2>1 DEF Types
<1>2. PointsInv' /\ RowInv' /\ RunInv' /\ RequestInv'
  BY DEF PointsInv, RowInv, RunInv, RequestInv, Types, EntityRow
<1>3. ChunkInv' /\ UnquotedInv' /\ SupportedStaysOpen'
  BY DEF ChunkInv, UnquotedInv, SupportedStaysOpen, Row
<1>4. SingleInv'
  BY DEF SingleInv, Live, Pending, Types, EntityRow
<1>5. MemoryInv'
  BY DEF MemoryInv, Live, Pending, Remembered, PendingFor, Confirmed, Supported, Active,
         Row, Types, EntityRow
<1> QED
  BY <1>1, <1>2, <1>3, <1>4, <1>5

\* What is read is live; what is found gone stays gone.
LEMMA ReadAcceptedKeeps ==
  ASSUME IInv, NEW q \in Requests, NEW p \in Proposals, ReadAccepted(q, p)
  PROVE  IInv'
<1> USE DEF IInv, ReadAccepted
<1>1. Types'
  BY DEF Types, ProposalRow, Row
<1>2. RequestInv'
  BY DEF RequestInv, Types, ProposalRow, Row
<1>3. PointsInv' /\ RowInv' /\ RunInv' /\ ChunkInv'
  BY DEF PointsInv, RowInv, RunInv, ChunkInv
<1>4. UnquotedInv' /\ SupportedStaysOpen' /\ SingleInv'
  BY DEF UnquotedInv, SupportedStaysOpen, Row, SingleInv, Live, Pending
<1>5. MemoryInv'
  BY DEF MemoryInv, Live, Pending, Remembered, PendingFor, Confirmed, Supported, Active, Row
<1> QED
  BY <1>1, <1>2, <1>3, <1>4, <1>5

\* A new entity takes the place of the proposal it is made of, unless the name is
\* excused: the proposal was the only one of its name, and its entity was gone.
LEMMA WriteAcceptedKeeps == ASSUME IInv, NEW q \in Requests, WriteAccepted(q) PROVE IInv'
<1> USE DEF IInv
<1>1. PICK p \in Proposals : p = request[q].proposal /\ request[q] # NoRequest
  BY DEF RequestInv, WriteAccepted
<1>2. PICK n \in Names : n = proposal[p].name
  BY <1>1 DEF RequestInv, RowInv
<1>3. PICK made \in SUBSET Entities :
        /\ request[q].target # None => made = {}
        /\ request[q].target = None => \E e \in made : made = {e}
        /\ \A e \in made : entity[e] = NoEntity
        /\ entity' = [e \in Entities |-> IF e \in made THEN [name |-> n, live |-> TRUE] ELSE entity[e]]
  <2>1. CASE request[q].target # None
    <3>1. entity' = entity
      BY <1>1, <2>1 DEF WriteAccepted
    <3>2. entity' = [e \in Entities |-> IF e \in {} THEN [name |-> n, live |-> TRUE] ELSE entity[e]]
      BY <3>1 DEF Types
    <3> WITNESS {} \in SUBSET Entities
    <3> QED
      BY <2>1, <3>2
  <2>2. CASE request[q].target = None
    <3>1. PICK e \in Entities : entity[e] = NoEntity
                             /\ entity' = [entity EXCEPT ![e] = [name |-> n, live |-> TRUE]]
      BY <1>1, <1>2, <2>2 DEF WriteAccepted, Consolidated, Fresh, Types, Row
    <3>2. entity' = [f \in Entities |-> IF f \in {e} THEN [name |-> n, live |-> TRUE] ELSE entity[f]]
      BY <3>1 DEF Types
    <3> QED
      BY <2>2, <3>1, <3>2
  <2> QED
    BY <2>1, <2>2
<1>4. /\ proposal' = [proposal EXCEPT ![p].status = "APPROVED"]
      /\ request' = [request EXCEPT ![q] = NoRequest]
      /\ UNCHANGED <<chunk, lastId, run>>
      /\ excused \subseteq excused' /\ excused' \subseteq excused \cup {n}
  BY <1>1, <1>2 DEF WriteAccepted, Row
<1>5. n \notin excused' => /\ proposal[p].status = "PENDING" /\ run.phase # "entities"
                           /\ p \in run.prune => Supported(p) # {}
  BY <1>1, <1>2 DEF WriteAccepted, Row
<1>6. Types'
  <2>1. entity' \in [Entities -> EntityRow]
    BY <1>3 DEF Types, EntityRow
  <2>2. [proposal[p] EXCEPT !.status = "APPROVED"] \in ProposalRow
    BY DEF Types, ProposalRow, Statuses
  <2>3. request' \in [Requests -> [proposal : Proposals \cup {None}, target : Entities \cup {None}]]
    BY <1>4 DEF Types, NoRequest
  <2> QED
    BY <1>4, <2>1, <2>2, <2>3 DEF Types
<1>7. PointsInv' /\ RowInv'
  <2>1. PointsInv'
    BY <1>2, <1>3, <1>4, ConstantsAssumption DEF PointsInv, RowInv, NoEntity, Types, ProposalRow
  <2>2. RowInv'
    BY <1>1, <1>2, <1>3, <1>4 DEF RowInv, RequestInv, Types, ProposalRow
  <2> QED
    BY <2>1, <2>2
<1>8. ChunkInv' /\ RunInv'
  BY <1>3, <1>4 DEF ChunkInv, RunInv, NoEntity, Types, ProposalRow, EntityRow, Run
<1>9. UnquotedInv' /\ SupportedStaysOpen'
  BY <1>4 DEF UnquotedInv, SupportedStaysOpen, Row, Types, ProposalRow
<1>10. RequestInv'
  <2>1. \A i \in Proposals : /\ proposal'[i].target = proposal[i].target
                             /\ proposal[i].status # "none" => proposal'[i].status # "none"
    BY <1>4 DEF Types, ProposalRow
  <2>2. \A i \in Proposals : proposal[i].target # None => proposal[i].target \notin made
    BY <1>3, ConstantsAssumption DEF PointsInv, RowInv, NoEntity
  <2>3. \A i \in Requests : request'[i] # NoRequest => request'[i] = request[i]
    BY <1>4 DEF Types
  <2> QED
    BY <1>3, <2>1, <2>2, <2>3 DEF RequestInv, Types, ProposalRow
<1>11. \A m \in Names :
         /\ Live(m)' = IF m = n THEN Live(m) \cup made ELSE Live(m)
         /\ Pending(m)' \subseteq Pending(m)
         /\ Confirmed(m)' = Confirmed(m) /\ PendingFor(m)' = PendingFor(m)
         /\ Remembered(m) => Remembered(m)'
  <2>1. \A e \in made : \A m \in Names : e \notin Live(m) /\ e \notin run.seen
    BY <1>3, ConstantsAssumption DEF Live, RunInv, NoEntity
  <2>2. \A m \in Names : Confirmed(m)' = Confirmed(m)
    BY <1>3, <1>4, <2>1 DEF Confirmed, Types, Run
  <2>3. \A m \in Names : PendingFor(m)' = PendingFor(m)
    BY <1>4 DEF PendingFor, Row, Types, ProposalRow, Run
  <2>4. \A m \in Names : Remembered(m) => Remembered(m)'
    BY <1>4, <2>2, <2>3 DEF Remembered, PendingFor, Supported, Active, Row, Types, ProposalRow, Run
  <2>5. \A m \in Names : Live(m)' = IF m = n THEN Live(m) \cup made ELSE Live(m)
    BY <1>3, <2>1 DEF Live
  <2>6. \A m \in Names : Pending(m)' \subseteq Pending(m)
    BY <1>4 DEF Pending, Types, ProposalRow
  <2> QED
    BY <2>2, <2>3, <2>4, <2>5, <2>6
<1>12. n \notin excused' => /\ p \in Pending(n) /\ Pending(n)' = {}
                            /\ made # {} => Live(n) = {}
  <2> SUFFICES ASSUME n \notin excused'
               PROVE  p \in Pending(n) /\ Pending(n)' = {} /\ (made # {} => Live(n) = {})
    OBVIOUS
  <2>1. n \notin excused /\ p \in Pending(n)
    BY <1>2, <1>4, <1>5 DEF Pending
  <2>2. Pending(n)' = {}
    BY <1>4, <2>1 DEF SingleInv, Pending, Types, ProposalRow
  <2>3. ASSUME made # {}, NEW f \in Live(n) PROVE FALSE
    <3>1. proposal[p].target = f
      BY <2>1 DEF SingleInv
    <3>2. f # None /\ f \in Entities /\ entity[f].live
      BY ConstantsAssumption DEF Live
    <3>3. request[q].target = None
      BY <1>3, <2>3
    <3> QED
      BY <1>1, <3>1, <3>2, <3>3 DEF RequestInv
  <2> QED
    BY <2>1, <2>2, <2>3
<1>13. SingleInv'
  BY <1>3, <1>4, <1>11, <1>12 DEF SingleInv
<1>14. MemoryInv'
  <2> SUFFICES ASSUME run.phase # "idle", NEW m \in Names \ excused'
               PROVE  /\ \A e, f \in Confirmed(m)' : e = f
                      /\ \A e \in Confirmed(m)', i \in Pending(m)' : proposal'[i].target = e
                      /\ run.phase = "entities" => Live(m)' \subseteq run.seen
                      /\ run.phase # "entities" => /\ Pending(m)' \subseteq run.known
                                                   /\ Live(m)' \subseteq run.seen \/ Remembered(m)'
    BY <1>4 DEF MemoryInv
  <2>1. \A i \in Proposals : proposal'[i].target = proposal[i].target
    BY <1>4 DEF Types, ProposalRow
  <2>2. /\ \A e, f \in Confirmed(m)' : e = f
        /\ \A e \in Confirmed(m)', i \in Pending(m)' : proposal'[i].target = e
    BY <1>4, <1>11, <2>1 DEF MemoryInv, Pending
  <2>3. CASE m # n
    BY <1>4, <1>11, <2>2, <2>3 DEF MemoryInv
  <2>4. CASE m = n
    <3>1. p \in Pending(n) /\ p \in run.known
      BY <1>4, <1>5, <1>12, <2>4 DEF MemoryInv
    <3>2. Remembered(n)
      BY <1>4, <1>5, <3>1, <2>4 DEF Remembered, MemoryInv, PendingFor, Pending, Row
    <3> QED
      BY <1>4, <1>5, <1>11, <2>2, <2>4, <3>2 DEF MemoryInv
  <2> QED
    BY <2>3, <2>4
<1> QED
  BY <1>6, <1>7, <1>8, <1>9, <1>10, <1>13, <1>14

\* One pending proposal less.
LEMMA RejectProposalKeeps == ASSUME IInv, NEW p \in Proposals, RejectProposal(p) PROVE IInv'
<1> USE DEF IInv, RejectProposal, Row
<1>1. Types'
  BY DEF Types, ProposalRow, Statuses
<1>2. PointsInv' /\ RowInv' /\ RunInv' /\ RequestInv' /\ ChunkInv'
  BY DEF PointsInv, RowInv, RunInv, RequestInv, ChunkInv, Types, ProposalRow
<1>3. UnquotedInv' /\ SupportedStaysOpen'
  BY DEF UnquotedInv, SupportedStaysOpen, Types, ProposalRow
<1>4. SingleInv'
  BY DEF SingleInv, Live, Pending, Types, ProposalRow
<1>5. MemoryInv'
  BY DEF MemoryInv, Live, Pending, Remembered, PendingFor, Confirmed, Supported, Active,
         RunInv, Types, ProposalRow
<1> QED
  BY <1>1, <1>2, <1>3, <1>4, <1>5

-----------------------------------------------------------------------------
(* An analysis.                                                            *)

\* It reads every live entity and the chunk as it is.
LEMMA StartAnalysisKeeps == ASSUME IInv, NEW s \in Scenes, StartAnalysis(s) PROVE IInv'
<1> USE DEF IInv
<1>1. run' = [phase |-> "entities", scene |-> s, chunk |-> chunk[s],
              seen |-> {e \in Entities : entity[e].live}, known |-> {}, prune |-> {}, todo |-> {}]
  BY DEF StartAnalysis, Idle
<1>2. UNCHANGED <<chunk, lastId, entity, proposal, request, excused>>
  BY DEF StartAnalysis
<1>3. Types'
  <2>1. run' \in Run
    BY <1>1 DEF Types, Run, Phases
  <2> QED
    BY <1>2, <2>1 DEF Types
<1>4. PointsInv' /\ RowInv' /\ RequestInv' /\ SingleInv' /\ SupportedStaysOpen'
  BY <1>2 DEF PointsInv, RowInv, RequestInv, SingleInv, Live, Pending, SupportedStaysOpen, Row
<1>5. ChunkInv' /\ UnquotedInv'
  BY <1>1, <1>2 DEF ChunkInv, UnquotedInv
<1>6. RunInv'
  BY <1>1, <1>2 DEF RunInv, RowInv
<1>7. MemoryInv'
  <2>1. \A n \in Names : Confirmed(n)' = Live(n) /\ Live(n)' = Live(n) /\ Pending(n)' = Pending(n)
    BY <1>1, <1>2 DEF Confirmed, Live, Pending
  <2> QED
    BY <1>1, <1>2, <2>1 DEF MemoryInv, SingleInv, Live
<1> QED
  BY <1>3, <1>4, <1>5, <1>6, <1>7

\* It knows every pending proposal from then on, and prunes those of its scene.
LEMMA ReadProposalsKeeps == ASSUME IInv, ReadProposals PROVE IInv'
<1> USE DEF IInv, ReadProposals
<1>1. Types'
  <2>1. run' \in Run
    BY DEF Types, Run, Phases
  <2> QED
    BY <2>1 DEF Types
<1>2. PointsInv' /\ RowInv' /\ RequestInv' /\ SingleInv' /\ SupportedStaysOpen'
  BY DEF PointsInv, RowInv, RequestInv, SingleInv, Live, Pending, SupportedStaysOpen, Row
<1>3. ChunkInv' /\ RunInv' /\ UnquotedInv'
  BY DEF ChunkInv, RunInv, UnquotedInv, Row, Types, Run
<1>4. MemoryInv'
  BY DEF MemoryInv, Live, Pending, Confirmed, Row, Types, Run
<1> QED
  BY <1>1, <1>2, <1>3, <1>4

\* What is dropped has lost its chunk, and a chunk that replaced it is not quoted.
LEMMA PruneProposalKeeps == ASSUME IInv, NEW p \in Proposals, PruneProposal(p) PROVE IInv'
<1> USE DEF IInv
<1>1. Supported(p) \subseteq Row(p).chunks /\ Supported(p) \subseteq {run.chunk.id}
  BY DEF Supported, Active
<1>2. Types'
  <2>1. run' \in Run
    BY DEF Types, RunInv, PruneProposal, Forgotten, Run
  <2>2. proposal' \in [Proposals -> ProposalRow]
    BY <1>1 DEF Types, PruneProposal, ProposalRow, Statuses, Row
  <2> QED
    BY <2>1, <2>2 DEF Types, PruneProposal
<1>3. PointsInv' /\ RowInv' /\ RequestInv' /\ ChunkInv'
  BY <1>1 DEF PointsInv, RowInv, RequestInv, RunInv, ChunkInv, PruneProposal, Row, Types, ProposalRow, Run
<1>4. RunInv'
  BY DEF RunInv, PruneProposal, Forgotten, Row, Types, ProposalRow, Run
<1>5. UnquotedInv' /\ SupportedStaysOpen'
  BY <1>1 DEF UnquotedInv, SupportedStaysOpen, RunInv, PruneProposal, Supported, Active, Row,
              Types, ProposalRow, Run, ChunkRow
<1>6. SingleInv'
  BY DEF SingleInv, Live, Pending, PruneProposal, Types, ProposalRow
<1>7. MemoryInv'
  BY DEF MemoryInv, Live, Pending, Remembered, PendingFor, Confirmed, Supported, Active, Forgotten,
         PruneProposal, RunInv, Row, Types, ProposalRow, Run
<1> QED
  BY <1>2, <1>3, <1>4, <1>5, <1>6, <1>7

\* It ends, and forgets everything.
LEMMA IdleKeeps ==
  ASSUME IInv, run' = Idle, UNCHANGED <<chunk, lastId, entity, proposal, request, excused>>
  PROVE  IInv'
<1> USE DEF IInv
<1>1. run' \in Run
  BY ConstantsAssumption DEF Idle, Run, Phases, NoChunk, ChunkRow
<1>2. Types'
  BY <1>1 DEF Types
<1>3. PointsInv' /\ RowInv' /\ RequestInv' /\ SingleInv' /\ SupportedStaysOpen'
  BY DEF PointsInv, RowInv, RequestInv, SingleInv, Live, Pending, SupportedStaysOpen, Row
<1>4. ChunkInv' /\ RunInv' /\ UnquotedInv' /\ MemoryInv'
  BY DEF ChunkInv, RunInv, UnquotedInv, MemoryInv, Idle, NoChunk, Types
<1> QED
  BY <1>2, <1>3, <1>4

\* It ends here, or nothing is left to prune and it knows what it did.
LEMMA ExtractEntitiesKeeps == ASSUME IInv, ExtractEntities PROVE IInv'
<1> USE DEF IInv
<1>1. CASE run' = Idle
  BY <1>1, IdleKeeps DEF ExtractEntities
<1>2. ASSUME run.chunk.id # 0, NEW found \in SUBSET Names,
             run' = [run EXCEPT !.phase = "extract", !.todo = found]
      PROVE  IInv'
  <2>0. /\ run.phase = "prune" /\ run.prune = {}
        /\ UNCHANGED <<chunk, lastId, entity, proposal, request, excused>>
    BY DEF ExtractEntities
  <2> USE <1>2, <2>0
  <2>1. run' \in Run
    BY DEF Types, Run, Phases
  <2>2. Types'
    BY <2>1 DEF Types
  <2>3. PointsInv' /\ RowInv' /\ RequestInv' /\ SingleInv' /\ SupportedStaysOpen'
    BY DEF PointsInv, RowInv, RequestInv, SingleInv, Live, Pending, SupportedStaysOpen, Row
  <2>4. ChunkInv' /\ RunInv' /\ UnquotedInv'
    BY DEF ChunkInv, RunInv, UnquotedInv, Types, Run
  <2>5. MemoryInv'
    BY DEF MemoryInv, Live, Pending, Remembered, PendingFor, Confirmed, Row, Types, Run
  <2> QED
    BY <2>2, <2>3, <2>4, <2>5
<1> QED
  BY <1>1, <1>2 DEF ExtractEntities

\* A name is handled and nothing written.
LEMMA HandledKeeps ==
  ASSUME IInv, NEW n \in run.todo, Handled(n),
         UNCHANGED <<chunk, lastId, entity, proposal, request, excused>>
  PROVE  IInv'
<1> USE DEF IInv, Handled
<1>1. Types'
  BY DEF Types, Run
<1>2. PointsInv' /\ RowInv' /\ RequestInv' /\ SingleInv' /\ SupportedStaysOpen'
  BY DEF PointsInv, RowInv, RequestInv, SingleInv, Live, Pending, SupportedStaysOpen, Row
<1>3. ChunkInv' /\ RunInv' /\ UnquotedInv'
  BY DEF ChunkInv, RunInv, UnquotedInv, Types, Run
<1>4. MemoryInv'
  BY DEF MemoryInv, Live, Pending, Remembered, PendingFor, Confirmed, Supported, Active, Row, Types, Run
<1> QED
  BY <1>1, <1>2, <1>3, <1>4

\* A known proposal, which is not OBSOLETE, gains a quote of the chunk that was read.
LEMMA QuoteKeeps ==
  ASSUME IInv, NEW n \in run.todo, NEW p \in run.known,
         proposal' = [proposal EXCEPT ![p].chunks = @ \cup {Quote}], Handled(n),
         UNCHANGED <<chunk, lastId, entity, request, excused>>
  PROVE  IInv'
<1> USE DEF IInv, Handled, Quote
<1>1. /\ p \in Proposals /\ run.phase = "extract" /\ run.prune = {}
      /\ Quote \in 1..lastId /\ Quote \in 1..MaxChunks
  BY ConstantsAssumption DEF Types, Run, ChunkRow, RunInv, ChunkInv
<1>2. Types'
  <2>1. proposal' \in [Proposals -> ProposalRow]
    BY <1>1 DEF Types, ProposalRow
  <2>2. run' \in Run
    BY DEF Types, Run
  <2> QED
    BY <2>1, <2>2 DEF Types
<1>3. PointsInv' /\ RowInv' /\ RequestInv'
  BY <1>1 DEF PointsInv, RowInv, RequestInv, Types, ProposalRow
<1>4. ChunkInv' /\ RunInv'
  BY <1>1 DEF ChunkInv, RunInv, Types, ProposalRow, Run
<1>5. UnquotedInv' /\ SupportedStaysOpen'
  BY <1>1 DEF UnquotedInv, SupportedStaysOpen, RunInv, Row, Types, ProposalRow, Run
<1>6. SingleInv'
  BY <1>1 DEF SingleInv, Live, Pending, Types, ProposalRow
<1>7. MemoryInv'
  BY <1>1 DEF MemoryInv, Live, Pending, Remembered, PendingFor, Confirmed, Row, Types, ProposalRow, Run
<1> QED
  BY <1>2, <1>3, <1>4, <1>5, <1>6, <1>7

\* A proposal is made of a name only where the analysis found no other: none is
\* pending, and the name has no entity, or the one the proposal updates.
LEMMA CreateKeeps ==
  ASSUME IInv, NEW n \in run.todo, NEW target \in Confirmed(n) \cup {None},
         target = None => Confirmed(n) = {} /\ PendingFor(n) = {},
         target # None => UpdatesOf(target) = {},
         Create(n, target), UNCHANGED <<chunk, lastId, entity, request, excused>>
  PROVE  IInv'
<1> USE DEF IInv
<1>1. PICK p \in Proposals :
        /\ proposal[p] = NoProposal
        /\ proposal' = [proposal EXCEPT ![p] =
             [name |-> n, scene |-> run.scene, target |-> target, status |-> "PENDING", chunks |-> {Quote}]]
        /\ run' = [run EXCEPT !.todo = @ \ {n}, !.known = @ \cup {p}]
  BY DEF Create, Fresh, Types
<1>2. /\ n \in Names /\ run.phase = "extract" /\ run.prune = {} /\ run.scene \in Scenes
      /\ Quote \in 1..lastId /\ Quote \in 1..MaxChunks /\ Quote = run.chunk.id
      /\ target # None => target \in Entities /\ entity[target].name = n
      /\ p \notin run.known
  BY <1>1, ConstantsAssumption DEF Types, Run, ChunkRow, RunInv, ChunkInv, Quote, NoProposal, Confirmed
<1>3. Types'
  <2>1. proposal' \in [Proposals -> ProposalRow]
    BY <1>1, <1>2 DEF Types, ProposalRow, Statuses
  <2>2. run' \in Run
    BY <1>1 DEF Types, Run
  <2> QED
    BY <2>1, <2>2 DEF Types
<1>4. PointsInv' /\ RowInv' /\ RequestInv'
  BY <1>1, <1>2 DEF PointsInv, RowInv, RequestInv, NoProposal, Types, ProposalRow
<1>5. ChunkInv' /\ RunInv'
  BY <1>1, <1>2 DEF ChunkInv, RunInv, NoProposal, Types, ProposalRow, Run
<1>6. UnquotedInv' /\ SupportedStaysOpen'
  BY <1>1, <1>2 DEF UnquotedInv, SupportedStaysOpen, RunInv, NoProposal, Row, Types, ProposalRow, Run
<1>7. n \notin excused => Pending(n) = {} /\ Live(n) \subseteq {target}
  BY <1>1, <1>2 DEF MemoryInv, Pending, Live, Remembered, PendingFor, UpdatesOf, Confirmed, Row, Types, Run
<1>8. SingleInv'
  BY <1>1, <1>2, <1>7 DEF SingleInv, Live, Pending, NoProposal, Types, ProposalRow
<1>9. MemoryInv'
  <2>1. \A m \in Names : /\ Live(m)' = Live(m) /\ Confirmed(m)' = Confirmed(m)
                         /\ Pending(m)' = IF m = n THEN Pending(m) \cup {p} ELSE Pending(m)
    BY <1>1, <1>2 DEF Live, Confirmed, Pending, NoProposal, Types, ProposalRow, Run
  <2>2. \A m \in Names : Remembered(m) => Remembered(m)'
    BY <1>1, <1>2, <2>1 DEF Remembered, PendingFor, Row, Types, ProposalRow, Run
  <2>3. \A i \in Proposals \ {p} : proposal'[i] = proposal[i]
    BY <1>1 DEF Types
  <2>4. /\ proposal'[p].target = target /\ run'.phase = "extract"
        /\ run'.seen = run.seen /\ run'.known = run.known \cup {p}
    BY <1>1, <1>2 DEF Types, Run
  <2>5. n \notin excused => \A e \in Confirmed(n) : e = target
    BY <1>2 DEF MemoryInv, Confirmed
  <2> QED
    BY <1>1, <1>2, <1>7, <2>1, <2>2, <2>3, <2>4, <2>5 DEF MemoryInv
<1> QED
  BY <1>3, <1>4, <1>5, <1>6, <1>8, <1>9

\* What an entity is found for is handled, made its update, or quoted by one.
LEMMA ProcessConfirmedKeeps == ASSUME IInv, NEW n \in Names, ProcessConfirmed(n) PROVE IInv'
<1>1. PICK e \in Confirmed(n) :
        \/ Handled(n) /\ UNCHANGED proposal
        \/ UpdatesOf(e) = {} /\ Create(n, e)
        \/ \E p \in UpdatesOf(e) :
             /\ proposal' = [proposal EXCEPT ![p].chunks = @ \cup {Quote}]
             /\ Handled(n)
  BY DEF ProcessConfirmed
<1>2. n \in run.todo /\ UNCHANGED <<chunk, lastId, entity, request, excused>> /\ e # None
  BY ConstantsAssumption DEF ProcessConfirmed, Confirmed, IInv, Types, Run
<1>3. CASE Handled(n) /\ UNCHANGED proposal
  BY <1>2, <1>3, HandledKeeps
<1>4. CASE UpdatesOf(e) = {} /\ Create(n, e)
  BY <1>2, <1>4, CreateKeeps
<1>5. ASSUME NEW p \in UpdatesOf(e),
             proposal' = [proposal EXCEPT ![p].chunks = @ \cup {Quote}], Handled(n)
      PROVE  IInv'
  BY <1>2, <1>5, QuoteKeeps DEF UpdatesOf
<1> QED
  BY <1>1, <1>3, <1>4, <1>5

\* No entity, but a proposal.
LEMMA ProcessPendingKeeps == ASSUME IInv, NEW n \in Names, ProcessPending(n) PROVE IInv'
<1>1. PICK p \in PendingFor(n) : proposal' = [proposal EXCEPT ![p].chunks = @ \cup {Quote}]
  BY DEF ProcessPending
<1> QED
  BY <1>1, QuoteKeeps DEF ProcessPending, PendingFor

\* Neither.
LEMMA ProcessNewKeeps == ASSUME IInv, NEW n \in Names, ProcessNew(n) PROVE IInv'
<1>1. CASE Create(n, None)
  BY <1>1, CreateKeeps DEF ProcessNew
<1>2. CASE Handled(n) /\ UNCHANGED proposal
  BY <1>2, HandledKeeps DEF ProcessNew
<1> QED
  BY <1>1, <1>2 DEF ProcessNew

\* The flag changes and no id.
LEMMA FinishAnalysisKeeps == ASSUME IInv, FinishAnalysis PROVE IInv'
<1> USE DEF IInv, FinishAnalysis
<1>1. run' \in Run
  BY ConstantsAssumption DEF Idle, Run, Phases, NoChunk, ChunkRow
<1>2. chunk' \in [Scenes -> ChunkRow] /\ \A s \in Scenes : chunk'[s].id = chunk[s].id
  BY DEF Types, ChunkRow
<1>3. Types'
  BY <1>1, <1>2 DEF Types
<1>4. PointsInv' /\ RowInv' /\ RequestInv' /\ SingleInv'
  BY DEF PointsInv, RowInv, RequestInv, SingleInv, Live, Pending
<1>5. SupportedStaysOpen'
  BY <1>2, ConstantsAssumption DEF SupportedStaysOpen, RowInv, Row, Types, ProposalRow
<1>6. ChunkInv' /\ RunInv' /\ UnquotedInv' /\ MemoryInv'
  BY <1>2 DEF ChunkInv, RunInv, UnquotedInv, MemoryInv, Idle, NoChunk, Types
<1> QED
  BY <1>3, <1>4, <1>5, <1>6

-----------------------------------------------------------------------------
(* Every step, and the theorems.                                           *)

\* No step, no change.
LEMMA StutterKeeps == ASSUME IInv, UNCHANGED vars PROVE IInv'
<1> USE DEF IInv, vars
<1>1. Types' /\ PointsInv' /\ ChunkInv' /\ RowInv' /\ RunInv' /\ RequestInv'
  BY DEF Types, PointsInv, ChunkInv, RowInv, RunInv, RequestInv
<1>2. UnquotedInv' /\ SupportedStaysOpen' /\ SingleInv'
  BY DEF UnquotedInv, SupportedStaysOpen, Row, SingleInv, Live, Pending
<1>3. MemoryInv'
  BY DEF MemoryInv, Live, Pending, Remembered, PendingFor, Confirmed, Supported, Active, Row
<1> QED
  BY <1>1, <1>2, <1>3

\* The invariant is inductive: one step for each group of actions.
LEMMA NextKeeps == IInv /\ [Next]_vars => IInv'
<1> SUFFICES ASSUME IInv, [Next]_vars PROVE IInv'
  OBVIOUS
<1>1. CASE UNCHANGED vars
  BY <1>1, StutterKeeps
<1>2. ASSUME NEW s \in Scenes, Save(s) \/ StartAnalysis(s) PROVE IInv'
  BY <1>2, SaveKeeps, StartAnalysisKeeps
<1>3. ASSUME NEW n \in Names,
             CreateEntity(n) \/ ProcessConfirmed(n) \/ ProcessPending(n) \/ ProcessNew(n)
      PROVE  IInv'
  BY <1>3, CreateEntityKeeps, ProcessConfirmedKeeps, ProcessPendingKeeps, ProcessNewKeeps
<1>4. ASSUME NEW e \in Entities, RemoveEntity(e) PROVE IInv'
  BY <1>4, RemoveEntityKeeps
<1>5. ASSUME NEW p \in Proposals, RejectProposal(p) \/ PruneProposal(p) PROVE IInv'
  BY <1>5, RejectProposalKeeps, PruneProposalKeeps
<1>6. ASSUME NEW q \in Requests, WriteAccepted(q) PROVE IInv'
  BY <1>6, WriteAcceptedKeeps
<1>7. ASSUME NEW q \in Requests, NEW p \in Proposals, ReadAccepted(q, p) PROVE IInv'
  BY <1>7, ReadAcceptedKeeps
<1>8. CASE ReadProposals \/ ExtractEntities \/ FinishAnalysis
  BY <1>8, ReadProposalsKeeps, ExtractEntitiesKeeps, FinishAnalysisKeeps
<1>9. CASE AnalysisFails
  BY <1>9, IdleKeeps DEF AnalysisFails
<1> QED
  BY <1>1, <1>2, <1>3, <1>4, <1>5, <1>6, <1>7, <1>8, <1>9 DEF Next

\* However saves, analyses, acceptances and removals interleave, rows keep their types,
\* proposals point at entities of their name, and an analysis takes a proposal back
\* only once the scene it was made for has lost the chunk that backs it.
THEOREM ProposalsStayBacked == Spec => []ProposalsAreBacked
<1>1. Init => IInv
  BY InitIInv
<1>2. IInv /\ [Next]_vars => IInv'
  BY NextKeeps
<1>3. IInv => ProposalsAreBacked
  BY IInvImplies
<1> QED
  BY <1>1, <1>2, <1>3, PTL DEF Spec

\* Two live entities of one name were made by the author's own hand, or by an
\* acceptance that came between two reads of one analysis, or twice.
THEOREM TwinsOnlyByRaces == Spec => []TwinsNeedARace
<1>1. Init => IInv
  BY InitIInv
<1>2. IInv /\ [Next]_vars => IInv'
  BY NextKeeps
<1>3. IInv => TwinsNeedARace
  BY IInvImplies
<1> QED
  BY <1>1, <1>2, <1>3, PTL DEF Spec
-----------------------------------------------------------------------------
(***************************************************************************)
(* What EntityStates satisfies, for any scenes, attributes, proposals and  *)
(* edits.                                                                  *)
(***************************************************************************)
\* A row is of the entity's keys and scenes, and ends after it begins.
StateRows(rs) ==
  /\ rs \in Seq(States!Row)
  /\ \A i \in DOMAIN rs : rs[i].to # 0 => rs[i].from < rs[i].to

\* A change that may be applied.
ChangeOK(c) == c \in States!Row /\ States!WindowOK(c.from, c.to)

IsLatest(rs, S, i) == i \in S /\ \A j \in S \ {i} : States!After(rs, i, j)

\* Of the rows of one scene, the first of the highest order.
IsHighest(rs, S, i) ==
  /\ i \in S
  /\ \A j \in S : rs[j].order < rs[i].order \/ (rs[j].order = rs[i].order /\ i <= j)

\* The rows of a key that begin at a scene and are active there.
Here(rs, k, s) == {i \in States!ActiveRows(rs, k, s) : rs[i].from = s}

Apart(rs, k) ==
  \A i, j \in DOMAIN rs : rs[i].key = k /\ rs[j].key = k /\ i # j => ~States!Overlap(rs, i, j)

\* What the author locked first conflicts with whatever is proposed for it.
LockedInv ==
  /\ lockedFirst \subseteq locked
  /\ \A p \in Proposed : p.key \in lockedFirst /\ review[p].status # "none" => review[p].conflict

\* What an analysis holds between its statements: one proposal, the conflict the author's
\* locks had with it, and the status of one nobody can decide meanwhile.
HeldInv ==
  /\ held.phase \in {"locks", "proposal"} =>
       /\ \A p \in held.of : p.key \in lockedFirst => held.conflict
       /\ \A p, q \in held.of : p = q
  /\ held.phase = "proposal" /\ held.was \in {"none", "OBSOLETE"} =>
       \A p \in held.of : review[p].status \in {"none", "OBSOLETE"}
  /\ held.phase = "stale" => \A p \in held.of : review[p].status # "none"

StatesInv == States!TypeOK /\ LockedInv /\ HeldInv /\ States!InOrderStatesAreDisjoint
-----------------------------------------------------------------------------
(* Rows, and which of them is shown. *)

LEMMA SceneIs ==
  ASSUME States!StatesAssumption, NEW s \in States!Scenes
  PROVE  s \in Nat /\ s # 0
<1>1. NumScenes \in Nat
  BY Zenon DEF States!StatesAssumption
<1> QED
  BY <1>1 DEF States!Scenes

LEMMA RowIs ==
  ASSUME States!StatesAssumption, NEW rs, StateRows(rs), NEW i \in DOMAIN rs
  PROVE  /\ i \in 1..Len(rs) /\ rs[i] \in States!Row
         /\ rs[i].key \in Keys /\ rs[i].value \in Values
         /\ rs[i].from \in States!Scenes /\ rs[i].to \in States!Scenes \cup {0}
         /\ rs[i].from \in Nat /\ rs[i].from # 0 /\ rs[i].to \in Nat /\ rs[i].order \in Nat
         /\ rs[i].to # 0 => rs[i].from < rs[i].to
<1>1. rs[i] \in States!Row /\ i \in 1..Len(rs) /\ (rs[i].to # 0 => rs[i].from < rs[i].to)
  BY DEF StateRows
<1>2. /\ rs[i].key \in Keys /\ rs[i].value \in Values /\ rs[i].order \in Nat
      /\ rs[i].from \in States!Scenes /\ rs[i].to \in States!Scenes \cup {0}
  BY <1>1 DEF States!Row, States!NoScene
<1>3. rs[i].from \in Nat /\ rs[i].from # 0 /\ rs[i].to \in Nat
  BY <1>2, SceneIs
<1> QED
  BY <1>1, <1>2, <1>3

\* R orders the places up to n.
TotalOrder(R, n) ==
  /\ \A i, j \in 1..n : i # j => <<i, j>> \in R \/ <<j, i>> \in R
  /\ \A i, j, k \in 1..n : <<i, j>> \in R /\ <<j, k>> \in R => <<i, k>> \in R

\* A set of places has a greatest one in a total order: the least number up to which
\* there is a set without one cannot be.
LEMMA GreatestPlace ==
  ASSUME NEW n \in Nat, NEW R, TotalOrder(R, n), NEW S \in SUBSET (1..n), S # {}
  PROVE  \E i \in S : \A j \in S \ {i} : <<i, j>> \in R
<1> DEFINE Has(T) == \E i \in T : \A j \in T \ {i} : <<i, j>> \in R
           Bad == {m \in 0..n : \E T \in SUBSET (1..m) : T # {} /\ ~Has(T)}
<1> SUFFICES ASSUME ~Has(S) PROVE FALSE
  OBVIOUS
<1>1. Bad # {}
  <2>1. n \in 0..n
    OBVIOUS
  <2>2. n \in Bad
    BY <2>1
  <2> QED
    BY <2>2
<1>2. PICK m \in Bad : \A l \in Bad : ~(<<l, m>> \in OpToRel(<, Nat))
  <2>1. Bad \in SUBSET Nat
    OBVIOUS
  <2> HIDE DEF Bad
  <2> QED
    BY <1>1, <2>1, NatLessThanWellFounded, WFMin
<1>3. PICK T \in SUBSET (1..m) : T # {} /\ ~Has(T)
  BY <1>2
<1>4. m \in 0..n /\ m # 0
  <2>1. m \in 0..n
    BY <1>2
  <2>2. T # {} /\ T \in SUBSET (1..m)
    BY <1>3
  <2>3. PICK x \in T : TRUE
    BY <2>2
  <2>4. x \in 1..m
    BY <2>2, <2>3
  <2> HIDE DEF Bad, Has
  <2> QED
    BY <2>1, <2>4
<1>5. m - 1 \in 0..n /\ <<m - 1, m>> \in OpToRel(<, Nat)
  BY <1>4 DEF OpToRel
<1>6. m - 1 \notin Bad
  BY <1>2, <1>5
<1>7. m \in T
  <2>1. SUFFICES ASSUME m \notin T PROVE FALSE
    OBVIOUS
  <2>2. T \in SUBSET (1..(m - 1))
    BY <1>4, <2>1
  <2> QED
    BY <1>3, <1>5, <1>6, <2>2
<1> DEFINE U == T \ {m}
<1>8. U \in SUBSET (1..(m - 1))
  BY <1>4
<1>9. U # {}
  <2>1. SUFFICES ASSUME U = {} PROVE Has(T)
    BY <1>3
  <2> QED
    BY <1>7, <2>1
<1>10. Has(U)
  BY <1>5, <1>6, <1>8, <1>9
<1>11. PICK i \in U : \A j \in U \ {i} : <<i, j>> \in R
  BY <1>10
<1>12. i \in 1..n /\ m \in 1..n /\ i # m /\ \A j \in U : j \in 1..n
  BY <1>4, <1>8
<1>13. CASE <<i, m>> \in R
  <2>1. \A j \in T \ {i} : <<i, j>> \in R
    BY <1>11, <1>13
  <2> QED
    BY <1>3, <2>1
<1>14. CASE <<m, i>> \in R
  <2>1. \A j \in T \ {m} : <<m, j>> \in R
    BY <1>11, <1>12, <1>14 DEF TotalOrder
  <2> QED
    BY <1>3, <1>7, <2>1
<1> QED
  BY <1>12, <1>13, <1>14 DEF TotalOrder

LEMMA LatestIs ==
  ASSUME States!StatesAssumption, NEW rs, StateRows(rs), NEW S \in SUBSET DOMAIN rs, S # {}
  PROVE  IsLatest(rs, S, States!Latest(rs, S))
<1> DEFINE D == DOMAIN rs
           R == {d \in D \X D : States!After(rs, d[1], d[2])}
<1>1. \A i, j \in D : <<i, j>> \in R <=> States!After(rs, i, j)
  OBVIOUS
<1>2. D = 1..Len(rs) /\ Len(rs) \in Nat
  BY DEF StateRows
<1>3. \A i \in D : rs[i].from \in Nat /\ rs[i].order \in Nat /\ i \in Nat
  BY <1>2, RowIs
<1>4. \A i, j \in D : i # j => States!After(rs, i, j) \/ States!After(rs, j, i)
  BY <1>3 DEF States!After
<1>5. \A i, j, k \in D : States!After(rs, i, j) /\ States!After(rs, j, k) => States!After(rs, i, k)
  BY <1>3 DEF States!After
<1> HIDE DEF R
<1>6. \E i \in S : \A j \in S \ {i} : <<i, j>> \in R
  <2>1. \A i, j \in 1..Len(rs) : i # j => <<i, j>> \in R \/ <<j, i>> \in R
    BY <1>1, <1>2, <1>4
  <2>2. \A i, j, k \in 1..Len(rs) : <<i, j>> \in R /\ <<j, k>> \in R => <<i, k>> \in R
    BY <1>1, <1>2, <1>5
  <2>3. S \in SUBSET (1..Len(rs))
    BY <1>2
  <2>4. TotalOrder(R, Len(rs))
    BY <2>1, <2>2, Zenon DEF TotalOrder
  <2> QED
    BY <1>2, <2>3, <2>4, GreatestPlace
<1>7. \E i \in S : \A j \in S \ {i} : States!After(rs, i, j)
  BY <1>1, <1>6
<1>8. States!Latest(rs, S) = CHOOSE i \in S : \A j \in S \ {i} : States!After(rs, i, j)
  BY DEF States!Latest
<1> QED
  BY <1>7, <1>8, Zenon DEF IsLatest

LEMMA OneLatest ==
  ASSUME States!StatesAssumption, NEW rs, StateRows(rs), NEW S \in SUBSET DOMAIN rs,
         NEW i, IsLatest(rs, S, i)
  PROVE  States!Latest(rs, S) = i
<1>1. IsLatest(rs, S, States!Latest(rs, S))
  BY LatestIs DEF IsLatest
<1> DEFINE l == States!Latest(rs, S)
<1> HIDE DEF l
<1>2. IsLatest(rs, S, l)
  BY <1>1 DEF l
<1>3. /\ l \in Nat /\ rs[l].from \in Nat /\ rs[l].order \in Nat
      /\ i \in Nat /\ rs[i].from \in Nat /\ rs[i].order \in Nat
  <2>1. l \in DOMAIN rs /\ i \in DOMAIN rs
    BY <1>2 DEF IsLatest
  <2> QED
    BY <2>1, RowIs
<1>4. l = i
  BY <1>2, <1>3 DEF IsLatest, States!After
<1> QED
  BY <1>4 DEF l

\* The view of a scene depends on the rows that are active there.
LEMMA SameView ==
  ASSUME States!StatesAssumption, NEW rs, StateRows(rs), NEW other, StateRows(other),
         NEW k, NEW s,
         States!ActiveRows(other, k, s) = States!ActiveRows(rs, k, s),
         \A i \in States!ActiveRows(rs, k, s) :
           other[i].value = rs[i].value /\ other[i].from = rs[i].from /\ other[i].order = rs[i].order
  PROVE  States!View(other, k, s) = States!View(rs, k, s)
<1> DEFINE active == States!ActiveRows(rs, k, s)
<1>1. active \in SUBSET DOMAIN rs /\ active \in SUBSET DOMAIN other
  BY DEF States!ActiveRows
<1> HIDE DEF active
<1>2. active # {} => States!Latest(other, active) = States!Latest(rs, active)
  <2> SUFFICES ASSUME active # {} PROVE States!Latest(other, active) = States!Latest(rs, active)
    OBVIOUS
  <2>1. IsLatest(rs, active, States!Latest(rs, active))
    BY <1>1, LatestIs
  <2>2. IsLatest(other, active, States!Latest(rs, active))
    BY <2>1 DEF IsLatest, States!After, active
  <2> QED
    BY <1>1, <2>2, OneLatest
<1>3. States!Selected(other, k, s) = States!Selected(rs, k, s)
  BY <1>2 DEF States!Selected, active
<1>4. States!Selected(rs, k, s) \subseteq active
  <2>1. active # {} => States!Latest(rs, active) \in active
    BY <1>1, LatestIs DEF IsLatest
  <2> QED
    BY <2>1 DEF States!Selected, active
<1> QED
  BY <1>3, <1>4 DEF States!View, active
-----------------------------------------------------------------------------
(* Applying one change. *)

\* The row an unordered change rewrites.
LEMMA TargetIs ==
  ASSUME States!StatesAssumption, NEW rs, StateRows(rs), NEW k, NEW s, Here(rs, k, s) # {}
  PROVE  IsHighest(rs, Here(rs, k, s), States!SameScene(rs, k, s))
<1> DEFINE D == DOMAIN rs
           H == Here(rs, k, s)
           Higher(i, j) == \/ rs[j].order < rs[i].order
                           \/ rs[j].order = rs[i].order /\ i < j
           R == {d \in D \X D : Higher(d[1], d[2])}
<1>1. \A i, j \in D : <<i, j>> \in R <=> Higher(i, j)
  OBVIOUS
<1>2. D = 1..Len(rs) /\ Len(rs) \in Nat
  BY DEF StateRows
<1>3. \A i \in D : rs[i].order \in Nat /\ i \in Nat
  BY <1>2, RowIs
<1>4. \A i, j \in D : i # j => Higher(i, j) \/ Higher(j, i)
  BY <1>3
<1>5. \A i, j, l \in D : Higher(i, j) /\ Higher(j, l) => Higher(i, l)
  BY <1>3
<1>6. H \in SUBSET D
  BY DEF Here, States!ActiveRows
<1> HIDE DEF R, H
<1>7. \E i \in H : \A j \in H \ {i} : <<i, j>> \in R
  <2>1. \A i, j \in 1..Len(rs) : i # j => <<i, j>> \in R \/ <<j, i>> \in R
    BY <1>1, <1>2, <1>4
  <2>2. \A i, j, l \in 1..Len(rs) : <<i, j>> \in R /\ <<j, l>> \in R => <<i, l>> \in R
    BY <1>1, <1>2, <1>5
  <2>3. H \in SUBSET (1..Len(rs)) /\ H # {}
    BY <1>2, <1>6 DEF H
  <2>4. TotalOrder(R, Len(rs))
    BY <2>1, <2>2, Zenon DEF TotalOrder
  <2> QED
    BY <1>2, <2>3, <2>4, GreatestPlace
<1>8. PICK i \in H : \A j \in H \ {i} : Higher(i, j)
  BY <1>1, <1>6, <1>7
<1>9. \A j \in H : rs[j].order < rs[i].order \/ (rs[j].order = rs[i].order /\ i <= j)
  <2> SUFFICES ASSUME NEW j \in H
               PROVE  rs[j].order < rs[i].order \/ (rs[j].order = rs[i].order /\ i <= j)
    OBVIOUS
  <2>1. i \in Nat /\ j \in Nat
    BY <1>3, <1>6
  <2> QED
    BY <1>8, <2>1
<1>10. States!SameScene(rs, k, s) =
         CHOOSE l \in H : \A j \in H : rs[j].order < rs[l].order \/ (rs[j].order = rs[l].order /\ l <= j)
  BY DEF States!SameScene, H, Here
<1> QED
  BY <1>9, <1>10, Zenon DEF IsHighest, H

\* A change that rewrites a row: the highest of the rows that begin at its scene.
LEMMA Rewritten ==
  ASSUME States!StatesAssumption, NEW rs, StateRows(rs), NEW c, ChangeOK(c), States!Rewrites(rs, c)
  PROVE  \E i \in DOMAIN rs :
           /\ c.key \in SingleValue
           /\ i = States!SameScene(rs, c.key, c.from)
           /\ IsHighest(rs, Here(rs, c.key, c.from), i)
           /\ rs[i].key = c.key /\ rs[i].from = c.from /\ States!ActiveAt(rs[i], c.from)
           /\ c.order \in {0, rs[i].order}
           /\ States!ApplyStateChange(rs, c) = [rs EXCEPT ![i] = [rs[i] EXCEPT !.value = c.value, !.to = c.to]]
<1> DEFINE i == States!SameScene(rs, c.key, c.from)
<1>1. Here(rs, c.key, c.from) # {}
  BY DEF States!Rewrites, Here
<1>2. IsHighest(rs, Here(rs, c.key, c.from), i)
  BY <1>1, TargetIs
<1>3. i \in Here(rs, c.key, c.from)
  BY <1>2 DEF IsHighest
<1>4. i \in DOMAIN rs /\ rs[i].key = c.key /\ rs[i].from = c.from /\ States!ActiveAt(rs[i], c.from)
  BY <1>3 DEF Here, States!ActiveRows
<1>5. c.key \in SingleValue /\ c.order \in {0, rs[i].order}
  BY DEF States!Rewrites, States!NoOrder
<1>6. States!ApplyStateChange(rs, c) = [rs EXCEPT ![i] = [rs[i] EXCEPT !.value = c.value, !.to = c.to]]
  BY DEF States!ApplyStateChange
<1> QED
  BY <1>2, <1>4, <1>5, <1>6

\* The rows a standard change closes.
Closes(rs, c, i) ==
  /\ c.key \in SingleValue /\ rs[i].key = c.key
  /\ States!ActiveAt(rs[i], c.from) /\ rs[i].from # c.from

\* A change that adds a row.
LEMMA AddedRow ==
  ASSUME States!StatesAssumption, NEW rs, StateRows(rs), NEW c, ChangeOK(c)
  PROVE  LET new == Append(States!Closed(rs, c), c)
         IN  /\ DOMAIN new = DOMAIN rs \cup {Len(rs) + 1} /\ Len(new) = Len(rs) + 1
             /\ new[Len(rs) + 1] = c
             /\ \A i \in DOMAIN rs :
                  new[i] = IF Closes(rs, c, i) THEN [rs[i] EXCEPT !.to = c.from] ELSE rs[i]
             /\ StateRows(new)
<1> DEFINE closed == States!Closed(rs, c)
           new == Append(closed, c)
<1>1. Len(rs) \in Nat /\ DOMAIN rs = 1..Len(rs)
  BY DEF StateRows
<1>2. closed = [i \in DOMAIN rs |-> IF Closes(rs, c, i) THEN [rs[i] EXCEPT !.to = c.from] ELSE rs[i]]
  BY DEF States!Closed, Closes, States!ActiveRows
<1>3. c \in States!Row /\ c.from \in States!Scenes /\ (c.to # 0 => c.from < c.to)
  BY DEF ChangeOK, States!Row, States!WindowOK, States!NoScene
<1>4. \A i \in DOMAIN rs : closed[i] \in States!Row /\ (closed[i].to # 0 => closed[i].from < closed[i].to)
  <2> SUFFICES ASSUME NEW i \in DOMAIN rs
               PROVE  closed[i] \in States!Row /\ (closed[i].to # 0 => closed[i].from < closed[i].to)
    OBVIOUS
  <2>1. rs[i] \in States!Row /\ (rs[i].to # 0 => rs[i].from < rs[i].to) /\ rs[i].from \in Nat
    BY RowIs
  <2>2. CASE ~Closes(rs, c, i)
    <3>1. closed[i] = rs[i]
      BY <1>2, <2>2
    <3> QED
      BY <2>1, <3>1
  <2>3. CASE Closes(rs, c, i)
    <3>1. closed[i] = [rs[i] EXCEPT !.to = c.from]
      BY <1>2, <2>3
    <3>2. rs[i].from <= c.from /\ rs[i].from # c.from /\ c.from \in Nat
      BY <1>3, <2>3 DEF Closes, States!ActiveAt, States!Scenes, States!StatesAssumption
    <3> QED
      BY <1>3, <2>1, <3>1, <3>2 DEF States!Row
  <2> QED
    BY <2>2, <2>3
<1>5. closed \in Seq(States!Row) /\ Len(closed) = Len(rs) /\ DOMAIN closed = DOMAIN rs
  <2>1. closed = [i \in 1..Len(rs) |-> closed[i]]
    BY <1>1, <1>2
  <2> HIDE DEF closed
  <2> QED
    BY <1>1, <1>4, <2>1
<1> HIDE DEF closed
<1>6. /\ new \in Seq(States!Row) /\ Len(new) = Len(rs) + 1
      /\ DOMAIN new = DOMAIN rs \cup {Len(rs) + 1} /\ new[Len(rs) + 1] = c
      /\ \A i \in DOMAIN rs : new[i] = closed[i]
  BY <1>1, <1>3, <1>5
<1>7. \A i \in DOMAIN new : new[i].to # 0 => new[i].from < new[i].to
  BY <1>3, <1>4, <1>6
<1>8. \A i \in DOMAIN rs : new[i] = IF Closes(rs, c, i) THEN [rs[i] EXCEPT !.to = c.from] ELSE rs[i]
  BY <1>2, <1>6
<1>9. new = Append(States!Closed(rs, c), c)
  BY DEF closed
<1> HIDE DEF new
<1>10. StateRows(new)
  BY <1>6, <1>7 DEF StateRows
<1> QED
  BY <1>6, <1>8, <1>9, <1>10

LEMMA RewrittenRows ==
  ASSUME States!StatesAssumption, NEW rs, StateRows(rs), NEW c, ChangeOK(c), NEW i \in DOMAIN rs,
         rs[i].from = c.from
  PROVE  LET new == [rs EXCEPT ![i] = [rs[i] EXCEPT !.value = c.value, !.to = c.to]]
         IN  /\ DOMAIN new = DOMAIN rs /\ Len(new) = Len(rs) /\ StateRows(new)
             /\ new[i] = [rs[i] EXCEPT !.value = c.value, !.to = c.to]
             /\ \A j \in DOMAIN rs \ {i} : new[j] = rs[j]
<1> DEFINE row == [rs[i] EXCEPT !.value = c.value, !.to = c.to]
           new == [rs EXCEPT ![i] = row]
<1>1. c \in States!Row /\ (c.to # 0 => c.from < c.to)
  BY DEF ChangeOK, States!WindowOK, States!NoScene
<1>2. row \in States!Row /\ row.from = c.from /\ row.to = c.to
  BY <1>1, RowIs DEF States!Row
<1> HIDE DEF row
<1>3. new \in Seq(States!Row) /\ DOMAIN new = DOMAIN rs /\ Len(new) = Len(rs)
  BY <1>2 DEF StateRows
<1>4. new[i] = row /\ \A j \in DOMAIN rs \ {i} : new[j] = rs[j]
  OBVIOUS
<1>5. \A j \in DOMAIN new : new[j].to # 0 => new[j].from < new[j].to
  BY <1>1, <1>2, <1>3, <1>4 DEF StateRows
<1> QED
  BY <1>3, <1>4, <1>5 DEF StateRows, row

LEMMA ApplyKeepsRows ==
  ASSUME States!StatesAssumption, NEW rs, StateRows(rs), NEW c, ChangeOK(c)
  PROVE  StateRows(States!ApplyStateChange(rs, c))
<1>1. CASE States!Rewrites(rs, c)
  <2>1. PICK i \in DOMAIN rs :
           /\ rs[i].from = c.from
           /\ States!ApplyStateChange(rs, c) = [rs EXCEPT ![i] = [rs[i] EXCEPT !.value = c.value, !.to = c.to]]
    BY <1>1, Rewritten
  <2>2. StateRows([rs EXCEPT ![i] = [rs[i] EXCEPT !.value = c.value, !.to = c.to]])
    BY <2>1, RewrittenRows
  <2> QED
    BY <2>1, <2>2
<1>2. CASE ~States!Rewrites(rs, c)
  <2>1. States!ApplyStateChange(rs, c) = Append(States!Closed(rs, c), c)
    BY <1>2 DEF States!ApplyStateChange
  <2> QED
    BY <2>1, AddedRow
<1> QED
  BY <1>1, <1>2

\* Nothing changes before the change begins.
LEMMA ViewBefore ==
  ASSUME States!StatesAssumption, NEW rs, StateRows(rs), NEW c, ChangeOK(c), live \subseteq States!Scenes,
         NEW k, NEW s \in live, s < c.from
  PROVE  States!View(States!ApplyStateChange(rs, c), k, s) = States!View(rs, k, s)
<1> DEFINE new == States!ApplyStateChange(rs, c)
<1>1. s \in Nat /\ c.from \in Nat /\ c.from \in live
  <2>1. c.from \in live
    BY DEF ChangeOK, States!WindowOK
  <2> QED
    BY <2>1, SceneIs
<1>2. StateRows(new)
  BY ApplyKeepsRows
<1>3. CASE States!Rewrites(rs, c)
  <2>1. PICK i \in DOMAIN rs : /\ rs[i].from = c.from
                               /\ new = [rs EXCEPT ![i] = [rs[i] EXCEPT !.value = c.value, !.to = c.to]]
    BY <1>3, Rewritten
  <2> HIDE DEF new
  <2>2. /\ DOMAIN new = DOMAIN rs /\ \A j \in DOMAIN rs \ {i} : new[j] = rs[j]
        /\ new[i].from = c.from
    <3>1. rs[i] \in States!Row
      BY RowIs
    <3> QED
      BY <2>1, <3>1, RewrittenRows DEF States!Row
  <2>3. ~States!ActiveAt(rs[i], s) /\ ~States!ActiveAt(new[i], s)
    BY <1>1, <2>1, <2>2 DEF States!ActiveAt
  <2>4. States!ActiveRows(new, k, s) = States!ActiveRows(rs, k, s)
    BY <2>2, <2>3 DEF States!ActiveRows
  <2>5. \A j \in States!ActiveRows(rs, k, s) : new[j] = rs[j]
    BY <2>2, <2>3 DEF States!ActiveRows
  <2> QED
    BY <1>2, <2>4, <2>5, SameView DEF new
<1>4. CASE ~States!Rewrites(rs, c)
  <2>1. new = Append(States!Closed(rs, c), c)
    BY <1>4 DEF States!ApplyStateChange
  <2> HIDE DEF new
  <2>2. /\ DOMAIN new = DOMAIN rs \cup {Len(rs) + 1} /\ new[Len(rs) + 1] = c
        /\ \A i \in DOMAIN rs : new[i] = IF Closes(rs, c, i) THEN [rs[i] EXCEPT !.to = c.from] ELSE rs[i]
    BY <2>1, AddedRow
  <2>3. ~States!ActiveAt(c, s)
    BY <1>1 DEF States!ActiveAt
  <2>4. \A i \in DOMAIN rs : /\ new[i].key = rs[i].key /\ new[i].value = rs[i].value
                             /\ new[i].from = rs[i].from /\ new[i].order = rs[i].order
                             /\ States!ActiveAt(new[i], s) <=> States!ActiveAt(rs[i], s)
    <3> SUFFICES ASSUME NEW i \in DOMAIN rs
                 PROVE  /\ new[i].key = rs[i].key /\ new[i].value = rs[i].value
                        /\ new[i].from = rs[i].from /\ new[i].order = rs[i].order
                        /\ States!ActiveAt(new[i], s) <=> States!ActiveAt(rs[i], s)
      OBVIOUS
    <3>1. rs[i] \in States!Row /\ rs[i].to \in Nat /\ rs[i].from \in Nat
      BY RowIs
    <3>2. CASE ~Closes(rs, c, i)
      BY <2>2, <3>2
    <3>3. CASE Closes(rs, c, i)
      <4>1. new[i] = [rs[i] EXCEPT !.to = c.from]
        BY <2>2, <3>3
      <4>2. /\ new[i].key = rs[i].key /\ new[i].value = rs[i].value /\ new[i].to = c.from
            /\ new[i].from = rs[i].from /\ new[i].order = rs[i].order
        BY <3>1, <4>1 DEF States!Row
      <4>3. rs[i].to = 0 \/ (rs[i].to \in live /\ c.from < rs[i].to)
        BY <3>3 DEF Closes, States!ActiveAt, States!NoScene
      <4> QED
        BY <1>1, <3>1, <4>2, <4>3 DEF States!ActiveAt, States!NoScene
    <3> QED
      BY <3>2, <3>3
  <2>5. States!ActiveRows(new, k, s) = States!ActiveRows(rs, k, s)
    BY <2>2, <2>3, <2>4 DEF States!ActiveRows
  <2>6. \A j \in States!ActiveRows(rs, k, s) : j \in DOMAIN rs
    BY DEF States!ActiveRows
  <2> QED
    BY <1>2, <2>4, <2>5, <2>6, SameView DEF new
<1> QED
  BY <1>3, <1>4

\* Nothing changes in other keys.
LEMMA OtherKeys ==
  ASSUME States!StatesAssumption, NEW rs, StateRows(rs), NEW c, ChangeOK(c), NEW k, k # c.key
  PROVE  LET new == States!ApplyStateChange(rs, c)
         IN  /\ {i \in DOMAIN new : new[i].key = k} = {i \in DOMAIN rs : rs[i].key = k}
             /\ \A i \in DOMAIN rs : rs[i].key = k => new[i] = rs[i]
<1> DEFINE new == States!ApplyStateChange(rs, c)
<1>1. CASE States!Rewrites(rs, c)
  <2>1. PICK i \in DOMAIN rs : /\ rs[i].from = c.from /\ rs[i].key = c.key
                               /\ new = [rs EXCEPT ![i] = [rs[i] EXCEPT !.value = c.value, !.to = c.to]]
    BY <1>1, Rewritten
  <2> HIDE DEF new
  <2>2. /\ DOMAIN new = DOMAIN rs /\ \A j \in DOMAIN rs \ {i} : new[j] = rs[j]
        /\ new[i].key = c.key
    <3>1. rs[i] \in States!Row
      BY RowIs
    <3> QED
      BY <2>1, <3>1, RewrittenRows DEF States!Row
  <2>3. {j \in DOMAIN new : new[j].key = k} = {j \in DOMAIN rs : rs[j].key = k}
    BY <2>1, <2>2
  <2>4. \A j \in DOMAIN rs : rs[j].key = k => new[j] = rs[j]
    BY <2>1, <2>2
  <2> QED
    BY <2>3, <2>4 DEF new
<1>2. CASE ~States!Rewrites(rs, c)
  <2>1. new = Append(States!Closed(rs, c), c)
    BY <1>2 DEF States!ApplyStateChange
  <2> HIDE DEF new
  <2>2. /\ DOMAIN new = DOMAIN rs \cup {Len(rs) + 1} /\ new[Len(rs) + 1] = c
        /\ \A i \in DOMAIN rs : new[i] = IF Closes(rs, c, i) THEN [rs[i] EXCEPT !.to = c.from] ELSE rs[i]
    BY <2>1, AddedRow
  <2>3. \A i \in DOMAIN rs : new[i].key = rs[i].key /\ (rs[i].key = k => new[i] = rs[i])
    <3> SUFFICES ASSUME NEW i \in DOMAIN rs
                 PROVE  new[i].key = rs[i].key /\ (rs[i].key = k => new[i] = rs[i])
      OBVIOUS
    <3>1. rs[i] \in States!Row
      BY RowIs
    <3> QED
      BY <2>2, <3>1 DEF Closes, States!Row
  <2>4. {j \in DOMAIN new : new[j].key = k} = {j \in DOMAIN rs : rs[j].key = k}
    BY <2>2, <2>3
  <2> QED
    BY <2>3, <2>4 DEF new
<1> QED
  BY <1>1, <1>2

\* Rows of a key that are the same give the same view of it, and stay apart.
LEMMA SameKey ==
  ASSUME States!StatesAssumption, NEW rs, StateRows(rs), NEW other, StateRows(other), NEW k,
         {i \in DOMAIN other : other[i].key = k} = {i \in DOMAIN rs : rs[i].key = k},
         \A i \in DOMAIN rs : rs[i].key = k => other[i] = rs[i]
  PROVE  /\ \A s : States!View(other, k, s) = States!View(rs, k, s)
         /\ States!RowsOf(other, k) = States!RowsOf(rs, k)
         /\ Apart(rs, k) => Apart(other, k)
<1> DEFINE own == {i \in DOMAIN rs : rs[i].key = k}
<1>1. own = {i \in DOMAIN other : other[i].key = k} /\ \A i \in own : other[i] = rs[i]
  OBVIOUS
<1>2. \A s : States!View(other, k, s) = States!View(rs, k, s)
  <2> SUFFICES ASSUME NEW s PROVE States!View(other, k, s) = States!View(rs, k, s)
    OBVIOUS
  <2>1. /\ States!ActiveRows(other, k, s) = {i \in own : States!ActiveAt(other[i], s)}
        /\ States!ActiveRows(rs, k, s) = {i \in own : States!ActiveAt(rs[i], s)}
    BY <1>1 DEF States!ActiveRows
  <2> HIDE DEF own
  <2>2. States!ActiveRows(other, k, s) = States!ActiveRows(rs, k, s)
    BY <1>1, <2>1
  <2>3. \A i \in States!ActiveRows(rs, k, s) : other[i] = rs[i]
    BY <1>1, <2>1
  <2> QED
    BY <2>2, <2>3, SameView
<1>3. States!RowsOf(other, k) = States!RowsOf(rs, k)
  <2>1. States!RowsOf(other, k) = [i \in own |-> other[i]] /\ States!RowsOf(rs, k) = [i \in own |-> rs[i]]
    BY <1>1 DEF States!RowsOf
  <2> HIDE DEF own
  <2> QED
    BY <1>1, <2>1
<1>4. Apart(rs, k) => Apart(other, k)
  <2> SUFFICES ASSUME Apart(rs, k), NEW i \in DOMAIN other, NEW j \in DOMAIN other,
                      other[i].key = k, other[j].key = k, i # j
               PROVE  ~States!Overlap(other, i, j)
    BY DEF Apart
  <2>1. i \in own /\ j \in own
    BY <1>1
  <2>2. other[i] = rs[i] /\ other[j] = rs[j]
    BY <1>1, <2>1
  <2>3. ~States!Overlap(rs, i, j)
    BY <2>1 DEF Apart
  <2>4. States!Overlap(other, i, j) <=> States!Overlap(rs, i, j)
    <3>1. \A l \in {i, j} : other[l] = rs[l]
      BY <2>2
    <3> QED
      BY <2>2, <3>1, Zenon DEF States!Overlap
  <2> QED
    BY <2>3, <2>4
<1> QED
  BY <1>2, <1>3, <1>4
-----------------------------------------------------------------------------
(* An applied value holds, and rows added in order stay apart. *)

LEMMA AppliedHolds ==
  ASSUME States!StatesAssumption, NEW rs, StateRows(rs), NEW c, ChangeOK(c), c.key \in SingleValue,
         live \subseteq States!Scenes
  PROVE  \/ States!View(States!ApplyStateChange(rs, c), c.key, c.from) = {c.value}
         \/ c.order # 0 /\ \E i \in States!ActiveRows(rs, c.key, c.from) :
              rs[i].from = c.from /\ rs[i].order > c.order
         \/ States!Rewrites(rs, c) /\ States!HasTwin(rs, States!SameScene(rs, c.key, c.from))
<1> DEFINE new == States!ApplyStateChange(rs, c)
           active == States!ActiveRows(new, c.key, c.from)
<1>1. StateRows(new) /\ c \in States!Row
  BY ApplyKeepsRows DEF ChangeOK
<1>2. c.from \in Nat /\ c.from \in live /\ (c.to = 0 \/ (c.to \in live /\ c.from < c.to)) /\ c.order \in Nat
  BY <1>1 DEF ChangeOK, States!WindowOK, States!Scenes, States!StatesAssumption, States!NoScene, States!Row
<1>3. active \in SUBSET DOMAIN new
  BY DEF States!ActiveRows
<1>4. ASSUME NEW i, IsLatest(new, active, i), new[i].value = c.value
      PROVE  States!View(new, c.key, c.from) = {c.value}
  <2> HIDE DEF new
  <2>1. States!Latest(new, active) = i /\ active # {}
    BY <1>1, <1>3, <1>4, OneLatest DEF IsLatest
  <2>2. States!Selected(new, c.key, c.from) = {i}
    BY <2>1 DEF States!Selected
  <2> QED
    BY <1>4, <2>2 DEF States!View
<1>5. CASE States!Rewrites(rs, c)
  <2>1. PICK i \in DOMAIN rs :
           /\ i = States!SameScene(rs, c.key, c.from)
           /\ IsHighest(rs, Here(rs, c.key, c.from), i)
           /\ rs[i].key = c.key /\ rs[i].from = c.from /\ States!ActiveAt(rs[i], c.from)
           /\ new = [rs EXCEPT ![i] = [rs[i] EXCEPT !.value = c.value, !.to = c.to]]
    BY <1>5, Rewritten
  <2> HIDE DEF new
  <2>2. /\ DOMAIN new = DOMAIN rs /\ \A j \in DOMAIN rs \ {i} : new[j] = rs[j]
        /\ new[i].key = c.key /\ new[i].from = c.from /\ new[i].to = c.to /\ new[i].value = c.value
        /\ new[i].order = rs[i].order
    <3>1. rs[i] \in States!Row
      BY RowIs
    <3> QED
      BY <2>1, <3>1, RewrittenRows DEF States!Row
  <2>3. i \in active
    BY <1>2, <2>1, <2>2 DEF States!ActiveRows, States!ActiveAt, States!NoScene
  <2>4. SUFFICES ASSUME ~States!HasTwin(rs, i)
                 PROVE  States!View(new, c.key, c.from) = {c.value}
    BY <1>5, <2>1 DEF new
  <2>5. IsLatest(new, active, i)
    <3> SUFFICES ASSUME NEW j \in active, j # i PROVE States!After(new, i, j)
      BY <2>3 DEF IsLatest
    <3>1. j \in DOMAIN rs /\ new[j] = rs[j] /\ j \in States!ActiveRows(rs, c.key, c.from)
      BY <2>2 DEF States!ActiveRows
    <3>2. /\ rs[j].from <= c.from /\ rs[j].from \in Nat /\ rs[j].order \in Nat /\ rs[i].order \in Nat
          /\ i \in Nat /\ j \in Nat
      BY <3>1, <2>1, RowIs DEF States!ActiveRows, States!ActiveAt
    <3>3. CASE rs[j].from = c.from
      <4>1. rs[j].order <= rs[i].order
        BY <2>1, <3>1, <3>2, <3>3 DEF IsHighest, Here
      <4>2. rs[j].order # rs[i].order
        BY <2>1, <2>4, <3>1, <3>3 DEF States!HasTwin
      <4> QED
        BY <2>2, <3>1, <3>2, <3>3, <4>1, <4>2 DEF States!After
    <3>4. CASE rs[j].from # c.from
      BY <1>2, <2>2, <3>1, <3>2, <3>4 DEF States!After
    <3> QED
      BY <3>3, <3>4
  <2> QED
    BY <1>4, <2>2, <2>5
<1>6. CASE ~States!Rewrites(rs, c)
  <2>1. new = Append(States!Closed(rs, c), c)
    BY <1>6 DEF States!ApplyStateChange
  <2> DEFINE n == Len(rs) + 1
  <2> HIDE DEF new
  <2>2. /\ DOMAIN new = DOMAIN rs \cup {n} /\ new[n] = c
        /\ \A i \in DOMAIN rs : new[i] = IF Closes(rs, c, i) THEN [rs[i] EXCEPT !.to = c.from] ELSE rs[i]
    BY <2>1, AddedRow
  <2>3. n \in active
    BY <1>2, <2>2 DEF States!ActiveRows, States!ActiveAt, States!NoScene
  <2>4. \A j \in active \ {n} : j \in DOMAIN rs /\ j \in States!ActiveRows(rs, c.key, c.from)
                                /\ new[j] = rs[j] /\ rs[j].from = c.from
    <3> SUFFICES ASSUME NEW j \in active \ {n}
                 PROVE  j \in DOMAIN rs /\ j \in States!ActiveRows(rs, c.key, c.from)
                        /\ new[j] = rs[j] /\ rs[j].from = c.from
      OBVIOUS
    <3>1. j \in DOMAIN rs /\ new[j].key = c.key /\ States!ActiveAt(new[j], c.from)
      BY <2>2 DEF States!ActiveRows
    <3>2. rs[j] \in States!Row
      BY <3>1, RowIs
    <3>3. ~Closes(rs, c, j)
      <4>1. SUFFICES ASSUME Closes(rs, c, j) PROVE FALSE
        OBVIOUS
      <4>2. new[j].to = c.from
        BY <2>2, <3>1, <3>2, <4>1 DEF States!Row
      <4> QED
        BY <1>2, <3>1, <4>2 DEF States!ActiveAt, States!NoScene, States!Scenes, States!StatesAssumption
    <3>4. new[j] = rs[j]
      BY <2>2, <3>1, <3>3
    <3> QED
      BY <3>1, <3>3, <3>4 DEF Closes, States!ActiveRows
  <2>5. CASE \E j \in active \ {n} : rs[j].order > c.order
    <3>1. c.order # 0
      <4>1. PICK j \in active \ {n} : j \in States!ActiveRows(rs, c.key, c.from) /\ rs[j].from = c.from
        BY <2>4, <2>5
      <4> QED
        BY <1>6, <4>1 DEF States!Rewrites, States!NoOrder
    <3> QED
      BY <2>4, <2>5, <3>1
  <2>6. CASE ~ \E j \in active \ {n} : rs[j].order > c.order
    <3>1. IsLatest(new, active, n)
      <4> SUFFICES ASSUME NEW j \in active \ {n} PROVE States!After(new, n, j)
        BY <2>3 DEF IsLatest
      <4>1. j \in 1..Len(rs) /\ rs[j].order \in Nat /\ rs[j].from = c.from /\ new[j] = rs[j]
        BY <2>4, RowIs
      <4>2. rs[j].order <= c.order /\ n > j
        BY <1>2, <2>6, <4>1
      <4> QED
        BY <1>2, <2>2, <4>1, <4>2 DEF States!After
    <3>2. new[n].value = c.value
      BY <2>2
    <3> QED
      BY <1>4, <3>1, <3>2 DEF new
  <2> QED
    BY <2>5, <2>6
<1> QED
  BY <1>5, <1>6

LEMMA ApplyKeepsApart ==
  ASSUME States!StatesAssumption, NEW rs, StateRows(rs), NEW c, ChangeOK(c), live \subseteq States!Scenes,
         NEW k \in SingleValue, Apart(rs, k), k = c.key => States!Follows(rs, c)
  PROVE  Apart(States!ApplyStateChange(rs, c), k)
<1> DEFINE new == States!ApplyStateChange(rs, c)
<1>1. StateRows(new) /\ c \in States!Row
  BY ApplyKeepsRows DEF ChangeOK
<1>2. /\ c.from \in Nat /\ c.from \in live /\ c.from # 0 /\ c.order \in Nat /\ c.to \in Nat
      /\ c.to = 0 \/ (c.to \in live /\ c.from < c.to)
  BY <1>1 DEF ChangeOK, States!WindowOK, States!Scenes, States!StatesAssumption, States!NoScene, States!Row
<1>3. CASE k # c.key
  BY <1>1, <1>3, OtherKeys, SameKey
<1>4. ASSUME k = c.key, States!Rewrites(rs, c)
      PROVE  Apart(new, k)
  <2>1. PICK i \in DOMAIN rs :
           /\ IsHighest(rs, Here(rs, c.key, c.from), i)
           /\ rs[i].key = c.key /\ rs[i].from = c.from /\ States!ActiveAt(rs[i], c.from)
           /\ new = [rs EXCEPT ![i] = [rs[i] EXCEPT !.value = c.value, !.to = c.to]]
    BY <1>4, Rewritten
  <2> HIDE DEF new
  <2>2. /\ DOMAIN new = DOMAIN rs /\ \A j \in DOMAIN rs \ {i} : new[j] = rs[j]
        /\ new[i].key = c.key /\ new[i].from = c.from /\ new[i].to = c.to
        /\ new[i].order = rs[i].order
    <3>1. rs[i] \in States!Row
      BY RowIs
    <3> QED
      BY <2>1, <3>1, RewrittenRows DEF States!Row
  <2>3. ASSUME NEW j \in DOMAIN rs, j # i, rs[j].key = k
        PROVE  ~States!Overlap(new, i, j) /\ ~States!Overlap(new, j, i)
    <3>1. ~States!Overlap(rs, i, j) /\ ~States!Overlap(rs, j, i)
      BY <1>4, <2>1, <2>3 DEF Apart
    <3>2. new[j] = rs[j] /\ rs[j].from \in Nat /\ rs[j].to \in Nat /\ rs[j].order \in Nat
      BY <2>2, <2>3, RowIs
    <3>3. rs[j].from <= c.from
      BY <1>2, <1>4, <2>3, <3>2 DEF States!Follows
    <3>4. rs[i].to = 0 \/ (rs[i].to \in live /\ c.from < rs[i].to)
      BY <2>1 DEF States!ActiveAt, States!NoScene
    <3>5. rs[i].from \in live /\ rs[i].to \in Nat /\ rs[i].order \in Nat
      BY <1>2, <2>1, RowIs
    <3>6. ~States!Overlap(new, i, j)
      <4>1. SUFFICES ASSUME States!Overlap(new, i, j) PROVE FALSE
        OBVIOUS
      <4>2. /\ ~(c.from = rs[j].from /\ rs[i].order # rs[j].order)
            /\ rs[j].from \in live /\ (rs[j].to \in live \/ rs[j].to = 0)
            /\ rs[j].to = 0 \/ c.from < rs[j].to
        BY <2>2, <3>2, <4>1 DEF States!Overlap, States!NoScene
      <4>3. States!Overlap(rs, i, j)
        BY <1>2, <1>4, <2>1, <2>3, <3>2, <3>3, <3>4, <3>5, <4>2 DEF States!Overlap, States!NoScene
      <4> QED
        BY <3>1, <4>3
    <3>7. ~States!Overlap(new, j, i)
      <4>1. States!Overlap(new, j, i) => States!Overlap(new, i, j)
        BY DEF States!Overlap
      <4> QED
        BY <3>6, <4>1
    <3> QED
      BY <3>6, <3>7
  <2> SUFFICES ASSUME NEW j \in DOMAIN rs, NEW l \in DOMAIN rs, j # l, new[j].key = k, new[l].key = k
               PROVE  ~States!Overlap(new, j, l)
    BY <2>2 DEF Apart
  <2>4. CASE j = i
    BY <2>2, <2>3, <2>4
  <2>5. CASE l = i
    BY <2>2, <2>3, <2>5
  <2>6. CASE j # i /\ l # i
    <3>1. new[j] = rs[j] /\ new[l] = rs[l]
      BY <2>2, <2>6
    <3>2. ~States!Overlap(rs, j, l)
      BY <3>1 DEF Apart
    <3>3. \A x \in {j, l} : new[x] = rs[x]
      BY <3>1
    <3> QED
      BY <3>1, <3>2, <3>3, Zenon DEF States!Overlap
  <2> QED
    BY <2>4, <2>5, <2>6
<1>5. ASSUME k = c.key, ~States!Rewrites(rs, c)
      PROVE  Apart(new, k)
  <2>1. new = Append(States!Closed(rs, c), c)
    BY <1>5 DEF States!ApplyStateChange
  <2> DEFINE n == Len(rs) + 1
  <2> HIDE DEF new
  <2>2. /\ DOMAIN new = DOMAIN rs \cup {n} /\ new[n] = c
        /\ \A i \in DOMAIN rs : new[i] = IF Closes(rs, c, i) THEN [rs[i] EXCEPT !.to = c.from] ELSE rs[i]
    BY <2>1, AddedRow
  <2>3. \A i \in DOMAIN rs :
          /\ new[i].key = rs[i].key /\ new[i].from = rs[i].from /\ new[i].order = rs[i].order
          /\ new[i].to = IF Closes(rs, c, i) THEN c.from ELSE rs[i].to
    <3> SUFFICES ASSUME NEW i \in DOMAIN rs
                 PROVE  /\ new[i].key = rs[i].key /\ new[i].from = rs[i].from /\ new[i].order = rs[i].order
                        /\ new[i].to = IF Closes(rs, c, i) THEN c.from ELSE rs[i].to
      OBVIOUS
    <3>1. rs[i] \in States!Row
      BY RowIs
    <3> QED
      BY <2>2, <3>1 DEF States!Row
  <2>4. ASSUME NEW j \in DOMAIN rs, rs[j].key = k
        PROVE  ~States!Overlap(new, n, j) /\ ~States!Overlap(new, j, n)
    <3>1. rs[j].from \in Nat /\ rs[j].to \in Nat /\ rs[j].order \in Nat /\ (rs[j].to # 0 => rs[j].from < rs[j].to)
      BY <2>4, RowIs
    <3>2. \/ rs[j].from < c.from
          \/ rs[j].from = c.from /\ (rs[j].order <= c.order \/ c.order = 0)
      BY <1>5, <2>4 DEF States!Follows, States!NoOrder
    <3>3. ~States!Overlap(new, n, j)
      <4>1. SUFFICES ASSUME States!Overlap(new, n, j) PROVE FALSE
        OBVIOUS
      <4>2. /\ ~(c.from = rs[j].from /\ c.order # rs[j].order)
            /\ rs[j].from \in live /\ (new[j].to \in live \/ new[j].to = 0)
            /\ new[j].to = 0 \/ c.from < new[j].to
        BY <2>2, <2>3, <4>1 DEF States!Overlap, States!NoScene
      <4>3. ~Closes(rs, c, j)
        BY <1>2, <2>3, <4>2
      <4>4. States!ActiveAt(rs[j], c.from)
        BY <1>2, <2>3, <3>1, <3>2, <4>2, <4>3 DEF States!ActiveAt, States!NoScene
      <4>5. rs[j].from = c.from /\ rs[j].order = c.order
        BY <1>5, <2>4, <4>2, <4>3, <4>4 DEF Closes
      <4>6. j \in Here(rs, c.key, c.from)
        BY <1>5, <2>4, <4>4, <4>5 DEF Here, States!ActiveRows
      <4> DEFINE top == States!SameScene(rs, c.key, c.from)
      <4>7. IsHighest(rs, Here(rs, c.key, c.from), top)
        BY <4>6, TargetIs
      <4> HIDE DEF top
      <4>8. /\ top \in DOMAIN rs /\ rs[top].key = c.key /\ rs[top].from = c.from
            /\ rs[top].order \in Nat /\ rs[j].order <= rs[top].order
        <5>1. top \in Here(rs, c.key, c.from)
          BY <4>7 DEF IsHighest
        <5>2. top \in DOMAIN rs /\ rs[top].key = c.key /\ rs[top].from = c.from
          BY <5>1 DEF Here, States!ActiveRows
        <5>3. rs[top].order \in Nat
          BY <5>2, RowIs
        <5> QED
          BY <3>1, <4>6, <4>7, <5>2, <5>3 DEF IsHighest
      <4>9. c.order # 0 /\ c.order # rs[top].order
        BY <1>5, <4>6 DEF States!Rewrites, States!NoOrder, Here, top
      <4>10. rs[top].order <= c.order
        BY <1>2, <1>5, <4>8, <4>9 DEF States!Follows, States!NoOrder
      <4> QED
        BY <1>2, <4>5, <4>8, <4>9, <4>10
    <3>4. States!Overlap(new, j, n) => States!Overlap(new, n, j)
      BY DEF States!Overlap
    <3> QED
      BY <3>3, <3>4
  <2>5. ASSUME NEW j \in DOMAIN rs, NEW l \in DOMAIN rs, j # l, rs[j].key = k, rs[l].key = k
        PROVE  ~States!Overlap(new, j, l)
    <3>1. SUFFICES ASSUME States!Overlap(new, j, l) PROVE FALSE
      OBVIOUS
    <3>2. \A i \in {j, l} : rs[i].from \in Nat /\ rs[i].to \in Nat
      BY <2>5, RowIs
    <3>3. \A i \in {j, l} : Closes(rs, c, i) => /\ rs[i].to \in live \cup {0}
                                                 /\ (rs[i].to = 0 \/ c.from < rs[i].to)
      BY DEF Closes, States!ActiveAt, States!NoScene
    <3>4. /\ rs[j].key = rs[l].key /\ ~(rs[j].from = rs[l].from /\ rs[j].order # rs[l].order)
          /\ rs[j].from \in live /\ rs[l].from \in live
          /\ new[j].to \in live \cup {0} /\ new[l].to \in live \cup {0}
          /\ (new[l].to = 0 \/ rs[j].from < new[l].to)
          /\ (new[j].to = 0 \/ rs[l].from < new[j].to)
      BY <2>3, <2>5, <3>1 DEF States!Overlap, States!NoScene
    <3>5. rs[j].to \in live \cup {0} /\ rs[l].to \in live \cup {0}
      BY <2>3, <3>3, <3>4
    <3>6. (rs[l].to = 0 \/ rs[j].from < rs[l].to) /\ (rs[j].to = 0 \/ rs[l].from < rs[j].to)
      BY <1>2, <2>3, <3>2, <3>3, <3>4
    <3>7. States!Overlap(rs, j, l)
      BY <3>4, <3>5, <3>6 DEF States!Overlap, States!NoScene
    <3> QED
      BY <2>5, <3>7 DEF Apart
  <2> SUFFICES ASSUME NEW j \in DOMAIN new, NEW l \in DOMAIN new, j # l, new[j].key = k, new[l].key = k
               PROVE  ~States!Overlap(new, j, l)
    BY DEF Apart
  <2> QED
    BY <2>2, <2>3, <2>4, <2>5
<1> QED
  BY <1>3, <1>4, <1>5
-----------------------------------------------------------------------------
(* A sequence of accepted proposals, applied one by one. *)

LEMMA FiniteIs == \A S : States!IsFiniteSet(S) <=> IsFiniteSet(S)
BY Zenon DEF States!IsFiniteSet, IsFiniteSet

LEMMA CountIs == \A S : States!Cardinality(S) = Cardinality(S)
BY Zenon DEF States!Cardinality, Cardinality, States!IsFiniteSet, IsFiniteSet

LEMMA SequenceIs ==
  ASSUME States!StatesAssumption, NEW S \in SUBSET Proposed, NEW seq \in States!Sorted(S)
  PROVE  Len(seq) \in Nat /\ \A i \in 1..Len(seq) : seq[i] \in S
<1>1. IsFiniteSet(S)
  <2>1. IsFiniteSet(Proposed)
    BY FiniteIs, Zenon DEF States!StatesAssumption
  <2> QED
    BY <2>1, FS_Subset
<1>2. States!Cardinality(S) \in Nat
  BY <1>1, CountIs, FS_CardinalityType
<1>3. seq \in States!SetToSeqs(S)
  BY DEF States!Sorted
<1>4. seq \in [1..States!Cardinality(S) -> S]
  BY <1>3, Zenon DEF States!SetToSeqs
<1>5. seq \in Seq(S) /\ Len(seq) = States!Cardinality(S)
  BY <1>2, <1>4
<1> QED
  BY <1>2, <1>4, <1>5

Accepted(p) == States!Change(p, p.scene, States!NoScene)

\* The rows and the keys in order after one more proposal.
OneMore(r, p) ==
  [rows |-> States!ApplyStateChange(r.rows, Accepted(p)),
   inOrder |-> States!InOrderAfter(r.rows, r.inOrder, Accepted(p))]

AreAfter(f, n, seq) ==
  f = [m \in 0..n |-> IF m = 0 THEN [rows |-> rows, inOrder |-> inOrder] ELSE OneMore(f[m - 1], seq[m])]

\* There is such a function for every length.
LEMMA AfterExists ==
  ASSUME NEW n \in Nat, NEW seq
  PROVE  \E f : AreAfter(f, n, seq)
<1> DEFINE Bad == {k \in Nat : ~ \E f : AreAfter(f, k, seq)}
           start == [rows |-> rows, inOrder |-> inOrder]
<1>1. SUFFICES ASSUME Bad # {} PROVE FALSE
  OBVIOUS
<1>2. PICK k \in Bad : \A l \in Bad : ~(<<l, k>> \in OpToRel(<, Nat))
  <2>1. Bad \in SUBSET Nat
    OBVIOUS
  <2> HIDE DEF Bad
  <2> QED
    BY <1>1, <2>1, NatLessThanWellFounded, WFMin
<1>3. k \in Nat /\ ~ \E f : AreAfter(f, k, seq)
  BY <1>2
<1>4. CASE k = 0
  <2> DEFINE f == [m \in 0..0 |-> start]
  <2>1. \A m \in 0..0 : m = 0
    OBVIOUS
  <2>2. AreAfter(f, 0, seq)
    BY <2>1 DEF AreAfter
  <2> QED
    BY <1>3, <1>4, <2>2
<1>5. CASE k # 0
  <2>1. k - 1 \in Nat
    BY <1>3, <1>5
  <2>2. <<k - 1, k>> \in OpToRel(<, Nat)
    BY <1>3, <2>1 DEF OpToRel
  <2>3. PICK f : AreAfter(f, k - 1, seq)
    BY <1>2, <2>1, <2>2
  <2> DEFINE g == [m \in 0..k |-> IF m = k THEN OneMore(f[k - 1], seq[k]) ELSE f[m]]
  <2> HIDE DEF start
  <2>4. ASSUME NEW m \in 0..k
        PROVE  g[m] = IF m = 0 THEN start ELSE OneMore(g[m - 1], seq[m])
    <3>1. CASE m = k
      <4>1. k - 1 \in 0..k /\ k - 1 # k
        BY <1>3, <2>1
      <4>2. g[k] = OneMore(f[k - 1], seq[k]) /\ g[k - 1] = f[k - 1]
        BY <1>3, <4>1
      <4> QED
        BY <1>5, <3>1, <4>2
    <3>2. CASE m # k
      <4>1. m \in 0..(k - 1) /\ g[m] = f[m]
        BY <1>3, <3>2
      <4>2. f[m] = IF m = 0 THEN start ELSE OneMore(f[m - 1], seq[m])
        BY <4>1, <2>3 DEF AreAfter, start
      <4>3. CASE m = 0
        BY <4>1, <4>2, <4>3
      <4>4. CASE m # 0
        <5>1. m - 1 \in 0..k /\ m - 1 # k
          BY <1>3, <4>1, <4>4
        <5>2. g[m - 1] = f[m - 1]
          BY <5>1
        <5> QED
          BY <4>1, <4>2, <4>4, <5>2
      <4> QED
        BY <4>3, <4>4
    <3> QED
      BY <3>1, <3>2
  <2>5. g = [m \in 0..k |-> g[m]]
    OBVIOUS
  <2>6. AreAfter(g, k, seq)
    <3> HIDE DEF g
    <3> QED
      BY <2>4, <2>5 DEF AreAfter, start
  <2> QED
    BY <1>3, <2>6
<1> QED
  BY <1>4, <1>5

LEMMA SequenceAfter ==
  ASSUME NEW seq, Len(seq) \in Nat
  PROVE  \E f : /\ f[0] = [rows |-> rows, inOrder |-> inOrder]
                /\ \A i \in 1..Len(seq) : f[i] = OneMore(f[i - 1], seq[i])
                /\ States!ApplySequence(seq) = f[Len(seq)]
<1> DEFINE f == CHOOSE g : AreAfter(g, Len(seq), seq)
<1>1. States!ApplySequence(seq) = f[Len(seq)]
  BY Zenon DEF States!ApplySequence, AreAfter, OneMore, Accepted
<1>2. AreAfter(f, Len(seq), seq)
  BY AfterExists, Zenon
<1> HIDE DEF f
<1>3. 0 \in 0..Len(seq) /\ \A i \in 1..Len(seq) : i \in 0..Len(seq) /\ i # 0
  OBVIOUS
<1>4. /\ f[0] = [rows |-> rows, inOrder |-> inOrder]
      /\ \A i \in 1..Len(seq) : f[i] = OneMore(f[i - 1], seq[i])
  BY <1>2, <1>3 DEF AreAfter
<1> QED
  BY <1>1, <1>4, Zenon

\* What holds after any of the proposals of S.
Reached(r, S) ==
  /\ StateRows(r.rows)
  /\ r.inOrder \subseteq inOrder
  /\ \A k \in r.inOrder \cap SingleValue : Apart(r.rows, k)
  /\ \A k, s : s \in live /\ (\A p \in S : s < p.scene)
       => States!View(r.rows, k, s) = States!View(rows, k, s)
  /\ \A k : (\A p \in S : p.key # k) => States!RowsOf(r.rows, k) = States!RowsOf(rows, k)

LEMMA OneMoreReached ==
  ASSUME States!StatesAssumption, live \subseteq States!Scenes, inOrder \subseteq Keys,
         NEW S \in SUBSET Proposed, \A p \in S : p.scene \in live,
         NEW r, Reached(r, S), NEW p \in S
  PROVE  Reached(OneMore(r, p), S)
<1> DEFINE c == Accepted(p)
           next == States!ApplyStateChange(r.rows, c)
<1>1. /\ c.key = p.key /\ c.value = p.value /\ c.from = p.scene /\ c.to = 0 /\ c.order = p.order
      /\ ChangeOK(c)
  <2>1. p \in [scene : States!Scenes, key : Keys, value : Values, order : Nat, kind : States!Kinds]
    BY DEF States!StatesAssumption
  <2>2. c = [key |-> p.key, value |-> p.value, from |-> p.scene, to |-> 0, order |-> p.order]
    BY DEF Accepted, States!Change, States!NoScene
  <2> HIDE DEF c
  <2>3. c \in States!Row
    BY <2>1, <2>2 DEF States!Row, States!NoScene
  <2> QED
    BY <2>2, <2>3 DEF ChangeOK, States!WindowOK, States!NoScene
<1>2. StateRows(r.rows)
  BY DEF Reached
<1> HIDE DEF c
<1>3. StateRows(next)
  BY <1>1, <1>2, ApplyKeepsRows
<1> DEFINE order == States!InOrderAfter(r.rows, r.inOrder, c)
<1>4. order \subseteq r.inOrder /\ (c.key \in order => States!Follows(r.rows, c))
  BY DEF States!InOrderAfter
<1>5. \A k \in order \cap SingleValue : Apart(next, k)
  <2> SUFFICES ASSUME NEW k \in order \cap SingleValue PROVE Apart(next, k)
    OBVIOUS
  <2>1. Apart(r.rows, k) /\ (k = c.key => States!Follows(r.rows, c))
    BY <1>4 DEF Reached
  <2> QED
    BY <1>1, <1>2, <2>1, ApplyKeepsApart
<1>6. ASSUME NEW k, NEW s, s \in live, \A q \in S : s < q.scene
      PROVE  States!View(next, k, s) = States!View(rows, k, s)
  <2>1. States!View(next, k, s) = States!View(r.rows, k, s)
    BY <1>1, <1>2, <1>6, ViewBefore
  <2> QED
    BY <1>6, <2>1 DEF Reached
<1>7. ASSUME NEW k, \A q \in S : q.key # k
      PROVE  States!RowsOf(next, k) = States!RowsOf(rows, k)
  <2>1. k # c.key
    BY <1>1, <1>7
  <2>2. /\ {i \in DOMAIN next : next[i].key = k} = {i \in DOMAIN r.rows : r.rows[i].key = k}
        /\ \A i \in DOMAIN r.rows : r.rows[i].key = k => next[i] = r.rows[i]
    BY <1>1, <1>2, <2>1, OtherKeys
  <2> HIDE DEF next
  <2>3. States!RowsOf(next, k) = States!RowsOf(r.rows, k)
    BY <1>2, <1>3, <2>2, SameKey
  <2> QED
    BY <1>7, <2>3 DEF Reached
<1>8. OneMore(r, p).rows = next /\ OneMore(r, p).inOrder = order
  BY DEF OneMore, c
<1>9. r.inOrder \subseteq inOrder
  BY DEF Reached
<1> HIDE DEF next, order
<1> QED
  BY <1>3, <1>4, <1>5, <1>6, <1>7, <1>8, <1>9 DEF Reached

LEMMA SequenceReached ==
  ASSUME States!StatesAssumption, live \subseteq States!Scenes, inOrder \subseteq Keys,
         NEW S \in SUBSET Proposed, \A p \in S : p.scene \in live,
         Reached([rows |-> rows, inOrder |-> inOrder], S), NEW seq \in States!Sorted(S)
  PROVE  Reached(States!ApplySequence(seq), S)
<1>1. Len(seq) \in Nat /\ \A i \in 1..Len(seq) : seq[i] \in S
  BY SequenceIs
<1>2. PICK f : /\ f[0] = [rows |-> rows, inOrder |-> inOrder]
               /\ \A i \in 1..Len(seq) : f[i] = OneMore(f[i - 1], seq[i])
               /\ States!ApplySequence(seq) = f[Len(seq)]
  BY <1>1, SequenceAfter
<1> DEFINE Bad == {i \in 0..Len(seq) : ~Reached(f[i], S)}
<1>3. SUFFICES ASSUME Bad # {} PROVE FALSE
  <2>1. Len(seq) \in 0..Len(seq)
    BY <1>1
  <2> QED
    BY <1>2, <2>1
<1>4. PICK k \in Bad : \A l \in Bad : ~(<<l, k>> \in OpToRel(<, Nat))
  <2>1. Bad \in SUBSET Nat
    OBVIOUS
  <2> HIDE DEF Bad
  <2> QED
    BY <1>3, <2>1, NatLessThanWellFounded, WFMin
<1>5. k \in 0..Len(seq) /\ ~Reached(f[k], S) /\ k # 0
  BY <1>2, <1>4
<1>6. k \in 1..Len(seq) /\ k - 1 \in 0..Len(seq) /\ <<k - 1, k>> \in OpToRel(<, Nat)
  BY <1>1, <1>5 DEF OpToRel
<1>7. Reached(f[k - 1], S)
  BY <1>4, <1>6
<1>8. Reached(OneMore(f[k - 1], seq[k]), S)
  BY <1>1, <1>6, <1>7, OneMoreReached
<1> QED
  BY <1>2, <1>5, <1>6, <1>8
-----------------------------------------------------------------------------
(* The rows after each handler. *)

\* The rows are sound, what is still in order is apart, and a scene whose view changed
\* is audited.
RowsStep(new, order, audited) ==
  /\ StateRows(new) /\ order \subseteq inOrder
  /\ \A k \in order \cap SingleValue : Apart(new, k)
  /\ \A k, s : s \in live /\ s \notin audited => States!View(new, k, s) = States!View(rows, k, s)

LEMMA RowsNow ==
  ASSUME States!StatesAssumption, StatesInv
  PROVE  /\ StateRows(rows) /\ live \subseteq States!Scenes /\ inOrder \subseteq Keys
         /\ \A k \in inOrder \cap SingleValue : Apart(rows, k)
<1>1. StateRows(rows) /\ live \subseteq States!Scenes /\ inOrder \subseteq Keys
  BY DEF StatesInv, States!TypeOK, StateRows, States!NoScene
<1>2. \A k \in inOrder \cap SingleValue : Apart(rows, k)
  BY Zenon DEF StatesInv, States!InOrderStatesAreDisjoint, Apart
<1> QED
  BY <1>1, <1>2

\* What is not audited comes before the scene the audit starts at.
LEMMA NotAudited ==
  ASSUME States!StatesAssumption, StatesInv, NEW start \in live, NEW s \in live,
         s \notin States!AuditFrom(start)
  PROVE  s < start
<1>1. s \in Nat /\ start \in Nat
  BY RowsNow, SceneIs
<1> QED
  BY <1>1 DEF States!AuditFrom

LEMMA ApplyStep ==
  ASSUME States!StatesAssumption, StatesInv, NEW c, ChangeOK(c)
  PROVE  RowsStep(States!ApplyStateChange(rows, c), States!InOrderAfter(rows, inOrder, c),
                  States!AuditFrom(c.from))
<1> DEFINE new == States!ApplyStateChange(rows, c)
           order == States!InOrderAfter(rows, inOrder, c)
<1>1. StateRows(new)
  BY RowsNow, ApplyKeepsRows
<1>2. order \subseteq inOrder /\ (c.key \in order => States!Follows(rows, c))
  BY DEF States!InOrderAfter
<1>3. \A k \in order \cap SingleValue : Apart(new, k)
  <2> SUFFICES ASSUME NEW k \in order \cap SingleValue PROVE Apart(new, k)
    OBVIOUS
  <2>1. Apart(rows, k) /\ (k = c.key => States!Follows(rows, c))
    BY <1>2, RowsNow
  <2> QED
    BY <2>1, RowsNow, ApplyKeepsApart
<1>4. ASSUME NEW k, NEW s \in live, s \notin States!AuditFrom(c.from)
      PROVE  States!View(new, k, s) = States!View(rows, k, s)
  <2>1. s < c.from
    BY <1>4, NotAudited DEF ChangeOK, States!WindowOK
  <2> QED
    BY <2>1, RowsNow, ViewBefore
<1> HIDE DEF new, order
<1>5. RowsStep(new, order, States!AuditFrom(c.from))
  BY <1>1, <1>2, <1>3, <1>4 DEF RowsStep
<1> QED
  BY <1>5 DEF new, order

LEMMA SequenceStep ==
  ASSUME States!StatesAssumption, StatesInv, NEW S \in SUBSET Proposed, \A p \in S : p.scene \in live,
         NEW seq \in States!Sorted(S)
  PROVE  /\ RowsStep(States!ApplySequence(seq).rows, States!ApplySequence(seq).inOrder,
                     UNION {States!AuditFrom(p.scene) : p \in S})
         /\ \A k : (\A p \in S : p.key # k)
              => States!RowsOf(States!ApplySequence(seq).rows, k) = States!RowsOf(rows, k)
<1> DEFINE start == [rows |-> rows, inOrder |-> inOrder]
           r == States!ApplySequence(seq)
           audited == UNION {States!AuditFrom(p.scene) : p \in S}
<1>1. Reached(start, S)
  <2>1. start.rows = rows /\ start.inOrder = inOrder
    OBVIOUS
  <2> HIDE DEF start
  <2> QED
    BY <2>1, RowsNow DEF Reached
<1>2. Reached(r, S)
  BY <1>1, RowsNow, SequenceReached
<1> HIDE DEF r
<1>3. ASSUME NEW k, NEW s, s \in live, s \notin audited
      PROVE  States!View(r.rows, k, s) = States!View(rows, k, s)
  <2>1. ASSUME NEW p \in S PROVE s < p.scene
    <3>1. s \notin States!AuditFrom(p.scene)
      BY <1>3
    <3> QED
      BY <1>3, <3>1, NotAudited
  <2> QED
    BY <1>2, <1>3, <2>1 DEF Reached
<1> HIDE DEF audited
<1>4. RowsStep(r.rows, r.inOrder, audited)
  BY <1>2, <1>3 DEF Reached, RowsStep
<1>5. \A k : (\A p \in S : p.key # k) => States!RowsOf(r.rows, k) = States!RowsOf(rows, k)
  BY <1>2 DEF Reached
<1> QED
  BY <1>4, <1>5 DEF r, audited

\* A row that is active neither before nor after shows nothing.
LEMMA OneRowHidden ==
  ASSUME States!StatesAssumption, NEW rs, StateRows(rs), NEW other, StateRows(other),
         DOMAIN other = DOMAIN rs, NEW i \in DOMAIN rs, \A j \in DOMAIN rs \ {i} : other[j] = rs[j],
         NEW k, NEW s, ~States!ActiveAt(rs[i], s), ~States!ActiveAt(other[i], s)
  PROVE  States!View(other, k, s) = States!View(rs, k, s)
<1>1. States!ActiveRows(other, k, s) = States!ActiveRows(rs, k, s)
  BY DEF States!ActiveRows
<1>2. \A j \in States!ActiveRows(rs, k, s) : other[j] = rs[j]
  BY DEF States!ActiveRows
<1> QED
  BY <1>1, <1>2, SameView

\* The row at a place is replaced by another.
LEMMA ReplacedRow ==
  ASSUME NEW rs, StateRows(rs), NEW i \in DOMAIN rs, NEW row \in States!Row,
         row.to # 0 => row.from < row.to, NEW new, new = [rs EXCEPT ![i] = row]
  PROVE  /\ DOMAIN new = DOMAIN rs /\ StateRows(new) /\ new[i] = row
         /\ \A j \in DOMAIN rs \ {i} : new[j] = rs[j]
BY DEF StateRows

LEMMA UpdateStep ==
  ASSUME States!StatesAssumption, StatesInv, NEW i \in DOMAIN rows, NEW k \in Keys, NEW e \in Edits,
         States!UpdateState(i, k, e)
  PROVE  RowsStep(rows', inOrder', step'.audited) /\ live' = live
<1> DEFINE row == [rows[i] EXCEPT !.key = k, !.value = e.value, !.from = e.from, !.to = e.to]
           old == rows[i].from
<1>1. /\ rows[i] \in States!Row /\ e.value \in Values /\ e.from \in States!Scenes
      /\ e.to \in States!Scenes \cup {0}
  <2>1. e \in [value : Values, from : States!Scenes, to : States!Scenes \cup {0}]
    BY DEF States!StatesAssumption, States!NoScene
  <2> QED
    BY <2>1, RowIs, RowsNow
<1>2. /\ row \in States!Row /\ row.key = k /\ row.from = e.from /\ row.to = e.to
  BY <1>1 DEF States!Row, States!NoScene
<1>3. /\ e.from \in live /\ (e.to # 0 => e.from < e.to)
      /\ rows' = [rows EXCEPT ![i] = row] /\ inOrder' = inOrder \ {rows[i].key, k}
      /\ step'.audited = States!AuditFrom(States!AuditStart(old, e.from)) /\ live' = live
  BY DEF States!UpdateState, States!WindowOK, States!ByHand, States!NoScene
<1> HIDE DEF row
<1>4. /\ DOMAIN rows' = DOMAIN rows /\ StateRows(rows') /\ rows'[i] = row
      /\ \A j \in DOMAIN rows \ {i} : rows'[j] = rows[j]
  BY <1>2, <1>3, RowsNow, ReplacedRow
<1>5. ASSUME NEW q \in inOrder' \cap SingleValue PROVE Apart(rows', q)
  <2>1. q \in inOrder /\ q # rows[i].key /\ q # k
    BY <1>3, <1>5
  <2>2. {j \in DOMAIN rows' : rows'[j].key = q} = {j \in DOMAIN rows : rows[j].key = q}
    BY <1>2, <1>4, <2>1
  <2>3. \A j \in DOMAIN rows : rows[j].key = q => rows'[j] = rows[j]
    BY <1>4, <2>1
  <2>4. Apart(rows, q)
    BY <1>5, <2>1, RowsNow
  <2> QED
    BY <1>4, <2>2, <2>3, <2>4, RowsNow, SameKey
<1>6. ASSUME NEW q, NEW s, s \in live, s \notin step'.audited
      PROVE  States!View(rows', q, s) = States!View(rows, q, s)
  <2> DEFINE start == States!AuditStart(old, e.from)
  <2>1. old \in Nat /\ e.from \in Nat /\ s \in Nat
    BY <1>1, <1>6, SceneIs, RowIs, RowsNow
  <2>2. start \in live /\ start <= e.from /\ (old \in live => start <= old)
    BY <1>3, <2>1 DEF States!AuditStart
  <2>3. s < start /\ start \in Nat
    BY <1>3, <1>6, <2>2, NotAudited, RowsNow, SceneIs
  <2> HIDE DEF start
  <2>4. ~States!ActiveAt(rows[i], s) /\ ~States!ActiveAt(rows'[i], s)
    BY <1>2, <1>4, <2>1, <2>2, <2>3 DEF States!ActiveAt
  <2> QED
    BY <1>4, <2>4, OneRowHidden, RowsNow
<1>7. inOrder' \subseteq inOrder
  BY <1>3
<1> QED
  BY <1>3, <1>4, <1>5, <1>6, <1>7 DEF RowsStep

LEMMA KnowledgeStep ==
  ASSUME States!StatesAssumption, StatesInv, NEW c \in Conflicts, States!ApplyKnowledgeUpdate(c)
  PROVE  RowsStep(rows', inOrder', step'.audited) /\ live' = live
<1> DEFINE here == {i \in DOMAIN rows : rows[i].key = c.key /\ rows[i].from = c.scene}
           new == [key |-> c.key, value |-> c.value, from |-> c.scene, to |-> States!NoScene,
                   order |-> States!NoOrder]
<1>1. c.scene \in States!Scenes /\ c.key \in SingleValue /\ c.key \in Keys /\ c.value \in Values
  <2>1. c \in [scene : States!Scenes, key : SingleValue, value : Values] /\ SingleValue \subseteq Keys
    BY DEF States!StatesAssumption
  <2> QED
    BY <2>1
<1>2. c.scene \in live /\ step'.audited = States!AuditFrom(c.scene) /\ live' = live
  BY DEF States!ApplyKnowledgeUpdate, States!ByHand
<1>3. CASE here = {}
  <2>1. /\ rows' = Append(States!Closed(rows, new), new)
        /\ inOrder' = States!InOrderAfter(rows, inOrder, new)
    BY <1>3, Zenon DEF States!ApplyKnowledgeUpdate
  <2>2. ChangeOK(new)
    BY <1>1, <1>2 DEF ChangeOK, States!Row, States!WindowOK, States!NoScene, States!NoOrder
  <2>3. ~States!Rewrites(rows, new)
    BY <1>3 DEF States!Rewrites, States!ActiveRows
  <2>4. rows' = States!ApplyStateChange(rows, new) /\ new.from = c.scene
    BY <2>1, <2>3 DEF States!ApplyStateChange
  <2> HIDE DEF new
  <2> QED
    BY <1>2, <2>1, <2>2, <2>4, ApplyStep
<1>4. CASE here # {}
  <2>1. inOrder' = inOrder /\ \E i \in here : rows' = [rows EXCEPT ![i].value = c.value]
    BY <1>4, Zenon DEF States!ApplyKnowledgeUpdate
  <2>2. PICK i \in here : rows' = [rows EXCEPT ![i].value = c.value]
    BY <2>1
  <2> DEFINE row == [rows[i] EXCEPT !.value = c.value]
  <2>3. i \in DOMAIN rows /\ rows[i].from = c.scene /\ rows' = [rows EXCEPT ![i] = row]
    BY <2>2
  <2>4. rows[i] \in States!Row /\ (rows[i].to # 0 => rows[i].from < rows[i].to)
    BY <2>3, RowIs, RowsNow
  <2>5. /\ row \in States!Row /\ row.key = rows[i].key /\ row.from = rows[i].from
        /\ row.to = rows[i].to /\ row.order = rows[i].order
    BY <1>1, <2>4 DEF States!Row
  <2> HIDE DEF row, here, new
  <2>6. /\ DOMAIN rows' = DOMAIN rows /\ StateRows(rows') /\ rows'[i] = row
        /\ \A j \in DOMAIN rows \ {i} : rows'[j] = rows[j]
    BY <2>3, <2>4, <2>5, RowsNow, ReplacedRow
  <2>7. ASSUME NEW q \in inOrder' \cap SingleValue PROVE Apart(rows', q)
    <3>1. Apart(rows, q)
      BY <2>1, <2>7, RowsNow
    <3>2. \A j \in DOMAIN rows : /\ rows'[j].key = rows[j].key /\ rows'[j].from = rows[j].from
                                 /\ rows'[j].to = rows[j].to /\ rows'[j].order = rows[j].order
      BY <2>5, <2>6
    <3>3. \A j, l \in DOMAIN rows : States!Overlap(rows', j, l) => States!Overlap(rows, j, l)
      BY <3>2 DEF States!Overlap
    <3> QED
      BY <2>6, <3>1, <3>2, <3>3 DEF Apart
  <2>8. ASSUME NEW q, NEW s, s \in live, s \notin step'.audited
        PROVE  States!View(rows', q, s) = States!View(rows, q, s)
    <3>1. s < c.scene /\ s \in Nat /\ c.scene \in Nat
      BY <1>2, <2>8, NotAudited, RowsNow, SceneIs
    <3>2. ~States!ActiveAt(rows[i], s) /\ ~States!ActiveAt(rows'[i], s)
      BY <2>3, <2>5, <2>6, <3>1 DEF States!ActiveAt
    <3>3. i \in DOMAIN rows
      BY <2>3
    <3> QED
      BY <2>6, <3>2, <3>3, OneRowHidden, RowsNow
  <2> QED
    BY <1>2, <2>1, <2>6, <2>7, <2>8 DEF RowsStep
<1> QED
  BY <1>3, <1>4
\* Where a row was before the one at i was removed.
Place(i, j) == IF j < i THEN j ELSE j + 1

LEMMA Joined ==
  ASSUME NEW T, NEW first \in Seq(T), NEW second \in Seq(T)
  PROVE  first \o second \in Seq(T) /\ Len(first \o second) = Len(first) + Len(second)
OBVIOUS

LEMMA RemovedRow ==
  ASSUME NEW T, NEW rs \in Seq(T), NEW i \in 1..Len(rs)
  PROVE  /\ States!RemoveAt(rs, i) \in Seq(T) /\ Len(States!RemoveAt(rs, i)) = Len(rs) - 1
         /\ \A j \in 1..(Len(rs) - 1) : States!RemoveAt(rs, i)[j] = rs[Place(i, j)]
<1> DEFINE before == SubSeq(rs, 1, i - 1)
           after == SubSeq(rs, i + 1, Len(rs))
<1>1. Len(rs) \in Nat /\ i \in Nat /\ 1 <= i /\ i <= Len(rs)
  OBVIOUS
<1>2. /\ before \in Seq(T) /\ Len(before) = i - 1
      /\ \A j \in 1..(i - 1) : before[j] = rs[j]
  BY <1>1
<1>3. /\ after \in Seq(T) /\ Len(after) = Len(rs) - i
      /\ \A j \in 1..(Len(rs) - i) : after[j] = rs[i + j]
  BY <1>1
<1>4. States!RemoveAt(rs, i) = before \o after
  BY DEF States!RemoveAt
<1> HIDE DEF before, after
<1>5. before \o after \in Seq(T) /\ Len(before \o after) = Len(rs) - 1
  <2>0. before \in Seq(T) /\ after \in Seq(T)
    BY <1>2, <1>3
  <2>1. before \o after \in Seq(T)
    BY <2>0, Joined
  <2>2. Len(before \o after) = Len(before) + Len(after)
    BY <2>0, Joined
  <2> QED
    BY <1>1, <1>2, <1>3, <2>1, <2>2
<1>6. ASSUME NEW j \in 1..(Len(rs) - 1)
      PROVE  (before \o after)[j] = rs[Place(i, j)]
  <2>1. CASE j < i
    <3>1. (before \o after)[j] = before[j]
      BY <1>1, <1>2, <1>3, <2>1
    <3>2. before[j] = rs[j]
      BY <1>1, <1>2, <2>1
    <3> QED
      BY <2>1, <3>1, <3>2 DEF Place
  <2>2. CASE ~(j < i)
    <3>1. (before \o after)[j] = after[j - (i - 1)]
      BY <1>1, <1>2, <1>3, <2>2
    <3>2. j - (i - 1) \in 1..(Len(rs) - i) /\ i + (j - (i - 1)) = j + 1
      BY <1>1, <2>2
    <3>3. after[j - (i - 1)] = rs[j + 1]
      BY <1>3, <3>2
    <3> QED
      BY <2>2, <3>1, <3>3 DEF Place
  <2> QED
    BY <2>1, <2>2
<1> QED
  BY <1>4, <1>5, <1>6

LEMMA RemoveStep ==
  ASSUME States!StatesAssumption, StatesInv, NEW i \in DOMAIN rows, States!RemoveState(i)
  PROVE  RowsStep(rows', inOrder', step'.audited) /\ live' = live
<1> DEFINE n == Len(rows)
<1>1. /\ rows' = States!RemoveAt(rows, i) /\ inOrder' = inOrder /\ live' = live
      /\ step'.audited = States!AuditFrom(rows[i].from)
  BY DEF States!RemoveState, States!ByHand
<1>2. rows \in Seq(States!Row) /\ n \in Nat /\ DOMAIN rows = 1..n /\ i \in 1..n
  BY RowsNow DEF StateRows
<1>3. /\ rows' \in Seq(States!Row) /\ Len(rows') = n - 1
      /\ \A j \in 1..(n - 1) : rows'[j] = rows[Place(i, j)]
  BY <1>1, <1>2, RemovedRow
<1> HIDE DEF n
<1>4. DOMAIN rows' = 1..(n - 1)
  BY <1>3
<1>5. /\ \A j \in DOMAIN rows' : Place(i, j) \in DOMAIN rows \ {i}
      /\ \A x \in DOMAIN rows \ {i} : \E j \in DOMAIN rows' : x = Place(i, j)
      /\ \A j, l \in DOMAIN rows' : /\ j # l => Place(i, j) # Place(i, l)
                                    /\ j > l <=> Place(i, j) > Place(i, l)
  <2>1. \A j \in DOMAIN rows' : Place(i, j) \in DOMAIN rows \ {i}
    BY <1>2, <1>4 DEF Place
  <2>2. ASSUME NEW x \in DOMAIN rows \ {i} PROVE \E j \in DOMAIN rows' : x = Place(i, j)
    <3>1. CASE x < i
      <4>1. x \in DOMAIN rows' /\ x = Place(i, x)
        BY <1>2, <1>4, <3>1 DEF Place
      <4> QED
        BY <4>1
    <3>2. CASE x > i
      <4>1. x - 1 \in DOMAIN rows' /\ x = Place(i, x - 1)
        BY <1>2, <1>4, <3>2 DEF Place
      <4> QED
        BY <4>1
    <3> QED
      BY <1>2, <3>1, <3>2
  <2>3. \A j, l \in DOMAIN rows' : /\ j # l => Place(i, j) # Place(i, l)
                                   /\ j > l <=> Place(i, j) > Place(i, l)
    BY <1>2, <1>4 DEF Place
  <2> QED
    BY <2>1, <2>2, <2>3
<1>6. \A j \in DOMAIN rows' : rows'[j] = rows[Place(i, j)]
  BY <1>3, <1>4
<1>7. StateRows(rows')
  <2>1. \A j \in DOMAIN rows' : rows'[j].to # 0 => rows'[j].from < rows'[j].to
    BY <1>5, <1>6, RowsNow DEF StateRows
  <2> QED
    BY <1>3, <2>1 DEF StateRows
<1>8. ASSUME NEW q \in inOrder' \cap SingleValue PROVE Apart(rows', q)
  <2>1. Apart(rows, q)
    BY <1>1, <1>8, RowsNow
  <2> SUFFICES ASSUME NEW j \in DOMAIN rows', NEW l \in DOMAIN rows',
                      rows'[j].key = q, rows'[l].key = q, j # l, States!Overlap(rows', j, l)
               PROVE  FALSE
    BY DEF Apart
  <2> DEFINE x == Place(i, j)
             y == Place(i, l)
  <2>2. x \in DOMAIN rows /\ y \in DOMAIN rows /\ x # y /\ rows'[j] = rows[x] /\ rows'[l] = rows[y]
    BY <1>5, <1>6
  <2> HIDE DEF x, y
  <2>3. States!Overlap(rows, x, y)
    BY <2>2 DEF States!Overlap
  <2> QED
    BY <2>1, <2>2, <2>3 DEF Apart
<1>9. ASSUME NEW q, NEW s, s \in live, s \notin step'.audited
      PROVE  States!View(rows', q, s) = States!View(rows, q, s)
  <2> DEFINE A == States!ActiveRows(rows, q, s)
             B == States!ActiveRows(rows', q, s)
             Sel == States!Selected(rows', q, s)
  <2>1. ~States!ActiveAt(rows[i], s)
    <3>1. CASE rows[i].from \in live
      <4>1. s < rows[i].from /\ s \in Nat /\ rows[i].from \in Nat
        BY <1>1, <1>9, <3>1, NotAudited, RowsNow, SceneIs
      <4> QED
        BY <4>1 DEF States!ActiveAt
    <3>2. CASE rows[i].from \notin live
      BY <3>2 DEF States!ActiveAt
    <3> QED
      BY <3>1, <3>2
  <2>2. /\ \A j \in B : j \in DOMAIN rows' /\ Place(i, j) \in A
        /\ \A x \in A : \E j \in B : x = Place(i, j)
    <3>1. ASSUME NEW j \in B PROVE j \in DOMAIN rows' /\ Place(i, j) \in A
      BY <1>5, <1>6 DEF States!ActiveRows
    <3>2. ASSUME NEW x \in A PROVE \E j \in B : x = Place(i, j)
      <4>1. x \in DOMAIN rows \ {i} /\ rows[x].key = q /\ States!ActiveAt(rows[x], s)
        BY <2>1 DEF States!ActiveRows
      <4>2. PICK j \in DOMAIN rows' : x = Place(i, j)
        BY <1>5, <4>1
      <4>3. j \in B
        BY <1>6, <4>1, <4>2 DEF States!ActiveRows
      <4> QED
        BY <4>2, <4>3
    <3> QED
      BY <3>1, <3>2
  <2>3. A \in SUBSET DOMAIN rows /\ B \in SUBSET DOMAIN rows'
    BY DEF States!ActiveRows
  <2>4. States!Selected(rows, q, s) = IF q \in SingleValue /\ A # {} THEN {States!Latest(rows, A)} ELSE A
    BY DEF States!Selected
  <2>5. Sel = IF q \in SingleValue /\ B # {} THEN {States!Latest(rows', B)} ELSE B
    BY DEF States!Selected
  <2> HIDE DEF A, B, Sel
  <2>6. A # {} <=> B # {}
    BY <2>2
  <2>7. B # {} => States!Latest(rows', B) \in B /\ States!Latest(rows, A) = Place(i, States!Latest(rows', B))
    <3> SUFFICES ASSUME B # {}
                 PROVE  /\ States!Latest(rows', B) \in B
                        /\ States!Latest(rows, A) = Place(i, States!Latest(rows', B))
      OBVIOUS
    <3> DEFINE l == States!Latest(rows', B)
    <3>1. IsLatest(rows', B, l)
      BY <1>7, <2>3, LatestIs
    <3> HIDE DEF l
    <3>2. IsLatest(rows, A, Place(i, l))
      <4>1. l \in B /\ Place(i, l) \in A
        BY <2>2, <3>1 DEF IsLatest
      <4>2. ASSUME NEW x \in A \ {Place(i, l)} PROVE States!After(rows, Place(i, l), x)
        <5>1. PICK j \in B : x = Place(i, j)
          BY <2>2
        <5>2. j # l /\ States!After(rows', l, j)
          BY <3>1, <5>1 DEF IsLatest
        <5>3. /\ rows'[l] = rows[Place(i, l)] /\ rows'[j] = rows[x]
              /\ l > j <=> Place(i, l) > x
          BY <1>5, <1>6, <2>3, <4>1, <5>1
        <5> QED
          BY <5>2, <5>3 DEF States!After
      <4> QED
        BY <4>1, <4>2 DEF IsLatest
    <3>3. States!Latest(rows, A) = Place(i, l)
      BY <2>3, <3>2, OneLatest, RowsNow
    <3> QED
      BY <3>1, <3>3 DEF IsLatest, l
  <2>8. States!Selected(rows, q, s) = {Place(i, j) : j \in Sel} /\ Sel \subseteq B
    BY <2>2, <2>4, <2>5, <2>6, <2>7
  <2>9. \A j \in Sel : rows'[j].value = rows[Place(i, j)].value
    BY <1>6, <2>3, <2>8
  <2> QED
    BY <2>8, <2>9 DEF States!View, Sel
<1> QED
  BY <1>1, <1>7, <1>8, <1>9 DEF RowsStep
-----------------------------------------------------------------------------
(* What each handler does to the proposals and the locked keys. *)

Entry == [status : States!Statuses, conflict : BOOLEAN]

Decided(p) == review[p].status \in States!Decided

\* What may become of a proposal's review.
EntryOK(p, v) ==
  /\ v \in Entry
  /\ p.key \in lockedFirst /\ v.status # "none" => v.conflict
  /\ review[p].status # "PENDING" => v.status = review[p].status
  /\ v.status = "none" => review[p].status = "none"

\* A handler of the author's decisions.
ReviewStep ==
  /\ review' \in [Proposed -> Entry]
  /\ \A p \in Proposed : EntryOK(p, review'[p])
  /\ locked' = locked /\ lockedFirst' = lockedFirst /\ held' = held

Held == [phase : {"idle", "locks", "proposal", "stale"}, of : SUBSET Proposed,
        conflict : BOOLEAN, was : States!Statuses]

\* A decision is taken back by an analysis that read the proposal before it.
Marks(p) == held.phase = "stale" /\ p \in held.of /\ held' = States!NoRun

\* A statement of an analysis.
RunStep ==
  /\ held' \in Held
  /\ review' \in [Proposed -> Entry]
  /\ \A p \in Proposed : p.key \in lockedFirst /\ review'[p].status # "none" => review'[p].conflict
  /\ \A p \in Proposed : Decided(p) => review'[p].status = review[p].status \/ Marks(p)
  /\ locked' = locked /\ lockedFirst' = lockedFirst
  /\ HeldInv'

NothingProposed(k) ==
  \A p \in Proposed : p.key = k => review[p].status = "none" /\ ~States!Proposing(p)

\* The author locks the keys of S.
LockStep ==
  \E S \in SUBSET Keys :
    /\ review' = review /\ held' = held
    /\ locked' = locked \cup S
    /\ \A k \in lockedFirst' : k \in lockedFirst \/ (k \in S /\ NothingProposed(k))

\* The rest of the state, and what the automation did.
Rest(automatic) ==
  /\ evidence' \in [Proposed -> {"current", "edited", "deleted"}]
  /\ alerts' \subseteq Conflicts
  /\ step' \in [audited : SUBSET States!Scenes, automatic : BOOLEAN]
  /\ step'.automatic = automatic
  /\ automatic => \A k \in lockedFirst : States!RowsOf(rows', k) = States!RowsOf(rows, k)

LEMMA ReviewNow ==
  ASSUME StatesInv
  PROVE  /\ review \in [Proposed -> Entry] /\ locked \subseteq Keys /\ alerts \subseteq Conflicts
         /\ evidence \in [Proposed -> {"current", "edited", "deleted"}]
         /\ \A p \in Proposed : review[p] \in Entry /\ EntryOK(p, review[p])
<1>1. /\ review \in [Proposed -> Entry] /\ locked \subseteq Keys /\ alerts \subseteq Conflicts
      /\ evidence \in [Proposed -> {"current", "edited", "deleted"}]
  BY DEF StatesInv, States!TypeOK, Entry
<1>2. \A p \in Proposed : p.key \in lockedFirst /\ review[p].status # "none" => review[p].conflict
  BY Zenon DEF StatesInv, LockedInv
<1>3. \A p \in Proposed : review[p] \in Entry
  BY <1>1
<1>4. \A p \in Proposed : EntryOK(p, review[p])
  BY <1>2, <1>3, Zenon DEF EntryOK
<1> QED
  BY <1>1, <1>3, <1>4

LEMMA ScenesAudited ==
  ASSUME States!StatesAssumption, StatesInv
  PROVE  \A s : States!AuditFrom(s) \in SUBSET States!Scenes
BY RowsNow DEF States!AuditFrom

LEMMA RestByHand ==
  ASSUME States!StatesAssumption, StatesInv, NEW S \in SUBSET States!Scenes, States!ByHand(S),
         evidence' \in [Proposed -> {"current", "edited", "deleted"}], alerts' \subseteq Conflicts
  PROVE  Rest(FALSE) /\ step'.audited = S
<1>1. step' = [audited |-> S, automatic |-> FALSE]
  BY DEF States!ByHand
<1>2. step' \in [audited : SUBSET States!Scenes, automatic : BOOLEAN] /\ step'.automatic = FALSE
  BY <1>1
<1> QED
  BY <1>1, <1>2 DEF Rest

\* A status may change where nothing was decided and something was proposed.
LEMMA EntryStatus ==
  ASSUME StatesInv, NEW p \in Proposed, review[p].status = "PENDING",
         NEW status \in {"APPROVED", "REJECTED", "OBSOLETE"}, NEW v, v = [review[p] EXCEPT !.status = status]
  PROVE  EntryOK(p, v)
<1>1. review[p] \in Entry /\ EntryOK(p, review[p])
  BY ReviewNow
<1>2. v \in Entry /\ v.status = status
  BY <1>1 DEF Entry, States!Statuses
<1>3. v.conflict = review[p].conflict
  BY <1>1 DEF Entry
<1>4. p.key \in lockedFirst => v.conflict
  BY <1>1, <1>3, Zenon DEF EntryOK
<1> QED
  BY <1>2, <1>4, Zenon DEF EntryOK

LEMMA MarkedOK ==
  ASSUME StatesInv, NEW S \in SUBSET Proposed, \A p \in S : States!Pending(p),
         NEW status \in {"APPROVED", "REJECTED", "OBSOLETE"}, NEW p \in Proposed
  PROVE  EntryOK(p, States!Marked(S, status)[p])
<1>1. States!Marked(S, status)[p] = IF p \in S THEN [review[p] EXCEPT !.status = status] ELSE review[p]
  BY DEF States!Marked
<1>2. CASE p \in S
  BY <1>1, <1>2, EntryStatus DEF States!Pending
<1>3. CASE p \notin S
  BY <1>1, <1>3, ReviewNow
<1> QED
  BY <1>2, <1>3

LEMMA MarkedStep ==
  ASSUME StatesInv, NEW S \in SUBSET Proposed, \A p \in S : States!Pending(p),
         NEW status \in {"APPROVED", "REJECTED", "OBSOLETE"}, review' = States!Marked(S, status),
         locked' = locked, lockedFirst' = lockedFirst, held' = held
  PROVE  ReviewStep
<1>1. \A p \in Proposed : EntryOK(p, review'[p])
  BY MarkedOK
<1>2. review' = [p \in Proposed |-> review'[p]]
  BY DEF States!Marked
<1>3. \A p \in Proposed : review'[p] \in Entry
  BY <1>1, Zenon DEF EntryOK
<1>4. review' \in [Proposed -> Entry]
  BY <1>2, <1>3
<1> QED
  BY <1>1, <1>4 DEF ReviewStep

\* What an analysis writes says whether the author locked the key before it began.
LEMMA RunNow ==
  ASSUME StatesInv
  PROVE  held \in Held /\ HeldInv
BY DEF StatesInv, States!TypeOK, Held

\* A statement that only moves the run on.
LEMMA RunOnly ==
  ASSUME StatesInv, review' = review, locked' = locked, lockedFirst' = lockedFirst,
         held' \in Held, HeldInv'
  PROVE  RunStep
<1>1. \A p \in Proposed : p.key \in lockedFirst /\ review'[p].status # "none" => review'[p].conflict
  BY Zenon DEF StatesInv, LockedInv
<1> QED
  BY <1>1, ReviewNow DEF RunStep

LEMMA NoRunIs == States!NoRun \in Held /\ States!NoRun.phase = "idle"
BY DEF States!NoRun, Held, States!Statuses

\* A run that is over holds nothing.
LEMMA RunOver ==
  ASSUME held' = States!NoRun
  PROVE  held' \in Held /\ HeldInv'
BY NoRunIs DEF HeldInv

LEMMA ReadLocksStep ==
  ASSUME States!StatesAssumption, StatesInv, NEW p \in Proposed, States!ReadLocks(p)
  PROVE  RunStep /\ Rest(FALSE) /\ rows' = rows /\ live' = live /\ inOrder' = inOrder
<1> DEFINE flag == States!ConflictsWithLocked(p)
<1>1. /\ held' = [phase |-> "locks", of |-> {p}, conflict |-> flag, was |-> "none"]
      /\ evidence' = [evidence EXCEPT ![p] = "current"] /\ States!ByHand({})
      /\ rows' = rows /\ live' = live /\ inOrder' = inOrder /\ locked' = locked /\ review' = review
      /\ lockedFirst' = lockedFirst /\ alerts' = alerts
  BY DEF States!ReadLocks
<1>2. flag \in BOOLEAN /\ (flag <=> p.key \in locked)
  BY DEF States!ConflictsWithLocked
<1> HIDE DEF flag
<1>3. held' \in Held
  BY <1>1, <1>2 DEF Held, States!Statuses
<1>4. /\ held'.phase = "locks" /\ held'.of = {p} /\ (held'.conflict <=> flag)
  BY <1>1
<1>5. HeldInv'
  <2>1. p.key \in lockedFirst' => held'.conflict
    BY <1>1, <1>2, <1>4, Zenon DEF StatesInv, LockedInv
  <2> QED
    BY <1>4, <2>1 DEF HeldInv
<1>6. evidence' \in [Proposed -> {"current", "edited", "deleted"}]
  BY <1>1, ReviewNow
<1>7. Rest(FALSE)
  BY <1>1, <1>6, ReviewNow, RestByHand
<1> QED
  BY <1>1, <1>3, <1>5, <1>7, RunOnly

LEMMA ReadProposalStep ==
  ASSUME States!StatesAssumption, StatesInv, States!ReadProposal
  PROVE  RunStep /\ Rest(FALSE) /\ rows' = rows /\ live' = live /\ inOrder' = inOrder
<1>1. /\ held.phase = "locks" /\ States!ByHand({}) /\ evidence' = evidence
      /\ rows' = rows /\ live' = live /\ inOrder' = inOrder /\ locked' = locked /\ review' = review
      /\ lockedFirst' = lockedFirst /\ alerts' = alerts
  BY DEF States!ReadProposal
<1>2. PICK p \in held.of : held' = IF review[p].status = "REJECTED" THEN States!NoRun
                                 ELSE [held EXCEPT !.phase = "proposal", !.was = review[p].status]
  BY DEF States!ReadProposal
<1>3. held \in Held /\ HeldInv /\ p \in Proposed
  BY RunNow DEF Held
<1>4. review[p].status \in States!Statuses
  BY <1>3, ReviewNow DEF Entry
<1>5. held' \in Held /\ HeldInv'
  <2>1. CASE review[p].status = "REJECTED"
    BY <1>2, <2>1, RunOver
  <2>2. CASE review[p].status # "REJECTED"
    <3> DEFINE status == review[p].status
    <3>1. held' = [held EXCEPT !.phase = "proposal", !.was = status]
      BY <1>2, <2>2
    <3>2. status \in States!Statuses
      BY <1>4
    <3>3. \A q \in held.of : review[q].status = status
      BY <1>1, <1>3 DEF HeldInv
    <3> HIDE DEF status
    <3>4. held' \in Held /\ held'.phase = "proposal" /\ held'.of = held.of
          /\ held'.conflict = held.conflict /\ held'.was = status
      BY <1>3, <3>1, <3>2 DEF Held
    <3>5. /\ \A q \in held'.of : q.key \in lockedFirst' => held'.conflict
          /\ \A q, r \in held'.of : q = r
      BY <1>1, <1>3, <3>4, Zenon DEF HeldInv
    <3>6. held'.was \in {"none", "OBSOLETE"} =>
            \A q \in held'.of : review'[q].status \in {"none", "OBSOLETE"}
      BY <1>1, <3>3, <3>4
    <3> QED
      BY <3>4, <3>5, <3>6, Zenon DEF HeldInv
  <2> QED
    BY <2>1, <2>2
<1>6. Rest(FALSE)
  BY <1>1, ReviewNow, RestByHand
<1> QED
  BY <1>1, <1>5, <1>6, RunOnly

LEMMA WriteProposalStep ==
  ASSUME States!StatesAssumption, StatesInv, States!WriteProposal
  PROVE  RunStep /\ Rest(FALSE) /\ rows' = rows /\ live' = live /\ inOrder' = inOrder
<1>1. /\ held.phase = "proposal" /\ held' = States!NoRun /\ States!ByHand({}) /\ evidence' = evidence
      /\ rows' = rows /\ live' = live /\ inOrder' = inOrder /\ locked' = locked
      /\ lockedFirst' = lockedFirst /\ alerts' = alerts
  BY DEF States!WriteProposal
<1> DEFINE status(p) == IF held.was \in {"none", "OBSOLETE"} THEN "PENDING" ELSE review[p].status
           entry(p) == [status |-> status(p), conflict |-> held.conflict]
<1>2. PICK p \in held.of : review' = IF held.was = "none" /\ evidence[p] = "deleted" THEN review
                                     ELSE [review EXCEPT ![p] = entry(p)]
  BY DEF States!WriteProposal
<1>3. held \in Held /\ HeldInv /\ p \in Proposed /\ held.conflict \in BOOLEAN
  BY RunNow DEF Held
<1>4. held' \in Held /\ HeldInv'
  BY <1>1, RunOver
<1>5. Rest(FALSE)
  BY <1>1, ReviewNow, RestByHand
<1>6. CASE review' = review
  BY <1>1, <1>4, <1>5, <1>6, RunOnly
<1>7. CASE review' = [review EXCEPT ![p] = entry(p)]
  <2>1. review[p].status \in States!Statuses
    BY <1>3, ReviewNow DEF Entry
  <2>2. status(p) \in States!Statuses /\ (Decided(p) => status(p) = review[p].status)
    <3>1. Decided(p) => held.was \notin {"none", "OBSOLETE"}
      BY <1>1, <1>3 DEF HeldInv, Decided, States!Decided
    <3> QED
      BY <2>1, <3>1 DEF States!Statuses
  <2>3. entry(p) \in Entry /\ entry(p).status = status(p)
    BY <1>3, <2>2 DEF Entry
  <2>4. p.key \in lockedFirst => entry(p).conflict
    BY <1>1, <1>3 DEF HeldInv
  <2> DEFINE e == entry(p)
  <2>5. e \in Entry /\ (Decided(p) => e.status = review[p].status) /\ review' = [review EXCEPT ![p] = e]
        /\ (p.key \in lockedFirst => e.conflict)
    BY <1>7, <2>2, <2>3, <2>4
  <2> HIDE DEF e
  <2>6. \A q \in Proposed : review'[q] = IF q = p THEN e ELSE review[q]
    BY <2>5, ReviewNow
  <2>7. review' \in [Proposed -> Entry]
    BY <2>5, ReviewNow
  <2>8. ASSUME NEW q \in Proposed, q.key \in lockedFirst, review'[q].status # "none"
        PROVE  review'[q].conflict
    <3>1. CASE q = p
      BY <1>3, <2>5, <2>6, <2>8, <3>1, Zenon
    <3>2. CASE q # p
      <4>1. review'[q] = review[q]
        BY <2>6, <3>2
      <4> QED
        BY <2>8, <4>1, Zenon DEF StatesInv, LockedInv
    <3> QED
      BY <3>1, <3>2
  <2>9. \A q \in Proposed : Decided(q) => review'[q].status = review[q].status
    BY <2>5, <2>6
  <2> QED
    BY <1>1, <1>4, <1>5, <2>7, <2>8, <2>9, Zenon DEF RunStep
<1> QED
  BY <1>2, <1>6, <1>7

LEMMA FindStaleStep ==
  ASSUME States!StatesAssumption, StatesInv, NEW s \in States!Scenes, States!FindStale(s)
  PROVE  RunStep /\ Rest(FALSE) /\ rows' = rows /\ live' = live /\ inOrder' = inOrder
<1> DEFINE here == {p \in Proposed : p.scene = s}
<1>1. /\ States!ByHand({}) /\ evidence' = evidence
      /\ rows' = rows /\ live' = live /\ inOrder' = inOrder /\ locked' = locked /\ review' = review
      /\ lockedFirst' = lockedFirst /\ alerts' = alerts
  BY DEF States!FindStale
<1>2. PICK S \in SUBSET States!StaleProposals(here, {"edited"}) :
        held' = [phase |-> "stale", of |-> S, conflict |-> FALSE, was |-> "none"]
  BY DEF States!FindStale
<1>3. S \in SUBSET Proposed
  <2>1. here \in SUBSET Proposed
    OBVIOUS
  <2> HIDE DEF here
  <2> QED
    BY <2>1 DEF States!StaleProposals
<1>5. held' \in Held /\ held'.phase = "stale"
  BY <1>2, <1>3 DEF Held, States!Statuses
<1>6. HeldInv'
  <2>1. \A p \in held'.of : review'[p].status # "none"
    BY <1>1, <1>2 DEF States!StaleProposals, States!Pending
  <2> QED
    BY <1>5, <2>1 DEF HeldInv
<1>7. Rest(FALSE)
  BY <1>1, ReviewNow, RestByHand
<1> QED
  BY <1>1, <1>5, <1>6, <1>7, RunOnly

LEMMA MarkStaleStep ==
  ASSUME States!StatesAssumption, StatesInv, States!MarkStale
  PROVE  RunStep /\ Rest(FALSE) /\ rows' = rows /\ live' = live /\ inOrder' = inOrder
<1>1. /\ held.phase = "stale" /\ held' = States!NoRun /\ review' = States!Marked(held.of, "OBSOLETE")
      /\ States!ByHand({}) /\ evidence' = evidence
      /\ rows' = rows /\ live' = live /\ inOrder' = inOrder /\ locked' = locked
      /\ lockedFirst' = lockedFirst /\ alerts' = alerts
  BY DEF States!MarkStale
<1>2. held' \in Held /\ HeldInv'
  BY <1>1, RunOver
<1>3. Rest(FALSE)
  BY <1>1, ReviewNow, RestByHand
<1>4. \A p \in Proposed :
        review'[p] = IF p \in held.of THEN [review[p] EXCEPT !.status = "OBSOLETE"] ELSE review[p]
  BY <1>1 DEF States!Marked
<1>5. \A p \in Proposed : review'[p] \in Entry /\ review'[p].conflict = review[p].conflict
                          /\ (p \notin held.of => review'[p] = review[p])
  BY <1>4, ReviewNow DEF Entry, States!Statuses
<1>6. review' \in [Proposed -> Entry]
  <2>1. review' = [p \in Proposed |-> review'[p]]
    BY <1>1 DEF States!Marked
  <2> QED
    BY <1>5, <2>1
<1>7. ASSUME NEW p \in Proposed, p.key \in lockedFirst, review'[p].status # "none"
      PROVE  review'[p].conflict
  <2>1. review[p].status # "none"
    <3>1. CASE p \in held.of
      BY <1>1, <3>1, RunNow DEF HeldInv
    <3>2. CASE p \notin held.of
      BY <1>5, <1>7, <3>2
    <3> QED
      BY <3>1, <3>2
  <2>2. review[p].conflict
    BY <1>7, <2>1, Zenon DEF StatesInv, LockedInv
  <2> QED
    BY <1>5, <2>2
<1>8. \A p \in Proposed : Decided(p) => review'[p].status = review[p].status \/ Marks(p)
  BY <1>1, <1>5 DEF Marks
<1> QED
  BY <1>1, <1>2, <1>3, <1>6, <1>7, <1>8, Zenon DEF RunStep

LEMMA StaleArePending ==
  ASSUME NEW S \in SUBSET Proposed, NEW U
  PROVE  /\ States!StaleProposals(S, U) \in SUBSET Proposed
         /\ \A p \in States!StaleProposals(S, U) : States!Pending(p)
BY DEF States!StaleProposals

LEMMA ListPendingStep ==
  ASSUME States!StatesAssumption, StatesInv, States!ListPendingProposals
  PROVE  ReviewStep /\ Rest(FALSE) /\ rows' = rows /\ live' = live /\ inOrder' = inOrder
<1> DEFINE S == States!StaleProposals(Proposed, {"edited", "deleted"})
<1>1. /\ review' = States!Marked(S, "OBSOLETE") /\ States!ByHand({}) /\ evidence' = evidence
      /\ rows' = rows /\ live' = live /\ inOrder' = inOrder /\ locked' = locked /\ held' = held
      /\ lockedFirst' = lockedFirst /\ alerts' = alerts
  BY DEF States!ListPendingProposals
<1>2. S \in SUBSET Proposed /\ \A p \in S : States!Pending(p)
  BY StaleArePending
<1> HIDE DEF S
<1>3. ReviewStep
  BY <1>1, <1>2, MarkedStep
<1>4. Rest(FALSE)
  BY <1>1, ReviewNow, RestByHand
<1> QED
  BY <1>1, <1>3, <1>4

LEMMA RejectStep ==
  ASSUME States!StatesAssumption, StatesInv, NEW p \in Proposed, States!RejectProposal(p)
  PROVE  ReviewStep /\ Rest(FALSE) /\ rows' = rows /\ live' = live /\ inOrder' = inOrder
<1>1. /\ review' = States!Marked({p}, "REJECTED") /\ States!ByHand({}) /\ evidence' = evidence
      /\ rows' = rows /\ live' = live /\ inOrder' = inOrder /\ locked' = locked
      /\ lockedFirst' = lockedFirst /\ alerts' = alerts /\ held' = held /\ States!Pending(p)
  BY DEF States!RejectProposal
<1>2. ReviewStep
  BY <1>1, MarkedStep
<1>3. Rest(FALSE)
  BY <1>1, ReviewNow, RestByHand
<1> QED
  BY <1>1, <1>2, <1>3

LEMMA ChangeChunkStep ==
  ASSUME States!StatesAssumption, StatesInv, NEW p \in Proposed, NEW became \in {"edited", "deleted"},
         States!ChangeChunk(p, became)
  PROVE  ReviewStep /\ Rest(FALSE) /\ rows' = rows /\ live' = live /\ inOrder' = inOrder
<1>1. /\ evidence' = [evidence EXCEPT ![p] = became] /\ States!ByHand({}) /\ review' = review
      /\ rows' = rows /\ live' = live /\ inOrder' = inOrder /\ locked' = locked
      /\ lockedFirst' = lockedFirst /\ alerts' = alerts /\ held' = held
  BY DEF States!ChangeChunk
<1>2. evidence' \in [Proposed -> {"current", "edited", "deleted"}]
  BY <1>1, ReviewNow
<1>3. Rest(FALSE)
  BY <1>1, <1>2, ReviewNow, RestByHand
<1>4. ReviewStep
  BY <1>1, ReviewNow DEF ReviewStep
<1> QED
  BY <1>1, <1>3, <1>4

\* Steps that change no row.
LEMMA SameRows ==
  ASSUME States!StatesAssumption, StatesInv, rows' = rows, inOrder' = inOrder
  PROVE  RowsStep(rows', inOrder', step'.audited)
BY RowsNow DEF RowsStep

LEMMA AcceptStep ==
  ASSUME States!StatesAssumption, StatesInv, NEW p \in Proposed, NEW w,
         w.from \in States!Scenes, w.to \in States!Scenes \cup {0}, States!AcceptProposal(p, w)
  PROVE  ReviewStep /\ Rest(FALSE) /\ RowsStep(rows', inOrder', step'.audited) /\ live' = live
<1>1. /\ States!Pending(p) /\ live' = live /\ locked' = locked /\ lockedFirst' = lockedFirst
      /\ evidence' = evidence /\ alerts' = alerts /\ held' = held
  BY DEF States!AcceptProposal
<1>2. CASE evidence[p] = "edited"
  <2>1. /\ review' = States!Marked({p}, "OBSOLETE") /\ States!ByHand({})
        /\ rows' = rows /\ inOrder' = inOrder
    BY <1>2 DEF States!AcceptProposal
  <2>2. ReviewStep
    BY <1>1, <2>1, MarkedStep
  <2>3. Rest(FALSE)
    BY <1>1, <2>1, ReviewNow, RestByHand
  <2> QED
    BY <1>1, <2>1, <2>2, <2>3, SameRows
<1>3. CASE evidence[p] # "edited"
  <2> DEFINE c == States!Change(p, w.from, w.to)
  <2>1. /\ States!WindowOK(w.from, w.to)
        /\ review' = States!Marked({p}, "APPROVED") /\ rows' = States!ApplyStateChange(rows, c)
        /\ inOrder' = States!InOrderAfter(rows, inOrder, c) /\ States!ByHand(States!AuditFrom(w.from))
    BY <1>3 DEF States!AcceptProposal
  <2>2. c = [key |-> p.key, value |-> p.value, from |-> w.from, to |-> w.to, order |-> p.order]
    BY DEF States!Change
  <2>3. p \in [scene : States!Scenes, key : Keys, value : Values, order : Nat, kind : States!Kinds]
    BY DEF States!StatesAssumption
  <2> HIDE DEF c
  <2>4. c \in States!Row /\ c.from = w.from /\ c.to = w.to
    BY <2>2, <2>3 DEF States!Row, States!NoScene
  <2>5. ChangeOK(c)
    BY <2>1, <2>4 DEF ChangeOK
  <2>6. ReviewStep
    BY <1>1, <2>1, MarkedStep
  <2>7. Rest(FALSE) /\ step'.audited = States!AuditFrom(c.from)
    <3>1. States!AuditFrom(w.from) \in SUBSET States!Scenes
      BY ScenesAudited
    <3> QED
      BY <1>1, <2>1, <2>4, <3>1, ReviewNow, RestByHand
  <2> QED
    BY <1>1, <2>1, <2>5, <2>6, <2>7, ApplyStep
<1> QED
  BY <1>2, <1>3

LEMMA SequenceAction ==
  ASSUME States!StatesAssumption, StatesInv, NEW A \in SUBSET Proposed, NEW R \in SUBSET Proposed,
         NEW automatic \in BOOLEAN, States!AcceptSequence(A, R, automatic)
  PROVE  ReviewStep /\ Rest(automatic) /\ RowsStep(rows', inOrder', step'.audited) /\ live' = live
<1> DEFINE stale == {p \in A : evidence[p] = "edited"}
<1>1. /\ \A p \in A \cup R : States!Pending(p)
      /\ live' = live /\ locked' = locked /\ lockedFirst' = lockedFirst
      /\ evidence' = evidence /\ alerts' = alerts /\ held' = held
  BY DEF States!AcceptSequence
<1>2. CASE stale # {}
  <2>1. /\ review' = States!Marked(stale, "OBSOLETE") /\ step' = [audited |-> {}, automatic |-> automatic]
        /\ rows' = rows /\ inOrder' = inOrder
    BY <1>2, Zenon DEF States!AcceptSequence
  <2>2. ReviewStep
    <3>1. stale \in SUBSET Proposed /\ \A p \in stale : States!Pending(p)
      BY <1>1
    <3> HIDE DEF stale
    <3> QED
      BY <1>1, <2>1, <3>1, MarkedStep
  <2>3. Rest(automatic)
    <3>1. step' \in [audited : SUBSET States!Scenes, automatic : BOOLEAN] /\ step'.automatic = automatic
      BY <2>1
    <3> QED
      BY <1>1, <2>1, <3>1, ReviewNow DEF Rest
  <2> QED
    BY <1>1, <2>1, <2>2, <2>3, SameRows
<1>3. CASE stale = {}
  <2> DEFINE audited == UNION {States!AuditFrom(p.scene) : p \in A}
  <2>1. /\ \A p \in A : p.scene \in live /\ ~review[p].conflict
        /\ \E seq \in States!Sorted(A) : rows' = States!ApplySequence(seq).rows
                                         /\ inOrder' = States!ApplySequence(seq).inOrder
        /\ review' = [p \in Proposed |-> IF p \in A THEN States!Marked(A, "APPROVED")[p]
                                         ELSE States!Marked(R, "REJECTED")[p]]
        /\ step' = [audited |-> audited, automatic |-> automatic]
    BY <1>3, Zenon DEF States!AcceptSequence
  <2>2. PICK seq \in States!Sorted(A) : /\ rows' = States!ApplySequence(seq).rows
                                        /\ inOrder' = States!ApplySequence(seq).inOrder
    BY <2>1
  <2>3. /\ RowsStep(rows', inOrder', audited)
        /\ \A k : (\A p \in A : p.key # k) => States!RowsOf(rows', k) = States!RowsOf(rows, k)
    BY <2>1, <2>2, SequenceStep
  <2>4. audited \in SUBSET States!Scenes
    BY ScenesAudited
  <2> HIDE DEF audited, stale
  <2>5. ReviewStep
    <3>1. ASSUME NEW p \in Proposed PROVE EntryOK(p, review'[p])
      <4>1. CASE p \in A
        <5>1. review'[p] = States!Marked(A, "APPROVED")[p]
          BY <2>1, <4>1
        <5> QED
          BY <1>1, <5>1, MarkedOK
      <4>2. CASE p \notin A
        <5>1. review'[p] = States!Marked(R, "REJECTED")[p]
          BY <2>1, <4>2
        <5> QED
          BY <1>1, <5>1, MarkedOK
      <4> QED
        BY <4>1, <4>2
    <3>2. review' = [p \in Proposed |-> review'[p]]
      BY <2>1
    <3>3. \A p \in Proposed : review'[p] \in Entry
      BY <3>1, Zenon DEF EntryOK
    <3>4. review' \in [Proposed -> Entry]
      BY <3>2, <3>3
    <3> QED
      BY <1>1, <3>1, <3>4 DEF ReviewStep
  <2>6. ASSUME NEW k \in lockedFirst PROVE States!RowsOf(rows', k) = States!RowsOf(rows, k)
    <3>1. ASSUME NEW p \in A PROVE p.key # k
      <4>1. review[p].status # "none" /\ ~review[p].conflict
        BY <1>1, <2>1 DEF States!Pending
      <4>2. EntryOK(p, review[p])
        BY ReviewNow
      <4> QED
        BY <2>6, <4>1, <4>2, Zenon DEF EntryOK
    <3> QED
      BY <2>3, <3>1
  <2>7. Rest(automatic) /\ step'.audited = audited
    <3>1. /\ step' \in [audited : SUBSET States!Scenes, automatic : BOOLEAN] /\ step'.automatic = automatic
          /\ step'.audited = audited
      BY <2>1, <2>4
    <3> QED
      BY <1>1, <2>6, <3>1, ReviewNow DEF Rest
  <2> QED
    BY <1>1, <2>3, <2>5, <2>7
<1> QED
  BY <1>2, <1>3

\* What LockFirst adds was never proposed for.
LEMMA LockedFirst ==
  ASSUME NEW k, NEW q \in States!LockFirst(k)
  PROVE  q \in lockedFirst \/ (q = k /\ NothingProposed(k))
BY DEF States!LockFirst, NothingProposed

LEMMA CreateStateStep ==
  ASSUME States!StatesAssumption, StatesInv, NEW k \in Keys, NEW e \in Edits, States!CreateState(k, e)
  PROVE  LockStep /\ Rest(FALSE) /\ RowsStep(rows', inOrder', step'.audited) /\ live' = live
<1> DEFINE c == [key |-> k, value |-> e.value, from |-> e.from, to |-> e.to, order |-> States!NoOrder]
<1>1. /\ States!WindowOK(e.from, e.to) /\ rows' = States!ApplyStateChange(rows, c)
      /\ locked' = locked \cup {k} /\ lockedFirst' = States!LockFirst(k)
      /\ inOrder' = States!InOrderAfter(rows, inOrder, c) /\ States!ByHand(States!AuditFrom(e.from))
      /\ live' = live /\ review' = review /\ evidence' = evidence /\ alerts' = alerts /\ held' = held
  BY Zenon DEF States!CreateState
<1>2. e \in [value : Values, from : States!Scenes, to : States!Scenes \cup {States!NoScene}]
  BY DEF States!StatesAssumption
<1>3. c \in States!Row /\ c.from = e.from /\ c.to = e.to
  BY <1>2 DEF States!Row, States!NoOrder
<1> HIDE DEF c
<1>4. ChangeOK(c)
  BY <1>1, <1>3 DEF ChangeOK
<1>5. LockStep
  <2>1. {k} \in SUBSET Keys
    OBVIOUS
  <2>2. \A q \in lockedFirst' : q \in lockedFirst
          \/ (q \in {k} /\ NothingProposed(q))
    BY <1>1, LockedFirst
  <2> QED
    BY <1>1, <2>1, <2>2 DEF LockStep
<1>6. Rest(FALSE) /\ step'.audited = States!AuditFrom(c.from)
  <2>1. States!AuditFrom(e.from) \in SUBSET States!Scenes
    BY ScenesAudited
  <2> QED
    BY <1>1, <1>3, <2>1, ReviewNow, RestByHand
<1> QED
  BY <1>1, <1>4, <1>5, <1>6, ApplyStep

LEMMA UpdateStateStep ==
  ASSUME States!StatesAssumption, StatesInv, NEW i \in DOMAIN rows, NEW k \in Keys, NEW e \in Edits,
         States!UpdateState(i, k, e)
  PROVE  LockStep /\ Rest(FALSE)
<1> DEFINE start == States!AuditStart(rows[i].from, e.from)
<1>1. /\ locked' = locked \cup {rows[i].key, k}
      /\ lockedFirst' = States!LockFirst(rows[i].key) \cup States!LockFirst(k)
      /\ States!ByHand(States!AuditFrom(start))
      /\ review' = review /\ evidence' = evidence /\ alerts' = alerts /\ held' = held
  BY DEF States!UpdateState
<1>2. LockStep
  <2>1. {rows[i].key, k} \in SUBSET Keys
    BY RowIs, RowsNow
  <2>2. \A q \in lockedFirst' : q \in lockedFirst
          \/ (q \in {rows[i].key, k} /\ NothingProposed(q))
    BY <1>1, LockedFirst
  <2> QED
    BY <1>1, <2>1, <2>2 DEF LockStep
<1> HIDE DEF start
<1>3. States!AuditFrom(start) \in SUBSET States!Scenes
  BY ScenesAudited
<1> QED
  BY <1>1, <1>2, <1>3, ReviewNow, RestByHand

LEMMA RemoveStateStep ==
  ASSUME States!StatesAssumption, StatesInv, NEW i \in DOMAIN rows, States!RemoveState(i)
  PROVE  ReviewStep /\ Rest(FALSE)
<1>1. /\ States!ByHand(States!AuditFrom(rows[i].from)) /\ review' = review /\ evidence' = evidence
      /\ locked' = locked /\ lockedFirst' = lockedFirst /\ alerts' = alerts /\ held' = held
  BY DEF States!RemoveState
<1>2. States!AuditFrom(rows[i].from) \in SUBSET States!Scenes
  BY ScenesAudited
<1>3. Rest(FALSE)
  BY <1>1, <1>2, ReviewNow, RestByHand
<1>4. ReviewStep
  BY <1>1, ReviewNow DEF ReviewStep
<1> QED
  BY <1>3, <1>4

LEMMA KnowledgeUpdateStep ==
  ASSUME States!StatesAssumption, StatesInv, NEW c \in Conflicts, States!ApplyKnowledgeUpdate(c)
  PROVE  LockStep /\ Rest(FALSE)
<1>1. /\ locked' = locked \cup {c.key} /\ lockedFirst' = States!LockFirst(c.key)
      /\ held' = held /\ alerts' = alerts \ {c} /\ States!ByHand(States!AuditFrom(c.scene))
      /\ review' = review /\ evidence' = evidence
  BY DEF States!ApplyKnowledgeUpdate
<1>2. c.key \in Keys
  BY DEF States!StatesAssumption
<1>3. LockStep
  <2>1. {c.key} \in SUBSET Keys
    BY <1>2
  <2>2. \A q \in lockedFirst' : q \in lockedFirst
          \/ (q \in {c.key} /\ NothingProposed(q))
    BY <1>1, LockedFirst
  <2> QED
    BY <1>1, <2>1, <2>2 DEF LockStep
<1>4. States!AuditFrom(c.scene) \in SUBSET States!Scenes
  BY ScenesAudited
<1>5. alerts' \subseteq Conflicts
  BY <1>1, ReviewNow
<1> QED
  BY <1>1, <1>3, <1>4, <1>5, ReviewNow, RestByHand
-----------------------------------------------------------------------------
(* Every step. *)

WindowIs(w) == w.from \in States!Scenes /\ w.to \in States!Scenes \cup {0}

LEMMA AuthorWindow ==
  ASSUME States!StatesAssumption, NEW w \in States!Windows
  PROVE  WindowIs(w)
<1>1. PICK e \in Edits : w = [from |-> e.from, to |-> e.to]
  BY DEF States!Windows
<1>2. e \in [value : Values, from : States!Scenes, to : States!Scenes \cup {0}]
  BY DEF States!StatesAssumption, States!NoScene
<1> QED
  BY <1>1, <1>2 DEF WindowIs

\* A handler, deleting a scene apart.
Handler ==
  /\ ReviewStep \/ LockStep \/ RunStep
  /\ \E a \in BOOLEAN : Rest(a)
  /\ RowsStep(rows', inOrder', step'.audited) /\ live' = live

Deletion ==
  \E s \in States!Scenes :
    /\ live' = live \ {s} /\ States!ByHand({})
    /\ UNCHANGED <<rows, locked, review, evidence, held, alerts, lockedFirst, inOrder>>

LEMMA EveryStep ==
  ASSUME States!StatesAssumption, StatesInv, States!Next
  PROVE  Handler \/ Deletion
<1>1. ASSUME ReviewStep \/ RunStep, Rest(FALSE), rows' = rows, live' = live, inOrder' = inOrder
      PROVE  Handler
  BY <1>1, SameRows DEF Handler
<1>2. CASE \E k \in Keys, e \in Edits : States!CreateState(k, e)
  BY <1>2, CreateStateStep DEF Handler
<1>3. CASE \E i \in DOMAIN rows, k \in Keys, e \in Edits : States!UpdateState(i, k, e)
  BY <1>3, UpdateStep, UpdateStateStep DEF Handler
<1>4. CASE \E i \in DOMAIN rows : States!RemoveState(i)
  BY <1>4, RemoveStep, RemoveStateStep DEF Handler
<1>5. CASE (\E p \in Proposed : States!ReadLocks(p)) \/ States!ReadProposal \/ States!WriteProposal
  BY <1>1, <1>5, ReadLocksStep, ReadProposalStep, WriteProposalStep
<1>6. CASE \E p \in Proposed, became \in {"edited", "deleted"} : States!ChangeChunk(p, became)
  BY <1>1, <1>6, ChangeChunkStep
<1>7. CASE States!ListPendingProposals
  BY <1>1, <1>7, ListPendingStep
<1>8. CASE (\E s \in States!Scenes : States!FindStale(s)) \/ States!MarkStale
  BY <1>1, <1>8, FindStaleStep, MarkStaleStep
<1>9. CASE \E p \in Proposed, w \in States!Windows : States!AcceptProposal(p, w)
  BY <1>9, AcceptStep, AuthorWindow DEF Handler, WindowIs
<1>10. CASE \E p \in Proposed : States!AcceptProposal(p, [from |-> p.scene, to |-> States!NoScene])
  <2>1. PICK p \in Proposed : States!AcceptProposal(p, [from |-> p.scene, to |-> States!NoScene])
    BY <1>10
  <2> DEFINE w == [from |-> p.scene, to |-> States!NoScene]
  <2>2. p.scene \in States!Scenes
    BY DEF States!StatesAssumption
  <2>3. w.from \in States!Scenes /\ w.to \in States!Scenes \cup {0} /\ States!AcceptProposal(p, w)
    BY <2>1, <2>2 DEF States!NoScene
  <2> HIDE DEF w
  <2> QED
    BY <2>3, AcceptStep DEF Handler
<1>11. CASE \E p \in Proposed : States!RejectProposal(p)
  BY <1>1, <1>11, RejectStep
<1>12. CASE \E A, R \in SUBSET Proposed : States!AcceptSequence(A, R, FALSE)
  BY <1>12, SequenceAction DEF Handler
<1>13. CASE \E s \in States!Scenes : States!ReviewScene(s)
  <2>1. PICK s \in States!Scenes : States!ReviewScene(s)
    BY <1>13
  <2> DEFINE pending == {p \in Proposed : p.scene = s /\ States!Pending(p)}
             A == {p \in pending : States!Approvable(States!Group(pending, p))}
  <2>2. A \in SUBSET Proposed /\ States!AcceptSequence(A, {}, TRUE)
    BY <2>1 DEF States!ReviewScene
  <2> HIDE DEF A
  <2>3. {} \in SUBSET Proposed
    OBVIOUS
  <2> QED
    BY <2>2, <2>3, SequenceAction DEF Handler
<1>14. CASE \E c \in Conflicts : States!ApplyKnowledgeUpdate(c)
  BY <1>14, KnowledgeStep, KnowledgeUpdateStep DEF Handler
<1>15. CASE \E s \in Deletable : States!DeleteScene(s)
  <2>1. PICK s \in Deletable : States!DeleteScene(s)
    BY <1>15
  <2>2. s \in States!Scenes
    BY DEF States!StatesAssumption
  <2> QED
    BY <2>1, <2>2 DEF States!DeleteScene, Deletion
<1> QED
  BY <1>2, <1>3, <1>4, <1>5, <1>6, <1>7, <1>8, <1>9, <1>10, <1>11, <1>12, <1>13, <1>14, <1>15
     DEF States!Next

LEMMA HandlerKeeps ==
  ASSUME States!StatesAssumption, StatesInv, Handler, Len(rows') <= MaxRows
  PROVE  StatesInv'
<1>1. /\ StateRows(rows') /\ inOrder' \subseteq inOrder /\ live' = live
      /\ \A k \in inOrder' \cap SingleValue : Apart(rows', k)
  BY DEF Handler, RowsStep
<1>2. /\ evidence' \in [Proposed -> {"current", "edited", "deleted"}] /\ alerts' \subseteq Conflicts
      /\ step' \in [audited : SUBSET States!Scenes, automatic : BOOLEAN]
  BY DEF Handler, Rest
<1>3. /\ review' \in [Proposed -> Entry] /\ locked' \subseteq Keys /\ lockedFirst' \subseteq locked'
      /\ held' \in Held /\ HeldInv'
      /\ \A p \in Proposed : p.key \in lockedFirst' /\ review'[p].status # "none" => review'[p].conflict
  <2>1. lockedFirst \subseteq locked /\ locked \subseteq Keys /\ held \in Held /\ HeldInv
    BY ReviewNow, RunNow DEF StatesInv, LockedInv
  <2>2. CASE ReviewStep
    <3>1. \A p \in Proposed : p.key \in lockedFirst' /\ review'[p].status # "none" => review'[p].conflict
      BY <2>2, Zenon DEF ReviewStep, EntryOK
    <3>2. held' = held /\ lockedFirst' = lockedFirst
      BY <2>2 DEF ReviewStep
    <3>3. \A p \in held.of : /\ review[p].status \in {"none", "OBSOLETE"} => review'[p].status = review[p].status
                             /\ review[p].status # "none" => review'[p].status # "none"
      <4>1. held.of \subseteq Proposed
        BY <2>1 DEF Held
      <4> QED
        BY <2>2, <4>1 DEF ReviewStep, EntryOK
    <3>4. HeldInv'
      BY <2>1, <3>2, <3>3 DEF HeldInv
    <3> QED
      BY <2>1, <2>2, <3>1, <3>2, <3>4 DEF ReviewStep
  <2>3. CASE LockStep
    <3>1. PICK S \in SUBSET Keys :
            /\ review' = review /\ held' = held
            /\ locked' = locked \cup S
            /\ \A k \in lockedFirst' : k \in lockedFirst \/ (k \in S /\ NothingProposed(k))
      BY <2>3 DEF LockStep
    <3>2. ASSUME NEW p \in Proposed, p.key \in lockedFirst', review'[p].status # "none"
          PROVE  review'[p].conflict
      <4>1. p.key \in lockedFirst
        BY <3>1, <3>2 DEF NothingProposed
      <4>2. review[p].conflict
        BY <3>1, <3>2, <4>1, Zenon DEF StatesInv, LockedInv
      <4> QED
        BY <3>1, <4>2
    <3>3. review' \in [Proposed -> Entry] /\ locked' \subseteq Keys /\ lockedFirst' \subseteq locked'
      BY <2>1, <3>1, ReviewNow
    <3>4. HeldInv'
      <4>1. ASSUME held.phase \in {"locks", "proposal"}, NEW p \in held.of, p.key \in lockedFirst'
            PROVE  held.conflict
        <5>1. p \in Proposed /\ States!Proposing(p)
          BY <2>1, <4>1 DEF Held, States!Proposing
        <5>2. p.key \in lockedFirst
          BY <3>1, <4>1, <5>1 DEF NothingProposed
        <5> QED
          BY <2>1, <4>1, <5>2 DEF HeldInv
      <4> QED
        BY <2>1, <3>1, <4>1 DEF HeldInv
    <3> QED
      BY <2>1, <3>1, <3>2, <3>3, <3>4
  <2>4. CASE RunStep
    <3>1. \A p \in Proposed : p.key \in lockedFirst' /\ review'[p].status # "none" => review'[p].conflict
      BY <2>4, Zenon DEF RunStep
    <3> QED
      BY <2>1, <2>4, <3>1 DEF RunStep
  <2> QED
    BY <2>2, <2>3, <2>4 DEF Handler
<1>4. States!TypeOK'
  <2>1. live \subseteq States!Scenes /\ inOrder \subseteq Keys
    BY RowsNow
  <2> QED
    BY <1>1, <1>2, <1>3, <2>1 DEF States!TypeOK, StateRows, Entry, Held, States!NoScene
<1>5. LockedInv'
  BY <1>3, Zenon DEF LockedInv
<1>6. States!InOrderStatesAreDisjoint'
  <2> SUFFICES ASSUME NEW k \in inOrder' \cap SingleValue, NEW i \in DOMAIN rows', NEW j \in DOMAIN rows',
                      rows'[i].key = k, rows'[j].key = k, i # j
               PROVE  ~States!Overlap(rows, i, j)'
    BY Zenon DEF States!InOrderStatesAreDisjoint
  <2>1. ~States!Overlap(rows', i, j)
    BY <1>1 DEF Apart
  <2> QED
    BY <1>1, <2>1 DEF States!Overlap
<1> QED
  BY <1>3, <1>4, <1>5, <1>6 DEF StatesInv

\* Deleted scenes only take rows out of what may overlap.
LEMMA DeletionKeeps ==
  ASSUME States!StatesAssumption, StatesInv, Deletion
  PROVE  StatesInv'
<1>1. PICK s \in States!Scenes :
        /\ live' = live \ {s} /\ States!ByHand({})
        /\ UNCHANGED <<rows, locked, review, evidence, held, alerts, lockedFirst, inOrder>>
  BY DEF Deletion
<1>2. States!TypeOK'
  <2>1. step' \in [audited : SUBSET States!Scenes, automatic : BOOLEAN]
    BY <1>1 DEF States!ByHand
  <2> QED
    BY <1>1, <2>1 DEF StatesInv, States!TypeOK
<1>3. LockedInv' /\ HeldInv'
  BY <1>1 DEF StatesInv, LockedInv, HeldInv
<1>4. States!InOrderStatesAreDisjoint'
  <2> SUFFICES ASSUME NEW k \in inOrder' \cap SingleValue, NEW i \in DOMAIN rows', NEW j \in DOMAIN rows',
                      rows'[i].key = k, rows'[j].key = k, i # j
               PROVE  ~States!Overlap(rows, i, j)'
    BY Zenon DEF States!InOrderStatesAreDisjoint
  <2>1. ~States!Overlap(rows, i, j)
    BY <1>1, RowsNow DEF Apart
  <2> QED
    BY <1>1, <2>1 DEF States!Overlap
<1> QED
  BY <1>2, <1>3, <1>4 DEF StatesInv

LEMMA StatesInit ==
  ASSUME States!StatesAssumption, States!Init
  PROVE  StatesInv
<1>1. rows = <<>> /\ DOMAIN rows = {} /\ Len(rows) = 0
  BY DEF States!Init
<1>2. MaxRows \in Nat
  BY Zenon DEF States!StatesAssumption
<1>3. States!TypeOK
  BY <1>1, <1>2 DEF States!Init, States!TypeOK, States!NoRun, States!Statuses
<1>4. LockedInv /\ HeldInv
  BY DEF States!Init, LockedInv, HeldInv, States!NoRun
<1>5. States!InOrderStatesAreDisjoint
  BY <1>1 DEF States!InOrderStatesAreDisjoint
<1> QED
  BY <1>3, <1>4, <1>5 DEF StatesInv

LEMMA StatesKept ==
  ASSUME States!StatesAssumption, StatesInv, [States!Bounded]_(States!vars)
  PROVE  StatesInv'
<1>1. CASE States!Bounded
  <2>1. States!Next /\ Len(rows') <= MaxRows
    BY <1>1 DEF States!Bounded
  <2> QED
    BY <2>1, EveryStep, HandlerKeeps, DeletionKeeps
<1>2. CASE UNCHANGED States!vars
  BY <1>2 DEF States!vars, StatesInv, LockedInv, HeldInv, States!TypeOK, States!InOrderStatesAreDisjoint,
              States!Overlap
<1> QED
  BY <1>1, <1>2

LEMMA AppliedNow ==
  ASSUME States!StatesAssumption, StatesInv
  PROVE  States!AppliedValueHolds
<1> SUFFICES ASSUME NEW k \in SingleValue, NEW v \in Values, NEW w \in States!Windows,
                    NEW order \in {0} \cup {p.order : p \in Proposed}, States!WindowOK(w.from, w.to)
             PROVE  LET c == [key |-> k, value |-> v, from |-> w.from, to |-> w.to, order |-> order]
                        new == States!ApplyStateChange(rows, c)
                    IN  /\ \A s \in live : s < w.from => States!View(new, k, s) = States!View(rows, k, s)
                        /\ \/ States!View(new, k, w.from) = {v}
                           \/ order # 0 /\ \E i \in States!ActiveRows(rows, k, w.from) :
                                rows[i].from = w.from /\ rows[i].order > order
                           \/ States!Rewrites(rows, c) /\ States!HasTwin(rows, States!SameScene(rows, k, w.from))
  BY DEF States!AppliedValueHolds, States!NoOrder
<1> DEFINE c == [key |-> k, value |-> v, from |-> w.from, to |-> w.to, order |-> order]
<1>1. order \in Nat
  <2>1. \A p \in Proposed : p.order \in Nat
    BY DEF States!StatesAssumption
  <2> QED
    BY <2>1
<1>2. c \in States!Row
  <2>1. k \in Keys
    BY DEF States!StatesAssumption
  <2> QED
    BY <1>1, <2>1, AuthorWindow DEF WindowIs, States!Row, States!NoScene
<1>3. c.key = k /\ c.value = v /\ c.from = w.from /\ c.to = w.to /\ c.order = order
  OBVIOUS
<1> HIDE DEF c
<1>4. ChangeOK(c)
  BY <1>2, <1>3 DEF ChangeOK
<1>5. \A s \in live : s < w.from => States!View(States!ApplyStateChange(rows, c), k, s) = States!View(rows, k, s)
  BY <1>3, <1>4, RowsNow, ViewBefore
<1>6. \/ States!View(States!ApplyStateChange(rows, c), k, w.from) = {v}
      \/ order # 0 /\ \E i \in States!ActiveRows(rows, k, w.from) :
           rows[i].from = w.from /\ rows[i].order > order
      \/ States!Rewrites(rows, c) /\ States!HasTwin(rows, States!SameScene(rows, k, w.from))
  BY <1>3, <1>4, RowsNow, AppliedHolds
<1> QED
  BY <1>5, <1>6, Zenon DEF c

\* What EntityStates promises of every step, as one action.
Respects ==
  /\ rows' # rows /\ live' = live =>
       \A k \in Keys, s \in live :
         States!View(rows', k, s) # States!View(rows, k, s) => s \in step'.audited
  /\ step'.automatic => \A k \in lockedFirst : States!RowsOf(rows', k) = States!RowsOf(rows, k)
  /\ \A p \in Proposed : review[p].status \in States!Decided =>
       \/ review'[p].status = review[p].status
       \/ held.phase = "stale" /\ p \in held.of /\ held' = States!NoRun

LEMMA StepsRespect ==
  ASSUME States!StatesAssumption, StatesInv, States!Bounded
  PROVE  Respects
<1>1. CASE Handler
  <2>1. \A k \in Keys, s \in live : live' = live /\ States!View(rows', k, s) # States!View(rows, k, s)
          => s \in step'.audited
    BY <1>1 DEF Handler, RowsStep
  <2>2. step'.automatic => \A k \in lockedFirst : States!RowsOf(rows', k) = States!RowsOf(rows, k)
    BY <1>1 DEF Handler, Rest
  <2>3. \A p \in Proposed : review[p].status \in States!Decided =>
          \/ review'[p].status = review[p].status
          \/ held.phase = "stale" /\ p \in held.of /\ held' = States!NoRun
    BY <1>1 DEF Handler, ReviewStep, LockStep, RunStep, EntryOK, Decided, Marks, States!Decided
  <2> QED
    BY <2>1, <2>2, <2>3 DEF Respects
<1>2. CASE Deletion
  <2>1. PICK s \in States!Scenes :
          /\ live' = live \ {s} /\ States!ByHand({})
          /\ UNCHANGED <<rows, locked, review, evidence, held, alerts, lockedFirst, inOrder>>
    BY <1>2 DEF Deletion
  <2>2. step'.automatic = FALSE
    BY <2>1 DEF States!ByHand
  <2> QED
    BY <2>1, <2>2 DEF Respects
<1> QED
  BY <1>1, <1>2, EveryStep DEF States!Bounded

\* The rows of an entity stay consistent: what is applied holds and disturbs no earlier
\* scene, and states that were added in order never overlap (temporal-state.service.ts).
THEOREM RowsStaySound == StatesSpec => []RowsAreSound
<1>1. States!Init => StatesInv
  BY StatesInit, StatesAssumed
<1>2. StatesInv /\ [States!Bounded]_(States!vars) => StatesInv'
  BY StatesKept, StatesAssumed
<1>3. StatesInv => RowsAreSound
  BY AppliedNow, StatesAssumed DEF RowsAreSound, States!RowsAreSound, StatesInv
<1> QED
  BY <1>1, <1>2, <1>3, PTL DEF StatesSpec, States!Spec

\* Every handler has the scenes audited whose snapshot it changed, the automation leaves
\* what the author locked first, and no decision is taken back but by the unguarded mark of
\* an analysis that had read the proposal as pending (temporal-state.service.ts).
THEOREM AuthorIsRespected == StatesSpec => StepsRespectTheAuthor
<1>1. States!Init => StatesInv
  BY StatesInit, StatesAssumed
<1>2. StatesInv /\ [States!Bounded]_(States!vars) => StatesInv'
  BY StatesKept, StatesAssumed
<1>3. StatesInv /\ [States!Bounded]_(States!vars)
        => /\ [rows' # rows /\ live' = live =>
                 \A k \in Keys, s \in live :
                   States!View(rows', k, s) # States!View(rows, k, s) => s \in step'.audited]_(States!vars)
           /\ [step'.automatic => \A k \in lockedFirst :
                 States!RowsOf(rows', k) = States!RowsOf(rows, k)]_(States!vars)
           /\ [\A p \in Proposed : review[p].status \in States!Decided =>
                 \/ review'[p].status = review[p].status
                 \/ held.phase = "stale" /\ p \in held.of /\ held' = States!NoRun]_(States!vars)
  BY StepsRespect, StatesAssumed, Zenon DEF Respects
<1> QED
  BY <1>1, <1>2, <1>3, PTL DEF StatesSpec, States!Spec, StepsRespectTheAuthor, States!StepsRespectTheAuthor,
                               States!ChangedScenesAreAudited, States!LockedKeyIsLeftAlone, States!DecisionIsFinal
=============================================================================
