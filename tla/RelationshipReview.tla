-------------------------- MODULE RelationshipReview --------------------------
(***************************************************************************)
(* The relationship of two characters over the story: its versions, the    *)
(* proposals an analysis makes to create, change or end it, and the        *)
(* author, who decides them, edits the versions by hand and decides the    *)
(* entity proposal one end of them may hang on.                            *)
(*                                                                         *)
(* A version holds from a scene up to, not including, another; scenes are  *)
(* their positions, 0 an open start and Open an open end.  Both entities,  *)
(* the relation type and the order of scenes stay the same.                *)
(***************************************************************************)
EXTENDS Naturals, FiniteSets

CONSTANTS Versions, Proposals, Requests, Evidence,
          None,         \* no version, no proposal
          LastScene,    \* bound: scenes of the project
          Windows       \* the starts and ends the author enters by hand

ASSUME ConstantsAssumption ==
  /\ LastScene \in Nat /\ Windows \subseteq (0..LastScene) \X (1..LastScene + 1)
  /\ None \notin Versions \cup Proposals

VARIABLES
  version,    \* rows of Relationship
  proposal,   \* rows of RelationshipProposal
  endpoint,   \* the entity proposal one end may hang on
  run,        \* the analysis under way and what it holds in memory
  request,    \* acceptances that have read and not yet written
  disturbed,  \* history: lines with a version edited or removed by hand, accepted with
              \* another end, or written where it had changed since it was read
  crossed     \* history: lines that an acceptance began where a version already held

vars == <<version, proposal, endpoint, run, request, disturbed, crossed>>

Scenes == 1..LastScene
Open == LastScene + 1
Kinds == {"CREATE", "UPDATE", "END"}
Ends == {"entity", "proposal", "none"}

\* A row that was never written; one that was removed keeps its line and has no end.
NoVersion == [from |-> 0, to |-> 0, line |-> None]
NoProposal == [status |-> "none", kind |-> "CREATE", scene |-> 0, source |-> 0,
               about |-> None, version |-> None, end |-> "none", evidence |-> {}]
Idle == [phase |-> "idle", scene |-> 0, end |-> "none", source |-> 0,
         drop |-> {}, active |-> {}, open |-> {}, rejected |-> {}]
NoRequest == [proposal |-> None, version |-> None, read |-> NoVersion, to |-> 0]

VersionRow == [from : 0..LastScene, to : 0..Open, line : Versions \cup {None}]
ProposalRow ==
  [status : {"none", "PENDING", "APPROVED", "REJECTED", "OBSOLETE"}, kind : Kinds,
   scene : 0..LastScene, source : 0..LastScene,
   about : Versions \cup {None}, version : Versions \cup {None},
   end : Ends, evidence : SUBSET Evidence]
Run == [phase : {"idle", "drop", "snapshot", "lists", "extract"}, scene : 0..LastScene,
        end : Ends, source : 0..LastScene, drop : SUBSET Proposals,
        active : SUBSET Versions, open : SUBSET Proposals, rejected : SUBSET Proposals]
Request == [proposal : Proposals \cup {None}, version : Versions \cup {None},
            read : VersionRow, to : 0..Open]

Live(v) == version[v].to # 0
Gone(v) == v # None /\ ~Live(v)
Lives == {v \in Versions : Live(v)}

\* Types, and: nothing is approved between ends of which one is not an entity yet.
TypeOK ==
  /\ version \in [Versions -> VersionRow]
  /\ proposal \in [Proposals -> ProposalRow]
  /\ endpoint \in {"proposed", "accepted", "rejected"}
  /\ run \in Run
  /\ request \in [Requests -> Request]
  /\ disturbed \subseteq Versions /\ crossed \subseteq Versions
  /\ (\E p \in Proposals : proposal[p].status = "APPROVED") => endpoint = "accepted"

\* The relationship is known from the start of the story, or is not known yet.
Init ==
  /\ version \in {[v \in Versions |-> IF v = w THEN [from |-> 0, to |-> Open, line |-> w]
                                      ELSE NoVersion] : w \in Versions \cup {None}}
  /\ proposal = [p \in Proposals |-> NoProposal]
  /\ endpoint \in {"proposed", "accepted"}
  /\ (\E v \in Versions : Live(v)) => endpoint = "accepted"
  /\ run = Idle
  /\ request = [q \in Requests |-> NoRequest]
  /\ disturbed = {} /\ crossed = {}

-----------------------------------------------------------------------------
(* Windows.                                                                *)

\* validateRelationshipWindow: an open start or end is never compared.
Proper(from, to) == from = 0 \/ to = Open \/ from < to

\* The unique key: one version per start; an open start (NULL) equals no other.
Disjoint(from) == from = 0 \/ \A v \in Lives : version[v].from # from

ActiveAt(scene) == {v \in Lives : version[v].from <= scene /\ scene < version[v].to}

NewVersion(v, from, to, line) ==
  [version EXCEPT ![v] = [from |-> from, to |-> to, line |-> line]]

Unused == {v \in Versions : version[v] = NoVersion}

-----------------------------------------------------------------------------
(* The author edits versions by hand.                                      *)

CreateRelationship(from, to) ==
  /\ endpoint = "accepted"
  /\ Proper(from, to) /\ Disjoint(from)
  /\ \E v \in Unused : version' = NewVersion(v, from, to, v)
                       /\ disturbed' = disturbed \cup {v}
  /\ UNCHANGED <<proposal, endpoint, run, request, crossed>>

UpdateRelationship(v, from, to) ==
  /\ Live(v)
  /\ Proper(from, to) /\ (from # version[v].from => Disjoint(from))
  /\ version' = [version EXCEPT ![v].from = from, ![v].to = to]
  /\ disturbed' = disturbed \cup {version[v].line}
  /\ UNCHANGED <<proposal, endpoint, run, request, crossed>>

\* Every proposal about it loses its reference.
RemoveRelationship(v) ==
  /\ Live(v)
  /\ version' = [version EXCEPT ![v].from = 0, ![v].to = 0]
  /\ proposal' = [p \in Proposals |-> IF proposal[p].version = v
                    THEN [proposal[p] EXCEPT !.version = None] ELSE proposal[p]]
  /\ disturbed' = disturbed \cup {version[v].line}
  /\ UNCHANGED <<endpoint, run, request, crossed>>

-----------------------------------------------------------------------------
(* The author decides.                                                     *)

AcceptEndpoint ==
  /\ endpoint = "proposed"
  /\ endpoint' = "accepted"
  /\ UNCHANGED <<version, proposal, run, request, disturbed, crossed>>

\* Open proposals that hang on it go with it.
RejectEndpoint ==
  /\ endpoint = "proposed"
  /\ endpoint' = "rejected"
  /\ proposal' = [p \in Proposals |-> IF proposal[p].status = "PENDING" /\ proposal[p].end = "proposal"
                    THEN [proposal[p] EXCEPT !.status = "OBSOLETE"] ELSE proposal[p]]
  /\ UNCHANGED <<version, run, request, disturbed, crossed>>

EndsAccepted(p) == proposal[p].end = "entity" \/ endpoint = "accepted"

\* Mutant of Fits: the scene only has to lie after the start of the old version.
FitsAfterStart(p, to) ==
  LET row == proposal[p] IN
  /\ row.scene < to
  /\ row.version # None => Proper(version[row.version].from, row.scene)

\* A new start must lie inside the version it ends; to is the end the author gave, or Open.
Fits(p, to) ==
  LET row == proposal[p]
      old == IF row.version = None THEN NoVersion ELSE version[row.version]
  IN
  /\ row.scene < to
  /\ old # NoVersion => Proper(old.from, row.scene) /\ Proper(row.scene, old.to)

ReadAccepted(q, p, to) ==
  LET row == proposal[p] IN
  /\ request[q] = NoRequest
  /\ row.status = "PENDING"
  /\ EndsAccepted(p)
  /\ row.kind = "END" => row.version # None
  /\ Fits(p, to)
  /\ request' = [request EXCEPT ![q] = 
       [proposal |-> p, version |-> row.version, to |-> to,
        read |-> IF row.version = None THEN NoVersion ELSE version[row.version]]]
  /\ UNCHANGED <<version, proposal, endpoint, run, disturbed, crossed>>

Approved(p, v) ==
  proposal' = [proposal EXCEPT ![p].status = "APPROVED", ![p].version = v, ![p].end = "entity"]

AcceptEnd(p, r) ==
  /\ version' = [version EXCEPT ![r.version].to = proposal[p].scene]
  /\ Approved(p, r.version)
  /\ UNCHANGED crossed

\* Mutant of NewEnd: the new version stays open.
OpenEnd(r) == r.to

\* Some version holds in a scene between the two; nothing in the code looks.
Meets(from, to) == \E w \in Lives : from < version[w].to /\ version[w].from < to

\* The end the author gave, else the end the old version had when it was read.
NewEnd(r) == IF r.to # Open \/ r.version = None THEN r.to ELSE r.read.to

AcceptVersion(p, r) ==
  LET from == proposal[p].scene IN
  /\ Disjoint(from)
  /\ \E v \in Unused :
       /\ version' = IF r.version = None THEN NewVersion(v, from, NewEnd(r), v)
                     ELSE [NewVersion(v, from, NewEnd(r), r.read.line)
                             EXCEPT ![r.version].to = from]
       /\ crossed' = IF r.version = None /\ Meets(from, r.to) THEN crossed \cup {v} ELSE crossed
       /\ Approved(p, v)

Undisturbed(p, r) ==
  /\ r.version = None \/ (version[r.version] = r.read /\ r.to = Open)
  /\ proposal[p].status = "PENDING"

\* The writes of a transaction; it fails if the version is gone or the start is taken.
WriteAccepted(q) ==
  LET r == request[q]
      p == r.proposal
  IN
  /\ r # NoRequest
  /\ \/ /\ ~Gone(r.version)
        /\ IF proposal[p].kind = "END" THEN AcceptEnd(p, r) ELSE AcceptVersion(p, r)
        /\ disturbed' = IF Undisturbed(p, r) THEN disturbed
                        ELSE disturbed \cup ({r.read.line} \ {None})
     \/ /\ Gone(r.version) \/ ~Disjoint(proposal[p].scene)
        /\ UNCHANGED <<version, proposal, disturbed, crossed>>
  /\ request' = [request EXCEPT ![q] = NoRequest]
  /\ UNCHANGED <<endpoint, run>>

RejectProposal(p) ==
  /\ proposal[p].status = "PENDING"
  /\ proposal' = [proposal EXCEPT ![p].status = "REJECTED"]
  /\ UNCHANGED <<version, endpoint, run, request, disturbed, crossed>>

-----------------------------------------------------------------------------
(* An analysis.                                                            *)

\* The text of a scene changes: what was read from it has no source any more.
Save(s) ==
  /\ proposal' = [p \in Proposals |-> IF proposal[p].source = s
                    THEN [proposal[p] EXCEPT !.source = 0] ELSE proposal[p]]
  /\ run' = IF run.source = s THEN [run EXCEPT !.source = 0] ELSE run
  /\ <<proposal', run'>> # <<proposal, run>>
  /\ UNCHANGED <<version, endpoint, request, disturbed, crossed>>

\* The entities and the chunks of the scene are read, and the open proposals made for
\* it that those chunks, or their ends, do not support ...
StartAnalysis(s) ==
  /\ run = Idle
  /\ run' = [Idle EXCEPT !.phase = "drop", !.scene = s, !.source = s,
               !.end = IF endpoint = "accepted" THEN "entity" ELSE "none", !.drop =
       {p \in Proposals : /\ proposal[p].status = "PENDING" /\ proposal[p].scene = s
                          /\ \/ proposal[p].source # s
                             \/ proposal[p].end = "proposal" /\ endpoint = "rejected"}]
  /\ UNCHANGED <<version, proposal, endpoint, request, disturbed, crossed>>

\* ... are taken back, decided meanwhile or not.
DropProposals ==
  /\ run.phase = "drop"
  /\ proposal' = [p \in Proposals |-> IF p \in run.drop
                    THEN [proposal[p] EXCEPT !.status = "OBSOLETE"] ELSE proposal[p]]
  /\ run' = [run EXCEPT !.phase = "snapshot", !.drop = {}]
  /\ UNCHANGED <<version, endpoint, request, disturbed, crossed>>

TakeSnapshot ==
  /\ run.phase = "snapshot"
  /\ run' = [run EXCEPT !.phase = "lists", !.active = ActiveAt(run.scene)]
  /\ UNCHANGED <<version, proposal, endpoint, request, disturbed, crossed>>

Refused == {p \in Proposals : proposal[p].status = "REJECTED"}

\* The end a candidate names: the entity that was read, else the open proposal for it.
NamedEnd == IF run.end = "none" /\ endpoint = "proposed" THEN "proposal" ELSE run.end

\* The open proposals of the project, those for entities too, and the rejected ones.
ReadLists ==
  /\ run.phase = "lists"
  /\ run' = [run EXCEPT !.phase = "extract", !.end = NamedEnd,
       !.open = {p \in Proposals : proposal[p].status = "PENDING"}, !.rejected = Refused]
  /\ UNCHANGED <<version, proposal, endpoint, request, disturbed, crossed>>

\* A version is matched by its id; without one, the two ends are compared.
Matches(p, kind, v) ==
  /\ proposal[p].kind = kind
  /\ IF v # None THEN proposal[p].version = v ELSE proposal[p].end = run.end

\* What the model finds: merged into an open proposal, dropped if one was rejected on
\* the same evidence, else proposed.
Candidate(kind, evidence) ==
  LET found == {v \in run.active : Live(v) /\ run.end = "entity"}
      matching(set, v) == {p \in set : Matches(p, kind, v)}
  IN
  /\ run.phase = "extract"
  /\ run.end # "none"
  /\ \E v \in IF found = {} THEN {None} ELSE found :
       /\ \A p \in matching(run.rejected, v) : proposal[p].evidence \cap evidence = {}
       /\ IF matching(run.open, v) # {}
          THEN \E p \in matching(run.open, v) :
                 /\ proposal' = [proposal EXCEPT ![p].evidence = @ \cup evidence,
                                   ![p].source = run.source]
                 /\ UNCHANGED run
          ELSE \E p \in {x \in Proposals : proposal[x] = NoProposal} :
                 /\ proposal' = [proposal EXCEPT ![p] =
                      [status |-> "PENDING", kind |-> kind, scene |-> run.scene,
                       source |-> run.source, about |-> v, version |-> v,
                       end |-> run.end, evidence |-> evidence]]
                 /\ run' = [run EXCEPT !.open = @ \cup {p}]
  /\ UNCHANGED <<version, endpoint, request, disturbed, crossed>>

\* The last chunk is done, or the job fails.
EndAnalysis ==
  /\ run # Idle
  /\ run' = Idle
  /\ UNCHANGED <<version, proposal, endpoint, request, disturbed, crossed>>

Next ==
  \/ \E s \in Scenes : Save(s) \/ StartAnalysis(s)
  \/ DropProposals \/ TakeSnapshot \/ ReadLists \/ EndAnalysis
  \/ \E k \in Kinds, e \in Evidence : Candidate(k, {e})
  \/ AcceptEndpoint \/ RejectEndpoint
  \/ \E p \in Proposals : RejectProposal(p)
  \/ \E q \in Requests :
       \/ WriteAccepted(q)
       \/ \E p \in Proposals, to \in 1..Open : ReadAccepted(q, p, to)
  \/ \E w \in Windows : CreateRelationship(w[1], w[2])
  \/ \E v \in Versions : \/ RemoveRelationship(v)
                         \/ \E w \in Windows : UpdateRelationship(v, w[1], w[2])

Spec == Init /\ [][Next]_vars

-----------------------------------------------------------------------------
Line(l) == {v \in Lives : version[v].line = l}

Separate(v, w) == version[v].to <= version[w].from \/ version[w].to <= version[v].from

\* Lines whose versions must not overlap, a line and itself among them.
Compared(l, m) == {l, m} \cap disturbed = {} /\ (l = m \/ {l, m} \cap crossed = {})

\* At most one version of the relationship holds in a scene: accepted changes and ends,
\* in whatever order, split it into versions that do not overlap.  There are two
\* exceptions: a line somebody edits by hand, or that is written where it had changed
\* since it was read; and against other lines, one that an acceptance without a known
\* version began where a version already held, as when what an earlier scene proposes
\* is accepted last.
VersionsDisjoint ==
  \A v, w \in Lives : Compared(version[v].line, version[w].line) =>
    /\ version[v].from < version[v].to
    /\ v # w => Separate(v, w)

\* The scenes in which some version of a line holds.
Covered(l) == {s \in 0..LastScene : \E v \in Line(l) : version[v].from <= s /\ s < version[v].to}

\* A relationship that has ended stays ended: no acceptance, not even of a change that
\* was proposed before the end was, makes a line hold in a scene it no longer held in.
EndedStaysEnded ==
  [][\A l \in Versions \ disturbed' : Line(l) # {} => Covered(l)' \subseteq Covered(l)]_vars

\* What the author has rejected is not proposed again on the same evidence: of two
\* proposals that say the same thing of the same ends, open or rejected, no two share a
\* quote, whatever is rejected while an analysis is under way.
RejectedStaysAway ==
  \A p, q \in Proposals :
    /\ p # q
    /\ {proposal[p].status, proposal[q].status} \subseteq {"PENDING", "REJECTED"}
    /\ proposal[p].kind = proposal[q].kind
    /\ proposal[p].about = proposal[q].about
    /\ proposal[p].version = proposal[p].about /\ proposal[q].version = proposal[q].about
    /\ proposal[p].end = proposal[q].end
    => proposal[p].evidence \cap proposal[q].evidence = {}

\* The versions of a relationship and the proposals about it, taken together.
VersionsAreSound == TypeOK /\ VersionsDisjoint /\ RejectedStaysAway
=============================================================================
