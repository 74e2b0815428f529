----------------------- MODULE RelationshipReview_proofs -----------------------
(***************************************************************************)
(* That the versions of a relationship stay apart, that what has ended     *)
(* stays ended and what was rejected stays away, for any number of         *)
(* versions, proposals, acceptances under way and scenes.                  *)
(*                                                                         *)
(* Two lines never meet because no step makes a line hold in a scene where *)
(* it did not (CoverKept), but the step that begins it.                    *)
(* An acceptance splits or cuts the version it has read, and what it read  *)
(* still holds unless the line is disturbed (RequestsInv).  An analysis    *)
(* knows every proposal that is open or rejected (ListsInv), also those    *)
(* that are rejected while it goes on.                                     *)
(***************************************************************************)
EXTENDS RelationshipReview, TLAPS

\* Open or rejected: what the author was told, and has not accepted.
Says(p) == proposal[p].status \in {"PENDING", "REJECTED"}

Same(p, q) ==
  /\ proposal[p].kind = proposal[q].kind
  /\ proposal[p].about = proposal[q].about
  /\ proposal[p].version = proposal[p].about /\ proposal[q].version = proposal[q].about
  /\ proposal[p].end = proposal[q].end

\* An entity end is one the author has accepted, and that is never taken back.
EndpointInv ==
  /\ \A p \in Proposals : proposal[p].end = "entity" => endpoint = "accepted"
  /\ run.end = "entity" => endpoint = "accepted"
  /\ \A q \in Requests : request[q] # NoRequest => endpoint = "accepted"

\* A version belongs to the line of the one it was split from.
LinesInv ==
  \A v \in Versions :
    /\ version[v].line = None => version[v] = NoVersion
    /\ version[v].line # None => version[version[v].line].line = version[v].line

ProposalsInv ==
  \A p \in Proposals :
    /\ proposal[p].status = "none" => proposal[p] = NoProposal
    /\ proposal[p].status # "none" => proposal[p].scene # 0
    /\ proposal[p].version # None => Live(proposal[p].version)
    /\ Says(p) => proposal[p].version \in {proposal[p].about, None}

\* What an analysis holds was proposed, and what it saw rejected is not open again.
MemoryInv ==
  /\ \A p \in run.drop \cup run.open : proposal[p].status # "none"
  /\ \A p \in run.rejected : proposal[p].status \notin {"none", "PENDING"}
  /\ run.phase # "idle" => run.scene # 0

\* What an acceptance has read: the proposal fits into the version as it was.
HasRead(r) ==
  /\ r.proposal # None
  /\ proposal[r.proposal].status # "none"
  /\ proposal[r.proposal].scene < r.to
  /\ proposal[r.proposal].kind = "END" => r.version # None
  /\ r.version = None => r.read = NoVersion
  /\ r.version # None =>
       /\ r.read.line # None /\ r.read.to # 0
       /\ version[r.version].line = r.read.line
       /\ Proper(r.read.from, proposal[r.proposal].scene)
       /\ Proper(proposal[r.proposal].scene, r.read.to)

RequestsInv == \A q \in Requests : request[q] # NoRequest => HasRead(request[q])

\* The author is told a thing once ...
OnceInv ==
  \A p, q \in Proposals :
    proposal[p].status = "PENDING" /\ proposal[q].status = "PENDING" /\ Same(p, q) => p = q

\* ... because an analysis knows what is open and what is rejected.
ListsInv ==
  run.phase = "extract" =>
    /\ \A p \in Proposals : Says(p) => p \in run.open \cup run.rejected
    /\ \A p, q \in run.open : Says(p) /\ Says(q) /\ Same(p, q) => p = q

KnownInv == OnceInv /\ ListsInv /\ RejectedStaysAway

\* What VersionsDisjoint says of the versions of one line, and of those of two.
LineDisjoint ==
  \A l \in Versions \ disturbed : \A v, w \in Line(l) :
    /\ version[v].from < version[v].to
    /\ v # w => Separate(v, w)

LinesApart ==
  \A l, m \in Versions \ (disturbed \cup crossed) :
    l # m => \A v \in Line(l), w \in Line(m) : Separate(v, w)

ApartInv == LineDisjoint /\ LinesApart

IInv ==
  /\ TypeOK /\ EndpointInv /\ LinesInv /\ ProposalsInv /\ MemoryInv /\ RequestsInv
  /\ ApartInv /\ KnownInv
-----------------------------------------------------------------------------
LEMMA InitEstablishes == Init => IInv
<1> SUFFICES ASSUME Init PROVE IInv
  OBVIOUS
<1>1. /\ NoVersion \in VersionRow /\ NoProposal \in ProposalRow /\ Idle \in Run
      /\ NoRequest \in Request
  BY ConstantsAssumption
     DEF NoVersion, VersionRow, NoProposal, ProposalRow, Kinds, Ends, Idle, Run, NoRequest, Request, Open
<1>2. PICK w \in Versions \cup {None} :
        version = [v \in Versions |-> IF v = w THEN [from |-> 0, to |-> Open, line |-> w]
                                      ELSE NoVersion]
  BY DEF Init
<1>3. \A v \in Versions : /\ v # w => version[v] = NoVersion
                          /\ v = w => version[v] = [from |-> 0, to |-> Open, line |-> w]
  BY <1>2
<1>4. Open \in Nat /\ Open # 0
  BY ConstantsAssumption DEF Open
<1>5. \A p \in Proposals : proposal[p] = NoProposal
  BY DEF Init
<1>6. TypeOK
  <2>1. version \in [Versions -> VersionRow]
    BY <1>1, <1>2, <1>4, ConstantsAssumption DEF VersionRow
  <2>2. /\ proposal \in [Proposals -> ProposalRow] /\ request \in [Requests -> Request]
        /\ run \in Run /\ endpoint \in {"proposed", "accepted", "rejected"}
        /\ disturbed \subseteq Versions /\ crossed \subseteq Versions
    BY <1>1 DEF Init
  <2> QED
    BY <1>5, <2>1, <2>2 DEF TypeOK, NoProposal
<1>7. EndpointInv
  BY <1>5 DEF Init, EndpointInv, NoProposal, Idle
<1>8. LinesInv
  BY <1>3, ConstantsAssumption DEF LinesInv, NoVersion
<1>9. ProposalsInv
  BY <1>5 DEF ProposalsInv, NoProposal, Says
<1>10. RequestsInv
  BY DEF Init, RequestsInv
<1>11. ApartInv
  <2>1. \A l \in Versions : \A v \in Line(l) : v = w
    BY <1>3 DEF Line, Lives, Live, NoVersion
  <2> QED
    BY <1>3, <1>4, <2>1 DEF ApartInv, LineDisjoint, LinesApart, Line, Lives
<1>12. KnownInv
  BY <1>5 DEF Init, KnownInv, OnceInv, ListsInv, RejectedStaysAway, Says, NoProposal, Idle
<1>13. MemoryInv
  BY DEF Init, MemoryInv, Idle
<1> QED
  BY <1>6, <1>7, <1>8, <1>9, <1>10, <1>11, <1>12, <1>13 DEF IInv
-----------------------------------------------------------------------------
(* What a step must respect *)

\* What the invariant says of a proposal.
LEMMA ProposalFacts ==
  ASSUME IInv, NEW p \in Proposals
  PROVE  /\ proposal[p].status = "none" <=> proposal[p] = NoProposal
         /\ proposal[p].status # "none" => proposal[p].scene # 0
         /\ proposal[p].version # None => Live(proposal[p].version)
         /\ Says(p) => proposal[p].version \in {proposal[p].about, None}
         /\ proposal[p].end = "entity" => endpoint = "accepted"
<1>1. proposal[p].status = "none" <=> proposal[p] = NoProposal
  <2>1. proposal[p].status = "none" => proposal[p] = NoProposal
    BY DEF IInv, ProposalsInv
  <2>2. NoProposal.status = "none"
    BY DEF NoProposal
  <2> QED
    BY ONLY <2>1, <2>2
<1>2. /\ proposal[p].status # "none" => proposal[p].scene # 0
      /\ proposal[p].version # None => Live(proposal[p].version)
      /\ Says(p) => proposal[p].version \in {proposal[p].about, None}
  BY DEF IInv, ProposalsInv
<1>3. proposal[p].end = "entity" => endpoint = "accepted"
  BY DEF IInv, EndpointInv
<1> QED
  BY <1>1, <1>2, <1>3

\* A proposal keeps what it says, or says nothing any more.
Fades(a, b) ==
  /\ b.kind = a.kind /\ b.scene = a.scene /\ b.about = a.about /\ b.evidence = a.evidence
  /\ b.status = "none" <=> a.status = "none"
  /\ b.status \in {"PENDING", "REJECTED"} =>
       /\ a.status \in {"PENDING", "REJECTED"}
       /\ b.status = "PENDING" => a.status = "PENDING"
       /\ b.end = a.end
       /\ b.version = a.version \/ b.version = None

LEMMA FadingKeepsKnown ==
  ASSUME IInv, \A p \in Proposals : Fades(proposal[p], proposal'[p]),
         \/ run'.phase # "extract"
         \/ run'.phase = run.phase /\ run'.open = run.open /\ run'.rejected = run.rejected
  PROVE  KnownInv'
<1>1. \A p \in Proposals : Says(p)' => Says(p)
  BY DEF Fades, Says
<1>2. \A p \in Proposals : proposal'[p].status = "PENDING" => proposal[p].status = "PENDING"
  BY DEF Fades
<1>3. \A p, q \in Proposals : Says(p)' /\ Says(q)' /\ Same(p, q)' => Same(p, q)
  <2> SUFFICES ASSUME NEW p \in Proposals, NEW q \in Proposals, Says(p)', Says(q)', Same(p, q)'
               PROVE  Same(p, q)
    OBVIOUS
  <2>1. \A x \in {p, q} : proposal[x].version = proposal[x].about
    BY <1>1 DEF Fades, Says, Same, IInv, ProposalsInv
  <2> QED
    BY <2>1 DEF Fades, Says, Same
<1>4. OnceInv'
  BY <1>2, <1>3 DEF OnceInv, Says, IInv, KnownInv
<1>5. ListsInv'
  BY <1>1, <1>3 DEF ListsInv, IInv, KnownInv, TypeOK, Run
<1>6. RejectedStaysAway'
  <2> SUFFICES ASSUME NEW p \in Proposals, NEW q \in Proposals, p # q, Says(p)', Says(q)',
                      Same(p, q)'
               PROVE  proposal'[p].evidence \cap proposal'[q].evidence = {}
    BY DEF RejectedStaysAway, Says, Same
  <2>1. Says(p) /\ Says(q) /\ Same(p, q)
    BY <1>1, <1>3
  <2>2. proposal[p].evidence \cap proposal[q].evidence = {}
    BY <2>1 DEF RejectedStaysAway, Says, Same, IInv, KnownInv
  <2> QED
    BY <2>2 DEF Fades
<1> QED
  BY <1>4, <1>5, <1>6 DEF KnownInv

\* Steps that leave the versions and the acceptances alone.
LEMMA StoryKept ==
  ASSUME IInv, proposal' \in [Proposals -> ProposalRow], run' \in Run,
         UNCHANGED <<version, request, disturbed, crossed>>,
         endpoint' \in {"proposed", "accepted", "rejected"},
         endpoint = "accepted" => endpoint' = "accepted",
         run'.end = "entity" => endpoint' = "accepted",
         MemoryInv',
         \A p \in Proposals :
           /\ proposal[p].status # "none" =>
                proposal'[p].scene = proposal[p].scene /\ proposal'[p].kind = proposal[p].kind
           /\ proposal'[p].status = "none" <=> proposal'[p] = NoProposal
           /\ proposal[p].status # "none" => proposal'[p].status # "none"
           /\ proposal'[p].status # "none" => proposal'[p].scene # 0
           /\ proposal'[p].status = "APPROVED" => proposal[p].status = "APPROVED"
           /\ proposal'[p].end = "entity" => endpoint' = "accepted"
           /\ proposal'[p].version # None => Live(proposal'[p].version)
           /\ Says(p)' => proposal'[p].version \in {proposal'[p].about, None},
         KnownInv'
  PROVE  IInv'
<1>1. TypeOK'
  BY DEF IInv, TypeOK
<1>2. EndpointInv'
  BY DEF IInv, EndpointInv
<1>3. LinesInv'
  BY DEF IInv, LinesInv
<1>4. ProposalsInv'
  BY DEF ProposalsInv, Live
<1>5. RequestsInv'
  <2> SUFFICES ASSUME NEW q \in Requests, request[q] # NoRequest PROVE HasRead(request[q])'
    BY DEF RequestsInv
  <2>1. HasRead(request[q]) /\ request[q] \in Request
    BY DEF IInv, RequestsInv, TypeOK
  <2>2. request[q].proposal \in Proposals
    BY <2>1 DEF HasRead, Request
  <2> QED
    BY <2>1, <2>2 DEF HasRead, Proper
<1>6. ApartInv'
  BY DEF IInv, ApartInv, LineDisjoint, LinesApart, Separate, Line, Lives, Live
<1> QED
  BY <1>1, <1>2, <1>3, <1>4, <1>5, <1>6 DEF IInv

\* Steps of which only the analysis knows.
LEMMA MemoryKept ==
  ASSUME IInv, run' \in Run, UNCHANGED <<version, proposal, endpoint, request, disturbed, crossed>>,
         run'.end = "entity" => endpoint = "accepted",
         MemoryInv', KnownInv'
  PROVE  IInv'
<1>1. \A p \in Proposals :
        /\ proposal[p].status = "none" <=> proposal[p] = NoProposal
        /\ proposal[p].status # "none" => proposal[p].scene # 0
        /\ proposal[p].end = "entity" => endpoint = "accepted"
        /\ proposal[p].version # None => Live(proposal[p].version)
        /\ Says(p) => proposal[p].version \in {proposal[p].about, None}
  BY ProposalFacts
<1>2. proposal \in [Proposals -> ProposalRow] /\ endpoint \in {"proposed", "accepted", "rejected"}
  BY DEF IInv, TypeOK
<1>3. \A p \in Proposals : Says(p)' = Says(p)
  BY DEF Says
<1> QED
  BY <1>1, <1>2, <1>3, StoryKept

\* Steps that make proposals fade, and change nothing else of the story.
LEMMA FadingKept ==
  ASSUME IInv, proposal' \in [Proposals -> ProposalRow], run' \in Run,
         UNCHANGED <<version, request, disturbed, crossed>>,
         endpoint' \in {"proposed", "accepted", "rejected"},
         endpoint = "accepted" => endpoint' = "accepted",
         run'.end = run.end, run'.scene = run.scene, run'.drop \subseteq run.drop,
         run'.open = run.open, run'.rejected = run.rejected,
         \A p \in Proposals :
           /\ Fades(proposal[p], proposal'[p])
           /\ proposal'[p].version = proposal[p].version /\ proposal'[p].end = proposal[p].end
           /\ proposal'[p].status = "none" => proposal'[p] = proposal[p]
           /\ proposal'[p].status = "APPROVED" => proposal[p].status = "APPROVED",
         run'.phase = run.phase \/ (run'.phase = "snapshot" /\ run.phase # "idle")
  PROVE  IInv'
<1>1. KnownInv'
  BY FadingKeepsKnown
<1>2. \A p \in Proposals :
        /\ proposal'[p].scene = proposal[p].scene /\ proposal'[p].kind = proposal[p].kind
        /\ proposal'[p].status = "none" <=> proposal[p].status = "none"
        /\ proposal'[p].about = proposal[p].about
        /\ Says(p)' => Says(p)
  BY DEF Fades, Says
<1>3. \A p \in Proposals :
        /\ proposal[p].status = "none" <=> proposal[p] = NoProposal
        /\ proposal[p].status # "none" => proposal[p].scene # 0
        /\ proposal[p].version # None => Live(proposal[p].version)
        /\ Says(p) => proposal[p].version \in {proposal[p].about, None}
        /\ proposal[p].end = "entity" => endpoint' = "accepted"
  BY ProposalFacts
<1>4. run'.end = "entity" => endpoint' = "accepted"
  BY DEF IInv, EndpointInv
<1>5. \A p \in Proposals : proposal'[p].status = "none" <=> proposal'[p] = NoProposal
  BY <1>2, <1>3 DEF NoProposal
<1>6. MemoryInv'
  <2>1. run.drop \cup run.open \cup run.rejected \subseteq Proposals
    BY DEF IInv, TypeOK, Run
  <2>2. \A p \in Proposals : proposal'[p].status \in {"none", "PENDING"}
                               => proposal[p].status = proposal'[p].status
    BY DEF Fades
  <2> QED
    BY <2>1, <2>2 DEF IInv, MemoryInv
<1> QED
  BY <1>1, <1>2, <1>3, <1>4, <1>5, <1>6, StoryKept
-----------------------------------------------------------------------------
(* The author decides, and saves *)

LEMMA TypedFade ==
  ASSUME IInv, NEW p \in Proposals,
         NEW s \in {"none", "PENDING", "APPROVED", "REJECTED", "OBSOLETE"}
  PROVE  [proposal[p] EXCEPT !.status = s] \in ProposalRow
BY DEF IInv, TypeOK, ProposalRow

LEMMA SavePreserves == ASSUME IInv, NEW s \in Scenes, Save(s) PROVE IInv'
<1>1. proposal' = [p \in Proposals |-> IF proposal[p].source = s
                     THEN [proposal[p] EXCEPT !.source = 0] ELSE proposal[p]]
  BY DEF Save
<1>2. \A p \in Proposals : proposal[p] \in ProposalRow
  BY DEF IInv, TypeOK
<1>3. \A p \in Proposals : [proposal[p] EXCEPT !.source = 0] \in ProposalRow
  BY <1>2, ConstantsAssumption DEF ProposalRow
<1>4. proposal' \in [Proposals -> ProposalRow]
  BY <1>1, <1>2, <1>3
<1>5. run' \in Run /\ run'.end = run.end /\ run'.scene = run.scene /\ run'.drop = run.drop
      /\ run'.phase = run.phase /\ run'.open = run.open
      /\ run'.rejected = run.rejected
  BY ConstantsAssumption DEF Save, IInv, TypeOK, Run
<1>6. \A p \in Proposals :
        /\ Fades(proposal[p], proposal'[p])
        /\ proposal'[p].version = proposal[p].version /\ proposal'[p].end = proposal[p].end
        /\ proposal'[p].status = proposal[p].status
  BY <1>1, <1>2 DEF Fades, ProposalRow
<1>7. \A p \in Proposals : proposal[p].status = "none" => proposal'[p] = proposal[p]
  <2> SUFFICES ASSUME NEW p \in Proposals, proposal[p].status = "none"
               PROVE  proposal'[p] = proposal[p]
    OBVIOUS
  <2>1. proposal[p].source = 0
    BY DEF IInv, ProposalsInv, NoProposal
  <2> QED
    BY <1>1, <2>1 DEF Scenes
<1> QED
  BY <1>4, <1>5, <1>6, <1>7, FadingKept DEF Save, IInv, TypeOK

\* A status that only fades.
LEMMA StatusFades ==
  ASSUME IInv, NEW S \in SUBSET Proposals, \A p \in S : proposal[p].status # "none",
         NEW new \in {"REJECTED", "OBSOLETE"},
         new = "REJECTED" => \A p \in S : proposal[p].status = "PENDING",
         proposal' = [p \in Proposals |-> IF p \in S
                        THEN [proposal[p] EXCEPT !.status = new] ELSE proposal[p]]
  PROVE  /\ proposal' \in [Proposals -> ProposalRow]
         /\ \A p \in Proposals :
              /\ Fades(proposal[p], proposal'[p])
              /\ proposal'[p].version = proposal[p].version /\ proposal'[p].end = proposal[p].end
              /\ proposal'[p].status = "none" => proposal'[p] = proposal[p]
              /\ proposal'[p].status = "APPROVED" => proposal[p].status = "APPROVED"
<1>1. \A p \in Proposals : proposal[p] \in ProposalRow
  BY DEF IInv, TypeOK
<1>2. proposal' \in [Proposals -> ProposalRow]
  BY <1>1, TypedFade
<1>3. ASSUME NEW p \in S PROVE Fades(proposal[p], proposal'[p]) /\ proposal'[p].status = new
                               /\ proposal'[p].version = proposal[p].version
                               /\ proposal'[p].end = proposal[p].end
  BY <1>1, <1>3 DEF Fades, ProposalRow
<1>4. ASSUME NEW p \in Proposals, p \notin S PROVE Fades(proposal[p], proposal'[p])
                                                   /\ proposal'[p] = proposal[p]
  BY <1>4 DEF Fades
<1> QED
  BY <1>2, <1>3, <1>4

LEMMA RejectProposalPreserves == ASSUME IInv, NEW p \in Proposals, RejectProposal(p) PROVE IInv'
<1>1. proposal' = [x \in Proposals |-> IF x \in {p}
                     THEN [proposal[x] EXCEPT !.status = "REJECTED"] ELSE proposal[x]]
  BY DEF RejectProposal, IInv, TypeOK
<1>2. \A x \in {p} : proposal[x].status # "none" /\ proposal[x].status = "PENDING"
  BY DEF RejectProposal
<1>3. /\ proposal' \in [Proposals -> ProposalRow]
      /\ \A x \in Proposals :
           /\ Fades(proposal[x], proposal'[x])
           /\ proposal'[x].version = proposal[x].version /\ proposal'[x].end = proposal[x].end
           /\ proposal'[x].status = "none" => proposal'[x] = proposal[x]
           /\ proposal'[x].status = "APPROVED" => proposal[x].status = "APPROVED"
  BY <1>1, <1>2, StatusFades
<1> QED
  BY <1>3, FadingKept DEF RejectProposal, IInv, TypeOK

LEMMA AcceptEndpointPreserves == ASSUME IInv, AcceptEndpoint PROVE IInv'
<1>1. \A p \in Proposals : Fades(proposal[p], proposal'[p]) /\ proposal'[p] = proposal[p]
  BY DEF AcceptEndpoint, Fades
<1> QED
  BY <1>1, FadingKept DEF AcceptEndpoint, IInv, TypeOK

LEMMA RejectEndpointPreserves == ASSUME IInv, RejectEndpoint PROVE IInv'
<1> DEFINE S == {p \in Proposals : proposal[p].status = "PENDING" /\ proposal[p].end = "proposal"}
<1>1. proposal' = [p \in Proposals |-> IF p \in S
                     THEN [proposal[p] EXCEPT !.status = "OBSOLETE"] ELSE proposal[p]]
  BY DEF RejectEndpoint
<1>2. S \in SUBSET Proposals /\ \A p \in S : proposal[p].status # "none"
  OBVIOUS
<1>3. /\ proposal' \in [Proposals -> ProposalRow]
      /\ \A p \in Proposals :
           /\ Fades(proposal[p], proposal'[p])
           /\ proposal'[p].version = proposal[p].version /\ proposal'[p].end = proposal[p].end
           /\ proposal'[p].status = "none" => proposal'[p] = proposal[p]
           /\ proposal'[p].status = "APPROVED" => proposal[p].status = "APPROVED"
  <2> HIDE DEF S
  <2> QED
    BY <1>1, <1>2, StatusFades
<1> QED
  BY <1>3, FadingKept DEF RejectEndpoint, IInv, TypeOK

LEMMA DropProposalsPreserves == ASSUME IInv, DropProposals PROVE IInv'
<1>1. run.drop \in SUBSET Proposals /\ run' \in Run /\ run'.end = run.end /\ run'.scene = run.scene
      /\ run'.phase = "snapshot" /\ run'.drop = {}
      /\ run'.open = run.open /\ run'.rejected = run.rejected
  BY DEF DropProposals, IInv, TypeOK, Run
<1>2. \A p \in run.drop : proposal[p].status # "none"
  BY DEF DropProposals, IInv, MemoryInv
<1>3. /\ proposal' \in [Proposals -> ProposalRow]
      /\ \A p \in Proposals :
           /\ Fades(proposal[p], proposal'[p])
           /\ proposal'[p].version = proposal[p].version /\ proposal'[p].end = proposal[p].end
           /\ proposal'[p].status = "none" => proposal'[p] = proposal[p]
           /\ proposal'[p].status = "APPROVED" => proposal[p].status = "APPROVED"
  BY <1>1, <1>2, StatusFades DEF DropProposals
<1> QED
  BY <1>1, <1>3, FadingKept DEF DropProposals, IInv, TypeOK
-----------------------------------------------------------------------------
(* An analysis *)

\* Outside the extraction the analysis has no lists to keep.
LEMMA ListlessKeepsKnown ==
  ASSUME IInv, UNCHANGED proposal, run'.phase # "extract" PROVE KnownInv'
<1>1. OnceInv' /\ RejectedStaysAway'
  BY DEF IInv, KnownInv, OnceInv, RejectedStaysAway, Same
<1> QED
  BY <1>1 DEF KnownInv, ListsInv

LEMMA StartAnalysisPreserves == ASSUME IInv, NEW s \in Scenes, StartAnalysis(s) PROVE IInv'
<1> DEFINE S == {p \in Proposals :
                   /\ proposal[p].status = "PENDING" /\ proposal[p].scene = s
                   /\ \/ proposal[p].source # s
                      \/ proposal[p].end = "proposal" /\ endpoint = "rejected"}
<1>a. run' = [phase |-> "drop", scene |-> s, source |-> s,
              end |-> IF endpoint = "accepted" THEN "entity" ELSE "none",
              drop |-> S, active |-> {}, open |-> {}, rejected |-> {}]
  BY DEF StartAnalysis, Idle
<1>b. S \in SUBSET Proposals /\ \A p \in S : proposal[p].status # "none"
  OBVIOUS
<1> HIDE DEF S
<1>1. /\ run' \in Run /\ run'.phase = "drop"
      /\ run'.end = "entity" => endpoint = "accepted"
  BY <1>a, <1>b, ConstantsAssumption DEF Run, Scenes, Ends
<1>3. MemoryInv'
  <2>1. s # 0
    BY ConstantsAssumption DEF Scenes
  <2>2. run'.drop = S /\ run'.open = {} /\ run'.rejected = {} /\ run'.scene = s
    BY <1>a
  <2>3. proposal' = proposal
    BY DEF StartAnalysis
  <2> QED
    BY <1>b, <2>1, <2>2, <2>3 DEF MemoryInv
<1>2. KnownInv'
  BY <1>1, ListlessKeepsKnown DEF StartAnalysis
<1> QED
  BY <1>1, <1>2, <1>3, MemoryKept DEF StartAnalysis

LEMMA TakeSnapshotPreserves == ASSUME IInv, TakeSnapshot PROVE IInv'
<1>1. /\ run' \in Run /\ run'.phase = "lists" /\ run'.end = run.end /\ run'.drop = run.drop /\ run'.scene = run.scene
      /\ run'.open = run.open /\ run'.rejected = run.rejected
  BY DEF TakeSnapshot, IInv, TypeOK, Run, ActiveAt, Lives
<1>2. KnownInv'
  BY <1>1, ListlessKeepsKnown DEF TakeSnapshot
<1>3. MemoryInv'
  BY <1>1 DEF TakeSnapshot, IInv, MemoryInv
<1> QED
  BY <1>1, <1>2, <1>3, MemoryKept DEF TakeSnapshot, IInv, EndpointInv

LEMMA EndAnalysisPreserves == ASSUME IInv, EndAnalysis PROVE IInv'
<1>1. run' \in Run /\ run'.phase # "extract" /\ run'.end = "none" /\ run' = Idle
  BY ConstantsAssumption DEF EndAnalysis, Idle, Run, Ends
<1>2. KnownInv'
  BY <1>1, ListlessKeepsKnown DEF EndAnalysis
<1>3. MemoryInv'
  BY <1>1 DEF MemoryInv, Idle
<1> QED
  BY <1>1, <1>2, <1>3, MemoryKept DEF EndAnalysis

LEMMA ReadListsPreserves == ASSUME IInv, ReadLists PROVE IInv'
<1>1. /\ run' \in Run /\ run'.drop = run.drop /\ run'.scene = run.scene
      /\ run'.open = {p \in Proposals : proposal[p].status = "PENDING"}
      /\ run'.rejected = {p \in Proposals : proposal[p].status = "REJECTED"}
  BY DEF ReadLists, IInv, TypeOK, Run, Refused, NamedEnd, Ends
<1>2. run'.end = "entity" => endpoint = "accepted"
  BY DEF ReadLists, NamedEnd, IInv, EndpointInv, TypeOK, Run
<1>3. OnceInv' /\ RejectedStaysAway'
  BY DEF ReadLists, IInv, KnownInv, OnceInv, RejectedStaysAway, Same
<1>4. ListsInv'
  BY <1>1 DEF ReadLists, ListsInv, Says, Same, IInv, KnownInv, OnceInv
<1>5. MemoryInv'
  BY <1>1 DEF ReadLists, IInv, MemoryInv
<1> QED
  BY <1>1, <1>2, <1>3, <1>4, <1>5, MemoryKept DEF ReadLists, KnownInv

\* What a candidate names: a version that is active and lives, or none.
LEMMA CandidatePreserves ==
  ASSUME IInv, NEW kind \in Kinds, NEW evidence \in SUBSET Evidence, Candidate(kind, evidence)
  PROVE  IInv'
<1> DEFINE found == {v \in run.active : Live(v) /\ run.end = "entity"}
           matching(set, v) == {p \in set : Matches(p, kind, v)}
<1>1. run \in Run /\ run.phase = "extract" /\ run.end # "none" /\ run.scene \in 0..LastScene
  BY DEF Candidate, IInv, TypeOK, Run
<1>2. PICK v \in IF found = {} THEN {None} ELSE found :
        /\ \A p \in matching(run.rejected, v) : proposal[p].evidence \cap evidence = {}
        /\ IF matching(run.open, v) # {}
           THEN \E p \in matching(run.open, v) :
                  /\ proposal' = [proposal EXCEPT ![p].evidence = @ \cup evidence,
                                    ![p].source = run.source]
                  /\ UNCHANGED run
           ELSE \E p \in {x \in Proposals : proposal[x] = NoProposal} :
                  /\ proposal' = [proposal EXCEPT ![p] =
                       [status |-> "PENDING", kind |-> kind, scene |-> run.scene,
                        source |-> run.source, about |-> v, version |-> v,
                        end |-> run.end, evidence |-> evidence]]
                  /\ run' = [run EXCEPT !.open = @ \cup {p}]
  BY DEF Candidate
<1>3. v \in Versions \cup {None} /\ (v # None => Live(v) /\ run.end = "entity")
  BY <1>1, <1>2 DEF Run
<1>4. UNCHANGED <<version, endpoint, request, disturbed, crossed>>
  BY DEF Candidate
<1>5. \A q \in Proposals : Says(q) => q \in run.open \cup run.rejected
  BY <1>1 DEF IInv, KnownInv, ListsInv
<1>6. CASE matching(run.open, v) # {}
  <2>1. PICK p \in matching(run.open, v) :
          /\ proposal' = [proposal EXCEPT ![p].evidence = @ \cup evidence, ![p].source = run.source]
          /\ UNCHANGED run
    BY <1>2, <1>6
  <2>2. p \in Proposals /\ p \in run.open /\ Matches(p, kind, v) /\ proposal[p].status # "none"
    BY <1>1, <2>1 DEF Run, IInv, MemoryInv
  <2>3. proposal \in [Proposals -> ProposalRow]
    BY DEF IInv, TypeOK
  <2>4. /\ proposal'[p] = [proposal[p] EXCEPT !.evidence = @ \cup evidence, !.source = run.source]
        /\ \A q \in Proposals : q # p => proposal'[q] = proposal[q]
    BY <2>1, <2>2, <2>3
  <2>a. proposal'[p] =
          [status |-> proposal[p].status, kind |-> proposal[p].kind, scene |-> proposal[p].scene,
           source |-> run.source, about |-> proposal[p].about, version |-> proposal[p].version,
           end |-> proposal[p].end, evidence |-> proposal[p].evidence \cup evidence]
    <3>1. proposal[p] \in ProposalRow
      BY <2>2, <2>3
    <3> QED
      BY ONLY <2>4, <3>1 DEF ProposalRow
  <2>5. \A q \in Proposals :
          /\ proposal'[q].status = proposal[q].status /\ proposal'[q].kind = proposal[q].kind
          /\ proposal'[q].scene = proposal[q].scene /\ proposal'[q].about = proposal[q].about
          /\ proposal'[q].version = proposal[q].version /\ proposal'[q].end = proposal[q].end
    BY <2>a, <2>4
  <2>6. proposal' \in [Proposals -> ProposalRow]
    <3>1. proposal'[p] \in ProposalRow
      BY <1>1, <2>2, <2>3, <2>a DEF ProposalRow, Run
    <3> QED
      BY <2>1, <2>3, <3>1, <2>4
  <2>7. \A q \in Proposals : proposal'[q].status = "none" <=> proposal'[q] = NoProposal
    <3> TAKE q \in Proposals
    <3>1. CASE q = p
      BY <2>2, <2>5, <3>1 DEF NoProposal
    <3>2. CASE q # p
      BY <2>4, <3>2, ProposalFacts
    <3> QED
      BY <3>1, <3>2
  <2>8. MemoryInv'
    BY <1>1, <2>1, <2>5 DEF IInv, MemoryInv, Run
  <2>9. OnceInv' /\ ListsInv'
    <3>1. \A x \in Proposals : Says(x)' <=> Says(x)
      BY <2>5 DEF Says
    <3>2. \A x, y \in Proposals : Same(x, y)' <=> Same(x, y)
      BY <2>5 DEF Same
    <3>3. run.open \subseteq Proposals
      BY <1>1 DEF Run
    <3>4. OnceInv'
      BY <2>5, <3>2 DEF IInv, KnownInv, OnceInv
    <3>5. ListsInv'
      BY <2>1, <3>1, <3>2, <3>3 DEF IInv, KnownInv, ListsInv
    <3> QED
      BY <3>4, <3>5
  <2>10. RejectedStaysAway'
    <3>1. ASSUME NEW q \in Proposals, q # p, Says(p), Says(q), Same(p, q)
          PROVE  proposal[q].evidence \cap (proposal[p].evidence \cup evidence) = {}
      <4>1. proposal[q].evidence \cap proposal[p].evidence = {}
        BY <2>2, <3>1 DEF IInv, KnownInv, RejectedStaysAway, Says, Same
      <4>2. q \notin run.open
        BY <1>1, <2>2, <3>1 DEF IInv, KnownInv, ListsInv
      <4>3. q \in run.rejected /\ Matches(q, kind, v)
        BY <1>5, <2>2, <3>1, <4>2 DEF Matches, Same
      <4>4. proposal[q].evidence \cap evidence = {}
        BY <1>2, <4>3
      <4> QED
        BY <4>1, <4>4
    <3>2. proposal'[p].evidence = proposal[p].evidence \cup evidence
      BY <2>2, <2>3, <2>4 DEF ProposalRow
    <3> SUFFICES ASSUME NEW x \in Proposals, NEW y \in Proposals, x # y, Says(x), Says(y),
                        Same(x, y)
                 PROVE  proposal'[x].evidence \cap proposal'[y].evidence = {}
      BY <2>5 DEF RejectedStaysAway, Says, Same
    <3>3. CASE x = p
      <4>1. proposal'[y].evidence = proposal[y].evidence
        BY <2>4, <3>3
      <4> QED
        BY <3>1, <3>2, <3>3, <4>1
    <3>4. CASE y = p
      <4>1. proposal'[x].evidence = proposal[x].evidence /\ Same(p, x)
        BY <2>4, <3>4 DEF Same
      <4> QED
        BY <3>1, <3>2, <3>4, <4>1
    <3>5. CASE x # p /\ y # p
      BY <2>4, <3>5 DEF IInv, KnownInv, RejectedStaysAway, Says, Same
    <3> QED
      BY <3>3, <3>4, <3>5
  <2>11. \A q \in Proposals :
           /\ proposal[q].status # "none" =>
                proposal'[q].scene = proposal[q].scene /\ proposal'[q].kind = proposal[q].kind
           /\ proposal'[q].status = "none" <=> proposal'[q] = NoProposal
           /\ proposal[q].status # "none" => proposal'[q].status # "none"
           /\ proposal'[q].status # "none" => proposal'[q].scene # 0
           /\ proposal'[q].status = "APPROVED" => proposal[q].status = "APPROVED"
           /\ proposal'[q].end = "entity" => endpoint' = "accepted"
           /\ proposal'[q].version # None => Live(proposal'[q].version)
           /\ Says(q)' => proposal'[q].version \in {proposal'[q].about, None}
    BY <1>4, <2>5, <2>7, ProposalFacts DEF Says
  <2>12. endpoint \in {"proposed", "accepted", "rejected"}
         /\ (run.end = "entity" => endpoint = "accepted")
    BY DEF IInv, TypeOK, EndpointInv
  <2> QED
    BY <1>1, <1>4, <2>1, <2>6, <2>8, <2>9, <2>10, <2>11, <2>12, StoryKept DEF KnownInv
<1>7. CASE matching(run.open, v) = {}
  <2>1. PICK p \in Proposals :
          /\ proposal[p] = NoProposal
          /\ proposal' = [proposal EXCEPT ![p] =
               [status |-> "PENDING", kind |-> kind, scene |-> run.scene,
                source |-> run.source, about |-> v, version |-> v,
                end |-> run.end, evidence |-> evidence]]
          /\ run' = [run EXCEPT !.open = @ \cup {p}]
    BY <1>2, <1>7
  <2>2. proposal \in [Proposals -> ProposalRow]
    BY DEF IInv, TypeOK
  <2>3. /\ proposal'[p] = [status |-> "PENDING", kind |-> kind, scene |-> run.scene,
                           source |-> run.source, about |-> v, version |-> v,
                           end |-> run.end, evidence |-> evidence]
        /\ \A q \in Proposals : q # p => proposal'[q] = proposal[q]
    BY <2>1, <2>2
  <2>4. proposal' \in [Proposals -> ProposalRow]
    <3>1. proposal'[p] \in ProposalRow
      BY <1>1, <1>3, <2>3 DEF ProposalRow, Run
    <3> QED
      BY <2>1, <2>2, <2>3, <3>1
  <2>5. /\ run' \in Run /\ run'.phase = "extract" /\ run'.end = run.end /\ run'.drop = run.drop
        /\ run'.open = run.open \cup {p} /\ run'.rejected = run.rejected
    BY <1>1, <2>1 DEF Run
  <2>6. run.scene # 0
    BY <1>1 DEF IInv, MemoryInv
  <2>7. MemoryInv'
    <3>1. p \notin run.rejected /\ p \notin run.drop
      BY <2>1 DEF IInv, MemoryInv, NoProposal
    <3> QED
      <4>1. run.drop \cup run.open \cup run.rejected \subseteq Proposals
        BY <1>1 DEF Run
      <4>2. \A q \in Proposals : q # p => proposal'[q].status = proposal[q].status
        BY <2>3
      <4>3. proposal'[p].status = "PENDING" /\ run'.scene # 0
        BY <1>1, <2>1, <2>3, <2>6 DEF Run
      <4>4. \A q \in run.drop \cup run.open : proposal'[q].status # "none"
        BY <4>1, <4>2, <4>3 DEF IInv, MemoryInv
      <4>5. \A q \in run.rejected : proposal'[q].status \notin {"none", "PENDING"}
        BY <3>1, <4>1, <4>2 DEF IInv, MemoryInv
      <4> QED
        BY <2>5, <4>3, <4>4, <4>5 DEF MemoryInv
  <2>8. \A q \in Proposals : q # p => (Says(q)' <=> Says(q))
    BY <2>3 DEF Says
  <2>9. ASSUME NEW q \in Proposals, q # p, Says(q), Same(p, q)' \/ Same(q, p)'
        PROVE  q \in run.rejected \ run.open /\ proposal[q].evidence \cap evidence = {}
    <3>1. Matches(q, kind, v)
      BY <2>3, <2>9 DEF Matches, Same
    <3>2. q \notin run.open
      BY <1>7, <3>1
    <3> QED
      BY <1>2, <1>5, <2>9, <3>1, <3>2
  <2>10. \A x, y \in Proposals : x # p /\ y # p => (Same(x, y)' <=> Same(x, y))
    BY <2>3 DEF Same
  <2>11. OnceInv'
    <3> SUFFICES ASSUME NEW x \in Proposals, NEW y \in Proposals, Same(x, y)',
                        proposal'[x].status = "PENDING", proposal'[y].status = "PENDING"
                 PROVE  x = y
      BY DEF OnceInv
    <3>1. CASE x # p /\ y # p
      BY <2>3, <2>10, <3>1 DEF IInv, KnownInv, OnceInv
    <3>2. CASE x = p /\ y # p
      <4>1. y \in run.rejected /\ proposal[y].status = "PENDING"
        BY <2>3, <2>9, <3>2 DEF Says
      <4> QED
        BY <4>1 DEF IInv, MemoryInv
    <3>3. CASE x # p /\ y = p
      <4>1. x \in run.rejected /\ proposal[x].status = "PENDING"
        BY <2>3, <2>9, <3>3 DEF Says
      <4> QED
        BY <4>1 DEF IInv, MemoryInv
    <3> QED
      BY <3>1, <3>2, <3>3
  <2>12. ListsInv'
    <3>1. \A q \in Proposals : Says(q)' => q \in run'.open \cup run'.rejected
      BY <1>5, <2>5, <2>8
    <3>2. ASSUME NEW x \in run'.open, NEW y \in run'.open, Says(x)', Says(y)', Same(x, y)'
          PROVE  x = y
      <4>0. x \in Proposals /\ y \in Proposals
        BY <1>1, <2>5, <3>2 DEF Run
      <4>1. CASE x # p /\ y # p
        BY <1>1, <2>5, <2>8, <2>10, <3>2, <4>0, <4>1 DEF IInv, KnownInv, ListsInv
      <4>2. CASE x = p /\ y # p
        BY <2>5, <2>8, <2>9, <3>2, <4>0, <4>2
      <4>3. CASE x # p /\ y = p
        BY <2>5, <2>8, <2>9, <3>2, <4>0, <4>3
      <4> QED
        BY <4>1, <4>2, <4>3
    <3> QED
      BY <3>1, <3>2 DEF ListsInv
  <2>13. RejectedStaysAway'
    <3> SUFFICES ASSUME NEW x \in Proposals, NEW y \in Proposals, x # y, Says(x)', Says(y)',
                        Same(x, y)'
                 PROVE  proposal'[x].evidence \cap proposal'[y].evidence = {}
      BY DEF RejectedStaysAway, Says, Same
    <3>1. CASE x # p /\ y # p
      <4>1. Says(x) /\ Says(y) /\ Same(x, y)
        BY <2>8, <2>10, <3>1
      <4>2. proposal[x].evidence \cap proposal[y].evidence = {}
        BY <4>1 DEF IInv, KnownInv, RejectedStaysAway, Says, Same
      <4> QED
        BY <2>3, <3>1, <4>2
    <3>2. CASE x = p
      <4>1. Says(y) /\ proposal'[y].evidence = proposal[y].evidence /\ Same(p, y)'
        BY <2>3, <2>8, <3>2
      <4>2. proposal'[p].evidence = evidence
        BY <2>3
      <4> QED
        BY <2>9, <3>2, <4>1, <4>2
    <3>3. CASE y = p
      <4>1. Says(x) /\ proposal'[x].evidence = proposal[x].evidence /\ Same(x, p)'
        BY <2>3, <2>8, <3>3
      <4>2. proposal'[p].evidence = evidence
        BY <2>3
      <4> QED
        BY <2>9, <3>3, <4>1, <4>2
    <3> QED
      BY <3>1, <3>2, <3>3
  <2>14. endpoint \in {"proposed", "accepted", "rejected"}
         /\ (run.end = "entity" => endpoint = "accepted")
    BY DEF IInv, TypeOK, EndpointInv
  <2>15. \A q \in Proposals :
           /\ proposal[q].status # "none" =>
                proposal'[q].scene = proposal[q].scene /\ proposal'[q].kind = proposal[q].kind
           /\ proposal'[q].status = "none" <=> proposal'[q] = NoProposal
           /\ proposal[q].status # "none" => proposal'[q].status # "none"
           /\ proposal'[q].status # "none" => proposal'[q].scene # 0
           /\ proposal'[q].status = "APPROVED" => proposal[q].status = "APPROVED"
           /\ proposal'[q].end = "entity" => endpoint' = "accepted"
           /\ proposal'[q].version # None => Live(proposal'[q].version)
           /\ Says(q)' => proposal'[q].version \in {proposal'[q].about, None}
    <3> TAKE q \in Proposals
    <3>1. CASE q = p
      BY <1>3, <1>4, <2>1, <2>3, <2>6, <2>14, <3>1 DEF NoProposal
    <3>2. CASE q # p
      BY <1>4, <2>3, <2>8, <3>2, ProposalFacts
    <3> QED
      BY <3>1, <3>2
  <2> QED
    BY <1>4, <2>4, <2>5, <2>7, <2>11, <2>12, <2>13, <2>14, <2>15, StoryKept DEF KnownInv
<1> QED
  BY <1>6, <1>7
-----------------------------------------------------------------------------
(* Acceptances, first what they read *)

LEMMA ReadAcceptedPreserves ==
  ASSUME IInv, NEW q \in Requests, NEW p \in Proposals, NEW to \in 1..Open, ReadAccepted(q, p, to)
  PROVE  IInv'
<1>a. PICK read : read = IF proposal[p].version = None THEN NoVersion ELSE version[proposal[p].version]
  OBVIOUS
<1>b. PICK r : r = [proposal |-> p, version |-> proposal[p].version, to |-> to, read |-> read]
  OBVIOUS
<1>1. /\ proposal[p].status = "PENDING" /\ EndsAccepted(p)
      /\ proposal[p].kind = "END" => proposal[p].version # None
      /\ Fits(p, to)
      /\ request' = [request EXCEPT ![q] = r]
      /\ UNCHANGED <<version, proposal, endpoint, run, disturbed, crossed>>
  BY <1>a, <1>b DEF ReadAccepted
<1>2. proposal[p] \in ProposalRow /\ version \in [Versions -> VersionRow]
      /\ request \in [Requests -> Request]
  BY DEF IInv, TypeOK
<1>3. proposal[p].version \in Versions \cup {None}
  BY <1>2 DEF ProposalRow
<1>4. read \in VersionRow
  BY <1>2, <1>3, <1>a, ConstantsAssumption DEF NoVersion, VersionRow, Open
<1>5. r \in Request
  BY <1>3, <1>4, <1>b, ConstantsAssumption DEF Request, Open
<1>6. /\ request' \in [Requests -> Request]
      /\ \A x \in Requests : request'[x] = IF x = q THEN r ELSE request[x]
  BY <1>1, <1>2, <1>5
<1>7. endpoint = "accepted"
  BY <1>1, ProposalFacts DEF EndsAccepted
<1>8. p # None
  BY ConstantsAssumption
<1>9. HasRead(r)'
  <2>1. r.proposal = p /\ r.version = proposal[p].version /\ r.to = to /\ r.read = read
    BY <1>b
  <2>2. proposal[p].scene < to
    BY <1>1 DEF Fits
  <2>3. ASSUME proposal[p].version # None
        PROVE  /\ read.line # None /\ read.to # 0
               /\ version[proposal[p].version].line = read.line
               /\ Proper(read.from, proposal[p].scene) /\ Proper(proposal[p].scene, read.to)
    <3>1. read = version[proposal[p].version] /\ proposal[p].version \in Versions
      BY <1>3, <1>a, <2>3
    <3>2. read.to # 0
      BY <2>3, <3>1, ProposalFacts DEF Live
    <3>3. read # NoVersion
      BY <3>2 DEF NoVersion
    <3>4. read.line # None
      BY <3>1, <3>3 DEF IInv, LinesInv
    <3>5. Proper(read.from, proposal[p].scene) /\ Proper(proposal[p].scene, read.to)
      BY <1>1, <2>3, <3>1, <3>3 DEF Fits
    <3> QED
      BY <3>1, <3>2, <3>4, <3>5
  <2>4. proposal[p].version = None => read = NoVersion
    BY <1>a
  <2> QED
    BY <1>1, <1>8, <2>1, <2>2, <2>3, <2>4 DEF HasRead, Proper
<1>10. RequestsInv'
  <2> SUFFICES ASSUME NEW x \in Requests, request'[x] # NoRequest PROVE HasRead(request[x])'
    BY DEF RequestsInv
  <2>1. CASE x = q
    BY <1>6, <1>9, <2>1 DEF HasRead, Proper
  <2>2. CASE x # q
    <3>1. HasRead(request[x]) /\ request'[x] = request[x]
      BY <1>6, <2>2 DEF IInv, RequestsInv
    <3> QED
      BY <1>1, <3>1 DEF HasRead, Proper
  <2> QED
    BY <2>1, <2>2
<1>11. EndpointInv'
  BY <1>1, <1>7 DEF IInv, EndpointInv
<1>12. TypeOK' /\ LinesInv' /\ MemoryInv'
  BY <1>1, <1>6 DEF IInv, TypeOK, LinesInv, MemoryInv
<1>13. ProposalsInv'
  BY <1>1 DEF IInv, ProposalsInv, Says, Live
<1>14. ApartInv'
  BY <1>1 DEF IInv, ApartInv, LineDisjoint, LinesApart, Separate, Line, Lives, Live
<1>15. KnownInv'
  BY <1>1 DEF IInv, KnownInv, OnceInv, ListsInv, RejectedStaysAway, Says, Same
<1> QED
  BY <1>10, <1>11, <1>12, <1>13, <1>14, <1>15 DEF IInv
-----------------------------------------------------------------------------
(* What a step does to a line that is not disturbed *)

SameLine(l) == \A u \in Line(l)' : u \in Line(l) /\ version'[u] = version[u]

\* Version w ends in scene s, and v may follow it until w ended before.
Cut(l, w, v, s) ==
  /\ w \in Line(l) /\ v \notin Line(l) /\ s \in Scenes
  /\ version[w].from < s /\ s < version[w].to
  /\ \A u \in Line(l)' :
       \/ u = w /\ version'[u].from = version[w].from /\ version'[u].to = s
       \/ u = v /\ version'[u].from = s /\ version'[u].to = version[w].to
       \/ u \in Line(l) \ {w} /\ version'[u] = version[u]

Begun(l, v) ==
  /\ Line(l) = {}
  /\ \A u \in Line(l)' : u = v /\ version'[u].from < version'[u].to
  /\ l \in crossed' \/ \A m \in Versions \ disturbed' : m # l =>
       \A u \in Line(m)' : version'[v].to <= version'[u].from \/ version'[u].to <= version'[v].from

LineStep(l) ==
  \/ SameLine(l)
  \/ \E w \in Versions, v \in Versions \cup {None}, s \in Scenes : Cut(l, w, v, s)
  \/ \E v \in Versions : Begun(l, v)

LinesStep ==
  /\ disturbed \subseteq disturbed' /\ crossed \subseteq crossed'
  /\ \A l \in Versions \ disturbed' : LineStep(l)

LEMMA LineType ==
  ASSUME TypeOK, NEW l \in Versions, NEW v \in Line(l)
  PROVE  v \in Versions /\ version[v].from \in Nat /\ version[v].to \in Nat
BY ConstantsAssumption DEF TypeOK, VersionRow, Line, Lives, Open

LEMMA DisjointKept == ASSUME IInv, TypeOK', LinesStep PROVE LineDisjoint'
<1> SUFFICES ASSUME NEW l \in Versions \ disturbed', NEW x \in Line(l)', NEW y \in Line(l)'
             PROVE  /\ version'[x].from < version'[x].to
                    /\ x # y => \/ version'[x].to <= version'[y].from
                                \/ version'[y].to <= version'[x].from
  BY DEF LineDisjoint, Separate
<1>1. l \in Versions \ disturbed /\ LineStep(l)
  BY DEF LinesStep
<1>2. \A a, b \in Line(l) :
        /\ version[a].from < version[a].to
        /\ a # b => version[a].to <= version[b].from \/ version[b].to <= version[a].from
  BY <1>1 DEF IInv, ApartInv, LineDisjoint, Separate
<1>3. \A a \in Line(l) : version[a].from \in Nat /\ version[a].to \in Nat
  BY <1>1, LineType DEF IInv
<1>4. CASE SameLine(l)
  BY <1>2, <1>4 DEF SameLine
<1>5. ASSUME NEW w \in Versions, NEW v \in Versions \cup {None}, NEW s \in Scenes, Cut(l, w, v, s)
      PROVE  /\ version'[x].from < version'[x].to
             /\ x # y => \/ version'[x].to <= version'[y].from
                         \/ version'[y].to <= version'[x].from
  <2>1. w \in Line(l) /\ v \notin Line(l) /\ s \in Nat
        /\ version[w].from < s /\ s < version[w].to
    BY <1>5, ConstantsAssumption DEF Cut, Scenes
  <2> DEFINE Left(u) == u = w /\ version'[u].from = version[w].from /\ version'[u].to = s
             Right(u) == u = v /\ version'[u].from = s /\ version'[u].to = version[w].to
             Kept(u) == u \in Line(l) \ {w} /\ version'[u] = version[u]
  <2>2. (Left(x) \/ Right(x) \/ Kept(x)) /\ (Left(y) \/ Right(y) \/ Kept(y))
    BY <1>5 DEF Cut
  <2>3. version'[x].from < version'[x].to
    <3>1. CASE Left(x)
      BY <2>1, <3>1
    <3>2. CASE Right(x)
      BY <2>1, <3>2
    <3>3. CASE Kept(x)
      BY <1>2, <3>3
    <3> QED
      BY <2>2, <3>1, <3>2, <3>3
  <2>4. ASSUME NEW a, NEW b, a # b, Left(a), Left(b) \/ Right(b) \/ Kept(b)
        PROVE  version'[a].to <= version'[b].from \/ version'[b].to <= version'[a].from
    <3>1. CASE Right(b)
      BY <2>1, <2>4, <3>1
    <3>2. CASE Kept(b)
      <4>1. version[w].to <= version[b].from \/ version[b].to <= version[w].from
        BY <1>2, <2>1, <3>2
      <4> QED
        BY <1>3, <2>1, <2>4, <3>2, <4>1
    <3> QED
      BY <2>4, <3>1, <3>2
  <2>5. ASSUME NEW a, NEW b, a # b, Right(a), Right(b) \/ Kept(b)
        PROVE  version'[a].to <= version'[b].from \/ version'[b].to <= version'[a].from
    <3>1. Kept(b)
      BY <2>5
    <3>2. version[w].to <= version[b].from \/ version[b].to <= version[w].from
      BY <1>2, <2>1, <3>1
    <3> QED
      BY <1>3, <2>1, <2>5, <3>1, <3>2
  <2>6. ASSUME NEW a, NEW b, a # b, Kept(a), Kept(b)
        PROVE  version'[a].to <= version'[b].from \/ version'[b].to <= version'[a].from
    BY <1>2, <2>6
  <2> HIDE DEF Left, Right, Kept
  <2> QED
    BY <2>2, <2>3, <2>4, <2>5, <2>6
<1>6. ASSUME NEW v \in Versions, Begun(l, v)
      PROVE  /\ version'[x].from < version'[x].to
             /\ x # y => \/ version'[x].to <= version'[y].from
                         \/ version'[y].to <= version'[x].from
  BY <1>6 DEF Begun
<1> QED
  BY <1>1, <1>4, <1>5, <1>6 DEF LineStep

LEMMA CoverKept ==
  ASSUME IInv, TypeOK', LinesStep
  PROVE  \A l \in Versions \ disturbed' : Line(l) # {} => Covered(l)' \subseteq Covered(l)
<1> SUFFICES ASSUME NEW l \in Versions \ disturbed', Line(l) # {}, NEW scene \in 0..LastScene,
                    NEW u \in Line(l)', version'[u].from <= scene, scene < version'[u].to
             PROVE  \E w \in Line(l) : version[w].from <= scene /\ scene < version[w].to
  BY DEF Covered
<1>1. LineStep(l)
  BY DEF LinesStep
<1>2. CASE SameLine(l)
  BY <1>2 DEF SameLine
<1>3. ASSUME NEW w \in Versions, NEW v \in Versions \cup {None}, NEW s \in Scenes, Cut(l, w, v, s)
      PROVE  \E a \in Line(l) : version[a].from <= scene /\ scene < version[a].to
  <2>1. w \in Line(l) /\ s \in Nat /\ version[w].from < s /\ s < version[w].to
        /\ scene \in Nat /\ version[w].from \in Nat /\ version[w].to \in Nat
    BY <1>3, LineType, ConstantsAssumption DEF Cut, Scenes, IInv
  <2>2. \/ u = w /\ version'[u].from = version[w].from /\ version'[u].to = s
        \/ u = v /\ version'[u].from = s /\ version'[u].to = version[w].to
        \/ u \in Line(l) \ {w} /\ version'[u] = version[u]
    BY <1>3 DEF Cut
  <2>3. CASE u = w /\ version'[u].from = version[w].from /\ version'[u].to = s
    BY <2>1, <2>3
  <2>4. CASE u = v /\ version'[u].from = s /\ version'[u].to = version[w].to
    BY <2>1, <2>4
  <2>5. CASE u \in Line(l) \ {w} /\ version'[u] = version[u]
    BY <2>5
  <2> QED
    BY <2>2, <2>3, <2>4, <2>5
<1>4. ASSUME NEW v \in Versions, Begun(l, v) PROVE FALSE
  BY <1>4 DEF Begun
<1> QED
  BY <1>1, <1>2, <1>3, <1>4 DEF LineStep

\* A line that begins in a step is apart from the others, or crosses them.
LEMMA BegunApart ==
  ASSUME LinesStep, NEW l \in Versions \ (disturbed' \cup crossed'), Line(l) = {},
         NEW m \in Versions \ disturbed', l # m, NEW x \in Line(l)', NEW y \in Line(m)'
  PROVE  version'[x].to <= version'[y].from \/ version'[y].to <= version'[x].from
<1>1. LineStep(l)
  BY DEF LinesStep
<1>2. ~SameLine(l) /\ \A w, v, s : ~Cut(l, w, v, s)
  BY DEF SameLine, Cut
<1>3. PICK v \in Versions : Begun(l, v)
  BY <1>1, <1>2 DEF LineStep
<1> QED
  BY <1>3 DEF Begun

\* Two lines that no version of one meets a version of the other stay so.
LEMMA ApartKept == ASSUME IInv, TypeOK', LinesStep PROVE ApartInv'
<1>1. LineDisjoint'
  BY DisjointKept
<1>2. ASSUME NEW l \in Versions \ (disturbed' \cup crossed'),
             NEW m \in Versions \ (disturbed' \cup crossed'), l # m,
             NEW x \in Line(l)', NEW y \in Line(m)'
      PROVE  version'[x].to <= version'[y].from \/ version'[y].to <= version'[x].from
  <2>1. CASE Line(l) = {}
    BY <1>2, <2>1, BegunApart
  <2>2. CASE Line(m) = {}
    BY <1>2, <2>2, BegunApart
  <2>3. CASE Line(l) # {} /\ Line(m) # {}
    <3>1. /\ version'[x].from \in 0..LastScene /\ version'[x].to \in Nat
          /\ version'[y].from \in 0..LastScene /\ version'[y].to \in Nat
      BY ConstantsAssumption DEF TypeOK, VersionRow, Line, Lives, Open
    <3>2. version'[x].from < version'[x].to /\ version'[y].from < version'[y].to
      BY <1>1 DEF LineDisjoint
    <3> SUFFICES ASSUME ~(version'[x].to <= version'[y].from), ~(version'[y].to <= version'[x].from)
                 PROVE  FALSE
      OBVIOUS
    <3>3. PICK s \in 0..LastScene : /\ version'[x].from <= s /\ s < version'[x].to
                                   /\ version'[y].from <= s /\ s < version'[y].to
      <4>1. CASE version'[x].from <= version'[y].from
        BY <3>1, <3>2, <4>1
      <4>2. CASE version'[y].from <= version'[x].from
        BY <3>1, <3>2, <4>2
      <4> QED
        BY <3>1, <4>1, <4>2
    <3>4. s \in Covered(l)' /\ s \in Covered(m)'
      BY <3>3 DEF Covered
    <3>5. s \in Covered(l) /\ s \in Covered(m)
      BY <2>3, <3>4, CoverKept
    <3>6. PICK a \in Line(l), b \in Line(m) : /\ version[a].from <= s /\ s < version[a].to
                                             /\ version[b].from <= s /\ s < version[b].to
      BY <3>5 DEF Covered
    <3>7. version[a].to <= version[b].from \/ version[b].to <= version[a].from
      BY <1>2 DEF LinesStep, IInv, ApartInv, LinesApart, Separate
    <3>8. /\ version[a].from \in Nat /\ version[a].to \in Nat
          /\ version[b].from \in Nat /\ version[b].to \in Nat /\ s \in Nat
      BY LineType, ConstantsAssumption DEF IInv
    <3> QED
      BY <3>6, <3>7, <3>8
  <2> QED
    BY <2>1, <2>2, <2>3
<1>3. LinesApart'
  BY <1>2 DEF LinesApart, Separate
<1> QED
  BY <1>1, <1>3 DEF ApartInv

\* Rows of no line, or of lines that are disturbed now, are nobody else's.
LEMMA OtherLines ==
  ASSUME disturbed \subseteq disturbed', NEW l \in Versions \ disturbed',
         \A u \in Versions : version'[u] # version[u] => version'[u].line # l
  PROVE  SameLine(l)
BY DEF SameLine, Line, Lives, Live

LEMMA SameLines == ASSUME UNCHANGED <<version, disturbed, crossed>> PROVE LinesStep
BY DEF LinesStep, LineStep, SameLine, Line, Lives, Live
-----------------------------------------------------------------------------
(* What a step that writes versions must respect *)

LEMMA LinesKept ==
  ASSUME IInv,
         \A u \in Versions : version'[u].line = None => version'[u] = NoVersion,
         \A u \in Versions :
           \/ version'[u].line = version[u].line
           \/ version[u] = NoVersion /\ version'[u].line = u
           \/ version[u] = NoVersion /\ version'[u].line \in Versions
              /\ version[version'[u].line].line = version'[u].line
  PROVE  LinesInv'
<1> SUFFICES ASSUME NEW u \in Versions, version'[u].line # None
             PROVE  version'[version'[u].line].line = version'[u].line
  BY DEF LinesInv
<1>1. CASE version'[u].line = u
  BY <1>1
<1>2. CASE version[version'[u].line].line = version'[u].line /\ version'[u].line \in Versions
  BY <1>2 DEF NoVersion
<1>3. CASE version'[u].line = version[u].line
  <2>1. version[u].line \in Versions /\ version[version[u].line].line = version[u].line
    BY <1>3 DEF IInv, LinesInv, TypeOK, VersionRow
  <2> QED
    BY <1>2, <1>3, <2>1
<1> QED
  BY <1>1, <1>2, <1>3

LEMMA RequestsKept ==
  ASSUME IInv,
         \A u \in Versions : version[u].line # None => version'[u].line = version[u].line,
         \A p \in Proposals : proposal[p].status # "none" =>
           /\ proposal'[p].status # "none"
           /\ proposal'[p].scene = proposal[p].scene /\ proposal'[p].kind = proposal[p].kind,
         \A q \in Requests : request'[q] \in {request[q], NoRequest}
  PROVE  RequestsInv'
<1> SUFFICES ASSUME NEW q \in Requests, request'[q] # NoRequest PROVE HasRead(request[q])'
  BY DEF RequestsInv
<1>1. PICK r : r = request[q]
  OBVIOUS
<1>2. request'[q] = r /\ HasRead(r) /\ r \in Request
  BY <1>1 DEF IInv, RequestsInv, TypeOK
<1>3. r.proposal \in Proposals /\ r.version \in Versions \cup {None}
  BY <1>2 DEF HasRead, Request
<1>4. HasRead(r)'
  BY <1>2, <1>3 DEF HasRead, Proper
<1> QED
  BY <1>2, <1>4 DEF HasRead, Proper

\* What a proposal becomes when it is accepted.
LEMMA ApprovedKeeps ==
  ASSUME IInv, NEW p \in Proposals, NEW v \in Versions, proposal[p].status # "none",
         Approved(p, v), UNCHANGED <<endpoint, run>>, endpoint = "accepted",
         Live(v)', \A u \in Versions : Live(u) => Live(u)'
  PROVE  /\ proposal' \in [Proposals -> ProposalRow]
         /\ \A x \in Proposals : proposal[x].status # "none" =>
              /\ proposal'[x].status # "none"
              /\ proposal'[x].scene = proposal[x].scene /\ proposal'[x].kind = proposal[x].kind
         /\ ProposalsInv' /\ MemoryInv' /\ KnownInv'
<1>1. proposal \in [Proposals -> ProposalRow]
  BY DEF IInv, TypeOK
<1>2. /\ proposal'[p] = [proposal[p] EXCEPT !.status = "APPROVED", !.version = v, !.end = "entity"]
      /\ \A x \in Proposals : x # p => proposal'[x] = proposal[x]
      /\ proposal' = [x \in Proposals |-> IF x = p THEN proposal'[p] ELSE proposal[x]]
  BY <1>1 DEF Approved
<1>3. proposal'[p] = [status |-> "APPROVED", kind |-> proposal[p].kind, scene |-> proposal[p].scene,
                      source |-> proposal[p].source, about |-> proposal[p].about, version |-> v,
                      end |-> "entity", evidence |-> proposal[p].evidence]
  <2>1. proposal[p] \in ProposalRow
    BY <1>1
  <2> QED
    BY ONLY <1>2, <2>1 DEF ProposalRow
<1>4. proposal'[p] \in ProposalRow
  BY <1>1, <1>3 DEF ProposalRow, Ends
<1>5. proposal' \in [Proposals -> ProposalRow]
  BY <1>1, <1>2, <1>4
<1>6. \A x \in Proposals : proposal[x].status # "none" =>
        /\ proposal'[x].status # "none"
        /\ proposal'[x].scene = proposal[x].scene /\ proposal'[x].kind = proposal[x].kind
  <2>1. /\ proposal'[p].status = "APPROVED"
        /\ proposal'[p].scene = proposal[p].scene /\ proposal'[p].kind = proposal[p].kind
    BY ONLY <1>3
  <2>2. \A x \in Proposals : x # p => proposal'[x] = proposal[x]
    BY <1>2
  <2> QED
    BY ONLY <2>1, <2>2
<1>7. ProposalsInv'
  <2> SUFFICES ASSUME NEW x \in Proposals
               PROVE  /\ proposal'[x].status = "none" => proposal'[x] = NoProposal
                      /\ proposal'[x].status # "none" => proposal'[x].scene # 0
                      /\ proposal'[x].version # None => Live(proposal[x].version)'
                      /\ Says(x)' => proposal'[x].version \in {proposal'[x].about, None}
    BY DEF ProposalsInv, Live
  <2>1. CASE x = p
    <3>1. proposal'[x].status = "APPROVED" /\ proposal'[x].scene # 0 /\ proposal'[x].version = v
      BY <1>3, <2>1, ProposalFacts
    <3> QED
      BY <3>1 DEF Says, Live
  <2>2. CASE x # p
    <3>1. proposal'[x] = proposal[x] /\ proposal[x].version \in Versions \cup {None}
      BY <1>1, <1>2, <2>2 DEF ProposalRow
    <3> QED
      BY <3>1, ProposalFacts DEF Says, Live
  <2> QED
    BY <2>1, <2>2
<1>8. MemoryInv'
  <2>1. run.drop \cup run.open \cup run.rejected \subseteq Proposals
    BY DEF IInv, TypeOK, Run
  <2>2. \A x \in Proposals : proposal'[x].status \in {proposal[x].status, "APPROVED"}
    BY <1>2, <1>3
  <2> QED
    BY <2>1, <2>2 DEF IInv, MemoryInv
<1>9. KnownInv'
  <2>1. \A x \in Proposals : Fades(proposal[x], proposal'[x])
    <3> TAKE x \in Proposals
    <3>1. CASE x = p
      BY <1>3, <3>1 DEF Fades
    <3>2. CASE x # p
      BY <1>2, <3>2 DEF Fades
    <3> QED
      BY <3>1, <3>2
  <2> QED
    BY <2>1, FadingKeepsKnown
<1> QED
  BY <1>5, <1>6, <1>7, <1>8, <1>9

-----------------------------------------------------------------------------
(* The author edits by hand *)

\* Steps that write versions and leave the rest alone.
LEMMA EditKeeps ==
  ASSUME IInv, version' \in [Versions -> VersionRow], disturbed' \subseteq Versions,
         UNCHANGED <<proposal, endpoint, run, request, crossed>>,
         LinesInv', LinesStep,
         \A u \in Versions : version[u].line # None => version'[u].line = version[u].line,
         \A u \in Versions : Live(u) => Live(u)'
  PROVE  IInv'
<1>1. TypeOK'
  BY DEF IInv, TypeOK
<1>2. ApartInv'
  BY <1>1, ApartKept
<1>3. RequestsInv'
  BY RequestsKept
<1>4. ProposalsInv'
  <2>1. \A p \in Proposals : proposal[p].version \in Versions \cup {None}
    BY DEF IInv, TypeOK, ProposalRow
  <2> QED
    BY <2>1 DEF IInv, ProposalsInv, Says, Live
<1>5. EndpointInv' /\ MemoryInv'
  BY DEF IInv, EndpointInv, MemoryInv
<1>6. KnownInv'
  BY DEF IInv, KnownInv, OnceInv, ListsInv, RejectedStaysAway, Says, Same
<1> QED
  BY <1>1, <1>2, <1>3, <1>4, <1>5, <1>6 DEF IInv

LEMMA CreateRelationshipPreserves ==
  ASSUME IInv, NEW from \in 0..LastScene, NEW to \in 1..Open, CreateRelationship(from, to)
  PROVE  IInv' /\ LinesStep
<1>1. PICK v \in Unused : /\ version' = NewVersion(v, from, to, v) /\ disturbed' = disturbed \cup {v}
                          /\ crossed' = crossed
  BY DEF CreateRelationship
<1>2. v \in Versions /\ version[v] = NoVersion /\ v # None
  BY ConstantsAssumption DEF Unused
<1>3. version \in [Versions -> VersionRow] /\ disturbed \subseteq Versions
  BY DEF IInv, TypeOK
<1>4. /\ version'[v] = [from |-> from, to |-> to, line |-> v]
      /\ \A u \in Versions : u # v => version'[u] = version[u]
      /\ version' = [u \in Versions |-> IF u = v THEN version'[v] ELSE version[u]]
  BY <1>1, <1>2, <1>3 DEF NewVersion
<1>5. version' \in [Versions -> VersionRow]
  <2>1. version'[v] \in VersionRow
    BY <1>2, <1>4, ConstantsAssumption DEF VersionRow, Open
  <2> QED
    BY <1>3, <1>4, <2>1
<1>6. LinesInv'
  <2>1. \A u \in Versions : version'[u].line = None => version'[u] = NoVersion
    BY <1>2, <1>4 DEF IInv, LinesInv
  <2>2. \A u \in Versions :
          \/ version'[u].line = version[u].line
          \/ version[u] = NoVersion /\ version'[u].line = u
    <3> TAKE u \in Versions
    <3>1. CASE u = v
      BY <1>2, <1>4, <3>1
    <3>2. CASE u # v
      BY <1>4, <3>2
    <3> QED
      BY <3>1, <3>2
  <2> QED
    BY <2>1, <2>2, LinesKept
<1>7. LinesStep
  <2>1. \A l \in Versions \ disturbed', u \in Versions :
          version'[u] # version[u] => version'[u].line # l
    <3> TAKE l \in Versions \ disturbed', u \in Versions
    <3>1. version'[v].line \in disturbed'
      BY <1>1, <1>4
    <3>2. CASE u = v
      BY <3>1, <3>2
    <3>3. CASE u # v
      BY <1>4, <3>3
    <3> QED
      BY <3>2, <3>3
  <2>2. \A l \in Versions \ disturbed' : SameLine(l)
    BY <1>1, <2>1, OtherLines
  <2> QED
    BY <1>1, <2>2 DEF LinesStep, LineStep
<1>8. \A u \in Versions : /\ version[u].line # None => version'[u].line = version[u].line
                          /\ Live(u) => Live(u)'
  <2> TAKE u \in Versions
  <2>1. CASE u = v
    BY <1>2, <2>1 DEF NoVersion, Live
  <2>2. CASE u # v
    BY <1>4, <2>2 DEF Live
  <2> QED
    BY <2>1, <2>2
<1> QED
  BY <1>1, <1>2, <1>3, <1>5, <1>6, <1>7, <1>8, EditKeeps DEF CreateRelationship

LEMMA UpdateRelationshipPreserves ==
  ASSUME IInv, NEW v \in Versions, NEW from \in 0..LastScene, NEW to \in 1..Open,
         UpdateRelationship(v, from, to)
  PROVE  IInv' /\ LinesStep
<1>1. Live(v) /\ disturbed' = disturbed \cup {version[v].line} /\ crossed' = crossed
      /\ version' = [version EXCEPT ![v].from = from, ![v].to = to]
  BY DEF UpdateRelationship
<1>2. version \in [Versions -> VersionRow] /\ disturbed \subseteq Versions /\ version[v] \in VersionRow
  BY DEF IInv, TypeOK
<1>3. version[v].line \in Versions
  BY <1>1, <1>2 DEF IInv, LinesInv, Live, NoVersion, VersionRow
<1>4. /\ version'[v] = [from |-> from, to |-> to, line |-> version[v].line]
      /\ \A u \in Versions : u # v => version'[u] = version[u]
      /\ version' = [u \in Versions |-> IF u = v THEN version'[v] ELSE version[u]]
  BY <1>1, <1>2 DEF VersionRow
<1>5. version' \in [Versions -> VersionRow]
  <2>1. version'[v] \in VersionRow
    BY <1>3, <1>4, ConstantsAssumption DEF VersionRow, Open
  <2> QED
    BY <1>2, <1>4, <2>1
<1>6. LinesInv'
  <2>1. \A u \in Versions : version'[u].line = None => version'[u] = NoVersion
    BY <1>3, <1>4, ConstantsAssumption DEF IInv, LinesInv
  <2>2. \A u \in Versions : version'[u].line = version[u].line
    BY <1>4
  <2> QED
    BY <2>1, <2>2, LinesKept
<1>7. LinesStep
  <2>1. \A l \in Versions \ disturbed', u \in Versions :
          version'[u] # version[u] => version'[u].line # l
    <3> TAKE l \in Versions \ disturbed', u \in Versions
    <3>1. version'[v].line \in disturbed'
      BY <1>1, <1>4
    <3>2. CASE u = v
      BY <3>1, <3>2
    <3>3. CASE u # v
      BY <1>4, <3>3
    <3> QED
      BY <3>2, <3>3
  <2>2. \A l \in Versions \ disturbed' : SameLine(l)
    BY <1>1, <2>1, OtherLines
  <2> QED
    BY <1>1, <2>2 DEF LinesStep, LineStep
<1>8. \A u \in Versions : /\ version[u].line # None => version'[u].line = version[u].line
                          /\ Live(u) => Live(u)'
  <2> TAKE u \in Versions
  <2>1. CASE u = v
    BY <1>4, <2>1, ConstantsAssumption DEF Live, Open
  <2>2. CASE u # v
    BY <1>4, <2>2 DEF Live
  <2> QED
    BY <2>1, <2>2
<1> QED
  BY <1>1, <1>2, <1>3, <1>5, <1>6, <1>7, <1>8, EditKeeps DEF UpdateRelationship

\* The proposals about a removed version lose their reference.
LEMMA RemoveRelationshipPreserves ==
  ASSUME IInv, NEW v \in Versions, RemoveRelationship(v) PROVE IInv' /\ LinesStep
<1>1. /\ Live(v) /\ disturbed' = disturbed \cup {version[v].line} /\ crossed' = crossed
      /\ version' = [version EXCEPT ![v].from = 0, ![v].to = 0]
      /\ proposal' = [p \in Proposals |-> IF proposal[p].version = v
                        THEN [proposal[p] EXCEPT !.version = None] ELSE proposal[p]]
      /\ UNCHANGED <<endpoint, run, request>>
  BY DEF RemoveRelationship
<1>2. /\ version \in [Versions -> VersionRow] /\ disturbed \subseteq Versions
      /\ version[v] \in VersionRow /\ \A p \in Proposals : proposal[p] \in ProposalRow
  BY DEF IInv, TypeOK
<1>3. version[v].line \in Versions /\ v # None
  BY <1>1, <1>2, ConstantsAssumption DEF IInv, LinesInv, Live, NoVersion, VersionRow
<1>4. /\ version'[v] = [from |-> 0, to |-> 0, line |-> version[v].line]
      /\ \A u \in Versions : u # v => version'[u] = version[u]
      /\ version' = [u \in Versions |-> IF u = v THEN version'[v] ELSE version[u]]
  BY <1>1, <1>2 DEF VersionRow
<1>5. version' \in [Versions -> VersionRow]
  <2>1. version'[v] \in VersionRow
    BY <1>3, <1>4, ConstantsAssumption DEF VersionRow, Open
  <2> QED
    BY <1>2, <1>4, <2>1
<1>6. ASSUME NEW p \in Proposals
      PROVE  /\ proposal'[p] \in ProposalRow /\ Fades(proposal[p], proposal'[p])
             /\ proposal'[p].end = proposal[p].end /\ proposal'[p].status = proposal[p].status
             /\ proposal'[p].version # None => proposal'[p].version = proposal[p].version
                                               /\ proposal'[p].version # v
             /\ proposal'[p].version = proposal[p].version \/ proposal'[p].version = None
             /\ proposal[p].status = "none" => proposal'[p] = proposal[p]
  <2>1. CASE proposal[p].version = v
    <3>1. proposal'[p] =
            [status |-> proposal[p].status, kind |-> proposal[p].kind, scene |-> proposal[p].scene,
             source |-> proposal[p].source, about |-> proposal[p].about, version |-> None,
             end |-> proposal[p].end, evidence |-> proposal[p].evidence]
      BY <1>1, <1>2, <2>1 DEF ProposalRow
    <3>2. proposal'[p] \in ProposalRow
      BY <1>2, <3>1 DEF ProposalRow
    <3>3. proposal[p].status # "none"
      BY <1>3, <2>1, ProposalFacts DEF NoProposal
    <3>4. Fades(proposal[p], proposal'[p])
      BY <3>1 DEF Fades
    <3> QED
      BY <3>1, <3>2, <3>3, <3>4
  <2>2. CASE proposal[p].version # v
    <3>1. proposal'[p] = proposal[p]
      BY <1>1, <2>2
    <3> QED
      BY <1>2, <2>2, <3>1 DEF Fades
  <2> QED
    BY <2>1, <2>2
<1>7. proposal' \in [Proposals -> ProposalRow]
  <2>1. proposal' = [p \in Proposals |-> proposal'[p]]
    BY <1>1
  <2> QED
    BY <1>6, <2>1
<1>8. TypeOK'
  BY <1>1, <1>2, <1>3, <1>5, <1>6, <1>7 DEF IInv, TypeOK
<1>9. LinesInv'
  <2>1. \A u \in Versions : version'[u].line = None => version'[u] = NoVersion
    BY <1>3, <1>4, ConstantsAssumption DEF IInv, LinesInv
  <2>2. \A u \in Versions : version'[u].line = version[u].line
    BY <1>4
  <2> QED
    BY <2>1, <2>2, LinesKept
<1>10. LinesStep
  <2>1. \A l \in Versions \ disturbed', u \in Versions :
          version'[u] # version[u] => version'[u].line # l
    <3> TAKE l \in Versions \ disturbed', u \in Versions
    <3>1. version'[v].line \in disturbed'
      BY <1>1, <1>4
    <3>2. CASE u = v
      BY <3>1, <3>2
    <3>3. CASE u # v
      BY <1>4, <3>3
    <3> QED
      BY <3>2, <3>3
  <2>2. \A l \in Versions \ disturbed' : SameLine(l)
    BY <1>1, <2>1, OtherLines
  <2> QED
    BY <1>1, <2>2 DEF LinesStep, LineStep
<1>11. ApartInv'
  BY <1>8, <1>10, ApartKept
<1>12. RequestsInv'
  <2>1. \A u \in Versions : version'[u].line = version[u].line
    BY <1>4
  <2> QED
    BY <1>1, <1>6, <2>1, RequestsKept DEF Fades
<1>13. ProposalsInv'
  <2> SUFFICES ASSUME NEW p \in Proposals
               PROVE  /\ proposal'[p].status = "none" => proposal'[p] = NoProposal
                      /\ proposal'[p].status # "none" => proposal'[p].scene # 0
                      /\ proposal'[p].version # None => Live(proposal[p].version)'
                      /\ Says(p)' => proposal'[p].version \in {proposal'[p].about, None}
    BY DEF ProposalsInv, Live
  <2>1. proposal'[p].scene = proposal[p].scene /\ proposal'[p].about = proposal[p].about
    BY <1>6 DEF Fades
  <2>2. ASSUME proposal'[p].version # None PROVE Live(proposal[p].version)'
    <3>1. PICK u : u = proposal[p].version
      OBVIOUS
    <3>2. u \in Versions /\ u # v /\ proposal'[p].version = u /\ Live(u)
      BY <1>2, <1>6, <2>2, <3>1, ProposalFacts DEF ProposalRow
    <3> QED
      BY <1>4, <3>2 DEF Live
  <2> QED
    BY <1>6, <2>1, <2>2, ProposalFacts DEF Says
<1>14. EndpointInv'
  BY <1>1, <1>6 DEF IInv, EndpointInv
<1>15. MemoryInv'
  <2>1. run.drop \cup run.open \cup run.rejected \subseteq Proposals
    BY DEF IInv, TypeOK, Run
  <2> QED
    BY <1>1, <1>6, <2>1 DEF IInv, MemoryInv
<1>16. KnownInv'
  BY <1>1, <1>6, FadingKeepsKnown
<1> QED
  BY <1>8, <1>9, <1>10, <1>11, <1>12, <1>13, <1>14, <1>15, <1>16 DEF IInv
-----------------------------------------------------------------------------
(* Acceptances, when they write *)

\* Which steps have nothing to write any more.
LEMMA ForgottenKeeps ==
  ASSUME IInv, NEW q \in Requests, request' = [request EXCEPT ![q] = NoRequest],
         UNCHANGED <<version, proposal, endpoint, run, disturbed, crossed>>
  PROVE  IInv' /\ LinesStep
<1>1. /\ request' \in [Requests -> Request]
      /\ \A x \in Requests : request'[x] \in {request[x], NoRequest}
  BY ConstantsAssumption DEF IInv, TypeOK, NoRequest, NoVersion, VersionRow, Request, Open
<1>2. TypeOK' /\ LinesInv' /\ MemoryInv'
  BY <1>1 DEF IInv, TypeOK, LinesInv, MemoryInv
<1>3. EndpointInv'
  BY <1>1 DEF IInv, EndpointInv
<1>4. ProposalsInv' /\ ApartInv'
  BY DEF IInv, ProposalsInv, ApartInv, LineDisjoint, LinesApart, Separate, Says, Live, Line, Lives
<1>5. RequestsInv'
  BY <1>1, RequestsKept
<1>6. KnownInv'
  BY DEF IInv, KnownInv, OnceInv, ListsInv, RejectedStaysAway, Says, Same
<1> QED
  BY <1>2, <1>3, <1>4, <1>5, <1>6, SameLines DEF IInv

\* What a write is made of: the request, the proposal, and where they come from.
LEMMA WritingFacts ==
  ASSUME IInv, NEW q \in Requests, NEW r, r = request[q], r # NoRequest
  PROVE  /\ r \in Request /\ HasRead(r) /\ endpoint = "accepted"
         /\ r.proposal \in Proposals /\ r.version \in Versions \cup {None}
         /\ proposal[r.proposal].scene \in Scenes
         /\ request' = [request EXCEPT ![q] = NoRequest] =>
              /\ request' \in [Requests -> Request]
              /\ \A x \in Requests : request'[x] \in {request[x], NoRequest}
<1>1. r \in Request /\ HasRead(r) /\ endpoint = "accepted"
  BY DEF IInv, TypeOK, RequestsInv, EndpointInv
<1>2. r.proposal \in Proposals /\ r.version \in Versions \cup {None}
  BY <1>1 DEF Request, HasRead
<1>3. proposal[r.proposal].scene \in Scenes
  <2>1. proposal[r.proposal].scene \in 0..LastScene
    BY <1>2 DEF IInv, TypeOK, ProposalRow
  <2>2. proposal[r.proposal].scene # 0
    BY <1>1, <1>2, ProposalFacts DEF HasRead
  <2> QED
    BY <2>1, <2>2, ConstantsAssumption DEF Scenes
<1>4. ASSUME request' = [request EXCEPT ![q] = NoRequest]
      PROVE  /\ request' \in [Requests -> Request]
             /\ \A x \in Requests : request'[x] \in {request[x], NoRequest}
  BY <1>4, ConstantsAssumption DEF IInv, TypeOK, NoRequest, NoVersion, VersionRow, Request, Open
<1> QED
  BY <1>1, <1>2, <1>3, <1>4

\* Steps that write versions and approve a proposal.
LEMMA WriteKeeps ==
  ASSUME IInv, NEW p \in Proposals, NEW v \in Versions, proposal[p].status # "none",
         Approved(p, v), UNCHANGED <<endpoint, run>>, endpoint = "accepted",
         request' \in [Requests -> Request],
         \A x \in Requests : request'[x] \in {request[x], NoRequest},
         version' \in [Versions -> VersionRow], disturbed' \subseteq Versions,
         crossed' \subseteq Versions, Live(v)', \A u \in Versions : Live(u) => Live(u)',
         \A u \in Versions : version[u].line # None => version'[u].line = version[u].line,
         LinesInv', LinesStep
  PROVE  IInv'
<1>1. /\ proposal' \in [Proposals -> ProposalRow]
      /\ \A x \in Proposals : proposal[x].status # "none" =>
           /\ proposal'[x].status # "none"
           /\ proposal'[x].scene = proposal[x].scene /\ proposal'[x].kind = proposal[x].kind
      /\ ProposalsInv' /\ MemoryInv' /\ KnownInv'
  BY ApprovedKeeps
<1>2. TypeOK'
  BY <1>1 DEF IInv, TypeOK
<1>3. EndpointInv'
  BY DEF EndpointInv
<1>4. RequestsInv'
  BY <1>1, RequestsKept
<1>5. ApartInv'
  BY <1>2, ApartKept
<1> QED
  BY <1>1, <1>2, <1>3, <1>4, <1>5 DEF IInv

\* A version that has not changed since it was read is cut inside its window.
LEMMA Inside ==
  ASSUME IInv, NEW r \in Request, HasRead(r), r.proposal \in Proposals, r.version \in Versions,
         proposal[r.proposal].scene \in Scenes, version[r.version] = r.read
  PROVE  /\ version[r.version].from < proposal[r.proposal].scene
         /\ proposal[r.proposal].scene < version[r.version].to
<1> DEFINE s == proposal[r.proposal].scene
<1>1. Proper(r.read.from, s) /\ Proper(s, r.read.to)
  BY ConstantsAssumption DEF HasRead
<1>2. s \in Nat /\ s # 0 /\ s < Open /\ LastScene \in Nat
  BY ConstantsAssumption DEF Scenes, Open
<1>3. r.read.from \in 0..LastScene /\ r.read.to \in 0..Open
  BY DEF Request, VersionRow
<1> HIDE DEF s
<1>4. r.read.from < s /\ s < r.read.to
  BY <1>1, <1>2, <1>3 DEF Proper, Open
<1> QED
  BY <1>4 DEF s

LEMMA AcceptEndPreserves ==
  ASSUME IInv, NEW q \in Requests, NEW r, r = request[q], r # NoRequest,
         request' = [request EXCEPT ![q] = NoRequest], UNCHANGED <<endpoint, run>>,
         proposal[r.proposal].kind = "END", ~Gone(r.version), AcceptEnd(r.proposal, r),
         disturbed' = IF Undisturbed(r.proposal, r) THEN disturbed
                      ELSE disturbed \cup ({r.read.line} \ {None})
  PROVE  IInv' /\ LinesStep
<1> DEFINE p == r.proposal
           s == proposal[p].scene
<1>1. /\ r \in Request /\ HasRead(r) /\ endpoint = "accepted"
      /\ p \in Proposals /\ r.version \in Versions \cup {None} /\ s \in Scenes
      /\ request' \in [Requests -> Request]
      /\ \A x \in Requests : request'[x] \in {request[x], NoRequest}
  BY WritingFacts
<1>2. PICK w \in Versions : w = r.version
  BY <1>1 DEF HasRead
<1>3. w # None /\ Live(w) /\ version[w].line = r.read.line /\ r.read.line # None
  BY <1>1, <1>2, ConstantsAssumption DEF HasRead, Gone
<1>4. version' = [version EXCEPT ![w].to = s] /\ Approved(p, w) /\ crossed' = crossed
  BY <1>2 DEF AcceptEnd
<1>5. version \in [Versions -> VersionRow] /\ disturbed \subseteq Versions
      /\ version[w] \in VersionRow /\ r.read.line \in Versions \cup {None}
  BY <1>1 DEF IInv, TypeOK, Request, VersionRow
<1> HIDE DEF p, s
<1>6. /\ version'[w] = [from |-> version[w].from, to |-> s, line |-> version[w].line]
      /\ \A u \in Versions : u # w => version'[u] = version[u]
      /\ version' = [u \in Versions |-> IF u = w THEN version'[w] ELSE version[u]]
  BY <1>4, <1>5 DEF VersionRow
<1>7. s \in 0..Open /\ s # 0
  BY <1>1, ConstantsAssumption DEF Scenes, Open
<1>8. version' \in [Versions -> VersionRow]
  <2>1. version'[w] \in VersionRow
    BY <1>5, <1>6, <1>7 DEF VersionRow
  <2> QED
    BY <1>5, <1>6, <2>1
<1>9. \A u \in Versions : version'[u].line = version[u].line
  BY <1>6
<1>10. LinesInv'
  <2>1. \A u \in Versions : version'[u].line = None => version'[u] = NoVersion
    BY <1>3, <1>6 DEF IInv, LinesInv
  <2> QED
    BY <1>9, <2>1, LinesKept
<1>11. \A u \in Versions : Live(u) => Live(u)'
  BY <1>6, <1>7 DEF Live
<1>12. Live(w)'
  BY <1>3, <1>11
<1>13. /\ disturbed' \subseteq Versions /\ disturbed \subseteq disturbed'
       /\ crossed' \subseteq Versions /\ crossed \subseteq crossed'
  BY <1>4, <1>5 DEF IInv, TypeOK
<1>14. LinesStep
  <2> SUFFICES ASSUME NEW l \in Versions \ disturbed' PROVE LineStep(l)
    BY <1>13 DEF LinesStep
  <2>1. CASE l # version[w].line
    <3>1. \A u \in Versions : version'[u] # version[u] => version'[u].line # l
      BY <1>6, <2>1
    <3> QED
      BY <1>13, <3>1, OtherLines DEF LineStep
  <2>2. CASE l = version[w].line
    <3>1. Undisturbed(p, r)
      BY <1>3, <2>2 DEF p
    <3>2. version[w] = r.read
      BY <1>2, <1>3, <3>1 DEF Undisturbed
    <3>3. version[w].from < s /\ s < version[w].to
      BY <1>1, <1>2, <3>2, Inside DEF p, s
    <3>4. w \in Line(l) /\ None \notin Line(l)
      BY <1>3, <2>2, ConstantsAssumption DEF Line, Lives
    <3>5. ASSUME NEW u \in Line(l)'
          PROVE  \/ u = w /\ version'[u].from = version[w].from /\ version'[u].to = s
                 \/ u \in Line(l) \ {w} /\ version'[u] = version[u]
      <4>1. u \in Versions
        BY DEF Line, Lives
      <4>2. CASE u = w
        BY <1>6, <4>2
      <4>3. CASE u # w
        <5>1. version'[u] = version[u]
          BY <1>6, <4>1, <4>3
        <5> QED
          BY <4>3, <5>1 DEF Line, Lives, Live
      <4> QED
        BY <4>2, <4>3
    <3>6. Cut(l, w, None, s)
      BY <1>1, <3>3, <3>4, <3>5 DEF Cut
    <3> QED
      BY <1>1, <3>6 DEF LineStep
  <2> QED
    BY <2>1, <2>2
<1>15. proposal[p].status # "none"
  BY <1>1 DEF HasRead, p
<1> QED
  BY <1>1, <1>4, <1>8, <1>9, <1>10, <1>11, <1>12, <1>13, <1>14, <1>15, WriteKeeps

\* A new version begins where there was none, or takes over from the one it was read in.
LEMMA AcceptVersionPreserves ==
  ASSUME IInv, NEW q \in Requests, NEW r, r = request[q], r # NoRequest,
         request' = [request EXCEPT ![q] = NoRequest], UNCHANGED <<endpoint, run>>,
         ~Gone(r.version), AcceptVersion(r.proposal, r),
         disturbed' = IF Undisturbed(r.proposal, r) THEN disturbed
                      ELSE disturbed \cup ({r.read.line} \ {None})
  PROVE  IInv' /\ LinesStep
<1> DEFINE p == r.proposal
           s == proposal[p].scene
<1>1. /\ r \in Request /\ HasRead(r) /\ endpoint = "accepted"
      /\ p \in Proposals /\ r.version \in Versions \cup {None} /\ s \in Scenes
      /\ request' \in [Requests -> Request]
      /\ \A x \in Requests : request'[x] \in {request[x], NoRequest}
  <2>1. /\ r \in Request /\ HasRead(r) /\ endpoint = "accepted"
        /\ r.proposal \in Proposals /\ r.version \in Versions \cup {None}
        /\ proposal[r.proposal].scene \in Scenes
    BY WritingFacts
  <2>2. /\ request' \in [Requests -> Request]
        /\ \A x \in Requests : request'[x] \in {request[x], NoRequest}
    BY WritingFacts
  <2> QED
    BY <2>1, <2>2
<1>2. PICK v \in Unused :
        /\ version' = IF r.version = None THEN NewVersion(v, s, NewEnd(r), v)
                      ELSE [NewVersion(v, s, NewEnd(r), r.read.line) EXCEPT ![r.version].to = s]
        /\ crossed' = IF r.version = None /\ Meets(s, r.to) THEN crossed \cup {v} ELSE crossed
        /\ Approved(p, v)
  BY DEF AcceptVersion
<1>3. v \in Versions /\ version[v] = NoVersion /\ v # None /\ version[v].line = None
      /\ ~Live(v)
  BY ConstantsAssumption DEF Unused, NoVersion, Live
<1>4. version \in [Versions -> VersionRow] /\ disturbed \subseteq Versions
      /\ r.read.line \in Versions \cup {None} /\ r.read.from \in 0..LastScene
      /\ r.read.to \in 0..Open /\ r.to \in 0..Open
  BY <1>1 DEF IInv, TypeOK, Request, VersionRow
<1>5. s < r.to /\ proposal[p].status # "none"
  BY <1>1 DEF HasRead
<1>6. /\ disturbed' \subseteq Versions /\ disturbed \subseteq disturbed'
      /\ crossed' \subseteq Versions /\ crossed \subseteq crossed'
  BY <1>2, <1>3, <1>4 DEF IInv, TypeOK
<1> HIDE DEF p, s
<1>7. s \in 0..LastScene /\ s # 0 /\ s \in 0..Open
  BY <1>1, ConstantsAssumption DEF Scenes, Open
<1>8. CASE r.version = None
  <2>1. NewEnd(r) = r.to
    BY <1>8 DEF NewEnd
  <2>2. /\ version'[v] = [from |-> s, to |-> r.to, line |-> v]
        /\ \A u \in Versions : u # v => version'[u] = version[u]
        /\ version' = [u \in Versions |-> IF u = v THEN version'[v] ELSE version[u]]
    BY <1>2, <1>3, <1>4, <1>8, <2>1 DEF NewVersion
  <2>3. version' \in [Versions -> VersionRow]
    <3>1. version'[v] \in VersionRow
      BY <1>3, <1>4, <1>7, <2>2 DEF VersionRow
    <3> QED
      BY <1>4, <2>2, <3>1
  <2>4. Live(v)'
    BY <1>4, <1>5, <1>7, <2>2, ConstantsAssumption DEF Live, Open
  <2>5. \A u \in Versions : /\ Live(u) => Live(u)'
                            /\ version[u].line # None => version'[u].line = version[u].line
    <3> TAKE u \in Versions
    <3>1. CASE u = v
      BY <1>3, <3>1
    <3>2. CASE u # v
      BY <2>2, <3>2 DEF Live
    <3> QED
      BY <3>1, <3>2
  <2>6. LinesInv'
    <3>1. \A u \in Versions : version'[u].line = None => version'[u] = NoVersion
      BY <1>3, <2>2 DEF IInv, LinesInv
    <3>2. \A u \in Versions :
            \/ version'[u].line = version[u].line
            \/ version[u] = NoVersion /\ version'[u].line = u
      <4> TAKE u \in Versions
      <4>1. CASE u = v
        BY <1>3, <2>2, <4>1
      <4>2. CASE u # v
        BY <2>2, <4>2
      <4> QED
        BY <4>1, <4>2
    <3> QED
      BY <3>1, <3>2, LinesKept
  <2>7. LinesStep
    <3> SUFFICES ASSUME NEW l \in Versions \ disturbed' PROVE LineStep(l)
      BY <1>6 DEF LinesStep
    <3>1. CASE l # v
      <4>1. \A u \in Versions : version'[u] # version[u] => version'[u].line # l
        BY <2>2, <3>1
      <4> QED
        BY <1>6, <4>1, OtherLines DEF LineStep
    <3>2. CASE l = v
      <4>1. \A u \in Versions : version[u].line # v
        BY <1>3 DEF IInv, LinesInv
      <4>2. Line(l) = {}
        BY <3>2, <4>1 DEF Line, Lives
      <4>3. \A u \in Line(l)' : u = v
        BY <2>2, <3>2, <4>1 DEF Line, Lives
      <4>4. version'[v].from < version'[v].to
        BY <1>5, <2>2
      <4>5. ASSUME l \notin crossed', NEW m \in Versions \ disturbed', m # l, NEW u \in Line(m)'
            PROVE  version'[v].to <= version'[u].from \/ version'[u].to <= version'[v].from
        <5>1. u \in Versions /\ u # v
          BY <2>2, <3>2, <4>5 DEF Line, Lives
        <5>2. u \in Lives /\ version'[u] = version[u]
          BY <2>2, <5>1 DEF Line, Lives, Live
        <5>3. ~Meets(s, r.to)
          BY <1>2, <1>8, <3>2, <4>5
        <5>4. version[u].from \in Nat /\ version[u].to \in Nat /\ s \in Nat /\ r.to \in Nat
          BY <1>4, <1>7, <5>1, ConstantsAssumption DEF VersionRow, Open
        <5>5. ~(s < version[u].to /\ version[u].from < r.to)
          BY <5>2, <5>3 DEF Meets
        <5> QED
          BY <2>2, <5>2, <5>4, <5>5
      <4>6. Begun(l, v)
        BY <4>2, <4>3, <4>4, <4>5 DEF Begun
      <4> QED
        BY <1>3, <4>6 DEF LineStep
    <3> QED
      BY <3>1, <3>2
  <2> QED
    BY <1>1, <1>2, <1>3, <1>5, <1>6, <2>3, <2>4, <2>5, <2>6, <2>7, WriteKeeps
<1>9. CASE r.version # None
  <2>1. PICK w \in Versions : w = r.version
    BY <1>1, <1>9
  <2>2. Live(w) /\ version[w].line = r.read.line /\ r.read.line # None /\ r.read.to # 0
        /\ w # v
    BY <1>1, <1>3, <1>9, <2>1 DEF HasRead, Gone
  <2>3. NewEnd(r) \in 0..Open /\ NewEnd(r) # 0
    BY <1>4, <1>5, <1>7, <2>2, ConstantsAssumption DEF NewEnd, Open
  <2>4. PICK e \in 0..Open : e = NewEnd(r) /\ e # 0
    BY <2>3
  <2>5. version[w] \in VersionRow
    BY <1>4
  <2>6. version' = [[version EXCEPT ![v] = [from |-> s, to |-> e, line |-> r.read.line]]
                      EXCEPT ![w].to = s]
    BY <1>2, <1>9, <2>1, <2>4 DEF NewVersion
  <2>7. /\ version'[v] = [from |-> s, to |-> e, line |-> r.read.line]
        /\ version'[w] = [from |-> version[w].from, to |-> s, line |-> version[w].line]
        /\ \A u \in Versions : u # v /\ u # w => version'[u] = version[u]
        /\ version' = [u \in Versions |-> version'[u]]
    BY <1>3, <1>4, <2>2, <2>5, <2>6 DEF VersionRow
  <2>8. version' \in [Versions -> VersionRow]
    <3>1. version'[v] \in VersionRow
      BY <1>4, <1>7, <2>7 DEF VersionRow
    <3>2. version'[w] \in VersionRow
      BY <1>7, <2>5, <2>7 DEF VersionRow
    <3>3. \A u \in Versions : version'[u] \in VersionRow
      BY <1>4, <2>7, <3>1, <3>2
    <3> QED
      BY <2>7, <3>3
  <2>9. Live(v)' /\ Live(w)'
    BY <1>7, <2>4, <2>7 DEF Live
  <2>10. \A u \in Versions : /\ Live(u) => Live(u)'
                             /\ version[u].line # None => version'[u].line = version[u].line
    <3> TAKE u \in Versions
    <3>1. CASE u = v
      BY <1>3, <2>9, <3>1
    <3>2. CASE u = w
      BY <2>7, <2>9, <3>2
    <3>3. CASE u # v /\ u # w
      BY <2>7, <3>3 DEF Live
    <3> QED
      BY <3>1, <3>2, <3>3
  <2>11. LinesInv'
    <3>1. \A u \in Versions : version'[u].line = None => version'[u] = NoVersion
      BY <2>2, <2>7 DEF IInv, LinesInv
    <3>2. version[r.read.line].line = r.read.line /\ r.read.line \in Versions
      BY <1>4, <2>2 DEF IInv, LinesInv
    <3>3. \A u \in Versions :
            \/ version'[u].line = version[u].line
            \/ version[u] = NoVersion /\ version'[u].line \in Versions
               /\ version[version'[u].line].line = version'[u].line
      <4> TAKE u \in Versions
      <4>1. CASE u = v
        BY <1>3, <2>7, <3>2, <4>1
      <4>2. CASE u # v
        BY <2>7, <4>2
      <4> QED
        BY <4>1, <4>2
    <3> QED
      BY <3>1, <3>3, LinesKept
  <2>12. LinesStep
    <3> SUFFICES ASSUME NEW l \in Versions \ disturbed' PROVE LineStep(l)
      BY <1>6 DEF LinesStep
    <3>1. CASE l # version[w].line
      <4>1. \A u \in Versions : version'[u] # version[u] => version'[u].line # l
        BY <2>2, <2>7, <3>1
      <4> QED
        BY <1>6, <4>1, OtherLines DEF LineStep
    <3>2. CASE l = version[w].line
      <4>1. Undisturbed(p, r)
        BY <2>2, <3>2 DEF p
      <4>2. version[w] = r.read /\ r.to = Open
        BY <1>9, <2>1, <4>1 DEF Undisturbed
      <4>3. e = version[w].to
        BY <1>9, <2>4, <4>2 DEF NewEnd
      <4>4. version[w].from < s /\ s < version[w].to
        BY <1>1, <2>1, <4>2, Inside DEF p, s
      <4>5. w \in Line(l) /\ v \notin Line(l)
        BY <1>3, <2>2, <3>2 DEF Line, Lives
      <4>6. ASSUME NEW u \in Line(l)'
            PROVE  \/ u = w /\ version'[u].from = version[w].from /\ version'[u].to = s
                   \/ u = v /\ version'[u].from = s /\ version'[u].to = version[w].to
                   \/ u \in Line(l) \ {w} /\ version'[u] = version[u]
        <5>1. u \in Versions
          BY DEF Line, Lives
        <5>2. CASE u = w
          BY <2>7, <5>2
        <5>3. CASE u = v
          BY <2>7, <4>3, <5>3
        <5>4. CASE u # w /\ u # v
          <6>1. version'[u] = version[u]
            BY <2>7, <5>1, <5>4
          <6> QED
            BY <5>4, <6>1 DEF Line, Lives, Live
        <5> QED
          BY <5>2, <5>3, <5>4
      <4>7. Cut(l, w, v, s)
        BY <1>1, <4>4, <4>5, <4>6 DEF Cut
      <4> QED
        BY <1>1, <1>3, <4>7 DEF LineStep
    <3> QED
      BY <3>1, <3>2
  <2> QED
    BY <1>1, <1>2, <1>3, <1>5, <1>6, <2>8, <2>9, <2>10, <2>11, <2>12, WriteKeeps
<1> QED
  BY <1>8, <1>9

LEMMA WriteAcceptedPreserves ==
  ASSUME IInv, NEW q \in Requests, WriteAccepted(q) PROVE IInv' /\ LinesStep
<1>1. PICK r : r = request[q]
  OBVIOUS
<1>2. /\ r # NoRequest /\ request' = [request EXCEPT ![q] = NoRequest]
      /\ UNCHANGED <<endpoint, run>>
  BY <1>1 DEF WriteAccepted
<1>3. CASE UNCHANGED <<version, proposal, disturbed, crossed>>
  BY <1>2, <1>3, ForgottenKeeps
<1>4. CASE /\ ~Gone(r.version)
           /\ IF proposal[r.proposal].kind = "END" THEN AcceptEnd(r.proposal, r)
              ELSE AcceptVersion(r.proposal, r)
           /\ disturbed' = IF Undisturbed(r.proposal, r) THEN disturbed
                           ELSE disturbed \cup ({r.read.line} \ {None})
  BY <1>1, <1>2, <1>4, AcceptEndPreserves, AcceptVersionPreserves
<1> QED
  BY <1>1, <1>3, <1>4 DEF WriteAccepted
-----------------------------------------------------------------------------
(* The theorems *)

LEMMA NextPreserves == IInv /\ [Next]_vars => IInv' /\ LinesStep
<1> SUFFICES ASSUME IInv, [Next]_vars PROVE IInv' /\ LinesStep
  OBVIOUS
<1>1. ASSUME NEW s \in Scenes, Save(s) \/ StartAnalysis(s) PROVE IInv' /\ LinesStep
  <2>1. IInv'
    BY <1>1, SavePreserves, StartAnalysisPreserves
  <2> QED
    BY <1>1, <2>1, SameLines DEF Save, StartAnalysis
<1>2. CASE DropProposals \/ TakeSnapshot \/ ReadLists \/ EndAnalysis
  <2>1. IInv'
    BY <1>2, DropProposalsPreserves, TakeSnapshotPreserves, ReadListsPreserves, EndAnalysisPreserves
  <2> QED
    BY <1>2, <2>1, SameLines DEF DropProposals, TakeSnapshot, ReadLists, EndAnalysis
<1>3. ASSUME NEW k \in Kinds, NEW e \in Evidence, Candidate(k, {e}) PROVE IInv' /\ LinesStep
  <2>1. IInv'
    BY <1>3, CandidatePreserves
  <2> QED
    BY <1>3, <2>1, SameLines DEF Candidate
<1>4. CASE AcceptEndpoint \/ RejectEndpoint
  <2>1. IInv'
    BY <1>4, AcceptEndpointPreserves, RejectEndpointPreserves
  <2> QED
    BY <1>4, <2>1, SameLines DEF AcceptEndpoint, RejectEndpoint
<1>5. ASSUME NEW p \in Proposals, RejectProposal(p) PROVE IInv' /\ LinesStep
  <2>1. IInv'
    BY <1>5, RejectProposalPreserves
  <2> QED
    BY <1>5, <2>1, SameLines DEF RejectProposal
<1>6. ASSUME NEW q \in Requests, NEW p \in Proposals, NEW to \in 1..Open, ReadAccepted(q, p, to)
      PROVE  IInv' /\ LinesStep
  <2>1. IInv'
    BY <1>6, ReadAcceptedPreserves
  <2> QED
    BY <1>6, <2>1, SameLines DEF ReadAccepted
<1>7. ASSUME NEW q \in Requests, WriteAccepted(q) PROVE IInv' /\ LinesStep
  BY <1>7, WriteAcceptedPreserves
<1>8. \A w \in Windows : w[1] \in 0..LastScene /\ w[2] \in 1..Open
  BY ConstantsAssumption DEF Open
<1>9. ASSUME NEW w \in Windows, CreateRelationship(w[1], w[2]) PROVE IInv' /\ LinesStep
  BY <1>8, <1>9, CreateRelationshipPreserves
<1>10. ASSUME NEW v \in Versions, RemoveRelationship(v) PROVE IInv' /\ LinesStep
  BY <1>10, RemoveRelationshipPreserves
<1>11. ASSUME NEW v \in Versions, NEW w \in Windows, UpdateRelationship(v, w[1], w[2])
       PROVE  IInv' /\ LinesStep
  BY <1>8, <1>11, UpdateRelationshipPreserves
<1>12. CASE UNCHANGED vars
  <2>1. KnownInv' /\ MemoryInv'
    BY <1>12 DEF vars, IInv, KnownInv, OnceInv, ListsInv, RejectedStaysAway, Says, Same, MemoryInv
  <2>2. IInv'
    BY <1>12, <2>1, MemoryKept DEF vars, IInv, TypeOK, EndpointInv
  <2> QED
    BY <1>12, <2>2, SameLines DEF vars
<1> QED
  BY <1>1, <1>2, <1>3, <1>4, <1>5, <1>6, <1>7, <1>9, <1>10, <1>11, <1>12 DEF Next

\* Types, versions that do not overlap unless somebody intervened or an acceptance began a
\* line where a version already held, and what was rejected stays away: acceptProposal
\* beside analyses and the author, in RelationshipProposalService.
THEOREM VersionsStaySound == Spec => []VersionsAreSound
<1>1. IInv => VersionsAreSound
  <2> SUFFICES ASSUME IInv PROVE VersionsAreSound
    OBVIOUS
  <2>1. ASSUME NEW v \in Lives, NEW w \in Lives, Compared(version[v].line, version[w].line)
        PROVE  /\ version[v].from < version[v].to
               /\ v # w => Separate(v, w)
    <3>1. PICK l, m : l = version[v].line /\ m = version[w].line
      OBVIOUS
    <3>2. l \in Versions /\ m \in Versions /\ v \in Line(l) /\ w \in Line(m)
      BY <3>1 DEF IInv, LinesInv, TypeOK, VersionRow, Line, Lives, Live, NoVersion
    <3>3. {l, m} \cap disturbed = {} /\ (l = m \/ {l, m} \cap crossed = {})
      BY <2>1, <3>1 DEF Compared
    <3>4. version[v].from < version[v].to
      BY <3>2, <3>3 DEF IInv, ApartInv, LineDisjoint
    <3>5. CASE l = m
      BY <3>2, <3>3, <3>4, <3>5 DEF IInv, ApartInv, LineDisjoint
    <3>6. CASE l # m
      BY <3>2, <3>3, <3>4, <3>6 DEF IInv, ApartInv, LinesApart
    <3> QED
      BY <3>5, <3>6
  <2>2. VersionsDisjoint
    BY <2>1 DEF VersionsDisjoint
  <2> QED
    BY <2>2 DEF IInv, KnownInv, VersionsAreSound
<1>2. IInv /\ [Next]_vars => IInv'
  BY NextPreserves
<1> QED
  BY InitEstablishes, <1>1, <1>2, PTL DEF Spec

\* No acceptance makes a line hold in a scene it no longer held in, not even that of a
\* change that was proposed before the line was ended.
THEOREM EndedForGood == Spec => EndedStaysEnded
<1>1. IInv /\ [Next]_vars => IInv'
  BY NextPreserves
<1>2. IInv /\ IInv' /\ [Next]_vars
        => [\A l \in Versions \ disturbed' : Line(l) # {} => Covered(l)' \subseteq Covered(l)]_vars
  <2> SUFFICES ASSUME IInv, IInv', [Next]_vars
               PROVE  \A l \in Versions \ disturbed' : Line(l) # {} => Covered(l)' \subseteq Covered(l)
    OBVIOUS
  <2>1. LinesStep /\ TypeOK'
    BY NextPreserves DEF IInv
  <2> QED
    BY <2>1, CoverKept
<1> QED
  BY InitEstablishes, <1>1, <1>2, PTL DEF Spec, EndedStaysEnded
=============================================================================
