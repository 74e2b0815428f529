------------------------- MODULE MCRelationshipReview -------------------------
(***************************************************************************)
(* Two scenes, one version that an acceptance may split in two.            *)
(***************************************************************************)
EXTENDS RelationshipReview, TLC

Symmetry == Permutations(Versions) \cup Permutations(Proposals)

HandWindows == {<<2, Open>>}

\* What no later step and no property reads of a decided proposal is left out of the
\* view: all of it, but for the key and the quotes of a rejected one.
Held(p) == p \in run.drop \cup run.open \/ \E q \in Requests : request[q].proposal = p
Seen(p) ==
  LET row == proposal[p] IN
  CASE Held(p) \/ row.status \in {"none", "PENDING"} -> row
    [] row.status = "REJECTED" -> <<row.kind, row.about, row.version, row.end, row.evidence>>
    [] OTHER -> <<row.status>>
View == <<version, [p \in Proposals |-> Seen(p)], endpoint, run, request, disturbed, crossed>>
=============================================================================
