--------------------------- MODULE MCEntityReview ---------------------------
(***************************************************************************)
(* Two scenes that may mention one name, and two acceptances at a time.    *)
(***************************************************************************)
EXTENDS EntityReview, TLC

Symmetry == Permutations(Scenes) \cup Permutations(Entities)
            \cup Permutations(Proposals) \cup Permutations(Requests)

\* What no later step and no property reads is left out of the view: the scene and
\* quotes of a proposal that is decided, and what an analysis that has only its flag
\* to clear still holds.

Over(p) ==
  /\ Row(p).status \in {"APPROVED", "REJECTED"}
  /\ p \notin run.known
  /\ \A q \in Requests : request[q].proposal # p
RunInView == IF run.phase = "extract" /\ run.todo = {}
             THEN [run EXCEPT !.seen = {}, !.known = {}, !.chunk.dirty = FALSE] ELSE run
View == <<chunk, lastId, entity, RunInView, request, excused,
          [p \in Proposals |-> IF Over(p) THEN Over(p) ELSE Row(p)]>>
=============================================================================
