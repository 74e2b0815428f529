--------------------------- MODULE MCEntityStates ---------------------------
(* EntityStates under a name of its own, with values of the constants that a
   configuration cannot write. *)
EXTENDS Naturals, Sequences

CONSTANTS NumScenes, Keys, SingleValue, Values, Proposed, Conflicts, Edits, Deletable, MaxRows,
          MaxBusyRows

VARIABLES rows, live, locked, review, evidence, held, alerts, lockedFirst, inOrder, step

States == INSTANCE EntityStates

\* What EntityStates assumes of its constants.
ASSUME StatesAssumed == States!StatesAssumption

StatesSpec == States!Spec

\* Two steps of a transition in the second of three scenes.
TwoSteps ==
  {[scene |-> 2, key |-> "status", value |-> "a", order |-> 1, kind |-> "transition"],
   [scene |-> 2, key |-> "status", value |-> "b", order |-> 2, kind |-> "transition"]}

OneConflict == {[scene |-> 2, key |-> "status", value |-> "a"]}

\* A state without an end, and one that ends within the book.
TwoEdits == {[value |-> "a", from |-> 1, to |-> 0], [value |-> "b", from |-> 2, to |-> 3]}

\* VIEW: no action reads step, and the properties read only its next value; nor the
\* conflict of a proposal that is not pending, nor the evidence of one that was never
\* made: both are written again before they are read.
WithoutStep ==
  LET seen == [p \in Proposed |->
        CASE review[p].status = "none" /\ held.phase = "idle" -> <<"none", evidence[p] = "deleted">>
          [] review[p].status = "PENDING" -> <<evidence[p], review[p].conflict>>
          [] OTHER -> <<review[p].status, evidence[p]>>]
  IN  <<rows, live, locked, seen, held, alerts, lockedFirst, inOrder>>

\* EntityStates: the rows of an attribute stay what the author would call consistent.
RowsAreSound == States!RowsAreSound

\* EntityStates: what the author decided, locked or could be told about is respected by
\* every step.
StepsRespectTheAuthor == States!StepsRespectTheAuthor
=============================================================================
