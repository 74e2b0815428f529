---------------------------- MODULE MCProjectRuns ----------------------------
(***************************************************************************)
(* ProjectRuns on small instances: several runs of a project that nothing  *)
(* disturbs, or fewer of them with crashes, lost locks and redeliveries.   *)
(***************************************************************************)
EXTENDS ProjectRuns

CONSTANTS
  RunsWithFaults,   \* bound: runs of a behaviour that has faults
  LaterScenes       \* bound: scenes of the runs after the first

\* The author writes nothing more once there is a second run.

Bounded ==
  /\ faults' > 0 => Len(runs') <= RunsWithFaults
  /\ \A r \in 2..Len(runs') : Cardinality(DOMAIN runs'[r].scenes) <= LaterScenes
  /\ Len(runs) > 1 => live' = live /\ dirty' \subseteq dirty

MCSpec == Init /\ [][Next /\ Bounded]_vars /\ Fairness
=============================================================================
