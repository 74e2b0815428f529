---------------------------- MODULE MCSummaryJobs ----------------------------
(***************************************************************************)
(* Instance of SummaryJobs for TLC.  The two slots of the generation       *)
(* worker are interchangeable.                                             *)
(***************************************************************************)
EXTENDS SummaryJobs, TLC

Symmetry == Permutations(Workers)

\* Bound: a behaviour has a save and an invalidation, or a fault, but not a save and
\* a fault.
Bounded == saves' = 0 \/ faults' = 0

MCSpec == Init /\ [][Next /\ Bounded]_vars
==============================================================================
