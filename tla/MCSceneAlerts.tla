---------------------------- MODULE MCSceneAlerts ----------------------------
(***************************************************************************)
(* The alerts of one scene, alone: the author resolves an alert that is    *)
(* active, while no analysis runs.                                         *)
(***************************************************************************)
EXTENDS SceneAlerts, TLC

CONSTANTS a, b, x   \* texts: a and b contradict each other, x claims nothing

MCContents == {<<a, b>>, <<x, a, b>>}
MCValue == a :> 1 @@ b :> 2 @@ x :> 0

ResolvedFromTheList ==
  \A d \in decided' \ decided :
    /\ d.status = "RESOLVED" /\ job = Idle
    /\ \E r \in alerts : r.status = "ACTIVE" /\ Pattern(r.fingerprint) = d.pattern

CheckedNext == Next /\ ResolvedFromTheList

CheckedSpec == Init /\ [][CheckedNext]_sceneAlertsVars
=============================================================================
