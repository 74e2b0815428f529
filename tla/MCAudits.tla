------------------------------- MODULE MCAudits -------------------------------
(***************************************************************************)
(* The audit of a book and the alerts of a scene, two of the components of *)
(* MCLibrary: a behaviour is one of the one called part.                   *)
(***************************************************************************)
EXTENDS MCParts, Naturals, Sequences

CONSTANTS
  AuditedScenes, SceneClaims, MaxClaims, FirstOrders, FirstClaims,
  AuditSaves, AuditChanges,                               \* ContinuityAudit
  SceneTexts, ClaimOf, GroupSize, AlertSaves, MaxVerdicts \* SceneAlerts

auditVars == <<part, v1, v2, v3, v4, v5, v6, v7, v8, v9, v10>>

Audit == INSTANCE ContinuityAudit WITH
  order <- v1, text <- v2, checkpoint <- v3, alerts <- v4, mode <- v5, queued <- v6, job <- v7,
  excused <- v8, saves <- v9, changes <- v10,
  Scenes <- AuditedScenes, Texts <- SceneClaims, MaxSaves <- AuditSaves, MaxChanges <- AuditChanges

Alerts == INSTANCE SceneAlerts WITH
  mode <- v1, rows <- v2, events <- v3, alerts <- v4, suppressed <- v5, job <- v6, decided <- v7,
  failed <- v8, saves <- v9, verdicts <- v10,
  Contents <- SceneTexts, Value <- ClaimOf, MaxSaves <- AlertSaves

\* What the two components assume of their constants.
ASSUME AuditsAssumption == Audit!AuditAssumption /\ Alerts!SceneAssumption

AuditsInit ==
  \/ part = "audit" /\ Audit!Init /\ v1 \in FirstOrders /\ v2 \in FirstClaims
  \/ part = "alerts" /\ Alerts!Init

AuditsNext ==
  /\ part' = part
  /\ \/ part = "audit" /\ Audit!Next
     \/ part = "alerts" /\ Alerts!Next

AuditsSpec == AuditsInit /\ [][AuditsNext]_auditVars
-----------------------------------------------------------------------------
(* The properties of the two components, as they are stated there. *)

\* ContinuityAudit: once the audits have run every contradiction is an alert.
QuietAuditIsComplete == part = "audit" => Audit!QuietAuditIsComplete

\* SceneAlerts: once the analyses have run the contradictions of a scene are reported.
QuietSceneIsReported == part = "alerts" => Alerts!QuietSceneIsReported

\* SceneAlerts: what the author dismissed does not come back.
DismissedStaysAway == [][part = "alerts" => Alerts!DismissedReturnsOvertaken]_auditVars
=============================================================================
