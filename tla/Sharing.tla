------------------------------- MODULE Sharing -------------------------------
(***************************************************************************)
(* A shared version of a book: src/reading/reading.service.ts and its      *)
(* helpers.                                                                *)
(*                                                                         *)
(* Every request reads the ShareLink row once and decides on that row what *)
(* it may do; accepting the invitation and storing a comment then write.   *)
(* Between the two the owner may revoke the invitation, change what it     *)
(* permits, or delete the project, and it may expire.                      *)
(*                                                                         *)
(* The frozen text is left out: createShare copies it and no operation     *)
(* writes it.                                                              *)
(***************************************************************************)
EXTENDS Naturals, Sequences

CONSTANTS
  Readings,     \* requests of readers
  MaxChanges    \* bound: status changes of a comment

ChangesAssumption == MaxChanges \in Nat

VARIABLES
  share,        \* the ShareLink row, with what it reads of its project
  reading,      \* what each request holds: its kind, who sends it, the row it read
  comments,     \* ReaderComment rows: the request that stored it, status, history
  changes       \* changes of a comment's status so far

sharingVars == <<share, reading, comments, changes>>

Kinds == {"accept", "view", "comment"}

\* The account the invitation names, or another one; each with or without the token.
Readers == [invited : BOOLEAN, token : BOOLEAN]

NewShare == [status |-> "PENDING", isActive |-> TRUE, revokedAt |-> FALSE,
             expired |-> FALSE, deleted |-> FALSE, comment |-> TRUE, readerCount |-> 0]

NotSent == [phase |-> "idle", kind |-> "view", by |-> [invited |-> TRUE, token |-> TRUE],
            row |-> NewShare]

Init ==
  /\ share \in {[NewShare EXCEPT !.comment = c] : c \in BOOLEAN}   \* createShare
  /\ reading = [r \in Readings |-> NotSent]
  /\ comments = <<>>
  /\ changes = 0
-----------------------------------------------------------------------------
(* The owner *)

UpdateShare ==
  /\ share.status # "REVOKED" /\ ~share.deleted
  /\ share' = [share EXCEPT !.comment = ~@]
  /\ UNCHANGED <<reading, comments, changes>>

RevokeShare ==
  /\ share.status # "REVOKED" /\ ~share.deleted
  /\ share' = [share EXCEPT !.status = "REVOKED", !.isActive = FALSE, !.revokedAt = TRUE]
  /\ UNCHANGED <<reading, comments, changes>>

DeleteProject ==
  /\ share' = [share EXCEPT !.deleted = TRUE]
  /\ UNCHANGED <<reading, comments, changes>>

Expire ==
  /\ share' = [share EXCEPT !.expired = TRUE]
  /\ UNCHANGED <<reading, comments, changes>>

\* updateComment: the status of a comment and the event of its change, only when it
\* changes.
UpdateComment(i, status) ==
  /\ changes < MaxChanges
  /\ changes' = changes + 1
  /\ comments' = IF comments[i].status = status THEN comments
                 ELSE [comments EXCEPT ![i].status = status,
                                       ![i].events = Append(@, status)]
  /\ UNCHANGED <<share, reading>>
-----------------------------------------------------------------------------
(* Readers *)

\* Mutant of Active: only the status tells a revoked invitation.
ActiveByStatus(row) == row.status # "REVOKED" /\ ~row.deleted /\ ~row.expired

\* assertShareActive.
Active(row) == row.isActive /\ row.status # "REVOKED" /\ ~row.deleted /\ ~row.expired

\* assertViewerAccess for somebody who is not the owner.
MayView(row, by) == Active(row) /\ row.status = "ACCEPTED" /\ by.invited /\ by.token

\* What a request that has read this row does next.
Decided(kind, by, row) ==
  CASE kind = "accept" ->
         IF ~(Active(row) /\ by.token /\ by.invited) THEN "refused"
         ELSE IF row.status # "ACCEPTED" THEN "accepting" ELSE "accepted"
    [] kind = "view" -> IF MayView(row, by) THEN "served" ELSE "refused"
    [] kind = "comment" ->
         IF MayView(row, by) /\ row.comment THEN "storing" ELSE "refused"

FindShareAccess(r, kind, by) ==
  /\ reading[r].phase = "idle"
  /\ reading' = [reading EXCEPT ![r] =
       [phase |-> Decided(kind, by, share), kind |-> kind, by |-> by, row |-> share]]
  /\ UNCHANGED <<share, comments, changes>>

\* The row is updated by its id, whatever became of it since it was read.
AcceptInvitation(r) ==
  /\ reading[r].phase = "accepting"
  /\ share' = [share EXCEPT !.status = "ACCEPTED", !.readerCount = @ + 1]
  /\ reading' = [reading EXCEPT ![r].phase = "accepted"]
  /\ UNCHANGED <<comments, changes>>

\* acceptInvitation ends with getSharedManuscript, which reads the row again.
OpenAccepted(r) ==
  /\ reading[r].phase = "accepted"
  /\ reading' = [reading EXCEPT ![r].row = share,
                   ![r].phase = IF MayView(share, reading[r].by) THEN "served" ELSE "refused"]
  /\ UNCHANGED <<share, comments, changes>>

StoreComment(r) ==
  /\ reading[r].phase = "storing"
  /\ reading' = [reading EXCEPT ![r].phase = "served"]
  /\ comments' = Append(comments, [by |-> r, status |-> "OPEN", events |-> <<"OPEN">>])
  /\ UNCHANGED <<share, changes>>

Next ==
  \/ UpdateShare \/ RevokeShare \/ DeleteProject \/ Expire
  \/ \E i \in DOMAIN comments, status \in {"OPEN", "RESOLVED"} : UpdateComment(i, status)
  \/ \E r \in Readings :
       \/ \E kind \in Kinds, by \in Readers : FindShareAccess(r, kind, by)
       \/ AcceptInvitation(r) \/ OpenAccepted(r) \/ StoreComment(r)

Spec == Init /\ [][Next]_sharingVars
-----------------------------------------------------------------------------
(* Properties *)

\* Revoking is final: a request that reads the row after the invitation was revoked is
\* shown nothing and stores nothing, although an acceptance on its way may set the
\* status of a revoked row back to ACCEPTED.
RevokedAdmitsNobody ==
  \A r \in Readings : reading[r].row.revokedAt => reading[r].phase = "refused"
=============================================================================
