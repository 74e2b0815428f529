-------------------------- MODULE AccountDeletion --------------------------
(***************************************************************************)
(* The deletion of an account: src/user/user.service.ts, with the guard    *)
(* that lets a request in (auth/auth.service.ts).                          *)
(*                                                                         *)
(* deleteAccount lists the projects, then the files and the outbox events  *)
(* that belong to them, deletes the rows and leaves a tombstone in one     *)
(* transaction, purges the files and destroys the identity at Firebase.    *)
(* Meanwhile other requests of the same author, let in before, go on       *)
(* writing; the process may end between two steps.                         *)
(***************************************************************************)
EXTENDS Naturals, FiniteSets

CONSTANTS
  Deletions,    \* deleteAccount requests
  Writers,      \* other requests of the author
  Projects,
  Attempts,     \* DELETION_TRANSACTION_ATTEMPTS, DELETION_FIREBASE_ATTEMPTS
  MaxFailures   \* bound: failures of the database, the bucket, Firebase, or a crash

AttemptsAssumption == Attempts \in Nat \ {0} /\ MaxFailures \in Nat

VARIABLES
  user,         \* the User row: "live", "tombstone"
  identity,     \* at Firebase: "live", "gone"
  project,      \* "none", "plain", or "held": with a relationship, a summary, a share, ...,
                \* rows that do not go with their project and forbid to delete it
  files,        \* projects with an object in the bucket
  events,       \* projects with an outbox event of one of their scenes, notes or jobs
  deletion,     \* what each deleteAccount holds
  writer,       \* other requests: "idle", "admitted", "done"
  admitted,     \* projects made by a request after the tombstone
  failures

accountVars == <<user, identity, project, files, events, deletion, writer, admitted, failures>>

NotSent == [phase |-> "idle", projects |-> {}, keys |-> {}, outbox |-> {}, attempt |-> 1]

Own == {p \in Projects : project[p] # "none"}

Init ==
  /\ user = "live" /\ identity = "live"
  /\ project \in [Projects -> {"none", "held"}]
  /\ files = Own /\ events = Own
  /\ deletion = [d \in Deletions |-> NotSent]
  /\ writer = [w \in Writers |-> "idle"]
  /\ admitted = {}
  /\ failures = 0

Goes(d, phase) == deletion' = [deletion EXCEPT ![d].phase = phase]

\* One more attempt, or the error of the last one.
Again(d, error) ==
  deletion' = IF deletion[d].attempt = Attempts THEN [deletion EXCEPT ![d].phase = error]
              ELSE [deletion EXCEPT ![d].attempt = @ + 1]

Failure == failures < MaxFailures /\ failures' = failures + 1
-----------------------------------------------------------------------------
(* Other requests *)

\* FirebaseAuthGuard: a tombstone lets nobody in.
Admit(w) ==
  /\ writer[w] = "idle" /\ user = "live" /\ identity = "live"
  /\ writer' = [writer EXCEPT ![w] = "admitted"]
  /\ UNCHANGED <<user, identity, project, files, events, deletion, admitted, failures>>

CreateProject(w, p) ==
  /\ writer[w] = "admitted" /\ project[p] = "none"
  /\ writer' = [writer EXCEPT ![w] = "done"]
  /\ project' = [project EXCEPT ![p] = "plain"]
  /\ admitted' = IF user = "tombstone" THEN admitted \cup {p} ELSE admitted
  /\ UNCHANGED <<user, identity, files, events, deletion, failures>>

\* A scene that is saved, a picture that is uploaded, and perhaps a row that holds.
FillProject(w, p, state) ==
  /\ writer[w] = "admitted" /\ project[p] # "none"
  /\ writer' = [writer EXCEPT ![w] = "done"]
  /\ project' = [project EXCEPT ![p] = state]
  /\ files' = files \cup {p} /\ events' = events \cup {p}
  /\ UNCHANGED <<user, identity, deletion, admitted, failures>>
-----------------------------------------------------------------------------
(* deleteAccount *)

\* Refused by the guard.
Refuse(d) ==
  /\ deletion[d].phase = "idle" /\ user = "tombstone"
  /\ Goes(d, "refused")
  /\ UNCHANGED <<user, identity, project, files, events, writer, admitted, failures>>

AdmitDeletion(d) ==
  /\ deletion[d].phase = "idle" /\ user = "live" /\ identity = "live"
  /\ Goes(d, "find")
  /\ UNCHANGED <<user, identity, project, files, events, writer, admitted, failures>>

FindUser(d) ==
  /\ deletion[d].phase = "find"
  /\ Goes(d, IF user = "tombstone" THEN "refused" ELSE "list")
  /\ UNCHANGED <<user, identity, project, files, events, writer, admitted, failures>>

ListProjects(d) ==
  /\ deletion[d].phase = "list"
  /\ deletion' = [deletion EXCEPT ![d].phase = "collect", ![d].projects = Own]
  /\ UNCHANGED <<user, identity, project, files, events, writer, admitted, failures>>

\* collectStorageKeys and collectOutboxAggregateIds, for the projects of the list.
Collect(d) ==
  /\ deletion[d].phase = "collect"
  /\ deletion' = [deletion EXCEPT ![d].phase = "rows",
                    ![d].keys = files \cap deletion[d].projects,
                    ![d].outbox = events \cap deletion[d].projects]
  /\ UNCHANGED <<user, identity, project, files, events, writer, admitted, failures>>

\* Mutant of Deleted: the projects that were listed.
DeletedListed(d) == deletion[d].projects

\* project.deleteMany names the user, not the list.
Deleted(d) == Own

\* The contents of the listed projects go, then every project of the user: one that is
\* not on the list and is held by a row undoes everything.
DeleteRows(d) ==
  /\ deletion[d].phase = "rows"
  /\ IF \E p \in Deleted(d) \ deletion[d].projects : project[p] = "held"
     THEN /\ Again(d, "error500")
          /\ UNCHANGED <<user, project, events, admitted>>
     ELSE /\ project' = [p \in Projects |-> IF p \in Deleted(d) THEN "none" ELSE project[p]]
          /\ events' = events \ deletion[d].outbox
          /\ user' = "tombstone"
          /\ admitted' = {}
          /\ deletion' = [deletion EXCEPT ![d].phase = "purge", ![d].attempt = 1]
  /\ UNCHANGED <<identity, files, writer, failures>>

RowsFail(d) ==
  /\ deletion[d].phase = "rows" /\ Failure
  /\ Again(d, "error500")
  /\ UNCHANGED <<user, identity, project, files, events, writer, admitted>>

\* allSettled: what cannot be deleted is left.
PurgeStorage(d, left) ==
  /\ deletion[d].phase = "purge"
  /\ left \subseteq deletion[d].keys
  /\ IF left = {} THEN UNCHANGED failures ELSE Failure
  /\ files' = files \ (deletion[d].keys \ left)
  /\ Goes(d, "identity")
  /\ UNCHANGED <<user, identity, project, events, writer, admitted>>

\* An identity that is gone already counts as destroyed.
DeleteFirebaseUser(d) ==
  /\ deletion[d].phase = "identity"
  /\ identity' = "gone"
  /\ Goes(d, "done")
  /\ UNCHANGED <<user, project, files, events, writer, admitted, failures>>

FirebaseFails(d) ==
  /\ deletion[d].phase = "identity" /\ identity = "live" /\ Failure
  /\ Again(d, "error502")
  /\ UNCHANGED <<user, identity, project, files, events, writer, admitted>>

Crash(d) ==
  /\ deletion[d].phase \in {"list", "collect", "rows", "purge", "identity"} /\ Failure
  /\ Goes(d, "crashed")
  /\ UNCHANGED <<user, identity, project, files, events, writer, admitted>>

Next ==
  \/ \E w \in Writers :
       \/ Admit(w)
       \/ \E p \in Projects : \/ CreateProject(w, p)
                            \/ \E state \in {project[p], "held"} : FillProject(w, p, state)
  \/ \E d \in Deletions :
       \/ Refuse(d) \/ AdmitDeletion(d) \/ FindUser(d) \/ ListProjects(d) \/ Collect(d)
       \/ DeleteRows(d) \/ RowsFail(d)
       \/ \E left \in SUBSET Projects : PurgeStorage(d, left)
       \/ DeleteFirebaseUser(d) \/ FirebaseFails(d) \/ Crash(d)

Spec == Init /\ [][Next]_accountVars
-----------------------------------------------------------------------------
(* Properties *)

\* "jamás exista el estado Firebase ya no encuentra al usuario pero nuestros datos
\* siguen ahí": once the account is a tombstone, and so whenever its identity is gone,
\* the only projects it has were made by a request that was let in before and wrote
\* after; whatever was made while the deletion was collecting is deleted or stops it.
DataGoneBeforeIdentity ==
  /\ identity = "gone" => user = "tombstone"
  /\ user = "tombstone" => Own \subseteq admitted
=============================================================================
