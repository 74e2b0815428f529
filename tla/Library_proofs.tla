---------------------------- MODULE Library_proofs ----------------------------
(***************************************************************************)
(* Theorems about the components of MCLibrary, for any number of callers,  *)
(* files, projects, images, chunks, candidates, events, help texts,        *)
(* attempts and failures.  Those of the audit are about MCAudits           *)
(* (AuditsAreParts), in AnalysisDispatch_proofs; those of the answers are  *)
(* about MCAnswers (AnswersAreParts), those of the chunking and of the text *)
(* of imported books about MCManuscript (ChunksAreParts, BooksAreParts), in *)
(* RenderJobs_proofs; that of the counts is about MCCounts (CountsAreParts), *)
(* in SummaryJobs_proofs.                                                  *)
(*                                                                         *)
(* A behaviour is a behaviour of the one component called part (PartInit,  *)
(* PartNext), so each theorem has an invariant over the variables of its   *)
(* component.  They are stated with the names v1, v2, ... the composition  *)
(* gives those variables; each section says which is which.                *)
(***************************************************************************)
EXTENDS MCLibrary, FiniteSetTheorems, TLAPS

LEMMA PartInit ==
  ASSUME Init
  PROVE  /\ part = "sharing" => Share!Init
         /\ part = "files" => Stored!Init
         /\ part = "gallery" => Gallery!Init
         /\ part = "account" => Account!Init
         /\ part = "import" => Import!Init
         /\ part = "settings" => Settings!Init
         /\ part = "knowledge" => Merge!Init
         /\ part = "timeline" => Line!Init
         /\ part = "help" => Help!Init
         /\ part = "index" => Index!Init
BY DEF Init, CountsInit, MergeInit, LineInit, AuditsInit, AnswersInit, ChunksInit, BookInit

LEMMA PartNext ==
  ASSUME [Next]_vars
  PROVE  /\ part' = part
         /\ part = "sharing" => (Share!Next \/ UNCHANGED <<v1, v2, v3, v4>>)
         /\ part = "files" => (Stored!Next \/ UNCHANGED <<v1, v2, v3, v4, v5, v6, v7, v8, v9>>)
         /\ part = "gallery" => (Gallery!Next \/ UNCHANGED <<v1, v2, v3, v4, v5, v6, v7>>)
         /\ part = "account" => (Account!Next \/ UNCHANGED <<v1, v2, v3, v4, v5, v6, v7, v8, v9>>)
         /\ part = "import" =>
              (Import!Next \/ UNCHANGED <<v1, v2, v3, v4, v5, v6, v7, v8, v9, v10, v11>>)
         /\ part = "settings" => (Settings!Next \/ UNCHANGED <<v1, v2, v3, v4, v5>>)
         /\ part = "knowledge" => (Merge!Next \/ UNCHANGED <<v1, v2, v3, v4, v5, v6>>)
         /\ part = "timeline" => (Line!Next \/ UNCHANGED <<v1, v2, v3, v4, v5>>)
         /\ part = "help" => (Help!Next \/ UNCHANGED <<v1, v2, v3, v4>>)
         /\ part = "index" => (Index!Next \/ UNCHANGED <<v1, v2, v3, v4, v5, v6, v7>>)
BY DEF Next, CountsNext, Same, vars, LineNext, AuditsNext, AnswersNext, ChunksNext, BookNext

\* The behaviours of the audit's components are those MCAudits composes, about which its
\* own theorems are.
THEOREM AuditsAreParts == Spec /\ part \in {"audit", "alerts"} => AuditsSpec
<1> DEFINE Audited == part \in {"audit", "alerts"}
<1>1. Init /\ Audited => AuditsInit
  BY DEF Init, CountsInit, AnswersInit, ChunksInit, BookInit
<1>2. Audited /\ [Next]_vars => Audited' /\ [AuditsNext]_auditVars
  BY DEF Next, CountsNext, Same, vars, auditVars, AnswersNext, ChunksNext, BookNext
<1> QED
  BY <1>1, <1>2, PTL DEF Spec, AuditsSpec

\* The same for the answers and MCAnswers: what it proves of all behaviours holds of those
\* that start with few wiki pages and retrieve for one message.
THEOREM AnswersAreParts == Spec /\ part \in {"exchange", "sources"} => AnswersSpec
<1> DEFINE Answered == part \in {"exchange", "sources"}
<1>1. Init /\ Answered => AnswersInit
  BY DEF Init, CountsInit, AuditsInit, ChunksInit, BookInit
<1>2. Answered /\ [Next]_vars => Answered' /\ [AnswersNext]_answersVars
  BY DEF Next, CountsNext, Same, vars, answersVars, AuditsNext, ChunksNext, BookNext
<1> QED
  BY <1>1, <1>2, PTL DEF Spec, AnswersSpec

\* And for the chunking and MCManuscript.
THEOREM ChunksAreParts == Spec /\ part = "chunking" => ChunksSpec
<1> DEFINE Chunked == part = "chunking"
<1>1. Init /\ Chunked => ChunksInit
  BY DEF Init, CountsInit, AuditsInit, AnswersInit, BookInit
<1>2. Chunked /\ [Next]_vars => Chunked' /\ [ChunksNext]_chunksVars
  BY DEF Next, CountsNext, Same, vars, chunksVars, AuditsNext, AnswersNext, ChunksNext, BookNext
<1> QED
  BY <1>1, <1>2, PTL DEF Spec, ChunksSpec

\* And for the counts and first mentions and MCCounts.
THEOREM CountsAreParts == Spec /\ part = "retrieval" => CountsSpec
<1> DEFINE Counted == part = "retrieval"
<1>1. Init /\ Counted => CountsInit
  BY DEF Init, AuditsInit, AnswersInit, ChunksInit, BookInit
<1>2. Counted /\ [Next]_vars => Counted' /\ [CountsNext]_countsVars
  BY DEF Next, Same, vars, countsVars, AuditsNext, AnswersNext, ChunksNext, BookNext
<1> QED
  BY <1>1, <1>2, PTL DEF Spec, CountsSpec

\* And for the import of books and MCManuscript.
THEOREM BooksAreParts == Spec /\ part = "import" => BookSpec
<1> DEFINE Imported == part = "import"
<1>1. Init /\ Imported => BookInit
  BY DEF Init, CountsInit, AuditsInit, AnswersInit, ChunksInit
<1>2. Imported /\ [Next]_vars => Imported' /\ [BookNext]_bookVars
  BY DEF Next, BookNext, CountsNext, Same, vars, bookVars, AuditsNext, AnswersNext, ChunksNext
<1> QED
  BY <1>1, <1>2, PTL DEF Spec, BookSpec
-----------------------------------------------------------------------------
(* Sharing: v1 is the share, v2 the requests of readers, v3 the comments,  *)
(* v4 the changes of the owner.                                            *)
(*                                                                         *)
(* The status of the row does not tell: an acceptance that read the row    *)
(* before sets it back to ACCEPTED.  What tells is isActive, which only    *)
(* revokeShare writes, and every decision looks at it (RevokedInv).        *)

ShareRows == [status : {"PENDING", "ACCEPTED", "REVOKED"}, isActive : BOOLEAN,
         revokedAt : BOOLEAN, expired : BOOLEAN, deleted : BOOLEAN, comment : BOOLEAN,
         readerCount : Nat]

ReadingPhases == {"idle", "accepting", "accepted", "storing", "served", "refused"}

ShareTypes ==
  /\ v1 \in ShareRows
  /\ v2 \in [Actors -> [phase : ReadingPhases, kind : Share!Kinds, by : Share!Readers, row : ShareRows]]

\* A revoked row is not active, whatever its status says.
Consistent(row) == row.revokedAt => ~row.isActive

RevokedInv ==
  /\ Consistent(v1)
  /\ \A r \in Actors : Consistent(v2[r].row)

ShareInv == ShareTypes /\ RevokedInv /\ Share!RevokedAdmitsNobody
-----------------------------------------------------------------------------
\* Whoever decides on a revoked row refuses.
LEMMA RevokedIsRefused ==
  ASSUME NEW row \in ShareRows, row.revokedAt, Consistent(row), NEW by \in Share!Readers, NEW kind \in Share!Kinds
  PROVE  ~Share!MayView(row, by) /\ Share!Decided(kind, by, row) = "refused"
BY DEF Consistent, Share!MayView, Share!Active, Share!Decided, Share!Kinds

LEMMA DecisionType ==
  ASSUME NEW row \in ShareRows, NEW by \in Share!Readers, NEW kind \in Share!Kinds
  PROVE  Share!Decided(kind, by, row) \in ReadingPhases
BY DEF Share!Decided, Share!Kinds, ReadingPhases

LEMMA ShareInit == Share!Init => ShareInv
<1> SUFFICES ASSUME Share!Init PROVE ShareInv
  OBVIOUS
<1>1. Share!NewShare \in ShareRows /\ ~Share!NewShare.revokedAt
  BY DEF Share!NewShare, ShareRows
<1>2. v1 \in ShareRows /\ ~v1.revokedAt
  BY <1>1 DEF Share!Init, Share!NewShare, ShareRows
<1>3. Share!NotSent \in [phase : ReadingPhases, kind : Share!Kinds, by : Share!Readers, row : ShareRows]
      /\ Share!NotSent.row = Share!NewShare
  BY <1>1 DEF Share!NotSent, ReadingPhases, Share!Kinds, Share!Readers
<1> QED
  BY <1>1, <1>2, <1>3 DEF Share!Init, ShareInv, ShareTypes, RevokedInv, Share!RevokedAdmitsNobody, Consistent

\* The owner writes the row and touches no request; only revokeShare sets revokedAt, and
\* it takes isActive with it.
LEMMA OwnerKeeps ==
  ASSUME ShareInv, Share!UpdateShare \/ Share!RevokeShare \/ Share!DeleteProject \/ Share!Expire
  PROVE  ShareInv'
<1>1. v1' \in ShareRows /\ Consistent(v1')
  <2>1. CASE Share!UpdateShare
    BY <2>1 DEF Share!UpdateShare, ShareInv, ShareTypes, RevokedInv, ShareRows, Consistent
  <2>2. CASE Share!RevokeShare
    BY <2>2 DEF Share!RevokeShare, ShareInv, ShareTypes, RevokedInv, ShareRows, Consistent
  <2>3. CASE Share!DeleteProject
    BY <2>3 DEF Share!DeleteProject, ShareInv, ShareTypes, RevokedInv, ShareRows, Consistent
  <2>4. CASE Share!Expire
    BY <2>4 DEF Share!Expire, ShareInv, ShareTypes, RevokedInv, ShareRows, Consistent
  <2> QED
    BY <2>1, <2>2, <2>3, <2>4
<1>2. v2' = v2
  BY DEF Share!UpdateShare, Share!RevokeShare, Share!DeleteProject, Share!Expire
<1> QED
  BY <1>1, <1>2 DEF ShareInv, ShareTypes, RevokedInv, Share!RevokedAdmitsNobody

\* A step of one request: what it holds has the types, and if its row is a revoked one,
\* it is refused.
LEMMA ReaderKeeps ==
  ASSUME ShareInv, NEW r \in Actors,
         NEW held \in [phase : ReadingPhases, kind : Share!Kinds, by : Share!Readers, row : ShareRows],
         v2' = [v2 EXCEPT ![r] = held],
         Consistent(held.row), held.row.revokedAt => held.phase = "refused",
         v1' \in ShareRows, Consistent(v1')
  PROVE  ShareInv'
<1>1. v2'[r] = held /\ \A q \in Actors \ {r} : v2'[q] = v2[q]
  BY DEF ShareInv, ShareTypes
<1> QED
  BY <1>1 DEF ShareInv, ShareTypes, RevokedInv, Share!RevokedAdmitsNobody

LEMMA ShareStep ==
  ASSUME ShareInv, Share!Next \/ UNCHANGED <<v1, v2, v3, v4>>
  PROVE  ShareInv'
<1>1. CASE Share!UpdateShare \/ Share!RevokeShare \/ Share!DeleteProject \/ Share!Expire
  BY <1>1, OwnerKeeps
<1>2. CASE \E i \in DOMAIN v3, status \in {"OPEN", "RESOLVED"} : Share!UpdateComment(i, status)
  BY <1>2 DEF Share!UpdateComment, ShareInv, ShareTypes, RevokedInv, Share!RevokedAdmitsNobody
<1>3. ASSUME NEW r \in Actors, NEW kind \in Share!Kinds, NEW by \in Share!Readers,
             Share!FindShareAccess(r, kind, by)
      PROVE  ShareInv'
  <2> DEFINE held == [phase |-> Share!Decided(kind, by, v1), kind |-> kind, by |-> by, row |-> v1]
  <2>1. v1 \in ShareRows /\ Consistent(v1) /\ v1' = v1
    BY <1>3 DEF Share!FindShareAccess, ShareInv, ShareTypes, RevokedInv
  <2>2. held \in [phase : ReadingPhases, kind : Share!Kinds, by : Share!Readers, row : ShareRows]
    BY <2>1, DecisionType
  <2>3. v1.revokedAt => held.phase = "refused"
    BY <2>1, RevokedIsRefused
  <2>4. v2' = [v2 EXCEPT ![r] = held]
    BY <1>3 DEF Share!FindShareAccess
  <2> QED
    BY <2>1, <2>2, <2>3, <2>4, ReaderKeeps
<1>4. ASSUME NEW r \in Actors, Share!AcceptInvitation(r) PROVE ShareInv'
  \* The row is written by its id, but its isActive is left alone.
  <2> DEFINE held == [v2[r] EXCEPT !.phase = "accepted"]
  <2>1. v1' \in ShareRows /\ Consistent(v1')
    <3>1. v1 \in ShareRows /\ Consistent(v1)
      BY DEF ShareInv, ShareTypes, RevokedInv
    <3>2. v1' = [v1 EXCEPT !.status = "ACCEPTED", !.readerCount = v1.readerCount + 1]
      BY <1>4 DEF Share!AcceptInvitation
    <3>3. v1.readerCount + 1 \in Nat
      BY <3>1 DEF ShareRows
    <3> QED
      BY <3>1, <3>2, <3>3 DEF ShareRows, Consistent
  <2>2. held \in [phase : ReadingPhases, kind : Share!Kinds, by : Share!Readers, row : ShareRows]
        /\ held.row = v2[r].row
    BY DEF ShareInv, ShareTypes, ReadingPhases
  <2>3. Consistent(held.row) /\ ~held.row.revokedAt
    BY <1>4, <2>2 DEF Share!AcceptInvitation, ShareInv, RevokedInv, Share!RevokedAdmitsNobody
  <2>4. v2' = [v2 EXCEPT ![r] = held]
    BY <1>4 DEF Share!AcceptInvitation
  <2> QED
    BY <2>1, <2>2, <2>3, <2>4, ReaderKeeps
<1>5. ASSUME NEW r \in Actors, Share!OpenAccepted(r) PROVE ShareInv'
  <2> DEFINE held == [v2[r] EXCEPT !.row = v1,
                        !.phase = IF Share!MayView(v1, v2[r].by) THEN "served" ELSE "refused"]
  <2>1. v1 \in ShareRows /\ Consistent(v1) /\ v1' = v1 /\ v2[r].by \in Share!Readers
    BY <1>5 DEF Share!OpenAccepted, ShareInv, ShareTypes, RevokedInv
  <2>2. held \in [phase : ReadingPhases, kind : Share!Kinds, by : Share!Readers, row : ShareRows] /\ held.row = v1
    BY <2>1 DEF ShareInv, ShareTypes, ReadingPhases
  <2>3. v1.revokedAt => held.phase = "refused"
    BY <2>1, RevokedIsRefused DEF ShareInv, ShareTypes, Share!Kinds
  <2>4. v2' = [v2 EXCEPT ![r] = held]
    BY <1>5 DEF Share!OpenAccepted
  <2> QED
    BY <2>1, <2>2, <2>3, <2>4, ReaderKeeps
<1>6. ASSUME NEW r \in Actors, Share!StoreComment(r) PROVE ShareInv'
  <2> DEFINE held == [v2[r] EXCEPT !.phase = "served"]
  <2>1. v1 \in ShareRows /\ Consistent(v1) /\ v1' = v1
    BY <1>6 DEF Share!StoreComment, ShareInv, ShareTypes, RevokedInv
  <2>2. held \in [phase : ReadingPhases, kind : Share!Kinds, by : Share!Readers, row : ShareRows]
        /\ held.row = v2[r].row
    BY DEF ShareInv, ShareTypes, ReadingPhases
  <2>3. Consistent(held.row) /\ ~held.row.revokedAt
    BY <1>6, <2>2 DEF Share!StoreComment, ShareInv, RevokedInv, Share!RevokedAdmitsNobody
  <2>4. v2' = [v2 EXCEPT ![r] = held]
    BY <1>6 DEF Share!StoreComment
  <2> QED
    BY <2>1, <2>2, <2>3, <2>4, ReaderKeeps
<1>7. CASE UNCHANGED <<v1, v2, v3, v4>>
  BY <1>7 DEF ShareInv, ShareTypes, RevokedInv, Share!RevokedAdmitsNobody
<1> QED
  BY <1>1, <1>2, <1>3, <1>4, <1>5, <1>6, <1>7 DEF Share!Next

\* A request that reads the row after revokeShare (reading.service.ts) is shown nothing
\* and stores nothing, whatever acceptances are on their way.
THEOREM RevokedIsFinal == Spec => []RevokedAdmitsNobody
<1> DEFINE Inv == part = "sharing" => ShareInv
<1>1. Init => Inv
  BY PartInit, ShareInit
<1>2. Inv /\ [Next]_vars => Inv'
  BY PartNext, ShareStep
<1>3. Inv => RevokedAdmitsNobody
  BY DEF ShareInv, RevokedAdmitsNobody
<1> QED
  BY <1>1, <1>2, <1>3, PTL DEF Spec
-----------------------------------------------------------------------------
(* AccountDeletion: v1 is the user, v2 the identity at Firebase, v3 the    *)
(* projects, v4 their files, v5 their events, v6 the deletions, v7 other   *)
(* requests, v8 the projects those made after the tombstone, v9 failures.  *)
(*                                                                         *)
(* A deletion that is past its transaction has left a tombstone            *)
(* (PassedInv), nobody takes a tombstone back, and the transaction deletes *)
(* every project there is, listed or not, or nothing.                      *)

DeletionPhases == {"idle", "refused", "find", "list", "collect", "rows", "purge", "identity", "done",
                   "error500", "error502", "crashed"}

AccountTypes ==
  /\ v1 \in {"live", "tombstone"}
  /\ v2 \in {"live", "gone"}
  /\ v3 \in [Projects -> {"none", "plain", "held"}]
  /\ v6 \in [Actors -> [phase : DeletionPhases, projects : SUBSET Projects,
                          keys : SUBSET Projects, outbox : SUBSET Projects,
                          attempt : Nat]]
  /\ v4 \subseteq Projects /\ v5 \subseteq Projects

\* A deletion that has come to the files and to Firebase has left a tombstone.
PassedInv ==
  \A d \in Actors : v6[d].phase \in {"purge", "identity"} => v1 = "tombstone"

AccountInv == AccountTypes /\ PassedInv /\ Account!DataGoneBeforeIdentity
-----------------------------------------------------------------------------
LEMMA AccountInit == Account!Init => AccountInv
<1> SUFFICES ASSUME Account!Init PROVE AccountInv
  OBVIOUS
<1>1. Account!Own \subseteq Projects
  BY DEF Account!Own
<1>2. AccountTypes
  BY <1>1 DEF Account!Init, AccountTypes, DeletionPhases, Account!NotSent
<1>3. PassedInv
  BY DEF Account!Init, PassedInv, Account!NotSent
<1>4. Account!DataGoneBeforeIdentity
  BY DEF Account!Init, Account!DataGoneBeforeIdentity
<1> QED
  BY <1>2, <1>3, <1>4 DEF AccountInv

\* A step of one deletion that leaves the rows and the identity alone.
LEMMA PhaseKeeps ==
  ASSUME AccountInv, NEW d \in Actors,
         NEW held \in [phase : DeletionPhases, projects : SUBSET Projects, keys : SUBSET Projects,
                       outbox : SUBSET Projects, attempt : Nat],
         v6' = [v6 EXCEPT ![d] = held],
         held.phase \in {"purge", "identity"} => v1 = "tombstone",
         UNCHANGED <<v1, v2, v3, v5, v8>>, v4' \subseteq Projects
  PROVE  AccountInv'
<1>1. AccountTypes'
  BY DEF AccountInv, AccountTypes
<1>2. PassedInv'
  BY DEF AccountInv, AccountTypes, PassedInv
<1>3. Account!DataGoneBeforeIdentity'
  BY DEF AccountInv, Account!DataGoneBeforeIdentity, Account!Own
<1> QED
  BY <1>1, <1>2, <1>3 DEF AccountInv

\* Going to a phase and trying again.
LEMMA GoesTo ==
  ASSUME AccountInv, NEW d \in Actors, NEW phase \in DeletionPhases, Account!Goes(d, phase)
  PROVE  \E held \in [phase : DeletionPhases, projects : SUBSET Projects, keys : SUBSET Projects,
                      outbox : SUBSET Projects, attempt : Nat] :
           v6' = [v6 EXCEPT ![d] = held] /\ held.phase = phase
<1> DEFINE held == [v6[d] EXCEPT !.phase = phase]
<1>1. held \in [phase : DeletionPhases, projects : SUBSET Projects, keys : SUBSET Projects,
                outbox : SUBSET Projects, attempt : Nat] /\ held.phase = phase
  BY DEF AccountInv, AccountTypes
<1>2. v6' = [v6 EXCEPT ![d] = held]
  BY DEF Account!Goes
<1> QED
  BY <1>1, <1>2

LEMMA AgainTries ==
  ASSUME AccountInv, NEW d \in Actors, NEW error \in DeletionPhases, Account!Again(d, error)
  PROVE  \E held \in [phase : DeletionPhases, projects : SUBSET Projects, keys : SUBSET Projects,
                      outbox : SUBSET Projects, attempt : Nat] :
           /\ v6' = [v6 EXCEPT ![d] = held]
           /\ held.phase \in {error, v6[d].phase}
<1> DEFINE held == IF v6[d].attempt = Attempts THEN [v6[d] EXCEPT !.phase = error]
                   ELSE [v6[d] EXCEPT !.attempt = @ + 1]
<1>1. held \in [phase : DeletionPhases, projects : SUBSET Projects, keys : SUBSET Projects,
                outbox : SUBSET Projects, attempt : Nat]
      /\ held.phase \in {error, v6[d].phase}
  BY DEF AccountInv, AccountTypes
<1>2. v6' = [v6 EXCEPT ![d] = held]
  BY DEF Account!Again
<1> QED
  BY <1>1, <1>2

-----------------------------------------------------------------------------
(* Other requests *)

LEMMA WriterKeeps ==
  ASSUME AccountInv, NEW w \in Writers,
         \/ Account!Admit(w)
         \/ \E p \in Projects : \/ Account!CreateProject(w, p)
                                \/ \E state \in {v3[p], "held"} : Account!FillProject(w, p, state)
  PROVE  AccountInv'
<1>1. CASE Account!Admit(w)
  BY <1>1 DEF Account!Admit, AccountInv, AccountTypes, PassedInv, Account!DataGoneBeforeIdentity, Account!Own
<1>2. ASSUME NEW p \in Projects, Account!CreateProject(w, p) PROVE AccountInv'
  <2>1. Account!Own' = Account!Own \cup {p}
    BY <1>2 DEF Account!CreateProject, Account!Own, AccountInv, AccountTypes
  <2>2. AccountTypes' /\ PassedInv'
    BY <1>2 DEF Account!CreateProject, AccountInv, AccountTypes, PassedInv
  <2>3. Account!DataGoneBeforeIdentity'
    BY <1>2, <2>1 DEF Account!CreateProject, AccountInv, Account!DataGoneBeforeIdentity
  <2> QED
    BY <2>2, <2>3 DEF AccountInv
<1>3. ASSUME NEW p \in Projects, NEW state \in {v3[p], "held"}, Account!FillProject(w, p, state)
      PROVE  AccountInv'
  <2>1. Account!Own' = Account!Own
    BY <1>3 DEF Account!FillProject, Account!Own, AccountInv, AccountTypes
  <2>2. AccountTypes' /\ PassedInv'
    BY <1>3 DEF Account!FillProject, AccountInv, AccountTypes, PassedInv
  <2>3. Account!DataGoneBeforeIdentity'
    BY <1>3, <2>1 DEF Account!FillProject, AccountInv, Account!DataGoneBeforeIdentity
  <2> QED
    BY <2>2, <2>3 DEF AccountInv
<1> QED
  BY <1>1, <1>2, <1>3
-----------------------------------------------------------------------------
(* deleteAccount *)

\* The transaction: the projects that are not listed are in Own all the same.
LEMMA DeleteRowsKeeps ==
  ASSUME AccountInv, NEW d \in Actors, Account!DeleteRows(d)
  PROVE  AccountInv'
<1> DEFINE Held == [phase : DeletionPhases, projects : SUBSET Projects, keys : SUBSET Projects,
                    outbox : SUBSET Projects, attempt : Nat]
<1>1. CASE \E p \in Account!Deleted(d) \ v6[d].projects : v3[p] = "held"
  <2>1. Account!Again(d, "error500") /\ UNCHANGED <<v1, v2, v3, v4, v5, v8>>
    BY <1>1 DEF Account!DeleteRows
  <2>2. "error500" \in DeletionPhases /\ v6[d].phase = "rows"
    BY DEF DeletionPhases, Account!DeleteRows
  <2> QED
    BY <2>1, <2>2, AgainTries, PhaseKeeps DEF AccountInv, AccountTypes
<1>2. CASE ~(\E p \in Account!Deleted(d) \ v6[d].projects : v3[p] = "held")
  <2>1. /\ v3' = [p \in Projects |-> IF p \in Account!Own THEN "none" ELSE v3[p]]
        /\ v1' = "tombstone" /\ v5' \subseteq v5
        /\ v6' = [v6 EXCEPT ![d].phase = "purge", ![d].attempt = 1]
        /\ UNCHANGED <<v2, v4>>
    BY <1>2 DEF Account!DeleteRows, Account!Deleted
  <2>2. Account!Own' = {}
    BY <2>1 DEF Account!Own
  <2>3. v3' \in [Projects -> {"none", "plain", "held"}]
    BY <2>1 DEF AccountInv, AccountTypes
  <2>4. v6' \in [Actors -> Held]
    <3> DEFINE held == [v6[d] EXCEPT !.phase = "purge", !.attempt = 1]
    <3>1. held \in Held
      BY DEF AccountInv, AccountTypes, DeletionPhases
    <3>2. v6' = [v6 EXCEPT ![d] = held]
      BY <2>1
    <3> QED
      BY <3>1, <3>2 DEF AccountInv, AccountTypes
  <2>5. AccountTypes'
    BY <2>1, <2>3, <2>4 DEF AccountInv, AccountTypes
  <2> QED
    BY <2>1, <2>2, <2>5 DEF AccountInv, PassedInv, Account!DataGoneBeforeIdentity
<1> QED
  BY <1>1, <1>2

LEMMA DeletionKeeps ==
  ASSUME AccountInv, NEW d \in Actors,
         \/ Account!Refuse(d) \/ Account!AdmitDeletion(d) \/ Account!FindUser(d) \/ Account!ListProjects(d) \/ Account!Collect(d)
         \/ Account!DeleteRows(d) \/ Account!RowsFail(d)
         \/ \E left \in SUBSET Projects : Account!PurgeStorage(d, left)
         \/ Account!DeleteFirebaseUser(d) \/ Account!FirebaseFails(d) \/ Account!Crash(d)
  PROVE  AccountInv'
<1> USE DEF DeletionPhases
<1> DEFINE Held == [phase : DeletionPhases, projects : SUBSET Projects, keys : SUBSET Projects,
                    outbox : SUBSET Projects, attempt : Nat]
<1>0. v4 \subseteq Projects /\ v6[d] \in Held
  BY DEF AccountInv, AccountTypes
<1>1. CASE Account!Refuse(d)
  BY <1>0, <1>1, GoesTo, PhaseKeeps DEF Account!Refuse
<1>2. CASE Account!AdmitDeletion(d)
  BY <1>0, <1>2, GoesTo, PhaseKeeps DEF Account!AdmitDeletion
<1>3. CASE Account!FindUser(d)
  BY <1>0, <1>3, GoesTo, PhaseKeeps DEF Account!FindUser
<1>4. CASE Account!ListProjects(d)
  <2> DEFINE held == [v6[d] EXCEPT !.phase = "collect", !.projects = Account!Own]
  <2>1. held \in Held /\ held.phase = "collect"
    BY <1>0 DEF Account!Own
  <2>2. v6' = [v6 EXCEPT ![d] = held]
    BY <1>4 DEF Account!ListProjects
  <2>3. UNCHANGED <<v1, v2, v3, v5, v8, v4>>
    BY <1>4 DEF Account!ListProjects
  <2> QED
    BY <1>0, <2>1, <2>2, <2>3, PhaseKeeps
<1>5. CASE Account!Collect(d)
  <2> DEFINE held == [v6[d] EXCEPT !.phase = "rows",
                        !.keys = v4 \cap v6[d].projects,
                        !.outbox = v5 \cap v6[d].projects]
  <2>1. held \in Held /\ held.phase = "rows"
    BY <1>0
  <2>2. v6' = [v6 EXCEPT ![d] = held]
    BY <1>5 DEF Account!Collect
  <2>3. UNCHANGED <<v1, v2, v3, v5, v8, v4>>
    BY <1>5 DEF Account!Collect
  <2> QED
    BY <1>0, <2>1, <2>2, <2>3, PhaseKeeps
<1>6. CASE Account!DeleteRows(d)
  BY <1>6, DeleteRowsKeeps
<1>7. CASE Account!RowsFail(d)
  BY <1>0, <1>7, AgainTries, PhaseKeeps DEF Account!RowsFail
<1>8. ASSUME NEW left \in SUBSET Projects, Account!PurgeStorage(d, left) PROVE AccountInv'
  <2>1. v1 = "tombstone"
    BY <1>8 DEF Account!PurgeStorage, AccountInv, PassedInv
  <2> QED
    BY <1>0, <1>8, <2>1, GoesTo, PhaseKeeps DEF Account!PurgeStorage
<1>9. CASE Account!DeleteFirebaseUser(d)
  \* The only step that destroys the identity comes after the transaction.
  <2>1. v1 = "tombstone"
    BY <1>9 DEF Account!DeleteFirebaseUser, AccountInv, PassedInv
  <2> QED
    BY <1>9, <2>1 DEF Account!DeleteFirebaseUser, Account!Goes, AccountInv, AccountTypes, PassedInv, Account!DataGoneBeforeIdentity, Account!Own
<1>10. CASE Account!FirebaseFails(d)
  <2>1. v1 = "tombstone"
    BY <1>10 DEF Account!FirebaseFails, AccountInv, PassedInv
  <2> QED
    BY <1>0, <1>10, <2>1, AgainTries, PhaseKeeps DEF Account!FirebaseFails
<1>11. CASE Account!Crash(d)
  BY <1>0, <1>11, GoesTo, PhaseKeeps DEF Account!Crash
<1> QED
  BY <1>1, <1>2, <1>3, <1>4, <1>5, <1>6, <1>7, <1>8, <1>9, <1>10, <1>11

LEMMA AccountStep ==
  ASSUME AccountInv, Account!Next \/ UNCHANGED <<v1, v2, v3, v4, v5, v6, v7, v8, v9>>
  PROVE  AccountInv'
<1>1. CASE UNCHANGED <<v1, v2, v3, v4, v5, v6, v7, v8, v9>>
  BY <1>1 DEF AccountInv, AccountTypes, PassedInv, Account!DataGoneBeforeIdentity, Account!Own
<1> QED
  BY <1>1, WriterKeeps, DeletionKeeps DEF Account!Next

\* deleteAccount of user.service.ts: as long as a project of the account exists that was
\* not made by a request overtaken by the deletion, Firebase knows the account.
THEOREM IdentityGoesLast == Spec => []DataGoneBeforeIdentity
<1> DEFINE Inv == part = "account" => AccountInv
<1>1. Init => Inv
  BY PartInit, AccountInit
<1>2. Inv /\ [Next]_vars => Inv'
  BY PartNext, AccountStep
<1>3. Inv => DataGoneBeforeIdentity
  BY DEF AccountInv, DataGoneBeforeIdentity
<1> QED
  BY <1>1, <1>2, <1>3, PTL DEF Spec
-----------------------------------------------------------------------------
(* ChatIndex: v1 are the chunks, v2 is the model of the process, v3 the    *)
(* batch, v4 the writes on their way, v5 the questions.                    *)
(*                                                                         *)
(* A vector is of the text and the model its row claims for it, whatever   *)
(* the text of the row is by now (VectorInv); a search looks at the claim. *)

ChunkRows == [text : Texts \cup {None, Gone},
              vector : [text : Texts \cup {None, Gone}, model : Models \cup {None}],
              hash : Texts \cup {None, Gone}, model : Models \cup {None}]
Writes == [id : Files, text : Texts \cup {None, Gone}]

IndexTypes ==
  /\ v1 \in [Files -> ChunkRows]
  /\ v2 \in Models
  /\ v3 \in [phase : {"none", "find", "embed", "write"}, batch : SUBSET Writes]
  /\ v4 \subseteq Writes

VectorInv ==
  \A q \in Files :
    v1[q].vector # Index!NoVector => v1[q].vector = [text |-> v1[q].hash, model |-> v1[q].model]

IndexInv == IndexTypes /\ VectorInv

LEMMA IndexInit ==
  ASSUME Index!Init
  PROVE  IndexInv
<1>1. Index!NoRow \in ChunkRows /\ Index!NoRow.vector = Index!NoVector
  BY DEF ChunkRows, Index!NoRow, Index!NoVector
<1>2. \A t \in Texts : /\ [Index!NoRow EXCEPT !.text = t] \in ChunkRows
                       /\ [Index!NoRow EXCEPT !.text = t].vector = Index!NoVector
  BY DEF ChunkRows, Index!NoRow, Index!NoVector
<1>3. \A q \in Files : v1[q] \in ChunkRows /\ v1[q].vector = Index!NoVector
  <2> SUFFICES ASSUME NEW q \in Files PROVE v1[q] \in ChunkRows /\ v1[q].vector = Index!NoVector
    OBVIOUS
  <2>1. v1[q] = Index!NoRow \/ \E t \in Texts : v1[q] = [Index!NoRow EXCEPT !.text = t]
    BY Zenon DEF Index!Init
  <2> QED
    BY <1>1, <1>2, <2>1
<1>4. v1 \in [Files -> ChunkRows]
  BY <1>3 DEF Index!Init
<1> QED
  BY <1>3, <1>4 DEF Index!Init, IndexInv, IndexTypes, VectorInv, Index!NoIndexing

\* The rows stay as they are.
LEMMA BatchKeeps ==
  ASSUME IndexInv, v1' = v1, v2' \in Models, v4' \subseteq Writes,
         v3' \in [phase : {"none", "find", "embed", "write"}, batch : SUBSET Writes]
  PROVE  IndexInv'
BY DEF IndexInv, IndexTypes, VectorInv

LEMMA IndexStep ==
  ASSUME IndexInv, Index!Next \/ UNCHANGED <<v1, v2, v3, v4, v5, v6, v7>>
  PROVE  IndexInv'
<1> DEFINE Promises == [phase : {"none", "find", "embed", "write"}, batch : SUBSET Writes]
<1>0. v1 \in [Files -> ChunkRows] /\ v2 \in Models /\ v3 \in Promises /\ v4 \subseteq Writes
  BY DEF IndexInv, IndexTypes
<1>00. Index!NoIndexing \in Promises
  BY DEF Index!NoIndexing
<1> HIDE DEF Promises
<1>1. CASE Index!FindStaleChunks
  <2>1. UNCHANGED <<v1, v2, v4>>
    BY <1>1 DEF Index!FindStaleChunks
  <2>2. v3' \in Promises
    <3>1. CASE {q \in Files : Index!Stale(q)} = {}
      BY <1>00, <1>1, <3>1 DEF Index!FindStaleChunks, Index!Settle
    <3>2. CASE {q \in Files : Index!Stale(q)} # {}
      <4>1. PICK batch \in SUBSET {q \in Files : Index!Stale(q)} :
              v3' = [phase |-> "embed", batch |-> {[id |-> q, text |-> v1[q].text] : q \in batch}]
        BY <1>1, <3>2 DEF Index!FindStaleChunks
      <4>2. \A q \in batch : [id |-> q, text |-> v1[q].text] \in Writes
        BY <1>0 DEF ChunkRows, Writes
      <4> QED
        BY <4>1, <4>2 DEF Promises
    <3> QED
      BY <3>1, <3>2
  <2> QED
    BY <1>0, <2>1, <2>2, BatchKeeps DEF Promises
<1>2. CASE Index!EmbedDocuments
  <2>1. UNCHANGED <<v1, v2>> /\ v4' = v4 \cup v3.batch /\ v3' = [v3 EXCEPT !.phase = "write"]
    BY <1>2 DEF Index!EmbedDocuments
  <2>2. v4' \subseteq Writes /\ v3' \in Promises
    BY <1>0, <2>1 DEF Promises
  <2> QED
    BY <1>0, <2>1, <2>2, BatchKeeps DEF Promises
<1>3. CASE Index!FinishBatch \/ Index!BatchFails
  <2>1. UNCHANGED <<v1, v2, v4>> /\ v3' = Index!NoIndexing
    BY <1>3 DEF Index!FinishBatch, Index!BatchFails, Index!Settle
  <2> QED
    BY <1>0, <1>00, <2>1, BatchKeeps DEF Promises
<1>4. ASSUME NEW w \in v4, Index!UpdateChunkEmbedding(w) PROVE IndexInv'
  <2>1. UNCHANGED <<v2, v3>> /\ v4' \subseteq Writes /\ w \in Writes
    BY <1>0, <1>4 DEF Index!UpdateChunkEmbedding
  <2>2. CASE v1[w.id].text # w.text
    BY <1>0, <1>4, <2>1, <2>2, BatchKeeps DEF Index!UpdateChunkEmbedding, Promises
  <2>3. CASE v1[w.id].text = w.text
    <3>1. PICK id \in Files : id = w.id
      BY <2>1 DEF Writes
    <3>2. PICK row : row = [v1[id] EXCEPT !.vector = [text |-> w.text, model |-> v2],
                              !.hash = w.text, !.model = v2]
      OBVIOUS
    <3>3. v1' = [v1 EXCEPT ![id] = row]
      BY <1>4, <2>3, <3>1, <3>2 DEF Index!UpdateChunkEmbedding
    <3>4. row \in ChunkRows /\ row.vector = [text |-> row.hash, model |-> row.model]
      <4>1. v1[id] \in ChunkRows /\ w.text \in Texts \cup {None, Gone}
        BY <1>0, <2>1 DEF Writes
      <4> QED
        BY ONLY <4>1, <3>2, <1>0 DEF ChunkRows
    <3>5. v1' \in [Files -> ChunkRows]
      BY <1>0, <3>3, <3>4
    <3>6. \A q \in Files : v1'[q] = IF q = id THEN row ELSE v1[q]
      BY <1>0, <3>3
    <3> QED
      BY <1>0, <2>1, <3>4, <3>5, <3>6 DEF IndexInv, IndexTypes, VectorInv, Promises
  <2> QED
    BY <2>2, <2>3
<1>5. ASSUME NEW q \in Files, NEW t \in Texts \cup {Gone}, Index!SaveText(q, t)
      PROVE  IndexInv'
  \* The vector, and what the row claims for it, stay as they are.
  <2>1. UNCHANGED <<v2, v3, v4>> /\ v1' = [v1 EXCEPT ![q].text = t]
    BY <1>5 DEF Index!SaveText
  <2>2. v1' \in [Files -> ChunkRows]
    BY <1>0, <2>1 DEF ChunkRows
  <2>3. \A d \in Files : /\ v1'[d].vector = v1[d].vector /\ v1'[d].hash = v1[d].hash
                         /\ v1'[d].model = v1[d].model
    BY <1>0, <2>1 DEF ChunkRows
  <2> QED
    BY <1>0, <2>1, <2>2, <2>3 DEF IndexInv, IndexTypes, VectorInv, Promises
<1>6. ASSUME NEW m \in Models, Index!Restart(m) PROVE IndexInv'
  <2>1. v1' = v1 /\ v2' \in Models /\ v3' = Index!NoIndexing /\ v4' = {}
    BY <1>6 DEF Index!Restart
  <2> QED
    BY <1>00, <2>1, BatchKeeps DEF Promises
<1>7. ASSUME NEW q \in Actors,
             Index!Ask(q) \/ Index!Search(q) \/ Index!AbortQuestion(q)
      PROVE  IndexInv'
  <2>1. UNCHANGED <<v1, v2, v4>>
    BY <1>7 DEF Index!Ask, Index!Search, Index!AbortQuestion
  <2>2. v3' \in Promises
    BY <1>0, <1>7 DEF Index!Ask, Index!Search, Index!AbortQuestion, Promises
  <2> QED
    BY <1>0, <2>1, <2>2, BatchKeeps DEF Promises
<1>8. CASE UNCHANGED <<v1, v2, v3, v4, v5, v6, v7>>
  BY <1>0, <1>8, BatchKeeps DEF Promises
<1> QED
  BY <1>1, <1>2, <1>3, <1>4, <1>5, <1>6, <1>7, <1>8 DEF Index!Next, Index!IndexStep

\* The search of chat-embedding-index.service.ts compares a question with what the scenes
\* say now, whatever was saved while a batch was with the provider.
THEOREM SearchIsCurrent == Spec => []SearchSeesCurrentText
<1> DEFINE Inv == part = "index" => IndexInv
<1>1. Init => Inv
  BY PartInit, IndexInit
<1>2. Inv /\ [Next]_vars => Inv'
  BY PartNext, IndexStep
<1>3. Inv => SearchSeesCurrentText
  BY DEF IndexInv, VectorInv, SearchSeesCurrentText, Index!SearchSeesCurrentText,
         Index!Searchable
<1> QED
  BY <1>1, <1>2, <1>3, PTL DEF Spec
-----------------------------------------------------------------------------
(* AiSettings: v1 are the active keys, v2 is the selection, v3 the calls,  *)
(* v4 whether a selection and a removal overlapped, v5 the saved keys.     *)
(*                                                                         *)
(* Unless they overlapped, what is selected or about to be has its key,    *)
(* and what is about to be removed is not selected (SelectionInv).         *)

Reading == {"reading", "configured", "refused"}
SettingsCalls ==
  {Settings!Idle}
  \cup [step : {"selecting"}, choice : Settings!Choices]
  \cup [step : {"removing"}, provider : Providers]
  \cup [step : Reading, choice : Settings!Choices, began : Settings!Choices \cup {None}]

SettingsTypes ==
  /\ v1 \in [Providers -> Nat]
  /\ v2 \in Settings!Choices \cup {None}
  /\ v3 \in [Actors -> SettingsCalls]
  /\ v4 \in BOOLEAN

\* HasCredential, of given active keys.
HasKey(keys, s) == \/ s.source = "USER" /\ keys[s.provider] > 0
                   \/ s.source = "SERVER" /\ s.provider \in ServerKeys

LEMMA CredentialIsKey == \A s : Settings!HasCredential(s) <=> HasKey(v1, s)
BY DEF HasKey, Settings!HasCredential

SelectionInv ==
  ~v4 =>
    /\ v2 # None => HasKey(v1, v2)
    /\ \A q \in Actors :
         /\ v3[q].step = "selecting" => HasKey(v1, v3[q].choice)
         /\ v3[q].step = "removing" => v2 # [provider |-> v3[q].provider, source |-> "USER"]

\* An analysis wants the key of the selection it began with.
ReadingInv ==
  \A q \in Actors :
    v3[q].step = "reading" /\ v3[q].began # None => v3[q].choice = v3[q].began

SettingsInv == SettingsTypes /\ SelectionInv /\ ReadingInv

LEMMA SettingsInit ==
  ASSUME Settings!Init
  PROVE  SettingsInv
BY DEF Settings!Init, SettingsInv, SettingsTypes, SelectionInv, ReadingInv, SettingsCalls,
       Settings!Idle

\* What a call holds, and what it means.
LEMMA CallIs ==
  ASSUME NEW call \in SettingsCalls
  PROVE  /\ call.step = "selecting" => call.choice \in Settings!Choices
         /\ call.step = "removing" => call.provider \in Providers
         /\ call.step \in Reading =>
              call.choice \in Settings!Choices /\ call.began \in Settings!Choices \cup {None}
BY DEF SettingsCalls, Settings!Idle, Reading

\* A call goes on, and what it writes respects the others.
LEMMA CallKeeps ==
  ASSUME SettingsInv, NEW q \in Actors, NEW held \in SettingsCalls,
         v3' = [v3 EXCEPT ![q] = held],
         v1' \in [Providers -> Nat], v2' \in Settings!Choices \cup {None}, v4' \in BOOLEAN,
         v4 => v4',
         ~v4' => /\ v2' # None => HasKey(v1', v2')
                 /\ held.step = "selecting" => v1' = v1 /\ HasKey(v1, held.choice)
                 /\ held.step = "removing" => v2' # [provider |-> held.provider, source |-> "USER"]
                 /\ v1' = v1 \/ \A d \in Actors : v3[d].step # "selecting"
                 /\ v2' = v2 \/ \A d \in Actors : v3[d].step # "removing",
         held.step = "reading" /\ held.began # None => held.choice = held.began
  PROVE  SettingsInv'
<1>1. v3' \in [Actors -> SettingsCalls] /\ \A d \in Actors : v3'[d] = IF d = q THEN held ELSE v3[d]
  BY DEF SettingsInv, SettingsTypes
<1>2. SettingsTypes'
  BY <1>1 DEF SettingsTypes
<1>3. ReadingInv'
  BY <1>1 DEF SettingsInv, ReadingInv
<1>4. SelectionInv'
  <2>1. ASSUME ~v4', NEW d \in Actors, v3'[d].step = "selecting"
        PROVE  HasKey(v1', v3'[d].choice)
    BY <1>1, <2>1 DEF SettingsInv, SelectionInv
  <2>2. ASSUME ~v4', NEW d \in Actors, v3'[d].step = "removing"
        PROVE  v2' # [provider |-> v3'[d].provider, source |-> "USER"]
    BY <1>1, <2>2 DEF SettingsInv, SelectionInv
  <2> QED
    BY <2>1, <2>2 DEF SelectionInv
<1> QED
  BY <1>2, <1>3, <1>4 DEF SettingsInv

LEMMA SettingsStep ==
  ASSUME SettingsInv, Settings!Next \/ UNCHANGED <<v1, v2, v3, v4, v5>>
  PROVE  SettingsInv'
<1>0. v1 \in [Providers -> Nat] /\ v2 \in Settings!Choices \cup {None}
      /\ v3 \in [Actors -> SettingsCalls] /\ v4 \in BOOLEAN
  BY DEF SettingsInv, SettingsTypes
<1>00. ~v4 /\ v2 # None => HasKey(v1, v2)
  BY DEF SettingsInv, SelectionInv
<1>1. ASSUME NEW p \in Providers, NEW alone \in BOOLEAN, Settings!SaveKey(p, alone)
      PROVE  SettingsInv'
  \* A provider gets a key or keeps the ones it has.
  <2>1. UNCHANGED <<v2, v3, v4>> /\ v1' = [v1 EXCEPT ![p] = IF alone THEN 1 ELSE @ + 1]
    BY <1>1 DEF Settings!SaveKey
  <2>2. v1' \in [Providers -> Nat] /\ \A q \in Providers : v1[q] > 0 => v1'[q] > 0
    BY <1>0, <2>1
  <2>3. \A s \in Settings!Choices : HasKey(v1, s) => HasKey(v1', s)
    BY <2>2 DEF HasKey, Settings!Choices
  <2>4. SettingsTypes' /\ ReadingInv'
    BY <2>1, <2>2 DEF SettingsInv, SettingsTypes, ReadingInv
  <2>5. ASSUME ~v4 PROVE v2 # None => HasKey(v1', v2')
    BY <1>0, <1>00, <2>1, <2>3, <2>5
  <2>6. ASSUME NEW q \in Actors, ~v4, v3[q].step = "selecting"
        PROVE  HasKey(v1', v3[q].choice)
    BY <1>0, <2>3, <2>6, CallIs DEF SettingsInv, SelectionInv
  <2>7. SelectionInv'
    BY <2>1, <2>5, <2>6 DEF SettingsInv, SelectionInv, HasKey
  <2> QED
    BY <2>4, <2>7 DEF SettingsInv
<1>2. ASSUME NEW q \in Actors, NEW s \in Settings!Choices, Settings!CheckSelection(q, s)
      PROVE  SettingsInv'
  <2> DEFINE held == [step |-> "selecting", choice |-> s]
  <2>1. held \in SettingsCalls /\ held.step = "selecting" /\ held.choice = s
    BY DEF SettingsCalls
  <2>2. /\ v3' = [v3 EXCEPT ![q] = held] /\ UNCHANGED <<v1, v2, v4>>
        /\ HasKey(v1, s)
    BY <1>2, CredentialIsKey DEF Settings!CheckSelection, Settings!Goes
  <2> HIDE DEF held
  <2> QED
    BY <1>0, <1>00, <2>1, <2>2, CallKeeps
<1>3. ASSUME NEW q \in Actors, Settings!StoreSelection(q) PROVE SettingsInv'
  \* The key was there when the call looked, and unless a removal overlaps it still is.
  <2>1. /\ v3' = [v3 EXCEPT ![q] = Settings!Idle] /\ v1' = v1 /\ v2' = v3[q].choice
        /\ v4' = (v4 \/ \E d \in Actors : v3[d].step = "removing")
        /\ v3[q].step = "selecting"
    BY <1>3 DEF Settings!StoreSelection, Settings!Goes
  <2>2. Settings!Idle \in SettingsCalls /\ Settings!Idle.step = "idle"
    BY DEF SettingsCalls, Settings!Idle
  <2>3. v2' \in Settings!Choices
    BY <1>0, <2>1, CallIs
  <2>4. ~v4' => HasKey(v1', v2')
    BY <2>1 DEF SettingsInv, SelectionInv, HasKey
  <2> QED
    BY <1>0, <2>1, <2>2, <2>3, <2>4, CallKeeps
<1>4. ASSUME NEW q \in Actors, NEW p \in Providers, Settings!CheckRemoval(q, p)
      PROVE  SettingsInv'
  <2> DEFINE held == [step |-> "removing", provider |-> p]
  <2>1. held \in SettingsCalls /\ held.step = "removing" /\ held.provider = p
    BY DEF SettingsCalls
  <2>2. /\ v3' = [v3 EXCEPT ![q] = held] /\ UNCHANGED <<v1, v2, v4>>
        /\ v2 # [provider |-> p, source |-> "USER"]
    BY <1>4 DEF Settings!CheckRemoval, Settings!Goes
  <2> HIDE DEF held
  <2> QED
    BY <1>0, <1>00, <2>1, <2>2, CallKeeps
<1>5. ASSUME NEW q \in Actors, Settings!DeleteKeys(q) PROVE SettingsInv'
  \* The provider was not selected when the call looked, and unless a selection overlaps
  \* it still is not.
  <2>1. /\ v3' = [v3 EXCEPT ![q] = Settings!Idle] /\ v2' = v2
        /\ v1' = [v1 EXCEPT ![v3[q].provider] = 0]
        /\ v4' = (v4 \/ \E d \in Actors : v3[d].step = "selecting")
        /\ v3[q].step = "removing"
    BY <1>5 DEF Settings!DeleteKeys, Settings!Goes
  <2>2. Settings!Idle \in SettingsCalls /\ Settings!Idle.step = "idle"
    BY DEF SettingsCalls, Settings!Idle
  <2>3. v1' \in [Providers -> Nat]
    BY <1>0, <2>1
  <2>4. ASSUME ~v4', v2' # None PROVE HasKey(v1', v2')
    <3>1. v2 \in Settings!Choices /\ v2 # [provider |-> v3[q].provider, source |-> "USER"]
          /\ HasKey(v1, v2)
      BY <1>0, <1>00, <2>1, <2>4 DEF SettingsInv, SelectionInv
    <3>2. v2.source = "USER" => v2.provider # v3[q].provider
      BY <3>1 DEF Settings!Choices
    <3>3. v2.source = "USER" => v1'[v2.provider] = v1[v2.provider]
      BY <1>0, <2>1, <3>1, <3>2 DEF Settings!Choices
    <3> QED
      BY <2>1, <3>1, <3>3 DEF HasKey
  <2> QED
    BY <1>0, <2>1, <2>2, <2>3, <2>4, CallKeeps
<1>6. ASSUME NEW q \in Actors, Settings!ReadSettings(q) PROVE SettingsInv'
  <2> DEFINE held == [step |-> "reading", choice |-> Settings!Effective, began |-> v2]
  <2>1. Settings!Effective \in Settings!Choices
    BY <1>0, PartsAssumption DEF Settings!Effective, Settings!Choices, Settings!GeminiAssumption
  <2>2. /\ held \in SettingsCalls /\ held.step = "reading"
        /\ held.began # None => held.choice = held.began
    BY <1>0, <2>1 DEF SettingsCalls, Reading, Settings!Effective
  <2>3. v3' = [v3 EXCEPT ![q] = held] /\ UNCHANGED <<v1, v2, v4>>
    BY <1>6 DEF Settings!ReadSettings, Settings!Goes
  <2> HIDE DEF held
  <2> QED
    BY <1>0, <1>00, <2>2, <2>3, CallKeeps
<1>7. ASSUME NEW q \in Actors, Settings!ReadKey(q) \/ Settings!Answer(q) PROVE SettingsInv'
  <2>1. PICK held \in SettingsCalls :
          /\ v3' = [v3 EXCEPT ![q] = held] /\ UNCHANGED <<v1, v2, v4>>
          /\ held.step \in {"configured", "refused", "idle"}
    <3>1. CASE Settings!ReadKey(q)
      <4>1. PICK step \in {"configured", "refused"} :
              v3' = [v3 EXCEPT ![q] = [step |-> step, choice |-> v3[q].choice, began |-> v3[q].began]]
        BY <3>1 DEF Settings!ReadKey, Settings!Goes
      <4>2. v3[q].choice \in Settings!Choices /\ v3[q].began \in Settings!Choices \cup {None}
        BY <1>0, <3>1, CallIs DEF Settings!ReadKey, Reading
      <4>3. [step |-> step, choice |-> v3[q].choice, began |-> v3[q].began] \in SettingsCalls
        BY <4>1, <4>2 DEF SettingsCalls, Reading
      <4> QED
        BY <3>1, <4>1, <4>3 DEF Settings!ReadKey
    <3>2. CASE Settings!Answer(q)
      <4>1. Settings!Idle \in SettingsCalls /\ Settings!Idle.step = "idle"
        BY DEF SettingsCalls, Settings!Idle
      <4> QED
        BY <3>2, <4>1 DEF Settings!Answer, Settings!Goes
    <3> QED
      BY <1>7, <3>1, <3>2
  <2> QED
    BY <1>0, <1>00, <2>1, CallKeeps
<1>8. CASE UNCHANGED <<v1, v2, v3, v4, v5>>
  BY <1>8 DEF SettingsInv, SettingsTypes, SelectionInv, ReadingInv, HasKey
<1> QED
  BY <1>1, <1>2, <1>3, <1>4, <1>5, <1>6, <1>7, <1>8 DEF Settings!Next

\* A reading call that is refused wanted what is selected, which has its key.
LEMMA RefusedWithCause ==
  ASSUME SettingsInv, Settings!Next
  PROVE  Settings!RefusedForCause
<1> SUFFICES ASSUME NEW q \in Actors, v3[q].step = "reading", v3'[q].step = "refused",
                    v2 # None, v3[q].began = v2, ~v4
             PROVE  FALSE
  BY DEF Settings!RefusedForCause
<1>0. v3 \in [Actors -> SettingsCalls]
  BY DEF SettingsInv, SettingsTypes
<1>1. v3[q].choice = v2 /\ HasKey(v1, v2)
  BY DEF SettingsInv, ReadingInv, SelectionInv
<1>2. ASSUME NEW d \in Actors, NEW to, Settings!Goes(d, to), to.step # "refused" PROVE FALSE
  BY <1>0, <1>2 DEF Settings!Goes
<1>3. ASSUME NEW d \in Actors, Settings!ReadKey(d) PROVE FALSE
  BY <1>0, <1>1, <1>3, CredentialIsKey DEF Settings!ReadKey, Settings!Goes
<1>4. v3' # v3
  OBVIOUS
<1>5. ASSUME NEW d \in Actors, NEW s \in Settings!Choices, Settings!CheckSelection(d, s)
      PROVE  FALSE
  BY <1>2, <1>5 DEF Settings!CheckSelection
<1>6. ASSUME NEW d \in Actors, NEW p \in Providers, Settings!CheckRemoval(d, p) PROVE FALSE
  BY <1>2, <1>6 DEF Settings!CheckRemoval
<1>7. ASSUME NEW d \in Actors,
             \/ Settings!StoreSelection(d) \/ Settings!DeleteKeys(d)
             \/ Settings!ReadSettings(d) \/ Settings!Answer(d)
      PROVE  FALSE
  BY <1>2, <1>7 DEF Settings!StoreSelection, Settings!DeleteKeys, Settings!ReadSettings,
     Settings!Answer, Settings!Idle
<1> QED
  BY <1>3, <1>4, <1>5, <1>6, <1>7 DEF Settings!Next, Settings!SaveKey

\* updateAiProviderSettings and removeProviderKey: an analysis finds the key of the
\* selection it began with, unless that was changed or the two overlapped.
THEOREM SelectedKeyStays == Spec => SelectedKeyIsFound
<1> DEFINE Inv == part = "settings" => SettingsInv
<1>1. Init => Inv
  BY PartInit, SettingsInit
<1>2. Inv /\ [Next]_vars => Inv'
  BY PartNext, SettingsStep
<1>3. Inv /\ [Next]_vars => [part = "settings" => Settings!RefusedForCause]_vars
  <2> SUFFICES ASSUME part = "settings", Inv, Next PROVE Settings!RefusedForCause
    OBVIOUS
  <2>1. CASE Settings!Next
    BY <2>1, RefusedWithCause
  <2>2. CASE UNCHANGED <<v1, v2, v3, v4, v5>>
    BY <2>2 DEF Settings!RefusedForCause
  <2> QED
    BY <2>1, <2>2, PartNext
<1> QED
  BY <1>1, <1>2, <1>3, PTL DEF Spec, SelectedKeyIsFound
-----------------------------------------------------------------------------
(* StoredFiles: v1 is the kind of the row v2, v3 the bucket, v4 what was   *)
(* uploaded, v5 the calls, v6 the cleanup events, v7 the poller, v8 who    *)
(* holds something read before the last write of the row, v9 failures.     *)
(*                                                                         *)
(* Who is about to delete a file that the row names read an older row.     *)

Calls == Actors \cup {another}
CallPhases == {"idle", "head", "find", "write", "remove", "delete", "done"}
FileCall == [phase : CallPhases, key : Files \cup {None}, existing : Files \cup {None},
             delete : SUBSET Files]
FilePoller == [phase : {"rest", "mark", "delete"}, key : Files \cup {None}]

FileTypes ==
  /\ v2 \in [there : BOOLEAN, key : Files \cup {None}]
  /\ v5 \in [Calls -> FileCall]
  /\ v7 \in FilePoller

\* Of one call, and of the poller.
CallDecided(row, q, held, overtaken) ==
  held.phase = "delete" /\ row.there /\ row.key \in held.delete => q \in overtaken
PollerDecided(row, poller, overtaken) ==
  poller.phase = "delete" /\ row.there /\ row.key = poller.key => "poller" \in overtaken

DecidedInv ==
  /\ \A q \in Calls : CallDecided(v2, q, v5[q], v8)
  /\ PollerDecided(v2, v7, v8)

FileInv == FileTypes /\ DecidedInv

LEMMA PollerIsNoCall == "poller" \notin Calls
BY PartsAssumption DEF Stored!KeyAssumption, Calls

LEMMA FileInit ==
  ASSUME Stored!Init
  PROVE  FileInv
BY DEF Stored!Init, FileInv, FileTypes, DecidedInv, CallDecided, PollerDecided, FileCall,
       FilePoller, CallPhases, Calls, Stored!NotSent, Stored!Resting

\* A call goes on, and the row stays as it is: it must have decided on this row.
LEMMA GoesKeeps ==
  ASSUME FileInv, NEW q \in Calls, NEW held \in FileCall, Stored!Goes(q, held),
         CallDecided(v2, q, held, v8), v2' = v2, v7' = v7
  PROVE  FileInv'
<1>1. v5' = [v5 EXCEPT ![q] = held] /\ v8' = IF held.phase = "done" THEN v8 \ {q} ELSE v8
  BY DEF Stored!Goes
<1>2. v5' \in [Calls -> FileCall] /\ \A d \in Calls : v5'[d] = IF d = q THEN held ELSE v5[d]
  BY <1>1 DEF FileInv, FileTypes
<1>3. \A d \in Calls : CallDecided(v2, d, v5'[d], v8')
  BY <1>1, <1>2 DEF FileInv, DecidedInv, CallDecided
<1>4. PollerDecided(v2, v7, v8')
  BY <1>1, PollerIsNoCall DEF FileInv, DecidedInv, PollerDecided
<1> QED
  BY <1>2, <1>3, <1>4 DEF FileInv, FileTypes, DecidedInv

\* A call writes the row: whoever else is about to delete has been overtaken, and what it
\* deletes itself the row does not name.
LEMMA WriteKeeps ==
  ASSUME FileInv, NEW q \in Calls, NEW keys \in SUBSET (Files \cup {None}),
         NEW row \in [there : BOOLEAN, key : Files \cup {None}],
         Stored!Write(q, row), Stored!Deletes(q, keys), row.there => row.key \notin keys,
         v7' = v7
  PROVE  FileInv'
<1>1. v2' = row /\ v8' = v8 \cup (Stored!Busy \ {q})
  BY DEF Stored!Write
<1>2. PICK phase \in {"delete", "done"} :
        v5' = [v5 EXCEPT ![q].delete = keys \ {None}, ![q].phase = phase]
  BY DEF Stored!Deletes
<1>3. PICK held : held = [v5[q] EXCEPT !.delete = keys \ {None}, !.phase = phase]
  OBVIOUS
<1>4. held \in FileCall /\ held.delete = keys \ {None}
  <2>1. v5[q] \in FileCall
    BY DEF FileInv, FileTypes
  <2> QED
    BY ONLY <2>1, <1>2, <1>3 DEF FileCall, CallPhases
<1>5. v5' = [v5 EXCEPT ![q] = held]
  BY <1>2, <1>3 DEF FileInv, FileTypes
<1>6. v5' \in [Calls -> FileCall] /\ \A d \in Calls : v5'[d] = IF d = q THEN held ELSE v5[d]
  BY <1>4, <1>5 DEF FileInv, FileTypes
<1>7. \A d \in Calls : CallDecided(row, d, v5'[d], v8')
  <2> SUFFICES ASSUME NEW d \in Calls, d # q, v5[d].phase = "delete" PROVE d \in Stored!Busy
    BY <1>1, <1>4, <1>6 DEF CallDecided
  <2> QED
    BY DEF Stored!Busy, Stored!InFlight, Calls
<1>8. PollerDecided(row, v7, v8')
  <2> SUFFICES ASSUME v7.phase = "delete" PROVE "poller" \in Stored!Busy \ {q}
    BY <1>1 DEF PollerDecided
  <2> QED
    BY PollerIsNoCall DEF Stored!Busy
<1> QED
  BY <1>1, <1>6, <1>7, <1>8 DEF FileInv, FileTypes, DecidedInv

\* The poller goes on.
LEMMA PollerKeeps ==
  ASSUME FileInv, v7' \in FilePoller, PollerDecided(v2, v7', v8), v2' = v2, v5' = v5,
         v8' = v8 \/ (v8' = v8 \ {"poller"} /\ v7'.phase # "delete")
  PROVE  FileInv'
<1>1. \A q \in Calls : CallDecided(v2, q, v5[q], v8')
  BY PollerIsNoCall DEF FileInv, DecidedInv, CallDecided
<1>2. PollerDecided(v2, v7', v8')
  BY DEF PollerDecided
<1> QED
  BY <1>1, <1>2 DEF FileInv, FileTypes, DecidedInv

LEMMA FileStep ==
  ASSUME FileInv, Stored!Next \/ UNCHANGED <<v1, v2, v3, v4, v5, v6, v7, v8, v9>>
  PROVE  FileInv'
<1> USE DEF CallPhases
<1>0. v2 \in [there : BOOLEAN, key : Files \cup {None}] /\ v7 \in FilePoller
      /\ \A q \in Calls : v5[q] \in FileCall
  BY DEF FileInv, FileTypes
<1>1. ASSUME NEW k \in Files, Stored!Upload(k) PROVE FileInv'
  BY <1>1 DEF Stored!Upload, FileInv, FileTypes, DecidedInv
<1>2. ASSUME NEW q \in Calls, NEW held \in FileCall, held.phase # "delete", Stored!Goes(q, held),
             UNCHANGED <<v2, v7>>
      PROVE  FileInv'
  BY <1>2, GoesKeeps DEF CallDecided
\* Only its phase, and what it read, change.
<1>20. ASSUME NEW q \in Calls, NEW phase \in CallPhases \ {"delete"},
              Stored!Goes(q, [v5[q] EXCEPT !.phase = phase]), UNCHANGED <<v2, v7>>
       PROVE  FileInv'
  <2>1. PICK held : held = [v5[q] EXCEPT !.phase = phase]
    OBVIOUS
  <2>2. held \in FileCall /\ held.phase = phase
    <3>1. v5[q] \in FileCall
      BY <1>0
    <3> QED
      BY ONLY <2>1, <3>1 DEF FileCall
  <2>3. Stored!Goes(q, held)
    BY <1>20, <2>1
  <2> QED
    BY <1>2, <1>20, <2>2, <2>3
<1>21. ASSUME NEW q \in Calls, NEW phase \in CallPhases \ {"delete"},
              NEW from \in {v5[q], Stored!NotSent}, NEW key \in Files \cup {None},
              Stored!Goes(q, [from EXCEPT !.phase = phase, !.existing = key]), UNCHANGED <<v2, v7>>
       PROVE  FileInv'
  <2>1. PICK held : held = [from EXCEPT !.phase = phase, !.existing = key]
    OBVIOUS
  <2>2. held \in FileCall /\ held.phase = phase
    <3>1. from \in FileCall
      BY <1>0 DEF FileCall, Stored!NotSent
    <3> QED
      BY ONLY <2>1, <3>1 DEF FileCall
  <2>3. Stored!Goes(q, held)
    BY <1>21, <2>1
  <2> QED
    BY <1>2, <1>21, <2>2, <2>3
<1>3. ASSUME NEW q \in Calls, NEW k \in Files, Stored!Attach(q, k) PROVE FileInv'
  <2> DEFINE held == [Stored!NotSent EXCEPT !.phase = "head", !.key = k, !.existing = v2.key]
  <2>1. held \in FileCall /\ held.phase = "head"
    BY <1>0 DEF FileCall, Stored!NotSent
  <2>2. Stored!Goes(q, held) /\ UNCHANGED <<v2, v7>>
    BY <1>3 DEF Stored!Attach
  <2> HIDE DEF held
  <2> QED
    BY <1>2, <2>1, <2>2
<1>4. ASSUME NEW q \in Calls, Stored!HeadFile(q) PROVE FileInv'
  <2>1. PICK phase \in {"find", "done"} :
          Stored!Goes(q, [v5[q] EXCEPT !.phase = phase]) /\ UNCHANGED <<v2, v7>>
    BY <1>4 DEF Stored!HeadFile, Stored!Done
  <2> QED
    BY <1>20, <2>1
<1>5. ASSUME NEW q \in Calls, Stored!FindRow(q) PROVE FileInv'
  <2>1. UNCHANGED <<v2, v7>>
    BY <1>5 DEF Stored!FindRow
  <2>2. CASE v2.there
    <3>1. PICK key \in Files \cup {None} :
            Stored!Goes(q, [v5[q] EXCEPT !.phase = "write", !.existing = key])
      <4>1. v5[q].existing \in Files \cup {None} /\ v2.key \in Files \cup {None}
        BY <1>0 DEF FileCall
      <4>2. Stored!Goes(q, [v5[q] EXCEPT !.phase = "write",
                              !.existing = IF v1 = "cover" THEN v2.key ELSE v5[q].existing])
        BY <1>5, <2>2 DEF Stored!FindRow
      <4> QED
        BY <4>1, <4>2
    <3> QED
      BY <1>21, <2>1, <3>1
  <2>3. CASE ~v2.there
    <3>1. Stored!Goes(q, [v5[q] EXCEPT !.phase = "done"])
      BY <1>5, <2>3 DEF Stored!FindRow, Stored!Done
    <3> QED
      BY <1>20, <2>1, <3>1
  <2> QED
    BY <2>2, <2>3
<1>6. ASSUME NEW q \in Calls, Stored!WriteRow(q) PROVE FileInv'
  <2> DEFINE row == [v2 EXCEPT !.key = v5[q].key]
  <2> DEFINE keys == {v5[q].existing} \ {v5[q].key}
  <2>1. /\ row \in [there : BOOLEAN, key : Files \cup {None}] /\ row.key = v5[q].key
        /\ keys \in SUBSET (Files \cup {None}) /\ row.key \notin keys
    BY <1>0 DEF FileCall
  <2>2. Stored!Write(q, row) /\ Stored!Deletes(q, keys) /\ v7' = v7
    BY <1>6 DEF Stored!WriteRow, Stored!Replaced
  <2> HIDE DEF row, keys
  <2> QED
    BY <2>1, <2>2, WriteKeeps
<1>7. ASSUME NEW q \in Calls, Stored!RemoveCover(q) \/ Stored!RemoveCard(q) PROVE FileInv'
  <2>1. UNCHANGED <<v2, v7>>
    BY <1>7 DEF Stored!RemoveCover, Stored!RemoveCard
  <2>2. CASE Stored!RemoveCover(q)
    <3>1. PICK held : held = [Stored!NotSent EXCEPT !.phase = "find"]
      OBVIOUS
    <3>2. held \in FileCall /\ held.phase = "find"
      BY <3>1 DEF FileCall, Stored!NotSent
    <3>3. Stored!Goes(q, held)
      BY <2>2, <3>1 DEF Stored!RemoveCover
    <3> QED
      BY <1>2, <2>1, <3>2, <3>3
  <2>3. CASE Stored!RemoveCard(q)
    <3>1. Stored!Goes(q, [Stored!NotSent EXCEPT !.phase = "remove", !.existing = v2.key])
      BY <2>3 DEF Stored!RemoveCard
    <3> QED
      BY <1>0, <1>21, <2>1, <3>1
  <2> QED
    BY <1>7, <2>2, <2>3
<1>8. ASSUME NEW q \in Calls, Stored!SoftDelete(q) PROVE FileInv'
  <2>1. CASE v2.there
    <3> DEFINE row == [v2 EXCEPT !.there = FALSE]
    <3>1. /\ row \in [there : BOOLEAN, key : Files \cup {None}] /\ ~row.there
          /\ {v2.key, v5[q].existing} \in SUBSET (Files \cup {None})
      BY <1>0 DEF FileCall
    <3>2. Stored!Write(q, row) /\ Stored!Deletes(q, {v2.key, v5[q].existing}) /\ v7' = v7
      BY <1>8, <2>1 DEF Stored!SoftDelete
    <3> HIDE DEF row
    <3> QED
      BY <3>1, <3>2, WriteKeeps
  <2>2. CASE ~v2.there
    <3>1. Stored!Goes(q, [v5[q] EXCEPT !.phase = "done"]) /\ UNCHANGED <<v2, v7>>
      BY <1>8, <2>2 DEF Stored!SoftDelete, Stored!Done
    <3> QED
      BY <1>20, <3>1
  <2> QED
    BY <2>1, <2>2
\* What is left to delete is less than what the call decided on.
<1>9. ASSUME NEW q \in Calls, NEW k \in Files, v5[q].phase = "delete", Stored!Less(q, k),
             UNCHANGED <<v2, v7>>
      PROVE  FileInv'
  <2>1. PICK phase \in {"delete", "done"} :
          Stored!Goes(q, [v5[q] EXCEPT !.delete = v5[q].delete \ {k}, !.phase = phase])
    BY <1>9 DEF Stored!Less
  <2>2. PICK held : held = [v5[q] EXCEPT !.delete = v5[q].delete \ {k}, !.phase = phase]
    OBVIOUS
  <2>3. held \in FileCall /\ held.delete \subseteq v5[q].delete
    <3>1. v5[q] \in FileCall
      BY <1>0
    <3> QED
      BY ONLY <3>1, <2>1, <2>2 DEF FileCall, CallPhases
  <2>4. CallDecided(v2, q, held, v8)
    BY <1>9, <2>3 DEF FileInv, DecidedInv, CallDecided
  <2> QED
    BY <1>9, <2>1, <2>2, <2>3, <2>4, GoesKeeps
<1>10. ASSUME NEW q \in Calls, NEW k \in Files, NEW scheduled \in BOOLEAN,
              Stored!DeleteObject(q, k) \/ Stored!DeleteFails(q, k, scheduled)
       PROVE  FileInv'
  BY <1>9, <1>10 DEF Stored!DeleteObject, Stored!DeleteFails
<1>11. CASE Stored!Crash
  \* Nobody holds anything.
  <2>1. \A q \in Calls : v5'[q] \in FileCall /\ v5'[q].phase # "delete"
    BY <1>0, <1>11 DEF Stored!Crash, Stored!InFlight, Calls, FileCall
  <2>2. v5' \in [Calls -> FileCall]
    BY <1>11, <2>1 DEF Stored!Crash, Calls
  <2>3. v7' \in FilePoller /\ v7'.phase # "delete" /\ v2' = v2
    BY <1>11 DEF Stored!Crash, Stored!Resting, FilePoller
  <2> QED
    BY <1>0, <2>1, <2>2, <2>3 DEF FileInv, FileTypes, DecidedInv, CallDecided, PollerDecided
<1>12. ASSUME NEW k \in Files, Stored!TakeEvent(k) PROVE FileInv'
  <2>1. v7' \in FilePoller /\ PollerDecided(v2, v7', v8)
    BY <1>12 DEF Stored!TakeEvent, FilePoller, PollerDecided
  <2>2. v2' = v2 /\ v5' = v5 /\ v8' = v8
    BY <1>12 DEF Stored!TakeEvent
  <2> QED
    BY <2>1, <2>2, PollerKeeps
<1>13. CASE Stored!CleanUp
  <2>1. v7' \in FilePoller /\ PollerDecided(v2, v7', v8)
    BY <1>0, <1>13 DEF Stored!CleanUp, FilePoller, PollerDecided
  <2>2. v2' = v2 /\ v5' = v5 /\ v8' = v8
    BY <1>13 DEF Stored!CleanUp
  <2> QED
    BY <2>1, <2>2, PollerKeeps
<1>14. CASE Stored!CleanUpFails \/ Stored!MarkProcessed
  <2>1. v7' = Stored!Resting /\ v2' = v2 /\ v5' = v5 /\ v8' = v8 \ {"poller"}
    BY <1>14 DEF Stored!CleanUpFails, Stored!MarkProcessed
  <2>2. v7' \in FilePoller /\ v7'.phase # "delete" /\ PollerDecided(v2, v7', v8)
    BY <2>1 DEF Stored!Resting, FilePoller, PollerDecided
  <2> QED
    BY <2>1, <2>2, PollerKeeps
<1>15. CASE UNCHANGED <<v1, v2, v3, v4, v5, v6, v7, v8, v9>>
  BY <1>15 DEF FileInv, FileTypes, DecidedInv
<1>16. Calls = Actors \cup {another}
  BY DEF Calls
<1> HIDE DEF CallPhases
<1> QED
  BY <1>1, <1>3, <1>4, <1>5, <1>6, <1>7, <1>8, <1>10, <1>11, <1>12, <1>13, <1>14, <1>15, <1>16
     DEF Stored!Next, Stored!Poll

\* Only three actions take a file out of the bucket.
LEMMA DeletedAfterDecision ==
  ASSUME FileInv, Stored!Next
  PROVE  Stored!OnlyTheOvertakenLose
<1> SUFFICES ASSUME NEW k \in v3 \ v3', v2.there, v2.key = k
             PROVE  \E by \in v8 : IF by = "poller" THEN v7.key = k ELSE k \in v5[by].delete
  BY DEF Stored!OnlyTheOvertakenLose, Stored!InUse
<1>1. ASSUME NEW q \in Calls, NEW key \in Files, Stored!DeleteObject(q, key)
      PROVE  \E by \in v8 : IF by = "poller" THEN v7.key = k ELSE k \in v5[by].delete
  <2>1. k = key /\ v5[q].phase = "delete" /\ k \in v5[q].delete
    BY <1>1 DEF Stored!DeleteObject
  <2>2. q \in v8
    BY <2>1 DEF FileInv, DecidedInv, CallDecided
  <2> QED
    BY <2>1, <2>2, PollerIsNoCall
<1>2. CASE Stored!CleanUp
  <2>1. k = v7.key /\ v7.phase = "delete"
    BY <1>2 DEF Stored!CleanUp
  <2>2. "poller" \in v8
    BY <2>1 DEF FileInv, DecidedInv, PollerDecided
  <2> QED
    BY <2>1, <2>2
<1>3. ASSUME NEW q \in Calls, NEW key \in Files, Stored!Attach(q, key) PROVE FALSE
  BY <1>3 DEF Stored!Attach
<1>4. ASSUME NEW q \in Calls, NEW key \in Files, NEW scheduled \in BOOLEAN,
             Stored!DeleteFails(q, key, scheduled)
      PROVE  FALSE
  BY <1>4 DEF Stored!DeleteFails
<1>5. ASSUME NEW q \in Calls,
             \/ Stored!HeadFile(q) \/ Stored!FindRow(q) \/ Stored!WriteRow(q)
             \/ Stored!RemoveCover(q) \/ Stored!RemoveCard(q) \/ Stored!SoftDelete(q)
      PROVE  FALSE
  BY <1>5 DEF Stored!HeadFile, Stored!FindRow, Stored!WriteRow, Stored!RemoveCover,
     Stored!RemoveCard, Stored!SoftDelete
<1>6. ASSUME NEW key \in Files, Stored!Upload(key) \/ Stored!TakeEvent(key) PROVE FALSE
  BY <1>6 DEF Stored!Upload, Stored!TakeEvent
<1>7. ~Stored!Crash /\ ~Stored!CleanUpFails /\ ~Stored!MarkProcessed
  BY DEF Stored!Crash, Stored!CleanUpFails, Stored!MarkProcessed
<1>8. Calls = Actors \cup {another}
  BY DEF Calls
<1> QED
  BY <1>1, <1>2, <1>3, <1>4, <1>5, <1>6, <1>7, <1>8 DEF Stored!Next, Stored!Poll

\* storyboard-card.service.ts and book-cover.service.ts: a file in use is deleted only by
\* who decided on an older row.
THEOREM FilesInUseStay == Spec => LostOnlyWhenOvertaken
<1> DEFINE Inv == part = "files" => FileInv
<1>1. Init => Inv
  BY PartInit, FileInit
<1>2. Inv /\ [Next]_vars => Inv'
  BY PartNext, FileStep
<1>3. Inv /\ [Next]_vars => [part = "files" => Stored!OnlyTheOvertakenLose]_vars
  <2> SUFFICES ASSUME part = "files", Inv, Next PROVE Stored!OnlyTheOvertakenLose
    OBVIOUS
  <2>1. CASE Stored!Next
    BY <2>1, DeletedAfterDecision
  <2>2. CASE UNCHANGED <<v1, v2, v3, v4, v5, v6, v7, v8, v9>>
    BY <2>2 DEF Stored!OnlyTheOvertakenLose
  <2> QED
    BY <2>1, <2>2, PartNext
<1> QED
  BY <1>1, <1>2, <1>3, PTL DEF Spec, LostOnlyWhenOvertaken
-----------------------------------------------------------------------------
(* ImageGallery: v1 are the images ever made, v2 those there are, v3 is    *)
(* the url of the entity, v4 the calls, v5 those cut short, v6 whether two *)
(* calls overlapped or one was cut short, v7 whether the url is the        *)
(* author's.                                                               *)
(*                                                                         *)
(* Until v6 the two records agree, but between the writes of one call,     *)
(* which knows the picture it is about (EditorOK).                         *)

Urls == Images \cup {None, Gone}
EditorPhases == {"idle", "create", "demote", "url", "primary", "find", "delete", "done"}
Editor == [phase : EditorPhases, image : Images \cup {None}, url : Urls,
           next : Images \cup {None}, primary : BOOLEAN]

Agree(image, url, authored) ==
  /\ \A i, j \in DOMAIN image : image[i] /\ image[j] => i = j
  /\ ~authored => {i \in DOMAIN image : image[i]} = IF url = None THEN {} ELSE {url}

PicturesTyped(made, image, url) ==
  /\ made \subseteq Images /\ DOMAIN image \subseteq made /\ image \in [DOMAIN image -> BOOLEAN]
  /\ \E n \in Nat : \A i \in made : i <= n
  /\ url \in Urls

Moving(held) == held.phase \notin {"idle", "done"}

EditorOK(held, image, url, authored) ==
  /\ held.phase = "demote" => held.image \in DOMAIN image /\ image[held.image]
  /\ held.phase = "url" => {i \in DOMAIN image : image[i]} = {held.image}
  /\ held.phase \notin {"demote", "url"} => Agree(image, url, authored)
  /\ held.phase \in {"find", "delete"} => held.url = url
  /\ held.phase = "delete" =>
       /\ held.next # held.image
       /\ held.image \in DOMAIN image /\ held.primary = image[held.image]
       /\ held.primary \/ held.next = None

GalleryTypes ==
  /\ PicturesTyped(v1, v2, v3)
  /\ v4 \in [Actors -> Editor]
  /\ \A e \in Actors : Moving(v4[e]) => v4[e].image \in Images
  /\ v6 \in BOOLEAN /\ v7 \in BOOLEAN

AloneInv ==
  ~v6 => /\ \A e, f \in Actors : Moving(v4[e]) /\ Moving(v4[f]) => e = f
         /\ \A e \in Actors : Moving(v4[e]) => EditorOK(v4[e], v2, v3, v7)
         /\ (\A e \in Actors : ~Moving(v4[e])) => Agree(v2, v3, v7)

GalleryInv == GalleryTypes /\ AloneInv

LEMMA ImagesAreNumbers ==
  Images \subseteq Nat /\ None \notin Images /\ {None, Gone} \cup PictureUrls \subseteq Urls
BY PartsAssumption DEF Gallery!ImagesAssumption, Urls

\* A bounded set of numbers has a greatest one: the least of its bounds.
LEMMA GreatestOfBounded ==
  ASSUME NEW S \in SUBSET Nat, S # {}, NEW n \in Nat, \A s \in S : s <= n
  PROVE  \E s \in S : \A t \in S : s >= t
<1> DEFINE Bounds == {m \in Nat : \A s \in S : s <= m}
<1>1. PICK m \in Bounds : \A l \in Bounds : ~(<<l, m>> \in OpToRel(<, Nat))
  <2>1. Bounds \in SUBSET Nat /\ Bounds # {}
    OBVIOUS
  <2> HIDE DEF Bounds
  <2> QED
    BY <2>1, NatLessThanWellFounded, WFMin
<1>2. m \in Nat /\ \A s \in S : s <= m
  BY <1>1
<1>3. CASE m \in S
  BY <1>2, <1>3
<1>4. CASE m \notin S
  <2>1. \A s \in S : s <= m - 1
    BY <1>2, <1>4
  <2>2. m - 1 \in Nat
    <3>1. PICK s \in S : s \in Nat /\ s <= m - 1
      BY <2>1
    <3> QED
      BY <1>2, <3>1
  <2>3. m - 1 \in Bounds
    BY <2>1, <2>2
  <2>4. <<m - 1, m>> \in OpToRel(<, Nat)
    BY <1>2, <2>2 DEF OpToRel
  <2> QED
    BY <1>1, <2>3, <2>4
<1> QED
  BY <1>3, <1>4

\* A new image has a larger number than those there were.
LEMMA CreatedIsTyped ==
  ASSUME NEW made, NEW image, NEW url, PicturesTyped(made, image, url), NEW i \in Images,
         \A j \in made : j < i, NEW created \in [DOMAIN image \cup {i} -> BOOLEAN]
  PROVE  PicturesTyped(made \cup {i}, created, url) /\ i \notin DOMAIN image
<1>1. i \in Nat /\ made \subseteq Nat /\ DOMAIN image \subseteq made
  BY ImagesAreNumbers DEF PicturesTyped
<1>2. \A j \in made \cup {i} : j <= i
  BY <1>1
<1>3. created \in [DOMAIN created -> BOOLEAN] /\ DOMAIN created \subseteq made \cup {i}
  BY <1>1
<1>4. i \notin made
  BY <1>1
<1> QED
  BY <1>1, <1>2, <1>3, <1>4 DEF PicturesTyped

LEMMA GalleryInit ==
  ASSUME Gallery!Init
  PROVE  GalleryInv
<1>1. v1 = {} /\ DOMAIN v2 = {} /\ v3 \in Urls /\ ~v6 /\ v6 \in BOOLEAN /\ v7 = (v3 # None)
  BY ImagesAreNumbers DEF Gallery!Init, Urls
<1>2. PicturesTyped(v1, v2, v3)
  <2>1. v2 = [i \in {} |-> FALSE]
    BY DEF Gallery!Init
  <2>2. v2 \in [DOMAIN v2 -> BOOLEAN]
    BY <2>1
  <2>3. \E n \in Nat : \A i \in v1 : i <= n
    BY <1>1
  <2> QED
    BY <1>1, <2>2, <2>3 DEF PicturesTyped
<1>3. Gallery!NotSent \in Editor /\ ~Moving(Gallery!NotSent)
  BY DEF Gallery!NotSent, Editor, EditorPhases, Moving, Urls
<1>4. v4 \in [Actors -> Editor] /\ \A e \in Actors : ~Moving(v4[e])
  BY <1>3 DEF Gallery!Init
<1>5. Agree(v2, v3, v7) /\ v7 \in BOOLEAN
  BY <1>1 DEF Agree
<1> QED
  BY <1>1, <1>2, <1>4, <1>5 DEF GalleryInv, GalleryTypes, AloneInv

\* A call begins.
LEMMA BeginKeeps ==
  ASSUME GalleryInv, NEW e \in Actors, NEW phase \in {"create", "primary", "find"},
         NEW i \in Images, Gallery!Begin(e, phase, i), UNCHANGED <<v1, v2, v3, v7>>
  PROVE  GalleryInv'
<1>1. PICK held : held = [Gallery!NotSent EXCEPT !.phase = phase, !.image = i, !.url = v3]
  OBVIOUS
<1>2. held \in Editor /\ held.phase = phase /\ held.image = i /\ held.url = v3 /\ Moving(held)
  <2>1. v3 \in Urls
    BY DEF GalleryInv, GalleryTypes, PicturesTyped
  <2> QED
    BY <1>1, <2>1 DEF Gallery!NotSent, Editor, EditorPhases, Moving
<1>3. /\ v4' = [v4 EXCEPT ![e] = held] /\ ~Moving(v4[e])
      /\ v6' = (v6 \/ \E f \in Actors \ {e} : Moving(v4[f]))
  BY <1>1 DEF Gallery!Begin, Gallery!InFlight, Moving
<1>4. v4' \in [Actors -> Editor] /\ \A f \in Actors : v4'[f] = IF f = e THEN held ELSE v4[f]
  BY <1>2, <1>3 DEF GalleryInv, GalleryTypes
<1>5. GalleryTypes'
  BY <1>2, <1>3, <1>4 DEF GalleryInv, GalleryTypes
<1>6. AloneInv'
  <2> SUFFICES ASSUME ~v6' PROVE AloneInv'
    BY DEF AloneInv
  <2>1. ~v6 /\ \A f \in Actors : ~Moving(v4[f])
    BY <1>3
  <2>2. Agree(v2, v3, v7)
    BY <2>1 DEF GalleryInv, AloneInv
  <2>3. EditorOK(held, v2, v3, v7)
    BY <1>2, <2>2 DEF EditorOK
  <2> QED
    BY <1>2, <1>4, <2>1, <2>3 DEF AloneInv
<1> QED
  BY <1>5, <1>6 DEF GalleryInv

\* A call goes on: if it is the only one, its writes are all there are.
LEMMA EditorKeeps ==
  ASSUME GalleryInv, NEW e \in Actors, Moving(v4[e]), NEW held \in Editor,
         v4' = [v4 EXCEPT ![e] = held], held.image \in Images, v6' \in BOOLEAN, v7' \in BOOLEAN, v6 => v6',
         PicturesTyped(v1', v2', v3'),
         ~v6' => IF Moving(held) THEN EditorOK(held, v2', v3', v7') ELSE Agree(v2', v3', v7')
  PROVE  GalleryInv'
<1>1. v4' \in [Actors -> Editor] /\ \A f \in Actors : v4'[f] = IF f = e THEN held ELSE v4[f]
  BY DEF GalleryInv, GalleryTypes
<1>2. GalleryTypes'
  BY <1>1 DEF GalleryInv, GalleryTypes
<1>3. AloneInv'
  <2> SUFFICES ASSUME ~v6' PROVE AloneInv'
    BY DEF AloneInv
  <2>1. \A f \in Actors : Moving(v4[f]) => f = e
    BY DEF GalleryInv, AloneInv
  <2> QED
    BY <1>1, <2>1 DEF AloneInv
<1> QED
  BY <1>2, <1>3 DEF GalleryInv

\* It goes to a phase.
LEMMA GoesKeepsPictures ==
  ASSUME GalleryInv, NEW e \in Actors, Moving(v4[e]), NEW phase \in EditorPhases,
         Gallery!Goes(e, phase), v6' \in BOOLEAN, v7' \in BOOLEAN, v6 => v6', PicturesTyped(v1', v2', v3'),
         ~v6' => /\ phase = "demote" => v4[e].image \in DOMAIN v2' /\ v2'[v4[e].image]
                 /\ phase = "url" => {i \in DOMAIN v2' : v2'[i]} = {v4[e].image}
                 /\ phase = "done" => Agree(v2', v3', v7'),
         phase \in {"demote", "url", "done"}
  PROVE  GalleryInv'
<1>1. PICK held : held = [v4[e] EXCEPT !.phase = phase]
  OBVIOUS
<1>2. held \in Editor /\ held.phase = phase /\ held.image = v4[e].image
  <2>1. v4[e] \in Editor
    BY DEF GalleryInv, GalleryTypes
  <2> QED
    BY ONLY <1>1, <2>1, phase \in EditorPhases DEF Editor
<1>3. v4' = [v4 EXCEPT ![e] = held]
  BY <1>1 DEF Gallery!Goes
<1>4. v4[e].image \in Images
  BY DEF GalleryInv, GalleryTypes
<1>5. ~v6' => IF Moving(held) THEN EditorOK(held, v2', v3', v7') ELSE Agree(v2', v3', v7')
  BY <1>2 DEF Moving, EditorOK
<1> QED
  BY <1>2, <1>3, <1>4, <1>5, EditorKeeps

\* What EditorOK gives of a call that is alone.
LEMMA EditorKnows ==
  ASSUME GalleryInv, NEW e \in Actors, Moving(v4[e])
  PROVE  /\ PicturesTyped(v1, v2, v3) /\ v4[e] \in Editor /\ v4[e].image \in Images
         /\ v6 \in BOOLEAN /\ v7 \in BOOLEAN
         /\ ~v6 => EditorOK(v4[e], v2, v3, v7)
BY DEF GalleryInv, GalleryTypes, AloneInv

LEMMA CreateGives ==
  ASSUME PicturesTyped(v1, v2, v3), NEW i, NEW primary \in BOOLEAN
  PROVE  /\ Gallery!Create(i, primary) \in [DOMAIN v2 \cup {i} -> BOOLEAN]
         /\ \A j \in DOMAIN v2 \cup {i} :
              Gallery!Create(i, primary)[j] = IF j = i THEN primary ELSE v2[j]
BY DEF Gallery!Create, PicturesTyped

LEMMA GenerateKeeps ==
  ASSUME GalleryInv, NEW i \in Images, Gallery!Generate(i)
  PROVE  GalleryInv'
\* The new image is not primary.
<1>1. /\ v1' = v1 \cup {i} /\ v2' = [j \in DOMAIN v2 \cup {i} |-> IF j = i THEN FALSE ELSE v2[j]]
      /\ v3' = v3 /\ v4' = v4 /\ v6' = v6 /\ v7' = v7 /\ \A j \in v1 : j < i
  BY DEF Gallery!Generate, Gallery!Create
<1>2. PicturesTyped(v1, v2, v3)
  BY DEF GalleryInv, GalleryTypes
<1>3. i \notin DOMAIN v2 /\ PicturesTyped(v1', v2', v3')
  <2>1. v2' \in [DOMAIN v2 \cup {i} -> BOOLEAN]
    BY <1>1, <1>2 DEF PicturesTyped
  <2> QED
    BY <1>1, <1>2, <2>1, CreatedIsTyped
<1>4. /\ {j \in DOMAIN v2' : v2'[j]} = {j \in DOMAIN v2 : v2[j]}
      /\ \A j \in DOMAIN v2 : j \in DOMAIN v2' /\ v2'[j] = v2[j]
  BY <1>1, <1>3
<1>5. Agree(v2', v3', v7') <=> Agree(v2, v3, v7)
  BY <1>1, <1>4 DEF Agree
<1>6. \A held \in Editor : EditorOK(held, v2, v3, v7) => EditorOK(held, v2', v3', v7')
  BY <1>1, <1>4, <1>5 DEF EditorOK
<1> QED
  BY <1>1, <1>3, <1>5, <1>6 DEF GalleryInv, GalleryTypes, AloneInv

\* deleteImage reads: the newest of the others is next, and there is one unless there are
\* no others.
LEMMA FindNextPrimaryKeeps ==
  ASSUME GalleryInv, NEW e \in Actors, Gallery!FindNextPrimary(e)
  PROVE  GalleryInv'
<1> DEFINE i == v4[e].image
           others == DOMAIN v2 \ {i}
<1>1. Moving(v4[e]) /\ v4[e].phase = "find" /\ UNCHANGED <<v1, v2, v3, v6, v7>>
  BY DEF Gallery!FindNextPrimary, Moving
<1>2. PicturesTyped(v1, v2, v3) /\ v4[e] \in Editor /\ i \in Images /\ v6 \in BOOLEAN /\ v7 \in BOOLEAN
      /\ (~v6 => EditorOK(v4[e], v2, v3, v7))
  BY <1>1, EditorKnows
<1>3. CASE i \notin DOMAIN v2
  <2>1. Gallery!Goes(e, "done")
    BY <1>3 DEF Gallery!FindNextPrimary
  <2>2. ~v6 => Agree(v2, v3, v7)
    BY <1>1, <1>2 DEF EditorOK
  <2> QED
    BY <1>1, <1>2, <2>1, <2>2, GoesKeepsPictures DEF EditorPhases
<1>4. CASE i \in DOMAIN v2
  <2>1. PICK next : next = IF v2[i] /\ others # {} THEN Gallery!Max(others) ELSE None
    OBVIOUS
  <2>2. v4' = [v4 EXCEPT ![e].phase = "delete", ![e].primary = v2[i], ![e].next = next]
    BY <1>4, <2>1 DEF Gallery!FindNextPrimary
  <2>3. others # {} => Gallery!Max(others) \in others
    <3> SUFFICES ASSUME others # {} PROVE Gallery!Max(others) \in others
      OBVIOUS
    <3>1. others \in SUBSET Nat /\ \E n \in Nat : \A s \in others : s <= n
      BY <1>2, ImagesAreNumbers DEF PicturesTyped
    <3>2. \E s \in others : \A t \in others : s >= t
      BY <3>1, GreatestOfBounded
    <3> HIDE DEF others
    <3> QED
      BY <3>2 DEF Gallery!Max
  <2>4. next \in Images \cup {None} /\ next # i /\ (v2[i] \/ next = None) /\ v2[i] \in BOOLEAN
    <3>1. i # None /\ others \subseteq Images /\ i \notin others
      BY <1>2, ImagesAreNumbers DEF PicturesTyped
    <3>2. v2[i] \in BOOLEAN
      BY <1>2, <1>4 DEF PicturesTyped
    <3> HIDE DEF i, others
    <3> QED
      BY <2>1, <2>3, <3>1, <3>2
  <2>5. PICK held : held = [v4[e] EXCEPT !.phase = "delete", !.primary = v2[i], !.next = next]
    OBVIOUS
  <2>6. /\ held \in Editor /\ held.phase = "delete" /\ held.primary = v2[i]
        /\ held.next = next /\ held.image = i /\ held.url = v4[e].url
    BY ONLY <1>2, <2>4, <2>5 DEF Editor, EditorPhases
  <2>7. v4' = [v4 EXCEPT ![e] = held]
    BY <2>2, <2>5
  <2>8. ~v6 => EditorOK(held, v2, v3, v7)
    BY <1>1, <1>2, <1>4, <2>4, <2>6 DEF EditorOK
  <2>9. Moving(held)
    BY <2>6 DEF Moving
  <2> QED
    BY <1>1, <1>2, <2>6, <2>7, <2>8, <2>9, EditorKeeps
<1> QED
  BY <1>3, <1>4

\* deleteImage writes: the primary image hands over to the next one, or leaves nothing.
LEMMA DeleteImageKeeps ==
  ASSUME GalleryInv, NEW e \in Actors, Gallery!DeleteImage(e)
  PROVE  GalleryInv'
<1> DEFINE i == v4[e].image
           next == v4[e].next
<1>1. Moving(v4[e]) /\ v4[e].phase = "delete" /\ UNCHANGED <<v1, v6>> /\ Gallery!Goes(e, "done")
  BY DEF Gallery!DeleteImage, Moving
<1>2. PicturesTyped(v1, v2, v3) /\ v4[e] \in Editor /\ i \in Images /\ v6 \in BOOLEAN /\ v7 \in BOOLEAN
      /\ (~v6 => EditorOK(v4[e], v2, v3, v7))
  BY <1>1, EditorKnows
<1>3. CASE UNCHANGED <<v2, v3, v7>>
  <2>1. ~v6 => Agree(v2, v3, v7)
    BY <1>1, <1>2 DEF EditorOK
  <2> QED
    BY <1>1, <1>2, <1>3, <2>1, GoesKeepsPictures DEF EditorPhases
<1>4. CASE /\ {i, next} \ {None} \subseteq DOMAIN v2
           /\ v2' = [j \in DOMAIN v2 \ {i} |-> v2[j] \/ j = next]
           /\ v3' = Gallery!NextUrl(e) /\ v7' = (v7 /\ next = None)
  <2>1. v3' \in Urls
    BY <1>2, <1>4 DEF Gallery!NextUrl, Editor, PicturesTyped, Urls
  <2>2. v2' \in [DOMAIN v2' -> BOOLEAN] /\ DOMAIN v2' \subseteq v1
    <3>1. \A j \in DOMAIN v2 \ {i} : (v2[j] \/ j = next) \in BOOLEAN
      OBVIOUS
    <3> QED
      BY <1>2, <1>4, <3>1 DEF PicturesTyped
  <2>3. PicturesTyped(v1', v2', v3')
    BY <1>1, <1>2, <2>1, <2>2 DEF PicturesTyped
  <2>4. ASSUME ~v6 PROVE Agree(v2', v3', v7')
    <3>1. /\ Agree(v2, v3, v7) /\ v4[e].url = v3 /\ next # i /\ i \in DOMAIN v2
          /\ v4[e].primary = v2[i] /\ (v4[e].primary \/ next = None)
      BY <1>1, <1>2, <2>4 DEF EditorOK
    <3>2. None \notin DOMAIN v2 /\ i # None
      BY <1>2, ImagesAreNumbers DEF PicturesTyped
    <3>3. \A j : (j \in DOMAIN v2' /\ v2'[j]) <=> (j \in DOMAIN v2 /\ j # i /\ (v2[j] \/ j = next))
      BY <1>4
    <3>4. CASE ~v4[e].primary
      <4>1. v3' = v3 /\ next = None /\ ~v2[i] /\ v7' = v7
        BY <1>2, <1>4, <3>1, <3>4 DEF Gallery!NextUrl
      <4>2. {j \in DOMAIN v2' : v2'[j]} = {j \in DOMAIN v2 : v2[j]}
        BY <3>2, <3>3, <4>1
      <4>3. \A j, k \in DOMAIN v2' : v2'[j] /\ v2'[k] => j = k
        BY <3>1, <3>2, <3>3, <4>1 DEF Agree
      <4> QED
        BY <3>1, <4>1, <4>2, <4>3 DEF Agree
    <3>5. CASE v4[e].primary
      <4>1. \A j \in DOMAIN v2 : v2[j] => j = i
        BY <3>1, <3>5 DEF Agree
      <4>2. next # None => next \in DOMAIN v2
        BY <1>4
      <4>3. {j \in DOMAIN v2' : v2'[j]} = IF next = None THEN {} ELSE {next}
        BY <3>1, <3>2, <3>3, <4>1, <4>2
      <4>4. ~v7' => v3' = next
        <5>1. CASE next # None
          BY <1>4, <3>5, <5>1 DEF Gallery!NextUrl
        <5>2. CASE next = None /\ ~v7'
          <6>1. {j \in DOMAIN v2 : v2[j]} = {i} /\ ~v7
            BY <1>4, <3>1, <3>5, <4>1, <5>2
          <6>2. v3 = i
            BY <3>1, <6>1 DEF Agree
          <6> QED
            BY <1>4, <3>1, <3>5, <5>2, <6>2 DEF Gallery!NextUrl
        <5> QED
          BY <5>1, <5>2
      <4>5. \A j, k \in DOMAIN v2' : v2'[j] /\ v2'[k] => j = k
        <5>1. \A j \in DOMAIN v2' : v2'[j] => j = next
          BY <3>3, <4>1
        <5> QED
          BY <5>1
      <4>6. ~v7' => {j \in DOMAIN v2' : v2'[j]} = IF v3' = None THEN {} ELSE {v3'}
        <5> SUFFICES ASSUME ~v7' PROVE {j \in DOMAIN v2' : v2'[j]} = IF v3' = None THEN {} ELSE {v3'}
          OBVIOUS
        <5>1. v3' = next
          BY <4>4
        <5> HIDE DEF next
        <5> QED
          BY <4>3, <5>1
      <4> QED
        BY <4>5, <4>6 DEF Agree
    <3> QED
      BY <3>4, <3>5
  <2>5. v7' \in BOOLEAN
    BY <1>2, <1>4
  <2> QED
    BY <1>1, <1>2, <2>3, <2>4, <2>5, GoesKeepsPictures DEF EditorPhases
<1> QED
  BY <1>3, <1>4 DEF Gallery!DeleteImage

LEMMA GalleryStep ==
  ASSUME GalleryInv, Gallery!Next \/ UNCHANGED <<v1, v2, v3, v4, v5, v6, v7>>
  PROVE  GalleryInv'
<1> USE DEF EditorPhases
<1>1. ASSUME NEW e \in Actors, NEW i \in Images,
             \/ Gallery!BeginAttach(e, i) \/ Gallery!BeginSetPrimary(e, i)
             \/ Gallery!BeginDelete(e, i)
      PROVE  GalleryInv'
  <2>1. PICK phase \in {"create", "primary", "find"} : Gallery!Begin(e, phase, i)
    BY <1>1 DEF Gallery!BeginAttach, Gallery!BeginSetPrimary, Gallery!BeginDelete
  <2>2. UNCHANGED <<v1, v2, v3, v7>>
    BY <1>1 DEF Gallery!BeginAttach, Gallery!BeginSetPrimary, Gallery!BeginDelete
  <2> QED
    BY <2>1, <2>2, BeginKeeps
<1>2. ASSUME NEW e \in Actors, Gallery!CreatePrimary(e) PROVE GalleryInv'
  <2>1. PICK i : i = v4[e].image
    OBVIOUS
  <2>2. /\ Moving(v4[e]) /\ Gallery!Goes(e, "demote") /\ v1' = v1 \cup {i}
        /\ v2' = Gallery!Create(i, TRUE) /\ v3' = v3 /\ v6' = v6 /\ v7' = v7
    BY <1>2, <2>1 DEF Gallery!CreatePrimary, Moving
  <2>3. PicturesTyped(v1, v2, v3) /\ i \in Images /\ v6' \in BOOLEAN /\ v7' \in BOOLEAN
    BY <2>1, <2>2, EditorKnows
  <2>4. \A j \in v1 : j < i
    BY <1>2, <2>1 DEF Gallery!CreatePrimary
  <2>5. TRUE \in BOOLEAN
    OBVIOUS
  <2>6. v2' \in [DOMAIN v2 \cup {i} -> BOOLEAN] /\ v2'[i] = TRUE
    BY <2>2, <2>3, <2>5, CreateGives
  <2>7. PicturesTyped(v1', v2', v3')
    BY <2>2, <2>3, <2>4, <2>6, CreatedIsTyped
  <2>8. v4[e].image \in DOMAIN v2' /\ v2'[v4[e].image]
    BY <2>1, <2>6
  <2> QED
    BY <2>2, <2>3, <2>7, <2>8, GoesKeepsPictures
\* The one that was made primary stays so.
<1>3. ASSUME NEW e \in Actors, Gallery!DemoteOthers(e) PROVE GalleryInv'
  <2> DEFINE i == v4[e].image
  <2>1. /\ Moving(v4[e]) /\ v4[e].phase = "demote" /\ Gallery!Goes(e, "url")
        /\ v2' = [j \in DOMAIN v2 |-> v2[j] /\ j = i] /\ UNCHANGED <<v1, v3, v6, v7>>
    BY <1>3 DEF Gallery!DemoteOthers, Moving
  <2>2. PicturesTyped(v1, v2, v3) /\ i \in Images /\ v6 \in BOOLEAN /\ v7 \in BOOLEAN
        /\ (~v6 => EditorOK(v4[e], v2, v3, v7))
    BY <2>1, EditorKnows
  <2>3. PicturesTyped(v1', v2', v3')
    <3>1. \A j \in DOMAIN v2 : (v2[j] /\ j = i) \in BOOLEAN
      OBVIOUS
    <3> QED
      BY <2>1, <2>2, <3>1 DEF PicturesTyped
  <2>4. ~v6 => {j \in DOMAIN v2' : v2'[j]} = {i}
    BY <2>1, <2>2 DEF EditorOK
  <2> QED
    BY <2>1, <2>2, <2>3, <2>4, GoesKeepsPictures
<1>4. ASSUME NEW e \in Actors, Gallery!UpdateUrl(e) PROVE GalleryInv'
  <2> DEFINE i == v4[e].image
  <2>1. /\ Moving(v4[e]) /\ v4[e].phase = "url" /\ Gallery!Goes(e, "done") /\ v3' = i
        /\ v7' = FALSE /\ UNCHANGED <<v1, v2, v6>>
    BY <1>4 DEF Gallery!UpdateUrl, Moving
  <2>2. PicturesTyped(v1, v2, v3) /\ i \in Images /\ v6 \in BOOLEAN /\ v7 \in BOOLEAN
        /\ (~v6 => EditorOK(v4[e], v2, v3, v7))
    BY <2>1, EditorKnows
  <2>3. PicturesTyped(v1', v2', v3')
    BY <2>1, <2>2 DEF PicturesTyped, Urls
  <2>4. ~v6 => Agree(v2, i, FALSE)
    BY <2>1, <2>2, ImagesAreNumbers DEF EditorOK, Agree
  <2> QED
    BY <2>1, <2>2, <2>3, <2>4, GoesKeepsPictures
<1>5. ASSUME NEW e \in Actors, Gallery!SetPrimary(e) PROVE GalleryInv'
  <2> DEFINE i == v4[e].image
  <2>1. Moving(v4[e]) /\ v4[e].phase = "primary" /\ UNCHANGED <<v1, v3, v6, v7>>
    BY <1>5 DEF Gallery!SetPrimary, Moving
  <2>2. PicturesTyped(v1, v2, v3) /\ i \in Images /\ v6 \in BOOLEAN /\ v7 \in BOOLEAN
        /\ (~v6 => EditorOK(v4[e], v2, v3, v7))
    BY <2>1, EditorKnows
  <2>3. CASE i \in DOMAIN v2
    <3>1. v2' = [j \in DOMAIN v2 |-> j = i] /\ Gallery!Goes(e, "url")
      BY <1>5, <2>3 DEF Gallery!SetPrimary
    <3>2. PicturesTyped(v1', v2', v3')
      <4>1. \A j \in DOMAIN v2 : (j = i) \in BOOLEAN
        OBVIOUS
      <4> QED
        BY <2>1, <2>2, <3>1, <4>1 DEF PicturesTyped
    <3>3. {j \in DOMAIN v2' : v2'[j]} = {i}
      BY <2>3, <3>1
    <3> QED
      BY <2>1, <2>2, <3>1, <3>2, <3>3, GoesKeepsPictures
  <2>4. CASE i \notin DOMAIN v2
    <3>1. v2' = v2 /\ Gallery!Goes(e, "done")
      BY <1>5, <2>4 DEF Gallery!SetPrimary
    <3>2. ~v6 => Agree(v2, v3, v7)
      BY <2>1, <2>2 DEF EditorOK
    <3> QED
      BY <2>1, <2>2, <3>1, <3>2, GoesKeepsPictures
  <2> QED
    BY <2>3, <2>4
<1>6. ASSUME NEW e \in Actors, Gallery!CutShort(e) PROVE GalleryInv'
  <2>1. Moving(v4[e]) /\ Gallery!Goes(e, "done") /\ v6' = TRUE /\ UNCHANGED <<v1, v2, v3, v7>>
    BY <1>6 DEF Gallery!CutShort, Gallery!InFlight, Moving
  <2> QED
    BY <2>1, EditorKnows, GoesKeepsPictures
\* The author's url: every call under way is disturbed, and the images stay as they are.
<1>7. ASSUME NEW u \in {None, Gone} \cup PictureUrls, Gallery!WriteUrl(u) PROVE GalleryInv'
  <2>1. /\ v3' = u /\ v7' = TRUE /\ UNCHANGED <<v1, v2, v4>>
        /\ v6' = (v6 \/ \E e \in Actors : Moving(v4[e]))
    BY <1>7 DEF Gallery!WriteUrl, Gallery!InFlight, Moving
  <2>2. GalleryTypes'
    <3>1. u \in Urls
      BY ImagesAreNumbers
    <3> QED
      BY <2>1, <3>1 DEF GalleryInv, GalleryTypes, PicturesTyped
  <2>3. AloneInv'
    <3> SUFFICES ASSUME ~v6' PROVE AloneInv'
      BY DEF AloneInv
    <3>1. ~v6 /\ \A e \in Actors : ~Moving(v4[e])
      BY <2>1
    <3>2. Agree(v2', v3', v7')
      BY <2>1, <3>1 DEF GalleryInv, AloneInv, Agree
    <3> QED
      BY <2>1, <3>1, <3>2 DEF AloneInv
  <2> QED
    BY <2>2, <2>3 DEF GalleryInv
<1>8. CASE UNCHANGED <<v1, v2, v3, v4, v5, v6, v7>>
  BY <1>8 DEF GalleryInv, GalleryTypes, AloneInv
<1> QED
  BY <1>1, <1>2, <1>3, <1>4, <1>5, <1>6, <1>7, <1>8, GenerateKeeps, FindNextPrimaryKeeps,
     DeleteImageKeeps DEF Gallery!Next

\* image-assets.service.ts: as long as no two calls overlapped and none was cut short, at
\* most one image is primary whenever no call is on its way, and unless the author gave a
\* url after the gallery chose the picture, it is what the entity shows.
THEOREM PicturesAgree == Spec => []PictureAgrees
<1> DEFINE Inv == part = "gallery" => GalleryInv
<1>1. Init => Inv
  BY PartInit, GalleryInit
<1>2. Inv /\ [Next]_vars => Inv'
  BY PartNext, GalleryStep
<1>3. Inv => PictureAgrees
  BY DEF GalleryInv, AloneInv, Agree, Moving, PictureAgrees, Gallery!PictureAgrees,
         Gallery!InFlight, Gallery!Primary
<1> QED
  BY <1>1, <1>2, <1>3, PTL DEF Spec
-----------------------------------------------------------------------------
(* KnowledgeMerge: v1 is the entity, v2 its proposals, v3 the analysis,    *)
(* v6 the updates that preceded a lock.                                    *)
(*                                                                         *)
(* There is one pending update at most, and none while an analysis may     *)
(* still create one (OnePending).  An undisturbed analysis knows the       *)
(* entity as it is (KnowsEntity).  So a pending update without a mark or   *)
(* an excuse has the name of the entity and nothing for a locked attribute *)
(* (WarnedInv).                                                            *)

IsUpdate(row) ==
  row = [status |-> row.status, conflict |-> row.conflict, merged |-> row.merged, name |-> row.name,
         aliases |-> row.aliases, description |-> row.description, attribute |-> row.attribute]

AreUpdates(rows) == \E S : rows \in Seq(S) /\ \A row \in S : IsUpdate(row)

IsEntity(row) ==
  row = [name |-> row.name, aliases |-> row.aliases, description |-> row.description,
         attribute |-> row.attribute, locks |-> row.locks]

IsMergeJob(held) ==
  \/ held = Merge!Idle
  \/ /\ held = [running |-> TRUE, entity |-> held.entity, todo |-> held.todo,
                disturbed |-> held.disturbed, update |-> held.update, data |-> held.data]
     /\ held.update \in Nat
     /\ held.update # 0 => held.update \in Merge!Ids /\ IsUpdate(held.data)

MergeTypes == AreUpdates(v2) /\ IsEntity(v1) /\ IsMergeJob(v3)

OnePending ==
  /\ \A i, j \in Merge!Pending : i = j
  /\ v3.running /\ v3.update = 0 => Merge!Pending = {}

KnowsEntity == v3.running /\ ~v3.disturbed => v3.entity = v1

Warned(i, row, entity, preceded) ==
  \/ row.conflict \/ row.merged \/ i \in preceded
  \/ /\ row.name = entity.name
     /\ "attribute" \in entity.locks => row.attribute = None
     /\ "description" \in entity.locks => row.description = <<>>
     /\ "aliases" \in entity.locks => row.aliases = {}

WarnedInv == \A i \in Merge!Pending : Warned(i, v2[i], v1, v6)

MergeInv == MergeTypes /\ OnePending /\ KnowsEntity /\ WarnedInv

LEMMA MergeStart ==
  ASSUME Merge!Init
  PROVE  MergeInv
<1>1. v2 = <<>> /\ v3 = Merge!Idle /\ IsEntity(v1)
  BY DEF Merge!Init, IsEntity
<1>2. AreUpdates(v2)
  <2>1. v2 \in Seq({})
    BY <1>1
  <2>2. QED
    BY <2>1 DEF AreUpdates
<1>3. Merge!Pending = {} /\ ~v3.running
  BY <1>1 DEF Merge!Pending, Merge!Ids, Merge!Idle
<1>4. QED
  BY <1>1, <1>2, <1>3 DEF MergeInv, MergeTypes, OnePending, KnowsEntity, WarnedInv, IsMergeJob

\* The list of proposals: what is in it, what is appended and what is replaced.
LEMMA UpdatesAre ==
  ASSUME NEW rows, AreUpdates(rows)
  PROVE  /\ Len(rows) \in Nat /\ DOMAIN rows = 1..Len(rows)
         /\ \A i \in 1..Len(rows) : IsUpdate(rows[i])
BY DEF AreUpdates

LEMMA UpdateAppended ==
  ASSUME NEW rows, AreUpdates(rows), NEW row, IsUpdate(row)
  PROVE  /\ AreUpdates(Append(rows, row))
         /\ Len(Append(rows, row)) = Len(rows) + 1
         /\ Append(rows, row)[Len(rows) + 1] = row
         /\ \A i \in 1..Len(rows) : Append(rows, row)[i] = rows[i]
<1>1. PICK S : rows \in Seq(S) /\ \A r \in S : IsUpdate(r)
  BY DEF AreUpdates
<1>2. rows \in Seq(S \cup {row}) /\ row \in S \cup {row}
  BY <1>1
<1>3. Append(rows, row) \in Seq(S \cup {row})
  BY <1>2
<1>4. AreUpdates(Append(rows, row))
  BY <1>1, <1>3 DEF AreUpdates
<1>5. QED
  BY <1>2, <1>4

LEMMA UpdateReplaced ==
  ASSUME NEW rows, AreUpdates(rows), NEW row, IsUpdate(row), NEW T, NEW after \in Seq(T),
         Len(after) = Len(rows), \A i \in 1..Len(rows) : after[i] \in {row, rows[i]}
  PROVE  AreUpdates(after)
<1> DEFINE S == {after[i] : i \in 1..Len(after)}
<1>1. after \in Seq(S)
  OBVIOUS
<1>2. \A r \in S : IsUpdate(r)
  BY UpdatesAre
<1> HIDE DEF S
<1>3. QED
  BY <1>1, <1>2 DEF AreUpdates

\* An analysis that runs, field by field.
LEMMA JobIs ==
  ASSUME MergeInv, v3.running
  PROVE  /\ v3 = [running |-> TRUE, entity |-> v3.entity, todo |-> v3.todo,
                  disturbed |-> v3.disturbed, update |-> v3.update, data |-> v3.data]
         /\ v3.update \in Nat
         /\ v3.update # 0 => v3.update \in Merge!Ids /\ IsUpdate(v3.data)
BY DEF MergeInv, MergeTypes, IsMergeJob, Merge!Idle

\* Only an analysis that runs has something to do.
LEMMA HandlesRunning ==
  ASSUME MergeInv, v3.todo # <<>>
  PROVE  v3.running
BY DEF MergeInv, MergeTypes, IsMergeJob, Merge!Idle
-----------------------------------------------------------------------------
\* The author's steps: the analysis is disturbed, and what waits may be marked as preceding.
LEMMA DisturbedIs ==
  ASSUME MergeInv, v3' = Merge!Disturbed, Len(v2') = Len(v2)
  PROVE  /\ IsMergeJob(v3)' /\ KnowsEntity'
         /\ v3'.running => v3.running /\ v3'.update = v3.update
<1>1. CASE ~v3.running
  <2>1. v3' = v3 /\ v3 = Merge!Idle
    BY <1>1 DEF Merge!Disturbed, MergeInv, MergeTypes, IsMergeJob
  <2>2. QED
    BY <1>1, <2>1 DEF IsMergeJob, KnowsEntity, Merge!Idle
<1>2. CASE v3.running
  <2>1. v3' = [running |-> TRUE, entity |-> v3.entity, todo |-> v3.todo,
               disturbed |-> TRUE, update |-> v3.update, data |-> v3.data]
    BY <1>2, JobIs DEF Merge!Disturbed
  <2>2. IsMergeJob(v3)'
    BY <1>2, <2>1, JobIs DEF IsMergeJob, Merge!Ids
  <2>3. QED
    BY <1>2, <2>1, <2>2 DEF KnowsEntity
<1>3. QED
  BY <1>1, <1>2

\* What the author's edit leaves, and what of the known facts he took out himself.
LEMMA EditedRow ==
  ASSUME IsEntity(v1), Merge!EditEntity
  PROVE  /\ IsEntity(v1')
         /\ \/ v1'.aliases = v1.aliases /\ v1'.description = v1.description /\ v5' = v5
            \/ /\ v1'.aliases = v1.aliases /\ v5' = v5 \ Merge!Range(v1.description)
               /\ \E g \in Extracted : v1'.description = g.description
            \/ v5' = v5 \ v1.aliases /\ v1'.description = v1.description
<1>1. v1 = [name |-> v1.name, aliases |-> v1.aliases, description |-> v1.description,
            attribute |-> v1.attribute, locks |-> v1.locks]
  BY DEF IsEntity
<1>2. \/ \E n \in EntityNames :
            v1' = [v1 EXCEPT !.name = n, !.locks = @ \cup {"name"}] /\ v5' = v5
      \/ \E v \in AttributeValues :
            v1' = [v1 EXCEPT !.attribute = v, !.locks = @ \cup {"attribute"}] /\ v5' = v5
      \/ \E g \in Extracted :
            /\ v1' = [v1 EXCEPT !.description = g.description,
                                !.locks = @ \cup {"description"}]
            /\ v5' = v5 \ Merge!Range(v1.description)
      \/ \E g \in Extracted :
            /\ v1' = [v1 EXCEPT !.aliases = g.aliases, !.locks = @ \cup {"aliases"}]
            /\ v5' = v5 \ v1.aliases
  BY Zenon DEF Merge!EditEntity
<1>3. ASSUME NEW n, v1' = [v1 EXCEPT !.name = n, !.locks = @ \cup {"name"}]
      PROVE  IsEntity(v1') /\ v1'.aliases = v1.aliases /\ v1'.description = v1.description
  BY <1>1, <1>3 DEF IsEntity
<1>4. ASSUME NEW v, v1' = [v1 EXCEPT !.attribute = v, !.locks = @ \cup {"attribute"}]
      PROVE  IsEntity(v1') /\ v1'.aliases = v1.aliases /\ v1'.description = v1.description
  BY <1>1, <1>4 DEF IsEntity
<1>5. ASSUME NEW d, v1' = [v1 EXCEPT !.description = d, !.locks = @ \cup {"description"}]
      PROVE  IsEntity(v1') /\ v1'.aliases = v1.aliases /\ v1'.description = d
  BY <1>1, <1>5 DEF IsEntity
<1>6. ASSUME NEW g, v1' = [v1 EXCEPT !.aliases = g, !.locks = @ \cup {"aliases"}]
      PROVE  IsEntity(v1') /\ v1'.description = v1.description
  BY <1>1, <1>6 DEF IsEntity
<1>7. QED
  BY <1>2, <1>3, <1>4, <1>5, <1>6, Zenon

LEMMA EditKeeps ==
  ASSUME MergeInv, Merge!EditEntity
  PROVE  MergeInv'
<1>1. v2' = v2 /\ v6' = v6 \cup Merge!Pending /\ v3' = Merge!Disturbed
  <2>1. v2' = v2
    BY Zenon DEF Merge!EditEntity
  <2>2. v6' = v6 \cup Merge!Pending
    BY Zenon DEF Merge!EditEntity
  <2>3. v3' = Merge!Disturbed
    BY Zenon DEF Merge!EditEntity
  <2>4. QED
    BY <2>1, <2>2, <2>3
<1>2. IsEntity(v1')
  BY EditedRow DEF MergeInv, MergeTypes
<1>3. Merge!Pending' = Merge!Pending
  BY <1>1 DEF Merge!Pending, Merge!Ids
<1>4. WarnedInv'
  BY <1>1, <1>3 DEF WarnedInv, Warned
<1>5. QED
  BY <1>1, <1>2, <1>3, <1>4, DisturbedIs DEF MergeInv, MergeTypes, OnePending

\* A decision about an update changes its status.
LEMMA StatusChanged ==
  ASSUME MergeInv, NEW i, Merge!AcceptUpdate(i) \/ Merge!RejectUpdate(i)
  PROVE  /\ AreUpdates(v2') /\ Len(v2') = Len(v2)
         /\ i \in Merge!Pending /\ v2'[i].status # "PENDING"
         /\ \A j \in Merge!Ids \ {i} : v2'[j] = v2[j]
<1>0. PICK status \in {"APPROVED", "REJECTED"} :
        i \in Merge!Pending /\ v2' = [v2 EXCEPT ![i].status = status]
  BY DEF Merge!AcceptUpdate, Merge!RejectUpdate
<1> DEFINE row == [v2[i] EXCEPT !.status = status]
<1>1. AreUpdates(v2) /\ i \in 1..Len(v2)
  BY <1>0 DEF MergeInv, MergeTypes, Merge!Pending, Merge!Ids
<1>2. v2[i] = [status |-> v2[i].status, conflict |-> v2[i].conflict, merged |-> v2[i].merged,
               name |-> v2[i].name, aliases |-> v2[i].aliases, description |-> v2[i].description,
               attribute |-> v2[i].attribute]
  BY <1>1, UpdatesAre DEF IsUpdate
<1>3. row = [status |-> status, conflict |-> v2[i].conflict, merged |-> v2[i].merged,
             name |-> v2[i].name, aliases |-> v2[i].aliases, description |-> v2[i].description,
             attribute |-> v2[i].attribute]
  BY <1>2
<1>4. v2' = [v2 EXCEPT ![i] = row]
  BY <1>0
<1> HIDE DEF row
<1>5. IsUpdate(row) /\ row.status = status
  BY <1>3 DEF IsUpdate
<1>6. PICK T : v2 \in Seq(T)
  BY <1>1 DEF AreUpdates
<1>7. /\ v2' \in Seq(T \cup {row}) /\ Len(v2') = Len(v2)
      /\ v2'[i] = row /\ \A j \in 1..Len(v2) : j # i => v2'[j] = v2[j]
  BY <1>1, <1>4, <1>6
<1>8. \A j \in 1..Len(v2) : v2'[j] \in {row, v2[j]}
  BY <1>7
<1>9. AreUpdates(v2')
  BY <1>1, <1>5, <1>7, <1>8, UpdateReplaced
<1>10. QED
  BY <1>0, <1>5, <1>7, <1>9 DEF Merge!Ids

\* The pending update is decided, and there was no other.
LEMMA DecidedUpdate ==
  ASSUME MergeInv, NEW i \in Merge!Pending, AreUpdates(v2'), Len(v2') = Len(v2),
         v2'[i].status # "PENDING", \A j \in Merge!Ids \ {i} : v2'[j] = v2[j],
         v3' = Merge!Disturbed, IsEntity(v1')
  PROVE  MergeInv'
<1>1. Merge!Pending' = {}
  <2>1. \A j \in Merge!Pending : j = i
    BY DEF MergeInv, OnePending
  <2>2. QED
    BY <2>1 DEF Merge!Pending, Merge!Ids
<1>2. QED
  BY <1>1, DisturbedIs DEF MergeInv, MergeTypes, OnePending, WarnedInv
-----------------------------------------------------------------------------
\* The analysis's steps.
LEMMA StartKeeps ==
  ASSUME MergeInv, Merge!StartAnalysis
  PROVE  MergeInv'
<1> DEFINE first == Merge!FirstPending
           data == IF first = 0 THEN <<>> ELSE v2[first]
<1>1. PICK s : v3' = [running |-> TRUE, entity |-> v1, todo |-> s, disturbed |-> FALSE,
                      update |-> first, data |-> data]
  BY DEF Merge!StartAnalysis
<1>2. UNCHANGED <<v1, v2, v6>>
  BY DEF Merge!StartAnalysis
<1>3. AreUpdates(v2) /\ Merge!Pending \subseteq 1..Len(v2)
  BY DEF MergeInv, MergeTypes, Merge!Pending, Merge!Ids
<1>4. (Merge!Pending = {} /\ first = 0) \/ first \in Merge!Pending
  <2>1. CASE Merge!Pending = {}
    BY <2>1 DEF Merge!FirstPending
  <2>2. CASE Merge!Pending # {}
    <3>1. PICK k \in Merge!Pending : \A j \in Merge!Pending : j = k
      BY <2>2 DEF MergeInv, OnePending
    <3>2. k \in Nat /\ \A j \in Merge!Pending : k <= j
      BY <1>3, <3>1, UpdatesAre
    <3>3. QED
      BY <2>2, <3>1, <3>2 DEF Merge!FirstPending
  <2>3. QED
    BY <2>1, <2>2
<1>5. first \in Nat /\ (first = 0 => Merge!Pending = {}) /\ (first # 0 => first \in Merge!Ids /\ IsUpdate(data))
  <2>1. first # 0 => first \in 1..Len(v2)
    BY <1>3, <1>4
  <2>2. \A i \in 1..Len(v2) : i \in Nat /\ i # 0 /\ IsUpdate(v2[i])
    BY <1>3, UpdatesAre
  <2> HIDE DEF first
  <2>3. first \in Nat /\ (first = 0 => Merge!Pending = {})
    <3>1. CASE Merge!Pending = {} /\ first = 0
      BY <3>1
    <3>2. CASE first \in Merge!Pending
      <4>1. first \in Nat /\ first # 0
        BY <1>3, <2>2, <3>2
      <4>2. QED
        BY <4>1
    <3>3. QED
      BY <1>4, <3>1, <3>2
  <2>4. QED
    BY <2>1, <2>2, <2>3 DEF Merge!Ids
<1> HIDE DEF first, data
<1>6. Merge!Pending' = Merge!Pending /\ Merge!Ids' = Merge!Ids
  BY <1>2 DEF Merge!Pending, Merge!Ids
<1>7. IsMergeJob(v3)'
  BY <1>1, <1>5, <1>6 DEF IsMergeJob
<1>8. OnePending' /\ KnowsEntity'
  BY <1>1, <1>2, <1>5, <1>6 DEF MergeInv, OnePending, KnowsEntity
<1>9. QED
  BY <1>2, <1>6, <1>7, <1>8 DEF MergeInv, MergeTypes, WarnedInv, Warned

LEMMA SkipKeeps ==
  ASSUME MergeInv, NEW one, Merge!SkipCandidate(one)
  PROVE  MergeInv'
<1>1. UNCHANGED <<v1, v2, v6>> /\ v3.running /\ v3' = [v3 EXCEPT !.todo = Tail(@)]
  BY HandlesRunning DEF Merge!SkipCandidate, Merge!Handle
<1>2. v3' = [running |-> TRUE, entity |-> v3.entity, todo |-> Tail(v3.todo),
             disturbed |-> v3.disturbed, update |-> v3.update, data |-> v3.data]
  BY <1>1, JobIs
<1>3. Merge!Pending' = Merge!Pending /\ Merge!Ids' = Merge!Ids
  BY <1>1 DEF Merge!Pending, Merge!Ids
<1>4. IsMergeJob(v3)'
  BY <1>1, <1>2, <1>3, JobIs DEF IsMergeJob
<1>5. OnePending' /\ KnowsEntity'
  BY <1>1, <1>2, <1>3 DEF MergeInv, OnePending, KnowsEntity
<1>6. QED
  BY <1>1, <1>3, <1>4, <1>5 DEF MergeInv, MergeTypes, WarnedInv, Warned

\* A description the entity has already suggests nothing.
LEMMA RepeatSuggestsNothing ==
  ASSUME NEW one \in Extracted
  PROVE  Merge!SuggestedDescription(one.description, one.description) = <<>>
<1> DEFINE text == one.description
<1>1. PICK S : text \in Seq(S)
  BY PartsAssumption DEF Merge!TextsAssumption
<1> HIDE DEF text
<1>2. Len(text) \in Nat /\ SubSeq(text, 1, Len(text)) = text
  BY <1>1
<1>3. Merge!Includes(text, text)
  <2>1. 0 \in 0..Len(text) /\ Len(text) \in 0..Len(text) /\ 0 + 1 = 1
    BY <1>2
  <2>2. QED
    BY <1>2, <2>1 DEF Merge!Includes
<1>4. Merge!SuggestedDescription(text, text) = <<>>
  BY <1>3, Zenon DEF Merge!SuggestedDescription
<1>5. QED
  BY <1>4 DEF text

LEMMA JoinedWithNothing ==
  ASSUME NEW current
  PROVE  Merge!Joined(current, <<>>) = current
<1>1. Merge!Includes(<<>>, current) => current = <<>>
  <2>1. ASSUME NEW i \in 0..Len(<<>>), NEW j \in 0..Len(<<>>), SubSeq(<<>>, i + 1, j) = current
        PROVE  current = <<>>
    <3>1. i = 0 /\ j = 0
      BY <2>1
    <3>2. SubSeq(<<>>, 1, 0) = <<>>
      OBVIOUS
    <3>3. QED
      BY <2>1, <3>1, <3>2
  <2>2. QED
    BY <2>1 DEF Merge!Includes
<1>2. Merge!Joined(current, <<>>) \in {current, <<>>} /\ (current # <<>> => ~Merge!Includes(<<>>, current))
  BY <1>1 DEF Merge!Joined
<1>3. CASE Merge!Includes(<<>>, current)
  BY <1>1, <1>2, <1>3
<1>4. CASE ~Merge!Includes(<<>>, current)
  BY <1>4 DEF Merge!Joined
<1>5. QED
  BY <1>3, <1>4

LEMMA CreateKeeps ==
  ASSUME MergeInv, NEW one \in Extracted, Merge!CreateUpdate(one)
  PROVE  MergeInv' /\ \A i \in Merge!Ids : v2'[i] = v2[i]
<1> DEFINE update == Merge!Update(v3.entity, one)
           row == [status |-> "PENDING", conflict |-> Merge!LockedConflict(v3.entity, one),
                   merged |-> FALSE, name |-> update.name, aliases |-> update.aliases,
                   description |-> update.description, attribute |-> update.attribute]
           new == Len(v2) + 1
<1>1. /\ v1' = v1 /\ v3.running /\ v3.update = 0
      /\ v2' = Append(v2, row)
      /\ v3' = [v3 EXCEPT !.todo = Tail(@), !.update = Len(v2'), !.data = v2'[Len(v2')]]
      /\ v6' = IF v3.disturbed THEN v6 \cup {Len(v2')} ELSE v6
  BY HandlesRunning DEF Merge!CreateUpdate, Merge!Handle
<1>2. AreUpdates(v2)
  BY DEF MergeInv, MergeTypes
<1>3. /\ update.name = v3.entity.name
      /\ update.aliases = one.aliases \ (v3.entity.aliases \cup {v3.entity.name})
      /\ update.description
            = Merge!SuggestedDescription(v3.entity.description, one.description)
      /\ update.attribute = IF one.attribute = v3.entity.attribute THEN None ELSE one.attribute
  BY DEF Merge!Update
<1>4. /\ IsUpdate(row) /\ row.status = "PENDING" /\ row.name = update.name
      /\ row.attribute = update.attribute /\ row.aliases = update.aliases
      /\ row.description = update.description
      /\ row.conflict = Merge!LockedConflict(v3.entity, one)
  BY DEF IsUpdate
<1> HIDE DEF row, update
<1>5. /\ AreUpdates(v2') /\ Len(v2) \in Nat /\ Len(v2') = new /\ v2'[new] = row
      /\ \A i \in 1..Len(v2) : v2'[i] = v2[i]
  BY <1>1, <1>2, <1>4, UpdateAppended, UpdatesAre
<1>6. v3' = [running |-> TRUE, entity |-> v3.entity, todo |-> Tail(v3.todo),
             disturbed |-> v3.disturbed, update |-> new, data |-> row]
  BY <1>1, <1>5, JobIs
<1>7. Merge!Pending' = {new}
  <2>1. Merge!Pending = {}
    BY <1>1 DEF MergeInv, OnePending
  <2>2. \A i \in 1..new : i = new \/ i \in 1..Len(v2)
    BY <1>5
  <2>3. new \in 1..new
    BY <1>5
  <2>4. QED
    BY <1>4, <1>5, <2>1, <2>2, <2>3 DEF Merge!Pending, Merge!Ids
<1>8. IsMergeJob(v3)'
  BY <1>4, <1>5, <1>6 DEF IsMergeJob, Merge!Ids
<1>9. OnePending' /\ KnowsEntity'
  BY <1>1, <1>5, <1>6, <1>7 DEF MergeInv, OnePending, KnowsEntity
<1>10. Warned(new, row, v1', v6')
  <2>1. CASE v3.disturbed
    BY <1>1, <1>5, <2>1 DEF Warned
  <2>2. CASE ~v3.disturbed
    <3>1. v3.entity = v1
      BY <1>1, <2>2 DEF MergeInv, KnowsEntity
    <3>2. ~row.conflict =>
            /\ "attribute" \in v1.locks => one.attribute = None
            /\ "aliases" \in v1.locks => one.aliases \subseteq v1.aliases
            /\ "description" \in v1.locks
                 => one.description = <<>> \/ one.description = v1.description
      BY <1>4, <3>1 DEF Merge!LockedConflict
    <3>3. one.description = <<>> \/ one.description = v1.description
            => row.description = <<>>
      <4>1. one.description = <<>>
              => Merge!SuggestedDescription(v1.description, one.description) = <<>>
        BY Zenon DEF Merge!SuggestedDescription
      <4>2. one.description = v1.description
              => Merge!SuggestedDescription(v1.description, one.description) = <<>>
        BY RepeatSuggestsNothing, Zenon
      <4>3. row.description = Merge!SuggestedDescription(v1.description, one.description)
        BY <1>3, <1>4, <3>1
      <4>4. QED
        BY <4>1, <4>2, <4>3
    <3>4. one.aliases \subseteq v1.aliases => row.aliases = {}
      BY <1>3, <1>4, <3>1
    <3>5. row.name = v1.name /\ (one.attribute = None => row.attribute = None)
      BY <1>3, <1>4, <3>1
    <3>6. Warned(new, row, v1, v6')
      BY <3>2, <3>3, <3>4, <3>5 DEF Warned
    <3>7. QED
      BY <1>1, <3>6
  <2>3. QED
    BY <2>1, <2>2
<1>11. WarnedInv'
  BY <1>5, <1>7, <1>10 DEF WarnedInv
<1>12. QED
  BY <1>1, <1>5, <1>8, <1>9, <1>11 DEF MergeInv, MergeTypes, Merge!Ids

LEMMA MergeKeeps ==
  ASSUME MergeInv, NEW one, Merge!MergeUpdate(one)
  PROVE  MergeInv' /\ \A i \in Merge!Ids : v2'[i].status = v2[i].status
<1> DEFINE k == v3.update
           merge == Merge!MergedUpdate(v3.data, Merge!Update(v3.entity, one))
           row == [merge EXCEPT !.status = v2[k].status, !.merged = TRUE]
<1>1. /\ v1' = v1 /\ v6' = v6 /\ v3.running /\ k # 0
      /\ v2' = [v2 EXCEPT ![k] = row]
      /\ v3' = [v3 EXCEPT !.todo = Tail(@), !.data = v2'[k]]
  BY HandlesRunning DEF Merge!MergeUpdate, Merge!Handle
<1>2. AreUpdates(v2) /\ k \in 1..Len(v2) /\ IsUpdate(v3.data)
  BY <1>1, JobIs DEF MergeInv, MergeTypes, Merge!Ids
<1>3. PICK aliases, description, attribute :
        merge = [v3.data EXCEPT !.aliases = aliases, !.description = description, !.attribute = attribute]
  BY DEF Merge!MergedUpdate
<1>4. row = [status |-> v2[k].status, conflict |-> v3.data.conflict, merged |-> TRUE,
             name |-> v3.data.name, aliases |-> aliases, description |-> description,
             attribute |-> attribute]
  <2>1. v3.data = [status |-> v3.data.status, conflict |-> v3.data.conflict, merged |-> v3.data.merged,
                   name |-> v3.data.name, aliases |-> v3.data.aliases,
                   description |-> v3.data.description, attribute |-> v3.data.attribute]
    BY <1>2 DEF IsUpdate
  <2>2. merge = [status |-> v3.data.status, conflict |-> v3.data.conflict, merged |-> v3.data.merged,
                 name |-> v3.data.name, aliases |-> aliases, description |-> description,
                 attribute |-> attribute]
    BY <1>3, <2>1
  <2>3. row = [[status |-> v3.data.status, conflict |-> v3.data.conflict, merged |-> v3.data.merged,
                name |-> v3.data.name, aliases |-> aliases, description |-> description,
                attribute |-> attribute] EXCEPT !.status = v2[k].status, !.merged = TRUE]
    BY <2>2, Zenon
  <2> HIDE DEF row
  <2>4. QED
    BY <2>3
<1> HIDE DEF row, merge
<1>5. IsUpdate(row) /\ row.status = v2[k].status /\ row.merged
  BY <1>4 DEF IsUpdate
<1>6. /\ AreUpdates(v2') /\ Len(v2') = Len(v2)
      /\ \A i \in 1..Len(v2) : v2'[i] = IF i = k THEN row ELSE v2[i]
  <2>1. PICK T : v2 \in Seq(T)
    BY <1>2 DEF AreUpdates
  <2>2. /\ v2' \in Seq(T \cup {row}) /\ Len(v2') = Len(v2)
        /\ \A i \in 1..Len(v2) : v2'[i] = IF i = k THEN row ELSE v2[i]
    BY <1>1, <1>2, <2>1
  <2>3. QED
    BY <1>2, <1>5, <2>2, UpdateReplaced
<1>7. v3' = [running |-> TRUE, entity |-> v3.entity, todo |-> Tail(v3.todo),
             disturbed |-> v3.disturbed, update |-> k, data |-> row]
  BY <1>1, <1>2, <1>6, JobIs
<1>8. Merge!Pending' = Merge!Pending /\ Merge!Ids' = Merge!Ids
  BY <1>2, <1>5, <1>6 DEF Merge!Pending, Merge!Ids
<1>9. IsMergeJob(v3)'
  <2>1. k \in Nat /\ k \in Merge!Ids
    BY <1>1, JobIs
  <2> HIDE DEF k
  <2>2. QED
    BY <1>5, <1>7, <1>8, <2>1 DEF IsMergeJob
<1>10. OnePending' /\ KnowsEntity'
  BY <1>1, <1>7, <1>8 DEF MergeInv, OnePending, KnowsEntity
<1>11. WarnedInv'
  BY <1>1, <1>5, <1>6, <1>8 DEF MergeInv, WarnedInv, Warned, Merge!Pending, Merge!Ids
<1>12. QED
  BY <1>1, <1>5, <1>6, <1>9, <1>10, <1>11 DEF MergeInv, MergeTypes, Merge!Ids
-----------------------------------------------------------------------------
LEMMA MergeStep ==
  ASSUME MergeInv, Merge!Next \/ UNCHANGED <<v1, v2, v3, v4, v5, v6>>
  PROVE  MergeInv' /\ Merge!LockedIsWarned
<1>1. CASE UNCHANGED <<v1, v2, v3, v4, v5, v6>>
  BY <1>1 DEF MergeInv, MergeTypes, OnePending, KnowsEntity, WarnedInv, Warned, IsMergeJob,
              Merge!Pending, Merge!Ids, Merge!LockedIsWarned
<1>2. CASE Merge!StartAnalysis
  BY <1>2, StartKeeps DEF Merge!StartAnalysis, Merge!LockedIsWarned
<1>3. ASSUME NEW one, Merge!SkipCandidate(one)
      PROVE  MergeInv' /\ Merge!LockedIsWarned
  BY <1>3, SkipKeeps DEF Merge!SkipCandidate, Merge!LockedIsWarned
<1>4. ASSUME NEW one \in Extracted, Merge!CreateUpdate(one)
      PROVE  MergeInv' /\ Merge!LockedIsWarned
  BY <1>4, CreateKeeps DEF Merge!LockedIsWarned
<1>5. ASSUME NEW one, Merge!MergeUpdate(one)
      PROVE  MergeInv' /\ Merge!LockedIsWarned
  BY <1>5, MergeKeeps DEF Merge!LockedIsWarned
<1>6. CASE Merge!EndAnalysis
  <2>1. UNCHANGED <<v1, v2, v6>> /\ v3' = Merge!Idle
    BY <1>6 DEF Merge!EndAnalysis
  <2>2. IsMergeJob(v3)' /\ ~v3'.running
    BY <2>1 DEF IsMergeJob, Merge!Idle
  <2>3. Merge!Pending' = Merge!Pending
    BY <2>1 DEF Merge!Pending, Merge!Ids
  <2>4. QED
    BY <2>1, <2>2, <2>3 DEF MergeInv, MergeTypes, OnePending, KnowsEntity, WarnedInv, Warned,
                            Merge!LockedIsWarned
<1>7. CASE Merge!EditEntity
  BY <1>7, EditKeeps DEF Merge!EditEntity, Merge!LockedIsWarned
<1>8. ASSUME NEW i, Merge!AcceptUpdate(i)
      PROVE  MergeInv' /\ Merge!LockedIsWarned
  <2>1. /\ i \in Merge!Pending /\ v3' = Merge!Disturbed
        /\ v1' = [v1 EXCEPT !.name = v2[i].name, !.aliases = @ \cup v2[i].aliases,
                            !.description = Merge!Joined(@, v2[i].description),
                            !.attribute = IF v2[i].attribute = None THEN @ ELSE v2[i].attribute]
    BY <1>8 DEF Merge!AcceptUpdate
  <2>2. v1 = [name |-> v1.name, aliases |-> v1.aliases, description |-> v1.description,
              attribute |-> v1.attribute, locks |-> v1.locks]
    BY DEF MergeInv, MergeTypes, IsEntity
  <2>3. v1' = [name |-> v2[i].name, aliases |-> v1.aliases \cup v2[i].aliases,
               description |-> Merge!Joined(v1.description, v2[i].description),
               attribute |-> IF v2[i].attribute = None THEN v1.attribute ELSE v2[i].attribute,
               locks |-> v1.locks]
    BY <2>1, <2>2
  <2>4. IsEntity(v1')
    BY <2>3 DEF IsEntity
  <2>5. /\ AreUpdates(v2') /\ Len(v2') = Len(v2) /\ v2'[i].status # "PENDING"
        /\ \A j \in Merge!Ids \ {i} : v2'[j] = v2[j]
    BY <1>8, StatusChanged
  <2>6. Warned(i, v2[i], v1, v6)
    BY <2>1 DEF MergeInv, WarnedInv
  <2>7. Merge!LockedIsWarned
    <3>1. v2[i].aliases = {} => v1'.aliases = v1.aliases
      BY <2>3
    <3>2. v2[i].description = <<>> => v1'.description = v1.description
      <4>1. v2[i].description = <<>>
              => Merge!Joined(v1.description, v2[i].description) = v1.description
        BY JoinedWithNothing
      <4>2. QED
        BY <2>3, <4>1
    <3>3. /\ v2[i].name = v1.name => v1'.name = v1.name
          /\ v2[i].attribute = None => v1'.attribute = v1.attribute
      BY <2>3
    <3>4. \A j \in Merge!Ids : j # i => ~(v2[j].status = "PENDING" /\ v2'[j].status = "APPROVED")
      BY <2>5
    <3>5. ASSUME \/ "name" \in v1.locks /\ v1'.name # v1.name
                 \/ "attribute" \in v1.locks /\ v1'.attribute # v1.attribute
                 \/ "description" \in v1.locks /\ v1'.description # v1.description
                 \/ "aliases" \in v1.locks /\ v1'.aliases # v1.aliases
          PROVE  v2[i].conflict \/ v2[i].merged \/ i \in v6
      BY <2>6, <3>1, <3>2, <3>3, <3>5, Zenon DEF Warned
    <3>6. QED
      BY <3>4, <3>5, Zenon DEF Merge!LockedIsWarned
  <2>8. MergeInv'
    BY <2>1, <2>4, <2>5, DecidedUpdate
  <2>9. QED
    BY <2>7, <2>8
<1>9. ASSUME NEW i, Merge!RejectUpdate(i)
      PROVE  MergeInv' /\ Merge!LockedIsWarned
  <2>1. /\ i \in Merge!Pending /\ v3' = Merge!Disturbed
        /\ v1' = v1
    BY <1>9 DEF Merge!RejectUpdate
  <2>2. /\ AreUpdates(v2') /\ Len(v2') = Len(v2) /\ v2'[i].status # "PENDING"
        /\ \A j \in Merge!Ids \ {i} : v2'[j] = v2[j]
    BY <1>9, StatusChanged
  <2>3. IsEntity(v1')
    BY <2>1 DEF MergeInv, MergeTypes
  <2>4. MergeInv'
    BY <2>1, <2>2, <2>3, DecidedUpdate
  <2>5. QED
    BY <2>1, <2>4 DEF Merge!LockedIsWarned
<1>10. QED
  BY <1>1, <1>2, <1>3, <1>4, <1>5, <1>6, <1>7, <1>8, <1>9 DEF Merge!Next

\* For any number of updates and candidates, acceptance changes a value the author had
\* locked without a warning only when the update waited before the lock, was written from
\* an older reading, or was merged into an earlier one (conflictsWithLocked).
THEOREM LocksAreHonoured == Spec => LockedValueIsWarned
<1> DEFINE Inv == part = "knowledge" => MergeInv
<1>1. Init => Inv
  BY PartInit, MergeStart
<1>2. Inv /\ [Next]_vars => Inv'
  BY PartNext, MergeStep
<1>3. Inv /\ [Next]_vars => [part = "knowledge" => Merge!LockedIsWarned]_vars
  BY PartNext, MergeStep
<1>4. QED
  BY <1>1, <1>2, <1>3, PTL DEF Spec, LockedValueIsWarned
-----------------------------------------------------------------------------
(* KnowledgeMerge: v5 is what was heard of the entity.  What the entity    *)
(* and its updates say only grows (Told), and an analysis knows the update *)
(* it writes as it is, but for its status (KnowsUpdate).                   *)

IsText(text) == \E S : text \in Seq(S)

Told ==
  v1.aliases \cup Merge!Range(v1.description)
  \cup UNION {v2[i].aliases \cup Merge!Range(v2[i].description) : i \in Merge!Ids}

TextsAreTexts ==
  /\ IsText(v1.description) /\ \A i \in Merge!Ids : IsText(v2[i].description)
  /\ v3.running => IsText(v3.entity.description)

KnowsUpdate ==
  v3.running /\ v3.update # 0 =>
    /\ v3.data.aliases = v2[v3.update].aliases
    /\ v3.data.description = v2[v3.update].description

FactsInv == MergeInv /\ TextsAreTexts /\ KnowsUpdate /\ v5 \subseteq Told

\* What is included says nothing else.
LEMMA IncludedSaysLess ==
  ASSUME NEW text, IsText(text), NEW more, Merge!Includes(text, more)
  PROVE  Merge!Range(more) \subseteq Merge!Range(text)
<1>1. PICK S : text \in Seq(S)
  BY DEF IsText
<1>2. PICK i \in 0..Len(text), j \in 0..Len(text) : SubSeq(text, i + 1, j) = more
  BY DEF Merge!Includes
<1>3. ASSUME NEW k \in DOMAIN more
      PROVE  more[k] \in Merge!Range(text)
  <2>1. /\ DOMAIN more = 1..(j - i)
        /\ \A l \in 1..(j - i) : more[l] = text[i + l]
    BY <1>1, <1>2
  <2>2. i + k \in 1..Len(text) /\ more[k] = text[i + k]
    BY <1>1, <1>3, <2>1
  <2>3. DOMAIN text = 1..Len(text)
    BY <1>1
  <2>4. QED
    BY <2>2, <2>3 DEF Merge!Range
<1>4. QED
  BY <1>3 DEF Merge!Range

LEMMA JoinedTexts ==
  ASSUME NEW first, IsText(first), NEW second, IsText(second)
  PROVE  /\ IsText(first \o second)
         /\ Merge!Range(first) \subseteq Merge!Range(first \o second)
         /\ Merge!Range(second) \subseteq Merge!Range(first \o second)
<1>1. PICK S, T : first \in Seq(S) /\ second \in Seq(T)
  BY DEF IsText
<1>2. first \in Seq(S \cup T) /\ second \in Seq(S \cup T)
  BY <1>1
<1>3. /\ first \o second \in Seq(S \cup T)
      /\ Len(first \o second) = Len(first) + Len(second)
      /\ \A k \in 1..Len(first) : (first \o second)[k] = first[k]
      /\ \A k \in 1..Len(second) : (first \o second)[Len(first) + k] = second[k]
  BY <1>2
<1>4. /\ Len(first) \in Nat /\ Len(second) \in Nat
      /\ DOMAIN first = 1..Len(first) /\ DOMAIN second = 1..Len(second)
      /\ DOMAIN (first \o second) = 1..(Len(first) + Len(second))
  BY <1>1, <1>3
<1>5. ASSUME NEW k \in DOMAIN first
      PROVE  k \in DOMAIN (first \o second) /\ first[k] = (first \o second)[k]
  BY <1>3, <1>4
<1>6. ASSUME NEW k \in DOMAIN second
      PROVE  Len(first) + k \in DOMAIN (first \o second) /\ second[k] = (first \o second)[Len(first) + k]
  BY <1>3, <1>4
<1>7. IsText(first \o second)
  BY <1>3 DEF IsText
<1>8. Merge!Range(first) \subseteq Merge!Range(first \o second)
  BY <1>5 DEF Merge!Range
<1>9. Merge!Range(second) \subseteq Merge!Range(first \o second)
  BY <1>6 DEF Merge!Range
<1>10. QED
  BY <1>7, <1>8, <1>9

LEMMA EmptyText == IsText(<<>>) /\ Merge!Range(<<>>) = {}
<1>1. <<>> \in Seq({}) /\ DOMAIN <<>> = {}
  OBVIOUS
<1>2. QED
  BY <1>1 DEF IsText, Merge!Range

\* At acceptance a description keeps what it said.
LEMMA AcceptedKeepsText ==
  ASSUME NEW current, IsText(current), NEW suggested, IsText(suggested)
  PROVE  /\ IsText(Merge!Joined(current, suggested))
         /\ Merge!Range(current) \subseteq Merge!Range(Merge!Joined(current, suggested))
<1>1. Merge!Joined(current, suggested) \in {current, suggested, current \o suggested}
  BY DEF Merge!Joined
<1>2. CASE Merge!Joined(current, suggested) = current
  BY <1>2
<1>3. CASE Merge!Joined(current, suggested) = current \o suggested
  BY <1>3, JoinedTexts
<1>4. CASE Merge!Joined(current, suggested) = suggested /\ Merge!Includes(suggested, current)
  BY <1>4, IncludedSaysLess
<1>5. QED
  BY <1>2, <1>3, <1>4 DEF Merge!Joined

\* What an update suggests is what the candidate says, unless it says nothing new.
LEMMA SuggestedIs ==
  ASSUME NEW current, IsText(current), NEW incoming, IsText(incoming)
  PROVE  LET suggested == Merge!SuggestedDescription(current, incoming) IN
         /\ IsText(suggested)
         /\ \/ suggested = incoming
            \/ suggested = <<>> /\ Merge!Range(incoming) \subseteq Merge!Range(current)
            \/ suggested = <<>> /\ current # <<>> /\ Merge!Includes(incoming, current)
<1> DEFINE suggested == Merge!SuggestedDescription(current, incoming)
<1>1. \/ suggested = incoming
      \/ suggested = <<>> /\ incoming = <<>>
      \/ suggested = <<>> /\ Merge!Includes(current, incoming)
      \/ suggested = <<>> /\ current # <<>> /\ Merge!Includes(incoming, current)
  BY DEF Merge!SuggestedDescription
<1>2. IsText(suggested)
  BY <1>1, EmptyText
<1> HIDE DEF suggested
<1>3. \/ suggested = incoming
      \/ suggested = <<>> /\ Merge!Range(incoming) \subseteq Merge!Range(current)
      \/ suggested = <<>> /\ current # <<>> /\ Merge!Includes(incoming, current)
  BY <1>1, EmptyText, IncludedSaysLess
<1>4. QED
  BY <1>2, <1>3 DEF suggested

\* While it waits, an update keeps what it says and takes what comes.
LEMMA CombinedKeepsText ==
  ASSUME NEW current, IsText(current), NEW incoming, IsText(incoming)
  PROVE  LET combined == Merge!Combined(current, incoming) IN
         /\ IsText(combined) /\ Merge!Range(current) \subseteq Merge!Range(combined)
         /\ \/ Merge!Range(incoming) \subseteq Merge!Range(combined)
            \/ current # <<>> /\ Merge!Includes(incoming, current)
<1> DEFINE combined == Merge!Combined(current, incoming)
<1>1. \/ combined = current /\ incoming = <<>>
      \/ combined = incoming /\ current = <<>>
      \/ combined = current /\ Merge!Includes(current, incoming)
      \/ combined = current /\ current # <<>> /\ Merge!Includes(incoming, current)
      \/ combined = current \o incoming
  BY DEF Merge!Combined
<1> HIDE DEF combined
<1>2. /\ IsText(combined) /\ Merge!Range(current) \subseteq Merge!Range(combined)
      /\ \/ Merge!Range(incoming) \subseteq Merge!Range(combined)
         \/ current # <<>> /\ Merge!Includes(incoming, current)
  BY <1>1, EmptyText, IncludedSaysLess, JoinedTexts
<1>3. QED
  BY <1>2 DEF combined

LEMMA CandidatesAreTexts ==
  ASSUME NEW one \in Extracted
  PROVE  IsText(one.description)
BY PartsAssumption DEF Merge!TextsAssumption, IsText

LEMMA ToldGrows ==
  ASSUME v1.aliases \subseteq v1'.aliases,
         Merge!Range(v1.description) \subseteq Merge!Range(v1'.description),
         \A i \in Merge!Ids : /\ i \in Merge!Ids'
                              /\ v2[i].aliases \subseteq v2'[i].aliases
                              /\ Merge!Range(v2[i].description) \subseteq Merge!Range(v2'[i].description)
  PROVE  Told \subseteq Told'
<1>1. ASSUME NEW i \in Merge!Ids, NEW fact \in v2[i].aliases \cup Merge!Range(v2[i].description)
      PROVE  fact \in Told'
  <2>1. i \in Merge!Ids' /\ fact \in v2'[i].aliases \cup Merge!Range(v2'[i].description)
    OBVIOUS
  <2>2. QED
    BY <2>1 DEF Told, Merge!Range
<1>2. v1'.aliases \subseteq Told' /\ Merge!Range(v1'.description) \subseteq Told'
  BY DEF Told, Merge!Range
<1>3. QED
  BY <1>1, <1>2 DEF Told

LEMMA TellsItself ==
  /\ v1.aliases \subseteq Told /\ Merge!Range(v1.description) \subseteq Told
  /\ \A i \in Merge!Ids : v2[i].aliases \subseteq Told /\ Merge!Range(v2[i].description) \subseteq Told
BY DEF Told

LEMMA FactsStart ==
  ASSUME Merge!Init
  PROVE  FactsInv
<1>1. v2 = <<>> /\ v3 = Merge!Idle /\ v5 = {}
  BY DEF Merge!Init
<1>2. Merge!Ids = {} /\ ~v3.running
  BY <1>1 DEF Merge!Ids, Merge!Idle
<1>3. IsText(v1.description)
  <2>1. v1.description \in {<<>>} \cup {one.description : one \in Extracted}
    BY DEF Merge!Init
  <2>2. QED
    BY <2>1, EmptyText, CandidatesAreTexts
<1>4. QED
  BY <1>1, <1>2, <1>3, MergeStart DEF FactsInv, TextsAreTexts, KnowsUpdate

\* What a candidate says of the entity is in what the entity says already, in the update
\* it makes, or repeats a known text.
LEMMA SaidIsTold ==
  ASSUME FactsInv, v3.running, ~v3.disturbed, NEW one \in Extracted,
         NEW known, v1.description \in known, NEW T,
         v1.aliases \subseteq T, Merge!Range(v1.description) \subseteq T,
         NEW update, update = Merge!Update(v3.entity, one), update.aliases \subseteq T,
         \/ Merge!Range(update.description) \subseteq T
         \/ \E d \in known : d # <<>> /\ Merge!Includes(update.description, d)
  PROVE  Merge!Said(one, v3.entity.name, known) \subseteq T
<1> DEFINE repeats == \E d \in known : d # <<>> /\ Merge!Includes(one.description, d)
<1>1. v3.entity = v1
  BY DEF FactsInv, MergeInv, KnowsEntity
<1>2. one.aliases \ {v3.entity.name} \subseteq T
  BY <1>1 DEF Merge!Update
<1>3. update.description = Merge!SuggestedDescription(v1.description, one.description)
  BY <1>1 DEF Merge!Update
<1>4. IsText(v1.description) /\ IsText(one.description)
  BY CandidatesAreTexts DEF FactsInv, TextsAreTexts
<1>5. \/ update.description = one.description
      \/ Merge!Range(one.description) \subseteq Merge!Range(v1.description)
      \/ v1.description # <<>> /\ Merge!Includes(one.description, v1.description)
  BY <1>3, <1>4, SuggestedIs
<1>6. repeats \/ Merge!Range(one.description) \subseteq T
  BY <1>5
<1>7. QED
  BY <1>2, <1>6 DEF Merge!Said

LEMMA FactsSkip ==
  ASSUME FactsInv, NEW one \in Extracted, Merge!SkipCandidate(one)
  PROVE  FactsInv'
<1> DEFINE update == Merge!Update(v3.entity, one)
           known == {v3.entity.description}
                    \cup IF v3.update = 0 THEN {} ELSE {v3.data.description}
<1>1. /\ UNCHANGED <<v1, v2>> /\ v3.running /\ v3' = [v3 EXCEPT !.todo = Tail(@)]
      /\ v5' = IF v3.disturbed THEN v5 ELSE v5 \cup Merge!Said(one, v3.entity.name, known)
      /\ update.aliases = {} /\ update.description = <<>>
  BY HandlesRunning DEF FactsInv, Merge!SkipCandidate, Merge!Handle, Merge!Empty
<1>2. MergeInv'
  BY SkipKeeps DEF FactsInv
<1>3. v3' = [running |-> TRUE, entity |-> v3.entity, todo |-> Tail(v3.todo),
             disturbed |-> v3.disturbed, update |-> v3.update, data |-> v3.data]
  BY <1>1, JobIs DEF FactsInv
<1>4. Merge!Ids' = Merge!Ids /\ Told' = Told
  BY <1>1 DEF Merge!Ids, Told, Merge!Range
<1>5. TextsAreTexts' /\ KnowsUpdate'
  BY <1>1, <1>3, <1>4 DEF FactsInv, TextsAreTexts, KnowsUpdate
<1>6. v5' \subseteq Told'
  <2>1. CASE v3.disturbed
    BY <1>1, <1>4, <2>1 DEF FactsInv
  <2>2. CASE ~v3.disturbed
    <3>1. v1.description \in known
      BY <1>1, <2>2 DEF FactsInv, MergeInv, KnowsEntity
    <3>2. update.aliases \subseteq Told /\ Merge!Range(update.description) \subseteq Told
      BY <1>1, EmptyText
    <3> HIDE DEF update, known
    <3>3. Merge!Said(one, v3.entity.name, known) \subseteq Told
      <4>1. update = Merge!Update(v3.entity, one)
        BY DEF update
      <4>2. QED
        BY <1>1, <2>2, <3>1, <3>2, <4>1, TellsItself, SaidIsTold
    <3>4. QED
      BY <1>1, <1>4, <2>2, <3>3 DEF FactsInv
  <2>3. QED
    BY <2>1, <2>2
<1>7. QED
  BY <1>2, <1>5, <1>6 DEF FactsInv

LEMMA FactsCreate ==
  ASSUME FactsInv, NEW one \in Extracted, Merge!CreateUpdate(one)
  PROVE  FactsInv'
<1> DEFINE update == Merge!Update(v3.entity, one)
           row == [status |-> "PENDING", conflict |-> Merge!LockedConflict(v3.entity, one),
                   merged |-> FALSE, name |-> update.name, aliases |-> update.aliases,
                   description |-> update.description, attribute |-> update.attribute]
           known == {v3.entity.description}
                    \cup IF v3.update = 0 THEN {} ELSE {v3.data.description}
           new == Len(v2) + 1
<1>1. /\ v1' = v1 /\ v3.running
      /\ v2' = Append(v2, row)
      /\ v3' = [v3 EXCEPT !.todo = Tail(@), !.update = Len(v2'), !.data = v2'[Len(v2')]]
      /\ v5' = IF v3.disturbed THEN v5 ELSE v5 \cup Merge!Said(one, v3.entity.name, known)
  BY HandlesRunning DEF FactsInv, Merge!CreateUpdate, Merge!Handle
<1>2. MergeInv'
  BY CreateKeeps DEF FactsInv
<1>3. IsUpdate(row) /\ row.aliases = update.aliases /\ row.description = update.description
  BY DEF IsUpdate
<1>4. update.description = Merge!SuggestedDescription(v3.entity.description, one.description)
  BY DEF Merge!Update
<1> HIDE DEF row, update, known
<1>5. /\ Len(v2) \in Nat /\ Len(v2') = new /\ v2'[new] = row
      /\ \A i \in 1..Len(v2) : v2'[i] = v2[i]
  BY <1>1, <1>3, UpdateAppended, UpdatesAre DEF FactsInv, MergeInv, MergeTypes
<1>6. /\ new \in Merge!Ids' /\ Merge!Ids \subseteq Merge!Ids'
      /\ \A i \in Merge!Ids' : i = new \/ i \in Merge!Ids
  BY <1>5 DEF Merge!Ids
<1>7. v3' = [running |-> TRUE, entity |-> v3.entity, todo |-> Tail(v3.todo),
             disturbed |-> v3.disturbed, update |-> new, data |-> row]
  BY <1>1, <1>5, JobIs DEF FactsInv
<1>8. Told \subseteq Told'
  BY <1>1, <1>5, <1>6, ToldGrows DEF Merge!Ids
<1>9. v1' = v1 /\ update.aliases \subseteq Told' /\ Merge!Range(update.description) \subseteq Told'
  BY <1>1, <1>3, <1>5, <1>6 DEF Told, Merge!Range
<1>10. KnowsUpdate'
  BY <1>5, <1>7 DEF KnowsUpdate
<1>11. v5' \subseteq Told'
  <2>1. CASE v3.disturbed
    BY <1>1, <1>8, <2>1 DEF FactsInv
  <2>2. CASE ~v3.disturbed
    <3>1. v1.description \in known
      BY <1>1, <2>2 DEF known, FactsInv, MergeInv, KnowsEntity
    <3>2. update = Merge!Update(v3.entity, one)
      BY DEF update
    <3>3. v1.aliases \subseteq Told' /\ Merge!Range(v1.description) \subseteq Told'
      BY <1>8, TellsItself
    <3>4. Merge!Said(one, v3.entity.name, known) \subseteq Told'
      BY <1>1, <1>9, <2>2, <3>1, <3>2, <3>3, SaidIsTold
    <3>5. QED
      BY <1>1, <1>8, <2>2, <3>4 DEF FactsInv
  <2>3. QED
    BY <2>1, <2>2
<1>12. TextsAreTexts'
  <2>1. IsText(v3.entity.description) /\ IsText(one.description)
    BY <1>1, CandidatesAreTexts DEF FactsInv, TextsAreTexts
  <2>2. IsText(update.description)
    BY <1>4, <2>1, SuggestedIs
  <2>3. \A i \in Merge!Ids' : IsText(v2'[i].description)
    BY <1>3, <1>5, <1>6, <2>2 DEF FactsInv, TextsAreTexts, Merge!Ids
  <2>4. QED
    BY <1>1, <1>7, <2>1, <2>3 DEF FactsInv, TextsAreTexts
<1>13. QED
  BY <1>2, <1>10, <1>11, <1>12 DEF FactsInv

LEMMA FactsMerge ==
  ASSUME FactsInv, NEW one \in Extracted, Merge!MergeUpdate(one)
  PROVE  FactsInv'
<1> DEFINE update == Merge!Update(v3.entity, one)
           known == {v3.entity.description}
                    \cup IF v3.update = 0 THEN {} ELSE {v3.data.description}
           k == v3.update
           description == Merge!Combined(v3.data.description, update.description)
           merge == Merge!MergedUpdate(v3.data, update)
           row == [merge EXCEPT !.status = v2[k].status, !.merged = TRUE]
<1>1. /\ v1' = v1 /\ v3.running /\ k # 0
      /\ v2' = [v2 EXCEPT ![k] = row]
      /\ v3' = [v3 EXCEPT !.todo = Tail(@), !.data = v2'[k]]
      /\ v5' = IF v3.disturbed THEN v5 ELSE v5 \cup Merge!Said(one, v3.entity.name, known)
  BY HandlesRunning DEF FactsInv, Merge!MergeUpdate, Merge!Handle
<1>2. MergeInv'
  BY MergeKeeps DEF FactsInv
<1>3. AreUpdates(v2) /\ k \in 1..Len(v2) /\ IsUpdate(v3.data)
  BY <1>1, JobIs DEF FactsInv, MergeInv, MergeTypes, Merge!Ids
<1>4. row.aliases = v3.data.aliases \cup update.aliases /\ row.description = description
  <2>1. v3.data = [status |-> v3.data.status, conflict |-> v3.data.conflict, merged |-> v3.data.merged,
                   name |-> v3.data.name, aliases |-> v3.data.aliases,
                   description |-> v3.data.description, attribute |-> v3.data.attribute]
    BY <1>3 DEF IsUpdate
  <2> DEFINE attribute == IF update.attribute = None THEN v3.data.attribute ELSE update.attribute
  <2>2. merge = [v3.data EXCEPT !.aliases = v3.data.aliases \cup update.aliases,
                                !.description = description, !.attribute = attribute]
    BY DEF Merge!MergedUpdate
  <2> HIDE DEF update, description, merge, attribute
  <2>3. merge = [status |-> v3.data.status, conflict |-> v3.data.conflict, merged |-> v3.data.merged,
                 name |-> v3.data.name, aliases |-> v3.data.aliases \cup update.aliases,
                 description |-> description, attribute |-> attribute]
    BY <2>1, <2>2
  <2>4. QED
    BY <2>3
<1>5. update.description = Merge!SuggestedDescription(v3.entity.description, one.description)
  BY DEF Merge!Update
<1>6. v3.data.aliases = v2[k].aliases /\ v3.data.description = v2[k].description
  BY <1>1 DEF FactsInv, KnowsUpdate
<1> HIDE DEF row, update, merge
<1>7. /\ Len(v2) \in Nat /\ Len(v2') = Len(v2)
      /\ \A i \in 1..Len(v2) : v2'[i] = IF i = k THEN row ELSE v2[i]
  BY <1>1, <1>3 DEF AreUpdates
<1>8. v3' = [running |-> TRUE, entity |-> v3.entity, todo |-> Tail(v3.todo),
             disturbed |-> v3.disturbed, update |-> k, data |-> row]
  BY <1>1, <1>3, <1>7, JobIs DEF FactsInv
<1>9. k \in Merge!Ids /\ Merge!Ids' = Merge!Ids
  BY <1>3, <1>7 DEF Merge!Ids
<1>10. IsText(v3.data.description) /\ IsText(update.description)
  BY <1>1, <1>5, <1>6, <1>9, CandidatesAreTexts, SuggestedIs DEF FactsInv, TextsAreTexts
<1>11. /\ IsText(description) /\ Merge!Range(v3.data.description) \subseteq Merge!Range(description)
       /\ \/ Merge!Range(update.description) \subseteq Merge!Range(description)
          \/ v3.data.description # <<>> /\ Merge!Includes(update.description, v3.data.description)
  BY <1>10, CombinedKeepsText
<1> HIDE DEF description
<1>12. Told \subseteq Told'
  BY <1>1, <1>4, <1>6, <1>7, <1>9, <1>11, ToldGrows DEF Merge!Ids
<1>13. update.aliases \subseteq Told' /\ Merge!Range(description) \subseteq Told'
  <2>1. v2'[k] = row /\ k \in Merge!Ids'
    BY <1>3, <1>7, <1>9
  <2>2. row.aliases \subseteq Told' /\ Merge!Range(row.description) \subseteq Told'
    BY <2>1 DEF Told, Merge!Range
  <2>3. QED
    BY <1>4, <2>2
<1>14. KnowsUpdate'
  BY <1>3, <1>7, <1>8 DEF KnowsUpdate
<1>15. TextsAreTexts'
  <2>1. \A i \in Merge!Ids' : IsText(v2'[i].description)
    BY <1>4, <1>7, <1>9, <1>11 DEF FactsInv, TextsAreTexts, Merge!Ids
  <2>2. QED
    BY <1>1, <1>8, <2>1 DEF FactsInv, TextsAreTexts
<1>16. v5' \subseteq Told'
  <2>1. CASE v3.disturbed
    BY <1>1, <1>12, <2>1 DEF FactsInv
  <2>2. CASE ~v3.disturbed
    <3>1. v1.description \in known /\ v3.data.description \in known
      BY <1>1, <2>2 DEF FactsInv, MergeInv, KnowsEntity
    <3>2. update = Merge!Update(v3.entity, one)
      BY DEF update
    <3>3. v1.aliases \subseteq Told' /\ Merge!Range(v1.description) \subseteq Told'
      BY <1>12, TellsItself
    <3> HIDE DEF known
    <3>4. \/ Merge!Range(update.description) \subseteq Told'
          \/ \E d \in known : d # <<>> /\ Merge!Includes(update.description, d)
      BY <1>11, <1>13, <3>1
    <3>5. Merge!Said(one, v3.entity.name, known) \subseteq Told'
      BY <1>1, <1>13, <2>2, <3>1, <3>2, <3>3, <3>4, SaidIsTold
    <3>6. QED
      BY <1>1, <1>12, <2>2, <3>5 DEF FactsInv
  <2>3. QED
    BY <2>1, <2>2
<1>17. QED
  BY <1>2, <1>14, <1>15, <1>16 DEF FactsInv

LEMMA FactsStartAnalysis ==
  ASSUME FactsInv, Merge!StartAnalysis
  PROVE  FactsInv'
<1>1. /\ UNCHANGED <<v1, v2, v5>>
      /\ \E s : v3' = [running |-> TRUE, entity |-> v1, todo |-> s, disturbed |-> FALSE,
                       update |-> Merge!FirstPending,
                       data |-> IF Merge!FirstPending = 0 THEN <<>> ELSE v2[Merge!FirstPending]]
  BY DEF Merge!StartAnalysis
<1>2. MergeInv'
  BY StartKeeps DEF FactsInv
<1>3. Merge!Ids' = Merge!Ids /\ Told' = Told
  BY <1>1 DEF Merge!Ids, Told, Merge!Range
<1>4. KnowsUpdate'
  BY <1>1 DEF KnowsUpdate
<1>5. QED
  BY <1>1, <1>2, <1>3, <1>4 DEF FactsInv, TextsAreTexts

\* Whatever the author does, the copies of an analysis under way stay as they are.
LEMMA DisturbedFacts ==
  ASSUME MergeInv, TextsAreTexts, KnowsUpdate, v3' = Merge!Disturbed, Len(v2') = Len(v2),
         \A i \in Merge!Ids : /\ v2'[i].aliases = v2[i].aliases
                              /\ v2'[i].description = v2[i].description,
         IsText(v1'.description)
  PROVE  KnowsUpdate' /\ TextsAreTexts'
<1>1. Merge!Ids' = Merge!Ids
  BY DEF Merge!Ids
<1>3. /\ v3'.running => v3.running
      /\ v3.running => /\ v3'.entity = v3.entity /\ v3'.update = v3.update
                       /\ v3'.data = v3.data
  <2>1. CASE v3.running
    BY <2>1, JobIs DEF Merge!Disturbed
  <2>2. CASE ~v3.running
    BY <2>2 DEF Merge!Disturbed
  <2>3. QED
    BY <2>1, <2>2
<1>4. KnowsUpdate'
  <2>1. ASSUME v3'.running, v3'.update # 0
        PROVE  /\ v3'.data.aliases = v2'[v3'.update].aliases
               /\ v3'.data.description = v2'[v3'.update].description
    <3>1. v3.running /\ v3.update # 0 /\ v3'.update = v3.update /\ v3'.data = v3.data
      BY <1>3, <2>1
    <3>2. v3.update \in Merge!Ids
      BY <3>1, JobIs
    <3>3. v3.data.aliases = v2[v3.update].aliases /\ v3.data.description = v2[v3.update].description
      BY <3>1 DEF KnowsUpdate
    <3>4. QED
      BY <3>1, <3>2, <3>3
  <2>2. QED
    BY <2>1 DEF KnowsUpdate
<1>5. TextsAreTexts'
  BY <1>1, <1>3 DEF TextsAreTexts
<1>6. QED
  BY <1>4, <1>5

\* A decision leaves what the updates say, and adds to what the entity says.
LEMMA FactsDecided ==
  ASSUME FactsInv, MergeInv', v3' = Merge!Disturbed, v5' = v5, Len(v2') = Len(v2),
         \A i \in Merge!Ids : /\ v2'[i].aliases = v2[i].aliases
                              /\ v2'[i].description = v2[i].description,
         v1.aliases \subseteq v1'.aliases, IsText(v1'.description),
         Merge!Range(v1.description) \subseteq Merge!Range(v1'.description)
  PROVE  FactsInv'
<1>1. Merge!Ids' = Merge!Ids
  BY DEF Merge!Ids
<1>2. Told \subseteq Told'
  BY <1>1, ToldGrows
<1>3. KnowsUpdate' /\ TextsAreTexts'
  BY DisturbedFacts DEF FactsInv
<1>4. QED
  BY <1>2, <1>3 DEF FactsInv

LEMMA FactsEdit ==
  ASSUME FactsInv, Merge!EditEntity
  PROVE  FactsInv'
<1>0. MergeInv /\ MergeInv' /\ IsEntity(v1)
  BY EditKeeps DEF FactsInv, MergeInv, MergeTypes
<1>1. v2' = v2 /\ v3' = Merge!Disturbed
  <2>1. v2' = v2
    BY Zenon DEF Merge!EditEntity
  <2>2. v3' = Merge!Disturbed
    BY Zenon DEF Merge!EditEntity
  <2>3. QED
    BY <2>1, <2>2
<1>2. \/ v1'.aliases = v1.aliases /\ v1'.description = v1.description /\ v5' = v5
      \/ /\ v1'.aliases = v1.aliases /\ v5' = v5 \ Merge!Range(v1.description)
         /\ \E g \in Extracted : v1'.description = g.description
      \/ v5' = v5 \ v1.aliases /\ v1'.description = v1.description
  BY <1>0, EditedRow
<1>3. IsText(v1'.description)
  <2>1. ASSUME NEW g \in Extracted
        PROVE  IsText(g.description)
    BY CandidatesAreTexts
  <2>2. QED
    BY <1>2, <2>1 DEF FactsInv, TextsAreTexts
<1>4. Merge!Ids' = Merge!Ids
  BY <1>1 DEF Merge!Ids
<1>5. v5' \subseteq Told'
  <2> DEFINE offered == UNION {v2[i].aliases \cup Merge!Range(v2[i].description) : i \in Merge!Ids}
  <2>1. /\ Told = v1.aliases \cup Merge!Range(v1.description) \cup offered
        /\ Told' = v1'.aliases \cup Merge!Range(v1'.description) \cup offered
    BY <1>1, <1>4 DEF Told, Merge!Range
  <2> HIDE DEF offered
  <2>2. v5 \subseteq Told
    BY DEF FactsInv
  <2>3. v1'.description = v1.description
          => Merge!Range(v1'.description) = Merge!Range(v1.description)
    OBVIOUS
  <2>4. QED
    BY <1>2, <2>1, <2>2, <2>3
<1>6. KnowsUpdate' /\ TextsAreTexts'
  BY <1>0, <1>1, <1>3, DisturbedFacts DEF FactsInv
<1>7. QED
  BY <1>0, <1>5, <1>6 DEF FactsInv

LEMMA FactsDecision ==
  ASSUME FactsInv, MergeInv', NEW i, Merge!AcceptUpdate(i) \/ Merge!RejectUpdate(i)
  PROVE  FactsInv'
<1>1. PICK status : i \in Merge!Pending /\ v2' = [v2 EXCEPT ![i].status = status]
  BY DEF Merge!AcceptUpdate, Merge!RejectUpdate
<1>2. /\ AreUpdates(v2) /\ i \in 1..Len(v2) /\ Len(v2') = Len(v2)
      /\ \A j \in Merge!Ids \ {i} : v2'[j] = v2[j]
  BY <1>1, StatusChanged DEF FactsInv, MergeInv, MergeTypes, Merge!Pending, Merge!Ids
<1>3. v2'[i].aliases = v2[i].aliases /\ v2'[i].description = v2[i].description
  <2>1. v2'[i] = [v2[i] EXCEPT !.status = status]
    BY <1>1, <1>2, UpdatesAre
  <2>2. v2[i] = [status |-> v2[i].status, conflict |-> v2[i].conflict, merged |-> v2[i].merged,
                 name |-> v2[i].name, aliases |-> v2[i].aliases, description |-> v2[i].description,
                 attribute |-> v2[i].attribute]
    BY <1>2, UpdatesAre DEF IsUpdate
  <2>3. QED
    BY <2>1, <2>2
<1>4. v3' = Merge!Disturbed /\ v5' = v5
  BY DEF Merge!AcceptUpdate, Merge!RejectUpdate
<1>5. /\ v1.aliases \subseteq v1'.aliases /\ IsText(v1'.description)
      /\ Merge!Range(v1.description) \subseteq Merge!Range(v1'.description)
  <2>1. CASE v1' = v1
    BY <2>1 DEF FactsInv, TextsAreTexts
  <2>2. CASE Merge!AcceptUpdate(i)
    <3>1. v1' = [v1 EXCEPT !.name = v2[i].name, !.aliases = @ \cup v2[i].aliases,
                           !.description = Merge!Joined(@, v2[i].description),
                           !.attribute = IF v2[i].attribute = None THEN @ ELSE v2[i].attribute]
      BY <2>2 DEF Merge!AcceptUpdate
    <3>2. v1 = [name |-> v1.name, aliases |-> v1.aliases, description |-> v1.description,
                attribute |-> v1.attribute, locks |-> v1.locks]
      BY DEF FactsInv, MergeInv, MergeTypes, IsEntity
    <3>3. /\ v1'.aliases = v1.aliases \cup v2[i].aliases
          /\ v1'.description = Merge!Joined(v1.description, v2[i].description)
      BY <3>1, <3>2
    <3>4. IsText(v1.description) /\ IsText(v2[i].description)
      BY <1>2 DEF FactsInv, TextsAreTexts, Merge!Ids
    <3>5. QED
      BY <3>3, <3>4, AcceptedKeepsText
  <2>3. QED
    BY <2>1, <2>2 DEF Merge!RejectUpdate
<1>6. QED
  BY <1>2, <1>3, <1>4, <1>5, FactsDecided

LEMMA FactsStep ==
  ASSUME FactsInv, Merge!Next \/ UNCHANGED <<v1, v2, v3, v4, v5, v6>>
  PROVE  FactsInv'
<1>0. MergeInv'
  BY MergeStep DEF FactsInv
<1>1. ASSUME UNCHANGED <<v1, v2, v5>>, v3' = v3 \/ ~v3'.running
      PROVE  FactsInv'
  <2>1. Merge!Ids' = Merge!Ids /\ Told' = Told
    BY <1>1 DEF Merge!Ids, Told, Merge!Range
  <2>2. QED
    BY <1>0, <1>1, <2>1 DEF FactsInv, TextsAreTexts, KnowsUpdate
<1>2. CASE UNCHANGED <<v1, v2, v3, v4, v5, v6>>
  BY <1>1, <1>2
<1>3. CASE Merge!StartAnalysis
  BY <1>3, FactsStartAnalysis
<1>4. ASSUME NEW one \in Extracted,
             Merge!SkipCandidate(one) \/ Merge!CreateUpdate(one) \/ Merge!MergeUpdate(one)
      PROVE  FactsInv'
  BY <1>4, FactsSkip, FactsCreate, FactsMerge
<1>5. CASE Merge!EndAnalysis
  BY <1>1, <1>5 DEF Merge!EndAnalysis, Merge!Idle
<1>6. CASE Merge!EditEntity
  BY <1>6, FactsEdit
<1>7. ASSUME NEW i, Merge!AcceptUpdate(i) \/ Merge!RejectUpdate(i)
      PROVE  FactsInv'
  BY <1>0, <1>7, FactsDecision
<1>8. QED
  BY <1>2, <1>3, <1>4, <1>5, <1>6, <1>7 DEF Merge!Next

\* For any number of updates, candidates and edits, every alias and statement an analysis
\* handled while the author did not touch the entity is in the entity or in an update he
\* could see, except a description that repeats a known text and what he took out himself
\* (processConfirmedEntityCandidate).
THEOREM FactsArrive == Spec => []FactsReachTheAuthor
<1> DEFINE Inv == part = "knowledge" => FactsInv
<1>1. Init => Inv
  BY PartInit, FactsStart
<1>2. Inv /\ [Next]_vars => Inv'
  BY PartNext, FactsStep
<1>3. Inv => FactsReachTheAuthor
  BY DEF FactsInv, Told, FactsReachTheAuthor, Merge!FactsReachTheAuthor
<1>4. QED
  BY <1>1, <1>2, <1>3, PTL DEF Spec
-----------------------------------------------------------------------------
(* Timeline: v1 are the positions of the live events, v2 how many were     *)
(* created, v3 the requests, v5 whether placements raced.                  *)
(*                                                                         *)
(* Until placements race, positions are distinct and one request at most   *)
(* is under way.  Others are the events it is not about, and Sees(at, q, e) *)
(* is the position it sees of one.  If it has numbered the events anew it  *)
(* did so in their order and with room between any two (NumberedAnew).     *)
(* The bounds it read are those of its anchors (BoundsOK), and when one of *)
(* them is a neighbour, no event it sees is between them (Gap).            *)

LEMMA LineConstants ==
  MaxEvents \in Nat /\ Step \in Nat /\ Step > 1 /\ None \notin Int
BY PartsAssumption DEF Line!TimelineAssumption

Others(at, q) == DOMAIN at \ {q.event}

Sees(at, q, e) == IF e \in DOMAIN q.own THEN q.own[e] ELSE at[e]

IsPlacement(q) ==
  /\ q = [phase |-> q.phase, event |-> q.event, before |-> q.before, after |-> q.after,
          own |-> q.own, lower |-> q.lower, upper |-> q.upper]
  /\ q.phase \in {"anchors", "bounds", "write"}
  /\ q.event \in Nat \cup {None}
  /\ q.lower \in Int \cup {None} /\ q.upper \in Int \cup {None}

NumberedAnew(at, q) ==
  \/ q.own = <<>>
  \/ /\ q.own \in [DOMAIN q.own -> Int]
     /\ Others(at, q) \subseteq DOMAIN q.own
     /\ \A e, d \in Others(at, q) : Line!Precedes(at, e, d) => q.own[e] < q.own[d]
     /\ \A e, d \in DOMAIN q.own : q.own[e] < q.own[d] => q.own[d] - q.own[e] > 1

Numbers(q) == {q.own[e] : e \in DOMAIN q.own} \cup {None}

BoundsOK(at, q) ==
  /\ q.after # None => q.lower # None /\ (q.after \in Others(at, q) => Sees(at, q, q.after) = q.lower)
  /\ q.before # None => q.upper # None /\ (q.before \in Others(at, q) => Sees(at, q, q.before) = q.upper)
  /\ q.lower # None /\ q.upper # None => q.lower < q.upper
  /\ q.own # <<>> => q.lower \in Numbers(q) /\ q.upper \in Numbers(q)

AnchorsRead(q) ==
  /\ q.after = None => q.lower = None
  /\ q.before = None => q.upper = None

Gap(at, q) ==
  \A e \in Others(at, q) :
    \/ q.lower # None /\ Sees(at, q, e) <= q.lower
    \/ q.upper # None /\ q.upper <= Sees(at, q, e)

Room(q) == q.lower # None /\ q.upper # None => q.upper - q.lower > 1

PlacementOK(at, q) ==
  /\ IsPlacement(q)
  /\ NumberedAnew(at, q)
  /\ q.phase \in {"bounds", "write"} => BoundsOK(at, q)
  /\ q.phase = "bounds" => AnchorsRead(q)
  /\ q.phase = "write" => Room(q) /\ (None \in {q.before, q.after} => Gap(at, q))

EventsOK(at, number) ==
  /\ number \in Nat /\ DOMAIN at \subseteq 1..number
  /\ at \in [DOMAIN at -> Int]
  /\ \A e, d \in DOMAIN at : at[e] = at[d] => e = d

OneAtATime ==
  /\ v3 = [r \in Actors |-> v3[r]]
  /\ \A r \in Actors : v3[r] = Line!Idle \/ PlacementOK(v1, v3[r])
  /\ \A r, s \in Actors : v3[r] # Line!Idle /\ v3[s] # Line!Idle => r = s

LineInv == ~v5 => EventsOK(v1, v2) /\ OneAtATime

LEMMA LineStart ==
  ASSUME Line!Init
  PROVE  LineInv
<1>1. PICK n \in 0..MaxEvents : v1 = [e \in 1..n |-> e * Step] /\ v2 = n
  BY DEF Line!Init
<1>2. n \in Nat /\ Step \in Nat /\ Step > 1
  BY LineConstants
<1>3. \A e \in 1..n : e * Step \in Int
  BY <1>2
<1>4. ASSUME NEW e \in 1..n, NEW d \in 1..n, e * Step = d * Step
      PROVE  e = d
  <2>1. e \in Nat /\ d \in Nat /\ e * Step \in Int /\ d * Step \in Int
    BY <1>2
  <2>2. e < d => e * Step < d * Step
    BY <1>2, <2>1
  <2>3. d < e => d * Step < e * Step
    BY <1>2, <2>1
  <2>4. QED
    BY <1>4, <2>1, <2>2, <2>3
<1>5. EventsOK(v1, v2)
  BY <1>1, <1>2, <1>3, <1>4 DEF EventsOK
<1>6. OneAtATime
  BY DEF Line!Init, OneAtATime
<1>7. QED
  BY <1>5, <1>6 DEF LineInv
-----------------------------------------------------------------------------
(* The order of the events. *)

NotAfter(at, e) == {d \in DOMAIN at : d = e \/ Line!Precedes(at, d, e)}

LEMMA RankIs == \A at, e : Line!Rank(at, e) = Cardinality(NotAfter(at, e))
<1> SUFFICES ASSUME NEW at, NEW e PROVE Line!Rank(at, e) = Cardinality(NotAfter(at, e))
  OBVIOUS
<1>1. Line!Rank(at, e) = Line!Cardinality(NotAfter(at, e))
  BY DEF Line!Rank, NotAfter
<1>2. \A S : Line!Cardinality(S) = Cardinality(S)
  BY DEF Line!Cardinality, Cardinality
<1>3. QED
  BY <1>1, <1>2

LEMMA EventsAreFinite ==
  ASSUME NEW D, NEW n \in Nat, D \subseteq 1..n
  PROVE  IsFiniteSet(D)
<1>1. IsFiniteSet(1..n)
  BY FS_Interval
<1>2. QED
  BY <1>1, FS_Subset

\* An event that precedes another has the smaller rank.
LEMMA RankOrders ==
  ASSUME NEW n \in Nat, NEW D \in SUBSET (1..n), NEW at \in [D -> Int],
         NEW e \in D, NEW d \in D, Line!Precedes(at, e, d)
  PROVE  /\ Line!Rank(at, e) \in Nat /\ Line!Rank(at, d) \in Nat
         /\ Line!Rank(at, e) < Line!Rank(at, d)
<1>1. NotAfter(at, e) \in SUBSET D /\ NotAfter(at, d) \in SUBSET D
  BY DEF NotAfter
<1>2. IsFiniteSet(NotAfter(at, e)) /\ IsFiniteSet(NotAfter(at, d))
  BY <1>1, EventsAreFinite, FS_Subset
<1>3. \A f \in D : f \in Nat /\ at[f] \in Int
  OBVIOUS
<1>4. NotAfter(at, e) \subseteq NotAfter(at, d)
  <2> SUFFICES ASSUME NEW f \in NotAfter(at, e) PROVE f \in NotAfter(at, d)
    OBVIOUS
  <2>1. f \in D /\ (f = e \/ Line!Precedes(at, f, e))
    BY DEF NotAfter
  <2>2. Line!Precedes(at, f, d)
    BY <1>3, <2>1 DEF Line!Precedes
  <2>3. QED
    BY <2>1, <2>2 DEF NotAfter
<1>5. d \in NotAfter(at, d) /\ d \notin NotAfter(at, e)
  BY <1>3 DEF NotAfter, Line!Precedes
<1>6. /\ Cardinality(NotAfter(at, e)) \in Nat /\ Cardinality(NotAfter(at, d)) \in Nat
      /\ Cardinality(NotAfter(at, e)) <= Cardinality(NotAfter(at, d))
      /\ Cardinality(NotAfter(at, e)) # Cardinality(NotAfter(at, d))
  BY <1>2, <1>4, <1>5, FS_Subset, FS_CardinalityType
<1>7. QED
  BY <1>6, RankIs

\* Of events that are live there is a last one and a first one.
LEMMA Extremes ==
  ASSUME NEW n \in Nat, NEW D \in SUBSET (1..n), D # {}, NEW at \in [D -> Int]
  PROVE  /\ \E e \in D : \A d \in D : at[e] >= at[d]
         /\ \E e \in D : \A d \in D : at[e] <= at[d]
<1> DEFINE Ranks == {Cardinality(NotAfter(at, e)) : e \in D}
<1>1. \A e \in D : NotAfter(at, e) \in SUBSET D /\ IsFiniteSet(NotAfter(at, e))
  BY EventsAreFinite, FS_Subset DEF NotAfter
<1>2. IsFiniteSet(D)
  BY EventsAreFinite
<1>3. \A e \in D : Cardinality(NotAfter(at, e)) \in Nat /\ Cardinality(NotAfter(at, e)) <= Cardinality(D)
  BY <1>1, <1>2, FS_Subset, FS_CardinalityType
<1>4. Cardinality(D) \in Nat
  BY <1>2, FS_CardinalityType
<1>5. Ranks \in SUBSET Nat /\ Ranks # {} /\ \A k \in Ranks : k <= Cardinality(D)
  BY <1>3
<1>6. PICK last \in D : \A d \in D : Cardinality(NotAfter(at, last)) >= Cardinality(NotAfter(at, d))
  <2> HIDE DEF Ranks
  <2>1. PICK k \in Ranks : \A l \in Ranks : k >= l
    BY <1>4, <1>5, GreatestOfBounded
  <2> USE DEF Ranks
  <2>2. QED
    BY <2>1
<1>7. PICK first \in D : \A d \in D : Cardinality(NotAfter(at, first)) <= Cardinality(NotAfter(at, d))
  <2> DEFINE Rest == {Cardinality(D) - k : k \in Ranks}
  <2> HIDE DEF Ranks
  <2>1. Rest \in SUBSET Nat /\ Rest # {} /\ \A k \in Rest : k <= Cardinality(D)
    <3>1. \A k \in Ranks : Cardinality(D) - k \in Nat /\ Cardinality(D) - k <= Cardinality(D)
      BY <1>4, <1>5
    <3>2. QED
      BY <1>5, <3>1
  <2>2. PICK k \in Rest : \A l \in Rest : k >= l
    <3> HIDE DEF Rest
    <3>1. QED
      BY <1>4, <2>1, GreatestOfBounded
  <2>3. PICK low \in Ranks : \A l \in Ranks : low <= l
    <3>1. PICK low \in Ranks : k = Cardinality(D) - low
      BY <2>2
    <3>2. ASSUME NEW l \in Ranks PROVE low <= l
      <4>1. k >= Cardinality(D) - l
        BY <2>2
      <4>2. QED
        BY <1>4, <1>5, <3>1, <4>1
    <3>3. QED
      BY <3>2
  <2> USE DEF Ranks
  <2>4. QED
    BY <2>3
<1>8. \A e, d \in D : at[e] < at[d] => Cardinality(NotAfter(at, e)) < Cardinality(NotAfter(at, d))
  BY RankOrders, RankIs DEF Line!Precedes
<1>9. \A e \in D : at[e] \in Int
  OBVIOUS
<1>10. ASSUME NEW d \in D PROVE at[last] >= at[d] /\ at[first] <= at[d]
  BY <1>3, <1>6, <1>7, <1>8, <1>9
<1>11. QED
  BY <1>10

LEMMA HighestIs ==
  ASSUME NEW n \in Nat, NEW D \in SUBSET (1..n), D # {}, NEW seen, \A e \in D : seen[e] \in Int,
         NEW S, S = {seen[e] : e \in D}
  PROVE  /\ Line!Highest(S) \in S /\ \A d \in D : seen[d] <= Line!Highest(S)
         /\ Line!Lowest(S) \in S /\ \A d \in D : Line!Lowest(S) <= seen[d]
<1> DEFINE at == [e \in D |-> seen[e]]
<1>1. at \in [D -> Int]
  OBVIOUS
<1> HIDE DEF at
<1>2. /\ \E e \in D : \A d \in D : at[e] >= at[d]
      /\ \E e \in D : \A d \in D : at[e] <= at[d]
  BY <1>1, Extremes
<1>3. \A e \in D : at[e] = seen[e]
  BY DEF at
<1>4. S # {} /\ (\E e \in S : \A d \in S : e >= d) /\ (\E e \in S : \A d \in S : e <= d)
  <2>1. PICK last \in D : \A d \in D : at[last] >= at[d]
    BY <1>2
  <2>2. PICK first \in D : \A d \in D : at[first] <= at[d]
    BY <1>2
  <2>3. seen[last] \in S /\ \A d \in S : seen[last] >= d
    BY <1>3, <2>1
  <2>4. seen[first] \in S /\ \A d \in S : seen[first] <= d
    BY <1>3, <2>2
  <2>5. QED
    BY <2>3, <2>4
<1>5. Line!Highest(S) \in S /\ \A d \in S : Line!Highest(S) >= d
  BY <1>4 DEF Line!Highest
<1>6. Line!Lowest(S) \in S /\ \A d \in S : Line!Lowest(S) <= d
  BY <1>4 DEF Line!Lowest
<1>7. QED
  BY <1>5, <1>6
-----------------------------------------------------------------------------
(* What a request sees. *)

LEMMA SeenIs ==
  ASSUME NEW r
  PROVE  /\ DOMAIN Line!Seen(r) = Others(v1, v3[r])
         /\ \A e \in Others(v1, v3[r]) : Line!Seen(r)[e] = Sees(v1, v3[r], e)
BY DEF Line!Seen, Line!Live, Others, Sees

\* The events it sees are in the order they have, at distinct positions.
LEMMA SeenInOrder ==
  ASSUME NEW at, NEW n, EventsOK(at, n), NEW q, NumberedAnew(at, q)
  PROVE  /\ \A e \in Others(at, q) : e \in Nat /\ Sees(at, q, e) \in Int
         /\ \A e, d \in Others(at, q) : Line!Precedes(at, e, d) => Sees(at, q, e) < Sees(at, q, d)
         /\ \A e, d \in Others(at, q) : e # d => Sees(at, q, e) # Sees(at, q, d)
<1>1. \A e \in Others(at, q) : e \in Nat /\ e \in DOMAIN at /\ at[e] \in Int
  BY DEF EventsOK, Others
<1>2. \A e, d \in Others(at, q) : e # d => Line!Precedes(at, e, d) \/ Line!Precedes(at, d, e)
  BY <1>1 DEF Line!Precedes
<1>3. CASE q.own = <<>>
  <2>1. \A e \in Others(at, q) : Sees(at, q, e) = at[e]
    BY <1>3 DEF Sees
  <2>2. \A e, d \in Others(at, q) : e # d => at[e] # at[d]
    BY <1>1 DEF EventsOK
  <2>3. QED
    BY <1>1, <2>1, <2>2 DEF Line!Precedes
<1>4. CASE q.own # <<>>
  <2>1. \A e \in Others(at, q) : e \in DOMAIN q.own /\ Sees(at, q, e) = q.own[e] /\ q.own[e] \in Int
    BY <1>4 DEF NumberedAnew, Sees
  <2>2. \A e, d \in Others(at, q) : Line!Precedes(at, e, d) => q.own[e] < q.own[d]
    BY <1>4 DEF NumberedAnew
  <2>3. QED
    BY <1>1, <1>2, <2>1, <2>2
<1>5. QED
  BY <1>3, <1>4

\* While nothing raced, a request that is under way is the only one.
LEMMA OnlyRequest ==
  ASSUME LineInv, ~v5, NEW r \in Actors, v3[r] # Line!Idle
  PROVE  /\ PlacementOK(v1, v3[r]) /\ EventsOK(v1, v2)
         /\ \A s \in Actors : s # r => v3[s] = Line!Idle
BY DEF LineInv, OneAtATime

LEMMA RequestChanges ==
  ASSUME LineInv, ~v5, NEW r \in Actors, \A s \in Actors : s # r => v3[s] = Line!Idle,
         UNCHANGED <<v1, v2>>, v3' = [s \in Actors |-> v3'[s]],
         \A s \in Actors : s # r => v3'[s] = v3[s],
         v3'[r] = Line!Idle \/ PlacementOK(v1, v3'[r])
  PROVE  LineInv'
BY DEF LineInv, OneAtATime

LEMMA LineBeginKeeps ==
  ASSUME LineInv, ~v5, ~v5', NEW r \in Actors, NEW event \in DOMAIN v1 \cup {None}, NEW before,
         NEW after, Line!Begin(r, event, before, after)
  PROVE  LineInv'
<1> DEFINE held == [phase |-> "anchors", event |-> event, before |-> before, after |-> after,
                    own |-> <<>>, lower |-> None, upper |-> None]
<1>1. /\ UNCHANGED <<v1, v2>> /\ v3' = [v3 EXCEPT ![r] = held]
      /\ \A s \in Actors : v3[s] = Line!Idle
  BY DEF Line!Begin
<1>2. event \in Nat \cup {None}
  BY DEF LineInv, EventsOK
<1>3. PlacementOK(v1, held)
  BY <1>2 DEF PlacementOK, IsPlacement, NumberedAnew
<1> HIDE DEF held
<1>4. /\ v3' = [s \in Actors |-> v3'[s]] /\ v3'[r] = held
      /\ \A s \in Actors : s # r => v3'[s] = v3[s]
  BY <1>1 DEF LineInv, OneAtATime
<1>5. QED
  BY <1>1, <1>3, <1>4, RequestChanges

LEMMA ReadAnchorsKeeps ==
  ASSUME LineInv, ~v5, NEW r \in Actors, Line!ReadAnchors(r)
  PROVE  LineInv'
<1> DEFINE q == v3[r]
           seen == Line!Seen(r)
           lower == IF q.after = None THEN None ELSE seen[q.after]
           upper == IF q.before = None THEN None ELSE seen[q.before]
<1>1. UNCHANGED <<v1, v2>> /\ q.phase = "anchors"
  BY DEF Line!ReadAnchors
<1>2. q # Line!Idle
  BY <1>1 DEF Line!Idle
<1>3. PlacementOK(v1, q) /\ EventsOK(v1, v2) /\ \A s \in Actors : s # r => v3[s] = Line!Idle
  BY <1>2, OnlyRequest
<1>4. v3 = [s \in Actors |-> v3[s]]
  BY DEF LineInv, OneAtATime
<1>5. q = [phase |-> "anchors", event |-> q.event, before |-> q.before, after |-> q.after,
           own |-> q.own, lower |-> q.lower, upper |-> q.upper]
  BY <1>1, <1>3 DEF PlacementOK, IsPlacement
<1>6. CASE v3' = [v3 EXCEPT ![r] = Line!Idle]
  <2>1. /\ v3' = [s \in Actors |-> v3'[s]] /\ v3'[r] = Line!Idle
        /\ \A s \in Actors : s # r => v3'[s] = v3[s]
    BY <1>4, <1>6
  <2>2. QED
    BY <1>1, <1>3, <2>1, RequestChanges
<1>7. CASE /\ {q.before, q.after} \subseteq DOMAIN seen \cup {None}
           /\ None \in {q.before, q.after} \/ seen[q.after] < seen[q.before]
           /\ v3' = [v3 EXCEPT ![r].phase = "bounds", ![r].lower = lower, ![r].upper = upper]
  <2> DEFINE held == [phase |-> "bounds", event |-> q.event, before |-> q.before, after |-> q.after,
                      own |-> q.own, lower |-> lower, upper |-> upper]
  <2>1. /\ v3' = [s \in Actors |-> v3'[s]] /\ v3'[r] = held
        /\ \A s \in Actors : s # r => v3'[s] = v3[s]
    BY <1>4, <1>5, <1>7
  <2>2. /\ \A e \in Others(v1, q) : e \in Nat /\ Sees(v1, q, e) \in Int /\ seen[e] = Sees(v1, q, e)
        /\ DOMAIN seen = Others(v1, q)
    BY <1>3, SeenInOrder, SeenIs DEF PlacementOK
  <2>3. /\ q.after # None => q.after \in Others(v1, q) /\ lower = Sees(v1, q, q.after) /\ lower \in Int
        /\ q.before # None => q.before \in Others(v1, q) /\ upper = Sees(v1, q, q.before) /\ upper \in Int
    BY <1>7, <2>2
  <2>4. (q.after = None => lower = None) /\ (q.before = None => upper = None)
    OBVIOUS
  <2>5. q.after # None /\ q.before # None => lower < upper
    BY <1>7
  <2> HIDE DEF lower, upper
  <2>6. None \notin Int
    BY LineConstants
  <2>7. q.own # <<>> => lower \in Numbers(q) /\ upper \in Numbers(q)
    <3>1. q.own # <<>> => \A e \in Others(v1, q) : e \in DOMAIN q.own /\ Sees(v1, q, e) = q.own[e]
      BY <1>3 DEF PlacementOK, NumberedAnew, Sees
    <3>2. QED
      BY <2>3, <2>4, <3>1 DEF Numbers
  <2>8. BoundsOK(v1, held) /\ AnchorsRead(held)
    BY <2>3, <2>4, <2>5, <2>6, <2>7 DEF BoundsOK, AnchorsRead, Others, Sees, Numbers
  <2>9. IsPlacement(held) /\ NumberedAnew(v1, held)
    BY <1>3, <2>3, <2>4 DEF PlacementOK, IsPlacement, NumberedAnew, Others
  <2>10. PlacementOK(v1, held)
    BY <2>8, <2>9 DEF PlacementOK
  <2> HIDE DEF held
  <2>11. QED
    BY <1>1, <1>3, <2>1, <2>10, RequestChanges
<1>8. QED
  BY <1>6, <1>7 DEF Line!ReadAnchors

LEMMA BoundsAreNeighbours ==
  ASSUME NEW at, NEW n, EventsOK(at, n), NEW q, PlacementOK(at, q), q.phase = "bounds",
         NEW seen, DOMAIN seen = Others(at, q),
         \A e \in Others(at, q) : seen[e] = Sees(at, q, e),
         NEW lower, NEW upper, <<lower, upper>> = Line!Bounds(seen, q.lower, q.upper),
         NEW held, held = [phase |-> "write", event |-> q.event, before |-> q.before,
                           after |-> q.after, own |-> q.own, lower |-> lower, upper |-> upper]
  PROVE  /\ IsPlacement(held) /\ BoundsOK(at, held)
         /\ None \in {q.before, q.after} => Gap(at, held)
<1> DEFINE Below == {d \in DOMAIN seen : q.upper # None => seen[d] < q.upper}
           Above == {d \in DOMAIN seen : q.lower # None => seen[d] > q.lower}
           below == {seen[e] : e \in Below}
           above == {seen[e] : e \in Above}
<1>1. /\ IsPlacement(q) /\ NumberedAnew(at, q) /\ BoundsOK(at, q) /\ AnchorsRead(q)
      /\ n \in Nat /\ Others(at, q) \in SUBSET (1..n)
  BY DEF PlacementOK, EventsOK, Others
<1>2. \A e \in Others(at, q) : e \in Nat /\ seen[e] \in Int
  BY <1>1, SeenInOrder
<1>3. None \notin Int
  BY LineConstants
<1>4. q.own # <<>> => \A e \in Others(at, q) : seen[e] \in Numbers(q)
  BY <1>1 DEF NumberedAnew, Sees, Numbers
<1>5. /\ Others(at, held) = Others(at, q)
      /\ \A e \in Others(at, q) : Sees(at, held, e) = seen[e]
      /\ Numbers(held) = Numbers(q)
  BY DEF Others, Sees, Numbers
<1>6. /\ lower = Line!Bounds(seen, q.lower, q.upper)[1]
      /\ upper = Line!Bounds(seen, q.lower, q.upper)[2]
  <2>1. lower = <<lower, upper>>[1] /\ upper = <<lower, upper>>[2]
    OBVIOUS
  <2>2. QED
    BY <2>1
<1>7. Below \in SUBSET (1..n) /\ Above \in SUBSET (1..n)
  BY <1>1
<1>8. Below # {} => /\ Line!Highest(below) \in below
                    /\ \A e \in Below : seen[e] <= Line!Highest(below)
  <2>1. \A e \in Below : seen[e] \in Int
    BY <1>2
  <2> HIDE DEF Below
  <2>2. QED
    BY <1>1, <1>7, <2>1, HighestIs
<1>9. Above # {} => /\ Line!Lowest(above) \in above
                    /\ \A e \in Above : Line!Lowest(above) <= seen[e]
  <2>1. \A e \in Above : seen[e] \in Int
    BY <1>2
  <2> HIDE DEF Above
  <2>2. QED
    BY <1>1, <1>7, <2>1, HighestIs
<1>10. /\ Below = {} => Line!Highest(below) = None
       /\ Above = {} => Line!Lowest(above) = None
  <2>1. (Below = {} => below = {}) /\ (Above = {} => above = {})
    OBVIOUS
  <2> HIDE DEF below, above
  <2>2. QED
    BY <2>1 DEF Line!Highest, Line!Lowest
<1>11. CASE q.lower = None
  <2>1. lower = Line!Highest(below) /\ upper = q.upper /\ q.after = None
    BY <1>1, <1>6, <1>11 DEF Line!Bounds, BoundsOK
  <2>2. \/ Below = {} /\ lower = None
        \/ \E m \in Below : lower = seen[m] /\ \A e \in Below : seen[e] <= lower
    BY <1>8, <1>10, <2>1
  <2>3. lower \in Int \cup {None} /\ (q.own # <<>> => lower \in Numbers(q))
    BY <1>2, <1>4, <2>2 DEF Numbers
  <2>4. lower # None /\ upper # None => lower < upper
    BY <2>1, <2>2
  <2>5. \A e \in Others(at, q) : \/ lower # None /\ seen[e] <= lower
                                 \/ upper # None /\ upper <= seen[e]
    <3> SUFFICES ASSUME NEW e \in Others(at, q), ~(upper # None /\ upper <= seen[e])
                 PROVE  lower # None /\ seen[e] <= lower
      OBVIOUS
    <3>1. upper \in Int \cup {None} /\ seen[e] \in Int
      BY <1>1, <1>2, <2>1 DEF IsPlacement
    <3>2. e \in Below
      BY <2>1, <3>1
    <3>3. QED
      BY <1>2, <1>3, <2>2, <3>2
  <2>6. Gap(at, held)
    BY <1>5, <2>5 DEF Gap
  <2>7. BoundsOK(at, held)
    BY <1>1, <1>5, <2>1, <2>3, <2>4 DEF BoundsOK
  <2>8. IsPlacement(held)
    BY <1>1, <2>1, <2>3 DEF IsPlacement
  <2>9. QED
    BY <2>6, <2>7, <2>8
<1>12. CASE q.lower # None /\ q.upper = None
  <2>1. upper = Line!Lowest(above) /\ lower = q.lower /\ q.before = None
    BY <1>1, <1>6, <1>12 DEF Line!Bounds, BoundsOK
  <2>2. \/ Above = {} /\ upper = None
        \/ \E m \in Above : upper = seen[m] /\ \A e \in Above : upper <= seen[e]
    BY <1>9, <1>10, <2>1
  <2>3. upper \in Int \cup {None} /\ (q.own # <<>> => upper \in Numbers(q))
    BY <1>2, <1>4, <2>2 DEF Numbers
  <2>4. lower # None /\ upper # None => lower < upper
    <3>1. lower \in Int
      BY <1>1, <1>12, <2>1 DEF IsPlacement
    <3>2. QED
      BY <1>2, <2>1, <2>2, <3>1
  <2>5. \A e \in Others(at, q) : \/ lower # None /\ seen[e] <= lower
                                 \/ upper # None /\ upper <= seen[e]
    <3> SUFFICES ASSUME NEW e \in Others(at, q), ~(lower # None /\ seen[e] <= lower)
                 PROVE  upper # None /\ upper <= seen[e]
      OBVIOUS
    <3>1. lower \in Int /\ seen[e] \in Int
      BY <1>1, <1>2, <1>12, <2>1 DEF IsPlacement
    <3>2. e \in Above
      BY <1>3, <2>1, <3>1
    <3>3. QED
      BY <1>2, <1>3, <2>2, <3>2
  <2>6. Gap(at, held)
    BY <1>5, <2>5 DEF Gap
  <2>7. BoundsOK(at, held)
    BY <1>1, <1>5, <2>1, <2>3, <2>4 DEF BoundsOK
  <2>8. IsPlacement(held)
    BY <1>1, <2>1, <2>3 DEF IsPlacement
  <2>9. QED
    BY <2>6, <2>7, <2>8
<1>13. CASE q.lower # None /\ q.upper # None
  <2>1. lower = q.lower /\ upper = q.upper
    BY <1>6, <1>13 DEF Line!Bounds
  <2>2. None \notin {q.before, q.after}
    BY <1>1, <1>13 DEF AnchorsRead
  <2>3. IsPlacement(held) /\ BoundsOK(at, held)
    BY <1>1, <1>5, <2>1 DEF IsPlacement, BoundsOK
  <2>4. QED
    BY <2>2, <2>3
<1>14. QED
  BY <1>11, <1>12, <1>13

\* Numbering the events anew keeps their order and leaves room between any two.
LEMMA ReindexedKeepsOrder ==
  ASSUME NEW at, NEW n, EventsOK(at, n), NEW q, q.own = <<>>,
         NEW seen, seen = [e \in DOMAIN seen |-> seen[e]], DOMAIN seen = Others(at, q),
         \A e \in Others(at, q) : seen[e] = Sees(at, q, e),
         NEW held, held.own = Line!Reindexed(seen), held.event = q.event
  PROVE  NumberedAnew(at, held)
<1>1. n \in Nat /\ Others(at, q) \in SUBSET (1..n) /\ Others(at, held) = Others(at, q)
  BY DEF EventsOK, Others
<1>2. \A e \in Others(at, q) : seen[e] = at[e] /\ at[e] \in Int
  BY DEF EventsOK, Others, Sees
<1>3. seen \in [Others(at, q) -> Int]
  BY <1>2
<1> DEFINE rank(e) == Line!Rank(seen, e)
<1>4. \A e, d \in Others(at, q) : Line!Precedes(seen, e, d) =>
        rank(e) \in Nat /\ rank(d) \in Nat /\ rank(e) < rank(d)
  BY <1>1, <1>3, RankOrders
<1>5. \A e \in Others(at, q) : rank(e) \in Nat
  <2> SUFFICES ASSUME NEW e \in Others(at, q) PROVE rank(e) \in Nat
    OBVIOUS
  <2>1. NotAfter(seen, e) \in SUBSET (1..n)
    BY <1>1 DEF NotAfter
  <2>2. QED
    BY <1>1, <2>1, RankIs, EventsAreFinite, FS_CardinalityType
<1>6. \A e, d \in Others(at, q) : Line!Precedes(at, e, d) => Line!Precedes(seen, e, d)
  BY <1>2 DEF Line!Precedes
<1>7. Step \in Nat /\ Step > 1
  BY LineConstants
<1>8. /\ DOMAIN held.own = Others(at, q)
      /\ \A e \in Others(at, q) : held.own[e] = Step * rank(e)
      /\ held.own = [e \in DOMAIN held.own |-> held.own[e]]
  BY DEF Line!Reindexed
<1> HIDE DEF rank
<1>9. \A i, j \in Nat : i < j => Step * i < Step * j /\ Step * j - Step * i > 1
  BY <1>7
<1>10. \A i, j \in Nat : Step * i \in Int /\ (Step * i < Step * j => i < j)
  BY <1>7
<1>11. \A e \in Others(at, q) : held.own[e] \in Int
  BY <1>5, <1>8, <1>10
<1>12. held.own \in [DOMAIN held.own -> Int]
  BY <1>8, <1>11
<1>13. \A e, d \in Others(at, q) : Line!Precedes(at, e, d) => held.own[e] < held.own[d]
  BY <1>4, <1>6, <1>8, <1>9
<1>14. \A e, d \in Others(at, q) : held.own[e] < held.own[d] => held.own[d] - held.own[e] > 1
  BY <1>5, <1>8, <1>9, <1>10
<1>15. QED
  BY <1>1, <1>8, <1>12, <1>13, <1>14 DEF NumberedAnew

LEMMA ReadBoundsKeeps ==
  ASSUME LineInv, ~v5, NEW r \in Actors, Line!ReadBounds(r)
  PROVE  LineInv'
<1> DEFINE q == v3[r]
           seen == Line!Seen(r)
           bounds == Line!Bounds(seen, q.lower, q.upper)
<1>1. UNCHANGED <<v1, v2>> /\ q.phase = "bounds"
  BY DEF Line!ReadBounds
<1>2. q # Line!Idle
  BY <1>1 DEF Line!Idle
<1>3. PlacementOK(v1, q) /\ EventsOK(v1, v2) /\ \A s \in Actors : s # r => v3[s] = Line!Idle
  BY <1>2, OnlyRequest
<1>4. v3 = [s \in Actors |-> v3[s]]
  BY DEF LineInv, OneAtATime
<1>5. q = [phase |-> "bounds", event |-> q.event, before |-> q.before, after |-> q.after,
           own |-> q.own, lower |-> q.lower, upper |-> q.upper]
  BY <1>1, <1>3 DEF PlacementOK, IsPlacement
<1>6. /\ DOMAIN seen = Others(v1, q) /\ \A e \in Others(v1, q) : seen[e] = Sees(v1, q, e)
      /\ seen = [e \in DOMAIN seen |-> seen[e]]
  BY SeenIs DEF Line!Seen
<1>7. bounds = <<bounds[1], bounds[2]>>
  BY DEF Line!Bounds
<1>8. CASE /\ q.own = <<>>
           /\ v3' = [v3 EXCEPT ![r].phase = "anchors", ![r].own = Line!Reindexed(seen)]
  <2> DEFINE held == [phase |-> "anchors", event |-> q.event, before |-> q.before, after |-> q.after,
                      own |-> Line!Reindexed(seen), lower |-> q.lower, upper |-> q.upper]
  <2> HIDE DEF seen
  <2>1. /\ v3' = [s \in Actors |-> v3'[s]] /\ v3'[r] = held
        /\ \A s \in Actors : s # r => v3'[s] = v3[s]
    BY <1>4, <1>5, <1>8
  <2>2. NumberedAnew(v1, held)
    <3>1. held.own = Line!Reindexed(seen) /\ held.event = q.event
      OBVIOUS
    <3> HIDE DEF held, q
    <3>2. QED
      BY <1>3, <1>6, <1>8, <3>1, ReindexedKeepsOrder
  <2>3. PlacementOK(v1, held)
    BY <1>3, <2>2 DEF PlacementOK, IsPlacement
  <2> HIDE DEF held
  <2>4. QED
    BY <1>1, <1>3, <2>1, <2>3, RequestChanges
<1>9. CASE /\ ~(None \notin {bounds[1], bounds[2]} /\ Line!HasNoRoom(bounds[1], bounds[2]) /\ q.own = <<>>)
           /\ v3' = [v3 EXCEPT ![r].phase = "write", ![r].lower = bounds[1], ![r].upper = bounds[2]]
  <2> DEFINE held == [phase |-> "write", event |-> q.event, before |-> q.before, after |-> q.after,
                      own |-> q.own, lower |-> bounds[1], upper |-> bounds[2]]
  <2> HIDE DEF bounds
  <2>1. /\ v3' = [s \in Actors |-> v3'[s]] /\ v3'[r] = held
        /\ \A s \in Actors : s # r => v3'[s] = v3[s]
    BY <1>4, <1>5, <1>9
  <2>2. /\ IsPlacement(held) /\ BoundsOK(v1, held)
        /\ None \in {q.before, q.after} => Gap(v1, held)
    <3>1. bounds = Line!Bounds(seen, q.lower, q.upper)
      BY DEF bounds
    <3> DEFINE lo == bounds[1]
               up == bounds[2]
    <3>2. /\ held = [phase |-> "write", event |-> q.event, before |-> q.before, after |-> q.after,
                     own |-> q.own, lower |-> lo, upper |-> up]
          /\ <<lo, up>> = Line!Bounds(seen, q.lower, q.upper)
      BY <1>7, <3>1
    <3> HIDE DEF held, q, seen, lo, up
    <3>3. QED
      BY <1>1, <1>3, <1>6, <3>2, BoundsAreNeighbours
  <2>3. NumberedAnew(v1, held)
    BY <1>3 DEF PlacementOK, NumberedAnew, Others
  <2>4. Room(held)
    <3>1. SUFFICES ASSUME held.lower # None, held.upper # None
                   PROVE  held.upper - held.lower > 1
      BY DEF Room
    <3>2. held.lower \in Int /\ held.upper \in Int /\ held.lower < held.upper
      BY <2>2, <3>1 DEF IsPlacement, BoundsOK
    <3>3. CASE q.own = <<>>
      <4>1. ~(bounds[2] - bounds[1] <= 1)
        BY <1>9, <3>1, <3>3 DEF Line!HasNoRoom
      <4>2. QED
        BY <3>2, <4>1
    <3>4. CASE q.own # <<>>
      <4>1. held.lower \in Numbers(held) /\ held.upper \in Numbers(held) /\ held.own = q.own
        BY <2>2, <3>4 DEF BoundsOK
      <4>2. PICK e \in DOMAIN q.own, d \in DOMAIN q.own : held.lower = q.own[e] /\ held.upper = q.own[d]
        BY <3>1, <4>1 DEF Numbers
      <4>3. QED
        BY <1>3, <3>2, <3>4, <4>2 DEF PlacementOK, NumberedAnew
    <3>5. QED
      BY <3>3, <3>4
  <2>5. PlacementOK(v1, held)
    BY <2>2, <2>3, <2>4 DEF PlacementOK
  <2> HIDE DEF held
  <2>6. QED
    BY <1>1, <1>3, <2>1, <2>5, RequestChanges
<1>10. QED
  BY <1>8, <1>9 DEF Line!ReadBounds
-----------------------------------------------------------------------------
(* A placement is written, an event deleted. *)

LEMMA BetweenIsInside ==
  ASSUME NEW lower \in Int \cup {None}, NEW upper \in Int \cup {None},
         lower # None /\ upper # None => upper - lower > 1
  PROVE  /\ Line!Between(lower, upper) \in Int
         /\ lower # None => lower < Line!Between(lower, upper)
         /\ upper # None => Line!Between(lower, upper) < upper
<1>1. None \notin Int /\ Step \in Nat /\ Step > 1
  BY LineConstants
<1>2. CASE lower # None /\ upper # None
  <2>1. lower \in Int /\ upper \in Int /\ upper - lower > 1
    BY <1>2
  <2>2. /\ Line!Middle(lower, upper) \in Int
        /\ lower < Line!Middle(lower, upper) /\ Line!Middle(lower, upper) < upper
    BY <2>1 DEF Line!Middle
  <2>3. QED
    BY <1>2, <2>2 DEF Line!Between
<1>3. CASE lower # None /\ upper = None
  <2>1. lower \in Int /\ Line!Between(lower, upper) = lower + Step
    BY <1>3 DEF Line!Between
  <2>2. QED
    BY <1>1, <1>3, <2>1
<1>4. CASE lower = None /\ upper # None
  <2>1. upper \in Int /\ Line!Between(lower, upper) = upper - Step
    BY <1>4 DEF Line!Between
  <2>2. QED
    BY <1>1, <1>4, <2>1
<1>5. CASE lower = None /\ upper = None
  BY <1>1, <1>5 DEF Line!Between
<1>6. QED
  BY <1>2, <1>3, <1>4, <1>5

LEMMA LineWriteKeeps ==
  ASSUME LineInv, ~v5', ~v5, NEW r \in Actors, Line!Write(r)
  PROVE  LineInv' /\ Line!PlacementIsKept(r)
<1> DEFINE q == v3[r]
           event == IF q.event = None THEN v2 + 1 ELSE q.event
           placed == IF q.event # None /\ event \notin DOMAIN v1 THEN {} ELSE {event}
           others == Others(v1, q)
           p == Line!Between(q.lower, q.upper)
<1>1. /\ q.phase = "write"
      /\ v1' = [e \in DOMAIN v1 \cup placed |->
                  CASE e = event -> p
                    [] e # event /\ e \in DOMAIN q.own -> q.own[e]
                    [] OTHER -> v1[e]]
      /\ v2' = IF q.event = None THEN event ELSE v2
      /\ v3' = [v3 EXCEPT ![r] = Line!Idle]
      /\ ~\E e \in DOMAIN v1 \ {event} :
            None \notin {q.before, q.after} /\ Line!Within(Line!Seen(r)[e], q.lower, q.upper)
  BY DEF Line!Write, Line!Live
<1>2. q # Line!Idle
  BY <1>1 DEF Line!Idle
<1>3. /\ IsPlacement(q) /\ NumberedAnew(v1, q) /\ BoundsOK(v1, q) /\ Room(q)
      /\ None \in {q.before, q.after} => Gap(v1, q)
      /\ EventsOK(v1, v2) /\ \A s \in Actors : s # r => v3[s] = Line!Idle
  BY <1>1, <1>2, OnlyRequest DEF PlacementOK
<1>4. None \notin Int
  BY LineConstants
<1>5. /\ \A e \in others : e \in Nat /\ Sees(v1, q, e) \in Int /\ Line!Seen(r)[e] = Sees(v1, q, e)
      /\ \A e, d \in others : Line!Precedes(v1, e, d) => Sees(v1, q, e) < Sees(v1, q, d)
      /\ \A e, d \in others : e # d => Sees(v1, q, e) # Sees(v1, q, d)
  BY <1>3, SeenInOrder, SeenIs
<1>6. /\ v2 \in Nat /\ DOMAIN v1 \subseteq 1..v2 /\ q.event \in Nat \cup {None}
      /\ q.lower \in Int \cup {None} /\ q.upper \in Int \cup {None}
  BY <1>3 DEF EventsOK, IsPlacement
<1>7. event \in Nat /\ DOMAIN v1 \ {event} = others /\ event \notin others
  BY <1>4, <1>6 DEF Others
<1>8. DOMAIN v1' \subseteq others \cup {event} /\ others = DOMAIN v1' \ {event}
  BY <1>1, <1>7
<1>9. \A e \in others : v1'[e] = Sees(v1, q, e)
  BY <1>1, <1>7 DEF Sees, Others
<1>10. event \in DOMAIN v1' => v1'[event] = p
  BY <1>1
<1>11. /\ p \in Int
       /\ q.lower # None => q.lower < p
       /\ q.upper # None => p < q.upper
  BY <1>3, <1>6, BetweenIsInside DEF Room
<1>12. Gap(v1, q)
  <2>1. SUFFICES ASSUME None \notin {q.before, q.after} PROVE Gap(v1, q)
    BY <1>3
  <2>2. q.lower # None /\ q.upper # None
    BY <1>3, <2>1 DEF BoundsOK
  <2>3. q.lower \in Int /\ q.upper \in Int
    BY <1>6, <2>2
  <2>4. \A e \in others : ~(q.lower < Sees(v1, q, e) /\ Sees(v1, q, e) < q.upper)
    BY <1>1, <1>5, <1>7, <2>1 DEF Line!Within
  <2> HIDE DEF q
  <2>5. QED
    BY <1>5, <2>2, <2>3, <2>4 DEF Gap
<1>13. \A e \in others : \/ q.lower # None /\ Sees(v1, q, e) <= q.lower /\ Sees(v1, q, e) < p
                         \/ q.upper # None /\ q.upper <= Sees(v1, q, e) /\ p < Sees(v1, q, e)
  <2> SUFFICES ASSUME NEW e \in others
               PROVE  \/ q.lower # None /\ Sees(v1, q, e) <= q.lower /\ Sees(v1, q, e) < p
                      \/ q.upper # None /\ q.upper <= Sees(v1, q, e) /\ p < Sees(v1, q, e)
    OBVIOUS
  <2> HIDE DEF q, p
  <2>1. Sees(v1, q, e) \in Int
    BY <1>5
  <2>2. QED
    BY <1>6, <1>11, <1>12, <2>1 DEF Gap
<1> HIDE DEF p
<1>14. v2' \in Nat /\ DOMAIN v1' \subseteq 1..v2'
  BY <1>1, <1>6
<1>15. EventsOK(v1, v2)'
  <2>1. v1' = [e \in DOMAIN v1' |-> v1'[e]]
    BY <1>1
  <2> HIDE DEF q, event, placed, others
  <2>2. \A e \in DOMAIN v1' : v1'[e] \in Int
    BY <1>5, <1>8, <1>9, <1>10, <1>11
  <2>3. \A e, d \in DOMAIN v1' : v1'[e] = v1'[d] => e = d
    <3> SUFFICES ASSUME NEW e \in DOMAIN v1', NEW d \in DOMAIN v1', e # d PROVE v1'[e] # v1'[d]
      OBVIOUS
    <3>1. CASE e \in others /\ d \in others
      BY <1>5, <1>9, <3>1
    <3>2. CASE e = event /\ d \in others
      BY <1>5, <1>9, <1>10, <1>11, <1>13, <3>2
    <3>3. CASE e \in others /\ d = event
      BY <1>5, <1>9, <1>10, <1>11, <1>13, <3>3
    <3>4. QED
      BY <1>8, <3>1, <3>2, <3>3
  <2>4. QED
    BY <1>14, <2>1, <2>2, <2>3 DEF EventsOK
<1>16. OneAtATime'
  BY <1>1, <1>3 DEF LineInv, OneAtATime
<1>17. Line!PlacementIsKept(r)
  <2>1. event = IF q.event = None THEN v2' ELSE q.event
    BY <1>1
  <2>2. \A e, d \in others : Line!Precedes(v1, e, d) => v1'[e] < v1'[d]
    BY <1>5, <1>9
  <2>3. ASSUME event \in DOMAIN v1'
        PROVE  /\ q.after \in others => v1'[q.after] < v1'[event]
               /\ q.before \in others => v1'[event] < v1'[q.before]
               /\ \A e \in others :
                    /\ q.after \in others /\ v1'[q.after] < v1'[e] => v1'[event] < v1'[e]
                    /\ q.before \in others /\ v1'[e] < v1'[q.before] => v1'[e] < v1'[event]
    <3>1. /\ q.after \in others => v1'[q.after] = q.lower /\ q.lower \in Int /\ q.lower < p
          /\ q.before \in others => v1'[q.before] = q.upper /\ q.upper \in Int /\ p < q.upper
      BY <1>3, <1>4, <1>5, <1>6, <1>9, <1>11 DEF BoundsOK
    <3>2. v1'[event] = p /\ p \in Int
      BY <1>10, <1>11, <2>3
    <3> HIDE DEF q, event, placed, others
    <3>3. ASSUME NEW e \in others
          PROVE  /\ q.after \in others /\ v1'[q.after] < v1'[e] => v1'[event] < v1'[e]
                 /\ q.before \in others /\ v1'[e] < v1'[q.before] => v1'[e] < v1'[event]
      BY <1>5, <1>6, <1>9, <1>13, <3>1, <3>2
    <3>4. QED
      BY <3>1, <3>2, <3>3
  <2> HIDE DEF event, placed, others
  <2>4. QED
    BY <1>8, <2>1, <2>2, <2>3 DEF Line!PlacementIsKept
<1>18. QED
  BY <1>15, <1>16, <1>17 DEF LineInv

LEMMA DeleteKeeps ==
  ASSUME LineInv, ~v5, NEW gone \in DOMAIN v1, Line!Delete(gone)
  PROVE  LineInv'
<1>1. /\ v1' = [e \in DOMAIN v1 \ {gone} |-> v1[e]] /\ UNCHANGED <<v2, v3, v5>>
  BY DEF Line!Delete, Line!Restrict, Line!Live
<1>2. EventsOK(v1, v2) /\ OneAtATime
  BY DEF LineInv
<1>3. EventsOK(v1, v2)'
  BY <1>1, <1>2 DEF EventsOK
<1>4. ASSUME NEW q, PlacementOK(v1, q)
      PROVE  PlacementOK(v1', q)
  <2>1. /\ Others(v1', q) \subseteq Others(v1, q)
        /\ \A e \in Others(v1', q) : Sees(v1', q, e) = Sees(v1, q, e) /\ v1'[e] = v1[e]
    BY <1>1 DEF Others, Sees
  <2>2. \A e, d \in Others(v1', q) : Line!Precedes(v1', e, d) => Line!Precedes(v1, e, d)
    BY <2>1 DEF Line!Precedes
  <2>3. NumberedAnew(v1', q)
    BY <1>4, <2>1, <2>2 DEF PlacementOK, NumberedAnew
  <2>4. BoundsOK(v1, q) => BoundsOK(v1', q)
    BY <2>1 DEF BoundsOK
  <2>5. Gap(v1, q) => Gap(v1', q)
    BY <2>1 DEF Gap
  <2>6. QED
    BY <1>4, <2>3, <2>4, <2>5 DEF PlacementOK
<1>5. OneAtATime'
  BY <1>1, <1>2, <1>4 DEF OneAtATime
<1>6. QED
  BY <1>3, <1>5 DEF LineInv

LEMMA LineStep ==
  ASSUME LineInv, Line!Next \/ UNCHANGED <<v1, v2, v3, v4, v5>>
  PROVE  LineInv' /\ Line!PlacementsAreKept
<1> SUFFICES ASSUME ~v5'
             PROVE  LineInv' /\ Line!PlacementsAreKept
  BY DEF LineInv, Line!PlacementsAreKept
<1> DEFINE Ends(s) == v3[s].phase = "write" /\ v3'[s] = Line!Idle
<1>1. Line!Idle.phase = "idle" /\ Line!Idle # [phase |-> "write"]
  BY DEF Line!Idle
<1>2. (\A s \in Actors : v3'[s] = v3[s]) => \A s \in Actors : ~Ends(s)
  BY <1>1
<1>3. ASSUME NEW r \in Actors, NEW event \in DOMAIN v1 \cup {None}, NEW before, NEW after,
             Line!Begin(r, event, before, after)
      PROVE  LineInv' /\ \A s \in Actors : ~Ends(s)
  <2>1. ~v5 /\ v3[r] = Line!Idle
    BY <1>3 DEF Line!Begin
  <2>2. \A s \in Actors : v3[s] = Line!Idle
    BY <1>3 DEF Line!Begin
  <2>3. QED
    BY <1>1, <1>3, <2>1, <2>2, LineBeginKeeps
<1>4. ASSUME NEW r \in Actors, Line!ReadAnchors(r)
      PROVE  LineInv' /\ \A s \in Actors : ~Ends(s)
  <2>1. ~v5 /\ v3[r].phase = "anchors"
    BY <1>4 DEF Line!ReadAnchors
  <2>2. \A s \in Actors : s # r => v3'[s] = v3[s]
    BY <1>4, <2>1 DEF Line!ReadAnchors, LineInv, OneAtATime
  <2>3. \A s \in Actors : ~Ends(s)
    BY <1>1, <2>1, <2>2
  <2>4. QED
    BY <1>4, <2>1, <2>3, ReadAnchorsKeeps
<1>5. ASSUME NEW r \in Actors, Line!ReadBounds(r)
      PROVE  LineInv' /\ \A s \in Actors : ~Ends(s)
  <2>1. ~v5 /\ v3[r].phase = "bounds"
    BY <1>5 DEF Line!ReadBounds
  <2>2. \A s \in Actors : s # r => v3'[s] = v3[s]
    BY <1>5, <2>1 DEF Line!ReadBounds, LineInv, OneAtATime
  <2>3. \A s \in Actors : ~Ends(s)
    BY <1>1, <2>1, <2>2
  <2>4. QED
    BY <1>5, <2>1, <2>3, ReadBoundsKeeps
<1>6. ASSUME NEW r \in Actors, Line!Write(r)
      PROVE  LineInv' /\ \A s \in Actors : Ends(s) => Line!PlacementIsKept(s)
  <2>1. ~v5 /\ v3[r].phase = "write"
    BY <1>6 DEF Line!Write
  <2>2. v3[r] # Line!Idle
    BY <1>1, <2>1
  <2>3. \A s \in Actors : s # r => v3[s] = Line!Idle
    BY <2>1, <2>2, OnlyRequest
  <2>4. \A s \in Actors : Ends(s) => s = r
    BY <1>1, <2>3
  <2>5. LineInv' /\ Line!PlacementIsKept(r)
    BY <1>6, <2>1, LineWriteKeeps
  <2>6. QED
    BY <2>4, <2>5
<1>7. ASSUME NEW gone \in DOMAIN v1, Line!Delete(gone)
      PROVE  LineInv' /\ \A s \in Actors : ~Ends(s)
  <2>1. ~v5 /\ v3' = v3
    BY <1>7 DEF Line!Delete
  <2>2. QED
    BY <1>2, <1>7, <2>1, DeleteKeeps
<1>8. LineInv' /\ \A s \in Actors : Ends(s) => Line!PlacementIsKept(s)
  <2> HIDE DEF Ends
  <2>1. CASE UNCHANGED <<v1, v2, v3, v4, v5>>
    <3>1. LineInv' /\ \A s \in Actors : v3'[s] = v3[s]
      BY <2>1 DEF LineInv, EventsOK, OneAtATime
    <3>2. QED
      BY <1>2, <3>1
  <2>2. CASE Line!Next
    BY <1>3, <1>4, <1>5, <1>6, <1>7, <2>2 DEF Line!Next, Line!Live
  <2>3. QED
    BY <2>1, <2>2
<1>9. QED
  BY <1>8 DEF Line!PlacementsAreKept

\* A placement puts its event between the events it was asked for and next to them, and
\* leaves the others in the order they had, unless placements raced, however many there
\* were before and however often the events were numbered anew (positionForPlacement).
THEOREM PlacementsAreInOrder == Spec => PlacedWhereAsked
<1> DEFINE Inv == part = "timeline" => LineInv
<1>1. Init => Inv
  BY PartInit, LineStart
<1>2. Inv /\ [Next]_vars => Inv'
  BY PartNext, LineStep
<1>3. Inv /\ [Next]_vars => [part = "timeline" => Line!PlacementsAreKept]_vars
  BY PartNext, LineStep
<1>4. QED
  BY <1>1, <1>2, <1>3, PTL DEF Spec, PlacedWhereAsked
-----------------------------------------------------------------------------
(* HelpIndex: v1 is the table, v2 the instances of the server, v3 and v4   *)
(* count starts and failures.                                              *)
(*                                                                         *)
(* A vector is of the text and the model its row claims (HelpVectors).     *)
(* That the index becomes complete needs to know who completes it: as long *)
(* as nothing failed and a row is behind its text, the instance that wrote *)
(* the texts last still indexes, and what it embeds is what the rows say   *)
(* (HelpWatched), so no row it writes can make it give up.                 *)

HelpIds == UNION {DOMAIN HelpTexts[i] : i \in Builds}
HelpWords == UNION {{HelpTexts[i][d] : d \in DOMAIN HelpTexts[i]} : i \in Builds}
HelpProfiles == {HelpModels[i] : i \in Builds}

HelpRows == [text : HelpWords, vector : [of : HelpWords, by : HelpProfiles] \cup {None},
             hash : HelpWords \cup {None}, profile : HelpProfiles \cup {None}]

HelpStates == [step : {"off", "indexing", "embedding", "ending", "idle"}, loaded : BOOLEAN,
               batch : SUBSET [id : HelpIds, text : HelpWords]]

HelpTypes ==
  /\ DOMAIN v1 \subseteq HelpIds
  /\ v1 \in [DOMAIN v1 -> HelpRows]
  /\ v2 \in [Builds -> HelpStates]
  /\ v4 \in Nat

ClaimsItsVector(row) == row.vector # None => row.vector = [of |-> row.hash, by |-> row.profile]

HelpVectors == \A d \in DOMAIN v1 : ClaimsItsVector(v1[d])

\* What the instance embeds is what the rows of the table say.
EmbedsTheTable(table, held) ==
  /\ held.step \in {"indexing", "embedding"}
  /\ \A w \in held.batch : w.id \in DOMAIN table /\ table[w.id].text = w.text

HelpWatched ==
  v4 = 0 =>
    /\ \A i \in Builds : v2[i].step # "off" => v2[i].loaded
    /\ \/ \A d \in DOMAIN v1 : v1[d].hash = v1[d].text
       \/ \E i \in Builds : EmbedsTheTable(v1, v2[i])

HelpInv == HelpTypes /\ HelpVectors /\ HelpWatched

LEMMA HelpInit ==
  ASSUME Help!Init
  PROVE  HelpInv
<1>1. DOMAIN v1 = {}
  BY DEF Help!Init
<1>2. v1 \in [DOMAIN v1 -> HelpRows]
  BY <1>1 DEF Help!Init
<1>3. Help!Off \in HelpStates
  BY DEF Help!Off, HelpStates
<1>4. QED
  BY <1>1, <1>2, <1>3 DEF Help!Init, HelpInv, HelpTypes, HelpVectors, HelpWatched, Help!Off

\* The texts an instance writes are all in the table afterwards, each with the vector its
\* row had or none.
LEMMA SyncedIsSound ==
  ASSUME HelpInv, NEW i \in Builds, v1' = Help!Synced(i)
  PROVE  /\ DOMAIN v1' \subseteq HelpIds
         /\ v1' \in [DOMAIN v1' -> HelpRows]
         /\ HelpVectors'
<1>1. DOMAIN v1' = DOMAIN HelpTexts[i] /\ DOMAIN v1' \subseteq HelpIds
  BY DEF Help!Synced, HelpIds
<1>2. ASSUME NEW d \in DOMAIN v1'
      PROVE  v1'[d] \in HelpRows /\ ClaimsItsVector(v1'[d])
  <2> DEFINE word == HelpTexts[i][d]
  <2>1. word \in HelpWords /\ d \in DOMAIN HelpTexts[i]
    BY <1>1 DEF HelpWords
  <2>2. CASE d \in DOMAIN v1
    <3>1. v1[d] \in HelpRows /\ ClaimsItsVector(v1[d])
      BY <2>2 DEF HelpInv, HelpTypes, HelpVectors
    <3>2. v1'[d] = [v1[d] EXCEPT !.text = word]
      BY <2>1, <2>2 DEF Help!Synced
    <3>3. QED
      BY <2>1, <3>1, <3>2 DEF HelpRows, ClaimsItsVector
  <2>3. CASE d \notin DOMAIN v1
    <3>1. v1'[d] = [text |-> word, vector |-> None, hash |-> None, profile |-> None]
      BY <2>1, <2>3 DEF Help!Synced, Help!New
    <3>2. QED
      BY <2>1, <3>1 DEF HelpRows, ClaimsItsVector
  <2>4. QED
    BY <2>2, <2>3
<1>3. v1' = [d \in DOMAIN v1' |-> v1'[d]]
  BY DEF Help!Synced
<1>4. QED
  BY <1>1, <1>2, <1>3 DEF HelpVectors

\* The row that gets the vector of its text.
LEMMA EmbeddingKeeps ==
  ASSUME HelpInv, NEW i \in Builds, NEW w \in v2[i].batch, Help!UpdateEmbedding(i, w)
  PROVE  /\ DOMAIN v1' = DOMAIN v1
         /\ v1' \in [DOMAIN v1 -> HelpRows]
         /\ HelpVectors'
         /\ \A d \in DOMAIN v1 : v1'[d].text = v1[d].text
         /\ \A d \in DOMAIN v1 : v1[d].hash = v1[d].text => v1'[d].hash = v1'[d].text
<1>1. w \in [id : HelpIds, text : HelpWords]
  BY DEF HelpInv, HelpTypes, HelpStates
<1>2. CASE ~(w.id \in DOMAIN v1 /\ v1[w.id].text = w.text)
  <2>1. v1' = v1
    BY <1>2 DEF Help!UpdateEmbedding
  <2>2. QED
    BY <2>1 DEF HelpInv, HelpTypes, HelpVectors
<1>3. CASE w.id \in DOMAIN v1 /\ v1[w.id].text = w.text
  <2> DEFINE row == [v1[w.id] EXCEPT !.vector = [of |-> w.text, by |-> HelpModels[i]],
                                     !.hash = w.text, !.profile = HelpModels[i]]
  <2>1. v1' = [v1 EXCEPT ![w.id] = row]
    BY <1>3 DEF Help!UpdateEmbedding
  <2>2. v1[w.id] \in HelpRows /\ HelpModels[i] \in HelpProfiles
    BY <1>3 DEF HelpInv, HelpTypes, HelpProfiles
  <2>3. row \in HelpRows /\ ClaimsItsVector(row) /\ row.hash = row.text /\ row.text = v1[w.id].text
    BY <1>1, <1>3, <2>2 DEF HelpRows, ClaimsItsVector
  <2> HIDE DEF row
  <2>4. DOMAIN v1' = DOMAIN v1 /\ v1' \in [DOMAIN v1 -> HelpRows]
    BY <2>1, <2>3 DEF HelpInv, HelpTypes
  <2>5. \A d \in DOMAIN v1 : v1'[d] = IF d = w.id THEN row ELSE v1[d]
    BY <2>1
  <2>6. HelpVectors'
    BY <2>3, <2>4, <2>5 DEF HelpInv, HelpVectors
  <2>7. QED
    BY <2>3, <2>4, <2>5, <2>6
<1>4. QED
  BY <1>2, <1>3
-----------------------------------------------------------------------------
\* A step of one instance.
LEMMA HelpStep ==
  ASSUME HelpInv, Help!Next \/ UNCHANGED <<v1, v2, v3, v4>>
  PROVE  HelpInv'
<1> USE DEF HelpInv, HelpTypes
<1>1. CASE UNCHANGED <<v1, v2, v3, v4>>
  BY <1>1 DEF HelpVectors, HelpWatched
<1>2. ASSUME NEW i \in Builds, Help!Start(i)
      PROVE  HelpInv'
  <2>1. v2' = [v2 EXCEPT ![i] = [step |-> "indexing", loaded |-> TRUE, batch |-> {}]]
        /\ v1' = Help!Synced(i) /\ v4' = v4
    BY <1>2 DEF Help!Start, Help!Sets
  <2>2. v2' \in [Builds -> HelpStates]
    BY <2>1 DEF HelpStates
  <2>3. v2'[i] = [step |-> "indexing", loaded |-> TRUE, batch |-> {}] /\ \A j \in Builds \ {i} : v2'[j] = v2[j]
    BY <2>1
  <2>4. HelpWatched'
    BY <2>1, <2>3 DEF HelpWatched, EmbedsTheTable
  <2>5. QED
    BY <2>1, <2>2, <2>4, SyncedIsSound
<1>3. ASSUME NEW i \in Builds, Help!StartWithoutCorpus(i) \/ Help!IndexingFails(i)
      PROVE  HelpInv'
  <2>1. v1' = v1 /\ v4' = v4 + 1
    BY <1>3 DEF Help!StartWithoutCorpus, Help!IndexingFails
  <2>2. PICK held \in HelpStates : v2' = [v2 EXCEPT ![i] = held]
    <3>1. CASE Help!StartWithoutCorpus(i)
      <4>1. [step |-> "indexing", loaded |-> FALSE, batch |-> {}] \in HelpStates
        BY DEF HelpStates
      <4>2. QED
        BY <3>1, <4>1 DEF Help!StartWithoutCorpus, Help!Sets
    <3>2. CASE Help!IndexingFails(i)
      <4>1. v2[i] \in HelpStates
        OBVIOUS
      <4>2. [v2[i] EXCEPT !.step = "idle", !.batch = {}] \in HelpStates
        BY <4>1 DEF HelpStates
      <4>3. QED
        BY <3>2, <4>2 DEF Help!IndexingFails, Help!Sets
    <3>3. QED
      BY <1>3, <3>1, <3>2
  <2>3. v2' \in [Builds -> HelpStates]
    BY <2>2
  <2>4. QED
    BY <2>1, <2>3 DEF HelpVectors, HelpWatched
<1>4. ASSUME NEW i \in Builds, Help!LoadForSearch(i)
      PROVE  HelpInv'
  <2>1. v1' = Help!Synced(i) /\ v4' = v4 /\ v4 # 0
    BY <1>4 DEF Help!LoadForSearch, HelpWatched
  <2>2. v2' \in [Builds -> HelpStates]
    BY <1>4 DEF Help!LoadForSearch, Help!Sets, HelpStates
  <2>3. QED
    BY <2>1, <2>2, SyncedIsSound DEF HelpWatched
<1>5. ASSUME NEW i \in Builds, Help!FindStale(i)
      PROVE  HelpInv'
  <2> DEFINE stale == {d \in DOMAIN v1 : Help!Stale(d, HelpModels[i])}
  <2>1. PICK first \in SUBSET stale :
          v2' = [v2 EXCEPT ![i] = [v2[i] EXCEPT !.step = IF stale = {} THEN "idle" ELSE "embedding",
                                                !.batch = {[id |-> d, text |-> v1[d].text] : d \in first}]]
    BY <1>5, Zenon DEF Help!FindStale, Help!Sets
  <2>2. v1' = v1 /\ v4' = v4 /\ v2[i].step = "indexing"
    BY <1>5 DEF Help!FindStale
  <2>3. \A d \in DOMAIN v1 : v1[d].text \in HelpWords
    BY DEF HelpRows
  <2> DEFINE held == {[id |-> d, text |-> v1[d].text] : d \in first}
  <2>4. held \in SUBSET [id : HelpIds, text : HelpWords]
    BY <2>1, <2>3
  <2>5. v2[i] \in HelpStates
    OBVIOUS
  <2>6. v2'[i] = [v2[i] EXCEPT !.step = IF stale = {} THEN "idle" ELSE "embedding", !.batch = held]
        /\ v2'[i] \in HelpStates /\ \A j \in Builds \ {i} : v2'[j] = v2[j]
    BY <2>1, <2>4, <2>5 DEF HelpStates
  <2>7. v2' \in [Builds -> HelpStates]
    BY <2>1, <2>6
  <2>8. stale = {} => \A d \in DOMAIN v1 : v1[d].hash = v1[d].text
    BY DEF Help!Stale
  <2>9. stale # {} => EmbedsTheTable(v1', v2'[i])
    <3>1. stale # {} => v2'[i].step = "embedding"
      BY <2>5, <2>6 DEF HelpStates
    <3>2. v2'[i].batch = held
      BY <2>5, <2>6 DEF HelpStates
    <3>3. \A w \in held : w.id \in DOMAIN v1 /\ v1[w.id].text = w.text
      BY <2>1
    <3>4. QED
      BY <2>2, <3>1, <3>2, <3>3 DEF EmbedsTheTable
  <2>10. v2'[i].loaded = v2[i].loaded
    BY <2>5, <2>6 DEF HelpStates
  <2>11. HelpWatched'
    BY <2>2, <2>6, <2>8, <2>9, <2>10 DEF HelpWatched
  <2>12. QED
    BY <2>2, <2>7, <2>11 DEF HelpVectors
<1>6. ASSUME NEW i \in Builds, NEW w \in v2[i].batch, Help!UpdateEmbedding(i, w)
      PROVE  HelpInv'
  <2> DEFINE rest == v2[i].batch \ {w}
             fits == w.id \in DOMAIN v1 /\ v1[w.id].text = w.text
  <2>1. PICK step \in {"idle", "indexing", "ending", "embedding"} :
          /\ v2' = [v2 EXCEPT ![i] = [v2[i] EXCEPT !.batch = rest, !.step = step]]
          /\ v2[i].step = "embedding" /\ fits => step \in {"indexing", "embedding"}
    BY <1>6 DEF Help!UpdateEmbedding, Help!Sets
  <2>2. v4' = v4 /\ v2[i].step \in {"embedding", "ending"}
    BY <1>6 DEF Help!UpdateEmbedding
  <2>3. v2[i] \in HelpStates /\ rest \in SUBSET [id : HelpIds, text : HelpWords]
    BY DEF HelpStates
  <2>4. v2'[i] = [v2[i] EXCEPT !.batch = rest, !.step = step] /\ v2'[i] \in HelpStates
        /\ \A j \in Builds \ {i} : v2'[j] = v2[j]
    BY <2>1, <2>3 DEF HelpStates
  <2>5. v2' \in [Builds -> HelpStates]
    BY <2>1, <2>4
  <2>6. v2'[i].batch = rest /\ v2'[i].step = step /\ v2'[i].loaded = v2[i].loaded
    BY <2>3, <2>4 DEF HelpStates
  <2>7. \A j \in Builds : EmbedsTheTable(v1, v2[j]) => EmbedsTheTable(v1', v2'[j])
    <3> SUFFICES ASSUME NEW j \in Builds, EmbedsTheTable(v1, v2[j])
                 PROVE  EmbedsTheTable(v1', v2'[j])
      OBVIOUS
    <3>1. CASE j = i
      BY <1>6, <2>1, <2>2, <2>6, <3>1, EmbeddingKeeps DEF EmbedsTheTable
    <3>2. CASE j # i
      BY <1>6, <2>4, <3>2, EmbeddingKeeps DEF EmbedsTheTable
    <3>3. QED
      BY <3>1, <3>2
  <2>8. HelpWatched'
    BY <1>6, <2>2, <2>4, <2>6, <2>7, EmbeddingKeeps DEF HelpWatched
  <2>9. QED
    BY <1>6, <2>2, <2>5, <2>8, EmbeddingKeeps
<1>7. ASSUME NEW i \in Builds, Help!Stop(i)
      PROVE  HelpInv'
  <2>1. v1' = v1 /\ v4' = v4 /\ v2' = [v2 EXCEPT ![i] = Help!Off] /\ v2[i].step = "idle"
    BY <1>7 DEF Help!Stop, Help!Sets
  <2>2. Help!Off \in HelpStates /\ Help!Off.step = "off"
    BY DEF Help!Off, HelpStates
  <2>3. v2' \in [Builds -> HelpStates] /\ v2'[i] = Help!Off /\ \A j \in Builds \ {i} : v2'[j] = v2[j]
    BY <2>1, <2>2
  <2>4. HelpWatched'
    BY <2>1, <2>2, <2>3 DEF HelpWatched, EmbedsTheTable
  <2>5. QED
    BY <2>1, <2>3, <2>4 DEF HelpVectors
<1>8. QED
  BY <1>1, <1>2, <1>3, <1>4, <1>5, <1>6, <1>7 DEF Help!Next

\* Whichever builds started in which order, a search never ranks a document by a vector of
\* another text or model, and once no instance indexes and none has failed every document
\* has a vector of its text (application-help-index.service.ts).
THEOREM HelpIsIndexed == Spec => []IndexIsTrue
<1> DEFINE Inv == part = "help" => HelpInv
<1>1. Init => Inv
  BY PartInit, HelpInit
<1>2. Inv /\ [Next]_vars => Inv'
  BY PartNext, HelpStep
<1>3. Inv => IndexIsTrue
  <2> SUFFICES ASSUME HelpInv PROVE Help!IndexIsTrue
    BY DEF IndexIsTrue
  <2>1. ASSUME NEW i \in Builds, NEW d \in Help!Searched(HelpModels[i])
        PROVE  v1[d].vector = [of |-> v1[d].text, by |-> HelpModels[i]]
    BY DEF Help!Searched, Help!Stale, HelpInv, HelpVectors, ClaimsItsVector
  <2>2. ASSUME v4 = 0, \A j \in Builds : v2[j].step \in {"off", "idle"}, NEW d \in DOMAIN v1
        PROVE  v1[d].hash = v1[d].text
    BY <2>2 DEF HelpInv, HelpWatched, EmbedsTheTable
  <2>3. QED
    BY <2>1, <2>2 DEF Help!IndexIsTrue
<1>4. QED
  BY <1>1, <1>2, <1>3, PTL DEF Spec
-----------------------------------------------------------------------------
(* EpubImport: v1 is the phase, v8 the rows that were created, v9 the      *)
(* bucket, v10 the keys the import remembers and v11 counts failures.      *)
(*                                                                         *)
(* Nothing is created while the book is parsed; afterwards nothing has     *)
(* failed until the clean-up, and the import remembers every image.        *)

Untouched == v8 = Import!NothingCreated /\ v9 = {} /\ v10 = {} /\ v11 = 0

ImportInv ==
  /\ v11 \in Nat
  /\ v1 \in {"spine", "blocks", "create"} => Untouched
  /\ v1 \in {"import", "scene"} => v11 = 0 /\ v9 \subseteq v10
  /\ v1 = "cleanup" => v11 > 0 /\ v9 \subseteq v10
  /\ v1 = "failed" /\ v11 <= 1 => v8 = Import!NothingCreated /\ v9 = {}

LEMMA ImportInit ==
  ASSUME Import!Init
  PROVE  ImportInv
BY DEF Import!Init, ImportInv, Untouched

\* Reading the book creates nothing.
LEMMA ParsingKeeps ==
  ASSUME ImportInv, v1 \in {"spine", "blocks"}, v1' \in {"spine", "blocks", "failed", "create"},
         UNCHANGED <<v8, v9, v10, v11>>
  PROVE  ImportInv'
BY DEF ImportInv, Untouched

LEMMA ImportStep ==
  ASSUME ImportInv, Import!Next
  PROVE  ImportInv'
<1>1. ASSUME Import!BeginDocument
      PROVE  ImportInv'
  <2>1. ASSUME NEW found, Import!AddDocument(found)
        PROVE  v1' \in {"spine", "failed"}
    BY <2>1 DEF Import!AddDocument
  <2>2. v1 = "spine" /\ UNCHANGED <<v8, v9, v10, v11>>
    BY <1>1 DEF Import!BeginDocument, Import!importVars
  <2>3. v1' \in {"spine", "failed", "blocks"}
    BY <1>1, <2>1 DEF Import!BeginDocument
  <2>4. QED
    BY <2>2, <2>3, ParsingKeeps
<1>2. ASSUME Import!ReadBlock
      PROVE  ImportInv'
  <2>1. v1 = "blocks" /\ UNCHANGED <<v1, v8, v9, v10, v11>>
    BY <1>2 DEF Import!ReadBlock, Import!importVars
  <2>2. QED
    BY <2>1, ParsingKeeps
<1>3. ASSUME Import!EndDocument
      PROVE  ImportInv'
  <2>1. /\ v1 = "blocks" /\ UNCHANGED <<v8, v9, v10, v11>>
        /\ v1' \in {"spine", "failed"}
    BY <1>3 DEF Import!EndDocument, Import!AddDocument, Import!importVars
  <2>2. QED
    BY <2>1, ParsingKeeps
<1>4. ASSUME Import!EndSpine \/ Import!CannotRead
      PROVE  ImportInv'
  <2>1. /\ v1 = "spine" /\ UNCHANGED <<v8, v9, v10, v11>>
        /\ v1' \in {"failed", "create"}
    BY <1>4 DEF Import!EndSpine, Import!CannotRead, Import!importVars
  <2>2. QED
    BY <2>1, ParsingKeeps
<1>5. ASSUME Import!CreateProject \/ Import!CreateChapter
      PROVE  ImportInv'
  <2>1. v1 \in {"create", "import"} /\ v1' = "import" /\ UNCHANGED <<v9, v10, v11>>
    BY <1>5 DEF Import!CreateProject, Import!CreateChapter
  <2>2. QED
    BY <2>1 DEF ImportInv, Untouched
<1>6. ASSUME Import!AttachImages
      PROVE  ImportInv'
  <2>1. PICK stored : v9' = v9 \cup stored /\ v10' = v10 \cup stored
    BY <1>6 DEF Import!AttachImages
  <2>2. v1 = "import" /\ v1' = "scene" /\ v11' = v11
    BY <1>6 DEF Import!AttachImages
  <2>3. QED
    BY <2>1, <2>2 DEF ImportInv
<1>7. ASSUME Import!CreateScene
      PROVE  ImportInv'
  <2>1. v1 = "scene" /\ v1' = "import" /\ UNCHANGED <<v9, v10, v11>>
    BY <1>7 DEF Import!CreateScene
  <2>2. QED
    BY <2>1 DEF ImportInv
<1>8. ASSUME Import!Imported
      PROVE  ImportInv'
  <2>1. v1' = "imported" /\ v11' = v11
    BY <1>8 DEF Import!Imported, Import!importVars
  <2>2. QED
    BY <2>1 DEF ImportInv
<1>9. ASSUME Import!CreateFails
      PROVE  ImportInv'
  <2>1. /\ v1 \in {"create", "import", "scene"} /\ v11' = v11 + 1 /\ UNCHANGED <<v8, v9, v10>>
        /\ v1' = IF v1 = "create" THEN "failed" ELSE "cleanup"
    BY <1>9 DEF Import!CreateFails
  <2>2. v11' \in Nat /\ v11' > 0
    BY <2>1 DEF ImportInv
  <2>3. QED
    BY <2>1, <2>2 DEF ImportInv, Untouched
<1>10. ASSUME NEW left \in SUBSET v10, NEW removed \in BOOLEAN, Import!CleanUp(left, removed)
       PROVE  ImportInv'
  <2>1. /\ v1 = "cleanup" /\ v1' = "failed"
        /\ v11' = IF left # {} \/ ~removed THEN v11 + 1 ELSE v11
        /\ v9' = (v9 \ v10) \cup left
        /\ v8' = IF removed THEN Import!NothingCreated ELSE v8
    BY <1>10 DEF Import!CleanUp
  <2>2. v11 \in Nat /\ v11 > 0 /\ v9 \subseteq v10
    BY <2>1 DEF ImportInv
  <2>3. v11' \in Nat /\ (v11' <= 1 => left = {} /\ removed)
    BY <2>1, <2>2
  <2>4. QED
    BY <2>1, <2>2, <2>3 DEF ImportInv
<1>11. QED
  BY <1>1, <1>2, <1>3, <1>4, <1>5, <1>6, <1>7, <1>8, <1>9, <1>10 DEF Import!Next

\* However far an import of any book had come, one that fails leaves no project and no image
\* behind, unless the clean-up fails as well (epub-import.service.ts).
THEOREM FailedImportsVanish == Spec => []FailedImportLeavesNothing
<1> DEFINE Inv == part = "import" => ImportInv
<1>1. Init => Inv
  BY PartInit, ImportInit
<1>2. Inv /\ [Next]_vars => Inv'
  <2> SUFFICES ASSUME ImportInv, part = "import", [Next]_vars
               PROVE  ImportInv'
    BY PartNext
  <2>1. CASE Import!Next
    BY <2>1, ImportStep
  <2>2. CASE UNCHANGED <<v1, v2, v3, v4, v5, v6, v7, v8, v9, v10, v11>>
    BY <2>2 DEF ImportInv, Untouched
  <2>3. QED
    BY <2>1, <2>2, PartNext
<1>3. Inv => FailedImportLeavesNothing
  BY DEF ImportInv, FailedImportLeavesNothing, Import!FailedImportLeavesNothing
<1>4. QED
  BY <1>1, <1>2, <1>3, PTL DEF Spec
=============================================================================
