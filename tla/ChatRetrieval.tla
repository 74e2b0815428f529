---------------------------- MODULE ChatRetrieval ----------------------------
(***************************************************************************)
(* Questions the chat answers without the model: how often a word appears  *)
(* and where something is first mentioned (src/chat/chat.service.ts).      *)
(*                                                                         *)
(* The chunks are found by a case-insensitive but accent-sensitive search  *)
(* of the database and read in pages while the author may save a scene,    *)
(* which replaces its chunks; what was found is then counted or ordered    *)
(* without regard to accents.  A first mention is searched with the words  *)
(* of the question and of the last two questions before it.  A text is how *)
(* often it has the word of the question without accents, how often with   *)
(* accents, and whether it has a word of the questions before.             *)
(***************************************************************************)
EXTENDS Sequences, FiniteSetsExt

CONSTANTS
  Ids,           \* chunk ids, numbers, in the order of the database
  Scenes,        \* numbers, in the order of the book
  SortKey,       \* the place the database gives a scene by its keys
  Manuscripts,   \* the texts to begin with
  Saved,         \* the chunks a scene can be saved as
  PageSize,      \* MAX_ORDERED_CHUNK_CANDIDATES, 5,000
  PrimaryLimit,  \* PRIMARY_CHAT_SOURCE_LIMIT, 3
  MaxSaves       \* bound

Chunk == [scene : Scenes, index : Nat, plain : Nat, accented : Nat, earlier : BOOLEAN]

\* Finitely many chunks, no two at the same place of a scene.
IsManuscript(rows) ==
  /\ DOMAIN rows \subseteq Ids /\ IsFiniteSet(DOMAIN rows)
  /\ \A id \in DOMAIN rows : rows[id] \in Chunk
  /\ \A a, b \in DOMAIN rows :
       a # b => rows[a].scene # rows[b].scene \/ rows[a].index # rows[b].index

RetrievalAssumption ==
  /\ Ids \subseteq Nat /\ Scenes \subseteq Nat /\ IsFiniteSet(Scenes)
  /\ Saved \subseteq Chunk /\ \A rows \in Manuscripts : IsManuscript(rows)
  /\ SortKey \in [Scenes -> Nat] /\ IsInjective(SortKey)
  /\ PageSize \in Nat \ {0} /\ PrimaryLimit \in Nat /\ MaxSaves \in Nat

VARIABLES
  chunks,        \* the Chunk rows: id -> [scene, index, plain, accented, earlier]
  semantic,      \* ids the vector search returned
  question,      \* "count", "first", or "followed": a first mention after other questions
  step,          \* where the answer is
  found,         \* the chunks read so far, with their ids
  overlapped,    \* a scene was saved between two of the reads
  saves

retrievalVars == <<chunks, semantic, question, step, found, overlapped, saves>>

Init ==
  /\ chunks \in Manuscripts
  /\ semantic \in SUBSET DOMAIN chunks
  /\ question \in {"count", "first", "followed"}
  /\ step = "search"
  /\ found = <<>>
  /\ overlapped = FALSE
  /\ saves = 0

Row(id) == [id |-> id, chunk |-> chunks[id]]

\* buildChunkWhere: a count is of the word of the question and uses the vectors, a first
\* mention uses every word retrieveSources took from the messages.
Matches(id) ==
  \/ chunks[id].plain > 0
  \/ question = "count" /\ id \in semantic
  \/ question = "followed" /\ chunks[id].earlier

Occurrences(chunk) == chunk.plain + chunk.accented

\* orderBy: ids for a count, else the keys and the index within the scene.
RowBefore(a, b) ==
  IF question = "count" THEN a < b
  ELSE \/ SortKey[chunks[a].scene] < SortKey[chunks[b].scene]
       \/ /\ chunks[a].scene = chunks[b].scene
          /\ chunks[a].index < chunks[b].index

\* A page of at most PageSize rows among these.
Page(ids) ==
  LET At(i) == CHOOSE id \in ids : Cardinality({other \in ids : RowBefore(other, id)}) = i - 1
  IN [i \in 1..Min({PageSize, Cardinality(ids)}) |-> Row(At(i))]

Candidates == {id \in DOMAIN chunks : Matches(id)}

FullPage(page) == question = "count" /\ Len(page) = PageSize
-----------------------------------------------------------------------------
FetchFirstPage ==
  /\ step = "search"
  /\ found' = Page(Candidates)
  /\ step' = IF FullPage(found') THEN "more" ELSE "found"
  /\ UNCHANGED <<chunks, semantic, question, overlapped, saves>>

\* Mutant of RowsAfter: the row of the cursor is not skipped.
RowsFrom(cursor) == IF cursor \in DOMAIN chunks THEN {id \in Candidates : id >= cursor} ELSE {}

\* A cursor whose row was replaced finds nothing.
RowsAfter(cursor) == IF cursor \in DOMAIN chunks THEN {id \in Candidates : id > cursor} ELSE {}

AppendRemainingChunks ==
  /\ step = "more"
  /\ LET page == Page(RowsAfter(found[Len(found)].id))
     IN /\ found' = found \o page
        /\ step' = IF FullPage(page) THEN "more" ELSE "found"
  /\ UNCHANGED <<chunks, semantic, question, overlapped, saves>>

\* A scene is saved: rows with new ids take the place of the ones it had.
SaveScene(scene, saved) ==
  LET kept == {id \in DOMAIN chunks : chunks[id].scene # scene}
      free == {id \in Ids \ DOMAIN chunks : \A i \in DOMAIN found : found[i].id # id}
  IN /\ saves < MaxSaves
     /\ step # "found"
     /\ saves' = saves + 1
     /\ \E id \in free :
          chunks' = [i \in kept \cup {id} |-> IF i = id THEN [saved EXCEPT !.scene = scene]
                                             ELSE chunks[i]]
     /\ semantic' = semantic \cap DOMAIN chunks'
     /\ overlapped' = (overlapped \/ step = "more")
     /\ UNCHANGED <<question, step, found>>

Next ==
  \/ FetchFirstPage \/ AppendRemainingChunks
  \/ \E scene \in Scenes, saved \in Saved : SaveScene(scene, saved)

Spec == Init /\ [][Next]_retrievalVars
-----------------------------------------------------------------------------
(* The answers *)

\* aggregateCountSources and buildCountEvidenceAnswer: the coincidences of each chapter
\* (here a scene), and their sum.
CountIn(scene) ==
  SumFunctionOnSet([i \in DOMAIN found |-> Occurrences(found[i].chunk)],
                   {i \in DOMAIN found : found[i].chunk.scene = scene})

Counted == {scene \in Scenes : CountIn(scene) > 0}

CountAnswer == [total |-> SumFunctionOnSet([scene \in Scenes |-> CountIn(scene)], Counted),
                chapters |-> Cardinality(Counted),
                shown |-> Min({PrimaryLimit, Cardinality(Counted)})]

\* rankManuscriptSources and buildFirstMentionEvidenceAnswer: in the order of the book;
\* within a scene the sort leaves the order of the database.
FirstMention ==
  LET first == Min({found[i].chunk.scene : i \in DOMAIN found})
  IN found[Min({i \in DOMAIN found : found[i].chunk.scene = first})].id
-----------------------------------------------------------------------------
(* Properties *)

Earlier(a, b) ==
  \/ chunks[a].scene < chunks[b].scene
  \/ chunks[a].scene = chunks[b].scene /\ chunks[a].index < chunks[b].index

\* The two answers without the model, when no save disturbed them, are exact.  A count
\* covers all pages: every chunk that has the word without accents, or that the vectors
\* returned, is counted once with all its occurrences, though only the first sources are
\* shown.  (A chunk that has the word only with accents is counted only if the vectors
\* return it.)  As long as one page holds every mention, a first mention is the first of
\* the book, although the database orders scenes by other keys: of the word of the
\* question when nothing was asked before, else of it or a word of the last two
\* questions, so the asked word is not mentioned before, but may not be in it.
AnswersAreExact ==
  step = "found" /\ ~overlapped =>
    /\ question = "count" =>
         CountAnswer.total = SumFunctionOnSet([id \in DOMAIN chunks |-> Occurrences(chunks[id])],
                                              Candidates)
    /\ question # "count" /\ found # <<>> /\ Cardinality(Candidates) <= PageSize =>
         /\ \A id \in DOMAIN chunks \ {FirstMention} :
              chunks[id].plain > 0 \/ (question = "followed" /\ chunks[id].earlier) =>
                Earlier(FirstMention, id)
         /\ chunks[FirstMention].plain > 0 \/ (question = "followed" /\ chunks[FirstMention].earlier)
=============================================================================
