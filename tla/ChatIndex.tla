------------------------------ MODULE ChatIndex ------------------------------
(***************************************************************************)
(* Semantic retrieval of the chat: src/chat/chat-embedding-index.service   *)
(* over the vector and stale-chunk stores, while scenes are saved.         *)
(*                                                                         *)
(* A question first embeds one batch of chunks whose vector is missing or  *)
(* of another text or model; questions of a project that arrive meanwhile  *)
(* share that batch through a map held in memory.  The batch is read, sent *)
(* to the provider and written row by row; each write names the hash it    *)
(* was computed for.  The store keeps a row's text as its content hash.    *)
(***************************************************************************)
EXTENDS Naturals, FiniteSets

CONSTANTS
  Chunks, Texts, Models,
  Questions,    \* questions of one project
  None,         \* no row yet, no vector
  Gone,         \* the row was deleted
  BatchSize,    \* INDEX_BATCH_SIZE
  MaxSaves,     \* bound: saves of the author
  MaxReleases   \* bound: restarts with another embedding model

BatchAssumption == BatchSize \in Nat \ {0}
NoneAssumption == {None, Gone} \cap (Texts \cup Models) = {}

VARIABLES
  chunk,        \* rows: text, vector (text and model it is of), and the hash and
                \* model the row claims for it
  model,        \* model of the running process
  indexing,     \* the promise of indexingByProject: phase, and its batch
  writes,       \* updateChunkEmbedding calls on their way
  question,     \* what each search holds
  saves, releases

indexVars == <<chunk, model, indexing, writes, question, saves, releases>>

NoVector == [text |-> None, model |-> None]
NoRow == [text |-> None, vector |-> NoVector, hash |-> None, model |-> None]
NoIndexing == [phase |-> "none", batch |-> {}]
NotAsked == [phase |-> "idle", matches |-> {}]

Exists(c) == chunk[c].text \notin {None, Gone}
Waiting(q) == question[q].phase = "waiting"

Init ==
  /\ chunk \in [Chunks -> {NoRow} \cup {[NoRow EXCEPT !.text = t] : t \in Texts}]
  /\ model \in Models
  /\ indexing = NoIndexing
  /\ writes = {}
  /\ question = [q \in Questions |-> NotAsked]
  /\ saves = 0 /\ releases = 0
-----------------------------------------------------------------------------
(* Saves *)

\* syncSceneChunks rewrites the text and the hash of a row and leaves its vector, and
\* the hash and model of the vector, as they are.
SaveText(c, t) ==
  /\ saves < MaxSaves
  /\ chunk[c].text # Gone
  /\ t # chunk[c].text
  /\ t = Gone => Exists(c)
  /\ chunk' = [chunk EXCEPT ![c].text = t]
  /\ saves' = saves + 1
  /\ UNCHANGED <<model, indexing, writes, question, releases>>

\* A new release: what is in memory, and what was on its way, is gone.
Restart(m) ==
  /\ releases < MaxReleases
  /\ releases' = releases + 1
  /\ model' = m
  /\ indexing' = NoIndexing
  /\ writes' = {}
  /\ question' = [q \in Questions |->
       IF question[q].phase = "idle" THEN NotAsked
       ELSE [question[q] EXCEPT !.phase = "done"]]
  /\ UNCHANGED <<chunk, saves>>
-----------------------------------------------------------------------------
(* One batch *)

\* findStaleChunks: rows whose vector is missing, of another text or another model.
Stale(c) ==
  /\ Exists(c)
  /\ \/ chunk[c].vector = NoVector
     \/ chunk[c].hash # chunk[c].text
     \/ chunk[c].model # model

\* search joins the batch under way or begins one.
Ask(q) ==
  /\ question[q].phase = "idle"
  /\ question' = [question EXCEPT ![q].phase = "waiting"]
  /\ indexing' = IF indexing.phase = "none" THEN [phase |-> "find", batch |-> {}]
                 ELSE indexing
  /\ UNCHANGED <<chunk, model, writes, saves, releases>>

\* The promise is settled: its entry is removed from the map, and every question
\* that waits for it goes on, with the index or, if it failed, without.
Settle(phase) ==
  /\ indexing' = NoIndexing
  /\ question' = [q \in Questions |->
       IF Waiting(q) THEN [question[q] EXCEPT !.phase = phase] ELSE question[q]]

FindStaleChunks ==
  /\ indexing.phase = "find"
  /\ LET stale == {c \in Chunks : Stale(c)} IN
     IF stale = {} THEN Settle("search")
     ELSE /\ \E batch \in SUBSET stale :
               /\ batch # {}
               /\ Cardinality(batch) <= BatchSize
               /\ batch # stale => Cardinality(batch) = BatchSize
               /\ indexing' = [phase |-> "embed",
                               batch |-> {[id |-> c, text |-> chunk[c].text] : c \in batch}]
          /\ UNCHANGED question
  /\ UNCHANGED <<chunk, model, writes, saves, releases>>

EmbedDocuments ==
  /\ indexing.phase = "embed"
  /\ indexing' = [indexing EXCEPT !.phase = "write"]
  /\ writes' = writes \cup indexing.batch
  /\ UNCHANGED <<chunk, model, question, saves, releases>>

\* Mutant of UpdateChunkEmbedding: a write names the row and not the text it was computed for.
UpdateRowOfAnyText(w) ==
  /\ w \in writes
  /\ writes' = writes \ {w}
  /\ chunk' = IF Exists(w.id)
              THEN [chunk EXCEPT ![w.id] =
                      [@ EXCEPT !.vector = [text |-> w.text, model |-> model],
                                !.hash = chunk[w.id].text, !.model = model]]
              ELSE chunk
  /\ UNCHANGED <<model, indexing, question, saves, releases>>

\* updateChunkEmbedding: nothing happens unless the row still has that text.
UpdateChunkEmbedding(w) ==
  /\ w \in writes
  /\ writes' = writes \ {w}
  /\ chunk' = IF chunk[w.id].text = w.text
              THEN [chunk EXCEPT ![w.id] =
                      [@ EXCEPT !.vector = [text |-> w.text, model |-> model],
                                !.hash = w.text, !.model = model]]
              ELSE chunk
  /\ UNCHANGED <<model, indexing, question, saves, releases>>

FinishBatch ==
  /\ indexing.phase = "write"
  /\ indexing.batch \cap writes = {}
  /\ Settle("search")
  /\ UNCHANGED <<chunk, model, writes, saves, releases>>

\* The provider or the database fails: the writes that are on their way go on.
BatchFails ==
  /\ indexing.phase # "none"
  /\ Settle("done")
  /\ UNCHANGED <<chunk, model, writes, saves, releases>>
-----------------------------------------------------------------------------
(* The question *)

\* The store compares only rows whose vector is of their text and of the model.
Searchable(c) ==
  /\ Exists(c)
  /\ chunk[c].vector # NoVector
  /\ chunk[c].hash = chunk[c].text
  /\ chunk[c].model = model

Search(q) ==
  /\ question[q].phase = "search"
  /\ question' = [question EXCEPT ![q] = [phase |-> "done",
                    matches |-> {c \in Chunks : Searchable(c)}]]
  /\ UNCHANGED <<chunk, model, indexing, writes, saves, releases>>

\* The client goes away: the batch it began or joined goes on for the others.
AbortQuestion(q) ==
  /\ question[q].phase \in {"waiting", "search"}
  /\ question' = [question EXCEPT ![q].phase = "done"]
  /\ UNCHANGED <<chunk, model, indexing, writes, saves, releases>>

IndexStep ==
  \/ FindStaleChunks \/ EmbedDocuments \/ FinishBatch
  \/ \E w \in writes : UpdateChunkEmbedding(w)

Next ==
  \/ IndexStep \/ BatchFails
  \/ \E c \in Chunks, t \in Texts \cup {Gone} : SaveText(c, t)
  \/ \E m \in Models : Restart(m)
  \/ \E q \in Questions : Ask(q) \/ Search(q) \/ AbortQuestion(q)

Spec == Init /\ [][Next]_indexVars
-----------------------------------------------------------------------------
(* Properties *)

\* A search compares a question with what the scenes say now: the vector of a row it
\* may return was computed from the row's present text by the model of the running
\* process, whatever was saved while a batch was with the provider and however late
\* the writes of a failed batch arrive.
SearchSeesCurrentText ==
  \A c \in Chunks : Searchable(c) => chunk[c].vector = [text |-> chunk[c].text, model |-> model]
=============================================================================
