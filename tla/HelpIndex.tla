------------------------------ MODULE HelpIndex ------------------------------
(***************************************************************************)
(* The index of PlumIA's own help that the chat searches                   *)
(* (application-help-index.service.ts, pg-application-help-store.adapter.ts). *)
(* Every server instance brings the corpus of its build, writes it to the  *)
(* shared table when it starts, and embeds in the background what is       *)
(* stale, batch by batch.  Instances of two builds run side by side while  *)
(* a release replaces one by the other.                                    *)
(***************************************************************************)
EXTENDS Naturals, FiniteSets

CONSTANTS
  Instances,     \* server instances
  Corpus,        \* per instance: the text of each help document of its build
  Profile,       \* per instance: the embedding model and its dimensions
  BatchSize,     \* EMBEDDING_BATCH_SIZE, 24 in the code
  None,
  MaxStarts,     \* bound on starts of instances
  MaxFailures    \* bound on failures of the embedding model and of the file or table

VARIABLES
  table,         \* document -> [text, vector, hash, profile]
  instance,      \* what each instance does
  starts, failures

helpVars == <<table, instance, starts, failures>>

Off == [step |-> "off", loaded |-> FALSE, batch |-> {}]

Init ==
  /\ table = <<>>
  /\ instance = [i \in Instances |-> Off]
  /\ starts = 0 /\ failures = 0

Sets(i, to) == instance' = [instance EXCEPT ![i] = to]

New(t) == [text |-> t, vector |-> None, hash |-> None, profile |-> None]

\* syncSnapshot: a row keeps its vector when its text changes; the documents the corpus
\* does not have are deleted.
Synced(i) ==
  [d \in DOMAIN Corpus[i] |->
     IF d \in DOMAIN table THEN [table[d] EXCEPT !.text = Corpus[i][d]] ELSE New(Corpus[i][d])]

\* onModuleInit: the indexing starts whether or not the corpus could be written.
Start(i) ==
  /\ starts < MaxStarts /\ starts' = starts + 1
  /\ instance[i] = Off
  /\ table' = Synced(i)
  /\ Sets(i, [step |-> "indexing", loaded |-> TRUE, batch |-> {}])
  /\ UNCHANGED failures

StartWithoutCorpus(i) ==
  /\ starts < MaxStarts /\ starts' = starts + 1
  /\ failures < MaxFailures /\ failures' = failures + 1
  /\ instance[i] = Off
  /\ Sets(i, [step |-> "indexing", loaded |-> FALSE, batch |-> {}])
  /\ UNCHANGED table

\* ensureSnapshot on behalf of a search.
LoadForSearch(i) ==
  /\ instance[i].step # "off" /\ ~ instance[i].loaded
  /\ table' = Synced(i)
  /\ Sets(i, [instance[i] EXCEPT !.loaded = TRUE])
  /\ UNCHANGED <<starts, failures>>

\* A mutant of Stale.
NeverEmbedded(d, p) == table[d].vector = None \/ table[d].profile # p

Stale(d, p) == table[d].vector = None \/ table[d].hash # table[d].text \/ table[d].profile # p

\* findStaleChunks: the first ones by their id; the indexing ends when there is none.
FindStale(i) ==
  /\ instance[i].step = "indexing" /\ instance[i].batch = {}
  /\ LET stale == {d \in DOMAIN table : Stale(d, Profile[i])}
         first == {d \in stale : Cardinality({e \in stale : e < d}) < BatchSize}
     IN  Sets(i, [instance[i] EXCEPT !.step = IF stale = {} THEN "idle" ELSE "embedding",
                                     !.batch = {[id |-> d, text |-> table[d].text] : d \in first}])
  /\ UNCHANGED <<table, starts, failures>>

\* updateEmbedding, for one document after the other in any order: only while the row
\* has the text that was embedded.  One that has not ends the indexing when all are done.
UpdateEmbedding(i, c) ==
  /\ instance[i].step \in {"embedding", "ending"} /\ c \in instance[i].batch
  /\ LET fits == c.id \in DOMAIN table /\ table[c.id].text = c.text IN
     /\ table' = IF fits
                 THEN [table EXCEPT ![c.id] = [@ EXCEPT !.vector = [of |-> c.text, by |-> Profile[i]],
                                                        !.hash = c.text, !.profile = Profile[i]]]
                 ELSE table
     /\ LET batch == instance[i].batch \ {c}
            ending == instance[i].step = "ending" \/ ~ fits
        IN  Sets(i, [instance[i] EXCEPT !.batch = batch,
                                        !.step = IF batch = {} THEN IF ending THEN "idle" ELSE "indexing"
                                                 ELSE IF ending THEN "ending" ELSE "embedding"])
  /\ UNCHANGED <<starts, failures>>

\* The embedding model or a query fails: "indexing will resume on a later start".
IndexingFails(i) ==
  /\ failures < MaxFailures /\ failures' = failures + 1
  /\ instance[i].step \in {"indexing", "embedding", "ending"}
  /\ Sets(i, [instance[i] EXCEPT !.step = "idle", !.batch = {}])
  /\ UNCHANGED <<table, starts>>

Stop(i) ==
  /\ instance[i].step = "idle"
  /\ Sets(i, Off)
  /\ UNCHANGED <<table, starts, failures>>

Next ==
  \E i \in Instances :
    \/ Start(i)
    \/ StartWithoutCorpus(i)
    \/ LoadForSearch(i)
    \/ FindStale(i)
    \/ \E c \in instance[i].batch : UpdateEmbedding(i, c)
    \/ IndexingFails(i)
    \/ Stop(i)

Spec == Init /\ [][Next]_helpVars

\* search asks for the vectors of this profile whose hash is the row's.
Searched(p) == {d \in DOMAIN table : ~ Stale(d, p)}

\* A search never ranks a document by a vector of another text or of another model, and
\* once no instance indexes and none has failed, every document has a vector of its
\* text, whichever builds started in which order over one another's batches.
IndexIsTrue ==
  /\ (\A i \in Instances : \A d \in Searched(Profile[i]) :
        table[d].vector = [of |-> table[d].text, by |-> Profile[i]])
  /\ failures = 0 /\ (\A j \in Instances : instance[j].step \in {"off", "idle"}) =>
       \A d \in DOMAIN table : table[d].hash = table[d].text
=============================================================================
