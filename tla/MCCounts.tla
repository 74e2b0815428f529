------------------------------- MODULE MCCounts -------------------------------
(***************************************************************************)
(* The questions the chat answers without the model, one of the components *)
(* of MCLibrary: the one called "retrieval".                               *)
(***************************************************************************)
EXTENDS MCParts, Naturals

CONSTANTS ChunkIds, StoryScenes, SceneKeys, FirstManuscripts, SavedChunks,
          PageRows, ShownSources, SceneSaves

countsVars == <<part, v1, v2, v3, v4, v5, v6, v7>>

Retrieval == INSTANCE ChatRetrieval WITH
  chunks <- v1, semantic <- v2, question <- v3, step <- v4, found <- v5, overlapped <- v6,
  saves <- v7,
  Ids <- ChunkIds, Scenes <- StoryScenes, SortKey <- SceneKeys,
  Manuscripts <- FirstManuscripts, Saved <- SavedChunks,
  PageSize <- PageRows, PrimaryLimit <- ShownSources, MaxSaves <- SceneSaves

\* What the component assumes of its constants.
ASSUME CountsAssumption == Retrieval!RetrievalAssumption

CountsInit == part = "retrieval" /\ Retrieval!Init

CountsNext == part' = part /\ part = "retrieval" /\ Retrieval!Next

CountsSpec == CountsInit /\ [][CountsNext]_countsVars
-----------------------------------------------------------------------------
\* ChatRetrieval: counts and first mentions are those of the whole manuscript.
AnswersAreExact == part = "retrieval" => Retrieval!AnswersAreExact
=============================================================================
