----------------------------- MODULE MCManuscript -----------------------------
(***************************************************************************)
(* The components of the manuscript that compute what they store from a    *)
(* text, two of those of MCLibrary: the chunking of scenes is called       *)
(* "chunking", the import of a book "import".                              *)
(***************************************************************************)
EXTENDS MCParts, Naturals, Sequences

CONSTANTS ChunkedTexts, ChunkChars, ChunkWords,                      \* SceneChunking
          Spines, MaxChapters, Pictures, NoPicture, ImportFailures   \* EpubImport
-----------------------------------------------------------------------------
(* SceneChunking *)

chunksVars == <<part, v1, v2, v3>>

Chunking == INSTANCE SceneChunking WITH
  text <- v1, planned <- v2, chunks <- v3,
  Texts <- ChunkedTexts, MaxChars <- ChunkChars, MaxWords <- ChunkWords

\* What the component assumes of its constants.
ASSUME ChunksAssumption == Chunking!LimitAssumption /\ Chunking!TextsAssumption

ChunksInit == part = "chunking" /\ Chunking!Init

ChunksNext == part' = part /\ part = "chunking" /\ Chunking!Next

ChunksSpec == ChunksInit /\ [][ChunksNext]_chunksVars

\* SceneChunking: the chunks are the text, within their limits.
ChunksAreTheText == part = "chunking" => Chunking!ChunksAreTheText
-----------------------------------------------------------------------------
(* EpubImport *)

bookVars == <<part, v1, v2, v3, v4, v5, v6, v7, v8, v9, v10, v11>>

Import == INSTANCE EpubImport WITH
  phase <- v1, spine <- v2, place <- v3, blocks <- v4, outline <- v5, state <- v6, catalog <- v7,
  created <- v8, bucket <- v9, uploadedKeys <- v10, failures <- v11,
  Images <- Pictures, NoImage <- NoPicture, MaxFailures <- ImportFailures

\* What the component assumes of its constants.
ASSUME BooksAssumption == Import!BoundAssumption /\ Import!SpinesAssumption

BookInit == part = "import" /\ Import!Init

BookNext == part' = part /\ part = "import" /\ Import!Next

BookSpec == BookInit /\ [][BookNext]_bookVars

\* EpubImport: the scenes hold the text of the book, in its order.
StoryIsKept == part = "import" => Import!StoryIsKept

\* EpubImport: an import that fails leaves nothing behind.
FailedImportLeavesNothing == part = "import" => Import!FailedImportLeavesNothing
=============================================================================
