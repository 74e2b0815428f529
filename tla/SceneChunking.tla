---------------------------- MODULE SceneChunking ----------------------------
(***************************************************************************)
(* How the text of a scene is cut into chunks:                             *)
(* src/manuscript/domain/scene-chunking.ts.                                *)
(*                                                                         *)
(* A text is a sequence of blocks, a block a sequence of sentences, a      *)
(* sentence a sequence of words, and a word its length in characters.  The *)
(* chunks hold the words by their place <<block, sentence, word>>.  One    *)
(* step plans the chunks of a text.                                        *)
(***************************************************************************)
EXTENDS SequencesExt

CONSTANTS
  Texts,         \* the texts of scenes
  MaxChars, MaxWords   \* 2,600 and 420 in the code

LimitAssumption == MaxChars \in Nat \ {0} /\ MaxWords \in Nat \ {0}

\* No sentence is empty; a block may be.
TextsAssumption == Texts \subseteq Seq(Seq(Seq(Nat) \ {<<>>}))

VARIABLES text, planned, chunks

chunkingVars == <<text, planned, chunks>>

Init ==
  /\ text \in Texts
  /\ planned = FALSE
  /\ chunks = <<>>

CharsOf(w) == text[w[1]][w[2]][w[3]]

\* Characters of words with one space between two of them.
Chars(words) ==
  LET upto[n \in 0..Len(words)] ==
        IF n = 0 THEN 0 ELSE upto[n - 1] + CharsOf(words[n]) + (IF n = 1 THEN 0 ELSE 1)
  IN upto[Len(words)]

Words(b, s) == [w \in DOMAIN text[b][s] |-> <<b, s, w>>]
Sentences(b) == [s \in DOMAIN text[b] |-> Words(b, s)]

Fits(words) == Chars(words) <= MaxChars /\ Len(words) <= MaxWords
-----------------------------------------------------------------------------
(* The ChunkBuilder: finished chunks, the current one and its characters, counted with   *)
(* the separator (two between blocks although the chunk has one).                        *)

NewBuilder == [chunks |-> <<>>, current |-> <<>>, chars |-> 0]

Flush(builder) ==
  [NewBuilder EXCEPT !.chunks = IF builder.current = <<>> THEN builder.chunks
                                ELSE Append(builder.chunks, builder.current)]

\* appendTextChunk, and what appendBlock does with a block that is not too large.
AppendPiece(builder, words, separator) ==
  LET Gap(current) == IF current = <<>> THEN 0 ELSE separator
      chars == builder.chars + Chars(words) + Gap(builder.current)
      full == /\ builder.current # <<>>
              /\ chars > MaxChars \/ Len(builder.current) + Len(words) > MaxWords
      room == IF full THEN Flush(builder) ELSE builder
  IN [room EXCEPT !.current = @ \o words, !.chars = @ + Chars(words) + Gap(room.current)]

\* appendWords.
AppendWords(builder, words) ==
  LET after[n \in 0..Len(words)] ==
        IF n = 0 THEN builder ELSE AppendPiece(after[n - 1], <<words[n]>>, 1)
  IN after[Len(words)]

\* appendSentence.
AppendSentence(builder, words) ==
  IF Fits(words) THEN AppendPiece(builder, words, 1) ELSE AppendWords(Flush(builder), words)

\* splitOversizedBlock: a builder of its own, emptied at the end.
SplitOversizedBlock(b) ==
  LET after[n \in 0..Len(text[b])] ==
        IF n = 0 THEN NewBuilder ELSE AppendSentence(after[n - 1], Words(b, n))
  IN Flush(after[Len(text[b])]).chunks

\* Mutant of AppendBlock: the current chunk is not closed before an oversized block.
AppendBlockAround(builder, b) ==
  LET words == FlattenSeq(Sentences(b))
  IN IF words = <<>> THEN builder
     ELSE IF Fits(words) THEN AppendPiece(builder, words, 2)
     ELSE [builder EXCEPT !.chunks = @ \o SplitOversizedBlock(b)]

AppendBlock(builder, b) ==
  LET words == FlattenSeq(Sentences(b))
      closed == Flush(builder)
  IN IF words = <<>> THEN builder
     ELSE IF Fits(words) THEN AppendPiece(builder, words, 2)
     ELSE [closed EXCEPT !.chunks = @ \o SplitOversizedBlock(b)]

ChunkBlocks ==
  LET after[n \in 0..Len(text)] == IF n = 0 THEN NewBuilder ELSE AppendBlock(after[n - 1], n)
  IN Flush(after[Len(text)]).chunks

PlanSceneChunks ==
  /\ ~planned
  /\ planned' = TRUE
  /\ chunks' = ChunkBlocks
  /\ UNCHANGED text

Next == PlanSceneChunks

Spec == Init /\ [][Next]_chunkingVars
-----------------------------------------------------------------------------
(* Properties *)

\* The chunks are the text: every word once, in the order of the scene, in chunks that
\* are not empty and keep to both limits unless a single word is longer; a sentence
\* that fits a chunk is never cut in two.
ChunksAreTheText ==
  planned =>
    /\ FlattenSeq(chunks) = FlattenSeq([b \in DOMAIN text |-> FlattenSeq(Sentences(b))])
    /\ \A i \in DOMAIN chunks : chunks[i] # <<>> /\ (Fits(chunks[i]) \/ Len(chunks[i]) = 1)
    /\ \A b \in DOMAIN text : \A s \in DOMAIN text[b] :
         Fits(Words(b, s)) =>
           \E i \in DOMAIN chunks : ToSet(Words(b, s)) \subseteq ToSet(chunks[i])
=============================================================================
