------------------------------- MODULE MCAnswers -------------------------------
(***************************************************************************)
(* The answers of the chat and the selection of their sources, two of the  *)
(* components of MCLibrary: a behaviour is one of the one called part.     *)
(***************************************************************************)
EXTENDS MCParts, Naturals, Sequences

CONSTANTS
  Messages, Excerpts, Retrievals, Generated, MaxTitles,    \* ChatExchange
  MaxManuscript, MaxWiki, MaxTimeline, MaxContext, MaxSize, SourceSize    \* ChatSources

answersVars == <<part, v1, v2, v3, v4>>

Exchange == INSTANCE ChatExchange WITH
  thread <- v1, messages <- v2, request <- v3, renames <- v4,
  Requests <- Messages, Sources <- Excerpts, Retrieved <- Retrievals, Answers <- Generated,
  Renames <- MaxTitles

Selection == INSTANCE ChatSources WITH
  query <- v1, ranked <- v2, computed <- v3, context <- v4, Size <- SourceSize

\* What the two components assume of their constants.
ASSUME AnswersAssumption == Exchange!ExchangeAssumption /\ Selection!SizeAssumption

AnswersInit ==
  \/ part = "exchange" /\ Exchange!Init
  \/ part = "sources" /\ Selection!Init

AnswersNext ==
  /\ part' = part
  /\ \/ part = "exchange" /\ Exchange!Next
     \/ part = "sources" /\ Selection!Next

AnswersSpec == AnswersInit /\ [][AnswersNext]_answersVars
-----------------------------------------------------------------------------
(* The properties of the two components, as they are stated there. *)

\* ChatExchange: the numbers after a statement are the places of its sources, and every
\* model call is charged.
AnswersAreSound == part = "exchange" => Exchange!AnswersAreSound

\* ChatSources: the context has of every kind of source what it should.
NoKindIsCrowdedOut == part = "sources" => Selection!NoKindIsCrowdedOut
=============================================================================
