------------------------------ MODULE MCLibrary ------------------------------
(***************************************************************************)
(* Components that share no state, each on a small instance, in one run: a *)
(* behaviour is a behaviour of one of them, the one called part, whose     *)
(* variables are the first of v1, v2, ... and the rest None.  Calls of all *)
(* components are told apart by Actors, files and chunks by Files.         *)
(* MCAudits composes the two components of the audit in the same way,      *)
(* MCAnswers two of the chat, MCManuscript the chunking of scenes and the  *)
(* import of books; MCCounts is the counts and first mentions of the chat. *)
(***************************************************************************)
EXTENDS MCAudits, MCAnswers, MCManuscript, MCCounts, TLC

CONSTANTS None, Gone, Actors, another, Files,
          a, b, c, x     \* texts, statements, images and projects

\* What the theorems leave open; the names are those of the components.
CONSTANTS MaxChanges,                                  \* Sharing
          FileFailures,                                \* StoredFiles
          Images, PictureUrls, MaxCuts,                \* ImageGallery
          Writers, Projects, Attempts, MaxFailures,    \* AccountDeletion
          Providers, Gemini, ServerKeys, MaxKeys,      \* AiSettings
          EntityNames, AttributeValues, Extracted, FirstEntities,
          MaxCandidates, MaxEdits, MaxProposals,       \* KnowledgeMerge
          Step, MaxEvents, MaxMoves, FirstEvents, RacedMoves,    \* Timeline
          Builds, HelpTexts, HelpModels, HelpBatch, MaxStarts, HelpFailures,    \* HelpIndex
          Texts, Models, BatchSize, MaxTextSaves, MaxReleases    \* ChatIndex

vars == <<part, v1, v2, v3, v4, v5, v6, v7, v8, v9, v10, v11>>

Upto(n, S) == UNION {[1..k -> S] : k \in 0..n}
-----------------------------------------------------------------------------
(* Reading and files *)

Share == INSTANCE Sharing WITH
  share <- v1, reading <- v2, comments <- v3, changes <- v4,
  Readings <- Actors

Stored == INSTANCE StoredFiles WITH
  kind <- v1, row <- v2, bucket <- v3, uploaded <- v4, call <- v5, pending <- v6,
  poller <- v7, overtaken <- v8, failures <- v9,
  Calls <- Actors \cup {another}, Keys <- Files, NoKey <- None, MaxFailures <- FileFailures

Gallery == INSTANCE ImageGallery WITH
  made <- v1, image <- v2, url <- v3, editor <- v4, cuts <- v5, disturbed <- v6,
  authored <- v7, Editors <- Actors, NoImage <- None, Elsewhere <- Gone,
  AuthorUrls <- {None, Gone} \cup PictureUrls

Account == INSTANCE AccountDeletion WITH
  user <- v1, identity <- v2, project <- v3, files <- v4, events <- v5, deletion <- v6,
  writer <- v7, admitted <- v8, failures <- v9,
  Deletions <- Actors
-----------------------------------------------------------------------------
(* Manuscript *)

Piece(kind, number, fits, image) == [kind |-> kind, number |-> number, fits |-> fits, image |-> image]
Text == Piece("text", 0, FALSE, None)
Pictured == Piece("text", 0, FALSE, a)
Picture == Piece("empty", 0, FALSE, b)
Named == Piece("named", 0, FALSE, None)
Chapter1 == Piece("heading", 1, FALSE, None)
Two == Piece("numeral", 2, TRUE, None)
Three == Piece("numeral", 3, TRUE, None)
Divider == Piece("scene", 0, FALSE, None)
Year == Piece("year", 0, FALSE, None)
Intro == Piece("intro", 0, FALSE, None)
Cover == Piece("book", 0, FALSE, None)

Document(front, title, blocks) == [front |-> front, title |-> [label |-> title, number |-> 0],
                                   blocks |-> blocks]
Plain(blocks) == Document(FALSE, "plain", blocks)

Books ==
  {<<Plain(s)>> : s \in Upto(3, {Text, Named, Two, Three, Divider, Year})}
  \cup {<<Plain(s), Plain(t)>> :
          s \in {<<Chapter1, Text>>, <<Chapter1, Pictured, Divider, Text>>, <<Picture>>, <<Intro, Text>>},
          t \in [1..3 -> {Text, Two, Three, Pictured}] \cup {<<Two, Text, Text, Three, Text>>}}
  \cup {<<Document(TRUE, "plain", <<Pictured>>),
          Plain(<<Cover, Year, Pictured, Named, Picture, [Three EXCEPT !.fits = FALSE], Text>>),
          Document(FALSE, "intro", <<Text, Divider, Pictured>>)>>}

\* A sentence is the lengths of its words.
Sentences == {<<1>>, <<1, 1>>, <<2>>, <<6>>, <<1, 1, 1, 1>>, <<3, 3>>}

MCChunkedTexts ==
  Upto(2, Upto(2, Sentences)) \cup [1..3 -> {<< <<1>> >>, << <<2>> >>, << <<1, 1, 1, 1>>, <<1>> >>}]
-----------------------------------------------------------------------------
(* Knowledge *)

Say(aliases, description, attribute) ==
  [aliases |-> aliases, description |-> description, attribute |-> attribute]

Merge == INSTANCE KnowledgeMerge WITH
  entity <- v1, proposals <- v2, job <- v3, edits <- v4, heard <- v5, preceded <- v6,
  Names <- EntityNames, Values <- AttributeValues, Candidates <- Extracted, Unset <- None

MCExtracted == {Say({"n1", "n3"}, <<a>>, None), Say({}, <<b>>, "v1"), Say({}, <<a, c>>, None),
                 Say({}, <<>>, "v1")}

\* The entity before the first analysis.
MCFirstEntities ==
  {[name |-> "n1", aliases |-> {}, description |-> d, attribute |-> None, locks |-> {}] : d \in {<<>>, <<a>>}}

MergeInit == Merge!Init /\ v1 \in FirstEntities

Line == INSTANCE Timeline WITH
  position <- v1, created <- v2, request <- v3, moves <- v4, raced <- v5,
  Requests <- Actors

\* Few events to begin with, and fewer moves when placements race.
LineInit == Line!Init /\ v2 = FirstEvents
LineNext == Line!Next /\ (v5' => v4' <= RacedMoves)
-----------------------------------------------------------------------------
(* Values of the constants of the audit. *)

MCSceneClaims == {[f \in {} |-> 0], [f \in {"f"} |-> 1], [f \in {"f"} |-> 2], [f \in {"f", "g"} |-> 1]}

\* Three empty scenes, or three of which the neighbours contradict each other.
MCFirstOrders == {<<1, 2, 3>>}
MCFirstClaims == {[s \in 1..3 |-> [f \in {} |-> 0]], [s \in 1..3 |-> [f \in {"f"} |-> 1 + (s % 2)]]}

MCSceneTexts == {<<a, b>>, <<a, b, c>>, <<b, a>>, <<x, x, a, b>>}
MCClaimOf == a :> 1 @@ b :> 2 @@ c :> 1 @@ x :> 0
-----------------------------------------------------------------------------
(* Settings, help and chat *)

Settings == INSTANCE AiSettings WITH
  active <- v1, selection <- v2, call <- v3, overlapped <- v4, saves <- v5,
  Calls <- Actors, MaxSaves <- MaxKeys

Help == INSTANCE HelpIndex WITH
  table <- v1, instance <- v2, starts <- v3, failures <- v4,
  Instances <- Builds, Corpus <- HelpTexts, Profile <- HelpModels, BatchSize <- HelpBatch,
  MaxFailures <- HelpFailures

\* Two builds with the same model, of which one has another text, and one with another model.
MCHelpTexts == [i \in Builds |-> IF i = "old" THEN <<"t1", "t2", "t3">> ELSE <<"t1", "u2">>]
MCHelpModels == [i \in Builds |-> IF i = "next" THEN "q" ELSE "p"]

\* Two chunks and their vectors.
Index == INSTANCE ChatIndex WITH
  chunk <- v1, model <- v2, indexing <- v3, writes <- v4, question <- v5, saves <- v6,
  releases <- v7,
  Questions <- Actors, Chunks <- Files, MaxSaves <- MaxTextSaves
-----------------------------------------------------------------------------
(* Answers *)

\* Three scenes, the second of which the database puts last.
Passage(scene, index, plain, accented, earlier) ==
  [scene |-> scene, index |-> index, plain |-> plain, accented |-> accented, earlier |-> earlier]

MCFirstManuscripts ==
  {<<Passage(2, 1, 1, 0, FALSE), Passage(1, 1, l, 1, l = 0), Passage(3, 1, m, 1, FALSE),
     Passage(2, 2, n, 0, TRUE), Passage(1, 2, o, 1, FALSE)>> : l \in {0, 2}, m, n, o \in 0..1}
MCSavedChunks == {Passage(1, 1, m, n, m = 0) : m, n \in 0..1}
MCSceneKeys == <<1, 3, 2>>

Quoted(source) == [source |-> source, quoted |-> TRUE]
Misquoted(source) == [source |-> source, quoted |-> FALSE]

MCRetrievals == {<<>>, <<1, 2, 3, 4>>}

\* No claims; one of a source that was not retrieved; two that share a source; one
\* without evidence; one with a quote that is not in its source.
MCGenerated == {<<>>, << <<Quoted(5)>> >>, << <<Quoted(2)>>, <<Quoted(1), Quoted(2)>> >>,
                << <<Quoted(1)>>, <<>> >>, << <<Misquoted(2)>> >>}

\* In hundreds of characters.
MCSourceSize == [manuscript |-> 16, wiki |-> 15, timeline |-> 12]

\* Sources are retrieved for the message that is first; what comes while it is answered,
\* or afterwards, is answered with a fixed text.
RetrievesForTheFirst ==
  part = "exchange" =>
    \A r \in Messages : v3[r].phase = "route" /\ v3'[r].phase = "retrieve" =>
      v2 = <<>> /\ \A other \in Messages \ {r} : v3[other].phase \in {"idle", "failed"}

\* Some of the numbers of wiki pages.
FewWikiPages == part = "sources" => v2.wiki \in {0, 1, 2, 5, 9, 10}
-----------------------------------------------------------------------------
(* What the components assume of their constants, those composed elsewhere apart. *)
ASSUME PartsAssumption ==
  /\ Share!ChangesAssumption /\ Stored!KeyAssumption /\ Gallery!ImagesAssumption
  /\ Account!AttemptsAssumption
  /\ Merge!TextsAssumption /\ Line!TimelineAssumption /\ Settings!GeminiAssumption
  /\ Index!BatchAssumption /\ Index!NoneAssumption

\* The variables from the n-th on.
Unused(n) ==
  /\ IF n <= 4 THEN v4 = None ELSE TRUE
  /\ IF n <= 5 THEN v5 = None ELSE TRUE
  /\ IF n <= 6 THEN v6 = None ELSE TRUE
  /\ IF n <= 7 THEN v7 = None ELSE TRUE
  /\ IF n <= 8 THEN v8 = None /\ v9 = None ELSE TRUE
  /\ IF n <= 10 THEN v10 = None ELSE TRUE
  /\ IF n <= 11 THEN v11 = None ELSE TRUE

Same(n) ==
  /\ part' = part
  /\ IF n <= 4 THEN v4' = v4 ELSE TRUE
  /\ IF n <= 5 THEN v5' = v5 ELSE TRUE
  /\ IF n <= 6 THEN v6' = v6 ELSE TRUE
  /\ IF n <= 7 THEN v7' = v7 ELSE TRUE
  /\ IF n <= 8 THEN UNCHANGED <<v8, v9>> ELSE TRUE
  /\ IF n <= 10 THEN v10' = v10 ELSE TRUE
  /\ IF n <= 11 THEN v11' = v11 ELSE TRUE

Init ==
  \/ part = "sharing" /\ Share!Init /\ Unused(5)
  \/ part = "files" /\ Stored!Init /\ Unused(10)
  \/ part = "gallery" /\ Gallery!Init /\ Unused(8)
  \/ part = "account" /\ Account!Init /\ Unused(10)
  \/ BookInit
  \/ ChunksInit /\ Unused(4)
  \/ part = "knowledge" /\ MergeInit /\ Unused(7)
  \/ part = "timeline" /\ LineInit /\ Unused(6)
  \/ AuditsInit /\ Unused(11)
  \/ part = "settings" /\ Settings!Init /\ Unused(6)
  \/ part = "help" /\ Help!Init /\ Unused(5)
  \/ part = "index" /\ Index!Init /\ Unused(8)
  \/ CountsInit /\ Unused(8)
  \/ AnswersInit /\ FewWikiPages /\ Unused(5)

Next ==
  \/ part = "sharing" /\ Share!Next /\ Same(5)
  \/ part = "files" /\ Stored!Next /\ Same(10)
  \/ part = "gallery" /\ Gallery!Next /\ Same(8)
  \/ part = "account" /\ Account!Next /\ Same(10)
  \/ BookNext
  \/ ChunksNext /\ Same(4)
  \/ part = "knowledge" /\ Merge!Next /\ Same(7)
  \/ part = "timeline" /\ LineNext /\ Same(6)
  \/ AuditsNext /\ Same(11)
  \/ part = "settings" /\ Settings!Next /\ Same(6)
  \/ part = "help" /\ Help!Next /\ Same(5)
  \/ part = "index" /\ Index!Next /\ Same(8)
  \/ CountsNext /\ Same(8)
  \/ AnswersNext /\ RetrievesForTheFirst /\ Same(5)

Spec == Init /\ [][Next]_vars

Symmetry == Permutations(Actors) \cup Permutations(Files)
-----------------------------------------------------------------------------
(* The properties of the components, as they are stated there; those of the *)
(* audit are in MCAudits, those of the answers in MCAnswers and MCCounts,   *)
(* those of the chunking and the import in MCManuscript.                    *)

\* Sharing: a reader who was revoked is shown and stores nothing.
RevokedAdmitsNobody == part = "sharing" => Share!RevokedAdmitsNobody

\* StoredFiles: a file in use is deleted only by who decided on an older row.
LostOnlyWhenOvertaken == [][part = "files" => Stored!OnlyTheOvertakenLose]_vars

\* ImageGallery: the two records of an entity's picture agree.
PictureAgrees == part = "gallery" => Gallery!PictureAgrees

\* AccountDeletion: the data are gone before the identity.
DataGoneBeforeIdentity == part = "account" => Account!DataGoneBeforeIdentity

\* KnowledgeMerge: what an analysis extracted is where the author can see it.
FactsReachTheAuthor == part = "knowledge" => Merge!FactsReachTheAuthor

\* KnowledgeMerge: a locked value is not replaced without a warning.
LockedValueIsWarned == [][part = "knowledge" => Merge!LockedIsWarned]_vars

\* Timeline: an event is placed where it was asked for.
PlacedWhereAsked == [][part = "timeline" => Line!PlacementsAreKept]_vars

\* AiSettings: an analysis finds the key that is selected.
SelectedKeyIsFound == [][part = "settings" => Settings!RefusedForCause]_vars

\* HelpIndex: a search ranks by vectors of the current text.
IndexIsTrue == part = "help" => Help!IndexIsTrue

\* ChatIndex: a search compares a question with what the scenes say now.
SearchSeesCurrentText == part = "index" => Index!SearchSeesCurrentText
=============================================================================
