----------------------------- MODULE EpubImport -----------------------------
(***************************************************************************)
(* Importing a book from an EPUB: the outline the parser makes of the      *)
(* documents of the spine (manuscript/domain/epub-import.parser.ts) and    *)
(* the project that is created of it                                       *)
(* (manuscript/services/epub-import.service.ts).                           *)
(*                                                                         *)
(* A block is what its text tells the parser; it is known afterwards by    *)
(* its place <<document, block>> in the spine.  Of the archive, the XML and *)
(* the formatting inside a block the model keeps what comes of them: which *)
(* documents are skipped, what they are called, which images there are,    *)
(* and that a file may be missing, damaged or too large.                   *)
(***************************************************************************)
EXTENDS SequencesExt

CONSTANTS
  Spines,        \* the books to import: sequences of documents
  MaxChapters,   \* 500 in the code
  Images,        \* the sources of the images books show
  NoImage,
  MaxFailures    \* bound: failures of the bucket and of the database

(* A document is [front, title, blocks]: front tells that the document is  *)
(* skipped (not linear, the navigation itself, cover, colophon...), title  *)
(* is what the navigation or its first heading calls it.  A block is       *)
(* [kind, number, fits, image]: its kind, the roman number it is or begins *)
(* with (0 for none), whether a numeral has the class of the next block    *)
(* and that one is short, and an image.  Numerals are paragraphs.          *)
Kinds == {"text", "heading", "named", "scene", "numeral", "year", "book", "intro", "empty"}

Title(label, number) == [label |-> label, number |-> number]

Document == [front : BOOLEAN,
             title : [label : {"plain", "intro"}, number : Nat],
             blocks : Seq([kind : Kinds, number : Nat, fits : BOOLEAN,
                           image : Images \cup {NoImage}])]

BoundAssumption == MaxChapters \in Nat /\ MaxFailures \in Nat

SpinesAssumption == Spines \subseteq Seq(Document)

VARIABLES
  spine,         \* the book
  phase,
  place,         \* the document being read, and the next of its blocks
  blocks,        \* the blocks of that document
  outline,       \* chapters of the documents before
  state,         \* LogicalChapterState of this document
  catalog,       \* images that were loaded
  created,       \* the rows: project, chapters, scenes (with the images they show)
  bucket,        \* objects of the bucket
  uploadedKeys,
  failures

parserVars == <<spine, place, blocks, outline, state, catalog>>
importVars == <<created, bucket, uploadedKeys, failures>>
epubVars == <<phase, parserVars, importVars>>

Block(id) == spine[id[1]].blocks[id[2]]
KindOf(id) == Block(id).kind
ImageOf(id) == Block(id).image

\* isFrontMatterDocument, by its path, its title in the navigation or what it says.
IsFront(d) == spine[d].front

\* chapterTitleFromDocument and tocTitles.
TitleOf(d) == spine[d].title

NoChapter == [title |-> Title("none", 0), scenes |-> <<>>]

EmptyState == [chapters |-> <<>>, chapter |-> NoChapter, sceneTitle |-> "Texto",
               scene |-> <<>>, prelude |-> <<>>]

HasChapter(st) == st.chapter # NoChapter

NothingCreated == [project |-> FALSE, chapters |-> 0, scenes |-> <<>>]

Init ==
  /\ spine \in Spines
  /\ phase = "spine"
  /\ place = [document |-> 1, block |-> 1]
  /\ blocks = <<>> /\ outline = <<>>
  /\ state = EmptyState
  /\ catalog = {}
  /\ created = NothingCreated
  /\ bucket = {} /\ uploadedKeys = {} /\ failures = 0
-----------------------------------------------------------------------------
(* Boundaries *)

\* The members of a sequence that are in a set, in their order.
Among(s, chosen) ==
  LET among[i \in 0..Len(s)] ==
        IF i = 0 THEN <<>>
        ELSE IF s[i] \in chosen THEN Append(among[i - 1], s[i]) ELSE among[i - 1]
  IN among[Len(s)]

\* contentBlocksWithoutPreamble: what has no text is dropped, and so are a year and the
\* title of the book among the first three blocks.
ContentBlocks(d) ==
  LET ids == [i \in DOMAIN spine[d].blocks |-> <<d, i>>]
      withText == Among(ids, {id \in ToSet(ids) : KindOf(id) # "empty"})
      preamble == {withText[i] : i \in {j \in DOMAIN withText :
                      j <= 3 /\ KindOf(withText[j]) \in {"year", "book"}}}
  IN Among(withText, ToSet(withText) \ preamble)

NoBoundary == [kind |-> "none", title |-> Title("none", 0), consumeNext |-> FALSE]
ChapterAt(title, consumes) == [kind |-> "chapter", title |-> title, consumeNext |-> consumes]

\* romanChapterBoundary: a numeral, one of several, and the paragraph after it.
Numerals(bs) == {i \in DOMAIN bs : KindOf(bs[i]) = "numeral"}
IsParagraph(id) == KindOf(id) \in {"text", "named", "scene", "numeral", "year"}

RomanChapter(bs, i) ==
  /\ i \in Numerals(bs) /\ Numerals(bs) # {i}
  /\ Block(bs[i]).fits
  /\ i < Len(bs) /\ IsParagraph(bs[i + 1])

StructuralBoundary(bs, i) ==
  LET block == Block(bs[i])
  IN CASE block.kind = "scene" -> [NoBoundary EXCEPT !.kind = "scene"]
       [] block.kind \in {"named", "heading"} -> ChapterAt(Title("plain", block.number), FALSE)
       [] RomanChapter(bs, i) -> ChapterAt(Title("plain", block.number), TRUE)
       [] OTHER -> NoBoundary

Boundaries(bs) == [i \in DOMAIN bs |-> StructuralBoundary(bs, i)]
-----------------------------------------------------------------------------
(* LogicalChapterState *)

FlushScene(st) ==
  [st EXCEPT !.scene = <<>>,
     !.chapter.scenes = IF HasChapter(st) /\ st.scene # <<>>
                        THEN Append(@, [title |-> st.sceneTitle, blocks |-> st.scene]) ELSE @]

FlushChapter(st) ==
  LET f == FlushScene(st)
  IN [f EXCEPT !.chapters = IF f.chapter.scenes # <<>> THEN Append(@, f.chapter) ELSE @,
               !.chapter = NoChapter, !.sceneTitle = "Texto"]

\* A chapter for the blocks found before the first boundary.
OpenWithPrelude(st, title) ==
  [st EXCEPT !.chapter = [NoChapter EXCEPT !.title = title],
             !.sceneTitle = "Texto", !.scene = st.prelude, !.prelude = <<>>]

\* Mutant of BeginChapter: the blocks before the first chapter are left behind.
BeginChapterOnly(st, title) == [FlushChapter(st) EXCEPT !.chapter = [NoChapter EXCEPT !.title = title]]

BeginChapter(st, title) ==
  LET before == IF ~HasChapter(st) /\ st.prelude # <<>>
                THEN OpenWithPrelude(st, Title("intro", 0)) ELSE st
  IN [FlushChapter(before) EXCEPT !.chapter = [NoChapter EXCEPT !.title = title]]

BeginScene(st, default) ==
  LET open == IF HasChapter(st) THEN st ELSE OpenWithPrelude(st, default)
  IN [FlushScene(open) EXCEPT !.sceneTitle = "scene"]

AddBlock(st, id) ==
  IF HasChapter(st) THEN [st EXCEPT !.scene = Append(@, id)]
  ELSE [st EXCEPT !.prelude = Append(@, id)]

\* finishLogicalChapters; a chapter that opened has taken the prelude.
Finish(st, default) ==
  FlushChapter(IF ~HasChapter(st) /\ st.prelude # <<>> THEN OpenWithPrelude(st, default) ELSE st)

\* What logicalChapters returns: one chapter alone has the document's title.
ChaptersOf(bs, st, default) ==
  LET chapters == Finish(st, default).chapters
  IN IF Len(chapters) = 1 THEN << [chapters[1] EXCEPT !.title = default] >> ELSE chapters

\* Without boundaries the document is a chapter of one scene.
OneScene(bs, default) ==
  << [title |-> default, scenes |-> << [title |-> "Texto", blocks |-> bs] >>] >>

\* mergeLeadingIntroduction: the text before chapter n + 1 continues chapter n.
ContinuesBefore(chapters, found) ==
  /\ Len(found) >= 2 /\ chapters # <<>>
  /\ found[1].title.label = "intro" /\ Len(found[1].scenes) = 1
  /\ Last(chapters).title.number # 0
  /\ found[2].title.number = Last(chapters).title.number + 1

Merged(chapters, found) ==
  IF ~ContinuesBefore(chapters, found) THEN chapters \o found
  ELSE LET last == Len(chapters)
           end == Len(chapters[last].scenes)
       IN [chapters EXCEPT ![last].scenes[end].blocks = @ \o found[1].scenes[1].blocks]
          \o Tail(found)
-----------------------------------------------------------------------------
(* parseSpine *)

ImagesOf(d) == {ImageOf(<<d, i>>) : i \in DOMAIN spine[d].blocks} \ {NoImage}

\* Each source is looked up once, in the first document that shows it.
NewSources(d) == ImagesOf(d) \ UNION {ImagesOf(e) : e \in {k \in 1..(d - 1) : ~IsFront(k)}}

\* loadImageAsset: of those, the ones the archive has in a size and a format it accepts.
Loadable(d) == SUBSET NewSources(d)

AddDocument(found) ==
  LET all == Merged(outline, found)
  IN /\ outline' = all
     /\ phase' = IF Len(all) > MaxChapters THEN "failed" ELSE "spine"
     /\ place' = [document |-> place.document + 1, block |-> 1]

\* readArchiveText, parseXml: a file is missing, damaged, too large or no XML, or the
\* archive is larger than it may be.
CannotRead ==
  /\ phase = "spine" /\ place.document <= Len(spine)
  /\ phase' = "failed"
  /\ UNCHANGED <<parserVars, importVars>>

BeginDocument ==
  LET d == place.document
      bs == ContentBlocks(d)
  IN /\ phase = "spine" /\ d <= Len(spine)
     /\ blocks' = bs
     /\ state' = EmptyState
     /\ IF IsFront(d)
        THEN AddDocument(<<>>) /\ UNCHANGED catalog
        ELSE /\ \E loaded \in Loadable(d) : catalog' = catalog \cup loaded
             /\ IF bs = <<>> THEN AddDocument(<<>>)
                ELSE IF \A i \in DOMAIN bs : Boundaries(bs)[i] = NoBoundary
                THEN AddDocument(OneScene(bs, TitleOf(d)))
                ELSE phase' = "blocks" /\ UNCHANGED <<outline, place>>
     /\ UNCHANGED <<spine, importVars>>

ReadBlock ==
  LET i == place.block
      default == TitleOf(place.document)
      boundary == Boundaries(blocks)[i]
  IN /\ phase = "blocks" /\ i <= Len(blocks)
     /\ place' = [place EXCEPT !.block = i + 1]
     /\ state' = IF i > 1 /\ Boundaries(blocks)[i - 1].consumeNext THEN state
                 ELSE CASE boundary.kind = "chapter" -> BeginChapter(state, boundary.title)
                        [] boundary.kind = "scene" -> BeginScene(state, default)
                        [] OTHER -> AddBlock(state, blocks[i])
     /\ UNCHANGED <<phase, spine, blocks, outline, catalog, importVars>>

EndDocument ==
  /\ phase = "blocks" /\ place.block > Len(blocks)
  /\ AddDocument(ChaptersOf(blocks, state, TitleOf(place.document)))
  /\ UNCHANGED <<spine, blocks, state, catalog, importVars>>

EndSpine ==
  /\ phase = "spine" /\ place.document > Len(spine)
  /\ phase' = IF outline = <<>> THEN "failed" ELSE "create"
  /\ UNCHANGED <<parserVars, importVars>>
-----------------------------------------------------------------------------
(* EpubImportService: project, book, chapters and scenes, one after the other *)

Scenes == FlattenSeq([k \in DOMAIN outline |->
            [s \in DOMAIN outline[k].scenes |-> [chapter |-> k, scene |-> outline[k].scenes[s]]]])

NextScene == Len(created.scenes) + 1

CreateProject ==
  /\ phase = "create"
  /\ created' = [created EXCEPT !.project = TRUE]
  /\ phase' = "import"
  /\ UNCHANGED <<parserVars, bucket, uploadedKeys, failures>>

CreateChapter ==
  /\ phase = "import"
  /\ NextScene <= Len(Scenes) /\ Scenes[NextScene].chapter > created.chapters
  /\ created' = [created EXCEPT !.chapters = @ + 1]
  /\ UNCHANGED <<phase, parserVars, bucket, uploadedKeys, failures>>

\* The keys of a scene's images: its number, and the block that shows the image.
KeysOf(n) == {<<n, id>> : id \in {i \in ToSet(Scenes[n].scene.blocks) : ImageOf(i) \in catalog}}

\* Mutant of AttachImages: the keys of what was uploaded are not remembered.
UploadOnly ==
  /\ phase = "import"
  /\ NextScene <= Len(Scenes) /\ Scenes[NextScene].chapter = created.chapters
  /\ \E stored \in SUBSET KeysOf(NextScene) : bucket' = bucket \cup stored
  /\ phase' = "scene"
  /\ UNCHANGED <<parserVars, created, uploadedKeys, failures>>

\* attachImages: an image whose upload fails is taken out of the text.
AttachImages ==
  /\ phase = "import"
  /\ NextScene <= Len(Scenes) /\ Scenes[NextScene].chapter = created.chapters
  /\ \E stored \in SUBSET KeysOf(NextScene) :
       bucket' = bucket \cup stored /\ uploadedKeys' = uploadedKeys \cup stored
  /\ phase' = "scene"
  /\ UNCHANGED <<parserVars, created, failures>>

CreateScene ==
  /\ phase = "scene"
  /\ created' = [created EXCEPT !.scenes =
       Append(@, {key \in uploadedKeys : key[1] = NextScene})]
  /\ phase' = "import"
  /\ UNCHANGED <<parserVars, bucket, uploadedKeys, failures>>

Imported ==
  /\ phase = "import" /\ NextScene > Len(Scenes)
  /\ phase' = "imported"
  /\ UNCHANGED <<parserVars, importVars>>

\* A row cannot be created; before the project there is nothing to take back.
CreateFails ==
  /\ phase \in {"create", "import", "scene"}
  /\ failures < MaxFailures
  /\ failures' = failures + 1
  /\ phase' = IF phase = "create" THEN "failed" ELSE "cleanup"
  /\ UNCHANGED <<parserVars, created, bucket, uploadedKeys>>

\* The catch: every object (allSettled), then the project; what fails is left.
CleanUp(left, removed) ==
  /\ phase = "cleanup"
  /\ left # {} \/ ~removed => failures < MaxFailures
  /\ failures' = IF left # {} \/ ~removed THEN failures + 1 ELSE failures
  /\ bucket' = (bucket \ uploadedKeys) \cup left
  /\ created' = IF removed THEN NothingCreated ELSE created
  /\ phase' = "failed"
  /\ UNCHANGED <<parserVars, uploadedKeys>>

Next ==
  \/ CannotRead \/ BeginDocument \/ ReadBlock \/ EndDocument \/ EndSpine
  \/ CreateProject \/ CreateChapter \/ AttachImages \/ CreateScene \/ Imported
  \/ CreateFails
  \/ \E left \in SUBSET uploadedKeys, removed \in BOOLEAN : CleanUp(left, removed)

Spec == Init /\ [][Next]_epubVars
-----------------------------------------------------------------------------
(* Properties *)

Story == FlattenSeq([n \in DOMAIN Scenes |-> Scenes[n].scene.blocks])

Before(a, b) == a[1] < b[1] \/ (a[1] = b[1] /\ a[2] < b[2])

\* The text of the book is kept: when the spine has been read, the scenes follow one
\* another in the order of the book, with no block twice and no scene empty, and of the
\* paragraphs of its documents only those after a numeral (the title of its chapter) are
\* in no scene, wherever chapters, scenes and continued chapters begin.
StoryIsKept ==
  phase = "create" =>
    /\ \A i, j \in DOMAIN Story : i < j => Before(Story[i], Story[j])
    /\ \A n \in DOMAIN Scenes : Scenes[n].scene.blocks # <<>>
    /\ \A d \in {e \in DOMAIN spine : ~IsFront(e)} :
         LET bs == ContentBlocks(d)
         IN \A i \in DOMAIN bs : KindOf(bs[i]) \in {"text", "intro"} =>
              \/ bs[i] \in ToSet(Story)
              \/ i > 1 /\ KindOf(bs[i - 1]) = "numeral"

\* An import that fails leaves no project and no image behind unless the clean-up fails
\* as well (two failures), however far it had come.
FailedImportLeavesNothing ==
  phase = "failed" /\ failures <= 1 => created = NothingCreated /\ bucket = {}
=============================================================================
