---------------------------- MODULE ImageGallery ----------------------------
(***************************************************************************)
(* The pictures of an entity: src/publishing/image-assets.service.ts.      *)
(*                                                                         *)
(* Which picture is the entity's is kept twice: isPrimary of an image row  *)
(* and imageUrl of the entity.  attachImage writes both in three           *)
(* statements, setPrimaryImage in a transaction and a statement, and       *)
(* deleteImage in a transaction over an entity it read before; nothing     *)
(* serialises two of them.  The author also gives the entity an address of *)
(* his own, as it is created, by PATCH or in a proposal he accepts, and    *)
(* none of these looks at the images.                                      *)
(***************************************************************************)
EXTENDS FiniteSetsExt

CONSTANTS
  Editors,      \* calls on the gallery of one entity
  Images,       \* images, a subset of Nat: a later one has a larger number
  NoImage,
  Elsewhere,    \* an address that is not a picture of the gallery
  AuthorUrls,   \* the urls the author gives: addresses of pictures too, or none
  MaxCuts       \* bound: calls that are cut short

ImagesAssumption == /\ Images \subseteq Nat /\ MaxCuts \in Nat
                    /\ {NoImage, Elsewhere} \cap Images = {} /\ NoImage # Elsewhere
                    /\ AuthorUrls \subseteq Images \cup {NoImage, Elsewhere}

VARIABLES
  made,         \* images that ever existed
  image,        \* GeneratedImage rows that exist: which of them are primary
  url,          \* imageUrl of the entity: the image whose address it is, or another
  editor,       \* what each call holds: phase, image, the url it read, the next primary
  cuts,
  disturbed,    \* two calls have overlapped, or one was cut short
  authored      \* the author gave the url, and the gallery has not chosen one since

galleryVars == <<made, image, url, editor, cuts, disturbed, authored>>

NotSent == [phase |-> "idle", image |-> NoImage, url |-> NoImage, next |-> NoImage,
            primary |-> FALSE]

InFlight(e) == editor[e].phase \notin {"idle", "done"}

Primary == {i \in DOMAIN image : image[i]}

Init ==
  /\ made = {}
  /\ image = [i \in {} |-> FALSE]
  /\ url \in AuthorUrls \cup {NoImage}
  /\ authored = (url # NoImage)
  /\ editor = [e \in Editors |-> NotSent]
  /\ cuts = 0
  /\ disturbed = FALSE

Create(i, primary) == [j \in DOMAIN image \cup {i} |-> IF j = i THEN primary ELSE image[j]]

\* A call begins, with the entity it read.
Begin(e, phase, i) ==
  /\ editor[e].phase = "idle"
  /\ editor' = [editor EXCEPT ![e] = [NotSent EXCEPT !.phase = phase, !.image = i, !.url = url]]
  /\ disturbed' = (disturbed \/ \E f \in Editors \ {e} : InFlight(f))

Goes(e, phase) == editor' = [editor EXCEPT ![e].phase = phase]
-----------------------------------------------------------------------------
\* The image worker adds its picture and leaves the entity's as it is.
Generate(i) ==
  /\ \A j \in made : j < i
  /\ made' = made \cup {i}
  /\ image' = Create(i, FALSE)
  /\ UNCHANGED <<url, editor, cuts, disturbed, authored>>

\* attachImage: findEntityForUser and the image it creates.
BeginAttach(e, i) ==
  /\ i \notin made
  /\ Begin(e, "create", i)
  /\ UNCHANGED <<made, image, url, cuts, authored>>

CreatePrimary(e) ==
  /\ editor[e].phase = "create"
  /\ \A j \in made : j < editor[e].image
  /\ made' = made \cup {editor[e].image}
  /\ image' = Create(editor[e].image, TRUE)
  /\ Goes(e, "demote")
  /\ UNCHANGED <<url, cuts, disturbed, authored>>

\* Mutant of DemoteOthers: every primary image is demoted.
DemoteAll(e) ==
  /\ editor[e].phase = "demote"
  /\ image' = [i \in DOMAIN image |-> FALSE]
  /\ Goes(e, "url")
  /\ UNCHANGED <<made, url, cuts, disturbed, authored>>

DemoteOthers(e) ==
  /\ editor[e].phase = "demote"
  /\ image' = [i \in DOMAIN image |-> image[i] /\ i = editor[e].image]
  /\ Goes(e, "url")
  /\ UNCHANGED <<made, url, cuts, disturbed, authored>>

\* The last statement of attachImage and of setPrimaryImage.
UpdateUrl(e) ==
  /\ editor[e].phase = "url"
  /\ url' = editor[e].image
  /\ authored' = FALSE
  /\ Goes(e, "done")
  /\ UNCHANGED <<made, image, cuts, disturbed>>

BeginSetPrimary(e, i) ==
  /\ i \in DOMAIN image
  /\ Begin(e, "primary", i)
  /\ UNCHANGED <<made, image, url, cuts, authored>>

\* The transaction fails when the image was deleted since it was read.
SetPrimary(e) ==
  /\ editor[e].phase = "primary"
  /\ IF editor[e].image \in DOMAIN image
     THEN /\ image' = [i \in DOMAIN image |-> i = editor[e].image]
          /\ Goes(e, "url")
     ELSE /\ Goes(e, "done")
          /\ UNCHANGED image
  /\ UNCHANGED <<made, url, cuts, disturbed, authored>>

BeginDelete(e, i) ==
  /\ Begin(e, "find", i)
  /\ UNCHANGED <<made, image, url, cuts, authored>>

\* deleteImage, the reads of its transaction: the newest of the others is next.
FindNextPrimary(e) ==
  /\ editor[e].phase = "find"
  /\ LET i == editor[e].image
         others == DOMAIN image \ {i}
     IN IF i \notin DOMAIN image
        THEN Goes(e, "done")
        ELSE editor' = [editor EXCEPT ![e].phase = "delete", ![e].primary = image[i],
                          ![e].next = IF image[i] /\ others # {} THEN Max(others) ELSE NoImage]
  /\ UNCHANGED <<made, image, url, cuts, disturbed, authored>>

\* imageUrl after the deletion, from the url read when the call began.
NextUrl(e) ==
  CASE ~editor[e].primary -> url
    [] editor[e].primary /\ editor[e].next # NoImage -> editor[e].next
    [] OTHER -> IF editor[e].url = editor[e].image THEN NoImage ELSE editor[e].url

\* Its writes; a row that is gone (P2025) undoes them.  The object is deleted last.
DeleteImage(e) ==
  /\ editor[e].phase = "delete"
  /\ Goes(e, "done")
  /\ IF {editor[e].image, editor[e].next} \ {NoImage} \subseteq DOMAIN image
     THEN /\ image' = [i \in DOMAIN image \ {editor[e].image} |-> image[i] \/ i = editor[e].next]
          /\ url' = NextUrl(e)
          /\ authored' = (authored /\ editor[e].next = NoImage)
     ELSE UNCHANGED <<image, url, authored>>
  /\ UNCHANGED <<made, cuts, disturbed>>

\* The process ends or the database fails between two statements.
CutShort(e) ==
  /\ cuts < MaxCuts
  /\ cuts' = cuts + 1
  /\ InFlight(e)
  /\ Goes(e, "done")
  /\ disturbed' = TRUE
  /\ UNCHANGED <<made, image, url, authored>>

\* updateEntity, and acceptProposal with an image url: one update, of the url alone.
WriteUrl(u) ==
  /\ url' = u
  /\ authored' = TRUE
  /\ disturbed' = (disturbed \/ \E e \in Editors : InFlight(e))
  /\ UNCHANGED <<made, image, editor, cuts>>

Next ==
  \/ \E i \in Images : Generate(i)
  \/ \E u \in AuthorUrls : WriteUrl(u)
  \/ \E e \in Editors :
       \/ \E i \in Images : BeginAttach(e, i) \/ BeginSetPrimary(e, i) \/ BeginDelete(e, i)
       \/ CreatePrimary(e) \/ DemoteOthers(e) \/ UpdateUrl(e)
       \/ SetPrimary(e) \/ FindNextPrimary(e) \/ DeleteImage(e) \/ CutShort(e)

Spec == Init /\ [][Next]_galleryVars
-----------------------------------------------------------------------------
(* Properties *)

\* As long as no two calls overlapped and none was cut short, whenever no call is on
\* its way at most one image is primary, whatever urls the author gave; and once the
\* gallery chose a picture and the author gave no url since, the entity shows the
\* primary image, or has none and shows nothing.
PictureAgrees ==
  ~disturbed /\ (\A e \in Editors : ~InFlight(e)) =>
    /\ \A i, j \in Primary : i = j
    /\ ~authored => Primary = (IF url = NoImage THEN {} ELSE {url})
=============================================================================
