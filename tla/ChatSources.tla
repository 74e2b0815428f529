----------------------------- MODULE ChatSources -----------------------------
(***************************************************************************)
(* The evidence of an answer, once the candidates are ranked: which wiki   *)
(* pages and events are taken, how the three kinds of sources are ordered  *)
(* for the type of the question, and what of it fits the context of the    *)
(* model.  src/chat/chat.service.ts and domain/work-source-priority.ts.    *)
(*                                                                         *)
(* One step computes it.  A source is its kind and its place in the        *)
(* ranking of its kind.                                                    *)
(***************************************************************************)
EXTENDS Sequences, FiniteSets, Functions

CONSTANTS
  MaxManuscript, MaxWiki, MaxTimeline,   \* 14, 10 and 20 in the code
  MaxContext,      \* sources of a context: 20
  MaxSize,         \* characters of a context, in hundreds: 480
  Size             \* what a source of each kind takes at most, in hundreds

Kinds == {"manuscript", "wiki", "timeline"}

\* As many sources as a context holds always fit its size, and the kinds that are not cut
\* for a question leave room for the portions of the others.
SizeAssumption ==
  /\ MaxManuscript \in 0..14 /\ MaxWiki \in 0..10 /\ MaxTimeline \in Nat
  /\ MaxContext \in Nat /\ MaxContext >= 20 /\ MaxSize \in Nat
  /\ Size \in [Kinds -> Nat]
  /\ \A kind \in Kinds : MaxContext * Size[kind] <= MaxSize

VARIABLES
  query,           \* the question: its type, whether it asks for the whole timeline
  ranked,          \* how many sources of each kind have a score
  computed,
  context          \* the sources given to the model

sourcesVars == <<query, ranked, computed, context>>

\* A question of how often characters interact is answered without sources.
Types == {"general", "first_appearance", "chronology", "character_profile",
          "character_state", "relationship", "chapter_fact"}

Sources(kind, count) == [i \in 1..count |-> [kind |-> kind, rank |-> i]]

Init ==
  /\ query \in [type : Types, broadTimeline : BOOLEAN]
  /\ ranked \in [manuscript : 0..MaxManuscript, wiki : 0..MaxWiki, timeline : 0..MaxTimeline]
  /\ computed = FALSE
  /\ context = <<>>

First(s, n) == SubSeq(s, 1, IF n < Len(s) THEN n ELSE Len(s))
Rest(s, n) == SubSeq(s, n + 1, Len(s))

\* Mutant of PrioritizeWorkSources: a profile is made of the wiki alone.
WikiBeforeAll(type, broadTimeline, manuscript, wiki, timeline) ==
  IF type = "character_profile" THEN wiki \o manuscript \o timeline
  ELSE manuscript \o wiki \o timeline

PrioritizeWorkSources(type, broadTimeline, manuscript, wiki, timeline) ==
  CASE broadTimeline \/ type = "chronology" ->
         First(timeline, 12) \o First(manuscript, 6) \o First(wiki, 2)
           \o Rest(timeline, 12) \o Rest(manuscript, 6) \o Rest(wiki, 2)
    [] ~broadTimeline /\ type = "character_profile" ->
         First(manuscript, 8) \o First(wiki, 10) \o First(timeline, 2)
           \o Rest(manuscript, 8) \o Rest(timeline, 2)
    [] ~broadTimeline /\ type = "relationship" ->
         First(manuscript, 10) \o First(wiki, 8) \o First(timeline, 2)
           \o Rest(manuscript, 10) \o Rest(wiki, 8) \o Rest(timeline, 2)
    [] ~broadTimeline /\ type \in {"chapter_fact", "character_state"} ->
         manuscript \o First(wiki, 4) \o First(timeline, 2)
           \o Rest(wiki, 4) \o Rest(timeline, 2)
    [] OTHER -> manuscript \o wiki \o timeline

\* A source that does not fit is passed over, and a smaller one after it may be taken.
FitContext(sources) ==
  LET Take(fitted, source) ==
        IF Len(fitted.list) >= MaxContext \/ fitted.size + Size[source.kind] > MaxSize
        THEN fitted
        ELSE [list |-> Append(fitted.list, source), size |-> fitted.size + Size[source.kind]]
      taken[n \in 0..Len(sources)] ==
        IF n = 0 THEN [list |-> <<>>, size |-> 0] ELSE Take(taken[n - 1], sources[n])
  IN taken[Len(sources)].list

\* rankManuscriptSources, buildWikiSources, buildTimelineSources: sorted and cut.
ManuscriptSources == Sources("manuscript", ranked.manuscript)
WikiSources == Sources("wiki", ranked.wiki)
TimelineSources == Sources("timeline", ranked.timeline)

RetrieveSources ==
  /\ ~computed
  /\ computed' = TRUE
  /\ context' = FitContext(PrioritizeWorkSources(query.type, query.broadTimeline,
                             ManuscriptSources, WikiSources, TimelineSources))
  /\ UNCHANGED <<query, ranked>>

Next == RetrieveSources

Spec == Init /\ [][Next]_sourcesVars
-----------------------------------------------------------------------------
(* Properties *)

RanksOf(kind) == {context[i].rank : i \in {j \in DOMAIN context : context[j].kind = kind}}

Specialised == query.broadTimeline \/ query.type \notin {"general", "first_appearance"}

\* Whatever the three rankings hold, no source enters the context twice, the best of a
\* kind enter before its others, as many enter as there are and the limits allow, and a
\* question of a particular type never crowds a kind out: the portions of each kind add
\* up to the context, so the two best of every kind are in it.
NoKindIsCrowdedOut ==
  computed =>
    /\ Len(context) = Cardinality(Range(context))
    /\ \A kind \in DOMAIN ranked :
         /\ RanksOf(kind) = 1..Cardinality(RanksOf(kind))
         /\ Specialised => \A rank \in 1..2 : rank <= ranked[kind] => rank \in RanksOf(kind)
    /\ LET all == ranked.manuscript + ranked.wiki + ranked.timeline
       IN Len(context) = IF all < MaxContext THEN all ELSE MaxContext
=============================================================================
