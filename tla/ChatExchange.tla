---------------------------- MODULE ChatExchange ----------------------------
(***************************************************************************)
(* A chat thread and the messages sent to it: src/chat/chat.service.ts     *)
(* with routing, grounding, presentation and navigation.                   *)
(*                                                                         *)
(* sendMessage reads the thread once, then spends up to four model calls   *)
(* (routing, a generation in one domain, a second one in the other, a      *)
(* verification) and stores question and answer in one transaction.  The   *)
(* client may go away at any await, the author may rename, archive or      *)
(* delete the thread, another message may be on its way.                   *)
(*                                                                         *)
(* Texts are left out: a source is a model value, a claim of the model is  *)
(* the sequence of its pieces of evidence, a piece of evidence a source    *)
(* and whether the quote is in its excerpt.                                *)
(***************************************************************************)
EXTENDS SequencesExt

CONSTANTS
  Requests,     \* messages sent to the thread
  Sources,      \* what a retrieval or an answer may name
  Retrieved,    \* what a retrieval may return
  Answers,      \* what a generation may return as claims
  Renames       \* bound: titles the author gives the thread

ExchangeAssumption ==
  /\ Renames \in Nat
  /\ Retrieved \subseteq Seq(Sources)
  /\ Answers \subseteq Seq(Seq([source : Sources, quoted : BOOLEAN]))

VARIABLES
  thread,       \* ChatThread row: title, archived, there ("live", "hidden", "gone")
  messages,     \* ChatMessage rows of the assistant, in order of creation, each
                \* standing for itself and the user's message stored with it
  request,      \* what each sendMessage call holds
  renames       \* titles given so far

vars == <<thread, messages, request, renames>>

Primary == 3   \* PRIMARY_CHAT_SOURCE_LIMIT

Domains == {"work", "application_help"}
Other(domain) == CHOOSE d \in Domains : d # domain

NotSent == [phase |-> "idle", title |-> "default", counted |-> 0, domain |-> "work",
            retry |-> FALSE, used |-> 0, calls |-> 0, sources |-> <<>>, alert |-> FALSE,
            claims |-> <<>>, answer |-> "none", cited |-> <<>>, numbers |-> <<>>]

InFlight(r) == request[r].phase \notin {"idle", "done", "failed"}

Init ==
  /\ thread = [title |-> "default", archived |-> FALSE, there |-> "live"]
  /\ messages = <<>>
  /\ request = [r \in Requests |-> NotSent]
  /\ renames = 0

\* The request throws: nothing of it is stored.
Fail(r) == request' = [request EXCEPT ![r] = [NotSent EXCEPT !.phase = "failed"]]

\* A model call that returned: its tokens are counted once, in calls, and once more
\* by the code, in used.
Called(r, row) == [row EXCEPT !.calls = @ + 1, !.used = @ + 1]

\* What the request is about to store.
Answering(r, row, kind, cited, numbers) ==
  request' = [request EXCEPT ![r] = [row EXCEPT !.phase = "persist", !.answer = kind,
                                                !.cited = cited, !.numbers = numbers]]
-----------------------------------------------------------------------------
(* The author *)

UpdateTitle ==
  /\ thread.there = "live"
  /\ renames < Renames
  /\ thread' = [thread EXCEPT !.title = "author"]
  /\ renames' = renames + 1
  /\ UNCHANGED <<messages, request>>

UpdateArchived ==
  /\ thread.there = "live"
  /\ thread' = [thread EXCEPT !.archived = ~@]
  /\ UNCHANGED <<messages, request, renames>>

\* The rows of the thread go with it; a deleted project only hides it.
DeleteThread ==
  /\ thread.there = "live"
  /\ thread' = [thread EXCEPT !.there = "gone"]
  /\ messages' = <<>>
  /\ UNCHANGED <<request, renames>>

DeleteProject ==
  /\ thread.there = "live"
  /\ thread' = [thread EXCEPT !.there = "hidden"]
  /\ UNCHANGED <<messages, request, renames>>

\* The connection closes: every await of the request that follows throws.  The last
\* look at the signal is before the thread's row is written.
Abort(r) ==
  /\ InFlight(r)
  /\ Fail(r)
  /\ UNCHANGED <<thread, messages, renames>>

\* A model is not configured, not available, or answers with something that cannot
\* be parsed, by every name of the fallback list.
ModelFails(r) ==
  /\ request[r].phase \in {"route", "generate", "verify"}
  /\ Fail(r)
  /\ UNCHANGED <<thread, messages, renames>>
-----------------------------------------------------------------------------
(* sendMessage *)

Send(r) ==
  /\ request[r].phase = "idle"
  /\ IF thread.there = "live" /\ ~thread.archived
     THEN request' = [request EXCEPT ![r].phase = "route", ![r].title = thread.title]
     ELSE Fail(r)
  /\ UNCHANGED <<thread, messages, renames>>

\* Refused or answered by the rules of chat-policy, without a model.
RouteByPolicy(r) ==
  /\ request[r].phase = "route"
  /\ Answering(r, request[r], "policy", <<>>, <<>>)
  /\ UNCHANGED <<thread, messages, renames>>

\* Classified as something that is answered with a fixed text.
RouteToFixedAnswer(r) ==
  /\ request[r].phase = "route"
  /\ Answering(r, Called(r, request[r]), "fixed", <<>>, <<>>)
  /\ UNCHANGED <<thread, messages, renames>>

RouteToDomain(r, domain) ==
  /\ request[r].phase = "route"
  /\ request' = [request EXCEPT ![r] = [Called(r, request[r]) EXCEPT
                   !.phase = "retrieve", !.domain = domain, !.retry = TRUE]]
  /\ UNCHANGED <<thread, messages, renames>>

\* retrieveDomainSources, and for the work the open conflicts about what it found.
Retrieve(r, sources, alert) ==
  /\ request[r].phase = "retrieve"
  /\ alert => request[r].domain = "work" /\ sources # <<>>
  /\ IF sources = <<>>
     THEN Answering(r, request[r], "no_evidence", <<>>, <<>>)
     ELSE request' = [request EXCEPT ![r].phase = "generate", ![r].sources = sources,
                                     ![r].alert = alert]
  /\ UNCHANGED <<thread, messages, renames>>

\* Mutant of PresentReviewedSources: the sources in the order of their retrieval.
PresentAsRetrieved(cited, reviewed) == reviewed

\* presentReviewedSources: the cited sources first and in their order, then the
\* others that were retrieved.
PresentReviewedSources(cited, reviewed) ==
  LET shown[n \in 0..Len(reviewed)] ==
        IF n = 0 THEN cited
        ELSE IF Contains(cited, reviewed[n]) THEN shown[n - 1]
        ELSE Append(shown[n - 1], reviewed[n])
  IN shown[Len(reviewed)]

\* A count that the manuscript answers: the first three of its sources are cited.
AnswerCount(r) ==
  /\ request[r].phase = "generate"
  /\ request[r].domain = "work"
  /\ LET sources == request[r].sources
         n == Min({Primary, Len(sources)})
     IN Answering(r, request[r], "evidence",
          PresentReviewedSources(SubSeq(sources, 1, n), sources), <<1..n>>)
  /\ UNCHANGED <<thread, messages, renames>>

\* A first mention: the first source of the manuscript that has a quote is cited.
AnswerFirstMention(r, i) ==
  /\ request[r].phase = "generate"
  /\ request[r].domain = "work"
  /\ i \in DOMAIN request[r].sources
  /\ LET sources == request[r].sources
     IN Answering(r, request[r], "evidence",
          PresentReviewedSources(<<sources[i]>>, sources), <<{1}>>)
  /\ UNCHANGED <<thread, messages, renames>>

\* The sources do not fit the question: the other domain is tried, once.
GenerateMismatch(r) ==
  /\ request[r].phase = "generate"
  /\ LET row == Called(r, request[r]) IN
     IF row.retry
     THEN request' = [request EXCEPT ![r] = [row EXCEPT !.phase = "retrieve",
                        !.domain = Other(@), !.retry = FALSE, !.sources = <<>>,
                        !.alert = FALSE]]
     ELSE Answering(r, row, "clarify", <<>>, <<>>)
  /\ UNCHANGED <<thread, messages, renames>>

GenerateOutOfScope(r) ==
  /\ request[r].phase = "generate"
  /\ Answering(r, Called(r, request[r]), "fixed", <<>>, <<>>)
  /\ UNCHANGED <<thread, messages, renames>>

\* Every claim rests on evidence, and every piece of evidence on the words of a
\* source that was retrieved.
ClaimGrounded(claim, sources) ==
  /\ claim # <<>>
  /\ \A i \in DOMAIN claim : claim[i].quoted /\ Contains(sources, claim[i].source)

Grounded(claims, sources) ==
  \A i \in DOMAIN claims : ClaimGrounded(claims[i], sources)

\* A source is used once, at its first citation.
Cite(used, claim) ==
  LET after[j \in 0..Len(claim)] ==
        IF j = 0 THEN used
        ELSE IF Contains(after[j - 1], claim[j].source) THEN after[j - 1]
        ELSE Append(after[j - 1], claim[j].source)
  IN after[Len(claim)]

\* The sources of a sequence of claims in the order of their first use.
UsedSources(claims) ==
  LET used[i \in 0..Len(claims)] == IF i = 0 THEN <<>> ELSE Cite(used[i - 1], claims[i])
  IN used[Len(claims)]

\* The sources a claim rests on, and the numbers printed after it.
SourcesOf(claim) == {claim[j].source : j \in DOMAIN claim}

Citations(claims) ==
  [i \in DOMAIN claims |->
     {n \in DOMAIN UsedSources(claims) : UsedSources(claims)[n] \in SourcesOf(claims[i])}]

Generate(r, claims) ==
  /\ request[r].phase = "generate"
  /\ LET row == Called(r, request[r]) IN
     CASE claims = <<>> -> Answering(r, row, "no_evidence", <<>>, <<>>)
       [] claims # <<>> /\ ~Grounded(claims, row.sources)
            -> Answering(r, row, "ungrounded", <<>>, <<>>)
       [] OTHER -> request' = [request EXCEPT ![r] =
                                 [row EXCEPT !.phase = "verify", !.claims = claims]]
  /\ UNCHANGED <<thread, messages, renames>>

Verify(r, supported) ==
  /\ request[r].phase = "verify"
  /\ LET row == Called(r, request[r]) IN
     IF supported
     THEN Answering(r, row, "grounded",
            PresentReviewedSources(UsedSources(row.claims), row.sources),
            Citations(row.claims))
     ELSE Answering(r, row, "no_evidence", <<>>, <<>>)
  /\ UNCHANGED <<thread, messages, renames>>

\* persistExchange, first statement of its transaction.
CountMessages(r) ==
  /\ request[r].phase = "persist"
  /\ request' = [request EXCEPT ![r].phase = "store", ![r].counted = Len(messages)]
  /\ UNCHANGED <<thread, messages, renames>>

Titled(r) ==
  IF request[r].counted = 0 /\ request[r].title = "default" THEN "question" ELSE thread.title

\* The rest of the transaction; without the thread's row its messages cannot be
\* inserted.  A thread archived or hidden since it was read takes them.
Store(r) ==
  /\ request[r].phase = "store"
  /\ IF thread.there = "gone"
     THEN /\ Fail(r)
          /\ UNCHANGED <<thread, messages>>
     ELSE /\ messages' = Append(messages,
               [of |-> r, answer |-> request[r].answer, tokens |-> request[r].used,
                sources |-> request[r].cited, numbers |-> request[r].numbers,
                notice |-> request[r].alert /\ request[r].answer
                             \in {"evidence", "grounded", "no_evidence", "ungrounded"}])
          /\ thread' = [thread EXCEPT !.title = Titled(r)]
          /\ request' = [request EXCEPT ![r] =
               [NotSent EXCEPT !.phase = "done", !.calls = request[r].calls,
                               !.sources = request[r].sources, !.claims = request[r].claims]]
  /\ UNCHANGED renames

Next ==
  \/ UpdateTitle \/ UpdateArchived \/ DeleteThread \/ DeleteProject
  \/ \E r \in Requests :
       \/ Abort(r) \/ ModelFails(r)
       \/ Send(r) \/ RouteByPolicy(r) \/ RouteToFixedAnswer(r)
       \/ \E domain \in Domains : RouteToDomain(r, domain)
       \/ \E sources \in Retrieved, alert \in BOOLEAN : Retrieve(r, sources, alert)
       \/ AnswerCount(r)
       \/ \E i \in DOMAIN request[r].sources : AnswerFirstMention(r, i)
       \/ GenerateMismatch(r) \/ GenerateOutOfScope(r)
       \/ \E claims \in Answers : Generate(r, claims)
       \/ \E supported \in BOOLEAN : Verify(r, supported)
       \/ CountMessages(r) \/ Store(r)

Spec == Init /\ [][Next]_vars
-----------------------------------------------------------------------------
(* Properties *)

\* The tokens stored with an answer are those of every model call made for it,
\* whichever of the ways through two domains and a verification it took.
ChargedForEveryCall ==
  \A i \in DOMAIN messages : messages[i].tokens = request[messages[i].of].calls

\* The numbers after a statement lead the reader to what supports it: in the stored
\* list, where the cited sources are put before those that were only reviewed, they
\* are the places of exactly the sources the statement rests on, and each of those
\* was retrieved for this message and contains the quoted words.
CitationsLeadToTheirSource ==
  \A i \in DOMAIN messages :
    LET m == messages[i]
        row == request[m.of]
        Cited(k) == {m.sources[n] : n \in m.numbers[k]}
    IN CASE m.answer = "grounded" ->
              \A k \in DOMAIN row.claims : /\ Cited(k) = SourcesOf(row.claims[k])
                                           /\ Cited(k) # {}
                                           /\ Cited(k) \subseteq ToSet(row.sources)
                                           /\ \A j \in DOMAIN row.claims[k] :
                                                row.claims[k][j].quoted
         [] m.answer = "evidence" -> ToSet(m.sources) = ToSet(row.sources)
         [] OTHER -> m.sources = <<>>

\* What is stored with the answers: their tokens and their citations.
AnswersAreSound == ChargedForEveryCall /\ CitationsLeadToTheirSource
=============================================================================
