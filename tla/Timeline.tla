------------------------------- MODULE Timeline -------------------------------
(***************************************************************************)
(* The order of a project's timeline.  An event has a fractional position; *)
(* a placement reads the events it is put between, takes the middle of     *)
(* their positions and, when the gap has no room, numbers the events anew. *)
(* Each request is a READ COMMITTED transaction: it sees what others have  *)
(* committed at each statement, and its own writes.  A position counts     *)
(* units of minimumPositionGap (the last digit the column keeps), and      *)
(* events are numbered by createdAt.                                       *)
(***************************************************************************)
EXTENDS FiniteSets, Functions

CONSTANTS
  Requests,
  MaxEvents,   \* bound: events ever created
  MaxMoves,    \* bound: placements and deletions
  Step,        \* positionStep / minimumPositionGap
  None

TimelineAssumption ==
  MaxEvents \in Nat /\ MaxMoves \in Nat /\ Step \in Nat /\ Step > 1 /\ None \notin Int

VARIABLES
  position,   \* of the live events
  created,    \* events created so far
  request,    \* what a placement has read and will write
  moves,      \* placements and deletions begun
  raced       \* two placements have overlapped, or one went between events that are
              \* not neighbours, where the middle may be taken (a stale list of the client)
timelineVars == <<position, created, request, moves, raced>>

Idle == [phase |-> "idle"]
Live == DOMAIN position
Highest(S) == IF S = {} THEN None ELSE CHOOSE e \in S : \A d \in S : e >= d
Lowest(S) == IF S = {} THEN None ELSE CHOOSE e \in S : \A d \in S : e <= d

Init ==
  /\ \E n \in 0..MaxEvents : position = [e \in 1..n |-> e * Step] /\ created = n
  /\ request = [r \in Requests |-> Idle]
  /\ moves = 0
  /\ raced = FALSE

\* orderBy position, createdAt, id.
Precedes(at, e, d) == at[e] < at[d] \/ (at[e] = at[d] /\ e < d)
Rank(at, e) == Cardinality({d \in DOMAIN at : d = e \/ Precedes(at, d, e)})

\* What a statement of r reads: the live events but the one being moved.
Seen(r) ==
  [e \in Live \ {request[r].event} |->
     IF e \in DOMAIN request[r].own THEN request[r].own[e] ELSE position[e]]

\* The column keeps twelve decimals and rounds the half away from zero.
Middle(l, u) == IF l + u >= 0 THEN (l + u + 1) \div 2 ELSE -((1 - (l + u)) \div 2)

Between(lower, upper) ==
  CASE lower # None /\ upper # None -> Middle(lower, upper)
    [] lower # None /\ upper = None -> lower + Step
    [] lower = None /\ upper # None -> upper - Step
    [] OTHER -> Step

Within(p, lower, upper) == lower < p /\ p < upper

\* Mutant of HasNoRoom: lessThan for lessThanOrEqualTo.
IsEmpty(lower, upper) == upper - lower < 1

HasNoRoom(lower, upper) == upper - lower <= 1
-----------------------------------------------------------------------------
\* createTimelineEvent takes no neighbour for the end; moveTimelineEvent wants one.
SaysWhere(event, before, after) == event # None => before # None \/ after # None

\* createForUser (event is None until the row is written) or moveForUser.
Begin(r, event, before, after) ==
  /\ request[r] = Idle /\ moves < MaxMoves
  /\ SaysWhere(event, before, after)
  /\ event = None => created + Cardinality({q \in Requests : request[q] # Idle
                                              /\ request[q].event = None}) < MaxEvents
  /\ request' = [request EXCEPT ![r] =
       [phase |-> "anchors", event |-> event, before |-> before, after |-> after,
        own |-> <<>>, lower |-> None, upper |-> None]]
  /\ moves' = moves + 1
  /\ raced' = (raced \/ \E q \in Requests : request[q] # Idle)
  /\ UNCHANGED <<position, created>>

\* findPlacementAnchors: both there, and in order.
ReadAnchors(r) ==
  LET q == request[r]
      seen == Seen(r) IN
  /\ q.phase = "anchors"
  /\ IF /\ {q.before, q.after} \subseteq DOMAIN seen \cup {None}
        /\ None \in {q.before, q.after} \/ seen[q.after] < seen[q.before]
     THEN request' = [request EXCEPT
            ![r].phase = "bounds",
            ![r].lower = IF q.after = None THEN None ELSE seen[q.after],
            ![r].upper = IF q.before = None THEN None ELSE seen[q.before]]
     ELSE request' = [request EXCEPT ![r] = Idle]
  /\ UNCHANGED <<position, created, moves, raced>>

\* findPlacementBounds: the neighbour of a lone anchor, or the last event.
Bounds(seen, lower, upper) ==
  LET below == {seen[e] : e \in {d \in DOMAIN seen : upper # None => seen[d] < upper}}
      above == {seen[e] : e \in {d \in DOMAIN seen : lower # None => seen[d] > lower}} IN
  CASE lower = None -> <<Highest(below), upper>>
    [] lower # None /\ upper = None -> <<lower, Lowest(above)>>
    [] OTHER -> <<lower, upper>>

\* reindexPositions: Step apart in the order the list shows; the moved one keeps its row.
Reindexed(seen) == [e \in DOMAIN seen |-> Step * Rank(seen, e)]

ReadBounds(r) ==
  LET q == request[r]
      seen == Seen(r)
      bounds == Bounds(seen, q.lower, q.upper) IN
  /\ q.phase = "bounds"
  /\ IF None \notin {bounds[1], bounds[2]} /\ HasNoRoom(bounds[1], bounds[2]) /\ q.own = <<>>
     THEN request' = [request EXCEPT ![r].phase = "anchors", ![r].own = Reindexed(seen)]
     ELSE request' = [request EXCEPT ![r].phase = "write", ![r].lower = bounds[1],
                                     ![r].upper = bounds[2]]
  /\ UNCHANGED <<position, created, moves, raced>>

\* The row is written and the transaction commits; a move has no guard on deletedAt.
Write(r) ==
  LET q == request[r]
      event == IF q.event = None THEN created + 1 ELSE q.event
      placed == IF q.event # None /\ event \notin Live THEN {} ELSE {event} IN
  /\ q.phase = "write"
  /\ position' = [e \in Live \cup placed |->
       CASE e = event -> Between(q.lower, q.upper)
         [] e # event /\ e \in DOMAIN q.own -> q.own[e]
         [] OTHER -> position[e]]
  /\ created' = IF q.event = None THEN event ELSE created
  /\ request' = [request EXCEPT ![r] = Idle]
  /\ raced' = (raced \/ \E e \in Live \ {event} :
                         None \notin {q.before, q.after} /\ Within(Seen(r)[e], q.lower, q.upper))
  /\ UNCHANGED moves

\* softDeleteForUser
Delete(e) ==
  /\ e \in Live /\ moves < MaxMoves
  /\ position' = Restrict(position, Live \ {e})
  /\ moves' = moves + 1
  /\ UNCHANGED <<created, request, raced>>

Next ==
  \/ \E r \in Requests :
       \/ \E event, before, after \in Live \cup {None} : Begin(r, event, before, after)
       \/ ReadAnchors(r) \/ ReadBounds(r) \/ Write(r)
  \/ \E e \in Live : Delete(e)

Spec == Init /\ [][Next]_timelineVars
-----------------------------------------------------------------------------
(* Properties *)

PlacementIsKept(r) ==
  LET q == request[r]
      event == IF q.event = None THEN created' ELSE q.event
      others == DOMAIN position' \ {event}
  IN /\ \A e, d \in others : Precedes(position, e, d) => position'[e] < position'[d]
     /\ event \in DOMAIN position' =>
          /\ q.after \in others => position'[q.after] < position'[event]
          /\ q.before \in others => position'[event] < position'[q.before]
          /\ \A e \in others :
               /\ q.after \in others /\ position'[q.after] < position'[e]
                  => position'[event] < position'[e]
               /\ q.before \in others /\ position'[e] < position'[q.before]
                  => position'[e] < position'[event]

PlacementsAreKept ==
  \A r \in Requests : request[r].phase = "write" /\ request'[r] = Idle /\ ~raced' => PlacementIsKept(r)

\* While no two placements have overlapped and none went between events that were not
\* neighbours, a placement puts its event between the events it was asked for and next
\* to them, and leaves the others in the order they had, whatever was placed, deleted
\* and numbered anew before (positionForPlacement).
PlacedWhereAsked == [][PlacementsAreKept]_timelineVars
=============================================================================
