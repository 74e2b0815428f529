---------------------------- MODULE OutboxPromise ----------------------------
(***************************************************************************)
(* What every transactional outbox of the backend promises, whatever it is *)
(* dispatched with.  An event is recorded together with the write that     *)
(* caused it, its handler runs at least once (a handler may run again: the *)
(* steps that repeat it are stuttering here), and the row is settled       *)
(* (processedAt set) only when the handler ran to its end or the queue gave *)
(* up on it.  A settled event stays settled.                               *)
(***************************************************************************)
CONSTANT Events

VARIABLES recorded,    \* events with a row in the outbox table
          handled,     \* events whose handler ran to its end at least once
          abandoned,   \* events whose job used up every attempt
          settled      \* events whose row carries processedAt

vars == <<recorded, handled, abandoned, settled>>

TypeOK == /\ recorded \subseteq Events
          /\ handled \subseteq recorded
          /\ abandoned \subseteq recorded
          /\ settled \subseteq recorded

Init == /\ recorded = {}
        /\ handled = {}
        /\ abandoned = {}
        /\ settled = {}

Record(e) == /\ e \notin recorded
             /\ recorded' = recorded \cup {e}
             /\ UNCHANGED <<handled, abandoned, settled>>

Handle(e) == /\ e \in recorded
             /\ handled' = handled \cup {e}
             /\ UNCHANGED <<recorded, abandoned, settled>>

Abandon(e) == /\ e \in recorded
              /\ abandoned' = abandoned \cup {e}
              /\ UNCHANGED <<recorded, handled, settled>>

Settle(e) == /\ e \in handled \cup abandoned
             /\ settled' = settled \cup {e}
             /\ UNCHANGED <<recorded, handled, abandoned>>

Next == \E e \in Events : Record(e) \/ Handle(e) \/ Abandon(e) \/ Settle(e)

Spec == Init /\ [][Next]_vars
=============================================================================
