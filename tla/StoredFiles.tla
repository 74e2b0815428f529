----------------------------- MODULE StoredFiles -----------------------------
(***************************************************************************)
(* Files of the bucket that a row names: the audio of a storyboard card    *)
(* (manuscript/services/storyboard-card.service.ts with its repository and *)
(* the cleanup poller) and the cover of a book (book-cover.service.ts).    *)
(*                                                                         *)
(* A client uploads a file, then attaches it; the file it replaces is      *)
(* deleted after the row is written.  An audio that cannot be deleted is   *)
(* left to an outbox event, whose poller looks whether a card uses the key *)
(* and then deletes it.                                                    *)
(***************************************************************************)
EXTENDS Naturals, FiniteSets

CONSTANTS
  Calls,        \* requests of the author for one row
  Keys,         \* storage keys: each is uploaded at most once
  NoKey,
  MaxFailures   \* bound: failures of the bucket or of the outbox

KeyAssumption == NoKey \notin Keys /\ "poller" \notin Calls /\ MaxFailures \in Nat

VARIABLES
  kind,         \* what the row is: "audio" of a card, "cover" of a book
  row,          \* the row: there, key
  bucket,       \* keys with an object
  uploaded,     \* keys that were ever uploaded
  call,         \* what each call holds: phase, its key, the one it read, what to delete
  pending,      \* cleanup events not processed
  poller,       \* the event being processed: phase, key
  overtaken,    \* who holds something read before the last write of the row
  failures

fileVars == <<kind, row, bucket, uploaded, call, pending, poller, overtaken, failures>>

NotSent == [phase |-> "idle", key |-> NoKey, existing |-> NoKey, delete |-> {}]
Resting == [phase |-> "rest", key |-> NoKey]

InFlight(c) == call[c].phase \notin {"idle", "done"}

Busy == {c \in Calls : InFlight(c)} \cup (IF poller.phase = "rest" THEN {} ELSE {"poller"})

Init ==
  /\ kind \in {"audio", "cover"}
  /\ row = [there |-> TRUE, key |-> NoKey]
  /\ bucket = {} /\ uploaded = {}
  /\ call = [c \in Calls |-> NotSent]
  /\ pending = {}
  /\ poller = Resting
  /\ overtaken = {}
  /\ failures = 0

Goes(c, held) ==
  /\ call' = [call EXCEPT ![c] = held]
  /\ overtaken' = IF held.phase = "done" THEN overtaken \ {c} ELSE overtaken

Done(c) == Goes(c, [call[c] EXCEPT !.phase = "done"])

\* The row is written: whoever else is on the way has read an older one.
Write(c, written) ==
  /\ row' = written
  /\ overtaken' = overtaken \cup (Busy \ {c})

\* What is left to do after the row was written.
Deletes(c, keys) ==
  call' = [call EXCEPT ![c].delete = keys \ {NoKey},
                       ![c].phase = IF keys \ {NoKey} = {} THEN "done" ELSE "delete"]
-----------------------------------------------------------------------------
Upload(k) ==
  /\ k \notin uploaded
  /\ uploaded' = uploaded \cup {k}
  /\ bucket' = bucket \cup {k}
  /\ UNCHANGED <<kind, row, call, pending, poller, overtaken, failures>>

\* attachAudio and setCover, up to the look at the bucket.
Attach(c, k) ==
  /\ call[c].phase = "idle"
  /\ row.there
  /\ Goes(c, [NotSent EXCEPT !.phase = "head", !.key = k, !.existing = row.key])
  /\ UNCHANGED <<kind, row, bucket, uploaded, pending, poller, failures>>

HeadFile(c) ==
  /\ call[c].phase = "head"
  /\ IF call[c].key \in bucket THEN Goes(c, [call[c] EXCEPT !.phase = "find"]) ELSE Done(c)
  /\ UNCHANGED <<kind, row, bucket, uploaded, pending, poller, failures>>

\* The repository reads the row again; for a cover it keeps the key it finds.
FindRow(c) ==
  /\ call[c].phase = "find"
  /\ IF row.there
     THEN Goes(c, [call[c] EXCEPT !.phase = "write",
                                  !.existing = IF kind = "cover" THEN row.key ELSE @])
     ELSE Done(c)
  /\ UNCHANGED <<kind, row, bucket, uploaded, pending, poller, failures>>

\* Mutant of Replaced: the file that was there is deleted, the same one or not.
ReplacedAlways(c) == {call[c].existing}

Replaced(c) == {call[c].existing} \ {call[c].key}

WriteRow(c) ==
  /\ call[c].phase = "write"
  /\ Write(c, [row EXCEPT !.key = call[c].key])
  /\ Deletes(c, Replaced(c))
  /\ UNCHANGED <<kind, bucket, uploaded, pending, poller, failures>>

\* removeCover: a setCover without a key, which looks at no file.
RemoveCover(c) ==
  /\ kind = "cover"
  /\ call[c].phase = "idle"
  /\ Goes(c, [NotSent EXCEPT !.phase = "find"])
  /\ UNCHANGED <<kind, row, bucket, uploaded, pending, poller, failures>>

\* remove: the card is read, and then deleted if it is still there.
RemoveCard(c) ==
  /\ kind = "audio"
  /\ call[c].phase = "idle"
  /\ row.there
  /\ Goes(c, [NotSent EXCEPT !.phase = "remove", !.existing = row.key])
  /\ UNCHANGED <<kind, row, bucket, uploaded, pending, poller, failures>>

SoftDelete(c) ==
  /\ call[c].phase = "remove"
  /\ IF row.there
     THEN /\ Write(c, [row EXCEPT !.there = FALSE])
          /\ Deletes(c, {row.key, call[c].existing})
     ELSE /\ Done(c)
          /\ UNCHANGED row
  /\ UNCHANGED <<kind, bucket, uploaded, pending, poller, failures>>

\* The rest of a call's deletions, one less.
Less(c, k) ==
  Goes(c, [call[c] EXCEPT !.delete = @ \ {k},
                          !.phase = IF call[c].delete = {k} THEN "done" ELSE "delete"])

DeleteObject(c, k) ==
  /\ call[c].phase = "delete"
  /\ k \in call[c].delete
  /\ bucket' = bucket \ {k}
  /\ Less(c, k)
  /\ UNCHANGED <<kind, row, uploaded, pending, poller, failures>>

\* deleteAudio schedules what it cannot delete; deleteQuietly writes a line of log, and
\* so does deleteAudio when the outbox fails too.
DeleteFails(c, k, scheduled) ==
  /\ failures < MaxFailures
  /\ failures' = failures + 1
  /\ call[c].phase = "delete"
  /\ k \in call[c].delete
  /\ scheduled => kind = "audio"
  /\ pending' = IF scheduled THEN pending \cup {k} ELSE pending
  /\ Less(c, k)
  /\ UNCHANGED <<kind, row, bucket, uploaded, poller>>

\* The process dies with the call; the poller of the next one begins anew.
Crash ==
  /\ failures < MaxFailures
  /\ failures' = failures + 1
  /\ call' = [c \in Calls |-> IF InFlight(c) THEN [call[c] EXCEPT !.phase = "done"] ELSE call[c]]
  /\ poller' = Resting
  /\ overtaken' = {}
  /\ UNCHANGED <<kind, row, bucket, uploaded, pending>>
-----------------------------------------------------------------------------
(* StoryboardAudioCleanupPoller *)

TakeEvent(k) ==
  /\ poller.phase = "rest"
  /\ k \in pending
  /\ poller' = [phase |-> IF row.there /\ row.key = k THEN "mark" ELSE "delete", key |-> k]
  /\ UNCHANGED <<kind, row, bucket, uploaded, call, pending, overtaken, failures>>

CleanUp ==
  /\ poller.phase = "delete"
  /\ bucket' = bucket \ {poller.key}
  /\ poller' = [poller EXCEPT !.phase = "mark"]
  /\ UNCHANGED <<kind, row, uploaded, call, pending, overtaken, failures>>

\* The failure is caught: the event waits for the next pass.
CleanUpFails ==
  /\ failures < MaxFailures
  /\ failures' = failures + 1
  /\ poller.phase = "delete"
  /\ poller' = Resting
  /\ overtaken' = overtaken \ {"poller"}
  /\ UNCHANGED <<kind, row, bucket, uploaded, call, pending>>

MarkProcessed ==
  /\ poller.phase = "mark"
  /\ pending' = pending \ {poller.key}
  /\ poller' = Resting
  /\ overtaken' = overtaken \ {"poller"}
  /\ UNCHANGED <<kind, row, bucket, uploaded, call, failures>>

Poll == (\E k \in Keys : TakeEvent(k)) \/ CleanUp \/ MarkProcessed

Next ==
  \/ \E k \in Keys : Upload(k)
  \/ \E c \in Calls :
       \/ \E k \in Keys : Attach(c, k) \/ DeleteObject(c, k)
       \/ \E k \in Keys, scheduled \in BOOLEAN : DeleteFails(c, k, scheduled)
       \/ HeadFile(c) \/ FindRow(c) \/ WriteRow(c)
       \/ RemoveCover(c) \/ RemoveCard(c) \/ SoftDelete(c)
  \/ Crash \/ Poll \/ CleanUpFails

Spec == Init /\ [][Next]_fileVars
-----------------------------------------------------------------------------
(* Properties *)

InUse(k) == row.there /\ row.key = k

OnlyTheOvertakenLose ==
  \A k \in bucket \ bucket' : InUse(k) => \E by \in overtaken :
    IF by = "poller" THEN poller.key = k ELSE k \in call[by].delete

\* A file is deleted while the row names it only by somebody who decided on an older
\* row: an author who does one thing after the other, with a poller that does not
\* overlap, never loses the audio or the cover that is attached.
LostOnlyWhenOvertaken == [][OnlyTheOvertakenLose]_fileVars
=============================================================================
