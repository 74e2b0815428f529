# TLA+ models of the PlumIA backend

PlumIA is a NestJS backend for authors: they write scenes, and the backend
analyses the text with language models, keeps a knowledge base of entities,
relationships and temporal states, raises consistency alerts, writes summaries,
generates images, exports books and shares them with readers. Its data are in
PostgreSQL (through Prisma), its background work is in BullMQ queues on Redis,
its files are in object storage.

What is hard in this program is not any single request: it is that a scene is
rewritten while minutes of model calls read it, that a job can run twice, late
or never, and that a row, a queue and a bucket have to agree at the end. The
modules here model that, TLC checks them on small instances, and TLAPS proves
the most important results for every value of the constants.

All paths below are relative to the repository; `pipeline` is
`src/system/entity-extraction/entity-extraction-pipeline.service.ts`.

## 1. Inventory of the system

| Component | State it keeps | Operations | Model |
|---|---|---|---|
| Analysis dispatcher and queue (`system/system.service.ts`) | outbox rows (`processedAt`, `payload.analysisStatus`), BullMQ jobs with id = row id | poll, enqueue, run, `failed` callback, finalise | `AnalysisDispatch` |
| Scene editing and chunk synchronisation (`manuscript/adapters/prisma-scene-repository.adapter.ts`) | `Scene.content`, `SceneChunk` rows (index, hash, `isDirty`), `OutboxEvent` | create, save, restore a version, request an analysis, delete | `SceneAnalysis` |
| Extraction pipeline (`pipeline`) | chunks, entity/state/relationship proposals, alerts, event status | process a scene event, process a project run, finalise a failed event | `SceneAnalysis`, `ProjectRuns`, `AnalysisDispatch` |
| Project analysis runs (`system/project-knowledge-review.service.ts`) | `ProjectAnalysisRun` and its scenes, counters | start, retry failed scenes, progress, complete | `ProjectRuns` |
| Proposal automation (`system/knowledge-proposal-automation.service.ts`) | proposals | approve what is fresh and unambiguous | `SceneAnalysis` (relationships), `EntityStates` (states) |
| Chunk planning (`manuscript/domain/scene-chunking.ts`) | none | cut a text into chunks | `SceneChunking` |
| Entity resolution (`entity-resolution.service.ts`) | none | match a candidate with entities and proposals by name | `EntityReview`, `KnowledgeMerge` |
| Cross-chunk audit (`cross-chunk-audit.service.ts`) | `ProjectContinuityCheckpoint`, alerts | audit neighbours, groups, the continuity of a project; resume, reconcile | `SceneAlerts`, `ContinuityAudit` |
| Knowledge proposals (`knowledge/services/*-proposal.service.ts`, `temporal-state.service.ts`) | proposals, entities, relationships, states | create, accept, reject, obsolete | `EntityStates` (states), `EntityReview`, `KnowledgeMerge` (entities and their updates), `RelationshipReview`, `SceneAnalysis` (evidence of all kinds) |
| Knowledge base (`knowledge/knowledge.service.ts`, adapters) | `Entity`, `Relationship`, `TimelineEvent` rows | edit, lock, remove; place an event | `EntityReview`, `KnowledgeMerge`, `RelationshipReview`, `Timeline` |
| Audit alerts (`audit/audit.service.ts`) | alerts, suppressions | create, merge, resolve, dismiss, restore, obsolete, apply | `SceneAlerts`, `SceneAnalysis` (evidence), `EntityStates` (apply) |
| Outbox poller (`common/workers/outbox-poller.ts`) | outbox rows of other types | poll, process, mark | `RenderJobs`, `StoredFiles` |
| Image and export jobs (`publishing/publishing.service.ts`, `publishing/exports/export.service.ts`) | job row, bucket, `GeneratedImage` | request, relay, claim, render, upload, commit, fail | `RenderJobs` |
| Summaries (`summary/`) | `Summary` rows (author's or generated, dirty), `SummaryGenerationJob` rows | request, edit by hand, invalidate, generate, check, store | `SummaryJobs` |
| Image gallery (`publishing/image-assets.service.ts`) | `GeneratedImage.isPrimary`, `Entity.imageUrl` (which `PATCH entity` and `acceptProposal` write too) | attach, choose, delete | `ImageGallery` |
| Reading and sharing (`reading/`) | `ShareLink`, `ReaderComment` rows | invite, accept, change, revoke, expire, comment | `Sharing` |
| Accounts and authentication (`user/`, `auth/`) | `User` row, Firebase identity, API keys, model selection | delete the account; save, remove and select keys | `AccountDeletion`, `AiSettings` |
| Storyboard audio, book covers, storage (`manuscript/`, `storage/`) | row keys, bucket, clean-up events | upload, attach, replace, remove, clean up | `StoredFiles` |
| EPUB import (`manuscript/services/epub-import.service.ts`, `domain/epub-import.parser.ts`) | project, chapters, scenes, bucket | outline, create, upload, undo | `EpubImport` |
| Chat (`chat/`) | `ChatThread`, `ChatMessage`, chunk vectors, help table | send, rename, archive, delete; embed, search; count, first mention; select sources; index the help | `ChatExchange`, `ChatIndex`, `ChatRetrieval`, `ChatSources`, `HelpIndex` |
| Extraction client and prompts, image providers, export rendering, analytics | none, or rows nobody else reads | | not modelled (section 7) |

How they interact:

* A save writes the scene, its chunks and an outbox row in one transaction. The
  dispatcher of a worker process polls the outbox table and adds a BullMQ job
  whose id is the row's id. A worker runs the pipeline for it: it reads the
  chunks once, calls the model for each dirty one, stores proposals and alerts,
  clears the dirty flag and, at the end, sets `processedAt`. The only shared
  state is the database; nobody holds a transaction during a model call.
* A run over a whole project is an outbox row of another type; its job walks
  the scenes of the run, and the same functions of the pipeline analyse each.
* Images and exports have a row of their own, an outbox row written with it, a
  relay (in web processes) that turns the outbox row into a BullMQ job, and
  workers that claim the row, render, upload, and commit.
* A request for a summary finds or creates a job row for the hash of the text and
  enqueues it; the worker reads the text and the current summary, generates,
  reads the text again and stores. An invalidation makes the summaries of a scene
  and its chapter dirty and asks for new ones. Nothing in the repository writes
  the event that starts one.
* A save, a move or a removal of a scene also changes what audits have stored: it
  invalidates continuity checkpoints from that scene on and makes the alerts that
  quote its old chunks obsolete, in the transaction of the save.
* Proposals, entities, relationships and alerts are written by the analysis, by the
  author and by the automation; no lock or version is shared between them.
* The chat reads chunks, entities and events, and writes vectors into the chunk rows
  that saves rewrite.
* `failed` callbacks, stalled-job checks and retries of BullMQ act on jobs
  behind the back of the code that runs them.

What is hard about each, and what makes it correct:

| Component | Hard behaviour | Correct when |
|---|---|---|
| Dispatcher | poll passes overlap; a job may be removed between the read of a row and `getJob`; exhausted jobs are finalised by a callback nobody awaits | a row is settled only because its event was handled or its attempts are used up; no two runs of an event without a fault; every row is settled in the end |
| Scene editing / pipeline | the author writes during a run; runs fail half way; runs are repeated; evidence quotes chunks that are rewritten in place | no text stays unextracted and unmarked; evidence quotes what the scene says; a dirty scene has an event; a failure can be retried |
| Project runs | a run is closed by its worker or by the `failed` callback; it can be walked again; two requests race | no run stays active with nobody to end it, but for one whose job stalled too often; counters and outcome match the scenes; at most one active run |
| Render jobs | the claim is not exclusive, the commit may be applied without an answer, the relay writes to two systems | a completed job has its file; one image per job; completion is final; queue and row agree |
| Summaries | the author writes, deletes, edits by hand and asks again while the model works; requests find and create jobs in two statements | an invalidation never takes an author's text away; what is stored is for the text that was checked; no request is lost, none makes a second job of one in flight |
| Entity states | the author, proposals in any order of scenes and steps, and confirmed alerts change the same rows; proposals are extracted again after a decision | an applied value holds at its scene; every snapshot that changes is audited; locks and decisions are respected, but for the gaps between two statements of an analysis |
| Entity proposals | proposals are read once and kept in memory during the analysis; an acceptance reads, then writes; the author edits and locks meanwhile | one name does not become two entities without a race; what was extracted is in the entity or in a proposal; updates that contradict a locked value say so |
| Relationship proposals | a proposal names a version that can be split, ended or removed before it is accepted | accepted changes leave versions of a relationship that do not overlap; an end stays an end; rejected evidence is not proposed again |
| Scene alerts | fingerprints carry the texts, suppressions the values; chunks move; alerts are merged | a contradiction in the text of a quiet scene is reported; what the author dismissed stays away |
| Continuity audit | it resumes behind a checkpoint while scenes are saved, moved and removed and audits fail | an audit at rest has a row for every contradiction of the project, active unless it was merged |
| Timeline | placements compute on positions they read before; gaps run out | an event stands where it was placed |
| Sharing | access is decided on a row read before a revocation | nobody who asks after a revocation is let in |
| Files and gallery | a row, a bucket and a clean-up are separate writes | a file in use is lost only when its request was overtaken; one primary image, shown unless the author gave another url |
| Account deletion | a transaction, a bucket and an identity provider, beside requests already let in | the identity goes only after the data |
| EPUB import | boundaries of several kinds in any order; failures between transactions | the text stays whole and in order; a failed import leaves nothing |
| Chat | vectors arrive late; pages of chunks; sources are numbered, filtered and reordered | a vector is used only for the text it was computed of; counts and first mentions are exact, of the words that are searched; a number in an answer names its source |
| Settings and help | check, then write; two builds on one table | a selection has its key; a vector in the help table belongs to its text |

`PROJECT.json` lists every component with its sources and every hazard with the
line where it bites.
## 2. The modules

| Module | What it is |
|---|---|
| `OutboxPromise` | abstract specification: what an outbox consumer promises of a set of events |
| `AnalysisDispatch` | the dispatcher, the queue, the worker, the callbacks, faults |
| `SceneAnalysis` | one scene: author, chunks, events, runs of the pipeline, evidence |
| `ProjectRuns` | analysis runs of a project |
| `RenderJobs` | image and export jobs, with their relay and queue (`ImageJobs` says which is which) |
| `SummaryJobs` | summaries of the scenes of a chapter and of the chapter: requests, invalidations, generations |
| `EntityStates` | the states of an entity over the scenes, proposed, accepted and written by hand; snapshots and their audit |
| `EntityReview` | entities of a name and their proposals: analyses, acceptances, the author |
| `KnowledgeMerge` | updates of one entity: what is extracted, merged, warned about and accepted |
| `RelationshipReview` | versions of a relationship and the proposals to create, change and end it |
| `SceneChunking` | how a text is cut into chunks |
| `SceneAlerts` | alerts between the chunks of a scene: found, merged, suppressed, decided, made obsolete |
| `ContinuityAudit` | the audit of a project against the claims of its earlier scenes, with checkpoints |
| `Timeline` | placement of events by fractional positions |
| `Sharing` | one shared version and the requests of its reader |
| `StoredFiles` | the file a row names, its bucket and the clean-up of what it replaces |
| `ImageGallery` | the primary image of an entity |
| `AccountDeletion` | deletion of an account beside its other requests |
| `EpubImport` | outline of a book and the creation of its project |
| `AiSettings` | selection of a provider and its keys |
| `HelpIndex` | the application's help texts and their vectors, shared by several builds |
| `ChatExchange`, `ChatIndex`, `ChatRetrieval`, `ChatSources` | the messages of a thread; the vectors of chunks; counts and first mentions; the selection of sources |
| `MCSceneAnalysis`, `MCProjectRuns`, `MCSummaryJobs`, `MCEntityStates`, `MCEntityReview`, `MCRelationshipReview`, `MCSceneAlerts`, `MCParts`, `MCAudits`, `MCAnswers`, `MCManuscript`, `MCCounts`, `MCLibrary` | instances for TLC: symmetry, views, bounds, the values of constants that a cfg cannot write; `MCLibrary` composes the components that share no state (section 3), `MCAudits` the two of the audit, `MCAnswers` two of the chat, `MCManuscript` the chunking and the import of books, and `MCCounts` the counts of the chat among them, over the variables of `MCParts` |
| `AnalysisDispatch_proofs`, `SceneAnalysis_proofs`, `ProjectRuns_proofs`, `RenderJobs_proofs`, `SummaryJobs_proofs`, `EntityReview_proofs`, `RelationshipReview_proofs`, `Library_proofs` | theorems and proofs; `Library_proofs` is about `MCLibrary`, its constants left open; `MCAudits` is proved about in `AnalysisDispatch_proofs`, `MCAnswers` and `MCManuscript` in `RenderJobs_proofs`, `MCCounts` in `SummaryJobs_proofs`, `MCEntityStates` in `EntityReview_proofs` |

`AnalysisDispatch` and `RenderJobs` both implement `OutboxPromise` (`INSTANCE
... WITH`, the property `KeepsPromise`): events are recorded, handled, perhaps
abandoned, and settled only when handled or abandoned. The refinement mappings
are at the end of the modules. `SceneAnalysis` and `ProjectRuns` have the queue
of `AnalysisDispatch` folded into a few job states, so that what a run does to
its data can be checked with retries, exhausted attempts, crashes, lost locks and
redelivered events. `SceneAnalysis` and `SummaryJobs` return every stalled job to the queue: their
properties about faults speak of one fault, which BullMQ's `maxStalledCount` of 1 survives; what a
second does to the row and the run is `AnalysisDispatch` and `ProjectRuns`.

### OutboxPromise
Variables `recorded`, `handled`, `abandoned`, `settled`. An event may be handled
more than once and even after it was abandoned; it is settled only after one of
the two, and never unsettled.

### AnalysisDispatch
`order` is `createdAt`, `processed` is `processedAt # null`, `status` is
`payload.analysisStatus`; `jobState`, `made`, `stalls`, `holder` are the BullMQ
job (state, attemptsMade, stalledCounter, lock); `batch` is what a poll pass has
read and not yet dispatched; `run`/`pc` the worker; `callbacks` the `failed`
callbacks that are scheduled.

| Action | Code |
|---|---|
| `Record` | the insert at the end of `enqueueSceneChanged` |
| `PollRead`, `PollRow`, `AbandonRows` | `SystemService.pollOnce`: read the batch; for each row `getJob`, then add the job, finalise an exhausted one, or skip; an error drops the rest of the pass. Passes overlap because `setInterval` does not wait |
| `Take` ... `Complete`, `Throw` | `processOutboxEvent` in a worker: RUNNING, the work, `markProcessed`, the job removed on completion |
| `FailedCallback`, `LoseCallback` | the `failed` listener: finalises the row when the attempts are used up; a crash or a failing transaction loses it |
| `Promote`, `LoseLock`, `StalledAfterCrash`, `StalledWhileRunning`, `Crash` | BullMQ and the process (external) |

### SceneAnalysis
`content` is the text as a sequence of chunks (it stands for its hash), `rows`
the chunk rows by index with `dirty`; `owed` is history: the text of this row
was written and never extracted. `events` are the outbox rows with their jobs,
`worker` the runs, `evidence` what is pending and active (alerts, entity, state
and relationship proposals, each with the chunk and text it quotes), `approved`
the relationships accepted automatically.

| Action | Code |
|---|---|
| `Save`, `Restore` | `updateContentForUser`, `restoreVersionForUser` with `syncSceneChunks`, `obsoleteAlertsForChangedChunks`, `enqueueSceneChanged`: one transaction, one action. Rows are rewritten by index, surplus rows deleted; the foreign key of a state or relationship proposal becomes null |
| `RequestAnalysis`, `ToggleAutoAnalysis`, `SoftDelete` | the operations of the same names |
| `Take`, `ReadChunks`, `Prune`, `Extract`, `ClearDirty`, `Review`, `Approve`, `MarkProcessed` | `processSceneChanged` query by query: each is a separate statement in the code, and the author may act between any two |
| `Throw`, `FinalizeFailed` | an exception anywhere in a run; `handleFailedOutboxTransaction` |
| `Crash`, `LoseLock`, `Requeue` | faults; `Requeue` is the dispatcher adding a completed job again from a stale row |

Abstractions: `Extract` stores every kind of evidence for the chunk (the worst
case of what a model answers); setting RUNNING and reading the scene are one
step; `Prune` is one step; the automatic approval of states and the alerts of the
cross-chunk audit are left out (`SceneAlerts` has them); the author's own reviews of
proposals are left out (`EntityReview`, `RelationshipReview`); null and empty content are both `<<>>`.

### ProjectRuns
A scene is dirty or clean; a run has the status and counters of its row, the
status of each of its scenes, and the state of its event and job (`tries` is attemptsMade,
`stalls` the stalled counter: a job that stalled more than `MaxStalledCount` times is failed
with attempts left, which neither the `failed` listener nor the poll takes for exhausted).

| Action | Code |
|---|---|
| `StartAnalysis` | `startAnalysis`: a serializable transaction that looks for an active run |
| `ReadFailed`, `RetryFailed`, `RefuseRetry` | `retryFailed`: a read, then a transaction that does not look |
| `Take`, `BeginScene`, `Analyse`, `FinishScene`, `FailScene`, `Progress`, `Complete`, `MarkProcessed`, `Throw` | `processProjectAnalysisRun` and what it calls |
| `FinalizeFailed` | `markFailedProjectAnalysisRun` |
| `Edit`, `SoftDelete`, `AnalysedElsewhere` | the rest of the system acting on scenes |
| `Crash`, `LoseLock`, `Requeue` | faults; the first two `Stall` the job; they set `redelivered` when a job can run twice |

### RenderJobs
`order`, `processed` and `batch`/`marking` are the outbox row and the relay;
`queue`, `tries`, `stalls`, `holder` the BullMQ job; `status` the row; `uploaded`
and `images` the bucket and the gallery; `run` the workers. `doubled` (a lock was
lost while its holder went on) and `uncertain` (a commit was applied and its
answer lost) are history. The module covers images and exports because the two
services run the same protocol; where they differ (an image claim also asks for
`generatedImageId` null, a commit inserts an image) the definition looks at
`ImageJobs`. Left out: progress writes, server-sent events, the eviction of finished
jobs from Redis, and the 'already exists' branch of the relays (adding an
existing id to BullMQ is not an error).

### SummaryJobs
`text` and `live` are the scenes of one chapter, `summary` the row of each scope,
`jobs` a generation row together with its BullMQ job, `requests` the requests
between two awaits, `stale` what an invalidation has still to ask for, `worker` the
two slots of the generation worker. An input is what each scene of the scope says;
it stands for its hash.

| Action | Code |
|---|---|
| `RequestGeneration`, `FindJob`, `CreateJob`, `EnqueueJob` | `requestGeneration`, the two statements of `createOrGetJob`, `enqueueGeneration` |
| `ProcessInvalidation`, `ListInvalidated`, `EnqueueInvalidated`, `SkipInvalidated` | `processInvalidation`: the transaction and the query of `invalidateScene`, then each summary |
| `Take`, `ReadSource`, `GeneratePart`, `CheckSource`, `UpsertGenerated`, `MarkCompleted`, `MarkFailed` | `processGeneration` |
| `UpdateManual`, `WriteScene`, `DeleteScene` | what the author does meanwhile |
| `TakeFails`, `GenerationFails`, `DatabaseDown`, `RequestDies`, `LoseLock` | failures |

`raced` (the source changed after the check), `edited` (the author wrote after the
run read the current summary) and `overlapping` (two requests for a scope were in
flight together) are history: they say when the code promises less. Left out:
the text of summaries, chunked reduction and verification of the answer (any part
succeeds or fails), titles, the priority of jobs, the invalidation queue.

### EntityStates
`rows` are the `EntityState` rows of one entity in the order of their creation, a
scene is its position, an order n of the code is n + 1 (0 stands for null). `review`
is the status and `conflictsWithLocked` of each proposal, `evidence` what became of
its chunk, `held` what an analysis has read and not yet written, `step` what the last step enqueued and whether the automation made it.

| Action | Code |
|---|---|
| `CreateState`, `UpdateState`, `RemoveState` | the author's states in `temporal-state.service.ts` |
| `ReadLocks`, `ReadProposal`, `WriteProposal` | `createProposal`: three statements |
| `FindStale`, `MarkStale` | `obsoleteProposalsWithoutCurrentChunkSupport`: a read of pending proposals, and an update by id that does not look at the status again |
| `ListPendingProposals`, `AcceptProposal`, `AcceptSequence`, `RejectProposal` | the review; every acceptance goes through `ApplyStateChange` |
| `ReviewScene` | `knowledge-proposal-automation.service.ts` |
| `ApplyKnowledgeUpdate` | `audit.service.ts`: a confirmed alert, which does not go through `applyStateChange` |
| `ChangeChunk`, `DeleteScene` | the scene repository |

`View` is the snapshot of a scene.
`lockedFirst` and `inOrder` are history: what the author locked before an analysis began to propose
anything for it, and the keys whose states were only added after the last one (a state
added before another one may overlap it, and nothing refuses that). What the author and the
automation do is one transaction and one action each (`listPendingProposals` marks what its one
update still finds pending); two of these that overlap at READ COMMITTED, as
`updateState` with the row it read before its transaction, are not modelled, nor are two analyses at
once (the worker takes one job at a time). Left
out: the window of an alert's own evidence, switching the tracking off, moving
scenes, confidence thresholds, and the order in which PostgreSQL returns
rows of equal order (creation order is taken).

### EntityReview
`chunk` is the one chunk of each scene, `entity` and `proposal` are rows, `run` is the
analysis and what it holds in memory, `request` an acceptance that has read and not
written. One name stands for every label that resolves to it.

| Action | Code |
|---|---|
| `StartAnalysis`, `ReadProposals`, `PruneProposal` | the reads of `processSceneChanged` and `pruneUnsupportedProposals`, one update each |
| `ExtractEntities`, `ProcessConfirmed`, `ProcessPending`, `ProcessNew` | `processDirtyChunk`: an extracted name goes to the entity, to an open proposal in memory, or to a new one |
| `FinishAnalysis`, `AnalysisFails` | the flag, the end of the run, an exception |
| `ReadAccepted`, `WriteAccepted`, `RejectProposal` | `acceptProposal` (its reads and its writes are separate statements at READ COMMITTED), `rejectProposal` |
| `Save`, `CreateEntity`, `RemoveEntity` | the author |

`excused` is history: the names that the author made an entity of himself, or whose
proposal was accepted behind the back of an analysis, or twice at once.

### KnowledgeMerge
`entity` is one row, `proposals` its updates in order, `job` the copies an analysis works
on. A description is a sequence of statements and "includes" is contiguous containment.
`Handle` is `processConfirmedEntityCandidate` up to what it suggests (`SkipCandidate`,
`CreateUpdate`, `MergeUpdate` are its ends), `AcceptUpdate` is `acceptProposal` with
`updateEntity`, `EditEntity` the author who edits and locks the name, the description, the aliases or
the attribute (the type and the picture, which no update touches, are left out). `heard` and `preceded` are
history: what undisturbed analyses have handled and the author did not take out, and which updates were waiting when the
author locked a field or come from an older reading.

### RelationshipReview
A version holds from a scene up to another; a scene is its position. `ReadLists` to
`EndAnalysis` are the relationship half of the pipeline (snapshot, proposals, candidates,
obsolescence), `ReadAccepted` and `WriteAccepted` are `acceptProposal` of
`relationship-proposal.service.ts` with its three writes (`AcceptVersion`, `AcceptEnd`,
`NewEnd`), `AcceptEndpoint` and `RejectEndpoint` decide the entity proposal one end hangs
on. `disturbed` and `crossed` are history: lines with a version edited by hand, accepted with another end, or
written where it had changed since it was read; and lines that an acceptance without a known version
(`relationship.create`, which looks for no other) began in scenes where a version held. Every version of
the module is of the one relationship: the same two entities and type.

### SceneAlerts and ContinuityAudit
Both are the cross-chunk audit, each in the modes it names. A text claims a value, the
model reports every contradiction it is shown, so what is missed is missed by the code:
by the choice of pairs (`AdjacentPairs`, `GroupedPairs`), by fingerprints and
suppressions, by a checkpoint that still seems to hold. `alerts` of `ContinuityAudit` are rows by
their fingerprint, which has the texts and the audited scene but not the earlier one: two earlier scenes
that say the same share a row, with the sources of both (`Recorded`), and any source that is gone
makes the row obsolete (`Outdated`).

| Action | Code |
|---|---|
| `Begin`, `LoadChunks`, `Fail` | the analysis around the audit |
| `SkipThis`, `CheckSuppression`, `FindAlert`, `WriteAlert` | `persistContradiction` and `createAlert`, statement by statement |
| `Reconcile` | `reconcileSceneAuditAlerts`, `obsoleteCrossChunkAlertsForChunks` |
| `Resolve`, `Dismiss`, `RestoreAlert`, `Save` | the author |
| `LoadScenes`, `Resume`, `Extract`, `Record`, `Store`, `EndAudit`, `FailAudit`, `SkipAudit` | `auditProjectContinuity`: find the resume point, then scene by scene the claims, contradictions and checkpoint |
| `Change`, `MoveScene`, `RemoveScene`, `ChangeMode` | what queues an audit or invalidates a checkpoint |

The writes that make alerts obsolete do not look at their status in the code; each is one
action here. `excused` in `ContinuityAudit` names what no later audit makes good: an
audit that failed or was skipped because of the mode, and the removal of a scene. What the
author decides about an alert is `SceneAlerts`' part.

### Timeline, Sharing, StoredFiles, ImageGallery, AccountDeletion
These model requests statement by statement (or transaction by transaction), with what each
holds between two awaits in one variable (`request`, `reading`, `call`, `editor`,
`deletion`), so that any two requests interleave; `raced`, `overtaken`, `disturbed` and
`admitted` are history that say when the code promises less. A position of `Timeline`
counts units of the smallest gap, so that a middle that does not exist is met after two
placements. `StoredFiles` has the audio of storyboard cards, whose deletion is retried
through the outbox (`TakeEvent` to `MarkProcessed`), and book covers, whose deletion is
not. `ImageGallery` has, beside the gallery's requests, the urls the
author writes into the entity (`WriteUrl`: `PATCH entity`, and an acceptance with an image url; `POST
entity` is an initial state); `authored` says that the last url is his. `AccountDeletion` has the retry loops of the transaction and of Firebase, and
`Admit`, `CreateProject`, `FillProject` as the requests that were let in before.

### SceneChunking, EpubImport
Pure algorithms as state machines over bounded inputs. `SceneChunking` plans a text of
blocks, sentences and words in one step. `EpubImport` reads the spine document by document
and block by block (`BeginDocument`, `ReadBlock`, `EndDocument`, `EndSpine`) with the
boundaries the parser knows (structural, semantic, roman numerals), then creates project,
chapters, images and scenes (`CreateProject` to `CreateScene`), any of which may fail
(`CreateFails`), and undoes it (`CleanUp`).

### AiSettings, HelpIndex
`AiSettings`: selecting and removing are a check and a write each; an analysis reads the
selection and then its key. `HelpIndex`: each instance writes the corpus of its build into
the shared table when it starts (`Start`) or in a search (`LoadForSearch`), then embeds
what is stale batch by batch (`FindStale`, `UpdateEmbedding`); instances stop at any step.

### Chat
`ChatExchange` is `sendMessage` from the read of the thread over routing, retrieval,
generation in one domain, a second one in the other, verification and presentation to the
transaction that stores it, with two messages of one thread and an author who renames,
archives and deletes. `ChatIndex` is a question's one batch of stale chunks, shared with the
questions that arrive meanwhile, its provider call and its row-by-row writes, while chunks
are rewritten and the process restarts with another model. `ChatRetrieval` is the paged
search and the count or first mention made of it, of the word asked for and, for a first mention after
other questions, of the words of the last two (`followed`), over chunks no two of which have a place in
common (`IsManuscript`, which every save keeps). `ChatSources` is the selection, with the
code's own limits.
## 3. What is checked

A property that is the conjunction of named parts is written so below; the parts are
stated, each with its comment, in the module.

| Run | Instance | What it shows | States |
|---|---|---|---|
| `AnalysisDispatch_dispatch` | 2 events, 2 workers, 2 passes, 2 attempts, batch 1, 1 fault | `OutcomeIsEarned`: a row is settled only for cause (`SettledForCause`) and FAILED means the attempts are used up (`FailedMeansExhausted`); `NoOverlapWithoutFaults`; refinement of `OutboxPromise` (`KeepsPromise`); `EventuallySettled`: every recorded event is settled, except one whose job was failed for stalling with attempts left, and as long as fewer such jobs than a batch takes stay in front of it | 335,500 |
| `SceneAnalysis_safety` | texts `<<a>>`, `<<a,b>>`, `<<>>`, 1 worker, 4 kinds of evidence, 2 attempts, 2 events, 2 saves, 1 fault | `OnlyOverlapLosesText`; `AlertsQuoteCurrentText`; `WorkIsNotForgotten`: a dirty scene has an event, and one whose analysis failed can be asked for again; `QuietRunSettles`: a quiet successful run leaves nothing stale and approves nothing on a quote that is gone | 1,858,296 |
| `SceneAnalysis_lost` | one chunk, 1 worker | *violation*: a save during a run is lost | |
| `ProjectRuns_runs` | 2 scenes, 2 runs that nothing disturbs (the second of one scene) or 1 run with 2 faults, 2 attempts | `RunsAreSound`: an active run has work under way, a settled one tells the truth about its scenes, `startAnalysis` keeps runs apart; `RunsEnd`: every run comes to an outcome, but for one delivered again or one whose job was failed for stalling twice | 490,091 |
| `ProjectRuns_duplicate` | 2 scenes, 2 runs | *violation*: two active runs | |
| `RenderJobs_jobs` | an image job and an export job, 1 relay, 2 workers, batch 1, 2 attempts, 1 fault | `JobsAreSound`: `CompletedHasFile`, `QueueAgreesWithRow`, `OneImagePerJob`; refinement of `OutboxPromise`; `EveryJobEnds` | 175,054 |
| `SummaryJobs_jobs` | 1 scene and its chapter, 1 author, 2 workers, 2 jobs, 2 attempts, 1 save or 1 fault | `JobsAreSound`: one job in flight per input, queue and row agree, an active job runs; `StoresAreEarned`: `ManualTextIsKept`, `StoredForCurrentText` | 1,491,653 |
| `EntityStates_safety` | 3 scenes (the last may be deleted), 1 standard attribute, 2 values, 2 proposals of a transition, 2 edits by hand, 1 alert, 3 rows (1 while an analysis is between two statements) | `RowsAreSound`: an applied value holds, states added in order stay disjoint; `StepsRespectTheAuthor`: a scene whose snapshot changes is audited, a lock taken before anything was being proposed stops the automation, a decision is undone only by an analysis that read the proposal as pending before it | 422,907 |
| `EntityReview_review` | 2 scenes that may mention one name, 2 entities, 2 proposals, 1 analysis and 2 acceptances at a time | `TwinsNeedARace`; `ProposalsAreBacked`: a proposal is taken back only when its scene lost the chunk | 2,034,613 |
| `RelationshipReview_review` | one relationship over 2 scenes, 2 versions, 2 proposals, 1 acceptance at a time, 1 edit by hand | `VersionsAreSound`: no two versions of the relationship overlap, whatever lines they are of, but for disturbed lines and against those begun where a version already held; what was rejected is not proposed again on its evidence; `EndedStaysEnded` | 1,712,766 |
| `Library_parts` | sixteen components, each alone | one property of each, three of which have two: see below | 1,325,195 |
| `SceneAlerts_reopened` | one scene of 2 or 3 chunks, 1 decision | *violation*: a conflict is found again and obsoleted by the same audit | |

`Library_parts` (module `MCLibrary`, with `MCAnswers` and `MCCounts` for the chat and `MCManuscript`
for the chunking and the import) runs the components that
share no state with each other. A behaviour chooses one of them (`part`), whose variables
are `v1`, `v2`, ...; the others are `None` and never change, so the run explores the sum of
the components' state spaces and nothing is lost by exploring them together. Actors and
files are symmetric in all of them. Its properties:

| Component | Instance | Property |
|---|---|---|
| `Sharing` | 2 requests, 1 change of a comment | `RevokedAdmitsNobody`: a request that reads the row after a revocation is shown and stores nothing |
| `StoredFiles` | 3 calls, 2 files, 2 failures | `LostOnlyWhenOvertaken`: a file in use is deleted only by somebody who decided on an older row |
| `ImageGallery` | 2 calls, 3 images, 1 url of the author's, 1 cut | `PictureAgrees`: without overlap, at most one image is primary, and `imageUrl` is its unless the author wrote one since |
| `AccountDeletion` | 2 deletions, 2 other requests, 2 projects, 2 attempts, 1 failure | `DataGoneBeforeIdentity` |
| `EpubImport` | 520 books of up to 2 documents of up to 5 blocks, one of them with front matter and a prelude, 3 chapters, 2 failures | `StoryIsKept`, `FailedImportLeavesNothing` |
| `SceneChunking` | all texts of up to 2 blocks of up to 2 of 6 sentences, and some of 3 blocks; 5 characters, 3 words | `ChunksAreTheText` |
| `KnowledgeMerge` | 4 candidates, 2 per analysis, 1 edit, 1 update at a time | `FactsReachTheAuthor`, `LockedValueIsWarned` |
| `Timeline` | 3 events and a fourth, a step of 2 gaps, 3 moves (2 when placements race) | `PlacedWhereAsked` |
| `ContinuityAudit` | 3 scenes, 2 fields, at most 1 claim kept, 1 save, 1 change | `QuietAuditIsComplete`: every contradiction has a row that quotes both scenes, active unless it quotes a third; what is active quotes current text of its scene and of an earlier one |
| `SceneAlerts` | 4 texts of 2 to 4 chunks, groups of 3, 2 saves, 2 decisions | `QuietSceneIsReported`, `DismissedStaysAway` |
| `AiSettings` | 2 requests, 2 providers, 2 saved keys | `SelectedKeyIsFound` |
| `HelpIndex` | 3 instances of 3 builds, 3 texts, batch 2, 3 starts, 1 failure | `IndexIsTrue` |
| `ChatExchange` | 2 messages, 5 answers of the model, 1 title | `AnswersAreSound`: every model call is charged, and every number in a stored answer leads to the source it was given for |
| `ChatIndex` | 2 chunks, 2 texts, 2 models, 2 questions, batch 1, 3 saves, 1 restart | `SearchSeesCurrentText` |
| `ChatRetrieval` | 3 scenes of up to 2 chunks, pages of 2, 2 saves; a count, a first mention, a first mention after other questions | `AnswersAreExact` |
| `ChatSources` | every mix of sources within the code's limits, wiki pages in {0, 1, 2, 5, 9, 10} | `NoKindIsCrowdedOut` |

`LineInit`, `LineNext`, `AuditsInit`, `MergeInit`, `RetrievesForTheFirst` and `FewWikiPages` in
the MC modules are further bounds on those instances; their comments say which, and the
constants `FirstEvents`, `RacedMoves`, `FirstEntities`, `FirstOrders` and `FirstClaims` give four of
them their values. What a component assumes of its constants is a definition of its module that
`MCLibrary` asserts (`PartsAssumption`), or `MCAudits` (`AuditsAssumption`), `MCAnswers`
(`AnswersAssumption`), `MCManuscript` (`ChunksAssumption`, `BooksAssumption`) or `MCCounts` (`CountsAssumption`); `MCEntityStates` does
the same for `EntityStates`.

Every property of a passing run has a mutant of the code (a dropped guard, a
swapped order, a flag not set) that breaks it; the mutated operators are in the
modules, next to what they mutate.

`CHECK_DEADLOCK FALSE` is in every cfg but that of `EntityStates`: the
author may stop writing, requests, saves and messages are bounded, and a system whose jobs
are all settled has nothing to do.

### Bounds, and why they are enough
* Two events, jobs or scenes show every interference between two; they do not
  interact otherwise than through the batch and the workers.
* Two poll passes, relays, workers or requests are the least that can overlap; three
  would only repeat the race of two. `StoredFiles` has a third call, because a file is
  replaced and used again while it is deleted.
* `Attempts` is 2 where the code has 4 (dispatcher) or 3 (images and exports): one attempt that is
  retried and one that is the last.
* `FaultBudget` 2 in `ProjectRuns` lets a fault hit the recovery from a fault, and a job stall
  more often than `MaxStalledCount` (1, BullMQ's default) allows; 1 elsewhere,
  where the state is large (the safety properties of `AnalysisDispatch` and `RenderJobs`
  are proved for any number of faults).
* `SummaryJobs` takes a save or a fault (`Bounded`): the properties about requests speak
  of runs without faults, those about texts of runs with a save.
* `MaxSaves` 2 and `MaxEvents` 2 in `SceneAnalysis`: a save before and one during a run. A
  third save of a one-chunk scene is in the violation run.
* `BatchSize` 1 (against 25, 50 or 24) makes a batch full with one row, so head-
  of-line effects happen; 2 in `HelpIndex`, where a batch must hold two texts.
* Three scenes and three rows in `EntityStates`: a state before, one between and one
  after, or a state and the two steps of a transition. `VIEW` leaves `step` out of
  the state: no action reads it, and the properties only read what it becomes. `MaxBusyRows`
  leaves out changes of the second and third row between two statements of one analysis, which
  touches no row.
* Two versions in `RelationshipReview`: one that is there and one that an acceptance makes
  by splitting it. The views of the two reviews leave out what no
  later step and no property reads.
* A scene has at most two chunks in `SceneAnalysis`: one that stays, one that is added or
  deleted; four in `SceneAlerts`, so that there are two groups that overlap in one.
* Pure algorithms take inputs long enough to cross each limit once and once more, and
  every kind of piece next to every other that the algorithm looks at together.

The theorems of section 5 have none of these bounds.

### Fairness
Every run with a liveness property is of a specification with weak fairness of
what the program or its libraries do on their own: poll timers fire, an idle
BullMQ worker takes a waiting job, a step of a run ends (HTTP and database
calls have timeouts, so they return or throw), backoff timers expire, and the
stalled check finds the job of a crashed worker. Nothing is assumed of the
author, and no fault, error or lost callback is ever required or excluded: faults
are bounded by `FaultBudget` because a system that crashes for ever does not
make progress. Only `AnalysisDispatch`, `ProjectRuns` and `RenderJobs` have fairness:
what the other modules promise is said of the moments when nothing is under way.
## 4. What disagrees with the repository's own words

| Run | What happens |
|---|---|
| `SceneAnalysis_lost` | `clearChunkDirtyFlag` (`pipeline:2455`) updates the chunk by id. A save during the model call marks it dirty again; the clear that follows drops that flag, the next event finds nothing dirty, and the text is never extracted |
| `ProjectRuns_duplicate` | `retryFailed` does not look for an active run, and takes a run that is still RUNNING |
| `SceneAlerts_reopened` | `mergeSourceConflict` (`audit.service.ts:983`) keeps the sources of the place where a conflict stood before beside those where it stands now. The reconciliation that ends the same audit then finds a source that is gone and makes the alert it has just reopened OBSOLETE |

Some properties hold only under a condition that names the known way to break
them (`~overlapped`, `~redelivered`, `Stranded`, `~doubled`, `~raced`, `overtaken`, `excused`,
`crossed`, `authored`, no fault). That is deliberate: the condition is the narrowest under which the code is
right, and the runs above, or a hazard in `PROJECT.json`, show what happens without it.

Met on the way and not made into a run of its own, by module.

`AnalysisDispatch`, `SceneAnalysis`, `ProjectRuns`, `RenderJobs`:
* a project run whose job stalls twice (`maxStalledCount` is BullMQ's default of 1,
  `system.service.ts:92`) stays RUNNING for ever: the listener (line 102) and the poll (line 183) look at
  attempts, of which some are left, and the poll adds no job while the failed one exists. Then
  `startAnalysis` finds an active run and starts none. `RunsEnd` names this exception;
  a scene event stranded the same way is `EventuallySettled`'s, and 25 of them stop all others;
* "The dispatcher marks an event as enqueued before BullMQ runs it"
  (`pipeline:197`): the dispatcher writes nothing to the row;
* automatic approval looks at fresh evidence first and accepts by id and status then
  (`relationship-proposal.service.ts:142`): a save in between approves a relationship
  whose quote is gone, which `knowledge-proposal-automation.service.spec.ts:131` excludes for
  evidence that is stale at the check. `QuietRunSettles` leaves overtaken approvals out;
* a retry after the flags were cleared finds nothing dirty and skips audit and review
  (`pipeline:952`);
* a state proposal whose chunk was deleted has `sourceChunkId` null and
  `obsoleteProposalsWithoutCurrentChunkSupport` (`temporal-state.service.ts:757`)
  skips it, so no later run obsoletes it; `QuietRunSettles` names this exception;
* the claim of an image or export accepts PROCESSING, so after a lost lock two
  runs work on one job; `doubled` marks those behaviours.

`EntityStates`:
* `obsoleteProposalsWithoutCurrentChunkSupport` reads the pending proposals and marks them by id
  (`temporal-state.service.ts:768`): a proposal the author accepts or rejects in between becomes OBSOLETE, and
  PENDING again when it is extracted anew. `DecisionIsFinal` names this exception;
* `createProposal` reads the lock in one statement and writes in a later one (lines 672, 698): a lock
  the author takes in between is missed, and the automation may then change the attribute.
  `LockedKeyIsLeftAlone` is about locks taken before;
* a state created or accepted at a scene before another state of its key leaves the
  two overlapping (`applyStateChange` looks at what is active where the new one
  begins); `updateState` then refuses every edit of the entity's states until one is
  shortened in the same call. `InOrderStatesAreDisjoint` names this exception;
* of two states of one scene and order an unordered change, or one of that order, rewrites the first
  (`temporal-state.service.ts:895`: the first row the query returns) while the snapshot shows the
  last (`temporal-knowledge-snapshot.service.ts:411`), so the value that was applied is not shown.
  `AppliedValueHolds` names this exception;
* the rule about incompatible states drops superseded steps only at the scene they begin in
  (`temporal-consistency-rule.service.ts:85`): at later scenes it reports the two steps of
  a transition as a conflict, against its comment (line 74) and
  `temporal-state.service.spec.ts:836`;
* `acceptProposal` and `acceptProposalSequence` ask for current evidence only if the
  proposal still names a chunk, `listPendingProposals` treats a missing one as stale;
* deleting the scene at which a state ends hides the state everywhere and audits
  nothing; `ChangedScenesAreAudited` leaves deletions out.

`EntityReview`, `KnowledgeMerge`, `RelationshipReview`:
* two acceptances of one proposal, or one behind the back of an analysis, make two
  entities of one name; `TwinsNeedARace` says that nothing less does;
* an update that is merged into a pending one is not marked as contradicting a locked
  value (`pipeline:1152`), which the help promises
  (`application-help.jsonl:123`, `:166`). `LockedValueIsWarned` names merged updates;
* a description that repeats a known text and extends it is dropped;
* acceptance writes the name the proposal stored, not the one the entity has by then;
* a relationship proposal that merges a candidate of another scene keeps its `sceneId`;
* a CREATE accepted for an earlier scene after one for a later scene makes a second relationship row of the same
  two entities and type that overlaps the first, with nothing edited by hand and no race:
  `acceptProposal` looks for no other (`relationship-proposal.service.ts:270`). `VersionsDisjoint` names this
  exception (`crossed`);
* an END accepted on an older version leaves the later one active; a pending UPDATE or
  END after the new end of its version, or an END without `relationshipId`, can
  never be accepted.

`SceneAlerts`, `ContinuityAudit`:
* restoring one alert deletes the suppression of its pattern, but another DISMISSED alert
  of the pattern creates it again at the next audit; restoring one that was OBSOLETE
  or RESOLVED makes an alert active that quotes old text until the next analysis;
* a fingerprint has no chunk ids: two places with the same two texts share an alert. Across scenes
  (`cross-chunk-audit.service.ts:1060`) an alert of scenes 1 and 2 and one of 3 and 2, whose texts 1 and 3 agree,
  are one row: after 3 is saved with another text the row is obsolete, and the contradiction of
  1 and 2 has no active alert, with nothing skipped and nothing failed; an active alert may
  go on quoting the old text of a third scene. `QuietAuditIsComplete` names merged rows;
* the clean-up that ends an audit outside its mode changes nothing (`audit.service.ts:832`,
  `cross-chunk-audit.service.spec.ts:227-251`), and `activeFingerprints` is not used;
* moving or deleting a scene invalidates no checkpoint, a failed audit is not repeated, and
  of more than 200 claims the first 200 in order of insertion are kept.

`Timeline`, `Sharing`, `StoredFiles`, `ImageGallery`, `AccountDeletion`, `EpubImport`:
* `imageUrl` and `isPrimary` are two sources of one picture: `PATCH entity`, `POST entity` and an acceptance
  with an image url write the first alone (`knowledge.service.ts:75`, `:223`,
  `entity-proposal.service.ts:423`). From then on the entity and its gallery show different pictures until
  the author chooses one in the gallery; `PictureAgrees` leaves that time out (`authored`);
* a placement between events that are not neighbours takes a middle that may be taken, as
  do two placements at once; between two events that tie nothing can be placed;
* after a revocation that an acceptance overtakes, the share is ACCEPTED and not active:
  access stays denied, but `updateShare` works on it; two acceptances count one reader twice;
* a crash after the row is written and before the old file is deleted leaves the file;
* "Es idempotente: [...] un reintento después de un fallo parcial termina el trabajo"
  (`user.service.ts:148-150`): the retry finds no user and is refused (line 154). Covers and
  scene images are not among the files it collects;
* a chapter that begins with a run of numerals loses the paragraph after the last one, a
  block of nothing but an image is dropped, a boundary after a boundary loses the first
  title. `StoryIsKept` names the first.

`AiSettings`, `HelpIndex`, chat:
* without a saved selection a stored Gemini key counts as selected and can be removed
  although it is in use;
* a help corpus whose synchronisation fails at the start and succeeds in a search is not
  embedded before the next start; an older build that is restarted last overwrites a
  newer corpus;
* a thread that is renamed, archived or hidden while an answer is generated still takes
  it, and the automatic title may replace one given meanwhile;
* `compareChunkOrder` ignores `chunkIndex`; the database filter of a count is sensitive
  to accents, what is counted is not ("recuentos exactos", `application-help.jsonl:174`).
  `AnswersAreExact` is about what the filter lets through;
* a first mention is searched with the words of the question and of the last two questions
  (`chat.service.ts:818-823`, `:1132`, `:1611`) and the first hit is the answer (`:1556`): asked after
  another question, it may be the first mention of that question's word, though it is presented as
  the one asked for.
## 5. What is proved

`tlapm` proves the theorems for every value of the constants that satisfies the
assumptions stated in the modules: finite sets of events, jobs or scenes (scenes of a
project are numbered), at least one attempt, a batch of at least one row, bounds that
are natural numbers, and the null values outside their sets.

### AnalysisDispatch_proofs
| Theorem | Property |
|---|---|
| `Invariance` | `IInv`, below |
| `TypeCorrect` | `TypeOK` |
| `OutcomesAreEarned` | `OutcomeIsEarned`, which the run checks: `TypeOK` and the next two |
| `SettlesForCause` | `SettledForCause` |
| `FailureIsEarned` | `FailedMeansExhausted` |
| `RunsAreExclusive` | `NoOverlapWithoutFaults` |
| `FailureIsNotLate` | `FailureNeverOverwrites` |
| `Refinement` | `KeepsPromise` |

None of the properties is inductive. `SettledForCause` needs to know what
a scheduled callback stands for (`CallbackInv`: its job is exhausted, and an
exhausted job never runs again), and that a run that reached `markProcessed` has
handled its event (`RunInv`). `NoOverlapWithoutFaults` follows from a stronger
fact: without faults, a worker holds the lock of what it runs
(`LockedWithoutFaults`), and the lock has one holder (`LockInv`).
`RecordedInv` says that nothing happens to an event before its row exists; the
refinement needs it. The proof has one step per action and under it one per
conjunct.

The second half of the module is about `MCAudits`, the two audits the dispatched events run.

| Theorem | Property | Component |
|---|---|---|
| `AuditIsComplete` | `QuietAuditIsComplete` | `ContinuityAudit` |
| `SceneIsReported` | `QuietSceneIsReported` | `SceneAlerts` |
| `DismissedIsFinal` | `DismissedStaysAway` | `SceneAlerts` |

* The audit of a book (`AuditInv`): a scene is settled when neither it nor one before it waits for
  its audit. What a settled scene contradicts is an alert, and its checkpoint has the claims
  an audit of all scenes would have there, unless the audit that runs has yet to come to it
  (`RightInv`). This holds because the audit read settled scenes as they are (`ReadInv`) and
  carries the claims up to the scene it is at (`StepInv`), whether it began at the first scene or behind a
  checkpoint. A row that is active is a fingerprint of what its scene says and of what one of its earlier
  scenes says, or the scene waits or is being audited (`QuotesInv`); that a merged row may be obsolete
  although one of its contradictions stands is what `Reported` concedes. The claims after a scene are a recursive function of the number of scenes
  (`ClaimsAfter`); that there is such a function, and that scenes in front of a change keep
  their claims, follow from a least counterexample (`ClaimsExist`, `SameClaims`), so no
  induction rule is needed.
* Dismissed alerts: from its check for a dismissal until its write, what an analysis is about to
  report is not dismissed, or the analysis was overtaken (`CheckedInv`). Everything else that
  changes an alert makes none active that the author has dismissed.
* The alerts of a scene, once all is done (`ReportInv`): two clean neighbours that contradict each
  other have an alert that tells of them, or the analysis that runs is about to see to it
  (`AllTold`). The pairs and groups that are audited, of any size, include every two neighbours of
  which one was dirty (`NeighboursAreAudited`), and each pair found is reported once, at the rank
  the number of pairs before it gives (`RanksAreFilled`). What a write leaves behind rests on
  what was read before it: the alert of the fingerprint with its sources, or none (`KnownIs`), and
  if a save made it obsolete since, one of the two chunks is dirty and will be audited again
  (`Overtaken`). That what is active quotes current text holds from the beginning of the last
  analysis on (`LastCurrent`), since no save comes after it.

### RenderJobs_proofs
| Theorem | Property |
|---|---|
| `Invariance` | `IInv`, below |
| `TypeCorrect` | `TypeOK` |
| `RowsFilesAndQueueAgree` | `JobsAreSound`, which the run checks: `TypeOK`, the next two and `QueueAndRowAgree` |
| `FileBeforeCompletion` | `CompletedHasFile` |
| `NoDuplicateImage` | `OneImagePerJob` |
| `QueueAndRowAgree` | `QueueAgreesWithRow` |
| `CompletionIsFinal` | `CompletedIsFinal` |
| `Refinement` | `KeepsPromise` |

`IInv` follows a job through the system: what a relay has in hand (`RelayInv`),
what the queue grants (`QueueInv`), which lock a run holds until one is lost
(`LockInv`), the file before the commit (`FileInv`), that a run which passed the
claim works on a job without an image (`ImageInv`), what the row says while a run
works on it (`ClaimInv`), and who runs an active job while nothing has failed
(`FaultFreeInv`). The last is what makes "the queue gave up" imply "the row says
FAILED".

The rest of the module is about `MCAnswers`, two components of the chat, and `MCManuscript`, the chunking
of scenes and the import of books.

| Theorem | Property | Component |
|---|---|---|
| `StoredAnswersAreSound` | `AnswersAreSound` | `ChatExchange` |
| `ContextIsAlwaysBalanced` | `NoKindIsCrowdedOut` | `ChatSources` |
| `ChunksAreAlwaysTheText` | `ChunksAreTheText` | `SceneChunking` |
| `StoryStaysWhole` | `StoryIsKept` | `EpubImport` |

All of them compute recursively: the sources of an answer are gathered statement by
statement, the context is filled source by source, chunks are built in three nested loops
over blocks, sentences and words, and the blocks of a document that are text are picked one by one. That the function a recursive definition
chooses exists follows by counting up to the length of the sequence (`CountedUp`, a least
counterexample over sets of numbers, `LoopExists`); once its equations are known (`UsedAre`,
`ShownAre`, `TakenAre`), the same counting gives what it reaches.

* Answers (`ExchangeInv`): what a request is about to store leads to its sources (`Citable`: the
  numbers of a statement are the places of exactly the sources it rests on, all of them retrieved
  and quoted), and what it has called is what it is charged (`SendingIsSound`); a stored message agrees with the request it came from, which is then
  over (`StoredIsSound`). The sources of the first statements keep their places when more
  statements are added (`CiteAdds`, `UsedAreOfClaims`) and when the retrieved ones that no
  statement cites are shown after them (`CitedAreShownFirst`), so a number given early is still
  the number of its source in the stored message (`GroundedIsCitable`).
* Selection: a sequence is a mix of the three rankings if it has each of their sources and
  the ones of a kind in their order (`Ranked`). Portions of each ranking, and then the rest of each,
  make one (`RunContinues`, `Portions`), and so does what `prioritizeWorkSources` builds for every
  type of question (`MixForIsRanked`), in which the two best of each kind are among the first
  twenty. What fits is as many of the first sources as a context holds (`FirstSourcesFit`):
  a source is never passed over while there is a place, since a place's share of the room is
  enough for any source (`ThereIsRoom`).
* Chunking: a builder counts at least the characters its current chunk has (`Sound`: the
  separator between blocks counts twice), so what it accepts fits. Every round of every
  loop tells the builder some more words and loses nothing that is together in one
  chunk (`Extends`, `Keeps`); such rounds compose (`ExtendsThen`, `GrowsTo`), from the
  words of an oversized sentence (`WordsExtend`) over the sentences of an oversized block
  (`SplitCovers`, `BlockCovers`) to the text (`TextCovers`).
* Importing a book: chapters of scenes of blocks have one text (`StoryOf`), the state of a
  document another (`Said`: its finished chapters, the open chapter, the open scene and the
  prelude, in this order). Joining chapters joins their text (`StoryJoins`); ending or beginning a scene or
  a chapter changes where blocks are but not the text (`FlushSceneIs`, `FlushChapterIs`,
  `BeginChapterIs`, `BeginSceneIs`), nor does an introduction that continues the chapter
  before it (`MergedIs`); a block is added at the end (`AddBlockIs`). So the outline tells
  the documents before (`Kept`) and the state the blocks before (`Reading`), all in the order of
  the book and none of the wanted ones missing (`ReadInv`); what a boundary leaves out is its
  own heading, or the line after a numeral that was taken as its title (`BoundaryIs`).

### SceneAnalysis_proofs
| Theorem | Property |
|---|---|
| `Invariance` | `IInv`, below |
| `TextIsNotLost` | `OnlyOverlapLosesText` |
| `AlertsStayCurrent` | `AlertsQuoteCurrentText` |
| `QuietRunsSettle` | `QuietRunSettles` |
| `WorkIsKept` | `WorkIsNotForgotten`, for one worker |

`IInv` has three layers. `RowsInv`, `EvidenceInv`, `EventInv` and `RunOK` hold always:
the rows are the chunks of the content, an id is given once, a job is held only while it
is active and has an attempt left until it fails. `CurrentInv` holds until a save falls into
a run: every run sees the rows as they are, so what it clears is what it extracted.
`QuietInv` is about a run that has a live scene to itself: every dirty row is still before it,
the evidence behind it is in force, and what it may approve is supported; when it ends
there is nothing before it, which is `QuietRunSettles`.

`WorkIsKept` assumes one worker, as `system.service.ts:94` configures it (`concurrency: 1`);
with two TLC finds it violated, since an old event that is run again can clear what a newer one
was queued for. The strengthening (`WorkInv`) says that without faults events are taken in
their order and all but the last have settled (`QueueInv`), that the last one is for what
the scene says as long as something is dirty (`LastEventInv`), and that after a
failure every row is dirty, which is what lets the author ask again (`FailureInv`).

### ProjectRuns_proofs
| Theorem | Property |
|---|---|
| `RunsStaySound` | `RunsAreSound`, which the runs check: types, active runs have work unless their job stalled too often, settled runs add up, one active run unless repeated |

The invariant says what a row is worth to whoever reads it: always (`RowOK`: a job that
can still be taken has an attempt left, and its lock is held exactly while it is active),
while no job was delivered twice (`SettledOK`, `Kept`: nobody else writes the row, so what a worker
has behind it stays as it left it), and before any fault (`FirstOK`, `FirstWalk`: the
first attempt meets every scene as it was created, which is why nothing fails before
something failed). A run that gives up fails its last scene; that there is a last one is
`GreatestOfFinite`, from the well-foundedness of the naturals.

### SummaryJobs_proofs
| Theorem | Property |
|---|---|
| `RequestsRowsAndQueueAgree` | `JobsAreSound`: types, one job in flight, the queue agrees with the row, active jobs run |
| `OnlyEarnedStores` | `StoresAreEarned`: text written by hand is kept, and what is stored is for the current text |
| `AnswersAreAlwaysExact` | `AnswersAreExact` of `ChatRetrieval`: a count that no save disturbed is exact, and a first mention is the first of the words searched |

A worker changes one job and what it does next, a request what it asks for, an author
what scenes say; a lemma for each of the three (`RunKeeps`, `RequestKeeps`,
`AuthorKeeps`) says what such a step must respect, and each action is shown to respect
it. The strengthening carries what a generation found until it stores (`ManualInv`,
`SourceInv`), and, without a fault, that a worker has its job for itself and the row tells
how far it is (`OwnInv`, `RowInv`). `AskInv` is about requests that do not overlap: what
one of them is about to create is not in flight.

The last theorem is about `MCCounts`, for any finite manuscript, any order the database gives to
scenes by their keys and any size of a page. A sum over a set is its definition's choice of one
element after another; that it is the same for every choice (`TotalIs`), adds up over disjoint sets
(`TotalJoins`), along a one-to-one map (`TotalAlong`) and over groups (`TotalOfGroups`) follows from sets
being reached one element at a time (`SetsGrow`, the least cardinality of a counterexample). A
page picks rows by how many come before them: in any strict order each place is
taken once (`RanksAre`, an injection between sets of one size), so a page is the first rows in their
order (`PageIs`). `ReadInv` says what the pages read so far list: each row up to the last
one, once (`ListsJoin` adds a page), as long as no save fell between two reads; when the
last page is not full, all that match. From there the sum over scenes of the sums over the rows of a scene is the
sum over the chunks (`CountIsExact`), and the first of the rows of the first scene, which the database gave in the
order of their index, is the first of the book (`FirstIsFirst`).

### EntityReview_proofs
| Theorem | Property |
|---|---|
| `ProposalsStayBacked` | `ProposalsAreBacked`: types, and an analysis takes back only what lost its chunk |
| `TwinsOnlyByRaces` | `TwinsNeedARace` |
| `RowsStaySound` | `RowsAreSound` of `EntityStates`: types, an applied value holds, states added in order stay disjoint |
| `AuthorIsRespected` | `StepsRespectTheAuthor` of `EntityStates`: changed scenes are audited, locks and decisions kept, but for what an analysis had read before them |

Chunk ids are given once (`ChunkInv`), so a chunk that replaced the one an analysis read
is quoted by nothing (`UnquotedInv`), and what the analysis prunes from its memory is
without support in the database too. For a name outside the races there is one entity, or one
open proposal, or an entity and its update (`SingleInv`); an analysis that read before an
acceptance wrote still knows the proposal that was accepted (`MemoryInv`), and an
acceptance that found no entity to update will not find one later (`RequestInv`).

The last two theorems are about `MCEntityStates`, and rest on what one change does to any rows
that are well formed: it rewrites a row of its scene (`Rewritten`) or ends those that are active
there and adds one (`AddedRow`), so no earlier scene sees a difference (`ViewBefore`), the value is
what the scene shows (`AppliedHolds`), a change that comes after all others leaves them disjoint
(`ApplyKeepsApart`), and other attributes are as before (`OtherKeys`). `AppliedHolds` is about
every change the rows could meet, not only those a run makes. The proof found the exception the property names: of
two steps of one order the first is rewritten and the last shown. An accepted
sequence applies its proposals in the order of their steps; that each of its prefixes keeps what
a single change keeps is again a least counterexample (`SequenceReached`). `StatesInv` adds to the
properties the rows' types, and that the automation never finds a conflict-free proposal for
an attribute locked before anything was proposed (`LockedInv`, which also says what an analysis that has read
the lock is about to write); every step changes rows, deletes a scene or leaves both
alone (`EveryStep`), and each kind keeps the invariant.

### RelationshipReview_proofs
| Theorem | Property |
|---|---|
| `VersionsStaySound` | `VersionsAreSound`: types, `VersionsDisjoint` and `RejectedStaysAway` |
| `EndedForGood` | `EndedStaysEnded` |

Every write to a line either changes no period (`SameLine`), cuts one version short (`Cut`)
or begins a new one where the cut one ended (`Begun`). For any such step `LineStep` gives that
versions stay apart (`DisjointKept`) and that a line holds nowhere it did not
(`CoverKept`), so both theorems rest on the same case analysis. Versions of two lines stay apart because a
line holds nowhere it did not, and a new one either meets no version or is `crossed`. What makes an
acceptance such a step is `RequestsInv`: the version it read still is what it read unless the line is
disturbed. `RejectedStaysAway` needs what an analysis has in memory: it knows every open or
rejected proposal, those included that are rejected while it goes on (`ListsInv`), and what it
saw rejected is not open again (`MemoryInv`).

### Library_proofs
| Theorem | Property | Component |
|---|---|---|
| `RevokedIsFinal` | `RevokedAdmitsNobody` | `Sharing` |
| `IdentityGoesLast` | `DataGoneBeforeIdentity` | `AccountDeletion` |
| `SearchIsCurrent` | `SearchSeesCurrentText` | `ChatIndex` |
| `SelectedKeyStays` | `SelectedKeyIsFound` | `AiSettings` |
| `FilesInUseStay` | `LostOnlyWhenOvertaken` | `StoredFiles` |
| `PicturesAgree` | `PictureAgrees` | `ImageGallery` |
| `LocksAreHonoured` | `LockedValueIsWarned` | `KnowledgeMerge` |
| `FactsArrive` | `FactsReachTheAuthor` | `KnowledgeMerge` |
| `PlacementsAreInOrder` | `PlacedWhereAsked` | `Timeline` |
| `HelpIsIndexed` | `IndexIsTrue` | `HelpIndex` |
| `FailedImportsVanish` | `FailedImportLeavesNothing` | `EpubImport` |

The theorems are about the specification the library run checks, for every value of its
constants. `PartInit` and `PartNext` reduce a step of the composition to a step of the component
that runs; after them each component has an invariant of its own. `AuditsAreParts` says that
the behaviours of this run that are of an audit are behaviours of `AuditsSpec`; the theorems about
those are in `AnalysisDispatch_proofs`, because the provers read the definitions of every instance
with every obligation. `AnswersAreParts` says the same of the answers and `AnswersSpec`, and
`ChunksAreParts` of the chunking and `ChunksSpec`, whose theorems are in `RenderJobs_proofs`,
`BooksAreParts` of the import and `BookSpec`, there too, and
`CountsAreParts` of the counts and `CountsSpec`, in `SummaryJobs_proofs`.

* Sharing: the status of a share does not tell whether it was revoked, for an acceptance on
  its way sets it back to ACCEPTED; `isActive` does, which `revokeShare` alone writes
  (`RevokedInv`, of the row and of what every request has read of it).
* Accounts: a deletion past its transaction has left a tombstone (`PassedInv`), nobody takes a
  tombstone back, and the transaction deletes every project there is or nothing.
* The index of chunks: a vector is of the text and the model its own row claims, whatever the
  row became in between (`VectorInv`), since the write of a vector names the hash it
  was made from; a search takes only rows that claim what the chunk says now.
* Settings: while no two requests overlapped, what is selected has its key, what is about to
  be selected has it too, and what is about to be removed is not selected (`SelectionInv`); an
  analysis in the middle of reading still finds what it read (`ReadingInv`).
* Files: whoever is about to delete a file the row names decided so on an older row
  (`DecidedInv`, for calls and for the poller of the outbox). A call that goes on without having
  been overtaken knows the row as it is, so it never deletes the file it has just written.
* Gallery: requests of one entity that do not overlap leave at most one between its two
  writes, and that one knows the picture it is about to write (`AloneInv`); a url the author
  writes while none is on its way changes no primary image, and the next choice replaces it. When
  the primary image is deleted the newest of the others takes its place; that there is one is
  `GreatestOfBounded`, from the well-foundedness of the naturals.
* Merging into the wiki: one update is pending at most, and none while an analysis may still
  create one (`OnePending`); an analysis the author did not disturb knows the entity as it is
  (`KnowsEntity`). So an update nobody marked and nothing excuses has the name of the entity
  and nothing for a locked attribute, description or list of aliases (`WarnedInv`: a description
  the entity has already suggests nothing, `RepeatSuggestsNothing`). What the entity and its updates tell
  together only grows, but for what the author takes out (`ToldGrows`, `EditedRow`: joining, combining and accepting keep every statement,
  `AcceptedKeepsText` and `CombinedKeepsText`), and an analysis that merges into an update
  writes over what that update still says (`KnowsUpdate`), even after the author decided about it.
* Timeline: while no two placements overlapped, positions are distinct, events numbered anew
  are in the order they had with room between any two (`NumberedAnew`, from the rank of an event
  being the size of a set that grows along the order, `RankOrders`), the bounds a placement
  has read are those of its anchors (`BoundsOK`), and no event it sees is between them
  (`Gap`). The middle of two positions with room between them is strictly inside
  (`BetweenIsInside`), rounding included.
* The index of help texts: a vector is of the text and the model its row claims
  (`HelpVectors`). That the index becomes complete needs to know who completes it: as long as
  nothing failed and some row is behind its text, there is an instance still indexing
  whose batch says what the rows say (`HelpWatched`).
* Importing a book: nothing is created while it is parsed; until the clean-up nothing has failed,
  and every object in the bucket is one the import remembers (`ImportInv`).

The constants are free, those of `LineInit`, `LineNext` and `MergeInit` (`FirstEvents`,
`RacedMoves`, `FirstEntities`) included, but for `PartsAssumption`: counts and bounds are
numbers, a batch is not empty, what stands for no value is none, the server's keys are of known
providers, and a description is a sequence of statements. `AuditsAssumption` says that scenes
and what a text claims are finite, the contents of a scene are sequences of texts, and a group has
at least two chunks; `AnswersAssumption`, that retrievals and what a model claims are
sequences of sources, that the caps of manuscript and wiki are at most 14 and 10 and a context has at
least 20 places (the portions in `prioritizeWorkSources` rely on it), and that as many sources of a kind as a
context has places fit its size; `ChunksAssumption`, that both limits are positive and a sentence has
a word; `BooksAssumption`, that a book is a sequence of documents, each a sequence of blocks of the kinds
the parser tells apart, and the limit of chapters a number; `CountsAssumption`, that a manuscript has finitely many chunks, no two at one place of a scene (the
schema's `@@unique([sceneId, chunkIndex])`), that scenes are numbered and have distinct keys, and a page has
a row; `StatesAssumed`, that the scenes are numbered, proposals are finitely
many, and proposals, alerts and edits are of the entity's attributes.

### Only model-checked
* Liveness (`EventuallySettled`, `RunsEnd`, `EveryJobEnds`): TLAPS does not handle
  ENABLED and fairness.
* `WorkIsNotForgotten` for several workers, which is false.

No module declares a RECURSIVE operator: what is recursive in the code is a recursive function.
## 6. Plan

Done in this order: the outbox promise and the dispatcher that keeps it; the scene under
analysis; project runs; render jobs; summaries; entity states; proofs of the two protocols
that refine the promise; the reviews of entities and relationships and what an analysis merges;
alerts and the cross-chunk audit; the components of the library run; the chat; proofs about
project runs, summaries, reviewed entities and relationships, the scene under analysis, eleven
components of the library run, and then of the continuity audit, the alerts of a scene, the states of
entities, the answers of the chat, the selection of their sources, the chunks of a text, counts and first mentions, and
the text of imported books.

Next:

1. The rules that turn a snapshot into alerts, and the application of an alert to
   relationships.
2. Export rendering: the order of chapters and scenes and the images they show.

## 7. What is not modelled, and why
* The contents of model answers, prompts, names and similarity: an answer is any
  evidence, and a call may throw.
* Transactions are one action each. PostgreSQL runs them at READ COMMITTED unless
  the code asks for SERIALIZABLE (`startAnalysis` does); where a transaction reads
  and then writes on what it read, and another one can interleave, the steps are
  separate actions (`ReadFailed`, `RetryFailed`).
* The similarity of names, embeddings and confidence thresholds: a name matches or does not.
* The rules that turn a snapshot into alerts, and candidates for timeline events.
* HTTP clients, speech, verification of tokens, markup (of books that are imported and
  exported), logging, analytics and CRUD on rows that no other component writes.
* Process start and stop.

## 8. Running
    tlc -config Library_parts.cfg MCLibrary.tla
    tlc -config AnalysisDispatch_dispatch.cfg AnalysisDispatch.tla
    tlapm AnalysisDispatch_proofs.tla

`PROJECT.json` names the module and the configuration of every run, the mutants
and the lines of the source each definition models.
