# Verification of the video agent runtime

TLA+ models of the parts of this repository (an AI video workbench: FastAPI
server, in-process generation worker, Claude agent sessions, React frontend)
in which several actors share state.  TLC checks the models on small
instances; TLAPS proves central invariants for every value of the constants.
Everything is translated from the code under `src/`; ADRs, comments and tests
are quoted only as claims the models are compared with.

## 1. Inventory

| Part | State it keeps | Operations | Talks to | What is hard, and what makes it correct |
|---|---|---|---|---|
| Task store (`lib/db/repositories/task_repo.py`, `lib/db/models/task.py`) | tables `tasks`, `task_events`, `worker_lease` | enqueue, claim, mark succeeded / failed / cancelling / cancelled, cascades, requeue, cancel all, lease | called by the queue, one session per call | SELECT and UPDATE of one call are two steps; keys unique among active rows, dependencies first, cascades complete, events and marks true, states one-way |
| Generation queue (`lib/generation_queue.py`) | the cancel callback | one session per operation, synchronous cancel signals after the commit | API routes, agent tools, worker | a signal may come before or after the worker knows the task |
| Generation worker (`lib/generation_worker.py`) | SlotTable, CapacityTable, lease flag, orphan switch, one asyncio task per row | drain, orphan scan, claim, process, resume, request_cancel, stop | queue, provider backends | cancels at every await, crash and restart, repeated orphan scans; nobody pays twice, no running row is abandoned, pools keep their capacity, every claimed row settles |
| Video backends (`lib/video_backends/`, `lib/retry.py`) | none (job id goes to the row) | submit, persist job id, poll, resume, download, each with its own retry rule | provider APIs | lost answers to a submission, the 413 ladder, jobs that never end |
| Queue client (`lib/generation_queue_client.py`) | local futures of a batch | enqueue and wait, batches with dependencies, offline grace | queue | a dependency that fails while the batch is being enqueued |
| Task routes (`server/routers/tasks.py`) | cursor of each event stream | SSE stream of `task_events` | queue | events committed out of id order, reconnects |
| Ledger (`lib/ledger.py`, `usage_repo.py`) | `api_calls` rows: pending, success, failed | start, finish, backfill | media generator, resume executor | crash between the call and its booking |
| Media generation (`media_generator.py`, `version_manager.py`, `generation_tasks.py`, uploads, restores, grids) | files, versions.json, links in the script, grid records | generate, register a version, upload, restore, split a grid | backends, ledger, project manager | files, versions and links are written by several hands in several steps |
| Session actor (`session_actor.py`) | command queue, SDK client | query, interrupt, disconnect, cancel | session manager, SDK | two futures awaited at once; every command must be answered |
| Session manager and service (`session_manager.py`, `service.py`) | registry of sessions, status in memory and database, locks, timers | new session, connect, send, interrupt, delete, evict, patrol | actor, event log, SSE channel | checks before awaits, a session that changes its id, eviction racing a send, capacity |
| Event log, entry pipeline (`event_log.py`, `entry_pipeline.py`) | ordered entries per session | append, idempotent user entries, interrupt entries, backfill of old transcripts | session manager | order, duplicates, replayed echoes |
| SSE channel (`sse_channel.py`) | bounded queue per subscriber | subscribe, broadcast, evict, iterate | session manager, project events | a full queue |
| Project events (`project_events.py`) | channels, snapshots, watch tasks | subscribe, scan, diff, batch, delete | project manager, SSE channel | start and stop of the watch with the first and last subscriber, late rebuilds |
| Project manager (`project_manager.py`, migrations) | project.json, scripts | locked read-modify-write, sync | file system | lost updates between threads, two locks at once |
| Episode ledger and planner (`episode_ledger.py`, `episode_planner.py`) | episodes and cursor in project.json, derived files | plan, replan, split, backfill | project manager, language model | a model call between reading and committing, a commit over several files |
| Script review (`script_review.py`) | fingerprint of the confirmed step1 | save, confirm, gate | project manager | saves and confirmations that cross |
| Frontend (`frontend/src`) | chat pane: entries, stream, timers; project copy: data, queue of refreshes, fingerprint | open, send, interrupt, reconnect; fetch, refresh, listen | server by HTTP and SSE | answers that come after the user has gone on |
| Configuration and credentials, archive and storage, routes, auth, prompts, pricing, validation | rows, files | mostly sequential | — | not modelled, see section 8 |

How they interact: routes and agent tools enqueue rows; the worker's loop
claims them, runs one asyncio task per row and writes the final state with
guarded UPDATEs; the cancel route writes the row first and then calls
`request_cancel` in the same process; waiting clients and event streams poll the
tables.  An agent session is one actor task that owns the SDK client; the
manager sends it commands and drains its messages through an inbox into the
event log and the SSE channels.  Tools and routes change project files under file
locks; a watch task scans the files and tells the browsers, which fetch again.

## 2. Modules

| Module | Models | Uses |
|---|---|---|
| `TaskLifecycle` | what the queue promises of a task, without sessions and reads | — |
| `TaskStore` | the task table and all its transactions | `TaskLifecycle` (refinement) |
| `GenerationWorker` | the worker, its asyncio tasks, cancel signals, crash and restart, payments | extends `TaskStore` |
| `WorkerLease` | several worker processes around one lease row and a clock | — |
| `QueueClient` | a batch that enqueues and waits | `TaskLifecycle` (its rows) |
| `ProviderCall` | the paid call of a task: ledger, create, poll, download, versions, resume | — |
| `AssetFiles` | stills and clips of the shots: tasks, uploads, restores, grids, their versions and links | — |
| `SessionActor` | the command loop of one agent session | — |
| `SessionManager` | the registry of sessions and its requests, inboxes, evictions, timers | — |
| `SseChannel` | fan-out to bounded queues (operators) | — |
| `Timeline` | event log, posts, inbox task and streams of one session | `SseChannel` |
| `ProjectFiles` | scripts, project.json, their locks, the scan | — |
| `ProjectEvents` | event streams of a project: channels, watches, batches | `SseChannel` |
| `EpisodeLedger` | plan, replan, split, backfill, derived files, step1, review, scripts | — |
| `AssistantClient` | the chat pane of a browser tab | — |
| `ProjectClient` | the project copy of a browser tab | — |
| `GenerationWorkerProofs` (and of `TaskStore`), `LeaseAndCallProofs` (of `WorkerLease`, `QueueClient` and `ProviderCall`), `AssetFilesProofs` (and of `ProjectEvents`), `SessionProofs` (of `SessionActor` and `SessionManager`), `ProjectFilesProofs`, `BrowserProofs` (of `ProjectClient` and `AssistantClient`), `EpisodeLedgerProofs`, `TimelineProofs` | theorems with proofs | the module and `TLAPS` |
| `MC...` | instances for TLC | the modules |

Everywhere an action is what one coroutine, thread or request does between two
awaits (or two lock or file operations), with all state it changes.  Database
transactions of one call are one action where the engine makes them so.
Variables marked "history" in a module are read by properties only.

### TaskStore and TaskLifecycle

One variable per column that a property reads (`status`, `dep`, `key`,
`queuedAt`, `cancelledBy`), `lastEvent` for the newest `task_events` row of a
task, and one variable per kind of open session (`claimRead`, `cancelRead`,
`allRead`): what its SELECT returned and its UPDATE has still to use.  A call
that begins with an UPDATE is one action (the default engine is SQLite: the
first UPDATE takes the write lock and the session keeps it to its commit);
`claim_next`, `cancel_task` and `cancel_all_queued` are two, because a SELECT
takes no lock.  `signals` holds the callbacks the queue makes after the commit.
`_cascade_failed_queued` and `_cascade_cancel_dependents` recurse; the model
gives their result directly, as the least set of queued rows closed under
"depends on" (`QueuedBelow`), so that the module needs no RECURSIVE operator.
Payloads, results, error texts, timestamps and read-only queries are left out.
Rows of one project and user are modelled, the scope of `cancel_all_queued`.

`TaskLifecycle` says the same in terms a caller needs: a task is submitted into a
free slot, starts when the one it needs has succeeded, may be sent back, ends
once, and takes what waits for it along when it is lost.  `TaskStore` implements
it (`ImplementsLifecycle`, an INSTANCE with `state <- status`, `need <- dep`,
`slot <- key`): the two-step calls map to one step and stutters.

### GenerationWorker

`loop` is where `_run_loop` stands, `cur` the row claimed but not yet
registered, `exec[t]` where the asyncio task of a row stands, `slots` the
SlotTable, `sig` the cancels that have been requested but not thrown in yet,
`shielded` the writes under `asyncio.shield` whose awaiter has gone.  A
`CancelledError` is thrown in at the await where the coroutine stands
(`Interrupt`, `ResumeInterrupt`): before the try block, in the execution, in a
shielded write.  `Crash` forgets all of it and keeps the rows, `jobId` and
`submits`.  `submits[t]` counts how often the worker lets a backend create a job
for row t; the retries inside that one call are `ProviderCall`'s.  Rows in
`Resumable` are video rows of a provider with `resume_video`, the others are
image, audio, Grok and Vidu rows: each group is one provider pool.  Rows in
`NoProvider` have `provider_id` NULL, pass the pool filter of `claim_next` and may
find their pool full after the claim.  A reload of the capacities is the choice
between `ClaimedUnsupported` and the other two actions on a claimed row.  The
orphan scan is the three steps in which the code awaits: the SELECT, the look at
the SlotTable, one row at a time.  `LeaseRegained` stands for the lease that was
lost for more than three TTLs; `MaxFlaps` bounds it.

### WorkerLease

`owner` and `left` are the row; `loop`, `owns` and `mine` belong to a worker
process: where its main loop stands, `_owns_lease`, and what remains of its own
last success.  Time is relative: `Tick` lowers everything that runs out.  A call
reads the clock (`ReadClock`) up to `MaxAge` before its statement is executed,
because the statement may wait for the write lock.  Processes boot, stop with a
release, or die and leave their row (`Gone`).  `Serves` tells who works for the queue from
who only believes to own the lease: a worker that hangs in a cycle or waits for its last
tasks keeps `_owns_lease` true.

### QueueClient

`batch` is where `enqueue_and_wait`'s batch stands, `ids` the rows it was given
(its own, or an active one of the same dedupe key), `result` what each wait
returned.  The rows are those of `TaskLifecycle`: workers, cancels and other
callers take any step it allows (`RowsMove`, `OtherEnqueue`), and `online` changes
at any time, which is more than `WorkerLease` can do.

### ProviderCall

`call` is the ledger row of a task, `anchored` and `jobId` the ids the task row
keeps for a resume, `jobs` what the provider has accepted and charged, `job` how
its latest job stands.  The worker steps through `at`: ledger start, ensuring that
the present file has a version, create (one action per attempt and outcome, the
lost answer included), persist, poll, download, version, ledger finish.  `ProcessDies`
leaves the rows, files and jobs; `Recover` follows `resume_executor.py`.  The
retry rules that differ are two sets of tasks: `Unguarded` (Ark, Gemini, OpenAI:
the whole create call is retried) and `LateTooLarge` (a result URL that answers
413, which the ladder of reference compression takes for its own).

### AssetFiles

`bytes` is what each file holds, named after the writer that made it, `history` and
`current` are its entry in versions.json with the copies it names, `entry` is
`generated_assets` of each shot, `poster` the thumbnail file, `grid` the status of a
grid record.  A writer is a task, an upload, a restore, a request on the grids or an
edit that removes a shot; it steps from one await or lock to the next.  Only what
`VersionManager` does is under a lock, so writers of one file meet anywhere
in between.  `crossed` remembers the units where they met, or where one broke off.  An
outage kills all writers; a video task may be resumed from its job id, and a
versions.json in the middle of being saved may be cut off (`torn`).

### SessionActor

`phase` is the await at which the actor task stands: connecting, waiting for a
command, `client.query`, the double wait of `_drive_query`, the two
`client.interrupt` calls, leaving the client.  `msg` and `got` are the results of
the two helper tasks of the double wait (`msg_task`, `cmd_task`): `Receive` and
`TakeAside` complete them at any time, the driver looks at them in the order of
the code (message, end or exception first, then the command).  `reply[c]` is what
the caller of command c has been told: `open` after `enqueue`, `sent` when only
`cmd.sent` is set, `done` or `failed` when both events are.  `Cancel` is
`cancel_and_wait`, the fallback of an eviction whose disconnect is late: it
throws `CancelledError` in at the await of the moment.  The SDK client is
external: it may answer, end its stream or raise at any time, `MaxSdkFaults` times.
`send_interrupt` lets one interrupt wait at a time (`_interrupting`), a guard of
`Enqueue`.

### SessionManager

`db` is the status column, `registry` is `self.sessions` (a new session is in it
under a temporary id and moves to its SDK id), `lockOf` the lock object
`_connect_locks` has for an id (a dropped entry means two locks of one id),
`inst[m]` a ManagedSession with its actor, its inbox task, its eviction and its
cleanup timer, `req[r]` the await at which an API request stands.  The actor is
reduced to what the manager sees of it: a queue of queries, interrupts and disconnects, a
turn that ends, an end with or without an exception.  `interrupt_session` awaits the
answer of its command without a timeout (`Interrupt`, `ActorInterrupt`, `Interrupted`) and sets the status to
error when that is an error, whatever has become of the session meanwhile.  A turn that breaks may take the
command along that `cmd_task` held (`Losses`): its sender waits for ever (pc "lost"), and an
eviction waits for its timeout (`EvictionTimesOut`).  `contested` remembers the
ids that were evicted, deleted or being created: a property that the code keeps
only for the others says so.  An object is never used twice (`Register` takes an unused one),
and the bounds leave one for every request that needs one (`MaxOps <= Cardinality(Inst)`).

### SseChannel and Timeline

`SseChannel` is a module of operators: what a queue holds after a broadcast under
each of the two overflow policies (evict the oldest message that may be lost and
signal the end when that does not help; or end the stream).  `Timeline` and
`ProjectEvents` instantiate it with their own critical messages and end marker.

In `Timeline`, `log` maps sequence numbers to entries, `at` and `base` are where the inbox task
stands in an append (SELECT of the next number, INSERT, unique constraint,
again), `post` the same for each `send_message`, `bf` where each reader stands in
`ensure_backfilled`, `view` what each stream has listed and shown and its
client's cursor.  Of the SDK there is the queue of prompts, the turn it works on
and its messages with their identity.  `calm` is true until a delivery fails or
two posts overlap.

### ProjectFiles

A script is the set of edits it contains and the edit its title is from;
project.json is an index (episode to script and title) and the set of other
changes.  `slock` and `plock` are the lock files.  A call reads, writes and
commits in separate steps between taking its locks; the scan of project events
reads scripts without a lock and repairs the index with it.

### ProjectEvents

The disk is a version number: what the fingerprint of a snapshot covers.  A scan that finds
another fingerprint but nothing to tell of (`_diff_snapshots` has no word for an
episode removed, a script that came or went, another path of a still) is silent, and `untold` says so.  `registry` is `_channels[key]`, `subs`,
`snapshot`, `ready` the channel, `watch` the await at which its task stands,
`cancelled` that `task.cancel()` was called, `batch` the tasks of
`_async_rebuild_and_broadcast`, `client` where each request stands.  `stray` is
set when a cancelled request takes out the registry entry of a channel that is
not its own (section 7).

### EpisodeLedger

A source file is a row of parts, each different from the others, so that an exact
match finds a text again.  `ledger` and `cursor` are project.json, `text` the
derived files `source/episode_N.txt`, `step1`, `scripts` and the fingerprints what
is built on an episode.  A plan or replan reads the ledger, waits for the model
(which may answer any cuts the code accepts) and commits under the project lock:
first the derived files, then project.json, with a crash possible in between
(`torn`; `torn.lost` when the files can no longer tell the ledger that was being replaced).
A file that cannot be deleted is logged and left (`ReplanLeavesFiles`, `CommitOver`): the same `torn`, without a crash.
A confirmation reads the units, rewrites step1 with their reference table and takes the fingerprint of
what is then there, each a step of its own (`ConfirmRewrites`, `ConfirmTakesAgain`); `seen` is the history of the
contents whose fingerprint a confirmation took.  The gate of `text_generation.py` takes a project.json it
cannot read for an empty one, and opens (`PassesBlindly`).  The backfill of `ensure_ledger` is a function of the files (`Filled`).
Projects from before the ledger are the `Legacy` initial states.

### AssistantClient and ProjectClient

`AssistantClient` is `useAssistantSession.ts` over `assistant-store.ts`: `load` and
`post` are the calls in flight with the session and project they were made for,
`stream` and `timer` the EventSource and the reconnect timer, `entries` the
timeline by sequence number, each with the session it came from (a history: the
code does not keep it).  A send outdates the ones before it (`live`, the
`pendingSendVersionRef`); `failedSend` keeps the message whose answer was lost, and sending it again uses
its key, which brings back the entry the server has (`Again`, `ServerRepeats`).  `strayed` remembers what the
user did meanwhile.
`ProjectClient` is `refreshProject` with its round in flight and the one queued
behind it, the first fetch of `router.tsx` and the fingerprints of
`useProjectEventsSSE.ts`.  A project is its version.  Of its changes some are covered by the
fingerprint and of some of these the server tells (`covered`, `loud`): the snapshot leaves fields out, and the scan is silent
without a diff.  The EventSource exists on the page of a project only; it is open, closed,
or deaf: open, but dropped by the server when its queue was full.  `gaps` remembers the changes
of which the client cannot learn.

### The composed instances

`MCQueueClient` checks both sides of `is_worker_online`, `MCBrowser` the two halves
of a browser tab, `MCProjectEvents` the streams about the files of a project and the
writers of its shots.  In each, what one half sees of the other is an environment
that may do anything (`online` changes at any time; the project of the pane,
and the files a stream tells of, change at any time), so the halves need not be interleaved: a behaviour chooses
its `side` at the start and moves that one.  The state space is the sum of the
two, and the properties of a half hold for any behaviour of the other.
`MCBrowser` stops looking at behaviours in which the user has strayed beyond
`Watched`: `strayed` only grows, and every property of the pane says nothing of
what follows.  A behaviour cut off there satisfies the liveness property, whose
conclusion includes it.  `Watched` also bounds the changes that nobody is told of to one; the
safety theorems about the copy have no such bound.

## 3. Runs

| Run | Instance | Checks | Distinct states |
|---|---|---|---|
| `task_store` | 3 tasks and 3 keys (symmetric), 2 cancel calls open at a time | `UniqueActiveKey`, `RunsAfterDependency`, `CancelAttribution`, `EventsNeverLie`, `NoDependentLeftBehind`, `ImplementsLifecycle` | 598,305 |
| `worker` | 2 tasks, both resumable, one of them without provider, 2 keys (symmetric), pools of 1, two crashes or shutdowns, one repeated scan, one open cancel | `WorkerInv`, `AtMostOneSubmission`, `SoleExecutor` | 2,320,380 |
| `worker_settles_after_crash` | the same, one resumable, one crash, no cancel | `RunningSettles` | 60,880 |
| `session_actor` | 3 queries, 1 interrupt, 1 disconnect, 1 message, 1 fault | `OpenIsHeld`, `OneQueryAtATime`, `CommandsSettle` | 17,400 |
| `sessions` | 3 ids, one with a row, 2 objects, 2 requests, capacity 1, 2 operations, 1 fault | `SessionInv`, `TurnsEnd` | 598,123 |
| `timeline` | 1 viewer, 1 old message, 2 posts, 1 message, 1 fault, queues of 2 | `LogInv`, `StreamInv`, `StreamsEnd` | 291,573 |
| `queue_client` | 2 workers, lease of 2 units, calls up to 2; 3 tasks, 2 keys, a batch of 2, 1 other row, grace 1, timeout 2 | `FreshOwnerAlone`, `LeaseFound`, `BatchInv`, `BatchEnds` | 230,474 |
| `provider_call` | 2 tasks, one unguarded and late, 2 attempts, ladder of 1, 2 crashes | `CallInv`, `OneJob`, `CallsSettle` | 298,954 |
| `project_files` | 2 calls, 2 scripts of one episode, which is bound to either at first, 1 crash | `BindingInv`, `EditsSurvive`, `FilesSettle` | 71,938 |
| `project_events` | 2 clients, queues of 1, 2 channels, 1 change, 1 batch, 1 deletion or failing scan; 2 writers, a shot with an old still and a unit with an old clip, 1 grid, 1 outage | `ChannelInv`, `AssetInv`, `StreamsServed`, `OverwrittenIsRecorded` | 331,914 |
| `episode_ledger` | 2 calls (symmetric), 2 source files, 3 episodes, products asked for the first, window 2, plans of 2, 1 crash | `LedgerInv`, `RecutWithConsent`, `ReviewHolds` | 334,454 |
| `browser` | sessions a and b (b not yet made) of project p, c of q, 4 entries, 2 moves, 2 loads, 1 post, 1 fault; 2 callers, 2 versions, 2 changes of the route, 1 break, 1 change untold | `PaneInv`, `CopyInv`, `EndsShown`, `ToldTruly`, `CopyCatchesUp` | 415,509 |

Why these bounds: three rows give a dependency chain of depth two, so that
cascades have something to miss, and rows that compete for a key beside a third.
Two rows on pools of one slot give contention, a full pool after a claim, and a
resumed row beside a new one; two crashes let a row be resumed twice, beside a
repeated scan.  Three queries fill the driver (one driven, one
pending, one rejected).  Two requests and two objects on one slot give every
pair of entry points, an eviction under each, and a session that is created while
another is evicted; a third id lets two requests create a session each; three requests only add a second waiter for a lock, which is
one lock object behind the other.  One viewer suffices in `Timeline` because viewers do not
see each other; a queue of two overflows with three broadcasts.  A call as slow as
the lease is long is what makes two workers work at a time.  Two calls of one
asset give an overwritten file with and without a version; two writers are every
pair of a task, an upload, a restore, a grid and a removal, and with files from before
versions on the one asset and none on the other both cases of tracking occur (all
initial files together give 687,320 states, in which the properties hold too).  Two scripts that claim one
episode are what the binding protects against; two clients are a first and a last
subscriber.  Three episodes over two files let a cut end in one file and the next begin in
the other; one crash and the files that failed deletions leave let a commit break off over the files of
another one, which is the case in which a part can be lost (section 7).  A load and one more load, or a post, in
flight while the user moves twice give A to B to A.  A message that is sent again takes the place of the one before
it in the run; the theorems about the pane are for any number of messages in flight.

`CHECK_DEADLOCK FALSE` is set where everything may have ended and nobody has to
act.  Only `worker` and `worker_settles_after_crash` never stop.

## 4. Properties

Several named parts are checked together where they belong together; each part has
its own definition and comment.

* Task store: `UniqueActiveKey` (no two active rows share a dedupe key, whoever enqueues while
  rows move), `RunsAfterDependency`,
  `CancelAttribution`, `EventsNeverLie` (`cancelled_by` and the newest event tell the
  truth), `NoDependentLeftBehind` (the transaction that loses a row takes all its
  queued dependents along), `ImplementsLifecycle` (all of it as callers see it).
* Worker: `AtMostOneSubmission`; `SoleExecutor` (no row gets a second asyncio task
  while the first is alive); `WorkerInv` = types, `PaidIffExecuted`,
  `PoolWithinCapacity` (resumed rows included, except those resumed after they settled,
  section 7), `RunningHasOwner`;
  `RunningSettles`.
* Lease: `FreshOwnerAlone` (who renewed less than a ttl ago is the owner: two that
  believe to own the lease are not both that recent), `LeaseFound` (nobody asks for the lease in
  vain for ever: that of an owner which died, hangs in its cycle or waits for its last tasks runs out and is
  taken over; what such an owner still believes does not count).
* Batch: `BatchInv` = types and `SuccessesInOrder`; `BatchEnds`, although a dependent
  enqueued after its dependency failed is never reached by a cascade.
* Provider call: `OneJob` (one charged job per task behind `submit_post`, whatever is
  retried, lost, resumed); `CallInv` = types, `PaidIsAnchored`, `SucceededIsKept`,
  `BilledAsDelivered`; `CallsSettle` = `SettledStays` (a settled ledger row is never
  changed), `CallEnds`.
* Session actor: `OpenIsHeld` (an open command is in exactly one of the five places
  where the actor will find it), `OneQueryAtATime`, `CommandsSettle` = `QueriesEnd`,
  `EveryoneAnswered`.
* Sessions: `SessionInv` = types, `SessionIdentity`, `OneActorUncontested`,
  `NoQueryOnDeadActor` (a query or interrupt that waits is in the queue of an actor that will see it, once);
  `TurnsEnd` = `RequestsReturn` (every request returns, except the sender of the one command that is
  lost with a broken turn), `InboxEnds`, `RunningRowSettles`.
* Timeline: `LogInv` = types, `OneInterruptEntry`, `HistoryFirstAndOnce`,
  `DeliveredOnce`; `StreamInv` = `SeenOnceInOrder`, `NothingMissedCalm`,
  `TurnShownBeforeItsEnd`; `StreamsEnd`.
* Project files: `BindingInv` = types, `EpisodeEditHitsBound`; `EditsSurvive`;
  `FilesSettle` = `CallsEnd`, `IndexSettles`.
* Project events: `ChannelInv` = types, `WatchedOrTold`, `OneWatch`;
  `StreamsServed` = `OpensInTheEnd`, `CatchesUp` (a stream was told of the state of the files, unless the scan had
  nothing to tell of in the last change), `WatchEnds`, `DeletionEnds`.
* Assets: `AssetInv` = types, `ShownIsCurrent` (the current version is what the file
  holds, as soon as its last writer has recorded it), `LinksFit` (URI and poster of a
  unit belong to its clip), `GridDelivers`; `OverwrittenIsRecorded` (what is overwritten
  is among the versions).
* Episode ledger: `LedgerInv` = types, `EachPartOnce` (every part of the source before
  the place where planning goes on is in one episode), `FilesFollowLedger`,
  `ExhaustedIsTrue`; `RecutWithConsent` (an entry that readers of the ledger take for consumed is
  cut anew only by a call that had read it so before it asked its model, and was told to go ahead, and it becomes
  stale); `ReviewHolds` = `ConfirmationKept`, `GateOpensForReviewed` (a gate that can read project.json opens
  only for a content of which a confirmation took the fingerprint, however saves, splits, confirmations and what
  these write themselves cross).
* Browser: `PaneInv` = types, `OwnEntries`, `NoGap`; `EndsShown` =
  `EndShownComplete`, `EndIsShown`;
  `CopyInv` = types, `WaitsSomewhere`, `WaitsForItsOwn`; `ToldTruly` (who is told that its
  refresh succeeded finds what it saved), `CopyCatchesUp` (the copy gets every change the server tells of, unless there
  is one of the `gaps` or the server dropped the subscriber).

Some properties hold only for part of the behaviours, and say so in a condition
(`contested`, `calm`, `stray`, `untold`, `torn.lost`, `strayed`, `gaps`, a command "lost", a stream "deaf").  What happens
otherwise is told in section 7; it is not hidden in a bound.

## 5. Fairness

| Specification | Assumes | Because |
|---|---|---|
| `GenerationWorker!FairSpec` | WF of the main loop, the shutdown, each asyncio task and cancel callback | the event loop runs each ready coroutine; a provider call ends at the latest with the `max_wait` of `poll_with_retry`.  No client acts, no crash, stop or lost lease has to happen |
| `SessionActor!ActorFairSpec` | WF of the actor and of its two helper tasks | the event loop runs them; the SDK answers every call and ends every response |
| `SessionManager!FairSpec` | WF of `Work`, any step of a request, actor, inbox, eviction or late error write | one condition is enough: the bounds leave no infinite run of such steps that passes one over |
| `Timeline!FairSpec` | WF of `Work` (inbox, readers, streams with their heartbeats), WF of the SDK that takes a prompt or ends a turn | the same, and the promise of the SDK |
| `WorkerLease!LeaseFairSpec` | WF of `Tick`, WF of asking for the lease, of each worker | time passes, a process that asks goes on asking.  A cycle may hang and a drain may never end; crashes and stops are free |
| `QueueClient!QueueFairSpec` | WF of `Time`, of the enqueue and of each poll | nothing is assumed of workers or tasks |
| `ProviderCall!CallFairSpec` | WF of the worker's work on each task | nothing is owed by the provider: a job may run for ever |
| `ProjectFiles!FairSpec` | WF of each call's work and of the scan's, SF of taking a lock | whoever waits for a lock gets it some time: the scan rests between rounds, the kernel wakes the waiters of a lock file.  The scan repeats while a stream of the project is open; `IndexSettles` is about such a project |
| `ProjectEvents!FairSpec` | WF of each watch, each rebuild and each stream | the event loop and its threads; files, joins and emitters are free |
| `AssistantClient!FairSpec` | WF of `Work` (answers, timers, reconnects), WF of the end of each turn | calls are answered or fail, browsers reconnect, turns end (`timeline`, `sessions`) |
| `ProjectClient!ProjectFairSpec` | WF of `Fetching`, WF of `Listening` | fetches are answered or fail, the server tells subscribers what its scan finds (`project_events`: `CatchesUp`) |

`EpisodeLedger` and `TaskStore` have safety and action properties only: nobody has to call.

## 6. Proofs

`GenerationWorkerProofs`, first the table alone (`TaskStore`), for any finite set of tasks, any keys and any
number of open calls:

* `TypeCorrect`, by one lemma per kind of step; `CascadeMoves` says what a
  cancel cascade does to a row.
* `StatesAreOneWay`: every transaction moves rows only along the edges that
  `StepMovesRows` lists.
* `KeysAreUnique`: inductive together with "a queued, running or cancelling row
  has the key of its INSERT"; the step that matters is that no transaction turns
  an inactive row into an active one except `Enqueue`.
* `DependenciesFirst`: not inductive alone, since the claim is two steps; the
  invariant `DependencyOK` adds that the row a claim has read has a dependency that
  succeeded, which stays true because states are one-way.
* `CascadesAreComplete`: `QueuedBelow` is the least closed set; the lemma
  `QueuedBelowClosed` gives that a queued dependent of a member is a member.
* `AttributionIsTrue`, `EventsAreTrue`.
* `StoreImplementsLifecycle`: every transaction is a step of `TaskLifecycle` or a
  stutter.  It uses the invariants above: that a claimed row's dependency has
  succeeded is what makes the claim a `Start`.

Then the worker over it:

* `WorkerTypeCorrect`: the type invariant of all variables.
* `WorkerUsesTransactions`: `Spec => StoreSpec`.  Every step of the worker is a
  transaction of the store or leaves the table alone, so `WorkerKeepsTheTable`
  inherits the theorems above.
* `OneCoroutinePerRow` (`SoleExecutor`) and `RunningIsOwned` (`RunningHasOwner`).  A
  row is handed from hand to hand: queued, claimed, registered, resumed.  `SoleInv`
  says in which of these places a row is, and that it is in one only; a row is read
  by an orphan scan only in the phases of the loop that scan, and the look at the
  SlotTable takes away those that have a coroutine.  `OwnerInv` adds that signals
  and ended coroutines belong to rows that have left the running state, so a
  running row cannot be dropped from its place.
* `PaidOnce`: `AtMostOneSubmission` and `PaidIffExecuted` for any number of
  tasks, crashes and scans.  The invariant `PaidInv` says who may still submit:
  rows not yet claimed, and a claimed row before it is dispatched, are unpaid and
  have no coroutine before its submission; a coroutine before its submission
  works on an unpaid row; and whatever may lead to success (a job id, a resume, a
  shielded write) belongs to a row that was submitted.
* `WorkerInOrder`: all of `WorkerInv`, with `PoolWithinCapacity` the last part of it.  No one count bounds
  the calls of a pool, because a resume takes its slot without a look.  `PoolInv` says that either no
  more rows hold slots than the pool has room for, or all that do are resumed rows of one
  scan, behind its semaphore (`BusyInv`, `SemaphoreInv`).  A second scan in one process would break this; that what
  it resumes has settled by then needs that a running row keeps its slot until it settles or the process
  ends (`FreshScan`, `BeforeScan`), and that a row is signalled once (`SignalInv`).

`AssetFilesProofs`, for any writers, shots and units:

* `FilesAgree`: all of `AssetInv`.  `Placed` says of each writer what it works on and that
  the old file was tracked before it writes; `ShownIsCurrent` is then kept because
  whoever changes a file is in hand until it has recorded it.
* `LinksFit` needs for each unit that nobody has crossed: its clip, entry and
  poster agree except for what the one writer in hand has still to do (`UnitInv`).
  `GridDelivers` needs that a grid has dealt with every cell that is not on its list.
* `OverwritesAreRecorded`: the action property `OverwrittenIsRecorded`.
* `SubscribersAreServed` (`ChannelInv` of `ProjectEvents`), for any streams, channels, rebuilds and
  troubles: `EventsInd` adds that the channel of the key is watched while it has subscribers
  and was never cancelled (`KeyIsWatched`), which is what a stream that joins it relies on, and that a
  channel not yet made is as at first.  The lemmas `Harmless`, `Ending` and `Parting` are the three ways
  a step can touch the channels: not at all, with the end of the project, with the last stream.

`SessionProofs`, of the actor: `ActorTypeCorrect`, `SessionOneQuery` and `OpenCommandsAreHeld`.  `OneQueryAtATime`
is inductive beside the type invariant; the lemma `Answered` says that whoever
leaves the driver answers the query it drove.  `OpenIsHeld` is not: `HeldInv` adds which place
outside the queue may hold what in which phase, and that no command is in the queue
twice.

Of the manager: `SessionsHold` (all of `SessionInv`), for any ids, requests, objects, capacity and failures, lost commands included.
`SessionIndInv` adds what each request carries at the await where it stands and whose object it has
(`RequestFine`, `OwnObject`), that a request whose query is in the queue of an actor waits for it there, once
(`QueuesOK`; and so an interrupt), and what the lock of a session is for (`ConnectOK`): the requests that connect an uncontested id
have the lock object that is in `_connect_locks`, one of them is past it, no actor of the id is awake while that one makes room
and takes options, and an actor that is awake is registered.  `OneActorUncontested` follows, because a
session has one registry entry.  A step is either far from the lock (`NoNearer`: no request gets nearer to a connection than it
was; `RegStep`: an id leaves the registry only when its actor has ended or it is contested), and then the lemma
`ConnectKept` keeps `ConnectOK`, or it is one of the few that take or leave the lock.  The id of an object
changes only in `Adopt`, and `InstFine` says why that cannot reach an uncontested id.

`LeaseAndCallProofs`: `LeaseTypeCorrect` and `FreshOwnersAreAlone`, for any number of workers,
any ttl and any slowness of calls.  The invariant adds that an owner of the row
cannot be replaced while its last success is fresh, since what is left of the row
is then what remains of that success.  For the other side of `is_worker_online`,
`BatchInOrder` (`BatchInv`), for any batch whose dependencies come first, any rows and any other
callers: `BatchInd` says which specs have a row (a prefix), that a row of the batch's own names the row
of the spec it needs and started only after that one had succeeded, and that a result which names a
state is the state of the row, which the life cycle never takes back.

Of the paid call: `CallRecordsAgree` (`CallInv`), `OneJobPerTask` (`OneJob`) and
`LedgerSettlesOnce` (`SettledStays`).  The invariant `CallInd` says what the rows hold at each
place where the coroutine of the task in work stands (`InWork`) and what they
hold of the tasks at rest: a queued task has no job and no ledger row, and a
running task that nobody works on has seen a crash.

`ProjectFilesProofs`: `BindingHolds` (`BindingInv`) and `NoEditIsLost` (`EditsSurvive`), for any
calls, scripts, episodes and crashes.  `FilesInd` says that what a call or the scan has
read under a lock is what the file holds until the lock is released, and that every
episode is bound to an existing script that claims it.  A write then adds to
what is there; and the scan, which commits only while it holds the lock of
project.json, cannot bind an episode anew under an edit that holds that lock.

`TimelineProofs`, for any number of posts, messages, streams and faults, any length of the history and
of the queues: `LogIsTrue` (`LogInv`) and `StreamsShowTheLog` (`StreamInv`).

* `LogInd`, the invariant behind the first, says of each kind of entry where its rows come from.  `UserRows`: a row of a user
  belongs to the post that wrote it and has not yet been accepted or undone, or to a post whose prompt the SDK
  has taken, and no key has two rows; `DeliveredOnce` follows, because two delivered posts of one key would need
  two rows.  `HistoryRows`: either nothing has happened yet (`Untouched`: nobody
  is past `ensure_backfilled`), or the history has the first numbers; one reader at a time is behind the lock.
  `CalmRows`: while nothing failed and no posts overlapped the numbers have no gaps, so whatever is inserted comes
  behind everything, and the interrupt entry whose tail check has passed follows another entry
  (`OneInterruptEntry`).  `Prompts` says to which posts the queued and delivered prompts belong.
* `StreamInd`, behind the second, calls a number with an entry known when it is in the log, in a queue or has been shown.
  A row may be deleted and its number given again, so what matters is that no entry gets a second number: `KnownInv` says so (`OnePlace`), from
  where entries of each kind come from: a post has one row in its life, a message leaves the inbox once.
  `SeenRising`: streams rise up to their cursor.  Together they give `SeenOnceInOrder`, failures and overlaps included.
* For calm sessions `OneAtATime` says that one post at a time is between its check and its broadcast, and no
  messages of the SDK wait meanwhile.  `CalmStreams` then says of each stream that it has shown what its cursor has
  passed, that its queue holds each row before anything that comes behind it (`Behind`), and that, while it is
  subscribed, every row is shown, in the queue, or the entry of a post that has still to be broadcast
  (`Covers`, `OnTheWay`).  An eviction takes out deltas only, so it keeps this; an overflow that
  is not helped by one ends the stream with an empty queue, and the next listing starts at the cursor.

`BrowserProofs`: `NobodyIsForgotten` (`CopyInv`) and `RefreshToldTruly` (`ToldTruly`), for any
projects, callers, changes and failures.  `CopyInd` adds to `CopyInv` that the two rounds share no
caller and that nobody waits for a version the server does not have, which is what a
round that fetches later than the save needs.
`PaneShowsItsSession` (`PaneInv`), for any sessions, projects, moves and faults and any number of loads and messages in flight,
repeated ones included.
`OwnEntries` and `NoGap` hold only as long as the user has not strayed in one of the ways they name, and
`PaneInd` adds what keeps them true until then: `Quiet` (while the sessions are being listed nothing
is in flight or shown), `Alone` (a message sent without a session is alone, and the pane shows none until
it is answered, so the session it creates may become the current one) and `InStep` (what is in
flight is for the session shown, from a place the timeline has reached).  The lemmas
`Appending` and `Merging` say what the two ways to extend a timeline keep.
`EndsAreComplete` is `EndShownComplete`, the safety part of `EndsShown`: when the stream of the pane closes itself with the end of a turn
(`EndIsTold`: nothing else does so), all entries are shown.  It adds to `PaneInd` that what the pane shows is on the server
(`Real`); then the last entry shown is neither before the cursor of the stream nor behind the server's last.

`EpisodeLedgerProofs`, for any source files, windows, episode numbers, calls, crashes and any projects from
before the ledger: `FilesAreTheLedgers` (`FilesFollowLedger` and the types), `ConsumedAreRecutWithConsent`
(`RecutWithConsent`) and `ReviewsHold` (`ReviewHolds`, from `ConfirmationsAreKept` and `GateIsForReviewed`).
The invariant `LedgerIndInv` adds that a confirm about to write carries a content whose fingerprint was recorded as
taken and a replan whose scope was partly consumed has consent (`CallsOK`), that an entry has a cut only once there is a cursor (`CursorKnown`), and that a stored fingerprint was
taken by a confirm (`ReviewedSeen`): the one it took first, or, of a reference video, the second.  Without `CursorKnown`, a ledger that lost its cursor would be filled again from files that
no longer agree with it.  For `RecutWithConsent` the step that
matters is the commit of a replan: what it replaces is in the scope it has read
(`SameScope`), and an entry that was consumed in the meantime is a conflict.  A plan
only appends: its numbers start after the last entry (`MaxExists`).  That a set of numbers has a
greatest and a least member is proved from `NatLessThanWellFounded`, as an
induction over a set.

`EachPartInOneEpisode` is the whole of `LedgerInv`, for every such instance in which what was split off by hand begins the
source and leaves nothing out (`LegacyInOrder`; `MCEpisodeLedger` assumes it as `PastsInOrder`, so TLC evaluates it on the run).
The hypothesis cannot be dropped: the planner never looks at a text that lies before the last cut, so what a
user left out stays out.  The invariant `CoverInd` is about the row of cuts a reader finds, in
project.json or in the files (`FilledRow`).  It is `Whole`: a cut never starts before an earlier one ends, and
every part before its end is in a cut (`Coverage`, unless `torn.lost`).  From it follows that planning
goes on where the row ends (`StartIs`), which needs that the cursor is never beyond the last cut (`CursorWithin`)
and that a cut in project.json is not looked up again (`AnchoredSettled`).  `PlansGoOn` and `NothingLeft` say what the two kinds
of planning calls know.  A first part of a whole row is whole and
reaches the cut that follows (`PrefixWhole`, `PrefixReaches`), and a row grows by cuts between which there is nothing
(`RowExtends`).  These give the steps: a plan extends the row (`AppendedWhole`); a replan keeps a
first part, goes from one file's stretch to the next without leaving a part out (`NextStretch`) and ends where the row ended
(`RecutWhole`); a plan that breaks off leaves in the files a first part of what it was writing, the last
cut perhaps shorter (`TornRow`, `CutBack`), unless a cut that only its file recorded was shortened before others.

The proofs rest on the named assumptions of the modules (`TaskStoreAssumption`,
`WorkerAssumption`, `WorkerLeaseAssumption`, `CallAssumption`, `AssetAssumption`,
`GridAssumption`, `SessionActorAssumption`, `SessionManagerAssumption`, `ProjectFilesAssumption`,
`ProjectClientAssumption`, `QueueClientAssumption`, `AssistantClientAssumption`,
`ProjectEventsAssumption`, `LedgerAssumption`, `TimelineAssumption`): finiteness, types of bounds, that NULL and the like are none of the values, and that a spec depends only on earlier ones.  TLC evaluates each of them on its runs.  The inductive invariants were checked
by TLC before they were proved.

Every invariant and every action property of the runs is proved.  Only model-checked: liveness, which needs
`ENABLED` and is out of the prover's reach (`RunningSettles`, `CommandsSettle`, `TurnsEnd`, `StreamsEnd`, `LeaseFound`,
`BatchEnds`, `FilesSettle`, `StreamsServed`, `CopyCatchesUp`, of `CallsSettle` the part `CallEnds` and of
`EndsShown` the part `EndIsShown`).

## 7. Where the code and its documents disagree

Each of these formulas is stated in its module, after "Properties the repository
states and the code does not have" or beside the property that holds instead.  No
run checks them; giving one to TLC in the instance of section 3 yields the
behaviour described (`OverwrittenIsKept` needs a third task, `UriFollowsClip` and the grid's two all initial
files).

Tasks and worker:

* `CancellingSettles` (ADR 0006: a cancelling row is always brought to `cancelled`
  by the worker).  A cancel between claim and registration finds no asyncio task to
  cancel; the row stays `cancelling` until the next restart.
* `NoPaymentAfterCancel` (CONTEXT.md: cancel interrupts queued and running rows
  alike).  A row that is claimed between SELECT and UPDATE of `cancel_task` becomes
  `cancelled` without a signal, and is submitted.
* `CancelNotLost` (`_dispatch_cancel`: a row read as running never is queued at the
  UPDATE).  The worker's requeue comes in between; the cancel has no effect.
* `ResumesUnsettled` (`generation_worker.py:848`: the rows of this process are
  skipped).  A row that settles between the SELECT and the look at the SlotTable is
  in neither, and is resumed again.
* `AllWithinCapacity` (`generation_worker.py:995`: semaphore and phase flags keep the
  exact capacity, "精确容量").  Such a row, resumed after it settled, polls under the
  semaphore of the first scan; the dispatch of a second scan makes a semaphore of
  its own, and the pool exceeds its capacity by a call whose outcome is ignored.
* `SlotFreed` (`generation_worker.py:1039`: "三种 cancel 路径都在这里兜底").  A resume task
  that is cancelled before its first step never enters its try block and never
  gives its slot back.
* `OneWorkerWorks` (`generation_worker.py:487`: "单 lease 互斥保证不会与另一个 worker
  同时扫").  The flag is looked at once a round: a worker whose renewal was slow, or
  that is inside a round when its lease runs out, works beside its successor.
* `OneJobEver` (`ark.py:206`: the download has its own retry, "避免下载失败导致重新
  生成视频而浪费额度").  A 413 of the result URL passes that retry, is taken by the
  ladder of reference compression for an oversized request, and the job is created
  again; a backend whose create call has the default retry creates a second job
  when an answer is lost.
* `DeliveredIsBilled` (`media_generator.py:811`: "避免视频已生成但账本永久漏记").  The wait
  for a job ends at its `max_wait` and the ledger row is closed as failed; the process
  crashes before the task row is.  The orphan scan resumes the job, which is done by
  now: the task succeeds, and its call stays failed, since only pending rows are
  finalized.
* `OverwrittenIsKept` (`media_generator.py:567`: an existing file is recorded first).
  A download that is cancelled before `add_version` leaves a file without a version.
  `ensure_current_tracked` records it only if the asset has no version at all; a second one
  is overwritten unrecorded.

* `UriFollowsClip` (`upload_finalize.py:167`: "旧 video_uri 指向上一次生成的 provider 端产物，
  与本地新文件不再对应，必须清空").  `_finalize_video_task` writes a `video_uri` only if there
  is one (`generation_tasks.py:936`), and the fields of two writers of one clip mix: a
  clip keeps the URI of another.
* `CompletedHasImage` (`grids.py:150`: records with a task at work are passed over).
  A record that is `splitting` is not passed over: its file is deleted, the task saves
  it again as `completed`, and its image is gone.
* `PendingIsQueued` (`grids.py:271`, `regenerate_grid`).  The record is set to `pending`
  while its old task is still at work; the enqueue finds that task, which then
  ends, or is ended by a crash, and nobody works on the record.

Sessions:

* `NoCallerHangs` (`_run`: the actor drains at its end so that no caller hangs).  A
  command that `cmd_task` has taken when the message stream raises is in no queue
  and is never answered; `send_query` and `send_interrupt` wait for it without a timeout
  (`session_manager.py:214`, `:226`).  `RequestsReturn` excepts its sender.
* `NotStuckRunning` (`session_manager.py:551`: "Persist error state so DB doesn't
  stay at \"running\" after a crash").  A new session whose actor crashes before the
  inbox has given it its SDK id has no row to write to yet; the inbox then sets the new row
  to running, and nobody sets it to anything else.
* `OneActorPerSession` (`session_manager.py:855`: the lock of a session "prevents
  concurrent connect()").  The lock does not cover evictions: while one waits for the actor to
  end, the session counts as gone, and a request for it connects a second actor.  Nor
  does it cover a new session, whose row exists before its registry entry (`:1535`).
* `AcceptedIsDelivered` (`session_manager.py:987`: "条目存在即上一次受理已（或正在）送入
  SDK").  The repeat of a post whose delivery is just failing meets the entry before
  it is deleted, is accepted, and nothing is delivered.
* `NothingMissed` (`service.py:511`: "断线重连按 cursor 续传").  A deleted entry's number
  is given again; a client whose cursor has passed it is never shown the new entry.

Project files and events:

* `ScanComesToRest` (`project_events.py:596`: a mismatch is skipped to avoid
  "SSE 扫描循环无限重试").  Two scripts that claim one episode make the scan bind it to
  the one and the other in turn, for ever.
* A change without a word (`project_events.py:520-524`).  The fingerprint differs, the new snapshot is kept, but the diff finds
  nothing: an episode removed, a script that came or went, another path of a still or clip.  Nobody is told until
  something else changes (`untold`).  Fields that the snapshot leaves out (`:610-706`) do not even change the fingerprint.
* `OwnChannelOnly` (`project_events.py:443`: cleaning up must not hit "同名项目重建后已
  注册的新通道").  A request that is cancelled in `subscribe` pops the key (`:214`)
  without asking whose channel is registered; after a deletion and a new start that
  is another one, whose stream then has a watch nobody finds.
* `RebuiltWithConsent` (ADR 0031:19: "重排已消费集（已生成 step1/剧本/媒体）需显式确认"; CONTEXT.md:245: "consumed（已有
  下游产物：step1 中间文件、剧本或媒体）").  The replan looks at the status, and only the backfill sets it to consumed.  An entry
  written by `plan` stays `planned` when its step1 and script are made, and a replan cuts it anew and asks nobody.
* `NothingPassesUnreviewed` (`text_generation.py:236`: "须经 web 显式确认才放行 step2").  A project.json that cannot be
  read is taken for an empty one (`:207`); without a content mode there is nothing to review, and the gate opens.
* The confirmation of a reference video rewrites step1 and takes the fingerprint of what is there then
  (`services/script_review.py:171-181`), without a lock between its steps.  A save that comes before the write is
  overwritten, one that comes after it is confirmed, though the user confirmed another text.
  `GateOpensForReviewed` therefore speaks of the contents whose fingerprint a confirmation took.
* `episode_planner.py:1009`: "残留不在账本中，账本驱动的下游不会读到它".  A derived file that could not be deleted
  is read by the next backfill, which adopts what the ledger does not have as an episode (`torn.lost`).
* `episode_planner.py:1002`: "每次提交全量对账使中途崩溃后重跑即可自愈".  Of a replan
  that was torn between the files and project.json, a file may remain whose number
  the ledger does not have.  The next backfill adopts it as an episode: with [0,2] planned and
  a replan torn after [0,1],[1,2], the next commit gives e1=[0,2] and e2=[1,2], and a replan refuses.
  Nor does it hold of a plan that is torn over the files an earlier torn plan left.  A file is not replaced
  atomically and all are written again: with e1=[0,1], e2=[1,2] only in the files, cutting e1 short
  makes the next backfill go on after e2, and [0,1] belongs to no episode.
  `EachPartOnce` therefore excludes `torn.lost`.
* `script_review.py:137`: without a fingerprint an existing script passes the gate,
  which heals itself "用户或 agent 首次确认后即写入指纹".  A replan removes the fingerprint
  again; while an old script exists, any new step1 passes.  `GateOpensForReviewed`
  states the exception.  (The gate is also looked at before step1 is loaded,
  `sdk_tools/text_generation.py`; nobody claims more.)

Browser:

* `NoForeignEntries` (`useAssistantSession.ts`, `init`: "不被上一个项目的残留条目污染，也不
  会把旧项目条目混排进新会话时间线").  A load in flight across a change of the project,
  or a send before the list of sessions is answered, mixes the entries of two sessions.
* `loadSession` sets the status and opens the stream after its await without
  looking at the current session again: a late load closes the stream of the session
  now shown.  A gap whose fetch fails is appended over and not fetched again
  (`strayed` = "load", "gap").
* `ShowsItsRoute` (`projects-store.ts:90`: "本轮响应针对的是即将切走的旧项目——跳过写入").
  The code looks at its queue, not at the route: save in p, go to q, and the
  refresh of the save writes p over q.
* What `CopyCatchesUp` excepts: the changes nobody is told of (above); a subscriber that the server drops
  when its queue is full (`project_events.py:252-256`) gets no signal, and its stream idles on with heartbeats; and, as `gaps`, a change between the router's first fetch and
  the first snapshot of the stream is never fetched; the fingerprint is stored
  before the refresh succeeds, so a failed refresh is not tried again; and the
  router's fetch beside a refresh may write the older answer last.

## 8. Not modelled, and what is left

* Task routes: the SSE stream of task events with its id cursor.  Planned.
* Database writes that raise in a living process, and PostgreSQL (where a session
  does not hold the write lock from its first UPDATE on).  Planned for
  `GenerationWorker`; crashes of the whole process are modelled.
* Configuration and credentials: rows read and written by single transactions.
* Project archive, object storage and migrations: file I/O of one caller.
* HTTP routes, app and authentication: they validate and call; start and stop of
  the worker are in `GenerationWorker`.
* Prompts, text generation, pricing, validation: pure computation on documents.
* Of the modelled parts: in the task store `persist_api_call_id`,
  `persist_execution_payload` and read-only queries; in the session manager the
  options, hooks and permissions of the SDK, the entry of the first message that cannot be written, a failing
  finalize and the end of an inbox task that is cancelled; in the event log an old transcript that changes while it is read
  (the text of a session that no actor has is at rest); the clocks of two worker hosts, which are one; the projection of SDK messages into
  turns; what a diff of project events says about which entity; the other helpers on
  project.json, which use the same locked update; in the planner prompts, anchors and
  statistics; in the frontend drafts, questions, the task and cost stores, leaving all projects (which unmounts the pane), and
  everything that only renders.
