# TLA+ models of markdown-vault-mcp

markdown-vault-mcp serves a folder of Markdown notes (a *vault*) over MCP. It
keeps a keyword index (SQLite FTS) and a vector index of the notes and must keep
both in step with files that its own tools, editors, sync tools and git change at
any time; and it commits, pulls and pushes the folder as a git repository. This
directory models the parts of the program where that is decided: the single
writer thread and its jobs, builds and readiness, what readers are told, the
mutations of notes, the deferred commits and their synchronisation with origin,
the record of the indexed HEAD, and the vector stores with the processes that
share them.

Paths below are relative to `src/markdown_vault_mcp/` unless they begin with
`docs/`.

## 1. The system

### Components

| Component | State it keeps | Operations | Hard behaviour |
|---|---|---|---|
| Index writer (`indexing/index_writer.py`) | FIFO queue, Futures, closed/crashed flags, in-flight kind, write generation, three dirty sets | submit, mark, drain, get_status, close; worker loop | submit racing close, jobs that submit jobs, cancellation, a crash with a full queue |
| Per-note pipeline (`index_writer.py` runners, `managers/index.py`, `managers/embeddings.py`) | rows, vectors, the running job's snapshot, conflicts and retries | process_dirty_paths, flush_dirty_embeddings | marks during a job, partial failure, what is retried and by whom |
| Freshness reports (`_tools/_common.py`, `coordinator.py`) | none of their own | write_generation, is_drained, `index_stale` | several unlocked reads of a moving writer |
| Build lifecycle (`indexing/build_lifecycle.py`, `readiness.py`) | attempts, latest attempt, verdict and event, completion marker | submit, run, record, cancel, refresh barrier, waits | overlapping builds, cancel racing start, readers without a lock |
| Whole-vault passes (`managers/index.py`, `tracker.py`, `scanner.py`) | rows and tombstones, the tracker's persisted hashes and skips | build_index, reindex, checkpoint | files that change during the pass, unreadable files and directories, restarts |
| Write dispatcher (`write_callback.py`, `_commit_scope.py`) | queue, buffers of open tool calls, worker thread | fire, end of a call, drain, close | calls cancelled with their thread still writing, a worker that dies, a drain in the middle of a call |
| Git strategy and push scheduler (`git/`) | HEAD and origin, pending push, idle timer, two locks, sync health | commit, push, pull, rebase fallback with conflict siblings, git_sync, shutdown | lock order against the drain, a timer too late to cancel, failed pushes |
| Head reconciler (`indexing/head_reconciler.py`, startup in `domain.py`) | last reconciled HEAD, pending boot reindex | reconcile, note_own_commit, adopt | HEAD moving during a reindex, own commits over external ones, deferral |
| Document mutations (`managers/document.py`, `_rewrite_ledger.py`) | files, link rewrites on record | write, edit, append, delete, rename, move_folder | etags against link rewrites, changes by editors between two accesses, failures half-way |
| Vector store slot (`managers/_vector_slot.py`, `stores/_quarantine.py`, `_writer_lock.py`) | open store, provisional store, suspect, shares of the writer lock | open, condemn, recover, rebuild, publish, close | damage found late by a search, two threads at one corrupt file |
| Embedding reconciler (`indexing/embedding_reconciler.py`, `stores/postgres_vectors.py`, `_postgres_lease.py`) | tokens and rows of vectors, the lease | flush, converge, cold and forced build | two processes, a lease lost under its holder, commits whose outcome is unknown |
| Vault assembly (`vault.py`, `domain.py`) | threads and their order of start and stop | start, close | shutdown with work in flight |
| File watcher, webhooks | debounce timer | reindex requests | bursts |
| Donor, search, links, OKF, tools, CLI, configuration, transfer, providers | no protocol state | queries, presentation, external I/O | none a model checker reaches |

`PROJECT.json` lists each with what is modelled and why the rest is not, and
under `hazards` what can go wrong, at the line where it bites.

### How they interact

A write tool changes a file under `_file_write_lock`, then calls
`mark_paths_dirty` and fires the write callback. The mark puts the path in
`_dirty_paths` and a `ProcessDirtyPaths` job in the writer's queue; the writer
drains the set, refreshes the rows, marks the refreshed paths in
`_dirty_embeddings` and submits `FlushDirtyEmbeddings`, which lets the embedding
reconciler replace their vectors. Builds and reindexes are jobs of the same
queue. The fire puts the write in the dispatcher's queue, where it is grouped
with its tool call and handed to the git strategy, which commits it and arms the
push timer.

A pull takes `_file_write_lock` (no write can begin), drains the dispatcher so
that every write before it is committed, then takes the strategy lock and merges.
Afterwards the head reconciler compares HEAD with its record and submits a
reindex, during which writes are paused again.

Readers look at `ReadinessState` before a query and at the writer's status after
it. A mutation that needs the index (a rename that rewrites links) first calls
`prepare_index_read`, which takes the latest build attempt and queues a refresh in
one step and waits for both. A search that meets a damaged vector store has the
writer thread rebuild it.

### What makes each correct

- Writer: every accepted Future settles; a close that returned True is final.
- Pipeline: a row or vector that is out of date is named by some set that a later
  job drains; a clean close loses nothing; every write reaches both indexes.
- Freshness: a report of "drained" or "not stale" is true.
- Builds: readiness is the outcome of the latest attempt; an outcome stands; a
  dependent mutation goes ahead only over a success; nobody waits for ever.
- Passes: what the rows miss, the next scan notices; nothing hidden by an
  unreadable directory is lost; repeated reindexing converges.
- Dispatcher: one tool call is one commit; a drain that answers True has seen
  every write before it handed over; a close leaves nothing behind.
- Git: a merge finds every write committed; a commit not on origin is waited for;
  no pause lasts; a shutdown says what it could not push.
- Head: neither the record nor a deferral passes over a change no scan has seen.
- Documents: an etag never lets a call go over a text its caller has not seen;
  links follow what moves; every change is marked and announced.
- Slot: only damaged files are moved aside and no damaged one is overwritten; every
  store is closed; every search comes back.
- Embeddings: a vector that does not match its file is somebody's work; no process
  replaces what it did not read; at rest the store matches the files.

## 2. Modules

| Module | Models | Extends |
|---|---|---|
| `IndexWriter` | the queue, the Futures, the worker loop, close and crash | |
| `IndexPipeline` | the two per-note jobs, writes, marks, the refresh barrier | `IndexWriter` |
| `IndexStatus` | one read tool deciding `index_stale` over the pipeline | `IndexPipeline` |
| `BuildLifecycle` | scheduling, running and publishing builds; readiness; the waits | `IndexWriter` |
| `Reindex` | `build_index` and `reindex` with the tracker | |
| `CommitPromise` | what the dispatcher promises: no queue, no thread | |
| `WriteDispatcher` | the dispatcher, shown to implement `CommitPromise` | |
| `GitSync` | the git strategy behind the dispatcher, loop, git_sync, timer, shutdown | `WriteDispatcher` |
| `HeadReconciler` | startup, pulls, reconciles, own commits, reindex jobs | |
| `Documents` | mutations of notes by clients beside external editors | |
| `VectorSlot` | searches, the writer thread and another process at one store | |
| `EmbeddingReconciler` | two vault processes over one PostgreSQL store | |
| `IndexWriterProofs`, `BuildLifecycleProofs`, `DocumentsProofs`, `VectorSlotProofs`, `EmbeddingReconcilerProofs` | theorems | the module named, `TLAPS` |
| `IndexPipelineProofs` | theorems of `IndexPipeline` and `IndexStatus` | `IndexStatus`, `IndexWriterProofs` |
| `ReindexProofs` | theorems of `Reindex` and `HeadReconciler` | both, `TLAPS` |
| `GitSyncProofs` | theorems of `WriteDispatcher` and `GitSync` | `GitSync`, `TLAPS` |
| `MC...` | model values, job kinds and symmetry for TLC | the module named |

`IndexPipeline`, `IndexStatus` and `BuildLifecycle` compose with the writer by
conjoining its actions: a step that submits, starts or settles a job *is* the
action of `IndexWriter`, with the further variables added. `GitSync` composes
with `WriteDispatcher` in the same way: its worker steps are `Take` and
`CallReturns`, its pulls `DrainBegins` and `DrainReturns`. No module restates a
queue.

An operator whose comment begins "A slip" is a variant of the definition that
follows it with a plausible mistake in it. No action uses it: it is there to
show that a property notices the mistake (`mutants` in `PROJECT.json`).

Variables marked *history* are not in the program; they record what a property
speaks of and guard no action of the code.

### Correspondence with the code

**IndexWriter.** One action per atomic call: `queue.get` (Pop), setting
`_in_flight_kind` (Claim), `set_running_or_notify_cancel` (Start, Skip),
`set_result`/`set_exception` (Settle), the `finally` block (Release), the
`BaseException` path (Interrupt, Abort, CancelDoomed, Die), `close` in three steps
because the sentinel is put outside the lock. `submit` is one step: it tests and
puts under `_submit_lock`. `cur` is the `future` local of `_run`. Done callbacks run
inside `set_result`; a submit made by one is a `SubmitOnWorker` step while the
worker is in that place. Callbacks raising `BaseException` are left out: no callback
of the package does.

**IndexPipeline.** A file, a row and a vector are contents. `step` is the line of
the runner that runs next, `snapshot` what it drained, `todo` what of it is left.
A note is read and upserted in two steps, since a write may come between. A content
in `Broken` does not parse or lacks required frontmatter: its row is a tombstone,
which leaves the vectors of the note as they were. The `except` and `finally` blocks of both runners are RestoreSnapshot, MarkFollowUp
and SubmitFlush; a flush that raises inside the pass loses the conflicts the pass
had found, one that raises at the checkpoint does not (DropPass). `kept` records
the vectors a flush leaves although they are old and without requeueing them
(a refused vector, a source that cannot be probed). A conflict may leave any
content in the store: it is another process's. The vault begins with both
indexes in step, after its boot build.

**IndexStatus.** `_staleness_result` evaluates three operands in order, and
`get_status` takes three locks in turn: seven steps of a reader between which
everything else moves. The wait for pending writes before them looks on as `is_drained`
does; one that timed out makes the answer stale. `seen` holds every content a file has had since the call
began; an answer is fresh if each row it read is one of them.

**BuildLifecycle.** `lock` is the scheduling lock. What is done under it is still
several steps where a reader without the lock can see the difference: the verdict
and the event of `ReadinessState` are two stores, and a third step settles the public
Future. Each attempt has its public
Future, which a caller may cancel, and the writer's Future. A warm start needs
the completion marker; that the provenance of the store also matches and that it holds
documents is a free choice, and the check itself may raise.
In one behaviour one reading call is made (`MayRead`): the refresh barrier, a wait or
the status, since none of them changes what another reads.

**Reindex.** Standalone: the passes run on the writer thread with nothing beside
them, so the queue adds nothing. A hash is the content. Walk, parse, delete,
upsert, save and the dropping of tombstones go file by file, with edits, failed
reads and failed upserts between any two; a restart forgets memory and keeps the
rows and the tracker's file, which are separate stores. That file is read twice in a
pass, by `detect_changes` and for the tombstones, and a read that fails counts as an empty
one (`blind`). `owed` names rows changed
since the tracker was last saved, `calm` counts reindexes completed without any
disturbance. `carry` is the in-memory state `detect_changes` leaves for
`update_state`.

**WriteDispatcher.** One action per lock-protected call of another thread (`fire`,
`end_scope`, `drain` up to its marker, `close` in three steps) and one turn of
`_run` per queue item. `_open_scopes` is `open`, the order of the dict, with
`buffer`, the lists. A flush of several scopes goes one callback at a time, with
everything else between (`worker.rest`). A tool call ends in `ReturnCall`, or in
`CancelCall`, after which the thread of `asyncio.to_thread` may fire more; the
middleware swallows an error on its way to the dispatcher, and then the end is lost
(`EndScope`). A callback
may raise a `BaseException` and take the thread along; the next fire starts another
over the same queue and buffers. **CommitPromise** has neither: a write is
unfired, refused, accepted or handed over, a drain unanswered or answered.

**GitSync.** A history is the set of changes it holds, so that push, fetch and
merge are inclusions of sets. What a thread does holding the strategy lock is
one step, but a pull waits for the dispatcher under the file lock only. The callback
goes through its closed check, the one-time push of leftovers, the commit and
`schedule_push`; an exception ends it at the second of them (InitFails), as one ends a
tick of the loop before its push (TickFails). `timer = "ripe"` is a timer thread that `cancel` no longer
stops. A pull ends in nothing to do, a fast-forward, a rebase, a refusal, a
rebase or an abort with conflict siblings committed, or siblings whose commit
failed. `Scope = {}` here: scopes are `WriteDispatcher`'s own subject, and every
write is its own commit.

**HeadReconciler.** HEADs are numbered; each holds a set of external changes.
An own commit moves HEAD and is then reported (OwnCommit, ReportCommit); the strategy
lock lies over both, and a reconcile reads HEAD without it.
`reconcile` is one action per line that reads or writes shared state:
CheckPending, ReadHead and CompareHead (without a lock), TakeRunLock with its second look,
SubmitReindex under the write pause, ReindexReturns, RecordHead. `boot` walks through
`domain.py`'s startup in order. A scan sees what was on disk when it began and
perhaps more; it may raise, or return having missed something (`missed`). Pulls are
one step: `GitSync` has their inside.

**Documents.** A content is a text and one link; an etag is the content. Under
`_file_write_lock` an operation goes file access by file access (the check of the etag,
ReadForEdit, Replace, MoveFile, RewriteRead, RewriteReplace), then Mark, Fire, Prune; editors, who take no lock,
come between any two. `ready` and `late` are the calls whose
`ensure_index_current` has returned and what they cannot know since.
`Forget` is the expiry of a recorded rewrite. `ReplaceThenFails` and `RewriteThenFails` are
a new file whose mode cannot be set once it is in place.

**VectorSlot.** `files` is whether what lies at the location opens, reads and is of
this model; `identity` whether the provider has been asked for its dimension, without
which a store opened over an empty location is only provisional. `at` is the line a thread is on; `slotLock` and `recovery` are held
over several steps only in condemn, fresh and the recovery. Shares of the writer lock
are one per open store and one over a swap, so another process comes in exactly
when there is none. `Late` says whether a store may also stop opening, or be
recovered by another process, while the server runs (section 5).

**EmbeddingReconciler.** A revision of a note is its content hash; two of them have
the same embedding inputs, one has none. A pass reads the tokens (NewPass), compares
document by document, embeds outside the store and writes in two steps, `Ensure`
(the lease) and `Transact` (one transaction under the meta row's lock, conditional on
the token). A connection lost while committing leaves the transaction in `limbo`:
the server settles it later, either way. A vault's keyword index (`row`) is written
by the same thread, so tokens and keyword rows are one read. The history variable `lost`
has what a write took from another vault that wrote it after the pass had read the store,
and how: in a whole `generation`, over a token that had `returned`, or `unread`.

## 3. Runs

All runs use `CHECK_DEADLOCK FALSE`: the program may stop for good in each. The
writer exits after a close or a crash, a server shuts down, and writes, builds,
passes, edits and faults are bounded, so the end of a behaviour is not an error.

| Run | Instance | Distinct states | Shows |
|---|---|---|---|
| `writer` | 3 Futures, 2 closers, 1 kind, fair worker | 35 thousand | no orphaned Future; a True from close is final; every Future settles; a close ends the worker |
| `pipeline` | 2 notes, 1 content, 2 writes, 2 faults, 9 Futures | 2.4 million | nothing stale is forgotten; the barrier holds |
| `pipeline_close` | 1 note, 2 writes, 1 fault, a close, a content that does not parse, fair worker | 2.0 million | a clean close loses nothing; writes reach both indexes |
| `status` | 1 note, 2 writes, 1 fault, a close | 4.1 million | reports are right up to two named races |
| `build` | 2 attempts, 3 Futures, a close, one reading call, fair threads | 0.92 million | outcomes and readiness; attempts settle and waiters wake |
| `reindex` | 2 files, 2 good contents, 2 edits, 1 fault, both passes | 4.3 million | detection, convergence, tombstones, unread directories |
| `dispatcher` | 3 writes, 2 tool calls or none, a drain, a close | 2.0 million | one call is one commit; a close leaves nothing; `KeepsPromise`, the refinement |
| `git` | 2 writes, loop, one git_sync, 1 change of another clone, 1 leftover, 1 sibling, 1 fault, fair threads | 0.31 million | merges over committed writes; pushes pending; shutdown; no pause lasts; writes reach origin |
| `head` | 1 external change, loop, a webhook, 3 HEADs, 1 fault, fair threads | 0.87 million | nothing is passed over; HEAD reaches the index |
| `documents` | 4 paths in 2 folders, 2 clients, 2 operations, 1 edit or error | 2.3 million | no lost update; links follow; every change is told |
| `slot` | 2 searches, writer, another process, 2 jobs, 1 mishap, fair threads | 0.28 million | only damage is moved aside; stores are closed; searches return |
| `embeddings` | 2 vaults, 2 notes, 1 edit or forced build, 2 mishaps | 0.77 million | stale is owed; no work is lost; at rest all is caught up |

The runs take from ten seconds to about three and a half minutes each.

### Bounds, and why they are enough

- Futures: each job takes one. `pipeline` has enough for every job two writes, one
  refresh call and their follow-up flushes can submit; a submit that finds none
  left is disabled, which only cuts the end of a behaviour.
- Two notes are the least for which one can fail and the other not, or one be
  marked while the other is processed. Two writes let the second fall anywhere in
  the job for the first. A third content adds nothing, since the actions only
  compare contents. In `pipeline_close` one of two contents does not parse, so that a
  note breaks, is mended, or breaks again; its notes parse at first (`FairFromGood`). The
  other runs of the pipeline have `Broken = {}`.
- Two attempts give every order of an older and a newer build.
- Three writes and two calls are the least for which one call has two writes with
  another's between, or one on each side of a drain.
- In `git`, a write and a change of another clone give a history to rebase, the
  second write a commit during the pull, the push or the shutdown; the leftover is a
  commit no schedule_push knows of; one fault is any failure of network, git, thread
  or timeout, at any place.
- Three HEADs let an own commit sit on an external one and HEAD move during the
  reindex for it.
- Two clients with two operations are every pair of operations that cross; the
  folder holds both ends of a link, so a link's source can move with its target.
- Two searches meet one corrupt file together; two jobs let a flush or a forced build
  come before and after the rebuild a search asks for. `MaxStores = 5` is more than
  can be referred to at a time.
- Two vaults are the two sides of a lease; `Bulk = 2` makes two re-tokens a
  generation. A larger instance with 2 requests and 1 mishap (3.8 million states)
  was checked as well and holds.
- `MaxFaults`, `MaxBadScans`, `MaxMishaps` bound failures, crashes, lost leases and failed reads;
  `MaxEdits`, `MaxRequests`, `MaxOps` changes of files. Two faults allow a failure
  and then a failure of its recovery.
- Symmetry: notes, contents, scopes, clients and vaults may be permuted where nothing
  orders them. No run with a liveness property uses symmetry.

### Fairness

- `WriterFairness` is weak fairness of the worker thread's steps and of the end of a
  running job: the thread is started once and its loop has no condition for pausing
  but an empty queue, and runners are calls that return. A close in progress goes on.
  Submits, cancels, writes, edits, faults and the deadline of a wait are never fair.
- `PipelineFairness`: a tool that wrote a file goes on to mark it, since nothing lies
  between but assignments. `FairBuildSpec`: threads inside `submit` and callbacks go on;
  the lock is always released by such a step.
- `FairGitSpec`: some thread that can run does (`Progress`); the callback gets the
  strategy lock in the end although pulls come again and again, and the loop gets the
  file lock and ticks on (SF: both are plain locks the other side gives back). Nobody
  has to call git_sync, to shut down, or to push from another clone; faults are not fair.
- `FairHeadSpec`: startup, writer, each reconcile that has begun and the report of an own
  commit go on and the loop ticks. SF of a ReadHead that succeeds: git can tell the HEAD again and again, not
  necessarily every time.
- `FairSlotSpec`: a search that has begun and the writer's job go on; whoever waits
  for the recovery lock obtains it (SF), because others hold it for finitely many
  steps; the writer takes queued rebuilds. New searches, damage and other processes
  are not fair.

`WritesReachSearch` and `WritesReachOrigin` make exceptions, each a thing the code
does: a closed writer or a shutdown, a failed job or commit (its paths wait for the
next one), and vectors kept or left to a retry that no job is queued for. For the
embedding reconciler, liveness over two processes was too large for TLC;
`QuietMeansCaughtUp` states its safety part, what holds when nothing is left to do
and that a note waits only where a flush failed.

## 4. Proofs

Eight modules hold theorems, each of one component or of two that belong together. Each has an
inductive invariant, of which TLC checked every conjunct on a small instance before it was
proved, lemmas that say what the parts of an action do, and a lemma per action or per
conjunct. All are for every value of the constants: any number of Futures, notes,
files, contents, writes, calls, HEADs, clients, stores, attempts, faults.

**`IndexWriterProofs`**, from `WriterAssumption` (the sentinel is not a Future, `None` is
neither a Future nor a kind): `WriterTypeInvariant`, `WriterInvariant`,
`WriterLeavesNoOrphan`, `CloseTrueHolds`. `NoOrphanFuture` is not inductive: it speaks
only of the exited worker and says nothing of how a Future got there. `WriterInv` adds

- `PendingIsHeld`: a pending Future is in the queue, held by the worker, or among
  the drained ones the crash has yet to cancel;
- `RunningIsHeld`: a running Future is the one the worker holds;
- `WorkerHolds`: what state the held Future may have at each place of the worker;
- `ShutdownOrder`: the sentinel, the crash and every close imply `closed`; an
  aborting or exited worker has no Future in its queue, and nobody can put one
  there, because external submits are refused once closed and the worker's own
  once crashed; a close answers True only after the exit.

The exit then leaves no place for a pending Future. The last conjuncts are where
the code's order matters: `_abort_pending` sets `closed` and `crashed` under the
same lock under which it empties the queue.

**`IndexPipelineProofs`, the pipeline**, from the same and `PipelineAssumption`.
`WriterMoves` shows that each step of the pipeline is a step of the writer or leaves it
alone, so that `WriterInv` holds here as well (`PipelineRunsOnWriter`). On it rest
`StaleIsCoveredHolds`, `RefreshIsABarrierHolds` and `CleanCloseHolds`. `StaleIsCovered`
is not inductive, since when a runner reaches its `finally` block the snapshot stops
counting, and what is left to cover the paths in it is what the runner did to them.
`CoverInv` adds

- `JobInPlace`: which of the runner's local sets are empty at which line, and how its
  body has ended there; `CrashIsFinal`: an interrupted job is the last;
- `RowsAreAhead`: what a running refresh has upserted, and what it has read and not yet
  upserted, is what the file says, or the path is marked again. This is where marking
  *after* the write matters: a write that overtakes a read marks its path later than the
  refresh drained it;
- `VectorsAreAhead`: what a running flush is done with matches its row or is in one of
  the sets of its failures.

`BarrierInv` compares rows with `since`, the contents each file has had since the call
began: before the call's refresh runs, a row from before is marked or in the snapshot
of a refresh that will put it back if it fails (`RefreshWillSee`); while it runs, what
it is past is in time (`RefreshSees`); its end without an exception is the only way
for the call to return (`RefreshSaw`). `CleanInv` says that, as long as nothing has
failed, every mark has a queued job that no later call cancels, or a tool that is about to
submit one or found the writer closed; `WriterLeavesNoOrphan` leaves no such job at the
exit, hence no mark.

**`IndexPipelineProofs`, the status**: `StatusRunsOnPipeline`, `StatusInvariant` and
`ReportsAreRightHolds`. A reader evaluates its operands one at a time, so `StatusInv` says
at each of its places what a row that is still old must be in by then: `SeenHasNow` and
`RowsAreHeld` relate rows to what the files have held since the call began, `HeldIsAccepted`
and `JobIsShown` what the writer has in hand to the counts it shows, `CallWillSee`,
`BetweenJobs` and `NothingLeft` carry it from one operand to the next. Only the two
windows named in the property, a job that begins or ends between two operands, break the
chain.

**`BuildLifecycleProofs`**, from `WriterAssumption` and `BuildAssumption`:
`BuildRunsOnWriter`, `BuildInvariant`, `LatestDecidesHolds`, `PublicMatchesOutcomeHolds`,
`ProceedNeedsSuccessHolds`, `FinishedIsNotBuildingHolds`, and the action property
`OutcomesStand`. `BuildInv` gives the order of the steps under the scheduling lock
(`LockInPlace`), follows attempts and their two Futures (`CommandsAreKnown`,
`OutcomesInPlace`, `LiveIsListed`, `NewestLast`), and says what verdict, event and
completion marker are at each of those steps (`VerdictInPlace`, `BuiltIsAtRest`,
`ReadersInPlace`). Why a waiter that proceeds finds a built index: a success is published
only by the latest attempt, whose command is the last on the queue, so every other attempt
that has returned has ended, and nothing clears the marker while the gate is open.

**`ReindexProofs`, the passes**, from `ReindexAssumption`: `ReindexInvariant`,
`ReindexTypeInvariant`, `StaleIsNoticedHolds`, `SecondReindexCatchesUpHolds`,
`TombstonesAreListedHolds`, and the action property `UnreadKeepsRowHolds`. `ReindexInv` has
the shape of a pass at each of its steps (`PassInPlace`, `BuildRows`), what an unread
directory hides (`UnreadIsLeft`, `HiddenIsListed`), and

- `TrackerTells`: a row that no write since the last save accounts for is what the tracker
  on disk says, or is to be parsed again; hence a difference between row and file is one
  the next scan sees;
- `CalmAtRest`, `CalmReindex`, `CalmBuild`: in a pass without edit, fault or restart a row
  that is out of date is on the list of the step in progress, or is a skip carried into
  the tracker; a second pass has no such skip, since the first one evaluated it.

**`ReindexProofs`, the reconciler of HEAD**, from `JobsDiffer` and `BoundsAreCounted`: `HeadInvariant` and
`NothingPassedOverHolds`. `HeadInv` follows a HEAD that a reconcile has read through
queue and scan to the record: `HeadsGrow` (a later HEAD holds what an earlier one
held), `ReportAddsNothing` (the commit about to be reported adds no external change),
`JobsInPlace` (whose reindex the job is), `ScanCovers` (a scan that began after
the HEAD was read sees all of it), `KnownCovers` (so do the record and what is about to
be recorded), `DeferredCovers` (a deferral answers for a boot reindex still queued).

**`GitSyncProofs`, the dispatcher**, from `WritesAreCounted` and `ItemsDiffer`:
`DispatcherInvariant`, `CloseLeavesNothingHolds`, `OneCallOneCommitHolds`, and
`DispatcherKeepsPromise`, the refinement: initial states map to initial states, and
each step is `Accept`, `Hand`, `Ask`, `Answer` or `BeginClose` of `CommitPromise` or a
stutter. `DispatcherInv` says where every accepted write is (`AcceptedIsHeld`), that
what is buffered is older than what is queued (`BuffersAreOlder`, `QueueInOrder`), that
an open call's end is still to come (`OpenIsBuffered`), and what a drain's marker and
the close have before them (`MarkersInOrder`, `ShutInOrder`). That a drain flushes the
buffers of calls still open is what makes its answer true; that it splits them is
what `OneCallOneCommit` names as the exception.

**`GitSyncProofs`, the strategy**, from `PullersDrain`, `CommitsDiffer` and
`FaultsAreCounted` as well: `GitInvariant`, `MergeFindsWritesCommittedHolds`,
`UnpushedIsPendingHolds`, `ShutdownLeavesNothingUnsaidHolds`. Every git step is a step of the
dispatcher or leaves it alone, so `DispatcherInv` comes along. Over it, `PushInv` says
what pushes and fetches leave (`FetchedIsRemote`, `UnpushedIsPending`,
`WritesAreScheduled`, `LastPushSays`: after each, the local history is on origin or a push
is pending), and `PauseInv` where a write without a commit can be (`ClosedInOrder`,
`DirtyIsTold`, `DrainedIsDone`, `HandIsHanded`, `PausedIsSeen`). A merge is safe because
nothing is accepted while the pull holds the file lock, and the event it waited for is set
only when the worker is done with everything before it.

**`DocumentsProofs`**, from `NotContents`, `NotesAreContents`, `BoundsAreNat` and
`FolderMovesAway`: `DocInvariant`, `DocTypeInvariant`, `LinksFollowHolds`,
`EveryChangeIsToldHolds`, and the action property `NoLostUpdateHolds`. In `DocInv`,
`LockIsHeld` and `MovesAway` say where the holder of the file lock is and what it has moved,
`CheckedStands` that what an operation has checked is what it replaces save for editors,
`RowsTold` and `UnsaidIsHeld` that a file that differs from its row or has not been announced
is in the hands of the client that changed it, `BackKept` and `LinksWillFollow` that a link
the refresh knew is still in the list of rewrites when its turn comes, `LedgerKept` that
each content traces back to what it replaced. `NoLostUpdate` speaks of that whole chain;
the proof takes a least counterexample (`WFMin` of the library, which has no operator
parameter) in place of an induction.

**`VectorSlotProofs`**, from `StoresAreCounted`, `WriterIsNoReader` and `NoneIsNoThread`:
`SlotInvariant`, `StoresAreClosedHolds` and, with `Late = FALSE`, `OnlyDamageMovesAsideHolds`
(with `Late = TRUE` it is false, see section 5). `SlotInv` holds either way: `OpenIsHeld`
(the open stores are the slot's one), `LocksInPlace` (over a swap the writer thread has the
lock and a share of the writer lock, and the slot is empty), `OutsideAlone` (another process
writes over an empty slot). `DamageInv` adds `CorruptIsFound` (files that do not open are
never made, so nothing has been opened over them, and who is about to rename them under
the recovery lock found them so under it) and `SuspectIsDamaged` (the files of an
installed store are replaced by no one else, and a new store object is neither suspected
nor being read, so what is condemned is what was found damaged, unless it was damaged
after the last look at it: `Condemnable`).

**`EmbeddingReconcilerProofs`**, from `SomeVault`, `NoneIsNothing` and
`NotesAreNumbers`: `EmbedInvariant`, `StaleIsOwedHolds`, `NoWorkIsLostHolds`,
`QuietMeansCaughtUpHolds`. A pass reads everything at its begin and writes minutes later, so
`EmbedInv` speaks of notes no other vault has written since (`fresh`):

- `AllInHand`: such a note is on one list of the pass at most, the store still has what
  the pass read of it, and a write being sent leaves it as it is or as the keyword
  index wants it;
- `LimboIsOwed`, `LimboTakes`: what a transaction whose outcome is unknown would leave is
  what some keyword index asks for, or is a note somebody will look at again;
- `SomeoneHeeds`: for each note a vault will look at it again, or its vectors are what
  the keyword index of some vault asks for. This is more than `StaleIsOwed`: a pass that
  another vault has overtaken does not count, since its write will be sent back;
- `Alone`: until a lease or a client ends early, one vault at a time has the store open and
  nothing is written beside its pass; so nothing can be taken. `TakingIsKnown`: after
  that, only in the two ways the property names;
- `DirtyIsQueued`: a note that waits has a flush queued, or one has failed.

Only model-checked: every liveness property (`EveryFutureSettles`, `ShutdownEnds`,
`WritesReachSearch`, `BuildsSettleAndWake`, `PausesEnd`, `WritesReachOrigin`,
`HeadReachesIndex`, `SearchesReturn`), since liveness under fairness and ENABLED are outside
what the prover handles. Where a property needed the value of a recursive definition for every
input, it would be out of reach too; no module with a theorem has one.

## 5. Where the code differs from what it says

The properties of section 3 name these exceptions (`overlapped`, `slipped`, `Stuck`,
`late`, `kept`, `Excuse`, ...) and hold otherwise. Where a configuration is named, TLC
stops at a counterexample with it.

1. `MCIndexStatusTorn.cfg` (`ZeroStatusMeansCaughtUp`): an all-zero status while a job
   has just drained a marked path. `get_status` takes three locks in turn, and the
   worker starts a job between them (`indexing/index_writer.py:266`).
   `docs/reference/tools/indexing.md:131-133` says writes "have caught up once status is
   "queryable", queue_depth is 0, in_flight is None, and dirty_paths and
   dirty_embeddings are both 0".
2. `MCIndexStatusSlip.cfg` (`UnstaleAnswerIsFresh`): `index_stale` false for an old
   answer, when a job ends between the comparison of generations and `is_drained`
   (`_tools/_common.py:262`). Reading the generation after `is_drained` would close it.
3. `MCBuildLifecycleWait.cfg` (`NeverBuiltMeansNeverScheduled`): `never_built` for a
   build that is being scheduled (`indexing/readiness.py:65`);
   `indexing/coordinator.py:176-179` says it means "no build was ever scheduled".
   Clearing the event before the verdict would turn it into a wait.
4. `MCReindexOnce.cfg` (`ReindexCatchesUp`): a note written through the server and
   reverted outside it to its tracked content is "unchanged" (`tracker.py:230`); the
   second reindex repairs it (`SecondReindexCatchesUp`).
5. `MCReindexSkips.cfg` (`SkipsWereEvaluated`): a note whose read failed once in a
   build's scan is recorded as skipped with its good content and stays unindexed until
   it changes again (`managers/index.py:677`). `scanner.py:2147-2149` says a
   possibly-transient error "returns None - callers must record nothing for it, so the
   file retries on the next scan (#775)". With `MaxFaults = 0` a file created or fixed
   between the scan and the hash of its skip does the same.
6. `MCVectorSlotLate.cfg` (`OnlyDamageMovesAside` with `Late = TRUE`): a recovery can
   move a store aside that another process has repaired after this one reopened it,
   or that the writer has just published (`managers/_vector_slot.py:278-281`).
7. `MCEmbeddingReconcilerLapse.cfg` (`LeaseIsNotTheOnlyGuard`): a vault dies with the
   transaction of its last generation unsettled, the lease lapses, and the next
   vault's cold build and that transaction each replace what the other wrote.
   `stores/_postgres_lease.py:18-19` says "Every write is also row-locked and
   token-conditional"; a cold build replaces unconditionally. Nor is the token enough for
   a write that is conditional: `_retoken` reads the rows again but keeps the token its
   pass began with (`indexing/embedding_reconciler.py:521-560`). With three edits and two
   lost leases a note goes from one content to another and back, the token comes back with
   it, and the write replaces rows its pass never saw. `NoWorkIsLost` names both ways;
   an earlier form of it without the second held in the run's bounds, and the proof
   showed it to be false beyond them.

Statements written beside the models, to be tried with any configuration of theirs:

- `EndLandsBehindItsWrites` (`WriteDispatcher`): `_commit_scope.py:104-108` says "the
  queue's FIFO order already guarantees the end marker lands behind every write this
  call fired". A cancelled call's thread fires after the end: such a write opens the
  scope again, to be flushed by the next drain or close. Nor does an end that is lost
  degrade "to per-file commits" (`_commit_scope.py:161`): the writes it should have closed
  stay in their buffer until the next drain or close, and are committed together then.
- `StartPushesLeftovers` (`GitSync`): `git/strategy.py:120-121` says "On startup, any
  unpushed local commits … are pushed immediately"; they are with the first write.
- `DeferredIsCovered` and `RecordNeedsFullScan` (`HeadReconciler`): `_tools/git.py:150-151`
  tells a caller whose reconcile was deferred that a queued reindex picks the change up,
  which fails when that reindex does; `indexing/head_reconciler.py:12-13` says the record
  "advances only on a reindex that completed", where completed covers one that skipped
  an unreadable file.
- `FailedRebuildNeverShrinks` (`EmbeddingReconciler`): "a failed rebuild never shrinks a
  working store" holds for a store populated when the rebuild *began*;
  `populated = store.count > 0` is read before minutes of embedding
  (`indexing/embedding_reconciler.py:614-617`).

Seen while reading, and modelled as the code has it:

- `rename` refreshes the index before it takes the file lock, so a link written in
  between keeps the old target (`managers/document.py:1244-1246`; `LinksFollow` speaks of
  links the refresh could know).
- One read of the tracker's file that fails at the end of a pass drops every tombstone
  (`managers/index.py:409-414`, `tracker.py:480-529`); an unchanged file gets its own back
  only from a build. One that fails at the beginning of a reindex makes every file new and
  the deletions unseen, as `outcome=all_added` says.
- A new file is in place when its mode is set; if that fails the call raises over a
  note that is written, but neither marked nor announced
  (`managers/_write_kernel.py:130-134`). A link rewrite whose source was removed since
  its read can end so too, and is counted as failed.
- A page damaged after `verify` and found by a search before the generation is written: the
  generation may mend it in place, and the condemnation that the search asked for then
  moves the healthy store aside and builds it again. Damage to rows only is not seen by
  the look a fresh store takes, and is emptied in place. `OnlyDamageMovesAside` leaves both
  out (`stores/sqlite_vectors.py:547-564`, 1150-1156).
- A rename of a note that turns out not to decode has moved the file when it raises: the
  change is neither marked nor announced. `move_folder` that raises half-way has
  dispatched some of its moves.
- With the boot reindex off, a pull that finds the index busy records its HEAD as
  reconciled (`domain.py:362-366`).
- A note kept because its source could not be probed is not retried, nor is a
  transaction that lands after a later pass has read the store, until the next build.
- A re-token of 64 documents or more checks no token, being "safe for a store with one
  writer per location"; PostgreSQL stores, which have several, use it too.

## 6. Not modelled

- Search, ranking, summaries, link graph, OKF, tools, CLI, configuration, transfer,
  providers: pure functions of their inputs, presentation, or calls to services. The
  donor of embeddings is a cache consulted inside the embed step.
- The stores' own persistence: an operation of a store is one step. The debounce timer
  of the file watcher, which ends in the reindex requests that are modelled.
- In the pipeline, the jobs over the whole vault; in the passes, exclusion
  patterns, vectors and links. `wait_for_drain` is a loop of the `is_drained` that
  `IndexStatus` models. `start_once`, `use_existing_index`, raw `BuildIndex` jobs and
  transitions of `ReadinessState` that nothing calls.
- Documents: relative links inside the moved note, attachments, submodules,
  `allow_overwrite`, the OKF hook, files other than notes that appear in a folder while
  it is deleted.
- Git: messages, credentials, LFS, path scoping, the first clone. Head: how offline
  changes are computed, the scan itself (`Reindex` has it).
- Slot: a query of another dimension, injected stores, imports. Embeddings: exclusions,
  tombstones, reuse of chunks, imports, a change of model, leases shared by two
  holders in one process, the local stores (one process, covered by `VectorSlot`).

## 7. Plan

Done: the modules and proofs above. Left, in order of worth:

1. Abstract specifications of the build's publication (one verdict, replaced atomically
   by the latest attempt) and of the pipeline (a row is a past content of its file and
   moves forward), with refinements from `BuildLifecycle` and `IndexPipeline`.
2. The debounced watcher and `offline_changes`; the whole of `vault.close` over the
   writer, the slot and the dispatcher at once.
