----------------------------- MODULE IndexPipeline -----------------------------
(***************************************************************************)
(* What the writer's jobs do: a note written through the server is marked  *)
(* dirty, refreshed in the keyword index by ProcessDirtyPaths, marked      *)
(* again and re-embedded by FlushDirtyEmbeddings (the runners and dirty    *)
(* sets of indexing/index_writer.py, mark_paths_dirty and                  *)
(* prepare_index_read of indexing/coordinator.py, the per-path loops of    *)
(* managers/index.py and managers/embeddings.py).                          *)
(*                                                                         *)
(* A note is its content; a row and a vector are the content they were     *)
(* made from, and the row of a broken content is a tombstone.  The queue,  *)
(* the Futures and the worker loop are IndexWriter's and every step below  *)
(* that moves them is one of its actions.  The jobs that scan the whole    *)
(* vault (build_index, reindex_all, build_embeddings) are not submitted    *)
(* here.                                                                   *)
(***************************************************************************)
EXTENDS IndexWriter

CONSTANTS
  Path,       \* the notes
  Content,    \* what a note can say
  Broken,     \* contents that do not parse or lack required frontmatter
  Absent,     \* no file, no row, no vector
  MaxEdits,   \* bound: writes of notes in a behaviour
  MaxFaults   \* bound: failures of jobs in a behaviour

Pdp   == "process_dirty_paths"
Flush == "flush_dirty_embeddings"

ASSUME PipelineAssumption ==
  /\ {Pdp, Flush} \subseteq Kind
  /\ Absent \notin Content /\ Broken \subseteq Content
  /\ None \notin Path
  /\ MaxEdits \in Nat /\ MaxFaults \in Nat

VARIABLES
  disk,             \* the content of each file
  fts,              \* the content each keyword row holds
  vec,              \* the content each path's vectors were made from
  dirtyPaths, dirtyEmbeddings, retryEmbeddings,   \* the sets under _dirty_lock
  edit,             \* the write holding _file_write_lock: its path and how far it is
  edits, faults,    \* how many writes and failures there have been
  step,             \* where the running job is
  outcome,          \* how its body ended: ok, raised, interrupted
  snapshot,         \* the set the job drained
  todo,             \* what of it is not processed yet
  reading,          \* the note being refreshed and the content parsed from it
  refreshed,        \* rows the job refreshed (the runner's local set)
  conflicts, retries,  \* EmbeddingsManager._conflicts and _retries
  refresh,          \* prepare_index_read: where the caller is, and its Future
  since,            \* history: contents each file has had since that call began
  late,             \* history: notes whose mark found the writer closed
  kept              \* history: vectors a flush kept without requeueing the path

dataVars == <<disk, fts, vec, edit, edits, faults, late, kept>>
dirtyVars == <<dirtyPaths, dirtyEmbeddings, retryEmbeddings>>
jobVars == <<step, outcome, snapshot, todo, reading, refreshed, conflicts, retries>>
refreshVars == <<refresh, since>>
pipelineVars == <<writerVars, dataVars, dirtyVars, jobVars, refreshVars>>

Stored == Content \cup {Absent}
NoEdit == [path |-> None, at |-> "none"]
NoRead == [path |-> None, text |-> Absent]
NoRefresh == [at |-> "idle", future |-> None]

PipelineTypeOK ==
  /\ WriterTypeOK
  /\ disk \in [Path -> Stored]
  /\ fts \in [Path -> Stored]
  /\ vec \in [Path -> Stored \ Broken]
  /\ dirtyPaths \subseteq Path
  /\ dirtyEmbeddings \subseteq Path
  /\ retryEmbeddings \subseteq Path
  /\ edit \in [path : Path \cup {None}, at : {"none", "written", "marked"}]
  /\ edits \in 0..MaxEdits
  /\ faults \in 0..MaxFaults
  /\ step \in {"none", "drain", "loop", "last", "except", "finally", "submit", "settle"}
  /\ outcome \in {"ok", "raised", "interrupted"}
  /\ snapshot \subseteq Path /\ todo \subseteq snapshot
  /\ reading \in [path : Path \cup {None}, text : Stored]
  /\ refreshed \subseteq Path
  /\ conflicts \subseteq Path /\ retries \subseteq Path
  /\ refresh \in [at : {"idle", "waiting", "returned", "raised"},
                  future : Future \cup {None}]
  /\ since \in [Path -> SUBSET Stored]
  /\ late \subseteq Path /\ kept \subseteq Path
  /\ step = "none" <=> pc # "running"

(* A vault whose boot build, reindex and embedding build have completed:   *)
(* rows and vectors mirror the files, a tombstoned note has the vectors of *)
(* its last good content, and the vector store is open.                    *)
PipelineInit ==
  /\ WriterInit
  /\ disk \in [Path -> Stored] /\ fts = disk
  /\ vec \in [Path -> Stored \ Broken]
  /\ \A p \in Path : disk[p] \notin Broken => vec[p] = disk[p]
  /\ dirtyPaths = {} /\ dirtyEmbeddings = {} /\ retryEmbeddings = {}
  /\ edit = NoEdit /\ edits = 0 /\ faults = 0
  /\ step = "none" /\ outcome = "ok"
  /\ snapshot = {} /\ todo = {} /\ reading = NoRead
  /\ refreshed = {} /\ conflicts = {} /\ retries = {}
  /\ refresh = NoRefresh
  /\ since = [p \in Path |-> {}]
  /\ late = {} /\ kept = {}

(* The Future the next submit() creates.                                   *)
Spare == {f \in Future : state[f] = "free"}
Fresh == CHOOSE f \in Spare : TRUE

-----------------------------------------------------------------------------
(* A write through the server, under _file_write_lock: the file changes,   *)
(* then mark_paths_dirty marks it and submits, unless the writer is closed *)
(* (seen before the submit or by its RuntimeError): the mark stays.        *)

WriteNote(p, text) ==
  /\ edit = NoEdit /\ edits < MaxEdits
  /\ text # disk[p]
  /\ disk' = [disk EXCEPT ![p] = text]
  /\ edit' = [path |-> p, at |-> "written"]
  /\ edits' = edits + 1
  /\ since' = [since EXCEPT ![p] = @ \cup {text}]
  /\ UNCHANGED <<writerVars, fts, vec, faults, late, kept, dirtyVars, jobVars, refresh>>

MarkNote ==
  /\ edit.at = "written"
  /\ dirtyPaths' = dirtyPaths \cup {edit.path}
  /\ edit' = [edit EXCEPT !.at = "marked"]
  /\ UNCHANGED <<writerVars, disk, fts, vec, edits, faults, late, kept,
                 dirtyEmbeddings, retryEmbeddings, jobVars, refreshVars>>

SubmitMarked ==
  /\ edit.at = "marked"
  /\ IF closed THEN late' = late \cup {edit.path} /\ UNCHANGED writerVars
               ELSE Spare # {} /\ SubmitExternal(Fresh, Pdp) /\ UNCHANGED late
  /\ edit' = NoEdit
  /\ UNCHANGED <<disk, fts, vec, edits, faults, kept, dirtyVars, jobVars, refreshVars>>

-----------------------------------------------------------------------------
(* prepare_index_read: queue a refresh and wait for its Future, or cancel  *)
(* it when the budget is spent.  One call is made.                         *)

RefreshBegin ==
  /\ refresh.at = "idle"
  /\ ~closed /\ Spare # {} /\ SubmitExternal(Fresh, Pdp)
  /\ refresh' = [at |-> "waiting", future |-> Fresh]
  /\ since' = [p \in Path |-> IF edit = [path |-> p, at |-> "written"]
                                THEN Stored ELSE {disk[p]}]
  /\ UNCHANGED <<dataVars, dirtyVars, jobVars>>

(* A slip: the wait for the refresh ignores how it ended.                  *)
RefreshReturnsAnyway ==
  /\ refresh.at = "waiting"
  /\ state[refresh.future] \in Settled
  /\ refresh' = [refresh EXCEPT !.at = "returned"]
  /\ UNCHANGED <<writerVars, dataVars, dirtyVars, jobVars, since>>

RefreshReturns ==
  /\ refresh.at = "waiting"
  /\ state[refresh.future] \in Settled
  /\ refresh' = [refresh EXCEPT !.at = IF state[refresh.future] = "done"
                                         THEN "returned" ELSE "raised"]
  /\ UNCHANGED <<writerVars, dataVars, dirtyVars, jobVars, since>>

RefreshTimesOut ==
  /\ refresh.at = "waiting"
  /\ IF state[refresh.future] = "pending" THEN Cancel(refresh.future)
                                          ELSE UNCHANGED writerVars
  /\ refresh' = [refresh EXCEPT !.at = "raised"]
  /\ UNCHANGED <<dataVars, dirtyVars, jobVars, since>>

-----------------------------------------------------------------------------
(* The worker's loop around a job is IndexWriter's; a job that starts runs *)
(* its runner from the top, and the runner's end settles the Future.       *)

LoopStep ==
  /\ \/ Pop \/ Exit \/ Claim \/ Skip \/ Release \/ Abort \/ Die
     \/ \E f \in Future : CancelDoomed(f)
  /\ UNCHANGED <<dataVars, dirtyVars, jobVars, refreshVars>>

StartJob ==
  /\ Start
  /\ step' = "drain" /\ outcome' = "ok"
  /\ UNCHANGED <<dataVars, dirtyVars, refreshVars, snapshot, todo, reading,
                 refreshed, conflicts, retries>>

FinishJob ==
  /\ step = "settle"
  /\ \/ outcome = "ok" /\ Settle("done")
     \/ outcome = "raised" /\ Settle("failed")
     \/ outcome = "interrupted" /\ Interrupt
  /\ step' = "none"
  /\ snapshot' = {} /\ todo' = {} /\ reading' = NoRead
  /\ UNCHANGED <<dataVars, dirtyVars, refreshVars, outcome, refreshed, conflicts,
                 retries>>

(* drain_dirty_paths and drain_dirty_embeddings: snapshot and clear.       *)
DrainPaths ==
  /\ step = "drain" /\ kind[cur] = Pdp
  /\ snapshot' = dirtyPaths /\ todo' = dirtyPaths
  /\ dirtyPaths' = {}
  /\ step' = "loop"
  /\ UNCHANGED <<writerVars, dataVars, dirtyEmbeddings, retryEmbeddings, refreshVars,
                 outcome, reading, refreshed, conflicts, retries>>

DrainEmbeddings ==
  /\ step = "drain" /\ kind[cur] = Flush
  /\ snapshot' = dirtyEmbeddings \cup retryEmbeddings /\ todo' = snapshot'
  /\ dirtyEmbeddings' = {} /\ retryEmbeddings' = {}
  /\ step' = "loop"
  /\ UNCHANGED <<writerVars, dataVars, dirtyPaths, refreshVars, outcome, reading,
                 refreshed, conflicts, retries>>

-----------------------------------------------------------------------------
(* process_dirty_paths: each note is read and parsed, then its row, or its *)
(* tombstone, is replaced; another write may come between.                 *)

ReadNote(p) ==
  /\ step = "loop" /\ kind[cur] = Pdp
  /\ p \in todo /\ reading = NoRead
  /\ reading' = [path |-> p, text |-> disk[p]]
  /\ UNCHANGED <<writerVars, dataVars, dirtyVars, refreshVars, step, outcome,
                 snapshot, todo, refreshed, conflicts, retries>>

UpsertNote ==
  /\ step = "loop" /\ reading # NoRead
  /\ fts' = [fts EXCEPT ![reading.path] = reading.text]
  /\ refreshed' = refreshed \cup {reading.path}
  /\ todo' = todo \ {reading.path}
  /\ reading' = NoRead
  /\ UNCHANGED <<writerVars, disk, vec, edit, edits, faults, late, kept, dirtyVars,
                 refreshVars, step, outcome, snapshot, conflicts, retries>>

(* An unreadable note keeps its row; the loop goes on to the others and    *)
(* the job fails at its end.                                               *)
ReadFails(p) ==
  /\ step = "loop" /\ kind[cur] = Pdp
  /\ p \in todo /\ reading = NoRead
  /\ faults < MaxFaults /\ faults' = faults + 1
  /\ todo' = todo \ {p}
  /\ outcome' = "raised"
  /\ UNCHANGED <<writerVars, disk, fts, vec, edit, edits, late, kept, dirtyVars,
                 refreshVars, step, snapshot, reading, refreshed, conflicts, retries>>

-----------------------------------------------------------------------------
(* flush_dirty_embeddings: each path's vectors are replaced by what its    *)
(* keyword row says.  A tombstoned note keeps its vectors; those of a note *)
(* without a row go only if the probe finds no file either.                *)

Tombstoned(p) == fts[p] \in Broken

Embed(p) ==
  /\ step = "loop" /\ kind[cur] = Flush /\ p \in todo
  /\ IF Tombstoned(p) \/ (fts[p] = Absent /\ disk[p] # Absent)
       THEN UNCHANGED <<vec, kept>>
       ELSE vec' = [vec EXCEPT ![p] = fts[p]] /\ kept' = kept \ {p}
  /\ todo' = todo \ {p}
  /\ UNCHANGED <<writerVars, disk, fts, edit, edits, faults, late, dirtyVars,
                 refreshVars, step, outcome, snapshot, reading, refreshed, conflicts,
                 retries>>

(* The failures that cost one path and not the pass: another writer of the *)
(* store changed its vectors (whatever they are now), the provider or the  *)
(* store failed, or the vector was refused or the source could not be      *)
(* probed; the last two keep the vectors and requeue nothing.              *)
EmbedFails(p) ==
  /\ step = "loop" /\ kind[cur] = Flush /\ p \in todo /\ ~Tombstoned(p)
  /\ faults < MaxFaults /\ faults' = faults + 1
  /\ \/ /\ \E other \in Stored \ Broken : vec' = [vec EXCEPT ![p] = other]
        /\ conflicts' = conflicts \cup {p}
        /\ UNCHANGED <<retries, kept>>
     \/ retries' = retries \cup {p} /\ UNCHANGED <<vec, conflicts, kept>>
     \/ kept' = kept \cup {p} /\ UNCHANGED <<vec, conflicts, retries>>
  /\ todo' = todo \ {p}
  /\ UNCHANGED <<writerVars, disk, fts, edit, edits, late, dirtyVars, refreshVars,
                 step, outcome, snapshot, reading, refreshed>>

(* The reconcile pass is over and its result is merged; what remains is    *)
(* the graph of links (ProcessDirtyPaths) or the checkpoint (Flush).       *)
PassEnds ==
  /\ step = "loop" /\ todo = {}
  /\ step' = IF outcome = "raised" THEN "except" ELSE "last"
  /\ UNCHANGED <<writerVars, dataVars, dirtyVars, refreshVars, outcome, snapshot,
                 todo, reading, refreshed, conflicts, retries>>

LastCallReturns ==
  /\ step = "last"
  /\ step' = "finally"
  /\ UNCHANGED <<writerVars, dataVars, dirtyVars, refreshVars, outcome, snapshot,
                 todo, reading, refreshed, conflicts, retries>>

-----------------------------------------------------------------------------
(* How a runner ends early.  A flush that fails inside the pass loses the  *)
(* conflicts and retries the pass had found; one that fails at the         *)
(* checkpoint has already merged them.  An empty snapshot fails nothing:   *)
(* both runners return at once.                                            *)

DropPass ==
  IF step = "loop" THEN conflicts' = {} /\ retries' = {}
                   ELSE UNCHANGED <<conflicts, retries>>

Raise ==
  /\ step \in {"loop", "last"} /\ snapshot # {}
  /\ faults < MaxFaults /\ faults' = faults + 1
  /\ outcome' = "raised" /\ step' = "except"
  /\ DropPass
  /\ UNCHANGED <<writerVars, disk, fts, vec, edit, edits, late, kept, dirtyVars,
                 refreshVars, snapshot, todo, reading, refreshed>>

(* A BaseException passes the except block by; the finally block runs.     *)
InterruptRunner ==
  /\ step \in {"loop", "last"} /\ snapshot # {}
  /\ faults < MaxFaults /\ faults' = faults + 1
  /\ outcome' = "interrupted" /\ step' = "finally"
  /\ DropPass
  /\ UNCHANGED <<writerVars, disk, fts, vec, edit, edits, late, kept, dirtyVars,
                 refreshVars, snapshot, todo, reading, refreshed>>

(* A slip: only what the pass had not reached is dirty again.              *)
RestoreTodo ==
  /\ step = "except"
  /\ IF kind[cur] = Pdp
       THEN dirtyPaths' = dirtyPaths \cup todo /\ UNCHANGED dirtyEmbeddings
       ELSE dirtyEmbeddings' = dirtyEmbeddings \cup todo /\ UNCHANGED dirtyPaths
  /\ step' = "finally"
  /\ UNCHANGED <<writerVars, dataVars, retryEmbeddings, refreshVars, outcome,
                 snapshot, todo, reading, refreshed, conflicts, retries>>

(* The except block of either runner: the whole snapshot is dirty again,   *)
(* and no job is queued for it.                                            *)
RestoreSnapshot ==
  /\ step = "except"
  /\ IF kind[cur] = Pdp
       THEN dirtyPaths' = dirtyPaths \cup snapshot /\ UNCHANGED dirtyEmbeddings
       ELSE dirtyEmbeddings' = dirtyEmbeddings \cup snapshot /\ UNCHANGED dirtyPaths
  /\ step' = "finally"
  /\ UNCHANGED <<writerVars, dataVars, retryEmbeddings, refreshVars, outcome,
                 snapshot, todo, reading, refreshed, conflicts, retries>>

(* The finally block: refreshed rows, or conflicting vectors, are marked   *)
(* for a flush that is then submitted; retries wait for the next one.      *)
FollowUp == IF kind[cur] = Pdp THEN refreshed ELSE conflicts

MarkFollowUp ==
  /\ step = "finally"
  /\ dirtyEmbeddings' = dirtyEmbeddings \cup FollowUp
  /\ retryEmbeddings' = retryEmbeddings \cup retries
  /\ step' = IF FollowUp = {} THEN "settle" ELSE "submit"
  /\ refreshed' = {} /\ conflicts' = {} /\ retries' = {}
  /\ UNCHANGED <<writerVars, dataVars, dirtyPaths, refreshVars, outcome, snapshot,
                 todo, reading>>

(* A slip: conflicts are marked and wait for a flush nobody queues.        *)
SubmitFlushForRows ==
  /\ step = "submit"
  /\ IF kind[cur] = Pdp THEN Spare # {} /\ SubmitOnWorker(Fresh, Flush)
                        ELSE UNCHANGED writerVars
  /\ step' = "settle"
  /\ UNCHANGED <<dataVars, dirtyVars, refreshVars, outcome, snapshot, todo, reading,
                 refreshed, conflicts, retries>>

SubmitFlush ==
  /\ step = "submit"
  /\ Spare # {} /\ SubmitOnWorker(Fresh, Flush)
  /\ step' = "settle"
  /\ UNCHANGED <<dataVars, dirtyVars, refreshVars, outcome, snapshot, todo, reading,
                 refreshed, conflicts, retries>>

-----------------------------------------------------------------------------
(* close() of the vault closes the writer through the coordinator.         *)
CloseVault ==
  /\ \E c \in Closer : CloserStep(c)
  /\ UNCHANGED <<dataVars, dirtyVars, jobVars, refreshVars>>

RunnerStep ==
  \/ DrainPaths \/ DrainEmbeddings
  \/ \E p \in Path : ReadNote(p) \/ ReadFails(p) \/ Embed(p) \/ EmbedFails(p)
  \/ UpsertNote \/ PassEnds \/ LastCallReturns
  \/ Raise \/ InterruptRunner \/ RestoreSnapshot \/ MarkFollowUp \/ SubmitFlush

WorkerStep == LoopStep \/ StartJob \/ RunnerStep \/ FinishJob

WriteStep ==
  \/ \E p \in Path, text \in Stored : WriteNote(p, text)
  \/ MarkNote \/ SubmitMarked

RefreshStep == RefreshBegin \/ RefreshReturns \/ RefreshTimesOut

PipelineNext == WorkerStep \/ WriteStep \/ RefreshStep \/ CloseVault

PipelineSpec == PipelineInit /\ [][PipelineNext]_pipelineVars

(* The writer thread runs on and every call a job makes returns; a tool    *)
(* that wrote a file goes on to mark it.                                   *)
PipelineFairness ==
  /\ WF_pipelineVars(WorkerStep)
  /\ WF_pipelineVars(MarkNote \/ SubmitMarked)

-----------------------------------------------------------------------------
Crashing == crashed \/ pc = "crashing" \/ outcome = "interrupted"

(* What is on the way to the keyword index: marked, about to be, or in the *)
(* snapshot of the running refresh.                                        *)
KeywordPending ==
  dirtyPaths \cup (IF edit.at = "written" THEN {edit.path} ELSE {})
    \cup (IF step # "none" /\ kind[cur] = Pdp /\ step \in {"loop", "last", "except"}
           THEN snapshot ELSE {})

(* What is on the way to the vector index.                                 *)
VectorPending ==
  dirtyEmbeddings \cup retryEmbeddings \cup refreshed \cup conflicts \cup retries
    \cup (IF step # "none" /\ kind[cur] = Flush /\ step \in {"loop", "last", "except"}
           THEN snapshot ELSE {})

(* A keyword row that differs from its file is never forgotten: whatever   *)
(* interleaving of write, mark, drain, read and failure led there, some    *)
(* set still names the path (index_writer.py:456-460).                     *)
RowsCovered ==
  \A p \in Path : fts[p] # disk[p] => p \in KeywordPending

(* What the vectors have to match: a row that is not a tombstone.          *)
Matches(p) == vec[p] = fts[p] \/ Tombstoned(p)

(* The same for vectors: they match the row they were made from, or the    *)
(* path is dirty, waits for a retry, is being flushed, or still has its    *)
(* refresh to come (index_writer.py:405-423, 464-467, 482-489).            *)
VectorsCovered ==
  \A p \in Path :
     ~Matches(p) => p \in VectorPending \cup KeywordPending \cup kept

(* Nothing stale is forgotten in either index, unless the writer died.     *)
StaleIsCovered == ~Crashing => RowsCovered /\ VectorsCovered

(* A close() that drained without any failure leaves both indexes at what  *)
(* the files say, but for notes written while it was closing: the jobs it  *)
(* found queued, and the flushes those submitted after the close, all ran  *)
(* (index_writer.py:166-170, 189-193).                                     *)
CleanCloseLosesNothing ==
  (pc = "exited" /\ ~crashed /\ faults = 0) =>
    /\ dirtyEmbeddings = {}
    /\ \A p \in Path \ late : edit.path # p => fts[p] = disk[p]
    /\ \A p \in Path : Matches(p) \/ p \in KeywordPending

(* prepare_index_read that returned is a barrier for prior writes: every   *)
(* row holds a content its file has had since the call began, even when an *)
(* earlier refresh had failed (coordinator.py:240-247).                    *)
RefreshIsABarrier ==
  refresh.at = "returned" => \A p \in Path : fts[p] \in since[p]

(* Every write reaches both indexes and stays there, unless the writer is  *)
(* closed or died, a job failed, or the provider keeps refusing a note.    *)
WritesReachSearch ==
  \/ <>[](\A p \in Path : fts[p] = disk[p] /\ Matches(p))
  \/ <>(closed \/ \E f \in Future : state[f] = "failed")
  \/ <>[](retryEmbeddings \cup kept # {})

=============================================================================
