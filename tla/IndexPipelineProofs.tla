-------------------------- MODULE IndexPipelineProofs --------------------------
(***************************************************************************)
(* What is proved about IndexPipeline and about IndexStatus beside it, for *)
(* any set of notes, contents, Futures and close() calls and any number of *)
(* writes and faults.  The pipeline runs on the writer of IndexWriter;     *)
(* nothing stale is forgotten (StaleIsCovered); a refresh which returned   *)
(* is a barrier (RefreshIsABarrier); a close() which drained without a     *)
(* failure loses nothing (CleanCloseLosesNothing); and what a read tool    *)
(* reports of the freshness of its answer is right (ReportsAreRight).      *)
(***************************************************************************)
EXTENDS IndexStatus, IndexWriterProofs

(* What the running job is, and where: at work on its snapshot, or past it. *)
Runs(k) == step # "none" /\ kind[cur] = k
AtWork == step \in {"loop", "last"}

(* Paths a later refresh will take, whatever becomes of the running one.   *)
Marked == dirtyPaths \cup (IF edit.at = "written" THEN {edit.path} ELSE {})

(* Every job is one of the two, and the refresh waits for one of them.     *)
JobsAreKnown ==
  /\ \A f \in Future : state[f] # "free" => kind[f] \in {Pdp, Flush}
  /\ refresh.at # "idle" =>
       refresh.future \in Future /\ state[refresh.future] # "free" /\ kind[refresh.future] = Pdp

(* A write in progress is of a note.                                       *)
WriteInPlace == edit.at # "none" => edit.path \in Path

(* Which of the job's sets are still empty, or empty again, at each place. *)
JobInPlace ==
  /\ step \in {"none", "drain"} => snapshot = {} /\ reading = NoRead
  /\ step \in {"none", "drain", "submit", "settle"} =>
       refreshed = {} /\ conflicts = {} /\ retries = {}
  /\ Runs(Pdp) => conflicts = {} /\ retries = {}
  /\ Runs(Flush) => refreshed = {} /\ reading = NoRead
  /\ conflicts \cup retries \subseteq snapshot
  /\ step = "loop" /\ reading # NoRead => reading.path \in todo
  /\ step = "loop" => outcome # "interrupted"
  /\ step = "last" => todo = {} /\ outcome = "ok" /\ reading = NoRead
  /\ step = "drain" => outcome = "ok"
  /\ step = "except" => outcome = "raised"

(* An interrupted job ends the worker; nothing runs after it.              *)
CrashIsFinal ==
  /\ crashed => pc \in {"aborting", "exited"}
  /\ outcome = "interrupted" =>
       step \in {"finally", "submit", "settle"} \/ pc = "crashing" \/ crashed

(* What a refresh has done so far it need not be asked to do again.        *)
RowsAreAhead ==
  ~Crashing /\ Runs(Pdp) /\ AtWork =>
    /\ step = "loop" /\ reading # NoRead =>
         reading.text = disk[reading.path] \/ reading.path \in Marked
    /\ outcome = "ok" =>
         \A p \in snapshot \ todo : p \in refreshed /\ (fts[p] = disk[p] \/ p \in Marked)

(* The same of a flush.                                                    *)
VectorsAreAhead ==
  ~Crashing /\ Runs(Flush) /\ AtWork =>
    \A p \in snapshot \ todo :
      \/ Matches(p)
      \/ p \in dirtyEmbeddings \cup retryEmbeddings \cup conflicts \cup retries \cup Marked \cup kept

CoverInv ==
  /\ WriterInv /\ PipelineTypeOK /\ JobsAreKnown /\ WriteInPlace
  /\ JobInPlace /\ CrashIsFinal
  /\ RowsAreAhead /\ VectorsAreAhead /\ StaleIsCovered
-----------------------------------------------------------------------------
(* What the barrier needs: while a call of prepare_index_read waits for    *)
(* its refresh, the rows' contents are compared with those the files have  *)
(* had since the call began.                                               *)
InTime(p) == fts[p] \in since[p]
Asked == refresh.at \in {"waiting", "returned"}
Answered == refresh.at = "returned" \/ (refresh.at = "waiting" /\ state[refresh.future] = "done")
ReadInTime == step = "loop" /\ reading # NoRead => reading.text \in since[reading.path]

(* The content a file has is one it has had since.                         *)
SinceHasNow == Asked => \A p \in Path : disk[p] \in since[p]

(* Rows of a content in s, for s the contents a caller accepts: all of     *)
(* them, the one being read included; or all that are not on the way to a  *)
(* refresh, marked or in the snapshot of the running one.                  *)
ReadTimely(s) == step = "loop" /\ reading # NoRead => reading.text \in s[reading.path]
AllTimely(s) == ReadTimely(s) /\ \A p \in Path : fts[p] \in s[p]
OnItsWay(s) ==
  /\ \A p \in Path :
       fts[p] \in s[p] \/ p \in dirtyPaths
         \/ (Runs(Pdp) /\ step \in {"loop", "last", "except"} /\ p \in snapshot)
  /\ Runs(Pdp) => ReadTimely(s) \/ reading.path \in dirtyPaths
  /\ Runs(Pdp) /\ AtWork /\ outcome = "ok" =>
       \A p \in snapshot \ todo : fts[p] \in s[p] \/ p \in dirtyPaths

(* Until the refresh runs, rows from before the call are on the way to it. *)
RefreshWillSee == Asked /\ ~Answered /\ ~Crashing => OnItsWay(since)

(* While it runs, what it is past is in time; if it ends well, everything. *)
RefreshSees ==
  refresh.at = "waiting" /\ step # "none" /\ cur = refresh.future =>
    /\ ReadInTime
    /\ step \in {"loop", "last"} => \A p \in Path \ snapshot : InTime(p)
    /\ AtWork /\ outcome = "ok" => \A p \in snapshot \ todo : InTime(p)
    /\ step \in {"finally", "submit", "settle"} /\ outcome = "ok" => \A p \in Path : InTime(p)

(* Once the call has its answer everything is.                             *)
RefreshSaw == Answered => AllTimely(since)

BarrierInv == SinceHasNow /\ RefreshWillSee /\ RefreshSees /\ RefreshSaw
-----------------------------------------------------------------------------
(* The pipeline runs on the writer: each of its steps is one of            *)
(* IndexWriter's, or leaves the writer alone.                              *)

(* submit() hands out a Future that nobody has (index_writer.py:162-184).  *)
LEMMA FreshIsFree ==
  ASSUME Spare # {}
  PROVE  Fresh \in Future /\ state[Fresh] = "free"
BY DEF Spare, Fresh

(* Whatever the tools, the runners and a refresh call do to the writer,    *)
(* they do by its own operations.                                          *)
LEMMA WriterMoves ==
  ASSUME JobsAreKnown, [PipelineNext]_pipelineVars
  PROVE  [WriterNext]_writerVars
<1> USE PipelineAssumption
<1>1. CASE WorkerStep
  <2>1. CASE LoopStep
    BY <2>1 DEF LoopStep, WriterNext, WorkerLoop
  <2>2. CASE StartJob
    BY <2>2 DEF StartJob, WriterNext, WorkerLoop
  <2>3. CASE FinishJob
    BY <2>3 DEF FinishJob, WriterNext
  <2>4. CASE SubmitFlush
    BY <2>4, FreshIsFree DEF SubmitFlush, WriterNext
  <2>5. CASE RunnerStep /\ ~SubmitFlush
    BY <2>5 DEF RunnerStep, DrainPaths, DrainEmbeddings, ReadNote, ReadFails, Embed, EmbedFails,
      UpsertNote, PassEnds, LastCallReturns, Raise, InterruptRunner, RestoreSnapshot,
      MarkFollowUp
  <2>6. QED
    BY <1>1, <2>1, <2>2, <2>3, <2>4, <2>5 DEF WorkerStep
<1>2. CASE WriteStep
  BY <1>2, FreshIsFree DEF WriteStep, WriteNote, MarkNote, SubmitMarked, WriterNext
<1>3. CASE RefreshStep
  BY <1>3, FreshIsFree DEF RefreshStep, RefreshBegin, RefreshReturns, RefreshTimesOut,
    JobsAreKnown, WriterNext
<1>4. CASE CloseVault
  BY <1>4 DEF CloseVault, WriterNext
<1>5. CASE UNCHANGED pipelineVars
  BY <1>5 DEF pipelineVars
<1>6. QED
  BY <1>1, <1>2, <1>3, <1>4, <1>5 DEF PipelineNext

(* The steps that leave files, rows, vectors, marks and the running job as *)
(* they are: the worker's loop, a refresh call, a close, a submit.         *)
Elsewhere ==
  /\ UNCHANGED <<disk, fts, vec, kept, dirtyVars, jobVars>>
  /\ edit' = edit \/ (edit.at = "marked" /\ edit' = NoEdit)

(* Every step is one of those, a line of a runner, the start or end of a   *)
(* job, or a write or its mark.                                            *)
LEMMA StepIs ==
  ASSUME [PipelineNext]_pipelineVars
  PROVE  \/ Elsewhere \/ StartJob \/ FinishJob \/ RunnerStep
         \/ \E p \in Path, text \in Stored : WriteNote(p, text)
         \/ MarkNote
<1>1. CASE LoopStep \/ CloseVault \/ RefreshStep
  BY <1>1 DEF Elsewhere, LoopStep, CloseVault, RefreshStep, RefreshBegin, RefreshReturns,
    RefreshTimesOut, dataVars
<1>2. CASE SubmitMarked
  BY <1>2 DEF Elsewhere, SubmitMarked
<1>3. CASE UNCHANGED pipelineVars
  BY <1>3 DEF Elsewhere, pipelineVars, dataVars
<1>4. QED
  BY <1>1, <1>2, <1>3 DEF PipelineNext, WorkerStep, WriteStep

(* An accepted job keeps its kind and stays accepted; a job that is new is *)
(* of one of the two kinds; the refresh call keeps its Future.             *)
LEMMA JobsStayKnown ==
  ASSUME WriterInv, JobsAreKnown, [PipelineNext]_pipelineVars
  PROVE  /\ \A f \in Future : state[f] # "free" => state'[f] # "free" /\ kind'[f] = kind[f]
         /\ JobsAreKnown'
<1> DEFINE Kept == \A f \in Future : state[f] # "free" => state'[f] # "free" /\ kind'[f] = kind[f]
<1> SUFFICES Kept /\ JobsAreKnown'
  OBVIOUS
<1>0. WriterTypeOK
  BY DEF WriterInv
<1>1. ASSUME NEW k \in {Pdp, Flush}, Spare # {}, Enqueue(Fresh, k)
      PROVE  /\ Kept
             /\ UNCHANGED refresh => JobsAreKnown'
             /\ kind'[Fresh] = k /\ state'[Fresh] = "pending"
             /\ \A f \in Future : state'[f] # "free" => kind'[f] \in {Pdp, Flush}
  BY <1>0, <1>1, FreshIsFree DEF Enqueue, WriterTypeOK, JobsAreKnown
<1>2. CASE SubmitFlush
  BY <1>1, <1>2 DEF SubmitFlush, SubmitOnWorker, refreshVars
<1>3. CASE SubmitMarked
  <2>1. CASE closed
    BY <1>3, <2>1 DEF SubmitMarked, refreshVars, writerVars, JobsAreKnown
  <2>2. CASE ~closed
    BY <1>1, <1>3, <2>2 DEF SubmitMarked, SubmitExternal, refreshVars
  <2>3. QED
    BY <2>1, <2>2
<1>4. CASE RefreshBegin
  <2>1. Kept /\ \A f \in Future : state'[f] # "free" => kind'[f] \in {Pdp, Flush}
    BY <1>1, <1>4 DEF RefreshBegin, SubmitExternal
  <2>2. refresh'.future = Fresh /\ Fresh \in Future /\ state'[Fresh] # "free" /\ kind'[Fresh] = Pdp
    BY <1>1, <1>4, FreshIsFree DEF RefreshBegin, SubmitExternal
  <2>3. QED
    BY <2>1, <2>2 DEF JobsAreKnown
<1>5. ASSUME UNCHANGED kind, refresh'.future = refresh.future, refresh'.at # "idle" => refresh.at # "idle",
             \/ state' = state
             \/ \E f \in Future, s \in {"running", "done", "failed", "cancelled"} :
                   state[f] # "free" /\ state' = [state EXCEPT ![f] = s]
      PROVE  Kept /\ JobsAreKnown'
  BY <1>0, <1>5 DEF WriterTypeOK, JobsAreKnown
<1>6. CASE LoopStep
  <2>1. refresh' = refresh /\ kind' = kind
    BY <1>6 DEF LoopStep, refreshVars, Pop, Exit, Claim, Skip, Release, Abort, Die, CancelDoomed
  <2>2. CASE \E f \in Future : CancelDoomed(f)
    <3>1. PICK f \in Future : CancelDoomed(f)
      BY <2>2
    <3>2. CASE state[f] = "pending"
      BY <1>5, <2>1, <3>1, <3>2 DEF CancelDoomed
    <3>3. CASE state[f] # "pending"
      <4>1. state' = state
        BY <1>0, <3>1, <3>3 DEF CancelDoomed, WriterTypeOK
      <4>2. QED
        BY <1>5, <2>1, <4>1
    <3>4. QED
      BY <3>2, <3>3
  <2>3. CASE ~(\E f \in Future : CancelDoomed(f))
    <3>1. state' = state
      BY <1>6, <2>3 DEF LoopStep, Pop, Exit, Claim, Skip, Release, Abort, Die
    <3>2. QED
      BY <1>5, <2>1, <3>1
  <2>4. QED
    BY <2>2, <2>3
<1>7. CASE StartJob
  <2>1. cur \in Future /\ state[cur] = "pending"
    BY <1>0, <1>7 DEF StartJob, Start, WriterTypeOK
  <2>2. QED
    BY <1>5, <1>7, <2>1 DEF StartJob, Start, refreshVars
<1>8. CASE FinishJob
  <2>1. pc = "running"
    BY <1>8 DEF FinishJob, Settle, Interrupt
  <2>2. cur \in Future /\ state[cur] = "running"
    BY <2>1, <1>0 DEF WriterTypeOK, WriterInv, WorkerHolds
  <2>3. \E s \in {"done", "failed"} : state' = [state EXCEPT ![cur] = s]
    BY <1>8 DEF FinishJob, Settle, Interrupt
  <2>4. kind' = kind /\ refresh' = refresh
    BY <1>8 DEF FinishJob, Settle, Interrupt, refreshVars
  <2>5. QED
    BY <1>5, <2>2, <2>3, <2>4
<1>9. CASE RefreshReturns
  <2>1. state' = state /\ kind' = kind
    BY <1>9 DEF RefreshReturns, writerVars
  <2>2. refresh'.future = refresh.future /\ refresh.at # "idle"
    BY <1>9 DEF RefreshReturns
  <2>3. QED
    BY <1>5, <2>1, <2>2
<1>10. CASE RefreshTimesOut
  <2>1. refresh'.future = refresh.future /\ refresh.at # "idle" /\ refresh.future \in Future
    BY <1>10 DEF RefreshTimesOut, JobsAreKnown
  <2>2. kind' = kind
    BY <1>10 DEF RefreshTimesOut, Cancel, writerVars
  <2>3. CASE state[refresh.future] = "pending"
    <3>1. state' = [state EXCEPT ![refresh.future] = "cancelled"]
      BY <1>10, <2>3 DEF RefreshTimesOut, Cancel
    <3>2. QED
      BY <1>5, <2>1, <2>2, <2>3, <3>1
  <2>4. CASE state[refresh.future] # "pending"
    BY <1>5, <1>10, <2>1, <2>2, <2>4 DEF RefreshTimesOut, writerVars
  <2>5. QED
    BY <2>3, <2>4
<1>11. CASE CloseVault
  <2>1. state' = state /\ kind' = kind /\ refresh' = refresh
    BY <1>11 DEF CloseVault, CloserStep, CloseMark, ClosePost, CloseJoin, refreshVars
  <2>2. QED
    BY <1>5, <2>1
<1>12. CASE UNCHANGED <<writerVars, refresh>>
  <2>1. state' = state /\ kind' = kind /\ refresh' = refresh
    BY <1>12 DEF writerVars
  <2>2. QED
    BY <1>5, <2>1
<1>13. CASE RunnerStep /\ ~SubmitFlush
  <2>1. UNCHANGED <<writerVars, refresh>>
    BY <1>13 DEF RunnerStep, DrainPaths, DrainEmbeddings, ReadNote, ReadFails, Embed, EmbedFails,
      UpsertNote, PassEnds, LastCallReturns, Raise, InterruptRunner, RestoreSnapshot,
      MarkFollowUp, refreshVars
  <2>2. QED
    BY <1>12, <2>1
<1>14. CASE (\E p \in Path, text \in Stored : WriteNote(p, text)) \/ MarkNote
  BY <1>12, <1>14 DEF WriteNote, MarkNote, refreshVars
<1>15. CASE UNCHANGED pipelineVars
  BY <1>12, <1>15 DEF pipelineVars, refreshVars
<1>16. QED
  BY <1>2, <1>3, <1>4, <1>6, <1>7, <1>8, <1>9, <1>10, <1>11, <1>13, <1>14, <1>15
     DEF PipelineNext, WorkerStep, WriteStep, RefreshStep

-----------------------------------------------------------------------------
(* Types and the running job.                                              *)

(* While a job runs the worker holds its Future, and neither this nor the  *)
(* job's kind changes until it is settled: nobody else moves the worker    *)
(* (index_writer.py:282-363).                                              *)
LEMMA JobKept ==
  ASSUME WriterInv, PipelineTypeOK, JobsAreKnown, [PipelineNext]_pipelineVars,
         step # "none", ~FinishJob
  PROVE  /\ cur \in Future /\ state[cur] = "running"
         /\ cur' = cur /\ pc = "running" /\ pc' = "running" /\ step' # "none"
         /\ crashed' = crashed
         /\ \A k : Runs(k)' <=> Runs(k)
<1>1. pc = "running" /\ WriterTypeOK
  BY DEF PipelineTypeOK
<1>2. cur \in Future /\ state[cur] = "running"
  BY <1>1 DEF WriterTypeOK, WriterInv, WorkerHolds
<1>3. ~LoopStep /\ ~StartJob
  BY <1>1 DEF LoopStep, StartJob, Pop, Exit, Claim, Skip, Release, Abort, Die, CancelDoomed, Start
<1>4. /\ cur' = cur /\ pc' = pc /\ crashed' = crashed /\ step' # "none"
  <2>1. CASE RunnerStep
    BY <2>1 DEF RunnerStep, DrainPaths, DrainEmbeddings, ReadNote, ReadFails, Embed, EmbedFails,
      UpsertNote, PassEnds, LastCallReturns, Raise, InterruptRunner, RestoreSnapshot,
      MarkFollowUp, SubmitFlush, SubmitOnWorker, writerVars
  <2>2. CASE WriteStep
    BY <2>2 DEF WriteStep, WriteNote, MarkNote, SubmitMarked, SubmitExternal, writerVars, jobVars
  <2>3. CASE RefreshStep
    BY <2>3 DEF RefreshStep, RefreshBegin, RefreshReturns, RefreshTimesOut, SubmitExternal,
      Cancel, writerVars, jobVars
  <2>4. CASE CloseVault
    BY <2>4 DEF CloseVault, CloserStep, CloseMark, ClosePost, CloseJoin, jobVars
  <2>5. CASE UNCHANGED pipelineVars
    BY <2>5 DEF pipelineVars, writerVars, jobVars
  <2>6. QED
    BY <1>3, <2>1, <2>2, <2>3, <2>4, <2>5 DEF PipelineNext, WorkerStep
<1>5. kind'[cur] = kind[cur]
  BY <1>2, JobsStayKnown
<1>6. QED
  BY <1>1, <1>2, <1>4, <1>5 DEF Runs

(* Between jobs there are only the steps from elsewhere, writes and the    *)
(* start of the next job.                                                  *)
LEMMA NoJobNoLine ==
  ASSUME PipelineTypeOK, step = "none"
  PROVE  ~RunnerStep /\ ~FinishJob
BY DEF RunnerStep, DrainPaths, DrainEmbeddings, ReadNote, ReadFails, Embed, EmbedFails,
  UpsertNote, PassEnds, LastCallReturns, Raise, InterruptRunner, RestoreSnapshot,
  MarkFollowUp, SubmitFlush, FinishJob

(* A job that starts begins at the top of its runner.                      *)
LEMMA StepsWithPc ==
  ASSUME WriterInv, PipelineTypeOK, JobsAreKnown, [PipelineNext]_pipelineVars
  PROVE  (step' = "none" <=> pc' # "running")
<1>1. (step = "none" <=> pc # "running")
  BY DEF PipelineTypeOK
<1>2. CASE step # "none" /\ ~FinishJob
  BY <1>2, JobKept
<1>3. CASE FinishJob
  BY <1>3 DEF FinishJob, Settle, Interrupt
<1>4. CASE StartJob
  BY <1>4 DEF StartJob, Start
<1>5. CASE step = "none" /\ ~StartJob
  <2>1. step' = "none"
    BY <1>5, StepIs, NoJobNoLine DEF Elsewhere, jobVars, WriteNote, MarkNote
  <2>2. CASE LoopStep
    BY <1>1, <1>5, <2>1, <2>2 DEF LoopStep, Pop, Exit, Claim, Skip, Release, Abort, Die, CancelDoomed
  <2>3. CASE WriteStep
    BY <1>1, <1>5, <2>1, <2>3 DEF WriteStep, WriteNote, MarkNote, SubmitMarked, SubmitExternal, writerVars
  <2>4. CASE RefreshStep
    BY <1>1, <1>5, <2>1, <2>4 DEF RefreshStep, RefreshBegin, RefreshReturns, RefreshTimesOut, SubmitExternal,
      Cancel, writerVars
  <2>5. CASE CloseVault
    BY <1>1, <1>5, <2>1, <2>5 DEF CloseVault, CloserStep, CloseMark, ClosePost, CloseJoin
  <2>6. CASE UNCHANGED pipelineVars
    BY <1>1, <1>5, <2>1, <2>6 DEF pipelineVars, writerVars
  <2>7. QED
    BY <1>5, <2>2, <2>3, <2>4, <2>5, <2>6, NoJobNoLine DEF PipelineNext, WorkerStep
<1>6. QED
  BY <1>2, <1>3, <1>4, <1>5

(* Every step keeps the types of the marks, the job's sets and the files.  *)
LEMMA PipelineTypeStep ==
  ASSUME WriterInv, PipelineTypeOK, JobsAreKnown, WriteInPlace, JobInPlace,
         [PipelineNext]_pipelineVars
  PROVE  PipelineTypeOK'
<1>1. WriterTypeOK' /\ (step' = "none" <=> pc' # "running")
  BY WriterMoves, WriterTypeNext, StepsWithPc DEF WriterInv
<1> DEFINE Data ==
      /\ disk \in [Path -> Stored] /\ fts \in [Path -> Stored] /\ vec \in [Path -> Stored \ Broken]
      /\ dirtyPaths \subseteq Path /\ dirtyEmbeddings \subseteq Path /\ retryEmbeddings \subseteq Path
      /\ edits \in 0..MaxEdits /\ faults \in 0..MaxFaults
      /\ kept \subseteq Path
    Edit == edit \in [path : Path \cup {None}, at : {"none", "written", "marked"}]
    Late == late \subseteq Path
    Job ==
      /\ step \in {"none", "drain", "loop", "last", "except", "finally", "submit", "settle"}
      /\ outcome \in {"ok", "raised", "interrupted"}
      /\ snapshot \subseteq Path /\ todo \subseteq snapshot
      /\ reading \in [path : Path \cup {None}, text : Stored]
      /\ refreshed \subseteq Path /\ conflicts \subseteq Path /\ retries \subseteq Path
    Call ==
      /\ refresh \in [at : {"idle", "waiting", "returned", "raised"}, future : Future \cup {None}]
      /\ since \in [Path -> SUBSET Stored]
<1> USE PipelineAssumption
<1>2. Data /\ Edit /\ Late /\ Job /\ Call
  BY DEF PipelineTypeOK
<1>3. Absent \in Stored
  BY DEF Stored
<1>4. ASSUME Data', Edit', Late', Job', Call'
      PROVE  PipelineTypeOK'
  BY <1>1, <1>4 DEF PipelineTypeOK
<1> DEFINE Rest == UNCHANGED <<edit, late, refresh, since>>
<1>5. ASSUME Data', Job', Rest
      PROVE  PipelineTypeOK'
  BY <1>2, <1>4, <1>5
<1>6. CASE RunnerStep
  <2>0. Rest
    BY <1>6 DEF RunnerStep, DrainPaths, DrainEmbeddings, ReadNote, ReadFails, Embed, EmbedFails,
      UpsertNote, PassEnds, LastCallReturns, Raise, InterruptRunner, RestoreSnapshot,
      MarkFollowUp, SubmitFlush, dataVars, refreshVars
  <2>1. CASE DrainPaths \/ DrainEmbeddings
    BY <1>2, <1>5, <2>0, <2>1 DEF DrainPaths, DrainEmbeddings, dataVars
  <2>2. CASE \E p \in Path : ReadNote(p) \/ ReadFails(p)
    <3>1. PICK p \in Path : ReadNote(p) \/ ReadFails(p)
      BY <2>2
    <3>2. CASE ReadNote(p)
      BY <1>2, <1>5, <2>0, <3>2 DEF ReadNote, dataVars, dirtyVars
    <3>3. CASE ReadFails(p)
      BY <1>2, <1>5, <2>0, <3>3 DEF ReadFails, dirtyVars
    <3>4. QED
      BY <3>1, <3>2, <3>3
  <2>3. CASE \E p \in Path : Embed(p) \/ EmbedFails(p)
    <3>1. PICK p \in Path : Embed(p) \/ EmbedFails(p)
      BY <2>3
    <3>2. CASE Embed(p)
      BY <1>2, <1>5, <2>0, <3>2 DEF Embed, Tombstoned, dirtyVars
    <3>3. CASE EmbedFails(p)
      <4>1. Job'
        BY <1>2, <3>3 DEF EmbedFails
      <4>2. Data'
        BY <1>2, <3>3 DEF EmbedFails, dirtyVars
      <4>3. QED
        BY <1>5, <2>0, <4>1, <4>2
    <3>4. QED
      BY <3>1, <3>2, <3>3
  <2>4. CASE UpsertNote
    <3>1. reading.path \in Path \cup {None} /\ reading.text \in Stored
      BY <1>2
    <3>2. refreshed' \subseteq Path
      <4>1. reading.path \in Path
        BY <1>2, <2>4 DEF UpsertNote, JobInPlace
      <4>2. QED
        BY <1>2, <2>4, <4>1 DEF UpsertNote
    <3>3. Job'
      BY <1>2, <1>3, <2>4, <3>2 DEF UpsertNote, NoRead
    <3>4. Data'
      BY <1>2, <2>4, <3>1 DEF UpsertNote, dirtyVars
    <3>5. QED
      BY <1>5, <2>0, <3>3, <3>4
  <2>5. CASE PassEnds \/ LastCallReturns \/ SubmitFlush
    BY <1>2, <1>5, <2>0, <2>5 DEF PassEnds, LastCallReturns, SubmitFlush, dataVars, dirtyVars
  <2>6. CASE Raise \/ InterruptRunner
    BY <1>2, <1>5, <2>0, <2>6 DEF Raise, InterruptRunner, DropPass, dirtyVars
  <2>7. CASE RestoreSnapshot \/ MarkFollowUp
    BY <1>2, <1>5, <2>0, <2>7 DEF RestoreSnapshot, MarkFollowUp, FollowUp, dataVars
  <2>8. QED
    BY <1>6, <2>1, <2>2, <2>3, <2>4, <2>5, <2>6, <2>7 DEF RunnerStep
<1>7. CASE StartJob \/ FinishJob
  BY <1>2, <1>3, <1>5, <1>7 DEF StartJob, FinishJob, dataVars, dirtyVars, refreshVars, NoRead
<1>8. ASSUME NEW p \in Path, NEW text \in Stored, WriteNote(p, text)
      PROVE  PipelineTypeOK'
  <2>1. Data' /\ Edit'
    BY <1>2, <1>8 DEF WriteNote, dirtyVars
  <2>2. Call'
    BY <1>2, <1>8 DEF WriteNote
  <2>3. Late' /\ Job'
    BY <1>2, <1>8 DEF WriteNote, jobVars
  <2>4. QED
    BY <1>4, <2>1, <2>2, <2>3
<1>9. CASE MarkNote
  <2>1. edit.path \in Path
    BY <1>9 DEF WriteInPlace, MarkNote
  <2>2. QED
    BY <1>2, <1>4, <1>9, <2>1 DEF MarkNote, jobVars, refreshVars
<1>10. CASE SubmitMarked
  <2>1. Late' /\ Edit'
    BY <1>2, <1>10 DEF SubmitMarked, NoEdit, WriteInPlace
  <2>2. Data' /\ Job' /\ Call'
    BY <1>2, <1>10 DEF SubmitMarked, jobVars, dirtyVars, refreshVars
  <2>3. QED
    BY <1>4, <2>1, <2>2
<1>11. CASE RefreshBegin
  <2>1. Call'
    <3>1. Fresh \in Future
      BY <1>11, FreshIsFree DEF RefreshBegin
    <3>2. \A p \in Path : {disk[p]} \in SUBSET Stored
      BY <1>2
    <3>3. QED
      BY <1>11, <3>1, <3>2 DEF RefreshBegin
  <2>2. Data' /\ Edit' /\ Late' /\ Job'
    BY <1>2, <1>11 DEF RefreshBegin, dataVars, dirtyVars, jobVars
  <2>3. QED
    BY <1>4, <2>1, <2>2
<1>12. CASE RefreshReturns \/ RefreshTimesOut
  <2>1. Call'
    BY <1>2, <1>12 DEF RefreshReturns, RefreshTimesOut
  <2>2. Data' /\ Edit' /\ Late' /\ Job'
    BY <1>2, <1>12 DEF RefreshReturns, RefreshTimesOut, dataVars, dirtyVars, jobVars
  <2>3. QED
    BY <1>4, <2>1, <2>2
<1>13. CASE LoopStep \/ CloseVault \/ UNCHANGED pipelineVars
  BY <1>2, <1>4, <1>13 DEF LoopStep, CloseVault, pipelineVars, dataVars, dirtyVars, jobVars, refreshVars
<1>14. QED
  BY <1>6, <1>7, <1>8, <1>9, <1>10, <1>11, <1>12, <1>13
     DEF PipelineNext, WorkerStep, WriteStep, RefreshStep

(* A write in progress keeps its note.                                     *)
LEMMA WriteInPlaceStep ==
  ASSUME PipelineTypeOK, WriteInPlace, [PipelineNext]_pipelineVars
  PROVE  WriteInPlace'
<1>1. CASE Elsewhere
  BY <1>1 DEF WriteInPlace, Elsewhere, NoEdit
<1>2. CASE RunnerStep
  BY <1>2 DEF WriteInPlace, RunnerStep, DrainPaths, DrainEmbeddings, ReadNote, ReadFails, Embed,
    EmbedFails, UpsertNote, PassEnds, LastCallReturns, Raise, InterruptRunner, RestoreSnapshot,
    MarkFollowUp, SubmitFlush, dataVars
<1>3. CASE StartJob \/ FinishJob
  BY <1>3 DEF WriteInPlace, StartJob, FinishJob, dataVars
<1>4. CASE \E p \in Path, text \in Stored : WriteNote(p, text)
  BY <1>4 DEF WriteInPlace, WriteNote
<1>5. CASE MarkNote
  <2>1. edit \in [path : Path \cup {None}, at : {"none", "written", "marked"}]
    BY DEF PipelineTypeOK
  <2>2. edit'.path = edit.path
    BY <1>5, <2>1 DEF MarkNote
  <2>3. QED
    BY <1>5, <2>2 DEF WriteInPlace, MarkNote
<1>6. QED
  BY <1>1, <1>2, <1>3, <1>4, <1>5, StepIs

(* The sets of a runner are empty before it begins and after its finally   *)
(* block, and its position says how its body has gone so far               *)
(* (index_writer.py:444-489).                                              *)
LEMMA JobInPlaceStep ==
  ASSUME WriterInv, PipelineTypeOK, JobsAreKnown, JobInPlace, [PipelineNext]_pipelineVars
  PROVE  JobInPlace'
<1> USE DEF JobInPlace
<1>0. /\ step \in {"none", "drain", "loop", "last", "except", "finally", "submit", "settle"}
      /\ outcome \in {"ok", "raised", "interrupted"}
      /\ todo \subseteq snapshot
  BY DEF PipelineTypeOK
<1>1. CASE step = "none" /\ ~StartJob
  <2>1. UNCHANGED jobVars
    BY <1>1, StepIs, NoJobNoLine DEF Elsewhere, WriteNote, MarkNote
  <2>2. QED
    BY <1>1, <2>1 DEF jobVars, Runs
<1>2. CASE StartJob
  <2>1. step = "none"
    BY <1>2 DEF StartJob, Start, PipelineTypeOK
  <2>2. QED
    BY <1>2, <2>1 DEF StartJob, Runs
<1>3. CASE FinishJob
  BY <1>3 DEF FinishJob, Runs
<1>4. CASE step # "none" /\ ~FinishJob
  <2>1. \A k : Runs(k)' <=> Runs(k)
    BY <1>4, JobKept
  <2>2. Runs(Pdp) \/ Runs(Flush)
    BY <1>4, JobKept DEF Runs, JobsAreKnown
  <2>3. CASE UNCHANGED jobVars
    BY <2>1, <2>3 DEF jobVars
  <2>4. CASE DrainPaths \/ DrainEmbeddings
    BY <2>1, <2>4 DEF DrainPaths, DrainEmbeddings
  <2>5. CASE \E p \in Path : ReadNote(p) \/ ReadFails(p) \/ Embed(p) \/ EmbedFails(p)
    BY <1>0, <2>1, <2>5, <1>4 DEF ReadNote, ReadFails, Embed, EmbedFails, Runs, Pdp, Flush
  <2>6. CASE UpsertNote
    BY <1>0, <2>1, <2>2, <2>6, <1>4 DEF UpsertNote, Runs, Pdp, Flush
  <2>7. CASE PassEnds \/ LastCallReturns
    BY <1>0, <2>1, <2>7 DEF PassEnds, LastCallReturns
  <2>8. CASE Raise \/ InterruptRunner
    BY <1>0, <2>1, <2>8 DEF Raise, InterruptRunner, DropPass
  <2>9. CASE RestoreSnapshot
    BY <1>0, <2>1, <2>9 DEF RestoreSnapshot
  <2>10. CASE MarkFollowUp \/ SubmitFlush
    BY <1>0, <2>1, <2>10 DEF MarkFollowUp, SubmitFlush
  <2>11. ~StartJob
    BY <1>4 DEF StartJob, Start, PipelineTypeOK
  <2>12. Elsewhere \/ MarkNote \/ (\E p \in Path, text \in Stored : WriteNote(p, text)) => UNCHANGED jobVars
    BY DEF Elsewhere, WriteNote, MarkNote
  <2>13. QED
    BY <1>4, <2>3, <2>4, <2>5, <2>6, <2>7, <2>8, <2>9, <2>10, <2>11, <2>12, StepIs DEF RunnerStep
<1>5. QED
  BY <1>1, <1>2, <1>3, <1>4

(* A crash is for good: once the worker has been interrupted no further    *)
(* job begins (index_writer.py:328-363).                                   *)
LEMMA CrashIsFinalStep ==
  ASSUME WriterInv, PipelineTypeOK, JobsAreKnown, JobInPlace, CrashIsFinal,
         [PipelineNext]_pipelineVars
  PROVE  CrashIsFinal' /\ (Crashing => Crashing')
<1> USE DEF CrashIsFinal, Crashing
<1>0. (step = "none" <=> pc # "running") /\ (pc = "aborting" => crashed)
      /\ outcome \in {"ok", "raised", "interrupted"}
  BY DEF PipelineTypeOK, WriterInv, ShutdownOrder
<1>1. CASE step # "none" /\ ~FinishJob
  <2>1. /\ pc = "running" /\ pc' = "running" /\ crashed' = crashed
    BY <1>1, JobKept
  <2>2. ~StartJob
    BY <2>1 DEF StartJob, Start
  <2>3. CASE UNCHANGED jobVars
    BY <1>0, <2>1, <2>3 DEF jobVars
  <2>4. CASE RunnerStep
    <3>1. ~crashed /\ ~crashed'
      BY <2>1
    <3>2. /\ outcome = "interrupted" => step \in {"finally", "submit", "settle"}
      BY <2>1, <3>1
    <3>3. CASE outcome' = outcome
      <4>1. outcome = "interrupted" => step' \in {"finally", "submit", "settle"}
        BY <2>4, <3>2 DEF RunnerStep, DrainPaths, DrainEmbeddings, ReadNote, ReadFails, Embed,
          EmbedFails, UpsertNote, PassEnds, LastCallReturns, Raise, InterruptRunner,
          RestoreSnapshot, MarkFollowUp, SubmitFlush
      <4>2. QED
        BY <2>1, <3>1, <3>3, <4>1
    <3>4. CASE outcome' # outcome
      <4>1. (\E p \in Path : ReadFails(p)) \/ Raise \/ InterruptRunner
        BY <2>4, <3>4 DEF RunnerStep, DrainPaths, DrainEmbeddings, ReadNote, Embed,
          EmbedFails, UpsertNote, PassEnds, LastCallReturns,
          RestoreSnapshot, MarkFollowUp, SubmitFlush
      <4>2. QED
        BY <2>1, <3>1, <3>2, <4>1 DEF ReadFails, Raise, InterruptRunner
    <3>5. QED
      BY <3>3, <3>4
  <2>5. Elsewhere \/ MarkNote \/ (\E p \in Path, text \in Stored : WriteNote(p, text)) => UNCHANGED jobVars
    BY DEF Elsewhere, WriteNote, MarkNote
  <2>6. QED
    BY <1>1, <2>2, <2>3, <2>4, <2>5, StepIs
<1>2. CASE FinishJob
  <2>1. pc = "running" /\ crashed' = crashed /\ pc' \in {"settled", "crashing"}
    BY <1>2 DEF FinishJob, Settle, Interrupt
  <2>2. outcome' = outcome /\ (outcome = "interrupted" => pc' = "crashing")
    BY <1>2 DEF FinishJob, Interrupt
  <2>3. QED
    BY <2>1, <2>2
<1>3. CASE StartJob
  <2>1. pc = "claimed" /\ crashed' = crashed /\ outcome' = "ok"
    BY <1>3 DEF StartJob, Start
  <2>2. QED
    BY <1>0, <2>1
<1>4. CASE step = "none" /\ ~StartJob
  <2>1. outcome' = outcome
    BY <1>4, StepIs, NoJobNoLine DEF Elsewhere, jobVars, WriteNote, MarkNote
  <2>2. (crashed' = crashed /\ pc' = pc) \/ LoopStep
    BY <1>4, NoJobNoLine DEF PipelineNext, WorkerStep, WriteStep, RefreshStep, CloseVault, pipelineVars, writerVars,
      WriteNote, MarkNote, SubmitMarked, SubmitExternal, RefreshBegin, RefreshReturns, RefreshTimesOut, Cancel,
      CloserStep, CloseMark, ClosePost, CloseJoin
  <2>3. CASE LoopStep
    <3>1. /\ crashed => crashed'
          /\ pc = "crashing" => crashed'
          /\ crashed' => pc' \in {"aborting", "exited"}
      BY <1>0, <2>3 DEF LoopStep, Pop, Exit, Claim, Skip, Release, Abort, Die, CancelDoomed
    <3>2. QED
      BY <1>0, <1>4, <2>1, <3>1
  <2>4. QED
    BY <1>0, <1>4, <2>1, <2>2, <2>3
<1>5. QED
  BY <1>1, <1>2, <1>3, <1>4

-----------------------------------------------------------------------------
(* Nothing stale is forgotten.                                             *)

(* What else a step can leave of the marks, the files and the notes in     *)
(* hand: only a drain takes marks away, only a write changes a file.       *)
LEMMA MarksMove ==
  ASSUME PipelineTypeOK, [PipelineNext]_pipelineVars
  PROVE  /\ Marked \subseteq Marked' \/ DrainPaths
         /\ disk' = disk \/ \E p \in Path, text \in Stored : WriteNote(p, text)
         /\ \A p \in Path, text \in Stored :
              WriteNote(p, text) => p \in Marked' /\ \A q \in Path : q # p => disk'[q] = disk[q]
<1>1. CASE Elsewhere
  BY <1>1 DEF Elsewhere, Marked, dirtyVars, WriteNote, NoEdit
<1>2. CASE RunnerStep
  BY <1>2 DEF Marked, RunnerStep, DrainPaths, DrainEmbeddings, ReadNote, ReadFails, Embed,
    EmbedFails, UpsertNote, PassEnds, LastCallReturns, Raise, InterruptRunner, RestoreSnapshot,
    MarkFollowUp, SubmitFlush, dataVars, dirtyVars, WriteNote
<1>3. CASE StartJob \/ FinishJob
  BY <1>3 DEF Marked, StartJob, FinishJob, dataVars, dirtyVars, WriteNote
<1>4. CASE \E p \in Path, text \in Stored : WriteNote(p, text)
  <2>1. PICK p \in Path, text \in Stored : WriteNote(p, text)
    BY <1>4
  <2>2. Marked \subseteq Marked'
    BY <2>1 DEF WriteNote, Marked, NoEdit, dirtyVars
  <2>3. ASSUME NEW q \in Path, NEW content \in Stored, WriteNote(q, content)
        PROVE  /\ q \in Marked'
               /\ \A r \in Path : r # q => disk'[r] = disk[r]
    BY <2>3 DEF WriteNote, Marked, PipelineTypeOK
  <2>4. QED
    BY <1>4, <2>2, <2>3
<1>5. CASE MarkNote
  <2>1. edit'.at = "marked"
    BY <1>5 DEF MarkNote, PipelineTypeOK
  <2>2. QED
    BY <1>5, <2>1 DEF MarkNote, Marked, WriteNote, NoEdit
<1>6. QED
  BY <1>1, <1>2, <1>3, <1>4, <1>5, StepIs

(* The steps beside the running job leave rows, vectors and the job's own  *)
(* sets as they are.                                                       *)
LEMMA Beside ==
  ASSUME Elsewhere \/ MarkNote \/ \E p \in Path, text \in Stored : WriteNote(p, text)
  PROVE  /\ UNCHANGED <<jobVars, fts, vec, kept, dirtyEmbeddings, retryEmbeddings>>
         /\ MarkNote => disk' = disk
BY DEF Elsewhere, MarkNote, WriteNote, dirtyVars

(* A refresh stays ahead of the writes it has been overtaken by: what it   *)
(* has read or upserted is what the file says, or the file is marked again *)
(* (index_writer.py:444-467, managers/index.py:1193-1270).                 *)
LEMMA RowsAreAheadStep ==
  ASSUME WriterInv, PipelineTypeOK, JobsAreKnown, JobInPlace, CrashIsFinal,
         RowsAreAhead, [PipelineNext]_pipelineVars
  PROVE  RowsAreAhead'
<1> SUFFICES ASSUME ~Crashing', Runs(Pdp)', AtWork'
             PROVE  /\ (step = "loop" /\ reading # NoRead =>
                          reading.text = disk[reading.path] \/ reading.path \in Marked)'
                    /\ (outcome = "ok" =>
                          \A p \in snapshot \ todo :
                            p \in refreshed /\ (fts[p] = disk[p] \/ p \in Marked))'
  BY DEF RowsAreAhead
<1> USE DEF AtWork
<1>1. ~Crashing
  BY CrashIsFinalStep
<1>2. step # "none" /\ ~StartJob /\ ~FinishJob
  BY StepIs, NoJobNoLine, Beside DEF jobVars, StartJob, FinishJob
<1>3. Runs(Pdp) /\ (\A k : Runs(k)' <=> Runs(k)) /\ kind[cur] = Pdp
  BY <1>2, JobKept DEF Runs
<1>4. /\ todo \subseteq snapshot /\ snapshot \subseteq Path
      /\ reading \in [path : Path \cup {None}, text : Stored]
      /\ fts \in [Path -> Stored] /\ disk \in [Path -> Stored]
      /\ (step = "loop" /\ reading # NoRead => reading.path \in todo)
      /\ (step = "last" => reading = NoRead)
      /\ (step = "drain" => reading = NoRead)
  BY DEF PipelineTypeOK, JobInPlace
<1> DEFINE Read == step = "loop" /\ reading # NoRead =>
                     reading.text = disk[reading.path] \/ reading.path \in Marked
           Row(p) == p \in refreshed /\ (fts[p] = disk[p] \/ p \in Marked)
<1>5. AtWork => Read /\ (outcome = "ok" => \A p \in snapshot \ todo : Row(p))
  BY <1>1, <1>3 DEF RowsAreAhead
<1>6. CASE Elsewhere \/ MarkNote \/ \E p \in Path, text \in Stored : WriteNote(p, text)
  <2>1. UNCHANGED <<jobVars, fts>> /\ AtWork
    BY <1>6, Beside DEF jobVars
  <2>2. \A p \in Path : disk'[p] = disk[p] \/ p \in Marked'
    BY <1>6, MarksMove, Beside
  <2>3. Marked \subseteq Marked'
    BY <2>1, MarksMove DEF DrainPaths, jobVars
  <2>4. Read'
    BY <1>4, <1>5, <2>1, <2>2, <2>3 DEF jobVars
  <2>5. (outcome = "ok" => \A p \in snapshot \ todo : Row(p))'
    BY <1>4, <1>5, <2>1, <2>2, <2>3 DEF jobVars
  <2>6. QED
    BY <2>4, <2>5
<1>7. CASE RunnerStep
  <2>1. ~DrainEmbeddings /\ ~LastCallReturns /\ ~Raise /\ ~InterruptRunner /\ ~RestoreSnapshot
        /\ ~MarkFollowUp /\ ~SubmitFlush
    BY <1>3 DEF DrainEmbeddings, LastCallReturns, Raise, InterruptRunner, RestoreSnapshot,
      MarkFollowUp, SubmitFlush, Pdp, Flush
  <2>2. \A p \in Path : ~Embed(p) /\ ~EmbedFails(p)
    BY <1>3 DEF Embed, EmbedFails, Pdp, Flush
  <2>3. CASE DrainPaths
    BY <1>4, <2>3 DEF DrainPaths
  <2>4. CASE \E p \in Path : ReadNote(p) \/ ReadFails(p)
    <3>1. PICK p \in Path : ReadNote(p) \/ ReadFails(p)
      BY <2>4
    <3>2. CASE ReadNote(p)
      BY <1>5, <3>2 DEF ReadNote, dataVars, dirtyVars, Marked
    <3>3. CASE ReadFails(p)
      BY <1>5, <3>3 DEF ReadFails, dirtyVars, Marked
    <3>4. QED
      BY <3>1, <3>2, <3>3
  <2>5. CASE UpsertNote
    <3>1. disk' = disk /\ Marked' = Marked /\ reading.path \in todo /\ reading' = NoRead /\ AtWork
      BY <1>4, <2>5 DEF UpsertNote, dirtyVars, Marked
    <3>2. reading.text = disk[reading.path] \/ reading.path \in Marked
      BY <1>5, <2>5, <3>1 DEF UpsertNote
    <3>3. ASSUME outcome' = "ok", NEW p \in (snapshot \ todo)'
          PROVE  Row(p)'
      <4>1. CASE p = reading.path
        BY <1>4, <2>5, <3>1, <3>2, <4>1 DEF UpsertNote
      <4>2. CASE p # reading.path
        BY <1>4, <1>5, <2>5, <3>1, <3>3, <4>2 DEF UpsertNote
      <4>3. QED
        BY <4>1, <4>2
    <3>4. QED
      BY <3>1, <3>3
  <2>6. CASE PassEnds
    BY <1>5, <2>6 DEF PassEnds, dataVars, dirtyVars, Marked
  <2>7. QED
    BY <1>7, <2>1, <2>2, <2>3, <2>4, <2>5, <2>6 DEF RunnerStep
<1>8. QED
  BY <1>2, <1>6, <1>7, StepIs

(* A flush stays ahead of everything that touches vectors: each path it is *)
(* done with has its row's vectors, or some set names it                   *)
(* (index_writer.py:470-489, managers/embeddings.py:752).                  *)
LEMMA VectorsAreAheadStep ==
  ASSUME WriterInv, PipelineTypeOK, JobsAreKnown, JobInPlace, CrashIsFinal,
         VectorsAreAhead, StaleIsCovered, [PipelineNext]_pipelineVars
  PROVE  VectorsAreAhead'
<1> DEFINE Named == dirtyEmbeddings \cup retryEmbeddings \cup conflicts \cup retries \cup Marked \cup kept
<1> SUFFICES ASSUME ~Crashing', Runs(Flush)', AtWork'
             PROVE  (\A p \in snapshot \ todo : Matches(p) \/ p \in Named)'
  BY DEF VectorsAreAhead
<1> USE DEF AtWork, Matches, Tombstoned
<1>1. ~Crashing
  BY CrashIsFinalStep
<1>2. step # "none" /\ ~StartJob /\ ~FinishJob
  BY StepIs, NoJobNoLine, Beside DEF jobVars, StartJob, FinishJob
<1>3. Runs(Flush) /\ (\A k : Runs(k)' <=> Runs(k)) /\ kind[cur] = Flush
  BY <1>2, JobKept DEF Runs
<1>4. /\ todo \subseteq snapshot /\ snapshot \subseteq Path
      /\ fts \in [Path -> Stored] /\ vec \in [Path -> Stored \ Broken]
      /\ reading = NoRead
  BY <1>3 DEF PipelineTypeOK, JobInPlace
<1>5. AtWork => \A p \in snapshot \ todo : Matches(p) \/ p \in Named
  BY <1>1, <1>3 DEF VectorsAreAhead
<1>6. CASE Elsewhere \/ MarkNote \/ \E p \in Path, text \in Stored : WriteNote(p, text)
  <2>1. UNCHANGED <<jobVars, fts, vec, kept, dirtyEmbeddings, retryEmbeddings>> /\ AtWork
    BY <1>6, Beside DEF jobVars
  <2>2. Marked \subseteq Marked'
    BY <2>1, MarksMove DEF DrainPaths, jobVars
  <2>3. QED
    BY <1>5, <2>1, <2>2 DEF jobVars
<1>7. CASE RunnerStep
  <2>1. ~DrainPaths /\ ~LastCallReturns /\ ~Raise /\ ~InterruptRunner /\ ~RestoreSnapshot
        /\ ~MarkFollowUp /\ ~SubmitFlush /\ ~UpsertNote
    BY <1>3, <1>4 DEF DrainPaths, LastCallReturns, Raise, InterruptRunner, RestoreSnapshot,
      MarkFollowUp, SubmitFlush, Pdp, Flush, UpsertNote
  <2>2. \A p \in Path : ~ReadNote(p) /\ ~ReadFails(p)
    BY <1>3 DEF ReadNote, ReadFails, Pdp, Flush
  <2>3. CASE DrainEmbeddings
    BY <2>3 DEF DrainEmbeddings
  <2>4. ASSUME NEW p \in Path, Embed(p)
        PROVE  (\A q \in snapshot \ todo : Matches(q) \/ q \in Named)'
    <3>1. /\ UNCHANGED <<fts, dirtyEmbeddings, retryEmbeddings, conflicts, retries, snapshot>>
          /\ Marked' = Marked /\ AtWork /\ todo' = todo \ {p}
      BY <2>4 DEF Embed, dirtyVars, Marked
    <3>2. \A q \in Path : q # p => vec'[q] = vec[q] /\ (q \in kept => q \in kept')
      BY <1>4, <2>4 DEF Embed
    <3>3. Matches(p)' \/ p \in Marked'
      <4>1. CASE ~Tombstoned(p) /\ fts[p] = Absent /\ disk[p] # Absent
        <5>1. p \in KeywordPending
          BY <1>1, <4>1 DEF StaleIsCovered, RowsCovered
        <5>2. p \in Marked
          BY <1>3, <5>1 DEF KeywordPending, Marked, Pdp, Flush
        <5>3. QED
          BY <3>1, <5>2
      <4>2. CASE ~Tombstoned(p) /\ ~(fts[p] = Absent /\ disk[p] # Absent)
        BY <1>4, <2>4, <4>2 DEF Embed
      <4>3. CASE Tombstoned(p)
        BY <3>1, <4>3
      <4>4. QED
        BY <4>1, <4>2, <4>3
    <3>4. QED
      BY <1>4, <1>5, <3>1, <3>2, <3>3
  <2>5. ASSUME NEW p \in Path, EmbedFails(p)
        PROVE  (\A q \in snapshot \ todo : Matches(q) \/ q \in Named)'
    <3>1. /\ UNCHANGED <<fts, dirtyEmbeddings, retryEmbeddings, snapshot>>
          /\ Marked' = Marked /\ AtWork /\ todo' = todo \ {p}
      BY <2>5 DEF EmbedFails, dirtyVars, Marked
    <3>2. /\ \A q \in Path : q # p => vec'[q] = vec[q]
          /\ conflicts \subseteq conflicts' /\ retries \subseteq retries' /\ kept \subseteq kept'
      BY <1>4, <2>5 DEF EmbedFails
    <3>3. p \in conflicts' \cup retries' \cup kept'
      BY <2>5 DEF EmbedFails
    <3>4. QED
      BY <1>4, <1>5, <3>1, <3>2, <3>3
  <2>6. CASE PassEnds
    BY <1>5, <2>6 DEF PassEnds, dataVars, dirtyVars, Marked
  <2>7. QED
    BY <1>7, <2>1, <2>2, <2>3, <2>4, <2>5, <2>6 DEF RunnerStep
<1>8. QED
  BY <1>2, <1>6, <1>7, StepIs

(* While a refresh runs, a row that differs from its file is marked or in  *)
(* the refresh's snapshot; what the refresh ends with is covered.          *)
LEMMA RowsCoveredStep ==
  ASSUME WriterInv, PipelineTypeOK, JobsAreKnown, JobInPlace, CrashIsFinal,
         RowsAreAhead, StaleIsCovered, [PipelineNext]_pipelineVars, ~Crashing'
  PROVE  RowsCovered'
<1> DEFINE InHand == IF Runs(Pdp) /\ step \in {"loop", "last", "except"} THEN snapshot ELSE {}
<1>1. ~Crashing /\ (\A p \in Path : fts[p] # disk[p] => p \in Marked \cup InHand)
  BY CrashIsFinalStep DEF StaleIsCovered, RowsCovered, KeywordPending, Marked, Runs
<1> SUFFICES ASSUME NEW p \in Path, fts'[p] # disk'[p]
             PROVE  p \in Marked' \cup InHand'
  BY DEF RowsCovered, KeywordPending, Marked, Runs
<1>2. CASE Elsewhere \/ MarkNote \/ \E q \in Path, text \in Stored : WriteNote(q, text)
  <2>1. UNCHANGED <<jobVars, fts>>
    BY <1>2, Beside
  <2>2. disk'[p] = disk[p] \/ p \in Marked'
    BY <1>2, MarksMove, Beside
  <2>3. Marked \subseteq Marked'
    <3>1. DrainPaths => step' # step
      BY DEF DrainPaths
    <3>2. QED
      BY <2>1, <3>1, MarksMove DEF jobVars
  <2>4. InHand' = InHand
    <3>1. CASE step = "none"
      BY <2>1, <3>1 DEF jobVars, Runs
    <3>2. CASE step # "none"
      <4>1. ~FinishJob
        BY <2>1, <3>2 DEF FinishJob, jobVars
      <4>2. QED
        BY <2>1, <3>2, <4>1, JobKept DEF jobVars
    <3>3. QED
      BY <3>1, <3>2
  <2>5. QED
    BY <1>1, <2>1, <2>2, <2>3, <2>4
<1>3. CASE StartJob \/ FinishJob
  <2>1. UNCHANGED <<disk, fts>> /\ Marked' = Marked
    BY <1>3 DEF StartJob, FinishJob, dataVars, dirtyVars, Marked
  <2>2. step \in {"none", "settle"}
    BY <1>3 DEF StartJob, Start, FinishJob, PipelineTypeOK
  <2>3. QED
    BY <1>1, <2>1, <2>2
<1>4. CASE RunnerStep
  <2>1. step # "none" /\ ~FinishJob
    BY <1>4, NoJobNoLine DEF RunnerStep, DrainPaths, DrainEmbeddings, ReadNote, ReadFails, Embed,
      EmbedFails, UpsertNote, PassEnds, LastCallReturns, Raise, InterruptRunner, RestoreSnapshot,
      MarkFollowUp, SubmitFlush, FinishJob
  <2>2. \A k : Runs(k)' <=> Runs(k)
    BY <2>1, JobKept
  <2>3. (kind[cur] = Pdp \/ kind[cur] = Flush) /\ Pdp # Flush
    BY <2>1, JobKept DEF JobsAreKnown, Pdp, Flush
  <2>4. disk' = disk
    BY <1>4 DEF RunnerStep, DrainPaths, DrainEmbeddings, ReadNote, ReadFails, Embed,
      EmbedFails, UpsertNote, PassEnds, LastCallReturns, Raise, InterruptRunner, RestoreSnapshot,
      MarkFollowUp, SubmitFlush, dataVars
  <2>5. CASE DrainPaths
    BY <1>1, <2>2, <2>4, <2>5 DEF DrainPaths, Marked, dataVars, Runs
  <2>6. CASE DrainEmbeddings \/ PassEnds \/ MarkFollowUp \/ SubmitFlush
             \/ \E q \in Path : ReadNote(q) \/ ReadFails(q)
    <3>1. UNCHANGED <<fts, dirtyPaths, edit>>
      BY <2>6 DEF DrainEmbeddings, PassEnds, MarkFollowUp, SubmitFlush, ReadNote, ReadFails,
        dataVars, dirtyVars
    <3>2. InHand' = InHand
      BY <2>2, <2>3, <2>6 DEF DrainEmbeddings, PassEnds, MarkFollowUp, SubmitFlush, ReadNote,
        ReadFails, Runs
    <3>3. QED
      BY <1>1, <2>4, <3>1, <3>2 DEF Marked
  <2>7. CASE \E q \in Path : Embed(q) \/ EmbedFails(q)
    <3>1. UNCHANGED <<fts, dirtyPaths, edit>> /\ InHand' = InHand
      BY <2>2, <2>7 DEF Embed, EmbedFails, dirtyVars, Runs
    <3>2. QED
      BY <1>1, <2>4, <3>1 DEF Marked
  <2>8. CASE UpsertNote
    <3>1. Runs(Pdp) /\ AtWork /\ reading.path \in todo
      BY <2>1, <2>3, <2>8 DEF JobInPlace, Runs, AtWork, UpsertNote
    <3>2. reading.text = disk[reading.path] \/ reading.path \in Marked
      BY <1>1, <2>8, <3>1 DEF RowsAreAhead, UpsertNote
    <3>3. Marked' = Marked /\ InHand' = InHand
      BY <2>2, <2>8 DEF UpsertNote, Marked, dirtyVars, Runs
    <3>4. CASE p = reading.path
      BY <2>4, <2>8, <3>2, <3>3, <3>4 DEF UpsertNote, PipelineTypeOK
    <3>5. CASE p # reading.path
      BY <1>1, <2>4, <2>8, <3>3, <3>5 DEF UpsertNote, PipelineTypeOK
    <3>6. QED
      BY <3>4, <3>5
  <2>9. CASE LastCallReturns
    <3>1. UNCHANGED <<fts, dirtyPaths, edit>> /\ todo = {} /\ outcome = "ok" /\ AtWork
      BY <2>9 DEF LastCallReturns, dataVars, dirtyVars, JobInPlace, AtWork
    <3>2. Runs(Pdp) => \A q \in snapshot : fts[q] = disk[q] \/ q \in Marked
      BY <1>1, <3>1 DEF RowsAreAhead
    <3>3. QED
      BY <1>1, <2>4, <3>1, <3>2 DEF Marked
  <2>10. CASE Raise
    BY <1>1, <2>2, <2>4, <2>10 DEF Raise, dirtyVars, Marked
  <2>11. ~InterruptRunner
    BY DEF InterruptRunner, Crashing
  <2>12. CASE RestoreSnapshot
    BY <1>1, <2>1, <2>3, <2>4, <2>12 DEF RestoreSnapshot, dataVars, Marked, Runs
  <2>13. QED
    BY <1>4, <2>5, <2>6, <2>7, <2>8, <2>9, <2>10, <2>11, <2>12 DEF RunnerStep
<1>5. QED
  BY <1>2, <1>3, <1>4, StepIs

(* The same of vectors, which are behind their rows from the upsert on.    *)
LEMMA VectorsCoveredStep ==
  ASSUME WriterInv, PipelineTypeOK, JobsAreKnown, JobInPlace, CrashIsFinal,
         RowsAreAhead, VectorsAreAhead, StaleIsCovered, [PipelineNext]_pipelineVars, ~Crashing'
  PROVE  VectorsCovered'
<1> DEFINE InHand == IF step \in {"loop", "last", "except"} /\ (Runs(Pdp) \/ Runs(Flush))
                       THEN snapshot ELSE {}
           Named == dirtyEmbeddings \cup retryEmbeddings \cup refreshed \cup conflicts
                      \cup retries \cup kept \cup Marked
<1> USE DEF Matches, Tombstoned
<1>1. ~Crashing /\ (\A p \in Path : ~Matches(p) => p \in Named \cup InHand)
  BY CrashIsFinalStep DEF StaleIsCovered, VectorsCovered, VectorPending, KeywordPending, Marked, Runs
<1> SUFFICES ASSUME NEW p \in Path, ~Matches(p)'
             PROVE  p \in Named' \cup InHand'
  BY DEF VectorsCovered, VectorPending, KeywordPending, Marked, Runs
<1>2. CASE Elsewhere \/ MarkNote \/ \E q \in Path, text \in Stored : WriteNote(q, text)
  <2>1. UNCHANGED <<jobVars, fts, vec, kept, dirtyEmbeddings, retryEmbeddings>>
    BY <1>2, Beside
  <2>2. Marked \subseteq Marked'
    <3>1. DrainPaths => step' # step
      BY DEF DrainPaths
    <3>2. QED
      BY <2>1, <3>1, MarksMove DEF jobVars
  <2>3. InHand' = InHand
    <3>1. CASE step = "none"
      BY <2>1, <3>1 DEF jobVars, Runs
    <3>2. CASE step # "none"
      <4>1. ~FinishJob
        BY <2>1, <3>2 DEF FinishJob, jobVars
      <4>2. QED
        BY <2>1, <3>2, <4>1, JobKept DEF jobVars
    <3>3. QED
      BY <3>1, <3>2
  <2>4. QED
    BY <1>1, <2>1, <2>2, <2>3 DEF jobVars
<1>3. CASE StartJob \/ FinishJob
  <2>1. UNCHANGED <<vec, fts, kept, dirtyEmbeddings, retryEmbeddings, refreshed, conflicts, retries>>
        /\ Marked' = Marked
    BY <1>3 DEF StartJob, FinishJob, dataVars, dirtyVars, Marked
  <2>2. step \in {"none", "settle"}
    BY <1>3 DEF StartJob, Start, FinishJob, PipelineTypeOK
  <2>3. QED
    BY <1>1, <2>1, <2>2
<1>4. CASE RunnerStep
  <2>1. step # "none" /\ ~FinishJob
    BY <1>4, NoJobNoLine DEF RunnerStep, DrainPaths, DrainEmbeddings, ReadNote, ReadFails, Embed,
      EmbedFails, UpsertNote, PassEnds, LastCallReturns, Raise, InterruptRunner, RestoreSnapshot,
      MarkFollowUp, SubmitFlush, FinishJob
  <2>2. \A k : Runs(k)' <=> Runs(k)
    BY <2>1, JobKept
  <2>3. (Runs(Pdp) \/ Runs(Flush)) /\ Pdp # Flush /\ (Runs(Pdp) <=> kind[cur] = Pdp)
    BY <2>1, JobKept DEF JobsAreKnown, Pdp, Flush, Runs
  <2>4. CASE DrainPaths
    <3>1. UNCHANGED <<vec, fts, kept, dirtyEmbeddings, retryEmbeddings, refreshed, conflicts, retries>>
          /\ Marked \subseteq Marked' \cup snapshot' /\ step' = "loop" /\ step = "drain"
      BY <2>4 DEF DrainPaths, Marked, dataVars
    <3>2. QED
      BY <1>1, <2>2, <2>3, <3>1
  <2>5. CASE DrainEmbeddings
    <3>1. UNCHANGED <<vec, fts, kept, refreshed, conflicts, retries>>
          /\ Marked = Marked' /\ step' = "loop" /\ step = "drain"
          /\ snapshot' = dirtyEmbeddings \cup retryEmbeddings
      BY <2>5 DEF DrainEmbeddings, Marked, dataVars
    <3>2. QED
      BY <1>1, <2>2, <2>3, <3>1
  <2>6. CASE PassEnds \/ SubmitFlush \/ \E q \in Path : ReadNote(q) \/ ReadFails(q)
    <3>1. UNCHANGED <<vec, fts, kept, dirtyVars, edit, refreshed, conflicts, retries, snapshot>>
      BY <2>6 DEF PassEnds, SubmitFlush, ReadNote, ReadFails, dataVars, dirtyVars
    <3>2. InHand' = InHand
      BY <2>2, <2>6, <3>1 DEF PassEnds, SubmitFlush, ReadNote, ReadFails
    <3>3. QED
      BY <1>1, <3>1, <3>2 DEF Marked, dirtyVars
  <2>7. ASSUME NEW q \in Path, Embed(q) \/ EmbedFails(q)
        PROVE  p \in Named' \cup InHand'
    <3>1. UNCHANGED <<fts, dirtyVars, edit, refreshed, snapshot>> /\ conflicts \subseteq conflicts'
          /\ retries \subseteq retries' /\ step = "loop" /\ step' = "loop" /\ q \in snapshot
      BY <2>7 DEF Embed, EmbedFails, dirtyVars, PipelineTypeOK
    <3>2. InHand' = InHand /\ q \in InHand'
      BY <2>2, <2>3, <3>1
    <3>3. p # q => vec'[p] = vec[p] /\ (p \in kept => p \in kept')
      BY <2>7 DEF Embed, EmbedFails, PipelineTypeOK
    <3>4. QED
      BY <1>1, <3>1, <3>2, <3>3 DEF Marked, dirtyVars
  <2>8. CASE UpsertNote
    <3>1. UNCHANGED <<vec, kept, dirtyVars, edit, conflicts, retries, snapshot>>
          /\ refreshed' = refreshed \cup {reading.path} /\ InHand' = InHand
      BY <2>2, <2>8 DEF UpsertNote, dirtyVars
    <3>2. p # reading.path => fts'[p] = fts[p]
      BY <2>8 DEF UpsertNote, PipelineTypeOK
    <3>3. QED
      BY <1>1, <3>1, <3>2 DEF Marked, dirtyVars
  <2>9. CASE LastCallReturns
    <3>1. UNCHANGED <<vec, fts, kept, dirtyVars, edit, refreshed, conflicts, retries>>
          /\ todo = {} /\ outcome = "ok" /\ AtWork
      BY <2>9 DEF LastCallReturns, dataVars, dirtyVars, JobInPlace, AtWork
    <3>2. Runs(Pdp) => \A q \in snapshot : q \in refreshed
      BY <1>1, <3>1 DEF RowsAreAhead
    <3>3. Runs(Flush) => \A q \in snapshot : Matches(q) \/ q \in Named
      BY <1>1, <3>1 DEF VectorsAreAhead
    <3>4. QED
      BY <1>1, <2>3, <3>1, <3>2, <3>3 DEF Marked, dirtyVars
  <2>10. CASE Raise
    <3>1. UNCHANGED <<vec, fts, kept, dirtyVars, edit, refreshed, snapshot>>
          /\ step \in {"loop", "last"} /\ step' = "except"
      BY <2>10 DEF Raise, dirtyVars
    <3>2. conflicts \cup retries \subseteq snapshot
      BY DEF JobInPlace
    <3>3. InHand' = snapshot /\ InHand = snapshot
      BY <2>2, <2>3, <3>1
    <3>4. QED
      BY <1>1, <3>1, <3>2, <3>3 DEF Marked, dirtyVars
  <2>11. ~InterruptRunner
    BY DEF InterruptRunner, Crashing
  <2>12. CASE RestoreSnapshot
    <3>1. UNCHANGED <<vec, fts, kept, edit, retryEmbeddings, refreshed, conflicts, retries>>
      BY <2>12 DEF RestoreSnapshot, dataVars
    <3>2. Marked \subseteq Marked' /\ dirtyEmbeddings \subseteq dirtyEmbeddings'
          /\ snapshot \subseteq Marked' \cup dirtyEmbeddings'
      BY <2>12 DEF RestoreSnapshot, Marked, dataVars
    <3>3. QED
      BY <1>1, <3>1, <3>2
  <2>13. CASE MarkFollowUp
    <3>1. UNCHANGED <<vec, fts, kept, edit, dirtyPaths>> /\ step = "finally"
          /\ dirtyEmbeddings' = dirtyEmbeddings \cup FollowUp
          /\ retryEmbeddings' = retryEmbeddings \cup retries
      BY <2>13 DEF MarkFollowUp, dataVars
    <3>2. refreshed \cup conflicts \subseteq FollowUp
      BY <2>3 DEF FollowUp, JobInPlace
    <3>3. QED
      BY <1>1, <3>1, <3>2 DEF Marked
  <2>14. QED
    BY <1>4, <2>4, <2>5, <2>6, <2>7, <2>8, <2>9, <2>10, <2>11, <2>12, <2>13 DEF RunnerStep
<1>5. QED
  BY <1>2, <1>3, <1>4, StepIs

-----------------------------------------------------------------------------
(* The vault after its boot passes is covered.                             *)
LEMMA CoverStarts == PipelineInit => CoverInv
<1> SUFFICES ASSUME PipelineInit
             PROVE  CoverInv
  OBVIOUS
<1> USE PipelineAssumption
<1>1. WriterInv
  BY WriterInvInit DEF PipelineInit
<1>2. /\ step = "none" /\ pc = "idle" /\ outcome = "ok" /\ ~crashed
      /\ state = [f \in Future |-> "free"]
  BY DEF PipelineInit, WriterInit
<1>3. PipelineTypeOK
  <2>1. WriterTypeOK
    BY <1>1 DEF WriterInv
  <2>2. reading \in [path : Path \cup {None}, text : Stored]
    BY DEF PipelineInit, NoRead, Stored
  <2>3. edit \in [path : Path \cup {None}, at : {"none", "written", "marked"}]
    BY DEF PipelineInit, NoEdit
  <2>4. refresh \in [at : {"idle", "waiting", "returned", "raised"}, future : Future \cup {None}]
    BY DEF PipelineInit, NoRefresh
  <2>5. since \in [Path -> SUBSET Stored]
    BY DEF PipelineInit
  <2>6. 0 \in 0..MaxEdits /\ 0 \in 0..MaxFaults
    OBVIOUS
  <2>7. QED
    BY <1>2, <2>1, <2>2, <2>3, <2>4, <2>5, <2>6 DEF PipelineInit, PipelineTypeOK
<1>4. JobsAreKnown /\ WriteInPlace /\ CrashIsFinal
  BY <1>2 DEF PipelineInit, JobsAreKnown, WriteInPlace, CrashIsFinal, NoRefresh, NoEdit
<1>5. JobInPlace
  BY <1>2 DEF PipelineInit, JobInPlace, Runs
<1>6. RowsAreAhead /\ VectorsAreAhead
  BY <1>2 DEF RowsAreAhead, VectorsAreAhead, Runs
<1>7. StaleIsCovered
  BY DEF PipelineInit, StaleIsCovered, RowsCovered, VectorsCovered, Matches, Tombstoned
<1>8. QED
  BY <1>1, <1>3, <1>4, <1>5, <1>6, <1>7 DEF CoverInv

(* Every step of the worker, a tool, a refresh call or a close keeps it.   *)
LEMMA CoverStep == CoverInv /\ [PipelineNext]_pipelineVars => CoverInv'
<1> SUFFICES ASSUME CoverInv, [PipelineNext]_pipelineVars
             PROVE  CoverInv'
  OBVIOUS
<1>0. /\ WriterInv /\ PipelineTypeOK /\ JobsAreKnown /\ WriteInPlace
      /\ JobInPlace /\ CrashIsFinal
      /\ RowsAreAhead /\ VectorsAreAhead /\ StaleIsCovered
  BY DEF CoverInv
<1>1. WriterInv'
  BY <1>0, WriterMoves, WriterInvNext
<1>2. PipelineTypeOK' /\ JobsAreKnown' /\ WriteInPlace'
  BY <1>0, PipelineTypeStep, JobsStayKnown, WriteInPlaceStep
<1>3. JobInPlace' /\ CrashIsFinal'
  BY <1>0, JobInPlaceStep, CrashIsFinalStep
<1>4. RowsAreAhead' /\ VectorsAreAhead'
  BY <1>0, RowsAreAheadStep, VectorsAreAheadStep
<1>5. StaleIsCovered'
  BY <1>0, RowsCoveredStep, VectorsCoveredStep DEF StaleIsCovered
<1>6. QED
  BY <1>1, <1>2, <1>3, <1>4, <1>5 DEF CoverInv

(* The invariant holds in every reachable state: of the writer under the   *)
(* jobs, of the job's local sets at each of its lines, and of the marks.   *)
THEOREM CoverInvariant == PipelineSpec => []CoverInv
  BY CoverStarts, CoverStep, PTL DEF PipelineSpec

(* Whatever the tools, runners, refresh calls and closes do in any order,  *)
(* the writer sees a behaviour of its own specification: what is proved of *)
(* IndexWriter holds of it here too (index_writer.py:282-363).             *)
THEOREM PipelineRunsOnWriter == PipelineSpec => WriterSpec
<1>1. PipelineInit => WriterInit
  BY DEF PipelineInit
<1>2. CoverInv /\ [PipelineNext]_pipelineVars => [WriterNext]_writerVars
  BY WriterMoves DEF CoverInv
<1>3. QED
  BY <1>1, <1>2, CoverInvariant, PTL DEF PipelineSpec, WriterSpec

(* No keyword row and no vector that is out of date is ever forgotten      *)
(* while the writer lives: some set that a later job drains, or the        *)
(* snapshot of the running one, names it (index_writer.py:405-423,         *)
(* 444-489).                                                               *)
THEOREM StaleIsCoveredHolds == PipelineSpec => []StaleIsCovered
<1>1. CoverInv => StaleIsCovered
  BY DEF CoverInv
<1>2. QED
  BY <1>1, CoverInvariant, PTL

-----------------------------------------------------------------------------
(* The barrier.                                                            *)

(* A call of prepare_index_read that has begun keeps its Future; it has    *)
(* its answer once that Future is done, which only the end of its job      *)
(* without an exception makes it (coordinator.py:263-280).                 *)
LEMMA CallKept ==
  ASSUME WriterInv, PipelineTypeOK, JobsAreKnown, [PipelineNext]_pipelineVars, ~RefreshBegin
  PROVE  /\ \A p \in Path : since[p] \subseteq since'[p]
         /\ Asked' => Asked /\ refresh'.future = refresh.future
         /\ refresh'.at = "waiting" => refresh.at = "waiting"
         /\ Asked' /\ Answered => Answered'
         /\ Answered' => Answered \/ (FinishJob /\ outcome = "ok" /\ refresh.at = "waiting"
                                        /\ cur = refresh.future)
<1> DEFINE Grows == \A p \in Path : since[p] \subseteq since'[p]
<1>0. /\ WriterTypeOK /\ refresh \in [at : {"idle", "waiting", "returned", "raised"}, future : Future \cup {None}]
      /\ since \in [Path -> SUBSET Stored]
      /\ refresh.at # "idle" => refresh.future \in Future /\ state[refresh.future] # "free"
  BY DEF PipelineTypeOK, JobsAreKnown
<1> USE DEF Asked, Answered
<1>1. ASSUME Grows, refresh' = refresh,
             refresh.at # "idle" => (state'[refresh.future] = "done" <=> state[refresh.future] = "done")
      PROVE  /\ Asked' => Asked /\ refresh'.future = refresh.future
             /\ refresh'.at = "waiting" => refresh.at = "waiting"
             /\ Asked' /\ Answered => Answered'
             /\ Answered' => Answered
  BY <1>1
<1>2. CASE LoopStep
  <2>1. refresh' = refresh /\ since' = since
    BY <1>2 DEF LoopStep, refreshVars
  <2>2. \A f \in Future : state'[f] = "done" <=> state[f] = "done"
    <3>1. CASE state' = state
      BY <3>1
    <3>2. CASE state' # state
      <4>1. PICK f \in Future : CancelDoomed(f)
        BY <1>2, <3>2 DEF LoopStep, Pop, Exit, Claim, Skip, Release, Abort, Die
      <4>2. QED
        BY <1>0, <4>1 DEF CancelDoomed, WriterTypeOK
    <3>3. QED
      BY <3>1, <3>2
  <2>3. QED
    BY <1>0, <1>1, <2>1, <2>2
<1>3. CASE StartJob
  <2>1. refresh' = refresh /\ since' = since /\ cur \in Future
    BY <1>0, <1>3 DEF StartJob, Start, refreshVars, WriterTypeOK
  <2>2. \A f \in Future : state'[f] = "done" <=> state[f] = "done"
    BY <1>0, <1>3, <2>1 DEF StartJob, Start, WriterTypeOK
  <2>3. QED
    BY <1>0, <1>1, <2>1, <2>2
<1>4. CASE FinishJob
  <2>1. refresh' = refresh /\ since' = since
    BY <1>4 DEF FinishJob, refreshVars
  <2>2. cur \in Future /\ state[cur] = "running"
    <3>1. pc = "running"
      BY <1>4 DEF FinishJob, Settle, Interrupt
    <3>2. QED
      BY <3>1, <1>0 DEF WriterTypeOK, WriterInv, WorkerHolds
  <2>3. \A f \in Future : f # cur => state'[f] = state[f]
    BY <1>0, <1>4, <2>2 DEF FinishJob, Settle, Interrupt, WriterTypeOK
  <2>4. state'[cur] = "done" => outcome = "ok"
    BY <1>0, <1>4, <2>2 DEF FinishJob, Settle, Interrupt, WriterTypeOK
  <2>5. QED
    BY <1>0, <1>4, <2>1, <2>2, <2>3, <2>4
<1>5. CASE RunnerStep \/ (\E p \in Path, text \in Stored : WriteNote(p, text)) \/ MarkNote \/ SubmitMarked \/ CloseVault
           \/ UNCHANGED pipelineVars
  <2>1. refresh' = refresh
    BY <1>5 DEF RunnerStep, DrainPaths, DrainEmbeddings, ReadNote, ReadFails, Embed, EmbedFails,
      UpsertNote, PassEnds, LastCallReturns, Raise, InterruptRunner, RestoreSnapshot, MarkFollowUp,
      SubmitFlush, WriteNote, MarkNote, SubmitMarked, CloseVault, pipelineVars, refreshVars
  <2>2. Grows
    <3>1. CASE \E p \in Path, text \in Stored : WriteNote(p, text)
      BY <1>0, <3>1 DEF WriteNote
    <3>2. CASE ~\E p \in Path, text \in Stored : WriteNote(p, text)
      <4>1. since' = since
        BY <1>5, <3>2 DEF RunnerStep, DrainPaths, DrainEmbeddings, ReadNote, ReadFails, Embed, EmbedFails,
          UpsertNote, PassEnds, LastCallReturns, Raise, InterruptRunner, RestoreSnapshot, MarkFollowUp,
          SubmitFlush, MarkNote, SubmitMarked, CloseVault, pipelineVars, refreshVars
      <4>2. QED
        BY <4>1
    <3>3. QED
      BY <3>1, <3>2
  <2>3. \A f \in Future : state[f] # "free" => state'[f] = state[f]
    <3>1. ASSUME NEW k, Spare # {}, Enqueue(Fresh, k)
          PROVE  \A f \in Future : state[f] # "free" => state'[f] = state[f]
      BY <1>0, <3>1, FreshIsFree DEF Enqueue, WriterTypeOK
    <3>2. CASE SubmitFlush
      BY <3>1, <3>2 DEF SubmitFlush, SubmitOnWorker
    <3>3. CASE SubmitMarked
      <4>1. CASE closed
        BY <3>3, <4>1 DEF SubmitMarked, writerVars
      <4>2. CASE ~closed
        BY <3>1, <3>3, <4>2 DEF SubmitMarked, SubmitExternal
      <4>3. QED
        BY <4>1, <4>2
    <3>4. CASE ~SubmitFlush /\ ~SubmitMarked
      <4>1. state' = state
        BY <1>5, <3>4 DEF RunnerStep, DrainPaths, DrainEmbeddings, ReadNote, ReadFails, Embed, EmbedFails,
          UpsertNote, PassEnds, LastCallReturns, Raise, InterruptRunner, RestoreSnapshot, MarkFollowUp,
          WriteNote, MarkNote, CloseVault, CloserStep, CloseMark, ClosePost, CloseJoin, pipelineVars, writerVars
      <4>2. QED
        BY <4>1
    <3>5. QED
      BY <3>2, <3>3, <3>4
  <2>4. QED
    BY <1>0, <1>1, <2>1, <2>2, <2>3
<1>6. CASE RefreshReturns
  BY <1>0, <1>6 DEF RefreshReturns, writerVars
<1>7. CASE RefreshTimesOut
  BY <1>0, <1>7 DEF RefreshTimesOut
<1>8. QED
  BY <1>2, <1>3, <1>4, <1>5, <1>6, <1>7 DEF PipelineNext, WorkerStep, WriteStep, RefreshStep

(* A caller that accepts what the files say now, and anything of a file    *)
(* that is being written, finds every other row on its way: rows are       *)
(* covered, so what it must not see is marked or in the running refresh's  *)
(* snapshot (index_writer.py:444-467).                                     *)
LEMMA OnItsWayBegins ==
  ASSUME CoverInv, ~Crashing, NEW s,
         \A p \in Path : disk[p] \in s[p] /\ (p \in Marked => p \in dirtyPaths \/ Stored \subseteq s[p])
  PROVE  OnItsWay(s)
<1>0. /\ PipelineTypeOK /\ RowsAreAhead /\ StaleIsCovered
      /\ fts \in [Path -> Stored] /\ snapshot \subseteq Path /\ reading.text \in Stored
      /\ todo \subseteq snapshot
      /\ (step = "loop" /\ reading # NoRead => reading.path \in todo)
  BY DEF CoverInv, PipelineTypeOK, JobInPlace
<1>1. ASSUME NEW p \in Path
      PROVE  fts[p] \in s[p] \/ p \in dirtyPaths
               \/ (Runs(Pdp) /\ step \in {"loop", "last", "except"} /\ p \in snapshot)
  <2>1. CASE fts[p] # disk[p]
    <3>1. p \in KeywordPending
      BY <1>0, <2>1 DEF StaleIsCovered, RowsCovered
    <3>2. p \in Marked \/ (Runs(Pdp) /\ step \in {"loop", "last", "except"} /\ p \in snapshot)
      BY <3>1 DEF KeywordPending, Marked, Runs
    <3>3. QED
      BY <1>0, <3>2
  <2>2. QED
    BY <2>1
<1>2. ASSUME Runs(Pdp), step = "loop", reading # NoRead
      PROVE  reading.text \in s[reading.path] \/ reading.path \in dirtyPaths
  <2>1. reading.text = disk[reading.path] \/ reading.path \in Marked
    BY <1>0, <1>2 DEF RowsAreAhead, AtWork
  <2>2. reading.path \in Path
    BY <1>0, <1>2
  <2>3. QED
    BY <1>0, <2>1, <2>2
<1>3. ASSUME Runs(Pdp), AtWork, outcome = "ok", NEW p \in snapshot \ todo
      PROVE  fts[p] \in s[p] \/ p \in dirtyPaths
  <2>1. fts[p] = disk[p] \/ p \in Marked
    BY <1>0, <1>3 DEF RowsAreAhead
  <2>2. fts[p] \in Stored /\ p \in Path
    BY <1>0
  <2>3. QED
    BY <2>1, <2>2
<1>4. QED
  BY <1>1, <1>2, <1>3 DEF OnItsWay, ReadTimely

(* Rows change by an upsert alone, and what an upsert writes was read from *)
(* the file (managers/index.py:1193-1270).                                 *)
LEMMA RowsMove ==
  ASSUME CoverInv, [PipelineNext]_pipelineVars
  PROVE  /\ ~UpsertNote => fts' = fts
         /\ UpsertNote => /\ reading.path \in todo /\ reading.path \in Path /\ reading' = NoRead
                          /\ fts'[reading.path] = reading.text
                          /\ \A p \in Path : p # reading.path => fts'[p] = fts[p]
         /\ step' = "loop" /\ reading' # NoRead =>
              \/ reading' = reading /\ step = "loop" /\ reading.path \in Path
              \/ reading'.path \in Path /\ reading'.text = disk[reading'.path] /\ disk' = disk
                 /\ kind[cur] = Pdp /\ step = "loop"
<1>0. /\ JobInPlace /\ fts \in [Path -> Stored] /\ todo \subseteq snapshot /\ snapshot \subseteq Path
  BY DEF CoverInv, PipelineTypeOK
<1>1. ~UpsertNote => fts' = fts
  <2>1. CASE RunnerStep
    BY <2>1 DEF RunnerStep, DrainPaths, DrainEmbeddings, ReadNote, ReadFails, Embed, EmbedFails,
      PassEnds, LastCallReturns, Raise, InterruptRunner, RestoreSnapshot, MarkFollowUp,
      SubmitFlush, dataVars
  <2>2. CASE StartJob \/ FinishJob
    BY <2>2 DEF StartJob, FinishJob, dataVars
  <2>3. QED
    BY <2>1, <2>2, StepIs, Beside
<1>2. UpsertNote => /\ reading.path \in todo /\ reading.path \in Path /\ reading' = NoRead
                    /\ fts'[reading.path] = reading.text
                    /\ \A p \in Path : p # reading.path => fts'[p] = fts[p]
  BY <1>0 DEF UpsertNote, JobInPlace
<1>3. ASSUME step' = "loop", reading' # NoRead
      PROVE  \/ reading' = reading /\ step = "loop" /\ reading.path \in Path
             \/ reading'.path \in Path /\ reading'.text = disk[reading'.path] /\ disk' = disk
                /\ kind[cur] = Pdp /\ step = "loop"
  <2>1. reading # NoRead /\ step = "loop" => reading.path \in Path
    BY <1>0 DEF JobInPlace
  <2>2. CASE UNCHANGED jobVars
    BY <1>3, <2>1, <2>2 DEF jobVars
  <2>3. CASE RunnerStep
    <3>1. CASE \E p \in Path : ReadNote(p)
      BY <3>1 DEF ReadNote, dataVars
    <3>2. CASE DrainPaths \/ DrainEmbeddings
      BY <1>0, <1>3, <3>2 DEF DrainPaths, DrainEmbeddings, JobInPlace
    <3>3. CASE ~(\E p \in Path : ReadNote(p)) /\ ~DrainPaths /\ ~DrainEmbeddings
      <4>1. reading' = reading /\ step = "loop"
        BY <1>2, <1>3, <2>3, <3>3 DEF RunnerStep, ReadFails, Embed, EmbedFails, UpsertNote,
          PassEnds, LastCallReturns, Raise, InterruptRunner, RestoreSnapshot, MarkFollowUp,
          SubmitFlush
      <4>2. QED
        BY <1>3, <2>1, <4>1
    <3>4. QED
      BY <3>1, <3>2, <3>3
  <2>4. CASE StartJob \/ FinishJob
    BY <1>3, <2>4 DEF StartJob, FinishJob
  <2>5. QED
    BY <2>2, <2>3, <2>4, StepIs, Beside
<1>4. QED
  BY <1>1, <1>2, <1>3

(* Rows that are all acceptable stay so: whatever is read from now on is.  *)
LEMMA AllTimelyStep ==
  ASSUME CoverInv, [PipelineNext]_pipelineVars, NEW s, NEW t,
         \A p \in Path : disk[p] \in s[p] /\ s[p] \subseteq t[p],
         AllTimely(s)
  PROVE  AllTimely(t)'
<1>1. ReadTimely(s) /\ \A p \in Path : fts[p] \in t[p]
  BY DEF AllTimely
<1>2. ReadTimely(t)'
  <2> SUFFICES ASSUME step' = "loop", reading' # NoRead
               PROVE  reading'.text \in t[reading'.path]
    BY DEF ReadTimely
  <2>1. CASE reading' = reading /\ step = "loop" /\ reading.path \in Path
    BY <1>1, <2>1 DEF ReadTimely
  <2>2. CASE reading'.path \in Path /\ reading'.text = disk[reading'.path]
    BY <2>2
  <2>3. QED
    BY <2>1, <2>2, RowsMove
<1>3. \A p \in Path : fts'[p] \in t[p]
  <2>1. CASE UpsertNote
    <3>1. reading.text \in s[reading.path]
      BY <1>1, <2>1 DEF ReadTimely, UpsertNote
    <3>2. QED
      BY <1>1, <2>1, <3>1, RowsMove
  <2>2. CASE ~UpsertNote
    BY <1>1, <2>2, RowsMove
  <2>3. QED
    BY <2>1, <2>2
<1>4. QED
  BY <1>2, <1>3 DEF AllTimely

(* What is on its way to a refresh stays on its way.                       *)
LEMMA OnItsWayStep ==
  ASSUME CoverInv, CoverInv', [PipelineNext]_pipelineVars, ~Crashing', NEW s, NEW t,
         \A p \in Path : disk[p] \in s[p] /\ s[p] \subseteq t[p],
         OnItsWay(s)
  PROVE  OnItsWay(t)'
<1> DEFINE InHand(p) == Runs(Pdp) /\ step \in {"loop", "last", "except"} /\ p \in snapshot
           Old(p) == fts[p] \in s[p]
           New(p) == fts'[p] \in t[p]
<1> SUFFICES /\ \A p \in Path : New(p) \/ p \in dirtyPaths' \/ InHand(p)'
             /\ Runs(Pdp)' => ReadTimely(t)' \/ reading'.path \in dirtyPaths'
             /\ Runs(Pdp)' /\ AtWork' /\ outcome' = "ok" =>
                  \A p \in (snapshot \ todo)' : New(p) \/ p \in dirtyPaths'
  BY DEF OnItsWay
<1>0. /\ WriterInv /\ PipelineTypeOK /\ JobsAreKnown /\ JobInPlace /\ CrashIsFinal
      /\ todo \subseteq snapshot /\ snapshot \subseteq Path
      /\ (step = "none" <=> pc # "running")
  BY DEF CoverInv, PipelineTypeOK
<1>2. /\ \A p \in Path : Old(p) \/ p \in dirtyPaths \/ InHand(p)
      /\ Runs(Pdp) => ReadTimely(s) \/ reading.path \in dirtyPaths
      /\ Runs(Pdp) /\ AtWork /\ outcome = "ok" =>
           \A p \in snapshot \ todo : Old(p) \/ p \in dirtyPaths
  BY DEF OnItsWay
<1>3. /\ ~UpsertNote => \A p \in Path : Old(p) => New(p)
      /\ UpsertNote => /\ \A p \in Path : p # reading.path /\ Old(p) => New(p)
                       /\ reading.text \in s[reading.path] => New(reading.path)
                       /\ reading.path \in todo /\ reading.path \in Path /\ reading' = NoRead
  BY RowsMove
<1>4. dirtyPaths \subseteq dirtyPaths' \/ DrainPaths
  <2>1. CASE RunnerStep
    BY <2>1 DEF RunnerStep, DrainEmbeddings, ReadNote, ReadFails, Embed, EmbedFails, UpsertNote,
      PassEnds, LastCallReturns, Raise, InterruptRunner, RestoreSnapshot, MarkFollowUp,
      SubmitFlush, dirtyVars
  <2>2. CASE ~RunnerStep
    BY <2>2, StepIs DEF Elsewhere, StartJob, FinishJob, WriteNote, MarkNote, dirtyVars
  <2>3. QED
    BY <2>1, <2>2
<1> HIDE DEF Old, New
<1>5. CASE step = "none" \/ FinishJob
  <2>1. ~UpsertNote /\ ~DrainPaths /\ (\A p \in Path : ~InHand(p))
    BY <1>5 DEF UpsertNote, DrainPaths, FinishJob, Runs
  <2>2. step' \in {"none", "drain"}
    BY <1>0, <1>5, StepIs, NoJobNoLine, Beside DEF jobVars, StartJob, FinishJob
  <2>3. QED
    BY <1>2, <1>3, <1>4, <2>1, <2>2 DEF Runs, AtWork, ReadTimely
<1>6. CASE step # "none" /\ ~FinishJob
  <2>1. \A k : Runs(k)' <=> Runs(k)
    BY <1>0, <1>6, JobKept
  <2>2. (kind[cur] = Pdp \/ kind[cur] = Flush) /\ (Runs(Pdp) <=> kind[cur] = Pdp) /\ Pdp # Flush
    BY <1>0, <1>6, JobKept DEF JobsAreKnown, Runs, Pdp, Flush
  <2>3. (Runs(Pdp)' => ReadTimely(t)' \/ reading'.path \in dirtyPaths')
    <3> SUFFICES ASSUME Runs(Pdp), step' = "loop", reading' # NoRead
                 PROVE  reading'.text \in t[reading'.path] \/ reading'.path \in dirtyPaths'
      BY <2>1 DEF ReadTimely
    <3>1. CASE reading' = reading /\ step = "loop" /\ reading.path \in Path
      <4>1. ~DrainPaths
        BY <3>1 DEF DrainPaths
      <4>2. reading.text \in s[reading.path] \/ reading.path \in dirtyPaths
        BY <1>2, <3>1 DEF ReadTimely
      <4>3. QED
        BY <1>4, <3>1, <4>1, <4>2
    <3>2. CASE reading'.path \in Path /\ reading'.text = disk[reading'.path] /\ disk' = disk
      BY <3>2
    <3>3. QED
      BY <3>1, <3>2, RowsMove
  <2>4. CASE UNCHANGED <<jobVars, fts>> \/ (\E p \in Path : ReadNote(p) \/ ReadFails(p)) \/ PassEnds
    <3>1. ~UpsertNote /\ ~DrainPaths
      BY <2>4 DEF jobVars, UpsertNote, DrainPaths, ReadNote, ReadFails, PassEnds, NoRead
    <3>2. \A p \in Path : InHand(p) => InHand(p)'
      BY <2>1, <2>4 DEF jobVars, ReadNote, ReadFails, PassEnds
    <3>3. Runs(Pdp) /\ AtWork' /\ outcome' = "ok" => AtWork /\ outcome = "ok" /\ (snapshot \ todo)' = snapshot \ todo
      BY <2>4 DEF jobVars, ReadNote, ReadFails, PassEnds, AtWork
    <3>4. \A p \in Path : New(p) \/ p \in dirtyPaths' \/ InHand(p)'
      BY <1>2, <1>3, <1>4, <3>1, <3>2
    <3>5. Runs(Pdp)' /\ AtWork' /\ outcome' = "ok" => \A p \in (snapshot \ todo)' : New(p) \/ p \in dirtyPaths'
      BY <1>0, <1>2, <1>3, <1>4, <2>1, <3>1, <3>3
    <3>6. QED
      BY <2>3, <3>4, <3>5
  <2>5. CASE DrainPaths
    BY <1>2, <1>3, <2>1, <2>2, <2>3, <2>5 DEF DrainPaths, UpsertNote, AtWork
  <2>6. CASE UpsertNote
    <3>1. dirtyPaths' = dirtyPaths /\ Runs(Pdp) /\ step = "loop" /\ reading # NoRead
      BY <1>0, <1>6, <2>2, <2>6 DEF UpsertNote, dirtyVars, JobInPlace, Runs
    <3>2. New(reading.path) \/ reading.path \in dirtyPaths'
      BY <1>2, <1>3, <2>6, <3>1 DEF ReadTimely
    <3>3. \A p \in Path : InHand(p) => InHand(p)'
      BY <2>1, <2>6 DEF UpsertNote
    <3>4. ASSUME NEW p \in Path
          PROVE  New(p) \/ p \in dirtyPaths' \/ InHand(p)'
      <4>1. CASE p = reading.path
        BY <3>2, <4>1
      <4>2. CASE p # reading.path
        <5>1. Old(p) => New(p)
          BY <1>3, <2>6, <4>2
        <5>2. QED
          BY <1>2, <3>1, <3>3, <5>1
      <4>3. QED
        BY <4>1, <4>2
    <3>5. ASSUME outcome' = "ok", NEW p \in (snapshot \ todo)'
          PROVE  New(p) \/ p \in dirtyPaths'
      <4>1. p \in Path /\ (p = reading.path \/ p \in snapshot \ todo) /\ outcome = "ok" /\ AtWork
        BY <1>0, <2>6, <3>5 DEF UpsertNote, AtWork
      <4>2. CASE p = reading.path
        BY <3>2, <4>2
      <4>3. CASE p # reading.path
        <5>1. Old(p) => New(p)
          BY <1>3, <2>6, <4>1, <4>3
        <5>2. Old(p) \/ p \in dirtyPaths
          BY <1>2, <3>1, <4>1, <4>3
        <5>3. QED
          BY <3>1, <5>1, <5>2
      <4>4. QED
        BY <4>2, <4>3
    <3>6. QED
      BY <2>3, <3>4, <3>5
  <2>7. CASE kind[cur] = Flush /\ ~UpsertNote /\ ~DrainPaths
    BY <1>2, <1>3, <1>4, <2>1, <2>2, <2>7
  <2>8. CASE kind[cur] = Pdp /\ LastCallReturns
    <3>1. todo = {} /\ outcome = "ok" /\ AtWork /\ Runs(Pdp) /\ ~UpsertNote /\ ~DrainPaths /\ step' = "finally"
      BY <1>0, <2>2, <2>8 DEF LastCallReturns, JobInPlace, AtWork, UpsertNote, DrainPaths
    <3>2. \A p \in Path : Old(p) \/ p \in dirtyPaths
      BY <1>2, <3>1
    <3>3. QED
      BY <1>3, <1>4, <2>3, <3>1, <3>2 DEF AtWork
  <2>9. CASE kind[cur] = Pdp /\ Raise
    <3>1. snapshot' = snapshot /\ step' = "except" /\ step \in {"loop", "last"} /\ ~UpsertNote /\ ~DrainPaths
      BY <2>9 DEF Raise, UpsertNote, DrainPaths
    <3>2. QED
      BY <1>2, <1>3, <1>4, <2>1, <2>3, <3>1 DEF AtWork
  <2>10. CASE kind[cur] = Pdp /\ RestoreSnapshot
    <3>1. dirtyPaths' = dirtyPaths \cup snapshot /\ step' = "finally" /\ ~UpsertNote
      BY <2>10 DEF RestoreSnapshot, UpsertNote
    <3>2. QED
      BY <1>2, <1>3, <2>3, <3>1 DEF AtWork
  <2>11. CASE MarkFollowUp \/ SubmitFlush
    <3>1. ~UpsertNote /\ ~DrainPaths /\ step \in {"finally", "submit"} /\ step' \in {"submit", "settle"}
      BY <2>11 DEF MarkFollowUp, SubmitFlush, UpsertNote, DrainPaths
    <3>2. QED
      BY <1>2, <1>3, <1>4, <2>3, <3>1 DEF AtWork
  <2>12. ~InterruptRunner /\ ~StartJob
    BY <1>0, <1>6 DEF InterruptRunner, Crashing, StartJob, Start
  <2>13. CASE DrainEmbeddings \/ \E p \in Path : Embed(p) \/ EmbedFails(p)
    BY <2>7, <2>13 DEF DrainEmbeddings, Embed, EmbedFails, UpsertNote, DrainPaths, Pdp, Flush,
      CoverInv, JobInPlace, Runs
  <2>14. CASE RunnerStep
    <3>1. LastCallReturns \/ Raise \/ RestoreSnapshot => ~UpsertNote /\ ~DrainPaths
      BY DEF LastCallReturns, Raise, RestoreSnapshot, UpsertNote, DrainPaths
    <3>2. QED
      BY <2>2, <2>4, <2>5, <2>6, <2>7, <2>8, <2>9, <2>10, <2>11, <2>12, <2>13, <2>14, <3>1 DEF RunnerStep
  <2>15. QED
    BY <1>6, <2>4, <2>12, <2>14, StepIs, Beside
<1>7. QED
  BY <1>5, <1>6

(* The call of prepare_index_read begins with everything it must see on    *)
(* its way, but for a note that is being written right now.                *)
LEMMA BarrierBegins ==
  ASSUME CoverInv, RefreshBegin
  PROVE  BarrierInv'
<1>0. WriterInv /\ PipelineTypeOK /\ WriterTypeOK
  BY DEF CoverInv, PipelineTypeOK
<1>1. /\ Fresh \in Future /\ state[Fresh] = "free"
      /\ refresh' = [at |-> "waiting", future |-> Fresh]
      /\ UNCHANGED <<disk, fts, edit, dirtyPaths, jobVars, cur, pc, crashed>>
  BY FreshIsFree DEF RefreshBegin, SubmitExternal, dataVars, dirtyVars
<1>2. state'[Fresh] = "pending"
  BY <1>0, <1>1 DEF RefreshBegin, SubmitExternal, Enqueue, WriterTypeOK
<1>3. ~Answered'
  BY <1>1, <1>2 DEF Answered
<1>4. PICK s : s = since'
  OBVIOUS
<1>5. \A p \in Path : disk[p] \in s[p] /\ (edit.at = "written" /\ edit.path = p => s[p] = Stored)
  <2> SUFFICES ASSUME NEW p \in Path
               PROVE  disk[p] \in s[p] /\ (edit.at = "written" /\ edit.path = p => s[p] = Stored)
    OBVIOUS
  <2>1. s[p] = IF edit = [path |-> p, at |-> "written"] THEN Stored ELSE {disk[p]}
    BY <1>4 DEF RefreshBegin
  <2>2. disk[p] \in Stored
    BY <1>0 DEF PipelineTypeOK
  <2>3. edit.at = "written" /\ edit.path = p => edit = [path |-> p, at |-> "written"]
    BY <1>0 DEF PipelineTypeOK
  <2>4. QED
    BY <2>1, <2>2, <2>3
<1>6. ~Crashing' => OnItsWay(s)
  BY <1>1, <1>5, OnItsWayBegins DEF Crashing, jobVars, Marked
<1>7. \A k : Runs(k)' <=> Runs(k)
  <2>1. CASE step = "none"
    BY <1>1, <2>1 DEF jobVars, Runs
  <2>2. CASE step # "none"
    <3>1. kind'[cur] = kind[cur]
      <4>1. cur \in Future /\ state[cur] = "running"
        BY <1>0, <2>2 DEF PipelineTypeOK, WriterTypeOK, WriterInv, WorkerHolds
      <4>2. QED
        BY <1>0, <1>1, <4>1 DEF RefreshBegin, SubmitExternal, Enqueue, WriterTypeOK
    <3>2. QED
      BY <1>1, <3>1 DEF jobVars, Runs
  <2>3. QED
    BY <2>1, <2>2
<1>8. ~Crashing' => OnItsWay(s)'
  BY <1>1, <1>6, <1>7 DEF OnItsWay, ReadTimely, AtWork, jobVars
<1>9. RefreshWillSee'
  BY <1>4, <1>8 DEF RefreshWillSee, OnItsWay, ReadTimely
<1>10. step # "none" => cur # Fresh
  BY <1>0, <1>1 DEF PipelineTypeOK, WriterTypeOK, WriterInv, WorkerHolds
<1>11. SinceHasNow'
  BY <1>1, <1>4, <1>5 DEF SinceHasNow
<1>12. RefreshSees' /\ RefreshSaw'
  BY <1>1, <1>3, <1>10 DEF RefreshSees, RefreshSaw, jobVars
<1>13. QED
  BY <1>9, <1>11, <1>12 DEF BarrierInv

(* What every step but the begin of the call does to what the barrier      *)
(* speaks of: rows that are in time stay so, but for an upsert.            *)
LEMMA InTimeStays ==
  ASSUME CoverInv, BarrierInv, [PipelineNext]_pipelineVars, ~RefreshBegin
  PROVE  /\ SinceHasNow'
         /\ ~UpsertNote => \A p \in Path : InTime(p) => InTime(p)'
         /\ UpsertNote => /\ \A p \in Path : p # reading.path /\ InTime(p) => InTime(p)'
                          /\ reading.text \in since[reading.path] => fts'[reading.path] \in since'[reading.path]
                          /\ reading.path \in todo /\ reading.path \in Path /\ reading' = NoRead
<1>0. /\ WriterInv /\ PipelineTypeOK /\ JobsAreKnown
      /\ \A p \in Path : since[p] \subseteq since'[p]
      /\ Asked' => Asked
      /\ disk \in [Path -> Stored]
  BY CallKept DEF CoverInv, PipelineTypeOK
<1>1. ASSUME NEW p \in Path, NEW text \in Stored, WriteNote(p, text)
      PROVE  \A q \in Path : disk'[q] \in since'[q] \/ (q # p /\ disk'[q] = disk[q])
  BY <1>0, <1>1 DEF WriteNote, PipelineTypeOK
<1>2. SinceHasNow'
  <2>1. CASE disk' = disk
    BY <1>0, <2>1 DEF SinceHasNow, BarrierInv
  <2>2. CASE disk' # disk
    <3>1. PICK p \in Path, text \in Stored : WriteNote(p, text)
      BY <1>0, <2>2, MarksMove
    <3>2. QED
      BY <1>0, <1>1, <3>1 DEF SinceHasNow, BarrierInv
  <2>3. QED
    BY <2>1, <2>2
<1>3. \A p \in Path : ~UpsertNote /\ InTime(p) => InTime(p)'
  BY <1>0, RowsMove DEF InTime
<1>4. ASSUME UpsertNote
      PROVE  /\ \A p \in Path : p # reading.path /\ InTime(p) => InTime(p)'
             /\ reading.text \in since[reading.path] => fts'[reading.path] \in since'[reading.path]
             /\ reading.path \in todo /\ reading.path \in Path /\ reading' = NoRead
  BY <1>0, <1>4, RowsMove DEF InTime
<1>5. QED
  BY <1>2, <1>3, <1>4

(* Until its answer, what the call must see is on its way.                 *)
LEMMA WillSeeStep ==
  ASSUME CoverInv, CoverInv', BarrierInv, [PipelineNext]_pipelineVars, ~RefreshBegin
  PROVE  RefreshWillSee'
<1> SUFFICES ASSUME Asked', ~Answered', ~Crashing'
             PROVE  OnItsWay(since)'
  BY DEF RefreshWillSee
<1>1. /\ Asked /\ ~Answered /\ ~Crashing
      /\ \A p \in Path : disk[p] \in since[p] /\ since[p] \subseteq since'[p]
  BY CallKept, CrashIsFinalStep DEF CoverInv, BarrierInv, SinceHasNow
<1>2. PICK s, t : s = since /\ t = since'
  OBVIOUS
<1>3. OnItsWay(s)
  BY <1>1, <1>2 DEF BarrierInv, RefreshWillSee, OnItsWay, ReadTimely
<1>4. \A p \in Path : disk[p] \in s[p] /\ s[p] \subseteq t[p]
  BY <1>1, <1>2
<1>5. OnItsWay(t)'
  BY <1>3, <1>4, OnItsWayStep
<1>6. QED
  BY <1>2, <1>5 DEF OnItsWay, ReadTimely

(* The refresh the call waits for reads nothing from before it: what is    *)
(* not in its snapshot was in time, what it is done with is.               *)
LEMMA SeesStep ==
  ASSUME CoverInv, BarrierInv, [PipelineNext]_pipelineVars, ~RefreshBegin
  PROVE  RefreshSees'
<1> SUFFICES ASSUME refresh'.at = "waiting", step' # "none", cur' = refresh'.future
             PROVE  /\ ReadInTime'
                    /\ (step \in {"loop", "last"} => \A p \in Path \ snapshot : InTime(p))'
                    /\ (AtWork /\ outcome = "ok" => \A p \in snapshot \ todo : InTime(p))'
                    /\ (step \in {"finally", "submit", "settle"} /\ outcome = "ok" =>
                          \A p \in Path : InTime(p))'
  BY DEF RefreshSees
<1>0. /\ WriterInv /\ PipelineTypeOK /\ JobsAreKnown /\ JobInPlace /\ CrashIsFinal
      /\ todo \subseteq snapshot /\ snapshot \subseteq Path
      /\ (step = "none" <=> pc # "running")
      /\ \A p \in Path : since[p] \subseteq since'[p]
  BY CallKept DEF CoverInv, PipelineTypeOK
<1>1. refresh.at = "waiting" /\ refresh'.future = refresh.future
  BY <1>0, CallKept DEF Asked
<1>2. CASE step = "none"
  <2>1. step' = "drain"
    BY <1>2, StepIs, NoJobNoLine, Beside, <1>0 DEF jobVars, StartJob
  <2>2. QED
    BY <2>1 DEF ReadInTime, AtWork
<1>3. CASE step # "none"
  <2>1. ~FinishJob /\ cur' = cur /\ pc = "running" /\ cur \in Future /\ state[cur] = "running"
    BY <1>0, <1>3, JobKept DEF FinishJob
  <2>2. /\ ReadInTime
        /\ step \in {"loop", "last"} => \A p \in Path \ snapshot : InTime(p)
        /\ AtWork /\ outcome = "ok" => \A p \in snapshot \ todo : InTime(p)
        /\ step \in {"finally", "submit", "settle"} /\ outcome = "ok" => \A p \in Path : InTime(p)
    BY <1>1, <1>3, <2>1 DEF BarrierInv, RefreshSees
  <2>3. kind[cur] = Pdp /\ Runs(Pdp) /\ Pdp # Flush
    BY <1>0, <1>1, <1>3, <2>1 DEF JobsAreKnown, Runs, Pdp, Flush
  <2>4. Asked /\ ~Answered
    BY <1>1, <2>1 DEF Asked, Answered
  <2>5. /\ ~UpsertNote => \A p \in Path : InTime(p) => InTime(p)'
        /\ UpsertNote => /\ \A p \in Path : p # reading.path /\ InTime(p) => InTime(p)'
                         /\ reading.text \in since[reading.path] => fts'[reading.path] \in since'[reading.path]
                         /\ reading.path \in todo /\ reading.path \in Path /\ reading' = NoRead
    BY InTimeStays
  <2>6. ReadInTime'
    <3> SUFFICES ASSUME step' = "loop", reading' # NoRead
                 PROVE  reading'.text \in since'[reading'.path]
      BY DEF ReadInTime
    <3>1. CASE reading' = reading /\ step = "loop" /\ reading.path \in Path
      BY <1>0, <2>2, <3>1 DEF ReadInTime
    <3>2. CASE reading'.path \in Path /\ reading'.text = disk[reading'.path] /\ disk' = disk
      BY <1>0, <2>4, <3>2 DEF SinceHasNow, BarrierInv
    <3>3. QED
      BY <3>1, <3>2, RowsMove
  <2>7. CASE UNCHANGED jobVars \/ (\E p \in Path : ReadNote(p) \/ ReadFails(p)) \/ PassEnds
    <3>1. /\ ~UpsertNote /\ snapshot' = snapshot /\ todo' \subseteq todo
          /\ outcome' = "ok" => outcome = "ok" /\ todo' = todo
      BY <2>7 DEF jobVars, UpsertNote, ReadNote, ReadFails, PassEnds, NoRead
    <3>2. /\ step' \in {"loop", "last"} => step \in {"loop", "last"}
          /\ step' \in {"finally", "submit", "settle"} => step = step'
      BY <2>7 DEF jobVars, ReadNote, ReadFails, PassEnds
    <3>3. QED
      BY <1>0, <2>2, <2>5, <2>6, <3>1, <3>2 DEF AtWork
  <2>8. CASE DrainPaths
    <3>1. step = "drain" /\ step' = "loop" /\ snapshot' = dirtyPaths /\ todo' = snapshot' /\ ~UpsertNote
      BY <2>8 DEF DrainPaths, UpsertNote
    <3>2. ~Crashing
      BY <1>0, <2>1, <3>1 DEF Crashing, CrashIsFinal
    <3>3. \A p \in Path : InTime(p) \/ p \in dirtyPaths
      BY <2>4, <3>1, <3>2 DEF BarrierInv, RefreshWillSee, OnItsWay, InTime
    <3>4. QED
      BY <2>5, <2>6, <3>1, <3>3
  <2>9. CASE UpsertNote
    <3>1. step' = "loop" /\ step = "loop" /\ reading # NoRead /\ snapshot' = snapshot
          /\ todo' = todo \ {reading.path} /\ outcome' = outcome
      BY <2>9 DEF UpsertNote
    <3>2. fts'[reading.path] \in since'[reading.path]
      BY <2>2, <2>5, <2>9, <3>1 DEF ReadInTime
    <3>3. ASSUME NEW p \in Path, InTime(p) \/ p = reading.path
          PROVE  InTime(p)'
      BY <2>5, <2>9, <3>2, <3>3 DEF InTime
    <3>4. (step \in {"loop", "last"} => \A p \in Path \ snapshot : InTime(p))'
      BY <2>2, <3>1, <3>3
    <3>5. ASSUME outcome' = "ok", NEW p \in (snapshot \ todo)'
          PROVE  InTime(p)'
      BY <1>0, <2>2, <3>1, <3>3, <3>5 DEF AtWork
    <3>6. QED
      BY <2>6, <3>1, <3>4, <3>5
  <2>10. CASE LastCallReturns
    <3>1. todo = {} /\ step = "last" /\ step' = "finally" /\ outcome = "ok" /\ ~UpsertNote
      BY <1>0, <2>10 DEF LastCallReturns, JobInPlace, UpsertNote
    <3>2. \A p \in Path : InTime(p)
      BY <2>2, <3>1 DEF AtWork
    <3>3. QED
      BY <2>5, <2>6, <3>1, <3>2 DEF AtWork
  <2>11. CASE Raise \/ InterruptRunner
    BY <2>6, <2>11 DEF Raise, InterruptRunner, AtWork
  <2>12. CASE RestoreSnapshot
    BY <1>0, <2>6, <2>12 DEF RestoreSnapshot, JobInPlace, AtWork
  <2>13. CASE MarkFollowUp \/ SubmitFlush
    <3>1. step \in {"finally", "submit"} /\ step' \in {"submit", "settle"} /\ outcome' = outcome /\ ~UpsertNote
      BY <2>13 DEF MarkFollowUp, SubmitFlush, UpsertNote
    <3>2. QED
      BY <2>2, <2>5, <2>6, <3>1 DEF AtWork
  <2>14. ~DrainEmbeddings /\ ~StartJob /\ \A p \in Path : ~Embed(p) /\ ~EmbedFails(p)
    BY <2>1, <2>3 DEF DrainEmbeddings, Embed, EmbedFails, StartJob, Start
  <2>15. CASE RunnerStep
    BY <2>7, <2>8, <2>9, <2>10, <2>11, <2>12, <2>13, <2>14, <2>15 DEF RunnerStep
  <2>16. QED
    BY <2>1, <2>7, <2>14, <2>15, StepIs, Beside
<1>4. QED
  BY <1>2, <1>3

(* Once the call has its answer every row is in time, and what a later     *)
(* refresh has read is.                                                    *)
LEMMA SawStep ==
  ASSUME CoverInv, BarrierInv, [PipelineNext]_pipelineVars, ~RefreshBegin
  PROVE  RefreshSaw'
<1> SUFFICES ASSUME Answered'
             PROVE  AllTimely(since)'
  BY DEF RefreshSaw
<1>0. /\ WriterInv /\ PipelineTypeOK /\ JobsAreKnown
      /\ \A p \in Path : since[p] \subseteq since'[p]
      /\ Answered \/ (FinishJob /\ outcome = "ok" /\ refresh.at = "waiting" /\ cur = refresh.future)
  BY CallKept DEF CoverInv
<1>1. CASE Answered
  <2>1. PICK s, t : s = since /\ t = since'
    OBVIOUS
  <2>2. AllTimely(s) /\ \A p \in Path : disk[p] \in s[p] /\ s[p] \subseteq t[p]
    BY <1>0, <1>1, <2>1 DEF BarrierInv, RefreshSaw, SinceHasNow, Answered, Asked, AllTimely, ReadTimely
  <2>3. AllTimely(t)'
    BY <2>2, AllTimelyStep
  <2>4. QED
    BY <2>1, <2>3 DEF AllTimely, ReadTimely
<1>2. CASE FinishJob /\ outcome = "ok" /\ refresh.at = "waiting" /\ cur = refresh.future
  <2>1. step = "settle" /\ step' = "none" /\ ~UpsertNote
    BY <1>2 DEF FinishJob, UpsertNote
  <2>2. \A p \in Path : InTime(p)
    BY <1>2, <2>1 DEF BarrierInv, RefreshSees
  <2>3. \A p \in Path : InTime(p)'
    BY <2>1, <2>2, InTimeStays
  <2>4. QED
    BY <2>1, <2>3 DEF AllTimely, ReadTimely, InTime
<1>3. QED
  BY <1>0, <1>1, <1>2

(* Every step keeps the barrier's invariant.                               *)
LEMMA BarrierStep == CoverInv /\ CoverInv' /\ BarrierInv /\ [PipelineNext]_pipelineVars => BarrierInv'
<1> SUFFICES ASSUME CoverInv, CoverInv', BarrierInv, [PipelineNext]_pipelineVars
             PROVE  BarrierInv'
  OBVIOUS
<1>1. CASE RefreshBegin
  BY <1>1, BarrierBegins
<1>2. CASE ~RefreshBegin
  BY <1>2, InTimeStays, WillSeeStep, SeesStep, SawStep DEF BarrierInv
<1>3. QED
  BY <1>1, <1>2

(* A prepare_index_read that returned is a barrier for every write before  *)
(* it: all rows hold contents their files have had since the call began,   *)
(* whatever refreshes had failed, were running or were queued then, and    *)
(* however many writes came since (coordinator.py:240-280).                *)
THEOREM RefreshIsABarrierHolds == PipelineSpec => []RefreshIsABarrier
<1>1. PipelineInit => BarrierInv
  BY DEF PipelineInit, NoRefresh, BarrierInv, SinceHasNow, RefreshWillSee, RefreshSees, RefreshSaw,
    Asked, Answered
<1>2. BarrierInv => RefreshIsABarrier
  BY DEF BarrierInv, RefreshSaw, AllTimely, Answered, RefreshIsABarrier
<1>3. QED
  BY <1>1, <1>2, CoverInvariant, BarrierStep, PTL DEF PipelineSpec

-----------------------------------------------------------------------------
(* A close() without failures.                                             *)

(* A job of kind k that will drain its marks, and that no prepare_index_read *)
(* may cancel: its Future is not the one the call waits for.               *)
WillDrain(k) ==
  \E f \in Future : /\ kind[f] = k
                    /\ refresh.at # "idle" => f # refresh.future
                    /\ state[f] = "pending" \/ (state[f] = "running" /\ step = "drain")

(* Where no job has failed nothing waits for a retry or was given up.      *)
NothingFailed ==
  /\ outcome = "ok" /\ step # "except" /\ pc \notin {"crashing", "aborting"} /\ ~crashed
  /\ kept = {} /\ retryEmbeddings = {} /\ conflicts = {} /\ retries = {}

(* A marked note has its refresh queued, or the tool that marked it is     *)
(* about to queue one, or found the writer closed.                         *)
MarksHaveJobs == \A p \in dirtyPaths \ late : edit.path = p \/ WillDrain(Pdp)

(* Marked vectors have their flush queued, or the runner that marked them  *)
(* is about to queue one.                                                  *)
VectorsHaveJobs == dirtyEmbeddings # {} => step = "submit" \/ WillDrain(Flush)

CleanInv == faults = 0 => NothingFailed /\ MarksHaveJobs /\ VectorsHaveJobs

(* The refresh call keeps its Future or takes one that was free.           *)
LEMMA CallsOwnFuture ==
  ASSUME PipelineTypeOK, [PipelineNext]_pipelineVars
  PROVE  refresh'.at # "idle" =>
           \/ refresh.at # "idle" /\ refresh'.future = refresh.future
           \/ state[refresh'.future] = "free"
<1>1. CASE RefreshBegin
  BY <1>1, FreshIsFree DEF RefreshBegin
<1>2. CASE RefreshReturns \/ RefreshTimesOut
  BY <1>2 DEF RefreshReturns, RefreshTimesOut, PipelineTypeOK
<1>3. CASE RunnerStep \/ LoopStep \/ StartJob \/ FinishJob \/ WriteStep \/ CloseVault \/ UNCHANGED pipelineVars
  <2>1. refresh' = refresh
    BY <1>3 DEF RunnerStep, DrainPaths, DrainEmbeddings, ReadNote, ReadFails, Embed, EmbedFails,
      UpsertNote, PassEnds, LastCallReturns, Raise, InterruptRunner, RestoreSnapshot, MarkFollowUp,
      SubmitFlush, LoopStep, StartJob, FinishJob, WriteStep, WriteNote, MarkNote, SubmitMarked,
      CloseVault, pipelineVars, refreshVars
  <2>2. QED
    BY <2>1
<1>4. QED
  BY <1>1, <1>2, <1>3 DEF PipelineNext, WorkerStep, RefreshStep

(* A pending Future that is not the refresh call's stays pending until the *)
(* worker starts its job: nobody else holds it to cancel it, and no crash  *)
(* drops it (index_writer.py:282-363, coordinator.py:263-280).             *)
LEMMA PendingStays ==
  ASSUME CoverInv, NothingFailed, [PipelineNext]_pipelineVars,
         NEW f \in Future, state[f] = "pending", refresh.at # "idle" => f # refresh.future
  PROVE  state'[f] = "pending" \/ (StartJob /\ cur = f /\ state'[f] = "running" /\ step' = "drain")
<1>0. WriterTypeOK /\ WriterInv /\ PipelineTypeOK /\ pc \notin {"crashing", "aborting"}
  BY DEF CoverInv, PipelineTypeOK, NothingFailed
<1>1. CASE LoopStep
  BY <1>0, <1>1 DEF LoopStep, Pop, Exit, Claim, Skip, Release, Abort, Die, CancelDoomed
<1>2. CASE StartJob
  BY <1>0, <1>2 DEF StartJob, Start, WriterTypeOK
<1>3. CASE FinishJob
  <2>1. pc = "running" /\ cur # f
    BY <1>0, <1>3 DEF FinishJob, Settle, Interrupt, WriterInv, WorkerHolds
  <2>2. QED
    BY <1>0, <1>3, <2>1 DEF FinishJob, Settle, Interrupt, WriterTypeOK
<1>4. ASSUME NEW k, Spare # {}, Enqueue(Fresh, k)
      PROVE  state'[f] = "pending"
  BY <1>0, <1>4, FreshIsFree DEF Enqueue, WriterTypeOK
<1>5. CASE SubmitFlush
  BY <1>4, <1>5 DEF SubmitFlush, SubmitOnWorker
<1>6. CASE SubmitMarked
  BY <1>4, <1>6 DEF SubmitMarked, SubmitExternal, writerVars
<1>7. CASE RefreshBegin
  BY <1>4, <1>7 DEF RefreshBegin, SubmitExternal
<1>8. CASE RefreshReturns \/ RefreshTimesOut
  BY <1>0, <1>8 DEF RefreshReturns, RefreshTimesOut, Cancel, writerVars, WriterTypeOK
<1>9. CASE CloseVault
  BY <1>9 DEF CloseVault, CloserStep, CloseMark, ClosePost, CloseJoin
<1>10. CASE RunnerStep /\ ~SubmitFlush
  <2>1. UNCHANGED writerVars
    BY <1>10 DEF RunnerStep, DrainPaths, DrainEmbeddings, ReadNote, ReadFails, Embed, EmbedFails,
      UpsertNote, PassEnds, LastCallReturns, Raise, InterruptRunner, RestoreSnapshot, MarkFollowUp
  <2>2. QED
    BY <2>1 DEF writerVars
<1>11. CASE (\E p \in Path, text \in Stored : WriteNote(p, text)) \/ MarkNote \/ UNCHANGED pipelineVars
  BY <1>11 DEF WriteNote, MarkNote, pipelineVars, writerVars
<1>12. QED
  BY <1>1, <1>2, <1>3, <1>5, <1>6, <1>7, <1>8, <1>9, <1>10, <1>11
     DEF PipelineNext, WorkerStep, WriteStep, RefreshStep

(* A job that will drain its marks does, and nothing else takes it away.   *)
LEMMA WillDrainStays ==
  ASSUME CoverInv, NothingFailed, [PipelineNext]_pipelineVars, NEW k, WillDrain(k)
  PROVE  WillDrain(k)' \/ (DrainPaths /\ k = Pdp) \/ (DrainEmbeddings /\ k = Flush)
<1>0. WriterInv /\ PipelineTypeOK /\ JobsAreKnown
  BY DEF CoverInv
<1>1. PICK f \in Future : /\ kind[f] = k
                          /\ refresh.at # "idle" => f # refresh.future
                          /\ state[f] = "pending" \/ (state[f] = "running" /\ step = "drain")
  BY DEF WillDrain
<1>2. kind'[f] = k
  BY <1>0, <1>1, JobsStayKnown
<1>3. refresh'.at # "idle" => f # refresh'.future
  BY <1>0, <1>1, CallsOwnFuture
<1>4. CASE state[f] = "pending"
  <2>1. state'[f] = "pending" \/ (state'[f] = "running" /\ step' = "drain")
    BY <1>1, <1>4, PendingStays
  <2>2. QED
    BY <1>2, <1>3, <2>1 DEF WillDrain
<1>5. CASE state[f] = "running" /\ step = "drain"
  <2>1. ~FinishJob /\ cur = f
    BY <1>0, <1>5 DEF FinishJob, WriterInv, RunningIsHeld
  <2>2. cur' = f /\ pc' = "running"
    BY <1>0, <1>5, <2>1, JobKept
  <2>3. CASE DrainPaths \/ DrainEmbeddings
    BY <1>1, <2>1, <2>3 DEF DrainPaths, DrainEmbeddings
  <2>4. CASE ~DrainPaths /\ ~DrainEmbeddings
    <3>1. step' = "drain"
      <4>1. ~StartJob
        BY <1>0, <1>5 DEF StartJob, Start, PipelineTypeOK
      <4>2. ~RunnerStep
        BY <1>5, <2>4 DEF RunnerStep, ReadNote, ReadFails, Embed, EmbedFails, UpsertNote, PassEnds,
          LastCallReturns, Raise, InterruptRunner, RestoreSnapshot, MarkFollowUp, SubmitFlush
      <4>3. QED
        BY <1>5, <2>1, <4>1, <4>2, StepIs, Beside DEF jobVars
    <3>2. state'[f] = "running"
      <4>1. WriterInv'
        BY <1>0, WriterMoves, WriterInvNext
      <4>2. QED
        BY <2>2, <4>1 DEF WriterInv, WorkerHolds
    <3>3. QED
      BY <1>2, <1>3, <3>1, <3>2 DEF WillDrain
  <2>5. QED
    BY <2>3, <2>4
<1>6. QED
  BY <1>1, <1>4, <1>5

(* The worker's position is moved by its loop and by the start and the end *)
(* of a job; the generation by its loop (index_writer.py:282-363).         *)
LEMMA WorkerMoves ==
  ASSUME [PipelineNext]_pipelineVars, ~LoopStep, ~StartJob, ~FinishJob
  PROVE  UNCHANGED <<pc, crashed, cur, generation>>
<1>1. CASE RunnerStep
  BY <1>1 DEF RunnerStep, DrainPaths, DrainEmbeddings, ReadNote, ReadFails, Embed, EmbedFails,
    UpsertNote, PassEnds, LastCallReturns, Raise, InterruptRunner, RestoreSnapshot,
    MarkFollowUp, SubmitFlush, SubmitOnWorker, writerVars
<1>2. CASE WriteStep
  BY <1>2 DEF WriteStep, WriteNote, MarkNote, SubmitMarked, SubmitExternal, writerVars
<1>3. CASE RefreshStep
  BY <1>3 DEF RefreshStep, RefreshBegin, RefreshReturns, RefreshTimesOut, SubmitExternal,
    Cancel, writerVars
<1>4. CASE CloseVault
  BY <1>4 DEF CloseVault, CloserStep, CloseMark, ClosePost, CloseJoin
<1>5. CASE UNCHANGED pipelineVars
  BY <1>5 DEF pipelineVars, writerVars
<1>6. QED
  BY <1>1, <1>2, <1>3, <1>4, <1>5 DEF PipelineNext, WorkerStep

(* Only an except block, or one that is past it, ends otherwise: without a *)
(* fault every job ends well and nothing is kept back or retried           *)
(* (index_writer.py:444-489, managers/embeddings.py:752).                  *)
LEMMA NothingFailedStep ==
  ASSUME CoverInv, faults = 0 => NothingFailed, [PipelineNext]_pipelineVars, faults' = 0
  PROVE  faults = 0 /\ NothingFailed'
<1>0. WriterInv /\ PipelineTypeOK /\ faults \in Nat /\ CrashIsFinal
  BY PipelineAssumption DEF CoverInv, PipelineTypeOK
<1>1. faults = 0
  <2>1. CASE RunnerStep
    BY <1>0, <2>1 DEF RunnerStep, DrainPaths, DrainEmbeddings, ReadNote, ReadFails, Embed, EmbedFails,
      UpsertNote, PassEnds, LastCallReturns, Raise, InterruptRunner, RestoreSnapshot, MarkFollowUp,
      SubmitFlush, dataVars
  <2>2. CASE ~RunnerStep
    <3>1. faults' = faults
      BY <2>2 DEF PipelineNext, WorkerStep, WriteStep, RefreshStep, LoopStep, StartJob, FinishJob, CloseVault,
        WriteNote, MarkNote, SubmitMarked, RefreshBegin, RefreshReturns, RefreshTimesOut, pipelineVars, dataVars
    <3>2. QED
      BY <3>1
  <2>3. QED
    BY <2>1, <2>2
<1>2. /\ outcome = "ok" /\ step # "except" /\ pc \notin {"crashing", "aborting"} /\ ~crashed
      /\ kept = {} /\ retryEmbeddings = {} /\ conflicts = {} /\ retries = {}
  BY <1>1 DEF NothingFailed
<1> DEFINE Local == outcome = "ok" /\ step # "except" /\ kept = {} /\ retryEmbeddings = {}
                    /\ conflicts = {} /\ retries = {}
           Worker == pc \notin {"crashing", "aborting"} /\ ~crashed
<1>3. (\A p \in Path : ~ReadFails(p) /\ ~EmbedFails(p)) /\ ~Raise /\ ~InterruptRunner
  BY <1>1 DEF ReadFails, EmbedFails, Raise, InterruptRunner
<1>4. Local'
  <2>1. CASE RunnerStep
    <3>1. CASE \E p \in Path : Embed(p) \/ ReadNote(p)
      BY <1>2, <3>1 DEF Embed, ReadNote, dirtyVars, dataVars
    <3>2. CASE ~(\E p \in Path : Embed(p) \/ ReadNote(p))
      BY <1>2, <1>3, <2>1, <3>2 DEF RunnerStep, DrainPaths, DrainEmbeddings, UpsertNote, PassEnds,
        LastCallReturns, RestoreSnapshot, MarkFollowUp, SubmitFlush, dataVars, dirtyVars
    <3>3. QED
      BY <3>1, <3>2
  <2>2. CASE StartJob \/ FinishJob
    BY <1>2, <2>2 DEF StartJob, FinishJob, dataVars, dirtyVars
  <2>3. CASE Elsewhere \/ MarkNote \/ \E p \in Path, text \in Stored : WriteNote(p, text)
    BY <1>2, <2>3, Beside DEF jobVars
  <2>4. QED
    BY <2>1, <2>2, <2>3, StepIs
<1>5. Worker'
  <2>1. CASE LoopStep
    BY <1>2, <2>1 DEF LoopStep, Pop, Exit, Claim, Skip, Release, Abort, Die, CancelDoomed
  <2>2. CASE StartJob \/ FinishJob
    BY <1>2, <2>2 DEF StartJob, Start, FinishJob, Settle
  <2>3. CASE ~LoopStep /\ ~StartJob /\ ~FinishJob
    BY <1>2, <2>3, WorkerMoves
  <2>4. QED
    BY <2>1, <2>2, <2>3
<1>6. QED
  BY <1>1, <1>4, <1>5 DEF NothingFailed

(* A mark has its job: the submit that follows it queues one, and the      *)
(* writer closed in between is what the note's lateness means              *)
(* (coordinator.py:483-505).                                               *)
LEMMA MarksHaveJobsStep ==
  ASSUME CoverInv, NothingFailed, MarksHaveJobs, [PipelineNext]_pipelineVars
  PROVE  MarksHaveJobs'
<1>0. /\ WriterInv /\ PipelineTypeOK /\ JobsAreKnown /\ WriterTypeOK
      /\ dirtyPaths \subseteq Path
  BY DEF CoverInv, PipelineTypeOK
<1> SUFFICES ASSUME NEW p \in dirtyPaths' \ late'
             PROVE  edit'.path = p \/ WillDrain(Pdp)'
  BY DEF MarksHaveJobs
<1>1. ~DrainPaths
  BY DEF DrainPaths
<1>2. WillDrain(Pdp) => WillDrain(Pdp)'
  <2>1. Pdp # Flush
    BY DEF Pdp, Flush
  <2>2. QED
    BY <1>1, <2>1, WillDrainStays
<1>3. CASE SubmitMarked
  <2>1. dirtyPaths' = dirtyPaths /\ p \in Path /\ edit' = NoEdit
    BY <1>0, <1>3 DEF SubmitMarked, dirtyVars
  <2>2. CASE closed
    <3>1. p \notin late /\ edit.path # p
      BY <1>3, <2>2 DEF SubmitMarked
    <3>2. QED
      BY <1>2, <2>1, <3>1 DEF MarksHaveJobs
  <2>3. CASE ~closed
    <3>1. Spare # {} /\ Enqueue(Fresh, Pdp)
      BY <1>3, <2>3 DEF SubmitMarked, SubmitExternal
    <3>2. PICK f \in Future : f = Fresh /\ state[f] = "free"
      BY <3>1, FreshIsFree
    <3>3. kind'[f] = Pdp /\ state'[f] = "pending"
      BY <1>0, <3>1, <3>2 DEF Enqueue, WriterTypeOK
    <3>4. refresh' = refresh /\ (refresh.at # "idle" => f # refresh.future)
      BY <1>0, <1>3, <3>2 DEF SubmitMarked, refreshVars, JobsAreKnown
    <3>5. QED
      BY <3>3, <3>4 DEF WillDrain
  <2>4. QED
    BY <2>2, <2>3
<1>4. CASE MarkNote
  <2>1. late' = late /\ dirtyPaths' = dirtyPaths \cup {edit.path} /\ edit'.path = edit.path
    BY <1>0, <1>4 DEF MarkNote, PipelineTypeOK
  <2>2. QED
    BY <1>2, <2>1 DEF MarksHaveJobs
<1>5. CASE \E q \in Path, text \in Stored : WriteNote(q, text)
  <2>1. late' = late /\ dirtyPaths' = dirtyPaths /\ edit.path = None
    BY <1>5 DEF WriteNote, NoEdit, dirtyVars
  <2>2. p # None
    BY <1>0, <2>1, PipelineAssumption
  <2>3. QED
    BY <1>2, <2>1, <2>2 DEF MarksHaveJobs
<1>6. CASE ~SubmitMarked /\ ~MarkNote /\ ~\E q \in Path, text \in Stored : WriteNote(q, text)
  <2>1. late' = late /\ edit' = edit
    BY <1>6 DEF PipelineNext, WorkerStep, WriteStep, RefreshStep, LoopStep, StartJob, FinishJob, CloseVault,
      RefreshBegin, RefreshReturns, RefreshTimesOut, pipelineVars, dataVars,
      RunnerStep, DrainPaths, DrainEmbeddings, ReadNote, ReadFails, Embed, EmbedFails,
      UpsertNote, PassEnds, LastCallReturns, Raise, InterruptRunner, RestoreSnapshot,
      MarkFollowUp, SubmitFlush
  <2>2. dirtyPaths' \subseteq dirtyPaths
    <3>1. CASE RunnerStep
      BY <3>1 DEF NothingFailed, RunnerStep, DrainPaths, DrainEmbeddings, ReadNote, ReadFails, Embed, EmbedFails,
        UpsertNote, PassEnds, LastCallReturns, Raise, InterruptRunner, RestoreSnapshot,
        MarkFollowUp, SubmitFlush, dirtyVars
    <3>2. CASE ~RunnerStep
      BY <1>6, <3>2, StepIs DEF Elsewhere, StartJob, FinishJob, dirtyVars
    <3>3. QED
      BY <3>1, <3>2
  <2>3. QED
    BY <1>2, <2>1, <2>2 DEF MarksHaveJobs
<1>7. QED
  BY <1>3, <1>4, <1>5, <1>6

(* Vectors marked for a flush have theirs: the runner that marks them      *)
(* submits it before it ends, which a closed writer allows its own thread  *)
(* (index_writer.py:166-170, 464-489).                                     *)
LEMMA VectorsHaveJobsStep ==
  ASSUME CoverInv, NothingFailed, VectorsHaveJobs, [PipelineNext]_pipelineVars
  PROVE  VectorsHaveJobs'
<1>0. WriterInv /\ PipelineTypeOK /\ JobsAreKnown /\ WriterTypeOK
  BY DEF CoverInv, PipelineTypeOK
<1> SUFFICES ASSUME dirtyEmbeddings' # {}
             PROVE  step' = "submit" \/ WillDrain(Flush)'
  BY DEF VectorsHaveJobs
<1>1. ~DrainEmbeddings
  BY DEF DrainEmbeddings
<1>2. WillDrain(Flush) => WillDrain(Flush)'
  <2>1. Pdp # Flush
    BY DEF Pdp, Flush
  <2>2. QED
    BY <1>1, <2>1, WillDrainStays
<1>3. CASE SubmitFlush
  <2>1. Spare # {} /\ Enqueue(Fresh, Flush)
    BY <1>3 DEF SubmitFlush, SubmitOnWorker
  <2>2. PICK f \in Future : f = Fresh /\ state[f] = "free"
    BY <2>1, FreshIsFree
  <2>3. kind'[f] = Flush /\ state'[f] = "pending"
    BY <1>0, <2>1, <2>2 DEF Enqueue, WriterTypeOK
  <2>4. refresh' = refresh /\ (refresh.at # "idle" => f # refresh.future)
    BY <1>0, <1>3, <2>2 DEF SubmitFlush, refreshVars, JobsAreKnown
  <2>5. QED
    BY <2>3, <2>4 DEF WillDrain
<1>4. CASE MarkFollowUp
  <2>1. CASE FollowUp = {}
    <3>1. dirtyEmbeddings # {} /\ step = "finally"
      BY <1>4, <2>1 DEF MarkFollowUp
    <3>2. QED
      BY <1>2, <3>1 DEF VectorsHaveJobs
  <2>2. CASE FollowUp # {}
    BY <1>4, <2>2 DEF MarkFollowUp
  <2>3. QED
    BY <2>1, <2>2
<1>5. CASE ~SubmitFlush /\ ~MarkFollowUp
  <2>1. dirtyEmbeddings' = dirtyEmbeddings /\ (step = "submit" => step' = "submit")
    <3>1. CASE RunnerStep
      BY <1>1, <1>5, <3>1 DEF NothingFailed, RunnerStep, DrainPaths, ReadNote, ReadFails, Embed, EmbedFails,
        UpsertNote, PassEnds, LastCallReturns, Raise, InterruptRunner, RestoreSnapshot, dirtyVars
    <3>2. CASE StartJob \/ FinishJob
      BY <1>0, <3>2 DEF StartJob, Start, FinishJob, dirtyVars, PipelineTypeOK
    <3>3. CASE Elsewhere \/ MarkNote \/ \E p \in Path, text \in Stored : WriteNote(p, text)
      BY <3>3, Beside DEF jobVars
    <3>4. QED
      BY <3>1, <3>2, <3>3, StepIs
  <2>2. QED
    BY <1>2, <2>1 DEF VectorsHaveJobs
<1>6. QED
  BY <1>3, <1>4, <1>5

(* Every step keeps it.                                                    *)
LEMMA CleanStep == CoverInv /\ CleanInv /\ [PipelineNext]_pipelineVars => CleanInv'
<1> SUFFICES ASSUME CoverInv, CleanInv, [PipelineNext]_pipelineVars, faults' = 0
             PROVE  NothingFailed' /\ MarksHaveJobs' /\ VectorsHaveJobs'
  BY DEF CleanInv
<1>1. faults = 0 /\ NothingFailed'
  BY NothingFailedStep DEF CleanInv
<1>2. QED
  BY <1>1, MarksHaveJobsStep, VectorsHaveJobsStep DEF CleanInv

(* A close() that drained a writer no job of which failed lost nothing:    *)
(* the marks it found, and the flushes those refreshes submitted after the *)
(* close, each had a job queued before the worker could find its queue     *)
(* empty, and a worker that has ended leaves no job (index_writer.py:      *)
(* 166-170, 189-193, 290-303).                                             *)
THEOREM CleanCloseHolds == PipelineSpec => []CleanCloseLosesNothing
<1>1. PipelineInit => CleanInv
  BY DEF PipelineInit, WriterInit, CleanInv, NothingFailed, MarksHaveJobs, VectorsHaveJobs
<1>2. CoverInv /\ CleanInv /\ NoOrphanFuture => CleanCloseLosesNothing
  <2> SUFFICES ASSUME CoverInv, CleanInv, NoOrphanFuture, pc = "exited", ~crashed, faults = 0
               PROVE  /\ dirtyEmbeddings = {}
                      /\ \A p \in Path \ late : edit.path # p => fts[p] = disk[p]
                      /\ \A p \in Path : Matches(p) \/ p \in KeywordPending
    BY DEF CleanCloseLosesNothing
  <2>1. step = "none" /\ refreshed = {}
    BY DEF CoverInv, PipelineTypeOK, JobInPlace
  <2>2. \A k : ~WillDrain(k)
    BY DEF WillDrain, NoOrphanFuture, Active
  <2>3. /\ dirtyEmbeddings = {} /\ dirtyPaths \subseteq late \cup {edit.path}
        /\ NothingFailed
    BY <2>1, <2>2 DEF CleanInv, MarksHaveJobs, VectorsHaveJobs
  <2>4. RowsCovered /\ VectorsCovered
    BY <2>3 DEF CoverInv, StaleIsCovered, Crashing, NothingFailed
  <2>5. VectorPending = {} /\ kept = {} /\ KeywordPending \subseteq late \cup {edit.path}
    BY <2>1, <2>3 DEF VectorPending, KeywordPending, NothingFailed
  <2>6. QED
    BY <2>3, <2>4, <2>5 DEF RowsCovered, VectorsCovered
<1>3. PipelineSpec => []NoOrphanFuture
  BY PipelineRunsOnWriter, WriterLeavesNoOrphan, PTL
<1>4. QED
  BY <1>1, <1>2, <1>3, CleanStep, CoverInvariant, PTL DEF PipelineSpec

-----------------------------------------------------------------------------
(* What a tool reports.  The argument is that of the refresh barrier: what *)
(* the call may not miss is on its way to a refresh, and an evaluation     *)
(* that found nothing in flight and nothing marked found nothing on its    *)
(* way.                                                                    *)

(* A Future that is queued or held by the worker has been accepted.        *)
HeldIsAccepted ==
  /\ \A f \in Future : Queued(f) => state[f] # "free"
  /\ cur # None => state[cur] # "free"

(* A claimed job shows in get_status until the worker lets go of it.       *)
JobIsShown == pc \in {"claimed", "running", "settled", "crashing", "aborting"} => inFlight # None

(* The contents counted as seen include the present one, and every row     *)
(* from before the call is on its way to a refresh.                        *)
SeenHasNow == call.at # "idle" => \A p \in Path : disk[p] \in seen[p]
CallWillSee == call.at # "idle" /\ ~Crashing => OnItsWay(seen)

(* An evaluation that found nothing in flight, and that no start has       *)
(* overlapped, goes on between jobs.                                       *)
Quiet == call.flight = None /\ ~overlapped
BetweenJobs ==
  call.at \in {"dirty", "depth"} /\ Quiet => pc \in {"idle", "popped", "claimed", "exited"}

(* If besides it found nothing marked there is nothing left to refresh.    *)
NothingLeft ==
  /\ (call.at = "depth" \/ (call.at = "done" /\ ~call.stale)) /\ Quiet /\ ~call.dirty /\ ~Crashing
       => AllTimely(seen)
  /\ call.at = "done" /\ ~call.stale => call.flight = None /\ ~call.dirty

(* The rows that were read are still the index's, or a job has not come to *)
(* its end and the evaluation will notice it.                              *)
RowsAreHeld ==
  /\ call.at \in {"rows", "compare"} => call.gen <= generation
  /\ (call.at = "compare" /\ generation = call.gen) \/ (call.at = "flight" /\ ~slipped) =>
       call.rows = fts \/ pc \in {"running", "settled", "crashing", "aborting"}
  /\ call.at \in {"dirty", "depth"} /\ Quiet /\ ~slipped => call.rows = fts
  /\ call.at = "done" /\ ~call.stale /\ ~overlapped /\ ~slipped /\ ~Crashing =>
       \A p \in Path : call.rows[p] \in seen[p]

StatusInv ==
  /\ CoverInv /\ StatusTypeOK /\ HeldIsAccepted /\ JobIsShown
  /\ SeenHasNow /\ CallWillSee
  /\ BetweenJobs /\ NothingLeft /\ RowsAreHeld
-----------------------------------------------------------------------------
(* A call of a tool changes nothing but itself; the rest is the pipeline.  *)

(* Every step is one of the pipeline, or of the tool, which reads.         *)
LEMMA CallOnlyReads ==
  ASSUME [StatusNext]_allVars
  PROVE  /\ [PipelineNext]_pipelineVars
         /\ \/ ToolStep /\ UNCHANGED <<pipelineVars, overlapped, slipped>>
            \/ Meanwhile
            \/ UNCHANGED allVars
<1>1. CASE ToolStep
  BY <1>1 DEF ToolStep, AskGeneration, ReadRows, CompareGeneration, ReadInFlight, ReadDirty, ReadDepth
<1>2. CASE Meanwhile
  BY <1>2 DEF Meanwhile, PipelineNext
<1>3. CASE UNCHANGED allVars
  BY <1>3 DEF allVars
<1>4. QED
  BY <1>1, <1>2, <1>3 DEF StatusNext

(* While the pipeline stands still so does all that is said of it.         *)
LEMMA PipelineStands ==
  ASSUME UNCHANGED pipelineVars, NEW s
  PROVE  /\ UNCHANGED <<disk, fts, generation, inFlight, pc>>
         /\ Crashing' <=> Crashing
         /\ OnItsWay(s)' <=> OnItsWay(s)
         /\ AllTimely(s)' <=> AllTimely(s)
<1>1. UNCHANGED <<kind, cur, pc, crashed, generation, inFlight, disk, fts, dirtyPaths, step, outcome,
                  snapshot, todo, reading>>
  BY DEF pipelineVars, writerVars, dataVars, dirtyVars, jobVars
<1>2. Crashing' <=> Crashing
  BY <1>1 DEF Crashing
<1>3. AllTimely(s)' <=> AllTimely(s)
  BY <1>1 DEF AllTimely, ReadTimely
<1>4. OnItsWay(s)' <=> OnItsWay(s)
  BY <1>1 DEF OnItsWay, ReadTimely, Runs, AtWork
<1>5. QED
  BY <1>1, <1>2, <1>3, <1>4

(* What the pipeline does meanwhile adds to the contents seen.             *)
LEMMA SeenGrows ==
  ASSUME CoverInv, Meanwhile
  PROVE  /\ \A p \in Path : seen[p] \subseteq seen'[p]
         /\ \A p \in Path : disk[p] \in seen[p] => disk'[p] \in seen'[p]
BY DEF Meanwhile

(* The worker and the tool keep the types of what the tool has read.       *)
LEMMA StatusTypeStep ==
  ASSUME CoverInv, CoverInv', StatusTypeOK, [StatusNext]_allVars
  PROVE  StatusTypeOK'
<1>0. /\ PipelineTypeOK /\ PipelineTypeOK' /\ generation \in Nat /\ fts \in [Path -> Stored]
      /\ inFlight \in Kind \cup {None} /\ disk \in [Path -> Stored] /\ disk' \in [Path -> Stored]
  BY DEF CoverInv, PipelineTypeOK, WriterTypeOK
<1> DEFINE Calls == [at : {"idle", "rows", "compare", "flight", "dirty", "depth", "done"},
                     gen : Nat, rows : [Path -> Stored], flight : Kind \cup {None},
                     dirty : BOOLEAN, stale : BOOLEAN]
<1>1. call \in Calls /\ seen \in [Path -> SUBSET Stored] /\ overlapped \in BOOLEAN /\ slipped \in BOOLEAN
  BY DEF StatusTypeOK
<1>2. CASE ToolStep /\ UNCHANGED <<pipelineVars, overlapped, slipped>>
  <2>1. seen' \in [Path -> SUBSET Stored]
    <3>1. CASE AskGeneration
      <4>1. \A p \in Path : {disk[p]} \in SUBSET Stored
        BY <1>0
      <4>2. QED
        BY <3>1, <4>1 DEF AskGeneration
    <3>2. CASE ~AskGeneration
      BY <1>1, <1>2, <3>2 DEF ToolStep, ReadRows, CompareGeneration, ReadInFlight, ReadDirty, ReadDepth
    <3>3. QED
      BY <3>1, <3>2
  <2>2. call' \in Calls
    <3>1. CASE AskGeneration \/ ReadRows
      BY <1>0, <1>1, <3>1 DEF AskGeneration, ReadRows
    <3>2. CASE CompareGeneration
      BY <1>1, <3>2 DEF CompareGeneration
    <3>3. CASE ReadInFlight
      BY <1>0, <1>1, <3>3 DEF ReadInFlight
    <3>4. CASE ReadDirty
      <4>1. PICK b \in BOOLEAN : b <=> (dirtyPaths # {} \/ dirtyEmbeddings # {})
        OBVIOUS
      <4>2. call' = [call EXCEPT !.at = "depth", !.dirty = b]
        BY <3>4, <4>1 DEF ReadDirty
      <4>3. QED
        BY <1>1, <4>2
    <3>5. CASE ReadDepth
      <4>1. PICK b \in BOOLEAN : b <=> (call.flight # None \/ call.dirty \/ queue # << >>)
        OBVIOUS
      <4>2. call' = [call EXCEPT !.at = "done", !.stale = b]
        BY <3>5, <4>1 DEF ReadDepth
      <4>3. QED
        BY <1>1, <4>2
    <3>6. QED
      BY <1>2, <3>1, <3>2, <3>3, <3>4, <3>5 DEF ToolStep
  <2>3. QED
    BY <1>0, <1>1, <1>2, <2>1, <2>2 DEF StatusTypeOK
<1>3. CASE Meanwhile
  <2>1. call' = call
    BY <1>3 DEF Meanwhile
  <2>2. seen' \in [Path -> SUBSET Stored]
    <3>1. \A p \in Path : (IF disk'[p] # disk[p] THEN seen[p] \cup {disk'[p]} ELSE seen[p]) \in SUBSET Stored
      BY <1>0, <1>1
    <3>2. QED
      BY <1>3, <3>1 DEF Meanwhile
  <2>3. overlapped' \in BOOLEAN /\ slipped' \in BOOLEAN
    BY <1>3 DEF Meanwhile
  <2>4. QED
    BY <1>0, <1>1, <2>1, <2>2, <2>3 DEF StatusTypeOK
<1>4. CASE UNCHANGED allVars
  BY <1>0, <1>1, <1>4 DEF allVars, statusVars, StatusTypeOK
<1>5. QED
  BY <1>2, <1>3, <1>4, CallOnlyReads

(* What the worker takes off its queue was submitted (index_writer.py:     *)
(* 162-184, 290-305).                                                      *)
LEMMA HeldIsAcceptedStep ==
  ASSUME WriterInv, JobsAreKnown, HeldIsAccepted, [PipelineNext]_pipelineVars
  PROVE  HeldIsAccepted'
<1>0. WriterTypeOK /\ [WriterNext]_writerVars
      /\ \A f \in Future : state[f] # "free" => state'[f] # "free"
  BY WriterMoves, JobsStayKnown DEF WriterInv
<1>1. ASSUME NEW f \in Future, NEW k \in Kind, SubmitExternal(f, k) \/ SubmitOnWorker(f, k)
      PROVE  HeldIsAccepted'
  <2>1. Enqueue(f, k) /\ cur' = cur
    BY <1>1 DEF SubmitExternal, SubmitOnWorker
  <2>2. state'[f] = "pending" /\ \A x : Queued(x)' <=> Queued(x) \/ x = f
    BY <1>0, <2>1, EnqueueType DEF Enqueue, WriterTypeOK
  <2>3. cur \in Future \cup {None}
    BY <1>0 DEF WriterTypeOK
  <2>4. QED
    BY <1>0, <2>1, <2>2, <2>3 DEF HeldIsAccepted
<1>2. CASE Pop
  <2>1. \A x : Queued(x) <=> Queued(x)' \/ x = Head(queue)
    BY <1>0, <1>2, PopType DEF Pop
  <2>2. Head(queue) \in Future \cup {Sentinel} /\ (Head(queue) # Sentinel => cur' = Head(queue))
        /\ (Head(queue) = Sentinel => cur' = cur) /\ cur = None
    BY <1>0, <1>2, PopType DEF Pop, WriterTypeOK
  <2>3. QED
    BY <1>0, <2>1, <2>2 DEF HeldIsAccepted
<1>3. CASE Abort
  <2>1. \A x : ~Queued(x)'
    BY <1>3, OccursEmpty DEF Abort, Queued
  <2>2. cur' = cur /\ cur \in Future \cup {None}
    BY <1>0, <1>3 DEF Abort, WriterTypeOK
  <2>3. QED
    BY <1>0, <2>1, <2>2 DEF HeldIsAccepted
<1>4. ASSUME NEW c \in Closer, ClosePost(c)
      PROVE  HeldIsAccepted'
  <2>1. \A x : Queued(x)' <=> Queued(x) \/ x = Sentinel
    BY <1>0, <1>4, PostType DEF ClosePost
  <2>2. cur' = cur /\ cur \in Future \cup {None}
    BY <1>0, <1>4 DEF ClosePost, WriterTypeOK
  <2>3. QED
    BY <1>0, <2>1, <2>2, WriterAssumption DEF HeldIsAccepted
<1>5. CASE queue' = queue /\ (cur' = cur \/ cur' = None)
  <2>1. \A x : Queued(x)' <=> Queued(x)
    BY <1>5 DEF Queued, Occurs
  <2>2. cur \in Future \cup {None}
    BY <1>0 DEF WriterTypeOK
  <2>3. QED
    BY <1>0, <1>5, <2>1, <2>2 DEF HeldIsAccepted
<1>6. CASE Exit \/ Claim \/ Start \/ Skip \/ Release \/ Die \/ Interrupt \/ UNCHANGED writerVars
  BY <1>5, <1>6 DEF Exit, Claim, Start, Skip, Release, Die, Interrupt, writerVars
<1>7. ASSUME \/ \E f \in Future : Cancel(f) \/ CancelDoomed(f)
             \/ \E o \in {"done", "failed"} : Settle(o)
             \/ \E c \in Closer : CloseMark(c) \/ CloseJoin(c)
      PROVE  HeldIsAccepted'
  BY <1>5, <1>7 DEF Cancel, CancelDoomed, Settle, CloseMark, CloseJoin
<1>8. QED
  BY <1>0, <1>1, <1>2, <1>3, <1>4, <1>6, <1>7 DEF WriterNext, WorkerLoop, CloserStep

(* The claim of a job is made before it starts and undone after it ended,  *)
(* under its own lock (index_writer.py:305-311, 363-366).                  *)
LEMMA JobIsShownStep ==
  ASSUME WriterInv, JobsAreKnown, HeldIsAccepted, JobIsShown, [PipelineNext]_pipelineVars
  PROVE  JobIsShown'
<1>0. WriterTypeOK /\ [WriterNext]_writerVars
  BY WriterMoves DEF WriterInv
<1>1. CASE Claim
  <2>1. cur \in Future /\ state[cur] # "free"
    BY <1>0, <1>1 DEF Claim, WriterTypeOK, HeldIsAccepted
  <2>2. kind[cur] \in Kind
    BY <2>1, PipelineAssumption DEF JobsAreKnown
  <2>3. QED
    BY <1>1, <2>2, WriterAssumption DEF Claim, JobIsShown
<1>2. CASE Start \/ Skip \/ Release \/ Interrupt \/ Abort \/ Die \/ Exit \/ Pop \/ UNCHANGED writerVars
  BY <1>2 DEF JobIsShown, Start, Skip, Release, Interrupt, Abort, Die, Exit, Pop, writerVars
<1>3. ASSUME \/ \E f \in Future : Cancel(f) \/ CancelDoomed(f)
             \/ \E f \in Future, k \in Kind : SubmitExternal(f, k) \/ SubmitOnWorker(f, k)
             \/ \E o \in {"done", "failed"} : Settle(o)
             \/ \E c \in Closer : CloserStep(c)
      PROVE  JobIsShown'
  BY <1>3 DEF JobIsShown, Cancel, CancelDoomed, Settle, CloserStep, CloseMark, ClosePost, CloseJoin,
    SubmitExternal, SubmitOnWorker
<1>4. QED
  BY <1>0, <1>1, <1>2, <1>3 DEF WriterNext, WorkerLoop

-----------------------------------------------------------------------------
(* What the call may not miss.                                             *)

(* A call that begins finds everything it may not miss on its way, but for *)
(* a note some tool holds the write lock for; nothing drops it from there. *)
LEMMA CallWillSeeStep ==
  ASSUME CoverInv, CoverInv', SeenHasNow, CallWillSee, [StatusNext]_allVars
  PROVE  SeenHasNow' /\ CallWillSee'
<1>0. PipelineTypeOK /\ disk \in [Path -> Stored]
  BY DEF CoverInv, PipelineTypeOK
<1>1. CASE AskGeneration
  <2>1. PICK s : s = seen'
    OBVIOUS
  <2>2. UNCHANGED pipelineVars
    BY <1>1 DEF AskGeneration
  <2>3. \A p \in Path : disk[p] \in s[p] /\ (p \in Marked => p \in dirtyPaths \/ Stored \subseteq s[p])
    <3>1. edit \in [path : Path \cup {None}, at : {"none", "written", "marked"}]
      BY <1>0 DEF PipelineTypeOK
    <3>2. \A p \in Path : edit.at = "written" /\ edit.path = p => edit = [path |-> p, at |-> "written"]
      BY <3>1
    <3>3. QED
      BY <1>0, <1>1, <2>1, <3>2 DEF AskGeneration, Marked
  <2>4. ~Crashing' => OnItsWay(s)'
    BY <2>2, <2>3, OnItsWayBegins, PipelineStands
  <2>5. disk' = disk
    BY <2>2, PipelineStands
  <2>6. QED
    BY <2>1, <2>3, <2>4, <2>5 DEF SeenHasNow, CallWillSee, OnItsWay, ReadTimely
<1>2. CASE (ToolStep /\ ~AskGeneration /\ UNCHANGED pipelineVars) \/ UNCHANGED allVars
  <2>1. seen' = seen /\ UNCHANGED pipelineVars /\ (call'.at # "idle" => call.at # "idle")
    BY <1>2 DEF ToolStep, ReadRows, CompareGeneration, ReadInFlight, ReadDirty, ReadDepth, allVars, statusVars
  <2>2. PICK s : s = seen
    OBVIOUS
  <2>3. (OnItsWay(s)' <=> OnItsWay(s)) /\ (Crashing' <=> Crashing) /\ disk' = disk
    BY <2>1, PipelineStands
  <2>4. QED
    BY <2>1, <2>2, <2>3 DEF SeenHasNow, CallWillSee, OnItsWay, ReadTimely
<1>3. CASE Meanwhile
  <2>1. PICK s, t : s = seen /\ t = seen'
    OBVIOUS
  <2>2. call' = call
    BY <1>3 DEF Meanwhile
  <2>3. SeenHasNow'
    BY <1>3, <2>2, SeenGrows DEF SeenHasNow
  <2>4. ASSUME call.at # "idle", ~Crashing'
        PROVE  OnItsWay(t)'
    <3>1. ~Crashing
      BY <2>4, CrashIsFinalStep, CallOnlyReads DEF CoverInv
    <3>2. OnItsWay(s)
      BY <2>1, <2>4, <3>1 DEF CallWillSee, OnItsWay, ReadTimely
    <3>3. \A p \in Path : disk[p] \in s[p] /\ s[p] \subseteq t[p]
      BY <1>3, <2>1, <2>4, SeenGrows DEF SeenHasNow
    <3>4. QED
      BY <2>4, <3>2, <3>3, OnItsWayStep, CallOnlyReads
  <2>5. CallWillSee'
    BY <2>1, <2>2, <2>4 DEF CallWillSee, OnItsWay, ReadTimely
  <2>6. QED
    BY <2>3, <2>5
<1>4. QED
  BY <1>1, <1>2, <1>3, CallOnlyReads

(* Nothing in flight means between jobs, and stays so until a job starts.  *)
LEMMA BetweenJobsStep ==
  ASSUME CoverInv, StatusTypeOK, JobIsShown, BetweenJobs, [StatusNext]_allVars
  PROVE  BetweenJobs'
<1>0. PipelineTypeOK /\ WriterTypeOK /\ pc \in WorkerPC
  BY DEF CoverInv, PipelineTypeOK, WriterTypeOK
<1> DEFINE Between == pc \in {"idle", "popped", "claimed", "exited"}
<1>1. CASE ToolStep /\ UNCHANGED <<pipelineVars, overlapped, slipped>>
  <2>1. pc' = pc /\ inFlight' = inFlight
    BY <1>1, PipelineStands
  <2>2. CASE ReadInFlight
    <3>1. call'.flight = inFlight
      BY <2>2 DEF ReadInFlight, StatusTypeOK
    <3>2. inFlight = None => Between
      BY <1>0 DEF JobIsShown, WorkerPC
    <3>3. QED
      BY <2>1, <3>1, <3>2 DEF BetweenJobs, Quiet
  <2>3. CASE ~ReadInFlight
    <3>1. call'.at \in {"dirty", "depth"} => call.at \in {"dirty", "depth"} /\ call'.flight = call.flight
      BY <1>1, <2>3 DEF ToolStep, AskGeneration, ReadRows, CompareGeneration, ReadDirty, ReadDepth, StatusTypeOK
    <3>2. QED
      BY <1>1, <2>1, <3>1 DEF BetweenJobs, Quiet
  <2>4. QED
    BY <2>2, <2>3
<1>2. CASE Meanwhile
  <2> SUFFICES ASSUME call'.at \in {"dirty", "depth"}, Quiet'
               PROVE  Between'
    BY DEF BetweenJobs
  <2>1. call' = call /\ ~overlapped /\ ~StartJob /\ Between
    BY <1>2 DEF Meanwhile, Quiet, BetweenJobs
  <2>2. step = "none"
    BY <1>0, <2>1 DEF PipelineTypeOK
  <2>3. ~FinishJob
    BY <2>2 DEF FinishJob
  <2>4. CASE LoopStep
    BY <2>1, <2>4 DEF LoopStep, Pop, Exit, Claim, Skip, Release, Abort, Die, CancelDoomed
  <2>5. CASE ~LoopStep
    BY <2>1, <2>3, <2>5, WorkerMoves, CallOnlyReads
  <2>6. QED
    BY <2>4, <2>5
<1>3. CASE UNCHANGED allVars
  <2>1. pc' = pc /\ call' = call /\ overlapped' = overlapped
    BY <1>3, PipelineStands DEF allVars, statusVars
  <2>2. QED
    BY <2>1 DEF BetweenJobs, Quiet
<1>4. QED
  BY <1>1, <1>2, <1>3, CallOnlyReads

(* Between jobs nothing is in a snapshot; with nothing marked either there *)
(* is nothing on its way, and all there is has been seen                   *)
(* (coordinator.py:225-233).                                               *)
LEMMA NothingLeftStep ==
  ASSUME CoverInv, CoverInv', StatusTypeOK, SeenHasNow, CallWillSee, BetweenJobs, NothingLeft,
         [StatusNext]_allVars
  PROVE  NothingLeft'
<1>0. PipelineTypeOK /\ (Crashing => Crashing') /\ [PipelineNext]_pipelineVars
  BY CrashIsFinalStep, CallOnlyReads DEF CoverInv
<1> DEFINE Found == call.at = "depth" \/ (call.at = "done" /\ ~call.stale)
<1>1. CASE ReadDirty /\ UNCHANGED <<pipelineVars, overlapped, slipped>>
  <2>1. call.at = "dirty" /\ call'.at = "depth" /\ call'.flight = call.flight /\ seen' = seen
        /\ (call'.dirty <=> dirtyPaths # {} \/ dirtyEmbeddings # {})
    BY <1>1 DEF ReadDirty, StatusTypeOK
  <2>2. PICK s : s = seen
    OBVIOUS
  <2>3. ASSUME Quiet', ~call'.dirty, ~Crashing'
        PROVE  AllTimely(s)
    <3>1. pc # "running" /\ step = "none" /\ dirtyPaths = {}
      BY <1>0, <1>1, <2>1, <2>3 DEF BetweenJobs, Quiet, PipelineTypeOK
    <3>2. OnItsWay(seen)
      BY <1>0, <2>1, <2>3 DEF CallWillSee
    <3>3. QED
      BY <2>2, <3>1, <3>2 DEF OnItsWay, AllTimely, ReadTimely, Runs
  <2>4. AllTimely(s)' <=> AllTimely(s)
    BY <1>1, PipelineStands
  <2>5. QED
    BY <2>1, <2>2, <2>3, <2>4 DEF NothingLeft, AllTimely, ReadTimely
<1>2. CASE ToolStep /\ ~ReadDirty /\ UNCHANGED <<pipelineVars, overlapped, slipped>>
  <2>1. Found' => /\ Found /\ call'.flight = call.flight /\ call'.dirty = call.dirty /\ seen' = seen
    <3>1. CASE ReadDepth
      BY <3>1 DEF ReadDepth, StatusTypeOK
    <3>2. CASE CompareGeneration
      <4>1. call'.at = "flight" \/ (call'.at = "done" /\ call'.stale)
        BY <3>2 DEF CompareGeneration, StatusTypeOK
      <4>2. QED
        BY <4>1
    <3>3. CASE AskGeneration \/ ReadRows \/ ReadInFlight
      BY <3>3 DEF AskGeneration, ReadRows, ReadInFlight, StatusTypeOK
    <3>4. QED
      BY <1>2, <3>1, <3>2, <3>3 DEF ToolStep
  <2>2. call'.at = "done" /\ ~call'.stale => call'.flight = None /\ ~call'.dirty
    BY <1>2 DEF ToolStep, AskGeneration, ReadRows, CompareGeneration, ReadInFlight, ReadDepth, StatusTypeOK,
      NothingLeft
  <2>3. PICK s : s = seen
    OBVIOUS
  <2>4. (AllTimely(s)' <=> AllTimely(s)) /\ (Crashing' <=> Crashing)
    BY <1>2, PipelineStands
  <2>5. Found' /\ Quiet' /\ ~call'.dirty /\ ~Crashing' => AllTimely(s)'
    BY <1>2, <2>1, <2>3, <2>4 DEF NothingLeft, Quiet, AllTimely, ReadTimely
  <2>6. QED
    BY <2>1, <2>2, <2>3, <2>5 DEF NothingLeft, AllTimely, ReadTimely
<1>3. CASE Meanwhile
  <2>1. call' = call /\ (Quiet' => Quiet)
    BY <1>3 DEF Meanwhile, Quiet
  <2>2. PICK s, t : s = seen /\ t = seen'
    OBVIOUS
  <2>3. ASSUME Found, Quiet', ~call.dirty, ~Crashing'
        PROVE  AllTimely(t)'
    <3>1. AllTimely(s)
      BY <1>0, <2>1, <2>2, <2>3 DEF NothingLeft, AllTimely, ReadTimely
    <3>2. \A p \in Path : disk[p] \in s[p] /\ s[p] \subseteq t[p]
      BY <1>3, <2>2, <2>3, SeenGrows DEF SeenHasNow
    <3>3. QED
      BY <1>0, <3>1, <3>2, AllTimelyStep
  <2>4. QED
    BY <2>1, <2>2, <2>3 DEF NothingLeft, AllTimely, ReadTimely
<1>4. CASE UNCHANGED allVars
  <2>1. UNCHANGED <<pipelineVars, call, seen, overlapped>>
    BY <1>4 DEF allVars, statusVars
  <2>2. PICK s : s = seen
    OBVIOUS
  <2>3. (AllTimely(s)' <=> AllTimely(s)) /\ (Crashing' <=> Crashing)
    BY <2>1, PipelineStands
  <2>4. QED
    BY <2>1, <2>2, <2>3 DEF NothingLeft, Quiet, AllTimely, ReadTimely
<1>5. QED
  BY <1>1, <1>2, <1>3, <1>4, CallOnlyReads DEF ToolStep

(* A row that was read and replaced since belongs to a job that has ended, *)
(* and moved the generation, or is still in flight (_common.py:262-266,    *)
(* index_writer.py:363-366).                                               *)
LEMMA RowsAreHeldStep ==
  ASSUME CoverInv, CoverInv', StatusTypeOK, JobIsShown, BetweenJobs, NothingLeft, RowsAreHeld,
         [StatusNext]_allVars
  PROVE  RowsAreHeld'
<1> DEFINE Busy == pc \in {"running", "settled", "crashing", "aborting"}
           Same == (call.at = "compare" /\ generation = call.gen) \/ (call.at = "flight" /\ ~slipped)
           Fine == call.at = "done" /\ ~call.stale /\ ~overlapped /\ ~slipped /\ ~Crashing
           Looks == call.at \in {"dirty", "depth"} /\ Quiet /\ ~slipped
<1>0. /\ PipelineTypeOK /\ WriterTypeOK /\ (Crashing => Crashing') /\ [PipelineNext]_pipelineVars
      /\ generation \in Nat /\ call.gen \in Nat
  BY CrashIsFinalStep, CallOnlyReads DEF CoverInv, StatusTypeOK, PipelineTypeOK, WriterTypeOK
<1>1. CASE ToolStep /\ UNCHANGED <<pipelineVars, overlapped, slipped>>
  <2>1. UNCHANGED <<fts, generation, pc>> /\ (Crashing' <=> Crashing)
    BY <1>1, PipelineStands
  <2>2. CASE AskGeneration
    <3>1. call'.at = "rows" /\ call'.gen = generation
      BY <2>2 DEF AskGeneration, StatusTypeOK
    <3>2. QED
      BY <1>0, <2>1, <3>1 DEF RowsAreHeld
  <2>3. CASE ReadRows
    <3>1. call.at = "rows" /\ call'.at = "compare" /\ call'.gen = call.gen /\ call'.rows = fts
      BY <2>3 DEF ReadRows, StatusTypeOK
    <3>2. QED
      BY <2>1, <3>1 DEF RowsAreHeld
  <2>4. CASE CompareGeneration
    <3>1. call.at = "compare" /\ call'.rows = call.rows
          /\ \/ call'.at = "done" /\ call'.stale
             \/ call'.at = "flight" /\ generation = call.gen
      BY <2>4 DEF CompareGeneration, StatusTypeOK
    <3>2. QED
      BY <2>1, <3>1 DEF RowsAreHeld
  <2>5. CASE ReadInFlight
    <3>1. call.at = "flight" /\ call'.at = "dirty" /\ call'.rows = call.rows /\ call'.flight = inFlight
      BY <2>5 DEF ReadInFlight, StatusTypeOK
    <3>2. inFlight = None => ~Busy
      BY DEF JobIsShown
    <3>3. QED
      BY <1>1, <2>1, <3>1, <3>2 DEF RowsAreHeld, Quiet
  <2>6. CASE ReadDirty
    <3>1. call.at = "dirty" /\ call'.at = "depth" /\ call'.rows = call.rows /\ call'.flight = call.flight
      BY <2>6 DEF ReadDirty, StatusTypeOK
    <3>2. QED
      BY <1>1, <2>1, <3>1 DEF RowsAreHeld, Quiet
  <2>7. CASE ReadDepth
    <3>1. call.at = "depth" /\ call'.at = "done" /\ call'.rows = call.rows /\ seen' = seen
          /\ (~call'.stale => call.flight = None /\ ~call.dirty)
      BY <2>7 DEF ReadDepth, StatusTypeOK
    <3>2. ASSUME Fine'
          PROVE  \A p \in Path : call.rows[p] \in seen[p]
      <4>1. Quiet /\ ~call.dirty /\ ~slipped /\ ~Crashing
        BY <1>1, <2>1, <3>1, <3>2 DEF Quiet
      <4>2. AllTimely(seen) /\ call.rows = fts
        BY <3>1, <4>1 DEF NothingLeft, RowsAreHeld
      <4>3. QED
        BY <4>2 DEF AllTimely
    <3>3. QED
      BY <3>1, <3>2 DEF RowsAreHeld
  <2>8. QED
    BY <1>1, <2>2, <2>3, <2>4, <2>5, <2>6, <2>7 DEF ToolStep
<1>2. CASE Meanwhile
  <2>1. call' = call /\ (~slipped' => ~slipped) /\ (Quiet' => Quiet) /\ (~overlapped' => ~overlapped)
        /\ (call.at = "flight" /\ ~slipped' => generation' = generation)
    BY <1>2 DEF Meanwhile, Quiet
  <2>2. /\ generation' = generation \/ generation' = generation + 1
        /\ generation' = generation /\ Busy => Busy'
    <3>1. CASE LoopStep
      BY <1>0, <3>1 DEF LoopStep, Pop, Exit, Claim, Skip, Release, Abort, Die, CancelDoomed
    <3>2. CASE StartJob \/ FinishJob
      BY <3>2 DEF StartJob, Start, FinishJob, Settle, Interrupt
    <3>3. CASE ~LoopStep /\ ~StartJob /\ ~FinishJob
      BY <1>0, <3>3, WorkerMoves
    <3>4. QED
      BY <3>1, <3>2, <3>3
  <2>3. fts' = fts \/ (Busy /\ Busy' /\ step # "none")
    <3>1. CASE UpsertNote
      <4>1. pc = "running" /\ pc' = pc /\ step # "none"
        BY <1>0, <3>1 DEF UpsertNote, PipelineTypeOK, writerVars
      <4>2. QED
        BY <4>1
    <3>2. QED
      BY <1>0, <3>1, RowsMove
  <2>4. call.at \in {"rows", "compare"} => call.gen <= generation'
    BY <1>0, <2>2 DEF RowsAreHeld
  <2>5. Same' => call.rows = fts' \/ Busy'
    <3>1. Same' => Same /\ generation' = generation
      BY <1>0, <2>1, <2>2, <2>4 DEF RowsAreHeld
    <3>2. QED
      BY <2>2, <2>3, <3>1 DEF RowsAreHeld
  <2>6. Looks' => call.rows = fts'
    <3>1. Looks' => Looks
      BY <2>1
    <3>2. Looks => pc \in {"idle", "popped", "claimed", "exited"}
      BY DEF BetweenJobs
    <3>3. QED
      BY <2>3, <3>1, <3>2 DEF RowsAreHeld
  <2>7. Fine' => \A p \in Path : call.rows[p] \in seen'[p]
    BY <1>0, <1>2, <2>1, SeenGrows DEF RowsAreHeld
  <2>8. QED
    BY <2>1, <2>4, <2>5, <2>6, <2>7 DEF RowsAreHeld
<1>3. CASE UNCHANGED allVars
  <2>1. UNCHANGED <<fts, generation, pc, call, seen, overlapped, slipped>> /\ (Crashing' <=> Crashing)
    BY <1>3, PipelineStands DEF allVars, statusVars
  <2>2. QED
    BY <2>1 DEF RowsAreHeld, Quiet
<1>4. QED
  BY <1>1, <1>2, <1>3, CallOnlyReads

-----------------------------------------------------------------------------
(* Nobody has asked anything yet.                                          *)
LEMMA StatusStarts == StatusInit => StatusInv
<1> SUFFICES ASSUME StatusInit
             PROVE  StatusInv
  OBVIOUS
<1>1. CoverInv
  BY CoverStarts DEF StatusInit
<1>2. PipelineTypeOK /\ disk \in [Path -> Stored]
  BY <1>1 DEF CoverInv, PipelineTypeOK
<1>3. StatusTypeOK
  BY <1>2 DEF StatusInit, NoCall, StatusTypeOK
<1>4. call.at = "idle"
  BY DEF StatusInit, NoCall
<1>5. HeldIsAccepted
  BY OccursEmpty DEF StatusInit, PipelineInit, WriterInit, HeldIsAccepted, Queued
<1>6. JobIsShown
  BY DEF StatusInit, PipelineInit, WriterInit, JobIsShown
<1>7. QED
  BY <1>1, <1>3, <1>4, <1>5, <1>6 DEF StatusInv, SeenHasNow, CallWillSee, BetweenJobs, NothingLeft, RowsAreHeld

(* Every step of the tool or of the rest of the program keeps it.          *)
LEMMA StatusStep == StatusInv /\ [StatusNext]_allVars => StatusInv'
<1> SUFFICES ASSUME StatusInv, [StatusNext]_allVars
             PROVE  StatusInv'
  OBVIOUS
<1>0. /\ CoverInv /\ StatusTypeOK /\ HeldIsAccepted /\ JobIsShown
      /\ SeenHasNow /\ CallWillSee /\ BetweenJobs /\ NothingLeft /\ RowsAreHeld
      /\ WriterInv /\ JobsAreKnown /\ [PipelineNext]_pipelineVars
  BY CallOnlyReads DEF StatusInv, CoverInv
<1>1. CoverInv'
  BY <1>0, CoverStep
<1>2. StatusTypeOK' /\ HeldIsAccepted' /\ JobIsShown'
  BY <1>0, <1>1, StatusTypeStep, HeldIsAcceptedStep, JobIsShownStep
<1>3. SeenHasNow' /\ CallWillSee'
  BY <1>0, <1>1, CallWillSeeStep
<1>4. BetweenJobs' /\ NothingLeft' /\ RowsAreHeld'
  BY <1>0, <1>1, BetweenJobsStep, NothingLeftStep, RowsAreHeldStep
<1>5. QED
  BY <1>1, <1>2, <1>3, <1>4 DEF StatusInv

(* A tool's call sees a behaviour of the pipeline, so that what is proved  *)
(* of IndexPipeline holds of it here too.                                  *)
THEOREM StatusRunsOnPipeline == StatusSpec => PipelineSpec
<1>1. StatusInit => PipelineInit
  BY DEF StatusInit
<1>2. [StatusNext]_allVars => [PipelineNext]_pipelineVars
  BY CallOnlyReads
<1>3. QED
  BY <1>1, <1>2, PTL DEF StatusSpec, PipelineSpec

(* The invariant of the report holds in every reachable state.             *)
THEOREM StatusInvariant == StatusSpec => []StatusInv
  BY StatusStarts, StatusStep, PTL DEF StatusSpec

(* What a read tool says of its answer is right at the strength of its two *)
(* observations: "drained", when no job started during the evaluation,     *)
(* means every write marked before the call is in its row; "not stale",    *)
(* when besides no job ended between the two checks, means the answer      *)
(* itself held them (coordinator.py:225-233, _common.py:262-266).          *)
THEOREM ReportsAreRightHolds == StatusSpec => []ReportsAreRight
<1>1. StatusInv => ReportsAreRight
  <2> SUFFICES ASSUME StatusInv
               PROVE  StatusTypeOK /\ DrainedReportIsRight /\ QuietAnswerIsFresh
    BY DEF ReportsAreRight
  <2>1. DrainedReportIsRight
    BY DEF StatusInv, NothingLeft, Quiet, AllTimely, DrainedReportIsRight, Reported
  <2>2. QuietAnswerIsFresh
    BY DEF StatusInv, RowsAreHeld, QuietAnswerIsFresh, Reported
  <2>3. QED
    BY <2>1, <2>2 DEF StatusInv
<1>2. QED
  BY <1>1, StatusInvariant, PTL

=============================================================================
