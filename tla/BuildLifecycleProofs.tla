-------------------------- MODULE BuildLifecycleProofs --------------------------
(***************************************************************************)
(* What is proved about BuildLifecycle, for any number of attempts,        *)
(* Futures and close() calls: readiness is the outcome of the latest       *)
(* attempt over a store with the marker of a completed build, an outcome   *)
(* stands, and a mutation goes ahead only over a success.                  *)
(***************************************************************************)
EXTENDS BuildLifecycle, IndexWriterProofs


(* A Future that submit() has yet to hand out is nowhere on the writer, and *)
(* a crash leaves nothing but the way out.                                 *)
FreeIsNowhere ==
  /\ \A f \in Future : state[f] = "free" => ~Queued(f) /\ cur # f /\ f \notin doomed
  /\ crashed => pc \in {"aborting", "exited"}

(* The places of a submit() at which it holds the scheduling lock, and of  *)
(* a command that has claimed its attempt.                                 *)
Submitting == {"warm", "warmSet", "warmDone", "cold", "begun", "cleared", "queued",
               "refused", "rebegun", "recleared", "refusedSet", "refusedDone"}
Before == {"clear", "scan", "marker", "publish"}
After == {"publishDone", "resolve"}

(* Whoever holds the lock is a submit() of the latest attempt, or the      *)
(* command that publishes.                                                 *)
LockInPlace ==
  /\ \A a \in Attempt : at[a] \in Submitting => lock = a /\ latest = a
  /\ step = "publishDone" => lock = Running /\ \A a \in Attempt : at[a] \notin Submitting
  /\ lock # None => at[lock] \in Submitting \/ step = "publishDone"

(* Each attempt has its own Future on the writer, and every job of the     *)
(* writer is an attempt's command or a refresh.                            *)
CommandsAreKnown ==
  /\ \A a \in Attempt : queued[a] # None =>
       at[a] \in {"queued", "returned"} /\ state[queued[a]] # "free" /\ kind[queued[a]] = Build
  /\ \A a \in Attempt : at[a] = "queued" => queued[a] # None
  /\ \A a, b \in Attempt : queued[a] # None /\ queued[a] = queued[b] => a = b
  /\ \A f \in Future : state[f] # "free" =>
       kind[f] = Refresh \/ (kind[f] = Build /\ \E a \in Attempt : queued[a] = f)
  /\ barrier.future # None => state[barrier.future] # "free" /\ kind[barrier.future] = Refresh
  /\ step \notin {"none", "settle"} => kind[cur] = Build

(* How far each attempt's public Future and outcome are.                   *)
OutcomesInPlace ==
  /\ \A a \in Attempt :
       /\ at[a] = "unused" => public[a] = "none" /\ result[a] = "none"
       /\ at[a] \in {"warm", "cold", "begun", "cleared", "refused", "rebegun", "recleared"} =>
            public[a] = "pending" /\ result[a] = "none"
       /\ at[a] \in {"warmSet", "warmDone"} => public[a] = "running" /\ result[a] = "succeeded"
       /\ at[a] \in {"refusedSet", "refusedDone"} => public[a] = "running" /\ result[a] = "failed"
       /\ at[a] = "queued" => public[a] \in Active /\ result[a] = "none"
       /\ public[a] = "pending" => result[a] = "none"
       /\ public[a] = "running" =>
            \/ at[a] \in {"warmSet", "warmDone", "refusedSet", "refusedDone"}
            \/ step \in Before \cup After /\ queued[a] = cur
       /\ queued[a] # None /\ queued[a] = cur =>
            /\ step \in Before => public[a] = "running" /\ result[a] = "none"
            /\ step \in After => public[a] = "running" /\ result[a] = verdictOf
            /\ step = "settle" => public[a] \notin Active
  /\ step \in {"claim", "clear", "scan", "marker"} => verdictOf = "succeeded"
  /\ PublicMatchesOutcome

(* An attempt that has not ended is listed, and its command is still to    *)
(* come or running, unless the writer died.                                *)
LiveIsListed ==
  \A a \in Attempt :
    /\ at[a] \in {"cleared", "queued"} => a \in unfinished
    /\ at[a] \in {"queued", "returned"} /\ public[a] \in Active =>
         a \in unfinished /\ queued[a] # None /\ (crashed \/ state[queued[a]] \in Active)

(* The latest attempt's command is the last on the queue; once it has been *)
(* taken no other is left.                                                 *)
IsCommand(x) == \E a \in Attempt : queued[a] # None /\ queued[a] = x
LastOf(q, x) == \A i, j \in 1..Len(q) : q[i] = x /\ IsCommand(q[j]) => j <= i
NewestLast ==
  ~crashed /\ latest # None /\ queued[latest] # None =>
    /\ LastOf(queue, queued[latest])
    /\ cur = queued[latest] => ~Queued(cur)
    /\ ~Queued(queued[latest]) =>
         \A a \in Attempt : a # latest /\ queued[a] # None => ~Queued(queued[a]) /\ cur # queued[a]

(* What the verdict is while a submit() goes on, and between.              *)
VerdictInPlace ==
  /\ lock = None \/ step = "publishDone" =>
       /\ verdict.built <=> (latest # None /\ result[latest] = "succeeded")
       /\ verdict.error <=> (latest # None /\ result[latest] = "failed")
  /\ \A a \in Attempt :
       /\ at[a] \in {"warmSet", "warmDone"} => verdict = Built
       /\ at[a] \in {"begun", "cleared", "queued", "rebegun", "recleared"} => verdict = NotBuilt
       /\ at[a] \in {"refusedSet", "refusedDone"} => ~verdict.built /\ verdict.error

(* Over a store declared built no build is under way, so nothing is about  *)
(* to take the marker away.                                                *)
BuiltIsAtRest ==
  /\ verdict.built => marker
  /\ step = "publish" /\ verdictOf = "succeeded" => marker
  /\ \A a \in Attempt : at[a] = "warm" =>
       marker /\ \A b \in Attempt : b # a => public[b] \notin Active
  /\ verdict.built => \A a \in Attempt : public[a] \in Active =>
       \/ at[a] \in {"warm", "warmSet", "warmDone", "cold", "refused"}
       \/ step \in After /\ queued[a] = cur

(* What the reading calls have been told.                                  *)
ReadersInPlace ==
  /\ barrier.at = "build" => barrier.build # None
  /\ barrier.at \in {"build", "refresh"} => barrier.future # None
  /\ barrier.at \in {"refresh", "proceed"} =>
       barrier.build = None \/ result[barrier.build] = "succeeded"
  /\ status.reads = 2 /\ status.ended => status.verdict.built \/ status.verdict.error

BuildInv ==
  /\ WriterInv /\ FreeIsNowhere /\ BuildTypeOK /\ LockInPlace /\ CommandsAreKnown /\ OutcomesInPlace
  /\ LiveIsListed /\ NewestLast /\ VerdictInPlace /\ BuiltIsAtRest /\ ReadersInPlace


-----------------------------------------------------------------------------
(* The writer underneath.                                                  *)

(* submit() hands out a Future that nobody has (index_writer.py:162-184).  *)
LEMMA FreshIsFree ==
  ASSUME Spare # {}
  PROVE  Fresh \in Future /\ state[Fresh] = "free"
BY DEF Spare, Fresh

(* Whatever a submit(), a command, a callback or a reading call does to    *)
(* the writer, it does by the writer's own operations.                     *)
LEMMA WriterMoves ==
  ASSUME ReadersInPlace, BuildTypeOK, [BuildNext]_buildVars
  PROVE  [WriterNext]_writerVars
<1> USE BuildAssumption
<1>1. CASE CommandStep
  <2>1. CASE StartCommand
    BY <2>1 DEF StartCommand, WriterNext, WorkerLoop
  <2>2. CASE FinishCommand
    BY <2>2 DEF FinishCommand, WriterNext
  <2>3. CASE ClaimAttempt \/ ClearMarker \/ ScanReturns \/ SetMarker \/ CommandRaises
             \/ Publish \/ PublishDone \/ Resolve
    BY <2>3 DEF ClaimAttempt, ClearMarker, ScanReturns, SetMarker, CommandRaises, Publish,
      PublishDone, Resolve
  <2>4. QED
    BY <1>1, <2>1, <2>2, <2>3 DEF CommandStep
<1>2. CASE LoopStep
  BY <1>2 DEF LoopStep, WriterNext, WorkerLoop
<1>3. ASSUME NEW a \in Attempt, SubmitStep(a)
      PROVE  [WriterNext]_writerVars
  BY <1>3, FreshIsFree DEF SubmitStep, PublishWarm, BeginBuild, ClearDone, SubmitCommand,
    SubmitRefused, RecordRefused, WakeWaiters, Return, WriterNext
<1>4. ASSUME NEW a \in Attempt, CancelAttempt(a) \/ DispatchDone(a) \/ RecordCancelled(a)
             \/ \E force \in BOOLEAN : Schedule(a, force)
      PROVE  [WriterNext]_writerVars
  BY <1>4 DEF CancelAttempt, DispatchDone, RecordCancelled, Schedule
<1>5. CASE BarrierBegin
  BY <1>5, FreshIsFree DEF BarrierBegin, WriterNext
<1>6. CASE DeadlinePasses
  <2>1. CASE state[barrier.future] = "pending"
    <3>1. barrier.future # None
      BY <1>6 DEF DeadlinePasses, ReadersInPlace
    <3>2. barrier.future \in Future
      BY <3>1 DEF BuildTypeOK
    <3>3. QED
      BY <1>6, <2>1, <3>2 DEF DeadlinePasses, WriterNext
  <2>2. QED
    BY <1>6, <2>1 DEF DeadlinePasses
<1>7. CASE RequireSuccess \/ RefreshDone \/ WaitStep \/ StatusReads
  BY <1>7 DEF RequireSuccess, RefreshDone, WaitStep, StatusReads
<1>8. CASE CloseVault
  BY <1>8 DEF CloseVault, WriterNext
<1>9. CASE UNCHANGED buildVars
  BY <1>9 DEF buildVars
<1>10. QED
  BY <1>1, <1>2, <1>3, <1>4, <1>5, <1>6, <1>7, <1>8, <1>9
     DEF BuildNext, CallbackStep, ReaderStep, BarrierStep

(* What each operation of the writer leaves of it.                         *)
LEMMA FreeNext ==
  ASSUME WriterInv, FreeIsNowhere, [WriterNext]_writerVars
  PROVE  FreeIsNowhere'
<1> USE WriterAssumption
<1>0. WriterTypeOK
  BY DEF WriterInv
<1>1. ASSUME NEW f \in Future, NEW k \in Kind, SubmitExternal(f, k) \/ SubmitOnWorker(f, k)
      PROVE  FreeIsNowhere'
  <2>1. /\ state' = [state EXCEPT ![f] = "pending"]
        /\ \A x : Queued(x)' <=> Queued(x) \/ x = f
        /\ UNCHANGED <<crashed, pc, cur, doomed>>
    BY <1>0, <1>1, EnqueueType DEF SubmitExternal, SubmitOnWorker, Enqueue
  <2>2. QED
    BY <1>0, <2>1 DEF FreeIsNowhere, WriterTypeOK
<1>2. ASSUME NEW f \in Future, Cancel(f)
      PROVE  FreeIsNowhere'
  <2>1. \A x : Queued(x)' <=> Queued(x)
    BY <1>2 DEF Cancel, Queued, Occurs
  <2>2. QED
    BY <1>0, <1>2, <2>1 DEF FreeIsNowhere, WriterTypeOK, Cancel
<1>3. CASE Pop
  <2>1. \A x : Queued(x) <=> Queued(x)' \/ x = Head(queue)
    BY <1>0, <1>3, PopType DEF Pop
  <2>2. cur' = cur \/ cur' = Head(queue)
    BY <1>3 DEF Pop
  <2>3. QED
    BY <1>3, <2>1, <2>2 DEF FreeIsNowhere, Pop
<1>4. CASE Exit
  BY <1>4 DEF FreeIsNowhere, Exit, Queued, Occurs
<1>5. ASSUME Claim \/ Start \/ Skip \/ Release \/ Die \/ Interrupt
             \/ \E o \in {"done", "failed"} : Settle(o)
      PROVE  FreeIsNowhere'
  <2>1. \A x : Queued(x)' <=> Queued(x)
    BY <1>5 DEF Claim, Start, Skip, Release, Die, Interrupt, Settle, Queued, Occurs
  <2>2. \A f \in Future : state'[f] = "free" => state[f] = "free"
    BY <1>0, <1>5 DEF Claim, Start, Skip, Release, Die, Interrupt, Settle, WriterTypeOK
  <2>3. cur' = cur \/ cur' = None
    BY <1>5 DEF Claim, Start, Skip, Release, Die, Interrupt, Settle
  <2>4. doomed' = doomed /\ crashed' = crashed /\ (pc = "aborting" => pc' = "exited")
        /\ pc # "exited"
    BY <1>5 DEF Claim, Start, Skip, Release, Die, Interrupt, Settle
  <2>5. QED
    BY <2>1, <2>2, <2>3, <2>4 DEF FreeIsNowhere
<1>6. CASE Abort
  <2>1. \A x : ~Queued(x)'
    BY <1>6, OccursEmpty DEF Abort, Queued
  <2>2. \A f \in Future : f \in doomed' => Queued(f)
    BY <1>0, <1>6, LenProperties DEF Abort, Queued, Occurs, WriterTypeOK
  <2>3. QED
    BY <1>6, <2>1, <2>2 DEF FreeIsNowhere, Abort
<1>7. ASSUME NEW f \in Future, CancelDoomed(f)
      PROVE  FreeIsNowhere'
  <2>1. \A x : Queued(x)' <=> Queued(x)
    BY <1>7 DEF CancelDoomed, Queued, Occurs
  <2>2. QED
    BY <1>0, <1>7, <2>1 DEF FreeIsNowhere, WriterTypeOK, CancelDoomed
<1>8. ASSUME NEW c \in Closer, CloserStep(c)
      PROVE  FreeIsNowhere'
  <2>1. \A f \in Future : Queued(f)' <=> Queued(f)
    <3>1. CASE ClosePost(c)
      BY <1>0, <3>1, PostType DEF ClosePost
    <3>2. CASE CloseMark(c) \/ CloseJoin(c)
      BY <3>2 DEF CloseMark, CloseJoin, Queued, Occurs
    <3>3. QED
      BY <1>8, <3>1, <3>2 DEF CloserStep
  <2>2. UNCHANGED <<state, cur, doomed, crashed, pc>>
    BY <1>8 DEF CloserStep, CloseMark, ClosePost, CloseJoin
  <2>3. QED
    BY <2>1, <2>2 DEF FreeIsNowhere
<1>9. CASE UNCHANGED writerVars
  BY <1>9 DEF FreeIsNowhere, writerVars, Queued, Occurs
<1>10. QED
  BY <1>1, <1>2, <1>3, <1>4, <1>5, <1>6, <1>7, <1>8, <1>9 DEF WriterNext, WorkerLoop

(* A Future that was handed out stays so, for the job it was made for, and *)
(* a crash is for good (index_writer.py:162-184, 325-345).                 *)
LEMMA FuturesMove ==
  ASSUME WriterTypeOK, [WriterNext]_writerVars
  PROVE  /\ \A f \in Future : state[f] # "free" => state'[f] # "free" /\ kind'[f] = kind[f]
         /\ crashed => crashed'
<1> USE DEF WriterTypeOK
<1>1. ASSUME NEW g \in Future, NEW k \in Kind, SubmitExternal(g, k) \/ SubmitOnWorker(g, k)
      PROVE  /\ \A f \in Future : state[f] # "free" => state'[f] # "free" /\ kind'[f] = kind[f]
             /\ crashed => crashed'
  BY <1>1 DEF SubmitExternal, SubmitOnWorker, Enqueue
<1>2. ASSUME NEW g \in Future, Cancel(g) \/ CancelDoomed(g)
      PROVE  /\ \A f \in Future : state[f] # "free" => state'[f] # "free" /\ kind'[f] = kind[f]
             /\ crashed => crashed'
  BY <1>2 DEF Cancel, CancelDoomed
<1>3. CASE Pop \/ Exit \/ Claim \/ Skip \/ Release \/ Abort \/ Die
  BY <1>3 DEF Pop, Exit, Claim, Skip, Release, Abort, Die
<1>4. CASE Start \/ Interrupt \/ \E o \in {"done", "failed"} : Settle(o)
  BY <1>4 DEF Start, Interrupt, Settle
<1>5. CASE \E c \in Closer : CloserStep(c)
  BY <1>5 DEF CloserStep, CloseMark, ClosePost, CloseJoin
<1>6. CASE UNCHANGED writerVars
  BY <1>6 DEF writerVars
<1>7. QED
  BY <1>1, <1>2, <1>3, <1>4, <1>5, <1>6 DEF WriterNext, WorkerLoop

(* The rest of the loop, and close(), hand out no Future, and cancel one   *)
(* only after a crash; the loop is not between the steps of a command.     *)
LEMMA LoopOnly ==
  ASSUME WriterInv, BuildTypeOK, LoopStep \/ CloseVault
  PROVE  /\ kind' = kind
         /\ \A f \in Future : state'[f] = "free" <=> state[f] = "free"
         /\ \A f \in Future : state[f] \in Active => state'[f] \in Active \/ crashed
         /\ step # "none" => cur' = cur /\ pc' = pc /\ state' = state
         /\ step = "none" => pc' # "running"
<1>1. CASE LoopStep
  <2>1. ASSUME NEW f \in Future, CancelDoomed(f)
        PROVE  crashed /\ pc' = "aborting" /\ pc = "aborting" /\ kind' = kind
               /\ state' = [state EXCEPT ![f] = IF @ = "pending" THEN "cancelled" ELSE @]
    BY <2>1 DEF CancelDoomed, WriterInv, ShutdownOrder
  <2>2. CASE \E f \in Future : CancelDoomed(f)
    BY <2>1, <2>2 DEF BuildTypeOK, WriterTypeOK
  <2>3. CASE Pop \/ Exit \/ Claim \/ Skip \/ Abort \/ Release \/ Die
    <3>1. pc # "running" /\ pc' # "running" /\ state' = state /\ kind' = kind
      BY <2>3 DEF Pop, Exit, Claim, Skip, Abort, Release, Die
    <3>2. QED
      BY <3>1 DEF BuildTypeOK
  <2>4. QED
    BY <1>1, <2>2, <2>3 DEF LoopStep
<1>2. CASE CloseVault
  BY <1>2 DEF CloseVault, CloserStep, CloseMark, ClosePost, CloseJoin, BuildTypeOK
<1>3. QED
  BY <1>1, <1>2

(* While a command is between its steps the worker holds its Future and    *)
(* nothing that others do to the writer touches it (index_writer.py:       *)
(* 289-323).                                                               *)
LEMMA WorkerStays ==
  ASSUME WriterInv, BuildTypeOK, ReadersInPlace, [BuildNext]_buildVars,
         step # "none", ~FinishCommand
  PROVE  /\ cur' = cur /\ pc' = pc /\ cur \in Future
         /\ pc = "running" /\ state[cur] = "running" /\ state'[cur] = "running"
<1> USE WriterAssumption
<1>1. pc = "running" /\ cur \in Future /\ state[cur] = "running"
  BY DEF BuildTypeOK, WriterTypeOK, WriterInv, WorkerHolds
<1>2. ~StartCommand
  BY <1>1 DEF StartCommand, Start
<1>3. ASSUME NEW f \in Future, NEW k, SubmitExternal(f, k)
      PROVE  cur' = cur /\ pc' = pc /\ state'[cur] = state[cur]
  BY <1>1, <1>3 DEF SubmitExternal, Enqueue, BuildTypeOK, WriterTypeOK
<1>4. ASSUME NEW f \in Future, Cancel(f)
      PROVE  cur' = cur /\ pc' = pc /\ state'[cur] = state[cur]
  BY <1>1, <1>4 DEF Cancel, BuildTypeOK, WriterTypeOK
<1>5. CASE CommandStep
  <2>1. UNCHANGED writerVars
    BY <1>2, <1>5 DEF CommandStep, ClaimAttempt, ClearMarker, ScanReturns, SetMarker,
      CommandRaises, Publish, PublishDone, Resolve
  <2>2. QED
    BY <1>1, <2>1 DEF writerVars
<1>6. CASE LoopStep \/ CloseVault
  BY <1>1, <1>6, LoopOnly
<1>7. ASSUME NEW a \in Attempt, SubmitStep(a)
      PROVE  cur' = cur /\ pc' = pc /\ state'[cur] = state[cur]
  <2>1. CASE SubmitCommand(a)
    BY <1>3, <2>1, FreshIsFree DEF SubmitCommand
  <2>2. CASE ~SubmitCommand(a)
    <3>1. UNCHANGED writerVars
      BY <1>7, <2>2 DEF SubmitStep, PublishWarm, BeginBuild, ClearDone, SubmitRefused,
        RecordRefused, WakeWaiters, Return
    <3>2. QED
      BY <3>1 DEF writerVars
  <2>3. QED
    BY <2>1, <2>2
<1>8. ASSUME NEW a \in Attempt, CancelAttempt(a) \/ DispatchDone(a) \/ RecordCancelled(a)
             \/ \E force \in BOOLEAN : Schedule(a, force)
      PROVE  cur' = cur /\ pc' = pc /\ state'[cur] = state[cur]
  BY <1>8 DEF CancelAttempt, DispatchDone, RecordCancelled, Schedule, writerVars
<1>9. CASE BarrierBegin
  <2>1. CASE closed
    BY <1>1, <1>9, <2>1 DEF BarrierBegin, writerVars
  <2>2. CASE ~closed
    BY <1>1, <1>3, <1>9, <2>2, FreshIsFree DEF BarrierBegin
  <2>3. QED
    BY <2>1, <2>2
<1>10. CASE DeadlinePasses
  <2>1. barrier.future \in Future
    BY <1>10 DEF DeadlinePasses, ReadersInPlace, BuildTypeOK
  <2>2. QED
    BY <1>1, <1>4, <1>10, <2>1 DEF DeadlinePasses, writerVars
<1>11. CASE RequireSuccess \/ RefreshDone \/ WaitStep \/ StatusReads
  BY <1>1, <1>11 DEF RequireSuccess, RefreshDone, WaitStep, StatusReads, writerVars
<1>12. CASE UNCHANGED buildVars
  BY <1>1, <1>12 DEF buildVars, writerVars
<1>13. QED
  BY <1>1, <1>5, <1>6, <1>7, <1>8, <1>9, <1>10, <1>11, <1>12
     DEF BuildNext, CallbackStep, ReaderStep, BarrierStep

(* The command that runs is the one attempt's whose Future the worker      *)
(* holds (build_lifecycle.py:146-177).                                     *)
LEMMA RunningIs ==
  ASSUME WriterInv, BuildTypeOK, CommandsAreKnown, step \notin {"none", "settle"}
  PROVE  /\ Running \in Attempt /\ queued[Running] = cur /\ cur \in Future
         /\ pc = "running" /\ state[cur] = "running"
         /\ at[Running] \in {"queued", "returned"}
         /\ \A a \in Attempt : queued[a] = cur => a = Running
<1> USE WriterAssumption
<1>1. pc = "running" /\ cur \in Future /\ state[cur] = "running"
  BY DEF BuildTypeOK, WriterTypeOK, WriterInv, WorkerHolds
<1>2. kind[cur] = Build /\ Build # Refresh
  BY DEF CommandsAreKnown, Build, Refresh
<1>3. \E a \in Attempt : queued[a] = cur
  BY <1>1, <1>2 DEF CommandsAreKnown
<1>4. Running \in Attempt /\ queued[Running] = cur
  BY <1>3 DEF Running
<1>5. QED
  BY <1>1, <1>4 DEF CommandsAreKnown

-----------------------------------------------------------------------------
(* Types.                                                                  *)

(* Every step of any thread keeps the types.                               *)
LEMMA BuildTypeNext ==
  ASSUME BuildInv, [BuildNext]_buildVars
  PROVE  BuildTypeOK'
<1> USE WriterAssumption, BuildAssumption
<1> USE DEF scheduleVars, readyVars, runVars, readerVars, Outcome, Unsuccessful,
    Active, Settled, NotBuilt, Built
<1>0. BuildTypeOK /\ WriterInv /\ ReadersInPlace /\ CommandsAreKnown
  BY DEF BuildInv
<1>1. WriterTypeOK'
  BY <1>0, WriterMoves, WriterTypeNext DEF WriterInv
<1>2. CASE CommandStep
  <2>1. CASE StartCommand
    <3>1. step' \in {"claim", "settle"} /\ pc' = "running"
      BY <1>0, <2>1 DEF StartCommand, Start, BuildTypeOK
    <3>2. verdictOf' \in Outcome /\ signal' \in BOOLEAN
      BY <1>0, <2>1 DEF StartCommand, Start, BuildTypeOK
    <3>3. UNCHANGED <<at, public, result, queued, latest, unfinished, lock, verdict,
                      done, marker, barrier, waiter, status>>
      BY <2>1 DEF StartCommand, Start, writerVars
    <3>4. QED
      BY <1>0, <1>1, <3>1, <3>2, <3>3 DEF BuildTypeOK
  <2>2. CASE FinishCommand
    BY <1>0, <1>1, <2>2 DEF FinishCommand, Interrupt, Settle, BuildTypeOK
  <2>3. CASE ClaimAttempt
    BY <1>0, <1>1, <2>3, RunningIs DEF ClaimAttempt, BuildTypeOK, writerVars
  <2>4. CASE ClearMarker \/ ScanReturns \/ SetMarker \/ CommandRaises
    <3>1. step' \in {"clear", "scan", "marker", "publish", "publishDone", "resolve", "settle"}
          /\ pc = "running"
      BY <1>0, <2>4 DEF ClearMarker, ScanReturns, SetMarker, CommandRaises, BuildTypeOK
    <3>2. verdictOf' \in Outcome /\ signal' \in BOOLEAN
          /\ marker' \in BOOLEAN
      BY <1>0, <2>4 DEF ClearMarker, ScanReturns, SetMarker, CommandRaises, BuildTypeOK
    <3>3. UNCHANGED <<at, public, result, queued, latest, unfinished, lock, verdict,
                      done, pc, barrier, waiter, status>>
      BY <2>4 DEF ClearMarker, ScanReturns, SetMarker, CommandRaises, writerVars
    <3>4. QED
      BY <1>0, <1>1, <3>1, <3>2, <3>3 DEF BuildTypeOK
  <2>5. CASE Publish
    <3>1. step' = "publishDone" /\ pc = "running" /\ lock' \in Attempt
      BY <1>0, <2>5, RunningIs DEF Publish, BuildTypeOK
    <3>2. result' \in [Attempt -> {"none"} \cup Outcome]
      BY <1>0, <2>5, RunningIs DEF Publish, BuildTypeOK
    <3>3. verdict' \in [built : BOOLEAN, error : BOOLEAN]
      BY <1>0, <2>5, RunningIs DEF Publish, BuildTypeOK
    <3>4. UNCHANGED <<at, public, queued, latest, unfinished, done, marker,
                      verdictOf, signal, pc, barrier, waiter, status>>
      BY <2>5 DEF Publish, writerVars
    <3>5. QED
      BY <1>0, <1>1, <3>1, <3>2, <3>3, <3>4 DEF BuildTypeOK
  <2>6. CASE PublishDone \/ Resolve
    <3>0. done' \in BOOLEAN
      <4>1. CASE PublishDone
        <5>1. done' = (done \/ latest = Running)
          BY <4>1 DEF PublishDone
        <5>2. QED
          BY <5>1
      <4>2. CASE Resolve
        BY <1>0, <4>2 DEF Resolve, BuildTypeOK
      <4>3. QED
        BY <2>6, <4>1, <4>2
    <3>1. step' \in {"resolve", "settle"} /\ pc = "running" /\ lock' \in Attempt \cup {None}
      BY <1>0, <2>6 DEF PublishDone, Resolve, BuildTypeOK
    <3>2. public' \in [Attempt -> {"none"} \cup Active \cup Settled]
      <4>1. \/ public' = public
            \/ public' = [public EXCEPT ![Running] = "done"]
            \/ public' = [public EXCEPT ![Running] = "failed"]
        BY <2>6 DEF PublishDone, Resolve
      <4>2. QED
        BY <1>0, <4>1 DEF BuildTypeOK
    <3>3. UNCHANGED <<at, result, queued, latest, unfinished, verdict, marker,
                      verdictOf, signal, pc, barrier, waiter, status>>
      BY <2>6 DEF PublishDone, Resolve, writerVars
    <3>4. QED
      BY <1>0, <1>1, <3>0, <3>1, <3>2, <3>3 DEF BuildTypeOK
  <2>7. QED
    BY <1>2, <2>1, <2>2, <2>3, <2>4, <2>5, <2>6 DEF CommandStep
<1>3. CASE LoopStep \/ CloseVault
  <2>1. UNCHANGED <<scheduleVars, readyVars, marker, runVars, readerVars>>
    BY <1>3 DEF LoopStep, CloseVault
  <2>2. step = "none" <=> pc' # "running"
    BY <1>0, <1>3, LoopOnly DEF BuildTypeOK
  <2>3. QED
    BY <1>0, <1>1, <2>1, <2>2 DEF BuildTypeOK
<1>4. ASSUME NEW a \in Attempt, SubmitStep(a)
      PROVE  BuildTypeOK'
  <2>1. CASE SubmitCommand(a)
    BY <1>0, <1>1, <2>1, FreshIsFree DEF SubmitCommand, SubmitExternal, BuildTypeOK
  <2>2. CASE PublishWarm(a) \/ RecordRefused(a) \/ SubmitRefused(a)
    <3>1. at' \in [Attempt -> {"unused", "warm", "warmSet", "warmDone", "cold", "begun",
                            "cleared", "queued", "refused", "rebegun", "recleared",
                            "refusedSet", "refusedDone", "returned"}]
          /\ unfinished' \subseteq Attempt
      BY <1>0, <2>2 DEF PublishWarm, RecordRefused, WakeWaiters, SubmitRefused, BuildTypeOK
    <3>2. public' \in [Attempt -> {"none"} \cup Active \cup Settled]
      BY <1>0, <2>2 DEF PublishWarm, RecordRefused, WakeWaiters, SubmitRefused, BuildTypeOK
    <3>3. result' \in [Attempt -> {"none"} \cup Outcome]
      BY <1>0, <2>2 DEF PublishWarm, RecordRefused, WakeWaiters, SubmitRefused, BuildTypeOK
    <3>4. verdict' \in [built : BOOLEAN, error : BOOLEAN]
      <4>1. verdict' = verdict \/ verdict' = Built \/ verdict' = [verdict EXCEPT !.error = TRUE]
        BY <2>2 DEF PublishWarm, RecordRefused, WakeWaiters, SubmitRefused
      <4>2. verdict \in [built : BOOLEAN, error : BOOLEAN]
        BY <1>0 DEF BuildTypeOK
      <4>3. Built \in [built : BOOLEAN, error : BOOLEAN]
        OBVIOUS
      <4>4. [verdict EXCEPT !.error = TRUE] \in [built : BOOLEAN, error : BOOLEAN]
        BY <4>2
      <4>5. QED
        BY <4>1, <4>2, <4>3, <4>4
    <3>5. UNCHANGED <<queued, latest, lock, done, marker, step, verdictOf,
                      signal, pc, barrier, waiter, status>>
      BY <2>2 DEF PublishWarm, RecordRefused, WakeWaiters, SubmitRefused, writerVars
    <3>6. QED
      BY <1>0, <1>1, <3>1, <3>2, <3>3, <3>4, <3>5 DEF BuildTypeOK
  <2>3. CASE BeginBuild(a)
    <3>1. at' = [at EXCEPT ![a] = "begun"] \/ at' = [at EXCEPT ![a] = "rebegun"]
      BY <2>3 DEF BeginBuild
    <3>2. QED
      <4>1. at' \in [Attempt -> {"unused", "warm", "warmSet", "warmDone", "cold", "begun",
                            "cleared", "queued", "refused", "rebegun", "recleared",
                            "refusedSet", "refusedDone", "returned"}]
        BY <1>0, <2>3, <3>1 DEF BeginBuild, BuildTypeOK
      <4>2. verdict' \in [built : BOOLEAN, error : BOOLEAN]
        BY <1>0, <2>3, <3>1 DEF BeginBuild, BuildTypeOK
      <4>3. status' \in [reads : 0..2, done : BOOLEAN,
                      verdict : [built : BOOLEAN, error : BOOLEAN],
                      began : BOOLEAN, ended : BOOLEAN]
        BY <1>0, <2>3, <3>1 DEF BeginBuild, BuildTypeOK
      <4>4. UNCHANGED <<public, result, queued, latest, unfinished, lock, done,
                        marker, step, verdictOf, signal, pc, barrier, waiter>>
        BY <2>3, <3>1 DEF BeginBuild, writerVars
      <4>5. QED
        BY <1>0, <1>1, <4>1, <4>2, <4>3, <4>4 DEF BuildTypeOK
  <2>4. CASE ClearDone(a)
    <3>1. at' = [at EXCEPT ![a] = "cleared"] \/ at' = [at EXCEPT ![a] = "recleared"]
      BY <2>4 DEF ClearDone
    <3>2. QED
      <4>1. at' \in [Attempt -> {"unused", "warm", "warmSet", "warmDone", "cold", "begun",
                            "cleared", "queued", "refused", "rebegun", "recleared",
                            "refusedSet", "refusedDone", "returned"}]
        BY <1>0, <2>4, <3>1 DEF ClearDone, BuildTypeOK
      <4>2. unfinished' \subseteq Attempt /\ done' \in BOOLEAN
        <5>1. unfinished' \subseteq unfinished \cup {a}
          BY <2>4 DEF ClearDone
        <5>2. unfinished \subseteq Attempt
          BY <1>0 DEF BuildTypeOK
        <5>3. done' = FALSE
          BY <2>4 DEF ClearDone
        <5>4. QED
          BY <5>1, <5>2, <5>3
      <4>3. UNCHANGED <<public, result, queued, latest, lock, verdict, marker,
                        step, verdictOf, signal, pc, barrier, waiter, status>>
        BY <2>4, <3>1 DEF ClearDone, writerVars
      <4>4. QED
        BY <1>0, <1>1, <4>1, <4>2, <4>3 DEF BuildTypeOK
  <2>5. CASE Return(a)
    BY <1>0, <1>1, <2>5 DEF Return, BuildTypeOK, writerVars
  <2>6. CASE WakeWaiters(a)
    <3>1. at' = [at EXCEPT ![a] = "warmDone"] \/ at' = [at EXCEPT ![a] = "refusedDone"]
      BY <2>6 DEF WakeWaiters
    <3>2. at' \in [Attempt -> {"unused", "warm", "warmSet", "warmDone", "cold", "begun",
                             "cleared", "queued", "refused", "rebegun", "recleared",
                             "refusedSet", "refusedDone", "returned"}]
      BY <1>0, <3>1 DEF BuildTypeOK
    <3>3. done' = TRUE
      BY <2>6 DEF WakeWaiters
    <3>4. UNCHANGED <<public, result, queued, latest, unfinished, lock, verdict, marker,
                      step, verdictOf, signal, pc, barrier, waiter, status>>
      BY <2>6 DEF WakeWaiters, writerVars
    <3>5. QED
      BY <1>0, <1>1, <3>2, <3>3, <3>4 DEF BuildTypeOK
  <2>7. QED
    BY <1>4, <2>1, <2>2, <2>3, <2>4, <2>5, <2>6 DEF SubmitStep
<1>5. ASSUME NEW a \in Attempt, NEW force \in BOOLEAN, Schedule(a, force)
      PROVE  BuildTypeOK'
  BY <1>0, <1>1, <1>5 DEF Schedule, BuildTypeOK, writerVars
<1>6. ASSUME NEW a \in Attempt, CancelAttempt(a) \/ DispatchDone(a) \/ RecordCancelled(a)
      PROVE  BuildTypeOK'
  <2>1. done' \in BOOLEAN /\ unfinished' \subseteq Attempt
    BY <1>0, <1>6 DEF CancelAttempt, DispatchDone, RecordCancelled, BuildTypeOK
  <2>2. public' \in [Attempt -> {"none"} \cup Active \cup Settled]
    BY <1>0, <1>6 DEF CancelAttempt, DispatchDone, RecordCancelled, BuildTypeOK
  <2>3. result' \in [Attempt -> {"none"} \cup Outcome]
    BY <1>0, <1>6 DEF CancelAttempt, DispatchDone, RecordCancelled, BuildTypeOK
  <2>4. UNCHANGED <<at, queued, latest, lock, verdict, marker, step, verdictOf,
                    signal, pc, barrier, waiter, status>>
    BY <1>6 DEF CancelAttempt, DispatchDone, RecordCancelled, writerVars
  <2>5. QED
    BY <1>0, <1>1, <2>1, <2>2, <2>3, <2>4 DEF BuildTypeOK
<1>7. CASE BarrierBegin
  <2>1. pc' = pc
    BY <1>7 DEF BarrierBegin, SubmitExternal, writerVars
  <2>2. barrier'.future \in Future \cup {None} /\ barrier' = [at |-> barrier'.at,
          build |-> barrier'.build, future |-> barrier'.future]
          /\ barrier'.at \in {"error", "refresh", "build"} /\ barrier'.build \in Attempt \cup {None}
    BY <1>0, <1>7, FreshIsFree DEF BarrierBegin, BuildTypeOK
  <2>3. QED
    BY <1>0, <1>1, <1>7, <2>1, <2>2 DEF BarrierBegin, BuildTypeOK
<1>8. CASE DeadlinePasses
  <2>1. pc' = pc
    BY <1>8 DEF DeadlinePasses, Cancel, writerVars
  <2>2. QED
    BY <1>0, <1>1, <1>8, <2>1 DEF DeadlinePasses, BuildTypeOK
<1>9. CASE RequireSuccess \/ RefreshDone
  BY <1>0, <1>1, <1>9 DEF RequireSuccess, RefreshDone, BuildTypeOK, writerVars
<1>10. CASE WaitStep
  <2>1. waiter' \in [at : {"idle", "waiting", "woken", "ok", "build_failed",
                          "never_built", "timeout"}, asked : BOOLEAN]
    <3>1. \E x \in {"waiting", "woken", "timeout", "ok", "build_failed", "never_built"},
             y \in BOOLEAN : waiter' = [at |-> x, asked |-> y]
      <4>1. waiter.asked \in BOOLEAN
        BY <1>0 DEF BuildTypeOK
      <4>2. \/ waiter' = [at |-> "waiting", asked |-> latest # None /\ lock = None]
            \/ \E x \in {"woken", "timeout", "ok", "build_failed", "never_built"} :
                 waiter' = [waiter EXCEPT !.at = x]
        BY <1>10 DEF WaitStep
      <4>3. waiter = [at |-> waiter.at, asked |-> waiter.asked]
        BY <1>0 DEF BuildTypeOK
      <4>4. CASE \E x \in {"woken", "timeout", "ok", "build_failed", "never_built"} :
                 waiter' = [waiter EXCEPT !.at = x]
        BY <4>1, <4>3, <4>4
      <4>5. CASE waiter' = [at |-> "waiting", asked |-> latest # None /\ lock = None]
        <5> DEFINE y == latest # None /\ lock = None
        <5>1. y \in BOOLEAN /\ waiter' = [at |-> "waiting", asked |-> y]
          BY <4>5
        <5> HIDE DEF y
        <5>2. QED
          BY <5>1
      <4>6. QED
        BY <4>2, <4>4, <4>5
    <3>2. QED
      BY <3>1
  <2>2. UNCHANGED <<at, public, result, queued, latest, unfinished, lock, verdict, done,
                    marker, step, verdictOf, signal, pc, barrier, status>>
    BY <1>10 DEF WaitStep, writerVars
  <2>3. QED
    BY <1>0, <1>1, <2>1, <2>2 DEF BuildTypeOK
<1>11. CASE StatusReads
  <2>1. status.reads + 1 \in 0..2
    BY <1>0, <1>11 DEF StatusReads, BuildTypeOK
  <2>2. QED
    BY <1>0, <1>1, <1>11, <2>1 DEF StatusReads, BuildTypeOK, writerVars
<1>12. CASE UNCHANGED buildVars
  BY <1>0, <1>1, <1>12 DEF buildVars, BuildTypeOK, writerVars
<1>13. QED
  BY <1>2, <1>3, <1>4, <1>5, <1>6, <1>7, <1>8, <1>9, <1>10, <1>11, <1>12
     DEF BuildNext, CallbackStep, ReaderStep, BarrierStep

-----------------------------------------------------------------------------
(* What whole groups of steps leave alone.                                 *)

(* The steps that change nothing of the attempts, of readiness or of the   *)
(* running command.                                                        *)
Quiet == LoopStep \/ CloseVault \/ ReaderStep \/ UNCHANGED buildVars

(* The worker loop, close() and the reading calls keep to their own.       *)
LEMMA QuietFrame ==
  ASSUME Quiet
  PROVE  UNCHANGED <<at, public, result, queued, latest, unfinished, lock, verdict, done,
                     marker, step, verdictOf, signal>>
<1> USE DEF scheduleVars, readyVars, runVars, readerVars, buildVars
<1>1. CASE LoopStep \/ CloseVault \/ UNCHANGED buildVars
  BY <1>1 DEF LoopStep, CloseVault
<1>2. CASE ReaderStep
  BY <1>2 DEF ReaderStep, BarrierStep, BarrierBegin, RequireSuccess, RefreshDone,
    DeadlinePasses, WaitStep, StatusReads
<1>3. QED
  BY <1>1, <1>2 DEF Quiet

(* A quiet step leaves the running command its Future.                     *)
LEMMA QuietStays ==
  ASSUME WriterInv, BuildTypeOK, ReadersInPlace, [BuildNext]_buildVars, Quiet,
         step # "none"
  PROVE  cur' = cur
<1>1. ~FinishCommand
  BY QuietFrame DEF FinishCommand
<1>2. QED
  BY <1>1, WorkerStays

(* Every other step of a build leaves the writer as it is.                 *)
LEMMA WriterIdle ==
  ASSUME \/ ClaimAttempt \/ ClearMarker \/ ScanReturns \/ SetMarker \/ CommandRaises
         \/ Publish \/ PublishDone \/ Resolve
         \/ \E a \in Attempt : \/ PublishWarm(a) \/ BeginBuild(a) \/ ClearDone(a)
                               \/ SubmitRefused(a) \/ RecordRefused(a) \/ WakeWaiters(a)
                               \/ Return(a) \/ CancelAttempt(a) \/ DispatchDone(a)
                               \/ RecordCancelled(a)
                               \/ \E force \in BOOLEAN : Schedule(a, force)
  PROVE  UNCHANGED writerVars
BY DEF ClaimAttempt, ClearMarker, ScanReturns, SetMarker, CommandRaises, Publish, PublishDone,
  Resolve, PublishWarm, BeginBuild, ClearDone, SubmitRefused, RecordRefused, WakeWaiters, Return,
  CancelAttempt, DispatchDone, RecordCancelled, Schedule

(* submit() and the barrier are the only ones that have the writer accept  *)
(* a job (build_lifecycle.py:137, coordinator.py:243).                     *)
LEMMA NoneIsNew ==
  ASSUME WriterInv, BuildTypeOK, ReadersInPlace, [BuildNext]_buildVars,
         \A a \in Attempt : ~SubmitCommand(a), ~BarrierBegin
  PROVE  kind' = kind /\ \A f \in Future : state'[f] = "free" <=> state[f] = "free"
<1> USE DEF BuildTypeOK, WriterTypeOK
<1>1. CASE StartCommand \/ FinishCommand
  <2>1. \E x \in {"running", "done", "failed"} : state' = [state EXCEPT ![cur] = x] /\ kind' = kind
    BY <1>1 DEF StartCommand, Start, FinishCommand, Interrupt, Settle
  <2>2. state[cur] \in {"pending", "running"}
    BY <1>1 DEF StartCommand, Start, FinishCommand, Interrupt, Settle, WriterInv, WorkerHolds
  <2>3. QED
    BY <2>1, <2>2
<1>2. CASE UNCHANGED writerVars
  BY <1>2 DEF writerVars
<1>3. CASE LoopStep \/ CloseVault
  BY <1>3, LoopOnly
<1>4. CASE DeadlinePasses
  <2>1. CASE state[barrier.future] = "pending"
    BY <1>4, <2>1 DEF DeadlinePasses, ReadersInPlace, Cancel
  <2>2. CASE state[barrier.future] # "pending"
    BY <1>2, <1>4, <2>2 DEF DeadlinePasses
  <2>3. QED
    BY <2>1, <2>2
<1>5. CASE RequireSuccess \/ RefreshDone \/ WaitStep \/ StatusReads \/ UNCHANGED buildVars
  BY <1>2, <1>5 DEF RequireSuccess, RefreshDone, WaitStep, StatusReads, buildVars
<1>6. QED
  BY <1>1, <1>2, <1>3, <1>4, <1>5, WriterIdle
     DEF BuildNext, SubmitStep, CommandStep, CallbackStep, ReaderStep, BarrierStep

(* A command that was accepted is pending or running until it has run, or  *)
(* the writer has crashed: only a refresh is ever cancelled by a deadline  *)
(* (coordinator.py:258-268).                                               *)
LEMMA CommandStays ==
  ASSUME WriterInv, BuildTypeOK, ReadersInPlace, CommandsAreKnown, [BuildNext]_buildVars,
         NEW f \in Future, state[f] \in Active, kind[f] = Build, ~(FinishCommand /\ f = cur)
  PROVE  state'[f] \in Active \/ crashed'
<1> USE DEF BuildTypeOK, WriterTypeOK
<1>1. CASE StartCommand
  BY <1>1 DEF StartCommand, Start, Active
<1>2. CASE FinishCommand
  BY <1>2 DEF FinishCommand, Interrupt, Settle
<1>3. CASE UNCHANGED writerVars
  BY <1>3 DEF writerVars
<1>4. CASE LoopStep \/ CloseVault
  <2>1. crashed => crashed'
    BY WriterMoves, FuturesMove DEF WriterInv
  <2>2. QED
    BY <1>4, <2>1, LoopOnly
<1>5. CASE DeadlinePasses
  <2>1. barrier.future \in Future /\ barrier.future # f
    BY <1>5 DEF DeadlinePasses, ReadersInPlace, CommandsAreKnown, Build, Refresh
  <2>2. QED
    BY <1>3, <1>5, <2>1 DEF DeadlinePasses, Cancel
<1>6. ASSUME NEW k, SubmitExternal(Fresh, k), Fresh \in Future
      PROVE  state'[f] \in Active
  BY <1>6 DEF SubmitExternal, Enqueue, Active
<1>7. CASE BarrierBegin
  BY <1>3, <1>6, <1>7, FreshIsFree DEF BarrierBegin
<1>8. ASSUME NEW a \in Attempt, SubmitCommand(a)
      PROVE  state'[f] \in Active
  BY <1>6, <1>8, FreshIsFree DEF SubmitCommand
<1>9. CASE RequireSuccess \/ RefreshDone \/ WaitStep \/ StatusReads \/ UNCHANGED buildVars
  BY <1>3, <1>9 DEF RequireSuccess, RefreshDone, WaitStep, StatusReads, buildVars
<1>10. QED
  BY <1>1, <1>2, <1>3, <1>4, <1>5, <1>7, <1>8, <1>9, WriterIdle
     DEF BuildNext, SubmitStep, CommandStep, CallbackStep, ReaderStep, BarrierStep

-----------------------------------------------------------------------------
(* The lock and the queue.                                                 *)

(* The lock goes from one submit() or publication to the next, and never   *)
(* to two (build_lifecycle.py:116-144, 203-210).                           *)
LEMMA LockNext ==
  ASSUME BuildInv, [BuildNext]_buildVars
  PROVE  LockInPlace'
<1> USE BuildAssumption DEF BuildTypeOK, Submitting
<1>0. LockInPlace /\ BuildTypeOK /\ WriterInv /\ ReadersInPlace /\ CommandsAreKnown
  BY DEF BuildInv
<1>1. ASSUME NEW a \in Attempt, NEW force \in BOOLEAN, Schedule(a, force)
      PROVE  LockInPlace'
  <2>1. /\ lock = None /\ lock' = a /\ latest' = a /\ step' = step
        /\ \E x \in {"cold", "refused", "warm"} : at' = [at EXCEPT ![a] = x]
    BY <1>1 DEF Schedule, runVars
  <2>2. step # "publishDone" /\ \A b \in Attempt : at[b] \notin Submitting
    BY <1>0, <2>1, RunningIs DEF LockInPlace
  <2>3. QED
    BY <1>0, <2>1, <2>2 DEF LockInPlace
<1>2. ASSUME NEW a \in Attempt, SubmitStep(a), ~Return(a)
      PROVE  LockInPlace'
  <2>1. /\ at[a] \in Submitting /\ UNCHANGED <<lock, latest, step>>
        /\ \E x \in Submitting : at' = [at EXCEPT ![a] = x]
    BY <1>2 DEF SubmitStep, PublishWarm, BeginBuild, ClearDone, SubmitCommand,
      SubmitRefused, RecordRefused, WakeWaiters, runVars
  <2>2. lock = a /\ latest = a /\ step # "publishDone"
    BY <1>0, <2>1 DEF LockInPlace
  <2>3. QED
    BY <1>0, <2>1, <2>2 DEF LockInPlace
<1>3. ASSUME NEW a \in Attempt, Return(a)
      PROVE  LockInPlace'
  <2>1. at[a] \in Submitting /\ at' = [at EXCEPT ![a] = "returned"] /\ lock' = None
        /\ step' = step
    BY <1>3 DEF Return, runVars
  <2>2. lock = a /\ step # "publishDone"
    BY <1>0, <2>1 DEF LockInPlace
  <2>3. QED
    BY <1>0, <2>1, <2>2 DEF LockInPlace
<1>4. CASE Publish
  <2>1. Running \in Attempt
    BY <1>0, <1>4, RunningIs DEF Publish
  <2>2. Running' = Running
    BY <1>4 DEF Publish, Running, writerVars
  <2>3. QED
    BY <1>0, <1>4, <2>1, <2>2 DEF Publish, LockInPlace
<1>5. CASE PublishDone
  BY <1>0, <1>5 DEF PublishDone, LockInPlace
<1>6. CASE \/ StartCommand \/ ClaimAttempt \/ ClearMarker \/ ScanReturns \/ SetMarker
           \/ CommandRaises \/ Resolve \/ FinishCommand
  <2>1. UNCHANGED <<at, lock, latest>> /\ step' # "publishDone" /\ step # "publishDone"
    BY <1>0, <1>6 DEF StartCommand, Start, ClaimAttempt, ClearMarker, ScanReturns, SetMarker,
      CommandRaises, Resolve, FinishCommand, scheduleVars
  <2>2. QED
    BY <1>0, <2>1 DEF LockInPlace
<1>7. CASE Quiet
  <2>1. step = "publishDone" => Running' = Running
    BY <1>0, <1>7, QuietFrame, QuietStays DEF Running
  <2>2. QED
    BY <1>0, <1>7, <2>1, QuietFrame DEF LockInPlace
<1>8. ASSUME NEW a \in Attempt, CancelAttempt(a) \/ DispatchDone(a) \/ RecordCancelled(a)
      PROVE  LockInPlace'
  <2>1. UNCHANGED <<at, lock, latest, step>> /\ Running' = Running
    BY <1>8 DEF CancelAttempt, DispatchDone, RecordCancelled, runVars, Running, writerVars
  <2>2. QED
    BY <1>0, <2>1 DEF LockInPlace
<1>9. QED
  BY <1>1, <1>2, <1>3, <1>4, <1>5, <1>6, <1>7, <1>8
     DEF BuildNext, CommandStep, CallbackStep, Quiet

(* Every job the writer gets is known to whoever asked for it              *)
(* (build_lifecycle.py:137-144, coordinator.py:243).                       *)
LEMMA CommandsNext ==
  ASSUME BuildInv, [BuildNext]_buildVars
  PROVE  CommandsAreKnown'
<1> USE WriterAssumption, BuildAssumption DEF BuildTypeOK, WriterTypeOK
<1>0. LockInPlace /\ BuildTypeOK /\ WriterInv /\ ReadersInPlace /\ CommandsAreKnown
      /\ FreeIsNowhere
  BY DEF BuildInv
<1>1. \A f \in Future : state[f] # "free" => state'[f] # "free" /\ kind'[f] = kind[f]
  BY <1>0, WriterMoves, FuturesMove
<1>2. ASSUME step \notin {"none", "settle"}
      PROVE  kind'[cur'] = Build
  <2>1. ~FinishCommand
    BY <1>2 DEF FinishCommand
  <2>2. cur' = cur /\ cur \in Future /\ state[cur] = "running"
    BY <1>0, <1>2, <2>1, WorkerStays
  <2>3. QED
    BY <1>0, <1>1, <1>2, <2>2 DEF CommandsAreKnown
<1>3. ASSUME NEW a \in Attempt, SubmitCommand(a)
      PROVE  CommandsAreKnown'
  <2>1. Fresh \in Future /\ state[Fresh] = "free"
    BY <1>3, FreshIsFree DEF SubmitCommand
  <2>2. /\ state' = [state EXCEPT ![Fresh] = "pending"]
        /\ kind' = [kind EXCEPT ![Fresh] = Build]
        /\ queued' = [queued EXCEPT ![a] = Fresh]
        /\ at' = [at EXCEPT ![a] = "queued"]
        /\ UNCHANGED <<cur, step, barrier>>
    BY <1>3 DEF SubmitCommand, SubmitExternal, Enqueue, runVars, readerVars
  <2>3. \A b \in Attempt : queued[b] # Fresh
    BY <1>0, <2>1 DEF CommandsAreKnown
  <2>4. \A b \in Attempt : b # a => queued'[b] = queued[b] /\ at'[b] = at[b]
    BY <1>0, <2>2
  <2>5. queued'[a] = Fresh /\ at'[a] = "queued" /\ state'[Fresh] = "pending"
        /\ kind'[Fresh] = Build
    BY <1>0, <2>1, <2>2
  <2>6. \A b \in Attempt : queued'[b] # None =>
          at'[b] \in {"queued", "returned"} /\ state'[queued'[b]] # "free"
          /\ kind'[queued'[b]] = Build
    BY <1>0, <1>1, <2>1, <2>4, <2>5 DEF CommandsAreKnown
  <2>7. \A b \in Attempt : at'[b] = "queued" => queued'[b] # None
    BY <1>0, <2>1, <2>4, <2>5 DEF CommandsAreKnown
  <2>8. \A b, c \in Attempt : queued'[b] # None /\ queued'[b] = queued'[c] => b = c
    BY <1>0, <2>3, <2>4, <2>5 DEF CommandsAreKnown
  <2>9. \A f \in Future : state'[f] # "free" =>
          kind'[f] = Refresh \/ (kind'[f] = Build /\ \E b \in Attempt : queued'[b] = f)
    <3> TAKE f \in Future
    <3> HAVE state'[f] # "free"
    <3>1. CASE f = Fresh
      BY <2>5, <3>1
    <3>2. CASE f # Fresh
      <4>1. state[f] # "free" /\ kind'[f] = kind[f]
        BY <1>0, <2>2, <3>2
      <4>2. \A b \in Attempt : queued[b] = f => queued'[b] = f
        <5>1. queued[a] = None
          BY <1>0, <1>3 DEF CommandsAreKnown, SubmitCommand
        <5>2. QED
          BY <2>4, <5>1
      <4>3. QED
        BY <1>0, <4>1, <4>2 DEF CommandsAreKnown
    <3>3. QED
      BY <3>1, <3>2
  <2>10. barrier'.future # None =>
          state'[barrier'.future] # "free" /\ kind'[barrier'.future] = Refresh
    BY <1>0, <1>1, <2>2 DEF CommandsAreKnown
  <2>11. step' \notin {"none", "settle"} => kind'[cur'] = Build
    BY <1>2, <2>2
  <2>12. QED
    BY <2>6, <2>7, <2>8, <2>9, <2>10, <2>11 DEF CommandsAreKnown
<1>4. CASE BarrierBegin
  <2>1. UNCHANGED <<at, queued, step>>
    BY <1>4 DEF BarrierBegin, scheduleVars, runVars
  <2>2. CASE closed
    BY <1>0, <1>4, <2>1, <2>2 DEF BarrierBegin, CommandsAreKnown, writerVars
  <2>3. CASE ~closed
    <3>1. Fresh \in Future /\ state[Fresh] = "free"
      BY <1>4, <2>3, FreshIsFree DEF BarrierBegin
    <3>2. /\ state' = [state EXCEPT ![Fresh] = "pending"]
          /\ kind' = [kind EXCEPT ![Fresh] = Refresh]
          /\ barrier'.future = Fresh
          /\ UNCHANGED <<cur>>
      BY <1>4, <2>3 DEF BarrierBegin, SubmitExternal, Enqueue
    <3>3. \A f \in Future : state'[f] # "free" =>
            f = Fresh \/ (state[f] # "free" /\ kind'[f] = kind[f])
      BY <1>0, <3>2
    <3>4. kind'[Fresh] = Refresh /\ state'[Fresh] # "free"
      BY <1>0, <3>1, <3>2
    <3>5. QED
      BY <1>0, <1>1, <1>2, <2>1, <3>1, <3>2, <3>3, <3>4 DEF CommandsAreKnown
  <2>4. QED
    BY <2>2, <2>3
<1>5. ASSUME \A a \in Attempt : ~SubmitCommand(a), ~BarrierBegin
      PROVE  CommandsAreKnown'
  <2>1. kind' = kind /\ \A f \in Future : state'[f] = "free" <=> state[f] = "free"
    BY <1>0, <1>5, NoneIsNew
  <2>2. queued' = queued
    BY <1>5, QuietFrame DEF BuildNext, CommandStep, CallbackStep, SubmitStep, Quiet, Schedule,
      PublishWarm, BeginBuild, ClearDone, SubmitRefused, RecordRefused, WakeWaiters, Return,
      CancelAttempt, DispatchDone, RecordCancelled, StartCommand, ClaimAttempt, ClearMarker,
      ScanReturns, SetMarker, CommandRaises, Publish, PublishDone, Resolve, FinishCommand,
      scheduleVars
  <2>3. barrier' = barrier \/ barrier'.future = barrier.future
    <3>1. CASE ReaderStep
      BY <1>0, <1>5, <3>1 DEF ReaderStep, BarrierStep, RequireSuccess, RefreshDone,
        DeadlinePasses, WaitStep, StatusReads
    <3>2. CASE ~ReaderStep
      BY <1>5, <3>2 DEF BuildNext, CommandStep, CallbackStep, SubmitStep, LoopStep, CloseVault,
        Schedule, PublishWarm, BeginBuild, ClearDone, SubmitRefused, RecordRefused, WakeWaiters,
        Return, CancelAttempt, DispatchDone, RecordCancelled, StartCommand, ClaimAttempt,
        ClearMarker, ScanReturns, SetMarker, CommandRaises, Publish, PublishDone, Resolve,
        FinishCommand, readerVars, buildVars
    <3>3. QED
      BY <3>1, <3>2
  <2>4. /\ \A a \in Attempt : queued'[a] # None => at'[a] \in {"queued", "returned"}
        /\ \A a \in Attempt : at'[a] = "queued" => queued'[a] # None
    <3>1. ASSUME NEW a \in Attempt, SubmitStep(a) \/ \E force \in BOOLEAN : Schedule(a, force)
          PROVE  \E x : /\ at' = [at EXCEPT ![a] = x]
                        /\ x \in {"queued", "returned"} <=> at[a] \in {"queued", "returned"}
                                                            \/ x = "returned"
                        /\ x # "queued" /\ (at[a] = "unused" => x # "returned")
      BY <1>5, <3>1 DEF SubmitStep, Schedule, PublishWarm, BeginBuild, ClearDone,
        SubmitRefused, RecordRefused, WakeWaiters, Return
    <3>2. ASSUME NEW a \in Attempt, SubmitStep(a) \/ \E force \in BOOLEAN : Schedule(a, force)
          PROVE  /\ \A b \in Attempt : queued'[b] # None => at'[b] \in {"queued", "returned"}
                 /\ \A b \in Attempt : at'[b] = "queued" => queued'[b] # None
      BY <1>0, <2>2, <3>1, <3>2 DEF CommandsAreKnown
    <3>3. CASE at' = at
      BY <1>0, <2>2, <3>3 DEF CommandsAreKnown
    <3>4. QED
      BY <3>2, <3>3, QuietFrame DEF BuildNext, CommandStep, CallbackStep, Quiet,
        CancelAttempt, DispatchDone, RecordCancelled, StartCommand, ClaimAttempt, ClearMarker,
        ScanReturns, SetMarker, CommandRaises, Publish, PublishDone, Resolve, FinishCommand,
        scheduleVars
  <2>5. step' \notin {"none", "settle"} => kind'[cur'] = Build
    <3>1. CASE StartCommand
      BY <2>1, <3>1 DEF StartCommand, Start
    <3>2. CASE ~StartCommand
      <4>1. step' = step \/ step' \in {"none", "settle"} \/ step \notin {"none", "settle"}
        BY <3>2, QuietFrame DEF BuildNext, CommandStep, CallbackStep, SubmitStep, Quiet, Schedule,
          PublishWarm, BeginBuild, ClearDone, SubmitCommand, SubmitRefused, RecordRefused,
          WakeWaiters, Return, CancelAttempt, DispatchDone, RecordCancelled, ClaimAttempt,
          ClearMarker, ScanReturns, SetMarker, CommandRaises, Publish, PublishDone, Resolve,
          FinishCommand, runVars
      <4>2. QED
        BY <1>2, <4>1
    <3>3. QED
      BY <3>1, <3>2
  <2>6. QED
    BY <1>0, <1>1, <2>1, <2>2, <2>3, <2>4, <2>5 DEF CommandsAreKnown
<1>6. QED
  BY <1>3, <1>4, <1>5

(* Each attempt's public Future goes from pending to running to what its   *)
(* outcome says, at the steps that do so (build_lifecycle.py:146-219).     *)
LEMMA OutcomesNext ==
  ASSUME BuildInv, BuildTypeOK', [BuildNext]_buildVars
  PROVE  OutcomesInPlace'
<1> USE WriterAssumption, BuildAssumption
<1> USE DEF BuildTypeOK, Active, Settled, Outcome, Unsuccessful, Before, After
<1>0. LockInPlace /\ BuildTypeOK /\ WriterInv /\ ReadersInPlace /\ CommandsAreKnown
      /\ FreeIsNowhere /\ OutcomesInPlace
  BY DEF BuildInv
<1>1. \A a \in Attempt : at[a] \notin {"queued", "returned"} => queued[a] = None
  BY <1>0 DEF CommandsAreKnown
<1>2. step \in Before \cup After => Running \in Attempt /\ queued[Running] = cur
         /\ cur # None /\ at[Running] \in {"queued", "returned"}
         /\ \A a \in Attempt : queued[a] = cur => a = Running
  BY <1>0, RunningIs
<1>3. CASE UNCHANGED <<at, public, result, queued, step, verdictOf>>
           /\ (step = "none" \/ cur' = cur)
  BY <1>0, <1>3 DEF OutcomesInPlace, PublicMatchesOutcome
<1>4. ASSUME NEW a \in Attempt, NEW force \in BOOLEAN, Schedule(a, force)
      PROVE  OutcomesInPlace'
  <2>1. /\ at[a] = "unused" /\ public' = [public EXCEPT ![a] = "pending"]
        /\ \E x \in {"cold", "refused", "warm"} : at' = [at EXCEPT ![a] = x]
        /\ UNCHANGED <<result, queued, step, verdictOf, cur>>
    BY <1>4 DEF Schedule, runVars, writerVars
  <2>2. queued[a] = None /\ (step # "none" => cur # None)
    BY <1>0, <1>1, <2>1 DEF WriterTypeOK
  <2>3. QED
    BY <1>0, <1>2, <2>1, <2>2 DEF OutcomesInPlace, PublicMatchesOutcome
<1>5. ASSUME NEW a \in Attempt, PublishWarm(a) \/ RecordRefused(a)
      PROVE  OutcomesInPlace'
  <2>1. /\ at[a] \in {"warm", "recleared"} /\ public' = [public EXCEPT ![a] = "running"]
        /\ \/ result' = [result EXCEPT ![a] = "succeeded"] /\ at' = [at EXCEPT ![a] = "warmSet"]
           \/ result' = [result EXCEPT ![a] = "failed"] /\ at' = [at EXCEPT ![a] = "refusedSet"]
        /\ UNCHANGED <<queued, step, verdictOf, cur>>
    BY <1>5 DEF PublishWarm, RecordRefused, WakeWaiters, runVars, writerVars
  <2>2. queued[a] = None /\ (step # "none" => cur # None)
    BY <1>0, <1>1, <2>1 DEF WriterTypeOK
  <2>3. QED
    BY <1>0, <1>2, <2>1, <2>2 DEF OutcomesInPlace, PublicMatchesOutcome
<1>6. ASSUME NEW a \in Attempt, BeginBuild(a) \/ ClearDone(a) \/ SubmitRefused(a)
      PROVE  OutcomesInPlace'
  <2>1. /\ at[a] \in {"cold", "refused", "begun", "rebegun", "cleared"}
        /\ \E x \in {"begun", "rebegun", "cleared", "recleared", "refused"} :
             at' = [at EXCEPT ![a] = x]
        /\ UNCHANGED <<public, result, queued, step, verdictOf, cur>>
    BY <1>6 DEF BeginBuild, ClearDone, SubmitRefused, runVars, writerVars
  <2>2. QED
    BY <1>0, <2>1 DEF OutcomesInPlace, PublicMatchesOutcome
<1>7. ASSUME NEW a \in Attempt, SubmitCommand(a)
      PROVE  OutcomesInPlace'
  <2>1. /\ at[a] = "cleared" /\ at' = [at EXCEPT ![a] = "queued"]
        /\ queued' = [queued EXCEPT ![a] = Fresh]
        /\ Fresh # cur
        /\ UNCHANGED <<public, result, step, verdictOf, cur>>
    BY <1>0, <1>7, FreshIsFree DEF SubmitCommand, SubmitExternal, runVars, FreeIsNowhere
  <2>2. QED
    BY <1>0, <1>1, <2>1 DEF OutcomesInPlace, PublicMatchesOutcome
<1>8. ASSUME NEW a \in Attempt, Return(a)
      PROVE  OutcomesInPlace'
  <2>1. UNCHANGED <<result, queued, step, verdictOf, cur>>
    BY <1>8 DEF Return, runVars, writerVars
  <2>2. CASE at[a] = "queued"
    <3>1. at' = [at EXCEPT ![a] = "returned"] /\ public' = public
      BY <1>0, <1>8, <2>2 DEF Return
    <3>2. QED
      BY <1>0, <2>1, <2>2, <3>1 DEF OutcomesInPlace, PublicMatchesOutcome
  <2>3. CASE at[a] \in {"warmDone", "refusedDone"}
    <3>1. /\ at' = [at EXCEPT ![a] = "returned"]
          /\ at[a] = "warmDone" => public' = [public EXCEPT ![a] = "done"]
          /\ at[a] = "refusedDone" => public' = [public EXCEPT ![a] = "failed"]
      BY <1>8, <2>3 DEF Return
    <3>2. queued[a] = None /\ (step # "none" => cur # None)
      BY <1>0, <1>1, <2>3 DEF WriterTypeOK
    <3>3. QED
      BY <1>0, <1>2, <2>1, <2>3, <3>1, <3>2 DEF OutcomesInPlace, PublicMatchesOutcome
  <2>4. QED
    BY <1>8, <2>2, <2>3 DEF Return
<1>9. CASE StartCommand
  <2>1. /\ pc = "claimed" /\ cur' = cur /\ UNCHANGED <<at, public, result, queued>>
        /\ \/ kind[cur] = Build /\ step' = "claim" /\ verdictOf' = "succeeded"
           \/ kind[cur] # Build /\ step' = "settle"
    BY <1>9 DEF StartCommand, Start, scheduleVars
  <2>2. step = "none" /\ \A a \in Attempt : queued[a] # None => kind[queued[a]] = Build
    BY <1>0, <2>1 DEF CommandsAreKnown
  <2>3. QED
    BY <1>0, <2>1, <2>2 DEF OutcomesInPlace, PublicMatchesOutcome
<1>10. CASE ClaimAttempt
  <2>1. /\ UNCHANGED <<at, result, queued, verdictOf, cur>> /\ step = "claim"
        /\ \/ /\ public[Running] = "pending" /\ step' = "clear"
              /\ public' = [public EXCEPT ![Running] = "running"]
           \/ public[Running] # "pending" /\ step' = "settle" /\ public' = public
    BY <1>10 DEF ClaimAttempt, writerVars
  <2>2. Running \in Attempt /\ queued[Running] = cur /\ at[Running] \in {"queued", "returned"}
        /\ \A a \in Attempt : queued[a] = cur => a = Running
    BY <1>0, <2>1, RunningIs
  <2>3. public[Running] # "running"
    BY <1>0, <2>1, <2>2 DEF OutcomesInPlace
  <2>4. QED
    BY <1>0, <2>1, <2>2, <2>3 DEF OutcomesInPlace, PublicMatchesOutcome
<1>11. CASE ClearMarker \/ ScanReturns \/ SetMarker \/ CommandRaises
  <2>1. /\ UNCHANGED <<at, public, result, queued, cur>> /\ step \in Before /\ step' \in Before
        /\ step' # "publish" => verdictOf' = verdictOf /\ step \in {"clear", "scan", "marker"}
    BY <1>11 DEF ClearMarker, ScanReturns, SetMarker, CommandRaises, scheduleVars, writerVars
  <2>2. QED
    BY <1>0, <2>1 DEF OutcomesInPlace, PublicMatchesOutcome
<1>12. CASE Publish
  <2>1. /\ UNCHANGED <<at, public, queued, cur, verdictOf>> /\ lock = None
        /\ step = "publish" /\ step' = "publishDone"
        /\ result' = [result EXCEPT ![Running] = verdictOf]
    BY <1>12 DEF Publish, writerVars
  <2>2. Running \in Attempt /\ queued[Running] = cur /\ cur # None /\ at[Running] = "returned"
        /\ \A a \in Attempt : queued[a] = cur => a = Running
    BY <1>0, <1>2, <2>1 DEF LockInPlace, Submitting
  <2>3. public[Running] = "running"
    BY <1>0, <2>1, <2>2 DEF OutcomesInPlace
  <2>4. QED
    BY <1>0, <2>1, <2>2, <2>3 DEF OutcomesInPlace, PublicMatchesOutcome
<1>13. CASE PublishDone
  <2>1. UNCHANGED <<at, public, result, queued, cur, verdictOf>>
        /\ step = "publishDone" /\ step' = "resolve"
    BY <1>13 DEF PublishDone, writerVars
  <2>2. QED
    BY <1>0, <2>1 DEF OutcomesInPlace, PublicMatchesOutcome
<1>14. CASE Resolve
  <2>1. /\ UNCHANGED <<at, result, queued, cur, verdictOf>>
        /\ step = "resolve" /\ step' = "settle"
        /\ verdictOf = "succeeded" => public' = [public EXCEPT ![Running] = "done"]
        /\ verdictOf # "succeeded" => public' = [public EXCEPT ![Running] = "failed"]
    BY <1>14 DEF Resolve, writerVars
  <2>2. result[Running] = verdictOf /\ at[Running] = "returned"
    BY <1>0, <1>2, <2>1 DEF OutcomesInPlace
  <2>3. QED
    BY <1>0, <1>2, <2>1, <2>2 DEF OutcomesInPlace, PublicMatchesOutcome
<1>15. CASE FinishCommand
  <2>1. UNCHANGED <<at, public, result, queued, verdictOf>> /\ step = "settle" /\ step' = "none"
    BY <1>15 DEF FinishCommand, scheduleVars
  <2>2. QED
    BY <1>0, <2>1 DEF OutcomesInPlace, PublicMatchesOutcome
<1>16. ASSUME NEW a \in Attempt, CancelAttempt(a) \/ DispatchDone(a)
       PROVE  OutcomesInPlace'
  <2>1. /\ UNCHANGED <<at, result, queued, step, cur, verdictOf>> /\ at[a] = "returned"
        /\ \/ public' = public
           \/ public[a] = "pending" /\ public' = [public EXCEPT ![a] = "cancelled"]
    BY <1>0, <1>16 DEF CancelAttempt, DispatchDone, Dispatched, runVars, writerVars
  <2>2. QED
    BY <1>0, <2>1 DEF OutcomesInPlace, PublicMatchesOutcome
<1>17. ASSUME NEW a \in Attempt, RecordCancelled(a)
       PROVE  OutcomesInPlace'
  <2>1. /\ UNCHANGED <<at, public, queued, step, cur, verdictOf>>
        /\ public[a] = "cancelled" /\ result[a] = "none"
        /\ result' = [result EXCEPT ![a] = "cancelled"]
    BY <1>17 DEF RecordCancelled, runVars, writerVars
  <2>2. QED
    BY <1>0, <2>1 DEF OutcomesInPlace, PublicMatchesOutcome
<1>18. CASE Quiet
  BY <1>0, <1>3, <1>18, QuietFrame, QuietStays
<1>19. ASSUME NEW a \in Attempt, WakeWaiters(a)
       PROVE  OutcomesInPlace'
  <2>1. /\ \/ at[a] = "warmSet" /\ at' = [at EXCEPT ![a] = "warmDone"]
           \/ at[a] = "refusedSet" /\ at' = [at EXCEPT ![a] = "refusedDone"]
        /\ UNCHANGED <<public, result, queued, step, verdictOf, cur>>
    BY <1>19 DEF WakeWaiters, runVars, writerVars
  <2>2. QED
    BY <1>0, <2>1 DEF OutcomesInPlace, PublicMatchesOutcome
<1>20. QED
  BY <1>4, <1>5, <1>6, <1>7, <1>8, <1>9, <1>10, <1>11, <1>12, <1>13, <1>14, <1>15, <1>16,
     <1>17, <1>18, <1>19 DEF BuildNext, SubmitStep, CommandStep, CallbackStep, Quiet

(* An attempt that has not ended is in _pending, so that its completion is *)
(* dispatched and the warm check sees it (build_lifecycle.py:117-123,      *)
(* 221-246).                                                               *)
LEMMA LiveNext ==
  ASSUME BuildInv, BuildTypeOK', CommandsAreKnown', [BuildNext]_buildVars
  PROVE  LiveIsListed'
<1> USE WriterAssumption, BuildAssumption DEF BuildTypeOK
<1>0. LockInPlace /\ BuildTypeOK /\ WriterInv /\ ReadersInPlace /\ CommandsAreKnown
      /\ OutcomesInPlace /\ LiveIsListed
  BY DEF BuildInv
<1>1. crashed => crashed'
  BY <1>0, WriterMoves, FuturesMove DEF WriterInv
<1>2. ASSUME NEW b \in Attempt, queued[b] # None, state[queued[b]] \in Active,
             ~(FinishCommand /\ queued[b] = cur)
      PROVE  state'[queued[b]] \in Active \/ crashed'
  <2>1. queued[b] \in Future /\ kind[queued[b]] = Build
    BY <1>0, <1>2 DEF CommandsAreKnown
  <2>2. QED
    BY <1>0, <1>2, <2>1, CommandStays
<1>3. CASE UNCHANGED <<at, public, unfinished, queued>>
  <2>1. ASSUME NEW b \in Attempt, FinishCommand, queued[b] = cur, queued[b] # None
        PROVE  public[b] \notin Active
    BY <1>0, <2>1 DEF OutcomesInPlace, FinishCommand
  <2>2. QED
    BY <1>0, <1>1, <1>2, <1>3, <2>1 DEF LiveIsListed
<1>4. ASSUME NEW a \in Attempt,
             \/ PublishWarm(a) \/ RecordRefused(a) \/ WakeWaiters(a)
             \/ BeginBuild(a) \/ ClearDone(a)
             \/ SubmitRefused(a) \/ \E force \in BOOLEAN : Schedule(a, force)
      PROVE  LiveIsListed'
  <2>1. /\ queued' = queued /\ \A b \in Attempt : b # a => public'[b] = public[b] /\ at'[b] = at[b]
        /\ at'[a] \notin {"queued", "returned"} /\ (at'[a] = "cleared" => a \in unfinished')
        /\ unfinished \ {a} \subseteq unfinished'
        /\ ~FinishCommand
    BY <1>0, <1>4 DEF Schedule, PublishWarm, RecordRefused, WakeWaiters, BeginBuild, ClearDone,
      SubmitRefused, runVars, FinishCommand
  <2>2. QED
    BY <1>0, <1>1, <1>2, <2>1 DEF LiveIsListed
<1>5. ASSUME NEW a \in Attempt, SubmitCommand(a)
      PROVE  LiveIsListed'
  <2>1. /\ Fresh \in Future /\ Fresh # None /\ state' = [state EXCEPT ![Fresh] = "pending"]
        /\ at[a] = "cleared" /\ at' = [at EXCEPT ![a] = "queued"]
        /\ queued' = [queued EXCEPT ![a] = Fresh]
        /\ UNCHANGED <<unfinished, public>> /\ ~FinishCommand
    BY <1>5, FreshIsFree DEF SubmitCommand, SubmitExternal, Enqueue, runVars, FinishCommand
  <2>2. queued'[a] = Fresh /\ state'[Fresh] \in Active
    BY <1>0, <2>1 DEF WriterTypeOK, Active
  <2>3. \A b \in Attempt : b # a => queued'[b] = queued[b] /\ at'[b] = at[b]
    BY <1>0, <2>1
  <2>4. a \in unfinished' /\ unfinished' = unfinished
    BY <1>0, <2>1 DEF LiveIsListed
  <2>5. QED
    BY <1>0, <1>1, <1>2, <2>1, <2>2, <2>3, <2>4 DEF LiveIsListed
<1>6. ASSUME NEW a \in Attempt, Return(a)
      PROVE  LiveIsListed'
  <2>1. /\ queued' = queued /\ unfinished' = unfinished /\ ~FinishCommand
        /\ at' = [at EXCEPT ![a] = "returned"]
        /\ \A b \in Attempt : b # a => public'[b] = public[b] /\ at'[b] = at[b]
        /\ public'[a] \in Active => at[a] = "queued" /\ public'[a] = public[a]
    BY <1>0, <1>6 DEF Return, runVars, FinishCommand, Active
  <2>2. QED
    BY <1>0, <1>1, <1>2, <2>1 DEF LiveIsListed
<1>7. CASE ClaimAttempt \/ Resolve
  <2>1. /\ UNCHANGED <<at, unfinished, queued>> /\ ~FinishCommand
        /\ \A b \in Attempt : public'[b] \in Active => public[b] \in Active
    <3>1. CASE ClaimAttempt
      BY <1>0, <3>1 DEF ClaimAttempt, FinishCommand, Active
    <3>2. CASE Resolve
      BY <1>0, <3>2 DEF Resolve, FinishCommand, Active
    <3>3. QED
      BY <1>7, <3>1, <3>2
  <2>2. QED
    BY <1>0, <1>1, <1>2, <2>1 DEF LiveIsListed
<1>8. ASSUME NEW a \in Attempt, CancelAttempt(a)
      PROVE  LiveIsListed'
  <2>1. /\ UNCHANGED <<at, unfinished, queued>> /\ ~FinishCommand
        /\ \A b \in Attempt : public'[b] \in Active => public[b] \in Active
    BY <1>0, <1>8 DEF CancelAttempt, FinishCommand, runVars, Active
  <2>2. QED
    BY <1>0, <1>1, <1>2, <2>1 DEF LiveIsListed
<1>9. ASSUME NEW a \in Attempt, DispatchDone(a)
      PROVE  LiveIsListed'
  <2>1. /\ UNCHANGED <<at, queued>> /\ ~FinishCommand /\ unfinished' = unfinished \ {a}
        /\ \A b \in Attempt : public'[b] \in Active => public[b] \in Active
        /\ at[a] = "returned" /\ state[queued[a]] \in Settled
        /\ public'[a] \in Active => public[a] = "running"
    BY <1>0, <1>9 DEF DispatchDone, Dispatched, FinishCommand, runVars, Active
  <2>2. public[a] # "running"
    <3>1. SUFFICES ASSUME public[a] = "running"
                   PROVE  FALSE
      OBVIOUS
    <3>2. step \in Before \cup After /\ queued[a] = cur
      BY <1>0, <2>1, <3>1 DEF OutcomesInPlace
    <3>3. state[cur] = "running"
      BY <1>0, <3>2, RunningIs DEF Before, After
    <3>4. QED
      BY <2>1, <3>2, <3>3 DEF Settled
  <2>3. QED
    BY <1>0, <1>1, <1>2, <2>1, <2>2 DEF LiveIsListed
<1>10. QED
  <2>1. CASE Quiet
    BY <1>3, <2>1, QuietFrame
  <2>2. ASSUME NEW a \in Attempt, RecordCancelled(a)
        PROVE  LiveIsListed'
    BY <1>3, <2>2 DEF RecordCancelled
  <2>3. CASE \/ StartCommand \/ ClearMarker \/ ScanReturns \/ SetMarker \/ CommandRaises
             \/ Publish \/ PublishDone \/ FinishCommand
    BY <1>3, <2>3 DEF StartCommand, ClearMarker, ScanReturns, SetMarker, CommandRaises, Publish,
      PublishDone, FinishCommand, scheduleVars
  <2>4. QED
    BY <1>4, <1>5, <1>6, <1>7, <1>8, <1>9, <2>1, <2>2, <2>3
       DEF BuildNext, SubmitStep, CommandStep, CallbackStep, Quiet

-----------------------------------------------------------------------------
(* The order of the commands on the queue.                                 *)

(* A job put behind the commands that is no command leaves their order.    *)
LEMMA OtherBehind ==
  ASSUME NewestLast, BuildTypeOK, CommandsAreKnown, NEW e \in Future \cup {Sentinel},
         ~IsCommand(e), queue' = Append(queue, e),
         UNCHANGED <<queued, latest, cur, crashed>>
  PROVE  NewestLast'
<1> USE DEF BuildTypeOK, WriterTypeOK
<1>1. SUFFICES ASSUME ~crashed', latest' # None, queued'[latest'] # None
               PROVE  /\ LastOf(queue', queued'[latest'])
                      /\ cur' = queued'[latest'] => ~Queued(cur)'
                      /\ ~Queued(queued[latest])' =>
                           \A a \in Attempt : a # latest' /\ queued'[a] # None =>
                             ~Queued(queued[a])' /\ cur' # queued'[a]
  BY DEF NewestLast, LastOf, IsCommand
<1>2. \A x : Queued(x)' <=> Queued(x) \/ x = e
  <2> DEFINE S == Future \cup {Sentinel}
  <2>1. queue \in Seq(S) /\ e \in S
    OBVIOUS
  <2> HIDE DEF S
  <2>2. \A x : Occurs(x, Append(queue, e)) <=> Occurs(x, queue) \/ x = e
    BY <2>1, OccursAppend
  <2>3. QED
    BY <2>2 DEF Queued
<1>3. latest \in Attempt /\ IsCommand(queued[latest]) /\ queued[latest] # e
  BY <1>1 DEF IsCommand
<1>4. \A a \in Attempt : queued[a] # None => queued[a] # e
  BY DEF IsCommand
<1>5. LastOf(queue', queued'[latest'])
  <2> SUFFICES ASSUME NEW i \in 1..Len(queue'), NEW j \in 1..Len(queue'),
                      queue'[i] = queued[latest], IsCommand(queue'[j])
               PROVE  j <= i
    BY DEF LastOf, IsCommand
  <2>1. /\ Len(queue') = Len(queue) + 1 /\ Len(queue) \in Nat /\ queue'[Len(queue) + 1] = e
        /\ \A k \in 1..Len(queue) : queue'[k] = queue[k]
    BY AppendProperties, LenProperties
  <2>2. i \in 1..Len(queue) /\ j \in 1..Len(queue)
    BY <1>3, <2>1
  <2>3. QED
    BY <1>1, <2>1, <2>2 DEF NewestLast, LastOf
<1>6. QED
  BY <1>1, <1>2, <1>3, <1>4, <1>5 DEF NewestLast

(* The queue keeps the commands in the order of their attempts, so that    *)
(* the latest attempt's outcome is the last (index_writer.py:162-184).     *)
LEMMA NewestNext ==
  ASSUME BuildInv, BuildTypeOK', [BuildNext]_buildVars
  PROVE  NewestLast'
<1> USE WriterAssumption, BuildAssumption DEF BuildTypeOK, WriterTypeOK
<1>0. LockInPlace /\ BuildTypeOK /\ WriterInv /\ ReadersInPlace /\ CommandsAreKnown
      /\ NewestLast /\ FreeIsNowhere
  BY DEF BuildInv
<1>1. CASE UNCHANGED <<queue, queued, latest>> /\ cur' \in {cur, None} /\ (crashed => crashed')
  <2>1. \A x : Queued(x)' <=> Queued(x)
    BY <1>1 DEF Queued, Occurs
  <2>2. QED
    BY <1>0, <1>1, <2>1 DEF NewestLast, LastOf, IsCommand
<1>2. ASSUME NEW a \in Attempt, NEW force \in BOOLEAN, Schedule(a, force)
      PROVE  NewestLast'
  <2>1. latest' = a /\ queued'[a] = None
    BY <1>0, <1>2 DEF Schedule, CommandsAreKnown
  <2>2. QED
    BY <2>1 DEF NewestLast
<1>3. ASSUME NEW a \in Attempt, SubmitCommand(a)
      PROVE  NewestLast'
  <2>0. PICK g \in Future : g = Fresh /\ state[g] = "free"
    BY <1>3, FreshIsFree DEF SubmitCommand
  <2>1. /\ queue' = Append(queue, g) /\ queued' = [queued EXCEPT ![a] = g]
        /\ latest' = latest /\ cur' = cur /\ latest = a
    BY <1>0, <1>3, <2>0 DEF SubmitCommand, SubmitExternal, Enqueue, LockInPlace, Submitting
  <2>2. ~Queued(g) /\ cur # g /\ queued'[latest'] = g
    BY <1>0, <2>0, <2>1 DEF FreeIsNowhere
  <2>3. /\ Len(queue') = Len(queue) + 1 /\ Len(queue) \in Nat
        /\ queue'[Len(queue) + 1] = g
        /\ \A k \in 1..Len(queue) : queue'[k] = queue[k]
    BY <1>0, <2>1, AppendProperties, LenProperties
  <2>4. \A i \in 1..Len(queue') : queue'[i] = g => i = Len(queue')
    <3> SUFFICES ASSUME NEW i \in 1..Len(queue'), queue'[i] = g, i # Len(queue')
                 PROVE  FALSE
      OBVIOUS
    <3>1. i \in 1..Len(queue) /\ queue[i] = g
      BY <2>3
    <3>2. QED
      BY <2>2, <3>1 DEF Queued, Occurs
  <2>5. LastOf(queue, queued[latest])'
    <3>1. \A j \in 1..Len(queue') : j <= Len(queue')
      BY <2>3
    <3>2. QED
      BY <2>2, <2>4, <3>1 DEF LastOf
  <2>6. Queued(queued[latest])'
    <3>1. Len(queue') \in 1..Len(queue') /\ queue'[Len(queue')] = g
      BY <2>3
    <3>2. QED
      BY <2>2, <3>1 DEF Queued, Occurs
  <2>7. QED
    BY <2>1, <2>2, <2>5, <2>6 DEF NewestLast
<1>4. CASE BarrierBegin
  <2>1. CASE closed
    BY <1>1, <1>4, <2>1 DEF BarrierBegin, scheduleVars, writerVars
  <2>2. CASE ~closed
    <3>1. /\ Fresh \in Future /\ state[Fresh] = "free" /\ queue' = Append(queue, Fresh)
          /\ UNCHANGED <<queued, latest, cur, crashed>>
      BY <1>4, <2>2, FreshIsFree DEF BarrierBegin, SubmitExternal, Enqueue, scheduleVars
    <3>2. ~IsCommand(Fresh)
      BY <1>0, <3>1 DEF IsCommand, CommandsAreKnown
    <3>3. QED
      BY <1>0, <3>1, <3>2, OtherBehind
  <2>3. QED
    BY <2>1, <2>2
<1>5. CASE CloseVault
  <2>1. UNCHANGED <<queued, latest, cur, crashed>>
    BY <1>5 DEF CloseVault, CloserStep, CloseMark, ClosePost, CloseJoin, scheduleVars
  <2>2. queue' = queue \/ queue' = Append(queue, Sentinel)
    BY <1>5 DEF CloseVault, CloserStep, CloseMark, ClosePost, CloseJoin
  <2>3. ~IsCommand(Sentinel)
    BY <1>0 DEF IsCommand
  <2>4. QED
    BY <1>0, <1>1, <2>1, <2>2, <2>3, OtherBehind
<1>6. CASE Pop /\ UNCHANGED <<queued, latest>>
  <2>1. /\ queue # << >> /\ queue' = Tail(queue) /\ cur = None /\ crashed' = crashed
        /\ \/ Head(queue) = Sentinel /\ cur' = cur
           \/ Head(queue) # Sentinel /\ cur' = Head(queue)
    BY <1>0, <1>6 DEF Pop
  <2>2. \A x : Queued(x) <=> Queued(x)' \/ x = Head(queue)
    BY <1>0, <2>1, PopType
  <2>3. /\ Len(queue') = Len(queue) - 1 /\ Len(queue) \in Nat /\ Len(queue) >= 1
        /\ \A i \in 1..Len(queue') : queue'[i] = queue[i + 1]
        /\ Head(queue) = queue[1]
    <3> DEFINE S == Future \cup {Sentinel}
    <3>1. queue \in Seq(S)
      BY <1>0
    <3> HIDE DEF S
    <3>2. /\ Len(Tail(queue)) = Len(queue) - 1
          /\ \A i \in 1..Len(Tail(queue)) : Tail(queue)[i] = queue[i + 1]
      BY <2>1, <3>1, HeadTailProperties
    <3>3. Len(queue) \in Nat \ {0} /\ Head(queue) = queue[1]
      BY <2>1, <3>1, EmptySeq
    <3>4. QED
      BY <2>1, <3>2, <3>3
  <2>4. (\A x : IsCommand(x)' <=> IsCommand(x)) /\ queued' = queued /\ latest' = latest
    BY <1>6 DEF IsCommand
  <2>5. LastOf(queue, queued[latest])' <=> LastOf(queue', queued[latest])
    BY <2>4 DEF LastOf
  <2>6. SUFFICES ASSUME ~crashed, latest # None, queued[latest] # None
                 PROVE  /\ LastOf(queue', queued[latest])
                        /\ cur' = queued[latest] => ~Queued(queued[latest])'
                        /\ ~Queued(queued[latest])' =>
                             \A a \in Attempt : a # latest /\ queued[a] # None =>
                               ~Queued(queued[a])' /\ cur' # queued[a]
    BY <2>4, <2>5, <2>1 DEF NewestLast, Queued
  <2>7. /\ LastOf(queue, queued[latest])
        /\ ~Queued(queued[latest]) =>
             \A a \in Attempt : a # latest /\ queued[a] # None => ~Queued(queued[a])
    BY <1>0, <2>6 DEF NewestLast
  <2>8. LastOf(queue', queued[latest])
    <3> SUFFICES ASSUME NEW i \in 1..Len(queue'), NEW j \in 1..Len(queue'),
                        queue'[i] = queued[latest], IsCommand(queue'[j])
                 PROVE  j <= i
      BY <1>6 DEF LastOf, IsCommand
    <3>1. i + 1 \in 1..Len(queue) /\ j + 1 \in 1..Len(queue)
      BY <2>3
    <3>2. queue[i + 1] = queued[latest] /\ IsCommand(queue[j + 1])
      BY <2>3
    <3>3. j + 1 <= i + 1
      BY <2>7, <3>1, <3>2 DEF LastOf
    <3>4. QED
      BY <3>3, <2>3
  <2>9. CASE Head(queue) = queued[latest]
    <3>1. ASSUME NEW a \in Attempt, queued[a] # None
          PROVE  ~Queued(queued[a])'
      <4>1. SUFFICES ASSUME NEW i \in 1..Len(queue'), queue'[i] = queued[a]
                     PROVE  FALSE
        BY <1>6 DEF Queued, Occurs
      <4>2. i + 1 \in 1..Len(queue) /\ IsCommand(queue[i + 1]) /\ i + 1 > 1 /\ 1 \in 1..Len(queue)
        BY <2>3, <3>1, <4>1 DEF IsCommand
      <4>3. i + 1 <= 1
        BY <2>3, <2>7, <2>9, <4>2 DEF LastOf
      <4>4. QED
        BY <4>2, <4>3
    <3>2. \A a \in Attempt : a # latest /\ queued[a] # None => queued[a] # Head(queue)
      BY <1>0, <2>6, <2>9 DEF CommandsAreKnown
    <3>3. QED
      BY <1>6, <2>1, <2>6, <2>8, <2>9, <3>1, <3>2 DEF Queued
  <2>10. CASE Head(queue) # queued[latest]
    <3>1. Queued(queued[latest])' <=> Queued(queued[latest])
      BY <1>6, <2>2, <2>10
    <3>2. cur' # queued[latest]
      BY <2>1, <2>6, <2>10
    <3>3. Queued(Head(queue))
      BY <2>2
    <3>4. \A a \in Attempt : Queued(queued[a])' => Queued(queued[a])
      BY <1>6, <2>2
    <3>5. \A a \in Attempt : a # latest /\ queued[a] # None /\ ~Queued(queued[latest]) =>
            cur' # queued[a]
      BY <2>1, <2>7, <3>3
    <3>6. QED
      BY <2>7, <2>8, <3>1, <3>2, <3>4, <3>5
  <2>11. QED
    BY <2>9, <2>10
<1>7. CASE LoopStep
  <2>1. CASE Pop
    BY <1>6, <1>7, <2>1 DEF LoopStep, scheduleVars
  <2>2. CASE Abort
    BY <2>2 DEF Abort, NewestLast
  <2>3. CASE Exit \/ Claim \/ Skip \/ Release \/ Die \/ \E f \in Future : CancelDoomed(f)
    BY <1>1, <1>7, <2>3 DEF Exit, Claim, Skip, Release, Die, CancelDoomed, LoopStep, scheduleVars
  <2>4. QED
    BY <1>7, <2>1, <2>2, <2>3 DEF LoopStep
<1>8. CASE StartCommand \/ FinishCommand
  BY <1>1, <1>8 DEF StartCommand, FinishCommand, Start, Settle, Interrupt, scheduleVars
<1>9. CASE RequireSuccess \/ RefreshDone \/ WaitStep \/ StatusReads \/ UNCHANGED buildVars
  BY <1>1, <1>9 DEF RequireSuccess, RefreshDone, WaitStep, StatusReads, buildVars, scheduleVars,
    writerVars
<1>10. CASE DeadlinePasses
  BY <1>1, <1>10 DEF DeadlinePasses, Cancel, scheduleVars, writerVars
<1>11. ASSUME UNCHANGED writerVars, UNCHANGED <<queued, latest>>
       PROVE  NewestLast'
  BY <1>1, <1>11 DEF writerVars
<1>12. CASE \/ ClaimAttempt \/ ClearMarker \/ ScanReturns \/ SetMarker \/ CommandRaises
            \/ Publish \/ PublishDone \/ Resolve
  BY <1>11, <1>12, WriterIdle DEF ClaimAttempt, ClearMarker, ScanReturns, SetMarker,
    CommandRaises, Publish, PublishDone, Resolve, scheduleVars
<1>13. ASSUME NEW a \in Attempt,
              \/ PublishWarm(a) \/ BeginBuild(a) \/ ClearDone(a) \/ SubmitRefused(a)
              \/ RecordRefused(a) \/ WakeWaiters(a) \/ Return(a) \/ CancelAttempt(a)
              \/ DispatchDone(a) \/ RecordCancelled(a)
       PROVE  NewestLast'
  BY <1>11, <1>13, WriterIdle DEF PublishWarm, BeginBuild, ClearDone, SubmitRefused,
    RecordRefused, WakeWaiters, Return, CancelAttempt, DispatchDone, RecordCancelled
<1>14. QED
  BY <1>2, <1>3, <1>4, <1>5, <1>7, <1>8, <1>9, <1>10, <1>12, <1>13
     DEF BuildNext, SubmitStep, CommandStep, CallbackStep, ReaderStep, BarrierStep

-----------------------------------------------------------------------------
(* Readiness.                                                              *)

(* Between two submits or publications the verdict is the latest attempt's *)
(* outcome: _record looks at self._latest under the lock                   *)
(* (build_lifecycle.py:203-210).                                           *)
LEMMA VerdictNext ==
  ASSUME BuildInv, BuildTypeOK', [BuildNext]_buildVars
  PROVE  VerdictInPlace'
<1> USE WriterAssumption, BuildAssumption
<1> USE DEF BuildTypeOK, Submitting, Built, NotBuilt
<1>0. LockInPlace /\ BuildTypeOK /\ WriterInv /\ ReadersInPlace /\ CommandsAreKnown
      /\ OutcomesInPlace /\ VerdictInPlace
  BY DEF BuildInv
<1>1. CASE /\ UNCHANGED <<at, result, latest, lock, verdict>>
           /\ step' = "publishDone" => step = "publishDone"
  BY <1>0, <1>1 DEF VerdictInPlace
<1>2. ASSUME NEW a \in Attempt, NEW force \in BOOLEAN, Schedule(a, force)
      PROVE  VerdictInPlace'
  <2>1. /\ lock = None /\ lock' = a /\ step' = step /\ verdict' = verdict
        /\ \E x \in {"cold", "refused", "warm"} : at' = [at EXCEPT ![a] = x]
    BY <1>2 DEF Schedule, runVars, readyVars
  <2>2. step # "publishDone"
    BY <1>0, <2>1, RunningIs DEF LockInPlace
  <2>3. QED
    BY <1>0, <2>1, <2>2 DEF VerdictInPlace
<1>3. ASSUME NEW a \in Attempt, SubmitStep(a), ~Return(a)
      PROVE  VerdictInPlace'
  <2>1. lock = a /\ latest = a /\ step # "publishDone"
    BY <1>0, <1>3 DEF LockInPlace, SubmitStep, PublishWarm, BeginBuild, ClearDone, SubmitCommand,
      SubmitRefused, RecordRefused, WakeWaiters
  <2>2. /\ UNCHANGED <<lock, step>>
        /\ \A b \in Attempt : b # a => at'[b] = at[b] /\ at[b] \notin Submitting
    BY <1>0, <1>3, <2>1 DEF LockInPlace, SubmitStep, PublishWarm, BeginBuild, ClearDone,
      SubmitCommand, SubmitRefused, RecordRefused, WakeWaiters, runVars
  <2>3. CASE PublishWarm(a)
    BY <1>0, <2>1, <2>2, <2>3 DEF VerdictInPlace, PublishWarm
  <2>4. CASE BeginBuild(a)
    <3>1. at'[a] \in {"begun", "rebegun"} /\ verdict' = NotBuilt
      BY <1>0, <2>4 DEF BeginBuild
    <3>2. QED
      BY <1>0, <2>1, <2>2, <3>1 DEF VerdictInPlace
  <2>5. CASE ClearDone(a)
    <3>1. at'[a] \in {"cleared", "recleared"} /\ at[a] \in {"begun", "rebegun"}
          /\ verdict' = verdict
      BY <1>0, <2>5 DEF ClearDone
    <3>2. QED
      BY <1>0, <2>1, <2>2, <3>1 DEF VerdictInPlace
  <2>6. CASE SubmitCommand(a)
    <3>1. at'[a] = "queued" /\ at[a] = "cleared" /\ verdict' = verdict
      BY <1>0, <2>6 DEF SubmitCommand, readyVars
    <3>2. QED
      BY <1>0, <2>1, <2>2, <3>1 DEF VerdictInPlace
  <2>7. CASE SubmitRefused(a)
    <3>1. at'[a] = "refused" /\ verdict' = verdict
      BY <1>0, <2>7 DEF SubmitRefused, readyVars
    <3>2. QED
      BY <1>0, <2>1, <2>2, <3>1 DEF VerdictInPlace
  <2>8. CASE RecordRefused(a)
    <3>1. at[a] = "recleared" /\ at'[a] = "refusedSet" /\ verdict' = [verdict EXCEPT !.error = TRUE]
      BY <1>0, <2>8 DEF RecordRefused, WakeWaiters
    <3>2. ~verdict'.built /\ verdict'.error
      BY <1>0, <3>1 DEF VerdictInPlace
    <3>3. QED
      BY <1>0, <2>1, <2>2, <3>1, <3>2 DEF VerdictInPlace
  <2>9. CASE WakeWaiters(a)
    <3>1. /\ verdict' = verdict
          /\ \/ at[a] = "warmSet" /\ at'[a] = "warmDone"
             \/ at[a] = "refusedSet" /\ at'[a] = "refusedDone"
      BY <1>0, <2>9 DEF WakeWaiters
    <3>2. QED
      BY <1>0, <2>1, <2>2, <3>1 DEF VerdictInPlace
  <2>10. QED
    BY <1>3, <2>3, <2>4, <2>5, <2>6, <2>7, <2>8, <2>9 DEF SubmitStep
<1>4. ASSUME NEW a \in Attempt, Return(a)
      PROVE  VerdictInPlace'
  <2>1. /\ lock' = None /\ latest = a /\ at[a] \in {"warmDone", "refusedDone", "queued"}
        /\ UNCHANGED <<result, latest, verdict>>
        /\ at' = [at EXCEPT ![a] = "returned"]
    BY <1>0, <1>4 DEF Return, LockInPlace, readyVars
  <2>2. \A b \in Attempt : at'[b] \notin Submitting
    BY <1>0, <2>1 DEF LockInPlace
  <2>3. /\ verdict.built <=> result[a] = "succeeded"
        /\ verdict.error <=> result[a] = "failed"
    BY <1>0, <2>1 DEF VerdictInPlace, OutcomesInPlace
  <2>4. QED
    BY <2>1, <2>2, <2>3 DEF VerdictInPlace
<1>5. CASE Publish
  <2>1. /\ UNCHANGED <<at, latest>> /\ lock = None /\ step = "publish" /\ step' = "publishDone"
        /\ result' = [result EXCEPT ![Running] = verdictOf]
        /\ Running \in Attempt /\ queued[Running] = cur /\ cur # None
    BY <1>0, <1>5, RunningIs DEF Publish
  <2>2. \A b \in Attempt : at[b] \notin Submitting
    BY <1>0, <2>1 DEF LockInPlace
  <2>3. CASE latest # Running
    <3>1. verdict' = verdict
      BY <1>5, <2>3 DEF Publish
    <3>2. QED
      BY <1>0, <2>1, <2>2, <2>3, <3>1 DEF VerdictInPlace
  <2>4. CASE latest = Running
    <3>1. result[latest] = "none" /\ ~verdict.built /\ ~verdict.error
      BY <1>0, <2>1, <2>4 DEF VerdictInPlace, OutcomesInPlace, Before
    <3>2. /\ verdictOf = "succeeded" => verdict' = Built
          /\ verdictOf = "failed" => verdict' = [verdict EXCEPT !.error = TRUE]
          /\ verdictOf \notin {"succeeded", "failed"} => verdict' = verdict
      BY <1>5, <2>4 DEF Publish
    <3>3. /\ verdict'.built <=> verdictOf = "succeeded"
          /\ verdict'.error <=> verdictOf = "failed"
      BY <1>0, <3>1, <3>2
    <3>4. QED
      BY <1>0, <2>1, <2>2, <2>4, <3>3 DEF VerdictInPlace
  <2>5. QED
    BY <2>3, <2>4
<1>6. CASE PublishDone
  BY <1>0, <1>6 DEF PublishDone, VerdictInPlace, LockInPlace
<1>7. ASSUME NEW a \in Attempt, RecordCancelled(a)
      PROVE  VerdictInPlace'
  <2>1. /\ UNCHANGED <<at, latest, lock, verdict, step>> /\ lock = None /\ result[a] = "none"
        /\ result' = [result EXCEPT ![a] = "cancelled"]
    BY <1>7 DEF RecordCancelled, runVars
  <2>2. QED
    BY <1>0, <2>1 DEF VerdictInPlace
<1>8. QED
  <2>1. CASE Quiet
    BY <1>1, <2>1, QuietFrame
  <2>2. ASSUME NEW a \in Attempt, CancelAttempt(a) \/ DispatchDone(a)
        PROVE  VerdictInPlace'
    BY <1>1, <2>2 DEF CancelAttempt, DispatchDone, readyVars, runVars
  <2>3. CASE \/ StartCommand \/ ClaimAttempt \/ ClearMarker \/ ScanReturns \/ SetMarker
             \/ CommandRaises \/ Resolve \/ FinishCommand
    <3>1. UNCHANGED <<at, result, latest, lock, verdict>> /\ step' # "publishDone"
      BY <2>3 DEF StartCommand, ClaimAttempt, ClearMarker, ScanReturns, SetMarker,
        CommandRaises, Resolve, FinishCommand, scheduleVars, readyVars
    <3>2. QED
      BY <1>1, <3>1
  <2>4. QED
    BY <1>2, <1>3, <1>4, <1>5, <1>6, <1>7, <2>1, <2>2, <2>3
       DEF BuildNext, CommandStep, CallbackStep, Quiet

(* When the command of the latest attempt publishes, every other attempt   *)
(* that returned has ended.                                                *)
LEMMA OthersHaveEnded ==
  ASSUME BuildInv, step = "publish", lock = None, latest = Running,
         NEW b \in Attempt, b # Running
  PROVE  public[b] \notin Active
<1> USE WriterAssumption, BuildAssumption DEF BuildTypeOK
<1>0. LockInPlace /\ BuildTypeOK /\ WriterInv /\ CommandsAreKnown /\ FreeIsNowhere
      /\ OutcomesInPlace /\ LiveIsListed /\ NewestLast
  BY DEF BuildInv
<1>1. SUFFICES ASSUME public[b] \in Active
               PROVE  FALSE
  OBVIOUS
<1>2. /\ Running \in Attempt /\ queued[Running] = cur /\ cur \in Future /\ pc = "running"
      /\ \A a \in Attempt : queued[a] = cur => a = Running
  BY <1>0, RunningIs
<1>3. at[b] = "returned"
  <2>1. at[b] \notin Submitting
    BY <1>0 DEF LockInPlace
  <2>2. at[b] # "unused"
    BY <1>0, <1>1 DEF OutcomesInPlace, Active
  <2>3. QED
    BY <1>0, <2>1, <2>2 DEF Submitting
<1>4. ~crashed
  BY <1>0, <1>2 DEF FreeIsNowhere
<1>5. queued[b] \in Future /\ queued[b] # None /\ state[queued[b]] \in Active
  BY <1>0, <1>1, <1>3, <1>4 DEF LiveIsListed
<1>6. queued[b] # cur /\ doomed = {}
  BY <1>0, <1>2 DEF WriterInv, ShutdownOrder
<1>7. Queued(queued[b])
  BY <1>0, <1>5, <1>6 DEF WriterInv, PendingIsHeld, RunningIsHeld, Active
<1>8. ~Queued(queued[b])
  BY <1>0, <1>2, <1>4, <1>5 DEF NewestLast
<1>9. QED
  BY <1>7, <1>8

(* Nothing clears the marker under a verdict that lets queries through:    *)
(* the warm check runs only when nothing is under way, and a success is    *)
(* published only by the last of the builds (build_lifecycle.py:117-131).  *)
LEMMA BuiltNext ==
  ASSUME BuildInv, BuildTypeOK', [BuildNext]_buildVars
  PROVE  BuiltIsAtRest'
<1> USE WriterAssumption, BuildAssumption
<1> USE DEF BuildTypeOK, Built, NotBuilt, Active, After
<1>0. LockInPlace /\ BuildTypeOK /\ WriterInv /\ ReadersInPlace /\ CommandsAreKnown
      /\ OutcomesInPlace /\ VerdictInPlace /\ LiveIsListed /\ BuiltIsAtRest
  BY DEF BuildInv
<1>1. step \notin {"none", "settle"} =>
         /\ Running \in Attempt /\ queued[Running] = cur /\ cur # None
         /\ at[Running] \in {"queued", "returned"}
         /\ \A a \in Attempt : queued[a] = cur => a = Running
  BY <1>0, RunningIs
<1>2. ASSUME UNCHANGED <<at, queued, verdict, marker, verdictOf, step>>,
             step = "none" \/ cur' = cur,
             \A a \in Attempt : public'[a] \in Active => public[a] \in Active
      PROVE  BuiltIsAtRest'
  BY <1>0, <1>2 DEF BuiltIsAtRest
<1>3. ASSUME NEW a \in Attempt, NEW force \in BOOLEAN, Schedule(a, force)
      PROVE  BuiltIsAtRest'
  <2>1. /\ lock = None /\ at[a] = "unused"
        /\ UNCHANGED <<queued, verdict, marker, verdictOf, step, cur>>
        /\ public' = [public EXCEPT ![a] = "pending"]
        /\ \E x \in {"cold", "refused", "warm"} : at' = [at EXCEPT ![a] = x]
        /\ at'[a] = "warm" => marker /\ ~BuildActive
    <3>1. \E x \in {"cold", "refused", "warm"} :
            at' = [at EXCEPT ![a] = x] /\ (x = "warm" => marker /\ ~BuildActive)
      BY <1>3 DEF Schedule
    <3>2. /\ lock = None /\ at[a] = "unused"
          /\ UNCHANGED <<queued, verdict, marker, verdictOf, step, cur>>
          /\ public' = [public EXCEPT ![a] = "pending"]
      BY <1>3 DEF Schedule, readyVars, runVars, writerVars
    <3>3. QED
      BY <1>0, <3>1, <3>2
  <2>2. \A b \in Attempt : at[b] \in {"unused", "returned"}
    BY <1>0, <2>1 DEF LockInPlace, Submitting
  <2>3. \A b \in Attempt : public[b] \in Active => b \in unfinished
    BY <1>0, <2>2 DEF LiveIsListed, OutcomesInPlace
  <2>4. at'[a] = "warm" => marker /\ \A b \in Attempt : public[b] \notin Active
    BY <2>1, <2>3 DEF BuildActive
  <2>5. QED
    BY <1>0, <2>1, <2>2, <2>4 DEF BuiltIsAtRest
<1>4. ASSUME NEW a \in Attempt, SubmitStep(a)
      PROVE  BuiltIsAtRest'
  <2>1. /\ lock = a /\ \A b \in Attempt : b # a => at'[b] = at[b] /\ at[b] # "warm"
        /\ \A b \in Attempt : b # a => public'[b] = public[b]
        /\ at'[a] # "warm" /\ UNCHANGED <<marker, verdictOf, step, cur>>
        /\ (queued' = queued \/ SubmitCommand(a))
    <3>1. at[a] \in Submitting
      BY <1>4 DEF Submitting, SubmitStep, PublishWarm, BeginBuild, ClearDone, SubmitCommand,
        SubmitRefused, RecordRefused, WakeWaiters, Return
    <3>2. lock = a /\ \A b \in Attempt : b # a => at[b] # "warm"
      BY <1>0, <3>1 DEF LockInPlace, Submitting
    <3>3. /\ at'[a] # "warm"
          /\ \A b \in Attempt : b # a => at'[b] = at[b] /\ public'[b] = public[b]
      BY <1>0, <1>4 DEF SubmitStep, PublishWarm, BeginBuild, ClearDone, SubmitCommand,
        SubmitRefused, RecordRefused, WakeWaiters, Return
    <3>4. /\ UNCHANGED <<marker, verdictOf, step, cur>>
          /\ queued' = queued \/ SubmitCommand(a)
      BY <1>4 DEF SubmitStep, PublishWarm, BeginBuild, ClearDone, SubmitCommand, SubmitRefused,
        RecordRefused, WakeWaiters, Return, SubmitExternal, runVars, writerVars
    <3>5. QED
      BY <3>2, <3>3, <3>4
  <2>2. CASE PublishWarm(a)
    <3>1. at[a] = "warm" /\ at'[a] = "warmSet"
      BY <1>0, <2>2 DEF PublishWarm
    <3>2. QED
      BY <1>0, <2>1, <2>2, <3>1 DEF PublishWarm, BuiltIsAtRest
  <2>3. CASE BeginBuild(a) \/ RecordRefused(a)
    <3>1. ~verdict'.built
      BY <1>0, <2>3 DEF BeginBuild, RecordRefused, WakeWaiters, VerdictInPlace
    <3>2. QED
      BY <1>0, <2>1, <3>1 DEF BuiltIsAtRest
  <2>4. CASE ClearDone(a) \/ SubmitCommand(a)
    <3>1. ~verdict'.built
      BY <1>0, <2>4 DEF ClearDone, SubmitCommand, VerdictInPlace, readyVars
    <3>2. QED
      BY <1>0, <2>1, <3>1 DEF BuiltIsAtRest
  <2>5. CASE SubmitRefused(a)
    BY <1>0, <2>1, <2>5 DEF SubmitRefused, BuiltIsAtRest, readyVars
  <2>6. CASE Return(a)
    <3>1. verdict' = verdict /\ (verdict.built => at[a] = "warmDone")
      BY <1>0, <2>6 DEF Return, VerdictInPlace, readyVars
    <3>2. at[a] = "warmDone" => public'[a] = "done"
      BY <1>0, <2>6 DEF Return
    <3>3. queued' = queued
      BY <2>6 DEF Return
    <3>4. QED
      BY <1>0, <2>1, <3>1, <3>2, <3>3 DEF BuiltIsAtRest
  <2>7. CASE WakeWaiters(a)
    <3>1. /\ verdict' = verdict /\ public' = public /\ queued' = queued
          /\ \/ at[a] = "warmSet" /\ at'[a] = "warmDone"
             \/ at[a] = "refusedSet" /\ at'[a] = "refusedDone"
      BY <1>0, <2>7 DEF WakeWaiters
    <3>2. at[a] = "refusedSet" => ~verdict.built
      BY <1>0 DEF VerdictInPlace
    <3>3. QED
      BY <1>0, <2>1, <3>1, <3>2 DEF BuiltIsAtRest
  <2>8. QED
    BY <1>4, <2>2, <2>3, <2>4, <2>5, <2>6, <2>7 DEF SubmitStep
<1>5. CASE StartCommand \/ FinishCommand
  <2>1. UNCHANGED <<at, public, queued, verdict, marker>> /\ step' \notin {"publish"} \cup After
        /\ step \notin After
    BY <1>0, <1>5 DEF StartCommand, Start, FinishCommand, scheduleVars, readyVars
  <2>2. QED
    BY <1>0, <2>1 DEF BuiltIsAtRest
<1>6. CASE ClaimAttempt
  <2>1. /\ UNCHANGED <<at, queued, verdict, marker>> /\ step' \notin {"publish"} \cup After
        /\ step = "claim"
        /\ \/ public' = public
           \/ public[Running] = "pending" /\ public' = [public EXCEPT ![Running] = "running"]
    BY <1>6 DEF ClaimAttempt, readyVars
  <2>2. \A a \in Attempt : public'[a] \in Active => public[a] \in Active
    BY <1>0, <2>1
  <2>3. QED
    BY <1>0, <2>1, <2>2 DEF BuiltIsAtRest
<1>7. CASE ClearMarker
  <2>1. /\ UNCHANGED <<at, public, queued, verdict>> /\ step' = "scan" /\ step = "clear"
    BY <1>7 DEF ClearMarker, scheduleVars, readyVars
  <2>2. public[Running] \in Active /\ at[Running] \in {"queued", "returned"} /\ Running \in Attempt
    BY <1>0, <1>1, <2>1 DEF OutcomesInPlace, Before
  <2>3. ~verdict.built /\ \A a \in Attempt : at[a] # "warm"
    BY <1>0, <2>1, <2>2 DEF BuiltIsAtRest
  <2>4. QED
    BY <2>1, <2>3 DEF BuiltIsAtRest
<1>8. CASE ScanReturns \/ SetMarker \/ CommandRaises
  <2>1. /\ UNCHANGED <<at, public, queued, verdict>> /\ step \notin After /\ step' \notin After
        /\ marker' = marker \/ marker' = TRUE
        /\ step' = "publish" /\ verdictOf' = "succeeded" => marker' = TRUE
    BY <1>8 DEF ScanReturns, SetMarker, CommandRaises, scheduleVars, readyVars
  <2>2. QED
    BY <1>0, <2>1 DEF BuiltIsAtRest
<1>9. CASE Publish
  <2>1. /\ UNCHANGED <<at, public, queued, marker, cur>> /\ lock = None
        /\ step = "publish" /\ step' = "publishDone"
    BY <1>9 DEF Publish, writerVars
  <2>2. \A b \in Attempt : at[b] # "warm"
    BY <1>0, <2>1 DEF LockInPlace, Submitting
  <2>3. CASE latest = Running /\ verdictOf = "succeeded"
    <3>1. marker
      BY <1>0, <2>1, <2>3 DEF BuiltIsAtRest
    <3>2. \A b \in Attempt : public[b] \in Active => b = Running
      BY <2>1, <2>3, OthersHaveEnded
    <3>3. QED
      BY <1>1, <2>1, <2>2, <3>1, <3>2 DEF BuiltIsAtRest
  <2>4. CASE ~(latest = Running /\ verdictOf = "succeeded")
    <3>1. verdict' = verdict \/ verdict' = [verdict EXCEPT !.error = TRUE]
      BY <1>9, <2>4 DEF Publish
    <3>2. verdict'.built = verdict.built
      BY <1>0, <3>1
    <3>3. QED
      BY <1>0, <2>1, <2>2, <3>2 DEF BuiltIsAtRest
  <2>5. QED
    BY <2>3, <2>4
<1>10. CASE PublishDone
  <2>1. /\ UNCHANGED <<at, public, queued, verdict, marker, cur>> /\ step = "publishDone"
        /\ step' = "resolve"
    BY <1>10 DEF PublishDone, writerVars
  <2>2. QED
    BY <1>0, <2>1 DEF BuiltIsAtRest
<1>11. CASE Resolve
  <2>1. /\ UNCHANGED <<at, queued, verdict, marker, cur>> /\ step = "resolve" /\ step' = "settle"
        /\ \A b \in Attempt : b # Running => public'[b] = public[b]
        /\ public'[Running] \notin Active
    BY <1>0, <1>1, <1>11 DEF Resolve, readyVars, writerVars
  <2>2. QED
    BY <1>0, <1>1, <2>1 DEF BuiltIsAtRest
<1>12. ASSUME NEW a \in Attempt, CancelAttempt(a) \/ DispatchDone(a) \/ RecordCancelled(a)
       PROVE  BuiltIsAtRest'
  <2>1. /\ UNCHANGED <<at, queued, verdict, marker, verdictOf, step, cur>>
        /\ \/ public' = public
           \/ public' = [public EXCEPT ![a] = "cancelled"]
           \/ public' = [public EXCEPT ![a] = @]
    BY <1>12 DEF CancelAttempt, DispatchDone, RecordCancelled, readyVars, runVars,
      writerVars
  <2>2. QED
    BY <1>0, <1>2, <2>1
<1>13. CASE Quiet
  BY <1>0, <1>2, <1>13, QuietFrame, QuietStays
<1>14. QED
  BY <1>3, <1>4, <1>5, <1>6, <1>7, <1>8, <1>9, <1>10, <1>11, <1>12, <1>13
     DEF BuildNext, CommandStep, CallbackStep, Quiet

(* An outcome that was published stands (build_lifecycle.py:203-219).      *)
LEMMA OutcomeStands ==
  ASSUME BuildInv, [BuildNext]_buildVars, NEW b \in Attempt, result[b] # "none"
  PROVE  result'[b] = result[b]
<1> USE WriterAssumption, BuildAssumption DEF BuildTypeOK
<1>0. BuildTypeOK /\ WriterInv /\ CommandsAreKnown /\ OutcomesInPlace
  BY DEF BuildInv
<1>1. ASSUME NEW a \in Attempt, PublishWarm(a) \/ RecordRefused(a) \/ RecordCancelled(a)
      PROVE  result'[b] = result[b]
  <2>1. result[a] = "none" /\ \E x : result' = [result EXCEPT ![a] = x]
    BY <1>0, <1>1 DEF PublishWarm, RecordRefused, WakeWaiters, RecordCancelled, OutcomesInPlace
  <2>2. QED
    BY <1>0, <2>1
<1>2. CASE Publish
  <2>1. Running \in Attempt /\ result[Running] = "none"
    BY <1>0, <1>2, RunningIs DEF Publish, OutcomesInPlace, Before
  <2>2. QED
    BY <1>0, <1>2, <2>1 DEF Publish
<1>3. CASE Quiet
  BY <1>3, QuietFrame
<1>4. CASE result' = result
  BY <1>4
<1>5. QED
  <2>1. \/ Quiet \/ Publish \/ result' = result
        \/ \E a \in Attempt : PublishWarm(a) \/ RecordRefused(a) \/ RecordCancelled(a)
    BY DEF BuildNext, SubmitStep, CommandStep, CallbackStep, Quiet, Schedule, BeginBuild,
      ClearDone, SubmitCommand, SubmitRefused, WakeWaiters, Return, CancelAttempt, DispatchDone,
      StartCommand, ClaimAttempt, ClearMarker, ScanReturns, SetMarker, CommandRaises, PublishDone,
      Resolve, FinishCommand, scheduleVars
  <2>2. QED
    BY <1>1, <1>2, <1>3, <1>4, <2>1

(* A reading call goes by what it captured under the lock and by the order *)
(* of its reads (coordinator.py:238-257, readiness.py:143-164).            *)
LEMMA ReadersNext ==
  ASSUME BuildInv, BuildTypeOK', [BuildNext]_buildVars
  PROVE  ReadersInPlace'
<1> USE WriterAssumption, BuildAssumption DEF BuildTypeOK
<1>0. BuildTypeOK /\ VerdictInPlace /\ ReadersInPlace /\ OutcomesInPlace
  BY DEF BuildInv
<1>1. \A b \in Attempt : result[b] = "succeeded" => result'[b] = "succeeded"
  BY OutcomeStands
<1>2. CASE barrier' = barrier /\ status' = status
  BY <1>0, <1>1, <1>2 DEF ReadersInPlace
<1>3. ASSUME NEW a \in Attempt, BeginBuild(a)
      PROVE  ReadersInPlace'
  BY <1>0, <1>1, <1>3 DEF BeginBuild, ReadersInPlace
<1>4. CASE BarrierBegin
  <2>1. status' = status /\ result' = result
    BY <1>4 DEF BarrierBegin, scheduleVars
  <2>2. CASE closed
    BY <1>0, <1>4, <2>1, <2>2 DEF BarrierBegin, ReadersInPlace
  <2>3. CASE ~closed
    <3>1. Fresh # None /\ barrier' = [at |-> IF latest = None THEN "refresh" ELSE "build",
                                      build |-> latest, future |-> Fresh]
      BY <1>4, <2>3, FreshIsFree DEF BarrierBegin
    <3>2. QED
      BY <1>0, <2>1, <3>1 DEF ReadersInPlace
  <2>4. QED
    BY <2>2, <2>3
<1>5. CASE RequireSuccess
  <2>1. /\ barrier.at = "build" /\ barrier.build \in Attempt /\ status' = status /\ result' = result
        /\ \E x \in {"refresh", "build_failed", "never_built"} :
             /\ barrier' = [barrier EXCEPT !.at = x]
             /\ x = "refresh" => public[barrier.build] = "done"
    BY <1>0, <1>5 DEF RequireSuccess, ReadersInPlace, scheduleVars
  <2>2. public[barrier.build] = "done" => result[barrier.build] = "succeeded"
    BY <1>0, <2>1 DEF OutcomesInPlace, PublicMatchesOutcome
  <2>3. QED
    BY <1>0, <2>1, <2>2 DEF ReadersInPlace
<1>6. CASE RefreshDone \/ DeadlinePasses
  <2>1. /\ status' = status /\ result' = result
        /\ \/ barrier' = [barrier EXCEPT !.at = "timeout"]
           \/ barrier' = [barrier EXCEPT !.at = "error"]
           \/ barrier.at = "refresh" /\ barrier' = [barrier EXCEPT !.at = "proceed"]
    BY <1>0, <1>6 DEF RefreshDone, DeadlinePasses, scheduleVars
  <2>2. QED
    BY <1>0, <2>1 DEF ReadersInPlace
<1>7. CASE StatusReads
  <2>1. barrier' = barrier
    BY <1>7 DEF StatusReads
  <2>2. ASSUME status'.reads = 2, status'.ended
        PROVE  status'.verdict.built \/ status'.verdict.error
    <3>1. /\ status.reads = 1 /\ lock = None /\ latest # None
          /\ result[latest] \in {"succeeded", "failed"}
      <4>1. status'.reads = status.reads + 1 /\ status.reads \in 0..2
        BY <1>0, <1>7 DEF StatusReads
      <4>2. status'.ended = (lock = None /\ latest # None
                               /\ result[latest] \in {"succeeded", "failed"})
        BY <1>7 DEF StatusReads
      <4>3. status.reads = 1
        BY <2>2, <4>1
      <4>4. QED
        BY <2>2, <4>2, <4>3
    <3>2. status'.verdict = verdict
      BY <1>7, <3>1 DEF StatusReads, ReadOrder
    <3>3. QED
      BY <1>0, <3>1, <3>2 DEF VerdictInPlace
  <2>3. QED
    BY <1>0, <1>1, <2>1, <2>2 DEF ReadersInPlace
<1>8. QED
  <2>1. \/ (barrier' = barrier /\ status' = status)
        \/ \E a \in Attempt : BeginBuild(a)
        \/ BarrierBegin \/ RequireSuccess \/ RefreshDone \/ DeadlinePasses \/ StatusReads
    BY DEF BuildNext, SubmitStep, CommandStep, CallbackStep, ReaderStep, BarrierStep, LoopStep,
      CloseVault, Schedule, PublishWarm, ClearDone, SubmitCommand, SubmitRefused, RecordRefused,
      WakeWaiters, Return, CancelAttempt, DispatchDone, RecordCancelled, StartCommand,
      ClaimAttempt, ClearMarker, ScanReturns, SetMarker, CommandRaises, Publish, PublishDone,
      Resolve, FinishCommand, WaitStep, readerVars, buildVars
  <2>2. QED
    BY <1>2, <1>3, <1>4, <1>5, <1>6, <1>7, <2>1

-----------------------------------------------------------------------------
(* The invariant and what follows from it.                                 *)

(* A vault just constructed satisfies the invariant.                       *)
LEMMA BuildInvInit == BuildInit => BuildInv
<1> SUFFICES ASSUME BuildInit
             PROVE  BuildInv
  OBVIOUS
<1> USE WriterAssumption, BuildAssumption DEF BuildInit
<1>1. WriterInv
  BY WriterInvInit
<1>2. WriterTypeOK
  BY <1>1 DEF WriterInv
<1>3. BuildTypeOK
  <2>1. /\ verdict \in [built : BOOLEAN, error : BOOLEAN]
        /\ barrier \in [at : {"idle", "build", "refresh", "proceed", "timeout",
                              "build_failed", "never_built", "error"},
                        build : Attempt \cup {None}, future : Future \cup {None}]
        /\ waiter \in [at : {"idle", "waiting", "woken", "ok", "build_failed",
                             "never_built", "timeout"}, asked : BOOLEAN]
        /\ status \in [reads : 0..2, done : BOOLEAN,
                       verdict : [built : BOOLEAN, error : BOOLEAN],
                       began : BOOLEAN, ended : BOOLEAN]
    BY DEF NotBuilt
  <2>2. pc = "idle"
    BY DEF WriterInit
  <2>3. QED
    BY <1>2, <2>1, <2>2 DEF BuildTypeOK, Outcome
<1>4. FreeIsNowhere
  BY EmptyQueue DEF FreeIsNowhere, WriterInit
<1>5. LockInPlace /\ CommandsAreKnown
  BY DEF LockInPlace, CommandsAreKnown, Submitting, WriterInit
<1>6. OutcomesInPlace /\ LiveIsListed
  BY DEF OutcomesInPlace, PublicMatchesOutcome, LiveIsListed, Active, Before, After
<1>7. NewestLast /\ VerdictInPlace /\ BuiltIsAtRest /\ ReadersInPlace
  BY DEF NewestLast, VerdictInPlace, BuiltIsAtRest, ReadersInPlace, NotBuilt, Active
<1>8. QED
  BY <1>1, <1>3, <1>4, <1>5, <1>6, <1>7 DEF BuildInv

(* Every step of any thread keeps the invariant.                           *)
LEMMA BuildInvNext == BuildInv /\ [BuildNext]_buildVars => BuildInv'
<1> SUFFICES ASSUME BuildInv, [BuildNext]_buildVars
             PROVE  BuildInv'
  OBVIOUS
<1>1. BuildTypeOK'
  BY BuildTypeNext
<1>2. [WriterNext]_writerVars /\ WriterInv /\ FreeIsNowhere
  BY WriterMoves DEF BuildInv
<1>3. WriterInv' /\ FreeIsNowhere'
  BY <1>2, WriterInvNext, FreeNext
<1>4. LockInPlace' /\ CommandsAreKnown'
  BY LockNext, CommandsNext
<1>5. OutcomesInPlace' /\ LiveIsListed' /\ NewestLast'
  BY <1>1, <1>4, OutcomesNext, LiveNext, NewestNext
<1>6. VerdictInPlace' /\ BuiltIsAtRest' /\ ReadersInPlace'
  BY <1>1, VerdictNext, BuiltNext, ReadersNext
<1>7. QED
  BY <1>1, <1>3, <1>4, <1>5, <1>6 DEF BuildInv

(* The invariant holds in every reachable state, for any number of         *)
(* attempts, Futures and close() calls: it says where the lock, each       *)
(* attempt, its two Futures, the verdict and the marker are.               *)
THEOREM BuildInvariant == BuildSpec => []BuildInv
  BY BuildInvInit, BuildInvNext, PTL DEF BuildSpec

(* Readiness is the latest attempt's outcome, and queries are let through  *)
(* only over a store that carries the marker of a completed build          *)
(* (design.md:1464-1467, build_lifecycle.py:124, 203-210).                 *)
THEOREM LatestDecidesHolds == BuildSpec => []LatestDecides
<1>1. BuildInv => LatestDecides
  BY DEF BuildInv, LatestDecides, VerdictInPlace, BuiltIsAtRest
<1>2. QED
  BY <1>1, BuildInvariant, PTL

(* A public Future tells what its own attempt did, whoever cancelled it    *)
(* and whenever (build_lifecycle.py:212-246).                              *)
THEOREM PublicMatchesOutcomeHolds == BuildSpec => []PublicMatchesOutcome
<1>1. BuildInv => PublicMatchesOutcome
  BY DEF BuildInv, OutcomesInPlace
<1>2. QED
  BY <1>1, BuildInvariant, PTL

(* A mutation that waited for the index goes ahead only over a build that  *)
(* succeeded, if one was scheduled before it (coordinator.py:252-257).     *)
THEOREM ProceedNeedsSuccessHolds == BuildSpec => []ProceedNeedsSuccess
<1>1. BuildInv => ProceedNeedsSuccess
  BY DEF BuildInv, ReadersInPlace, ProceedNeedsSuccess
<1>2. QED
  BY <1>1, BuildInvariant, PTL

(* Two unlocked reads that straddle the end of a build do not report it as *)
(* building (readiness.py:157-164).                                        *)
THEOREM FinishedIsNotBuildingHolds == BuildSpec => []FinishedIsNotBuilding
<1>1. BuildInv => FinishedIsNotBuilding
  <2> SUFFICES ASSUME BuildInv, status.reads = 2, status.done, status.ended
               PROVE  StatusAnswer # "building"
    BY DEF FinishedIsNotBuilding
  <2>1. status.verdict.built \/ status.verdict.error
    BY DEF BuildInv, ReadersInPlace
  <2>2. CASE status.verdict.built
    <3>1. StatusAnswer = "queryable"
      BY <2>2 DEF StatusAnswer
    <3>2. QED
      BY <3>1
  <2>3. CASE ~status.verdict.built
    <3>1. StatusAnswer = "failed"
      BY <2>1, <2>3 DEF StatusAnswer
    <3>2. QED
      BY <3>1
  <2>4. QED
    BY <2>2, <2>3
<1>2. QED
  BY <1>1, BuildInvariant, PTL

(* An outcome, once published, is never replaced by another: neither by a  *)
(* late cancel nor by a late completion (build_lifecycle.py:203-219).      *)
THEOREM OutcomesStand ==
  BuildSpec => [][\A a \in Attempt : result[a] # "none" => result'[a] = result[a]]_buildVars
<1>1. BuildInv /\ [BuildNext]_buildVars =>
        [\A a \in Attempt : result[a] # "none" => result'[a] = result[a]]_buildVars
  BY OutcomeStands
<1>2. QED
  BY <1>1, BuildInvariant, PTL DEF BuildSpec

(* submit(), the commands, the callbacks and the reading calls use the     *)
(* writer only through its own operations, so what is proved of            *)
(* IndexWriter holds of it here (index_writer.py:162-345).                 *)
THEOREM BuildRunsOnWriter == BuildSpec => WriterSpec
<1>1. BuildInit => WriterInit
  BY DEF BuildInit
<1>2. BuildInv /\ [BuildNext]_buildVars => [WriterNext]_writerVars
  BY WriterMoves DEF BuildInv
<1>3. QED
  BY <1>1, <1>2, BuildInvariant, PTL DEF BuildSpec, WriterSpec

=============================================================================
