------------------------------ MODULE IndexWriter ------------------------------
(***************************************************************************)
(* The single-owner writer of the keyword and vector indexes               *)
(* (indexing/index_writer.py, class IndexWriter): a daemon thread serving  *)
(* a FIFO queue of (job, Future) pairs.  Any thread submits, cancels or    *)
(* closes; the worker claims, runs and settles one job at a time.  Two     *)
(* ways out: close() posts a sentinel and the queue is drained first, or a *)
(* job raises a BaseException, and the worker aborts what is queued.       *)
(*                                                                         *)
(* A step is what one lock, one queue.Queue call or one Future method      *)
(* makes atomic.  What a job does to the indexes, and the dirty sets, are  *)
(* in IndexPipeline; done callbacks are assumed to raise no BaseException, *)
(* as none of the ones the package registers does.                         *)
(***************************************************************************)
EXTENDS Naturals, Sequences

CONSTANTS
  Future,     \* the Futures submit() may hand out; each is used once
  Kind,       \* the kinds of job
  Closer,     \* the calls of close() made by threads other than the worker
  Sentinel,   \* _SHUTDOWN_SENTINEL
  None        \* no Future held, no job in flight

ASSUME WriterAssumption ==
  /\ Sentinel \notin Future
  /\ None \notin Future \cup Kind

VARIABLES
  queue,         \* self._queue
  state,         \* the state of each Future
  kind,          \* the kind of the job each Future stands for
  closed,        \* self._closed
  crashed,       \* self._crashed
  pc,            \* where the worker is in _run
  cur,           \* the Future the worker popped last and still holds
  sentinelSeen,  \* sentinel_seen, local to _run
  inFlight,      \* self._in_flight_kind
  generation,    \* self._write_generation
  doomed,        \* the Futures _abort_pending drained and has yet to cancel
  closer         \* where each close() call is

writerVars == <<queue, state, kind, closed, crashed, pc, cur, sentinelSeen,
                inFlight, generation, doomed, closer>>

Active  == {"pending", "running"}
Settled == {"done", "failed", "cancelled"}
WorkerPC == {"idle", "popped", "claimed", "running", "settled",
             "crashing", "aborting", "exited"}
CloserPC == {"start", "post", "join", "stopped", "gaveUp"}

WriterTypeOK ==
  /\ queue \in Seq(Future \cup {Sentinel})
  /\ state \in [Future -> {"free"} \cup Active \cup Settled]
  /\ kind \in [Future -> Kind \cup {None}]
  /\ closed \in BOOLEAN
  /\ crashed \in BOOLEAN
  /\ pc \in WorkerPC
  /\ cur \in Future \cup {None}
  /\ cur = None <=> pc \in {"idle", "exited"}
  /\ sentinelSeen \in BOOLEAN
  /\ inFlight \in Kind \cup {None}
  /\ generation \in Nat
  /\ doomed \in SUBSET Future
  /\ closer \in [Closer -> CloserPC]

(* The coordinator starts the worker in its constructor, before any other  *)
(* thread can reach it.                                                    *)
WriterInit ==
  /\ queue = << >>
  /\ state = [f \in Future |-> "free"]
  /\ kind = [f \in Future |-> None]
  /\ closed = FALSE
  /\ crashed = FALSE
  /\ pc = "idle"
  /\ cur = None
  /\ sentinelSeen = FALSE
  /\ inFlight = None
  /\ generation = 0
  /\ doomed = {}
  /\ closer = [c \in Closer |-> "start"]

-----------------------------------------------------------------------------
(* Submission and cancellation.                                            *)

(* A slip: the worker may submit even while it aborts.                     *)
AcceptsWhileAborting(onWorker) == ~closed \/ onWorker

(* The admission test of submit(), made under _submit_lock with the put.   *)
Accepts(onWorker) == ~closed \/ (onWorker /\ ~crashed)

(* The accepted part of submit(): a fresh Future joins the queue.          *)
Enqueue(f, k) ==
  /\ state[f] = "free"
  /\ state' = [state EXCEPT ![f] = "pending"]
  /\ kind' = [kind EXCEPT ![f] = k]
  /\ queue' = Append(queue, f)

(* submit() from a thread that is not the worker.                          *)
SubmitExternal(f, k) ==
  /\ Accepts(FALSE)
  /\ Enqueue(f, k)
  /\ UNCHANGED <<closed, crashed, pc, cur, sentinelSeen, inFlight, generation,
                 doomed, closer>>

(* submit() on the worker thread: by the running job, or by a callback of  *)
(* a Future the worker has just settled or is cancelling.                  *)
SubmitOnWorker(f, k) ==
  /\ pc \in {"running", "settled", "crashing", "aborting"}
  /\ Accepts(TRUE)
  /\ Enqueue(f, k)
  /\ UNCHANGED <<closed, crashed, pc, cur, sentinelSeen, inFlight, generation,
                 doomed, closer>>

(* Future.cancel() by whoever holds the Future: only a pending one.        *)
Cancel(f) ==
  /\ state[f] = "pending"
  /\ state' = [state EXCEPT ![f] = "cancelled"]
  /\ UNCHANGED <<queue, kind, closed, crashed, pc, cur, sentinelSeen, inFlight,
                 generation, doomed, closer>>

-----------------------------------------------------------------------------
(* The worker loop, _run.                                                  *)

(* queue.get(): the item is off the queue, nothing is claimed yet.         *)
Pop ==
  /\ pc = "idle" /\ queue # << >>
  /\ queue' = Tail(queue)
  /\ IF Head(queue) = Sentinel
       THEN sentinelSeen' = TRUE /\ UNCHANGED <<pc, cur>>
       ELSE cur' = Head(queue) /\ pc' = "popped" /\ UNCHANGED sentinelSeen
  /\ UNCHANGED <<state, kind, closed, crashed, inFlight, generation, doomed, closer>>

(* A slip: the sentinel ends the loop at once, whatever came behind it.    *)
ExitAtSentinel ==
  /\ pc = "idle" /\ sentinelSeen
  /\ pc' = "exited"
  /\ UNCHANGED <<queue, state, kind, closed, crashed, cur, sentinelSeen, inFlight,
                 generation, doomed, closer>>

(* get_nowait() on an empty queue once the sentinel was seen: the end.     *)
Exit ==
  /\ pc = "idle" /\ sentinelSeen /\ queue = << >>
  /\ pc' = "exited"
  /\ UNCHANGED <<queue, state, kind, closed, crashed, cur, sentinelSeen, inFlight,
                 generation, doomed, closer>>

(* _in_flight_kind is set before the Future is told it runs.               *)
Claim ==
  /\ pc = "popped"
  /\ inFlight' = kind[cur]
  /\ pc' = "claimed"
  /\ UNCHANGED <<queue, state, kind, closed, crashed, cur, sentinelSeen,
                 generation, doomed, closer>>

(* set_running_or_notify_cancel() answering True.                          *)
Start ==
  /\ pc = "claimed" /\ state[cur] = "pending"
  /\ state' = [state EXCEPT ![cur] = "running"]
  /\ pc' = "running"
  /\ UNCHANGED <<queue, kind, closed, crashed, cur, sentinelSeen, inFlight,
                 generation, doomed, closer>>

(* A slip: a cancelled job is dropped without letting go of its Future.    *)
SkipHolding ==
  /\ pc = "claimed" /\ state[cur] = "cancelled"
  /\ inFlight' = None
  /\ pc' = "idle"
  /\ UNCHANGED <<queue, state, kind, closed, crashed, cur, sentinelSeen, generation,
                 doomed, closer>>

(* set_running_or_notify_cancel() answering False: the job is dropped and  *)
(* the generation does not move.                                           *)
Skip ==
  /\ pc = "claimed" /\ state[cur] = "cancelled"
  /\ inFlight' = None
  /\ cur' = None
  /\ pc' = "idle"
  /\ UNCHANGED <<queue, state, kind, closed, crashed, sentinelSeen, generation,
                 doomed, closer>>

(* The runner returned or raised an Exception: set_result, set_exception.  *)
Settle(outcome) ==
  /\ pc = "running" /\ outcome \in {"done", "failed"}
  /\ state' = [state EXCEPT ![cur] = outcome]
  /\ pc' = "settled"
  /\ UNCHANGED <<queue, kind, closed, crashed, cur, sentinelSeen, inFlight,
                 generation, doomed, closer>>

(* The finally block, after the Future was settled.                        *)
Release ==
  /\ pc = "settled"
  /\ inFlight' = None
  /\ generation' = generation + 1
  /\ cur' = None
  /\ pc' = "idle"
  /\ UNCHANGED <<queue, state, kind, closed, crashed, sentinelSeen, doomed, closer>>

(* The runner raised a BaseException: captured into the Future first.      *)
Interrupt ==
  /\ pc = "running"
  /\ state' = [state EXCEPT ![cur] = "failed"]
  /\ pc' = "crashing"
  /\ UNCHANGED <<queue, kind, closed, crashed, cur, sentinelSeen, inFlight,
                 generation, doomed, closer>>

(* A slip: the crash closes the writer and leaves the queue as it is.      *)
AbortLeavingQueue ==
  /\ pc = "crashing"
  /\ closed' = TRUE
  /\ crashed' = TRUE
  /\ pc' = "aborting"
  /\ UNCHANGED <<queue, state, kind, cur, sentinelSeen, inFlight, generation, doomed,
                 closer>>

(* The part of _abort_pending under _submit_lock: close, mark the crash,   *)
(* take every job off the queue.                                           *)
Abort ==
  /\ pc = "crashing"
  /\ closed' = TRUE
  /\ crashed' = TRUE
  /\ doomed' = {queue[i] : i \in DOMAIN queue} \ {Sentinel}
  /\ queue' = << >>
  /\ pc' = "aborting"
  /\ UNCHANGED <<state, kind, cur, sentinelSeen, inFlight, generation, closer>>

(* The rest of it, outside the lock, one Future at a time.                 *)
CancelDoomed(f) ==
  /\ pc = "aborting" /\ f \in doomed
  /\ doomed' = doomed \ {f}
  /\ state' = [state EXCEPT ![f] = IF @ = "pending" THEN "cancelled" ELSE @]
  /\ UNCHANGED <<queue, kind, closed, crashed, pc, cur, sentinelSeen, inFlight,
                 generation, closer>>

(* The finally block on the way out; the re-raise ends the thread.         *)
Die ==
  /\ pc = "aborting" /\ doomed = {}
  /\ inFlight' = None
  /\ generation' = generation + 1
  /\ cur' = None
  /\ pc' = "exited"
  /\ UNCHANGED <<queue, state, kind, closed, crashed, sentinelSeen, doomed, closer>>

-----------------------------------------------------------------------------
(* close(): mark under the lock, post the sentinel outside it if this call *)
(* was the first, join with a timeout.                                     *)

(* A slip: the first close() posts no sentinel either.                     *)
CloseMarkOnly(c) ==
  /\ closer[c] = "start"
  /\ closer' = [closer EXCEPT ![c] = "join"]
  /\ closed' = TRUE
  /\ UNCHANGED <<queue, state, kind, crashed, pc, cur, sentinelSeen, inFlight,
                 generation, doomed>>

CloseMark(c) ==
  /\ closer[c] = "start"
  /\ closer' = [closer EXCEPT ![c] = IF closed THEN "join" ELSE "post"]
  /\ closed' = TRUE
  /\ UNCHANGED <<queue, state, kind, crashed, pc, cur, sentinelSeen, inFlight,
                 generation, doomed>>

ClosePost(c) ==
  /\ closer[c] = "post"
  /\ queue' = Append(queue, Sentinel)
  /\ closer' = [closer EXCEPT ![c] = "join"]
  /\ UNCHANGED <<state, kind, closed, crashed, pc, cur, sentinelSeen, inFlight,
                 generation, doomed>>

(* The join ended with the thread dead: True.  Otherwise the timeout ended *)
(* it: False.                                                              *)
CloseJoin(c) ==
  /\ closer[c] = "join"
  /\ closer' = [closer EXCEPT ![c] = IF pc = "exited" THEN "stopped" ELSE "gaveUp"]
  /\ UNCHANGED <<queue, state, kind, closed, crashed, pc, cur, sentinelSeen,
                 inFlight, generation, doomed>>

-----------------------------------------------------------------------------
(* The worker's own steps; each is taken by the one writer thread.         *)
WorkerLoop == Pop \/ Exit \/ Claim \/ Start \/ Skip \/ Release \/ Abort \/ Die
              \/ \E f \in Future : CancelDoomed(f)

CloserStep(c) == CloseMark(c) \/ ClosePost(c) \/ CloseJoin(c)

WriterNext ==
  \/ \E f \in Future, k \in Kind : SubmitExternal(f, k) \/ SubmitOnWorker(f, k)
  \/ \E f \in Future : Cancel(f)
  \/ WorkerLoop
  \/ \E o \in {"done", "failed"} : Settle(o)
  \/ Interrupt
  \/ \E c \in Closer : CloserStep(c)

WriterSpec == WriterInit /\ [][WriterNext]_writerVars

(* The writer thread keeps running and no job runs for ever; a close() in  *)
(* progress goes on.                                                       *)
WriterFairness ==
  /\ WF_writerVars(WorkerLoop)
  /\ WF_writerVars(Settle("done") \/ Settle("failed") \/ Interrupt)
  /\ \A c \in Closer : WF_writerVars(ClosePost(c) \/ CloseJoin(c))

FairWriterSpec == WriterSpec /\ WriterFairness

-----------------------------------------------------------------------------
(* Once the worker thread has ended no Future it accepted is left          *)
(* unsettled: a submit() racing the close, a callback submitting while the *)
(* worker aborts, or a job queued behind the sentinel would leave a caller *)
(* blocked in result() for ever (index_writer.py:351-357).                 *)
NoOrphanFuture ==
  pc = "exited" => \A f \in Future : state[f] \notin Active

(* A close() that returned True is a promise that the caller may close the *)
(* stores: nothing queued will still be run (index_writer.py:199-203).     *)
CloseTrueIsFinal ==
  (\E c \in Closer : closer[c] = "stopped") =>
     /\ inFlight = None
     /\ \A f \in Future : state[f] \notin Active

(* Every accepted Future is settled in the end, whatever crashes, cancels  *)
(* or closes: no waiter of submit().result() hangs.                        *)
EveryFutureSettles ==
  \A f \in Future : state[f] = "pending" ~> state[f] \in Settled

(* A close() ends the worker even when jobs are queued and submit others.  *)
ShutdownEnds == closed ~> pc = "exited"

=============================================================================
