---------------------------- MODULE WriteDispatcher ----------------------------
(***************************************************************************)
(* The queue behind deferred commits (write_callback.py) and the scope     *)
(* each tool call gives it (_commit_scope.py).  Writers fire, one worker   *)
(* thread takes items in order, buffers the writes of an open tool call    *)
(* and hands the buffer to the callback when the call ends.  A drain (a    *)
(* pull is about to merge) and a close flush what is still buffered.       *)
(*                                                                         *)
(* The callback opted into batches, as the git strategy does; one that did *)
(* not sees every write as if it had no scope.                             *)
(***************************************************************************)
EXTENDS Naturals, Sequences, SequencesExt

CONSTANTS
  Writes,    \* how many writes are fired
  Scope,     \* tool calls; the item of the same name is its _ScopeEnd
  Drainer,   \* calls of drain; the item of the same name is its _DrainMarker
  Stop,      \* the sentinel of close
  None       \* no scope, no item

(* A write is named by its place in the order of the fires.                *)
Write == 1..Writes

ASSUME WritesAreCounted == Writes \in Nat
ASSUME ItemsDiffer ==
  /\ Write \cap Scope = {} /\ Write \cap Drainer = {} /\ Scope \cap Drainer = {}
  /\ Stop \notin Write \cup Scope \cup Drainer \cup {None}
  /\ None \notin Write \cup Scope \cup Drainer

VARIABLES
  queue,    \* _queue
  open,     \* the tokens of _open_scopes, in the order of the dict
  buffer,   \* the items of _open_scopes
  worker,   \* _worker: pc, the batch being handed over, the tokens of a
            \* flush still to come, the item that began it
  closed,   \* _closed
  closer,   \* where close() is
  drain,    \* where each drain() is
  event,    \* markers whose event is set
  call,     \* the tool calls: open, returned, or cancelled with their thread
            \* still at work
  scopeOf,  \* history: the scope a write was fired under
  fate,     \* history: what became of each write
  before,   \* history: writes accepted before each marker
  batches,  \* history: what the callback has been handed, in order
  forced,   \* history: scopes flushed by a drain or a close
  late      \* history: the worker has died, the join has run out of time, or
            \* a drain returned at once because close had begun

dispatcherVars == <<queue, open, buffer, worker, closed, closer, drain, event,
                    call, scopeOf, fate, before, batches, forced, late>>

Item == Write \cup Scope \cup Drainer \cup {Stop}
Alive == worker.pc \in {"idle", "calling"}
Accepted == {w \in Write : fate[w] \in {"accepted", "handed"}}

DispatcherTypeOK ==
  /\ queue \in Seq(Item) /\ open \in Seq(Scope)
  /\ buffer \in [Scope -> Seq(Write)]
  /\ worker \in [pc : {"unstarted", "idle", "calling", "exited", "dead"},
                 batch : Seq(Write), rest : Seq(Scope), cause : Item \cup {None}]
  /\ closed \in BOOLEAN
  /\ closer \in {"open", "marked", "joining", "done"}
  /\ drain \in [Drainer -> {"ready", "waiting", "true", "false"}]
  /\ event \subseteq Drainer
  /\ call \in [Scope -> {"open", "returned", "cancelled", "abandoned"}]
  /\ scopeOf \in [Write -> Scope \cup {None}]
  /\ fate \in [Write -> {"unfired", "refused", "accepted", "handed"}]
  /\ before \in [Drainer -> SUBSET Write]
  /\ batches \in Seq(Seq(Write))
  /\ forced \subseteq Scope
  /\ late \subseteq {"died", "join", "shut"}

Resting == [pc |-> "idle", batch |-> << >>, rest |-> << >>, cause |-> None]

DispatcherInit ==
  /\ queue = << >> /\ open = << >>
  /\ buffer = [s \in Scope |-> << >>]
  /\ worker = [Resting EXCEPT !.pc = "unstarted"]
  /\ closed = FALSE /\ closer = "open"
  /\ drain = [d \in Drainer |-> "ready"] /\ event = {}
  /\ call = [s \in Scope |-> "open"]
  /\ scopeOf = [w \in Write |-> None]
  /\ fate = [w \in Write |-> "unfired"]
  /\ before = [d \in Drainer |-> {}]
  /\ batches = << >> /\ forced = {} /\ late = {}

-----------------------------------------------------------------------------
(* A slip: the check of _closed is left out.                               *)
FireUnchecked(w, s) ==
  /\ fate[w] = "unfired" /\ \A v \in 1..(w - 1) : fate[v] # "unfired"
  /\ s # None => call[s] \in {"open", "cancelled"}
  /\ fate' = [fate EXCEPT ![w] = "accepted"]
  /\ scopeOf' = [scopeOf EXCEPT ![w] = s]
  /\ queue' = Append(queue, w)
  /\ worker' = IF Alive \/ closed THEN worker ELSE Resting
  /\ UNCHANGED <<open, buffer, closed, closer, drain, event, call, before, batches,
                 forced, late>>

(* fire, under _worker_lock: refused once closed; starts the worker, or    *)
(* another one in the place of one that died, with its queue and buffers.  *)
Fire(w, s) ==
  /\ fate[w] = "unfired" /\ \A v \in 1..(w - 1) : fate[v] # "unfired"
  /\ s # None => call[s] \in {"open", "cancelled"}
  /\ scopeOf' = [scopeOf EXCEPT ![w] = s]
  /\ IF closed
       THEN /\ fate' = [fate EXCEPT ![w] = "refused"]
            /\ UNCHANGED <<queue, worker>>
       ELSE /\ fate' = [fate EXCEPT ![w] = "accepted"]
            /\ queue' = Append(queue, w)
            /\ worker' = IF Alive THEN worker ELSE Resting
  /\ UNCHANGED <<open, buffer, closed, closer, drain, event, call, before, batches,
                 forced, late>>

(* _close and end_scope: nothing once closed or before the first fire; an  *)
(* error on the way to the dispatcher is logged, and the end is lost.      *)
EndScope(s) ==
  /\ \/ queue' = queue
     \/ ~closed /\ worker.pc # "unstarted" /\ queue' = Append(queue, s)
  /\ UNCHANGED <<open, buffer, worker, closed, closer, drain, event, scopeOf, fate,
                 before, batches, forced, late>>

(* The middleware's finally.  A cancelled call runs it while the thread of *)
(* its asyncio.to_thread goes on, and may still fire.                      *)
ReturnCall(s) ==
  /\ call[s] = "open" /\ call' = [call EXCEPT ![s] = "returned"]
  /\ EndScope(s)

CancelCall(s) ==
  /\ call[s] = "open" /\ call' = [call EXCEPT ![s] = "cancelled"]
  /\ EndScope(s)

(* The thread of a cancelled call comes to its end.                        *)
ThreadEnds(s) ==
  /\ call[s] = "cancelled" /\ call' = [call EXCEPT ![s] = "abandoned"]
  /\ UNCHANGED <<queue, open, buffer, worker, closed, closer, drain, event, scopeOf,
                 fate, before, batches, forced, late>>

-----------------------------------------------------------------------------
(* The callback is called with a batch; its scope is forgotten first.      *)
HandOver(writes, rest, cause) ==
  /\ worker' = [pc |-> "calling", batch |-> writes, rest |-> rest, cause |-> cause]
  /\ batches' = Append(batches, writes)
  /\ fate' = [w \in Write |-> IF w \in ToSet(writes) THEN "handed" ELSE fate[w]]

(* What follows the last flush: the event of a marker, the exit of a stop. *)
Finished(cause) ==
  /\ worker' = [Resting EXCEPT !.pc = IF cause = Stop THEN "exited" ELSE "idle"]
  /\ event' = event \cup ({cause} \cap Drainer)
  /\ UNCHANGED <<open, buffer, fate, batches, forced>>

(* The dict of open scopes once the token's entry is popped.               *)
Without(tokens, s) == RemoveAt(tokens, CHOOSE i \in DOMAIN tokens : tokens[i] = s)

(* _flush_scope for the first of some tokens: the others come after the    *)
(* callback has returned.                                                  *)
FlushScopes(tokens, cause) ==
  LET s == Head(tokens)
  IN /\ HandOver(buffer[s], Tail(tokens), cause)
     /\ buffer' = [buffer EXCEPT ![s] = << >>]
     /\ open' = Without(open, s)
     /\ forced' = IF cause = s THEN forced ELSE forced \cup {s}
     /\ UNCHANGED event

(* _ScopeEnd: silent when the token has no buffer.                         *)
FlushAt(s) ==
  IF s \in ToSet(open) THEN FlushScopes(<<s>>, s) ELSE Finished(s)

(* _flush_all_scopes, for a marker and for the sentinel.                   *)
FlushAll(cause) ==
  IF open = << >> THEN Finished(cause) ELSE FlushScopes(open, cause)

(* setdefault and append.                                                  *)
BufferWrite(w) ==
  LET s == scopeOf[w]
  IN /\ buffer' = [buffer EXCEPT ![s] = Append(@, w)]
     /\ open' = IF s \in ToSet(open) THEN open ELSE Append(open, s)
     /\ UNCHANGED <<worker, event, fate, batches, forced>>

(* A slip: a scoped write is handed over as it arrives.                    *)
TakeEachWrite(w) ==
  /\ HandOver(<<w>>, << >>, w) /\ UNCHANGED <<open, buffer, event, forced>>

TakeWrite(w) ==
  IF scopeOf[w] = None
    THEN /\ HandOver(<<w>>, << >>, w) /\ UNCHANGED <<open, buffer, event, forced>>
    ELSE BufferWrite(w)

(* One turn of _run.                                                       *)
Take ==
  /\ worker.pc = "idle" /\ queue # << >>
  /\ queue' = Tail(queue)
  /\ LET i == Head(queue)
     IN \/ i \in Drainer \cup {Stop} /\ FlushAll(i)
        \/ i \in Scope /\ FlushAt(i)
        \/ i \in Write /\ TakeWrite(i)
  /\ UNCHANGED <<closed, closer, drain, call, scopeOf, before, late>>

(* The callback comes back, or raises an Exception, which is logged.       *)
CallReturns ==
  /\ worker.pc = "calling"
  /\ IF worker.rest = << >> THEN Finished(worker.cause)
                            ELSE FlushScopes(worker.rest, worker.cause)
  /\ UNCHANGED <<queue, closed, closer, drain, call, scopeOf, before, late>>

(* The callback raises a BaseException: the thread is gone, its marker     *)
(* unset; the queue and the buffers stay.                                  *)
CallKills ==
  /\ worker.pc = "calling"
  /\ worker' = [Resting EXCEPT !.pc = "dead"]
  /\ late' = late \cup {"died"}
  /\ UNCHANGED <<queue, open, buffer, closed, closer, drain, event, call, scopeOf,
                 fate, before, batches, forced>>

-----------------------------------------------------------------------------
(* A slip: a dead worker is taken for one with nothing to do.              *)
DrainBeginsUnlessDead(d) ==
  /\ drain[d] = "ready"
  /\ drain' = [drain EXCEPT ![d] = IF Alive /\ ~closed THEN "waiting" ELSE "true"]
  /\ queue' = IF Alive /\ ~closed THEN Append(queue, d) ELSE queue
  /\ before' = [before EXCEPT ![d] = Accepted]
  /\ late' = IF closed THEN late \cup {"shut"} ELSE late
  /\ UNCHANGED <<open, buffer, worker, closed, closer, event, call, scopeOf, fate,
                 batches, forced>>

(* drain, up to the put of its marker.                                     *)
DrainBegins(d) ==
  /\ drain[d] = "ready"
  /\ before' = [before EXCEPT ![d] = Accepted]
  /\ late' = IF closed THEN late \cup {"shut"} ELSE late
  /\ \/ /\ closed \/ worker.pc = "unstarted"
        /\ drain' = [drain EXCEPT ![d] = "true"] /\ UNCHANGED queue
     \/ /\ ~closed /\ worker.pc = "dead"
        /\ drain' = [drain EXCEPT ![d] = "false"] /\ UNCHANGED queue
     \/ /\ ~closed /\ Alive
        /\ drain' = [drain EXCEPT ![d] = "waiting"] /\ queue' = Append(queue, d)
  /\ UNCHANGED <<open, buffer, worker, closed, closer, event, call, scopeOf, fate,
                 batches, forced>>

DrainReturns(d) ==
  /\ drain[d] = "waiting" /\ d \in event
  /\ drain' = [drain EXCEPT ![d] = "true"]
  /\ UNCHANGED <<queue, open, buffer, worker, closed, closer, event, call, scopeOf,
                 fate, before, batches, forced, late>>

DrainTimesOut(d) ==
  /\ drain[d] = "waiting"
  /\ drain' = [drain EXCEPT ![d] = "false"]
  /\ UNCHANGED <<queue, open, buffer, worker, closed, closer, event, call, scopeOf,
                 fate, before, batches, forced, late>>

(* close: _closed under the lock, then the sentinel, then the join.        *)
CloseMarks ==
  /\ closer = "open" /\ closer' = "marked" /\ closed' = TRUE
  /\ UNCHANGED <<queue, open, buffer, worker, drain, event, call, scopeOf, fate, before,
                 batches, forced, late>>

CloseStops ==
  /\ closer = "marked"
  /\ IF Alive THEN closer' = "joining" /\ queue' = Append(queue, Stop)
              ELSE closer' = "done" /\ UNCHANGED queue
  /\ UNCHANGED <<open, buffer, worker, closed, drain, event, call, scopeOf, fate, before,
                 batches, forced, late>>

CloseJoins ==
  /\ closer = "joining" /\ closer' = "done"
  /\ late' = IF Alive THEN late \cup {"join"} ELSE late
  /\ UNCHANGED <<queue, open, buffer, worker, closed, drain, event, call, scopeOf, fate,
                 before, batches, forced>>

-----------------------------------------------------------------------------
Fires == \E w \in Write, s \in Scope \cup {None} : Fire(w, s)
Ends == \E s \in Scope : ReturnCall(s) \/ CancelCall(s) \/ ThreadEnds(s)
WorkerSteps == Take \/ CallReturns
Drains == \E d \in Drainer : DrainBegins(d) \/ DrainReturns(d) \/ DrainTimesOut(d)
Closes == CloseMarks \/ CloseStops \/ CloseJoins

DispatcherNext == Fires \/ Ends \/ WorkerSteps \/ CallKills \/ Drains \/ Closes

DispatcherSpec == DispatcherInit /\ [][DispatcherNext]_dispatcherVars

-----------------------------------------------------------------------------
Batch == {batches[i] : i \in 1..Len(batches)}
BatchesOf(s) == {i \in 1..Len(batches) : \E w \in ToSet(batches[i]) : scopeOf[w] = s}
Ended(s) == call[s] \in {"returned", "abandoned"}
Waiting == {w \in Write : fate[w] = "accepted"}

(* The dispatcher keeps the promise, whatever its queue, its buffers and   *)
(* its threads do: above all, a drain that answers True has seen every     *)
(* write accepted before it go to the callback, open tool calls included,  *)
(* though the worker may have died and been replaced meanwhile; but not    *)
(* when close had begun and still had work (write_callback.py:62-70,       *)
(* :359-365, :372-397).                                                    *)
Promise == INSTANCE CommitPromise WITH asked <- before, answer <- drain, closing <- closed

KeepsPromise == Promise!PromiseSpec

(* The callback is never handed the writes of two tool calls at once; it   *)
(* is handed those of one call at once, unless a drain or a close came in  *)
(* the middle or the call was cancelled; and in the order they were fired  *)
(* (write_callback.py:11-24, _commit_scope.py:23-26).                      *)
OneCallOneCommit ==
  /\ \A b \in Batch : \A i, j \in DOMAIN b : i < j => b[i] < b[j]
  /\ \A b \in Batch : \A v, w \in ToSet(b) : scopeOf[v] = scopeOf[w]
  /\ \A b \in Batch : Len(b) > 1 => \A w \in ToSet(b) : scopeOf[w] # None
  /\ \A s \in Scope :
       (\E i, j \in BatchesOf(s) : i # j) =>
          s \in forced \/ call[s] \in {"cancelled", "abandoned"}

(* After a close whose join saw the thread end, nothing accepted is left   *)
(* behind, whatever was buffered, queued or being fired when it began      *)
(* (write_callback.py:140-144, :318-322, :425-433).                        *)
CloseLeavesNothing == (closer = "done" /\ late \cap {"died", "join"} = {}) => Waiting = {}

(* What _commit_scope.py says of every call: the end marker lands behind   *)
(* every write the call fired, so that none waits once the call has ended. *)
(* A cancelled call fires after its end.                                   *)
EndLandsBehindItsWrites ==
  (worker.pc = "idle" /\ queue = << >> /\ ~closed) =>
     \A w \in Waiting : scopeOf[w] # None /\ ~Ended(scopeOf[w])

=============================================================================
