----------------------------- MODULE BuildLifecycle -----------------------------
(***************************************************************************)
(* Builds of the keyword index: their scheduling, their run on the writer  *)
(* and the publication of their outcomes (indexing/build_lifecycle.py),    *)
(* the readiness projection the query tools look at (indexing/             *)
(* readiness.py), and the waits for both in indexing/coordinator.py.       *)
(*                                                                         *)
(* Each attempt has two Futures: a public one, which its caller may        *)
(* cancel, and the one submit() returned for the command on the writer's   *)
(* queue, which only the writer settles.  The queue and the worker loop    *)
(* are IndexWriter's.  The scheduling lock is explicit: what it does not   *)
(* protect (the readiness readers, the public Future's cancel) goes on     *)
(* between the stores made under it.  The compatibility transitions of     *)
(* ReadinessState that nothing calls are left out, and so are              *)
(* use_existing_index (a read-only shell) and start_once (one submit).     *)
(***************************************************************************)
EXTENDS IndexWriter

CONSTANTS
  Attempt,    \* the calls of submit(), each a BuildAttempt
  Reader      \* which of the reading calls are made

Build   == "build_index"
Refresh == "process_dirty_paths"

ASSUME BuildAssumption ==
  /\ {Build, Refresh} \subseteq Kind
  /\ None \notin Attempt
  /\ Reader \subseteq {"barrier", "waiter", "status"}

VARIABLES
  at,          \* where the submit() of each attempt is
  public,      \* the state of each attempt's public Future
  result,      \* attempt.outcome
  queued,      \* the writer's Future of each attempt
  latest,      \* self._latest
  unfinished,  \* self._pending
  lock,        \* the attempt whose submit or _record holds self._lock
  verdict,     \* ReadinessState._verdict
  done,        \* ReadinessState._done
  marker,      \* the completion marker in the store
  step,        \* where the running command is
  verdictOf,   \* how its body ended
  signal,      \* the body raised a BaseException
  barrier,     \* prepare_index_read
  waiter,      \* wait_until_queryable
  status       \* status_fields; began and ended are history: a build began
               \* during the call, the latest one had ended by its last read

scheduleVars == <<at, public, result, queued, latest, unfinished, lock>>
readyVars == <<verdict, done>>
runVars == <<step, verdictOf, signal>>
readerVars == <<barrier, waiter, status>>
buildVars == <<writerVars, scheduleVars, readyVars, marker, runVars, readerVars>>

Unsuccessful == {"failed", "cancelled", "interrupted"}
Outcome == {"succeeded"} \cup Unsuccessful

NotBuilt == [built |-> FALSE, error |-> FALSE]
Built    == [built |-> TRUE, error |-> FALSE]

BuildTypeOK ==
  /\ WriterTypeOK
  /\ at \in [Attempt -> {"unused", "warm", "warmSet", "warmDone", "cold", "begun",
                         "cleared", "queued", "refused", "rebegun", "recleared",
                         "refusedSet", "refusedDone", "returned"}]
  /\ public \in [Attempt -> {"none"} \cup Active \cup Settled]
  /\ result \in [Attempt -> {"none"} \cup Outcome]
  /\ queued \in [Attempt -> Future \cup {None}]
  /\ latest \in Attempt \cup {None}
  /\ unfinished \subseteq Attempt
  /\ lock \in Attempt \cup {None}
  /\ verdict \in [built : BOOLEAN, error : BOOLEAN]
  /\ done \in BOOLEAN
  /\ marker \in BOOLEAN
  /\ step \in {"none", "claim", "clear", "scan", "marker", "publish", "publishDone",
               "resolve", "settle"}
  /\ verdictOf \in Outcome /\ signal \in BOOLEAN
  /\ step = "none" <=> pc # "running"
  /\ barrier \in [at : {"idle", "build", "refresh", "proceed", "timeout",
                        "build_failed", "never_built", "error"},
                  build : Attempt \cup {None}, future : Future \cup {None}]
  /\ waiter \in [at : {"idle", "waiting", "woken", "ok", "build_failed",
                       "never_built", "timeout"}, asked : BOOLEAN]
  /\ status \in [reads : 0..2, done : BOOLEAN,
                 verdict : [built : BOOLEAN, error : BOOLEAN],
                 began : BOOLEAN, ended : BOOLEAN]

(* A vault just constructed, over a store that holds a completed build, of *)
(* these settings or of others, or none.                                   *)
BuildInit ==
  /\ WriterInit
  /\ at = [a \in Attempt |-> "unused"]
  /\ public = [a \in Attempt |-> "none"]
  /\ result = [a \in Attempt |-> "none"]
  /\ queued = [a \in Attempt |-> None]
  /\ latest = None /\ unfinished = {} /\ lock = None
  /\ verdict = NotBuilt /\ done = TRUE
  /\ marker \in BOOLEAN
  /\ step = "none" /\ verdictOf = "succeeded" /\ signal = FALSE
  /\ barrier = [at |-> "idle", build |-> None, future |-> None]
  /\ waiter = [at |-> "idle", asked |-> FALSE]
  /\ status = [reads |-> 0, done |-> FALSE, verdict |-> NotBuilt, began |-> FALSE,
               ended |-> FALSE]

Spare == {f \in Future : state[f] = "free"}
Fresh == CHOOSE f \in Spare : TRUE

-----------------------------------------------------------------------------
(* submit(), all of it under the scheduling lock.  An idle warm restart    *)
(* publishes at once if the store has the marker; its provenance (which a  *)
(* scan stores, unless it found the vault empty) must be this process's    *)
(* and it must hold documents, and either may be so or not.  The check     *)
(* itself reads the store and may raise.                                   *)

BuildActive == \E a \in unfinished : public[a] \in Active

Schedule(a, force) ==
  /\ at[a] = "unused" /\ lock = None
  /\ lock' = a /\ latest' = a
  /\ public' = [public EXCEPT ![a] = "pending"]
  /\ \E next \in IF BuildActive \/ force THEN {"cold"}
                 ELSE {"refused", "cold"} \cup (IF marker THEN {"warm"} ELSE {}) :
       at' = [at EXCEPT ![a] = next]
  /\ UNCHANGED <<writerVars, result, queued, unfinished, readyVars, marker,
                 runVars, readerVars>>

PublishWarm(a) ==
  /\ at[a] = "warm"
  /\ public' = [public EXCEPT ![a] = "running"]
  /\ result' = [result EXCEPT ![a] = "succeeded"]
  /\ verdict' = Built
  /\ at' = [at EXCEPT ![a] = "warmSet"]
  /\ UNCHANGED <<writerVars, queued, latest, unfinished, lock, done, marker,
                 runVars, readerVars>>

(* Readiness is dropped in two stores, the verdict and then the event, once *)
(* a cold build is decided on, and again when scheduling it failed.        *)
BeginBuild(a) ==
  /\ at[a] \in {"cold", "refused"}
  /\ at' = [at EXCEPT ![a] = IF @ = "cold" THEN "begun" ELSE "rebegun"]
  /\ verdict' = NotBuilt
  /\ status' = [status EXCEPT !.began = @ \/ status.reads = 1]
  /\ UNCHANGED <<writerVars, public, result, queued, latest, unfinished, lock, done,
                 marker, runVars, barrier, waiter>>

ClearDone(a) ==
  /\ at[a] \in {"begun", "rebegun"}
  /\ at' = [at EXCEPT ![a] = IF @ = "begun" THEN "cleared" ELSE "recleared"]
  /\ unfinished' = IF at[a] = "begun" THEN unfinished \cup {a} ELSE unfinished
  /\ done' = FALSE
  /\ UNCHANGED <<writerVars, public, result, queued, latest, lock, verdict, marker,
                 runVars, readerVars>>

SubmitCommand(a) ==
  /\ at[a] = "cleared" /\ ~closed
  /\ Spare # {} /\ SubmitExternal(Fresh, Build)
  /\ queued' = [queued EXCEPT ![a] = Fresh]
  /\ at' = [at EXCEPT ![a] = "queued"]
  /\ UNCHANGED <<public, result, latest, unfinished, lock, readyVars, marker,
                 runVars, readerVars>>

SubmitRefused(a) ==
  /\ at[a] = "cleared" /\ closed
  /\ unfinished' = unfinished \ {a}
  /\ at' = [at EXCEPT ![a] = "refused"]
  /\ UNCHANGED <<writerVars, public, result, queued, latest, lock, readyVars,
                 marker, runVars, readerVars>>

RecordRefused(a) ==
  /\ at[a] = "recleared"
  /\ at' = [at EXCEPT ![a] = "refusedSet"]
  /\ public' = [public EXCEPT ![a] = "running"]
  /\ result' = [result EXCEPT ![a] = "failed"]
  /\ verdict' = [verdict EXCEPT !.error = TRUE]
  /\ UNCHANGED <<writerVars, queued, latest, unfinished, lock, done, marker,
                 runVars, readerVars>>

(* An outcome decided in submit() sets the event after the verdict...      *)
WakeWaiters(a) ==
  /\ at[a] \in {"warmSet", "refusedSet"}
  /\ done' = TRUE
  /\ at' = [at EXCEPT ![a] = IF @ = "warmSet" THEN "warmDone" ELSE "refusedDone"]
  /\ UNCHANGED <<writerVars, public, result, queued, latest, unfinished, lock, verdict,
                 marker, runVars, readerVars>>

(* ... and settles the public Future after that; or the callback of the    *)
(* queued Future is registered.  Then submit() releases the lock.          *)
Return(a) ==
  /\ at[a] \in {"warmDone", "refusedDone", "queued"}
  /\ public' = [public EXCEPT ![a] = CASE at[a] = "warmDone" -> "done"
                                       [] at[a] = "refusedDone" -> "failed"
                                       [] OTHER -> @]
  /\ lock' = None
  /\ at' = [at EXCEPT ![a] = "returned"]
  /\ UNCHANGED <<writerVars, result, queued, latest, unfinished, readyVars, marker,
                 runVars, readerVars>>

-----------------------------------------------------------------------------
(* The command on the writer, run().                                       *)

Running == CHOOSE a \in Attempt : queued[a] = cur

StartCommand ==
  /\ Start
  /\ step' = IF kind[cur] = Build THEN "claim" ELSE "settle"
  /\ verdictOf' \in IF kind[cur] = Build THEN {"succeeded"} ELSE {"succeeded", "failed"}
  /\ signal' = FALSE
  /\ UNCHANGED <<scheduleVars, readyVars, marker, readerVars>>

(* A cancelled attempt is skipped and the command returns nothing.         *)
ClaimAttempt ==
  /\ step = "claim"
  /\ IF public[Running] = "pending"
       THEN public' = [public EXCEPT ![Running] = "running"] /\ step' = "clear"
       ELSE step' = "settle" /\ UNCHANGED public
  /\ UNCHANGED <<writerVars, at, result, queued, latest, unfinished, lock, readyVars,
                 marker, verdictOf, signal, readerVars>>

ClearMarker ==
  /\ step = "clear"
  /\ marker' = FALSE /\ step' = "scan"
  /\ UNCHANGED <<writerVars, scheduleVars, readyVars, verdictOf, signal,
                 readerVars>>

ScanReturns ==
  /\ step = "scan" /\ step' = "marker"
  /\ UNCHANGED <<writerVars, scheduleVars, readyVars, marker, verdictOf, signal,
                 readerVars>>

SetMarker ==
  /\ step = "marker"
  /\ marker' = TRUE /\ step' = "publish"
  /\ UNCHANGED <<writerVars, scheduleVars, readyVars, verdictOf, signal,
                 readerVars>>

(* An Exception fails the build, a CancelledError cancels it; any other    *)
(* BaseException fails it while scanning and interrupts it afterwards, and *)
(* goes on to end the writer.                                              *)
CommandRaises ==
  /\ step \in {"clear", "scan", "marker"}
  /\ step' = "publish"
  /\ \/ verdictOf' \in {"failed", "cancelled"} /\ signal' = FALSE
     \/ /\ verdictOf' = IF step = "marker" THEN "interrupted" ELSE "failed"
        /\ signal' = TRUE
  /\ UNCHANGED <<writerVars, scheduleVars, readyVars, marker, readerVars>>

(* A slip: every build that ends decides readiness.                        *)
PublishAlways ==
  /\ step = "publish" /\ lock = None
  /\ lock' = Running
  /\ result' = [result EXCEPT ![Running] = verdictOf]
  /\ verdict' = CASE verdictOf = "succeeded" -> Built
                  [] verdictOf = "failed" -> [verdict EXCEPT !.error = TRUE]
                  [] OTHER -> verdict
  /\ step' = "publishDone"
  /\ UNCHANGED <<writerVars, at, public, queued, latest, unfinished, done, marker,
                 verdictOf, signal, readerVars>>

(* _record under the lock, then the public Future: only the latest attempt *)
(* touches readiness, and the event is set after the verdict.              *)
Publish ==
  /\ step = "publish" /\ lock = None
  /\ lock' = Running
  /\ result' = [result EXCEPT ![Running] = verdictOf]
  /\ verdict' = IF latest # Running THEN verdict
                ELSE CASE verdictOf = "succeeded" -> Built
                       [] verdictOf = "failed" -> [verdict EXCEPT !.error = TRUE]
                       [] OTHER -> verdict
  /\ step' = "publishDone"
  /\ UNCHANGED <<writerVars, at, public, queued, latest, unfinished, done, marker,
                 verdictOf, signal, readerVars>>

PublishDone ==
  /\ step = "publishDone"
  /\ done' = (done \/ latest = Running)
  /\ lock' = None
  /\ step' = "resolve"
  /\ UNCHANGED <<writerVars, at, public, result, queued, latest, unfinished, verdict,
                 marker, verdictOf, signal, readerVars>>

(* A slip: the public Future gets a result whatever happened.              *)
ResolveDone ==
  /\ step = "resolve"
  /\ public' = [public EXCEPT ![Running] = "done"]
  /\ step' = "settle"
  /\ UNCHANGED <<writerVars, at, result, queued, latest, unfinished, lock, readyVars,
                 marker, verdictOf, signal, readerVars>>

Resolve ==
  /\ step = "resolve"
  /\ public' = [public EXCEPT ![Running] = IF verdictOf = "succeeded" THEN "done"
                                                                    ELSE "failed"]
  /\ step' = "settle"
  /\ UNCHANGED <<writerVars, at, result, queued, latest, unfinished, lock, readyVars,
                 marker, verdictOf, signal, readerVars>>

FinishCommand ==
  /\ step = "settle"
  /\ CASE signal -> Interrupt
       [] ~signal /\ verdictOf = "succeeded" -> Settle("done")
       [] OTHER -> Settle("failed")
  /\ step' = "none"
  /\ UNCHANGED <<scheduleVars, readyVars, marker, verdictOf, signal, readerVars>>

-----------------------------------------------------------------------------
(* Completion of the queued Future: its callback unlists the attempt, and  *)
(* cancels the public Future when the writer shut down before the command  *)
(* ran.  (A command that ran has settled the public Future, so the         *)
(* callback's other branches are not reached.)                             *)
Dispatched(a) ==
  a \in unfinished /\ at[a] = "returned" /\ state[queued[a]] \in Settled

DispatchDone(a) ==
  /\ Dispatched(a) /\ lock = None
  /\ unfinished' = unfinished \ {a}
  /\ public' = [public EXCEPT ![a] = IF @ = "pending" THEN "cancelled" ELSE @]
  /\ UNCHANGED <<writerVars, at, result, queued, latest, lock, readyVars, marker,
                 runVars, readerVars>>

(* The rest of the worker loop; it runs the callbacks of the Futures it    *)
(* settles before it goes on.                                              *)
LoopStep ==
  /\ \/ Pop \/ Exit \/ Claim \/ Skip \/ Abort
     \/ (Release \/ Die) /\ \A a \in Attempt : ~Dispatched(a)
     \/ \E f \in Future : CancelDoomed(f)
  /\ UNCHANGED <<scheduleVars, readyVars, marker, runVars, readerVars>>

(* The caller cancels a build that has not begun; the callback records it. *)
CancelAttempt(a) ==
  /\ at[a] = "returned" /\ public[a] = "pending"
  /\ public' = [public EXCEPT ![a] = "cancelled"]
  /\ UNCHANGED <<writerVars, at, result, queued, latest, unfinished, lock, readyVars,
                 marker, runVars, readerVars>>

(* A slip: nobody who waits for readiness is woken.                        *)
RecordQuietly(a) ==
  /\ public[a] = "cancelled" /\ result[a] = "none" /\ lock = None
  /\ result' = [result EXCEPT ![a] = "cancelled"]
  /\ UNCHANGED <<writerVars, at, public, queued, latest, unfinished, lock, readyVars,
                 marker, runVars, readerVars>>

RecordCancelled(a) ==
  /\ public[a] = "cancelled" /\ result[a] = "none" /\ lock = None
  /\ result' = [result EXCEPT ![a] = "cancelled"]
  /\ done' = (done \/ latest = a)
  /\ UNCHANGED <<writerVars, at, public, queued, latest, unfinished, lock, verdict,
                 marker, runVars, readerVars>>

-----------------------------------------------------------------------------
(* prepare_index_read: capture the latest attempt and queue a refresh in   *)
(* one step under the lock, require the attempt's success, await the       *)
(* refresh, all within one deadline.                                       *)

BarrierBegin ==
  /\ barrier.at = "idle" /\ lock = None
  /\ IF closed
       THEN barrier' = [barrier EXCEPT !.at = "error"] /\ UNCHANGED writerVars
       ELSE /\ Spare # {} /\ SubmitExternal(Fresh, Refresh)
            /\ barrier' = [at |-> IF latest = None THEN "refresh" ELSE "build",
                           build |-> latest, future |-> Fresh]
  /\ UNCHANGED <<scheduleVars, readyVars, marker, runVars, waiter, status>>

(* A slip: only a failed build stops the mutation, not a cancelled one.    *)
RequireNoFailure ==
  /\ barrier.at = "build" /\ public[barrier.build] \in Settled
  /\ barrier' = [barrier EXCEPT !.at = IF result[barrier.build] = "failed"
                                         THEN "build_failed" ELSE "refresh"]
  /\ UNCHANGED <<writerVars, scheduleVars, readyVars, marker, runVars, waiter,
                 status>>

RequireSuccess ==
  /\ barrier.at = "build" /\ public[barrier.build] \in Settled
  /\ barrier' = [barrier EXCEPT !.at =
        CASE public[barrier.build] = "done" -> "refresh"
          [] public[barrier.build] = "failed" /\ result[barrier.build] = "failed"
               -> "build_failed"
          [] OTHER -> "never_built"]
  /\ UNCHANGED <<writerVars, scheduleVars, readyVars, marker, runVars, waiter,
                 status>>

RefreshDone ==
  /\ barrier.at = "refresh" /\ state[barrier.future] \in Settled
  /\ barrier' = [barrier EXCEPT !.at = IF state[barrier.future] = "done" THEN "proceed"
                                                                     ELSE "error"]
  /\ UNCHANGED <<writerVars, scheduleVars, readyVars, marker, runVars, waiter,
                 status>>

DeadlinePasses ==
  /\ barrier.at \in {"build", "refresh"}
  /\ IF state[barrier.future] = "pending" THEN Cancel(barrier.future)
                                          ELSE UNCHANGED writerVars
  /\ barrier' = [barrier EXCEPT !.at = "timeout"]
  /\ UNCHANGED <<scheduleVars, readyVars, marker, runVars, waiter, status>>

-----------------------------------------------------------------------------
(* wait_until_queryable: wait for the event, then look at the verdict.     *)
WaitStep ==
  /\ \/ /\ waiter.at = "idle"
        /\ waiter' = [at |-> "waiting", asked |-> latest # None /\ lock = None]
     \/ /\ waiter.at = "waiting" /\ done
        /\ waiter' = [waiter EXCEPT !.at = "woken"]
     \/ /\ waiter.at = "waiting" /\ ~done
        /\ waiter' = [waiter EXCEPT !.at = "timeout"]
     \/ /\ waiter.at = "woken"
        /\ waiter' = [waiter EXCEPT !.at = CASE verdict.built -> "ok"
                                             [] ~verdict.built /\ verdict.error -> "build_failed"
                                             [] OTHER -> "never_built"]
  /\ UNCHANGED <<writerVars, scheduleVars, readyVars, marker, runVars, barrier,
                 status>>

(* A slip: the verdict is read before the event.                           *)
VerdictFirst == <<"verdict", "done">>

(* status_fields: the event first, then the verdict, without a lock.       *)
ReadOrder == <<"done", "verdict">>

StatusReads ==
  /\ status.reads < 2
  /\ status' = [reads |-> status.reads + 1,
                done |-> IF ReadOrder[status.reads + 1] = "done" THEN done ELSE status.done,
                verdict |-> IF ReadOrder[status.reads + 1] = "verdict" THEN verdict
                                                                     ELSE status.verdict,
                began |-> status.reads > 0 /\ status.began,
                ended |-> lock = None /\ latest # None
                            /\ result[latest] \in {"succeeded", "failed"}]
  /\ UNCHANGED <<writerVars, scheduleVars, readyVars, marker, runVars, barrier,
                 waiter>>

StatusAnswer ==
  CASE status.verdict.built /\ status.done -> "queryable"
    [] ~status.verdict.built /\ status.done /\ status.verdict.error -> "failed"
    [] OTHER -> "building"

CloseVault ==
  /\ \E c \in Closer : CloserStep(c)
  /\ UNCHANGED <<scheduleVars, readyVars, marker, runVars, readerVars>>

-----------------------------------------------------------------------------
SubmitStep(a) ==
  \/ PublishWarm(a) \/ BeginBuild(a) \/ ClearDone(a) \/ SubmitCommand(a)
  \/ SubmitRefused(a) \/ RecordRefused(a) \/ WakeWaiters(a) \/ Return(a)

CommandStep ==
  \/ StartCommand \/ ClaimAttempt \/ ClearMarker \/ ScanReturns \/ SetMarker
  \/ CommandRaises \/ Publish \/ PublishDone \/ Resolve \/ FinishCommand

CallbackStep == \E a \in Attempt : DispatchDone(a) \/ RecordCancelled(a)

BarrierStep == BarrierBegin \/ RequireSuccess \/ RefreshDone \/ DeadlinePasses

(* A behaviour has one reading call: no property relates two of them, and  *)
(* the two that only look change nothing for the third.                    *)
MayRead(r) ==
  /\ r \in Reader
  /\ barrier.at # "idle" => r = "barrier"
  /\ waiter.at # "idle" => r = "waiter"
  /\ status.reads > 0 => r = "status"

ReaderStep ==
  \/ MayRead("barrier") /\ BarrierStep
  \/ MayRead("waiter") /\ WaitStep
  \/ MayRead("status") /\ StatusReads

BuildNext ==
  \/ \E a \in Attempt :
       \/ \E force \in BOOLEAN : Schedule(a, force)
       \/ SubmitStep(a)
       \/ CancelAttempt(a)
  \/ CommandStep \/ LoopStep \/ CallbackStep \/ ReaderStep \/ CloseVault

BuildSpec == BuildInit /\ [][BuildNext]_buildVars

(* Threads inside submit() and callbacks go on, and so does the writer; a  *)
(* lock that is free for good is obtained.                                 *)
FairBuildSpec ==
  /\ BuildSpec
  /\ WF_buildVars(\E a \in Attempt : SubmitStep(a))
  /\ WF_buildVars(CallbackStep)
  /\ WF_buildVars(CommandStep \/ LoopStep)

-----------------------------------------------------------------------------
(* Readiness is the latest attempt's outcome and nothing else, whenever    *)
(* nobody is publishing: an old build that completes late cannot make a    *)
(* newer rebuild look ready, nor a failed one look unbuilt                 *)
(* (design.md:1464-1467, build_lifecycle.py:203-210).  And at any moment   *)
(* queries are let through only over a store that carries the marker of a  *)
(* build that completed: the warm short-circuit never re-opens the gate    *)
(* over an index a scheduled build is about to drop                        *)
(* (build_lifecycle.py:124).  Types are part of it.                        *)
LatestDecides ==
  /\ BuildTypeOK
  /\ verdict.built => marker
  /\ lock = None =>
       /\ verdict.built <=> (latest # None /\ result[latest] = "succeeded")
       /\ verdict.error <=> (latest # None /\ result[latest] = "failed")

(* A public Future tells what its own attempt did.                         *)
PublicMatchesOutcome ==
  \A a \in Attempt :
    /\ public[a] = "done" => result[a] = "succeeded"
    /\ public[a] = "failed" => result[a] \in Unsuccessful
    /\ public[a] = "cancelled" => result[a] \in {"none", "cancelled"}

(* A mutation that waited for the index goes ahead only over a build that  *)
(* succeeded, if one was scheduled before it (coordinator.py:252-257).     *)
ProceedNeedsSuccess ==
  barrier.at = "proceed" =>
    barrier.build = None \/ result[barrier.build] = "succeeded"

(* A build that has just failed or succeeded is never reported as building *)
(* because the two reads straddle its end: with the event seen set and no  *)
(* build begun meanwhile, the answer is the outcome (readiness.py:157-164). *)
FinishedIsNotBuilding ==
  (status.reads = 2 /\ status.done /\ status.ended /\ ~status.began) =>
     StatusAnswer # "building"

(* Every attempt's Future is settled in the end, and waiters of readiness  *)
(* are woken, whoever cancels, closes or crashes                           *)
(* (build_lifecycle.py:221-246, coordinator.py:166-184).                   *)
BuildsSettleAndWake == []<>(done /\ \A a \in Attempt : public[a] \notin Active)

(* What wait_until_queryable documents: it answers never_built only when   *)
(* no build was ever scheduled (coordinator.py:173-179).  Not so, and not  *)
(* only for cancelled builds.                                              *)
NeverBuiltMeansNeverScheduled ==
  (waiter.at = "never_built" /\ waiter.asked) =>
     \E a \in Attempt : result[a] \in {"cancelled", "interrupted"}

=============================================================================
