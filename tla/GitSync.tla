-------------------------------- MODULE GitSync --------------------------------
(***************************************************************************)
(* The write dispatcher and the git strategy it calls: commits, the idle   *)
(* push timer, the pull loop and the git_sync tool, the health the write   *)
(* tools report, and the shutdown (git/strategy.py, git/push_scheduler.py, *)
(* git/conflict.py, git/health.py, Vault.stop and Vault.close).            *)
(*                                                                         *)
(* A history is the set of changes it holds: one push, fetch or merge is   *)
(* an inclusion of sets.  Whatever a thread does while it holds the        *)
(* strategy lock is one step, but for a pull, which holds the file lock    *)
(* too: it waits for the dispatcher under the one and not the other.       *)
(***************************************************************************)
EXTENDS WriteDispatcher, FiniteSets

CONSTANTS
  Loop,       \* the thread of the pull loop
  Tool,       \* threads of git_sync calls
  Ext,        \* changes other clones push
  Leftover,   \* commits an earlier run of the server left unpushed
  Sibling,    \* commits of conflict siblings
  MaxFaults   \* bound on failures of the network, of git and of threads, and on
              \* timeouts that run out although nobody is stuck

Puller == {Loop} \cup Tool
Commit == Write \cup Ext \cup Sibling \cup Leftover

ASSUME PullersDrain == Drainer = Puller
ASSUME CommitsDiffer == Write \cap (Ext \cup Sibling \cup Leftover) = {}
ASSUME FaultsAreCounted == MaxFaults \in Nat

VARIABLES
  local,      \* the commits of HEAD
  remote,     \* the commits of the branch on origin
  fetched,    \* the commits of origin/<branch> as this clone knows it
  dirty,      \* writes that are on disk and in no commit
  fileLock,   \* _file_write_lock, while a pull holds it
  gitLock,    \* the strategy-wide _lock, while a pull holds it
  puller,     \* where each pull is
  stage,      \* where the callback is: check, init, commit, schedule
  initDone,   \* _write_init_done
  pending,    \* _push_pending
  timer,      \* _timer: none, armed; or ripe, when its thread is past cancel
  shut,       \* the shutdown of the vault, then of the strategy
  health,     \* the open conditions of SyncHealthTracker
  faults,     \* how many failures there have been
  failed,     \* history: writes whose commit raised
  scheduled   \* history: schedule_push has run

gitVars == <<local, remote, fetched, dirty, fileLock, gitLock, puller, stage, initDone,
             pending, timer, shut, health, faults, failed, scheduled>>
syncVars == <<dispatcherVars, gitVars>>

StrategyClosed == shut \in {"marked", "flushing", "done"}
Fault == faults < MaxFaults /\ faults' = faults + 1

GitTypeOK ==
  /\ DispatcherTypeOK
  /\ local \subseteq Commit /\ remote \subseteq Commit /\ fetched \subseteq Commit
  /\ dirty \subseteq Write /\ failed \subseteq Write
  /\ fileLock \in Puller \cup {None} /\ gitLock \in Puller \cup {None}
  /\ puller \in [Puller -> {"rest", "quiesce", "git", "after"}]
  /\ stage \in {"check", "init", "commit", "schedule"}
  /\ timer \in {"none", "armed", "ripe"}
  /\ shut \in {"open", "joining", "stopped", "marked", "flushing", "done"}
  /\ health \subseteq {"push", "pull"}
  /\ faults \in 0..MaxFaults
  /\ initDone \in BOOLEAN /\ pending \in BOOLEAN /\ scheduled \in BOOLEAN
  /\ \A p \in Puller : /\ fileLock = p <=> puller[p] \in {"quiesce", "git"}
                       /\ gitLock = p <=> puller[p] = "git"
  /\ stage # "check" => worker.pc = "calling"

GitInit ==
  /\ DispatcherInit
  /\ local = Leftover /\ remote = {} /\ fetched = {}
  /\ dirty = {} /\ failed = {}
  /\ fileLock = None /\ gitLock = None
  /\ puller = [p \in Puller |-> "rest"]
  /\ stage = "check" /\ initDone = FALSE
  /\ pending = FALSE /\ timer = "none"
  /\ shut = "open" /\ health = {} /\ faults = 0
  /\ scheduled = FALSE

-----------------------------------------------------------------------------
(* git push origin, plain: refused when the remote holds more.             *)
PushArrives ==
  /\ remote \subseteq local
  /\ remote' = local /\ fetched' = local
  /\ health' = health \ {"push"}

PushIsRefused ==
  /\ health' = health \cup {"push"}
  /\ UNCHANGED <<remote, fetched>>

PushSucceeds == PushArrives /\ UNCHANGED faults

PushFails ==
  /\ IF remote \subseteq local THEN Fault ELSE UNCHANGED faults
  /\ PushIsRefused

(* A slip: the flag is cleared before the push is known to have arrived.   *)
DoPushClearsFirst ==
  /\ gitLock = None
  /\ pending' = FALSE
  /\ IF pending THEN PushSucceeds \/ PushFails
                ELSE UNCHANGED <<remote, fetched, health, faults>>

(* do_push: nothing unless a push is pending; the flag goes on success.    *)
DoPush ==
  /\ gitLock = None
  /\ \/ pending /\ PushSucceeds /\ pending' = FALSE
     \/ pending /\ PushFails /\ UNCHANGED pending
     \/ ~pending /\ UNCHANGED <<remote, fetched, health, faults, pending>>

(* A slip: writes do not wait for a pull.                                  *)
WriteFileUnpaused(w) ==
  /\ Fire(w, None)
  /\ dirty' = dirty \cup {w}
  /\ UNCHANGED <<local, remote, fetched, fileLock, gitLock, puller, stage, initDone,
                 pending, timer, shut, health, faults, failed, scheduled>>

(* A write tool: the file and the fire, under the file lock.               *)
WriteFile(w) ==
  /\ fileLock = None
  /\ Fire(w, None)
  /\ dirty' = dirty \cup {w}
  /\ UNCHANGED <<local, remote, fetched, fileLock, gitLock, puller, stage, initDone,
                 pending, timer, shut, health, faults, failed, scheduled>>

-----------------------------------------------------------------------------
(* The dispatcher takes an item; a callback begins with its check.         *)
DispatcherTakes ==
  /\ Take /\ UNCHANGED gitVars

(* __call__: nothing once the strategy is closed.                          *)
CallbackChecks ==
  /\ worker.pc = "calling" /\ stage = "check"
  /\ IF StrategyClosed
       THEN CallReturns /\ UNCHANGED stage
       ELSE /\ stage' = IF initDone THEN "commit" ELSE "init"
            /\ UNCHANGED dispatcherVars
  /\ UNCHANGED <<local, remote, fetched, dirty, fileLock, gitLock, puller, initDone,
                 pending, timer, shut, health, faults, failed, scheduled>>

(* _ensure_write_init, once: push_if_unpushed, whose failure is recorded   *)
(* and leaves nothing pending; there is no push when git cannot say what   *)
(* is unpushed.                                                            *)
CallbackInits ==
  /\ worker.pc = "calling" /\ stage = "init" /\ gitLock = None
  /\ \/ local \subseteq fetched /\ UNCHANGED <<remote, fetched, health, faults>>
     \/ ~(local \subseteq fetched) /\ (PushSucceeds \/ PushFails)
     \/ ~(local \subseteq fetched) /\ Fault /\ UNCHANGED <<remote, fetched, health>>
  /\ initDone' = TRUE /\ stage' = "commit"
  /\ UNCHANGED <<dispatcherVars, local, dirty, fileLock, gitLock, puller, pending, timer,
                 shut, failed, scheduled>>

(* It raises, before its push or after it: the callback ends there, the    *)
(* batch is not committed, and the next one begins again.                  *)
InitFails ==
  /\ worker.pc = "calling" /\ stage = "init" /\ gitLock = None /\ Fault
  /\ \/ UNCHANGED <<remote, fetched, health>>
     \/ ~(local \subseteq fetched) /\ PushArrives
     \/ ~(local \subseteq fetched) /\ PushIsRefused
  /\ failed' = failed \cup ToSet(worker.batch)
  /\ stage' = "check"
  /\ CallReturns
  /\ UNCHANGED <<local, dirty, fileLock, gitLock, puller, initDone, pending, timer, shut,
                 scheduled>>

(* Staging and commit of the batch's own paths.                            *)
CallbackCommits ==
  /\ worker.pc = "calling" /\ stage = "commit" /\ gitLock = None
  /\ local' = local \cup ToSet(worker.batch)
  /\ dirty' = dirty \ ToSet(worker.batch)
  /\ stage' = "schedule"
  /\ UNCHANGED <<dispatcherVars, remote, fetched, fileLock, gitLock, puller, initDone,
                 pending, timer, shut, health, faults, failed, scheduled>>

(* It raises: logged, nothing scheduled, nothing left to try again.        *)
CommitFails ==
  /\ worker.pc = "calling" /\ stage = "commit" /\ gitLock = None /\ Fault
  /\ failed' = failed \cup ToSet(worker.batch)
  /\ stage' = "check"
  /\ CallReturns
  /\ UNCHANGED <<local, remote, fetched, dirty, fileLock, gitLock, puller, initDone,
                 pending, timer, shut, health, scheduled>>

(* schedule_push: pending, and the idle timer starts again.                *)
CallbackSchedules ==
  /\ worker.pc = "calling" /\ stage = "schedule" /\ gitLock = None
  /\ pending' = TRUE /\ scheduled' = TRUE
  /\ timer' = "armed"
  /\ stage' = "check"
  /\ CallReturns
  /\ UNCHANGED <<local, remote, fetched, dirty, fileLock, gitLock, puller, initDone,
                 shut, health, faults, failed>>

(* The worker dies in the callback, before the commit.                     *)
WorkerDies ==
  /\ CallKills /\ stage = "commit" /\ Fault
  /\ stage' = "check" /\ failed' = failed \cup ToSet(worker.batch)
  /\ UNCHANGED <<local, remote, fetched, dirty, fileLock, gitLock, puller, initDone,
                 pending, timer, shut, health, scheduled>>

CallbackSteps == DispatcherTakes \/ CallbackChecks \/ CallbackInits \/ CallbackCommits
                 \/ CallbackSchedules

-----------------------------------------------------------------------------
(* The idle timer: from here on a cancel comes too late.                   *)
TimerRipens ==
  /\ timer = "armed" /\ timer' = "ripe"
  /\ UNCHANGED <<dispatcherVars, local, remote, fetched, dirty, fileLock, gitLock, puller,
                 stage, initDone, pending, shut, health, faults, failed,
                 scheduled>>

TimerPushes ==
  /\ timer = "ripe" /\ timer' = "none"
  /\ DoPush
  /\ UNCHANGED <<dispatcherVars, local, dirty, fileLock, gitLock, puller, stage, initDone,
                 shut, failed, scheduled>>

-----------------------------------------------------------------------------
(* A slip: the strategy lock is taken first, and held through the drain.   *)
PullBeginsLocked(p) ==
  /\ puller[p] = "rest" /\ fileLock = None /\ gitLock = None
  /\ p = Loop => shut = "open"
  /\ fileLock' = p /\ gitLock' = p
  /\ puller' = [puller EXCEPT ![p] = "quiesce"]
  /\ DrainBegins(p)
  /\ UNCHANGED <<local, remote, fetched, dirty, stage, initDone, pending, timer, shut,
                 health, faults, failed, scheduled>>

(* sync_once or force_pull, up to the marker of its drain: writes paused.  *)
(* The loop looks at _pull_stop before each tick.                          *)
PullBegins(p) ==
  /\ puller[p] = "rest" /\ fileLock = None
  /\ p = Loop => shut = "open"
  /\ fileLock' = p
  /\ puller' = [puller EXCEPT ![p] = "quiesce"]
  /\ DrainBegins(p)
  /\ UNCHANGED <<local, remote, fetched, dirty, gitLock, stage, initDone, pending, timer,
                 shut, health, faults, failed, scheduled>>

PullDrained(p) ==
  /\ DrainReturns(p)
  /\ UNCHANGED gitVars

(* Its timeout runs out first, and the pull goes on all the same.          *)
PullGivesUp(p) ==
  /\ DrainTimesOut(p) /\ Fault
  /\ UNCHANGED <<local, remote, fetched, dirty, fileLock, gitLock, puller, stage, initDone,
                 pending, timer, shut, health, failed, scheduled>>

(* Whatever the drain said, the strategy lock and the merge follow.        *)
PullLocks(p) ==
  /\ puller[p] = "quiesce" /\ drain[p] \in {"true", "false"}
  /\ gitLock \in {None, p} /\ gitLock' = p
  /\ puller' = [puller EXCEPT ![p] = "git"]
  /\ UNCHANGED <<dispatcherVars, local, remote, fetched, dirty, fileLock, stage, initDone,
                 pending, timer, shut, health, faults, failed, scheduled>>

(* The fetch fails: a network event, of which health says nothing.         *)
FetchFails ==
  /\ Fault
  /\ UNCHANGED <<local, fetched, dirty, failed, health>>

(* Nothing to bring in, or a fast-forward, or a rebase that applies: the   *)
(* rebase wants a clean tree, the fast-forward one it need not overwrite.  *)
PullApplies ==
  /\ fetched' = remote
  /\ remote \subseteq local \/ local \subseteq remote \/ dirty = {}
  /\ local' = local \cup remote
  /\ health' = health \ {"pull"}
  /\ UNCHANGED <<dirty, failed, faults>>

(* The merge is refused or the rebase stops, and nothing has moved.        *)
PullRefused ==
  /\ fetched' = remote
  /\ ~(remote \subseteq local)
  /\ IF dirty = {} THEN Fault ELSE UNCHANGED faults
  /\ health' = health \cup {"pull"}
  /\ UNCHANGED <<local, dirty, failed>>

(* Our side of a conflict is kept in sibling files, committed on top.      *)
PullSavesSiblings ==
  /\ fetched' = remote
  /\ ~(remote \subseteq local) /\ ~(local \subseteq remote) /\ dirty = {}
  /\ \E s \in Sibling \ local :
       \/ local' = local \cup remote \cup {s} /\ UNCHANGED faults
       \* the rebase had to be aborted: the siblings sit on our own history
       \/ local' = local \cup {s} /\ Fault
  /\ health' = health \ {"pull"}
  /\ UNCHANGED <<dirty, failed>>

(* The commit of the siblings fails: HEAD has moved, and our side of the   *)
(* conflict is on disk alone.                                              *)
SiblingsUncommitted ==
  /\ fetched' = remote
  /\ ~(remote \subseteq local) /\ ~(local \subseteq remote) /\ dirty = {} /\ Fault
  /\ \E lost \in (SUBSET ((local \ remote) \cap Write)) \ {{}} :
       /\ local' = (local \cup remote) \ lost
       /\ dirty' = lost /\ failed' = failed \cup lost
  /\ health' = health \cup {"pull"}

(* _pull_locked and _record_pull, then both locks are free.                *)
PullGit(p) ==
  /\ puller[p] = "git"
  /\ FetchFails \/ PullApplies \/ PullRefused \/ PullSavesSiblings \/ SiblingsUncommitted
  /\ gitLock' = None /\ fileLock' = None
  /\ puller' = [puller EXCEPT ![p] = "after"]
  /\ UNCHANGED <<dispatcherVars, remote, stage, initDone, pending, timer, shut,
                 scheduled>>

(* The thread's next drain is a marker of its own; for the model, once the *)
(* last one is out of the queue.                                           *)
NextDrain(p) ==
  /\ p \notin ToSet(queue) /\ worker.cause # p
  /\ puller' = [puller EXCEPT ![p] = "rest"]
  /\ drain' = [drain EXCEPT ![p] = "ready"] /\ event' = event \ {p}
  /\ before' = [before EXCEPT ![p] = {}]
  /\ UNCHANGED <<queue, open, buffer, worker, closed, closer, call, scopeOf, fate, batches,
                 forced, late>>

(* A slip: the loop no longer tries a pending push again.                  *)
TickWithoutPush ==
  /\ puller[Loop] = "after" /\ NextDrain(Loop)
  /\ UNCHANGED <<local, remote, fetched, dirty, fileLock, gitLock, stage, initDone, pending,
                 timer, shut, health, faults, failed, scheduled>>

(* The end of a tick: do_push_safe(retry=True).                            *)
TickPushes ==
  /\ puller[Loop] = "after" /\ NextDrain(Loop)
  /\ DoPush
  /\ UNCHANGED <<local, dirty, fileLock, gitLock, stage, initDone, timer, shut,
                 failed, scheduled>>

(* It ends early: what the owner hung on the pull or the tick raised, the  *)
(* loop logs it and pushes nothing.                                        *)
TickFails ==
  /\ puller[Loop] = "after" /\ NextDrain(Loop) /\ Fault
  /\ UNCHANGED <<local, remote, fetched, dirty, fileLock, gitLock, stage, initDone, pending,
                 timer, shut, health, failed, scheduled>>

(* git_sync: force_push, which leaves the pending flag as it was, or only  *)
(* the pull.                                                               *)
ToolPushes(p) ==
  /\ p \in Tool /\ puller[p] = "after" /\ gitLock = None /\ NextDrain(p)
  /\ IF fetched = local THEN /\ health' = health \ {"push"}
                             /\ UNCHANGED <<remote, fetched, faults>>
                        ELSE PushSucceeds \/ PushFails
  /\ UNCHANGED <<local, dirty, fileLock, gitLock, stage, initDone, pending, timer, shut,
                 failed, scheduled>>

ToolEnds(p) ==
  /\ p \in Tool /\ puller[p] = "after" /\ NextDrain(p)
  /\ UNCHANGED <<local, remote, fetched, dirty, fileLock, gitLock, stage, initDone, pending,
                 timer, shut, health, faults, failed, scheduled>>

PullSteps(p) == PullDrained(p) \/ PullLocks(p) \/ PullGit(p)

(* Another clone pushes.                                                   *)
OthersPush(e) ==
  /\ e \notin remote /\ remote' = remote \cup {e}
  /\ UNCHANGED <<dispatcherVars, local, fetched, dirty, fileLock, gitLock, puller, stage,
                 initDone, pending, timer, shut, health, faults, failed,
                 scheduled>>

-----------------------------------------------------------------------------
(* Vault.close: stop the loop, wait for it, close the dispatcher; then the *)
(* owner closes the strategy.  The index writer's close lies between.      *)
StopLoop ==
  /\ shut = "open" /\ gitLock = None /\ shut' = "joining"
  /\ UNCHANGED <<dispatcherVars, local, remote, fetched, dirty, fileLock, gitLock, puller,
                 stage, initDone, pending, timer, health, faults, failed,
                 scheduled>>

LoopJoined ==
  /\ shut = "joining" /\ puller[Loop] = "rest" /\ shut' = "stopped"
  /\ UNCHANGED <<dispatcherVars, local, remote, fetched, dirty, fileLock, gitLock, puller,
                 stage, initDone, pending, timer, health, faults, failed,
                 scheduled>>

DispatcherCloses ==
  /\ \/ shut = "stopped" /\ CloseMarks
     \/ CloseStops
     \/ ~Alive /\ CloseJoins
  /\ UNCHANGED gitVars

(* The join of the loop, or that of the worker, runs out of time.          *)
JoinGivesUp ==
  /\ \/ /\ shut = "joining" /\ puller[Loop] # "rest" /\ shut' = "stopped"
        /\ UNCHANGED dispatcherVars
     \/ Alive /\ CloseJoins /\ UNCHANGED shut
  /\ Fault
  /\ UNCHANGED <<local, remote, fetched, dirty, fileLock, gitLock, puller, stage, initDone,
                 pending, timer, health, failed, scheduled>>

StrategyMarks ==
  /\ shut = "stopped" /\ closer = "done" /\ shut' = "marked"
  /\ UNCHANGED <<dispatcherVars, local, remote, fetched, dirty, fileLock, gitLock, puller,
                 stage, initDone, pending, timer, health, faults, failed,
                 scheduled>>

(* A slip: without a timer to cancel there is nothing to push.             *)
FlushLooksAtTimer ==
  /\ shut = "marked" /\ gitLock = None
  /\ timer' = IF timer = "armed" THEN "none" ELSE timer
  /\ shut' = IF timer = "armed" THEN "flushing" ELSE "done"
  /\ UNCHANGED <<dispatcherVars, local, remote, fetched, dirty, fileLock, gitLock, puller,
                 stage, initDone, pending, health, faults, failed, scheduled>>

(* flush: cancel the timer, look at the flag; then push.                   *)
FlushCancels ==
  /\ shut = "marked" /\ gitLock = None
  /\ timer' = IF timer = "armed" THEN "none" ELSE timer
  /\ shut' = IF pending THEN "flushing" ELSE "done"
  /\ UNCHANGED <<dispatcherVars, local, remote, fetched, dirty, fileLock, gitLock, puller,
                 stage, initDone, pending, health, faults, failed, scheduled>>

FlushPushes ==
  /\ shut = "flushing" /\ DoPush /\ shut' = "done"
  /\ UNCHANGED <<dispatcherVars, local, dirty, fileLock, gitLock, puller, stage, initDone,
                 timer, failed, scheduled>>

ShutdownSteps == LoopJoined \/ DispatcherCloses \/ StrategyMarks \/ FlushCancels
                 \/ FlushPushes

GitNext ==
  \/ \E w \in Write : WriteFile(w)
  \/ CallbackSteps \/ InitFails \/ CommitFails \/ WorkerDies
  \/ TimerRipens \/ TimerPushes
  \/ \E p \in Puller : PullBegins(p) \/ PullSteps(p) \/ PullGivesUp(p)
  \/ TickPushes \/ TickFails \/ \E p \in Tool : ToolPushes(p) \/ ToolEnds(p)
  \/ \E e \in Ext : OthersPush(e)
  \/ StopLoop \/ ShutdownSteps \/ JoinGivesUp

GitSpec == GitInit /\ [][GitNext]_syncVars

(* Some thread that can run does, the loop gets the locks it wants in the  *)
(* end and ticks on; nobody has to call git_sync or to shut down.          *)
Progress ==
  \/ CallbackSteps \/ TimerPushes \/ ShutdownSteps
  \/ \E p \in Puller : PullSteps(p)
  \/ \E p \in Tool : ToolPushes(p) \/ ToolEnds(p)

GitFairness ==
  /\ WF_syncVars(Progress) /\ SF_syncVars(CallbackSteps)
  /\ SF_syncVars(PullBegins(Loop))
  /\ SF_syncVars(PullSteps(Loop) \/ TickPushes)

FairGitSpec == GitSpec /\ GitFairness

-----------------------------------------------------------------------------
Trouble == failed # {} \/ late # {}

(* A pull whose drain answered True merges over no write that is on disk   *)
(* and in no commit, save one whose commit failed; the file lock keeps     *)
(* every write out from the drain to the end of the merge                  *)
(* (strategy.py:1593-1619, write_callback.py:66-71, #571).                 *)
MergeFindsWritesCommitted ==
  /\ GitTypeOK
  /\ \A p \in Puller :
    (puller[p] = "git" /\ drain[p] = "true" /\ ~StrategyClosed /\ ~closed) => dirty \subseteq failed

(* Every commit of this clone that is not on origin is waited for: a push  *)
(* is pending, or the callback is about to make it so.  Before the first   *)
(* write nothing is (push_scheduler.py:156-165, #957; strategy.py:396).    *)
UnpushedIsPending ==
  (scheduled /\ ~(local \subseteq fetched)) =>
    pending \/ (worker.pc = "calling" /\ stage = "schedule")

(* A shutdown that waited for its threads leaves no write of a finished    *)
(* commit behind, unless the last push was refused and health says so; nor *)
(* an uncommitted one, unless its commit failed or it came too late        *)
(* (vault.py:1088-1122, strategy.py:1735-1744).                            *)
ShutdownLeavesNothingUnsaid ==
  (shut = "done" /\ late = {}) =>
    /\ local \cap Write \subseteq remote \/ "push" \in health
    /\ \A w \in dirty : w \in failed \/ fate[w] = "refused"

(* The two locks, the drain and the worker never wait for each other: a    *)
(* pull that has paused writes gives them back, and needs no timeout to do *)
(* so (DEADLOCK INVARIANT, strategy.py:1605-1611).                         *)
PausesEnd == (fileLock # None) ~> (fileLock = None \/ "died" \in late)

(* A write that was accepted reaches origin: the dispatcher hands it over, *)
(* it is committed, and a push that was refused or failed is tried again   *)
(* by a later tick; unless a commit failed, which leaves a tree too dirty  *)
(* to rebase, or the server shuts down (push_scheduler.py:156-165,         *)
(* strategy.py:1699-1705).                                                 *)
WritesReachOrigin ==
  ~(Accepted \subseteq remote) ~> (Accepted \subseteq remote \/ shut # "open" \/ Trouble)

(* What the strategy's docstring promises of a start: commits an earlier   *)
(* run left behind are pushed immediately.  The first tick of the loop     *)
(* passes over them: only the first write looks.                           *)
StartPushesLeftovers ==
  [][(TickPushes /\ faults' = 0) => Leftover \subseteq remote']_syncVars

=============================================================================
