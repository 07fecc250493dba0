----------------------------- MODULE HeadReconciler -----------------------------
(***************************************************************************)
(* Keeping the index at the git HEAD (indexing/head_reconciler.py): the    *)
(* startup of the server (domain.py _serve), the pull loop, webhook        *)
(* deliveries and git_sync, which pull and then reconcile, the server's    *)
(* own commits, and the reindex jobs of the writer thread.                 *)
(*                                                                         *)
(* HEADs are numbered in the order they come to be; what a HEAD holds is   *)
(* the set of external changes below it.  The index holds a set of them    *)
(* too: what scans have found, in part or in full (Reindex has the scan).  *)
(* The keyword rows of the server's own writes come by the dirty paths     *)
(* (IndexPipeline) and are not counted here.                               *)
(***************************************************************************)
EXTENDS Naturals, Sequences, SequencesExt

CONSTANTS
  Ext,        \* changes of other clones
  Loop,       \* the thread of the pull loop
  Guest,      \* webhook deliveries and git_sync calls, each a pull and a reconcile
  Start,      \* the startup; its job is the boot reindex
  Build,      \* the job of the initial build
  Nothing,
  MaxHeads,   \* bound on how often HEAD moves
  MaxBadScans   \* bound on failing, and on partial, scans

Caller == {Loop} \cup Guest
Puller == Caller \cup {Start}
ScanJob == Caller \cup {Start, Build}

ASSUME JobsDiffer == /\ Build \notin Puller /\ Start \notin Caller /\ Loop \notin Guest
                     /\ Nothing \notin ScanJob
ASSUME BoundsAreCounted == MaxHeads \in Nat \ {0} /\ MaxBadScans \in Nat

VARIABLES
  heads,     \* what each HEAD so far holds; the last is the current one
  remote,    \* the changes on origin
  noting,    \* the current HEAD is a commit about to be reported, under the lock
  indexed,   \* the changes whose files a scan has seen
  built,     \* readiness: the index may be used
  queue,     \* the jobs of the writer, the head one running once scanned
  scan,      \* what was on disk when the running job began, or Nothing
  record,    \* _indexed_head
  pending,   \* whether _pending is set: the boot reindex has been adopted
  at,        \* where each caller is, in its pull and its reconcile
  seen,      \* the head a reconcile has read
  fileLock,  \* _file_write_lock
  runLock,   \* _run_lock
  boot,      \* where the startup is
  bootHead,  \* head_at_boot, until it is recorded or dropped
  setting,   \* index was busy, pull loop on
  badScans,  \* scans that failed or were partial
  missed,    \* history: changes a scan that returned had not seen
  accepted,  \* history: changes taken as indexed with boot_reindex off
  deferred   \* history: changes left to a boot reindex that was still queued
             \* when a reconcile deferred to it, and to one already running

gitSide == <<heads, remote, noting>>
indexSide == <<indexed, built, queue, scan>>
recorder == <<record, pending>>
callers == <<at, seen, fileLock, runLock>>
startup == <<boot, bootHead, setting>>
headHistory == <<badScans, missed, accepted, deferred>>
headVars == <<gitSide, indexSide, recorder, callers, startup, headHistory>>

HEAD == Len(heads)
OnDisk == heads[HEAD]
Queued(j) == j \in ToSet(queue)

HeadTypeOK ==
  /\ heads \in Seq(SUBSET Ext) /\ HEAD \in 1..MaxHeads
  /\ remote \subseteq Ext /\ indexed \subseteq Ext /\ noting \in BOOLEAN
  /\ built \in BOOLEAN
  /\ queue \in Seq(ScanJob) /\ IsInjective(queue)
  /\ scan \in (SUBSET Ext) \cup {Nothing} /\ (scan # Nothing => queue # << >>)
  /\ record \in 0..HEAD /\ bootHead \in 0..HEAD
  /\ pending \in BOOLEAN
  /\ at \in [Puller -> {"rest", "check", "read", "compare", "lock", "pause", "wait", "ok",
                        "error", "record", "gone"}]
  /\ seen \in [Caller -> 0..HEAD]
  /\ fileLock \in Caller \cup {Nothing} /\ runLock \in Caller \cup {Nothing}
  /\ boot \in {"sync", "build", "head", "submit", "adopt", "ready", "started"}
  /\ setting \in [{"busy", "loop"} -> BOOLEAN]
  /\ badScans \in 0..MaxBadScans
  /\ missed \subseteq Ext /\ accepted \subseteq Ext
  /\ deferred \in [{"queued", "running"} -> SUBSET Ext]

(* The index an earlier run has left may lack what came since.  0 stands   *)
(* for a HEAD that is not recorded or cannot be read.                      *)
HeadInit ==
  /\ setting \in [{"busy", "loop"} -> BOOLEAN]
  /\ \E old \in SUBSET Ext : heads = <<old>> /\ remote = old /\ noting = FALSE
  /\ indexed \in SUBSET remote
  /\ built = FALSE /\ queue = << >> /\ scan = Nothing
  /\ record = 0 /\ pending = FALSE
  /\ at = [p \in Puller |-> "rest"] /\ seen = [c \in Caller |-> 0]
  /\ fileLock = Nothing /\ runLock = Nothing
  /\ boot = "sync" /\ bootHead = 0
  /\ badScans = 0 /\ missed = {} /\ accepted = {}
  /\ deferred = [k \in {"queued", "running"} |-> {}]

-----------------------------------------------------------------------------
(* Another clone pushes.                                                   *)
OthersPush ==
  /\ \E e \in Ext \ remote : remote' = remote \cup {e}
  /\ UNCHANGED <<heads, noting, indexSide, recorder, callers, startup, headHistory>>

(* Requests are served; a server that waited for a busy index serves them  *)
(* while it starts.                                                        *)
Serving == setting["busy"] \/ boot \in {"ready", "started"}

(* The server commits its own writes, under the strategy lock, and reports *)
(* the commit before it lets go, unless one of the two HEADs cannot be     *)
(* read (_observed_commit).                                                *)
OwnCommit ==
  /\ Serving /\ HEAD < MaxHeads /\ ~noting
  /\ heads' = Append(heads, OnDisk)
  /\ noting' \in BOOLEAN
  /\ UNCHANGED <<remote, indexSide, recorder, callers, startup, headHistory>>

(* A slip: the record follows every commit.                                *)
NoteAnyCommit(parent, new) == record' = IF record # 0 THEN new ELSE record

(* note_own_commit.                                                        *)
NoteOwnCommit(parent, new) == record' = IF record # 0 /\ record = parent THEN new ELSE record

ReportCommit ==
  /\ noting /\ noting' = FALSE
  /\ NoteOwnCommit(HEAD - 1, HEAD)
  /\ UNCHANGED <<heads, remote, indexSide, pending, callers, startup, headHistory>>

(* Who may pull: the startup in its own place, the loop once started,      *)
(* guests once requests are served.                                        *)
MayPull(p) ==
  \/ p = Start /\ boot = "sync"
  \/ p = Loop /\ setting["loop"] /\ boot = "started"
  \/ p \in Guest /\ Serving

(* A slip: the reindex hangs on the pull that moved HEAD.                  *)
AfterPullMoved(p) ==
  at' = [at EXCEPT ![p] = IF p = Start \/ heads' = heads THEN @ ELSE "check"]

(* Every settled pull reconciles, applied or not; the startup's does not.  *)
AfterPull(p) == at' = [at EXCEPT ![p] = IF p = Start THEN @ ELSE "check"]

(* A pull, with writes paused from its begin to its end (GitSync), and the *)
(* strategy lock taken.  HEAD moves when there is something to pull and it *)
(* applies.                                                                *)
Pull(p) ==
  /\ at[p] = "rest" /\ MayPull(p) /\ fileLock = Nothing /\ ~noting
  /\ \/ /\ ~(remote \subseteq OnDisk) /\ HEAD < MaxHeads
        /\ heads' = Append(heads, OnDisk \cup remote)
     \/ UNCHANGED heads
  /\ AfterPull(p)
  /\ boot' = IF p = Start THEN "build" ELSE boot
  /\ UNCHANGED <<remote, noting, indexSide, recorder, seen, fileLock, runLock, bootHead,
                 setting, headHistory>>

-----------------------------------------------------------------------------
Goes(c, place) == at' = [at EXCEPT ![c] = place] /\ UNCHANGED seen
Leaves(c) == /\ at' = [at EXCEPT ![c] = IF c = Loop THEN "rest" ELSE "gone"]
             /\ seen' = [seen EXCEPT ![c] = 0]

(* reconcile, line by line.  A boot reindex still to come: "deferred".     *)
CheckPending(c) ==
  /\ at[c] = "check"
  /\ IF pending /\ Queued(Start)
       THEN /\ Leaves(c)
            /\ LET k == IF queue[1] = Start /\ scan # Nothing THEN "running" ELSE "queued"
               IN deferred' = [deferred EXCEPT ![k] = @ \cup OnDisk]
       ELSE Goes(c, "read") /\ UNCHANGED deferred
  /\ UNCHANGED <<gitSide, indexSide, recorder, fileLock, runLock, startup, badScans, missed,
                 accepted>>

(* HEAD is read, without a lock.  One that cannot be read is no reason to  *)
(* reindex.                                                                *)
ReadHead(c) ==
  /\ at[c] = "read"
  /\ \/ seen' = [seen EXCEPT ![c] = HEAD] /\ at' = [at EXCEPT ![c] = "compare"]
     \/ Leaves(c)
  /\ UNCHANGED <<gitSide, indexSide, recorder, fileLock, runLock, startup, headHistory>>

(* The first look at the record, without a lock either.                    *)
CompareHead(c) ==
  /\ at[c] = "compare"
  /\ IF seen[c] = record THEN Leaves(c) ELSE Goes(c, "lock")
  /\ UNCHANGED <<gitSide, indexSide, recorder, fileLock, runLock, startup, headHistory>>

(* _run_lock, and the second look at the record.                           *)
TakeRunLock(c) ==
  /\ at[c] = "lock" /\ runLock = Nothing
  /\ IF seen[c] = record THEN Leaves(c) /\ UNCHANGED runLock
                         ELSE Goes(c, "pause") /\ runLock' = c
  /\ UNCHANGED <<gitSide, indexSide, recorder, fileLock, startup, headHistory>>

(* Writes are paused; reindex is refused before the first build, or a job  *)
(* for the writer, which the caller waits for.                             *)
SubmitReindex(c) ==
  /\ at[c] = "pause" /\ fileLock = Nothing
  /\ IF built THEN /\ queue' = Append(queue, c) /\ Goes(c, "wait")
                   /\ fileLock' = c /\ UNCHANGED runLock
              ELSE /\ Leaves(c) /\ runLock' = Nothing
                   /\ UNCHANGED <<queue, fileLock>>
  /\ UNCHANGED <<gitSide, indexed, built, scan, recorder, startup, headHistory>>

(* The pause ends; one that raised has "failed" and records nothing.       *)
ReindexReturns(c) ==
  /\ at[c] \in {"ok", "error"}
  /\ fileLock' = Nothing
  /\ IF at[c] = "ok" THEN Goes(c, "record") /\ UNCHANGED runLock
                     ELSE Leaves(c) /\ runLock' = Nothing
  /\ UNCHANGED <<gitSide, indexSide, recorder, startup, headHistory>>

RecordHead(c) ==
  /\ at[c] = "record" /\ record' = seen[c]
  /\ runLock' = Nothing /\ Leaves(c)
  /\ UNCHANGED <<gitSide, indexSide, pending, fileLock, startup, headHistory>>

ReconcileStep(c) ==
  CheckPending(c) \/ ReadHead(c) \/ CompareHead(c) \/ TakeRunLock(c)
  \/ SubmitReindex(c) \/ ReindexReturns(c) \/ RecordHead(c)

-----------------------------------------------------------------------------
(* The startup.  Without a pull loop there is no sync before the build.    *)
SkipSync ==
  /\ boot = "sync" /\ at[Start] = "rest" /\ ~setting["loop"] /\ boot' = "build"
  /\ UNCHANGED <<gitSide, indexSide, recorder, callers, bootHead, setting, headHistory>>

(* build_index_async: a warm start takes the index as it is; a cold one    *)
(* finds nothing in it.                                                    *)
BuildAsync ==
  /\ boot = "build" /\ boot' = "head"
  /\ \/ built' = TRUE /\ UNCHANGED queue
     \/ indexed = {} /\ queue' = Append(queue, Build) /\ UNCHANGED built
  /\ UNCHANGED <<gitSide, indexed, scan, recorder, callers, bootHead, setting, headHistory>>

ReadBootHead ==
  /\ boot = "head" /\ boot' = "submit"
  /\ bootHead' \in {0, HEAD}
  /\ UNCHANGED <<gitSide, indexSide, recorder, callers, setting, headHistory>>

(* reindex_async, or mark_index_reconciled when it is switched off.        *)
SubmitBootReindex ==
  /\ boot = "submit" /\ boot' = "adopt"
  /\ queue' = Append(queue, Start)
  /\ UNCHANGED <<gitSide, indexed, built, scan, recorder, callers, bootHead, setting,
                 headHistory>>

MarkReconciled ==
  /\ boot = "submit" /\ boot' = "ready"
  /\ record' = bootHead /\ bootHead' = 0
  /\ accepted' = accepted \cup (IF bootHead = 0 THEN {} ELSE heads[bootHead])
  /\ UNCHANGED <<gitSide, indexSide, pending, callers, setting, badScans, missed, deferred>>

(* _finished, once the boot reindex has ended.                             *)
BootFinished == /\ record' = IF at[Start] = "ok" THEN bootHead ELSE record
                /\ bootHead' = 0

(* adopt_pending_reindex.  A callback added too late for the writer runs   *)
(* here.                                                                   *)
AdoptBootReindex ==
  /\ boot = "adopt" /\ boot' = "ready"
  /\ IF Queued(Start) THEN pending' = TRUE /\ UNCHANGED <<record, bootHead>>
                      ELSE BootFinished /\ UNCHANGED pending
  /\ UNCHANGED <<gitSide, indexSide, callers, setting, headHistory>>

(* vault.start, and the lifespan yields.                                   *)
StartLoop ==
  /\ boot = "ready" /\ boot' = "started"
  /\ UNCHANGED <<gitSide, indexSide, recorder, callers, bootHead, setting, headHistory>>

BootStep == SkipSync \/ BuildAsync \/ ReadBootHead \/ SubmitBootReindex \/ MarkReconciled
            \/ AdoptBootReindex \/ StartLoop

-----------------------------------------------------------------------------
(* The writer begins the first job: a scan sees what is on disk now, and   *)
(* perhaps some of what comes while it runs.                               *)
ScanBegins ==
  /\ queue # << >> /\ scan = Nothing /\ scan' = OnDisk
  /\ ~(pending /\ ~Queued(Start))
  /\ UNCHANGED <<gitSide, indexed, built, queue, recorder, callers, startup, headHistory>>

(* A job is over: what waits for it learns how it ended.                   *)
JobEnds(ok) ==
  LET j == queue[1]
  IN /\ queue' = Tail(queue) /\ scan' = Nothing
     /\ built' = (built \/ (j = Build /\ ok))
     /\ at' = IF j = Build THEN at ELSE [at EXCEPT ![j] = IF ok THEN "ok" ELSE "error"]
     /\ UNCHANGED <<gitSide, recorder, seen, fileLock, runLock, startup>>

ScanEnds ==
  /\ scan # Nothing
  /\ \E more \in SUBSET (OnDisk \ scan) : indexed' = indexed \cup scan \cup more
  /\ JobEnds(TRUE)
  /\ UNCHANGED headHistory

(* It returns although folders or notes could not be read: some of the     *)
(* changes wait for the scan after it.                                     *)
ScanMisses ==
  /\ scan # Nothing /\ badScans < MaxBadScans /\ badScans' = badScans + 1
  /\ \E e \in scan \ indexed : /\ indexed' = indexed \cup (scan \ {e})
                               /\ missed' = missed \cup {e}
  /\ JobEnds(TRUE)
  /\ UNCHANGED <<accepted, deferred>>

(* It raises, after some of its rows.                                      *)
ScanRaises ==
  /\ scan # Nothing /\ badScans < MaxBadScans /\ badScans' = badScans + 1
  /\ \E some \in SUBSET scan : indexed' = indexed \cup some
  /\ JobEnds(FALSE)
  /\ UNCHANGED <<missed, accepted, deferred>>

(* The callback of the boot reindex, before the writer's next job.         *)
BootCallback ==
  /\ pending /\ ~Queued(Start) /\ pending' = FALSE
  /\ BootFinished
  /\ UNCHANGED <<gitSide, indexSide, callers, boot, setting, headHistory>>

WriterStep == BootCallback \/ ScanBegins \/ ScanEnds \/ ScanMisses \/ ScanRaises

HeadNext ==
  \/ OthersPush \/ OwnCommit \/ ReportCommit
  \/ \E p \in Puller : Pull(p)
  \/ \E c \in Caller : ReconcileStep(c)
  \/ BootStep \/ WriterStep

HeadSpec == HeadInit /\ [][HeadNext]_headVars

(* The startup, the writer, a commit and every caller that has begun go    *)
(* on, the loop ticks for ever, and git can tell it the HEAD again and     *)
(* again.                                                                  *)
HeadFairness ==
  /\ WF_headVars(ReportCommit)
  /\ WF_headVars(BootStep \/ Pull(Start))
  /\ WF_headVars(BootCallback \/ ScanBegins \/ ScanEnds)
  /\ WF_headVars(\E c \in Caller : ReconcileStep(c) \/ (c = Loop /\ Pull(c)))
  /\ SF_headVars(ReadHead(Loop) /\ seen'[Loop] = HEAD)

FairHeadSpec == HeadSpec /\ HeadFairness

-----------------------------------------------------------------------------
(* What the record stands for is in the index: a server's own commit on    *)
(* top of an external one never hides it, nor does a pull in the middle of *)
(* a reindex, a reindex that raised, or a boot reindex that is overtaken.  *)
(* What a scan that returned had not read, and what a server with          *)
(* boot_reindex off accepted, is left out                                  *)
(* (head_reconciler.py:12-20, :104-109, :122-124).                         *)
RecordIsIndexed ==
  record # 0 => heads[record] \subseteq indexed \cup missed \cup accepted

(* A reconcile that defers to a boot reindex not yet begun loses nothing:  *)
(* once the writer has nothing left to do, the pulled changes are in the   *)
(* index, unless that scan failed (git.py:150-151, _webhooks.py:442-443).  *)
QueuedBootCovers ==
  (queue = << >> /\ at[Start] # "error") => deferred["queued"] \subseteq indexed \cup missed

(* Nobody takes for indexed what is not: not the record, and not a call    *)
(* that deferred (head_reconciler.py:12-20, git.py:150-151).               *)
NothingIsPassedOver == HeadTypeOK /\ RecordIsIndexed /\ QueuedBootCovers

(* What HEAD holds reaches the index in the end, whoever moved it and      *)
(* whatever reindex was lost on the way, as long as the loop ticks and the *)
(* build comes through (head_reconciler.py:10-15).                         *)
HeadReachesIndex ==
  (setting["loop"] /\ ~(OnDisk \subseteq indexed \cup missed \cup accepted)) ~>
     (OnDisk \subseteq indexed \cup missed \cup accepted \/ (~built /\ queue = << >>))

(* What git_sync makes of "deferred": the boot reindex covers the pulled   *)
(* tree.  Not when it was already running; and without a pull loop nothing *)
(* comes after it.                                                         *)
DeferredIsCovered ==
  (queue = << >> /\ badScans = 0 /\ ~setting["loop"]) => deferred["running"] \subseteq indexed

(* What the module says of its record: only a reindex that completed.  A   *)
(* scan that could not read a folder, or found it empty, counts as well.   *)
RecordNeedsFullScan == record # 0 => heads[record] \subseteq indexed \cup accepted

=============================================================================
