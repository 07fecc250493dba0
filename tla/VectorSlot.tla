------------------------------- MODULE VectorSlot -------------------------------
(***************************************************************************)
(* The vault's one vector store (managers/_vector_slot.py): opened on      *)
(* first use by whichever thread needs it, rebuilt by the writer thread    *)
(* when it is corrupt, of another model, or found damaged by a read, its   *)
(* damaged files moved aside and never written over, while another process *)
(* may take the writer lock whenever this one gives its last share back    *)
(* (stores/_writer_lock.py, stores/_quarantine.py, managers/search.py,     *)
(* managers/embeddings.py).                                                *)
(*                                                                         *)
(* The backend is the built-in SQLite one, and the slot owns its files.    *)
(* What matters of the files is whether they can be opened and read and    *)
(* whose model they hold; of the provider, that it may fail.               *)
(***************************************************************************)
EXTENDS Naturals, FiniteSets

CONSTANTS
  Reader,     \* threads that search
  Writer,     \* the writer thread
  MaxStores,  \* how many store objects may be referred to at a time
  MaxJobs,    \* bound on the flushes and forced builds
  MaxMishaps, \* bound on damage, refused renames, failing builds, other processes
  Late,       \* whether a store may also stop opening at run time, or be recovered
              \* by another process
  None

Thread == Reader \cup {Writer}
Store == 1..MaxStores
File == {"none", "fine", "other", "damaged", "corrupt"}
Damaged == {"damaged", "corrupt"}

ASSUME StoresAreCounted == MaxStores \in Nat
ASSUME LateIsBoolean == Late \in BOOLEAN
ASSUME WriterIsNoReader == Writer \notin Reader
ASSUME NoneIsNoThread == None \notin Thread /\ None \notin Store

VARIABLES
  files,        \* what is at the location
  kind,         \* the store objects: open as sized, unsized or fresh, or closed
  installed,    \* _store
  provisional,  \* _provisional
  suspect,      \* _suspect
  identity,     \* whether _identity is computed, and with it the dimension
  slotLock,     \* _lock, where it is held over more than one step
  recovery,     \* _recovery
  share,        \* who holds a share of the writer lock over a swap
  other,        \* whether another process has the writer lock
  closed,       \* what of the vault is closed: no, writer, slot
  at,           \* where each thread is
  reads,        \* the store a search has begun to read
  asked,        \* readers whose rebuild is queued
  job,          \* what the writer runs, and for whom
  jobs,         \* how many flushes and forced builds there have been
  mishaps,      \* how many mishaps
  aside,        \* history: what files were when they were moved aside
  emptied,      \* history: what files were when a generation replaced them in place
  unseen        \* history: what was last damaged was so after verify had passed it

stores == <<kind, installed, provisional, suspect>>
slot == <<stores, identity>>
locks == <<slotLock, recovery, share>>
outside == <<other, closed, jobs, mishaps>>
history == <<aside, emptied, unseen>>
slotVars == <<files, slot, locks, outside, at, reads, asked, job, history>>

Open(s) == kind[s] # "closed"
Mishap == mishaps < MaxMishaps /\ mishaps' = mishaps + 1

(* How many shares of the writer lock this process has, one per open store *)
(* and one over a swap.                                                    *)
Shares == Cardinality({s \in Store : Open(s)}) + (IF share = None THEN 0 ELSE 1)

(* Closed objects nobody refers to are collected, and stand for new ones.  *)
Free == {s \in Store : ~Open(s) /\ s # suspect /\ \A r \in Reader : reads[r] # s}
New == CHOOSE s \in Free : TRUE

SlotTypeOK ==
  /\ files \in File
  /\ kind \in [Store -> {"sized", "unsized", "fresh", "closed"}]
  /\ {installed, provisional, suspect} \subseteq Store \cup {None}
  /\ {slotLock, recovery, share} \subseteq Thread \cup {None}
  /\ identity \in BOOLEAN /\ other \in BOOLEAN /\ unseen \in BOOLEAN
  /\ closed \in {"no", "writer", "slot"}
  /\ at \in [Thread -> {"rest", "load", "read", "mark", "again", "recover", "reopen", "move", "ask",
                        "wait", "answered", "suspect", "condemn", "get", "build", "target",
                        "verify", "aside", "fresh", "open", "publish"}]
  /\ reads \in [Reader -> Store \cup {None}]
  /\ asked \subseteq Reader
  /\ job \in [what : {"none", "fault", "flush", "force"}, whose : Reader \cup {None}]
  /\ aside \subseteq File /\ emptied \subseteq File

Idle == [what |-> "none", whose |-> None]

SlotInit ==
  /\ files \in File
  /\ kind = [s \in Store |-> "closed"]
  /\ installed = None /\ provisional = None /\ suspect = None /\ identity = FALSE
  /\ slotLock = None /\ recovery = None /\ share = None /\ other = FALSE
  /\ closed = "no"
  /\ at = [t \in Thread |-> "rest"] /\ reads = [r \in Reader |-> None]
  /\ asked = {} /\ job = Idle /\ jobs = 0 /\ mishaps = 0
  /\ aside = {} /\ emptied = {} /\ unseen = FALSE

-----------------------------------------------------------------------------
Goes(t, place) == at' = [at EXCEPT ![t] = place]

(* _open, under _lock: the store there is, or a new one.  With nothing     *)
(* stored, and the provider not asked yet, its dimension is not known, and *)
(* it is only provisional.                                                 *)
Opens(s) ==
  /\ slotLock = None /\ closed # "slot" /\ s # None
  /\ \/ s = installed /\ UNCHANGED stores
     \/ installed = None /\ s = provisional /\ UNCHANGED stores
     \/ /\ installed = None /\ provisional = None /\ ~other
        /\ Free # {} /\ s = New
        /\ \/ /\ files = "none" /\ ~identity /\ kind' = [kind EXCEPT ![s] = "unsized"]
              /\ provisional' = s /\ UNCHANGED <<installed, suspect>>
           \/ /\ files \in {"fine", "damaged"} \/ (files = "none" /\ identity)
              /\ kind' = [kind EXCEPT ![s] = "sized"]
              /\ installed' = s /\ UNCHANGED <<provisional, suspect>>

(* Or it raises, and why.                                                  *)
OpenFails(why) ==
  /\ slotLock = None /\ UNCHANGED stores
  /\ \/ why = "closed" /\ closed = "slot"
     \/ /\ closed # "slot" /\ installed = None /\ provisional = None
        /\ \/ why = "busy" /\ other
           \/ why = "corrupt" /\ ~other /\ files = "corrupt"
           \/ why = "incompatible" /\ ~other /\ files = "other"

(* quarantine, under a share of the writer lock: every file is renamed,    *)
(* or, refused, none is.                                                   *)
MovesAside(what) ==
  /\ ~other
  /\ aside' = aside \cup (what \ {"none"}) /\ files' = "none"
  /\ UNCHANGED <<emptied, unseen, mishaps>>

MoveRefused ==
  /\ \/ other /\ UNCHANGED mishaps
     \/ ~other /\ files # "none" /\ Mishap
  /\ UNCHANGED <<files, history>>

-----------------------------------------------------------------------------
(* A search begins.                                                        *)
Search(r) ==
  /\ at[r] = "rest" /\ Goes(r, "load")
  /\ UNCHANGED <<files, slot, locks, outside, reads, asked, job, history>>

(* A search is over, with rows or with an error.                           *)
Over(r) == Goes(r, "rest") /\ reads' = [reads EXCEPT ![r] = None]

(* The store a search may read.  One that has lost its first store reads   *)
(* it and is over.                                                         *)
Gets(r, s) ==
  IF reads[r] = None THEN Goes(r, "read") /\ reads' = [reads EXCEPT ![r] = s] ELSE Over(r)

(* _load_vectors, the first time and once more after a closed store.       *)
Load(r) ==
  /\ at[r] \in {"load", "again"}
  /\ \/ \E s \in Store : Opens(s) /\ Gets(r, s)
     \/ OpenFails("corrupt") /\ Goes(r, "recover") /\ UNCHANGED reads
     \/ OpenFails("incompatible") /\ Goes(r, "ask") /\ UNCHANGED reads
     \/ (OpenFails("busy") \/ OpenFails("closed")) /\ Over(r)
  /\ UNCHANGED <<files, identity, locks, outside, asked, job, history>>

(* The read: over, on a closed store, or on a damaged one.                 *)
Read(r) ==
  /\ at[r] = "read"
  /\ \/ Open(reads[r]) /\ Over(r)
     \/ ~Open(reads[r]) /\ Goes(r, "again") /\ UNCHANGED reads
     \/ kind[reads[r]] = "sized" /\ files \in Damaged /\ Goes(r, "mark") /\ UNCHANGED reads
  /\ UNCHANGED <<files, slot, locks, outside, asked, job, history>>

(* rebuilt_after_read marks the damaged store, unless it has been replaced *)
(* meanwhile.                                                              *)
MarkSuspect(r) ==
  /\ at[r] = "mark" /\ slotLock = None
  /\ IF installed = reads[r] THEN suspect' = reads[r] /\ Goes(r, "ask") /\ UNCHANGED reads
                             ELSE UNCHANGED suspect /\ Over(r)
  /\ UNCHANGED <<files, kind, installed, provisional, identity>>
  /\ UNCHANGED <<locks, outside, asked, job, history>>

(* rebuild_embeddings: a job for the writer thread, and the wait for it.   *)
Ask(r) ==
  /\ at[r] = "ask"
  /\ IF closed = "no" THEN asked' = asked \cup {r} /\ Goes(r, "wait") /\ UNCHANGED reads
                      ELSE UNCHANGED asked /\ Over(r)
  /\ UNCHANGED <<files, slot, locks, outside, job, history>>

(* It came back, and there must be a store.                                *)
Answered(r) ==
  /\ at[r] = "answered"
  /\ IF installed = None THEN Over(r) ELSE Gets(r, installed)
  /\ UNCHANGED <<files, slot, locks, outside, asked, job, history>>

-----------------------------------------------------------------------------
(* What a thread does after _recover_corrupt has nothing for it, or has    *)
(* the store s.                                                            *)
Ends(ok) ==
  /\ job' = Idle
  /\ at' = [t \in Thread |-> IF t = Writer THEN "rest"
                             ELSE IF t = job.whose THEN IF ok THEN "answered" ELSE "rest"
                             ELSE at[t]]
  /\ reads' = [r \in Reader |-> IF r = job.whose /\ ~ok THEN None ELSE reads[r]]

Rebuilds(t) ==
  IF t \in Reader THEN Goes(t, "ask") /\ UNCHANGED <<reads, job>>
  ELSE /\ Goes(t, IF job.what = "force" THEN "fresh" ELSE "suspect")
       /\ UNCHANGED <<reads, job>>

Recovered(t, s) ==
  IF t \in Reader THEN Gets(t, s) /\ UNCHANGED job
  ELSE Goes(t, IF job.what = "force" THEN "target" ELSE "build") /\ UNCHANGED <<reads, job>>

Fails(t) == IF t \in Reader THEN Over(t) /\ UNCHANGED job ELSE Ends(FALSE)

Recover(t) ==
  /\ at[t] = "recover" /\ recovery = None
  /\ recovery' = t /\ Goes(t, "reopen")
  /\ UNCHANGED <<files, slot, slotLock, share, outside, reads, asked, job, history>>

(* A slip: what was seen before the lock is believed.                      *)
ReopenNothing(t) ==
  /\ at[t] = "reopen" /\ slotLock = None /\ Goes(t, "move")
  /\ UNCHANGED <<files, slot, locks, outside, reads, asked, job, history>>

(* Under the recovery lock the store is opened again.                      *)
Reopen(t) ==
  /\ at[t] = "reopen"
  /\ \/ OpenFails("corrupt") /\ Goes(t, "move") /\ UNCHANGED <<recovery, reads, job>>
     \/ /\ recovery' = None
        /\ \/ \E s \in Store : Opens(s) /\ Recovered(t, s)
           \/ OpenFails("incompatible") /\ Rebuilds(t)
           \/ (OpenFails("busy") \/ OpenFails("closed")) /\ Fails(t)
  /\ UNCHANGED <<files, identity, slotLock, share, outside, asked, history>>

(* A slip: the lock is given back only where the rename succeeded.         *)
MoveKeepingLock(t) ==
  /\ at[t] = "move"
  /\ \/ MovesAside({files}) /\ Rebuilds(t) /\ recovery' = None
     \/ MoveRefused /\ Fails(t) /\ UNCHANGED recovery
  /\ UNCHANGED <<slot, slotLock, share, other, closed, jobs, asked>>

Move(t) ==
  /\ at[t] = "move" /\ recovery' = None
  /\ \/ MovesAside({files}) /\ Rebuilds(t)
     \/ MoveRefused /\ Fails(t)
  /\ UNCHANGED <<slot, slotLock, share, other, closed, jobs, asked>>

-----------------------------------------------------------------------------
(* The writer takes a rebuild that a search asked for, a flush, a build.   *)
TakeJob ==
  /\ at[Writer] = "rest"
  /\ \/ \E r \in asked : /\ asked' = asked \ {r} /\ UNCHANGED jobs
                         /\ job' = [what |-> "fault", whose |-> r] /\ Goes(Writer, "suspect")
     \/ /\ closed = "no" /\ jobs < MaxJobs /\ jobs' = jobs + 1 /\ UNCHANGED asked
        /\ \/ job' = [what |-> "flush", whose |-> None] /\ Goes(Writer, "build")
           \/ job' = [what |-> "force", whose |-> None] /\ Goes(Writer, "target")
  /\ UNCHANGED <<files, slot, locks, other, closed, mishaps, reads, history>>

(* condemn, up to the close of the store: both locks, and a share of the   *)
(* writer lock, are kept to the end of the rename.                         *)
Condemns(s) ==
  /\ recovery = None /\ slotLock = None
  /\ recovery' = Writer /\ slotLock' = Writer /\ share' = Writer
  /\ kind' = [kind EXCEPT ![s] = "closed"]
  /\ installed' = None /\ suspect' = IF suspect = s THEN None ELSE suspect
  /\ Goes(Writer, "aside") /\ UNCHANGED <<provisional, identity>>

(* rebuild_after_fault begins with condemn_suspect, which takes the        *)
(* suspect and gives the lock back,                                        *)
CondemnSuspect ==
  /\ at[Writer] = "suspect" /\ slotLock = None
  /\ suspect' = None
  /\ Goes(Writer, IF suspect # None /\ suspect = installed THEN "condemn" ELSE "get")
  /\ UNCHANGED <<files, kind, installed, provisional, identity>>
  /\ UNCHANGED <<locks, outside, reads, asked, job, history>>

(* and then condemns it.                                                   *)
Condemn ==
  /\ at[Writer] = "condemn" /\ Condemns(installed)
  /\ UNCHANGED <<files, outside, reads, asked, job, history>>

CondemnMoves ==
  /\ at[Writer] = "aside"
  /\ slotLock' = None /\ recovery' = None /\ share' = None
  /\ \/ /\ MovesAside(IF unseen THEN {} ELSE {files}) /\ UNCHANGED <<reads, job>>
        /\ Goes(Writer, IF job.what = "force" THEN "fresh" ELSE "get")
     \/ MoveRefused /\ Ends(FALSE)
  /\ UNCHANGED <<slot, other, closed, jobs, asked>>

(* Then it opens the store to tell what is wrong: another model's makes it *)
(* a forced build, and one that is still corrupt ends it.                  *)
Get ==
  /\ at[Writer] = "get"
  /\ \/ \E s \in Store :
          /\ Opens(s) /\ Goes(Writer, "build") /\ UNCHANGED <<reads, job>>
          /\ identity' = IF kind'[s] = "sized" /\ files # "none" THEN TRUE ELSE identity
     \/ /\ OpenFails("incompatible") /\ Goes(Writer, "target") /\ UNCHANGED <<reads, identity>>
        /\ job' = [job EXCEPT !.what = "force"]
     \/ /\ \E why \in {"corrupt", "busy", "closed"} : OpenFails(why)
        /\ Ends(FALSE) /\ UNCHANGED identity
  /\ UNCHANGED <<files, locks, outside, asked, history>>

(* writable, which asks the provider for its dimension, and what is        *)
(* written: a populated store converges, an unsized one is replaced by a   *)
(* fresh one, an empty one is written.                                     *)
Build ==
  /\ at[Writer] = "build"
  /\ \/ \E s \in Store :
          /\ Opens(s) /\ identity' = TRUE
          /\ \/ kind'[s] = "sized" /\ files # "none" /\ \E ok \in BOOLEAN : Ends(ok)
             \/ kind'[s] = "unsized" /\ Goes(Writer, "fresh") /\ UNCHANGED <<reads, job>>
             \/ /\ kind'[s] = "fresh" \/ (kind'[s] = "sized" /\ files = "none")
                /\ Goes(Writer, "publish") /\ UNCHANGED <<reads, job>>
     \/ OpenFails("corrupt") /\ Goes(Writer, "recover") /\ UNCHANGED <<reads, job, identity>>
     \/ OpenFails("incompatible") /\ Goes(Writer, "suspect") /\ UNCHANGED <<reads, job, identity>>
     \/ (OpenFails("busy") \/ OpenFails("closed")) /\ Ends(FALSE) /\ UNCHANGED identity
  /\ UNCHANGED <<files, locks, outside, asked, history>>

(* rebuild_target of a forced build.                                       *)
Target ==
  /\ at[Writer] = "target"
  /\ \/ \E s \in Store :
          /\ Opens(s) /\ UNCHANGED <<reads, job>>
          /\ IF kind'[s] = "unsized" THEN Goes(Writer, "fresh") /\ UNCHANGED identity
                                     ELSE Goes(Writer, "verify") /\ identity' = TRUE
     \/ OpenFails("corrupt") /\ Goes(Writer, "recover") /\ UNCHANGED <<reads, job, identity>>
     \/ OpenFails("incompatible") /\ Goes(Writer, "fresh") /\ UNCHANGED <<reads, job, identity>>
     \/ (OpenFails("busy") \/ OpenFails("closed")) /\ Ends(FALSE) /\ UNCHANGED identity
  /\ UNCHANGED <<files, locks, outside, asked, history>>

(* verify reads the files of a store that has some.                        *)
Verify ==
  /\ at[Writer] = "verify"
  /\ IF kind[installed] = "sized" /\ files \in Damaged
     THEN Condemns(installed)
     ELSE Goes(Writer, "publish") /\ UNCHANGED <<slot, locks>>
  /\ UNCHANGED <<files, outside, reads, asked, job, history>>

(* What fresh and close close.  A slip: not the provisional store.         *)
DiscardedInstalled == {installed}

Discarded == {installed, provisional}

(* fresh, up to the close of what it replaces.                             *)
FreshCloses ==
  /\ at[Writer] = "fresh" /\ slotLock = None
  /\ IF closed = "slot" \/ other
     THEN Ends(FALSE) /\ UNCHANGED <<slot, locks>>
     ELSE /\ slotLock' = Writer /\ share' = Writer
          /\ kind' = [s \in Store |-> IF s \in Discarded THEN "closed" ELSE kind[s]]
          /\ installed' = None /\ provisional' = None
          /\ Goes(Writer, "open") /\ UNCHANGED <<suspect, identity, recovery, reads, job>>
  /\ UNCHANGED <<files, outside, asked, history>>

FreshOpens ==
  /\ at[Writer] = "open" /\ Free # {}
  /\ kind' = [kind EXCEPT ![New] = "fresh"] /\ installed' = New /\ identity' = TRUE
  /\ slotLock' = None /\ share' = None /\ unseen' = FALSE
  /\ Goes(Writer, "publish")
  /\ UNCHANGED <<files, provisional, suspect, recovery, outside, reads, asked, job, aside, emptied>>

(* The provider, asked for its dimension, may fail there.                  *)
FreshFails ==
  /\ at[Writer] = "open" /\ Mishap /\ Ends(FALSE)
  /\ slotLock' = None /\ share' = None
  /\ UNCHANGED <<files, slot, recovery, other, closed, jobs, asked, history>>

(* The first write of a fresh store moves files aside that are damaged, as *)
(* far as quick_check can tell.                                            *)
Replaces == kind[installed] = "fresh" /\ files \in Damaged

(* publish_generation: others are emptied in place, which may mend them.   *)
Publish ==
  /\ at[Writer] = "publish" /\ Ends(TRUE)
  /\ kind' = [kind EXCEPT ![installed] = "sized"]
  /\ \/ /\ Replaces /\ aside' = aside \cup {files} /\ files' = "fine"
        /\ UNCHANGED emptied
     \/ /\ emptied' = emptied \cup ((IF unseen \/ Replaces THEN {"fine"} ELSE {files}) \ {"none"})
        /\ files' = "fine" \/ (~Replaces /\ files \in Damaged /\ files' = files)
        /\ UNCHANGED aside
  /\ UNCHANGED <<installed, provisional, suspect, identity, locks, outside, asked, unseen>>

(* The provider fails, or the write does, at the latest on pages that are  *)
(* damaged: nothing is published, though files may have been moved aside.  *)
PublishFails ==
  /\ at[Writer] = "publish" /\ \E ok \in BOOLEAN : Ends(ok)
  /\ Mishap \/ (files \in Damaged /\ UNCHANGED mishaps)
  /\ \/ UNCHANGED <<files, aside>>
     \/ Replaces /\ aside' = aside \cup {files} /\ files' = "none"
  /\ UNCHANGED <<slot, locks, other, closed, jobs, asked, emptied, unseen>>

-----------------------------------------------------------------------------
(* Pages are damaged on the disk; if Late, perhaps those without which the *)
(* file does not open.                                                     *)
Damage ==
  /\ files \in {"fine", "other"} /\ Mishap
  /\ files' \in IF Late THEN Damaged ELSE {"damaged"}
  /\ unseen' = (at[Writer] = "publish")
  /\ UNCHANGED <<slot, locks, other, closed, jobs, at, reads, asked, job, aside, emptied>>

(* Another process takes the writer lock, once nobody here has a share,    *)
(* builds a store of one model or another, if Late in place of a corrupt   *)
(* one it moved aside, and leaves.                                         *)
OtherTakes ==
  /\ ~other /\ Shares = 0 /\ Mishap /\ other' = TRUE
  /\ UNCHANGED <<files, slot, locks, closed, jobs, at, reads, asked, job, history>>

OtherWrites ==
  /\ other /\ (files \notin Damaged \/ Late) /\ files' \in {"fine", "other"}
  /\ UNCHANGED <<slot, locks, outside, at, reads, asked, job, history>>

OtherLeaves ==
  /\ other /\ other' = FALSE
  /\ UNCHANGED <<files, slot, locks, closed, jobs, mishaps, at, reads, asked, job, history>>

(* Vault.close: the writer comes to an end, its queue drained; then the    *)
(* slot closes what it holds.                                              *)
CloseWriter ==
  /\ closed = "no" /\ closed' = "writer"
  /\ UNCHANGED <<files, slot, locks, other, jobs, mishaps, at, reads, asked, job, history>>

CloseSlot ==
  /\ closed = "writer" /\ at[Writer] = "rest" /\ asked = {} /\ slotLock = None
  /\ closed' = "slot"
  /\ kind' = [s \in Store |-> IF s \in Discarded THEN "closed" ELSE kind[s]]
  /\ installed' = None /\ provisional' = None
  /\ UNCHANGED <<files, suspect, identity, locks, other, jobs, mishaps>>
  /\ UNCHANGED <<at, reads, asked, job, history>>

-----------------------------------------------------------------------------
SearchSteps(r) == Load(r) \/ Read(r) \/ MarkSuspect(r) \/ Ask(r) \/ Answered(r)
RecoverySteps(t) == Recover(t) \/ Reopen(t) \/ Move(t)
WriterSteps == CondemnSuspect \/ Condemn \/ CondemnMoves \/ Get \/ Build \/ Target \/ Verify
               \/ FreshCloses \/ FreshOpens \/ Publish

SlotNext ==
  \/ \E r \in Reader : Search(r) \/ SearchSteps(r)
  \/ \E t \in Thread : RecoverySteps(t)
  \/ TakeJob \/ WriterSteps \/ FreshFails \/ PublishFails
  \/ Damage \/ OtherTakes \/ OtherWrites \/ OtherLeaves
  \/ CloseWriter \/ CloseSlot

SlotSpec == SlotInit /\ [][SlotNext]_slotVars

(* Threads that have begun go on, and the writer takes what is queued.     *)
SlotFairness ==
  /\ \A r \in Reader : WF_slotVars(SearchSteps(r)) /\ SF_slotVars(RecoverySteps(r))
  /\ WF_slotVars(WriterSteps) /\ SF_slotVars(RecoverySteps(Writer))
  /\ WF_slotVars(TakeJob)

FairSlotSpec == SlotSpec /\ SlotFairness

-----------------------------------------------------------------------------
(* Files are moved aside only when they are damaged, and damaged files are *)
(* never replaced in place: a thread that met a corrupt store does not     *)
(* rename what another left meanwhile, and a rebuild never writes over     *)
(* what an operator may want back (_vector_slot.py:9-15, 278-281,          *)
(* 700-702; _quarantine.py:1-9).  It holds only where Late is FALSE: of a  *)
(* store that stops opening while the program runs, a recovery can rename  *)
(* files that another process has put there since (MCVectorSlotLate.cfg).  *)
(* Left out is damage after the last look at the pages, before the         *)
(* generation is written, with the store a search marked for it that the   *)
(* generation has mended, and what is wrong with rows only, which the look *)
(* of a fresh store does not see (sqlite_vectors.py:547-564, 1150-1156).   *)
OnlyDamageMovesAside == aside \subseteq Damaged /\ emptied \cap Damaged = {}

(* The slot closes every store it opens and stops using, so that once it   *)
(* is closed no share of the writer lock is left; and no other process     *)
(* ever writes while a store is open here or being swapped                 *)
(* (_vector_slot.py:24-27, 502-503; _writer_lock.py:3-18).                 *)
StoresAreClosed ==
  /\ SlotTypeOK
  /\ \A s \in Store : Open(s) => s \in {installed, provisional}
  /\ (closed = "slot" \/ other) => Shares = 0

(* Every search comes back, with rows or an error: the locks of the slot   *)
(* are never held across a rebuild, which may wait for the writer thread   *)
(* that meets the same store (_vector_slot.py:112, 280-281).               *)
SearchesReturn == \A r \in Reader : at[r] # "rest" ~> at[r] = "rest"

=============================================================================
