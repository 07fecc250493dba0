---------------------------- MODULE VectorSlotProofs ----------------------------
(***************************************************************************)
(* What holds of the vault's vector store for any number of searching      *)
(* threads, store objects, jobs and mishaps: every store that is open is   *)
(* the slot's, nothing is open once the slot is closed or while another    *)
(* process writes, and only damaged files are moved aside or kept from     *)
(* being replaced.                                                         *)
(***************************************************************************)
EXTENDS VectorSlot, FiniteSetTheorems, TLAPS

(* The types, by what they are about.                                      *)
SlotTyped ==
  /\ files \in File
  /\ kind \in [Store -> {"sized", "unsized", "fresh", "closed"}]
  /\ installed \in Store \cup {None} /\ provisional \in Store \cup {None}
  /\ suspect \in Store \cup {None}

LocksTyped ==
  /\ slotLock \in Thread \cup {None} /\ recovery \in Thread \cup {None}
  /\ share \in Thread \cup {None}

OutsideTyped ==
  /\ identity \in BOOLEAN /\ other \in BOOLEAN /\ unseen \in BOOLEAN
  /\ closed \in {"no", "writer", "slot"}
  /\ aside \subseteq File /\ emptied \subseteq File

Places == {"rest", "load", "read", "mark", "again", "recover", "reopen", "move", "ask",
           "wait", "answered", "suspect", "condemn", "get", "build", "target", "verify",
           "aside", "fresh", "open", "publish"}
ThreadsTyped ==
  /\ at \in [Thread -> Places]
  /\ reads \in [Reader -> Store \cup {None}]
  /\ asked \subseteq Reader
  /\ job \in [what : {"none", "fault", "flush", "force"}, whose : Reader \cup {None}]

(* The store that is installed is open, and so is the provisional one; the *)
(* slot has one of them at most, and no other store is open.               *)
OpenIsHeld ==
  /\ \A s \in Store : Open(s) => s \in {installed, provisional}
  /\ installed # None => kind[installed] \in {"sized", "fresh"} /\ provisional = None
  /\ provisional # None => kind[provisional] = "unsized"

(* Who has the locks.  Over a swap the writer thread has the lock of the   *)
(* slot and a share of the writer lock, and the slot is empty.             *)
Swaps == at[Writer] \in {"aside", "open"}
LocksInPlace ==
  /\ slotLock \in {None, Writer} /\ (slotLock = Writer <=> Swaps)
  /\ share \in {None, Writer} /\ (share = Writer <=> Swaps)
  /\ Swaps => installed = None /\ provisional = None
  /\ \A t \in Thread : at[t] \in {"reopen", "move"} => recovery = t
  /\ at[Writer] = "aside" => recovery = Writer
  /\ at[Writer] \in {"condemn", "verify", "publish"} => installed # None

(* Another process writes, or the slot is closed, over an empty slot.      *)
OutsideAlone ==
  /\ other \/ closed = "slot" => installed = None /\ provisional = None /\ ~Swaps
  /\ closed = "slot" => at[Writer] = "rest" /\ asked = {}

(* Files that do not open are found, not made: nothing has been opened     *)
(* over them, and who holds the recovery lock over them finds them there.  *)
CorruptIsFound ==
  /\ files = "corrupt" => installed = None /\ provisional = None
  /\ files = "corrupt" => at[Writer] \notin {"aside", "fresh", "open"}
  /\ \A t \in Thread : at[t] = "move" => files = "corrupt"

(* What is condemned is damaged, or was when it was marked and has been    *)
(* mended unseen: a new store is not taken for one that was marked.        *)
Condemnable == kind[installed] = "sized" /\ (files \in Damaged \/ unseen)
SuspectIsDamaged ==
  /\ at[Writer] = "aside" => files \in Damaged \/ unseen
  /\ at[Writer] = "condemn" => Condemnable
  /\ installed # None /\ suspect = installed => Condemnable
  /\ \A r \in Reader : installed # None /\ at[r] = "mark" /\ reads[r] = installed => Condemnable
  /\ at[Writer] = "publish" /\ kind[installed] = "sized" /\ files \in Damaged => unseen

SlotInv ==
  /\ SlotTyped /\ LocksTyped /\ OutsideTyped /\ ThreadsTyped
  /\ OpenIsHeld /\ LocksInPlace /\ OutsideAlone

DamageInv == CorruptIsFound /\ SuspectIsDamaged /\ OnlyDamageMovesAside

-----------------------------------------------------------------------------
(* What the parts of an action do.                                         *)

(* The parts are the type invariant.                                       *)
LEMMA SlotTypes ==
  SlotTypeOK <=> SlotTyped /\ LocksTyped /\ OutsideTyped /\ ThreadsTyped
  BY DEF SlotTypeOK, SlotTyped, LocksTyped, OutsideTyped, ThreadsTyped, Places

(* A new store is none that is open, suspected or still being read.        *)
LEMMA NewIsFree == Free # {} => New \in Free
  BY DEF New

(* What an _open that returned has done: the store is the slot's, and one  *)
(* that was not there before was opened over files that open.              *)
LEMMA OpensSays ==
  ASSUME SlotInv, NEW s \in Store, Opens(s)
  PROVE  /\ suspect' = suspect /\ slotLock = None /\ ~Swaps /\ closed # "slot" /\ ~other
         /\ kind' \in [Store -> {"sized", "unsized", "fresh", "closed"}]
         /\ installed' \in Store \cup {None} /\ provisional' \in Store \cup {None}
         /\ \A z \in Store : kind'[z] # "closed" => z \in {installed', provisional'}
         /\ installed' # None => kind'[installed'] \in {"sized", "fresh"} /\ provisional' = None
         /\ provisional' # None => kind'[provisional'] = "unsized"
         /\ kind'[s] # "closed" /\ (kind'[s] # "unsized" => installed' = s)
         /\ installed # None => installed' = installed /\ kind' = kind
         /\ installed' # installed => /\ installed' \in Free /\ files # "corrupt"
                                      /\ kind'[installed'] = "sized"
         /\ files = "corrupt" /\ installed = None /\ provisional = None => FALSE
<1> USE NoneIsNoThread DEF SlotInv, SlotTyped, OutsideTyped, OpenIsHeld, LocksInPlace,
                           OutsideAlone
<1>1. slotLock = None /\ closed # "slot" /\ ~Swaps
  BY DEF Opens, Thread
<1>2. CASE s = installed /\ UNCHANGED stores
  BY <1>1, <1>2 DEF slot, stores, Open
<1>3. CASE installed = None /\ s = provisional /\ UNCHANGED stores
  BY <1>1, <1>3 DEF slot, stores, Open
<1>4. CASE /\ installed = None /\ provisional = None /\ ~other
           /\ Free # {} /\ s = New
           /\ \/ /\ files = "none" /\ ~identity /\ kind' = [kind EXCEPT ![s] = "unsized"]
                 /\ provisional' = s /\ UNCHANGED <<installed, suspect>>
              \/ /\ files \in {"fine", "damaged"} \/ (files = "none" /\ identity)
                 /\ kind' = [kind EXCEPT ![s] = "sized"]
                 /\ installed' = s /\ UNCHANGED <<provisional, suspect>>
  <2>1. \A z \in Store : kind[z] = "closed"
    BY <1>4 DEF Open
  <2>2. s \in Free
    BY <1>4, NewIsFree
  <2>3. CASE /\ files = "none" /\ kind' = [kind EXCEPT ![s] = "unsized"]
             /\ provisional' = s /\ UNCHANGED <<installed, suspect>>
    BY <1>1, <1>4, <2>1, <2>3
  <2>4. CASE /\ files # "corrupt" /\ kind' = [kind EXCEPT ![s] = "sized"]
             /\ installed' = s /\ UNCHANGED <<provisional, suspect>>
    BY <1>1, <1>4, <2>1, <2>2, <2>4
  <2>5. QED
    BY <1>4, <2>3, <2>4
<1>5. QED
  BY <1>2, <1>3, <1>4 DEF Opens

(* ... or has not: the slot stays as it is.                                *)
LEMMA OpenFailsSays ==
  ASSUME NEW why, OpenFails(why)
  PROVE  /\ UNCHANGED <<kind, installed, provisional, suspect>> /\ slotLock = None
         /\ why = "corrupt" => files = "corrupt" /\ installed = None /\ provisional = None
         /\ why = "incompatible" => files = "other"
  BY DEF OpenFails, stores

(* Where threads are after the writer's job has ended.                     *)
LEMMA EndsSays ==
  ASSUME ThreadsTyped, NEW ok, Ends(ok)
  PROVE  /\ at' \in [Thread -> Places]
         /\ reads' \in [Reader -> Store \cup {None}]
         /\ job' \in [what : {"none", "fault", "flush", "force"}, whose : Reader \cup {None}]
         /\ at'[Writer] = "rest"
         /\ \A t \in Thread : at'[t] \in {at[t], "rest", "answered"}
         /\ \A r \in Reader : reads'[r] \in {None, reads[r]}
  BY WriterIsNoReader, NoneIsNoThread DEF ThreadsTyped, Places, Ends, Idle, Thread

(* Where a thread is that goes somewhere.                                  *)
LEMMA GoesSays ==
  ASSUME ThreadsTyped, NEW t \in Thread, NEW p \in Places, Goes(t, p)
  PROVE  /\ at' \in [Thread -> Places]
         /\ at'[t] = p
         /\ \A u \in Thread : u # t => at'[u] = at[u]
  BY DEF ThreadsTyped, Goes

(* Where a search is that got a store.                                     *)
LEMMA GetsSays ==
  ASSUME ThreadsTyped, NEW r \in Reader, NEW s \in Store, Gets(r, s)
  PROVE  /\ at' \in [Thread -> Places]
         /\ reads' \in [Reader -> Store \cup {None}]
         /\ at'[r] \in {"read", "rest"}
         /\ \A u \in Thread : u # r => at'[u] = at[u]
         /\ \A u \in Reader : u # r => reads'[u] = reads[u]
  BY NoneIsNoThread DEF ThreadsTyped, Goes, Gets, Over, Places, Thread

(* And of one that is over.                                                *)
LEMMA OverSays ==
  ASSUME ThreadsTyped, NEW r \in Reader, Over(r)
  PROVE  /\ at' \in [Thread -> Places]
         /\ reads' \in [Reader -> Store \cup {None}]
         /\ at'[r] = "rest"
         /\ \A u \in Thread : u # r => at'[u] = at[u]
         /\ \A u \in Reader : u # r => reads'[u] = reads[u]
  BY NoneIsNoThread DEF ThreadsTyped, Goes, Over, Places, Thread

(* Where threads are after a recovery.                                     *)
LEMMA RecoverySays ==
  ASSUME ThreadsTyped, NEW t \in Thread,
         (\E s \in Store : Recovered(t, s)) \/ Rebuilds(t) \/ Fails(t)
  PROVE  /\ at' \in [Thread -> Places]
         /\ reads' \in [Reader -> Store \cup {None}]
         /\ job' \in [what : {"none", "fault", "flush", "force"}, whose : Reader \cup {None}]
         /\ at'[t] \in {"read", "rest", "ask", "fresh", "suspect", "target", "build"}
         /\ t \in Reader => at'[Writer] = at[Writer]
         /\ \A u \in Thread : u # t => at'[u] \in {at[u], "rest", "answered"}
         /\ \A u \in Reader : u # t => reads'[u] \in {None, reads[u]}
<1> USE NoneIsNoThread, WriterIsNoReader
<1>1. CASE Rebuilds(t)
  <2>1. \E p \in {"ask", "fresh", "suspect"} : Goes(t, p)
    BY <1>1 DEF Rebuilds
  <2>2. UNCHANGED <<reads, job>>
    BY <1>1 DEF Rebuilds
  <2>3. PICK p \in {"ask", "fresh", "suspect"} : Goes(t, p)
    BY <2>1
  <2>4. p \in Places
    BY DEF Places
  <2>5. QED
    BY <2>2, <2>3, <2>4, GoesSays DEF ThreadsTyped, Thread
<1>2. CASE \E s \in Store : Recovered(t, s)
  <2>1. PICK s \in Store : Recovered(t, s)
    BY <1>2
  <2>2. CASE t \in Reader
    <3>1. Gets(t, s) /\ UNCHANGED job
      BY <2>1, <2>2 DEF Recovered
    <3>2. QED
      BY <2>2, <3>1, GetsSays DEF ThreadsTyped, Thread
  <2>3. CASE t \notin Reader
    <3>1. PICK p \in {"target", "build"} : Goes(t, p)
      BY <2>1, <2>3 DEF Recovered
    <3>2. p \in Places /\ UNCHANGED <<reads, job>>
      BY <2>1, <2>3 DEF Recovered, Places
    <3>3. QED
      BY <2>3, <3>1, <3>2, GoesSays DEF ThreadsTyped, Thread
  <2>4. QED
    BY <2>2, <2>3
<1>3. CASE Fails(t)
  <2>1. CASE t \in Reader
    <3>1. Over(t) /\ UNCHANGED job
      BY <1>3, <2>1 DEF Fails
    <3>2. QED
      BY <2>1, <3>1, OverSays DEF ThreadsTyped, Thread
  <2>2. CASE t \notin Reader
    <3>1. Ends(FALSE) /\ t = Writer
      BY <1>3, <2>2 DEF Fails, Thread
    <3>2. QED
      BY <2>2, <3>1, EndsSays
  <2>3. QED
    BY <2>1, <2>2
<1>4. QED
  BY <1>1, <1>2, <1>3
(* A share is left as long as a store is open, or a swap goes on.          *)
LEMMA NoShareIsLeft ==
  Shares = 0 <=> share = None /\ \A s \in Store : ~Open(s)
<1> DEFINE O == {s \in Store : Open(s)}
<1>1. IsFiniteSet(O) /\ Cardinality(O) \in Nat /\ (Cardinality(O) = 0 <=> O = {})
  <2>1. IsFiniteSet(Store)
    BY StoresAreCounted, FS_Interval DEF Store
  <2>2. IsFiniteSet(O)
    BY <2>1, FS_Subset
  <2>3. QED
    BY <2>2, FS_EmptySet, FS_CardinalityType
<1>2. O = {} <=> \A s \in Store : ~Open(s)
  OBVIOUS
<1> HIDE DEF O
<1>3. CASE share = None
  BY <1>1, <1>2, <1>3 DEF Shares, O
<1>4. CASE share # None
  BY <1>1, <1>4 DEF Shares, O
<1>5. QED
  BY <1>3, <1>4

(* A recovery that fails brings its thread to rest.                        *)
LEMMA FailsSays ==
  ASSUME ThreadsTyped, NEW t \in Thread, Fails(t)
  PROVE  at'[t] = "rest"
<1>1. CASE t \in Reader
  BY <1>1, OverSays DEF Fails
<1>2. CASE t \notin Reader
  <2>1. Ends(FALSE) /\ t = Writer
    BY <1>2 DEF Fails, Thread
  <2>2. QED
    BY <2>1, EndsSays
<1>3. QED
  BY <1>1, <1>2

(* Over files that do not open no _open returns a store, and none raises   *)
(* that they are another model's.                                          *)
LEMMA CorruptRefuses ==
  ASSUME SlotInv, CorruptIsFound, files = "corrupt"
  PROVE  /\ \A s \in Store : ~Opens(s)
         /\ ~OpenFails("incompatible")
  BY OpensSays, OpenFailsSays DEF CorruptIsFound

(* Opening the store leaves what is suspected of it as it is: a new store  *)
(* is neither suspected nor read.                                          *)
LEMMA OpensKeepsSuspicion ==
  ASSUME SlotInv, SuspectIsDamaged, files' = files, unseen' = unseen,
         (\E s \in Store : Opens(s)) \/ UNCHANGED <<kind, installed, suspect>>,
         \A r \in Reader : at'[r] = "mark" => at[r] = "mark" /\ reads'[r] \in {None, reads[r]}
  PROVE  /\ installed' # None /\ suspect' = installed' => Condemnable'
         /\ \A r \in Reader :
              installed' # None /\ at'[r] = "mark" /\ reads'[r] = installed' => Condemnable'
         /\ installed # None =>
              (Condemnable <=> Condemnable') /\ kind'[installed'] = kind[installed]
<1>1. CASE UNCHANGED <<kind, installed, suspect>>
  BY <1>1 DEF SuspectIsDamaged, Condemnable
<1>2. CASE \E s \in Store : Opens(s)
  <2>1. /\ suspect' = suspect
        /\ installed # None => installed' = installed /\ kind' = kind
        /\ installed' # installed => installed' \in Free
    BY <1>2, OpensSays
  <2>2. CASE installed' = installed
    BY <2>1, <2>2 DEF SuspectIsDamaged, Condemnable
  <2>3. CASE installed' # installed
    <3>1. installed' # suspect /\ \A r \in Reader : reads[r] # installed'
      BY <2>1, <2>3 DEF Free
    <3>2. QED
      BY <2>1, <2>3, <3>1 DEF SuspectIsDamaged, Condemnable
  <2>4. QED
    BY <2>2, <2>3
<1>3. QED
  BY <1>1, <1>2


-----------------------------------------------------------------------------
(* Types.                                                                  *)

(* The slot keeps its types.                                               *)
LEMMA SlotTypedStep ==
  SlotInv /\ SlotNext => SlotTyped'
<1>0. SUFFICES ASSUME SlotInv, SlotNext PROVE SlotTyped'
  OBVIOUS
<1> USE NoneIsNoThread, WriterIsNoReader DEF Thread
<1>1. CASE \E r \in Reader : Search(r)
  BY <1>0, <1>1 DEF SlotInv, SlotTyped, File, Damaged, Free, Search, slot, stores, locks, outside,
    history
<1>2. CASE \E r \in Reader : Load(r)
  BY <1>0, OpensSays, OpenFailsSays, <1>2 DEF SlotInv, SlotTyped, File, Damaged, Free, Load,
    slot, stores, locks, outside, history
<1>3. CASE \E r \in Reader : Read(r)
  BY <1>0, <1>3 DEF SlotInv, SlotTyped, File, Damaged, Free, Read, slot, stores, locks, outside,
    history
<1>4. CASE \E r \in Reader : MarkSuspect(r)
  BY <1>0, <1>4 DEF SlotInv, SlotTyped, File, Damaged, Free, MarkSuspect, slot, stores, locks,
    outside, history
<1>5. CASE \E r \in Reader : Ask(r)
  BY <1>0, <1>5 DEF SlotInv, SlotTyped, File, Damaged, Free, Ask, slot, stores, locks, outside,
    history
<1>6. CASE \E r \in Reader : Answered(r)
  BY <1>0, <1>6 DEF SlotInv, SlotTyped, File, Damaged, Free, Answered, slot, stores, locks, outside,
    history
<1>7. CASE \E t \in Thread : Recover(t)
  BY <1>0, <1>7 DEF SlotInv, SlotTyped, File, Damaged, Free, Recover, slot, stores, locks, outside,
    history
<1>8. CASE \E t \in Thread : Reopen(t)
  BY <1>0, OpensSays, OpenFailsSays, <1>8 DEF SlotInv, SlotTyped, File, Damaged, Free, Reopen,
    Recovered, Rebuilds, Fails, slot, stores, locks, outside, history
<1>9. CASE \E t \in Thread : Move(t)
  BY <1>0, <1>9 DEF SlotInv, SlotTyped, File, Damaged, Free, Move, MovesAside, MoveRefused,
    Rebuilds, Fails, Mishap, slot, stores, locks, outside, history
<1>10. CASE TakeJob
  BY <1>0, <1>10 DEF SlotInv, SlotTyped, File, Damaged, Free, TakeJob, slot, stores, locks, outside,
    history
<1>11. CASE CondemnSuspect
  BY <1>0, <1>11 DEF SlotInv, SlotTyped, File, Damaged, Free, CondemnSuspect, slot, stores,
    locks, outside, history
<1>12. CASE CondemnMoves
  BY <1>0, <1>12 DEF SlotInv, SlotTyped, File, Damaged, Free, CondemnMoves, MovesAside,
    MoveRefused, Mishap, slot, stores, locks, outside, history
<1>13. CASE Get
  BY <1>0, OpensSays, OpenFailsSays, <1>13 DEF SlotInv, SlotTyped, File, Damaged, Free, Get,
    slot, stores, locks, outside, history
<1>14. CASE Build
  BY <1>0, OpensSays, OpenFailsSays, <1>14 DEF SlotInv, SlotTyped, File, Damaged, Free, Build,
    slot, stores, locks, outside, history
<1>15. CASE Target
  BY <1>0, OpensSays, OpenFailsSays, <1>15 DEF SlotInv, SlotTyped, File, Damaged, Free, Target,
    slot, stores, locks, outside, history
<1>16. CASE Verify
  BY <1>0, <1>16 DEF SlotInv, SlotTyped, File, Damaged, Free, Verify, Condemns, slot, stores, locks,
    outside, history
<1>17. CASE FreshCloses
  BY <1>0, <1>17 DEF SlotInv, SlotTyped, File, Damaged, Free, FreshCloses, Discarded, slot, stores,
    locks, outside, history
<1>18. CASE FreshOpens
  BY <1>0, NewIsFree, <1>18 DEF SlotInv, SlotTyped, File, Damaged, Free, FreshOpens, slot, stores,
    locks, outside, history
<1>19. CASE Publish
  BY <1>0, <1>19 DEF SlotInv, SlotTyped, File, Damaged, Free, Publish, Replaces, slot, stores,
    locks, outside, history
<1>20. CASE PublishFails
  BY <1>0, <1>20 DEF SlotInv, SlotTyped, File, Damaged, Free, PublishFails, Replaces, Mishap,
    slot, stores, locks, outside, history
<1>21. CASE Damage
  BY <1>0, <1>21 DEF SlotInv, SlotTyped, File, Damaged, Free, Damage, Mishap, slot, stores, locks,
    outside, history
<1>22. CASE OtherTakes
  BY <1>0, <1>22 DEF SlotInv, SlotTyped, File, Damaged, Free, OtherTakes, Mishap, slot, stores,
    locks, outside, history
<1>23. CASE OtherWrites
  BY <1>0, <1>23 DEF SlotInv, SlotTyped, File, Damaged, Free, OtherWrites, slot, stores, locks,
    outside, history
<1>24. CASE OtherLeaves
  BY <1>0, <1>24 DEF SlotInv, SlotTyped, File, Damaged, Free, OtherLeaves, slot, stores, locks,
    outside, history
<1>25. CASE CloseWriter
  BY <1>0, <1>25 DEF SlotInv, SlotTyped, File, Damaged, Free, CloseWriter, slot, stores, locks,
    outside, history
<1>26. CASE CloseSlot
  BY <1>0, <1>26 DEF SlotInv, SlotTyped, File, Damaged, Free, CloseSlot, Discarded, slot, stores,
    locks, outside, history
<1>27. CASE Condemn
  BY <1>0, <1>27 DEF SlotInv, SlotTyped, File, Damaged, Free, Condemn, Condemns, slot, stores,
    locks, outside, history
<1>28. CASE FreshFails
  BY <1>0, <1>28 DEF SlotInv, SlotTyped, File, Damaged, Free, FreshFails, Mishap, slot, stores,
    locks, outside, history
<1>29. QED
  BY <1>0, <1>1, <1>2, <1>3, <1>4, <1>5, <1>6, <1>7, <1>8, <1>9, <1>10, <1>11, <1>12,
    <1>13, <1>14, <1>15, <1>16, <1>17, <1>18, <1>19, <1>20, <1>21, <1>22, <1>23, <1>24, <1>25,
    <1>26, <1>27, <1>28
    DEF SlotNext, SearchSteps, RecoverySteps, WriterSteps

(* So do the locks.                                                        *)
LEMMA LocksTypedStep ==
  SlotInv /\ SlotNext => LocksTyped'
<1>0. SUFFICES ASSUME SlotInv, SlotNext PROVE LocksTyped'
  OBVIOUS
<1> USE NoneIsNoThread, WriterIsNoReader DEF Thread
<1>1. CASE \E r \in Reader : Search(r)
  BY <1>0, <1>1 DEF SlotInv, LocksTyped, Search, slot, stores, locks, outside, history
<1>2. CASE \E r \in Reader : Load(r)
  BY <1>0, OpensSays, OpenFailsSays, <1>2 DEF SlotInv, LocksTyped, Load, slot, stores, locks,
    outside, history
<1>3. CASE \E r \in Reader : Read(r)
  BY <1>0, <1>3 DEF SlotInv, LocksTyped, Read, slot, stores, locks, outside, history
<1>4. CASE \E r \in Reader : MarkSuspect(r)
  BY <1>0, <1>4 DEF SlotInv, LocksTyped, MarkSuspect, slot, stores, locks, outside, history
<1>5. CASE \E r \in Reader : Ask(r)
  BY <1>0, <1>5 DEF SlotInv, LocksTyped, Ask, slot, stores, locks, outside, history
<1>6. CASE \E r \in Reader : Answered(r)
  BY <1>0, <1>6 DEF SlotInv, LocksTyped, Answered, slot, stores, locks, outside, history
<1>7. CASE \E t \in Thread : Recover(t)
  BY <1>0, <1>7 DEF SlotInv, LocksTyped, Recover, slot, stores, locks, outside, history
<1>8. CASE \E t \in Thread : Reopen(t)
  BY <1>0, OpensSays, OpenFailsSays, <1>8 DEF SlotInv, LocksTyped, Reopen, Recovered, Rebuilds,
    Fails, slot, stores, locks, outside, history
<1>9. CASE \E t \in Thread : Move(t)
  BY <1>0, <1>9 DEF SlotInv, LocksTyped, Move, MovesAside, MoveRefused, Rebuilds, Fails, Mishap,
    slot, stores, locks, outside, history
<1>10. CASE TakeJob
  BY <1>0, <1>10 DEF SlotInv, LocksTyped, TakeJob, slot, stores, locks, outside, history
<1>11. CASE CondemnSuspect
  BY <1>0, <1>11 DEF SlotInv, LocksTyped, CondemnSuspect, slot, stores, locks, outside,
    history
<1>12. CASE CondemnMoves
  BY <1>0, <1>12 DEF SlotInv, LocksTyped, CondemnMoves, MovesAside, MoveRefused, Mishap, slot,
    stores, locks, outside, history
<1>13. CASE Get
  BY <1>0, OpensSays, OpenFailsSays, <1>13 DEF SlotInv, LocksTyped, Get, slot, stores, locks,
    outside, history
<1>14. CASE Build
  BY <1>0, OpensSays, OpenFailsSays, <1>14 DEF SlotInv, LocksTyped, Build, slot, stores, locks,
    outside, history
<1>15. CASE Target
  BY <1>0, OpensSays, OpenFailsSays, <1>15 DEF SlotInv, LocksTyped, Target, slot, stores, locks,
    outside, history
<1>16. CASE Verify
  BY <1>0, <1>16 DEF SlotInv, LocksTyped, Verify, Condemns, slot, stores, locks, outside, history
<1>17. CASE FreshCloses
  BY <1>0, <1>17 DEF SlotInv, LocksTyped, FreshCloses, Discarded, slot, stores, locks, outside,
    history
<1>18. CASE FreshOpens
  BY <1>0, <1>18 DEF SlotInv, LocksTyped, FreshOpens, slot, stores, locks, outside, history
<1>19. CASE Publish
  BY <1>0, <1>19 DEF SlotInv, LocksTyped, Publish, Replaces, slot, stores, locks, outside, history
<1>20. CASE PublishFails
  BY <1>0, <1>20 DEF SlotInv, LocksTyped, PublishFails, Replaces, Mishap, slot, stores, locks,
    outside, history
<1>21. CASE Damage
  BY <1>0, <1>21 DEF SlotInv, LocksTyped, Damage, Mishap, slot, stores, locks, outside, history
<1>22. CASE OtherTakes
  BY <1>0, <1>22 DEF SlotInv, LocksTyped, OtherTakes, Mishap, slot, stores, locks, outside, history
<1>23. CASE OtherWrites
  BY <1>0, <1>23 DEF SlotInv, LocksTyped, OtherWrites, slot, stores, locks, outside, history
<1>24. CASE OtherLeaves
  BY <1>0, <1>24 DEF SlotInv, LocksTyped, OtherLeaves, slot, stores, locks, outside, history
<1>25. CASE CloseWriter
  BY <1>0, <1>25 DEF SlotInv, LocksTyped, CloseWriter, slot, stores, locks, outside, history
<1>26. CASE CloseSlot
  BY <1>0, <1>26 DEF SlotInv, LocksTyped, CloseSlot, Discarded, slot, stores, locks, outside,
    history
<1>27. CASE Condemn
  BY <1>0, <1>27 DEF SlotInv, LocksTyped, Condemn, Condemns, slot, stores, locks, outside,
    history
<1>28. CASE FreshFails
  BY <1>0, <1>28 DEF SlotInv, LocksTyped, FreshFails, Mishap, slot, stores, locks, outside, history
<1>29. QED
  BY <1>0, <1>1, <1>2, <1>3, <1>4, <1>5, <1>6, <1>7, <1>8, <1>9, <1>10, <1>11, <1>12,
    <1>13, <1>14, <1>15, <1>16, <1>17, <1>18, <1>19, <1>20, <1>21, <1>22, <1>23, <1>24, <1>25,
    <1>26, <1>27, <1>28
    DEF SlotNext, SearchSteps, RecoverySteps, WriterSteps

(* So does what is outside.                                                *)
LEMMA OutsideTypedStep ==
  SlotInv /\ SlotNext => OutsideTyped'
<1>0. SUFFICES ASSUME SlotInv, SlotNext PROVE OutsideTyped'
  OBVIOUS
<1> USE NoneIsNoThread, WriterIsNoReader DEF Thread
<1>1. CASE \E r \in Reader : Search(r)
  BY <1>0, <1>1 DEF SlotInv, OutsideTyped, File, Damaged, SlotTyped, Search, slot, stores, locks,
    outside, history
<1>2. CASE \E r \in Reader : Load(r)
  BY <1>0, <1>2 DEF SlotInv, OutsideTyped, File, Damaged, SlotTyped, Load, slot, stores, locks,
    outside, history
<1>3. CASE \E r \in Reader : Read(r)
  BY <1>0, <1>3 DEF SlotInv, OutsideTyped, File, Damaged, SlotTyped, Read, slot, stores, locks,
    outside, history
<1>4. CASE \E r \in Reader : MarkSuspect(r)
  BY <1>0, <1>4 DEF SlotInv, OutsideTyped, File, Damaged, SlotTyped, MarkSuspect, slot, stores,
    locks, outside, history
<1>5. CASE \E r \in Reader : Ask(r)
  BY <1>0, <1>5 DEF SlotInv, OutsideTyped, File, Damaged, SlotTyped, Ask, slot, stores, locks,
    outside, history
<1>6. CASE \E r \in Reader : Answered(r)
  BY <1>0, <1>6 DEF SlotInv, OutsideTyped, File, Damaged, SlotTyped, Answered, slot, stores, locks,
    outside, history
<1>7. CASE \E t \in Thread : Recover(t)
  BY <1>0, <1>7 DEF SlotInv, OutsideTyped, File, Damaged, SlotTyped, Recover, slot, stores, locks,
    outside, history
<1>8. CASE \E t \in Thread : Reopen(t)
  BY <1>0, <1>8 DEF SlotInv, OutsideTyped, File, Damaged, SlotTyped, Reopen, Recovered,
    Rebuilds, Fails, slot, stores, locks, outside, history
<1>9. CASE \E t \in Thread : Move(t)
  BY <1>0, <1>9 DEF SlotInv, OutsideTyped, File, Damaged, SlotTyped, Move, MovesAside,
    MoveRefused, Rebuilds, Fails, Mishap, slot, stores, locks, outside, history
<1>10. CASE TakeJob
  BY <1>0, <1>10 DEF SlotInv, OutsideTyped, File, Damaged, SlotTyped, TakeJob, slot, stores, locks,
    outside, history
<1>11. CASE CondemnSuspect
  BY <1>0, <1>11 DEF SlotInv, OutsideTyped, File, Damaged, SlotTyped, CondemnSuspect,
    slot, stores, locks, outside, history
<1>12. CASE CondemnMoves
  BY <1>0, <1>12 DEF SlotInv, OutsideTyped, File, Damaged, SlotTyped, CondemnMoves, MovesAside,
    MoveRefused, Mishap, slot, stores, locks, outside, history
<1>13. CASE Get
  BY <1>0, <1>13 DEF SlotInv, OutsideTyped, File, Damaged, SlotTyped, Get, slot, stores, locks,
    outside, history
<1>14. CASE Build
  BY <1>0, <1>14 DEF SlotInv, OutsideTyped, File, Damaged, SlotTyped, Build, slot, stores, locks,
    outside, history
<1>15. CASE Target
  BY <1>0, <1>15 DEF SlotInv, OutsideTyped, File, Damaged, SlotTyped, Target, slot, stores, locks,
    outside, history
<1>16. CASE Verify
  BY <1>0, <1>16 DEF SlotInv, OutsideTyped, File, Damaged, SlotTyped, Verify, Condemns, slot,
    stores, locks, outside, history
<1>17. CASE FreshCloses
  BY <1>0, <1>17 DEF SlotInv, OutsideTyped, File, Damaged, SlotTyped, FreshCloses, Discarded,
    slot, stores, locks, outside, history
<1>18. CASE FreshOpens
  BY <1>0, <1>18 DEF SlotInv, OutsideTyped, File, Damaged, SlotTyped, FreshOpens, slot, stores,
    locks, outside, history
<1>19. CASE Publish
  BY <1>0, <1>19 DEF SlotInv, OutsideTyped, File, Damaged, SlotTyped, Publish, Replaces, slot,
    stores, locks, outside, history
<1>20. CASE PublishFails
  BY <1>0, <1>20 DEF SlotInv, OutsideTyped, File, Damaged, SlotTyped, PublishFails, Replaces,
    Mishap, slot, stores, locks, outside, history
<1>21. CASE Damage
  BY <1>0, <1>21 DEF SlotInv, OutsideTyped, File, Damaged, SlotTyped, Damage, Mishap, slot, stores,
    locks, outside, history
<1>22. CASE OtherTakes
  BY <1>0, <1>22 DEF SlotInv, OutsideTyped, File, Damaged, SlotTyped, OtherTakes, Mishap, slot,
    stores, locks, outside, history
<1>23. CASE OtherWrites
  BY <1>0, <1>23 DEF SlotInv, OutsideTyped, File, Damaged, SlotTyped, OtherWrites, slot, stores,
    locks, outside, history
<1>24. CASE OtherLeaves
  BY <1>0, <1>24 DEF SlotInv, OutsideTyped, File, Damaged, SlotTyped, OtherLeaves, slot, stores,
    locks, outside, history
<1>25. CASE CloseWriter
  BY <1>0, <1>25 DEF SlotInv, OutsideTyped, File, Damaged, SlotTyped, CloseWriter, slot, stores,
    locks, outside, history
<1>26. CASE CloseSlot
  BY <1>0, <1>26 DEF SlotInv, OutsideTyped, File, Damaged, SlotTyped, CloseSlot, Discarded,
    slot, stores, locks, outside, history
<1>27. CASE Condemn
  BY <1>0, <1>27 DEF SlotInv, OutsideTyped, File, Damaged, SlotTyped, Condemn, Condemns,
    slot, stores, locks, outside, history
<1>28. CASE FreshFails
  BY <1>0, <1>28 DEF SlotInv, OutsideTyped, File, Damaged, SlotTyped, FreshFails, Mishap,
    slot, stores, locks, outside, history
<1>29. QED
  BY <1>0, <1>1, <1>2, <1>3, <1>4, <1>5, <1>6, <1>7, <1>8, <1>9, <1>10, <1>11, <1>12,
    <1>13, <1>14, <1>15, <1>16, <1>17, <1>18, <1>19, <1>20, <1>21, <1>22, <1>23, <1>24, <1>25,
    <1>26, <1>27, <1>28
    DEF SlotNext, SearchSteps, RecoverySteps, WriterSteps

(* So do the threads.                                                      *)
LEMMA ThreadsTypedStep ==
  SlotInv /\ SlotNext => ThreadsTyped'
<1>0. SUFFICES ASSUME SlotInv, SlotNext PROVE ThreadsTyped'
  OBVIOUS
<1> USE NoneIsNoThread, WriterIsNoReader DEF Thread
<1>1. CASE \E r \in Reader : Search(r)
  <2>1. PICK r \in Reader : Search(r)
    BY <1>1
  <2>2. Goes(r, "load") /\ UNCHANGED <<reads, asked, job>> /\ "load" \in Places
    BY <2>1 DEF Search, Places
  <2>3. QED
    BY <1>0, <2>2, GoesSays DEF SlotInv, ThreadsTyped
<1>2. CASE \E r \in Reader : Load(r)
  BY <1>0, OpensSays, OpenFailsSays, GoesSays, GetsSays, <1>2 DEF SlotInv, ThreadsTyped,
    SlotTyped, Places, Over, Goes, Gets, Idle, Load, slot, stores, locks, outside, history
<1>3. CASE \E r \in Reader : Read(r)
  BY <1>0, GoesSays, <1>3 DEF SlotInv, ThreadsTyped, SlotTyped, Places, Over, Goes, Gets, Idle,
    Read, slot, stores, locks, outside, history
<1>4. CASE \E r \in Reader : MarkSuspect(r)
  BY <1>0, GoesSays, <1>4 DEF SlotInv, ThreadsTyped, SlotTyped, Places, Over, Goes, Gets, Idle,
    MarkSuspect, slot, stores, locks, outside, history
<1>5. CASE \E r \in Reader : Ask(r)
  BY <1>0, GoesSays, <1>5 DEF SlotInv, ThreadsTyped, SlotTyped, Places, Over, Goes, Gets, Idle,
    Ask, slot, stores, locks, outside, history
<1>6. CASE \E r \in Reader : Answered(r)
  BY <1>0, GetsSays, <1>6 DEF SlotInv, ThreadsTyped, SlotTyped, Places, Over, Goes, Gets, Idle,
    Answered, slot, stores, locks, outside, history
<1>7. CASE \E t \in Thread : Recover(t)
  <2>1. PICK t \in Thread : Recover(t)
    BY <1>7
  <2>2. Goes(t, "reopen") /\ UNCHANGED <<reads, asked, job>> /\ "reopen" \in Places
    BY <2>1 DEF Recover, Places
  <2>3. QED
    BY <1>0, <2>2, GoesSays DEF SlotInv, ThreadsTyped
<1>8. CASE \E t \in Thread : Reopen(t)
  <2>1. PICK t \in Thread : Reopen(t)
    BY <1>8
  <2>2. UNCHANGED asked /\ ThreadsTyped
    BY <1>0, <2>1 DEF SlotInv, Reopen
  <2>3. \/ Goes(t, "move") /\ UNCHANGED <<reads, job>>
        \/ (\E s \in Store : Recovered(t, s)) \/ Rebuilds(t) \/ Fails(t)
    BY <2>1 DEF Reopen
  <2>4. CASE Goes(t, "move") /\ UNCHANGED <<reads, job>>
    BY <2>2, <2>4, GoesSays DEF ThreadsTyped, Places
  <2>5. CASE (\E s \in Store : Recovered(t, s)) \/ Rebuilds(t) \/ Fails(t)
    BY <2>2, <2>5, RecoverySays DEF ThreadsTyped
  <2>6. QED
    BY <2>3, <2>4, <2>5
<1>9. CASE \E t \in Thread : Move(t)
  <2>1. PICK t \in Thread : Move(t)
    BY <1>9
  <2>2. UNCHANGED asked /\ ThreadsTyped
    BY <1>0, <2>1 DEF SlotInv, Move
  <2>3. Rebuilds(t) \/ Fails(t)
    BY <2>1 DEF Move
  <2>4. QED
    BY <2>2, <2>3, RecoverySays DEF ThreadsTyped
<1>10. CASE TakeJob
  BY <1>0, GoesSays, <1>10 DEF SlotInv, ThreadsTyped, SlotTyped, Places, Over, Goes, Gets, Idle,
    TakeJob, slot, stores, locks, outside, history
<1>11. CASE CondemnSuspect
  BY <1>0, GoesSays, <1>11 DEF SlotInv, ThreadsTyped, SlotTyped, Places, Over, Goes, Gets, Idle,
    CondemnSuspect, slot, stores, locks, outside, history
<1>12. CASE CondemnMoves
  BY <1>0, EndsSays, GoesSays, <1>12 DEF SlotInv, ThreadsTyped, SlotTyped, Places, Over, Goes,
    Gets, Idle, CondemnMoves, MovesAside, MoveRefused, Mishap, slot, stores, locks, outside, history
<1>13. CASE Get
  <2>1. UNCHANGED asked /\ ThreadsTyped
    BY <1>0, <1>13 DEF SlotInv, Get
  <2>2. \/ \E ok \in BOOLEAN : Ends(ok)
        \/ \E p \in {"build", "target"} :
              /\ Goes(Writer, p) /\ UNCHANGED reads
              /\ (job' = job \/ job' = [job EXCEPT !.what = "force"])
    BY <1>0, <1>13, OpensSays DEF Get, SlotInv
  <2>3. CASE \E ok \in BOOLEAN : Ends(ok)
    BY <2>1, <2>3, EndsSays DEF ThreadsTyped
  <2>4. ASSUME NEW p \in {"build", "target"},
               Goes(Writer, p), UNCHANGED reads,
               job' = job \/ job' = [job EXCEPT !.what = "force"]
        PROVE  ThreadsTyped'
    <3>1. p \in Places /\ Writer \in Thread
      BY DEF Places
    <3>2. QED
      BY <2>1, <2>4, <3>1, GoesSays DEF ThreadsTyped
  <2>5. QED
    BY <2>2, <2>3, <2>4
<1>14. CASE Build
  <2>1. UNCHANGED asked /\ ThreadsTyped
    BY <1>0, <1>14 DEF SlotInv, Build
  <2>2. \/ \E ok \in BOOLEAN : Ends(ok)
        \/ \E p \in {"fresh", "publish", "recover", "suspect"} :
              /\ Goes(Writer, p) /\ UNCHANGED reads
              /\ (job' = job \/ job' = [job EXCEPT !.what = "force"])
    BY <1>0, <1>14, OpensSays DEF Build, SlotInv
  <2>3. CASE \E ok \in BOOLEAN : Ends(ok)
    BY <2>1, <2>3, EndsSays DEF ThreadsTyped
  <2>4. ASSUME NEW p \in {"fresh", "publish", "recover", "suspect"},
               Goes(Writer, p), UNCHANGED reads,
               job' = job \/ job' = [job EXCEPT !.what = "force"]
        PROVE  ThreadsTyped'
    <3>1. p \in Places /\ Writer \in Thread
      BY DEF Places
    <3>2. QED
      BY <2>1, <2>4, <3>1, GoesSays DEF ThreadsTyped
  <2>5. QED
    BY <2>2, <2>3, <2>4
<1>15. CASE Target
  <2>1. UNCHANGED asked /\ ThreadsTyped
    BY <1>0, <1>15 DEF SlotInv, Target
  <2>2. \/ \E ok \in BOOLEAN : Ends(ok)
        \/ \E p \in {"fresh", "verify", "recover"} :
              /\ Goes(Writer, p) /\ UNCHANGED reads
              /\ (job' = job \/ job' = [job EXCEPT !.what = "force"])
    BY <1>0, <1>15, OpensSays DEF Target, SlotInv
  <2>3. CASE \E ok \in BOOLEAN : Ends(ok)
    BY <2>1, <2>3, EndsSays DEF ThreadsTyped
  <2>4. ASSUME NEW p \in {"fresh", "verify", "recover"},
               Goes(Writer, p), UNCHANGED reads,
               job' = job \/ job' = [job EXCEPT !.what = "force"]
        PROVE  ThreadsTyped'
    <3>1. p \in Places /\ Writer \in Thread
      BY DEF Places
    <3>2. QED
      BY <2>1, <2>4, <3>1, GoesSays DEF ThreadsTyped
  <2>5. QED
    BY <2>2, <2>3, <2>4
<1>16. CASE Verify
  BY <1>0, GoesSays, <1>16 DEF SlotInv, ThreadsTyped, SlotTyped, Places, Over, Goes, Gets, Idle,
    Verify, Condemns, slot, stores, locks, outside, history
<1>17. CASE FreshCloses
  <2>1. UNCHANGED asked /\ ThreadsTyped
    BY <1>0, <1>17 DEF SlotInv, FreshCloses
  <2>2. Ends(FALSE) \/ (Goes(Writer, "open") /\ UNCHANGED <<reads, job>>)
    BY <1>17 DEF FreshCloses
  <2>3. CASE Ends(FALSE)
    BY <2>1, <2>3, EndsSays DEF ThreadsTyped
  <2>4. CASE Goes(Writer, "open") /\ UNCHANGED <<reads, job>>
    BY <2>1, <2>4, GoesSays DEF ThreadsTyped, Places
  <2>5. QED
    BY <2>2, <2>3, <2>4
<1>18. CASE FreshOpens
  BY <1>0, GoesSays, <1>18 DEF SlotInv, ThreadsTyped, SlotTyped, Places, Over, Goes, Gets, Idle,
    FreshOpens, slot, stores, locks, outside, history
<1>19. CASE Publish
  BY <1>0, EndsSays, <1>19 DEF SlotInv, ThreadsTyped, SlotTyped, Places, Over, Goes, Gets, Idle,
    Publish, Replaces, slot, stores, locks, outside, history
<1>20. CASE PublishFails
  BY <1>0, EndsSays, <1>20 DEF SlotInv, ThreadsTyped, SlotTyped, Places, Over, Goes, Gets, Idle,
    PublishFails, Replaces, Mishap, slot, stores, locks, outside, history
<1>21. CASE Damage
  BY <1>0, <1>21 DEF SlotInv, ThreadsTyped, SlotTyped, Places, Over, Goes, Gets, Idle, Damage,
    Mishap, slot, stores, locks, outside, history
<1>22. CASE OtherTakes
  BY <1>0, <1>22 DEF SlotInv, ThreadsTyped, SlotTyped, Places, Over, Goes, Gets, Idle,
    OtherTakes, Mishap, slot, stores, locks, outside, history
<1>23. CASE OtherWrites
  BY <1>0, <1>23 DEF SlotInv, ThreadsTyped, SlotTyped, Places, Over, Goes, Gets, Idle,
    OtherWrites, slot, stores, locks, outside, history
<1>24. CASE OtherLeaves
  BY <1>0, <1>24 DEF SlotInv, ThreadsTyped, SlotTyped, Places, Over, Goes, Gets, Idle,
    OtherLeaves, slot, stores, locks, outside, history
<1>25. CASE CloseWriter
  BY <1>0, <1>25 DEF SlotInv, ThreadsTyped, SlotTyped, Places, Over, Goes, Gets, Idle,
    CloseWriter, slot, stores, locks, outside, history
<1>26. CASE CloseSlot
  BY <1>0, <1>26 DEF SlotInv, ThreadsTyped, SlotTyped, Places, Over, Goes, Gets, Idle,
    CloseSlot, Discarded, slot, stores, locks, outside, history
<1>27. CASE Condemn
  BY <1>0, GoesSays, <1>27 DEF SlotInv, ThreadsTyped, SlotTyped, Places, Over, Goes, Gets, Idle,
    Condemn, Condemns, slot, stores, locks, outside, history
<1>28. CASE FreshFails
  BY <1>0, EndsSays, <1>28 DEF SlotInv, ThreadsTyped, SlotTyped, Places, Over, Goes, Gets, Idle,
    FreshFails, Mishap, slot, stores, locks, outside, history
<1>29. QED
  BY <1>0, <1>1, <1>2, <1>3, <1>4, <1>5, <1>6, <1>7, <1>8, <1>9, <1>10, <1>11, <1>12,
    <1>13, <1>14, <1>15, <1>16, <1>17, <1>18, <1>19, <1>20, <1>21, <1>22, <1>23, <1>24, <1>25,
    <1>26, <1>27, <1>28
    DEF SlotNext, SearchSteps, RecoverySteps, WriterSteps

-----------------------------------------------------------------------------
(* The stores and the locks.                                               *)

(* Open stores are held.                                                   *)
LEMMA OpenIsHeldStep ==
  SlotInv /\ SlotNext => OpenIsHeld'
<1>0. SUFFICES ASSUME SlotInv, SlotNext PROVE OpenIsHeld'
  OBVIOUS
<1> USE NoneIsNoThread, WriterIsNoReader DEF Thread
<1>1. CASE \E r \in Reader : Search(r)
  BY <1>0, <1>1 DEF SlotInv, OpenIsHeld, SlotTyped, LocksInPlace, Open, Free, Search, slot, stores,
    locks, outside, history
<1>2. CASE \E r \in Reader : Load(r)
  BY <1>0, OpensSays, OpenFailsSays, <1>2 DEF SlotInv, OpenIsHeld, SlotTyped, LocksInPlace,
    Open, Free, Load, slot, stores, locks, outside, history
<1>3. CASE \E r \in Reader : Read(r)
  BY <1>0, <1>3 DEF SlotInv, OpenIsHeld, SlotTyped, LocksInPlace, Open, Free, Read, slot, stores,
    locks, outside, history
<1>4. CASE \E r \in Reader : MarkSuspect(r)
  BY <1>0, <1>4 DEF SlotInv, OpenIsHeld, SlotTyped, LocksInPlace, Open, Free, MarkSuspect, slot,
    stores, locks, outside, history
<1>5. CASE \E r \in Reader : Ask(r)
  BY <1>0, <1>5 DEF SlotInv, OpenIsHeld, SlotTyped, LocksInPlace, Open, Free, Ask, slot, stores,
    locks, outside, history
<1>6. CASE \E r \in Reader : Answered(r)
  BY <1>0, <1>6 DEF SlotInv, OpenIsHeld, SlotTyped, LocksInPlace, Open, Free, Answered, slot,
    stores, locks, outside, history
<1>7. CASE \E t \in Thread : Recover(t)
  BY <1>0, <1>7 DEF SlotInv, OpenIsHeld, SlotTyped, LocksInPlace, Open, Free, Recover, slot, stores,
    locks, outside, history
<1>8. CASE \E t \in Thread : Reopen(t)
  BY <1>0, OpensSays, OpenFailsSays, <1>8 DEF SlotInv, OpenIsHeld, SlotTyped, LocksInPlace,
    Open, Free, Reopen, Recovered, Rebuilds, Fails, slot, stores, locks, outside, history
<1>9. CASE \E t \in Thread : Move(t)
  BY <1>0, <1>9 DEF SlotInv, OpenIsHeld, SlotTyped, LocksInPlace, Open, Free, Move, MovesAside,
    MoveRefused, Rebuilds, Fails, Mishap, slot, stores, locks, outside, history
<1>10. CASE TakeJob
  BY <1>0, <1>10 DEF SlotInv, OpenIsHeld, SlotTyped, LocksInPlace, Open, Free, TakeJob, slot,
    stores, locks, outside, history
<1>11. CASE CondemnSuspect
  BY <1>0, <1>11 DEF SlotInv, OpenIsHeld, SlotTyped, LocksInPlace, Open, Free, CondemnSuspect,
    slot, stores, locks, outside, history
<1>12. CASE CondemnMoves
  BY <1>0, <1>12 DEF SlotInv, OpenIsHeld, SlotTyped, LocksInPlace, Open, Free, CondemnMoves,
    MovesAside, MoveRefused, Mishap, slot, stores, locks, outside, history
<1>13. CASE Get
  BY <1>0, OpensSays, OpenFailsSays, <1>13 DEF SlotInv, OpenIsHeld, SlotTyped, LocksInPlace,
    Open, Free, Get, slot, stores, locks, outside, history
<1>14. CASE Build
  BY <1>0, OpensSays, OpenFailsSays, <1>14 DEF SlotInv, OpenIsHeld, SlotTyped, LocksInPlace,
    Open, Free, Build, slot, stores, locks, outside, history
<1>15. CASE Target
  BY <1>0, OpensSays, OpenFailsSays, <1>15 DEF SlotInv, OpenIsHeld, SlotTyped, LocksInPlace,
    Open, Free, Target, slot, stores, locks, outside, history
<1>16. CASE Verify
  BY <1>0, <1>16 DEF SlotInv, OpenIsHeld, SlotTyped, LocksInPlace, Open, Free, Verify, Condemns,
    slot, stores, locks, outside, history
<1>17. CASE FreshCloses
  BY <1>0, <1>17 DEF SlotInv, OpenIsHeld, SlotTyped, LocksInPlace, Open, Free, FreshCloses,
    Discarded, slot, stores, locks, outside, history
<1>18. CASE FreshOpens
  <2>1. /\ installed = None /\ provisional = None /\ UNCHANGED provisional
        /\ New \in Store /\ installed' = New /\ kind' = [kind EXCEPT ![New] = "fresh"]
    BY <1>0, <1>18, NewIsFree DEF SlotInv, LocksInPlace, Swaps, FreshOpens, Free
  <2>2. QED
    BY <1>0, <2>1 DEF SlotInv, SlotTyped, OpenIsHeld, Open
<1>19. CASE Publish
  BY <1>0, <1>19 DEF SlotInv, OpenIsHeld, SlotTyped, LocksInPlace, Open, Free, Publish, Replaces,
    slot, stores, locks, outside, history
<1>20. CASE PublishFails
  BY <1>0, <1>20 DEF SlotInv, OpenIsHeld, SlotTyped, LocksInPlace, Open, Free, PublishFails,
    Replaces, Mishap, slot, stores, locks, outside, history
<1>21. CASE Damage
  BY <1>0, <1>21 DEF SlotInv, OpenIsHeld, SlotTyped, LocksInPlace, Open, Free, Damage, Mishap,
    slot, stores, locks, outside, history
<1>22. CASE OtherTakes
  BY <1>0, <1>22 DEF SlotInv, OpenIsHeld, SlotTyped, LocksInPlace, Open, Free, OtherTakes,
    Mishap, slot, stores, locks, outside, history
<1>23. CASE OtherWrites
  BY <1>0, <1>23 DEF SlotInv, OpenIsHeld, SlotTyped, LocksInPlace, Open, Free, OtherWrites,
    slot, stores, locks, outside, history
<1>24. CASE OtherLeaves
  BY <1>0, <1>24 DEF SlotInv, OpenIsHeld, SlotTyped, LocksInPlace, Open, Free, OtherLeaves,
    slot, stores, locks, outside, history
<1>25. CASE CloseWriter
  BY <1>0, <1>25 DEF SlotInv, OpenIsHeld, SlotTyped, LocksInPlace, Open, Free, CloseWriter,
    slot, stores, locks, outside, history
<1>26. CASE CloseSlot
  BY <1>0, <1>26 DEF SlotInv, OpenIsHeld, SlotTyped, LocksInPlace, Open, Free, CloseSlot,
    Discarded, slot, stores, locks, outside, history
<1>27. CASE Condemn
  BY <1>0, <1>27 DEF SlotInv, OpenIsHeld, SlotTyped, LocksInPlace, Open, Free, Condemn,
    Condemns, slot, stores, locks, outside, history
<1>28. CASE FreshFails
  BY <1>0, <1>28 DEF SlotInv, OpenIsHeld, SlotTyped, LocksInPlace, Open, Free, FreshFails,
    Mishap, slot, stores, locks, outside, history
<1>29. QED
  BY <1>0, <1>1, <1>2, <1>3, <1>4, <1>5, <1>6, <1>7, <1>8, <1>9, <1>10, <1>11, <1>12,
    <1>13, <1>14, <1>15, <1>16, <1>17, <1>18, <1>19, <1>20, <1>21, <1>22, <1>23, <1>24, <1>25,
    <1>26, <1>27, <1>28
    DEF SlotNext, SearchSteps, RecoverySteps, WriterSteps

(* The locks are held where the swap and the recoveries need them.         *)
LEMMA LocksInPlaceStep ==
  SlotInv /\ SlotNext => LocksInPlace'
<1>0. SUFFICES ASSUME SlotInv, SlotNext PROVE LocksInPlace'
  OBVIOUS
<1> USE NoneIsNoThread, WriterIsNoReader DEF Thread
<1>1. CASE \E r \in Reader : Search(r)
  <2>1. PICK r \in Reader : Search(r)
    BY <1>1
  <2>2. /\ Goes(r, "load") /\ "load" \in Places /\ r \in Thread /\ r # Writer
        /\ UNCHANGED <<stores, locks, outside, asked>>
    BY <2>1 DEF Search, Places, slot
  <2>3. ThreadsTyped /\ at'[r] = "load" /\ \A u \in Thread : u # r => at'[u] = at[u]
    BY <1>0, <2>2, GoesSays DEF SlotInv
  <2>4. at'[Writer] = at[Writer]
    BY <2>2, <2>3
  <2>5. QED
    BY <1>0, <2>2, <2>3, <2>4 DEF SlotInv, LocksInPlace, OutsideAlone, Swaps, stores, locks, outside
<1>2. CASE \E r \in Reader : Load(r)
  BY <1>0, OpensSays, OpenFailsSays, GoesSays, GetsSays, <1>2 DEF SlotInv, LocksInPlace,
    SlotTyped, ThreadsTyped, OpenIsHeld, Swaps, Places, Over, Goes, Load, slot, stores, locks,
    outside, history
<1>3. CASE \E r \in Reader : Read(r)
  BY <1>0, GoesSays, <1>3 DEF SlotInv, LocksInPlace, SlotTyped, ThreadsTyped, OpenIsHeld, Swaps,
    Places, Over, Goes, Read, slot, stores, locks, outside, history
<1>4. CASE \E r \in Reader : MarkSuspect(r)
  BY <1>0, GoesSays, <1>4 DEF SlotInv, LocksInPlace, SlotTyped, ThreadsTyped, OpenIsHeld, Swaps,
    Places, Over, Goes, MarkSuspect, slot, stores, locks, outside, history
<1>5. CASE \E r \in Reader : Ask(r)
  BY <1>0, GoesSays, <1>5 DEF SlotInv, LocksInPlace, SlotTyped, ThreadsTyped, OpenIsHeld, Swaps,
    Places, Over, Goes, Ask, slot, stores, locks, outside, history
<1>6. CASE \E r \in Reader : Answered(r)
  BY <1>0, GetsSays, <1>6 DEF SlotInv, LocksInPlace, SlotTyped, ThreadsTyped, OpenIsHeld, Swaps,
    Places, Over, Goes, Answered, slot, stores, locks, outside, history
<1>7. CASE \E t \in Thread : Recover(t)
  <2>1. PICK t \in Thread : Recover(t)
    BY <1>7
  <2>2. /\ at[t] = "recover" /\ recovery = None /\ recovery' = t
        /\ Goes(t, "reopen") /\ "reopen" \in Places
        /\ UNCHANGED <<installed, provisional, slotLock, share, other, closed, asked>>
    BY <2>1 DEF Recover, Places, slot, stores, outside
  <2>3. at'[t] = "reopen" /\ \A u \in Thread : u # t => at'[u] = at[u]
    BY <1>0, <2>2, GoesSays DEF SlotInv
  <2>4. \/ at'[Writer] = at[Writer]
        \/ at[Writer] = "recover" /\ at'[Writer] = "reopen"
    BY <2>2, <2>3
  <2>5. QED
    BY <1>0, <2>2, <2>3, <2>4 DEF SlotInv, LocksInPlace, OutsideAlone, Swaps
<1>8. CASE \E t \in Thread : Reopen(t)
  <2>1. PICK t \in Thread : Reopen(t)
    BY <1>8
  <2>2. /\ at[t] = "reopen" /\ recovery = t /\ ~Swaps /\ slotLock = None /\ share = None
        /\ UNCHANGED <<slotLock, share>> /\ ThreadsTyped
    BY <1>0, <2>1, OpensSays, OpenFailsSays DEF SlotInv, LocksInPlace, Reopen, Swaps
  <2>3. \/ Goes(t, "move") /\ UNCHANGED <<recovery, installed>>
        \/ /\ recovery' = None
           /\ (\E s \in Store : Recovered(t, s)) \/ Rebuilds(t) \/ Fails(t)
           /\ t \in Reader => installed' = installed \/ installed = None
    <3>1. CASE OpenFails("corrupt") /\ Goes(t, "move") /\ UNCHANGED <<recovery, reads, job>>
      BY <3>1, OpenFailsSays
    <3>2. CASE \E s \in Store : Opens(s) /\ Recovered(t, s) /\ recovery' = None
      BY <1>0, <3>2, OpensSays DEF SlotInv, SlotTyped
    <3>3. CASE recovery' = None /\ OpenFails("incompatible") /\ Rebuilds(t)
      BY <3>3, OpenFailsSays
    <3>4. CASE recovery' = None /\ (OpenFails("busy") \/ OpenFails("closed")) /\ Fails(t)
      BY <3>4, OpenFailsSays
    <3>5. QED
      BY <2>1, <3>1, <3>2, <3>3, <3>4 DEF Reopen
  <2>4. \A u \in Thread : u # t => at[u] \notin {"reopen", "move"}
    BY <1>0, <2>2 DEF SlotInv, LocksInPlace
  <2>5. t # Writer => at[Writer] # "aside"
    BY <1>0, <2>2 DEF SlotInv, LocksInPlace
  <2>6. CASE Goes(t, "move") /\ UNCHANGED <<recovery, installed>>
    <3>1. at'[t] = "move" /\ \A u \in Thread : u # t => at'[u] = at[u]
      BY <2>2, <2>6, GoesSays DEF Places
    <3>2. at'[Writer] \in {at[Writer], "move"}
      BY <3>1
    <3>3. QED
      BY <1>0, <2>2, <2>4, <2>6, <3>1, <3>2 DEF SlotInv, LocksInPlace, Swaps
  <2>7. CASE /\ recovery' = None
             /\ (\E s \in Store : Recovered(t, s)) \/ Rebuilds(t) \/ Fails(t)
             /\ t \in Reader => installed' = installed \/ installed = None
    <3>1. /\ at'[t] \in {"read", "rest", "ask", "fresh", "suspect", "target", "build"}
          /\ t \in Reader => at'[Writer] = at[Writer]
          /\ \A u \in Thread : u # t => at'[u] \in {at[u], "rest", "answered"}
      BY <2>2, <2>7, RecoverySays
    <3>2. \A u \in Thread : at'[u] \notin {"reopen", "move"}
      BY <2>4, <3>1
    <3>3. at'[Writer] \in {"condemn", "verify", "publish"} => installed' # None
      BY <1>0, <2>7, <3>1 DEF SlotInv, LocksInPlace, Thread
    <3>4. at'[Writer] \notin {"aside", "open"}
      BY <2>2, <3>1 DEF Swaps, Thread
    <3>5. QED
      BY <1>0, <2>2, <3>2, <3>3, <3>4 DEF LocksInPlace, Swaps
  <2>8. QED
    BY <2>3, <2>6, <2>7
<1>9. CASE \E t \in Thread : Move(t)
  <2>1. PICK t \in Thread : Move(t)
    BY <1>9
  <2>2. /\ at[t] = "move" /\ recovery = t /\ recovery' = None
        /\ UNCHANGED <<slotLock, share, installed, provisional>> /\ ThreadsTyped
        /\ Rebuilds(t) \/ Fails(t)
    BY <1>0, <2>1 DEF SlotInv, LocksInPlace, Move, slot, stores
  <2>3. /\ at'[t] \in {"read", "rest", "ask", "fresh", "suspect", "target", "build"}
        /\ t \in Reader => at'[Writer] = at[Writer]
        /\ \A u \in Thread : u # t => at'[u] \in {at[u], "rest", "answered"}
    BY <2>2, RecoverySays
  <2>4. \A u \in Thread : u # t => at[u] \notin {"reopen", "move"}
    BY <1>0, <2>2 DEF SlotInv, LocksInPlace
  <2>5. \A u \in Thread : at'[u] \notin {"reopen", "move"}
    BY <2>3, <2>4
  <2>6. t # Writer => at[Writer] # "aside"
    BY <1>0, <2>2 DEF SlotInv, LocksInPlace
  <2>7. \/ at'[Writer] = at[Writer] /\ at[Writer] # "aside"
        \/ /\ at[Writer] = "move"
           /\ at'[Writer] \in {"read", "rest", "ask", "fresh", "suspect", "target", "build"}
    BY <2>2, <2>3, <2>6 DEF Thread
  <2>8. QED
    BY <1>0, <2>2, <2>5, <2>7 DEF SlotInv, LocksInPlace, Swaps
<1>10. CASE TakeJob
  BY <1>0, GoesSays, <1>10 DEF SlotInv, LocksInPlace, SlotTyped, ThreadsTyped, OpenIsHeld,
    Swaps, Places, Over, Goes, TakeJob, slot, stores, locks, outside, history
<1>11. CASE CondemnSuspect
  BY <1>0, GoesSays, <1>11 DEF SlotInv, LocksInPlace, SlotTyped, ThreadsTyped, OpenIsHeld,
    Swaps, Places, Over, Goes, CondemnSuspect, slot, stores, locks, outside, history
<1>12. CASE CondemnMoves
  BY <1>0, EndsSays, GoesSays, <1>12 DEF SlotInv, LocksInPlace, SlotTyped, ThreadsTyped,
    OpenIsHeld, Swaps, Places, Over, Goes, CondemnMoves, MovesAside, MoveRefused, Mishap, slot,
    stores, locks, outside, history
<1>13. CASE Get
  BY <1>0, OpensSays, OpenFailsSays, EndsSays, GoesSays, <1>13 DEF SlotInv, LocksInPlace,
    SlotTyped, ThreadsTyped, OpenIsHeld, Swaps, Places, Over, Goes, Get, slot, stores, locks,
    outside, history
<1>14. CASE Build
  <2>1. /\ at[Writer] = "build" /\ ThreadsTyped /\ UNCHANGED <<slotLock, share, recovery>>
    BY <1>0, <1>14 DEF SlotInv, Build, locks
  <2>2. \/ \E ok \in BOOLEAN : Ends(ok)
        \/ \E p \in {"fresh", "publish", "recover", "suspect"} :
              Goes(Writer, p) /\ (p \in {"verify", "publish"} => installed' # None)
    BY <1>0, <1>14, OpensSays DEF Build, SlotInv, SlotTyped
  <2>3. CASE \E ok \in BOOLEAN : Ends(ok)
    <3>1. at'[Writer] = "rest" /\ \A t \in Thread : at'[t] \in {at[t], "rest", "answered"}
      BY <2>1, <2>3, EndsSays
    <3>2. QED
      BY <1>0, <2>1, <3>1 DEF SlotInv, LocksInPlace, Swaps
  <2>4. ASSUME NEW p \in {"fresh", "publish", "recover", "suspect"}, Goes(Writer, p),
               p \in {"verify", "publish"} => installed' # None
        PROVE  LocksInPlace'
    <3>1. p \in Places /\ Writer \in Thread
      BY DEF Places
    <3>2. at'[Writer] = p /\ \A u \in Thread : u # Writer => at'[u] = at[u]
      BY <2>1, <2>4, <3>1, GoesSays
    <3>3. QED
      BY <1>0, <2>1, <2>4, <3>2 DEF SlotInv, LocksInPlace, Swaps
  <2>5. QED
    BY <2>2, <2>3, <2>4
<1>15. CASE Target
  <2>1. /\ at[Writer] = "target" /\ ThreadsTyped /\ UNCHANGED <<slotLock, share, recovery>>
    BY <1>0, <1>15 DEF SlotInv, Target, locks
  <2>2. \/ \E ok \in BOOLEAN : Ends(ok)
        \/ \E p \in {"fresh", "verify", "recover"} :
              Goes(Writer, p) /\ (p \in {"verify", "publish"} => installed' # None)
    BY <1>0, <1>15, OpensSays DEF Target, SlotInv, SlotTyped
  <2>3. CASE \E ok \in BOOLEAN : Ends(ok)
    <3>1. at'[Writer] = "rest" /\ \A t \in Thread : at'[t] \in {at[t], "rest", "answered"}
      BY <2>1, <2>3, EndsSays
    <3>2. QED
      BY <1>0, <2>1, <3>1 DEF SlotInv, LocksInPlace, Swaps
  <2>4. ASSUME NEW p \in {"fresh", "verify", "recover"}, Goes(Writer, p),
               p \in {"verify", "publish"} => installed' # None
        PROVE  LocksInPlace'
    <3>1. p \in Places /\ Writer \in Thread
      BY DEF Places
    <3>2. at'[Writer] = p /\ \A u \in Thread : u # Writer => at'[u] = at[u]
      BY <2>1, <2>4, <3>1, GoesSays
    <3>3. QED
      BY <1>0, <2>1, <2>4, <3>2 DEF SlotInv, LocksInPlace, Swaps
  <2>5. QED
    BY <2>2, <2>3, <2>4
<1>16. CASE Verify
  BY <1>0, GoesSays, <1>16 DEF SlotInv, LocksInPlace, SlotTyped, ThreadsTyped, OpenIsHeld,
    Swaps, Places, Over, Goes, Verify, Condemns, slot, stores, locks, outside, history
<1>17. CASE FreshCloses
  <2>1. at[Writer] = "fresh" /\ slotLock = None /\ UNCHANGED recovery /\ ThreadsTyped
    BY <1>0, <1>17 DEF SlotInv, FreshCloses, locks
  <2>2. CASE Ends(FALSE) /\ UNCHANGED <<slot, locks>>
    <3>1. at'[Writer] = "rest" /\ \A t \in Thread : at'[t] \in {at[t], "rest", "answered"}
      BY <2>1, <2>2, EndsSays
    <3>2. QED
      BY <1>0, <2>1, <2>2, <3>1 DEF SlotInv, LocksInPlace, Swaps, locks
  <2>3. CASE /\ slotLock' = Writer /\ share' = Writer /\ installed' = None
             /\ provisional' = None /\ Goes(Writer, "open")
    <3>1. at'[Writer] = "open" /\ \A u \in Thread : u # Writer => at'[u] = at[u]
      BY <2>1, <2>3, GoesSays DEF Places
    <3>2. QED
      BY <1>0, <2>1, <2>3, <3>1 DEF SlotInv, LocksInPlace, Swaps
  <2>4. QED
    BY <1>17, <2>2, <2>3 DEF FreshCloses
<1>18. CASE FreshOpens
  <2>1. /\ at[Writer] = "open" /\ ThreadsTyped /\ UNCHANGED recovery /\ Goes(Writer, "publish")
        /\ slotLock' = None /\ share' = None /\ installed' = New /\ New \in Store
    BY <1>0, <1>18, NewIsFree DEF SlotInv, FreshOpens, Free
  <2>2. at'[Writer] = "publish" /\ \A u \in Thread : u # Writer => at'[u] = at[u]
    BY <2>1, GoesSays DEF Places
  <2>3. QED
    BY <1>0, <2>1, <2>2 DEF SlotInv, LocksInPlace, Swaps
<1>19. CASE Publish
  BY <1>0, EndsSays, <1>19 DEF SlotInv, LocksInPlace, SlotTyped, ThreadsTyped, OpenIsHeld,
    Swaps, Places, Over, Goes, Publish, Replaces, slot, stores, locks, outside, history
<1>20. CASE PublishFails
  BY <1>0, EndsSays, <1>20 DEF SlotInv, LocksInPlace, SlotTyped, ThreadsTyped, OpenIsHeld,
    Swaps, Places, Over, Goes, PublishFails, Replaces, Mishap, slot, stores, locks, outside, history
<1>21. CASE Damage
  BY <1>0, <1>21 DEF SlotInv, LocksInPlace, SlotTyped, ThreadsTyped, OpenIsHeld, Swaps, Places,
    Over, Goes, Damage, Mishap, slot, stores, locks, outside, history
<1>22. CASE OtherTakes
  BY <1>0, <1>22 DEF SlotInv, LocksInPlace, SlotTyped, ThreadsTyped, OpenIsHeld, Swaps, Places,
    Over, Goes, OtherTakes, Mishap, slot, stores, locks, outside, history
<1>23. CASE OtherWrites
  BY <1>0, <1>23 DEF SlotInv, LocksInPlace, SlotTyped, ThreadsTyped, OpenIsHeld, Swaps, Places,
    Over, Goes, OtherWrites, slot, stores, locks, outside, history
<1>24. CASE OtherLeaves
  BY <1>0, <1>24 DEF SlotInv, LocksInPlace, SlotTyped, ThreadsTyped, OpenIsHeld, Swaps, Places,
    Over, Goes, OtherLeaves, slot, stores, locks, outside, history
<1>25. CASE CloseWriter
  BY <1>0, <1>25 DEF SlotInv, LocksInPlace, SlotTyped, ThreadsTyped, OpenIsHeld, Swaps, Places,
    Over, Goes, CloseWriter, slot, stores, locks, outside, history
<1>26. CASE CloseSlot
  BY <1>0, <1>26 DEF SlotInv, LocksInPlace, SlotTyped, ThreadsTyped, OpenIsHeld, Swaps, Places,
    Over, Goes, CloseSlot, Discarded, slot, stores, locks, outside, history
<1>27. CASE Condemn
  BY <1>0, GoesSays, <1>27 DEF SlotInv, LocksInPlace, SlotTyped, ThreadsTyped, OpenIsHeld,
    Swaps, Places, Over, Goes, Condemn, Condemns, slot, stores, locks, outside, history
<1>28. CASE FreshFails
  BY <1>0, EndsSays, <1>28 DEF SlotInv, LocksInPlace, SlotTyped, ThreadsTyped, OpenIsHeld,
    Swaps, Places, Over, Goes, FreshFails, Mishap, slot, stores, locks, outside, history
<1>29. QED
  BY <1>0, <1>1, <1>2, <1>3, <1>4, <1>5, <1>6, <1>7, <1>8, <1>9, <1>10, <1>11, <1>12,
    <1>13, <1>14, <1>15, <1>16, <1>17, <1>18, <1>19, <1>20, <1>21, <1>22, <1>23, <1>24, <1>25,
    <1>26, <1>27, <1>28
    DEF SlotNext, SearchSteps, RecoverySteps, WriterSteps

(* Another process writes over an empty slot.                              *)
LEMMA OutsideAloneStep ==
  SlotInv /\ SlotNext => OutsideAlone'
<1>0. SUFFICES ASSUME SlotInv, SlotNext PROVE OutsideAlone'
  OBVIOUS
<1> USE NoneIsNoThread, WriterIsNoReader DEF Thread
<1>1. CASE \E r \in Reader : Search(r)
  <2>1. PICK r \in Reader : Search(r)
    BY <1>1
  <2>2. /\ Goes(r, "load") /\ "load" \in Places /\ r \in Thread /\ r # Writer
        /\ UNCHANGED <<stores, locks, outside, asked>>
    BY <2>1 DEF Search, Places, slot
  <2>3. ThreadsTyped /\ at'[r] = "load" /\ \A u \in Thread : u # r => at'[u] = at[u]
    BY <1>0, <2>2, GoesSays DEF SlotInv
  <2>4. at'[Writer] = at[Writer]
    BY <2>2, <2>3
  <2>5. QED
    BY <1>0, <2>2, <2>3, <2>4 DEF SlotInv, LocksInPlace, OutsideAlone, Swaps, stores, locks, outside
<1>2. CASE \E r \in Reader : Load(r)
  BY <1>0, OpensSays, OpenFailsSays, GoesSays, GetsSays, <1>2 DEF SlotInv, OutsideAlone,
    SlotTyped, ThreadsTyped, OpenIsHeld, LocksInPlace, Swaps, Places, Over, Goes, Shares, Load,
    slot, stores, locks, outside, history
<1>3. CASE \E r \in Reader : Read(r)
  BY <1>0, GoesSays, <1>3 DEF SlotInv, OutsideAlone, SlotTyped, ThreadsTyped, OpenIsHeld,
    LocksInPlace, Swaps, Places, Over, Goes, Shares, Read, slot, stores, locks, outside, history
<1>4. CASE \E r \in Reader : MarkSuspect(r)
  BY <1>0, GoesSays, <1>4 DEF SlotInv, OutsideAlone, SlotTyped, ThreadsTyped, OpenIsHeld,
    LocksInPlace, Swaps, Places, Over, Goes, Shares, MarkSuspect, slot, stores, locks, outside,
    history
<1>5. CASE \E r \in Reader : Ask(r)
  BY <1>0, GoesSays, <1>5 DEF SlotInv, OutsideAlone, SlotTyped, ThreadsTyped, OpenIsHeld,
    LocksInPlace, Swaps, Places, Over, Goes, Shares, Ask, slot, stores, locks, outside, history
<1>6. CASE \E r \in Reader : Answered(r)
  BY <1>0, GetsSays, <1>6 DEF SlotInv, OutsideAlone, SlotTyped, ThreadsTyped, OpenIsHeld,
    LocksInPlace, Swaps, Places, Over, Goes, Shares, Answered, slot, stores, locks, outside, history
<1>7. CASE \E t \in Thread : Recover(t)
  <2>1. PICK t \in Thread : Recover(t)
    BY <1>7
  <2>2. /\ at[t] = "recover" /\ recovery = None /\ recovery' = t
        /\ Goes(t, "reopen") /\ "reopen" \in Places
        /\ UNCHANGED <<installed, provisional, slotLock, share, other, closed, asked>>
    BY <2>1 DEF Recover, Places, slot, stores, outside
  <2>3. at'[t] = "reopen" /\ \A u \in Thread : u # t => at'[u] = at[u]
    BY <1>0, <2>2, GoesSays DEF SlotInv
  <2>4. \/ at'[Writer] = at[Writer]
        \/ at[Writer] = "recover" /\ at'[Writer] = "reopen"
    BY <2>2, <2>3
  <2>5. QED
    BY <1>0, <2>2, <2>3, <2>4 DEF SlotInv, LocksInPlace, OutsideAlone, Swaps
<1>8. CASE \E t \in Thread : Reopen(t)
  <2>1. PICK t \in Thread : Reopen(t)
    BY <1>8
  <2>2. /\ at[t] = "reopen" /\ recovery = t /\ ~Swaps
        /\ UNCHANGED <<other, closed, asked>> /\ ThreadsTyped
    BY <1>0, <2>1, OpensSays, OpenFailsSays DEF SlotInv, LocksInPlace, Reopen, Swaps, outside
  <2>3. t = Writer => closed # "slot"
    BY <1>0, <2>2 DEF SlotInv, OutsideAlone
  <2>4. other \/ closed = "slot" => UNCHANGED <<installed, provisional>>
    <3>1. CASE \E s \in Store : Opens(s)
      BY <1>0, <3>1, OpensSays
    <3>2. CASE \E why \in {"corrupt", "incompatible", "busy", "closed"} : OpenFails(why)
      BY <3>2, OpenFailsSays
    <3>3. QED
      BY <2>1, <3>1, <3>2 DEF Reopen
  <2>5. Goes(t, "move") \/ (\E s \in Store : Recovered(t, s)) \/ Rebuilds(t) \/ Fails(t)
    BY <2>1 DEF Reopen
  <2>6. /\ at'[t] \notin {"aside", "open"}
        /\ t \in Reader => at'[Writer] = at[Writer]
    <3>1. CASE Goes(t, "move")
      BY <2>2, <3>1, GoesSays DEF Places
    <3>2. CASE (\E s \in Store : Recovered(t, s)) \/ Rebuilds(t) \/ Fails(t)
      BY <2>2, <3>2, RecoverySays
    <3>3. QED
      BY <2>5, <3>1, <3>2
  <2>7. QED
    BY <1>0, <2>2, <2>3, <2>4, <2>6 DEF SlotInv, OutsideAlone, Swaps, Thread
<1>9. CASE \E t \in Thread : Move(t)
  <2>1. PICK t \in Thread : Move(t)
    BY <1>9
  <2>2. /\ at[t] = "move" /\ UNCHANGED <<other, closed, asked, installed, provisional>>
        /\ ThreadsTyped
        /\ Rebuilds(t) \/ Fails(t)
    BY <1>0, <2>1 DEF SlotInv, Move, MovesAside, MoveRefused, slot, stores
  <2>3. /\ at'[t] \in {"read", "rest", "ask", "fresh", "suspect", "target", "build"}
        /\ t \in Reader => at'[Writer] = at[Writer]
    BY <2>2, RecoverySays
  <2>4. \/ at'[Writer] = at[Writer]
        \/ /\ at[Writer] = "move"
           /\ at'[Writer] \in {"read", "rest", "ask", "fresh", "suspect", "target", "build"}
    BY <2>2, <2>3 DEF Thread
  <2>5. QED
    BY <1>0, <2>2, <2>4 DEF SlotInv, OutsideAlone, Swaps
<1>10. CASE TakeJob
  BY <1>0, GoesSays, <1>10 DEF SlotInv, OutsideAlone, SlotTyped, ThreadsTyped, OpenIsHeld,
    LocksInPlace, Swaps, Places, Over, Goes, Shares, TakeJob, slot, stores, locks, outside, history
<1>11. CASE CondemnSuspect
  BY <1>0, GoesSays, <1>11 DEF SlotInv, OutsideAlone, SlotTyped, ThreadsTyped, OpenIsHeld,
    LocksInPlace, Swaps, Places, Over, Goes, Shares, CondemnSuspect, slot, stores, locks,
    outside, history
<1>12. CASE CondemnMoves
  BY <1>0, EndsSays, GoesSays, <1>12 DEF SlotInv, OutsideAlone, SlotTyped, ThreadsTyped,
    OpenIsHeld, LocksInPlace, Swaps, Places, Over, Goes, Shares, CondemnMoves, MovesAside,
    MoveRefused, Mishap, slot, stores, locks, outside, history
<1>13. CASE Get
  BY <1>0, OpensSays, OpenFailsSays, EndsSays, GoesSays, <1>13 DEF SlotInv, OutsideAlone,
    SlotTyped, ThreadsTyped, OpenIsHeld, LocksInPlace, Swaps, Places, Over, Goes, Shares, Get,
    slot, stores, locks, outside, history
<1>14. CASE Build
  BY <1>0, OpensSays, OpenFailsSays, EndsSays, GoesSays, <1>14 DEF SlotInv, OutsideAlone,
    SlotTyped, ThreadsTyped, OpenIsHeld, LocksInPlace, Swaps, Places, Over, Goes, Shares, Build,
    slot, stores, locks, outside, history
<1>15. CASE Target
  BY <1>0, OpensSays, OpenFailsSays, EndsSays, GoesSays, <1>15 DEF SlotInv, OutsideAlone,
    SlotTyped, ThreadsTyped, OpenIsHeld, LocksInPlace, Swaps, Places, Over, Goes, Shares,
    Target, slot, stores, locks, outside, history
<1>16. CASE Verify
  BY <1>0, GoesSays, <1>16 DEF SlotInv, OutsideAlone, SlotTyped, ThreadsTyped, OpenIsHeld,
    LocksInPlace, Swaps, Places, Over, Goes, Shares, Verify, Condemns, slot, stores, locks, outside,
    history
<1>17. CASE FreshCloses
  BY <1>0, EndsSays, GoesSays, <1>17 DEF SlotInv, OutsideAlone, SlotTyped, ThreadsTyped,
    OpenIsHeld, LocksInPlace, Swaps, Places, Over, Goes, Shares, FreshCloses, Discarded, slot,
    stores, locks, outside, history
<1>18. CASE FreshOpens
  BY <1>0, GoesSays, <1>18 DEF SlotInv, OutsideAlone, SlotTyped, ThreadsTyped, OpenIsHeld,
    LocksInPlace, Swaps, Places, Over, Goes, Shares, FreshOpens, slot, stores, locks, outside,
    history
<1>19. CASE Publish
  BY <1>0, EndsSays, <1>19 DEF SlotInv, OutsideAlone, SlotTyped, ThreadsTyped, OpenIsHeld,
    LocksInPlace, Swaps, Places, Over, Goes, Shares, Publish, Replaces, slot, stores, locks,
    outside, history
<1>20. CASE PublishFails
  BY <1>0, EndsSays, <1>20 DEF SlotInv, OutsideAlone, SlotTyped, ThreadsTyped, OpenIsHeld,
    LocksInPlace, Swaps, Places, Over, Goes, Shares, PublishFails, Replaces, Mishap, slot, stores,
    locks, outside, history
<1>21. CASE Damage
  BY <1>0, <1>21 DEF SlotInv, OutsideAlone, SlotTyped, ThreadsTyped, OpenIsHeld, LocksInPlace,
    Swaps, Places, Over, Goes, Shares, Damage, Mishap, slot, stores, locks, outside, history
<1>22. CASE OtherTakes
  <2>1. Shares = 0 /\ UNCHANGED <<installed, provisional, at, closed, asked>>
    BY <1>22 DEF OtherTakes, slot, stores
  <2>2. share = None /\ \A s \in Store : ~Open(s)
    BY <2>1, NoShareIsLeft
  <2>3. installed = None /\ provisional = None /\ ~Swaps
    BY <1>0, <2>2 DEF SlotInv, SlotTyped, OpenIsHeld, LocksInPlace, Open
  <2>4. QED
    BY <1>0, <2>1, <2>3 DEF SlotInv, OutsideAlone, Swaps
<1>23. CASE OtherWrites
  BY <1>0, <1>23 DEF SlotInv, OutsideAlone, SlotTyped, ThreadsTyped, OpenIsHeld, LocksInPlace,
    Swaps, Places, Over, Goes, Shares, OtherWrites, slot, stores, locks, outside, history
<1>24. CASE OtherLeaves
  BY <1>0, <1>24 DEF SlotInv, OutsideAlone, SlotTyped, ThreadsTyped, OpenIsHeld, LocksInPlace,
    Swaps, Places, Over, Goes, Shares, OtherLeaves, slot, stores, locks, outside, history
<1>25. CASE CloseWriter
  BY <1>0, <1>25 DEF SlotInv, OutsideAlone, SlotTyped, ThreadsTyped, OpenIsHeld, LocksInPlace,
    Swaps, Places, Over, Goes, Shares, CloseWriter, slot, stores, locks, outside, history
<1>26. CASE CloseSlot
  BY <1>0, <1>26 DEF SlotInv, OutsideAlone, SlotTyped, ThreadsTyped, OpenIsHeld, LocksInPlace,
    Swaps, Places, Over, Goes, Shares, CloseSlot, Discarded, slot, stores, locks, outside, history
<1>27. CASE Condemn
  BY <1>0, GoesSays, <1>27 DEF SlotInv, OutsideAlone, SlotTyped, ThreadsTyped, OpenIsHeld,
    LocksInPlace, Swaps, Places, Over, Goes, Shares, Condemn, Condemns, slot, stores, locks,
    outside, history
<1>28. CASE FreshFails
  BY <1>0, EndsSays, <1>28 DEF SlotInv, OutsideAlone, SlotTyped, ThreadsTyped, OpenIsHeld,
    LocksInPlace, Swaps, Places, Over, Goes, Shares, FreshFails, Mishap, slot, stores, locks,
    outside, history
<1>29. QED
  BY <1>0, <1>1, <1>2, <1>3, <1>4, <1>5, <1>6, <1>7, <1>8, <1>9, <1>10, <1>11, <1>12,
    <1>13, <1>14, <1>15, <1>16, <1>17, <1>18, <1>19, <1>20, <1>21, <1>22, <1>23, <1>24, <1>25,
    <1>26, <1>27, <1>28
    DEF SlotNext, SearchSteps, RecoverySteps, WriterSteps


-----------------------------------------------------------------------------
(* Files that do not open are still found where nothing is open.           *)
LEMMA CorruptIsFoundStep ==
  Late = FALSE /\ SlotInv /\ DamageInv /\ SlotNext => CorruptIsFound'
<1>0. SUFFICES ASSUME Late = FALSE /\ SlotInv /\ DamageInv, SlotNext PROVE CorruptIsFound'
  OBVIOUS
<1> USE NoneIsNoThread, WriterIsNoReader DEF Thread
<1>1. CASE \E r \in Reader : Search(r)
  BY <1>0, GoesSays, <1>1 DEF SlotInv, DamageInv, CorruptIsFound, SlotTyped, ThreadsTyped,
    LocksInPlace, OutsideAlone, Swaps, Places, Search, slot, stores, locks, outside, history
<1>2. CASE \E r \in Reader : Load(r)
  BY <1>0, OpensSays, OpenFailsSays, GoesSays, GetsSays, OverSays, <1>2 DEF SlotInv, DamageInv,
    CorruptIsFound, SlotTyped, ThreadsTyped, LocksInPlace, OutsideAlone, Swaps, Places, Load,
    slot, stores, locks, outside, history
<1>3. CASE \E r \in Reader : Read(r)
  BY <1>0, GoesSays, OverSays, <1>3 DEF SlotInv, DamageInv, CorruptIsFound, SlotTyped,
    ThreadsTyped, LocksInPlace, OutsideAlone, Swaps, Places, Read, slot, stores, locks, outside,
    history
<1>4. CASE \E r \in Reader : MarkSuspect(r)
  BY <1>0, GoesSays, OverSays, <1>4 DEF SlotInv, DamageInv, CorruptIsFound, SlotTyped,
    ThreadsTyped, LocksInPlace, OutsideAlone, Swaps, Places, MarkSuspect, slot, stores, locks,
    outside, history
<1>5. CASE \E r \in Reader : Ask(r)
  BY <1>0, GoesSays, OverSays, <1>5 DEF SlotInv, DamageInv, CorruptIsFound, SlotTyped,
    ThreadsTyped, LocksInPlace, OutsideAlone, Swaps, Places, Ask, slot, stores, locks, outside,
    history
<1>6. CASE \E r \in Reader : Answered(r)
  BY <1>0, GetsSays, OverSays, <1>6 DEF SlotInv, DamageInv, CorruptIsFound, SlotTyped,
    ThreadsTyped, LocksInPlace, OutsideAlone, Swaps, Places, Answered, slot, stores, locks, outside,
    history
<1>7. CASE \E t \in Thread : Recover(t)
  BY <1>0, GoesSays, <1>7 DEF SlotInv, DamageInv, CorruptIsFound, SlotTyped, ThreadsTyped,
    LocksInPlace, OutsideAlone, Swaps, Places, Recover, slot, stores, locks, outside, history
<1>8. CASE \E t \in Thread : Reopen(t)
  <2>1. PICK t \in Thread : Reopen(t)
    BY <1>8
  <2>2. /\ at[t] = "reopen" /\ files' = files /\ ThreadsTyped /\ CorruptIsFound
        /\ (\E s \in Store : Opens(s)) \/ UNCHANGED <<installed, provisional>>
    BY <1>0, <2>1, OpenFailsSays DEF SlotInv, DamageInv, Reopen
  <2>3. CASE OpenFails("corrupt") /\ Goes(t, "move")
    <3>1. /\ files = "corrupt" /\ UNCHANGED <<installed, provisional>>
          /\ at'[t] = "move" /\ \A u \in Thread : u # t => at'[u] = at[u]
      BY <2>2, <2>3, OpenFailsSays, GoesSays DEF Places
    <3>2. at'[Writer] \in {at[Writer], "move"}
      BY <3>1
    <3>3. QED
      BY <2>2, <3>1, <3>2 DEF CorruptIsFound
  <2>4. CASE /\ (\E s \in Store : Recovered(t, s)) \/ Rebuilds(t) \/ Fails(t)
             /\ files = "corrupt" => Fails(t)
    <3>1. /\ at'[t] \in {"read", "rest", "ask", "fresh", "suspect", "target", "build"}
          /\ \A u \in Thread : u # t => at'[u] \in {at[u], "rest", "answered"}
      BY <2>2, <2>4, RecoverySays
    <3>2. \A u \in Thread : at'[u] = "move" => at[u] = "move"
      BY <3>1
    <3>3. files = "corrupt" => /\ UNCHANGED <<installed, provisional>>
                              /\ at'[Writer] \in {at[Writer], "rest", "answered"}
      BY <1>0, <2>2, <2>4, <3>1, FailsSays, CorruptRefuses
    <3>4. QED
      BY <2>2, <3>2, <3>3 DEF CorruptIsFound
  <2>5. QED
    BY <1>0, <2>1, <2>2, <2>3, <2>4, CorruptRefuses DEF Reopen
<1>9. CASE \E t \in Thread : Move(t)
  <2>1. PICK t \in Thread : Move(t)
    BY <1>9
  <2>2. /\ at[t] = "move" /\ recovery = t /\ files = "corrupt" /\ ThreadsTyped
        /\ CorruptIsFound /\ UNCHANGED <<installed, provisional>>
    BY <1>0, <2>1 DEF SlotInv, DamageInv, LocksInPlace, CorruptIsFound, Move, slot, stores
  <2>3. (Rebuilds(t) /\ files' = "none") \/ (Fails(t) /\ files' = files)
    BY <2>1 DEF Move, MovesAside, MoveRefused
  <2>4. /\ at'[t] \in {"read", "rest", "ask", "fresh", "suspect", "target", "build"}
        /\ \A u \in Thread : u # t => at'[u] \in {at[u], "rest", "answered"}
    BY <2>2, <2>3, RecoverySays
  <2>5. \A u \in Thread : at'[u] # "move"
    BY <1>0, <2>2, <2>4 DEF SlotInv, LocksInPlace
  <2>6. files' = "corrupt" => at'[Writer] \in {at[Writer], "rest", "answered"}
    BY <2>2, <2>3, <2>4, FailsSays
  <2>7. QED
    BY <2>2, <2>5, <2>6 DEF CorruptIsFound
<1>10. CASE TakeJob
  BY <1>0, GoesSays, <1>10 DEF SlotInv, DamageInv, CorruptIsFound, SlotTyped, ThreadsTyped,
    LocksInPlace, OutsideAlone, Swaps, Places, TakeJob, slot, stores, locks, outside, history
<1>11. CASE CondemnSuspect
  BY <1>0, GoesSays, <1>11 DEF SlotInv, DamageInv, CorruptIsFound, SlotTyped, ThreadsTyped,
    LocksInPlace, OutsideAlone, Swaps, Places, CondemnSuspect, slot, stores, locks, outside,
    history
<1>12. CASE CondemnMoves
  BY <1>0, EndsSays, GoesSays, <1>12 DEF SlotInv, DamageInv, CorruptIsFound, SlotTyped,
    ThreadsTyped, LocksInPlace, OutsideAlone, Swaps, Places, CondemnMoves, MovesAside,
    MoveRefused, Mishap, slot, stores, locks, outside, history
<1>13. CASE Get
  <2>1. /\ at[Writer] = "get" /\ files' = files /\ ThreadsTyped /\ CorruptIsFound
        /\ (\E s \in Store : Opens(s)) \/ UNCHANGED <<installed, provisional>>
    BY <1>0, <1>13, OpenFailsSays DEF SlotInv, DamageInv, Get
  <2>2. files = "corrupt" => UNCHANGED <<installed, provisional>>
    BY <1>0, <2>1, CorruptRefuses
  <2>3. \/ \E ok \in BOOLEAN : Ends(ok)
        \/ \E p \in {"build", "target"} :
              Goes(Writer, p) /\ (files = "corrupt" => p = "recover")
    BY <1>0, <1>13, <2>1, CorruptRefuses DEF Get
  <2>4. /\ files = "corrupt" => at'[Writer] \notin {"aside", "fresh", "open"}
        /\ \A t \in Thread : at'[t] = "move" => at[t] = "move"
    <3>1. CASE \E ok \in BOOLEAN : Ends(ok)
      BY <2>1, <3>1, EndsSays
    <3>2. ASSUME NEW p \in {"build", "target"}, Goes(Writer, p),
                 files = "corrupt" => p = "recover"
          PROVE  /\ files = "corrupt" => at'[Writer] \notin {"aside", "fresh", "open"}
                 /\ \A t \in Thread : at'[t] = "move" => at[t] = "move"
      BY <2>1, <3>2, GoesSays DEF Places
    <3>3. QED
      BY <2>3, <3>1, <3>2
  <2>5. QED
    BY <2>1, <2>2, <2>4 DEF CorruptIsFound
<1>14. CASE Build
  <2>1. /\ at[Writer] = "build" /\ files' = files /\ ThreadsTyped /\ CorruptIsFound
        /\ (\E s \in Store : Opens(s)) \/ UNCHANGED <<installed, provisional>>
    BY <1>0, <1>14, OpenFailsSays DEF SlotInv, DamageInv, Build
  <2>2. files = "corrupt" => UNCHANGED <<installed, provisional>>
    BY <1>0, <2>1, CorruptRefuses
  <2>3. \/ \E ok \in BOOLEAN : Ends(ok)
        \/ \E p \in {"fresh", "publish", "recover", "suspect"} :
              Goes(Writer, p) /\ (files = "corrupt" => p = "recover")
    BY <1>0, <1>14, <2>1, CorruptRefuses DEF Build
  <2>4. /\ files = "corrupt" => at'[Writer] \notin {"aside", "fresh", "open"}
        /\ \A t \in Thread : at'[t] = "move" => at[t] = "move"
    <3>1. CASE \E ok \in BOOLEAN : Ends(ok)
      BY <2>1, <3>1, EndsSays
    <3>2. ASSUME NEW p \in {"fresh", "publish", "recover", "suspect"}, Goes(Writer, p),
                 files = "corrupt" => p = "recover"
          PROVE  /\ files = "corrupt" => at'[Writer] \notin {"aside", "fresh", "open"}
                 /\ \A t \in Thread : at'[t] = "move" => at[t] = "move"
      BY <2>1, <3>2, GoesSays DEF Places
    <3>3. QED
      BY <2>3, <3>1, <3>2
  <2>5. QED
    BY <2>1, <2>2, <2>4 DEF CorruptIsFound
<1>15. CASE Target
  <2>1. /\ at[Writer] = "target" /\ files' = files /\ ThreadsTyped /\ CorruptIsFound
        /\ (\E s \in Store : Opens(s)) \/ UNCHANGED <<installed, provisional>>
    BY <1>0, <1>15, OpenFailsSays DEF SlotInv, DamageInv, Target
  <2>2. files = "corrupt" => UNCHANGED <<installed, provisional>>
    BY <1>0, <2>1, CorruptRefuses
  <2>3. \/ \E ok \in BOOLEAN : Ends(ok)
        \/ \E p \in {"fresh", "verify", "recover"} :
              Goes(Writer, p) /\ (files = "corrupt" => p = "recover")
    BY <1>0, <1>15, <2>1, CorruptRefuses DEF Target
  <2>4. /\ files = "corrupt" => at'[Writer] \notin {"aside", "fresh", "open"}
        /\ \A t \in Thread : at'[t] = "move" => at[t] = "move"
    <3>1. CASE \E ok \in BOOLEAN : Ends(ok)
      BY <2>1, <3>1, EndsSays
    <3>2. ASSUME NEW p \in {"fresh", "verify", "recover"}, Goes(Writer, p),
                 files = "corrupt" => p = "recover"
          PROVE  /\ files = "corrupt" => at'[Writer] \notin {"aside", "fresh", "open"}
                 /\ \A t \in Thread : at'[t] = "move" => at[t] = "move"
      BY <2>1, <3>2, GoesSays DEF Places
    <3>3. QED
      BY <2>3, <3>1, <3>2
  <2>5. QED
    BY <2>1, <2>2, <2>4 DEF CorruptIsFound
<1>16. CASE Verify
  BY <1>0, GoesSays, <1>16 DEF SlotInv, DamageInv, CorruptIsFound, SlotTyped, ThreadsTyped,
    LocksInPlace, OutsideAlone, Swaps, Places, Verify, Condemns, slot, stores, locks, outside,
    history
<1>17. CASE FreshCloses
  <2>1. /\ at[Writer] = "fresh" /\ files' = files /\ ThreadsTyped /\ CorruptIsFound
        /\ Ends(FALSE) \/ Goes(Writer, "open")
    BY <1>0, <1>17 DEF SlotInv, DamageInv, FreshCloses
  <2>2. files # "corrupt"
    BY <2>1 DEF CorruptIsFound
  <2>3. \A t \in Thread : at'[t] = "move" => at[t] = "move"
    BY <2>1, EndsSays, GoesSays DEF Places
  <2>4. QED
    BY <2>1, <2>2, <2>3 DEF CorruptIsFound
<1>18. CASE FreshOpens
  BY <1>0, GoesSays, NewIsFree, <1>18 DEF SlotInv, DamageInv, CorruptIsFound, SlotTyped,
    ThreadsTyped, LocksInPlace, OutsideAlone, Swaps, Places, FreshOpens, slot, stores, locks,
    outside, history
<1>19. CASE Publish
  <2>1. /\ at[Writer] = "publish" /\ ThreadsTyped /\ CorruptIsFound /\ Ends(TRUE)
        /\ files' \in {files, "fine"}
    BY <1>0, <1>19 DEF SlotInv, DamageInv, Publish
  <2>2. files # "corrupt"
    BY <1>0, <2>1 DEF SlotInv, LocksInPlace, CorruptIsFound
  <2>3. \A t \in Thread : at'[t] = "move" => at[t] = "move"
    BY <2>1, EndsSays
  <2>4. QED
    BY <2>1, <2>2, <2>3 DEF CorruptIsFound
<1>20. CASE PublishFails
  BY <1>0, EndsSays, <1>20 DEF SlotInv, DamageInv, CorruptIsFound, SlotTyped, ThreadsTyped,
    LocksInPlace, OutsideAlone, Swaps, Places, PublishFails, Replaces, Mishap, slot, stores,
    locks, outside, history
<1>21. CASE Damage
  BY <1>0, <1>21 DEF SlotInv, DamageInv, CorruptIsFound, SlotTyped, ThreadsTyped, LocksInPlace,
    OutsideAlone, Swaps, Places, Damage, Mishap, slot, stores, locks, outside, history
<1>22. CASE OtherTakes
  BY <1>0, <1>22 DEF SlotInv, DamageInv, CorruptIsFound, SlotTyped, ThreadsTyped, LocksInPlace,
    OutsideAlone, Swaps, Places, OtherTakes, Mishap, slot, stores, locks, outside, history
<1>23. CASE OtherWrites
  <2>1. files \notin Damaged /\ files' \in {"fine", "other"} /\ at' = at
    BY <1>0, <1>23 DEF OtherWrites
  <2>2. QED
    BY <1>0, <2>1 DEF DamageInv, CorruptIsFound, Damaged
<1>24. CASE OtherLeaves
  BY <1>0, <1>24 DEF SlotInv, DamageInv, CorruptIsFound, SlotTyped, ThreadsTyped, LocksInPlace,
    OutsideAlone, Swaps, Places, OtherLeaves, slot, stores, locks, outside, history
<1>25. CASE CloseWriter
  BY <1>0, <1>25 DEF SlotInv, DamageInv, CorruptIsFound, SlotTyped, ThreadsTyped, LocksInPlace,
    OutsideAlone, Swaps, Places, CloseWriter, slot, stores, locks, outside, history
<1>26. CASE CloseSlot
  BY <1>0, <1>26 DEF SlotInv, DamageInv, CorruptIsFound, SlotTyped, ThreadsTyped, LocksInPlace,
    OutsideAlone, Swaps, Places, CloseSlot, Discarded, slot, stores, locks, outside, history
<1>27. CASE Condemn
  BY <1>0, GoesSays, <1>27 DEF SlotInv, DamageInv, CorruptIsFound, SlotTyped, ThreadsTyped,
    LocksInPlace, OutsideAlone, Swaps, Places, Condemn, Condemns, slot, stores, locks, outside,
    history
<1>28. CASE FreshFails
  BY <1>0, EndsSays, <1>28 DEF SlotInv, DamageInv, CorruptIsFound, SlotTyped, ThreadsTyped,
    LocksInPlace, OutsideAlone, Swaps, Places, FreshFails, Mishap, slot, stores, locks, outside,
    history
<1>29. QED
  BY <1>0, <1>1, <1>2, <1>3, <1>4, <1>5, <1>6, <1>7, <1>8, <1>9, <1>10, <1>11, <1>12,
    <1>13, <1>14, <1>15, <1>16, <1>17, <1>18, <1>19, <1>20, <1>21, <1>22, <1>23, <1>24, <1>25,
    <1>26, <1>27, <1>28
    DEF SlotNext, SearchSteps, RecoverySteps, WriterSteps

(* What is condemned is still damaged.                                     *)
LEMMA SuspectIsDamagedStep ==
  Late = FALSE /\ SlotInv /\ DamageInv /\ SlotNext => SuspectIsDamaged'
<1>0. SUFFICES ASSUME Late = FALSE /\ SlotInv /\ DamageInv, SlotNext PROVE SuspectIsDamaged'
  OBVIOUS
<1> USE NoneIsNoThread, WriterIsNoReader DEF Thread
<1>1. CASE \E r \in Reader : Search(r)
  BY <1>0, GoesSays, <1>1 DEF SlotInv, DamageInv, SuspectIsDamaged, SlotTyped, OutsideTyped,
    ThreadsTyped, OpenIsHeld, LocksInPlace, OutsideAlone, CorruptIsFound, Condemnable, Free,
    Damaged, File, Swaps, Places, Search, slot, stores, locks, outside, history
<1>2. CASE \E r \in Reader : Load(r)
  BY <1>0, OpensSays, OpenFailsSays, GoesSays, GetsSays, OverSays, <1>2 DEF SlotInv, DamageInv,
    SuspectIsDamaged, SlotTyped, OutsideTyped, ThreadsTyped, OpenIsHeld, LocksInPlace,
    OutsideAlone, CorruptIsFound, Condemnable, Free, Damaged, File, Swaps, Places, Load, slot,
    stores, locks, outside, history
<1>3. CASE \E r \in Reader : Read(r)
  BY <1>0, GoesSays, OverSays, <1>3 DEF SlotInv, DamageInv, SuspectIsDamaged, SlotTyped,
    OutsideTyped, ThreadsTyped, OpenIsHeld, LocksInPlace, OutsideAlone, CorruptIsFound,
    Condemnable, Free, Damaged, File, Swaps, Places, Read, slot, stores, locks, outside, history
<1>4. CASE \E r \in Reader : MarkSuspect(r)
  BY <1>0, GoesSays, OverSays, <1>4 DEF SlotInv, DamageInv, SuspectIsDamaged, SlotTyped,
    OutsideTyped, ThreadsTyped, OpenIsHeld, LocksInPlace, OutsideAlone, CorruptIsFound,
    Condemnable, Free, Damaged, File, Swaps, Places, MarkSuspect, slot, stores, locks, outside,
    history
<1>5. CASE \E r \in Reader : Ask(r)
  BY <1>0, GoesSays, OverSays, <1>5 DEF SlotInv, DamageInv, SuspectIsDamaged, SlotTyped,
    OutsideTyped, ThreadsTyped, OpenIsHeld, LocksInPlace, OutsideAlone, CorruptIsFound,
    Condemnable, Free, Damaged, File, Swaps, Places, Ask, slot, stores, locks, outside, history
<1>6. CASE \E r \in Reader : Answered(r)
  BY <1>0, GetsSays, OverSays, <1>6 DEF SlotInv, DamageInv, SuspectIsDamaged, SlotTyped,
    OutsideTyped, ThreadsTyped, OpenIsHeld, LocksInPlace, OutsideAlone, CorruptIsFound,
    Condemnable, Free, Damaged, File, Swaps, Places, Answered, slot, stores, locks, outside, history
<1>7. CASE \E t \in Thread : Recover(t)
  BY <1>0, GoesSays, <1>7 DEF SlotInv, DamageInv, SuspectIsDamaged, SlotTyped, OutsideTyped,
    ThreadsTyped, OpenIsHeld, LocksInPlace, OutsideAlone, CorruptIsFound, Condemnable, Free,
    Damaged, File, Swaps, Places, Recover, slot, stores, locks, outside, history
<1>8. CASE \E t \in Thread : Reopen(t)
  <2>1. PICK t \in Thread : Reopen(t)
    BY <1>8
  <2>2. /\ at[t] = "reopen" /\ files' = files /\ unseen' = unseen
        /\ ThreadsTyped /\ SuspectIsDamaged
        /\ (\E s \in Store : Opens(s)) \/ UNCHANGED <<kind, installed, suspect>>
    BY <1>0, <2>1, OpenFailsSays DEF SlotInv, DamageInv, Reopen, history
  <2>3. /\ at'[t] \notin {"mark", "condemn", "aside", "publish"}
        /\ t \in Reader => at'[Writer] = at[Writer]
        /\ \A r \in Reader : at'[r] = "mark" => at[r] = "mark" /\ reads'[r] \in {None, reads[r]}
    <3>1. CASE Goes(t, "move") /\ UNCHANGED reads
      BY <2>2, <3>1, GoesSays DEF Places
    <3>2. CASE (\E s \in Store : Recovered(t, s)) \/ Rebuilds(t) \/ Fails(t)
      BY <2>2, <3>2, RecoverySays
    <3>3. QED
      BY <2>1, <3>1, <3>2 DEF Reopen
  <2>4. /\ installed' # None /\ suspect' = installed' => Condemnable'
        /\ \A r \in Reader :
             installed' # None /\ at'[r] = "mark" /\ reads'[r] = installed' => Condemnable'
        /\ installed # None =>
             (Condemnable <=> Condemnable') /\ kind'[installed'] = kind[installed]
    BY <1>0, <2>2, <2>3, OpensKeepsSuspicion
  <2>5. at'[Writer] \in {"condemn", "aside", "publish"} => at'[Writer] = at[Writer]
    BY <2>3 DEF Thread
  <2>6. at[Writer] \in {"condemn", "publish"} => installed # None
    BY <1>0 DEF SlotInv, LocksInPlace
  <2>7. at'[Writer] = "condemn" => Condemnable'
    BY <2>2, <2>4, <2>5, <2>6 DEF SuspectIsDamaged
  <2>8. at'[Writer] = "publish" /\ kind'[installed'] = "sized" /\ files' \in Damaged => unseen'
    BY <2>2, <2>4, <2>5, <2>6 DEF SuspectIsDamaged
  <2>9. QED
    BY <2>2, <2>4, <2>5, <2>7, <2>8 DEF SuspectIsDamaged
<1>9. CASE \E t \in Thread : Move(t)
  <2>1. PICK t \in Thread : Move(t)
    BY <1>9
  <2>2. /\ at[t] = "move" /\ recovery = t /\ installed' = None /\ ThreadsTyped
        /\ at[Writer] \notin {"condemn", "aside", "publish"}
    BY <1>0, <2>1 DEF SlotInv, DamageInv, LocksInPlace, CorruptIsFound, Move, slot, stores
  <2>3. /\ at'[t] \in {"read", "rest", "ask", "fresh", "suspect", "target", "build"}
        /\ \A u \in Thread : u # t => at'[u] \in {at[u], "rest", "answered"}
    BY <2>1, <2>2, RecoverySays DEF Move
  <2>4. at'[Writer] \notin {"condemn", "aside", "publish"}
    BY <2>2, <2>3
  <2>5. QED
    BY <2>2, <2>4 DEF SuspectIsDamaged
<1>10. CASE TakeJob
  BY <1>0, GoesSays, <1>10 DEF SlotInv, DamageInv, SuspectIsDamaged, SlotTyped, OutsideTyped,
    ThreadsTyped, OpenIsHeld, LocksInPlace, OutsideAlone, CorruptIsFound, Condemnable, Free,
    Damaged, File, Swaps, Places, TakeJob, slot, stores, locks, outside, history
<1>11. CASE CondemnSuspect
  BY <1>0, GoesSays, <1>11 DEF SlotInv, DamageInv, SuspectIsDamaged, SlotTyped, OutsideTyped,
    ThreadsTyped, OpenIsHeld, LocksInPlace, OutsideAlone, CorruptIsFound, Condemnable, Free,
    Damaged, File, Swaps, Places, CondemnSuspect, slot, stores, locks, outside, history
<1>12. CASE CondemnMoves
  BY <1>0, EndsSays, GoesSays, <1>12 DEF SlotInv, DamageInv, SuspectIsDamaged, SlotTyped,
    OutsideTyped, ThreadsTyped, OpenIsHeld, LocksInPlace, OutsideAlone, CorruptIsFound,
    Condemnable, Free, Damaged, File, Swaps, Places, CondemnMoves, MovesAside, MoveRefused,
    Mishap, slot, stores, locks, outside, history
<1>13. CASE Get
  <2>1. /\ at[Writer] = "get" /\ files' = files /\ ThreadsTyped /\ SuspectIsDamaged
        /\ unseen' = unseen
        /\ (\E s \in Store : Opens(s)) \/ UNCHANGED <<kind, installed, suspect>>
    BY <1>0, <1>13, OpenFailsSays DEF SlotInv, DamageInv, Get, history
  <2>2. \/ \E ok \in BOOLEAN : Ends(ok)
        \/ \E p \in {"build", "target"} :
              /\ Goes(Writer, p) /\ UNCHANGED reads
              /\ p = "publish" => kind'[installed'] = "fresh" \/ files = "none"
    BY <1>0, <1>13, OpensSays DEF Get, SlotInv, SlotTyped
  <2>3. /\ at'[Writer] = "publish" => kind'[installed'] # "sized" \/ files' \notin Damaged
        /\ at'[Writer] \notin {"condemn", "aside"}
        /\ \A r \in Reader : at'[r] = "mark" => at[r] = "mark" /\ reads'[r] \in {None, reads[r]}
    <3>1. CASE \E ok \in BOOLEAN : Ends(ok)
      BY <2>1, <3>1, EndsSays
    <3>2. ASSUME NEW p \in {"build", "target"}, Goes(Writer, p),
                 UNCHANGED reads, p = "publish" => kind'[installed'] = "fresh" \/ files = "none"
          PROVE  /\ at'[Writer] = "publish" => kind'[installed'] # "sized" \/ files' \notin Damaged
                 /\ at'[Writer] \notin {"condemn", "aside"}
                 /\ \A r \in Reader :
                      at'[r] = "mark" => at[r] = "mark" /\ reads'[r] \in {None, reads[r]}
      BY <2>1, <3>2, GoesSays DEF Places, Damaged
    <3>3. QED
      BY <2>2, <3>1, <3>2
  <2>4. /\ installed' # None /\ suspect' = installed' => Condemnable'
        /\ \A r \in Reader :
             installed' # None /\ at'[r] = "mark" /\ reads'[r] = installed' => Condemnable'
    BY <1>0, <2>1, <2>3, OpensKeepsSuspicion
  <2>5. QED
    BY <2>3, <2>4 DEF SuspectIsDamaged
<1>14. CASE Build
  <2>1. /\ at[Writer] = "build" /\ files' = files /\ ThreadsTyped /\ SuspectIsDamaged
        /\ unseen' = unseen
        /\ (\E s \in Store : Opens(s)) \/ UNCHANGED <<kind, installed, suspect>>
    BY <1>0, <1>14, OpenFailsSays DEF SlotInv, DamageInv, Build, history
  <2>2. \/ \E ok \in BOOLEAN : Ends(ok)
        \/ \E p \in {"fresh", "publish", "recover", "suspect"} :
              /\ Goes(Writer, p) /\ UNCHANGED reads
              /\ p = "publish" => kind'[installed'] = "fresh" \/ files = "none"
    BY <1>0, <1>14, OpensSays DEF Build, SlotInv, SlotTyped
  <2>3. /\ at'[Writer] = "publish" => kind'[installed'] # "sized" \/ files' \notin Damaged
        /\ at'[Writer] \notin {"condemn", "aside"}
        /\ \A r \in Reader : at'[r] = "mark" => at[r] = "mark" /\ reads'[r] \in {None, reads[r]}
    <3>1. CASE \E ok \in BOOLEAN : Ends(ok)
      BY <2>1, <3>1, EndsSays
    <3>2. ASSUME NEW p \in {"fresh", "publish", "recover", "suspect"}, Goes(Writer, p),
                 UNCHANGED reads, p = "publish" => kind'[installed'] = "fresh" \/ files = "none"
          PROVE  /\ at'[Writer] = "publish" => kind'[installed'] # "sized" \/ files' \notin Damaged
                 /\ at'[Writer] \notin {"condemn", "aside"}
                 /\ \A r \in Reader :
                      at'[r] = "mark" => at[r] = "mark" /\ reads'[r] \in {None, reads[r]}
      BY <2>1, <3>2, GoesSays DEF Places, Damaged
    <3>3. QED
      BY <2>2, <3>1, <3>2
  <2>4. /\ installed' # None /\ suspect' = installed' => Condemnable'
        /\ \A r \in Reader :
             installed' # None /\ at'[r] = "mark" /\ reads'[r] = installed' => Condemnable'
    BY <1>0, <2>1, <2>3, OpensKeepsSuspicion
  <2>5. QED
    BY <2>3, <2>4 DEF SuspectIsDamaged
<1>15. CASE Target
  <2>1. /\ at[Writer] = "target" /\ files' = files /\ ThreadsTyped /\ SuspectIsDamaged
        /\ unseen' = unseen
        /\ (\E s \in Store : Opens(s)) \/ UNCHANGED <<kind, installed, suspect>>
    BY <1>0, <1>15, OpenFailsSays DEF SlotInv, DamageInv, Target, history
  <2>2. \/ \E ok \in BOOLEAN : Ends(ok)
        \/ \E p \in {"fresh", "verify", "recover"} :
              /\ Goes(Writer, p) /\ UNCHANGED reads
              /\ p = "publish" => kind'[installed'] = "fresh" \/ files = "none"
    BY <1>0, <1>15, OpensSays DEF Target, SlotInv, SlotTyped
  <2>3. /\ at'[Writer] = "publish" => kind'[installed'] # "sized" \/ files' \notin Damaged
        /\ at'[Writer] \notin {"condemn", "aside"}
        /\ \A r \in Reader : at'[r] = "mark" => at[r] = "mark" /\ reads'[r] \in {None, reads[r]}
    <3>1. CASE \E ok \in BOOLEAN : Ends(ok)
      BY <2>1, <3>1, EndsSays
    <3>2. ASSUME NEW p \in {"fresh", "verify", "recover"}, Goes(Writer, p),
                 UNCHANGED reads, p = "publish" => kind'[installed'] = "fresh" \/ files = "none"
          PROVE  /\ at'[Writer] = "publish" => kind'[installed'] # "sized" \/ files' \notin Damaged
                 /\ at'[Writer] \notin {"condemn", "aside"}
                 /\ \A r \in Reader :
                      at'[r] = "mark" => at[r] = "mark" /\ reads'[r] \in {None, reads[r]}
      BY <2>1, <3>2, GoesSays DEF Places, Damaged
    <3>3. QED
      BY <2>2, <3>1, <3>2
  <2>4. /\ installed' # None /\ suspect' = installed' => Condemnable'
        /\ \A r \in Reader :
             installed' # None /\ at'[r] = "mark" /\ reads'[r] = installed' => Condemnable'
    BY <1>0, <2>1, <2>3, OpensKeepsSuspicion
  <2>5. QED
    BY <2>3, <2>4 DEF SuspectIsDamaged
<1>16. CASE Verify
  BY <1>0, GoesSays, <1>16 DEF SlotInv, DamageInv, SuspectIsDamaged, SlotTyped, OutsideTyped,
    ThreadsTyped, OpenIsHeld, LocksInPlace, OutsideAlone, CorruptIsFound, Condemnable, Free,
    Damaged, File, Swaps, Places, Verify, Condemns, slot, stores, locks, outside, history
<1>17. CASE FreshCloses
  BY <1>0, EndsSays, GoesSays, <1>17 DEF SlotInv, DamageInv, SuspectIsDamaged, SlotTyped,
    OutsideTyped, ThreadsTyped, OpenIsHeld, LocksInPlace, OutsideAlone, CorruptIsFound,
    Condemnable, Free, Damaged, File, Swaps, Places, FreshCloses, Discarded, slot, stores, locks,
    outside, history
<1>18. CASE FreshOpens
  BY <1>0, GoesSays, NewIsFree, <1>18 DEF SlotInv, DamageInv, SuspectIsDamaged, SlotTyped,
    OutsideTyped, ThreadsTyped, OpenIsHeld, LocksInPlace, OutsideAlone, CorruptIsFound,
    Condemnable, Free, Damaged, File, Swaps, Places, FreshOpens, slot, stores, locks, outside,
    history
<1>19. CASE Publish
  <2>1. /\ at[Writer] = "publish" /\ ThreadsTyped /\ SuspectIsDamaged /\ Ends(TRUE)
        /\ installed \in Store /\ UNCHANGED <<installed, suspect>>
        /\ kind'[installed] = "sized" /\ unseen' = unseen
    BY <1>0, <1>19 DEF SlotInv, DamageInv, SlotTyped, LocksInPlace, Publish
  <2>2. /\ at'[Writer] = "rest"
        /\ \A t \in Thread : at'[t] \in {at[t], "rest", "answered"}
        /\ \A r \in Reader : reads'[r] \in {None, reads[r]}
    BY <2>1, EndsSays
  <2>3. Condemnable => Condemnable'
    BY <2>1 DEF Condemnable, SuspectIsDamaged
  <2>4. QED
    BY <2>1, <2>2, <2>3 DEF SuspectIsDamaged
<1>20. CASE PublishFails
  BY <1>0, EndsSays, <1>20 DEF SlotInv, DamageInv, SuspectIsDamaged, SlotTyped, OutsideTyped,
    ThreadsTyped, OpenIsHeld, LocksInPlace, OutsideAlone, CorruptIsFound, Condemnable, Free,
    Damaged, File, Swaps, Places, PublishFails, Replaces, Mishap, slot, stores, locks, outside,
    history
<1>21. CASE Damage
  <2>1. /\ files \notin Damaged /\ UNCHANGED <<kind, installed, suspect, at, reads>>
        /\ files' \in Damaged /\ (unseen' <=> at[Writer] = "publish")
    BY <1>0, <1>21 DEF Damage, Damaged, slot, stores
  <2>2. QED
    BY <1>0, <2>1 DEF DamageInv, SuspectIsDamaged, Condemnable
<1>22. CASE OtherTakes
  BY <1>0, <1>22 DEF SlotInv, DamageInv, SuspectIsDamaged, SlotTyped, OutsideTyped,
    ThreadsTyped, OpenIsHeld, LocksInPlace, OutsideAlone, CorruptIsFound, Condemnable, Free,
    Damaged, File, Swaps, Places, OtherTakes, Mishap, slot, stores, locks, outside, history
<1>23. CASE OtherWrites
  BY <1>0, <1>23 DEF SlotInv, DamageInv, SuspectIsDamaged, SlotTyped, OutsideTyped,
    ThreadsTyped, OpenIsHeld, LocksInPlace, OutsideAlone, CorruptIsFound, Condemnable, Free,
    Damaged, File, Swaps, Places, OtherWrites, slot, stores, locks, outside, history
<1>24. CASE OtherLeaves
  BY <1>0, <1>24 DEF SlotInv, DamageInv, SuspectIsDamaged, SlotTyped, OutsideTyped,
    ThreadsTyped, OpenIsHeld, LocksInPlace, OutsideAlone, CorruptIsFound, Condemnable, Free,
    Damaged, File, Swaps, Places, OtherLeaves, slot, stores, locks, outside, history
<1>25. CASE CloseWriter
  BY <1>0, <1>25 DEF SlotInv, DamageInv, SuspectIsDamaged, SlotTyped, OutsideTyped,
    ThreadsTyped, OpenIsHeld, LocksInPlace, OutsideAlone, CorruptIsFound, Condemnable, Free,
    Damaged, File, Swaps, Places, CloseWriter, slot, stores, locks, outside, history
<1>26. CASE CloseSlot
  BY <1>0, <1>26 DEF SlotInv, DamageInv, SuspectIsDamaged, SlotTyped, OutsideTyped,
    ThreadsTyped, OpenIsHeld, LocksInPlace, OutsideAlone, CorruptIsFound, Condemnable, Free,
    Damaged, File, Swaps, Places, CloseSlot, Discarded, slot, stores, locks, outside, history
<1>27. CASE Condemn
  BY <1>0, GoesSays, <1>27 DEF SlotInv, DamageInv, SuspectIsDamaged, SlotTyped, OutsideTyped,
    ThreadsTyped, OpenIsHeld, LocksInPlace, OutsideAlone, CorruptIsFound, Condemnable, Free,
    Damaged, File, Swaps, Places, Condemn, Condemns, slot, stores, locks, outside, history
<1>28. CASE FreshFails
  BY <1>0, EndsSays, <1>28 DEF SlotInv, DamageInv, SuspectIsDamaged, SlotTyped, OutsideTyped,
    ThreadsTyped, OpenIsHeld, LocksInPlace, OutsideAlone, CorruptIsFound, Condemnable, Free,
    Damaged, File, Swaps, Places, FreshFails, Mishap, slot, stores, locks, outside, history
<1>29. QED
  BY <1>0, <1>1, <1>2, <1>3, <1>4, <1>5, <1>6, <1>7, <1>8, <1>9, <1>10, <1>11, <1>12,
    <1>13, <1>14, <1>15, <1>16, <1>17, <1>18, <1>19, <1>20, <1>21, <1>22, <1>23, <1>24, <1>25,
    <1>26, <1>27, <1>28
    DEF SlotNext, SearchSteps, RecoverySteps, WriterSteps

(* So only damaged files are moved aside, and none are replaced.           *)
LEMMA OnlyDamageMovesAsideStep ==
  Late = FALSE /\ SlotInv /\ DamageInv /\ SlotNext => OnlyDamageMovesAside'
<1>0. SUFFICES ASSUME Late = FALSE /\ SlotInv /\ DamageInv, SlotNext PROVE OnlyDamageMovesAside'
  OBVIOUS
<1> USE NoneIsNoThread, WriterIsNoReader DEF Thread
<1>1. CASE \E r \in Reader : Search(r)
  BY <1>0, <1>1 DEF SlotInv, DamageInv, OnlyDamageMovesAside, SlotTyped, OutsideTyped,
    OpenIsHeld, LocksInPlace, CorruptIsFound, SuspectIsDamaged, Condemnable, Damaged, File,
    Search, slot, stores, locks, outside, history
<1>2. CASE \E r \in Reader : Load(r)
  BY <1>0, <1>2 DEF SlotInv, DamageInv, OnlyDamageMovesAside, SlotTyped, OutsideTyped,
    OpenIsHeld, LocksInPlace, CorruptIsFound, SuspectIsDamaged, Condemnable, Damaged, File,
    Load, slot, stores, locks, outside, history
<1>3. CASE \E r \in Reader : Read(r)
  BY <1>0, <1>3 DEF SlotInv, DamageInv, OnlyDamageMovesAside, SlotTyped, OutsideTyped,
    OpenIsHeld, LocksInPlace, CorruptIsFound, SuspectIsDamaged, Condemnable, Damaged, File,
    Read, slot, stores, locks, outside, history
<1>4. CASE \E r \in Reader : MarkSuspect(r)
  BY <1>0, <1>4 DEF SlotInv, DamageInv, OnlyDamageMovesAside, SlotTyped, OutsideTyped,
    OpenIsHeld, LocksInPlace, CorruptIsFound, SuspectIsDamaged, Condemnable, Damaged, File,
    MarkSuspect, slot, stores, locks, outside, history
<1>5. CASE \E r \in Reader : Ask(r)
  BY <1>0, <1>5 DEF SlotInv, DamageInv, OnlyDamageMovesAside, SlotTyped, OutsideTyped,
    OpenIsHeld, LocksInPlace, CorruptIsFound, SuspectIsDamaged, Condemnable, Damaged, File, Ask,
    slot, stores, locks, outside, history
<1>6. CASE \E r \in Reader : Answered(r)
  BY <1>0, <1>6 DEF SlotInv, DamageInv, OnlyDamageMovesAside, SlotTyped, OutsideTyped,
    OpenIsHeld, LocksInPlace, CorruptIsFound, SuspectIsDamaged, Condemnable, Damaged, File,
    Answered, slot, stores, locks, outside, history
<1>7. CASE \E t \in Thread : Recover(t)
  BY <1>0, <1>7 DEF SlotInv, DamageInv, OnlyDamageMovesAside, SlotTyped, OutsideTyped,
    OpenIsHeld, LocksInPlace, CorruptIsFound, SuspectIsDamaged, Condemnable, Damaged, File,
    Recover, slot, stores, locks, outside, history
<1>8. CASE \E t \in Thread : Reopen(t)
  BY <1>0, <1>8 DEF SlotInv, DamageInv, OnlyDamageMovesAside, SlotTyped, OutsideTyped,
    OpenIsHeld, LocksInPlace, CorruptIsFound, SuspectIsDamaged, Condemnable, Damaged, File,
    Reopen, Recovered, Rebuilds, Fails, slot, stores, locks, outside, history
<1>9. CASE \E t \in Thread : Move(t)
  BY <1>0, <1>9 DEF SlotInv, DamageInv, OnlyDamageMovesAside, SlotTyped, OutsideTyped,
    OpenIsHeld, LocksInPlace, CorruptIsFound, SuspectIsDamaged, Condemnable, Damaged, File,
    Move, MovesAside, MoveRefused, Rebuilds, Fails, Mishap, slot, stores, locks, outside, history
<1>10. CASE TakeJob
  BY <1>0, <1>10 DEF SlotInv, DamageInv, OnlyDamageMovesAside, SlotTyped, OutsideTyped,
    OpenIsHeld, LocksInPlace, CorruptIsFound, SuspectIsDamaged, Condemnable, Damaged, File,
    TakeJob, slot, stores, locks, outside, history
<1>11. CASE CondemnSuspect
  BY <1>0, <1>11 DEF SlotInv, DamageInv, OnlyDamageMovesAside, SlotTyped, OutsideTyped,
    OpenIsHeld, LocksInPlace, CorruptIsFound, SuspectIsDamaged, Condemnable, Damaged, File,
    CondemnSuspect, slot, stores, locks, outside, history
<1>12. CASE CondemnMoves
  BY <1>0, <1>12 DEF SlotInv, DamageInv, OnlyDamageMovesAside, SlotTyped, OutsideTyped,
    OpenIsHeld, LocksInPlace, CorruptIsFound, SuspectIsDamaged, Condemnable, Damaged, File,
    CondemnMoves, MovesAside, MoveRefused, Mishap, slot, stores, locks, outside, history
<1>13. CASE Get
  BY <1>0, <1>13 DEF SlotInv, DamageInv, OnlyDamageMovesAside, SlotTyped, OutsideTyped,
    OpenIsHeld, LocksInPlace, CorruptIsFound, SuspectIsDamaged, Condemnable, Damaged, File, Get,
    slot, stores, locks, outside, history
<1>14. CASE Build
  BY <1>0, <1>14 DEF SlotInv, DamageInv, OnlyDamageMovesAside, SlotTyped, OutsideTyped,
    OpenIsHeld, LocksInPlace, CorruptIsFound, SuspectIsDamaged, Condemnable, Damaged, File,
    Build, slot, stores, locks, outside, history
<1>15. CASE Target
  BY <1>0, <1>15 DEF SlotInv, DamageInv, OnlyDamageMovesAside, SlotTyped, OutsideTyped,
    OpenIsHeld, LocksInPlace, CorruptIsFound, SuspectIsDamaged, Condemnable, Damaged, File,
    Target, slot, stores, locks, outside, history
<1>16. CASE Verify
  BY <1>0, <1>16 DEF SlotInv, DamageInv, OnlyDamageMovesAside, SlotTyped, OutsideTyped,
    OpenIsHeld, LocksInPlace, CorruptIsFound, SuspectIsDamaged, Condemnable, Damaged, File,
    Verify, Condemns, slot, stores, locks, outside, history
<1>17. CASE FreshCloses
  BY <1>0, <1>17 DEF SlotInv, DamageInv, OnlyDamageMovesAside, SlotTyped, OutsideTyped,
    OpenIsHeld, LocksInPlace, CorruptIsFound, SuspectIsDamaged, Condemnable, Damaged, File,
    FreshCloses, Discarded, slot, stores, locks, outside, history
<1>18. CASE FreshOpens
  BY <1>0, <1>18 DEF SlotInv, DamageInv, OnlyDamageMovesAside, SlotTyped, OutsideTyped,
    OpenIsHeld, LocksInPlace, CorruptIsFound, SuspectIsDamaged, Condemnable, Damaged, File,
    FreshOpens, slot, stores, locks, outside, history
<1>19. CASE Publish
  BY <1>0, <1>19 DEF SlotInv, DamageInv, OnlyDamageMovesAside, SlotTyped, OutsideTyped,
    OpenIsHeld, LocksInPlace, CorruptIsFound, SuspectIsDamaged, Condemnable, Damaged, File,
    Publish, Replaces, slot, stores, locks, outside, history
<1>20. CASE PublishFails
  BY <1>0, <1>20 DEF SlotInv, DamageInv, OnlyDamageMovesAside, SlotTyped, OutsideTyped,
    OpenIsHeld, LocksInPlace, CorruptIsFound, SuspectIsDamaged, Condemnable, Damaged, File,
    PublishFails, Replaces, Mishap, slot, stores, locks, outside, history
<1>21. CASE Damage
  BY <1>0, <1>21 DEF SlotInv, DamageInv, OnlyDamageMovesAside, SlotTyped, OutsideTyped,
    OpenIsHeld, LocksInPlace, CorruptIsFound, SuspectIsDamaged, Condemnable, Damaged, File,
    Damage, Mishap, slot, stores, locks, outside, history
<1>22. CASE OtherTakes
  BY <1>0, <1>22 DEF SlotInv, DamageInv, OnlyDamageMovesAside, SlotTyped, OutsideTyped,
    OpenIsHeld, LocksInPlace, CorruptIsFound, SuspectIsDamaged, Condemnable, Damaged, File,
    OtherTakes, Mishap, slot, stores, locks, outside, history
<1>23. CASE OtherWrites
  BY <1>0, <1>23 DEF SlotInv, DamageInv, OnlyDamageMovesAside, SlotTyped, OutsideTyped,
    OpenIsHeld, LocksInPlace, CorruptIsFound, SuspectIsDamaged, Condemnable, Damaged, File,
    OtherWrites, slot, stores, locks, outside, history
<1>24. CASE OtherLeaves
  BY <1>0, <1>24 DEF SlotInv, DamageInv, OnlyDamageMovesAside, SlotTyped, OutsideTyped,
    OpenIsHeld, LocksInPlace, CorruptIsFound, SuspectIsDamaged, Condemnable, Damaged, File,
    OtherLeaves, slot, stores, locks, outside, history
<1>25. CASE CloseWriter
  BY <1>0, <1>25 DEF SlotInv, DamageInv, OnlyDamageMovesAside, SlotTyped, OutsideTyped,
    OpenIsHeld, LocksInPlace, CorruptIsFound, SuspectIsDamaged, Condemnable, Damaged, File,
    CloseWriter, slot, stores, locks, outside, history
<1>26. CASE CloseSlot
  BY <1>0, <1>26 DEF SlotInv, DamageInv, OnlyDamageMovesAside, SlotTyped, OutsideTyped,
    OpenIsHeld, LocksInPlace, CorruptIsFound, SuspectIsDamaged, Condemnable, Damaged, File,
    CloseSlot, Discarded, slot, stores, locks, outside, history
<1>27. CASE Condemn
  BY <1>0, <1>27 DEF SlotInv, DamageInv, OnlyDamageMovesAside, SlotTyped, OutsideTyped,
    OpenIsHeld, LocksInPlace, CorruptIsFound, SuspectIsDamaged, Condemnable, Damaged, File,
    Condemn, Condemns, slot, stores, locks, outside, history
<1>28. CASE FreshFails
  BY <1>0, <1>28 DEF SlotInv, DamageInv, OnlyDamageMovesAside, SlotTyped, OutsideTyped,
    OpenIsHeld, LocksInPlace, CorruptIsFound, SuspectIsDamaged, Condemnable, Damaged, File,
    FreshFails, Mishap, slot, stores, locks, outside, history
<1>29. QED
  BY <1>0, <1>1, <1>2, <1>3, <1>4, <1>5, <1>6, <1>7, <1>8, <1>9, <1>10, <1>11, <1>12,
    <1>13, <1>14, <1>15, <1>16, <1>17, <1>18, <1>19, <1>20, <1>21, <1>22, <1>23, <1>24, <1>25,
    <1>26, <1>27, <1>28
    DEF SlotNext, SearchSteps, RecoverySteps, WriterSteps

-----------------------------------------------------------------------------
(* What holds.                                                             *)

(* At the start nothing is open, whatever is stored.                       *)
LEMMA SlotStarts == SlotInit => SlotInv /\ DamageInv
<1> SUFFICES ASSUME SlotInit PROVE SlotInv /\ DamageInv
  OBVIOUS
<1>1. SlotTyped /\ LocksTyped /\ OutsideTyped
  BY DEF SlotInit, SlotTyped, LocksTyped, OutsideTyped
<1>2. ThreadsTyped
  BY DEF SlotInit, ThreadsTyped, Places, Idle
<1>3. OpenIsHeld
  BY NoneIsNoThread DEF SlotInit, OpenIsHeld, Open
<1>4. LocksInPlace /\ OutsideAlone
  BY NoneIsNoThread DEF SlotInit, LocksInPlace, OutsideAlone, Swaps, Thread
<1>5. CorruptIsFound /\ SuspectIsDamaged /\ OnlyDamageMovesAside
  BY DEF SlotInit, CorruptIsFound, SuspectIsDamaged, OnlyDamageMovesAside, Thread
<1>6. QED
  BY <1>1, <1>2, <1>3, <1>4, <1>5 DEF SlotInv, DamageInv

(* Nothing that is spoken of changes where no step is taken.               *)
LEMMA SlotStutters ==
  UNCHANGED slotVars => (SlotInv => SlotInv') /\ (DamageInv => DamageInv')
<1> SUFFICES ASSUME UNCHANGED slotVars
             PROVE  (SlotInv => SlotInv') /\ (DamageInv => DamageInv')
  OBVIOUS
<1> USE DEF slotVars, slot, stores, locks, outside, history
<1>1. SlotInv => SlotTyped' /\ LocksTyped' /\ OutsideTyped' /\ ThreadsTyped'
  BY DEF SlotInv, SlotTyped, LocksTyped, OutsideTyped, ThreadsTyped
<1>2. SlotInv => OpenIsHeld' /\ LocksInPlace' /\ OutsideAlone'
  BY DEF SlotInv, OpenIsHeld, LocksInPlace, OutsideAlone, Swaps, Open
<1>3. DamageInv => DamageInv'
  BY DEF DamageInv, CorruptIsFound, SuspectIsDamaged, OnlyDamageMovesAside, Condemnable
<1>4. QED
  BY <1>1, <1>2, <1>3 DEF SlotInv

(* For every number of searching threads, store objects, jobs and mishaps, *)
(* the types hold, the stores that are open are the slot's, the locks are  *)
(* where the writer's swap and the recoveries need them, and another       *)
(* process writes only over an empty slot (_vector_slot.py:108-150).       *)
THEOREM SlotInvariant == SlotSpec => []SlotInv
<1>1. SlotInit => SlotInv
  BY SlotStarts
<1>2. SlotInv /\ [SlotNext]_slotVars => SlotInv'
  BY SlotStutters, SlotTypedStep, LocksTypedStep, OutsideTypedStep, ThreadsTypedStep,
     OpenIsHeldStep, LocksInPlaceStep, OutsideAloneStep DEF SlotInv
<1>3. QED
  BY <1>1, <1>2, PTL DEF SlotSpec

(* No store is left open: once the slot is closed, and whenever another    *)
(* process has the writer lock, this one holds no share of it              *)
(* (_vector_slot.py:24-27, 502-503; _writer_lock.py:3-18).                 *)
THEOREM StoresAreClosedHolds == SlotSpec => []StoresAreClosed
<1>1. SlotInv => StoresAreClosed
  <2>1. SUFFICES ASSUME SlotInv PROVE StoresAreClosed
    OBVIOUS
  <2>2. SlotTypeOK
    BY <2>1, SlotTypes DEF SlotInv
  <2>3. \A s \in Store : Open(s) => s \in {installed, provisional}
    BY <2>1 DEF SlotInv, OpenIsHeld
  <2>4. (closed = "slot" \/ other) => Shares = 0
    <3>1. SUFFICES ASSUME closed = "slot" \/ other PROVE Shares = 0
      OBVIOUS
    <3>2. installed = None /\ provisional = None /\ share = None
      BY <2>1, <3>1 DEF SlotInv, OutsideAlone, LocksInPlace
    <3>3. \A s \in Store : ~Open(s)
      BY <2>3, <3>2, NoneIsNoThread
    <3>4. QED
      BY <3>2, <3>3, NoShareIsLeft
  <2>5. QED
    BY <2>2, <2>3, <2>4 DEF StoresAreClosed
<1>2. QED
  BY SlotInvariant, <1>1, PTL

(* Unless a store stops opening, or is recovered by another process, while *)
(* this one runs, only damaged files are moved aside, and a generation is  *)
(* never written in place over files that were damaged when it was         *)
(* verified, but for what the property leaves out (_vector_slot.py:9-15,   *)
(* 278-281, 700-702; _quarantine.py:1-9).                                  *)
THEOREM OnlyDamageMovesAsideHolds ==
  ASSUME Late = FALSE
  PROVE  SlotSpec => []OnlyDamageMovesAside
<1>1. SlotInit => SlotInv /\ DamageInv
  BY SlotStarts
<1>2. SlotInv /\ DamageInv /\ [SlotNext]_slotVars => DamageInv'
  BY SlotStutters, CorruptIsFoundStep, SuspectIsDamagedStep, OnlyDamageMovesAsideStep
    DEF DamageInv
<1>3. DamageInv => OnlyDamageMovesAside
  BY DEF DamageInv
<1>4. QED
  BY <1>1, <1>2, <1>3, SlotInvariant, PTL DEF SlotSpec

=============================================================================
