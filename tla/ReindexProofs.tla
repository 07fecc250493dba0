----------------------------- MODULE ReindexProofs -----------------------------
(***************************************************************************)
(* What is proved about the two components that bring the index up to date *)
(* with files that changed behind its back.                                *)
(*                                                                         *)
(* Of the passes over the whole vault (Reindex), for any set of files and  *)
(* contents and any number of edits and faults: a row that is out of date  *)
(* would be noticed by a scan, two undisturbed reindexes catch up, no      *)
(* tombstone is left unlisted, and what an unread directory hides keeps    *)
(* its rows.                                                               *)
(*                                                                         *)
(* Of the reconciler that starts such passes when git moves HEAD           *)
(* (HeadReconciler), for any set of changes and of guests, any number of   *)
(* HEADs and of failing scans: the record stands only for what is known to *)
(* the index, and a boot reindex that was still queued when a reconcile    *)
(* deferred to it covers what was on disk then.  The invariant HeadInv     *)
(* follows a HEAD that was read through the queue and the scan to the      *)
(* record.                                                                 *)
(***************************************************************************)
EXTENDS HeadReconciler, Reindex, SequenceTheorems, TLAPS

(***************************************************************************)
(* The passes over the whole vault.                                        *)
(***************************************************************************)

(* The types, by what they are about.                                      *)
StoresTyped ==
  /\ disk \in [Path -> Content \cup {Absent}]
  /\ row \in [Path -> Good \cup {Absent, Tomb}]
  /\ complete \in BOOLEAN /\ dirty \subseteq Path

TrackerTyped ==
  /\ tracker \in [indexed : [Path -> Hash \ {Bad}], skipped : [Path -> Hash],
                  reasons : SUBSET Path]
  /\ \A p \in tracker.reasons : tracker.skipped[p] # None
  /\ \A p \in Path : None \in {tracker.indexed[p], tracker.skipped[p]}

StepTyped ==
  /\ job \in Job \cup {None} /\ forced \in BOOLEAN /\ blind \in BOOLEAN
  /\ step \in {"hash", "parse", "delete", "scan", "upsert", "skips", "save", "sync"}

CountsTyped ==
  /\ edits \in 0..MaxEdits /\ faults \in 0..MaxFaults
  /\ quiet \in BOOLEAN /\ calm \in 0..2

SetsTyped ==
  /\ todo \subseteq Path /\ unread \subseteq Path /\ gone \subseteq Path
  /\ failed \subseteq Path /\ broken \subseteq Path /\ kept \subseteq Path
  /\ owed \subseteq Path

MapsTyped ==
  /\ read \in [Path -> Hash \cup {Absent}]
  /\ parsed \in [Path -> Good \cup {None}]
  /\ skips \in [Path -> Content \cup {None}]

CarryTyped == carry \in [skipped : [Path -> Hash], reasons : SUBSET Path, reparse : SUBSET Path]

(* Where a pass is: what is empty at which step, and what a step still has *)
(* to go through.                                                          *)
PassInPlace ==
  /\ job = None => step = "hash" /\ todo = {} /\ unread = {} /\ ~blind
  /\ blind => calm = 0
  /\ job = "reindex" => step \in {"hash", "parse", "delete", "upsert", "save", "sync"}
  /\ job = "build" => step \in {"scan", "delete", "upsert", "skips", "save", "sync"}
  /\ job = "reindex" => kept = {}
  /\ step \in {"hash", "scan"} => kept = {} /\ broken = {} /\ gone = {}
  /\ step \in {"hash", "scan"} => \A p \in Path : skips[p] = None
  /\ step = "hash" => failed = {} /\ \A p \in Path : parsed[p] = None
  /\ step = "scan" => \A p \in todo : parsed[p] = None /\ p \notin failed
  /\ job = "build" => kept \subseteq unread /\ \A p \in failed : parsed[p] = None
  /\ job # "reindex" \/ step = "hash" => carry.reasons = {}
  /\ job = "reindex" /\ step = "delete" => todo \subseteq gone
  /\ step = "upsert" => \A p \in todo : parsed[p] # None
  /\ step \in {"save", "sync"} => todo = {}

(* What is under an unread directory is none of the pass's business: it is *)
(* neither parsed nor deleted, and hashed as the tracker has it.           *)
UnreadIsLeft ==
  /\ \A p \in unread : p \notin gone /\ p \notin failed /\ parsed[p] = None
  /\ job = "reindex" => \A p \in unread : skips[p] = None
  /\ step \in {"hash", "scan", "parse", "delete"} => unread \cap todo = {}
  /\ step = "hash" =>
       \A p \in unread :
         /\ Loaded.skipped[p] # None => read[p] = Loaded.skipped[p]
         /\ Loaded.skipped[p] = None => read[p] = Recorded(p)

(* A listed tombstone under one is carried to the state that will be saved. *)
HiddenIsListed ==
  \A p \in unread :
    row[p] = Tomb /\ p \in tracker.reasons /\ ~blind =>
      /\ job = "reindex" /\ step # "hash" => p \in carry.reasons /\ carry.skipped[p] # None
      /\ job = "build" /\ step # "scan" => p \in kept

(* A row not changed since the tracker was saved is what the tracker says, *)
(* or the tracker will have it parsed again.                               *)
TrackerTells ==
  \A p \in Path \ owed :
    /\ Live(p) => tracker.indexed[p] \in {row[p], Reparse}
    /\ ~Live(p) => tracker.indexed[p] \in {None, Reparse}

(* A build's rows once it knows which go.                                  *)
BuildRows ==
  job = "build" =>
    /\ step \in {"delete", "upsert", "skips", "save"} =>
         \A p \in Path :
           Live(p) => parsed[p] # None \/ p \in kept \/ (step = "delete" /\ p \in todo)
    /\ step \in {"upsert", "skips", "save"} =>
         \A p \in Path :
           parsed[p] # None /\ p \notin broken /\ (step = "upsert" => p \notin todo) =>
             row[p] = parsed[p]

(* The state just saved owes nothing.                                      *)
SavedOwesNothing == step = "sync" => owed = {}

(* After an undisturbed reindex, until the next pass sets out: tombstones  *)
(* are listed, and a row that was refreshed since is as its file.          *)
CalmAtRest ==
  calm > 0 /\ step = "hash" =>
    \A p \in Path :
      /\ p \notin owed /\ row[p] = Tomb => p \in tracker.reasons
      /\ \/ RowMatches(p)
         \/ p \notin owed /\ (calm = 1 \/ Stuck(p))

(* A note taken for a skip: its record goes from state to state.           *)
Carried(p) ==
  /\ disk[p] \in Good /\ ~Live(p)
  /\ tracker.indexed[p] = None /\ tracker.skipped[p] = disk[p]
  /\ carry.skipped[p] = disk[p] /\ skips[p] = None

(* An undisturbed reindex after another: what is still to come for a path  *)
(* whose row is out of date.                                               *)
CalmReindex ==
  calm > 0 /\ job = "reindex" =>
    /\ step = "hash" => \A p \in Path \ todo : read[p] = disk[p]
    /\ unread = {}
    /\ \A p \in Path : parsed[p] # None => parsed[p] = disk[p]
    /\ \A p \in failed : disk[p] = Bad
    /\ \A p \in gone : disk[p] = Absent
    /\ step = "parse" => \A p \in todo : disk[p] # Absent
    /\ step # "hash" =>
         \A p \in Path :
           \/ RowMatches(p) \/ Carried(p)
           \/ step = "parse" /\ p \in todo
           \/ step = "parse" /\ p \in gone
           \/ step = "delete" /\ p \in todo
           \/ step \in {"parse", "delete"} /\ parsed[p] = disk[p]
           \/ step = "upsert" /\ p \in todo

(* An undisturbed build after a reindex.                                   *)
CalmBuild ==
  calm > 0 /\ job = "build" =>
    /\ unread = {}
    /\ \A p \in Path : parsed[p] # None => parsed[p] = disk[p]
    /\ step = "scan" => \A p \in Path \ todo : disk[p] \in Good => parsed[p] = disk[p]
    /\ step # "scan" =>
         \A p \in Path :
           /\ disk[p] \in Good => parsed[p] = disk[p]
           /\ \/ RowMatches(p)
              \/ step = "delete" /\ (p \in todo \/ parsed[p] = disk[p])
              \/ step = "upsert" /\ p \in todo

ReindexInv ==
  /\ StoresTyped /\ TrackerTyped /\ StepTyped /\ CountsTyped
  /\ SetsTyped /\ MapsTyped /\ CarryTyped
  /\ PassInPlace /\ UnreadIsLeft /\ HiddenIsListed
  /\ TrackerTells /\ BuildRows /\ SavedOwesNothing
  /\ CalmAtRest /\ CalmReindex /\ CalmBuild

-----------------------------------------------------------------------------
(* Types, and the maps a pass writes.                                      *)

(* What update_state records for a path as indexed.                        *)
LEMMA NewIndexedSays ==
  ASSUME NEW p \in Path
  PROVE  /\ job = "reindex" =>
              /\ ~Live(p) => NewIndexed[p] = None
              /\ Live(p) => NewIndexed[p] = IF p \in carry.reparse THEN Reparse ELSE row[p]
         /\ job = "build" =>
              /\ parsed[p] # None =>
                   NewIndexed[p] = IF p \in broken THEN Reparse ELSE parsed[p]
              /\ parsed[p] = None /\ ~(p \in kept /\ Live(p)) => NewIndexed[p] = None
              /\ parsed[p] = None /\ p \in kept /\ Live(p) => NewIndexed[p] = Reparse
  BY DEF NewIndexed, StateNotes, HashedEmpty, Parsed, Live

(* ... and as skipped: only what is not indexed.                           *)
LEMMA NewSkippedSays ==
  ASSUME NEW p \in Path
  PROVE  NewSkipped[p] = IF NewIndexed[p] # None THEN None
                         ELSE IF p \in kept THEN Reparse
                         ELSE IF skips[p] # None THEN skips[p] ELSE carry.skipped[p]
  BY DEF NewSkipped

(* What it records is of the tracker's type.                               *)
LEMMA NewTrackerTyped ==
  ASSUME StoresTyped, SetsTyped, MapsTyped, CarryTyped, job \in {"build", "reindex"}
  PROVE  /\ NewTracker \in [indexed : [Path -> Hash \ {Bad}], skipped : [Path -> Hash],
                             reasons : SUBSET Path]
         /\ \A p \in NewTracker.reasons : NewTracker.skipped[p] # None
         /\ \A p \in Path : None \in {NewTracker.indexed[p], NewTracker.skipped[p]}
<1>1. \A p \in Path : NewIndexed[p] \in Hash \ {Bad}
  <2>1. SUFFICES ASSUME NEW p \in Path
                 PROVE  NewIndexed[p] \in Hash \ {Bad}
    OBVIOUS
  <2>2. parsed[p] \in Good \cup {None} /\ Bad \notin Good \cup {Reparse, None}
    BY ReindexAssumption DEF MapsTyped
  <2>3. QED
    BY <2>2, NewIndexedSays DEF StoresTyped, Hash, Content, Live
<1>2. \A p \in Path : NewSkipped[p] \in Hash
  BY NewSkippedSays DEF CarryTyped, MapsTyped, Hash, Content
<1>3. NewIndexed \in [Path -> Hash \ {Bad}] /\ NewSkipped \in [Path -> Hash]
  BY <1>1, <1>2 DEF NewIndexed, NewSkipped
<1>4. \A p \in Path : None \in {NewIndexed[p], NewSkipped[p]}
  BY NewSkippedSays
<1>5. QED
  BY <1>3, <1>4 DEF NewTracker

(* The parts are the type invariant.                                       *)
LEMMA TypesAreTyped ==
  ReindexTypeOK <=> /\ StoresTyped /\ TrackerTyped /\ StepTyped /\ CountsTyped
                    /\ SetsTyped /\ MapsTyped /\ CarryTyped
  BY Zenon DEF ReindexTypeOK, StoresTyped, TrackerTyped, StepTyped, CountsTyped, SetsTyped,
    MapsTyped, CarryTyped

(* A fault is counted, and ends the calm.                                  *)
LEMMA FaultIsCounted ==
  ASSUME CountsTyped
  PROVE  /\ Fault => /\ faults' \in 0..MaxFaults /\ calm' \in 0..2
                     /\ quiet' \in BOOLEAN /\ calm' = 0
         /\ NoFault => /\ faults' \in 0..MaxFaults /\ calm' \in 0..2
                       /\ quiet' \in BOOLEAN /\ calm' = calm
<1>1. CountsTyped /\ MaxFaults \in Nat
  BY ReindexAssumption
<1>2. Fault => faults' \in 0..MaxFaults
  BY <1>1 DEF CountsTyped, Fault
<1>3. Fault => calm' \in 0..2 /\ calm' = 0
  BY DEF Fault
<1>4. Fault => quiet' \in BOOLEAN
  BY DEF Fault
<1>5. NoFault => faults' \in 0..MaxFaults /\ calm' \in 0..2 /\ calm' = calm
  BY <1>1 DEF CountsTyped, NoFault
<1>6. NoFault => quiet' \in BOOLEAN
  BY <1>1 DEF CountsTyped, NoFault
<1>7. QED
  BY <1>2, <1>3, <1>4, <1>5, <1>6

(* What a pass has loaded has the tracker's type.                          *)
LEMMA LoadedTyped ==
  ASSUME TrackerTyped
  PROVE  /\ Loaded \in [indexed : [Path -> Hash \ {Bad}], skipped : [Path -> Hash],
                        reasons : SUBSET Path]
         /\ \A p \in Path : None \in {Loaded.indexed[p], Loaded.skipped[p]}
         /\ ~blind => Loaded = tracker
         /\ blind => Loaded = NoTracker
  BY ReindexAssumption DEF TrackerTyped, Loaded, NoTracker, Hash, Content

(* A reload of the state file that fails only blinds the pass and ends the *)
(* calm.                                                                   *)
LEMMA ReloadKeeps ==
  ASSUME ReindexInv, ReloadFails
  PROVE  /\ StoresTyped' /\ TrackerTyped' /\ StepTyped' /\ CountsTyped'
         /\ SetsTyped' /\ MapsTyped' /\ CarryTyped'
         /\ PassInPlace' /\ UnreadIsLeft' /\ HiddenIsListed'
         /\ TrackerTells' /\ BuildRows' /\ SavedOwesNothing'
         /\ CalmAtRest' /\ CalmReindex' /\ CalmBuild'
<1>1. /\ UNCHANGED <<disk, row, tracker, complete, dirty, job, forced, step, todo, read,
                     unread, gone, parsed, failed, broken, kept, skips, carry, edits, owed>>
      /\ job # None /\ step = "sync" /\ blind' = TRUE /\ calm' = 0
  BY DEF ReloadFails, Through, storeVars, Fault
<1>2. StoresTyped' /\ TrackerTyped' /\ SetsTyped' /\ MapsTyped' /\ CarryTyped'
  BY <1>1 DEF ReindexInv, StoresTyped, TrackerTyped, SetsTyped, MapsTyped, CarryTyped
<1>3. StepTyped'
  BY <1>1 DEF ReindexInv, StepTyped
<1>4. CountsTyped'
  BY <1>1, FaultIsCounted DEF ReindexInv, CountsTyped, ReloadFails
<1>5. PassInPlace' /\ UnreadIsLeft' /\ HiddenIsListed'
  BY <1>1 DEF ReindexInv, PassInPlace, UnreadIsLeft, HiddenIsListed
<1>6. TrackerTells' /\ BuildRows' /\ SavedOwesNothing'
  BY <1>1 DEF ReindexInv, TrackerTells, BuildRows, SavedOwesNothing, Live
<1>7. CalmAtRest' /\ CalmReindex' /\ CalmBuild'
  BY <1>1 DEF CalmAtRest, CalmReindex, CalmBuild
<1>8. QED
  BY <1>2, <1>3, <1>4, <1>5, <1>6, <1>7

(* The stores keep their types.                                            *)
LEMMA StoresTypedStep == ReindexInv /\ ReindexNext => StoresTyped'
<1>0. SUFFICES ASSUME ReindexInv, ReindexNext PROVE StoresTyped'
  OBVIOUS
<1> USE ReindexAssumption DEF Hash, Content
<1>1. CASE \E p \in Path : RefreshRow(p)
  BY <1>0, <1>1 DEF ReindexInv, StoresTyped, SetsTyped, RefreshRow, passVars
<1>2. CASE \E p \in Path : \E text \in Content \cup {Absent} : Edit(p, text)
  BY <1>0, <1>2 DEF ReindexInv, StoresTyped, SetsTyped, Edit, passVars
<1>3. CASE \E p \in Path : RecordSkip(p)
  BY <1>0, <1>3 DEF ReindexInv, StoresTyped, SetsTyped, RecordSkip, Fault, NoFault, storeVars
<1>4. CASE \E p \in Path : DeleteNote(p)
  BY <1>0, <1>4 DEF ReindexInv, StoresTyped, SetsTyped, DeleteNote, NoFault
<1>5. CASE \E p \in Path : UpsertNote(p)
  BY <1>0, <1>5 DEF ReindexInv, StoresTyped, MapsTyped, PassInPlace, UpsertNote, Fault,
      NoFault
<1>6. CASE \E p \in Path : RecordCandidate(p)
  BY <1>0, <1>6 DEF ReindexInv, StoresTyped, SetsTyped, RecordCandidate, Parsed, Fault,
      NoFault
<1>7. CASE WipeForRebuild
  BY <1>0, <1>7 DEF ReindexInv, StoresTyped, WipeForRebuild, storeVars
<1>8. CASE SyncTombstones
  BY <1>0, <1>8 DEF ReindexInv, StoresTyped, SetsTyped, SyncTombstones, Through, Rest, NoCarry
<1>9. CASE \E force \in BOOLEAN : BeginBuild(force)
  BY <1>0, <1>9 DEF ReindexInv, StoresTyped, SetsTyped, BeginBuild, NoFault, passVars
<1>10. CASE Restart \/ BeginReindex \/ (\E p \in Path : HashNote(p))
         \/ (\E p \in Path : ParseNote(p)) \/ (\E p \in Path : ScanNote(p)) \/ Classify
         \/ EndParse \/ EndDelete \/ Checkpoint \/ EndUpsert \/ EndSkips \/ SaveState
         \/ PassRaises
  BY <1>0, <1>10 DEF ReindexInv, StoresTyped, SetsTyped, Restart, Rest, NoCarry, BeginReindex,
    storeVars, HashNote, Recorded, Fault, NoFault, ParseNote, ScanNote, Classify, GoOn, Through,
    EndParse, EndDelete, Parsed, Checkpoint, passVars, EndUpsert, EndSkips, SaveState,
    PassRaises
<1>11. QED
  BY <1>0, <1>1, <1>2, <1>3, <1>4, <1>5, <1>6, <1>7, <1>8, <1>9, <1>10,
    ReloadKeeps DEF ReindexNext, PassStep

(* So does the tracker.                                                    *)
LEMMA TrackerTypedStep == ReindexInv /\ ReindexNext => TrackerTyped'
<1>0. SUFFICES ASSUME ReindexInv, ReindexNext PROVE TrackerTyped'
  OBVIOUS
<1> USE ReindexAssumption DEF Hash, Content
<1>1. CASE Checkpoint
  BY <1>0, NewTrackerTyped, <1>1 DEF ReindexInv, TrackerTyped, Checkpoint, passVars
<1>2. CASE SaveState
  BY <1>0, NewTrackerTyped, <1>2 DEF ReindexInv, TrackerTyped, StepTyped, SaveState, Through
<1>3. CASE Restart \/ BeginReindex \/ (\E force \in BOOLEAN : BeginBuild(force))
         \/ (\E p \in Path : RefreshRow(p))
         \/ (\E p \in Path : \E text \in Content \cup {Absent} : Edit(p, text))
         \/ (\E p \in Path : HashNote(p)) \/ (\E p \in Path : ParseNote(p))
         \/ (\E p \in Path : RecordSkip(p)) \/ (\E p \in Path : DeleteNote(p))
         \/ (\E p \in Path : UpsertNote(p)) \/ (\E p \in Path : ScanNote(p))
         \/ (\E p \in Path : RecordCandidate(p)) \/ Classify \/ EndParse \/ EndDelete
         \/ EndUpsert \/ WipeForRebuild \/ EndSkips \/ SyncTombstones \/ PassRaises
  BY <1>0, <1>3 DEF ReindexInv, TrackerTyped, Restart, Rest, NoCarry, BeginReindex, storeVars,
    BeginBuild, NoFault, passVars, RefreshRow, Edit, HashNote, Recorded, Fault, ParseNote,
    RecordSkip, DeleteNote, UpsertNote, ScanNote, RecordCandidate, Parsed, Classify, GoOn,
    Through, EndParse, EndDelete, EndUpsert, WipeForRebuild, EndSkips, SyncTombstones,
    PassRaises
<1>4. QED
  BY <1>0, <1>1, <1>2, <1>3,
    ReloadKeeps DEF ReindexNext, PassStep

(* So does the step.                                                       *)
LEMMA StepTypedStep == ReindexInv /\ ReindexNext => StepTyped'
<1>0. SUFFICES ASSUME ReindexInv, ReindexNext PROVE StepTyped'
  OBVIOUS
<1> USE ReindexAssumption DEF Hash, Content
<1>1. CASE Restart \/ PassRaises
  BY <1>0, <1>1 DEF ReindexInv, StepTyped, Restart, Rest, NoCarry, PassRaises, Fault,
      storeVars
<1>2. CASE (\E force \in BOOLEAN : BeginBuild(force)) \/ BeginReindex
  BY <1>0, <1>2 DEF ReindexInv, StepTyped, BeginBuild, NoFault, passVars, BeginReindex,
    storeVars
<1>3. CASE Classify
  BY <1>0, <1>3 DEF ReindexInv, StepTyped, Classify, GoOn, Through, Rest, NoCarry, NoFault,
    storeVars
<1>4. CASE SyncTombstones
  BY <1>0, <1>4 DEF ReindexInv, StepTyped, SyncTombstones, Through, Rest, NoCarry
<1>5. CASE (\E p \in Path : RefreshRow(p))
         \/ (\E p \in Path : \E text \in Content \cup {Absent} : Edit(p, text))
         \/ (\E p \in Path : HashNote(p)) \/ (\E p \in Path : ParseNote(p))
         \/ (\E p \in Path : RecordSkip(p)) \/ (\E p \in Path : DeleteNote(p))
         \/ (\E p \in Path : UpsertNote(p)) \/ (\E p \in Path : ScanNote(p))
         \/ (\E p \in Path : RecordCandidate(p)) \/ EndParse \/ EndDelete \/ Checkpoint
         \/ EndUpsert \/ WipeForRebuild \/ EndSkips \/ SaveState
  BY <1>0, <1>5 DEF ReindexInv, StepTyped, RefreshRow, passVars, Edit, HashNote, Recorded,
    Fault, NoFault, storeVars, ParseNote, RecordSkip, DeleteNote, UpsertNote, ScanNote,
    RecordCandidate, Parsed, EndParse, GoOn, Through, EndDelete, Checkpoint, EndUpsert,
    WipeForRebuild, EndSkips, SaveState
<1>6. QED
  BY <1>0, <1>1, <1>2, <1>3, <1>4, <1>5,
    ReloadKeeps DEF ReindexNext, PassStep

(* So do the sets of paths.                                                *)
LEMMA SetsTypedStep == ReindexInv /\ ReindexNext => SetsTyped'
<1>0. SUFFICES ASSUME ReindexInv, ReindexNext PROVE SetsTyped'
  OBVIOUS
<1> USE ReindexAssumption DEF Hash, Content
<1>1. CASE Restart \/ PassRaises \/ SyncTombstones
  BY <1>0, <1>1 DEF ReindexInv, SetsTyped, Restart, Rest, NoCarry, PassRaises, Fault,
      storeVars,
    SyncTombstones, Through
<1>2. CASE Classify
  BY <1>0, <1>2 DEF ReindexInv, SetsTyped, Classify, GoOn, Through, Rest, NoCarry, NoFault,
    storeVars
<1>3. CASE (\E p \in Path : HashNote(p)) \/ (\E p \in Path : ParseNote(p))
         \/ (\E p \in Path : RecordSkip(p))
  BY <1>0, <1>3 DEF ReindexInv, SetsTyped, HashNote, Recorded, Fault, NoFault, storeVars,
    ParseNote, RecordSkip
<1>4. CASE (\E p \in Path : ScanNote(p)) \/ (\E p \in Path : RecordCandidate(p))
         \/ (\E p \in Path : DeleteNote(p)) \/ (\E p \in Path : UpsertNote(p))
  BY <1>0, <1>4 DEF ReindexInv, SetsTyped, ScanNote, Fault, NoFault, storeVars,
      RecordCandidate,
    Parsed, DeleteNote, UpsertNote
<1>5. CASE BeginReindex \/ (\E force \in BOOLEAN : BeginBuild(force))
         \/ (\E p \in Path : RefreshRow(p))
         \/ (\E p \in Path : \E text \in Content \cup {Absent} : Edit(p, text)) \/ EndParse
         \/ EndDelete \/ Checkpoint \/ EndUpsert \/ WipeForRebuild \/ EndSkips \/ SaveState
  BY <1>0, <1>5 DEF ReindexInv, SetsTyped, BeginReindex, storeVars, BeginBuild, NoFault,
    passVars, RefreshRow, Edit, EndParse, GoOn, Through, EndDelete, Parsed, Checkpoint,
    EndUpsert, WipeForRebuild, EndSkips, SaveState
<1>6. QED
  BY <1>0, <1>1, <1>2, <1>3, <1>4, <1>5,
    ReloadKeeps DEF ReindexNext, PassStep

(* So do the maps.                                                         *)
LEMMA MapsTypedStep == ReindexInv /\ ReindexNext => MapsTyped'
<1>0. SUFFICES ASSUME ReindexInv, ReindexNext PROVE MapsTyped'
  OBVIOUS
<1> USE ReindexAssumption DEF Hash, Content
<1>1. CASE Restart \/ PassRaises \/ SyncTombstones
  BY <1>0, <1>1 DEF ReindexInv, MapsTyped, StoresTyped, TrackerTyped, SetsTyped, Restart,
      Rest,
    NoCarry, PassRaises, Fault, storeVars, SyncTombstones, Through
<1>2. CASE Classify
  BY <1>0, <1>2 DEF ReindexInv, MapsTyped, StoresTyped, TrackerTyped, SetsTyped, Classify,
      GoOn,
    Through, Rest, NoCarry, NoFault, storeVars
<1>3. CASE \E p \in Path : HashNote(p)
  <2>1. PICK p \in Path : HashNote(p)
    BY <1>3
  <2>2. UNCHANGED <<parsed, skips>> /\ disk[p] \in Hash \cup {Absent}
    BY <1>0, <2>1 DEF ReindexInv, StoresTyped, HashNote
  <2>3. Loaded.indexed[p] \in Hash /\ Loaded.skipped[p] \in Hash
    BY <1>0, LoadedTyped DEF ReindexInv
  <2>4. \E h \in Hash \cup {Absent} : read' = [read EXCEPT ![p] = h]
    BY <2>1, <2>2, <2>3 DEF HashNote, Recorded
  <2>5. QED
    BY <1>0, <2>2, <2>4 DEF ReindexInv, MapsTyped
<1>4. CASE \E p \in Path : ParseNote(p)
  BY <1>0, <1>4 DEF ReindexInv, MapsTyped, StoresTyped, TrackerTyped, SetsTyped, ParseNote,
    Fault, NoFault, storeVars
<1>5. CASE \E p \in Path : RecordSkip(p)
  BY <1>0, <1>5 DEF ReindexInv, MapsTyped, StoresTyped, TrackerTyped, SetsTyped, RecordSkip,
    Fault, NoFault, storeVars
<1>6. CASE \E p \in Path : ScanNote(p)
  BY <1>0, <1>6 DEF ReindexInv, MapsTyped, StoresTyped, TrackerTyped, SetsTyped, ScanNote,
    Fault, NoFault, storeVars
<1>7. CASE \E p \in Path : RecordCandidate(p)
  BY <1>0, <1>7 DEF ReindexInv, MapsTyped, StoresTyped, TrackerTyped, SetsTyped,
    RecordCandidate, Parsed, Fault, NoFault
<1>8. CASE BeginReindex \/ (\E force \in BOOLEAN : BeginBuild(force))
         \/ (\E p \in Path : RefreshRow(p))
         \/ (\E p \in Path : \E text \in Content \cup {Absent} : Edit(p, text))
         \/ (\E p \in Path : DeleteNote(p)) \/ (\E p \in Path : UpsertNote(p)) \/ EndParse
         \/ EndDelete \/ Checkpoint \/ EndUpsert \/ WipeForRebuild \/ EndSkips \/ SaveState
  BY <1>0, <1>8 DEF ReindexInv, MapsTyped, StoresTyped, TrackerTyped, SetsTyped, BeginReindex,
    storeVars, BeginBuild, NoFault, passVars, RefreshRow, Edit, DeleteNote, UpsertNote, Fault,
    EndParse, GoOn, Through, EndDelete, Parsed, Checkpoint, EndUpsert, WipeForRebuild, EndSkips,
    SaveState
<1>9. QED
  BY <1>0, <1>1, <1>2, <1>3, <1>4, <1>5, <1>6, <1>7, <1>8,
    ReloadKeeps DEF ReindexNext, PassStep

(* So does the carry.                                                      *)
LEMMA CarryTypedStep == ReindexInv /\ ReindexNext => CarryTyped'
<1>0. SUFFICES ASSUME ReindexInv, ReindexNext PROVE CarryTyped'
  OBVIOUS
<1> USE ReindexAssumption DEF Hash, Content
<1>1. CASE Restart \/ PassRaises \/ SyncTombstones
  BY <1>0, <1>1 DEF ReindexInv, CarryTyped, TrackerTyped, MapsTyped, SetsTyped, Restart, Rest,
    NoCarry, PassRaises, Fault, storeVars, SyncTombstones, Through
<1>2. CASE Classify
  <2>1. /\ Loaded \in [indexed : [Path -> Hash \ {Bad}], skipped : [Path -> Hash],
                        reasons : SUBSET Path]
        /\ unread \subseteq Path /\ read \in [Path -> Hash \cup {Absent}]
    BY <1>0, LoadedTyped DEF ReindexInv, SetsTyped, MapsTyped
  <2>2. CASE job' = None /\ Rest
    BY <2>2 DEF CarryTyped, Rest, NoCarry
  <2>3. CASE ~(job' = None /\ Rest)
    <3>1. PICK same \in SUBSET Path :
            /\ \A p \in same : Loaded.skipped[p] # None /\ read[p] = Loaded.skipped[p]
            /\ carry' = [skipped |-> [p \in Path |-> IF p \in same THEN read[p] ELSE None],
                         reasons |-> same \cap Loaded.reasons,
                         reparse |-> {p \in unread : Loaded.indexed[p] = Reparse}]
      BY <1>2, <2>3, Zenon DEF Classify
    <3>2. \A p \in same : read[p] \in Hash
      BY <2>1, <3>1
    <3>3. QED
      BY <2>1, <3>1, <3>2 DEF CarryTyped
  <2>4. QED
    BY <2>2, <2>3
<1>3. CASE BeginReindex \/ (\E force \in BOOLEAN : BeginBuild(force))
         \/ (\E p \in Path : RefreshRow(p))
         \/ (\E p \in Path : \E text \in Content \cup {Absent} : Edit(p, text))
         \/ (\E p \in Path : HashNote(p)) \/ (\E p \in Path : ParseNote(p))
         \/ (\E p \in Path : RecordSkip(p)) \/ (\E p \in Path : DeleteNote(p))
         \/ (\E p \in Path : UpsertNote(p)) \/ (\E p \in Path : ScanNote(p))
         \/ (\E p \in Path : RecordCandidate(p)) \/ EndParse \/ EndDelete \/ Checkpoint
         \/ EndUpsert \/ WipeForRebuild \/ EndSkips \/ SaveState
  BY <1>0, <1>3 DEF ReindexInv, CarryTyped, TrackerTyped, MapsTyped, SetsTyped, BeginReindex,
    storeVars, BeginBuild, NoFault, passVars, RefreshRow, Edit, HashNote, Recorded, Fault,
    ParseNote, RecordSkip, DeleteNote, UpsertNote, ScanNote, RecordCandidate, Parsed, EndParse,
    GoOn, Through, EndDelete, Checkpoint, EndUpsert, WipeForRebuild, EndSkips, SaveState
<1>4. QED
  BY <1>0, <1>1, <1>2, <1>3,
    ReloadKeeps DEF ReindexNext, PassStep

(* So do the counts.                                                       *)
LEMMA CountsTypedStep == ReindexInv /\ ReindexNext => CountsTyped'
<1>0. SUFFICES ASSUME ReindexInv, ReindexNext PROVE CountsTyped'
  OBVIOUS
<1> USE ReindexAssumption, FaultIsCounted
<1>1. CASE Restart
  <2>1. edits' \in 0..MaxEdits /\ faults' \in 0..MaxFaults
    BY <1>0, <1>1 DEF ReindexInv, CountsTyped, Restart
  <2>2. calm' \in 0..2
    BY <1>0, <1>1 DEF ReindexInv, CountsTyped, Restart
  <2>3. quiet' \in BOOLEAN
    BY <1>1 DEF Restart
  <2>4. QED
    BY <2>1, <2>2, <2>3 DEF CountsTyped
<1>2. CASE \E p \in Path : \E text \in Content \cup {Absent} : Edit(p, text)
  <2>1. edits' \in 0..MaxEdits /\ faults' \in 0..MaxFaults
    BY <1>0, <1>2 DEF ReindexInv, CountsTyped, Edit
  <2>2. calm' \in 0..2
    BY <1>0, <1>2 DEF ReindexInv, CountsTyped, Edit
  <2>3. quiet' \in BOOLEAN
    BY <1>2 DEF Edit
  <2>4. QED
    BY <2>1, <2>2, <2>3 DEF CountsTyped
<1>3. CASE SyncTombstones
  <2>1. edits' \in 0..MaxEdits /\ faults' \in 0..MaxFaults
    BY <1>0, <1>3 DEF ReindexInv, CountsTyped, SyncTombstones
  <2>2. calm' \in 0..2
    BY <1>0, <1>3 DEF ReindexInv, CountsTyped, SyncTombstones
  <2>3. quiet' \in BOOLEAN
    BY <1>3 DEF SyncTombstones
  <2>4. QED
    BY <2>1, <2>2, <2>3 DEF CountsTyped
<1>4. CASE BeginReindex
  BY <1>0, <1>4 DEF ReindexInv, CountsTyped, BeginReindex, storeVars
<1>5. CASE \E force \in BOOLEAN : BeginBuild(force)
  BY <1>0, <1>5 DEF ReindexInv, CountsTyped, BeginBuild, NoFault, passVars
<1>6. CASE PassRaises
  BY <1>0, <1>6 DEF ReindexInv, CountsTyped, PassRaises, Fault, Rest, NoCarry, storeVars
<1>7. CASE Checkpoint \/ SaveState \/ (\E p \in Path : RefreshRow(p))
  BY <1>0, <1>7 DEF ReindexInv, CountsTyped, Checkpoint, passVars, SaveState, Through,
    RefreshRow
<1>8. CASE EndParse \/ EndDelete \/ EndUpsert \/ EndSkips \/ WipeForRebuild
  BY <1>0, <1>8 DEF ReindexInv, CountsTyped, EndParse, GoOn, Through, NoFault, storeVars,
    EndDelete, Parsed, EndUpsert, EndSkips, WipeForRebuild
<1>9. CASE Classify
  BY <1>0, <1>9 DEF ReindexInv, CountsTyped, Classify, GoOn, Through, Rest, NoCarry, NoFault,
    storeVars
<1>10. CASE (\E p \in Path : HashNote(p)) \/ (\E p \in Path : ParseNote(p))
         \/ (\E p \in Path : RecordSkip(p)) \/ (\E p \in Path : DeleteNote(p))
         \/ (\E p \in Path : UpsertNote(p)) \/ (\E p \in Path : ScanNote(p))
         \/ (\E p \in Path : RecordCandidate(p))
  BY <1>0, <1>10 DEF ReindexInv, CountsTyped, HashNote, Recorded, Fault, NoFault, storeVars,
    ParseNote, RecordSkip, DeleteNote, UpsertNote, ScanNote, RecordCandidate, Parsed
<1>11. QED
  BY <1>0, <1>1, <1>2, <1>3, <1>4, <1>5, <1>6, <1>7, <1>8, <1>9, <1>10,
    ReloadKeeps DEF ReindexNext, PassStep

-----------------------------------------------------------------------------
(* Where a pass is, and what it leaves alone.                              *)

(* What is empty at a step, and what it has still to go through.           *)
LEMMA PassInPlaceStep == ReindexInv /\ ReindexNext => PassInPlace'
<1>0. SUFFICES ASSUME ReindexInv, ReindexNext PROVE PassInPlace'
  OBVIOUS
<1> USE ReindexAssumption DEF Hash, Content
<1>1. CASE Restart
  BY <1>0, <1>1 DEF ReindexInv, PassInPlace, StepTyped, SetsTyped, MapsTyped, Restart, Rest,
    NoCarry
<1>2. CASE PassRaises
  BY <1>0, <1>2 DEF ReindexInv, PassInPlace, StepTyped, SetsTyped, MapsTyped, PassRaises,
      Fault,
    Rest, NoCarry, storeVars
<1>3. CASE SyncTombstones
  BY <1>0, <1>3 DEF ReindexInv, PassInPlace, StepTyped, SetsTyped, MapsTyped, SyncTombstones,
    Through, Rest, NoCarry
<1>4. CASE Classify
  BY <1>0, <1>4 DEF ReindexInv, PassInPlace, StepTyped, SetsTyped, MapsTyped, Classify, GoOn,
    Through, Rest, NoCarry, NoFault, storeVars
<1>5. CASE \E force \in BOOLEAN : BeginBuild(force)
  BY <1>0, <1>5 DEF ReindexInv, PassInPlace, StepTyped, SetsTyped, MapsTyped, BeginBuild,
    NoFault, passVars
<1>6. CASE BeginReindex
  <2>1. /\ job = None /\ job' = "reindex" /\ todo' = Path
        /\ UNCHANGED <<step, unread, gone, parsed, failed, broken, kept, skips, carry>>
    BY <1>6 DEF BeginReindex
  <2>2. blind' => calm' = 0
    BY <1>6 DEF BeginReindex, Fault
  <2>3. QED
    BY <1>0, <2>1, <2>2 DEF ReindexInv, PassInPlace, SetsTyped
<1>7. CASE \E p \in Path : HashNote(p)
  BY <1>0, <1>7 DEF ReindexInv, PassInPlace, StepTyped, SetsTyped, MapsTyped, HashNote,
    Recorded, Fault, NoFault, storeVars
<1>8. CASE \E p \in Path : ParseNote(p)
  BY <1>0, <1>8 DEF ReindexInv, PassInPlace, StepTyped, SetsTyped, MapsTyped, ParseNote,
      Fault,
    NoFault, storeVars
<1>9. CASE \E p \in Path : RecordSkip(p)
  BY <1>0, <1>9 DEF ReindexInv, PassInPlace, StepTyped, SetsTyped, MapsTyped, RecordSkip,
      Fault,
    NoFault, storeVars
<1>10. CASE \E p \in Path : ScanNote(p)
  BY <1>0, <1>10 DEF ReindexInv, PassInPlace, StepTyped, SetsTyped, MapsTyped, ScanNote,
      Fault,
    NoFault, storeVars
<1>11. CASE \E p \in Path : DeleteNote(p)
  BY <1>0, <1>11 DEF ReindexInv, PassInPlace, StepTyped, SetsTyped, MapsTyped, DeleteNote,
    NoFault
<1>12. CASE \E p \in Path : RecordCandidate(p)
  BY <1>0, <1>12 DEF ReindexInv, PassInPlace, StepTyped, SetsTyped, MapsTyped,
      RecordCandidate,
    Parsed, Fault, NoFault
<1>13. CASE \E p \in Path : UpsertNote(p)
  BY <1>0, <1>13 DEF ReindexInv, PassInPlace, StepTyped, SetsTyped, MapsTyped, UpsertNote,
    Fault, NoFault
<1>14. CASE WipeForRebuild
  BY <1>0, <1>14 DEF ReindexInv, PassInPlace, StepTyped, SetsTyped, MapsTyped, WipeForRebuild,
    GoOn, Through, NoFault, Parsed
<1>15. CASE EndParse \/ EndDelete \/ EndUpsert \/ EndSkips
  BY <1>0, <1>15 DEF ReindexInv, PassInPlace, StepTyped, SetsTyped, MapsTyped, EndParse, GoOn,
    Through, NoFault, storeVars, EndDelete, Parsed, EndUpsert, EndSkips
<1>16. CASE SaveState \/ Checkpoint
  BY <1>0, <1>16 DEF ReindexInv, PassInPlace, StepTyped, SetsTyped, MapsTyped, SaveState,
    Through, Checkpoint, passVars
<1>17. CASE (\E p \in Path : RefreshRow(p))
         \/ (\E p \in Path : \E text \in Content \cup {Absent} : Edit(p, text))
  BY <1>0, <1>17 DEF ReindexInv, PassInPlace, StepTyped, SetsTyped, MapsTyped, RefreshRow,
    passVars, Edit
<1>18. QED
  BY <1>0, <1>1, <1>2, <1>3, <1>4, <1>5, <1>6, <1>7, <1>8, <1>9, <1>10, <1>11, <1>12, <1>13,
      <1>14, <1>15, <1>16, <1>17,
    ReloadKeeps DEF ReindexNext, PassStep

(* What an unread directory hides is neither parsed nor deleted.           *)
LEMMA UnreadIsLeftStep == ReindexInv /\ ReindexNext => UnreadIsLeft'
<1>0. SUFFICES ASSUME ReindexInv, ReindexNext PROVE UnreadIsLeft'
  OBVIOUS
<1> USE ReindexAssumption DEF Hash, Content
<1>1. CASE Restart \/ PassRaises \/ SyncTombstones
  BY <1>0, <1>1 DEF ReindexInv, UnreadIsLeft, StepTyped, SetsTyped, MapsTyped, TrackerTyped,
    PassInPlace, HashIn, Loaded, Recorded, Restart, Rest, NoCarry, PassRaises, Fault, storeVars,
    SyncTombstones, Through
<1>2. CASE Classify
  <2>1. CASE Rest /\ job' = None
    BY <2>1 DEF UnreadIsLeft, Rest
  <2>2. CASE ~(Rest /\ job' = None)
    <3>1. /\ job = "reindex" /\ step = "hash" /\ step' = "parse"
          /\ UNCHANGED <<job, unread, parsed, failed, skips>>
          /\ todo' = {p \in Path : read[p] # Absent /\ read[p] # HashIn(Loaded, p)}
          /\ gone' = {p \in Path : Loaded.indexed[p] # None /\ read[p] = Absent}
      BY <1>0, <1>2, <2>2 DEF ReindexInv, Classify, Through, GoOn, StepTyped, PassInPlace
    <3>2. ASSUME NEW p \in unread PROVE p \notin todo' /\ p \notin gone'
      <4>1. /\ p \in Path /\ Absent \notin Hash
            /\ Loaded.indexed[p] \in Hash /\ Loaded.skipped[p] \in Hash
            /\ None \in {Loaded.indexed[p], Loaded.skipped[p]}
        BY <1>0, LoadedTyped DEF ReindexInv, SetsTyped
      <4>2. /\ Loaded.skipped[p] # None => read[p] = Loaded.skipped[p]
            /\ Loaded.skipped[p] = None => read[p] = Recorded(p)
        BY <1>0, <3>1 DEF ReindexInv, UnreadIsLeft
      <4>3. QED
        BY <3>1, <4>1, <4>2 DEF HashIn, Recorded
    <3>3. \A p \in unread : p \notin failed /\ parsed[p] = None /\ skips[p] = None
      BY <1>0, <3>1 DEF ReindexInv, UnreadIsLeft
    <3>4. QED
      BY <3>1, <3>2, <3>3 DEF UnreadIsLeft
  <2>3. QED
    BY <2>1, <2>2
<1>3. CASE \E p \in Path : HashNote(p)
  BY <1>0, <1>3 DEF ReindexInv, UnreadIsLeft, StepTyped, SetsTyped, MapsTyped, TrackerTyped,
    PassInPlace, HashIn, Loaded, Recorded, HashNote, Fault, NoFault, storeVars
<1>4. CASE \E p \in Path : ParseNote(p)
  BY <1>0, <1>4 DEF ReindexInv, UnreadIsLeft, StepTyped, SetsTyped, MapsTyped, TrackerTyped,
    PassInPlace, HashIn, Loaded, Recorded, ParseNote, Fault, NoFault, storeVars
<1>5. CASE \E p \in Path : RecordSkip(p)
  BY <1>0, <1>5 DEF ReindexInv, UnreadIsLeft, StepTyped, SetsTyped, MapsTyped, TrackerTyped,
    PassInPlace, HashIn, Loaded, Recorded, RecordSkip, Fault, NoFault, storeVars
<1>6. CASE \E p \in Path : ScanNote(p)
  BY <1>0, <1>6 DEF ReindexInv, UnreadIsLeft, StepTyped, SetsTyped, MapsTyped, TrackerTyped,
    PassInPlace, HashIn, Loaded, Recorded, ScanNote, Fault, NoFault, storeVars
<1>7. CASE Checkpoint \/ SaveState
  BY <1>0, <1>7 DEF ReindexInv, UnreadIsLeft, StepTyped, SetsTyped, MapsTyped, TrackerTyped,
    PassInPlace, HashIn, Loaded, Recorded, Checkpoint, passVars, SaveState, Through
<1>8. CASE (\E force \in BOOLEAN : BeginBuild(force)) \/ BeginReindex
  BY <1>0, <1>8 DEF ReindexInv, UnreadIsLeft, StepTyped, SetsTyped, MapsTyped, TrackerTyped,
    PassInPlace, HashIn, Loaded, Recorded, BeginBuild, NoFault, passVars, BeginReindex, storeVars
<1>9. CASE (\E p \in Path : RefreshRow(p))
         \/ (\E p \in Path : \E text \in Content \cup {Absent} : Edit(p, text))
         \/ (\E p \in Path : DeleteNote(p)) \/ (\E p \in Path : UpsertNote(p))
         \/ (\E p \in Path : RecordCandidate(p)) \/ EndParse \/ EndDelete \/ EndUpsert
         \/ WipeForRebuild \/ EndSkips
  BY <1>0, <1>9 DEF ReindexInv, UnreadIsLeft, StepTyped, SetsTyped, MapsTyped, TrackerTyped,
    PassInPlace, HashIn, Loaded, Recorded, RefreshRow, passVars, Edit, DeleteNote, NoFault,
    UpsertNote, Fault, RecordCandidate, Parsed, EndParse, GoOn, Through, storeVars, EndDelete,
    EndUpsert, WipeForRebuild, EndSkips
<1>10. QED
  BY <1>0, <1>1, <1>2, <1>3, <1>4, <1>5, <1>6, <1>7, <1>8, <1>9,
    ReloadKeeps DEF ReindexNext, PassStep

(* What an unread directory hides keeps its row while the directory is     *)
(* unread.                                                                 *)
LEMMA UnreadRowsStay ==
  ReindexInv /\ ReindexNext => (\A q \in unread : row'[q] = row[q]) \/ SyncTombstones
<1>0. SUFFICES ASSUME ReindexInv, ReindexNext
               PROVE  (\A q \in unread : row'[q] = row[q]) \/ SyncTombstones
  OBVIOUS
<1> USE ReindexAssumption DEF Hash, Content
<1>1. CASE SyncTombstones
  BY <1>0, <1>1 DEF ReindexInv, StepTyped, SetsTyped, MapsTyped, StoresTyped,
    PassInPlace, UnreadIsLeft, SyncTombstones, Through, Rest, NoCarry
<1>2. CASE \E p \in Path : DeleteNote(p)
  BY <1>0, <1>2 DEF ReindexInv, StepTyped, SetsTyped, MapsTyped, StoresTyped,
    PassInPlace, UnreadIsLeft, DeleteNote, NoFault
<1>3. CASE \E p \in Path : RecordSkip(p)
  BY <1>0, <1>3 DEF ReindexInv, StepTyped, SetsTyped, MapsTyped, StoresTyped,
    PassInPlace, UnreadIsLeft, RecordSkip, Fault, NoFault, storeVars
<1>4. CASE \E p \in Path : UpsertNote(p)
  BY <1>0, <1>4 DEF ReindexInv, StepTyped, SetsTyped, MapsTyped, StoresTyped,
    PassInPlace, UnreadIsLeft, UpsertNote, Fault, NoFault
<1>5. CASE \E p \in Path : RecordCandidate(p)
  BY <1>0, <1>5 DEF ReindexInv, StepTyped, SetsTyped, MapsTyped, StoresTyped,
    PassInPlace, UnreadIsLeft, RecordCandidate, Parsed, Fault, NoFault
<1>6. CASE WipeForRebuild
  BY <1>6 DEF WipeForRebuild, storeVars
<1>7. CASE \E p \in Path : RefreshRow(p)
  BY <1>0, <1>7 DEF ReindexInv, StepTyped, SetsTyped, MapsTyped, StoresTyped,
    PassInPlace, UnreadIsLeft, RefreshRow, passVars
<1>8. CASE Restart \/ BeginReindex \/ (\E force \in BOOLEAN : BeginBuild(force))
         \/ (\E p \in Path : \E text \in Content \cup {Absent} : Edit(p, text))
         \/ (\E p \in Path : HashNote(p)) \/ (\E p \in Path : ParseNote(p))
         \/ (\E p \in Path : ScanNote(p)) \/ Classify \/ EndParse \/ EndDelete \/ Checkpoint
         \/ EndUpsert \/ EndSkips \/ SaveState \/ PassRaises \/ ReloadFails
  BY <1>0, <1>8 DEF ReindexInv, StepTyped, SetsTyped, MapsTyped, StoresTyped, ReloadFails,
    PassInPlace, UnreadIsLeft, Restart, Rest, NoCarry, BeginReindex, storeVars, BeginBuild,
    NoFault, passVars, Edit, HashNote, Recorded, Fault, ParseNote, ScanNote, Classify, GoOn,
    Through, EndParse, EndDelete, Parsed, Checkpoint, EndUpsert, EndSkips, SaveState, PassRaises
<1>9. QED
  BY <1>0, <1>1, <1>2, <1>3, <1>4, <1>5, <1>6, <1>7, <1>8,
    ReloadKeeps DEF ReindexNext, PassStep

(* Its listed tombstones are carried to the state that will be saved.      *)
LEMMA HiddenIsListedStep == ReindexInv /\ ReindexNext => HiddenIsListed'
<1>0. SUFFICES ASSUME ReindexInv, ReindexNext PROVE HiddenIsListed'
  OBVIOUS
<1> USE ReindexAssumption DEF Hash, Content
<1>1. CASE Restart \/ PassRaises \/ SyncTombstones
  BY <1>0, UnreadRowsStay, <1>1 DEF ReindexInv, HiddenIsListed, StepTyped, SetsTyped,
      MapsTyped,
    TrackerTyped, PassInPlace, UnreadIsLeft, HashIn, Loaded, Recorded, Restart, Rest, NoCarry,
    PassRaises, Fault, storeVars, SyncTombstones, Through
<1>2. CASE Classify
  BY <1>0, UnreadRowsStay, <1>2 DEF ReindexInv, HiddenIsListed, StepTyped, SetsTyped, MapsTyped,
    TrackerTyped, PassInPlace, UnreadIsLeft, HashIn, Loaded, Recorded, Classify, GoOn, Through,
    Rest, NoCarry, NoFault, storeVars
<1>3. CASE \E p \in Path : HashNote(p)
  BY <1>0, UnreadRowsStay, <1>3 DEF ReindexInv, HiddenIsListed, StepTyped, SetsTyped,
      MapsTyped,
    TrackerTyped, PassInPlace, UnreadIsLeft, HashIn, Loaded, Recorded, HashNote, Fault, NoFault,
    storeVars
<1>4. CASE \E p \in Path : ParseNote(p)
  BY <1>0, UnreadRowsStay, <1>4 DEF ReindexInv, HiddenIsListed, StepTyped, SetsTyped,
      MapsTyped,
    TrackerTyped, PassInPlace, UnreadIsLeft, HashIn, Loaded, Recorded, ParseNote, Fault, NoFault,
    storeVars
<1>5. CASE \E p \in Path : ScanNote(p)
  BY <1>0, UnreadRowsStay, <1>5 DEF ReindexInv, HiddenIsListed, StepTyped, SetsTyped,
      MapsTyped,
    TrackerTyped, PassInPlace, UnreadIsLeft, HashIn, Loaded, Recorded, ScanNote, Fault, NoFault,
    storeVars
<1>6. CASE (\E p \in Path : RecordSkip(p)) \/ (\E p \in Path : DeleteNote(p))
         \/ (\E p \in Path : UpsertNote(p)) \/ (\E p \in Path : RecordCandidate(p))
  <2>1. /\ UNCHANGED <<unread, tracker, carry, job, step, kept, blind>>
        /\ ~SyncTombstones
    BY <1>0, <1>6 DEF ReindexInv, RecordSkip, DeleteNote, UpsertNote, RecordCandidate, NoFault,
      Fault, SyncTombstones, Through, SetsTyped
  <2>2. \A q \in unread : row'[q] = row[q]
    BY <1>0, <2>1, UnreadRowsStay
  <2>3. QED
    BY <1>0, <2>1, <2>2 DEF ReindexInv, HiddenIsListed
<1>7. CASE WipeForRebuild
  BY <1>0, <1>7 DEF ReindexInv, HiddenIsListed, SetsTyped, StoresTyped, PassInPlace,
    WipeForRebuild, GoOn, Through, storeVars
<1>8. CASE Checkpoint
  <2>1. SUFFICES ASSUME NEW q \in unread, row[q] = Tomb, q \in NewTracker.reasons
                 PROVE  q \in carry.reasons /\ carry.skipped[q] # None
    BY <1>0, <1>8 DEF ReindexInv, HiddenIsListed, Checkpoint, passVars
  <2>2. kept = {} /\ skips[q] = None /\ q \notin failed
    BY <1>0, <1>8 DEF ReindexInv, Checkpoint, PassInPlace, UnreadIsLeft
  <2>3. q \in Path /\ NewSkipped[q] # None /\ q \in failed \cup kept \cup carry.reasons
    BY <2>1 DEF NewTracker
  <2>4. QED
    BY <2>2, <2>3, NewSkippedSays
<1>9. CASE SaveState
  <2>1. SUFFICES ASSUME NEW q \in unread, row[q] = Tomb, q \in NewTracker.reasons
                 PROVE  /\ job = "reindex" => q \in carry.reasons /\ carry.skipped[q] # None
                        /\ job = "build" => q \in kept
    BY <1>0, <1>9 DEF ReindexInv, HiddenIsListed, SaveState
  <2>2. q \notin failed
    BY <1>0 DEF ReindexInv, UnreadIsLeft
  <2>3. q \in Path /\ NewSkipped[q] # None /\ q \in failed \cup kept \cup carry.reasons
    BY <2>1 DEF NewTracker
  <2>4. CASE job = "reindex"
    <3>1. kept = {} /\ skips[q] = None
      BY <1>0, <2>4 DEF ReindexInv, PassInPlace, UnreadIsLeft
    <3>2. QED
      BY <2>2, <2>3, <2>4, <3>1, NewSkippedSays
  <2>5. CASE job = "build"
    BY <1>0, <2>2, <2>3, <2>5 DEF ReindexInv, PassInPlace
  <2>6. QED
    BY <2>4, <2>5
<1>10. CASE (\E force \in BOOLEAN : BeginBuild(force)) \/ BeginReindex
  BY <1>0, UnreadRowsStay, <1>10 DEF ReindexInv, HiddenIsListed, StepTyped, SetsTyped, MapsTyped,
    TrackerTyped, PassInPlace, UnreadIsLeft, HashIn, Loaded, Recorded, BeginBuild, NoFault,
    passVars, BeginReindex, storeVars
<1>11. CASE (\E p \in Path : RefreshRow(p))
         \/ (\E p \in Path : \E text \in Content \cup {Absent} : Edit(p, text)) \/ EndParse
         \/ EndDelete \/ EndUpsert \/ EndSkips
  BY <1>0, UnreadRowsStay, <1>11 DEF ReindexInv, HiddenIsListed, StepTyped, SetsTyped, MapsTyped,
    TrackerTyped, PassInPlace, UnreadIsLeft, HashIn, Loaded, Recorded, RefreshRow, passVars, Edit,
    EndParse, GoOn, Through, NoFault, storeVars, EndDelete, Parsed, EndUpsert, EndSkips
<1>12. QED
  BY <1>0, <1>1, <1>2, <1>3, <1>4, <1>5, <1>6, <1>7, <1>8, <1>9, <1>10,
      <1>11,
    ReloadKeeps DEF ReindexNext, PassStep

(* A row the tracker does not owe is as the tracker says.                  *)
LEMMA TrackerTellsStep == ReindexInv /\ ReindexNext => TrackerTells'
<1>0. SUFFICES ASSUME ReindexInv, ReindexNext PROVE TrackerTells'
  OBVIOUS
<1> USE ReindexAssumption DEF Hash, Content
<1>1. CASE Checkpoint
  BY <1>0, NewIndexedSays, <1>1 DEF ReindexInv, TrackerTells, Live, NewTracker, Checkpoint,
    passVars
<1>2. CASE SaveState
  <2>1. job \in {"build", "reindex"} /\ step = "save" /\ UNCHANGED <<row>>
    BY <1>0, <1>2 DEF ReindexInv, StepTyped, SaveState, Through
  <2>2. SUFFICES ASSUME NEW p \in Path
                 PROVE  /\ Live(p) => NewIndexed[p] \in {row[p], Reparse}
                        /\ ~Live(p) => NewIndexed[p] \in {None, Reparse}
    BY <1>2, <2>1 DEF TrackerTells, SaveState, NewTracker, Live
  <2>3. CASE job = "reindex"
    BY <2>3, NewIndexedSays
  <2>4. CASE job = "build"
    <3>1. /\ Live(p) => parsed[p] # None \/ p \in kept
          /\ parsed[p] # None /\ p \notin broken => row[p] = parsed[p]
      BY <1>0, <2>1, <2>4 DEF ReindexInv, BuildRows
    <3>2. parsed[p] \in Good \cup {None}
      BY <1>0 DEF ReindexInv, MapsTyped
    <3>3. QED
      BY <2>4, <3>1, <3>2, NewIndexedSays DEF Live
  <2>5. QED
    BY <2>1, <2>3, <2>4
<1>3. CASE SyncTombstones
  BY <1>0, <1>3 DEF ReindexInv, TrackerTells, Live, StoresTyped, TrackerTyped, PassInPlace,
    BuildRows, SyncTombstones, Through, Rest, NoCarry
<1>4. CASE WipeForRebuild
  BY <1>0, <1>4 DEF ReindexInv, TrackerTells, Live, WipeForRebuild, storeVars
<1>5. CASE \E p \in Path : RecordCandidate(p)
  <2>1. PICK p \in Path : RecordCandidate(p)
    BY <1>5
  <2>2. job = "build" /\ step = "skips" /\ UNCHANGED <<tracker, owed>>
    BY <2>1 DEF RecordCandidate
  <2>3. row' = row \/ (p \in failed /\ row' = [row EXCEPT ![p] = Tomb])
    BY <2>1 DEF RecordCandidate
  <2>4. p \in failed => ~Live(p)
    BY <1>0, <2>2 DEF ReindexInv, BuildRows, PassInPlace, UnreadIsLeft
  <2>5. row \in [Path -> Good \cup {Absent, Tomb}] /\ Tomb \notin Good
    BY <1>0 DEF ReindexInv, StoresTyped
  <2>6. QED
    BY <1>0, <2>2, <2>3, <2>4, <2>5 DEF ReindexInv, TrackerTells, Live
<1>6. CASE \E p \in Path : RecordSkip(p)
  BY <1>0, <1>6 DEF ReindexInv, TrackerTells, Live, StoresTyped, TrackerTyped, PassInPlace,
    BuildRows, RecordSkip, Fault, NoFault, storeVars
<1>7. CASE (\E p \in Path : UpsertNote(p)) \/ (\E p \in Path : DeleteNote(p))
         \/ (\E p \in Path : RefreshRow(p))
  BY <1>0, <1>7 DEF ReindexInv, TrackerTells, Live, StoresTyped, TrackerTyped, PassInPlace,
    BuildRows, UpsertNote, Fault, NoFault, DeleteNote, RefreshRow, passVars
<1>8. CASE Restart \/ BeginReindex \/ (\E force \in BOOLEAN : BeginBuild(force))
         \/ (\E p \in Path : \E text \in Content \cup {Absent} : Edit(p, text))
         \/ (\E p \in Path : HashNote(p)) \/ (\E p \in Path : ParseNote(p))
         \/ (\E p \in Path : ScanNote(p)) \/ Classify \/ EndParse \/ EndDelete \/ EndUpsert
         \/ EndSkips \/ PassRaises
  BY <1>0, <1>8 DEF ReindexInv, TrackerTells, Live, StoresTyped, TrackerTyped, PassInPlace,
    BuildRows, Restart, Rest, NoCarry, BeginReindex, storeVars, BeginBuild, NoFault, passVars,
    Edit, HashNote, Recorded, Fault, ParseNote, ScanNote, Classify, GoOn, Through, EndParse,
    EndDelete, Parsed, EndUpsert, EndSkips, PassRaises
<1>9. QED
  BY <1>0, <1>1, <1>2, <1>3, <1>4, <1>5, <1>6, <1>7, <1>8,
    ReloadKeeps DEF ReindexNext, PassStep

(* A build's rows are what it scanned, or kept.                            *)
LEMMA BuildRowsStep == ReindexInv /\ ReindexNext => BuildRows'
<1>0. SUFFICES ASSUME ReindexInv, ReindexNext PROVE BuildRows'
  OBVIOUS
<1> USE ReindexAssumption DEF Hash, Content
<1>1. CASE Restart \/ PassRaises \/ SyncTombstones
  BY <1>0, <1>1 DEF ReindexInv, BuildRows, Live, StepTyped, SetsTyped, MapsTyped, PassInPlace,
    Restart, Rest, NoCarry, PassRaises, Fault, storeVars, SyncTombstones, Through
<1>2. CASE WipeForRebuild
  <2>1. /\ step' = "delete" /\ UNCHANGED <<row, parsed>>
        /\ kept' = {p \in unread : row[p] # Absent}
    BY <1>2 DEF WipeForRebuild, GoOn, storeVars
  <2>2. PICK spared : /\ todo' = {p \in Path \ spared : row[p] # Absent}
                      /\ spared = unread \cup IF forced THEN {} ELSE {p \in Parsed : Live(p)}
    BY <1>2 DEF WipeForRebuild, GoOn
  <2>3. \A p \in Path : row[p] # Absent => p \in todo' \/ p \in kept' \/ p \in Parsed
    BY <2>1, <2>2
  <2>4. \A p \in Path : Live(p)' => row[p] # Absent
    BY <2>1, ReindexAssumption DEF Live
  <2>5. QED
    BY <2>1, <2>3, <2>4 DEF BuildRows, Parsed
<1>3. CASE \E p \in Path : UpsertNote(p)
  <2>1. PICK p \in Path : UpsertNote(p)
    BY <1>3
  <2>2. /\ step = "upsert" /\ p \in todo /\ todo' = todo \ {p} /\ parsed[p] # None
        /\ UNCHANGED <<job, step, parsed, failed, kept>>
    BY <1>0, <2>1 DEF ReindexInv, UpsertNote, PassInPlace
  <2>3. \/ row' = [row EXCEPT ![p] = parsed[p]] /\ UNCHANGED broken /\ owed' = owed \cup {p}
        \/ broken' = broken \cup {p} /\ UNCHANGED <<row, owed>>
    BY <2>1 DEF UpsertNote
  <2>4. row \in [Path -> Good \cup {Absent, Tomb}]
    BY <1>0 DEF ReindexInv, StoresTyped
  <2>5. CASE row' = [row EXCEPT ![p] = parsed[p]] /\ UNCHANGED broken /\ owed' = owed \cup {p}
    BY <1>0, <2>2, <2>4, <2>5 DEF ReindexInv, BuildRows, Live
  <2>6. CASE broken' = broken \cup {p} /\ UNCHANGED <<row, owed>>
    BY <1>0, <2>2, <2>6 DEF ReindexInv, BuildRows, Live
  <2>7. QED
    BY <2>3, <2>5, <2>6
<1>4. CASE \E p \in Path : DeleteNote(p)
  <2>1. PICK p \in Path : DeleteNote(p)
    BY <1>4
  <2>2. /\ step = "delete" /\ todo' = todo \ {p} /\ row' = [row EXCEPT ![p] = Absent]
        /\ UNCHANGED <<job, step, parsed, kept, broken>>
    BY <2>1 DEF DeleteNote
  <2>3. row \in [Path -> Good \cup {Absent, Tomb}] /\ Absent \notin Good
    BY <1>0 DEF ReindexInv, StoresTyped
  <2>4. QED
    BY <1>0, <2>2, <2>3 DEF ReindexInv, BuildRows, Live
<1>5. CASE \E p \in Path : RecordCandidate(p)
  <2>1. PICK p \in Path : RecordCandidate(p)
    BY <1>5
  <2>2. step = "skips" /\ UNCHANGED <<job, step, parsed, failed, kept, broken, owed>>
    BY <2>1 DEF RecordCandidate
  <2>3. row' = row \/ (parsed[p] = None /\ row' = [row EXCEPT ![p] = Tomb])
    BY <2>1 DEF RecordCandidate, Parsed
  <2>4. row \in [Path -> Good \cup {Absent, Tomb}]
    BY <1>0 DEF ReindexInv, StoresTyped
  <2>5. QED
    BY <1>0, <2>2, <2>3, <2>4 DEF ReindexInv, BuildRows, Live
<1>6. CASE SaveState \/ Checkpoint
  BY <1>0, <1>6 DEF ReindexInv, BuildRows, Live, StepTyped, SetsTyped, MapsTyped, PassInPlace,
    SaveState, Through, Checkpoint, passVars
<1>7. CASE EndUpsert \/ EndSkips
  BY <1>0, <1>7 DEF ReindexInv, BuildRows, Live, StepTyped, SetsTyped, MapsTyped, PassInPlace,
    EndUpsert, GoOn, Through, NoFault, storeVars, EndSkips
<1>8. CASE (\E force \in BOOLEAN : BeginBuild(force)) \/ BeginReindex
  BY <1>0, <1>8 DEF ReindexInv, BuildRows, Live, StepTyped, SetsTyped, MapsTyped, PassInPlace,
    BeginBuild, NoFault, passVars, BeginReindex, storeVars
<1>9. CASE (\E p \in Path : RefreshRow(p))
         \/ (\E p \in Path : \E text \in Content \cup {Absent} : Edit(p, text))
         \/ (\E p \in Path : HashNote(p)) \/ (\E p \in Path : ParseNote(p))
         \/ (\E p \in Path : RecordSkip(p)) \/ (\E p \in Path : ScanNote(p)) \/ Classify
         \/ EndParse \/ EndDelete
  BY <1>0, <1>9 DEF ReindexInv, BuildRows, Live, StepTyped, SetsTyped, MapsTyped, PassInPlace,
    RefreshRow, passVars, Edit, HashNote, Recorded, Fault, NoFault, storeVars, ParseNote,
    RecordSkip, ScanNote, Classify, GoOn, Through, Rest, NoCarry, EndParse, EndDelete, Parsed
<1>10. QED
  BY <1>0, <1>1, <1>2, <1>3, <1>4, <1>5, <1>6, <1>7, <1>8, <1>9,
    ReloadKeeps DEF ReindexNext, PassStep

(* The state just saved owes nothing.                                      *)
LEMMA SavedOwesNothingStep == ReindexInv /\ ReindexNext => SavedOwesNothing'
<1>0. SUFFICES ASSUME ReindexInv, ReindexNext PROVE SavedOwesNothing'
  OBVIOUS
<1> USE ReindexAssumption DEF Hash, Content
<1>1. CASE Restart \/ BeginReindex \/ (\E force \in BOOLEAN : BeginBuild(force))
         \/ (\E p \in Path : RefreshRow(p))
         \/ (\E p \in Path : \E text \in Content \cup {Absent} : Edit(p, text))
         \/ (\E p \in Path : HashNote(p)) \/ (\E p \in Path : ParseNote(p))
         \/ (\E p \in Path : RecordSkip(p)) \/ (\E p \in Path : DeleteNote(p))
         \/ (\E p \in Path : UpsertNote(p)) \/ (\E p \in Path : ScanNote(p))
         \/ (\E p \in Path : RecordCandidate(p)) \/ Classify \/ EndParse \/ EndDelete
         \/ Checkpoint \/ EndUpsert \/ WipeForRebuild \/ EndSkips \/ SaveState
         \/ SyncTombstones \/ PassRaises
  BY <1>0, <1>1 DEF ReindexInv, SavedOwesNothing, PassInPlace, Restart, Rest, NoCarry,
    BeginReindex, storeVars, BeginBuild, NoFault, passVars, RefreshRow, Edit, HashNote,
    Recorded, Fault, ParseNote, RecordSkip, DeleteNote, UpsertNote, ScanNote, RecordCandidate,
    Parsed, Classify, GoOn, Through, EndParse, EndDelete, Checkpoint, EndUpsert, WipeForRebuild,
    EndSkips, SaveState, SyncTombstones, PassRaises
<1>2. QED
  BY <1>0, <1>1,
    ReloadKeeps DEF ReindexNext, PassStep

-----------------------------------------------------------------------------
(* What two undisturbed reindexes do.                                      *)

(* A row the tracker does not owe and that is out of date is noticed, or   *)
(* taken for a skip; then there is no row.                                 *)
LEMMA NoticedOrStuck ==
  ASSUME StoresTyped, TrackerTells, NEW p \in Path, p \notin owed
  PROVE  RowMatches(p) \/ Noticed(p) \/ (Stuck(p) /\ ~Live(p))
<1> USE ReindexAssumption DEF Content
<1>1. /\ Live(p) => tracker.indexed[p] \in {row[p], Reparse}
      /\ ~Live(p) => tracker.indexed[p] \in {None, Reparse}
  BY DEF TrackerTells
<1>2. disk[p] \in Good \cup {Bad, Absent}
  BY DEF StoresTyped
<1>3. CASE disk[p] \in Good
  BY <1>1, <1>3 DEF RowMatches, Noticed, HashIn, Stuck, Live
<1>4. CASE disk[p] \notin Good
  BY <1>1, <1>2, <1>4 DEF RowMatches, Noticed, HashIn, Live
<1>5. QED
  BY <1>3, <1>4

(* After an undisturbed reindex, until the next pass sets out.             *)
LEMMA CalmAtRestStep == ReindexInv /\ ReindexNext => CalmAtRest'
<1>0. SUFFICES ASSUME ReindexInv, ReindexNext PROVE CalmAtRest'
  OBVIOUS
<1> USE ReindexAssumption DEF Hash, Content
<1>1. CASE Restart
  BY <1>0, <1>1 DEF ReindexInv, CalmAtRest, StepTyped, StoresTyped, SetsTyped, MapsTyped,
    CountsTyped, PassInPlace, RowMatches, Stuck, Live, Restart, Rest, NoCarry
<1>2. CASE PassRaises
  BY <1>0, <1>2 DEF ReindexInv, CalmAtRest, StepTyped, StoresTyped, SetsTyped, MapsTyped,
    CountsTyped, PassInPlace, RowMatches, Stuck, Live, PassRaises, Fault, Rest, NoCarry,
    storeVars
<1>3. CASE \E p \in Path : \E text \in Content \cup {Absent} : Edit(p, text)
  BY <1>0, <1>3 DEF ReindexInv, CalmAtRest, StepTyped, StoresTyped, SetsTyped, MapsTyped,
    CountsTyped, PassInPlace, RowMatches, Stuck, Live, Edit, passVars
<1>4. CASE \E p \in Path : RefreshRow(p)
  BY <1>0, <1>4 DEF ReindexInv, CalmAtRest, StepTyped, StoresTyped, SetsTyped, MapsTyped,
    CountsTyped, PassInPlace, RowMatches, Stuck, Live, RefreshRow, passVars
<1>5. CASE SyncTombstones
  <2>1. /\ step = "sync" /\ job \in {"build", "reindex"} /\ owed = {}
        /\ UNCHANGED <<disk, tracker, owed>>
        /\ calm' = calm \/ calm' = 1 \/ calm > 0
    <3>1. /\ step = "sync" /\ job # None /\ UNCHANGED <<disk, tracker, owed>>
          /\ calm' \in {calm, 1, 2} /\ (calm' = 2 => calm = 2 \/ calm # 0)
      BY <1>5 DEF SyncTombstones, Through
    <3>2. calm \in 0..2 /\ owed = {} /\ job \in {"build", "reindex"}
      BY <1>0, <3>1 DEF ReindexInv, CountsTyped, SavedOwesNothing, StepTyped
    <3>3. QED
      BY <3>1, <3>2
  <2>2. row' = [p \in Path |-> IF row[p] = Tomb /\ p \notin Loaded.reasons THEN Absent
                                                                       ELSE row[p]]
        /\ Loaded.reasons \subseteq tracker.reasons
    BY <1>0, <1>5, LoadedTyped DEF ReindexInv, SyncTombstones, NoTracker
  <2>3. \A p \in Path : /\ row'[p] = Tomb => p \in tracker.reasons
                        /\ RowMatches(p) => RowMatches(p)'
    BY <2>1, <2>2 DEF RowMatches, Live
  <2>4. CASE calm > 0
    <3>1. \A p \in Path : RowMatches(p) \/ (disk[p] \in Good /\ Stuck(p))
      BY <1>0, <2>1, <2>4 DEF ReindexInv, CalmReindex, CalmBuild, Carried, Stuck
    <3>2. \A p \in Path : Stuck(p) => Stuck(p)'
      BY <2>1 DEF Stuck
    <3>3. QED
      BY <2>1, <2>3, <3>1, <3>2 DEF CalmAtRest
  <2>5. CASE ~(calm > 0)
    <3>1. calm' > 0 => calm' = 1
      BY <2>1, <2>5
    <3>2. QED
      BY <2>1, <2>3, <3>1 DEF CalmAtRest
  <2>6. QED
    BY <2>4, <2>5
<1>6. CASE Classify
  BY <1>0, <1>6 DEF ReindexInv, CalmAtRest, StepTyped, StoresTyped, SetsTyped, MapsTyped,
    CountsTyped, PassInPlace, RowMatches, Stuck, Live, Classify, GoOn, Through, Rest, NoCarry,
    NoFault, storeVars
<1>7. CASE \E force \in BOOLEAN : BeginBuild(force)
  BY <1>0, <1>7 DEF ReindexInv, CalmAtRest, StepTyped, StoresTyped, SetsTyped, MapsTyped,
    CountsTyped, PassInPlace, RowMatches, Stuck, Live, BeginBuild, NoFault, passVars
<1>8. CASE BeginReindex
  <2>1. UNCHANGED <<disk, row, tracker, step, owed>> /\ calm' \in {calm, 0}
    BY <1>8 DEF BeginReindex, storeVars, Fault
  <2>2. QED
    BY <1>0, <2>1 DEF ReindexInv, CalmAtRest, RowMatches, Stuck, Live
<1>9. CASE \E p \in Path : HashNote(p)
  BY <1>0, <1>9 DEF ReindexInv, CalmAtRest, StepTyped, StoresTyped, SetsTyped, MapsTyped,
    CountsTyped, PassInPlace, RowMatches, Stuck, Live, HashNote, Recorded, Fault, NoFault,
    storeVars
<1>10. CASE Checkpoint \/ SaveState
  BY <1>0, <1>10 DEF ReindexInv, CalmAtRest, StepTyped, StoresTyped, SetsTyped, MapsTyped,
    CountsTyped, PassInPlace, RowMatches, Stuck, Live, Checkpoint, passVars, SaveState, Through
<1>11. CASE EndParse \/ EndDelete \/ EndUpsert \/ EndSkips \/ WipeForRebuild
  BY <1>0, <1>11 DEF ReindexInv, CalmAtRest, StepTyped, StoresTyped, SetsTyped, MapsTyped,
    CountsTyped, PassInPlace, RowMatches, Stuck, Live, EndParse, GoOn, Through, NoFault,
    storeVars, EndDelete, Parsed, EndUpsert, EndSkips, WipeForRebuild
<1>12. CASE (\E p \in Path : ParseNote(p)) \/ (\E p \in Path : RecordSkip(p))
         \/ (\E p \in Path : DeleteNote(p)) \/ (\E p \in Path : UpsertNote(p))
         \/ (\E p \in Path : ScanNote(p)) \/ (\E p \in Path : RecordCandidate(p))
  BY <1>0, <1>12 DEF ReindexInv, CalmAtRest, StepTyped, StoresTyped, SetsTyped, MapsTyped,
    CountsTyped, PassInPlace, RowMatches, Stuck, Live, ParseNote, Fault, NoFault, storeVars,
    RecordSkip, DeleteNote, UpsertNote, ScanNote, RecordCandidate, Parsed
<1>13. QED
  BY <1>0, <1>1, <1>2, <1>3, <1>4, <1>5, <1>6, <1>7, <1>8, <1>9, <1>10, <1>11,
      <1>12,
    ReloadKeeps DEF ReindexNext, PassStep

(* During a reindex after an undisturbed one.                              *)
LEMMA CalmReindexStep == ReindexInv /\ ReindexNext => CalmReindex'
<1>0. SUFFICES ASSUME ReindexInv, ReindexNext PROVE CalmReindex'
  OBVIOUS
<1> USE ReindexAssumption DEF Hash, Content
<1>1. CASE Restart \/ PassRaises \/ SyncTombstones
  BY <1>0, <1>1 DEF ReindexInv, CalmReindex, StepTyped, StoresTyped, SetsTyped, MapsTyped,
    CountsTyped, PassInPlace, RowMatches, Carried, Live, Restart, Rest, NoCarry, PassRaises,
    Fault, storeVars, SyncTombstones, Through
<1>2. CASE (\E p \in Path : \E text \in Content \cup {Absent} : Edit(p, text))
         \/ (\E p \in Path : RefreshRow(p))
  BY <1>0, <1>2 DEF ReindexInv, CalmReindex, StepTyped, StoresTyped, SetsTyped, MapsTyped,
    CountsTyped, PassInPlace, RowMatches, Carried, Live, Edit, passVars, RefreshRow
<1>3. CASE Classify
  <2>1. SUFFICES ASSUME calm' > 0, job' = "reindex"
                 PROVE  CalmReindex'
    BY DEF CalmReindex
  <2>2. /\ step = "hash" /\ todo = {} /\ job = "reindex" /\ calm > 0
        /\ step' = "parse" /\ UNCHANGED <<disk, row, tracker, unread, parsed, failed, skips>>
    BY <1>0, <1>3, <2>1 DEF ReindexInv, Classify, Through, GoOn, Rest, NoFault, storeVars,
      StepTyped, PassInPlace
  <2>0. Loaded = tracker
    BY <1>0, <2>2, LoadedTyped DEF ReindexInv, PassInPlace
  <2>3. /\ todo' = {p \in Path : read[p] # Absent /\ read[p] # HashIn(tracker, p)}
        /\ gone' = {p \in Path : tracker.indexed[p] # None /\ read[p] = Absent}
    BY <1>3, <2>0, <2>1 DEF Classify, GoOn
  <2>4. /\ \A p \in Path : read[p] = disk[p] /\ parsed[p] = None /\ skips[p] = None
        /\ failed = {} /\ unread = {}
    BY <1>0, <2>2 DEF ReindexInv, CalmReindex, PassInPlace
  <2>5. \A p \in Path :
          /\ tracker.indexed[p] = None /\ tracker.skipped[p] # None
          /\ read[p] = tracker.skipped[p]
          => carry'.skipped[p] = read[p]
    BY <1>3, <2>0, <2>1 DEF Classify
  <2>6. ASSUME NEW p \in Path
        PROVE  RowMatches(p)' \/ Carried(p)' \/ p \in todo' \/ p \in gone'
    <3>1. RowMatches(p) \/ (p \notin owed /\ (Noticed(p) \/ (Stuck(p) /\ ~Live(p))))
      BY <1>0, <2>2, NoticedOrStuck DEF ReindexInv, CalmAtRest, TrackerTells, Stuck
    <3>2. RowMatches(p) => RowMatches(p)'
      BY <2>2 DEF RowMatches, Live
    <3>3. Noticed(p) => p \in todo' \/ p \in gone'
      BY <2>3, <2>4 DEF Noticed
    <3>4. Stuck(p) /\ ~Live(p) => Carried(p)'
      BY <2>2, <2>4, <2>5 DEF Stuck, Live, Carried
    <3>5. QED
      BY <3>1, <3>2, <3>3, <3>4
  <2>7. QED
    BY <2>2, <2>3, <2>4, <2>6 DEF CalmReindex
<1>4. CASE \E force \in BOOLEAN : BeginBuild(force)
  BY <1>0, <1>4 DEF ReindexInv, CalmReindex, StepTyped, StoresTyped, SetsTyped, MapsTyped,
    CountsTyped, PassInPlace, RowMatches, Carried, Live, BeginBuild, NoFault, passVars
<1>5. CASE BeginReindex
  BY <1>0, <1>5 DEF ReindexInv, CalmReindex, StepTyped, StoresTyped, SetsTyped, MapsTyped,
    CountsTyped, PassInPlace, RowMatches, Carried, Live, BeginReindex, storeVars
<1>6. CASE \E p \in Path : HashNote(p)
  BY <1>0, <1>6 DEF ReindexInv, CalmReindex, StepTyped, StoresTyped, SetsTyped, MapsTyped,
    CountsTyped, PassInPlace, RowMatches, Carried, Live, HashNote, Recorded, Fault, NoFault,
    storeVars
<1>7. CASE \E p \in Path : ParseNote(p)
  BY <1>0, <1>7 DEF ReindexInv, CalmReindex, StepTyped, StoresTyped, SetsTyped, MapsTyped,
    CountsTyped, PassInPlace, RowMatches, Carried, Live, ParseNote, Fault, NoFault, storeVars
<1>8. CASE \E p \in Path : RecordSkip(p)
  BY <1>0, <1>8 DEF ReindexInv, CalmReindex, StepTyped, StoresTyped, SetsTyped, MapsTyped,
    CountsTyped, PassInPlace, RowMatches, Carried, Live, RecordSkip, Fault, NoFault, storeVars
<1>9. CASE \E p \in Path : DeleteNote(p)
  BY <1>0, <1>9 DEF ReindexInv, CalmReindex, StepTyped, StoresTyped, SetsTyped, MapsTyped,
    CountsTyped, PassInPlace, RowMatches, Carried, Live, DeleteNote, NoFault
<1>10. CASE \E p \in Path : UpsertNote(p)
  BY <1>0, <1>10 DEF ReindexInv, CalmReindex, StepTyped, StoresTyped, SetsTyped, MapsTyped,
    CountsTyped, PassInPlace, RowMatches, Carried, Live, UpsertNote, Fault, NoFault
<1>11. CASE Checkpoint
  <2>1. SUFFICES ASSUME calm' > 0, job' = "reindex"
                 PROVE  CalmReindex'
    BY DEF CalmReindex
  <2>2. /\ calm > 0 /\ job = "reindex"
        /\ UNCHANGED <<disk, row, job, todo, read, unread, parsed, failed, gone, skips, carry>>
        /\ tracker' = NewTracker
    BY <1>11, <2>1 DEF Checkpoint, passVars
  <2>3. step = "upsert" /\ step' = "upsert"
    BY <1>11 DEF Checkpoint, passVars
  <2>4. ASSUME NEW p \in Path
        PROVE  Carried(p) => Carried(p)'
    <3>1. kept = {}
      BY <1>0, <2>2 DEF ReindexInv, PassInPlace
    <3>2. Carried(p) => NewIndexed[p] = None /\ NewSkipped[p] = carry.skipped[p]
      BY <2>2, <3>1, NewIndexedSays, NewSkippedSays DEF Carried
    <3>3. QED
      BY <2>2, <3>2 DEF Carried, NewTracker, Live
  <2>5. \A p \in Path : RowMatches(p) => RowMatches(p)'
    BY <2>2 DEF RowMatches, Live
  <2>6. QED
    BY <1>0, <2>2, <2>3, <2>4, <2>5 DEF ReindexInv, CalmReindex
<1>12. CASE SaveState
  <2>1. SUFFICES ASSUME calm' > 0, job' = "reindex"
                 PROVE  CalmReindex'
    BY DEF CalmReindex
  <2>2. /\ calm > 0 /\ job = "reindex"
        /\ UNCHANGED <<disk, row, job, todo, read, unread, parsed, failed, gone, skips, carry>>
        /\ tracker' = NewTracker
    BY <1>12, <2>1 DEF SaveState, passVars
  <2>3. step = "save" /\ step' = "sync"
    BY <1>12 DEF SaveState, Through
  <2>4. ASSUME NEW p \in Path
        PROVE  Carried(p) => Carried(p)'
    <3>1. kept = {}
      BY <1>0, <2>2 DEF ReindexInv, PassInPlace
    <3>2. Carried(p) => NewIndexed[p] = None /\ NewSkipped[p] = carry.skipped[p]
      BY <2>2, <3>1, NewIndexedSays, NewSkippedSays DEF Carried
    <3>3. QED
      BY <2>2, <3>2 DEF Carried, NewTracker, Live
  <2>5. \A p \in Path : RowMatches(p) => RowMatches(p)'
    BY <2>2 DEF RowMatches, Live
  <2>6. QED
    BY <1>0, <2>2, <2>3, <2>4, <2>5 DEF ReindexInv, CalmReindex
<1>13. CASE EndParse
  BY <1>0, <1>13 DEF ReindexInv, CalmReindex, StepTyped, StoresTyped, SetsTyped, MapsTyped,
    CountsTyped, PassInPlace, RowMatches, Carried, Live, EndParse, GoOn, Through, NoFault,
    storeVars
<1>14. CASE EndDelete
  BY <1>0, <1>14 DEF ReindexInv, CalmReindex, StepTyped, StoresTyped, SetsTyped, MapsTyped,
    CountsTyped, PassInPlace, RowMatches, Carried, Live, EndDelete, GoOn, Through, Parsed,
    NoFault, storeVars
<1>15. CASE EndUpsert
  BY <1>0, <1>15 DEF ReindexInv, CalmReindex, StepTyped, StoresTyped, SetsTyped, MapsTyped,
    CountsTyped, PassInPlace, RowMatches, Carried, Live, EndUpsert, GoOn, Through, NoFault,
    storeVars
<1>16. CASE (\E p \in Path : ScanNote(p)) \/ (\E p \in Path : RecordCandidate(p)) \/ EndSkips
         \/ WipeForRebuild
  BY <1>0, <1>16 DEF ReindexInv, CalmReindex, StepTyped, StoresTyped, SetsTyped, MapsTyped,
    CountsTyped, PassInPlace, RowMatches, Carried, Live, ScanNote, Fault, NoFault, storeVars,
    RecordCandidate, Parsed, EndSkips, GoOn, Through, WipeForRebuild
<1>17. QED
  BY <1>0, <1>1, <1>2, <1>3, <1>4, <1>5, <1>6, <1>7, <1>8, <1>9, <1>10, <1>11, <1>12, <1>13,
      <1>14, <1>15, <1>16,
    ReloadKeeps DEF ReindexNext, PassStep

(* During a build after an undisturbed reindex.                            *)
LEMMA CalmBuildStep == ReindexInv /\ ReindexNext => CalmBuild'
<1>0. SUFFICES ASSUME ReindexInv, ReindexNext PROVE CalmBuild'
  OBVIOUS
<1> USE ReindexAssumption DEF Hash, Content
<1>1. CASE Restart \/ PassRaises \/ SyncTombstones
  BY <1>0, <1>1 DEF ReindexInv, CalmBuild, StepTyped, StoresTyped, SetsTyped, MapsTyped,
    CountsTyped, PassInPlace, RowMatches, Live, Restart, Rest, NoCarry, PassRaises, Fault,
    storeVars, SyncTombstones, Through
<1>2. CASE (\E p \in Path : \E text \in Content \cup {Absent} : Edit(p, text))
         \/ (\E p \in Path : RefreshRow(p))
  BY <1>0, <1>2 DEF ReindexInv, CalmBuild, StepTyped, StoresTyped, SetsTyped, MapsTyped,
    CountsTyped, PassInPlace, RowMatches, Live, Edit, passVars, RefreshRow
<1>3. CASE \E force \in BOOLEAN : BeginBuild(force)
  BY <1>0, <1>3 DEF ReindexInv, CalmBuild, StepTyped, StoresTyped, SetsTyped, MapsTyped,
    CountsTyped, PassInPlace, RowMatches, Live, BeginBuild, NoFault, passVars
<1>4. CASE WipeForRebuild
  <2>1. SUFFICES ASSUME calm' > 0
                 PROVE  CalmBuild'
    BY DEF CalmBuild
  <2>2. /\ step = "scan" /\ todo = {} /\ job = "build" /\ calm > 0 /\ step' = "delete"
        /\ UNCHANGED <<disk, row, job, unread, parsed>>
    BY <1>0, <1>4, <2>1 DEF ReindexInv, StepTyped, PassInPlace, WipeForRebuild, Through,
      GoOn, NoFault, storeVars
  <2>3. unread = {} /\ \A p \in Path : disk[p] \in Good => parsed[p] = disk[p]
    BY <1>0, <2>2 DEF ReindexInv, CalmBuild
  <2>4. todo' = {p \in Path : row[p] # Absent /\ ~(~forced /\ p \in Parsed /\ Live(p))}
    BY <1>4, <2>3 DEF WipeForRebuild, GoOn
  <2>5. ASSUME NEW p \in Path
        PROVE  RowMatches(p)' \/ p \in todo' \/ parsed'[p] = disk'[p]
    <3>1. CASE p \in Parsed
      BY <1>0, <2>2, <3>1 DEF ReindexInv, CalmBuild, Parsed
    <3>2. CASE p \notin Parsed
      <4>1. disk[p] \notin Good
        BY <1>0, <2>3, <3>2 DEF ReindexInv, MapsTyped, Parsed
      <4>2. Live(p) => p \in todo'
        BY <2>4, <3>2 DEF Live
      <4>3. QED
        BY <2>2, <4>1, <4>2 DEF RowMatches, Live
    <3>3. QED
      BY <3>1, <3>2
  <2>6. QED
    BY <1>0, <2>2, <2>3, <2>5 DEF ReindexInv, CalmBuild
<1>5. CASE \E p \in Path : ScanNote(p)
  BY <1>0, <1>5 DEF ReindexInv, CalmBuild, StepTyped, StoresTyped, SetsTyped, MapsTyped,
    CountsTyped, PassInPlace, RowMatches, Live, ScanNote, Fault, NoFault, storeVars
<1>6. CASE \E p \in Path : UpsertNote(p)
  BY <1>0, <1>6 DEF ReindexInv, CalmBuild, StepTyped, StoresTyped, SetsTyped, MapsTyped,
    CountsTyped, PassInPlace, RowMatches, Live, UpsertNote, Fault, NoFault
<1>7. CASE \E p \in Path : RecordCandidate(p)
  BY <1>0, <1>7 DEF ReindexInv, CalmBuild, StepTyped, StoresTyped, SetsTyped, MapsTyped,
    CountsTyped, PassInPlace, RowMatches, Live, RecordCandidate, Parsed, Fault, NoFault
<1>8. CASE SaveState
  BY <1>0, <1>8 DEF ReindexInv, CalmBuild, StepTyped, StoresTyped, SetsTyped, MapsTyped,
    CountsTyped, PassInPlace, RowMatches, Live, SaveState, Through
<1>9. CASE EndUpsert
  BY <1>0, <1>9 DEF ReindexInv, CalmBuild, StepTyped, StoresTyped, SetsTyped, MapsTyped,
    CountsTyped, PassInPlace, RowMatches, Live, EndUpsert, GoOn, Through, NoFault, storeVars
<1>10. CASE EndSkips
  BY <1>0, <1>10 DEF ReindexInv, CalmBuild, StepTyped, StoresTyped, SetsTyped, MapsTyped,
    CountsTyped, PassInPlace, RowMatches, Live, EndSkips, GoOn, Through, NoFault, storeVars
<1>11. CASE Classify \/ BeginReindex
  BY <1>0, <1>11 DEF ReindexInv, CalmBuild, StepTyped, StoresTyped, SetsTyped, MapsTyped,
    CountsTyped, PassInPlace, RowMatches, Live, Classify, GoOn, Through, Rest, NoCarry, NoFault,
    storeVars, BeginReindex
<1>12. CASE (\E p \in Path : HashNote(p)) \/ (\E p \in Path : ParseNote(p))
         \/ (\E p \in Path : RecordSkip(p)) \/ (\E p \in Path : DeleteNote(p)) \/ EndParse
         \/ EndDelete \/ Checkpoint
  BY <1>0, <1>12 DEF ReindexInv, CalmBuild, StepTyped, StoresTyped, SetsTyped, MapsTyped,
    CountsTyped, PassInPlace, RowMatches, Live, HashNote, Recorded, Fault, NoFault, storeVars,
    ParseNote, RecordSkip, DeleteNote, EndParse, GoOn, Through, EndDelete, Parsed, Checkpoint,
    passVars
<1>13. QED
  BY <1>0, <1>1, <1>2, <1>3, <1>4, <1>5, <1>6, <1>7, <1>8, <1>9, <1>10, <1>11,
      <1>12,
    ReloadKeeps DEF ReindexNext, PassStep

-----------------------------------------------------------------------------
(* The invariant and what follows from it.                                 *)

(* A new vault, and one whose last pass completed, satisfy the invariant.  *)
LEMMA ReindexInvInit == ReindexInit => ReindexInv
<1>0. SUFFICES ASSUME ReindexInit PROVE ReindexInv
  OBVIOUS
<1> USE ReindexAssumption DEF Hash, Content
<1>1. /\ disk \in [Path -> Content \cup {Absent}]
      /\ dirty = {} /\ job = None /\ forced = FALSE /\ blind = FALSE /\ step = "hash"
      /\ todo = {}
      /\ read = [p \in Path |-> None] /\ unread = {} /\ gone = {}
      /\ parsed = [p \in Path |-> None] /\ failed = {} /\ broken = {} /\ kept = {}
      /\ skips = [p \in Path |-> None] /\ carry = NoCarry
      /\ edits = 0 /\ faults = 0 /\ owed = {} /\ calm = 0
  BY <1>0 DEF ReindexInit
<1>2. quiet = FALSE
  BY <1>0 DEF ReindexInit
<1>3. StoresTyped /\ TrackerTyped /\ TrackerTells
  <2>1. CASE /\ complete = TRUE
             /\ row = [p \in Path |-> IF disk[p] = Bad THEN Tomb ELSE disk[p]]
             /\ tracker = [indexed |-> [p \in Path |-> IF disk[p] \in Good THEN disk[p] ELSE None],
                           skipped |-> [p \in Path |-> IF disk[p] = Bad THEN Bad ELSE None],
                           reasons |-> {p \in Path : disk[p] = Bad}]
    BY <1>1, <2>1 DEF StoresTyped, TrackerTyped, TrackerTells, Live
  <2>2. CASE complete = FALSE /\ row = [p \in Path |-> Absent] /\ tracker = NoTracker
    BY <1>1, <2>2 DEF StoresTyped, TrackerTyped, TrackerTells, Live, NoTracker
  <2>3. QED
    BY <1>0, <2>1, <2>2 DEF ReindexInit
<1>4. StepTyped /\ SetsTyped /\ MapsTyped
  BY <1>1 DEF StepTyped, SetsTyped, MapsTyped
<1>5. CarryTyped
  BY <1>1 DEF CarryTyped, NoCarry
<1>6. CountsTyped
  <2>1. edits \in 0..MaxEdits /\ faults \in 0..MaxFaults /\ calm \in 0..2
    BY <1>1
  <2>2. QED
    BY <1>2, <2>1 DEF CountsTyped
<1>7. /\ PassInPlace /\ UnreadIsLeft /\ HiddenIsListed
      /\ BuildRows /\ SavedOwesNothing /\ CalmAtRest /\ CalmReindex /\ CalmBuild
  BY <1>1 DEF PassInPlace, UnreadIsLeft, HiddenIsListed, BuildRows, SavedOwesNothing,
    CalmAtRest, CalmReindex, CalmBuild, NoCarry
<1>8. QED
  BY <1>3, <1>4, <1>5, <1>6, <1>7 DEF ReindexInv

(* Every step of the files, of the passes and of the process keeps it.     *)
LEMMA ReindexInvStep == ReindexInv /\ [ReindexNext]_reindexVars => ReindexInv'
<1>1. CASE ReindexNext
  BY <1>1, StoresTypedStep, TrackerTypedStep, StepTypedStep, CountsTypedStep, SetsTypedStep,
    MapsTypedStep, CarryTypedStep, PassInPlaceStep, UnreadIsLeftStep, HiddenIsListedStep,
    TrackerTellsStep, BuildRowsStep, SavedOwesNothingStep, CalmAtRestStep, CalmReindexStep,
    CalmBuildStep DEF ReindexInv
<1>2. CASE UNCHANGED reindexVars
  BY <1>2 DEF reindexVars, storeVars, passVars, historyVars, ReindexInv, StoresTyped,
    TrackerTyped, StepTyped, CountsTyped, SetsTyped, MapsTyped, CarryTyped, PassInPlace,
    UnreadIsLeft, HiddenIsListed, TrackerTells, BuildRows, SavedOwesNothing, CalmAtRest,
    CalmReindex, CalmBuild, Live, Loaded, Recorded, RowMatches, Stuck, Carried
<1>3. QED
  BY <1>1, <1>2

(* What each path is owed at each step of a pass holds in every state.     *)
THEOREM ReindexInvariant == ReindexSpec => []ReindexInv
  BY ReindexInvInit, ReindexInvStep, PTL DEF ReindexSpec

(* The stores, the tracker and the pass always have their types; no path   *)
(* is recorded both as indexed and as skipped (tracker.py:_merge_state).   *)
THEOREM ReindexTypeInvariant == ReindexSpec => []ReindexTypeOK
<1>1. ReindexInv => ReindexTypeOK
  BY TypesAreTyped DEF ReindexInv
<1>2. QED
  BY <1>1, ReindexInvariant, PTL

(* In every state, a row that is out of date would be noticed by a scan,   *)
(* unless it was changed since the tracker was saved: neither the          *)
(* checkpoint nor the closing save (tracker.py:_merge_state) claims what   *)
(* the rows do not hold.                                                   *)
THEOREM StaleIsNoticedHolds == ReindexSpec => []StaleIsNoticed
<1>1. ReindexInv => StaleIsNoticed
  BY NoticedOrStuck DEF ReindexInv, StaleIsNoticed
<1>2. QED
  BY <1>1, ReindexInvariant, PTL

(* Two undisturbed reindexes in a row (IndexManager.reindex) bring every   *)
(* row up to date, from whatever crashes and failures came before.         *)
THEOREM SecondReindexCatchesUpHolds == ReindexSpec => []SecondReindexCatchesUp
<1>1. ReindexInv => SecondReindexCatchesUp
  <2>1. SUFFICES ASSUME ReindexInv, calm = 2, job = None
                 PROVE  \A p \in Path : RowMatches(p) \/ Stuck(p)
    BY DEF SecondReindexCatchesUp
  <2>2. calm > 0 /\ calm # 1 /\ step = "hash"
    BY <2>1 DEF ReindexInv, PassInPlace
  <2>3. QED
    BY <2>1, <2>2 DEF ReindexInv, CalmAtRest
<1>2. QED
  BY <1>1, ReindexInvariant, PTL

(* After an undisturbed reindex every tombstone is listed as skipped, or   *)
(* was put there by a write since (managers/index.py:_sync_tombstones).    *)
THEOREM TombstonesAreListedHolds == ReindexSpec => []TombstonesAreListed
<1>1. ReindexInv => TombstonesAreListed
  BY DEF ReindexInv, TombstonesAreListed, CalmAtRest, PassInPlace
<1>2. QED
  BY <1>1, ReindexInvariant, PTL

(* No step takes the row of a note that an unread directory hides, nor the *)
(* tombstone of a file there that the tracker lists, nor its listing       *)
(* (managers/index.py:_wipe_for_rebuild, tracker.py:detect_changes).       *)
THEOREM UnreadKeepsRowHolds == ReindexSpec => UnreadKeepsRow
<1>1. ASSUME ReindexInv, [ReindexNext]_reindexVars, NEW p \in unread
      PROVE  /\ Live(p) => row'[p] = row[p]
             /\ row[p] = Tomb /\ p \in tracker.reasons /\ ~blind =>
                  row'[p] = Tomb /\ p \in tracker'.reasons
  <2>1. CASE UNCHANGED reindexVars
    BY <2>1 DEF reindexVars, storeVars
  <2>2. CASE SyncTombstones
    <3>1. p \in Path /\ UNCHANGED tracker /\ Tomb \notin {Absent}
      BY <1>1, <2>2, ReindexAssumption DEF ReindexInv, SetsTyped, SyncTombstones
    <3>2. /\ row[p] # Tomb => row'[p] = row[p]
          /\ row[p] = Tomb /\ p \in Loaded.reasons => row'[p] = Tomb
      BY <2>2, <3>1 DEF SyncTombstones
    <3>3. ~blind => Loaded = tracker
      BY <1>1, LoadedTyped DEF ReindexInv
    <3>4. Live(p) => row[p] # Tomb
      BY ReindexAssumption DEF Live, Content
    <3>5. QED
      BY <3>1, <3>2, <3>3, <3>4
  <2>3. CASE ReindexNext /\ ~SyncTombstones
    <3>1. row'[p] = row[p]
      BY <1>1, <2>3, UnreadRowsStay
    <3>2. row[p] = Tomb /\ p \in tracker.reasons /\ ~blind => p \in tracker'.reasons
      <4>1. CASE Checkpoint \/ SaveState
        <5>1. /\ tracker' = NewTracker /\ job \in {"build", "reindex"} /\ step # "hash"
              /\ step # "scan" /\ p \in Path
          BY <1>1, <4>1, ReindexAssumption
            DEF ReindexInv, Checkpoint, SaveState, Through, StepTyped, SetsTyped
        <5>2. SUFFICES ASSUME row[p] = Tomb, p \in tracker.reasons, ~blind
                       PROVE  NewSkipped[p] # None /\ p \in failed \cup kept \cup carry.reasons
          BY <5>1 DEF NewTracker
        <5>3. NewIndexed[p] = None
          BY <1>1, <5>1, <5>2, NewIndexedSays, ReindexAssumption
            DEF ReindexInv, UnreadIsLeft, Live
        <5>4. /\ job = "reindex" => p \in carry.reasons /\ carry.skipped[p] # None
              /\ job = "reindex" => kept = {} /\ skips[p] = None
              /\ job = "build" => p \in kept
          BY <1>1, <5>1, <5>2 DEF ReindexInv, HiddenIsListed, UnreadIsLeft, PassInPlace
        <5>5. QED
          BY <5>1, <5>3, <5>4, NewSkippedSays, ReindexAssumption
      <4>2. CASE ~Checkpoint /\ ~SaveState
        <5>1. UNCHANGED tracker
          BY <2>3, <4>2 DEF ReindexNext, PassStep, Restart, BeginReindex, BeginBuild,
            RefreshRow, Edit, HashNote, ParseNote, RecordSkip, DeleteNote, UpsertNote,
            ReloadFails, ScanNote, RecordCandidate, Classify, EndParse, EndDelete, EndUpsert,
            WipeForRebuild, EndSkips, PassRaises, storeVars
        <5>2. QED
          BY <5>1
      <4>3. QED
        BY <4>1, <4>2
    <3>3. QED
      BY <3>1, <3>2
  <2>4. QED
    BY <1>1, <2>1, <2>2, <2>3
<1>2. ReindexInv /\ [ReindexNext]_reindexVars =>
        [\A p \in unread :
           /\ Live(p) => row'[p] = row[p]
           /\ row[p] = Tomb /\ p \in tracker.reasons /\ ~blind =>
                row'[p] = Tomb /\ p \in tracker'.reasons]_reindexVars
  BY <1>1
<1>3. QED
  BY <1>2, ReindexInvariant, PTL DEF ReindexSpec, UnreadKeepsRow

-----------------------------------------------------------------------------
(***************************************************************************)
(* The reconciler of HEAD.                                                 *)
(***************************************************************************)

KnownHeads == indexed \cup missed \cup accepted

(* HEAD only gains changes.                                                *)
HeadsGrow == \A i \in 1..HEAD : heads[i] \subseteq OnDisk

(* A commit about to be reported has added no change.                      *)
ReportAddsNothing == noting => HEAD - 1 \in 1..HEAD /\ heads[HEAD - 1] = OnDisk

(* Who has a job in the queue waits for it, and each job of the startup    *)
(* has been submitted once.                                                *)
JobsInPlace ==
  /\ \A c \in Caller : Queued(c) => at[c] = "wait"
  /\ Queued(Start) \/ at[Start] = "ok" => boot \in {"adopt", "ready", "started"}
  /\ Queued(Build) => boot \notin {"sync", "build"}

(* The running scan began after the HEAD it will be recorded for was read, *)
(* and after everything deferred to it while it was queued was pulled.     *)
ScanCovers ==
  scan # Nothing =>
    /\ \A c \in Caller : queue[1] = c /\ seen[c] # 0 => heads[seen[c]] \subseteq scan
    /\ queue[1] = Start => /\ bootHead # 0 => heads[bootHead] \subseteq scan
                           /\ deferred["queued"] \subseteq scan

(* What may become the record is known already.                            *)
KnownCovers ==
  /\ RecordIsIndexed
  /\ \A c \in Caller :
       at[c] \in {"ok", "record"} /\ seen[c] # 0 => heads[seen[c]] \subseteq KnownHeads
  /\ at[Start] = "ok" /\ bootHead # 0 => heads[bootHead] \subseteq KnownHeads

(* What was deferred to a queued boot reindex was on disk, and is known    *)
(* once that reindex has returned.                                         *)
DeferredCovers ==
  /\ deferred["queued"] \subseteq OnDisk
  /\ ~Queued(Start) /\ at[Start] # "error" => deferred["queued"] \subseteq indexed \cup missed

HeadInv ==
  /\ HeadTypeOK /\ HeadsGrow /\ ReportAddsNothing /\ JobsInPlace
  /\ ScanCovers /\ KnownCovers /\ DeferredCovers

-----------------------------------------------------------------------------
(* What queueing and taking a job do to the queue.                         *)

(* A job that is put behind an injective queue that does not hold it.      *)
LEMMA Enqueued ==
  ASSUME queue \in Seq(ScanJob), IsInjective(queue), NEW j \in ScanJob, ~Queued(j),
         queue' = Append(queue, j)
  PROVE  /\ queue' \in Seq(ScanJob) /\ IsInjective(queue') /\ queue' # << >>
         /\ \A x : Queued(x)' <=> Queued(x) \/ x = j
         /\ queue # << >> => queue'[1] = queue[1]
<1>1. /\ queue' \in Seq(ScanJob) /\ queue' # << >>
      /\ Len(queue') = Len(queue) + 1
      /\ \A i \in 1..Len(queue) : queue'[i] = queue[i]
      /\ queue'[Len(queue) + 1] = j
  BY AppendProperties
<1>2. /\ Len(queue) \in Nat
      /\ DOMAIN queue = 1..Len(queue) /\ DOMAIN queue' = 1..(Len(queue) + 1)
  BY <1>1, LenProperties
<1>3. \A i \in 1..Len(queue) : queue[i] # j
  BY <1>2 DEF Queued, ToSet
<1>4. IsInjective(queue')
  <2> SUFFICES ASSUME NEW a \in 1..(Len(queue) + 1), NEW b \in 1..(Len(queue) + 1),
                      queue'[a] = queue'[b]
               PROVE  a = b
    BY <1>2 DEF IsInjective
  <2>1. CASE a \in 1..Len(queue) /\ b \in 1..Len(queue)
    BY <1>1, <1>2, <2>1 DEF IsInjective
  <2>2. CASE a = Len(queue) + 1 /\ b \in 1..Len(queue)
    BY <1>1, <1>3, <2>2
  <2>3. CASE b = Len(queue) + 1 /\ a \in 1..Len(queue)
    BY <1>1, <1>3, <2>3
  <2>4. QED
    BY <1>2, <2>1, <2>2, <2>3
<1>5. ASSUME NEW x
      PROVE  Queued(x)' <=> Queued(x) \/ x = j
  <2>1. ASSUME Queued(x)'
        PROVE  Queued(x) \/ x = j
    <3>1. PICK i \in 1..(Len(queue) + 1) : queue'[i] = x
      BY <1>2, <2>1 DEF Queued, ToSet
    <3>2. CASE i \in 1..Len(queue)
      BY <1>1, <1>2, <3>1, <3>2 DEF Queued, ToSet
    <3>3. QED
      BY <1>1, <1>2, <3>1, <3>2
  <2>2. ASSUME Queued(x)
        PROVE  Queued(x)'
    <3>1. PICK i \in 1..Len(queue) : queue[i] = x
      BY <1>2, <2>2 DEF Queued, ToSet
    <3>2. i \in DOMAIN queue' /\ queue'[i] = x
      BY <1>1, <1>2, <3>1
    <3>3. QED
      BY <3>2 DEF Queued, ToSet
  <2>3. ASSUME x = j
        PROVE  Queued(x)'
    <3>1. Len(queue) + 1 \in DOMAIN queue' /\ queue'[Len(queue) + 1] = x
      BY <1>1, <1>2, <2>3
    <3>2. QED
      BY <3>1 DEF Queued, ToSet
  <2>4. QED
    BY <2>1, <2>2, <2>3
<1>6. queue # << >> => queue'[1] = queue[1]
  BY <1>1, <1>2, EmptySeq
<1>7. QED
  BY <1>1, <1>4, <1>5, <1>6

(* The job at the head of an injective queue is there once.                *)
LEMMA Dequeued ==
  ASSUME queue \in Seq(ScanJob), IsInjective(queue), queue # << >>, queue' = Tail(queue)
  PROVE  /\ queue' \in Seq(ScanJob) /\ IsInjective(queue')
         /\ queue[1] \in ScanJob /\ Queued(queue[1])
         /\ \A x : Queued(x)' <=> Queued(x) /\ x # queue[1]
<1>1. /\ queue' \in Seq(ScanJob)
      /\ Len(queue') = Len(queue) - 1
      /\ \A i \in 1..Len(queue') : queue'[i] = queue[i + 1]
  BY HeadTailProperties
<1>2. /\ Len(queue) \in Nat \ {0}
      /\ DOMAIN queue = 1..Len(queue) /\ DOMAIN queue' = 1..(Len(queue) - 1)
  BY <1>1, LenProperties, EmptySeq
<1>3. \A a, b \in 1..Len(queue) : queue[a] = queue[b] => a = b
  BY <1>2 DEF IsInjective
<1>4. IsInjective(queue')
  <2> SUFFICES ASSUME NEW a \in 1..(Len(queue) - 1), NEW b \in 1..(Len(queue) - 1),
                      queue'[a] = queue'[b]
               PROVE  a = b
    BY <1>2 DEF IsInjective
  <2>1. a + 1 \in 1..Len(queue) /\ b + 1 \in 1..Len(queue) /\ queue[a + 1] = queue[b + 1]
    BY <1>1, <1>2
  <2>2. a + 1 = b + 1
    BY <1>3, <2>1
  <2>3. QED
    BY <2>2
<1>5. queue[1] \in ScanJob /\ Queued(queue[1])
  BY <1>2, ElementOfSeq DEF Queued, ToSet
<1>6. ASSUME NEW x
      PROVE  Queued(x)' <=> Queued(x) /\ x # queue[1]
  <2>1. ASSUME Queued(x)'
        PROVE  Queued(x) /\ x # queue[1]
    <3>1. PICK i \in 1..(Len(queue) - 1) : queue'[i] = x
      BY <1>2, <2>1 DEF Queued, ToSet
    <3>2. i + 1 \in 1..Len(queue) /\ queue[i + 1] = x /\ 1 \in 1..Len(queue) /\ i + 1 # 1
      BY <1>1, <1>2, <3>1
    <3>3. QED
      BY <1>2, <1>3, <3>2 DEF Queued, ToSet
  <2>2. ASSUME Queued(x), x # queue[1]
        PROVE  Queued(x)'
    <3>1. PICK i \in 1..Len(queue) : queue[i] = x
      BY <1>2, <2>2 DEF Queued, ToSet
    <3>2. i # 1
      BY <2>2, <3>1
    <3>3. i - 1 \in 1..(Len(queue) - 1)
      BY <1>2, <3>1, <3>2
    <3>4. queue'[i - 1] = x
      <4>1. (i - 1) + 1 = i
        BY <3>1
      <4>2. QED
        BY <1>1, <3>1, <3>3, <4>1
    <3>5. QED
      BY <1>2, <3>3, <3>4 DEF Queued, ToSet
  <2>3. QED
    BY <2>1, <2>2
<1>7. QED
  BY <1>1, <1>4, <1>5, <1>6

-----------------------------------------------------------------------------
(* What every step does to the HEADs and to what is known.                 *)

(* A HEAD that comes to be holds what the one before it holds.             *)
LEMMA HeadAppended ==
  ASSUME HeadTypeOK, HeadsGrow, NEW S \in SUBSET Ext, OnDisk \subseteq S,
         heads' = Append(heads, S)
  PROVE  /\ heads' \in Seq(SUBSET Ext) /\ HEAD' = HEAD + 1 /\ OnDisk' = S
         /\ \A i \in 1..HEAD : heads'[i] = heads[i]
         /\ HeadsGrow'
<1>1. /\ heads' \in Seq(SUBSET Ext)
      /\ Len(heads') = Len(heads) + 1
      /\ \A i \in 1..Len(heads) : heads'[i] = heads[i]
      /\ heads'[Len(heads) + 1] = S
  BY AppendProperties DEF HeadTypeOK
<1>2. Len(heads) \in Nat
  BY LenProperties DEF HeadTypeOK
<1>3. HEAD' = HEAD + 1 /\ OnDisk' = S
  BY <1>1 DEF HEAD, OnDisk
<1>4. HeadsGrow'
  <2> SUFFICES ASSUME NEW i \in 1..(Len(heads) + 1)
               PROVE  heads'[i] \subseteq S
    BY <1>1, <1>3 DEF HeadsGrow, HEAD
  <2>1. CASE i \in 1..Len(heads)
    BY <1>1, <2>1 DEF HeadsGrow, HEAD, OnDisk
  <2>2. CASE i = Len(heads) + 1
    BY <1>1, <2>2
  <2>3. QED
    BY <1>2, <2>1, <2>2
<1>5. QED
  BY <1>1, <1>3, <1>4 DEF HEAD

(* What is on disk is a set of changes.                                    *)
LEMMA OnDiskType ==
  ASSUME HeadTypeOK
  PROVE  OnDisk \subseteq Ext /\ HEAD \in Nat \ {0} /\ \A i \in 1..HEAD : heads[i] \subseteq Ext
  BY ElementOfSeq, BoundsAreCounted DEF HeadTypeOK, HEAD, OnDisk

(* The three ways in which a step touches the HEADs.                       *)
LEMMA HeadsStep ==
  ASSUME HeadTypeOK, HeadsGrow, [HeadNext]_headVars
  PROVE  /\ heads' \in Seq(SUBSET Ext) /\ HEAD' \in 1..MaxHeads /\ HEAD <= HEAD'
         /\ \A i \in 1..HEAD : heads'[i] = heads[i]
         /\ OnDisk \subseteq OnDisk' /\ HeadsGrow'
<1>1. CASE UNCHANGED heads
  BY <1>1 DEF HeadTypeOK, HEAD, OnDisk, HeadsGrow
<1>2. ASSUME NEW S \in SUBSET Ext, OnDisk \subseteq S, HEAD < MaxHeads,
             heads' = Append(heads, S)
      PROVE  /\ heads' \in Seq(SUBSET Ext) /\ HEAD' \in 1..MaxHeads /\ HEAD <= HEAD'
             /\ \A i \in 1..HEAD : heads'[i] = heads[i]
             /\ OnDisk \subseteq OnDisk' /\ HeadsGrow'
  <2>1. /\ heads' \in Seq(SUBSET Ext) /\ HEAD' = HEAD + 1 /\ OnDisk' = S
        /\ \A i \in 1..HEAD : heads'[i] = heads[i]
        /\ HeadsGrow'
    BY <1>2, HeadAppended
  <2>2. HEAD \in Nat /\ MaxHeads \in Nat
    BY OnDiskType, BoundsAreCounted
  <2>3. HEAD' \in 1..MaxHeads /\ HEAD <= HEAD'
    BY <1>2, <2>1, <2>2
  <2>4. OnDisk \subseteq OnDisk'
    BY <1>2, <2>1
  <2>5. QED
    BY <2>1, <2>3, <2>4
<1>3. CASE OwnCommit
  <2>1. HEAD < MaxHeads /\ heads' = Append(heads, OnDisk)
    BY <1>3 DEF OwnCommit
  <2>2. OnDisk \in SUBSET Ext
    BY OnDiskType
  <2>3. QED
    BY <1>2, <2>1, <2>2
<1>4. ASSUME NEW p \in Puller, Pull(p), heads' # heads
      PROVE  /\ heads' \in Seq(SUBSET Ext) /\ HEAD' \in 1..MaxHeads /\ HEAD <= HEAD'
             /\ \A i \in 1..HEAD : heads'[i] = heads[i]
             /\ OnDisk \subseteq OnDisk' /\ HeadsGrow'
  <2>1. HEAD < MaxHeads /\ heads' = Append(heads, OnDisk \cup remote)
    BY <1>4 DEF Pull
  <2>2. OnDisk \cup remote \in SUBSET Ext /\ OnDisk \subseteq OnDisk \cup remote
    BY OnDiskType DEF HeadTypeOK
  <2>3. QED
    BY <1>2, <2>1, <2>2
<1>5. QED
  BY <1>1, <1>3, <1>4
  DEF HeadNext, headVars, gitSide, OthersPush, ReportCommit, ReconcileStep, CheckPending,
      ReadHead, CompareHead, TakeRunLock, SubmitReindex, ReindexReturns, RecordHead, BootStep,
      SkipSync, BuildAsync, ReadBootHead, SubmitBootReindex, MarkReconciled, AdoptBootReindex,
      StartLoop, WriterStep, BootCallback, ScanBegins, ScanEnds, ScanMisses, ScanRaises, JobEnds

(* Between a commit and its report HEAD does not move.                     *)
LEMMA ReportStep ==
  ASSUME HeadTypeOK, HeadsGrow, ReportAddsNothing, [HeadNext]_headVars
  PROVE  ReportAddsNothing'
<1>1. CASE OwnCommit
  <2>1. heads' = Append(heads, OnDisk) /\ OnDisk \in SUBSET Ext
    BY <1>1, OnDiskType DEF OwnCommit
  <2>2. HEAD' = HEAD + 1 /\ OnDisk' = OnDisk /\ \A i \in 1..HEAD : heads'[i] = heads[i]
    BY <2>1, HeadAppended
  <2>3. HEAD \in Nat \ {0}
    BY OnDiskType
  <2>4. HEAD' - 1 = HEAD /\ HEAD \in 1..HEAD /\ HEAD \in 1..HEAD'
    BY <2>2, <2>3
  <2>5. heads'[HEAD] = OnDisk
    BY <2>2, <2>4 DEF OnDisk
  <2>6. QED
    BY <2>2, <2>4, <2>5 DEF ReportAddsNothing
<1>2. CASE noting' = FALSE
  BY <1>2 DEF ReportAddsNothing
<1>3. CASE UNCHANGED <<heads, noting>>
  BY <1>3 DEF ReportAddsNothing, HEAD, OnDisk
<1>4. ASSUME NEW p \in Puller, Pull(p)
      PROVE  noting' = FALSE
  BY <1>4 DEF Pull, HeadTypeOK
<1>5. QED
  BY <1>1, <1>2, <1>3, <1>4
  DEF HeadNext, headVars, gitSide, OthersPush, ReportCommit, ReconcileStep, CheckPending,
      ReadHead, CompareHead, TakeRunLock, SubmitReindex, ReindexReturns, RecordHead, BootStep,
      SkipSync, BuildAsync, ReadBootHead, SubmitBootReindex, MarkReconciled, AdoptBootReindex,
      StartLoop, WriterStep, BootCallback, ScanBegins, ScanEnds, ScanMisses, ScanRaises, JobEnds

(* Nothing that is known is ever forgotten.                                *)
LEMMA KnownStep ==
  ASSUME [HeadNext]_headVars
  PROVE  indexed \subseteq indexed' /\ missed \subseteq missed' /\ accepted \subseteq accepted'
  BY DEF HeadNext, headVars, gitSide, indexSide, headHistory, OthersPush, OwnCommit,
      ReportCommit, Pull, ReconcileStep, CheckPending, ReadHead, CompareHead, TakeRunLock,
      SubmitReindex, ReindexReturns, RecordHead, BootStep, SkipSync, BuildAsync, ReadBootHead,
      SubmitBootReindex, MarkReconciled, AdoptBootReindex, StartLoop, WriterStep, BootCallback,
      ScanBegins, ScanEnds, ScanMisses, ScanRaises, JobEnds

-----------------------------------------------------------------------------
(* What a step leaves alone.                                               *)

(* A job joins the queue that is not in it, or the running one leaves it.  *)
LEMMA QueueStep ==
  ASSUME HeadTypeOK, JobsInPlace, [HeadNext]_headVars
  PROVE  \/ UNCHANGED queue /\ (scan' = scan \/ ScanBegins)
         \/ \E j \in ScanJob : /\ ~Queued(j) /\ queue' = Append(queue, j) /\ scan' = scan
                           /\ \/ j \in Caller /\ at'[j] = "wait"
                              \/ j = Start /\ boot' = "adopt"
                              \/ j = Build /\ boot' = "head"
         \/ scan # Nothing /\ queue' = Tail(queue) /\ scan' = Nothing
<1>1. ASSUME NEW c \in Caller, SubmitReindex(c)
      PROVE  \/ UNCHANGED queue /\ scan' = scan
             \/ /\ ~Queued(c) /\ c \in ScanJob /\ queue' = Append(queue, c) /\ scan' = scan
                /\ at'[c] = "wait"
  BY <1>1 DEF SubmitReindex, JobsInPlace, ScanJob, Goes, HeadTypeOK, Puller
<1>2. CASE BuildAsync
  BY <1>2 DEF BuildAsync, JobsInPlace, ScanJob
<1>3. CASE SubmitBootReindex
  BY <1>3 DEF SubmitBootReindex, JobsInPlace, ScanJob
<1>4. CASE ScanEnds \/ ScanMisses \/ ScanRaises
  BY <1>4 DEF ScanEnds, ScanMisses, ScanRaises, JobEnds
<1>5. QED
  BY <1>1, <1>2, <1>3, <1>4
  DEF HeadNext, headVars, indexSide, OthersPush, OwnCommit, ReportCommit, Pull, ReconcileStep,
      CheckPending, ReadHead, CompareHead, TakeRunLock, ReindexReturns, RecordHead, BootStep,
      SkipSync, ReadBootHead, MarkReconciled, AdoptBootReindex, StartLoop, WriterStep,
      BootCallback, ScanBegins

(* How a job comes into the queue and how it goes.                         *)
LEMMA QueuedStep ==
  ASSUME HeadTypeOK, JobsInPlace, [HeadNext]_headVars, NEW x
  PROVE  /\ Queued(x)' => \/ Queued(x) /\ ~(scan # Nothing /\ queue[1] = x /\ queue' = Tail(queue))
                          \/ x \in Caller /\ at'[x] = "wait"
                          \/ x = Start /\ boot' = "adopt"
                          \/ x = Build /\ boot' = "head"
         /\ Queued(x) => \/ Queued(x)'
                         \/ /\ scan # Nothing /\ scan' = Nothing
                            /\ queue[1] = x /\ queue' = Tail(queue)
<1>1. queue \in Seq(ScanJob) /\ IsInjective(queue) /\ (scan # Nothing => queue # << >>)
  BY DEF HeadTypeOK
<1>2. CASE scan # Nothing /\ queue' = Tail(queue) /\ scan' = Nothing
  <2>1. Queued(x)' <=> Queued(x) /\ x # queue[1]
    BY <1>1, <1>2, Dequeued
  <2>2. QED
    BY <1>2, <2>1
<1>3. ASSUME NEW j \in ScanJob, ~Queued(j), queue' = Append(queue, j), scan' = scan,
             \/ j \in Caller /\ at'[j] = "wait"
             \/ j = Start /\ boot' = "adopt"
             \/ j = Build /\ boot' = "head"
      PROVE  /\ Queued(x) => Queued(x)' /\ queue' # Tail(queue)
             /\ Queued(x)' => \/ Queued(x)
                              \/ x \in Caller /\ at'[x] = "wait"
                              \/ x = Start /\ boot' = "adopt"
                              \/ x = Build /\ boot' = "head"
  <2>1. Queued(x)' <=> Queued(x) \/ x = j
    BY <1>1, <1>3, Enqueued
  <2>2. queue # << >> => queue' # Tail(queue)
    BY <1>1, <1>3, AppendProperties, HeadTailProperties, LenProperties
  <2>3. Queued(x) => queue # << >>
    BY DEF Queued, ToSet
  <2>4. Queued(x) => Queued(x)' /\ queue' # Tail(queue)
    BY <2>1, <2>2, <2>3
  <2>5. ASSUME x = j
        PROVE  \/ x \in Caller /\ at'[x] = "wait"
               \/ x = Start /\ boot' = "adopt"
               \/ x = Build /\ boot' = "head"
    BY <1>3, <2>5
  <2>6. QED
    BY <2>1, <2>4, <2>5
<1>4. CASE UNCHANGED queue
  <2>1. Queued(x)' <=> Queued(x)
    BY <1>4 DEF Queued
  <2>2. queue # << >> => queue' # Tail(queue)
    BY <1>1, <1>4, HeadTailProperties, LenProperties
  <2>3. Queued(x) => queue # << >>
    BY DEF Queued, ToSet
  <2>4. QED
    BY <2>1, <2>2, <2>3
<1>5. QED
  BY <1>2, <1>3, <1>4, QueueStep

(* Who waits for a job keeps the HEAD it has read, and waits until that    *)
(* job ends.                                                               *)
LEMMA WaitingStep ==
  ASSUME HeadTypeOK, [HeadNext]_headVars, NEW c \in Caller, at[c] = "wait"
  PROVE  /\ seen'[c] = seen[c]
         /\ \/ at'[c] = "wait"
            \/ /\ queue[1] = c /\ queue' = Tail(queue) /\ scan # Nothing
               /\ (at'[c] = "ok" /\ (ScanEnds \/ ScanMisses)) \/ at'[c] = "error"
<1>1. c \in Puller /\ c # Start /\ c # Build
  BY JobsDiffer DEF Puller
<1>2. ASSUME NEW d \in Caller, ReconcileStep(d)
      PROVE  seen'[c] = seen[c] /\ at'[c] = "wait"
  BY <1>1, <1>2 DEF HeadTypeOK, ReconcileStep, CheckPending, ReadHead, CompareHead, TakeRunLock,
      SubmitReindex, ReindexReturns, RecordHead, Goes, Leaves
<1>3. CASE \E p \in Puller : Pull(p)
  BY <1>1, <1>3 DEF HeadTypeOK, Pull, AfterPull
<1>4. CASE ScanEnds \/ ScanMisses \/ ScanRaises
  BY <1>1, <1>4 DEF HeadTypeOK, ScanEnds, ScanMisses, ScanRaises, JobEnds
<1>5. QED
  BY <1>2, <1>3, <1>4
  DEF HeadNext, headVars, callers, OthersPush, OwnCommit, ReportCommit, BootStep, SkipSync,
      BuildAsync, ReadBootHead, SubmitBootReindex, MarkReconciled, AdoptBootReindex, StartLoop,
      WriterStep, BootCallback, ScanBegins

(* The startup goes forward, and once its reindex is submitted keeps the   *)
(* HEAD it has read, or drops it.                                          *)
LEMMA StartupStep ==
  ASSUME HeadTypeOK, [HeadNext]_headVars
  PROVE  /\ boot \notin {"sync", "build"} => boot' \notin {"sync", "build"}
         /\ boot \in {"adopt", "ready", "started"} =>
              /\ boot' \in {"adopt", "ready", "started"}
              /\ bootHead' # 0 => bootHead' = bootHead
         /\ \/ at'[Start] = at[Start]
            \/ /\ queue[1] = Start /\ queue' = Tail(queue) /\ scan # Nothing
               /\ (at'[Start] = "ok" /\ (ScanEnds \/ ScanMisses)) \/ at'[Start] = "error"
<1>1. Start \in Puller /\ Start \notin Caller /\ Start # Build
  BY JobsDiffer DEF Puller
<1>2. ASSUME NEW d \in Caller, ReconcileStep(d)
      PROVE  UNCHANGED startup /\ at'[Start] = at[Start]
  BY <1>1, <1>2 DEF HeadTypeOK, ReconcileStep, CheckPending, ReadHead, CompareHead, TakeRunLock,
      SubmitReindex, ReindexReturns, RecordHead, Goes, Leaves
<1>3. CASE \E p \in Puller : Pull(p)
  BY <1>1, <1>3 DEF HeadTypeOK, Pull, MayPull, AfterPull, Caller
<1>4. CASE ScanEnds \/ ScanMisses \/ ScanRaises
  BY <1>1, <1>4 DEF HeadTypeOK, ScanEnds, ScanMisses, ScanRaises, JobEnds, startup
<1>5. QED
  BY <1>2, <1>3, <1>4
  DEF HeadNext, headVars, callers, startup, OthersPush, OwnCommit, ReportCommit, BootStep,
      SkipSync, BuildAsync, ReadBootHead, SubmitBootReindex, MarkReconciled, AdoptBootReindex,
      StartLoop, BootFinished, WriterStep, BootCallback, ScanBegins

(* A scan that returns has its changes known.                              *)
LEMMA ScanIsKnown ==
  ASSUME HeadTypeOK, ScanEnds \/ ScanMisses
  PROVE  scan \subseteq indexed' \cup missed'
  BY DEF ScanEnds, ScanMisses

-----------------------------------------------------------------------------
(* The parts of the invariant, one by one.                                 *)

(* The queue and the scan keep their type.                                 *)
LEMMA QueueType ==
  ASSUME HeadTypeOK, JobsInPlace, [HeadNext]_headVars
  PROVE  /\ queue' \in Seq(ScanJob) /\ IsInjective(queue')
         /\ scan' \in (SUBSET Ext) \cup {Nothing} /\ (scan' # Nothing => queue' # << >>)
<1>1. queue \in Seq(ScanJob) /\ IsInjective(queue) /\ (scan # Nothing => queue # << >>)
      /\ scan \in (SUBSET Ext) \cup {Nothing}
  BY DEF HeadTypeOK
<1>2. CASE UNCHANGED queue /\ (scan' = scan \/ ScanBegins)
  <2>1. ScanBegins => scan' = OnDisk /\ queue # << >>
    BY DEF ScanBegins
  <2>2. IsInjective(queue')
    BY <1>1, <1>2
  <2>3. QED
    BY <1>1, <1>2, <2>1, <2>2, OnDiskType
<1>3. ASSUME NEW j \in ScanJob, ~Queued(j), queue' = Append(queue, j), scan' = scan
      PROVE  /\ queue' \in Seq(ScanJob) /\ IsInjective(queue')
             /\ scan' \in (SUBSET Ext) \cup {Nothing} /\ (scan' # Nothing => queue' # << >>)
  BY <1>1, <1>3, Enqueued
<1>4. CASE scan # Nothing /\ queue' = Tail(queue) /\ scan' = Nothing
  <2>1. queue \in Seq(ScanJob) /\ IsInjective(queue) /\ queue # << >> /\ queue' = Tail(queue)
    BY <1>1, <1>4
  <2>2. queue' \in Seq(ScanJob) /\ IsInjective(queue')
    BY <2>1, Dequeued
  <2>3. QED
    BY <1>4, <2>2
<1>5. QED
  BY <1>2, <1>3, <1>4, QueueStep

(* So does everything else.                                                *)
LEMMA TypeStep ==
  ASSUME HeadTypeOK, HeadsGrow, JobsInPlace, [HeadNext]_headVars
  PROVE  HeadTypeOK'
<1>1. /\ heads' \in Seq(SUBSET Ext) /\ HEAD' \in 1..MaxHeads /\ HEAD <= HEAD'
      /\ HEAD \in Nat \ {0} /\ OnDisk \subseteq Ext
      /\ \A i \in 1..HEAD : heads[i] \subseteq Ext
  BY HeadsStep, OnDiskType
<1>2. record' \in 0..HEAD'
  <2>1. CASE ReportCommit
    <3>1. record \in 0..HEAD /\ (record' = record \/ record' = HEAD)
      BY <2>1 DEF ReportCommit, NoteOwnCommit, HeadTypeOK
    <3>2. QED
      BY <1>1, <3>1
  <2>2. CASE ~ReportCommit
    <3>1. record' = record \/ record' = bootHead \/ \E c \in Caller : record' = seen[c]
      BY <2>2 DEF HeadTypeOK, HeadNext, headVars, recorder, OthersPush, OwnCommit, ReportCommit,
          Pull, ReconcileStep, CheckPending, ReadHead, CompareHead, TakeRunLock, SubmitReindex,
          ReindexReturns, RecordHead, BootStep, SkipSync, BuildAsync, ReadBootHead,
          SubmitBootReindex, MarkReconciled, AdoptBootReindex, BootFinished, StartLoop,
          WriterStep, BootCallback, ScanBegins, ScanEnds, ScanMisses, ScanRaises, JobEnds
    <3>2. QED
      BY <1>1, <3>1 DEF HeadTypeOK
  <2>3. QED
    BY <2>1, <2>2
<1>3. bootHead' \in 0..HEAD'
  BY <1>1 DEF HeadTypeOK, HeadNext, headVars, startup, OthersPush, OwnCommit, ReportCommit, Pull,
      ReconcileStep, CheckPending, ReadHead, CompareHead, TakeRunLock, SubmitReindex,
      ReindexReturns, RecordHead, BootStep, SkipSync, BuildAsync, ReadBootHead,
      SubmitBootReindex, MarkReconciled, AdoptBootReindex, BootFinished, StartLoop, WriterStep,
      BootCallback, ScanBegins, ScanEnds, ScanMisses, ScanRaises, JobEnds
<1>4. at' \in [Puller -> {"rest", "check", "read", "compare", "lock", "pause", "wait", "ok",
                          "error", "record", "gone"}]
  <2>1. ASSUME NEW p \in Puller, Pull(p)
        PROVE  at' = at \/ at' = [at EXCEPT ![p] = "check"]
    BY <2>1 DEF Pull, AfterPull, HeadTypeOK
  <2>2. ASSUME NEW c \in Caller, ReconcileStep(c)
        PROVE  at' = at \/ \E w \in {"rest", "gone", "read", "compare", "lock", "pause", "wait",
                                      "record"} :
                              at' = [at EXCEPT ![c] = w]
    BY <2>2 DEF ReconcileStep, CheckPending, ReadHead, CompareHead, TakeRunLock, SubmitReindex,
        ReindexReturns, RecordHead, Goes, Leaves
  <2>3. CASE ScanEnds \/ ScanMisses \/ ScanRaises
    <3>1. at' = at \/ \E w \in {"ok", "error"} : at' = [at EXCEPT ![queue[1]] = w]
      BY <2>3 DEF ScanEnds, ScanMisses, ScanRaises, JobEnds
    <3>2. QED
      BY <3>1 DEF HeadTypeOK
  <2>4. CASE UNCHANGED at
    BY <2>4 DEF HeadTypeOK
  <2>5. QED
    BY <2>1, <2>2, <2>3, <2>4
    DEF HeadNext, headVars, callers, HeadTypeOK, Puller, OthersPush, OwnCommit, ReportCommit,
        BootStep, SkipSync, BuildAsync, ReadBootHead, SubmitBootReindex, MarkReconciled,
        AdoptBootReindex, StartLoop, WriterStep, BootCallback, ScanBegins
<1>5. seen' \in [Caller -> 0..HEAD']
  <2>1. \/ UNCHANGED seen
        \/ \E c \in Caller, n \in {0, HEAD} : seen' = [seen EXCEPT ![c] = n]
    <3>1. ASSUME NEW c \in Caller, ReconcileStep(c)
          PROVE  UNCHANGED seen \/ \E n \in {0, HEAD} : seen' = [seen EXCEPT ![c] = n]
      BY <3>1 DEF ReconcileStep, CheckPending, ReadHead, CompareHead, TakeRunLock, SubmitReindex,
          ReindexReturns, RecordHead, Goes, Leaves
    <3>2. QED
      BY <3>1 DEF HeadNext, headVars, callers, OthersPush, OwnCommit, ReportCommit, Pull,
          BootStep, SkipSync, BuildAsync, ReadBootHead, SubmitBootReindex, MarkReconciled,
          AdoptBootReindex, StartLoop, WriterStep, BootCallback, ScanBegins, ScanEnds,
          ScanMisses, ScanRaises, JobEnds
  <2>2. seen \in [Caller -> 0..HEAD] /\ HEAD \in Nat /\ HEAD' \in Nat /\ HEAD <= HEAD'
    BY <1>1, BoundsAreCounted DEF HeadTypeOK
  <2>3. \A n \in 0..HEAD : n \in 0..HEAD'
    BY <2>2
  <2>4. seen' \in [Caller -> 0..HEAD]
    BY <2>1, <2>2
  <2>5. QED
    BY <2>3, <2>4
<1>6. /\ fileLock' \in Caller \cup {Nothing} /\ runLock' \in Caller \cup {Nothing}
      /\ boot' \in {"sync", "build", "head", "submit", "adopt", "ready", "started"}
      /\ setting' \in [{"busy", "loop"} -> BOOLEAN]
  BY DEF HeadTypeOK, HeadNext, headVars, callers, startup, OthersPush, OwnCommit, ReportCommit,
      Pull, ReconcileStep, CheckPending, ReadHead, CompareHead, TakeRunLock, SubmitReindex,
      ReindexReturns, RecordHead, BootStep, SkipSync, BuildAsync, ReadBootHead,
      SubmitBootReindex, MarkReconciled, AdoptBootReindex, StartLoop, WriterStep, BootCallback,
      ScanBegins, ScanEnds, ScanMisses, ScanRaises, JobEnds
<1>7. /\ remote' \subseteq Ext /\ noting' \in BOOLEAN
      /\ built' \in BOOLEAN /\ pending' \in BOOLEAN
  BY DEF HeadTypeOK, HeadNext, headVars, gitSide, indexSide, recorder, OthersPush, OwnCommit,
      ReportCommit, Pull, ReconcileStep, CheckPending, ReadHead, CompareHead, TakeRunLock,
      SubmitReindex, ReindexReturns, RecordHead, BootStep, SkipSync, BuildAsync, ReadBootHead,
      SubmitBootReindex, MarkReconciled, AdoptBootReindex, StartLoop, WriterStep, BootCallback,
      ScanBegins, ScanEnds, ScanMisses, ScanRaises, JobEnds
<1>8. indexed' \subseteq Ext /\ missed' \subseteq Ext /\ badScans' \in 0..MaxBadScans
  <2>1. CASE ScanEnds
    BY <1>1, <2>1 DEF HeadTypeOK, ScanEnds, headHistory
  <2>2. CASE ScanMisses
    BY <2>2, BoundsAreCounted DEF HeadTypeOK, ScanMisses
  <2>3. CASE ScanRaises
    BY <2>3, BoundsAreCounted DEF HeadTypeOK, ScanRaises
  <2>4. CASE UNCHANGED <<indexed, missed, badScans>>
    BY <2>4 DEF HeadTypeOK
  <2>5. QED
    BY <2>1, <2>2, <2>3, <2>4
    DEF HeadNext, headVars, indexSide, headHistory, OthersPush, OwnCommit, ReportCommit, Pull,
        ReconcileStep, CheckPending, ReadHead, CompareHead, TakeRunLock, SubmitReindex,
        ReindexReturns, RecordHead, BootStep, SkipSync, BuildAsync, ReadBootHead,
        SubmitBootReindex, MarkReconciled, AdoptBootReindex, StartLoop, WriterStep, BootCallback,
        ScanBegins
<1>9. accepted' \subseteq Ext /\ deferred' \in [{"queued", "running"} -> SUBSET Ext]
  <2>1. ASSUME NEW c \in Caller, CheckPending(c)
        PROVE  accepted' \subseteq Ext /\ deferred' \in [{"queued", "running"} -> SUBSET Ext]
    <3>1. deferred \in [{"queued", "running"} -> SUBSET Ext] /\ accepted' \subseteq Ext
      BY <2>1 DEF HeadTypeOK, CheckPending
    <3>2. \/ deferred' = deferred
          \/ \E k \in {"queued", "running"} :
               deferred' = [deferred EXCEPT ![k] = @ \cup OnDisk]
      BY <2>1 DEF CheckPending
    <3>3. QED
      BY <1>1, <3>1, <3>2
  <2>2. CASE MarkReconciled
    BY <1>1, <2>2 DEF HeadTypeOK, MarkReconciled
  <2>3. CASE ~MarkReconciled /\ ~(\E c \in Caller : CheckPending(c))
    <3>1. UNCHANGED <<accepted, deferred>>
      BY <2>3
      DEF HeadNext, headVars, headHistory, OthersPush, OwnCommit, ReportCommit, Pull,
          ReconcileStep, ReadHead, CompareHead, TakeRunLock, SubmitReindex, ReindexReturns,
          RecordHead, BootStep, SkipSync, BuildAsync, ReadBootHead, SubmitBootReindex,
          AdoptBootReindex, StartLoop, WriterStep, BootCallback, ScanBegins, ScanEnds,
          ScanMisses, ScanRaises
    <3>2. QED
      BY <3>1 DEF HeadTypeOK
  <2>4. QED
    BY <2>1, <2>2, <2>3
<1>10. QED
  BY <1>1, <1>2, <1>3, <1>4, <1>5, <1>6, <1>7, <1>8, <1>9, QueueType DEF HeadTypeOK

(* Whoever has a job in the queue still waits for it.                      *)
LEMMA JobsInPlaceStep ==
  ASSUME HeadTypeOK, JobsInPlace, [HeadNext]_headVars
  PROVE  JobsInPlace'
<1>1. ASSUME NEW c \in Caller, Queued(c)'
      PROVE  at'[c] = "wait"
  <2>1. CASE Queued(c) /\ ~(scan # Nothing /\ queue[1] = c /\ queue' = Tail(queue))
    BY <2>1, WaitingStep DEF JobsInPlace
  <2>2. c # Start /\ c # Build
    BY JobsDiffer DEF Puller
  <2>3. QED
    BY <1>1, <2>1, <2>2, QueuedStep
<1>2. ASSUME Queued(Start)' \/ at'[Start] = "ok"
      PROVE  boot' \in {"adopt", "ready", "started"}
  <2>1. Start \notin Caller /\ Start # Build
    BY JobsDiffer DEF Puller
  <2>2. CASE Queued(Start) \/ at[Start] = "ok"
    BY <2>2, StartupStep DEF JobsInPlace
  <2>3. CASE Queued(Start)' /\ ~Queued(Start)
    BY <2>1, <2>3, QueuedStep
  <2>4. CASE at'[Start] = "ok" /\ at[Start] # "ok"
    <3>1. scan # Nothing /\ queue[1] = Start
      BY <2>4, StartupStep
    <3>2. Queued(Start)
      BY <3>1, Dequeued DEF HeadTypeOK, Queued, ToSet
    <3>3. QED
      BY <2>2, <3>2
  <2>5. QED
    BY <1>2, <2>2, <2>3, <2>4
<1>3. ASSUME Queued(Build)'
      PROVE  boot' \notin {"sync", "build"}
  <2>1. Build \notin Caller /\ Start # Build
    BY JobsDiffer DEF Puller
  <2>2. CASE Queued(Build)
    BY <2>2, StartupStep DEF JobsInPlace
  <2>3. QED
    BY <1>3, <2>1, <2>2, QueuedStep
<1>4. QED
  BY <1>1, <1>2, <1>3 DEF JobsInPlace

(* A scan begins with all that is on disk, and the HEAD it is to be        *)
(* recorded for does not change under it.                                  *)
LEMMA ScanCoversStep ==
  ASSUME HeadInv, [HeadNext]_headVars
  PROVE  ScanCovers'
<1>1. HeadTypeOK /\ HeadsGrow /\ JobsInPlace /\ ScanCovers /\ DeferredCovers
  BY DEF HeadInv
<1>2. CASE ScanBegins
  <2>1. scan' = OnDisk /\ UNCHANGED <<heads, queue, seen, bootHead, deferred>>
    BY <1>2 DEF ScanBegins, gitSide, callers, startup, headHistory
  <2>2. \A i \in 0..HEAD : i # 0 => heads[i] \subseteq OnDisk
    BY <1>1, OnDiskType DEF HeadsGrow
  <2>3. bootHead \in 0..HEAD /\ seen \in [Caller -> 0..HEAD]
    BY <1>1 DEF HeadTypeOK
  <2>4. QED
    BY <1>1, <2>1, <2>2, <2>3 DEF ScanCovers, DeferredCovers
<1>3. CASE scan # Nothing /\ scan' = scan
  <2>1. queue # << >> /\ queue'[1] = queue[1] /\ Queued(queue[1]) /\ queue[1] \in ScanJob
    <3>1. queue \in Seq(ScanJob) /\ IsInjective(queue) /\ queue # << >>
      BY <1>1, <1>3 DEF HeadTypeOK
    <3>2. queue' = queue \/ \E j \in ScanJob : ~Queued(j) /\ queue' = Append(queue, j)
      BY <1>1, <1>3, QueueStep DEF HeadTypeOK
    <3>3. queue'[1] = queue[1]
      BY <3>1, <3>2, Enqueued
    <3>4. Queued(queue[1]) /\ queue[1] \in ScanJob
      BY <3>1, ElementOfSeq, LenProperties, EmptySeq DEF Queued, ToSet
    <3>5. QED
      BY <3>1, <3>3, <3>4
  <2>2. ASSUME NEW c \in Caller, queue'[1] = c, seen'[c] # 0
        PROVE  heads'[seen'[c]] \subseteq scan'
    <3>1. queue[1] = c /\ at[c] = "wait"
      BY <1>1, <2>1, <2>2 DEF JobsInPlace
    <3>2. seen'[c] = seen[c]
      BY <1>1, <3>1, WaitingStep
    <3>3. seen[c] \in 1..HEAD
      BY <1>1, <2>2, <3>2, OnDiskType DEF HeadTypeOK
    <3>4. heads'[seen[c]] = heads[seen[c]]
      BY <1>1, <3>3, HeadsStep
    <3>5. QED
      BY <1>1, <1>3, <2>2, <3>1, <3>2, <3>4 DEF ScanCovers
  <2>3. ASSUME queue'[1] = Start
        PROVE  /\ bootHead' # 0 => heads'[bootHead'] \subseteq scan'
               /\ deferred'["queued"] \subseteq scan'
    <3>1. queue[1] = Start /\ boot \in {"adopt", "ready", "started"}
      BY <1>1, <2>1, <2>3 DEF JobsInPlace
    <3>2. bootHead' # 0 => bootHead' = bootHead
      BY <1>1, <3>1, StartupStep
    <3>3. bootHead # 0 => heads'[bootHead] = heads[bootHead]
      <4>1. bootHead # 0 => bootHead \in 1..HEAD
        BY <1>1, OnDiskType DEF HeadTypeOK
      <4>2. QED
        BY <1>1, <4>1, HeadsStep
    <3>4. deferred'["queued"] = deferred["queued"]
      <4>1. ASSUME NEW c \in Caller, CheckPending(c)
            PROVE  deferred'["queued"] = deferred["queued"]
        BY <1>1, <1>3, <3>1, <4>1 DEF CheckPending, HeadTypeOK
      <4>2. CASE ~(\E c \in Caller : CheckPending(c))
        BY <4>2
        DEF HeadNext, headVars, headHistory, OthersPush, OwnCommit, ReportCommit, Pull,
            ReconcileStep, ReadHead, CompareHead, TakeRunLock, SubmitReindex, ReindexReturns,
            RecordHead, BootStep, SkipSync, BuildAsync, ReadBootHead, SubmitBootReindex,
            MarkReconciled, AdoptBootReindex, StartLoop, WriterStep, BootCallback, ScanBegins,
            ScanEnds, ScanMisses, ScanRaises
      <4>3. QED
        BY <4>1, <4>2
    <3>5. QED
      BY <1>1, <1>3, <3>1, <3>2, <3>3, <3>4 DEF ScanCovers
  <2>4. QED
    BY <2>2, <2>3 DEF ScanCovers
<1>4. CASE scan' = Nothing
  BY <1>4 DEF ScanCovers
<1>5. QED
  BY <1>1, <1>2, <1>3, <1>4, QueueStep

(* What becomes the record, or may, is known: a commit of the server's own *)
(* on the recorded HEAD brings no external change, and a reindex that has  *)
(* returned has seen what was on disk when its HEAD was read.              *)
LEMMA KnownCoversStep ==
  ASSUME HeadInv, [HeadNext]_headVars
  PROVE  KnownCovers'
<1>1. HeadTypeOK /\ HeadsGrow /\ ReportAddsNothing /\ JobsInPlace /\ ScanCovers /\ KnownCovers
  BY DEF HeadInv
<1>2. KnownHeads \subseteq KnownHeads'
  BY KnownStep DEF KnownHeads
<1>3. HEAD \in Nat \ {0} /\ record \in 0..HEAD /\ bootHead \in 0..HEAD
      /\ seen \in [Caller -> 0..HEAD]
  BY <1>1, OnDiskType DEF HeadTypeOK
<1>4. \A i \in 1..HEAD : heads'[i] = heads[i]
  BY <1>1, HeadsStep
<1>5. RecordIsIndexed'
  <2>1. CASE UNCHANGED record
    BY <1>1, <1>2, <1>3, <1>4, <2>1 DEF KnownCovers, RecordIsIndexed, KnownHeads
  <2>2. CASE ReportCommit /\ record' # record
    <3>1. record = HEAD - 1 /\ record # 0 /\ record' = HEAD /\ noting /\ UNCHANGED heads
      BY <2>2 DEF ReportCommit, NoteOwnCommit
    <3>2. heads'[record'] = heads[record]
      BY <1>1, <3>1 DEF ReportAddsNothing, OnDisk
    <3>3. QED
      BY <1>1, <1>2, <1>3, <3>1, <3>2 DEF KnownCovers, RecordIsIndexed, KnownHeads
  <2>3. ASSUME NEW c \in Caller, RecordHead(c)
        PROVE  RecordIsIndexed'
    <3>1. record' = seen[c] /\ at[c] = "record"
      BY <2>3 DEF RecordHead
    <3>2. QED
      BY <1>1, <1>2, <1>3, <1>4, <3>1 DEF KnownCovers, RecordIsIndexed, KnownHeads
  <2>4. CASE MarkReconciled
    BY <1>3, <1>4, <2>4 DEF MarkReconciled, RecordIsIndexed, gitSide
  <2>5. CASE (AdoptBootReindex \/ BootCallback) /\ record' # record
    <3>1. record' = bootHead /\ at[Start] = "ok"
      BY <2>5 DEF AdoptBootReindex, BootCallback, BootFinished
    <3>2. QED
      BY <1>1, <1>2, <1>3, <1>4, <3>1 DEF KnownCovers, RecordIsIndexed, KnownHeads
  <2>6. QED
    BY <2>1, <2>2, <2>3, <2>4, <2>5
    DEF HeadNext, headVars, recorder, OthersPush, OwnCommit, Pull, ReconcileStep,
        CheckPending, ReadHead, CompareHead, TakeRunLock, SubmitReindex, ReindexReturns,
        BootStep, SkipSync, BuildAsync, ReadBootHead, SubmitBootReindex, StartLoop, WriterStep,
        ScanBegins, ScanEnds, ScanMisses, ScanRaises, JobEnds
<1>6. ASSUME NEW c \in Caller, at'[c] \in {"ok", "record"}, seen'[c] # 0
      PROVE  heads'[seen'[c]] \subseteq KnownHeads'
  <2>1. c \in Puller /\ c # Start /\ c # Build
    BY JobsDiffer DEF Puller
  <2>2. CASE at[c] = "wait"
    <3>1. seen'[c] = seen[c] /\ queue[1] = c /\ scan # Nothing /\ (ScanEnds \/ ScanMisses)
      BY <1>1, <1>6, <2>2, WaitingStep
    <3>2. heads[seen[c]] \subseteq scan /\ scan \subseteq indexed' \cup missed'
      BY <1>1, <1>6, <3>1, ScanIsKnown DEF ScanCovers
    <3>3. heads'[seen[c]] = heads[seen[c]]
      BY <1>3, <1>4, <1>6, <3>1
    <3>4. QED
      BY <3>1, <3>2, <3>3 DEF KnownHeads
  <2>3. CASE at[c] \in {"ok", "record"} /\ seen'[c] = seen[c]
    <3>1. heads[seen[c]] \subseteq KnownHeads /\ heads'[seen[c]] = heads[seen[c]]
      BY <1>1, <1>3, <1>4, <1>6, <2>3 DEF KnownCovers
    <3>2. QED
      BY <1>2, <2>3, <3>1
  <2>4. at[c] = "wait" \/ (at[c] \in {"ok", "record"} /\ seen'[c] = seen[c])
    <3>1. ASSUME NEW d \in Caller, ReconcileStep(d)
          PROVE  at[c] \in {"ok", "record", "wait"} /\ seen'[c] = seen[c]
      BY <1>1, <1>6, <2>1, <3>1 DEF HeadTypeOK, ReconcileStep, CheckPending, ReadHead,
          CompareHead, TakeRunLock, SubmitReindex, ReindexReturns, RecordHead, Goes, Leaves
    <3>2. CASE \E p \in Puller : Pull(p)
      BY <1>1, <1>6, <2>1, <3>2 DEF HeadTypeOK, Pull, AfterPull
    <3>3. CASE ScanEnds \/ ScanMisses \/ ScanRaises
      <4>1. queue # << >> /\ UNCHANGED seen
        BY <1>1, <3>3 DEF ScanEnds, ScanMisses, ScanRaises, JobEnds, HeadTypeOK
      <4>2. queue[1] = c => at[c] = "wait"
        BY <1>1, <4>1, ElementOfSeq, LenProperties, EmptySeq
        DEF HeadTypeOK, JobsInPlace, Queued, ToSet
      <4>3. queue[1] # c => at'[c] = at[c]
        BY <1>1, <2>1, <3>3 DEF ScanEnds, ScanMisses, ScanRaises, JobEnds, HeadTypeOK
      <4>4. QED
        BY <1>6, <4>1, <4>2, <4>3
    <3>4. CASE UNCHANGED <<at, seen>>
      BY <1>6, <3>4
    <3>5. QED
      BY <3>1, <3>2, <3>3, <3>4
      DEF HeadNext, headVars, callers, OthersPush, OwnCommit, ReportCommit, BootStep, SkipSync,
          BuildAsync, ReadBootHead, SubmitBootReindex, MarkReconciled, AdoptBootReindex,
          StartLoop, WriterStep, BootCallback, ScanBegins
  <2>5. QED
    BY <2>2, <2>3, <2>4
<1>7. ASSUME at'[Start] = "ok", bootHead' # 0
      PROVE  heads'[bootHead'] \subseteq KnownHeads'
  <2>1. CASE at[Start] = "ok"
    <3>1. bootHead' = bootHead
      BY <1>1, <1>7, <2>1, StartupStep DEF JobsInPlace
    <3>2. heads[bootHead] \subseteq KnownHeads /\ heads'[bootHead] = heads[bootHead]
      BY <1>1, <1>3, <1>4, <1>7, <2>1, <3>1 DEF KnownCovers
    <3>3. QED
      BY <1>2, <3>1, <3>2
  <2>2. CASE at[Start] # "ok"
    <3>1. queue[1] = Start /\ scan # Nothing /\ (ScanEnds \/ ScanMisses)
      BY <1>1, <1>7, <2>2, StartupStep
    <3>2. UNCHANGED bootHead
      BY <3>1 DEF ScanEnds, ScanMisses, JobEnds, startup
    <3>3. heads[bootHead] \subseteq scan /\ scan \subseteq indexed' \cup missed'
      BY <1>1, <1>7, <3>1, <3>2, ScanIsKnown DEF ScanCovers
    <3>4. heads'[bootHead] = heads[bootHead]
      BY <1>3, <1>4, <1>7, <3>2
    <3>5. QED
      BY <3>2, <3>3, <3>4 DEF KnownHeads
  <2>3. QED
    BY <2>1, <2>2
<1>8. QED
  BY <1>5, <1>6, <1>7 DEF KnownCovers

(* What was deferred to a queued boot reindex is seen by its scan.         *)
LEMMA DeferredStep ==
  ASSUME HeadInv, [HeadNext]_headVars
  PROVE  DeferredCovers'
<1>1. HeadTypeOK /\ HeadsGrow /\ JobsInPlace /\ ScanCovers /\ DeferredCovers
  BY DEF HeadInv
<1>2. OnDisk \subseteq OnDisk' /\ indexed \subseteq indexed' /\ missed \subseteq missed'
  BY <1>1, HeadsStep, KnownStep
<1>3. ASSUME NEW c \in Caller, CheckPending(c)
      PROVE  DeferredCovers'
  <2>1. UNCHANGED <<heads, queue, indexed, missed>> /\ at'[Start] = at[Start]
    BY <1>1, <1>3, JobsDiffer
    DEF CheckPending, Goes, Leaves, gitSide, indexSide, HeadTypeOK, Puller
  <2>2. \/ deferred'["queued"] = deferred["queued"]
        \/ Queued(Start) /\ deferred'["queued"] = deferred["queued"] \cup OnDisk
    BY <1>1, <1>3 DEF CheckPending, HeadTypeOK
  <2>3. QED
    BY <1>1, <2>1, <2>2 DEF DeferredCovers, Queued, OnDisk, HEAD
<1>4. CASE ~(\E c \in Caller : CheckPending(c))
  <2>1. UNCHANGED deferred
    BY <1>4
    DEF HeadNext, headVars, headHistory, OthersPush, OwnCommit, ReportCommit, Pull,
        ReconcileStep, ReadHead, CompareHead, TakeRunLock, SubmitReindex, ReindexReturns,
        RecordHead, BootStep, SkipSync, BuildAsync, ReadBootHead, SubmitBootReindex,
        MarkReconciled, AdoptBootReindex, StartLoop, WriterStep, BootCallback, ScanBegins,
        ScanEnds, ScanMisses, ScanRaises
  <2>2. ASSUME ~Queued(Start)', at'[Start] # "error"
        PROVE  deferred["queued"] \subseteq indexed' \cup missed'
    <3>1. CASE Queued(Start)
      <4>1. queue[1] = Start /\ scan # Nothing /\ queue' = Tail(queue) /\ scan' = Nothing
        BY <1>1, <2>2, <3>1, QueuedStep
      <4>2. deferred["queued"] \subseteq scan
        BY <1>1, <4>1 DEF ScanCovers
      <4>3. ScanEnds \/ ScanMisses
        <5>1. ScanEnds \/ ScanMisses \/ ScanRaises
          BY <4>1
          DEF HeadNext, headVars, indexSide, OthersPush, OwnCommit, ReportCommit, Pull,
              ReconcileStep, CheckPending, ReadHead, CompareHead, TakeRunLock, SubmitReindex,
              ReindexReturns, RecordHead, BootStep, SkipSync, BuildAsync, ReadBootHead,
              SubmitBootReindex, MarkReconciled, AdoptBootReindex, StartLoop, WriterStep,
              BootCallback, ScanBegins
        <5>2. ASSUME ScanRaises
              PROVE  at'[Start] = "error"
          BY <1>1, <4>1, <5>2, JobsDiffer DEF ScanRaises, JobEnds, HeadTypeOK, Puller
        <5>3. QED
          BY <2>2, <5>1, <5>2
      <4>4. QED
        BY <1>1, <4>2, <4>3, ScanIsKnown
    <3>2. CASE ~Queued(Start)
      <4>1. at'[Start] = at[Start]
        <5>1. queue[1] = Start /\ scan # Nothing => Queued(Start)
          BY <1>1, ElementOfSeq, LenProperties, EmptySeq DEF HeadTypeOK, Queued, ToSet
        <5>2. QED
          BY <1>1, <3>2, <5>1, StartupStep
      <4>2. QED
        BY <1>1, <1>2, <2>2, <3>2, <4>1 DEF DeferredCovers
    <3>3. QED
      BY <3>1, <3>2
  <2>3. QED
    BY <1>1, <1>2, <2>1, <2>2 DEF DeferredCovers
<1>5. QED
  BY <1>3, <1>4

-----------------------------------------------------------------------------
(* At the start nothing is recorded, queued, scanned or deferred.          *)
LEMMA HeadInitInv ==
  ASSUME HeadInit
  PROVE  HeadInv
<1>1. PICK old \in SUBSET Ext : heads = <<old>> /\ remote = old
  BY DEF HeadInit
<1>2. heads \in Seq(SUBSET Ext) /\ HEAD = 1 /\ OnDisk = old
  BY <1>1 DEF HEAD, OnDisk
<1>3. /\ queue = << >> /\ scan = Nothing /\ record = 0 /\ bootHead = 0 /\ boot = "sync"
      /\ at = [p \in Puller |-> "rest"] /\ seen = [c \in Caller |-> 0]
      /\ deferred = [k \in {"queued", "running"} |-> {}]
  BY DEF HeadInit
<1>4. \A x : ~Queued(x)
  BY <1>3 DEF Queued, ToSet
<1>5. HeadTypeOK
  <2>1. queue \in Seq(ScanJob) /\ IsInjective(queue)
    BY <1>3 DEF IsInjective
  <2>2. indexed \subseteq Ext /\ remote \subseteq Ext
    BY <1>1 DEF HeadInit
  <2>3. HEAD \in 1..MaxHeads /\ 0 \in 0..HEAD /\ 0 \in 0..MaxBadScans
    BY <1>2, BoundsAreCounted
  <2>4. QED
    BY <1>2, <1>3, <2>1, <2>2, <2>3 DEF HeadInit, HeadTypeOK
<1>6. Start \in Puller /\ Caller \subseteq Puller
  BY DEF Puller
<1>7. HeadsGrow /\ ReportAddsNothing
  BY <1>1, <1>2 DEF HeadsGrow, ReportAddsNothing, HeadInit
<1>8. JobsInPlace /\ ScanCovers
  BY <1>3, <1>4, <1>6 DEF JobsInPlace, ScanCovers
<1>9. KnownCovers /\ DeferredCovers
  BY <1>3, <1>6 DEF KnownCovers, RecordIsIndexed, DeferredCovers
<1>10. QED
  BY <1>5, <1>7, <1>8, <1>9 DEF HeadInv

(* Every step keeps all of its parts.                                      *)
LEMMA HeadInvStep ==
  ASSUME HeadInv, [HeadNext]_headVars
  PROVE  HeadInv'
<1>1. HeadTypeOK /\ HeadsGrow /\ ReportAddsNothing /\ JobsInPlace
  BY DEF HeadInv
<1>2. QED
  BY <1>1, TypeStep, HeadsStep, ReportStep, JobsInPlaceStep, ScanCoversStep, KnownCoversStep,
     DeferredStep
  DEF HeadInv

(* The invariant says what the run checks.                                 *)
LEMMA HeadInvSays ==
  ASSUME HeadInv
  PROVE  NothingIsPassedOver
<1>1. queue = << >> => ~Queued(Start)
  BY DEF Queued, ToSet
<1>2. QED
  BY <1>1 DEF HeadInv, KnownCovers, DeferredCovers, NothingIsPassedOver, QueuedBootCovers

(* HeadInv, of which types are a part, holds in every state, whatever the  *)
(* number of changes, guests, HEADs and failing scans                      *)
(* (head_reconciler.py:63-172, domain.py:330-367).                         *)
THEOREM HeadInvariant == HeadSpec => []HeadInv
<1>1. HeadInit => HeadInv
  BY HeadInitInv
<1>2. HeadInv /\ [HeadNext]_headVars => HeadInv'
  BY HeadInvStep
<1>3. QED
  BY <1>1, <1>2, PTL DEF HeadSpec

(* The record, and a deferral to a queued boot reindex, never pass over a  *)
(* change that no scan has seen (head_reconciler.py:12-20, git.py:150-151).*)
THEOREM NothingPassedOverHolds == HeadSpec => []NothingIsPassedOver
<1>1. HeadInv => NothingIsPassedOver
  BY HeadInvSays
<1>2. QED
  BY <1>1, HeadInvariant, PTL
==============================================================================
