-------------------------------- MODULE Reindex --------------------------------
(***************************************************************************)
(* The two passes over the whole vault: IndexManager.build_index and       *)
(* reindex (managers/index.py), with the persisted hashes they work from   *)
(* (tracker.py, ChangeTracker) and the scan that tells a note from a file  *)
(* that cannot be one (scanner.py).  They run on the writer thread, one at *)
(* a time and never beside process_dirty_paths, while editors, sync tools  *)
(* and the server's own write tools change the files, reads fail, and the  *)
(* process may die between any two steps.                                  *)
(*                                                                         *)
(* A file is its content and a hash tells contents apart.  A row is live   *)
(* (the content it was parsed from) or a tombstone.  Exclusion patterns    *)
(* are fixed and match none of the notes; vectors and links are left out.  *)
(***************************************************************************)
EXTENDS Naturals

CONSTANTS
  Path,       \* the files a note may be in
  Good, Bad,  \* contents that parse, and one that does not
  Absent,     \* no file, no row
  Tomb,       \* a row that says why the file was skipped
  Reparse,    \* the empty hash: parse again whatever the file says
  None,       \* no entry
  Job,        \* which of the two passes are run
  MaxEdits,   \* bound: changes of files in a behaviour
  MaxFaults   \* bound: failed reads, failed upserts and raised errors

ASSUME ReindexAssumption ==
  /\ Bad \notin Good
  /\ {Absent, Tomb, Reparse, None} \cap (Good \cup {Bad}) = {}
  /\ Absent \notin {Tomb, Reparse, None} /\ Reparse # None
  /\ Job \subseteq {"build", "reindex"} /\ None \notin {"build", "reindex"}
  /\ MaxEdits \in Nat /\ MaxFaults \in Nat

VARIABLES
  disk,      \* the files
  row,       \* the documents table
  tracker,   \* the tracker's state file: indexed and skipped hashes, skip reasons
  complete,  \* the completion marker of build_index
  dirty,     \* paths process_dirty_paths has still to refresh
  job,       \* the pass that runs: reindex, build, or None
  forced,    \* build_index(force=True)
  blind,     \* its last read of the state file failed and gave empty maps
  step,      \* where it is
  todo,      \* the paths the step has still to go through
  read,      \* disk_state of detect_changes
  unread,    \* paths under a directory the walk could not enter
  gone,      \* changes.deleted
  parsed,    \* the notes parsed by this pass
  failed,    \* the paths whose parse failed for good
  broken,    \* notes build_index could not upsert
  kept,      \* rows _wipe_for_rebuild kept
  skips,     \* hashes this pass records for skipped files
  carry,     \* _skipped_carry, _skip_reasons_carry and _reparse_carry
  edits, faults,
  owed,      \* history: rows changed since the tracker was last saved
  quiet,     \* history: no file changed and nothing failed in this pass
  calm       \* history: reindexes completed since the last such disturbance

storeVars == <<disk, row, tracker, complete, dirty>>
passVars == <<job, forced, blind, step, todo, read, unread, gone, parsed, failed, broken,
              kept, skips, carry>>
historyVars == <<edits, faults, owed, quiet, calm>>
reindexVars == <<storeVars, passVars, historyVars>>

Content == Good \cup {Bad}
Hash == Content \cup {Reparse, None}
NoCarry == [skipped |-> [p \in Path |-> None], reasons |-> {}, reparse |-> {}]
NoTracker == [indexed |-> [p \in Path |-> None], skipped |-> [p \in Path |-> None],
              reasons |-> {}]

ReindexTypeOK ==
  /\ disk \in [Path -> Content \cup {Absent}]
  /\ row \in [Path -> Good \cup {Absent, Tomb}]
  /\ tracker \in [indexed : [Path -> Hash \ {Bad}], skipped : [Path -> Hash],
                  reasons : SUBSET Path]
  /\ \A p \in tracker.reasons : tracker.skipped[p] # None
  /\ \A p \in Path : None \in {tracker.indexed[p], tracker.skipped[p]}
  /\ complete \in BOOLEAN /\ dirty \subseteq Path
  /\ job \in Job \cup {None} /\ forced \in BOOLEAN /\ blind \in BOOLEAN
  /\ step \in {"hash", "parse", "delete", "scan", "upsert", "skips", "save", "sync"}
  /\ todo \subseteq Path
  /\ read \in [Path -> Hash \cup {Absent}]
  /\ unread \subseteq Path /\ gone \subseteq Path
  /\ parsed \in [Path -> Good \cup {None}]
  /\ failed \subseteq Path /\ broken \subseteq Path /\ kept \subseteq Path
  /\ skips \in [Path -> Content \cup {None}]
  /\ carry \in [skipped : [Path -> Hash], reasons : SUBSET Path, reparse : SUBSET Path]
  /\ edits \in 0..MaxEdits /\ faults \in 0..MaxFaults
  /\ owed \subseteq Path /\ quiet \in BOOLEAN /\ calm \in 0..2

(* What a pass starts from, and what is left of one that has ended.        *)
Rest ==
  /\ forced' = FALSE /\ blind' = FALSE /\ step' = "hash" /\ todo' = {}
  /\ read' = [p \in Path |-> None] /\ unread' = {} /\ gone' = {}
  /\ parsed' = [p \in Path |-> None] /\ failed' = {} /\ broken' = {} /\ kept' = {}
  /\ skips' = [p \in Path |-> None] /\ carry' = NoCarry

(* A vault in use whose last pass completed, or a new one.                 *)
ReindexInit ==
  /\ disk \in [Path -> Content \cup {Absent}]
  /\ \/ /\ complete = TRUE
        /\ row = [p \in Path |-> IF disk[p] = Bad THEN Tomb ELSE disk[p]]
        /\ tracker = [indexed |-> [p \in Path |-> IF disk[p] \in Good THEN disk[p] ELSE None],
                      skipped |-> [p \in Path |-> IF disk[p] = Bad THEN Bad ELSE None],
                      reasons |-> {p \in Path : disk[p] = Bad}]
     \/ complete = FALSE /\ row = [p \in Path |-> Absent] /\ tracker = NoTracker
  /\ dirty = {}
  /\ job = None /\ forced = FALSE /\ blind = FALSE /\ step = "hash" /\ todo = {}
  /\ read = [p \in Path |-> None] /\ unread = {} /\ gone = {}
  /\ parsed = [p \in Path |-> None] /\ failed = {} /\ broken = {} /\ kept = {}
  /\ skips = [p \in Path |-> None] /\ carry = NoCarry
  /\ edits = 0 /\ faults = 0 /\ owed = {} /\ quiet = FALSE /\ calm = 0

Live(p) == row[p] \in Good

Fault ==
  /\ faults < MaxFaults /\ faults' = faults + 1
  /\ quiet' = FALSE /\ calm' = 0

NoFault == UNCHANGED <<faults, quiet, calm>>

-----------------------------------------------------------------------------
(* The files change under the program; a write tool marks what it wrote,   *)
(* and the next process_dirty_paths refreshes its row without touching the *)
(* tracker.                                                                *)

Edit(p, text) ==
  /\ edits < MaxEdits /\ edits' = edits + 1
  /\ text # disk[p]
  /\ disk' = [disk EXCEPT ![p] = text]
  /\ \/ dirty' = dirty \cup {p}
     \/ UNCHANGED dirty
  /\ quiet' = FALSE /\ calm' = 0
  /\ UNCHANGED <<row, tracker, complete, passVars, faults, owed>>

RefreshRow(p) ==
  /\ job = None /\ p \in dirty
  /\ dirty' = dirty \ {p}
  /\ row' = [row EXCEPT ![p] = IF disk[p] = Bad THEN Tomb ELSE disk[p]]
  /\ owed' = owed \cup {p}
  /\ UNCHANGED <<disk, tracker, complete, passVars, edits, faults, quiet, calm>>

(* The process dies and a new one opens the same stores.                   *)
Restart ==
  /\ job' = None /\ Rest
  /\ dirty' = {}
  /\ quiet' = FALSE /\ calm' = IF job = None THEN calm ELSE 0
  /\ UNCHANGED <<disk, row, tracker, complete, edits, faults, owed>>

-----------------------------------------------------------------------------
(* An empty folder under a filled index is an unmounted one: the pass      *)
(* changes nothing.  A folder without notes may hold other files.          *)
Refused(holdsEntries) ==
  /\ \E p \in Path : row[p] # Absent
  /\ ~holdsEntries

HoldsEntries == IF \E p \in Path : disk[p] # Absent THEN {TRUE} ELSE BOOLEAN

(* A step has gone through its paths.                                      *)
Through(s) == job # None /\ step = s /\ todo = {}

GoOn(s, paths) ==
  /\ step' = s /\ todo' = paths
  /\ NoFault /\ UNCHANGED <<job, forced, blind, edits>>

-----------------------------------------------------------------------------
(* reindex: detect_changes.  It loads the state file first; one that       *)
(* cannot be read counts as empty maps.                                    *)

BeginReindex ==
  /\ job = None /\ "reindex" \in Job
  /\ job' = "reindex" /\ todo' = Path
  /\ \/ blind' = FALSE /\ quiet' = TRUE /\ UNCHANGED <<faults, calm>>
     \/ blind' = TRUE /\ Fault
  /\ UNCHANGED <<storeVars, forced, step, read, unread, gone, parsed, failed, broken,
                 kept, skips, carry, edits, owed>>

(* What the pass has loaded.                                               *)
Loaded == IF blind THEN NoTracker ELSE tracker

Recorded(p) == IF Loaded.indexed[p] # None THEN Loaded.indexed[p] ELSE Absent

(* A hash that fails keeps the entry of an indexed note and drops any      *)
(* other; a directory that cannot be entered keeps both.                   *)
HashNote(p) ==
  /\ job = "reindex" /\ step = "hash" /\ p \in todo
  /\ todo' = todo \ {p}
  /\ \/ NoFault /\ read' = [read EXCEPT ![p] = disk[p]] /\ UNCHANGED unread
     \/ /\ disk[p] # Absent /\ Fault
        /\ read' = [read EXCEPT ![p] = Recorded(p)] /\ UNCHANGED unread
     \/ /\ disk[p] # Absent /\ Fault
        /\ read' = [read EXCEPT ![p] = IF Loaded.skipped[p] # None
                                         THEN Loaded.skipped[p] ELSE Recorded(p)]
        /\ unread' = unread \cup {p}
  /\ UNCHANGED <<storeVars, job, forced, blind, step, gone, parsed, failed, broken, kept,
                 skips, carry, edits, owed>>

(* The hash either map has for the path.                                   *)
HashIn(maps, p) == IF maps.indexed[p] # None THEN maps.indexed[p] ELSE maps.skipped[p]

(* Added, modified and deleted; unchanged skips are carried to the state   *)
(* this pass will write.                                                   *)
Classify ==
  /\ Through("hash")
  /\ \E entries \in HoldsEntries :
       IF Refused(entries)
         THEN job' = None /\ Rest /\ NoFault /\ UNCHANGED edits
         ELSE /\ GoOn("parse", {p \in Path : read[p] # Absent /\ read[p] # HashIn(Loaded, p)})
              /\ gone' = {p \in Path : Loaded.indexed[p] # None /\ read[p] = Absent}
              /\ LET same == {p \in Path : /\ Loaded.indexed[p] = None
                                           /\ Loaded.skipped[p] # None
                                           /\ read[p] = Loaded.skipped[p]}
                 IN  carry' = [skipped |-> [p \in Path |-> IF p \in same THEN read[p] ELSE None],
                               reasons |-> same \cap Loaded.reasons,
                               reparse |-> {p \in unread : Loaded.indexed[p] = Reparse}]
              /\ UNCHANGED <<read, unread, parsed, failed, broken, kept, skips>>
  /\ UNCHANGED <<storeVars, owed>>

(* Parse what changed.  A read that fails leaves the path to the next scan. *)
ParseNote(p) ==
  /\ job = "reindex" /\ step = "parse" /\ p \in todo \ failed
  /\ \/ /\ disk[p] \in Good /\ parsed' = [parsed EXCEPT ![p] = disk[p]]
        /\ todo' = todo \ {p} /\ NoFault /\ UNCHANGED failed
     \/ /\ disk[p] = Bad /\ failed' = failed \cup {p}
        /\ NoFault /\ UNCHANGED <<todo, parsed>>
     \/ /\ IF disk[p] = Absent THEN NoFault ELSE Fault
        /\ todo' = todo \ {p} /\ UNCHANGED <<parsed, failed>>
  /\ UNCHANGED <<storeVars, job, forced, blind, step, read, unread, gone, broken, kept,
                 skips, carry, edits, owed>>

(* A parse that failed for good: the file is hashed, again from the disk,  *)
(* and a tombstone takes the row at once.  The hash may fail, which        *)
(* records nothing, or the stat of the tombstone, which leaves the row.    *)
RecordSkip(p) ==
  /\ job = "reindex" /\ step = "parse" /\ p \in failed \cap todo
  /\ todo' = todo \ {p}
  /\ \/ /\ disk[p] # Absent /\ NoFault
        /\ skips' = [skips EXCEPT ![p] = disk[p]]
        /\ row' = [row EXCEPT ![p] = Tomb]
        /\ owed' = owed \cup {p}
     \/ /\ disk[p] # Absent /\ Fault
        /\ skips' = [skips EXCEPT ![p] = disk[p]]
        /\ UNCHANGED <<row, owed>>
     \/ /\ IF disk[p] = Absent THEN NoFault ELSE Fault
        /\ UNCHANGED <<row, skips, owed>>
  /\ UNCHANGED <<disk, tracker, complete, dirty, job, forced, blind, step, read, unread,
                 gone, parsed, failed, broken, kept, carry, edits>>

EndParse ==
  /\ Through("parse") /\ GoOn("delete", gone)
  /\ UNCHANGED <<storeVars, read, unread, gone, parsed, failed, broken, kept, skips,
                 carry, owed>>

DeleteNote(p) ==
  /\ job # None /\ step = "delete" /\ p \in todo
  /\ todo' = todo \ {p}
  /\ row' = [row EXCEPT ![p] = Absent]
  /\ owed' = owed \cup {p}
  /\ NoFault
  /\ UNCHANGED <<disk, tracker, complete, dirty, job, forced, blind, step, read, unread,
                 gone, parsed, failed, broken, kept, skips, carry, edits>>

Parsed == {p \in Path : parsed[p] # None}

EndDelete ==
  /\ Through("delete") /\ GoOn("upsert", Parsed)
  /\ UNCHANGED <<storeVars, read, unread, gone, parsed, failed, broken, kept, skips,
                 carry, owed>>

-----------------------------------------------------------------------------
(* Both passes: upsert each parsed note.  One that fails is passed over.   *)
UpsertNote(p) ==
  /\ job # None /\ step = "upsert" /\ p \in todo
  /\ todo' = todo \ {p}
  /\ \/ /\ row' = [row EXCEPT ![p] = parsed[p]]
        /\ owed' = owed \cup {p}
        /\ NoFault /\ UNCHANGED broken
     \/ Fault /\ broken' = broken \cup {p} /\ UNCHANGED <<row, owed>>
  /\ UNCHANGED <<disk, tracker, complete, dirty, job, forced, blind, step, read, unread,
                 gone, parsed, failed, kept, skips, carry, edits>>

(* The notes whose hashes make the new state: what the rows say for a      *)
(* reindex; for a build what was scanned, and the kept rows.               *)
StateNotes == IF job = "reindex" THEN {p \in Path : Live(p)}
                                 ELSE Parsed \cup {p \in kept : Live(p)}

(* Those among them that go in with the empty hash.                        *)
HashedEmpty == IF job = "reindex" THEN carry.reparse ELSE broken \cup (kept \ Parsed)

(* Two slips: the state claims what was parsed, upserted or not; a note    *)
(* that was not reported changed keeps its old entry.                      *)
IndexedAsParsed ==
  [p \in Path |-> IF p \in Parsed THEN parsed[p]
                  ELSE IF p \notin StateNotes THEN None
                  ELSE IF p \in HashedEmpty THEN Reparse ELSE row[p]]

IndexedAsBefore ==
  [p \in Path |-> IF job = "reindex" /\ tracker.indexed[p] # None /\ p \notin gone \cup Parsed
                    THEN tracker.indexed[p]
                  ELSE IF p \notin StateNotes THEN None
                  ELSE IF p \in HashedEmpty THEN Reparse
                  ELSE IF job = "reindex" THEN row[p] ELSE parsed[p]]

NewIndexed ==
  [p \in Path |-> IF p \notin StateNotes THEN None
                  ELSE IF p \in HashedEmpty THEN Reparse
                  ELSE IF job = "reindex" THEN row[p] ELSE parsed[p]]

(* A slip: an indexed path does not win over its skip.                     *)
SkippedAnyway ==
  [p \in Path |-> IF p \in kept THEN Reparse
                  ELSE IF skips[p] # None THEN skips[p] ELSE carry.skipped[p]]

NewSkipped ==
  [p \in Path |-> IF NewIndexed[p] # None THEN None
                  ELSE IF p \in kept THEN Reparse
                  ELSE IF skips[p] # None THEN skips[p] ELSE carry.skipped[p]]

NewTracker ==
  [indexed |-> NewIndexed, skipped |-> NewSkipped,
   reasons |-> {p \in Path : /\ NewSkipped[p] # None
                             /\ p \in failed \cup kept \cup carry.reasons}]

(* A reindex also saves its state midway, every now and then.              *)
Checkpoint ==
  /\ job = "reindex" /\ step = "upsert" /\ todo # Parsed
  /\ tracker' = NewTracker
  /\ owed' = {}
  /\ UNCHANGED <<disk, row, complete, dirty, passVars, edits, faults, quiet, calm>>

EndUpsert ==
  /\ Through("upsert")
  /\ IF job = "build" THEN GoOn("skips", Path) ELSE GoOn("save", {})
  /\ UNCHANGED <<storeVars, read, unread, gone, parsed, failed, broken, kept, skips,
                 carry, owed>>

(* update_state; then skip_reasons loads the file again, and the tombstones *)
(* whose skip it does not list go: all of them if it could not be read.     *)
(* The build is marked complete by its command.                             *)
SaveState ==
  /\ Through("save")
  /\ tracker' = NewTracker
  /\ owed' = {}
  /\ step' = "sync" /\ blind' = FALSE
  /\ UNCHANGED <<disk, row, complete, dirty, job, forced, todo, read, unread, gone,
                 parsed, failed, broken, kept, skips, carry, edits, faults, quiet,
                 calm>>

ReloadFails ==
  /\ Through("sync") /\ ~blind
  /\ blind' = TRUE /\ Fault
  /\ UNCHANGED <<storeVars, job, forced, step, todo, read, unread, gone, parsed, failed,
                 broken, kept, skips, carry, edits, owed>>

(* A slip: tombstones whose skip was dropped silently stay.                *)
KeepTombstones ==
  /\ Through("sync")
  /\ complete' = (complete \/ job = "build")
  /\ calm' = IF job = "reindex" /\ quiet THEN IF calm = 0 THEN 1 ELSE 2 ELSE calm
  /\ job' = None /\ Rest
  /\ quiet' = FALSE
  /\ UNCHANGED <<disk, row, tracker, dirty, edits, faults, owed>>

SyncTombstones ==
  /\ Through("sync")
  /\ row' = [p \in Path |-> IF row[p] = Tomb /\ p \notin Loaded.reasons THEN Absent
                                                                      ELSE row[p]]
  /\ complete' = (complete \/ job = "build")
  /\ calm' = IF job = "reindex" /\ quiet THEN IF calm = 0 THEN 1 ELSE 2 ELSE calm
  /\ job' = None /\ Rest
  /\ quiet' = FALSE
  /\ UNCHANGED <<disk, tracker, dirty, edits, faults, owed>>

(* A database or state-file error ends either pass.                        *)
PassRaises ==
  /\ job # None /\ Fault
  /\ job' = None /\ Rest
  /\ UNCHANGED <<storeVars, edits, owed>>

-----------------------------------------------------------------------------
(* build_index: the marker goes first; an empty folder is refused before   *)
(* the scan, and the command then sets the marker all the same.            *)

BeginBuild(force) ==
  /\ job = None /\ "build" \in Job
  /\ \E entries \in HoldsEntries :
       IF ~force /\ Refused(entries)
         THEN complete' = TRUE /\ UNCHANGED passVars /\ NoFault
         ELSE /\ complete' = FALSE
              /\ job' = "build" /\ forced' = force /\ step' = "scan" /\ todo' = Path
              /\ quiet' = TRUE
              /\ UNCHANGED <<blind, read, unread, gone, parsed, failed, broken, kept,
                             skips, carry, faults, calm>>
  /\ UNCHANGED <<disk, row, tracker, dirty, edits, owed>>

(* A file whose read fails is left out of the scan, as one that is not     *)
(* there; so is all of a directory that cannot be entered.                 *)
ScanNote(p) ==
  /\ job = "build" /\ step = "scan" /\ p \in todo
  /\ todo' = todo \ {p}
  /\ \/ /\ disk[p] \in Good /\ parsed' = [parsed EXCEPT ![p] = disk[p]]
        /\ NoFault /\ UNCHANGED <<failed, unread>>
     \/ /\ disk[p] = Bad /\ failed' = failed \cup {p}
        /\ NoFault /\ UNCHANGED <<parsed, unread>>
     \/ disk[p] = Absent /\ NoFault /\ UNCHANGED <<parsed, failed, unread>>
     \/ disk[p] # Absent /\ Fault /\ UNCHANGED <<parsed, failed, unread>>
     \/ /\ disk[p] # Absent /\ Fault
        /\ unread' = unread \cup {p} /\ UNCHANGED <<parsed, failed>>
  /\ UNCHANGED <<storeVars, job, forced, blind, step, read, gone, broken, kept, skips,
                 carry, edits, owed>>

(* A slip: a forced build drops what it could not read as well.            *)
WipeAllIfForced ==
  /\ Through("scan")
  /\ LET spared == IF forced THEN {} ELSE unread \cup {p \in Parsed : Live(p)}
     IN  GoOn("delete", {p \in Path \ spared : row[p] # Absent})
  /\ kept' = {p \in unread : row[p] # Absent}
  /\ UNCHANGED <<storeVars, read, unread, gone, parsed, failed, broken, skips, carry,
                 owed>>

(* Which rows go, one by one: not those under unread directories, and in a *)
(* build that is not forced not those about to be rewritten.               *)
WipeForRebuild ==
  /\ Through("scan")
  /\ LET spared == unread \cup IF forced THEN {} ELSE {p \in Parsed : Live(p)}
     IN  GoOn("delete", {p \in Path \ spared : row[p] # Absent})
  /\ kept' = {p \in unread : row[p] # Absent}
  /\ UNCHANGED <<storeVars, read, unread, gone, parsed, failed, broken, skips, carry,
                 owed>>

(* The folder is walked again: every file that was not parsed is recorded  *)
(* as skipped, with the hash it has now; a directory unread before may be  *)
(* read this time.                                                         *)
RecordCandidate(p) ==
  /\ job = "build" /\ step = "skips" /\ p \in todo
  /\ todo' = todo \ {p}
  /\ \/ /\ disk[p] # Absent /\ p \notin Parsed
        /\ skips' = [skips EXCEPT ![p] = disk[p]]
        /\ \/ NoFault /\ row' = IF p \in failed THEN [row EXCEPT ![p] = Tomb] ELSE row
           \/ p \in failed /\ Fault /\ UNCHANGED row
     \/ /\ IF disk[p] = Absent \/ p \in Parsed \cup unread THEN NoFault ELSE Fault
        /\ UNCHANGED <<skips, row>>
  /\ UNCHANGED <<disk, tracker, complete, dirty, job, forced, blind, step, read, unread,
                 gone, parsed, failed, broken, kept, carry, edits, owed>>

EndSkips ==
  /\ Through("skips") /\ GoOn("save", {})
  /\ UNCHANGED <<storeVars, read, unread, gone, parsed, failed, broken, kept, skips,
                 carry, owed>>

-----------------------------------------------------------------------------
PassStep ==
  \/ \E p \in Path : \/ HashNote(p) \/ ParseNote(p) \/ RecordSkip(p) \/ DeleteNote(p)
                     \/ UpsertNote(p) \/ ScanNote(p) \/ RecordCandidate(p)
  \/ Classify \/ EndParse \/ EndDelete \/ Checkpoint \/ EndUpsert \/ WipeForRebuild
  \/ EndSkips \/ SaveState \/ ReloadFails \/ SyncTombstones \/ PassRaises

ReindexNext ==
  \/ BeginReindex \/ \E force \in BOOLEAN : BeginBuild(force)
  \/ PassStep
  \/ \E p \in Path : \/ RefreshRow(p)
                     \/ \E text \in Content \cup {Absent} : Edit(p, text)
  \/ Restart

ReindexSpec == ReindexInit /\ [][ReindexNext]_reindexVars

-----------------------------------------------------------------------------
(* The row serves what the file says, or nothing if the file says nothing. *)
RowMatches(p) == IF disk[p] \in Good THEN row[p] = disk[p] ELSE ~Live(p)

(* The next scan will report the path as added, modified or deleted.       *)
Noticed(p) ==
  \/ disk[p] # Absent /\ disk[p] # HashIn(tracker, p)
  \/ disk[p] = Absent /\ tracker.indexed[p] # None

(* A note that parses is recorded as skipped with the hash it has.         *)
Stuck(p) == disk[p] \in Good /\ tracker.skipped[p] = disk[p] /\ tracker.indexed[p] = None

(* Whatever a pass is doing, and wherever it or the process was            *)
(* interrupted: a row that is out of date would be noticed by a scan,      *)
(* unless the row was changed since the tracker was saved; in particular   *)
(* no checkpoint and no closing save claims a content the rows do not hold *)
(* (managers/index.py:471-476, tracker.py:375-397).                        *)
StaleIsNoticed == \A p \in Path \ owed : RowMatches(p) \/ Noticed(p) \/ Stuck(p)

(* Two reindexes in a row, undisturbed, bring every row up to date, from   *)
(* whatever crashes, failures and refreshes came before.                   *)
SecondReindexCatchesUp ==
  (calm = 2 /\ job = None) => \A p \in Path : RowMatches(p) \/ Stuck(p)

(* What a directory that cannot be entered hides keeps its row, live or a  *)
(* tombstone the tracker knows of and goes on knowing of, through the      *)
(* whole of a reindex and of a build, forced or not (tracker.py:691-705,   *)
(* managers/index.py:417-421).  The tombstone needs a state file that      *)
(* could be read: one that could not lists nothing (tracker.py:480-529).   *)
UnreadKeepsRow ==
  [][\A p \in unread :
       /\ Live(p) => row'[p] = row[p]
       /\ row[p] = Tomb /\ p \in tracker.reasons /\ ~blind =>
            row'[p] = Tomb /\ p \in tracker'.reasons]_reindexVars

(* No phantom candidate: after an undisturbed pass a tombstone stands only *)
(* for a file the tracker still lists as skipped, or one a write tool has  *)
(* touched since, although files vanish from that list without being       *)
(* reported deleted (managers/index.py:397-405).                           *)
TombstonesAreListed ==
  (calm > 0 /\ job = None) =>
     \A p \in Path \ owed : row[p] = Tomb => p \in tracker.reasons

(* What the documentation of reindex says: one call brings the index up to *)
(* date with files changed outside the server (indexing.md:143).  Not so:  *)
(* a note written through the server and then put back as it was at the    *)
(* last pass, say by a git revert, is taken for unchanged.                 *)
ReindexCatchesUp ==
  (complete /\ calm > 0 /\ job = None /\ dirty = {}) =>
     \A p \in Path : RowMatches(p) \/ Stuck(p)

(* What the scanner and the tombstones say of the skip records: they cover *)
(* bytes that were evaluated, and a failed read is retried by the next     *)
(* scan (scanner.py:2147-2149, fts_index.py:1506-1507).  Not so.           *)
SkipsWereEvaluated ==
  (complete /\ job = None /\ dirty = {}) => \A p \in Path : tracker.skipped[p] \notin Good

=============================================================================
