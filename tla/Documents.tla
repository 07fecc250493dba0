------------------------------- MODULE Documents -------------------------------
(***************************************************************************)
(* The mutations of notes: write, edit, append, delete, rename with its    *)
(* link rewrites, and move_folder (managers/document.py), with the etag    *)
(* check (managers/_write_kernel.py) and the record of link rewrites that  *)
(* lets a rename cross them (managers/_rewrite_ledger.py).                 *)
(*                                                                         *)
(* A file's content is a text and the one note it links to; an etag is the *)
(* content it is the hash of.  Clients call in parallel and serialise on   *)
(* _file_write_lock; editors outside the server take no lock, and change a *)
(* file between any two accesses of an operation to the disk.  The index   *)
(* is its link rows and its set of dirty paths (IndexPipeline has how the  *)
(* one catches up with the other).                                         *)
(***************************************************************************)
EXTENDS Naturals, FiniteSets

CONSTANTS
  Path,        \* paths of notes
  Text,        \* bodies
  Client,      \* concurrent callers
  Folder,      \* the files of one folder, mapped to their places in another
  Renames,     \* pairs of paths the clients rename between
  Bad,         \* bytes that are not UTF-8
  Absent,      \* no regular file
  None,
  Protect,     \* write_protect_existing
  FirstDisk,   \* the contents the server starts over
  Saved,       \* contents that clients and editors save
  MaxOps,      \* bound on operations
  MaxMishaps   \* bound on edits from outside and errors that leave a file as it was

Content == [text : Text, to : Path \cup {None}]

ASSUME FolderMovesAway ==
  /\ DOMAIN Folder \subseteq Path
  /\ \A p \in DOMAIN Folder : Folder[p] \in Path \ DOMAIN Folder
  /\ \A p, q \in DOMAIN Folder : Folder[p] = Folder[q] => p = q
ASSUME ProtectIsSet == Protect \in BOOLEAN
ASSUME NotContents ==
  /\ Bad # Absent /\ {Bad, Absent, None} \cap Content = {}
  /\ None \notin Path \cup Client
ASSUME NotesAreContents ==
  /\ FirstDisk \subseteq [Path -> Content \cup {Bad, Absent}]
  /\ Saved \subseteq Content /\ Renames \subseteq Path \X Path
ASSUME BoundsAreNat == MaxOps \in Nat /\ MaxMishaps \in Nat

VARIABLES
  disk,      \* the files of the vault
  rows,      \* the link of each note, as the index holds it
  dirty,     \* paths marked for the index writer
  ledger,    \* the recorded link rewrites
  lock,      \* who holds _file_write_lock
  op,        \* the operation of each client
  known,     \* the note a client last read, and its etag
  ready,     \* clients in a call whose ensure_index_current returned
  late,      \* history: for those, paths changed since by others, or unknown to the index
  outside,   \* history: paths changed outside the server and not indexed since
  touched,   \* history: paths changed outside the server since the lock was taken
  unsaid,    \* history: paths the server changed and did not report to the callback
  broken,    \* history: paths changed by operations, and by rewrites, that raised
  ops,       \* how many operations have begun
  mishaps    \* how many outside edits and errors there have been

docVars == <<disk, rows, dirty, ledger, lock, op, known, ready, late, outside, touched,
             unsaid, broken, ops, mishaps>>

Rest == [step |-> "rest"]
(* A write about to replace a note that it found, or may only find, as     *)
(* base; a move about to take its first file.                              *)
Replacing(p, base, put) ==
  [step |-> "replace", path |-> p, base |-> base, put |-> put, map |-> <<>>, rename |-> FALSE,
   links |-> FALSE, back |-> <<>>, todo |-> {}, read |-> None, done |-> {}, failed |-> {}]
Moving(map, base, rename, links, back) ==
  [step |-> "move", path |-> None, base |-> base, put |-> Absent, map |-> map,
   rename |-> rename, links |-> links, back |-> back, todo |-> DOMAIN map, read |-> None,
   done |-> {}, failed |-> {}]

LinkOf(x) == IF x \in Content THEN x.to ELSE None
Image(f) == {f[i] : i \in DOMAIN f}
Mishap == mishaps < MaxMishaps /\ mishaps' = mishaps + 1

DocTypeOK ==
  /\ disk \in [Path -> Content \cup {Bad, Absent}]
  /\ rows \in [Path -> Path \cup {None}]
  /\ dirty \subseteq Path
  /\ \A e \in ledger : e.path \in Path /\ {e.before, e.after} \subseteq Content
  /\ \A d, e \in ledger : d.path = e.path /\ d.after = e.after => d = e
  /\ \A c \in Client : (op[c].step # "rest") <=> (lock = c)
  /\ ops \in 0..MaxOps /\ mishaps \in 0..MaxMishaps

DocInit ==
  /\ disk \in FirstDisk
  /\ rows = [p \in Path |-> LinkOf(disk[p])]
  /\ dirty = {} /\ ledger = {}
  /\ lock = None /\ op = [c \in Client |-> Rest]
  /\ known = [c \in Client |-> None]
  /\ late = [c \in Client |-> {}] /\ ready = {}
  /\ outside = {} /\ touched = {} /\ unsaid = {} /\ broken = {}
  /\ ops = 0 /\ mishaps = 0

-----------------------------------------------------------------------------
(* read: the content and its etag.                                         *)
ClientReads(c, p) ==
  /\ op[c].step = "rest" /\ c \notin ready /\ ops < MaxOps
  /\ disk[p] \in Content
  /\ known' = [known EXCEPT ![c] = [path |-> p, etag |-> disk[p]]]
  /\ UNCHANGED <<disk, rows, dirty, ledger, lock, op, ready, late, outside, touched,
                 unsaid, broken, ops, mishaps>>

(* The writer thread runs its refresh job: an unreadable note keeps its    *)
(* row and its mark, and the others are refreshed all the same.            *)
CatchUp ==
  /\ rows' = [p \in Path |-> IF p \in dirty /\ disk[p] # Bad THEN LinkOf(disk[p])
                                                             ELSE rows[p]]
  /\ dirty' = {p \in dirty : disk[p] = Bad}
  /\ outside' = outside \ (dirty \ dirty')

IndexCatchesUp ==
  /\ dirty # {} /\ CatchUp
  /\ UNCHANGED <<disk, ledger, lock, op, known, late, ready, touched, unsaid, broken, ops,
                 mishaps>>

(* ensure_index_current, outside the lock; it raises when a note cannot be *)
(* refreshed.  It does not see what another call has replaced and not yet  *)
(* marked.                                                                 *)
Refresh(c) ==
  /\ op[c].step = "rest" /\ c \notin ready /\ ops < MaxOps
  /\ CatchUp /\ dirty' = {}
  /\ ready' = ready \cup {c}
  /\ late' = [late EXCEPT ![c] = outside' \cup broken \cup unsaid]
  /\ UNCHANGED <<disk, ledger, lock, op, known, touched, unsaid, broken, ops, mishaps>>

(* The call that refreshed is refused, and raises.                         *)
Refused(c) ==
  /\ op[c].step = "rest" /\ c \in ready
  /\ ready' = ready \ {c} /\ late' = [late EXCEPT ![c] = {}]
  /\ UNCHANGED <<disk, rows, dirty, ledger, lock, op, known, outside, touched, unsaid,
                 broken, ops, mishaps>>

(* What the clients in D miss of a change to the paths P.                  *)
Learn(D, P) == late' = [d \in Client |-> IF d \in D \cap ready THEN late[d] \cup P ELSE late[d]]

(* A note is edited outside the server: saved, removed, or left in bytes   *)
(* that are not UTF-8.                                                     *)
ExternalEdit(p) ==
  /\ Mishap
  /\ \E x \in Saved \cup {Bad, Absent} : x # disk[p] /\ disk' = [disk EXCEPT ![p] = x]
  /\ outside' = outside \cup {p}
  /\ touched' = IF lock = None THEN {} ELSE touched \cup {p}
  /\ Learn(Client, {p})
  /\ UNCHANGED <<rows, dirty, ledger, lock, op, known, ready, unsaid, broken, ops>>

(* An entry of the ledger expires or is evicted.                           *)
Forget(e) ==
  /\ ledger' = ledger \ {e}
  /\ UNCHANGED <<disk, rows, dirty, lock, op, known, ready, late, outside, touched, unsaid,
                 broken, ops, mishaps>>

-----------------------------------------------------------------------------
(* with self._file_write_lock, up to the operation's first change.         *)
TakeLock(c, o) ==
  /\ lock = None /\ op[c].step = "rest" /\ ops < MaxOps
  /\ lock' = c /\ op' = [op EXCEPT ![c] = o]
  /\ ops' = ops + 1 /\ known' = [known EXCEPT ![c] = None]
  /\ UNCHANGED <<disk, rows, dirty, ledger, ready, late, outside, touched, unsaid, broken,
                 mishaps>>

Forgets(c) == ready' = ready \ {c} /\ late' = [late EXCEPT ![c] = {}] /\ touched' = {}
Release(c) == lock' = None /\ op' = [op EXCEPT ![c] = Rest] /\ Forgets(c)

(* if_match: none, or the etag of what the client read at p.               *)
Etags(c, p) == {None} \cup {known[c].etag : k \in {k \in {known[c]} : k # None /\ k.path = p}}

CheckIfMatch(p, etag) == etag # None => disk[p] = etag
CheckNoClobber(p, etag) == Protect /\ etag = None => disk[p] = Absent

(* write: base is what the call may replace, when it says.                 *)
BeginWrite(c, p, x, etag) ==
  /\ CheckNoClobber(p, etag) /\ CheckIfMatch(p, etag)
  /\ TakeLock(c, Replacing(p, IF etag = None /\ Protect THEN Absent ELSE etag, x))

(* edit, and append to a note that exists, up to the check of its etag;    *)
(* append with create_if_missing makes the note.                           *)
Editing(p, etag) == [Replacing(p, etag, Absent) EXCEPT !.step = "edit"]

BeginEdit(c, p, etag) ==
  /\ CheckIfMatch(p, etag)
  /\ \/ disk[p] # Absent /\ TakeLock(c, Editing(p, etag))
     \/ /\ disk[p] = Absent
        /\ \E t \in Text : TakeLock(c, Replacing(p, Absent, [text |-> t, to |-> None]))

BeginDelete(c, p, etag) ==
  /\ disk[p] # Absent /\ CheckIfMatch(p, etag)
  /\ TakeLock(c, Replacing(p, etag, Absent))

(* A change the server makes to the paths P.                               *)
Changes(c, P) ==
  /\ unsaid' = unsaid \cup P
  /\ Learn(Client \ {c}, P)

(* atomic_write or unlink.  The unlink of a file that is gone raises.      *)
Replace(c) ==
  /\ op[c].step = "replace"
  /\ op[c].put = Absent => disk[op[c].path] # Absent
  /\ disk' = [disk EXCEPT ![op[c].path] = op[c].put]
  /\ Changes(c, {op[c].path})
  /\ op' = [op EXCEPT ![c].step = "mark"]
  /\ UNCHANGED <<rows, dirty, ledger, lock, known, ready, outside, touched, broken, ops,
                 mishaps>>

(* A slip: the lock is left behind.                                        *)
RaiseKeepingLock(c) ==
  /\ op' = [op EXCEPT ![c] = Rest] /\ Forgets(c)
  /\ broken' = broken \cup unsaid
  /\ UNCHANGED <<disk, rows, dirty, ledger, lock, known, outside, unsaid, ops>>

(* The operation raises, and what it had changed is neither marked nor     *)
(* reported.                                                               *)
Raise(c) ==
  /\ Release(c)
  /\ broken' = broken \cup unsaid
  /\ UNCHANGED <<disk, rows, dirty, ledger, known, outside, unsaid, ops>>

(* The new text goes into what the call reads after its check; a note that *)
(* is gone or unreadable by then, or lacks the old text, ends the call.    *)
ReadForEdit(c) ==
  LET p == op[c].path
      base == IF op[c].base = None THEN disk[p] ELSE op[c].base IN
  /\ op[c].step = "edit"
  /\ \/ /\ disk[p] \in Content
        /\ \E t \in Text :
             op' = [op EXCEPT ![c] = Replacing(p, base, [disk[p] EXCEPT !.text = t])]
        /\ UNCHANGED <<disk, rows, dirty, ledger, lock, known, ready, late, outside,
                       touched, unsaid, broken, ops>>
     \/ Raise(c)
  /\ UNCHANGED mishaps

ReplaceFails(c) ==
  /\ op[c].step = "replace"
  /\ IF op[c].put = Absent /\ disk[op[c].path] = Absent THEN UNCHANGED mishaps ELSE Mishap
  /\ Raise(c)

(* An operation ends as the paths P change, and the others miss that.      *)
EndsOver(c, P) ==
  /\ lock' = None /\ op' = [op EXCEPT ![c] = Rest] /\ ready' = ready \ {c} /\ touched' = {}
  /\ late' = [d \in Client |-> IF d = c THEN {} ELSE IF d \in ready THEN late[d] \cup P
                                                       ELSE late[d]]

(* The mode of a file that was not there is set when it is in place; when  *)
(* that fails the write raises over a note that is written.                *)
ReplaceThenFails(c) ==
  LET p == op[c].path IN
  /\ op[c].step = "replace" /\ op[c].put # Absent /\ disk[p] = Absent
  /\ disk' = [disk EXCEPT ![p] = op[c].put]
  /\ unsaid' = unsaid \cup {p} /\ broken' = broken \cup unsaid'
  /\ EndsOver(c, {p})
  /\ UNCHANGED <<rows, dirty, ledger, known, outside, ops, mishaps>>

-----------------------------------------------------------------------------
(* rewrites_since: an unbroken chain of recorded rewrites of p leads from  *)
(* the etag to the note's content now.                                     *)
Vouched(p, etag) ==
  LET back[k \in 0..Cardinality(ledger)] ==
        IF k = 0 THEN {disk[p]}
        ELSE back[k - 1]
               \cup {e.before : e \in {e \in ledger : e.path = p /\ e.after \in back[k - 1]}}
  IN  etag \in back[Cardinality(ledger)]

(* get_backlinks of the notes about to move.                               *)
Backlinks(moved) == [s \in {s \in Path : rows[s] \in moved} |-> rows[s]]

(* rename of a note, with or without update_links.                         *)
BeginRename(c, old, new, etag, links) ==
  /\ links <=> c \in ready
  /\ disk[old] # Absent /\ disk[new] = Absent
  /\ CheckIfMatch(old, etag) \/ Vouched(old, etag)
  /\ TakeLock(c, Moving([p \in {old} |-> new], etag, TRUE, links,
                        IF links THEN Backlinks({old}) ELSE <<>>))

(* move_folder, up to the collision gate.                                  *)
BeginMoveFolder(c) ==
  LET files == {p \in DOMAIN Folder : disk[p] # Absent} IN
  /\ c \in ready
  /\ files # {} /\ \A p \in files : disk[Folder[p]] = Absent
  /\ TakeLock(c, Moving([p \in files |-> Folder[p]], None, FALSE, TRUE, Backlinks(files)))

(* shutil.move of one file.                                                *)
MoveFile(c, p) ==
  /\ op[c].step = "move" /\ p \in op[c].todo /\ disk[p] # Absent
  /\ disk' = [disk EXCEPT ![op[c].map[p]] = disk[p], ![p] = Absent]
  /\ Changes(c, {p, op[c].map[p]})
  /\ op' = [op EXCEPT ![c].todo = @ \ {p}]
  /\ UNCHANGED <<rows, dirty, ledger, lock, known, ready, outside, touched, broken, ops,
                 mishaps>>

(* The file is gone, or the system refuses: what has moved stays moved.    *)
MoveFails(c, p) ==
  /\ op[c].step = "move" /\ p \in op[c].todo
  /\ IF disk[p] = Absent THEN UNCHANGED mishaps ELSE Mishap
  /\ Raise(c)

(* A slip: a source that moved is looked for where it was.                 *)
SourceUnmoved(map, s) == s

Source(map, s) == IF s \in DOMAIN map THEN map[s] ELSE s

(* After the last move a rename parses and reads the note at its new place *)
(* (an unreadable one raises here); then the sources to rewrite are known, *)
(* each under its present name.                                            *)
MovesDone(c) ==
  LET map == op[c].map
      back == op[c].back
      sources == {Source(map, s) : s \in DOMAIN back} IN
  /\ op[c].step = "move" /\ op[c].todo = {}
  /\ IF op[c].rename => \A p \in Image(map) : disk[p] \in Content
     THEN /\ op' = [op EXCEPT ![c].step = "rewrite", ![c].todo = sources,
                      ![c].back = [s \in sources |->
                         back[CHOOSE q \in DOMAIN back : Source(map, q) = s]]]
          /\ UNCHANGED <<disk, rows, dirty, ledger, lock, known, ready, late, outside,
                         touched, unsaid, broken, ops>>
     ELSE Raise(c)
  /\ UNCHANGED mishaps

(* _rewrite_one_source, its read: a file that is gone, unreadable or that  *)
(* does not hold the link of the row is passed over.                       *)
RewriteRead(c, s) ==
  /\ op[c].step = "rewrite" /\ op[c].read = None /\ s \in op[c].todo
  /\ op' = IF disk[s] \in Content /\ disk[s].to = op[c].back[s]
           THEN [op EXCEPT ![c].read = [at |-> s, was |-> disk[s]]]
           ELSE [op EXCEPT ![c].todo = @ \ {s}]
  /\ UNCHANGED <<disk, rows, dirty, ledger, lock, known, ready, late, outside, touched,
                 unsaid, broken, ops, mishaps>>

Record(p, before, after) ==
  {e \in ledger : ~(e.path = p /\ e.after = after)}
    \cup {[path |-> p, before |-> before, after |-> after]}

(* A slip: the file is read again to be hashed.                            *)
LedgerReread(p, was, new) == Record(p, IF disk[p] \in Content THEN disk[p] ELSE was, new)

LedgerWith(p, was, new) == Record(p, was, new)

Relinked(c) == [op[c].read.was EXCEPT !.to = op[c].map[@]]

(* Its write, and the record of exactly the bytes read and written.        *)
RewriteReplace(c) ==
  LET s == op[c].read.at
      was == op[c].read.was
      new == Relinked(c) IN
  /\ op[c].step = "rewrite" /\ op[c].read # None
  /\ disk' = [disk EXCEPT ![s] = new]
  /\ ledger' = LedgerWith(s, was, new)
  /\ Changes(c, {s})
  /\ op' = [op EXCEPT ![c].read = None, ![c].todo = @ \ {s}, ![c].done = @ \cup {s}]
  /\ UNCHANGED <<rows, dirty, lock, known, ready, outside, touched, broken, ops, mishaps>>

(* The read or the write of one source fails: the others are rewritten.    *)
GivesUp(c, s) ==
  /\ op[c].step = "rewrite" /\ s \in op[c].todo
  /\ op' = [op EXCEPT ![c].read = None, ![c].todo = @ \ {s}, ![c].failed = @ \cup {s}]

RewriteFails(c, s) ==
  /\ GivesUp(c, s)
  /\ op[c].read # None => op[c].read.at = s
  /\ Mishap
  /\ UNCHANGED <<disk, rows, dirty, ledger, lock, known, ready, late, outside, touched,
                 unsaid, broken, ops>>

(* A source that was removed since its read is written anew, and its mode  *)
(* cannot be set: it counts as failed, unmarked and unreported.            *)
RewriteThenFails(c, s) ==
  /\ GivesUp(c, s)
  /\ op[c].read # None /\ op[c].read.at = s /\ disk[s] = Absent
  /\ disk' = [disk EXCEPT ![s] = Relinked(c)]
  /\ Changes(c, {s}) /\ broken' = broken \cup {s}
  /\ UNCHANGED <<rows, dirty, ledger, lock, known, ready, outside, touched, ops, mishaps>>

RewritesDone(c) ==
  /\ op[c].step = "rewrite" /\ op[c].todo = {}
  /\ op' = [op EXCEPT ![c].step = "mark"]
  /\ UNCHANGED <<disk, rows, dirty, ledger, lock, known, ready, late, outside, touched,
                 unsaid, broken, ops, mishaps>>

-----------------------------------------------------------------------------
Marked(o) ==
  (IF o.path = None THEN {} ELSE {o.path}) \cup DOMAIN o.map \cup Image(o.map) \cup o.done

Mark(c) ==
  /\ op[c].step = "mark"
  /\ dirty' = dirty \cup Marked(op[c])
  /\ op' = [op EXCEPT ![c].step = "fire"]
  /\ UNCHANGED <<disk, rows, ledger, lock, known, ready, late, outside, touched, unsaid,
                 broken, ops, mishaps>>

(* A slip: the callback hears of the moves only.                           *)
SaidMoves(o) == (IF o.path = None THEN {} ELSE {o.path}) \cup DOMAIN o.map \cup Image(o.map)

(* fire names the written path; fire_rename both sides of a move; a        *)
(* rewritten source is an edit, unless its rename tells of it.             *)
Said(o) == Marked(o)

Folded(o) == ~o.rename /\ o.map # <<>>
(* _dispatch_move_callbacks reads each moved note for its callback.        *)
Unreadable(o) == {p \in DOMAIN o.map : Folded(o) /\ disk[o.map[p]] \notin Content}

Fire(c) ==
  /\ op[c].step = "fire" /\ Unreadable(op[c]) = {}
  /\ unsaid' = unsaid \ Said(op[c])
  /\ IF Folded(op[c])
     THEN op' = [op EXCEPT ![c].step = "prune"] /\ UNCHANGED <<lock, ready, late, touched>>
     ELSE Release(c)
  /\ UNCHANGED <<disk, rows, dirty, ledger, known, outside, broken, ops, mishaps>>

(* It raises at an unreadable note, with those before it reported, the     *)
(* edits not, and the source tree left in place.                           *)
FireRaises(c) ==
  /\ op[c].step = "fire" /\ Unreadable(op[c]) # {}
  /\ \E said \in SUBSET (DOMAIN op[c].map \ Unreadable(op[c])) :
       unsaid' = unsaid \ (said \cup {op[c].map[p] : p \in said})
  /\ broken' = broken \cup unsaid'
  /\ Release(c)
  /\ UNCHANGED <<disk, rows, dirty, ledger, known, outside, ops, mishaps>>

(* rmtree of the old folder takes whatever was dropped there meanwhile.    *)
Prune(c) ==
  LET dropped == {p \in DOMAIN Folder : disk[p] # Absent} IN
  /\ op[c].step = "prune"
  /\ disk' = [p \in Path |-> IF p \in dropped THEN Absent ELSE disk[p]]
  /\ outside' = outside \cup dropped
  /\ EndsOver(c, dropped)
  /\ UNCHANGED <<rows, dirty, ledger, known, unsaid, broken, ops, mishaps>>

-----------------------------------------------------------------------------
Call(c) ==
  \/ c \notin ready /\ \E p \in Path : \E etag \in Etags(c, p) :
       \/ \E x \in Saved : BeginWrite(c, p, x, etag)
       \/ BeginEdit(c, p, etag) \/ BeginDelete(c, p, etag)
  \/ \E r \in Renames, links \in BOOLEAN : \E etag \in Etags(c, r[1]) :
       BeginRename(c, r[1], r[2], etag, links)
  \/ BeginMoveFolder(c)

Work(c) ==
  \/ ReadForEdit(c) \/ Replace(c) \/ ReplaceFails(c) \/ ReplaceThenFails(c)
  \/ \E p \in Path : \/ MoveFile(c, p) \/ MoveFails(c, p)
                     \/ RewriteRead(c, p) \/ RewriteFails(c, p) \/ RewriteThenFails(c, p)
  \/ MovesDone(c) \/ RewriteReplace(c) \/ RewritesDone(c)
  \/ Mark(c) \/ Fire(c) \/ FireRaises(c) \/ Prune(c)

DocNext ==
  \/ \E c \in Client : \/ Call(c) \/ Work(c) \/ Refresh(c) \/ Refused(c)
                       \/ \E p \in Path : ClientReads(c, p)
  \/ IndexCatchesUp
  \/ \E p \in Path : ExternalEdit(p)
  \/ \E e \in ledger : Forget(e)

DocSpec == DocInit /\ [][DocNext]_docVars

-----------------------------------------------------------------------------
(* What a call was allowed to replace is what it replaces: the content of  *)
(* its if_match, what the edit itself had read, or nothing under           *)
(* write_protect_existing; only an editor outside the server can come      *)
(* between the check and the write (document.py:789-797, 985, 1224).       *)
ReplacesWhatItChecked(c) ==
  /\ op[c].step = "replace" /\ op'[c].step = "mark"
  /\ op[c].base # None /\ op[c].path \notin touched
  => disk[op[c].path] = op[c].base

(* A rename that goes ahead, also one whose etag only the ledger vouched   *)
(* for, moves the text its caller has read (_rewrite_ledger.py:10-18).     *)
MovesTheTextRead(c) ==
  /\ op[c].step = "rest" /\ op'[c].step = "move" /\ op'[c].base # None
  => \A p \in DOMAIN op'[c].map : disk[p].text = op'[c].base.text

(* An etag never lets a call go over a text its caller has not seen.       *)
NoLostUpdate ==
  [][\A c \in Client : ReplacesWhatItChecked(c) /\ MovesTheTextRead(c)]_docVars

(* When a rename or a folder move has rewritten its sources, no note the   *)
(* index knew links to a place that was left, except one that failed and   *)
(* one changed by another since the refresh (document.py:1244-1246,        *)
(* 1735-1740).                                                             *)
LinksFollow ==
  \A c \in Client :
    op[c].step \in {"mark", "fire", "prune"} /\ op[c].path = None /\ op[c].links =>
      \A s \in Path :
        disk[s] \in Content /\ disk[s].to \in DOMAIN op[c].map =>
          \/ s \in late[c] \cup op[c].failed
          \/ \E q \in DOMAIN op[c].map : op[c].map[q] = s /\ q \in late[c]

(* Between operations a row differs from its file only for a path that is  *)
(* marked, changed outside, or left by an operation that raised: each      *)
(* operation marks every place it wrote, left or rewrote, and reports them *)
(* to the callback that commits them, or they are never in git             *)
(* (document.py:1331-1344, 1702-1706, 1830-1835).                          *)
EveryChangeIsTold ==
  lock = None =>
    /\ \A p \in Path : rows[p] # LinkOf(disk[p]) => p \in dirty \cup outside \cup broken
    /\ unsaid \subseteq broken

=============================================================================
