----------------------------- MODULE DocumentsProofs -----------------------------
(***************************************************************************)
(* What holds of the mutations of notes for every number of notes, texts,  *)
(* clients, operations and edits from outside (document.py).  The links    *)
(* follow because the rows a call refreshed differ from the files only     *)
(* where it is told, and because each note that links to a place that is   *)
(* left is on its way through the list of backlinks; the changes are told  *)
(* because what an operation has changed is always among what it will      *)
(* mark and report; an etag that only the ledger vouches for is followed   *)
(* back through the recorded rewrites, by induction on their number.       *)
(***************************************************************************)
EXTENDS Documents, FiniteSetTheorems, WellFoundedInduction, TLAPS

Map == UNION {[S -> Path] : S \in SUBSET Path}
Busy == [step : {"edit", "replace", "move", "rewrite", "mark", "fire", "prune"},
         path : Path \cup {None}, base : Content \cup {None, Absent},
         put : Content \cup {Absent}, map : Map, rename : BOOLEAN, links : BOOLEAN,
         back : Map, todo : SUBSET Path, read : {None} \cup [at : Path, was : Content],
         done : SUBSET Path, failed : SUBSET Path]

VaultTyped ==
  /\ disk \in [Path -> Content \cup {Bad, Absent}]
  /\ rows \in [Path -> Path \cup {None}]
  /\ dirty \subseteq Path /\ outside \subseteq Path /\ unsaid \subseteq Path
  /\ broken \subseteq Path
ClientsTyped ==
  /\ lock \in Client \cup {None}
  /\ op \in [Client -> {Rest} \cup Busy]
  /\ known \in [Client -> {None} \cup [path : Path, etag : Content]]
  /\ ready \subseteq Client
  /\ late \in [Client -> SUBSET Path]
CountsTyped == ops \in 0..MaxOps /\ mishaps \in 0..MaxMishaps
LockIsHeld == \A c \in Client : (op[c].step # "rest") <=> (lock = c)

(* The ledger is finite, has one entry for each content it leads from, and *)
(* an entry changes links only (_rewrite_ledger.py:10-18).                 *)
LedgerKept ==
  /\ IsFiniteSet(ledger)
  /\ ledger \subseteq [path : Path, before : Content, after : Content]
  /\ \A d, e \in ledger : d.path = e.path /\ d.after = e.after => d = e
  /\ \A e \in ledger : e.before.text = e.after.text

(* A move leaves its places for other ones, each for one of its own.       *)
MovesAway ==
  \A c \in Client : op[c].step # "rest" =>
    /\ \A p \in DOMAIN op[c].map : op[c].map[p] \notin DOMAIN op[c].map
    /\ \A p, q \in DOMAIN op[c].map : op[c].map[p] = op[c].map[q] => p = q
    /\ op[c].step = "move" => op[c].todo \subseteq DOMAIN op[c].map
    /\ op[c].step \in {"edit", "replace"} => op[c].path \in Path /\ ~op[c].links

(* What a call may replace is still there, unless an editor came.          *)
CheckedStands ==
  \A c \in Client :
    op[c].step \in {"edit", "replace"} /\ op[c].base # None /\ op[c].path \notin touched
    => disk[op[c].path] = op[c].base

(* A row that is out of date is marked, changed outside, left behind, or   *)
(* a change of an operation that has still to mark it.                     *)
RowsTold ==
  \A p \in Path : rows[p] # LinkOf(disk[p]) =>
    \/ p \in dirty \cup outside \cup broken
    \/ p \in unsaid /\ \E c \in Client : op[c].step \in {"move", "rewrite", "mark"}

(* A change that was not reported will be, or its operation raised.        *)
UnsaidIsHeld ==
  \A p \in unsaid : p \in broken \/
    \E c \in Client : op[c].step \in {"move", "rewrite", "mark", "fire"} /\ p \in Marked(op[c])

(* Between its refresh and its operation a call knows of every row that    *)
(* differs from its file.                                                  *)
FreshRows ==
  /\ \A c \in ready : op[c].step = "rest" =>
       \A p \in Path : rows[p] # LinkOf(disk[p]) => p \in late[c]
  /\ \A c \in Client : op[c].step # "rest" /\ op[c].links => c \in ready

Links(c, s) == disk[s] \in Content /\ disk[s].to \in DOMAIN op[c].map
Passed(c, s) ==
  \/ s \in late[c] \cup op[c].failed
  \/ \E q \in DOMAIN op[c].map : op[c].map[q] = s /\ q \in late[c]

BackKept ==
  \A c \in Client :
    /\ op[c].step \in {"move", "rewrite"} =>
         \A s \in DOMAIN op[c].back : op[c].back[s] \in DOMAIN op[c].map
    /\ op[c].step = "rewrite" => op[c].todo \subseteq DOMAIN op[c].back
    /\ op[c].step = "rewrite" /\ op[c].read # None =>
         op[c].read.at \in op[c].todo /\ op[c].read.was.to \in DOMAIN op[c].map
    /\ op[c].step = "move" =>
         op[c].failed = {} /\ op[c].read = None /\ (op[c].links =>
         \A q \in DOMAIN op[c].map : op[c].map[q] \in DOMAIN op[c].back => op[c].map[q] \in late[c])

(* A note that links to a place being left was a backlink when the move    *)
(* began, and is found again where it is now; then it is left to rewrite.  *)
Following(c, s) ==
  CASE op[c].step = "move" ->
         \/ /\ s \in DOMAIN op[c].back \ (DOMAIN op[c].map \ op[c].todo)
            /\ op[c].back[s] = disk[s].to
         \/ \E q \in DOMAIN op[c].map \ op[c].todo :
              op[c].map[q] = s /\ q \in DOMAIN op[c].back /\ op[c].back[q] = disk[s].to
    [] op[c].step = "rewrite" -> s \in op[c].todo /\ op[c].back[s] = disk[s].to
    [] OTHER -> FALSE
LinksWillFollow ==
  \A c \in Client :
    op[c].step \in {"move", "rewrite", "mark", "fire", "prune"} /\ op[c].links =>
      \A s \in Path : Links(c, s) => Passed(c, s) \/ Following(c, s)

DocInv ==
  /\ VaultTyped /\ ClientsTyped /\ CountsTyped /\ LockIsHeld /\ LedgerKept
  /\ MovesAway /\ CheckedStands /\ RowsTold /\ UnsaidIsHeld /\ FreshRows
  /\ BackKept /\ LinksWillFollow

-----------------------------------------------------------------------------
(* A call as it takes the lock.                                            *)

(* What an operation starts with: a write with what it may replace, or a   *)
(* move with its backlinks (document.py:789-797, 1224-1260, 1640-1700).    *)
Starts(c, o) ==
  \/ /\ o.step \in {"edit", "replace"} /\ o.path \in Path /\ DOMAIN o.map = {} /\ ~o.links
     /\ o.base # None => disk[o.path] = o.base
  \/ /\ o.step = "move" /\ o.failed = {} /\ o.read = None /\ o.todo = DOMAIN o.map
     /\ o.links => c \in ready
     /\ o.base # None => \A p \in DOMAIN o.map : disk[p].text = o.base.text
     /\ \A p \in DOMAIN o.map : disk[o.map[p]] = Absent /\ o.map[p] \notin DOMAIN o.map
     /\ \A p, q \in DOMAIN o.map : o.map[p] = o.map[q] => p = q
     /\ \A s \in DOMAIN o.back : rows[s] \in DOMAIN o.map /\ o.back[s] = rows[s]
     /\ o.links => \A s \in Path : rows[s] \in DOMAIN o.map => s \in DOMAIN o.back

(* The empty sequence is the empty map.                                    *)
LEMMA EmptyMap == <<>> \in Map /\ DOMAIN <<>> = {}
<1>1. <<>> = [p \in {} |-> p]
  OBVIOUS
<1>2. [p \in {} |-> p] \in [{} -> Path]
  OBVIOUS
<1>3. <<>> \in [{} -> Path]
  BY <1>1, <1>2
<1>4. QED
  BY <1>3 DEF Map

(* A function on some of the paths, into the paths, is a map.              *)
LEMMA MapOf ==
  ASSUME NEW S \in SUBSET Path, NEW f \in [S -> Path]
  PROVE  f \in Map /\ DOMAIN f = S
  BY DEF Map

(* The places a map leaves and the places it leads to are paths.           *)
LEMMA MapPaths ==
  ASSUME NEW f \in Map
  PROVE  DOMAIN f \subseteq Path /\ f \in [DOMAIN f -> Path] /\ \A p \in DOMAIN f : f[p] \in Path
<1>1. PICK S \in SUBSET Path : f \in [S -> Path]
  BY DEF Map
<1>2. QED
  BY <1>1

(* A write about to replace is an operation (document.py:789-797).         *)
LEMMA ReplacingTyped ==
  ASSUME NEW p \in Path, NEW b \in Content \cup {None, Absent}, NEW x \in Content \cup {Absent}
  PROVE  Replacing(p, b, x) \in Busy
  BY EmptyMap DEF Replacing, Busy

(* A move about to take its first file is an operation (document.py:1640-  *)
(* 1700).                                                                  *)
LEMMA MovingTyped ==
  ASSUME NEW m \in Map, NEW b \in Content \cup {None}, NEW rn \in BOOLEAN, NEW l \in BOOLEAN,
         NEW k \in Map
  PROVE  Moving(m, b, rn, l, k) \in Busy
<1>1. DOMAIN m \subseteq Path
  BY MapPaths
<1>2. QED
  BY <1>1 DEF Moving, Busy

(* The etag of a call is none, or a content (_write_kernel.py).            *)
LEMMA EtagTyped ==
  ASSUME ClientsTyped, NEW c \in Client, NEW p \in Path, NEW e \in Etags(c, p)
  PROVE  e \in Content \cup {None}
<1>1. CASE e = None
  BY <1>1
<1>2. CASE e # None
  <2>1. e = known[c].etag /\ known[c] # None
    BY <1>2 DEF Etags
  <2>2. known[c] \in [path : Path, etag : Content]
    BY <2>1 DEF ClientsTyped
  <2>3. QED
    BY <2>1, <2>2
<1>3. QED
  BY <1>1, <1>2

(* write begins with what it may replace (document.py:789-797).            *)
LEMMA WriteStarts ==
  ASSUME DocInv, NEW c \in Client, NEW p \in Path, NEW e \in Etags(c, p), NEW x \in Saved,
         BeginWrite(c, p, x, e)
  PROVE  \E o \in Busy : TakeLock(c, o) /\ Starts(c, o)
<1> DEFINE b == IF e = None /\ Protect THEN Absent ELSE e
<1>1. TakeLock(c, Replacing(p, b, x))
  BY DEF BeginWrite
<1>2. e \in Content \cup {None}
  BY EtagTyped DEF DocInv
<1>3. b \in Content \cup {None, Absent} /\ x \in Content \cup {Absent}
  BY <1>2, NotesAreContents
<1>4. Replacing(p, b, x) \in Busy
  BY <1>3, ReplacingTyped
<1>5. b # None => disk[p] = b
  BY DEF BeginWrite, CheckNoClobber, CheckIfMatch
<1>6. Starts(c, Replacing(p, b, x))
  BY <1>5, EmptyMap DEF Starts, Replacing
<1>7. QED
  BY <1>1, <1>4, <1>6

(* An edit about to read its note is an operation (document.py:1050).      *)
LEMMA EditingTyped ==
  ASSUME NEW p \in Path, NEW e \in Content \cup {None}
  PROVE  /\ Editing(p, e) \in Busy /\ Editing(p, e).step = "edit" /\ Editing(p, e).path = p
         /\ DOMAIN Editing(p, e).map = {} /\ ~Editing(p, e).links /\ Editing(p, e).base = e
<1>1. Replacing(p, e, Absent) \in Busy
  BY ReplacingTyped
<1>2. /\ Replacing(p, e, Absent).path = p /\ DOMAIN Replacing(p, e, Absent).map = {}
      /\ ~Replacing(p, e, Absent).links /\ Replacing(p, e, Absent).base = e
  BY EmptyMap DEF Replacing
<1>3. QED
  BY <1>1, <1>2 DEF Editing, Busy

(* edit and append begin over what their etag names, or where nothing is   *)
(* (document.py:905-911, 1050-1056).                                       *)
LEMMA EditStarts ==
  ASSUME DocInv, NEW c \in Client, NEW p \in Path, NEW e \in Etags(c, p), BeginEdit(c, p, e)
  PROVE  \E o \in Busy : TakeLock(c, o) /\ Starts(c, o)
<1>1. e \in Content \cup {None} /\ (e # None => disk[p] = e)
  BY EtagTyped DEF DocInv, BeginEdit, CheckIfMatch
<1>2. CASE disk[p] # Absent /\ TakeLock(c, Editing(p, e))
  <2>1. Starts(c, Editing(p, e))
    BY <1>1, EditingTyped DEF Starts
  <2>2. QED
    BY <1>1, <1>2, <2>1, EditingTyped
<1>3. ASSUME disk[p] = Absent, NEW t \in Text,
             TakeLock(c, Replacing(p, Absent, [text |-> t, to |-> None]))
      PROVE  \E o \in Busy : TakeLock(c, o) /\ Starts(c, o)
  <2>1. PICK x \in Content : x = [text |-> t, to |-> None]
    BY DEF Content
  <2>2. Replacing(p, Absent, x) \in Busy
    BY ReplacingTyped
  <2>3. Starts(c, Replacing(p, Absent, x))
    BY <1>3, EmptyMap DEF Starts, Replacing
  <2>4. QED
    BY <1>3, <2>1, <2>2, <2>3
<1>4. QED
  BY <1>2, <1>3 DEF BeginEdit

(* delete (document.py:985).                                               *)
LEMMA DeleteStarts ==
  ASSUME DocInv, NEW c \in Client, NEW p \in Path, NEW e \in Etags(c, p), BeginDelete(c, p, e)
  PROVE  \E o \in Busy : TakeLock(c, o) /\ Starts(c, o)
<1>1. TakeLock(c, Replacing(p, e, Absent))
  BY DEF BeginDelete
<1>2. e \in Content \cup {None}
  BY EtagTyped DEF DocInv
<1>3. Replacing(p, e, Absent) \in Busy
  BY <1>2, ReplacingTyped
<1>4. Starts(c, Replacing(p, e, Absent))
  BY EmptyMap DEF Starts, BeginDelete, CheckIfMatch, Replacing
<1>5. QED
  BY <1>1, <1>3, <1>4

-----------------------------------------------------------------------------
(* An etag that the ledger vouches for, by induction on the chain.         *)

(* Induction on the naturals, for a set of them: a least number outside    *)
(* would have a predecessor inside.                                        *)
LEMMA NatSetInduction ==
  ASSUME NEW S, 0 \in S, \A n \in Nat : n \in S => n + 1 \in S
  PROVE  Nat \subseteq S
<1>1. SUFFICES ASSUME Nat \ S # {} PROVE FALSE
  OBVIOUS
<1>2. PICK x \in Nat \ S : \A y \in Nat \ S : ~(<<y, x>> \in OpToRel(<, Nat))
  BY <1>1, NatLessThanWellFounded, WFMin, Zenon
<1>3. \A y \in Nat : y < x => y \in S
  BY <1>2, Zenon DEF OpToRel
<1>4. x \in Nat /\ x \notin S /\ x # 0
  BY <1>2, Zenon
<1>5. x - 1 \in Nat /\ x - 1 < x /\ (x - 1) + 1 = x
  BY <1>4
<1>6. QED
  BY <1>3, <1>4, <1>5, Zenon

(* What one more entry of the ledger L leads back to, from the contents B  *)
(* (rewrites_since, _rewrite_ledger.py).                                   *)
Before(L, p, B) == B \cup {e.before : e \in {e \in L : e.path = p /\ e.after \in B}}
Chain(L, p, d, n, f) ==
  f = [k \in 0..n |-> IF k = 0 THEN {d} ELSE Before(L, p, f[k - 1])]

(* The chain exists at every length: a longer one extends a shorter.       *)
LEMMA ChainExists ==
  ASSUME NEW L, NEW p, NEW d, NEW n \in Nat
  PROVE  \E f : Chain(L, p, d, n, f)
<1> DEFINE S == {m \in Nat : \E f : Chain(L, p, d, m, f)}
<1>1. 0 \in S
  <2> DEFINE f == [k \in 0..0 |-> {d}]
  <2>1. Chain(L, p, d, 0, f)
    BY DEF Chain
  <2>2. QED
    BY <2>1
<1>2. ASSUME NEW m \in Nat, m \in S PROVE m + 1 \in S
  <2>1. PICK f : Chain(L, p, d, m, f)
    BY <1>2
  <2> DEFINE g == [k \in 0..(m + 1) |-> IF k = m + 1 THEN Before(L, p, f[m]) ELSE f[k]]
             h == [k \in 0..(m + 1) |-> IF k = 0 THEN {d} ELSE Before(L, p, g[k - 1])]
  <2>2. \A k \in 0..m : f[k] = IF k = 0 THEN {d} ELSE Before(L, p, f[k - 1])
    BY <2>1 DEF Chain
  <2>3. \A k \in 0..(m + 1) : g[k] = h[k]
    <3>1. TAKE k \in 0..(m + 1)
    <3>2. CASE k = m + 1
      BY <3>2
    <3>3. CASE k # m + 1
      <4>1. k \in 0..m /\ (k # 0 => k - 1 \in 0..m /\ k - 1 # m + 1 /\ k - 1 \in 0..(m + 1))
        BY <3>3
      <4>2. g[k] = f[k] /\ (k # 0 => g[k - 1] = f[k - 1])
        BY <3>3, <4>1
      <4>3. QED
        BY <2>2, <4>1, <4>2
    <3>4. QED
      BY <3>2, <3>3
  <2>4. g = h
    BY <2>3, Zenon
  <2>5. Chain(L, p, d, m + 1, g)
    BY <2>4, Zenon DEF Chain
  <2> HIDE DEF g
  <2>6. QED
    BY <2>5
<1>3. Nat \subseteq S
  <2> HIDE DEF S
  <2>1. QED
    BY <1>1, <1>2, NatSetInduction
<1>4. QED
  BY <1>3

(* In a ledger whose entries change links only, a chain keeps the text.    *)
LEMMA ChainKeepsText ==
  ASSUME NEW L, NEW p, NEW d, NEW n \in Nat, NEW f, Chain(L, p, d, n, f),
         \A r \in L : r.before.text = r.after.text
  PROVE  \A x \in f[n] : x.text = d.text
<1> DEFINE S == {m \in Nat : m <= n => \A x \in f[m] : x.text = d.text}
<1>1. \A k \in 0..n : f[k] = IF k = 0 THEN {d} ELSE Before(L, p, f[k - 1])
  BY DEF Chain
<1>2. 0 \in S
  BY <1>1
<1>3. ASSUME NEW m \in Nat, m \in S PROVE m + 1 \in S
  <2>1. SUFFICES ASSUME m + 1 <= n, NEW x \in f[m + 1] PROVE x.text = d.text
    OBVIOUS
  <2>2. f[m + 1] = Before(L, p, f[m])
    <3>1. m + 1 \in 0..n /\ m + 1 # 0 /\ (m + 1) - 1 = m
      BY <2>1
    <3>2. QED
      BY <1>1, <3>1
  <2>3. \A y \in f[m] : y.text = d.text
    BY <1>3, <2>1
  <2>4. QED
    BY <2>1, <2>2, <2>3 DEF Before
<1>4. Nat \subseteq S
  <2> HIDE DEF S
  <2>1. QED
    BY <1>2, <1>3, NatSetInduction
<1>5. QED
  BY <1>4

(* A content the ledger vouches for has the text of the note now           *)
(* (_rewrite_ledger.py:10-18).                                             *)
LEMMA VouchedKeepsText ==
  ASSUME LedgerKept, NEW p, NEW e, Vouched(p, e)
  PROVE  e.text = disk[p].text
<1>1. Cardinality(ledger) \in Nat
  BY FS_CardinalityType DEF LedgerKept
<1>2. PICK f : Chain(ledger, p, disk[p], Cardinality(ledger), f) /\ e \in f[Cardinality(ledger)]
  <2> DEFINE n == Cardinality(ledger)
             f == CHOOSE f : f = [k \in 0..n |-> IF k = 0 THEN {disk[p]}
                     ELSE f[k - 1] \cup {x.before : x \in {x \in ledger : x.path = p /\ x.after \in f[k - 1]}}]
  <2>1. e \in f[n]
    BY Zenon DEF Vouched
  <2>2. \E g : g = [k \in 0..n |-> IF k = 0 THEN {disk[p]}
                     ELSE g[k - 1] \cup {x.before : x \in {x \in ledger : x.path = p /\ x.after \in g[k - 1]}}]
    <3>1. PICK g : Chain(ledger, p, disk[p], n, g)
      BY <1>1, ChainExists
    <3>2. QED
      BY <3>1, Zenon DEF Chain, Before
  <2>3. f = [k \in 0..n |-> IF k = 0 THEN {disk[p]}
                     ELSE f[k - 1] \cup {x.before : x \in {x \in ledger : x.path = p /\ x.after \in f[k - 1]}}]
    BY <2>2, Zenon
  <2>4. Chain(ledger, p, disk[p], n, f)
    BY <2>3, Zenon DEF Chain, Before
  <2>5. QED
    BY <2>1, <2>4, Zenon
<1>3. \A r \in ledger : r.before.text = r.after.text
  BY DEF LedgerKept
<1>4. \A x \in f[Cardinality(ledger)] : x.text = disk[p].text
  <2>1. PICK n, L, d : n = Cardinality(ledger) /\ L = ledger /\ d = disk[p]
    OBVIOUS
  <2>2. n \in Nat /\ Chain(L, p, d, n, f)
    BY <1>1, <1>2, <2>1, Zenon
  <2>3. \A r \in L : r.before.text = r.after.text
    BY <1>3, <2>1, Zenon
  <2>4. \A x \in f[n] : x.text = d.text
    BY <2>2, <2>3, ChainKeepsText, SMT
  <2>5. QED
    BY <2>1, <2>4, Zenon
<1>5. QED
  BY <1>2, <1>4

-----------------------------------------------------------------------------
(* The moves, and the types.                                               *)

(* The backlinks of what moves are rows of the index (get_backlinks).      *)
LEMMA BacklinksTyped ==
  ASSUME VaultTyped, NEW M, M \subseteq Path
  PROVE  /\ Backlinks(M) \in Map
         /\ \A s \in DOMAIN Backlinks(M) : rows[s] \in M /\ Backlinks(M)[s] = rows[s]
         /\ \A s \in Path : rows[s] \in M => s \in DOMAIN Backlinks(M)
<1> DEFINE S == {s \in Path : rows[s] \in M}
<1>1. Backlinks(M) = [s \in S |-> rows[s]]
  BY DEF Backlinks
<1>2. [s \in S |-> rows[s]] \in [S -> Path] /\ S \subseteq Path
  OBVIOUS
<1>3. Backlinks(M) \in Map /\ DOMAIN Backlinks(M) = S
  BY <1>1, <1>2, MapOf
<1>4. QED
  BY <1>1, <1>3

(* rename begins with a text its caller has read, under an etag that       *)
(* matches or that the ledger vouches for (document.py:1224-1260).         *)
LEMMA RenameStarts ==
  ASSUME DocInv, NEW c \in Client, NEW r \in Renames, NEW l \in BOOLEAN,
         NEW e \in Etags(c, r[1]), BeginRename(c, r[1], r[2], e, l)
  PROVE  \E o \in Busy : TakeLock(c, o) /\ Starts(c, o)
<1> DEFINE old == r[1]
           new == r[2]
           m == [p \in {old} |-> new]
           k == IF l THEN Backlinks({old}) ELSE <<>>
           o == Moving(m, e, TRUE, l, k)
<1>1. old \in Path /\ new \in Path
  BY NotesAreContents
<1>2. TakeLock(c, o)
  BY DEF BeginRename
<1>3. e \in Content \cup {None}
  BY <1>1, EtagTyped DEF DocInv
<1>4. m \in Map /\ DOMAIN m = {old}
  <2>1. {old} \in SUBSET Path /\ m \in [{old} -> Path]
    BY <1>1
  <2>2. QED
    BY <2>1, MapOf
<1>5. /\ k \in Map
      /\ \A s \in DOMAIN k : rows[s] \in {old} /\ k[s] = rows[s]
      /\ l => \A s \in Path : rows[s] \in {old} => s \in DOMAIN k
  BY <1>1, BacklinksTyped, EmptyMap DEF DocInv
<1>6. o \in Busy
  <2>1. TRUE \in BOOLEAN
    OBVIOUS
  <2>2. QED
    BY <1>3, <1>4, <1>5, <2>1, MovingTyped
<1>7. e # None => disk[old].text = e.text
  <2>1. CASE CheckIfMatch(old, e)
    BY <2>1 DEF CheckIfMatch
  <2>2. CASE Vouched(old, e)
    BY <2>2, VouchedKeepsText DEF DocInv
  <2>3. QED
    BY <2>1, <2>2 DEF BeginRename
<1>8. l => c \in ready
  BY DEF BeginRename
<1>9. disk[new] = Absent /\ new # old
  BY DEF BeginRename
<1>10. Starts(c, o)
  <2>1. /\ o.step = "move" /\ o.failed = {} /\ o.read = None /\ o.todo = DOMAIN m /\ o.links = l /\ o.base = e
        /\ o.map = m /\ o.back = k
    BY DEF Moving
  <2> HIDE DEF o, k
  <2>2. QED
    BY <1>4, <1>5, <1>7, <1>8, <1>9, <2>1 DEF Starts
<1>11. QED
  BY <1>2, <1>6, <1>10

(* move_folder begins with the notes it found in the folder (document.py:  *)
(* 1640-1700).                                                             *)
LEMMA FolderStarts ==
  ASSUME DocInv, NEW c \in Client, BeginMoveFolder(c)
  PROVE  \E o \in Busy : TakeLock(c, o) /\ Starts(c, o)
<1> DEFINE files == {p \in DOMAIN Folder : disk[p] # Absent}
           m == [p \in files |-> Folder[p]]
           o == Moving(m, None, FALSE, TRUE, Backlinks(files))
<1>1. files \subseteq Path
  BY FolderMovesAway
<1>2. TakeLock(c, o) /\ c \in ready /\ \A p \in files : disk[Folder[p]] = Absent
  BY DEF BeginMoveFolder
<1>3. m \in Map /\ DOMAIN m = files
  <2>1. files \in SUBSET Path /\ m \in [files -> Path]
    BY <1>1, FolderMovesAway
  <2>2. QED
    BY <2>1, MapOf
<1>4. /\ Backlinks(files) \in Map
      /\ \A s \in DOMAIN Backlinks(files) : rows[s] \in files /\ Backlinks(files)[s] = rows[s]
      /\ \A s \in Path : rows[s] \in files => s \in DOMAIN Backlinks(files)
  BY <1>1, BacklinksTyped DEF DocInv
<1>5. o \in Busy
  <2>1. TRUE \in BOOLEAN /\ FALSE \in BOOLEAN /\ None \in Content \cup {None}
    OBVIOUS
  <2>2. QED
    BY <1>3, <1>4, <2>1, MovingTyped
<1>6. Starts(c, o)
  <2>1. /\ o.step = "move" /\ o.failed = {} /\ o.read = None /\ o.todo = DOMAIN m /\ o.links = TRUE
        /\ o.base = None /\ o.map = m /\ o.back = Backlinks(files)
    BY DEF Moving
  <2>2. \A p \in files : m[p] = Folder[p] /\ Folder[p] \notin files
    BY FolderMovesAway
  <2>3. \A p, q \in files : m[p] = m[q] => p = q
    BY <2>2, FolderMovesAway
  <2> HIDE DEF o, m, files
  <2>4. QED
    BY <1>2, <1>3, <1>4, <2>1, <2>2, <2>3 DEF Starts
<1>7. QED
  BY <1>2, <1>5, <1>6

(* Every call takes the lock with an operation of its own (write_scope).   *)
LEMMA CallStarts ==
  ASSUME DocInv, NEW c \in Client, Call(c)
  PROVE  \E o \in Busy : TakeLock(c, o) /\ Starts(c, o)
<1>1. ASSUME NEW p \in Path, NEW e \in Etags(c, p), NEW x \in Saved, BeginWrite(c, p, x, e)
      PROVE  \E o \in Busy : TakeLock(c, o) /\ Starts(c, o)
  BY <1>1, WriteStarts
<1>2. ASSUME NEW p \in Path, NEW e \in Etags(c, p), BeginEdit(c, p, e)
      PROVE  \E o \in Busy : TakeLock(c, o) /\ Starts(c, o)
  BY <1>2, EditStarts
<1>3. ASSUME NEW p \in Path, NEW e \in Etags(c, p), BeginDelete(c, p, e)
      PROVE  \E o \in Busy : TakeLock(c, o) /\ Starts(c, o)
  BY <1>3, DeleteStarts
<1>4. ASSUME NEW r \in Renames, NEW l \in BOOLEAN, NEW e \in Etags(c, r[1]),
             BeginRename(c, r[1], r[2], e, l)
      PROVE  \E o \in Busy : TakeLock(c, o) /\ Starts(c, o)
  BY <1>4, RenameStarts
<1>5. CASE BeginMoveFolder(c)
  BY <1>5, FolderStarts
<1>6. QED
  BY <1>1, <1>2, <1>3, <1>4, <1>5, Zenon DEF Call

-----------------------------------------------------------------------------
(* The steps of an operation.                                              *)

(* What an operation keeps from its beginning to its end, and what its     *)
(* steps change.                                                           *)
Alike(o, q) ==
  o.path = q.path /\ o.base = q.base /\ o.put = q.put /\ o.map = q.map /\ o.rename = q.rename
  /\ o.links = q.links
WithStep(o, x) == [o EXCEPT !.step = x]
WithBack(o, x) == [o EXCEPT !.back = x]
WithTodo(o, x) == [o EXCEPT !.todo = x]
WithRead(o, x) == [o EXCEPT !.read = x]
WithDone(o, x) == [o EXCEPT !.done = x]
WithFailed(o, x) == [o EXCEPT !.failed = x]

(* A change of step leaves the other fields (write_scope's local state).   *)
LEMMA SetStep ==
  ASSUME NEW o \in Busy, NEW x \in {"edit", "replace", "move", "rewrite", "mark", "fire", "prune"}
  PROVE  /\ WithStep(o, x) \in Busy /\ Alike(WithStep(o, x), o) /\ WithStep(o, x).step = x
         /\ WithStep(o, x).back = o.back /\ WithStep(o, x).todo = o.todo
         /\ WithStep(o, x).read = o.read /\ WithStep(o, x).done = o.done
         /\ WithStep(o, x).failed = o.failed
  BY DEF Busy, Alike, WithStep

(* A change of back leaves the other fields (write_scope's local state).   *)
LEMMA SetBack ==
  ASSUME NEW o \in Busy, NEW x \in Map
  PROVE  /\ WithBack(o, x) \in Busy /\ Alike(WithBack(o, x), o) /\ WithBack(o, x).back = x
         /\ WithBack(o, x).step = o.step /\ WithBack(o, x).todo = o.todo
         /\ WithBack(o, x).read = o.read /\ WithBack(o, x).done = o.done
         /\ WithBack(o, x).failed = o.failed
  BY DEF Busy, Alike, WithBack

(* A change of todo leaves the other fields (write_scope's local state).   *)
LEMMA SetTodo ==
  ASSUME NEW o \in Busy, NEW x, x \subseteq Path
  PROVE  /\ WithTodo(o, x) \in Busy /\ Alike(WithTodo(o, x), o) /\ WithTodo(o, x).todo = x
         /\ WithTodo(o, x).step = o.step /\ WithTodo(o, x).back = o.back
         /\ WithTodo(o, x).read = o.read /\ WithTodo(o, x).done = o.done
         /\ WithTodo(o, x).failed = o.failed
  BY DEF Busy, Alike, WithTodo

(* A change of read leaves the other fields (write_scope's local state).   *)
LEMMA SetRead ==
  ASSUME NEW o \in Busy, NEW x \in {None} \cup [at : Path, was : Content]
  PROVE  /\ WithRead(o, x) \in Busy /\ Alike(WithRead(o, x), o) /\ WithRead(o, x).read = x
         /\ WithRead(o, x).step = o.step /\ WithRead(o, x).back = o.back
         /\ WithRead(o, x).todo = o.todo /\ WithRead(o, x).done = o.done
         /\ WithRead(o, x).failed = o.failed
  BY DEF Busy, Alike, WithRead

(* A change of done leaves the other fields (write_scope's local state).   *)
LEMMA SetDone ==
  ASSUME NEW o \in Busy, NEW x, x \subseteq Path
  PROVE  /\ WithDone(o, x) \in Busy /\ Alike(WithDone(o, x), o) /\ WithDone(o, x).done = x
         /\ WithDone(o, x).step = o.step /\ WithDone(o, x).back = o.back
         /\ WithDone(o, x).todo = o.todo /\ WithDone(o, x).read = o.read
         /\ WithDone(o, x).failed = o.failed
  BY DEF Busy, Alike, WithDone

(* A change of failed leaves the other fields (write_scope's local state). *)
LEMMA SetFailed ==
  ASSUME NEW o \in Busy, NEW x, x \subseteq Path
  PROVE  /\ WithFailed(o, x) \in Busy /\ Alike(WithFailed(o, x), o) /\ WithFailed(o, x).failed = x
         /\ WithFailed(o, x).step = o.step /\ WithFailed(o, x).back = o.back
         /\ WithFailed(o, x).todo = o.todo /\ WithFailed(o, x).read = o.read
         /\ WithFailed(o, x).done = o.done
  BY DEF Busy, Alike, WithFailed

(* Who is in an operation holds the lock, and nobody else is in one        *)
(* (write_scope).                                                          *)
LEMMA Alone ==
  ASSUME DocInv, NEW c \in Client, op[c].step # "rest"
  PROVE  lock = c /\ op[c] \in Busy /\ \A d \in Client : d # c => op[d].step = "rest"
<1>1. lock = c /\ \A d \in Client : d # c => op[d].step = "rest"
  BY DEF DocInv, LockIsHeld
<1>2. op[c] \in Busy
  BY DEF DocInv, ClientsTyped, Rest
<1>3. QED
  BY <1>1, <1>2

(* An operation is never at rest, and Rest is.                             *)
LEMMA BusyIsBusy == Rest.step = "rest" /\ \A o \in Busy : o.step # "rest"
  BY DEF Rest, Busy

(* atomic_write or unlink, the marks and fire change the step only.        *)
LEMMA StepMoves ==
  ASSUME DocInv, NEW c \in Client, op[c].step # "rest",
         NEW x \in {"edit", "replace", "move", "rewrite", "mark", "fire", "prune"},
         op' = [op EXCEPT ![c].step = x]
  PROVE  \E o \in Busy :
           /\ op' = [op EXCEPT ![c] = o] /\ Alike(o, op[c]) /\ o.step = x
           /\ o.back = op[c].back /\ o.todo = op[c].todo /\ o.read = op[c].read
           /\ o.done = op[c].done /\ o.failed = op[c].failed
<1>1. op' = [op EXCEPT ![c] = WithStep(op[c], x)]
  BY DEF WithStep
<1>2. op[c] \in Busy
  BY Alone
<1>3. PICK o : o = WithStep(op[c], x)
  OBVIOUS
<1>4. /\ o \in Busy /\ Alike(o, op[c]) /\ o.step = x /\ o.back = op[c].back
      /\ o.todo = op[c].todo /\ o.read = op[c].read /\ o.done = op[c].done
      /\ o.failed = op[c].failed
  BY <1>2, <1>3, SetStep
<1>5. QED
  BY <1>1, <1>3, <1>4

(* shutil.move of one file.                                                *)
LEMMA MoveMoves ==
  ASSUME DocInv, NEW c \in Client, NEW p \in Path, MoveFile(c, p)
  PROVE  \E o \in Busy :
           /\ op' = [op EXCEPT ![c] = o] /\ Alike(o, op[c]) /\ o.step = "move"
           /\ o.back = op[c].back /\ o.todo = op[c].todo \ {p} /\ o.read = op[c].read
           /\ o.done = op[c].done /\ o.failed = op[c].failed
<1>1. PICK T : T = op[c].todo \ {p}
  OBVIOUS
<1>2. op' = [op EXCEPT ![c] = WithTodo(op[c], T)] /\ op[c].step = "move"
  BY <1>1 DEF MoveFile, WithTodo
<1>3. op[c] \in Busy
  BY <1>2, Alone
<1>4. T \subseteq Path
  BY <1>1, <1>3 DEF Busy
<1>5. PICK o : o = WithTodo(op[c], T)
  OBVIOUS
<1>6. /\ o \in Busy /\ Alike(o, op[c]) /\ o.step = op[c].step /\ o.back = op[c].back
      /\ o.todo = T /\ o.read = op[c].read /\ o.done = op[c].done
      /\ o.failed = op[c].failed
  BY <1>3, <1>4, <1>5, SetTodo
<1>7. QED
  BY <1>1, <1>2, <1>5, <1>6

(* The list of the sources to rewrite, each under its present name         *)
(* (document.py:1331-1344).                                                *)
LEMMA SourcesMoves ==
  ASSUME DocInv, NEW c \in Client, MovesDone(c), ~Raise(c)
  PROVE  \E o \in Busy :
           /\ op' = [op EXCEPT ![c] = o] /\ Alike(o, op[c]) /\ o.step = "rewrite"
           /\ o.todo = {Source(op[c].map, s) : s \in DOMAIN op[c].back}
           /\ DOMAIN o.back = o.todo
           /\ \A s \in o.todo : o.back[s] =
                op[c].back[CHOOSE q \in DOMAIN op[c].back : Source(op[c].map, q) = s]
           /\ o.read = op[c].read /\ o.done = op[c].done /\ o.failed = op[c].failed
<1> DEFINE map == op[c].map
           back == op[c].back
           sources == {Source(map, s) : s \in DOMAIN back}
           found == [s \in sources |-> back[CHOOSE q \in DOMAIN back : Source(map, q) = s]]
<1>1. op[c].step = "move"
  BY DEF MovesDone
<1>2. op[c] \in Busy
  BY <1>1, Alone
<1>3. map \in Map /\ back \in Map
  BY <1>2 DEF Busy
<1>4. sources \subseteq Path
  BY <1>3, MapPaths DEF Source
<1>5. found \in Map
  <2>1. \A s \in sources : \E q \in DOMAIN back : Source(map, q) = s
    OBVIOUS
  <2>2. \A s \in sources : back[CHOOSE q \in DOMAIN back : Source(map, q) = s] \in Path
    BY <1>3, <2>1, MapPaths
  <2>3. found \in [sources -> Path]
    BY <2>2
  <2>4. QED
    BY <1>4, <2>3, MapOf
<1>6. PICK T : T = sources
  OBVIOUS
<1>7. PICK B : B = found
  OBVIOUS
<1>8. op' = [op EXCEPT ![c].step = "rewrite", ![c].todo = T, ![c].back = B]
  BY <1>6, <1>7 DEF MovesDone
<1>9. op' = [op EXCEPT ![c] = WithBack(WithTodo(WithStep(op[c], "rewrite"), T), B)]
  BY <1>8 DEF WithBack, WithTodo, WithStep
<1>10. PICK o1 : o1 = WithStep(op[c], "rewrite")
  OBVIOUS
<1>11. PICK o2 : o2 = WithTodo(o1, T)
  OBVIOUS
<1>12. PICK o : o = WithBack(o2, B)
  OBVIOUS
<1>13. /\ o1 \in Busy /\ Alike(o1, op[c]) /\ o1.step = "rewrite" /\ o1.back = op[c].back
       /\ o1.read = op[c].read /\ o1.done = op[c].done /\ o1.failed = op[c].failed
  BY <1>2, <1>10, SetStep
<1>14. /\ o2 \in Busy /\ Alike(o2, o1) /\ o2.step = o1.step /\ o2.todo = T
       /\ o2.read = o1.read /\ o2.done = o1.done /\ o2.failed = o1.failed
  BY <1>4, <1>6, <1>11, <1>13, SetTodo
<1>15. /\ o \in Busy /\ Alike(o, o2) /\ o.step = o2.step /\ o.todo = o2.todo /\ o.back = B
       /\ o.read = o2.read /\ o.done = o2.done /\ o.failed = o2.failed
  BY <1>5, <1>7, <1>12, <1>14, SetBack
<1>16. Alike(o, op[c])
  BY <1>13, <1>14, <1>15 DEF Alike
<1>17. DOMAIN B = T /\ \A s \in T : B[s] = back[CHOOSE q \in DOMAIN back : Source(map, q) = s]
  BY <1>6, <1>7
<1>18. op' = [op EXCEPT ![c] = o]
  BY <1>9, <1>10, <1>11, <1>12
<1>19. /\ o \in Busy /\ o.step = "rewrite" /\ o.todo = T /\ o.back = B
       /\ o.read = op[c].read /\ o.done = op[c].done /\ o.failed = op[c].failed
  BY <1>13, <1>14, <1>15
<1>20. /\ o.todo = sources /\ DOMAIN o.back = o.todo
       /\ \A s \in o.todo : o.back[s] = back[CHOOSE q \in DOMAIN back : Source(map, q) = s]
  BY <1>6, <1>17, <1>19
<1>21. QED
  BY <1>16, <1>18, <1>19, <1>20, Zenon

(* _rewrite_one_source, its read: the source is held or dropped.           *)
LEMMA ReadMoves ==
  ASSUME DocInv, NEW c \in Client, NEW s \in Path, RewriteRead(c, s)
  PROVE  \E o \in Busy :
           /\ op' = [op EXCEPT ![c] = o] /\ Alike(o, op[c]) /\ o.step = "rewrite"
           /\ o.back = op[c].back /\ o.done = op[c].done /\ o.failed = op[c].failed
           /\ \/ /\ disk[s] \in Content /\ disk[s].to = op[c].back[s]
                 /\ o.read = [at |-> s, was |-> disk[s]] /\ o.todo = op[c].todo
              \/ /\ ~(disk[s] \in Content /\ disk[s].to = op[c].back[s])
                 /\ o.read = op[c].read /\ o.todo = op[c].todo \ {s}
<1>1. op[c].step = "rewrite"
  BY DEF RewriteRead
<1>2. op[c] \in Busy
  BY <1>1, Alone
<1>3. CASE disk[s] \in Content /\ disk[s].to = op[c].back[s]
  <2>1. PICK x : x = [at |-> s, was |-> disk[s]]
    OBVIOUS
  <2>2. x \in {None} \cup [at : Path, was : Content]
    BY <1>3, <2>1
  <2>3. op' = [op EXCEPT ![c] = WithRead(op[c], x)]
    BY <1>3, <2>1 DEF RewriteRead, WithRead
  <2>4. PICK o : o = WithRead(op[c], x)
    OBVIOUS
  <2>5. /\ o \in Busy /\ Alike(o, op[c]) /\ o.step = op[c].step /\ o.back = op[c].back
        /\ o.todo = op[c].todo /\ o.read = x /\ o.done = op[c].done /\ o.failed = op[c].failed
    BY <1>2, <2>2, <2>4, SetRead
  <2>6. QED
    BY <1>1, <1>3, <2>1, <2>3, <2>4, <2>5
<1>4. CASE ~(disk[s] \in Content /\ disk[s].to = op[c].back[s])
  <2>1. PICK x : x = op[c].todo \ {s}
    OBVIOUS
  <2>2. x \subseteq Path
    BY <1>2, <2>1 DEF Busy
  <2>3. op' = [op EXCEPT ![c] = WithTodo(op[c], x)]
    BY <1>4, <2>1 DEF RewriteRead, WithTodo
  <2>4. PICK o : o = WithTodo(op[c], x)
    OBVIOUS
  <2>5. /\ o \in Busy /\ Alike(o, op[c]) /\ o.step = op[c].step /\ o.back = op[c].back
        /\ o.todo = x /\ o.read = op[c].read /\ o.done = op[c].done /\ o.failed = op[c].failed
    BY <1>2, <2>2, <2>4, SetTodo
  <2>6. QED
    BY <1>1, <1>4, <2>1, <2>3, <2>4, <2>5
<1>5. QED
  BY <1>3, <1>4

(* A source is off the list (_rewrite_one_source).                         *)
LEMMA Dropped ==
  ASSUME NEW o \in Busy, NEW T, T \subseteq Path, NEW q, q = WithTodo(WithRead(o, None), T)
  PROVE  /\ q \in Busy /\ Alike(q, o) /\ q.step = o.step /\ q.back = o.back
         /\ q.read = None /\ q.todo = T /\ q.done = o.done /\ q.failed = o.failed
<1>1. PICK o1 : o1 = WithRead(o, None)
  OBVIOUS
<1>2. /\ o1 \in Busy /\ Alike(o1, o) /\ o1.step = o.step /\ o1.back = o.back
      /\ o1.read = None /\ o1.done = o.done /\ o1.failed = o.failed
  BY <1>1, SetRead
<1>3. /\ q \in Busy /\ Alike(q, o1) /\ q.step = o1.step /\ q.back = o1.back
      /\ q.read = o1.read /\ q.todo = T /\ q.done = o1.done /\ q.failed = o1.failed
  BY <1>1, <1>2, SetTodo
<1>4. QED
  BY <1>2, <1>3 DEF Alike

(* _rewrite_one_source, its write.                                         *)
LEMMA RewriteMoves ==
  ASSUME DocInv, NEW c \in Client, RewriteReplace(c)
  PROVE  \E o \in Busy :
           /\ op' = [op EXCEPT ![c] = o] /\ Alike(o, op[c]) /\ o.step = "rewrite"
           /\ o.back = op[c].back /\ o.read = None /\ o.todo = op[c].todo \ {op[c].read.at}
           /\ o.done = op[c].done \cup {op[c].read.at} /\ o.failed = op[c].failed
<1>1. op[c].step = "rewrite" /\ op[c].read # None
  BY DEF RewriteReplace
<1>2. op[c] \in Busy
  BY <1>1, Alone
<1>3. op[c].read.at \in Path
  BY <1>1, <1>2 DEF Busy
<1>4. PICK T : T = op[c].todo \ {op[c].read.at}
  OBVIOUS
<1>5. PICK X : X = op[c].done \cup {op[c].read.at}
  OBVIOUS
<1>6. T \subseteq Path /\ X \subseteq Path
  BY <1>2, <1>3, <1>4, <1>5 DEF Busy
<1>7. op' = [op EXCEPT ![c].read = None, ![c].todo = T, ![c].done = X]
  BY <1>4, <1>5 DEF RewriteReplace
<1>8. PICK o2 : o2 = WithTodo(WithRead(op[c], None), T)
  OBVIOUS
<1>9. PICK o : o = WithDone(o2, X)
  OBVIOUS
<1>10. op' = [op EXCEPT ![c] = o]
  BY <1>7, <1>8, <1>9 DEF WithTodo, WithRead, WithDone
<1>11. /\ o2 \in Busy /\ Alike(o2, op[c]) /\ o2.step = op[c].step /\ o2.back = op[c].back
       /\ o2.read = None /\ o2.todo = T /\ o2.done = op[c].done /\ o2.failed = op[c].failed
  BY <1>2, <1>6, <1>8, Dropped
<1>12. /\ o \in Busy /\ Alike(o, o2) /\ o.step = o2.step /\ o.back = o2.back
       /\ o.read = o2.read /\ o.todo = o2.todo /\ o.done = X /\ o.failed = o2.failed
  BY <1>6, <1>9, <1>11, SetDone
<1>13. Alike(o, op[c])
  BY <1>11, <1>12 DEF Alike
<1>14. QED
  BY <1>1, <1>4, <1>5, <1>10, <1>11, <1>12, <1>13

(* A source fails (_rewrite_link_sources).                                 *)
LEMMA FailMoves ==
  ASSUME DocInv, NEW c \in Client, NEW s \in Path, GivesUp(c, s)
  PROVE  \E o \in Busy :
           /\ op' = [op EXCEPT ![c] = o] /\ Alike(o, op[c]) /\ o.step = "rewrite"
           /\ o.back = op[c].back /\ o.read = None /\ o.todo = op[c].todo \ {s}
           /\ o.failed = op[c].failed \cup {s} /\ o.done = op[c].done
<1>1. op[c].step = "rewrite"
  BY DEF GivesUp
<1>2. op[c] \in Busy
  BY <1>1, Alone
<1>3. s \in Path
  OBVIOUS
<1>4. PICK T : T = op[c].todo \ {s}
  OBVIOUS
<1>5. PICK X : X = op[c].failed \cup {s}
  OBVIOUS
<1>6. T \subseteq Path /\ X \subseteq Path
  BY <1>2, <1>3, <1>4, <1>5 DEF Busy
<1>7. op' = [op EXCEPT ![c].read = None, ![c].todo = T, ![c].failed = X]
  BY <1>4, <1>5 DEF GivesUp
<1>8. PICK o2 : o2 = WithTodo(WithRead(op[c], None), T)
  OBVIOUS
<1>9. PICK o : o = WithFailed(o2, X)
  OBVIOUS
<1>10. op' = [op EXCEPT ![c] = o]
  BY <1>7, <1>8, <1>9 DEF WithTodo, WithRead, WithFailed
<1>11. /\ o2 \in Busy /\ Alike(o2, op[c]) /\ o2.step = op[c].step /\ o2.back = op[c].back
       /\ o2.read = None /\ o2.todo = T /\ o2.done = op[c].done /\ o2.failed = op[c].failed
  BY <1>2, <1>6, <1>8, Dropped
<1>12. /\ o \in Busy /\ Alike(o, o2) /\ o.step = o2.step /\ o.back = o2.back
       /\ o.read = o2.read /\ o.todo = o2.todo /\ o.failed = X /\ o.done = o2.done
  BY <1>6, <1>9, <1>11, SetFailed
<1>13. Alike(o, op[c])
  BY <1>11, <1>12 DEF Alike
<1>14. QED
  BY <1>1, <1>4, <1>5, <1>10, <1>11, <1>12, <1>13

-----------------------------------------------------------------------------
(* Steps that leave every operation where it is.                           *)

(* While an operation stays where it is, its notes follow as before, but   *)
(* for those it learns of.                                                 *)
LEMMA FollowKept ==
  ASSUME NEW d \in Client, NEW s \in Path, op'[d] = op[d], late[d] \subseteq late'[d],
         disk'[s] = disk[s] \/ s \in late'[d],
         Links(d, s) => Passed(d, s) \/ Following(d, s)
  PROVE  (Links(d, s) => Passed(d, s) \/ Following(d, s))'
<1>1. CASE s \in late'[d]
  BY <1>1 DEF Passed
<1>2. CASE s \notin late'[d]
  <2>1. disk'[s] = disk[s]
    BY <1>2
  <2>2. Links(d, s)' => Links(d, s)
    BY <2>1 DEF Links
  <2>3. Passed(d, s) => Passed(d, s)'
    BY DEF Passed
  <2>4. Following(d, s) => Following(d, s)'
    BY <2>1 DEF Following
  <2>5. QED
    BY <2>2, <2>3, <2>4
<1>3. QED
  BY <1>1, <1>2

(* The same for an operation's list of backlinks.                          *)
LEMMA ListKept ==
  ASSUME DocInv, op' = op, \A d \in Client : op[d].step # "rest" => late[d] \subseteq late'[d]
  PROVE  BackKept'
<1>1. SUFFICES ASSUME NEW d \in Client, op[d].step # "rest", late[d] \subseteq late'[d]
               PROVE  /\ op[d].step \in {"move", "rewrite"} =>
                           \A s \in DOMAIN op[d].back : op[d].back[s] \in DOMAIN op[d].map
                      /\ op[d].step = "rewrite" => op[d].todo \subseteq DOMAIN op[d].back
                      /\ op[d].step = "rewrite" /\ op[d].read # None =>
                           op[d].read.at \in op[d].todo /\ op[d].read.was.to \in DOMAIN op[d].map
                      /\ op[d].step = "move" =>
                           op[d].failed = {} /\ op[d].read = None /\ (op[d].links =>
                             \A q \in DOMAIN op[d].map :
                               op[d].map[q] \in DOMAIN op[d].back => op[d].map[q] \in late'[d])
  BY DEF BackKept
<1>2. QED
  BY <1>1 DEF DocInv, BackKept

(* A client reads, or the ledger forgets: nothing else changes.            *)
LEMMA Unmoved ==
  ASSUME DocInv, UNCHANGED <<disk, rows, dirty, lock, op, ready, late, outside, touched, unsaid,
                             broken>>
  PROVE  /\ VaultTyped' /\ LockIsHeld' /\ MovesAway' /\ CheckedStands' /\ RowsTold'
         /\ UnsaidIsHeld' /\ FreshRows' /\ BackKept' /\ LinksWillFollow'
<1>1. VaultTyped' /\ LockIsHeld' /\ MovesAway' /\ CheckedStands'
  BY DEF DocInv, VaultTyped, LockIsHeld, MovesAway, CheckedStands
<1>2. RowsTold' /\ UnsaidIsHeld' /\ FreshRows'
  BY DEF DocInv, RowsTold, UnsaidIsHeld, FreshRows
<1>3. BackKept'
  BY ListKept
<1>4. LinksWillFollow'
  <2>1. SUFFICES ASSUME NEW d \in Client,
                        op[d].step \in {"move", "rewrite", "mark", "fire", "prune"}, op[d].links,
                        NEW s \in Path
                 PROVE  (Links(d, s) => Passed(d, s) \/ Following(d, s))'
    BY DEF LinksWillFollow
  <2>2. Links(d, s) => Passed(d, s) \/ Following(d, s)
    BY <2>1 DEF DocInv, LinksWillFollow
  <2>3. QED
    BY <2>2, FollowKept
<1>5. QED
  BY <1>1, <1>2, <1>3, <1>4

(* A client reads a note with its etag.                                    *)
LEMMA ClientReadsStep ==
  ASSUME DocInv, NEW c \in Client, NEW p \in Path, ClientReads(c, p)
  PROVE  DocInv'
<1>1. UNCHANGED <<disk, rows, dirty, lock, op, ready, late, outside, touched, unsaid, broken>>
      /\ UNCHANGED <<ledger, ops, mishaps>>
  BY DEF ClientReads
<1>2. known' \in [Client -> {None} \cup [path : Path, etag : Content]]
  BY DEF ClientReads, DocInv, ClientsTyped
<1>3. ClientsTyped' /\ CountsTyped' /\ LedgerKept'
  BY <1>1, <1>2 DEF DocInv, ClientsTyped, CountsTyped, LedgerKept
<1>4. QED
  BY <1>1, <1>3, Unmoved DEF DocInv

(* An entry of the ledger expires or is evicted (_expire).                 *)
LEMMA ForgetStep ==
  ASSUME DocInv, NEW e \in ledger, Forget(e)
  PROVE  DocInv'
<1>1. UNCHANGED <<disk, rows, dirty, lock, op, ready, late, outside, touched, unsaid, broken>>
      /\ UNCHANGED <<known, ops, mishaps>> /\ ledger' = ledger \ {e}
  BY DEF Forget
<1>2. LedgerKept'
  <2>1. IsFiniteSet(ledger')
    BY <1>1, FS_Difference DEF DocInv, LedgerKept
  <2>2. QED
    BY <1>1, <2>1 DEF DocInv, LedgerKept
<1>3. ClientsTyped' /\ CountsTyped'
  BY <1>1 DEF DocInv, ClientsTyped, CountsTyped
<1>4. QED
  BY <1>1, <1>2, <1>3, Unmoved DEF DocInv

(* A call that had refreshed is refused: it was in no operation.           *)
LEMMA RefusedStep ==
  ASSUME DocInv, NEW c \in Client, Refused(c)
  PROVE  DocInv'
<1>1. /\ UNCHANGED <<disk, rows, dirty, ledger, lock, op, known, outside, touched, unsaid, broken,
                     ops, mishaps>>
      /\ op[c].step = "rest" /\ ready' = ready \ {c} /\ late' = [late EXCEPT ![c] = {}]
  BY DEF Refused
<1>2. /\ late' \in [Client -> SUBSET Path] /\ ready' \subseteq Client
      /\ \A d \in Client : d # c => late'[d] = late[d]
  BY <1>1 DEF DocInv, ClientsTyped
<1>3. VaultTyped' /\ CountsTyped' /\ LedgerKept' /\ LockIsHeld' /\ MovesAway' /\ CheckedStands'
  BY <1>1 DEF DocInv, VaultTyped, CountsTyped, LedgerKept, LockIsHeld, MovesAway, CheckedStands
<1>4. ClientsTyped'
  BY <1>1, <1>2 DEF DocInv, ClientsTyped
<1>5. RowsTold' /\ UnsaidIsHeld'
  BY <1>1 DEF DocInv, RowsTold, UnsaidIsHeld
<1>6. FreshRows'
  BY <1>1, <1>2 DEF DocInv, FreshRows
<1>7. BackKept'
  <2>1. \A d \in Client : op[d].step # "rest" => late[d] \subseteq late'[d]
    BY <1>1, <1>2
  <2>2. QED
    BY <1>1, <2>1, ListKept
<1>8. LinksWillFollow'
  <2>1. SUFFICES ASSUME NEW d \in Client,
                        op[d].step \in {"move", "rewrite", "mark", "fire", "prune"}, op[d].links,
                        NEW s \in Path
                 PROVE  (Links(d, s) => Passed(d, s) \/ Following(d, s))'
    BY <1>1 DEF LinksWillFollow
  <2>2. Links(d, s) => Passed(d, s) \/ Following(d, s)
    BY <2>1 DEF DocInv, LinksWillFollow
  <2>3. late'[d] = late[d]
    BY <1>1, <1>2, <2>1
  <2>4. QED
    BY <1>1, <2>2, <2>3, FollowKept
<1>9. QED
  BY <1>3, <1>4, <1>5, <1>6, <1>7, <1>8 DEF DocInv

(* The index catches up: what it leaves out of date it leaves marked, or   *)
(* changed outside, or to an operation (process_dirty_paths).              *)
LEMMA CatchUpRows ==
  ASSUME DocInv, CatchUp, UNCHANGED <<disk, op, unsaid, broken>>
  PROVE  /\ VaultTyped' /\ RowsTold'
         /\ \A p \in Path : rows'[p] # LinkOf(disk[p]) => rows[p] # LinkOf(disk[p])
<1>1. \A p \in Path : LinkOf(disk[p]) \in Path \cup {None}
  BY DEF LinkOf, Content
<1>2. rows' \in [Path -> Path \cup {None}]
  BY <1>1 DEF CatchUp, DocInv, VaultTyped
<1>3. VaultTyped'
  BY <1>2 DEF CatchUp, DocInv, VaultTyped
<1>4. \A p \in Path : rows'[p] # LinkOf(disk[p]) =>
        rows[p] # LinkOf(disk[p]) /\ (p \in dirty => p \in dirty')
  BY DEF CatchUp
<1>5. RowsTold'
  BY <1>4 DEF CatchUp, DocInv, RowsTold
<1>6. QED
  BY <1>3, <1>4, <1>5

(* The writer thread runs its refresh job (process_dirty_paths).           *)
LEMMA IndexCatchesUpStep ==
  ASSUME DocInv, IndexCatchesUp
  PROVE  DocInv'
<1>1. /\ UNCHANGED <<disk, ledger, lock, op, known, late, ready, touched, unsaid, broken, ops,
                     mishaps>>
      /\ CatchUp
  BY DEF IndexCatchesUp
<1>2. /\ VaultTyped' /\ RowsTold'
      /\ \A p \in Path : rows'[p] # LinkOf(disk[p]) => rows[p] # LinkOf(disk[p])
  BY <1>1, CatchUpRows
<1>3. /\ ClientsTyped' /\ CountsTyped' /\ LedgerKept' /\ LockIsHeld' /\ MovesAway'
      /\ CheckedStands' /\ UnsaidIsHeld'
  BY <1>1 DEF DocInv, ClientsTyped, CountsTyped, LedgerKept, LockIsHeld, MovesAway, CheckedStands,
              UnsaidIsHeld
<1>4. FreshRows'
  BY <1>1, <1>2 DEF DocInv, FreshRows
<1>5. BackKept'
  BY <1>1, ListKept
<1>6. LinksWillFollow'
  <2>1. SUFFICES ASSUME NEW d \in Client,
                        op[d].step \in {"move", "rewrite", "mark", "fire", "prune"}, op[d].links,
                        NEW s \in Path
                 PROVE  (Links(d, s) => Passed(d, s) \/ Following(d, s))'
    BY <1>1 DEF LinksWillFollow
  <2>2. Links(d, s) => Passed(d, s) \/ Following(d, s)
    BY <2>1 DEF DocInv, LinksWillFollow
  <2>3. QED
    BY <1>1, <2>2, FollowKept
<1>7. QED
  BY <1>2, <1>3, <1>4, <1>5, <1>6 DEF DocInv

(* ensure_index_current: nothing is marked when it returns, so every row   *)
(* that differs from its file is one it cannot know of.                    *)
LEMMA RefreshStep ==
  ASSUME DocInv, NEW c \in Client, Refresh(c)
  PROVE  DocInv'
<1>1. /\ UNCHANGED <<disk, ledger, lock, op, known, touched, unsaid, broken, ops, mishaps>>
      /\ CatchUp /\ dirty' = {} /\ op[c].step = "rest" /\ ready' = ready \cup {c}
      /\ late' = [late EXCEPT ![c] = outside' \cup broken \cup unsaid]
  BY DEF Refresh
<1>2. /\ VaultTyped' /\ RowsTold'
      /\ \A p \in Path : rows'[p] # LinkOf(disk[p]) => rows[p] # LinkOf(disk[p])
  BY <1>1, CatchUpRows
<1>3. /\ CountsTyped' /\ LedgerKept' /\ LockIsHeld' /\ MovesAway'
      /\ CheckedStands' /\ UnsaidIsHeld'
  BY <1>1 DEF DocInv, CountsTyped, LedgerKept, LockIsHeld, MovesAway, CheckedStands,
              UnsaidIsHeld
<1>4. \A d \in Client : d # c => late'[d] = late[d]
  BY <1>1 DEF DocInv, ClientsTyped
<1>5. late'[c] = outside' \cup broken \cup unsaid
  BY <1>1 DEF DocInv, ClientsTyped
<1>6. ClientsTyped'
  <2>1. outside' \cup broken \cup unsaid \subseteq Path
    BY <1>1, <1>2 DEF DocInv, VaultTyped
  <2>2. late' \in [Client -> SUBSET Path]
    BY <1>1, <2>1 DEF DocInv, ClientsTyped
  <2>3. QED
    BY <1>1, <2>2 DEF DocInv, ClientsTyped
<1>7. FreshRows'
  <2>1. \A p \in Path : rows'[p] # LinkOf(disk'[p]) => p \in late'[c]
    BY <1>1, <1>2, <1>5 DEF RowsTold
  <2>2. QED
    BY <1>1, <1>2, <1>4, <2>1 DEF DocInv, FreshRows
<1>8. BackKept'
  <2>1. \A d \in Client : op[d].step # "rest" => late[d] \subseteq late'[d]
    BY <1>1, <1>4
  <2>2. QED
    BY <1>1, <2>1, ListKept
<1>9. LinksWillFollow'
  <2>1. SUFFICES ASSUME NEW d \in Client,
                        op[d].step \in {"move", "rewrite", "mark", "fire", "prune"}, op[d].links,
                        NEW s \in Path
                 PROVE  (Links(d, s) => Passed(d, s) \/ Following(d, s))'
    BY <1>1 DEF LinksWillFollow
  <2>2. Links(d, s) => Passed(d, s) \/ Following(d, s)
    BY <2>1 DEF DocInv, LinksWillFollow
  <2>3. late'[d] = late[d]
    BY <1>1, <1>4, <2>1
  <2>4. QED
    BY <1>1, <2>2, <2>3, FollowKept
<1>10. QED
  BY <1>2, <1>3, <1>6, <1>7, <1>8, <1>9 DEF DocInv

(* An edit from outside is told to every call that has refreshed, and      *)
(* touches a note whoever has the lock may be about to replace.            *)
LEMMA ExternalEditStep ==
  ASSUME DocInv, NEW p \in Path, ExternalEdit(p)
  PROVE  DocInv'
<1>1. /\ UNCHANGED <<rows, dirty, ledger, lock, op, known, ready, unsaid, broken, ops>>
      /\ outside' = outside \cup {p}
      /\ touched' = IF lock = None THEN {} ELSE touched \cup {p}
      /\ mishaps < MaxMishaps /\ mishaps' = mishaps + 1
  BY DEF ExternalEdit, Mishap
<1>2. PICK x \in Content \cup {Bad, Absent} : disk' = [disk EXCEPT ![p] = x]
  BY NotesAreContents DEF ExternalEdit
<1>3. /\ late' \in [Client -> SUBSET Path]
      /\ \A d \in Client : late[d] \subseteq late'[d] /\ (d \in ready => p \in late'[d])
  BY DEF ExternalEdit, Learn, DocInv, ClientsTyped
<1>4. VaultTyped' /\ ClientsTyped' /\ CountsTyped' /\ LedgerKept'
  BY <1>1, <1>2, <1>3, BoundsAreNat DEF DocInv, VaultTyped, ClientsTyped, CountsTyped, LedgerKept
<1>5. \A q \in Path : q # p => disk'[q] = disk[q]
  BY <1>2 DEF DocInv, VaultTyped
<1>6. LockIsHeld' /\ MovesAway' /\ UnsaidIsHeld'
  BY <1>1 DEF DocInv, LockIsHeld, MovesAway, UnsaidIsHeld
<1>7. CheckedStands'
  <2>1. SUFFICES ASSUME NEW d \in Client, op[d].step \in {"edit", "replace"}, op[d].base # None,
                        op[d].path \notin touched'
                 PROVE  disk'[op[d].path] = op[d].base
    BY <1>1 DEF CheckedStands
  <2>2. lock = d /\ op[d].path \in Path
    BY <2>1 DEF DocInv, LockIsHeld, MovesAway
  <2>3. op[d].path \notin touched /\ op[d].path # p
    BY <1>1, <2>1, <2>2, NotContents
  <2>4. QED
    BY <1>5, <2>1, <2>2, <2>3 DEF DocInv, CheckedStands
<1>8. RowsTold'
  BY <1>1, <1>5 DEF DocInv, RowsTold
<1>9. FreshRows'
  <2>1. \A d \in Client : op'[d].step # "rest" /\ op'[d].links => d \in ready'
    BY <1>1 DEF DocInv, FreshRows
  <2>2. ASSUME NEW d \in ready, op[d].step = "rest", NEW q \in Path,
               rows[q] # LinkOf(disk'[q])
        PROVE  q \in late'[d]
    <3>1. d \in Client
      BY DEF DocInv, ClientsTyped
    <3>2. CASE q = p
      BY <1>3, <3>1, <3>2
    <3>3. CASE q # p
      <4>1. disk'[q] = disk[q]
        BY <1>5, <3>3
      <4>2. q \in late[d]
        BY <2>2, <4>1 DEF DocInv, FreshRows
      <4>3. QED
        BY <1>3, <3>1, <4>2
    <3>4. QED
      BY <3>2, <3>3
  <2>3. QED
    BY <1>1, <2>1, <2>2 DEF FreshRows
<1>10. BackKept'
  BY <1>1, <1>3, ListKept
<1>11. LinksWillFollow'
  <2>1. SUFFICES ASSUME NEW d \in Client,
                        op[d].step \in {"move", "rewrite", "mark", "fire", "prune"}, op[d].links,
                        NEW s \in Path
                 PROVE  (Links(d, s) => Passed(d, s) \/ Following(d, s))'
    BY <1>1 DEF LinksWillFollow
  <2>2. Links(d, s) => Passed(d, s) \/ Following(d, s)
    BY <2>1 DEF DocInv, LinksWillFollow
  <2>3. disk'[s] = disk[s] \/ s \in late'[d]
    BY <1>3, <1>5, <2>1 DEF DocInv, FreshRows
  <2>4. QED
    BY <1>1, <1>3, <2>2, <2>3, FollowKept
<1>12. QED
  BY <1>4, <1>6, <1>7, <1>8, <1>9, <1>10, <1>11 DEF DocInv

-----------------------------------------------------------------------------
(* An operation begins, and goes on.                                       *)

(* A call takes the lock: nobody was in an operation, and its backlinks    *)
(* are the rows of a moment it knows the exceptions of (document.py:1224-  *)
(* 1260, 1640-1700).                                                       *)
LEMMA TakeLockStep ==
  ASSUME DocInv, NEW c \in Client, NEW o \in Busy, TakeLock(c, o), Starts(c, o)
  PROVE  DocInv'
<1>1. /\ lock = None /\ lock' = c /\ op' = [op EXCEPT ![c] = o]
      /\ ops < MaxOps /\ ops' = ops + 1 /\ known' = [known EXCEPT ![c] = None]
      /\ UNCHANGED <<disk, rows, dirty, ledger, ready, late, outside, touched, unsaid, broken,
                     mishaps>>
  BY DEF TakeLock
<1>2. \A d \in Client : op[d].step = "rest"
  BY <1>1, NotContents DEF DocInv, LockIsHeld
<1>3. op'[c] = o /\ \A d \in Client : d # c => op'[d] = op[d]
  BY <1>1 DEF DocInv, ClientsTyped
<1>4. o.step # "rest"
  BY BusyIsBusy
<1>5. ClientsTyped' /\ CountsTyped' /\ VaultTyped' /\ LedgerKept'
  BY <1>1, BoundsAreNat DEF DocInv, ClientsTyped, CountsTyped, VaultTyped, LedgerKept
<1>6. LockIsHeld'
  BY <1>1, <1>2, <1>3, <1>4 DEF LockIsHeld
<1>7. MovesAway' /\ CheckedStands'
  BY <1>1, <1>2, <1>3 DEF MovesAway, CheckedStands, Starts
<1>8. RowsTold' /\ UnsaidIsHeld'
  BY <1>1, <1>2 DEF DocInv, RowsTold, UnsaidIsHeld
<1>9. FreshRows'
  BY <1>1, <1>2, <1>3, <1>4 DEF DocInv, FreshRows, Starts
<1>10. \A p \in Path : c \in ready /\ rows[p] # LinkOf(disk[p]) => p \in late[c]
  BY <1>2 DEF DocInv, FreshRows
<1>11. o.map \in Map /\ o.back \in Map
  BY DEF Busy
<1>12. BackKept'
  <2>1. SUFFICES ASSUME NEW d \in Client PROVE
          /\ op'[d].step \in {"move", "rewrite"} =>
               \A s \in DOMAIN op'[d].back : op'[d].back[s] \in DOMAIN op'[d].map
          /\ op'[d].step = "rewrite" => op'[d].todo \subseteq DOMAIN op'[d].back
          /\ op'[d].step = "rewrite" /\ op'[d].read # None =>
               op'[d].read.at \in op'[d].todo /\ op'[d].read.was.to \in DOMAIN op'[d].map
          /\ op'[d].step = "move" =>
               op'[d].failed = {} /\ op'[d].read = None /\ (op'[d].links => \A q \in DOMAIN op'[d].map :
                 op'[d].map[q] \in DOMAIN op'[d].back => op'[d].map[q] \in late'[d])
    BY DEF BackKept
  <2>2. CASE d # c
    BY <1>2, <1>3, <2>2
  <2>3. CASE d = c
    <3>1. o.step # "rewrite"
      BY DEF Starts
    <3>2. o.step = "move" => o.failed = {} /\ o.read = None /\ \A s \in DOMAIN o.back : o.back[s] \in DOMAIN o.map
      BY DEF Starts
    <3>3. ASSUME o.step = "move", o.links, NEW q \in DOMAIN o.map, o.map[q] \in DOMAIN o.back
          PROVE  o.map[q] \in late[c]
      <4>1. disk[o.map[q]] = Absent /\ rows[o.map[q]] \in DOMAIN o.map /\ c \in ready
        BY <3>3 DEF Starts
      <4>2. LinkOf(disk[o.map[q]]) = None
        BY <4>1, NotContents DEF LinkOf
      <4>3. rows[o.map[q]] # None /\ o.map[q] \in Path
        BY <1>11, <3>3, <4>1, MapPaths, NotContents
      <4>4. QED
        BY <1>10, <4>1, <4>2, <4>3
    <3>4. QED
      BY <1>1, <1>3, <2>3, <3>1, <3>2, <3>3
  <2>4. QED
    BY <2>2, <2>3
<1>13. LinksWillFollow'
  <2>1. SUFFICES ASSUME NEW d \in Client,
                        op'[d].step \in {"move", "rewrite", "mark", "fire", "prune"}, op'[d].links,
                        NEW s \in Path, Links(d, s)'
                 PROVE  Passed(d, s)' \/ Following(d, s)'
    BY DEF LinksWillFollow
  <2>2. d = c /\ o.step = "move" /\ o.links
    BY <1>2, <1>3, <2>1 DEF Starts
  <2>3. disk[s] \in Content /\ disk[s].to \in DOMAIN o.map /\ LinkOf(disk[s]) = disk[s].to
    BY <1>1, <1>3, <2>1, <2>2 DEF Links, LinkOf
  <2>4. CASE rows[s] # disk[s].to
    <3>1. s \in late[c]
      BY <1>10, <2>2, <2>3, <2>4 DEF Starts
    <3>2. QED
      BY <1>1, <2>2, <3>1 DEF Passed
  <2>5. CASE rows[s] = disk[s].to
    <3>1. s \in DOMAIN o.back \ (DOMAIN o.map \ o.todo) /\ o.back[s] = disk[s].to
      BY <2>2, <2>3, <2>5 DEF Starts
    <3>2. Following(c, s)'
      BY <1>1, <1>3, <2>2, <3>1 DEF Following
    <3>3. QED
      BY <2>2, <3>2
  <2>6. QED
    BY <2>4, <2>5
<1>14. QED
  BY <1>5, <1>6, <1>7, <1>8, <1>9, <1>12, <1>13 DEF DocInv

(* An operation goes on to o: the others are at rest, and what it has from *)
(* its beginning it keeps.                                                 *)
LEMMA Advance ==
  ASSUME DocInv, NEW c \in Client, op[c].step # "rest", NEW o \in Busy, Alike(o, op[c]),
         op' = [op EXCEPT ![c] = o], UNCHANGED <<lock, ready, known>>,
         late' \in [Client -> SUBSET Path], o.step \notin {"edit", "replace"},
         o.step = "move" => op[c].step = "move" /\ o.todo \subseteq op[c].todo
  PROVE  /\ op[c] \in Busy /\ op'[c] = o
         /\ \A d \in Client : d # c => op[d].step = "rest" /\ op'[d] = op[d]
         /\ ClientsTyped' /\ LockIsHeld' /\ MovesAway' /\ CheckedStands'
<1>1. /\ op[c] \in Busy /\ lock = c
      /\ \A d \in Client : d # c => op[d].step = "rest"
  BY Alone
<1>2. op'[c] = o /\ \A d \in Client : d # c => op'[d] = op[d]
  BY DEF DocInv, ClientsTyped
<1>3. o.step # "rest"
  BY BusyIsBusy
<1>4. ClientsTyped'
  BY DEF DocInv, ClientsTyped
<1>5. LockIsHeld'
  BY <1>1, <1>2, <1>3 DEF LockIsHeld
<1>6. MovesAway'
  <2>1. /\ \A p \in DOMAIN o.map : o.map[p] \notin DOMAIN o.map
        /\ \A p, q \in DOMAIN o.map : o.map[p] = o.map[q] => p = q
        /\ o.step = "move" => o.todo \subseteq DOMAIN o.map
    BY DEF DocInv, MovesAway, Alike
  <2>2. QED
    BY <1>1, <1>2, <2>1 DEF MovesAway
<1>7. CheckedStands'
  BY <1>1, <1>2 DEF CheckedStands
<1>8. QED
  BY <1>1, <1>2, <1>4, <1>5, <1>6, <1>7

(* Who has refreshed and is at rest learns of the changes of the others.   *)
LEMMA Learned ==
  ASSUME DocInv, NEW c \in Client, op[c].step # "rest", NEW o, o.step # "rest",
         o.links = op[c].links,
         op' = [op EXCEPT ![c] = o], UNCHANGED <<rows, ready>>,
         NEW P, P \subseteq Path, Learn(Client \ {c}, P), \A p \in Path \ P : disk'[p] = disk[p]
  PROVE  /\ late' \in [Client -> SUBSET Path] /\ late'[c] = late[c] /\ FreshRows'
<1>1. /\ late' \in [Client -> SUBSET Path] /\ late'[c] = late[c]
      /\ \A d \in Client : d # c /\ d \in ready => late'[d] = late[d] \cup P
  BY DEF Learn, DocInv, ClientsTyped
<1>2. op'[c] = o /\ \A d \in Client : d # c => op'[d] = op[d]
  BY DEF DocInv, ClientsTyped
<1>3. \A d \in Client : op'[d].step # "rest" /\ op'[d].links => d \in ready'
  BY <1>2 DEF DocInv, FreshRows
<1>4. ASSUME NEW d \in ready, op'[d].step = "rest", NEW p \in Path, rows[p] # LinkOf(disk'[p])
      PROVE  p \in late'[d]
  <2>1. d \in Client /\ d # c
    BY <1>2, <1>4 DEF DocInv, ClientsTyped
  <2>2. CASE p \in P
    BY <1>1, <2>1, <2>2
  <2>3. CASE p \notin P
    <3>1. disk'[p] = disk[p]
      BY <2>3
    <3>2. p \in late[d]
      BY <1>2, <1>4, <2>1, <3>1 DEF DocInv, FreshRows
    <3>3. QED
      BY <1>1, <2>1, <3>2
  <2>4. QED
    BY <2>2, <2>3
<1>5. QED
  BY <1>1, <1>3, <1>4 DEF FreshRows

(* A step that changes no file leaves the rows that a call knows of.       *)
LEMMA Unlearned ==
  ASSUME DocInv, NEW c \in Client, op[c].step # "rest", NEW o, o.step # "rest",
         o.links = op[c].links,
         op' = [op EXCEPT ![c] = o], UNCHANGED <<disk, rows, ready, late>>
  PROVE  FreshRows'
<1>1. op'[c] = o /\ \A d \in Client : d # c => op'[d] = op[d]
  BY DEF DocInv, ClientsTyped
<1>2. QED
  BY <1>1 DEF DocInv, FreshRows

(* What has to hold of the list of an operation that goes on.              *)
ListOk(o, l) ==
  /\ o.step \in {"move", "rewrite"} => \A s \in DOMAIN o.back : o.back[s] \in DOMAIN o.map
  /\ o.step = "rewrite" => o.todo \subseteq DOMAIN o.back
  /\ o.step = "rewrite" /\ o.read # None =>
       o.read.at \in o.todo /\ o.read.was.to \in DOMAIN o.map
  /\ o.step = "move" =>
       o.failed = {} /\ o.read = None /\ (o.links =>
       \A q \in DOMAIN o.map : o.map[q] \in DOMAIN o.back => o.map[q] \in l)

(* It held before, and if it holds of him it holds of all, for the others  *)
(* are at rest.                                                            *)
LEMMA ListWas ==
  ASSUME DocInv, NEW c \in Client
  PROVE  ListOk(op[c], late[c])
  BY DEF DocInv, BackKept, ListOk

(* Only the operation that goes on has a list.                             *)
LEMMA OnlyHisList ==
  ASSUME NEW c \in Client, NEW o, op'[c] = o,
         \A d \in Client : d # c => op'[d].step = "rest", ListOk(o, late'[c])
  PROVE  BackKept'
  BY DEF BackKept, ListOk

(* Only the operation that goes on has notes to follow.                    *)
LEMMA OnlyHisNotes ==
  ASSUME NEW c \in Client, NEW o, op'[c] = o,
         \A d \in Client : d # c => op'[d].step = "rest",
         o.step \in {"move", "rewrite", "mark", "fire", "prune"} /\ o.links =>
           \A s \in Path : Links(c, s)' => Passed(c, s)' \/ Following(c, s)'
  PROVE  LinksWillFollow'
  BY DEF LinksWillFollow

-----------------------------------------------------------------------------
(* The steps that change files.                                            *)

(* What an operation will mark does not depend on where it is.             *)
LEMMA MarksAlike ==
  ASSUME NEW o, NEW q, Alike(o, q), q.done \subseteq o.done
  PROVE  Marked(q) \subseteq Marked(o)
  BY DEF Alike, Marked

(* A change of the files P, that an operation has in its marks: the rows   *)
(* that are now out of date are its own, and it will tell of them.         *)
LEMMA ChangeIsHeld ==
  ASSUME DocInv, NEW c \in Client, NEW o, op' = [op EXCEPT ![c] = o],
         \A d \in Client : d # c => op[d].step = "rest",
         o.step \in {"move", "rewrite", "mark"}, op[c].step \in {"replace", "move", "rewrite"},
         Marked(op[c]) \subseteq Marked(o),
         NEW P, P \subseteq Marked(o), unsaid' = unsaid \cup P,
         \A p \in Path \ P : disk'[p] = disk[p],
         UNCHANGED <<rows, dirty, outside, broken>>
  PROVE  RowsTold' /\ UnsaidIsHeld'
<1>1. op'[c] = o
  BY DEF DocInv, ClientsTyped
<1>2. ASSUME NEW p \in Path, rows[p] # LinkOf(disk'[p])
      PROVE  p \in dirty \cup outside \cup broken \/ p \in unsaid'
  <2>1. CASE p \in P
    BY <2>1
  <2>2. CASE p \notin P
    BY <1>2, <2>2 DEF DocInv, RowsTold
  <2>3. QED
    BY <2>1, <2>2
<1>3. RowsTold'
  BY <1>1, <1>2 DEF RowsTold
<1>4. ASSUME NEW p \in unsaid' PROVE p \in broken \/ p \in Marked(o)
  <2>1. CASE p \in P
    BY <2>1
  <2>2. CASE p \in unsaid
    <3>1. \A d \in Client : op[d].step \in {"move", "rewrite", "mark", "fire"} => d = c
      OBVIOUS
    <3>2. p \in broken \/ p \in Marked(op[c])
      BY <2>2, <3>1 DEF DocInv, UnsaidIsHeld
    <3>3. QED
      BY <3>2
  <2>3. QED
    BY <1>4, <2>1, <2>2
<1>5. UnsaidIsHeld'
  BY <1>1, <1>4 DEF UnsaidIsHeld
<1>6. QED
  BY <1>3, <1>5

(* atomic_write or unlink.                                                 *)
LEMMA ReplaceStep ==
  ASSUME DocInv, NEW c \in Client, Replace(c)
  PROVE  DocInv'
<1> DEFINE p == op[c].path
<1>1. /\ op[c].step = "replace" /\ op' = [op EXCEPT ![c].step = "mark"]
      /\ disk' = [disk EXCEPT ![p] = op[c].put]
      /\ unsaid' = unsaid \cup {p} /\ Learn(Client \ {c}, {p})
      /\ UNCHANGED <<rows, dirty, ledger, lock, known, ready, outside, touched, broken, ops,
                     mishaps>>
  BY DEF Replace, Changes
<1>2. PICK o \in Busy :
        /\ op' = [op EXCEPT ![c] = o] /\ Alike(o, op[c]) /\ o.step = "mark"
        /\ o.back = op[c].back /\ o.todo = op[c].todo /\ o.read = op[c].read
        /\ o.done = op[c].done /\ o.failed = op[c].failed
  BY <1>1, StepMoves
<1>3. p \in Path /\ ~op[c].links /\ p # None
  BY <1>1, NotContents DEF DocInv, MovesAway
<1>4. \A q \in Path \ {p} : disk'[q] = disk[q]
  BY <1>1 DEF DocInv, VaultTyped
<1>5. o.links = op[c].links /\ o.path = p
  BY <1>2 DEF Alike
<1>6. late' \in [Client -> SUBSET Path] /\ late'[c] = late[c] /\ FreshRows'
  <2>1. PICK P : P = {p}
    OBVIOUS
  <2>2. P \subseteq Path /\ Learn(Client \ {c}, P) /\ \A q \in Path \ P : disk'[q] = disk[q]
    BY <1>1, <1>3, <1>4, <2>1
  <2>3. QED
    BY <1>1, <1>2, <1>5, <2>2, Learned
<1>7. /\ op[c] \in Busy /\ op'[c] = o
      /\ \A d \in Client : d # c => op[d].step = "rest" /\ op'[d] = op[d]
      /\ ClientsTyped' /\ LockIsHeld' /\ MovesAway' /\ CheckedStands'
  BY <1>1, <1>2, <1>6, Advance
<1>8. VaultTyped'
  <2>1. op[c].put \in Content \cup {Absent}
    BY <1>7 DEF Busy
  <2>2. QED
    BY <1>1, <1>3, <2>1 DEF DocInv, VaultTyped
<1>9. CountsTyped' /\ LedgerKept'
  BY <1>1 DEF DocInv, CountsTyped, LedgerKept
<1>10. RowsTold' /\ UnsaidIsHeld'
  <2>1. PICK P : P = {p}
    OBVIOUS
  <2>2. P \subseteq Marked(o) /\ unsaid' = unsaid \cup P
        /\ \A q \in Path \ P : disk'[q] = disk[q]
    BY <1>1, <1>3, <1>4, <1>5, <2>1 DEF Marked
  <2>3. Marked(op[c]) \subseteq Marked(o)
    BY <1>2, MarksAlike
  <2>4. QED
    BY <1>1, <1>2, <1>7, <2>2, <2>3, ChangeIsHeld
<1>11. BackKept'
  <2>1. ListOk(o, late'[c])
    BY <1>2 DEF ListOk
  <2>2. QED
    BY <1>7, <2>1, OnlyHisList
<1>12. LinksWillFollow'
  BY <1>3, <1>5, <1>7, OnlyHisNotes
<1>13. QED
  BY <1>6, <1>7, <1>8, <1>9, <1>10, <1>11, <1>12 DEF DocInv

(* shutil.move of one file: its links are now where it is.                 *)
LEMMA MoveFileStep ==
  ASSUME DocInv, NEW c \in Client, NEW p \in Path, MoveFile(c, p)
  PROVE  DocInv'
<1> DEFINE new == op[c].map[p]
<1>1. /\ op[c].step = "move" /\ p \in op[c].todo /\ disk[p] # Absent
      /\ disk' = [disk EXCEPT ![new] = disk[p], ![p] = Absent]
      /\ unsaid' = unsaid \cup {p, new} /\ Learn(Client \ {c}, {p, new})
      /\ UNCHANGED <<rows, dirty, ledger, lock, known, ready, outside, touched, broken, ops,
                     mishaps>>
  BY DEF MoveFile, Changes
<1>2. PICK o \in Busy :
        /\ op' = [op EXCEPT ![c] = o] /\ Alike(o, op[c]) /\ o.step = "move"
        /\ o.back = op[c].back /\ o.todo = op[c].todo \ {p} /\ o.read = op[c].read
        /\ o.done = op[c].done /\ o.failed = op[c].failed
  BY MoveMoves
<1>3. op[c] \in Busy
  BY <1>1, Alone
<1>4. /\ p \in DOMAIN op[c].map /\ new \notin DOMAIN op[c].map /\ new \in Path /\ new # p
      /\ \A q \in DOMAIN op[c].map : op[c].map[q] \notin DOMAIN op[c].map
      /\ \A q \in DOMAIN op[c].map : op[c].map[q] = new => q = p
  <2>1. p \in DOMAIN op[c].map
    BY <1>1 DEF DocInv, MovesAway
  <2>2. op[c].map \in Map
    BY <1>3 DEF Busy
  <2>3. QED
    BY <1>1, <2>1, <2>2, MapPaths DEF DocInv, MovesAway
<1>5. /\ disk'[new] = disk[p] /\ disk'[p] = Absent
      /\ \A q \in Path \ {p, new} : disk'[q] = disk[q]
  BY <1>1, <1>4 DEF DocInv, VaultTyped
<1>6. o.links = op[c].links /\ o.map = op[c].map
  BY <1>2 DEF Alike
<1>7. late' \in [Client -> SUBSET Path] /\ late'[c] = late[c] /\ FreshRows'
  <2>1. PICK P : P = {p, new}
    OBVIOUS
  <2>2. P \subseteq Path /\ Learn(Client \ {c}, P) /\ \A q \in Path \ P : disk'[q] = disk[q]
    BY <1>1, <1>4, <1>5, <2>1
  <2>3. QED
    BY <1>1, <1>2, <1>6, <2>2, Learned
<1>8. /\ op'[c] = o
      /\ \A d \in Client : d # c => op[d].step = "rest" /\ op'[d] = op[d]
      /\ ClientsTyped' /\ LockIsHeld' /\ MovesAway' /\ CheckedStands'
  BY <1>1, <1>2, <1>7, Advance
<1>9. VaultTyped'
  BY <1>1, <1>4 DEF DocInv, VaultTyped
<1>10. CountsTyped' /\ LedgerKept'
  BY <1>1 DEF DocInv, CountsTyped, LedgerKept
<1>11. RowsTold' /\ UnsaidIsHeld'
  <2>1. PICK P : P = {p, new}
    OBVIOUS
  <2>2. P \subseteq Marked(o) /\ unsaid' = unsaid \cup P
        /\ \A q \in Path \ P : disk'[q] = disk[q]
    BY <1>1, <1>4, <1>5, <1>6, <2>1 DEF Marked, Image
  <2>3. Marked(op[c]) \subseteq Marked(o)
    BY <1>2, MarksAlike
  <2>4. /\ o.step \in {"move", "rewrite", "mark"} /\ op[c].step \in {"replace", "move", "rewrite"}
        /\ UNCHANGED <<rows, dirty, outside, broken>>
    BY <1>1, <1>2
  <2>5. QED
    BY <1>2, <1>8, <2>2, <2>3, <2>4, ChangeIsHeld
<1>12. BackKept'
  <2>1. ListOk(op[c], late[c])
    BY ListWas
  <2>2. ListOk(o, late'[c])
    BY <1>1, <1>2, <1>6, <1>7, <2>1 DEF ListOk
  <2>3. QED
    BY <1>8, <2>2, OnlyHisList
<1>13. LinksWillFollow'
  <2>1. ASSUME o.links, NEW s \in Path, Links(c, s)' PROVE Passed(c, s)' \/ Following(c, s)'
    <3>1. disk'[s] \in Content /\ disk'[s].to \in DOMAIN o.map /\ s # p
      BY <1>5, <1>8, <2>1, NotContents DEF Links
    <3>2. CASE s = new
      <4>1. Links(c, p)
        BY <1>5, <1>6, <3>1, <3>2 DEF Links
      <4>2. Passed(c, p) \/ Following(c, p)
        BY <1>1, <1>6, <2>1, <4>1 DEF DocInv, LinksWillFollow
      <4>3. CASE p \in late[c]
        BY <1>4, <1>6, <1>7, <1>8, <3>2, <4>3 DEF Passed
      <4>4. CASE p \notin late[c]
        <5>1. op[c].failed = {}
          BY <1>1 DEF DocInv, BackKept
        <5>2. ~Passed(c, p)
          BY <1>4, <4>4, <5>1 DEF Passed
        <5>3. p \in DOMAIN op[c].back /\ op[c].back[p] = disk[p].to
          BY <1>1, <1>4, <4>2, <5>2 DEF Following
        <5>4. p \in DOMAIN o.map \ o.todo /\ o.map[p] = s
          BY <1>2, <1>4, <1>6, <3>2
        <5>5. QED
          BY <1>2, <1>5, <1>8, <3>2, <5>3, <5>4 DEF Following
      <4>5. QED
        BY <4>3, <4>4
    <3>3. CASE s # new
      <4>1. disk'[s] = disk[s]
        BY <1>5, <3>1, <3>3
      <4>2. Links(c, s)
        BY <1>6, <3>1, <4>1 DEF Links
      <4>3. Passed(c, s) \/ Following(c, s)
        BY <1>1, <1>6, <2>1, <4>2 DEF DocInv, LinksWillFollow
      <4>4. Passed(c, s) => Passed(c, s)'
        BY <1>2, <1>6, <1>7, <1>8 DEF Passed
      <4>5. ASSUME Following(c, s) PROVE Following(c, s)'
        <5>1. CASE /\ s \in DOMAIN op[c].back \ (DOMAIN op[c].map \ op[c].todo)
                   /\ op[c].back[s] = disk[s].to
          <6>1. s \in DOMAIN o.back \ (DOMAIN o.map \ o.todo) /\ o.back[s] = disk'[s].to
            BY <1>2, <1>6, <3>1, <4>1, <5>1
          <6>2. QED
            BY <1>2, <1>8, <6>1 DEF Following
        <5>2. ASSUME NEW q \in DOMAIN op[c].map \ op[c].todo, op[c].map[q] = s,
                     q \in DOMAIN op[c].back, op[c].back[q] = disk[s].to
              PROVE  Following(c, s)'
          <6>1. /\ q \in DOMAIN o.map \ o.todo /\ o.map[q] = s /\ q \in DOMAIN o.back
                /\ o.back[q] = disk'[s].to
            BY <1>2, <1>6, <4>1, <5>2
          <6>2. QED
            BY <1>2, <1>8, <6>1 DEF Following
        <5>3. QED
          BY <1>1, <4>5, <5>1, <5>2 DEF Following
      <4>6. QED
        BY <4>3, <4>4, <4>5
    <3>4. QED
      BY <3>2, <3>3
  <2>2. QED
    BY <1>8, <2>1, OnlyHisNotes
<1>14. QED
  BY <1>7, <1>8, <1>9, <1>10, <1>11, <1>12, <1>13 DEF DocInv

(* The lists of a move are known, and each source that the move took with  *)
(* it is listed where it is now (document.py:1331-1344).                   *)
LEMMA SourcesStep ==
  ASSUME DocInv, NEW c \in Client, MovesDone(c), ~Raise(c)
  PROVE  DocInv'
<1> DEFINE map == op[c].map
           back == op[c].back
<1>1. /\ op[c].step = "move" /\ op[c].todo = {}
      /\ UNCHANGED <<disk, rows, dirty, ledger, lock, known, ready, late, outside, touched,
                     unsaid, broken, ops, mishaps>>
  BY DEF MovesDone
<1>2. PICK o \in Busy :
        /\ op' = [op EXCEPT ![c] = o] /\ Alike(o, op[c]) /\ o.step = "rewrite"
        /\ o.todo = {Source(map, s) : s \in DOMAIN back}
        /\ DOMAIN o.back = o.todo
        /\ \A s \in o.todo : o.back[s] = back[CHOOSE q \in DOMAIN back : Source(map, q) = s]
        /\ o.read = op[c].read /\ o.done = op[c].done /\ o.failed = op[c].failed
  BY SourcesMoves
<1>3. o.links = op[c].links /\ o.map = map
  BY <1>2 DEF Alike
<1>4. late' \in [Client -> SUBSET Path]
  BY <1>1 DEF DocInv, ClientsTyped
<1>5. /\ op'[c] = o /\ op[c] \in Busy
      /\ \A d \in Client : d # c => op[d].step = "rest" /\ op'[d] = op[d]
      /\ ClientsTyped' /\ LockIsHeld' /\ MovesAway' /\ CheckedStands'
  BY <1>1, <1>2, <1>4, Advance
<1>6. FreshRows'
  BY <1>1, <1>2, <1>3, Unlearned
<1>7. VaultTyped' /\ CountsTyped' /\ LedgerKept'
  BY <1>1 DEF DocInv, VaultTyped, CountsTyped, LedgerKept
<1>8. RowsTold' /\ UnsaidIsHeld'
  <2>1. Marked(op[c]) \subseteq Marked(o)
    BY <1>2, MarksAlike
  <2>2. RowsTold'
    BY <1>1, <1>2, <1>5 DEF DocInv, RowsTold
  <2>3. UnsaidIsHeld'
    BY <1>1, <1>2, <1>5, <2>1 DEF DocInv, UnsaidIsHeld
  <2>4. QED
    BY <2>2, <2>3
<1>9. \A s \in o.todo : \E q \in DOMAIN back : Source(map, q) = s /\ o.back[s] = back[q]
  BY <1>2
<1>10. /\ \A s \in DOMAIN back : back[s] \in DOMAIN map
       /\ op[c].failed = {}
       /\ op[c].links => \A q \in DOMAIN map : map[q] \in DOMAIN back => map[q] \in late[c]
  BY <1>1 DEF DocInv, BackKept
<1>11. op[c].read = None
  BY <1>1 DEF DocInv, BackKept
<1>12. BackKept'
  <2>1. ListOk(o, late'[c])
    BY <1>2, <1>3, <1>9, <1>10, <1>11 DEF ListOk
  <2>2. QED
    BY <1>5, <2>1, OnlyHisList
<1>13. LinksWillFollow'
  <2>1. ASSUME o.links, NEW s \in Path, Links(c, s)', ~Passed(c, s)'
        PROVE  s \in o.todo /\ o.back[s] = disk[s].to
    <3>1. Links(c, s) /\ ~Passed(c, s)
      BY <1>1, <1>2, <1>3, <1>5, <2>1 DEF Links, Passed
    <3>2. Following(c, s)
      BY <1>1, <1>3, <2>1, <3>1 DEF DocInv, LinksWillFollow
    <3>3. PICK q \in DOMAIN back : Source(map, q) = s /\ back[q] = disk[s].to
      <4>1. CASE s \in DOMAIN back \ (DOMAIN map \ op[c].todo) /\ back[s] = disk[s].to
        BY <1>1, <4>1 DEF Source
      <4>2. CASE \E q \in DOMAIN map \ op[c].todo :
                   map[q] = s /\ q \in DOMAIN back /\ back[q] = disk[s].to
        BY <4>2 DEF Source
      <4>3. QED
        BY <1>1, <3>2, <4>1, <4>2 DEF Following
    <3>4. s \in o.todo
      BY <1>2, <3>3
    <3>5. PICK r \in DOMAIN back : Source(map, r) = s /\ o.back[s] = back[r]
      BY <1>9, <3>4
    <3>6. s \notin late[c]
      BY <3>1 DEF Passed
    <3>7. \A q1, q2 \in DOMAIN map : map[q1] = map[q2] => q1 = q2
      BY <1>1 DEF DocInv, MovesAway
    <3>8. q = r
      BY <1>3, <1>10, <2>1, <3>3, <3>5, <3>6, <3>7 DEF Source
    <3>9. QED
      BY <3>3, <3>4, <3>5, <3>8
  <2>2. ASSUME o.links, NEW s \in Path, Links(c, s)', ~Passed(c, s)'
        PROVE  Following(c, s)'
    BY <1>1, <1>2, <1>5, <2>1, <2>2 DEF Following
  <2>3. QED
    BY <1>5, <2>2, OnlyHisNotes
<1>14. QED
  BY <1>5, <1>6, <1>7, <1>8, <1>12, <1>13 DEF DocInv

(* What a step within the rewrites has to show, when it changes no file.   *)
LEMMA QuietRewrite ==
  ASSUME DocInv, NEW c \in Client, NEW o \in Busy, op' = [op EXCEPT ![c] = o],
         Alike(o, op[c]), op[c].step = "rewrite", o.step \in {"rewrite", "mark"},
         o.done = op[c].done,
         UNCHANGED <<disk, rows, dirty, ledger, lock, known, ready, late, outside, touched,
                     unsaid, broken, ops>>,
         mishaps' \in 0..MaxMishaps
  PROVE  /\ VaultTyped' /\ ClientsTyped' /\ CountsTyped' /\ LockIsHeld' /\ LedgerKept'
         /\ MovesAway' /\ CheckedStands' /\ RowsTold' /\ UnsaidIsHeld' /\ FreshRows'
         /\ op'[c] = o /\ \A d \in Client : d # c => op'[d].step = "rest"
<1>1. late' \in [Client -> SUBSET Path] /\ o.links = op[c].links
  BY DEF DocInv, ClientsTyped, Alike
<1>2. /\ op'[c] = o
      /\ \A d \in Client : d # c => op[d].step = "rest" /\ op'[d] = op[d]
      /\ ClientsTyped' /\ LockIsHeld' /\ MovesAway' /\ CheckedStands'
  BY <1>1, Advance
<1>3. FreshRows'
  BY <1>1, Unlearned
<1>4. VaultTyped' /\ CountsTyped' /\ LedgerKept'
  BY DEF DocInv, VaultTyped, CountsTyped, LedgerKept
<1>5. Marked(op[c]) \subseteq Marked(o)
  BY MarksAlike
<1>6. RowsTold'
  BY <1>2 DEF DocInv, RowsTold
<1>7. UnsaidIsHeld'
  BY <1>2, <1>5 DEF DocInv, UnsaidIsHeld
<1>8. QED
  BY <1>2, <1>3, <1>4, <1>6, <1>7

(* A source is read; one that does not hold the link of its row is passed  *)
(* over, and then it is no source (_rewrite_one_source).                   *)
LEMMA RewriteReadStep ==
  ASSUME DocInv, NEW c \in Client, NEW s \in Path, RewriteRead(c, s)
  PROVE  DocInv'
<1>1. /\ op[c].step = "rewrite" /\ op[c].read = None /\ s \in op[c].todo
      /\ UNCHANGED <<disk, rows, dirty, ledger, lock, known, ready, late, outside, touched,
                     unsaid, broken, ops, mishaps>>
  BY DEF RewriteRead
<1>2. PICK o \in Busy :
        /\ op' = [op EXCEPT ![c] = o] /\ Alike(o, op[c]) /\ o.step = "rewrite"
        /\ o.back = op[c].back /\ o.done = op[c].done /\ o.failed = op[c].failed
        /\ \/ /\ disk[s] \in Content /\ disk[s].to = op[c].back[s]
              /\ o.read = [at |-> s, was |-> disk[s]] /\ o.todo = op[c].todo
           \/ /\ ~(disk[s] \in Content /\ disk[s].to = op[c].back[s])
              /\ o.read = op[c].read /\ o.todo = op[c].todo \ {s}
  BY ReadMoves
<1>3. o.links = op[c].links /\ o.map = op[c].map
  BY <1>2 DEF Alike
<1>4. mishaps' \in 0..MaxMishaps
  BY <1>1 DEF DocInv, CountsTyped
<1>5. /\ VaultTyped' /\ ClientsTyped' /\ CountsTyped' /\ LockIsHeld' /\ LedgerKept'
      /\ MovesAway' /\ CheckedStands' /\ RowsTold' /\ UnsaidIsHeld' /\ FreshRows'
      /\ op'[c] = o /\ \A d \in Client : d # c => op'[d].step = "rest"
  BY <1>1, <1>2, <1>4, QuietRewrite
<1>6. BackKept'
  <2>1. ListOk(op[c], late[c])
    BY ListWas
  <2>2. op[c].back[s] \in DOMAIN op[c].map
    BY <1>1, <2>1 DEF ListOk
  <2>3. ListOk(o, late'[c])
    BY <1>1, <1>2, <1>3, <2>1, <2>2 DEF ListOk
  <2>4. QED
    BY <1>5, <2>3, OnlyHisList
<1>7. LinksWillFollow'
  <2>1. ASSUME o.links, NEW q \in Path, Links(c, q)', ~Passed(c, q)'
        PROVE  Following(c, q)'
    <3>1. Links(c, q) /\ ~Passed(c, q)
      BY <1>1, <1>2, <1>3, <1>5, <2>1 DEF Links, Passed
    <3>2. Following(c, q)
      BY <1>1, <1>3, <2>1, <3>1 DEF DocInv, LinksWillFollow
    <3>3. q \in op[c].todo /\ op[c].back[q] = disk[q].to
      BY <1>1, <3>2 DEF Following
    <3>4. disk[q] \in Content
      BY <3>1 DEF Links
    <3>5. q \in o.todo
      BY <1>2, <3>3, <3>4
    <3>6. QED
      BY <1>1, <1>2, <1>5, <3>3, <3>5 DEF Following
  <2>2. QED
    BY <1>5, <2>1, OnlyHisNotes
<1>8. QED
  BY <1>5, <1>6, <1>7 DEF DocInv

(* The record of a rewrite: exactly the bytes read and written (record).   *)
LEMMA RecordKeeps ==
  ASSUME LedgerKept, NEW p \in Path, NEW x \in Content, NEW y \in Content, x.text = y.text,
         ledger' = Record(p, x, y)
  PROVE  LedgerKept'
<1> DEFINE kept == {e \in ledger : ~(e.path = p /\ e.after = y)}
           new == [path |-> p, before |-> x, after |-> y]
<1>1. ledger' = kept \cup {new}
  BY DEF Record
<1>2. IsFiniteSet(kept)
  BY FS_Subset DEF LedgerKept
<1>3. IsFiniteSet(ledger')
  <2> HIDE DEF kept, new
  <2>1. IsFiniteSet(kept \cup {new})
    BY <1>2, FS_AddElement
  <2>2. QED
    BY <1>1, <2>1
<1>4. ledger' \subseteq [path : Path, before : Content, after : Content]
  BY <1>1 DEF LedgerKept
<1>5. new.path = p /\ new.after = y /\ new.before = x
  OBVIOUS
<1>6. \A d, e \in ledger' : d.path = e.path /\ d.after = e.after => d = e
  <2> HIDE DEF new
  <2>1. QED
    BY <1>1, <1>5 DEF LedgerKept
<1>7. \A e \in ledger' : e.before.text = e.after.text
  <2> HIDE DEF new
  <2>1. QED
    BY <1>1, <1>5 DEF LedgerKept
<1>8. QED
  BY <1>3, <1>4, <1>6, <1>7 DEF LedgerKept

(* What is written for a source is its text, with a link to where the note *)
(* is now (document.py:1397-1458).                                         *)
LEMMA RelinkedAway ==
  ASSUME DocInv, NEW c \in Client, op[c].step = "rewrite", op[c].read # None
  PROVE  /\ Relinked(c) \in Content /\ Relinked(c).text = op[c].read.was.text
         /\ Relinked(c).to \notin DOMAIN op[c].map
<1> DEFINE was == op[c].read.was
<1>1. op[c] \in Busy
  BY Alone
<1>2. was \in Content /\ op[c].map \in Map /\ was.to \in DOMAIN op[c].map
  BY <1>1 DEF Busy, DocInv, BackKept
<1>3. op[c].map[was.to] \in Path /\ op[c].map[was.to] \notin DOMAIN op[c].map
  BY <1>2, MapPaths DEF DocInv, MovesAway
<1>4. Relinked(c) = [was EXCEPT !.to = op[c].map[was.to]]
  BY <1>2 DEF Relinked, Content
<1> HIDE DEF was
<1>5. QED
  BY <1>2, <1>3, <1>4 DEF Content, was

(* The write of a source: it links to where the notes are now.             *)
LEMMA RewriteReplaceStep ==
  ASSUME DocInv, NEW c \in Client, RewriteReplace(c)
  PROVE  DocInv'
<1> DEFINE s == op[c].read.at
           was == op[c].read.was
           new == Relinked(c)
<1>1. /\ op[c].step = "rewrite" /\ op[c].read # None
      /\ disk' = [disk EXCEPT ![s] = new] /\ ledger' = Record(s, was, new)
      /\ unsaid' = unsaid \cup {s} /\ Learn(Client \ {c}, {s})
      /\ UNCHANGED <<rows, dirty, lock, known, ready, outside, touched, broken, ops, mishaps>>
  BY DEF RewriteReplace, Changes, LedgerWith
<1>2. PICK o \in Busy :
        /\ op' = [op EXCEPT ![c] = o] /\ Alike(o, op[c]) /\ o.step = "rewrite"
        /\ o.back = op[c].back /\ o.read = None /\ o.todo = op[c].todo \ {s}
        /\ o.done = op[c].done \cup {s} /\ o.failed = op[c].failed
  BY RewriteMoves
<1>3. o.links = op[c].links /\ o.map = op[c].map
  BY <1>2 DEF Alike
<1>4. op[c] \in Busy
  BY <1>1, Alone
<1>5. s \in Path /\ was \in Content /\ op[c].map \in Map /\ was.to \in DOMAIN op[c].map
  BY <1>1, <1>4 DEF Busy, DocInv, BackKept
<1>6. /\ new \in Content /\ new.text = was.text /\ new.to \notin DOMAIN op[c].map
  BY <1>1, RelinkedAway
<1> HIDE DEF new
<1>7. disk'[s] = new /\ \A q \in Path : q # s => disk'[q] = disk[q]
  BY <1>1, <1>5 DEF DocInv, VaultTyped
<1>8. late' \in [Client -> SUBSET Path] /\ late'[c] = late[c] /\ FreshRows'
  <2>1. PICK P : P = {s}
    OBVIOUS
  <2>2. P \subseteq Path /\ Learn(Client \ {c}, P) /\ \A q \in Path \ P : disk'[q] = disk[q]
    BY <1>1, <1>5, <1>7, <2>1
  <2>3. QED
    BY <1>1, <1>2, <1>3, <2>2, Learned
<1>9. /\ op'[c] = o
      /\ \A d \in Client : d # c => op[d].step = "rest" /\ op'[d] = op[d]
      /\ ClientsTyped' /\ LockIsHeld' /\ MovesAway' /\ CheckedStands'
  BY <1>1, <1>2, <1>8, Advance
<1>10. VaultTyped'
  BY <1>1, <1>5, <1>6 DEF DocInv, VaultTyped
<1>11. CountsTyped'
  BY <1>1 DEF DocInv, CountsTyped
<1>12. LedgerKept'
  <2>1. PICK p \in Path, x \in Content, y \in Content :
          x.text = y.text /\ ledger' = Record(p, x, y)
    BY <1>1, <1>5, <1>6
  <2>2. QED
    BY <2>1, RecordKeeps DEF DocInv
<1>13. RowsTold' /\ UnsaidIsHeld'
  <2>1. PICK P : P = {s}
    OBVIOUS
  <2>2. P \subseteq Marked(o) /\ unsaid' = unsaid \cup P
        /\ \A q \in Path \ P : disk'[q] = disk[q]
    BY <1>1, <1>2, <1>7, <2>1 DEF Marked
  <2>3. Marked(op[c]) \subseteq Marked(o)
    BY <1>2, MarksAlike
  <2>4. /\ o.step \in {"move", "rewrite", "mark"} /\ op[c].step \in {"replace", "move", "rewrite"}
        /\ UNCHANGED <<rows, dirty, outside, broken>>
    BY <1>1, <1>2
  <2>5. QED
    BY <1>2, <1>9, <2>2, <2>3, <2>4, ChangeIsHeld
<1>14. BackKept'
  <2>1. ListOk(op[c], late[c])
    BY ListWas
  <2>2. ListOk(o, late'[c])
    BY <1>1, <1>2, <1>3, <2>1 DEF ListOk
  <2>3. QED
    BY <1>9, <2>2, OnlyHisList
<1>15. LinksWillFollow'
  <2>1. ASSUME o.links, NEW q \in Path, Links(c, q)', ~Passed(c, q)'
        PROVE  Following(c, q)'
    <3>1. q # s /\ disk'[q] = disk[q]
      BY <1>3, <1>6, <1>7, <1>9, <2>1 DEF Links
    <3>2. Links(c, q) /\ ~Passed(c, q)
      BY <1>2, <1>3, <1>8, <1>9, <2>1, <3>1 DEF Links, Passed
    <3>3. Following(c, q)
      BY <1>1, <1>3, <2>1, <3>2 DEF DocInv, LinksWillFollow
    <3>4. q \in op[c].todo /\ op[c].back[q] = disk[q].to
      BY <1>1, <3>3 DEF Following
    <3>5. QED
      BY <1>2, <1>9, <3>1, <3>4 DEF Following
  <2>2. QED
    BY <1>9, <2>1, OnlyHisNotes
<1>16. QED
  BY <1>8, <1>9, <1>10, <1>11, <1>12, <1>13, <1>14, <1>15 DEF DocInv

(* A source fails, and is named among the failed (_rewrite_link_sources).  *)
LEMMA RewriteFailsStep ==
  ASSUME DocInv, NEW c \in Client, NEW s \in Path, RewriteFails(c, s)
  PROVE  DocInv'
<1>1. /\ op[c].step = "rewrite" /\ GivesUp(c, s) /\ mishaps < MaxMishaps /\ mishaps' = mishaps + 1
      /\ UNCHANGED <<disk, rows, dirty, ledger, lock, known, ready, late, outside, touched,
                     unsaid, broken, ops>>
  BY DEF RewriteFails, GivesUp, Mishap
<1>2. PICK o \in Busy :
        /\ op' = [op EXCEPT ![c] = o] /\ Alike(o, op[c]) /\ o.step = "rewrite"
        /\ o.back = op[c].back /\ o.read = None /\ o.todo = op[c].todo \ {s}
        /\ o.done = op[c].done /\ o.failed = op[c].failed \cup {s}
  BY <1>1, FailMoves
<1>3. o.links = op[c].links /\ o.map = op[c].map
  BY <1>2 DEF Alike
<1>4. mishaps' \in 0..MaxMishaps
  BY <1>1, BoundsAreNat DEF DocInv, CountsTyped
<1>5. /\ VaultTyped' /\ ClientsTyped' /\ CountsTyped' /\ LockIsHeld' /\ LedgerKept'
      /\ MovesAway' /\ CheckedStands' /\ RowsTold' /\ UnsaidIsHeld' /\ FreshRows'
      /\ op'[c] = o /\ \A d \in Client : d # c => op'[d].step = "rest"
  BY <1>1, <1>2, <1>4, QuietRewrite
<1>6. BackKept'
  <2>1. ListOk(op[c], late[c])
    BY ListWas
  <2>2. ListOk(o, late'[c])
    BY <1>1, <1>2, <1>3, <2>1 DEF ListOk
  <2>3. QED
    BY <1>5, <2>2, OnlyHisList
<1>7. LinksWillFollow'
  <2>1. ASSUME o.links, NEW q \in Path, Links(c, q)', ~Passed(c, q)'
        PROVE  Following(c, q)'
    <3>1. Links(c, q) /\ ~Passed(c, q) /\ q # s
      BY <1>1, <1>2, <1>3, <1>5, <2>1 DEF Links, Passed
    <3>2. Following(c, q)
      BY <1>1, <1>3, <2>1, <3>1 DEF DocInv, LinksWillFollow
    <3>3. q \in op[c].todo /\ op[c].back[q] = disk[q].to
      BY <1>1, <3>2 DEF Following
    <3>4. QED
      BY <1>1, <1>2, <1>5, <3>1, <3>3 DEF Following
  <2>2. QED
    BY <1>5, <2>1, OnlyHisNotes
<1>8. QED
  BY <1>5, <1>6, <1>7 DEF DocInv

(* A source that was written anew and then failed: it is among the failed, *)
(* and left behind (atomic_write's chmod).                                 *)
LEMMA RewriteThenFailsStep ==
  ASSUME DocInv, NEW c \in Client, NEW s \in Path, RewriteThenFails(c, s)
  PROVE  DocInv'
<1> DEFINE new == Relinked(c)
<1>1. /\ op[c].step = "rewrite" /\ op[c].read # None /\ s = op[c].read.at /\ GivesUp(c, s)
      /\ disk' = [disk EXCEPT ![s] = new] /\ broken' = broken \cup {s}
      /\ unsaid' = unsaid \cup {s} /\ Learn(Client \ {c}, {s})
      /\ UNCHANGED <<rows, dirty, ledger, lock, known, ready, outside, touched, ops, mishaps>>
  BY DEF RewriteThenFails, GivesUp, Changes
<1>2. PICK o \in Busy :
        /\ op' = [op EXCEPT ![c] = o] /\ Alike(o, op[c]) /\ o.step = "rewrite"
        /\ o.back = op[c].back /\ o.read = None /\ o.todo = op[c].todo \ {s}
        /\ o.done = op[c].done /\ o.failed = op[c].failed \cup {s}
  BY <1>1, FailMoves
<1>3. o.links = op[c].links /\ o.map = op[c].map
  BY <1>2 DEF Alike
<1>4. new \in Content
  BY <1>1, RelinkedAway
<1> HIDE DEF new
<1>5. disk'[s] = new /\ \A q \in Path : q # s => disk'[q] = disk[q]
  BY <1>1 DEF DocInv, VaultTyped
<1>6. late' \in [Client -> SUBSET Path] /\ late'[c] = late[c] /\ FreshRows'
  <2>1. PICK P : P = {s}
    OBVIOUS
  <2>2. P \subseteq Path /\ Learn(Client \ {c}, P) /\ \A q \in Path \ P : disk'[q] = disk[q]
    BY <1>1, <1>5, <2>1
  <2>3. QED
    BY <1>1, <1>2, <1>3, <2>2, Learned
<1>7. /\ op'[c] = o
      /\ \A d \in Client : d # c => op[d].step = "rest" /\ op'[d] = op[d]
      /\ ClientsTyped' /\ LockIsHeld' /\ MovesAway' /\ CheckedStands'
  BY <1>1, <1>2, <1>6, Advance
<1>8. VaultTyped' /\ CountsTyped' /\ LedgerKept'
  BY <1>1, <1>4 DEF DocInv, VaultTyped, CountsTyped, LedgerKept
<1>9. RowsTold'
  <2>1. ASSUME NEW p \in Path, rows[p] # LinkOf(disk'[p]), p # s
        PROVE  p \in dirty \cup outside \cup broken \/ p \in unsaid
    BY <1>5, <2>1 DEF DocInv, RowsTold
  <2>2. \A p \in Path : rows[p] # LinkOf(disk'[p]) =>
           p \in dirty \cup outside \cup broken' \/ p \in unsaid'
    BY <1>1, <2>1
  <2>3. QED
    BY <1>1, <1>2, <1>7, <2>2 DEF RowsTold
<1>10. UnsaidIsHeld'
  <2>1. Marked(op[c]) \subseteq Marked(o)
    BY <1>2, MarksAlike
  <2>2. \A p \in unsaid : p \in broken \/ p \in Marked(op[c])
    BY <1>7 DEF DocInv, UnsaidIsHeld
  <2>3. \A p \in unsaid' : p \in broken' \/ p \in Marked(o)
    BY <1>1, <2>1, <2>2
  <2>4. QED
    BY <1>2, <1>7, <2>3 DEF UnsaidIsHeld
<1>11. BackKept'
  <2>1. ListOk(op[c], late[c])
    BY ListWas
  <2>2. ListOk(o, late'[c])
    BY <1>1, <1>2, <1>3, <2>1 DEF ListOk
  <2>3. QED
    BY <1>7, <2>2, OnlyHisList
<1>12. LinksWillFollow'
  <2>1. ASSUME o.links, NEW q \in Path, Links(c, q)', ~Passed(c, q)'
        PROVE  Following(c, q)'
    <3>1. q # s /\ disk'[q] = disk[q]
      BY <1>2, <1>5, <1>7, <2>1 DEF Passed
    <3>2. Links(c, q) /\ ~Passed(c, q)
      BY <1>2, <1>3, <1>6, <1>7, <2>1, <3>1 DEF Links, Passed
    <3>3. Following(c, q)
      BY <1>1, <1>3, <2>1, <3>2 DEF DocInv, LinksWillFollow
    <3>4. q \in op[c].todo /\ op[c].back[q] = disk[q].to
      BY <1>1, <3>3 DEF Following
    <3>5. QED
      BY <1>2, <1>7, <3>1, <3>4 DEF Following
  <2>2. QED
    BY <1>7, <2>1, OnlyHisNotes
<1>13. QED
  BY <1>6, <1>7, <1>8, <1>9, <1>10, <1>11, <1>12 DEF DocInv

(* No source is left: whatever still links to a place that was left is an  *)
(* exception (_rewrite_link_sources).                                      *)
LEMMA RewritesDoneStep ==
  ASSUME DocInv, NEW c \in Client, RewritesDone(c)
  PROVE  DocInv'
<1>1. /\ op[c].step = "rewrite" /\ op[c].todo = {} /\ op' = [op EXCEPT ![c].step = "mark"]
      /\ UNCHANGED <<disk, rows, dirty, ledger, lock, known, ready, late, outside, touched,
                     unsaid, broken, ops, mishaps>>
  BY DEF RewritesDone
<1>2. PICK o \in Busy :
        /\ op' = [op EXCEPT ![c] = o] /\ Alike(o, op[c]) /\ o.step = "mark"
        /\ o.back = op[c].back /\ o.todo = op[c].todo /\ o.read = op[c].read
        /\ o.done = op[c].done /\ o.failed = op[c].failed
  BY <1>1, StepMoves
<1>3. o.links = op[c].links /\ o.map = op[c].map
  BY <1>2 DEF Alike
<1>4. mishaps' \in 0..MaxMishaps
  BY <1>1 DEF DocInv, CountsTyped
<1>5. /\ VaultTyped' /\ ClientsTyped' /\ CountsTyped' /\ LockIsHeld' /\ LedgerKept'
      /\ MovesAway' /\ CheckedStands' /\ RowsTold' /\ UnsaidIsHeld' /\ FreshRows'
      /\ op'[c] = o /\ \A d \in Client : d # c => op'[d].step = "rest"
  BY <1>1, <1>2, <1>4, QuietRewrite
<1>6. BackKept'
  <2>1. ListOk(o, late'[c])
    BY <1>2 DEF ListOk
  <2>2. QED
    BY <1>5, <2>1, OnlyHisList
<1>7. LinksWillFollow'
  <2>1. ASSUME o.links, NEW q \in Path, Links(c, q)' PROVE Passed(c, q)'
    <3>1. Links(c, q)
      BY <1>1, <1>3, <1>5, <2>1 DEF Links
    <3>2. Passed(c, q) \/ Following(c, q)
      BY <1>1, <1>3, <2>1, <3>1 DEF DocInv, LinksWillFollow
    <3>3. ~Following(c, q)
      BY <1>1 DEF Following
    <3>4. QED
      BY <1>1, <1>2, <1>3, <1>5, <3>2, <3>3 DEF Passed
  <2>2. QED
    BY <1>5, <2>1, OnlyHisNotes
<1>8. QED
  BY <1>5, <1>6, <1>7 DEF DocInv

-----------------------------------------------------------------------------
(* An operation marks, tells and ends.                                     *)

(* Every place it wrote, left or rewrote is marked (document.py:1331-1344, *)
(* 1702-1706).                                                             *)
LEMMA MarkStep ==
  ASSUME DocInv, NEW c \in Client, Mark(c)
  PROVE  DocInv'
<1>1. /\ op[c].step = "mark" /\ op' = [op EXCEPT ![c].step = "fire"]
      /\ dirty' = dirty \cup Marked(op[c])
      /\ UNCHANGED <<disk, rows, ledger, lock, known, ready, late, outside, touched, unsaid,
                     broken, ops, mishaps>>
  BY DEF Mark
<1>2. PICK o \in Busy :
        /\ op' = [op EXCEPT ![c] = o] /\ Alike(o, op[c]) /\ o.step = "fire"
        /\ o.back = op[c].back /\ o.todo = op[c].todo /\ o.read = op[c].read
        /\ o.done = op[c].done /\ o.failed = op[c].failed
  BY <1>1, StepMoves
<1>3. o.links = op[c].links /\ o.map = op[c].map
  BY <1>2 DEF Alike
<1>4. late' \in [Client -> SUBSET Path]
  BY <1>1 DEF DocInv, ClientsTyped
<1>5. /\ op'[c] = o /\ op[c] \in Busy
      /\ \A d \in Client : d # c => op[d].step = "rest" /\ op'[d] = op[d]
      /\ ClientsTyped' /\ LockIsHeld' /\ MovesAway' /\ CheckedStands'
  BY <1>1, <1>2, <1>4, Advance
<1>6. FreshRows'
  BY <1>1, <1>2, <1>3, Unlearned
<1>7. Marked(op[c]) \subseteq Path
  <2>1. op[c].map \in Map
    BY <1>5 DEF Busy
  <2>2. DOMAIN op[c].map \subseteq Path /\ Image(op[c].map) \subseteq Path
    BY <2>1, MapPaths DEF Image
  <2>3. op[c].path \in Path \cup {None} /\ op[c].done \subseteq Path
    BY <1>5 DEF Busy
  <2>4. QED
    BY <2>2, <2>3 DEF Marked
<1>8. VaultTyped' /\ CountsTyped' /\ LedgerKept'
  BY <1>1, <1>7 DEF DocInv, VaultTyped, CountsTyped, LedgerKept
<1>9. Marked(op[c]) \subseteq Marked(o)
  BY <1>2, MarksAlike
<1>10. \A p \in unsaid : p \in broken \/ p \in Marked(op[c])
  BY <1>5 DEF DocInv, UnsaidIsHeld
<1>11. RowsTold'
  BY <1>1, <1>10 DEF DocInv, RowsTold
<1>12. UnsaidIsHeld'
  BY <1>1, <1>2, <1>5, <1>9, <1>10 DEF UnsaidIsHeld
<1>13. BackKept'
  <2>1. ListOk(o, late'[c])
    BY <1>2 DEF ListOk
  <2>2. QED
    BY <1>5, <2>1, OnlyHisList
<1>14. LinksWillFollow'
  <2>1. ASSUME o.links, NEW q \in Path, Links(c, q)' PROVE Passed(c, q)'
    <3>1. Links(c, q)
      BY <1>1, <1>3, <1>5, <2>1 DEF Links
    <3>2. Passed(c, q) \/ Following(c, q)
      BY <1>1, <1>3, <2>1, <3>1 DEF DocInv, LinksWillFollow
    <3>3. ~Following(c, q)
      BY <1>1 DEF Following
    <3>4. QED
      BY <1>1, <1>2, <1>3, <1>5, <3>2, <3>3 DEF Passed
  <2>2. QED
    BY <1>5, <2>1, OnlyHisNotes
<1>15. QED
  BY <1>5, <1>6, <1>8, <1>11, <1>12, <1>13, <1>14 DEF DocInv

(* An operation ends, and what it has not told is left behind.             *)
LEMMA EndStep ==
  ASSUME DocInv, NEW c \in Client, op[c].step # "rest", Release(c),
         UNCHANGED <<disk, rows, dirty, ledger, known, outside, ops>>, mishaps' \in 0..MaxMishaps,
         broken \subseteq broken', broken' \subseteq Path, unsaid' \subseteq broken',
         \A p \in Path : rows[p] # LinkOf(disk[p]) => p \in dirty \cup outside \cup broken'
  PROVE  DocInv'
<1>1. /\ lock' = None /\ op' = [op EXCEPT ![c] = Rest] /\ ready' = ready \ {c}
      /\ late' = [late EXCEPT ![c] = {}] /\ touched' = {}
  BY DEF Release, Forgets
<1>2. op'[c] = Rest /\ Rest.step = "rest"
  BY <1>1, BusyIsBusy DEF DocInv, ClientsTyped
<1>3. \A d \in Client : d # c => op[d].step = "rest" /\ op'[d] = op[d] /\ late'[d] = late[d]
  BY <1>1, Alone DEF DocInv, ClientsTyped
<1>4. \A d \in Client : op'[d].step = "rest"
  BY <1>2, <1>3
<1>5. ClientsTyped'
  BY <1>1 DEF DocInv, ClientsTyped
<1>6. VaultTyped' /\ CountsTyped' /\ LedgerKept'
  BY DEF DocInv, VaultTyped, CountsTyped, LedgerKept
<1>7. LockIsHeld'
  BY <1>1, <1>4, NotContents DEF LockIsHeld
<1>8. MovesAway' /\ CheckedStands' /\ BackKept' /\ LinksWillFollow'
  BY <1>4 DEF MovesAway, CheckedStands, BackKept, LinksWillFollow
<1>9. RowsTold' /\ UnsaidIsHeld'
  BY DEF RowsTold, UnsaidIsHeld
<1>10. FreshRows'
  <2>1. ASSUME NEW d \in ready', NEW p \in Path, rows[p] # LinkOf(disk[p]) PROVE p \in late'[d]
    <3>1. d \in ready /\ d # c /\ d \in Client
      BY <1>1 DEF DocInv, ClientsTyped
    <3>2. QED
      BY <1>3, <2>1, <3>1 DEF DocInv, FreshRows
  <2>2. QED
    BY <1>4, <2>1 DEF FreshRows
<1>11. QED
  BY <1>5, <1>6, <1>7, <1>8, <1>9, <1>10 DEF DocInv

(* An operation that raises leaves what it had changed behind.             *)
LEMMA RaiseStep ==
  ASSUME DocInv, NEW c \in Client, op[c].step # "rest", Raise(c), mishaps' \in 0..MaxMishaps
  PROVE  DocInv'
<1>1. /\ Release(c) /\ broken' = broken \cup unsaid
      /\ UNCHANGED <<disk, rows, dirty, ledger, known, outside, unsaid, ops>>
  BY DEF Raise
<1>2. broken \subseteq broken' /\ broken' \subseteq Path /\ unsaid' \subseteq broken'
  BY <1>1 DEF DocInv, VaultTyped
<1>3. \A p \in Path : rows[p] # LinkOf(disk[p]) => p \in dirty \cup outside \cup broken'
  BY <1>1 DEF DocInv, RowsTold
<1>4. QED
  BY <1>1, <1>2, <1>3, EndStep

(* Between its marks and its end an operation has no row to answer for but *)
(* the marked ones.                                                        *)
LEMMA MarkedIsTold ==
  ASSUME DocInv, NEW c \in Client, op[c].step \in {"fire", "prune"}
  PROVE  /\ \A p \in Path : rows[p] # LinkOf(disk[p]) => p \in dirty \cup outside \cup broken
         /\ \A p \in unsaid : p \in broken \/ (op[c].step = "fire" /\ p \in Marked(op[c]))
<1>1. \A d \in Client : d # c => op[d].step = "rest"
  BY Alone
<1>2. \A d \in Client : op[d].step \notin {"move", "rewrite", "mark"}
  BY <1>1
<1>3. \A p \in Path : rows[p] # LinkOf(disk[p]) => p \in dirty \cup outside \cup broken
  BY <1>2 DEF DocInv, RowsTold
<1>4. \A p \in unsaid : p \in broken \/ (op[c].step = "fire" /\ p \in Marked(op[c]))
  BY <1>1 DEF DocInv, UnsaidIsHeld
<1>5. QED
  BY <1>3, <1>4

(* The callback is told of every mark; a folder move goes on to prune the  *)
(* tree it left (document.py:1830-1835).                                   *)
LEMMA FireStep ==
  ASSUME DocInv, NEW c \in Client, Fire(c)
  PROVE  DocInv'
<1>1. /\ op[c].step = "fire" /\ unsaid' = unsaid \ Marked(op[c])
      /\ UNCHANGED <<disk, rows, dirty, ledger, known, outside, broken, ops, mishaps>>
  BY DEF Fire, Said
<1>2. /\ \A p \in Path : rows[p] # LinkOf(disk[p]) => p \in dirty \cup outside \cup broken
      /\ unsaid' \subseteq broken /\ unsaid' \subseteq unsaid
  BY <1>1, MarkedIsTold
<1>3. mishaps' \in 0..MaxMishaps
  BY <1>1 DEF DocInv, CountsTyped
<1>4. CASE Release(c)
  <2>1. broken \subseteq broken' /\ broken' \subseteq Path /\ unsaid' \subseteq broken'
    BY <1>1, <1>2 DEF DocInv, VaultTyped
  <2>2. \A p \in Path : rows[p] # LinkOf(disk[p]) => p \in dirty \cup outside \cup broken'
    BY <1>1, <1>2
  <2>3. op[c].step # "rest"
    BY <1>1
  <2>4. QED
    BY <1>1, <1>3, <1>4, <2>1, <2>2, <2>3, EndStep
<1>5. CASE op' = [op EXCEPT ![c].step = "prune"] /\ UNCHANGED <<lock, ready, late, touched>>
  <2>1. PICK o \in Busy :
          /\ op' = [op EXCEPT ![c] = o] /\ Alike(o, op[c]) /\ o.step = "prune"
          /\ o.back = op[c].back /\ o.todo = op[c].todo /\ o.read = op[c].read
          /\ o.done = op[c].done /\ o.failed = op[c].failed
    BY <1>1, <1>5, StepMoves
  <2>2. o.links = op[c].links /\ o.map = op[c].map
    BY <2>1 DEF Alike
  <2>3. late' \in [Client -> SUBSET Path]
    BY <1>5 DEF DocInv, ClientsTyped
  <2>4. /\ op'[c] = o /\ op[c] \in Busy
        /\ \A d \in Client : d # c => op[d].step = "rest" /\ op'[d] = op[d]
        /\ ClientsTyped' /\ LockIsHeld' /\ MovesAway' /\ CheckedStands'
    BY <1>1, <1>5, <2>1, <2>3, Advance
  <2>5. FreshRows'
    BY <1>1, <1>5, <2>1, <2>2, Unlearned
  <2>6. VaultTyped' /\ CountsTyped' /\ LedgerKept'
    BY <1>1, <1>2 DEF DocInv, VaultTyped, CountsTyped, LedgerKept
  <2>7. RowsTold' /\ UnsaidIsHeld'
    BY <1>1, <1>2 DEF RowsTold, UnsaidIsHeld
  <2>8. BackKept'
    <3>1. ListOk(o, late'[c])
      BY <2>1 DEF ListOk
    <3>2. QED
      BY <2>4, <3>1, OnlyHisList
  <2>9. LinksWillFollow'
    <3>1. ASSUME o.links, NEW q \in Path, Links(c, q)' PROVE Passed(c, q)'
      <4>1. Links(c, q)
        BY <1>1, <2>2, <2>4, <3>1 DEF Links
      <4>2. Passed(c, q) \/ Following(c, q)
        BY <1>1, <2>2, <3>1, <4>1 DEF DocInv, LinksWillFollow
      <4>3. ~Following(c, q)
        BY <1>1 DEF Following
      <4>4. QED
        BY <1>5, <2>1, <2>2, <2>4, <4>2, <4>3 DEF Passed
    <3>2. QED
      BY <2>4, <3>1, OnlyHisNotes
  <2>10. QED
    BY <2>4, <2>5, <2>6, <2>7, <2>8, <2>9 DEF DocInv
<1>6. QED
  BY <1>4, <1>5 DEF Fire

(* It raises at an unreadable note, and names what it did not tell         *)
(* (document.py:1830-1835).                                                *)
LEMMA FireRaisesStep ==
  ASSUME DocInv, NEW c \in Client, FireRaises(c)
  PROVE  DocInv'
<1>1. /\ op[c].step = "fire" /\ unsaid' \subseteq unsaid /\ broken' = broken \cup unsaid'
      /\ Release(c) /\ UNCHANGED <<disk, rows, dirty, ledger, known, outside, ops, mishaps>>
  BY DEF FireRaises
<1>2. \A p \in Path : rows[p] # LinkOf(disk[p]) => p \in dirty \cup outside \cup broken
  BY <1>1, MarkedIsTold
<1>3. mishaps' \in 0..MaxMishaps
  BY <1>1 DEF DocInv, CountsTyped
<1>4. broken \subseteq broken' /\ broken' \subseteq Path /\ unsaid' \subseteq broken'
  BY <1>1 DEF DocInv, VaultTyped
<1>5. \A p \in Path : rows[p] # LinkOf(disk[p]) => p \in dirty \cup outside \cup broken'
  BY <1>1, <1>2
<1>6. op[c].step # "rest"
  BY <1>1
<1>7. QED
  BY <1>1, <1>3, <1>4, <1>5, <1>6, EndStep

(* The write raises over a note that is written: it is left behind, and    *)
(* the other calls miss it (atomic_write's chmod).                         *)
LEMMA ReplaceThenFailsStep ==
  ASSUME DocInv, NEW c \in Client, ReplaceThenFails(c)
  PROVE  DocInv'
<1> DEFINE p == op[c].path
<1>1. /\ op[c].step = "replace" /\ op[c].put # Absent
      /\ disk' = [disk EXCEPT ![p] = op[c].put]
      /\ unsaid' = unsaid \cup {p} /\ broken' = broken \cup unsaid'
      /\ lock' = None /\ op' = [op EXCEPT ![c] = Rest] /\ ready' = ready \ {c} /\ touched' = {}
      /\ late' = [d \in Client |-> IF d = c THEN {} ELSE IF d \in ready THEN late[d] \cup {p}
                                                         ELSE late[d]]
      /\ UNCHANGED <<rows, dirty, ledger, known, outside, ops, mishaps>>
  BY DEF ReplaceThenFails, EndsOver
<1>2. p \in Path /\ op[c].put \in Content
  BY <1>1, Alone DEF DocInv, MovesAway, Busy
<1>3. op'[c] = Rest /\ Rest.step = "rest"
  BY <1>1, BusyIsBusy DEF DocInv, ClientsTyped
<1>4. \A d \in Client : d # c => op[d].step = "rest" /\ op'[d] = op[d]
  BY <1>1, Alone DEF DocInv, ClientsTyped
<1>5. \A d \in Client : op'[d].step = "rest"
  BY <1>3, <1>4
<1>6. VaultTyped'
  BY <1>1, <1>2 DEF DocInv, VaultTyped
<1>7. ClientsTyped'
  <2>1. late' \in [Client -> SUBSET Path]
    BY <1>1, <1>2 DEF DocInv, ClientsTyped
  <2>2. QED
    BY <1>1, <2>1 DEF DocInv, ClientsTyped
<1>8. CountsTyped' /\ LedgerKept'
  BY <1>1 DEF DocInv, CountsTyped, LedgerKept
<1>9. LockIsHeld'
  BY <1>1, <1>5, NotContents DEF LockIsHeld
<1>10. MovesAway' /\ CheckedStands' /\ BackKept' /\ LinksWillFollow'
  BY <1>5 DEF MovesAway, CheckedStands, BackKept, LinksWillFollow
<1>11. \A q \in Path \ {p} : disk'[q] = disk[q]
  BY <1>1 DEF DocInv, VaultTyped
<1>12. RowsTold' /\ UnsaidIsHeld'
  <2>1. \A d \in Client : op[d].step \notin {"move", "rewrite", "mark"}
    BY <1>1, <1>4
  <2>2. \A q \in Path : rows[q] # LinkOf(disk[q]) => q \in dirty \cup outside \cup broken
    BY <2>1 DEF DocInv, RowsTold
  <2>3. \A q \in Path : rows'[q] # LinkOf(disk'[q]) => q \in dirty' \cup outside' \cup broken'
    BY <1>1, <1>11, <2>2
  <2>4. unsaid' \subseteq broken'
    BY <1>1
  <2>5. QED
    BY <2>3, <2>4 DEF RowsTold, UnsaidIsHeld
<1>13. FreshRows'
  <2>1. ASSUME NEW d \in ready', NEW q \in Path, rows[q] # LinkOf(disk'[q]) PROVE q \in late'[d]
    <3>1. d \in ready /\ d # c /\ d \in Client
      BY <1>1 DEF DocInv, ClientsTyped
    <3>2. late'[d] = late[d] \cup {p}
      BY <1>1, <3>1
    <3>3. CASE q = p
      BY <3>2, <3>3
    <3>4. CASE q # p
      <4>1. q \in late[d]
        BY <1>4, <1>11, <2>1, <3>1, <3>4 DEF DocInv, FreshRows
      <4>2. QED
        BY <3>2, <4>1
    <3>5. QED
      BY <3>3, <3>4
  <2>2. QED
    BY <1>1, <1>5, <2>1 DEF FreshRows
<1>14. QED
  BY <1>6, <1>7, <1>8, <1>9, <1>10, <1>12, <1>13 DEF DocInv

(* The new text goes into what the call reads after its check: unless an   *)
(* editor came between, that is what its etag names (document.py:913-920,  *)
(* 1058-1072).                                                             *)
LEMMA ReadForEditStep ==
  ASSUME DocInv, NEW c \in Client, ReadForEdit(c)
  PROVE  DocInv'
<1> DEFINE p == op[c].path
<1>1. op[c].step = "edit" /\ UNCHANGED mishaps
  BY DEF ReadForEdit
<1>2. CASE Raise(c)
  BY <1>1, <1>2, RaiseStep DEF DocInv, CountsTyped
<1>3. CASE ~Raise(c)
  <2>1. PICK t \in Text :
          op' = [op EXCEPT ![c] = Replacing(p, IF op[c].base = None THEN disk[p] ELSE op[c].base,
                                            [disk[p] EXCEPT !.text = t])]
    BY <1>3 DEF ReadForEdit
  <2>2. /\ disk[p] \in Content
        /\ UNCHANGED <<disk, rows, dirty, ledger, lock, known, ready, late, outside, touched,
                       unsaid, broken, ops>>
    BY <1>3 DEF ReadForEdit
  <2>3. op[c] \in Busy /\ \A d \in Client : d # c => op[d].step = "rest"
    BY <1>1, Alone
  <2>4. p \in Path
    BY <1>1 DEF DocInv, MovesAway
  <2>5. PICK b : b = IF op[c].base = None THEN disk[p] ELSE op[c].base
    OBVIOUS
  <2>6. PICK x : x = [disk[p] EXCEPT !.text = t]
    OBVIOUS
  <2>7. b \in Content \cup {None, Absent} /\ x \in Content
    BY <2>2, <2>3, <2>5, <2>6 DEF Busy, Content
  <2>8. b # None /\ p \notin touched => disk[p] = b
    BY <1>1, <2>5 DEF DocInv, CheckedStands
  <2>9. PICK o : o = Replacing(p, b, x)
    OBVIOUS
  <2>10. /\ o \in Busy /\ o.step = "replace" /\ o.path = p /\ o.base = b /\ ~o.links
         /\ DOMAIN o.map = {}
    BY <2>4, <2>7, <2>9, ReplacingTyped, EmptyMap DEF Replacing
  <2>11. op' = [op EXCEPT ![c] = o]
    BY <2>1, <2>5, <2>6, <2>9
  <2>12. op'[c] = o /\ \A d \in Client : d # c => op'[d] = op[d]
    BY <2>11 DEF DocInv, ClientsTyped
  <2>13. VaultTyped' /\ CountsTyped' /\ LedgerKept'
    BY <1>1, <2>2 DEF DocInv, VaultTyped, CountsTyped, LedgerKept
  <2>14. ClientsTyped'
    BY <2>2, <2>10, <2>11 DEF DocInv, ClientsTyped
  <2>15. LockIsHeld'
    BY <1>1, <2>2, <2>10, <2>12 DEF DocInv, LockIsHeld
  <2>16. MovesAway' /\ BackKept' /\ LinksWillFollow'
    BY <2>3, <2>4, <2>10, <2>12 DEF MovesAway, BackKept, LinksWillFollow
  <2>17. CheckedStands'
    BY <2>2, <2>3, <2>8, <2>10, <2>12 DEF CheckedStands
  <2>18. RowsTold' /\ UnsaidIsHeld'
    BY <1>1, <2>2, <2>3 DEF DocInv, RowsTold, UnsaidIsHeld
  <2>19. FreshRows'
    BY <2>2, <2>3, <2>10, <2>12 DEF DocInv, FreshRows, ClientsTyped
  <2>20. QED
    BY <2>13, <2>14, <2>15, <2>16, <2>17, <2>18, <2>19 DEF DocInv
<1>4. QED
  BY <1>2, <1>3

(* rmtree of the folder that was left: what it takes was dropped there by  *)
(* others, and is outside what the index was told.                         *)
LEMMA PruneStep ==
  ASSUME DocInv, NEW c \in Client, Prune(c)
  PROVE  DocInv'
<1>1. PICK D : D = {p \in DOMAIN Folder : disk[p] # Absent}
  OBVIOUS
<1>2. /\ op[c].step = "prune"
      /\ disk' = [p \in Path |-> IF p \in D THEN Absent ELSE disk[p]]
      /\ outside' = outside \cup D
      /\ lock' = None /\ op' = [op EXCEPT ![c] = Rest] /\ ready' = ready \ {c} /\ touched' = {}
      /\ late' = [d \in Client |-> IF d = c THEN {} ELSE IF d \in ready THEN late[d] \cup D
                                                         ELSE late[d]]
      /\ UNCHANGED <<rows, dirty, ledger, known, unsaid, broken, ops, mishaps>>
  BY <1>1 DEF Prune, EndsOver
<1>3. D \subseteq Path
  BY <1>1, FolderMovesAway
<1>4. op'[c] = Rest /\ Rest.step = "rest"
  BY <1>2, BusyIsBusy DEF DocInv, ClientsTyped
<1>5. \A d \in Client : d # c => op[d].step = "rest" /\ op'[d] = op[d]
  BY <1>2, Alone DEF DocInv, ClientsTyped
<1>6. \A d \in Client : op'[d].step = "rest"
  BY <1>4, <1>5
<1>7. VaultTyped'
  BY <1>2, <1>3 DEF DocInv, VaultTyped
<1>8. ClientsTyped'
  <2>1. late' \in [Client -> SUBSET Path]
    BY <1>2, <1>3 DEF DocInv, ClientsTyped
  <2>2. QED
    BY <1>2, <2>1 DEF DocInv, ClientsTyped
<1>9. CountsTyped' /\ LedgerKept'
  BY <1>2 DEF DocInv, CountsTyped, LedgerKept
<1>10. LockIsHeld'
  BY <1>2, <1>6, NotContents DEF LockIsHeld
<1>11. MovesAway' /\ CheckedStands' /\ BackKept' /\ LinksWillFollow'
  BY <1>6 DEF MovesAway, CheckedStands, BackKept, LinksWillFollow
<1>12. \A p \in Path \ D : disk'[p] = disk[p]
  BY <1>2
<1>13. RowsTold' /\ UnsaidIsHeld'
  <2>1. /\ \A p \in Path : rows[p] # LinkOf(disk[p]) => p \in dirty \cup outside \cup broken
        /\ \A p \in unsaid : p \in broken
    BY <1>2, MarkedIsTold
  <2>2. RowsTold'
    BY <1>2, <1>12, <2>1 DEF RowsTold
  <2>3. UnsaidIsHeld'
    BY <1>2, <2>1 DEF UnsaidIsHeld
  <2>4. QED
    BY <2>2, <2>3
<1>14. FreshRows'
  <2>1. ASSUME NEW d \in ready', NEW p \in Path, rows[p] # LinkOf(disk'[p]) PROVE p \in late'[d]
    <3>1. d \in ready /\ d # c /\ d \in Client
      BY <1>2 DEF DocInv, ClientsTyped
    <3>2. late'[d] = late[d] \cup D
      BY <1>2, <3>1
    <3>3. CASE p \in D
      BY <3>2, <3>3
    <3>4. CASE p \notin D
      <4>1. p \in late[d]
        BY <1>5, <1>12, <2>1, <3>1, <3>4 DEF DocInv, FreshRows
      <4>2. QED
        BY <3>2, <4>1
    <3>5. QED
      BY <3>3, <3>4
  <2>2. QED
    BY <1>2, <1>6, <2>1 DEF FreshRows
<1>15. QED
  BY <1>7, <1>8, <1>9, <1>10, <1>11, <1>13, <1>14 DEF DocInv

-----------------------------------------------------------------------------
(* The theorems.                                                           *)

(* The server starts over an index that is current, with nobody in a call. *)
LEMMA DocStarts ==
  ASSUME DocInit
  PROVE  DocInv
<1>1. disk \in [Path -> Content \cup {Bad, Absent}]
  BY NotesAreContents DEF DocInit
<1>2. \A p \in Path : rows[p] = LinkOf(disk[p]) /\ LinkOf(disk[p]) \in Path \cup {None}
  BY <1>1 DEF DocInit, LinkOf, Content
<1>3. VaultTyped
  BY <1>1, <1>2 DEF DocInit, VaultTyped
<1>4. ClientsTyped /\ CountsTyped
  BY BoundsAreNat DEF DocInit, ClientsTyped, CountsTyped
<1>5. \A c \in Client : op[c].step = "rest"
  BY DEF DocInit, Rest
<1>6. LockIsHeld
  BY <1>5, NotContents DEF DocInit, LockIsHeld
<1>7. LedgerKept
  BY FS_EmptySet DEF DocInit, LedgerKept
<1>8. MovesAway /\ CheckedStands /\ BackKept /\ LinksWillFollow
  BY <1>5 DEF MovesAway, CheckedStands, BackKept, LinksWillFollow
<1>9. RowsTold /\ UnsaidIsHeld /\ FreshRows
  BY <1>2, <1>5 DEF DocInit, RowsTold, UnsaidIsHeld, FreshRows
<1>10. QED
  BY <1>3, <1>4, <1>6, <1>7, <1>8, <1>9 DEF DocInv

(* Every step of a client in an operation keeps the invariant.             *)
LEMMA WorkStep ==
  ASSUME DocInv, NEW c \in Client, Work(c)
  PROVE  DocInv'
<1>1. mishaps \in 0..MaxMishaps /\ (Mishap => mishaps' \in 0..MaxMishaps)
  BY BoundsAreNat DEF DocInv, CountsTyped, Mishap
<1>2. ASSUME ReplaceFails(c) PROVE DocInv'
  <2>1. op[c].step # "rest" /\ Raise(c) /\ (Mishap \/ UNCHANGED mishaps)
    BY <1>2 DEF ReplaceFails
  <2>2. QED
    BY <1>1, <2>1, RaiseStep
<1>3. ASSUME NEW p \in Path, MoveFails(c, p) PROVE DocInv'
  <2>1. op[c].step # "rest" /\ Raise(c) /\ (Mishap \/ UNCHANGED mishaps)
    BY <1>3 DEF MoveFails
  <2>2. QED
    BY <1>1, <2>1, RaiseStep
<1>4. ASSUME MovesDone(c) PROVE DocInv'
  <2>1. op[c].step # "rest" /\ UNCHANGED mishaps
    BY <1>4 DEF MovesDone
  <2>2. CASE Raise(c)
    BY <1>1, <2>1, <2>2, RaiseStep
  <2>3. CASE ~Raise(c)
    BY <1>4, <2>3, SourcesStep
  <2>4. QED
    BY <2>2, <2>3
<1>5. CASE ReadForEdit(c) \/ Replace(c) \/ ReplaceThenFails(c)
  BY <1>5, ReadForEditStep, ReplaceStep, ReplaceThenFailsStep
<1>6. ASSUME NEW p \in Path, \/ MoveFile(c, p) \/ RewriteRead(c, p)
                             \/ RewriteFails(c, p) \/ RewriteThenFails(c, p)
      PROVE  DocInv'
  BY <1>6, MoveFileStep, RewriteReadStep, RewriteFailsStep, RewriteThenFailsStep
<1>7. CASE RewriteReplace(c) \/ RewritesDone(c) \/ Mark(c)
  BY <1>7, RewriteReplaceStep, RewritesDoneStep, MarkStep
<1>8. CASE Fire(c) \/ FireRaises(c) \/ Prune(c)
  BY <1>8, FireStep, FireRaisesStep, PruneStep
<1>9. QED
  BY <1>2, <1>3, <1>4, <1>5, <1>6, <1>7, <1>8, Zenon DEF Work

(* Every step keeps it.                                                    *)
LEMMA DocStep ==
  ASSUME DocInv, [DocNext]_docVars
  PROVE  DocInv'
<1>1. ASSUME NEW c \in Client, Call(c) PROVE DocInv'
  <2>1. PICK o \in Busy : TakeLock(c, o) /\ Starts(c, o)
    BY <1>1, CallStarts
  <2>2. QED
    BY <2>1, TakeLockStep
<1>2. ASSUME NEW c \in Client, Work(c) PROVE DocInv'
  BY <1>2, WorkStep
<1>3. ASSUME NEW c \in Client, Refresh(c) \/ Refused(c) PROVE DocInv'
  BY <1>3, RefreshStep, RefusedStep
<1>4. ASSUME NEW c \in Client, NEW p \in Path, ClientReads(c, p) PROVE DocInv'
  BY <1>4, ClientReadsStep
<1>5. CASE IndexCatchesUp
  BY <1>5, IndexCatchesUpStep
<1>6. ASSUME NEW p \in Path, ExternalEdit(p) PROVE DocInv'
  BY <1>6, ExternalEditStep
<1>7. ASSUME NEW e \in ledger, Forget(e) PROVE DocInv'
  BY <1>7, ForgetStep
<1>8. CASE UNCHANGED docVars
  <2>1. UNCHANGED <<disk, rows, dirty, lock, op, ready, late, outside, touched, unsaid, broken>>
        /\ UNCHANGED <<ledger, known, ops, mishaps>>
    BY <1>8 DEF docVars
  <2>2. ClientsTyped' /\ CountsTyped' /\ LedgerKept'
    BY <2>1 DEF DocInv, ClientsTyped, CountsTyped, LedgerKept
  <2>3. QED
    BY <2>1, <2>2, Unmoved DEF DocInv
<1>9. QED
  BY <1>1, <1>2, <1>3, <1>4, <1>5, <1>6, <1>7, <1>8, Zenon DEF DocNext

(* The invariant of the mutations holds in every reachable state, whatever *)
(* the clients call and the editors outside change.                        *)
THEOREM DocInvariant == DocSpec => []DocInv
  BY DocStarts, DocStep, PTL DEF DocSpec

(* The types, with the ledger's single entry for each content and the tie  *)
(* between the lock and the operation under it (document.py write_scope,   *)
(* _rewrite_ledger.py record).                                             *)
THEOREM DocTypeInvariant == DocSpec => []DocTypeOK
<1>1. DocInv => DocTypeOK
  BY DEF DocInv, VaultTyped, CountsTyped, LockIsHeld, LedgerKept, DocTypeOK
<1>2. QED
  BY <1>1, DocInvariant, PTL

(* When a move has rewritten its sources, no note the index knew links to  *)
(* a place that was left, but for the failed ones and those changed by     *)
(* another since the refresh (document.py:1244-1246, 1735-1740).           *)
THEOREM LinksFollowHolds == DocSpec => []LinksFollow
<1>1. DocInv => LinksFollow
  <2> SUFFICES ASSUME DocInv, NEW c \in Client, op[c].step \in {"mark", "fire", "prune"},
                      op[c].links, NEW s \in Path, disk[s] \in Content,
                      disk[s].to \in DOMAIN op[c].map
               PROVE  \/ s \in late[c] \cup op[c].failed
                      \/ \E q \in DOMAIN op[c].map : op[c].map[q] = s /\ q \in late[c]
    BY DEF LinksFollow
  <2>1. Passed(c, s) \/ Following(c, s)
    BY DEF DocInv, LinksWillFollow, Links
  <2>2. ~Following(c, s)
    BY DEF Following
  <2>3. QED
    BY <2>1, <2>2 DEF Passed
<1>2. QED
  BY <1>1, DocInvariant, PTL

(* Between operations a row differs from its file only where it is marked, *)
(* changed outside or left by an operation that raised, and the callback   *)
(* has heard of every other change (document.py:1331-1344, 1702-1706,      *)
(* 1830-1835).                                                             *)
THEOREM EveryChangeIsToldHolds == DocSpec => []EveryChangeIsTold
<1>1. DocInv => EveryChangeIsTold
  <2> SUFFICES ASSUME DocInv, lock = None
               PROVE  /\ \A p \in Path : rows[p] # LinkOf(disk[p]) => p \in dirty \cup outside \cup broken
                      /\ unsaid \subseteq broken
    BY DEF EveryChangeIsTold
  <2>1. \A c \in Client : op[c].step = "rest"
    BY NotContents DEF DocInv, LockIsHeld
  <2>2. QED
    BY <2>1 DEF DocInv, RowsTold, UnsaidIsHeld
<1>2. QED
  BY <1>1, DocInvariant, PTL

(* A step of one client leaves the operations of the others.               *)
LEMMA WorkIsOwn ==
  ASSUME DocInv, NEW d \in Client, Work(d), NEW c \in Client, c # d
  PROVE  op'[c] = op[c]
<1>1. ASSUME NEW o, op' = [op EXCEPT ![d] = o] PROVE op'[c] = op[c]
  BY <1>1 DEF DocInv, ClientsTyped
<1>2. CASE Replace(d) \/ RewritesDone(d) \/ Mark(d)
  BY <1>2 DEF DocInv, ClientsTyped, Replace, RewritesDone, Mark
<1>3. CASE Raise(d) \/ Release(d) \/ Prune(d) \/ ReplaceThenFails(d)
  BY <1>1, <1>3 DEF Raise, Release, Prune, ReplaceThenFails, EndsOver
<1>4. CASE Fire(d) \/ FireRaises(d)
  BY <1>3, <1>4 DEF Fire, FireRaises, DocInv, ClientsTyped
<1>5. CASE ReplaceFails(d) \/ \E p \in Path : MoveFails(d, p)
  BY <1>3, <1>5 DEF ReplaceFails, MoveFails
<1>6. ASSUME NEW p \in Path, MoveFile(d, p) \/ RewriteRead(d, p) \/ GivesUp(d, p)
      PROVE  op'[c] = op[c]
  <2>1. \E o : op' = [op EXCEPT ![d] = o]
    <3>1. CASE MoveFile(d, p)
      BY <3>1, MoveMoves, Zenon
    <3>2. CASE RewriteRead(d, p)
      <4>1. CASE disk[p] \in Content /\ disk[p].to = op[d].back[p]
        <5>1. op' = [op EXCEPT ![d].read = [at |-> p, was |-> disk[p]]]
          BY <3>2, <4>1, Zenon DEF RewriteRead
        <5>2. QED
          BY <5>1, Zenon
      <4>2. CASE ~(disk[p] \in Content /\ disk[p].to = op[d].back[p])
        <5>1. op' = [op EXCEPT ![d].todo = @ \ {p}]
          BY <3>2, <4>2, Zenon DEF RewriteRead
        <5>2. QED
          BY <5>1, Zenon
      <4>3. QED
        BY <4>1, <4>2, Zenon
    <3>3. CASE GivesUp(d, p)
      BY <3>3, FailMoves, Zenon
    <3>4. QED
      BY <1>6, <3>1, <3>2, <3>3
  <2>2. QED
    BY <1>1, <2>1
<1>7. CASE RewriteReplace(d)
  BY <1>1, <1>7, RewriteMoves
<1>8. CASE MovesDone(d)
  BY <1>1, <1>3, <1>8, SourcesMoves
<1>9. ASSUME NEW p \in Path, RewriteFails(d, p) \/ RewriteThenFails(d, p) PROVE GivesUp(d, p)
  BY <1>9 DEF RewriteFails, RewriteThenFails
<1>10. CASE ReadForEdit(d)
  <2>1. CASE ~Raise(d)
    BY <1>1, <1>10, <2>1, Zenon DEF ReadForEdit
  <2>2. QED
    BY <1>3, <2>1
<1>11. QED
  BY <1>2, <1>3, <1>4, <1>5, <1>6, <1>7, <1>8, <1>9, <1>10, Zenon DEF Work

(* Whoever steps within an operation was not at rest.                      *)
LEMMA WorkerIsBusy ==
  ASSUME NEW c \in Client, Work(c)
  PROVE  op[c].step # "rest"
  BY DEF Work, ReadForEdit, Replace, ReplaceFails, ReplaceThenFails, MoveFile, MoveFails,
         RewriteRead, GivesUp, RewriteFails, RewriteThenFails, MovesDone, RewriteReplace,
         RewritesDone, Mark, Fire, FireRaises, Prune

(* Only its own call takes a client from rest.                             *)
LEMMA OnlyCallsBegin ==
  ASSUME DocInv, DocNext, NEW c \in Client, op[c].step = "rest", op'[c].step # "rest"
  PROVE  Call(c)
<1>1. ASSUME NEW d \in Client, Call(d), d # c PROVE FALSE
  <2>1. PICK o \in Busy : TakeLock(d, o)
    BY <1>1, CallStarts
  <2>2. op'[c] = op[c]
    BY <1>1, <2>1 DEF TakeLock, DocInv, ClientsTyped
  <2>3. QED
    BY <2>2
<1>2. ASSUME NEW d \in Client, Work(d) PROVE FALSE
  <2>1. CASE d = c
    BY <1>2, <2>1, WorkerIsBusy
  <2>2. CASE d # c
    BY <1>2, <2>2, WorkIsOwn
  <2>3. QED
    BY <2>1, <2>2
<1>3. op' # op
  OBVIOUS
<1>4. ASSUME NEW d \in Client, Refresh(d) \/ Refused(d) \/ \E p \in Path : ClientReads(d, p)
      PROVE  FALSE
  BY <1>3, <1>4 DEF Refresh, Refused, ClientReads
<1>5. CASE IndexCatchesUp \/ \E p \in Path : ExternalEdit(p)
  BY <1>3, <1>5 DEF IndexCatchesUp, ExternalEdit
<1>6. ASSUME NEW e \in ledger, Forget(e) PROVE FALSE
  BY <1>3, <1>6 DEF Forget
<1>7. QED
  BY <1>1, <1>2, <1>4, <1>5, <1>6 DEF DocNext

(* An etag never lets a call go over a text its caller has not seen: what  *)
(* it replaces is what it checked, unless an editor outside came between,  *)
(* and what a rename moves has the text its caller read, however long the  *)
(* chain of recorded rewrites that vouched for it (document.py:789-797,    *)
(* 985, 1224; _rewrite_ledger.py:10-18).                                   *)
THEOREM NoLostUpdateHolds == DocSpec => NoLostUpdate
<1>1. DocInv /\ [DocNext]_docVars
        => [\A c \in Client : ReplacesWhatItChecked(c) /\ MovesTheTextRead(c)]_docVars
  <2> SUFFICES ASSUME DocInv, DocNext, NEW c \in Client
               PROVE  ReplacesWhatItChecked(c) /\ MovesTheTextRead(c)
    BY Zenon
  <2>1. ReplacesWhatItChecked(c)
    BY DEF DocInv, CheckedStands, ReplacesWhatItChecked
  <2>2. ASSUME op[c].step = "rest", op'[c].step = "move", op'[c].base # None
        PROVE  \A p \in DOMAIN op'[c].map : disk[p].text = op'[c].base.text
    <3>1. Call(c)
      BY <2>2, OnlyCallsBegin
    <3>2. PICK o \in Busy : TakeLock(c, o) /\ Starts(c, o)
      BY <3>1, CallStarts
    <3>3. op'[c] = o
      BY <3>2 DEF TakeLock, DocInv, ClientsTyped
    <3>4. QED
      BY <2>2, <3>2, <3>3 DEF Starts
  <2>3. MovesTheTextRead(c)
    BY <2>2 DEF MovesTheTextRead
  <2>4. QED
    BY <2>1, <2>3
<1>2. QED
  BY <1>1, DocInvariant, PTL DEF DocSpec, NoLostUpdate

=============================================================================
