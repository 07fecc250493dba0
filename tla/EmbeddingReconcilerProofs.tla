------------------------ MODULE EmbeddingReconcilerProofs ------------------------
(***************************************************************************)
(* What holds of the writers of embedding rows for any number of vaults,   *)
(* notes, edits, crashes and lost leases: no vector that is out of date is *)
(* forgotten, nothing is taken from another vault while the lease lasts,   *)
(* and at rest everything is caught up.                                    *)
(***************************************************************************)
EXTENDS EmbeddingReconciler, WellFoundedInduction, TLAPS

(* The types, by what they are about.                                      *)
FilesTyped == source \in [Note -> 0..4] /\ row \in [Vault -> [Note -> 0..4]]
StoreTyped == store \in [Note -> Rows] /\ limbo \in Unsettled \cup {None}
QueuesTyped ==
  /\ up \in [Vault -> BOOLEAN] /\ open \in [Vault -> BOOLEAN] /\ lease \in Vault \cup {None}
  /\ queued \in [Vault -> BOOLEAN] /\ due \in [Vault -> BOOLEAN]
  /\ dirty \in [Vault -> SUBSET Note]
PassTyped == pass \in [Vault -> Passes \cup {None}]
WriteTyped == write \in [Vault -> Writes \cup {None}]
HistoryTyped ==
  fresh \in [Vault -> SUBSET Note] /\ excused \subseteq Note /\ lost \subseteq Taken
Typed == FilesTyped /\ StoreTyped /\ QueuesTyped /\ PassTyped /\ WriteTyped /\ HistoryTyped

(* What is left of a pass: each of its notes is on one of its lists at     *)
(* most, or is in the write of a document; a build of the whole store has  *)
(* no such lists, and what it publishes, like a bulk re-token, comes last. *)
Left(p) == p.gone \cup p.todo \cup p.again
Own(w) == IF w = None \/ w.whole THEN {} ELSE DOMAIN w.puts
Whole(p) == p.site \in {"cold", "forced"}
Placed(p, w) ==
  /\ Left(p) \cup Own(w) \cup p.redo \cup p.retry \subseteq p.paths
  /\ Own(w) \cap Left(p) = {} /\ p.todo \cap p.again = {}
  /\ p.gone \cap p.again = {} /\ p.gone \cap p.todo = {}
  /\ Whole(p) => /\ p.paths = Note /\ p.redo = {} /\ p.retry = {} /\ p.again = {}
                 /\ p.tokens = None /\ (w # None => w.whole)
  /\ p.tokens # None => p.gone = {} /\ p.todo = {} /\ w = None
  /\ ~Whole(p) /\ w # None /\ w.whole => p.gone = {} /\ p.todo = {} /\ p.tokens = None

(* The documents a pass compares are those of its keyword index.           *)
FromRows(v, p) ==
  /\ DOMAIN p.docs = p.paths /\ \A n \in p.paths : p.docs[n] = row[v][n]
  /\ \A n \in p.gone : row[v][n] = 0
  /\ \A n \in p.todo : row[v][n] # 0
  /\ \A n \in p.again : Inputs[row[v][n]] # 0
OfOne(p, w) ==
  w # None /\ ~w.whole => \E n \in Note : DOMAIN w.puts = {n} /\ w.expected = p.seen[n].token

(* What the pass has read still stands, but for what others wrote since.   *)
Stands(v, p) ==
  \A n \in Note \ fresh[v] :
    /\ n \in Left(p) => store[n] = p.seen[n]
    /\ n \in p.again => store[n].rows = Inputs[row[v][n]]
    /\ p.tokens # None => /\ n \in DOMAIN p.tokens <=> store[n] # Absent
                          /\ n \in DOMAIN p.tokens => p.tokens[n] = store[n].token
    /\ p.site = "cold" => store[n].rows = 0
FromEmpty(p) == p.site = "cold" => \A n \in Note : p.seen[n].rows = 0

(* What a write will leave: but for what others wrote since the pass read  *)
(* the store, what there is, or what the keyword index asks for.           *)
Wanted(r) == IF Inputs[r] = 0 THEN Absent ELSE RowsOf(r)
Bound(p, w, n) == p.site = "cold" \/ n \in Own(w) \/ (w.whole /\ n \in p.again)
Wants(v, p, w, ex) ==
  \A n \in Note \ fresh[v] :
    /\ Landed(w)[n] \in {store[n], Wanted(row[v][n]), Absent}
    /\ n \notin ex => Landed(w)[n] \in {store[n], Wanted(row[v][n])}
    /\ n \notin ex /\ Bound(p, w, n) => Landed(w)[n] = Wanted(row[v][n])

(* A pass, which makes the writes, runs in a process with the store open.  *)
InHand(v, p, w, ex) ==
  /\ w # None => p # None
  /\ p # None => /\ Placed(p, w) /\ FromRows(v, p) /\ OfOne(p, w) /\ Stands(v, p)
                 /\ FromEmpty(p) /\ (w # None => Wants(v, p, w, ex))
AllInHand ==
  \A v \in Vault : /\ InHand(v, pass[v], write[v], excused)
                   /\ pass[v] # None => up[v] /\ open[v]

(* What a transaction nobody waits for will leave: the same, of a vault    *)
(* that is down, has the note to do, or still has it in its index so.      *)
Steady(v, n) ==
  \/ ~up[v] \/ due[v] \/ n \in dirty[v]
  \/ pass[v] # None /\ n \in pass[v].retry
TakenOf(ts) == {t[1] : t \in ts}
Fit(x) == x.token # None => x.rows = Inputs[x.token]
LimboIsOwed ==
  limbo # None => \A n \in Note \ TakenOf(limbo.takes) :
    LET x == Landed(limbo.asked)[n]
    IN /\ x = store[n] \/ Fit(x)
       /\ limbo.late \/ n \in excused \/ x = store[n]
            \/ \E v \in Vault : Steady(v, n) \/ x = Wanted(row[v][n])
LimboTakes == limbo # None => lapsed /\ \A t \in limbo.takes : t[2] # "unread"

(* For each note, either a vault will look at it again, in a pass whose    *)
(* reading of it is not overtaken or in a later one, or its vectors are    *)
(* what the keyword index of some vault asks for.                          *)
Right(n, r) == store[n].rows = Inputs[r] /\ (store[n].rows # 0 => store[n].token = r)
Ahead(v, p, w, n) ==
  /\ p # None /\ n \notin fresh[v] /\ p.site # "forced"
  /\ p.site = "cold" \/ n \in Left(p) \cup Own(w)
Heeds(v, n) ==
  \/ Steady(v, n)
  \/ pass[v] # None /\ n \in pass[v].redo
  \/ Ahead(v, pass[v], write[v], n)
SomeoneHeeds == \A n \in Note \ excused : \E v \in Vault : Heeds(v, n) \/ Right(n, row[v][n])

(* As long as no lease and no client has ended early, one vault at a time  *)
(* has the store open, and no other writes during its pass.                *)
Alone ==
  lapsed \/ /\ limbo = None /\ lost = {}
            /\ \A v \in Vault : open[v] <=> lease = v
            /\ \A v \in Vault : pass[v] # None => fresh[v] = {}

(* What was taken is known, and the rest stands under its own token.       *)
TakingIsKnown ==
  /\ \A t \in lost : t[2] # "unread"
  /\ \A n \in Note \ TakenOf(lost) : Fit(store[n])

(* What waits has a flush queued, or one has failed.                       *)
DirtyIsQueued == \A v \in Vault : dirty[v] # {} => queued[v] \/ failed

EmbedInv ==
  /\ Typed /\ AllInHand /\ LimboIsOwed /\ LimboTakes /\ SomeoneHeeds /\ Alone
  /\ TakingIsKnown /\ DirtyIsQueued

-----------------------------------------------------------------------------
(* What the model's operators give.                                        *)

(* No pass, write, transaction or reading of the tokens is None.           *)
LEMMA NothingIsNone ==
  /\ \A p \in Passes : p # None
  /\ \A w \in Writes : w # None
  /\ \A u \in Unsettled : u # None
  /\ \A t \in Tokens : t # None
  BY NoneIsNothing

(* What is embedded of a revision.                                         *)
LEMMA InputsOf ==
  \A r \in 0..4 :
    Inputs[r] \in 0..2 /\ (Inputs[r] # 0 => r \in Revision) /\ (r = 0 => Inputs[r] = 0)
  BY DEF Inputs, Revision

(* What is wanted for a revision are rows, under its own token if any, and *)
(* a note that has them is right.                                          *)
LEMMA WantedIs ==
  ASSUME NEW r \in 0..4
  PROVE  /\ Wanted(r) \in Rows /\ Fit(Wanted(r)) /\ Absent \in Rows /\ Fit(Absent)
         /\ Inputs[r] # 0 => Wanted(r) = RowsOf(r) /\ RowsOf(r) \in Rows
         /\ Wanted(r).rows = Inputs[r] /\ (Wanted(r).rows # 0 => Wanted(r).token = r)
<1>1. Absent \in Rows /\ Fit(Absent)
  BY DEF Absent, Rows, Fit
<1>2. Inputs[r] \in 0..2 /\ (Inputs[r] # 0 => r \in Revision)
  BY InputsOf
<1>3. Inputs[r] # 0 => RowsOf(r) \in Rows /\ Fit(RowsOf(r))
  BY <1>2 DEF RowsOf, Rows, Fit
<1>4. QED
  BY <1>1, <1>2, <1>3 DEF Wanted, RowsOf, Absent

(* The first of some notes is one of them.                                 *)
LEMMA MinIsIn ==
  ASSUME NEW S, S \subseteq Note, S # {}
  PROVE  Min(S) \in S
<1>1. S \subseteq Nat
  BY NotesAreNumbers
<1>2. PICK x \in S : \A y \in S : ~(<<y, x>> \in OpToRel(<, Nat))
  BY <1>1, NatLessThanWellFounded, WFMin, Zenon
<1>3. \A y \in S : ~(y < x)
  BY <1>1, <1>2, Zenon DEF OpToRel
<1>4. \A y \in S : x =< y
  BY <1>1, <1>3
<1>5. QED
  BY <1>4 DEF Min

(* Rows for some of the notes, and what they are.                          *)
LEMMA PutsAre ==
  /\ \A f : f \in Puts => DOMAIN f \subseteq Note /\ \A n \in DOMAIN f : f[n] \in Rows
  /\ \A ns \in SUBSET Note : \A f \in [ns -> Rows] : f \in Puts
<1>1. ASSUME NEW f, f \in Puts
      PROVE  DOMAIN f \subseteq Note /\ \A n \in DOMAIN f : f[n] \in Rows
  <2>1. PICK ns \in SUBSET Note : f \in [ns -> Rows]
    BY <1>1 DEF Puts
  <2>2. QED
    BY <2>1
<1>2. ASSUME NEW ns \in SUBSET Note, NEW f \in [ns -> Rows]
      PROVE  f \in Puts
  BY DEF Puts
<1>3. QED
  BY <1>1, <1>2

(* A reading of the keyword index, and one of the tokens.                  *)
LEMMA ReadingsAre ==
  /\ \A ns \in SUBSET Note : \A f \in [ns -> 0..4] : f \in Docs
  /\ \A ns \in SUBSET Note : \A f \in [ns -> Revision \cup {None}] : f \in Tokens
  /\ \A f : f \in Tokens =>
       DOMAIN f \subseteq Note /\ \A n \in DOMAIN f : f[n] \in Revision \cup {None}
<1>1. ASSUME NEW f, f \in Tokens
      PROVE  DOMAIN f \subseteq Note /\ \A n \in DOMAIN f : f[n] \in Revision \cup {None}
  <2>1. PICK ns \in SUBSET Note : f \in [ns -> Revision \cup {None}]
    BY <1>1 DEF Tokens
  <2>2. QED
    BY <2>1
<1>2. ASSUME NEW ns \in SUBSET Note, NEW f \in [ns -> 0..4]
      PROVE  f \in Docs
  BY DEF Docs
<1>3. ASSUME NEW ns \in SUBSET Note, NEW f \in [ns -> Revision \cup {None}]
      PROVE  f \in Tokens
  BY DEF Tokens
<1>4. QED
  BY <1>1, <1>2, <1>3

(* The write of one document.                                              *)
LEMMA WriteIs ==
  ASSUME NEW n \in Note, NEW x \in Rows, NEW t \in Revision \cup {None}
  PROVE  LET w == Write(One(n, x), t)
         IN /\ w \in Writes /\ w # None /\ ~w.whole /\ ~w.held /\ w.expected = t
            /\ DOMAIN w.puts = {n} /\ w.puts[n] = x
<1>1. One(n, x) \in [{n} -> Rows]
  BY DEF One
<1>2. One(n, x) \in Puts
  BY <1>1, PutsAre
<1>3. Write(One(n, x), t) \in Writes
  BY <1>2 DEF Write, Writes
<1>4. QED
  BY <1>3, NothingIsNone DEF Write, One

(* A whole generation.                                                     *)
LEMMA GenerationIs ==
  ASSUME NEW ns \in SUBSET Note, NEW f \in [ns -> Rows]
  PROVE  LET w == Generation(f)
         IN w \in Writes /\ w # None /\ w.whole /\ ~w.held /\ w.puts = f
<1>1. f \in Puts
  BY PutsAre
<1>2. Generation(f) \in Writes
  BY <1>1 DEF Generation, Writes
<1>3. QED
  BY <1>2, NothingIsNone DEF Generation

(* The note of the write of one document.                                  *)
LEMMA NoteOfOne ==
  ASSUME NEW p, NEW w, OfOne(p, w), w # None, ~w.whole
  PROVE  /\ NoteOf(w) \in Note /\ DOMAIN w.puts = {NoteOf(w)} /\ Own(w) = {NoteOf(w)}
         /\ w.expected = p.seen[NoteOf(w)].token
  BY DEF OfOne, NoteOf, Own

(* What a write leaves.                                                    *)
LEMMA LandedIs ==
  ASSUME StoreTyped, NEW w \in Writes
  PROVE  /\ Landed(w) \in [Note -> Rows]
         /\ \A n \in Note : Landed(w)[n] = IF n \in DOMAIN w.puts THEN w.puts[n]
                                           ELSE IF w.whole THEN Absent ELSE store[n]
<1>1. w.puts \in Puts
  BY DEF Writes
<1>2. Absent \in Rows
  BY DEF Absent, Rows
<1>3. QED
  BY <1>1, <1>2, PutsAre DEF Landed, StoreTyped

(* The pass as it begins.                                                  *)
LEMMA NewPassIs ==
  ASSUME FilesTyped, StoreTyped, NEW v \in Vault, NEW paths \in SUBSET Note,
         NEW site \in {"flush", "converge", "cold", "forced"}
  PROVE  LET p == NewPass(v, site, paths)
         IN /\ p \in Passes /\ p # None /\ p.site = site /\ p.paths = paths /\ p.seen = store
            /\ DOMAIN p.docs = paths /\ \A n \in paths : p.docs[n] = row[v][n]
            /\ p.gone = {n \in paths : row[v][n] = 0 /\ store[n] # Absent}
            /\ p.todo = {n \in paths : row[v][n] # 0}
            /\ p.again = {} /\ p.tokens = None /\ p.redo = {} /\ p.retry = {}
<1>1. [n \in paths |-> row[v][n]] \in [paths -> 0..4]
  BY DEF FilesTyped
<1>2. [n \in paths |-> row[v][n]] \in Docs
  BY <1>1, ReadingsAre
<1>3. NewPass(v, site, paths) \in Passes
  BY <1>2 DEF NewPass, Passes, StoreTyped
<1>4. QED
  BY <1>3, NothingIsNone DEF NewPass

(* The parts of a pass.                                                    *)
LEMMA PassIs ==
  ASSUME NEW p \in Passes
  PROVE  /\ p # None /\ p.site \in {"flush", "converge", "cold", "forced"}
         /\ p.paths \in SUBSET Note /\ p.seen \in [Note -> Rows]
         /\ p.gone \in SUBSET Note /\ p.todo \in SUBSET Note /\ p.again \in SUBSET Note
         /\ p.tokens \in Tokens \cup {None} /\ p.redo \in SUBSET Note /\ p.retry \in SUBSET Note
         /\ \A n \in Note : p.seen[n].token \in Revision \cup {None}
<1>1. p # None
  BY NothingIsNone
<1>2. p.seen \in [Note -> Rows]
  BY DEF Passes
<1>3. QED
  BY <1>1, <1>2 DEF Passes, Rows

-----------------------------------------------------------------------------
(* What of a vault stays in hand.                                          *)

(* A pass that nothing happened to, but that others wrote, or its own      *)
(* write of a note that is known to it as theirs.                          *)
LEMMA OthersStay ==
  ASSUME NEW u \in Vault, InHand(u, pass[u], write[u], excused),
         pass'[u] = pass[u], write'[u] = write[u],
         pass[u] # None => row'[u] = row[u],
         fresh[u] \subseteq fresh'[u], excused \subseteq excused',
         \A n \in Note \ fresh'[u] : store'[n] = store[n]
  PROVE  InHand(u, pass[u], write[u], excused)'
<1> DEFINE p == pass[u]
           w == write[u]
<1>1. CASE pass[u] = None
  BY <1>1 DEF InHand
<1>2. CASE pass[u] # None
  <2>1. /\ Placed(p, w) /\ FromRows(u, p) /\ OfOne(p, w) /\ Stands(u, p)
        /\ FromEmpty(p) /\ (w # None => Wants(u, p, w, excused))
    BY <1>2 DEF InHand
  <2>2. /\ Placed(pass[u], write[u])' /\ FromRows(u, pass[u])' /\ OfOne(pass[u], write[u])'
        /\ FromEmpty(pass[u])'
    BY <1>2, <2>1 DEF Placed, FromRows, OfOne, FromEmpty, Left, Own, Whole
  <2>3. Stands(u, pass[u])'
    BY <1>2, <2>1 DEF Stands, Left
  <2>4. (write[u] # None => Wants(u, pass[u], write[u], excused))'
    <3>1. SUFFICES ASSUME w # None, NEW n \in Note \ fresh'[u]
                   PROVE  /\ Landed(write[u])'[n] = Landed(w)[n] /\ store'[n] = store[n]
                          /\ Bound(pass[u], write[u], n)' <=> Bound(p, w, n)
      BY <1>2, <2>1 DEF Wants
    <3>2. QED
      BY <3>1 DEF Landed, Bound, Own
  <2>5. QED
    BY <1>2, <2>2, <2>3, <2>4 DEF InHand
<1>3. QED
  BY <1>1, <1>2

(* Between two writes a pass goes on: what of the pass v was in must be so *)
(* in what comes next.                                                     *)
Keeps(v, p, w, ex) ==
  \A n \in Note :
    /\ n \in pass[v].retry => p # None /\ n \in p.retry
    /\ n \in pass[v].redo => p # None /\ n \in p.redo
    /\ n \notin ex /\ Ahead(v, pass[v], None, n) =>
         Ahead(v, p, w, n) \/ Right(n, row[v][n]) \/ (p # None /\ n \in p.retry)

(* A pass that goes on keeps the invariant, if what comes next is in hand. *)
LEMMA GoStep ==
  ASSUME EmbedInv, NEW v \in Vault, NEW p \in Passes \cup {None}, NEW w \in Writes \cup {None},
         Working(v), Go(v, p, w), excused \subseteq excused', excused' \subseteq Note,
         InHand(v, p, w, excused'), Keeps(v, p, w, excused')
  PROVE  EmbedInv'
<1>1. /\ pass' = [pass EXCEPT ![v] = p] /\ write' = [write EXCEPT ![v] = w]
      /\ pass[v] # None /\ write[v] = None
      /\ pass \in [Vault -> Passes \cup {None}] /\ write \in [Vault -> Writes \cup {None}]
      /\ UNCHANGED <<source, store, limbo, lease, up, open, row, dirty, queued, due, fresh, lost,
                     lapsed, failed>>
  BY DEF Go, Working, files, schema, processVars, queueVars, EmbedInv, Typed, PassTyped, WriteTyped
<1>2. /\ pass'[v] = p /\ write'[v] = w
      /\ \A u \in Vault \ {v} : pass'[u] = pass[u] /\ write'[u] = write[u]
  BY <1>1
<1>3. Typed'
  BY <1>1 DEF EmbedInv, Typed, FilesTyped, StoreTyped, QueuesTyped, PassTyped, WriteTyped,
              HistoryTyped
<1>4. AllInHand'
  <2>1. ASSUME NEW u \in Vault, u # v
        PROVE  InHand(u, pass[u], write[u], excused)'
    BY <1>1, <1>2, <2>1, OthersStay DEF EmbedInv, AllInHand
  <2>2. InHand(v, pass[v], write[v], excused)'
    BY <1>1, <1>2 DEF InHand, Placed, FromRows, OfOne, FromEmpty, Stands, Wants, Landed, Left, Own,
                      Whole, Bound
  <2>3. QED
    BY <1>1, <1>2, <2>1, <2>2 DEF AllInHand, EmbedInv
<1>5. \A u \in Vault, n \in Note : Steady(u, n) => Steady(u, n)'
  BY <1>1, <1>2 DEF Steady, Keeps
<1>6. LimboIsOwed' /\ LimboTakes'
  BY <1>1, <1>5 DEF EmbedInv, LimboIsOwed, LimboTakes, Landed, Fit, TakenOf
<1>7. SomeoneHeeds'
  <2>1. SUFFICES ASSUME NEW n \in Note, n \notin excused'
                 PROVE  \E u \in Vault : (Heeds(u, n) \/ Right(n, row[u][n]))'
    BY DEF SomeoneHeeds
  <2>2. PICK u \in Vault : Heeds(u, n) \/ Right(n, row[u][n])
    BY <2>1 DEF EmbedInv, SomeoneHeeds
  <2>3. Right(n, row[u][n]) => Right(n, row[u][n])'
    BY <1>1 DEF Right
  <2>4. CASE Heeds(u, n) /\ u # v
    BY <1>1, <1>2, <2>4 DEF Heeds, Steady, Ahead
  <2>5. CASE Heeds(u, n) /\ u = v
    BY <1>1, <1>2, <1>5, <2>1, <2>5 DEF Heeds, Keeps, Ahead, Right, Own, Steady
  <2>6. QED
    BY <2>2, <2>3, <2>4, <2>5
<1>8. Alone' /\ TakingIsKnown' /\ DirtyIsQueued'
  BY <1>1, <1>2 DEF EmbedInv, Alone, TakingIsKnown, DirtyIsQueued, Fit, TakenOf
<1>9. QED
  BY <1>3, <1>4, <1>6, <1>7, <1>8 DEF EmbedInv

(* What the invariant says of a pass, and of its notes.                    *)
LEMMA PassSays ==
  ASSUME EmbedInv, NEW v \in Vault, pass[v] # None
  PROVE  /\ pass[v] \in Passes /\ InHand(v, pass[v], write[v], excused)
         /\ write[v] \in Writes \cup {None}
         /\ \A n \in Note : row[v][n] \in 0..4 /\ store[n] \in Rows
         /\ excused \subseteq Note /\ up[v] /\ open[v]
  BY DEF EmbedInv, Typed, PassTyped, WriteTyped, FilesTyped, StoreTyped, HistoryTyped, AllInHand

(* The write of one document is in hand if it asks for what is wanted.     *)
LEMMA AskInHand ==
  ASSUME EmbedInv, NEW v \in Vault, NEW p \in Passes, NEW n \in p.paths, NEW x \in Rows, NEW ex,
         InHand(v, p, None, ex), n \notin Left(p), ~Whole(p), p.tokens = None,
         n \notin fresh[v] => x = Wanted(row[v][n])
  PROVE  LET w == Write(One(n, x), p.seen[n].token)
         IN w \in Writes /\ Own(w) = {n} /\ InHand(v, p, w, ex)
<1> DEFINE w == Write(One(n, x), p.seen[n].token)
<1>1. n \in Note /\ p.seen[n].token \in Revision \cup {None} /\ p # None /\ StoreTyped
  BY PassIs DEF EmbedInv, Typed
<1>2. /\ w \in Writes /\ w # None /\ ~w.whole /\ w.expected = p.seen[n].token
      /\ DOMAIN w.puts = {n} /\ w.puts[n] = x
  BY <1>1, WriteIs
<1>3. \A m \in Note : Landed(w)[m] = IF m = n THEN x ELSE store[m]
  BY <1>1, <1>2, LandedIs
<1> HIDE DEF w
<1>4. Own(w) = {n}
  BY <1>2 DEF Own
<1>5. Placed(p, w) /\ OfOne(p, w)
  BY <1>1, <1>2, <1>4 DEF InHand, Placed, OfOne, Own, Whole
<1>6. Wants(v, p, w, ex)
  BY <1>1, <1>2, <1>3, <1>4 DEF Wants, Bound, Whole
<1>7. w \in Writes /\ Own(w) = {n} /\ InHand(v, p, w, ex)
  BY <1>1, <1>2, <1>4, <1>5, <1>6 DEF InHand
<1>8. QED
  BY <1>7 DEF w

(* The absence of a note is answered.                                      *)
LEMMA UnbackedStep ==
  ASSUME EmbedInv, NEW v \in Vault, Unbacked(v)
  PROVE  EmbedInv'
<1> DEFINE p == pass[v]
           n == Min(p.gone)
           rest == [p EXCEPT !.gone = @ \ {n}]
<1>1. Working(v) /\ p # None /\ p.site \in {"flush", "converge"} /\ p.gone # {}
  BY DEF Unbacked, Comparing, Working
<1>2. p \in Passes /\ InHand(v, p, None, excused) /\ excused \subseteq Note
  BY <1>1, PassSays DEF Working
<1>3. n \in p.gone /\ n \in Note
  BY <1>1, <1>2, MinIsIn, PassIs
<1>4. /\ rest \in Passes /\ rest # None /\ rest.site = p.site /\ rest.paths = p.paths
      /\ rest.seen = p.seen /\ rest.docs = p.docs /\ rest.gone = p.gone \ {n}
      /\ rest.todo = p.todo /\ rest.again = p.again /\ rest.tokens = p.tokens
      /\ rest.redo = p.redo /\ rest.retry = p.retry
  BY <1>2, NothingIsNone DEF Passes
<1> HIDE DEF n, rest
<1>5. InHand(v, rest, None, excused)
  BY <1>1, <1>2, <1>4 DEF InHand, Placed, FromRows, OfOne, Stands, FromEmpty, Left, Own, Whole
<1>6. \/ Ask(v, rest, n, Absent) /\ UNCHANGED excused
      \/ Go(v, rest, None) /\ Excuse({n})
  BY DEF Unbacked, n, rest
<1>7. CASE Ask(v, rest, n, Absent) /\ UNCHANGED excused
  <2> DEFINE w == Write(One(n, Absent), rest.seen[n].token)
  <2>1. Absent \in Rows /\ Wanted(row[v][n]) = Absent /\ n \in rest.paths /\ n \notin Left(rest)
    BY <1>1, <1>2, <1>3, <1>4, InputsOf
       DEF Absent, Rows, InHand, Placed, FromRows, Left, Wanted
  <2>2. ~Whole(rest) /\ rest.tokens = None
    BY <1>1, <1>2, <1>4 DEF Whole, InHand, Placed
  <2>3. w \in Writes /\ Own(w) = {n} /\ InHand(v, rest, w, excused)
    BY <1>4, <1>5, <2>1, <2>2, AskInHand
  <2>4. Go(v, rest, w)
    BY <1>7 DEF Ask
  <2> HIDE DEF w
  <2>5. Keeps(v, rest, w, excused)
    BY <1>1, <1>4, <2>3 DEF Keeps, Ahead, Left, Own
  <2>6. QED
    BY <1>1, <1>2, <1>4, <1>7, <2>3, <2>4, <2>5, GoStep
<1>8. CASE Go(v, rest, None) /\ Excuse({n})
  <2>1. excused' = excused \cup {n}
    BY <1>8 DEF Excuse
  <2>2. InHand(v, rest, None, excused') /\ Keeps(v, rest, None, excused')
    BY <1>1, <1>4, <1>5, <2>1 DEF InHand, Keeps, Ahead, Left, Own
  <2>3. QED
    BY <1>1, <1>2, <1>3, <1>4, <1>8, <2>1, <2>2, GoStep
<1>9. QED
  BY <1>6, <1>7, <1>8

(* A document is compared.                                                 *)
LEMMA CompareStep ==
  ASSUME EmbedInv, NEW v \in Vault, Compare(v)
  PROVE  EmbedInv'
<1> DEFINE p == pass[v]
           n == Min(p.todo)
           r == p.docs[n]
           rest == [p EXCEPT !.todo = @ \ {n}]
           later == [rest EXCEPT !.again = IF p.seen[n].token = r THEN @ ELSE @ \cup {n}]
           set == [rest EXCEPT !.retry = @ \cup {n}]
           same == Inputs[r] # 0 /\ store[n].rows = Inputs[r]
<1>1. /\ Working(v) /\ p # None /\ p.site \in {"flush", "converge"}
      /\ p.gone = {} /\ p.todo # {} /\ write[v] = None
  BY DEF Compare, Comparing, Working
<1>2. /\ p \in Passes /\ InHand(v, p, None, excused) /\ excused \subseteq Note
      /\ \A m \in Note : row[v][m] \in 0..4 /\ store[m] \in Rows
  BY <1>1, PassSays DEF Working
<1>3. n \in p.todo /\ n \in Note
  BY <1>1, <1>2, MinIsIn, PassIs
<1>4. r = row[v][n] /\ n \in p.paths /\ n \notin p.again /\ p.tokens = None
  BY <1>1, <1>2, <1>3 DEF InHand, FromRows, Placed, Left
<1>5. /\ rest \in Passes /\ rest # None /\ rest.site = p.site /\ rest.paths = p.paths
      /\ rest.seen = p.seen /\ rest.docs = p.docs /\ rest.todo = p.todo \ {n}
      /\ rest.gone = p.gone /\ rest.again = p.again /\ rest.tokens = p.tokens
      /\ rest.redo = p.redo /\ rest.retry = p.retry
  BY <1>2, NothingIsNone DEF Passes
<1>6. /\ later \in Passes /\ later # None /\ later.site = p.site /\ later.paths = p.paths
      /\ later.seen = p.seen /\ later.docs = p.docs /\ later.todo = p.todo \ {n}
      /\ later.gone = p.gone /\ later.tokens = p.tokens
      /\ later.again = (IF p.seen[n].token = r THEN p.again ELSE p.again \cup {n})
      /\ later.redo = p.redo /\ later.retry = p.retry
  BY <1>2, <1>3, NothingIsNone DEF Passes
<1>7. /\ set \in Passes /\ set # None /\ set.site = p.site /\ set.paths = p.paths
      /\ set.seen = p.seen /\ set.docs = p.docs /\ set.todo = p.todo \ {n}
      /\ set.gone = p.gone /\ set.again = p.again /\ set.tokens = p.tokens
      /\ set.redo = p.redo /\ set.retry = p.retry \cup {n}
  BY <1>2, <1>3, NothingIsNone DEF Passes
<1>8. \/ /\ Inputs[r] = 0 /\ UNCHANGED excused
         /\ IF store[n].rows = 0 THEN Go(v, rest, None) ELSE Ask(v, rest, n, Absent)
      \/ same /\ UNCHANGED excused /\ Go(v, later, None)
      \/ Inputs[r] # 0 /\ ~same /\ Ask(v, rest, n, RowsOf(r)) /\ UNCHANGED excused
      \/ Go(v, set, None) /\ UNCHANGED excused
      \/ Go(v, rest, None) /\ Excuse({n})
  BY DEF Compare
<1> HIDE DEF n, rest, later, set
<1>9. InHand(v, rest, None, excused) /\ n \notin Left(rest) /\ ~Whole(rest)
  BY <1>1, <1>2, <1>3, <1>4, <1>5
     DEF InHand, Placed, FromRows, OfOne, Stands, FromEmpty, Left, Own, Whole
<1>10. ASSUME NEW x \in Rows, x = Wanted(r), Ask(v, rest, n, x), UNCHANGED excused
       PROVE  EmbedInv'
  <2> DEFINE w == Write(One(n, x), rest.seen[n].token)
  <2>1. w \in Writes /\ Own(w) = {n} /\ InHand(v, rest, w, excused)
    BY <1>4, <1>5, <1>9, <1>10, AskInHand
  <2>2. Go(v, rest, w)
    BY <1>10 DEF Ask
  <2> HIDE DEF w
  <2>3. Keeps(v, rest, w, excused)
    BY <1>1, <1>5, <2>1 DEF Keeps, Ahead, Left, Own
  <2>4. QED
    BY <1>1, <1>2, <1>5, <1>10, <2>1, <2>2, <2>3, GoStep
<1>11. CASE Inputs[r] = 0 /\ store[n].rows = 0 /\ Go(v, rest, None) /\ UNCHANGED excused
  <2>1. Right(n, row[v][n])
    BY <1>4, <1>11 DEF Right
  <2>2. Keeps(v, rest, None, excused)
    BY <1>1, <1>5, <2>1 DEF Keeps, Ahead, Left, Own
  <2>3. QED
    BY <1>1, <1>2, <1>5, <1>9, <1>11, <2>2, GoStep
<1>12. CASE Inputs[r] = 0 /\ Ask(v, rest, n, Absent) /\ UNCHANGED excused
  <2>1. Absent \in Rows /\ Absent = Wanted(r)
    BY <1>12 DEF Wanted, Absent, Rows
  <2>2. QED
    BY <1>10, <1>12, <2>1
<1>13. CASE Inputs[r] # 0 /\ Ask(v, rest, n, RowsOf(r)) /\ UNCHANGED excused
  <2>1. RowsOf(r) \in Rows /\ RowsOf(r) = Wanted(r)
    BY <1>2, <1>3, <1>4, <1>13, WantedIs
  <2>2. QED
    BY <1>10, <1>13, <2>1
<1>14. CASE same /\ Go(v, later, None) /\ UNCHANGED excused
  <2>1. InHand(v, later, None, excused)
    BY <1>1, <1>2, <1>3, <1>4, <1>6, <1>14
       DEF InHand, Placed, FromRows, OfOne, Stands, FromEmpty, Left, Own, Whole
  <2>2. n \notin fresh[v] /\ p.seen[n].token = r => Right(n, row[v][n])
    BY <1>1, <1>2, <1>3, <1>4, <1>14 DEF Right, InHand, Stands, Left
  <2>3. Keeps(v, later, None, excused)
    BY <1>1, <1>6, <2>2 DEF Keeps, Ahead, Left, Own
  <2>4. QED
    BY <1>1, <1>2, <1>6, <1>14, <2>1, <2>3, GoStep
<1>15. CASE Go(v, set, None) /\ UNCHANGED excused
  <2>1. InHand(v, set, None, excused)
    BY <1>1, <1>2, <1>3, <1>4, <1>7
       DEF InHand, Placed, FromRows, OfOne, Stands, FromEmpty, Left, Own, Whole
  <2>2. Keeps(v, set, None, excused)
    BY <1>1, <1>7 DEF Keeps, Ahead, Left, Own
  <2>3. QED
    BY <1>1, <1>2, <1>7, <1>15, <2>1, <2>2, GoStep
<1>16. CASE Go(v, rest, None) /\ Excuse({n})
  <2>1. excused' = excused \cup {n}
    BY <1>16 DEF Excuse
  <2>2. InHand(v, rest, None, excused') /\ Keeps(v, rest, None, excused')
    BY <1>1, <1>5, <1>9, <2>1 DEF InHand, Keeps, Ahead, Left, Own
  <2>3. QED
    BY <1>1, <1>2, <1>3, <1>5, <1>16, <2>1, <2>2, GoStep
<1>17. QED
  BY <1>8, <1>11, <1>12, <1>13, <1>14, <1>15, <1>16

(* A document is written again under its new token.                        *)
LEMMA RetokenStep ==
  ASSUME EmbedInv, NEW v \in Vault, Retoken(v)
  PROVE  EmbedInv'
<1> DEFINE p == pass[v]
           n == Min(p.again)
           rest == [p EXCEPT !.again = @ \ {n}]
           x == [token |-> p.docs[n], rows |-> store[n].rows]
           w == Write(One(n, x), p.seen[n].token)
<1>1. /\ Working(v) /\ p # None /\ p.site \in {"flush", "converge"} /\ write[v] = None
      /\ p.gone = {} /\ p.todo = {} /\ p.again # {} /\ p.tokens = None
      /\ Go(v, rest, Write(One(n, x), rest.seen[n].token)) /\ UNCHANGED excused
  BY DEF Retoken, Comparing, Working, Ask
<1>2. /\ p \in Passes /\ InHand(v, p, None, excused) /\ excused \subseteq Note
      /\ \A m \in Note : row[v][m] \in 0..4 /\ store[m] \in Rows
  BY <1>1, PassSays DEF Working
<1>3. n \in p.again /\ n \in Note
  BY <1>1, <1>2, MinIsIn, PassIs
<1>4. /\ p.docs[n] = row[v][n] /\ n \in p.paths /\ Inputs[row[v][n]] # 0
      /\ n \notin fresh[v] => store[n].rows = Inputs[row[v][n]]
  BY <1>1, <1>2, <1>3 DEF InHand, FromRows, Placed, Left, Stands
<1>5. /\ rest \in Passes /\ rest # None /\ rest.site = p.site /\ rest.paths = p.paths
      /\ rest.seen = p.seen /\ rest.docs = p.docs /\ rest.again = p.again \ {n}
      /\ rest.gone = p.gone /\ rest.todo = p.todo /\ rest.tokens = p.tokens
      /\ rest.redo = p.redo /\ rest.retry = p.retry
  BY <1>2, NothingIsNone DEF Passes
<1>6. x \in Rows /\ (n \notin fresh[v] => x = Wanted(row[v][n]))
  <2>1. row[v][n] \in Revision /\ store[n].rows \in 0..2
    BY <1>2, <1>3, <1>4, InputsOf DEF Rows
  <2>2. QED
    BY <1>4, <2>1 DEF Rows, Wanted, RowsOf
<1> HIDE DEF n, rest, x
<1>7. InHand(v, rest, None, excused) /\ n \notin Left(rest) /\ ~Whole(rest)
  BY <1>1, <1>2, <1>3, <1>5
     DEF InHand, Placed, FromRows, OfOne, Stands, FromEmpty, Left, Own, Whole
<1>8. w \in Writes /\ Own(w) = {n} /\ InHand(v, rest, w, excused) /\ Go(v, rest, w)
  BY <1>1, <1>4, <1>5, <1>6, <1>7, AskInHand
<1> HIDE DEF w
<1>9. Keeps(v, rest, w, excused)
  BY <1>1, <1>5, <1>8 DEF Keeps, Ahead, Left, Own
<1>10. QED
  BY <1>1, <1>2, <1>5, <1>8, <1>9, GoStep

(* The tokens are read again for a bulk re-token.                          *)
LEMMA BulkTokensStep ==
  ASSUME EmbedInv, NEW v \in Vault, BulkTokens(v)
  PROVE  EmbedInv'
<1> DEFINE p == pass[v]
           t == [n \in {m \in Note : store[m] # Absent} |-> store[n].token]
           next == [p EXCEPT !.tokens = t]
<1>1. /\ Working(v) /\ p # None /\ p.site \in {"flush", "converge"} /\ write[v] = None
      /\ p.gone = {} /\ p.todo = {} /\ Go(v, next, None) /\ UNCHANGED excused
  BY DEF BulkTokens, Comparing, Working
<1>2. p \in Passes /\ InHand(v, p, None, excused) /\ \A m \in Note : store[m] \in Rows
  BY <1>1, PassSays DEF Working
<1>3. t \in [{m \in Note : store[m] # Absent} -> Revision \cup {None}]
  BY <1>2 DEF Rows
<1>4. t \in Tokens
  BY <1>3, ReadingsAre
<1>5. /\ DOMAIN t = {m \in Note : store[m] # Absent}
      /\ \A n \in DOMAIN t : t[n] = store[n].token
  OBVIOUS
<1> HIDE DEF t
<1>6. /\ next \in Passes /\ next # None /\ next.site = p.site /\ next.paths = p.paths
      /\ next.seen = p.seen /\ next.docs = p.docs /\ next.again = p.again
      /\ next.gone = p.gone /\ next.todo = p.todo /\ next.tokens = t
      /\ next.redo = p.redo /\ next.retry = p.retry
  BY <1>2, <1>4, NothingIsNone DEF Passes
<1> HIDE DEF next
<1>7. InHand(v, next, None, excused)
  BY <1>1, <1>2, <1>5, <1>6
     DEF InHand, Placed, FromRows, OfOne, Stands, FromEmpty, Left, Own, Whole
<1>8. Keeps(v, next, None, excused)
  BY <1>1, <1>6 DEF Keeps, Ahead, Left, Own
<1>9. QED
  BY <1>1, <1>6, <1>7, <1>8, PassSays, GoStep DEF Working

(* ... and then the rows, for the generation that will replace them.       *)
LEMMA BulkRowsStep ==
  ASSUME EmbedInv, NEW v \in Vault, BulkRows(v)
  PROVE  EmbedInv'
<1> DEFINE p == pass[v]
           ns == DOMAIN p.tokens
           token == [n \in ns |-> IF n \in p.again THEN p.docs[n] ELSE p.tokens[n]]
           f == [n \in DOMAIN token |-> [token |-> token[n], rows |-> store[n].rows]]
           next == [p EXCEPT !.tokens = None]
           w == Generation(f)
<1>1. /\ Working(v) /\ p # None /\ p.site \in {"flush", "converge"} /\ write[v] = None
      /\ p.tokens # None /\ Go(v, next, w) /\ UNCHANGED excused
  BY DEF BulkRows, Comparing, Working
<1>2. /\ p \in Passes /\ InHand(v, p, None, excused)
      /\ \A m \in Note : row[v][m] \in 0..4 /\ store[m] \in Rows
  BY <1>1, PassSays DEF Working
<1>3. ns \subseteq Note /\ \A n \in ns : p.tokens[n] \in Revision \cup {None}
  BY <1>1, <1>2, PassIs, ReadingsAre
<1>4. /\ p.gone = {} /\ p.todo = {} /\ p.again \subseteq p.paths
      /\ \A n \in p.again : /\ p.docs[n] = row[v][n] /\ Inputs[row[v][n]] # 0
                            /\ n \notin fresh[v] => store[n].rows = Inputs[row[v][n]]
      /\ \A n \in Note \ fresh[v] : /\ n \in ns <=> store[n] # Absent
                                    /\ n \in ns => p.tokens[n] = store[n].token
  BY <1>1, <1>2, PassIs DEF InHand, Placed, FromRows, Stands, Left
<1>5. \A n \in p.again : row[v][n] \in Revision /\ row[v][n] \in 0..4
  BY <1>2, <1>4, InputsOf, PassIs
<1>6. /\ DOMAIN f = ns /\ f \in [ns -> Rows]
      /\ \A n \in ns \cap p.again : f[n] = [token |-> row[v][n], rows |-> store[n].rows]
      /\ \A n \in ns \ p.again : f[n] = [token |-> p.tokens[n], rows |-> store[n].rows]
  BY <1>2, <1>3, <1>4, <1>5 DEF Rows
<1> HIDE DEF f
<1>7. w \in Writes /\ w # None /\ w.whole /\ w.puts = f
  BY <1>3, <1>6, GenerationIs
<1>8. /\ next \in Passes /\ next # None /\ next.site = p.site /\ next.paths = p.paths
      /\ next.seen = p.seen /\ next.docs = p.docs /\ next.again = p.again
      /\ next.gone = p.gone /\ next.todo = p.todo /\ next.tokens = None
      /\ next.redo = p.redo /\ next.retry = p.retry
  BY <1>2, NothingIsNone DEF Passes
<1> HIDE DEF next, w
<1>9. \A n \in Note : Landed(w)[n] = IF n \in ns THEN f[n] ELSE Absent
  BY <1>6, <1>7, LandedIs DEF EmbedInv, Typed
<1>10. \A n \in Note \ fresh[v] : /\ n \notin p.again => Landed(w)[n] = store[n]
                                  /\ n \in p.again => Landed(w)[n] = Wanted(row[v][n])
  <2>1. SUFFICES ASSUME NEW n \in Note \ fresh[v]
                 PROVE  /\ n \notin p.again => Landed(w)[n] = store[n]
                        /\ n \in p.again => Landed(w)[n] = Wanted(row[v][n])
    OBVIOUS
  <2>2. CASE n \notin p.again
    <3>1. store[n] = [token |-> store[n].token, rows |-> store[n].rows]
      BY <1>2 DEF Rows
    <3>2. QED
      BY <1>4, <1>6, <1>9, <2>2, <3>1
  <2>3. CASE n \in p.again
    <3>1. n \in ns /\ store[n].rows = Inputs[row[v][n]] /\ Inputs[row[v][n]] # 0
      BY <1>4, <2>3 DEF Absent
    <3>2. QED
      BY <1>6, <1>9, <2>3, <3>1 DEF Wanted, RowsOf
  <2>4. QED
    BY <2>2, <2>3
<1>11. Wants(v, next, w, excused)
  BY <1>1, <1>7, <1>8, <1>10 DEF Wants, Bound, Own
<1>12. InHand(v, next, w, excused)
  BY <1>1, <1>2, <1>4, <1>7, <1>8, <1>11
     DEF InHand, Placed, FromRows, OfOne, Stands, FromEmpty, Left, Own, Whole
<1>13. Keeps(v, next, w, excused)
  BY <1>1, <1>7, <1>8 DEF Keeps, Ahead, Left, Own
<1>14. QED
  BY <1>1, <1>7, <1>8, <1>12, <1>13, PassSays, GoStep DEF Working

(* A generation of the whole vault is put together, or given up.           *)
LEMMA AssembleStep ==
  ASSUME EmbedInv, NEW v \in Vault, Assemble(v)
  PROVE  EmbedInv'
<1> DEFINE p == pass[v]
           docs == {n \in p.paths : Inputs[p.docs[n]] # 0}
           f(ns) == [n \in ns |-> RowsOf(p.docs[n])]
           populated == \E n \in Note : p.seen[n].rows # 0
<1>1. Working(v) /\ p # None /\ p.site \in {"cold", "forced"} /\ write[v] = None
  BY DEF Assemble, Working
<1>2. /\ p \in Passes /\ InHand(v, p, None, excused) /\ excused \subseteq Note
      /\ \A m \in Note : row[v][m] \in 0..4 /\ store[m] \in Rows
  BY <1>1, PassSays DEF Working
<1>3. /\ p.paths = Note /\ p.redo = {} /\ p.retry = {} /\ p.again = {} /\ p.tokens = None
      /\ docs \subseteq Note /\ \A n \in Note : p.docs[n] = row[v][n]
      /\ \A n \in Note : n \in docs <=> Inputs[row[v][n]] # 0
  BY <1>1, <1>2, PassIs DEF InHand, Placed, FromRows, Whole
<1>4. \/ Go(v, p, Generation(f(docs))) /\ UNCHANGED excused
      \/ \E bad \in (SUBSET docs) \ {{}} :
           IF bad = docs \/ populated
           THEN Go(v, None, None) /\ Excuse(IF p.site = "cold" THEN bad ELSE {})
           ELSE Go(v, p, Generation(f(docs \ bad))) /\ Excuse(bad)
      \/ Go(v, None, None) /\ Excuse(Note)
  BY DEF Assemble
<1> HIDE DEF docs
<1>5. ASSUME NEW ns \in SUBSET docs, Go(v, p, Generation(f(ns))),
             excused \subseteq excused', excused' \subseteq Note, docs \ ns \subseteq excused'
      PROVE  EmbedInv'
  <2> DEFINE w == Generation(f(ns))
  <2>1. f(ns) \in [ns -> Rows] /\ ns \subseteq Note
    BY <1>2, <1>3, WantedIs
  <2>2. w \in Writes /\ w # None /\ w.whole /\ w.puts = f(ns) /\ DOMAIN f(ns) = ns
    BY <2>1, GenerationIs
  <2>3. \A n \in Note : Landed(w)[n] = IF n \in ns THEN RowsOf(row[v][n]) ELSE Absent
    BY <1>3, <2>2, LandedIs DEF EmbedInv, Typed
  <2> HIDE DEF w
  <2>4. \A n \in Note : /\ Landed(w)[n] \in {Wanted(row[v][n]), Absent}
                        /\ n \notin excused' => Landed(w)[n] = Wanted(row[v][n])
    BY <1>3, <1>5, <2>3 DEF Wanted
  <2>5. Wants(v, p, w, excused')
    BY <2>4 DEF Wants
  <2>6. InHand(v, p, w, excused')
    BY <1>1, <1>2, <1>3, <2>2, <2>5 DEF InHand, Placed, OfOne, Own, Whole
  <2>7. Keeps(v, p, w, excused')
    BY <1>1, <2>2 DEF Keeps, Ahead, Own
  <2>8. QED
    BY <1>1, <1>2, <1>3, <1>5, <2>2, <2>6, <2>7, GoStep DEF w
<1>6. ASSUME NEW some \in SUBSET Note, Go(v, None, None), excused' = excused \cup some,
             p.site = "cold" => docs \subseteq some
      PROVE  EmbedInv'
  <2>1. \A n \in Note \ fresh[v] : p.site = "cold" /\ n \notin docs => Right(n, row[v][n])
    BY <1>2, <1>3, <1>1 DEF Right, InHand, Stands
  <2>2. Keeps(v, None, None, excused')
    BY <1>1, <1>3, <1>6, <2>1 DEF Keeps, Ahead, Left, Own
  <2>3. InHand(v, None, None, excused')
    BY DEF InHand
  <2>4. QED
    BY <1>1, <1>2, <1>6, <2>2, <2>3, GoStep
<1>7. CASE Go(v, p, Generation(f(docs))) /\ UNCHANGED excused
  BY <1>2, <1>5, <1>7
<1>8. ASSUME NEW bad \in (SUBSET docs) \ {{}},
             IF bad = docs \/ populated
             THEN Go(v, None, None) /\ Excuse(IF p.site = "cold" THEN bad ELSE {})
             ELSE Go(v, p, Generation(f(docs \ bad))) /\ Excuse(bad)
      PROVE  EmbedInv'
  <2>1. CASE bad = docs \/ populated
    <3>1. p.site = "cold" => bad = docs
      BY <1>1, <1>2, <2>1 DEF InHand, FromEmpty
    <3>2. excused' = excused \cup (IF p.site = "cold" THEN bad ELSE {}) /\ Go(v, None, None)
      BY <1>8, <2>1 DEF Excuse
    <3>3. QED
      BY <1>3, <1>6, <3>1, <3>2
  <2>2. CASE ~(bad = docs \/ populated)
    <3>1. Go(v, p, Generation(f(docs \ bad))) /\ excused' = excused \cup bad
      BY <1>8, <2>2 DEF Excuse
    <3>2. QED
      BY <1>2, <1>3, <1>5, <1>8, <3>1
  <2>3. QED
    BY <2>1, <2>2
<1>9. CASE Go(v, None, None) /\ Excuse(Note)
  BY <1>3, <1>6, <1>9 DEF Excuse
<1>10. QED
  BY <1>4, <1>7, <1>8, <1>9

-----------------------------------------------------------------------------
(* The steps of the files and the processes, and the jobs.                 *)

(* A transaction left unsettled is as much owed after a step that leaves   *)
(* the store alone, if every vault that owed it still does.                *)
LEMMA LimboStays ==
  ASSUME EmbedInv, UNCHANGED schema, lapsed => lapsed', excused \subseteq excused',
         \A u \in Vault, n \in Note : /\ Steady(u, n) /\ n \notin excused' => Steady(u, n)'
                                      /\ row'[u][n] = row[u][n] \/ Steady(u, n)'
  PROVE  LimboIsOwed' /\ LimboTakes'
<1>1. LimboTakes'
  BY DEF EmbedInv, LimboTakes, schema
<1>2. SUFFICES ASSUME limbo # None, NEW n \in Note \ TakenOf(limbo.takes)
               PROVE  LET x == Landed(limbo.asked)[n]
                      IN /\ x = store[n] \/ Fit(x)
                         /\ limbo.late \/ n \in excused' \/ x = store[n]
                              \/ \E v \in Vault : Steady(v, n)' \/ x = Wanted(row'[v][n])
  BY <1>1 DEF schema, LimboIsOwed, Landed, Fit, TakenOf, Wanted, RowsOf, Absent
<1>3. LET x == Landed(limbo.asked)[n]
      IN /\ x = store[n] \/ Fit(x)
         /\ limbo.late \/ n \in excused \/ x = store[n]
              \/ \E v \in Vault : Steady(v, n) \/ x = Wanted(row[v][n])
  BY <1>2 DEF EmbedInv, LimboIsOwed
<1>4. QED
  BY <1>3

(* One that the next pass does not see is owed to nobody, any more.        *)
LEMMA LimboIsLate ==
  ASSUME EmbedInv, limbo' = IF limbo = None THEN None ELSE [limbo EXCEPT !.late = TRUE],
         store' = store, lapsed => lapsed'
  PROVE  LimboIsOwed' /\ LimboTakes' /\ (limbo' # None => limbo # None)
<1>1. CASE limbo = None
  BY <1>1 DEF LimboIsOwed, LimboTakes
<1>2. CASE limbo # None
  <2>1. limbo \in Unsettled
    BY <1>2 DEF EmbedInv, Typed, StoreTyped
  <2>2. limbo'.late /\ limbo'.takes = limbo.takes /\ limbo'.asked = limbo.asked
    BY <1>2, <2>1 DEF Unsettled
  <2>3. LimboTakes'
    BY <1>2, <2>2 DEF EmbedInv, LimboTakes
  <2>4. \A n \in Note \ TakenOf(limbo.takes) :
          Landed(limbo.asked)[n] = store[n] \/ Fit(Landed(limbo.asked)[n])
    BY <1>2 DEF EmbedInv, LimboIsOwed
  <2>5. LimboIsOwed'
    BY <2>2, <2>4 DEF LimboIsOwed, Landed, Fit, TakenOf
  <2>6. QED
    BY <1>2, <2>3, <2>5
<1>3. QED
  BY <1>1, <1>2

(* A note is as much heeded after a step that leaves the store alone, if   *)
(* every vault that heeded it still does, or finds it right.               *)
LEMMA SomeoneStays ==
  ASSUME EmbedInv, store' = store, excused \subseteq excused',
         \A u \in Vault, n \in Note \ excused' :
           /\ Heeds(u, n) => Heeds(u, n)' \/ Right(n, row[u][n])'
           /\ row'[u][n] = row[u][n] \/ Heeds(u, n)'
  PROVE  SomeoneHeeds'
<1>1. SUFFICES ASSUME NEW n \in Note \ excused'
               PROVE  \E u \in Vault : Heeds(u, n)' \/ Right(n, row[u][n])'
  BY DEF SomeoneHeeds
<1>2. PICK u \in Vault : Heeds(u, n) \/ Right(n, row[u][n])
  BY <1>1 DEF EmbedInv, SomeoneHeeds
<1>3. row'[u][n] = row[u][n] /\ Right(n, row[u][n]) => Right(n, row[u][n])'
  BY DEF Right
<1>4. QED
  BY <1>1, <1>2, <1>3

(* A file is edited.                                                       *)
LEMMA EditStep ==
  ASSUME EmbedInv, NEW n \in Note, Edit(n)
  PROVE  EmbedInv'
<1>1. /\ source' \in [Note -> 0..4]
      /\ UNCHANGED <<schema, store, limbo, lease, up, open, row, dirty, queued, due, pass, write,
                     fresh, lost, excused, lapsed, failed>>
  BY DEF Edit, schema, processVars, queueVars, history, EmbedInv, Typed, FilesTyped, Revision
<1>2. Typed'
  BY <1>1 DEF EmbedInv, Typed, FilesTyped, StoreTyped, QueuesTyped, PassTyped, WriteTyped,
              HistoryTyped
<1>3. AllInHand'
  BY <1>1, OthersStay DEF EmbedInv, AllInHand
<1>4. LimboIsOwed' /\ LimboTakes'
  BY <1>1, LimboStays DEF Steady
<1>5. SomeoneHeeds'
  BY <1>1, SomeoneStays DEF Heeds, Steady, Ahead
<1>6. Alone' /\ TakingIsKnown' /\ DirtyIsQueued'
  BY <1>1 DEF EmbedInv, Alone, TakingIsKnown, DirtyIsQueued, Fit, TakenOf
<1>7. QED
  BY <1>2, <1>3, <1>4, <1>5, <1>6 DEF EmbedInv

(* A vault starts.                                                         *)
LEMMA StartStep ==
  ASSUME EmbedInv, NEW v \in Vault, Start(v)
  PROVE  EmbedInv'
<1>1. /\ ~up[v] /\ up' = [up EXCEPT ![v] = TRUE] /\ due' = [due EXCEPT ![v] = TRUE]
      /\ row' = [row EXCEPT ![v] = source]
      /\ UNCHANGED <<schema, source, store, limbo, lease, open, dirty, queued, pass, write,
                     fresh, lost, excused, lapsed, failed>>
  BY DEF Start, files, schema, history
<1>2. Typed'
  BY <1>1 DEF EmbedInv, Typed, FilesTyped, StoreTyped, QueuesTyped, PassTyped, WriteTyped,
              HistoryTyped
<1>3. /\ pass[v] = None /\ up'[v] /\ due'[v]
      /\ \A u \in Vault \ {v} : up'[u] = up[u] /\ due'[u] = due[u] /\ row'[u] = row[u]
  BY <1>1 DEF EmbedInv, AllInHand, Typed, QueuesTyped, FilesTyped
<1>4. AllInHand'
  <2>1. ASSUME NEW u \in Vault
        PROVE  InHand(u, pass[u], write[u], excused)' /\ (pass'[u] # None => up'[u] /\ open'[u])
    BY <1>1, <1>3, OthersStay DEF EmbedInv, AllInHand
  <2>2. QED
    BY <2>1 DEF AllInHand
<1>5. \A u \in Vault, n \in Note : /\ Steady(u, n) => Steady(u, n)'
                                   /\ row'[u][n] = row[u][n] \/ Steady(u, n)'
  BY <1>1, <1>3 DEF Steady
<1>6. LimboIsOwed' /\ LimboTakes'
  BY <1>1, <1>5, LimboStays
<1>7. SomeoneHeeds'
  BY <1>1, <1>5, SomeoneStays DEF Heeds, Ahead
<1>8. Alone' /\ TakingIsKnown' /\ DirtyIsQueued'
  BY <1>1 DEF EmbedInv, Alone, TakingIsKnown, DirtyIsQueued, Fit, TakenOf
<1>9. QED
  BY <1>2, <1>4, <1>6, <1>7, <1>8 DEF EmbedInv

(* A refresh takes up a changed file.                                      *)
LEMMA NoticeStep ==
  ASSUME EmbedInv, NEW v \in Vault, NEW n \in Note, Notice(v, n)
  PROVE  EmbedInv'
<1>1. /\ pass[v] = None /\ row' = [row EXCEPT ![v][n] = source[n]]
      /\ dirty' = [dirty EXCEPT ![v] = @ \cup {n}] /\ queued' = [queued EXCEPT ![v] = TRUE]
      /\ UNCHANGED <<schema, source, store, limbo, lease, up, open, due, pass, write,
                     fresh, lost, excused, lapsed, failed>>
  BY DEF Notice, Idle, files, schema, history
<1>2. Typed'
  BY <1>1 DEF EmbedInv, Typed, FilesTyped, StoreTyped, QueuesTyped, PassTyped, WriteTyped,
              HistoryTyped
<1>3. /\ dirty'[v] = dirty[v] \cup {n} /\ queued'[v]
      /\ \A u \in Vault \ {v} : /\ dirty'[u] = dirty[u] /\ queued'[u] = queued[u]
                                /\ row'[u] = row[u]
      /\ \A m \in Note \ {n} : row'[v][m] = row[v][m]
  BY <1>1 DEF EmbedInv, Typed, QueuesTyped, FilesTyped
<1>4. AllInHand'
  <2>1. ASSUME NEW u \in Vault
        PROVE  InHand(u, pass[u], write[u], excused)' /\ (pass'[u] # None => up'[u] /\ open'[u])
    BY <1>1, <1>3, OthersStay DEF EmbedInv, AllInHand
  <2>2. QED
    BY <2>1 DEF AllInHand
<1>5. \A u \in Vault, m \in Note : /\ Steady(u, m) => Steady(u, m)'
                                   /\ row'[u][m] = row[u][m] \/ Steady(u, m)'
  BY <1>1, <1>3 DEF Steady
<1>6. LimboIsOwed' /\ LimboTakes'
  BY <1>1, <1>5, LimboStays
<1>7. SomeoneHeeds'
  BY <1>1, <1>5, SomeoneStays DEF Heeds, Ahead
<1>8. Alone' /\ TakingIsKnown'
  BY <1>1 DEF EmbedInv, Alone, TakingIsKnown, Fit, TakenOf
<1>9. DirtyIsQueued'
  BY <1>1, <1>3 DEF EmbedInv, DirtyIsQueued
<1>10. QED
  BY <1>2, <1>4, <1>6, <1>7, <1>8, <1>9 DEF EmbedInv

(* A lease ends under its holder.                                          *)
LEMMA LoseLeaseStep ==
  ASSUME EmbedInv, NEW v \in Vault, LoseLease(v)
  PROVE  EmbedInv'
<1>1. /\ lease' = None /\ lapsed'
      /\ UNCHANGED <<schema, source, store, limbo, up, open, row, dirty, queued, due, pass, write,
                     fresh, lost, excused, failed>>
  BY DEF LoseLease, files, schema, processVars, queueVars
<1>2. Typed'
  BY <1>1 DEF EmbedInv, Typed, FilesTyped, StoreTyped, QueuesTyped, PassTyped, WriteTyped,
              HistoryTyped
<1>3. AllInHand'
  BY <1>1, OthersStay DEF EmbedInv, AllInHand
<1>4. LimboIsOwed' /\ LimboTakes'
  BY <1>1, LimboStays DEF Steady
<1>5. SomeoneHeeds'
  BY <1>1, SomeoneStays DEF Heeds, Steady, Ahead
<1>6. Alone' /\ TakingIsKnown' /\ DirtyIsQueued'
  BY <1>1 DEF EmbedInv, Alone, TakingIsKnown, DirtyIsQueued, Fit, TakenOf
<1>7. QED
  BY <1>2, <1>3, <1>4, <1>5, <1>6 DEF EmbedInv

(* A job begins its pass: it sees the store as it is, and the notes it     *)
(* takes up are to be looked at, or have nothing in either place.          *)
LEMMA BeginKeeps ==
  ASSUME EmbedInv, NEW v \in Vault, Idle(v), CanOpen(v), NEW paths \in SUBSET Note,
         NEW site \in {"flush", "converge", "cold", "forced"}, Begin(v, site, paths),
         UNCHANGED <<source, store, up, row, write, lost, excused, lapsed, failed>>,
         site \in {"cold", "forced"} => paths = Note,
         site = "cold" => \A n \in Note : store[n].rows = 0,
         queued' \in [Vault -> BOOLEAN], due' \in [Vault -> BOOLEAN],
         dirty' \in [Vault -> SUBSET Note],
         \A u \in Vault \ {v} : due'[u] = due[u] /\ dirty'[u] = dirty[u] /\ queued'[u] = queued[u],
         dirty'[v] = {} \/ (dirty'[v] = dirty[v] /\ queued'[v] = queued[v]),
         \A n \in Note : due[v] \/ n \in dirty[v] =>
           due'[v] \/ n \in dirty'[v] \/ (site # "forced" /\ n \in paths)
  PROVE  EmbedInv'
<1> DEFINE p == NewPass(v, site, paths)
<1>1. /\ p \in Passes /\ p # None /\ p.site = site /\ p.paths = paths /\ p.seen = store
      /\ DOMAIN p.docs = paths /\ \A n \in paths : p.docs[n] = row[v][n]
      /\ p.gone = {n \in paths : row[v][n] = 0 /\ store[n] # Absent}
      /\ p.todo = {n \in paths : row[v][n] # 0}
      /\ p.again = {} /\ p.tokens = None /\ p.redo = {} /\ p.retry = {}
  BY NewPassIs DEF EmbedInv, Typed
<1>2. /\ up[v] /\ pass[v] = None /\ write[v] = None
      /\ open' = [open EXCEPT ![v] = TRUE] /\ lease' = IF open[v] THEN lease ELSE v
      /\ pass' = [pass EXCEPT ![v] = p] /\ fresh' = [fresh EXCEPT ![v] = {}]
      /\ limbo' = IF limbo = None THEN None ELSE [limbo EXCEPT !.late = TRUE]
  BY DEF Idle, Begin, OpenStore, EmbedInv, AllInHand, InHand
<1> HIDE DEF p
<1>3. /\ pass'[v] = p /\ fresh'[v] = {} /\ open'[v] /\ up'[v] /\ write'[v] = None
      /\ \A u \in Vault \ {v} : pass'[u] = pass[u] /\ fresh'[u] = fresh[u] /\ open'[u] = open[u]
  BY <1>2 DEF EmbedInv, Typed, QueuesTyped, PassTyped, HistoryTyped
<1>4. Typed'
  <2>1. limbo' \in Unsettled \cup {None}
    BY <1>2 DEF EmbedInv, Typed, StoreTyped, Unsettled
  <2>2. FilesTyped' /\ StoreTyped' /\ WriteTyped'
    BY <2>1 DEF EmbedInv, Typed, FilesTyped, StoreTyped, WriteTyped
  <2>3. QueuesTyped'
    BY <1>2 DEF EmbedInv, Typed, QueuesTyped
  <2>4. PassTyped' /\ HistoryTyped'
    BY <1>1, <1>2 DEF EmbedInv, Typed, PassTyped, HistoryTyped
  <2>5. QED
    BY <2>2, <2>3, <2>4 DEF Typed
<1>5. AllInHand'
  <2>1. ASSUME NEW u \in Vault, u # v
        PROVE  InHand(u, pass[u], write[u], excused)' /\ (pass'[u] # None => up'[u] /\ open'[u])
    BY <1>3, <2>1, OthersStay DEF EmbedInv, AllInHand
  <2>2. InHand(v, pass[v], write[v], excused)'
    BY <1>1, <1>3
       DEF InHand, Placed, FromRows, OfOne, Stands, FromEmpty, Left, Own, Whole
  <2>3. QED
    BY <1>3, <2>1, <2>2 DEF AllInHand
<1>6. LimboIsOwed' /\ LimboTakes'
  BY <1>2, LimboIsLate
<1>7. SomeoneHeeds'
  <2>1. ASSUME NEW n \in Note, Heeds(v, n)
        PROVE  Heeds(v, n)' \/ Right(n, row[v][n])'
    <3>1. due[v] \/ n \in dirty[v]
      BY <1>2, <2>1 DEF Heeds, Steady, Ahead
    <3>2. CASE due'[v] \/ n \in dirty'[v]
      BY <3>2 DEF Heeds, Steady
    <3>3. CASE site # "forced" /\ n \in paths
      <4>1. CASE row[v][n] = 0 /\ store[n] = Absent
        BY <4>1 DEF Right, Absent, Inputs
      <4>2. CASE ~(row[v][n] = 0 /\ store[n] = Absent)
        BY <1>1, <1>3, <3>3, <4>2 DEF Heeds, Ahead, Left
      <4>3. QED
        BY <4>1, <4>2
    <3>4. QED
      BY <3>1, <3>2, <3>3
  <2>2. ASSUME NEW u \in Vault, u # v, NEW n \in Note, Heeds(u, n)
        PROVE  Heeds(u, n)'
    BY <1>3, <2>2 DEF Heeds, Steady, Ahead
  <2>3. QED
    BY <2>1, <2>2, SomeoneStays
<1>8. Alone'
  BY <1>2, <1>3, SomeVault DEF EmbedInv, Alone, CanOpen, Typed, QueuesTyped
<1>9. TakingIsKnown' /\ DirtyIsQueued'
  BY DEF EmbedInv, TakingIsKnown, DirtyIsQueued, Fit, TakenOf
<1>10. QED
  BY <1>4, <1>5, <1>6, <1>7, <1>8, <1>9 DEF EmbedInv

(* A flush begins.                                                         *)
LEMMA BeginFlushStep ==
  ASSUME EmbedInv, NEW v \in Vault, BeginFlush(v)
  PROVE  EmbedInv'
<1>1. /\ Idle(v) /\ ~due[v] /\ CanOpen(v) /\ Begin(v, "flush", dirty[v])
      /\ dirty' = [dirty EXCEPT ![v] = {}] /\ queued' = [queued EXCEPT ![v] = FALSE]
      /\ UNCHANGED <<source, store, up, row, due, write, lost, excused, lapsed, failed>>
  BY DEF BeginFlush, files
<1>2. /\ dirty[v] \in SUBSET Note /\ dirty'[v] = {} /\ due' \in [Vault -> BOOLEAN]
      /\ queued' \in [Vault -> BOOLEAN] /\ dirty' \in [Vault -> SUBSET Note]
      /\ \A u \in Vault \ {v} : dirty'[u] = dirty[u] /\ queued'[u] = queued[u]
  BY <1>1 DEF EmbedInv, Typed, QueuesTyped
<1>3. QED
  BY <1>1, <1>2, BeginKeeps

(* The build of the startup begins.                                        *)
LEMMA BeginBuildStep ==
  ASSUME EmbedInv, NEW v \in Vault, BeginBuild(v)
  PROVE  EmbedInv'
<1> DEFINE site == IF \A n \in Note : store[n].rows = 0 THEN "cold" ELSE "converge"
<1>1. /\ Idle(v) /\ CanOpen(v) /\ Begin(v, site, Note) /\ due' = [due EXCEPT ![v] = FALSE]
      /\ UNCHANGED <<source, store, up, row, dirty, queued, write, lost, excused, lapsed, failed>>
  BY DEF BeginBuild, files
<1>2. /\ due' \in [Vault -> BOOLEAN]
      /\ queued' \in [Vault -> BOOLEAN] /\ dirty' \in [Vault -> SUBSET Note]
      /\ \A u \in Vault \ {v} : due'[u] = due[u]
  BY <1>1 DEF EmbedInv, Typed, QueuesTyped
<1>3. site \in {"cold", "converge"} /\ (site = "cold" => \A n \in Note : store[n].rows = 0)
  OBVIOUS
<1>4. QED
  BY <1>1, <1>2, <1>3, BeginKeeps

(* A client has everything embedded again.                                 *)
LEMMA BeginForcedStep ==
  ASSUME EmbedInv, NEW v \in Vault, BeginForced(v)
  PROVE  EmbedInv'
<1>1. /\ Idle(v) /\ CanOpen(v) /\ Begin(v, "forced", Note)
      /\ UNCHANGED <<source, store, up, row, dirty, queued, due, write, lost, excused, lapsed,
                     failed>>
  BY DEF BeginForced, files, queueVars
<1>2. /\ due' \in [Vault -> BOOLEAN] /\ queued' \in [Vault -> BOOLEAN]
      /\ dirty' \in [Vault -> SUBSET Note]
  BY <1>1 DEF EmbedInv, Typed, QueuesTyped
<1>3. QED
  BY <1>1, <1>2, BeginKeeps

(* A flush is refused, and leaves its notes to the next.                   *)
LEMMA FlushRefusedStep ==
  ASSUME EmbedInv, NEW v \in Vault, FlushRefused(v)
  PROVE  EmbedInv'
<1>1. /\ queued' = [queued EXCEPT ![v] = FALSE] /\ failed'
      /\ UNCHANGED <<schema, source, store, limbo, lease, up, open, row, dirty, due, pass, write,
                     fresh, lost, excused, lapsed>>
  BY DEF FlushRefused, files, schema, processVars
<1>2. Typed'
  BY <1>1 DEF EmbedInv, Typed, FilesTyped, StoreTyped, QueuesTyped, PassTyped, WriteTyped,
              HistoryTyped
<1>3. AllInHand'
  BY <1>1, OthersStay DEF EmbedInv, AllInHand
<1>4. LimboIsOwed' /\ LimboTakes'
  BY <1>1, LimboStays DEF Steady
<1>5. SomeoneHeeds'
  BY <1>1, SomeoneStays DEF Heeds, Steady, Ahead
<1>6. Alone' /\ TakingIsKnown' /\ DirtyIsQueued'
  BY <1>1 DEF EmbedInv, Alone, TakingIsKnown, DirtyIsQueued, Fit, TakenOf
<1>7. QED
  BY <1>2, <1>3, <1>4, <1>5, <1>6 DEF EmbedInv

(* The build of the startup is refused.                                    *)
LEMMA BuildRefusedStep ==
  ASSUME EmbedInv, NEW v \in Vault, BuildRefused(v)
  PROVE  EmbedInv'
<1>1. /\ due' = [due EXCEPT ![v] = FALSE] /\ excused' = Note
      /\ UNCHANGED <<schema, source, store, limbo, lease, up, open, row, dirty, queued, pass, write,
                     fresh, lost, lapsed, failed>>
  BY DEF BuildRefused, files, schema, processVars, Excuse, EmbedInv, Typed, HistoryTyped
<1>2. excused \subseteq excused'
  BY <1>1 DEF EmbedInv, Typed, HistoryTyped
<1>3. Typed'
  BY <1>1 DEF EmbedInv, Typed, FilesTyped, StoreTyped, QueuesTyped, PassTyped, WriteTyped,
              HistoryTyped
<1>4. AllInHand'
  BY <1>1, <1>2, OthersStay DEF EmbedInv, AllInHand
<1>5. LimboIsOwed' /\ LimboTakes'
  BY <1>1, <1>2, LimboStays
<1>6. SomeoneHeeds'
  BY <1>1 DEF SomeoneHeeds
<1>7. Alone' /\ TakingIsKnown' /\ DirtyIsQueued'
  BY <1>1 DEF EmbedInv, Alone, TakingIsKnown, DirtyIsQueued, Fit, TakenOf
<1>8. QED
  BY <1>3, <1>4, <1>5, <1>6, <1>7 DEF EmbedInv

-----------------------------------------------------------------------------
(* The end of a write and of a pass.                                       *)

(* Nothing that was to be looked at is left out when the pass of v goes on *)
(* to p with no write, or ends, and the store stays as it is.              *)
Hands(v, p, ex) ==
  \A n \in Note \ ex :
    LET later == n \in dirty'[v] \/ (p # None /\ n \in p.retry)
    IN /\ n \in dirty[v] \/ n \in pass[v].retry => later
       /\ n \in pass[v].redo \/ Ahead(v, pass[v], write[v], n) =>
            Ahead(v, p, None, n) \/ later \/ (p # None /\ n \in p.redo)

LEMMA TurnKeeps ==
  ASSUME EmbedInv, NEW v \in Vault, NEW p \in Passes \cup {None}, pass[v] # None,
         pass' = [pass EXCEPT ![v] = p], write' = [write EXCEPT ![v] = None],
         UNCHANGED <<store, up, open, row, due, fresh>>,
         \A u \in Vault \ {v} : dirty'[u] = dirty[u],
         excused \subseteq excused', excused' \subseteq Note,
         InHand(v, p, None, excused'), Hands(v, p, excused')
  PROVE  /\ PassTyped' /\ WriteTyped' /\ AllInHand' /\ SomeoneHeeds'
         /\ \A u \in Vault, n \in Note \ excused' : Steady(u, n) => Steady(u, n)'
<1>1. /\ pass'[v] = p /\ write'[v] = None
      /\ \A u \in Vault \ {v} : pass'[u] = pass[u] /\ write'[u] = write[u]
      /\ PassTyped' /\ WriteTyped'
  BY DEF EmbedInv, Typed, PassTyped, WriteTyped
<1>2. AllInHand'
  <2>1. ASSUME NEW u \in Vault, u # v
        PROVE  InHand(u, pass[u], write[u], excused)' /\ (pass'[u] # None => up'[u] /\ open'[u])
    BY <1>1, <2>1, OthersStay DEF EmbedInv, AllInHand
  <2>2. InHand(v, pass[v], write[v], excused)'
    BY <1>1 DEF InHand, Placed, FromRows, OfOne, Stands, FromEmpty, Left, Own, Whole
  <2>3. up'[v] /\ open'[v]
    BY PassSays
  <2>4. QED
    BY <2>1, <2>2, <2>3 DEF AllInHand
<1>3. \A u \in Vault, n \in Note \ excused' : Steady(u, n) => Steady(u, n)'
  BY <1>1 DEF Steady, Hands
<1>4. \A n \in Note \ excused' : Heeds(v, n) => Heeds(v, n)'
  BY <1>1, <1>3 DEF Heeds, Hands, Ahead, Own, Steady
<1>5. \A u \in Vault \ {v}, n \in Note : Heeds(u, n) => Heeds(u, n)'
  BY <1>1 DEF Heeds, Ahead, Steady
<1>6. QED
  BY <1>1, <1>2, <1>3, <1>4, <1>5, SomeoneStays

(* The pass is over.                                                       *)
LEMMA FinishStep ==
  ASSUME EmbedInv, NEW v \in Vault, Finish(v)
  PROVE  EmbedInv'
<1> DEFINE p == pass[v]
<1>1. /\ p # None /\ write[v] = None /\ p.site \in {"flush", "converge"}
      /\ p.gone = {} /\ p.todo = {} /\ p.again = {}
      /\ pass' = [pass EXCEPT ![v] = None]
      /\ dirty' = [dirty EXCEPT ![v] = @ \cup p.redo \cup p.retry]
      /\ queued' = [queued EXCEPT ![v] = @ \/ p.redo # {}]
      /\ failed' = (failed \/ p.retry # {})
      /\ UNCHANGED <<schema, source, store, limbo, lease, up, open, row, due, write, fresh, lost,
                     excused, lapsed>>
  BY DEF Finish, Comparing, Working, files, schema, processVars
<1>2. p \in Passes /\ excused \subseteq Note
  BY <1>1, PassSays
<1>3. /\ dirty'[v] = dirty[v] \cup p.redo \cup p.retry /\ queued'[v] = (queued[v] \/ p.redo # {})
      /\ \A u \in Vault \ {v} : dirty'[u] = dirty[u] /\ queued'[u] = queued[u]
      /\ write' = [write EXCEPT ![v] = None]
  BY <1>1 DEF EmbedInv, Typed, QueuesTyped, WriteTyped
<1>4. InHand(v, None, None, excused') /\ Hands(v, None, excused')
  BY <1>1, <1>3 DEF InHand, Hands, Ahead, Left, Own
<1>5. /\ PassTyped' /\ WriteTyped' /\ AllInHand' /\ SomeoneHeeds'
      /\ \A u \in Vault, n \in Note \ excused' : Steady(u, n) => Steady(u, n)'
  BY <1>1, <1>2, <1>3, <1>4, TurnKeeps
<1>6. LimboIsOwed' /\ LimboTakes'
  BY <1>1, <1>5, LimboStays
<1>7. QueuesTyped'
  <2>1. dirty' \in [Vault -> SUBSET Note]
    BY <1>1, <1>2, PassIs DEF EmbedInv, Typed, QueuesTyped
  <2>2. queued' \in [Vault -> BOOLEAN]
    BY <1>1 DEF EmbedInv, Typed, QueuesTyped
  <2>3. QED
    BY <1>1, <2>1, <2>2 DEF EmbedInv, Typed, QueuesTyped
<1>8. Typed'
  BY <1>1, <1>5, <1>7 DEF EmbedInv, Typed, FilesTyped, StoreTyped, HistoryTyped
<1>9. Alone' /\ TakingIsKnown'
  BY <1>1 DEF EmbedInv, Alone, TakingIsKnown, Fit, TakenOf, PassTyped, Typed
<1>10. DirtyIsQueued'
  BY <1>1, <1>3 DEF EmbedInv, DirtyIsQueued
<1>11. QED
  BY <1>5, <1>6, <1>8, <1>9, <1>10 DEF EmbedInv

(* A read of the store fails under the pass.                               *)
LEMMA PassFailsStep ==
  ASSUME EmbedInv, NEW v \in Vault, PassFails(v)
  PROVE  EmbedInv'
<1> DEFINE p == pass[v]
<1>1. /\ p # None /\ write[v] = None /\ p.site \in {"flush", "converge"}
      /\ pass' = [pass EXCEPT ![v] = None]
      /\ \/ /\ dirty' = [dirty EXCEPT ![v] = @ \cup p.paths] /\ failed' = TRUE
            /\ UNCHANGED excused
         \/ excused' = excused \cup Note /\ UNCHANGED <<dirty, failed>>
      /\ UNCHANGED <<schema, source, store, limbo, lease, up, open, row, due, queued, write, fresh,
                     lost, lapsed>>
  BY DEF PassFails, Comparing, Working, files, schema, processVars, Excuse
<1>2. p \in Passes /\ excused \subseteq Note /\ InHand(v, p, None, excused)
  BY <1>1, PassSays
<1>3. /\ excused \subseteq excused' /\ excused' \subseteq Note
      /\ write' = [write EXCEPT ![v] = None]
      /\ \A u \in Vault \ {v} : dirty'[u] = dirty[u]
  BY <1>1, <1>2 DEF EmbedInv, Typed, QueuesTyped, WriteTyped
<1>4. dirty'[v] = dirty[v] \cup p.paths \/ excused' = Note
  BY <1>1, <1>2 DEF EmbedInv, Typed, QueuesTyped
<1>5. Left(p) \cup p.redo \cup p.retry \subseteq p.paths
  BY <1>1, <1>2 DEF InHand, Placed
<1>6. InHand(v, None, None, excused') /\ Hands(v, None, excused')
  BY <1>1, <1>4, <1>5 DEF InHand, Hands, Ahead, Own
<1>7. /\ PassTyped' /\ WriteTyped' /\ AllInHand' /\ SomeoneHeeds'
      /\ \A u \in Vault, n \in Note \ excused' : Steady(u, n) => Steady(u, n)'
  BY <1>1, <1>3, <1>6, TurnKeeps
<1>8. LimboIsOwed' /\ LimboTakes'
  BY <1>1, <1>3, <1>7, LimboStays
<1>9. QueuesTyped'
  <2>1. dirty' \in [Vault -> SUBSET Note]
    BY <1>1, <1>2, PassIs DEF EmbedInv, Typed, QueuesTyped
  <2>2. QED
    BY <1>1, <2>1 DEF EmbedInv, Typed, QueuesTyped
<1>10. Typed'
  BY <1>1, <1>3, <1>7, <1>9 DEF EmbedInv, Typed, FilesTyped, StoreTyped, HistoryTyped
<1>11. Alone' /\ TakingIsKnown'
  BY <1>1 DEF EmbedInv, Alone, TakingIsKnown, Fit, TakenOf, PassTyped, Typed
<1>12. DirtyIsQueued'
  BY <1>1 DEF EmbedInv, DirtyIsQueued
<1>13. QED
  BY <1>7, <1>8, <1>10, <1>11, <1>12 DEF EmbedInv

(* The pass after a write that failed: what it was about waits, unless a   *)
(* whole build was: then everything does, or nothing was owed by it.       *)
LEMMA KeptSays ==
  ASSUME EmbedInv, NEW v \in Vault, write[v] # None, dirty' = dirty,
         NEW ex, excused \subseteq ex, pass[v].site = "cold" => Note \subseteq ex
  PROVE  LET k == Kept(pass[v], write[v])
         IN k \in Passes \cup {None} /\ InHand(v, k, None, ex) /\ Hands(v, k, ex)
<1> DEFINE p == pass[v]
           w == write[v]
           k == Kept(p, w)
<1>1. w # None /\ p # None /\ p \in Passes /\ InHand(v, p, w, excused)
  BY PassSays DEF EmbedInv, AllInHand, InHand
<1>2. CASE Whole(p)
  <2>1. k = None
    BY <1>2 DEF Kept, Whole
  <2>2. p.redo = {} /\ p.retry = {}
    BY <1>1, <1>2 DEF InHand, Placed
  <2>3. InHand(v, None, None, ex) /\ Hands(v, None, ex)
    BY <1>2, <2>2 DEF InHand, Hands, Ahead, Whole
  <2>4. QED
    BY <2>1, <2>3
<1>3. CASE ~Whole(p) /\ w.whole
  <2>1. k = [p EXCEPT !.retry = @ \cup p.again, !.again = {}]
    BY <1>3 DEF Kept, Whole
  <2>2. /\ k \in Passes /\ k # None /\ k.site = p.site /\ k.paths = p.paths /\ k.seen = p.seen
        /\ k.docs = p.docs /\ k.gone = p.gone /\ k.todo = p.todo /\ k.again = {}
        /\ k.tokens = p.tokens /\ k.redo = p.redo /\ k.retry = p.retry \cup p.again
    BY <1>1, <2>1, NothingIsNone DEF Passes
  <2> HIDE DEF k
  <2>3. InHand(v, k, None, ex)
    BY <1>1, <1>3, <2>2
       DEF InHand, Placed, FromRows, OfOne, Stands, FromEmpty, Left, Own, Whole
  <2>4. p.gone = {} /\ p.todo = {}
    BY <1>1, <1>3 DEF InHand, Placed
  <2>5. Hands(v, k, ex)
    BY <1>1, <1>3, <2>2, <2>4 DEF Hands, Ahead, Left, Own, Whole
  <2>6. QED
    BY <2>2, <2>3, <2>5 DEF k
<1>4. CASE ~Whole(p) /\ ~w.whole
  <2> DEFINE n == NoteOf(w)
  <2>1. k = [p EXCEPT !.retry = @ \cup {n}]
    BY <1>4 DEF Kept, Whole
  <2>2. n \in Note /\ Own(w) = {n} /\ n \in p.paths
    BY <1>1, <1>4, NoteOfOne DEF InHand, Placed
  <2> HIDE DEF n
  <2>3. /\ k \in Passes /\ k # None /\ k.site = p.site /\ k.paths = p.paths /\ k.seen = p.seen
        /\ k.docs = p.docs /\ k.gone = p.gone /\ k.todo = p.todo /\ k.again = p.again
        /\ k.tokens = p.tokens /\ k.redo = p.redo /\ k.retry = p.retry \cup {n}
    BY <1>1, <2>1, <2>2, NothingIsNone DEF Passes
  <2> HIDE DEF k
  <2>4. InHand(v, k, None, ex)
    BY <1>1, <1>4, <2>2, <2>3
       DEF InHand, Placed, FromRows, OfOne, Stands, FromEmpty, Left, Own, Whole
  <2>5. Own(None) = {}
    BY DEF Own
  <2>6. Hands(v, k, ex)
    BY <1>1, <1>4, <2>2, <2>3, <2>5 DEF Hands, Ahead, Left, Whole
  <2>7. QED
    BY <2>3, <2>4, <2>6 DEF k
<1>5. QED
  BY <1>2, <1>3, <1>4

(* The pass after a conflict: its note is looked at again.                 *)
LEMMA SentBackSays ==
  ASSUME EmbedInv, NEW v \in Vault, write[v] # None, ~write[v].whole, dirty' = dirty
  PROVE  LET k == SentBack(pass[v], write[v])
         IN k \in Passes /\ InHand(v, k, None, excused) /\ Hands(v, k, excused)
<1> DEFINE p == pass[v]
           w == write[v]
           n == NoteOf(w)
           k == SentBack(p, w)
<1>1. w # None /\ p # None /\ p \in Passes /\ InHand(v, p, w, excused)
  BY PassSays DEF EmbedInv, AllInHand, InHand
<1>2. n \in Note /\ Own(w) = {n} /\ n \in p.paths /\ ~Whole(p)
  BY <1>1, NoteOfOne DEF InHand, Placed
<1>3. k = [p EXCEPT !.redo = @ \cup {n}]
  BY DEF SentBack
<1> HIDE DEF n
<1>4. /\ k \in Passes /\ k # None /\ k.site = p.site /\ k.paths = p.paths /\ k.seen = p.seen
      /\ k.docs = p.docs /\ k.gone = p.gone /\ k.todo = p.todo /\ k.again = p.again
      /\ k.tokens = p.tokens /\ k.redo = p.redo \cup {n} /\ k.retry = p.retry
  BY <1>1, <1>2, <1>3, NothingIsNone DEF Passes
<1> HIDE DEF k
<1>5. InHand(v, k, None, excused)
  BY <1>1, <1>2, <1>4
     DEF InHand, Placed, FromRows, OfOne, Stands, FromEmpty, Left, Own, Whole
<1>6. Own(None) = {}
  BY DEF Own
<1>7. Hands(v, k, excused)
  BY <1>1, <1>2, <1>4, <1>6 DEF Hands, Ahead, Left, Whole
<1>8. QED
  BY <1>4, <1>5, <1>7 DEF k

(* The lease is held before a write, taken back, or another vault's.       *)
LEMMA EnsureStep ==
  ASSUME EmbedInv, NEW v \in Vault, Ensure(v)
  PROVE  EmbedInv'
<1> DEFINE p == pass[v]
           w == write[v]
<1>1. /\ w # None
      /\ UNCHANGED <<schema, source, store, limbo, up, open, row, dirty, queued, due, fresh, lost,
                     lapsed, failed>>
  BY DEF Ensure, files, schema, processVars, queueVars
<1>2. w \in Writes /\ p # None /\ p \in Passes /\ InHand(v, p, w, excused) /\ up[v] /\ open[v]
  BY <1>1, PassSays DEF EmbedInv, AllInHand, InHand
<1>3. CASE /\ lease \in {v, None} /\ lease' = v
           /\ write' = [write EXCEPT ![v].held = TRUE] /\ UNCHANGED <<pass, excused>>
  <2> DEFINE x == [w EXCEPT !.held = TRUE]
  <2>1. write' = [write EXCEPT ![v] = x]
    BY <1>3
  <2>2. x \in Writes /\ x # None /\ x.puts = w.puts /\ x.whole = w.whole /\ x.expected = w.expected
    BY <1>2, NothingIsNone DEF Writes
  <2> HIDE DEF x
  <2>3. /\ write'[v] = x /\ \A u \in Vault \ {v} : write'[u] = write[u]
        /\ WriteTyped'
    BY <2>1, <2>2 DEF EmbedInv, Typed, WriteTyped
  <2>4. Typed'
    BY <1>1, <1>3, <2>3 DEF EmbedInv, Typed, FilesTyped, StoreTyped, QueuesTyped, PassTyped,
                            HistoryTyped
  <2>5. Own(x) = Own(w) /\ Landed(x) = Landed(w)
    BY <1>2, <2>2, NothingIsNone DEF Own, Landed
  <2>6. AllInHand'
    <3>1. ASSUME NEW u \in Vault, u # v
          PROVE  InHand(u, pass[u], write[u], excused)' /\ (pass'[u] # None => up'[u] /\ open'[u])
      BY <1>1, <1>3, <2>3, <3>1, OthersStay DEF EmbedInv, AllInHand
    <3>2. InHand(v, p, x, excused)
      BY <1>1, <1>2, <2>2, <2>5 DEF InHand, Placed, OfOne, Wants, Bound
    <3>3. InHand(v, pass[v], write[v], excused)'
      BY <1>1, <1>3, <2>3, <3>2
         DEF InHand, Placed, FromRows, OfOne, Stands, FromEmpty, Wants, Landed, Left, Own, Whole,
             Bound
    <3>4. QED
      BY <1>1, <1>2, <3>1, <3>3 DEF AllInHand
  <2>7. LimboIsOwed' /\ LimboTakes'
    BY <1>1, <1>3, LimboStays DEF Steady
  <2>8. SomeoneHeeds'
    <3>1. ASSUME NEW u \in Vault, NEW n \in Note, Heeds(u, n)
          PROVE  Heeds(u, n)'
      <4>1. CASE u = v
        <5>1. Own(write[u])' = Own(x)
          BY <2>3, <4>1 DEF Own
        <5>2. QED
          BY <1>1, <1>3, <2>5, <3>1, <4>1, <5>1 DEF Heeds, Steady, Ahead, Left
      <4>2. CASE u # v
        BY <1>1, <1>3, <2>3, <3>1, <4>2 DEF Heeds, Steady, Ahead, Left
      <4>3. QED
        BY <4>1, <4>2
    <3>2. QED
      BY <1>1, <1>3, <3>1, SomeoneStays
  <2>9. Alone' /\ TakingIsKnown' /\ DirtyIsQueued'
    BY <1>1, <1>2, <1>3 DEF EmbedInv, Alone, TakingIsKnown, DirtyIsQueued, Fit, TakenOf
  <2>10. QED
    BY <2>4, <2>6, <2>7, <2>8, <2>9 DEF EmbedInv
<1>4. CASE lease \notin {v, None} /\ WriteFails(v) /\ UNCHANGED lease
  <2>1. /\ pass' = [pass EXCEPT ![v] = Kept(p, w)] /\ write' = [write EXCEPT ![v] = None]
        /\ excused' = excused \cup (IF p.site = "cold" THEN Note ELSE {})
        /\ excused \subseteq excused' /\ excused' \subseteq Note
    BY <1>4 DEF WriteFails, NextStep, Excuse, EmbedInv, Typed, HistoryTyped
  <2>2. LET k == Kept(p, w)
        IN k \in Passes \cup {None} /\ InHand(v, k, None, excused') /\ Hands(v, k, excused')
    BY <1>1, <2>1, KeptSays
  <2>3. /\ PassTyped' /\ WriteTyped' /\ AllInHand' /\ SomeoneHeeds'
        /\ \A u \in Vault, n \in Note \ excused' : Steady(u, n) => Steady(u, n)'
    BY <1>1, <1>2, <2>1, <2>2, TurnKeeps
  <2>4. LimboIsOwed' /\ LimboTakes'
    BY <1>1, <2>1, <2>3, LimboStays
  <2>5. Typed'
    BY <1>1, <1>4, <2>1, <2>3 DEF EmbedInv, Typed, FilesTyped, StoreTyped, QueuesTyped,
                                  HistoryTyped
  <2>6. Alone'
    BY <1>1, <1>2, <1>4 DEF EmbedInv, Alone
  <2>7. TakingIsKnown' /\ DirtyIsQueued'
    BY <1>1 DEF EmbedInv, TakingIsKnown, DirtyIsQueued, Fit, TakenOf
  <2>8. QED
    BY <2>3, <2>4, <2>5, <2>6, <2>7 DEF EmbedInv
<1>5. QED
  BY <1>3, <1>4 DEF Ensure

(* What a write of v takes is what others wrote in between; a document's   *)
(* is no conflict only if its token is the one the pass has read; and what *)
(* it does not take it leaves as there, or wanted by v, or empty.          *)
LEMMA TakesSays ==
  ASSUME EmbedInv, NEW v \in Vault, write[v] # None
  PROVE  LET w == write[v]
             takes == Takes(v, w)
         IN /\ takes \subseteq Taken
            /\ \A n \in Note : n \in TakenOf(takes) <=> n \in fresh[v] /\ Landed(w)[n] # store[n]
            /\ ~Conflicts(w) => \A t \in takes : t[2] # "unread"
            /\ \A n \in Note \ TakenOf(takes) :
                 /\ Landed(w)[n] = store[n] \/ Fit(Landed(w)[n])
                 /\ n \notin excused => Landed(w)[n] \in {store[n], Wanted(row[v][n])}
<1> DEFINE w == write[v]
           takes == Takes(v, w)
           ns == {n \in fresh[v] : Landed(w)[n] # store[n]}
<1>1. /\ w \in Writes /\ pass[v] # None /\ InHand(v, pass[v], w, excused)
      /\ \A n \in Note : row[v][n] \in 0..4
  BY PassSays DEF EmbedInv, AllInHand, InHand
<1>2. ns \subseteq Note /\ takes = ns \X {Manner(v, w)}
  BY DEF Takes, EmbedInv, Typed, HistoryTyped
<1> HIDE DEF ns
<1>3. Manner(v, w) \in {"generation", "returned", "unread"}
  BY DEF Manner
<1>4. takes \subseteq Taken
  BY <1>2, <1>3 DEF Taken
<1>5. \A n \in Note : n \in TakenOf(takes) <=> n \in ns
  <2>1. ASSUME NEW n \in ns
        PROVE  n \in TakenOf(takes)
    <3>1. <<n, Manner(v, w)>> \in takes
      BY <1>2
    <3>2. QED
      BY <3>1 DEF TakenOf
  <2>2. ASSUME NEW n \in TakenOf(takes)
        PROVE  n \in ns
    BY <1>2 DEF TakenOf
  <2>3. QED
    BY <2>1, <2>2
<1>6. ~Conflicts(w) => Manner(v, w) # "unread"
  <2>1. CASE w.whole
    BY <2>1 DEF Manner
  <2>2. CASE ~w.whole
    <3>1. w.expected = pass[v].seen[NoteOf(w)].token
      BY <1>1, <2>2, NoteOfOne DEF InHand
    <3>2. QED
      BY <2>2, <3>1 DEF Manner, Conflicts
  <2>3. QED
    BY <2>1, <2>2
<1>7. ~Conflicts(w) => \A t \in takes : t[2] # "unread"
  BY <1>2, <1>6
<1>8. ASSUME NEW n \in Note, n \notin ns
      PROVE  /\ Landed(w)[n] = store[n] \/ Fit(Landed(w)[n])
             /\ n \notin excused => Landed(w)[n] \in {store[n], Wanted(row[v][n])}
  <2>1. CASE n \in fresh[v]
    BY <1>8, <2>1 DEF ns
  <2>2. CASE n \notin fresh[v]
    <3>1. /\ Landed(w)[n] \in {store[n], Wanted(row[v][n]), Absent}
          /\ n \notin excused => Landed(w)[n] \in {store[n], Wanted(row[v][n])}
      BY <1>1, <2>2 DEF InHand, Wants
    <3>2. QED
      BY <1>1, <3>1, WantedIs
  <2>3. QED
    BY <2>1, <2>2
<1>9. QED
  BY <1>4, <1>5, <1>7, <1>8 DEF ns

(* A transaction that nobody hears of any more is owed as it is left.      *)
LEMMA SentIsOwed ==
  ASSUME EmbedInv, NEW v \in Vault, write[v] # None, ~Conflicts(write[v]), limbo' = Sent(v),
         lapsed', UNCHANGED <<store, row>>, excused \subseteq excused'
  PROVE  LimboIsOwed' /\ LimboTakes' /\ limbo' \in Unsettled
<1> DEFINE w == write[v]
           takes == Takes(v, w)
<1>1. w \in Writes
  BY DEF EmbedInv, Typed, WriteTyped
<1>2. /\ takes \subseteq Taken /\ \A t \in takes : t[2] # "unread"
      /\ \A n \in Note \ TakenOf(takes) :
           /\ Landed(w)[n] = store[n] \/ Fit(Landed(w)[n])
           /\ n \notin excused => Landed(w)[n] \in {store[n], Wanted(row[v][n])}
  BY TakesSays
<1> HIDE DEF w, takes
<1>3. limbo' = [asked |-> w, takes |-> takes, late |-> FALSE]
  BY DEF Sent, w, takes
<1>4. limbo' \in Unsettled
  BY <1>1, <1>2, <1>3 DEF Unsettled
<1>5. LimboTakes'
  BY <1>2, <1>3 DEF LimboTakes
<1>6. ASSUME NEW n \in Note, n \notin TakenOf(limbo'.takes)
      PROVE  LET x == Landed(limbo.asked)'[n]
             IN /\ x = store'[n] \/ Fit(x)
                /\ n \in excused' \/ x = store'[n] \/ x = Wanted(row'[v][n])
  <2>1. limbo'.asked = w /\ limbo'.takes = takes
    BY <1>3
  <2>2. Landed(limbo.asked)'[n] = Landed(w)[n]
    BY <2>1 DEF Landed
  <2>3. QED
    BY <1>2, <1>6, <2>1, <2>2
<1>7. LimboIsOwed'
  BY <1>6 DEF LimboIsOwed, Fit, TakenOf, Wanted, RowsOf, Absent
<1>8. QED
  BY <1>4, <1>5, <1>7

(* What a transaction that commits does: rows change for some notes, which *)
(* every other vault has to hear of; those it takes are excused, and those *)
(* of one that came late.                                                  *)
LEMMA CommitSays ==
  ASSUME EmbedInv, NEW by, NEW w \in Writes, NEW takes \in SUBSET Taken, NEW late,
         Commit(by, w, takes, late)
  PROVE  /\ store' = Landed(w) /\ store' \in [Note -> Rows] /\ HistoryTyped'
         /\ lost' = lost \cup takes /\ excused \subseteq excused'
         /\ TakenOf(takes) \subseteq excused'
         /\ late => \A n \in Note : store'[n] # store[n] => n \in excused'
         /\ \A u \in Vault : fresh[u] \subseteq fresh'[u] /\ (u = by => fresh'[u] = fresh[u])
         /\ \A u \in Vault : u # by => \A n \in Note \ fresh'[u] : store'[n] = store[n]
         /\ \A u \in Vault, n \in Note : store'[n] = store[n] /\ n \in fresh'[u] => n \in fresh[u]
<1>1. /\ store' = Landed(w) /\ lost' = lost \cup takes
      /\ fresh' = [u \in Vault |-> IF u = by THEN fresh[u] ELSE fresh[u] \cup Changed(w)]
      /\ excused' = excused \cup (TakenOf(takes) \cup (IF late THEN Changed(w) ELSE {}))
  BY DEF Commit, Excuse, TakenOf
<1>2. Landed(w) \in [Note -> Rows] /\ Changed(w) = {n \in Note : Landed(w)[n] # store[n]}
  BY LandedIs DEF EmbedInv, Typed, Changed, Landed
<1>3. TakenOf(takes) \subseteq Note
  BY DEF TakenOf, Taken
<1>4. fresh' \in [Vault -> SUBSET Note]
  BY <1>1, <1>2 DEF EmbedInv, Typed, HistoryTyped
<1>5. lost' \subseteq Taken /\ excused' \subseteq Note
  BY <1>1, <1>2, <1>3 DEF EmbedInv, Typed, HistoryTyped
<1>6. HistoryTyped'
  BY <1>4, <1>5 DEF HistoryTyped
<1>7. QED
  BY <1>1, <1>2, <1>6

(* The pass whose write went through is in hand, and has done what it was  *)
(* about to do.                                                            *)
LEMMA WrittenSays ==
  ASSUME EmbedInv, NEW v \in Vault, write[v] # None,
         pass' = [pass EXCEPT ![v] = Written(pass[v], write[v])],
         write' = [write EXCEPT ![v] = None],
         store' = Landed(write[v]), fresh'[v] = fresh[v],
         excused \subseteq excused', UNCHANGED <<up, row, dirty, due>>
  PROVE  /\ PassTyped' /\ WriteTyped'
         /\ InHand(v, pass[v], write[v], excused)'
         /\ \A n \in Note \ excused' : Heeds(v, n) => Heeds(v, n)' \/ Right(n, row[v][n])'
<1> DEFINE p == pass[v]
           w == write[v]
           k == Written(p, w)
<1>1. /\ w # None /\ w \in Writes /\ p # None /\ p \in Passes /\ InHand(v, p, w, excused)
      /\ \A n \in Note : row[v][n] \in 0..4
  BY PassSays DEF EmbedInv, AllInHand, InHand
<1>2. pass'[v] = k /\ write'[v] = None
  BY DEF EmbedInv, Typed, PassTyped, WriteTyped
<1>3. \A n \in Note : /\ w.whole \/ n \in Own(w) \/ store'[n] = store[n]
                      /\ store'[n] = Wanted(row[v][n]) => Right(n, row[v][n])'
  BY <1>1, LandedIs, WantedIs DEF EmbedInv, Typed, Own, Right
<1>4. \A n \in Note \ (fresh[v] \cup excused') :
        Bound(p, w, n) => Right(n, row[v][n])'
  BY <1>1, <1>3 DEF InHand, Wants
<1>5. CASE Whole(p)
  <2>1. k = None /\ p.redo = {} /\ p.retry = {}
    BY <1>1, <1>5 DEF Written, Whole, InHand, Placed
  <2>2. InHand(v, pass[v], write[v], excused)' /\ PassTyped' /\ WriteTyped'
    BY <1>2, <2>1 DEF InHand, EmbedInv, Typed, PassTyped, WriteTyped
  <2>3. ASSUME NEW n \in Note \ excused', Heeds(v, n)
        PROVE  Heeds(v, n)' \/ Right(n, row[v][n])'
    BY <1>4, <1>5, <2>1, <2>3 DEF Heeds, Steady, Ahead, Whole, Bound
  <2>4. QED
    BY <2>2, <2>3
<1>6. CASE ~Whole(p) /\ w.whole
  <2>1. k = [p EXCEPT !.again = {}] /\ p.gone = {} /\ p.todo = {} /\ p.tokens = None
    BY <1>1, <1>6 DEF Written, Whole, InHand, Placed
  <2>2. /\ k \in Passes /\ k # None /\ k.site = p.site /\ k.paths = p.paths /\ k.seen = p.seen
        /\ k.docs = p.docs /\ k.gone = {} /\ k.todo = {} /\ k.again = {}
        /\ k.tokens = None /\ k.redo = p.redo /\ k.retry = p.retry
    BY <1>1, <2>1, NothingIsNone DEF Passes
  <2> HIDE DEF k
  <2>3. PassTyped' /\ WriteTyped'
    BY <2>2 DEF k, EmbedInv, Typed, PassTyped, WriteTyped
  <2>4. InHand(v, pass[v], write[v], excused)'
    BY <1>1, <1>2, <1>6, <2>2
       DEF InHand, Placed, FromRows, OfOne, Stands, FromEmpty, Left, Own, Whole
  <2>5. ASSUME NEW n \in Note \ excused', Heeds(v, n)
        PROVE  Heeds(v, n)' \/ Right(n, row[v][n])'
    <3>1. CASE Ahead(v, p, w, n)
      <4>1. n \in p.again /\ n \notin fresh[v]
        BY <1>6, <2>1, <3>1 DEF Ahead, Left, Own, Whole
      <4>2. QED
        BY <1>4, <1>6, <2>5, <4>1 DEF Bound
    <3>2. CASE ~Ahead(v, p, w, n)
      BY <1>2, <2>2, <2>5, <3>2 DEF Heeds, Steady
    <3>3. QED
      BY <3>1, <3>2
  <2>6. QED
    BY <2>3, <2>4, <2>5
<1>7. CASE ~Whole(p) /\ ~w.whole
  <2>1. k = p
    BY <1>7 DEF Written, Whole
  <2>2. PassTyped' /\ WriteTyped'
    BY <1>1, <2>1 DEF EmbedInv, Typed, PassTyped, WriteTyped
  <2>3. \A n \in Left(p) : n \notin Own(w) /\ n \in Note
    BY <1>1, PassIs DEF InHand, Placed, Left
  <2>4. InHand(v, pass[v], write[v], excused)'
    <3>1. p.tokens = None /\ p.site # "cold"
      BY <1>1, <1>7 DEF InHand, Placed, Whole
    <3>2. Stands(v, pass[v])'
      BY <1>1, <1>2, <1>3, <1>7, <2>1, <2>3, <3>1 DEF InHand, Stands, Left
    <3>3. QED
      BY <1>1, <1>2, <1>7, <2>1, <3>1, <3>2
         DEF InHand, Placed, FromRows, OfOne, FromEmpty, Left, Own, Whole
  <2>5. ASSUME NEW n \in Note \ excused', Heeds(v, n)
        PROVE  Heeds(v, n)' \/ Right(n, row[v][n])'
    <3>1. CASE Ahead(v, p, w, n) /\ n \in Own(w)
      BY <1>4, <2>5, <3>1 DEF Bound, Ahead
    <3>2. CASE Ahead(v, p, w, n) /\ n \notin Own(w)
      <4>1. Ahead(v, p, None, n)
        BY <3>2 DEF Ahead
      <4>2. Ahead(v, pass[v], write[v], n)'
        BY <1>2, <2>1, <4>1 DEF Ahead, Left, Own
      <4>3. QED
        BY <4>2 DEF Heeds
    <3>3. CASE ~Ahead(v, p, w, n)
      BY <1>2, <2>1, <2>5, <3>3 DEF Heeds, Steady
    <3>4. QED
      BY <3>1, <3>2, <3>3
  <2>6. QED
    BY <2>2, <2>4, <2>5
<1>8. QED
  BY <1>5, <1>6, <1>7

(* A write that goes through.                                              *)
LEMMA CommitStep ==
  ASSUME EmbedInv, NEW v \in Vault, write[v] # None, limbo = None, ~Conflicts(write[v]),
         Commit(v, write[v], Takes(v, write[v]), FALSE),
         NextStep(v, Written(pass[v], write[v])),
         UNCHANGED <<source, limbo, lease, up, open, row, dirty, queued, due, failed>>,
         lapsed' <=> lapsed
  PROVE  EmbedInv'
<1> DEFINE w == write[v]
           takes == Takes(v, w)
<1>1. w \in Writes /\ pass[v] # None /\ up[v] /\ open[v] /\ InHand(v, pass[v], w, excused)
  BY PassSays DEF EmbedInv, AllInHand, InHand
<1>2. /\ takes \in SUBSET Taken
      /\ \A n \in Note : n \in TakenOf(takes) <=> n \in fresh[v] /\ Landed(w)[n] # store[n]
      /\ \A t \in takes : t[2] # "unread"
      /\ \A n \in Note \ TakenOf(takes) :
           /\ Landed(w)[n] = store[n] \/ Fit(Landed(w)[n])
           /\ n \notin excused => Landed(w)[n] \in {store[n], Wanted(row[v][n])}
  BY TakesSays
<1>3. /\ store' = Landed(w) /\ store' \in [Note -> Rows] /\ HistoryTyped'
      /\ lost' = lost \cup takes /\ excused \subseteq excused'
      /\ TakenOf(takes) \subseteq excused'
      /\ \A u \in Vault : fresh[u] \subseteq fresh'[u] /\ (u = v => fresh'[u] = fresh[u])
      /\ \A u \in Vault : u # v => \A n \in Note \ fresh'[u] : store'[n] = store[n]
      /\ \A u \in Vault, n \in Note : store'[n] = store[n] /\ n \in fresh'[u] => n \in fresh[u]
  BY <1>1, <1>2, CommitSays
<1> HIDE DEF takes
<1>4. /\ pass' = [pass EXCEPT ![v] = Written(pass[v], w)] /\ write' = [write EXCEPT ![v] = None]
      /\ \A u \in Vault \ {v} : pass'[u] = pass[u] /\ write'[u] = write[u]
  BY DEF NextStep, EmbedInv, Typed, PassTyped, WriteTyped
<1>5. /\ PassTyped' /\ WriteTyped' /\ InHand(v, pass[v], write[v], excused)'
      /\ \A n \in Note \ excused' : Heeds(v, n) => Heeds(v, n)' \/ Right(n, row[v][n])'
  BY <1>3, <1>4, WrittenSays
<1>6. Typed'
  BY <1>3, <1>5 DEF EmbedInv, Typed, FilesTyped, StoreTyped, QueuesTyped
<1>7. AllInHand'
  <2>1. ASSUME NEW u \in Vault, u # v
        PROVE  InHand(u, pass[u], write[u], excused)' /\ (pass'[u] # None => up'[u] /\ open'[u])
    BY <1>3, <1>4, <2>1, OthersStay DEF EmbedInv, AllInHand
  <2>2. QED
    BY <1>1, <1>5, <2>1 DEF AllInHand
<1>8. LimboIsOwed' /\ LimboTakes'
  BY DEF LimboIsOwed, LimboTakes
<1>9. SomeoneHeeds'
  <2>1. SUFFICES ASSUME NEW n \in Note, n \notin excused'
                 PROVE  \E u \in Vault : Heeds(u, n)' \/ Right(n, row[u][n])'
    BY DEF SomeoneHeeds
  <2>2. PICK u \in Vault : Heeds(u, n) \/ Right(n, row[u][n])
    BY <1>3, <2>1 DEF EmbedInv, SomeoneHeeds
  <2>3. n \notin TakenOf(takes) /\ store'[n] \in {store[n], Wanted(row[v][n])}
    BY <1>2, <1>3, <2>1
  <2>4. CASE store'[n] = Wanted(row[v][n])
    <3>1. row[v][n] \in 0..4
      BY DEF EmbedInv, Typed, FilesTyped
    <3>2. Right(n, row[v][n])'
      BY <2>4, <3>1, WantedIs DEF Right
    <3>3. QED
      BY <3>2
  <2>5. CASE store'[n] = store[n] /\ Right(n, row[u][n])
    <3>1. Right(n, row[u][n])'
      BY <2>5 DEF Right
    <3>2. QED
      BY <3>1
  <2>6. CASE store'[n] = store[n] /\ Heeds(u, n) /\ u # v
    <3>1. Heeds(u, n)'
      BY <1>3, <1>4, <2>6 DEF Heeds, Steady, Ahead
    <3>2. QED
      BY <3>1
  <2>7. CASE Heeds(u, n) /\ u = v
    BY <1>5, <2>1, <2>7
  <2>8. QED
    BY <2>2, <2>3, <2>4, <2>5, <2>6, <2>7
<1>10. Alone'
  <2>1. CASE lapsed
    BY <2>1 DEF Alone
  <2>2. CASE ~lapsed
    <3>1. /\ lost = {} /\ fresh[v] = {} /\ \A u \in Vault : open[u] <=> lease = u
          /\ \A u \in Vault : pass[u] # None => fresh[u] = {}
      BY <1>1, <2>2 DEF EmbedInv, Alone
    <3>2. takes = {}
      BY <3>1 DEF takes, Takes
    <3>3. \A u \in Vault : u # v => pass[u] = None
      BY <1>1, <3>1 DEF EmbedInv, AllInHand
    <3>4. QED
      BY <1>3, <1>4, <3>1, <3>2, <3>3 DEF Alone
  <2>3. QED
    BY <2>1, <2>2
<1>11. TakingIsKnown'
  <2>1. \A t \in lost' : t[2] # "unread"
    BY <1>2, <1>3 DEF EmbedInv, TakingIsKnown
  <2>2. ASSUME NEW n \in Note, n \notin TakenOf(lost')
        PROVE  Fit(store'[n])
    <3>1. n \notin TakenOf(lost) /\ n \notin TakenOf(takes)
      BY <1>3, <2>2 DEF TakenOf
    <3>2. QED
      BY <1>2, <1>3, <3>1 DEF EmbedInv, TakingIsKnown
  <2>3. QED
    BY <2>1, <2>2 DEF TakingIsKnown, Fit, TakenOf
<1>12. DirtyIsQueued'
  BY DEF EmbedInv, DirtyIsQueued
<1>13. QED
  BY <1>6, <1>7, <1>8, <1>9, <1>10, <1>11, <1>12 DEF EmbedInv

(* A write that is given up: what it was about is kept for later, and the  *)
(* server may still have it.                                               *)
LEMMA GivenUpStep ==
  ASSUME EmbedInv, NEW v \in Vault, write[v] # None, limbo = None, WriteFails(v),
         \/ limbo' = None /\ (lapsed' <=> lapsed)
         \/ ~Conflicts(write[v]) /\ limbo' = Sent(v) /\ lapsed',
         UNCHANGED <<source, store, lease, up, open, row, dirty, queued, due, fresh, lost, failed>>
  PROVE  EmbedInv'
<1> DEFINE p == pass[v]
           w == write[v]
<1>1. /\ pass' = [pass EXCEPT ![v] = Kept(p, w)] /\ write' = [write EXCEPT ![v] = None]
      /\ excused' = excused \cup (IF p.site = "cold" THEN Note ELSE {})
      /\ excused \subseteq excused' /\ excused' \subseteq Note
      /\ pass[v] # None
  BY DEF WriteFails, NextStep, Excuse, EmbedInv, Typed, HistoryTyped, AllInHand, InHand
<1>2. LET k == Kept(p, w)
      IN k \in Passes \cup {None} /\ InHand(v, k, None, excused') /\ Hands(v, k, excused')
  BY <1>1, KeptSays
<1>3. /\ PassTyped' /\ WriteTyped' /\ AllInHand' /\ SomeoneHeeds'
      /\ \A u \in Vault, n \in Note \ excused' : Steady(u, n) => Steady(u, n)'
  BY <1>1, <1>2, TurnKeeps
<1>4. LimboIsOwed' /\ LimboTakes' /\ limbo' \in Unsettled \cup {None} /\ (lapsed => lapsed')
  <2>1. CASE limbo' = None /\ (lapsed' <=> lapsed)
    BY <2>1 DEF LimboIsOwed, LimboTakes
  <2>2. CASE ~Conflicts(write[v]) /\ limbo' = Sent(v) /\ lapsed'
    BY <1>1, <2>2, SentIsOwed
  <2>3. QED
    BY <2>1, <2>2
<1>5. Typed'
  BY <1>1, <1>3, <1>4 DEF EmbedInv, Typed, FilesTyped, StoreTyped, QueuesTyped, HistoryTyped
<1>6. Alone'
  <2>1. lapsed' \/ (~lapsed /\ limbo' = None)
    BY <1>4
  <2>2. \A u \in Vault : u # v => pass'[u] = pass[u]
    BY <1>1 DEF EmbedInv, Typed, PassTyped
  <2>3. QED
    BY <1>1, <2>1, <2>2 DEF EmbedInv, Alone
<1>7. TakingIsKnown' /\ DirtyIsQueued'
  BY DEF EmbedInv, TakingIsKnown, DirtyIsQueued, Fit, TakenOf
<1>8. QED
  BY <1>3, <1>4, <1>5, <1>6, <1>7 DEF EmbedInv

(* A write is a conflict.                                                  *)
LEMMA ConflictStep ==
  ASSUME EmbedInv, NEW v \in Vault, write[v] # None, limbo = None, Conflicts(write[v]),
         NextStep(v, SentBack(pass[v], write[v])),
         UNCHANGED <<source, store, limbo, lease, up, open, row, dirty, queued, due, fresh, lost,
                     excused, failed>>, lapsed' <=> lapsed
  PROVE  EmbedInv'
<1> DEFINE p == pass[v]
           w == write[v]
<1>1. /\ pass' = [pass EXCEPT ![v] = SentBack(p, w)] /\ write' = [write EXCEPT ![v] = None]
      /\ pass[v] # None /\ ~w.whole /\ excused \subseteq Note
  BY DEF NextStep, Conflicts, EmbedInv, Typed, HistoryTyped, AllInHand, InHand
<1>2. LET k == SentBack(p, w)
      IN k \in Passes /\ InHand(v, k, None, excused) /\ Hands(v, k, excused)
  BY <1>1, SentBackSays
<1>3. /\ PassTyped' /\ WriteTyped' /\ AllInHand' /\ SomeoneHeeds'
      /\ \A u \in Vault, n \in Note \ excused' : Steady(u, n) => Steady(u, n)'
  BY <1>1, <1>2, TurnKeeps
<1>4. LimboIsOwed' /\ LimboTakes'
  BY DEF LimboIsOwed, LimboTakes
<1>5. Typed'
  BY <1>3 DEF EmbedInv, Typed, FilesTyped, StoreTyped, QueuesTyped, HistoryTyped
<1>6. Alone'
  <2>1. \A u \in Vault : u # v => pass'[u] = pass[u]
    BY <1>1 DEF EmbedInv, Typed, PassTyped
  <2>2. QED
    BY <1>1, <2>1 DEF EmbedInv, Alone
<1>7. TakingIsKnown' /\ DirtyIsQueued'
  BY DEF EmbedInv, TakingIsKnown, DirtyIsQueued, Fit, TakenOf
<1>8. QED
  BY <1>3, <1>4, <1>5, <1>6, <1>7 DEF EmbedInv

(* The transaction ends, in one of these ways.                             *)
LEMMA TransactStep ==
  ASSUME EmbedInv, NEW v \in Vault, Transact(v)
  PROVE  EmbedInv'
<1>1. /\ write[v] # None /\ limbo = None /\ lapsed' = (lapsed \/ limbo' # None)
      /\ UNCHANGED <<source, lease, up, open, row, dirty, queued, due, failed>>
  BY DEF Transact, files, processVars, queueVars
<1>2. \/ /\ Conflicts(write[v]) /\ NextStep(v, SentBack(pass[v], write[v]))
         /\ UNCHANGED <<store, limbo, fresh, lost, excused>>
      \/ /\ ~Conflicts(write[v]) /\ Commit(v, write[v], Takes(v, write[v]), FALSE)
         /\ NextStep(v, Written(pass[v], write[v])) /\ UNCHANGED limbo
      \/ WriteFails(v) /\ UNCHANGED <<store, limbo, fresh, lost>>
      \/ /\ ~Conflicts(write[v]) /\ WriteFails(v) /\ limbo' = Sent(v)
         /\ UNCHANGED <<store, fresh, lost>>
  BY DEF Transact, schema
<1>3. UNCHANGED limbo => (lapsed' <=> lapsed)
  BY <1>1
<1>4. CASE /\ Conflicts(write[v]) /\ NextStep(v, SentBack(pass[v], write[v]))
           /\ UNCHANGED <<store, limbo, fresh, lost, excused>>
  BY <1>1, <1>3, <1>4, ConflictStep
<1>5. CASE /\ ~Conflicts(write[v]) /\ Commit(v, write[v], Takes(v, write[v]), FALSE)
           /\ NextStep(v, Written(pass[v], write[v])) /\ UNCHANGED limbo
  BY <1>1, <1>3, <1>5, CommitStep
<1>6. CASE WriteFails(v) /\ UNCHANGED <<store, limbo, fresh, lost>>
  BY <1>1, <1>3, <1>6, GivenUpStep
<1>7. CASE /\ ~Conflicts(write[v]) /\ WriteFails(v) /\ limbo' = Sent(v)
           /\ UNCHANGED <<store, fresh, lost>>
  <2>1. limbo' # None
    <3>1. /\ write[v] \in Writes /\ Takes(v, write[v]) \subseteq Taken
      BY <1>1, TakesSays DEF EmbedInv, Typed, WriteTyped
    <3>2. limbo' \in Unsettled
      BY <1>7, <3>1 DEF Sent, Unsettled
    <3>3. QED
      BY <3>2, NothingIsNone
  <2>2. QED
    BY <1>1, <1>7, <2>1, GivenUpStep
<1>8. QED
  BY <1>2, <1>4, <1>5, <1>6, <1>7

(* A process ends, with or without a transaction on its way.               *)
LEMMA DownStep ==
  ASSUME EmbedInv, NEW v \in Vault, Down(v)
  PROVE  EmbedInv'
<1>1. /\ up[v] /\ up' = [up EXCEPT ![v] = FALSE] /\ open' = [open EXCEPT ![v] = FALSE]
      /\ lease' = (IF lease = v THEN None ELSE lease)
      /\ dirty' = [dirty EXCEPT ![v] = {}]
      /\ queued' = [queued EXCEPT ![v] = FALSE] /\ due' = [due EXCEPT ![v] = FALSE]
      /\ pass' = [pass EXCEPT ![v] = None] /\ write' = [write EXCEPT ![v] = None]
      /\ \/ UNCHANGED limbo
         \/ write[v] # None /\ limbo = None /\ ~Conflicts(write[v]) /\ limbo' = Sent(v)
      /\ lapsed' = (lapsed \/ limbo' # None)
      /\ UNCHANGED <<source, store, row, fresh, lost, excused, failed>>
  BY DEF Down, files
<1>2. /\ ~up'[v] /\ ~open'[v] /\ dirty'[v] = {} /\ pass'[v] = None /\ write'[v] = None
      /\ \A u \in Vault \ {v} : /\ up'[u] = up[u] /\ open'[u] = open[u] /\ dirty'[u] = dirty[u]
                                /\ queued'[u] = queued[u] /\ due'[u] = due[u]
                                /\ pass'[u] = pass[u] /\ write'[u] = write[u]
  BY <1>1 DEF EmbedInv, Typed, QueuesTyped, PassTyped, WriteTyped
<1>3. AllInHand'
  <2>1. ASSUME NEW u \in Vault, u # v
        PROVE  InHand(u, pass[u], write[u], excused)' /\ (pass'[u] # None => up'[u] /\ open'[u])
    BY <1>1, <1>2, <2>1, OthersStay DEF EmbedInv, AllInHand
  <2>2. QED
    BY <1>2, <2>1 DEF AllInHand, InHand
<1>4. \A u \in Vault, n \in Note : Steady(u, n) => Steady(u, n)'
  BY <1>1, <1>2 DEF Steady
<1>5. LimboIsOwed' /\ LimboTakes' /\ limbo' \in Unsettled \cup {None}
  <2>1. CASE UNCHANGED limbo
    <3>1. limbo' \in Unsettled \cup {None}
      BY <2>1 DEF EmbedInv, Typed, StoreTyped
    <3>2. QED
      BY <1>1, <1>4, <2>1, <3>1, LimboStays DEF schema
  <2>2. CASE write[v] # None /\ limbo = None /\ ~Conflicts(write[v]) /\ limbo' = Sent(v)
    <3>1. /\ write[v] \in Writes /\ Takes(v, write[v]) \subseteq Taken
      BY <2>2, TakesSays DEF EmbedInv, Typed, WriteTyped
    <3>2. limbo' \in Unsettled
      BY <2>2, <3>1 DEF Sent, Unsettled
    <3>3. lapsed'
      BY <1>1, <3>2, NothingIsNone
    <3>4. QED
      BY <1>1, <2>2, <3>3, SentIsOwed
  <2>3. QED
    BY <1>1, <2>1, <2>2
<1>6. Typed'
  <2>1. QueuesTyped'
    BY <1>1 DEF EmbedInv, Typed, QueuesTyped
  <2>2. FilesTyped' /\ StoreTyped' /\ PassTyped' /\ WriteTyped' /\ HistoryTyped'
    BY <1>1, <1>5 DEF EmbedInv, Typed, FilesTyped, StoreTyped, PassTyped, WriteTyped, HistoryTyped
  <2>3. QED
    BY <2>1, <2>2 DEF Typed
<1>7. SomeoneHeeds'
  BY <1>2 DEF SomeoneHeeds, Heeds, Steady
<1>8. Alone'
  <2>1. CASE lapsed'
    BY <2>1 DEF Alone
  <2>2. CASE ~lapsed'
    <3>1. limbo' = None /\ ~lapsed
      BY <1>1, <2>2
    <3>2. /\ lost = {} /\ \A u \in Vault : open[u] <=> lease = u
          /\ \A u \in Vault : pass[u] # None => fresh[u] = {}
      BY <3>1 DEF EmbedInv, Alone
    <3>3. \A u \in Vault : open'[u] <=> lease' = u
      BY <1>1, <1>2, <3>2, SomeVault
    <3>4. QED
      BY <1>1, <1>2, <3>1, <3>2, <3>3 DEF Alone
  <2>3. QED
    BY <2>1, <2>2
<1>9. TakingIsKnown' /\ DirtyIsQueued'
  <2>1. TakingIsKnown'
    BY <1>1 DEF EmbedInv, TakingIsKnown, Fit, TakenOf
  <2>2. DirtyIsQueued'
    BY <1>1, <1>2 DEF EmbedInv, DirtyIsQueued
  <2>3. QED
    BY <2>1, <2>2
<1>10. QED
  BY <1>3, <1>5, <1>6, <1>7, <1>8, <1>9 DEF EmbedInv

(* The server ends a transaction whose client is gone.                     *)
LEMMA SettleStep ==
  ASSUME EmbedInv, Settle
  PROVE  EmbedInv'
<1> DEFINE w == limbo.asked
           takes == limbo.takes
           late == limbo.late
<1>1. /\ limbo # None /\ limbo' = None
      /\ Commit(None, w, takes, late) \/ UNCHANGED <<store, fresh, lost, excused>>
      /\ UNCHANGED <<source, lease, up, open, row, dirty, queued, due, pass, write, lapsed, failed>>
  BY DEF Settle, files, processVars, queueVars
<1>2. /\ w \in Writes /\ takes \in SUBSET Taken /\ late \in BOOLEAN
  BY <1>1 DEF EmbedInv, Typed, StoreTyped, Unsettled
<1>3. LimboIsOwed' /\ LimboTakes'
  BY <1>1 DEF LimboIsOwed, LimboTakes
<1>4. lapsed /\ \A t \in takes : t[2] # "unread"
  BY <1>1 DEF EmbedInv, LimboTakes
<1>5. Alone' /\ DirtyIsQueued'
  BY <1>1, <1>4 DEF EmbedInv, Alone, DirtyIsQueued
<1>6. CASE UNCHANGED <<store, fresh, lost, excused>>
  <2>1. Typed'
    BY <1>1, <1>6 DEF EmbedInv, Typed, FilesTyped, StoreTyped, QueuesTyped, PassTyped, WriteTyped,
                      HistoryTyped
  <2>2. AllInHand'
    BY <1>1, <1>6, OthersStay DEF EmbedInv, AllInHand
  <2>3. SomeoneHeeds'
    BY <1>1, <1>6, SomeoneStays DEF Heeds, Steady, Ahead
  <2>4. TakingIsKnown'
    BY <1>6 DEF EmbedInv, TakingIsKnown, Fit, TakenOf
  <2>5. QED
    BY <1>3, <1>5, <2>1, <2>2, <2>3, <2>4 DEF EmbedInv
<1>7. CASE Commit(None, w, takes, late)
  <2>1. /\ store' = Landed(w) /\ store' \in [Note -> Rows] /\ HistoryTyped'
        /\ lost' = lost \cup takes /\ excused \subseteq excused'
        /\ TakenOf(takes) \subseteq excused'
        /\ late => \A n \in Note : store'[n] # store[n] => n \in excused'
        /\ \A u \in Vault : fresh[u] \subseteq fresh'[u]
        /\ \A u \in Vault : \A n \in Note \ fresh'[u] : store'[n] = store[n]
        /\ \A u \in Vault, n \in Note : store'[n] = store[n] /\ n \in fresh'[u] => n \in fresh[u]
    <3>1. store' = Landed(w) /\ store' \in [Note -> Rows] /\ HistoryTyped'
      BY <1>2, <1>7, CommitSays
    <3>2. /\ \A u \in Vault : fresh[u] \subseteq fresh'[u]
          /\ \A u \in Vault : u # None => \A n \in Note \ fresh'[u] : store'[n] = store[n]
          /\ \A u \in Vault, n \in Note : store'[n] = store[n] /\ n \in fresh'[u] => n \in fresh[u]
      BY <1>2, <1>7, CommitSays
    <3>3. lost' = lost \cup takes
      BY <1>7 DEF Commit
    <3>4. excused \subseteq excused' /\ TakenOf(takes) \subseteq excused'
      BY <1>7 DEF Commit, Excuse, TakenOf
    <3>5. late => \A n \in Note : store'[n] # store[n] => n \in excused'
      BY <1>7 DEF Commit, Excuse, Changed
    <3>6. QED
      BY <3>1, <3>2, <3>3, <3>4, <3>5, SomeVault
  <2>2. Typed'
    BY <1>1, <2>1 DEF EmbedInv, Typed, FilesTyped, StoreTyped, QueuesTyped, PassTyped, WriteTyped
  <2>3. AllInHand'
    BY <1>1, <2>1, OthersStay DEF EmbedInv, AllInHand
  <2>4. \A n \in Note \ TakenOf(takes) :
          /\ store'[n] = store[n] \/ Fit(store'[n])
          /\ late \/ n \in excused \/ store'[n] = store[n]
               \/ \E v \in Vault : Steady(v, n) \/ store'[n] = Wanted(row[v][n])
    BY <1>1, <2>1 DEF EmbedInv, LimboIsOwed
  <2> HIDE DEF w, takes, late
  <2>5. SomeoneHeeds'
    <3>1. SUFFICES ASSUME NEW n \in Note, n \notin excused'
                   PROVE  \E u \in Vault : Heeds(u, n)' \/ Right(n, row[u][n])'
      BY DEF SomeoneHeeds
    <3>2. PICK u \in Vault : Heeds(u, n) \/ Right(n, row[u][n])
      BY <2>1, <3>1 DEF EmbedInv, SomeoneHeeds
    <3>3. CASE store'[n] = store[n]
      <4>1. Right(n, row[u][n]) => Right(n, row[u][n])'
        BY <1>1, <3>3 DEF Right
      <4>2. Heeds(u, n) => Heeds(u, n)'
        BY <1>1, <2>1, <3>3 DEF Heeds, Steady, Ahead
      <4>3. QED
        BY <3>2, <4>1, <4>2
    <3>4. CASE store'[n] # store[n]
      <4>1. PICK v \in Vault : Steady(v, n) \/ store'[n] = Wanted(row[v][n])
        BY <2>1, <2>4, <3>1, <3>4
      <4>2. row[v][n] \in 0..4
        BY DEF EmbedInv, Typed, FilesTyped
      <4>3. store'[n] = Wanted(row[v][n]) => Right(n, row[v][n])'
        BY <1>1, <4>2, WantedIs DEF Right
      <4>4. Steady(v, n) => Heeds(v, n)'
        BY <1>1 DEF Heeds, Steady
      <4>5. QED
        BY <4>1, <4>3, <4>4
    <3>5. QED
      BY <3>3, <3>4
  <2>6. TakingIsKnown'
    <3>1. \A t \in lost' : t[2] # "unread"
      BY <1>4, <2>1 DEF EmbedInv, TakingIsKnown
    <3>2. ASSUME NEW n \in Note, n \notin TakenOf(lost')
          PROVE  Fit(store'[n])
      <4>1. n \notin TakenOf(lost) /\ n \notin TakenOf(takes)
        BY <2>1, <3>2 DEF TakenOf
      <4>2. QED
        BY <2>4, <4>1 DEF EmbedInv, TakingIsKnown
    <3>3. QED
      BY <3>1, <3>2 DEF TakingIsKnown, Fit, TakenOf
  <2>7. QED
    BY <1>3, <1>5, <2>2, <2>3, <2>5, <2>6 DEF EmbedInv
<1>8. QED
  BY <1>1, <1>6, <1>7

-----------------------------------------------------------------------------
(* The theorems.                                                           *)

(* At the start no vault runs, and what is stored stands under its own     *)
(* token, or under none.                                                   *)
LEMMA InitGivesInv == Init => EmbedInv
<1> SUFFICES ASSUME Init PROVE EmbedInv
  OBVIOUS
<1>1. /\ source \in [Note -> 0..4]
      /\ \/ LeftWith(Absent) \/ LeftWith([token |-> None, rows |-> 1]) \/ LeftWith(RowsOf(1))
  BY DEF Init
<1>2. Absent \in Rows /\ [token |-> None, rows |-> 1] \in Rows /\ RowsOf(1) \in Rows
  BY WantedIs, InputsOf DEF Rows, RowsOf, Inputs, Revision, Absent
<1>3. store \in [Note -> Rows] /\ \A n \in Note : Fit(store[n])
  BY <1>1, <1>2 DEF LeftWith, Fit, Absent, RowsOf
<1>4. Typed
  BY <1>1, <1>3 DEF Init, Typed, FilesTyped, StoreTyped, QueuesTyped, PassTyped, WriteTyped,
                    HistoryTyped
<1>5. AllInHand
  BY DEF Init, AllInHand, InHand
<1>6. SomeoneHeeds
  BY SomeVault DEF Init, SomeoneHeeds, Heeds, Steady
<1>7. Alone
  BY SomeVault DEF Init, Alone
<1>8. TakingIsKnown /\ LimboIsOwed /\ LimboTakes /\ DirtyIsQueued
  BY <1>3 DEF Init, TakingIsKnown, LimboIsOwed, LimboTakes, DirtyIsQueued
<1>9. QED
  BY <1>4, <1>5, <1>6, <1>7, <1>8 DEF EmbedInv

(* Every step keeps the invariant.                                         *)
LEMMA StepKeepsInv == EmbedInv /\ [EmbedNext]_vars => EmbedInv'
<1> SUFFICES ASSUME EmbedInv, [EmbedNext]_vars PROVE EmbedInv'
  OBVIOUS
<1>1. CASE UNCHANGED vars
  <2>1. UNCHANGED <<source, store, limbo, lease, up, open, row, dirty, queued, due, pass, write,
                    fresh, lost, excused, lapsed, failed>>
    BY <1>1 DEF vars, files, schema, queueVars, processVars, history
  <2>2. Typed'
    BY <2>1 DEF EmbedInv, Typed, FilesTyped, StoreTyped, QueuesTyped, PassTyped, WriteTyped,
                HistoryTyped
  <2>3. AllInHand'
    BY <2>1, OthersStay DEF EmbedInv, AllInHand
  <2>4. LimboIsOwed' /\ LimboTakes' /\ SomeoneHeeds'
    BY <2>1, LimboStays, SomeoneStays DEF Heeds, Steady, Ahead, schema
  <2>5. Alone' /\ TakingIsKnown' /\ DirtyIsQueued'
    BY <2>1 DEF EmbedInv, Alone, TakingIsKnown, DirtyIsQueued, Fit, TakenOf
  <2>6. QED
    BY <2>2, <2>3, <2>4, <2>5 DEF EmbedInv
<1>2. CASE \E n \in Note : Edit(n)
  BY <1>2, EditStep
<1>3. CASE Settle
  BY <1>3, SettleStep
<1>4. ASSUME NEW v \in Vault,
             Start(v) \/ Down(v) \/ LoseLease(v) \/ BeginForced(v) \/ ThreadStep(v)
      PROVE  EmbedInv'
  <2>1. CASE Start(v) \/ Down(v) \/ LoseLease(v) \/ BeginForced(v)
    BY <2>1, StartStep, DownStep, LoseLeaseStep, BeginForcedStep
  <2>2. CASE (\E n \in Note : Notice(v, n)) \/ BeginFlush(v) \/ FlushRefused(v)
             \/ BeginBuild(v) \/ BuildRefused(v)
    BY <2>2, NoticeStep, BeginFlushStep, FlushRefusedStep, BeginBuildStep, BuildRefusedStep
  <2>3. CASE Unbacked(v) \/ Compare(v) \/ Retoken(v) \/ BulkTokens(v) \/ BulkRows(v)
             \/ Assemble(v)
    BY <2>3, UnbackedStep, CompareStep, RetokenStep, BulkTokensStep, BulkRowsStep, AssembleStep
  <2>4. CASE Finish(v) \/ PassFails(v) \/ Ensure(v) \/ Transact(v)
    BY <2>4, FinishStep, PassFailsStep, EnsureStep, TransactStep
  <2>5. QED
    BY <1>4, <2>1, <2>2, <2>3, <2>4 DEF ThreadStep
<1>5. QED
  BY <1>1, <1>2, <1>3, <1>4 DEF EmbedNext

(* For any number of vaults over one store and of notes: what is out of    *)
(* date, or was taken, is somebody's work, in every reachable state.       *)
THEOREM EmbedInvariant == EmbedSpec => []EmbedInv
<1>1. Init => EmbedInv
  BY InitGivesInv
<1>2. EmbedInv /\ [EmbedNext]_vars => EmbedInv'
  BY StepKeepsInv
<1>3. QED
  BY <1>1, <1>2, PTL DEF EmbedSpec

(* A note the store has otherwise than its file is yet to be looked at by  *)
(* some vault (_requeue_conflicts, reconcile).                             *)
THEOREM StaleIsOwedHolds == EmbedSpec => []StaleIsOwed
<1>1. EmbedInv => StaleIsOwed
  <2>1. SUFFICES ASSUME EmbedInv PROVE StaleIsOwed
    OBVIOUS
  <2>2. EmbedTypeOK
    BY <2>1 DEF EmbedInv, EmbedTypeOK, Typed, FilesTyped, StoreTyped, QueuesTyped, PassTyped,
                WriteTyped, HistoryTyped, AllInHand, InHand, LimboTakes
  <2>3. ASSUME NEW n \in Note \ excused, Stale(n)
        PROVE  \E v \in Vault : Owes(v, n)
    <3>1. PICK v \in Vault : Heeds(v, n) \/ Right(n, row[v][n])
      BY <2>1 DEF EmbedInv, SomeoneHeeds
    <3>2. CASE Right(n, row[v][n])
      BY <2>3, <3>2 DEF Right, Stale, Owes
    <3>3. CASE Heeds(v, n)
      <4>1. Ahead(v, pass[v], write[v], n) => InPass(v, n)
        BY DEF Ahead, InPass, Left, Own
      <4>2. pass[v] # None /\ n \in pass[v].redo \cup pass[v].retry => InPass(v, n)
        BY DEF InPass
      <4>3. QED
        BY <3>3, <4>1, <4>2 DEF Heeds, Steady, Owes
    <3>4. QED
      BY <3>1, <3>2, <3>3
  <2>4. QED
    BY <2>2, <2>3 DEF StaleIsOwed
<1>2. QED
  BY <1>1, EmbedInvariant, PTL

(* Nothing is taken from another vault while the leases last, and then     *)
(* only by a generation or over a token that has come back; the rest is    *)
(* stored under its own token (replace_document's expected token).         *)
THEOREM NoWorkIsLostHolds == EmbedSpec => []NoWorkIsLost
<1>1. EmbedInv => NoWorkIsLost
  <2>1. SUFFICES ASSUME EmbedInv PROVE NoWorkIsLost
    OBVIOUS
  <2>2. \A t \in lost : lapsed /\ t[2] # "unread"
    BY <2>1 DEF EmbedInv, Alone, TakingIsKnown
  <2>3. ASSUME NEW n \in Note
        PROVE  \/ \E t \in lost : t[1] = n
               \/ store[n].token # None => store[n].rows = Inputs[store[n].token]
    BY <2>1 DEF EmbedInv, TakingIsKnown, TakenOf, Fit
  <2>4. QED
    BY <2>2, <2>3 DEF NoWorkIsLost
<1>2. QED
  BY <1>1, EmbedInvariant, PTL

(* What waits waits for the next flush only after a failure, and at rest   *)
(* the vectors match the files (_requeue_conflicts).                       *)
THEOREM QuietMeansCaughtUpHolds == EmbedSpec => []QuietMeansCaughtUp
<1>1. EmbedInv /\ StaleIsOwed => QuietMeansCaughtUp
  <2>1. SUFFICES ASSUME EmbedInv, StaleIsOwed PROVE QuietMeansCaughtUp
    OBVIOUS
  <2>2. \A v \in Vault : dirty[v] # {} => queued[v] \/ failed
    BY <2>1 DEF EmbedInv, DirtyIsQueued
  <2>3. ASSUME Quiet, ~failed, NEW n \in Note \ excused, Stale(n)
        PROVE  FALSE
    <3>1. PICK v \in Vault : Owes(v, n)
      BY <2>1, <2>3 DEF StaleIsOwed
    <3>2. up[v] /\ pass[v] = None /\ write[v] = None /\ dirty[v] = {}
      BY <2>1, <2>2, <2>3 DEF Quiet, Idle, EmbedInv, AllInHand, InHand
    <3>3. QED
      BY <2>3, <3>1, <3>2 DEF Owes, InPass, Quiet
  <2>4. QED
    BY <2>2, <2>3 DEF QuietMeansCaughtUp
<1>2. QED
  BY <1>1, EmbedInvariant, StaleIsOwedHolds, PTL

=============================================================================
