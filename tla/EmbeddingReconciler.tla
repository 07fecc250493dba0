-------------------------- MODULE EmbeddingReconciler --------------------------
(***************************************************************************)
(* The one writer of embedding rows (indexing/embedding_reconciler.py)     *)
(* over a store that several processes can reach: the PostgreSQL schema of *)
(* stores/postgres_vectors.py, whose writer lease (stores/_postgres_lease) *)
(* may be lost under its holder and taken by another vault process.        *)
(*                                                                         *)
(* A pass reads the stored tokens and its own keyword index, compares one  *)
(* document at a time, embeds outside the store, and writes each document  *)
(* on the condition of the token it read first; a full build and a bulk    *)
(* re-token replace the whole store with no such condition.                *)
(*                                                                         *)
(* A revision of a note is a number, its content hash; 0 is no note.       *)
(***************************************************************************)
EXTENDS Naturals, FiniteSets, FiniteSetsExt

CONSTANTS
  Vault,       \* the processes that serve the vault and may write the store
  Note,        \* numbers, in the order of their paths
  Bulk,        \* _BULK_RETOKEN: how many re-tokens make one generation
  MaxRequests, \* bound on the edits of files and the forced builds
  MaxMishaps,  \* bound on crashes, lost leases and failing reads, writes, embeddings
  None

ASSUME NotesAreNumbers == Note \subseteq Nat /\ IsFiniteSet(Note)
ASSUME SomeVault == Vault # {} /\ None \notin Vault

VARIABLES
  source,   \* the files: each note's revision
  store,    \* the schema: each note's token and rows
  limbo,    \* a transaction whose client is gone, still holding the meta row's lock
  lease,    \* which vault's session holds the advisory lock
  up,       \* the processes running
  open,     \* those with the store open for writing
  row,      \* each vault's keyword index
  dirty,    \* the notes its next flush takes
  queued,   \* whether a flush is queued
  due,      \* whether the build of its startup is still to run
  pass,     \* what its writer thread reconciles or builds
  write,    \* the write its thread is about to make
  fresh,    \* notes another vault wrote since the vault's pass read the store (history)
  lost,     \* what writes took from another vault's, and how (history)
  excused,  \* notes knowingly left behind until the next build (history)
  lapsed,   \* a lease ended under its holder, or a client under its transaction (history)
  failed,   \* a flush was refused, or left notes for the next one (history)
  requests,
  mishaps

files == <<source>>
schema == <<store, limbo>>
queueVars == <<dirty, queued, due>>
processVars == <<up, open, row>>
history == <<fresh, lost, excused, lapsed, failed>>
bounds == <<requests, mishaps>>
vars == <<files, schema, lease, processVars, queueVars, pass, write, history, bounds>>

-----------------------------------------------------------------------------
(* Revisions 1 and 2 have the same embedding inputs, 3 has others, and 4   *)
(* has nothing to embed.                                                   *)
Revision == 1..4
Inputs == [r \in 0..4 |-> IF r \in {1, 2} THEN 1 ELSE IF r = 3 THEN 2 ELSE 0]

Rows == [token : Revision \cup {None}, rows : 0..2]
Absent == [token |-> None, rows |-> 0]
RowsOf(r) == [token |-> r, rows |-> Inputs[r]]

\* What one write asks of the store: these notes' rows, on the condition of one
\* token, or as the whole new generation.
Write(puts, expected) == [puts |-> puts, whole |-> FALSE, expected |-> expected, held |-> FALSE]
Generation(puts) == [puts |-> puts, whole |-> TRUE, expected |-> None, held |-> FALSE]
One(n, rows) == [m \in {n} |-> rows]
NoteOf(w) == CHOOSE n \in DOMAIN w.puts : TRUE

\* What of some of the notes is known, asked for, or left unsettled.
Docs == UNION {[ns -> 0..4] : ns \in SUBSET Note}
Tokens == UNION {[ns -> Revision \cup {None}] : ns \in SUBSET Note}
Puts == UNION {[ns -> Rows] : ns \in SUBSET Note}
Passes ==
  [site : {"flush", "converge", "cold", "forced"}, paths : SUBSET Note, seen : [Note -> Rows],
   docs : Docs, gone : SUBSET Note, todo : SUBSET Note, again : SUBSET Note,
   tokens : Tokens \cup {None}, redo : SUBSET Note, retry : SUBSET Note]
Writes == [puts : Puts, whole : BOOLEAN, expected : Revision \cup {None}, held : BOOLEAN]
Taken == Note \X {"generation", "returned", "unread"}
Unsettled == [asked : Writes, takes : SUBSET Taken, late : BOOLEAN]

ASSUME NoneIsNothing ==
  /\ None \notin Revision \cup Tokens
  /\ None \notin Passes \cup Writes \cup Unsettled

\* EmbeddingReconciler.reconcile: the tokens, then the keyword index's documents.
NewPass(v, site, paths) ==
  [site |-> site, paths |-> paths, seen |-> store,
   docs |-> [n \in paths |-> row[v][n]],
   gone |-> {n \in paths : row[v][n] = 0 /\ store[n] # Absent},
   todo |-> {n \in paths : row[v][n] # 0},
   again |-> {}, tokens |-> None, redo |-> {}, retry |-> {}]

Idle(v) == up[v] /\ pass[v] = None
Working(v) == pass[v] # None /\ write[v] = None
Comparing(v) == Working(v) /\ pass[v].site \in {"flush", "converge"}

Mishap == mishaps < MaxMishaps /\ mishaps' = mishaps + 1
Smooth == UNCHANGED mishaps
Excuse(ns) == excused' = excused \cup ns

(* The store as it was left: empty, by a release before tokens, or up to   *)
(* date, with or without a note deleted since.                             *)
LeftWith(rows) == store = [n \in Note |-> rows]
Init ==
  /\ \/ /\ source = [n \in Note |-> 1]
        /\ LeftWith(Absent) \/ LeftWith([token |-> None, rows |-> 1]) \/ LeftWith(RowsOf(1))
     \/ /\ source = [n \in Note |-> IF n = Min(Note) THEN 0 ELSE 1]
        /\ LeftWith(RowsOf(1))
  /\ limbo = None /\ lease = None
  /\ up = [v \in Vault |-> FALSE] /\ open = [v \in Vault |-> FALSE]
  /\ row = [v \in Vault |-> [n \in Note |-> 0]]
  /\ dirty = [v \in Vault |-> {}]
  /\ queued = [v \in Vault |-> FALSE] /\ due = [v \in Vault |-> FALSE]
  /\ pass = [v \in Vault |-> None] /\ write = [v \in Vault |-> None]
  /\ fresh = [v \in Vault |-> {}]
  /\ lost = {} /\ excused = {} /\ lapsed = FALSE /\ failed = FALSE
  /\ requests = 0 /\ mishaps = 0

-----------------------------------------------------------------------------
(* The files and the processes. *)

Edit(n) ==
  /\ requests < MaxRequests
  /\ requests' = requests + 1
  /\ \E r \in (Revision \cup {0}) \ {source[n]} : source' = [source EXCEPT ![n] = r]
  /\ UNCHANGED <<schema, lease, processVars, queueVars, pass, write, history, mishaps>>

\* The startup: the boot reindex, with the build of the vectors behind it.
Start(v) ==
  /\ ~up[v]
  /\ up' = [up EXCEPT ![v] = TRUE]
  /\ row' = [row EXCEPT ![v] = source]
  /\ due' = [due EXCEPT ![v] = TRUE]
  /\ UNCHANGED <<files, schema, lease, open, dirty, queued, pass, write, history, bounds>>

\* A refresh of the keyword index that took up a changed file: the note is
\* marked for the vectors and a flush is queued.
Notice(v, n) ==
  /\ Idle(v) /\ ~due[v] /\ row[v][n] # source[n]
  /\ row' = [row EXCEPT ![v][n] = source[n]]
  /\ dirty' = [dirty EXCEPT ![v] = @ \cup {n}]
  /\ queued' = [queued EXCEPT ![v] = TRUE]
  /\ UNCHANGED <<files, schema, lease, up, open, due, pass, write, history, bounds>>

\* The session of the lease ends under its holder.
LoseLease(v) ==
  /\ up[v] /\ lease = v /\ Mishap
  /\ lease' = None
  /\ lapsed' = TRUE
  /\ UNCHANGED <<files, schema, processVars, queueVars, pass, write, fresh, lost, excused,
                 failed, requests>>

-----------------------------------------------------------------------------
(* The jobs of the writer thread. *)

\* PostgresVectorBackend.open, which takes the process's share of the lease.
CanOpen(v) == open[v] \/ lease = None
OpenStore(v) ==
  /\ open' = [open EXCEPT ![v] = TRUE]
  /\ lease' = IF open[v] THEN lease ELSE v

\* A transaction still unsettled from here on is one this pass does not see.
Begin(v, site, paths) ==
  /\ OpenStore(v)
  /\ limbo' = IF limbo = None THEN None ELSE [limbo EXCEPT !.late = TRUE]
  /\ pass' = [pass EXCEPT ![v] = NewPass(v, site, paths)]
  /\ fresh' = [fresh EXCEPT ![v] = {}]

BeginFlush(v) ==
  /\ Idle(v) /\ queued[v] /\ ~due[v] /\ CanOpen(v)
  /\ Begin(v, "flush", dirty[v])
  /\ dirty' = [dirty EXCEPT ![v] = {}] /\ queued' = [queued EXCEPT ![v] = FALSE]
  /\ UNCHANGED <<files, store, up, row, due, write, lost, excused, lapsed, failed, bounds>>

\* Another process holds the lease: the snapshot is restored, with no new flush.
FlushRefused(v) ==
  /\ Idle(v) /\ queued[v] /\ ~due[v] /\ ~CanOpen(v)
  /\ queued' = [queued EXCEPT ![v] = FALSE]
  /\ failed' = TRUE
  /\ UNCHANGED <<files, schema, lease, processVars, dirty, due, pass, write, fresh, lost,
                 excused, lapsed, bounds>>

\* build_embeddings at startup: converge a store with rows, build an empty one.
BeginBuild(v) ==
  /\ Idle(v) /\ due[v] /\ CanOpen(v)
  /\ Begin(v, IF \A n \in Note : store[n].rows = 0 THEN "cold" ELSE "converge", Note)
  /\ due' = [due EXCEPT ![v] = FALSE]
  /\ UNCHANGED <<files, store, up, row, dirty, queued, write, lost, excused, lapsed, failed,
                 bounds>>

BuildRefused(v) ==
  /\ Idle(v) /\ due[v] /\ ~CanOpen(v)
  /\ due' = [due EXCEPT ![v] = FALSE]
  /\ Excuse(Note)
  /\ UNCHANGED <<files, schema, lease, processVars, dirty, queued, pass, write, fresh, lost,
                 lapsed, failed, bounds>>

\* build_embeddings(force=True), asked for by a client.
BeginForced(v) ==
  /\ Idle(v) /\ ~due[v] /\ CanOpen(v)
  /\ requests < MaxRequests
  /\ requests' = requests + 1
  /\ Begin(v, "forced", Note)
  /\ UNCHANGED <<files, store, up, row, queueVars, write, lost, excused, lapsed, failed,
                 mishaps>>

-----------------------------------------------------------------------------
(* A pass of the reconciler, up to each of its writes. *)

Go(v, p, w) ==
  /\ pass' = [pass EXCEPT ![v] = p]
  /\ write' = [write EXCEPT ![v] = w]
  /\ UNCHANGED <<files, schema, lease, processVars, queueVars, fresh, lost, lapsed, failed,
                 requests>>

Ask(v, p, n, rows) == Go(v, p, Write(One(n, rows), p.seen[n].token))

\* _remove_unbacked: the source answers that the note is absent, that it is there
\* after all, or nothing; the last two keep the vectors and send nothing back.
Unbacked(v) ==
  LET p == pass[v]
      n == Min(p.gone)
      rest == [p EXCEPT !.gone = @ \ {n}]
  IN /\ Comparing(v) /\ p.gone # {}
     /\ \/ source[n] = 0 /\ Ask(v, rest, n, Absent) /\ Smooth /\ UNCHANGED excused
        \/ source[n] # 0 /\ Go(v, rest, None) /\ Smooth /\ Excuse({n})
        \/ Go(v, rest, None) /\ Mishap /\ Excuse({n})

\* _reconcile_document up to the call of the store: blank, current, only the
\* token moved, or to embed; the provider may fail, or the store refuse a vector.
Compare(v) ==
  LET p == pass[v]
      n == Min(p.todo)
      r == p.docs[n]
      rest == [p EXCEPT !.todo = @ \ {n}]
      same == Inputs[r] # 0 /\ store[n].rows = Inputs[r]
  IN /\ Comparing(v) /\ p.gone = {} /\ p.todo # {}
     /\ \/ /\ Inputs[r] = 0 /\ Smooth /\ UNCHANGED excused
           /\ IF store[n].rows = 0 THEN Go(v, rest, None) ELSE Ask(v, rest, n, Absent)
        \/ /\ same /\ Smooth /\ UNCHANGED excused
           /\ Go(v, [rest EXCEPT !.again = IF p.seen[n].token = r THEN @ ELSE @ \cup {n}], None)
        \/ /\ Inputs[r] # 0 /\ ~same
           /\ \/ Ask(v, rest, n, RowsOf(r)) /\ Smooth /\ UNCHANGED excused
              \/ Go(v, [rest EXCEPT !.retry = @ \cup {n}], None) /\ Mishap /\ UNCHANGED excused
              \/ Go(v, rest, None) /\ Mishap /\ Excuse({n})

\* _retoken below the bulk limit: the rows held now, under the new token.
Retoken(v) ==
  LET p == pass[v]
      n == Min(p.again)
  IN /\ Comparing(v) /\ p.gone = {} /\ p.todo = {} /\ p.again # {}
     /\ p.tokens = None /\ Cardinality(p.again) < Bulk
     /\ Ask(v, [p EXCEPT !.again = @ \ {n}], n, [token |-> p.docs[n], rows |-> store[n].rows])
     /\ Smooth /\ UNCHANGED excused

\* The bulk re-token reads the tokens again, and then every document's rows.
BulkTokens(v) ==
  LET p == pass[v]
  IN /\ Comparing(v) /\ p.gone = {} /\ p.todo = {} /\ Cardinality(p.again) >= Bulk
     /\ p.tokens = None
     /\ Go(v, [p EXCEPT !.tokens = [n \in {m \in Note : store[m] # Absent} |-> store[n].token]],
           None)
     /\ Smooth /\ UNCHANGED excused

BulkRows(v) ==
  LET p == pass[v]
      token == [n \in DOMAIN p.tokens |-> IF n \in p.again THEN p.docs[n] ELSE p.tokens[n]]
  IN /\ Comparing(v) /\ p.tokens # None
     /\ Go(v, [p EXCEPT !.tokens = None],
           Generation([n \in DOMAIN token |-> [token |-> token[n], rows |-> store[n].rows]]))
     /\ Smooth /\ UNCHANGED excused

\* rebuild and _finish_cold_build: a failed batch keeps a populated store and
\* is left out of an empty one; an empty build replaces the store only when
\* the keyword index was built in full.
Assemble(v) ==
  LET p == pass[v]
      docs == {n \in p.paths : Inputs[p.docs[n]] # 0}
      populated == \E n \in Note : p.seen[n].rows # 0
      Publish(ns) == Go(v, p, Generation([n \in ns |-> RowsOf(p.docs[n])]))
      Nothing == Go(v, None, None)
  IN /\ Working(v) /\ p.site \in {"cold", "forced"}
     /\ \/ Publish(docs) /\ Smooth /\ UNCHANGED excused
        \/ /\ docs # {} /\ Mishap
           /\ \E bad \in (SUBSET docs) \ {{}} :
                IF bad = docs \/ populated
                THEN Nothing /\ Excuse(IF p.site = "cold" THEN bad ELSE {})
                ELSE Publish(docs \ bad) /\ Excuse(bad)
        \/ docs = {} /\ Nothing /\ Mishap /\ Excuse(Note)

\* A slip: a conflict keeps its note dirty and queues no flush.
FinishWaiting(v) ==
  LET p == pass[v]
  IN /\ Comparing(v) /\ p.gone = {} /\ p.todo = {} /\ p.again = {}
     /\ pass' = [pass EXCEPT ![v] = None]
     /\ dirty' = [dirty EXCEPT ![v] = @ \cup p.redo \cup p.retry]
     /\ failed' = (failed \/ p.retry # {})
     /\ UNCHANGED <<files, schema, lease, processVars, queued, due, write, fresh, lost, excused,
                    lapsed, bounds>>

\* The pass is over: what it could not write is dirty again, and only a
\* conflict queues a flush (_requeue_conflicts).
Finish(v) ==
  LET p == pass[v]
  IN /\ Comparing(v) /\ p.gone = {} /\ p.todo = {} /\ p.again = {}
     /\ pass' = [pass EXCEPT ![v] = None]
     /\ dirty' = [dirty EXCEPT ![v] = @ \cup p.redo \cup p.retry]
     /\ queued' = [queued EXCEPT ![v] = @ \/ p.redo # {}]
     /\ failed' = (failed \/ p.retry # {})
     /\ UNCHANGED <<files, schema, lease, processVars, due, write, fresh, lost, excused, lapsed,
                    bounds>>

\* A read of the store raises: the job fails, a flush restores its snapshot.
PassFails(v) ==
  LET p == pass[v]
  IN /\ Comparing(v) /\ Mishap
     /\ pass' = [pass EXCEPT ![v] = None]
     /\ IF p.site = "flush"
        THEN dirty' = [dirty EXCEPT ![v] = @ \cup p.paths] /\ failed' = TRUE /\ UNCHANGED excused
        ELSE Excuse(Note) /\ UNCHANGED <<dirty, failed>>
     /\ UNCHANGED <<files, schema, lease, processVars, queued, due, write, fresh, lost, lapsed,
                    requests>>

-----------------------------------------------------------------------------
(* A write: the lease, then one transaction under the meta row's lock. *)

Landed(w) == [n \in Note |-> IF n \in DOMAIN w.puts THEN w.puts[n]
                             ELSE IF w.whole THEN Absent ELSE store[n]]

\* What w would take from another vault that wrote it after v's pass had read the
\* store, and how: in a generation, or over a token the pass has read, or has not.
Manner(v, w) ==
  IF w.whole THEN "generation"
  ELSE IF store[NoteOf(w)].token = pass[v].seen[NoteOf(w)].token THEN "returned" ELSE "unread"
Takes(v, w) == {n \in fresh[v] : Landed(w)[n] # store[n]} \X {Manner(v, w)}

\* A slip: a document that was absent matches whatever is stored by now.
AbsentMatchesAny(w) ==
  ~w.whole /\ w.expected # None /\ store[NoteOf(w)].token # w.expected

\* token_conflicts, inside the transaction: the stored token, None for none.
Conflicts(w) == ~w.whole /\ store[NoteOf(w)].token # w.expected

Changed(w) == {n \in Note : Landed(w)[n] # store[n]}
Commit(by, w, takes, late) ==
  /\ store' = Landed(w)
  /\ fresh' = [u \in Vault |-> IF u = by THEN fresh[u] ELSE fresh[u] \cup Changed(w)]
  /\ lost' = lost \cup takes
  /\ Excuse({t[1] : t \in takes} \cup IF late THEN Changed(w) ELSE {})

Sent(v) == [asked |-> write[v], takes |-> Takes(v, write[v]), late |-> FALSE]

\* The pass after a write that went through, came back as a conflict, or failed.
Written(p, w) ==
  IF p.site \in {"cold", "forced"} THEN None
  ELSE IF w.whole THEN [p EXCEPT !.again = {}] ELSE p
SentBack(p, w) == [p EXCEPT !.redo = @ \cup {NoteOf(w)}]
\* A slip: the bulk publish that failed puts nothing in the retry set.
KeptInBulk(p, w) ==
  IF p.site \in {"cold", "forced"} THEN None
  ELSE IF w.whole THEN [p EXCEPT !.again = {}]
  ELSE [p EXCEPT !.retry = @ \cup {NoteOf(w)}]

Kept(p, w) ==
  IF p.site \in {"cold", "forced"} THEN None
  ELSE IF w.whole THEN [p EXCEPT !.retry = @ \cup p.again, !.again = {}]
  ELSE [p EXCEPT !.retry = @ \cup {NoteOf(w)}]

NextStep(v, p) ==
  /\ pass' = [pass EXCEPT ![v] = p]
  /\ write' = [write EXCEPT ![v] = None]

WriteFails(v) ==
  /\ NextStep(v, Kept(pass[v], write[v]))
  /\ Excuse(IF pass[v].site = "cold" THEN Note ELSE {})

\* Lease.ensure: held, taken back, or another vault's.
Ensure(v) ==
  /\ write[v] # None /\ ~write[v].held
  /\ \/ /\ lease \in {v, None}
        /\ lease' = v
        /\ write' = [write EXCEPT ![v].held = TRUE]
        /\ UNCHANGED <<pass, excused>>
     \/ lease \notin {v, None} /\ WriteFails(v) /\ UNCHANGED lease
  /\ UNCHANGED <<files, schema, processVars, queueVars, fresh, lost, lapsed, failed, bounds>>

\* The transaction commits, or rolls back on a conflict or a failure; or the
\* connection is lost while it commits, and the server decides (commit_unknown).
Transact(v) ==
  LET w == write[v]
  IN /\ w # None /\ w.held /\ limbo = None
     /\ \/ /\ Conflicts(w)
           /\ NextStep(v, SentBack(pass[v], w))
           /\ UNCHANGED <<schema, fresh, lost, excused, mishaps>>
        \/ /\ ~Conflicts(w)
           /\ Commit(v, w, Takes(v, w), FALSE)
           /\ NextStep(v, Written(pass[v], w))
           /\ UNCHANGED <<limbo, mishaps>>
        \/ /\ Mishap /\ WriteFails(v)
           /\ UNCHANGED <<schema, fresh, lost>>
        \/ /\ ~Conflicts(w) /\ Mishap /\ WriteFails(v)
           /\ limbo' = Sent(v)
           /\ UNCHANGED <<store, fresh, lost>>
     /\ lapsed' = (lapsed \/ limbo' # None)
     /\ UNCHANGED <<files, lease, processVars, queueVars, failed, requests>>

\* A transaction that was sent may still commit after its process is gone.
Down(v) ==
  /\ up[v] /\ Mishap
  /\ up' = [up EXCEPT ![v] = FALSE] /\ open' = [open EXCEPT ![v] = FALSE]
  /\ lease' = IF lease = v THEN None ELSE lease
  /\ dirty' = [dirty EXCEPT ![v] = {}]
  /\ queued' = [queued EXCEPT ![v] = FALSE] /\ due' = [due EXCEPT ![v] = FALSE]
  /\ pass' = [pass EXCEPT ![v] = None] /\ write' = [write EXCEPT ![v] = None]
  /\ \/ UNCHANGED limbo
     \/ /\ write[v] # None /\ write[v].held /\ limbo = None /\ ~Conflicts(write[v])
        /\ limbo' = Sent(v)
  /\ lapsed' = (lapsed \/ limbo' # None)
  /\ UNCHANGED <<files, store, row, fresh, lost, excused, failed, requests>>

\* The server ends the transaction whose client is gone: its rows are there, or not.
Settle ==
  /\ limbo # None
  /\ limbo' = None
  /\ \/ Commit(None, limbo.asked, limbo.takes, limbo.late)
     \/ UNCHANGED <<store, fresh, lost, excused>>
  /\ UNCHANGED <<files, lease, processVars, queueVars, pass, write, lapsed, failed, bounds>>

-----------------------------------------------------------------------------
ThreadStep(v) ==
  \/ \E n \in Note : Notice(v, n)
  \/ BeginFlush(v) \/ FlushRefused(v) \/ BeginBuild(v) \/ BuildRefused(v)
  \/ Unbacked(v) \/ Compare(v) \/ Retoken(v) \/ BulkTokens(v) \/ BulkRows(v)
  \/ Assemble(v) \/ Finish(v) \/ PassFails(v) \/ Ensure(v) \/ Transact(v)

EmbedNext ==
  \/ \E n \in Note : Edit(n)
  \/ \E v \in Vault : Start(v) \/ Down(v) \/ LoseLease(v) \/ BeginForced(v) \/ ThreadStep(v)
  \/ Settle

EmbedSpec == Init /\ [][EmbedNext]_vars

-----------------------------------------------------------------------------
(* What could go wrong. *)

Stale(n) ==
  \/ store[n].rows # Inputs[source[n]]
  \/ store[n].rows # 0 /\ store[n].token # source[n]

InPass(v, n) ==
  \/ /\ pass[v] # None
     /\ \/ pass[v].site \in {"cold", "forced"}
        \/ n \in UNION {pass[v].gone, pass[v].todo, pass[v].again, pass[v].redo, pass[v].retry}
  \/ write[v] # None /\ n \in DOMAIN write[v].puts

\* Who will yet bring the note's vectors up to date.
Owes(v, n) == ~up[v] \/ due[v] \/ row[v][n] # source[n] \/ n \in dirty[v] \/ InPass(v, n)

EmbedTypeOK ==
  /\ source \in [Note -> 0..4] /\ store \in [Note -> Rows]
  /\ lease \in Vault \cup {None}
  /\ up \in [Vault -> BOOLEAN] /\ open \in [Vault -> BOOLEAN]
  /\ queued \in [Vault -> BOOLEAN] /\ due \in [Vault -> BOOLEAN]
  /\ row \in [Vault -> [Note -> 0..4]] /\ dirty \in [Vault -> SUBSET Note]
  /\ pass \in [Vault -> Passes \cup {None}] /\ write \in [Vault -> Writes \cup {None}]
  /\ limbo \in Unsettled \cup {None}
  /\ fresh \in [Vault -> SUBSET Note] /\ excused \subseteq Note /\ lost \subseteq Taken
  /\ \A v \in Vault : (pass[v] # None => up[v] /\ open[v]) /\ (write[v] # None => pass[v] # None)
  /\ limbo # None => lapsed

\* Whenever the store holds something else for a note than the file says, some
\* vault will yet look at it: it has not noticed the file, or has the note dirty
\* or in hand, or builds at its next start (_requeue_conflicts, reconcile).
StaleIsOwed ==
  EmbedTypeOK /\ \A n \in Note \ excused : Stale(n) => \E v \in Vault : Owes(v, n)

\* No write takes what another vault wrote after the pass had read the store, unless
\* the lease or a client ended too early; then only a whole generation does, or a
\* document's write when the token it was conditional on has come back.  And what no
\* write took stands under the token of its own revision (replace_document's expected
\* token, _ensure_lease).
NoWorkIsLost ==
  /\ \A t \in lost : lapsed /\ t[2] # "unread"
  /\ \A n \in Note : \/ \E t \in lost : t[1] = n
                     \/ store[n].token # None => store[n].rows = Inputs[store[n].token]

\* A note waits for the next edit only after a failure: what a crossing write
\* sent back is compared again at once (_requeue_conflicts).  And when no vault
\* has anything left to do, the vectors match the files, unless a flush failed
\* or the note was left behind for the next build.
Quiet ==
  /\ limbo = None
  /\ \A v \in Vault : Idle(v) /\ ~queued[v] /\ ~due[v] /\ row[v] = source
QuietMeansCaughtUp ==
  /\ \A v \in Vault : Idle(v) /\ dirty[v] # {} => queued[v] \/ failed
  /\ Quiet => failed \/ \A n \in Note \ excused : ~Stale(n)

(* What the code says and a lease that ends early breaks: not among the    *)
(* runs, see the README.                                                   *)

\* "Every write is also row-locked and token-conditional" (_postgres_lease.py).
LeaseIsNotTheOnlyGuard == lost = {}

\* "a failed rebuild never shrinks a working store" (rebuild).
PartialBuild(v) ==
  /\ pass[v] # None /\ pass[v].site \in {"cold", "forced"} /\ write[v] # None
  /\ \E n \in Note \ DOMAIN write[v].puts : Inputs[pass[v].docs[n]] # 0
FailedRebuildNeverShrinks ==
  [][\A v \in Vault : PartialBuild(v) /\ write'[v] = None /\ up'[v] =>
       \A n \in Note : store[n].rows # 0 => store'[n].rows # 0]_vars
===============================================================================
