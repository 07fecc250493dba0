------------------------------ MODULE IndexStatus ------------------------------
(***************************************************************************)
(* What a read tool tells its client about the freshness of its answer:    *)
(* the write generation before the read, the read itself, the generation   *)
(* again and is_drained() (_tools/_common.py _staleness_result,            *)
(* coordinator.is_drained, IndexWriter.get_status).  get_status takes its  *)
(* fields under three separate locks, and the worker runs in between.      *)
(*                                                                         *)
(* One call of one tool over the pipeline of IndexPipeline; the refresh    *)
(* before a mutation is not called here.                                   *)
(***************************************************************************)
EXTENDS IndexPipeline

VARIABLES
  call,        \* the tool: where it is and what it has read so far
  seen,        \* history: contents each file has had since the call began
  overlapped,  \* history: a job started while is_drained() was being evaluated
  slipped      \* history: a job finished between the two freshness checks

statusVars == <<call, seen, overlapped, slipped>>
allVars == <<pipelineVars, statusVars>>

NoCall == [at |-> "idle", gen |-> 0, rows |-> disk, flight |-> None,
           dirty |-> FALSE, stale |-> FALSE]

StatusTypeOK ==
  /\ PipelineTypeOK
  /\ call \in [at : {"idle", "rows", "compare", "flight", "dirty", "depth", "done"},
               gen : Nat, rows : [Path -> Stored], flight : Kind \cup {None},
               dirty : BOOLEAN, stale : BOOLEAN]
  /\ seen \in [Path -> SUBSET Stored]
  /\ overlapped \in BOOLEAN /\ slipped \in BOOLEAN

StatusInit ==
  /\ PipelineInit
  /\ call = NoCall
  /\ seen = [p \in Path |-> {}]
  /\ overlapped = FALSE /\ slipped = FALSE

-----------------------------------------------------------------------------
(* gen_before = write_generation(), after a wait for pending writes that   *)
(* only looks on.  One that timed out (drained_on_request) makes the       *)
(* answer stale, whatever follows.                                         *)
AskGeneration ==
  /\ call.at = "idle"
  /\ \/ call' = [call EXCEPT !.at = "rows", !.gen = generation]
     \/ call' = [call EXCEPT !.at = "rows", !.gen = generation, !.stale = TRUE]
  /\ seen' = [p \in Path |-> IF edit = [path |-> p, at |-> "written"]
                                THEN Stored ELSE {disk[p]}]
  /\ UNCHANGED <<pipelineVars, overlapped, slipped>>

(* The query itself, one read of the keyword index.                        *)
ReadRows ==
  /\ call.at = "rows"
  /\ call' = [call EXCEPT !.at = "compare", !.rows = fts]
  /\ UNCHANGED <<pipelineVars, seen, overlapped, slipped>>

(* A slip: the generation is not looked at again.                          *)
CompareNothing ==
  /\ call.at = "compare"
  /\ call' = [call EXCEPT !.at = "flight"]
  /\ UNCHANGED <<pipelineVars, seen, overlapped, slipped>>

(* write_generation() != gen_before ends the evaluation: stale.            *)
CompareGeneration ==
  /\ call.at = "compare"
  /\ call' = IF call.stale \/ generation # call.gen
               THEN [call EXCEPT !.at = "done", !.stale = TRUE]
               ELSE [call EXCEPT !.at = "flight"]
  /\ UNCHANGED <<pipelineVars, seen, overlapped, slipped>>

(* get_status, inside is_drained: _in_flight_lock, then _dirty_lock, then  *)
(* the size of the queue (which counts a sentinel).                        *)
ReadInFlight ==
  /\ call.at = "flight"
  /\ call' = [call EXCEPT !.at = "dirty", !.flight = inFlight]
  /\ UNCHANGED <<pipelineVars, seen, overlapped, slipped>>

ReadDirty ==
  /\ call.at = "dirty"
  /\ call' = [call EXCEPT !.at = "depth",
                          !.dirty = dirtyPaths # {} \/ dirtyEmbeddings # {}]
  /\ UNCHANGED <<pipelineVars, seen, overlapped, slipped>>

ReadDepth ==
  /\ call.at = "depth"
  /\ call' = [call EXCEPT !.at = "done",
                          !.stale = call.flight # None \/ call.dirty \/ queue # << >>]
  /\ UNCHANGED <<pipelineVars, seen, overlapped, slipped>>

ToolStep == AskGeneration \/ ReadRows \/ CompareGeneration
            \/ ReadInFlight \/ ReadDirty \/ ReadDepth

(* A step of the rest of the program, with the history it adds.            *)
Meanwhile ==
  /\ WorkerStep \/ WriteStep \/ CloseVault
  /\ seen' = [p \in Path |-> IF disk'[p] # disk[p] THEN seen[p] \cup {disk'[p]}
                                                   ELSE seen[p]]
  /\ overlapped' = (overlapped \/ (call.at \in {"dirty", "depth"} /\ StartJob))
  /\ slipped' = (slipped \/ (call.at = "flight" /\ generation' # generation))
  /\ UNCHANGED call

StatusNext == ToolStep \/ Meanwhile

StatusSpec == StatusInit /\ [][StatusNext]_allVars

-----------------------------------------------------------------------------
Reported == call.at = "done" /\ ~Crashing

(* A report of "drained" whose evaluation no job start overlapped is true: *)
(* every write that had been marked when the call began is in its row,     *)
(* however the reads of the report interleave with pops, claims, releases  *)
(* and closes (coordinator.py:225-233).                                    *)
DrainedReportIsRight ==
  (Reported /\ ~call.stale /\ ~overlapped) => \A p \in Path : fts[p] \in seen[p]

(* An answer said to be fresh holds no row older than a write that had     *)
(* been marked when the call began, if besides no job finished between the *)
(* comparison of generations and is_drained() (_common.py:262-266).        *)
QuietAnswerIsFresh ==
  (Reported /\ ~call.stale /\ ~overlapped /\ ~slipped) =>
     \A p \in Path : call.rows[p] \in seen[p]

(* What a client is told of the index and of its answer is right, at the   *)
(* strength the two observations of the code have; types included          *)
(* (coordinator.py:225-233, _common.py:238-241, 262-266).                  *)
ReportsAreRight == StatusTypeOK /\ DrainedReportIsRight /\ QuietAnswerIsFresh

(* What the documentation of get_index_status and the comment at the claim *)
(* say, without these provisos: all zero means caught up.  Not so.         *)
ZeroStatusMeansCaughtUp ==
  (Reported /\ ~call.stale) => \A p \in Path : fts[p] \in seen[p]

(* What the design says of index_stale: a client that reads false has a    *)
(* fresh answer, up to the torn status above.  Not so either.              *)
UnstaleAnswerIsFresh ==
  (Reported /\ ~call.stale /\ ~overlapped) => \A p \in Path : call.rows[p] \in seen[p]

=============================================================================
