---------------------------- MODULE MCIndexWriter ----------------------------
(***************************************************************************)
(* The writer with a few Futures, concurrent close() calls and one kind of *)
(* job.                                                                    *)
(***************************************************************************)
EXTENDS IndexWriter, TLC

FutureSymmetry == Permutations(Future) \cup Permutations(Closer)
=============================================================================
