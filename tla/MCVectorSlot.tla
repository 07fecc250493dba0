------------------------------ MODULE MCVectorSlot ------------------------------
(***************************************************************************)
(* Two searching threads, the writer thread and another process.           *)
(***************************************************************************)
EXTENDS VectorSlot, TLC

ReaderSymmetry == Permutations(Reader)
=============================================================================
