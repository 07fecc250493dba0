------------------------------- MODULE MCReindex -------------------------------
(***************************************************************************)
(* Both passes over one or two files with two contents that parse and one  *)
(* that does not, a few edits and a few faults.                            *)
(***************************************************************************)
EXTENDS Reindex, TLC

NoteSymmetry == Permutations(Path) \cup Permutations(Good)
=============================================================================
