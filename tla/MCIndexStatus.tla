----------------------------- MODULE MCIndexStatus -----------------------------
(***************************************************************************)
(* One tool call over the pipeline with a few writes of one note.          *)
(***************************************************************************)
EXTENDS IndexStatus, TLC

JobKinds == {Pdp, Flush}

NoteSymmetry == Permutations(Path) \cup Permutations(Content \ Broken)
=============================================================================
