---------------------------- MODULE MCIndexPipeline ----------------------------
(***************************************************************************)
(* The pipeline with one or two notes.  Futures are taken in a fixed order *)
(* by Fresh and may not be permuted; notes and contents may.               *)
(***************************************************************************)
EXTENDS IndexPipeline, TLC

JobKinds == {Pdp, Flush}

(* The notes all parse at first; they break and are mended.                *)
GoodInit == PipelineInit /\ \A p \in Path : disk[p] \in Content \ Broken

FairFromGood == GoodInit /\ [][PipelineNext]_pipelineVars /\ PipelineFairness

NoteSymmetry == Permutations(Path) \cup Permutations(Content \ Broken)
=============================================================================
