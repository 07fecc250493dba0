--------------------------- MODULE MCBuildLifecycle ---------------------------
(***************************************************************************)
(* Two builds, one refresh barrier, one waiter, one status reader and one  *)
(* close.                                                                  *)
(***************************************************************************)
EXTENDS BuildLifecycle, TLC

JobKinds == {Build, Refresh}

AttemptSymmetry == Permutations(Attempt)
=============================================================================
