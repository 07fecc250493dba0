---------------------------- MODULE MCHeadReconciler ----------------------------
(***************************************************************************)
(* The pull loop and one delivery, a few moves of HEAD.                    *)
(***************************************************************************)
EXTENDS HeadReconciler, TLC

=============================================================================
