------------------------------- MODULE MCGitSync -------------------------------
(***************************************************************************)
(* Two writes outside any tool call's scope, the pull loop, one git_sync,  *)
(* one change from another clone.                                          *)
(***************************************************************************)
EXTENDS GitSync, TLC

=============================================================================
