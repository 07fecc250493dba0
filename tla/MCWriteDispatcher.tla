--------------------------- MODULE MCWriteDispatcher ---------------------------
(***************************************************************************)
(* Three writes from two tool calls or none, drains and a close.           *)
(***************************************************************************)
EXTENDS WriteDispatcher, TLC

DispatcherSymmetry == Permutations(Scope)
=============================================================================
