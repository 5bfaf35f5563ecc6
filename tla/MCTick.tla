------------------------------- MODULE MCTick -------------------------------
(***************************************************************************)
(* Instances of Tick for TLC.                                              *)
(***************************************************************************)
EXTENDS Tick, TLC

CONSTANTS d1, d2

DraftsAlike == Permutations({d1, d2})
=============================================================================
