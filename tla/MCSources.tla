----------------------------- MODULE MCSources -----------------------------
(***************************************************************************)
(* Instances of Sources for TLC.                                           *)
(***************************************************************************)
EXTENDS Sources, TLC

CONSTANTS p1, i1, h1, h2

HeadsAlike == Permutations({h1, h2})
=============================================================================
