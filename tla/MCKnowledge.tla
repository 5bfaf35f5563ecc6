---------------------------- MODULE MCKnowledge ----------------------------
(***************************************************************************)
(* An instance of Knowledge for TLC: one ERC with two sources, one of      *)
(* which may fail without leaving a gap, and one with a single source.     *)
(***************************************************************************)
EXTENDS Knowledge, TLC

CONSTANTS w1, w2, e1, e2, spec1, impl1, spec2

ErcOfSource == (spec1 :> e1) @@ (impl1 :> e1) @@ (spec2 :> e2)
KindOfSource == (spec1 :> "normative_spec") @@ (impl1 :> "implementation")
                    @@ (spec2 :> "normative_spec")
\* The second edit undoes the first.
EditAndUndo == [r \in 0..2 |-> IF r = 1 THEN "edited" ELSE "original"]

WorkersAlike == Permutations({w1, w2})
=============================================================================
