----------------------------- MODULE MCDelivery -----------------------------
(***************************************************************************)
(* Instances of Delivery for TLC.                                          *)
(***************************************************************************)
EXTENDS Delivery, TLC

CONSTANTS s1, s2, j1, j2, t1, t2

JobSymmetry == Permutations({s1, s2}) \cup Permutations({j1, j2})

\* A text of two messages and one attachment, and a single message.
LongAndShort == (t1 :> 3 @@ t2 :> 1)
OnePart == (t1 :> 1)
=============================================================================
