----------------------------- MODULE MCWorkflow -----------------------------
(***************************************************************************)
(* Small instances of Workflow for TLC: the Evaluator Agent and one other  *)
(* member, two source keys, wallets and the moves the registry may make.   *)
(***************************************************************************)
EXTENDS Workflow, TLC

CONSTANTS evaluator, author, walletE, walletA, walletB, k1, k2

MCWallet == [a \in {evaluator, author} |-> IF a = evaluator THEN walletE ELSE walletA]

\* The registry never moves a wallet.
MCNoMoves == {}

\* The author's wallet rotates, or is cleared and set again.
MCRotation == {<<author, walletB>>, <<author, NoWallet>>}

\* The scores of the Evaluator.
MCScores == {0, 2}
MCOneScore == {2}

\* Source keys are interchangeable in the runs without liveness.
MCKeys == Permutations({k1, k2})
=============================================================================
