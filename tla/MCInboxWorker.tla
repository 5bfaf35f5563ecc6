---------------------------- MODULE MCInboxWorker ----------------------------
(***************************************************************************)
(* Instances of InboxWorker for TLC.                                       *)
(***************************************************************************)
EXTENDS InboxWorker, TLC

CONSTANTS u1, u2, t1, t2

UpdatesAlike == Permutations({u1, u2})
=============================================================================
