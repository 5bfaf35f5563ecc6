---------------------------- MODULE UnitPromise ----------------------------
(***************************************************************************)
(* What RepositoryUnitOfWork (src/tawg_bot/unit_of_work.py) promises for   *)
(* one checkout, without saying how: the files staged together replace     *)
(* their predecessors together or not at all.                              *)
(***************************************************************************)

CONSTANTS NoCheckout, NoUnit

VARIABLES store,    \* file |-> content as a reader finds it, or NoCheckout
          staged    \* staged file |-> content, or NoUnit

unitVars == <<store, staged>>

UnitInit == store = NoCheckout /\ staged = NoUnit

Load == /\ store = NoCheckout
        /\ store' # NoCheckout
        /\ UNCHANGED staged

Stage == /\ store # NoCheckout
         /\ staged = NoUnit
         /\ staged' # NoUnit
         /\ UNCHANGED store

Commit == /\ staged # NoUnit
          /\ store' = [f \in DOMAIN store |->
                          IF f \in DOMAIN staged THEN staged[f] ELSE store[f]]
          /\ staged' = NoUnit

Abandon == /\ staged # NoUnit
           /\ staged' = NoUnit
           /\ UNCHANGED store

\* The run dies and its checkout with it.
Vanish == /\ store # NoCheckout
          /\ store' = NoCheckout
          /\ staged' = NoUnit

UnitNext == Load \/ Stage \/ Commit \/ Abandon \/ Vanish
=============================================================================
