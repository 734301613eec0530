---------------------------- MODULE MCTillSync ----------------------------
(***************************************************************************)
(* Small instances of TillSync for TLC: every movement is of one product.  *)
(***************************************************************************)
EXTENDS TillSyncInv

MCProductOf == [d \in Deltas |-> CHOOSE r \in Rows : TRUE]
=============================================================================
