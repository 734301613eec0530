------------------------------- MODULE MCTill -------------------------------
(***************************************************************************)
(* Two calls on two threads, every command of the till with every other.   *)
(***************************************************************************)
EXTENDS TillCommands

CONSTANTS t1, t2, cashier, owner

MCLevel == cashier :> 1 @@ owner :> 3
MCScript == Scripts
MCLocks == DOMAIN MutexRank
MCRank == MutexRank

\* Of the calls that return and have the same script, one stands for all.
Returning ==
  LET Alike(c) == {d \in DOMAIN Scripts \ Hanging : Scripts[d] = Scripts[c]}
  IN {CHOOSE d \in Alike(c) : TRUE : c \in DOMAIN Scripts \ Hanging}

Saving == Hanging \cup {"login"}

MCSpec == CmdInit /\ [][CmdNext]_cmdVars /\ CmdFairness
=============================================================================
