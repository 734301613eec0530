------------------------------ MODULE MCStart ------------------------------
(***************************************************************************)
(* Two tokens of one till (the newer with fewer seats) and one of another  *)
(* till of the client; or the till's database, its backups and restores.   *)
(***************************************************************************)
EXTENDS License, Restore, TLC

CONSTANTS t1, t2, old, new, other

MCFor == old :> t1 @@ new :> t1 @@ other :> t2
MCIssued == old :> 0 @@ new :> 1 @@ other :> 0
MCExpires == old :> 2 @@ new :> 4 @@ other :> 4
MCSeats == old :> 2 @@ new :> 1 @@ other :> 2

VARIABLE about

MCInit == LicInit /\ RstInit /\ about \in {"licence", "restore"}
MCNext ==
  /\ \/ about = "licence" /\ LicNext /\ UNCHANGED rstVars
     \/ about = "restore" /\ RstNext /\ UNCHANGED licVars
  /\ UNCHANGED about

MCSpec == MCInit /\ [][MCNext]_<<licVars, rstVars, about>> /\ LicFairness
=============================================================================
