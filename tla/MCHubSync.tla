----------------------------- MODULE MCHubSync -----------------------------
(***************************************************************************)
(* A behaviour of the hub's instance is about the stock, or about versions *)
(* that conflict: with movements the ties of versions add nothing.         *)
(***************************************************************************)
EXTENDS MCTillSync

VARIABLE about

StockOrVersions ==
  /\ about = "stock" => \A t \in Tills : \A e \in queued'[t] : e.tie = 0
  /\ about = "versions" => \A t \in Tills : held'[t] = {}

MCInit == Init /\ about \in {"stock", "versions"}
MCNext == Next /\ UNCHANGED about /\ StockOrVersions
MCSpec == MCInit /\ [][MCNext]_<<vars, about>>
=============================================================================
