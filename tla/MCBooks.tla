------------------------------ MODULE MCBooks ------------------------------
(***************************************************************************)
(* A behaviour is about one till's shifts and reports, with bills of one   *)
(* thing, or about refunds at every till, in one shift and one moment. A   *)
(* day on which a clock was set back has two transactions, or three sales. *)
(* Or it is about a payment of an open order and one transaction more,     *)
(* while no clock is set back.                                             *)
(***************************************************************************)
EXTENDS MCTillDay, TLC

CONSTANT DayTill

VARIABLE about

DayOrReturns ==
  /\ about # "paying" => due' = due
  /\ about = "paying" => Len(txs') < MaxTx /\ \A t \in Tills : clock'[t] >= clock[t]
  /\ about # "returns" =>
       /\ \A t \in Tills \ {DayTill} : has'[t] = {} /\ clock'[t] = 1 /\ asked'[t] = NotAsked
       /\ \A i \in DOMAIN txs' : txs'[i].kind = "sale" => txs'[i].goods = Single
       /\ untimely' # {} => Len(txs') < MaxTx \/ \A i \in DOMAIN txs' : txs'[i].kind = "sale"
  /\ about = "returns" =>
       /\ clock' = clock
       /\ zs' = <<>>
       /\ \A i \in DOMAIN txs' : txs'[i].kind = "sale" => txs'[i].goods = Mixed

MCInit == Init /\ about \in {"day", "returns", "paying"}
MCNext == Next /\ UNCHANGED about /\ DayOrReturns
MCSpec == MCInit /\ [][MCNext]_<<vars, about>>

=============================================================================
