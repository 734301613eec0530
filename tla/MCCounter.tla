----------------------------- MODULE MCCounter -----------------------------
(***************************************************************************)
(* A print queue with two drains; or a bill of up to three lines of a      *)
(* combo, weighed goods and options, a rule that runs past midnight, rules *)
(* asked for, a member's discount and points.                              *)
(***************************************************************************)
EXTENDS PrintQueue, Bill, TLC

MCCatalog == "meal" :> [price |-> 999, rate |-> 0, category |-> "food"]
          @@ "tea" :> [price |-> 250, rate |-> 500, category |-> "drinks"]
          @@ "nuts" :> [price |-> 1495, rate |-> 1500, category |-> "food"]
MCCombo == {<<"meal", 1000>>, <<"tea", 1000>>}
AllDay == [days |-> 0..6, from |-> 0, to |-> 1440]
MCRules ==
  <<[scope |-> "category", target |-> "drinks", kind |-> "percentage", value |-> 3333,
     min |-> 0, auto |-> TRUE, active |-> TRUE, starts |-> 0, ends |-> Never,
     days |-> {4}, from |-> 1320, to |-> 120],
    [scope |-> "product", target |-> "nuts", kind |-> "fixed", value |-> 400,
     min |-> 0, auto |-> FALSE, active |-> TRUE, starts |-> 1, ends |-> 3,
     days |-> 0..6, from |-> 0, to |-> 1440],
    [scope |-> "order", target |-> 0, kind |-> "percentage", value |-> 1250,
     min |-> 1200, auto |-> FALSE, active |-> TRUE, starts |-> 2, ends |-> Never,
     days |-> 0..6, from |-> 0, to |-> 1440],
    [scope |-> "order", target |-> 0, kind |-> "fixed", value |-> 100,
     min |-> 0, auto |-> TRUE, active |-> FALSE, starts |-> 0, ends |-> Never,
     days |-> 0..6, from |-> 0, to |-> 1440]>>
Line(p, q, o, c) == [product |-> p, qty |-> q, options |-> o, combo |-> c]
MCItems == {Line("meal", 1000, 0, 1), Line("tea", 1000, 35, 1),
            Line("tea", 3000, 0, 0), Line("nuts", 355, 0, 0)}
MCMembers == {[bps |-> 0, multiplier |-> 10000], [bps |-> 1500, multiplier |-> 15000]}
MCMoments == {[now |-> 1, day |-> 4, minute |-> 60], [now |-> 2, day |-> 4, minute |-> 1380],
              [now |-> 3, day |-> 5, minute |-> 60]}
MCTendered == {[method |-> m, tendered |-> x] : m \in {"cash", "card"}, x \in {0, 300, 2000}}

VARIABLE about

MCInit == /\ Init /\ BillInit /\ about \in {"printing", "bill"}
          /\ about = "bill" => queue = "receipts"
MCNext ==
  /\ \/ about = "printing" /\ Next /\ UNCHANGED billVars
     \/ about = "bill" /\ BillNext /\ UNCHANGED vars
  /\ UNCHANGED about

MCSpec == MCInit /\ [][MCNext]_<<vars, billVars, about>> /\ Fairness
=============================================================================
