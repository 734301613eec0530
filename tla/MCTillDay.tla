----------------------------- MODULE MCTillDay -----------------------------
(***************************************************************************)
(* Small instances of TillDay for TLC.                                     *)
(***************************************************************************)
EXTENDS TillDay

\* One thing, and a bill of two lines the price, the tax and the
\* points of which do not divide into two parts.
Single == [qty |-> <<1, 0>>, amount |-> <<5, 0>>, tax |-> <<0, 0>>, points |-> 1,
           paid |-> [cash |-> 0, card |-> 5]]
Mixed == [qty |-> <<2, 1>>, amount |-> <<5, 3>>, tax |-> <<1, 0>>, points |-> 1,
          paid |-> [cash |-> 4, card |-> 4]]

SingleOnly == {Single}
Both == {Single, Mixed}

\* No payment waits.
ClockSpec == Init /\ [][Next /\ due' = due]_vars
=============================================================================
