---------------------------- MODULE MCOpenOrders ----------------------------
(***************************************************************************)
(* A small instance of OpenOrders for TLC, with one dimension at a time:   *)
(* two orders and a table, with one line each at any time; a tab of two    *)
(* lines; a tab of a combo and a line.                                     *)
(***************************************************************************)
EXTENDS OpenOrders, TLC

VARIABLES
  tabs,    \* the orders of this behaviour
  menu     \* the lines that are drawn in it

Plain == Lines \ Combo

MCInit ==
  /\ Init
  /\ \/ tabs = Orders /\ menu = Plain
     \/ tabs \in {{o} : o \in Orders} /\ menu \in {Plain} \cup {Combo \cup {l} : l \in Plain}

MCNext ==
  /\ Next
  /\ UNCHANGED <<tabs, menu>>
  /\ \A o \in Orders : newest'[o] > 0 => o \in tabs
  /\ On(hist'[saves'].items) \subseteq menu
  /\ IF tabs = Orders THEN Cardinality(On(hist'[saves'].items)) <= 1
                      ELSE hist'[saves'].table = NoTable

MCSpec == MCInit /\ [][MCNext]_<<vars, tabs, menu>>

\* Orders are interchangeable, and so are the parts of a combo and the other
\* lines.
Symmetry == Permutations(Orders) \cup Permutations(Combo) \cup Permutations(Lines \ Combo)
=============================================================================
