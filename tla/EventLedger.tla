---------------------------- MODULE EventLedger ----------------------------
(***************************************************************************)
(* What a sync server promises its tills: the set of events it has taken,  *)
(* and the rows, which are a function of that set.  A last-write-wins row  *)
(* is its greatest version, a movement is present once any event brought   *)
(* it.  Neither the order in which events come nor how often they come can *)
(* show in the rows.                                                       *)
(***************************************************************************)
EXTENDS Integers

CONSTANTS Rows, Deltas, Taken

VARIABLES log, version, present

vars == <<log, version, present>>

Above(v, w) == v.at > w.at \/ (v.at = w.at /\ v.tie > w.tie)

\* v is the greatest version of row r among the events E (none: 0, 0).
Greatest(E, r, v) ==
  /\ \/ v.at = 0 /\ v.tie = 0 /\ \A e \in E : e.item # r
     \/ \E e \in E : e.item = r /\ e.at = v.at /\ e.tie = v.tie
  /\ \A e \in E : e.item = r => ~Above(e, v)

Init ==
  /\ log = {}
  /\ version = [r \in Rows |-> [at |-> 0, tie |-> 0]]
  /\ present = {}

\* An event that is new, of an item the server knows.
Take(e) ==
  /\ e \notin log
  /\ log' = log \cup {e}
  /\ \A r \in Rows : Greatest(log', r, version'[r])
  /\ present' = {d \in Deltas : \E f \in log' : f.item = d}

Next == \E e \in Taken : Take(e)

Spec == Init /\ [][Next]_vars
=============================================================================
