----------------------------- MODULE OpenOrders -----------------------------
(***************************************************************************)
(* Cafe tabs and restaurant tables, held until they are paid, edited at    *)
(* several tills.  An order is one row; each save writes a new version of  *)
(* it, and tills exchange versions last-write-wins.  At a till every edit  *)
(* carries the version its screen showed and is refused when the row has   *)
(* moved on.  What goes to the kitchen is written as tickets in the same   *)
(* transaction.                                                            *)
(*                                                                         *)
(* Versions are numbered in the order they are saved: the number stands    *)
(* for updated_at, so the clocks of the tills agree here (TillSync is      *)
(* about clocks that do not).  A till, the server and a screen hold the    *)
(* number of the version they have, 0 for none.                            *)
(***************************************************************************)
EXTENDS Integers, FiniteSets, FiniteSetsExt, Functions

CONSTANTS
  Tills,      \* the devices of one shop
  Managers,   \* the tills where the signed-in user may void (sale.void)
  Orders,
  Tables,
  NoTable,    \* a tab that is not seated
  Lines,      \* line ids; each is drawn once
  Combo,      \* those that are the parts of one combo
  Courses,
  MaxQty,     \* bound: units of a line
  MaxSaves    \* bound: saves of all orders together

ASSUME LinesAssumption ==
  Combo \subseteq Lines /\ IsFiniteSet(Lines) /\ Managers \subseteq Tills
ASSUME CoursesAssumption == Courses # {}
ASSUME TablesAssumption == NoTable \notin Tables
ASSUME SavesAssumption == MaxSaves \in Nat /\ MaxQty \in Nat \ {0}

Versions == 0..MaxSaves

VARIABLES
  hist,     \* hist[v]: the row version v wrote
  saves,    \* the number of saves
  newest,   \* newest[o]: the last version of o saved anywhere
  local,    \* local[t][o]: the version in t's database
  seen,     \* seen[t][o]: the version on t's screen
  hub,      \* hub[o]: the version the server has
  sales,    \* sales made from orders
  voided,   \* those of them that were voided
  tickets,  \* kitchen tickets
  forked,   \* history: orders saved on a version that was not the newest
  blind     \* history: tables seated while an order there was not known

shopVars == <<hist, saves, newest, seen, sales, voided, tickets, forked, blind>>
vars == <<shopVars, local, hub>>

\* A line with no units is not on the order.
Items == [Lines -> [qty : 0..MaxQty, course : Courses, fired : BOOLEAN]]
Rows == [status : {"none", "open", "settled", "cancelled"},
         table : Tables \cup {NoTable},
         items : Items,
         bills : SUBSET Versions]
Units == [Lines -> 0..MaxQty]
Sales == [id : Versions, till : Tills, order : Orders, units : Units]
Tickets == [id : Versions, till : Tills, kind : {"order", "void"},
            order : Orders, sale : Versions, units : Units]

NoItem == [qty |-> 0, course |-> CHOOSE c \in Courses : TRUE, fired |-> FALSE]
NoItems == [l \in Lines |-> NoItem]
NoRow == [status |-> "none", table |-> NoTable, items |-> NoItems, bills |-> {}]

On(items) == {l \in Lines : items[l].qty > 0}
Fired(items) == {l \in On(items) : items[l].fired}
UnitsOf(items, L) == [l \in Lines |-> IF l \in L THEN items[l].qty ELSE 0]

Init ==
  /\ hist = [v \in Versions |-> NoRow]
  /\ saves = 0
  /\ newest = [o \in Orders |-> 0]
  /\ local = [t \in Tills |-> newest]
  /\ seen = local
  /\ hub = newest
  /\ sales = {}
  /\ voided = {}
  /\ tickets = {}
  /\ forked = {}
  /\ blind = {}

-----------------------------------------------------------------------------
(* What the edits share.                                                    *)

Row(t, o) == hist[local[t][o]]

AnyOrder(t, o) == local[t][o] > 0       \* mutant: the status is not looked at
\* load_open
IsOpen(t, o) == Row(t, o).status = "open"

AnyVersion(t, o) == TRUE                \* mutant: the version is not compared
\* check_version: the edit is based on the row as it is.
VersionHolds(t, o) == seen[t][o] = local[t][o]

AlwaysFree(t, tb, o) == TRUE            \* mutant: the table is not looked at
\* ensure_table_free, among the orders this till knows.
TableFree(t, tb, o) ==
  \A p \in Orders \ {o} : ~(IsOpen(t, p) /\ Row(t, p).table = tb)

\* orders::save: the row, its updated_at and its outbox event in one commit;
\* the screen shows what was returned.
Save(t, o, row) ==
  /\ saves < MaxSaves
  /\ saves' = saves + 1
  /\ hist' = [hist EXCEPT ![saves + 1] = row]
  /\ newest' = [newest EXCEPT ![o] = saves + 1]
  /\ local' = [local EXCEPT ![t][o] = saves + 1]
  /\ seen' = [seen EXCEPT ![t][o] = saves + 1]
  /\ forked' = IF local[t][o] = newest[o] THEN forked ELSE forked \cup {o}
  /\ UNCHANGED hub

\* kitchen_ticket: nothing is written when there are no lines.
Ticket(t, o, kind, sale, items, L) ==
  tickets' = IF L = {} THEN tickets
             ELSE tickets \cup {[id |-> saves + 1, till |-> t, kind |-> kind, order |-> o,
                                 sale |-> sale, units |-> UnitsOf(items, L)]}

\* History: somebody is seated at tb, though another order is, in a version
\* that has not come to this till.
Seat(t, o, tb) ==
  blind' = IF /\ tb # NoTable
              /\ \E p \in Orders \ {o} : /\ local[t][p] # newest[p]
                                         /\ hist[newest[p]].status = "open"
                                         /\ hist[newest[p]].table = tb
           THEN blind \cup {tb} ELSE blind

-----------------------------------------------------------------------------
(* The commands.                                                            *)

Open(t, o, tb) ==
  /\ newest[o] = 0
  /\ tb # NoTable => TableFree(t, tb, o)
  /\ Save(t, o, [NoRow EXCEPT !.status = "open", !.table = tb])
  /\ Seat(t, o, tb)
  /\ UNCHANGED <<sales, voided, tickets>>

\* Line ids no version has used: the till draws them at random.
Fresh == {l \in Lines : \A v \in 1..saves : hist[v].items[l].qty = 0}

Contents == [qty : 1..MaxQty, course : Courses, fired : {FALSE}]

\* What the editor can ask for from the items it shows.  It sends the whole list,
\* and what was done while the last save was under way goes into one: any of
\* the lines changed or dropped, any number added.  A combo comes and goes whole.
Edits(items) ==
  LET new == Fresh
      lines == {p \in [Lines \ Combo -> Contents \cup {NoItem} \cup {items[l] : l \in Lines}] :
                  \A l \in Lines \ Combo :
                    \/ p[l] = items[l]
                    \/ l \in On(items) /\ p[l] \in Contents \cup {NoItem}
                    \/ l \in new /\ p[l] \in Contents}
      combos == {[l \in Combo |-> items[l]], [l \in Combo |-> NoItem]}
                \cup {[l \in Combo |-> x] : x \in IF Combo \subseteq new
                                               THEN {c \in Contents : c.qty = 1} ELSE {}}
  IN {[l \in Lines |-> IF l \in Combo THEN c[l] ELSE p[l]] : p \in lines, c \in combos}

SameContent(i, j) == i.qty = j.qty /\ i.course = j.course

\* Sent lines the edit changes or drops.
CalledOff(items, wanted) == {l \in Fired(items) : ~SameContent(items[l], wanted[l])}

Update(t, o, tb) ==
  LET row == Row(t, o)
  IN /\ IsOpen(t, o)
     /\ VersionHolds(t, o)
     /\ tb \notin {row.table, NoTable} => TableFree(t, tb, o)
     /\ \E wanted \in Edits(hist[seen[t][o]].items) :
          LET off == CalledOff(row.items, wanted)
              items == [l \in Lines |-> IF SameContent(row.items[l], wanted[l])
                                       THEN row.items[l] ELSE wanted[l]]
          IN /\ off = {} \/ t \in Managers
             /\ Save(t, o, [row EXCEPT !.table = tb, !.items = items])
             /\ Ticket(t, o, "void", 0, row.items, off)
     /\ IF tb # row.table THEN Seat(t, o, tb) ELSE UNCHANGED blind
     /\ UNCHANGED <<sales, voided>>

SplitUnsent(items, l, new) ==           \* mutant: the copies are not marked sent
  [m \in Lines |-> IF m = l THEN [items[l] EXCEPT !.qty = 1]
                   ELSE IF m \in new THEN [items[l] EXCEPT !.qty = 1, !.fired = FALSE]
                   ELSE items[m]]

\* A line of n units becomes n lines of one; what was sent stays sent.
SplitItems(items, l, new) ==
  [m \in Lines |-> IF m \in new \cup {l} THEN [items[l] EXCEPT !.qty = 1] ELSE items[m]]

SplitLine(t, o, l) ==
  LET row == Row(t, o)
  IN /\ IsOpen(t, o)
     /\ VersionHolds(t, o)
     /\ l \in On(row.items) \ Combo
     /\ row.items[l].qty > 1
     /\ \E new \in kSubset(row.items[l].qty - 1, Fresh \ Combo) :
          Save(t, o, [row EXCEPT !.items = SplitItems(row.items, l, new)])
     /\ UNCHANGED <<sales, voided, tickets, blind>>

\* c = 0: every course.
Fire(t, o, c) ==
  LET row == Row(t, o)
      chosen == {l \in On(row.items) \ Fired(row.items) : c \in {0, row.items[l].course}}
  IN /\ IsOpen(t, o)
     /\ VersionHolds(t, o)
     /\ chosen # {}
     /\ Save(t, o, [row EXCEPT !.items = [l \in Lines |->
                      [row.items[l] EXCEPT !.fired = @ \/ l \in chosen]]])
     /\ Ticket(t, o, "order", 0, row.items, chosen)
     /\ UNCHANGED <<sales, voided, blind>>

Cancel(t, o) ==
  LET row == Row(t, o)
  IN /\ IsOpen(t, o)
     /\ VersionHolds(t, o)
     /\ Fired(row.items) = {} \/ t \in Managers
     /\ Save(t, o, [row EXCEPT !.status = "cancelled"])
     /\ Ticket(t, o, "void", 0, row.items, Fired(row.items))
     /\ UNCHANGED <<sales, voided, blind>>

\* The lines a bill may ask for: some of those on the screen, or all there are.
Bills(t, o) == SUBSET On(hist[seen[t][o]].items) \cup {On(Row(t, o).items)}

\* One sale and the order without its lines in one transaction; what was never
\* sent goes to the kitchen now.  A payment carries no version.  One that is
\* repeated finds its sale by its key and changes nothing.
Pay(t, o, bill) ==
  LET row == Row(t, o)
      left == [l \in Lines |-> IF l \in bill THEN NoItem ELSE row.items[l]]
  IN /\ IsOpen(t, o)
     /\ bill # {}
     /\ bill \subseteq On(row.items)
     /\ bill \cap Combo \in {{}, Combo \cap On(row.items)}
     /\ sales' = sales \cup {[id |-> saves + 1, till |-> t, order |-> o,
                              units |-> UnitsOf(row.items, bill)]}
     /\ Save(t, o, [row EXCEPT !.items = left,
                               !.bills = @ \cup {saves + 1},
                               !.status = IF On(left) = {} THEN "settled" ELSE "open"])
     /\ Ticket(t, o, "order", saves + 1, row.items, bill \ Fired(row.items))
     /\ UNCHANGED <<voided, blind>>

\* A sale of this till is voided: what its payment sent to the kitchen is
\* called off.
VoidSale(t, s) ==
  /\ t \in Managers
  /\ s.till = t
  /\ s.id \notin voided
  /\ voided' = voided \cup {s.id}
  /\ tickets' = tickets \cup {[k EXCEPT !.kind = "void", !.till = t] :
                                k \in {k \in tickets : k.sale = s.id /\ k.kind = "order"}}
  /\ UNCHANGED <<hist, saves, newest, local, seen, hub, sales, forked, blind>>

-----------------------------------------------------------------------------
(* The screen reloads; the row is synchronised, the newer version wins       *)
(* (EventLedger is what TillSync shows of the way there).                    *)

Reload(t, o) ==
  /\ seen[t][o] # local[t][o]
  /\ seen' = [seen EXCEPT ![t][o] = local[t][o]]
  /\ UNCHANGED <<hist, saves, newest, local, hub, sales, voided, tickets, forked, blind>>

Send(t, o) ==
  /\ local[t][o] > hub[o]
  /\ hub' = [hub EXCEPT ![o] = local[t][o]]
  /\ UNCHANGED <<shopVars, local>>

Fetch(t, o) ==
  /\ hub[o] > local[t][o]
  /\ local' = [local EXCEPT ![t][o] = hub[o]]
  /\ UNCHANGED <<shopVars, hub>>

Edit(t, o) ==
  \/ \E tb \in Tables \cup {NoTable} :
       Open(t, o, tb) \/ Update(t, o, tb)
  \/ \E l \in Lines : SplitLine(t, o, l)
  \/ \E c \in Courses \cup {0} : Fire(t, o, c)
  \/ Cancel(t, o)
  \/ \E bill \in Bills(t, o) : Pay(t, o, bill)

Next ==
  \E t \in Tills :
    \/ \E o \in Orders : Edit(t, o) \/ Reload(t, o) \/ Send(t, o) \/ Fetch(t, o)
    \/ \E s \in sales : VoidSale(t, s)

Spec == Init /\ [][Next]_vars

-----------------------------------------------------------------------------
(* Properties.  An order two tills edited from different versions is forked: *)
(* the newer row wins and what the other did is lost, by design (D39).  The  *)
(* promises are about the orders that are not.                               *)

\* Types, and that version numbers are those given out.
TypeOK ==
  /\ saves \in Versions
  /\ hist \in [Versions -> Rows]
  /\ newest \in [Orders -> 0..saves]
  /\ local \in [Tills -> [Orders -> 0..saves]]
  /\ seen \in [Tills -> [Orders -> 0..saves]]
  /\ hub \in [Orders -> 0..saves]
  /\ sales \subseteq Sales
  /\ voided \subseteq {s.id : s \in sales}
  /\ tickets \subseteq Tickets
  /\ forked \subseteq Orders
  /\ blind \subseteq Tables

Newest(o) == hist[newest[o]]
SalesOf(o) == {s \in sales : s.order = o}

\* Units: on a line-by-line account, and on tickets or bills together.
Total(units) == SumFunctionOnSet(units, Lines)
UnitsOn(T) == SumFunctionOnSet([k \in T |-> Total(k.units)], T)

Told(o) == {k \in tickets : k.order = o /\ k.kind = "order"}
Recalled(o) == {k \in tickets : k.order = o /\ k.kind = "void" /\ k.sale = 0}
SentOf(row) == IF row.status = "open" THEN Total(UnitsOf(row.items, Fired(row.items))) ELSE 0

\* The kitchen makes what is served: whatever edits, splits, courses, bills
\* and cancellations an order went through at whichever tills, the units it
\* was told to make, less those called off, are those marked sent on the open
\* order and those on its bills.
KitchenBalance ==
  \A o \in Orders \ forked :
    UnitsOn(Told(o)) - UnitsOn(Recalled(o)) = SentOf(Newest(o)) + UnitsOn(SalesOf(o))

\* A split bill pays each line once: the order names exactly its sales, no two
\* of them share a line, and none of them has a line that is still to be paid.
BillsAddUp ==
  \A o \in Orders \ forked :
    /\ Newest(o).bills = {s.id : s \in SalesOf(o)}
    /\ \A s \in SalesOf(o) : \A l \in Lines :
         s.units[l] > 0 =>
           /\ l \notin On(Newest(o).items)
           /\ \A r \in SalesOf(o) \ {s} : r.units[l] = 0

\* Two parties are never put on one table, unless a till that had not heard of
\* the first seated the second.
OneOrderPerTable ==
  \A o, p \in Orders \ forked :
    /\ Newest(o).status = "open" /\ Newest(p).status = "open"
    /\ Newest(o).table = Newest(p).table /\ Newest(o).table \in Tables \ blind
    => o = p

\* Behind BillsAddUp and OneOrderPerTable: a line that was paid was on some
\* version, so it is not drawn again.
RowsInv ==
  /\ TypeOK
  /\ BillsAddUp
  /\ OneOrderPerTable
  /\ hist[0] = NoRow
  /\ \A s \in sales :
       /\ s.id \in 1..saves
       /\ \A l \in Lines : s.units[l] > 0 => \E v \in 1..saves : hist[v].items[l].qty > 0

\* Behind KitchenBalance: no ticket has the number of a save to come, so each
\* is counted once.
TicketsInv ==
  /\ IsFiniteSet(tickets) /\ IsFiniteSet(sales)
  /\ \A k \in tickets : k.id \in 1..saves

\* The inductive invariant.
OrdersInv == RowsInv /\ TicketsInv /\ KitchenBalance

\* What is settled or cancelled is never saved again: an edit, a bill or a
\* course sent at another till cannot reopen it.
ClosedStaysClosed ==
  [][\A o \in Orders \ forked' :
       Newest(o).status \in {"settled", "cancelled"} => newest'[o] = newest[o]]_vars
=============================================================================
