------------------------- MODULE OpenOrders_proofs -------------------------
(***************************************************************************)
(* Orders for any number of tills, orders, tables and lines: the kitchen   *)
(* makes what is served, bills add up, a table has one order, and what is  *)
(* closed stays closed.                                                    *)
(***************************************************************************)
EXTENDS OpenOrders, SumTheorems, TLAPS

-----------------------------------------------------------------------------
(* What a save does, whatever row it writes.                                *)

\* Till t saved row as a version of o; the bookkeeping of the history.
Saved(t, o, row) ==
  /\ row \in Rows
  /\ saves' = saves + 1 /\ saves' \in Versions
  /\ hist' = [hist EXCEPT ![saves + 1] = row]
  /\ newest' = [newest EXCEPT ![o] = saves + 1]
  /\ forked' = IF local[t][o] = newest[o] THEN forked ELSE forked \cup {o}
  /\ local' = [local EXCEPT ![t] = [local[t] EXCEPT ![o] = saves + 1]]
  /\ seen' = [seen EXCEPT ![t] = [seen[t] EXCEPT ![o] = saves + 1]]
  /\ hub' = hub

LEMMA SaveIs ==
  ASSUME TypeOK, NEW t \in Tills, NEW o \in Orders, NEW row \in Rows, Save(t, o, row)
  PROVE  Saved(t, o, row)
BY SavesAssumption DEF Save, Saved, TypeOK, Versions

\* A version number is a version.
LEMMA Numbers ==
  ASSUME TypeOK
  PROVE  /\ saves \in Nat /\ 0..saves \subseteq Versions
         /\ \A t \in Tills, o \in Orders : /\ local[t][o] \in 0..saves
                                           /\ Row(t, o) \in Rows
         /\ \A o \in Orders : newest[o] \in 0..saves /\ Newest(o) \in Rows
BY SavesAssumption DEF TypeOK, Versions, Row, Newest

\* The parts of TypeOK a save is about.
LEMMA SavedTypes ==
  ASSUME TypeOK, NEW t \in Tills, NEW o \in Orders, NEW row, Saved(t, o, row)
  PROVE  /\ saves' \in Versions /\ hist' \in [Versions -> Rows]
         /\ newest' \in [Orders -> 0..saves'] /\ forked' \subseteq Orders
         /\ local' \in [Tills -> [Orders -> 0..saves']]
         /\ seen' \in [Tills -> [Orders -> 0..saves']]
         /\ hub' \in [Orders -> 0..saves']
<1>1. saves \in Nat /\ saves' = saves + 1 /\ 0..saves \subseteq 0..saves' /\ saves + 1 \in 0..saves'
  BY Numbers DEF Saved
<1>2. hist' \in [Versions -> Rows]
  BY <1>1 DEF Saved, TypeOK
<1>3. newest' \in [Orders -> 0..saves'] /\ hub' \in [Orders -> 0..saves']
  BY <1>1 DEF Saved, TypeOK
<1>4. [local[t] EXCEPT ![o] = saves + 1] \in [Orders -> 0..saves']
  BY <1>1 DEF TypeOK
<1>5. [seen[t] EXCEPT ![o] = saves + 1] \in [Orders -> 0..saves']
  BY <1>1 DEF TypeOK
<1>6. \A u \in Tills : /\ local[u] \in [Orders -> 0..saves']
                       /\ seen[u] \in [Orders -> 0..saves']
  BY <1>1 DEF TypeOK
<1>7. local' \in [Tills -> [Orders -> 0..saves']]
  BY <1>4, <1>6 DEF Saved, TypeOK
<1>8. seen' \in [Tills -> [Orders -> 0..saves']]
  BY <1>5, <1>6 DEF Saved, TypeOK
<1> QED
  BY <1>2, <1>3, <1>7, <1>8 DEF Saved, TypeOK

\* Other orders keep their newest version, and every old version its row; an
\* order that is not forked was saved on its newest version.
LEMMA SavedRows ==
  ASSUME TypeOK, NEW t \in Tills, NEW o \in Orders, NEW row, Saved(t, o, row)
  PROVE  /\ \A v \in 0..saves : hist'[v] = hist[v]
         /\ hist'[saves + 1] = row
         /\ newest'[o] = saves + 1
         /\ \A p \in Orders \ {o} : newest'[p] = newest[p]
         /\ forked \subseteq forked'
         /\ o \notin forked' => Row(t, o) = Newest(o)
<1>1. saves \in Nat /\ saves + 1 \in Versions /\ saves + 1 \notin 0..saves /\ 0..saves \subseteq Versions
  BY Numbers DEF Saved
<1>2. \A v \in 0..saves : hist'[v] = hist[v]
  BY <1>1 DEF Saved, TypeOK
<1>3. hist'[saves + 1] = row
  BY <1>1 DEF Saved, TypeOK
<1>4. newest'[o] = saves + 1 /\ \A p \in Orders \ {o} : newest'[p] = newest[p]
  BY DEF Saved, TypeOK
<1>5. forked \subseteq forked' /\ (o \notin forked' => local[t][o] = newest[o])
  BY DEF Saved
<1> QED
  BY <1>2, <1>3, <1>4, <1>5 DEF Row, Newest

\* What an edit leaves: the newest row of o is the one it saved.
LEMMA NewestAfter ==
  ASSUME TypeOK, NEW t \in Tills, NEW o \in Orders, NEW row, Saved(t, o, row)
  PROVE  \A p \in Orders : hist'[newest'[p]] = IF p = o THEN row ELSE hist[newest[p]]
BY SavedRows, Numbers

-----------------------------------------------------------------------------
(* The parts of the invariant.                                              *)

\* What was paid was on some version, so it is not drawn again.
PaidWasOn ==
  \A s \in sales :
    /\ s.id \in 1..saves
    /\ \A l \in Lines : s.units[l] > 0 => \E v \in 1..saves : hist[v].items[l].qty > 0

LEMMA Parts == RowsInv <=> /\ TypeOK /\ BillsAddUp /\ OneOrderPerTable
                             /\ hist[0] = NoRow /\ PaidWasOn
BY DEF RowsInv, PaidWasOn

\* Lines row has and the till's row had not are fresh.
OnlyFresh(t, o, row) == On(row.items) \subseteq On(Row(t, o).items) \cup Fresh

\* Nobody else is known to sit where row puts its order.
Alone(o, row) ==
  o \notin forked' /\ row.status = "open" /\ row.table \in Tables \ blind' =>
    \A p \in Orders \ ({o} \cup forked') :
      ~(Newest(p).status = "open" /\ Newest(p).table = row.table)

LEMMA RowZero ==
  ASSUME hist[0] = NoRow, NEW l \in Lines
  PROVE  hist[0].items[l].qty = 0
BY DEF NoRow, NoItems, NoItem

LEMMA PaidWasOnKept ==
  ASSUME TypeOK, PaidWasOn, NEW t \in Tills, NEW o \in Orders, NEW row, Saved(t, o, row),
         UNCHANGED sales
  PROVE  PaidWasOn'
<1>1. saves \in Nat /\ saves' = saves + 1
  BY Numbers DEF Saved
<1>2. 1..saves \subseteq 1..saves' /\ 1..saves \subseteq 0..saves
  BY <1>1
<1>3. \A v \in 1..saves : hist'[v] = hist[v]
  BY <1>2, SavedRows
<1> SUFFICES ASSUME NEW s \in sales
             PROVE  /\ s.id \in 1..saves'
                    /\ \A l \in Lines : s.units[l] > 0 =>
                         \E v \in 1..saves' : hist'[v].items[l].qty > 0
  BY DEF PaidWasOn
<1> QED
  BY <1>2, <1>3 DEF PaidWasOn

\* A line that was paid is on no row that keeps to what it had and to fresh lines.
LEMMA PaidIsGone ==
  ASSUME TypeOK, PaidWasOn, NEW s \in sales, NEW l \in Lines, s.units[l] > 0
  PROVE  l \notin Fresh
<1>1. PICK v \in 1..saves : hist[v].items[l].qty > 0
  BY DEF PaidWasOn
<1>2. hist[v].items[l].qty # 0
  BY <1>1
<1> QED
  BY <1>1, <1>2 DEF Fresh

LEMMA BillsKept ==
  ASSUME TypeOK, PaidWasOn, BillsAddUp, NEW t \in Tills, NEW o \in Orders, NEW row,
         Saved(t, o, row), UNCHANGED sales, OnlyFresh(t, o, row),
         o \notin forked' => row.bills = Row(t, o).bills
  PROVE  BillsAddUp'
<1>1. \A p \in Orders : hist'[newest'[p]] = IF p = o THEN row ELSE hist[newest[p]]
  BY NewestAfter
<1>2. forked \subseteq forked' /\ (o \notin forked' => Row(t, o) = Newest(o))
  BY SavedRows
<1> SUFFICES ASSUME NEW p \in Orders \ forked'
             PROVE  /\ hist'[newest'[p]].bills = {s.id : s \in SalesOf(p)}
                    /\ \A s \in SalesOf(p) : \A l \in Lines :
                         s.units[l] > 0 =>
                           /\ l \notin On(hist'[newest'[p]].items)
                           /\ \A r \in SalesOf(p) \ {s} : r.units[l] = 0
  BY DEF BillsAddUp, SalesOf, Newest
<1>3. /\ Newest(p).bills = {s.id : s \in SalesOf(p)}
      /\ \A s \in SalesOf(p) : \A l \in Lines :
           s.units[l] > 0 =>
             /\ l \notin On(Newest(p).items)
             /\ \A r \in SalesOf(p) \ {s} : r.units[l] = 0
  BY <1>2 DEF BillsAddUp
<1>4. CASE p # o
  BY <1>1, <1>3, <1>4 DEF Newest
<1>5. CASE p = o
  <2>1. Row(t, o) = Newest(o) /\ hist'[newest'[p]] = row /\ row.bills = Newest(o).bills
    BY <1>1, <1>2, <1>5
  <2>2. ASSUME NEW s \in SalesOf(p), NEW l \in Lines, s.units[l] > 0
        PROVE  l \notin On(row.items)
    BY <1>3, <1>5, <2>1, <2>2, PaidIsGone DEF OnlyFresh, SalesOf
  <2> QED
    BY <1>3, <1>5, <2>1, <2>2
<1> QED
  BY <1>4, <1>5

LEMMA TablesKept ==
  ASSUME TypeOK, OneOrderPerTable, NEW t \in Tills, NEW o \in Orders, NEW row,
         Saved(t, o, row), blind \subseteq blind', Alone(o, row)
  PROVE  OneOrderPerTable'
<1>1. \A p \in Orders : hist'[newest'[p]] = IF p = o THEN row ELSE hist[newest[p]]
  BY NewestAfter
<1>2. forked \subseteq forked'
  BY SavedRows
<1> SUFFICES ASSUME NEW p \in Orders \ forked', NEW q \in Orders \ forked',
                    hist'[newest'[p]].status = "open", hist'[newest'[q]].status = "open",
                    hist'[newest'[p]].table = hist'[newest'[q]].table,
                    hist'[newest'[p]].table \in Tables \ blind'
             PROVE  p = q
  BY DEF OneOrderPerTable, Newest
<1>3. CASE p # o /\ q # o
  BY <1>1, <1>2, <1>3 DEF OneOrderPerTable, Newest
<1>4. CASE p = o /\ q # o
  BY <1>1, <1>4 DEF Alone, Newest
<1>5. CASE q = o /\ p # o
  BY <1>1, <1>5 DEF Alone, Newest
<1> QED
  BY <1>3, <1>4, <1>5

\* An order that stays at its table is as alone there as it was.
LEMMA StaysAlone ==
  ASSUME TypeOK, OneOrderPerTable, NEW t \in Tills, NEW o \in Orders, NEW row, Saved(t, o, row),
         blind \subseteq blind', IsOpen(t, o), row.table = Row(t, o).table
  PROVE  Alone(o, row)
BY SavedRows DEF Alone, OneOrderPerTable, IsOpen

\* One that is seated sits alone as far as its till knows; where that is not
\* far enough, the table is noted.
LEMMA SeatedAlone ==
  ASSUME TypeOK, NEW t \in Tills, NEW o \in Orders, NEW row, NEW tb, Saved(t, o, row),
         row.table = tb, tb # NoTable => TableFree(t, tb, o), Seat(t, o, tb)
  PROVE  Alone(o, row)
<1> SUFFICES ASSUME tb \in Tables \ blind', NEW p \in Orders \ {o}, Newest(p).status = "open",
                    Newest(p).table = tb
             PROVE  FALSE
  BY DEF Alone
<1>1. tb # NoTable
  BY TablesAssumption
<1>2. local[t][p] = newest[p]
  <2> SUFFICES ASSUME local[t][p] # newest[p] PROVE FALSE
    OBVIOUS
  <2>1. blind' = blind \cup {tb}
    BY <1>1 DEF Seat, Newest
  <2> QED
    BY <2>1
<1> QED
  BY <1>1, <1>2 DEF TableFree, IsOpen, Row, Newest

LEMMA SeatBlind ==
  ASSUME NEW t \in Tills, NEW o \in Orders, NEW tb \in Tables \cup {NoTable}, Seat(t, o, tb),
         blind \subseteq Tables
  PROVE  blind \subseteq blind' /\ blind' \subseteq Tables
BY DEF Seat

-----------------------------------------------------------------------------
(* The rows and tickets the commands write.                                 *)

ItemType == [qty : 0..MaxQty, course : Courses, fired : BOOLEAN]

LEMMA NoItemIs == NoItem \in ItemType /\ NoItem.qty = 0 /\ NoItems \in Items
<1>1. (CHOOSE c \in Courses : TRUE) \in Courses
  BY CoursesAssumption
<1>2. NoItem \in ItemType /\ NoItem.qty = 0
  BY <1>1, SavesAssumption DEF NoItem, ItemType
<1> QED
  BY <1>2 DEF NoItems, Items, ItemType

LEMMA ContentsAre == \A x \in Contents : x \in ItemType
<1> SUFFICES ASSUME NEW x \in Contents PROVE x \in ItemType
  OBVIOUS
<1>1. /\ x = [qty |-> x.qty, course |-> x.course, fired |-> x.fired]
      /\ x.qty \in 1..MaxQty /\ x.course \in Courses /\ x.fired \in {FALSE}
  BY DEF Contents
<1>2. x.qty \in 0..MaxQty
  BY <1>1, SavesAssumption
<1>3. x.fired \in BOOLEAN
  BY <1>1
<1> QED
  BY <1>1, <1>2, <1>3 DEF ItemType

LEMMA NoRowIs == NoRow \in Rows
BY NoItemIs DEF NoRow, Rows

LEMMA TicketsTyped ==
  ASSUME TypeOK, NEW t \in Tills, NEW o \in Orders, NEW kind \in {"order", "void"},
         NEW sale \in Versions, NEW items \in Items, NEW L, saves + 1 \in Versions,
         Ticket(t, o, kind, sale, items, L)
  PROVE  tickets' \subseteq Tickets
<1>1. UnitsOf(items, L) \in Units
  BY SavesAssumption DEF UnitsOf, Units, Items
<1> QED
  BY <1>1 DEF Ticket, Tickets, TypeOK

\* What an edit makes of a line: it keeps it, takes it off, or has it unsent, if
\* it was there or nobody has drawn it.
LEMMA EditsLine ==
  ASSUME NEW items \in Items, NEW wanted \in Edits(items)
  PROVE  /\ wanted = [l \in Lines |-> wanted[l]]
         /\ \A l \in Lines : \/ wanted[l] \in {items[l], NoItem}
                             \/ wanted[l] \in Contents /\ l \in On(items) \cup Fresh
<1> DEFINE lines == {p \in [Lines \ Combo -> Contents \cup {NoItem} \cup {items[l] : l \in Lines}] :
                       \A l \in Lines \ Combo :
                         \/ p[l] = items[l]
                         \/ l \in On(items) /\ p[l] \in Contents \cup {NoItem}
                         \/ l \in Fresh /\ p[l] \in Contents}
           added == {[l \in Combo |-> x] : x \in IF Combo \subseteq Fresh
                                               THEN {c \in Contents : c.qty = 1} ELSE {}}
           combos == {[l \in Combo |-> items[l]], [l \in Combo |-> NoItem]} \cup added
           both(p, c) == [l \in Lines |-> IF l \in Combo THEN c[l] ELSE p[l]]
<1>1. wanted \in {both(p, c) : p \in lines, c \in combos}
  BY DEF Edits
<1> HIDE DEF both, combos
<1>2. PICK p \in lines, c \in combos : wanted = both(p, c)
  BY <1>1
<1>3. ASSUME NEW l \in Combo
      PROVE  \/ c[l] \in {items[l], NoItem}
             \/ c[l] \in Contents /\ l \in Fresh
  <2>1. CASE c \in added
    <3>1. PICK x \in Contents : Combo \subseteq Fresh /\ c = [m \in Combo |-> x]
      BY <2>1
    <3> QED
      BY <1>3, <3>1
  <2>2. CASE c \notin added
    BY <1>3, <2>2 DEF combos
  <2> QED
    BY <2>1, <2>2
<1>4. \A l \in Lines \ Combo : \/ p[l] \in {items[l], NoItem}
                               \/ p[l] \in Contents /\ l \in On(items) \cup Fresh
  OBVIOUS
<1> HIDE DEF lines, added
<1>5. \A l \in Lines : wanted[l] = IF l \in Combo THEN c[l] ELSE p[l]
  BY <1>2 DEF both
<1>6. wanted = [l \in Lines |-> wanted[l]]
  BY <1>2 DEF both
<1> QED
  BY <1>3, <1>4, <1>5, <1>6

\* An edit asks for lines that are there and for lines nobody has drawn.
LEMMA EditsAre ==
  ASSUME NEW items \in Items, NEW wanted \in Edits(items)
  PROVE  wanted \in Items /\ On(wanted) \subseteq On(items) \cup Fresh
<1>1. \A l \in Lines : \/ wanted[l] \in {items[l], NoItem}
                       \/ wanted[l] \in Contents /\ l \in On(items) \cup Fresh
  BY EditsLine
<1>2. \A l \in Lines : wanted[l] \in ItemType
  BY <1>1, ContentsAre, NoItemIs DEF Items, ItemType
<1>3. wanted \in Items
  BY <1>2, EditsLine DEF Items, ItemType
<1>4. ASSUME NEW l \in On(wanted) PROVE l \in On(items) \cup Fresh
  BY <1>1, <1>4, NoItemIs DEF On
<1> QED
  BY <1>3, <1>4

LEMMA RowEdited ==
  ASSUME NEW row \in Rows, NEW items \in Items
  PROVE  /\ [row EXCEPT !.items = items] \in Rows
         /\ [row EXCEPT !.items = items].items = items
         /\ [row EXCEPT !.items = items].status = row.status
         /\ [row EXCEPT !.items = items].table = row.table
         /\ [row EXCEPT !.items = items].bills = row.bills
BY DEF Rows

-----------------------------------------------------------------------------
(* The commands keep the invariant.                                         *)

\* An edit that sells nothing.
LEMMA EditKeeps ==
  ASSUME RowsInv, NEW t \in Tills, NEW o \in Orders, NEW row, Saved(t, o, row),
         UNCHANGED <<sales, voided>>, OnlyFresh(t, o, row),
         o \notin forked' => row.bills = Row(t, o).bills,
         tickets' \subseteq Tickets, blind \subseteq blind', blind' \subseteq Tables,
         Alone(o, row)
  PROVE  RowsInv'
<1>1. TypeOK /\ BillsAddUp /\ OneOrderPerTable /\ hist[0] = NoRow /\ PaidWasOn
  BY Parts
<1>2. PaidWasOn' /\ BillsAddUp' /\ OneOrderPerTable'
  BY <1>1, PaidWasOnKept, BillsKept, TablesKept
<1>3. hist'[0] = NoRow
  BY <1>1, SavedRows, Numbers
<1>4. TypeOK'
  BY <1>1, SavedTypes DEF TypeOK
<1> QED
  BY <1>2, <1>3, <1>4 DEF RowsInv, PaidWasOn

LEMMA OpenKeeps ==
  ASSUME RowsInv, NEW t \in Tills, NEW o \in Orders, NEW tb \in Tables \cup {NoTable},
         Open(t, o, tb)
  PROVE  RowsInv'
<1> DEFINE row == [NoRow EXCEPT !.status = "open", !.table = tb]
<1>1. row \in Rows /\ row.table = tb /\ row.bills = {} /\ row.items = NoItems
  BY NoRowIs DEF Rows, NoRow
<1>2. TypeOK /\ hist[0] = NoRow
  BY Parts
<1>3. Saved(t, o, row)
  BY <1>1, <1>2, SaveIs DEF Open
<1> HIDE DEF row
<1>4. On(row.items) = {}
  BY <1>1, NoItemIs DEF On, NoItems
<1>5. o \notin forked' => row.bills = Row(t, o).bills
  BY <1>1, <1>2, <1>3, SavedRows DEF Open, Newest, NoRow
<1>6. Alone(o, row)
  BY <1>1, <1>2, <1>3, SeatedAlone DEF Open
<1>7. blind \subseteq blind' /\ blind' \subseteq Tables
  BY <1>2, SeatBlind DEF Open, TypeOK
<1>8. tickets' \subseteq Tickets
  BY <1>2 DEF Open, TypeOK
<1> QED
  BY <1>3, <1>4, <1>5, <1>6, <1>7, <1>8, EditKeeps DEF Open, OnlyFresh

LEMMA UpdateKeeps ==
  ASSUME RowsInv, NEW t \in Tills, NEW o \in Orders, NEW tb \in Tables \cup {NoTable},
         Update(t, o, tb)
  PROVE  RowsInv'
<1> DEFINE old == Row(t, o)
<1>1. TypeOK /\ OneOrderPerTable
  BY Parts
<1>2. old \in Rows /\ old.items \in Items /\ hist[seen[t][o]].items = old.items
  BY <1>1, Numbers DEF Update, VersionHolds, Row, Rows
<1>3. PICK wanted \in Edits(old.items) :
        LET items == [l \in Lines |-> IF SameContent(old.items[l], wanted[l])
                                      THEN old.items[l] ELSE wanted[l]]
        IN  /\ Save(t, o, [old EXCEPT !.table = tb, !.items = items])
            /\ Ticket(t, o, "void", 0, old.items, CalledOff(old.items, wanted))
  BY <1>2 DEF Update
<1> DEFINE items == [l \in Lines |-> IF SameContent(old.items[l], wanted[l])
                                     THEN old.items[l] ELSE wanted[l]]
           row == [old EXCEPT !.table = tb, !.items = items]
<1> HIDE DEF old
<1>4. wanted \in Items /\ On(wanted) \subseteq On(old.items) \cup Fresh
  BY <1>2, EditsAre
<1>5. items \in Items
  BY <1>2, <1>4 DEF Items
<1>6. On(items) \subseteq On(old.items) \cup Fresh
  <2>1. \A l \in Lines : items[l] = old.items[l] \/ items[l] = wanted[l]
    OBVIOUS
  <2> HIDE DEF items
  <2> QED
    BY <1>4, <2>1 DEF On
<1>7. Save(t, o, row) /\ Ticket(t, o, "void", 0, old.items, CalledOff(old.items, wanted))
  BY <1>3
<1> HIDE DEF items
<1>8. row \in Rows /\ row.items = items /\ row.table = tb /\ row.bills = old.bills
  BY <1>2, <1>5 DEF Rows
<1> HIDE DEF row
<1>9. Saved(t, o, row)
  BY <1>1, <1>7, <1>8, SaveIs
<1>10. OnlyFresh(t, o, row)
  BY <1>6, <1>8 DEF OnlyFresh, old
<1>11. 0 \in Versions /\ saves + 1 \in Versions
  BY <1>9, SavesAssumption DEF Saved, Versions
<1>12. tickets' \subseteq Tickets
  BY <1>1, <1>2, <1>7, <1>11, TicketsTyped
<1>13. blind \subseteq Tables
  BY <1>1 DEF TypeOK
<1>14. Alone(o, row) /\ blind \subseteq blind' /\ blind' \subseteq Tables
  <2>1. CASE tb = old.table
    <3>1. blind' = blind /\ IsOpen(t, o)
      BY <2>1 DEF Update, old
    <3> QED
      BY <1>1, <1>8, <1>9, <1>13, <2>1, <3>1, StaysAlone DEF old
  <2>2. CASE tb # old.table
    <3>1. Seat(t, o, tb) /\ (tb # NoTable => TableFree(t, tb, o))
      BY <2>2 DEF Update, old
    <3> QED
      BY <1>1, <1>8, <1>9, <1>13, <3>1, SeatedAlone, SeatBlind
  <2> QED
    BY <2>1, <2>2
<1>15. UNCHANGED <<sales, voided>>
  BY DEF Update
<1> QED
  BY <1>8, <1>9, <1>10, <1>12, <1>14, <1>15, EditKeeps DEF old

LEMMA SplitLineKeeps ==
  ASSUME RowsInv, NEW t \in Tills, NEW o \in Orders, NEW l \in Lines, SplitLine(t, o, l)
  PROVE  RowsInv'
<1> DEFINE old == Row(t, o)
<1>1. TypeOK /\ OneOrderPerTable
  BY Parts
<1>2. old \in Rows /\ old.items \in Items
  BY <1>1, Numbers DEF Rows
<1>3. PICK new : /\ new \subseteq Fresh
                 /\ Save(t, o, [old EXCEPT !.items = SplitItems(old.items, l, new)])
  BY DEF SplitLine, kSubset
<1>4. l \in On(old.items) /\ IsOpen(t, o) /\ UNCHANGED <<sales, voided, tickets, blind>>
  BY DEF SplitLine
<1> DEFINE items == SplitItems(old.items, l, new)
           row == [old EXCEPT !.items = items]
<1> HIDE DEF old
<1>5. old.items[l] \in ItemType
  BY <1>2 DEF Items, ItemType
<1>6. [old.items[l] EXCEPT !.qty = 1] \in ItemType
  BY <1>5, SavesAssumption DEF ItemType
<1>7. items \in Items
  BY <1>2, <1>6 DEF SplitItems, Items, ItemType
<1>8. On(items) \subseteq On(old.items) \cup Fresh
  BY <1>3, <1>4 DEF SplitItems, On
<1> HIDE DEF items
<1>9. /\ row \in Rows /\ row.items = items /\ row.status = old.status
      /\ row.table = old.table /\ row.bills = old.bills
  BY <1>2, <1>7, RowEdited
<1>10. Save(t, o, row)
  BY <1>3 DEF items
<1> HIDE DEF row
<1>11. Saved(t, o, row)
  BY <1>1, <1>9, <1>10, SaveIs
<1>12. OnlyFresh(t, o, row)
  BY <1>8, <1>9 DEF OnlyFresh, old
<1>13. Alone(o, row)
  BY <1>1, <1>4, <1>9, <1>11, StaysAlone DEF old
<1> QED
  BY <1>1, <1>4, <1>9, <1>11, <1>12, <1>13, EditKeeps DEF TypeOK, old

LEMMA FireKeeps ==
  ASSUME RowsInv, NEW t \in Tills, NEW o \in Orders, NEW c, Fire(t, o, c)
  PROVE  RowsInv'
<1> DEFINE old == Row(t, o)
           chosen == {l \in On(old.items) \ Fired(old.items) : c \in {0, old.items[l].course}}
           items == [l \in Lines |-> [old.items[l] EXCEPT !.fired = @ \/ l \in chosen]]
           row == [old EXCEPT !.items = items]
<1>1. TypeOK /\ OneOrderPerTable
  BY Parts
<1>2. old \in Rows /\ old.items \in Items
  BY <1>1, Numbers DEF Rows
<1>3. /\ IsOpen(t, o) /\ Save(t, o, row) /\ Ticket(t, o, "order", 0, old.items, chosen)
      /\ UNCHANGED <<sales, voided, blind>>
  BY DEF Fire
<1> HIDE DEF old, chosen
<1>4. \A l \in Lines : items[l] \in ItemType /\ items[l].qty = old.items[l].qty
  <2> SUFFICES ASSUME NEW l \in Lines
               PROVE  LET x == [old.items[l] EXCEPT !.fired = @ \/ l \in chosen]
                      IN  x \in ItemType /\ x.qty = old.items[l].qty
    OBVIOUS
  <2>1. old.items[l] \in ItemType
    BY <1>2 DEF Items, ItemType
  <2>2. (old.items[l].fired \/ l \in chosen) \in BOOLEAN
    OBVIOUS
  <2> QED
    BY <2>1, <2>2 DEF ItemType
<1>5. items \in Items
  BY <1>4 DEF Items, ItemType
<1>6. On(items) \subseteq On(old.items)
  BY <1>4 DEF On
<1> HIDE DEF items
<1>7. /\ row \in Rows /\ row.items = items /\ row.status = old.status
      /\ row.table = old.table /\ row.bills = old.bills
  BY <1>2, <1>5, RowEdited
<1> HIDE DEF row
<1>8. Saved(t, o, row)
  BY <1>1, <1>3, <1>7, SaveIs
<1>9. OnlyFresh(t, o, row)
  BY <1>6, <1>7 DEF OnlyFresh, old
<1>10. Alone(o, row)
  BY <1>1, <1>3, <1>7, <1>8, StaysAlone DEF old
<1>11. 0 \in Versions /\ saves + 1 \in Versions
  BY <1>8, SavesAssumption DEF Saved, Versions
<1>12. tickets' \subseteq Tickets
  BY <1>1, <1>2, <1>3, <1>11, TicketsTyped
<1> QED
  BY <1>1, <1>3, <1>7, <1>8, <1>9, <1>10, <1>12, EditKeeps DEF TypeOK, old

LEMMA CancelKeeps ==
  ASSUME RowsInv, NEW t \in Tills, NEW o \in Orders, Cancel(t, o)
  PROVE  RowsInv'
<1> DEFINE old == Row(t, o)
           row == [old EXCEPT !.status = "cancelled"]
<1>1. TypeOK /\ OneOrderPerTable
  BY Parts
<1>2. old \in Rows /\ old.items \in Items
  BY <1>1, Numbers DEF Rows
<1>3. /\ Save(t, o, row) /\ Ticket(t, o, "void", 0, old.items, Fired(old.items))
      /\ UNCHANGED <<sales, voided, blind>>
  BY DEF Cancel
<1> HIDE DEF old
<1>4. /\ row \in Rows /\ row.items = old.items /\ row.status = "cancelled"
      /\ row.table = old.table /\ row.bills = old.bills
  BY <1>2 DEF Rows
<1> HIDE DEF row
<1>5. Saved(t, o, row)
  BY <1>1, <1>3, <1>4, SaveIs
<1>6. OnlyFresh(t, o, row) /\ Alone(o, row)
  BY <1>4 DEF OnlyFresh, Alone, old
<1>7. 0 \in Versions /\ saves + 1 \in Versions
  BY <1>5, SavesAssumption DEF Saved, Versions
<1>8. tickets' \subseteq Tickets
  BY <1>1, <1>2, <1>3, <1>7, TicketsTyped
<1> QED
  BY <1>1, <1>3, <1>4, <1>5, <1>6, <1>8, EditKeeps DEF TypeOK, old

\* A sale made so far was of lines that were, and still are, on some version.
LEMMA PaidStillOn ==
  ASSUME TypeOK, PaidWasOn, NEW t \in Tills, NEW o \in Orders, NEW row, Saved(t, o, row),
         NEW s \in sales
  PROVE  /\ s.id \in 1..saves' /\ s.id # saves + 1
         /\ \A l \in Lines : s.units[l] > 0 => \E v \in 1..saves' : hist'[v].items[l].qty > 0
<1>1. saves \in Nat /\ saves' = saves + 1
  BY Numbers DEF Saved
<1>2. 1..saves \subseteq 1..saves' /\ 1..saves \subseteq 0..saves /\ saves + 1 \notin 1..saves
  BY <1>1
<1>3. \A v \in 1..saves : hist'[v] = hist[v]
  BY <1>2, SavedRows
<1> QED
  BY <1>2, <1>3 DEF PaidWasOn

\* The bill that is paid, the order without it, and the sale it makes.
LEMMA PayKeeps ==
  ASSUME RowsInv, NEW t \in Tills, NEW o \in Orders, NEW bill, Pay(t, o, bill)
  PROVE  RowsInv'
<1> DEFINE old == Row(t, o)
           left == [l \in Lines |-> IF l \in bill THEN NoItem ELSE old.items[l]]
           row == [old EXCEPT !.items = left, !.bills = @ \cup {saves + 1},
                              !.status = IF On(left) = {} THEN "settled" ELSE "open"]
           sale == [id |-> saves + 1, till |-> t, order |-> o, units |-> UnitsOf(old.items, bill)]
<1>1. TypeOK /\ BillsAddUp /\ OneOrderPerTable /\ hist[0] = NoRow /\ PaidWasOn
  BY Parts
<1>2. old \in Rows /\ old.items \in Items /\ local[t][o] \in 0..saves /\ saves \in Nat
      /\ old = hist[local[t][o]]
  BY <1>1, Numbers DEF Rows, Row
<1>3. /\ IsOpen(t, o) /\ Save(t, o, row) /\ bill \subseteq On(old.items)
      /\ sales' = sales \cup {sale} /\ UNCHANGED <<voided, blind>>
      /\ Ticket(t, o, "order", saves + 1, old.items, bill \ Fired(old.items))
  BY DEF Pay
<1>4. local[t][o] \in 1..saves
  <2>1. local[t][o] # 0
    BY <1>1, <1>3 DEF IsOpen, Row, NoRow
  <2> QED
    BY <1>2, <2>1
<1>5. saves + 1 \in Versions
  BY <1>2, <1>3, SavesAssumption DEF Save, Versions
<1>6. left \in Items
  BY <1>2, NoItemIs DEF Items, ItemType
<1>7. /\ \A l \in Lines : l \in On(left) => l \in On(old.items) /\ l \notin bill
      /\ \A l \in bill : old.items[l].qty > 0
  <2>1. \A l \in Lines : left[l] = IF l \in bill THEN NoItem ELSE old.items[l]
    OBVIOUS
  <2> HIDE DEF left, old
  <2> QED
    BY <1>3, <2>1, NoItemIs DEF On
<1> HIDE DEF old, left
<1>8. /\ row \in Rows /\ row.items = left /\ row.table = old.table
      /\ row.bills = old.bills \cup {saves + 1}
  BY <1>2, <1>5, <1>6 DEF Rows
<1> HIDE DEF row
<1>9. Saved(t, o, row)
  BY <1>1, <1>3, <1>8, SaveIs
<1>10. \A l \in Lines : sale.units[l] = IF l \in bill THEN old.items[l].qty ELSE 0
  BY DEF UnitsOf
<1>11. sale.id = saves + 1 /\ sale.order = o /\ sale \in Sales
  <2>1. UnitsOf(old.items, bill) \in Units
    BY <1>2, SavesAssumption DEF UnitsOf, Units, Items
  <2> QED
    BY <1>5, <2>1 DEF Sales
<1> HIDE DEF sale
<1>12. PaidWasOn'
  <2> SUFFICES ASSUME NEW s \in sales \cup {sale}
               PROVE  /\ s.id \in 1..saves'
                      /\ \A l \in Lines : s.units[l] > 0 =>
                           \E v \in 1..saves' : hist'[v].items[l].qty > 0
    BY <1>3 DEF PaidWasOn
  <2>1. CASE s \in sales
    BY <1>1, <1>9, <2>1, PaidStillOn
  <2>2. CASE s = sale
    <3>1. saves' = saves + 1
      BY <1>9 DEF Saved
    <3>2. local[t][o] \in 1..saves' /\ saves + 1 \in 1..saves' /\ local[t][o] \in 0..saves
      BY <1>2, <1>4, <3>1
    <3>3. hist'[local[t][o]] = old
      BY <1>1, <1>2, <1>9, <3>2, SavedRows
    <3>4. ASSUME NEW l \in Lines, sale.units[l] > 0 PROVE hist'[local[t][o]].items[l].qty > 0
      BY <1>7, <1>10, <3>3, <3>4
    <3> QED
      BY <1>11, <2>2, <3>2, <3>4
  <2> QED
    BY <2>1, <2>2
<1>13. BillsAddUp'
  <2>1. \A p \in Orders : hist'[newest'[p]] = IF p = o THEN row ELSE hist[newest[p]]
    BY <1>1, <1>9, NewestAfter
  <2>2. forked \subseteq forked' /\ (o \notin forked' => old = Newest(o))
    BY <1>1, <1>9, SavedRows DEF old
  <2> DEFINE made(p) == {s \in sales \cup {sale} : s.order = p}
  <2> SUFFICES ASSUME NEW p \in Orders \ forked'
               PROVE  /\ hist'[newest'[p]].bills = {s.id : s \in made(p)}
                      /\ \A s \in made(p) : \A l \in Lines :
                           s.units[l] > 0 =>
                             /\ l \notin On(hist'[newest'[p]].items)
                             /\ \A r \in made(p) \ {s} : r.units[l] = 0
    BY <1>3 DEF BillsAddUp, SalesOf, Newest
  <2>3. /\ Newest(p).bills = {s.id : s \in SalesOf(p)}
        /\ \A s \in SalesOf(p) : \A l \in Lines :
             s.units[l] > 0 =>
               /\ l \notin On(Newest(p).items)
               /\ \A r \in SalesOf(p) \ {s} : r.units[l] = 0
    BY <1>1, <2>2 DEF BillsAddUp
  <2>4. made(p) = IF p = o THEN SalesOf(p) \cup {sale} ELSE SalesOf(p)
    BY <1>11 DEF SalesOf
  <2>5. CASE p # o
    BY <2>1, <2>3, <2>4, <2>5 DEF Newest
  <2>6. CASE p = o
    <3>1. old = Newest(p) /\ hist'[newest'[p]] = row /\ made(p) = SalesOf(p) \cup {sale}
      BY <2>1, <2>2, <2>4, <2>6
    <3>2. row.bills = {s.id : s \in made(p)}
      BY <1>8, <1>11, <2>3, <3>1
    <3>3. ASSUME NEW s \in SalesOf(p), NEW l \in Lines, s.units[l] > 0
          PROVE  l \notin On(old.items) /\ l \notin On(left) /\ sale.units[l] = 0
      BY <1>3, <1>7, <1>10, <2>3, <3>1, <3>3
    <3>4. ASSUME NEW l \in Lines, sale.units[l] > 0
          PROVE  l \notin On(left) /\ l \in On(old.items)
      BY <1>3, <1>7, <1>10, <3>4
    <3>5. \A r \in SalesOf(p), l \in Lines : r.units[l] \in Nat
      BY <1>1, SavesAssumption DEF SalesOf, TypeOK, Sales, Units
    <3>6. ASSUME NEW r \in SalesOf(p), NEW l \in Lines, sale.units[l] > 0
          PROVE  r.units[l] = 0
      BY <3>3, <3>4, <3>5, <3>6
    <3>7. ASSUME NEW s \in made(p), NEW l \in Lines, s.units[l] > 0
          PROVE  /\ l \notin On(left)
                 /\ \A r \in made(p) \ {s} : r.units[l] = 0
      <4>1. CASE s \in SalesOf(p)
        BY <2>3, <3>1, <3>3, <3>7, <4>1
      <4>2. CASE s = sale
        BY <3>1, <3>4, <3>6, <3>7, <4>2
      <4> QED
        BY <3>1, <4>1, <4>2
    <3> QED
      BY <1>8, <3>1, <3>2, <3>7
  <2> QED
    BY <2>5, <2>6
<1>14. OneOrderPerTable'
  BY <1>1, <1>3, <1>8, <1>9, StaysAlone, TablesKept DEF old
<1>15. hist'[0] = NoRow
  BY <1>1, <1>9, SavedRows, Numbers
<1>16. tickets' \subseteq Tickets
  BY <1>1, <1>2, <1>3, <1>5, TicketsTyped
<1>17. TypeOK'
  BY <1>1, <1>3, <1>9, <1>11, <1>16, SavedTypes DEF TypeOK
<1> QED
  BY <1>12, <1>13, <1>14, <1>15, <1>17 DEF RowsInv, PaidWasOn

\* What leaves the rows and the sales alone.
LEMMA RowsKept ==
  ASSUME RowsInv, UNCHANGED <<hist, saves, newest, sales, forked, blind>>, TypeOK'
  PROVE  RowsInv'
<1>1. BillsAddUp /\ OneOrderPerTable /\ hist[0] = NoRow /\ PaidWasOn
  BY Parts
<1>2. BillsAddUp'
  BY <1>1 DEF BillsAddUp, Newest, SalesOf
<1>3. OneOrderPerTable'
  BY <1>1 DEF OneOrderPerTable, Newest
<1>4. PaidWasOn' /\ hist'[0] = NoRow
  BY <1>1 DEF PaidWasOn
<1> QED
  BY <1>2, <1>3, <1>4 DEF RowsInv, PaidWasOn

LEMMA VoidSaleKeeps ==
  ASSUME RowsInv, NEW t \in Tills, NEW s \in sales, VoidSale(t, s)
  PROVE  RowsInv'
<1>1. TypeOK
  BY Parts
<1>2. voided' \subseteq {r.id : r \in sales}
  BY <1>1 DEF VoidSale, TypeOK
<1>3. ASSUME NEW k \in tickets PROVE [k EXCEPT !.kind = "void", !.till = t] \in Tickets
  <2>1. k \in Tickets
    BY <1>1 DEF TypeOK
  <2> QED
    BY <2>1 DEF Tickets
<1>4. tickets' \subseteq Tickets
  BY <1>1, <1>3 DEF VoidSale, TypeOK
<1>5. TypeOK'
  BY <1>1, <1>2, <1>4 DEF VoidSale, TypeOK
<1> QED
  BY <1>5, RowsKept DEF VoidSale

LEMMA ReloadKeeps ==
  ASSUME RowsInv, NEW t \in Tills, NEW o \in Orders, Reload(t, o)
  PROVE  RowsInv'
<1>1. TypeOK
  BY Parts
<1>2. TypeOK'
  BY <1>1 DEF Reload, TypeOK
<1> QED
  BY <1>2, RowsKept DEF Reload

LEMMA SendKeeps ==
  ASSUME RowsInv, NEW t \in Tills, NEW o \in Orders, Send(t, o)
  PROVE  RowsInv'
<1>1. TypeOK
  BY Parts
<1>2. TypeOK'
  BY <1>1 DEF Send, shopVars, TypeOK
<1> QED
  BY <1>2, RowsKept DEF Send, shopVars

LEMMA FetchKeeps ==
  ASSUME RowsInv, NEW t \in Tills, NEW o \in Orders, Fetch(t, o)
  PROVE  RowsInv'
<1>1. TypeOK
  BY Parts
<1>2. TypeOK'
  BY <1>1 DEF Fetch, shopVars, TypeOK
<1> QED
  BY <1>2, RowsKept DEF Fetch, shopVars

-----------------------------------------------------------------------------

LEMMA OrdersInit == Init => RowsInv
<1> SUFFICES ASSUME Init PROVE RowsInv
  OBVIOUS
<1>1. 0 \in Versions /\ 0 \in 0..0 /\ 0 \in Nat
  BY SavesAssumption DEF Versions
<1>2. \A o \in Orders : newest[o] = 0
  BY DEF Init
<1>3. hist[0] = NoRow /\ hist \in [Versions -> Rows]
  BY <1>1, NoRowIs DEF Init
<1>4. newest \in [Orders -> 0..0] /\ local \in [Tills -> [Orders -> 0..0]]
  BY <1>1 DEF Init
<1>5. TypeOK
  BY <1>1, <1>3, <1>4 DEF Init, TypeOK
<1>6. \A o \in Orders : Newest(o) = NoRow
  BY <1>2, <1>3 DEF Newest
<1>7. BillsAddUp
  BY <1>6 DEF Init, BillsAddUp, SalesOf, NoRow
<1>8. OneOrderPerTable
  BY <1>6 DEF OneOrderPerTable, NoRow
<1>9. PaidWasOn
  BY DEF Init, PaidWasOn
<1> QED
  BY <1>3, <1>5, <1>7, <1>8, <1>9 DEF RowsInv, PaidWasOn

LEMMA OrdersStep == RowsInv /\ [Next]_vars => RowsInv'
<1> SUFFICES ASSUME RowsInv, [Next]_vars PROVE RowsInv'
  OBVIOUS
<1>1. ASSUME NEW t \in Tills, NEW o \in Orders, Edit(t, o) PROVE RowsInv'
  <2>1. ASSUME NEW tb \in Tables \cup {NoTable}, Open(t, o, tb) \/ Update(t, o, tb)
        PROVE  RowsInv'
    BY <2>1, OpenKeeps, UpdateKeeps
  <2>2. ASSUME NEW l \in Lines, SplitLine(t, o, l) PROVE RowsInv'
    BY <2>2, SplitLineKeeps
  <2>3. ASSUME NEW c \in Courses \cup {0}, Fire(t, o, c) PROVE RowsInv'
    BY <2>3, FireKeeps
  <2>4. ASSUME Cancel(t, o) PROVE RowsInv'
    BY <2>4, CancelKeeps
  <2>5. ASSUME NEW bill \in Bills(t, o), Pay(t, o, bill) PROVE RowsInv'
    BY <2>5, PayKeeps
  <2> QED
    BY <1>1, <2>1, <2>2, <2>3, <2>4, <2>5 DEF Edit
<1>2. ASSUME NEW t \in Tills, NEW o \in Orders, Reload(t, o) \/ Send(t, o) \/ Fetch(t, o)
      PROVE  RowsInv'
  BY <1>2, ReloadKeeps, SendKeeps, FetchKeeps
<1>3. ASSUME NEW t \in Tills, NEW s \in sales, VoidSale(t, s) PROVE RowsInv'
  BY <1>3, VoidSaleKeeps
<1>4. CASE UNCHANGED vars
  <2>1. TypeOK
    BY Parts
  <2>2. TypeOK'
    BY <1>4, <2>1 DEF vars, shopVars, TypeOK
  <2> QED
    BY <1>4, <2>2, RowsKept DEF vars, shopVars
<1> QED
  BY <1>1, <1>2, <1>3, <1>4 DEF Next

-----------------------------------------------------------------------------
(* The kitchen.                                                             *)

LEMMA UnitsAre ==
  ASSUME NEW items \in Items, NEW L
  PROVE  /\ UnitsOf(items, L) \in Units
         /\ \A l \in Lines : UnitsOf(items, L)[l] \in Int
BY SavesAssumption DEF UnitsOf, Units, Items

LEMMA TotalNat ==
  ASSUME NEW u \in Units
  PROVE  Total(u) \in Nat
<1>1. IsFiniteSet(Lines) /\ \A l \in Lines : u[l] \in Nat
  BY LinesAssumption, SavesAssumption DEF Units
<1> QED
  BY <1>1, SumNat DEF Total

\* Two sets of lines without a line in common.
LEMMA TotalApart ==
  ASSUME NEW items \in Items, NEW L, NEW M, L \cap M = {}
  PROVE  Total(UnitsOf(items, L \cup M)) = Total(UnitsOf(items, L)) + Total(UnitsOf(items, M))
<1> DEFINE f == UnitsOf(items, L)
           g == UnitsOf(items, M)
           h == UnitsOf(items, L \cup M)
<1>1. \A l \in Lines : f[l] \in Int /\ g[l] \in Int
  BY UnitsAre
<1>2. \A l \in Lines : h[l] = f[l] + g[l]
  <2> SUFFICES ASSUME NEW l \in Lines PROVE h[l] = f[l] + g[l]
    OBVIOUS
  <2>1. items[l].qty \in Int
    BY SavesAssumption DEF Items
  <2> QED
    BY <2>1 DEF UnitsOf
<1>3. IsFiniteSet(Lines)
  BY LinesAssumption
<1> HIDE DEF f, g, h
<1>4. SumFunctionOnSet(h, Lines) = SumFunctionOnSet(f, Lines) + SumFunctionOnSet(g, Lines)
  BY <1>1, <1>2, <1>3, SumPlus
<1> QED
  BY <1>4 DEF Total, f, g, h

LEMMA TotalNone ==
  ASSUME NEW items, NEW L, L \cap Lines = {}
  PROVE  Total(UnitsOf(items, L)) = 0
<1>1. IsFiniteSet(Lines) /\ \A l \in Lines : UnitsOf(items, L)[l] = 0
  BY LinesAssumption DEF UnitsOf
<1> QED
  BY <1>1, SumOfNothing DEF Total

\* A ticket or a bill with units on it, which others add to.
LEMMA UnitsOnMore ==
  ASSUME NEW T, IsFiniteSet(T), \A k \in T : k.units \in Units,
         NEW x, x \notin T, x.units \in Units
  PROVE  UnitsOn(T \cup {x}) = UnitsOn(T) + Total(x.units) /\ UnitsOn(T) \in Int
<1> DEFINE f == [k \in T |-> Total(k.units)]
           g == [k \in T \cup {x} |-> Total(k.units)]
<1>1. (\A k \in T : f[k] \in Int /\ g[k] = f[k]) /\ g[x] = Total(x.units) /\ g[x] \in Int
  BY TotalNat
<1>2. \A k \in T : g[k] \in Int
  BY <1>1
<1> HIDE DEF f, g
<1>3. SumFunctionOnSet(g, T \cup {x}) = g[x] + SumFunctionOnSet(g, T)
  BY <1>1, <1>2, SumOneMore
<1>4. SumFunctionOnSet(g, T) = SumFunctionOnSet(f, T)
  BY <1>1, SumSame
<1>5. SumFunctionOnSet(f, T) \in Int
  BY <1>1, SumType
<1> QED
  BY <1>1, <1>3, <1>4, <1>5 DEF UnitsOn, f, g

LEMMA UnitsOnInt ==
  ASSUME NEW T, IsFiniteSet(T), \A k \in T : k.units \in Units
  PROVE  UnitsOn(T) \in Int
<1> DEFINE f == [k \in T |-> Total(k.units)]
<1>1. \A k \in T : f[k] \in Int
  BY TotalNat
<1> HIDE DEF f
<1> QED
  BY <1>1, SumType DEF UnitsOn, f

LEMMA FiniteTickets ==
  ASSUME TypeOK, TicketsInv, NEW o
  PROVE  /\ IsFiniteSet(Told(o)) /\ IsFiniteSet(Recalled(o)) /\ IsFiniteSet(SalesOf(o))
         /\ \A k \in Told(o) \cup Recalled(o) \cup SalesOf(o) : k.units \in Units
         /\ UnitsOn(Told(o)) \in Int /\ UnitsOn(Recalled(o)) \in Int /\ UnitsOn(SalesOf(o)) \in Int
<1>1. IsFiniteSet(Told(o)) /\ IsFiniteSet(Recalled(o)) /\ IsFiniteSet(SalesOf(o))
  BY FS_Subset DEF TicketsInv, Told, Recalled, SalesOf
<1>2. \A k \in Told(o) \cup Recalled(o) \cup SalesOf(o) : k.units \in Units
  BY DEF TypeOK, Told, Recalled, SalesOf, Tickets, Sales
<1> QED
  BY <1>1, <1>2, UnitsOnInt

\* The ticket of an edit: to make (kind "order"), or to call off.
LEMMA TicketCounts ==
  ASSUME TypeOK, TicketsInv, saves \in Nat, saves' = saves + 1, NEW t, NEW o,
         NEW kind \in {"order", "void"}, NEW sale, kind = "void" => sale = 0,
         NEW items \in Items, NEW L, Ticket(t, o, kind, sale, items, L)
  PROVE  /\ IsFiniteSet(tickets') /\ \A k \in tickets' : k.id \in 1..saves'
         /\ \A p : p # o => Told(p)' = Told(p) /\ Recalled(p)' = Recalled(p)
         /\ UnitsOn(Told(o)') = UnitsOn(Told(o))
                                  + IF kind = "order" THEN Total(UnitsOf(items, L)) ELSE 0
         /\ UnitsOn(Recalled(o)') = UnitsOn(Recalled(o))
                                      + IF kind = "void" THEN Total(UnitsOf(items, L)) ELSE 0
<1>1. /\ IsFiniteSet(Told(o)) /\ IsFiniteSet(Recalled(o))
      /\ \A k \in Told(o) \cup Recalled(o) : k.units \in Units
      /\ UnitsOn(Told(o)) \in Int /\ UnitsOn(Recalled(o)) \in Int
  BY FiniteTickets
<1>2. CASE L = {}
  <2>1. tickets' = tickets
    BY <1>2 DEF Ticket
  <2>2. Total(UnitsOf(items, L)) = 0
    BY <1>2, TotalNone
  <2>3. \A p : Told(p)' = Told(p) /\ Recalled(p)' = Recalled(p)
    BY <2>1 DEF Told, Recalled
  <2> QED
    BY <1>1, <2>1, <2>2, <2>3 DEF TicketsInv
<1>3. CASE L # {}
  <2> DEFINE k == [id |-> saves + 1, till |-> t, kind |-> kind, order |-> o,
                   sale |-> sale, units |-> UnitsOf(items, L)]
  <2>1. tickets' = tickets \cup {k}
    BY <1>3 DEF Ticket
  <2>2. k \notin tickets
    BY DEF TicketsInv
  <2>3. IsFiniteSet(tickets')
    BY <2>1, FS_AddElement DEF TicketsInv
  <2>4. \A j \in tickets' : j.id \in 1..saves'
    BY <2>1 DEF TicketsInv
  <2>5. \A p : p # o => Told(p)' = Told(p) /\ Recalled(p)' = Recalled(p)
    BY <2>1 DEF Told, Recalled
  <2>6. k.units \in Units /\ k.units = UnitsOf(items, L) /\ k.kind = kind /\ k.sale = sale /\ k.order = o
    BY UnitsAre
  <2>7. Total(k.units) \in Nat
    BY <2>6, TotalNat
  <2> HIDE DEF k
  <2>8. CASE kind = "order"
    <3>1. Told(o)' = Told(o) \cup {k} /\ Recalled(o)' = Recalled(o) /\ k \notin Told(o)
      BY <2>1, <2>2, <2>6, <2>8 DEF Told, Recalled
    <3>2. UnitsOn(Told(o) \cup {k}) = UnitsOn(Told(o)) + Total(k.units)
      BY <1>1, <2>6, <3>1, UnitsOnMore
    <3> QED
      BY <1>1, <2>3, <2>4, <2>5, <2>6, <2>8, <3>1, <3>2
  <2>9. CASE kind = "void"
    <3>1. Recalled(o)' = Recalled(o) \cup {k} /\ Told(o)' = Told(o) /\ k \notin Recalled(o)
      BY <2>1, <2>2, <2>6, <2>9 DEF Told, Recalled
    <3>2. UnitsOn(Recalled(o) \cup {k}) = UnitsOn(Recalled(o)) + Total(k.units)
      BY <1>1, <2>6, <3>1, UnitsOnMore
    <3> QED
      BY <1>1, <2>3, <2>4, <2>5, <2>6, <2>9, <3>1, <3>2
  <2> QED
    BY <2>8, <2>9
<1> QED
  BY <1>2, <1>3

LEMMA SentIsNat ==
  ASSUME NEW row \in Rows
  PROVE  SentOf(row) \in Nat
<1>1. row.items \in Items
  BY DEF Rows
<1> QED
  BY <1>1, UnitsAre, TotalNat DEF SentOf

\* An edit of o that sells nothing keeps the balance when what it sends and
\* calls off is what it changes on the row.
LEMMA EditBalances ==
  ASSUME RowsInv, TicketsInv, KitchenBalance, NEW t \in Tills, NEW o \in Orders, NEW row,
         Saved(t, o, row), UNCHANGED sales,
         NEW kind \in {"order", "void"}, NEW items \in Items, NEW L,
         Ticket(t, o, kind, 0, items, L),
         o \notin forked' =>
           SentOf(row) = SentOf(Newest(o)) + (IF kind = "order" THEN Total(UnitsOf(items, L))
                                              ELSE -Total(UnitsOf(items, L)))
  PROVE  TicketsInv' /\ KitchenBalance'
<1>1. TypeOK
  BY Parts
<1>2. saves \in Nat /\ saves' = saves + 1
  BY <1>1, Numbers DEF Saved
<1>3. /\ IsFiniteSet(tickets') /\ \A k \in tickets' : k.id \in 1..saves'
      /\ \A p : p # o => Told(p)' = Told(p) /\ Recalled(p)' = Recalled(p)
      /\ UnitsOn(Told(o)') = UnitsOn(Told(o))
                               + IF kind = "order" THEN Total(UnitsOf(items, L)) ELSE 0
      /\ UnitsOn(Recalled(o)') = UnitsOn(Recalled(o))
                                   + IF kind = "void" THEN Total(UnitsOf(items, L)) ELSE 0
  BY <1>1, <1>2, TicketCounts
<1>4. TicketsInv'
  BY <1>3 DEF TicketsInv
<1>5. forked \subseteq forked'
  BY <1>1, SavedRows
<1>6. \A p \in Orders : Newest(p)' = IF p = o THEN row ELSE Newest(p)
  BY <1>1, NewestAfter DEF Newest
<1>7. \A p : SalesOf(p)' = SalesOf(p)
  BY DEF SalesOf
<1> SUFFICES ASSUME NEW p \in Orders \ forked'
             PROVE  UnitsOn(Told(p)') - UnitsOn(Recalled(p)')
                      = SentOf(Newest(p)') + UnitsOn(SalesOf(p)')
  BY <1>4 DEF KitchenBalance
<1>8. UnitsOn(Told(p)) - UnitsOn(Recalled(p)) = SentOf(Newest(p)) + UnitsOn(SalesOf(p))
  BY <1>5 DEF KitchenBalance
<1>9. CASE p # o
  BY <1>3, <1>6, <1>7, <1>8, <1>9
<1>10. CASE p = o
  <2>1. /\ UnitsOn(Told(o)) \in Int /\ UnitsOn(Recalled(o)) \in Int /\ UnitsOn(SalesOf(o)) \in Int
    BY <1>1, FiniteTickets
  <2>2. Total(UnitsOf(items, L)) \in Nat
    BY UnitsAre, TotalNat
  <2>3. SentOf(Newest(o)) \in Int
    BY <1>1, Numbers, SentIsNat
  <2>4. Newest(o)' = row /\ SalesOf(o)' = SalesOf(o)
    BY <1>6, <1>7
  <2> QED
    BY <1>3, <1>8, <1>10, <2>1, <2>2, <2>3, <2>4
<1> QED
  BY <1>9, <1>10

\* An edit with no ticket is one with no lines on it.
LEMMA NoTicket ==
  ASSUME UNCHANGED tickets, NEW t, NEW o, NEW items
  PROVE  Ticket(t, o, "order", 0, items, {})
BY DEF Ticket

LEMMA OpenBalances ==
  ASSUME RowsInv, TicketsInv, KitchenBalance, NEW t \in Tills, NEW o \in Orders,
         NEW tb \in Tables \cup {NoTable}, Open(t, o, tb)
  PROVE  TicketsInv' /\ KitchenBalance'
<1> DEFINE row == [NoRow EXCEPT !.status = "open", !.table = tb]
<1>1. row \in Rows /\ row.items = NoItems
  BY NoRowIs DEF Rows, NoRow
<1>2. TypeOK /\ hist[0] = NoRow /\ newest[o] = 0
  BY Parts DEF Open
<1>3. Saved(t, o, row)
  BY <1>1, <1>2, SaveIs DEF Open
<1> HIDE DEF row
<1>4. Fired(NoItems) = {} /\ NoItems \in Items
  BY NoItemIs DEF Fired, On, NoItems
<1>5. SentOf(row) = 0 /\ SentOf(Newest(o)) = 0
  BY <1>1, <1>2, <1>4, TotalNone DEF SentOf, Newest, NoRow
<1>6. Total(UnitsOf(NoItems, {})) = 0
  BY TotalNone
<1>7. UNCHANGED sales /\ Ticket(t, o, "order", 0, NoItems, {})
  BY NoTicket DEF Open
<1> QED
  BY <1>3, <1>4, <1>5, <1>6, <1>7, EditBalances

\* What an edit changes of a sent line it takes as it is on the screen, unsent.
LEMMA EditsUnsent ==
  ASSUME NEW items \in Items, NEW wanted \in Edits(items), NEW l \in Lines,
         ~SameContent(items[l], wanted[l])
  PROVE  ~wanted[l].fired
<1>1. wanted[l] = NoItem \/ wanted[l] \in Contents
  BY EditsLine DEF SameContent
<1>2. CASE wanted[l] = NoItem
  BY <1>2 DEF NoItem
<1>3. CASE wanted[l] \in Contents
  BY <1>3 DEF Contents
<1> QED
  BY <1>1, <1>2, <1>3

LEMMA UpdateBalances ==
  ASSUME RowsInv, TicketsInv, KitchenBalance, NEW t \in Tills, NEW o \in Orders,
         NEW tb \in Tables \cup {NoTable}, Update(t, o, tb)
  PROVE  TicketsInv' /\ KitchenBalance'
<1> DEFINE old == Row(t, o)
<1>1. TypeOK
  BY Parts
<1>2. old \in Rows /\ old.items \in Items /\ hist[seen[t][o]].items = old.items
  BY <1>1, Numbers DEF Update, VersionHolds, Row, Rows
<1>3. PICK wanted \in Edits(old.items) :
        LET items == [l \in Lines |-> IF SameContent(old.items[l], wanted[l])
                                      THEN old.items[l] ELSE wanted[l]]
        IN  /\ Save(t, o, [old EXCEPT !.table = tb, !.items = items])
            /\ Ticket(t, o, "void", 0, old.items, CalledOff(old.items, wanted))
  BY <1>2 DEF Update
<1> DEFINE items == [l \in Lines |-> IF SameContent(old.items[l], wanted[l])
                                     THEN old.items[l] ELSE wanted[l]]
           row == [old EXCEPT !.table = tb, !.items = items]
           off == CalledOff(old.items, wanted)
<1>4. old.status = "open" /\ UNCHANGED sales
  BY DEF Update, IsOpen
<1> HIDE DEF old
<1>5. wanted \in Items
  BY <1>2, EditsAre
<1>6. items \in Items
  BY <1>2, <1>5 DEF Items
<1>7. Save(t, o, row) /\ Ticket(t, o, "void", 0, old.items, off)
  BY <1>3
<1>8. \A l \in Lines : ~SameContent(old.items[l], wanted[l]) => ~wanted[l].fired
  BY <1>2, EditsUnsent
<1>9. off = {l \in Fired(old.items) : ~SameContent(old.items[l], wanted[l])}
  BY DEF CalledOff
<1> HIDE DEF off
<1>10. UnitsOf(items, Fired(items)) = UnitsOf(old.items, Fired(old.items) \ off)
  <2>1. \A l \in Lines : l \in Fired(items) <=> l \in Fired(old.items) \ off
    BY <1>8, <1>9 DEF Fired, On
  <2>2. \A l \in Lines : l \in Fired(items) => items[l] = old.items[l]
    BY <1>8 DEF Fired, On
  <2> HIDE DEF items
  <2> QED
    BY <2>1, <2>2 DEF UnitsOf
<1> HIDE DEF items
<1>11. row \in Rows /\ row.items = items /\ row.status = "open"
  BY <1>2, <1>4, <1>6 DEF Rows
<1> HIDE DEF row
<1>12. Saved(t, o, row)
  BY <1>1, <1>7, <1>11, SaveIs
<1>13. o \notin forked' => Newest(o) = old
  BY <1>1, <1>12, SavedRows DEF old
<1>14. Total(UnitsOf(old.items, Fired(old.items)))
         = Total(UnitsOf(old.items, Fired(old.items) \ off)) + Total(UnitsOf(old.items, off))
  <2>1. (Fired(old.items) \ off) \cup off = Fired(old.items)
    BY <1>9
  <2>2. (Fired(old.items) \ off) \cap off = {}
    OBVIOUS
  <2> QED
    BY <1>2, <2>1, <2>2, TotalApart
<1>15. /\ Total(UnitsOf(old.items, Fired(old.items) \ off)) \in Nat
       /\ Total(UnitsOf(old.items, off)) \in Nat
  BY <1>2, UnitsAre, TotalNat
<1>16. o \notin forked' => SentOf(row) = SentOf(Newest(o)) + (-Total(UnitsOf(old.items, off)))
  BY <1>4, <1>10, <1>11, <1>13, <1>14, <1>15 DEF SentOf
<1> QED
  BY <1>2, <1>4, <1>7, <1>12, <1>16, EditBalances

LEMMA CancelBalances ==
  ASSUME RowsInv, TicketsInv, KitchenBalance, NEW t \in Tills, NEW o \in Orders, Cancel(t, o)
  PROVE  TicketsInv' /\ KitchenBalance'
<1> DEFINE old == Row(t, o)
           row == [old EXCEPT !.status = "cancelled"]
<1>1. TypeOK
  BY Parts
<1>2. old \in Rows /\ old.items \in Items
  BY <1>1, Numbers DEF Rows
<1>3. /\ Save(t, o, row) /\ Ticket(t, o, "void", 0, old.items, Fired(old.items))
      /\ UNCHANGED sales /\ old.status = "open"
  BY DEF Cancel, IsOpen
<1> HIDE DEF old
<1>4. row \in Rows /\ row.status = "cancelled"
  BY <1>2 DEF Rows
<1> HIDE DEF row
<1>5. Saved(t, o, row)
  BY <1>1, <1>3, <1>4, SaveIs
<1>6. o \notin forked' => Newest(o) = old
  BY <1>1, <1>5, SavedRows DEF old
<1>7. Total(UnitsOf(old.items, Fired(old.items))) \in Nat
  BY <1>2, UnitsAre, TotalNat
<1>8. o \notin forked' =>
        SentOf(row) = SentOf(Newest(o)) + (-Total(UnitsOf(old.items, Fired(old.items))))
  BY <1>3, <1>4, <1>6, <1>7 DEF SentOf
<1> QED
  BY <1>2, <1>3, <1>5, <1>8, EditBalances

LEMMA FireBalances ==
  ASSUME RowsInv, TicketsInv, KitchenBalance, NEW t \in Tills, NEW o \in Orders, NEW c,
         Fire(t, o, c)
  PROVE  TicketsInv' /\ KitchenBalance'
<1> DEFINE old == Row(t, o)
           chosen == {l \in On(old.items) \ Fired(old.items) : c \in {0, old.items[l].course}}
           items == [l \in Lines |-> [old.items[l] EXCEPT !.fired = @ \/ l \in chosen]]
           row == [old EXCEPT !.items = items]
<1>1. TypeOK
  BY Parts
<1>2. old \in Rows /\ old.items \in Items
  BY <1>1, Numbers DEF Rows
<1>3. /\ Save(t, o, row) /\ Ticket(t, o, "order", 0, old.items, chosen)
      /\ UNCHANGED sales /\ old.status = "open"
  BY DEF Fire, IsOpen
<1>4. chosen \subseteq On(old.items) \ Fired(old.items)
  OBVIOUS
<1> HIDE DEF old, chosen
<1>5. \A l \in Lines : /\ items[l] \in ItemType /\ items[l].qty = old.items[l].qty
                       /\ items[l].fired = (old.items[l].fired \/ l \in chosen)
  <2> SUFFICES ASSUME NEW l \in Lines
               PROVE  LET x == [old.items[l] EXCEPT !.fired = @ \/ l \in chosen]
                      IN  /\ x \in ItemType /\ x.qty = old.items[l].qty
                          /\ x.fired = (old.items[l].fired \/ l \in chosen)
    OBVIOUS
  <2>1. old.items[l] \in ItemType
    BY <1>2 DEF Items, ItemType
  <2>2. (old.items[l].fired \/ l \in chosen) \in BOOLEAN
    OBVIOUS
  <2> QED
    BY <2>1, <2>2 DEF ItemType
<1>6. items \in Items
  BY <1>5 DEF Items, ItemType
<1> HIDE DEF items
<1>7. UnitsOf(items, Fired(items)) = UnitsOf(old.items, Fired(old.items) \cup chosen)
  <2>1. \A l \in Lines : l \in Fired(items) <=> l \in Fired(old.items) \cup chosen
    BY <1>4, <1>5 DEF Fired, On
  <2> QED
    BY <1>5, <2>1 DEF UnitsOf
<1>8. row \in Rows /\ row.items = items /\ row.status = "open"
  BY <1>2, <1>3, <1>6, RowEdited
<1> HIDE DEF row
<1>9. Saved(t, o, row)
  BY <1>1, <1>3, <1>8, SaveIs
<1>10. o \notin forked' => Newest(o) = old
  BY <1>1, <1>9, SavedRows DEF old
<1>11. Total(UnitsOf(old.items, Fired(old.items) \cup chosen))
         = Total(UnitsOf(old.items, Fired(old.items))) + Total(UnitsOf(old.items, chosen))
  <2>1. Fired(old.items) \cap chosen = {}
    BY <1>4
  <2> QED
    BY <1>2, <2>1, TotalApart
<1>12. o \notin forked' => SentOf(row) = SentOf(Newest(o)) + Total(UnitsOf(old.items, chosen))
  BY <1>3, <1>7, <1>8, <1>10, <1>11 DEF SentOf
<1> QED
  BY <1>2, <1>3, <1>9, <1>12, EditBalances

\* A sent line that is taken apart keeps its units sent.
LEMMA SplitTotal ==
  ASSUME NEW items \in Items, NEW l \in On(items), NEW new, new \subseteq Fresh,
         new \cap On(items) = {}, Cardinality(new) = items[l].qty - 1
  PROVE  LET split == SplitItems(items, l, new)
         IN  Total(UnitsOf(split, Fired(split))) = Total(UnitsOf(items, Fired(items)))
<1> DEFINE split == SplitItems(items, l, new)
           f == UnitsOf(items, Fired(items))
           g == UnitsOf(split, Fired(split))
           n == items[l].qty
           S == new \cup {l}
           D == Lines \ S
<1>1. new \subseteq Lines /\ l \in Lines /\ l \notin new
  BY DEF Fresh, On
<1>2. IsFiniteSet(Lines) /\ IsFiniteSet(new) /\ IsFiniteSet(S) /\ S \in SUBSET Lines /\ IsFiniteSet(D)
  BY <1>1, LinesAssumption, FS_Subset, FS_AddElement, FS_Difference
<1>3. n \in Nat /\ n > 0
  BY SavesAssumption DEF Items, On
<1>4. Cardinality(S) = n
  <2>1. Cardinality(S) = Cardinality(new) + 1
    BY <1>1, <1>2, FS_AddElement
  <2> QED
    BY <1>3, <2>1
<1>5. \A m \in Lines : split[m] = IF m \in S THEN [items[l] EXCEPT !.qty = 1] ELSE items[m]
  BY DEF SplitItems
<1>6. [items[l] EXCEPT !.qty = 1].qty = 1 /\ [items[l] EXCEPT !.qty = 1].fired = items[l].fired
  BY <1>1 DEF Items
<1> HIDE DEF split
<1>7. \A m \in D : g[m] = f[m] /\ f[m] \in Int
  <2> TAKE m \in D
  <2>1. split[m] = items[m] /\ items[m].qty \in Int /\ m \in Lines
    BY <1>5, SavesAssumption DEF Items
  <2> QED
    BY <2>1 DEF UnitsOf, Fired, On
<1>8. \A m \in S : split[m].qty = 1 /\ split[m].fired = items[l].fired
  BY <1>1, <1>5, <1>6
<1>9. \A m \in new : f[m] = 0
  BY <1>1 DEF UnitsOf, Fired
<1>10. SumFunctionOnSet(g, S) = SumFunctionOnSet(f, S) /\ \A m \in S : f[m] \in Int /\ g[m] \in Int
  <2>1. CASE items[l].fired
    <3>1. \A m \in S : g[m] = 1
      <4> TAKE m \in S
      <4>1. m \in Lines /\ split[m].qty = 1 /\ split[m].fired
        BY <1>1, <1>8, <2>1
      <4>2. m \in Fired(split)
        BY <4>1 DEF Fired, On
      <4> QED
        BY <4>1, <4>2 DEF UnitsOf
    <3>2. f[l] = n
      BY <1>1, <2>1 DEF UnitsOf, Fired
    <3>3. S = new \cup {l}
      OBVIOUS
    <3> HIDE DEF f, g, D, S, n
    <3>4. SumFunctionOnSet(g, S) = n
      BY <1>2, <1>4, <3>1, SumOfOnes
    <3>5. SumFunctionOnSet(f, new) = 0
      BY <1>2, <1>9, SumOfNothing
    <3>6. SumFunctionOnSet(f, new \cup {l}) = f[l] + SumFunctionOnSet(f, new)
      BY <1>1, <1>2, <1>3, <1>9, <3>2, SumOneMore
    <3> QED
      BY <1>3, <1>9, <3>1, <3>2, <3>3, <3>4, <3>5, <3>6
  <2>2. CASE ~items[l].fired
    <3>1. \A m \in S : g[m] = 0 /\ f[m] = 0
      BY <1>1, <1>8, <1>9, <2>2 DEF UnitsOf, Fired, On
    <3> HIDE DEF f, g, D, S, n
    <3> QED
      BY <1>2, <3>1, SumOfNothing
  <2> QED
    BY <2>1, <2>2
<1>11. \A m \in Lines : f[m] \in Int /\ g[m] \in Int
  <2>1. \A m \in Lines : m \in S \/ m \in D
    OBVIOUS
  <2> HIDE DEF f, g, D, S
  <2> QED
    BY <1>7, <1>10, <2>1
<1>12. SumFunctionOnSet(g, D) = SumFunctionOnSet(f, D)
  <2> HIDE DEF f, g, D
  <2> QED
    BY <1>2, <1>7, SumSame
<1>13. SumFunctionOnSet(g, Lines) = SumFunctionOnSet(f, Lines)
  <2>1. /\ SumFunctionOnSet(f, Lines) = SumFunctionOnSet(f, S) + SumFunctionOnSet(f, D)
        /\ SumFunctionOnSet(g, Lines) = SumFunctionOnSet(g, S) + SumFunctionOnSet(g, D)
    <3> HIDE DEF f, g, S
    <3> QED
      BY <1>2, <1>11, SumApart
  <2> HIDE DEF f, g, S, D
  <2> QED
    BY <1>10, <1>12, <2>1
<1> QED
  BY <1>13 DEF Total, split

LEMMA SplitLineBalances ==
  ASSUME RowsInv, TicketsInv, KitchenBalance, NEW t \in Tills, NEW o \in Orders, NEW l \in Lines,
         SplitLine(t, o, l)
  PROVE  TicketsInv' /\ KitchenBalance'
<1> DEFINE old == Row(t, o)
<1>1. TypeOK
  BY Parts
<1>2. old \in Rows /\ old.items \in Items /\ local[t][o] \in 0..saves /\ old = hist[local[t][o]]
  BY <1>1, Numbers DEF Rows, Row
<1>3. PICK new : /\ new \subseteq Fresh /\ Cardinality(new) = old.items[l].qty - 1
                 /\ Save(t, o, [old EXCEPT !.items = SplitItems(old.items, l, new)])
  BY DEF SplitLine, kSubset
<1>4. l \in On(old.items) /\ old.status = "open" /\ UNCHANGED <<sales, tickets>>
  BY DEF SplitLine, IsOpen
<1> DEFINE items == SplitItems(old.items, l, new)
           row == [old EXCEPT !.items = items]
<1>5. local[t][o] \in 1..saves
  <2>1. hist[0].status = "none"
    BY Parts DEF NoRow
  <2> QED
    BY <1>1, <1>2, <1>4, <2>1, Numbers
<1>6. new \cap On(old.items) = {}
  BY <1>2, <1>3, <1>5 DEF Fresh, On
<1> HIDE DEF old
<1>7. old.items[l] \in ItemType
  BY <1>2 DEF Items, ItemType
<1>8. [old.items[l] EXCEPT !.qty = 1] \in ItemType
  BY <1>7, SavesAssumption DEF ItemType
<1>9. items \in Items
  BY <1>2, <1>8 DEF SplitItems, Items, ItemType
<1>10. Total(UnitsOf(items, Fired(items))) = Total(UnitsOf(old.items, Fired(old.items)))
  BY <1>2, <1>3, <1>4, <1>6, SplitTotal
<1> HIDE DEF items
<1>11. row \in Rows /\ row.items = items /\ row.status = "open"
  BY <1>2, <1>4, <1>9, RowEdited
<1>12. Save(t, o, row)
  BY <1>3 DEF items
<1> HIDE DEF row
<1>13. Saved(t, o, row)
  BY <1>1, <1>11, <1>12, SaveIs
<1>14. o \notin forked' => Newest(o) = old
  BY <1>1, <1>13, SavedRows DEF old
<1>15. Total(UnitsOf(items, {})) = 0 /\ Total(UnitsOf(old.items, Fired(old.items))) \in Nat
  BY <1>2, TotalNone, UnitsAre, TotalNat
<1>16. o \notin forked' => SentOf(row) = SentOf(Newest(o)) + Total(UnitsOf(items, {}))
  BY <1>4, <1>10, <1>11, <1>14, <1>15 DEF SentOf
<1>17. UNCHANGED sales /\ Ticket(t, o, "order", 0, items, {})
  BY <1>4, NoTicket
<1> QED
  BY <1>9, <1>13, <1>16, <1>17, EditBalances


\* A bill: its lines leave the order and are on a sale; those the kitchen had
\* not heard of are sent now.
LEMMA PayBalances ==
  ASSUME RowsInv, TicketsInv, KitchenBalance, NEW t \in Tills, NEW o \in Orders, NEW bill,
         Pay(t, o, bill)
  PROVE  TicketsInv' /\ KitchenBalance'
<1> DEFINE old == Row(t, o)
           left == [l \in Lines |-> IF l \in bill THEN NoItem ELSE old.items[l]]
           row == [old EXCEPT !.items = left, !.bills = @ \cup {saves + 1},
                              !.status = IF On(left) = {} THEN "settled" ELSE "open"]
           sale == [id |-> saves + 1, till |-> t, order |-> o, units |-> UnitsOf(old.items, bill)]
           unsent == bill \ Fired(old.items)
           kept == Fired(old.items) \ bill
           T(L) == Total(UnitsOf(old.items, L))
<1>1. TypeOK
  BY Parts
<1>2. old \in Rows /\ old.items \in Items /\ saves \in Nat
  BY <1>1, Numbers DEF Rows
<1>3. /\ Save(t, o, row) /\ bill \subseteq On(old.items) /\ old.status = "open"
      /\ sales' = sales \cup {sale}
      /\ Ticket(t, o, "order", saves + 1, old.items, unsent)
  BY DEF Pay, IsOpen
<1>4. saves + 1 \in Versions
  BY <1>2, <1>3, SavesAssumption DEF Save, Versions
<1>5. left \in Items
  BY <1>2, NoItemIs DEF Items, ItemType
<1> HIDE DEF old
<1>6. UnitsOf(left, Fired(left)) = UnitsOf(old.items, kept)
  <2>1. \A l \in Lines : left[l] = IF l \in bill THEN NoItem ELSE old.items[l]
    OBVIOUS
  <2> HIDE DEF left
  <2>2. \A l \in Lines : l \in Fired(left) <=> l \in kept
    BY <2>1, NoItemIs DEF Fired, On
  <2>3. \A l \in Lines : l \in kept => left[l] = old.items[l]
    BY <2>1
  <2> HIDE DEF kept
  <2> QED
    BY <2>2, <2>3 DEF UnitsOf
<1>7. On(left) = {} => Fired(left) = {}
  BY DEF Fired
<1> HIDE DEF left
<1>8. /\ row \in Rows /\ row.items = left
      /\ row.status = IF On(left) = {} THEN "settled" ELSE "open"
  BY <1>2, <1>4, <1>5 DEF Rows
<1> HIDE DEF row
<1>9. Saved(t, o, row)
  BY <1>1, <1>3, <1>8, SaveIs
<1>10. o \notin forked' => Newest(o) = old
  BY <1>1, <1>9, SavedRows DEF old
<1>11. forked \subseteq forked' /\ saves' = saves + 1
  BY <1>1, <1>9, SavedRows DEF Saved
<1>12. \A p \in Orders : Newest(p)' = IF p = o THEN row ELSE Newest(p)
  BY <1>1, <1>9, NewestAfter DEF Newest
<1>13. \A L : T(L) \in Nat
  BY <1>2, UnitsAre, TotalNat
<1>14. T(bill) = T(bill \cap Fired(old.items)) + T(unsent)
  <2>1. bill = (bill \cap Fired(old.items)) \cup unsent
    OBVIOUS
  <2>2. (bill \cap Fired(old.items)) \cap unsent = {}
    OBVIOUS
  <2> HIDE DEF unsent
  <2> QED
    BY <1>2, <2>1, <2>2, TotalApart
<1>15. T(Fired(old.items)) = T(bill \cap Fired(old.items)) + T(kept)
  <2>1. Fired(old.items) = (bill \cap Fired(old.items)) \cup kept
    OBVIOUS
  <2>2. (bill \cap Fired(old.items)) \cap kept = {}
    OBVIOUS
  <2> HIDE DEF kept
  <2> QED
    BY <1>2, <2>1, <2>2, TotalApart
<1>16. SentOf(row) = T(kept)
  <2>1. CASE On(left) = {}
    <3>1. T(kept) = 0
      BY <1>6, <1>7, <2>1, TotalNone
    <3> QED
      BY <1>8, <2>1, <3>1 DEF SentOf
  <2>2. CASE On(left) # {}
    BY <1>6, <1>8, <2>2 DEF SentOf
  <2> QED
    BY <2>1, <2>2
<1>17. o \notin forked' => SentOf(Newest(o)) = T(Fired(old.items))
  BY <1>3, <1>10 DEF SentOf
<1>18. /\ IsFiniteSet(tickets') /\ \A k \in tickets' : k.id \in 1..saves'
       /\ \A p : p # o => Told(p)' = Told(p) /\ Recalled(p)' = Recalled(p)
       /\ UnitsOn(Told(o)') = UnitsOn(Told(o)) + T(unsent)
       /\ UnitsOn(Recalled(o)') = UnitsOn(Recalled(o))
  <2>1. /\ IsFiniteSet(tickets') /\ \A k \in tickets' : k.id \in 1..saves'
        /\ \A p : p # o => Told(p)' = Told(p) /\ Recalled(p)' = Recalled(p)
        /\ UnitsOn(Told(o)') = UnitsOn(Told(o)) + IF "order" = "order" THEN T(unsent) ELSE 0
        /\ UnitsOn(Recalled(o)') = UnitsOn(Recalled(o)) + IF "order" = "void" THEN T(unsent) ELSE 0
    BY <1>1, <1>2, <1>3, <1>11, TicketCounts
  <2>2. UnitsOn(Recalled(o)) \in Int
    BY <1>1, FiniteTickets
  <2> QED
    BY <2>1, <2>2
<1>19. TicketsInv'
  BY <1>3, <1>18, FS_AddElement DEF TicketsInv
<1>20. /\ sale.order = o /\ sale.units = UnitsOf(old.items, bill) /\ sale.units \in Units
       /\ sale.id = saves + 1
  BY <1>2, UnitsAre
<1>21. sale \notin sales
  <2>1. \A s \in sales : s.id \in 1..saves
    BY Parts DEF PaidWasOn
  <2> QED
    BY <1>2, <1>20, <2>1
<1> HIDE DEF sale
<1>22. /\ \A p : p # o => SalesOf(p)' = SalesOf(p)
       /\ SalesOf(o)' = SalesOf(o) \cup {sale} /\ sale \notin SalesOf(o)
  BY <1>3, <1>20, <1>21 DEF SalesOf
<1>23. UnitsOn(SalesOf(o)') = UnitsOn(SalesOf(o)) + T(bill)
  <2>1. IsFiniteSet(SalesOf(o)) /\ \A s \in SalesOf(o) : s.units \in Units
    BY <1>1, FiniteTickets
  <2> QED
    BY <1>20, <1>22, <2>1, UnitsOnMore
<1> HIDE DEF T, unsent, kept
<1> SUFFICES ASSUME NEW p \in Orders \ forked'
             PROVE  UnitsOn(Told(p)') - UnitsOn(Recalled(p)')
                      = SentOf(Newest(p)') + UnitsOn(SalesOf(p)')
  BY <1>19 DEF KitchenBalance
<1>24. UnitsOn(Told(p)) - UnitsOn(Recalled(p)) = SentOf(Newest(p)) + UnitsOn(SalesOf(p))
  BY <1>11 DEF KitchenBalance
<1>25. CASE p # o
  BY <1>12, <1>18, <1>22, <1>24, <1>25
<1>26. CASE p = o
  <2>1. /\ UnitsOn(Told(o)) \in Int /\ UnitsOn(Recalled(o)) \in Int /\ UnitsOn(SalesOf(o)) \in Int
    BY <1>1, FiniteTickets
  <2>2. Newest(o)' = row
    BY <1>12
  <2>3. /\ T(bill) \in Nat /\ T(unsent) \in Nat /\ T(kept) \in Nat
        /\ T(bill \cap Fired(old.items)) \in Nat /\ T(Fired(old.items)) \in Nat
    BY <1>13
  <2>4. UnitsOn(Told(o)) - UnitsOn(Recalled(o)) = T(Fired(old.items)) + UnitsOn(SalesOf(o))
    BY <1>17, <1>24, <1>26
  <2>5. UnitsOn(Told(o)') - UnitsOn(Recalled(o)')
          = T(Fired(old.items)) + UnitsOn(SalesOf(o)) + T(unsent)
    BY <1>18, <2>1, <2>3, <2>4
  <2>6. UnitsOn(Told(o)') - UnitsOn(Recalled(o)') = T(kept) + UnitsOn(SalesOf(o)')
    BY <1>14, <1>15, <1>23, <2>1, <2>3, <2>5
  <2> QED
    BY <1>16, <1>26, <2>2, <2>6
<1> QED
  BY <1>25, <1>26

\* A voided sale calls off what its payment sent, and nothing of the order.
LEMMA VoidSaleBalances ==
  ASSUME RowsInv, TicketsInv, KitchenBalance, NEW t \in Tills, NEW s \in sales, VoidSale(t, s)
  PROVE  TicketsInv' /\ KitchenBalance'
<1> DEFINE K == {k \in tickets : k.sale = s.id /\ k.kind = "order"}
           back(k) == [k EXCEPT !.kind = "void", !.till = t]
           new == {back(k) : k \in K}
<1>1. TypeOK
  BY Parts
<1>2. tickets' = tickets \cup new
  BY DEF VoidSale
<1>3. \A k \in K : /\ back(k).id = k.id /\ back(k).kind = "void" /\ back(k).sale = k.sale
                   /\ back(k).order = k.order
  BY <1>1 DEF TypeOK, Tickets
<1>4. s.id # 0 /\ \A k \in K : k.sale = s.id
  BY Parts DEF PaidWasOn
<1>5. IsFiniteSet(new)
  <2>1. IsFiniteSet(K)
    BY FS_Subset DEF TicketsInv
  <2>2. [k \in K |-> back(k)] \in Surjection(K, new)
    BY DEF Surjection
  <2> HIDE DEF K, new
  <2> QED
    BY <2>1, <2>2, FS_Surjection
<1> HIDE DEF K
<1>6. IsFiniteSet(tickets')
  BY <1>2, <1>5, FS_Union DEF TicketsInv
<1>7. \A k \in new : k.id \in 1..saves /\ k.kind = "void" /\ k.sale # 0
  <2>1. \A k \in K : k \in tickets
    BY DEF K
  <2> QED
    BY <1>3, <1>4, <2>1, ZenonT(60) DEF TicketsInv
<1> HIDE DEF new
<1>8. \A o : Told(o)' = Told(o) /\ Recalled(o)' = Recalled(o)
  BY <1>2, <1>7 DEF Told, Recalled
<1>9. UNCHANGED <<hist, saves, newest, sales, forked>>
  BY DEF VoidSale
<1> QED
  BY <1>2, <1>6, <1>7, <1>8, <1>9 DEF TicketsInv, KitchenBalance, Newest, SalesOf

\* Screens and synchronisation.
LEMMA QuietBalances ==
  ASSUME TicketsInv, KitchenBalance, UNCHANGED <<hist, saves, newest, sales, tickets, forked>>
  PROVE  TicketsInv' /\ KitchenBalance'
<1>1. \A o : Told(o)' = Told(o) /\ Recalled(o)' = Recalled(o) /\ SalesOf(o)' = SalesOf(o)
             /\ Newest(o)' = Newest(o)
  BY DEF Told, Recalled, SalesOf, Newest
<1> QED
  BY <1>1 DEF TicketsInv, KitchenBalance

LEMMA KitchenInit == Init => TicketsInv /\ KitchenBalance
<1> SUFFICES ASSUME Init PROVE TicketsInv /\ KitchenBalance
  OBVIOUS
<1>1. TicketsInv
  BY FS_EmptySet DEF Init, TicketsInv
<1>2. ASSUME NEW o \in Orders
      PROVE  UnitsOn(Told(o)) - UnitsOn(Recalled(o)) = SentOf(Newest(o)) + UnitsOn(SalesOf(o))
  <2>1. Told(o) = {} /\ Recalled(o) = {} /\ SalesOf(o) = {}
    BY DEF Init, Told, Recalled, SalesOf
  <2>2. UnitsOn({}) = 0
    BY SumEmpty DEF UnitsOn
  <2>3. hist[newest[o]] = NoRow
    BY SavesAssumption DEF Init, Versions
  <2>4. SentOf(Newest(o)) = 0
    BY <2>3 DEF SentOf, Newest, NoRow
  <2> QED
    BY <2>1, <2>2, <2>4
<1> QED
  BY <1>1, <1>2 DEF KitchenBalance

LEMMA KitchenStep ==
  ASSUME RowsInv, TicketsInv, KitchenBalance, [Next]_vars
  PROVE  TicketsInv' /\ KitchenBalance'
<1>1. ASSUME NEW t \in Tills, NEW o \in Orders, Edit(t, o) PROVE TicketsInv' /\ KitchenBalance'
  <2>1. ASSUME NEW tb \in Tables \cup {NoTable}, Open(t, o, tb) \/ Update(t, o, tb)
        PROVE  TicketsInv' /\ KitchenBalance'
    BY <2>1, OpenBalances, UpdateBalances
  <2>2. ASSUME NEW l \in Lines, SplitLine(t, o, l) PROVE TicketsInv' /\ KitchenBalance'
    BY <2>2, SplitLineBalances
  <2>3. ASSUME NEW c \in Courses \cup {0}, Fire(t, o, c) PROVE TicketsInv' /\ KitchenBalance'
    BY <2>3, FireBalances
  <2>4. ASSUME Cancel(t, o) PROVE TicketsInv' /\ KitchenBalance'
    BY <2>4, CancelBalances
  <2>5. ASSUME NEW bill \in Bills(t, o), Pay(t, o, bill) PROVE TicketsInv' /\ KitchenBalance'
    BY <2>5, PayBalances
  <2> QED
    BY <1>1, <2>1, <2>2, <2>3, <2>4, <2>5 DEF Edit
<1>2. ASSUME NEW t \in Tills, NEW o \in Orders, Reload(t, o) \/ Send(t, o) \/ Fetch(t, o)
      PROVE  TicketsInv' /\ KitchenBalance'
  <2>1. UNCHANGED <<hist, saves, newest, sales, tickets, forked>>
    BY <1>2 DEF Reload, Send, Fetch, shopVars
  <2> QED
    BY <2>1, QuietBalances
<1>3. ASSUME NEW t \in Tills, NEW s \in sales, VoidSale(t, s)
      PROVE  TicketsInv' /\ KitchenBalance'
  BY <1>3, VoidSaleBalances
<1>4. CASE UNCHANGED vars
  BY <1>4, QuietBalances DEF vars, shopVars
<1> QED
  BY <1>1, <1>2, <1>3, <1>4 DEF Next

\* OrdersInv holds throughout: rows and sales on their own, tickets and the
\* kitchen's account over them.
THEOREM OrdersAlways == Spec => []OrdersInv
<1>1. Init => OrdersInv
  BY OrdersInit, KitchenInit DEF OrdersInv
<1>2. OrdersInv /\ [Next]_vars => OrdersInv'
  BY OrdersStep, KitchenStep DEF OrdersInv
<1> QED
  BY <1>1, <1>2, PTL DEF Spec

\* The kitchen makes what is served: through every edit, split, course, bill
\* and cancellation, at any number of tills with any number of lines, the units
\* it was told to make, less those called off, are those marked sent on the
\* open order and those on its bills.
THEOREM KitchenAlwaysBalances == Spec => []KitchenBalance
<1>1. OrdersInv => KitchenBalance
  BY DEF OrdersInv
<1> QED
  BY <1>1, OrdersAlways, PTL

\* However often an order is split into bills, edited, and paid at different
\* tills, each line is paid once, and what was paid is off the order.
THEOREM BillsAlwaysAddUp == Spec => []BillsAddUp
<1>1. OrdersInv => BillsAddUp
  BY Parts DEF OrdersInv
<1> QED
  BY <1>1, OrdersAlways, PTL

\* Two orders share a table only where a till had not heard of the first.
THEOREM OneOrderPerTableAlways == Spec => []OneOrderPerTable
<1>1. OrdersInv => OneOrderPerTable
  BY Parts DEF OrdersInv
<1> QED
  BY <1>1, OrdersAlways, PTL

-----------------------------------------------------------------------------
(* What is closed stays closed.                                             *)

\* A save on the newest version is of an order that was open, or new.
LEMMA SaveIsOpen ==
  ASSUME RowsInv, NEW t \in Tills, NEW o \in Orders, Edit(t, o),
         NEW p \in Orders \ forked', Newest(p).status \in {"settled", "cancelled"}
  PROVE  newest'[p] = newest[p]
<1>1. TypeOK /\ hist[0] = NoRow
  BY Parts
<1>2. newest' = [newest EXCEPT ![o] = saves + 1]
      /\ forked' = IF local[t][o] = newest[o] THEN forked ELSE forked \cup {o}
  BY DEF Edit, Open, Update, SplitLine, Fire, Cancel, Pay, Save
<1>3. newest[o] = 0 \/ IsOpen(t, o)
  BY DEF Edit, Open, Update, SplitLine, Fire, Cancel, Pay
<1> SUFFICES ASSUME p = o PROVE FALSE
  BY <1>1, <1>2 DEF TypeOK
<1>4. local[t][o] = newest[o]
  BY <1>2
<1>5. Newest(o) = NoRow \/ Newest(o).status = "open"
  BY <1>1, <1>3, <1>4 DEF Newest, IsOpen, Row
<1> QED
  BY <1>5 DEF NoRow

\* What was settled or cancelled is not saved again, unless the till that saves
\* it had an older version.
THEOREM ClosedAlwaysStaysClosed == Spec => ClosedStaysClosed
<1>1. OrdersInv /\ [Next]_vars =>
        [\A o \in Orders \ forked' :
           Newest(o).status \in {"settled", "cancelled"} => newest'[o] = newest[o]]_vars
  <2> SUFFICES ASSUME OrdersInv, Next, NEW o \in Orders \ forked',
                      Newest(o).status \in {"settled", "cancelled"}
               PROVE  newest'[o] = newest[o]
    OBVIOUS
  <2>1. ASSUME NEW t \in Tills, NEW p \in Orders, Edit(t, p) PROVE newest'[o] = newest[o]
    BY <2>1, SaveIsOpen DEF OrdersInv
  <2>2. ASSUME NEW t \in Tills, NEW p \in Orders, Reload(t, p) \/ Send(t, p) \/ Fetch(t, p)
        PROVE  newest'[o] = newest[o]
    BY <2>2 DEF Reload, Send, Fetch, shopVars
  <2>3. ASSUME NEW t \in Tills, NEW s \in sales, VoidSale(t, s)
        PROVE  newest'[o] = newest[o]
    BY <2>3 DEF VoidSale
  <2> QED
    BY <2>1, <2>2, <2>3 DEF Next
<1> QED
  BY <1>1, OrdersAlways, PTL DEF Spec, ClosedStaysClosed

=============================================================================
