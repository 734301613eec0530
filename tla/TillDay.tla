------------------------------ MODULE TillDay ------------------------------
(***************************************************************************)
(* The books of the tills: sales, refunds and voids, shifts, and the Z     *)
(* reports that close a period.  Transactions are rows that are only ever  *)
(* added; every figure is a sum over rows a till holds, its own or ones    *)
(* synchronised from another till.                                         *)
(*                                                                         *)
(* A sum that a Z report or a closed shift stores is kept as the set of    *)
(* rows it was taken over.  The sums over the reversals of a sale, which   *)
(* decide what may still go back, are kept as running figures (back).      *)
(* A quantity counts the smallest amount that can go back: a unit of       *)
(* goods, or a gram of weighed ones.  Money is in minor units.             *)
(***************************************************************************)
EXTENDS Integers, Sequences, FiniteSets

CONSTANTS
  Tills,
  Carts,      \* the bills that can be sold, as Goods
  MaxTx,      \* bound: transactions made
  MaxTime,    \* bound: the last reading of a clock
  MaxShifts,  \* bound: shifts opened
  MaxZ,       \* bound: Z reports run
  MaxAdjusted \* bound: tills whose clock is set back

Lines == {1, 2}              \* bound: a bill has at most two lines
Methods == {"cash", "card"}  \* card stands for every method but cash
Kinds == {"sale", "refund", "void"}

SumL(f) == f[1] + f[2]
SumM(f) == f["cash"] + f["card"]

(* What a transaction moves, one way or the other: a sale's lines (nothing  *)
(* of a line it does not have), the tax that was added to prices without    *)
(* tax, points earned or taken back, and the tenders.                       *)
Goods == [qty : [Lines -> Nat], amount : [Lines -> Nat], tax : [Lines -> Nat],
          points : Nat, paid : [Methods -> Nat]]

\* settle: the tenders applied add up to the bill.
IsBill(c) == /\ SumM(c.paid) = SumL(c.amount)
             /\ \A l \in Lines : c.qty[l] = 0 => c.amount[l] = 0
             /\ \A l \in Lines : c.tax[l] <= c.amount[l]
             /\ SumL(c.tax) = SumL(c.amount) => c.points = 0

ASSUME CartsAssumption == \A c \in Carts : c \in Goods /\ IsBill(c)
ASSUME BoundsAssumption ==
  /\ {MaxTx, MaxTime, MaxShifts, MaxZ, MaxAdjusted} \subseteq Nat
  /\ MaxTime > 0

VARIABLES
  txs,      \* transactions of all tills: [till, kind, of, at, shift, goods]
  has,      \* has[t]: the transactions in t's database
  back,     \* back[t][i]: Goods of all reversals of sale i in t's database
  shifts,   \* shifts of all tills: [till, opened, closed, rows]
  zs,       \* Z reports of all tills: [till, start, end, rows, shifts, upto]
  asked,    \* asked[t]: a shift command that has read the clock: [what, at]
  clock,    \* clock[t]: t's wall clock
  due,      \* due[t]: when a payment that waits at t read the clock, 0 for none
  untimely  \* history: tills where a transaction may be dated before a Z report
            \* that was run before it

vars == <<txs, has, back, shifts, zs, asked, clock, due, untimely>>

Time == 1..MaxTime
Nothing == [qty |-> [l \in Lines |-> 0], amount |-> [l \in Lines |-> 0],
            tax |-> [l \in Lines |-> 0], points |-> 0,
            paid |-> [m \in Methods |-> 0]]
NotAsked == [what |-> "none", at |-> 1]

Init ==
  /\ txs = <<>>
  /\ has = [t \in Tills |-> {}]
  /\ back = [t \in Tills |-> [i \in 1..MaxTx |-> Nothing]]
  /\ shifts = <<>>
  /\ zs = <<>>
  /\ asked = [t \in Tills |-> NotAsked]
  /\ clock = [t \in Tills |-> 1]
  /\ due = [t \in Tills |-> 0]
  /\ untimely = {}

-----------------------------------------------------------------------------
(* Amounts that go back.                                                    *)

\* n / d, rounded to the nearest, a half away from zero.
HalfUp(n, d) == IF n >= 0 THEN (2 * n + d) \div (2 * d)
                          ELSE -((d - 2 * n) \div (2 * d))

Share(total, part, whole) == IF whole <= 0 THEN 0 ELSE HalfUp(total * part, whole)

SliceAlone(amount, before, qty, whole) == Share(amount, qty, whole)
                                   \* mutant: each part is rounded by itself

\* What qty more of whole brings back of amount, after before.
Slice(amount, before, qty, whole) ==
  Share(amount, before + qty, whole) - Share(amount, before, whole)

AtMost(x, y) == IF x <= y THEN x ELSE y

\* Goods before discounts and tax: the subtotal of a transaction.
Gross(g) == SumL(g.amount) - SumL(g.tax)

\* Points for amount more of a sale worth whole, after before.
PointsBack(points, whole, before, amount) ==
  Share(points, AtMost(before + amount, whole), whole)
    - Share(points, AtMost(before, whole), whole)

Plus(g, h) == [qty |-> [l \in Lines |-> g.qty[l] + h.qty[l]],
               amount |-> [l \in Lines |-> g.amount[l] + h.amount[l]],
               tax |-> [l \in Lines |-> g.tax[l] + h.tax[l]],
               points |-> g.points + h.points,
               paid |-> [m \in Methods |-> g.paid[m] + h.paid[m]]]

Sales == {i \in DOMAIN txs : txs[i].kind = "sale"}
Sold(i) == txs[i].goods
Own(t) == {i \in has[t] : txs[i].till = t}

Refundable(t, i, l) ==
  IF back[t][i].qty[l] <= Sold(i).qty[l] THEN Sold(i).qty[l] - back[t][i].qty[l] ELSE 0

\* Paid minus reversed, of one method.
HeldBy(t, i, m) == Sold(i).paid[m] - back[t][i].paid[m]

Slices(t, i, q, amount) ==
  [l \in Lines |-> Slice(amount[l], back[t][i].qty[l], q[l], Sold(i).qty[l])]

\* The row of a reversal, and of its items.
Reversal(t, i, q, paid) ==
  LET amount == Slices(t, i, q, Sold(i).amount)
      tax == Slices(t, i, q, Sold(i).tax)
  IN  [qty |-> q, amount |-> amount, tax |-> tax, paid |-> paid,
       points |-> PointsBack(Sold(i).points, Gross(Sold(i)), Gross(back[t][i]),
                             SumL(amount) - SumL(tax))]

-----------------------------------------------------------------------------
(* Transactions.                                                            *)

OpenShifts(t) == {s \in DOMAIN shifts : shifts[s].till = t /\ shifts[s].closed = 0}

\* One SQLite transaction, dated at.  A request that is sent again with its
\* idempotency key is answered with the transaction it made and changes nothing.
Record(t, kind, i, at, goods) ==
  /\ Len(txs) < MaxTx
  /\ \E s \in OpenShifts(t) :
       txs' = Append(txs, [till |-> t, kind |-> kind, of |-> i, at |-> at,
                           shift |-> s, goods |-> goods])
  /\ has' = [has EXCEPT ![t] = @ \cup {Len(txs) + 1}]
  /\ UNCHANGED <<shifts, zs, asked, clock>>

\* Sales, refunds and voids read the clock under the lock.
Sell(t, c) ==
  /\ Record(t, "sale", Len(txs) + 1, clock[t], c)
  /\ UNCHANGED <<back, due, untimely>>

ZsOf(t) == {n \in DOMAIN zs : zs[n].till = t}

\* pay_open_order reads it before it waits for the lock.
AskPay(t) ==
  /\ due[t] = 0
  /\ due' = [due EXCEPT ![t] = clock[t]]
  /\ UNCHANGED <<txs, has, back, shifts, zs, asked, clock, untimely>>

PayOrder(t, c) ==
  /\ due[t] # 0
  /\ due' = [due EXCEPT ![t] = 0]
  /\ Record(t, "sale", Len(txs) + 1, due[t], c)
  /\ untimely' = IF \E n \in ZsOf(t) : due[t] <= zs[n].end THEN untimely \cup {t} ELSE untimely
  /\ UNCHANGED back

PayRefused(t) ==
  /\ due[t] # 0
  /\ due' = [due EXCEPT ![t] = 0]
  /\ UNCHANGED <<txs, has, back, shifts, zs, asked, clock, untimely>>

Reverse(t, kind, i, g) ==
  /\ SumM(g.paid) = SumL(g.amount)
  /\ g.points >= 0                 \* CHECK (loyalty_points_earned >= 0)
  /\ Record(t, kind, i, clock[t], g)
  /\ back' = [back EXCEPT ![t][i] = Plus(@, g)]
  /\ UNCHANGED <<due, untimely>>

CardAsPaid(t, i, m, amount) == m = "card" => amount <= Sold(i).paid[m]
                                   \* mutant: what went back is forgotten

\* No more than was paid that way; cash is not capped.
Covered(t, i, m, amount) == m # "cash" => amount <= HeldBy(t, i, m)

\* Quantities, one per line, of a sale the till holds; one tender.
Refund(t, i, q, m) ==
  /\ i \in has[t] \cap Sales
  /\ \E l \in Lines : q[l] > 0
  /\ \A l \in Lines : q[l] <= Refundable(t, i, l)
  /\ LET amount == SumL(Slices(t, i, q, Sold(i).amount))
     IN  /\ Covered(t, i, m, amount)
         /\ Reverse(t, "refund", i,
                    Reversal(t, i, q, [n \in Methods |-> IF n = m THEN amount ELSE 0]))

AnyShift(t, i) == txs[i].till = t  \* mutant: an older sale can be voided

\* A sale of this till's open shift without reversals.
Voidable(t, i) ==
  /\ txs[i].till = t
  /\ txs[i].shift \in OpenShifts(t)
  /\ \A j \in has[t] \ {i} : txs[j].of # i

\* The whole sale, tender by tender.
Void(t, i) ==
  /\ i \in has[t] \cap Sales
  /\ Voidable(t, i)
  /\ Reverse(t, "void", i,
             Reversal(t, i, Sold(i).qty, [m \in Methods |-> HeldBy(t, i, m)]))

\* Another till's transaction arrives, a sale before what reverses it.
Receive(t, i) ==
  /\ i \notin has[t]
  /\ txs[i].of \in has[t] \cup {i}
  /\ has' = [has EXCEPT ![t] = @ \cup {i}]
  /\ back' = IF i \in Sales THEN back
             ELSE [back EXCEPT ![t][txs[i].of] = Plus(@, txs[i].goods)]
  /\ UNCHANGED <<txs, shifts, zs, asked, clock, due, untimely>>

-----------------------------------------------------------------------------
(* Shifts and Z reports.                                                    *)

\* open_shift and close_shift read the clock before they wait for the lock.
AskShift(t, what) ==
  /\ asked[t].what = "none"
  /\ asked' = [asked EXCEPT ![t] = [what |-> what, at |-> clock[t]]]
  /\ UNCHANGED <<txs, has, back, shifts, zs, clock, due, untimely>>

Answered(t) == asked' = [asked EXCEPT ![t] = NotAsked]

OpenShift(t) ==
  /\ asked[t].what = "open"
  /\ Answered(t)
  /\ IF OpenShifts(t) = {} /\ Len(shifts) < MaxShifts
     THEN shifts' = Append(shifts, [till |-> t, opened |-> asked[t].at,
                                    closed |-> 0, rows |-> {}])
     ELSE UNCHANGED shifts
  /\ UNCHANGED <<txs, has, back, zs, clock, due, untimely>>

\* Expected cash: the float and the cash of the shift's transactions.
CloseShift(t) ==
  /\ asked[t].what = "close"
  /\ Answered(t)
  /\ shifts' = [s \in DOMAIN shifts |->
                  IF s \in OpenShifts(t)
                  THEN [shifts[s] EXCEPT !.closed = asked[t].at,
                                         !.rows = {i \in has[t] : txs[i].shift = s}]
                  ELSE shifts[s]]
  /\ UNCHANGED <<txs, has, back, zs, clock, due, untimely>>

Moments(t) == {clock[t]} \cup {txs[i].at : i \in Own(t)}
                \cup {shifts[s].opened : s \in {x \in DOMAIN shifts : shifts[x].till = t}}

SameInstant(n) == zs[n].end        \* mutant: no millisecond is added

\* The first instant after a Z report.
After(n) == zs[n].end + 1

\* The till's next report starts after its last Z; the first one covers
\* everything so far.
Starts(t, x) ==
  IF ZsOf(t) = {} THEN x \in Moments(t) /\ \A y \in Moments(t) : x <= y
                  ELSE \E n \in ZsOf(t) : x = After(n) /\ \A m \in ZsOf(t) : m <= n

OpenedIn(t, from, to) ==           \* mutant: a shift counts when it was opened
  {s \in DOMAIN shifts : shifts[s].till = t /\ shifts[s].opened \in from..to}

\* This till's transactions of a period, and the shifts closed in it.
RowsIn(t, from, to) == {i \in Own(t) : txs[i].at \in from..to}
ShiftsIn(t, from, to) ==
  {s \in DOMAIN shifts : shifts[s].till = t /\ shifts[s].closed \in from..to}

ZAnyTime(t) == TRUE                \* mutant: a shift may still be open

\* Every shift of the till is closed.
MayRunZ(t) == OpenShifts(t) = {}

\* CHECK (period_start <= period_end).  Writing it takes a millisecond or more.
RunZ(t) ==
  /\ Len(zs) < MaxZ
  /\ clock[t] < MaxTime
  /\ MayRunZ(t)
  /\ \E x \in 1..clock[t] :
       /\ Starts(t, x)
       /\ zs' = Append(zs, [till |-> t, start |-> x, end |-> clock[t],
                            rows |-> RowsIn(t, x, clock[t]),
                            shifts |-> ShiftsIn(t, x, clock[t]), upto |-> Len(txs)])
  /\ clock' = [clock EXCEPT ![t] = @ + 1]
  /\ UNCHANGED <<txs, has, back, shifts, asked, due, untimely>>

-----------------------------------------------------------------------------
(* Time.                                                                    *)

Tick(t) ==
  /\ clock[t] < MaxTime
  /\ clock' = [clock EXCEPT ![t] = @ + 1]
  /\ UNCHANGED <<txs, has, back, shifts, zs, asked, due, untimely>>

SetClockBack(t) ==
  /\ t \notin untimely
  /\ Cardinality(untimely) < MaxAdjusted
  /\ \E x \in 1..clock[t] - 1 : clock' = [clock EXCEPT ![t] = x]
  /\ untimely' = untimely \cup {t}
  /\ UNCHANGED <<txs, has, back, shifts, zs, asked, due>>

-----------------------------------------------------------------------------

\* The quantities of the two lines that can be asked for.
Picks(t, i) == {<<a, b>> : a \in 0..Refundable(t, i, 1), b \in 0..Refundable(t, i, 2)}

Next ==
  \E t \in Tills :
    \/ \E c \in Carts : Sell(t, c) \/ PayOrder(t, c)
    \/ AskPay(t) \/ PayRefused(t)
    \/ \E i \in has[t] \cap Sales :
         \/ \E q \in Picks(t, i), m \in Methods : Refund(t, i, q, m)
         \/ Void(t, i)
    \/ \E i \in DOMAIN txs : Receive(t, i)
    \/ AskShift(t, "open") \/ AskShift(t, "close")
    \/ OpenShift(t) \/ CloseShift(t)
    \/ RunZ(t)
    \/ Tick(t) \/ SetClockBack(t)

Spec == Init /\ [][Next]_vars

-----------------------------------------------------------------------------
(* Properties.  What a till knows of a sale is complete when every reversal *)
(* of it was made at that till; tills that reverse the same sale offline    *)
(* can each pay back all of it.                                             *)

ReversedAt(t, i) == \A j \in DOMAIN txs \ {i} : txs[j].of = i => txs[j].till = t

\* The values the variables take.
Tx == [till : Tills, kind : Kinds, of : 1..MaxTx, at : Time,
       shift : 1..MaxShifts, goods : Goods]
Shift == [till : Tills, opened : Time, closed : 0..MaxTime, rows : SUBSET (1..MaxTx)]
Z == [till : Tills, start : Time, end : Time, rows : SUBSET (1..MaxTx),
      shifts : SUBSET (1..MaxShifts), upto : 0..MaxTx]

TypeOK ==
  /\ txs \in Seq(Tx) /\ Len(txs) <= MaxTx
  /\ has \in [Tills -> SUBSET DOMAIN txs]
  /\ back \in [Tills -> [1..MaxTx -> Goods]]
  /\ shifts \in Seq(Shift) /\ Len(shifts) <= MaxShifts
  /\ zs \in Seq(Z) /\ Len(zs) <= MaxZ
  /\ asked \in [Tills -> [what : {"none", "open", "close"}, at : Time]]
  /\ clock \in [Tills -> Time]
  /\ due \in [Tills -> 0..MaxTime]
  /\ untimely \in SUBSET Tills

\* However a sale goes back, in whatever parts, nobody gets back more of a line
\* than was paid for it, and exactly that when all of it is back; likewise the
\* points of the sale.
ReturnsAddUp ==
  \A t \in Tills : \A i \in has[t] \cap Sales : ReversedAt(t, i) =>
    /\ \A l \in Lines :
         /\ back[t][i].qty[l] <= Sold(i).qty[l]
         /\ back[t][i].amount[l] <= Sold(i).amount[l]
         /\ back[t][i].qty[l] = Sold(i).qty[l] => back[t][i].amount[l] = Sold(i).amount[l]
    /\ back[t][i].points <= Sold(i).points
    /\ back[t][i].qty = Sold(i).qty => back[t][i].points = Sold(i).points

\* Card refunds of a sale stay within its card payments, and the money still
\* held for it is what its remaining goods cost.
HeldForGoods ==
  \A t \in Tills : \A i \in has[t] \cap Sales : ReversedAt(t, i) =>
    /\ HeldBy(t, i, "card") >= 0
    /\ HeldBy(t, i, "cash") + HeldBy(t, i, "card")
         = SumL(Sold(i).amount) - SumL(back[t][i].amount)

\* Every transaction of a till is in exactly one Z report, the first one run
\* after it, so the grand total is the total of all of them: unless the clock was
\* set back, or a payment waited for the lock through a Z report.
ZCoversSince ==
  \A n \in DOMAIN zs : zs[n].till \notin untimely =>
    \A i \in DOMAIN txs : txs[i].till = zs[n].till =>
      (i \in zs[n].rows <=> /\ i <= zs[n].upto
                           /\ \A m \in ZsOf(zs[n].till) : m < n => zs[m].upto < i)

\* The drawer of a Z report adds up to its shifts: it covers the transactions of
\* the shifts it lists, all of them and no others.
ZMatchesShifts ==
  \A n \in DOMAIN zs : zs[n].till \notin untimely =>
    zs[n].rows = UNION {shifts[s].rows : s \in zs[n].shifts}

\* A closed shift's figures stay what they were, and a void is in the Z report
\* of the sale it cancels (D47: voids keep closed shifts, and the Z reports
\* built from them, stable).
ClosedStaysStable ==
  /\ \A s \in DOMAIN shifts : shifts[s].closed # 0 =>
       shifts[s].rows = {i \in DOMAIN txs : txs[i].shift = s}
  /\ \A j \in DOMAIN txs : txs[j].kind = "void" =>
       /\ txs[j].shift = txs[txs[j].of].shift
       /\ \A n \in DOMAIN zs : zs[n].till \notin untimely =>
            (j \in zs[n].rows <=> txs[j].of \in zs[n].rows)

\* The X report is a live read of the till since its last Z (README.md, Reports):
\* what was sold since then is in the next report.
NothingFallsOut ==
  \A t \in Tills : \A i \in Own(t), x \in Time :
    Starts(t, x) /\ (\A n \in ZsOf(t) : zs[n].upto < i) => x <= txs[i].at

-----------------------------------------------------------------------------
(* The inductive invariant of TillDay_proofs, in parts.                     *)

\* A till holds its own transactions; what reverses a sale comes after it, at
\* a till that holds it; a shift's transactions are of its till.
RowsInv ==
  /\ \A i \in DOMAIN txs :
       /\ i \in has[txs[i].till]
       /\ txs[i].of \in Sales
       /\ i \in Sales <=> txs[i].of = i
       /\ i \in Sales => txs[i].goods \in Carts
       /\ txs[i].shift \in DOMAIN shifts
       /\ shifts[txs[i].shift].till = txs[i].till
  /\ \A t \in Tills : \A j \in has[t] : txs[j].of \in has[t]
  /\ \A n \in DOMAIN zs : zs[n].upto <= Len(txs) /\ zs[n].shifts \subseteq DOMAIN shifts
  /\ \A t \in Tills : \A s, u \in OpenShifts(t) : s = u

\* The running figures of a sale without reversals are zero.
BackInv ==
  \A t \in Tills : \A i \in 1..MaxTx :
    (\A j \in has[t] \ {i} : txs[j].of # i) => back[t][i] = Nothing

\* What is back of a line is the share of everything back of it so far.
Shared(b, g) ==
  /\ \A l \in Lines : /\ b.qty[l] <= g.qty[l]
                       /\ b.amount[l] = Share(g.amount[l], b.qty[l], g.qty[l])
                       /\ b.tax[l] = Share(g.tax[l], b.qty[l], g.qty[l])
  /\ b.points = Share(g.points, AtMost(Gross(b), Gross(g)), Gross(g))
  /\ SumM(b.paid) = SumL(b.amount)
  /\ b.paid["card"] <= g.paid["card"]

SharesInv ==
  \A t \in Tills : \A i \in has[t] \cap Sales :
    ReversedAt(t, i) => Shared(back[t][i], Sold(i))

\* Nothing of a till is later than its clock; a shift command that waits for the
\* lock is not older than the shift it will close.
ClockInv ==
  \A t \in Tills \ untimely :
    /\ \A i \in DOMAIN txs : txs[i].till = t => txs[i].at <= clock[t]
    /\ \A n \in ZsOf(t) : zs[n].end < clock[t]
    /\ asked[t].at <= clock[t] /\ due[t] <= clock[t]
    /\ \A s \in DOMAIN shifts : shifts[s].till = t =>
         /\ shifts[s].opened <= clock[t]
         /\ shifts[s].closed <= clock[t]
         /\ shifts[s].closed # 0 => shifts[s].opened <= shifts[s].closed
         /\ s \in OpenShifts(t) /\ asked[t].what = "close" => shifts[s].opened <= asked[t].at

\* A Z report cuts the till's history in two: what was there ended by its end,
\* what came later is later.
CutInv ==
  \A n \in DOMAIN zs : LET t == zs[n].till IN
    /\ zs[n].rows \subseteq {i \in 1..zs[n].upto : txs[i].till = t}
    /\ \A s \in zs[n].shifts : shifts[s].closed # 0
    /\ t \notin untimely =>
         /\ \A m \in ZsOf(t) : m < n => zs[m].end < zs[n].end /\ zs[m].upto <= zs[n].upto
         /\ \A i \in DOMAIN txs : txs[i].till = t =>
              (i <= zs[n].upto <=> txs[i].at <= zs[n].end)
         /\ \A i \in DOMAIN txs : txs[i].till = t =>
              LET closed == shifts[txs[i].shift].closed
              IN  i <= zs[n].upto <=> closed # 0 /\ closed <= zs[n].end
         /\ OpenShifts(t) # {} /\ asked[t].what = "close" => zs[n].end < asked[t].at

\* A shift's rows are its transactions, once it is closed.
ShiftInv ==
  \A s \in DOMAIN shifts :
    shifts[s].rows = IF shifts[s].closed = 0 THEN {}
                     ELSE {i \in DOMAIN txs : txs[i].shift = s}

VoidInv ==
  \A j \in DOMAIN txs : txs[j].kind = "void" => txs[j].shift = txs[txs[j].of].shift

BooksInv ==
  /\ TypeOK
  /\ RowsInv
  /\ BackInv
  /\ SharesInv
  /\ ClockInv
  /\ CutInv
  /\ ShiftInv
  /\ VoidInv
  /\ ZCoversSince
  /\ ZMatchesShifts
=============================================================================
