-------------------------------- MODULE Bill --------------------------------
(***************************************************************************)
(* What a bill costs and how it is paid: the rules that run at the moment, *)
(* the combos in the cart, the member's discount and the points redeemed   *)
(* are priced in a fixed order; the discounts are spread over the lines so *)
(* that each line's tax is of what was charged for it; then the tenders    *)
(* are settled.  A bill is chosen, quoted and paid; everything else is a   *)
(* function of it.  Money is in minor units, quantities in thousandths and *)
(* rates in basis points, as in the code.                                  *)
(***************************************************************************)
EXTENDS Integers, Sequences, FiniteSets, Functions

CONSTANTS
  Catalog,      \* Catalog[p]: [price, rate, category] of product p
  ComboItems,   \* the <<product, quantity>> of the shop's combo ...
  ComboPrice,   \* ... and its price
  Rules,        \* discount rules in the order of the list: [scope, target,
                \* kind, value, min, auto, active, starts, ends, days, from, to]
  Members,      \* discounts of the plans a customer may hold, 0 for none
  Balances,     \* points a customer may have
  PointValue,   \* value of a point,
  MinRedeem,    \* least points redeemed at once,
  MaxRedeem,    \* and the share of a bill they may pay
  PointsPerUnit,
  Cents,        \* minor units of a unit of the currency
  Items,        \* cart lines tried: [product, qty, options, combo]
  MaxLines,     \* bound: lines of a cart
  Moments,      \* moments tried: [now, day, minute], the last two local
  Tendered,     \* tenders tried: [method, tendered]
  MaxTenders    \* bound: tenders of a payment

ASSUME PricesAssumption ==
  \A p \in DOMAIN Catalog :
    Catalog[p].price \in Nat /\ Catalog[p].rate \in Nat /\ Catalog[p].rate <= 10000

ASSUME SettingsAssumption ==
  /\ {PointValue, Cents} \subseteq Nat \ {0}
  /\ {MinRedeem, PointsPerUnit, ComboPrice, MaxLines, MaxTenders} \subseteq Nat
  /\ MaxRedeem \in 0..10000

Never == -1     \* ends_at of a rule that runs until further notice

\* What is validated when a rule is saved.
ASSUME RulesAssumption ==
  /\ Rules \in Seq(Range(Rules))
  /\ \A i \in DOMAIN Rules :
       LET r == Rules[i]
       IN  /\ r.scope \in {"product", "category", "order"}
           /\ r.kind \in {"percentage", "fixed"}
           /\ r.value \in Nat /\ r.min \in Nat /\ r.auto \in BOOLEAN
           /\ r.active \in BOOLEAN /\ r.starts \in Nat /\ r.ends \in Nat \cup {Never}
           /\ r.days \subseteq 0..6
           /\ r.from \in 0..1439 /\ r.to \in 1..1440 /\ r.from # r.to

ASSUME InputsAssumption ==
  /\ \A l \in Items : l.product \in DOMAIN Catalog /\ l.qty \in Int /\ l.options \in Int
  /\ \A k \in Members : k.bps \in Nat /\ k.bps <= 10000 /\ k.multiplier \in Nat
  /\ Balances \subseteq Nat
  /\ \A m \in Moments : m.now \in Nat /\ m.day \in 0..6 /\ m.minute \in 0..1439
  /\ \A x \in Tendered : x.tendered \in Nat

VARIABLES
  bill,   \* [lines, asked, at, inclusive, member, balance, redeem], or NoBill
  quote,  \* its price, or NoQuote
  paid    \* its tenders once settled, or <<>>

billVars == <<bill, quote, paid>>

NoBill == [lines |-> <<>>]
NoQuote == [total |-> 0, lines |-> <<>>]

BillInit == bill = NoBill /\ quote = NoQuote /\ paid = <<>>

-----------------------------------------------------------------------------
(* Arithmetic.                                                              *)

Total(f) == SumFunctionOnSet(f, DOMAIN f)
Least(x, y) == IF x <= y THEN x ELSE y
Most(x, y) == IF x >= y THEN x ELSE y
Clamp(x, low, high) == Most(low, Least(x, high))

Listed(f) == SubSeq(f, 1, Len(f))   \* f, worked out element by element

\* To the nearest, a half away from zero.
Rounded(n, d) == IF n >= 0 THEN (2 * n + d) \div (2 * d) ELSE -((d - 2 * n) \div (2 * d))
Part(amount, bps) == Rounded(amount * bps, 10000)

\* Before[i]: how many indices get a unit that is left over before i does,
\* the largest remainder first, the earliest of equals.
Before(rem) == [i \in DOMAIN rem |->
  Cardinality({j \in DOMAIN rem : rem[j] > rem[i] \/ (rem[j] = rem[i] /\ j < i)})]

RoundEach(amount, weight) ==     \* mutant: the shares are rounded one by one
  [i \in DOMAIN weight |-> Rounded(amount * weight[i], Total(weight))]

Allocate(amount, weight) ==
  LET whole == Total(weight)
      parts == [i \in DOMAIN weight |-> (amount * weight[i]) \div whole]
      turn == Before([i \in DOMAIN weight |-> (amount * weight[i]) % whole])
  IN  [i \in DOMAIN weight |->
         IF turn[i] < amount - Total(parts) THEN parts[i] + 1 ELSE parts[i]]

-----------------------------------------------------------------------------
(* Which rules run.                                                         *)

\* A window that crosses midnight belongs to the day it starts on.
SameDay(r, m) == m.day \in r.days /\ \/ r.from <= m.minute /\ (m.minute < r.to \/ r.to < r.from)
                                     \/ r.to < r.from /\ m.minute < r.to
                                 \* mutant: after midnight, today's day counts
Allows(r, m) ==
  IF r.from < r.to THEN m.day \in r.days /\ m.minute \in r.from..(r.to - 1)
  ELSE \/ m.minute >= r.from /\ m.day \in r.days
       \/ m.minute < r.to /\ (m.day + 6) % 7 \in r.days

\* Switched on, and in the period the rule was given.
Running(r, m) == r.active /\ r.starts <= m.now /\ (r.ends = Never \/ m.now < r.ends)

IsLive(r, m) == Running(r, m) /\ Allows(r, m)

\* The rules at the positions in S, in the order of the list.
RulesAt(S) ==
  LET upTo[k \in 0..Len(Rules)] == IF k = 0 THEN <<>>
                                   ELSE IF k \in S THEN Append(upTo[k - 1], Rules[k])
                                   ELSE upTo[k - 1]
  IN  upTo[Len(Rules)]

\* The automatic rules that run and were not asked for, then those asked
\* for; one asked for that does not run refuses the bill.
BillRules(asked, m) ==
  RulesAt({i \in DOMAIN Rules : Rules[i].auto /\ Rules[i] \notin asked /\ IsLive(Rules[i], m)})
  \o RulesAt({i \in DOMAIN Rules : Rules[i] \in asked})

-----------------------------------------------------------------------------
(* The pricing engine.                                                      *)

Gross(l) == Rounded((Catalog[l.product].price + l.options) * l.qty, 1000)

\* What a discount takes off base.
Taken(d, base) ==
  LET raw == CASE d.kind = "percentage" -> Part(base, d.value)
               [] d.kind = "fixed" -> d.value
               [] d.kind = "target" -> base - d.value
  IN  Clamp(raw, 0, Most(base, 0))

LineMatches(d, l) == \/ d.scope = "product" /\ l.product = d.target
                     \/ d.scope = "category" /\ Catalog[l.product].category = d.target

\* One discount on every line it matches.
OnLines(lines, off, d) ==
  Listed([i \in DOMAIN off |-> IF LineMatches(d, lines[i])
                               THEN off[i] + Taken(d, Gross(lines[i]) - off[i]) ELSE off[i]])

\* One discount on what is left of the lines in S, spread over them.
Spread(lines, off, d, S) ==
  LET left == [i \in S |-> Gross(lines[i]) - off[i]]
      amount == Taken(d, Total(left))
      share == Allocate(amount, left)
  IN  IF amount = 0 THEN off
      ELSE Listed([i \in DOMAIN off |-> IF i \in S THEN off[i] + share[i] ELSE off[i]])

OnGroup(lines, off, d) == Spread(lines, off, d, {i \in DOMAIN lines : lines[i].combo = d.target})

OnOrder(lines, off, d) ==
  IF Total([i \in DOMAIN lines |-> Gross(lines[i])]) < d.min THEN off
  ELSE Spread(lines, off, d, DOMAIN lines)

Discounted(lines, off, d) ==
  CASE d.scope \in {"product", "category"} -> OnLines(lines, off, d)
    [] d.scope = "group" -> OnGroup(lines, off, d)
    [] d.scope = "order" -> OnOrder(lines, off, d)

\* The discounts of the scopes in S, each on what the one before it left.
Pass(lines, off, ds, S) ==
  LET after[k \in 0..Len(ds)] ==
        IF k = 0 THEN off
        ELSE IF ds[k].scope \in S THEN Discounted(lines, after[k - 1], ds[k])
        ELSE after[k - 1]
  IN  after[Len(ds)]

\* Line rules first, then combos, then order rules, each in its order.
Discounts(lines, ds) ==
  LET bare == Pass(lines, [i \in DOMAIN lines |-> 0], ds, {"product", "category"})
      group == Pass(lines, bare, ds, {"group"})
  IN  Pass(lines, group, ds, {"order"})

\* The tax of net: inside it, or to be added.
TaxOf(net, rate, inclusive) ==
  IF inclusive THEN net - Rounded(net * 10000, 10000 + rate) ELSE Part(net, rate)

PricedLine(l, off, inclusive) ==
  LET net == Gross(l) - off
      tax == TaxOf(net, Catalog[l.product].rate, inclusive)
  IN  [gross |-> Gross(l), off |-> off, tax |-> tax, rate |-> Catalog[l.product].rate,
       total |-> IF inclusive THEN net ELSE net + tax]

\* The bill of its priced lines.
Summed(priced) ==
  LET of(r) == {i \in DOMAIN priced : priced[i].rate = r}
  IN  [lines |-> priced,
       subtotal |-> Total([i \in DOMAIN priced |-> priced[i].gross]),
       discount |-> Total([i \in DOMAIN priced |-> priced[i].off]),
       tax |-> Total([i \in DOMAIN priced |-> priced[i].tax]),
       total |-> Total([i \in DOMAIN priced |-> priced[i].total]),
       taxLines |-> [r \in {priced[i].rate : i \in DOMAIN priced} \ {0} |->
                       [taxable |-> Total([i \in of(r) |-> priced[i].total - priced[i].tax]),
                        tax |-> Total([i \in of(r) |-> priced[i].tax])]]]

PricedLines(lines, off, inclusive) ==
  Listed([i \in DOMAIN lines |-> PricedLine(lines[i], off[i], inclusive)])

Price(lines, ds, inclusive) == Summed(PricedLines(lines, Discounts(lines, ds), inclusive))

-----------------------------------------------------------------------------
(* The bill: a cart and its combos, the customer and the points redeemed.   *)

InCombo(lines) == {i \in DOMAIN lines : lines[i].combo = 1}

\* The lines of a combo are exactly its items; its price is raised by what
\* the options chosen on them cost.
ComboWhole(lines) ==
  /\ Cardinality(InCombo(lines)) = Cardinality(ComboItems)
  /\ {<<lines[i].product, lines[i].qty>> : i \in InCombo(lines)} = ComboItems

ComboTarget(lines) ==
  Most(0, ComboPrice + Total([i \in InCombo(lines) |-> Rounded(lines[i].options * lines[i].qty, 1000)]))

NoRule == [scope |-> "order", target |-> 0, kind |-> "fixed", value |-> 0, min |-> 0]

CartDiscounts(b) ==
  (IF InCombo(b.lines) = {} THEN <<>>
   ELSE <<[NoRule EXCEPT !.scope = "group", !.target = 1, !.kind = "target",
                         !.value = ComboTarget(b.lines)]>>)
  \o BillRules(b.asked, b.at)

MemberDiscounts(b) ==
  IF b.member.bps = 0 THEN <<>>
  ELSE <<[NoRule EXCEPT !.kind = "percentage", !.value = b.member.bps]>>

\* The most points of balance that may pay for payable.
MaxRedeemable(balance, payable) ==
  LET points == Least(balance, ((payable * MaxRedeem) \div 10000) \div PointValue)
  IN  IF balance < Most(MinRedeem, 1) \/ payable <= 0 \/ points < MinRedeem THEN 0 ELSE points

IsCart(b) ==
  /\ b.lines # <<>>
  /\ \A i \in DOMAIN b.lines : /\ b.lines[i].qty > 0
                               /\ Catalog[b.lines[i].product].price + b.lines[i].options >= 0
  /\ InCombo(b.lines) # {} => ComboWhole(b.lines)
  /\ \A r \in b.asked : IsLive(r, b.at)

\* The discounts of the bill before the points.
Basic(b) == Price(b.lines, CartDiscounts(b) \o MemberDiscounts(b), b.inclusive)

Refused == [total |-> -1, lines |-> <<>>]   \* "The points do not fit this bill."

\* The redemption is an order discount, priced on top of basic.
WithPoints(b, basic) ==
  LET value == b.redeem * PointValue
      priced == Price(b.lines, CartDiscounts(b) \o MemberDiscounts(b)
                                 \o <<[NoRule EXCEPT !.value = value]>>, b.inclusive)
  IN  IF priced.discount - basic.discount = value THEN priced ELSE Refused

\* quote_transaction: prices are the catalogue's, never the screen's.
Quote(b) ==
  /\ bill = NoBill
  /\ IsCart(b)
  /\ LET basic == Basic(b)
     IN  \/ /\ b.redeem = 0
            /\ quote' = basic
         \/ /\ b.redeem \in Most(MinRedeem, 1)..
                              MaxRedeemable(b.balance, basic.subtotal - basic.discount)
            /\ quote' = WithPoints(b, basic)
  /\ bill' = b
  /\ UNCHANGED paid

-----------------------------------------------------------------------------
(* The payment.                                                             *)

FromAny(m) == TRUE               \* mutant: a card gives change as well
GivesChange(m) == m = "cash"

\* What each tender pays and the change out of it: out of the last first.
Applied(due, tenders) ==
  LET change == Total([i \in DOMAIN tenders |-> tenders[i].tendered]) - due
      after(i) == {j \in DOMAIN tenders : j > i /\ GivesChange(tenders[j].method)}
      from(i) == IF GivesChange(tenders[i].method)
                 THEN Clamp(change - Total([j \in after(i) |-> tenders[j].tendered]),
                            0, tenders[i].tendered)
                 ELSE 0
  IN  [i \in DOMAIN tenders |-> [method |-> tenders[i].method, tendered |-> tenders[i].tendered,
                                 amount |-> tenders[i].tendered - from(i), change |-> from(i)]]

NotCash(tenders) == [i \in {j \in DOMAIN tenders : tenders[j].method # "cash"} |-> tenders[i].tendered]

\* Enough, and nothing but cash beyond what is owed.
Settle(tenders) ==
  /\ quote # Refused /\ bill # NoBill /\ paid = <<>>
  /\ tenders # <<>>
  /\ Total(NotCash(tenders)) <= quote.total
  /\ Total([i \in DOMAIN tenders |-> tenders[i].tendered]) >= quote.total
  /\ paid' = Applied(quote.total, tenders)
  /\ UNCHANGED <<bill, quote>>

\* Points a paid bill earns, at the pace of the member's plan.
Earned(b, total) == (((total * PointsPerUnit) \div Cents) * b.member.multiplier) \div 10000

Carts == UNION {[1..n -> Items] : n \in 1..MaxLines}
Manual == {Rules[i] : i \in {j \in DOMAIN Rules : ~Rules[j].auto}}

BillNext ==
  \/ \E c \in Carts, a \in {{}} \cup {{r} : r \in Manual}, m \in Moments, i \in BOOLEAN,
        k \in Members, p \in Balances :
       \E n \in {0, MinRedeem, p} :
         Quote([lines |-> c, asked |-> a, at |-> m, inclusive |-> i, member |-> k,
                balance |-> p, redeem |-> n])
  \/ \E n \in 1..MaxTenders : \E tenders \in [1..n -> Tendered] : Settle(tenders)

BillSpec == BillInit /\ [][BillNext]_billVars

-----------------------------------------------------------------------------
(* Properties.                                                              *)

Quoted == bill # NoBill

\* What is printed on a line is what is charged: no discount, however the
\* others were spread before it, takes more than is left of a line, the
\* lines add up to the totals and the tax lines to the tax.
LinesAddUp ==
  /\ \A i \in DOMAIN quote.lines :
       LET l == quote.lines[i]
       IN  l.off \in 0..l.gross /\ l.tax \in 0..l.total
  /\ quote.total = quote.subtotal - quote.discount + IF bill.inclusive THEN 0 ELSE quote.tax
  /\ Total([r \in DOMAIN quote.taxLines |-> quote.taxLines[r].tax]) = quote.tax

\* A combo's lines cost its price and their options, never more, and no more
\* than without the combo.
ComboHolds ==
  InCombo(bill.lines) # {} =>
    Total([i \in InCombo(bill.lines) |-> quote.lines[i].gross - quote.lines[i].off])
      <= ComboTarget(bill.lines)

\* A bill adds up line by line whatever rules, combo, member's discount and
\* points meet on it; points the rules admit are never refused for rounding
\* and take exactly their value.
QuoteAddsUp ==
  Quoted => /\ quote # Refused
            /\ LinesAddUp
            /\ ComboHolds

\* The tenders applied pay the bill exactly; change comes out of cash only
\* and is what was handed over beyond the bill; no tender pays less than
\* nothing.  Points are earned only when something was paid.
TendersAddUp ==
  paid # <<>> =>
    /\ Total([i \in DOMAIN paid |-> paid[i].amount]) = quote.total
    /\ \A i \in DOMAIN paid : /\ paid[i].amount \in 0..paid[i].tendered
                              /\ paid[i].change = paid[i].tendered - paid[i].amount
                              /\ paid[i].change > 0 => paid[i].method = "cash"
    /\ quote.total = 0 => Earned(bill, quote.total) = 0

\* A rule takes part exactly when it is running and the moment lies in a window
\* that began on one of its days, counting the week's minutes from Monday and around.
InWindow(r, m) ==
  LET length == (r.to - r.from) % 1440
  IN  \E d \in r.days :
        ((m.day * 1440 + m.minute) - (d * 1440 + r.from)) % (7 * 1440)
          \in 0..((IF length = 0 THEN 1440 ELSE length) - 1)

RulesInTheirWindow ==
  Quoted => \A i \in DOMAIN Rules :
              LET used == \E j \in DOMAIN CartDiscounts(bill) : CartDiscounts(bill)[j] = Rules[i]
              IN  used <=> /\ Rules[i].auto \/ Rules[i] \in bill.asked
                           /\ Running(Rules[i], bill.at) /\ InWindow(Rules[i], bill.at)
=============================================================================
