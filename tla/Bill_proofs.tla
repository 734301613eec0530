------------------------------ MODULE Bill_proofs ------------------------------
(***************************************************************************)
(* Bills of any length, at any prices, with any rules, members and         *)
(* tenders: a quote adds up line by line, tenders pay it exactly, and the  *)
(* rules in it are those whose window is open.                             *)
(***************************************************************************)
EXTENDS Bill, SumTheorems, SequenceTheorems, TLAPS

\* The numbers up to n are finitely many.
LEMMA UpToIsFinite ==
  ASSUME NEW n, n \in Nat
  PROVE  IsFiniteSet(1..n)
<1>1. n \in Int /\ 1 \in Int
  OBVIOUS
<1> QED
  BY <1>1, FS_Interval

-----------------------------------------------------------------------------
(* What the constants are, a constant at a time.                            *)

\* A product has a price and a rate of at most the whole.
LEMMA ProductIs ==
  ASSUME NEW k \in DOMAIN Catalog
  PROVE  Catalog[k].price \in Nat /\ Catalog[k].rate \in Nat /\ Catalog[k].rate <= 10000
BY PricesAssumption

\* The shop's settings are amounts; a point is worth something.
LEMMA SettingsAre ==
  /\ PointValue \in Nat /\ PointValue > 0 /\ Cents \in Nat /\ Cents > 0
  /\ MinRedeem \in Nat /\ PointsPerUnit \in Nat /\ ComboPrice \in Nat
  /\ MaxLines \in Nat /\ MaxTenders \in Nat
  /\ MaxRedeem \in Nat /\ MaxRedeem <= 10000
<1>1. PointValue \in Nat \ {0} /\ Cents \in Nat \ {0}
  BY SettingsAssumption, SMTT(30)
<1>2. /\ MinRedeem \in Nat /\ PointsPerUnit \in Nat /\ ComboPrice \in Nat
      /\ MaxLines \in Nat /\ MaxTenders \in Nat
  BY SettingsAssumption, SMTT(30)
<1>3. MaxRedeem \in 0..10000
  BY SettingsAssumption, SMTT(30)
<1> QED
  BY <1>1, <1>2, <1>3

\* A line that can be rung up is of a product of the catalogue.
LEMMA ItemIs ==
  ASSUME NEW l \in Items
  PROVE  l.product \in DOMAIN Catalog /\ l.qty \in Int /\ l.options \in Int
BY InputsAssumption, SMTT(30)

\* A membership has a discount and a multiplier.
LEMMA PlanIs ==
  ASSUME NEW k \in Members
  PROVE  k.bps \in Nat /\ k.multiplier \in Nat
BY InputsAssumption, SMTT(30)

\* A balance of points is never negative.
LEMMA BalanceIs == Balances \subseteq Nat
BY InputsAssumption, Zenon

\* A moment is a day of the week and a minute of the day.
LEMMA MomentIs ==
  ASSUME NEW m \in Moments
  PROVE  m.day \in 0..6 /\ m.minute \in 0..1439
BY InputsAssumption, SMTT(30)

\* What is tendered is an amount.
LEMMA TenderIs ==
  ASSUME NEW x \in Tendered
  PROVE  x.tendered \in Nat
BY InputsAssumption, SMTT(30)

-----------------------------------------------------------------------------
(* Working through a list.                                                  *)

StepsWithin(step, n, State) == \A x \in State : \A k \in 1..n : step[<<x, k>>] \in State

Iteration(g, n, State, base, step) ==
  /\ g \in [0..n -> State]
  /\ \A k \in 0..n : g[k] = IF k = 0 THEN base ELSE step[<<g[k - 1], k>>]

\* A recursive function over the numbers up to n that stays within a set.
LEMMA Iterates ==
  ASSUME NEW n \in Nat, NEW State, NEW base \in State, NEW step, StepsWithin(step, n, State)
  PROVE  \E g : Iteration(g, n, State, base, step)
<1> USE DEF StepsWithin
<1> DEFINE Done(g, m) == /\ g \in [0..m -> State]
                         /\ \A k \in 0..m : g[k] = IF k = 0 THEN base ELSE step[<<g[k - 1], k>>]
           G == {m \in 0..n : \E g : Done(g, m)}
<1>1. 0 \in G
  <2>1. Done([k \in 0..0 |-> base], 0)
    OBVIOUS
  <2> HIDE DEF Done
  <2> QED
    BY <2>1
<1>2. ASSUME NEW m \in 1..n, m - 1 \in G PROVE m \in G
  <2>1. PICK g : Done(g, m - 1)
    BY <1>2
  <2> DEFINE h == [k \in 0..m |-> IF k = m THEN step[<<g[m - 1], m>>] ELSE g[k]]
  <2>2. m - 1 \in 0..(m - 1) /\ g[m - 1] \in State
    BY <2>1
  <2>3. step[<<g[m - 1], m>>] \in State
    BY <2>2
  <2>4. \A k \in 0..m : k # m => k \in 0..(m - 1)
    OBVIOUS
  <2>5. h \in [0..m -> State]
    BY <2>1, <2>3, <2>4
  <2>6. ASSUME NEW k \in 0..m
        PROVE  h[k] = IF k = 0 THEN base ELSE step[<<h[k - 1], k>>]
    <3>1. CASE k = m
      <4>1. m - 1 \in 0..m /\ m - 1 # m
        OBVIOUS
      <4>2. h[m - 1] = g[m - 1]
        BY <4>1
      <4> QED
        BY <3>1, <4>2
    <3>2. CASE k # m /\ k # 0
      <4>1. k \in 0..(m - 1) /\ k - 1 \in 0..m /\ k - 1 # m
        BY <3>2
      <4>2. h[k] = g[k] /\ h[k - 1] = g[k - 1]
        BY <3>2, <4>1
      <4> HIDE DEF h
      <4> QED
        BY <2>1, <3>2, <4>1, <4>2
    <3>3. CASE k # m /\ k = 0
      <4>1. h[k] = g[k] /\ k \in 0..(m - 1)
        BY <3>3
      <4> HIDE DEF h
      <4> QED
        BY <2>1, <3>3, <4>1
    <3> QED
      BY <3>1, <3>2, <3>3
  <2> HIDE DEF h
  <2>7. Done(h, m)
    BY <2>5, <2>6
  <2> QED
    BY <2>7
<1>3. n \in G
  <2> HIDE DEF G
  <2> QED
    BY <1>1, <1>2, InductionUpTo
<1> QED
  BY <1>3 DEF Iteration

-----------------------------------------------------------------------------
(* Which rules run.                                                         *)

RulesUpTo(g, S) ==
  g = [k \in 0..Len(Rules) |-> IF k = 0 THEN <<>>
                               ELSE IF k \in S THEN Append(g[k - 1], Rules[k])
                               ELSE g[k - 1]]

\* The rules listed are the last value of the function that lists them.
LEMMA RulesUpToIs ==
  ASSUME NEW S
  PROVE  RulesAt(S) = (CHOOSE g : RulesUpTo(g, S))[Len(Rules)]
BY DEF RulesAt, RulesUpTo

\* The rules are a finite list.
LEMMA RulesAreListed ==
  /\ Len(Rules) \in Nat /\ DOMAIN Rules = 1..Len(Rules)
  /\ \A k \in 1..Len(Rules) : Rules[k] \in Range(Rules)
BY RulesAssumption DEF Range

\* The rules at S are listed, and no others.
LEMMA RulesAtAre ==
  ASSUME NEW S, S \subseteq DOMAIN Rules
  PROVE  /\ RulesAt(S) \in Seq(Range(Rules))
         /\ Range(RulesAt(S)) = {Rules[i] : i \in S}
<1> DEFINE n == Len(Rules)
           State == Seq(Range(Rules))
           step == [p \in State \X (1..n) |-> IF p[2] \in S THEN Append(p[1], Rules[p[2]]) ELSE p[1]]
           listed(s) == {s[j] : j \in DOMAIN s}
<1>1. n \in Nat /\ DOMAIN Rules = 1..n /\ \A k \in 1..n : Rules[k] \in Range(Rules)
  BY RulesAreListed
<1>2. \E g : RulesUpTo(g, S)
  <2>1. \A x \in State : \A k \in 1..n : step[<<x, k>>] = IF k \in S THEN Append(x, Rules[k]) ELSE x
    OBVIOUS
  <2> HIDE DEF step
  <2>2. StepsWithin(step, n, State)
    <3> SUFFICES \A x \in State : \A k \in 1..n : step[<<x, k>>] \in State
      BY DEF StepsWithin
    <3> TAKE x \in State
    <3> TAKE k \in 1..n
    <3>1. Append(x, Rules[k]) \in State
      BY <1>1
    <3> HIDE DEF State
    <3> QED
      BY <2>1, <3>1
  <2>3. <<>> \in State
    OBVIOUS
  <2> HIDE DEF State, n
  <2>4. PICK g : Iteration(g, n, State, <<>>, step)
    BY <1>1, <2>2, <2>3, Iterates
  <2>5. ASSUME NEW k \in 0..n
        PROVE  g[k] = IF k = 0 THEN <<>> ELSE IF k \in S THEN Append(g[k - 1], Rules[k]) ELSE g[k - 1]
    <3>1. CASE k = 0
      BY <2>4, <3>1 DEF Iteration
    <3>2. CASE k # 0
      <4>1. k \in 1..n /\ k - 1 \in 0..n
        BY <1>1, <3>2
      <4> QED
        BY <2>1, <2>4, <3>2, <4>1 DEF Iteration
    <3> QED
      BY <3>1, <3>2
  <2>6. RulesUpTo(g, S)
    <3>1. g = [k \in 0..n |-> g[k]]
      BY <2>4 DEF Iteration
    <3> QED
      BY <2>5, <3>1 DEF RulesUpTo, n
  <2> QED
    BY <2>6
<1> DEFINE g == CHOOSE g : RulesUpTo(g, S)
           G == {k \in 0..n : g[k] \in State /\ listed(g[k]) = {Rules[i] : i \in S \cap (1..k)}}
<1>3. RulesUpTo(g, S)
  BY <1>2
<1> HIDE DEF g
<1>4. g[0] = <<>>
  BY <1>1, <1>3 DEF RulesUpTo
<1>5. \A k \in 1..n : g[k] = IF k \in S THEN Append(g[k - 1], Rules[k]) ELSE g[k - 1]
  <2> TAKE k \in 1..n
  <2>1. k \in 0..Len(Rules) /\ k # 0
    BY <1>1
  <2> HIDE DEF n
  <2> QED
    BY <1>3, <2>1 DEF RulesUpTo
<1>6. 0 \in G
  <2>1. S \cap (1..0) = {} /\ listed(<<>>) = {}
    OBVIOUS
  <2>2. g[0] \in State /\ listed(g[0]) = {Rules[i] : i \in S \cap (1..0)}
    BY <1>4, <2>1
  <2> HIDE DEF State, listed
  <2> QED
    BY <1>1, <2>2
<1>7. ASSUME NEW k \in 1..n, k - 1 \in G PROVE k \in G
  <2> DEFINE s == g[k - 1]
  <2>1. s \in State /\ listed(s) = {Rules[i] : i \in S \cap (1..(k - 1))}
    BY <1>7
  <2>2. CASE k \in S
    <3>1. g[k] = Append(s, Rules[k]) /\ Rules[k] \in Range(Rules)
      BY <1>1, <1>5, <2>2
    <3> HIDE DEF s
    <3>2. g[k] \in State
      BY <2>1, <3>1
    <3>3. listed(g[k]) = listed(s) \cup {Rules[k]}
      <4>1. /\ DOMAIN g[k] = 1..(Len(s) + 1) /\ DOMAIN s = 1..Len(s) /\ Len(s) \in Nat
            /\ \A j \in 1..Len(s) : g[k][j] = s[j]
            /\ g[k][Len(s) + 1] = Rules[k]
        BY <2>1, <3>1
      <4>2. 1..(Len(s) + 1) = (1..Len(s)) \cup {Len(s) + 1}
        BY <4>1
      <4> QED
        BY <4>1, <4>2
    <3>4. S \cap (1..k) = (S \cap (1..(k - 1))) \cup {k}
      BY <2>2
    <3>5. listed(g[k]) = {Rules[i] : i \in S \cap (1..k)}
      BY <2>1, <3>3, <3>4
    <3> HIDE DEF State, listed
    <3> QED
      BY <1>1, <3>2, <3>5
  <2>3. CASE k \notin S
    <3>1. g[k] = s /\ S \cap (1..k) = S \cap (1..(k - 1))
      BY <1>5, <2>3
    <3> HIDE DEF s, State, listed
    <3> QED
      BY <1>1, <2>1, <3>1
  <2> QED
    BY <2>2, <2>3
<1>8. n \in G
  <2> HIDE DEF G
  <2> QED
    BY <1>1, <1>6, <1>7, InductionUpTo
<1>9. RulesAt(S) = g[n]
  BY RulesUpToIs DEF g
<1>10. S \cap (1..n) = S
  BY <1>1
<1> QED
  BY <1>8, <1>9, <1>10 DEF Range

\* A concatenation holds what either list holds.
LEMMA RangeOfBoth ==
  ASSUME NEW A, NEW s \in Seq(A), NEW t \in Seq(A)
  PROVE  Range(s \o t) = Range(s) \cup Range(t)
<1> DEFINE m == Len(s)
           n == Len(t)
           u == s \o t
<1>1. /\ m \in Nat /\ n \in Nat /\ DOMAIN s = 1..m /\ DOMAIN t = 1..n /\ DOMAIN u = 1..(m + n)
      /\ \A i \in 1..(m + n) : u[i] = IF i <= m THEN s[i] ELSE t[i - m]
  OBVIOUS
<1> HIDE DEF m, n, u
<1>2. ASSUME NEW i \in 1..m PROVE i \in 1..(m + n) /\ u[i] = s[i]
  BY <1>1
<1>3. ASSUME NEW i \in 1..n PROVE m + i \in 1..(m + n) /\ u[m + i] = t[i]
  <2>1. m + i \in 1..(m + n) /\ ~(m + i <= m) /\ (m + i) - m = i
    BY <1>1
  <2> QED
    BY <1>1, <2>1
<1>4. ASSUME NEW i \in 1..(m + n)
      PROVE  (\E j \in 1..m : u[i] = s[j]) \/ (\E j \in 1..n : u[i] = t[j])
  <2>1. CASE i <= m
    BY <1>1, <2>1
  <2>2. CASE ~(i <= m)
    <3>1. i - m \in 1..n /\ u[i] = t[i - m]
      BY <1>1, <2>2
    <3> QED
      BY <3>1
  <2> QED
    BY <2>1, <2>2
<1>5. Range(u) = Range(s) \cup Range(t)
  <2>1. Range(u) = {u[i] : i \in 1..(m + n)}
    BY <1>1 DEF Range
  <2>2. Range(s) = {s[i] : i \in 1..m} /\ Range(t) = {t[i] : i \in 1..n}
    BY <1>1 DEF Range
  <2>3. ASSUME NEW y \in Range(u) PROVE y \in Range(s) \cup Range(t)
    BY <1>4, <2>1, <2>2
  <2>4. ASSUME NEW y \in Range(s) PROVE y \in Range(u)
    <3>1. PICK i \in 1..m : y = s[i]
      BY <2>2, <2>4
    <3> QED
      BY <1>2, <2>1, <3>1
  <2>5. ASSUME NEW y \in Range(t) PROVE y \in Range(u)
    <3>1. PICK i \in 1..n : y = t[i]
      BY <2>2, <2>5
    <3> QED
      BY <1>3, <2>1, <3>1
  <2> QED
    BY <2>3, <2>4, <2>5
<1> QED
  BY <1>5 DEF u

\* The window that begins on day d, around the week and on the day.
WithinWeek(day, minute, d, from, to) ==
  LET length == (to - from) % 1440
  IN  ((day * 1440 + minute) - (d * 1440 + from)) % (7 * 1440)
        \in 0..((IF length = 0 THEN 1440 ELSE length) - 1)

WithinDay(day, minute, d, from, to) ==
  IF from < to THEN d = day /\ minute \in from..(to - 1)
  ELSE \/ minute >= from /\ d = day
       \/ minute < to /\ d = (day + 6) % 7

\* Minutes of the week, or the day and the time: the same windows.
LEMMA WindowOfDay ==
  ASSUME NEW day, NEW d, NEW minute, NEW from, NEW to, day \in 0..6, d \in 0..6,
         minute \in 0..1439, from \in 0..1439, to \in 1..1440, from # to
  PROVE  WithinWeek(day, minute, d, from, to) <=> WithinDay(day, minute, d, from, to)
<1> DEFINE x == (day * 1440 + minute) - (d * 1440 + from)
           length == (to - from) % 1440
           L == IF length = 0 THEN 1440 ELSE length
<1>1. x \in Int /\ x >= -10080 /\ x < 10080
  OBVIOUS
<1>2. x % 10080 = IF x >= 0 THEN x ELSE x + 10080
  <2> HIDE DEF x
  <2> QED
    BY <1>1
<1>3. L = IF from < to THEN to - from ELSE to - from + 1440
  BY SMTT(30)
<1>4. (day + 6) % 7 = IF day = 0 THEN 6 ELSE day - 1
  OBVIOUS
<1>5. x = 1440 * (day - d) + (minute - from)
  OBVIOUS
<1> HIDE DEF L, x
<1>6. x % 10080 \in 0..(L - 1) <=>
        IF from < to THEN d = day /\ minute \in from..(to - 1)
        ELSE \/ minute >= from /\ d = day
             \/ minute < to /\ d = (day + 6) % 7
  <2>1. CASE from < to
    BY <1>2, <1>3, <1>5, <2>1
  <2>2. CASE ~(from < to)
    BY <1>2, <1>3, <1>4, <1>5, <2>2
  <2> QED
    BY <2>1, <2>2
<1> QED
  BY <1>6 DEF x, L, WithinWeek, WithinDay

\* The check of day and time in the code is the window of the rule, counted
\* in the minutes of the week.
LEMMA WindowsAreKept ==
  ASSUME NEW i \in DOMAIN Rules, NEW m \in Moments
  PROVE  InWindow(Rules[i], m) <=> Allows(Rules[i], m)
<1> DEFINE r == Rules[i]
<1>1. /\ r.days \subseteq 0..6 /\ r.from \in 0..1439 /\ r.to \in 1..1440 /\ r.from # r.to
      /\ m.day \in 0..6 /\ m.minute \in 0..1439
  <2>1. r.days \subseteq 0..6 /\ r.from \in 0..1439 /\ r.to \in 1..1440 /\ r.from # r.to
    BY RulesAssumption, SMTT(30)
  <2> QED
    BY <2>1, MomentIs
<1> HIDE DEF r
<1> DEFINE within(d) == WithinWeek(m.day, m.minute, d, r.from, r.to)
           day(d) == WithinDay(m.day, m.minute, d, r.from, r.to)
<1>2. \A d \in r.days : within(d) <=> day(d)
  <2> TAKE d \in r.days
  <2>1. d \in 0..6
    BY <1>1
  <2> QED
    BY <1>1, <2>1, WindowOfDay
<1>3. InWindow(r, m) <=> \E d \in r.days : within(d)
  BY DEF InWindow, WithinWeek
<1> HIDE DEF within
<1>4. InWindow(r, m) <=> \E d \in r.days : day(d)
  BY <1>2, <1>3
<1>5. (\E d \in r.days : day(d)) <=> Allows(r, m)
  BY DEF Allows, WithinDay
<1> QED
  BY <1>4, <1>5 DEF r

-----------------------------------------------------------------------------
(* What is reached.                                                         *)

IsBill(b) ==
  /\ b.lines \in Carts /\ b.asked \subseteq Manual /\ b.at \in Moments /\ b.inclusive \in BOOLEAN
  /\ b.member \in Members /\ b.balance \in Balances /\ b.redeem \in {0, MinRedeem, b.balance}
  /\ IsCart(b)

QuoteOf(b, q) ==
  \/ b.redeem = 0 /\ q = Basic(b)
  \/ /\ b.redeem \in Most(MinRedeem, 1)..
                       MaxRedeemable(b.balance, Basic(b).subtotal - Basic(b).discount)
     /\ q = WithPoints(b, Basic(b))

IsPayment(due, tenders) ==
  /\ \E n \in 1..MaxTenders : tenders \in [1..n -> Tendered]
  /\ Total(NotCash(tenders)) <= due
  /\ Total([i \in DOMAIN tenders |-> tenders[i].tendered]) >= due

BillInv ==
  /\ bill = NoBill => paid = <<>>
  /\ bill # NoBill => IsBill(bill) /\ QuoteOf(bill, quote)
  /\ paid # <<>> => \E tenders : /\ IsPayment(quote.total, tenders)
                                 /\ paid = Applied(quote.total, tenders)

LEMMA BillStart == BillInit => BillInv
BY DEF BillInit, BillInv

\* A quote is the price of its bill.
LEMMA QuoteKeeps ==
  ASSUME NEW b, BillInv, Quote(b),
         b.lines \in Carts, b.asked \subseteq Manual, b.at \in Moments, b.inclusive \in BOOLEAN,
         b.member \in Members, b.balance \in Balances, b.redeem \in {0, MinRedeem, b.balance}
  PROVE  BillInv'
<1>1. IsBill(b) /\ QuoteOf(b, quote') /\ bill' = b /\ paid' = <<>>
  BY DEF Quote, IsBill, QuoteOf, BillInv
<1>2. IsBill(bill') /\ QuoteOf(bill', quote')
  BY <1>1
<1>3. /\ IsBill(bill)' <=> IsBill(bill')
      /\ QuoteOf(bill, quote)' <=> QuoteOf(bill', quote')
  BY DEF IsBill, QuoteOf
<1> QED
  BY <1>1, <1>2, <1>3 DEF BillInv

\* A settlement is of the total that was quoted.
LEMMA SettleKeeps ==
  ASSUME BillInv, NEW n \in 1..MaxTenders, NEW tenders \in [1..n -> Tendered], Settle(tenders)
  PROVE  BillInv'
<1>1. IsPayment(quote.total, tenders) /\ paid' = Applied(quote.total, tenders)
      /\ bill # NoBill /\ UNCHANGED <<bill, quote>>
  BY DEF Settle, IsPayment
<1> QED
  BY <1>1 DEF BillInv

LEMMA BillStep == BillInv /\ [BillNext]_billVars => BillInv'
<1> SUFFICES ASSUME BillInv, [BillNext]_billVars PROVE BillInv'
  OBVIOUS
<1>1. ASSUME NEW c \in Carts, NEW a \in {{}} \cup {{r} : r \in Manual}, NEW m \in Moments,
             NEW i \in BOOLEAN, NEW k \in Members, NEW p \in Balances,
             NEW n \in {0, MinRedeem, p},
             Quote([lines |-> c, asked |-> a, at |-> m, inclusive |-> i, member |-> k,
                    balance |-> p, redeem |-> n])
      PROVE  BillInv'
  <2> DEFINE b == [lines |-> c, asked |-> a, at |-> m, inclusive |-> i, member |-> k,
                   balance |-> p, redeem |-> n]
  <2>1. a \subseteq Manual
    OBVIOUS
  <2>2. /\ b.lines = c /\ b.asked = a /\ b.at = m /\ b.inclusive = i /\ b.member = k
        /\ b.balance = p /\ b.redeem = n /\ Quote(b)
    BY <1>1
  <2> HIDE DEF b
  <2> QED
    BY <2>1, <2>2, QuoteKeeps
<1>2. ASSUME NEW n \in 1..MaxTenders, NEW tenders \in [1..n -> Tendered], Settle(tenders)
      PROVE  BillInv'
  BY <1>2, SettleKeeps
<1>3. CASE UNCHANGED billVars
  BY <1>3 DEF billVars, BillInv
<1> QED
  BY <1>1, <1>2, <1>3, Zenon DEF BillNext

\* Whatever is quoted and paid is the price of a bill, and its settlement.
THEOREM BillsAlways == BillSpec => []BillInv
BY BillStart, BillStep, PTL DEF BillSpec

-----------------------------------------------------------------------------
(* The rules of a bill.                                                     *)

\* What can be asked for does not run by itself.
LEMMA ManualAre ==
  ASSUME NEW i \in DOMAIN Rules, Rules[i] \in Manual
  PROVE  ~Rules[i].auto
BY DEF Manual

\* The rules among the discounts of a cart.
LEMMA CartRules ==
  ASSUME NEW b, b.asked \subseteq Manual, b.at \in Moments, \A r \in b.asked : IsLive(r, b.at),
         NEW i \in DOMAIN Rules
  PROVE  Rules[i] \in Range(CartDiscounts(b)) <=>
           /\ Rules[i].auto \/ Rules[i] \in b.asked
           /\ Running(Rules[i], b.at) /\ InWindow(Rules[i], b.at)
<1> DEFINE A == {k \in DOMAIN Rules : /\ Rules[k].auto /\ Rules[k] \notin b.asked
                                      /\ IsLive(Rules[k], b.at)}
           B == {k \in DOMAIN Rules : Rules[k] \in b.asked}
           combo == [NoRule EXCEPT !.scope = "group", !.target = 1, !.kind = "target",
                                   !.value = ComboTarget(b.lines)]
           first == IF InCombo(b.lines) = {} THEN <<>> ELSE <<combo>>
           E == Range(Rules) \cup {combo}
<1>1. CartDiscounts(b) = first \o (RulesAt(A) \o RulesAt(B))
  BY DEF CartDiscounts, BillRules
<1>2. combo.scope = "group"
  BY DEF NoRule
<1> HIDE DEF combo
<1>3. Rules[i] # combo /\ Rules[i].auto \in BOOLEAN
  BY <1>2, RulesAssumption
<1>4. /\ RulesAt(A) \in Seq(Range(Rules)) /\ Range(RulesAt(A)) = {Rules[k] : k \in A}
      /\ RulesAt(B) \in Seq(Range(Rules)) /\ Range(RulesAt(B)) = {Rules[k] : k \in B}
  <2>1. A \subseteq DOMAIN Rules /\ B \subseteq DOMAIN Rules
    OBVIOUS
  <2> HIDE DEF A, B
  <2> QED
    BY <2>1, RulesAtAre
<1>5. first \in Seq(E) /\ Range(first) \subseteq {combo}
  <2>1. CASE InCombo(b.lines) = {}
    <3>1. first = <<>> /\ Range(<<>>) = {}
      BY <2>1 DEF Range
    <3> HIDE DEF first, E
    <3> QED
      BY <3>1
  <2>2. CASE InCombo(b.lines) # {}
    <3>1. first = <<combo>> /\ combo \in E
      BY <2>2
    <3>2. Range(<<combo>>) = {combo}
      BY DEF Range
    <3> HIDE DEF first, E
    <3> QED
      BY <3>1, <3>2
  <2> QED
    BY <2>1, <2>2
<1>6. Range(CartDiscounts(b)) = Range(first) \cup {Rules[k] : k \in A} \cup {Rules[k] : k \in B}
  <2> HIDE DEF A, B, first
  <2>1. RulesAt(A) \in Seq(E) /\ RulesAt(B) \in Seq(E)
    BY <1>4
  <2>2. RulesAt(A) \o RulesAt(B) \in Seq(E)
    BY <2>1
  <2> HIDE DEF E
  <2> DEFINE s == RulesAt(A)
             t == RulesAt(B)
             u == s \o t
  <2>3. s \in Seq(E) /\ t \in Seq(E) /\ u \in Seq(E) /\ first \in Seq(E)
    BY <1>5, <2>1, <2>2
  <2>4. Range(s \o t) = Range(s) \cup Range(t)
    <3> HIDE DEF s, t
    <3> QED
      BY <2>3, RangeOfBoth
  <2>5. Range(first \o u) = Range(first) \cup Range(u)
    <3> HIDE DEF u
    <3> QED
      BY <2>3, RangeOfBoth
  <2> QED
    BY <1>1, <1>4, <2>4, <2>5
<1> DEFINE r == Rules[i]
<1>7. r \in {Rules[k] : k \in A} <=> r.auto /\ r \notin b.asked /\ IsLive(r, b.at)
  OBVIOUS
<1>8. r \in {Rules[k] : k \in B} <=> r \in b.asked
  OBVIOUS
<1>9. Running(r, b.at) /\ InWindow(r, b.at) <=> IsLive(r, b.at)
  BY WindowsAreKept DEF IsLive
<1>10. r \in b.asked => ~r.auto /\ IsLive(r, b.at)
  BY ManualAre
<1> HIDE DEF A, B, first, r
<1>11. r \in Range(CartDiscounts(b)) <=> r \in {Rules[k] : k \in A} \/ r \in {Rules[k] : k \in B}
  BY <1>3, <1>5, <1>6 DEF r
<1>12. r \in Range(CartDiscounts(b)) <=> (r.auto \/ r \in b.asked) /\ Running(r, b.at) /\ InWindow(r, b.at)
  BY <1>3, <1>7, <1>8, <1>9, <1>10, <1>11
<1> QED
  BY <1>12 DEF r

\* A rule takes part in a bill exactly when it is running and the moment lies in a window that
\* began on one of its days, whatever the rules and across midnight and the
\* turn of the week.
THEOREM RulesAlwaysInTheirWindow == BillSpec => []RulesInTheirWindow
<1>1. BillInv => RulesInTheirWindow
  <2> SUFFICES ASSUME BillInv, bill # NoBill, NEW i \in DOMAIN Rules
               PROVE  (\E j \in DOMAIN CartDiscounts(bill) : CartDiscounts(bill)[j] = Rules[i])
                        <=> /\ Rules[i].auto \/ Rules[i] \in bill.asked
                            /\ Running(Rules[i], bill.at) /\ InWindow(Rules[i], bill.at)
    BY DEF RulesInTheirWindow, Quoted
  <2>1. /\ bill.asked \subseteq Manual /\ bill.at \in Moments
        /\ \A r \in bill.asked : IsLive(r, bill.at)
    BY DEF BillInv, IsBill, IsCart
  <2>2. Rules[i] \in Range(CartDiscounts(bill)) <=>
          /\ Rules[i].auto \/ Rules[i] \in bill.asked
          /\ Running(Rules[i], bill.at) /\ InWindow(Rules[i], bill.at)
    BY <2>1, CartRules
  <2>3. Rules[i] \in Range(CartDiscounts(bill)) <=>
          \E j \in DOMAIN CartDiscounts(bill) : CartDiscounts(bill)[j] = Rules[i]
    BY DEF Range
  <2> QED
    BY <2>2, <2>3
<1> QED
  BY <1>1, BillsAlways, PTL

-----------------------------------------------------------------------------
(* The tenders.                                                             *)

\* A sum over part of a function's domain, and one over all of it.
LEMMA TotalIs ==
  ASSUME NEW S, IsFiniteSet(S), NEW f, \A x \in S : f[x] \in Int,
         NEW g, DOMAIN g = S, \A x \in S : g[x] = f[x]
  PROVE  Total(g) = SumFunctionOnSet(f, S) /\ Total(g) \in Int
<1>1. SumFunctionOnSet(g, S) = SumFunctionOnSet(f, S)
  BY SumSame
<1>2. SumFunctionOnSet(f, S) \in Int
  BY SumType
<1> QED
  BY <1>1, <1>2 DEF Total

\* Change goes out of the last cash tender first, so the last ones together
\* give as much of it as they hold.
LEMMA ChangeOfLast ==
  ASSUME NEW n, n \in Nat, NEW C \in SUBSET (1..n), NEW t, \A i \in 1..n : t[i] \in Nat,
         NEW change, change \in Nat, NEW f,
         \A i \in C : f[i] = Clamp(change - SumFunctionOnSet(t, {j \in C : j > i}), 0, t[i])
  PROVE  /\ SumFunctionOnSet(f, C) = Least(change, SumFunctionOnSet(t, C))
         /\ \A i \in C : f[i] \in 0..t[i]
<1> DEFINE Last(k) == {j \in C : j > n - k}
           S(k) == SumFunctionOnSet(t, Last(k))
           G == {k \in 0..n : SumFunctionOnSet(f, Last(k)) = Least(change, S(k))}
<1>1. \A U \in SUBSET (1..n) : IsFiniteSet(U)
  <2>1. IsFiniteSet(1..n)
    BY UpToIsFinite
  <2> QED
    BY <2>1, FS_Subset
<1>2. \A U \in SUBSET C : SumFunctionOnSet(t, U) \in Nat
  <2> TAKE U \in SUBSET C
  <2>1. IsFiniteSet(U) /\ \A i \in U : t[i] \in Nat
    BY <1>1
  <2> QED
    BY <2>1, SumNat
<1>3. \A i \in C : f[i] \in 0..t[i]
  <2> TAKE i \in C
  <2> DEFINE s == SumFunctionOnSet(t, {j \in C : j > i})
  <2>1. s \in Nat /\ t[i] \in Nat /\ f[i] = Clamp(change - s, 0, t[i])
    BY <1>2
  <2> HIDE DEF s
  <2> QED
    BY <2>1 DEF Clamp, Most, Least
<1>4. \A i \in C : f[i] \in Int
  <2> TAKE i \in C
  <2>1. f[i] \in 0..t[i] /\ t[i] \in Nat
    BY <1>3
  <2> QED
    BY <2>1
<1>5. \A k \in 0..n : Last(k) \in SUBSET C /\ IsFiniteSet(Last(k)) /\ S(k) \in Nat
  BY <1>1, <1>2
<1>6. 0 \in G
  <2>1. Last(0) = {}
    <3>1. \A j \in 1..n : ~(j > n - 0)
      OBVIOUS
    <3> QED
      BY <3>1
  <2>2. SumFunctionOnSet(f, Last(0)) = 0 /\ S(0) = 0
    BY <2>1, SumEmpty
  <2> HIDE DEF Last
  <2> QED
    BY <2>2 DEF Least
<1>7. ASSUME NEW k \in 1..n, k - 1 \in G PROVE k \in G
  <2> DEFINE i == n - k + 1
  <2>1. /\ i \in 1..n /\ k \in Nat /\ k - 1 \in 0..n /\ k \in 0..n
        /\ \A j \in 1..n : j > n - k <=> j = i \/ j > n - (k - 1)
        /\ \A j \in 1..n : j > i <=> j > n - (k - 1)
    OBVIOUS
  <2>2. SumFunctionOnSet(f, Last(k - 1)) = Least(change, S(k - 1))
    BY <1>7
  <2>3. Last(k) = IF i \in C THEN Last(k - 1) \cup {i} ELSE Last(k - 1)
    BY <2>1
  <2>4. CASE i \notin C
    BY <2>1, <2>2, <2>3, <2>4
  <2>5. CASE i \in C
    <3>1. i \notin Last(k - 1) /\ {j \in C : j > i} = Last(k - 1)
      BY <2>1
    <3>2. f[i] = Clamp(change - S(k - 1), 0, t[i]) /\ t[i] \in Nat
      BY <2>5, <3>1
    <3>3. /\ Last(k - 1) \in SUBSET C /\ IsFiniteSet(Last(k - 1)) /\ S(k - 1) \in Nat
      BY <1>5, <2>1
    <3>4. /\ \A j \in Last(k - 1) : t[j] \in Int /\ f[j] \in Int
          /\ t[i] \in Int /\ f[i] \in Int
      BY <1>4, <2>1, <2>5
    <3>5. Last(k) = Last(k - 1) \cup {i}
      BY <2>3, <2>5
    <3> HIDE DEF Last, i
    <3> DEFINE L == Last(k - 1)
    <3>6. /\ SumFunctionOnSet(t, Last(k)) = t[i] + S(k - 1)
          /\ SumFunctionOnSet(f, Last(k)) = f[i] + SumFunctionOnSet(f, Last(k - 1))
      <4>1. /\ i \notin L /\ IsFiniteSet(L) /\ Last(k) = L \cup {i}
            /\ \A j \in L : t[j] \in Int /\ f[j] \in Int
            /\ t[i] \in Int /\ f[i] \in Int
        BY <3>1, <3>3, <3>4, <3>5
      <4> HIDE DEF L
      <4>2. SumFunctionOnSet(t, L \cup {i}) = t[i] + SumFunctionOnSet(t, L)
        BY <4>1, SumOneMore
      <4>3. SumFunctionOnSet(f, L \cup {i}) = f[i] + SumFunctionOnSet(f, L)
        BY <4>1, SumOneMore
      <4> QED
        BY <4>1, <4>2, <4>3 DEF L
    <3> DEFINE s == S(k - 1)
    <3>7. Clamp(change - s, 0, t[i]) + Least(change, s) = Least(change, t[i] + s)
      <4>1. s \in Nat /\ t[i] \in Nat
        BY <3>2, <3>3
      <4> HIDE DEF s
      <4> QED
        BY <4>1 DEF Clamp, Most, Least
    <3>8. SumFunctionOnSet(f, Last(k)) = Least(change, S(k))
      BY <2>2, <3>2, <3>6, <3>7
    <3> QED
      BY <2>1, <3>8
  <2> QED
    BY <2>4, <2>5
<1>8. n \in G
  <2> HIDE DEF G
  <2>1. 0..n \subseteq G
    BY <1>6, <1>7, InductionUpTo
  <2> QED
    BY <2>1
<1>9. Last(n) = C
  <2>1. \A j \in 1..n : j > n - n
    OBVIOUS
  <2> QED
    BY <2>1
<1> QED
  BY <1>3, <1>8, <1>9

\* Tenders that are enough pay what is due, the change out of cash.
LEMMA PaymentAddsUp ==
  ASSUME NEW due, due \in Int, NEW tenders, IsPayment(due, tenders)
  PROVE  LET p == Applied(due, tenders)
         IN  /\ Total([i \in DOMAIN p |-> p[i].amount]) = due
             /\ \A i \in DOMAIN p : /\ p[i].amount \in 0..p[i].tendered
                                    /\ p[i].change = p[i].tendered - p[i].amount
                                    /\ p[i].change > 0 => p[i].method = "cash"
<1>1. PICK n \in 1..MaxTenders : tenders \in [1..n -> Tendered]
  BY DEF IsPayment
<1> DEFINE p == Applied(due, tenders)
           D == 1..n
           t == [i \in D |-> tenders[i].tendered]
           C == {i \in D : tenders[i].method = "cash"}
           change == Total(t) - due
           f == [i \in D |-> p[i].change]
           a == [i \in D |-> p[i].amount]
<1>2. n \in Nat /\ DOMAIN tenders = D /\ IsFiniteSet(D) /\ C \in SUBSET D
      /\ IsFiniteSet(C) /\ IsFiniteSet(D \ C)
  <2>1. n \in Nat /\ DOMAIN tenders = D /\ C \in SUBSET D
    BY <1>1, SettingsAre
  <2>2. IsFiniteSet(D)
    BY <2>1, UpToIsFinite
  <2> HIDE DEF C, D
  <2> QED
    BY <2>1, <2>2, FS_Subset, FS_Difference
<1>3. \A i \in D : t[i] = tenders[i].tendered /\ t[i] \in Nat
  BY <1>1, TenderIs
<1>4. Total(t) = SumFunctionOnSet(t, D) /\ Total(t) \in Nat
  <2>1. Total(t) = SumFunctionOnSet(t, D)
    BY DEF Total
  <2> HIDE DEF t, D
  <2> QED
    BY <1>2, <1>3, <2>1, SumNat
<1>5. Total([i \in DOMAIN tenders |-> tenders[i].tendered]) = Total(t)
  BY <1>2
<1>6. change \in Nat
  BY <1>4, <1>5 DEF IsPayment
<1>7. \A i \in D : Total([j \in {j \in C : j > i} |-> tenders[j].tendered])
                     = SumFunctionOnSet(t, {j \in C : j > i})
  <2> TAKE i \in D
  <2> DEFINE A == {j \in C : j > i}
             g == [j \in A |-> tenders[j].tendered]
  <2>1. A \in SUBSET D /\ IsFiniteSet(A)
    <3>1. A \in SUBSET C
      OBVIOUS
    <3> HIDE DEF A, C
    <3> QED
      BY <1>2, <3>1, FS_Subset
  <2>2. DOMAIN g = A /\ \A j \in A : t[j] \in Int /\ g[j] = t[j]
    BY <1>3, <2>1
  <2> HIDE DEF A, g, t
  <2>3. Total(g) = SumFunctionOnSet(t, A)
    BY <2>1, <2>2, TotalIs
  <2> QED
    BY <2>3 DEF A, g
<1> DEFINE from(i) == IF i \in C THEN Clamp(change - SumFunctionOnSet(t, {j \in C : j > i}), 0, t[i])
                      ELSE 0
<1>8. /\ DOMAIN p = D
      /\ \A i \in D : /\ p[i].method = tenders[i].method /\ p[i].tendered = t[i]
                      /\ p[i].change = from(i) /\ p[i].amount = t[i] - from(i)
  <2>1. \A i \in D : {j \in DOMAIN tenders : j > i /\ GivesChange(tenders[j].method)}
                       = {j \in C : j > i}
    BY <1>2 DEF GivesChange
  <2>2. Total([i \in DOMAIN tenders |-> tenders[i].tendered]) - due = change
    BY <1>5
  <2>3. \A i \in D : i \in C <=> GivesChange(tenders[i].method)
    BY DEF GivesChange
  <2>4. \A i \in D : t[i] = tenders[i].tendered
    OBVIOUS
  <2> DEFINE taken(i) == IF GivesChange(tenders[i].method)
                         THEN Clamp(Total([k \in DOMAIN tenders |-> tenders[k].tendered]) - due
                                    - Total([j \in {j \in DOMAIN tenders : j > i /\ GivesChange(tenders[j].method)}
                                               |-> tenders[j].tendered]), 0, tenders[i].tendered)
                         ELSE 0
  <2>5. p = [i \in DOMAIN tenders |-> [method |-> tenders[i].method, tendered |-> tenders[i].tendered,
                                       amount |-> tenders[i].tendered - taken(i), change |-> taken(i)]]
    BY DEF Applied
  <2>6. \A i \in D : taken(i) = from(i)
    <3> TAKE i \in D
    <3> HIDE DEF t, C, change
    <3> QED
      BY <1>7, <2>1, <2>2, <2>3, <2>4
  <2> HIDE DEF p, t, C, change, taken, from
  <2> QED
    BY <1>2, <2>4, <2>5, <2>6
<1>9. /\ \A i \in D : f[i] = from(i) /\ a[i] = t[i] - from(i)
  BY <1>8
<1>10. /\ SumFunctionOnSet(f, C) = Least(change, SumFunctionOnSet(t, C))
       /\ \A i \in C : f[i] \in 0..t[i]
  <2>1. \A i \in C : f[i] = Clamp(change - SumFunctionOnSet(t, {j \in C : j > i}), 0, t[i])
    BY <1>2, <1>9
  <2>2. n \in Nat /\ C \in SUBSET (1..n) /\ \A i \in 1..n : t[i] \in Nat
    BY <1>2, <1>3
  <2> HIDE DEF f, t, C, change, D
  <2> QED
    BY <1>6, <2>1, <2>2, ChangeOfLast
<1>11. \A i \in D \ C : f[i] = 0
  BY <1>9
<1>12. \A i \in D : f[i] \in 0..t[i] /\ f[i] \in Int /\ t[i] \in Int
  <2> TAKE i \in D
  <2>1. t[i] \in Nat
    BY <1>3
  <2>2. f[i] \in 0..t[i]
    <3>1. CASE i \in C
      BY <1>10, <3>1
    <3>2. CASE i \notin C
      BY <1>11, <2>1, <3>2
    <3> QED
      BY <3>1, <3>2
  <2> HIDE DEF f, t
  <2> QED
    BY <2>1, <2>2
<1> HIDE DEF f, a, p, from
<1>13. /\ SumFunctionOnSet(t, D) = SumFunctionOnSet(t, C) + SumFunctionOnSet(t, D \ C)
       /\ SumFunctionOnSet(f, D) = SumFunctionOnSet(f, C) + SumFunctionOnSet(f, D \ C)
  <2> HIDE DEF t, C, D
  <2> QED
    BY <1>2, <1>12, SumApart
<1>14. SumFunctionOnSet(f, D \ C) = 0
  <2> HIDE DEF C, D
  <2> QED
    BY <1>2, <1>11, SumOfNothing
<1>15. SumFunctionOnSet(t, D \ C) <= due
  <2> DEFINE g == NotCash(tenders)
  <2>1. DOMAIN g = D \ C /\ \A i \in D \ C : t[i] \in Int /\ g[i] = t[i]
    BY <1>2, <1>3 DEF NotCash
  <2>2. Total(g) <= due
    BY DEF IsPayment
  <2> HIDE DEF g, t, C, D
  <2> QED
    BY <1>2, <2>1, <2>2, TotalIs
<1>16. SumFunctionOnSet(f, D) = change
  <2>1. SumFunctionOnSet(t, C) \in Int /\ SumFunctionOnSet(t, D \ C) \in Int
    <3>1. \A i \in C : t[i] \in Int
      BY <1>12
    <3>2. \A i \in D \ C : t[i] \in Int
      BY <1>12
    <3> HIDE DEF t, C, D
    <3> QED
      BY <1>2, <3>1, <3>2, SumType
  <2>2. change <= SumFunctionOnSet(t, C)
    BY <1>4, <1>13, <1>15, <2>1
  <2> HIDE DEF change, t, C, D
  <2> QED
    BY <1>6, <1>10, <1>13, <1>14, <2>1, <2>2 DEF Least
<1>17. SumFunctionOnSet(t, D) = SumFunctionOnSet(a, D) + SumFunctionOnSet(f, D)
       /\ SumFunctionOnSet(a, D) \in Int
  <2>1. \A i \in D : a[i] \in Int /\ f[i] \in Int /\ t[i] = a[i] + f[i]
    BY <1>9, <1>12
  <2> HIDE DEF t, D
  <2> QED
    BY <1>2, <2>1, SumPlus, SumType
<1>18. SumFunctionOnSet(a, D) = due
  BY <1>4, <1>16, <1>17
<1>19. Total([i \in DOMAIN p |-> p[i].amount]) = due
  <2>1. [i \in DOMAIN p |-> p[i].amount] = a /\ DOMAIN a = D
    BY <1>8 DEF a
  <2> QED
    BY <1>18, <2>1 DEF Total
<1>20. ASSUME NEW i \in D
       PROVE  /\ p[i].amount \in 0..p[i].tendered
              /\ p[i].change = p[i].tendered - p[i].amount
              /\ p[i].change > 0 => p[i].method = "cash"
  <2>1. /\ p[i].change = f[i] /\ p[i].amount = t[i] - f[i] /\ p[i].tendered = t[i]
        /\ f[i] \in 0..t[i] /\ t[i] \in Nat /\ p[i].method = tenders[i].method
    BY <1>3, <1>8, <1>9, <1>12
  <2>2. f[i] > 0 => i \in C
    BY <1>11
  <2> HIDE DEF t
  <2> QED
    BY <2>1, <2>2
<1> QED
  BY <1>8, <1>19, <1>20 DEF p

-----------------------------------------------------------------------------
(* Spreading an amount.                                                     *)

\* Before ranks the indices: exactly k of them come before the k-th.
LEMMA Ranks ==
  ASSUME NEW rem, IsFiniteSet(DOMAIN rem), DOMAIN rem \subseteq Int,
         \A i \in DOMAIN rem : rem[i] \in Int,
         NEW k, k \in Nat, k <= Cardinality(DOMAIN rem)
  PROVE  /\ Cardinality({i \in DOMAIN rem : Before(rem)[i] < k}) = k
         /\ \A i \in DOMAIN rem : Before(rem)[i] \in Nat
<1> DEFINE D == DOMAIN rem
           n == Cardinality(D)
           ahead(i) == {j \in D : rem[j] > rem[i] \/ (rem[j] = rem[i] /\ j < i)}
           turn == Before(rem)
           T == 0..(n - 1)
           K == {i \in D : turn[i] < k}
<1>1. \A U \in SUBSET D : IsFiniteSet(U) /\ Cardinality(U) \in Nat /\ Cardinality(U) <= n
  BY FS_Subset, FS_CardinalityType
<1>2. n \in Nat
  BY FS_CardinalityType
<1>3. DOMAIN turn = D /\ \A i \in D : turn[i] = Cardinality(ahead(i))
  BY DEF Before
<1>4. \A i \in D : ahead(i) \in SUBSET D /\ i \notin ahead(i)
  OBVIOUS
<1>5. \A i \in D : turn[i] \in T
  <2> TAKE i \in D
  <2> DEFINE A == ahead(i)
  <2>1. A \in SUBSET D /\ i \notin A
    BY <1>4
  <2>2. IsFiniteSet(A) /\ Cardinality(A) \in Nat
    BY <1>1, <2>1
  <2> HIDE DEF A
  <2>3. Cardinality(A \cup {i}) = Cardinality(A) + 1 /\ A \cup {i} \in SUBSET D
    BY <2>1, <2>2, FS_AddElement
  <2>4. Cardinality(A) + 1 <= n
    BY <1>1, <2>3
  <2>5. turn[i] = Cardinality(A)
    BY <1>3 DEF A
  <2> HIDE DEF turn, n
  <2> QED
    BY <1>2, <2>2, <2>4, <2>5
<1>6. ASSUME NEW i \in D, NEW j \in D, rem[i] > rem[j] \/ (rem[i] = rem[j] /\ i < j)
      PROVE  turn[i] < turn[j]
  <2> DEFINE A == ahead(i)
             B == ahead(j)
  <2>1. A \cup {i} \subseteq B /\ i \notin A
    BY <1>6
  <2>2. IsFiniteSet(A) /\ IsFiniteSet(B) /\ Cardinality(A) \in Nat /\ Cardinality(B) \in Nat
    BY <1>1, <1>4
  <2> HIDE DEF A, B
  <2>3. Cardinality(A \cup {i}) = Cardinality(A) + 1
    BY <2>1, <2>2, FS_AddElement
  <2>4. Cardinality(A \cup {i}) <= Cardinality(B)
    BY <2>1, <2>2, FS_Subset
  <2>5. turn[i] = Cardinality(A) /\ turn[j] = Cardinality(B)
    BY <1>3 DEF A, B
  <2> HIDE DEF turn
  <2> QED
    BY <2>2, <2>3, <2>4, <2>5
<1>7. ASSUME NEW i \in D, NEW j \in D, turn[i] = turn[j] PROVE i = j
  <2>1. turn[i] \in Nat /\ turn[j] \in Nat
    BY <1>2, <1>5
  <2>2. /\ ~(rem[i] > rem[j] \/ (rem[i] = rem[j] /\ i < j))
        /\ ~(rem[j] > rem[i] \/ (rem[j] = rem[i] /\ j < i))
    <3> HIDE DEF turn
    <3> QED
      BY <1>6, <1>7, <2>1
  <2>3. rem[i] \in Int /\ rem[j] \in Int /\ i \in Int /\ j \in Int
    OBVIOUS
  <2> QED
    BY <2>2, <2>3
<1>8. turn = [i \in D |-> turn[i]]
  BY DEF Before
<1> HIDE DEF turn
<1>9. turn \in Injection(D, T)
  BY <1>3, <1>5, <1>7, <1>8 DEF Injection, IsInjective
<1>10. IsFiniteSet(T) /\ Cardinality(T) = n
  <2> DEFINE h == n - 1
  <2>1. h \in Int /\ n = IF 0 > h THEN 0 ELSE h - 0 + 1
    <3> HIDE DEF n
    <3> QED
      BY <1>2
  <2> HIDE DEF h
  <2> QED
    BY <2>1, FS_Interval DEF h
<1>11. turn \in Surjection(D, T)
  <2> HIDE DEF D, T
  <2> QED
    BY <1>9, <1>10, FS_Injection DEF n
<1>12. \A x \in 0..(k - 1) : \E i \in D : turn[i] = x
  <2>1. \A x \in 0..(k - 1) : x \in T
    BY <1>2
  <2> HIDE DEF T
  <2> QED
    BY <1>11, <2>1 DEF Surjection
<1> DEFINE f == [i \in K |-> turn[i]]
           I == 0..(k - 1)
<1>13. f \in Bijection(K, I)
  <2>1. \A i \in K : turn[i] \in I
    BY <1>2, <1>5
  <2>2. \A x \in I : \E i \in K : turn[i] = x
    <3> TAKE x \in I
    <3>1. PICK i \in D : turn[i] = x
      BY <1>12
    <3>2. x < k
      OBVIOUS
    <3> QED
      BY <3>1, <3>2
  <2>3. \A i, j \in K : turn[i] = turn[j] => i = j
    BY <1>7
  <2>4. f \in [K -> I] /\ \A i \in K : f[i] = turn[i]
    BY <2>1
  <2> HIDE DEF I, K, f
  <2> QED
    BY <2>2, <2>3, <2>4 DEF Bijection, Injection, Surjection, IsInjective
<1>14. IsFiniteSet(K) /\ ExistsBijection(K, I)
  <2>1. K \in SUBSET D
    OBVIOUS
  <2> HIDE DEF K, I, D, f
  <2> QED
    BY <1>1, <1>13, <2>1 DEF ExistsBijection
<1>15. Cardinality(I) = Cardinality(K)
  <2> HIDE DEF K, I
  <2> QED
    BY <1>14, FS_Bijection
<1>16. Cardinality(I) = k
  BY FS_Interval
<1> QED
  BY <1>2, <1>5, <1>15, <1>16 DEF turn

\* An index with nothing left over comes after all that have something.
LEMMA RanksLast ==
  ASSUME NEW rem, IsFiniteSet(DOMAIN rem), \A i \in DOMAIN rem : rem[i] \in Nat,
         NEW i \in DOMAIN rem, rem[i] = 0
  PROVE  Cardinality({j \in DOMAIN rem : rem[j] > 0}) <= Before(rem)[i]
<1> DEFINE D == DOMAIN rem
           P == {j \in D : rem[j] > 0}
           A == {j \in D : rem[j] > rem[i] \/ (rem[j] = rem[i] /\ j < i)}
<1>1. P \in SUBSET A /\ A \in SUBSET D
  OBVIOUS
<1>2. Before(rem)[i] = Cardinality(A)
  BY DEF Before
<1> HIDE DEF P, A
<1>3. IsFiniteSet(A)
  BY <1>1, FS_Subset
<1>4. Cardinality(P) <= Cardinality(A)
  BY <1>1, <1>3, FS_Subset
<1> QED
  BY <1>2, <1>4 DEF P

\* The shares of an amount add up to it, and none is more than its weight.
LEMMA AllocateIs ==
  ASSUME NEW weight, IsFiniteSet(DOMAIN weight), DOMAIN weight \subseteq Int,
         \A i \in DOMAIN weight : weight[i] \in Nat,
         NEW amount, amount \in Nat, Total(weight) > 0, amount <= Total(weight)
  PROVE  /\ DOMAIN Allocate(amount, weight) = DOMAIN weight
         /\ \A i \in DOMAIN weight : Allocate(amount, weight)[i] \in 0..weight[i]
         /\ Total(Allocate(amount, weight)) = amount
<1> DEFINE D == DOMAIN weight
           W == Total(weight)
           prod == [i \in D |-> amount * weight[i]]
           parts == [i \in D |-> (amount * weight[i]) \div W]
           scaled == [i \in D |-> W * parts[i]]
           rem == [i \in D |-> (amount * weight[i]) % W]
           turn == Before(rem)
           P == Total(parts)
           L == amount - P
           share == [i \in D |-> IF turn[i] < L THEN parts[i] + 1 ELSE parts[i]]
           extra == [i \in D |-> IF turn[i] < L THEN 1 ELSE 0]
           some == {i \in D : rem[i] > 0}
           up == {i \in D : turn[i] < L}
           M == Cardinality(some)
<1>1. Allocate(amount, weight) = share
  BY DEF Allocate
<1>2. /\ IsFiniteSet(D) /\ D \subseteq Int /\ \A i \in D : weight[i] \in Nat
      /\ W = SumFunctionOnSet(weight, D) /\ W \in Nat /\ W > 0 /\ amount <= W
  <2>1. SumFunctionOnSet(weight, D) \in Nat
    BY SumNat
  <2> QED
    BY <2>1 DEF Total
<1>3. DOMAIN parts = D /\ DOMAIN rem = D /\ DOMAIN share = D
  OBVIOUS
<1>4. P = SumFunctionOnSet(parts, D)
  BY DEF Total
<1>6. \A i \in D : share[i] = IF turn[i] < L THEN parts[i] + 1 ELSE parts[i]
  OBVIOUS
<1>7. \A i \in D : extra[i] = IF turn[i] < L THEN 1 ELSE 0
  OBVIOUS
<1>8. \A i \in D : /\ prod[i] \in Nat /\ parts[i] \in Nat /\ rem[i] \in Nat /\ rem[i] < W
                   /\ prod[i] = amount * weight[i] /\ scaled[i] = W * parts[i]
                   /\ scaled[i] \in Int /\ rem[i] = prod[i] - scaled[i]
  <2> TAKE i \in D
  <2> DEFINE a == amount * weight[i]
  <2>1. a \in Nat
    BY <1>2
  <2>2. prod[i] = a /\ parts[i] = a \div W /\ rem[i] = a % W /\ scaled[i] = W * parts[i]
    OBVIOUS
  <2> HIDE DEF W, prod, parts, scaled, rem
  <2>3. a % W = a - W * (a \div W) /\ a % W \in Nat /\ a % W < W /\ a \div W \in Nat
    <3> HIDE DEF a
    <3> QED
      BY <1>2, <2>1, DivMod
  <2>4. W * parts[i] \in Int
    BY <1>2, <2>2, <2>3, Times
  <2> QED
    BY <2>1, <2>2, <2>3, <2>4
<1> HIDE DEF D, W, prod, parts, scaled, rem, turn, share, extra
<1>9. SumFunctionOnSet(prod, D) = amount * W
  <2>1. /\ amount \in Int /\ IsFiniteSet(D)
        /\ \A i \in D : weight[i] \in Int /\ prod[i] = amount * weight[i]
    BY <1>2, <1>8
  <2>2. SumFunctionOnSet(prod, D) = amount * SumFunctionOnSet(weight, D)
    BY <2>1, SumTimes
  <2> QED
    BY <1>2, <2>2
<1>10. SumFunctionOnSet(parts, D) \in Nat /\ SumFunctionOnSet(rem, D) \in Nat
  BY <1>2, <1>8, SumNat
<1>11. SumFunctionOnSet(scaled, D) = W * P
  <2>1. /\ W \in Int /\ IsFiniteSet(D)
        /\ \A i \in D : parts[i] \in Int /\ scaled[i] = W * parts[i]
    BY <1>2, <1>8
  <2>2. SumFunctionOnSet(scaled, D) = W * SumFunctionOnSet(parts, D)
    BY <2>1, SumTimes
  <2> QED
    BY <1>4, <2>2
<1>12. SumFunctionOnSet(prod, D) = SumFunctionOnSet(scaled, D) + SumFunctionOnSet(rem, D)
  <2>1. \A i \in D : scaled[i] \in Int /\ rem[i] \in Int /\ prod[i] = scaled[i] + rem[i]
    BY <1>8
  <2> QED
    BY <1>2, <2>1, SumPlus
<1>13. P \in Nat /\ L \in Int /\ SumFunctionOnSet(rem, D) = W * L
  <2>1. P \in Nat
    BY <1>4, <1>10
  <2> HIDE DEF P
  <2>2. W * (P + L) = W * P + W * L /\ P + L = amount /\ W * P \in Int /\ W * L \in Int
    BY <1>2, <2>1, Times
  <2>3. amount * W = W * amount /\ W * amount \in Int
    BY <1>2
  <2>4. W * amount = W * P + SumFunctionOnSet(rem, D)
    BY <1>9, <1>11, <1>12, <2>3
  <2>5. W * amount = W * P + W * L
    BY <2>2
  <2> DEFINE R == SumFunctionOnSet(rem, D)
             x == W * P
             y == W * L
  <2>6. R \in Int /\ x \in Int /\ y \in Int /\ x + R = x + y
    BY <1>10, <2>2, <2>4, <2>5
  <2>7. L \in Int
    BY <1>2, <2>1
  <2> HIDE DEF R, x, y
  <2>8. R = y
    BY <2>6
  <2> QED
    BY <2>1, <2>7, <2>8 DEF R, y
<1>14. /\ some \in SUBSET D /\ IsFiniteSet(some) /\ IsFiniteSet(D \ some) /\ M \in Nat
       /\ M <= Cardinality(D) /\ Cardinality(D) \in Nat
  <2>1. some \in SUBSET D
    OBVIOUS
  <2> HIDE DEF some
  <2> QED
    BY <1>2, <2>1, FS_Subset, FS_Difference, FS_CardinalityType
<1>15. SumFunctionOnSet(rem, D) <= (W - 1) * M
  <2> DEFINE ones == [i \in some |-> 1]
             full == [i \in some |-> W - 1]
  <2>1. SumFunctionOnSet(rem, D) = SumFunctionOnSet(rem, some) + SumFunctionOnSet(rem, D \ some)
    <3>1. \A i \in D : rem[i] \in Int
      BY <1>8
    <3> HIDE DEF some
    <3> QED
      BY <1>2, <1>14, <3>1, SumApart
  <2>2. \A i \in D \ some : rem[i] = 0
    BY <1>8
  <2>3. \A i \in some : /\ rem[i] \in Int /\ full[i] \in Int /\ rem[i] <= full[i]
                        /\ ones[i] = 1 /\ ones[i] \in Int /\ full[i] = (W - 1) * ones[i]
    BY <1>2, <1>8
  <2> HIDE DEF some, ones, full
  <2>4. SumFunctionOnSet(rem, D \ some) = 0
    BY <1>14, <2>2, SumOfNothing
  <2>5. SumFunctionOnSet(rem, some) <= SumFunctionOnSet(full, some)
    BY <1>14, <2>3, SumAtMost
  <2>6. SumFunctionOnSet(full, some) = (W - 1) * SumFunctionOnSet(ones, some)
    <3>1. W - 1 \in Int
      BY <1>2
    <3> QED
      BY <1>14, <2>3, <3>1, SumTimes
  <2>7. SumFunctionOnSet(ones, some) = M
    BY <1>14, <2>3, SumOfOnes
  <2>8. SumFunctionOnSet(rem, some) \in Int
    BY <1>14, <2>3, SumType
  <2> QED
    BY <2>1, <2>4, <2>5, <2>6, <2>7, <2>8
<1> HIDE DEF P, L, M
<1>16. L \in Nat /\ L <= M
  <2>1. W * L \in Int /\ W * M \in Int /\ W * 0 = 0 /\ (W - 1) * M = W * M - M
    BY <1>2, <1>13, <1>14
  <2>2. W * L >= 0 /\ W * L <= W * M
    BY <1>10, <1>13, <1>14, <1>15, <2>1
  <2>3. ~(L < 0)
    <3>1. L < 0 => W * L < W * 0
      <4> HAVE L < 0
      <4>1. W * (L + 1) <= W * 0 /\ W * (L + 1) = W * L + W
        BY <1>2, <1>13, Times
      <4> QED
        BY <1>2, <2>1, <4>1
    <3> QED
      BY <2>1, <2>2, <3>1
  <2>4. ~(M < L)
    <3>1. M < L => W * (M + 1) <= W * L
      BY <1>2, <1>13, <1>14, Times
    <3>2. W * (M + 1) = W * M + W
      BY <1>2, <1>14
    <3> QED
      BY <1>2, <2>1, <2>2, <3>1, <3>2
  <2> QED
    BY <1>13, <1>14, <2>3, <2>4
<1>17. Cardinality(up) = L /\ \A i \in D : turn[i] \in Nat
  <2>1. DOMAIN rem = D /\ \A i \in D : rem[i] \in Int
    BY <1>3, <1>8
  <2>2. L \in Nat /\ L <= Cardinality(D)
    BY <1>14, <1>16
  <2> QED
    BY <1>2, <2>1, <2>2, Ranks DEF turn
<1>18. ASSUME NEW i \in up PROVE rem[i] > 0
  <2>1. rem[i] = 0 => M <= turn[i]
    BY <1>2, <1>3, <1>8, RanksLast DEF turn, M
  <2>2. turn[i] < L /\ turn[i] \in Nat /\ rem[i] \in Nat
    BY <1>8, <1>17
  <2> QED
    BY <1>14, <1>16, <2>1, <2>2
<1>19. ASSUME NEW i \in D
       PROVE  /\ parts[i] <= weight[i]
              /\ rem[i] > 0 => parts[i] < weight[i]
  <2> DEFINE p == parts[i]
             w == weight[i]
  <2>1. p \in Nat /\ w \in Nat /\ W * p \in Int /\ W * w \in Int /\ W * p + rem[i] = amount * w
        /\ rem[i] \in Nat
    BY <1>2, <1>8, Times
  <2>2. amount * w <= W * w
    <3>1. w * amount <= w * W
      <4>1. CASE w = 0
        BY <1>2, <4>1
      <4>2. CASE w > 0
        BY <1>2, <2>1, <4>2, Times
      <4> QED
        BY <2>1, <4>1, <4>2
    <3>2. w * amount = amount * w /\ w * W = W * w
      BY <1>2, <2>1
    <3> QED
      BY <3>1, <3>2
  <2> HIDE DEF p, w
  <2>3. W * p + rem[i] <= W * w
    BY <2>1, <2>2
  <2>4. rem[i] > 0 => p < w
    BY <1>2, <2>1, <2>3, Times
  <2>5. p <= w
    <3>1. W * (w + 1) = W * w + W
      BY <1>2, <2>1
    <3>2. p > w => W * (w + 1) <= W * p
      BY <1>2, <2>1, Times
    <3> QED
      BY <1>2, <2>1, <2>3, <3>1, <3>2
  <2> QED
    BY <2>4, <2>5 DEF p, w
<1>20. \A i \in D : share[i] \in 0..weight[i]
  <2> TAKE i \in D
  <2>1. parts[i] \in Nat /\ weight[i] \in Nat
    BY <1>2, <1>8
  <2>2. CASE turn[i] < L
    <3>1. parts[i] < weight[i]
      BY <1>18, <1>19, <2>2
    <3>2. share[i] = parts[i] + 1
      BY <1>6, <2>2
    <3> QED
      BY <2>1, <3>1, <3>2
  <2>3. CASE ~(turn[i] < L)
    BY <1>6, <1>19, <2>1, <2>3
  <2> QED
    BY <2>2, <2>3
<1>21. SumFunctionOnSet(extra, D) = L
  <2>1. up \in SUBSET D /\ (\A i \in up : extra[i] = 1) /\ \A i \in D \ up : extra[i] = 0
    BY <1>7
  <2>2. IsFiniteSet(up) /\ IsFiniteSet(D \ up)
    <3> HIDE DEF up
    <3> QED
      BY <1>2, <2>1, FS_Subset, FS_Difference
  <2>3. \A i \in D : extra[i] \in Int
    BY <1>7
  <2> HIDE DEF up
  <2>4. SumFunctionOnSet(extra, D) = SumFunctionOnSet(extra, up) + SumFunctionOnSet(extra, D \ up)
    BY <1>2, <2>1, <2>3, SumApart
  <2>5. SumFunctionOnSet(extra, up) = Cardinality(up)
    BY <2>1, <2>2, SumOfOnes
  <2>6. SumFunctionOnSet(extra, D \ up) = 0
    BY <2>1, <2>2, SumOfNothing
  <2> QED
    BY <1>16, <1>17, <2>4, <2>5, <2>6
<1>22. SumFunctionOnSet(share, D) = amount
  <2>1. \A i \in D : parts[i] \in Int /\ extra[i] \in Int /\ share[i] = parts[i] + extra[i]
    BY <1>6, <1>7, <1>8
  <2>2. SumFunctionOnSet(share, D) = P + L
    BY <1>2, <1>4, <1>21, <2>1, SumPlus
  <2> QED
    BY <1>13, <2>2 DEF L
<1> QED
  BY <1>1, <1>3, <1>20, <1>22 DEF Total, D

-----------------------------------------------------------------------------
(* The lines.                                                               *)

\* A list worked out element by element is the list.
LEMMA ListedIs ==
  ASSUME NEW n, n \in Nat, NEW f, DOMAIN f = 1..n, f = [i \in 1..n |-> f[i]]
  PROVE  Listed(f) = f
<1> DEFINE E == Range(f)
<1>1. \A i \in 1..n : f[i] \in E
  BY DEF Range
<1> HIDE DEF E
<1>2. f \in Seq(E) /\ Len(f) = n
  <2>1. f \in [1..n -> E]
    BY <1>1
  <2> QED
    BY <2>1
<1>3. SubSeq(f, 1, n) = [i \in 1..n |-> f[i]]
  BY <1>2
<1> QED
  BY <1>2, <1>3 DEF Listed

\* Rounding to the nearest stays below any whole number the quotient does.
LEMMA RoundedIs ==
  ASSUME NEW n, n \in Nat, NEW d, d \in Nat, d > 0
  PROVE  /\ Rounded(n, d) \in Nat
         /\ \A m \in Nat : n <= m * d => Rounded(n, d) <= m
         /\ \A m \in Nat : n = m * d => Rounded(n, d) = m
         /\ n = 0 => Rounded(n, d) = 0
<1>1. 2 * d \in Int /\ 2 * d > 0 /\ 2 * n + d \in Int /\ 2 * n + d >= 0
  OBVIOUS
<1>2. Rounded(n, d) = (2 * n + d) \div (2 * d)
  BY DEF Rounded
<1>3. Rounded(n, d) \in Nat
  <2> DEFINE a == 2 * n + d
             c == 2 * d
  <2>1. a \in Nat /\ c \in Nat /\ c > 0
    OBVIOUS
  <2> HIDE DEF a, c
  <2>2. a \div c \in Nat
    BY <2>1, DivMod
  <2> QED
    BY <1>2, <2>2 DEF a, c
<1>4. ASSUME NEW m \in Nat PROVE (2 * (m * d) + d) \div (2 * d) = m
  BY DivWhole
<1>5. ASSUME NEW m \in Nat, n <= m * d PROVE Rounded(n, d) <= m
  <2>1. m * d \in Int
    OBVIOUS
  <2> DEFINE x == m * d
             a == 2 * n + d
             e == 2 * x + d
             c == 2 * d
  <2>2. a <= e /\ a \in Int /\ e \in Int /\ c \in Int /\ c > 0
    <3> HIDE DEF x
    <3> QED
      BY <1>5, <2>1 DEF x
  <2> HIDE DEF a, e, c
  <2>3. a \div c <= e \div c
    BY <2>2, DivMonotone
  <2> QED
    BY <1>2, <1>4, <2>3 DEF a, e, c
<1>6. ASSUME NEW m \in Nat, n = m * d PROVE Rounded(n, d) = m
  BY <1>2, <1>4, <1>6
<1>7. n = 0 => Rounded(n, d) = 0
  <2>1. 0 * d = 0 /\ 0 \in Nat
    OBVIOUS
  <2> QED
    BY <1>6, <2>1
<1> QED
  BY <1>3, <1>5, <1>6, <1>7

IsLine(l) == /\ l \in Items /\ l.qty > 0
             /\ Catalog[l.product].price + l.options >= 0

\* A line costs something or nothing.
LEMMA LineIs ==
  ASSUME NEW l, IsLine(l)
  PROVE  /\ l.product \in DOMAIN Catalog /\ l.qty \in Nat /\ l.options \in Int
         /\ Gross(l) \in Nat
         /\ Catalog[l.product].rate \in Nat /\ Catalog[l.product].rate <= 10000
<1> DEFINE p == Catalog[l.product].price + l.options
           q == l.qty
<1>1. l.product \in DOMAIN Catalog /\ l.qty \in Nat /\ l.options \in Int
  BY ItemIs DEF IsLine
<1>2. /\ Catalog[l.product].price \in Nat
      /\ Catalog[l.product].rate \in Nat /\ Catalog[l.product].rate <= 10000
  BY <1>1, ProductIs
<1>3. p \in Nat /\ q \in Nat
  BY <1>1, <1>2 DEF IsLine
<1>4. Gross(l) = Rounded(p * q, 1000)
  BY DEF Gross
<1> HIDE DEF p, q
<1>5. p * q \in Nat
  BY <1>3
<1>6. Gross(l) \in Nat
  BY <1>4, <1>5, RoundedIs
<1> QED
  BY <1>1, <1>2, <1>6

\* The tax of a line is part of what is charged for it, and none at rate 0.
LEMMA TaxIs ==
  ASSUME NEW net, net \in Nat, NEW rate, rate \in Nat, NEW inclusive, inclusive \in BOOLEAN
  PROVE  /\ TaxOf(net, rate, inclusive) \in Nat
         /\ inclusive => TaxOf(net, rate, inclusive) <= net
         /\ rate = 0 => TaxOf(net, rate, inclusive) = 0
<1> DEFINE in == net * 10000
           d == 10000 + rate
           x == net * rate
<1>1. in \in Nat /\ d \in Nat /\ d > 0 /\ x \in Nat
  OBVIOUS
<1>2. in <= net * d /\ (rate = 0 => in = net * d)
  <2>1. net * d = net * 10000 + net * rate
    OBVIOUS
  <2>2. rate = 0 => x = 0
    OBVIOUS
  <2> QED
    BY <1>1, <2>1, <2>2
<1>3. rate = 0 => x = 0
  OBVIOUS
<1> HIDE DEF in, d, x
<1>4. Rounded(in, d) \in Nat /\ Rounded(in, d) <= net /\ (rate = 0 => Rounded(in, d) = net)
  BY <1>1, <1>2, RoundedIs
<1>5. Rounded(x, 10000) \in Nat /\ (rate = 0 => Rounded(x, 10000) = 0)
  BY <1>1, <1>3, RoundedIs
<1>6. TaxOf(net, rate, inclusive) = IF inclusive THEN net - Rounded(in, d) ELSE Rounded(x, 10000)
  BY DEF TaxOf, Part, in, d, x
<1> QED
  BY <1>4, <1>5, <1>6

-----------------------------------------------------------------------------
(* The discounts.                                                           *)

IsDiscount(d) ==
  /\ d.scope \in {"product", "category", "group", "order"}
  /\ d.kind \in {"percentage", "fixed", "target"}
  /\ d.value \in Nat /\ d.min \in Nat

\* A discount takes no more than there is.
LEMMA TakenIs ==
  ASSUME NEW d, IsDiscount(d), NEW base, base \in Nat
  PROVE  /\ Taken(d, base) \in 0..base
         /\ d.kind = "fixed" /\ d.value <= base => Taken(d, base) = d.value
         /\ d.kind = "target" => base - Taken(d, base) <= d.value
<1> DEFINE raw == CASE d.kind = "percentage" -> Part(base, d.value)
                    [] d.kind = "fixed" -> d.value
                    [] d.kind = "target" -> base - d.value
<1>1. Taken(d, base) = Clamp(raw, 0, Most(base, 0))
  BY DEF Taken
<1>2. Part(base, d.value) \in Nat
  <2>1. base * d.value \in Nat
    BY DEF IsDiscount
  <2> QED
    BY <2>1, RoundedIs DEF Part
<1>3. /\ raw \in Int
      /\ d.kind = "fixed" => raw = d.value
      /\ d.kind = "target" => raw = base - d.value
  BY <1>2 DEF IsDiscount
<1> HIDE DEF raw
<1> QED
  BY <1>1, <1>3 DEF Clamp, Most, Least, IsDiscount

CartOf(lines, n) == n \in Nat /\ DOMAIN lines = 1..n /\ \A i \in 1..n : IsLine(lines[i])

\* What may be off the lines, and more of it.
Offs(lines) == {off \in [DOMAIN lines -> Nat] : \A i \in DOMAIN lines : off[i] <= Gross(lines[i])}
Grows(lines, off, more) == \A i \in DOMAIN lines : off[i] <= more[i]

\* What is left of the lines in S.
LeftOf(lines, off, S) == [i \in S |-> Gross(lines[i]) - off[i]]

\* Any lines of a cart are finitely many.
LEMMA CartIs ==
  ASSUME NEW n, NEW lines, CartOf(lines, n)
  PROVE  /\ n \in Nat /\ DOMAIN lines = 1..n /\ IsFiniteSet(1..n)
         /\ \A i \in 1..n : Gross(lines[i]) \in Nat
         /\ \A S \in SUBSET (1..n) : IsFiniteSet(S)
<1>1. n \in Nat /\ DOMAIN lines = 1..n /\ \A i \in 1..n : Gross(lines[i]) \in Nat
  BY LineIs DEF CartOf
<1>2. IsFiniteSet(1..n)
  BY <1>1, UpToIsFinite
<1> QED
  BY <1>1, <1>2, FS_Subset

\* There is never less than nothing left of a line.
LEMMA LeftIs ==
  ASSUME NEW n, NEW lines, CartOf(lines, n), NEW off \in Offs(lines), NEW S \in SUBSET (1..n)
  PROVE  /\ \A i \in S : LeftOf(lines, off, S)[i] = Gross(lines[i]) - off[i]
         /\ \A i \in S : LeftOf(lines, off, S)[i] \in Nat
         /\ DOMAIN LeftOf(lines, off, S) = S
         /\ Total(LeftOf(lines, off, S)) \in Nat
<1> DEFINE left == LeftOf(lines, off, S)
<1>1. DOMAIN left = S /\ \A i \in S : left[i] = Gross(lines[i]) - off[i]
  BY DEF LeftOf
<1>2. DOMAIN lines = 1..n /\ \A i \in 1..n : Gross(lines[i]) \in Nat
  BY CartIs
<1>3. \A i \in 1..n : off[i] \in Nat /\ off[i] <= Gross(lines[i])
  BY <1>2 DEF Offs
<1> HIDE DEF left
<1>4. \A i \in S : left[i] \in Nat
  BY <1>1, <1>2, <1>3
<1>5. SumFunctionOnSet(left, S) \in Nat
  BY <1>4, CartIs, SumNat
<1> QED
  BY <1>1, <1>4, <1>5 DEF left, Total

\* A rule for lines takes no more off a line than is left of it.
LEMMA OnLinesKeeps ==
  ASSUME NEW n, NEW lines, CartOf(lines, n), NEW off \in Offs(lines), NEW d, IsDiscount(d)
  PROVE  /\ OnLines(lines, off, d) \in Offs(lines)
         /\ Grows(lines, off, OnLines(lines, off, d))
<1> DEFINE more == [i \in DOMAIN off |-> IF LineMatches(d, lines[i])
                                         THEN off[i] + Taken(d, Gross(lines[i]) - off[i]) ELSE off[i]]
<1>1. /\ n \in Nat /\ DOMAIN lines = 1..n /\ DOMAIN off = 1..n
      /\ \A i \in 1..n : Gross(lines[i]) \in Nat /\ off[i] \in Nat /\ off[i] <= Gross(lines[i])
  BY CartIs DEF Offs
<1>2. OnLines(lines, off, d) = more
  <2>1. DOMAIN more = 1..n /\ more = [i \in 1..n |-> more[i]]
    BY <1>1
  <2>2. OnLines(lines, off, d) = Listed(more)
    BY DEF OnLines
  <2> HIDE DEF more
  <2> QED
    BY <1>1, <2>1, <2>2, ListedIs
<1>3. ASSUME NEW i \in 1..n
      PROVE  more[i] \in Nat /\ off[i] <= more[i] /\ more[i] <= Gross(lines[i])
  <2> DEFINE g == Gross(lines[i])
             o == off[i]
             t == Taken(d, g - o)
  <2>1. g \in Nat /\ o \in Nat /\ o <= g
    BY <1>1
  <2>2. more[i] = IF LineMatches(d, lines[i]) THEN o + t ELSE o
    BY <1>1
  <2>3. t \in 0..(g - o)
    <3> HIDE DEF g, o
    <3>1. g - o \in Nat
      BY <2>1
    <3> QED
      BY <3>1, TakenIs
  <2> HIDE DEF g, o, t, more
  <2>4. more[i] \in Nat /\ o <= more[i] /\ more[i] <= g
    BY <2>1, <2>2, <2>3
  <2> QED
    BY <2>4 DEF g, o
<1>4. more = [i \in 1..n |-> more[i]]
  BY <1>1
<1> HIDE DEF more
<1>5. more \in [1..n -> Nat]
  BY <1>3, <1>4
<1> QED
  BY <1>1, <1>2, <1>3, <1>5 DEF Offs, Grows

\* What is spread over some lines is taken from them and from no others.
LEMMA SpreadIs ==
  ASSUME NEW n, NEW lines, CartOf(lines, n), NEW off \in Offs(lines), NEW d, IsDiscount(d),
         NEW S \in SUBSET (1..n)
  PROVE  /\ Spread(lines, off, d, S) \in Offs(lines)
         /\ Grows(lines, off, Spread(lines, off, d, S))
         /\ SumFunctionOnSet(Spread(lines, off, d, S), S)
              = SumFunctionOnSet(off, S) + Taken(d, Total(LeftOf(lines, off, S)))
<1> DEFINE left == LeftOf(lines, off, S)
           amount == Taken(d, Total(left))
           share == Allocate(amount, left)
           more == [i \in DOMAIN off |-> IF i \in S THEN off[i] + share[i] ELSE off[i]]
<1>1. /\ n \in Nat /\ DOMAIN lines = 1..n /\ DOMAIN off = 1..n
      /\ \A i \in 1..n : Gross(lines[i]) \in Nat /\ off[i] \in Nat /\ off[i] <= Gross(lines[i])
      /\ IsFiniteSet(S)
  BY CartIs DEF Offs
<1>2. /\ DOMAIN left = S /\ Total(left) \in Nat
      /\ \A i \in S : left[i] = Gross(lines[i]) - off[i] /\ left[i] \in Nat
  BY LeftIs
<1>3. Spread(lines, off, d, S) = IF amount = 0 THEN off ELSE Listed(more)
  BY DEF Spread, LeftOf
<1> HIDE DEF left
<1>4. amount \in Nat /\ amount <= Total(left)
  <2>1. amount \in 0..Total(left)
    BY <1>2, TakenIs
  <2> HIDE DEF amount
  <2> QED
    BY <1>2, <2>1
<1>5. SumFunctionOnSet(off, S) \in Int
  <2>1. \A i \in S : off[i] \in Int
    BY <1>1
  <2> QED
    BY <1>1, <2>1, SumType
<1>6. CASE amount = 0
  <2>1. Spread(lines, off, d, S) = off
    BY <1>3, <1>6
  <2>2. Grows(lines, off, off)
    BY <1>1 DEF Grows
  <2>3. SumFunctionOnSet(off, S) = SumFunctionOnSet(off, S) + amount
    BY <1>5, <1>6
  <2> QED
    BY <2>1, <2>2, <2>3 DEF left
<1>7. CASE amount # 0
  <2>1. DOMAIN more = 1..n /\ more = [i \in 1..n |-> more[i]]
    BY <1>1
  <2>2. \A i \in 1..n : more[i] = IF i \in S THEN off[i] + share[i] ELSE off[i]
    BY <1>1
  <2>3. /\ DOMAIN share = S /\ (\A i \in S : share[i] \in 0..left[i]) /\ Total(share) = amount
    <3> HIDE DEF amount
    <3>1. Total(left) > 0
      BY <1>2, <1>4, <1>7
    <3>2. S \subseteq Int
      BY <1>1
    <3> QED
      BY <1>1, <1>2, <1>4, <3>1, <3>2, AllocateIs
  <2> HIDE DEF more, share
  <2>4. Spread(lines, off, d, S) = more
    <3>1. Spread(lines, off, d, S) = Listed(more)
      BY <1>3, <1>7
    <3> QED
      BY <1>1, <2>1, <3>1, ListedIs
  <2>5. ASSUME NEW i \in 1..n
        PROVE  more[i] \in Nat /\ off[i] <= more[i] /\ more[i] <= Gross(lines[i])
    <3>1. CASE i \in S
      <4>1. /\ share[i] \in 0..left[i] /\ left[i] = Gross(lines[i]) - off[i]
            /\ more[i] = off[i] + share[i] /\ off[i] \in Nat /\ Gross(lines[i]) \in Nat
            /\ left[i] \in Nat
        BY <1>1, <1>2, <2>2, <2>3, <3>1
      <4> QED
        BY <4>1
    <3>2. CASE i \notin S
      BY <1>1, <2>2, <3>2
    <3> QED
      BY <3>1, <3>2
  <2>6. more \in [1..n -> Nat]
    BY <2>1, <2>5
  <2>7. more \in Offs(lines) /\ Grows(lines, off, more)
    BY <1>1, <2>5, <2>6 DEF Offs, Grows
  <2>8. SumFunctionOnSet(more, S) = SumFunctionOnSet(off, S) + SumFunctionOnSet(share, S)
    <3>1. \A i \in S : off[i] \in Int /\ share[i] \in Int /\ more[i] = off[i] + share[i]
      <4> TAKE i \in S
      <4>1. share[i] \in 0..left[i] /\ left[i] \in Nat /\ off[i] \in Nat /\ more[i] = off[i] + share[i]
        BY <1>1, <1>2, <2>2, <2>3
      <4> QED
        BY <4>1
    <3> QED
      BY <1>1, <3>1, SumPlus
  <2>9. SumFunctionOnSet(share, S) = amount
    BY <2>3 DEF Total
  <2> QED
    BY <2>4, <2>7, <2>8, <2>9 DEF amount, left
<1> QED
  BY <1>6, <1>7

\* No discount takes off more than is left, nor gives back what is off.
LEMMA DiscountedKeeps ==
  ASSUME NEW n, NEW lines, CartOf(lines, n), NEW off \in Offs(lines), NEW d, IsDiscount(d)
  PROVE  /\ Discounted(lines, off, d) \in Offs(lines)
         /\ Grows(lines, off, Discounted(lines, off, d))
<1>1. Grows(lines, off, off)
  BY CartIs DEF Offs, Grows
<1>2. DOMAIN lines = 1..n
  BY DEF CartOf
<1>3. CASE d.scope \in {"product", "category"}
  <2>1. Discounted(lines, off, d) = OnLines(lines, off, d)
    BY <1>3 DEF Discounted
  <2> QED
    BY <2>1, OnLinesKeeps
<1>4. CASE d.scope = "group"
  <2> DEFINE S == {i \in DOMAIN lines : lines[i].combo = d.target}
  <2>1. Discounted(lines, off, d) = Spread(lines, off, d, S)
    BY <1>4 DEF Discounted, OnGroup
  <2>2. S \in SUBSET (1..n)
    BY <1>2
  <2> HIDE DEF S
  <2> QED
    BY <2>1, <2>2, SpreadIs
<1>5. CASE d.scope = "order"
  <2>1. Discounted(lines, off, d) = off \/ Discounted(lines, off, d) = Spread(lines, off, d, 1..n)
    BY <1>2, <1>5 DEF Discounted, OnOrder
  <2>2. 1..n \in SUBSET (1..n)
    OBVIOUS
  <2> QED
    BY <1>1, <2>1, <2>2, SpreadIs, ZenonT(60)
<1> QED
  BY <1>3, <1>4, <1>5 DEF IsDiscount

-----------------------------------------------------------------------------
(* The passes over the discounts.                                           *)

IsList(ds) == ds \in Seq(Range(ds)) /\ \A k \in 1..Len(ds) : IsDiscount(ds[k])

Passes(g, lines, off, ds, S) ==
  g = [k \in 0..Len(ds) |->
         IF k = 0 THEN off
         ELSE IF ds[k].scope \in S THEN Discounted(lines, g[k - 1], ds[k])
         ELSE g[k - 1]]

\* A pass ends at the last value of the function that makes it.
LEMMA PassIs ==
  ASSUME NEW lines, NEW off, NEW ds, NEW S
  PROVE  Pass(lines, off, ds, S) = (CHOOSE g : Passes(g, lines, off, ds, S))[Len(ds)]
BY DEF Pass, Passes

\* What is off after each of the discounts.
Run(g, lines, off, ds, S) ==
  /\ g \in [0..Len(ds) -> Offs(lines)]
  /\ g[0] = off
  /\ Pass(lines, off, ds, S) = g[Len(ds)]
  /\ \A k \in 1..Len(ds) :
       /\ g[k] = IF ds[k].scope \in S THEN Discounted(lines, g[k - 1], ds[k]) ELSE g[k - 1]
       /\ Grows(lines, g[k - 1], g[k])

\* A pass is a run over its discounts, each on what the one before it left.
LEMMA PassRuns ==
  ASSUME NEW n, NEW lines, CartOf(lines, n), NEW off \in Offs(lines), NEW ds, IsList(ds), NEW S
  PROVE  \E g : Run(g, lines, off, ds, S)
<1> DEFINE m == Len(ds)
           State == Offs(lines)
           next(x, k) == IF ds[k].scope \in S THEN Discounted(lines, x, ds[k]) ELSE x
           step == [p \in State \X (1..m) |-> next(p[1], p[2])]
<1>1. m \in Nat /\ \A k \in 1..m : IsDiscount(ds[k])
  BY DEF IsList
<1>2. ASSUME NEW x \in State, NEW k \in 1..m
      PROVE  next(x, k) \in State /\ Grows(lines, x, next(x, k))
  <2>1. Grows(lines, x, x)
    BY CartIs DEF Offs, Grows
  <2> QED
    BY <1>1, <2>1, DiscountedKeeps
<1>3. \A x \in State : \A k \in 1..m : step[<<x, k>>] = next(x, k)
  OBVIOUS
<1> HIDE DEF m, State, next, step
<1>4. StepsWithin(step, m, State)
  BY <1>2, <1>3 DEF StepsWithin
<1>5. \E g : Iteration(g, m, State, off, step)
  <2>1. off \in State
    BY DEF State
  <2> QED
    BY <1>1, <1>4, <2>1, Iterates
<1>6. ASSUME NEW g, Iteration(g, m, State, off, step)
      PROVE  Passes(g, lines, off, ds, S)
  <2>1. DOMAIN g = 0..m /\ g = [k \in 0..m |-> g[k]]
    BY <1>6 DEF Iteration
  <2>2. ASSUME NEW k \in 0..m
        PROVE  g[k] = IF k = 0 THEN off
                      ELSE IF ds[k].scope \in S THEN Discounted(lines, g[k - 1], ds[k])
                      ELSE g[k - 1]
    <3>1. CASE k = 0
      BY <1>6, <3>1 DEF Iteration
    <3>2. CASE k # 0
      <4>1. k \in 1..m /\ k - 1 \in 0..m
        BY <1>1, <3>2
      <4>2. g[k - 1] \in State
        BY <1>6, <4>1 DEF Iteration
      <4>3. g[k] = step[<<g[k - 1], k>>]
        BY <1>6, <3>2 DEF Iteration
      <4>4. g[k] = next(g[k - 1], k)
        BY <1>3, <4>1, <4>2, <4>3
      <4> QED
        BY <3>2, <4>4 DEF next
    <3> QED
      BY <3>1, <3>2
  <2> QED
    BY <2>1, <2>2 DEF Passes, m
<1>7. ASSUME NEW g, Passes(g, lines, off, ds, S)
      PROVE  /\ g[0] = off
             /\ \A k \in 1..m : g[k] = next(g[k - 1], k)
             /\ DOMAIN g = 0..m
  <2>1. \A k \in 0..m : g[k] = IF k = 0 THEN off
                               ELSE IF ds[k].scope \in S THEN Discounted(lines, g[k - 1], ds[k])
                               ELSE g[k - 1]
    BY <1>7 DEF Passes, m
  <2>2. DOMAIN g = 0..m
    BY <1>7 DEF Passes, m
  <2>3. 0 \in 0..m /\ \A k \in 1..m : k \in 0..m /\ k # 0
    BY <1>1
  <2> QED
    BY <2>1, <2>2, <2>3 DEF next
<1> DEFINE g == CHOOSE f : Passes(f, lines, off, ds, S)
<1>8. Passes(g, lines, off, ds, S)
  BY <1>5, <1>6
<1>9. Pass(lines, off, ds, S) = g[m]
  BY PassIs DEF m
<1> HIDE DEF g
<1>10. /\ g[0] = off /\ DOMAIN g = 0..m
       /\ \A k \in 1..m : g[k] = next(g[k - 1], k)
  BY <1>7, <1>8
<1> DEFINE G == {k \in 0..m : g[k] \in State}
<1>11. 0..m \subseteq G
  <2>1. 0 \in G
    BY <1>1, <1>10 DEF State
  <2>2. ASSUME NEW k \in 1..m, k - 1 \in G PROVE k \in G
    <3>1. g[k] \in State /\ k \in 0..m
      BY <1>1, <1>2, <1>10, <2>2
    <3> QED
      BY <3>1
  <2> HIDE DEF G
  <2> QED
    BY <1>1, <2>1, <2>2, InductionUpTo
<1>12. g \in [0..m -> State]
  <2>1. g = [k \in 0..m |-> g[k]]
    BY <1>8 DEF Passes, m
  <2> QED
    BY <1>11, <2>1
<1>13. \A k \in 1..m : Grows(lines, g[k - 1], g[k])
  <2> TAKE k \in 1..m
  <2>1. k - 1 \in 0..m
    BY <1>1
  <2>2. g[k - 1] \in State
    BY <1>12, <2>1
  <2> QED
    BY <1>2, <1>10, <2>2
<1>14. Run(g, lines, off, ds, S)
  BY <1>9, <1>10, <1>12, <1>13 DEF Run, State, m, next
<1> QED
  BY <1>14

\* More of more is more.
LEMMA GrowsOn ==
  ASSUME NEW lines, NEW x \in Offs(lines), NEW y \in Offs(lines), NEW z \in Offs(lines),
         Grows(lines, x, y), Grows(lines, y, z)
  PROVE  Grows(lines, x, z)
<1>1. ASSUME NEW i \in DOMAIN lines PROVE x[i] <= z[i]
  <2>1. x[i] \in Nat /\ y[i] \in Nat /\ z[i] \in Nat
    BY DEF Offs
  <2>2. x[i] <= y[i] /\ y[i] <= z[i]
    BY DEF Grows
  <2> QED
    BY <2>1, <2>2
<1> QED
  BY <1>1 DEF Grows

\* Once off, a discount stays off.
LEMMA RunGrows ==
  ASSUME NEW n, NEW lines, CartOf(lines, n), NEW off, NEW ds, IsList(ds), NEW S,
         NEW g, Run(g, lines, off, ds, S), NEW j \in 0..Len(ds)
  PROVE  Grows(lines, g[j], g[Len(ds)])
<1> DEFINE m == Len(ds)
           G == {k \in 0..m : k >= j => Grows(lines, g[j], g[k])}
<1>1. m \in Nat
  BY DEF IsList
<1>2. \A k \in 0..m : g[k] \in Offs(lines) /\ Grows(lines, g[k], g[k])
  BY CartIs DEF Run, Offs, Grows
<1>3. \A k \in 1..m : Grows(lines, g[k - 1], g[k])
  BY DEF Run
<1> HIDE DEF m
<1>4. 0 \in G
  <2>1. 0 \in 0..m /\ (0 >= j => j = 0)
    BY <1>1 DEF m
  <2> QED
    BY <1>2, <2>1
<1>5. ASSUME NEW k \in 1..m, k - 1 \in G PROVE k \in G
  <2>1. k - 1 \in 0..m /\ k \in 0..m /\ j \in 0..m /\ (k >= j => k - 1 >= j \/ k = j)
    BY <1>1 DEF m
  <2>2. k - 1 >= j => Grows(lines, g[j], g[k])
    BY <1>2, <1>3, <1>5, <2>1, GrowsOn
  <2>3. k = j => Grows(lines, g[j], g[k])
    BY <1>2, <2>1
  <2> QED
    BY <2>1, <2>2, <2>3
<1>6. m \in G
  <2> HIDE DEF G
  <2> QED
    BY <1>1, <1>4, <1>5, InductionUpTo
<1> QED
  BY <1>1, <1>6 DEF m

\* A pass takes off no more than is left.
LEMMA PassKeeps ==
  ASSUME NEW n, NEW lines, CartOf(lines, n), NEW off \in Offs(lines), NEW ds, IsList(ds), NEW S
  PROVE  /\ Pass(lines, off, ds, S) \in Offs(lines)
         /\ Grows(lines, off, Pass(lines, off, ds, S))
<1>1. PICK g : Run(g, lines, off, ds, S)
  BY PassRuns
<1>2. Len(ds) \in 0..Len(ds) /\ 0 \in 0..Len(ds)
  BY DEF IsList
<1>3. Grows(lines, g[0], g[Len(ds)])
  BY <1>1, <1>2, RunGrows
<1> QED
  BY <1>1, <1>2, <1>3 DEF Run

\* What the first discount takes off stays off.
LEMMA PassFirst ==
  ASSUME NEW n, NEW lines, CartOf(lines, n), NEW off \in Offs(lines), NEW ds, IsList(ds), NEW S,
         Len(ds) > 0, ds[1].scope \in S
  PROVE  Grows(lines, Discounted(lines, off, ds[1]), Pass(lines, off, ds, S))
<1>1. PICK g : Run(g, lines, off, ds, S)
  BY PassRuns
<1>2. 1 \in 1..Len(ds) /\ 1 \in 0..Len(ds) /\ 1 - 1 = 0
  BY DEF IsList
<1>3. Grows(lines, g[1], g[Len(ds)])
  BY <1>1, <1>2, RunGrows
<1>4. g[1] = Discounted(lines, off, ds[1])
  BY <1>1, <1>2 DEF Run
<1> QED
  BY <1>1, <1>3, <1>4 DEF Run

\* A sequence of discounts is a list of them.
LEMMA ListIs ==
  ASSUME NEW E, NEW ds \in Seq(E), \A k \in 1..Len(ds) : IsDiscount(ds[k])
  PROVE  IsList(ds)
<1>1. \A k \in 1..Len(ds) : ds[k] \in Range(ds)
  BY DEF Range
<1>2. ds \in [1..Len(ds) -> Range(ds)] /\ Len(ds) \in Nat
  BY <1>1
<1>3. ds \in Seq(Range(ds))
  BY <1>2
<1> QED
  BY <1>3 DEF IsList

\* A list with one discount more.
LEMMA OneDiscountMore ==
  ASSUME NEW ds, IsList(ds), NEW d, IsDiscount(d)
  PROVE  /\ IsList(ds \o <<d>>)
         /\ Len(ds \o <<d>>) = Len(ds) + 1
         /\ \A k \in 1..Len(ds) : (ds \o <<d>>)[k] = ds[k]
         /\ (ds \o <<d>>)[Len(ds) + 1] = d
<1> DEFINE E == Range(ds) \cup {d}
           more == ds \o <<d>>
<1>1. ds \in Seq(E) /\ <<d>> \in Seq(E) /\ Len(ds) \in Nat
  BY DEF IsList
<1> HIDE DEF E
<1>2. /\ more \in Seq(E) /\ Len(more) = Len(ds) + 1
      /\ \A k \in 1..Len(ds) : more[k] = ds[k]
      /\ more[Len(ds) + 1] = d
  BY <1>1
<1>4. \A k \in 1..Len(more) : IsDiscount(more[k])
  <2> TAKE k \in 1..Len(more)
  <2>1. k \in 1..Len(ds) \/ k = Len(ds) + 1
    BY <1>1, <1>2
  <2> QED
    BY <1>2, <2>1 DEF IsList
<1> QED
  BY <1>2, <1>4, ListIs

\* The last discount is taken on what the others left.
LEMMA PassLast ==
  ASSUME NEW n, NEW lines, CartOf(lines, n), NEW off \in Offs(lines), NEW ds, IsList(ds), NEW S,
         NEW d, IsDiscount(d)
  PROVE  Pass(lines, off, ds \o <<d>>, S)
           = IF d.scope \in S THEN Discounted(lines, Pass(lines, off, ds, S), d)
             ELSE Pass(lines, off, ds, S)
<1> DEFINE more == ds \o <<d>>
           m == Len(ds)
<1>1. /\ IsList(more) /\ Len(more) = m + 1 /\ more[m + 1] = d /\ m \in Nat
      /\ \A k \in 1..m : more[k] = ds[k]
  BY OneDiscountMore DEF IsList
<1> HIDE DEF more
<1>2. PICK g : Run(g, lines, off, ds, S)
  BY PassRuns
<1>3. PICK h : Run(h, lines, off, more, S)
  BY <1>1, PassRuns
<1> DEFINE G == {k \in 0..m : h[k] = g[k]}
<1>4. m \in G
  <2>1. 0 \in G
    BY <1>1, <1>2, <1>3 DEF Run
  <2>2. ASSUME NEW k \in 1..m, k - 1 \in G PROVE k \in G
    <3>1. k \in 1..(m + 1) /\ k \in 0..m /\ h[k - 1] = g[k - 1] /\ more[k] = ds[k]
      BY <1>1, <2>2
    <3>2. h[k] = IF more[k].scope \in S THEN Discounted(lines, h[k - 1], more[k]) ELSE h[k - 1]
      BY <1>1, <1>3, <3>1 DEF Run
    <3>3. g[k] = IF ds[k].scope \in S THEN Discounted(lines, g[k - 1], ds[k]) ELSE g[k - 1]
      BY <1>2 DEF Run
    <3> QED
      BY <3>1, <3>2, <3>3
  <2>3. m \in 0..m
    BY <1>1
  <2> HIDE DEF G, m
  <2> QED
    BY <1>1, <2>1, <2>2, <2>3, InductionUpTo
<1>5. m + 1 \in 1..(m + 1) /\ (m + 1) - 1 = m
  BY <1>1
<1>6. h[m + 1] = IF d.scope \in S THEN Discounted(lines, h[m], d) ELSE h[m]
  BY <1>1, <1>3, <1>5 DEF Run
<1> QED
  BY <1>1, <1>2, <1>3, <1>4, <1>6 DEF Run, more

-----------------------------------------------------------------------------
(* All the discounts of a cart.                                             *)

Bare(lines) == [i \in DOMAIN lines |-> 0]
LineRules(lines, ds) == Pass(lines, Bare(lines), ds, {"product", "category"})
Combos(lines, ds) == Pass(lines, LineRules(lines, ds), ds, {"group"})

\* The discounts are three passes.
LEMMA DiscountsAre ==
  ASSUME NEW lines, NEW ds
  PROVE  Discounts(lines, ds) = Pass(lines, Combos(lines, ds), ds, {"order"})
BY DEF Discounts, Combos, LineRules, Bare

\* Each pass starts from what the one before it left.
LEMMA DiscountsKeep ==
  ASSUME NEW n, NEW lines, CartOf(lines, n), NEW ds, IsList(ds)
  PROVE  /\ LineRules(lines, ds) \in Offs(lines)
         /\ Combos(lines, ds) \in Offs(lines)
         /\ Discounts(lines, ds) \in Offs(lines)
         /\ Grows(lines, Combos(lines, ds), Discounts(lines, ds))
<1>1. Bare(lines) \in Offs(lines)
  BY CartIs DEF Bare, Offs
<1>2. LineRules(lines, ds) \in Offs(lines)
  BY <1>1, PassKeeps DEF LineRules
<1>3. Combos(lines, ds) \in Offs(lines)
  BY <1>2, PassKeeps DEF Combos
<1> QED
  BY <1>2, <1>3, PassKeeps, DiscountsAre

\* What is left of some lines is what they cost less what is off.
LEMMA LeftAdds ==
  ASSUME NEW n, NEW lines, CartOf(lines, n), NEW off \in Offs(lines), NEW S \in SUBSET (1..n),
         NEW gross, \A i \in S : gross[i] = Gross(lines[i])
  PROVE  /\ SumFunctionOnSet(gross, S) \in Nat /\ SumFunctionOnSet(off, S) \in Nat
         /\ Total(LeftOf(lines, off, S)) = SumFunctionOnSet(gross, S) - SumFunctionOnSet(off, S)
<1> DEFINE left == LeftOf(lines, off, S)
<1>1. /\ IsFiniteSet(S) /\ DOMAIN left = S
      /\ \A i \in S : left[i] \in Nat /\ left[i] = gross[i] - off[i]
  BY CartIs, LeftIs
<1>2. \A i \in S : gross[i] \in Nat /\ off[i] \in Nat
  BY CartIs DEF Offs
<1>3. SumFunctionOnSet(gross, S) \in Nat /\ SumFunctionOnSet(off, S) \in Nat
  BY <1>1, <1>2, SumNat
<1> HIDE DEF left
<1>4. Total(left) = SumFunctionOnSet(left, S) /\ SumFunctionOnSet(left, S) \in Nat
  BY <1>1, SumNat DEF Total
<1>5. SumFunctionOnSet(gross, S) = SumFunctionOnSet(left, S) + SumFunctionOnSet(off, S)
  <2>1. \A i \in S : left[i] \in Int /\ off[i] \in Int /\ gross[i] = left[i] + off[i]
    BY <1>1, <1>2
  <2> QED
    BY <1>1, <2>1, SumPlus
<1>6. Total(left) = SumFunctionOnSet(gross, S) - SumFunctionOnSet(off, S)
  BY <1>3, <1>4, <1>5
<1> QED
  BY <1>3, <1>6 DEF left

\* The more is off, the less is left.
LEMMA LeftShrinks ==
  ASSUME NEW n, NEW lines, CartOf(lines, n), NEW S \in SUBSET (1..n),
         NEW off \in Offs(lines), NEW more \in Offs(lines), Grows(lines, off, more)
  PROVE  Total(LeftOf(lines, more, S)) <= Total(LeftOf(lines, off, S))
<1> DEFINE x == LeftOf(lines, more, S)
           y == LeftOf(lines, off, S)
<1>1. /\ DOMAIN x = S /\ DOMAIN y = S /\ IsFiniteSet(S)
      /\ \A i \in S : x[i] \in Nat /\ x[i] = Gross(lines[i]) - more[i]
      /\ \A i \in S : y[i] \in Nat /\ y[i] = Gross(lines[i]) - off[i]
  BY CartIs, LeftIs
<1>2. ASSUME NEW i \in S PROVE off[i] <= more[i] /\ off[i] \in Nat /\ more[i] \in Nat
                               /\ Gross(lines[i]) \in Nat
  BY CartIs DEF Grows, Offs
<1> HIDE DEF x, y
<1>3. \A i \in S : x[i] \in Int /\ y[i] \in Int /\ x[i] <= y[i]
  BY <1>1, <1>2
<1>4. SumFunctionOnSet(x, S) <= SumFunctionOnSet(y, S)
  BY <1>1, <1>3, SumAtMost
<1> QED
  BY <1>1, <1>4 DEF Total, x, y

\* A combo's lines are left with its target at most, whatever line rules
\* came before it and whatever comes after.
LEMMA ComboIsMet ==
  ASSUME NEW n, NEW lines, CartOf(lines, n), NEW ds, IsList(ds), Len(ds) > 0,
         ds[1].scope = "group", ds[1].kind = "target"
  PROVE  Total(LeftOf(lines, Discounts(lines, ds),
                      {i \in DOMAIN lines : lines[i].combo = ds[1].target})) <= ds[1].value
<1> DEFINE S == {i \in DOMAIN lines : lines[i].combo = ds[1].target}
           d == ds[1]
           bare == LineRules(lines, ds)
           first == Discounted(lines, bare, d)
           group == Combos(lines, ds)
           last == Discounts(lines, ds)
           gross == [i \in S |-> Gross(lines[i])]
           T(off) == Total(LeftOf(lines, off, S))
<1>1. IsDiscount(d) /\ d.value \in Nat
  BY DEF IsList, IsDiscount
<1>2. S \in SUBSET (1..n)
  BY DEF CartOf
<1>3. /\ bare \in Offs(lines) /\ group \in Offs(lines) /\ last \in Offs(lines)
      /\ Grows(lines, group, last)
  BY DiscountsKeep
<1>4. first = Spread(lines, bare, d, S)
  BY DEF Discounted, OnGroup
<1>5. \A i \in S : gross[i] = Gross(lines[i])
  OBVIOUS
<1>6. d.kind = "target" /\ d.scope \in {"group"}
  OBVIOUS
<1>7. Grows(lines, first, group)
  BY <1>3, <1>6, PassFirst DEF Combos
<1> HIDE DEF S, d, bare, first, group, last, gross
<1>8. /\ first \in Offs(lines)
      /\ SumFunctionOnSet(first, S) = SumFunctionOnSet(bare, S) + Taken(d, T(bare))
  BY <1>1, <1>2, <1>3, <1>4, SpreadIs
<1>9. /\ SumFunctionOnSet(gross, S) \in Nat
      /\ SumFunctionOnSet(bare, S) \in Nat /\ T(bare) = SumFunctionOnSet(gross, S) - SumFunctionOnSet(bare, S)
      /\ SumFunctionOnSet(first, S) \in Nat /\ T(first) = SumFunctionOnSet(gross, S) - SumFunctionOnSet(first, S)
  BY <1>2, <1>3, <1>5, <1>8, LeftAdds
<1>10. T(bare) \in Nat /\ T(last) \in Nat /\ T(group) \in Nat
  BY <1>2, <1>3, LeftIs
<1>11. Taken(d, T(bare)) \in 0..T(bare) /\ T(bare) - Taken(d, T(bare)) <= d.value
  BY <1>1, <1>6, <1>10, TakenIs
<1>12. T(last) <= T(group) /\ T(group) <= T(first)
  BY <1>2, <1>3, <1>7, <1>8, LeftShrinks
<1> DEFINE t == Taken(d, T(bare))
           a == T(bare)
           b == T(first)
           c == SumFunctionOnSet(first, S)
           e == SumFunctionOnSet(bare, S)
           f == SumFunctionOnSet(gross, S)
<1>13. b <= d.value
  <2>1. c = e + t /\ a = f - e /\ b = f - c /\ a - t <= d.value /\ t \in 0..a
        /\ a \in Nat /\ e \in Nat /\ f \in Nat /\ c \in Nat
    BY <1>8, <1>9, <1>10, <1>11
  <2> HIDE DEF a, b, c, e, f, t
  <2> QED
    BY <1>1, <2>1
<1>14. T(last) <= d.value
  <2>1. b \in Int
    BY <1>9
  <2> HIDE DEF T, b
  <2>2. T(last) <= b
    BY <1>10, <1>12, <2>1 DEF b
  <2> QED
    BY <1>1, <1>10, <1>13, <2>1, <2>2
<1> QED
  BY <1>14 DEF S, last, d

\* A redemption that fits what is left is taken exactly, and last.
LEMMA PointsAreTaken ==
  ASSUME NEW n, NEW lines, CartOf(lines, n), NEW ds, IsList(ds), NEW d, IsDiscount(d),
         d.scope = "order", d.kind = "fixed", d.min = 0,
         d.value <= Total(LeftOf(lines, Discounts(lines, ds), 1..n))
  PROVE  SumFunctionOnSet(Discounts(lines, ds \o <<d>>), 1..n)
           = SumFunctionOnSet(Discounts(lines, ds), 1..n) + d.value
<1> DEFINE more == ds \o <<d>>
           off == Discounts(lines, ds)
<1>1. /\ Bare(lines) \in Offs(lines) /\ LineRules(lines, ds) \in Offs(lines)
      /\ Combos(lines, ds) \in Offs(lines) /\ off \in Offs(lines)
  <2>1. Bare(lines) \in Offs(lines)
    BY CartIs DEF Bare, Offs
  <2> QED
    BY <2>1, DiscountsKeep
<1>2. LineRules(lines, more) = LineRules(lines, ds)
  <2>1. d.scope \notin {"product", "category"}
    OBVIOUS
  <2> QED
    BY <1>1, <2>1, PassLast DEF LineRules
<1>3. Combos(lines, more) = Combos(lines, ds)
  <2>1. d.scope \notin {"group"}
    OBVIOUS
  <2> QED
    BY <1>1, <1>2, <2>1, PassLast DEF Combos
<1>4. Discounts(lines, more) = Discounted(lines, off, d)
  <2>1. d.scope \in {"order"}
    OBVIOUS
  <2> QED
    BY <1>1, <1>3, <2>1, PassLast, DiscountsAre
<1>5. DOMAIN lines = 1..n /\ 1..n \in SUBSET (1..n)
  BY DEF CartOf
<1>6. Total([i \in DOMAIN lines |-> Gross(lines[i])]) \in Nat
  <2> DEFINE gross == [i \in 1..n |-> Gross(lines[i])]
  <2>1. IsFiniteSet(1..n) /\ DOMAIN gross = 1..n /\ \A i \in 1..n : gross[i] \in Nat
    BY CartIs
  <2> HIDE DEF gross
  <2>2. Total(gross) \in Nat
    BY <2>1, SumNat DEF Total
  <2> QED
    BY <1>5, <2>2 DEF gross
<1> HIDE DEF off, more
<1>7. Discounted(lines, off, d) = Spread(lines, off, d, 1..n)
  <2>1. Discounted(lines, off, d) = OnOrder(lines, off, d)
    BY DEF Discounted
  <2>2. ~(Total([i \in DOMAIN lines |-> Gross(lines[i])]) < d.min)
    BY <1>6
  <2> QED
    BY <1>5, <2>1, <2>2 DEF OnOrder
<1>8. SumFunctionOnSet(Spread(lines, off, d, 1..n), 1..n)
        = SumFunctionOnSet(off, 1..n) + Taken(d, Total(LeftOf(lines, off, 1..n)))
  <2> DEFINE S == 1..n
  <2>1. S \in SUBSET (1..n)
    OBVIOUS
  <2> HIDE DEF S
  <2>2. SumFunctionOnSet(Spread(lines, off, d, S), S)
          = SumFunctionOnSet(off, S) + Taken(d, Total(LeftOf(lines, off, S)))
    BY <1>1, <2>1, SpreadIs
  <2> QED
    BY <2>2 DEF S
<1>9. Taken(d, Total(LeftOf(lines, off, 1..n))) = d.value
  <2>1. Total(LeftOf(lines, off, 1..n)) \in Nat
    BY <1>1, <1>5, LeftIs
  <2> QED
    BY <2>1, TakenIs DEF off
<1> QED
  BY <1>4, <1>7, <1>8, <1>9 DEF off, more

-----------------------------------------------------------------------------
(* The priced lines and their sums.                                         *)

IsPriced(priced, n, inclusive) ==
  /\ n \in Nat /\ DOMAIN priced = 1..n
  /\ \A i \in 1..n :
       /\ priced[i].gross \in Nat /\ priced[i].off \in Nat /\ priced[i].tax \in Nat
       /\ priced[i].rate \in Nat
       /\ priced[i].off <= priced[i].gross
       /\ priced[i].total = (priced[i].gross - priced[i].off)
                            + IF inclusive THEN 0 ELSE priced[i].tax
       /\ priced[i].tax <= priced[i].total
       /\ priced[i].rate = 0 => priced[i].tax = 0

\* What a priced line says of itself.
LEMMA PricedIs ==
  ASSUME NEW n, NEW lines, CartOf(lines, n), NEW off \in Offs(lines),
         NEW inclusive, inclusive \in BOOLEAN
  PROVE  /\ IsPriced(PricedLines(lines, off, inclusive), n, inclusive)
         /\ \A i \in 1..n : /\ PricedLines(lines, off, inclusive)[i].gross = Gross(lines[i])
                            /\ PricedLines(lines, off, inclusive)[i].off = off[i]
<1> DEFINE priced == [i \in DOMAIN lines |-> PricedLine(lines[i], off[i], inclusive)]
<1>1. /\ n \in Nat /\ DOMAIN lines = 1..n /\ \A i \in 1..n : IsLine(lines[i])
      /\ \A i \in 1..n : Gross(lines[i]) \in Nat /\ off[i] \in Nat /\ off[i] <= Gross(lines[i])
  BY CartIs DEF CartOf, Offs
<1>2. PricedLines(lines, off, inclusive) = priced
  <2>1. DOMAIN priced = 1..n /\ priced = [i \in 1..n |-> priced[i]]
    BY <1>1
  <2>2. PricedLines(lines, off, inclusive) = Listed(priced)
    BY DEF PricedLines
  <2> HIDE DEF priced
  <2> QED
    BY <1>1, <2>1, <2>2, ListedIs
<1>3. ASSUME NEW i \in 1..n
      PROVE  /\ priced[i].gross = Gross(lines[i]) /\ priced[i].off = off[i]
             /\ priced[i].tax \in Nat /\ priced[i].rate \in Nat
             /\ priced[i].total = (Gross(lines[i]) - off[i])
                                  + IF inclusive THEN 0 ELSE priced[i].tax
             /\ priced[i].tax <= priced[i].total
             /\ priced[i].rate = 0 => priced[i].tax = 0
  <2> DEFINE g == Gross(lines[i])
             rate == Catalog[lines[i].product].rate
             net == g - off[i]
             tax == TaxOf(net, rate, inclusive)
  <2>1. g \in Nat /\ net \in Nat
    BY <1>1
  <2>2. rate \in Nat
    BY <1>1, LineIs
  <2>3. priced[i] = [gross |-> g, off |-> off[i], tax |-> tax, rate |-> rate,
                     total |-> IF inclusive THEN net ELSE net + tax]
    BY <1>1 DEF PricedLine
  <2>8. net = Gross(lines[i]) - off[i] /\ g = Gross(lines[i])
    OBVIOUS
  <2> HIDE DEF priced, g, rate, net
  <2>4. tax \in Nat /\ (inclusive => tax <= net) /\ (rate = 0 => tax = 0)
    BY <2>1, <2>2, TaxIs
  <2> HIDE DEF tax
  <2>5. /\ priced[i].gross = g /\ priced[i].off = off[i] /\ priced[i].tax = tax
        /\ priced[i].rate = rate
        /\ priced[i].total = IF inclusive THEN net ELSE net + tax
    BY <2>3
  <2>6. /\ priced[i].total = net + IF inclusive THEN 0 ELSE tax
        /\ tax <= priced[i].total
    BY <2>1, <2>4, <2>5
  <2> QED
    BY <2>2, <2>4, <2>5, <2>6, <2>8
<1>4. DOMAIN priced = 1..n
  BY <1>1
<1> HIDE DEF priced
<1>5. IsPriced(priced, n, inclusive)
  BY <1>1, <1>3, <1>4 DEF IsPriced
<1> QED
  BY <1>2, <1>3, <1>5

\* The lines add up to the bill's totals.
LEMMA TotalsAddUp ==
  ASSUME NEW n, NEW inclusive, inclusive \in BOOLEAN, NEW priced, IsPriced(priced, n, inclusive)
  PROVE  LET q == Summed(priced)
         IN  /\ q.lines = priced
             /\ q.subtotal \in Nat /\ q.discount \in Nat /\ q.tax \in Nat /\ q.total \in Nat
             /\ q.total = q.subtotal - q.discount + IF inclusive THEN 0 ELSE q.tax
<1> DEFINE D == 1..n
           gross == [i \in D |-> priced[i].gross]
           off == [i \in D |-> priced[i].off]
           tax == [i \in D |-> priced[i].tax]
           total == [i \in D |-> priced[i].total]
           net == [i \in D |-> priced[i].gross - priced[i].off]
           q == Summed(priced)
<1>1. DOMAIN priced = D /\ IsFiniteSet(D)
  <2>1. n \in Nat /\ DOMAIN priced = 1..n
    BY DEF IsPriced
  <2> QED
    BY <2>1, UpToIsFinite
<1>2. \A i \in D : /\ gross[i] \in Nat /\ off[i] \in Nat /\ tax[i] \in Nat
                   /\ net[i] = gross[i] - off[i] /\ net[i] \in Nat
                   /\ total[i] = net[i] + IF inclusive THEN 0 ELSE tax[i]
                   /\ total[i] \in Nat
  <2> TAKE i \in D
  <2> DEFINE l == priced[i]
  <2>1. /\ gross[i] = l.gross /\ off[i] = l.off /\ tax[i] = l.tax /\ total[i] = l.total
        /\ net[i] = l.gross - l.off
    OBVIOUS
  <2>2. /\ l.gross \in Nat /\ l.off \in Nat /\ l.tax \in Nat /\ l.off <= l.gross
        /\ l.total = (l.gross - l.off) + IF inclusive THEN 0 ELSE l.tax
    BY DEF IsPriced
  <2> HIDE DEF l, gross, off, tax, total, net
  <2> QED
    BY <2>1, <2>2
<1>3. /\ q.lines = priced
      /\ q.subtotal = SumFunctionOnSet(gross, D) /\ q.discount = SumFunctionOnSet(off, D)
      /\ q.tax = SumFunctionOnSet(tax, D) /\ q.total = SumFunctionOnSet(total, D)
  <2>1. /\ q.lines = priced
        /\ q.subtotal = Total(gross) /\ q.discount = Total(off)
        /\ q.tax = Total(tax) /\ q.total = Total(total)
    BY <1>1 DEF Summed
  <2>2. DOMAIN gross = D /\ DOMAIN off = D /\ DOMAIN tax = D /\ DOMAIN total = D
    OBVIOUS
  <2> HIDE DEF q, gross, off, tax, total
  <2> QED
    BY <2>1, <2>2 DEF Total
<1> HIDE DEF D, gross, off, tax, total, net, q
<1>4. /\ SumFunctionOnSet(gross, D) \in Nat /\ SumFunctionOnSet(off, D) \in Nat
      /\ SumFunctionOnSet(tax, D) \in Nat /\ SumFunctionOnSet(total, D) \in Nat
      /\ SumFunctionOnSet(net, D) \in Nat
  BY <1>1, <1>2, SumNat
<1>5. SumFunctionOnSet(gross, D) = SumFunctionOnSet(net, D) + SumFunctionOnSet(off, D)
  <2>1. \A i \in D : net[i] \in Int /\ off[i] \in Int /\ gross[i] = net[i] + off[i]
    BY <1>2
  <2> QED
    BY <1>1, <2>1, SumPlus
<1>6. SumFunctionOnSet(total, D)
        = SumFunctionOnSet(net, D) + IF inclusive THEN 0 ELSE SumFunctionOnSet(tax, D)
  <2>1. CASE inclusive
    <3>1. \A i \in D : net[i] \in Int /\ total[i] = net[i]
      BY <1>2, <2>1
    <3>2. SumFunctionOnSet(total, D) = SumFunctionOnSet(net, D)
      BY <1>1, <3>1, SumSame
    <3> QED
      BY <1>4, <2>1, <3>2
  <2>2. CASE ~inclusive
    <3>1. \A i \in D : net[i] \in Int /\ tax[i] \in Int /\ total[i] = net[i] + tax[i]
      BY <1>2, <2>2
    <3>2. SumFunctionOnSet(total, D) = SumFunctionOnSet(net, D) + SumFunctionOnSet(tax, D)
      BY <1>1, <3>1, SumPlus
    <3> QED
      BY <2>2, <3>2
  <2> QED
    BY <2>1, <2>2
<1>7. /\ q.lines = priced
      /\ q.subtotal \in Nat /\ q.discount \in Nat /\ q.tax \in Nat /\ q.total \in Nat
      /\ q.total = q.subtotal - q.discount + IF inclusive THEN 0 ELSE q.tax
  BY <1>3, <1>4, <1>5, <1>6
<1> QED
  BY <1>7 DEF q

\* Each line's tax is in the tax line of its rate; a line at rate 0 has none.
LEMMA TaxLinesAddUp ==
  ASSUME NEW n, NEW inclusive, inclusive \in BOOLEAN, NEW priced, IsPriced(priced, n, inclusive)
  PROVE  LET q == Summed(priced)
         IN  Total([r \in DOMAIN q.taxLines |-> q.taxLines[r].tax]) = q.tax
<1> DEFINE D == 1..n
           q == Summed(priced)
           tax == [i \in D |-> priced[i].tax]
           rate == [i \in D |-> priced[i].rate]
           S == {i \in D : rate[i] # 0}
           R == {priced[i].rate : i \in DOMAIN priced} \ {0}
           of(r) == {i \in DOMAIN priced : priced[i].rate = r}
           sum == [r \in DOMAIN q.taxLines |-> q.taxLines[r].tax]
<1>1. /\ DOMAIN priced = D /\ IsFiniteSet(D)
      /\ \A i \in D : rate[i] \in Nat /\ tax[i] \in Nat /\ (rate[i] = 0 => tax[i] = 0)
  BY UpToIsFinite DEF IsPriced
<1>2. S \in SUBSET D /\ R = {rate[i] : i \in S}
  BY <1>1
<1>3. q.tax = SumFunctionOnSet(tax, D)
  <2>1. q.tax = Total([i \in DOMAIN priced |-> priced[i].tax])
    BY DEF Summed
  <2> QED
    BY <1>1, <2>1 DEF Total
<1>4. DOMAIN sum = R /\ \A r \in R : sum[r] = Total([i \in of(r) |-> priced[i].tax])
  BY DEF Summed
<1>5. ASSUME NEW r \in R PROVE sum[r] = SumFunctionOnSet(tax, GroupOf(S, rate, r))
  <2> DEFINE f == [i \in of(r) |-> priced[i].tax]
             U == GroupOf(S, rate, r)
  <2>1. of(r) = U /\ DOMAIN f = U
    BY <1>1, <1>2 DEF GroupOf
  <2>2. \A i \in U : tax[i] \in Int /\ f[i] = tax[i]
    BY <1>1, <2>1 DEF GroupOf
  <2>3. U \in SUBSET D
    BY <1>2 DEF GroupOf
  <2>4. sum[r] = Total(f)
    BY <1>4
  <2> HIDE DEF f, U, sum
  <2>5. IsFiniteSet(U)
    BY <1>1, <2>3, FS_Subset
  <2>6. SumFunctionOnSet(f, U) = SumFunctionOnSet(tax, U)
    BY <2>2, <2>5, SumSame
  <2> QED
    BY <2>1, <2>4, <2>6 DEF Total, U
<1> HIDE DEF D, q, R, of, sum
<1>6. IsFiniteSet(S) /\ IsFiniteSet(D \ S)
  <2> HIDE DEF S
  <2> QED
    BY <1>1, <1>2, FS_Subset, FS_Difference
<1>7. IsFiniteSet(R) /\ \A i \in S : rate[i] \in R
  <2>1. \A i \in S : rate[i] \in R
    BY <1>2
  <2>2. \A r \in R : \E i \in S : rate[i] = r
    BY <1>2
  <2> DEFINE c == [i \in S |-> rate[i]]
  <2>3. c \in Surjection(S, R)
    BY <2>1, <2>2 DEF Surjection
  <2> HIDE DEF S, c
  <2> QED
    BY <1>6, <2>1, <2>3, FS_Surjection
<1>8. \A i \in D \ S : tax[i] = 0
  BY <1>1
<1> HIDE DEF S, tax, rate
<1>9. SumFunctionOnSet(tax, D) = SumFunctionOnSet(tax, S) + SumFunctionOnSet(tax, D \ S)
  <2>1. \A i \in D : tax[i] \in Int
    BY <1>1
  <2> QED
    BY <1>1, <1>2, <2>1, SumApart
<1>10. SumFunctionOnSet(tax, D \ S) = 0
  BY <1>6, <1>8, SumOfNothing
<1>11. \A i \in S : tax[i] \in Int
  BY <1>1, <1>2
<1>12. SumFunctionOnSet(tax, S) \in Int
  BY <1>6, <1>11, SumType
<1>13. SumFunctionOnSet(sum, R) = SumFunctionOnSet(tax, S)
  <2>1. \A r \in R : sum[r] = SumFunctionOnSet(tax, GroupOf(S, rate, r))
    BY <1>5
  <2>2. \A i \in S : rate[i] \in R
    BY <1>7
  <2> QED
    BY <1>6, <1>7, <1>11, <2>1, <2>2, SumByGroup
<1>14. Total(sum) = q.tax
  BY <1>3, <1>4, <1>9, <1>10, <1>12, <1>13 DEF Total
<1> QED
  BY <1>14 DEF sum, q

-----------------------------------------------------------------------------
(* The discounts of a bill.                                                 *)

\* Lists put together.
LEMMA ListOfBoth ==
  ASSUME NEW s, IsList(s), NEW t, IsList(t)
  PROVE  IsList(s \o t) /\ (Len(s) > 0 => Len(s \o t) > 0 /\ (s \o t)[1] = s[1])
<1> DEFINE E == Range(s) \cup Range(t)
           u == s \o t
<1>1. s \in Seq(E) /\ t \in Seq(E) /\ Len(s) \in Nat /\ Len(t) \in Nat
  BY DEF IsList
<1> HIDE DEF E
<1>2. /\ u \in Seq(E) /\ Len(u) = Len(s) + Len(t)
      /\ \A k \in 1..Len(u) : u[k] = IF k <= Len(s) THEN s[k] ELSE t[k - Len(s)]
  BY <1>1
<1> HIDE DEF u
<1>3. ASSUME NEW k \in 1..Len(u) PROVE IsDiscount(u[k])
  <2>1. CASE k <= Len(s)
    <3>1. k \in 1..Len(s) /\ u[k] = s[k]
      BY <1>1, <1>2, <2>1
    <3> QED
      BY <3>1 DEF IsList
  <2>2. CASE ~(k <= Len(s))
    <3>1. k - Len(s) \in 1..Len(t) /\ u[k] = t[k - Len(s)]
      BY <1>1, <1>2, <2>2
    <3> QED
      BY <3>1 DEF IsList
  <2> QED
    BY <2>1, <2>2
<1>4. IsList(u)
  BY <1>2, <1>3, ListIs
<1>5. Len(s) > 0 => Len(u) > 0 /\ u[1] = s[1]
  BY <1>1, <1>2
<1> QED
  BY <1>4, <1>5 DEF u

\* The list of one discount.
LEMMA ListOfOne ==
  ASSUME NEW d, IsDiscount(d)
  PROVE  IsList(<<d>>) /\ Len(<<d>>) = 1 /\ <<d>>[1] = d
<1> DEFINE E == {d}
           s == <<d>>
<1>1. s \in Seq(E) /\ Len(s) = 1 /\ s[1] = d
  OBVIOUS
<1> HIDE DEF E, s
<1>2. \A k \in 1..Len(s) : IsDiscount(s[k])
  <2>1. \A k \in 1..Len(s) : k = 1
    BY <1>1
  <2> QED
    BY <1>1, <2>1
<1> QED
  BY <1>1, <1>2, ListIs DEF s

\* The empty list.
LEMMA ListOfNone == IsList(<<>>)
<1>1. <<>> \in Seq({}) /\ Len(<<>>) = 0
  OBVIOUS
<1>2. \A k \in 1..Len(<<>>) : IsDiscount(<<>>[k])
  <2>1. 1..Len(<<>>) = {}
    BY <1>1
  <2> QED
    BY <2>1
<1> QED
  BY <1>1, <1>2, ListIs

\* Rules are discounts.
LEMMA RulesAreDiscounts ==
  ASSUME NEW S, S \subseteq DOMAIN Rules
  PROVE  IsList(RulesAt(S))
<1> DEFINE ds == RulesAt(S)
<1>1. ds \in Seq(Range(Rules)) /\ Range(ds) = {Rules[i] : i \in S}
  BY RulesAtAre
<1> HIDE DEF ds
<1>2. ASSUME NEW k \in 1..Len(ds) PROVE IsDiscount(ds[k])
  <2>1. ds[k] \in Range(ds)
    BY <1>1 DEF Range
  <2>2. PICK i \in S : ds[k] = Rules[i]
    BY <1>1, <2>1
  <2> DEFINE r == Rules[i]
  <2>3. /\ r.scope \in {"product", "category", "order"} /\ r.kind \in {"percentage", "fixed"}
        /\ r.value \in Nat /\ r.min \in Nat
    BY RulesAssumption
  <2> HIDE DEF r
  <2>4. IsDiscount(r)
    BY <2>3 DEF IsDiscount
  <2> QED
    BY <2>2, <2>4 DEF r
<1> QED
  BY <1>1, <1>2, ListIs DEF ds

Combo(b) == [NoRule EXCEPT !.scope = "group", !.target = 1, !.kind = "target",
                           !.value = ComboTarget(b.lines)]

\* The lines of a bill are a cart.
LEMMA BillCart ==
  ASSUME NEW b, IsBill(b)
  PROVE  \E n : CartOf(b.lines, n)
<1>1. PICK n \in 1..MaxLines : b.lines \in [1..n -> Items]
  BY DEF IsBill, Carts
<1>2. n \in Nat
  BY SettingsAre
<1>3. DOMAIN b.lines = 1..n /\ \A i \in 1..n : b.lines[i] \in Items
  BY <1>1
<1>4. \A i \in 1..n : b.lines[i].qty > 0 /\ Catalog[b.lines[i].product].price + b.lines[i].options >= 0
  BY <1>3 DEF IsBill, IsCart
<1> QED
  BY <1>2, <1>3, <1>4 DEF CartOf, IsLine

\* The combo is a discount down to a price of at least nothing.
LEMMA ComboIs ==
  ASSUME NEW b, IsBill(b)
  PROVE  /\ IsDiscount(Combo(b)) /\ Combo(b).scope = "group" /\ Combo(b).kind = "target"
         /\ Combo(b).target = 1 /\ Combo(b).value = ComboTarget(b.lines)
<1>1. PICK n : CartOf(b.lines, n)
  BY BillCart
<1> DEFINE S == InCombo(b.lines)
           f == [i \in S |-> Rounded(b.lines[i].options * b.lines[i].qty, 1000)]
<1>2. S \in SUBSET (1..n)
  BY <1>1 DEF InCombo, CartOf
<1>3. IsFiniteSet(S)
  BY <1>1, <1>2, CartIs
<1>4. ASSUME NEW i \in S PROVE f[i] \in Int
  <2> DEFINE x == b.lines[i].options * b.lines[i].qty
  <2>1. IsLine(b.lines[i])
    BY <1>1, <1>2 DEF CartOf
  <2>2. x \in Int
    BY <2>1, LineIs
  <2>3. f[i] = Rounded(x, 1000)
    OBVIOUS
  <2> HIDE DEF x, f
  <2>4. 2 * x + 1000 \in Int /\ 1000 - 2 * x \in Int /\ 2 * 1000 \in Int /\ 2 * 1000 > 0
    BY <2>2
  <2>5. (2 * x + 1000) \div (2 * 1000) \in Int /\ (1000 - 2 * x) \div (2 * 1000) \in Int
    BY <2>4, DivBounds
  <2> QED
    BY <2>3, <2>5 DEF Rounded
<1>5. DOMAIN f = S
  OBVIOUS
<1> HIDE DEF S, f
<1>6. Total(f) \in Int
  BY <1>3, <1>4, <1>5, SumType DEF Total
<1>7. ComboPrice \in Nat
  BY SettingsAre
<1>8. ComboTarget(b.lines) = Most(0, ComboPrice + Total(f))
  BY DEF ComboTarget, S, f
<1>9. ComboTarget(b.lines) \in Nat
  BY <1>6, <1>7, <1>8 DEF Most
<1> QED
  BY <1>9 DEF Combo, NoRule, IsDiscount

\* What a member is given is a discount, or nothing.
LEMMA MemberIs ==
  ASSUME NEW b, IsBill(b)
  PROVE  IsList(MemberDiscounts(b))
<1> DEFINE bps == b.member.bps
           d == [NoRule EXCEPT !.kind = "percentage", !.value = bps]
<1>2. bps \in Nat
  BY PlanIs DEF IsBill
<1>3. MemberDiscounts(b) = IF bps = 0 THEN <<>> ELSE <<d>>
  BY DEF MemberDiscounts
<1> HIDE DEF bps
<1>5. IsDiscount(d)
  BY <1>2 DEF NoRule, IsDiscount
<1> HIDE DEF d
<1> QED
  BY <1>3, <1>5, ListOfOne, ListOfNone

\* The combo, when there is one, comes first among a bill's discounts.
LEMMA BillDiscounts ==
  ASSUME NEW b, IsBill(b)
  PROVE  /\ IsList(CartDiscounts(b) \o MemberDiscounts(b))
         /\ InCombo(b.lines) # {} =>
              /\ Len(CartDiscounts(b) \o MemberDiscounts(b)) > 0
              /\ (CartDiscounts(b) \o MemberDiscounts(b))[1] = Combo(b)
<1> DEFINE A == {i \in DOMAIN Rules : /\ Rules[i].auto /\ Rules[i] \notin b.asked
                                      /\ IsLive(Rules[i], b.at)}
           B == {i \in DOMAIN Rules : Rules[i] \in b.asked}
           first == IF InCombo(b.lines) = {} THEN <<>> ELSE <<Combo(b)>>
           rules == RulesAt(A) \o RulesAt(B)
           cart == first \o rules
<1>1. CartDiscounts(b) = cart
  BY DEF CartDiscounts, BillRules, Combo
<1>2. IsList(rules)
  <2>1. A \subseteq DOMAIN Rules /\ B \subseteq DOMAIN Rules
    OBVIOUS
  <2> HIDE DEF A, B
  <2>2. IsList(RulesAt(A)) /\ IsList(RulesAt(B))
    BY <2>1, RulesAreDiscounts
  <2> QED
    BY <2>2, ListOfBoth
<1>3. IsList(first) /\ (InCombo(b.lines) # {} => Len(first) > 0 /\ first[1] = Combo(b))
  <2>1. CASE InCombo(b.lines) = {}
    <3>1. first = <<>>
      BY <2>1
    <3> HIDE DEF first
    <3> QED
      BY <2>1, <3>1, ListOfNone
  <2>2. CASE InCombo(b.lines) # {}
    <3>1. first = <<Combo(b)>>
      BY <2>2
    <3> HIDE DEF first
    <3>2. IsList(<<Combo(b)>>) /\ Len(<<Combo(b)>>) = 1 /\ <<Combo(b)>>[1] = Combo(b)
      BY ComboIs, ListOfOne
    <3> QED
      BY <3>1, <3>2
  <2> QED
    BY <2>1, <2>2
<1> HIDE DEF first, rules
<1>4. IsList(cart) /\ (InCombo(b.lines) # {} => Len(cart) > 0 /\ cart[1] = Combo(b))
  BY <1>2, <1>3, ListOfBoth
<1> HIDE DEF cart
<1> QED
  BY <1>1, <1>4, MemberIs, ListOfBoth

-----------------------------------------------------------------------------
(* The quote.                                                               *)

\* The points the rules admit are worth no more than there is to pay.
LEMMA RedeemableFits ==
  ASSUME NEW balance, balance \in Nat, NEW payable, payable \in Nat, NEW redeem,
         redeem \in Most(MinRedeem, 1)..MaxRedeemable(balance, payable)
  PROVE  redeem \in Nat /\ redeem * PointValue \in Nat /\ redeem * PointValue <= payable
<1> DEFINE x == payable * MaxRedeem
           y == x \div 10000
           z == y \div PointValue
<1>1. PointValue \in Nat /\ PointValue > 0 /\ MinRedeem \in Nat
  BY SettingsAre
<1>2. MaxRedeem \in Nat /\ MaxRedeem <= 10000
  BY SettingsAre
<1>3. x \in Nat /\ x <= payable * 10000
  <2>1. MaxRedeem * payable <= 10000 * payable
    <3>1. payable = 0 \/ payable > 0
      OBVIOUS
    <3>2. payable > 0 => payable * MaxRedeem <= payable * 10000
      BY <1>2, Times
    <3> QED
      BY <1>2, <3>1, <3>2
  <2> QED
    BY <1>2, <2>1
<1> HIDE DEF x
<1>4. y \in Nat /\ 10000 * y <= x
  <2>1. 10000 \in Int /\ 10000 > 0 /\ 10000 \in Nat
    OBVIOUS
  <2>2. y \in Nat
    BY <1>3, <2>1, DivMod
  <2>3. 10000 * (x \div 10000) <= x
    BY <1>3, <2>1, DivBounds
  <2> QED
    BY <2>2, <2>3
<1> HIDE DEF y
<1>5. z \in Nat /\ PointValue * z <= y
  BY <1>1, <1>4, DivBounds, DivMod
<1>6. y <= payable
  BY <1>3, <1>4
<1> HIDE DEF z
<1>7. redeem \in Nat /\ redeem <= z
  <2> DEFINE p == Least(balance, z)
             w == MaxRedeemable(balance, payable)
             u == Most(MinRedeem, 1)
  <2>1. w = IF balance < u \/ payable <= 0 \/ p < MinRedeem THEN 0 ELSE p
    BY DEF MaxRedeemable, z, y, x
  <2>2. p \in Nat /\ p <= z /\ u \in Nat /\ u >= 1
    BY <1>1, <1>5 DEF Least, Most
  <2>3. redeem \in u..w
    OBVIOUS
  <2>4. w = 0 \/ w = p
    BY <2>1
  <2> HIDE DEF p, u, w
  <2>5. w \in Nat /\ (w = 0 \/ w <= z)
    BY <2>2, <2>4
  <2>6. redeem \in Int /\ u <= redeem /\ redeem <= w
    BY <2>2, <2>3, <2>5
  <2> QED
    BY <1>5, <2>2, <2>5, <2>6
<1>8. PointValue * redeem <= PointValue * z /\ PointValue * redeem \in Int
      /\ PointValue * z \in Int /\ redeem * PointValue = PointValue * redeem
      /\ PointValue * redeem \in Nat
  BY <1>1, <1>5, <1>7, Times
<1> DEFINE f == PointValue * redeem
           g == PointValue * z
<1>9. f \in Nat /\ g \in Int /\ f <= g /\ g <= y /\ y <= payable /\ y \in Nat
  BY <1>4, <1>5, <1>6, <1>8
<1> HIDE DEF f, g
<1>10. f <= payable
  BY <1>9
<1> QED
  BY <1>7, <1>8, <1>10 DEF f

\* What a price says is discounted is what is off its lines.
LEMMA PriceIs ==
  ASSUME NEW n, NEW lines, CartOf(lines, n), NEW ds, IsList(ds), NEW inclusive, inclusive \in BOOLEAN
  PROVE  LET q == Price(lines, ds, inclusive)
             off == Discounts(lines, ds)
         IN  /\ IsPriced(q.lines, n, inclusive) /\ q = Summed(q.lines)
             /\ \A i \in 1..n : q.lines[i].gross = Gross(lines[i]) /\ q.lines[i].off = off[i]
             /\ q.discount = SumFunctionOnSet(off, 1..n)
             /\ q.subtotal - q.discount = Total(LeftOf(lines, off, 1..n))
<1> DEFINE q == Price(lines, ds, inclusive)
           off == Discounts(lines, ds)
           priced == PricedLines(lines, off, inclusive)
           D == 1..n
           costs == [i \in D |-> priced[i].gross]
           offs == [i \in D |-> priced[i].off]
<1>1. off \in Offs(lines)
  BY DiscountsKeep
<1>2. q = Summed(priced)
  BY DEF Price
<1> HIDE DEF off
<1>3. /\ IsPriced(priced, n, inclusive)
      /\ \A i \in D : priced[i].gross = Gross(lines[i]) /\ priced[i].off = off[i]
  BY <1>1, PricedIs
<1> HIDE DEF priced, q
<1>4. DOMAIN priced = D
  BY <1>3 DEF IsPriced
<1>5. /\ q.lines = priced /\ q.discount = Total(offs) /\ q.subtotal = Total(costs)
  BY <1>2, <1>4 DEF Summed
<1>6. /\ DOMAIN offs = D /\ DOMAIN costs = D
      /\ \A i \in D : offs[i] = off[i] /\ costs[i] = Gross(lines[i])
  BY <1>3
<1>7. /\ IsFiniteSet(D) /\ D \in SUBSET (1..n)
      /\ \A i \in D : off[i] \in Int
  BY <1>1, CartIs DEF Offs
<1> HIDE DEF D, offs, costs
<1>8. Total(offs) = SumFunctionOnSet(off, D)
  BY <1>6, <1>7, TotalIs
<1>9. Total(LeftOf(lines, off, D)) = SumFunctionOnSet(costs, D) - SumFunctionOnSet(off, D)
  BY <1>1, <1>6, <1>7, LeftAdds
<1>10. Total(costs) = SumFunctionOnSet(costs, D)
  BY <1>6 DEF Total
<1>11. /\ IsPriced(q.lines, n, inclusive) /\ q = Summed(q.lines)
       /\ \A i \in 1..n : q.lines[i].gross = Gross(lines[i]) /\ q.lines[i].off = off[i]
       /\ q.discount = SumFunctionOnSet(off, 1..n)
       /\ q.subtotal - q.discount = Total(LeftOf(lines, off, 1..n))
  BY <1>2, <1>3, <1>5, <1>8, <1>9, <1>10 DEF D
<1> QED
  BY <1>11 DEF q, off

IsQuote(b, ds, q) ==
  /\ IsList(ds) /\ q = Price(b.lines, ds, b.inclusive)
  /\ InCombo(b.lines) # {} => Len(ds) > 0 /\ ds[1] = Combo(b)

\* A quote is the price of the bill under its discounts, and the points if
\* there are any: they are never refused.
LEMMA QuoteIs ==
  ASSUME NEW b, IsBill(b), NEW q, QuoteOf(b, q)
  PROVE  \E ds : IsQuote(b, ds, q)
<1> DEFINE ds == CartDiscounts(b) \o MemberDiscounts(b)
           basic == Basic(b)
<1>1. IsList(ds) /\ (InCombo(b.lines) # {} => Len(ds) > 0 /\ ds[1] = Combo(b))
  BY BillDiscounts
<1>2. basic = Price(b.lines, ds, b.inclusive)
  BY DEF Basic
<1>3. PICK n : CartOf(b.lines, n)
  BY BillCart
<1>4. b.inclusive \in BOOLEAN /\ b.balance \in Nat
  BY BalanceIs DEF IsBill
<1> HIDE DEF ds, basic
<1>5. CASE b.redeem = 0 /\ q = basic
  BY <1>1, <1>2, <1>5 DEF IsQuote
<1>6. CASE /\ b.redeem \in Most(MinRedeem, 1)..MaxRedeemable(b.balance, basic.subtotal - basic.discount)
           /\ q = WithPoints(b, basic)
  <2> DEFINE value == b.redeem * PointValue
             d == [NoRule EXCEPT !.value = value]
             more == ds \o <<d>>
             priced == Price(b.lines, more, b.inclusive)
             off == Discounts(b.lines, ds)
             payable == basic.subtotal - basic.discount
             redeem == b.redeem
  <2>1. q = IF priced.discount - basic.discount = value THEN priced ELSE Refused
    BY <1>6 DEF WithPoints, ds
  <2>2. /\ basic.discount = SumFunctionOnSet(off, 1..n)
        /\ payable = Total(LeftOf(b.lines, off, 1..n))
    BY <1>1, <1>2, <1>3, <1>4, PriceIs
  <2>3. off \in Offs(b.lines)
    BY <1>1, <1>3, DiscountsKeep
  <2>4. Total(LeftOf(b.lines, off, 1..n)) \in Nat /\ SumFunctionOnSet(off, 1..n) \in Nat
    <3> DEFINE D == 1..n
               gross == [i \in D |-> Gross(b.lines[i])]
    <3>1. D \in SUBSET (1..n) /\ \A i \in D : gross[i] = Gross(b.lines[i])
      OBVIOUS
    <3> HIDE DEF D, gross, off
    <3>2. Total(LeftOf(b.lines, off, D)) \in Nat
      BY <1>3, <2>3, <3>1, LeftIs
    <3>3. SumFunctionOnSet(off, D) \in Nat
      BY <1>3, <2>3, <3>1, LeftAdds
    <3> QED
      BY <3>2, <3>3 DEF D
  <2>5. value \in Nat /\ value <= payable
    <3>1. payable \in Nat /\ redeem \in Most(MinRedeem, 1)..MaxRedeemable(b.balance, payable)
      BY <1>6, <2>2, <2>4
    <3> HIDE DEF payable, redeem
    <3>2. redeem * PointValue \in Nat /\ redeem * PointValue <= payable
      BY <1>4, <3>1, RedeemableFits
    <3> QED
      BY <3>2 DEF redeem
  <2> HIDE DEF value
  <2>6. IsDiscount(d) /\ d.scope = "order" /\ d.kind = "fixed" /\ d.min = 0 /\ d.value = value
    BY <2>5 DEF NoRule, IsDiscount
  <2> HIDE DEF d
  <2>7. SumFunctionOnSet(Discounts(b.lines, more), 1..n) = SumFunctionOnSet(off, 1..n) + value
    <3>1. d.value <= Total(LeftOf(b.lines, Discounts(b.lines, ds), 1..n))
      BY <2>2, <2>5, <2>6
    <3> QED
      BY <1>1, <1>3, <2>6, <3>1, PointsAreTaken
  <2>8. IsList(more) /\ (InCombo(b.lines) # {} => Len(more) > 0 /\ more[1] = Combo(b))
    <3>1. IsList(<<d>>)
      BY <2>6, ListOfOne
    <3> QED
      BY <1>1, <3>1, ListOfBoth
  <2> HIDE DEF more
  <2>9. priced.discount = SumFunctionOnSet(Discounts(b.lines, more), 1..n)
    BY <1>3, <1>4, <2>8, PriceIs
  <2>10. priced.discount - basic.discount = value
    BY <2>2, <2>4, <2>5, <2>7, <2>9
  <2>11. q = priced
    BY <2>1, <2>10
  <2> QED
    BY <2>8, <2>11 DEF IsQuote
<1> QED
  BY <1>5, <1>6 DEF QuoteOf, basic

\* All that holds of a quote.
LEMMA QuoteSound ==
  ASSUME NEW b, IsBill(b), NEW q, QuoteOf(b, q)
  PROVE  /\ q # Refused /\ q.total \in Nat
         /\ \A i \in DOMAIN q.lines : /\ q.lines[i].off \in 0..q.lines[i].gross
                                      /\ q.lines[i].tax \in 0..q.lines[i].total
         /\ q.total = q.subtotal - q.discount + IF b.inclusive THEN 0 ELSE q.tax
         /\ Total([r \in DOMAIN q.taxLines |-> q.taxLines[r].tax]) = q.tax
         /\ InCombo(b.lines) # {} =>
              Total([i \in InCombo(b.lines) |-> q.lines[i].gross - q.lines[i].off])
                <= ComboTarget(b.lines)
<1>1. PICK ds : IsQuote(b, ds, q)
  BY QuoteIs
<1>2. PICK n : CartOf(b.lines, n)
  BY BillCart
<1>3. b.inclusive \in BOOLEAN /\ IsList(ds) /\ q = Price(b.lines, ds, b.inclusive)
  BY <1>1 DEF IsBill, IsQuote
<1> DEFINE off == Discounts(b.lines, ds)
<1>4. /\ IsPriced(q.lines, n, b.inclusive) /\ q = Summed(q.lines)
      /\ \A i \in 1..n : q.lines[i].gross = Gross(b.lines[i]) /\ q.lines[i].off = off[i]
  BY <1>2, <1>3, PriceIs
<1>5. /\ q.total \in Nat
      /\ q.total = q.subtotal - q.discount + IF b.inclusive THEN 0 ELSE q.tax
  BY <1>3, <1>4, TotalsAddUp
<1>6. Total([r \in DOMAIN q.taxLines |-> q.taxLines[r].tax]) = q.tax
  <2> DEFINE s == Summed(q.lines)
  <2>1. Total([r \in DOMAIN s.taxLines |-> s.taxLines[r].tax]) = s.tax
    BY <1>3, <1>4, TaxLinesAddUp
  <2>2. q = s
    BY <1>4
  <2> HIDE DEF s
  <2> QED
    BY <2>1, <2>2
<1>7. q # Refused
  BY <1>5 DEF Refused
<1>8. ASSUME NEW i \in DOMAIN q.lines
      PROVE  /\ q.lines[i].off \in 0..q.lines[i].gross
             /\ q.lines[i].tax \in 0..q.lines[i].total
  <2> DEFINE l == q.lines[i]
             gross == l.gross
             o == l.off
             tax == l.tax
             total == l.total
  <2>1. gross \in Nat /\ o \in Nat /\ tax \in Nat /\ o <= gross /\ tax <= total
        /\ total = (gross - o) + IF b.inclusive THEN 0 ELSE tax
    BY <1>4 DEF IsPriced
  <2> HIDE DEF gross, o, tax, total
  <2>2. o \in 0..gross /\ tax \in 0..total
    BY <1>3, <2>1
  <2> QED
    BY <2>2 DEF gross, o, tax, total
<1>9. ASSUME InCombo(b.lines) # {}
      PROVE  Total([i \in InCombo(b.lines) |-> q.lines[i].gross - q.lines[i].off])
               <= ComboTarget(b.lines)
  <2> DEFINE S == InCombo(b.lines)
             f == [i \in S |-> q.lines[i].gross - q.lines[i].off]
  <2>1. Len(ds) > 0 /\ ds[1] = Combo(b)
    BY <1>1, <1>9 DEF IsQuote
  <2>2. S = {i \in DOMAIN b.lines : b.lines[i].combo = ds[1].target}
    BY <2>1, ComboIs DEF InCombo
  <2>3. Total(LeftOf(b.lines, off, S)) <= ComboTarget(b.lines)
    <3>1. ds[1].scope = "group" /\ ds[1].kind = "target" /\ ds[1].value = ComboTarget(b.lines)
      BY <2>1, ComboIs
    <3> HIDE DEF S
    <3> QED
      BY <1>2, <1>3, <2>1, <2>2, <3>1, ComboIsMet
  <2>4. S \in SUBSET (1..n)
    BY <1>2 DEF InCombo, CartOf
  <2>5. f = LeftOf(b.lines, off, S)
    <3>1. \A i \in S : q.lines[i].gross - q.lines[i].off = Gross(b.lines[i]) - off[i]
      BY <1>4, <2>4
    <3> HIDE DEF S, off
    <3> QED
      BY <3>1 DEF LeftOf
  <2> QED
    BY <2>3, <2>5
<1> QED
  BY <1>5, <1>6, <1>7, <1>8, <1>9

-----------------------------------------------------------------------------
(* The theorems.                                                            *)

\* A bill adds up line by line whatever rules, combo, member's discount and
\* points meet on it, at any price, rate and quantity: no line is charged
\* less than nothing, the lines add up to the total and the tax lines to the
\* tax, a combo costs its price at most, and points the rules admit are never
\* refused for rounding.
THEOREM QuoteAlwaysAddsUp == BillSpec => []QuoteAddsUp
<1>1. BillInv => QuoteAddsUp
  <2> SUFFICES ASSUME BillInv, bill # NoBill
               PROVE  quote # Refused /\ LinesAddUp /\ ComboHolds
    BY DEF QuoteAddsUp, Quoted
  <2>1. IsBill(bill) /\ QuoteOf(bill, quote)
    BY DEF BillInv
  <2>2. quote # Refused
    BY <2>1, QuoteSound
  <2>3. LinesAddUp
    BY <2>1, QuoteSound DEF LinesAddUp
  <2>4. ComboHolds
    BY <2>1, QuoteSound DEF ComboHolds
  <2> QED
    BY <2>2, <2>3, <2>4
<1> QED
  BY <1>1, BillsAlways, PTL

\* Nothing paid earns nothing.
LEMMA NothingEarned ==
  ASSUME NEW b, IsBill(b)
  PROVE  Earned(b, 0) = 0
<1> DEFINE k == b.member.multiplier
<1>1. PointsPerUnit \in Nat /\ Cents \in Nat /\ Cents > 0
  BY SettingsAre
<1>2. k \in Nat
  BY PlanIs DEF IsBill
<1>3. 0 * PointsPerUnit = 0 /\ 0 \div Cents = 0 /\ 0 * k = 0 /\ 0 \div 10000 = 0
  <2>1. 0 \div Cents = 0
    <3> DEFINE x == 0 \div Cents
    <3>1. x \in Int /\ Cents * x <= 0 /\ 0 < Cents * x + Cents
      BY <1>1, DivBounds
    <3>2. 0 \in Nat /\ x \in Nat
      BY <1>1, DivMod
    <3> HIDE DEF x
    <3>3. x > 0 => Cents * x >= Cents * 1
      BY <1>1, <3>1, Times
    <3>4. Cents * 1 = Cents
      BY <1>1
    <3>5. x = 0
      BY <1>1, <3>1, <3>2, <3>3, <3>4
    <3> QED
      BY <3>5 DEF x
  <2> HIDE DEF k
  <2> QED
    BY <1>1, <1>2, <2>1
<1> HIDE DEF k
<1>4. Earned(b, 0) = (((0 * PointsPerUnit) \div Cents) * k) \div 10000
  BY DEF Earned, k
<1> QED
  BY <1>3, <1>4

\* The tenders applied pay the bill exactly, change comes out of cash only,
\* and no tender pays less than nothing, however many tenders there are and
\* in whatever order; a bill of nothing earns no points.
THEOREM TendersAlwaysAddUp == BillSpec => []TendersAddUp
<1>1. BillInv => TendersAddUp
  <2> SUFFICES ASSUME BillInv, paid # <<>>
               PROVE  /\ Total([i \in DOMAIN paid |-> paid[i].amount]) = quote.total
                      /\ \A i \in DOMAIN paid :
                           /\ paid[i].amount \in 0..paid[i].tendered
                           /\ paid[i].change = paid[i].tendered - paid[i].amount
                           /\ paid[i].change > 0 => paid[i].method = "cash"
                      /\ quote.total = 0 => Earned(bill, quote.total) = 0
    BY DEF TendersAddUp
  <2>1. IsBill(bill) /\ QuoteOf(bill, quote)
    BY DEF BillInv
  <2>2. PICK tenders : IsPayment(quote.total, tenders) /\ paid = Applied(quote.total, tenders)
    BY DEF BillInv
  <2>3. quote.total \in Int
    <3>1. quote.total \in Nat
      BY <2>1, QuoteSound
    <3> QED
      BY <3>1
  <2>4. quote.total = 0 => Earned(bill, quote.total) = 0
    BY <2>1, NothingEarned
  <2> DEFINE p == Applied(quote.total, tenders)
  <2>5. /\ Total([i \in DOMAIN p |-> p[i].amount]) = quote.total
        /\ \A i \in DOMAIN p : /\ p[i].amount \in 0..p[i].tendered
                               /\ p[i].change = p[i].tendered - p[i].amount
                               /\ p[i].change > 0 => p[i].method = "cash"
    BY <2>2, <2>3, PaymentAddsUp
  <2>6. paid = p
    BY <2>2
  <2> HIDE DEF p
  <2> QED
    BY <2>4, <2>5, <2>6
<1> QED
  BY <1>1, BillsAlways, PTL
=============================================================================
