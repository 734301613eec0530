--------------------------- MODULE TillDay_proofs ---------------------------
(***************************************************************************)
(* Proofs about TillDay, for any number of tills, transactions, shifts and *)
(* Z reports, any bills and any readings of the clocks.                    *)
(***************************************************************************)
EXTENDS TillDay, SumTheorems, TLAPS

-----------------------------------------------------------------------------
(* Shares.                                                                  *)

LEMMA HalfUpInt ==
  ASSUME NEW n \in Int, NEW d \in Int, d > 0
  PROVE  /\ HalfUp(n, d) \in Int
         /\ n >= 0 => HalfUp(n, d) >= 0
         /\ n <= 0 => HalfUp(n, d) <= 0
<1> DEFINE up == (2 * n + d) \div (2 * d)
           down == (d - 2 * n) \div (2 * d)
<1>1. up \in Int /\ down \in Int
  BY DivBounds
<1>2. 0 \div (2 * d) = 0 /\ d \div (2 * d) = 0
  BY SMT
<1>3. n >= 0 => up >= 0
  BY <1>1, <1>2, DivMonotone
<1>4. n <= 0 => down >= 0
  BY <1>1, <1>2, DivMonotone
<1>5. n = 0 => up = 0
  BY <1>2
<1> QED
  BY <1>1, <1>3, <1>4, <1>5 DEF HalfUp

\* A share is a number; nothing has no share, and the share of the whole is all.
LEMMA ShareValues ==
  ASSUME NEW total \in Nat, NEW part \in Int, NEW whole \in Nat
  PROVE  /\ Share(total, part, whole) \in Int
         /\ part \in Nat => Share(total, part, whole) \in Nat
         /\ part <= 0 => Share(total, part, whole) <= 0
         /\ Share(total, 0, whole) = 0
         /\ whole > 0 => Share(total, whole, whole) = total
<1>1. CASE whole = 0
  BY <1>1 DEF Share
<1>2. CASE whole > 0
  <2>1. /\ total * part \in Int
        /\ part >= 0 => total * part >= 0
        /\ part <= 0 => total * part <= 0
        /\ total * 0 = 0
        /\ total * whole \in Int /\ total * whole >= 0
    BY SMT
  <2>2. Share(total, part, whole) = HalfUp(total * part, whole)
        /\ Share(total, whole, whole) = HalfUp(total * whole, whole)
        /\ Share(total, 0, whole) = HalfUp(0, whole)
    BY <1>2, <2>1 DEF Share
  <2>3. HalfUp(total * whole, whole) = total
    BY <1>2, <2>1, DivWhole DEF HalfUp
  <2>4. /\ HalfUp(total * part, whole) \in Int
        /\ total * part >= 0 => HalfUp(total * part, whole) >= 0
        /\ total * part <= 0 => HalfUp(total * part, whole) <= 0
    BY <1>2, <2>1, HalfUpInt
  <2>5. HalfUp(0, whole) = 0
    <3>1. /\ HalfUp(0, whole) \in Int
          /\ 0 >= 0 => HalfUp(0, whole) >= 0
          /\ 0 <= 0 => HalfUp(0, whole) <= 0
      BY <1>2, HalfUpInt
    <3> QED
      BY <3>1
  <2> HIDE DEF Share, HalfUp
  <2> QED
    BY <1>2, <2>1, <2>2, <2>3, <2>4, <2>5
<1> QED
  BY <1>1, <1>2

\* A larger part has a share that is not smaller.
LEMMA ShareMonotone ==
  ASSUME NEW total \in Nat, NEW p \in Int, NEW q \in Int, NEW whole \in Nat, p <= q
  PROVE  Share(total, p, whole) <= Share(total, q, whole)
<1>1. CASE whole = 0
  BY <1>1 DEF Share
<1>2. CASE whole > 0 /\ p < 0 /\ q >= 0
  <2>1. p <= 0 /\ q \in Nat
    BY <1>2
  <2>2. Share(total, p, whole) \in Int /\ Share(total, p, whole) <= 0
    <3>1. /\ Share(total, p, whole) \in Int
          /\ p <= 0 => Share(total, p, whole) <= 0
      BY ShareValues
    <3> QED
      BY <2>1, <3>1
  <2>3. Share(total, q, whole) \in Nat
    <3>1. q \in Nat => Share(total, q, whole) \in Nat
      BY ShareValues
    <3> QED
      BY <2>1, <3>1
  <2> QED
    BY <2>2, <2>3
<1>3. CASE whole > 0 /\ (p >= 0 \/ q < 0)
  <2> DEFINE x == total * p
             y == total * q
  <2>1. x \in Int /\ y \in Int /\ x <= y
    BY Times, SMT
  <2>2. x >= 0 <=> total = 0 \/ p >= 0
    BY SMT
  <2>3. y >= 0 <=> total = 0 \/ q >= 0
    BY SMT
  <2>4. CASE x >= 0 /\ y >= 0
    BY <1>3, <2>1, <2>4, DivMonotone DEF Share, HalfUp
  <2>5. CASE x < 0 /\ y < 0
    <3>1. (whole - 2 * y) \div (2 * whole) <= (whole - 2 * x) \div (2 * whole)
      BY <1>3, <2>1, DivMonotone
    <3> QED
      BY <1>3, <2>1, <2>5, <3>1, DivBounds DEF Share, HalfUp
  <2> QED
    BY <1>3, <2>1, <2>2, <2>3, <2>4, <2>5
<1> QED
  BY <1>1, <1>2, <1>3

-----------------------------------------------------------------------------
(* Goods.                                                                   *)

LEMMA GoodsParts ==
  ASSUME NEW g \in Goods
  PROVE  /\ g.qty \in [Lines -> Nat] /\ g.amount \in [Lines -> Nat]
         /\ g.tax \in [Lines -> Nat] /\ g.paid \in [Methods -> Nat]
         /\ \A l \in Lines : g.qty[l] \in Nat /\ g.amount[l] \in Nat /\ g.tax[l] \in Nat
         /\ g.paid["cash"] \in Nat /\ g.paid["card"] \in Nat
         /\ g.points \in Nat
         /\ SumL(g.amount) \in Nat /\ SumL(g.tax) \in Nat /\ SumM(g.paid) \in Nat
         /\ Gross(g) \in Int
  BY DEF Goods, Lines, Methods, SumL, SumM, Gross

LEMMA PlusGoods ==
  ASSUME NEW g \in Goods, NEW h \in Goods
  PROVE  /\ Plus(g, h) \in Goods
         /\ \A l \in Lines : /\ Plus(g, h).qty[l] = g.qty[l] + h.qty[l]
                              /\ Plus(g, h).amount[l] = g.amount[l] + h.amount[l]
                              /\ Plus(g, h).tax[l] = g.tax[l] + h.tax[l]
         /\ Plus(g, h).points = g.points + h.points
         /\ Plus(g, h).paid["card"] = g.paid["card"] + h.paid["card"]
         /\ SumL(Plus(g, h).amount) = SumL(g.amount) + SumL(h.amount)
         /\ SumM(Plus(g, h).paid) = SumM(g.paid) + SumM(h.paid)
         /\ Gross(Plus(g, h)) = Gross(g) + Gross(h)
<1>1. \A l \in Lines : /\ Plus(g, h).qty[l] = g.qty[l] + h.qty[l]
                       /\ Plus(g, h).amount[l] = g.amount[l] + h.amount[l]
                       /\ Plus(g, h).tax[l] = g.tax[l] + h.tax[l]
  BY DEF Plus
<1>2. \A m \in Methods : Plus(g, h).paid[m] = g.paid[m] + h.paid[m]
  BY DEF Plus
<1>3. Plus(g, h).points = g.points + h.points
  BY DEF Plus
<1>4. Plus(g, h) \in Goods
  BY DEF Plus, Goods
<1>5. /\ SumL(Plus(g, h).amount) = SumL(g.amount) + SumL(h.amount)
      /\ SumL(Plus(g, h).tax) = SumL(g.tax) + SumL(h.tax)
  BY <1>1, GoodsParts DEF SumL, Lines
<1>6. SumM(Plus(g, h).paid) = SumM(g.paid) + SumM(h.paid)
  BY <1>2, GoodsParts DEF SumM, Methods
<1> QED
  BY <1>1, <1>2, <1>3, <1>4, <1>5, <1>6, GoodsParts DEF Gross, Methods

LEMMA NothingIsGoods ==
  /\ Nothing \in Goods
  /\ \A l \in Lines : Nothing.qty[l] = 0 /\ Nothing.amount[l] = 0 /\ Nothing.tax[l] = 0
  /\ Nothing.paid["cash"] = 0 /\ Nothing.paid["card"] = 0 /\ Nothing.points = 0
  /\ SumL(Nothing.amount) = 0 /\ SumM(Nothing.paid) = 0 /\ Gross(Nothing) = 0
  BY DEF Nothing, Goods, Lines, Methods, SumL, SumM, Gross

\* Prices are not below their tax.
LEMMA BillGross ==
  ASSUME NEW c \in Carts
  PROVE  /\ c \in Goods /\ IsBill(c)
         /\ Gross(c) \in Nat
         /\ Gross(c) = 0 => c.points = 0
<1>1. c \in Goods /\ IsBill(c)
  BY CartsAssumption
<1>2. c.tax[1] <= c.amount[1] /\ c.tax[2] <= c.amount[2]
  BY <1>1 DEF IsBill, Lines
<1>3. /\ c.tax[1] \in Nat /\ c.tax[2] \in Nat
      /\ c.amount[1] \in Nat /\ c.amount[2] \in Nat
  BY <1>1, GoodsParts DEF Lines
<1>4. SumL(c.tax) = SumL(c.amount) => c.points = 0
  BY <1>1 DEF IsBill
<1> QED
  BY <1>1, <1>2, <1>3, <1>4 DEF Gross, SumL

-----------------------------------------------------------------------------
(* What goes back is the share of all that is back.                         *)

LEMMA SharedNothing ==
  ASSUME NEW c \in Carts
  PROVE  Shared(Nothing, c)
<1>1. c \in Goods /\ Gross(c) \in Nat
  BY BillGross
<1>2. \A l \in Lines : /\ Nothing.qty[l] <= c.qty[l]
                       /\ Share(c.amount[l], 0, c.qty[l]) = 0
                       /\ Share(c.tax[l], 0, c.qty[l]) = 0
  <2> TAKE l \in Lines
  <2>1. c.qty[l] \in Nat /\ c.amount[l] \in Nat /\ c.tax[l] \in Nat
    BY <1>1, GoodsParts
  <2>2. Share(c.amount[l], 0, c.qty[l]) = 0 /\ Share(c.tax[l], 0, c.qty[l]) = 0
    BY <2>1, ShareValues
  <2> QED
    BY <2>1, <2>2, NothingIsGoods
<1>3. AtMost(Gross(Nothing), Gross(c)) = 0
  BY <1>1, NothingIsGoods DEF AtMost
<1>4. Share(c.points, 0, Gross(c)) = 0
  BY <1>1, GoodsParts, ShareValues
<1>5. Nothing.paid["card"] <= c.paid["card"]
  BY <1>1, GoodsParts, NothingIsGoods
<1> QED
  BY <1>2, <1>3, <1>4, <1>5, NothingIsGoods DEF Shared

\* The slice after before, on top of the share of before.
LEMMA SliceFacts ==
  ASSUME NEW a \in Nat, NEW before \in Nat, NEW q \in Nat, NEW whole \in Nat
  PROVE  /\ Slice(a, before, q, whole) \in Nat
         /\ Share(a, before, whole) \in Int
         /\ Share(a, before, whole) + Slice(a, before, q, whole)
              = Share(a, before + q, whole)
<1>1. before \in Int /\ before + q \in Int /\ before <= before + q
  OBVIOUS
<1>2. Share(a, before, whole) \in Int
  BY <1>1, ShareValues
<1>3. Share(a, before + q, whole) \in Int
  BY <1>1, ShareValues
<1>4. Share(a, before, whole) <= Share(a, before + q, whole)
  BY <1>1, ShareMonotone
<1> QED
  BY <1>2, <1>3, <1>4 DEF Slice

\* A reversal is well-formed.
LEMMA ReversalIsGoods ==
  ASSUME NEW t, NEW i, NEW q \in [Lines -> Nat], NEW paid \in [Methods -> Nat],
         Sold(i) \in Goods, back[t][i] \in Goods
  PROVE  /\ Slices(t, i, q, Sold(i).amount) \in [Lines -> Nat]
         /\ Slices(t, i, q, Sold(i).tax) \in [Lines -> Nat]
         /\ Reversal(t, i, q, paid).points \in Int
         /\ Reversal(t, i, q, paid).points >= 0 => Reversal(t, i, q, paid) \in Goods
         /\ Reversal(t, i, q, paid).qty = q
         /\ Reversal(t, i, q, paid).paid = paid
         /\ Reversal(t, i, q, paid).amount = Slices(t, i, q, Sold(i).amount)
         /\ Reversal(t, i, q, paid).tax = Slices(t, i, q, Sold(i).tax)
<1> DEFINE s == Sold(i)
           b == back[t][i]
           g == Reversal(t, i, q, paid)
<1>1. ASSUME NEW f \in [Lines -> Nat]
      PROVE  Slices(t, i, q, f) \in [Lines -> Nat]
  <2>1. \A l \in Lines : Slice(f[l], b.qty[l], q[l], s.qty[l]) \in Nat
    BY GoodsParts, SliceFacts
  <2> QED
    BY <2>1 DEF Slices
<1>2. /\ Slices(t, i, q, s.amount) \in [Lines -> Nat]
      /\ Slices(t, i, q, s.tax) \in [Lines -> Nat]
  BY <1>1, GoodsParts
<1>3. g.points \in Int
  <2> DEFINE a == SumL(Slices(t, i, q, s.amount)) - SumL(Slices(t, i, q, s.tax))
  <2>1. a \in Int
    BY <1>2 DEF SumL, Lines
  <2>2. Gross(s) \in Int /\ Gross(b) \in Int /\ s.points \in Nat
    BY GoodsParts
  <2>3. \A y \in Int : Share(s.points, AtMost(y, Gross(s)), Gross(s)) \in Int
    <3>1. ASSUME NEW y \in Int
          PROVE  Share(s.points, AtMost(y, Gross(s)), Gross(s)) \in Int
      <4>1. AtMost(y, Gross(s)) \in Int
        BY <2>2 DEF AtMost
      <4>2. CASE Gross(s) <= 0
        BY <4>2 DEF Share
      <4>3. CASE Gross(s) > 0
        <5>1. Gross(s) \in Nat
          BY <2>2, <4>3
        <5> QED
          BY <2>2, <4>1, <5>1, ShareValues
      <4> QED
        BY <2>2, <4>2, <4>3
    <3> QED
      BY <3>1
  <2>4. g.points = PointsBack(s.points, Gross(s), Gross(b), a)
    BY DEF Reversal
  <2>5. Gross(b) + a \in Int
    BY <2>1, <2>2
  <2> HIDE DEF a
  <2> QED
    BY <2>2, <2>3, <2>4, <2>5 DEF PointsBack
<1>4. g.points >= 0 => g \in Goods
  BY <1>2, <1>3 DEF Reversal, Goods
<1> QED
  BY <1>2, <1>3, <1>4 DEF Reversal

\* A reversal takes the shares from those of what was back to those of what is.
LEMMA SharedStep ==
  ASSUME NEW t, NEW i, NEW q \in [Lines -> Nat], NEW paid \in [Methods -> Nat],
         Sold(i) \in Carts, back[t][i] \in Goods,
         Shared(back[t][i], Sold(i)),
         \A l \in Lines : back[t][i].qty[l] + q[l] <= Sold(i).qty[l],
         Reversal(t, i, q, paid) \in Goods,
         SumM(paid) = SumL(Slices(t, i, q, Sold(i).amount)),
         back[t][i].paid["card"] + paid["card"] <= Sold(i).paid["card"]
  PROVE  Shared(Plus(back[t][i], Reversal(t, i, q, paid)), Sold(i))
<1> DEFINE s == Sold(i)
           b == back[t][i]
           g == Reversal(t, i, q, paid)
           p == Plus(b, g)
<1>1. s \in Goods /\ Gross(s) \in Nat
  BY BillGross
<1>2. /\ g.qty = q /\ g.paid = paid
      /\ g.amount = Slices(t, i, q, s.amount)
      /\ g.tax = Slices(t, i, q, s.tax)
  BY DEF Reversal
<1>3. /\ \A l \in Lines : /\ p.qty[l] = b.qty[l] + q[l]
                         /\ p.amount[l] = b.amount[l] + g.amount[l]
                         /\ p.tax[l] = b.tax[l] + g.tax[l]
      /\ p.points = b.points + g.points
      /\ p.paid["card"] = b.paid["card"] + paid["card"]
      /\ SumL(p.amount) = SumL(b.amount) + SumL(g.amount)
      /\ SumM(p.paid) = SumM(b.paid) + SumM(paid)
      /\ Gross(p) = Gross(b) + Gross(g)
  BY <1>2, PlusGoods
<1>4. ASSUME NEW l \in Lines
      PROVE  /\ p.qty[l] <= s.qty[l]
             /\ p.amount[l] = Share(s.amount[l], p.qty[l], s.qty[l])
             /\ p.tax[l] = Share(s.tax[l], p.qty[l], s.qty[l])
  <2>1. /\ b.qty[l] \in Nat /\ q[l] \in Nat /\ s.qty[l] \in Nat
        /\ s.amount[l] \in Nat /\ s.tax[l] \in Nat
    BY <1>1, GoodsParts
  <2>2. /\ g.amount[l] = Slice(s.amount[l], b.qty[l], q[l], s.qty[l])
        /\ g.tax[l] = Slice(s.tax[l], b.qty[l], q[l], s.qty[l])
    BY <1>2 DEF Slices
  <2>3. /\ b.amount[l] = Share(s.amount[l], b.qty[l], s.qty[l])
        /\ b.tax[l] = Share(s.tax[l], b.qty[l], s.qty[l])
    BY DEF Shared
  <2>4. ASSUME NEW a \in Nat
        PROVE  Share(a, b.qty[l], s.qty[l]) + Slice(a, b.qty[l], q[l], s.qty[l])
                 = Share(a, b.qty[l] + q[l], s.qty[l])
    <3>1. \A x, y, w \in Nat : Share(a, x, w) + Slice(a, x, y, w) = Share(a, x + y, w)
      BY SliceFacts
    <3> QED
      BY <2>1, <3>1
  <2>5. p.qty[l] <= s.qty[l]
    BY <1>3
  <2> HIDE DEF p, g, b, s
  <2> QED
    BY <1>3, <2>1, <2>2, <2>3, <2>4, <2>5
<1>5. p.points = Share(s.points, AtMost(Gross(p), Gross(s)), Gross(s))
  <2>1. g.points = Share(s.points, AtMost(Gross(b) + Gross(g), Gross(s)), Gross(s))
                     - Share(s.points, AtMost(Gross(b), Gross(s)), Gross(s))
    BY DEF Reversal, PointsBack, Gross
  <2>2. b.points = Share(s.points, AtMost(Gross(b), Gross(s)), Gross(s))
    BY DEF Shared
  <2>3. \A y \in Int : Share(s.points, AtMost(y, Gross(s)), Gross(s)) \in Int
    <3>1. ASSUME NEW y \in Int
          PROVE  Share(s.points, AtMost(y, Gross(s)), Gross(s)) \in Int
      <4>1. AtMost(y, Gross(s)) \in Int
        BY <1>1 DEF AtMost
      <4> QED
        BY <1>1, <4>1, GoodsParts, ShareValues
    <3> QED
      BY <3>1
  <2>4. Gross(b) \in Int /\ Gross(g) \in Int /\ Gross(b) + Gross(g) \in Int
    BY GoodsParts
  <2> HIDE DEF p, g, b, s
  <2> QED
    BY <1>3, <2>1, <2>2, <2>3, <2>4
<1>6. SumM(p.paid) = SumL(p.amount)
  BY <1>2, <1>3 DEF Shared
<1>7. p.paid["card"] <= s.paid["card"]
  BY <1>3
<1> QED
  BY <1>4, <1>5, <1>6, <1>7 DEF Shared

\* What is back of a line, or of the points, is within what was sold, and all
\* of it when all of the goods are back.
LEMMA SharedBounds ==
  ASSUME NEW s \in Carts, NEW b \in Goods, Shared(b, s)
  PROVE  /\ \A l \in Lines : /\ b.qty[l] <= s.qty[l]
                             /\ b.amount[l] <= s.amount[l]
                             /\ b.qty[l] = s.qty[l] => b.amount[l] = s.amount[l]
         /\ b.points <= s.points
         /\ b.qty = s.qty => b.points = s.points
<1>1. s \in Goods /\ IsBill(s) /\ Gross(s) \in Nat /\ (Gross(s) = 0 => s.points = 0)
  BY BillGross
<1>2. ASSUME NEW a \in Nat, NEW part \in Int, NEW whole \in Nat,
             part <= whole, whole = 0 => a = 0
      PROVE  Share(a, part, whole) <= a /\ (part = whole => Share(a, part, whole) = a)
  <2>1. Share(a, part, whole) <= Share(a, whole, whole)
    BY <1>2, ShareMonotone
  <2>2. whole > 0 => Share(a, whole, whole) = a
    BY <1>2, ShareValues
  <2>3. whole = 0 => Share(a, whole, whole) = 0
    BY DEF Share
  <2> QED
    BY <1>2, <2>1, <2>2, <2>3
<1>3. ASSUME NEW l \in Lines
      PROVE  /\ b.qty[l] <= s.qty[l]
             /\ b.amount[l] <= s.amount[l]
             /\ b.qty[l] = s.qty[l] => b.amount[l] = s.amount[l] /\ b.tax[l] = s.tax[l]
  <2>1. /\ b.qty[l] \in Nat /\ s.qty[l] \in Nat
        /\ s.amount[l] \in Nat /\ s.tax[l] \in Nat
    BY <1>1, GoodsParts
  <2>2. /\ s.qty[l] = 0 => s.amount[l] = 0
        /\ s.tax[l] <= s.amount[l]
    BY <1>1 DEF IsBill
  <2>3. /\ b.qty[l] <= s.qty[l]
        /\ b.amount[l] = Share(s.amount[l], b.qty[l], s.qty[l])
        /\ b.tax[l] = Share(s.tax[l], b.qty[l], s.qty[l])
    BY DEF Shared
  <2>4. s.qty[l] = 0 => s.tax[l] = 0
    BY <2>1, <2>2
  <2>5. b.amount[l] <= s.amount[l] /\ (b.qty[l] = s.qty[l] => b.amount[l] = s.amount[l])
    BY <1>2, <2>1, <2>2, <2>3
  <2>6. b.qty[l] = s.qty[l] => b.tax[l] = s.tax[l]
    BY <1>2, <2>1, <2>3, <2>4
  <2> QED
    BY <2>3, <2>5, <2>6
<1>4. Gross(b) \in Int /\ s.points \in Nat
  BY <1>1, GoodsParts
<1>5. b.points = Share(s.points, AtMost(Gross(b), Gross(s)), Gross(s))
  BY DEF Shared
<1>6. AtMost(Gross(b), Gross(s)) \in Int /\ AtMost(Gross(b), Gross(s)) <= Gross(s)
  BY <1>1, <1>4 DEF AtMost
<1>7. b.points <= s.points
  BY <1>1, <1>2, <1>4, <1>5, <1>6
<1>8. b.qty = s.qty => b.points = s.points
  <2> HAVE b.qty = s.qty
  <2>1. \A l \in Lines : b.amount[l] = s.amount[l] /\ b.tax[l] = s.tax[l]
    BY <1>3
  <2>2. Gross(b) = Gross(s)
    BY <2>1 DEF Gross, SumL, Lines
  <2>3. AtMost(Gross(b), Gross(s)) = Gross(s)
    BY <1>1, <2>2 DEF AtMost
  <2> QED
    BY <1>1, <1>2, <1>4, <1>5, <2>3
<1> QED
  BY <1>3, <1>7, <1>8

-----------------------------------------------------------------------------
(* The invariant.                                                           *)

LEMMA AppendedTx ==
  ASSUME NEW q \in Seq(Tx), NEW x \in Tx
  PROVE  /\ Append(q, x) \in Seq(Tx)
         /\ Len(Append(q, x)) = Len(q) + 1
         /\ \A j \in 1..Len(q) : Append(q, x)[j] = q[j]
         /\ Append(q, x)[Len(q) + 1] = x
  OBVIOUS

LEMMA AppendedShift ==
  ASSUME NEW q \in Seq(Shift), NEW x \in Shift
  PROVE  /\ Append(q, x) \in Seq(Shift)
         /\ Len(Append(q, x)) = Len(q) + 1
         /\ \A j \in 1..Len(q) : Append(q, x)[j] = q[j]
         /\ Append(q, x)[Len(q) + 1] = x
  OBVIOUS

LEMMA AppendedZ ==
  ASSUME NEW q \in Seq(Z), NEW x \in Z
  PROVE  /\ Append(q, x) \in Seq(Z)
         /\ Len(Append(q, x)) = Len(q) + 1
         /\ \A j \in 1..Len(q) : Append(q, x)[j] = q[j]
         /\ Append(q, x)[Len(q) + 1] = x
  OBVIOUS

\* What the types say of rows, shifts, reports and tills.
LEMMA Typed ==
  ASSUME TypeOK
  PROVE  /\ MaxTx \in Nat /\ MaxTime \in Nat /\ MaxShifts \in Nat /\ MaxZ \in Nat
         /\ DOMAIN txs = 1..Len(txs) /\ Len(txs) \in Nat
         /\ DOMAIN shifts = 1..Len(shifts) /\ Len(shifts) \in Nat
         /\ DOMAIN zs = 1..Len(zs) /\ Len(zs) \in Nat
         /\ \A i \in DOMAIN txs :
              /\ txs[i].till \in Tills /\ txs[i].kind \in Kinds /\ txs[i].of \in 1..MaxTx
              /\ txs[i].at \in 1..MaxTime /\ txs[i].shift \in 1..MaxShifts
              /\ txs[i].goods \in Goods
         /\ \A s \in DOMAIN shifts :
              /\ shifts[s] \in Shift
              /\ shifts[s].till \in Tills /\ shifts[s].opened \in 1..MaxTime
              /\ shifts[s].closed \in 0..MaxTime /\ shifts[s].rows \in SUBSET (1..MaxTx)
         /\ \A n \in DOMAIN zs :
              /\ zs[n].till \in Tills /\ zs[n].start \in 1..MaxTime /\ zs[n].end \in 1..MaxTime
              /\ zs[n].rows \in SUBSET (1..MaxTx) /\ zs[n].shifts \in SUBSET (1..MaxShifts)
              /\ zs[n].upto \in 0..MaxTx
         /\ \A t \in Tills :
              /\ has[t] \subseteq DOMAIN txs
              /\ clock[t] \in 1..MaxTime /\ asked[t].at \in 1..MaxTime /\ due[t] \in 0..MaxTime
<1>1. /\ MaxTx \in Nat /\ MaxTime \in Nat /\ MaxShifts \in Nat /\ MaxZ \in Nat
  BY BoundsAssumption
<1>2. /\ DOMAIN txs = 1..Len(txs) /\ Len(txs) \in Nat
      /\ \A i \in DOMAIN txs : txs[i] \in Tx
  BY DEF TypeOK
<1>3. /\ DOMAIN shifts = 1..Len(shifts) /\ Len(shifts) \in Nat
      /\ \A s \in DOMAIN shifts : shifts[s] \in Shift
  BY DEF TypeOK
<1>4. /\ DOMAIN zs = 1..Len(zs) /\ Len(zs) \in Nat
      /\ \A n \in DOMAIN zs : zs[n] \in Z
  BY DEF TypeOK
<1>5. \A t \in Tills :
        /\ has[t] \subseteq DOMAIN txs
        /\ clock[t] \in 1..MaxTime /\ asked[t].at \in 1..MaxTime /\ due[t] \in 0..MaxTime
  BY DEF TypeOK, Time
<1>6. \A i \in DOMAIN txs :
        /\ txs[i].till \in Tills /\ txs[i].kind \in Kinds /\ txs[i].of \in 1..MaxTx
        /\ txs[i].at \in 1..MaxTime /\ txs[i].shift \in 1..MaxShifts
        /\ txs[i].goods \in Goods
  BY <1>2 DEF Tx, Time
<1>7. \A s \in DOMAIN shifts :
        /\ shifts[s].till \in Tills /\ shifts[s].opened \in 1..MaxTime
        /\ shifts[s].closed \in 0..MaxTime /\ shifts[s].rows \in SUBSET (1..MaxTx)
  BY <1>3 DEF Shift, Time
<1>8. \A n \in DOMAIN zs :
        /\ zs[n].till \in Tills /\ zs[n].start \in 1..MaxTime /\ zs[n].end \in 1..MaxTime
        /\ zs[n].rows \in SUBSET (1..MaxTx) /\ zs[n].shifts \in SUBSET (1..MaxShifts)
        /\ zs[n].upto \in 0..MaxTx
  BY <1>4 DEF Z, Time
<1> QED
  BY <1>1, <1>2, <1>3, <1>4, <1>5, <1>6, <1>7, <1>8

LEMMA InitInv == Init => BooksInv
<1> SUFFICES ASSUME Init PROVE BooksInv
  OBVIOUS
<1> USE DEF Init
<1>1. /\ Len(txs) = 0 /\ Len(shifts) = 0 /\ Len(zs) = 0
      /\ DOMAIN txs = {} /\ DOMAIN shifts = {} /\ DOMAIN zs = {}
      /\ Sales = {}
  BY DEF Sales
<1>2. \A t \in Tills : has[t] = {} /\ asked[t].at = 1 /\ clock[t] = 1 /\ due[t] = 0
  BY DEF NotAsked
<1>3. TypeOK
  <2>1. txs \in Seq(Tx) /\ shifts \in Seq(Shift) /\ zs \in Seq(Z)
    OBVIOUS
  <2>2. 1 \in Time
    BY BoundsAssumption DEF Time
  <2>3. back \in [Tills -> [1..MaxTx -> Goods]]
    BY NothingIsGoods
  <2>4. asked \in [Tills -> [what : {"none", "open", "close"}, at : Time]]
    BY <2>2 DEF NotAsked
  <2>5. clock \in [Tills -> Time] /\ due \in [Tills -> 0..MaxTime]
    BY <2>2, BoundsAssumption
  <2> QED
    BY <1>1, <2>1, <2>3, <2>4, <2>5, BoundsAssumption DEF TypeOK
<1>4. RowsInv
  BY <1>1, <1>2 DEF RowsInv, OpenShifts
<1>5. BackInv /\ SharesInv
  BY <1>1, <1>2 DEF BackInv, SharesInv
<1>6. ClockInv /\ CutInv /\ ShiftInv /\ VoidInv /\ ZCoversSince /\ ZMatchesShifts
  BY <1>1, <1>2 DEF ClockInv, CutInv, ShiftInv, VoidInv, ZCoversSince, ZMatchesShifts, ZsOf
<1> QED
  BY <1>3, <1>4, <1>5, <1>6 DEF BooksInv

\* What a new row is, and that the others stay.
LEMMA RecordFacts ==
  ASSUME BooksInv, NEW t \in Tills, NEW kind \in Kinds, NEW i \in 1..MaxTx,
         NEW at \in Time, NEW g \in Goods, Record(t, kind, i, at, g)
  PROVE  \E s \in OpenShifts(t) :
           /\ txs' \in Seq(Tx) /\ Len(txs') = Len(txs) + 1 /\ Len(txs') <= MaxTx
           /\ (DOMAIN txs)' = DOMAIN txs \cup {Len(txs) + 1}
           /\ \A k \in DOMAIN txs : k # Len(txs) + 1 /\ txs'[k] = txs[k]
           /\ txs'[Len(txs) + 1] = [till |-> t, kind |-> kind, of |-> i, at |-> at,
                                    shift |-> s, goods |-> g]
           /\ has' \in [Tills -> SUBSET (DOMAIN txs)']
           /\ \A u \in Tills : has'[u] = IF u = t THEN has[t] \cup {Len(txs) + 1} ELSE has[u]
           /\ Sales' = IF kind = "sale" THEN Sales \cup {Len(txs) + 1} ELSE Sales
<1> USE DEF BooksInv
<1>1. /\ Len(txs) < MaxTx
      /\ \E s \in OpenShifts(t) :
           txs' = Append(txs, [till |-> t, kind |-> kind, of |-> i, at |-> at,
                               shift |-> s, goods |-> g])
      /\ has' = [has EXCEPT ![t] = @ \cup {Len(txs) + 1}]
  BY DEF Record
<1>2. PICK s \in OpenShifts(t) :
        txs' = Append(txs, [till |-> t, kind |-> kind, of |-> i, at |-> at,
                            shift |-> s, goods |-> g])
  BY <1>1
<1> DEFINE x == [till |-> t, kind |-> kind, of |-> i, at |-> at, shift |-> s, goods |-> g]
           N == Len(txs) + 1
<1>3. s \in 1..MaxShifts
  BY Typed DEF OpenShifts, TypeOK
<1>4. x \in Tx
  BY <1>3, Typed DEF Tx, Time
<1>5. txs \in Seq(Tx) /\ DOMAIN txs = 1..Len(txs) /\ Len(txs) \in Nat /\ MaxTx \in Nat
  BY Typed DEF TypeOK
<1>6. /\ txs' \in Seq(Tx) /\ Len(txs') = N
      /\ \A k \in 1..Len(txs) : txs'[k] = txs[k]
      /\ txs'[N] = x
  BY <1>2, <1>4, <1>5, AppendedTx
<1>7. (DOMAIN txs)' = DOMAIN txs \cup {N} /\ \A k \in DOMAIN txs : k # N
  BY <1>5, <1>6
<1>8. \A u \in Tills : has'[u] = IF u = t THEN has[t] \cup {N} ELSE has[u]
  BY <1>1 DEF TypeOK
<1>9. has' \in [Tills -> SUBSET (DOMAIN txs)']
  BY <1>1, <1>7 DEF TypeOK
<1>10. Sales' = IF kind = "sale" THEN Sales \cup {N} ELSE Sales
  BY <1>5, <1>6, <1>7 DEF Sales
<1> QED
  BY <1>1, <1>5, <1>6, <1>7, <1>8, <1>9, <1>10

\* A new row and the parts of the invariant that are not about what is back.
LEMMA RecordStep ==
  ASSUME BooksInv, NEW t \in Tills, NEW kind \in Kinds, NEW i \in 1..MaxTx,
         NEW at \in Time, NEW g \in Goods, Record(t, kind, i, at, g),
         t \notin untimely => at <= clock[t], t \notin untimely' => \A n \in ZsOf(t) : zs[n].end < at,
         untimely \subseteq untimely' /\ untimely' \subseteq untimely \cup {t},
         \A u \in Tills : u \notin untimely => due'[u] <= clock[u],
         IF kind = "sale" THEN i = Len(txs) + 1 /\ g \in Carts ELSE i \in has[t] \cap Sales,
         kind = "void" => Voidable(t, i)
  PROVE  /\ RowsInv' /\ ClockInv' /\ CutInv' /\ ShiftInv' /\ VoidInv'
         /\ ZCoversSince' /\ ZMatchesShifts'
<1> DEFINE N == Len(txs) + 1
<1>1. PICK s \in OpenShifts(t) :
        /\ txs' \in Seq(Tx) /\ Len(txs') = Len(txs) + 1 /\ Len(txs') <= MaxTx
        /\ (DOMAIN txs)' = DOMAIN txs \cup {Len(txs) + 1}
        /\ \A k \in DOMAIN txs : k # Len(txs) + 1 /\ txs'[k] = txs[k]
        /\ txs'[Len(txs) + 1] = [till |-> t, kind |-> kind, of |-> i, at |-> at,
                                 shift |-> s, goods |-> g]
        /\ has' \in [Tills -> SUBSET (DOMAIN txs)']
        /\ \A u \in Tills : has'[u] = IF u = t THEN has[t] \cup {Len(txs) + 1} ELSE has[u]
        /\ Sales' = IF kind = "sale" THEN Sales \cup {Len(txs) + 1} ELSE Sales
  BY RecordFacts
<1>2. /\ txs'[N].till = t /\ txs'[N].kind = kind /\ txs'[N].of = i
      /\ txs'[N].at = at /\ txs'[N].shift = s /\ txs'[N].goods = g
  BY <1>1
<1>3. UNCHANGED <<shifts, zs, asked, clock>>
  BY DEF Record
<1>4. \A u : OpenShifts(u)' = OpenShifts(u) /\ ZsOf(u)' = ZsOf(u)
  BY <1>3 DEF OpenShifts, ZsOf
<1>5. s \in DOMAIN shifts /\ shifts[s].till = t /\ shifts[s].closed = 0
  BY DEF OpenShifts
<1>6. Sales \subseteq DOMAIN txs /\ N \notin DOMAIN txs /\ DOMAIN txs = 1..Len(txs)
      /\ Len(txs) \in Nat
  BY <1>1, Typed DEF BooksInv, Sales
<1>7. TypeOK /\ RowsInv
  BY DEF BooksInv
<1>8. RowsInv'
  <2>1. \A k \in (DOMAIN txs)' :
          /\ k \in has'[txs'[k].till]
          /\ txs'[k].of \in Sales'
          /\ k \in Sales' <=> txs'[k].of = k
          /\ k \in Sales' => txs'[k].goods \in Carts
          /\ txs'[k].shift \in DOMAIN shifts
          /\ shifts[txs'[k].shift].till = txs'[k].till
    <3>1. CASE kind = "sale"
      <4>1. ASSUME NEW k \in DOMAIN txs
            PROVE  /\ k \in has'[txs'[k].till]
                   /\ txs'[k].of \in Sales'
                   /\ k \in Sales' <=> txs'[k].of = k
                   /\ k \in Sales' => txs'[k].goods \in Carts
                   /\ txs'[k].shift \in DOMAIN shifts
                   /\ shifts[txs'[k].shift].till = txs'[k].till
        <5>1. txs'[k] = txs[k] /\ k # N /\ txs[k].till \in Tills
          BY <1>1, <1>7, Typed
        <5>2. /\ k \in has[txs[k].till]
              /\ txs[k].of \in Sales
              /\ k \in Sales <=> txs[k].of = k
              /\ k \in Sales => txs[k].goods \in Carts
              /\ txs[k].shift \in DOMAIN shifts
              /\ shifts[txs[k].shift].till = txs[k].till
          BY <1>7 DEF RowsInv
        <5> QED
          BY <1>1, <3>1, <5>1, <5>2
      <4> QED
        BY <1>1, <1>2, <1>5, <3>1, <4>1
    <3>2. CASE kind # "sale"
      <4>1. ASSUME NEW k \in DOMAIN txs
            PROVE  /\ k \in has'[txs'[k].till]
                   /\ txs'[k].of \in Sales'
                   /\ k \in Sales' <=> txs'[k].of = k
                   /\ k \in Sales' => txs'[k].goods \in Carts
                   /\ txs'[k].shift \in DOMAIN shifts
                   /\ shifts[txs'[k].shift].till = txs'[k].till
        <5>1. txs'[k] = txs[k] /\ k # N /\ txs[k].till \in Tills
          BY <1>1, <1>7, Typed
        <5>2. /\ k \in has[txs[k].till]
              /\ txs[k].of \in Sales
              /\ k \in Sales <=> txs[k].of = k
              /\ k \in Sales => txs[k].goods \in Carts
              /\ txs[k].shift \in DOMAIN shifts
              /\ shifts[txs[k].shift].till = txs[k].till
          BY <1>7 DEF RowsInv
        <5> QED
          BY <1>1, <3>2, <5>1, <5>2
      <4>2. i \in Sales /\ i # N /\ N \notin Sales
        BY <1>6, <3>2
      <4> QED
        BY <1>1, <1>2, <1>5, <3>2, <4>1, <4>2
    <3> QED
      BY <3>1, <3>2
  <2>2. \A u \in Tills : \A j \in has'[u] : txs'[j].of \in has'[u]
    <3> SUFFICES ASSUME NEW u \in Tills, NEW j \in has'[u]
                 PROVE  txs'[j].of \in has'[u]
      OBVIOUS
    <3>1. CASE j \in has[u]
      <4>1. j \in DOMAIN txs /\ txs[j].of \in has[u]
        BY <1>7, <3>1, Typed DEF RowsInv
      <4> QED
        BY <1>1, <4>1
    <3>2. CASE j \notin has[u]
      <4>1. u = t /\ j = N
        BY <1>1, <3>2
      <4> QED
        BY <1>1, <1>2, <4>1
    <3> QED
      BY <3>1, <3>2
  <2>3. \A n \in DOMAIN zs : zs[n].upto <= Len(txs') /\ zs[n].shifts \subseteq DOMAIN shifts
    BY <1>1, <1>6, <1>7, Typed DEF RowsInv
  <2> QED
    BY <1>3, <1>4, <1>7, <2>1, <2>2, <2>3 DEF RowsInv
<1>9. ClockInv'
  <2> SUFFICES ASSUME NEW u \in Tills \ untimely
               PROVE  \A k \in (DOMAIN txs)' : txs'[k].till = u => txs'[k].at <= clock[u]
    BY <1>3, <1>4 DEF ClockInv, BooksInv
  <2> QED
    BY <1>1, <1>2 DEF BooksInv, ClockInv
<1>10. CutInv'
  <2> SUFFICES ASSUME NEW n \in DOMAIN zs
               PROVE  LET u == zs[n].till IN
                      /\ zs[n].rows \subseteq {k \in 1..zs[n].upto : txs'[k].till = u}
                      /\ u \notin untimely' =>
                         \A k \in (DOMAIN txs)' : txs'[k].till = u =>
                           /\ k <= zs[n].upto <=> txs'[k].at <= zs[n].end
                           /\ k <= zs[n].upto <=> /\ shifts[txs'[k].shift].closed # 0
                                                /\ shifts[txs'[k].shift].closed <= zs[n].end
    BY <1>3, <1>4 DEF CutInv, BooksInv
  <2> DEFINE u == zs[n].till
  <2>1. zs[n].upto <= Len(txs) /\ zs[n].upto \in Nat /\ u \in Tills /\ zs[n].end \in Nat
    BY <1>7, Typed DEF RowsInv
  <2>2. zs[n].rows \subseteq {k \in 1..zs[n].upto : txs'[k].till = u}
    <3>1. \A k \in 1..zs[n].upto : k \in DOMAIN txs
      BY <1>6, <2>1
    <3> QED
      BY <1>1, <3>1 DEF CutInv, BooksInv
  <2>3. ASSUME u \notin untimely', NEW k \in (DOMAIN txs)', txs'[k].till = u
        PROVE  /\ k <= zs[n].upto <=> txs'[k].at <= zs[n].end
               /\ k <= zs[n].upto <=> /\ shifts[txs'[k].shift].closed # 0
                                    /\ shifts[txs'[k].shift].closed <= zs[n].end
    <3>1. CASE k \in DOMAIN txs
      <4>1. txs'[k] = txs[k]
        BY <1>1, <3>1
      <4> QED
        BY <2>3, <3>1, <4>1 DEF CutInv, BooksInv
    <3>2. CASE k = N
      <4>1. u = t /\ n \in ZsOf(t)
        BY <1>2, <2>3, <3>2 DEF ZsOf
      <4>2. zs[n].end < at
        BY <2>3, <4>1
      <4>3. ~(k <= zs[n].upto) /\ at \in Nat
        BY <1>6, <2>1, <3>2 DEF Time
      <4> QED
        BY <1>2, <1>5, <2>1, <3>2, <4>2, <4>3
    <3> QED
      BY <1>1, <2>3, <3>1, <3>2
  <2> QED
    BY <2>2, <2>3
<1>11. ShiftInv'
  <2> SUFFICES ASSUME NEW u \in DOMAIN shifts
               PROVE  shifts[u].rows = IF shifts[u].closed = 0 THEN {}
                                       ELSE {k \in (DOMAIN txs)' : txs'[k].shift = u}
    BY <1>3 DEF ShiftInv
  <2>1. shifts[u].closed # 0 =>
          {k \in (DOMAIN txs)' : txs'[k].shift = u} = {k \in DOMAIN txs : txs[k].shift = u}
    BY <1>1, <1>2, <1>5
  <2> QED
    BY <2>1 DEF ShiftInv, BooksInv
<1>12. VoidInv'
  <2> SUFFICES ASSUME NEW j \in (DOMAIN txs)', txs'[j].kind = "void"
               PROVE  txs'[j].shift = txs'[txs'[j].of].shift
    BY DEF VoidInv
  <2>1. CASE j \in DOMAIN txs
    <3>1. txs'[j] = txs[j] /\ txs[j].of \in DOMAIN txs
      BY <1>1, <1>6, <1>7, <2>1 DEF RowsInv
    <3> QED
      BY <1>1, <2>1, <3>1 DEF VoidInv, BooksInv
  <2>2. CASE j = N
    <3>1. kind = "void" /\ Voidable(t, i) /\ i \in DOMAIN txs
      BY <1>2, <1>6, <2>2
    <3>2. txs[i].shift \in OpenShifts(t)
      BY <3>1 DEF Voidable
    <3>3. txs[i].shift = s
      BY <1>7, <3>2 DEF RowsInv
    <3> QED
      BY <1>1, <1>2, <2>2, <3>1, <3>3
  <2> QED
    BY <1>1, <2>1, <2>2
<1>13. ZCoversSince'
  <2> SUFFICES ASSUME NEW n \in DOMAIN zs, zs[n].till \notin untimely',
                      NEW k \in (DOMAIN txs)', txs'[k].till = zs[n].till
               PROVE  k \in zs[n].rows <=>
                        /\ k <= zs[n].upto
                        /\ \A m \in ZsOf(zs[n].till) : m < n => zs[m].upto < k
    BY <1>3, <1>4 DEF ZCoversSince
  <2>1. CASE k \in DOMAIN txs
    BY <1>1, <2>1 DEF ZCoversSince, BooksInv
  <2>2. CASE k = N
    <3>1. zs[n].upto <= Len(txs) /\ zs[n].upto \in Nat
      BY <1>7, Typed DEF RowsInv
    <3>2. zs[n].rows \subseteq 1..zs[n].upto
      BY DEF CutInv, BooksInv
    <3>3. ~(k <= zs[n].upto)
      BY <1>6, <2>2, <3>1
    <3> QED
      BY <3>1, <3>2, <3>3
  <2> QED
    BY <1>1, <2>1, <2>2
<1>14. ZMatchesShifts'
  BY <1>3 DEF ZMatchesShifts, BooksInv
<1> QED
  BY <1>8, <1>9, <1>10, <1>11, <1>12, <1>13, <1>14

\* Other reversals are not undone by a new row.
\* A row dated under the lock is later than every Z report of the till.
LEMMA DatedNow ==
  ASSUME BooksInv, NEW t \in Tills, UNCHANGED <<due, untimely>>
  PROVE  /\ clock[t] \in Time /\ clock[t] <= clock[t]
         /\ t \notin untimely' => \A n \in ZsOf(t) : zs[n].end < clock[t]
         /\ untimely \subseteq untimely' /\ untimely' \subseteq untimely \cup {t}
         /\ \A u \in Tills : u \notin untimely => due'[u] <= clock[u]
<1>1. clock[t] \in Time /\ clock[t] \in Nat
  BY Typed DEF BooksInv, TypeOK, Time
<1> QED
  BY <1>1 DEF BooksInv, ClockInv

LEMMA ReversedBefore ==
  ASSUME NEW u, NEW x,
         DOMAIN txs \subseteq (DOMAIN txs)',
         \A k \in DOMAIN txs : txs'[k] = txs[k],
         ReversedAt(u, x)'
  PROVE  ReversedAt(u, x)
  BY DEF ReversedAt

\* A sale, dated at.
LEMMA SaleStep ==
  ASSUME BooksInv, NEW t \in Tills, NEW c \in Carts, NEW at \in Time,
         Record(t, "sale", Len(txs) + 1, at, c), UNCHANGED back,
         t \notin untimely => at <= clock[t], t \notin untimely' => \A n \in ZsOf(t) : zs[n].end < at,
         untimely \subseteq untimely' /\ untimely' \subseteq untimely \cup {t},
         due' \in [Tills -> 0..MaxTime],
         \A u \in Tills : u \notin untimely => due'[u] <= clock[u]
  PROVE  BooksInv'
<1> DEFINE N == Len(txs) + 1
<1>1. /\ Record(t, "sale", N, at, c) /\ back' = back
      /\ UNCHANGED <<shifts, zs, asked, clock>>
  BY DEF Record
<1>2. TypeOK /\ RowsInv /\ MaxTx \in Nat /\ Len(txs) \in Nat /\ DOMAIN txs = 1..Len(txs)
  BY Typed DEF BooksInv
<1>3. c \in Goods /\ "sale" \in Kinds /\ N \in 1..MaxTx
  BY <1>1, <1>2, CartsAssumption DEF Record, Kinds
<1>4. PICK s \in OpenShifts(t) :
        /\ txs' \in Seq(Tx) /\ Len(txs') = Len(txs) + 1 /\ Len(txs') <= MaxTx
        /\ (DOMAIN txs)' = DOMAIN txs \cup {Len(txs) + 1}
        /\ \A k \in DOMAIN txs : k # Len(txs) + 1 /\ txs'[k] = txs[k]
        /\ txs'[Len(txs) + 1] = [till |-> t, kind |-> "sale", of |-> N, at |-> at,
                                 shift |-> s, goods |-> c]
        /\ has' \in [Tills -> SUBSET (DOMAIN txs)']
        /\ \A u \in Tills : has'[u] = IF u = t THEN has[t] \cup {Len(txs) + 1} ELSE has[u]
        /\ Sales' = IF "sale" = "sale" THEN Sales \cup {Len(txs) + 1} ELSE Sales
  BY <1>1, <1>3, RecordFacts
<1>5. /\ RowsInv' /\ ClockInv' /\ CutInv' /\ ShiftInv' /\ VoidInv'
      /\ ZCoversSince' /\ ZMatchesShifts'
  BY <1>1, <1>3, RecordStep
<1>6. TypeOK'
  BY <1>1, <1>2, <1>4 DEF TypeOK
<1>7. \A u \in Tills : \A j \in has[u] : j \in DOMAIN txs /\ txs'[j] = txs[j]
  BY <1>2, <1>4, Typed
<1>8. BackInv'
  <2> SUFFICES ASSUME NEW u \in Tills, NEW x \in 1..MaxTx,
                      \A j \in has'[u] \ {x} : txs'[j].of # x
               PROVE  back[u][x] = Nothing
    BY <1>1 DEF BackInv
  <2>1. \A j \in has[u] \ {x} : txs[j].of # x
    BY <1>4, <1>7
  <2> QED
    BY <2>1 DEF BackInv, BooksInv
<1>9. SharesInv'
  <2> SUFFICES ASSUME NEW u \in Tills, NEW x \in has'[u] \cap Sales', ReversedAt(u, x)'
               PROVE  Shared(back[u][x], txs'[x].goods)
    BY <1>1 DEF SharesInv, Sold
  <2>1. CASE x \in has[u]
    <3>1. x \in Sales /\ txs'[x] = txs[x]
      BY <1>4, <1>7, <2>1
    <3>2. ReversedAt(u, x)
      BY <1>4, ReversedBefore
    <3> QED
      BY <2>1, <3>1, <3>2 DEF SharesInv, BooksInv, Sold
  <2>2. CASE x \notin has[u]
    <3>1. u = t /\ x = N
      BY <1>4, <2>2
    <3>2. \A j \in has[t] \ {N} : txs[j].of # N
      BY <1>2, <1>4, <1>7 DEF RowsInv, Sales
    <3>3. back[t][N] = Nothing
      BY <1>3, <3>2 DEF BackInv, BooksInv
    <3> QED
      BY <1>4, <3>1, <3>3, SharedNothing
  <2> QED
    BY <2>1, <2>2
<1> QED
  BY <1>5, <1>6, <1>8, <1>9 DEF BooksInv

LEMMA SellStep ==
  ASSUME BooksInv, NEW t \in Tills, NEW c \in Carts, Sell(t, c)
  PROVE  BooksInv'
<1>1. /\ Record(t, "sale", Len(txs) + 1, clock[t], c)
      /\ UNCHANGED <<back, due, untimely>>
  BY DEF Sell
<1>2. due' \in [Tills -> 0..MaxTime]
  BY <1>1 DEF BooksInv, TypeOK
<1> QED
  BY <1>1, <1>2, DatedNow, SaleStep

\* What a payment that waits no longer leaves.
LEMMA NoLongerDue ==
  ASSUME BooksInv, NEW t \in Tills, due' = [due EXCEPT ![t] = 0]
  PROVE  /\ due' \in [Tills -> 0..MaxTime]
         /\ \A u \in Tills : u \notin untimely => due'[u] <= clock[u]
<1>1. due \in [Tills -> 0..MaxTime] /\ MaxTime \in Nat
      /\ \A u \in Tills : clock[u] \in Nat
  BY Typed DEF BooksInv, TypeOK
<1>2. \A u \in Tills : due'[u] = IF u = t THEN 0 ELSE due[u]
  BY <1>1
<1>3. due' \in [Tills -> 0..MaxTime]
  BY <1>1
<1> QED
  BY <1>1, <1>2, <1>3 DEF BooksInv, ClockInv

\* A payment is dated when it began to wait: the till counts as timely after it
\* only if no Z report was run meanwhile.
LEMMA PayOrderStep ==
  ASSUME BooksInv, NEW t \in Tills, NEW c \in Carts, PayOrder(t, c)
  PROVE  BooksInv'
<1>1. /\ Record(t, "sale", Len(txs) + 1, due[t], c) /\ UNCHANGED back
      /\ due[t] # 0 /\ due' = [due EXCEPT ![t] = 0]
      /\ untimely' = IF \E n \in ZsOf(t) : due[t] <= zs[n].end THEN untimely \cup {t} ELSE untimely
  BY DEF PayOrder
<1>2. due[t] \in Time /\ due[t] \in Nat /\ \A n \in DOMAIN zs : zs[n].end \in Nat
  BY <1>1, Typed DEF BooksInv, Time
<1>3. untimely \subseteq untimely' /\ untimely' \subseteq untimely \cup {t}
      /\ (t \notin untimely' => \A n \in ZsOf(t) : zs[n].end < due[t])
  BY <1>1, <1>2 DEF ZsOf
<1>4. t \notin untimely => due[t] <= clock[t]
  BY DEF BooksInv, ClockInv
<1> QED
  BY <1>1, <1>2, <1>3, <1>4, NoLongerDue, SaleStep

\* A reversal of quantities that are left, by a tender that is left.
LEMMA ReverseStep ==
  ASSUME BooksInv, NEW t \in Tills, NEW i \in has[t] \cap Sales,
         NEW kind \in {"refund", "void"},
         NEW q \in [Lines -> Nat], NEW paid \in [Methods -> Nat],
         Reverse(t, kind, i, Reversal(t, i, q, paid)),
         kind = "void" => Voidable(t, i),
         ReversedAt(t, i) =>
           /\ \A l \in Lines : back[t][i].qty[l] + q[l] <= Sold(i).qty[l]
           /\ back[t][i].paid["card"] + paid["card"] <= Sold(i).paid["card"]
  PROVE  BooksInv'
<1> DEFINE N == Len(txs) + 1
           g == Reversal(t, i, q, paid)
<1>1. /\ Record(t, kind, i, clock[t], g) /\ SumM(g.paid) = SumL(g.amount) /\ g.points >= 0
      /\ back' = [back EXCEPT ![t][i] = Plus(@, g)]
      /\ UNCHANGED <<shifts, zs, asked, clock, due, untimely>>
  BY DEF Reverse, Record
<1>2. TypeOK /\ RowsInv /\ MaxTx \in Nat /\ Len(txs) \in Nat /\ DOMAIN txs = 1..Len(txs)
  BY Typed DEF BooksInv
<1>3. /\ i \in DOMAIN txs /\ i \in 1..MaxTx
      /\ Sold(i) \in Carts /\ Sold(i) \in Goods /\ back[t][i] \in Goods
  <2>1. i \in DOMAIN txs /\ i \in 1..MaxTx
    BY <1>2 DEF Sales, TypeOK
  <2> QED
    BY <1>2, <2>1, CartsAssumption DEF RowsInv, Sold, TypeOK
<1>4. /\ g \in Goods /\ g.paid = paid
      /\ g.amount = Slices(t, i, q, Sold(i).amount)
  <2>1. Reversal(t, i, q, paid).points >= 0 => Reversal(t, i, q, paid) \in Goods
    BY <1>3, ReversalIsGoods
  <2> QED
    BY <1>1, <2>1 DEF Reversal
<1> HIDE DEF g
<1>5. kind \in Kinds /\ kind # "sale"
  BY DEF Kinds
<1>6. PICK s \in OpenShifts(t) :
        /\ txs' \in Seq(Tx) /\ Len(txs') = Len(txs) + 1 /\ Len(txs') <= MaxTx
        /\ (DOMAIN txs)' = DOMAIN txs \cup {Len(txs) + 1}
        /\ \A k \in DOMAIN txs : k # Len(txs) + 1 /\ txs'[k] = txs[k]
        /\ txs'[Len(txs) + 1] = [till |-> t, kind |-> kind, of |-> i, at |-> clock[t],
                                 shift |-> s, goods |-> g]
        /\ has' \in [Tills -> SUBSET (DOMAIN txs)']
        /\ \A u \in Tills : has'[u] = IF u = t THEN has[t] \cup {Len(txs) + 1} ELSE has[u]
        /\ Sales' = IF kind = "sale" THEN Sales \cup {Len(txs) + 1} ELSE Sales
  BY <1>1, <1>3, <1>4, <1>5, DatedNow, RecordFacts
<1>7. /\ RowsInv' /\ ClockInv' /\ CutInv' /\ ShiftInv' /\ VoidInv'
      /\ ZCoversSince' /\ ZMatchesShifts'
  BY <1>1, <1>3, <1>4, <1>5, DatedNow, RecordStep
<1>8. /\ back'[t][i] = Plus(back[t][i], g)
      /\ \A u \in Tills : \A x \in 1..MaxTx : u # t \/ x # i => back'[u][x] = back[u][x]
      /\ back' \in [Tills -> [1..MaxTx -> Goods]]
  <2>1. Plus(back[t][i], g) \in Goods
    BY <1>3, <1>4, PlusGoods
  <2> QED
    BY <1>1, <1>2, <1>3, <2>1 DEF TypeOK
<1>9. TypeOK'
  BY <1>1, <1>2, <1>6, <1>8 DEF TypeOK
<1>10. \A u \in Tills : \A j \in has[u] : j \in DOMAIN txs /\ txs'[j] = txs[j]
  BY <1>2, <1>6, Typed
<1>11. BackInv'
  <2> SUFFICES ASSUME NEW u \in Tills, NEW x \in 1..MaxTx,
                      \A j \in has'[u] \ {x} : txs'[j].of # x
               PROVE  back'[u][x] = Nothing
    BY DEF BackInv
  <2>1. u # t \/ x # i
    <3>1. N \in has'[t] /\ N # i /\ txs'[N].of = i
      BY <1>3, <1>6
    <3> QED
      BY <3>1
  <2>2. \A j \in has[u] \ {x} : txs[j].of # x
    BY <1>6, <1>10
  <2> QED
    BY <1>8, <2>1, <2>2 DEF BackInv, BooksInv
<1>12. SharesInv'
  <2> SUFFICES ASSUME NEW u \in Tills, NEW x \in has'[u] \cap Sales', ReversedAt(u, x)'
               PROVE  Shared(back'[u][x], txs'[x].goods)
    BY DEF SharesInv, Sold
  <2>1. ReversedAt(u, x)
    BY <1>6, ReversedBefore
  <2>2. x \in Sales /\ x \in DOMAIN txs /\ x \in 1..MaxTx
    BY <1>2, <1>5, <1>6 DEF Sales, TypeOK
  <2>3. x \in has[u] /\ txs'[x] = txs[x]
    BY <1>6, <2>2
  <2>4. Shared(back[u][x], Sold(x))
    BY <2>1, <2>2, <2>3 DEF SharesInv, BooksInv
  <2>5. CASE u = t /\ x = i
    <3>1. Shared(Plus(back[t][i], g), Sold(i))
      BY <1>1, <1>3, <1>4, <2>1, <2>4, <2>5, SharedStep DEF g
    <3> QED
      BY <1>8, <2>3, <2>5, <3>1 DEF Sold
  <2>6. CASE u # t \/ x # i
    BY <1>8, <2>2, <2>3, <2>4, <2>6 DEF Sold
  <2> QED
    BY <2>5, <2>6
<1> QED
  BY <1>7, <1>9, <1>11, <1>12 DEF BooksInv

LEMMA RefundStep ==
  ASSUME BooksInv, NEW t \in Tills, NEW i \in has[t] \cap Sales,
         NEW q \in Picks(t, i), NEW m \in Methods, Refund(t, i, q, m)
  PROVE  BooksInv'
<1> DEFINE amount == SumL(Slices(t, i, q, Sold(i).amount))
           paid == [n \in Methods |-> IF n = m THEN amount ELSE 0]
<1>1. /\ Covered(t, i, m, amount) /\ Reverse(t, "refund", i, Reversal(t, i, q, paid))
      /\ \A l \in Lines : q[l] <= Refundable(t, i, l)
  BY DEF Refund
<1>2. TypeOK /\ RowsInv
  BY DEF BooksInv
<1>3. Sold(i) \in Goods /\ back[t][i] \in Goods
  <2>1. i \in DOMAIN txs /\ i \in 1..MaxTx
    BY <1>2, Typed DEF Sales, TypeOK
  <2> QED
    BY <1>2, <2>1, Typed DEF Sold, TypeOK
<1>4. \A l \in Lines : /\ Refundable(t, i, l) \in Nat
                       /\ Sold(i).qty[l] \in Nat /\ back[t][i].qty[l] \in Nat
  BY <1>3, GoodsParts DEF Refundable
<1>5. q \in [Lines -> Nat]
  <2>1. PICK a \in 0..Refundable(t, i, 1), b \in 0..Refundable(t, i, 2) : q = <<a, b>>
    BY DEF Picks
  <2>2. a \in Nat /\ b \in Nat
    BY <1>4, <2>1 DEF Lines
  <2> QED
    BY <2>1, <2>2 DEF Lines
<1>6. amount \in Nat
  <2>1. Slices(t, i, q, Sold(i).amount) \in [Lines -> Nat]
    BY <1>3, <1>5, ReversalIsGoods, NothingIsGoods DEF Goods
  <2> QED
    BY <2>1 DEF SumL, Lines
<1>7. paid \in [Methods -> Nat]
  BY <1>6
<1>8. \A l \in Lines : ReversedAt(t, i) => back[t][i].qty[l] + q[l] <= Sold(i).qty[l]
  <2> SUFFICES ASSUME NEW l \in Lines, ReversedAt(t, i)
               PROVE  back[t][i].qty[l] + q[l] <= Sold(i).qty[l]
    OBVIOUS
  <2>1. back[t][i].qty[l] <= Sold(i).qty[l]
    BY DEF BooksInv, SharesInv, Shared
  <2> QED
    BY <1>1, <1>4, <1>5, <2>1 DEF Refundable
<1>9. ReversedAt(t, i) => back[t][i].paid["card"] + paid["card"] <= Sold(i).paid["card"]
  <2> HAVE ReversedAt(t, i)
  <2>1. back[t][i].paid["card"] <= Sold(i).paid["card"]
    BY DEF BooksInv, SharesInv, Shared
  <2>2. back[t][i].paid["card"] \in Nat /\ Sold(i).paid["card"] \in Nat
    BY <1>3, GoodsParts
  <2>3. CASE m = "card"
    BY <1>1, <1>6, <2>2, <2>3 DEF Covered, HeldBy, Methods
  <2>4. CASE m # "card"
    BY <2>1, <2>2, <2>4 DEF Methods
  <2> QED
    BY <2>3, <2>4
<1> QED
  BY <1>1, <1>5, <1>7, <1>8, <1>9, ReverseStep

LEMMA VoidStep ==
  ASSUME BooksInv, NEW t \in Tills, NEW i \in has[t] \cap Sales, Void(t, i)
  PROVE  BooksInv'
<1> DEFINE q == Sold(i).qty
           paid == [m \in Methods |-> HeldBy(t, i, m)]
<1>1. Voidable(t, i) /\ Reverse(t, "void", i, Reversal(t, i, q, paid))
  BY DEF Void
<1>2. TypeOK
  BY DEF BooksInv
<1>3. i \in 1..MaxTx /\ Sold(i) \in Goods
  BY <1>2, Typed DEF Sales, Sold, TypeOK
<1>4. back[t][i] = Nothing
  BY <1>1, <1>3 DEF BooksInv, BackInv, Voidable
<1>5. /\ q \in [Lines -> Nat] /\ Sold(i).paid \in [Methods -> Nat]
      /\ Sold(i).paid["card"] \in Nat
  BY <1>3, GoodsParts
<1>6. \A m \in Methods : HeldBy(t, i, m) = Sold(i).paid[m]
  BY <1>4, <1>5, NothingIsGoods DEF HeldBy, Methods
<1>7. paid \in [Methods -> Nat] /\ paid["card"] = Sold(i).paid["card"]
  BY <1>5, <1>6 DEF Methods
<1>8. \A l \in Lines : back[t][i].qty[l] + q[l] <= Sold(i).qty[l]
  BY <1>4, <1>5, NothingIsGoods
<1>9. back[t][i].paid["card"] + paid["card"] <= Sold(i).paid["card"]
  BY <1>4, <1>5, <1>7, NothingIsGoods
<1> QED
  BY <1>1, <1>5, <1>7, <1>8, <1>9, ReverseStep

LEMMA ZsStay ==
  ASSUME ZCoversSince, UNCHANGED <<txs, zs>>, untimely \subseteq untimely'
  PROVE  ZCoversSince'
<1>1. \A u : ZsOf(u)' = ZsOf(u)
  BY DEF ZsOf
<1> SUFFICES ASSUME NEW n \in DOMAIN zs, zs[n].till \notin untimely,
                      NEW i \in DOMAIN txs, txs[i].till = zs[n].till
               PROVE  i \in zs[n].rows <=>
                        /\ i <= zs[n].upto
                        /\ \A m \in ZsOf(zs[n].till) : m < n => zs[m].upto < i
  BY <1>1 DEF ZCoversSince
<1> QED
  BY DEF ZCoversSince

LEMMA ShiftsStay ==
  ASSUME BooksInv, UNCHANGED <<txs, shifts, zs>>, untimely \subseteq untimely'
  PROVE  ShiftInv' /\ ZMatchesShifts'
<1>1. ShiftInv'
  BY DEF ShiftInv, BooksInv
<1>2. ZMatchesShifts'
  BY DEF ZMatchesShifts, BooksInv
<1> QED
  BY <1>1, <1>2

LEMMA ReceiveStep ==
  ASSUME BooksInv, NEW t \in Tills, NEW i \in DOMAIN txs, Receive(t, i)
  PROVE  BooksInv'
<1>1. /\ i \notin has[t] /\ txs[i].of \in has[t] \cup {i}
      /\ has' = [has EXCEPT ![t] = @ \cup {i}]
      /\ back' = IF i \in Sales THEN back
                 ELSE [back EXCEPT ![t][txs[i].of] = Plus(@, txs[i].goods)]
      /\ UNCHANGED <<txs, shifts, zs, asked, clock, due, untimely>>
  BY DEF Receive
<1>2. TypeOK /\ RowsInv /\ DOMAIN txs = 1..Len(txs) /\ txs[i].goods \in Goods
      /\ txs[i].of \in 1..MaxTx /\ txs[i].of \in Sales
      /\ (i \in Sales <=> txs[i].of = i)
  BY Typed DEF BooksInv, RowsInv
<1>3. /\ \A u \in Tills : has'[u] = IF u = t THEN has[t] \cup {i} ELSE has[u]
      /\ has' \in [Tills -> SUBSET DOMAIN txs]
  BY <1>1, <1>2 DEF TypeOK
<1>4. \A u : /\ OpenShifts(u)' = OpenShifts(u) /\ ZsOf(u)' = ZsOf(u)
            /\ \A x : ReversedAt(u, x)' = ReversedAt(u, x) /\ Sold(x)' = Sold(x)
  BY <1>1 DEF OpenShifts, ZsOf, ReversedAt, Sold
<1>5. Sales' = Sales /\ Sales \subseteq DOMAIN txs
  BY <1>1 DEF Sales
<1>6. \A u \in Tills : \A x \in 1..MaxTx :
        i \in Sales \/ u # t \/ x # txs[i].of => back'[u][x] = back[u][x]
  BY <1>1, <1>2 DEF TypeOK
<1>7. back' \in [Tills -> [1..MaxTx -> Goods]]
  <2>1. CASE i \in Sales
    BY <1>1, <1>2, <2>1 DEF TypeOK
  <2>2. CASE i \notin Sales
    <3>1. back[t][txs[i].of] \in Goods
      BY <1>2, ZenonT(60) DEF TypeOK
    <3>2. Plus(back[t][txs[i].of], txs[i].goods) \in Goods
      BY <1>2, <3>1, PlusGoods
    <3> QED
      BY <1>1, <1>2, <2>2, <3>2 DEF TypeOK
  <2> QED
    BY <2>1, <2>2
<1>8. TypeOK'
  BY <1>1, <1>2, <1>3, <1>7 DEF TypeOK
<1>9. RowsInv'
  <2>1. \A k \in DOMAIN txs : k \in has'[txs[k].till]
    BY <1>2, <1>3, Typed DEF RowsInv
  <2>2. \A u \in Tills : \A j \in has'[u] : txs[j].of \in has'[u]
    BY <1>1, <1>2, <1>3 DEF RowsInv
  <2> QED
    BY <1>1, <1>2, <1>4, <1>5, <2>1, <2>2 DEF RowsInv
\* A till holds its own transactions, so what it receives is another till's.
<1>10. txs[i].till # t
  BY <1>1, <1>2 DEF RowsInv
<1>11. BackInv'
  <2> SUFFICES ASSUME NEW u \in Tills, NEW x \in 1..MaxTx,
                      \A j \in has'[u] \ {x} : txs[j].of # x
               PROVE  back'[u][x] = Nothing
    BY <1>1 DEF BackInv
  <2>1. \A j \in has[u] \ {x} : txs[j].of # x
    BY <1>3
  <2>2. i \in Sales \/ u # t \/ x # txs[i].of
    BY <1>2, <1>3
  <2> QED
    BY <1>6, <2>1, <2>2 DEF BackInv, BooksInv
<1>12. SharesInv'
  <2> SUFFICES ASSUME NEW u \in Tills, NEW x \in has'[u] \cap Sales, ReversedAt(u, x)
               PROVE  Shared(back'[u][x], Sold(x))
    BY <1>4, <1>5 DEF SharesInv
  <2>1. x \in 1..MaxTx /\ x \in DOMAIN txs
    BY <1>2, <1>5, Typed DEF TypeOK
  <2>2. CASE x \in has[u]
    <3>1. i \in Sales \/ u # t \/ x # txs[i].of
      BY <1>2, <1>10 DEF ReversedAt
    <3>2. Shared(back[u][x], Sold(x))
      BY <2>2 DEF SharesInv, BooksInv
    <3> QED
      BY <1>6, <2>1, <3>1, <3>2
  <2>3. CASE x \notin has[u]
    <3>1. u = t /\ x = i
      BY <1>3, <2>3
    <3>2. \A j \in has[t] \ {i} : txs[j].of # i
      BY <1>1, <1>2 DEF RowsInv
    <3>3. back[t][i] = Nothing
      BY <2>1, <3>1, <3>2 DEF BackInv, BooksInv
    <3>4. Sold(i) \in Carts
      BY <1>2, <3>1 DEF RowsInv, Sold
    <3> QED
      BY <1>6, <2>1, <3>1, <3>3, <3>4, SharedNothing
  <2> QED
    BY <2>2, <2>3
<1>13. ClockInv' /\ CutInv'
  BY <1>1, <1>4 DEF BooksInv, ClockInv, CutInv
<1>14. VoidInv'
  BY <1>1 DEF BooksInv, VoidInv
<1>15. ShiftInv' /\ ZMatchesShifts' /\ ZCoversSince'
  BY <1>1, ShiftsStay, ZsStay DEF BooksInv
<1> QED
  BY <1>8, <1>9, <1>11, <1>12, <1>13, <1>14, <1>15 DEF BooksInv

\* Steps of shifts, reports and clocks leave the transactions as they are.
LEMMA RowsStay ==
  ASSUME BooksInv, UNCHANGED <<txs, has, back>>
  PROVE  BackInv' /\ SharesInv' /\ VoidInv' /\ Sales' = Sales
<1>1. Sales' = Sales
  BY DEF Sales
<1>2. \A u, x : ReversedAt(u, x)' = ReversedAt(u, x) /\ Sold(x)' = Sold(x)
  BY DEF ReversedAt, Sold
<1> QED
  BY <1>1, <1>2 DEF BooksInv, BackInv, SharesInv, VoidInv

LEMMA AskShiftStep ==
  ASSUME BooksInv, NEW t \in Tills, NEW what \in {"open", "close"}, AskShift(t, what)
  PROVE  BooksInv'
<1>1. /\ asked' = [asked EXCEPT ![t] = [what |-> what, at |-> clock[t]]]
      /\ UNCHANGED <<txs, has, back, shifts, zs, clock, due, untimely>>
  BY DEF AskShift
<1>2. TypeOK /\ RowsInv
  BY DEF BooksInv
<1>3. /\ asked'[t] = [what |-> what, at |-> clock[t]]
      /\ \A u \in Tills : u # t => asked'[u] = asked[u]
  BY <1>1, <1>2 DEF TypeOK
<1>4. \A u : OpenShifts(u)' = OpenShifts(u) /\ ZsOf(u)' = ZsOf(u)
  BY <1>1 DEF OpenShifts, ZsOf
<1>5. BackInv' /\ SharesInv' /\ VoidInv' /\ Sales' = Sales
  BY <1>1, RowsStay
<1>6. TypeOK'
  BY <1>1, <1>2 DEF TypeOK
<1>7. RowsInv'
  BY <1>1, <1>2, <1>4, <1>5 DEF RowsInv
<1>8. ClockInv'
  <2> SUFFICES ASSUME NEW u \in Tills \ untimely
               PROVE  /\ asked'[u].at <= clock[u]
                      /\ \A s \in OpenShifts(u) :
                           asked'[u].what = "close" => shifts[s].opened <= asked'[u].at
    BY <1>1, <1>4 DEF ClockInv, BooksInv, OpenShifts
  <2>1. CASE u = t
    <3>1. asked'[u].at = clock[u] /\ clock[u] \in Nat
      BY <1>2, <1>3, <2>1, Typed
    <3>2. \A s \in OpenShifts(u) : shifts[s].opened <= clock[u]
      BY DEF ClockInv, BooksInv, OpenShifts
    <3> QED
      BY <3>1, <3>2
  <2>2. CASE u # t
    BY <1>3, <2>2 DEF ClockInv, BooksInv, OpenShifts
  <2> QED
    BY <2>1, <2>2
<1>9. CutInv'
  <2> SUFFICES ASSUME NEW n \in DOMAIN zs, zs[n].till \notin untimely,
                      OpenShifts(zs[n].till) # {}, asked'[zs[n].till].what = "close"
               PROVE  zs[n].end < asked'[zs[n].till].at
    BY <1>1, <1>4 DEF CutInv, BooksInv
  <2>1. zs[n].till \in Tills /\ n \in ZsOf(zs[n].till)
    BY <1>2, Typed DEF ZsOf
  <2>2. CASE zs[n].till = t
    BY <1>3, <2>1, <2>2 DEF ClockInv, BooksInv
  <2>3. CASE zs[n].till # t
    BY <1>3, <2>1, <2>3 DEF CutInv, BooksInv
  <2> QED
    BY <2>2, <2>3
<1>10. ShiftInv' /\ ZMatchesShifts' /\ ZCoversSince'
  BY <1>1, ShiftsStay, ZsStay DEF BooksInv
<1> QED
  BY <1>5, <1>6, <1>7, <1>8, <1>9, <1>10 DEF BooksInv

\* A payment begins to wait, or is refused when its turn comes.
LEMMA WaitingStep ==
  ASSUME BooksInv, NEW t \in Tills, AskPay(t) \/ PayRefused(t)
  PROVE  BooksInv'
<1>1. UNCHANGED <<txs, has, back, shifts, zs, asked, clock, untimely>>
  BY DEF AskPay, PayRefused
<1>2. TypeOK /\ RowsInv
  BY DEF BooksInv
<1>3. BackInv' /\ SharesInv' /\ VoidInv' /\ Sales' = Sales
  BY <1>1, RowsStay
<1>4. \A u : OpenShifts(u)' = OpenShifts(u) /\ ZsOf(u)' = ZsOf(u)
  BY <1>1 DEF OpenShifts, ZsOf
<1>5. /\ due' \in [Tills -> 0..MaxTime]
      /\ \A u \in Tills : u \notin untimely => due'[u] <= clock[u]
  <2>1. CASE AskPay(t)
    <3>1. due' = [due EXCEPT ![t] = clock[t]] /\ due \in [Tills -> 0..MaxTime]
      BY <1>2, <2>1 DEF AskPay, TypeOK
    <3>2. clock[t] \in 0..MaxTime /\ clock[t] <= clock[t]
      BY <1>2, Typed
    <3> QED
      BY <3>1, <3>2 DEF BooksInv, ClockInv
  <2>2. CASE PayRefused(t)
    BY <2>2, NoLongerDue DEF PayRefused
  <2> QED
    BY <2>1, <2>2
<1>6. TypeOK'
  BY <1>1, <1>2, <1>5 DEF TypeOK
<1>7. RowsInv'
  BY <1>1, <1>2, <1>3, <1>4 DEF RowsInv
<1>8. ClockInv'
  BY <1>1, <1>4, <1>5 DEF ClockInv, BooksInv
<1>9. CutInv'
  BY <1>1, <1>4 DEF CutInv, BooksInv
<1>10. ShiftInv' /\ ZMatchesShifts' /\ ZCoversSince'
  BY <1>1, ShiftsStay, ZsStay DEF BooksInv
<1> QED
  BY <1>3, <1>6, <1>7, <1>8, <1>9, <1>10 DEF BooksInv

\* A shift that is opened has no rows and no report; a request that finds one
\* open is only answered.
LEMMA OpenShiftStep ==
  ASSUME BooksInv, NEW t \in Tills, OpenShift(t)
  PROVE  BooksInv'
<1>1. /\ asked[t].what = "open"
      /\ asked' = [asked EXCEPT ![t] = NotAsked]
      /\ UNCHANGED <<txs, has, back, zs, clock, due, untimely>>
  BY DEF OpenShift, Answered
<1>2. TypeOK /\ RowsInv /\ DOMAIN shifts = 1..Len(shifts) /\ Len(shifts) \in Nat
  BY Typed DEF BooksInv
<1>3. BackInv' /\ SharesInv' /\ VoidInv' /\ Sales' = Sales
  BY <1>1, RowsStay
<1>4. /\ asked'[t].what = "none" /\ asked'[t].at = 1
      /\ \A u \in Tills : u # t => asked'[u] = asked[u]
      /\ asked' \in [Tills -> [what : {"none", "open", "close"}, at : Time]]
  BY <1>1, <1>2, BoundsAssumption DEF TypeOK, NotAsked, Time
<1>5. \A u : ZsOf(u)' = ZsOf(u)
  BY <1>1 DEF ZsOf
<1>6. ZCoversSince'
  BY <1>1, ZsStay DEF BooksInv
<1>7. \A u \in Tills : asked'[u].what = "close" => u # t /\ asked'[u] = asked[u]
  BY <1>4
<1>8. CASE shifts' = shifts
  <2>1. \A u : OpenShifts(u)' = OpenShifts(u)
    BY <1>8 DEF OpenShifts
  <2>2. TypeOK'
    BY <1>1, <1>2, <1>4, <1>8 DEF TypeOK
  <2>3. RowsInv'
    BY <1>1, <1>2, <1>3, <1>8, <2>1 DEF RowsInv
  <2>4. ClockInv'
    <3> SUFFICES ASSUME NEW u \in Tills \ untimely
                 PROVE  /\ asked'[u].at <= clock[u]
                        /\ \A s \in OpenShifts(u) :
                             asked'[u].what = "close" => shifts[s].opened <= asked'[u].at
      BY <1>1, <1>5, <1>8, <2>1 DEF ClockInv, BooksInv, OpenShifts
    <3>1. clock[u] \in Nat /\ clock[u] >= 1
      BY <1>2, Typed
    <3>2. CASE u = t
      BY <1>4, <3>1, <3>2
    <3>3. CASE u # t
      BY <1>4, <3>3 DEF ClockInv, BooksInv, OpenShifts
    <3> QED
      BY <3>2, <3>3
  <2>5. CutInv'
    <3> SUFFICES ASSUME NEW n \in DOMAIN zs, zs[n].till \notin untimely,
                        OpenShifts(zs[n].till) # {}, asked'[zs[n].till].what = "close"
                 PROVE  zs[n].end < asked'[zs[n].till].at
      BY <1>1, <1>5, <1>8, <2>1 DEF CutInv, BooksInv
    <3>1. zs[n].till \in Tills
      BY <1>2, Typed
    <3> QED
      BY <1>7, <3>1 DEF CutInv, BooksInv
  <2>6. ShiftInv' /\ ZMatchesShifts'
    BY <1>1, <1>8, ShiftsStay
  <2> QED
    BY <1>3, <1>6, <2>2, <2>3, <2>4, <2>5, <2>6 DEF BooksInv
<1>9. CASE shifts' # shifts
  <2> DEFINE N == Len(shifts) + 1
             x == [till |-> t, opened |-> asked[t].at, closed |-> 0, rows |-> {}]
  <2>1. OpenShifts(t) = {} /\ Len(shifts) < MaxShifts /\ shifts' = Append(shifts, x)
    BY <1>9 DEF OpenShift
  <2>2. x \in Shift /\ MaxShifts \in Nat
    BY <1>2, Typed DEF Shift, Time
  <2>3. /\ shifts' \in Seq(Shift) /\ Len(shifts') = N
        /\ \A s \in 1..Len(shifts) : shifts'[s] = shifts[s]
        /\ shifts'[N] = x
    BY <1>2, <2>1, <2>2, AppendedShift DEF TypeOK
  <2>4. (DOMAIN shifts)' = DOMAIN shifts \cup {N} /\ N \notin DOMAIN shifts
    BY <1>2, <2>3
  <2>5. /\ OpenShifts(t)' = {N}
        /\ \A u : u # t => OpenShifts(u)' = OpenShifts(u)
    <3>1. \A u, s : s \in OpenShifts(u)' <=> (s \in OpenShifts(u) \/ (s = N /\ u = t))
      BY <1>2, <2>3, <2>4 DEF OpenShifts
    <3>2. \A s : s \in OpenShifts(t)' <=> s = N
      BY <2>1, <3>1
    <3>3. ASSUME NEW u, u # t
          PROVE  OpenShifts(u)' = OpenShifts(u)
      <4>1. \A s : s \in OpenShifts(u)' <=> s \in OpenShifts(u)
        BY <3>1, <3>3
      <4> QED
        BY <4>1
    <3> QED
      BY <3>2, <3>3
  <2> HIDE DEF x, N
  <2>6. /\ x.till = t /\ x.opened = asked[t].at /\ x.closed = 0 /\ x.rows = {}
    BY DEF x
  <2>7. TypeOK'
    <3>1. Len(shifts') <= MaxShifts
      BY <1>2, <2>1, <2>2, <2>3 DEF N
    <3> QED
      BY <1>1, <1>2, <1>4, <2>3, <3>1 DEF TypeOK
  <2>8. \A i \in DOMAIN txs : /\ txs[i].shift \in DOMAIN shifts
                              /\ shifts'[txs[i].shift] = shifts[txs[i].shift]
    BY <1>2, <2>3 DEF RowsInv
  <2>9. RowsInv'
    <3>1. \A u \in Tills : \A s, v \in OpenShifts(u)' : s = v
      BY <1>2, <2>5 DEF RowsInv
    <3>2. \A n \in DOMAIN zs : zs[n].upto <= Len(txs) /\ zs[n].shifts \subseteq (DOMAIN shifts)'
      BY <1>2, <2>4 DEF RowsInv
    <3> QED
      BY <1>1, <1>2, <1>3, <2>4, <2>8, <3>1, <3>2 DEF RowsInv
  <2>10. ClockInv'
    <3> SUFFICES ASSUME NEW u \in Tills \ untimely
                 PROVE  /\ asked'[u].at <= clock[u]
                        /\ \A s \in (DOMAIN shifts)' : shifts'[s].till = u =>
                             /\ shifts'[s].opened <= clock[u]
                             /\ shifts'[s].closed <= clock[u]
                             /\ shifts'[s].closed # 0 => shifts'[s].opened <= shifts'[s].closed
                             /\ s \in OpenShifts(u)' /\ asked'[u].what = "close" =>
                                  shifts'[s].opened <= asked'[u].at
      BY <1>1, <1>5 DEF ClockInv, BooksInv
    <3>1. clock[u] \in Nat /\ clock[u] >= 1 /\ asked[u].at <= clock[u]
      BY <1>2, Typed DEF ClockInv, BooksInv
    <3>2. asked'[u].at <= clock[u]
      BY <1>4, <3>1
    <3>3. ASSUME NEW s \in (DOMAIN shifts)', shifts'[s].till = u
          PROVE  /\ shifts'[s].opened <= clock[u]
                 /\ shifts'[s].closed <= clock[u]
                 /\ shifts'[s].closed # 0 => shifts'[s].opened <= shifts'[s].closed
                 /\ s \in OpenShifts(u)' /\ asked'[u].what = "close" =>
                      shifts'[s].opened <= asked'[u].at
      <4>1. CASE s \in DOMAIN shifts
        <5>1. shifts'[s] = shifts[s]
          BY <1>2, <2>3, <4>1
        <5>2. s \in OpenShifts(u)' /\ asked'[u].what = "close" =>
                s \in OpenShifts(u) /\ asked'[u] = asked[u]
          BY <1>7, <2>5
        <5> QED
          BY <3>3, <4>1, <5>1, <5>2 DEF ClockInv, BooksInv
      <4>2. CASE s = N
        <5>1. u = t /\ asked'[u].what = "none"
          BY <1>4, <2>3, <2>6, <3>3, <4>2
        <5> QED
          BY <2>3, <2>6, <3>1, <4>2, <5>1
      <4> QED
        BY <2>4, <3>3, <4>1, <4>2
    <3> QED
      BY <3>2, <3>3
  <2>11. \A n \in DOMAIN zs : \A s \in zs[n].shifts : s \in DOMAIN shifts /\ shifts'[s] = shifts[s]
    BY <1>2, <2>3 DEF RowsInv
  <2>12. CutInv'
    <3>1. \A n \in DOMAIN zs : OpenShifts(zs[n].till)' # {} /\ asked'[zs[n].till].what = "close" =>
            /\ OpenShifts(zs[n].till) # {}
            /\ asked'[zs[n].till] = asked[zs[n].till]
      <4> SUFFICES ASSUME NEW n \in DOMAIN zs, OpenShifts(zs[n].till)' # {},
                          asked'[zs[n].till].what = "close"
                   PROVE  /\ OpenShifts(zs[n].till) # {}
                          /\ asked'[zs[n].till] = asked[zs[n].till]
        OBVIOUS
      <4>1. zs[n].till \in Tills
        BY <1>2, Typed
      <4>2. zs[n].till # t /\ asked'[zs[n].till] = asked[zs[n].till]
        BY <1>7, <4>1
      <4> QED
        BY <1>1, <2>5, <4>2
    <3> QED
      BY <1>1, <1>5, <2>8, <2>11, <3>1 DEF CutInv, BooksInv
  <2>13. ShiftInv'
    <3> SUFFICES ASSUME NEW s \in (DOMAIN shifts)'
                 PROVE  shifts'[s].rows = IF shifts'[s].closed = 0 THEN {}
                                          ELSE {i \in DOMAIN txs : txs[i].shift = s}
      BY <1>1 DEF ShiftInv
    <3>1. CASE s \in DOMAIN shifts
      BY <1>2, <2>3, <3>1 DEF ShiftInv, BooksInv
    <3>2. CASE s = N
      BY <2>3, <2>6, <3>2
    <3> QED
      BY <2>4, <3>1, <3>2
  <2>14. ZMatchesShifts'
    <3> SUFFICES ASSUME NEW n \in DOMAIN zs, zs[n].till \notin untimely
                 PROVE  zs[n].rows = UNION {shifts'[s].rows : s \in zs[n].shifts}
      BY <1>1 DEF ZMatchesShifts
    <3>1. {shifts'[s].rows : s \in zs[n].shifts} = {shifts[s].rows : s \in zs[n].shifts}
      BY <2>11
    <3> QED
      BY <3>1 DEF ZMatchesShifts, BooksInv
  <2> QED
    BY <1>3, <1>6, <2>7, <2>9, <2>10, <2>12, <2>13, <2>14 DEF BooksInv
<1> QED
  BY <1>8, <1>9

LEMMA FunctionIsSeq ==
  ASSUME NEW n \in Nat, NEW f \in [1..n -> Shift]
  PROVE  f \in Seq(Shift) /\ Len(f) = n
  OBVIOUS

\* The shift that closes does so after every report of its till.
LEMMA CloseShiftStep ==
  ASSUME BooksInv, NEW t \in Tills, CloseShift(t)
  PROVE  BooksInv'
<1>1. /\ asked[t].what = "close"
      /\ asked' = [asked EXCEPT ![t] = NotAsked]
      /\ UNCHANGED <<txs, has, back, zs, clock, due, untimely>>
  BY DEF CloseShift, Answered
<1>c. shifts' = [s \in DOMAIN shifts |->
                  IF s \in OpenShifts(t)
                  THEN [shifts[s] EXCEPT !.closed = asked[t].at,
                                         !.rows = {i \in has[t] : txs[i].shift = s}]
                  ELSE shifts[s]]
  BY DEF CloseShift
<1>2. TypeOK /\ RowsInv /\ DOMAIN shifts = 1..Len(shifts) /\ Len(shifts) \in Nat
  BY Typed DEF BooksInv
<1>3. BackInv' /\ SharesInv' /\ VoidInv' /\ Sales' = Sales
  BY <1>1, RowsStay
<1>4. /\ asked'[t].what = "none" /\ asked'[t].at = 1
      /\ \A u \in Tills : u # t => asked'[u] = asked[u]
      /\ asked' \in [Tills -> [what : {"none", "open", "close"}, at : Time]]
  BY <1>1, <1>2, BoundsAssumption DEF TypeOK, NotAsked, Time
<1>5. \A u : ZsOf(u)' = ZsOf(u)
  BY <1>1 DEF ZsOf
<1>6. ZCoversSince'
  BY <1>1, ZsStay DEF BooksInv
<1>7. \A u \in Tills : asked'[u].what = "close" => u # t /\ asked'[u] = asked[u]
  BY <1>4
<1>8. asked[t].at \in 1..MaxTime /\ MaxTime \in Nat /\ has[t] \subseteq 1..MaxTx
  BY <1>2, Typed DEF TypeOK
\* The shift that was open, if any.
<1>9. ASSUME NEW s \in OpenShifts(t)
      PROVE  /\ s \in DOMAIN shifts /\ shifts[s].closed = 0
             /\ shifts'[s].till = t /\ shifts[s].till = t
             /\ shifts'[s].opened = shifts[s].opened
             /\ shifts'[s].closed = asked[t].at /\ shifts'[s].closed # 0
             /\ shifts'[s].rows = {i \in DOMAIN txs : txs[i].shift = s}
             /\ shifts'[s] \in Shift
  <2>1. s \in DOMAIN shifts /\ shifts[s].closed = 0 /\ shifts[s].till = t
    BY DEF OpenShifts
  <2>2. shifts[s] \in Shift
    BY <1>2, <2>1, Typed
  <2>3. {i \in has[t] : txs[i].shift = s} = {i \in DOMAIN txs : txs[i].shift = s}
    <3>1. \A i \in DOMAIN txs : txs[i].shift = s => i \in has[t]
      BY <1>2, <2>1 DEF RowsInv
    <3> QED
      BY <1>2, <3>1, Typed
  <2>4. shifts'[s] = [shifts[s] EXCEPT !.closed = asked[t].at,
                                       !.rows = {i \in has[t] : txs[i].shift = s}]
    BY <1>c, <2>1
  <2>5. {i \in has[t] : txs[i].shift = s} \in SUBSET (1..MaxTx)
    BY <1>8
  <2>6. /\ shifts'[s].closed = asked[t].at /\ shifts'[s].till = t
        /\ shifts'[s].opened = shifts[s].opened
        /\ shifts'[s].rows = {i \in has[t] : txs[i].shift = s}
        /\ shifts'[s] \in Shift
    <3> DEFINE r == {i \in has[t] : txs[i].shift = s}
               a == asked[t].at
    <3>1. a \in Time /\ a \in 0..MaxTime /\ r \in SUBSET (1..MaxTx)
      BY <1>8, <2>5 DEF Time
    <3>2. shifts'[s] = [shifts[s] EXCEPT !.closed = a, !.rows = r]
      BY <2>4
    <3> HIDE DEF r, a
    <3>3. /\ shifts'[s].closed = a /\ shifts'[s].till = t
          /\ shifts'[s].opened = shifts[s].opened
          /\ shifts'[s].rows = r
          /\ shifts'[s] \in Shift
      BY <2>1, <2>2, <3>1, <3>2 DEF Shift
    <3> QED
      BY <3>3 DEF r, a
  <2> QED
    BY <1>8, <2>1, <2>3, <2>6
<1>10. \A s \in DOMAIN shifts \ OpenShifts(t) : shifts'[s] = shifts[s]
  BY <1>c
<1>11. /\ shifts' \in Seq(Shift) /\ Len(shifts') = Len(shifts)
       /\ (DOMAIN shifts)' = DOMAIN shifts
  <2>1. (DOMAIN shifts)' = DOMAIN shifts
    BY <1>c
  <2>2. \A s \in DOMAIN shifts : shifts'[s] \in Shift
    BY <1>2, <1>9, <1>10, Typed
  <2>3. shifts' \in [1..Len(shifts) -> Shift]
    BY <1>c, <1>2, <2>1, <2>2
  <2> QED
    BY <1>2, <2>1, <2>3, FunctionIsSeq
<1>12. /\ OpenShifts(t)' = {}
       /\ \A u, s : s \in OpenShifts(u)' => s \in OpenShifts(u)
  <2>1. \A u, s : s \in OpenShifts(u)' => s \in OpenShifts(u) /\ u # t
    <3> SUFFICES ASSUME NEW u, NEW s, s \in OpenShifts(u)'
                 PROVE  s \in OpenShifts(u) /\ u # t
      OBVIOUS
    <3>1. s \in DOMAIN shifts /\ shifts'[s].till = u /\ shifts'[s].closed = 0
      BY <1>11 DEF OpenShifts
    <3>2. s \notin OpenShifts(t) /\ shifts'[s] = shifts[s]
      BY <1>9, <1>10, <3>1
    <3> QED
      BY <3>1, <3>2 DEF OpenShifts
  <2> QED
    BY <2>1
<1>13. TypeOK'
  BY <1>1, <1>2, <1>4, <1>11 DEF TypeOK
<1>14. \A s \in DOMAIN shifts : shifts'[s].till = shifts[s].till
  BY <1>9, <1>10
<1>15. RowsInv'
  <2>1. \A u \in Tills : \A s, v \in OpenShifts(u)' : s = v
    BY <1>2, <1>12 DEF RowsInv
  <2> QED
    BY <1>1, <1>2, <1>3, <1>11, <1>14, <2>1 DEF RowsInv
<1>16. ClockInv'
  <2> SUFFICES ASSUME NEW u \in Tills \ untimely
               PROVE  /\ asked'[u].at <= clock[u]
                      /\ \A s \in DOMAIN shifts : shifts'[s].till = u =>
                           /\ shifts'[s].opened <= clock[u]
                           /\ shifts'[s].closed <= clock[u]
                           /\ shifts'[s].closed # 0 => shifts'[s].opened <= shifts'[s].closed
                           /\ s \in OpenShifts(u)' /\ asked'[u].what = "close" =>
                                shifts'[s].opened <= asked'[u].at
    BY <1>1, <1>5, <1>11 DEF ClockInv, BooksInv
  <2>1. clock[u] \in Nat /\ clock[u] >= 1 /\ asked[u].at <= clock[u]
    BY <1>2, Typed DEF ClockInv, BooksInv
  <2>2. asked'[u].at <= clock[u]
    BY <1>4, <2>1
  <2>3. ASSUME NEW s \in DOMAIN shifts, shifts'[s].till = u
        PROVE  /\ shifts'[s].opened <= clock[u]
               /\ shifts'[s].closed <= clock[u]
               /\ shifts'[s].closed # 0 => shifts'[s].opened <= shifts'[s].closed
               /\ s \in OpenShifts(u)' /\ asked'[u].what = "close" =>
                    shifts'[s].opened <= asked'[u].at
    <3>1. shifts[s].till = u
      BY <1>14, <2>3
    <3>2. CASE s \in OpenShifts(t)
      <4>1. u = t
        BY <1>9, <3>1, <3>2
      <4>2. shifts[s].opened <= clock[u] /\ shifts[s].opened <= asked[t].at
        BY <1>1, <3>1, <3>2, <4>1 DEF ClockInv, BooksInv
      <4>3. s \notin OpenShifts(u)'
        BY <1>12, <4>1
      <4> QED
        BY <1>9, <2>1, <3>2, <4>1, <4>2, <4>3
    <3>3. CASE s \notin OpenShifts(t)
      <4>1. shifts'[s] = shifts[s]
        BY <1>10, <3>3
      <4>2. s \in OpenShifts(u)' /\ asked'[u].what = "close" =>
              s \in OpenShifts(u) /\ asked'[u] = asked[u]
        BY <1>7, <1>12
      <4> QED
        BY <3>1, <4>1, <4>2 DEF ClockInv, BooksInv
    <3> QED
      BY <3>2, <3>3
  <2> QED
    BY <2>2, <2>3
<1>17. \A n \in DOMAIN zs : \A s \in zs[n].shifts : s \in DOMAIN shifts /\ shifts'[s] = shifts[s]
  <2> SUFFICES ASSUME NEW n \in DOMAIN zs, NEW s \in zs[n].shifts
               PROVE  s \in DOMAIN shifts /\ shifts'[s] = shifts[s]
    OBVIOUS
  <2>1. s \in DOMAIN shifts /\ shifts[s].closed # 0
    BY <1>2 DEF RowsInv, CutInv, BooksInv
  <2> QED
    BY <1>10, <2>1 DEF OpenShifts
<1>18. CutInv'
  <2>1. \A n \in DOMAIN zs : OpenShifts(zs[n].till)' # {} /\ asked'[zs[n].till].what = "close" =>
          /\ OpenShifts(zs[n].till) # {}
          /\ asked'[zs[n].till] = asked[zs[n].till]
    <3> SUFFICES ASSUME NEW n \in DOMAIN zs, OpenShifts(zs[n].till)' # {},
                        asked'[zs[n].till].what = "close"
                 PROVE  /\ OpenShifts(zs[n].till) # {}
                        /\ asked'[zs[n].till] = asked[zs[n].till]
      OBVIOUS
    <3>1. zs[n].till \in Tills
      BY <1>2, Typed
    <3>2. asked'[zs[n].till] = asked[zs[n].till]
      BY <1>7, <3>1
    <3>3. PICK s : s \in OpenShifts(zs[n].till)'
      OBVIOUS
    <3> QED
      BY <1>1, <1>12, <3>2, <3>3
  <2>2. ASSUME NEW n \in DOMAIN zs, zs[n].till \notin untimely,
               NEW i \in DOMAIN txs, txs[i].till = zs[n].till
        PROVE  i <= zs[n].upto <=> /\ shifts'[txs[i].shift].closed # 0
                                  /\ shifts'[txs[i].shift].closed <= zs[n].end
    <3> DEFINE s == txs[i].shift
    <3>1. s \in DOMAIN shifts /\ shifts[s].till = txs[i].till
      BY <1>2 DEF RowsInv
    <3>2. i <= zs[n].upto <=> shifts[s].closed # 0 /\ shifts[s].closed <= zs[n].end
      BY <2>2 DEF CutInv, BooksInv
    <3>3. CASE s \in OpenShifts(t)
      <4>1. zs[n].till = t /\ OpenShifts(t) # {}
        BY <1>9, <2>2, <3>1, <3>3
      <4>2. zs[n].end < asked[t].at
        BY <1>1, <2>2, <4>1 DEF CutInv, BooksInv
      <4>3. zs[n].end \in Nat /\ asked[t].at \in Nat
        BY <1>2, <1>8, Typed
      <4> QED
        BY <1>9, <3>2, <3>3, <4>2, <4>3
    <3>4. CASE s \notin OpenShifts(t)
      BY <1>10, <3>1, <3>2, <3>4
    <3> QED
      BY <3>3, <3>4
  <2> QED
    BY <1>1, <1>5, <1>17, <2>1, <2>2 DEF CutInv, BooksInv
<1>19. ShiftInv'
  <2> SUFFICES ASSUME NEW s \in DOMAIN shifts
               PROVE  shifts'[s].rows = IF shifts'[s].closed = 0 THEN {}
                                        ELSE {i \in DOMAIN txs : txs[i].shift = s}
    BY <1>1, <1>11 DEF ShiftInv
  <2>1. CASE s \in OpenShifts(t)
    BY <1>9, <2>1
  <2>2. CASE s \notin OpenShifts(t)
    BY <1>10, <2>2 DEF ShiftInv, BooksInv
  <2> QED
    BY <2>1, <2>2
<1>20. ZMatchesShifts'
  <2> SUFFICES ASSUME NEW n \in DOMAIN zs, zs[n].till \notin untimely
               PROVE  zs[n].rows = UNION {shifts'[s].rows : s \in zs[n].shifts}
    BY <1>1 DEF ZMatchesShifts
  <2>1. {shifts'[s].rows : s \in zs[n].shifts} = {shifts[s].rows : s \in zs[n].shifts}
    BY <1>17
  <2> QED
    BY <2>1 DEF ZMatchesShifts, BooksInv
<1> QED
  BY <1>3, <1>6, <1>13, <1>15, <1>16, <1>18, <1>19, <1>20 DEF BooksInv

\* What a report of a till with a clock that was not set back covers: all of
\* the till's transactions after its last report, and their shifts.
LEMMA CoveredRows ==
  ASSUME BooksInv, NEW t \in Tills \ untimely, MayRunZ(t), NEW x \in 1..clock[t], Starts(t, x)
  PROVE  /\ \A i \in DOMAIN txs : txs[i].till = t =>
              (i \in RowsIn(t, x, clock[t]) <=> \A m \in ZsOf(t) : zs[m].upto < i)
         /\ RowsIn(t, x, clock[t])
              = UNION {shifts[s].rows : s \in ShiftsIn(t, x, clock[t])}
<1>1. TypeOK /\ RowsInv /\ DOMAIN txs = 1..Len(txs) /\ Len(txs) \in Nat
      /\ clock[t] \in Nat /\ x \in Nat /\ x >= 1
  BY Typed DEF BooksInv
<1>2. Own(t) = {i \in DOMAIN txs : txs[i].till = t}
  <2>1. has[t] \subseteq DOMAIN txs
    BY <1>1, Typed
  <2>2. \A i \in DOMAIN txs : txs[i].till = t => i \in has[t]
    BY <1>1 DEF RowsInv
  <2> QED
    BY <2>1, <2>2 DEF Own
\* Every shift of the till is closed, not before it was opened and not later than now.
<1>3. \A s \in DOMAIN shifts : shifts[s].till = t =>
        /\ shifts[s].closed # 0 /\ shifts[s].opened <= shifts[s].closed
        /\ shifts[s].closed <= clock[t]
        /\ shifts[s].closed \in Nat /\ shifts[s].opened \in Nat
        /\ shifts[s].rows = {i \in DOMAIN txs : txs[i].shift = s}
  <2> SUFFICES ASSUME NEW s \in DOMAIN shifts, shifts[s].till = t
               PROVE  /\ shifts[s].closed # 0 /\ shifts[s].opened <= shifts[s].closed
                      /\ shifts[s].closed <= clock[t]
                      /\ shifts[s].closed \in Nat /\ shifts[s].opened \in Nat
                      /\ shifts[s].rows = {i \in DOMAIN txs : txs[i].shift = s}
    OBVIOUS
  <2>1. shifts[s].closed # 0
    BY DEF MayRunZ, OpenShifts
  <2>2. shifts[s].opened <= shifts[s].closed /\ shifts[s].closed <= clock[t]
    BY <2>1 DEF BooksInv, ClockInv
  <2>3. shifts[s].closed \in Nat /\ shifts[s].opened \in Nat
    BY <1>1, Typed
  <2>4. shifts[s].rows = {i \in DOMAIN txs : txs[i].shift = s}
    BY <2>1 DEF BooksInv, ShiftInv
  <2> QED
    BY <2>1, <2>2, <2>3, <2>4
<1>4. \A i \in DOMAIN txs : txs[i].till = t =>
        /\ txs[i].at \in Nat /\ txs[i].at <= clock[t]
        /\ txs[i].shift \in DOMAIN shifts /\ shifts[txs[i].shift].till = t
  BY <1>1, Typed DEF BooksInv, ClockInv, RowsInv
\* A transaction is in the period exactly when its shift is, and when no older
\* report covers it.
<1>5. ASSUME NEW i \in DOMAIN txs, txs[i].till = t
      PROVE  /\ x <= txs[i].at <=> \A m \in ZsOf(t) : zs[m].upto < i
             /\ x <= txs[i].at <=> x <= shifts[txs[i].shift].closed
  <2>1. CASE ZsOf(t) = {}
    <3>1. \A y \in Moments(t) : x <= y
      BY <2>1 DEF Starts
    <3>2. x <= txs[i].at
      BY <1>2, <1>5, <3>1 DEF Moments
    <3>3. x <= shifts[txs[i].shift].opened
      BY <1>4, <1>5, <3>1 DEF Moments
    <3>4. x <= shifts[txs[i].shift].closed
      BY <1>1, <1>3, <1>4, <1>5, <3>3
    <3> QED
      BY <2>1, <3>2, <3>4
  <2>2. CASE ZsOf(t) # {}
    <3>1. PICK n \in ZsOf(t) : x = zs[n].end + 1 /\ \A m \in ZsOf(t) : m <= n
      BY <2>2 DEF Starts, After
    <3>2. n \in DOMAIN zs /\ zs[n].till = t /\ zs[n].end \in Nat /\ zs[n].upto \in Nat
      BY <1>1, Typed DEF ZsOf
    <3>3. /\ i <= zs[n].upto <=> txs[i].at <= zs[n].end
          /\ i <= zs[n].upto <=> /\ shifts[txs[i].shift].closed # 0
                                /\ shifts[txs[i].shift].closed <= zs[n].end
      BY <1>5, <3>2 DEF CutInv, BooksInv
    <3>4. x <= txs[i].at <=> ~(i <= zs[n].upto)
      BY <1>4, <1>5, <3>1, <3>2, <3>3
    <3>5. x <= shifts[txs[i].shift].closed <=> ~(i <= zs[n].upto)
      BY <1>3, <1>4, <1>5, <3>1, <3>2, <3>3
    <3>6. \A m \in ZsOf(t) : zs[m].upto <= zs[n].upto
      <4> SUFFICES ASSUME NEW m \in ZsOf(t)
                   PROVE  zs[m].upto <= zs[n].upto
        OBVIOUS
      <4>1. m <= n /\ m \in Nat /\ n \in Nat
        BY <1>1, <3>1, Typed DEF ZsOf
      <4>2. CASE m = n
        BY <3>2, <4>2
      <4>3. CASE m < n
        BY <3>2, <4>3 DEF CutInv, BooksInv
      <4> QED
        BY <4>1, <4>2, <4>3
    <3>7. \A m \in ZsOf(t) : zs[m].upto \in Nat
      BY <1>1, Typed DEF ZsOf
    <3>8. i \in Nat
      BY <1>1
    <3>9. ~(i <= zs[n].upto) <=> \A m \in ZsOf(t) : zs[m].upto < i
      BY <3>2, <3>6, <3>7, <3>8
    <3> QED
      BY <3>4, <3>5, <3>9
  <2> QED
    BY <2>1, <2>2
<1>6. \A i \in DOMAIN txs : txs[i].till = t =>
        (i \in RowsIn(t, x, clock[t]) <=> x <= txs[i].at)
  BY <1>1, <1>2, <1>4 DEF RowsIn
<1>7. RowsIn(t, x, clock[t]) = UNION {shifts[s].rows : s \in ShiftsIn(t, x, clock[t])}
  <2>1. ASSUME NEW i \in RowsIn(t, x, clock[t])
        PROVE  i \in UNION {shifts[s].rows : s \in ShiftsIn(t, x, clock[t])}
    <3>1. i \in DOMAIN txs /\ txs[i].till = t /\ x <= txs[i].at
      BY <1>2, <1>6 DEF RowsIn
    <3>2. txs[i].shift \in ShiftsIn(t, x, clock[t])
      BY <1>1, <1>3, <1>4, <1>5, <3>1 DEF ShiftsIn
    <3>3. i \in shifts[txs[i].shift].rows
      BY <1>3, <1>4, <3>1
    <3> QED
      BY <3>2, <3>3
  <2>2. ASSUME NEW s \in ShiftsIn(t, x, clock[t]), NEW i \in shifts[s].rows
        PROVE  i \in RowsIn(t, x, clock[t])
    <3>1. s \in DOMAIN shifts /\ shifts[s].till = t /\ x <= shifts[s].closed
      BY <1>1, <1>3 DEF ShiftsIn
    <3>2. i \in DOMAIN txs /\ txs[i].shift = s
      BY <1>3, <2>2, <3>1
    <3>3. txs[i].till = t
      BY <1>1, <3>1, <3>2 DEF RowsInv
    <3> QED
      BY <1>5, <1>6, <3>1, <3>2, <3>3
  <2> QED
    BY <2>1, <2>2
<1> QED
  BY <1>5, <1>6, <1>7

LEMMA RunZStep ==
  ASSUME BooksInv, NEW t \in Tills, RunZ(t)
  PROVE  BooksInv'
<1> DEFINE N == Len(zs) + 1
<1>1. /\ Len(zs) < MaxZ /\ clock[t] < MaxTime /\ MayRunZ(t)
      /\ clock' = [clock EXCEPT ![t] = @ + 1]
      /\ UNCHANGED <<txs, has, back, shifts, asked, due, untimely>>
  BY DEF RunZ
<1>2. PICK x \in 1..clock[t] :
        /\ Starts(t, x)
        /\ zs' = Append(zs, [till |-> t, start |-> x, end |-> clock[t],
                             rows |-> RowsIn(t, x, clock[t]),
                             shifts |-> ShiftsIn(t, x, clock[t]), upto |-> Len(txs)])
  BY DEF RunZ
<1> DEFINE z == [till |-> t, start |-> x, end |-> clock[t], rows |-> RowsIn(t, x, clock[t]),
                 shifts |-> ShiftsIn(t, x, clock[t]), upto |-> Len(txs)]
<1>3. TypeOK /\ RowsInv /\ DOMAIN txs = 1..Len(txs) /\ Len(txs) \in Nat
      /\ DOMAIN zs = 1..Len(zs) /\ Len(zs) \in Nat /\ MaxZ \in Nat
      /\ clock[t] \in 1..MaxTime /\ MaxTime \in Nat
  BY Typed DEF BooksInv
<1>4. BackInv' /\ SharesInv' /\ VoidInv' /\ Sales' = Sales
  BY <1>1, RowsStay
<1>5. /\ RowsIn(t, x, clock[t]) \subseteq {i \in 1..Len(txs) : txs[i].till = t}
      /\ ShiftsIn(t, x, clock[t]) \subseteq DOMAIN shifts
      /\ \A s \in ShiftsIn(t, x, clock[t]) : shifts[s].closed # 0
  <2>1. has[t] \subseteq DOMAIN txs
    BY <1>3, Typed
  <2>2. x \in Nat /\ x >= 1
    BY <1>3
  <2> QED
    BY <1>3, <2>1, <2>2 DEF RowsIn, Own, ShiftsIn
<1>6. z \in Z
  <2>1. x \in Time /\ clock[t] \in Time
    BY <1>3 DEF Time
  <2>2. RowsIn(t, x, clock[t]) \in SUBSET (1..MaxTx) /\ Len(txs) \in 0..MaxTx
    BY <1>3, <1>5, Typed DEF TypeOK
  <2>3. ShiftsIn(t, x, clock[t]) \in SUBSET (1..MaxShifts)
    BY <1>3, <1>5, Typed DEF TypeOK
  <2> QED
    BY <2>1, <2>2, <2>3 DEF Z
<1>7. /\ zs' \in Seq(Z) /\ Len(zs') = N
      /\ \A n \in 1..Len(zs) : zs'[n] = zs[n]
      /\ zs'[N] = z
  BY <1>2, <1>3, <1>6, AppendedZ DEF TypeOK
<1>8. z.till = t /\ z.end = clock[t] /\ z.upto = Len(txs)
      /\ z.rows = RowsIn(t, x, clock[t]) /\ z.shifts = ShiftsIn(t, x, clock[t])
  OBVIOUS
<1>z. zs' = Append(zs, z)
  BY <1>2
<1> HIDE DEF z
<1>9. /\ (DOMAIN zs)' = DOMAIN zs \cup {N} /\ N \notin DOMAIN zs
      /\ \A n \in DOMAIN zs : n < N /\ zs'[n] = zs[n]
  BY <1>3, <1>7
<1>10. \A u : OpenShifts(u)' = OpenShifts(u)
  BY <1>1 DEF OpenShifts
<1>11. OpenShifts(t) = {}
  BY <1>1 DEF MayRunZ
<1>12. \A u, n : n \in ZsOf(u)' <=> n \in ZsOf(u) \/ (n = N /\ u = t)
  BY <1>7, <1>8, <1>9 DEF ZsOf
<1>13. /\ clock'[t] = clock[t] + 1
       /\ \A u \in Tills : u # t => clock'[u] = clock[u]
       /\ clock' \in [Tills -> Time]
  BY <1>1, <1>3 DEF TypeOK, Time
<1>14. TypeOK'
  <2>1. Len(zs') <= MaxZ
    BY <1>1, <1>3, <1>7
  <2> QED
    BY <1>1, <1>3, <1>7, <1>13, <2>1 DEF TypeOK
<1>15. RowsInv'
  <2>1. \A n \in (DOMAIN zs)' : zs'[n].upto <= Len(txs) /\ zs'[n].shifts \subseteq DOMAIN shifts
    <3>1. ASSUME NEW n \in DOMAIN zs
          PROVE  zs'[n].upto <= Len(txs) /\ zs'[n].shifts \subseteq DOMAIN shifts
      BY <1>3, <1>9 DEF RowsInv
    <3>2. zs'[N].upto <= Len(txs) /\ zs'[N].shifts \subseteq DOMAIN shifts
      BY <1>3, <1>5, <1>7, <1>8
    <3> QED
      BY <1>9, <3>1, <3>2
  <2> QED
    BY <1>1, <1>3, <1>4, <1>10, <2>1 DEF RowsInv
<1>16. ClockInv'
  <2> SUFFICES ASSUME NEW u \in Tills \ untimely
               PROVE  /\ \A i \in DOMAIN txs : txs[i].till = u => txs[i].at <= clock'[u]
                      /\ \A n \in ZsOf(u)' : zs'[n].end < clock'[u]
                      /\ asked[u].at <= clock'[u] /\ due[u] <= clock'[u]
                      /\ \A s \in DOMAIN shifts : shifts[s].till = u =>
                           shifts[s].opened <= clock'[u] /\ shifts[s].closed <= clock'[u]
    BY <1>1, <1>10 DEF ClockInv, BooksInv
  <2>1. clock[u] \in Nat /\ clock'[u] \in Nat /\ clock[u] <= clock'[u]
    BY <1>3, <1>13, Typed, SMTT(30) DEF Time
  <2>2. \A i \in DOMAIN txs : txs[i].till = u => txs[i].at <= clock'[u]
    BY <1>3, <2>1, Typed DEF ClockInv, BooksInv
  <2>3. asked[u].at <= clock'[u] /\ due[u] <= clock'[u]
    BY <1>3, <2>1, Typed DEF ClockInv, BooksInv
  <2>4. \A s \in DOMAIN shifts : shifts[s].till = u =>
          shifts[s].opened <= clock'[u] /\ shifts[s].closed <= clock'[u]
    BY <1>3, <2>1, Typed, SMTT(30) DEF ClockInv, BooksInv
  <2>5. ASSUME NEW n \in ZsOf(u)'
        PROVE  zs'[n].end < clock'[u]
    <3>1. CASE n \in ZsOf(u)
      <4>1. zs'[n] = zs[n] /\ zs[n].end \in Nat
        BY <1>3, <1>9, <3>1, Typed DEF ZsOf
      <4> QED
        BY <2>1, <3>1, <4>1 DEF ClockInv, BooksInv
    <3>2. CASE n = N /\ u = t
      BY <1>3, <1>7, <1>8, <1>13, <3>2
    <3> QED
      BY <1>12, <2>5, <3>1, <3>2
  <2> QED
    BY <2>2, <2>3, <2>4, <2>5
<1>17. CutInv'
  <2> SUFFICES ASSUME NEW n \in (DOMAIN zs)', NEW u, u = zs'[n].till
               PROVE  /\ zs'[n].rows \subseteq {i \in 1..zs'[n].upto : txs[i].till = u}
                      /\ \A s \in zs'[n].shifts : shifts[s].closed # 0
                      /\ u \notin untimely =>
                           /\ \A m \in ZsOf(u)' : m < n => /\ zs'[m].end < zs'[n].end
                                                          /\ zs'[m].upto <= zs'[n].upto
                           /\ \A i \in DOMAIN txs : txs[i].till = u =>
                                (i <= zs'[n].upto <=> txs[i].at <= zs'[n].end)
                           /\ \A i \in DOMAIN txs : txs[i].till = u =>
                                LET closed == shifts[txs[i].shift].closed
                                IN  i <= zs'[n].upto <=> closed # 0 /\ closed <= zs'[n].end
                           /\ OpenShifts(u) # {} /\ asked[u].what = "close" =>
                                zs'[n].end < asked[u].at
    BY <1>1, <1>10 DEF CutInv, ZsOf
  <2>1. CASE n \in DOMAIN zs
    <3>1. zs'[n] = zs[n]
      BY <1>9, <2>1
    <3>2. \A m \in ZsOf(u)' : m < n => m \in ZsOf(u) /\ zs'[m] = zs[m]
      <4> SUFFICES ASSUME NEW m \in ZsOf(u)', m < n
                   PROVE  m \in ZsOf(u) /\ zs'[m] = zs[m]
        OBVIOUS
      <4>1. m # N
        BY <1>3, <2>1
      <4> QED
        BY <1>9, <1>12, <3>1, <4>1 DEF ZsOf
    <3> QED
      BY <2>1, <3>1, <3>2 DEF CutInv, BooksInv
  <2>2. CASE n = N
    <3>1. zs'[n] = z
      BY <1>7, <2>2
    <3>2. ASSUME t \notin untimely, NEW m \in ZsOf(t)', m < n
          PROVE  zs'[m].end < clock[t] /\ zs'[m].upto <= Len(txs)
      <4>1. m \in ZsOf(t) /\ zs'[m] = zs[m] /\ m \in DOMAIN zs
        BY <1>3, <1>9, <1>12, <2>2, <3>2 DEF ZsOf
      <4> QED
        BY <1>3, <3>2, <4>1 DEF ClockInv, RowsInv, BooksInv
    <3>3. ASSUME t \notin untimely, NEW i \in DOMAIN txs, txs[i].till = t
          PROVE  /\ i <= Len(txs) <=> txs[i].at <= clock[t]
                 /\ i <= Len(txs) <=> /\ shifts[txs[i].shift].closed # 0
                                     /\ shifts[txs[i].shift].closed <= clock[t]
      <4>1. i <= Len(txs) /\ txs[i].at <= clock[t]
        BY <1>3, <3>3 DEF ClockInv, BooksInv
      <4>2. txs[i].shift \in DOMAIN shifts /\ shifts[txs[i].shift].till = t
        BY <1>3, <3>3 DEF RowsInv
      <4>3. shifts[txs[i].shift].closed # 0
        BY <1>11, <4>2 DEF OpenShifts
      <4>4. shifts[txs[i].shift].closed <= clock[t]
        BY <3>3, <4>2 DEF ClockInv, BooksInv
      <4> QED
        BY <4>1, <4>3, <4>4
    <3> QED
      BY <1>5, <1>8, <1>11, <3>1, <3>2, <3>3
  <2> QED
    BY <1>9, <2>1, <2>2
<1>18. ShiftInv'
  BY <1>1 DEF ShiftInv, BooksInv
<1>19. ZCoversSince'
  <2> SUFFICES ASSUME NEW n \in (DOMAIN zs)', NEW u, u = zs'[n].till, u \notin untimely,
                      NEW i \in DOMAIN txs, txs[i].till = u
               PROVE  i \in zs'[n].rows <=>
                        /\ i <= zs'[n].upto
                        /\ \A m \in ZsOf(u)' : m < n => zs'[m].upto < i
    BY <1>1 DEF ZCoversSince, ZsOf
  <2>1. CASE n \in DOMAIN zs
    <3>1. zs'[n] = zs[n]
      BY <1>9, <2>1
    <3>2. ASSUME NEW m, m < n
          PROVE  /\ m \in ZsOf(u)' <=> m \in ZsOf(u)
                 /\ m \in ZsOf(u) => zs'[m] = zs[m]
      <4>1. m # N
        BY <1>3, <2>1, <3>2
      <4> QED
        BY <1>9, <1>12, <3>1, <4>1 DEF ZsOf
    <3>3. i \in zs[n].rows <=>
            /\ i <= zs[n].upto
            /\ \A m \in ZsOf(zs[n].till) : m < n => zs[m].upto < i
      BY <2>1, <3>1 DEF ZCoversSince, BooksInv
    <3> QED
      BY <3>1, <3>2, <3>3
  <2>2. CASE n = N
    <3>1. zs'[n] = z /\ t \notin untimely /\ txs[i].till = t
      BY <1>7, <1>8, <2>2
    <3>2. i \in RowsIn(t, x, clock[t]) <=> \A m \in ZsOf(t) : zs[m].upto < i
      BY <1>1, <1>2, <3>1, CoveredRows
    <3>3. \A m : m \in ZsOf(t)' /\ m < n <=> m \in ZsOf(t)
      BY <1>3, <1>9, <1>12, <2>2 DEF ZsOf
    <3>4. \A m \in ZsOf(t) : zs'[m] = zs[m]
      BY <1>9 DEF ZsOf
    <3>5. i <= Len(txs)
      BY <1>3
    <3> QED
      BY <1>8, <3>1, <3>2, <3>3, <3>4, <3>5
  <2> QED
    BY <1>9, <2>1, <2>2
<1>20. ZMatchesShifts'
  <2> SUFFICES ASSUME NEW n \in (DOMAIN zs)', zs'[n].till \notin untimely
               PROVE  zs'[n].rows = UNION {shifts[s].rows : s \in zs'[n].shifts}
    BY <1>1 DEF ZMatchesShifts
  <2>1. CASE n \in DOMAIN zs
    BY <1>9, <2>1 DEF ZMatchesShifts, BooksInv
  <2>2. CASE n = N
    <3>1. zs'[n] = z /\ t \notin untimely
      BY <1>7, <1>8, <2>2
    <3>2. RowsIn(t, x, clock[t]) = UNION {shifts[s].rows : s \in ShiftsIn(t, x, clock[t])}
      BY <1>1, <1>2, <3>1, CoveredRows
    <3> QED
      BY <1>8, <3>1, <3>2
  <2> QED
    BY <1>9, <2>1, <2>2
<1> QED
  BY <1>4, <1>14, <1>15, <1>16, <1>17, <1>18, <1>19, <1>20 DEF BooksInv

LEMMA TickStep ==
  ASSUME BooksInv, NEW t \in Tills, Tick(t)
  PROVE  BooksInv'
<1>1. /\ clock[t] < MaxTime /\ clock' = [clock EXCEPT ![t] = @ + 1]
      /\ UNCHANGED <<txs, has, back, shifts, zs, asked, due, untimely>>
  BY DEF Tick
<1>2. TypeOK /\ RowsInv
  BY DEF BooksInv
<1>3. BackInv' /\ SharesInv' /\ VoidInv' /\ Sales' = Sales
  BY <1>1, RowsStay
<1>4. \A u : OpenShifts(u)' = OpenShifts(u) /\ ZsOf(u)' = ZsOf(u)
  BY <1>1 DEF OpenShifts, ZsOf
<1>5. \A u \in Tills : clock[u] \in Nat /\ clock'[u] \in Nat /\ clock[u] <= clock'[u]
  BY <1>1, <1>2, Typed DEF TypeOK
<1>6. TypeOK'
  BY <1>1, <1>2, Typed DEF TypeOK, Time
<1>7. RowsInv'
  BY <1>1, <1>2, <1>3, <1>4 DEF RowsInv
<1>8. ClockInv'
  <2> SUFFICES ASSUME NEW u \in Tills \ untimely
               PROVE  /\ \A i \in DOMAIN txs : txs[i].till = u => txs[i].at <= clock'[u]
                      /\ \A n \in ZsOf(u) : zs[n].end < clock'[u]
                      /\ asked[u].at <= clock'[u] /\ due[u] <= clock'[u]
                      /\ \A s \in DOMAIN shifts : shifts[s].till = u =>
                           shifts[s].opened <= clock'[u] /\ shifts[s].closed <= clock'[u]
    BY <1>1, <1>4 DEF ClockInv, BooksInv
  <2>1. \A y \in Nat : /\ y <= clock[u] => y <= clock'[u]
                       /\ y < clock[u] => y < clock'[u]
    BY <1>5
  <2>2. \A i \in DOMAIN txs : txs[i].till = u => txs[i].at <= clock'[u]
    BY <1>2, <2>1, Typed DEF ClockInv, BooksInv
  <2>3. \A n \in ZsOf(u) : zs[n].end < clock'[u]
    BY <1>2, <2>1, Typed DEF ClockInv, BooksInv, ZsOf
  <2>4. asked[u].at <= clock'[u] /\ due[u] <= clock'[u]
    BY <1>2, <2>1, Typed DEF ClockInv, BooksInv
  <2>5. \A s \in DOMAIN shifts : shifts[s].till = u =>
          shifts[s].opened <= clock'[u] /\ shifts[s].closed <= clock'[u]
    BY <1>2, <2>1, Typed DEF ClockInv, BooksInv
  <2> QED
    BY <2>2, <2>3, <2>4, <2>5
<1>9. CutInv'
  BY <1>1, <1>4 DEF CutInv, BooksInv
<1>10. ShiftInv' /\ ZMatchesShifts' /\ ZCoversSince'
  BY <1>1, ShiftsStay, ZsStay DEF BooksInv
<1> QED
  BY <1>3, <1>6, <1>7, <1>8, <1>9, <1>10 DEF BooksInv

\* A till whose clock was set back is left out of what clocks promise.
LEMMA SetClockBackStep ==
  ASSUME BooksInv, NEW t \in Tills, SetClockBack(t)
  PROVE  BooksInv'
<1>1. /\ untimely' = untimely \cup {t}
      /\ UNCHANGED <<txs, has, back, shifts, zs, asked, due>>
  BY DEF SetClockBack
<1>2. PICK x \in 1..clock[t] - 1 : clock' = [clock EXCEPT ![t] = x]
  BY DEF SetClockBack
<1>3. TypeOK /\ RowsInv
  BY DEF BooksInv
<1>4. BackInv' /\ SharesInv' /\ VoidInv' /\ Sales' = Sales
  BY <1>1, RowsStay
<1>5. \A u : OpenShifts(u)' = OpenShifts(u) /\ ZsOf(u)' = ZsOf(u)
  BY <1>1 DEF OpenShifts, ZsOf
<1>6. \A u \in Tills \ untimely' : u \notin untimely /\ clock'[u] = clock[u]
  BY <1>1, <1>2, <1>3 DEF TypeOK
<1>7. TypeOK'
  <2>1. clock[t] \in 1..MaxTime /\ MaxTime \in Nat
    BY <1>3, Typed
  <2>2. x \in Time
    BY <2>1 DEF Time
  <2> QED
    BY <1>1, <1>2, <1>3, <2>2 DEF TypeOK
<1>8. RowsInv'
  BY <1>1, <1>3, <1>4, <1>5 DEF RowsInv
<1>9. ClockInv'
  BY <1>1, <1>5, <1>6 DEF ClockInv, BooksInv
<1>10. CutInv'
  BY <1>1, <1>5 DEF CutInv, BooksInv
<1>11. ShiftInv' /\ ZMatchesShifts' /\ ZCoversSince'
  <2>1. untimely \subseteq untimely'
    BY <1>1
  <2> QED
    BY <1>1, <2>1, ShiftsStay, ZsStay DEF BooksInv
<1> QED
  BY <1>4, <1>7, <1>8, <1>9, <1>10, <1>11 DEF BooksInv

LEMMA NextInv == BooksInv /\ [Next]_vars => BooksInv'
<1> SUFFICES ASSUME BooksInv, [Next]_vars PROVE BooksInv'
  OBVIOUS
<1>1. CASE UNCHANGED vars
  <2> USE <1>1 DEF vars
  <2>1. BackInv' /\ SharesInv' /\ VoidInv' /\ Sales' = Sales
    BY RowsStay
  <2>2. \A u : OpenShifts(u)' = OpenShifts(u) /\ ZsOf(u)' = ZsOf(u)
    BY DEF OpenShifts, ZsOf
  <2>3. TypeOK' /\ ClockInv' /\ CutInv'
    BY <2>2 DEF BooksInv, TypeOK, ClockInv, CutInv
  <2>4. RowsInv'
    BY <2>1, <2>2 DEF BooksInv, RowsInv
  <2>5. ShiftInv' /\ ZMatchesShifts' /\ ZCoversSince'
    BY ShiftsStay, ZsStay DEF BooksInv
  <2> QED
    BY <2>1, <2>3, <2>4, <2>5 DEF BooksInv
<1>2. CASE Next
  <2>1. PICK t \in Tills :
          \/ \E c \in Carts : Sell(t, c) \/ PayOrder(t, c)
          \/ AskPay(t) \/ PayRefused(t)
          \/ \E i \in has[t] \cap Sales :
               \/ \E q \in Picks(t, i), m \in Methods : Refund(t, i, q, m)
               \/ Void(t, i)
          \/ \E i \in DOMAIN txs : Receive(t, i)
          \/ AskShift(t, "open") \/ AskShift(t, "close")
          \/ OpenShift(t) \/ CloseShift(t)
          \/ RunZ(t)
          \/ Tick(t) \/ SetClockBack(t)
    BY <1>2 DEF Next
  <2>2. CASE \E c \in Carts : Sell(t, c) \/ PayOrder(t, c)
    BY <2>2, SellStep, PayOrderStep
  <2>3. CASE \E i \in has[t] \cap Sales :
               \E q \in Picks(t, i), m \in Methods : Refund(t, i, q, m)
    BY <2>3, RefundStep
  <2>4. CASE \E i \in has[t] \cap Sales : Void(t, i)
    BY <2>4, VoidStep
  <2>5. CASE \E i \in DOMAIN txs : Receive(t, i)
    BY <2>5, ReceiveStep
  <2>6. CASE AskShift(t, "open") \/ AskShift(t, "close")
    BY <2>6, AskShiftStep
  <2>7. CASE OpenShift(t)
    BY <2>7, OpenShiftStep
  <2>8. CASE CloseShift(t)
    BY <2>8, CloseShiftStep
  <2>9. CASE RunZ(t)
    BY <2>9, RunZStep
  <2>10. CASE Tick(t)
    BY <2>10, TickStep
  <2>11. CASE SetClockBack(t)
    BY <2>11, SetClockBackStep
  <2>12. CASE AskPay(t) \/ PayRefused(t)
    BY <2>12, WaitingStep
  <2> QED
    BY <2>1, <2>2, <2>3, <2>4, <2>5, <2>6, <2>7, <2>8, <2>9, <2>10, <2>11, <2>12
<1> QED
  BY <1>1, <1>2

-----------------------------------------------------------------------------
(* What follows from it.                                                    *)

\* Every reachable state of the books satisfies the inductive invariant.
THEOREM BooksAlways == Spec => []BooksInv
  BY InitInv, NextInv, PTL DEF Spec

\* Parts of a sale that go back add up to the sale and never exceed it, at
\* every till that knows all of its reversals: refund, slice, reversal.
THEOREM ReturnsAddUpAlways == Spec => []ReturnsAddUp
<1>1. BooksInv => ReturnsAddUp
  <2> SUFFICES ASSUME BooksInv, NEW t \in Tills, NEW i \in has[t] \cap Sales, ReversedAt(t, i)
               PROVE  /\ \A l \in Lines :
                           /\ back[t][i].qty[l] <= Sold(i).qty[l]
                           /\ back[t][i].amount[l] <= Sold(i).amount[l]
                           /\ back[t][i].qty[l] = Sold(i).qty[l] =>
                                back[t][i].amount[l] = Sold(i).amount[l]
                      /\ back[t][i].points <= Sold(i).points
                      /\ back[t][i].qty = Sold(i).qty => back[t][i].points = Sold(i).points
    BY DEF ReturnsAddUp
  <2>1. i \in DOMAIN txs /\ i \in 1..MaxTx
    BY Typed DEF Sales, BooksInv, TypeOK
  <2>2. Sold(i) \in Carts /\ back[t][i] \in Goods
    BY <2>1 DEF BooksInv, RowsInv, TypeOK, Sold
  <2>3. Shared(back[t][i], Sold(i))
    BY DEF BooksInv, SharesInv
  <2> QED
    BY <2>2, <2>3, SharedBounds
<1> QED
  BY <1>1, BooksAlways, PTL

\* Card refunds stay within the card payments, and the till holds for a sale
\* what its remaining goods cost: plan, void_blocker.
THEOREM HeldForGoodsAlways == Spec => []HeldForGoods
<1>1. BooksInv => HeldForGoods
  <2> SUFFICES ASSUME BooksInv, NEW t \in Tills, NEW i \in has[t] \cap Sales, ReversedAt(t, i)
               PROVE  /\ HeldBy(t, i, "card") >= 0
                      /\ HeldBy(t, i, "cash") + HeldBy(t, i, "card")
                           = SumL(Sold(i).amount) - SumL(back[t][i].amount)
    BY DEF HeldForGoods
  <2>1. i \in DOMAIN txs /\ i \in 1..MaxTx
    BY Typed DEF Sales, BooksInv, TypeOK
  <2>2. Sold(i) \in Carts /\ back[t][i] \in Goods
    BY <2>1 DEF BooksInv, RowsInv, TypeOK, Sold
  <2>3. Sold(i) \in Goods /\ SumM(Sold(i).paid) = SumL(Sold(i).amount)
    BY <2>2, CartsAssumption DEF IsBill
  <2>4. /\ SumM(back[t][i].paid) = SumL(back[t][i].amount)
        /\ back[t][i].paid["card"] <= Sold(i).paid["card"]
    BY DEF BooksInv, SharesInv, Shared
  <2>5. /\ back[t][i].paid["cash"] \in Nat /\ back[t][i].paid["card"] \in Nat
        /\ Sold(i).paid["cash"] \in Nat /\ Sold(i).paid["card"] \in Nat
    BY <2>2, <2>3, GoodsParts
  <2> QED
    BY <2>3, <2>4, <2>5 DEF HeldBy, SumM
<1> QED
  BY <1>1, BooksAlways, PTL

\* A transaction is in exactly one Z report, the first that is run after it,
\* while the till's clock is not set back and no payment of it waits through a
\* Z report: period_start, totals.
THEOREM ZCoversSinceAlways == Spec => []ZCoversSince
<1>1. BooksInv => ZCoversSince
  BY DEF BooksInv
<1> QED
  BY <1>1, BooksAlways, PTL

\* A Z report covers the transactions of the shifts it lists, all of them and
\* no others: totals, in_period, run_z.
THEOREM ZMatchesShiftsAlways == Spec => []ZMatchesShifts
<1>1. BooksInv => ZMatchesShifts
  BY DEF BooksInv
<1> QED
  BY <1>1, BooksAlways, PTL

\* A closed shift's transactions are those it was closed with, and a void is
\* in the same reports as its sale: void_blocker.
THEOREM ClosedStaysStableAlways == Spec => []ClosedStaysStable
<1>1. BooksInv => ClosedStaysStable
  <2> SUFFICES ASSUME BooksInv PROVE ClosedStaysStable
    OBVIOUS
  <2>1. TypeOK /\ RowsInv
    BY DEF BooksInv
  <2>2. \A s \in DOMAIN shifts : shifts[s].closed # 0 =>
          shifts[s].rows = {i \in DOMAIN txs : txs[i].shift = s}
    BY DEF BooksInv, ShiftInv
  <2>3. ASSUME NEW j \in DOMAIN txs, txs[j].kind = "void"
        PROVE  /\ txs[j].shift = txs[txs[j].of].shift
               /\ \A n \in DOMAIN zs : zs[n].till \notin untimely =>
                    (j \in zs[n].rows <=> txs[j].of \in zs[n].rows)
    <3>1. txs[j].shift = txs[txs[j].of].shift
      BY <2>3 DEF BooksInv, VoidInv
    <3>2. txs[j].of \in DOMAIN txs
      BY <2>1 DEF RowsInv, Sales
    <3>3. ASSUME NEW n \in DOMAIN zs, zs[n].till \notin untimely
          PROVE  j \in zs[n].rows <=> txs[j].of \in zs[n].rows
      <4>1. zs[n].rows = UNION {shifts[s].rows : s \in zs[n].shifts}
        BY <3>3 DEF BooksInv, ZMatchesShifts
      <4>2. \A s \in zs[n].shifts : s \in DOMAIN shifts /\ shifts[s].closed # 0
        BY <2>1 DEF RowsInv, BooksInv, CutInv
      <4>3. \A s \in zs[n].shifts : j \in shifts[s].rows <=> txs[j].of \in shifts[s].rows
        BY <2>2, <3>1, <3>2, <4>2
      <4> QED
        BY <4>1, <4>3
    <3> QED
      BY <3>1, <3>3
  <2> QED
    BY <2>2, <2>3 DEF ClosedStaysStable
<1> QED
  BY <1>1, BooksAlways, PTL

=============================================================================
