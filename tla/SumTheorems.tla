---------------------------- MODULE SumTheorems ----------------------------
(***************************************************************************)
(* What the proofs about money and counts rest on: how division rounds,    *)
(* induction over the subsets of a finite set and over the numbers up to n *)
(* (what the claim holds of is a set G), and the sums SumFunctionOnSet of  *)
(* the community modules takes over finite sets.                           *)
(***************************************************************************)
EXTENDS Integers, Functions, FiniteSetTheorems, TLAPS

-----------------------------------------------------------------------------
(* Division.                                                                *)

\* The quotient is the last number of times d fits into n.
LEMMA DivBounds ==
  ASSUME NEW n \in Int, NEW d \in Int, d > 0
  PROVE  n \div d \in Int /\ d * (n \div d) <= n /\ n < d * (n \div d) + d
  BY SMT

\* What a product with d keeps of the order.
LEMMA Times ==
  ASSUME NEW p \in Int, NEW q \in Int, NEW d \in Int
  PROVE  /\ d * p \in Int
         /\ d * (p + q) = d * p + d * q
         /\ (2 * d) * p = 2 * (d * p)
         /\ d > 0 /\ p <= q => d * p <= d * q
         /\ d > 0 /\ d * p < d * q => p < q
  BY SMT

\* Division does not turn the order round.
LEMMA DivMonotone ==
  ASSUME NEW m \in Int, NEW n \in Int, NEW d \in Int, d > 0, m <= n
  PROVE  m \div d <= n \div d
<1> DEFINE p == m \div d
           q == n \div d
<1>1. /\ p \in Int /\ d * p <= m
      /\ q \in Int /\ n < d * q + d
  BY DivBounds
<1>2. d * (q + 1) = d * q + d
  BY <1>1, Times
<1>3. d * p < d * (q + 1)
  <2>1. d * p \in Int /\ d * q \in Int
    BY <1>1, Times
  <2> QED
    BY <1>1, <1>2, <2>1
<1>4. p < q + 1
  BY <1>1, <1>3, Times
<1> QED
  BY <1>1, <1>4

\* The whole of it.
LEMMA DivWhole ==
  ASSUME NEW a \in Int, NEW d \in Int, d > 0
  PROVE  (2 * (a * d) + d) \div (2 * d) = a
<1> DEFINE n == 2 * (a * d) + d
           q == n \div (2 * d)
<1>1. a * d = d * a /\ d * a \in Int /\ n \in Int /\ 2 * d > 0 /\ 2 * d \in Int
  BY Times, SMT
<1>2. q \in Int /\ (2 * d) * q <= n /\ n < (2 * d) * q + 2 * d
  BY <1>1, DivBounds
<1>3. /\ (2 * d) * a \in Int /\ (2 * d) * q \in Int
      /\ (2 * d) * a = 2 * (d * a)
      /\ (2 * d) * (q + 1) = (2 * d) * q + 2 * d
      /\ (2 * d) * (a + 1) = (2 * d) * a + 2 * d
      /\ (2 * d) * (a + 1) \in Int /\ (2 * d) * (q + 1) \in Int
  BY <1>1, <1>2, Times, SMT
<1>4. n = (2 * d) * a + d
  BY <1>1, <1>3
<1>5. (2 * d) * q < (2 * d) * (a + 1) /\ (2 * d) * a < (2 * d) * (q + 1)
  BY <1>1, <1>2, <1>3, <1>4
<1>6. q < a + 1 /\ a < q + 1
  BY <1>1, <1>2, <1>5, Times
<1> QED
  BY <1>2, <1>6

\* What is left over.
LEMMA DivMod ==
  ASSUME NEW a, NEW w, a \in Nat, w \in Nat, w > 0
  PROVE  /\ a % w = a - w * (a \div w)
         /\ a % w \in Nat /\ a % w < w /\ a \div w \in Nat
<1>1. a \div w \in Int /\ a % w \in 0..(w - 1)
  OBVIOUS
<1>2. a % w = a - w * (a \div w)
  OBVIOUS
<1>3. a \div w >= 0
  OBVIOUS
<1> QED
  BY <1>1, <1>2, <1>3

-----------------------------------------------------------------------------
(* Induction.                                                               *)

\* A set of subsets of a finite set has a smallest element.
LEMMA SmallestSet ==
  ASSUME NEW S, IsFiniteSet(S), NEW B, B \subseteq SUBSET S, B # {}
  PROVE  \E U \in B : \A V \in B : V \subseteq U => V = U
<1> DEFINE R == StrictSubsetOrdering(S)
<1>1. IsWellFoundedOn(R, FiniteSubsetsOf(S))
  BY FS_StrictSubsetOrderingWellFounded
<1>2. B \subseteq FiniteSubsetsOf(S)
  BY FS_FiniteSubsetsOfFinite
<1>3. PICK U \in B : \A V \in B : ~(<<V, U>> \in R)
  <2> HIDE DEF R
  <2> QED
    BY <1>1, <1>2, WFMin
<1>4. \A V \in B : V \subseteq U => V = U
  BY <1>3 DEF StrictSubsetOrdering
<1> QED
  BY <1>4

\* Induction over the subsets of S, those in G being the ones done.
LEMMA SetInduction ==
  ASSUME NEW S, IsFiniteSet(S), NEW G, {} \in G,
         \A U \in SUBSET S : \A x \in S \ U : U \in G => U \cup {x} \in G
  PROVE  SUBSET S \subseteq G
<1> DEFINE B == (SUBSET S) \ G
<1> SUFFICES ASSUME B # {} PROVE FALSE
  OBVIOUS
<1>0. B \subseteq SUBSET S
  OBVIOUS
<1>1. PICK U \in B : \A V \in B : V \subseteq U => V = U
  <2> HIDE DEF B
  <2> QED
    BY <1>0, SmallestSet
<1>2. PICK x \in U : TRUE
  BY <1>1
<1>3. U \ {x} \in G
  BY <1>1, <1>2
<1>4. (U \ {x}) \cup {x} = U /\ x \in S \ (U \ {x}) /\ U \ {x} \in SUBSET S
  BY <1>1, <1>2
<1>5. U \in G
  BY <1>3, <1>4
<1> QED
  BY <1>1, <1>5

\* Induction over the numbers up to n.
LEMMA InductionUpTo ==
  ASSUME NEW n \in Nat, NEW G, 0 \in G, \A k \in 1..n : k - 1 \in G => k \in G
  PROVE  0..n \subseteq G
<1> DEFINE B == {0..k : k \in (0..n) \ G}
           N == 0..n
<1> SUFFICES ASSUME NEW x \in (0..n) \ G PROVE FALSE
  OBVIOUS
<1>1. B \subseteq SUBSET N /\ B # {}
  <2>1. \A k \in 0..n : 0..k \subseteq 0..n
    OBVIOUS
  <2> QED
    BY <2>1
<1>2. PICK U \in B : \A V \in B : V \subseteq U => V = U
  <2>1. IsFiniteSet(N)
    BY FS_Interval
  <2> HIDE DEF B, N
  <2> QED
    BY <1>1, <2>1, SmallestSet
<1>3. PICK k \in (0..n) \ G : U = 0..k
  BY <1>2
<1>4. k \in 1..n /\ k - 1 \in (0..n) \ G
  OBVIOUS
<1>5. 0..(k - 1) \in B /\ 0..(k - 1) \subseteq U
  BY <1>3, <1>4
<1>6. k \in 0..k /\ k \notin 0..(k - 1)
  BY <1>4
<1> QED
  BY <1>2, <1>3, <1>5, <1>6

-----------------------------------------------------------------------------
(* The recursion is well defined.                                           *)

Chosen(s) == CHOOSE x \in s : TRUE

\* g sums f over the subsets of U, an element that is chosen at a time.
Unrolled(g, f, U) ==
  g = [s \in SUBSET U |-> IF s = {} THEN 0 ELSE f[Chosen(s)] + g[s \ {Chosen(s)}]]

\* The sum is the value at S of the function it recurses with.
LEMMA SumIsChosen ==
  ASSUME NEW f, NEW S
  PROVE  SumFunctionOnSet(f, S) = (CHOOSE g : Unrolled(g, f, S))[S]
BY DEF SumFunctionOnSet, FoldFunctionOnSet, MapThenFoldSet, Unrolled, Chosen

\* The element that is chosen is one of them.
LEMMA ChosenIn ==
  ASSUME NEW s, s # {}
  PROVE  Chosen(s) \in s
BY DEF Chosen

\* Two such functions agree on the subsets both are defined on.
LEMMA UnrolledOnce ==
  ASSUME NEW f, NEW S, IsFiniteSet(S), NEW U \in SUBSET S, NEW V \in SUBSET S,
         NEW g, NEW h, Unrolled(g, f, U), Unrolled(h, f, V)
  PROVE  \A s \in SUBSET (U \cap V) : g[s] = h[s]
<1> DEFINE B == {s \in SUBSET (U \cap V) : g[s] # h[s]}
<1> SUFFICES ASSUME B # {} PROVE FALSE
  OBVIOUS
<1>1. B \subseteq SUBSET S
  OBVIOUS
<1>2. PICK s \in B : \A t \in B : t \subseteq s => t = s
  <2> HIDE DEF B
  <2> QED
    BY <1>1, SmallestSet
<1>3. s \in SUBSET U /\ s \in SUBSET V
  OBVIOUS
<1>4. g[s] = IF s = {} THEN 0 ELSE f[Chosen(s)] + g[s \ {Chosen(s)}]
  BY <1>3 DEF Unrolled
<1>5. h[s] = IF s = {} THEN 0 ELSE f[Chosen(s)] + h[s \ {Chosen(s)}]
  BY <1>3 DEF Unrolled
<1>6. CASE s = {}
  BY <1>4, <1>5, <1>6
<1>7. CASE s # {}
  <2>1. Chosen(s) \in s
    BY <1>7, ChosenIn
  <2>2. s \ {Chosen(s)} # s /\ s \ {Chosen(s)} \subseteq s
    BY <2>1
  <2>3. g[s \ {Chosen(s)}] = h[s \ {Chosen(s)}]
    BY <1>2, <2>2
  <2> QED
    BY <1>4, <1>5, <1>7, <2>3
<1> QED
  BY <1>6, <1>7

\* There is such a function for every finite set.
LEMMA UnrolledExists ==
  ASSUME NEW f, NEW S, IsFiniteSet(S)
  PROVE  \E g : Unrolled(g, f, S)
<1> DEFINE B == {U \in SUBSET S : ~\E g : Unrolled(g, f, U)}
<1> SUFFICES ASSUME B # {} PROVE FALSE
  OBVIOUS
<1>1. B \subseteq SUBSET S
  OBVIOUS
<1>2. PICK U \in B : \A V \in B : V \subseteq U => V = U
  <2> HIDE DEF B
  <2> QED
    BY <1>1, SmallestSet
<1> DEFINE h(V) == CHOOSE g : Unrolled(g, f, V)
           Rest(s) == s \ {Chosen(s)}
           g == [s \in SUBSET U |-> IF s = {} THEN 0 ELSE f[Chosen(s)] + h(Rest(s))[Rest(s)]]
<1>3. \A V \in SUBSET U : V # U => Unrolled(h(V), f, V)
  <2> TAKE V \in SUBSET U
  <2> HAVE V # U
  <2>1. V \notin B /\ V \in SUBSET S
    BY <1>2
  <2>2. \E k : Unrolled(k, f, V)
    BY <2>1
  <2> QED
    BY <2>2
<1>4. \A s \in SUBSET U : s # {} => g[Rest(s)] = h(Rest(s))[Rest(s)]
  <2> TAKE s \in SUBSET U
  <2> HAVE s # {}
  <2>1. Chosen(s) \in s
    BY ChosenIn
  <2> DEFINE t == Rest(s)
  <2>2. t \in SUBSET U /\ t # U
    BY <2>1
  <2>3. Unrolled(h(t), f, t)
    BY <1>3, <2>2
  <2>4. h(t)[t] = IF t = {} THEN 0 ELSE f[Chosen(t)] + h(t)[Rest(t)]
    <3> HIDE DEF h, t
    <3> QED
      BY <2>3 DEF Unrolled
  <2>5. g[t] = IF t = {} THEN 0 ELSE f[Chosen(t)] + h(Rest(t))[Rest(t)]
    <3> HIDE DEF h, t
    <3> QED
      BY <2>2
  <2>6. t # {} => h(t)[Rest(t)] = h(Rest(t))[Rest(t)]
    <3> HAVE t # {}
    <3>1. Chosen(t) \in t
      BY ChosenIn
    <3>2. Rest(t) \in SUBSET U /\ Rest(t) # U /\ Rest(t) \in SUBSET (t \cap Rest(t))
      BY <2>2, <3>1
    <3>3. Unrolled(h(Rest(t)), f, Rest(t))
      BY <1>3, <3>2
    <3>4. t \in SUBSET S /\ Rest(t) \in SUBSET S
      BY <2>2, <3>2
    <3> DEFINE r == Rest(t)
               k == h(t)
               l == h(r)
    <3>5. /\ t \in SUBSET S /\ r \in SUBSET S /\ r \in SUBSET (t \cap r)
          /\ Unrolled(k, f, t) /\ Unrolled(l, f, r)
      BY <2>3, <3>2, <3>3, <3>4
    <3>6. k[r] = l[r]
      <4> HIDE DEF h, t, r, k, l
      <4>1. \A s1 \in SUBSET (t \cap r) : k[s1] = l[s1]
        BY <3>5, UnrolledOnce
      <4> QED
        BY <3>5, <4>1
    <3> QED
      BY <3>6
  <2> HIDE DEF h, t, g
  <2>7. g[t] = h(t)[t]
    BY <2>4, <2>5, <2>6
  <2> QED
    BY <2>7 DEF t
<1>5. Unrolled(g, f, U)
  <2>1. g = [s \in SUBSET U |-> IF s = {} THEN 0 ELSE f[Chosen(s)] + g[Rest(s)]]
    <3>1. \A s \in SUBSET U : g[s] = IF s = {} THEN 0 ELSE f[Chosen(s)] + g[Rest(s)]
      <4> TAKE s \in SUBSET U
      <4>1. g[s] = IF s = {} THEN 0 ELSE f[Chosen(s)] + h(Rest(s))[Rest(s)]
        OBVIOUS
      <4> HIDE DEF h, g
      <4> QED
        BY <1>4, <4>1
    <3>2. g = [s \in SUBSET U |-> g[s]]
      OBVIOUS
    <3> HIDE DEF g
    <3> QED
      BY <3>1, <3>2
  <2> HIDE DEF g, h
  <2> QED
    BY <2>1 DEF Unrolled
<1> HIDE DEF g, h
<1> QED
  BY <1>2, <1>5

\* So a sum is that of a chosen element and of the rest.
LEMMA SumRecursion ==
  ASSUME NEW f, NEW S, IsFiniteSet(S)
  PROVE  SumFunctionOnSet(f, S) =
           IF S = {} THEN 0
           ELSE f[Chosen(S)] + SumFunctionOnSet(f, S \ {Chosen(S)})
<1> DEFINE T == S \ {Chosen(S)}
           g == CHOOSE k : Unrolled(k, f, S)
           h == CHOOSE k : Unrolled(k, f, T)
<1>1. SumFunctionOnSet(f, S) = g[S] /\ SumFunctionOnSet(f, T) = h[T]
  BY SumIsChosen
<1>2. IsFiniteSet(T) /\ T \in SUBSET S /\ S \in SUBSET S
  BY FS_Subset
<1>3. Unrolled(g, f, S) /\ Unrolled(h, f, T)
  <2>1. \E k : Unrolled(k, f, S)
    BY UnrolledExists
  <2>2. \E k : Unrolled(k, f, T)
    BY <1>2, UnrolledExists
  <2> QED
    BY <2>1, <2>2
<1> HIDE DEF g, h
<1>4. g[S] = IF S = {} THEN 0 ELSE f[Chosen(S)] + g[T]
  BY <1>3 DEF Unrolled
<1>5. g[T] = h[T]
  BY <1>2, <1>3, UnrolledOnce
<1> QED
  BY <1>1, <1>4, <1>5

-----------------------------------------------------------------------------
(* Sums of integers.                                                        *)

\* Nothing adds up to nothing.
LEMMA SumEmpty ==
  ASSUME NEW f
  PROVE  SumFunctionOnSet(f, {}) = 0
BY SumRecursion, FS_EmptySet

\* A sum of integers is one.
LEMMA SumType ==
  ASSUME NEW S, IsFiniteSet(S), NEW f, \A x \in S : f[x] \in Int
  PROVE  SumFunctionOnSet(f, S) \in Int
<1> DEFINE B == {U \in SUBSET S : SumFunctionOnSet(f, U) \notin Int}
<1> SUFFICES ASSUME B # {} PROVE FALSE
  OBVIOUS
<1>1. B \subseteq SUBSET S
  OBVIOUS
<1>2. PICK U \in B : \A V \in B : V \subseteq U => V = U
  <2> HIDE DEF B
  <2> QED
    BY <1>1, SmallestSet
<1>3. U # {}
  BY SumEmpty
<1>4. Chosen(U) \in U
  BY <1>3, ChosenIn
<1>5. SumFunctionOnSet(f, U \ {Chosen(U)}) \in Int
  BY <1>2, <1>4
<1>6. IsFiniteSet(U) /\ f[Chosen(U)] \in Int
  BY <1>4, FS_Subset
<1>7. SumFunctionOnSet(f, U) = f[Chosen(U)] + SumFunctionOnSet(f, U \ {Chosen(U)})
  BY <1>3, <1>6, SumRecursion
<1>8. SumFunctionOnSet(f, U) \in Int
  BY <1>5, <1>6, <1>7
<1> QED
  BY <1>8

\* Any element may be the one that is taken out.
LEMMA SumElement ==
  ASSUME NEW S, IsFiniteSet(S), NEW f, \A x \in S : f[x] \in Int, NEW x \in S
  PROVE  SumFunctionOnSet(f, S) = f[x] + SumFunctionOnSet(f, S \ {x})
<1> DEFINE Sum(T) == SumFunctionOnSet(f, T)
           B == {U \in SUBSET S : \E y \in U : Sum(U) # f[y] + Sum(U \ {y})}
<1> SUFFICES ASSUME B # {} PROVE FALSE
  <2>1. S \notin B
    OBVIOUS
  <2> QED
    BY <2>1
<1>1. B \subseteq SUBSET S
  OBVIOUS
<1>2. PICK U \in B : \A V \in B : V \subseteq U => V = U
  <2> HIDE DEF B
  <2> QED
    BY <1>1, SmallestSet
<1>3. PICK y \in U : Sum(U) # f[y] + Sum(U \ {y})
  OBVIOUS
<1> DEFINE c == Chosen(U)
           R == U \ {c, y}
<1>4. c \in U
  BY ChosenIn
<1>5. \A T \in SUBSET S : IsFiniteSet(T) /\ Sum(T) \in Int
  <2> TAKE T \in SUBSET S
  <2>1. IsFiniteSet(T)
    BY FS_Subset
  <2> QED
    BY <2>1, SumType
<1>6. Sum(U) = f[c] + Sum(U \ {c})
  BY <1>4, <1>5, SumRecursion
<1>7. c # y
  BY <1>3, <1>6
<1>8. Sum(U \ {c}) = f[y] + Sum(R)
  <2>1. U \ {c} \notin B /\ y \in U \ {c} /\ (U \ {c}) \ {y} = R /\ U \ {c} \in SUBSET S
    BY <1>2, <1>4, <1>7
  <2> QED
    BY <2>1
<1>9. Sum(U \ {y}) = f[c] + Sum(R)
  <2>1. U \ {y} \notin B /\ c \in U \ {y} /\ (U \ {y}) \ {c} = R /\ U \ {y} \in SUBSET S
    BY <1>2, <1>3, <1>4, <1>7
  <2> QED
    BY <2>1
<1>10. R \in SUBSET S /\ f[c] \in Int /\ f[y] \in Int
  BY <1>4
<1>11. Sum(R) \in Int
  BY <1>5, <1>10
<1> HIDE DEF Sum, B, R, c
<1> QED
  BY <1>3, <1>6, <1>8, <1>9, <1>10, <1>11

\* A sum with an element more.
LEMMA SumOneMore ==
  ASSUME NEW S, IsFiniteSet(S), NEW x, x \notin S, NEW f, f[x] \in Int, \A y \in S : f[y] \in Int
  PROVE  SumFunctionOnSet(f, S \cup {x}) = f[x] + SumFunctionOnSet(f, S)
<1>1. IsFiniteSet(S \cup {x}) /\ (S \cup {x}) \ {x} = S
  BY FS_AddElement
<1> QED
  BY <1>1, SumElement

\* A sum over a single element.
LEMMA SumOfOne ==
  ASSUME NEW x, NEW f, f[x] \in Int
  PROVE  SumFunctionOnSet(f, {x}) = f[x]
<1>1. SumFunctionOnSet(f, {} \cup {x}) = f[x] + SumFunctionOnSet(f, {})
  BY SumOneMore, FS_EmptySet
<1>2. {} \cup {x} = {x}
  OBVIOUS
<1> QED
  BY <1>1, <1>2, SumEmpty

\* Only the values on the set count.
LEMMA SumSame ==
  ASSUME NEW S, IsFiniteSet(S), NEW f, NEW g, \A x \in S : f[x] \in Int /\ g[x] = f[x]
  PROVE  SumFunctionOnSet(g, S) = SumFunctionOnSet(f, S)
<1> DEFINE G == {U \in SUBSET S : SumFunctionOnSet(g, U) = SumFunctionOnSet(f, U)}
<1>1. {} \in G
  BY SumEmpty
<1>2. \A U \in SUBSET S : \A x \in S \ U : U \in G => U \cup {x} \in G
  <2> TAKE U \in SUBSET S
  <2> TAKE x \in S \ U
  <2> HAVE U \in G
  <2>1. IsFiniteSet(U)
    BY FS_Subset
  <2>2. SumFunctionOnSet(f, U \cup {x}) = f[x] + SumFunctionOnSet(f, U)
    BY <2>1, SumOneMore
  <2>3. SumFunctionOnSet(g, U \cup {x}) = g[x] + SumFunctionOnSet(g, U)
    BY <2>1, SumOneMore
  <2> QED
    BY <2>2, <2>3
<1>3. SUBSET S \subseteq G
  <2> HIDE DEF G
  <2> QED
    BY <1>1, <1>2, SetInduction
<1> QED
  BY <1>3

\* The sum of the sums, element by element.
LEMMA SumPlus ==
  ASSUME NEW S, IsFiniteSet(S), NEW f, NEW g, NEW h,
         \A x \in S : f[x] \in Int /\ g[x] \in Int /\ h[x] = f[x] + g[x]
  PROVE  SumFunctionOnSet(h, S) = SumFunctionOnSet(f, S) + SumFunctionOnSet(g, S)
<1> DEFINE G == {U \in SUBSET S : SumFunctionOnSet(h, U)
                                    = SumFunctionOnSet(f, U) + SumFunctionOnSet(g, U)}
<1>1. {} \in G
  BY SumEmpty
<1>2. \A U \in SUBSET S : \A x \in S \ U : U \in G => U \cup {x} \in G
  <2> TAKE U \in SUBSET S
  <2> TAKE x \in S \ U
  <2> HAVE U \in G
  <2>1. IsFiniteSet(U)
    BY FS_Subset
  <2>2. \A y \in U \cup {x} : f[y] \in Int /\ g[y] \in Int /\ h[y] \in Int
    OBVIOUS
  <2>3. /\ SumFunctionOnSet(f, U \cup {x}) = f[x] + SumFunctionOnSet(f, U)
        /\ SumFunctionOnSet(g, U \cup {x}) = g[x] + SumFunctionOnSet(g, U)
        /\ SumFunctionOnSet(h, U \cup {x}) = h[x] + SumFunctionOnSet(h, U)
    BY <2>1, <2>2, SumOneMore
  <2>4. SumFunctionOnSet(f, U) \in Int /\ SumFunctionOnSet(g, U) \in Int
    BY <2>1, <2>2, SumType
  <2> QED
    BY <2>3, <2>4
<1>3. SUBSET S \subseteq G
  <2> HIDE DEF G
  <2> QED
    BY <1>1, <1>2, SetInduction
<1> QED
  BY <1>3

\* A common factor is taken out of the sum.
LEMMA SumTimes ==
  ASSUME NEW S, IsFiniteSet(S), NEW f, NEW k \in Int, NEW h,
         \A x \in S : f[x] \in Int /\ h[x] = k * f[x]
  PROVE  SumFunctionOnSet(h, S) = k * SumFunctionOnSet(f, S)
<1> DEFINE G == {U \in SUBSET S : SumFunctionOnSet(h, U) = k * SumFunctionOnSet(f, U)}
<1>1. {} \in G
  BY SumEmpty
<1>2. \A U \in SUBSET S : \A x \in S \ U : U \in G => U \cup {x} \in G
  <2> TAKE U \in SUBSET S
  <2> TAKE x \in S \ U
  <2> HAVE U \in G
  <2>1. IsFiniteSet(U)
    BY FS_Subset
  <2>2. \A y \in U \cup {x} : f[y] \in Int /\ h[y] \in Int
    OBVIOUS
  <2>3. /\ SumFunctionOnSet(f, U \cup {x}) = f[x] + SumFunctionOnSet(f, U)
        /\ SumFunctionOnSet(h, U \cup {x}) = h[x] + SumFunctionOnSet(h, U)
    BY <2>1, <2>2, SumOneMore
  <2>4. SumFunctionOnSet(f, U) \in Int
    BY <2>1, <2>2, SumType
  <2>5. h[x] = k * f[x] /\ f[x] \in Int
    OBVIOUS
  <2>6. SumFunctionOnSet(h, U \cup {x}) = k * f[x] + k * SumFunctionOnSet(f, U)
    BY <2>3, <2>5
  <2>7. k * f[x] + k * SumFunctionOnSet(f, U) = k * (f[x] + SumFunctionOnSet(f, U))
    BY <2>4, <2>5
  <2>8. SumFunctionOnSet(h, U \cup {x}) = k * SumFunctionOnSet(f, U \cup {x})
    BY <2>3, <2>6, <2>7
  <2> QED
    BY <2>8
<1>3. SUBSET S \subseteq G
  <2> HIDE DEF G
  <2> QED
    BY <1>1, <1>2, SetInduction
<1> QED
  BY <1>3

\* A sum grows with its terms.
LEMMA SumAtMost ==
  ASSUME NEW S, IsFiniteSet(S), NEW f, NEW g,
         \A x \in S : f[x] \in Int /\ g[x] \in Int /\ f[x] <= g[x]
  PROVE  SumFunctionOnSet(f, S) <= SumFunctionOnSet(g, S)
<1> DEFINE G == {U \in SUBSET S : SumFunctionOnSet(f, U) <= SumFunctionOnSet(g, U)}
<1>1. {} \in G
  BY SumEmpty
<1>2. \A U \in SUBSET S : \A x \in S \ U : U \in G => U \cup {x} \in G
  <2> TAKE U \in SUBSET S
  <2> TAKE x \in S \ U
  <2> HAVE U \in G
  <2>1. IsFiniteSet(U)
    BY FS_Subset
  <2>2. /\ SumFunctionOnSet(f, U \cup {x}) = f[x] + SumFunctionOnSet(f, U)
        /\ SumFunctionOnSet(g, U \cup {x}) = g[x] + SumFunctionOnSet(g, U)
    BY <2>1, SumOneMore
  <2>3. SumFunctionOnSet(f, U) \in Int /\ SumFunctionOnSet(g, U) \in Int
    BY <2>1, SumType
  <2> QED
    BY <2>2, <2>3
<1>3. SUBSET S \subseteq G
  <2> HIDE DEF G
  <2> QED
    BY <1>1, <1>2, SetInduction
<1> QED
  BY <1>3

\* Nothing added to nothing.
LEMMA SumOfNothing ==
  ASSUME NEW S, IsFiniteSet(S), NEW f, \A x \in S : f[x] = 0
  PROVE  SumFunctionOnSet(f, S) = 0
<1>1. SumFunctionOnSet(f, S) = 0 * SumFunctionOnSet(f, S)
  BY SumTimes
<1> QED
  BY <1>1, SumType

\* A sum of naturals is one.
LEMMA SumNat ==
  ASSUME NEW S, IsFiniteSet(S), NEW f, \A x \in S : f[x] \in Nat
  PROVE  SumFunctionOnSet(f, S) \in Nat
<1> DEFINE z == [x \in S |-> 0]
<1>1. SumFunctionOnSet(z, S) = 0
  BY SumOfNothing
<1>2. SumFunctionOnSet(z, S) <= SumFunctionOnSet(f, S)
  <2>1. \A x \in S : z[x] \in Int /\ f[x] \in Int /\ z[x] <= f[x]
    OBVIOUS
  <2> HIDE DEF z
  <2> QED
    BY <2>1, SumAtMost
<1> QED
  BY <1>1, <1>2, SumType

\* As many ones as there are elements.
LEMMA SumOfOnes ==
  ASSUME NEW S, IsFiniteSet(S), NEW f, \A x \in S : f[x] = 1
  PROVE  SumFunctionOnSet(f, S) = Cardinality(S)
<1> DEFINE G == {U \in SUBSET S : SumFunctionOnSet(f, U) = Cardinality(U)}
<1>1. {} \in G
  BY SumEmpty, FS_EmptySet
<1>2. \A U \in SUBSET S : \A x \in S \ U : U \in G => U \cup {x} \in G
  <2> TAKE U \in SUBSET S
  <2> TAKE x \in S \ U
  <2> HAVE U \in G
  <2>1. IsFiniteSet(U) /\ Cardinality(U \cup {x}) = Cardinality(U) + 1 /\ Cardinality(U) \in Nat
    BY FS_Subset, FS_AddElement, FS_CardinalityType
  <2>2. f[x] = 1 /\ \A y \in U \cup {x} : f[y] \in Int
    OBVIOUS
  <2>3. SumFunctionOnSet(f, U \cup {x}) = f[x] + SumFunctionOnSet(f, U)
    BY <2>1, <2>2, SumOneMore
  <2> QED
    BY <2>1, <2>2, <2>3
<1>3. SUBSET S \subseteq G
  <2> HIDE DEF G
  <2> QED
    BY <1>1, <1>2, SetInduction
<1> QED
  BY <1>3

\* A sum taken apart.
LEMMA SumUnion ==
  ASSUME NEW S, IsFiniteSet(S), NEW T, IsFiniteSet(T), S \cap T = {}, NEW f,
         \A x \in S \cup T : f[x] \in Int
  PROVE  SumFunctionOnSet(f, S \cup T) = SumFunctionOnSet(f, S) + SumFunctionOnSet(f, T)
<1> DEFINE G == {U \in SUBSET S : SumFunctionOnSet(f, U \cup T)
                                    = SumFunctionOnSet(f, U) + SumFunctionOnSet(f, T)}
<1>1. {} \in G
  <2>1. {} \cup T = T
    OBVIOUS
  <2>2. SumFunctionOnSet(f, T) \in Int
    BY SumType
  <2> QED
    BY <2>1, <2>2, SumEmpty
<1>2. \A U \in SUBSET S : \A x \in S \ U : U \in G => U \cup {x} \in G
  <2> TAKE U \in SUBSET S
  <2> TAKE x \in S \ U
  <2> HAVE U \in G
  <2>1. IsFiniteSet(U) /\ IsFiniteSet(U \cup T)
    BY FS_Subset, FS_Union
  <2>2. x \notin U \cup T /\ (U \cup T) \cup {x} = (U \cup {x}) \cup T
    OBVIOUS
  <2>3. \A y \in (U \cup T) \cup {x} : f[y] \in Int
    OBVIOUS
  <2>4. SumFunctionOnSet(f, (U \cup T) \cup {x}) = f[x] + SumFunctionOnSet(f, U \cup T)
    BY <2>1, <2>2, <2>3, SumOneMore
  <2>5. SumFunctionOnSet(f, U \cup {x}) = f[x] + SumFunctionOnSet(f, U)
    BY <2>1, <2>3, SumOneMore
  <2>6. SumFunctionOnSet(f, U) \in Int /\ SumFunctionOnSet(f, T) \in Int /\ f[x] \in Int
    BY <2>1, <2>3, SumType
  <2>7. SumFunctionOnSet(f, U \cup T) = SumFunctionOnSet(f, U) + SumFunctionOnSet(f, T)
    OBVIOUS
  <2>8. SumFunctionOnSet(f, (U \cup {x}) \cup T)
          = SumFunctionOnSet(f, U \cup {x}) + SumFunctionOnSet(f, T)
    <3> DEFINE a == SumFunctionOnSet(f, U)
               b == SumFunctionOnSet(f, T)
    <3>1. /\ SumFunctionOnSet(f, (U \cup {x}) \cup T) = f[x] + SumFunctionOnSet(f, U \cup T)
          /\ SumFunctionOnSet(f, U \cup T) = a + b /\ SumFunctionOnSet(f, U \cup {x}) = f[x] + a
          /\ a \in Int /\ b \in Int /\ f[x] \in Int
      BY <2>2, <2>4, <2>5, <2>6, <2>7
    <3> HIDE DEF a, b, G
    <3>2. SumFunctionOnSet(f, (U \cup {x}) \cup T) = SumFunctionOnSet(f, U \cup {x}) + b
      BY <3>1
    <3> QED
      BY <3>2 DEF b
  <2> QED
    BY <2>8
<1>3. SUBSET S \subseteq G
  <2> HIDE DEF G
  <2> QED
    BY <1>1, <1>2, SetInduction
<1> QED
  BY <1>3

\* A sum taken in two parts.
LEMMA SumApart ==
  ASSUME NEW S, IsFiniteSet(S), NEW T \in SUBSET S, NEW f, \A x \in S : f[x] \in Int
  PROVE  SumFunctionOnSet(f, S) = SumFunctionOnSet(f, T) + SumFunctionOnSet(f, S \ T)
<1>1. IsFiniteSet(T) /\ IsFiniteSet(S \ T) /\ T \cup (S \ T) = S /\ T \cap (S \ T) = {}
  BY FS_Subset, FS_Difference
<1> QED
  BY <1>1, SumUnion

\* A sum taken group by group: c[x] is the group of x.
GroupOf(S, c, r) == {x \in S : c[x] = r}

\* The sums of the groups add up to the sum over all of them.
LEMMA SumByGroup ==
  ASSUME NEW S, IsFiniteSet(S), NEW f, \A x \in S : f[x] \in Int,
         NEW R, IsFiniteSet(R), NEW c, \A x \in S : c[x] \in R,
         NEW h, \A r \in R : h[r] = SumFunctionOnSet(f, GroupOf(S, c, r))
  PROVE  SumFunctionOnSet(h, R) = SumFunctionOnSet(f, S)
<1> USE DEF GroupOf
<1> DEFINE In(Q) == {x \in S : c[x] \in Q}
           G == {Q \in SUBSET R : SumFunctionOnSet(h, Q) = SumFunctionOnSet(f, In(Q))}
<1>1. {} \in G
  <2>1. In({}) = {}
    OBVIOUS
  <2> QED
    BY <2>1, SumEmpty
<1>2. \A Q \in SUBSET R : \A r \in R \ Q : Q \in G => Q \cup {r} \in G
  <2> TAKE Q \in SUBSET R
  <2> TAKE r \in R \ Q
  <2> HAVE Q \in G
  <2> DEFINE One == {x \in S : c[x] = r}
  <2>1. /\ In(Q \cup {r}) = One \cup In(Q) /\ One \cap In(Q) = {}
        /\ IsFiniteSet(One) /\ IsFiniteSet(In(Q)) /\ One \subseteq S /\ In(Q) \subseteq S
    BY FS_Subset
  <2>2. SumFunctionOnSet(f, One \cup In(Q)) = SumFunctionOnSet(f, One) + SumFunctionOnSet(f, In(Q))
    <3> HIDE DEF One, In
    <3> QED
      BY <2>1, SumUnion
  <2>3. IsFiniteSet(Q) /\ \A q \in Q \cup {r} : h[q] \in Int
    <3>1. IsFiniteSet(Q)
      BY FS_Subset
    <3>2. \A q \in R : h[q] \in Int
      <4> TAKE q \in R
      <4>1. IsFiniteSet({x \in S : c[x] = q})
        BY FS_Subset
      <4> QED
        BY <4>1, SumType
    <3> QED
      BY <3>1, <3>2
  <2>4. SumFunctionOnSet(h, Q \cup {r}) = h[r] + SumFunctionOnSet(h, Q)
    BY <2>3, SumOneMore
  <2>5. SumFunctionOnSet(h, Q) = SumFunctionOnSet(f, In(Q)) /\ h[r] = SumFunctionOnSet(f, One)
    OBVIOUS
  <2>6. SumFunctionOnSet(h, Q \cup {r}) = SumFunctionOnSet(f, In(Q \cup {r}))
    <3> HIDE DEF One, In, G
    <3> QED
      BY <2>1, <2>2, <2>4, <2>5
  <2> QED
    BY <2>6
<1>3. SUBSET R \subseteq G
  <2> HIDE DEF G
  <2> QED
    BY <1>1, <1>2, SetInduction
<1>4. In(R) = S
  OBVIOUS
<1>5. SumFunctionOnSet(h, R) = SumFunctionOnSet(f, In(R))
  BY <1>3
<1> QED
  BY <1>4, <1>5
=============================================================================
