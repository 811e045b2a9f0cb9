------------------------ MODULE OrderCreation_proofs ------------------------
(***************************************************************************)
(* Proofs about OrderCreation, for every set of requests, numbers and      *)
(* baskets, and every unit and width of the columns.                       *)
(***************************************************************************)
EXTENDS OrderCreation, FiniteSetTheorems, WellFoundedInduction, TLAPS

-----------------------------------------------------------------------------
(* Induction.                                                              *)

\* A set of naturals has a least one.
LEMMA LeastNatural ==
  ASSUME NEW T \in SUBSET Nat, T # {}
  PROVE  \E m \in T : \A n \in T : m <= n
<1> DEFINE R == OpToRel(<, Nat)
<1>1. IsWellFoundedOn(R, Nat)
  BY NatLessThanWellFounded
<1>2. \A x, y \in T : y < x => <<y, x>> \in R
  BY DEF OpToRel
<1>3. PICK x \in T : \A y \in T : <<y, x>> \notin R
  <2> HIDE DEF R
  <2> QED
    BY <1>1, WFMin
<1>4. \A y \in T : ~(y < x)
  <2> HIDE DEF R
  <2> QED
    BY <1>2, <1>3, Zenon
<1> QED
  BY <1>4

\* Induction, as a fact about sets.
LEMMA InductiveSet ==
  ASSUME NEW S \in SUBSET Nat, 0 \in S, \A n \in S : n + 1 \in S
  PROVE  S = Nat
<1> DEFINE T == Nat \ S
<1> SUFFICES ASSUME T # {} PROVE FALSE
  OBVIOUS
<1>1. PICK m \in T : \A n \in T : m <= n
  <2>1. T \in SUBSET Nat
    OBVIOUS
  <2> HIDE DEF T
  <2> QED
    BY <2>1, LeastNatural
<1>2. m - 1 \in S
  BY <1>1
<1> QED
  BY <1>1, <1>2

-----------------------------------------------------------------------------
(* Sums over sequences.  term[i] is what is added at i.                     *)

PrefixSums(n, term, f) == f = [i \in 0..n |-> IF i = 0 THEN 0 ELSE f[i - 1] + term[i]]

\* The recursive definition of a sum has a solution.
LEMMA PrefixSumsExist ==
  ASSUME NEW n \in Nat, NEW term \in [1..n -> Int]
  PROVE  \E f \in [0..n -> Int] : PrefixSums(n, term, f)
<1> DEFINE S == {k \in Nat : k <= n => \E f \in [0..k -> Int] : PrefixSums(k, term, f)}
<1>1. 0 \in S
  <2>1. [i \in 0..0 |-> 0] \in [0..0 -> Int] /\ PrefixSums(0, term, [i \in 0..0 |-> 0])
    BY DEF PrefixSums
  <2> QED
    BY <2>1
<1>2. ASSUME NEW k \in S PROVE k + 1 \in S
  <2> SUFFICES ASSUME k + 1 <= n
               PROVE  \E f \in [0..(k + 1) -> Int] : PrefixSums(k + 1, term, f)
    OBVIOUS
  <2>1. PICK f \in [0..k -> Int] : PrefixSums(k, term, f)
    OBVIOUS
  <2> DEFINE g == [i \in 0..(k + 1) |-> IF i = k + 1 THEN f[k] + term[k + 1] ELSE f[i]]
  <2>2. g \in [0..(k + 1) -> Int]
    OBVIOUS
  <2>3. \A i \in 0..k : f[i] = IF i = 0 THEN 0 ELSE f[i - 1] + term[i]
    BY <2>1 DEF PrefixSums
  <2>4. ASSUME NEW i \in 0..(k + 1) PROVE g[i] = IF i = 0 THEN 0 ELSE g[i - 1] + term[i]
    <3>1. CASE i = k + 1
      BY <3>1
    <3>2. CASE i \in 0..k
      BY <3>2, <2>3
    <3> QED
      BY <3>1, <3>2
  <2>5. PrefixSums(k + 1, term, g)
    <3> HIDE DEF g
    <3> DEFINE h == [i \in 0..(k + 1) |-> IF i = 0 THEN 0 ELSE g[i - 1] + term[i]]
    <3>1. \A i \in 0..(k + 1) : g[i] = h[i]
      BY <2>4
    <3> QED
      BY <2>2, <3>1 DEF PrefixSums
  <2> QED
    BY <2>2, <2>5
<1>3. S = Nat
  <2>1. S \in SUBSET Nat
    OBVIOUS
  <2> HIDE DEF S
  <2> QED
    BY <1>1, <1>2, <2>1, InductiveSet
<1> QED
  BY <1>3

\* Whatever solves it sums integers up to an integer.
LEMMA PrefixSumsTyping ==
  ASSUME NEW n \in Nat, NEW term \in [1..n -> Int], NEW f, PrefixSums(n, term, f)
  PROVE  /\ f \in [0..n -> Int] /\ f[0] = 0
         /\ \A i \in 1..n : f[i] = f[i - 1] + term[i]
<1>1. \A i \in 0..n : f[i] = IF i = 0 THEN 0 ELSE f[i - 1] + term[i]
  BY DEF PrefixSums
<1>2. f = [i \in 0..n |-> f[i]]
  BY DEF PrefixSums
<1> DEFINE S == {k \in Nat : k <= n => f[k] \in Int}
<1>3. 0 \in S
  BY <1>1
<1>4. ASSUME NEW k \in S PROVE k + 1 \in S
  BY <1>1
<1>5. S = Nat
  <2>1. S \in SUBSET Nat
    OBVIOUS
  <2> HIDE DEF S
  <2> QED
    BY <1>3, <1>4, <2>1, InductiveSet
<1>6. \A k \in 0..n : f[k] \in Int
  BY <1>5
<1>7. f \in [0..n -> Int]
  BY <1>2, <1>6
<1>8. f[0] = 0
  BY <1>1
<1>9. \A i \in 1..n : f[i] = f[i - 1] + term[i]
  BY <1>1
<1> QED
  BY <1>7, <1>8, <1>9

-----------------------------------------------------------------------------
(* Sums over finite sets.  pick[s] is the element of s that is added first. *)

SetSum(S, weight, pick, f) ==
  f = [s \in SUBSET S |-> IF s = {} THEN 0 ELSE weight[pick[s]] + f[s \ {pick[s]}]]

\* The subsets of a finite set with at most n elements.
UpTo(S, n) == {s \in SUBSET S : Cardinality(s) <= n}

\* A subset of a finite set is finite, and loses one with each element.
LEMMA SubsetsCounted ==
  ASSUME NEW S, IsFiniteSet(S), NEW s \in SUBSET S
  PROVE  /\ IsFiniteSet(s) /\ Cardinality(s) \in Nat /\ Cardinality(s) <= Cardinality(S)
         /\ Cardinality(s) = 0 <=> s = {}
         /\ \A x \in s : Cardinality(s \ {x}) = Cardinality(s) - 1
<1>1. IsFiniteSet(s) /\ Cardinality(s) <= Cardinality(S)
  BY FS_Subset
<1>2. Cardinality(s) \in Nat
  BY <1>1, FS_CardinalityType
<1>3. Cardinality(s) = 0 <=> s = {}
  BY <1>1, FS_EmptySet
<1>4. \A x \in s : Cardinality(s \ {x}) = Cardinality(s) - 1
  BY <1>1, FS_RemoveElement
<1> QED
  BY <1>1, <1>2, <1>3, <1>4

\* The recursive definition of a sum over a finite set has a solution.
LEMMA SetSumExists ==
  ASSUME NEW S, IsFiniteSet(S), NEW weight \in [S -> Int], NEW pick,
         \A s \in SUBSET S : s # {} => pick[s] \in s
  PROVE  \E f \in [SUBSET S -> Int] : SetSum(S, weight, pick, f)
<1> DEFINE Sums(n, f) == \A s \in UpTo(S, n) :
             f[s] = IF s = {} THEN 0 ELSE weight[pick[s]] + f[s \ {pick[s]}]
           N == {n \in Nat : \E f \in [UpTo(S, n) -> Int] : Sums(n, f)}
<1>1. 0 \in N
  <2> DEFINE f == [s \in UpTo(S, 0) |-> 0]
  <2>1. \A s \in UpTo(S, 0) : s = {}
    BY SubsetsCounted DEF UpTo
  <2>2. f \in [UpTo(S, 0) -> Int] /\ Sums(0, f)
    BY <2>1
  <2> QED
    BY <2>2
<1>2. ASSUME NEW n \in N PROVE n + 1 \in N
  <2>1. PICK f \in [UpTo(S, n) -> Int] : Sums(n, f)
    OBVIOUS
  <2> DEFINE g == [s \in UpTo(S, n + 1) |->
                     IF s = {} THEN 0 ELSE weight[pick[s]] + f[s \ {pick[s]}]]
  <2>2. ASSUME NEW s \in UpTo(S, n + 1), s # {}
        PROVE  pick[s] \in S /\ s \ {pick[s]} \in UpTo(S, n) /\ s \ {pick[s]} \in UpTo(S, n + 1)
    <3>1. s \in SUBSET S /\ pick[s] \in s /\ Cardinality(s) <= n + 1 /\ Cardinality(s) \in Nat
      BY <2>2, SubsetsCounted DEF UpTo
    <3>2. Cardinality(s \ {pick[s]}) = Cardinality(s) - 1
      BY <3>1, SubsetsCounted
    <3> QED
      BY <3>1, <3>2 DEF UpTo
  <2>3. g \in [UpTo(S, n + 1) -> Int]
    <3>1. \A s \in UpTo(S, n + 1) : s # {} => weight[pick[s]] \in Int /\ f[s \ {pick[s]}] \in Int
      BY <2>1, <2>2
    <3> DEFINE v(s) == IF s = {} THEN 0 ELSE weight[pick[s]] + f[s \ {pick[s]}]
    <3>2. ASSUME NEW s \in UpTo(S, n + 1) PROVE v(s) \in Int
      <4>1. CASE s = {}
        BY <4>1
      <4>2. CASE s # {}
        <5>1. weight[pick[s]] \in Int /\ f[s \ {pick[s]}] \in Int
          BY <3>1, <4>2
        <5>2. v(s) = weight[pick[s]] + f[s \ {pick[s]}]
          BY <4>2
        <5> HIDE DEF v
        <5> QED
          BY <5>1, <5>2
      <4> QED
        BY <4>1, <4>2
    <3>3. g = [s \in UpTo(S, n + 1) |-> v(s)]
      OBVIOUS
    <3> HIDE DEF g, v
    <3> QED
      BY <3>2, <3>3
  <2>4. \A s \in UpTo(S, n) : s \in UpTo(S, n + 1) /\ g[s] = f[s]
    <3>1. \A s \in UpTo(S, n) : s \in UpTo(S, n + 1)
      BY SubsetsCounted DEF UpTo
    <3> QED
      BY <2>1, <3>1
  <2>5. Sums(n + 1, g)
    <3> SUFFICES ASSUME NEW s \in UpTo(S, n + 1)
                 PROVE  g[s] = IF s = {} THEN 0 ELSE weight[pick[s]] + g[s \ {pick[s]}]
      OBVIOUS
    <3>1. g[s] = IF s = {} THEN 0 ELSE weight[pick[s]] + f[s \ {pick[s]}]
      OBVIOUS
    <3> HIDE DEF g
    <3> QED
      BY <2>2, <2>4, <3>1
  <2>6. \E h \in [UpTo(S, n + 1) -> Int] : Sums(n + 1, h)
    <3> HIDE DEF g, Sums
    <3> QED
      BY <2>3, <2>5
  <2>7. n + 1 \in Nat
    OBVIOUS
  <2> HIDE DEF Sums
  <2> QED
    BY <2>6, <2>7
<1>3. N = Nat
  <2>1. N \in SUBSET Nat
    OBVIOUS
  <2> HIDE DEF N
  <2> QED
    BY <1>1, <1>2, <2>1, InductiveSet
<1>4. Cardinality(S) \in N /\ UpTo(S, Cardinality(S)) = SUBSET S
  <2>1. Cardinality(S) \in Nat
    BY FS_CardinalityType
  <2>2. UpTo(S, Cardinality(S)) = SUBSET S
    BY SubsetsCounted DEF UpTo
  <2> HIDE DEF N
  <2> QED
    BY <1>3, <2>1, <2>2
<1>5. PICK f \in [SUBSET S -> Int] :
        \A s \in SUBSET S : f[s] = IF s = {} THEN 0 ELSE weight[pick[s]] + f[s \ {pick[s]}]
  BY <1>4
<1>6. SetSum(S, weight, pick, f)
  <2> DEFINE h == [s \in SUBSET S |-> IF s = {} THEN 0 ELSE weight[pick[s]] + f[s \ {pick[s]}]]
  <2>1. \A s \in SUBSET S : f[s] = h[s]
    BY <1>5
  <2>2. f = [s \in SUBSET S |-> f[s]] /\ h = [s \in SUBSET S |-> h[s]]
    OBVIOUS
  <2> QED
    BY <2>1, <2>2 DEF SetSum
<1> QED
  BY <1>6

\* Whatever solves it does not depend on the order: any element may be taken
\* out first.
LEMMA SetSumRemoves ==
  ASSUME NEW S, IsFiniteSet(S), NEW weight \in [S -> Int], NEW pick,
         \A s \in SUBSET S : s # {} => pick[s] \in s,
         NEW f, SetSum(S, weight, pick, f)
  PROVE  /\ f[{}] = 0
         /\ \A s \in SUBSET S : f[s] \in Int
         /\ \A s \in SUBSET S : \A x \in s : f[s] = weight[x] + f[s \ {x}]
<1>1. \A s \in SUBSET S : f[s] = IF s = {} THEN 0 ELSE weight[pick[s]] + f[s \ {pick[s]}]
  BY DEF SetSum
<1> DEFINE N == {n \in Nat : \A s \in UpTo(S, n) :
                   f[s] \in Int /\ \A x \in s : f[s] = weight[x] + f[s \ {x}]}
<1>2. 0 \in N
  <2>1. \A s \in UpTo(S, 0) : s = {} /\ s \in SUBSET S
    BY SubsetsCounted DEF UpTo
  <2> QED
    BY <1>1, <2>1
<1>3. ASSUME NEW n \in N PROVE n + 1 \in N
  <2> SUFFICES ASSUME NEW s \in UpTo(S, n + 1), s # {}
               PROVE  f[s] \in Int /\ \A x \in s : f[s] = weight[x] + f[s \ {x}]
    BY <1>1, SubsetsCounted DEF UpTo
  <2> DEFINE y == pick[s]
  <2>1. s \in SUBSET S /\ y \in s /\ y \in S /\ f[s] = weight[y] + f[s \ {y}]
    BY <1>1 DEF UpTo
  <2>2. \A x \in s : x \in S /\ weight[x] \in Int /\ s \ {x} \in UpTo(S, n)
    BY <2>1, SubsetsCounted DEF UpTo
  <2>3. \A x \in s : f[s \ {x}] \in Int
    BY <2>2
  <2> HIDE DEF y
  <2>4. ASSUME NEW x \in s PROVE f[s] = weight[x] + f[s \ {x}]
    <3>1. CASE x = y
      BY <2>1, <3>1
    <3>2. CASE x # y
      <4>1. x \in s \ {y} /\ y \in s \ {x} /\ (s \ {y}) \ {x} = (s \ {x}) \ {y}
        BY <2>1, <3>2
      <4>2. f[s \ {y}] = weight[x] + f[(s \ {y}) \ {x}]
        BY <2>1, <2>2, <4>1
      <4>3. f[s \ {x}] = weight[y] + f[(s \ {x}) \ {y}]
        BY <2>1, <2>2, <4>1
      <4>4. f[(s \ {x}) \ {y}] \in Int
        <5>1. (s \ {x}) \ {y} \in UpTo(S, n)
          <6>1. s \ {x} \in SUBSET S /\ Cardinality(s \ {x}) <= n
            BY <2>2 DEF UpTo
          <6>2. /\ Cardinality((s \ {x}) \ {y}) = Cardinality(s \ {x}) - 1
                /\ Cardinality(s \ {x}) \in Nat
            BY <4>1, <6>1, SubsetsCounted
          <6> QED
            BY <6>1, <6>2 DEF UpTo
        <5> QED
          BY <5>1
      <4> QED
        BY <2>1, <2>2, <2>3, <4>1, <4>2, <4>3, <4>4
    <3> QED
      BY <3>1, <3>2
  <2>5. f[s] \in Int
    BY <2>1, <2>2, <2>3
  <2> QED
    BY <2>4, <2>5
<1>4. N = Nat
  <2>1. N \in SUBSET Nat
    OBVIOUS
  <2> HIDE DEF N
  <2> QED
    BY <1>2, <1>3, <2>1, InductiveSet
<1>5. UpTo(S, Cardinality(S)) = SUBSET S /\ Cardinality(S) \in Nat
  BY SubsetsCounted, FS_CardinalityType DEF UpTo
<1>6. \A s \in SUBSET S : f[s] \in Int /\ \A x \in s : f[s] = weight[x] + f[s \ {x}]
  BY <1>4, <1>5
<1> QED
  BY <1>1, <1>6

-----------------------------------------------------------------------------
(* Arithmetic.                                                             *)

\* A column is half of its last digit away from the exact number, at most.
LEMMA RoundedNear ==
  ASSUME NEW x \in Int, NEW unit \in Nat \ {0}
  PROVE  /\ Rounded(x, unit) \in Int
         /\ 2 * (Rounded(x, unit) * unit) <= 2 * x + unit
         /\ 2 * (Rounded(x, unit) * unit) >= 2 * x - unit
<1> DEFINE up   == (2 * x + unit) \div (2 * unit)
           down == (unit - 2 * x) \div (2 * unit)
<1>1. /\ up \in Int /\ down \in Int
      /\ (2 * unit) * up <= 2 * x + unit /\ 2 * x + unit < (2 * unit) * up + 2 * unit
      /\ (2 * unit) * down <= unit - 2 * x /\ unit - 2 * x < (2 * unit) * down + 2 * unit
  OBVIOUS
<1>2. (2 * unit) * up = 2 * (up * unit) /\ (2 * unit) * down = 2 * (down * unit)
  BY <1>1
<1>3. (-down) * unit = -(down * unit)
  BY <1>1
<1>4. up * unit \in Int /\ down * unit \in Int
  BY <1>1
<1> HIDE DEF up, down
<1>5. CASE x >= 0
  <2>1. Rounded(x, unit) = up
    BY <1>5 DEF Rounded, up
  <2> QED
    BY <2>1, <1>1, <1>2, <1>4
<1>6. CASE ~(x >= 0)
  <2>1. Rounded(x, unit) = -down
    BY <1>6 DEF Rounded, down
  <2> QED
    BY <2>1, <1>1, <1>2, <1>3, <1>4
<1> QED
  BY <1>5, <1>6

\* Three columns rounded one by one tally to a unit, and a total that is not
\* negative leaves no other column negative.
LEMMA TotalsTally ==
  ASSUME NEW s \in Int, NEW unit \in Nat \ {0},
         NEW a \in Int, NEW b \in Int, NEW t \in Int,
         a = Rounded(100 * s, unit), b = Rounded(19 * s, unit), t = Rounded(119 * s, unit),
         t >= 0
  PROVE  a + b - t \in {-1, 0, 1} /\ a >= 0 /\ b >= 0
<1> DEFINE au == a * unit
           bu == b * unit
           tu == t * unit
           e  == a + b - t
<1>1. /\ 2 * au <= 200 * s + unit /\ 2 * au >= 200 * s - unit
      /\ 2 * bu <= 38 * s + unit /\ 2 * bu >= 38 * s - unit
      /\ 2 * tu <= 238 * s + unit /\ 2 * tu >= 238 * s - unit
  <2>1. 100 * s \in Int /\ 19 * s \in Int /\ 119 * s \in Int
    OBVIOUS
  <2>2. 2 * au <= 2 * (100 * s) + unit /\ 2 * au >= 2 * (100 * s) - unit
    BY <2>1, RoundedNear
  <2>3. 2 * bu <= 2 * (19 * s) + unit /\ 2 * bu >= 2 * (19 * s) - unit
    BY <2>1, RoundedNear
  <2>4. 2 * tu <= 2 * (119 * s) + unit /\ 2 * tu >= 2 * (119 * s) - unit
    BY <2>1, RoundedNear
  <2> QED
    BY <2>2, <2>3, <2>4
<1>2. au \in Int /\ bu \in Int /\ tu \in Int /\ e \in Int /\ e * unit = au + bu - tu
  OBVIOUS
<1>3. \A k \in Int : k <= -1 => k * unit <= -unit
  OBVIOUS
<1>4. \A k \in Int : k >= 2 => k * unit >= 2 * unit
  OBVIOUS
<1>5. \A k \in Int : k <= -2 => k * unit <= -(2 * unit)
  OBVIOUS
<1>6. tu >= 0
  OBVIOUS
<1>7. a >= 0
  <2>1. a <= -1 => au <= -unit
    BY <1>3
  <2> HIDE DEF au, bu, tu
  <2> QED
    BY <2>1, <1>1, <1>2, <1>6
<1>8. b >= 0
  <2>1. b <= -1 => bu <= -unit
    BY <1>3
  <2> HIDE DEF au, bu, tu
  <2> QED
    BY <2>1, <1>1, <1>2, <1>6
<1>9. e <= 1 /\ e >= -1
  <2>1. e >= 2 => au + bu - tu >= 2 * unit
    BY <1>2, <1>4
  <2>2. e <= -2 => au + bu - tu <= -(2 * unit)
    BY <1>2, <1>5
  <2> HIDE DEF au, bu, tu, e
  <2> QED
    BY <2>1, <2>2, <1>1, <1>2
<1> QED
  BY <1>7, <1>8, <1>9

-----------------------------------------------------------------------------
(* Rows.                                                                   *)

\* None stands for nothing a variable could otherwise hold.
LEMMA NoneIsNothing ==
  None \notin OrderRow /\ None \notin PONumber /\ None \notin Basket /\ None \notin Body
BY OrderCreationAssumption

\* Whole numbers of steps make a cent.
LEMMA CentTyping == Cent \in Nat \ {0} /\ 100 * Cent \in Nat \ {0}
<1>1. QuantityUnit \in Nat \ {0} /\ PriceUnit \in Nat \ {0}
  BY OrderCreationAssumption
<1>2. 1000 * QuantityUnit \in Nat \ {0}
  BY <1>1
<1>3. \A m, n \in Nat \ {0} : m * n \in Nat \ {0}
  OBVIOUS
<1>4. Cent \in Nat \ {0}
  BY <1>1, <1>2, <1>3 DEF Cent
<1> QED
  BY <1>4

\* A row whose columns fit is an order row with a total that is not negative.
LEMMA OrderRowTyping ==
  ASSUME NEW n \in PONumber, NEW b \in Basket, OrderFits(OrderRowOf(n, b))
  PROVE  /\ OrderRowOf(n, b) \in OrderRow
         /\ OrderRowOf(n, b).number = n
         /\ OrderRowOf(n, b).total >= 0
BY DEF OrderRowOf, OrderFits, OrderRow

\* What each line adds to the exact subtotal.
Products(b) == [i \in 1..Len(b) |-> b[i].quantity * b[i].price]

\* A basket has a length, and products that are integers.
LEMMA ProductsTyping ==
  ASSUME NEW b \in Basket
  PROVE  Len(b) \in Nat /\ DOMAIN b = 1..Len(b) /\ Products(b) \in [1..Len(b) -> Int]
<1>1. Len(b) \in Nat /\ DOMAIN b = 1..Len(b) /\ \A i \in 1..Len(b) : b[i] \in Line
  BY OrderCreationAssumption
<1>2. \A i \in 1..Len(b) : b[i].quantity * b[i].price \in Int
  BY <1>1 DEF Line
<1> QED
  BY <1>1, <1>2 DEF Products

\* Subtotal is a sum of products.
LEMMA SubtotalSums ==
  ASSUME NEW b \in Basket
  PROVE  \E f : PrefixSums(Len(b), Products(b), f) /\ Subtotal(b) = f[Len(b)]
<1> DEFINE solves(g) == g = [i \in 0..Len(b) |->
               IF i = 0 THEN 0 ELSE g[i - 1] + b[i].quantity * b[i].price]
           sum == CHOOSE g : solves(g)
<1>1. \A g : solves(g) <=> PrefixSums(Len(b), Products(b), g)
  <2> SUFFICES ASSUME NEW g
               PROVE  [i \in 0..Len(b) |-> IF i = 0 THEN 0 ELSE g[i - 1] + b[i].quantity * b[i].price]
                    = [i \in 0..Len(b) |-> IF i = 0 THEN 0 ELSE g[i - 1] + Products(b)[i]]
    BY DEF PrefixSums
  <2>1. Len(b) \in Nat
    BY ProductsTyping
  <2>2. \A i \in 0..Len(b) : i # 0 => Products(b)[i] = b[i].quantity * b[i].price
    BY <2>1 DEF Products
  <2> QED
    BY <2>2
<1>2. \E g : solves(g)
  BY <1>1, ProductsTyping, PrefixSumsExist
<1>3. Subtotal(b) = sum[Len(b)]
  BY DEF Subtotal
<1> HIDE DEF solves
<1>4. solves(sum)
  BY <1>2, Zenon
<1> QED
  BY <1>1, <1>3, <1>4

\* A subtotal is an integer.
LEMMA SubtotalTyping ==
  ASSUME NEW b \in Basket
  PROVE  Subtotal(b) \in Int
<1>1. Len(b) \in Nat /\ Products(b) \in [1..Len(b) -> Int]
  BY ProductsTyping
<1>2. PICK f : PrefixSums(Len(b), Products(b), f) /\ Subtotal(b) = f[Len(b)]
  BY SubtotalSums
<1>3. f \in [0..Len(b) -> Int]
  BY <1>1, <1>2, PrefixSumsTyping
<1> QED
  BY <1>1, <1>2, <1>3

\* The amounts of an order row tally.
LEMMA RowTallies ==
  ASSUME NEW n \in PONumber, NEW b \in Basket, OrderRowOf(n, b).total >= 0
  PROVE  LET row == OrderRowOf(n, b) IN
         row.subtotal + row.tax - row.total \in {-1, 0, 1} /\ row.subtotal >= 0 /\ row.tax >= 0
<1> DEFINE s == Subtotal(b)
           a == Rounded(100 * s, 100 * Cent)
           t == Rounded(19 * s, 100 * Cent)
           z == Rounded(119 * s, 100 * Cent)
<1>1. s \in Int
  BY SubtotalTyping
<1>2. a \in Int /\ t \in Int /\ z \in Int
  <2>1. 100 * s \in Int /\ 19 * s \in Int /\ 119 * s \in Int
    BY <1>1
  <2> HIDE DEF s
  <2> QED
    BY <2>1, CentTyping, RoundedNear
<1>3. OrderRowOf(n, b).subtotal = a /\ OrderRowOf(n, b).tax = t /\ OrderRowOf(n, b).total = z
  BY DEF OrderRowOf, Totals
<1>4. z >= 0
  BY <1>3
<1> HIDE DEF s, a, t, z
<1>5. a + t - z \in {-1, 0, 1} /\ a >= 0 /\ t >= 0
  BY <1>1, <1>2, <1>4, CentTyping, TotalsTally DEF a, t, z
<1> QED
  BY <1>3, <1>5

\* The elements of a basket are lines.
LEMMA BasketTyping ==
  ASSUME NEW b \in Basket, NEW i \in DOMAIN b
  PROVE  b[i] \in Line
BY OrderCreationAssumption

\* The lines that are shown have the shape of lines that are shown.
LEMMA PrintedTyping ==
  ASSUME NEW b \in Basket
  PROVE  PrintedLines(b) \in SUBSET Printed
<1> SUFFICES ASSUME NEW i \in DOMAIN b
             PROVE  [number |-> b[i].number, quantity |-> b[i].quantity, price |-> b[i].price,
                     total |-> b[i].quantity * b[i].price] \in Printed
  BY DEF PrintedLines
<1> QED
  BY BasketTyping DEF Line, Printed

\* Rounding what is shown gives the rows.
LEMMA PrintedLinesRound ==
  ASSUME NEW b \in Basket
  PROVE  LineRowsOf(b) = {LineRowOf(l) : l \in PrintedLines(b)}
<1> DEFINE shown(i) == [number |-> b[i].number, quantity |-> b[i].quantity,
                        price |-> b[i].price, total |-> b[i].quantity * b[i].price]
<1>1. \A i \in DOMAIN b : LineRowOf(shown(i)) = LineRowOf(b[i])
  BY DEF LineRowOf
<1>2. PrintedLines(b) = {shown(i) : i \in DOMAIN b}
  BY DEF PrintedLines
<1> HIDE DEF shown
<1> QED
  BY <1>1, <1>2 DEF LineRowsOf

-----------------------------------------------------------------------------
(* Lines and subtotal.                                                     *)

\* What CHOOSE takes out of a set of lines, and what it adds.
FirstOf(S) == [s \in SUBSET S |-> CHOOSE x \in s : TRUE]
TotalOf(S) == [l \in S |-> l.total]

\* MapThenSumSet sums a set of lines.
LEMMA LineTotalsSum ==
  ASSUME NEW S, IsFiniteSet(S), TotalOf(S) \in [S -> Int]
  PROVE  \E f : /\ SetSum(S, TotalOf(S), FirstOf(S), f)
                /\ MapThenSumSet(LAMBDA l : l.total, S) = f[S]
<1> DEFINE first(s) == CHOOSE x \in s : TRUE
           solves(g) == g = [s \in SUBSET S |->
               IF s = {} THEN 0 ELSE first(s).total + g[s \ {first(s)}]]
           iter == CHOOSE g : solves(g)
<1>1. MapThenSumSet(LAMBDA l : l.total, S) = iter[S]
  BY DEF MapThenSumSet, MapThenFoldSet
<1>2. \A s \in SUBSET S : FirstOf(S)[s] = first(s)
  BY DEF FirstOf
<1>3. \A s \in SUBSET S : s # {} => first(s) \in s /\ TotalOf(S)[first(s)] = first(s).total
  BY DEF TotalOf
<1> HIDE DEF first
<1>4. \A g : solves(g) <=> SetSum(S, TotalOf(S), FirstOf(S), g)
  BY <1>2, <1>3 DEF SetSum
<1>5. \E g : solves(g)
  <2> HIDE DEF solves
  <2>1. \A s \in SUBSET S : s # {} => FirstOf(S)[s] \in s
    BY <1>2, <1>3
  <2>2. \E f \in [SUBSET S -> Int] : SetSum(S, TotalOf(S), FirstOf(S), f)
    BY <2>1, SetSumExists
  <2> QED
    BY <1>4, <2>2
<1>6. solves(iter)
  <2> HIDE DEF solves
  <2> QED
    BY <1>5, Zenon
<1> HIDE DEF solves, iter
<1> QED
  BY <1>1, <1>4, <1>6

\* As many lines as the basket has, and what their rounded totals add up to:
\* half a cent for each line from the exact subtotal.
LEMMA LinesNearSubtotal ==
  ASSUME NEW b \in Basket, LinesFit(b)
  PROVE  /\ IsFiniteSet(LineRowsOf(b)) /\ Cardinality(LineRowsOf(b)) = Len(b)
         /\ MapThenSumSet(LAMBDA l : l.total, LineRowsOf(b)) \in Int
         /\ 2 * (MapThenSumSet(LAMBDA l : l.total, LineRowsOf(b)) * Cent)
              \in (2 * Subtotal(b) - Len(b) * Cent)..(2 * Subtotal(b) + Len(b) * Cent)
<1> DEFINE S == LineRowsOf(b)
           row(i) == LineRowOf(b[i])
           prefix(k) == {row(i) : i \in 1..k}
<1>1. Len(b) \in Nat /\ DOMAIN b = 1..Len(b) /\ Products(b) \in [1..Len(b) -> Int]
  BY ProductsTyping
<1> DEFINE n == Len(b)
<1>20. n \in Nat
  BY <1>1
<1> HIDE DEF n
<1>21. \A k \in Nat : k + 1 <= n => k \in 0..n /\ k # n /\ k + 1 \in 1..n /\ k + 1 - 1 = k
  BY <1>20
<1>2. \A i \in 1..Len(b) : row(i) \in LineRow /\ row(i) \in S
  BY <1>1 DEF LinesFit, LineRowsOf
<1>3. \A i, j \in 1..Len(b) : i # j => row(i) # row(j)
  <2>1. \A i \in 1..Len(b) : row(i).number = b[i].number
    BY DEF LineRowOf
  <2> HIDE DEF row
  <2> QED
    BY <1>1, <2>1 DEF LinesFit
<1>4. S = prefix(Len(b)) /\ \A k \in 0..Len(b) : prefix(k) \in SUBSET S
  BY <1>1 DEF LineRowsOf
<1>5. prefix(0) = {}
  BY <1>1
<1>6. \A k \in 0..Len(b) : k # Len(b) =>
        /\ row(k + 1) \in S /\ row(k + 1) \notin prefix(k)
        /\ prefix(k + 1) = prefix(k) \cup {row(k + 1)}
        /\ prefix(k + 1) \ {row(k + 1)} = prefix(k)
  <2> SUFFICES ASSUME NEW k \in 0..Len(b), k # Len(b)
               PROVE  /\ row(k + 1) \in S /\ row(k + 1) \notin prefix(k)
                      /\ prefix(k + 1) = prefix(k) \cup {row(k + 1)}
    OBVIOUS
  <2>1. k + 1 \in 1..Len(b) /\ \A i \in 1..k : i \in 1..Len(b) /\ i # k + 1
    BY <1>20 DEF n
  <2>2. 1..(k + 1) = 1..k \cup {k + 1}
    OBVIOUS
  <2> HIDE DEF row
  <2> QED
    BY <1>2, <1>3, <2>1, <2>2
<1> HIDE DEF prefix, row
<1>7. \A k \in 0..Len(b) : IsFiniteSet(prefix(k)) /\ Cardinality(prefix(k)) = k
  <2> DEFINE N == {k \in Nat : k <= Len(b) =>
                     IsFiniteSet(prefix(k)) /\ Cardinality(prefix(k)) = k}
  <2>1. 0 \in N
    BY <1>5, FS_EmptySet
  <2>2. ASSUME NEW k \in N PROVE k + 1 \in N
    <3> SUFFICES ASSUME k + 1 <= Len(b)
                 PROVE  IsFiniteSet(prefix(k + 1)) /\ Cardinality(prefix(k + 1)) = k + 1
      OBVIOUS
    <3>1. IsFiniteSet(prefix(k)) /\ Cardinality(prefix(k)) = k /\ k \in 0..Len(b) /\ k # Len(b)
      BY <1>21 DEF n
    <3> QED
      BY <1>6, <3>1, FS_AddElement
  <2>3. N = Nat
    <3>1. N \in SUBSET Nat
      OBVIOUS
    <3> HIDE DEF N
    <3> QED
      BY <2>1, <2>2, <3>1, InductiveSet
  <2> QED
    BY <1>1, <2>3
<1>8. IsFiniteSet(S) /\ Cardinality(S) = Len(b)
  BY <1>1, <1>4, <1>7
<1>9. \A l \in S : l.total \in Int
  BY DEF LinesFit, LineRow, Amount
<1>10. TotalOf(S) \in [S -> Int]
  BY <1>9 DEF TotalOf
<1>11. PICK f : /\ SetSum(S, TotalOf(S), FirstOf(S), f)
                /\ MapThenSumSet(LAMBDA l : l.total, S) = f[S]
  <2> HIDE DEF S
  <2> QED
    BY <1>8, <1>10, LineTotalsSum
<1>12. \A s \in SUBSET S : s # {} => FirstOf(S)[s] \in s
  BY DEF FirstOf
<1>13. /\ f[{}] = 0
       /\ \A s \in SUBSET S : f[s] \in Int
       /\ \A s \in SUBSET S : \A x \in s : f[s] = TotalOf(S)[x] + f[s \ {x}]
  <2> HIDE DEF S
  <2> QED
    BY <1>8, <1>10, <1>11, <1>12, SetSumRemoves
<1>14. PICK g : PrefixSums(Len(b), Products(b), g) /\ Subtotal(b) = g[Len(b)]
  BY SubtotalSums
<1>15. /\ g \in [0..Len(b) -> Int] /\ g[0] = 0
       /\ \A i \in 1..Len(b) : g[i] = g[i - 1] + Products(b)[i]
  BY <1>1, <1>14, PrefixSumsTyping
<1>16. Cent \in Nat \ {0}
  BY CentTyping
\* One line more, half a cent more.
<1>17. \A i \in 1..Len(b) :
         /\ row(i).total \in Int
         /\ 2 * (row(i).total * Cent) \in (2 * Products(b)[i] - Cent)..(2 * Products(b)[i] + Cent)
  <2> SUFFICES ASSUME NEW i \in 1..Len(b)
               PROVE  /\ row(i).total \in Int
                      /\ 2 * (row(i).total * Cent)
                           \in (2 * Products(b)[i] - Cent)..(2 * Products(b)[i] + Cent)
    OBVIOUS
  <2>1. row(i).total = Rounded(Products(b)[i], Cent)
    BY DEF row, LineRowOf, Products
  <2>2. Products(b)[i] \in Int
    BY <1>1
  <2>3. Rounded(Products(b)[i], Cent) \in Int
        /\ 2 * (Rounded(Products(b)[i], Cent) * Cent) <= 2 * Products(b)[i] + Cent
        /\ 2 * (Rounded(Products(b)[i], Cent) * Cent) >= 2 * Products(b)[i] - Cent
    BY <1>16, <2>2, RoundedNear
  <2> DEFINE R == Rounded(Products(b)[i], Cent)
             P == Products(b)[i]
  <2>4. R * Cent \in Int
    BY <1>16, <2>3
  <2> HIDE DEF R, P
  <2> QED
    BY <1>16, <2>1, <2>2, <2>3, <2>4 DEF R, P
<1>18. \A k \in 0..Len(b) :
         2 * (f[prefix(k)] * Cent) \in (2 * g[k] - k * Cent)..(2 * g[k] + k * Cent)
  <2> DEFINE near(k) == 2 * (f[prefix(k)] * Cent) \in (2 * g[k] - k * Cent)..(2 * g[k] + k * Cent)
             N == {k \in Nat : k <= Len(b) => near(k)}
  <2>1. 0 \in N
    <3>1. f[prefix(0)] = 0 /\ g[0] = 0 /\ 0 * Cent = 0
      <4>1. f[prefix(0)] = 0
        BY <1>5, <1>13
      <4>2. g[0] = 0
        BY <1>15
      <4>3. 0 * Cent = 0
        BY <1>16
      <4> QED
        BY <4>1, <4>2, <4>3
    <3> QED
      BY <3>1
  <2>2. ASSUME NEW k \in N PROVE k + 1 \in N
    <3> SUFFICES ASSUME k + 1 <= Len(b) PROVE near(k + 1)
      OBVIOUS
    <3>1. k \in Nat /\ k \in 0..Len(b) /\ k # Len(b) /\ k + 1 \in 1..Len(b) /\ near(k)
      BY <1>21 DEF n
    <3> DEFINE F == f[prefix(k)]
               T == row(k + 1).total
    <3>2. f[prefix(k + 1)] = T + F
      <4>1. row(k + 1) \in prefix(k + 1) /\ prefix(k + 1) \in SUBSET S /\ row(k + 1) \in S
            /\ prefix(k + 1) \ {row(k + 1)} = prefix(k)
        BY <1>4, <1>6, <3>1
      <4> QED
        <5>1. TotalOf(S)[row(k + 1)] = T
          BY <4>1 DEF TotalOf
        <5>2. f[prefix(k + 1)] = TotalOf(S)[row(k + 1)] + f[prefix(k + 1) \ {row(k + 1)}]
          BY <1>13, <4>1
        <5> QED
          BY <4>1, <5>1, <5>2
    <3>3. g[k + 1] = g[k] + Products(b)[k + 1] /\ g[k] \in Int /\ Products(b)[k + 1] \in Int
      <4>1. g[k + 1] = g[k + 1 - 1] + Products(b)[k + 1]
        BY <1>15, <3>1
      <4>2. g[k] \in Int /\ Products(b)[k + 1] \in Int
        BY <1>1, <1>15, <3>1
      <4> QED
        BY <3>1, <4>1, <4>2
    <3>4. F \in Int /\ T \in Int
      BY <1>4, <1>13, <1>17, <3>1
    <3>5. 2 * (T * Cent) \in (2 * Products(b)[k + 1] - Cent)..(2 * Products(b)[k + 1] + Cent)
      BY <1>17, <3>1
    <3>6. (T + F) * Cent = T * Cent + F * Cent /\ (k + 1) * Cent = k * Cent + Cent
          /\ T * Cent \in Int /\ F * Cent \in Int /\ k * Cent \in Int
      BY <1>16, <3>1, <3>4
    <3>7. 2 * (F * Cent) \in (2 * g[k] - k * Cent)..(2 * g[k] + k * Cent)
      BY <3>1
    <3> DEFINE P == Products(b)[k + 1]
               c == Cent
               G == g[k]
               TC == T * c
               FC == F * c
               kC == k * c
    <3>8. /\ c \in Nat /\ P \in Int /\ G \in Int /\ TC \in Int /\ FC \in Int /\ kC \in Int
          /\ 2 * TC \in (2 * P - c)..(2 * P + c)
          /\ 2 * FC \in (2 * G - kC)..(2 * G + kC)
      BY <1>16, <3>3, <3>5, <3>6, <3>7
    <3>9. 2 * (TC + FC) \in (2 * (G + P) - (kC + c))..(2 * (G + P) + (kC + c))
      <4> HIDE DEF P, c, G, TC, FC, kC
      <4> QED
        BY <3>8
    <3>10. f[prefix(k + 1)] * Cent = TC + FC /\ g[k + 1] = G + P /\ (k + 1) * Cent = kC + c
      BY <3>2, <3>3, <3>6
    <3> HIDE DEF P, c, G, TC, FC, kC
    <3> QED
      BY <3>9, <3>10
  <2>3. N = Nat
    <3>1. N \in SUBSET Nat
      OBVIOUS
    <3> HIDE DEF N
    <3> QED
      BY <2>1, <2>2, <3>1, InductiveSet
  <2> QED
    BY <1>1, <2>3
<1>19. Len(b) \in 0..Len(b) /\ S \in SUBSET S
  BY <1>1
<1> QED
  BY <1>4, <1>8, <1>11, <1>13, <1>14, <1>18, <1>19

\* The subtotal column is half a cent from the exact subtotal, and each line
\* from its own: the difference is as many halves as there are columns.
LEMMA SubtotalExplained ==
  ASSUME NEW b \in Basket, LinesFit(b), NEW n
  PROVE  LET sum == MapThenSumSet(LAMBDA l : l.total, LineRowsOf(b))
             slack == Cardinality(LineRowsOf(b)) + 1
         IN 2 * (OrderRowOf(n, b).subtotal - sum) \in (-slack)..slack
<1> DEFINE c == Cent
           s == Subtotal(b)
           k == Len(b)
           a == Rounded(100 * s, 100 * c)
           m == MapThenSumSet(LAMBDA l : l.total, LineRowsOf(b))
<1>1. c \in Nat \ {0} /\ 100 * c \in Nat \ {0} /\ s \in Int /\ k \in Nat
  BY CentTyping, SubtotalTyping, ProductsTyping
<1>2. OrderRowOf(n, b).subtotal = a
  BY DEF OrderRowOf, Totals
<1>3. /\ m \in Int /\ Cardinality(LineRowsOf(b)) = k
      /\ 2 * (m * c) \in (2 * s - k * c)..(2 * s + k * c)
  BY LinesNearSubtotal
<1> HIDE DEF c, s, k, m
<1>4. /\ a \in Int
      /\ 2 * (a * (100 * c)) <= 2 * (100 * s) + 100 * c
      /\ 2 * (a * (100 * c)) >= 2 * (100 * s) - 100 * c
  <2>1. 100 * s \in Int
    BY <1>1
  <2> QED
    BY <1>1, <2>1, RoundedNear
<1> HIDE DEF a
<1> DEFINE d  == 2 * (a - m)
           ac == a * c
           mc == m * c
           kc == k * c
<1>5. /\ ac \in Int /\ mc \in Int /\ kc \in Int /\ d \in Int
      /\ a * (100 * c) = 100 * ac
      /\ d * c = 2 * ac - 2 * mc /\ (k + 1) * c = kc + c /\ (-(k + 1)) * c = -(kc + c)
  BY <1>1, <1>3, <1>4
<1>6. /\ 2 * ac <= 2 * s + c /\ 2 * ac >= 2 * s - c
      /\ 2 * mc <= 2 * s + kc /\ 2 * mc >= 2 * s - kc
  <2>1. 2 * (100 * ac) <= 2 * (100 * s) + 100 * c /\ 2 * (100 * ac) >= 2 * (100 * s) - 100 * c
    BY <1>4, <1>5
  <2>2. 2 * mc <= 2 * s + kc /\ 2 * mc >= 2 * s - kc
    BY <1>1, <1>3, <1>5
  <2> HIDE DEF ac, mc, kc
  <2> QED
    BY <1>1, <1>5, <2>1, <2>2
<1>7. d * c <= (k + 1) * c /\ d * c >= (-(k + 1)) * c
  <2> HIDE DEF ac, mc, kc, d
  <2> QED
    BY <1>1, <1>5, <1>6
<1>8. \A x, y \in Int : x * c <= y * c => x <= y
  <2> SUFFICES ASSUME NEW x \in Int, NEW y \in Int, x * c <= y * c, x >= y + 1
               PROVE  FALSE
    OBVIOUS
  <2>1. (x - y) * c >= c /\ (x - y) * c = x * c - y * c /\ x * c \in Int /\ y * c \in Int
    BY <1>1
  <2> QED
    BY <1>1, <2>1
<1>9. d \in (-(k + 1))..(k + 1)
  <2> HIDE DEF d
  <2> QED
    BY <1>1, <1>5, <1>7, <1>8
<1> QED
  BY <1>2, <1>3, <1>9 DEF m

-----------------------------------------------------------------------------
(* Every step preserves the inductive invariant.                           *)

\* The invariant holds in the initial states.
LEMMA InitInductive == Init => Inductive
<1> SUFFICES ASSUME Init PROVE Inductive
  OBVIOUS
<1>1. TypeOK
  BY DEF Init, TypeOK, NothingFlushed, Flushed
<1> QED
  BY <1>1
  DEF Init, Inductive, NumbersAreUnique, OrdersComeWhole, AnswersMatchRows, FlushedAsAsked,
      NumberReserved, TotalChecked, LinesChecked, NothingFlushed

\* A number is drawn.
LEMMA DrawPreserves ==
  ASSUME Inductive, NEW r \in Request, NEW b \in Basket, Draw(r, b)
  PROVE  Inductive'
<1>1. PICK n \in PONumber : number' = [number EXCEPT ![r] = n]
  BY DEF Draw
<1>2. /\ pc[r] = "idle" /\ order[r] = None /\ resp[r] = "none"
      /\ tx[r] = NothingFlushed
      /\ UNCHANGED <<order, lines, tx, body, resp>>
      /\ pc'[r] = "drawn" /\ basket'[r] = b /\ number'[r] = n
      /\ \A q \in Request \ {r} :
           pc'[q] = pc[q] /\ basket'[q] = basket[q] /\ number'[q] = number[q]
  BY <1>1 DEF Inductive, TypeOK, FlushedAsAsked, Draw, rows
<1>3. TypeOK'
  BY <1>1 DEF Inductive, TypeOK, Draw, rows
<1>4. NumbersAreUnique' /\ NumberReserved'
  BY <1>2 DEF Inductive, NumbersAreUnique, NumberReserved, Taken, Pending
<1>5. OrdersComeWhole' /\ TotalChecked' /\ AnswersMatchRows'
  BY <1>2 DEF Inductive, OrdersComeWhole, TotalChecked, AnswersMatchRows
<1>6. FlushedAsAsked'
  BY <1>2 DEF Inductive, FlushedAsAsked
<1>7. LinesChecked'
  BY <1>2 DEF Inductive, LinesChecked
<1> QED
  BY <1>3, <1>4, <1>5, <1>6, <1>7 DEF Inductive

\* A request is rolled back.
LEMMA FailPreserves ==
  ASSUME Inductive, NEW r \in Request, NEW answer \in {"500", "lost"}, Fail(r, answer),
         pc[r] \in {"drawn", "inserted", "flushed"}
  PROVE  Inductive'
<1>1. /\ order[r] = None
      /\ UNCHANGED <<order, lines, basket, number, body>>
      /\ tx'[r] = NothingFlushed /\ pc'[r] = "done" /\ resp'[r] = answer
      /\ \A q \in Request \ {r} : tx'[q] = tx[q] /\ pc'[q] = pc[q] /\ resp'[q] = resp[q]
  BY DEF Inductive, TypeOK, FlushedAsAsked, Fail, rows
<1>2. TypeOK'
  BY DEF Inductive, TypeOK, Fail, rows, NothingFlushed, Flushed
<1>3. NumbersAreUnique'
  BY <1>1 DEF Inductive, NumbersAreUnique
<1>4. NumberReserved'
  <2> SUFFICES ASSUME NEW q \in Request, tx'[q].order # None
               PROVE  ~Taken(tx[q].order.number)' /\ ~Pending(q, tx[q].order.number)'
    BY DEF NumberReserved
  <2>1. q # r /\ tx'[q] = tx[q]
    BY <1>1 DEF NothingFlushed
  <2>2. ~Taken(tx[q].order.number) /\ ~Pending(q, tx[q].order.number)
    BY <2>1 DEF Inductive, NumberReserved
  <2> QED
    BY <1>1, <2>1, <2>2 DEF Taken, Pending, NothingFlushed
<1>5. OrdersComeWhole' /\ TotalChecked' /\ AnswersMatchRows'
  BY <1>1 DEF Inductive, OrdersComeWhole, TotalChecked, AnswersMatchRows
<1>6. FlushedAsAsked'
  BY <1>1 DEF Inductive, FlushedAsAsked
<1>7. LinesChecked'
  BY <1>1 DEF Inductive, LinesChecked
<1> QED
  BY <1>2, <1>3, <1>4, <1>5, <1>6, <1>7 DEF Inductive

\* An INSERT that is not refused reserves its number.
LEMMA InsertOrderPreserves ==
  ASSUME Inductive, NEW r \in Request, InsertOrder(r)
  PROVE  Inductive'
<1> DEFINE row == OrderRowOf(number[r], basket[r])
<1>1. pc[r] = "drawn" /\ ~Pending(r, number[r])
  BY DEF InsertOrder
<1>2. CASE Taken(number[r]) \/ ~OrderFits(row)
  BY <1>1, <1>2, FailPreserves DEF InsertOrder
<1>3. CASE ~(Taken(number[r]) \/ ~OrderFits(row))
  <2>1. /\ tx' = [tx EXCEPT ![r].order = row]
        /\ pc' = [pc EXCEPT ![r] = "inserted"]
        /\ UNCHANGED <<order, lines, basket, number, body, resp>>
    BY <1>3 DEF InsertOrder, rows
  <2>2. /\ number[r] \in PONumber /\ basket[r] \in Basket
        /\ order[r] = None /\ resp[r] = "none" /\ tx[r] = NothingFlushed
    BY <1>1 DEF Inductive, FlushedAsAsked
  <2>3. row \in OrderRow /\ row.number = number[r] /\ row.total >= 0
    BY <1>3, <2>2, OrderRowTyping
  <2> HIDE DEF row
  <2>4. /\ tx'[r].order = row /\ tx'[r].lines = {}
        /\ pc'[r] = "inserted"
        /\ \A q \in Request \ {r} : tx'[q] = tx[q] /\ pc'[q] = pc[q]
    BY <2>1, <2>2 DEF Inductive, TypeOK, NothingFlushed
  <2>5. TypeOK'
    BY <2>1, <2>3 DEF Inductive, TypeOK, Flushed
  <2>6. NumbersAreUnique' /\ OrdersComeWhole' /\ TotalChecked' /\ AnswersMatchRows'
    BY <2>1, <2>2, <2>4 DEF Inductive, NumbersAreUnique, OrdersComeWhole, TotalChecked,
       AnswersMatchRows
  <2>7. NumberReserved'
    <3> SUFFICES ASSUME NEW q \in Request, tx'[q].order # None
                 PROVE  ~Taken(tx[q].order.number)' /\ ~Pending(q, tx[q].order.number)'
      BY DEF NumberReserved
    <3>1. ~Taken(tx'[q].order.number)
      BY <1>3, <2>3, <2>4 DEF Inductive, NumberReserved
    <3>2. CASE q = r
      BY <1>1, <2>1, <2>3, <2>4, <3>1, <3>2 DEF Taken, Pending
    <3>3. CASE q # r
      <4>1. tx'[q] = tx[q] /\ ~Pending(q, tx[q].order.number)
        BY <2>4, <3>3 DEF Inductive, NumberReserved
      <4>2. tx[q].order.number # number[r]
        BY <1>1, <3>3, <4>1 DEF Pending
      <4> QED
        BY <2>1, <2>3, <2>4, <3>1, <4>1, <4>2 DEF Taken, Pending
    <3> QED
      BY <3>2, <3>3
  <2>8. FlushedAsAsked'
    BY <2>1, <2>2, <2>3, <2>4 DEF Inductive, FlushedAsAsked, row
  <2>9. LinesChecked'
    BY <2>1, <2>4 DEF Inductive, LinesChecked
  <2> QED
    BY <2>5, <2>6, <2>7, <2>8, <2>9 DEF Inductive
<1> QED
  BY <1>2, <1>3

\* The lines are flushed and the answer is made.
LEMMA InsertLinesPreserves ==
  ASSUME Inductive, NEW r \in Request, InsertLines(r)
  PROVE  Inductive'
<1>1. pc[r] = "inserted"
  BY DEF InsertLines
<1>2. CASE ~LinesFit(basket[r])
  BY <1>1, <1>2, FailPreserves DEF InsertLines
<1>3. CASE LinesFit(basket[r])
  <2> DEFINE answer == [order |-> tx[r].order, lines |-> PrintedLines(basket[r])]
  <2>1. /\ tx' = [tx EXCEPT ![r].lines = LineRowsOf(basket[r])]
        /\ body' = [body EXCEPT ![r] = answer]
        /\ pc' = [pc EXCEPT ![r] = "flushed"]
        /\ UNCHANGED <<order, lines, basket, number, resp>>
    BY <1>3 DEF InsertLines, rows
  <2>2. /\ number[r] \in PONumber /\ basket[r] \in Basket
        /\ order[r] = None /\ resp[r] = "none"
        /\ tx[r].order \in OrderRow
    BY <1>1 DEF Inductive, FlushedAsAsked
  <2>3. LineRowsOf(basket[r]) \subseteq LineRow /\ answer \in Body
    BY <1>3, <2>2, PrintedTyping DEF LinesFit, Body
  <2> HIDE DEF answer
  <2>4. /\ tx'[r].order = tx[r].order /\ tx'[r].lines = LineRowsOf(basket[r])
        /\ pc'[r] = "flushed" /\ body'[r] = answer
        /\ \A q \in Request \ {r} : tx'[q] = tx[q] /\ pc'[q] = pc[q] /\ body'[q] = body[q]
    BY <2>1 DEF Inductive, TypeOK, Flushed
  <2>5. TypeOK'
    BY <2>1, <2>3 DEF Inductive, TypeOK, Flushed
  <2>6. NumbersAreUnique' /\ OrdersComeWhole' /\ TotalChecked' /\ AnswersMatchRows'
    BY <2>1, <2>2, <2>4 DEF Inductive, NumbersAreUnique, OrdersComeWhole, TotalChecked,
       AnswersMatchRows
  <2>7. NumberReserved'
    <3>1. \A q \in Request : tx'[q].order = tx[q].order
      BY <2>4
    <3> QED
      BY <2>1, <3>1 DEF Inductive, NumberReserved, Taken, Pending
  <2>8. FlushedAsAsked'
    BY <1>1, <2>1, <2>2, <2>4 DEF Inductive, FlushedAsAsked, answer
  <2>9. LinesChecked'
    BY <1>3, <2>1, <2>4 DEF Inductive, LinesChecked
  <2> QED
    BY <2>5, <2>6, <2>7, <2>8, <2>9 DEF Inductive
<1> QED
  BY <1>2, <1>3

\* A commit, with an answer that says so or with none.
LEMMA PersistPreserves ==
  ASSUME Inductive, NEW r \in Request, NEW answer \in {"201", "500", "lost"},
         pc[r] = "flushed", Persist(r), resp' = [resp EXCEPT ![r] = answer],
         answer # "201" => r \in Faulty
  PROVE  Inductive'
<1>1. /\ number[r] \in PONumber /\ basket[r] \in Basket /\ order[r] = None
      /\ tx[r].order = OrderRowOf(number[r], basket[r])
      /\ tx[r].order \in OrderRow /\ tx[r].order.total >= 0
      /\ tx[r].lines = LineRowsOf(basket[r])
      /\ body[r] = [order |-> tx[r].order, lines |-> PrintedLines(basket[r])]
  BY DEF Inductive, FlushedAsAsked
<1>2. tx[r].order # None
  BY <1>1, NoneIsNothing
<1>3. /\ order'[r] = tx[r].order /\ lines'[r] = tx[r].lines
      /\ tx'[r] = NothingFlushed /\ pc'[r] = "done" /\ resp'[r] = answer
      /\ UNCHANGED <<basket, number, body>>
      /\ \A q \in Request \ {r} :
           /\ order'[q] = order[q] /\ lines'[q] = lines[q] /\ tx'[q] = tx[q]
           /\ pc'[q] = pc[q] /\ resp'[q] = resp[q]
  BY DEF Inductive, TypeOK, Persist
<1>4. TypeOK'
  BY <1>1 DEF Inductive, TypeOK, Persist, NothingFlushed, Flushed
<1>5. ~Taken(tx[r].order.number) /\ ~Pending(r, tx[r].order.number)
  BY <1>2 DEF Inductive, NumberReserved
<1>6. NumbersAreUnique'
  BY <1>3, <1>5 DEF Inductive, NumbersAreUnique, Taken
<1>7. NumberReserved'
  <2> SUFFICES ASSUME NEW q \in Request, tx'[q].order # None
               PROVE  ~Taken(tx[q].order.number)' /\ ~Pending(q, tx[q].order.number)'
    BY DEF NumberReserved
  <2>1. q # r /\ tx'[q] = tx[q]
    BY <1>3 DEF NothingFlushed
  <2>2. /\ ~Taken(tx[q].order.number) /\ ~Pending(q, tx[q].order.number)
        /\ tx[q].order.number # tx[r].order.number
    BY <1>2, <2>1 DEF Inductive, NumberReserved, Pending
  <2> QED
    BY <1>3, <2>1, <2>2 DEF Taken, Pending, NothingFlushed
<1>8. OrdersComeWhole' /\ TotalChecked'
  BY <1>1, <1>2, <1>3 DEF Inductive, OrdersComeWhole, TotalChecked
<1>9. AnswersMatchRows'
  <2>1. LineRowsOf(basket[r]) = {LineRowOf(l) : l \in PrintedLines(basket[r])}
    BY <1>1, PrintedLinesRound
  <2>2. body[r].order = tx[r].order /\ body[r].lines = PrintedLines(basket[r])
    BY <1>1
  <2>3. order'[r] # None /\ body'[r].order = order'[r]
        /\ lines'[r] = {LineRowOf(l) : l \in body'[r].lines}
    BY <1>1, <1>2, <1>3, <2>1, <2>2
  <2> QED
    BY <1>3, <2>3 DEF Inductive, AnswersMatchRows
<1>10. FlushedAsAsked'
  BY <1>3 DEF Inductive, FlushedAsAsked
<1>11. LinesChecked'
  BY <1>3 DEF Inductive, LinesChecked
<1> QED
  BY <1>4, <1>6, <1>7, <1>8, <1>9, <1>10, <1>11 DEF Inductive

\* Every step of a request, and every step that changes nothing.
LEMMA NextInductive == Inductive /\ [Next]_vars => Inductive'
<1> SUFFICES ASSUME Inductive, [Next]_vars PROVE Inductive'
  OBVIOUS
<1>1. ASSUME NEW r \in Request, Arrive(r) PROVE Inductive'
  BY <1>1, DrawPreserves DEF Arrive
<1>2. ASSUME NEW r \in Request, Proceed(r) PROVE Inductive'
  <2>1. CASE InsertOrder(r)
    BY <2>1, InsertOrderPreserves
  <2>2. CASE InsertLines(r)
    BY <2>2, InsertLinesPreserves
  <2>3. CASE Commit(r)
    BY <2>3, PersistPreserves DEF Commit
  <2> QED
    BY <1>2, <2>1, <2>2, <2>3 DEF Proceed
<1>3. ASSUME NEW r \in Request, CommitUnacknowledged(r) PROVE Inductive'
  BY <1>3, PersistPreserves DEF CommitUnacknowledged
<1>4. ASSUME NEW r \in Request, Fault(r) PROVE Inductive'
  BY <1>4, FailPreserves DEF Fault
<1>5. CASE UNCHANGED vars
  BY <1>5
  DEF vars, rows, Inductive, TypeOK, NumbersAreUnique, OrdersComeWhole, AnswersMatchRows,
      FlushedAsAsked, NumberReserved, TotalChecked, LinesChecked, Taken, Pending
<1> QED
  BY <1>1, <1>2, <1>3, <1>4, <1>5 DEF Next

-----------------------------------------------------------------------------
(* Theorems.                                                               *)

\* The inductive invariant holds in every reachable state, whatever requests
\* overlap and fail (purchase_order_service.py, create).
THEOREM InductiveInvariant == Spec => []Inductive
<1> QED
  BY InitInductive, NextInductive, PTL DEF Spec

\* Rows keep to the width of their columns (Numeric(15, 2), Numeric(10, 3)).
THEOREM TypeCorrect == Spec => []TypeOK
<1>1. Inductive => TypeOK
  BY DEF Inductive
<1> QED
  BY <1>1, InductiveInvariant, PTL

\* A po_number names one order, whatever creations overlap.
THEOREM NumbersUnique == Spec => []NumbersAreUnique
<1>1. Inductive => NumbersAreUnique
  BY DEF Inductive
<1> QED
  BY <1>1, InductiveInvariant, PTL

\* An order and its lines are committed together or not at all.
THEOREM OrdersWhole == Spec => []OrdersComeWhole
<1>1. Inductive => OrdersComeWhole
  BY DEF Inductive
<1> QED
  BY <1>1, InductiveInvariant, PTL

\* Subtotal, tax and total of an order tally to a cent, and none is negative
\* although only the total is checked (db_models.py, check_po_total_positive).
THEOREM AmountsTallied == Spec => []AmountsTally
<1>1. Inductive => AmountsTally
  <2> SUFFICES ASSUME Inductive, NEW r \in Request, order[r] # None
               PROVE  /\ order[r].subtotal + order[r].tax - order[r].total \in {-1, 0, 1}
                      /\ order[r].subtotal >= 0 /\ order[r].tax >= 0
    BY DEF AmountsTally
  <2>1. /\ basket[r] \in Basket /\ number[r] \in PONumber
        /\ order[r] = OrderRowOf(number[r], basket[r]) /\ order[r].total >= 0
    BY DEF Inductive, OrdersComeWhole, TotalChecked
  <2> QED
    BY <2>1, RowTallies
<1> QED
  BY <1>1, InductiveInvariant, PTL

\* What the line items of an order add up to is its subtotal, up to the rounding
\* of their columns: for every basket, an induction over its lines.
THEOREM LinesExplained == Spec => []LinesExplainSubtotal
<1>1. Inductive => LinesExplainSubtotal
  <2> SUFFICES ASSUME Inductive, NEW r \in Request, order[r] # None
               PROVE  LET sum == MapThenSumSet(LAMBDA l : l.total, lines[r])
                          slack == Cardinality(lines[r]) + 1
                      IN 2 * (order[r].subtotal - sum) \in (-slack)..slack
    BY DEF LinesExplainSubtotal
  <2>1. /\ basket[r] \in Basket /\ LinesFit(basket[r])
        /\ order[r] = OrderRowOf(number[r], basket[r]) /\ lines[r] = LineRowsOf(basket[r])
    BY DEF Inductive, OrdersComeWhole, TotalChecked, LinesChecked
  <2> QED
    BY <2>1, SubtotalExplained
<1> QED
  BY <1>1, InductiveInvariant, PTL

\* A 201 shows the order that is in the table, and its lines before their
\* columns rounded them; a 500 without a fault left nothing.
THEOREM AnswersMatch == Spec => []AnswersMatchRows
<1>1. Inductive => AnswersMatchRows
  BY DEF Inductive
<1> QED
  BY <1>1, InductiveInvariant, PTL

=============================================================================
