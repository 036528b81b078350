------------------------ MODULE CalculationsProofs ------------------------
(***************************************************************************)
(* Proofs about Calculations, for every set of nodes, points, formulas and *)
(* readings: what the formulas give, the types of the documents, and the   *)
(* cycle of a node that loses its role.                                    *)
(***************************************************************************)
EXTENDS Calculations, WellFoundedInduction, TLAPS

-----------------------------------------------------------------------------
(* Induction over the numbers, and what it shows of sums, greatest and     *)
(* least elements and roots.                                               *)

\* A set of numbers that has 0 and every successor of its elements has all.
LEMMA InductionOnNat ==
    ASSUME NEW S, 0 \in S, \A m \in Nat : m \in S => m + 1 \in S
    PROVE  \A m \in Nat : m \in S
<1> DEFINE R == {p \in Nat \X Nat : p[1] < p[2]}
           T == {m \in Nat : m \notin S}
<1>1. IsWellFoundedOn(R, Nat)
  <2>1. OpToRel(<, Nat) = R
    BY DEF OpToRel
  <2> QED BY <2>1, NatLessThanWellFounded
<1>2. SUFFICES ASSUME T # {} PROVE FALSE
  OBVIOUS
<1>3. PICK x \in T : \A y \in T : <<y, x>> \notin R
  <2>1. T \subseteq Nat
    OBVIOUS
  <2> HIDE DEF R, T
  <2> QED BY <1>1, <1>2, <2>1, WFMin
<1>4. x # 0 /\ x \in Nat
  OBVIOUS
<1>5. x - 1 \in Nat /\ x - 1 < x /\ (x - 1) + 1 = x
  BY <1>4
<1>6. x - 1 \in T
  BY <1>5
<1>7. <<x - 1, x>> \in R
  BY <1>4, <1>5
<1> QED BY <1>3, <1>6, <1>7

\* f has the sums of the first m numbers of s, for m up to k.
IsSum(f, s, k) ==
    /\ f \in [0 .. k -> Int]
    /\ f[0] = 0
    /\ \A m \in 1 .. k : f[m] = f[m - 1] + s[m]

LEMMA SumExists ==
    ASSUME NEW s \in Seq(Int)
    PROVE  \E f : IsSum(f, s, Len(s))
<1> DEFINE S == {k \in Nat : k <= Len(s) => \E f : IsSum(f, s, k)}
<1>1. 0 \in S
  <2>1. IsSum([m \in 0 .. 0 |-> 0], s, 0)
    BY DEF IsSum
  <2> QED BY <2>1
<1>2. ASSUME NEW k \in Nat, k \in S PROVE k + 1 \in S
  <2> SUFFICES ASSUME k + 1 <= Len(s) PROVE \E f : IsSum(f, s, k + 1)
    OBVIOUS
  <2>1. PICK f : IsSum(f, s, k)
    BY <1>2
  <2> DEFINE g == [m \in 0 .. k + 1 |-> IF m = k + 1 THEN f[k] + s[k + 1] ELSE f[m]]
  <2>2. f[k] \in Int /\ s[k + 1] \in Int
    BY <2>1 DEF IsSum
  <2>3. g \in [0 .. k + 1 -> Int] /\ g[0] = 0
    BY <2>1, <2>2 DEF IsSum
  <2>4. ASSUME NEW m \in 1 .. k + 1 PROVE g[m] = g[m - 1] + s[m]
    <3>1. CASE m = k + 1
      <4>1. g[k + 1] = f[k] + s[k + 1] /\ g[k] = f[k] /\ m - 1 = k
        BY <3>1
      <4> HIDE DEF g
      <4> QED BY <3>1, <4>1
    <3>2. CASE m \in 1 .. k
      <4>1. f[m] = f[m - 1] + s[m]
        BY <2>1, <3>2 DEF IsSum
      <4>2. g[m] = f[m] /\ g[m - 1] = f[m - 1]
        BY <3>2
      <4> QED BY <4>1, <4>2
    <3> QED BY <3>1, <3>2
  <2>5. IsSum(g, s, k + 1)
    <3> HIDE DEF g
    <3> QED BY <2>3, <2>4 DEF IsSum
  <2> QED BY <2>5
<1>3. \A m \in Nat : m \in S
  <2> HIDE DEF S
  <2> QED BY <1>1, <1>2, InductionOnNat
<1>4. Len(s) \in S
  BY <1>3
<1> QED BY <1>4

\* The sum of integers is one.
LEMMA SumType ==
    ASSUME NEW s \in Seq(Int)
    PROVE  Sum(s) \in Int
<1> DEFINE n == Len(s)
           Step(g) == [m \in 0 .. n |-> IF m = 0 THEN 0 ELSE g[m - 1] + s[m]]
           F == CHOOSE g : g = Step(g)
           S == {k \in Nat : k <= n => F[k] \in Int}
<1>0. n \in Nat /\ \A m \in 1 .. n : s[m] \in Int
  OBVIOUS
<1>1. PICK f : IsSum(f, s, n)
  BY SumExists
<1>2. f = Step(f)
  BY <1>0, <1>1 DEF IsSum
<1>3. F = Step(F)
  <2> HIDE DEF Step
  <2> QED BY <1>2
<1>4. Sum(s) = F[n]
  BY DEF Sum
<1> HIDE DEF F
<1>5. F[0] = 0 /\ \A m \in 1 .. n : F[m] = F[m - 1] + s[m]
  BY <1>0, <1>3
<1>6. 0 \in S
  BY <1>5
<1>7. ASSUME NEW k \in Nat, k \in S PROVE k + 1 \in S
  <2> SUFFICES ASSUME k + 1 <= n PROVE F[k + 1] \in Int
    OBVIOUS
  <2>1. k + 1 \in 1 .. n /\ (k + 1) - 1 = k /\ F[k] \in Int
    BY <1>0, <1>7
  <2> QED BY <1>0, <1>5, <2>1
<1>8. n \in S
  <2>1. \A m \in Nat : m \in S
    <3> HIDE DEF S
    <3> QED BY <1>6, <1>7, InductionOnNat
  <2> QED BY <1>0, <2>1
<1> QED BY <1>0, <1>4, <1>8

\* Some of the numbers up to n have a greatest.
LEMMA LastOf ==
    ASSUME NEW n \in Nat, NEW T, T \subseteq 1 .. n, T # {}
    PROVE  \E i \in T : \A j \in T : j <= i
<1> DEFINE S == {k \in Nat : \/ \A j \in T : j > k
                            \/ \E i \in T : \A j \in T : j <= k => j <= i}
<1>1. 0 \in S
  OBVIOUS
<1>2. ASSUME NEW k \in Nat, k \in S PROVE k + 1 \in S
  <2>1. CASE k + 1 \in T
    BY <2>1
  <2>2. CASE k + 1 \notin T
    BY <1>2, <2>2
  <2> QED BY <2>1, <2>2
<1>3. n \in S
  <2> HIDE DEF S
  <2> QED BY <1>1, <1>2, InductionOnNat
<1>4. PICK j \in T : TRUE
  OBVIOUS
<1>5. ~(j > n)
  BY <1>4
<1>6. PICK i \in T : \A k \in T : k <= n => k <= i
  BY <1>3, <1>5
<1> QED BY <1>6

\* So have the numbers in a sequence, and they have a smallest.
LEMMA ExtremesOf ==
    ASSUME NEW v \in Seq(Number),
           NEW T, T = {v[i] : i \in DOMAIN v} \ {NaN}, T # {}
    PROVE  /\ T \subseteq Int
           /\ \E x \in T : \A y \in T : y <= x
           /\ \E x \in T : \A y \in T : x <= y
<1> DEFINE P(k) == {i \in 1 .. k : v[i] # NaN}
           Has(k) == /\ \E i \in P(k) : \A j \in P(k) : v[j] <= v[i]
                     /\ \E i \in P(k) : \A j \in P(k) : v[i] <= v[j]
           S == {k \in Nat : k <= Len(v) => P(k) = {} \/ Has(k)}
<1>1. Len(v) \in Nat /\ DOMAIN v = 1 .. Len(v) /\ \A i \in P(Len(v)) : v[i] \in Int
  BY DEF Number
<1>2. 0 \in S
  OBVIOUS
<1>3. ASSUME NEW k \in Nat, k \in S PROVE k + 1 \in S
  <2> SUFFICES ASSUME k + 1 <= Len(v) PROVE P(k + 1) = {} \/ Has(k + 1)
    OBVIOUS
  <2>1. CASE v[k + 1] = NaN
    <3>1. P(k + 1) = P(k)
      BY <2>1
    <3> HIDE DEF P
    <3> QED BY <1>3, <3>1
  <2>2. CASE v[k + 1] # NaN /\ P(k) = {}
    <3>1. P(k + 1) = {k + 1} /\ v[k + 1] \in Int
      BY <1>1, <2>2
    <3> HIDE DEF P
    <3> QED BY <3>1
  <2>3. CASE v[k + 1] # NaN /\ P(k) # {}
    <3>1. P(k + 1) = P(k) \cup {k + 1} /\ \A i \in P(k + 1) : v[i] \in Int
      BY <1>1, <2>3
    <3>2. PICK a \in P(k) : \A j \in P(k) : v[j] <= v[a]
      BY <1>3, <2>3
    <3>3. PICK b \in P(k) : \A j \in P(k) : v[b] <= v[j]
      BY <1>3, <2>3
    <3> HIDE DEF P
    <3>4. \E i \in P(k + 1) : \A j \in P(k + 1) : v[j] <= v[i]
      BY <3>1, <3>2
    <3>5. \E i \in P(k + 1) : \A j \in P(k + 1) : v[i] <= v[j]
      BY <3>1, <3>3
    <3> QED BY <3>4, <3>5
  <2> QED BY <2>1, <2>2, <2>3
<1>4. Len(v) \in S
  <2>1. \A m \in Nat : m \in S
    <3> HIDE DEF S
    <3> QED BY <1>2, <1>3, InductionOnNat
  <2> QED BY <1>1, <2>1
<1>5. T = {v[i] : i \in P(Len(v))}
  BY <1>1
<1>6. Has(Len(v))
  BY <1>1, <1>4, <1>5
<1> HIDE DEF P
<1>7. T \subseteq Int
  BY <1>1, <1>5
<1>8. \E x \in T : \A y \in T : y <= x
  <2>1. PICK i \in P(Len(v)) : \A j \in P(Len(v)) : v[j] <= v[i]
    BY <1>6
  <2>2. v[i] \in T /\ \A y \in T : y <= v[i]
    BY <1>5, <2>1
  <2> QED BY <2>2
<1>9. \E x \in T : \A y \in T : x <= y
  <2>1. PICK i \in P(Len(v)) : \A j \in P(Len(v)) : v[i] <= v[j]
    BY <1>6
  <2>2. v[i] \in T /\ \A y \in T : v[i] <= y
    BY <1>5, <2>1
  <2> QED BY <2>2
<1> QED BY <1>7, <1>8, <1>9

\* A number has a root, positive if the number is.
LEMMA RootType ==
    ASSUME NEW n \in Nat
    PROVE  Root(n) \in Nat /\ (n > 0 => Root(n) > 0)
<1> DEFINE IsRoot(r, k) == r * r <= k /\ k < (r + 1) * (r + 1)
           S == {k \in Nat : \E r \in 0 .. k : IsRoot(r, k)}
<1>1. 0 \in S
  <2>1. IsRoot(0, 0)
    OBVIOUS
  <2> HIDE DEF IsRoot
  <2> QED BY <2>1
<1>2. ASSUME NEW k \in Nat, k \in S PROVE k + 1 \in S
  <2>1. PICK r \in 0 .. k : IsRoot(r, k)
    BY <1>2
  <2>2. r \in Nat /\ r + 1 \in 0 .. k + 1 /\ r \in 0 .. k + 1
    OBVIOUS
  <2>3. IsRoot(r, k + 1) \/ IsRoot(r + 1, k + 1)
    <3> DEFINE a == r * r
    <3>1. /\ a \in Int /\ (r + 1) * (r + 1) = a + 2 * r + 1
          /\ ((r + 1) + 1) * ((r + 1) + 1) = a + 4 * r + 4
      BY <2>2
    <3> HIDE DEF a
    <3> QED BY <2>1, <2>2, <3>1 DEF a
  <2> HIDE DEF IsRoot
  <2> QED BY <2>2, <2>3
<1>3. n \in S
  <2> HIDE DEF S
  <2> QED BY <1>1, <1>2, InductionOnNat
<1>4. Root(n) \in 0 .. n /\ IsRoot(Root(n), n)
  BY <1>3 DEF Root
<1>5. n > 0 => Root(n) # 0
  BY <1>4
<1> QED BY <1>4, <1>5

-----------------------------------------------------------------------------
(* The formulas: with the parcels it needs each gives a number or NaN, and *)
(* a quality.                                                              *)

\* The formulas that are not weighted sums.
Others == OneParcel \cup TwoParcels \cup ThreeParcels \cup AnyNumber \cup {225}

\* A row of the tables of sums: no other formula, and integer weights.
IsRow(w) == w[1] \notin Others /\ w[2] \in Seq(Int)

LEMMA SignsType ==
    ASSUME NEW p \in Nat, NEW m \in Nat
    PROVE  Signs(p, m) \in Seq(Int)
BY DEF Signs

LEMMA LongSumsRows == \A w \in LongSums : IsRow(w)
<1> DEFINE S == Seq(Int)
<1>1. \A a, b \in S : a \o b \in S
  OBVIOUS
<1>2. /\ <<72>> \in S /\ <<52>> \in S /\ <<20>> \in S
      /\ <<0, 0>> \in S
  OBVIOUS
<1>3. /\ Signs(23, 0) \in S /\ Signs(8, 1) \in S /\ Signs(3, 0) \in S
      /\ Signs(2, 2) \in S /\ Signs(5, 0) \in S /\ Signs(9, 0) \in S
  BY SignsType
<1> HIDE DEF S
<1>4. Signs(23, 0) \o <<72>> \in S
  BY <1>1, <1>2, <1>3
<1>5. Signs(8, 1) \o Signs(3, 0) \o <<52>> \o Signs(2, 2) \o Signs(5, 0)
        \o <<0, 0>> \o Signs(9, 0) \o <<20>> \in S
  BY <1>1, <1>2, <1>3
<1>6. 11 \notin Others /\ 13 \notin Others
  BY DEF Others, OneParcel, TwoParcels, ThreeParcels, AnyNumber
<1> DEFINE a == Signs(23, 0) \o <<72>>
           b == Signs(8, 1) \o Signs(3, 0) \o <<52>> \o Signs(2, 2) \o Signs(5, 0)
                  \o <<0, 0>> \o Signs(9, 0) \o <<20>>
<1>7. LongSums = {<<11, a>>, <<13, b>>} /\ a \in S /\ b \in S
  BY <1>4, <1>5 DEF LongSums
<1> HIDE DEF a, b
<1> QED BY <1>6, <1>7 DEF IsRow, S

LEMMA WeightedRows == \A w \in Weighted : IsRow(w)
<1> DEFINE S == Seq(Int)
<1>1. \A a, b \in S : a \o b \in S
  OBVIOUS
<1>2. /\ <<6000, 100>> \in S /\ <<50>> \in S /\ <<-60, 100>> \in S
      /\ <<-72>> \in S /\ <<38>> \in S /\ <<14>> \in S
  OBVIOUS
<1>3. /\ Signs(3, 1) \in S /\ Signs(2, 1) \in S /\ Signs(1, 1) \in S
      /\ Signs(4, 2) \in S /\ Signs(1, 2) \in S /\ Signs(0, 1) \in S
      /\ Signs(5, 2) \in S /\ Signs(3, 0) \in S
  BY SignsType
<1> HIDE DEF S
<1>4. /\ Signs(3, 1) \o <<-60, 100>> \in S /\ Signs(2, 1) \o Signs(1, 1) \in S
      /\ Signs(4, 2) \o Signs(1, 2) \in S
      /\ Signs(0, 1) \o Signs(5, 2) \o Signs(3, 0) \in S
  BY <1>1, <1>2, <1>3
<1>5. \A f \in {202, 204, 5000, 5041, 5043, 5172, 5173, 5174, 5406} : f \notin Others
  BY DEF Others, OneParcel, TwoParcels, ThreeParcels, AnyNumber
<1> DEFINE a == Signs(3, 1) \o <<-60, 100>>
           b == Signs(2, 1) \o Signs(1, 1)
           c == Signs(4, 2) \o Signs(1, 2)
           d == Signs(0, 1) \o Signs(5, 2) \o Signs(3, 0)
           g == <<6000, 100>>
           h == <<50>>
           k == <<-72>>
           l == <<38>>
           m == <<14>>
<1>6. /\ Weighted = {<<202, g>>, <<204, h>>, <<5000, a>>, <<5041, b>>, <<5043, c>>,
                     <<5172, k>>, <<5173, l>>, <<5174, m>>, <<5406, d>>}
      /\ \A x \in {a, b, c, d, g, h, k, l, m} : x \in S
  BY <1>2, <1>4 DEF Weighted
<1> HIDE DEF a, b, c, d, g, h, k, l, m
<1> SUFFICES ASSUME NEW w \in Weighted PROVE w[1] \notin Others /\ w[2] \in S
  BY DEF IsRow, S
<1>7. PICK n \in {202, 204, 5000, 5041, 5043, 5172, 5173, 5174, 5406},
           x \in {a, b, c, d, g, h, k, l, m} : w = <<n, x>>
  BY <1>6
<1> QED BY <1>5, <1>6, <1>7

LEMMA SignedRows == \A w \in SignedSums : IsRow(w)
<1> DEFINE IsSigned(t) == t[1] \notin Others /\ t[2] \in Nat /\ t[3] \in Nat
<1> USE DEF Others, OneParcel, TwoParcels, ThreeParcels, AnyNumber
<1>1. \A t \in PlusMinus : IsSigned(t)
  BY DEF PlusMinus
<1>2. \A t \in PlusMinus200 : IsSigned(t)
  BY DEF PlusMinus200
<1>3. \A t \in PlusMinus220 : IsSigned(t)
  BY DEF PlusMinus220
<1>4. \A t \in PlusMinus500 : IsSigned(t)
  BY DEF PlusMinus500
<1> SUFFICES ASSUME NEW w \in SignedSums PROVE IsRow(w)
  OBVIOUS
<1>5. PICK t \in PlusMinus \cup PlusMinus200 \cup PlusMinus220 \cup PlusMinus500 :
        w = <<t[1], Signs(t[2], t[3])>>
  BY DEF SignedSums
<1>6. IsSigned(t)
  BY <1>1, <1>2, <1>3, <1>4, <1>5
<1>7. Signs(t[2], t[3]) \in Seq(Int)
  <2>1. \A p, m \in Nat : Signs(p, m) \in Seq(Int)
    BY SignsType
  <2>2. t[2] \in Nat /\ t[3] \in Nat
    BY <1>6
  <2> QED BY <2>1, <2>2
<1> QED BY <1>5, <1>6, <1>7 DEF IsRow

LEMMA SumsType ==
    ASSUME NEW f \in DOMAIN Sums
    PROVE  Sums[f] \in Seq(Int) /\ f \notin Others
<1>1. \A w \in Rows : IsRow(w)
  BY LongSumsRows, WeightedRows, SignedRows DEF Rows
<1>2. DOMAIN Sums = {w[1] : w \in Rows} /\ Sums[f] = (CHOOSE w \in Rows : w[1] = f)[2]
  BY DEF Sums
<1>3. \E w \in Rows : w[1] = f
  BY <1>2
<1>4. PICK w \in Rows : w[1] = f /\ Sums[f] = w[2]
  BY <1>2, <1>3
<1> QED BY <1>1, <1>4 DEF IsRow

\* Arithmetic on values.
LEMMA ArithmeticType ==
    ASSUME NEW v, NEW x, (\A i \in DOMAIN v : v[i] # NaN) => x \in Int
    PROVE  Arithmetic(v, x) \in Number
BY DEF Arithmetic, Number

LEMMA NormType ==
    ASSUME NEW v, v[1] \in Int, v[2] \in Int
    PROVE  /\ Norm(v) \in Nat
           /\ v[1] # 0 \/ v[2] # 0 => Norm(v) > 0
<1> DEFINE n == v[1] * v[1] + v[2] * v[2]
<1>1. \A x \in Int : x * x \in Nat /\ (x # 0 => x * x > 0)
  <2> SUFFICES ASSUME NEW x \in Int PROVE x * x \in Nat /\ (x # 0 => x * x > 0)
    OBVIOUS
  <2>1. CASE x > 0
    BY <2>1
  <2>2. CASE x = 0
    BY <2>2
  <2>3. CASE x < 0
    BY <2>3
  <2> QED BY <2>1, <2>2, <2>3
<1>2. n \in Nat /\ (v[1] # 0 \/ v[2] # 0 => n > 0)
  <2>1. /\ v[1] * v[1] \in Nat /\ (v[1] # 0 => v[1] * v[1] > 0)
        /\ v[2] * v[2] \in Nat /\ (v[2] # 0 => v[2] * v[2] > 0)
    BY <1>1
  <2> DEFINE a == v[1] * v[1]
             b == v[2] * v[2]
  <2>2. /\ a \in Nat /\ (v[1] # 0 => a > 0) /\ b \in Nat /\ (v[2] # 0 => b > 0)
        /\ n = a + b
    BY <2>1
  <2> HIDE DEF a, b, n
  <2> QED BY <2>2
<1>3. Norm(v) = Root(n)
  BY DEF Norm
<1> HIDE DEF n
<1> QED BY <1>2, <1>3, RootType

\* The values of parcels.
LEMMA ParcelType ==
    ASSUME NEW v \in Seq(Number), NEW i \in 1 .. Len(v)
    PROVE  v[i] \in Number /\ (v[i] # NaN => v[i] \in Int) /\ DOMAIN v = 1 .. Len(v)
BY DEF Number

LEMMA PowerType ==
    ASSUME NEW f \in {1, 2, 3, 5, 9}, NEW v \in Seq(Number),
           f = 1 => Len(v) = 3, f \in {2, 3, 9} => Len(v) = 2, f = 5 => Len(v) = 1
    PROVE  Power(f, v) \in Number
<1>0. 0 \in Number /\ NaN \in Number
  BY DEF Number
<1> USE FloatAssumption
<1>1. CASE f = 1
  <2>1. Power(f, v) = IF Less(0, v[3]) THEN Arithmetic(v, (57735 * Norm(v)) \div v[3])
                                       ELSE 0
    BY <1>1 DEF Power
  <2>2. ASSUME Less(0, v[3]), \A i \in DOMAIN v : v[i] # NaN
        PROVE  (57735 * Norm(v)) \div v[3] \in Int
    <3>1. v[1] \in Int /\ v[2] \in Int /\ v[3] \in Int /\ v[3] > 0
      BY <1>1, <2>2, ParcelType DEF Less
    <3>2. Norm(v) \in Nat
      BY <3>1, NormType
    <3>3. 57735 * Norm(v) \in Int
      BY <3>2
    <3> QED BY <3>1, <3>3
  <2>3. Less(0, v[3]) => Arithmetic(v, (57735 * Norm(v)) \div v[3]) \in Number
    BY <2>2, ArithmeticType
  <2> QED BY <1>0, <2>1, <2>3
<1>2. CASE f = 2
  <2>1. Power(f, v) = IF v[1] = 0 /\ v[2] = 0 THEN NaN
                      ELSE Arithmetic(v, (100 * v[1]) \div Norm(v))
    BY <1>2 DEF Power
  <2>2. ASSUME v[1] # 0 \/ v[2] # 0, \A i \in DOMAIN v : v[i] # NaN
        PROVE  (100 * v[1]) \div Norm(v) \in Int
    <3>1. v[1] \in Int /\ v[2] \in Int
      BY <1>2, <2>2, ParcelType
    <3>2. Norm(v) \in Nat /\ Norm(v) > 0
      BY <2>2, <3>1, NormType
    <3>3. 100 * v[1] \in Int
      BY <3>1
    <3> QED BY <3>2, <3>3
  <2>3. v[1] # 0 \/ v[2] # 0 => Arithmetic(v, (100 * v[1]) \div Norm(v)) \in Number
    BY <2>2, ArithmeticType
  <2> QED BY <1>0, <2>1, <2>3
<1>3. CASE f = 3
  <2>1. Power(f, v) = Arithmetic(v, Norm(v))
    BY <1>3 DEF Power
  <2>2. ASSUME \A i \in DOMAIN v : v[i] # NaN PROVE Norm(v) \in Int
    <3>0. Len(v) = 2
      BY <1>3
    <3>1. v[1] \in Int /\ v[2] \in Int
      BY <2>2, <3>0, ParcelType
    <3> QED BY <3>1, NormType
  <2> QED BY <2>1, <2>2, ArithmeticType
<1>4. CASE f = 5
  <2>1. Power(f, v) = IF Less(v[1], 0) THEN NaN ELSE Arithmetic(v, Root(100 * v[1]))
    BY <1>4 DEF Power
  <2>2. ASSUME ~Less(v[1], 0), \A i \in DOMAIN v : v[i] # NaN
        PROVE  Root(100 * v[1]) \in Int
    <3>1. v[1] \in Int /\ (~(v[1] < 0) \/ NaN \in {v[1], 0})
      BY <1>4, <2>2, ParcelType DEF Less
    <3>2. v[1] # NaN /\ NaN # 0
      BY <1>4, <2>2, ParcelType
    <3>3. 100 * v[1] \in Nat
      BY <3>1, <3>2
    <3> QED BY <3>3, RootType
  <2>3. ~Less(v[1], 0) => Arithmetic(v, Root(100 * v[1])) \in Number
    BY <2>2, ArithmeticType
  <2> QED BY <1>0, <2>1, <2>3
<1>5. CASE f = 9
  <2>1. Power(f, v) = Arithmetic(v, (v[1] * v[2] * Root(30000)) \div 10000000)
    BY <1>5 DEF Power
  <2>2. ASSUME \A i \in DOMAIN v : v[i] # NaN
        PROVE  (v[1] * v[2] * Root(30000)) \div 10000000 \in Int
    <3>0. Len(v) = 2
      BY <1>5
    <3>1. v[1] \in Int /\ v[2] \in Int
      BY <2>2, <3>0, ParcelType
    <3>2. Root(30000) \in Int
      BY RootType
    <3>3. v[1] * v[2] \in Int
      BY <3>1
    <3>4. v[1] * v[2] * Root(30000) \in Int
      BY <3>2, <3>3
    <3> QED BY <3>4
  <2> QED BY <2>1, <2>2, ArithmeticType
<1> QED BY <1>1, <1>2, <1>3, <1>4, <1>5

LEMMA WeightedType ==
    ASSUME NEW f \in DOMAIN Sums, NEW v \in Seq(Number), Len(v) = Len(Sums[f])
    PROVE  Arithmetic(v, WeightedSum(f, v)) \in Number
<1> DEFINE s == [i \in DOMAIN v |-> (Sums[f][i] * v[i]) \div 100]
<1>1. SUFFICES ASSUME \A i \in DOMAIN v : v[i] # NaN PROVE WeightedSum(f, v) \in Int
  BY ArithmeticType
<1>2. s \in Seq(Int)
  <2>1. ASSUME NEW i \in 1 .. Len(v) PROVE (Sums[f][i] * v[i]) \div 100 \in Int
    <3>1. v[i] \in Int
      BY <1>1, ParcelType
    <3>2. Sums[f][i] \in Int
      BY SumsType
    <3>3. Sums[f][i] * v[i] \in Int
      BY <3>1, <3>2
    <3> QED BY <3>3
  <2>2. DOMAIN v = 1 .. Len(v) /\ Len(v) \in Nat
    OBVIOUS
  <2> QED BY <2>1, <2>2
<1>3. WeightedSum(f, v) = Sum(s) - (IF f = 13 THEN 100 ELSE 0)
  BY DEF WeightedSum
<1> HIDE DEF s
<1>4. Sum(s) \in Int
  BY <1>2, SumType
<1> QED BY <1>3, <1>4

LEMMA SpanType ==
    ASSUME NEW v \in Seq(Number)
    PROVE  Span(v) \in Number
<1> DEFINE numbers == {v[i] : i \in DOMAIN v} \ {NaN}
           max == CHOOSE x \in numbers : \A y \in numbers : y <= x
           min == CHOOSE x \in numbers : \A y \in numbers : x <= y
<1>1. Span(v) = IF numbers = {} THEN -2 * MaxFloat ELSE max - min
  BY DEF Span
<1>2. CASE numbers = {}
  <2>1. Span(v) = -2 * MaxFloat
    BY <1>1, <1>2
  <2>2. -2 * MaxFloat \in Int
    BY FloatAssumption
  <2> QED BY <2>1, <2>2 DEF Number
<1>3. CASE numbers # {}
  <2>1. /\ numbers \subseteq Int
        /\ \E x \in numbers : \A y \in numbers : y <= x
        /\ \E x \in numbers : \A y \in numbers : x <= y
    <3> DEFINE T == numbers
    <3>1. T = {v[i] : i \in DOMAIN v} \ {NaN} /\ T # {}
      BY <1>3
    <3> HIDE DEF T
    <3>2. /\ T \subseteq Int
          /\ \E x \in T : \A y \in T : y <= x
          /\ \E x \in T : \A y \in T : x <= y
      BY <3>1, ExtremesOf
    <3> QED BY <3>2 DEF T
  <2> HIDE DEF numbers
  <2>2. max \in numbers /\ min \in numbers
    BY <2>1
  <2> HIDE DEF max, min
  <2>3. max - min \in Int
    BY <2>1, <2>2
  <2> QED BY <1>1, <1>3, <2>3 DEF Number
<1> QED BY <1>2, <1>3

LEMMA BitType == \A b \in BOOLEAN : Bit(b) \in Number
BY DEF Bit, Number

LEMMA AggregateType ==
    ASSUME NEW f \in {4, 6, 7, 10, 53, 500}, NEW v \in Seq(Number)
    PROVE  Aggregate(f, v) \in Number
<1>1. ASSUME \A i \in DOMAIN v : v[i] # NaN PROVE Sum(v) \in Int /\ -Sum(v) \in Int
  <2>1. v \in Seq(Int)
    BY <1>1, ParcelType
  <2>2. Sum(v) \in Int
    BY <2>1, SumType
  <2> QED BY <2>2
<1>2. CASE f = 4
  BY <1>1, <1>2, ArithmeticType DEF Aggregate
<1>3. CASE f = 10
  BY <1>1, <1>3, ArithmeticType DEF Aggregate
<1>4. CASE f = 6
  BY <1>4 DEF Aggregate, Bit, Number
<1>5. CASE f \in {7, 500}
  <2>1. Aggregate(f, v) = Bit(\E i \in DOMAIN v : v[i] # 0)
    <3>1. CASE f = 7
      BY <3>1 DEF Aggregate
    <3>2. CASE f = 500
      BY <3>2 DEF Aggregate
    <3> QED BY <1>5, <3>1, <3>2
  <2> QED BY <2>1 DEF Bit, Number
<1>6. CASE f = 53
  BY <1>6, SpanType DEF Aggregate
<1> QED BY <1>2, <1>3, <1>4, <1>5, <1>6

LEMMA DivisionType ==
    ASSUME NEW v \in Seq(Number), Len(v) = 2
    PROVE  Division(v) \in Number
<1>1. ASSUME v[2] # 0, \A i \in DOMAIN v : v[i] # NaN
      PROVE  Quotient(100 * v[1], v[2]) \in Int
  <2>1. v[1] \in Int /\ v[2] \in Int
    BY <1>1, ParcelType
  <2> DEFINE a == 100 * v[1]
  <2>2. a \in Int /\ -a \in Int
    BY <2>1
  <2> HIDE DEF a
  <2>3. CASE v[2] > 0
    BY <2>1, <2>2, <2>3 DEF Quotient
  <2>4. CASE v[2] < 0
    <3>1. -v[2] > 0 /\ -v[2] \in Int /\ ~(v[2] > 0)
      BY <2>1, <2>4
    <3>2. Quotient(a, v[2]) = (-a) \div (-v[2])
      BY <3>1 DEF Quotient
    <3> QED BY <2>2, <3>1, <3>2 DEF a
  <2> QED BY <1>1, <2>1, <2>3, <2>4 DEF a
<1>2. v[2] # 0 => Arithmetic(v, Quotient(100 * v[1], v[2])) \in Number
  BY <1>1, ArithmeticType
<1>3. 0 \in Number /\ MaxFloat \in Number /\ -MaxFloat \in Number
  BY FloatAssumption DEF Number
<1> QED BY <1>2, <1>3 DEF Division

LEMMA ChoiceType ==
    ASSUME NEW v \in Seq(Number), NEW q \in Seq(BOOLEAN), Len(q) = Len(v), v # <<>>
    PROVE  Choice(v, q) \in Document
<1> DEFINE good == {i \in DOMAIN q : ~q[i]}
           last == CHOOSE i \in good : \A j \in good : j <= i
<1>1. Choice(v, q) = IF good = {} THEN Result(v[1], q[1]) ELSE Result(v[last], FALSE)
  BY DEF Choice
<1>2. Len(v) \in Nat /\ 1 \in 1 .. Len(v) /\ good \subseteq 1 .. Len(v)
  OBVIOUS
<1>3. v[1] \in Number /\ q[1] \in BOOLEAN
  BY <1>2
<1>4. good # {} => v[last] \in Number
  <2> HIDE DEF good
  <2>1. good # {} => \E i \in good : \A j \in good : j <= i
    BY <1>2, LastOf
  <2>2. good # {} => last \in good
    BY <2>1
  <2> HIDE DEF last
  <2>3. good # {} => last \in 1 .. Len(v)
    BY <1>2, <2>2
  <2> QED BY <2>3
<1> HIDE DEF good, last
<1> QED BY <1>1, <1>3, <1>4 DEF Result, Document

\* A formula that has the parcels it needs gives a value and a quality.
LEMMA FormulaType ==
    ASSUME NEW f, NEW v \in Seq(Number), NEW q \in Seq(BOOLEAN), Len(q) = Len(v),
           Computable(f, v)
    PROVE  Formula(f, v, q) \in Document
<1>1. ASSUME NEW x \in Number, NEW b \in BOOLEAN PROVE Result(x, b) \in Document
  BY DEF Result, Document
<1>2. AnyBad(q) \in BOOLEAN
  BY DEF AnyBad
<1>3. 0 \in Number /\ 100 \in Number
  BY DEF Number
<1>4. CASE f \in DOMAIN Sums
  <2>1. f \notin Others
    BY <1>4, SumsType
  <2>2. Len(v) = Len(Sums[f])
    BY <2>1 DEF Computable, Others
  <2>3. /\ f \notin {1, 2, 3, 5, 9} /\ f \notin {4, 6, 7, 10, 53, 500}
        /\ f # 14 /\ f # 26 /\ f # 55 /\ f \notin {220, 221} /\ f # 231
        /\ f \notin {50, 51} /\ f # 52 /\ f # 54 /\ f # 203
        /\ f \notin {216, 218, 219} /\ f # 225
    BY <2>1 DEF Others, OneParcel, TwoParcels, ThreeParcels, AnyNumber
  <2>4. Formula(f, v, q) = Result(Arithmetic(v, WeightedSum(f, v)), AnyBad(q))
    BY <1>4, <2>3 DEF Formula
  <2> QED BY <1>1, <1>2, <1>4, <2>2, <2>4, WeightedType
<1>5. CASE f \notin DOMAIN Sums
  <2> USE <1>5 DEF OneParcel, TwoParcels, ThreeParcels, AnyNumber
  <2>1. CASE f \in {1, 2, 3, 5, 9}
    <3>1. f = 1 => Len(v) = 3
      BY DEF Computable
    <3>2. f \in {2, 3, 9} => Len(v) = 2
      BY DEF Computable
    <3>3. f = 5 => Len(v) = 1
      BY DEF Computable
    <3>4. Formula(f, v, q) = Result(Power(f, v), AnyBad(q))
      <4>1. CASE f = 1
        BY <4>1 DEF Formula
      <4>2. CASE f = 2
        BY <4>2 DEF Formula
      <4>3. CASE f = 3
        BY <4>3 DEF Formula
      <4>4. CASE f = 5
        BY <4>4 DEF Formula
      <4>5. CASE f = 9
        BY <4>5 DEF Formula
      <4> QED BY <2>1, <4>1, <4>2, <4>3, <4>4, <4>5
    <3> QED BY <1>1, <1>2, <2>1, <3>1, <3>2, <3>3, <3>4, PowerType
  <2>2. CASE f \in {4, 6, 7, 10, 53, 500}
    <3>1. Formula(f, v, q) = Result(Aggregate(f, v), AnyBad(q))
      <4>1. CASE f = 4
        BY <4>1 DEF Formula
      <4>2. CASE f = 6
        BY <4>2 DEF Formula
      <4>3. CASE f = 7
        BY <4>3 DEF Formula
      <4>4. CASE f = 10
        BY <4>4 DEF Formula
      <4>5. CASE f = 53
        BY <4>5 DEF Formula
      <4>6. CASE f = 500
        BY <4>6 DEF Formula
      <4> QED BY <2>2, <4>1, <4>2, <4>3, <4>4, <4>5, <4>6
    <3> QED BY <1>1, <1>2, <2>2, <3>1, AggregateType
  <2>3. CASE f = 14
    <3>1. Len(v) = 1
      BY <2>3 DEF Computable
    <3>2. (\A i \in DOMAIN v : v[i] # NaN) => (10 * v[1]) \div 6 \in Int
      <4>1. (\A i \in DOMAIN v : v[i] # NaN) => v[1] \in Int
        BY <3>1, ParcelType
      <4> QED BY <4>1
    <3>3. Arithmetic(v, (10 * v[1]) \div 6) \in Number
      BY <3>2, ArithmeticType
    <3>4. Formula(f, v, q) = Result(Arithmetic(v, (10 * v[1]) \div 6), AnyBad(q))
      BY <2>3 DEF Formula
    <3> QED BY <1>1, <1>2, <3>3, <3>4
  <2>4. CASE f \in {26, 55, 220, 221}
    <3>1. Len(v) = 2 /\ v[1] \in Number /\ v[2] \in Number
      BY <2>4 DEF Computable
    <3>2. CASE f = 26
      <4>1. Formula(f, v, q) = Result(Threshold(v), AnyBad(q))
        BY <3>2 DEF Formula
      <4>2. Threshold(v) \in Number
        BY <1>3, <3>1 DEF Threshold
      <4> QED BY <1>1, <1>2, <4>1, <4>2
    <3>3. CASE f = 55
      <4>1. Formula(f, v, q) = Result(Division(v), AnyBad(q))
        BY <3>3 DEF Formula
      <4> QED BY <1>1, <1>2, <3>1, <4>1, DivisionType
    <3>4. CASE f \in {220, 221}
      <4>1. Formula(f, v, q) = Result(Extreme(f, v), AnyBad(q))
        <5>1. CASE f = 220
          BY <5>1 DEF Formula
        <5>2. CASE f = 221
          BY <5>2 DEF Formula
        <5> QED BY <3>4, <5>1, <5>2
      <4>2. Extreme(f, v) \in Number
        BY <3>1 DEF Extreme
      <4> QED BY <1>1, <1>2, <4>1, <4>2
    <3> QED BY <2>4, <3>2, <3>3, <3>4
  <2>5. CASE f = 231
    <3>1. v[1] \in Number
      BY <2>5 DEF Computable
    <3>2. Formula(f, v, q) = Result(IF Less(0, v[1]) THEN 0 ELSE v[1], AnyBad(q))
      BY <2>5 DEF Formula
    <3> QED BY <1>1, <1>2, <1>3, <3>1, <3>2
  <2>6. CASE f \in {50, 51}
    <3>1. v # <<>>
      BY <2>6 DEF Computable
    <3>2. Formula(f, v, q) = Choice(v, q)
      <4>1. CASE f = 50
        BY <4>1 DEF Formula
      <4>2. CASE f = 51
        BY <4>2 DEF Formula
      <4> QED BY <2>6, <4>1, <4>2
    <3> QED BY <3>1, <3>2, ChoiceType
  <2>7. CASE f = 52
    <3>1. Formula(f, v, q) = Result(Bit(\E i \in DOMAIN q : ~q[i]), FALSE)
      BY <2>7 DEF Formula
    <3> QED BY <1>1, <3>1, BitType
  <2>8. CASE f = 54
    <3>1. v[1] \in Number
      BY <2>8 DEF Computable
    <3>2. Formula(f, v, q) = DoublePoint(v, q)
      BY <2>8 DEF Formula
    <3> DEFINE x == IF v[1] = 0 /\ v[2] # 0 THEN 0
                    ELSE IF v[1] # 0 /\ v[2] = 0 THEN 100 ELSE v[1]
    <3>3. x \in Number
      BY <1>3, <3>1
    <3>4. DoublePoint(v, q) = Result(x, ~Differ(v[1], v[2]) \/ AnyBad(q))
      BY DEF DoublePoint
    <3> HIDE DEF x
    <3> QED BY <1>1, <3>2, <3>3, <3>4
  <2>9. CASE f \in {203, 216, 218, 219}
    <3>0. Len(v) = 3 /\ Len(q) = 3
      BY <2>9 DEF Computable
    <3>1. /\ v[2] \in Number /\ v[3] \in Number
          /\ q[1] \in BOOLEAN /\ q[2] \in BOOLEAN /\ q[3] \in BOOLEAN
      BY <3>0
    <3>2. CASE f = 203
      <4>1. Formula(f, v, q) \in {Result(v[2], q[2]), Result(v[3], q[3])}
        BY <3>2 DEF Formula
      <4> QED BY <1>1, <3>1, <4>1
    <3>3. CASE f \in {216, 218, 219}
      <4>1. Formula(f, v, q) = Between(f, v, q)
        <5>1. CASE f = 216
          BY <5>1 DEF Formula
        <5>2. CASE f = 218
          BY <5>2 DEF Formula
        <5>3. CASE f = 219
          BY <5>3 DEF Formula
        <5> QED BY <3>3, <5>1, <5>2, <5>3
      <4> DEFINE x == Bit(/\ AtMost(v[2], v[1]) /\ (f = 218 => Less(v[2], v[1]))
                          /\ AtMost(v[1], v[3]) /\ (f = 219 => Less(v[1], v[3])))
      <4>2. Between(f, v, q) = Result(x, q[1])
        BY DEF Between
      <4>3. x \in Number
        BY <1>3 DEF Bit
      <4> HIDE DEF x
      <4> QED BY <1>1, <3>1, <4>1, <4>2, <4>3
    <3> QED BY <2>9, <3>2, <3>3
  <2>10. CASE f = 225
    <3>1. Formula(f, v, q) = Result(100, FALSE)
      BY <2>10 DEF Formula
    <3> QED BY <1>1, <1>3, <3>1
  <2>11. f \in Others
    BY DEF Computable, Others
  <2> QED BY <2>1, <2>2, <2>3, <2>4, <2>5, <2>6, <2>7, <2>8, <2>9, <2>10, <2>11
         DEF Others
<1> QED BY <1>4, <1>5

\* The variables of the nodes have an entry for each of them.
NodeType ==
    /\ active \in [Nodes -> BOOLEAN]
    /\ late \in [Nodes -> 0 .. 2]
    /\ DOMAIN vals = Nodes

\* Every action keeps the entries of the nodes.
LEMMA NodeTypeStep == NodeType /\ [Next]_vars => NodeType'
<1> SUFFICES ASSUME NodeType, [Next]_vars PROVE NodeType'
  OBVIOUS
<1> USE DEF NodeType
<1>1. ASSUME NEW n \in Nodes, NEW p \in Points, Read(n, p) PROVE NodeType'
  BY <1>1 DEF Read
<1>2. ASSUME NEW n \in Nodes, WriteBack(n) PROVE NodeType'
  BY <1>2 DEF WriteBack
<1>3. ASSUME NEW n \in Nodes, Dies(n) PROVE NodeType'
  BY <1>3 DEF Dies
<1>4. ASSUME NEW n \in Nodes, Deactivate(n) PROVE NodeType'
  BY <1>4 DEF Deactivate
<1>5. ASSUME NEW n \in Nodes, Activate(n) PROVE NodeType'
  BY <1>5 DEF Activate
<1>6. ASSUME NEW p \in Points, Apply(p) PROVE NodeType'
  BY <1>6 DEF Apply
<1>7. ASSUME NEW p \in Points, NEW m \in Readings, Measure(p, m) PROVE NodeType'
  BY <1>7 DEF Measure
<1>8. CASE UNCHANGED vars
  BY <1>8 DEF vars
<1> QED BY <1>1, <1>2, <1>3, <1>4, <1>5, <1>6, <1>7, <1>8 DEF Next

-----------------------------------------------------------------------------
(* Types of the documents, of what is read and of what is written.         *)

ReadTypes ==
    \A n \in Nodes : /\ DOMAIN vals[n] \subseteq Points
                     /\ \A p \in DOMAIN vals[n] : vals[n][p] \in Document

PendingTypes ==
    /\ pending \in [Points -> Seq(Document)]
    /\ \A p \in Points : /\ Len(pending[p]) <= MaxPending
                         /\ p \notin Calculated => pending[p] = <<>>

Types ==
    /\ NodeType
    /\ conf \in Configs
    /\ db \in [Points -> Document]
    /\ ReadTypes
    /\ PendingTypes

\* What is worked out from documents is a document (the result of a formula
\* that cannot be computed is not used).
LEMMA ResultType ==
    ASSUME conf \in Configs, NEW r, DOMAIN r = Points,
           \A p \in Points : r[p] \in Document,
           NEW c \in Calculated, HasResult(r, c)
    PROVE  c \in Points /\ ResultOf(r, c) \in Document
<1> DEFINE s == conf[c].parcels
           v == ParcelValues(r, c)
           q == ParcelFlags(r, c)
<1>1. c \in Points /\ s \in Seq(Points)
  BY ConfigAssumption DEF Calculated
<1>2. /\ DOMAIN s = 1 .. Len(s) /\ Len(s) \in Nat
      /\ \A i \in 1 .. Len(s) : s[i] \in Points
  BY <1>1
<1>3. /\ v = [i \in 1 .. Len(s) |-> r[s[i]].value]
      /\ q = [i \in 1 .. Len(s) |-> r[s[i]].invalid]
  BY <1>2 DEF ParcelValues, ParcelFlags
<1>4. ASSUME NEW i \in 1 .. Len(s)
      PROVE  r[s[i]].value \in Number /\ r[s[i]].invalid \in BOOLEAN
  BY <1>2 DEF Document
<1>5. Computable(conf[c].formula, v)
  BY DEF HasResult
<1>6. ResultOf(r, c) = Formula(conf[c].formula, v, q)
  BY DEF ResultOf
<1> HIDE DEF s, v, q
<1>7. v \in Seq(Number) /\ q \in Seq(BOOLEAN) /\ Len(q) = Len(v)
  BY <1>2, <1>3, <1>4
<1> QED BY <1>1, <1>5, <1>6, <1>7, FormulaType

\* Every action keeps the types; the bulk write (WriteBack) is the one that
\* could break them.
LEMMA TypesStep == Types /\ [Next]_vars => Types'
<1> SUFFICES ASSUME Types, [Next]_vars PROVE Types'
  OBVIOUS
<1>0. NodeType'
  BY NodeTypeStep DEF Types
<1> USE DEF Types, NodeType
<1> DEFINE Rest == (conf \in Configs /\ db \in [Points -> Document] /\ ReadTypes
                     /\ PendingTypes)'
<1> SUFFICES Rest
  BY <1>0
<1>1. ASSUME NEW n \in Nodes, NEW p \in Points, Read(n, p) PROVE Rest
  <2> USE <1>1
  <2>1. UNCHANGED <<conf, db, pending>>
    BY DEF Read
  <2>2. PendingTypes'
    BY <2>1 DEF PendingTypes, Calculated
  <2> DEFINE r == Extended(vals[n], p, db[p])
  <2>3. DOMAIN r \subseteq Points /\ \A o \in DOMAIN r : r[o] \in Document
    BY DEF Extended, ReadTypes
  <2>4. vals' = [vals EXCEPT ![n] = r]
    BY DEF Read
  <2> HIDE DEF r
  <2>5. ReadTypes'
    BY <2>3, <2>4 DEF ReadTypes
  <2> QED BY <2>1, <2>2, <2>5
<1>2. ASSUME NEW n \in Nodes, WriteBack(n) PROVE Rest
  <2> DEFINE r == vals[n]
             opers == {c \in Calculated : Changed(r, c)}
  <2>1. /\ UNCHANGED <<conf, db>> /\ DOMAIN r = Points
        /\ \A c \in opers : Len(pending[c]) < MaxPending
        /\ pending' = [p \in Points |->
               IF p \in opers THEN Append(pending[p], ResultOf(r, p)) ELSE pending[p]]
        /\ vals' = [vals EXCEPT ![n] = <<>>]
    BY <1>2 DEF WriteBack
  <2>2. \A p \in Points : r[p] \in Document
    BY <2>1 DEF ReadTypes
  <2>3. ASSUME NEW c \in opers PROVE ResultOf(r, c) \in Document
    <3>1. c \in Calculated /\ HasResult(r, c)
      BY DEF Changed
    <3> HIDE DEF r, opers
    <3> QED BY <2>1, <2>2, <3>1, ResultType
  <2>4. ASSUME NEW p \in Points
        PROVE  /\ pending'[p] \in Seq(Document) /\ Len(pending'[p]) <= MaxPending
               /\ p \notin Calculated => pending'[p] = <<>>
    <3>0. pending[p] \in Seq(Document) /\ Len(pending[p]) \in Nat /\ MaxPending \in Nat
      BY PendingAssumption DEF PendingTypes
    <3>1. CASE p \in opers
      <4>1. pending'[p] = Append(pending[p], ResultOf(r, p)) /\ p \in Calculated
        BY <2>1, <3>1
      <4>2. ResultOf(r, p) \in Document /\ Len(pending[p]) < MaxPending
        BY <2>1, <2>3, <3>1
      <4> HIDE DEF r, opers
      <4> QED BY <3>0, <4>1, <4>2
    <3>2. CASE p \notin opers
      <4>1. pending'[p] = pending[p]
        BY <2>1, <3>2
      <4> QED BY <3>0, <4>1 DEF PendingTypes
    <3> QED BY <3>1, <3>2
  <2> HIDE DEF r, opers
  <2>5. pending' \in [Points -> Seq(Document)]
    BY <2>1, <2>4
  <2>6. Calculated' = Calculated
    BY <2>1 DEF Calculated
  <2>7. PendingTypes'
    BY <2>4, <2>5, <2>6 DEF PendingTypes
  <2>8. ReadTypes'
    BY <2>1 DEF ReadTypes
  <2> QED BY <2>1, <2>7, <2>8
<1>3. ASSUME NEW n \in Nodes, Dies(n) PROVE Rest
  BY <1>3 DEF Dies, ReadTypes, PendingTypes, Calculated
<1>4. ASSUME NEW n \in Nodes, Deactivate(n) PROVE Rest
  BY <1>4 DEF Deactivate, ReadTypes, PendingTypes, Calculated
<1>5. ASSUME NEW n \in Nodes, Activate(n) PROVE Rest
  BY <1>5 DEF Activate, ReadTypes, PendingTypes, Calculated
<1>6. ASSUME NEW p \in Points, Apply(p) PROVE Rest
  <2>1. /\ pending[p] # <<>> /\ UNCHANGED <<conf, vals>>
        /\ db' = [db EXCEPT ![p] = Head(pending[p])]
        /\ pending' = [pending EXCEPT ![p] = Tail(@)]
    BY <1>6 DEF Apply
  <2>2. /\ Head(pending[p]) \in Document /\ Tail(pending[p]) \in Seq(Document)
        /\ Len(Tail(pending[p])) <= MaxPending
    <3>1. /\ pending[p] \in Seq(Document) /\ Len(pending[p]) <= MaxPending
          /\ MaxPending \in Nat
      BY PendingAssumption DEF PendingTypes
    <3> QED BY <2>1, <3>1
  <2>3. p \in Calculated
    BY <2>1 DEF PendingTypes
  <2>4. PendingTypes'
    BY <2>1, <2>2, <2>3 DEF PendingTypes, Calculated
  <2> QED BY <2>1, <2>2, <2>4 DEF ReadTypes
<1>7. ASSUME NEW p \in Points, NEW m \in Readings, Measure(p, m) PROVE Rest
  <2>1. m \in Document
    BY ReadingAssumption
  <2> QED BY <1>7, <2>1 DEF Measure, ReadTypes, PendingTypes, Calculated
<1>8. CASE UNCHANGED vars
  BY <1>8 DEF vars, ReadTypes, PendingTypes, Calculated
<1> HIDE DEF Rest
<1> QED BY <1>1, <1>2, <1>3, <1>4, <1>5, <1>6, <1>7, <1>8 DEF Next

\* Every document has a value, a number or NaN, and a quality, and so has every
\* update written for one: no formula of calculations.go, given the parcels it
\* asks for, works out anything else, whatever they show.  Updates are written
\* for calculated points only.
THEOREM TypeCorrect == Spec => []TypeOK
<1>1. Init => Types
  <2> SUFFICES ASSUME Init PROVE Types
    OBVIOUS
  <2> USE DEF Init
  <2>1. [value |-> 0, invalid |-> TRUE] \in Document
    BY DEF Document, Number
  <2>2. ReadTypes
    BY DEF ReadTypes
  <2>3. PendingTypes
    BY PendingAssumption DEF PendingTypes
  <2> QED BY <2>1, <2>2, <2>3 DEF Types, NodeType
<1>2. Types => TypeOK
  BY DEF Types, NodeType, ReadTypes, PendingTypes, TypeOK
<1> QED BY <1>1, <1>2, TypesStep, PTL DEF Spec

-----------------------------------------------------------------------------
(* The cycles of a node that lost its role.                                *)

\* An active node is late with nothing; a standby node either has written
\* nothing since, or has written the cycle it was in and begun no other.
LateInv ==
    \A n \in Nodes :
        /\ active[n] => late[n] = 0
        /\ late[n] # 0 => late[n] = 1 /\ vals[n] = <<>>

CycleInv == NodeType /\ LateInv

\* A cycle is complete only when it has read something, so it is not the
\* cycle that has yet to begin.
LEMMA CompleteHasBegun ==
    ASSUME NEW r, DOMAIN r = Points
    PROVE  r # <<>>
<1>1. Points # {}
  BY PointsAssumption
<1>2. DOMAIN <<>> = {}
  OBVIOUS
<1> QED BY <1>1, <1>2

\* Every action keeps the account of the late cycles: a standby node begins
\* no cycle (Read), and the one it completes was begun before (WriteBack).
LEMMA LateStep == CycleInv /\ [Next]_vars => LateInv'
<1> SUFFICES ASSUME CycleInv, [Next]_vars, NEW m \in Nodes
             PROVE  /\ active'[m] => late'[m] = 0
                    /\ late'[m] # 0 => late'[m] = 1 /\ vals'[m] = <<>>
  BY DEF LateInv
<1> USE DEF CycleInv, NodeType, LateInv
<1>1. ASSUME NEW n \in Nodes, NEW p \in Points, Read(n, p)
      PROVE  /\ UNCHANGED <<active, late>>
             /\ late[m] # 0 => vals'[m] = vals[m]
  BY <1>1 DEF Read
<1>2. ASSUME NEW n \in Nodes, WriteBack(n)
      PROVE  /\ UNCHANGED active
             /\ m # n => late'[m] = late[m] /\ vals'[m] = vals[m]
             /\ m = n => late'[m] = (IF active[m] THEN 0 ELSE 1) /\ vals'[m] = <<>>
  <2>1. late[n] = 0
    BY <1>2, CompleteHasBegun DEF WriteBack
  <2> QED BY <1>2, <2>1 DEF WriteBack
<1>3. ASSUME NEW n \in Nodes, Dies(n)
      PROVE  /\ m # n => active'[m] = active[m] /\ late'[m] = late[m] /\ vals'[m] = vals[m]
             /\ m = n => late'[m] = 0
  BY <1>3 DEF Dies
<1>4. ASSUME NEW n \in Nodes, Deactivate(n)
      PROVE  /\ UNCHANGED <<late, vals>>
             /\ active'[m] => active[m]
  BY <1>4 DEF Deactivate
<1>5. ASSUME NEW n \in Nodes, Activate(n)
      PROVE  /\ UNCHANGED vals
             /\ m # n => active'[m] = active[m] /\ late'[m] = late[m]
             /\ m = n => late'[m] = 0
  BY <1>5 DEF Activate
<1>6. ASSUME NEW p \in Points, Apply(p) PROVE UNCHANGED <<active, late, vals>>
  BY <1>6 DEF Apply
<1>7. ASSUME NEW p \in Points, NEW r \in Readings, Measure(p, r)
      PROVE  UNCHANGED <<active, late, vals>>
  BY <1>7 DEF Measure
<1>8. CASE UNCHANGED vars
  BY <1>8 DEF vars
<1>9. CASE \E n \in Nodes : \/ \E p \in Points : Read(n, p)
                           \/ WriteBack(n) \/ Dies(n)
                           \/ Deactivate(n) \/ Activate(n)
  BY <1>9, <1>1, <1>2, <1>3, <1>4, <1>5
<1>10. CASE \E p \in Points : Apply(p) \/ \E r \in Readings : Measure(p, r)
  BY <1>10, <1>6, <1>7
<1> QED BY <1>8, <1>9, <1>10 DEF Next

\* After it became standby a node completes at most the cycle it was in
\* (calculations.go tests isActive only when a cycle begins), however often the
\* role moves, the process dies or the data processor lags.
THEOREM LateOnlyOnce == Spec => []AtMostOneLateCycle
<1>1. Init => CycleInv
  BY DEF Init, CycleInv, NodeType, LateInv
<1>2. CycleInv /\ [Next]_vars => CycleInv'
  BY NodeTypeStep, LateStep DEF CycleInv
<1>3. CycleInv => AtMostOneLateCycle
  BY DEF CycleInv, NodeType, LateInv, AtMostOneLateCycle
<1> QED BY <1>1, <1>2, <1>3, PTL DEF Spec
=============================================================================
