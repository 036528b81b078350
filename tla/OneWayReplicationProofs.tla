---------------------- MODULE OneWayReplicationProofs ----------------------
(***************************************************************************)
(* Proofs about OneWayReplication, for every set of points and every value *)
(* of the limits: types, what is kept for the replay, and the count of     *)
(* lost messages.                                                          *)
(***************************************************************************)
EXTENDS OneWayReplication, SequenceTheorems, WellFoundedInduction, TLAPS

-----------------------------------------------------------------------------
(* Induction and recursion over the numbers, as facts about sets and       *)
(* functions.                                                              *)

\* A set of numbers that has 0 and every successor of its elements has all.
LEMMA InductionOnNat ==
    ASSUME NEW S, 0 \in S, \A m \in Nat : m \in S => m + 1 \in S
    PROVE  \A m \in Nat : m \in S
<1> DEFINE R == {p \in Nat \X Nat : p[1] < p[2]}
           T == {m \in Nat : m \notin S}
<1>1. IsWellFoundedOn(R, Nat)
  <2>1. OpToRel(<, Nat) = R
    BY DEF OpToRel
  <2> QED BY <2>1, NatLessThanWellFounded
<1>2. SUFFICES ASSUME T # {} PROVE FALSE
  OBVIOUS
<1>3. PICK x \in T : \A y \in T : <<y, x>> \notin R
  <2>1. T \subseteq Nat
    OBVIOUS
  <2> HIDE DEF R, T
  <2> QED BY <1>1, <1>2, <2>1, WFMin
<1>4. x # 0 /\ x \in Nat
  OBVIOUS
<1>5. x - 1 \in Nat /\ x - 1 < x /\ (x - 1) + 1 = x
  BY <1>4
<1>6. x - 1 \in T
  BY <1>5
<1>7. <<x - 1, x>> \in R
  BY <1>4, <1>5
<1> QED BY <1>3, <1>6, <1>7

\* G works in D, for the steps 1 .. n; f begins with b and takes them.
IsStep(G, D, n) == n \in Nat /\ G \in [D -> [1 .. n -> D]]

IsRun(f, b, G, D, n) ==
    /\ f \in [0 .. n -> D]
    /\ f[0] = b
    /\ \A m \in 1 .. n : f[m] = G[f[m - 1]][m]

\* A function on 0 .. n is defined by its value at 0 and a step.
LEMMA RecursionOnNat ==
    ASSUME NEW D, NEW b \in D, NEW n, NEW G, IsStep(G, D, n)
    PROVE  \E f : IsRun(f, b, G, D, n)
<1> USE DEF IsStep
<1> DEFINE Def(f, k) == f[0] = b /\ \A m \in 1 .. k : f[m] = G[f[m - 1]][m]
           Exists(k) == \E f \in [0 .. k -> D] : Def(f, k)
           S == {k \in Nat : k <= n => Exists(k)}
<1>1. 0 \in S
  <2>1. [m \in 0 .. 0 |-> b] \in [0 .. 0 -> D] /\ Def([m \in 0 .. 0 |-> b], 0)
    OBVIOUS
  <2> QED BY <2>1
<1>2. ASSUME NEW k \in Nat, k \in S PROVE k + 1 \in S
  <2> SUFFICES ASSUME k + 1 <= n PROVE Exists(k + 1)
    <3> HIDE DEF Exists
    <3> QED OBVIOUS
  <2>0. Exists(k)
    <3> HIDE DEF Exists
    <3> QED BY <1>2
  <2>1. PICK f \in [0 .. k -> D] : Def(f, k)
    BY <2>0
  <2> DEFINE g == [m \in 0 .. k + 1 |-> IF m = k + 1 THEN G[f[k]][k + 1] ELSE f[m]]
  <2>2. G[f[k]][k + 1] \in D
    OBVIOUS
  <2>3. g \in [0 .. k + 1 -> D]
    BY <2>2
  <2>4. g[0] = b
    BY <2>1
  <2>5. ASSUME NEW m \in 1 .. k + 1 PROVE g[m] = G[g[m - 1]][m]
    <3>1. CASE m = k + 1
      <4>1. g[k + 1] = G[f[k]][k + 1] /\ g[k] = f[k]
        OBVIOUS
      <4>2. m - 1 = k
        BY <3>1
      <4> HIDE DEF g
      <4> QED BY <3>1, <4>1, <4>2
    <3>2. CASE m \in 1 .. k
      BY <3>2, <2>1
    <3> QED BY <3>1, <3>2
  <2> HIDE DEF g
  <2> QED BY <2>3, <2>4, <2>5
<1>3. n \in S
  <2> HIDE DEF S
  <2> QED BY <1>1, <1>2, InductionOnNat
<1> QED BY <1>3 DEF IsRun

\* g takes the steps as long as it stays in D.
Follows(g, b, G, D, n) ==
    /\ g[0] = b
    /\ \A m \in 1 .. n : g[m - 1] \in D => g[m] = G[g[m - 1]][m]

\* A function that takes the same steps is the same.
LEMMA RunIsUnique ==
    ASSUME NEW D, NEW b \in D, NEW n \in Nat, NEW G,
           NEW f, IsRun(f, b, G, D, n), NEW g, Follows(g, b, G, D, n)
    PROVE  g[n] = f[n]
<1> USE DEF Follows
<1> DEFINE S == {k \in Nat : k <= n => g[k] = f[k]}
<1>1. 0 \in S
  BY DEF IsRun
<1>2. ASSUME NEW k \in Nat, k \in S PROVE k + 1 \in S
  <2> SUFFICES ASSUME k + 1 <= n PROVE g[k + 1] = f[k + 1]
    OBVIOUS
  <2>1. g[k] = f[k] /\ f[k] \in D
    BY <1>2 DEF IsRun
  <2>2. k + 1 \in 1 .. n /\ (k + 1) - 1 = k
    OBVIOUS
  <2>3. g[k + 1] = G[g[k]][k + 1]
    BY <2>1, <2>2
  <2>4. f[k + 1] = G[f[k]][k + 1]
    BY <2>2 DEF IsRun
  <2> QED BY <2>1, <2>3, <2>4
<1>3. \A m \in Nat : m \in S
  <2> HIDE DEF S
  <2> QED BY <1>1, <1>2, InductionOnNat
<1>4. n \in S
  BY <1>3
<1> QED BY <1>4

-----------------------------------------------------------------------------
(* The sum of a sequence.                                                  *)

\* f[m] is the sum of the first m numbers of s.
IsSum(f, s) ==
    /\ f \in [0 .. Len(s) -> Int]
    /\ f[0] = 0
    /\ \A m \in 1 .. Len(s) : f[m] = f[m - 1] + s[m]

LEMMA SumOf ==
    ASSUME NEW s \in Seq(Int)
    PROVE  \E f : IsSum(f, s) /\ Total(s) = f[Len(s)]
<1> DEFINE n == Len(s)
           G == [x \in Int |-> [m \in 1 .. n |-> x + s[m]]]
           Step(g) == [m \in 0 .. n |-> IF m = 0 THEN 0 ELSE g[m - 1] + s[m]]
           F == CHOOSE g : g = Step(g)
<1>1. n \in Nat /\ \A m \in 1 .. n : s[m] \in Int
  OBVIOUS
<1>2. IsStep(G, Int, n)
  BY <1>1 DEF IsStep
<1>3. PICK f : IsRun(f, 0, G, Int, n)
  <2> HIDE DEF G, n
  <2> QED BY <1>2, 0 \in Int, RecursionOnNat
<1>4. IsSum(f, s)
  <2>1. \A m \in 1 .. n : f[m - 1] \in Int
    BY <1>1, <1>3 DEF IsRun
  <2> QED BY <1>3, <2>1 DEF IsRun, IsSum
<1>5. f = Step(f)
  BY <1>1, <1>4 DEF IsSum
<1>6. F = Step(F)
  <2> HIDE DEF Step
  <2> QED BY <1>5
<1>7. Total(s) = F[n]
  BY DEF Total
<1> HIDE DEF F
<1>8. F[0] = 0 /\ \A m \in 1 .. n : F[m] = F[m - 1] + s[m]
  BY <1>1, <1>6
<1>9. \A m \in 1 .. n : F[m - 1] \in Int => F[m] = G[F[m - 1]][m]
  BY <1>1, <1>8
<1>10. Follows(F, 0, G, Int, n)
  BY <1>8, <1>9 DEF Follows
<1>11. F[n] = f[n]
  <2> DEFINE D == Int
             b == 0
  <2>1. b \in D /\ IsRun(f, b, G, D, n) /\ Follows(F, b, G, D, n) /\ n \in Nat
    BY <1>1, <1>3, <1>10
  <2> HIDE DEF G, n, D, b
  <2> QED BY <2>1, RunIsUnique
<1> QED BY <1>4, <1>7, <1>11

LEMMA TotalType ==
    ASSUME NEW s \in Seq(Nat)
    PROVE  Total(s) \in Nat
<1>1. s \in Seq(Int)
  OBVIOUS
<1>2. PICK f : IsSum(f, s) /\ Total(s) = f[Len(s)]
  BY <1>1, SumOf
<1> DEFINE S == {k \in Nat : k <= Len(s) => f[k] \in Nat}
<1>3. 0 \in S
  BY <1>2 DEF IsSum
<1>4. ASSUME NEW k \in Nat, k \in S PROVE k + 1 \in S
  <2> SUFFICES ASSUME k + 1 <= Len(s) PROVE f[k + 1] \in Nat
    OBVIOUS
  <2>1. k + 1 \in 1 .. Len(s) /\ (k + 1) - 1 = k
    OBVIOUS
  <2>2. f[k + 1] = f[k] + s[k + 1] /\ s[k + 1] \in Nat
    BY <1>2, <2>1 DEF IsSum
  <2> QED BY <1>4, <2>2
<1>5. Len(s) \in S
  <2>1. \A m \in Nat : m \in S
    <3> HIDE DEF S
    <3> QED BY <1>3, <1>4, InductionOnNat
  <2> QED BY <2>1
<1> QED BY <1>2, <1>5

\* The sum of a number, and of two sequences one after the other.
LEMMA TotalEmpty == Total(<<>>) = 0
<1>1. PICK f : IsSum(f, <<>>) /\ Total(<<>>) = f[Len(<<>>)]
  <2>1. <<>> \in Seq(Int)
    OBVIOUS
  <2> QED BY <2>1, SumOf
<1> QED BY <1>1 DEF IsSum

LEMMA TotalOne ==
    ASSUME NEW x \in Int
    PROVE  Total(<<x>>) = x
<1>1. PICK f : IsSum(f, <<x>>) /\ Total(<<x>>) = f[Len(<<x>>)]
  <2>1. <<x>> \in Seq(Int)
    OBVIOUS
  <2> QED BY <2>1, SumOf
<1>2. Len(<<x>>) = 1 /\ <<x>>[1] = x
  OBVIOUS
<1>3. f[1] = f[0] + x /\ f[0] = 0
  BY <1>1, <1>2 DEF IsSum
<1> QED BY <1>1, <1>2, <1>3

LEMMA TotalConcat ==
    ASSUME NEW s \in Seq(Int), NEW t \in Seq(Int)
    PROVE  Total(s \o t) = Total(s) + Total(t)
<1> DEFINE u == s \o t
<1>1. /\ u \in Seq(Int) /\ Len(u) = Len(s) + Len(t)
      /\ \A m \in 1 .. Len(s) : u[m] = s[m]
      /\ \A m \in 1 .. Len(t) : u[Len(s) + m] = t[m]
  OBVIOUS
<1> HIDE DEF u
<1>2. PICK f : IsSum(f, s) /\ Total(s) = f[Len(s)]
  BY SumOf
<1>3. PICK g : IsSum(g, t) /\ Total(t) = g[Len(t)]
  BY SumOf
<1>4. PICK h : IsSum(h, u) /\ Total(u) = h[Len(u)]
  BY <1>1, SumOf
<1>5. \A k \in Nat : k <= Len(s) => h[k] = f[k]
  <2> DEFINE S == {k \in Nat : k <= Len(s) => h[k] = f[k]}
  <2>1. 0 \in S
    BY <1>2, <1>4 DEF IsSum
  <2>2. ASSUME NEW k \in Nat, k \in S PROVE k + 1 \in S
    <3> SUFFICES ASSUME k + 1 <= Len(s) PROVE h[k + 1] = f[k + 1]
      OBVIOUS
    <3>1. k + 1 \in 1 .. Len(s) /\ k + 1 \in 1 .. Len(u) /\ (k + 1) - 1 = k
      BY <1>1
    <3>2. f[k + 1] = f[k] + s[k + 1]
      BY <1>2, <3>1 DEF IsSum
    <3>3. h[k + 1] = h[k] + u[k + 1]
      BY <1>4, <3>1 DEF IsSum
    <3> QED BY <1>1, <2>2, <3>1, <3>2, <3>3
  <2>3. \A k \in Nat : k \in S
    <3> HIDE DEF S
    <3> QED BY <2>1, <2>2, InductionOnNat
  <2> QED BY <2>3
<1>6. \A k \in Nat : k <= Len(t) => h[Len(s) + k] = f[Len(s)] + g[k]
  <2> DEFINE S == {k \in Nat : k <= Len(t) => h[Len(s) + k] = f[Len(s)] + g[k]}
  <2>0. f[Len(s)] \in Int
    BY <1>2 DEF IsSum
  <2>1. 0 \in S
    BY <1>3, <1>5, <2>0 DEF IsSum
  <2>2. ASSUME NEW k \in Nat, k \in S PROVE k + 1 \in S
    <3> SUFFICES ASSUME k + 1 <= Len(t)
                 PROVE  h[Len(s) + (k + 1)] = f[Len(s)] + g[k + 1]
      OBVIOUS
    <3>1. /\ k + 1 \in 1 .. Len(t) /\ (k + 1) - 1 = k /\ k \in 0 .. Len(t)
          /\ Len(s) + (k + 1) \in 1 .. Len(u)
          /\ (Len(s) + (k + 1)) - 1 = Len(s) + k
      BY <1>1
    <3>2. g[k + 1] = g[k] + t[k + 1] /\ g[k] \in Int /\ t[k + 1] \in Int
      <4>1. t[k + 1] \in Int
        BY <3>1
      <4>2. g[k + 1] = g[(k + 1) - 1] + t[k + 1] /\ g[k] \in Int
        BY <1>3, <3>1 DEF IsSum
      <4> QED BY <3>1, <4>1, <4>2
    <3>3. h[Len(s) + (k + 1)] = h[Len(s) + k] + u[Len(s) + (k + 1)]
      BY <1>4, <3>1 DEF IsSum
    <3>4. u[Len(s) + (k + 1)] = t[k + 1] /\ h[Len(s) + k] = f[Len(s)] + g[k]
      BY <1>1, <2>2, <3>1
    <3> QED BY <2>0, <3>2, <3>3, <3>4
  <2>3. \A k \in Nat : k \in S
    <3> HIDE DEF S
    <3> QED BY <2>1, <2>2, InductionOnNat
  <2> QED BY <2>3
<1>7. h[Len(u)] = f[Len(s)] + g[Len(t)]
  BY <1>1, <1>6
<1> QED BY <1>2, <1>3, <1>4, <1>7 DEF u

\* Sums of numbers each of which is at least, at most twice, the other.
LEMMA TotalBetween ==
    ASSUME NEW s \in Seq(Nat), NEW t \in Seq(Nat), Len(s) = Len(t),
           \A m \in 1 .. Len(s) : s[m] <= t[m] /\ t[m] <= 2 * s[m]
    PROVE  Total(s) <= Total(t) /\ Total(t) <= 2 * Total(s)
<1>1. s \in Seq(Int) /\ t \in Seq(Int)
  OBVIOUS
<1>2. PICK f : IsSum(f, s) /\ Total(s) = f[Len(s)]
  BY <1>1, SumOf
<1>3. PICK g : IsSum(g, t) /\ Total(t) = g[Len(t)]
  BY <1>1, SumOf
<1> DEFINE S == {k \in Nat : k <= Len(s) => f[k] <= g[k] /\ g[k] <= 2 * f[k]}
<1>4. 0 \in S
  BY <1>2, <1>3 DEF IsSum
<1>5. ASSUME NEW k \in Nat, k \in S PROVE k + 1 \in S
  <2> SUFFICES ASSUME k + 1 <= Len(s)
               PROVE  f[k + 1] <= g[k + 1] /\ g[k + 1] <= 2 * f[k + 1]
    OBVIOUS
  <2>1. k + 1 \in 1 .. Len(s) /\ (k + 1) - 1 = k /\ k \in 0 .. Len(s)
    OBVIOUS
  <2>2. f[k + 1] = f[k] + s[k + 1] /\ f[k] \in Int /\ s[k + 1] \in Nat
    <3>1. s[k + 1] \in Nat
      BY <2>1
    <3>2. f[k + 1] = f[(k + 1) - 1] + s[k + 1] /\ f[k] \in Int
      BY <1>2, <2>1 DEF IsSum
    <3> QED BY <2>1, <3>1, <3>2
  <2>3. g[k + 1] = g[k] + t[k + 1] /\ g[k] \in Int /\ t[k + 1] \in Nat
    <3>1. t[k + 1] \in Nat /\ k + 1 \in 1 .. Len(t) /\ k \in 0 .. Len(t)
      BY <2>1
    <3>2. g[k + 1] = g[(k + 1) - 1] + t[k + 1] /\ g[k] \in Int
      BY <1>3, <3>1 DEF IsSum
    <3> QED BY <2>1, <3>1, <3>2
  <2>4. s[k + 1] <= t[k + 1] /\ t[k + 1] <= 2 * s[k + 1]
    BY <2>1
  <2>5. f[k] <= g[k] /\ g[k] <= 2 * f[k]
    BY <1>5
  <2> HIDE DEF S
  <2>6. f[k] + s[k + 1] <= g[k] + t[k + 1] /\ g[k] + t[k + 1] <= 2 * (f[k] + s[k + 1])
    <3>1. ASSUME NEW a \in Int, NEW b \in Int, NEW c \in Nat, NEW d \in Nat,
                 c <= d, d <= 2 * c, a <= b, b <= 2 * a
          PROVE  a + c <= b + d /\ b + d <= 2 * (a + c)
      BY <3>1
    <3> QED BY <2>2, <2>3, <2>4, <2>5, <3>1
  <2> QED BY <2>2, <2>3, <2>6
<1>6. Len(s) \in S
  <2>1. \A m \in Nat : m \in S
    <3> HIDE DEF S
    <3> QED BY <1>4, <1>5, InductionOnNat
  <2> QED BY <2>1
<1> QED BY <1>2, <1>3, <1>6
-----------------------------------------------------------------------------
(* The elements of a sequence that are in a set.                           *)

\* f[m] has those of the first m elements of s that are in S.
IsChoice(f, s, S, E) ==
    /\ f \in [0 .. Len(s) -> Seq(E \cap S)]
    /\ f[0] = <<>>
    /\ \A m \in 1 .. Len(s) :
         f[m] = IF s[m] \in S THEN Append(f[m - 1], s[m]) ELSE f[m - 1]

LEMMA ChoiceOf ==
    ASSUME NEW E, NEW S, NEW s \in Seq(E)
    PROVE  \E f : IsChoice(f, s, S, E) /\ Among(s, S) = f[Len(s)]
<1> DEFINE n == Len(s)
           D == Seq(E \cap S)
           b == <<>>
           G == [x \in D |->
                   [m \in 1 .. n |-> IF s[m] \in S THEN Append(x, s[m]) ELSE x]]
           Step(g) == [m \in 0 .. n |->
                         IF m = 0 THEN <<>>
                         ELSE IF s[m] \in S THEN Append(g[m - 1], s[m]) ELSE g[m - 1]]
           F == CHOOSE g : g = Step(g)
<1>1. n \in Nat /\ b \in D /\ \A m \in 1 .. n : s[m] \in E
  OBVIOUS
<1>2. IsStep(G, D, n)
  <2>1. ASSUME NEW x \in D, NEW m \in 1 .. n
        PROVE  (IF s[m] \in S THEN Append(x, s[m]) ELSE x) \in D
    BY <1>1
  <2> HIDE DEF D
  <2> QED BY <1>1, <2>1 DEF IsStep
<1>3. PICK f : IsRun(f, b, G, D, n)
  <2> HIDE DEF G, n, D, b
  <2> QED BY <1>1, <1>2, RecursionOnNat
<1>4. IsChoice(f, s, S, E)
  <2>1. \A m \in 1 .. n : f[m - 1] \in D
    <3> HIDE DEF D
    <3> QED BY <1>1, <1>3 DEF IsRun
  <2>2. \A m \in 1 .. n :
          f[m] = IF s[m] \in S THEN Append(f[m - 1], s[m]) ELSE f[m - 1]
    <3> HIDE DEF D
    <3> QED BY <1>3, <2>1 DEF IsRun
  <2> QED BY <1>3, <2>2 DEF IsRun, IsChoice
<1>5. f = Step(f)
  <2>1. f = [m \in 0 .. n |-> f[m]]
    <3>1. f \in [0 .. n -> Seq(E \cap S)]
      BY <1>4 DEF IsChoice
    <3> QED BY <3>1
  <2>2. ASSUME NEW m \in 0 .. n PROVE f[m] = Step(f)[m]
    <3>1. CASE m = 0
      BY <1>4, <3>1 DEF IsChoice
    <3>2. CASE m # 0
      <4>1. m \in 1 .. Len(s)
        BY <3>2
      <4>2. f[m] = IF s[m] \in S THEN Append(f[m - 1], s[m]) ELSE f[m - 1]
        BY <1>4, <4>1 DEF IsChoice
      <4> HIDE DEF n
      <4> QED BY <3>2, <4>2
    <3> QED BY <3>1, <3>2
  <2> QED BY <2>1, <2>2
<1>6. F = Step(F)
  <2> HIDE DEF Step
  <2> QED BY <1>5
<1>7. Among(s, S) = F[n]
  BY DEF Among
<1> HIDE DEF F
<1>8. /\ F[0] = <<>>
      /\ \A m \in 1 .. n :
           F[m] = IF s[m] \in S THEN Append(F[m - 1], s[m]) ELSE F[m - 1]
  <2>1. \A m \in 0 .. n : F[m] = Step(F)[m]
    <3> HIDE DEF Step
    <3> QED BY <1>6
  <2> QED BY <1>1, <2>1
<1>9. Follows(F, b, G, D, n)
  <2> HIDE DEF D
  <2> QED BY <1>8 DEF Follows
<1>10. F[n] = f[n]
  <2> HIDE DEF G, n, D, b
  <2> QED BY <1>1, <1>3, <1>9, RunIsUnique
<1> QED BY <1>4, <1>7, <1>10

\* They are no more than s has.
LEMMA AmongType ==
    ASSUME NEW E, NEW S, NEW s \in Seq(E)
    PROVE  Among(s, S) \in Seq(E \cap S) /\ Len(Among(s, S)) <= Len(s)
<1>1. PICK f : IsChoice(f, s, S, E) /\ Among(s, S) = f[Len(s)]
  BY ChoiceOf
<1> DEFINE T == {k \in Nat : k <= Len(s) => Len(f[k]) <= k}
<1>2. 0 \in T
  BY <1>1 DEF IsChoice
<1>3. ASSUME NEW k \in Nat, k \in T PROVE k + 1 \in T
  <2> SUFFICES ASSUME k + 1 <= Len(s) PROVE Len(f[k + 1]) <= k + 1
    OBVIOUS
  <2>1. k + 1 \in 1 .. Len(s) /\ (k + 1) - 1 = k /\ k \in 0 .. Len(s)
    OBVIOUS
  <2>2. f[k + 1] = IF s[k + 1] \in S THEN Append(f[k], s[k + 1]) ELSE f[k]
    BY <1>1, <2>1 DEF IsChoice
  <2>3. f[k] \in Seq(E \cap S) /\ Len(f[k]) <= k
    BY <1>1, <1>3, <2>1 DEF IsChoice
  <2>4. Len(f[k]) \in Nat /\ \A x : Len(Append(f[k], x)) = Len(f[k]) + 1
    BY <2>3
  <2> HIDE DEF T
  <2> QED BY <2>2, <2>3, <2>4
<1>4. Len(s) \in T
  <2>1. \A m \in Nat : m \in T
    <3> HIDE DEF T
    <3> QED BY <1>2, <1>3, InductionOnNat
  <2> QED BY <2>1
<1>5. Len(s) \in 0 .. Len(s) /\ Len(f[Len(s)]) <= Len(s)
  BY <1>4
<1>6. f[Len(s)] \in Seq(E \cap S)
  <2> HIDE DEF T
  <2> QED BY <1>1, <1>5 DEF IsChoice
<1> QED BY <1>1, <1>5, <1>6

\* Of one element, and of two sequences one after the other.
LEMMA AmongOne ==
    ASSUME NEW x, NEW S
    PROVE  Among(<<x>>, S) = IF x \in S THEN <<x>> ELSE <<>>
<1>1. PICK f : IsChoice(f, <<x>>, S, {x}) /\ Among(<<x>>, S) = f[Len(<<x>>)]
  <2>1. <<x>> \in Seq({x})
    OBVIOUS
  <2> QED BY <2>1, ChoiceOf
<1>2. Len(<<x>>) = 1 /\ <<x>>[1] = x
  OBVIOUS
<1>3. f[1] = (IF x \in S THEN Append(f[0], x) ELSE f[0]) /\ f[0] = <<>>
  BY <1>1, <1>2 DEF IsChoice
<1> QED BY <1>1, <1>2, <1>3

LEMMA AmongConcat ==
    ASSUME NEW E, NEW S, NEW s \in Seq(E), NEW t \in Seq(E)
    PROVE  Among(s \o t, S) = Among(s, S) \o Among(t, S)
<1> DEFINE u == s \o t
<1>1. /\ u \in Seq(E) /\ Len(u) = Len(s) + Len(t)
      /\ \A m \in 1 .. Len(s) : u[m] = s[m]
      /\ \A m \in 1 .. Len(t) : u[Len(s) + m] = t[m]
  OBVIOUS
<1> HIDE DEF u
<1>2. PICK f : IsChoice(f, s, S, E) /\ Among(s, S) = f[Len(s)]
  BY ChoiceOf
<1>3. PICK g : IsChoice(g, t, S, E) /\ Among(t, S) = g[Len(t)]
  BY ChoiceOf
<1>4. PICK h : IsChoice(h, u, S, E) /\ Among(u, S) = h[Len(u)]
  BY <1>1, ChoiceOf
<1> DEFINE a == f[Len(s)]
<1>5. a \in Seq(E \cap S)
  BY <1>2 DEF IsChoice
<1>6. \A k \in Nat : k <= Len(s) => h[k] = f[k]
  <2> DEFINE T == {k \in Nat : k <= Len(s) => h[k] = f[k]}
  <2>1. 0 \in T
    BY <1>2, <1>4 DEF IsChoice
  <2>2. ASSUME NEW k \in Nat, k \in T PROVE k + 1 \in T
    <3> SUFFICES ASSUME k + 1 <= Len(s) PROVE h[k + 1] = f[k + 1]
      OBVIOUS
    <3>1. k + 1 \in 1 .. Len(s) /\ k + 1 \in 1 .. Len(u) /\ (k + 1) - 1 = k
      BY <1>1
    <3>2. f[k + 1] = IF s[k + 1] \in S THEN Append(f[k], s[k + 1]) ELSE f[k]
      BY <1>2, <3>1 DEF IsChoice
    <3>3. h[k + 1] = IF u[k + 1] \in S THEN Append(h[k], u[k + 1]) ELSE h[k]
      BY <1>4, <3>1 DEF IsChoice
    <3>4. u[k + 1] = s[k + 1] /\ h[k] = f[k]
      BY <1>1, <2>2, <3>1
    <3> QED BY <3>2, <3>3, <3>4
  <2>3. \A k \in Nat : k \in T
    <3> HIDE DEF T
    <3> QED BY <2>1, <2>2, InductionOnNat
  <2> QED BY <2>3
<1>9. h[Len(s)] = a
  BY <1>6
<1> HIDE DEF a
<1>7. \A k \in Nat : k <= Len(t) => h[Len(s) + k] = a \o g[k]
  <2> DEFINE T == {k \in Nat : k <= Len(t) => h[Len(s) + k] = a \o g[k]}
  <2>1. 0 \in T
    <3>1. g[0] = <<>> /\ a \o <<>> = a /\ h[Len(s)] = a
      BY <1>3, <1>5, <1>9 DEF IsChoice
    <3>2. Len(s) + 0 = Len(s)
      OBVIOUS
    <3>3. h[Len(s) + 0] = a \o g[0]
      BY <3>1, <3>2, Zenon
    <3> QED BY <3>3
  <2>2. ASSUME NEW k \in Nat, k \in T PROVE k + 1 \in T
    <3> SUFFICES ASSUME k + 1 <= Len(t) PROVE h[Len(s) + (k + 1)] = a \o g[k + 1]
      OBVIOUS
    <3>1. /\ k + 1 \in 1 .. Len(t) /\ (k + 1) - 1 = k /\ k \in 0 .. Len(t)
          /\ Len(s) + (k + 1) \in 1 .. Len(u)
          /\ (Len(s) + (k + 1)) - 1 = Len(s) + k
      BY <1>1
    <3>2. g[k + 1] = IF t[k + 1] \in S THEN Append(g[k], t[k + 1]) ELSE g[k]
      BY <1>3, <3>1 DEF IsChoice
    <3>3. h[Len(s) + (k + 1)] = IF u[Len(s) + (k + 1)] \in S
                                THEN Append(h[Len(s) + k], u[Len(s) + (k + 1)])
                                ELSE h[Len(s) + k]
      BY <1>4, <3>1 DEF IsChoice
    <3>4. u[Len(s) + (k + 1)] = t[k + 1] /\ h[Len(s) + k] = a \o g[k]
      BY <1>1, <2>2, <3>1
    <3>5. g[k] \in Seq(E \cap S)
      BY <1>3, <3>1 DEF IsChoice
    <3>6. CASE t[k + 1] \in S
      <4>1. t[k + 1] \in E \cap S
        BY <3>1, <3>6
      <4>2. Append(a \o g[k], t[k + 1]) = a \o Append(g[k], t[k + 1])
        <5> DEFINE D == E \cap S
        <5>1. a \in Seq(D) /\ g[k] \in Seq(D) /\ t[k + 1] \in D
          BY <1>5, <3>5, <4>1
        <5> HIDE DEF D
        <5>2. ASSUME NEW b \in Seq(D), NEW x \in D
              PROVE  Append(a \o b, x) = a \o Append(b, x)
          <6>1. a \in Seq(D) /\ <<x>> \in Seq(D)
            BY <5>1
          <6>2. (a \o b) \o <<x>> = a \o (b \o <<x>>)
            BY <6>1, ConcatAssociative
          <6>3. a \o b \in Seq(D)
            BY <6>1
          <6>4. Append(a \o b, x) = (a \o b) \o <<x>> /\ Append(b, x) = b \o <<x>>
            BY <6>3, AppendIsConcat
          <6> QED BY <6>2, <6>4
        <5> QED BY <5>1, <5>2, Zenon
      <4> QED BY <3>2, <3>3, <3>4, <3>6, <4>2
    <3>7. CASE t[k + 1] \notin S
      BY <3>2, <3>3, <3>4, <3>7
    <3> QED BY <3>6, <3>7
  <2>3. \A k \in Nat : k \in T
    <3> HIDE DEF T
    <3> QED BY <2>1, <2>2, InductionOnNat
  <2> QED BY <2>3
<1>8. h[Len(u)] = a \o g[Len(t)]
  BY <1>1, <1>7
<1> QED BY <1>2, <1>3, <1>4, <1>8 DEF u, a

\* None of them, if s has none.
LEMMA AmongNone ==
    ASSUME NEW E, NEW S, NEW s \in Seq(E), \A m \in 1 .. Len(s) : s[m] \notin S
    PROVE  Among(s, S) = <<>>
<1>1. PICK f : IsChoice(f, s, S, E) /\ Among(s, S) = f[Len(s)]
  BY ChoiceOf
<1> DEFINE T == {k \in Nat : k <= Len(s) => f[k] = <<>>}
<1>2. 0 \in T
  BY <1>1 DEF IsChoice
<1>3. ASSUME NEW k \in Nat, k \in T PROVE k + 1 \in T
  <2> SUFFICES ASSUME k + 1 <= Len(s) PROVE f[k + 1] = <<>>
    OBVIOUS
  <2>1. k + 1 \in 1 .. Len(s) /\ (k + 1) - 1 = k
    OBVIOUS
  <2>2. f[k + 1] = IF s[k + 1] \in S THEN Append(f[k], s[k + 1]) ELSE f[k]
    BY <1>1, <2>1 DEF IsChoice
  <2> QED BY <1>3, <2>1, <2>2
<1>4. Len(s) \in T
  <2>1. \A m \in Nat : m \in T
    <3> HIDE DEF T
    <3> QED BY <1>2, <1>3, InductionOnNat
  <2> QED BY <2>1
<1> QED BY <1>1, <1>4
-----------------------------------------------------------------------------
(* Types.                                                                  *)

Update == Points \X (0 .. MaxUpdates)

\* A packet on the way has the numbers of its changes without a gap; the gap
\* of a received one is what was lost before it.
Received == {m \in [items : Seq(Item), gap : Nat] : Len(m.items) <= MaxPacket}
OnTheWay == {m \in Received : m.gap = 0}

SenderTypes ==
    /\ src \in [Points -> 0 .. MaxUpdates]
    /\ todo \in Seq(Update) /\ feed \in Seq(Update)
    /\ sweep \subseteq Points
    /\ chgQueue \in Seq(Item)
    /\ backQueue \in Seq(Kept) /\ backfill \in Seq(Kept)
    /\ updates \in 0 .. MaxUpdates

ReceiverTypes ==
    /\ net \in Seq(OnTheWay) /\ msgQueue \in Seq(Received)
    /\ gap \in Nat /\ cntLost \in Nat /\ dropped \in Nat
    /\ started \in BOOLEAN
    /\ dst \in [Points -> {None} \cup 0 .. MaxUpdates]
    /\ faults \in 0 .. MaxFaults

Types == SenderTypes /\ ReceiverTypes

LEMMA KeptFields ==
    /\ Fitting \subseteq Item /\ Kept \subseteq Item
    /\ Item \cap Fitting = Fitting /\ Item \cap Kept = Kept
    /\ \A i \in Kept : i.op = "update" /\ i.point \notin Large /\ ~i.historical
  BY DEF Fitting, Kept, fits, backfilled

LEMMA ChangeFields ==
    ASSUME NEW p \in Points, NEW v \in 0 .. MaxUpdates,
           NEW op \in {"update", "integrity"}
    PROVE  change(op, p, v) \in Item /\ change(op, p, v).op = op
  BY DEF change, Item

\* A packet of at most MaxPacket changes.
LEMMA BatchFits ==
    ASSUME NEW k \in 1 .. MaxPacket, chgQueue \in Seq(Item), k <= Len(chgQueue)
    PROVE  LET batch == SubSeq(chgQueue, 1, k)
               rest == SubSeq(chgQueue, k + 1, Len(chgQueue))
           IN  /\ batch \in Seq(Item) /\ Len(batch) = k
               /\ rest \in Seq(Item)
               /\ chgQueue = batch \o rest
               /\ [items |-> Among(batch, Fitting), gap |-> 0] \in OnTheWay
               /\ Among(batch, Kept) \in Seq(Kept)
<1> DEFINE batch == SubSeq(chgQueue, 1, k)
           rest == SubSeq(chgQueue, k + 1, Len(chgQueue))
           n == Len(chgQueue)
<1>0. /\ n \in Nat /\ 1 \in 1 .. n + 1 /\ k \in 0 .. n /\ n \in k .. n
      /\ k \in Int /\ 1 \in Int /\ k + 1 \in Int /\ MaxPacket \in Nat
      /\ \A i \in 1 .. n : chgQueue[i] \in Item
  BY BoundAssumption
<1>1. batch \in Seq(Item) /\ Len(batch) = k
  <2>1. \A i \in 1 .. k : chgQueue[i] \in Item
    BY <1>0
  <2> QED BY <1>0, <2>1, SubSeqProperties
<1>2. rest \in Seq(Item)
  <2>1. \A i \in k + 1 .. n : chgQueue[i] \in Item
    BY <1>0
  <2> QED BY <1>0, <2>1, SubSeqProperties
<1>3. chgQueue = batch \o rest
  <2>1. SubSeq(chgQueue, 1, k) \o SubSeq(chgQueue, k + 1, n) = SubSeq(chgQueue, 1, n)
    BY <1>0, ConcatAdjacentSubSeq
  <2> QED BY <2>1, SubSeqFull
<1> HIDE DEF batch, rest, n
<1>4. /\ Among(batch, Fitting) \in Seq(Item \cap Fitting)
      /\ Len(Among(batch, Fitting)) <= Len(batch)
      /\ Among(batch, Kept) \in Seq(Item \cap Kept)
  BY <1>1, AmongType
<1>5. Among(batch, Kept) \in Seq(Kept) /\ Among(batch, Fitting) \in Seq(Fitting)
  BY <1>4, KeptFields
<1>6. Among(batch, Fitting) \in Seq(Item)
  BY <1>5, KeptFields, SeqMonotonic
<1>7. Len(Among(batch, Fitting)) <= MaxPacket
  <2>1. Len(Among(batch, Fitting)) \in Nat
    BY <1>6
  <2> QED BY <1>0, <1>1, <1>4, <2>1
<1>8. [items |-> Among(batch, Fitting), gap |-> 0] \in OnTheWay
  BY <1>6, <1>7 DEF OnTheWay, Received
<1> QED BY <1>1, <1>2, <1>3, <1>5, <1>8 DEF batch, rest, n

LEMMA SenderStep == SenderTypes /\ [Next]_vars => SenderTypes'
<1> SUFFICES ASSUME SenderTypes, [Next]_vars PROVE SenderTypes'
  OBVIOUS
<1> USE DEF SenderTypes
<1>0. MaxUpdates \in Nat
  BY BoundAssumption
<1>1. ASSUME NEW p \in Points, DriverUpdate(p) PROVE SenderTypes'
  <2>1. updates + 1 \in 0 .. MaxUpdates
    BY <1>0, <1>1 DEF DriverUpdate
  <2>2. <<p, updates + 1>> \in Update
    BY <2>1 DEF Update
  <2>3. todo' \in Seq(Update) /\ feed' \in Seq(Update)
    BY <1>1, <2>2 DEF DriverUpdate
  <2> QED BY <1>1, <2>1, <2>3 DEF DriverUpdate
<1>2. ASSUME SourceProcesses PROVE SenderTypes'
  <2>1. Head(todo) \in Update /\ Tail(todo) \in Seq(Update)
    BY <1>2 DEF SourceProcesses
  <2>2. Head(todo)[1] \in Points /\ Head(todo)[2] \in 0 .. MaxUpdates
    BY <2>1 DEF Update
  <2>3. src' \in [Points -> 0 .. MaxUpdates]
    BY <1>2, <2>2 DEF SourceProcesses
  <2> QED BY <1>2, <2>1, <2>3 DEF SourceProcesses, sender
<1>3. ASSUME OnChange PROVE SenderTypes'
  <2>1. Head(feed) \in Update /\ Tail(feed) \in Seq(Update)
    BY <1>3 DEF OnChange
  <2>2. change("update", Head(feed)[1], Head(feed)[2]) \in Item
    BY <2>1, ChangeFields DEF Update
  <2>3. chgQueue' \in Seq(Item)
    BY <1>3, <2>2 DEF OnChange
  <2> QED BY <1>3, <2>1, <2>3 DEF OnChange
<1>4. ASSUME ChangeMissed PROVE SenderTypes'
  BY <1>4 DEF ChangeMissed
<1>5. ASSUME BeginSync PROVE SenderTypes'
  BY <1>5 DEF BeginSync
<1>6. ASSUME NEW p \in Points, SyncDocument(p) PROVE SenderTypes'
  <2>1. change("integrity", p, src[p]) \in Item
    BY ChangeFields
  <2>2. chgQueue' \in Seq(Item)
    BY <1>6, <2>1 DEF SyncDocument
  <2> QED BY <1>6, <2>2 DEF SyncDocument
<1>7. ASSUME NEW k \in 1 .. MaxPacket, Send(k) PROVE SenderTypes'
  <2>1. k <= Len(chgQueue)
    BY <1>7 DEF Send
  <2>2. chgQueue' \in Seq(Item)
    BY <1>7, <2>1, BatchFits DEF Send
  <2>3. backQueue' \in Seq(Kept)
    <3>1. Among(SubSeq(chgQueue, 1, k), Kept) \in Seq(Kept)
      BY <2>1, BatchFits
    <3> QED BY <1>7, <3>1, ConcatProperties DEF Send
  <2> QED BY <1>7, <2>2, <2>3 DEF Send
<1>8. ASSUME BackfillDequeue PROVE SenderTypes'
  <2>1. backfill' \in Seq(Kept)
    BY <1>8, ConcatProperties DEF BackfillDequeue
  <2> QED BY <1>8, <2>1 DEF BackfillDequeue
<1>9. ASSUME ReplayBackfill PROVE SenderTypes'
  <2> DEFINE replay(j) == [backfill[j] EXCEPT !.tagged = FALSE, !.historical = TRUE]
  <2>1. ASSUME NEW j \in 1 .. Len(backfill) PROVE replay(j) \in Item
    <3>1. backfill[j] \in Item
      BY KeptFields
    <3> QED BY <3>1 DEF Item
  <2>2. chgQueue' = [j \in 1 .. Len(backfill) |-> replay(j)]
    <3>1. DOMAIN backfill = 1 .. Len(backfill)
      OBVIOUS
    <3> QED BY <1>9, <3>1, Zenon DEF ReplayBackfill
  <2>3. chgQueue' \in Seq(Item)
    <3>1. Len(backfill) \in Nat
      OBVIOUS
    <3> HIDE DEF replay
    <3> QED BY <2>1, <2>2, <3>1
  <2> QED BY <1>9, <2>3 DEF ReplayBackfill
<1>10. ASSUME UNCHANGED sender, UNCHANGED <<src, todo, updates>> PROVE SenderTypes'
  BY <1>10 DEF sender
<1>11. ASSUME Receive \/ Lose \/ ClearQueue \/ ProcQueue PROVE SenderTypes'
  BY <1>10, <1>11 DEF Receive, Lose, ClearQueue, ProcQueue
<1>12. CASE UNCHANGED vars
  BY <1>10, <1>12 DEF vars
<1> QED BY <1>1, <1>2, <1>3, <1>4, <1>5, <1>6, <1>7, <1>8, <1>9, <1>11, <1>12 DEF Next

\* What can be written for a point: the value it has, or one of an operation.
LEMMA OutcomeType ==
    ASSUME dst \in [Points -> {None} \cup 0 .. MaxUpdates],
           NEW items, items \subseteq Item, NEW p \in Points,
           NEW v \in Outcomes(dst, items, p)
    PROVE  v \in {None} \cup 0 .. MaxUpdates
<1>1. CASE v = dst[p]
  BY <1>1
<1>2. CASE \E i \in Matching(items, p) : v = i.value
  BY <1>2 DEF Matching, Item
<1> QED BY <1>1, <1>2 DEF Outcomes

\* What is counted for the first n messages of a queue.
LEMMA LostType ==
    ASSUME NEW q \in Seq(Received), NEW n \in 0 .. Len(q), NEW b \in BOOLEAN
    PROVE  /\ [j \in 1 .. n |-> lostCounted(q[j].gap, j = 1 /\ ~b)] \in Seq(Nat)
           /\ [j \in 1 .. n |-> q[j].gap] \in Seq(Nat)
           /\ [j \in 1 .. n |-> Len(q[j].items)] \in Seq(Nat)
<1>1. ASSUME NEW j \in 1 .. n
      PROVE  /\ q[j].gap \in Nat /\ Len(q[j].items) \in Nat
             /\ lostCounted(q[j].gap, j = 1 /\ ~b) \in Nat
  <2>1. q[j] \in Received
    OBVIOUS
  <2> QED BY <2>1 DEF Received, lostCounted
<1> QED BY <1>1

\* The messages procQueue takes and leaves.
LEMMA QueueSplit ==
    ASSUME msgQueue \in Seq(Received)
    PROVE  LET n == IF Len(msgQueue) < MaxMsgSeq THEN Len(msgQueue) ELSE MaxMsgSeq
               rest == SubSeq(msgQueue, n + 1, Len(msgQueue))
           IN  /\ n \in 0 .. Len(msgQueue)
               /\ msgQueue # <<>> => n > 0
               /\ rest \in Seq(Received) /\ Len(rest) = Len(msgQueue) - n
               /\ \A j \in 1 .. Len(rest) : rest[j] = msgQueue[n + j]
<1> DEFINE l == Len(msgQueue)
           n == IF l < MaxMsgSeq THEN l ELSE MaxMsgSeq
           rest == SubSeq(msgQueue, n + 1, l)
<1>1. /\ l \in Nat /\ n \in 0 .. l /\ (msgQueue # <<>> => n > 0)
      /\ n + 1 \in Int /\ l \in Int
      /\ \A i \in n + 1 .. l : msgQueue[i] \in Received
  BY BoundAssumption
<1> HIDE DEF n, l
<1>2. /\ rest \in Seq(Received)
      /\ Len(rest) = IF n + 1 <= l THEN l - (n + 1) + 1 ELSE 0
      /\ \A i \in 1 .. l - (n + 1) + 1 : rest[i] = msgQueue[n + 1 + i - 1]
  BY <1>1, SubSeqProperties
<1>3. Len(rest) = l - n
  BY <1>1, <1>2
<1>4. \A j \in 1 .. Len(rest) : rest[j] = msgQueue[n + j]
  <2> HIDE DEF rest
  <2> SUFFICES ASSUME NEW j \in 1 .. l - n PROVE rest[j] = msgQueue[n + j]
    BY <1>3
  <2>1. j \in 1 .. l - (n + 1) + 1 /\ n + 1 + j - 1 = n + j
    BY <1>1
  <2> QED BY <1>2, <2>1
<1> QED BY <1>1, <1>2, <1>3, <1>4 DEF n, l

LEMMA ReceiverStep == Types /\ [Next]_vars => ReceiverTypes'
<1> SUFFICES ASSUME Types, [Next]_vars PROVE ReceiverTypes'
  OBVIOUS
<1> USE DEF ReceiverTypes
<1>0. SenderTypes /\ ReceiverTypes /\ MaxFaults \in Nat
  BY BoundAssumption DEF Types
<1>1. ASSUME Fault PROVE faults' \in 0 .. MaxFaults
  BY <1>0, <1>1 DEF Fault
<1>2. ASSUME UNCHANGED <<net, receiver, dropped>>, Fault \/ UNCHANGED faults
      PROVE  ReceiverTypes'
  BY <1>0, <1>1, <1>2 DEF receiver, documents
<1>3. ASSUME NEW p \in Points, DriverUpdate(p) \/ SyncDocument(p) PROVE ReceiverTypes'
  BY <1>2, <1>3 DEF DriverUpdate, SyncDocument
<1>4. ASSUME \/ SourceProcesses \/ OnChange \/ ChangeMissed \/ BeginSync
             \/ BackfillDequeue \/ ReplayBackfill
      PROVE  ReceiverTypes'
  BY <1>2, <1>4 DEF SourceProcesses, OnChange, ChangeMissed, BeginSync,
                    BackfillDequeue, ReplayBackfill
<1>5. ASSUME NEW k \in 1 .. MaxPacket, Send(k) PROVE ReceiverTypes'
  <2>1. k <= Len(chgQueue) /\ chgQueue \in Seq(Item)
    BY <1>0, <1>5 DEF Send, SenderTypes
  <2>2. [items |-> Among(SubSeq(chgQueue, 1, k), Fitting), gap |-> 0] \in OnTheWay
    BY <2>1, BatchFits
  <2>3. net' \in Seq(OnTheWay)
    BY <1>0, <1>5, <2>2 DEF Send, gapOf
  <2> QED BY <1>0, <1>5, <2>3 DEF Send, receiver, documents
<1>6. ASSUME Receive PROVE ReceiverTypes'
  <2>1. /\ net # <<>> /\ net' = Tail(net) /\ UNCHANGED <<started, cntLost, dst, dropped>>
        /\ Fault \/ UNCHANGED faults
    BY <1>6 DEF Receive, documents
  <2>2. net' \in Seq(OnTheWay) /\ Head(net) \in OnTheWay
    BY <1>0, <2>1
  <2>3. msgQueue' \in Seq(Received) /\ gap' \in Nat
    <3>1. CASE gap' = gap + Head(net).gap /\ UNCHANGED msgQueue
      BY <1>0, <2>2, <3>1 DEF OnTheWay, Received
    <3>2. CASE /\ msgQueue' = Append(msgQueue, [Head(net) EXCEPT !.gap = @ + gap])
               /\ gap' = 0
      <4>1. [Head(net) EXCEPT !.gap = @ + gap] \in Received
        <5>1. /\ Head(net) \in [items : Seq(Item), gap : Nat]
              /\ Len(Head(net).items) <= MaxPacket
          BY <2>2 DEF OnTheWay, Received
        <5>2. /\ [Head(net) EXCEPT !.gap = @ + gap] \in [items : Seq(Item), gap : Nat]
              /\ [Head(net) EXCEPT !.gap = @ + gap].items = Head(net).items
          BY <1>0, <5>1
        <5> QED BY <5>1, <5>2 DEF Received
      <4> QED BY <1>0, <3>2, <4>1
    <3> QED BY <1>6, <3>1, <3>2 DEF Receive
  <2> QED BY <1>0, <1>1, <2>1, <2>2, <2>3
<1>7. ASSUME Lose PROVE ReceiverTypes'
  <2>1. net' \in Seq(OnTheWay) /\ Head(net) \in OnTheWay
    BY <1>0, <1>7 DEF Lose
  <2>2. Head(net).gap \in Nat /\ Len(Head(net).items) \in Nat
    BY <2>1 DEF OnTheWay, Received
  <2>3. gap' \in Nat /\ dropped' \in Nat
    BY <1>0, <1>7, <2>2 DEF Lose
  <2> QED BY <1>0, <1>1, <1>7, <2>1, <2>3 DEF Lose, documents
<1>8. ASSUME ClearQueue PROVE ReceiverTypes'
  <2> DEFINE sizes == [j \in DOMAIN msgQueue |-> Len(msgQueue[j].items)]
             gaps == [j \in DOMAIN msgQueue |-> msgQueue[j].gap]
  <2>1. DOMAIN msgQueue = 1 .. Len(msgQueue)
    BY <1>0
  <2>2. sizes \in Seq(Nat) /\ gaps \in Seq(Nat)
    BY <1>0, <2>1, LostType
  <2>3. Total(sizes) \in Nat /\ Total(gaps) \in Nat
    BY <2>2, TotalType
  <2>4. /\ msgQueue' = <<>>
        /\ gap' = gap + Total(sizes) + Total(gaps)
        /\ dropped' = IF started THEN dropped + Total(sizes) ELSE 0
        /\ UNCHANGED <<net, started, cntLost, dst, faults>>
    BY <1>8, Zenon DEF ClearQueue, documents
  <2> HIDE DEF sizes, gaps
  <2>5. gap' \in Nat /\ dropped' \in Nat /\ msgQueue' \in Seq(Received)
    BY <1>0, <2>3, <2>4
  <2> QED BY <1>0, <2>4, <2>5
<1>9. ASSUME ProcQueue PROVE ReceiverTypes'
  <2> DEFINE n == IF Len(msgQueue) < MaxMsgSeq THEN Len(msgQueue) ELSE MaxMsgSeq
             bulkOps == UNION {ToSet(msgQueue[j].items) : j \in 1 .. n}
             values == {dst[p] : p \in Points} \cup {i.value : i \in bulkOps}
             lost == [j \in 1 .. n |-> lostCounted(msgQueue[j].gap, j = 1 /\ ~started)]
  <2>1. n \in 0 .. Len(msgQueue) /\ SubSeq(msgQueue, n + 1, Len(msgQueue)) \in Seq(Received)
    BY <1>0, QueueSplit
  <2>2. bulkOps \subseteq Item
    <3>1. ASSUME NEW j \in 1 .. n PROVE ToSet(msgQueue[j].items) \subseteq Item
      <4>1. msgQueue[j] \in Received
        BY <1>0, <2>1
      <4>2. msgQueue[j].items \in Seq(Item)
        BY <4>1 DEF Received
      <4> QED BY <4>2 DEF ToSet
    <3> HIDE DEF n
    <3> QED BY <3>1
  <2>3. /\ msgQueue' = SubSeq(msgQueue, n + 1, Len(msgQueue))
        /\ cntLost' = cntLost + Total(lost)
        /\ started' = TRUE
        /\ UNCHANGED <<net, gap, dropped>>
        /\ \/ \E written \in [Points -> values] :
                 /\ \A p \in Points : written[p] \in Outcomes(dst, bulkOps, p)
                 /\ dst' = written
           \/ UNCHANGED dst
        /\ Fault \/ UNCHANGED faults
    BY <1>9, Zenon DEF ProcQueue, documents
  <2> HIDE DEF bulkOps, values, n, lost
  <2>4. cntLost' \in Nat
    <3>1. lost \in Seq(Nat)
      BY <1>0, <2>1, LostType DEF lost
    <3> QED BY <1>0, <2>3, <3>1, TotalType
  <2>5. dst' \in [Points -> {None} \cup 0 .. MaxUpdates]
    <3>1. ASSUME NEW written \in [Points -> values], NEW p \in Points,
                 written[p] \in Outcomes(dst, bulkOps, p)
          PROVE  written[p] \in {None} \cup 0 .. MaxUpdates
      BY <1>0, <2>2, <3>1, OutcomeType
    <3> QED BY <1>0, <2>3, <3>1
  <2> QED BY <1>0, <1>1, <2>1, <2>3, <2>4, <2>5
<1>10. CASE UNCHANGED vars
  BY <1>2, <1>10 DEF vars
<1> QED BY <1>3, <1>4, <1>5, <1>6, <1>7, <1>8, <1>9, <1>10 DEF Next

LEMMA TypesInit == Init => Types
<1> SUFFICES ASSUME Init PROVE Types
  OBVIOUS
<1>1. MaxUpdates \in Nat /\ MaxFaults \in Nat
  BY BoundAssumption
<1>2. SenderTypes
  BY <1>1 DEF Init, SenderTypes
<1>3. ReceiverTypes
  <2>1. dst \in [Points -> {None} \cup 0 .. MaxUpdates]
    BY DEF Init
  <2>2. net \in Seq(OnTheWay) /\ msgQueue \in Seq(Received)
    BY DEF Init
  <2>3. gap = 0 /\ cntLost = 0 /\ dropped = 0 /\ faults = 0
    BY DEF Init
  <2>4. started \in BOOLEAN
    BY Zenon DEF Init
  <2> QED BY <1>1, <2>1, <2>2, <2>3, <2>4 DEF ReceiverTypes
<1> QED BY <1>2, <1>3 DEF Types

LEMMA TypesStep == Types /\ [Next]_vars => Types'
  BY SenderStep, ReceiverStep DEF Types

\* Elements of sequences as TypeOK names them.
LEMMA ToSetConcat ==
    ASSUME NEW S, NEW s \in Seq(S), NEW t \in Seq(S)
    PROVE  ToSet(s \o t) \subseteq S
<1>1. s \o t \in Seq(S)
  BY ConcatProperties
<1> QED BY <1>1 DEF ToSet

LEMMA TypesSuffice == Types => TypeOK
<1> SUFFICES ASSUME Types PROVE TypeOK
  OBVIOUS
<1>1. ToSet(backQueue \o backfill) \subseteq Kept
  BY ToSetConcat DEF Types, SenderTypes
<1>2. \A i \in ToSet(backQueue \o backfill) : i.op = "update" /\ i.point \notin Large
  BY <1>1, KeptFields
<1>3. ToSet(net \o msgQueue) \subseteq Received
  <2>1. OnTheWay \subseteq Received
    BY DEF OnTheWay
  <2>2. net \in Seq(Received)
    BY <2>1, SeqMonotonic DEF Types, ReceiverTypes
  <2> QED BY <2>2, ToSetConcat DEF Types, ReceiverTypes
<1>4. \A m \in ToSet(net \o msgQueue) : Len(m.items) <= MaxPacket
  BY <1>3 DEF Received
<1> QED BY <1>2, <1>4 DEF Types, SenderTypes, ReceiverTypes, TypeOK

\* TypeOK: whatever is queued, sent, kept or written is a change of a point by
\* an update the drivers wrote; only updates that can be sent are kept, and no
\* packet is larger than the threshold (dequeueChangesSend).
THEOREM TypeCorrect == Spec => []TypeOK
<1>1. Spec => []Types
  BY TypesInit, TypesStep, PTL DEF Spec
<1> QED BY <1>1, TypesSuffice, PTL

-----------------------------------------------------------------------------
(* What is kept for the replay.                                            *)

\* Every update is in one place at most on its way into the backfill: in the
\* change stream, in the queue of the changes to send, in the queue for the
\* collection, or in the collection; a replayed one is historical and does not
\* count again.
KeptInv ==
    Len(Among(chgQueue, Kept)) + Len(backQueue) + Len(backfill) + Len(feed) <= updates

LEMMA KeptCounts ==
    Types => /\ Len(Among(chgQueue, Kept)) \in Nat /\ Len(feed) \in Nat
             /\ Len(backQueue) \in Nat /\ Len(backfill) \in Nat /\ updates \in Nat
<1> SUFFICES ASSUME Types
             PROVE  /\ Len(Among(chgQueue, Kept)) \in Nat /\ Len(feed) \in Nat
                    /\ Len(backQueue) \in Nat /\ Len(backfill) \in Nat /\ updates \in Nat
  OBVIOUS
<1>1. Among(chgQueue, Kept) \in Seq(Item \cap Kept)
  BY AmongType DEF Types, SenderTypes
<1> QED BY <1>1, BoundAssumption DEF Types, SenderTypes

\* An appended change counts if it is kept.
LEMMA KeptAppend ==
    ASSUME chgQueue \in Seq(Item), NEW i \in Item
    PROVE  /\ Len(Among(Append(chgQueue, i), Kept)) <= Len(Among(chgQueue, Kept)) + 1
           /\ i \notin Kept =>
                Len(Among(Append(chgQueue, i), Kept)) = Len(Among(chgQueue, Kept))
<1> DEFINE a == Among(chgQueue, Kept)
           b == IF i \in Kept THEN <<i>> ELSE <<>>
<1>1. a \in Seq(Item \cap Kept)
  BY AmongType
<1>2. Append(chgQueue, i) = chgQueue \o <<i>> /\ <<i>> \in Seq(Item)
  OBVIOUS
<1>3. Among(Append(chgQueue, i), Kept) = a \o b
  <2>1. Among(<<i>>, Kept) = b
    BY AmongOne
  <2>2. Among(chgQueue \o <<i>>, Kept) = a \o Among(<<i>>, Kept)
    BY <1>2, AmongConcat
  <2> QED BY <1>2, <2>1, <2>2
<1>4. b \in Seq(Item \cap Kept) /\ Len(b) <= 1 /\ (i \notin Kept => Len(b) = 0)
      /\ Len(b) \in Nat
  <2>1. CASE i \in Kept
    <3>1. i \in Item \cap Kept /\ b = <<i>>
      BY <2>1
    <3> HIDE DEF b
    <3> QED BY <2>1, <3>1
  <2>2. CASE i \notin Kept
    <3>1. b = <<>>
      BY <2>2
    <3> HIDE DEF b
    <3> QED BY <2>2, <3>1
  <2> QED BY <2>1, <2>2
<1>5. Len(a) \in Nat
  BY <1>1
<1> HIDE DEF a, b
<1>6. Len(a \o b) = Len(a) + Len(b)
  BY <1>1, <1>4, ConcatProperties
<1>7. /\ Len(a \o b) <= Len(a) + 1
      /\ i \notin Kept => Len(a \o b) = Len(a)
  BY <1>4, <1>5, <1>6
<1> QED BY <1>3, <1>7 DEF a

LEMMA KeptStep == Types /\ KeptInv /\ [Next]_vars => KeptInv'
<1> SUFFICES ASSUME Types, KeptInv, [Next]_vars PROVE KeptInv'
  OBVIOUS
<1> USE DEF KeptInv
<1> DEFINE K == Len(Among(chgQueue, Kept))
<1>0. /\ K \in Nat /\ Len(feed) \in Nat /\ Len(backQueue) \in Nat
      /\ Len(backfill) \in Nat /\ updates \in Nat
      /\ K + Len(backQueue) + Len(backfill) + Len(feed) <= updates
  BY KeptCounts
<1>11. SenderTypes
  BY DEF Types
<1>1. ASSUME NEW p \in Points, DriverUpdate(p) PROVE KeptInv'
  <2>1. Len(feed') = Len(feed) + 1
    BY <1>11, <1>1 DEF DriverUpdate, SenderTypes
  <2> HIDE DEF K
  <2> QED BY <1>0, <1>1, <2>1 DEF DriverUpdate, K
<1>2. ASSUME OnChange PROVE KeptInv'
  <2> DEFINE i == change("update", Head(feed)[1], Head(feed)[2])
  <2>1. Len(feed') = Len(feed) - 1 /\ Head(feed) \in Update
    BY <1>11, <1>2 DEF OnChange, SenderTypes
  <2>2. i \in Item
    BY <2>1, ChangeFields DEF Update
  <2>3. Len(Among(chgQueue', Kept)) <= K + 1 /\ Len(Among(chgQueue', Kept)) \in Nat
    <3>1. chgQueue' = Append(chgQueue, i)
      BY <1>2 DEF OnChange
    <3>2. chgQueue' \in Seq(Item)
      BY <1>11, <2>2, <3>1 DEF SenderTypes
    <3>3. Among(chgQueue', Kept) \in Seq(Item \cap Kept)
      BY <3>2, AmongType
    <3> HIDE DEF i
    <3> QED BY <1>11, <2>2, <3>1, <3>3, KeptAppend DEF SenderTypes
  <2> HIDE DEF K
  <2> QED BY <1>0, <1>2, <2>1, <2>3 DEF OnChange
<1>3. ASSUME ChangeMissed PROVE KeptInv'
  <2>1. Len(feed') = Len(feed) - 1
    BY <1>11, <1>3 DEF ChangeMissed, SenderTypes
  <2> HIDE DEF K
  <2> QED BY <1>0, <1>3, <2>1 DEF ChangeMissed, K
<1>4. ASSUME NEW p \in Points, SyncDocument(p) PROVE KeptInv'
  <2> DEFINE i == change("integrity", p, src[p])
  <2>1. i \in Item /\ i.op = "integrity"
    BY <1>11, ChangeFields DEF SenderTypes
  <2>2. i \notin Kept
    BY <2>1, KeptFields
  <2>3. Len(Among(chgQueue', Kept)) = K
    <3> HIDE DEF i
    <3>1. chgQueue' = chgQueue \/ chgQueue' = Append(chgQueue, i)
      BY <1>4 DEF SyncDocument, i
    <3>2. Len(Among(Append(chgQueue, i), Kept)) = K
      <4> HIDE DEF K
      <4> QED BY <1>11, <2>1, <2>2, KeptAppend DEF SenderTypes, K
    <3> QED BY <3>1, <3>2
  <2> HIDE DEF K
  <2> QED BY <1>0, <1>4, <2>3 DEF SyncDocument
<1>5. ASSUME NEW k \in 1 .. MaxPacket, Send(k) PROVE KeptInv'
  <2> DEFINE batch == SubSeq(chgQueue, 1, k)
             rest == SubSeq(chgQueue, k + 1, Len(chgQueue))
             a == Among(batch, Kept)
             b == Among(rest, Kept)
  <2>1. k <= Len(chgQueue) /\ chgQueue \in Seq(Item) /\ backQueue \in Seq(Kept)
    BY <1>11, <1>5 DEF Send, SenderTypes
  <2>2. /\ batch \in Seq(Item) /\ rest \in Seq(Item) /\ chgQueue = batch \o rest
        /\ a \in Seq(Kept)
    BY <2>1, BatchFits
  <2>3. /\ chgQueue' = rest /\ backQueue' = backQueue \o a
        /\ UNCHANGED <<backfill, feed, updates>>
    BY <1>5, Zenon DEF Send
  <2> HIDE DEF batch, rest
  <2>4. Among(chgQueue, Kept) = a \o b
    BY <2>2, AmongConcat
  <2>5. a \in Seq(Item \cap Kept) /\ b \in Seq(Item \cap Kept)
    BY <2>2, AmongType
  <2>6. Len(a) \in Nat /\ Len(b) \in Nat
    BY <2>5
  <2> HIDE DEF a, b
  <2>7. K = Len(a) + Len(b)
    BY <2>4, <2>5, ConcatProperties
  <2>8. Len(backQueue') = Len(backQueue) + Len(a)
    BY <2>1, <2>2, <2>3, ConcatProperties
  <2>9. Len(Among(chgQueue', Kept)) = Len(b)
    BY <2>3 DEF b
  <2> HIDE DEF K
  <2> QED BY <1>0, <2>3, <2>6, <2>7, <2>8, <2>9
<1>6. ASSUME BackfillDequeue PROVE KeptInv'
  <2>1. backQueue' = <<>> /\ UNCHANGED <<chgQueue, feed, updates>>
    BY <1>6 DEF BackfillDequeue
  <2>2. backfill' = backfill \o backQueue \/ UNCHANGED backfill
    BY <1>6 DEF BackfillDequeue
  <2>3. Len(backfill \o backQueue) = Len(backfill) + Len(backQueue)
    BY <1>11, ConcatProperties DEF SenderTypes
  <2>4. Len(backfill') <= Len(backfill) + Len(backQueue) /\ Len(backQueue') = 0
        /\ Len(backfill') \in Nat
    BY <1>0, <2>1, <2>2, <2>3
  <2>5. Len(Among(chgQueue', Kept)) = K
    BY <2>1
  <2> HIDE DEF K
  <2> QED BY <1>0, <2>1, <2>4, <2>5
<1>7. ASSUME ReplayBackfill PROVE KeptInv'
  <2>1. chgQueue' \in Seq(Item)
    <3>1. SenderTypes'
      BY <1>11, SenderStep
    <3> QED BY <3>1 DEF SenderTypes
  <2>2. ASSUME NEW j \in 1 .. Len(chgQueue') PROVE chgQueue'[j] \notin Kept
    <3> DEFINE replay(x) == [backfill[x] EXCEPT !.tagged = FALSE, !.historical = TRUE]
    <3>1. DOMAIN backfill = 1 .. Len(backfill) /\ Len(backfill) \in Nat
      BY <1>11 DEF SenderTypes
    <3>2. chgQueue' = [x \in 1 .. Len(backfill) |-> replay(x)]
      BY <1>7, <3>1, Zenon DEF ReplayBackfill
    <3>3. j \in 1 .. Len(backfill) /\ chgQueue'[j] = replay(j)
      <4> HIDE DEF replay
      <4> QED BY <3>1, <3>2
    <3>4. backfill[j] \in Item
      BY <1>11, <3>3, KeptFields DEF SenderTypes
    <3>5. chgQueue'[j].historical
      BY <3>3, <3>4 DEF Item
    <3> QED BY <3>5, KeptFields
  <2>3. Among(chgQueue', Kept) = <<>>
    BY <2>1, <2>2, AmongNone
  <2>4. UNCHANGED <<backQueue, backfill, feed, updates>>
    BY <1>7 DEF ReplayBackfill
  <2> HIDE DEF K
  <2>5. Len(Among(chgQueue', Kept)) = 0
    BY <2>3
  <2> QED BY <1>0, <2>4, <2>5
<1>8. ASSUME UNCHANGED <<chgQueue, backQueue, backfill, feed, updates>> PROVE KeptInv'
  BY <1>8
<1>9. ASSUME BeginSync \/ SourceProcesses \/ Receive \/ Lose \/ ClearQueue \/ ProcQueue
      PROVE  KeptInv'
  BY <1>8, <1>9 DEF BeginSync, SourceProcesses, Receive, Lose, ClearQueue, ProcQueue, sender
<1>10. CASE UNCHANGED vars
  BY <1>8, <1>10 DEF vars, sender
<1> QED BY <1>1, <1>2, <1>3, <1>4, <1>5, <1>6, <1>7, <1>9, <1>10 DEF Next

\* BackfillBounded: the replay does not feed itself (dequeueChangesSend keeps no
\* change that is historical), so the backfill never has more than one entry for
\* each update of a driver.
THEOREM ReplayFeedsNoReplay == Spec => []BackfillBounded
<1>1. Init => KeptInv
  <2> SUFFICES ASSUME Init PROVE KeptInv
    OBVIOUS
  <2>1. <<>> \in Seq(Item)
    OBVIOUS
  <2>2. Among(<<>>, Kept) = <<>>
    <3>1. \A m \in 1 .. Len(<<>>) : <<>>[m] \notin Kept
      OBVIOUS
    <3> QED BY <2>1, <3>1, AmongNone
  <2> QED BY <2>2 DEF Init, KeptInv
<1>2. Types /\ KeptInv => BackfillBounded
  <2> SUFFICES ASSUME Types, KeptInv PROVE BackfillBounded
    OBVIOUS
  <2> QED BY KeptCounts DEF KeptInv, BackfillBounded
<1>3. Spec => [](Types /\ KeptInv)
  BY <1>1, TypesInit, TypesStep, KeptStep, PTL DEF Spec
<1> QED BY <1>2, <1>3, PTL

-----------------------------------------------------------------------------
(* The count of lost messages.                                             *)

\* The gaps of the queued packets that will be counted: all but that of the
\* first packet ever, before which the receiver knows no number.
Noticed(q, b) == [j \in 1 .. Len(q) |-> IF j = 1 /\ ~b THEN 0 ELSE q[j].gap]

\* Of the numbers the receiver missed, those it has counted already.
Counted ==
    dropped - (Total(Noticed(msgQueue, started))
                 + IF started \/ msgQueue # <<>> THEN gap ELSE 0)

LossInv ==
    /\ ~started => cntLost = 0
    /\ 0 <= Counted /\ Counted <= cntLost /\ cntLost <= 2 * Counted

LEMMA NoticedType ==
    ASSUME NEW q \in Seq(Received), NEW b \in BOOLEAN
    PROVE  /\ Noticed(q, b) \in Seq(Nat) /\ Len(Noticed(q, b)) = Len(q)
           /\ Total(Noticed(q, b)) \in Nat
<1>1. ASSUME NEW j \in 1 .. Len(q)
      PROVE  (IF j = 1 /\ ~b THEN 0 ELSE q[j].gap) \in Nat
  <2>1. q[j] \in Received
    OBVIOUS
  <2> QED BY <2>1 DEF Received
<1>2. Len(q) \in Nat
  OBVIOUS
<1>3. Noticed(q, b) \in Seq(Nat) /\ Len(Noticed(q, b)) = Len(q)
  BY <1>1, <1>2 DEF Noticed
<1> QED BY <1>3, TotalType

\* An empty queue, and a packet that arrives.
LEMMA NoticedEmpty == \A b \in BOOLEAN : Total(Noticed(<<>>, b)) = 0
<1> SUFFICES ASSUME NEW b \in BOOLEAN PROVE Total(Noticed(<<>>, b)) = 0
  OBVIOUS
<1>1. <<>> \in Seq(Received)
  OBVIOUS
<1>2. Noticed(<<>>, b) \in Seq(Nat) /\ Len(Noticed(<<>>, b)) = 0
  BY <1>1, NoticedType
<1>3. Noticed(<<>>, b) = <<>>
  BY <1>2
<1> QED BY <1>3, TotalEmpty

LEMMA NoticedAppend ==
    ASSUME NEW q \in Seq(Received), NEW m \in Received, NEW b \in BOOLEAN
    PROVE  Total(Noticed(Append(q, m), b)) =
             Total(Noticed(q, b)) + (IF b \/ q # <<>> THEN m.gap ELSE 0)
<1> DEFINE x == IF b \/ q # <<>> THEN m.gap ELSE 0
           s == Noticed(q, b)
           t == Noticed(Append(q, m), b)
<1>1. x \in Nat
  BY DEF Received
<1>2. s \in Seq(Nat) /\ Len(s) = Len(q)
  BY NoticedType
<1>3. Append(q, m) \in Seq(Received) /\ Len(Append(q, m)) = Len(q) + 1
  OBVIOUS
<1>4. t \in Seq(Nat) /\ Len(t) = Len(q) + 1
  BY <1>3, NoticedType
<1>5. <<x>> \in Seq(Nat) /\ Len(<<x>>) = 1
  <2> HIDE DEF x
  <2> QED BY <1>1
<1>6. s \o <<x>> \in Seq(Nat) /\ Len(s \o <<x>>) = Len(q) + 1
  <2> HIDE DEF x, s
  <2> QED BY <1>2, <1>5, ConcatProperties
<1>7. \A j \in 1 .. Len(q) + 1 : t[j] = (s \o <<x>>)[j]
  <2> SUFFICES ASSUME NEW j \in 1 .. Len(q) + 1 PROVE t[j] = (s \o <<x>>)[j]
    OBVIOUS
  <2>1. t[j] = IF j = 1 /\ ~b THEN 0 ELSE Append(q, m)[j].gap
    BY <1>3 DEF Noticed
  <2>2. CASE j <= Len(q)
    <3>1. j \in 1 .. Len(q) /\ Append(q, m)[j] = q[j]
      BY <2>2
    <3>2. s[j] = IF j = 1 /\ ~b THEN 0 ELSE q[j].gap
      BY <3>1 DEF Noticed
    <3>3. (s \o <<x>>)[j] = s[j]
      <4> HIDE DEF s, x
      <4> QED BY <1>2, <1>5, <3>1
    <3> QED BY <2>1, <3>1, <3>2, <3>3
  <2>3. CASE j = Len(q) + 1
    <3>1. Append(q, m)[j] = m
      BY <2>3
    <3>2. j = 1 <=> q = <<>>
      BY <2>3
    <3>3. (s \o <<x>>)[j] = x
      <4> HIDE DEF s, x
      <4> QED BY <1>2, <1>5, <2>3
    <3> QED BY <2>1, <3>1, <3>2, <3>3
  <2> HIDE DEF s, t, x
  <2>4. j <= Len(q) \/ j = Len(q) + 1
    OBVIOUS
  <2> QED BY <2>2, <2>3, <2>4
<1>8. t = s \o <<x>>
  <2> HIDE DEF t, s, x
  <2> QED BY <1>4, <1>6, <1>7, SeqEqual
<1>9. Total(s \o <<x>>) = Total(s) + x
  <2>1. s \in Seq(Int) /\ <<x>> \in Seq(Int) /\ x \in Int
    <3> HIDE DEF s, x
    <3> QED BY <1>1, <1>2, <1>5
  <2> HIDE DEF s, x
  <2> QED BY <2>1, TotalConcat, TotalOne
<1> QED BY <1>8, <1>9

LEMMA FunctionIsSeq ==
    ASSUME NEW S, NEW n \in Nat, NEW s \in [1 .. n -> S]
    PROVE  s \in Seq(S) /\ Len(s) = n
  OBVIOUS

LEMMA ConcatElements ==
    \A s, t \in Seq(Nat) : \A m \in 1 .. Len(t) : (s \o t)[Len(s) + m] = t[m]
  OBVIOUS

\* The messages procQueue takes: it counts no less than their gaps, and at most
\* twice as much; the gaps of the messages it leaves are counted later.
LEMMA NoticedSplit ==
    ASSUME NEW q \in Seq(Received), NEW b \in BOOLEAN, NEW n \in 1 .. Len(q),
           NEW rest \in Seq(Received), Len(rest) = Len(q) - n,
           \A j \in 1 .. Len(rest) : rest[j] = q[n + j]
    PROVE  LET lost == [j \in 1 .. n |-> lostCounted(q[j].gap, j = 1 /\ ~b)]
           IN  \E g \in Nat : /\ Total(Noticed(q, b)) = g + Total(Noticed(rest, TRUE))
                              /\ g <= Total(lost) /\ Total(lost) <= 2 * g
<1> DEFINE lost == [j \in 1 .. n |-> lostCounted(q[j].gap, j = 1 /\ ~b)]
           s == [j \in 1 .. n |-> IF j = 1 /\ ~b THEN 0 ELSE q[j].gap]
           t == Noticed(rest, TRUE)
           u == Noticed(q, b)
<1>1. ASSUME NEW j \in 1 .. n
      PROVE  /\ s[j] \in Nat /\ lost[j] \in Nat
             /\ s[j] <= lost[j] /\ lost[j] <= 2 * s[j]
  <2>1. q[j].gap \in Nat
    <3>1. q[j] \in Received
      OBVIOUS
    <3> QED BY <3>1 DEF Received
  <2>2. s[j] = (IF j = 1 /\ ~b THEN 0 ELSE q[j].gap)
        /\ lost[j] = IF q[j].gap > 0 /\ ~(j = 1 /\ ~b) THEN q[j].gap + 1 ELSE 0
    BY DEF lostCounted
  <2> HIDE DEF s, lost
  <2> QED BY <2>1, <2>2
<1>2. n \in Nat /\ Len(q) \in Nat
  OBVIOUS
<1>3. s \in Seq(Nat) /\ lost \in Seq(Nat) /\ Len(s) = n /\ Len(lost) = n
  <2>1. s \in [1 .. n -> Nat]
    <3>1. \A j \in 1 .. n : (IF j = 1 /\ ~b THEN 0 ELSE q[j].gap) \in Nat
      BY <1>1
    <3> QED BY <3>1
  <2>2. lost \in [1 .. n -> Nat]
    <3>1. \A j \in 1 .. n : lostCounted(q[j].gap, j = 1 /\ ~b) \in Nat
      BY <1>1
    <3> QED BY <3>1
  <2> HIDE DEF s, lost
  <2> QED BY <1>2, <2>1, <2>2, FunctionIsSeq
<1>4. t \in Seq(Nat) /\ Len(t) = Len(q) - n /\ u \in Seq(Nat) /\ Len(u) = Len(q)
  BY NoticedType
<1>5. u = s \o t
  <2>1. \A j \in 1 .. Len(q) : u[j] = (s \o t)[j]
    <3> SUFFICES ASSUME NEW j \in 1 .. Len(q) PROVE u[j] = (s \o t)[j]
      OBVIOUS
    <3>1. u[j] = IF j = 1 /\ ~b THEN 0 ELSE q[j].gap
      BY DEF Noticed
    <3>2. CASE j \in 1 .. n
      <4>1. s[j] = IF j = 1 /\ ~b THEN 0 ELSE q[j].gap
        BY <3>2
      <4>2. (s \o t)[j] = s[j]
        <5> HIDE DEF s, t
        <5> QED BY <1>3, <1>4, <3>2
      <4> QED BY <3>1, <4>1, <4>2
    <3>3. CASE j \notin 1 .. n
      <4>1. j - n \in 1 .. Len(rest) /\ n + (j - n) = j /\ j # 1
        BY <1>2, <3>3
      <4>2. t[j - n] = q[j].gap
        <5>1. t[j - n] = rest[j - n].gap
          BY <4>1 DEF Noticed
        <5> QED BY <4>1, <5>1
      <4>3. (s \o t)[j] = t[j - n]
        <5> HIDE DEF s, t
        <5>1. PICK i \in 1 .. Len(t) : i = j - n /\ Len(s) + i = j
          BY <1>2, <1>3, <1>4, <4>1
        <5>2. \A m \in 1 .. Len(t) : (s \o t)[Len(s) + m] = t[m]
          BY <1>3, <1>4, ConcatElements, Zenon
        <5> QED BY <5>1, <5>2
      <4> QED BY <3>1, <4>1, <4>2, <4>3
    <3> QED BY <3>2, <3>3
  <2> HIDE DEF u, s, t
  <2>2. s \o t \in Seq(Nat) /\ Len(s \o t) = Len(q)
    <3>1. s \o t \in Seq(Nat) /\ Len(s \o t) = Len(s) + Len(t)
      BY <1>3, <1>4
    <3> QED BY <1>2, <1>3, <1>4, <3>1
  <2> QED BY <1>4, <2>1, <2>2, SeqEqual
<1> HIDE DEF u, s, t, lost
<1>6. Total(u) = Total(s) + Total(t)
  <2>1. s \in Seq(Int) /\ t \in Seq(Int)
    BY <1>3, <1>4
  <2> QED BY <1>5, <2>1, TotalConcat
<1>7. Total(s) \in Nat
  BY <1>3, TotalType
<1>8. Total(s) <= Total(lost) /\ Total(lost) <= 2 * Total(s)
  BY <1>1, <1>3, TotalBetween
<1> QED BY <1>6, <1>7, <1>8 DEF u, t, lost

\* Counted stays if nothing of the receiver changes.
LEMMA LossUnchanged ==
    ASSUME LossInv, UNCHANGED <<msgQueue, started, gap, cntLost, dropped>>
    PROVE  LossInv'
  BY DEF LossInv, Counted

LEMMA LossStep == Types /\ LossInv /\ [Next]_vars => LossInv'
<1> SUFFICES ASSUME Types, LossInv, [Next]_vars PROVE LossInv'
  OBVIOUS
<1> DEFINE pending == Total(Noticed(msgQueue, started))
           open == IF started \/ msgQueue # <<>> THEN gap ELSE 0
<1>0. /\ ReceiverTypes /\ pending \in Nat /\ open \in Nat
      /\ Counted = dropped - (pending + open)
      /\ gap \in Nat /\ cntLost \in Nat /\ dropped \in Nat /\ started \in BOOLEAN
  <2>1. ReceiverTypes
    BY DEF Types
  <2>2. pending \in Nat
    BY <2>1, NoticedType DEF ReceiverTypes
  <2> QED BY <2>1, <2>2 DEF ReceiverTypes, Counted
<1> HIDE DEF pending
<1>1. ASSUME UNCHANGED receiver, UNCHANGED dropped PROVE LossInv'
  BY <1>1, LossUnchanged DEF receiver
<1>2. ASSUME NEW p \in Points, DriverUpdate(p) \/ SyncDocument(p) PROVE LossInv'
  BY <1>1, <1>2 DEF DriverUpdate, SyncDocument
<1>3. ASSUME \/ SourceProcesses \/ OnChange \/ ChangeMissed \/ BeginSync
             \/ BackfillDequeue \/ ReplayBackfill
             \/ \E k \in 1 .. MaxPacket : Send(k)
      PROVE  LossInv'
  BY <1>1, <1>3 DEF SourceProcesses, OnChange, ChangeMissed, BeginSync,
                    BackfillDequeue, ReplayBackfill, Send
<1>4. ASSUME Receive PROVE LossInv'
  <2>1. Head(net) \in OnTheWay
    BY <1>0, <1>4 DEF Receive, ReceiverTypes
  <2>2. Head(net).gap = 0 /\ Head(net) \in [items : Seq(Item), gap : Nat]
        /\ Len(Head(net).items) <= MaxPacket
    BY <2>1 DEF OnTheWay, Received
  <2>3. UNCHANGED <<started, cntLost, dropped>>
    BY <1>4 DEF Receive
  <2>4. CASE gap' = gap + Head(net).gap /\ UNCHANGED msgQueue
    <3>1. gap' = gap
      BY <1>0, <2>2, <2>4
    <3> QED BY <2>3, <2>4, <3>1, LossUnchanged
  <2>5. CASE /\ msgQueue' = Append(msgQueue, [Head(net) EXCEPT !.gap = @ + gap])
             /\ gap' = 0
    <3> DEFINE m == [Head(net) EXCEPT !.gap = @ + gap]
    <3>1. m \in Received /\ m.gap = gap
      <4>1. m.gap = gap /\ m.items = Head(net).items
            /\ m \in [items : Seq(Item), gap : Nat]
        BY <1>0, <2>2
      <4> HIDE DEF m
      <4> QED BY <2>2, <4>1 DEF Received
    <3> HIDE DEF m
    <3>2. Total(Noticed(msgQueue', started')) = pending + open
      <4>1. Total(Noticed(Append(msgQueue, m), started)) =
              pending + (IF started \/ msgQueue # <<>> THEN m.gap ELSE 0)
        BY <1>0, <3>1, NoticedAppend DEF pending, ReceiverTypes
      <4> QED BY <2>3, <2>5, <3>1, <4>1 DEF m
    <3>3. Counted' = Counted
      <4>1. Counted' = dropped - ((pending + open) + 0)
        BY <2>3, <2>5, <3>2 DEF Counted
      <4> HIDE DEF open
      <4> QED BY <1>0, <4>1
    <3> QED BY <2>3, <3>3 DEF LossInv
  <2> QED BY <1>4, <2>4, <2>5 DEF Receive
<1>5. ASSUME Lose PROVE LossInv'
  <2> DEFINE l == Len(Head(net).items)
  <2>1. Head(net) \in OnTheWay
    BY <1>0, <1>5 DEF Lose, ReceiverTypes
  <2>2. Head(net).gap = 0 /\ l \in Nat
    BY <2>1 DEF OnTheWay, Received
  <2>3. /\ gap' = gap + Head(net).gap + l
        /\ dropped' = IF started \/ msgQueue # <<>> THEN dropped + l ELSE dropped
        /\ UNCHANGED <<started, cntLost, msgQueue>>
    BY <1>5 DEF Lose
  <2> HIDE DEF l
  <2>4. gap' = gap + l
    BY <1>0, <2>2, <2>3
  <2>5. Counted' = dropped' - (pending + IF started \/ msgQueue # <<>> THEN gap' ELSE 0)
    BY <2>3 DEF Counted, pending
  <2>6. Counted' = Counted
    BY <1>0, <2>2, <2>3, <2>4, <2>5
  <2> QED BY <2>3, <2>6 DEF LossInv
<1>6. ASSUME ClearQueue PROVE LossInv'
  <2> DEFINE sizes == [j \in DOMAIN msgQueue |-> Len(msgQueue[j].items)]
             gaps == [j \in DOMAIN msgQueue |-> msgQueue[j].gap]
  <2>1. DOMAIN msgQueue = 1 .. Len(msgQueue) /\ Len(msgQueue) \in 0 .. Len(msgQueue)
    BY <1>0 DEF ReceiverTypes
  <2>2. Total(sizes) \in Nat /\ Total(gaps) \in Nat
    <3>1. sizes \in Seq(Nat) /\ gaps \in Seq(Nat)
      BY <1>0, <2>1, LostType DEF ReceiverTypes
    <3> QED BY <3>1, TotalType
  <2>3. started => pending = Total(gaps)
    <3>1. started => Noticed(msgQueue, started) = gaps
      BY <2>1 DEF Noticed
    <3> QED BY <3>1 DEF pending
  <2>4. /\ msgQueue' = <<>>
        /\ gap' = gap + Total(sizes) + Total(gaps)
        /\ dropped' = IF started THEN dropped + Total(sizes) ELSE 0
        /\ UNCHANGED <<started, cntLost>>
    BY <1>6, Zenon DEF ClearQueue
  <2> HIDE DEF sizes, gaps
  <2>5. Counted' = dropped' - (0 + IF started THEN gap' ELSE 0)
    BY <1>0, <2>4, NoticedEmpty DEF Counted
  <2>6. CASE started
    <3>0. open = gap /\ dropped' = dropped + Total(sizes) /\ pending = Total(gaps)
          /\ Counted' = dropped' - (0 + gap')
      BY <2>3, <2>4, <2>5, <2>6
    <3> HIDE DEF open
    <3>1. Counted' = Counted
      BY <1>0, <2>2, <2>4, <3>0
    <3> QED BY <2>4, <3>1 DEF LossInv
  <2>7. CASE ~started
    <3>1. Counted' = 0 /\ cntLost' = 0
      BY <2>4, <2>5, <2>7 DEF LossInv
    <3> QED BY <3>1 DEF LossInv
  <2> QED BY <2>6, <2>7
<1>7. ASSUME ProcQueue PROVE LossInv'
  <2> DEFINE n == IF Len(msgQueue) < MaxMsgSeq THEN Len(msgQueue) ELSE MaxMsgSeq
             rest == SubSeq(msgQueue, n + 1, Len(msgQueue))
             lost == [j \in 1 .. n |-> lostCounted(msgQueue[j].gap, j = 1 /\ ~started)]
  <2>1. /\ msgQueue # <<>> /\ msgQueue' = rest
        /\ cntLost' = cntLost + Total(lost)
        /\ started' = TRUE
        /\ UNCHANGED <<gap, dropped>>
    BY <1>7, Zenon DEF ProcQueue
  <2>2. /\ n \in 1 .. Len(msgQueue) /\ rest \in Seq(Received)
        /\ Len(rest) = Len(msgQueue) - n
        /\ \A j \in 1 .. Len(rest) : rest[j] = msgQueue[n + j]
    <3>1. /\ n \in 0 .. Len(msgQueue) /\ n > 0 /\ rest \in Seq(Received)
          /\ Len(rest) = Len(msgQueue) - n
          /\ \A j \in 1 .. Len(rest) : rest[j] = msgQueue[n + j]
      BY <1>0, <2>1, QueueSplit, Zenon DEF ReceiverTypes
    <3> HIDE DEF n, rest
    <3> QED BY <3>1
  <2> HIDE DEF n, rest
  <2>3. PICK g \in Nat : /\ pending = g + Total(Noticed(rest, TRUE))
                         /\ g <= Total(lost) /\ Total(lost) <= 2 * g
    BY <1>0, <2>2, NoticedSplit DEF pending, ReceiverTypes
  <2>4. Total(lost) \in Nat
    <3>1. n \in 0 .. Len(msgQueue)
      BY <2>2
    <3>2. lost \in Seq(Nat)
      BY <1>0, <3>1, LostType DEF ReceiverTypes
    <3> QED BY <3>2, TotalType
  <2>5. Total(Noticed(rest, TRUE)) \in Nat
    BY <2>2, NoticedType
  <2> HIDE DEF lost
  <2>6. Counted' = dropped - (Total(Noticed(rest, TRUE)) + gap)
    BY <2>1 DEF Counted
  <2>0. open = gap
    BY <2>1
  <2> HIDE DEF open
  <2>7. Counted' = Counted + g
    <3> DEFINE r == Total(Noticed(rest, TRUE))
    <3>1. /\ r \in Nat /\ pending = g + r /\ Counted' = dropped - (r + gap)
          /\ Counted = dropped - (pending + gap)
      BY <1>0, <2>0, <2>3, <2>5, <2>6
    <3> HIDE DEF r
    <3>2. dropped - (r + gap) = dropped - (g + r + gap) + g
      BY <1>0, <3>1
    <3> QED BY <3>1, <3>2
  <2>8. Counted \in Int
    BY <1>0
  <2>9. /\ 0 <= Counted + g /\ Counted + g <= cntLost + Total(lost)
        /\ cntLost + Total(lost) <= 2 * (Counted + g)
    <3>1. 0 <= Counted /\ Counted <= cntLost /\ cntLost <= 2 * Counted
      BY DEF LossInv
    <3>2. ASSUME NEW c \in Int, NEW d \in Nat, NEW e \in Nat,
                 0 <= c, c <= d, d <= 2 * c, g <= e, e <= 2 * g
          PROVE  0 <= c + g /\ c + g <= d + e /\ d + e <= 2 * (c + g)
      BY <3>2
    <3> QED BY <1>0, <2>3, <2>4, <2>8, <3>1, <3>2
  <2> QED BY <2>1, <2>7, <2>9 DEF LossInv
<1>8. CASE UNCHANGED vars
  BY <1>1, <1>8 DEF vars
<1> QED BY <1>2, <1>3, <1>4, <1>5, <1>6, <1>7, <1>8 DEF Next

\* LossReported: numbers are given to sent changes only (dequeueChangesSend), so
\* what procQueue counts when a number is missing was lost on the way or with a
\* queue that was emptied, one too many for each gap; and with nothing left to
\* process it has counted all that was lost after its first message.
THEOREM LossesAreReported == Spec => []LossReported
<1>1. Init => LossInv
  <2> SUFFICES ASSUME Init PROVE LossInv
    OBVIOUS
  <2>1. msgQueue = <<>> /\ ~started /\ gap = 0 /\ dropped = 0 /\ cntLost = 0
        /\ started \in BOOLEAN
    BY Zenon DEF Init
  <2>2. Total(Noticed(msgQueue, started)) = 0
    BY <2>1, NoticedEmpty
  <2>3. Counted = 0
    BY <2>1, <2>2 DEF Counted
  <2> QED BY <2>1, <2>3 DEF LossInv
<1>2. Types /\ LossInv => LossReported
  <2> SUFFICES ASSUME Types, LossInv PROVE LossReported
    OBVIOUS
  <2>1. /\ ReceiverTypes /\ gap \in Nat /\ cntLost \in Nat /\ dropped \in Nat
        /\ started \in BOOLEAN
    BY DEF Types, ReceiverTypes
  <2>2. Total(Noticed(msgQueue, started)) \in Nat
    BY <2>1, NoticedType DEF ReceiverTypes
  <2>3. Counted <= dropped
    BY <2>1, <2>2 DEF Counted
  <2>4. Counted \in Int
    BY <2>1, <2>2 DEF Counted
  <2>5. cntLost <= 2 * dropped
    BY <2>1, <2>3, <2>4 DEF LossInv
  <2>6. ASSUME started, msgQueue = <<>>, gap = 0 PROVE cntLost >= dropped
    <3>0. Total(Noticed(msgQueue, started)) = 0
      BY <2>1, <2>6, NoticedEmpty
    <3>1. Counted = dropped - (0 + gap)
      BY <2>6, <3>0 DEF Counted
    <3>2. Counted = dropped
      BY <2>1, <2>6, <3>1
    <3> QED BY <2>1, <3>2 DEF LossInv
  <2> QED BY <2>5, <2>6 DEF LossReported
<1>3. Spec => [](Types /\ LossInv)
  BY <1>1, TypesInit, TypesStep, LossStep, PTL DEF Spec
<1> QED BY <1>2, <1>3, PTL
=============================================================================
