----------------------------- MODULE VarintProofs -----------------------------
(***************************************************************************)
(* Theorems about Varint: reading inverts writing for integers and bytes   *)
(* of every width, and the paths of the reader agree.                      *)
(***************************************************************************)
EXTENDS Varint, NaturalRecursion, SequenceTheorems, TLAPS

-----------------------------------------------------------------------------
(* Powers of two. *)

LEMMA Pow2Def ==
  /\ Pow2 \in [Nat -> Nat \ {0}]
  /\ Pow2[0] = 1
  /\ \A k \in Nat : Pow2[k + 1] = 2 * Pow2[k]
<1> DEFINE S == Nat \ {0}
           step == [n \in Nat |-> [s \in S |-> 2 * s]]
<1>1. 1 \in S /\ step \in [Nat -> [S -> S]]
  OBVIOUS
<1>2. \A n \in Nat, s \in S : step[n][s] = 2 * s
  OBVIOUS
<1>3. \E f \in [Nat -> S] : Follows(f, 1, step)
  <2> HIDE DEF S, step
  <2> QED BY <1>1, Recursion
<1>4. PICK f \in [Nat -> S] : Follows(f, 1, step)
  BY <1>3
<1> HIDE DEF step
<1>5. f[0] = 1 /\ \A n \in Nat : f[n + 1] = 2 * f[n]
  BY <1>2, <1>4 DEF Follows
<1>6. f = [k \in Nat |-> IF k = 0 THEN 1 ELSE 2 * f[k - 1]]
  <2>1. ASSUME NEW k \in Nat PROVE f[k] = IF k = 0 THEN 1 ELSE 2 * f[k - 1]
    <3>1. CASE k = 0 BY <3>1, <1>5
    <3>2. CASE k # 0
      <4>1. k - 1 \in Nat /\ (k - 1) + 1 = k BY <3>2
      <4>2. f[(k - 1) + 1] = 2 * f[k - 1] BY <4>1, <1>5
      <4> QED BY <4>1, <4>2, <3>2
    <3> QED BY <3>1, <3>2
  <2> QED BY <2>1
<1>7. Pow2 = [k \in Nat |-> IF k = 0 THEN 1 ELSE 2 * Pow2[k - 1]]
  BY <1>6, Zenon DEF Pow2
<1>8. Pow2[0] = 1 /\ \A k \in Nat : Pow2[k + 1] = 2 * Pow2[k]
  BY <1>7
<1>9. \A k \in Nat : Pow2[k] \in S
  <2> DEFINE E == {i \in Nat : Pow2[i] \in S}
  <2>1. 0 \in E BY <1>8
  <2>2. ASSUME NEW i \in Nat, i \in E PROVE i + 1 \in E BY <1>8, <2>2
  <2> HIDE DEF E
  <2>3. \A i \in Nat : i \in E BY <2>1, <2>2, Induction
  <2> QED BY <2>3 DEF E
<1>10. Pow2 = [k \in Nat |-> Pow2[k]]
  BY <1>7
<1> QED BY <1>8, <1>9, <1>10

LEMMA Pow2Sum ==
  ASSUME NEW a \in Nat, NEW b \in Nat
  PROVE  Pow2[a + b] = Pow2[a] * Pow2[b]
<1> DEFINE E == {n \in Nat : Pow2[a + n] = Pow2[a] * Pow2[n]}
<1>1. 0 \in E
  BY Pow2Def
<1>2. ASSUME NEW n \in Nat, n \in E PROVE n + 1 \in E
  <2>1. a + (n + 1) = (a + n) + 1 /\ a + n \in Nat OBVIOUS
  <2>2. Pow2[a + (n + 1)] = 2 * (Pow2[a] * Pow2[n]) BY <2>1, <1>2, Pow2Def
  <2>3. Pow2[a] \in Nat /\ Pow2[n] \in Nat /\ Pow2[n + 1] = 2 * Pow2[n] BY Pow2Def
  <2>4. 2 * (Pow2[a] * Pow2[n]) = Pow2[a] * (2 * Pow2[n]) BY <2>3
  <2> QED BY <2>2, <2>3, <2>4
<1> HIDE DEF E
<1>3. b \in E BY <1>1, <1>2, Induction
<1> QED BY <1>3 DEF E

LEMMA Pow2Grows ==
  ASSUME NEW a \in Nat, NEW b \in Nat, a <= b
  PROVE  Pow2[a] <= Pow2[b]
<1>1. b - a \in Nat /\ a + (b - a) = b OBVIOUS
<1>2. Pow2[b] = Pow2[a] * Pow2[b - a] BY <1>1, Pow2Sum
<1>3. Pow2[a] \in Nat /\ Pow2[b - a] \in Nat /\ Pow2[b - a] >= 1 BY <1>1, Pow2Def
<1>4. Pow2[a] * Pow2[b - a] >= Pow2[a] * 1
  BY <1>3
<1> QED BY <1>2, <1>3, <1>4

LEMMA Pow2GrowsStrictly ==
  ASSUME NEW a \in Nat, NEW b \in Nat, a < b
  PROVE  Pow2[a] < Pow2[b]
<1>1. Pow2[a + 1] <= Pow2[b] BY Pow2Grows
<1> QED BY <1>1, Pow2Def

-----------------------------------------------------------------------------
(* Division by the radix. *)

LEMMA HighFacts == High \in Nat /\ High >= 2
<1>1. GroupBits \in Nat /\ 1 <= GroupBits
  BY ConstAssumption
<1>2. Pow2[0 + 1] = 2
  BY Pow2Def
<1>3. Pow2[1] <= Pow2[GroupBits]
  BY <1>1, Pow2Grows
<1>4. Pow2[GroupBits] \in Nat
  BY <1>1, Pow2Def
<1> QED BY <1>2, <1>3, <1>4 DEF High

\* The low group and the rest make up the number, and the rest is smaller.
LEMMA DivFacts ==
  ASSUME NEW u \in Nat
  PROVE  /\ u = High * (u \div High) + (u % High)
         /\ u % High \in 0..(High - 1)
         /\ u \div High \in Nat
         /\ (u % High) + High \in High..(2 * High - 1)
         /\ u >= High => u \div High \in 1..(u - 1)
<1> DEFINE q == u \div High
           r == u % High
<1>1. u = High * q + r /\ r \in 0..(High - 1) /\ q \in Nat
  BY HighFacts
<1> HIDE DEF q, r
<1>2. ASSUME u >= High PROVE q \in 1..(u - 1)
  <2>1. q >= 1
    <3>1. SUFFICES ASSUME q = 0 PROVE FALSE BY <1>1
    <3> QED BY <3>1, <1>1, <1>2, HighFacts
  <2> DEFINE p == High * q
  <2>2. p >= 2 * q /\ p \in Nat
    BY <1>1, HighFacts
  <2>3. u = p + r
    BY <1>1
  <2> HIDE DEF p
  <2> QED BY <1>1, <2>1, <2>2, <2>3, HighFacts
<1>3. r + High \in High..(2 * High - 1)
  BY <1>1, HighFacts
<1> QED BY <1>1, <1>2, <1>3 DEF q, r

LEMMA GroupOf ==
  ASSUME NEW x \in 0..(High - 1)
  PROVE  (x + High) % High = x /\ x % High = x
BY HighFacts

-----------------------------------------------------------------------------
(* The encoding. *)

LEMMA GroupsDef ==
  \A u \in Nat : Groups[u] = IF u >= High THEN <<(u % High) + High>> \o Groups[u \div High]
                             ELSE <<u>>
<1> DEFINE S == [Nat -> Seq(Nat)]
           base == [u \in Nat |-> <<u>>]
           More(g) == [u \in Nat |-> IF u >= High THEN <<(u % High) + High>> \o g[u \div High]
                                                  ELSE <<u>>]
           step == [n \in Nat |-> [g \in S |-> More(g)]]
<1>1. base \in S
  OBVIOUS
<1>2. ASSUME NEW g \in S PROVE More(g) \in S
  <2>1. ASSUME NEW u \in Nat
        PROVE  (IF u >= High THEN <<(u % High) + High>> \o g[u \div High] ELSE <<u>>) \in Seq(Nat)
    <3>1. (u % High) + High \in Nat /\ u \div High \in Nat
      BY DivFacts, HighFacts
    <3>2. g[u \div High] \in Seq(Nat)
      BY <3>1
    <3>3. \A x \in Nat : <<x>> \in Seq(Nat)
      OBVIOUS
    <3>4. <<(u % High) + High>> \o g[u \div High] \in Seq(Nat)
      <4> DEFINE x == (u % High) + High
                 t == g[u \div High]
      <4>0. x \in Nat
        BY <3>1
      <4>2. t \in Seq(Nat)
        BY <3>2
      <4>1. <<x>> \in Seq(Nat) /\ t \in Seq(Nat)
        <5> HIDE DEF x, t
        <5> QED BY <3>3, <4>0, <4>2
      <4> HIDE DEF x, t
      <4>3. <<x>> \o t \in Seq(Nat)
        BY <4>1
      <4> QED BY <4>3 DEF x, t
    <3> QED BY <3>3, <3>4
  <2> QED BY <2>1
<1>3. step \in [Nat -> [S -> S]]
  BY <1>2
<1>4. PICK f \in [Nat -> S] : Follows(f, base, step)
  <2> HIDE DEF S, base, step
  <2> QED BY <1>1, <1>3, Recursion
<1>5. \A n \in Nat : f[n] \in S
  OBVIOUS
<1>6. \A u \in Nat : f[0][u] = <<u>>
  BY <1>4 DEF Follows
<1>7. ASSUME NEW n \in Nat, NEW u \in Nat
      PROVE  f[n + 1][u] = IF u >= High THEN <<(u % High) + High>> \o f[n][u \div High] ELSE <<u>>
  <2>1. f[n + 1] = More(f[n])
    BY <1>4, <1>5 DEF Follows
  <2> QED BY <2>1
<1> HIDE DEF S, base, step
<1>a. \A n \in Nat, u \in Nat : u < High => f[n][u] = <<u>>
  <2> SUFFICES ASSUME NEW n \in Nat, NEW u \in Nat, u < High PROVE f[n][u] = <<u>>
    OBVIOUS
  <2>1. CASE n = 0 BY <2>1, <1>6
  <2>2. CASE n # 0
    <3>1. n - 1 \in Nat /\ (n - 1) + 1 = n BY <2>2
    <3>2. ~ (u >= High) BY HighFacts
    <3> QED BY <3>1, <3>2, <1>7
  <2> QED BY <2>1, <2>2
<1> DEFINE E == {n \in Nat : \A u \in 0..n : f[n + 1][u] = f[n][u]}
<1>8. 0 \in E
  BY <1>a, HighFacts
<1>9. ASSUME NEW n \in Nat, n \in E PROVE n + 1 \in E
  <2> SUFFICES ASSUME NEW u \in 0..(n + 1) PROVE f[(n + 1) + 1][u] = f[n + 1][u]
    OBVIOUS
  <2>1. CASE u < High
    BY <2>1, <1>a, n + 1 \in Nat, (n + 1) + 1 \in Nat
  <2>2. CASE u >= High
    <3>1. u \div High \in 0..n
      BY <2>2, DivFacts
    <3>2. f[n + 1][u \div High] = f[n][u \div High]
      BY <3>1, <1>9
    <3>3. f[n + 1][u] = <<(u % High) + High>> \o f[n][u \div High]
      BY <2>2, <1>7, u \in Nat, Zenon
    <3>4. f[(n + 1) + 1][u] = <<(u % High) + High>> \o f[n + 1][u \div High]
      BY <2>2, <1>7, u \in Nat, n + 1 \in Nat, Zenon
    <3> QED BY <3>2, <3>3, <3>4
  <2> QED BY <2>1, <2>2, HighFacts
<1> HIDE DEF E
<1>10. \A n \in Nat : n \in E
  BY <1>8, <1>9, Induction
<1>11. ASSUME NEW u \in Nat PROVE \A d \in Nat : f[u + d][u] = f[u][u]
  <2> DEFINE D == {d \in Nat : f[u + d][u] = f[u][u]}
  <2>1. 0 \in D
    OBVIOUS
  <2>2. ASSUME NEW d \in Nat, d \in D PROVE d + 1 \in D
    <3>1. f[(u + d) + 1][u] = f[u + d][u]
      BY <1>10, u + d \in Nat, u \in 0..(u + d) DEF E
    <3> QED BY <2>2, <3>1, u + (d + 1) = (u + d) + 1
  <2> HIDE DEF D
  <2>3. \A d \in Nat : d \in D
    BY <2>1, <2>2, Induction
  <2> QED BY <2>3 DEF D
<1> DEFINE F == [u \in Nat |-> f[u][u]]
<1>12. F = [u \in Nat |-> IF u >= High THEN <<(u % High) + High>> \o F[u \div High] ELSE <<u>>]
  <2>1. ASSUME NEW u \in Nat
        PROVE  f[u][u] = IF u >= High THEN <<(u % High) + High>> \o F[u \div High] ELSE <<u>>
    <3>1. CASE u < High
      <4>1. ~ (u >= High) BY <3>1, HighFacts
      <4> QED BY <4>1, <3>1, <1>a
    <3>2. CASE u >= High
      <4> DEFINE v == u \div High
      <4>1. v \in 1..(u - 1)
        BY <3>2, DivFacts
      <4> HIDE DEF v
      <4>2. u - 1 \in Nat /\ (u - 1) + 1 = u /\ (u - 1) - v \in Nat /\ v + ((u - 1) - v) = u - 1 /\ v \in Nat
        BY <4>1
      <4>3. f[u - 1][v] = f[v][v]
        BY <4>2, <1>11
      <4>4. f[u][u] = <<(u % High) + High>> \o f[u - 1][v]
        BY <4>2, <1>7, <3>2 DEF v
      <4>5. F[v] = f[v][v]
        BY <4>2
      <4> QED BY <4>3, <4>4, <4>5, <3>2 DEF v
    <3> QED BY <3>1, <3>2, HighFacts
  <2> QED BY <2>1
<1> HIDE DEF F
<1>13. Groups = [u \in Nat |-> IF u >= High THEN <<(u % High) + High>> \o Groups[u \div High] ELSE <<u>>]
  BY <1>12, Zenon DEF Groups
<1> QED BY <1>13

\* The bytes of a number's encoding: all but the last one have the continuation bit;
\* the last one, which is not 0 unless it is the only one, tells how large the number is.
LEMMA GroupsFacts ==
  ASSUME NEW u \in Nat
  PROVE  LET g == Groups[u] n == Len(Groups[u])
         IN  /\ g \in Seq(Bytes) /\ n >= 1
             /\ \A k \in 1..(n - 1) : g[k] >= High
             /\ g[n] < High
             /\ n = 1 => g[n] = u
             /\ n > 1 => g[n] >= 1
             /\ g[n] * Pow2[GroupBits * (n - 1)] <= u
             /\ u < Pow2[GroupBits * n]
<1> DEFINE Right(v, g, n) ==
             /\ g \in Seq(Bytes) /\ n = Len(g) /\ n >= 1
             /\ \A k \in 1..(n - 1) : g[k] >= High
             /\ g[n] < High
             /\ n = 1 => g[n] = v
             /\ n > 1 => g[n] >= 1
             /\ g[n] * Pow2[GroupBits * (n - 1)] <= v
             /\ v < Pow2[GroupBits * n]
           E == {v \in Nat : Right(v, Groups[v], Len(Groups[v]))}
<1>0. GroupBits \in Nat /\ High \in Nat /\ High >= 2 /\ Bytes = 0..(2 * High - 1)
  BY ConstAssumption, HighFacts DEF Bytes
<1>1. ASSUME NEW v \in Nat, v < High PROVE Right(v, Groups[v], Len(Groups[v]))
  <2>1. Groups[v] = <<v>>
    <3>1. ~ (v >= High)
      BY <1>0, <1>1
    <3> QED BY <3>1, GroupsDef, Zenon
  <2>2. v \in Bytes
    BY <1>0, <1>1
  <2>3. <<v>> \in Seq(Bytes) /\ Len(<<v>>) = 1 /\ <<v>>[1] = v
    BY <2>2
  <2>4. GroupBits * 1 = GroupBits /\ GroupBits * (1 - 1) = 0
    BY <1>0
  <2>5. v * Pow2[GroupBits * (1 - 1)] = v /\ Pow2[GroupBits * 1] = High
    BY <2>4, Pow2Def DEF High
  <2>6. Right(v, <<v>>, 1)
    BY <2>3, <2>5, <1>1
  <2> HIDE DEF Right
  <2> QED BY <2>1, <2>3, <2>6
<1>2. ASSUME NEW v \in Nat, v >= High, v \div High \in E PROVE Right(v, Groups[v], Len(Groups[v]))
  <2> DEFINE q == v \div High
             x == (v % High) + High
             t == Groups[q]
             n == Len(t)
  <2>1. q \in Nat /\ x \in Bytes /\ x >= High
    <3>1. q \in Nat /\ x \in High..(2 * High - 1)
      BY DivFacts
    <3> HIDE DEF q, x
    <3> QED BY <1>0, <3>1
  <2>2. v = High * q + (v % High) /\ v % High \in 0..(High - 1)
    BY DivFacts
  <2>3. Groups[v] = <<x>> \o t
    BY <1>2, GroupsDef
  <2>4. Right(q, t, n)
    BY <1>2
  <2>5. q >= 1
    BY <1>2, DivFacts
  <2> HIDE DEF q, x, t
  <2>6. t \in Seq(Bytes) /\ n \in Nat /\ n >= 1
    BY <2>4
  <2>7. /\ <<x>> \o t \in Seq(Bytes)
        /\ Len(<<x>> \o t) = n + 1
        /\ (<<x>> \o t)[1] = x
        /\ \A k \in 1..n : (<<x>> \o t)[k + 1] = t[k]
    BY <2>1, <2>6
  <2> DEFINE g == <<x>> \o t
             lo == Pow2[GroupBits * (n - 1)]
             hi == Pow2[GroupBits * n]
             last == t[n]
  <2>8. last \in Nat /\ last < High /\ last >= 1
    <3>1. last \in Bytes
      BY <2>6
    <3>2. last < High /\ (n > 1 => last >= 1) /\ (n = 1 => last = q)
      BY <2>4
    <3> HIDE DEF last, Right, n, E
    <3>3. last \in Nat
      BY <1>0, <3>1
    <3>4. last >= 1
      BY <2>5, <2>6, <3>2
    <3> QED BY <3>2, <3>3, <3>4
  <2>9. g[n + 1] = last
    BY <2>6, <2>7
  <2>10. /\ Pow2[GroupBits * (n + 1)] = High * hi
         /\ Pow2[GroupBits * n] = High * lo
    <3>1. GroupBits * (n - 1) \in Nat /\ GroupBits * n \in Nat
      BY <1>0, <2>6
    <3>2. GroupBits * (n + 1) = GroupBits + GroupBits * n /\ GroupBits * n = GroupBits + GroupBits * (n - 1)
      BY <1>0, <2>6
    <3>3. Pow2[GroupBits + GroupBits * n] = Pow2[GroupBits] * hi
      BY <3>1, <1>0, Pow2Sum
    <3>4. Pow2[GroupBits + GroupBits * (n - 1)] = Pow2[GroupBits] * lo
      BY <3>1, <1>0, Pow2Sum
    <3> QED BY <3>2, <3>3, <3>4 DEF High
  <2>11. lo \in Nat /\ hi \in Nat /\ last * lo <= q /\ q < hi
    <3>1. GroupBits * (n - 1) \in Nat /\ GroupBits * n \in Nat
      BY <1>0, <2>6
    <3> QED BY <2>4, <3>1, Pow2Def
  <2>12. \A k \in 1..n : g[k] >= High
    <3> SUFFICES ASSUME NEW k \in 1..n PROVE g[k] >= High
      OBVIOUS
    <3>1. CASE k = 1
      BY <3>1, <2>7, <2>1
    <3>2. CASE k # 1
      <4>1. k - 1 \in 1..(n - 1) /\ k - 1 \in 1..n /\ (k - 1) + 1 = k
        BY <3>2, <2>6
      <4>2. t[k - 1] >= High
        BY <4>1, <2>4
      <4>3. g[(k - 1) + 1] = t[k - 1]
        BY <4>1, <2>7
      <4> QED BY <4>1, <4>2, <4>3
    <3> QED BY <3>1, <3>2
  <2> HIDE DEF lo, hi, last, g, Right
  <2>13. last * (High * lo) <= v
    <3>1. last * (High * lo) = High * (last * lo)
      BY <1>0, <2>8, <2>11
    <3>2. last * lo \in Nat
      BY <2>8, <2>11
    <3>3. High * (last * lo) <= High * q
      BY <1>0, <2>1, <2>11, <3>2
    <3>4. High * q <= v
      <4> DEFINE r == v % High
                 p == High * q
      <4>1. v = p + r /\ r \in 0..(High - 1) /\ p \in Nat
        BY <2>1, <2>2, <1>0
      <4> HIDE DEF r, p
      <4>2. p <= v
        BY <4>1, <1>0
      <4> QED BY <4>2 DEF p
    <3> QED BY <3>1, <3>2, <3>3, <3>4, <1>0, <2>1
  <2>14. v < High * hi
    <3>1. q + 1 <= hi
      BY <2>1, <2>11
    <3>2. High * (q + 1) <= High * hi
      BY <1>0, <2>1, <2>11, <3>1
    <3>3. High * (q + 1) = High * q + High
      BY <1>0, <2>1
    <3> QED BY <3>2, <3>3, <2>2, <1>0, <2>1, <2>11
  <2>15. Right(v, g, n + 1)
    <3>1. (n + 1) - 1 = n
      BY <2>6
    <3>2. g \in Seq(Bytes) /\ n + 1 = Len(g) /\ n + 1 >= 1
      BY <2>6, <2>7 DEF g
    <3>3. last * Pow2[GroupBits * n] <= v /\ v < Pow2[GroupBits * (n + 1)]
      BY <2>10, <2>13, <2>14
    <3> QED BY <3>1, <3>2, <3>3, <2>6, <2>8, <2>9, <2>12 DEF Right, g
  <2> QED BY <2>3, <2>7, <2>15 DEF g
<1>3. ASSUME NEW v \in Nat, \A m \in 0..(v - 1) : m \in E PROVE v \in E
  <2>1. CASE v < High
    BY <2>1, <1>1
  <2>2. CASE v >= High
    <3>1. v \div High \in 0..(v - 1)
      BY <2>2, DivFacts
    <3> HIDE DEF Right
    <3>2. v \div High \in E
      BY <3>1, <1>3
    <3> QED BY <2>2, <3>2, <1>2
  <2> QED BY <2>1, <2>2, <1>0
<1> HIDE DEF E
<1>4. u \in E
  BY <1>3, CompleteInduction
<1> QED BY <1>4 DEF E

\* The same without the bounds, and that bytes are numbers.
LEMMA GroupsBytes ==
  ASSUME NEW u \in Nat
  PROVE  LET n == Len(Groups[u])
         IN  /\ n \in Nat /\ n >= 1 /\ (\A k \in 1..(n - 1) : Groups[u][k] >= High)
             /\ Groups[u][n] < High
             /\ \A k \in 1..n : Groups[u][k] \in Nat
<1> DEFINE g == Groups[u]
           n == Len(g)
<1>1. g \in Seq(Bytes) /\ n >= 1 /\ (\A k \in 1..(n - 1) : g[k] >= High) /\ g[n] < High
  BY GroupsFacts
<1>2. Bytes \subseteq Nat
  BY HighFacts DEF Bytes
<1> HIDE DEF g
<1>3. n \in Nat /\ \A k \in 1..n : g[k] \in Nat
  <2>1. n \in Nat /\ \A k \in 1..n : g[k] \in Bytes
    BY <1>1
  <2> QED BY <2>1, <1>2, Zenon
<1> QED BY <1>1, <1>3 DEF g

-----------------------------------------------------------------------------
(* Sizes. *)

LEMMA MinFacts ==
  ASSUME NEW T, T \subseteq Nat, T # {}
  PROVE  Min(T) \in T /\ \A x \in T : Min(T) <= x
BY Least DEF Min

LEMMA Times ==
  ASSUME NEW a \in Nat, NEW b \in Nat, NEW c \in Nat, b <= c
  PROVE  a * b <= a * c
OBVIOUS

LEMMA QuotientIs ==
  ASSUME NEW a \in Nat, NEW b \in Nat \ {0}, NEW q \in Nat, b * q <= a, a < b * (q + 1)
  PROVE  a \div b = q
<1> DEFINE d == a \div b
           r == a % b
<1>1. a = b * d + r /\ r \in 0..(b - 1) /\ d \in Nat
  OBVIOUS
<1> HIDE DEF d, r
<1>2. b * (d + 1) = b * d + b /\ b * (q + 1) = b * q + b /\ b * d \in Nat /\ b * q \in Nat
  BY <1>1
<1>3. ASSUME d < q PROVE FALSE
  <2>1. b * (d + 1) <= b * q
    BY <1>1, <1>3, Times
  <2> QED BY <2>1, <1>1, <1>2
<1>4. ASSUME d > q PROVE FALSE
  <2>1. b * (q + 1) <= b * d
    BY <1>1, <1>4, Times
  <2> QED BY <2>1, <1>1, <1>2
<1> QED BY <1>1, <1>3, <1>4 DEF d

\* A width is some full groups and a part of one.
LEMMA WidthParts ==
  ASSUME NEW w \in {Width, MaxWidth}
  PROVE  /\ w \in Nat /\ w % GroupBits \in 1..(GroupBits - 1)
         /\ w = GroupBits * (w \div GroupBits) + (w % GroupBits)
         /\ w \div GroupBits \in Nat \ {0}
         /\ MaxSize(w) = w \div GroupBits + 1
         /\ MaxLastByte(w) \in Nat /\ MaxLastByte(w) < High
<1>1. w \in Nat /\ GroupBits \in Nat \ {0} /\ w % GroupBits # 0 /\ w > GroupBits
  BY ConstAssumption
<1> DEFINE q == w \div GroupBits
           r == w % GroupBits
<1>2. w = GroupBits * q + r /\ r \in 0..(GroupBits - 1) /\ q \in Nat /\ r # 0
  BY <1>1
<1> HIDE DEF q, r
<1>3. q # 0
  BY <1>1, <1>2
<1>4. Pow2[r] \in Nat \ {0} /\ Pow2[r] < Pow2[GroupBits]
  BY <1>1, <1>2, Pow2Def, Pow2GrowsStrictly
<1>5. Pow2[r] - 1 \in Nat /\ Pow2[r] - 1 < High
  BY <1>4, HighFacts DEF High
<1> QED BY <1>1, <1>2, <1>3, <1>5 DEF q, r, MaxSize, MaxLastByte

\* A number of w bits needs no more bytes than there are for w bits, and in the last
\* of them no more bits than are left.
LEMMA GroupsFit ==
  ASSUME NEW w \in {Width, MaxWidth}, NEW u \in Nat, u < Pow2[w]
  PROVE  /\ Len(Groups[u]) \in 1..MaxSize(w)
         /\ Len(Groups[u]) = MaxSize(w) => Groups[u][MaxSize(w)] <= MaxLastByte(w)
<1> DEFINE g == Groups[u]
           n == Len(g)
           q == w \div GroupBits
           r == w % GroupBits
<1>1. /\ g \in Seq(Bytes) /\ n \in Nat /\ n >= 1 /\ g[n] \in Nat
      /\ n > 1 => g[n] >= 1
      /\ g[n] * Pow2[GroupBits * (n - 1)] <= u
  <2>1. g \in Seq(Bytes) /\ n >= 1
    BY GroupsFacts
  <2>2. n \in Nat /\ g[n] \in Bytes
    BY <2>1
  <2>3. g[n] \in Nat
    BY <2>2, HighFacts DEF Bytes
  <2> QED BY <2>1, <2>2, <2>3, GroupsFacts
<1>2. /\ w \in Nat /\ q \in Nat /\ r \in Nat /\ w = GroupBits * q + r /\ r < GroupBits
      /\ MaxSize(w) = q + 1 /\ GroupBits \in Nat
  BY WidthParts, ConstAssumption
<1> HIDE DEF g, n, q, r
<1>3. ASSUME n > q + 1 PROVE FALSE
  <2>1. GroupBits * (n - 1) \in Nat /\ GroupBits * (q + 1) \in Nat /\ GroupBits * (q + 1) <= GroupBits * (n - 1)
    BY <1>1, <1>2, <1>3, Times, n - 1 \in Nat, q + 1 \in Nat
  <2>2. w <= GroupBits * (q + 1)
    BY <1>2
  <2>3. Pow2[w] <= Pow2[GroupBits * (n - 1)]
    BY <2>1, <2>2, <1>2, Pow2Grows
  <2>4. Pow2[GroupBits * (n - 1)] \in Nat
    BY <2>1, Pow2Def
  <2>5. Pow2[GroupBits * (n - 1)] <= g[n] * Pow2[GroupBits * (n - 1)]
    BY <2>4, <1>1, <1>2, <1>3
  <2>6. g[n] * Pow2[GroupBits * (n - 1)] \in Nat /\ Pow2[w] \in Nat
    <3>1. \A a, b \in Nat : a * b \in Nat
      OBVIOUS
    <3>2. Pow2[w] \in Nat
      BY <1>2, Pow2Def
    <3> QED BY <3>1, <3>2, <2>4, <1>1
  <2> QED BY <2>3, <2>4, <2>5, <2>6, <1>1
<1>4. ASSUME n = q + 1 PROVE g[n] <= MaxLastByte(w)
  <2> DEFINE lo == Pow2[GroupBits * q]
             hi == Pow2[r]
             x == g[n]
  <2>1. GroupBits * q \in Nat
    BY <1>2
  <2>2. Pow2[w] = lo * hi /\ lo \in Nat \ {0} /\ hi \in Nat \ {0}
    BY <2>1, <1>2, Pow2Sum, Pow2Def
  <2>3. n - 1 = q
    BY <1>4, <1>2
  <2>4. x * lo <= u /\ x \in Nat
    BY <1>1, <2>3
  <2> HIDE DEF lo, hi, x
  <2>5. x * lo < lo * hi
    BY <2>2, <2>4
  <2>6. x * lo = lo * x
    BY <2>2, <2>4
  <2>7. ASSUME hi <= x PROVE FALSE
    <3>1. lo * hi <= lo * x
      BY <2>7, <2>2, <2>4, Times
    <3>2. lo * hi \in Nat /\ lo * x \in Nat
      BY <2>2, <2>4
    <3> QED BY <3>1, <3>2, <2>5, <2>6
  <2>8. x <= hi - 1
    BY <2>2, <2>4, <2>7
  <2> QED BY <2>8 DEF hi, x, r, MaxLastByte
<1> QED BY <1>1, <1>2, <1>3, <1>4 DEF g, n

\* varint_wire_size() is the number of bytes that append_varint() writes.
LEMMA SizeIsLength ==
  ASSUME NEW u \in Nat, u < Pow2[Width]
  PROVE  (BitWidth(u) + GroupBits - 1) \div GroupBits = Len(Groups[u])
<1> DEFINE n == Len(Groups[u])
           x == Groups[u][n]
           bw == BitWidth(u)
           T == {k \in 1..MaxWidth : u < Pow2[k]}
<1>1. /\ GroupBits \in Nat \ {0} /\ MaxWidth \in Nat /\ Width \in Nat \ {0} /\ Width <= MaxWidth
  BY ConstAssumption
<1>2. /\ n \in Nat /\ n >= 1 /\ x \in Nat /\ (n > 1 => x >= 1)
      /\ x * Pow2[GroupBits * (n - 1)] <= u
      /\ u < Pow2[GroupBits * n]
  <2>1. Groups[u] \in Seq(Bytes) /\ n >= 1
    BY GroupsFacts
  <2>2. n \in Nat /\ Groups[u][n] \in Bytes
    BY <2>1
  <2>3. Groups[u][n] \in Nat
    BY <2>2, HighFacts DEF Bytes
  <2> QED BY <2>1, <2>2, <2>3, GroupsFacts
<1>3. Pow2[Width] <= Pow2[MaxWidth] /\ Pow2[Width] \in Nat /\ Pow2[MaxWidth] \in Nat
  BY <1>1, Pow2Grows, Pow2Def
<1>4. MaxWidth \in T
  BY <1>1, <1>3
<1>5. bw \in T /\ \A k \in T : bw <= k
  BY <1>4, MinFacts DEF BitWidth
<1>6. bw \in 1..MaxWidth /\ u < Pow2[bw]
  BY <1>5
<1>7. bw <= GroupBits * n
  <2>1. CASE GroupBits * n <= MaxWidth
    <3>1. GroupBits * n \in Nat /\ GroupBits * n >= 1
      BY <1>1, <1>2
    <3>2. GroupBits * n \in T
      BY <2>1, <3>1, <1>1, <1>2
    <3> QED BY <3>2, <1>5
  <2>2. CASE ~(GroupBits * n <= MaxWidth)
    <3>1. GroupBits * n \in Nat
      BY <1>1, <1>2
    <3> QED BY <2>2, <3>1, <1>1, <1>6
  <2> QED BY <2>1, <2>2
<1> HIDE DEF n, x, bw, T
<1>8. bw > GroupBits * (n - 1)
  <2> DEFINE m == GroupBits * (n - 1)
  <2>1. m \in Nat /\ (n = 1 => m = 0)
    BY <1>1, <1>2
  <2>2. x * Pow2[m] <= u /\ Pow2[m] \in Nat
    BY <1>2, <2>1, Pow2Def
  <2> HIDE DEF m
  <2>3. ASSUME bw <= m PROVE FALSE
    <3>1. n > 1 /\ x >= 1
      BY <2>1, <2>3, <1>2, <1>6
    <3>2. Pow2[bw] <= Pow2[m] /\ Pow2[bw] \in Nat
      BY <2>1, <2>3, <1>6, <1>1, Pow2Grows, Pow2Def
    <3>3. Pow2[m] <= x * Pow2[m] /\ x * Pow2[m] \in Nat
      BY <3>1, <2>2, <1>2
    <3> QED BY <3>2, <3>3, <2>2, <1>6
  <2>4. m < bw
    BY <2>1, <2>3, <1>6, <1>1
  <2> QED BY <2>4 DEF m
<1>9. /\ GroupBits * n <= bw + GroupBits - 1
      /\ bw + GroupBits - 1 < GroupBits * (n + 1)
      /\ bw + GroupBits - 1 \in Nat
  <2>1. GroupBits * n = GroupBits * (n - 1) + GroupBits /\ GroupBits * (n + 1) = GroupBits * n + GroupBits
        /\ GroupBits * n \in Nat /\ GroupBits * (n - 1) \in Nat
    BY <1>1, <1>2
  <2> QED BY <2>1, <1>1, <1>6, <1>7, <1>8
<1>10. (bw + GroupBits - 1) \div GroupBits = n
  BY <1>1, <1>2, <1>9, QuotientIs
<1> QED BY <1>10 DEF bw, n

-----------------------------------------------------------------------------
(* Decoding. *)

LEMMA EndingAtDef ==
  ASSUME NEW m \in Nat, NEW b, \A k \in 1..m : b[k] \in Nat
  PROVE  /\ EndingAt(b, m)[0] = 0
         /\ \A j \in 0..(m - 1) : EndingAt(b, m)[j + 1] = (b[m - j] % High) + High * EndingAt(b, m)[j]
         /\ \A j \in 0..m : EndingAt(b, m)[j] \in Nat
<1> DEFINE More(j, s) == (b[m - j] % High) + High * s
           step == [j \in Nat |-> [s \in Nat |-> IF j < m THEN More(j, s) ELSE 0]]
<1>1. ASSUME NEW j \in Nat, NEW s \in Nat, j < m PROVE More(j, s) \in Nat
  <2>1. b[m - j] \in Nat
    BY <1>1
  <2>2. b[m - j] % High \in Nat
    BY <2>1, DivFacts
  <2>3. High * s \in Nat
    BY HighFacts
  <2> QED BY <2>2, <2>3
<1> HIDE DEF More
<1>2. step \in [Nat -> [Nat -> Nat]]
  BY <1>1
<1>3. PICK f \in [Nat -> Nat] : Follows(f, 0, step)
  <2> HIDE DEF step
  <2> QED BY <1>2, Recursion
<1>4. f[0] = 0 /\ \A j \in 0..(m - 1) : f[j + 1] = More(j, f[j])
  <2>1. f[0] = 0 /\ \A j \in Nat : f[j + 1] = step[j][f[j]]
    BY <1>3 DEF Follows
  <2>2. \A j \in Nat : j < m => step[j][f[j]] = More(j, f[j])
    OBVIOUS
  <2> HIDE DEF step
  <2> QED BY <2>1, <2>2
<1> DEFINE g == [j \in 0..m |-> f[j]]
<1>5. g = [j \in 0..m |-> IF j = 0 THEN 0 ELSE (b[m - j + 1] % High) + High * g[j - 1]]
  <2>1. ASSUME NEW j \in 0..m
        PROVE  f[j] = IF j = 0 THEN 0 ELSE (b[m - j + 1] % High) + High * g[j - 1]
    <3>1. CASE j = 0
      BY <3>1, <1>4
    <3>2. CASE j # 0
      <4>1. j - 1 \in 0..(m - 1) /\ (j - 1) + 1 = j /\ m - (j - 1) = m - j + 1 /\ j - 1 \in 0..m
        BY <3>2
      <4>2. f[j] = More(j - 1, f[j - 1])
        BY <4>1, <1>4
      <4>3. g[j - 1] = f[j - 1]
        BY <4>1
      <4>4. More(j - 1, f[j - 1]) = (b[m - j + 1] % High) + High * f[j - 1]
        BY <4>1 DEF More
      <4> HIDE DEF g
      <4> QED BY <3>2, <4>2, <4>3, <4>4
    <3> QED BY <3>1, <3>2
  <2> QED BY <2>1
<1> HIDE DEF g
<1>6. EndingAt(b, m) = [j \in 0..m |-> IF j = 0 THEN 0 ELSE (b[m - j + 1] % High) + High * EndingAt(b, m)[j - 1]]
  BY <1>5, Zenon DEF EndingAt
<1> DEFINE e == EndingAt(b, m)
           E == {j \in Nat : j <= m => e[j] = f[j]}
<1>7. e[0] = 0
  BY <1>6
<1>8. ASSUME NEW j \in 0..(m - 1) PROVE e[j + 1] = (b[m - j] % High) + High * e[j]
  <2>1. j + 1 \in 0..m /\ j + 1 # 0 /\ (j + 1) - 1 = j /\ m - (j + 1) + 1 = m - j
    OBVIOUS
  <2>2. e[j + 1] = (b[m - (j + 1) + 1] % High) + High * e[(j + 1) - 1]
    BY <1>6, <2>1, Zenon
  <2> QED BY <2>1, <2>2
<1> HIDE DEF e
<1>9. 0 \in E
  BY <1>7, <1>4
<1>10. ASSUME NEW j \in Nat, j \in E PROVE j + 1 \in E
  <2> SUFFICES ASSUME j + 1 <= m PROVE e[j + 1] = f[j + 1]
    OBVIOUS
  <2>1. j \in 0..(m - 1)
    OBVIOUS
  <2>2. e[j] = f[j]
    BY <1>10, <2>1
  <2>3. f[j + 1] = (b[m - j] % High) + High * f[j]
    BY <2>1, <1>4 DEF More
  <2>4. e[j + 1] = (b[m - j] % High) + High * e[j]
    BY <2>1, <1>8
  <2> QED BY <2>2, <2>3, <2>4
<1> HIDE DEF E
<1>11. \A j \in Nat : j \in E
  BY <1>9, <1>10, Induction
<1>12. \A j \in 0..m : e[j] = f[j]
  BY <1>11 DEF E
<1> QED BY <1>7, <1>8, <1>12 DEF e

\* The first byte has the lowest group.
LEMMA PayloadStep ==
  ASSUME NEW i \in Nat, NEW n \in Nat \ {0}, NEW b, \A k \in 1..(i + n) : b[k] \in Nat
  PROVE  /\ Payload(b, i, n) = (b[i + 1] % High) + High * Payload(b, i + 1, n - 1)
         /\ Payload(b, i + 1, n - 1) \in Nat
<1>1. i + n \in Nat /\ n - 1 \in 0..((i + n) - 1) /\ (n - 1) + 1 = n /\ (i + n) - (n - 1) = i + 1
  OBVIOUS
<1>2. (i + 1) + (n - 1) = i + n
  OBVIOUS
<1>3. EndingAt(b, i + n)[(n - 1) + 1] = (b[(i + n) - (n - 1)] % High) + High * EndingAt(b, i + n)[n - 1]
  BY <1>1, EndingAtDef
<1>4. EndingAt(b, i + n)[n - 1] \in Nat
  BY <1>1, EndingAtDef, n - 1 \in 0..(i + n)
<1>5. Payload(b, i + 1, n - 1) = EndingAt(b, i + n)[n - 1]
  BY <1>2 DEF Payload
<1>6. Payload(b, i, n) = EndingAt(b, i + n)[n]
  BY DEF Payload
<1> QED BY <1>1, <1>3, <1>4, <1>5, <1>6

LEMMA PayloadNone ==
  ASSUME NEW i \in Nat, NEW b, \A k \in 1..i : b[k] \in Nat
  PROVE  Payload(b, i, 0) = 0
BY EndingAtDef, i + 0 = i DEF Payload

\* b has the bytes of u after the first i.
Holds(b, i, u) == \A k \in 1..Len(Groups[u]) : b[i + k] = Groups[u][k]

\* A number is read as it was written.
LEMMA PayloadOfGroups ==
  ASSUME NEW u \in Nat, NEW i \in Nat, NEW b,
         \A k \in 1..(i + Len(Groups[u])) : b[k] \in Nat, Holds(b, i, u)
  PROVE  Payload(b, i, Len(Groups[u])) = u
<1> DEFINE Right(v) == \A j \in Nat :
              (\A k \in 1..(j + Len(Groups[v])) : b[k] \in Nat) /\ Holds(b, j, v)
                => Payload(b, j, Len(Groups[v])) = v
           E == {v \in Nat : Right(v)}
<1>1. ASSUME NEW v \in Nat, v < High PROVE Right(v)
  <2> SUFFICES ASSUME NEW j \in Nat, \A k \in 1..(j + Len(Groups[v])) : b[k] \in Nat, Holds(b, j, v)
               PROVE  Payload(b, j, Len(Groups[v])) = v
    OBVIOUS
  <2>1. Groups[v] = <<v>>
    <3>1. ~ (v >= High)
      BY <1>1, HighFacts
    <3> QED BY <3>1, GroupsDef, Zenon
  <2>2. Len(Groups[v]) = 1 /\ Groups[v][1] = v
    BY <2>1
  <2>3. b[j + 1] = v /\ \A k \in 1..(j + 1) : b[k] \in Nat
    BY <2>2 DEF Holds
  <2>4. Payload(b, j, 1) = (b[j + 1] % High) + High * Payload(b, j + 1, 0)
    BY <2>3, PayloadStep, 1 - 1 = 0
  <2>5. Payload(b, j + 1, 0) = 0
    BY <2>3, PayloadNone, j + 1 \in Nat
  <2>6. v % High = v
    <3>1. v \in 0..(High - 1)
      BY <1>1, HighFacts
    <3> QED BY <3>1, GroupOf
  <2>7. High * 0 = 0
    BY HighFacts
  <2> QED BY <2>2, <2>3, <2>4, <2>5, <2>6, <2>7
<1>2. ASSUME NEW v \in Nat, v >= High, Right(v \div High) PROVE Right(v)
  <2> SUFFICES ASSUME NEW j \in Nat, \A k \in 1..(j + Len(Groups[v])) : b[k] \in Nat, Holds(b, j, v)
               PROVE  Payload(b, j, Len(Groups[v])) = v
    OBVIOUS
  <2> DEFINE q == v \div High
             x == (v % High) + High
             t == Groups[q]
             n == Len(t)
  <2>1. q \in Nat /\ x \in Nat /\ v = High * q + (v % High) /\ v % High \in 0..(High - 1)
    <3>1. q \in Nat /\ x \in High..(2 * High - 1) /\ v = High * q + (v % High) /\ v % High \in 0..(High - 1)
      BY DivFacts
    <3> HIDE DEF q, x
    <3> QED BY <3>1, HighFacts
  <2>2. Groups[v] = <<x>> \o t
    BY <1>2, GroupsDef
  <2>3. t \in Seq(Bytes) /\ n \in Nat /\ n >= 1
    <3>1. t \in Seq(Bytes) /\ n >= 1
      BY <2>1, GroupsFacts
    <3> HIDE DEF t
    <3> QED BY <3>1
  <2>4. x % High = v % High
    BY <2>1, GroupOf
  <2>5. Right(q)
    BY <1>2
  <2> HIDE DEF q, x, t
  <2>6. /\ Len(<<x>> \o t) = n + 1 /\ (<<x>> \o t)[1] = x
        /\ \A k \in 1..n : (<<x>> \o t)[k + 1] = t[k]
    BY <2>1, <2>3
  <2>7. Len(Groups[v]) = n + 1 /\ Groups[v][1] = x /\ \A k \in 1..n : Groups[v][k + 1] = t[k]
    BY <2>2, <2>6
  <2>8. b[j + 1] = x
    <3>1. b[j + 1] = Groups[v][1]
      BY <2>3, <2>7, 1 \in 1..(n + 1) DEF Holds
    <3> QED BY <3>1, <2>7
  <2>9. Holds(b, j + 1, q)
    <3> SUFFICES ASSUME NEW k \in 1..n PROVE b[(j + 1) + k] = t[k]
      BY DEF Holds, t
    <3>1. k + 1 \in 1..(n + 1) /\ (j + 1) + k = j + (k + 1)
      BY <2>3
    <3>2. b[j + (k + 1)] = Groups[v][k + 1]
      BY <3>1, <2>7 DEF Holds
    <3> QED BY <3>1, <3>2, <2>7
  <2>10. \A k \in 1..(j + (n + 1)) : b[k] \in Nat
    BY <2>7
  <2>11. Payload(b, j + 1, n) = q
    <3>1. (j + 1) + n = j + (n + 1) /\ j + 1 \in Nat
      BY <2>3
    <3>2. \A k \in 1..((j + 1) + n) : b[k] \in Nat
      BY <3>1, <2>10
    <3> QED BY <3>1, <3>2, <2>5, <2>9 DEF t
  <2>12. Payload(b, j, n + 1) = (b[j + 1] % High) + High * Payload(b, j + 1, (n + 1) - 1)
    BY <2>3, <2>10, PayloadStep, n + 1 \in Nat \ {0}
  <2>13. (n + 1) - 1 = n
    BY <2>3
  <2>14. Payload(b, j, n + 1) = (v % High) + High * q
    BY <2>4, <2>8, <2>11, <2>12, <2>13
  <2>15. High * q \in Nat /\ v % High \in Nat
    BY <2>1, HighFacts
  <2> QED BY <2>1, <2>7, <2>14, <2>15
<1> HIDE DEF Right
<1>3. ASSUME NEW v \in Nat, \A m \in 0..(v - 1) : m \in E PROVE v \in E
  <2>1. CASE v < High
    BY <2>1, <1>1
  <2>2. CASE v >= High
    <3>1. v \div High \in 0..(v - 1)
      BY <2>2, DivFacts
    <3>2. v \div High \in E
      BY <3>1, <1>3
    <3> QED BY <2>2, <3>2, <1>2
  <2> QED BY <2>1, <2>2, HighFacts
<1> HIDE DEF E
<1>4. u \in E
  BY <1>3, CompleteInduction
<1> QED BY <1>4 DEF E, Right

-----------------------------------------------------------------------------
(* The reader. *)

LEMMA MinIs ==
  ASSUME NEW T, T \subseteq Nat, NEW n \in T, \A x \in T : n <= x
  PROVE  Min(T) = n
<1>1. Min(T) \in T /\ Min(T) <= n
  BY MinFacts
<1>2. n <= Min(T) /\ n \in Nat /\ Min(T) \in Nat
  BY <1>1
<1> QED BY <1>1, <1>2

\* Where the path for a long buffer stops, and the other one.
FastStops(b, i, w) ==
  {k \in 1..MaxSize(w) : IF k = MaxSize(w) THEN b[i + k] <= MaxLastByte(w) ELSE b[i + k] < High}
SlowStops(b, i, e) == {k \in 1..(e - i) : b[i + k] < High}

LEMMA FastPathIs ==
  ASSUME NEW b, NEW i, NEW w
  PROVE  FastPath(b, i, w) =
           IF FastStops(b, i, w) = {} THEN Err("too_large")
           ELSE Ok(Min(FastStops(b, i, w)), Payload(b, i, Min(FastStops(b, i, w))))
BY Zenon DEF FastPath, FastStops

LEMMA SlowPathIs ==
  ASSUME NEW b, NEW i, NEW e
  PROVE  SlowPath(b, i, e) =
           IF SlowStops(b, i, e) = {} THEN Err("incomplete")
           ELSE Ok(Min(SlowStops(b, i, e)), Payload(b, i, Min(SlowStops(b, i, e))))
BY Zenon DEF SlowPath, SlowStops

LEMMA MaxSizeFacts ==
  /\ MaxSize(Width) \in Nat /\ MaxSize(Width) >= 2
  /\ MaxSize(MaxWidth) \in Nat /\ MaxSize(Width) <= MaxSize(MaxWidth)
  /\ MaxSize(Width) = MaxSize(MaxWidth) => MaxLastByte(Width) <= MaxLastByte(MaxWidth)
  /\ MaxLastByte(Width) \in Nat /\ MaxLastByte(Width) < High
  /\ MaxLastByte(MaxWidth) \in Nat /\ MaxLastByte(MaxWidth) < High
<1> DEFINE q == Width \div GroupBits
           r == Width % GroupBits
           qq == MaxWidth \div GroupBits
           rr == MaxWidth % GroupBits
<1>1. GroupBits \in Nat \ {0} /\ Width \in Nat /\ MaxWidth \in Nat /\ Width <= MaxWidth
  BY ConstAssumption
<1>2. /\ Width = GroupBits * q + r /\ q \in Nat \ {0} /\ r \in 1..(GroupBits - 1)
      /\ MaxSize(Width) = q + 1 /\ MaxLastByte(Width) \in Nat /\ MaxLastByte(Width) < High
  BY WidthParts
<1>3. /\ MaxWidth = GroupBits * qq + rr /\ qq \in Nat \ {0} /\ rr \in 1..(GroupBits - 1)
      /\ MaxSize(MaxWidth) = qq + 1 /\ MaxLastByte(MaxWidth) \in Nat /\ MaxLastByte(MaxWidth) < High
  BY WidthParts
<1>4. MaxLastByte(Width) = Pow2[r] - 1 /\ MaxLastByte(MaxWidth) = Pow2[rr] - 1
  BY DEF MaxLastByte
<1> HIDE DEF q, r, qq, rr
<1>5. ASSUME qq < q PROVE FALSE
  <2>1. GroupBits * (qq + 1) <= GroupBits * q
    BY <1>1, <1>2, <1>3, <1>5, Times, qq + 1 \in Nat
  <2>2. GroupBits * (qq + 1) = GroupBits * qq + GroupBits /\ GroupBits * qq \in Nat /\ GroupBits * q \in Nat
    BY <1>1, <1>2, <1>3
  <2> QED BY <2>1, <2>2, <1>1, <1>2, <1>3
<1>6. ASSUME q = qq PROVE Pow2[r] <= Pow2[rr]
  <2>1. r <= rr
    BY <1>1, <1>2, <1>3, <1>6
  <2> QED BY <2>1, <1>2, <1>3, Pow2Grows
<1>7. Pow2[r] \in Nat /\ Pow2[rr] \in Nat
  BY <1>2, <1>3, Pow2Def
<1> QED BY <1>2, <1>3, <1>4, <1>5, <1>6, <1>7

\* The long path reads what was written for its width or a smaller one.
LEMMA FastReads ==
  ASSUME NEW b, NEW i \in Nat, NEW u \in Nat, u < Pow2[Width], NEW w \in {Width, MaxWidth},
         \A k \in 1..(i + MaxSize(w)) : b[k] \in Nat, Holds(b, i, u)
  PROVE  FastPath(b, i, w) = Ok(Len(Groups[u]), u)
<1> DEFINE n == Len(Groups[u])
           T == FastStops(b, i, w)
<1>1. /\ n \in Nat /\ n >= 1 /\ (\A k \in 1..(n - 1) : Groups[u][k] >= High) /\ Groups[u][n] < High
      /\ \A k \in 1..n : Groups[u][k] \in Nat
  BY GroupsBytes
<1>2. MaxSize(w) \in Nat /\ n <= MaxSize(w) /\ (n = MaxSize(w) => Groups[u][n] <= MaxLastByte(w))
      /\ MaxLastByte(w) \in Nat
  <2>1. n <= MaxSize(Width) /\ (n = MaxSize(Width) => Groups[u][n] <= MaxLastByte(Width))
    BY GroupsFit
  <2> HIDE DEF n
  <2>2. CASE w = Width
    BY <2>1, <2>2, MaxSizeFacts
  <2>3. CASE w = MaxWidth
    <3>1. n <= MaxSize(w)
      BY <2>1, <2>3, <1>1, MaxSizeFacts
    <3>2. ASSUME n = MaxSize(w) PROVE Groups[u][n] <= MaxLastByte(w)
      <4>1. MaxSize(Width) = MaxSize(MaxWidth) /\ n = MaxSize(Width)
        BY <3>2, <2>1, <2>3, <1>1, MaxSizeFacts
      <4>2. Groups[u][n] <= MaxLastByte(Width) /\ Groups[u][n] \in Nat
        BY <4>1, <2>1, <1>1
      <4> QED BY <4>1, <4>2, <2>3, MaxSizeFacts
    <3> QED BY <3>1, <3>2, <2>3, MaxSizeFacts
  <2> QED BY <2>2, <2>3
<1>3. High \in Nat
  BY HighFacts
<1>4. \A k \in 1..n : b[i + k] = Groups[u][k]
  BY DEF Holds
<1> HIDE DEF n
<1>5. n \in T
  BY <1>1, <1>2, <1>4 DEF FastStops
<1>6. \A k \in T : n <= k
  <2> SUFFICES ASSUME NEW k \in T, k < n PROVE FALSE
    BY <1>1, <1>2 DEF FastStops
  <2>1. k \in 1..(n - 1) /\ k # MaxSize(w)
    BY <1>1, <1>2 DEF FastStops
  <2>2. b[i + k] < High
    BY <2>1 DEF FastStops
  <2>3. b[i + k] >= High /\ b[i + k] \in Nat
    BY <2>1, <1>1, <1>4
  <2> QED BY <2>2, <2>3, <1>3
<1>7. T \subseteq Nat
  BY <1>2 DEF FastStops
<1> HIDE DEF T
<1>8. Min(T) = n
  BY <1>5, <1>6, <1>7, MinIs
<1>9. Payload(b, i, n) = u
  <2>1. \A k \in 1..(i + n) : b[k] \in Nat
    BY <1>1, <1>2
  <2> QED BY <2>1, PayloadOfGroups DEF n
<1>10. FastPath(b, i, w) = Ok(Min(T), Payload(b, i, Min(T)))
  BY <1>5, FastPathIs DEF T
<1> QED BY <1>8, <1>9, <1>10 DEF n

\* The short path reads it too, unless the buffer ends inside it.
LEMMA SlowReads ==
  ASSUME NEW b, NEW i \in Nat, NEW e \in Nat, i <= e, NEW u \in Nat,
         \A k \in 1..e : b[k] \in Nat, Holds(b, i, u)
  PROVE  SlowPath(b, i, e) = IF Len(Groups[u]) <= e - i THEN Ok(Len(Groups[u]), u) ELSE Err("incomplete")
<1> DEFINE n == Len(Groups[u])
           T == SlowStops(b, i, e)
<1>1. /\ n \in Nat /\ n >= 1 /\ (\A k \in 1..(n - 1) : Groups[u][k] >= High) /\ Groups[u][n] < High
      /\ \A k \in 1..n : Groups[u][k] \in Nat
  BY GroupsBytes
<1>3. High \in Nat
  BY HighFacts
<1>4. \A k \in 1..n : b[i + k] = Groups[u][k]
  BY DEF Holds
<1> HIDE DEF n
<1>6. \A k \in T : n <= k
  <2> SUFFICES ASSUME NEW k \in T, k < n PROVE FALSE
    BY <1>1 DEF SlowStops
  <2>1. k \in 1..(n - 1) /\ b[i + k] < High
    BY <1>1 DEF SlowStops
  <2>3. b[i + k] >= High /\ b[i + k] \in Nat
    BY <2>1, <1>1, <1>4
  <2> QED BY <2>1, <2>3, <1>3
<1>7. T \subseteq Nat
  BY DEF SlowStops
<1>8. CASE n <= e - i
  <2>1. n \in T
    BY <1>1, <1>4, <1>8 DEF SlowStops
  <2> HIDE DEF T
  <2>2. Min(T) = n
    BY <2>1, <1>6, <1>7, MinIs
  <2>3. Payload(b, i, n) = u
    <3>1. \A k \in 1..(i + n) : b[k] \in Nat
      BY <1>1, <1>8
    <3> QED BY <3>1, PayloadOfGroups DEF n
  <2>4. SlowPath(b, i, e) = Ok(Min(T), Payload(b, i, Min(T)))
    BY <2>1, SlowPathIs DEF T
  <2> QED BY <2>2, <2>3, <2>4, <1>8 DEF n
<1>9. CASE ~(n <= e - i)
  <2>1. T = {}
    <3> SUFFICES ASSUME NEW k \in T PROVE FALSE
      OBVIOUS
    <3>1. k \in 1..(e - i) /\ n <= k
      BY <1>6 DEF SlowStops
    <3> QED BY <3>1, <1>1, <1>9
  <2> QED BY <2>1, <1>9, SlowPathIs DEF T, n
<1> QED BY <1>8, <1>9

\* Reading and skipping a value of the width that is there.
LEMMA ReaderReads ==
  ASSUME NEW b \in Seq(Bytes), NEW i \in Nat, NEW e \in i..Len(b), NEW kind \in {"uint", "zigzag"},
         NEW u \in Nat, u < Pow2[Width], Holds(b, i, u)
  PROVE  /\ ReadVarint(b, i, e, kind) = IF Len(Groups[u]) <= e - i THEN Ok(Len(Groups[u]), u)
                                        ELSE Err("incomplete")
         /\ SkipVarint(b, i, e) = IF Len(Groups[u]) <= e - i THEN Ok(Len(Groups[u]), u)
                                  ELSE Err("incomplete")
<1>1. \A k \in 1..Len(b) : b[k] \in Nat
  <2>1. \A k \in 1..Len(b) : b[k] \in Bytes
    OBVIOUS
  <2>2. Bytes \subseteq Nat
    BY HighFacts DEF Bytes
  <2> QED BY <2>1, <2>2, Zenon
<1>2. e \in Nat /\ i <= e /\ \A k \in 1..e : b[k] \in Nat
  BY <1>1
<1>3. SlowPath(b, i, e) = IF Len(Groups[u]) <= e - i THEN Ok(Len(Groups[u]), u) ELSE Err("incomplete")
  BY <1>2, SlowReads
<1>4. ASSUME NEW w \in {Width, MaxWidth}, i + MaxSize(w) <= e
      PROVE  /\ FastPath(b, i, w) = Ok(Len(Groups[u]), u)
             /\ Len(Groups[u]) <= e - i
  <2>1. MaxSize(w) \in Nat
    BY MaxSizeFacts
  <2>2. \A k \in 1..(i + MaxSize(w)) : b[k] \in Nat
    BY <1>2, <1>4, <2>1
  <2>3. u < Pow2[w]
    <3>1. Pow2[Width] <= Pow2[MaxWidth] /\ Pow2[Width] \in Nat /\ Pow2[MaxWidth] \in Nat
      BY ConstAssumption, Pow2Grows, Pow2Def
    <3> QED BY <3>1
  <2>4. Len(Groups[u]) \in 1..MaxSize(w)
    BY <2>3, GroupsFit
  <2>5. Len(Groups[u]) <= e - i
    BY <2>1, <2>4, <1>2, <1>4
  <2> QED BY <2>2, <2>5, FastReads
<1>6. ReadVarint(b, i, e, kind) = IF Len(Groups[u]) <= e - i THEN Ok(Len(Groups[u]), u) ELSE Err("incomplete")
  <2>1. CASE i + MaxSize(Width) <= e
    BY <1>4, <2>1 DEF ReadVarint
  <2>2. CASE ~(i + MaxSize(Width) <= e)
    BY <1>3, <2>2 DEF ReadVarint
  <2> QED BY <2>1, <2>2
<1>7. SkipVarint(b, i, e) = IF Len(Groups[u]) <= e - i THEN Ok(Len(Groups[u]), u) ELSE Err("incomplete")
  <2>1. CASE i + MaxSize(MaxWidth) <= e
    BY <1>4, <2>1 DEF SkipVarint
  <2>2. CASE ~(i + MaxSize(MaxWidth) <= e)
    BY <1>3, <2>2 DEF SkipVarint
  <2> QED BY <2>1, <2>2
<1> QED BY <1>6, <1>7

\* A bool is a byte of its own.
LEMMA BoolReads ==
  ASSUME NEW b \in Seq(Bytes), NEW i \in Nat, NEW e \in i..Len(b), NEW u \in 0..1, Holds(b, i, u)
  PROVE  /\ Len(Groups[u]) = 1
         /\ ReadVarint(b, i, e, "bool") = IF 1 <= e - i THEN Ok(1, u) ELSE Err("incomplete")
<1>1. Groups[u] = <<u>>
  <2>1. ~ (u >= High) /\ u \in Nat
    BY HighFacts
  <2> QED BY <2>1, GroupsDef, Zenon
<1>2. Len(Groups[u]) = 1 /\ Groups[u][1] = u
  BY <1>1
<1>3. b[i + 1] = u
  BY <1>2 DEF Holds
<1>4. i < e <=> 1 <= e - i
  OBVIOUS
<1>5. ReadVarint(b, i, e, "bool") = IF i < e THEN Ok(1, b[i + 1]) ELSE Err("incomplete")
  BY DEF ReadVarint
<1> QED BY <1>2, <1>3, <1>4, <1>5

\* Whatever the bytes are, what is read lies in the buffer.
LEMMA ReaderBounds ==
  ASSUME NEW b \in Seq(Bytes), NEW i \in Nat, NEW e \in i..Len(b), NEW kind \in Kinds,
         NEW r \in {ReadVarint(b, i, e, kind), SkipVarint(b, i, e)}
  PROVE  /\ r.code \in {"ok", "incomplete", "too_large"}
         /\ r.code = "ok" => r.n \in 1..(e - i) /\ r.u \in Nat
<1>1. e \in Nat /\ i <= e /\ e <= Len(b) /\ Len(b) \in Nat
  OBVIOUS
<1>2. \A k \in 1..Len(b) : b[k] \in Nat
  <2>1. \A k \in 1..Len(b) : b[k] \in Bytes
    OBVIOUS
  <2>2. Bytes \subseteq Nat
    BY HighFacts DEF Bytes
  <2> QED BY <2>1, <2>2, Zenon
<1>3. ASSUME NEW n \in 1..(e - i) PROVE Payload(b, i, n) \in Nat
  <2>1. i + n \in Nat /\ n \in 0..(i + n) /\ \A k \in 1..(i + n) : b[k] \in Nat
    BY <1>1, <1>2
  <2> QED BY <2>1, EndingAtDef DEF Payload
<1>4. ASSUME NEW q, q = SlowPath(b, i, e)
      PROVE  q.code \in {"ok", "incomplete", "too_large"} /\ (q.code = "ok" => q.n \in 1..(e - i) /\ q.u \in Nat)
  <2> DEFINE T == SlowStops(b, i, e)
  <2>1. CASE T = {}
    BY <2>1, <1>4, SlowPathIs DEF Err
  <2>2. CASE T # {}
    <3>1. T \subseteq 1..(e - i) /\ T \subseteq Nat
      BY DEF SlowStops
    <3>2. Min(T) \in 1..(e - i)
      BY <2>2, <3>1, MinFacts
    <3>3. q = Ok(Min(T), Payload(b, i, Min(T)))
      BY <2>2, <1>4, SlowPathIs
    <3> HIDE DEF T
    <3> QED BY <3>2, <3>3, <1>3 DEF Ok
  <2> QED BY <2>1, <2>2
<1>5. ASSUME NEW w \in {Width, MaxWidth}, i + MaxSize(w) <= e, NEW q, q = FastPath(b, i, w)
      PROVE  q.code \in {"ok", "incomplete", "too_large"} /\ (q.code = "ok" => q.n \in 1..(e - i) /\ q.u \in Nat)
  <2> DEFINE T == FastStops(b, i, w)
  <2>1. CASE T = {}
    BY <2>1, <1>5, FastPathIs DEF Err
  <2>2. CASE T # {}
    <3>1. T \subseteq 1..MaxSize(w) /\ T \subseteq Nat
      BY DEF FastStops
    <3>2. Min(T) \in 1..MaxSize(w)
      BY <2>2, <3>1, MinFacts
    <3>3. Min(T) \in 1..(e - i)
      BY <3>2, <1>1, <1>5, MaxSizeFacts
    <3>4. q = Ok(Min(T), Payload(b, i, Min(T)))
      BY <2>2, <1>5, FastPathIs
    <3> HIDE DEF T
    <3> QED BY <3>3, <3>4, <1>3 DEF Ok
  <2> QED BY <2>1, <2>2
<1>6. CASE r = SkipVarint(b, i, e)
  BY <1>6, <1>4, <1>5 DEF SkipVarint
<1>7. CASE r = ReadVarint(b, i, e, kind)
  <2>1. CASE kind = "bool"
    <3>1. CASE i < e
      <4>1. r = Ok(1, b[i + 1]) /\ b[i + 1] \in Nat /\ 1 \in 1..(e - i)
        BY <1>1, <1>2, <1>7, <2>1, <3>1 DEF ReadVarint
      <4> QED BY <4>1 DEF Ok
    <3>2. CASE ~(i < e)
      <4>1. r = Err("incomplete")
        BY <1>7, <2>1, <3>2 DEF ReadVarint
      <4> QED BY <4>1 DEF Err
    <3> QED BY <3>1, <3>2
  <2>2. CASE kind # "bool"
    BY <1>7, <2>2, <1>4, <1>5 DEF ReadVarint
  <2> QED BY <2>1, <2>2
<1> QED BY <1>6, <1>7

LEMMA CodecFacts ==
  ASSUME NEW kind \in Kinds, NEW v \in Values(kind)
  PROVE  /\ Encode(kind, v) \in Nat /\ Encode(kind, v) < Pow2[Width]
         /\ Decode(kind, Encode(kind, v)) = v
         /\ v \in Int
         /\ kind = "bool" => Encode(kind, v) \in 0..1
         /\ WireSize(kind, v) = Len(Groups[Encode(kind, v)])
<1> DEFINE P == Pow2[Width - 1]
<1>1. P \in Nat \ {0} /\ Pow2[Width] = 2 * P
  <2>1. Width - 1 \in Nat /\ (Width - 1) + 1 = Width
    BY ConstAssumption
  <2> QED BY <2>1, Pow2Def
<1>2. kind \in {"bool", "uint", "zigzag"}
  BY DEF Kinds
<1> HIDE DEF P
<1>3. /\ Encode(kind, v) \in Nat /\ Encode(kind, v) < Pow2[Width]
      /\ Decode(kind, Encode(kind, v)) = v
      /\ v \in Int
      /\ kind = "bool" => Encode(kind, v) \in 0..1
  <2>1. CASE kind = "bool"
    <3>1. v \in 0..1
      BY <2>1 DEF Values
    <3> QED BY <2>1, <3>1, <1>1 DEF Encode, Decode
  <2>2. CASE kind = "uint"
    <3>1. v \in 0..(Pow2[Width] - 1)
      BY <2>2 DEF Values
    <3> QED BY <2>2, <3>1, <1>1 DEF Encode, Decode
  <2>3. CASE kind = "zigzag"
    <3>1. v \in -P..(P - 1)
      BY <2>3 DEF Values, P
    <3>2. Encode(kind, v) = ZigzagEncode(v) /\ \A u : Decode(kind, u) = ZigzagDecode(u)
      BY <2>3 DEF Encode, Decode
    <3>3. ZigzagEncode(v) \in 0..(2 * P - 1) /\ ZigzagDecode(ZigzagEncode(v)) = v
      BY <3>1, <1>1 DEF ZigzagEncode, ZigzagDecode
    <3> QED BY <2>3, <3>1, <3>2, <3>3, <1>1
  <2> QED BY <1>2, <2>1, <2>2, <2>3
<1>4. WireSize(kind, v) = Len(Groups[Encode(kind, v)])
  <2>1. CASE kind = "bool"
    <3>1. Encode(kind, v) \in Nat /\ ~(Encode(kind, v) >= High)
      BY <1>3, <2>1, HighFacts
    <3>2. Groups[Encode(kind, v)] = <<Encode(kind, v)>>
      BY <3>1, GroupsDef, Zenon
    <3> QED BY <3>2, <2>1 DEF WireSize
  <2>2. CASE kind # "bool"
    BY <1>3, <2>2, SizeIsLength DEF WireSize
  <2> QED BY <2>1, <2>2
<1> QED BY <1>3, <1>4

-----------------------------------------------------------------------------
\* The codec: what is on the wire is what was written, and what was read is a prefix of it.
SentItems == [kind : Kinds, v : Int, end : Nat]
GotItems  == [kind : Kinds \cup {"skipped"}, v : Int]
Code(i)   == Encode(sent[i].kind, sent[i].v)

TypesKept ==
  /\ wire \in Seq(Bytes) /\ sent \in Seq(SentItems) /\ got \in Seq(GotItems)
  /\ rpos \in 0..Len(wire)
  /\ vpc \in {"fresh", "writing", "foreign", "failed"}

PhasesKept ==
  /\ vpc = "fresh" => wire = <<>> /\ sent = <<>> /\ got = <<>>
  /\ vpc = "writing" => sent # <<>>
  /\ vpc = "foreign" => sent = <<>>

\* Each value lies where the one before it ends.
Laid(i) ==
  /\ sent[i].v \in Values(sent[i].kind)
  /\ Start(i) \in Nat /\ sent[i].end = Start(i) + Len(Groups[Code(i)])
  /\ sent[i].end <= Len(wire)
  /\ Holds(wire, Start(i), Code(i))

WireIsSent ==
  /\ \A i \in DOMAIN sent : Laid(i)
  /\ sent # <<>> => sent[Len(sent)].end = Len(wire)

Agrees(i) == got[i].kind # "skipped" => got[i].kind = sent[i].kind /\ got[i].v = sent[i].v

GotIsPrefix ==
  sent # <<>> =>
    /\ Len(got) <= Len(sent) /\ rpos = Start(Len(got) + 1)
    /\ \A i \in DOMAIN got : Agrees(i)

FailedInside ==
  (sent # <<>> /\ vpc = "failed") =>
    Len(got) < Len(sent) /\ error.code = "incomplete" /\ error.end < sent[Len(got) + 1].end

CodecInv == TypesKept /\ PhasesKept /\ WireIsSent /\ GotIsPrefix /\ FailedInside

LEMMA CodecInit == Init => CodecInv
BY DEF Init, CodecInv, TypesKept, PhasesKept, WireIsSent, GotIsPrefix, FailedInside

LEMMA CodecImplies == CodecInv => RoundTrip
<1> SUFFICES ASSUME CodecInv, sent # <<>> PROVE RoundTrip
  BY DEF RoundTrip
<1>1. \A i \in DOMAIN sent : sent[i].end - Start(i) = WireSize(sent[i].kind, sent[i].v)
  <2> SUFFICES ASSUME NEW i \in DOMAIN sent
               PROVE  sent[i].end - Start(i) = WireSize(sent[i].kind, sent[i].v)
    OBVIOUS
  <2>1. Laid(i) /\ sent[i].kind \in Kinds
    <3>1. sent \in Seq(SentItems) /\ Laid(i)
      BY DEF CodecInv, TypesKept, WireIsSent
    <3>2. sent[i] \in SentItems
      BY <3>1
    <3> QED BY <3>1, <3>2 DEF SentItems
  <2>2. WireSize(sent[i].kind, sent[i].v) = Len(Groups[Code(i)]) /\ Code(i) \in Nat
    BY <2>1, CodecFacts DEF Laid, Code
  <2>3. Len(Groups[Code(i)]) \in Nat
    BY <2>2, GroupsBytes
  <2> QED BY <2>1, <2>2, <2>3 DEF Laid
<1>2. \A i \in DOMAIN got : got[i].kind # "skipped" => got[i].kind = sent[i].kind /\ got[i].v = sent[i].v
  BY DEF CodecInv, GotIsPrefix, Agrees
<1>3. rpos = Start(Len(got) + 1)
  BY DEF CodecInv, GotIsPrefix
<1>4. vpc = "failed" => error.code = "incomplete" /\ error.end < sent[Len(got) + 1].end
  BY DEF CodecInv, FailedInside
<1> QED BY <1>1, <1>2, <1>3, <1>4 DEF RoundTrip

\* What stays where it was as long as neither the wire nor the values written change.
LEMMA WireKept ==
  ASSUME WireIsSent, wire' = wire, sent' = sent
  PROVE  WireIsSent' /\ \A i : (Laid(i) <=> Laid(i)') /\ Start(i)' = Start(i)
BY DEF WireIsSent, Laid, Start, Code, Holds

LEMMA CodecWrite ==
  ASSUME CodecInv, NEW kind \in Kinds, NEW v \in Values(kind), Write(kind, v)
  PROVE  CodecInv'
<1> DEFINE u == Encode(kind, v)
           n == Len(Groups[u])
           m == Len(sent)
           item == [kind |-> kind, v |-> v, end |-> Len(wire')]
<1>1. /\ wire \in Seq(Bytes) /\ sent \in Seq(SentItems) /\ got = <<>> /\ rpos \in 0..Len(wire)
      /\ vpc \in {"fresh", "writing"}
  BY DEF CodecInv, TypesKept, Write
<1>2. wire' = wire \o Groups[u] /\ sent' = Append(sent, item) /\ vpc' = "writing"
      /\ UNCHANGED <<rpos, got, error>>
  BY DEF Write, AppendVarint
<1>3. u \in Nat /\ v \in Int /\ Groups[u] \in Seq(Bytes) /\ n \in Nat
  <2>1. u \in Nat /\ v \in Int
    BY CodecFacts
  <2> HIDE DEF u
  <2> QED BY <2>1, GroupsFacts, GroupsBytes
<1> HIDE DEF u
<1>4. wire' \in Seq(Bytes) /\ Len(wire') = Len(wire) + n /\ Len(wire') \in Nat /\ Len(wire) \in Nat
  BY <1>1, <1>2, <1>3
<1>5. item \in SentItems
  BY <1>3, <1>4 DEF SentItems
<1>6. sent' \in Seq(SentItems) /\ Len(sent') = m + 1 /\ m \in Nat /\ sent'[m + 1] = item
      /\ \A i \in 1..m : sent'[i] = sent[i]
  BY <1>1, <1>2, <1>5
<1>7. \A i \in 1..(m + 1) : Start(i)' = Start(i)
  BY <1>6 DEF Start
<1>8. Start(m + 1) = Len(wire)
  <2>1. CASE sent = <<>>
    <3>1. vpc = "fresh"
      BY <1>1, <2>1 DEF CodecInv, PhasesKept
    <3>2. wire = <<>> /\ m = 0
      BY <3>1, <2>1 DEF CodecInv, PhasesKept
    <3> QED BY <3>2 DEF Start
  <2>2. CASE sent # <<>>
    <3>1. m # 0 /\ sent[m].end = Len(wire)
      BY <1>1, <2>2 DEF CodecInv, WireIsSent
    <3>2. m + 1 # 1 /\ (m + 1) - 1 = m
      BY <3>1, <1>6
    <3> QED BY <3>1, <3>2 DEF Start
  <2> QED BY <2>1, <2>2
<1>9. ASSUME NEW i \in DOMAIN sent' PROVE Laid(i)'
  <2>1. CASE i \in 1..m
    <3>1. Laid(i) /\ Start(i)' = Start(i) /\ sent'[i] = sent[i] /\ Code(i)' = Code(i)
      BY <2>1, <1>1, <1>6, <1>7 DEF CodecInv, WireIsSent, Code
    <3>2. sent[i].kind \in Kinds
      <4>1. sent[i] \in SentItems
        BY <2>1, <1>1
      <4> QED BY <4>1 DEF SentItems
    <3>3. Code(i) \in Nat
      BY <3>1, <3>2, CodecFacts DEF Laid, Code
    <3>4. Len(Groups[Code(i)]) \in Nat
      BY <3>3, GroupsBytes
    <3>5. Start(i) \in Nat /\ sent[i].end = Start(i) + Len(Groups[Code(i)]) /\ sent[i].end <= Len(wire)
          /\ Holds(wire, Start(i), Code(i)) /\ sent[i].v \in Values(sent[i].kind)
      BY <3>1 DEF Laid
    <3>6. Holds(wire', Start(i), Code(i))
      <4> SUFFICES ASSUME NEW k \in 1..Len(Groups[Code(i)])
                   PROVE  wire'[Start(i) + k] = Groups[Code(i)][k]
        BY DEF Holds
      <4>1. wire[Start(i) + k] = Groups[Code(i)][k]
        BY <3>5 DEF Holds
      <4>2. Start(i) + k \in 1..Len(wire)
        BY <3>4, <3>5, <1>4
      <4>3. wire'[Start(i) + k] = wire[Start(i) + k]
        BY <4>2, <1>1, <1>2, <1>3
      <4> QED BY <4>1, <4>3
    <3>7. sent[i].end <= Len(wire')
      BY <3>4, <3>5, <1>3, <1>4
    <3> QED BY <3>1, <3>5, <3>6, <3>7 DEF Laid
  <2>2. CASE i = m + 1
    <3>1. Start(i)' = Len(wire) /\ sent'[i] = item /\ Code(i)' = u
      BY <2>2, <1>6, <1>7, <1>8 DEF Code, u
    <3>2. Holds(wire', Len(wire), u)
      BY <1>1, <1>2, <1>3 DEF Holds
    <3>3. sent'[i].end = Len(wire) + n /\ sent'[i].end <= Len(wire') /\ sent'[i].v \in Values(sent'[i].kind)
      BY <3>1, <1>4
    <3> QED BY <3>1, <3>2, <3>3, <1>4 DEF Laid
  <2>3. i \in 1..(m + 1)
    BY <1>6
  <2> QED BY <2>1, <2>2, <2>3, <1>6
<1>10. WireIsSent'
  <2>1. Len(sent') = m + 1 /\ sent'[Len(sent')].end = Len(wire')
    BY <1>6
  <2> QED BY <2>1, <1>9 DEF WireIsSent
<1>11. TypesKept'
  BY <1>1, <1>2, <1>3, <1>4, <1>6 DEF TypesKept
<1>12. PhasesKept'
  <2>1. sent' # <<>>
    BY <1>6
  <2> QED BY <2>1, <1>2 DEF PhasesKept
<1>13. GotIsPrefix'
  <2>1. rpos = 0
    <3>1. CASE sent = <<>>
      <4>1. wire = <<>>
        BY <3>1, <1>1 DEF CodecInv, PhasesKept
      <4> QED BY <4>1, <1>1
    <3>2. CASE sent # <<>>
      <4>1. rpos = Start(Len(got) + 1)
        BY <3>2 DEF CodecInv, GotIsPrefix
      <4> QED BY <4>1, <1>1 DEF Start
    <3> QED BY <3>1, <3>2
  <2>2. Len(got') = 0 /\ got' = <<>> /\ DOMAIN got' = {}
    BY <1>1, <1>2
  <2>3. Start(Len(got) + 1)' = 0
    BY <2>2 DEF Start
  <2> QED BY <2>1, <2>2, <2>3, <1>2, <1>6 DEF GotIsPrefix
<1>14. FailedInside'
  BY <1>2 DEF FailedInside
<1> QED BY <1>10, <1>11, <1>12, <1>13, <1>14 DEF CodecInv

LEMMA CodecReceive ==
  ASSUME CodecInv, NEW n \in 1..MaxForeign, NEW bs \in [1..n -> Bytes], Receive(bs)
  PROVE  CodecInv'
<1>1. n \in Nat
  BY ConstAssumption
<1>2. bs \in Seq(Bytes)
  BY <1>1
<1>3. vpc = "fresh" /\ wire' = bs /\ vpc' = "foreign" /\ UNCHANGED <<sent, rpos, got, error>>
  BY DEF Receive
<1>4. wire = <<>> /\ sent = <<>> /\ got = <<>> /\ rpos \in 0..Len(wire)
  BY <1>3 DEF CodecInv, PhasesKept, TypesKept
<1>5. rpos = 0
  BY <1>4
<1>6. Len(bs) \in Nat
  BY <1>2
<1> QED BY <1>2, <1>3, <1>4, <1>5, <1>6
        DEF CodecInv, TypesKept, PhasesKept, WireIsSent, GotIsPrefix, FailedInside

\* A step of the reader whose result is the next value's, or anything at all when the
\* bytes come from elsewhere.
NextIs(r, e, item) ==
  LET i == Len(got) + 1
  IN  /\ Len(got) < Len(sent)
      /\ r.code = "ok" => /\ r.n = Len(Groups[Code(i)])
                          /\ item.kind # "skipped" => item.kind = sent[i].kind /\ item.v = sent[i].v
      /\ r.code # "ok" => r.code = "incomplete" /\ e < sent[i].end

LEMMA CodecResult ==
  ASSUME CodecInv, vpc \in {"writing", "foreign"}, NEW e \in rpos..Len(wire), NEW r,
         r.code = "ok" => r.n \in 1..(e - rpos), NEW item \in GotItems, Result(r, e, item),
         vpc = "writing" => NextIs(r, e, item)
  PROVE  CodecInv'
<1>1. /\ wire \in Seq(Bytes) /\ sent \in Seq(SentItems) /\ got \in Seq(GotItems)
      /\ rpos \in 0..Len(wire) /\ wire' = wire /\ sent' = sent
  BY DEF CodecInv, TypesKept, Result
<1>2. WireIsSent' /\ \A i : (Laid(i) <=> Laid(i)') /\ Start(i)' = Start(i)
  BY <1>1, WireKept DEF CodecInv
<1>3. sent # <<>> => vpc = "writing"
  BY DEF CodecInv, PhasesKept
<1>4. CASE r.code = "ok"
  <2>1. rpos' = rpos + r.n /\ got' = Append(got, item) /\ error' = error /\ vpc' = vpc
    BY <1>4 DEF Result
  <2>2. rpos' \in 0..Len(wire)
    BY <1>1, <1>4, <2>1
  <2>3. /\ got' \in Seq(GotItems) /\ Len(got') = Len(got) + 1 /\ got'[Len(got) + 1] = item
        /\ Len(got) \in Nat /\ \A i \in 1..Len(got) : got'[i] = got[i]
    BY <1>1, <2>1
  <2>4. TypesKept'
    BY <1>1, <2>1, <2>2, <2>3 DEF CodecInv, TypesKept
  <2>5. PhasesKept'
    BY <1>1, <2>1 DEF CodecInv, PhasesKept
  <2>6. GotIsPrefix'
    <3> SUFFICES ASSUME sent # <<>>
                 PROVE  /\ Len(got') <= Len(sent) /\ rpos' = Start(Len(got) + 1)'
                        /\ \A i \in DOMAIN got' : Agrees(i)'
      BY <1>1 DEF GotIsPrefix
    <3> DEFINE i == Len(got) + 1
    <3>1. NextIs(r, e, item) /\ Len(got) < Len(sent) /\ r.n = Len(Groups[Code(i)])
      BY <1>3, <1>4 DEF NextIs
    <3>2. i \in DOMAIN sent /\ rpos = Start(i) /\ i \in Nat
      BY <1>1, <2>3, <3>1 DEF CodecInv, GotIsPrefix
    <3>3. sent[i].end = Start(i) + Len(Groups[Code(i)])
      BY <3>2 DEF CodecInv, WireIsSent, Laid
    <3>4. Start(i + 1) = sent[i].end
      BY <3>2, <2>3 DEF Start
    <3>5. rpos' = Start(Len(got) + 1)'
      BY <1>2, <2>1, <2>3, <3>1, <3>2, <3>3, <3>4
    <3>6. Len(got') <= Len(sent)
      BY <1>1, <2>3, <3>1
    <3>7. ASSUME NEW j \in DOMAIN got' PROVE Agrees(j)'
      <4>1. CASE j \in 1..Len(got)
        <5>1. Agrees(j) /\ got'[j] = got[j]
          BY <4>1, <2>3, <1>1 DEF CodecInv, GotIsPrefix
        <5> QED BY <5>1, <1>1 DEF Agrees
      <4>2. CASE j = i
        <5>1. got'[j] = item
          BY <4>2, <2>3
        <5>2. item.kind # "skipped" => item.kind = sent[j].kind /\ item.v = sent[j].v
          BY <4>2, <3>1, <1>4 DEF NextIs
        <5> QED BY <5>1, <5>2, <1>1 DEF Agrees
      <4> QED BY <4>1, <4>2, <2>3
    <3> HIDE DEF i
    <3> QED BY <3>5, <3>6, <3>7
  <2>7. FailedInside'
    BY <2>1 DEF FailedInside
  <2> QED BY <1>2, <2>4, <2>5, <2>6, <2>7 DEF CodecInv
<1>5. CASE r.code # "ok"
  <2>1. rpos' = rpos /\ got' = got /\ error' = [code |-> r.code, end |-> e] /\ vpc' = "failed"
    BY <1>5 DEF Result
  <2>2. TypesKept' /\ PhasesKept'
    BY <1>1, <2>1 DEF CodecInv, TypesKept, PhasesKept
  <2>3. GotIsPrefix'
    BY <1>1, <1>2, <2>1 DEF CodecInv, GotIsPrefix, Agrees
  <2>4. FailedInside'
    BY <1>1, <1>3, <1>5, <2>1 DEF FailedInside, NextIs
  <2> QED BY <1>2, <2>2, <2>3, <2>4 DEF CodecInv
<1> QED BY <1>4, <1>5

\* The value a reader is at, when there is one.
LEMMA NextValue ==
  ASSUME CodecInv, Len(got) < Len(sent), sent # <<>>
  PROVE  LET i == Len(got) + 1
         IN  /\ sent[i].kind \in Kinds /\ sent[i].v \in Values(sent[i].kind)
             /\ Code(i) \in Nat /\ Code(i) < Pow2[Width] /\ Decode(sent[i].kind, Code(i)) = sent[i].v
             /\ sent[i].kind = "bool" => Code(i) \in 0..1
             /\ Holds(wire, rpos, Code(i)) /\ Len(Groups[Code(i)]) \in Nat
             /\ sent[i].end = rpos + Len(Groups[Code(i)])
<1> DEFINE i == Len(got) + 1
<1>1. sent \in Seq(SentItems) /\ got \in Seq(GotItems) /\ rpos = Start(i)
  BY DEF CodecInv, TypesKept, GotIsPrefix
<1>2. i \in DOMAIN sent
  BY <1>1
<1>3. Laid(i) /\ sent[i] \in SentItems
  BY <1>1, <1>2 DEF CodecInv, WireIsSent
<1>4. sent[i].kind \in Kinds /\ sent[i].v \in Values(sent[i].kind)
  BY <1>3 DEF Laid, SentItems
<1> HIDE DEF i
<1>5. /\ Code(i) \in Nat /\ Code(i) < Pow2[Width] /\ Decode(sent[i].kind, Code(i)) = sent[i].v
      /\ sent[i].kind = "bool" => Code(i) \in 0..1
  BY <1>4, CodecFacts DEF Code
<1>6. Len(Groups[Code(i)]) \in Nat
  BY <1>5, GroupsBytes
<1>7. Holds(wire, rpos, Code(i)) /\ sent[i].end = rpos + Len(Groups[Code(i)])
  BY <1>1, <1>3 DEF Laid
<1> QED BY <1>4, <1>5, <1>6, <1>7 DEF i

LEMMA CodecRead ==
  ASSUME CodecInv, NEW kind \in Kinds, NEW e \in rpos..Len(wire), Read(kind, e)
  PROVE  CodecInv'
<1> DEFINE r == ReadVarint(wire, rpos, e, kind)
           item == [kind |-> kind, v |-> Decode(kind, r.u)]
           i == Len(got) + 1
           n == Len(Groups[Code(i)])
<1>1. /\ vpc \in {"writing", "foreign"} /\ Result(r, e, item)
      /\ vpc = "writing" => Len(got) < Len(sent) /\ sent[i].kind = kind
  BY DEF Read, Expected
<1>2. wire \in Seq(Bytes) /\ rpos \in Nat /\ e \in Nat
  BY DEF CodecInv, TypesKept
<1>3. r.code = "ok" => r.n \in 1..(e - rpos) /\ r.u \in Nat
  BY <1>2, ReaderBounds
<1>4. ASSUME vpc = "writing" PROVE NextIs(r, e, item)
  <2>1. Len(got) < Len(sent) /\ sent # <<>> /\ sent[i].kind = kind
    BY <1>1, <1>4 DEF CodecInv, PhasesKept
  <2>2. /\ Code(i) \in Nat /\ Code(i) < Pow2[Width] /\ Decode(kind, Code(i)) = sent[i].v
        /\ kind = "bool" => Code(i) \in 0..1
        /\ Holds(wire, rpos, Code(i)) /\ n \in Nat /\ sent[i].end = rpos + n
    BY <2>1, NextValue
  <2> HIDE DEF r, i
  <2>3. r = IF n <= e - rpos THEN Ok(n, Code(i)) ELSE Err("incomplete")
    <3>1. CASE kind = "bool"
      BY <3>1, <2>2, <1>2, BoolReads DEF r
    <3>2. CASE kind # "bool"
      BY <3>2, <2>2, <1>2, ReaderReads DEF r, Kinds
    <3> QED BY <3>1, <3>2
  <2>4. CASE n <= e - rpos
    BY <2>1, <2>2, <2>3, <2>4 DEF NextIs, Ok, i
  <2>5. CASE ~(n <= e - rpos)
    <3>1. r.code = "incomplete" /\ e < sent[i].end
      BY <2>2, <2>3, <2>5, <1>2 DEF Err
    <3> QED BY <2>1, <3>1 DEF NextIs, i
  <2> QED BY <2>4, <2>5
<1>5. ASSUME r.code = "ok" PROVE item \in GotItems
  <2>1. Decode(kind, r.u) \in Int
    <3>1. r.u \in Nat
      BY <1>3, <1>5
    <3> HIDE DEF r
    <3> QED BY <3>1 DEF Decode, ZigzagDecode
  <2> HIDE DEF r
  <2> QED BY <2>1 DEF GotItems
<1> HIDE DEF r, i, n
<1>6. CASE r.code = "ok"
  <2> HIDE DEF item
  <2> QED BY <1>1, <1>2, <1>3, <1>4, <1>5, <1>6, CodecResult
<1>7. CASE r.code # "ok"
  <2> DEFINE some == [kind |-> "skipped", v |-> 0]
  <2>1. some \in GotItems
    BY DEF GotItems
  <2>2. Result(r, e, some) /\ (vpc = "writing" => NextIs(r, e, some))
    BY <1>1, <1>4, <1>7 DEF Result, NextIs
  <2> HIDE DEF some
  <2> QED BY <1>1, <1>7, <2>1, <2>2, CodecResult
<1> QED BY <1>6, <1>7

LEMMA CodecSkip ==
  ASSUME CodecInv, NEW e \in rpos..Len(wire), Skip(e)
  PROVE  CodecInv'
<1> DEFINE r == SkipVarint(wire, rpos, e)
           item == [kind |-> "skipped", v |-> 0]
           i == Len(got) + 1
           n == Len(Groups[Code(i)])
<1>1. /\ vpc \in {"writing", "foreign"} /\ Result(r, e, item)
      /\ vpc = "writing" => Len(got) < Len(sent)
  BY DEF Skip
<1>2. wire \in Seq(Bytes) /\ rpos \in Nat /\ e \in Nat /\ "uint" \in Kinds
  BY DEF CodecInv, TypesKept, Kinds
<1>3. r.code = "ok" => r.n \in 1..(e - rpos)
  BY <1>2, ReaderBounds
<1>4. ASSUME vpc = "writing" PROVE NextIs(r, e, item)
  <2>1. Len(got) < Len(sent) /\ sent # <<>>
    BY <1>1, <1>4 DEF CodecInv, PhasesKept
  <2>2. /\ Code(i) \in Nat /\ Code(i) < Pow2[Width]
        /\ Holds(wire, rpos, Code(i)) /\ n \in Nat /\ sent[i].end = rpos + n
    BY <2>1, NextValue
  <2> HIDE DEF r, i
  <2>3. r = IF n <= e - rpos THEN Ok(n, Code(i)) ELSE Err("incomplete")
    BY <2>2, <1>2, ReaderReads DEF r
  <2>4. CASE n <= e - rpos
    BY <2>1, <2>2, <2>3, <2>4 DEF NextIs, Ok, i
  <2>5. CASE ~(n <= e - rpos)
    <3>1. r.code = "incomplete" /\ e < sent[i].end
      BY <2>2, <2>3, <2>5, <1>2 DEF Err
    <3> QED BY <2>1, <3>1 DEF NextIs, i
  <2> QED BY <2>4, <2>5
<1>5. item \in GotItems
  BY DEF GotItems
<1> HIDE DEF r, i, n, item
<1> QED BY <1>1, <1>2, <1>3, <1>4, <1>5, CodecResult

LEMMA CodecStep == CodecInv /\ [Next]_vvars => CodecInv'
<1> SUFFICES ASSUME CodecInv, [Next]_vvars PROVE CodecInv'
  OBVIOUS
<1>1. ASSUME NEW kind \in Kinds, NEW v \in Values(kind), Write(kind, v) PROVE CodecInv'
  BY <1>1, CodecWrite
<1>2. ASSUME NEW n \in 1..MaxForeign, NEW bs \in [1..n -> Bytes], Receive(bs) PROVE CodecInv'
  BY <1>2, CodecReceive
<1>3. ASSUME NEW e \in rpos..Len(wire), Skip(e) PROVE CodecInv'
  BY <1>3, CodecSkip
<1>4. ASSUME NEW kind \in Kinds, NEW e \in rpos..Len(wire), Read(kind, e) PROVE CodecInv'
  BY <1>4, CodecRead
<1>5. ASSUME UNCHANGED vvars PROVE CodecInv'
  <2>1. WireIsSent' /\ \A i : Start(i)' = Start(i)
    BY <1>5, WireKept DEF CodecInv, vvars
  <2> QED BY <1>5, <2>1 DEF vvars, CodecInv, TypesKept, PhasesKept, GotIsPrefix, Agrees, FailedInside
<1> QED BY <1>1, <1>2, <1>3, <1>4, <1>5 DEF Next

\* Whatever the values, the kinds, their order and the width: a value takes the bytes
\* varint_wire_size() counts, and the reader takes back what append_varint() wrote.
THEOREM ValuesComeBack == Spec => []RoundTrip
<1>1. Spec => []CodecInv
  BY CodecInit, CodecStep, PTL DEF Spec
<1> QED BY <1>1, CodecImplies, PTL

-----------------------------------------------------------------------------
\* The paths.  k is where the bytes of b after the first i stop: the first of them without
\* the continuation bit.
StopsAt(b, i, k) ==
  /\ k \in Nat \ {0} /\ b[i + k] < High
  /\ \A j \in 1..(k - 1) : ~(b[i + j] < High)

\* The last byte of a value that takes all the bytes of its width has room for the rest only.
LastFits(b, i, k, w) == k <= MaxSize(w) /\ (k = MaxSize(w) => b[i + k] <= MaxLastByte(w))

LEMMA FastStopsAt ==
  ASSUME NEW b, NEW i \in Nat, NEW w \in {Width, MaxWidth},
         \A k \in 1..(i + MaxSize(w)) : b[k] \in Nat
  PROVE  /\ \A k : StopsAt(b, i, k) /\ LastFits(b, i, k, w)
                   => FastPath(b, i, w) = Ok(k, Payload(b, i, k))
         /\ FastPath(b, i, w).code = "ok" =>
              \E k : StopsAt(b, i, k) /\ LastFits(b, i, k, w)
<1> DEFINE T == FastStops(b, i, w)
<1>1. MaxSize(w) \in Nat /\ MaxLastByte(w) \in Nat /\ MaxLastByte(w) < High /\ High \in Nat
  BY MaxSizeFacts, HighFacts
<1>2. T \subseteq Nat /\ T \subseteq 1..MaxSize(w)
  BY <1>1 DEF FastStops
<1>3. ASSUME NEW k, StopsAt(b, i, k), LastFits(b, i, k, w)
      PROVE  FastPath(b, i, w) = Ok(k, Payload(b, i, k))
  <2>1. k \in T
    BY <1>1, <1>3 DEF FastStops, StopsAt, LastFits
  <2>2. \A j \in T : k <= j
    <3> SUFFICES ASSUME NEW j \in T, j < k PROVE FALSE
      BY <1>2, <1>3 DEF StopsAt
    <3>1. j \in 1..(k - 1) /\ j < MaxSize(w)
      BY <1>1, <1>2, <1>3 DEF StopsAt, LastFits
    <3>2. b[i + j] < High
      BY <1>1, <3>1 DEF FastStops
    <3> QED BY <3>1, <3>2, <1>3 DEF StopsAt
  <2> HIDE DEF T
  <2>3. Min(T) = k
    BY <2>1, <2>2, <1>2, MinIs
  <2> QED BY <2>1, <2>3, FastPathIs DEF T
<1>4. ASSUME FastPath(b, i, w).code = "ok"
      PROVE  \E k : StopsAt(b, i, k) /\ LastFits(b, i, k, w)
  <2>1. T # {}
    BY <1>4, FastPathIs DEF Err
  <2> DEFINE k == Min(T)
  <2>2. k \in T /\ \A j \in T : k <= j
    <3> HIDE DEF T
    <3> QED BY <1>2, <2>1, MinFacts
  <2> HIDE DEF k
  <2>3. k \in 1..MaxSize(w) /\ k \in Nat \ {0} /\ LastFits(b, i, k, w)
    BY <1>1, <1>2, <2>2 DEF FastStops, LastFits
  <2>4. b[i + k] < High
    <3>1. b[i + k] \in Nat
      BY <1>1, <2>3
    <3>2. IF k = MaxSize(w) THEN b[i + k] <= MaxLastByte(w) ELSE b[i + k] < High
      BY <2>2 DEF FastStops
    <3> QED BY <3>1, <3>2, <1>1
  <2>5. ASSUME NEW j \in 1..(k - 1), b[i + j] < High PROVE FALSE
    <3>1. j \in T /\ j \in Nat
      BY <1>1, <2>3, <2>5 DEF FastStops
    <3>2. k <= j
      BY <3>1, <2>2
    <3> QED BY <3>2, <2>3
  <2> QED BY <2>3, <2>4, <2>5 DEF StopsAt
<1> QED BY <1>3, <1>4

LEMMA SlowStopsAt ==
  ASSUME NEW b, NEW i \in Nat, NEW e \in Nat, i <= e
  PROVE  /\ \A k : StopsAt(b, i, k) /\ k <= e - i => SlowPath(b, i, e) = Ok(k, Payload(b, i, k))
         /\ SlowPath(b, i, e).code = "ok" => \E k : StopsAt(b, i, k) /\ k <= e - i
<1> DEFINE T == SlowStops(b, i, e)
<1>1. T \subseteq Nat /\ T \subseteq 1..(e - i) /\ High \in Nat
  BY HighFacts DEF SlowStops
<1>2. ASSUME NEW k, StopsAt(b, i, k), k <= e - i
      PROVE  SlowPath(b, i, e) = Ok(k, Payload(b, i, k))
  <2>1. k \in T
    BY <1>2 DEF SlowStops, StopsAt
  <2>2. \A j \in T : k <= j
    <3> SUFFICES ASSUME NEW j \in T, j < k PROVE FALSE
      BY <1>1, <1>2 DEF StopsAt
    <3>1. j \in 1..(k - 1) /\ b[i + j] < High
      BY <1>1, <1>2 DEF StopsAt, SlowStops
    <3> QED BY <3>1, <1>2 DEF StopsAt
  <2> HIDE DEF T
  <2>3. Min(T) = k
    BY <2>1, <2>2, <1>1, MinIs
  <2> QED BY <2>1, <2>3, SlowPathIs DEF T
<1>3. ASSUME SlowPath(b, i, e).code = "ok"
      PROVE  \E k : StopsAt(b, i, k) /\ k <= e - i
  <2>1. T # {}
    BY <1>3, SlowPathIs DEF Err
  <2> DEFINE k == Min(T)
  <2>2. k \in T /\ \A j \in T : k <= j
    <3> HIDE DEF T
    <3> QED BY <1>1, <2>1, MinFacts
  <2> HIDE DEF k
  <2>3. k \in 1..(e - i) /\ k \in Nat \ {0} /\ b[i + k] < High /\ k <= e - i
    BY <2>2 DEF SlowStops
  <2>4. ASSUME NEW j \in 1..(k - 1), b[i + j] < High PROVE FALSE
    <3>1. j \in T /\ j \in Nat
      BY <2>3, <2>4 DEF SlowStops
    <3>2. k <= j
      BY <3>1, <2>2
    <3> QED BY <3>2, <2>3
  <2> QED BY <2>3, <2>4 DEF StopsAt
<1> QED BY <1>2, <1>3

\* The integer of some bytes is theirs alone.
LEMMA PayloadSame ==
  ASSUME NEW b, NEW c, NEW i \in Nat, NEW n \in Nat,
         \A k \in 1..(i + n) : b[k] \in Nat /\ c[k] = b[k]
  PROVE  Payload(b, i, n) = Payload(c, i, n)
<1> DEFINE m == i + n
           S == {j \in Nat : j <= m => EndingAt(b, m)[j] = EndingAt(c, m)[j]}
<1>1. m \in Nat /\ (\A k \in 1..m : b[k] \in Nat) /\ (\A k \in 1..m : c[k] \in Nat) /\ n <= m
  <2>1. i + n \in Nat /\ n <= i + n
    OBVIOUS
  <2> QED BY <2>1
<1> HIDE DEF m
<1>2. EndingAt(b, m)[0] = 0 /\ EndingAt(c, m)[0] = 0
  BY <1>1, EndingAtDef
<1>3. ASSUME NEW j \in S PROVE j + 1 \in S
  <2> SUFFICES ASSUME j + 1 <= m PROVE EndingAt(b, m)[j + 1] = EndingAt(c, m)[j + 1]
    OBVIOUS
  <2>1. j \in 0..(m - 1) /\ m - j \in 1..m /\ EndingAt(b, m)[j] = EndingAt(c, m)[j]
    BY <1>1
  <2>2. EndingAt(b, m)[j + 1] = (b[m - j] % High) + High * EndingAt(b, m)[j]
    BY <1>1, <2>1, EndingAtDef
  <2>3. EndingAt(c, m)[j + 1] = (c[m - j] % High) + High * EndingAt(c, m)[j]
    BY <1>1, <2>1, EndingAtDef
  <2>4. b[m - j] = c[m - j]
    BY <2>1 DEF m
  <2> QED BY <2>1, <2>2, <2>3, <2>4
<1>4. 0 \in S /\ S \subseteq Nat
  BY <1>2
<1> HIDE DEF S
<1>5. n \in S
  BY <1>3, <1>4, Induction
<1> QED BY <1>1, <1>5 DEF S, Payload, m

LEMMA PathsAgreeAt ==
  ASSUME NEW b \in Seq(Bytes), NEW i \in 0..Len(b), NEW e \in i..Len(b),
         NEW kind \in {"uint", "zigzag"}, ReadVarint(b, i, e, kind).code = "ok"
  PROVE  /\ ReadVarint(b, i, e, kind) = FastPath(b \o [k \in 1..MaxSize(Width) |-> 0], i, Width)
         /\ SkipVarint(b, i, e).code = "ok" /\ SkipVarint(b, i, e).n = ReadVarint(b, i, e, kind).n
<1> DEFINE M == MaxSize(Width)
           MM == MaxSize(MaxWidth)
           zeros == [k \in 1..M |-> 0]
           c == b \o zeros
<1>1. M \in Nat /\ MM \in Nat /\ M <= MM /\ High \in Nat /\ MaxLastByte(Width) < High
      /\ MaxLastByte(Width) \in Nat /\ MaxLastByte(MaxWidth) \in Nat
      /\ (M = MM => MaxLastByte(Width) <= MaxLastByte(MaxWidth))
  BY MaxSizeFacts, HighFacts
<1>2. Bytes \subseteq Nat /\ 0 \in Bytes
  BY HighFacts DEF Bytes
<1> HIDE DEF M, MM
<1>3. zeros \in Seq(Bytes) /\ Len(zeros) = M
  BY <1>1, <1>2
<1>4. Len(b) \in Nat /\ i \in Nat /\ e \in Nat /\ i <= e /\ e <= Len(b)
  OBVIOUS
<1>5. \A k \in 1..Len(b) : b[k] \in Nat
  <2>1. \A k \in 1..Len(b) : b[k] \in Bytes
    OBVIOUS
  <2> QED BY <2>1, <1>2, Zenon
<1>6. c \in Seq(Bytes) /\ Len(c) = Len(b) + M /\ \A k \in 1..Len(b) : c[k] = b[k]
  <2> HIDE DEF zeros
  <2> QED BY <1>3
<1> HIDE DEF zeros, c
<1>7. \A k \in 1..Len(c) : c[k] \in Nat
  <2>1. \A k \in 1..Len(c) : c[k] \in Bytes
    BY <1>6
  <2> QED BY <2>1, <1>2, Zenon
<1>8. \A k \in 1..(i + M) : c[k] \in Nat
  BY <1>1, <1>4, <1>6, <1>7
<1>9. ReadVarint(b, i, e, kind) = IF i + M <= e THEN FastPath(b, i, Width) ELSE SlowPath(b, i, e)
  BY DEF ReadVarint, M
<1>10. SkipVarint(b, i, e) = IF i + MM <= e THEN FastPath(b, i, MaxWidth) ELSE SlowPath(b, i, e)
  BY DEF SkipVarint, MM
<1>11. PICK k : StopsAt(b, i, k) /\ LastFits(b, i, k, Width) /\ k <= e - i
  <2>1. CASE i + M <= e
    <3>1. FastPath(b, i, Width).code = "ok"
      BY <1>9, <2>1
    <3>2. \A k \in 1..(i + MaxSize(Width)) : b[k] \in Nat
      BY <1>1, <1>4, <1>5, <2>1 DEF M
    <3>3. PICK k : StopsAt(b, i, k) /\ LastFits(b, i, k, Width)
      BY <3>1, <3>2, <1>4, FastStopsAt
    <3>4. k <= e - i
      BY <3>3, <2>1, <1>1, <1>4 DEF LastFits, StopsAt, M
    <3> QED BY <3>3, <3>4
  <2>2. CASE ~(i + M <= e)
    <3>1. SlowPath(b, i, e).code = "ok"
      BY <1>9, <2>2
    <3>2. PICK k : StopsAt(b, i, k) /\ k <= e - i
      BY <3>1, <1>4, SlowStopsAt
    <3>3. LastFits(b, i, k, Width)
      BY <3>2, <2>2, <1>1, <1>4 DEF LastFits, StopsAt, M
    <3> QED BY <3>2, <3>3
  <2> QED BY <2>1, <2>2
<1>12. k \in Nat \ {0} /\ i + k \in 1..Len(b) /\ k <= M
  BY <1>4, <1>11 DEF StopsAt, LastFits, M
<1>13. ReadVarint(b, i, e, kind) = Ok(k, Payload(b, i, k))
  <2>1. CASE i + M <= e
    <3>1. \A j \in 1..(i + MaxSize(Width)) : b[j] \in Nat
      BY <1>1, <1>4, <1>5, <2>1 DEF M
    <3> QED BY <3>1, <1>4, <1>9, <1>11, <2>1, FastStopsAt
  <2>2. CASE ~(i + M <= e)
    BY <1>4, <1>9, <1>11, <2>2, SlowStopsAt
  <2> QED BY <2>1, <2>2
<1>14. FastPath(c, i, Width) = Ok(k, Payload(c, i, k))
  <2>1. \A j \in 1..k : c[i + j] = b[i + j]
    BY <1>4, <1>6, <1>12
  <2>2. StopsAt(c, i, k) /\ LastFits(c, i, k, Width)
    <3>1. c[i + k] = b[i + k]
      BY <2>1, <1>12, k \in 1..k
    <3>2. LastFits(c, i, k, Width)
      BY <3>1, <1>11 DEF LastFits
    <3>3. \A j \in 1..(k - 1) : c[i + j] = b[i + j]
      BY <2>1, <1>12
    <3>4. StopsAt(c, i, k)
      BY <3>1, <3>3, <1>11 DEF StopsAt
    <3> QED BY <3>2, <3>4
  <2> QED BY <2>2, <1>4, <1>8, FastStopsAt DEF M
<1>15. Payload(b, i, k) = Payload(c, i, k)
  <2>1. \A j \in 1..(i + k) : b[j] \in Nat /\ c[j] = b[j]
    BY <1>4, <1>5, <1>6, <1>12
  <2> QED BY <2>1, <1>4, <1>12, PayloadSame
<1>16. SkipVarint(b, i, e) = Ok(k, Payload(b, i, k))
  <2>1. CASE i + MM <= e
    <3>1. \A j \in 1..(i + MaxSize(MaxWidth)) : b[j] \in Nat
      BY <1>1, <1>4, <1>5, <2>1 DEF MM
    <3>2. LastFits(b, i, k, MaxWidth)
      <4>1. k <= MM
        BY <1>1, <1>12
      <4>2. ASSUME k = MM PROVE b[i + k] <= MaxLastByte(MaxWidth)
        <5>1. k = M /\ M = MM
          BY <4>2, <1>1, <1>12
        <5>2. b[i + k] <= MaxLastByte(Width) /\ b[i + k] \in Nat
          BY <5>1, <1>5, <1>11, <1>12 DEF LastFits, M
        <5> QED BY <5>1, <5>2, <1>1
      <4> QED BY <4>1, <4>2 DEF LastFits, MM
    <3> QED BY <3>1, <3>2, <1>4, <1>10, <1>11, <2>1, FastStopsAt
  <2>2. CASE ~(i + MM <= e)
    BY <1>4, <1>10, <1>11, <2>2, SlowStopsAt
  <2> QED BY <2>1, <2>2
<1>17. c = b \o [j \in 1..MaxSize(Width) |-> 0]
  BY DEF c, zeros, M
<1> QED BY <1>13, <1>14, <1>15, <1>16, <1>17 DEF Ok

LEMMA CodecPaths == CodecInv => PathsAgree
<1> SUFFICES ASSUME CodecInv, NEW kind \in {"uint", "zigzag"}, NEW e \in rpos..Len(wire),
                    ReadVarint(wire, rpos, e, kind).code = "ok"
             PROVE  /\ ReadVarint(wire, rpos, e, kind)
                         = FastPath(wire \o [k \in 1..MaxSize(Width) |-> 0], rpos, Width)
                    /\ SkipVarint(wire, rpos, e).code = "ok"
                    /\ SkipVarint(wire, rpos, e).n = ReadVarint(wire, rpos, e, kind).n
  BY DEF PathsAgree
<1>1. wire \in Seq(Bytes) /\ rpos \in 0..Len(wire)
  BY DEF CodecInv, TypesKept
<1> QED BY <1>1, PathsAgreeAt

\* Whatever the bytes are: the path for a long buffer and the one for its end read the same
\* value over the same bytes, and skip_varint() passes over what read_varint() reads.
THEOREM PathsAlwaysAgree == Spec => []PathsAgree
<1>1. Spec => []CodecInv
  BY CodecInit, CodecStep, PTL DEF Spec
<1> QED BY <1>1, CodecPaths, PTL

=============================================================================
