--------------------------- MODULE NaturalRecursion ---------------------------
(***************************************************************************)
(* Induction and recursion over the natural numbers.  The provers have no  *)
(* rule for induction over a recursive definition.  Here it comes from the *)
(* least element of a set of numbers: Induction, CompleteInduction and     *)
(* Recursion are stated about sets, not operators.                         *)
(***************************************************************************)
EXTENDS Integers, WellFoundedInduction, TLAPS

\* A set of natural numbers has a least element.
LEMMA Least ==
  ASSUME NEW T, T \subseteq Nat, T # {}
  PROVE  \E x \in T : \A y \in T : x <= y
<1> DEFINE R == {p \in Nat \X Nat : p[1] < p[2]}
<1>1. IsWellFoundedOn(R, Nat)
  BY NatLessThanWellFounded DEF OpToRel
<1>2. \A x \in T, y \in T : <<y, x>> \notin R => x <= y
  BY SMT
<1> HIDE DEF R
<1>3. \E x \in T : \A y \in T : ~ (<<y, x>> \in R)
  BY <1>1, WFMin
<1> QED BY <1>2, <1>3

\* A set that has 0, and n + 1 with n, has every natural number.
LEMMA Induction ==
  ASSUME NEW S, 0 \in S, \A n \in Nat : n \in S => n + 1 \in S
  PROVE  \A n \in Nat : n \in S
<1>1. SUFFICES ASSUME Nat \ S # {} PROVE FALSE
  OBVIOUS
<1>2. PICK x \in Nat \ S : \A y \in Nat \ S : x <= y
  BY <1>1, Least
<1>3. x # 0
  BY <1>2
<1>4. x - 1 \in Nat /\ x - 1 \in S
  BY <1>2, <1>3
<1> QED BY <1>4, <1>2

\* A set that has n whenever it has everything below n has every natural number.
LEMMA CompleteInduction ==
  ASSUME NEW S, \A n \in Nat : (\A m \in 0..(n - 1) : m \in S) => n \in S
  PROVE  \A n \in Nat : n \in S
<1>1. SUFFICES ASSUME Nat \ S # {} PROVE FALSE
  OBVIOUS
<1>2. PICK x \in Nat \ S : \A y \in Nat \ S : x <= y
  BY <1>1, Least
<1>3. \A m \in 0..(x - 1) : m \in S
  BY <1>2
<1> QED BY <1>2, <1>3

\* f starts with base, and step makes each of its values from the one before.
Follows(f, base, step) == f[0] = base /\ \A n \in Nat : f[n + 1] = step[n][f[n]]

\* The same up to n.
FollowsTo(n, f, base, step) == f[0] = base /\ \A i \in 0..(n - 1) : f[i + 1] = step[i][f[i]]

\* Primitive recursion defines a function.
LEMMA Recursion ==
  ASSUME NEW S, NEW base \in S, NEW step \in [Nat -> [S -> S]]
  PROVE  \E f \in [Nat -> S] : Follows(f, base, step)
<1> DEFINE Good == {n \in Nat : \E g \in [0..n -> S] : FollowsTo(n, g, base, step)}
<1>1. 0 \in Good
  <2>1. [i \in 0..0 |-> base] \in [0..0 -> S] /\ FollowsTo(0, [i \in 0..0 |-> base], base, step)
    BY DEF FollowsTo
  <2> QED BY <2>1
<1>2. ASSUME NEW n \in Nat, n \in Good PROVE n + 1 \in Good
  <2>1. PICK g \in [0..n -> S] : FollowsTo(n, g, base, step)
    BY <1>2
  <2> DEFINE h == [i \in 0..(n + 1) |-> IF i <= n THEN g[i] ELSE step[n][g[n]]]
  <2>2. g[n] \in S /\ step[n][g[n]] \in S
    OBVIOUS
  <2>3. h \in [0..(n + 1) -> S]
    BY <2>2
  <2>4. FollowsTo(n + 1, h, base, step)
    BY <2>1 DEF FollowsTo
  <2> HIDE DEF h
  <2> QED BY <2>3, <2>4, n + 1 \in Nat
<1> HIDE DEF Good
<1>3. \A n \in Nat : n \in Good
  BY <1>1, <1>2, Induction
<1> DEFINE G == [n \in Nat |-> CHOOSE g \in [0..n -> S] : FollowsTo(n, g, base, step)]
<1>4. ASSUME NEW n \in Nat PROVE G[n] \in [0..n -> S] /\ FollowsTo(n, G[n], base, step)
  <2>1. \E g \in [0..n -> S] : FollowsTo(n, g, base, step)
    BY <1>3 DEF Good
  <2> QED BY <2>1
<1> HIDE DEF G
<1>5. ASSUME NEW n \in Nat PROVE \A i \in Nat : i <= n => G[n + 1][i] = G[n][i]
  <2> DEFINE E == {j \in Nat : j <= n => G[n + 1][j] = G[n][j]}
  <2>1. FollowsTo(n, G[n], base, step) /\ FollowsTo(n + 1, G[n + 1], base, step)
    BY <1>4, n + 1 \in Nat
  <2>2. 0 \in E
    BY <2>1 DEF FollowsTo
  <2>3. ASSUME NEW i \in Nat, i \in E PROVE i + 1 \in E
    BY <2>1, <2>3 DEF FollowsTo
  <2> HIDE DEF E
  <2>4. \A i \in Nat : i \in E
    BY <2>2, <2>3, Induction
  <2> QED BY <2>4 DEF E
<1> DEFINE f == [n \in Nat |-> G[n][n]]
<1>6. f \in [Nat -> S]
  <2>1. \A n \in Nat : n \in 0..n
    OBVIOUS
  <2>2. \A n \in Nat : G[n][n] \in S
    BY <1>4, <2>1
  <2> QED BY <2>2
<1>7. f[0] = base
  BY <1>4 DEF FollowsTo
<1>8. ASSUME NEW n \in Nat PROVE f[n + 1] = step[n][f[n]]
  <2>1. G[n + 1][n + 1] = step[n][G[n + 1][n]]
    BY <1>4, n + 1 \in Nat, n \in 0..((n + 1) - 1) DEF FollowsTo
  <2>2. G[n + 1][n] = G[n][n]
    BY <1>5
  <2> QED BY <2>1, <2>2
<1> HIDE DEF f
<1> QED BY <1>6, <1>7, <1>8 DEF Follows
=============================================================================
