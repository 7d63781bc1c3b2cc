----------------------------- MODULE NatLemmas -----------------------------
(***************************************************************************)
(* Lemmas on natural numbers: induction, functions defined by recursion,    *)
(* and powers of two.  The induction theorems of the library range over an  *)
(* operator; SetInduction and Recursion range over sets and functions.      *)
(***************************************************************************)
EXTENDS PowersOfTwo, WellFoundedInduction, TLAPS

NatLess == {p \in Nat \X Nat : p[1] < p[2]}

LEMMA NatLessIs == OpToRel(<, Nat) = NatLess
  BY DEF OpToRel, NatLess

LEMMA NatLessWellFounded == IsWellFoundedOn(NatLess, Nat)
  BY NatLessIs, NatLessThanWellFounded

\* A set of natural numbers that is not empty has a least element.
LEMMA LeastNat ==
    ASSUME NEW T \in SUBSET Nat, T # {}
    PROVE  \E x \in T : \A y \in T : x <= y
<1>1. PICK x \in T : \A y \in T : <<y, x>> \notin NatLess
  BY NatLessWellFounded, WFMin
<1>2. ASSUME NEW y \in T PROVE x <= y
  <2>1. x \in Nat /\ y \in Nat
    OBVIOUS
  <2>2. y < x => <<y, x>> \in NatLess
    BY <2>1 DEF NatLess
  <2> QED BY <1>1, <2>1, <2>2
<1> QED BY <1>2

\* A set that holds 0 and the successor of each number it holds, holds all.
LEMMA SetInduction ==
    ASSUME NEW S, 0 \in S, \A k \in Nat : k \in S => k + 1 \in S
    PROVE  \A k \in Nat : k \in S
<1> DEFINE T == Nat \ S
<1>1. SUFFICES ASSUME T # {} PROVE FALSE
  OBVIOUS
<1>2. PICK x \in T : \A y \in T : x <= y
  BY <1>1, LeastNat
<1>3. x \in Nat /\ x # 0 /\ x - 1 \in Nat /\ ~(x <= x - 1)
  OBVIOUS
<1>4. x - 1 \in S
  BY <1>2, <1>3
<1>5. (x - 1) + 1 \in S
  BY <1>3, <1>4
<1> QED BY <1>3, <1>5

-----------------------------------------------------------------------------
(* Functions defined by recursion on a natural number.                      *)

\* f holds the first k + 1 values of the function that begins with a and goes
\* on with G.
Begins(f, a, G, k) ==
    /\ f = [x \in 0 .. k |-> f[x]]
    /\ f[0] = a
    /\ \A x \in 0 .. k - 1 : f[x + 1] = G[x][f[x]]

LEMMA BeginningsExist ==
    ASSUME NEW V, NEW a \in V, NEW G \in [Nat -> [V -> V]], NEW n \in Nat
    PROVE  \E f \in [0 .. n -> V] : Begins(f, a, G, n)
<1> DEFINE S == {k \in Nat : \E f \in [0 .. k -> V] : Begins(f, a, G, k)}
<1>1. 0 \in S
  <2> DEFINE f == [x \in 0 .. 0 |-> a]
  <2>1. f \in [0 .. 0 -> V] /\ Begins(f, a, G, 0)
    BY DEF Begins
  <2> QED BY <2>1
<1>2. ASSUME NEW k \in Nat, k \in S PROVE k + 1 \in S
  <2>1. PICK f \in [0 .. k -> V] : Begins(f, a, G, k)
    BY <1>2
  <2> DEFINE g == [x \in 0 .. k + 1 |-> IF x = k + 1 THEN G[k][f[k]] ELSE f[x]]
  <2>2. k \in 0 .. k /\ f[k] \in V /\ G[k][f[k]] \in V
    OBVIOUS
  <2>3. g \in [0 .. k + 1 -> V]
    BY <2>2
  <2>4. ASSUME NEW x \in 0 .. (k + 1) - 1 PROVE g[x + 1] = G[x][g[x]]
    <3>1. CASE x = k
      BY <3>1
    <3>2. CASE x # k
      <4>1. x \in 0 .. k - 1 /\ x + 1 \in 0 .. k + 1 /\ x + 1 # k + 1
        BY <3>2
      <4>2. g[x + 1] = f[x + 1] /\ g[x] = f[x]
        BY <4>1
      <4> QED BY <2>1, <4>1, <4>2 DEF Begins
    <3> QED BY <3>1, <3>2
  <2>5. g[0] = a
    BY <2>1 DEF Begins
  <2>6. g = [x \in 0 .. k + 1 |-> g[x]]
    OBVIOUS
  <2> HIDE DEF g
  <2>7. Begins(g, a, G, k + 1)
    BY <2>4, <2>5, <2>6 DEF Begins
  <2> QED BY <2>3, <2>7
<1> HIDE DEF S
<1>3. n \in S
  BY <1>1, <1>2, SetInduction
<1> QED BY <1>3 DEF S

LEMMA BeginningsAgree ==
    ASSUME NEW f, NEW g, NEW a, NEW G, NEW k \in Nat, NEW l \in Nat, k <= l,
           Begins(f, a, G, k), Begins(g, a, G, l)
    PROVE  f[k] = g[k]
<1> DEFINE S == {x \in Nat : x <= k => f[x] = g[x]}
<1>1. 0 \in S
  BY DEF Begins
<1>2. ASSUME NEW x \in Nat, x \in S PROVE x + 1 \in S
  <2>1. CASE x + 1 <= k
    <3>1. x \in 0 .. k - 1 /\ x \in 0 .. l - 1 /\ f[x] = g[x]
      BY <1>2, <2>1
    <3>2. f[x + 1] = G[x][f[x]] /\ g[x + 1] = G[x][g[x]]
      BY <3>1 DEF Begins
    <3> QED BY <3>1, <3>2
  <2>2. CASE ~(x + 1 <= k)
    BY <2>2
  <2> QED BY <2>1, <2>2
<1> HIDE DEF S
<1>3. k \in S
  BY <1>1, <1>2, SetInduction
<1> QED BY <1>3 DEF S

GoesOn(f, a, G) == f[0] = a /\ \A k \in Nat : f[k + 1] = G[k][f[k]]

\* Every such function exists.
LEMMA Recursion ==
    ASSUME NEW V, NEW a \in V, NEW G \in [Nat -> [V -> V]]
    PROVE  \E f \in [Nat -> V] : GoesOn(f, a, G)
<1> DEFINE Run(f, k) == f \in [0 .. k -> V] /\ Begins(f, a, G, k)
           run == [k \in Nat |-> CHOOSE f : Run(f, k)]
           F == [k \in Nat |-> run[k][k]]
<1>1. ASSUME NEW k \in Nat PROVE run[k] \in [0 .. k -> V] /\ Begins(run[k], a, G, k)
  <2>1. \E f : Run(f, k)
    BY BeginningsExist
  <2>2. run[k] = CHOOSE f : Run(f, k)
    OBVIOUS
  <2>3. Run(run[k], k)
    <3> HIDE DEF Run, run
    <3> QED BY <2>1, <2>2
  <2> QED BY <2>3
<1> HIDE DEF run
<1>2. ASSUME NEW k \in Nat PROVE F[k] \in V
  BY <1>1
<1>3. F[0] = a
  BY <1>1 DEF Begins
<1>4. ASSUME NEW k \in Nat PROVE F[k + 1] = G[k][F[k]]
  <2>1. Begins(run[k], a, G, k) /\ Begins(run[k + 1], a, G, k + 1)
    BY <1>1
  <2>2. run[k + 1][k] = run[k][k]
    <3>1. PICK f, g, l : f = run[k] /\ g = run[k + 1] /\ l = k + 1
      OBVIOUS
    <3>2. Begins(f, a, G, k) /\ Begins(g, a, G, l) /\ l \in Nat /\ k <= l
      BY <2>1, <3>1
    <3>3. f[k] = g[k]
      BY <3>2, BeginningsAgree
    <3> QED BY <3>1, <3>3
  <2>3. k \in 0 .. (k + 1) - 1
    OBVIOUS
  <2>4. run[k + 1][k + 1] = G[k][run[k + 1][k]]
    BY <2>1, <2>3 DEF Begins
  <2> QED BY <2>2, <2>4
<1>5. F \in [Nat -> V]
  BY <1>2
<1> HIDE DEF F
<1>6. GoesOn(F, a, G)
  BY <1>3, <1>4 DEF GoesOn
<1> QED BY <1>5, <1>6

-----------------------------------------------------------------------------
(* Powers of two.                                                           *)

LEMMA TwoToDef ==
    /\ TwoTo \in [Nat -> Nat]
    /\ TwoTo[0] = 1
    /\ \A e \in Nat : TwoTo[e + 1] = 2 * TwoTo[e]
<1> DEFINE G == [k \in Nat |-> [v \in Nat |-> 2 * v]]
           Rec(h) == [e \in Nat |-> IF e = 0 THEN 1 ELSE 2 * h[e - 1]]
<1>1. G \in [Nat -> [Nat -> Nat]] /\ \A k, v \in Nat : G[k][v] = 2 * v
  OBVIOUS
<1>2. PICK f \in [Nat -> Nat] : f[0] = 1 /\ \A k \in Nat : f[k + 1] = G[k][f[k]]
  <2> HIDE DEF G
  <2>1. \E f \in [Nat -> Nat] : GoesOn(f, 1, G)
    BY <1>1, Recursion
  <2> QED BY <2>1 DEF GoesOn
<1>3. \A k \in Nat : f[k + 1] = 2 * f[k]
  BY <1>1, <1>2
<1>4. f = Rec(f)
  <2>1. ASSUME NEW k \in Nat PROVE f[k] = IF k = 0 THEN 1 ELSE 2 * f[k - 1]
    <3>1. CASE k = 0
      BY <1>2, <3>1
    <3>2. CASE k # 0
      <4>1. k - 1 \in Nat /\ (k - 1) + 1 = k
        BY <3>2
      <4> QED BY <1>3, <3>2, <4>1
    <3> QED BY <3>1, <3>2
  <2> QED BY <2>1
<1>5. TwoTo = Rec(TwoTo)
  <2> DEFINE Solves(h) == h = Rec(h)
  <2>1. TwoTo = CHOOSE h : Solves(h)
    BY DEF TwoTo
  <2>2. \E h : Solves(h)
    BY <1>4
  <2>3. Solves(TwoTo)
    <3> HIDE DEF Solves
    <3> QED BY <2>1, <2>2
  <2> QED BY <2>3
<1>6. \A e \in Nat : TwoTo[e] = IF e = 0 THEN 1 ELSE 2 * TwoTo[e - 1]
  BY <1>5, Zenon
<1>7. TwoTo = [e \in Nat |-> TwoTo[e]]
  BY <1>5, Zenon
<1> DEFINE S == {e \in Nat : TwoTo[e] \in Nat}
<1>8. \A e \in Nat : TwoTo[e + 1] = 2 * TwoTo[e]
  BY <1>6
<1>9. \A e \in Nat : e \in S
  <2>1. 0 \in S /\ \A e \in Nat : e \in S => e + 1 \in S
    BY <1>6, <1>8
  <2> HIDE DEF S
  <2> QED BY <2>1, SetInduction
<1> QED BY <1>6, <1>7, <1>8, <1>9

LEMMA TwoToPositive == \A e \in Nat : TwoTo[e] \in Nat \ {0} /\ e < TwoTo[e]
<1> DEFINE S == {e \in Nat : TwoTo[e] \in Nat \ {0} /\ e < TwoTo[e]}
<1>1. 0 \in S /\ \A e \in Nat : e \in S => e + 1 \in S
  BY TwoToDef
<1> HIDE DEF S
<1>2. \A e \in Nat : e \in S
  BY <1>1, SetInduction
<1> QED BY <1>2 DEF S

LEMMA TwoToSum == \A a, b \in Nat : TwoTo[a + b] = TwoTo[a] * TwoTo[b]
<1> SUFFICES ASSUME NEW a \in Nat PROVE \A b \in Nat : TwoTo[a + b] = TwoTo[a] * TwoTo[b]
  OBVIOUS
<1> DEFINE S == {b \in Nat : TwoTo[a + b] = TwoTo[a] * TwoTo[b]}
<1>1. 0 \in S
  BY TwoToDef
<1>2. ASSUME NEW b \in Nat, b \in S PROVE b + 1 \in S
  <2>1. a + b \in Nat /\ a + (b + 1) = (a + b) + 1
    OBVIOUS
  <2>2. TwoTo[a + (b + 1)] = 2 * TwoTo[a + b] /\ TwoTo[b + 1] = 2 * TwoTo[b]
    BY <2>1, TwoToDef
  <2>3. PICK x \in Nat, y \in Nat : x = TwoTo[a] /\ y = TwoTo[b]
    BY TwoToDef
  <2>4. x * (2 * y) = 2 * (x * y)
    BY <2>3
  <2>5. TwoTo[a + (b + 1)] = 2 * (x * y)
    BY <1>2, <2>2, <2>3
  <2>6. TwoTo[a] * TwoTo[b + 1] = x * (2 * y)
    BY <2>2, <2>3
  <2> QED BY <2>4, <2>5, <2>6
<1> HIDE DEF S
<1>3. \A b \in Nat : b \in S
  BY <1>1, <1>2, SetInduction
<1> QED BY <1>3 DEF S

\* Powers of two grow with their exponent.
LEMMA TwoToMonotone == \A a, b \in Nat : a < b => 2 * TwoTo[a] <= TwoTo[b]
<1> SUFFICES ASSUME NEW a \in Nat, NEW b \in Nat, a < b PROVE 2 * TwoTo[a] <= TwoTo[b]
  OBVIOUS
<1>1. PICK d \in Nat : b = (a + 1) + d
  <2>1. b - (a + 1) \in Nat /\ b = (a + 1) + (b - (a + 1))
    OBVIOUS
  <2> QED BY <2>1
<1>2. a + 1 \in Nat /\ TwoTo[a + 1] = 2 * TwoTo[a]
  BY TwoToDef
<1>3. TwoTo[b] = TwoTo[a + 1] * TwoTo[d]
  BY <1>1, <1>2, TwoToSum
<1>4. PICK x \in Nat, y \in Nat : x = TwoTo[a + 1] /\ y = TwoTo[d] /\ y >= 1
  BY <1>2, TwoToPositive
<1>5. x * y >= x
  BY <1>4
<1> QED BY <1>2, <1>3, <1>4, <1>5

LEMMA TwoToInjective == \A a, b \in Nat : TwoTo[a] = TwoTo[b] => a = b
<1> SUFFICES ASSUME NEW a \in Nat, NEW b \in Nat, TwoTo[a] = TwoTo[b], a # b PROVE FALSE
  OBVIOUS
<1>1. a < b \/ b < a
  OBVIOUS
<1>2. TwoTo[a] \in Nat \ {0} /\ TwoTo[b] \in Nat \ {0}
  BY TwoToPositive
<1>3. 2 * TwoTo[a] <= TwoTo[b] \/ 2 * TwoTo[b] <= TwoTo[a]
  BY <1>1, TwoToMonotone
<1> QED BY <1>2, <1>3

LEMMA TwoToDiv ==
    ASSUME NEW e \in Nat, NEW l \in Nat, l <= e
    PROVE  TwoTo[e] \div TwoTo[l] = TwoTo[e - l]
<1>1. e - l \in Nat /\ e = l + (e - l)
  OBVIOUS
<1>2. TwoTo[e] = TwoTo[l] * TwoTo[e - l]
  BY <1>1, TwoToSum
<1>3. PICK x \in Nat \ {0}, y \in Nat : x = TwoTo[l] /\ y = TwoTo[e - l]
  BY <1>1, TwoToPositive
<1>4. (x * y) \div x = y
  BY <1>3
<1> QED BY <1>2, <1>3, <1>4

-----------------------------------------------------------------------------
(* The logarithm.                                                           *)

LEMMA Ilog2Is ==
    ASSUME NEW m \in Nat \ {0}
    PROVE  Ilog2(m) \in 0 .. m /\ TwoTo[Ilog2(m)] <= m /\ m < TwoTo[Ilog2(m) + 1]
<1> DEFINE T == {e \in Nat : m < TwoTo[e + 1]}
<1>1. T # {} /\ T \subseteq Nat
  <2>1. m + 1 \in Nat /\ m + 1 < TwoTo[m + 1]
    BY TwoToPositive
  <2>2. TwoTo[m + 1] \in Nat
    BY <2>1, TwoToPositive
  <2>3. m \in T
    BY <2>1, <2>2
  <2> QED BY <2>3
<1>2. PICK e \in T : \A y \in T : e <= y
  <2> HIDE DEF T
  <2> QED BY <1>1, LeastNat
<1>3. e \in Nat /\ m < TwoTo[e + 1]
  OBVIOUS
<1>4. TwoTo[e] <= m
  <2>1. CASE e = 0
    BY <2>1, TwoToDef
  <2>2. CASE e # 0
    <3>1. e - 1 \in Nat /\ (e - 1) + 1 = e
      BY <1>3, <2>2
    <3>2. e - 1 \notin T
      BY <1>2, <1>3, <3>1
    <3>3. ~(m < TwoTo[e])
      BY <3>1, <3>2
    <3> QED BY <1>3, <3>3, TwoToPositive
  <2> QED BY <2>1, <2>2
<1>5. e \in 0 .. m
  BY <1>3, <1>4, TwoToPositive
<1>6. \E d \in 0 .. m : TwoTo[d] <= m /\ m < TwoTo[d + 1]
  BY <1>3, <1>4, <1>5
<1> HIDE DEF T
<1> QED BY <1>6 DEF Ilog2

\* There is no other number between whose powers m lies.
LEMMA Ilog2Unique ==
    ASSUME NEW m \in Nat \ {0}, NEW e \in Nat, TwoTo[e] <= m, m < TwoTo[e + 1]
    PROVE  Ilog2(m) = e
<1>1. PICK d \in Nat : d = Ilog2(m) /\ TwoTo[d] <= m /\ m < TwoTo[d + 1]
  BY Ilog2Is
<1>2. /\ TwoTo[d] \in Nat /\ TwoTo[d + 1] = 2 * TwoTo[d]
      /\ TwoTo[e] \in Nat /\ TwoTo[e + 1] = 2 * TwoTo[e]
  BY TwoToDef
<1>3. ~(d < e)
  <2> SUFFICES ASSUME d < e PROVE FALSE
    OBVIOUS
  <2>1. 2 * TwoTo[d] <= TwoTo[e]
    BY TwoToMonotone
  <2> QED BY <1>1, <1>2, <2>1
<1>4. ~(e < d)
  <2> SUFFICES ASSUME e < d PROVE FALSE
    OBVIOUS
  <2>1. 2 * TwoTo[e] <= TwoTo[d]
    BY TwoToMonotone
  <2> QED BY <1>1, <1>2, <2>1
<1> QED BY <1>1, <1>3, <1>4

LEMMA Ilog2Power == \A e \in Nat : Ilog2(TwoTo[e]) = e
<1> SUFFICES ASSUME NEW e \in Nat PROVE Ilog2(TwoTo[e]) = e
  OBVIOUS
<1>1. TwoTo[e] \in Nat \ {0} /\ TwoTo[e + 1] = 2 * TwoTo[e]
  BY TwoToDef, TwoToPositive
<1>2. TwoTo[e] <= TwoTo[e] /\ TwoTo[e] < TwoTo[e + 1]
  BY <1>1
<1> QED BY <1>1, <1>2, Ilog2Unique

LEMMA PowerOfTwoIs == \A m \in Nat : IsPowerOfTwo(m) <=> \E e \in Nat : m = TwoTo[e]
<1> SUFFICES ASSUME NEW m \in Nat PROVE IsPowerOfTwo(m) <=> \E e \in Nat : m = TwoTo[e]
  OBVIOUS
<1>1. ASSUME IsPowerOfTwo(m) PROVE \E e \in Nat : m = TwoTo[e]
  <2>1. m # 0 /\ m = TwoTo[Ilog2(m)]
    BY <1>1 DEF IsPowerOfTwo
  <2>2. Ilog2(m) \in Nat
    BY <2>1, Ilog2Is
  <2> QED BY <2>1, <2>2
<1>2. ASSUME NEW e \in Nat, m = TwoTo[e] PROVE IsPowerOfTwo(m)
  <2>1. m # 0 /\ Ilog2(m) = e
    BY <1>2, Ilog2Power, TwoToPositive
  <2> QED BY <1>2, <2>1 DEF IsPowerOfTwo
<1> QED BY <1>1, <1>2

LEMMA NextPowerOfTwoIs ==
    ASSUME NEW m \in Nat \ {0}
    PROVE  /\ NextPowerOfTwo(m) \in Nat \ {0} /\ m <= NextPowerOfTwo(m)
           /\ IsPowerOfTwo(NextPowerOfTwo(m))
<1>1. CASE m = 1
  <2>1. NextPowerOfTwo(m) = TwoTo[0] /\ TwoTo[0] = 1
    BY <1>1, TwoToDef DEF NextPowerOfTwo
  <2> QED BY <1>1, <2>1, PowerOfTwoIs
<1>2. CASE m # 1
  <2>1. m - 1 \in Nat \ {0} /\ ~(m <= 1)
    BY <1>2
  <2>2. Ilog2(m - 1) \in Nat /\ m - 1 < TwoTo[Ilog2(m - 1) + 1]
    BY <2>1, Ilog2Is
  <2>3. PICK e \in Nat : e = Ilog2(m - 1) + 1
    BY <2>2
  <2>4. NextPowerOfTwo(m) = TwoTo[e] /\ TwoTo[e] \in Nat \ {0}
    BY <2>1, <2>3, TwoToPositive DEF NextPowerOfTwo
  <2> QED BY <2>2, <2>3, <2>4, PowerOfTwoIs
<1> QED BY <1>1, <1>2

=============================================================================
