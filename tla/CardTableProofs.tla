-------------------------- MODULE CardTableProofs --------------------------
(***************************************************************************)
(* Proofs about the card table: for every prime order of the group,        *)
(* committee, deck and number of shuffle levels, the deck stays whole, an  *)
(* opened card is the card that was dealt, and the circuit of the          *)
(* Rao-Sandelius shuffle accepts the witness that is made for it.          *)
(***************************************************************************)
EXTENDS CardTable, NatLemmas, FiniteSetTheorems, FunctionTheorems, SequenceTheorems

LEMMA OrderIs == Q \in Nat /\ Q > 1 /\ Q > N
  BY TableAssumption DEF Prime

LEMMA SizesAre ==
    /\ N \in Nat \ {0} /\ LEVELS \in Nat \ {0} /\ Members \in Nat \ {0}
    /\ P \in Nat /\ P > 3
    /\ Positions = 1..N /\ MemberIndices = 0..(Members - 1)
  BY TableAssumption, ShuffleAssumption, FieldAssumption DEF Positions, MemberIndices

-----------------------------------------------------------------------------
(* Residues modulo Q.                                                      *)

LEMMA ResidueIs ==
    \A x \in Int : x % Q \in Point /\ x \div Q \in Int /\ x = (x % Q) + (x \div Q) * Q
  BY OrderIs DEF Point

LEMMA ResidueIsInt == \A x \in Int : x % Q \in Point /\ x % Q \in Int
<1>1. Point \subseteq Int
  BY OrderIs DEF Point
<1> QED BY <1>1, ResidueIs

\* Numbers that differ by a multiple of Q have one residue, and conversely.
LEMMA SameRemainder ==
    ASSUME NEW m \in Nat \ {0}, NEW x \in Int, NEW y \in Int, NEW k \in Int, x = y + k * m
    PROVE  x % m = y % m
<1>1. PICK r \in 0..(m - 1), a \in Int : r = y % m /\ y = r + a * m
  <2>1. y % m \in 0..(m - 1) /\ y \div m \in Int /\ y = (y % m) + (y \div m) * m
    OBVIOUS
  <2> QED BY <2>1
<1>2. PICK s \in 0..(m - 1), b \in Int : s = x % m /\ x = s + b * m
  <2>1. x % m \in 0..(m - 1) /\ x \div m \in Int /\ x = (x % m) + (x \div m) * m
    OBVIOUS
  <2> QED BY <2>1
<1>3. PICK d \in Int : d = a + k - b
  OBVIOUS
<1>4. d * m = a * m + k * m - b * m
  BY <1>3
<1>5. d * m = s - r
  <2>1. PICK am \in Int, km \in Int, bm \in Int, dm \in Int :
           am = a * m /\ km = k * m /\ bm = b * m /\ dm = d * m
    OBVIOUS
  <2>2. dm = am + km - bm /\ x = y + km /\ y = r + am /\ x = s + bm
    BY <1>1, <1>2, <1>4, <2>1
  <2>3. dm = s - r
    BY <2>2
  <2> QED BY <2>1, <2>3
<1>6. d * m < m /\ d * m > 0 - m
  BY <1>1, <1>2, <1>5
<1>7. d = 0
  BY <1>6
<1>8. d * m = 0
  BY <1>7
<1>9. r = s
  BY <1>5, <1>8
<1> QED BY <1>1, <1>2, <1>9

LEMMA SameResidue ==
    ASSUME NEW x \in Int, NEW y \in Int, NEW k \in Int, x = y + k * Q
    PROVE  x % Q = y % Q
<1>1. Q \in Nat \ {0}
  BY OrderIs
<1> QED BY <1>1, SameRemainder

LEMMA ResidueOfPoint == \A x \in Point : x % Q = x
  BY OrderIs DEF Point

LEMMA Difference ==
    ASSUME NEW x \in Int, NEW y \in Int, x % Q = y % Q
    PROVE  \E k \in Int : x = y + k * Q
<1>1. PICK r \in Point, a \in Int : r = y % Q /\ y = r + a * Q
  BY ResidueIs
<1>2. PICK b \in Int : x = r + b * Q
  BY <1>1, ResidueIs
<1>3. b - a \in Int /\ x = y + (b - a) * Q
  BY <1>1, <1>2, OrderIs DEF Point
<1> QED BY <1>3

\* A residue inside a sum or a product may be dropped.
LEMMA AddResidue ==
    ASSUME NEW x \in Int, NEW y \in Int
    PROVE  /\ (x + (y % Q)) % Q = (x + y) % Q
           /\ ((y % Q) + x) % Q = (x + y) % Q
           /\ (x - (y % Q)) % Q = (x - y) % Q
           /\ ((y % Q) - x) % Q = (y - x) % Q
<1>1. PICK r \in Point, a \in Int : r = y % Q /\ y = r + a * Q
  BY ResidueIs
<1>2. /\ x + y = (x + r) + a * Q /\ x - y = (x - r) + (0 - a) * Q
      /\ y - x = (r - x) + a * Q /\ x + r = r + x
      /\ x + r \in Int /\ x - r \in Int /\ r - x \in Int /\ 0 - a \in Int
      /\ x + y \in Int /\ x - y \in Int /\ y - x \in Int
  BY <1>1, OrderIs DEF Point
<1> QED BY <1>1, <1>2, SameResidue

LEMMA TimesResidue ==
    ASSUME NEW x \in Int, NEW y \in Int
    PROVE  (x * (y % Q)) % Q = (x * y) % Q /\ ((y % Q) * x) % Q = (y * x) % Q
<1>1. PICK r \in Point, a \in Int : r = y % Q /\ y = r + a * Q
  BY ResidueIs
<1>2. x * y = x * r + (x * a) * Q /\ x * r = r * x /\ x * y = y * x
  BY <1>1, OrderIs DEF Point
<1>3. x * y \in Int /\ x * r \in Int /\ x * a \in Int
  BY <1>1, OrderIs DEF Point
<1> QED BY <1>1, <1>2, <1>3, SameResidue

-----------------------------------------------------------------------------
(* Sums of points.                                                         *)

\* t holds the sums of the beginnings of s.
SumsOf(s, t) ==
    t = [i \in 0..Len(s) |-> IF i = 0 THEN 0 ELSE (t[i - 1] + s[i]) % Q]

LEMMA SumsExist ==
    ASSUME NEW s, Len(s) \in Nat
    PROVE  \E t : SumsOf(s, t) /\ PointSum(s) = t[Len(s)]
<1> DEFINE n == Len(s)
           Upto(k, t) == t = [i \in 0..k |-> IF i = 0 THEN 0 ELSE (t[i - 1] + s[i]) % Q]
           S == {k \in Nat : \E t : Upto(k, t)}
<1>1. 0 \in S
  <2>1. Upto(0, [i \in 0..0 |-> 0])
    OBVIOUS
  <2> QED BY <2>1
<1>2. ASSUME NEW k \in Nat, k \in S PROVE k + 1 \in S
  <2>1. PICK t : Upto(k, t)
    BY <1>2
  <2> DEFINE u == [i \in 0..(k + 1) |-> IF i = k + 1 THEN (t[k] + s[k + 1]) % Q ELSE t[i]]
  <2>2. ASSUME NEW i \in 0..(k + 1)
        PROVE  u[i] = IF i = 0 THEN 0 ELSE (u[i - 1] + s[i]) % Q
    <3>1. CASE i = k + 1
      BY <3>1
    <3>2. CASE i # k + 1 /\ i # 0
      <4>1. i \in 0..k /\ i - 1 \in 0..(k + 1) /\ i - 1 # k + 1
        BY <3>2
      <4>2. u[i] = t[i] /\ u[i - 1] = t[i - 1]
        BY <3>2, <4>1
      <4>3. t[i] = (t[i - 1] + s[i]) % Q
        BY <2>1, <3>2, <4>1, Zenon
      <4> QED BY <3>2, <4>2, <4>3
    <3>3. CASE i = 0
      BY <2>1, <3>3
    <3> QED BY <3>1, <3>2, <3>3
  <2>3. Upto(k + 1, u)
    <3> DEFINE v == [i \in 0..(k + 1) |-> IF i = 0 THEN 0 ELSE (u[i - 1] + s[i]) % Q]
    <3>1. u = [i \in 0..(k + 1) |-> u[i]] /\ v = [i \in 0..(k + 1) |-> v[i]]
      OBVIOUS
    <3>2. \A i \in 0..(k + 1) : u[i] = v[i]
      BY <2>2
    <3> HIDE DEF u
    <3>3. u = v
      <4> HIDE DEF v
      <4> QED BY <3>1, <3>2
    <3> HIDE DEF u
    <3> QED BY <3>3, Zenon
  <2> HIDE DEF u, Upto
  <2> QED BY <2>3
<1> HIDE DEF S
<1>3. n \in S
  BY <1>1, <1>2, SetInduction
<1>4. \E t : SumsOf(s, t)
  BY <1>3 DEF S, SumsOf
<1>5. PointSum(s) = (CHOOSE t : SumsOf(s, t))[n]
  BY DEF PointSum, SumsOf
<1> QED BY <1>4, <1>5, Zenon

\* What the rest needs of it.
SumsSteps(s, n, t) ==
    /\ t[0] = 0
    /\ \A i \in 1..n : t[i] = (t[i - 1] + s[i]) % Q

LEMMA SumsAre ==
    ASSUME NEW s, NEW n \in Nat, Len(s) = n
    PROVE  \E t : SumsSteps(s, n, t) /\ PointSum(s) = t[n]
<1>1. PICK t : SumsOf(s, t) /\ PointSum(s) = t[n]
  BY SumsExist
<1>2. ASSUME NEW i \in 0..n PROVE t[i] = IF i = 0 THEN 0 ELSE (t[i - 1] + s[i]) % Q
  BY <1>1, Zenon DEF SumsOf
<1>3. t[0] = 0
  BY <1>2
<1>4. ASSUME NEW i \in 1..n PROVE t[i] = (t[i - 1] + s[i]) % Q
  <2>1. i \in 0..n /\ i # 0
    OBVIOUS
  <2> QED BY <1>2, <2>1
<1> QED BY <1>1, <1>3, <1>4 DEF SumsSteps

LEMMA SumsArePoints ==
    ASSUME NEW s, NEW n \in Nat, NEW t, SumsSteps(s, n, t), \A i \in 1..n : s[i] \in Int
    PROVE  \A k \in 0..n : t[k] \in Point
<1> DEFINE S == {k \in Nat : k <= n => t[k] \in Point}
<1>1. 0 \in S
  BY OrderIs DEF SumsSteps, Point
<1>2. ASSUME NEW k \in Nat, k \in S PROVE k + 1 \in S
  <2> SUFFICES ASSUME k + 1 <= n PROVE t[k + 1] \in Point
    OBVIOUS
  <2>1. k + 1 \in 1..n /\ (k + 1) - 1 = k
    OBVIOUS
  <2>2. t[k + 1] = (t[k] + s[k + 1]) % Q
    BY <2>1 DEF SumsSteps
  <2>3. t[k] + s[k + 1] \in Int
    BY <1>2, <2>1, OrderIs DEF Point
  <2> QED BY <2>2, <2>3, ResidueIs
<1> HIDE DEF S
<1>3. \A k \in Nat : k \in S
  BY <1>1, <1>2, SetInduction
<1> QED BY <1>3 DEF S

LEMMA SumIsPoint ==
    ASSUME NEW s, NEW n \in Nat, Len(s) = n, \A i \in 1..n : s[i] \in Int
    PROVE  PointSum(s) \in Point
<1>1. PICK t : SumsSteps(s, n, t) /\ PointSum(s) = t[n]
  BY SumsAre
<1>2. n \in 0..n
  OBVIOUS
<1> QED BY <1>1, <1>2, SumsArePoints

LEMMA ZeroSum ==
    ASSUME NEW s, NEW n \in Nat, Len(s) = n, \A i \in 1..n : s[i] = 0
    PROVE  PointSum(s) = 0
<1>1. PICK t : SumsSteps(s, n, t) /\ PointSum(s) = t[n]
  BY SumsAre
<1> DEFINE S == {k \in Nat : k <= n => t[k] = 0}
<1>2. 0 \in S
  BY <1>1 DEF SumsSteps
<1>3. ASSUME NEW k \in Nat, k \in S PROVE k + 1 \in S
  <2> SUFFICES ASSUME k + 1 <= n PROVE t[k + 1] = 0
    OBVIOUS
  <2>1. k + 1 \in 1..n /\ (k + 1) - 1 = k /\ t[k] = 0
    BY <1>3
  <2>2. t[k + 1] = (0 + 0) % Q
    BY <1>1, <2>1 DEF SumsSteps
  <2> QED BY <2>2, OrderIs, ResidueOfPoint DEF Point
<1> HIDE DEF S
<1>4. n \in S
  BY <1>2, <1>3, SetInduction
<1> QED BY <1>1, <1>4 DEF S

\* A common factor of the terms is a factor of the sum.
Scaled(s, r, n, c) ==
    /\ n \in Nat /\ Len(s) = n /\ Len(r) = n /\ c \in Int
    /\ \A i \in 1..n : s[i] \in Int /\ r[i] = (c * s[i]) % Q

LEMMA ScaledSum ==
    ASSUME NEW s, NEW r, NEW n, NEW c, Scaled(s, r, n, c)
    PROVE  PointSum(r) = (c * PointSum(s)) % Q
<1>0. /\ n \in Nat /\ Len(s) = n /\ Len(r) = n /\ c \in Int
      /\ \A i \in 1..n : s[i] \in Int /\ r[i] = (c * s[i]) % Q
  BY DEF Scaled
<1>1. PICK t : SumsSteps(s, n, t) /\ PointSum(s) = t[n]
  BY <1>0, SumsAre
<1>2. PICK u : SumsSteps(r, n, u) /\ PointSum(r) = u[n]
  BY <1>0, SumsAre
<1>3. \A k \in 0..n : t[k] \in Point
  BY <1>0, <1>1, SumsArePoints
<1> DEFINE S == {k \in Nat : k <= n => u[k] = (c * t[k]) % Q}
<1>4. 0 \in S
  <2>1. c * 0 = 0 /\ 0 \in Point /\ 0 % Q = 0
    BY <1>0, OrderIs, ResidueOfPoint DEF Point
  <2> QED BY <1>0, <1>1, <1>2, <2>1 DEF SumsSteps
<1>5. ASSUME NEW k \in Nat, k \in S PROVE k + 1 \in S
  <2> SUFFICES ASSUME k + 1 <= n PROVE u[k + 1] = (c * t[k + 1]) % Q
    OBVIOUS
  <2>1. k + 1 \in 1..n /\ (k + 1) - 1 = k /\ k \in 0..n
    BY <1>0
  <2>2. u[k + 1] = (u[k] + r[k + 1]) % Q /\ t[k + 1] = (t[k] + s[k + 1]) % Q
    BY <1>0, <1>1, <1>2, <2>1 DEF SumsSteps
  <2>3. u[k] = (c * t[k]) % Q /\ r[k + 1] = (c * s[k + 1]) % Q
    BY <1>0, <1>5, <2>1
  <2>4. PICK a \in Int, b \in Int : a = t[k] /\ b = s[k + 1]
    <3>1. t[k] \in Int /\ s[k + 1] \in Int
      BY <1>0, <1>3, <2>1, OrderIs DEF Point
    <3> QED BY <3>1
  <2>5. PICK x \in Int, y \in Int : x = c * a /\ y = c * b
    BY <1>0, <2>4
  <2>6. u[k + 1] = ((x % Q) + (y % Q)) % Q
    BY <2>2, <2>3, <2>4, <2>5
  <2>7. y % Q \in Int
    BY ResidueIsInt
  <2>8. u[k + 1] = (x + y) % Q
    BY <2>6, <2>7, AddResidue
  <2>9. c * (a + b) = x + y
    BY <1>0, <2>5
  <2>10. (c * ((a + b) % Q)) % Q = (c * (a + b)) % Q
    BY <1>0, TimesResidue
  <2> QED BY <2>2, <2>4, <2>8, <2>9, <2>10
<1> HIDE DEF S
<1>6. n \in S
  BY <1>0, <1>4, <1>5, SetInduction
<1> QED BY <1>0, <1>1, <1>2, <1>6 DEF S

\* One term more or less changes the sum by as much.
Changed(s, r, n, j, d) ==
    /\ n \in Nat /\ Len(s) = n /\ Len(r) = n /\ j \in 1..n /\ d \in Int
    /\ \A i \in 1..n : s[i] \in Int /\ r[i] = IF i = j THEN s[i] + d ELSE s[i]

LEMMA ChangedSum ==
    ASSUME NEW s, NEW r, NEW n, NEW j, NEW d, Changed(s, r, n, j, d)
    PROVE  PointSum(r) = (PointSum(s) + d) % Q
<1>0. /\ n \in Nat /\ Len(s) = n /\ Len(r) = n /\ j \in 1..n /\ d \in Int
      /\ \A i \in 1..n : s[i] \in Int /\ r[i] = IF i = j THEN s[i] + d ELSE s[i]
  BY DEF Changed
<1>1. PICK t : SumsSteps(s, n, t) /\ PointSum(s) = t[n]
  BY <1>0, SumsAre
<1>2. PICK u : SumsSteps(r, n, u) /\ PointSum(r) = u[n]
  BY <1>0, SumsAre
<1>3. \A k \in 0..n : t[k] \in Point
  BY <1>0, <1>1, SumsArePoints
<1> DEFINE S == {k \in Nat : k <= n => u[k] = IF k < j THEN t[k] ELSE (t[k] + d) % Q}
<1>4. 0 \in S
  BY <1>0, <1>1, <1>2 DEF SumsSteps
<1>5. ASSUME NEW k \in Nat, k \in S PROVE k + 1 \in S
  <2> SUFFICES ASSUME k + 1 <= n
               PROVE  u[k + 1] = IF k + 1 < j THEN t[k + 1] ELSE (t[k + 1] + d) % Q
    OBVIOUS
  <2>1. k + 1 \in 1..n /\ (k + 1) - 1 = k /\ k \in 0..n
    BY <1>0
  <2>2. u[k + 1] = (u[k] + r[k + 1]) % Q /\ t[k + 1] = (t[k] + s[k + 1]) % Q
    BY <1>0, <1>1, <1>2, <2>1 DEF SumsSteps
  <2>3. PICK a \in Int, b \in Int : a = t[k] /\ b = s[k + 1]
    <3>1. t[k] \in Int /\ s[k + 1] \in Int
      BY <1>0, <1>3, <2>1, OrderIs DEF Point
    <3> QED BY <3>1
  <2>4. u[k] = IF k < j THEN a ELSE (a + d) % Q
    BY <1>5, <2>1, <2>3
  <2>5. (((a + b) % Q) + d) % Q = ((a + b) + d) % Q
    BY <1>0, AddResidue
  <2>6. CASE k + 1 < j
    BY <1>0, <2>1, <2>2, <2>3, <2>4, <2>6
  <2>7. CASE k + 1 = j
    <3>1. u[k] = a /\ r[k + 1] = b + d /\ a + (b + d) = (a + b) + d
      BY <1>0, <2>1, <2>3, <2>4, <2>7
    <3> QED BY <2>2, <2>3, <2>5, <2>7, <3>1
  <2>8. CASE k + 1 > j
    <3>1. u[k] = (a + d) % Q /\ r[k + 1] = b
      BY <1>0, <2>1, <2>3, <2>4, <2>8
    <3>2. (((a + d) % Q) + b) % Q = ((a + d) + b) % Q /\ (a + d) + b = (a + b) + d
      BY <1>0, AddResidue
    <3>3. u[k + 1] = (((a + d) % Q) + b) % Q /\ t[k + 1] = (a + b) % Q
      BY <2>2, <2>3, <3>1
    <3>4. u[k + 1] = (t[k + 1] + d) % Q
      BY <2>5, <3>2, <3>3
    <3>5. ~(k + 1 < j)
      BY <1>0, <2>8
    <3> QED BY <3>4, <3>5
  <2> QED BY <1>0, <2>6, <2>7, <2>8
<1> HIDE DEF S
<1>6. n \in S
  BY <1>0, <1>4, <1>5, SetInduction
<1> QED BY <1>0, <1>1, <1>2, <1>6 DEF S

\* The sum does not depend on the order of the terms.
Permutes(f, m) ==
    /\ f \in [1..m -> 0..(m - 1)]
    /\ \A i, j \in 1..m : f[i] = f[j] => i = j
    /\ \A k \in 0..(m - 1) : \E i \in 1..m : f[i] = k

InOrder(x, m) == [k \in 1..m |-> x[k - 1]]
Reordered(x, f, m) == [i \in 1..m |-> x[f[i]]]

LEMMA ReorderedSum ==
    ASSUME NEW m \in Nat, NEW x, NEW f, \A k \in 0..(m - 1) : x[k] \in Int, Permutes(f, m)
    PROVE  PointSum(Reordered(x, f, m)) = PointSum(InOrder(x, m))
<1> DEFINE s == [k \in 1..m |-> x[k - 1]]
           w(k) == [i \in 1..m |-> IF f[i] < k THEN x[f[i]] ELSE 0]
<1>0. /\ f \in [1..m -> 0..(m - 1)]
      /\ \A i, j \in 1..m : f[i] = f[j] => i = j
      /\ \A k \in 0..(m - 1) : \E i \in 1..m : f[i] = k
  BY DEF Permutes
<1>1. Len(s) = m /\ \A k : Len(w(k)) = m
  OBVIOUS
<1>2. PICK t : SumsSteps(s, m, t) /\ PointSum(s) = t[m]
  <2> HIDE DEF s
  <2> QED BY <1>1, SumsAre
<1>3. \A k : \A i \in 1..m : w(k)[i] = IF f[i] < k THEN x[f[i]] ELSE 0
  OBVIOUS
<1>4. \A k : \A i \in 1..m : w(k)[i] \in Int
  BY <1>0, <1>3
<1> DEFINE S == {k \in Nat : k <= m => PointSum(w(k)) = t[k]}
<1>5. 0 \in S
  <2>1. \A i \in 1..m : w(0)[i] = 0
    BY <1>0
  <2> DEFINE z == w(0)
  <2>2. Len(z) = m /\ \A i \in 1..m : z[i] = 0
    BY <1>1, <2>1
  <2> HIDE DEF z
  <2>3. PointSum(z) = 0
    BY <2>2, ZeroSum
  <2>4. t[0] = 0
    BY <1>2 DEF SumsSteps
  <2> QED BY <2>3, <2>4 DEF z
<1> HIDE DEF w
<1>6. ASSUME NEW k \in Nat, k \in S PROVE k + 1 \in S
  <2> SUFFICES ASSUME k + 1 <= m PROVE PointSum(w(k + 1)) = t[k + 1]
    OBVIOUS
  <2>1. k \in 0..(m - 1) /\ k + 1 \in 1..m /\ (k + 1) - 1 = k
    OBVIOUS
  <2>2. PICK j \in 1..m : f[j] = k
    BY <1>0, <2>1
  <2>3. ASSUME NEW i \in 1..m
        PROVE  w(k)[i] \in Int /\ w(k + 1)[i] = IF i = j THEN w(k)[i] + x[k] ELSE w(k)[i]
    <3>1. f[i] \in 0..(m - 1) /\ x[f[i]] \in Int /\ x[k] \in Int
      BY <1>0, <2>1
    <3>2. i # j => f[i] # k
      BY <1>0, <2>2
    <3>3. w(k)[i] = (IF f[i] < k THEN x[f[i]] ELSE 0)
          /\ w(k + 1)[i] = IF f[i] < k + 1 THEN x[f[i]] ELSE 0
      BY <1>3
    <3>4. CASE i = j
      BY <2>2, <3>1, <3>3, <3>4
    <3>5. CASE i # j
      BY <3>1, <3>2, <3>3, <3>5
    <3> QED BY <3>4, <3>5
  <2> DEFINE a == w(k)
             b == w(k + 1)
  <2>4. Len(a) = m /\ Len(b) = m /\ PointSum(a) = t[k] /\ x[k] \in Int
    BY <1>1, <1>6, <2>1
  <2>5. \A i \in 1..m : a[i] \in Int /\ b[i] = IF i = j THEN a[i] + x[k] ELSE a[i]
    BY <2>3
  <2> HIDE DEF a, b
  <2>6. PointSum(b) = (t[k] + x[k]) % Q
    <3>1. PICK d \in Int : d = x[k]
      BY <2>4
    <3>2. Changed(a, b, m, j, d)
      BY <2>4, <2>5, <3>1 DEF Changed
    <3>3. PointSum(b) = (PointSum(a) + d) % Q
      BY <3>2, ChangedSum
    <3> QED BY <2>4, <3>1, <3>3
  <2>7. s[k + 1] = x[k]
    BY <2>1
  <2>8. t[k + 1] = (t[k] + x[k]) % Q
    <3> HIDE DEF s
    <3> QED BY <1>2, <2>1, <2>7 DEF SumsSteps
  <2> QED BY <2>6, <2>8 DEF b
<1> HIDE DEF S
<1>7. m \in S
  BY <1>5, <1>6, SetInduction
<1>8. w(m) = [i \in 1..m |-> x[f[i]]]
  BY <1>0 DEF w
<1> QED
  <2> HIDE DEF s
  <2>1. PointSum(w(m)) = t[m]
    BY <1>7 DEF S
  <2> QED BY <1>2, <1>8, <2>1 DEF s, InOrder, Reordered

-----------------------------------------------------------------------------
(* Encryption.                                                             *)

LEMMA MinusTimesResidue ==
    ASSUME NEW x \in Int, NEW y \in Int, NEW z \in Int
    PROVE  /\ (z - x * (y % Q)) % Q = (z - x * y) % Q
           /\ (z - (y % Q) * x) % Q = (z - x * y) % Q
           /\ (z + x * (y % Q)) % Q = (z + x * y) % Q
<1>1. PICK r \in Int : r = y % Q
  BY ResidueIsInt
<1>2. PICK a \in Int, b \in Int : a = x * r /\ b = x * y /\ a = r * x
  <2>1. x * r \in Int /\ x * y \in Int
    OBVIOUS
  <2>2. x * r = r * x
    OBVIOUS
  <2> QED BY <2>1, <2>2
<1>3. a % Q = b % Q
  BY <1>1, <1>2, TimesResidue
<1>4. (z - (a % Q)) % Q = (z - a) % Q /\ (z - (b % Q)) % Q = (z - b) % Q
      /\ (z + (a % Q)) % Q = (z + a) % Q /\ (z + (b % Q)) % Q = (z + b) % Q
  BY AddResidue
<1> QED BY <1>1, <1>2, <1>3, <1>4

LEMMA JointKeyIs ==
    ASSUME NEW x \in [MemberIndices -> Int]
    PROVE  /\ JointKey(x) \in Point
           /\ \E t : /\ SumsSteps([k \in 1..Members |-> x[k - 1]], Members, t)
                    /\ JointKey(x) = t[Members]
                    /\ \A k \in 0..Members : t[k] \in Point
<1> DEFINE s == [k \in 1..Members |-> x[k - 1]]
<1>1. Len(s) = Members /\ \A i \in 1..Members : s[i] \in Int
  BY SizesAre
<1>2. JointKey(x) = PointSum(s)
  BY DEF JointKey
<1> HIDE DEF s
<1>4. PICK t : SumsSteps(s, Members, t) /\ PointSum(s) = t[Members]
  BY <1>1, SizesAre, SumsAre
<1>5. \A k \in 0..Members : t[k] \in Point
  BY <1>1, <1>4, SizesAre, SumsArePoints
<1>6. Members \in 0..Members
  BY SizesAre
<1> QED BY <1>2, <1>4, <1>5, <1>6 DEF s

\* The members take off their layers one after the other.
LayersSteps(x, ct, u) ==
    /\ u[0] = ct.c2
    /\ \A k \in 1..Members : u[k] = PartialDecrypt(ct.c1, u[k - 1], x[k - 1])

LEMMA LayersAre ==
    ASSUME NEW x \in [MemberIndices -> Int], NEW ct \in CiphertextType
    PROVE  \E u : LayersSteps(x, ct, u) /\ PlainUnder(x, ct) = u[Members]
<1> DEFINE Upto(u) == u = [k \in 0..Members |->
                       IF k = 0 THEN ct.c2 ELSE PartialDecrypt(ct.c1, u[k - 1], x[k - 1])]
           G == [k \in Nat |-> [v \in Point |->
                       IF k < Members THEN PartialDecrypt(ct.c1, v, x[k]) ELSE v]]
<1>1. ct.c1 \in Int /\ ct.c2 \in Point /\ \A k \in 0..(Members - 1) : x[k] \in Int
  BY OrderIs, SizesAre DEF CiphertextType, Point
<1>2. ASSUME NEW k \in 0..(Members - 1), NEW v \in Point
      PROVE  PartialDecrypt(ct.c1, v, x[k]) \in Point
  <2>1. v - ct.c1 * x[k] \in Int
    <3>1. PICK a \in Int, b \in Int : a = ct.c1 /\ b = x[k]
      BY <1>1
    <3> QED BY <3>1, OrderIs DEF Point
  <2> QED BY <2>1, ResidueIs DEF PartialDecrypt
<1>3. G \in [Nat -> [Point -> Point]]
  BY <1>2, SizesAre
<1>4. \A k \in 0..(Members - 1), v \in Point : G[k][v] = PartialDecrypt(ct.c1, v, x[k])
  BY SizesAre
<1>5. PICK f \in [0..Members -> Point] : Begins(f, ct.c2, G, Members)
  <2> HIDE DEF G
  <2> QED BY <1>1, <1>3, SizesAre, BeginningsExist
<1>6. ASSUME NEW k \in 0..Members
      PROVE  f[k] = IF k = 0 THEN ct.c2 ELSE PartialDecrypt(ct.c1, f[k - 1], x[k - 1])
  <2>1. CASE k = 0
    BY <1>5, <2>1 DEF Begins
  <2>2. CASE k # 0
    <3>1. k - 1 \in 0..(Members - 1) /\ (k - 1) + 1 = k /\ f[k - 1] \in Point
      BY <1>5, <2>2, SizesAre
    <3>2. f[k] = G[k - 1][f[k - 1]]
      BY <1>5, <3>1 DEF Begins
    <3> QED BY <1>4, <2>2, <3>1, <3>2
  <2> QED BY <2>1, <2>2
<1> HIDE DEF G
<1>7. \E u : Upto(u)
  <2>1. f = [k \in 0..Members |-> f[k]]
    BY <1>5
  <2>2. Upto(f)
    BY <1>6, <2>1
  <2> QED BY <2>2
<1>8. PlainUnder(x, ct) = (CHOOSE u : Upto(u))[Members]
  BY DEF PlainUnder
<1>9. PICK u : Upto(u) /\ PlainUnder(x, ct) = u[Members]
  <2> HIDE DEF Upto
  <2> QED BY <1>7, <1>8
<1>10. ASSUME NEW k \in 0..Members
       PROVE  u[k] = IF k = 0 THEN ct.c2 ELSE PartialDecrypt(ct.c1, u[k - 1], x[k - 1])
  BY <1>9, Zenon
<1>11. 0 \in 0..Members /\ \A k \in 1..Members : k \in 0..Members /\ k # 0
  BY SizesAre
<1>12. LayersSteps(x, ct, u)
  BY <1>10, <1>11 DEF LayersSteps
<1> QED BY <1>9, <1>12

\* Together they subtract the first point multiplied by the joint key.
LEMMA PlainIs ==
    ASSUME NEW x \in [MemberIndices -> Int], NEW ct \in CiphertextType
    PROVE  PlainUnder(x, ct) = (ct.c2 - ct.c1 * JointKey(x)) % Q
<1>1. PICK t : /\ SumsSteps([k \in 1..Members |-> x[k - 1]], Members, t)
              /\ JointKey(x) = t[Members]
              /\ \A k \in 0..Members : t[k] \in Point
  BY JointKeyIs
<1>2. PICK u : LayersSteps(x, ct, u) /\ PlainUnder(x, ct) = u[Members]
  BY LayersAre
<1>3. PICK c \in Int, e \in Point : c = ct.c1 /\ e = ct.c2
  BY OrderIs DEF CiphertextType, Point
<1> DEFINE S == {k \in Nat : k <= Members => u[k] = (e - c * t[k]) % Q}
<1>4. 0 \in S
  <2>1. t[0] = 0 /\ u[0] = e
    BY <1>1, <1>2, <1>3 DEF SumsSteps, LayersSteps
  <2>2. c * 0 = 0 /\ e - 0 = e /\ e % Q = e
    BY ResidueOfPoint, OrderIs DEF Point
  <2> QED BY <2>1, <2>2
<1>5. ASSUME NEW k \in Nat, k \in S PROVE k + 1 \in S
  <2> SUFFICES ASSUME k + 1 <= Members PROVE u[k + 1] = (e - c * t[k + 1]) % Q
    OBVIOUS
  <2>1. k + 1 \in 1..Members /\ (k + 1) - 1 = k /\ k \in 0..Members /\ k \in MemberIndices
    BY SizesAre
  <2>2. t[k + 1] = (t[k] + x[k]) % Q
    BY <1>1, <2>1 DEF SumsSteps
  <2>3. u[k + 1] = (u[k] - c * x[k]) % Q
    BY <1>2, <1>3, <2>1 DEF LayersSteps, PartialDecrypt
  <2>4. PICK a \in Int, b \in Int : a = t[k] /\ b = x[k]
    <3>1. t[k] \in Int /\ x[k] \in Int
      BY <1>1, <2>1, OrderIs DEF Point
    <3> QED BY <3>1
  <2>5. PICK ca \in Int, cb \in Int : ca = c * a /\ cb = c * b
    OBVIOUS
  <2>6. u[k] = (e - ca) % Q /\ e \in Int
    BY <1>5, <2>1, <2>4, <2>5, OrderIs DEF Point
  <2>7. u[k + 1] = ((e - ca) - cb) % Q
    <3>1. PICK z \in Int : z = e - ca
      BY <2>6
    <3>2. ((z % Q) - cb) % Q = (z - cb) % Q
      BY AddResidue
    <3> QED BY <2>3, <2>4, <2>5, <2>6, <3>1, <3>2
  <2>8. (e - c * ((a + b) % Q)) % Q = (e - c * (a + b)) % Q
    BY <2>6, MinusTimesResidue
  <2>9. c * (a + b) = ca + cb /\ (e - ca) - cb = e - (ca + cb)
    BY <2>5, <2>6
  <2> QED BY <2>2, <2>4, <2>7, <2>8, <2>9
<1> HIDE DEF S
<1>6. Members \in S
  BY <1>4, <1>5, SizesAre, SetInduction
<1> QED BY <1>1, <1>2, <1>3, <1>6, SizesAre DEF S

LEMMA VecIs ==
    ASSUME NEW n \in Nat, NEW S, NEW f \in [1..n -> S]
    PROVE  Vec(f) = f /\ Len(f) = n
<1>1. f \in Seq(S) /\ Len(f) = n
  OBVIOUS
<1>2. Size(f) = n
  <2>1. DOMAIN f = 1..n
    OBVIOUS
  <2>2. Cardinality(1..n) = n
    BY FS_Interval
  <2> QED BY <2>1, <2>2 DEF Size
<1>3. SubSeq(f, 1, n) = f
  BY <1>1, SubSeqFull
<1> QED BY <1>1, <1>2, <1>3 DEF Vec

\* A layer of encryption does not change what is under all layers.
LEMMA LayerKeepsPlain ==
    ASSUME NEW x \in [MemberIndices -> Int], NEW ct \in CiphertextType, NEW r \in Nat
    PROVE  /\ AddEncryptionLayer(ct, r, JointKey(x)) \in CiphertextType
           /\ PlainUnder(x, AddEncryptionLayer(ct, r, JointKey(x))) = PlainUnder(x, ct)
<1>1. PICK k \in Int : k = JointKey(x)
  BY JointKeyIs, OrderIs DEF Point
<1>2. PICK a \in Int, b \in Int : a = ct.c1 /\ b = ct.c2
  BY OrderIs DEF CiphertextType, Point
<1>3. PICK kr \in Int, ka \in Int : kr = k * r /\ ka = k * a
  OBVIOUS
<1> DEFINE l == AddEncryptionLayer(ct, r, JointKey(x))
<1>4. l.c1 = (a + r) % Q /\ l.c2 = (b + kr) % Q /\ l = [c1 |-> l.c1, c2 |-> l.c2]
  BY <1>1, <1>2, <1>3 DEF AddEncryptionLayer, Ciphertext
<1>5. l \in CiphertextType
  <2>1. (a + r) % Q \in Point /\ (b + kr) % Q \in Point
    BY ResidueIs
  <2> QED BY <1>4, <2>1 DEF CiphertextType
<1> HIDE DEF l
<1>6. PlainUnder(x, l) = (l.c2 - l.c1 * k) % Q
  BY <1>1, <1>5, PlainIs
<1>7. PICK m \in Int : m = (b + kr) % Q
  <2>1. b + kr \in Int
    OBVIOUS
  <2> QED BY <2>1, ResidueIsInt
<1>8. PlainUnder(x, l) = (m - ((a + r) % Q) * k) % Q
  BY <1>4, <1>6, <1>7
<1>9. (m - ((a + r) % Q) * k) % Q = (m - k * (a + r)) % Q
  BY MinusTimesResidue
<1>10. PICK s \in Int : s = k * (a + r) /\ s = ka + kr
  BY <1>3
<1>11. (m - s) % Q = ((b + kr) - s) % Q
  BY <1>7, AddResidue
<1>12. (b + kr) - s = b - ka
  BY <1>10
<1>13. PlainUnder(x, ct) = (b - ka) % Q
  <2>1. ct.c2 - ct.c1 * JointKey(x) = b - ka
    BY <1>1, <1>2, <1>3
  <2> QED BY <2>1, PlainIs
<1> QED BY <1>5, <1>8, <1>9, <1>10, <1>11, <1>12, <1>13 DEF l

\* A point that is not encrypted.
LEMMA PlainOfPoint ==
    ASSUME NEW x \in [MemberIndices -> Int], NEW m \in Point
    PROVE  Ciphertext(0, m) \in CiphertextType /\ PlainUnder(x, Ciphertext(0, m)) = m
<1>1. PICK k \in Int : k = JointKey(x)
  BY JointKeyIs, OrderIs DEF Point
<1>2. Ciphertext(0, m) \in CiphertextType
  BY OrderIs DEF Ciphertext, CiphertextType, Point
<1>3. PlainUnder(x, Ciphertext(0, m)) = (m - 0 * k) % Q
  BY <1>1, <1>2, PlainIs DEF Ciphertext
<1>4. 0 * k = 0 /\ m - 0 = m /\ m % Q = m
  BY ResidueOfPoint, OrderIs DEF Point
<1> QED BY <1>2, <1>3, <1>4

LEMMA ReencryptIs ==
    ASSUME NEW x \in [MemberIndices -> Int], NEW cts \in [Positions -> CiphertextType],
           NEW rs \in [Positions -> Nat]
    PROVE  /\ Reencrypt(cts, rs, JointKey(x)) \in [Positions -> CiphertextType]
           /\ \A i \in Positions :
                PlainUnder(x, Reencrypt(cts, rs, JointKey(x))[i]) = PlainUnder(x, cts[i])
<1> DEFINE k == JointKey(x)
           f == [i \in Positions |-> AddEncryptionLayer(cts[i], rs[i], k)]
<1>1. \A i \in Positions : /\ f[i] \in CiphertextType
                            /\ PlainUnder(x, f[i]) = PlainUnder(x, cts[i])
  <2>1. ASSUME NEW i \in Positions
        PROVE  /\ AddEncryptionLayer(cts[i], rs[i], k) \in CiphertextType
               /\ PlainUnder(x, AddEncryptionLayer(cts[i], rs[i], k)) = PlainUnder(x, cts[i])
    BY LayerKeepsPlain
  <2> HIDE DEF k
  <2> QED BY <2>1
<1>2. f \in [Positions -> CiphertextType]
  <2> HIDE DEF k
  <2> QED BY <1>1
<1>3. Reencrypt(cts, rs, k) = f
  <2>1. Len(cts) = N
    BY SizesAre, VecIs
  <2>2. Vec(f) = f
    <3> HIDE DEF f
    <3> QED BY <1>2, SizesAre, VecIs
  <2> QED BY <2>1, <2>2, SizesAre DEF Reencrypt
<1> HIDE DEF f
<1> QED BY <1>1, <1>2, <1>3

-----------------------------------------------------------------------------
(* Sorting.                                                                *)

LEMMA PositionsAreFinite == IsFiniteSet(Positions) /\ Cardinality(Positions) = N
  BY SizesAre, FS_Interval

LEMMA BeforeIs ==
    ASSUME NEW key \in [Positions -> Int], NEW a \in Positions
    PROVE  /\ IsFiniteSet(Before(key, a))
           /\ Cardinality(Before(key, a)) \in 0..(N - 1)
<1> DEFINE B == Before(key, a)
<1>1. B \in SUBSET (Positions \ {a})
  BY SizesAre DEF Before
<1> HIDE DEF B
<1>2. IsFiniteSet(Positions \ {a}) /\ Cardinality(Positions \ {a}) = N - 1
  BY PositionsAreFinite, FS_RemoveElement
<1>3. IsFiniteSet(B) /\ Cardinality(B) <= N - 1
  BY <1>1, <1>2, FS_Subset
<1>4. Cardinality(B) \in Nat
  BY <1>3, FS_CardinalityType
<1> QED BY <1>3, <1>4, SizesAre DEF B

\* Two positions never have as many before them.
LEMMA RanksDiffer ==
    ASSUME NEW key \in [Positions -> Int], NEW a \in Positions, NEW b \in Positions,
           key[a] < key[b] \/ (key[a] = key[b] /\ a < b)
    PROVE  Cardinality(Before(key, a)) < Cardinality(Before(key, b))
<1> DEFINE A == Before(key, a)
           B == Before(key, b)
<1>1. a \notin A /\ A \cup {a} \in SUBSET B
  <2>1. \A c \in Positions : c \in Int /\ key[c] \in Int
    BY SizesAre
  <2> QED BY <2>1 DEF Before
<1>2. IsFiniteSet(A) /\ IsFiniteSet(B) /\ Cardinality(A) \in Int /\ Cardinality(B) \in Int
  BY BeforeIs, SizesAre
<1> HIDE DEF A, B
<1>3. Cardinality(A \cup {a}) = Cardinality(A) + 1
  BY <1>1, <1>2, FS_AddElement
<1>4. Cardinality(A \cup {a}) <= Cardinality(B)
  BY <1>1, <1>2, FS_Subset
<1> QED BY <1>2, <1>3, <1>4 DEF A, B

\* A sort moves every position somewhere, whatever the keys.
LEMMA SortOrderIs ==
    ASSUME NEW key \in [Positions -> Int]
    PROVE  /\ SortOrder(key) \in [Positions -> Positions]
           /\ \A a \in Positions : \E p \in Positions : SortOrder(key)[p] = a
           /\ \A p \in Positions : Cardinality(Before(key, SortOrder(key)[p])) = p - 1
<1> DEFINE rank == [a \in Positions |-> Cardinality(Before(key, a)) + 1]
<1>1. \A a \in Positions : rank[a] = Cardinality(Before(key, a)) + 1 /\ rank[a] \in Positions
  BY BeforeIs, SizesAre
<1>2. ASSUME NEW a \in Positions, NEW b \in Positions, rank[a] = rank[b] PROVE a = b
  <2>1. Cardinality(Before(key, a)) \in Int /\ Cardinality(Before(key, b)) \in Int
    BY BeforeIs, SizesAre
  <2>2. Cardinality(Before(key, a)) = Cardinality(Before(key, b))
    BY <1>1, <1>2, <2>1
  <2>3. key[a] \in Int /\ key[b] \in Int /\ a \in Int /\ b \in Int
    BY SizesAre
  <2>4. ~(key[a] < key[b] \/ (key[a] = key[b] /\ a < b))
    BY <2>1, <2>2, RanksDiffer
  <2>5. ~(key[b] < key[a] \/ (key[b] = key[a] /\ b < a))
    BY <2>1, <2>2, RanksDiffer
  <2> QED BY <2>3, <2>4, <2>5
<1>3. rank \in [Positions -> Positions]
  BY <1>1
<1> HIDE DEF rank
<1>4. rank \in Injection(Positions, Positions)
  BY <1>2, <1>3, Fun_IsInj
<1>5. rank \in Surjection(Positions, Positions)
  BY <1>4, PositionsAreFinite, FS_Injection
<1>6. \A p \in Positions : \E a \in Positions : rank[a] = p
  BY <1>5, Fun_SurjectionProperties
<1> DEFINE order == SortOrder(key)
<1>7. ASSUME NEW p \in Positions 
      PROVE  /\ order[p] \in Positions /\ rank[order[p]] = p
             /\ Cardinality(Before(key, order[p])) = p - 1
  <2>1. order[p] = CHOOSE a \in Positions : Cardinality(Before(key, a)) = p - 1
    BY DEF SortOrder
  <2>2. \E a \in Positions : Cardinality(Before(key, a)) = p - 1
    <3>1. PICK a \in Positions : rank[a] = p
      BY <1>6
    <3>2. Cardinality(Before(key, a)) \in Int /\ p \in Int
      BY BeforeIs, SizesAre
    <3> QED BY <1>1, <3>1, <3>2
  <2>3. order[p] \in Positions /\ Cardinality(Before(key, order[p])) = p - 1
    <3> HIDE DEF order
    <3> QED BY <2>1, <2>2
  <2> HIDE DEF order
  <2> QED BY <1>1, <2>3, SizesAre
<1>8. order = [p \in Positions |-> order[p]]
  BY DEF SortOrder
<1> HIDE DEF order
<1>9. order \in [Positions -> Positions]
  BY <1>7, <1>8
<1>10. ASSUME NEW a \in Positions PROVE \E p \in Positions : order[p] = a
  <2>1. rank[a] \in Positions
    BY <1>1
  <2>2. order[rank[a]] = a
    BY <1>2, <1>7, <2>1
  <2> QED BY <2>1, <2>2
<1> QED BY <1>7, <1>9, <1>10 DEF order

-----------------------------------------------------------------------------
(* Both shuffles only rearrange the deck.                                  *)

LEMMA VecOf ==
    ASSUME NEW n \in Nat, NEW f, f = [i \in 1..n |-> f[i]]
    PROVE  Vec(f) = f /\ Len(f) = n
<1>1. f \in [1..n -> {f[i] : i \in 1..n}]
  OBVIOUS
<1> QED BY <1>1, VecIs

Onto(g) ==
    /\ g \in [Positions -> Positions]
    /\ \A i \in Positions : \E p \in Positions : g[p] = i

Rearranged(cts, out) ==
    \E g : Onto(g) /\ out = [p \in Positions |-> cts[g[p]]]

LEMMA SqueezedIsInt ==
    ASSUME NEW seed \in Nat \X Nat, NEW k \in Nat
    PROVE  Squeezed(seed, k) \in Int
<1> DEFINE f == [i \in 1..1 |-> (seed[1] * (k + i) + seed[2]) % P]
<1>1. seed[1] * (k + 1) + seed[2] \in Int
  <2>1. PICK a \in Nat, b \in Nat : a = seed[1] /\ b = seed[2]
    OBVIOUS
  <2>2. a * (k + 1) + b \in Int
    OBVIOUS
  <2> QED BY <2>1, <2>2
<1>2. (seed[1] * (k + 1) + seed[2]) % P \in Int
  <2>1. PICK x \in Int : x = seed[1] * (k + 1) + seed[2]
    BY <1>1
  <2>2. x % P \in Int
    BY SizesAre
  <2> QED BY <2>1, <2>2
<1>3. f[1] = (seed[1] * (k + 1) + seed[2]) % P
  OBVIOUS
<1>4. Vec(f) = f
  <2>1. f = [i \in 1..1 |-> f[i]]
    OBVIOUS
  <2> HIDE DEF f
  <2> QED BY <2>1, VecOf
<1>5. Squeezed(seed, k) = f[1]
  BY <1>4 DEF Squeezed, Challenges
<1> QED BY <1>2, <1>3, <1>5

LEMMA RandomValuesAre ==
    ASSUME NEW seed \in Nat \X Nat
    PROVE  GenerateRandomValues(seed, N) \in [Positions -> Int]
<1> DEFINE f == [k \in 1..N |-> Squeezed(seed, k)]
<1>1. f \in [1..N -> Int]
  BY SizesAre, SqueezedIsInt
<1> HIDE DEF f
<1>2. Vec(f) = f
  BY <1>1, SizesAre, VecIs
<1>3. GenerateRandomValues(seed, N) = f
  BY <1>2 DEF GenerateRandomValues, f
<1> QED BY <1>1, <1>3, SizesAre

LEMMA SortRearranges ==
    ASSUME NEW cts, NEW values \in [Positions -> Int]
    PROVE  Rearranged(cts, SortByValue(cts, values))
<1> DEFINE g == SortOrder(values)
           f == [p \in Positions |-> cts[g[p]]]
<1>1. Onto(g)
  <2> HIDE DEF g
  <2> QED BY SortOrderIs DEF g, Onto
<1>2. Vec(f) = f
  <2>1. f = [p \in 1..N |-> f[p]]
    BY SizesAre
  <2> HIDE DEF f
  <2> QED BY <2>1, SizesAre, VecOf
<1>3. SortByValue(cts, values) = f
  BY <1>2 DEF SortByValue
<1> HIDE DEF g
<1> QED BY <1>1, <1>3 DEF Rearranged

-----------------------------------------------------------------------------
(* A level of the Rao-Sandelius shuffle keeps every row, whatever its       *)
(* counters are: the rows of the next level are sorted by next_pos.         *)

LEMMA RunStartIs ==
    ASSUME NEW rows, NEW i \in Positions
    PROVE  /\ RunStart(rows, i) \in 1..i
           /\ \A j \in RunStart(rows, i)..i : rows[j].bucket = rows[i].bucket
           /\ RunStart(rows, i) > 1 => rows[RunStart(rows, i) - 1].bucket # rows[i].bucket
<1> DEFINE T == {k \in 1..i : \A j \in k..i : rows[j].bucket = rows[i].bucket}
<1>1. T \in SUBSET Nat /\ i \in T
  BY SizesAre
<1>2. PICK k \in T : \A j \in T : k <= j
  <2> HIDE DEF T
  <2> QED BY <1>1, LeastNat
<1>3. k > 1 => rows[k - 1].bucket # rows[i].bucket
  <2> SUFFICES ASSUME k > 1, rows[k - 1].bucket = rows[i].bucket PROVE FALSE
    OBVIOUS
  <2>1. k \in Nat /\ k - 1 \in 1..i /\ i \in Nat
    BY SizesAre
  <2>2. \A j \in (k - 1)..i : rows[j].bucket = rows[i].bucket
    <3>1. ASSUME NEW j \in (k - 1)..i PROVE rows[j].bucket = rows[i].bucket
      <4>1. j = k - 1 \/ j \in k..i
        BY <2>1
      <4> QED BY <4>1
    <3> QED BY <3>1
  <2>3. k - 1 \in T
    BY <2>1, <2>2
  <2>4. k <= k - 1
    BY <1>2, <2>3
  <2> QED BY <2>1, <2>4
<1> DEFINE Starts(m) == /\ \A j \in m..i : rows[j].bucket = rows[i].bucket
                        /\ m > 1 => rows[m - 1].bucket # rows[i].bucket
<1>4. \E m \in 1..i : Starts(m)
  BY <1>3
<1>5. RunStart(rows, i) = CHOOSE m \in 1..i : Starts(m)
  BY DEF RunStart
<1>6. RunStart(rows, i) \in 1..i /\ Starts(RunStart(rows, i))
  <2> HIDE DEF Starts
  <2> QED BY <1>4, <1>5
<1> QED BY <1>6

LEMMA CountIs == \A a, b \in Int : \A S \in SUBSET (a..b) : Count(S) \in Int
<1> SUFFICES ASSUME NEW a \in Int, NEW b \in Int, NEW S \in SUBSET (a..b)
             PROVE  Count(S) \in Int
  OBVIOUS
<1>1. IsFiniteSet(S)
  BY FS_Interval, FS_Subset
<1> QED BY <1>1, FS_CardinalityType DEF Count

LEMMA UnsortedRowIs ==
    ASSUME NEW rows, NEW bits, NEW i \in Positions
    PROVE  /\ UnsortedRow(rows, bits, i).idx = rows[i].idx
           /\ UnsortedRow(rows, bits, i).next_pos \in Int
<1> DEFINE inBucket == {k \in Positions : rows[k].bucket = rows[i].bucket}
           before == RunStart(rows, i)..(i - 1)
           least == CHOOSE k \in inBucket : \A j \in inBucket : k <= j
           numZeros == Count({k \in before : ~bits[k]})
           numOnes == Count({k \in before : bits[k]})
           zeros == Count({k \in inBucket : ~bits[k]})
<1>1. least \in Int
  <2>1. inBucket \in SUBSET Nat /\ i \in inBucket
    BY SizesAre
  <2> HIDE DEF inBucket
  <2> DEFINE IsLeast(k) == \A j \in inBucket : k <= j
  <2>2. \E k \in inBucket : IsLeast(k)
    BY <2>1, LeastNat
  <2>3. least \in inBucket
    <3>1. least = CHOOSE k \in inBucket : IsLeast(k)
      OBVIOUS
    <3> HIDE DEF least, IsLeast
    <3> QED BY <2>2, <3>1
  <2> HIDE DEF least
  <2> QED BY <2>1, <2>3
<1>2. numZeros \in Int /\ numOnes \in Int
  <2>1. RunStart(rows, i) \in Int /\ i - 1 \in Int
    BY RunStartIs, SizesAre
  <2>2. {k \in before : ~bits[k]} \in SUBSET before /\ {k \in before : bits[k]} \in SUBSET before
    OBVIOUS
  <2>3. \A S \in SUBSET before : Count(S) \in Int
    BY <2>1, CountIs
  <2> HIDE DEF before
  <2> QED BY <2>2, <2>3
<1>3. zeros \in Int
  <2>1. {k \in inBucket : ~bits[k]} \in SUBSET (1..N)
    BY SizesAre
  <2>2. \A S \in SUBSET (1..N) : Count(S) \in Int
    <3>1. 1 \in Int /\ N \in Int
      BY SizesAre
    <3> QED BY <3>1, CountIs
  <2> HIDE DEF inBucket
  <2> QED BY <2>1, <2>2
<1>4. UnsortedRow(rows, bits, i).next_pos
        = (least - 1) + (IF bits[i] THEN zeros + numOnes ELSE numZeros)
  BY DEF UnsortedRow
<1>5. UnsortedRow(rows, bits, i).idx = rows[i].idx
  BY DEF UnsortedRow
<1> HIDE DEF least, zeros, numOnes, numZeros
<1> QED BY <1>1, <1>2, <1>3, <1>4, <1>5

\* Every index of the deck is in some row.
RowsRight(rows) ==
    /\ \A p \in Positions : rows[p].idx \in 0..(N - 1)
    /\ \A x \in 0..(N - 1) : \E p \in Positions : rows[p].idx = x

LEMMA InitialRowsRight == RowsRight(InitialRows)
<1> DEFINE f == [i \in Positions |-> SortedRow(i - 1, N, 0)]
<1>1. Vec(f) = f
  <2>1. f = [i \in 1..N |-> f[i]]
    BY SizesAre
  <2> HIDE DEF f
  <2> QED BY <2>1, SizesAre, VecOf
<1>2. \A p \in Positions : InitialRows[p].idx = p - 1
  BY <1>1 DEF InitialRows, SortedRow
<1>3. \A x \in 0..(N - 1) : x + 1 \in Positions /\ (x + 1) - 1 = x
  BY SizesAre
<1>4. \A p \in Positions : p - 1 \in 0..(N - 1)
  BY SizesAre
<1> QED BY <1>2, <1>3, <1>4 DEF RowsRight

LEMMA LevelKeepsRows ==
    ASSUME NEW rows, NEW bits, RowsRight(rows)
    PROVE  RowsRight(BuildLevel(rows, bits).next)
<1> DEFINE uns == [i \in Positions |-> UnsortedRow(rows, bits, i)]
           key == [a \in Positions |-> uns[a].next_pos]
           order == SortOrder(key)
           next == [p \in Positions |->
                      LET u == uns[order[p]]
                      IN SortedRow(u.idx,
                           IF u.bit THEN u.bucket_length - u.total_zeros ELSE u.total_zeros,
                           2 * u.bucket_id + (IF u.bit THEN 1 ELSE 0))]
<1>1. Vec(uns) = uns
  <2>1. uns = [i \in 1..N |-> uns[i]]
    BY SizesAre
  <2> HIDE DEF uns
  <2> QED BY <2>1, SizesAre, VecOf
<1>2. \A i \in Positions : uns[i].idx = rows[i].idx /\ uns[i].next_pos \in Int
  BY UnsortedRowIs
<1> HIDE DEF uns
<1>3. key \in [Positions -> Int]
  BY <1>2
<1> HIDE DEF key
<1>4. order \in [Positions -> Positions] /\ \A a \in Positions : \E p \in Positions : order[p] = a
  BY <1>3, SortOrderIs
<1> HIDE DEF order
<1>5. Vec(next) = next
  <2>1. next = [p \in 1..N |-> next[p]]
    BY SizesAre
  <2> HIDE DEF next
  <2> QED BY <2>1, SizesAre, VecOf
<1>6. BuildLevel(rows, bits).next = next
  <2>1. BuildLevel(rows, bits).next = NextRows(uns)
    BY <1>1 DEF BuildLevel, uns
  <2>2. NextRows(uns) = Vec(next)
    BY DEF NextRows, order, key
  <2> QED BY <1>5, <2>1, <2>2
<1>7. \A p \in Positions : next[p].idx = rows[order[p]].idx
  BY <1>2, <1>4 DEF SortedRow
<1> HIDE DEF next
<1> QED BY <1>4, <1>6, <1>7 DEF RowsRight

-----------------------------------------------------------------------------
(* Products in the field.                                                  *)

LEMMA FieldResidueIs ==
    \A x \in Int : x % P \in Fe /\ x \div P \in Int /\ x = (x % P) + (x \div P) * P
  BY SizesAre DEF Fe

LEMMA FieldTimes ==
    ASSUME NEW x \in Int, NEW y \in Int
    PROVE  ((x % P) * y) % P = (x * y) % P
<1>1. PICK r \in Fe, a \in Int : r = x % P /\ x = r + a * P
  BY FieldResidueIs
<1>2. r \in Int
  BY <1>1, SizesAre DEF Fe
<1>3. x * y = r * y + (a * y) * P
  BY <1>1, <1>2, SizesAre
<1>4. PICK xy \in Int, ry \in Int, k \in Int : xy = x * y /\ ry = r * y /\ k = a * y
  BY <1>1, <1>2
<1>5. xy = ry + k * P
  BY <1>3, <1>4
<1>6. P \in Nat \ {0}
  BY SizesAre
<1>7. xy % P = ry % P
  BY <1>5, <1>6, SameRemainder
<1> QED BY <1>1, <1>4, <1>7

\* t holds the products of the beginnings of v.
ProductSteps(v, n, t) ==
    /\ t[0] = 1
    /\ \A i \in 1..n : t[i] = (t[i - 1] * v[i]) % P

LEMMA ProductIs ==
    ASSUME NEW v, NEW n \in Nat, DOMAIN v = 1..n
    PROVE  \E t : ProductSteps(v, n, t) /\ Product(v) = t[n]
<1> DEFINE Upto(k, t) == t = [i \in 0..k |-> IF i = 0 THEN 1 ELSE (t[i - 1] * v[i]) % P]
           S == {k \in Nat : \E t : Upto(k, t)}
<1>1. 0 \in S
  <2>1. Upto(0, [i \in 0..0 |-> 1])
    OBVIOUS
  <2> QED BY <2>1
<1>2. ASSUME NEW k \in Nat, k \in S PROVE k + 1 \in S
  <2>1. PICK t : Upto(k, t)
    BY <1>2
  <2> DEFINE u == [i \in 0..(k + 1) |-> IF i = k + 1 THEN (t[k] * v[k + 1]) % P ELSE t[i]]
  <2>2. ASSUME NEW i \in 0..(k + 1)
        PROVE  u[i] = IF i = 0 THEN 1 ELSE (u[i - 1] * v[i]) % P
    <3>1. CASE i = k + 1
      <4>1. u[i] = (t[k] * v[i]) % P /\ i - 1 = k /\ k \in 0..(k + 1) /\ k # k + 1 /\ i # 0
        BY <3>1
      <4>2. u[i - 1] = t[k]
        BY <4>1
      <4> HIDE DEF u
      <4> QED BY <4>1, <4>2
    <3>2. CASE i # k + 1 /\ i # 0
      <4>1. i \in 0..k /\ i - 1 \in 0..(k + 1) /\ i - 1 # k + 1
        BY <3>2
      <4>2. u[i] = t[i] /\ u[i - 1] = t[i - 1]
        BY <3>2, <4>1
      <4>3. t[i] = (t[i - 1] * v[i]) % P
        BY <2>1, <3>2, <4>1, Zenon
      <4> QED BY <3>2, <4>2, <4>3
    <3>3. CASE i = 0
      BY <2>1, <3>3
    <3> QED BY <3>1, <3>2, <3>3
  <2>3. Upto(k + 1, u)
    <3> DEFINE w == [i \in 0..(k + 1) |-> IF i = 0 THEN 1 ELSE (u[i - 1] * v[i]) % P]
    <3>1. u = [i \in 0..(k + 1) |-> u[i]] /\ w = [i \in 0..(k + 1) |-> w[i]]
      OBVIOUS
    <3>2. \A i \in 0..(k + 1) : u[i] = w[i]
      BY <2>2
    <3> HIDE DEF u
    <3>3. u = w
      <4> HIDE DEF w
      <4> QED BY <3>1, <3>2
    <3> QED BY <3>3, Zenon
  <2> HIDE DEF u, Upto
  <2> QED BY <2>3
<1> HIDE DEF S
<1>3. n \in S
  BY <1>1, <1>2, SetInduction
<1>4. Size(v) = n
  <2>1. Cardinality(1..n) = n
    BY FS_Interval
  <2> QED BY <2>1 DEF Size
<1> DEFINE p == CHOOSE t : Upto(n, t)
<1>5. Product(v) = p[n]
  BY <1>4 DEF Product
<1>6. Upto(n, p)
  <2>1. \E t : Upto(n, t)
    BY <1>3 DEF S
  <2> HIDE DEF Upto
  <2> QED BY <2>1
<1> HIDE DEF p
<1>7. ASSUME NEW i \in 0..n PROVE p[i] = IF i = 0 THEN 1 ELSE (p[i - 1] * v[i]) % P
  BY <1>6, Zenon
<1>8. p[0] = 1
  BY <1>7
<1>9. ASSUME NEW i \in 1..n PROVE p[i] = (p[i - 1] * v[i]) % P
  <2>1. i \in 0..n /\ i # 0
    OBVIOUS
  <2> QED BY <1>7, <2>1
<1> HIDE DEF Upto
<1> QED BY <1>5, <1>8, <1>9 DEF ProductSteps

LEMMA ProductsAreInts ==
    ASSUME NEW v, NEW n \in Nat, NEW t, ProductSteps(v, n, t), \A i \in 1..n : v[i] \in Int
    PROVE  \A k \in 0..n : t[k] \in Int
<1> DEFINE S == {k \in Nat : k <= n => t[k] \in Int}
<1>1. 0 \in S
  BY DEF ProductSteps
<1>2. ASSUME NEW k \in Nat, k \in S PROVE k + 1 \in S
  <2> SUFFICES ASSUME k + 1 <= n PROVE t[k + 1] \in Int
    OBVIOUS
  <2>1. k + 1 \in 1..n /\ (k + 1) - 1 = k
    OBVIOUS
  <2>2. t[k + 1] = (t[k] * v[k + 1]) % P
    BY <2>1 DEF ProductSteps
  <2>3. PICK a \in Int : a = t[k] * v[k + 1]
    BY <1>2, <2>1
  <2>4. a % P \in Int
    BY SizesAre
  <2> QED BY <2>2, <2>3, <2>4
<1> HIDE DEF S
<1>3. \A k \in Nat : k \in S
  BY <1>1, <1>2, SetInduction
<1> QED BY <1>3 DEF S

\* A factor may be moved to the end.
Without(y, z, n, j) ==
    /\ n \in Nat /\ j \in 1..(n + 1)
    /\ DOMAIN y = 1..(n + 1) /\ DOMAIN z = 1..n
    /\ \A i \in 1..(n + 1) : y[i] \in Int
    /\ \A i \in 1..n : z[i] = IF i < j THEN y[i] ELSE y[i + 1]

LEMMA MovedFactor ==
    ASSUME NEW y, NEW z, NEW n, NEW j, Without(y, z, n, j)
    PROVE  Product(y) = (Product(z) * y[j]) % P
<1>0. /\ n \in Nat /\ n + 1 \in Nat /\ j \in 1..(n + 1)
      /\ DOMAIN y = 1..(n + 1) /\ DOMAIN z = 1..n
      /\ \A i \in 1..(n + 1) : y[i] \in Int
      /\ \A i \in 1..n : z[i] = IF i < j THEN y[i] ELSE y[i + 1]
  BY DEF Without
<1>1. PICK t : ProductSteps(y, n + 1, t) /\ Product(y) = t[n + 1]
  BY <1>0, ProductIs
<1>2. PICK u : ProductSteps(z, n, u) /\ Product(z) = u[n]
  BY <1>0, ProductIs
<1>3. \A i \in 1..n : z[i] \in Int
  BY <1>0
<1>4. \A k \in 0..n : u[k] \in Int
  BY <1>0, <1>2, <1>3, ProductsAreInts
<1>5. /\ t[0] = 1 /\ \A i \in 1..(n + 1) : t[i] = (t[i - 1] * y[i]) % P
      /\ u[0] = 1 /\ \A i \in 1..n : u[i] = (u[i - 1] * z[i]) % P
  BY <1>1, <1>2 DEF ProductSteps
<1> DEFINE Same(k) == k < j => t[k] = u[k]
           Moved(k) == k >= j - 1 => t[k + 1] = (u[k] * y[j]) % P
           S == {k \in Nat : k <= n => Same(k) /\ Moved(k)}
<1>6. 0 \in S
  <2>1. j = 1 => t[1] = (t[0] * y[1]) % P
    BY <1>0, <1>5
  <2> QED BY <1>0, <1>5, <2>1
<1>7. ASSUME NEW k \in Nat, k \in S PROVE k + 1 \in S
  <2> SUFFICES ASSUME k + 1 <= n PROVE Same(k + 1) /\ Moved(k + 1)
    OBVIOUS
  <2>1. /\ k + 1 \in 1..n /\ (k + 1) - 1 = k /\ k \in 0..n /\ k + 1 \in 1..(n + 1)
        /\ (k + 1) + 1 \in 1..(n + 1) /\ ((k + 1) + 1) - 1 = k + 1
    BY <1>0
  <2>2. /\ t[k + 1] = (t[k] * y[k + 1]) % P
        /\ u[k + 1] = (u[k] * z[k + 1]) % P
        /\ t[(k + 1) + 1] = (t[k + 1] * y[(k + 1) + 1]) % P
    BY <1>5, <2>1
  <2>3. Same(k) /\ Moved(k)
    BY <1>7, <2>1
  <2>4. Same(k + 1)
    <3> SUFFICES ASSUME k + 1 < j PROVE t[k + 1] = u[k + 1]
      OBVIOUS
    <3>1. z[k + 1] = y[k + 1] /\ k < j
      BY <1>0, <2>1
    <3> QED BY <2>2, <2>3, <3>1
  <2>5. Moved(k + 1)
    <3> SUFFICES ASSUME k + 1 >= j - 1 PROVE t[(k + 1) + 1] = (u[k + 1] * y[j]) % P
      OBVIOUS
    <3>1. CASE k + 1 = j - 1
      <4>1. (k + 1) + 1 = j /\ k + 1 < j
        BY <1>0, <3>1
      <4>2. t[k + 1] = u[k + 1]
        BY <2>4, <4>1
      <4> QED BY <2>2, <4>1, <4>2
    <3>2. CASE k >= j - 1
      <4>1. z[k + 1] = y[(k + 1) + 1] /\ y[(k + 1) + 1] \in Int /\ y[j] \in Int /\ u[k] \in Int
        BY <1>0, <1>4, <2>1, <3>2
      <4>2. PICK a \in Int, b \in Int, c \in Int : a = u[k] /\ b = y[j] /\ c = y[(k + 1) + 1]
        BY <4>1
      <4>3. t[(k + 1) + 1] = (((a * b) % P) * c) % P
        BY <2>2, <2>3, <3>2, <4>2
      <4>4. u[k + 1] = (a * c) % P
        BY <2>2, <4>1, <4>2
      <4>5. a * b \in Int /\ a * c \in Int /\ (a * b) * c = (a * c) * b
        OBVIOUS
      <4>6. (((a * b) % P) * c) % P = ((a * b) * c) % P /\ (((a * c) % P) * b) % P = ((a * c) * b) % P
        BY <4>5, FieldTimes
      <4> QED BY <4>2, <4>3, <4>4, <4>5, <4>6
    <3> QED BY <1>0, <3>1, <3>2
  <2> QED BY <2>4, <2>5
<1> HIDE DEF S
<1>8. n \in S
  BY <1>0, <1>6, <1>7, SetInduction
<1>9. t[n + 1] = (u[n] * y[j]) % P
  BY <1>0, <1>8 DEF S
<1> QED BY <1>1, <1>2, <1>9

Perms(m) ==
    {f \in [1..m -> 1..m] : /\ \A a, b \in 1..m : f[a] = f[b] => a = b
                            /\ \A k \in 1..m : \E a \in 1..m : f[a] = k}

Through(x, f, m) == [i \in 1..m |-> x[f[i]]]

\* Products do not depend on the order of their factors.
LEMMA ReorderedProduct ==
    ASSUME NEW n \in Nat, NEW x \in [1..n -> Int], NEW f \in Perms(n)
    PROVE  Product(Through(x, f, n)) = Product(x)
<1> DEFINE Keeps(m) == \A v \in [1..m -> Int] : \A h \in Perms(m) :
                         Product(Through(v, h, m)) = Product(v)
           S == {m \in Nat : Keeps(m)}
<1>1. 0 \in S
  <2> SUFFICES ASSUME NEW v \in [1..0 -> Int], NEW h \in Perms(0)
               PROVE  Product(Through(v, h, 0)) = Product(v)
    OBVIOUS
  <2>1. Through(v, h, 0) = v
    BY DEF Through
  <2> QED BY <2>1
<1>2. ASSUME NEW m \in Nat, m \in S PROVE m + 1 \in S
  <2> SUFFICES ASSUME NEW v \in [1..(m + 1) -> Int], NEW h \in Perms(m + 1)
               PROVE  Product(Through(v, h, m + 1)) = Product(v)
    BY <1>2
  <2> DEFINE M == m + 1
  <2>1. /\ h \in [1..M -> 1..M]
        /\ \A a, b \in 1..M : h[a] = h[b] => a = b
        /\ \A k \in 1..M : \E a \in 1..M : h[a] = k
    BY DEF Perms
  <2>2. PICK j \in 1..M : h[j] = M
    BY <2>1
  <2> DEFINE skip == [i \in 1..m |-> IF i < j THEN i ELSE i + 1]
             g == [i \in 1..m |-> h[skip[i]]]
             y == Through(v, h, M)
             w == [i \in 1..m |-> v[i]]
             z == Through(w, g, m)
  <2>3. \A i \in 1..m : /\ skip[i] \in 1..M /\ skip[i] # j
                        /\ skip[i] = IF i < j THEN i ELSE i + 1
    OBVIOUS
  <2> HIDE DEF skip
  <2>4. \A i \in 1..m : g[i] = h[skip[i]] /\ g[i] \in 1..m
    <3> SUFFICES ASSUME NEW i \in 1..m PROVE h[skip[i]] \in 1..m
      OBVIOUS
    <3>1. PICK s \in 1..M : s = skip[i] /\ s # j
      BY <2>3
    <3>2. PICK c \in 1..M : c = h[s] /\ c # M
      <4> HIDE DEF M
      <4>1. h[s] # h[j]
        BY <2>1, <3>1
      <4>2. h[s] \in 1..M
        BY <2>1, <3>1
      <4> QED BY <2>2, <4>1, <4>2
    <3>3. h[s] \in 1..m
      <4>1. c \in 1..m
        BY <3>2
      <4> QED BY <3>2, <4>1
    <3>4. h[skip[i]] = h[s]
      BY <3>1
    <3> HIDE DEF M
    <3> QED BY <3>3, <3>4, Zenon
  <2>5. g \in Perms(m)
    <3>1. ASSUME NEW a \in 1..m, NEW b \in 1..m, g[a] = g[b] PROVE a = b
      <4>1. skip[a] = skip[b]
        <5> HIDE DEF g
        <5>1. PICK s \in 1..M, r \in 1..M : s = skip[a] /\ r = skip[b]
          BY <2>3
        <5>2. h[s] = h[r]
          BY <2>4, <3>1, <5>1
        <5>3. s = r
          BY <2>1, <5>2
        <5> QED BY <5>1, <5>3
      <4> QED BY <2>3, <4>1
    <3>2. ASSUME NEW k \in 1..m PROVE \E a \in 1..m : g[a] = k
      <4>1. PICK a \in 1..M : h[a] = k
        BY <2>1
      <4>2. a # j
        BY <2>2, <4>1
      <4>3. CASE a < j
        <5>1. a \in 1..m /\ skip[a] = a
          BY <2>3, <4>3
        <5> QED BY <2>4, <4>1, <5>1
      <4>4. CASE a > j
        <5>1. a - 1 \in 1..m /\ skip[a - 1] = a
          BY <2>3, <4>4
        <5> QED BY <2>4, <4>1, <5>1
      <4> QED BY <4>2, <4>3, <4>4
    <3>3. g \in [1..m -> 1..m]
      BY <2>4
    <3> HIDE DEF g
    <3> QED BY <3>1, <3>2, <3>3 DEF Perms
  <2>6. w \in [1..m -> Int] /\ \A i \in 1..m : w[i] = v[i]
    OBVIOUS
  <2>7. DOMAIN y = 1..M /\ \A i \in 1..M : y[i] = v[h[i]] /\ y[i] \in Int
    BY <2>1 DEF Through
  <2>8. DOMAIN z = 1..m /\ \A i \in 1..m : z[i] = v[g[i]]
    <3> HIDE DEF g, w
    <3> QED BY <2>4, <2>6 DEF Through
  <2>9. \A i \in 1..m : z[i] = IF i < j THEN y[i] ELSE y[i + 1]
    <3> HIDE DEF g, y, z
    <3>1. ASSUME NEW i \in 1..m PROVE z[i] = y[skip[i]]
      <4>1. z[i] = v[g[i]] /\ g[i] = h[skip[i]]
        BY <2>4, <2>8
      <4>2. y[skip[i]] = v[h[skip[i]]]
        BY <2>3, <2>7
      <4> QED BY <4>1, <4>2
    <3> QED BY <2>3, <3>1
  <2>10. Product(y) = (Product(z) * y[j]) % P
    <3> HIDE DEF y, z
    <3>1. Without(y, z, m, j)
      BY <2>2, <2>7, <2>8, <2>9 DEF Without
    <3> QED BY <3>1, MovedFactor
  <2>11. Product(v) = (Product(w) * v[M]) % P
    <3>1. DOMAIN v = 1..(m + 1) /\ DOMAIN w = 1..m /\ M \in 1..(m + 1)
      OBVIOUS
    <3>2. \A i \in 1..m : w[i] = IF i < M THEN v[i] ELSE v[i + 1]
      OBVIOUS
    <3> HIDE DEF w
    <3>3. Without(v, w, m, M)
      BY <3>1, <3>2 DEF Without
    <3> QED BY <3>3, MovedFactor
  <2>12. Product(z) = Product(w)
    <3>1. Keeps(m)
      BY <1>2
    <3> HIDE DEF g, w
    <3> QED BY <2>5, <2>6, <3>1
  <2>13. y[j] = v[M]
    <3> HIDE DEF y
    <3> QED BY <2>2, <2>7
  <2> HIDE DEF y, z, w
  <2>14. Product(y) = Product(v)
    BY <2>10, <2>11, <2>12, <2>13
  <2> QED BY <2>14 DEF y
<1> HIDE DEF Keeps
<1>3. n \in S
  <2> HIDE DEF S
  <2> QED BY <1>1, <1>2, SetInduction
<1>4. Keeps(n)
  BY <1>3
<1> QED BY <1>4 DEF Keeps

-----------------------------------------------------------------------------
(* The rows of a level.                                                    *)

\* Buckets do not descend, so that each is an interval of positions.
BucketsRise(rows) ==
    /\ \A i \in Positions : rows[i].bucket \in Nat
    /\ \A i, j \in Positions : i <= j => rows[i].bucket <= rows[j].bucket

Bucket(rows, i) == {k \in Positions : rows[k].bucket = rows[i].bucket}
ZeroRows(bits) == {k \in Positions : ~bits[k]}
Bit(bits, i) == IF bits[i] THEN 1 ELSE 0

\* What build_level sorts a level by, in effect.
SideKey(rows, bits) == [k \in Positions |-> 2 * rows[k].bucket + Bit(bits, k)]

LEMMA BitIs ==
    ASSUME NEW bits, NEW i \in Positions
    PROVE  Bit(bits, i) = IF i \in ZeroRows(bits) THEN 0 ELSE 1
<1>1. CASE bits[i]
  BY <1>1 DEF Bit, ZeroRows
<1>2. CASE ~bits[i]
  BY <1>2 DEF Bit, ZeroRows
<1> QED BY <1>1, <1>2

\* The run of a position is the beginning of its bucket.
LEMMA BucketIs ==
    ASSUME NEW rows, NEW i \in Positions, BucketsRise(rows)
    PROVE  LET s == RunStart(rows, i)
           IN /\ s \in 1..i
              /\ \A k \in Positions : k < s => rows[k].bucket < rows[i].bucket
              /\ \A k \in Positions : s <= k => rows[i].bucket <= rows[k].bucket
              /\ \A k \in s..i : k \in Bucket(rows, i)
              /\ \A k \in Bucket(rows, i) : s <= k
<1> DEFINE s == RunStart(rows, i)
<1>1. /\ s \in 1..i
      /\ \A j \in s..i : rows[j].bucket = rows[i].bucket
      /\ s > 1 => rows[s - 1].bucket # rows[i].bucket
  BY RunStartIs
<1> HIDE DEF s
<1>2. /\ i \in Nat /\ i <= N /\ N \in Nat /\ s \in Positions /\ s \in s..i
      /\ Positions = 1..N
  BY <1>1, SizesAre
<1>3. rows[s].bucket = rows[i].bucket
  BY <1>1, <1>2
<1>4. ASSUME NEW k \in Positions, k < s PROVE rows[k].bucket < rows[i].bucket
  <2>1. s - 1 \in Positions /\ k <= s - 1 /\ s - 1 <= i /\ s > 1
    BY <1>1, <1>2, <1>4
  <2>2. rows[k].bucket <= rows[s - 1].bucket /\ rows[s - 1].bucket <= rows[i].bucket
    BY <2>1 DEF BucketsRise
  <2>3. rows[k].bucket \in Nat /\ rows[s - 1].bucket \in Nat /\ rows[i].bucket \in Nat
    BY <2>1 DEF BucketsRise
  <2>4. rows[s - 1].bucket # rows[i].bucket
    BY <1>1, <2>1
  <2> QED BY <2>2, <2>3, <2>4
<1>5. ASSUME NEW k \in Positions, s <= k PROVE rows[i].bucket <= rows[k].bucket
  BY <1>2, <1>3, <1>5 DEF BucketsRise
<1>6. ASSUME NEW k \in s..i PROVE k \in Bucket(rows, i)
  <2>1. k \in Positions
    BY <1>1, <1>2
  <2> QED BY <1>1, <2>1 DEF Bucket
<1>7. ASSUME NEW k \in Bucket(rows, i) PROVE s <= k
  <2>1. k \in Positions /\ rows[k].bucket = rows[i].bucket /\ rows[i].bucket \in Nat
    BY DEF Bucket, BucketsRise
  <2>2. ~(k < s)
    BY <1>4, <2>1
  <2> QED BY <1>2, <2>1, <2>2
<1>8. /\ s \in 1..i
      /\ \A k \in Positions : k < s => rows[k].bucket < rows[i].bucket
      /\ \A k \in Positions : s <= k => rows[i].bucket <= rows[k].bucket
      /\ \A k \in s..i : k \in Bucket(rows, i)
      /\ \A k \in Bucket(rows, i) : s <= k
  BY <1>1, <1>4, <1>5, <1>6, <1>7
<1> QED BY <1>8 DEF s

\* The counters of a row u, with s where its run starts, Z the rows with bit
\* zero and B its bucket, are numbers of positions.
CountersRight(u, i, s, Z, B) ==
    /\ u.num_zeros = Cardinality((s..(i - 1)) \cap Z)
    /\ u.num_ones = Cardinality((s..(i - 1)) \ Z)
    /\ u.total_zeros = Cardinality(B \cap Z)
    /\ u.bucket_length = Cardinality(B)
    /\ u.next_pos = (s - 1) + (IF i \in Z THEN u.num_zeros ELSE u.total_zeros + u.num_ones)

LEMMA CountersAre ==
    ASSUME NEW rows, NEW bits, NEW i \in Positions, BucketsRise(rows)
    PROVE  /\ UnsortedRow(rows, bits, i).bit = bits[i]
           /\ UnsortedRow(rows, bits, i).bucket_id = rows[i].bucket
           /\ UnsortedRow(rows, bits, i).idx = rows[i].idx
           /\ CountersRight(UnsortedRow(rows, bits, i), i, RunStart(rows, i), ZeroRows(bits),
                            Bucket(rows, i))
<1> DEFINE s == RunStart(rows, i)
           Z == ZeroRows(bits)
           B == Bucket(rows, i)
           inBucket == {k \in Positions : rows[k].bucket = rows[i].bucket}
           least == CHOOSE k \in inBucket : \A j \in inBucket : k <= j
           numZeros == Count({k \in s..(i - 1) : ~bits[k]})
           numOnes == Count({k \in s..(i - 1) : bits[k]})
           zeros == Count({k \in inBucket : ~bits[k]})
           u == UnsortedRow(rows, bits, i)
<1>1. /\ u.bit = bits[i] /\ u.bucket_id = rows[i].bucket /\ u.idx = rows[i].idx
      /\ u.num_zeros = numZeros /\ u.num_ones = numOnes /\ u.total_zeros = zeros
      /\ u.bucket_length = Count(inBucket)
      /\ u.next_pos = (least - 1) + (IF bits[i] THEN zeros + numOnes ELSE numZeros)
  BY DEF UnsortedRow
<1> HIDE DEF u
<1>2. inBucket = B
  BY DEF Bucket
<1>3. /\ s \in 1..i /\ \A k \in s..i : k \in B
      /\ \A k \in B : s <= k
  BY BucketIs
<1> HIDE DEF s
<1>4. \A k \in s..(i - 1) : k \in Positions
  BY <1>3, SizesAre
<1>5. s \in B /\ s \in Int /\ B \in SUBSET Int
  <2>1. s \in s..i
    BY <1>3, SizesAre
  <2> QED BY <1>3, <2>1, SizesAre DEF Bucket
<1>6. least = s
  <2> DEFINE IsLeast(k) == \A j \in inBucket : k <= j
  <2>1. s \in inBucket /\ IsLeast(s)
    BY <1>2, <1>3, <1>5
  <2>2. least = CHOOSE k \in inBucket : IsLeast(k)
    OBVIOUS
  <2>3. least \in inBucket /\ IsLeast(least)
    <3> HIDE DEF least, IsLeast, inBucket
    <3> QED BY <2>1, <2>2
  <2> HIDE DEF least
  <2>4. least \in B /\ least <= s
    BY <1>2, <2>1, <2>3
  <2> HIDE DEF B, inBucket
  <2> QED BY <1>3, <1>5, <2>4
<1>7. /\ {k \in s..(i - 1) : ~bits[k]} = (s..(i - 1)) \cap Z
      /\ {k \in s..(i - 1) : bits[k]} = (s..(i - 1)) \ Z
  BY <1>4 DEF ZeroRows
<1>8. {k \in inBucket : ~bits[k]} = B \cap Z
  BY DEF Bucket, ZeroRows
<1>9. /\ numZeros = Cardinality((s..(i - 1)) \cap Z)
      /\ numOnes = Cardinality((s..(i - 1)) \ Z)
      /\ zeros = Cardinality(B \cap Z)
      /\ Count(inBucket) = Cardinality(B)
  BY <1>2, <1>7, <1>8 DEF Count
<1>10. bits[i] <=> i \notin Z
  BY DEF ZeroRows
<1> HIDE DEF least, numZeros, numOnes, zeros, inBucket, B, Z
<1>11. u.next_pos = (s - 1) + (IF i \in Z THEN u.num_zeros ELSE u.total_zeros + u.num_ones)
  <2>1. CASE bits[i]
    BY <1>1, <1>6, <1>10, <2>1
  <2>2. CASE ~bits[i]
    BY <1>1, <1>6, <1>10, <2>2
  <2> QED BY <2>1, <2>2
<1>12. /\ u.bit = bits[i] /\ u.bucket_id = rows[i].bucket /\ u.idx = rows[i].idx
       /\ u.num_zeros = Cardinality((s..(i - 1)) \cap Z)
       /\ u.num_ones = Cardinality((s..(i - 1)) \ Z)
       /\ u.total_zeros = Cardinality(B \cap Z)
       /\ u.bucket_length = Cardinality(B)
  BY <1>1, <1>9
<1>13. CountersRight(u, i, s, Z, B)
  BY <1>11, <1>12 DEF CountersRight
<1> QED BY <1>12, <1>13 DEF u, s, Z, B

LEMMA SplitSize ==
    ASSUME NEW A, NEW Z, IsFiniteSet(A)
    PROVE  /\ IsFiniteSet(A \cap Z) /\ IsFiniteSet(A \ Z)
           /\ Cardinality(A \cap Z) \in Nat /\ Cardinality(A \ Z) \in Nat /\ Cardinality(A) \in Nat
           /\ Cardinality(A) = Cardinality(A \cap Z) + Cardinality(A \ Z)
<1> DEFINE X == A \cap Z
           Y == A \ Z
<1>1. X \in SUBSET A /\ Y \in SUBSET A /\ X \cup Y = A /\ X \cap Y = {}
  OBVIOUS
<1> HIDE DEF X, Y
<1>2. IsFiniteSet(X) /\ IsFiniteSet(Y)
  BY <1>1, FS_Subset
<1>3. Cardinality(X) \in Nat /\ Cardinality(Y) \in Nat /\ Cardinality(A) \in Nat
  BY <1>2, FS_CardinalityType
<1>4. Cardinality(A) = Cardinality(X) + Cardinality(Y) - 0
  BY <1>1, <1>2, FS_Union, FS_EmptySet
<1> QED BY <1>2, <1>3, <1>4 DEF X, Y

\* The union of two sets without a common element.
LEMMA JoinSize ==
    ASSUME NEW A, NEW B, IsFiniteSet(A), IsFiniteSet(B), A \cap B = {}
    PROVE  /\ IsFiniteSet(A \cup B)
           /\ Cardinality(A \cup B) = Cardinality(A) + Cardinality(B)
<1>1. Cardinality(A) \in Nat /\ Cardinality(B) \in Nat
  BY FS_CardinalityType
<1>2. Cardinality(A \cup B) = Cardinality(A) + Cardinality(B) - 0
  BY FS_Union, FS_EmptySet
<1>3. IsFiniteSet(A \cup B)
  BY FS_Union
<1> QED BY <1>1, <1>2, <1>3

LEMMA IntervalsAreFinite ==
    ASSUME NEW s \in Nat, NEW i \in Nat, s >= 1, s <= i
    PROVE  /\ IsFiniteSet(s..(i - 1)) /\ Cardinality(s..(i - 1)) = i - s
           /\ IsFiniteSet(1..(s - 1)) /\ Cardinality(1..(s - 1)) = s - 1
           /\ IsFiniteSet(s..i) /\ Cardinality(s..i) = (i - s) + 1
<1>1. \A a, b \in Int : IsFiniteSet(a..b) /\ Cardinality(a..b) = IF a > b THEN 0 ELSE b - a + 1
  BY FS_Interval
<1>2. i - 1 \in Int /\ s - 1 \in Int
  OBVIOUS
<1>3. IsFiniteSet(s..(i - 1)) /\ Cardinality(s..(i - 1)) = IF s > i - 1 THEN 0 ELSE (i - 1) - s + 1
  BY <1>1, <1>2
<1>4. IsFiniteSet(1..(s - 1)) /\ Cardinality(1..(s - 1)) = IF 1 > s - 1 THEN 0 ELSE (s - 1) - 1 + 1
  BY <1>1, <1>2
<1>5. IsFiniteSet(s..i) /\ Cardinality(s..i) = IF s > i THEN 0 ELSE i - s + 1
  BY <1>1
<1>6. Cardinality(s..(i - 1)) = i - s
  BY <1>3
<1>7. Cardinality(1..(s - 1)) = s - 1
  BY <1>4
<1>8. Cardinality(s..i) = (i - s) + 1
  BY <1>5
<1> QED BY <1>3, <1>4, <1>5, <1>6, <1>7, <1>8

LEMMA BucketIsFinite ==
    ASSUME NEW rows, NEW i
    PROVE  IsFiniteSet(Bucket(rows, i)) /\ Cardinality(Bucket(rows, i)) <= N
<1>1. Bucket(rows, i) \in SUBSET Positions
  BY DEF Bucket
<1> QED BY <1>1, PositionsAreFinite, FS_Subset

LEMMA SideKeyIs ==
    ASSUME NEW rows, NEW bits, BucketsRise(rows)
    PROVE  /\ SideKey(rows, bits) \in [Positions -> Int]
           /\ \A k \in Positions : SideKey(rows, bits)[k]
                = 2 * rows[k].bucket + IF k \in ZeroRows(bits) THEN 0 ELSE 1
  BY BitIs DEF BucketsRise, SideKey

\* The target that the counters give is the number of positions before this
\* one in the order of buckets and bits.
LEMMA RankIs ==
    ASSUME NEW rows, NEW bits, NEW i \in Positions, BucketsRise(rows)
    PROVE  UnsortedRow(rows, bits, i).next_pos = Cardinality(Before(SideKey(rows, bits), i))
<1> DEFINE s == RunStart(rows, i)
           Z == ZeroRows(bits)
           B == Bucket(rows, i)
           key == SideKey(rows, bits)
           F == Before(key, i)
           head == 1..(s - 1)
           run == s..(i - 1)
           u == UnsortedRow(rows, bits, i)
<1>1. /\ u.num_zeros = Cardinality(run \cap Z)
      /\ u.num_ones = Cardinality(run \ Z)
      /\ u.total_zeros = Cardinality(B \cap Z)
      /\ u.next_pos = (s - 1) + (IF i \in Z THEN u.num_zeros ELSE u.total_zeros + u.num_ones)
  <2>1. CountersRight(u, i, s, Z, B)
    BY CountersAre
  <2> HIDE DEF u, Z, B, s
  <2> QED BY <2>1 DEF CountersRight
<1>2. /\ s \in 1..i
      /\ \A k \in Positions : k < s => rows[k].bucket < rows[i].bucket
      /\ \A k \in Positions : s <= k => rows[i].bucket <= rows[k].bucket
      /\ \A k \in s..i : k \in B
      /\ \A k \in B : s <= k
  BY BucketIs
<1>3. \A k \in Positions : key[k] = 2 * rows[k].bucket + IF k \in Z THEN 0 ELSE 1
  BY SideKeyIs
<1>4. /\ i \in Nat /\ s \in Nat /\ s >= 1 /\ s <= i /\ i <= N /\ N \in Nat
      /\ Positions = 1..N
  BY <1>2, SizesAre
<1>5. \A k \in Positions : rows[k].bucket \in Nat
  BY DEF BucketsRise
<1>6. \A k : k \in B <=> k \in Positions /\ rows[k].bucket = rows[i].bucket
  BY DEF Bucket
<1>7. \A k : k \in F <=> k \in Positions /\ (key[k] < key[i] \/ (key[k] = key[i] /\ k < i))
  BY DEF Before
<1>8. \A k \in head : k \in Positions /\ k < s
  BY <1>4
<1>9. \A k \in run : k \in Positions /\ k \in B /\ k < i
  BY <1>2, <1>4
<1>10. \A k \in Positions : k < s => k \in head
  BY <1>4
<1>11. \A k \in B : k \in Positions /\ s <= k /\ (k < i => k \in run)
  <2> SUFFICES ASSUME NEW k \in B PROVE k \in Positions /\ s <= k /\ (k < i => k \in run)
    OBVIOUS
  <2>1. k \in Positions /\ s <= k
    BY <1>2, <1>6
  <2> QED BY <1>4, <2>1
<1>12. /\ IsFiniteSet(head) /\ Cardinality(head) = s - 1 /\ IsFiniteSet(run) /\ IsFiniteSet(B)
  BY <1>4, IntervalsAreFinite, BucketIsFinite
<1> HIDE DEF s, Z, B, key, F, u
<1>13. \A k \in Positions :
         \/ rows[k].bucket < rows[i].bucket /\ k < s /\ k \in F
         \/ rows[i].bucket < rows[k].bucket /\ s <= k /\ k \notin F /\ k \notin B
         \/ k \in B /\ s <= k /\ (k \in F <=> \/ k \in Z /\ i \notin Z
                                              \/ k < i /\ (k \in Z <=> i \in Z))
  <2> SUFFICES ASSUME NEW k \in Positions
               PROVE \/ rows[k].bucket < rows[i].bucket /\ k < s /\ k \in F
                     \/ rows[i].bucket < rows[k].bucket /\ s <= k /\ k \notin F /\ k \notin B
                     \/ k \in B /\ s <= k /\ (k \in F <=> \/ k \in Z /\ i \notin Z
                                                          \/ k < i /\ (k \in Z <=> i \in Z))
    OBVIOUS
  <2>1. PICK b \in Nat, c \in Nat : b = rows[k].bucket /\ c = rows[i].bucket
    BY <1>5
  <2>2. key[k] = 2 * b + (IF k \in Z THEN 0 ELSE 1) /\ key[i] = 2 * c + IF i \in Z THEN 0 ELSE 1
    BY <1>3, <2>1
  <2>3. k \in Nat
    BY <1>4
  <2>4. (k < s => b < c) /\ (s <= k => c <= b)
    BY <1>2, <2>1
  <2>5. CASE b < c
    <3>1. key[k] < key[i]
      BY <2>2, <2>5
    <3>2. k < s
      BY <1>4, <2>3, <2>4, <2>5
    <3> QED BY <1>7, <2>1, <2>5, <3>1, <3>2
  <2>6. CASE c < b
    <3>1. ~(key[k] < key[i]) /\ key[k] # key[i]
      BY <2>2, <2>6
    <3>2. s <= k
      BY <1>4, <2>3, <2>4, <2>6
    <3>3. k \notin B
      BY <1>6, <2>1, <2>6
    <3> QED BY <1>7, <2>1, <2>6, <3>1, <3>2, <3>3
  <2>7. CASE b = c
    <3>1. k \in B
      BY <1>6, <2>1, <2>7
    <3>2. key[k] < key[i] <=> k \in Z /\ i \notin Z
      BY <2>2, <2>7
    <3>3. key[k] = key[i] <=> (k \in Z <=> i \in Z)
      BY <2>2, <2>7
    <3>4. s <= k
      BY <1>11, <3>1
    <3> QED BY <1>7, <3>1, <3>2, <3>3, <3>4
  <2> QED BY <2>5, <2>6, <2>7
<1>14. CASE i \in Z
  <2>1. F = head \cup (run \cap Z)
    <3>1. ASSUME NEW k \in F PROVE k \in head \cup (run \cap Z)
      <4>1. k \in Positions
        BY <1>7
      <4>2. k < s \/ (k \in B /\ k < i /\ k \in Z)
        BY <1>13, <1>14, <4>1
      <4> HIDE DEF head, run
      <4> QED BY <1>10, <1>11, <4>1, <4>2
    <3>2. ASSUME NEW k \in head \cup (run \cap Z) PROVE k \in F
      <4>1. CASE k \in head
        <5>1. k \in Positions /\ k < s /\ k \in Nat
          BY <1>4, <1>8, <4>1
        <5>2. ~(s <= k)
          BY <1>4, <5>1
        <5> QED BY <1>13, <5>1, <5>2
      <4>2. CASE k \in run \cap Z
        <5>1. k \in Positions /\ k \in B /\ k < i
          BY <1>9, <4>2
        <5>2. rows[k].bucket = rows[i].bucket /\ rows[k].bucket \in Nat
          BY <1>5, <1>6, <5>1
        <5>3. ~(rows[k].bucket < rows[i].bucket)
          BY <5>2
        <5> QED BY <1>13, <1>14, <4>2, <5>1, <5>3
      <4> HIDE DEF head, run
      <4> QED BY <4>1, <4>2
    <3> HIDE DEF head, run
    <3> QED BY <3>1, <3>2
  <2>2. head \cap (run \cap Z) = {}
    BY <1>4
  <2>3. IsFiniteSet(run \cap Z)
    BY <1>12, SplitSize
  <2>4. Cardinality(F) = (s - 1) + Cardinality(run \cap Z)
    <3> HIDE DEF head, run
    <3> QED BY <1>12, <2>1, <2>2, <2>3, JoinSize
  <2> QED BY <1>1, <1>14, <2>4 DEF u, F, key, Z
<1>15. CASE i \notin Z
  <2> DEFINE T == (B \cap Z) \cup (run \ Z)
  <2>1. F = head \cup T
    <3>1. ASSUME NEW k \in F PROVE k \in head \cup T
      <4>1. k \in Positions
        BY <1>7
      <4>2. k < s \/ (k \in B /\ (k \in Z \/ (k < i /\ k \notin Z)))
        BY <1>13, <1>15, <4>1
      <4> HIDE DEF head, run
      <4> QED BY <1>10, <1>11, <4>1, <4>2
    <3>2. ASSUME NEW k \in head \cup T PROVE k \in F
      <4>1. CASE k \in head
        <5>1. k \in Positions /\ k < s /\ k \in Nat
          BY <1>4, <1>8, <4>1
        <5>2. ~(s <= k)
          BY <1>4, <5>1
        <5> QED BY <1>13, <5>1, <5>2
      <4>2. CASE k \in T
        <5>1. k \in Positions /\ k \in B /\ (k \in Z \/ k < i)
          BY <1>9, <1>11, <4>2
        <5>2. rows[k].bucket = rows[i].bucket /\ rows[k].bucket \in Nat
          BY <1>5, <1>6, <5>1
        <5>3. ~(rows[k].bucket < rows[i].bucket)
          BY <5>2
        <5> QED BY <1>13, <1>15, <5>1, <5>3
      <4> HIDE DEF head, T
      <4> QED BY <4>1, <4>2
    <3> HIDE DEF head, T
    <3> QED BY <3>1, <3>2
  <2>2. head \cap T = {}
    <3>1. \A k \in T : s <= k
      <4> HIDE DEF run
      <4> QED BY <1>9, <1>11
    <3> HIDE DEF T
    <3> QED BY <1>4, <3>1
  <2>3. IsFiniteSet(B \cap Z) /\ IsFiniteSet(run \ Z)
    BY <1>12, SplitSize
  <2>4. (B \cap Z) \cap (run \ Z) = {}
    OBVIOUS
  <2> HIDE DEF head, run
  <2>5. IsFiniteSet(T) /\ Cardinality(T) = Cardinality(B \cap Z) + Cardinality(run \ Z)
    BY <2>3, <2>4, JoinSize
  <2> HIDE DEF T
  <2>6. Cardinality(F) = (s - 1) + Cardinality(T)
    BY <1>12, <2>1, <2>2, <2>5, JoinSize
  <2>7. u.next_pos = Cardinality(F)
    BY <1>1, <1>15, <2>5, <2>6 DEF head, run
  <2> QED BY <2>7 DEF u, F, key
<1> QED BY <1>14, <1>15

LEMMA SmallResidue ==
    ASSUME NEW x \in Nat, x < P
    PROVE  x % P = x
  BY SizesAre

\* The counters are sizes of sets of positions, so that none wraps around.
LEMMA CountersFit ==
    ASSUME NEW rows, NEW bits, NEW i \in Positions, BucketsRise(rows)
    PROVE  LET u == UnsortedRow(rows, bits, i)
               s == RunStart(rows, i)
           IN /\ u.num_zeros \in Nat /\ u.num_ones \in Nat /\ u.total_zeros \in Nat
              /\ u.bucket_length \in Nat /\ u.next_pos \in 0..(N - 1)
              /\ u.num_zeros + u.num_ones = i - s
              /\ i < P
<1> DEFINE s == RunStart(rows, i)
           Z == ZeroRows(bits)
           B == Bucket(rows, i)
           u == UnsortedRow(rows, bits, i)
<1>1. CountersRight(u, i, s, Z, B)
  BY CountersAre
<1>2. s \in 1..i
  BY BucketIs
<1>3. u.next_pos \in 0..(N - 1)
  <2>1. u.next_pos = Cardinality(Before(SideKey(rows, bits), i))
    BY RankIs
  <2>2. SideKey(rows, bits) \in [Positions -> Int]
    BY SideKeyIs
  <2> HIDE DEF u
  <2> QED BY <2>1, <2>2, BeforeIs
<1> HIDE DEF s, Z, B, u
<1>4. /\ i \in Nat /\ i <= N /\ N \in Nat /\ s \in Nat /\ s >= 1 /\ s <= i /\ i < P
  BY <1>2, ShuffleAssumption, SizesAre
<1> DEFINE A == s..(i - 1)
<1>5. IsFiniteSet(A) /\ Cardinality(A) = i - s
  BY <1>4, IntervalsAreFinite
<1>6. IsFiniteSet(B)
  BY BucketIsFinite DEF B
<1> HIDE DEF A
<1>7. /\ Cardinality(A \cap Z) \in Nat /\ Cardinality(A \ Z) \in Nat
      /\ Cardinality(A) = Cardinality(A \cap Z) + Cardinality(A \ Z)
  BY <1>5, SplitSize
<1>8. Cardinality(B \cap Z) \in Nat /\ Cardinality(B) \in Nat
  BY <1>6, SplitSize
<1>9. /\ u.num_zeros = Cardinality(A \cap Z) /\ u.num_ones = Cardinality(A \ Z)
      /\ u.total_zeros = Cardinality(B \cap Z) /\ u.bucket_length = Cardinality(B)
  BY <1>1 DEF CountersRight, A
<1>10. /\ u.num_zeros \in Nat /\ u.num_ones \in Nat /\ u.total_zeros \in Nat
       /\ u.bucket_length \in Nat /\ u.next_pos \in 0..(N - 1)
       /\ u.num_zeros + u.num_ones = i - s
  BY <1>3, <1>5, <1>7, <1>8, <1>9
<1> QED BY <1>4, <1>10 DEF u, s

\* One position more in the run.
Advances(s, i, Z) ==
    /\ Cardinality((s..i) \cap Z)
         = (Cardinality((s..(i - 1)) \cap Z) + 1) - (IF i \in Z THEN 0 ELSE 1)
    /\ Cardinality((s..i) \ Z)
         = Cardinality((s..(i - 1)) \ Z) + (IF i \in Z THEN 0 ELSE 1)

LEMMA CountersAdvance ==
    ASSUME NEW s \in Nat, NEW i \in Nat, NEW Z, s >= 1, s <= i
    PROVE  Advances(s, i, Z)
<1> DEFINE A == s..(i - 1)
           C == s..i
<1>1. C = A \cup {i} /\ i \notin A
  OBVIOUS
<1>2. IsFiniteSet(A)
  BY IntervalsAreFinite
<1> HIDE DEF A, C
<1>3. /\ IsFiniteSet(A \cap Z) /\ Cardinality(A \cap Z) \in Nat
      /\ IsFiniteSet(A \ Z) /\ Cardinality(A \ Z) \in Nat
  BY <1>2, SplitSize
<1> DEFINE Goal == /\ Cardinality(C \cap Z) = (Cardinality(A \cap Z) + 1) - (IF i \in Z THEN 0 ELSE 1)
                   /\ Cardinality(C \ Z) = Cardinality(A \ Z) + (IF i \in Z THEN 0 ELSE 1)
<1>4. ASSUME i \in Z PROVE Goal
  <2>1. C \cap Z = (A \cap Z) \cup {i} /\ C \ Z = A \ Z /\ i \notin A \cap Z
    BY <1>1, <1>4
  <2>2. Cardinality(C \cap Z) = Cardinality(A \cap Z) + 1
    BY <1>3, <2>1, FS_AddElement
  <2> QED BY <1>3, <1>4, <2>1, <2>2
<1>5. ASSUME i \notin Z PROVE Goal
  <2>1. C \cap Z = A \cap Z /\ C \ Z = (A \ Z) \cup {i} /\ i \notin A \ Z
    BY <1>1, <1>5
  <2>2. Cardinality(C \ Z) = Cardinality(A \ Z) + 1
    BY <1>3, <2>1, FS_AddElement
  <2> QED BY <1>3, <1>5, <2>1, <2>2
<1>6. Goal
  BY <1>4, <1>5
<1> QED BY <1>6 DEF A, C, Advances

\* The next row of the same bucket.
LEMMA NextInBucket ==
    ASSUME NEW rows, NEW i \in Positions, BucketsRise(rows), i + 1 \in Positions,
           rows[i + 1].bucket = rows[i].bucket
    PROVE  RunStart(rows, i + 1) = RunStart(rows, i) /\ Bucket(rows, i + 1) = Bucket(rows, i)
<1> DEFINE s == RunStart(rows, i)
           r == RunStart(rows, i + 1)
<1>1. /\ s \in 1..i /\ \A k \in Positions : k < s => rows[k].bucket < rows[i].bucket
      /\ \A k \in s..i : k \in Bucket(rows, i)
  BY BucketIs
<1>2. /\ r \in 1..(i + 1) /\ \A k \in Positions : k < r => rows[k].bucket < rows[i].bucket
      /\ \A k \in r..(i + 1) : k \in Bucket(rows, i + 1)
  BY BucketIs
<1> HIDE DEF s, r
<1>3. Bucket(rows, i + 1) = Bucket(rows, i)
  BY DEF Bucket
<1>4. s \in Nat /\ r \in Nat /\ s \in Positions /\ r \in Positions /\ s \in s..i /\ r \in r..(i + 1)
  BY <1>1, <1>2, SizesAre
<1>5. rows[s].bucket = rows[i].bucket /\ rows[r].bucket = rows[i].bucket
  BY <1>1, <1>2, <1>3, <1>4 DEF Bucket
<1>6. rows[i].bucket \in Nat
  BY DEF BucketsRise
<1>7. ~(s < r) /\ ~(r < s)
  BY <1>1, <1>2, <1>4, <1>5, <1>6
<1> QED BY <1>3, <1>4, <1>7 DEF s, r

\* The last row of a bucket.
LEMMA LastOfBucket ==
    ASSUME NEW rows, NEW i \in Positions, BucketsRise(rows),
           i + 1 \in Positions => rows[i + 1].bucket # rows[i].bucket
    PROVE  Bucket(rows, i) = RunStart(rows, i)..i
<1> DEFINE s == RunStart(rows, i)
           B == Bucket(rows, i)
<1>1. s \in 1..i /\ (\A k \in s..i : k \in B) /\ \A k \in B : s <= k
  BY BucketIs
<1> HIDE DEF s
<1>2. i \in Nat /\ s \in Nat /\ Positions = 1..N /\ N \in Nat
  BY <1>1, SizesAre
<1>3. ASSUME NEW k \in B PROVE k \in s..i
  <2>1. k \in Positions /\ rows[k].bucket = rows[i].bucket /\ k \in Nat /\ k <= N
    BY <1>2 DEF Bucket
  <2>2. CASE i < k
    <3>1. i + 1 \in Positions /\ i + 1 <= k /\ i <= i + 1
      BY <1>2, <2>1, <2>2
    <3>2. rows[i].bucket <= rows[i + 1].bucket /\ rows[i + 1].bucket <= rows[k].bucket
      BY <2>1, <3>1 DEF BucketsRise
    <3>3. rows[i].bucket \in Nat /\ rows[i + 1].bucket \in Nat
      BY <3>1 DEF BucketsRise
    <3> QED BY <2>1, <3>1, <3>2, <3>3
  <2>3. s <= k
    BY <1>1
  <2> QED BY <1>2, <2>1, <2>2, <2>3
<1> HIDE DEF B
<1>4. B = s..i
  BY <1>1, <1>3
<1> QED BY <1>4 DEF s, B

\* verify_row_constraints accepts every row that build_level makes.
LEMMA RowsAreRight ==
    ASSUME NEW rows, NEW bits, NEW uns, BucketsRise(rows),
           \A k \in Positions : uns[k] = UnsortedRow(rows, bits, k),
           NEW i \in Positions
    PROVE  RowConstraints(uns, i)
<1> DEFINE u == uns[i]
           v == uns[i + 1]
           s == RunStart(rows, i)
           Z == ZeroRows(bits)
           B == Bucket(rows, i)
           bit == IF u.bit THEN 1 ELSE 0
           last == i = N \/ v.bucket_id # u.bucket_id
           base == (i - 1) - (u.num_zeros + u.num_ones)
           offset == u.num_zeros + bit * (u.total_zeros - u.num_zeros + u.num_ones)
<1>1. /\ u.bit = bits[i] /\ u.bucket_id = rows[i].bucket
      /\ CountersRight(u, i, s, Z, B)
  BY CountersAre
<1>2. /\ u.num_zeros \in Nat /\ u.num_ones \in Nat /\ u.total_zeros \in Nat
      /\ u.bucket_length \in Nat /\ u.next_pos \in 0..(N - 1)
      /\ u.num_zeros + u.num_ones = i - s
  BY CountersFit
<1>3. s \in 1..i
  BY BucketIs
<1>4. bit = IF i \in Z THEN 0 ELSE 1
  <2>1. bit = Bit(bits, i)
    BY <1>1, Zenon DEF Bit
  <2> QED BY <2>1, BitIs
<1>5. /\ i \in Nat /\ i <= N /\ N \in Nat /\ s \in Nat /\ s >= 1 /\ s <= i /\ i < P /\ N < P
      /\ P \in Nat /\ Positions = 1..N
  BY <1>3, ShuffleAssumption, SizesAre
<1> HIDE DEF bit, Z, B, s, u, v
<1>6. PICK z \in Nat, o \in Nat, t \in Nat, b \in Nat, e \in {0, 1} :
         /\ z = u.num_zeros /\ o = u.num_ones /\ t = u.total_zeros /\ b = u.bucket_length
         /\ e = bit
  BY <1>2, <1>4
<1>7. z + o = i - s /\ z < P /\ o < P
  BY <1>2, <1>5, <1>6
<1>8. u.next_pos = (base + offset) % P
  <2>1. u.next_pos = (s - 1) + (IF i \in Z THEN z ELSE t + o)
    BY <1>1, <1>6 DEF CountersRight
  <2>2. base + offset = ((i - 1) - (z + o)) + (z + e * (t - z + o))
    BY <1>6
  <2>3. u.next_pos % P = u.next_pos
    <3>1. u.next_pos \in Nat /\ u.next_pos < P
      BY <1>2, <1>5
    <3> QED BY <3>1, SmallResidue
  <2>4. CASE i \in Z
    <3>1. e = 0
      BY <1>4, <1>6, <2>4
    <3>2. base + offset = u.next_pos
      BY <1>5, <1>7, <2>1, <2>2, <2>4, <3>1
    <3> HIDE DEF base, offset
    <3> QED BY <2>3, <3>2
  <2>5. CASE i \notin Z
    <3>1. e = 1
      BY <1>4, <1>6, <2>5
    <3>2. base + offset = u.next_pos
      BY <1>5, <1>7, <2>1, <2>2, <2>5, <3>1
    <3> HIDE DEF base, offset
    <3> QED BY <2>3, <3>2
  <2> QED BY <2>4, <2>5
<1>9. /\ Cardinality((s..i) \cap Z) = (z + 1) - e
      /\ Cardinality((s..i) \ Z) = o + e
  <2>1. /\ Cardinality((s..i) \cap Z)
             = (Cardinality((s..(i - 1)) \cap Z) + 1) - (IF i \in Z THEN 0 ELSE 1)
        /\ Cardinality((s..i) \ Z)
             = Cardinality((s..(i - 1)) \ Z) + (IF i \in Z THEN 0 ELSE 1)
    <3>1. Advances(s, i, Z)
      BY <1>5, CountersAdvance
    <3> QED BY <3>1 DEF Advances
  <2>2. z = Cardinality((s..(i - 1)) \cap Z) /\ o = Cardinality((s..(i - 1)) \ Z)
    BY <1>1, <1>6 DEF CountersRight
  <2>3. e = IF i \in Z THEN 0 ELSE 1
    BY <1>4, <1>6
  <2> QED BY <2>1, <2>2, <2>3
<1>10. ASSUME ~last
       PROVE  /\ v.num_zeros = (z + 1 - e) % P /\ v.num_ones = (o + e) % P
              /\ v.total_zeros = t /\ v.bucket_length = b
  <2>1. i + 1 \in Positions /\ i + 1 \in Nat
    BY <1>5, <1>10
  <2>2. v.bucket_id = rows[i + 1].bucket /\ CountersRight(v, i + 1, RunStart(rows, i + 1), Z, Bucket(rows, i + 1))
    BY <2>1, CountersAre DEF v, Z
  <2>3. rows[i + 1].bucket = rows[i].bucket
    BY <1>1, <1>10, <2>2
  <2>4. RunStart(rows, i + 1) = s /\ Bucket(rows, i + 1) = B
    BY <2>1, <2>3, NextInBucket DEF s, B
  <2>5. (i + 1) - 1 = i
    BY <1>5
  <2>6. /\ v.num_zeros = (z + 1) - e /\ v.num_ones = o + e
        /\ v.total_zeros = Cardinality(B \cap Z) /\ v.bucket_length = Cardinality(B)
    BY <1>9, <2>2, <2>4, <2>5 DEF CountersRight
  <2>7. t = Cardinality(B \cap Z) /\ b = Cardinality(B)
    BY <1>1, <1>6 DEF CountersRight
  <2>8. z + 1 - e \in Nat /\ z + 1 - e < P /\ o + e \in Nat /\ o + e < P
    <3>1. i \in Nat /\ s \in Nat /\ 1 <= s /\ i < P /\ P \in Nat
      BY <1>5
    <3>2. z + o <= i - 1
      BY <1>7, <3>1
    <3>3. e = 0 \/ e = 1
      BY <1>6
    <3> QED BY <3>1, <3>2, <3>3
  <2>9. (z + 1 - e) % P = z + 1 - e /\ (o + e) % P = o + e
    BY <2>8, SmallResidue
  <2> QED BY <2>6, <2>7, <2>9
<1>11. ASSUME last
       PROVE  z = Minus(t, 1 - e) /\ o = Minus(b, t + e)
  <2>1. i + 1 \in Positions => rows[i + 1].bucket # rows[i].bucket
    <3> SUFFICES ASSUME i + 1 \in Positions PROVE rows[i + 1].bucket # rows[i].bucket
      OBVIOUS
    <3>1. v.bucket_id = rows[i + 1].bucket
      BY CountersAre DEF v
    <3>2. i # N
      BY <1>5
    <3> QED BY <1>1, <1>11, <3>1, <3>2
  <2>2. B = s..i
    BY <2>1, LastOfBucket DEF B, s
  <2>3. t = Cardinality(B \cap Z) /\ b = Cardinality(B)
    BY <1>1, <1>6 DEF CountersRight
  <2>4. t = (z + 1) - e
    BY <1>9, <2>2, <2>3
  <2>5. b = (i - s) + 1
    BY <1>5, <2>2, <2>3, IntervalsAreFinite
  <2>6. t - (1 - e) = z /\ b - (t + e) = o
    <3>1. s \in Int /\ i \in Int /\ e \in Int
      BY <1>5
    <3>2. z + o = i - s
      BY <1>7
    <3> QED BY <2>4, <2>5, <3>1, <3>2
  <2> QED BY <1>7, <2>6, SmallResidue DEF Minus
<1> HIDE DEF base, offset, last
<1>12. /\ ~last => /\ v.num_zeros = (u.num_zeros + 1 - bit) % P
                   /\ v.num_ones = (u.num_ones + bit) % P
                   /\ v.total_zeros = u.total_zeros
                   /\ v.bucket_length = u.bucket_length
       /\ last => /\ u.num_zeros = Minus(u.total_zeros, 1 - bit)
                  /\ u.num_ones = Minus(u.bucket_length, u.total_zeros + bit)
       /\ u.next_pos = (base + offset) % P
  BY <1>6, <1>8, <1>10, <1>11
<1> QED BY <1>12, Zenon DEF RowConstraints, u, v, last, base, offset, bit

\* A sort puts the keys in ascending order.
LEMMA SortsUp ==
    ASSUME NEW key \in [Positions -> Int], NEW p \in Positions, NEW q \in Positions, p <= q
    PROVE  key[SortOrder(key)[p]] <= key[SortOrder(key)[q]]
<1>1. PICK a \in Positions, b \in Positions :
        /\ a = SortOrder(key)[p] /\ b = SortOrder(key)[q]
        /\ Cardinality(Before(key, a)) = p - 1 /\ Cardinality(Before(key, b)) = q - 1
  BY SortOrderIs
<1>2. p \in Int /\ q \in Int /\ key[a] \in Int /\ key[b] \in Int
  BY SizesAre
<1>3. key[b] < key[a] => q - 1 < p - 1
  BY <1>1, RanksDiffer
<1> QED BY <1>1, <1>2, <1>3

\* Sorting by ranks is sorting by the keys that they are ranks of.
LEMMA SameOrder ==
    ASSUME NEW key \in [Positions -> Int], NEW pos \in [Positions -> Int],
           \A a \in Positions : pos[a] = Cardinality(Before(key, a))
    PROVE  SortOrder(pos) = SortOrder(key)
<1>1. ASSUME NEW a \in Positions, NEW b \in Positions
      PROVE  a = b \/ (pos[a] < pos[b] /\ a \in Before(key, b) /\ b \notin Before(key, a))
                   \/ (pos[b] < pos[a] /\ b \in Before(key, a) /\ a \notin Before(key, b))
  <2>1. a \in Int /\ b \in Int /\ key[a] \in Int /\ key[b] \in Int
    BY SizesAre
  <2>2. CASE key[a] < key[b] \/ (key[a] = key[b] /\ a < b)
    <3>1. pos[a] < pos[b]
      BY <2>2, RanksDiffer
    <3> QED BY <2>1, <2>2, <3>1 DEF Before
  <2>3. CASE key[b] < key[a] \/ (key[b] = key[a] /\ b < a)
    <3>1. pos[b] < pos[a]
      BY <2>3, RanksDiffer
    <3> QED BY <2>1, <2>3, <3>1 DEF Before
  <2> QED BY <2>1, <2>2, <2>3
<1>2. ASSUME NEW a \in Positions PROVE Before(pos, a) = Before(key, a)
  <2>1. ASSUME NEW b \in Positions PROVE b \in Before(pos, a) <=> b \in Before(key, a)
    <3>1. pos[a] \in Int /\ pos[b] \in Int /\ a \in Int
      BY SizesAre
    <3>2. b \in Before(pos, a) <=> pos[b] < pos[a] \/ (pos[b] = pos[a] /\ b < a)
      BY DEF Before
    <3>3. a \notin Before(key, a)
      BY <3>1, SizesAre DEF Before
    <3> QED BY <1>1, <3>1, <3>2, <3>3
  <2>2. Before(pos, a) \in SUBSET Positions /\ Before(key, a) \in SUBSET Positions
    BY DEF Before
  <2> QED BY <2>1, <2>2
<1>3. ASSUME NEW p \in Positions PROVE SortOrder(pos)[p] = SortOrder(key)[p]
  <2>1. PICK a \in Positions : a = SortOrder(pos)[p] /\ Cardinality(Before(pos, a)) = p - 1
    BY SortOrderIs
  <2>2. PICK b \in Positions : b = SortOrder(key)[p] /\ Cardinality(Before(key, b)) = p - 1
    BY SortOrderIs
  <2>3. pos[a] = pos[b] /\ pos[a] \in Int
    BY <1>2, <2>1, <2>2
  <2> QED BY <1>1, <2>1, <2>2, <2>3
<1>4. SortOrder(pos) \in [Positions -> Positions] /\ SortOrder(key) \in [Positions -> Positions]
  BY SortOrderIs
<1> QED BY <1>3, <1>4

-----------------------------------------------------------------------------
(* One level.                                                              *)

\* What build_level makes of rows whose buckets do not descend.
LevelRight(out, rows, bits) ==
    /\ out.uns = [i \in Positions |-> UnsortedRow(rows, bits, i)]
    /\ \A p \in Positions :
         LET a == SortOrder(SideKey(rows, bits))[p]
         IN /\ out.next[p].idx = rows[a].idx
            /\ out.next[p].bucket = SideKey(rows, bits)[a]
            /\ out.uns[a].next_pos = p - 1
    /\ BucketsRise(out.next)

LEMMA LevelIs ==
    ASSUME NEW rows, NEW bits, BucketsRise(rows)
    PROVE  LevelRight(BuildLevel(rows, bits), rows, bits)
<1> DEFINE uns == [i \in Positions |-> UnsortedRow(rows, bits, i)]
           pos == [a \in Positions |-> uns[a].next_pos]
           key == SideKey(rows, bits)
           order == SortOrder(pos)
           row(p) == LET u == uns[order[p]]
                     IN SortedRow(u.idx,
                          IF u.bit THEN u.bucket_length - u.total_zeros ELSE u.total_zeros,
                          2 * u.bucket_id + (IF u.bit THEN 1 ELSE 0))
           next == [p \in Positions |-> row(p)]
<1>1. Vec(uns) = uns
  <2>1. uns = [i \in 1..N |-> uns[i]]
    BY SizesAre
  <2> HIDE DEF uns
  <2> QED BY <2>1, SizesAre, VecOf
<1>2. Vec(next) = next
  <2> HIDE DEF row
  <2>1. next = [p \in 1..N |-> next[p]]
    BY SizesAre
  <2> HIDE DEF next
  <2> QED BY <2>1, SizesAre, VecOf
<1>3. BuildLevel(rows, bits).uns = uns /\ BuildLevel(rows, bits).next = next
  <2>1. BuildLevel(rows, bits).uns = uns /\ BuildLevel(rows, bits).next = NextRows(uns)
    BY <1>1 DEF BuildLevel, uns
  <2>2. NextRows(uns) = Vec(next)
    BY DEF NextRows, order, pos
  <2> QED BY <1>2, <2>1, <2>2
<1>4. \A a \in Positions : uns[a] = UnsortedRow(rows, bits, a)
  OBVIOUS
<1> HIDE DEF uns
<1>5. key \in [Positions -> Int]
  BY SideKeyIs
<1>6. \A a \in Positions : pos[a] = Cardinality(Before(key, a)) /\ pos[a] \in Int
  <2> SUFFICES ASSUME NEW a \in Positions
               PROVE  pos[a] = Cardinality(Before(key, a)) /\ pos[a] \in Int
    OBVIOUS
  <2>1. pos[a] = UnsortedRow(rows, bits, a).next_pos
    BY <1>4
  <2>2. Cardinality(Before(key, a)) \in 0..(N - 1)
    BY <1>5, BeforeIs
  <2> HIDE DEF pos
  <2> QED BY <2>1, <2>2, RankIs, SizesAre
<1>7. pos \in [Positions -> Int]
  BY <1>6
<1>8. \A a \in Positions : pos[a] = uns[a].next_pos
  OBVIOUS
<1> HIDE DEF key, pos
<1>9. order = SortOrder(key)
  BY <1>5, <1>6, <1>7, SameOrder
<1>10. /\ order \in [Positions -> Positions]
       /\ \A p \in Positions : Cardinality(Before(key, order[p])) = p - 1
  BY <1>5, <1>9, SortOrderIs
<1> HIDE DEF order
<1>11. ASSUME NEW p \in Positions
       PROVE  /\ next[p].idx = rows[order[p]].idx /\ next[p].bucket = key[order[p]]
              /\ uns[order[p]].next_pos = p - 1
  <2>1. PICK a \in Positions : a = order[p]
    BY <1>10
  <2>2. /\ uns[a].bit = bits[a] /\ uns[a].bucket_id = rows[a].bucket /\ uns[a].idx = rows[a].idx
    BY <1>4, CountersAre
  <2>3. (IF uns[a].bit THEN 1 ELSE 0) = Bit(bits, a)
    BY <2>2, Zenon DEF Bit
  <2>4. next[p].idx = uns[a].idx /\ next[p].bucket = 2 * uns[a].bucket_id + (IF uns[a].bit THEN 1 ELSE 0)
    <3>1. next[p] = row(p)
      OBVIOUS
    <3> HIDE DEF next
    <3> QED BY <2>1, <3>1 DEF SortedRow
  <2>5. key[a] = 2 * rows[a].bucket + Bit(bits, a)
    BY DEF key, SideKey
  <2>6. uns[a].next_pos = p - 1
    BY <1>6, <1>8, <1>10, <2>1
  <2> HIDE DEF next
  <2>7. next[p].bucket = 2 * rows[a].bucket + Bit(bits, a)
    BY <2>2, <2>3, <2>4, Zenon
  <2> QED BY <2>1, <2>2, <2>4, <2>5, <2>6, <2>7
<1> HIDE DEF next
<1>12. BucketsRise(next)
  <2>1. ASSUME NEW p \in Positions PROVE next[p].bucket \in Nat
    <3>1. PICK a \in Positions : a = order[p]
      BY <1>10
    <3>2. key[a] = 2 * rows[a].bucket + IF a \in ZeroRows(bits) THEN 0 ELSE 1
      BY SideKeyIs DEF key
    <3>3. rows[a].bucket \in Nat
      BY DEF BucketsRise
    <3>4. key[a] \in Nat
      BY <3>2, <3>3
    <3> QED BY <1>11, <3>1, <3>4
  <2>2. ASSUME NEW p \in Positions, NEW q \in Positions, p <= q
        PROVE  next[p].bucket <= next[q].bucket
    BY <1>5, <1>9, <1>11, <2>2, SortsUp
  <2> QED BY <2>1, <2>2 DEF BucketsRise
<1>13. ASSUME NEW p \in Positions
       PROVE  LET a == SortOrder(key)[p]
              IN /\ BuildLevel(rows, bits).next[p].idx = rows[a].idx
                 /\ BuildLevel(rows, bits).next[p].bucket = key[a]
                 /\ BuildLevel(rows, bits).uns[a].next_pos = p - 1
  BY <1>3, <1>9, <1>11
<1> QED BY <1>3, <1>12, <1>13 DEF LevelRight, uns, key

-----------------------------------------------------------------------------
(* Grand products.                                                         *)

LEMMA SumIsInt ==
    ASSUME NEW v, NEW n \in Nat, DOMAIN v = 1..n, \A i \in 1..n : v[i] \in Int
    PROVE  Sum(v) \in Int
<1> DEFINE Upto(t) == t = [i \in 0..n |-> IF i = 0 THEN 0 ELSE (t[i - 1] + v[i]) % P]
           add(k, a) == IF k + 1 \in 1..n THEN (a + v[k + 1]) % P ELSE 0
           G == [k \in Nat |-> [a \in Int |-> add(k, a)]]
<1>1. \A k \in Nat : \A a \in Int : add(k, a) \in Int
  <2> SUFFICES ASSUME NEW k \in Nat, NEW a \in Int, k + 1 \in 1..n
               PROVE  (a + v[k + 1]) % P \in Int
    OBVIOUS
  <2>1. PICK x \in Int : x = a + v[k + 1]
    OBVIOUS
  <2>2. x % P \in Int
    BY SizesAre
  <2> QED BY <2>1, <2>2
<1>2. G \in [Nat -> [Int -> Int]] /\ \A k \in Nat : \A a \in Int : G[k][a] = add(k, a)
  <2> HIDE DEF add
  <2> QED BY <1>1
<1>3. PICK f \in [Nat -> Int] : f[0] = 0 /\ \A k \in Nat : f[k + 1] = G[k][f[k]]
  <2> HIDE DEF G
  <2>1. 0 \in Int
    OBVIOUS
  <2>2. \E f \in [Nat -> Int] : GoesOn(f, 0, G)
    BY <1>2, <2>1, Recursion
  <2> QED BY <2>2 DEF GoesOn
<1>4. \E t : Upto(t)
  <2> DEFINE t == [i \in 0..n |-> f[i]]
             w == [i \in 0..n |-> IF i = 0 THEN 0 ELSE (t[i - 1] + v[i]) % P]
  <2>1. ASSUME NEW i \in 0..n PROVE t[i] = IF i = 0 THEN 0 ELSE (t[i - 1] + v[i]) % P
    <3>1. CASE i = 0
      BY <1>3, <3>1
    <3>2. CASE i # 0
      <4>1. i - 1 \in Nat /\ (i - 1) + 1 = i /\ i \in 1..n /\ i - 1 \in 0..n
        BY <3>2
      <4>2. f[(i - 1) + 1] = add(i - 1, f[i - 1])
        BY <1>2, <1>3, <4>1
      <4>3. t[i] = f[i] /\ t[i - 1] = f[i - 1]
        BY <4>1
      <4> HIDE DEF t
      <4> QED BY <3>2, <4>1, <4>2, <4>3
    <3> QED BY <3>1, <3>2
  <2>2. t = [i \in 0..n |-> t[i]] /\ w = [i \in 0..n |-> w[i]] /\ \A i \in 0..n : t[i] = w[i]
    BY <2>1
  <2> HIDE DEF t
  <2>3. t = w
    <3> HIDE DEF w
    <3> QED BY <2>2
  <2>4. Upto(t)
    BY <2>3, Zenon
  <2> HIDE DEF Upto
  <2> QED BY <2>4
<1>5. Size(v) = n
  <2>1. Cardinality(1..n) = n
    BY FS_Interval
  <2> QED BY <2>1 DEF Size
<1> DEFINE s == CHOOSE t : Upto(t)
<1>6. Sum(v) = s[n]
  BY <1>5 DEF Sum
<1>7. Upto(s)
  <2> HIDE DEF Upto
  <2> QED BY <1>4
<1> HIDE DEF s, G
<1>8. ASSUME NEW i \in 0..n PROVE s[i] = IF i = 0 THEN 0 ELSE (s[i - 1] + v[i]) % P
  BY <1>7, Zenon
<1> HIDE DEF Upto
<1> DEFINE S == {k \in Nat : k <= n => s[k] \in Int}
<1>9. 0 \in S
  BY <1>8
<1>10. ASSUME NEW k \in Nat, k \in S PROVE k + 1 \in S
  <2> SUFFICES ASSUME k + 1 <= n PROVE s[k + 1] \in Int
    OBVIOUS
  <2>1. k + 1 \in 1..n /\ k + 1 \in 0..n /\ k + 1 # 0 /\ (k + 1) - 1 = k
    OBVIOUS
  <2>2. s[k + 1] = (s[k] + v[k + 1]) % P
    BY <1>8, <2>1
  <2>3. PICK x \in Int : x = s[k] + v[k + 1]
    BY <1>10, <2>1
  <2>4. x % P \in Int
    BY SizesAre
  <2> QED BY <2>2, <2>3, <2>4
<1> HIDE DEF S
<1>11. n \in S
  BY <1>9, <1>10, SetInduction
<1> QED BY <1>6, <1>11 DEF S

LEMMA DotIsInt ==
    ASSUME NEW u, NEW v, NEW n \in Nat, Len(u) = n,
           \A i \in 1..n : u[i] \in Int /\ v[i] \in Int
    PROVE  Dot(u, v) \in Int
<1> DEFINE w == [i \in 1..n |-> u[i] * v[i]]
<1>1. DOMAIN w = 1..n /\ \A i \in 1..n : w[i] = u[i] * v[i]
  OBVIOUS
<1>2. Dot(u, v) = Sum(w)
  BY DEF Dot
<1> HIDE DEF w
<1>3. \A i \in 1..n : w[i] \in Int
  BY <1>1
<1> QED BY <1>1, <1>2, <1>3, SumIsInt

\* Items in another order have the same grand product.
LEMMA GrandProductHolds ==
    ASSUME NEW left, NEW right, NEW challenges, NEW c \in Nat, NEW f \in Perms(N),
           left = [i \in Positions |-> left[i]], right = [i \in Positions |-> right[i]],
           \A p \in Positions : right[p] = left[f[p]],
           Len(challenges) = c, \A k \in 1..c : challenges[k] \in Int,
           \A i \in Positions : \A k \in 1..c : left[i][k] \in Int
    PROVE  CheckGrandProduct(left, right, challenges)
<1> DEFINE x == [k \in 1..N |-> Dot(challenges, left[k])]
           y == [k \in 1..N |-> Dot(challenges, right[k])]
<1>1. N \in Nat /\ Positions = 1..N
  BY SizesAre
<1>2. Len(left) = N /\ Len(right) = N
  BY <1>1, VecOf
<1>3. x \in [1..N -> Int]
  <2>1. ASSUME NEW k \in 1..N PROVE Dot(challenges, left[k]) \in Int
    <3>1. \A j \in 1..c : challenges[j] \in Int /\ left[k][j] \in Int
      BY <1>1
    <3> QED BY <3>1, DotIsInt
  <2> QED BY <2>1
<1>4. f \in [1..N -> 1..N]
  BY DEF Perms
<1>5. y = Through(x, f, N)
  <2>1. \A k \in 1..N : y[k] = x[f[k]]
    <3> SUFFICES ASSUME NEW k \in 1..N PROVE y[k] = x[f[k]]
      OBVIOUS
    <3>1. PICK a \in 1..N : a = f[k]
      BY <1>4
    <3>2. right[k] = left[a]
      BY <1>1, <3>1
    <3> QED BY <3>1, <3>2
  <2> QED BY <2>1 DEF Through
<1>6. Product(x) = Product(y)
  <2> HIDE DEF x, y
  <2> QED BY <1>1, <1>3, <1>5, ReorderedProduct
<1> QED BY <1>2, <1>6 DEF CheckGrandProduct, x, y

\* A bijection of the positions that reaches every position.
LEMMA OntoPermutes ==
    ASSUME NEW g, Onto(g)
    PROVE  g \in Perms(N)
<1>1. /\ g \in [Positions -> Positions] /\ \A i \in Positions : \E p \in Positions : g[p] = i
      /\ Positions = 1..N
  BY SizesAre DEF Onto
<1>2. g \in Surjection(Positions, Positions)
  BY <1>1, Fun_IsSurj
<1>3. g \in Injection(Positions, Positions)
  BY <1>2, PositionsAreFinite, FS_Surjection
<1>4. \A a, b \in Positions : g[a] = g[b] => a = b
  BY <1>3, Fun_InjectionProperties
<1> QED BY <1>1, <1>4 DEF Perms

-----------------------------------------------------------------------------
(* All levels of a witness.                                                *)

\* level holds the levels that prepare_witness_data makes of bits.
LevelSteps(level, bits) ==
    /\ level[0].next = InitialRows
    /\ \A l \in 1..LEVELS : level[l] = BuildLevel(level[l - 1].next, bits[l])

LEMMA LevelsAre ==
    ASSUME NEW seed
    PROVE  \E level :
             /\ LevelSteps(level, DeriveSplitBits(seed))
             /\ PrepareWitnessData(seed).bits_mat = DeriveSplitBits(seed)
             /\ \A l \in 1..LEVELS : PrepareWitnessData(seed).levels[l] = level[l]
<1> DEFINE bits == DeriveSplitBits(seed)
           Step(u, l) == IF l = 0 THEN [uns |-> <<>>, next |-> InitialRows]
                                  ELSE BuildLevel(u[l - 1].next, bits[l])
           Upto(n, u) == u = [l \in 0..n |-> Step(u, l)]
           S == {n \in Nat : \E u : Upto(n, u)}
<1>1. 0 \in S
  <2> DEFINE u == [l \in 0..0 |-> [uns |-> <<>>, next |-> InitialRows]]
  <2>1. Upto(0, u)
    OBVIOUS
  <2> QED BY <2>1
<1>2. ASSUME NEW n \in Nat, n \in S PROVE n + 1 \in S
  <2>1. PICK t : Upto(n, t)
    BY <1>2
  <2> DEFINE u == [l \in 0..(n + 1) |-> IF l = n + 1 THEN BuildLevel(t[n].next, bits[n + 1]) ELSE t[l]]
             v == [l \in 0..(n + 1) |-> Step(u, l)]
  <2>2. ASSUME NEW l \in 0..(n + 1) PROVE u[l] = Step(u, l)
    <3>1. CASE l = n + 1
      <4>1. l - 1 = n /\ l # 0 /\ n \in 0..(n + 1) /\ n # n + 1
        BY <3>1
      <4>2. u[n] = t[n]
        BY <4>1
      <4>3. u[l] = BuildLevel(t[n].next, bits[l])
        BY <3>1
      <4> HIDE DEF u
      <4> QED BY <4>1, <4>2, <4>3
    <3>2. CASE l # n + 1 /\ l # 0
      <4>1. l \in 0..n /\ l - 1 \in 0..(n + 1) /\ l - 1 # n + 1
        BY <3>2
      <4>2. u[l] = t[l] /\ u[l - 1] = t[l - 1]
        BY <3>2, <4>1
      <4>3. t[l] = Step(t, l)
        BY <2>1, <4>1, Zenon
      <4> HIDE DEF u
      <4> QED BY <3>2, <4>2, <4>3
    <3>3. CASE l = 0
      <4>1. 0 \in 0..n /\ 0 # n + 1
        OBVIOUS
      <4>2. t[0] = Step(t, 0)
        BY <2>1, <4>1, Zenon
      <4>3. u[0] = t[0]
        BY <3>3, <4>1
      <4> HIDE DEF u
      <4> QED BY <3>3, <4>2, <4>3
    <3> QED BY <3>1, <3>2, <3>3
  <2>3. u = v
    <3>1. u = [l \in 0..(n + 1) |-> u[l]] /\ v = [l \in 0..(n + 1) |-> v[l]]
      OBVIOUS
    <3>2. \A l \in 0..(n + 1) : v[l] = Step(u, l)
      OBVIOUS
    <3> HIDE DEF u, v, Step
    <3> QED BY <2>2, <3>1, <3>2
  <2> HIDE DEF u
  <2>4. Upto(n + 1, u)
    BY <2>3, Zenon
  <2> HIDE DEF Upto
  <2> QED BY <2>4
<1> HIDE DEF S
<1>3. LEVELS \in S
  BY <1>1, <1>2, SizesAre, SetInduction
<1> DEFINE level == CHOOSE u : Upto(LEVELS, u)
           levels == [l \in 1..LEVELS |-> level[l]]
<1>4. Upto(LEVELS, level)
  <2>1. \E u : Upto(LEVELS, u)
    BY <1>3 DEF S
  <2> HIDE DEF Upto
  <2> QED BY <2>1
<1>5. PrepareWitnessData(seed).levels = Vec(levels) /\ PrepareWitnessData(seed).bits_mat = bits
  BY DEF PrepareWitnessData
<1> HIDE DEF level
<1>6. Vec(levels) = levels /\ \A l \in 1..LEVELS : levels[l] = level[l]
  <2>1. levels = [l \in 1..LEVELS |-> levels[l]] /\ \A l \in 1..LEVELS : levels[l] = level[l]
    OBVIOUS
  <2> HIDE DEF levels
  <2> QED BY <2>1, SizesAre, VecOf
<1>7. \A l \in 0..LEVELS : level[l] = Step(level, l)
  BY <1>4, Zenon
<1> HIDE DEF Upto, bits
<1>8. level[0].next = InitialRows
  BY <1>7, SizesAre
<1>9. \A l \in 1..LEVELS : l \in 0..LEVELS /\ l # 0
  BY SizesAre
<1>10. LevelSteps(level, bits)
  BY <1>7, <1>8, <1>9 DEF LevelSteps
<1> HIDE DEF levels
<1>11. \A l \in 1..LEVELS : PrepareWitnessData(seed).levels[l] = level[l]
  BY <1>5, <1>6
<1> QED BY <1>5, <1>10, <1>11 DEF bits

LEMMA InitialRowsAre ==
    /\ \A p \in Positions : InitialRows[p].idx = p - 1 /\ InitialRows[p].bucket = 0
    /\ BucketsRise(InitialRows)
<1> DEFINE f == [i \in Positions |-> SortedRow(i - 1, N, 0)]
<1>1. Vec(f) = f
  <2>1. f = [i \in 1..N |-> f[i]]
    BY SizesAre
  <2> HIDE DEF f
  <2> QED BY <2>1, SizesAre, VecOf
<1>2. \A p \in Positions : InitialRows[p].idx = p - 1 /\ InitialRows[p].bucket = 0
  BY <1>1 DEF InitialRows, SortedRow
<1> QED BY <1>2 DEF BucketsRise

\* Every level is right, and no row is lost.
LEMMA LevelsRight ==
    ASSUME NEW level, NEW bits, LevelSteps(level, bits)
    PROVE  \A l \in 1..LEVELS :
             /\ BucketsRise(level[l - 1].next) /\ RowsRight(level[l - 1].next)
             /\ LevelRight(level[l], level[l - 1].next, bits[l])
             /\ RowsRight(level[l].next)
<1> DEFINE Good(l) == BucketsRise(level[l].next) /\ RowsRight(level[l].next)
           R == {l \in Nat : l <= LEVELS => Good(l)}
<1>1. 0 \in R
  BY InitialRowsAre, InitialRowsRight DEF LevelSteps
<1>2. ASSUME NEW l \in Nat, l + 1 <= LEVELS, Good(l)
      PROVE  LevelRight(level[l + 1], level[l].next, bits[l + 1]) /\ Good(l + 1)
  <2>1. l + 1 \in 1..LEVELS /\ (l + 1) - 1 = l
    BY <1>2, SizesAre
  <2>2. level[l + 1] = BuildLevel(level[l].next, bits[l + 1])
    BY <2>1 DEF LevelSteps
  <2>3. LevelRight(level[l + 1], level[l].next, bits[l + 1])
    BY <1>2, <2>2, LevelIs
  <2>4. RowsRight(level[l + 1].next)
    BY <1>2, <2>2, LevelKeepsRows
  <2> QED BY <2>3, <2>4 DEF LevelRight
<1>3. ASSUME NEW l \in Nat, l \in R PROVE l + 1 \in R
  <2> HIDE DEF Good
  <2> SUFFICES ASSUME l + 1 <= LEVELS PROVE Good(l + 1)
    OBVIOUS
  <2>1. l <= LEVELS
    BY SizesAre
  <2> QED BY <1>2, <1>3, <2>1
<1> HIDE DEF R
<1>4. \A l \in Nat : l \in R
  BY <1>1, <1>3, SetInduction
<1>5. ASSUME NEW l \in 1..LEVELS
      PROVE  Good(l - 1) /\ LevelRight(level[l], level[l - 1].next, bits[l]) /\ Good(l)
  <2> HIDE DEF Good
  <2>1. l - 1 \in Nat /\ l - 1 <= LEVELS /\ (l - 1) + 1 = l /\ (l - 1) + 1 <= LEVELS
    BY SizesAre
  <2>2. Good(l - 1)
    BY <1>4, <2>1 DEF R
  <2>3. LevelRight(level[(l - 1) + 1], level[l - 1].next, bits[(l - 1) + 1]) /\ Good((l - 1) + 1)
    BY <1>2, <2>1, <2>2
  <2> QED BY <2>1, <2>2, <2>3
<1> QED BY <1>5

LEMMA WitnessRowsRight ==
    ASSUME NEW seed
    PROVE  RowsRight(PrepareWitnessData(seed).levels[LEVELS].next)
<1>1. PICK level : /\ LevelSteps(level, DeriveSplitBits(seed))
                   /\ \A l \in 1..LEVELS : PrepareWitnessData(seed).levels[l] = level[l]
  BY LevelsAre
<1>2. LEVELS \in 1..LEVELS
  BY SizesAre
<1>3. RowsRight(level[LEVELS].next)
  BY <1>1, <1>2, LevelsRight
<1> QED BY <1>1, <1>2, <1>3

LEMMA RsShuffleRearranges ==
    ASSUME NEW seed, NEW cts
    PROVE  Rearranged(cts, ApplyPermutation(PrepareWitnessData(seed), cts))
<1> DEFINE rows == PrepareWitnessData(seed).levels[LEVELS].next
           g == [p \in Positions |-> rows[p].idx + 1]
           f == [p \in Positions |-> cts[rows[p].idx + 1]]
<1>1. RowsRight(rows)
  BY WitnessRowsRight
<1>2. ApplyPermutation(PrepareWitnessData(seed), cts) = Vec(f)
  BY DEF ApplyPermutation
<1> HIDE DEF rows
<1>3. Vec(f) = f
  <2>1. f = [p \in 1..N |-> f[p]]
    BY SizesAre
  <2> HIDE DEF f
  <2> QED BY <2>1, SizesAre, VecOf
<1>4. Onto(g)
  <2>1. \A p \in Positions : g[p] \in Positions
    BY <1>1, SizesAre DEF RowsRight
  <2>2. ASSUME NEW i \in Positions PROVE \E p \in Positions : g[p] = i
    <3>1. i - 1 \in 0..(N - 1) /\ (i - 1) + 1 = i
      BY SizesAre
    <3> QED BY <1>1, <3>1 DEF RowsRight
  <2> QED BY <2>1, <2>2 DEF Onto
<1>5. f = [p \in Positions |-> cts[g[p]]]
  OBVIOUS
<1> HIDE DEF f, g
<1> QED BY <1>2, <1>3, <1>4, <1>5 DEF Rearranged

LEMMA RearrangedDeck ==
    ASSUME NEW x, NEW cts \in [Positions -> CiphertextType], NEW out, Rearranged(cts, out)
    PROVE  /\ out \in [Positions -> CiphertextType]
           /\ {PlainUnder(x, out[p]) : p \in Positions} = {PlainUnder(x, cts[p]) : p \in Positions}
<1>1. PICK g : Onto(g) /\ out = [p \in Positions |-> cts[g[p]]]
  BY DEF Rearranged
<1>2. \A p \in Positions : g[p] \in Positions /\ out[p] = cts[g[p]]
  BY <1>1 DEF Onto
<1>3. \A i \in Positions : \E p \in Positions : g[p] = i
  BY <1>1 DEF Onto
<1>4. out \in [Positions -> CiphertextType]
  BY <1>1, <1>2
<1> QED BY <1>2, <1>3, <1>4

\* Whatever the key, each card gets a layer of its own scalar.
LEMMA ReencryptedCard ==
    ASSUME NEW cts \in [Positions -> CiphertextType], NEW rs, NEW key, NEW p \in Positions
    PROVE  Reencrypt(cts, rs, key)[p] = AddEncryptionLayer(cts[p], rs[p], key)
<1> DEFINE f == [i \in Positions |-> AddEncryptionLayer(cts[i], rs[i], key)]
<1>1. Len(cts) = N
  BY SizesAre, VecIs
<1>2. Vec(f) = f
  <2>1. f = [i \in 1..N |-> f[i]]
    BY SizesAre
  <2> HIDE DEF f
  <2> QED BY <2>1, SizesAre, VecOf
<1>3. Reencrypt(cts, rs, key) = Vec(f)
  BY <1>1, SizesAre DEF Reencrypt
<1> QED BY <1>2, <1>3

LEMMA ReencryptedDeck ==
    ASSUME NEW x \in [MemberIndices -> Int], NEW cts \in [Positions -> CiphertextType],
           NEW rs \in [Positions -> Nat]
    PROVE  {PlainUnder(x, Reencrypt(cts, rs, JointKey(x))[i]) : i \in Positions}
             = {PlainUnder(x, cts[i]) : i \in Positions}
  BY ReencryptIs

-----------------------------------------------------------------------------
(* The circuit accepts the witness.                                        *)

LEMMA SameField ==
    ASSUME NEW u, u = [x \in DOMAIN u |-> u[x]], NEW a, a = u.bit
    PROVE  [u EXCEPT !.bit = a] = u
  OBVIOUS

\* The bit that the circuit puts into a row is the bit that is there.
LEMMA BitStays ==
    ASSUME NEW rows, NEW bits, NEW i
    PROVE  [UnsortedRow(rows, bits, i) EXCEPT !.bit = bits[i]] = UnsortedRow(rows, bits, i)
<1> DEFINE row(a, b, c, d, e, f, g, h) ==
             [bit |-> a, num_zeros |-> b, num_ones |-> c, total_zeros |-> d,
              bucket_length |-> e, idx |-> f, bucket_id |-> g, next_pos |-> h]
<1>1. ASSUME NEW a, NEW b, NEW c, NEW d, NEW e, NEW f, NEW g, NEW h
      PROVE  LET u == row(a, b, c, d, e, f, g, h)
             IN u = [x \in DOMAIN u |-> u[x]] /\ u.bit = a
  OBVIOUS
<1>2. PICK a, b, c, d, e, f, g, h :
        a = bits[i] /\ UnsortedRow(rows, bits, i) = row(a, b, c, d, e, f, g, h)
  BY Zenon DEF UnsortedRow
<1> DEFINE u == row(a, b, c, d, e, f, g, h)
<1>3. u = [x \in DOMAIN u |-> u[x]] /\ u.bit = a
  BY <1>1
<1>4. UnsortedRow(rows, bits, i) = u
  BY <1>2, Zenon
<1> HIDE DEF u
<1>5. [u EXCEPT !.bit = a] = u
  BY <1>3, SameField
<1> QED BY <1>2, <1>4, <1>5, Zenon

\* A level with the bits that the circuit derives.
CircuitLevel(out, bits) ==
    [uns |-> Vec([i \in Positions |-> [out.uns[i] EXCEPT !.bit = bits[i]]]),
     sorted |-> out.next]

LEMMA CircuitLevelIs ==
    ASSUME NEW out, NEW rows, NEW bits, LevelRight(out, rows, bits)
    PROVE  CircuitLevel(out, bits) = [uns |-> out.uns, sorted |-> out.next]
<1> DEFINE f == [i \in Positions |-> [out.uns[i] EXCEPT !.bit = bits[i]]]
           g == [i \in Positions |-> UnsortedRow(rows, bits, i)]
<1>1. out.uns = g
  BY DEF LevelRight
<1>2. \A i \in Positions : g[i] = UnsortedRow(rows, bits, i)
  OBVIOUS
<1>3. f = g
  <2>1. \A i \in Positions : [out.uns[i] EXCEPT !.bit = bits[i]] = UnsortedRow(rows, bits, i)
    <3> HIDE DEF g
    <3> QED BY <1>1, <1>2, BitStays
  <2> QED BY <2>1
<1>4. Vec(g) = g
  <2>1. g = [i \in 1..N |-> g[i]]
    BY SizesAre
  <2> HIDE DEF g
  <2> QED BY <2>1, SizesAre, VecOf
<1>5. CircuitLevel(out, bits) = [uns |-> Vec(f), sorted |-> out.next]
  BY DEF CircuitLevel
<1> HIDE DEF f, g
<1> QED BY <1>1, <1>3, <1>4, <1>5

LEMMA LevelAccepted ==
    ASSUME NEW out, NEW rows, NEW bits, LevelRight(out, rows, bits),
           BucketsRise(rows), RowsRight(rows), NEW alpha \in Int, NEW beta \in Int
    PROVE  VerifyShuffleLevel(CircuitLevel(out, bits), alpha, beta)
<1> DEFINE uns == out.uns
           order == SortOrder(SideKey(rows, bits))
           left == [i \in Positions |-> <<uns[i].idx, uns[i].next_pos>>]
           right == [j \in Positions |-> <<out.next[j].idx, j - 1>>]
<1>1. \A i \in Positions : uns[i] = UnsortedRow(rows, bits, i)
  BY DEF LevelRight
<1>2. \A p \in Positions : /\ out.next[p].idx = rows[order[p]].idx
                           /\ uns[order[p]].next_pos = p - 1
  BY DEF LevelRight
<1>3. /\ CircuitLevel(out, bits).uns = uns /\ CircuitLevel(out, bits).sorted = out.next
  BY CircuitLevelIs
<1> HIDE DEF uns
<1>4. \A i \in Positions : RowConstraints(uns, i)
  BY <1>1, RowsAreRight
<1>5. Onto(order)
  BY SideKeyIs, SortOrderIs DEF Onto
<1> HIDE DEF order
<1>6. order \in Perms(N) /\ order \in [Positions -> Positions]
  BY <1>5, OntoPermutes DEF Onto
<1>7. ASSUME NEW i \in Positions
      PROVE  uns[i].idx = rows[i].idx /\ uns[i].idx \in Int /\ uns[i].next_pos \in Int
  <2>1. uns[i].idx = rows[i].idx
    BY <1>1, UnsortedRowIs
  <2>2. rows[i].idx \in 0..(N - 1)
    BY DEF RowsRight
  <2>3. uns[i].next_pos \in Int
    BY <1>1, UnsortedRowIs
  <2> QED BY <2>1, <2>2, <2>3, SizesAre
<1>8. CheckGrandProduct(left, right, <<alpha, beta>>)
  <2>1. ASSUME NEW p \in Positions PROVE right[p] = left[order[p]]
    <3>1. PICK a \in Positions : a = order[p]
      BY <1>6
    <3>2. left[a] = <<uns[a].idx, uns[a].next_pos>> /\ right[p] = <<out.next[p].idx, p - 1>>
      OBVIOUS
    <3> HIDE DEF left, right
    <3> QED BY <1>2, <1>7, <3>1, <3>2
  <2>2. ASSUME NEW i \in Positions, NEW k \in 1..2 PROVE left[i][k] \in Int
    <3>1. k = 1 \/ k = 2
      OBVIOUS
    <3> QED BY <1>7, <3>1
  <2>3. Len(<<alpha, beta>>) = 2 /\ \A k \in 1..2 : <<alpha, beta>>[k] \in Int
    <3>1. \A k \in 1..2 : k = 1 \/ k = 2
      OBVIOUS
    <3> QED BY <3>1
  <2>4. left = [i \in Positions |-> left[i]] /\ right = [i \in Positions |-> right[i]]
    OBVIOUS
  <2> HIDE DEF left, right
  <2> QED BY <1>6, <2>1, <2>2, <2>3, <2>4, GrandProductHolds
<1> QED BY <1>3, <1>4, <1>8 DEF VerifyShuffleLevel

\* What the circuit is given of a seed's witness.
LEMMA CircuitLevelsAre ==
    ASSUME NEW seed, NEW level, LevelSteps(level, DeriveSplitBits(seed)),
           \A l \in 1..LEVELS : PrepareWitnessData(seed).levels[l] = level[l]
    PROVE  LET levels == PrepareWitnessDataCircuit(seed, PrepareWitnessData(seed), NumSamples)
           IN \A l \in 1..LEVELS : levels[l] = CircuitLevel(level[l], DeriveSplitBits(seed)[l])
<1> DEFINE w == PrepareWitnessData(seed)
           bits == DeriveSplitBits(seed)
           f == [l \in 1..LEVELS |-> CircuitLevel(w.levels[l], bits[l])]
<1>1. DeriveSplitBitsCircuit(seed, NumSamples) = bits
  BY DEF DeriveSplitBitsCircuit, DeriveSplitBits, GenerateRandomValues
<1>2. PrepareWitnessDataCircuit(seed, w, NumSamples) = Vec(f)
  <2> HIDE DEF w, bits
  <2> QED BY <1>1 DEF PrepareWitnessDataCircuit, CircuitLevel
<1>3. f = [l \in 1..LEVELS |-> f[l]] /\ \A l \in 1..LEVELS : f[l] = CircuitLevel(w.levels[l], bits[l])
  OBVIOUS
<1> HIDE DEF f
<1>4. Vec(f) = f
  BY <1>3, SizesAre, VecOf
<1> HIDE DEF bits
<1>5. \A l \in 1..LEVELS : f[l] = CircuitLevel(level[l], bits[l])
  BY <1>3
<1> QED BY <1>2, <1>4, <1>5 DEF w, bits

\* The deck after the shuffle.
LEMMA AppliedPermutation ==
    ASSUME NEW seed, NEW cts
    PROVE  LET rows == PrepareWitnessData(seed).levels[LEVELS].next
           IN ApplyPermutation(PrepareWitnessData(seed), cts)
                = [p \in Positions |-> cts[rows[p].idx + 1]]
<1> DEFINE rows == PrepareWitnessData(seed).levels[LEVELS].next
           f == [p \in Positions |-> cts[rows[p].idx + 1]]
<1>1. ApplyPermutation(PrepareWitnessData(seed), cts) = Vec(f)
  BY DEF ApplyPermutation
<1> HIDE DEF rows
<1>2. f = [p \in 1..N |-> f[p]]
  BY SizesAre
<1>3. Vec(f) = f
  <2> HIDE DEF f
  <2> QED BY <1>2, SizesAre, VecOf
<1> QED BY <1>1, <1>3 DEF rows

\* Every card of the deck before is in the deck after.
LEMMA DeckAccepted ==
    ASSUME NEW first, NEW rows, NEW init \in [Positions -> CiphertextType],
           \A i \in Positions : first[i].idx = i - 1, RowsRight(rows),
           NEW after, after = [p \in Positions |-> init[rows[p].idx + 1]],
           NEW alpha \in Int, NEW beta \in Int, NEW gamma \in Int
    PROVE  CheckGrandProduct([i \in Positions |-> <<first[i].idx, init[i].c1, init[i].c2>>],
                             [i \in Positions |-> <<rows[i].idx, after[i].c1, after[i].c2>>],
                             <<alpha, beta, gamma>>)
<1> DEFINE left == [i \in Positions |-> <<first[i].idx, init[i].c1, init[i].c2>>]
           right == [i \in Positions |-> <<rows[i].idx, after[i].c1, after[i].c2>>]
           g == [p \in Positions |-> rows[p].idx + 1]
           challenges == <<alpha, beta, gamma>>
<1>1. \A p \in Positions : g[p] = rows[p].idx + 1 /\ g[p] \in Positions /\ g[p] - 1 = rows[p].idx
  <2> SUFFICES ASSUME NEW p \in Positions
               PROVE  g[p] = rows[p].idx + 1 /\ g[p] \in Positions /\ g[p] - 1 = rows[p].idx
    OBVIOUS
  <2>1. PICK x \in 0..(N - 1) : x = rows[p].idx
    BY DEF RowsRight
  <2>2. x + 1 \in Positions /\ (x + 1) - 1 = x
    BY SizesAre
  <2> QED BY <2>1, <2>2
<1>2. Onto(g)
  <2>1. ASSUME NEW i \in Positions PROVE \E p \in Positions : g[p] = i
    <3>1. i - 1 \in 0..(N - 1) /\ (i - 1) + 1 = i
      BY SizesAre
    <3> QED BY <3>1 DEF RowsRight
  <2> QED BY <1>1, <2>1 DEF Onto
<1> HIDE DEF g
<1>3. g \in Perms(N)
  BY <1>2, OntoPermutes
<1>4. ASSUME NEW p \in Positions PROVE right[p] = left[g[p]]
  <2>1. PICK a \in Positions : a = g[p] /\ a - 1 = rows[p].idx
    BY <1>1
  <2>2. left[a] = <<first[a].idx, init[a].c1, init[a].c2>>
    OBVIOUS
  <2>3. right[p] = <<rows[p].idx, after[p].c1, after[p].c2>>
    OBVIOUS
  <2>4. after[p] = init[a]
    BY <1>1, <2>1
  <2>5. first[a].idx = rows[p].idx
    BY <2>1
  <2> HIDE DEF left, right
  <2> QED BY <2>1, <2>2, <2>3, <2>4, <2>5
<1>5. ASSUME NEW i \in Positions, NEW k \in 1..3 PROVE left[i][k] \in Int
  <2>1. /\ first[i].idx \in Int /\ init[i].c1 \in Int /\ init[i].c2 \in Int
    BY SizesAre, OrderIs DEF CiphertextType, Point
  <2>2. k = 1 \/ k = 2 \/ k = 3
    OBVIOUS
  <2>3. left[i] = <<first[i].idx, init[i].c1, init[i].c2>>
    OBVIOUS
  <2> HIDE DEF left
  <2> QED BY <2>1, <2>2, <2>3
<1>6. Len(challenges) = 3 /\ \A k \in 1..3 : challenges[k] \in Int
  <2>1. \A k \in 1..3 : k = 1 \/ k = 2 \/ k = 3
    OBVIOUS
  <2> QED BY <2>1
<1>7. left = [i \in Positions |-> left[i]] /\ right = [i \in Positions |-> right[i]]
  OBVIOUS
<1>8. CheckGrandProduct(left, right, challenges)
  <2> HIDE DEF left, right, challenges
  <2> QED BY <1>3, <1>4, <1>5, <1>6, <1>7, GrandProductHolds
<1> QED BY <1>8

\* rs_shuffle accepts the witness of every seed with every two challenges.
LEMMA ShuffleAccepted ==
    ASSUME NEW seed, NEW init \in [Positions -> CiphertextType],
           NEW alpha \in Int, NEW beta \in Int
    PROVE  RsShuffleSatisfied(init, ApplyPermutation(PrepareWitnessData(seed), init),
             PrepareWitnessDataCircuit(seed, PrepareWitnessData(seed), NumSamples), alpha, beta)
<1> DEFINE w == PrepareWitnessData(seed)
           bits == DeriveSplitBits(seed)
           after == ApplyPermutation(w, init)
           levels == PrepareWitnessDataCircuit(seed, w, NumSamples)
<1>1. PICK level : /\ LevelSteps(level, bits)
                   /\ \A l \in 1..LEVELS : w.levels[l] = level[l]
  BY LevelsAre
<1>2. \A l \in 1..LEVELS : levels[l] = CircuitLevel(level[l], bits[l])
  BY <1>1, CircuitLevelsAre
<1>3. after = [p \in Positions |-> init[w.levels[LEVELS].next[p].idx + 1]]
  BY AppliedPermutation
<1> HIDE DEF w, bits, levels, after
<1>4. \A l \in 1..LEVELS :
        /\ BucketsRise(level[l - 1].next) /\ RowsRight(level[l - 1].next)
        /\ LevelRight(level[l], level[l - 1].next, bits[l])
        /\ RowsRight(level[l].next)
  BY <1>1, LevelsRight
<1>5. \A l \in 1..LEVELS : VerifyShuffleLevel(levels[l], alpha, beta)
  <2> SUFFICES ASSUME NEW l \in 1..LEVELS PROVE VerifyShuffleLevel(levels[l], alpha, beta)
    OBVIOUS
  <2>1. VerifyShuffleLevel(CircuitLevel(level[l], bits[l]), alpha, beta)
    BY <1>4, LevelAccepted
  <2> QED BY <1>2, <2>1
<1>6. /\ LEVELS \in 1..LEVELS /\ 1 \in 1..LEVELS /\ 1 - 1 = 0
  BY SizesAre
<1>7. \A i \in Positions : levels[1].uns[i].idx = i - 1
  <2>1. LevelRight(level[1], InitialRows, bits[1])
    BY <1>1, <1>4, <1>6 DEF LevelSteps
  <2>2. levels[1] = [uns |-> level[1].uns, sorted |-> level[1].next]
    BY <1>2, <1>6, <2>1, CircuitLevelIs
  <2>3. \A i \in Positions : level[1].uns[i] = UnsortedRow(InitialRows, bits[1], i)
    BY <2>1 DEF LevelRight
  <2> QED BY <2>2, <2>3, UnsortedRowIs, InitialRowsAre
<1>8. levels[LEVELS].sorted = w.levels[LEVELS].next /\ RowsRight(levels[LEVELS].sorted)
  <2>1. levels[LEVELS] = [uns |-> level[LEVELS].uns, sorted |-> level[LEVELS].next]
    BY <1>2, <1>4, <1>6, CircuitLevelIs
  <2> QED BY <1>1, <1>4, <1>6, <2>1
<1>9. Times(beta, beta) \in Int
  <2>1. PICK x \in Int : x = beta * beta
    OBVIOUS
  <2>2. x % P \in Int
    BY SizesAre
  <2> QED BY <2>1, <2>2 DEF Times
<1>10. CheckGrandProduct(
         [i \in Positions |-> <<levels[1].uns[i].idx, init[i].c1, init[i].c2>>],
         [i \in Positions |-> <<levels[LEVELS].sorted[i].idx, after[i].c1, after[i].c2>>],
         <<alpha, beta, Times(beta, beta)>>)
  <2> DEFINE first == levels[1].uns
             rows == levels[LEVELS].sorted
             gamma == Times(beta, beta)
  <2>1. after = [p \in Positions |-> init[rows[p].idx + 1]]
    BY <1>3, <1>8
  <2> HIDE DEF gamma, first, rows
  <2>2. /\ \A i \in Positions : first[i].idx = i - 1
        /\ RowsRight(rows) /\ gamma \in Int
    BY <1>7, <1>8, <1>9 DEF gamma, first, rows
  <2>3. CheckGrandProduct([i \in Positions |-> <<first[i].idx, init[i].c1, init[i].c2>>],
                          [i \in Positions |-> <<rows[i].idx, after[i].c1, after[i].c2>>],
                          <<alpha, beta, gamma>>)
    BY <2>1, <2>2, DeckAccepted
  <2> QED BY <2>3 DEF gamma, first, rows
<1>11. RsShuffleSatisfied(init, after, levels, alpha, beta)
  BY <1>5, <1>10 DEF RsShuffleSatisfied
<1> QED BY <1>11 DEF w, after, levels

-----------------------------------------------------------------------------
(* The order that is proved is the stable partition by the bits.           *)

DeckRow == [idx : Int, bucket : Int]

LEMMA SplitDeckIs ==
    ASSUME NEW rows, NEW bits, \A p \in Positions : rows[p].bucket \in Int /\ rows[p].idx \in Int
    PROVE  LET key == SideKey(rows, bits)
               out == SplitDeck(rows, bits)
           IN /\ out \in [Positions -> DeckRow]
              /\ \A p \in Positions : /\ out[p].idx = rows[SortOrder(key)[p]].idx
                                      /\ out[p].bucket = key[SortOrder(key)[p]]
<1> DEFINE key == SideKey(rows, bits)
           order == SortOrder(key)
           f == [p \in Positions |-> [idx |-> rows[order[p]].idx, bucket |-> key[order[p]]]]
<1>1. SplitDeck(rows, bits) = Vec(f)
  BY DEF SplitDeck, SideKey, Bit
<1>2. key \in [Positions -> Int]
  <2>1. \A p \in Positions : Bit(bits, p) \in Int
    BY DEF Bit
  <2> QED BY <2>1 DEF SideKey
<1> HIDE DEF key
<1>3. order \in [Positions -> Positions]
  BY <1>2, SortOrderIs
<1> HIDE DEF order
<1>4. f \in [Positions -> DeckRow]
  BY <1>2, <1>3 DEF DeckRow
<1>5. \A p \in Positions : f[p].idx = rows[order[p]].idx /\ f[p].bucket = key[order[p]]
  OBVIOUS
<1>6. Vec(f) = f
  <2>1. f = [i \in 1..N |-> f[i]]
    BY SizesAre
  <2> HIDE DEF f
  <2> QED BY <2>1, SizesAre, VecOf
<1> HIDE DEF f
<1> QED BY <1>1, <1>4, <1>5, <1>6 DEF key, order

InitialDeck == Vec([i \in Positions |-> [idx |-> i - 1, bucket |-> 0]])

LEMMA InitialDeckIs ==
    /\ InitialDeck \in [Positions -> DeckRow]
    /\ \A p \in Positions : InitialDeck[p].idx = p - 1 /\ InitialDeck[p].bucket = 0
<1> DEFINE f == [i \in Positions |-> [idx |-> i - 1, bucket |-> 0]]
<1>1. /\ f \in [Positions -> DeckRow]
      /\ \A p \in Positions : f[p].idx = p - 1 /\ f[p].bucket = 0
  BY SizesAre DEF DeckRow
<1>2. Vec(f) = f
  <2>1. f = [i \in 1..N |-> f[i]]
    BY SizesAre
  <2> HIDE DEF f
  <2> QED BY <2>1, SizesAre, VecOf
<1>3. InitialDeck = Vec(f)
  BY DEF InitialDeck
<1> HIDE DEF f
<1> QED BY <1>1, <1>2, <1>3

\* split holds the decks of StablePartition.
SplitSteps(split, bits) ==
    /\ split[0] = InitialDeck
    /\ \A l \in 1..LEVELS : split[l] = SplitDeck(split[l - 1], bits[l])

LEMMA SplitsAre ==
    ASSUME NEW bits
    PROVE  \E split : /\ SplitSteps(split, bits)
                      /\ StablePartition(bits) = [p \in Positions |-> split[LEVELS][p].idx]
<1> DEFINE Step(u, l) == IF l = 0 THEN InitialDeck ELSE SplitDeck(u[l - 1], bits[l])
           Upto(u) == u = [l \in 0..LEVELS |-> Step(u, l)]
           V == [Positions -> DeckRow]
           G == [k \in Nat |-> [d \in V |-> SplitDeck(d, bits[k + 1])]]
<1>1. G \in [Nat -> [V -> V]] /\ \A k \in Nat : \A d \in V : G[k][d] = SplitDeck(d, bits[k + 1])
  <2>1. ASSUME NEW k \in Nat, NEW d \in V PROVE SplitDeck(d, bits[k + 1]) \in V
    <3>1. \A p \in Positions : d[p].bucket \in Int /\ d[p].idx \in Int
      BY DEF DeckRow
    <3> HIDE DEF V
    <3> QED BY <3>1, SplitDeckIs DEF V
  <2> HIDE DEF V
  <2> QED BY <2>1
<1>2. PICK f \in [Nat -> V] : f[0] = InitialDeck /\ \A k \in Nat : f[k + 1] = G[k][f[k]]
  <2> HIDE DEF G, V
  <2>1. InitialDeck \in V
    BY InitialDeckIs DEF V
  <2>2. \E f \in [Nat -> V] : GoesOn(f, InitialDeck, G)
    BY <1>1, <2>1, Recursion
  <2> QED BY <2>2 DEF GoesOn
<1> HIDE DEF G, V
<1>3. \E u : Upto(u)
  <2> DEFINE t == [l \in 0..LEVELS |-> f[l]]
             w == [l \in 0..LEVELS |-> Step(t, l)]
  <2>1. ASSUME NEW l \in 0..LEVELS PROVE t[l] = Step(t, l)
    <3>1. CASE l = 0
      BY <1>2, <3>1
    <3>2. CASE l # 0
      <4>1. l - 1 \in Nat /\ (l - 1) + 1 = l /\ l - 1 \in 0..LEVELS
        BY <3>2, SizesAre
      <4>2. f[(l - 1) + 1] = SplitDeck(f[l - 1], bits[(l - 1) + 1])
        BY <1>1, <1>2, <4>1
      <4>3. t[l] = f[l] /\ t[l - 1] = f[l - 1]
        BY <4>1
      <4> HIDE DEF t
      <4> QED BY <3>2, <4>1, <4>2, <4>3
    <3> QED BY <3>1, <3>2
  <2>2. /\ t = [l \in 0..LEVELS |-> t[l]] /\ w = [l \in 0..LEVELS |-> w[l]]
        /\ \A l \in 0..LEVELS : w[l] = Step(t, l)
    OBVIOUS
  <2> HIDE DEF t, w, Step
  <2>3. t = w
    BY <2>1, <2>2
  <2>4. Upto(t)
    BY <2>3, Zenon DEF w
  <2> HIDE DEF Upto
  <2> QED BY <2>4
<1> DEFINE split == CHOOSE u : Upto(u)
<1>4. Upto(split)
  <2> HIDE DEF Upto
  <2> QED BY <1>3
<1>5. StablePartition(bits) = [p \in Positions |-> split[LEVELS][p].idx]
  BY Zenon DEF StablePartition, InitialDeck
<1> HIDE DEF split
<1>6. \A l \in 0..LEVELS : split[l] = Step(split, l)
  BY <1>4, Zenon
<1> HIDE DEF Upto
<1>7. split[0] = InitialDeck
  BY <1>6, SizesAre
<1>8. \A l \in 1..LEVELS : l \in 0..LEVELS /\ l # 0
  BY SizesAre
<1>9. SplitSteps(split, bits)
  BY <1>6, <1>7, <1>8 DEF SplitSteps
<1> QED BY <1>5, <1>9

\* Level by level, the rows of the witness are in the order of the reference.
LEMMA LevelsSplit ==
    ASSUME NEW level, NEW split, NEW bits, LevelSteps(level, bits), SplitSteps(split, bits)
    PROVE  \A p \in Positions : level[LEVELS].next[p].idx = split[LEVELS][p].idx
<1> DEFINE Same(l) == \A p \in Positions : /\ level[l].next[p].idx = split[l][p].idx
                                           /\ level[l].next[p].bucket = split[l][p].bucket
           R == {l \in Nat : l <= LEVELS => Same(l)}
<1>1. 0 \in R
  BY InitialRowsAre, InitialDeckIs DEF LevelSteps, SplitSteps
<1>2. ASSUME NEW l \in Nat, l + 1 <= LEVELS, Same(l) PROVE Same(l + 1)
  <2> DEFINE rows == level[l].next
             deckRows == split[l]
             b == bits[l + 1]
             key == SideKey(rows, b)
             order == SortOrder(key)
  <2>1. l + 1 \in 1..LEVELS /\ (l + 1) - 1 = l
    BY <1>2, SizesAre
  <2>2. /\ BucketsRise(rows) /\ RowsRight(rows)
        /\ LevelRight(level[l + 1], rows, b)
    <3>1. /\ BucketsRise(level[(l + 1) - 1].next) /\ RowsRight(level[(l + 1) - 1].next)
          /\ LevelRight(level[l + 1], level[(l + 1) - 1].next, bits[l + 1])
      BY <2>1, LevelsRight
    <3> QED BY <2>1, <3>1
  <2>3. split[l + 1] = SplitDeck(deckRows, b)
    BY <2>1 DEF SplitSteps
  <2>4. \A p \in Positions : rows[p].idx = deckRows[p].idx /\ rows[p].bucket = deckRows[p].bucket
    BY <1>2
  <2> HIDE DEF rows, deckRows, b
  <2>5. \A p \in Positions : deckRows[p].bucket \in Int /\ deckRows[p].idx \in Int
    <3> SUFFICES ASSUME NEW p \in Positions
                 PROVE  deckRows[p].bucket \in Int /\ deckRows[p].idx \in Int
      OBVIOUS
    <3>1. rows[p].bucket \in Nat
      BY <2>2 DEF BucketsRise
    <3>2. rows[p].idx \in 0..N - 1
      BY <2>2 DEF RowsRight
    <3>3. rows[p].idx \in Int /\ rows[p].bucket \in Int
      BY <3>1, <3>2, SizesAre
    <3> QED BY <2>4, <3>3
  <2>6. SideKey(deckRows, b) = key
    BY <2>4 DEF SideKey
  <2>7. \A p \in Positions : /\ split[l + 1][p].idx = deckRows[order[p]].idx
                             /\ split[l + 1][p].bucket = key[order[p]]
    BY <2>3, <2>5, <2>6, SplitDeckIs
  <2>8. \A p \in Positions : /\ level[l + 1].next[p].idx = rows[order[p]].idx
                             /\ level[l + 1].next[p].bucket = key[order[p]]
    BY <2>2 DEF LevelRight
  <2>9. order \in [Positions -> Positions]
    BY <2>2, SideKeyIs, SortOrderIs
  <2> HIDE DEF key, order
  <2> QED BY <2>4, <2>7, <2>8, <2>9
<1>3. ASSUME NEW l \in Nat, l \in R PROVE l + 1 \in R
  <2> HIDE DEF Same
  <2> SUFFICES ASSUME l + 1 <= LEVELS PROVE Same(l + 1)
    OBVIOUS
  <2>1. l <= LEVELS
    BY SizesAre
  <2> QED BY <1>2, <1>3, <2>1
<1> HIDE DEF R
<1>4. LEVELS \in R
  BY <1>1, <1>3, SizesAre, SetInduction
<1> QED BY <1>4, SizesAre DEF R

LEMMA OrderAccepted ==
    ASSUME NEW seed
    PROVE  LET w == PrepareWitnessData(seed)
               levels == PrepareWitnessDataCircuit(seed, w, NumSamples)
           IN [p \in Positions |-> levels[LEVELS].sorted[p].idx] = StablePartition(w.bits_mat)
<1> DEFINE w == PrepareWitnessData(seed)
           bits == DeriveSplitBits(seed)
           levels == PrepareWitnessDataCircuit(seed, w, NumSamples)
<1>1. PICK level : /\ LevelSteps(level, bits) /\ w.bits_mat = bits
                   /\ \A l \in 1..LEVELS : w.levels[l] = level[l]
  BY LevelsAre
<1>2. \A l \in 1..LEVELS : levels[l] = CircuitLevel(level[l], bits[l])
  BY <1>1, CircuitLevelsAre
<1> HIDE DEF w, bits, levels
<1>3. PICK split : /\ SplitSteps(split, bits)
                   /\ StablePartition(bits) = [p \in Positions |-> split[LEVELS][p].idx]
  BY SplitsAre
<1>4. LEVELS \in 1..LEVELS
  BY SizesAre
<1>5. levels[LEVELS].sorted = level[LEVELS].next
  <2>1. LevelRight(level[LEVELS], level[LEVELS - 1].next, bits[LEVELS])
    BY <1>1, <1>4, LevelsRight
  <2> QED BY <1>2, <1>4, <2>1, CircuitLevelIs
<1>6. \A p \in Positions : levels[LEVELS].sorted[p].idx = split[LEVELS][p].idx
  BY <1>1, <1>3, <1>5, LevelsSplit
<1>7. [p \in Positions |-> levels[LEVELS].sorted[p].idx] = StablePartition(w.bits_mat)
  BY <1>1, <1>3, <1>6
<1> QED BY <1>7 DEF w, levels

-----------------------------------------------------------------------------
(* Shares.                                                                 *)

\* Euclid: a prime that divides a product divides a factor.
LEMMA PrimeDividesFactor ==
    ASSUME NEW a \in Int, NEW b \in Int, (a * b) % Q = 0, a % Q # 0
    PROVE  b % Q = 0
<1> DEFINE T == {d \in Nat \ {0} : (d * b) % Q = 0}
<1>1. PICK e \in Point : e = a % Q
  BY ResidueIsInt
<1>2. e \in T
  <2>1. ((a % Q) * b) % Q = (a * b) % Q
    BY TimesResidue
  <2>2. e \in Nat \ {0}
    BY <1>1, OrderIs DEF Point
  <2> QED BY <1>1, <2>1, <2>2
<1>3. PICK d \in T : \A j \in T : d <= j
  <2>1. T \in SUBSET Nat /\ T # {}
    BY <1>2
  <2> HIDE DEF T
  <2> QED BY <2>1, LeastNat
<1>4. d \in Nat \ {0} /\ (d * b) % Q = 0 /\ d <= Q - 1
  <2>1. e <= Q - 1 /\ e \in Int
    BY <1>1, OrderIs DEF Point
  <2>2. d \in Nat \ {0} /\ (d * b) % Q = 0
    OBVIOUS
  <2>3. d <= e
    BY <1>2, <1>3
  <2> QED BY <2>1, <2>2, <2>3, OrderIs
<1>5. CASE d = 1
  BY <1>4, <1>5
<1>6. CASE d # 1
  <2>1. Q % d # 0
    <3>1. d \in 2..(Q - 1)
      BY <1>4, <1>6, OrderIs
    <3> QED BY <3>1, TableAssumption DEF Prime
  <2>2. PICK r \in 1..(d - 1), k \in Int : Q = d * k + r
    <3>1. Q % d \in 0..(d - 1) /\ Q \div d \in Int /\ Q = d * (Q \div d) + (Q % d)
      BY <1>4, OrderIs
    <3>2. PICK r \in Int, k \in Int : r = Q % d /\ k = Q \div d
      BY <1>4, <3>1
    <3>3. r \in 1..(d - 1) /\ Q = d * k + r
      BY <1>4, <2>1, <3>1, <3>2
    <3> QED BY <3>3
  <2>3. PICK db \in Int : db = d * b
    BY <1>4
  <2>4. PICK m \in Int : db = m * Q
    <3>1. db = (db % Q) + (db \div Q) * Q /\ db \div Q \in Int
      BY <2>3, ResidueIs
    <3>2. db % Q = 0
      BY <1>4, <2>3
    <3>3. PICK m \in Int : m = db \div Q
      BY <3>1
    <3>4. db = m * Q
      <4>1. m * Q \in Int
        BY OrderIs
      <4> QED BY <3>1, <3>2, <3>3, <4>1
    <3> QED BY <3>4
  <2>5. r * b = 0 + (b - k * m) * Q
    <3>1. Q * b = (d * k + r) * b
      BY <2>2
    <3>2. (d * k + r) * b = k * (d * b) + r * b
      BY <1>4
    <3>3. k * (m * Q) = (k * m) * Q /\ Q * b = b * Q
      BY OrderIs
    <3>4. (b - k * m) * Q = b * Q - (k * m) * Q
      BY OrderIs
    <3>5. PICK rb \in Int, bQ \in Int, kmQ \in Int : rb = r * b /\ bQ = b * Q /\ kmQ = (k * m) * Q
      BY OrderIs
    <3>6. bQ = kmQ + rb
      BY <2>3, <2>4, <3>1, <3>2, <3>3, <3>5
    <3> QED BY <3>4, <3>5, <3>6
  <2>6. (r * b) % Q = 0
    <3>1. r * b \in Int /\ b - k * m \in Int
      BY OrderIs
    <3>2. (r * b) % Q = 0 % Q
      BY <2>5, <3>1, SameResidue
    <3> QED BY <3>2, OrderIs
  <2>7. r \in T
    BY <1>4, <2>6
  <2>8. d <= r
    BY <1>3, <2>7
  <2> QED BY <1>4, <2>8
<1> QED BY <1>5, <1>6

\* A share that verifies blinds for the player, whomever it was made for.
LEMMA AcceptedShare ==
    ASSUME NEW key \in Int, NEW y \in Int, NEW v \in Int, NEW delta \in 1..(Q - 1),
           Blindings(delta, 1, (key + v) % Q) # {},
           VerifyShare(EncryptionShare(delta, key, v), key, y)
    PROVE  /\ EncryptionShare(delta, key, v).alpha = delta
           /\ EncryptionShare(delta, key, v).beta = (((key + y) % Q) * delta) % Q
<1>1. PICK h \in Int, g \in Int : h = (key + v) % Q /\ g = (key + y) % Q /\ h \in Point /\ g \in Point
  <2>1. key + v \in Int /\ key + y \in Int
    OBVIOUS
  <2> QED BY <2>1, ResidueIsInt
<1>2. PICK w : w = Blinding(delta, 1, h) /\ w \in Blindings(delta, 1, h)
  BY <1>1 DEF Blinding
<1> DEFINE tg == (1 * w) % Q
           th == (h * w) % Q
<1>3. PICK e \in Int : e = Challenge(tg, th)
  <2>1. w \in Int
    BY <1>2, OrderIs DEF Blindings
  <2>2. 1 * w \in Int /\ h * w \in Int
    BY <2>1
  <2>3. tg \in Int /\ th \in Int
    BY <2>2, ResidueIsInt
  <2> HIDE DEF tg, th
  <2>4. PICK q \in Nat \ {0} : q = Q - 1
    BY OrderIs
  <2>5. PICK s \in Int : s = tg + 3 * th
    BY <2>3
  <2>6. s % q \in Int
    OBVIOUS
  <2> QED BY <2>4, <2>5, <2>6 DEF Challenge
<1>4. w \in Int /\ delta \in Int
  BY <1>2, OrderIs DEF Blindings
<1>5. PICK z \in Int, ed \in Int : ed = e * delta /\ z = w + ed
  BY <1>4
<1>6. z % Q # 0
  BY <1>2, <1>3, <1>5 DEF Blindings
<1> DEFINE share == EncryptionShare(delta, key, v)
<1>7. /\ share.alpha = delta /\ share.beta = (h * delta) % Q
      /\ share.proof.t_g = tg /\ share.proof.t_h = th /\ share.proof.z = z % Q
  BY <1>1, <1>2, <1>3, <1>5 DEF EncryptionShare, ChaumPedersenGenerate
<1>8. (g * (z % Q)) % Q = (th + ((h * delta) % Q) * e) % Q
  <2> HIDE DEF share, tg, th
  <2> QED BY <1>1, <1>3, <1>7 DEF VerifyShare, ChaumPedersenVerify, share
<1>9. PICK hw \in Int, hd \in Int, gz \in Int, hz \in Int, hed \in Int :
         /\ hw = h * w /\ hd = h * delta /\ gz = g * z /\ hz = h * z
         /\ hed = e * hd /\ hz = hw + hed
  <2>1. h * w \in Int /\ h * delta \in Int /\ g * z \in Int /\ h * z \in Int
    BY <1>4
  <2>2. PICK hd \in Int : hd = h * delta
    BY <2>1
  <2>3. e * hd \in Int
    BY <2>2
  <2>4. e * (h * delta) = h * (e * delta)
    BY <1>4
  <2>5. h * (w + ed) = h * w + h * ed
    BY <1>4
  <2>6. h * z = h * w + e * hd
    BY <1>5, <2>2, <2>4, <2>5
  <2> QED BY <2>1, <2>2, <2>3, <2>6
<1>10. gz % Q = hz % Q
  <2>1. (g * (z % Q)) % Q = gz % Q
    BY <1>9, TimesResidue
  <2>2. th = hw % Q /\ (h * delta) % Q = hd % Q
    BY <1>9
  <2>3. PICK t \in Int : t = hw % Q
    BY ResidueIsInt
  <2>4. (t + (hd % Q) * e) % Q = (t + e * hd) % Q
    <3>1. (hd % Q) * e = e * (hd % Q)
      <4>1. hd % Q \in Int
        BY ResidueIsInt
      <4> QED BY <4>1
    <3>2. (t + e * (hd % Q)) % Q = (t + e * hd) % Q
      BY MinusTimesResidue
    <3> QED BY <3>1, <3>2
  <2>5. ((hw % Q) + hed) % Q = (hw + hed) % Q
    BY AddResidue
  <2> HIDE DEF th
  <2> QED BY <1>8, <1>9, <2>1, <2>2, <2>3, <2>4, <2>5
<1>11. ((g - h) * z) % Q = 0
  <2>1. PICK k \in Int : gz = hz + k * Q
    BY <1>10, Difference
  <2>2. (g - h) * z = gz - hz
    BY <1>9
  <2>3. gz - hz = 0 + k * Q
    <3>1. k * Q \in Int
      BY OrderIs
    <3> QED BY <2>1, <3>1
  <2>4. (gz - hz) % Q = 0 % Q
    BY <2>3, SameResidue
  <2> QED BY <2>2, <2>4, OrderIs
<1>12. (g - h) % Q = 0
  <2>1. PICK f \in Int : f = g - h
    OBVIOUS
  <2>2. (f * z) % Q = 0
    BY <1>11, <2>1
  <2>3. f % Q = 0
    BY <1>6, <2>2, PrimeDividesFactor
  <2> QED BY <2>1, <2>3
<1>13. g = h
  <2>1. PICK f \in Int : f = g - h
    OBVIOUS
  <2>2. PICK k \in Int : f = 0 + k * Q
    <3>1. f % Q = 0 % Q
      BY <1>12, <2>1, OrderIs
    <3> QED BY <3>1, Difference
  <2>3. f < Q /\ f > 0 - Q
    BY <1>1, <2>1, OrderIs DEF Point
  <2>4. k = 0
    BY <2>2, <2>3, OrderIs
  <2>5. f = 0
    BY <2>2, <2>4, OrderIs
  <2> QED BY <2>1, <2>5
<1> QED BY <1>1, <1>7, <1>13

\* The shares that blind a card verify for the player.
LEMMA DealtCard ==
    ASSUME NEW ct \in CiphertextType, NEW key \in Int, NEW ps \in Nat, NEW n \in Nat,
           NEW shares, Len(shares) = n,
           \A i \in 1..n :
              /\ shares[i].alpha \in Int
              /\ VerifyShare(shares[i], key, ps % Q) =>
                   shares[i].beta = (((key + (ps % Q)) % Q) * shares[i].alpha) % Q,
           AggregatePlayerEncryptions(ct, shares, key, ps % Q).status = "dealt"
    PROVE  LET c == AggregatePlayerEncryptions(ct, shares, key, ps % Q)
           IN /\ c.src = ct /\ c.d \in Point
              /\ c.a_u = (ct.c1 + c.d) % Q
              /\ c.b_u = (ct.c2 + (key + ps) * c.d) % Q
<1> DEFINE c == AggregatePlayerEncryptions(ct, shares, key, ps % Q)
           alphas == [i \in 1..n |-> shares[i].alpha]
           betas == [i \in 1..n |-> shares[i].beta]
<1>1. \A i \in 1..n : VerifyShare(shares[i], key, ps % Q)
  BY DEF AggregatePlayerEncryptions, Rejected
<1>2. /\ c.src = ct /\ c.d = PointSum(alphas)
      /\ c.a_u = (ct.c1 + PointSum(alphas)) % Q /\ c.b_u = (ct.c2 + PointSum(betas)) % Q
  BY <1>1 DEF AggregatePlayerEncryptions
<1> HIDE DEF c
<1>3. PICK h \in Int : h = (key + (ps % Q)) % Q /\ h = (key + ps) % Q
  <2>1. (key + (ps % Q)) % Q = (key + ps) % Q
    BY AddResidue
  <2>2. (key + ps) % Q \in Int
    BY ResidueIsInt
  <2> QED BY <2>1, <2>2
<1>4. Len(alphas) = n /\ Len(betas) = n
  OBVIOUS
<1>5. \A i \in 1..n : alphas[i] \in Int /\ betas[i] = (h * alphas[i]) % Q
  BY <1>1, <1>3
<1> HIDE DEF alphas, betas
<1>6. PointSum(alphas) \in Point
  BY <1>4, <1>5, SumIsPoint
<1>7. PointSum(betas) = (h * PointSum(alphas)) % Q
  <2>1. Scaled(alphas, betas, n, h)
    BY <1>4, <1>5 DEF Scaled
  <2> QED BY <2>1, ScaledSum
<1>8. PICK d \in Int : d = PointSum(alphas)
  BY <1>6, OrderIs DEF Point
<1>9. PICK e \in Int : e = ct.c2
  BY OrderIs DEF CiphertextType, Point
<1>10. (e + ((h * d) % Q)) % Q = (e + h * d) % Q
  <2>1. PICK hd \in Int : hd = h * d
    OBVIOUS
  <2>2. (e + (hd % Q)) % Q = (e + hd) % Q
    BY AddResidue
  <2> QED BY <2>1, <2>2
<1>11. (e + h * d) % Q = (e + (key + ps) * d) % Q
  <2>1. PICK s \in Int : s = key + ps
    OBVIOUS
  <2>2. (e + d * (s % Q)) % Q = (e + d * s) % Q
    BY MinusTimesResidue
  <2>3. h = s % Q /\ d * h = h * d /\ d * s = s * d
    BY <1>3, <2>1
  <2> QED BY <2>1, <2>2, <2>3
<1>12. c.b_u = (e + (key + ps) * d) % Q
  BY <1>2, <1>7, <1>8, <1>9, <1>10, <1>11
<1>13. c.b_u = (ct.c2 + (key + ps) * c.d) % Q
  BY <1>2, <1>8, <1>9, <1>12
<1> QED BY <1>2, <1>6, <1>13 DEF c

-----------------------------------------------------------------------------
(* Opening.                                                                *)

\* One share of every member, when there are no more shares than members.
LEMMA EveryMemberOnce ==
    ASSUME NEW n \in 0..Members, NEW from \in [1..n -> MemberIndices],
           {from[i] : i \in 1..n} = MemberIndices
    PROVE  n = Members /\ \A i, j \in 1..n : from[i] = from[j] => i = j
<1>1. /\ IsFiniteSet(1..n) /\ Cardinality(1..n) = n
      /\ IsFiniteSet(MemberIndices) /\ Cardinality(MemberIndices) = Members
  BY SizesAre, FS_Interval
<1>2. from \in Surjection(1..n, MemberIndices)
  BY Fun_IsSurj
<1>3. Cardinality(MemberIndices) <= Cardinality(1..n)
  BY <1>1, <1>2, FS_Surjection
<1>4. n = Members
  BY <1>1, <1>3, SizesAre
<1>5. from \in Injection(1..n, MemberIndices)
  BY <1>1, <1>2, <1>4, FS_Surjection
<1> QED BY <1>4, <1>5, Fun_InjectionProperties

LEMMA OnceIsEveryMember ==
    ASSUME NEW from \in [1..Members -> MemberIndices],
           \A i, j \in 1..Members : from[i] = from[j] => i = j
    PROVE  {from[i] : i \in 1..Members} = MemberIndices
<1>1. /\ IsFiniteSet(1..Members) /\ Cardinality(1..Members) = Members
      /\ IsFiniteSet(MemberIndices) /\ Cardinality(MemberIndices) = Members
  BY SizesAre, FS_Interval
<1>2. from \in Injection(1..Members, MemberIndices)
  BY Fun_IsInj
<1>3. from \in Surjection(1..Members, MemberIndices)
  BY <1>1, <1>2, FS_Injection
<1>4. ASSUME NEW m \in MemberIndices PROVE \E i \in 1..Members : from[i] = m
  BY <1>3, Zenon DEF Surjection
<1> QED BY <1>4

\* The shares of one card, from the members given by from.
SharesFrom(c, x, n, from) ==
    [i \in 1..n |-> DecryptionShare(c, x[from[i]], from[i])]

SharesRight(shares, c, x, n, from) ==
    /\ Len(shares) = n
    /\ \A i \in 1..n : /\ shares[i].member_index = from[i]
                      /\ shares[i].share = (c.a_u * x[from[i]]) % Q

LEMMA SharesFromAre ==
    ASSUME NEW c, NEW x, NEW n \in Nat, NEW from
    PROVE  SharesRight(SharesFrom(c, x, n, from), c, x, n, from)
  BY DEF SharesRight, SharesFrom, DecryptionShare

\* Shares that are not one of every member do not open a card.
LEMMA OpensOnlyWhole ==
    ASSUME NEW c, NEW x, NEW ps, NEW n \in 0..Members, NEW from \in [1..n -> MemberIndices],
           {from[i] : i \in 1..n} # MemberIndices
    PROVE  ~DecryptCard(c, ps, SharesFrom(c, x, n, from), Members).ok
<1> DEFINE shares == SharesFrom(c, x, n, from)
<1>1. Len(shares) = n /\ \A i \in 1..n : shares[i].member_index = from[i]
  <2>1. n \in Nat
    BY SizesAre
  <2>2. SharesRight(shares, c, x, n, from)
    BY <2>1, SharesFromAre
  <2> QED BY <2>2 DEF SharesRight
<1> HIDE DEF shares
<1>2. ~AggregateDecryptionShares(shares, Members).ok
  <2>1. CASE n # Members
    BY <1>1, <2>1 DEF AggregateDecryptionShares, Error
  <2>2. CASE n = Members
    <3>1. \E i, k \in 1..Members : i # k /\ from[i] = from[k]
      BY <2>2, OnceIsEveryMember
    <3>2. \E i, k \in 1..Len(shares) : i # k /\ shares[i].member_index = shares[k].member_index
      BY <1>1, <2>2, <3>1
    <3> QED BY <3>2 DEF AggregateDecryptionShares, Error
  <2> QED BY <2>1, <2>2
<1> QED BY <1>2 DEF DecryptCard, shares

\* The key of the committee, the key of the player and the blinding cancel.
LEMMA KeysCancel ==
    ASSUME NEW a \in Int, NEW b \in Int, NEW d \in Int, NEW k \in Int, NEW ps \in Int
    PROVE  (((b + (k + ps) * d) % Q) - (((a + d) * k) % Q) - d * ps) % Q = (b - a * k) % Q
<1>1. PICK f \in Int, g \in Int, h \in Int : f = b + (k + ps) * d /\ g = (a + d) * k /\ h = d * ps
  OBVIOUS
<1>2. ((f % Q) - (g % Q) - h) % Q = (f - g - h) % Q
  <2>1. PICK u \in Int, v \in Int : u = g % Q /\ v = f % Q
    BY ResidueIsInt
  <2>2. PICK y \in Int, z \in Int : y = u + h /\ z = f - h
    OBVIOUS
  <2>3. ((f % Q) - y) % Q = (f - y) % Q /\ (z - (g % Q)) % Q = (z - g) % Q
    BY AddResidue
  <2>4. v - u - h = v - y /\ f - y = z - u /\ z - g = f - g - h
    BY <2>2
  <2>5. ((f % Q) - (g % Q) - h) % Q = (v - y) % Q
    BY <2>1, <2>4
  <2>6. (v - y) % Q = (z - u) % Q /\ (z - u) % Q = (f - g - h) % Q
    BY <2>1, <2>3, <2>4
  <2> QED BY <2>5, <2>6
<1>3. f - g - h = b - a * k
  <2>1. (k + ps) * d = k * d + ps * d /\ (a + d) * k = a * k + d * k
    OBVIOUS
  <2>2. k * d = d * k /\ ps * d = d * ps
    OBVIOUS
  <2>3. PICK p \in Int, q \in Int, t \in Int : p = k * d /\ q = d * ps /\ t = a * k
    OBVIOUS
  <2>4. f = b + (p + q) /\ g = t + p /\ h = q
    BY <1>1, <2>1, <2>2, <2>3
  <2>5. f - g - h = b - t
    BY <2>4
  <2>6. t = a * k
    BY <2>3
  <2> QED BY <2>5, <2>6, Zenon
<1> QED BY <1>1, <1>2, <1>3

\* One share of every member opens the card that was dealt.
LEMMA OpensTheCard ==
    ASSUME NEW x \in [MemberIndices -> Int], NEW ps \in Nat, NEW c,
           c.src \in CiphertextType, PlainUnder(x, c.src) \in 0..(N - 1), c.d \in Point,
           c.a_u = (c.src.c1 + c.d) % Q,
           c.b_u = (c.src.c2 + (JointKey(x) + ps) * c.d) % Q,
           NEW n \in 0..Members, NEW from \in [1..n -> MemberIndices],
           {from[i] : i \in 1..n} = MemberIndices
    PROVE  DecryptCard(c, ps, SharesFrom(c, x, n, from), Members)
             = [ok |-> TRUE, value |-> PlainUnder(x, c.src)]
<1> DEFINE shares == SharesFrom(c, x, n, from)
           s == [i \in 1..n |-> x[from[i]]]
           r == [i \in 1..n |-> shares[i].share]
<1>1. n = Members /\ n \in Nat /\ \A i, j \in 1..n : from[i] = from[j] => i = j
  BY EveryMemberOnce, SizesAre
<1>2. /\ Len(shares) = n
      /\ \A i \in 1..n : /\ shares[i].member_index = from[i]
                       /\ shares[i].share = (c.a_u * x[from[i]]) % Q
  <2>1. n \in Nat
    BY <1>1
  <2>2. SharesRight(shares, c, x, n, from)
    BY <2>1, SharesFromAre
  <2> HIDE DEF shares
  <2> QED BY <2>2 DEF SharesRight
<1>3. PICK k \in Int, a \in Int, b \in Int, d \in Int :
         k = JointKey(x) /\ a = c.src.c1 /\ b = c.src.c2 /\ d = c.d
  <2>1. JointKey(x) \in Int
    BY JointKeyIs, OrderIs DEF Point
  <2>2. c.src.c1 \in Int /\ c.src.c2 \in Int /\ c.d \in Int
    BY OrderIs DEF CiphertextType, Point
  <2> QED BY <2>1, <2>2
<1>4. PICK au \in Int : au = c.a_u /\ au = (a + d) % Q
  <2>1. a + d \in Int
    OBVIOUS
  <2> QED BY <1>3, <2>1, ResidueIsInt
<1> HIDE DEF shares
<1>5. Len(s) = n /\ Len(r) = n
  BY <1>1
<1>6. \A i \in 1..n : s[i] \in Int /\ r[i] = (au * s[i]) % Q
  BY <1>2, <1>4
<1>7. PointSum(s) = k
  <2>1. \A m \in 0..(Members - 1) : x[m] \in Int
    BY SizesAre
  <2>2. from \in [1..Members -> 0..(Members - 1)]
    BY <1>1, SizesAre
  <2>3. ASSUME NEW m \in 0..(Members - 1) PROVE \E i \in 1..Members : from[i] = m
    <3>1. m \in {from[i] : i \in 1..n}
      BY SizesAre
    <3> QED BY <1>1, <3>1
  <2>4. PointSum(Reordered(x, from, Members)) = PointSum(InOrder(x, Members))
    <3>1. \A i, j \in 1..Members : from[i] = from[j] => i = j
      BY <1>1
    <3>2. Permutes(from, Members) /\ Members \in Nat
      BY <2>2, <2>3, <3>1, SizesAre DEF Permutes
    <3> QED BY <2>1, <3>2, ReorderedSum
  <2> QED BY <1>1, <1>3, <2>4 DEF JointKey, InOrder, Reordered
<1>8. PointSum(r) = (au * k) % Q
  <2>1. Scaled(s, r, n, au)
    <3> HIDE DEF s, r
    <3> QED BY <1>1, <1>5, <1>6 DEF Scaled
  <2> HIDE DEF s, r
  <2> QED BY <1>7, <2>1, ScaledSum
<1>9. AggregateDecryptionShares(shares, Members) = [ok |-> TRUE, mu |-> PointSum(r)]
  <2>1. Len(shares) = Members
    BY <1>1, <1>2
  <2>2. ~\E i \in 1..Len(shares) : shares[i].member_index >= Members
    BY <1>1, <1>2, SizesAre, SMTT(30)
  <2>3. ~\E i, j \in 1..Len(shares) : i # j /\ shares[i].member_index = shares[j].member_index
    BY <1>1, <1>2
  <2>4. [i \in 1..Len(shares) |-> shares[i].share] = r
    BY <1>1, <1>2
  <2> HIDE DEF r
  <2> QED BY <2>1, <2>2, <2>3, <2>4 DEF AggregateDecryptionShares
<1> HIDE DEF s, r
<1>10. PICK mu \in Int : mu = PointSum(r) /\ mu = ((a + d) * k) % Q
  <2>1. (((a + d) % Q) * k) % Q = ((a + d) * k) % Q
    <3>1. a + d \in Int
      OBVIOUS
    <3> QED BY <3>1, TimesResidue
  <2>2. ((a + d) * k) % Q \in Int
    <3>1. (a + d) * k \in Int
      OBVIOUS
    <3> QED BY <3>1, ResidueIsInt
  <2> QED BY <1>4, <1>8, <2>1, <2>2
<1>11. (c.b_u - mu - c.d * ps) % Q = PlainUnder(x, c.src)
  <2>1. c.b_u = (b + (k + ps) * d) % Q /\ c.d * ps = d * ps
    BY <1>3
  <2>2. PlainUnder(x, c.src) = (b - a * k) % Q
    BY <1>3, PlainIs
  <2>3. (((b + (k + ps) * d) % Q) - (((a + d) * k) % Q) - d * ps) % Q = (b - a * k) % Q
    BY KeysCancel, SMTT(30)
  <2>4. mu = ((a + d) * k) % Q
    BY <1>10
  <2> QED BY <2>1, <2>2, <2>3, <2>4, Zenon
<1>12. PlainUnder(x, c.src) < N
  BY SizesAre
<1>13. DecryptCard(c, ps, shares, Members) = Lookup((c.b_u - mu - c.d * ps) % Q)
  BY <1>9, <1>10 DEF DecryptCard
<1> QED BY <1>11, <1>12, <1>13 DEF Lookup, shares

-----------------------------------------------------------------------------
(* The invariant.                                                          *)

LEMMA GameIs ==
    ASSUME NEW g \in Games
    PROVE  /\ g.secrets \subseteq Point
           /\ \A seed \in g.sortSeeds : seed \in Nat \X Nat
           /\ g.rs \in [Positions -> Point] /\ g.rs \in [Positions -> Nat]
           /\ \A u \in DOMAIN g.seat : /\ u \in Players /\ g.seat[u] \in Positions
                                     /\ g.playerSecret[u] \in Nat
           /\ \A j \in MemberIndices, u \in DOMAIN g.seat :
                 /\ g.delta[<<j, u>>] \in 1..(Q - 1)
                 /\ \A h \in Point : Blindings(g.delta[<<j, u>>], 1, h) # {}
<1>1. /\ g.secrets \subseteq 1..(Q - 1)
      /\ g.sortSeeds \cup g.rsSeeds \subseteq Nat \X Nat
      /\ g.rs \in [Positions -> 0..(Q - 1)]
      /\ DOMAIN g.seat \subseteq Players
      /\ g.seat \in [DOMAIN g.seat -> Positions]
      /\ g.playerSecret \in [DOMAIN g.seat -> Nat]
      /\ g.delta \in [MemberIndices \X DOMAIN g.seat -> 1..(Q - 1)]
  BY TableAssumption
<1>2. g.secrets \subseteq Point
  BY <1>1, OrderIs DEF Point
<1>3. g.rs \in [Positions -> Point] /\ g.rs \in [Positions -> Nat]
  <2>1. 0..(Q - 1) \subseteq Nat
    BY OrderIs
  <2> QED BY <1>1, <2>1 DEF Point
<1>4. ASSUME NEW j \in MemberIndices, NEW u \in DOMAIN g.seat
      PROVE  /\ g.delta[<<j, u>>] \in 1..(Q - 1)
             /\ \A h \in Point : Blindings(g.delta[<<j, u>>], 1, h) # {}
  <2>1. <<j, u>> \in DOMAIN g.delta /\ g.delta[<<j, u>>] \in 1..(Q - 1)
    BY <1>1
  <2> QED BY <2>1, BlindingAssumption DEF Point
<1> QED BY <1>1, <1>2, <1>3, <1>4

\* What every step may take from the invariant.
LEMMA FromCardInv ==
    ASSUME CardInv
    PROVE  /\ game \in Games /\ secret \in [MemberIndices -> Int] /\ JointKey(secret) \in Int
           /\ secret \in [MemberIndices -> Point] /\ deck \in [Positions -> CiphertextType]
           /\ DeckKeepsCards
           /\ \A i \in Positions : Plain(deck[i]) \in 0..(N - 1)
           /\ pk = NoKey => \A u \in Players : card[u].status # "dealt" /\ ~hand[u].right
<1>1. /\ game \in Games /\ secret \in [MemberIndices -> Point]
      /\ deck \in [Positions -> CiphertextType]
  BY DEF CardInv, CardTypes
<1>2. secret \in [MemberIndices -> Int]
  BY <1>1, OrderIs DEF Point
<1>3. JointKey(secret) \in Int
  BY <1>2, JointKeyIs, OrderIs DEF Point
<1>4. DeckKeepsCards
  <2>1. CASE pk = NoKey
    <3>1. \A i \in Positions : deck[i] = Ciphertext(0, i - 1)
      BY <2>1 DEF CardInv, DeckRight
    <3>2. \A i \in Positions : i - 1 \in Point /\ i - 1 \in 0..(N - 1)
      BY SizesAre, OrderIs DEF Point
    <3>3. \A i \in Positions : Plain(deck[i]) = i - 1
      BY <1>2, <3>1, <3>2, PlainOfPoint DEF Plain
    <3>4. \A m \in 0..(N - 1) : m + 1 \in Positions /\ (m + 1) - 1 = m
      BY SizesAre
    <3> QED BY <3>2, <3>3, <3>4 DEF DeckKeepsCards
  <2>2. CASE pk # NoKey
    BY <2>2 DEF CardInv, DeckRight
  <2> QED BY <2>1, <2>2
<1>5. \A i \in Positions : Plain(deck[i]) \in 0..(N - 1)
  BY <1>4 DEF DeckKeepsCards
<1>6. pk = NoKey => \A u \in Players : card[u].status # "dealt" /\ ~hand[u].right
  BY DEF CardInv, CardRight, HandRight
<1> QED BY <1>1, <1>2, <1>3, <1>4, <1>5, <1>6

LEMMA InitCardInv == Init => CardInv
<1> SUFFICES ASSUME Init PROVE CardInv
  OBVIOUS
<1> DEFINE fresh == [i \in Positions |-> Ciphertext(0, i - 1)]
<1>1. \A i \in Positions : fresh[i] \in CiphertextType
  BY SizesAre, OrderIs DEF Ciphertext, CiphertextType, Point
<1>2. fresh \in [Positions -> CiphertextType] /\ deck = fresh
  <2>1. fresh \in [Positions -> CiphertextType]
    BY <1>1
  <2>2. Vec(fresh) = fresh
    <3> HIDE DEF fresh
    <3> QED BY <2>1, SizesAre, VecIs
  <2> QED BY <2>1, <2>2 DEF Init
<1>3. CardTypes
  BY <1>2, OrderIs DEF Init, CardTypes, Point
<1>4. KeyRight /\ DeckRight
  BY <1>2 DEF Init, KeyRight, DeckRight
<1>5. ASSUME NEW u \in Players PROVE CardRight(u) /\ HandRight(u)
  BY DEF Init, CardRight, HandRight, NotDealt, NotOpened
<1>6. OpensToDealtCard
  BY DEF Init, OpensToDealtCard, NotOpened, Error
<1> QED BY <1>3, <1>4, <1>5, <1>6 DEF CardInv

\* Keys are drawn before there is a joint key, and no card is dealt yet.
LEMMA DrawKeyKeeps ==
    ASSUME CardInv, NEW j \in MemberIndices, DrawKey(j)
    PROVE  CardInv'
<1>1. pk = NoKey
  BY DEF DrawKey, CardInv, KeyRight, Drawn
<1>2. secret' \in [MemberIndices -> Point]
  <2>1. PICK s \in game.secrets : secret' = [secret EXCEPT ![j] = s]
    BY DEF DrawKey
  <2> QED BY <2>1, FromCardInv, GameIs
<1>3. UNCHANGED <<game, pk, deck, card, hand>>
  BY DEF DrawKey
<1>4. CardTypes'
  BY <1>2, <1>3 DEF CardInv, CardTypes, CiphertextType
<1>5. KeyRight'
  BY <1>1, <1>3 DEF KeyRight
<1>6. DeckRight'
  BY <1>1, <1>3 DEF CardInv, DeckRight
<1>7. ASSUME NEW u \in Players PROVE (CardRight(u) /\ HandRight(u))'
  BY <1>1, <1>3, FromCardInv DEF CardRight, HandRight
<1>8. OpensToDealtCard'
  BY <1>1, <1>3, FromCardInv DEF CardInv, OpensToDealtCard
<1> QED BY <1>4, <1>5, <1>6, <1>7, <1>8 DEF CardInv

LEMMA MakeGlobalKeyKeeps ==
    ASSUME CardInv, MakeGlobalKey
    PROVE  CardInv'
<1> DEFINE x == secret
           f == [i \in Positions |-> EncryptScalar(i - 1, game.rs[i], JointKey(secret))]
<1>1. pk = NoKey /\ Drawn /\ pk' = JointKey(secret) /\ deck' = Vec(f)
      /\ UNCHANGED <<game, secret, card, hand>>
  BY DEF MakeGlobalKey
<1>2. ASSUME NEW i \in Positions
      PROVE  f[i] \in CiphertextType /\ PlainUnder(secret, f[i]) = i - 1
  <2>1. i - 1 \in Point
    BY SizesAre, OrderIs DEF Point
  <2>2. game.rs[i] \in Nat
    BY FromCardInv, GameIs
  <2>3. secret \in [MemberIndices -> Int]
    BY FromCardInv
  <2>4. Ciphertext(0, i - 1) \in CiphertextType /\ PlainUnder(secret, Ciphertext(0, i - 1)) = i - 1
    BY <2>1, <2>3, PlainOfPoint
  <2>5. f[i] = AddEncryptionLayer(Ciphertext(0, i - 1), game.rs[i], JointKey(secret))
    BY DEF EncryptScalar
  <2> HIDE DEF f
  <2> QED BY <2>2, <2>3, <2>4, <2>5, LayerKeepsPlain
<1>3. f \in [Positions -> CiphertextType]
  BY <1>2
<1> HIDE DEF f
<1>4. deck' = f
  BY <1>1, <1>3, SizesAre, VecIs
<1>5. CardTypes'
  BY <1>1, <1>3, <1>4 DEF CardInv, CardTypes, CiphertextType
<1>6. KeyRight'
  BY <1>1 DEF KeyRight, Drawn
<1>7. DeckRight'
  <2>1. DeckKeepsCards'
    <3>1. \A i \in Positions : Plain(deck[i])' = i - 1 /\ i - 1 \in 0..(N - 1)
      BY <1>1, <1>2, <1>4, SizesAre DEF Plain
    <3>2. \A m \in 0..(N - 1) : m + 1 \in Positions /\ (m + 1) - 1 = m
      BY SizesAre
    <3> QED BY <3>1, <3>2 DEF DeckKeepsCards
  <2>2. JointKey(secret) # NoKey
    BY FromCardInv, JointKeyIs, OrderIs DEF Point, NoKey
  <2> QED BY <1>1, <2>1, <2>2 DEF DeckRight
<1>8. ASSUME NEW u \in Players PROVE (CardRight(u) /\ HandRight(u))'
  BY <1>1, FromCardInv DEF CardRight, HandRight
<1>9. OpensToDealtCard'
  BY <1>1, FromCardInv DEF CardInv, OpensToDealtCard
<1> QED BY <1>5, <1>6, <1>7, <1>8, <1>9 DEF CardInv

\* A step that keeps the cards of the deck under the joint key, and the keys,
\* the dealt cards and the hands, keeps the invariant.
LEMMA KeepsCardsKeeps ==
    ASSUME CardInv, pk # NoKey, UNCHANGED <<game, secret, pk, card, hand>>,
           deck' \in [Positions -> CiphertextType],
           {PlainUnder(secret, deck'[i]) : i \in Positions}
             = {PlainUnder(secret, deck[i]) : i \in Positions}
    PROVE  CardInv'
<1>1. CardTypes'
  BY DEF CardInv, CardTypes, CiphertextType
<1>2. KeyRight'
  BY DEF CardInv, KeyRight, Drawn
<1>3. DeckRight'
  <2>1. {PlainUnder(secret, deck[i]) : i \in Positions} = 0..(N - 1)
    BY FromCardInv DEF DeckKeepsCards, Plain
  <2> QED BY <2>1 DEF DeckRight, DeckKeepsCards, Plain
<1>4. ASSUME NEW u \in Players PROVE (CardRight(u) /\ HandRight(u))'
  BY DEF CardInv, CardRight, HandRight, Plain
<1>5. OpensToDealtCard'
  BY DEF CardInv, OpensToDealtCard, Plain
<1> QED BY <1>1, <1>2, <1>3, <1>4, <1>5 DEF CardInv

\* The deck of a proved shuffle: re-encrypted, then sorted.
LEMMA SortShuffleKeeps ==
    ASSUME CardInv, NEW j \in MemberIndices, SortShuffle(j)
    PROVE  CardInv'
<1> DEFINE layered == Reencrypt(deck, game.rs, JointKey(secret))
<1>1. pk # NoKey /\ pk = JointKey(secret) /\ UNCHANGED <<game, secret, pk, card, hand>>
  BY DEF SortShuffle, CardInv, KeyRight
<1>2. \/ deck' = deck
      \/ \E seed \in game.sortSeeds :
           deck' = SortByValue(layered, GenerateRandomValues(seed, N))
  <2>1. PICK seed \in game.sortSeeds, made \in {"Groth16", "Spartan", "Both"},
             used \in {"Groth16", "Spartan", "Both"} :
          LET out == ProveWithSetup(seed, deck, game.rs, pk, Setup(made), used)
          IN IF out.ok THEN deck' = out.sorted ELSE deck' = deck
    BY DEF SortShuffle
  <2> DEFINE out == ProveWithSetup(seed, deck, game.rs, pk, Setup(made), used)
             pf == ProveAsSubprotocol(seed, deck, game.rs, pk)
  <2>2. out.ok => out = pf
    BY Zenon DEF ProveWithSetup, Error
  <2>3. pf.ok => pf.sorted = SortByValue(layered, GenerateRandomValues(seed, N))
    BY <1>1 DEF ProveAsSubprotocol, Error
  <2> HIDE DEF out, pf
  <2>4. CASE out.ok
    <3>1. deck' = out.sorted
      BY <2>1, <2>4 DEF out
    <3> QED BY <2>2, <2>3, <2>4, <3>1
  <2>5. CASE ~out.ok
    BY <2>1, <2>5 DEF out
  <2> QED BY <2>4, <2>5
<1>3. /\ layered \in [Positions -> CiphertextType]
      /\ {PlainUnder(secret, layered[i]) : i \in Positions}
           = {PlainUnder(secret, deck[i]) : i \in Positions}
  <2>1. /\ secret \in [MemberIndices -> Int] /\ deck \in [Positions -> CiphertextType]
        /\ game.rs \in [Positions -> Nat]
    BY FromCardInv, GameIs
  <2> QED BY <2>1, ReencryptIs, ReencryptedDeck
<1> HIDE DEF layered
<1>4. /\ deck' \in [Positions -> CiphertextType]
      /\ {PlainUnder(secret, deck'[i]) : i \in Positions}
           = {PlainUnder(secret, deck[i]) : i \in Positions}
  <2>1. CASE deck' = deck
    BY <2>1, FromCardInv
  <2>2. ASSUME NEW seed \in game.sortSeeds,
               deck' = SortByValue(layered, GenerateRandomValues(seed, N))
        PROVE  /\ deck' \in [Positions -> CiphertextType]
               /\ {PlainUnder(secret, deck'[i]) : i \in Positions}
                    = {PlainUnder(secret, deck[i]) : i \in Positions}
    <3>1. GenerateRandomValues(seed, N) \in [Positions -> Int]
      BY FromCardInv, GameIs, RandomValuesAre
    <3>2. Rearranged(layered, deck')
      BY <2>2, <3>1, SortRearranges
    <3>3. PICK after : after = deck'
      OBVIOUS
    <3>4. Rearranged(layered, after)
      BY <3>2, <3>3
    <3>5. /\ after \in [Positions -> CiphertextType]
          /\ {PlainUnder(secret, after[i]) : i \in Positions}
               = {PlainUnder(secret, layered[i]) : i \in Positions}
      BY <1>3, <3>4, RearrangedDeck
    <3> QED BY <1>3, <3>3, <3>5
  <2> QED BY <1>2, <2>1, <2>2
<1> QED BY <1>1, <1>4, KeepsCardsKeeps

\* The deck of a Rao-Sandelius shuffle: permuted, then re-encrypted.
LEMMA RsShuffleKeeps ==
    ASSUME CardInv, NEW j \in MemberIndices, RsShuffleDeck(j)
    PROVE  CardInv'
<1>1. pk # NoKey /\ pk = JointKey(secret) /\ UNCHANGED <<game, secret, pk, card, hand>>
  BY DEF RsShuffleDeck, CardInv, KeyRight
<1>2. PICK seed \in game.rsSeeds :
        deck' = Reencrypt(ApplyPermutation(PrepareWitnessData(seed), deck), game.rs, pk)
  BY DEF RsShuffleDeck
<1> DEFINE permuted == ApplyPermutation(PrepareWitnessData(seed), deck)
<1>3. deck \in [Positions -> CiphertextType] /\ Rearranged(deck, permuted)
  BY FromCardInv, RsShuffleRearranges
<1>4. deck' = Reencrypt(permuted, game.rs, JointKey(secret))
  BY <1>1, <1>2
<1> HIDE DEF permuted
<1>5. /\ permuted \in [Positions -> CiphertextType]
      /\ {PlainUnder(secret, permuted[i]) : i \in Positions}
           = {PlainUnder(secret, deck[i]) : i \in Positions}
  BY <1>3, RearrangedDeck, ZenonT(60)
<1>6. secret \in [MemberIndices -> Int] /\ game.rs \in [Positions -> Nat]
  BY FromCardInv, GameIs
<1>7. /\ deck' \in [Positions -> CiphertextType]
      /\ {PlainUnder(secret, deck'[i]) : i \in Positions}
           = {PlainUnder(secret, permuted[i]) : i \in Positions}
  BY <1>4, <1>5, <1>6, ReencryptIs, ReencryptedDeck
<1> QED BY <1>1, <1>5, <1>7, KeepsCardsKeeps

\* A card dealt anew has not been opened by its player; the shares that blind
\* it are those that verify for the player.
LEMMA DealKeeps ==
    ASSUME CardInv, NEW u \in Players, Deal(u)
    PROVE  CardInv'
<1>1. /\ pk # NoKey /\ u \in DOMAIN game.seat /\ card[u].status # "dealt"
      /\ UNCHANGED <<game, secret, pk, deck, hand>>
  BY DEF Deal
<1>a. PICK n \in 0..Members :
        \E from \in [1..n -> MemberIndices], to \in [1..n -> DOMAIN game.seat] :
          card' = [card EXCEPT ![u] =
                     AggregatePlayerEncryptions(deck[game.seat[u]],
                       [i \in 1..n |-> ShareFor(from[i], to[i])],
                       pk, game.playerSecret[u] % Q)]
  BY DEF Deal
<1>2. PICK from \in [1..n -> MemberIndices], to \in [1..n -> DOMAIN game.seat] :
        card' = [card EXCEPT ![u] =
                   AggregatePlayerEncryptions(deck[game.seat[u]],
                     [i \in 1..n |-> ShareFor(from[i], to[i])],
                     pk, game.playerSecret[u] % Q)]
  BY <1>a
<1> DEFINE shares == [i \in 1..n |-> ShareFor(from[i], to[i])]
           ct == deck[game.seat[u]]
           ps == game.playerSecret[u]
           c == AggregatePlayerEncryptions(ct, shares, pk, ps % Q)
<1>3. /\ ct \in CiphertextType /\ Plain(ct) \in 0..(N - 1)
      /\ ps \in Nat /\ n \in Nat /\ pk \in Int /\ Len(shares) = n
  <2>1. game.seat[u] \in Positions /\ ps \in Nat
    BY <1>1, FromCardInv, GameIs
  <2>2. pk \in Int
    BY <1>1, FromCardInv DEF CardInv, KeyRight
  <2>3. n \in Nat /\ Len(shares) = n
    BY SizesAre
  <2> QED BY <2>1, <2>2, <2>3, FromCardInv
<1>4. ASSUME NEW i \in 1..n
      PROVE  /\ shares[i].alpha \in Int
             /\ VerifyShare(shares[i], pk, ps % Q) =>
                  shares[i].beta = (((pk + (ps % Q)) % Q) * shares[i].alpha) % Q
  <2> DEFINE v == game.playerSecret[to[i]] % Q
             delta == game.delta[<<from[i], to[i]>>]
  <2>1. from[i] \in MemberIndices /\ to[i] \in DOMAIN game.seat
    OBVIOUS
  <2>2. /\ v \in Int /\ ps % Q \in Int /\ (pk + v) % Q \in Point
    <3>1. game.playerSecret[to[i]] \in Int
      BY <2>1, FromCardInv, GameIs
    <3> HIDE DEF ps
    <3>2. v \in Int /\ ps % Q \in Int
      <4>1. PICK a \in Int, b \in Int : a = game.playerSecret[to[i]] /\ b = ps
        BY <1>3, <3>1
      <4>2. a % Q \in Int /\ b % Q \in Int
        BY ResidueIsInt
      <4> QED BY <4>1, <4>2
    <3> HIDE DEF v
    <3>3. pk + v \in Int
      BY <1>3, <3>2
    <3> QED BY <3>2, <3>3, ResidueIsInt
  <2>3. delta \in 1..(Q - 1) /\ delta \in Int /\ Blindings(delta, 1, (pk + v) % Q) # {}
    <3> HIDE DEF v
    <3>1. /\ delta \in 1..(Q - 1)
          /\ \A h \in Point : Blindings(delta, 1, h) # {}
      BY <2>1, FromCardInv, GameIs
    <3> HIDE DEF delta
    <3> QED BY <2>2, <3>1, OrderIs
  <2>4. shares[i] = EncryptionShare(delta, pk, v)
    BY DEF ShareFor
  <2>5. shares[i].alpha = delta
    BY <2>4 DEF EncryptionShare
  <2> HIDE DEF v, delta, shares, ps
  <2>6. ASSUME VerifyShare(shares[i], pk, ps % Q)
        PROVE  shares[i].beta = (((pk + (ps % Q)) % Q) * delta) % Q
    <3>1. VerifyShare(EncryptionShare(delta, pk, v), pk, ps % Q)
      BY <2>4, <2>6
    <3>2. EncryptionShare(delta, pk, v).beta = (((pk + (ps % Q)) % Q) * delta) % Q
      BY <1>3, <2>2, <2>3, <3>1, AcceptedShare, ZenonT(60)
    <3> QED BY <2>4, <3>2
  <2> QED BY <2>3, <2>5, <2>6
<1>5. c.status = "dealt" => /\ c.src = ct /\ c.d \in Point
                           /\ c.a_u = (ct.c1 + c.d) % Q
                           /\ c.b_u = (ct.c2 + (pk + ps) * c.d) % Q
  <2> HIDE DEF shares, ct, ps
  <2> QED BY <1>3, <1>4, DealtCard
<1>6. card' = [card EXCEPT ![u] = c]
  BY <1>2
<1> HIDE DEF c, shares, ct
<1>7. card'[u] = c /\ \A v \in Players \ {u} : card'[v] = card[v]
  BY <1>6 DEF CardInv, CardTypes
<1>8. CardTypes'
  BY <1>1, <1>6 DEF CardInv, CardTypes, CiphertextType
<1>9. KeyRight' /\ DeckRight'
  BY <1>1 DEF CardInv, KeyRight, Drawn, DeckRight, DeckKeepsCards, Plain
<1>10. ~hand[u].right
  BY <1>1 DEF CardInv, HandRight
<1>11. ASSUME NEW v \in Players PROVE (CardRight(v) /\ HandRight(v))'
  <2>1. CASE v = u
    <3>1. HandRight(v)'
      BY <1>1, <1>10, <2>1 DEF HandRight
    <3>2. CardRight(v)'
      BY <1>1, <1>3, <1>5, <1>7, <2>1 DEF CardRight, Plain
    <3> QED BY <3>1, <3>2
  <2>2. CASE v # u
    BY <1>1, <1>7, <2>2 DEF CardInv, CardRight, HandRight, Plain
  <2> QED BY <2>1, <2>2
<1>12. OpensToDealtCard'
  BY <1>1, <1>7, <1>10 DEF CardInv, OpensToDealtCard, Plain
<1> QED BY <1>8, <1>9, <1>11, <1>12 DEF CardInv

\* What decrypt_card returns for the shares that arrived.
LEMMA OpenKeeps ==
    ASSUME CardInv, NEW u \in Players, Open(u)
    PROVE  CardInv'
<1>1. card[u].status = "dealt" /\ UNCHANGED <<game, secret, pk, deck, card>>
  BY DEF Open
<1>a. PICK n \in 0..Members :
        \E from \in [1..n -> MemberIndices],
           of \in [1..n -> {v \in DOMAIN game.seat : card[v].status = "dealt"}] :
          hand' = [hand EXCEPT ![u] =
                     [out |-> DecryptCard(card[u], game.playerSecret[u],
                                [i \in 1..n |->
                                   DecryptionShare(card[of[i]], secret[from[i]], from[i])],
                                Members),
                      right |-> /\ {from[i] : i \in 1..n} = MemberIndices
                                /\ \A i \in 1..n : of[i] = u,
                      foreign |-> \E i \in 1..n : of[i] # u]]
  BY DEF Open
<1>2. PICK from \in [1..n -> MemberIndices],
           of \in [1..n -> {v \in DOMAIN game.seat : card[v].status = "dealt"}] :
        hand' = [hand EXCEPT ![u] =
                   [out |-> DecryptCard(card[u], game.playerSecret[u],
                              [i \in 1..n |->
                                 DecryptionShare(card[of[i]], secret[from[i]], from[i])],
                              Members),
                    right |-> /\ {from[i] : i \in 1..n} = MemberIndices
                              /\ \A i \in 1..n : of[i] = u,
                    foreign |-> \E i \in 1..n : of[i] # u]]
  BY <1>a
<1> DEFINE shares == [i \in 1..n |-> DecryptionShare(card[of[i]], secret[from[i]], from[i])]
           own == \A i \in 1..n : of[i] = u
           whole == {from[i] : i \in 1..n} = MemberIndices
           ps == game.playerSecret[u]
<1>3. hand' = [hand EXCEPT ![u] = [out |-> DecryptCard(card[u], ps, shares, Members),
                                   right |-> whole /\ own,
                                   foreign |-> \E i \in 1..n : of[i] # u]]
  BY <1>2
<1>4. own => shares = SharesFrom(card[u], secret, n, from)
  BY DEF SharesFrom
<1> HIDE DEF shares
<1>5. /\ hand'[u].out = DecryptCard(card[u], ps, shares, Members)
      /\ hand'[u].right <=> (whole /\ own)
      /\ hand'[u].foreign <=> ~own
      /\ \A v \in Players \ {u} : hand'[v] = hand[v]
      /\ DOMAIN hand' = Players
  BY <1>3 DEF CardInv, CardTypes
<1>6. CardTypes' /\ KeyRight' /\ DeckRight'
  BY <1>1, <1>5
     DEF CardInv, CardTypes, CiphertextType, KeyRight, Drawn, DeckRight, DeckKeepsCards, Plain
<1>7. ASSUME NEW v \in Players PROVE (CardRight(v) /\ HandRight(v))'
  BY <1>1, <1>5 DEF CardInv, CardRight, HandRight, Plain
<1>8. whole /\ own => hand'[u].out = [ok |-> TRUE, value |-> Plain(card[u].src)]
  <2> SUFFICES ASSUME whole, own
               PROVE  DecryptCard(card[u], ps, shares, Members)
                        = [ok |-> TRUE, value |-> Plain(card[u].src)]
    BY <1>5
  <2>1. /\ pk = JointKey(secret) /\ u \in DOMAIN game.seat
        /\ card[u].src \in CiphertextType /\ PlainUnder(secret, card[u].src) \in 0..(N - 1)
        /\ card[u].d \in Point
        /\ card[u].a_u = (card[u].src.c1 + card[u].d) % Q
        /\ card[u].b_u = (card[u].src.c2 + (JointKey(secret) + ps) * card[u].d) % Q
    BY <1>1 DEF CardInv, KeyRight, CardRight, Plain
  <2>2. ps \in Nat /\ secret \in [MemberIndices -> Int]
    BY <2>1, FromCardInv, GameIs
  <2> HIDE DEF ps
  <2>3. DecryptCard(card[u], ps, SharesFrom(card[u], secret, n, from), Members)
          = [ok |-> TRUE, value |-> PlainUnder(secret, card[u].src)]
    BY <2>1, <2>2, OpensTheCard, ZenonT(60)
  <2> QED BY <1>4, <2>3 DEF Plain
<1>9. ~whole /\ own => ~hand'[u].out.ok
  BY <1>4, <1>5, OpensOnlyWhole
<1> HIDE DEF whole, own
<1>10. OpensToDealtCard'
  <2> SUFFICES ASSUME NEW v \in Players
               PROVE  (/\ hand[v].right =>
                            hand[v].out = [ok |-> TRUE, value |-> Plain(card[v].src)]
                       /\ ~hand[v].right /\ ~hand[v].foreign => ~hand[v].out.ok)'
    BY DEF OpensToDealtCard
  <2>1. CASE v = u
    BY <1>1, <1>5, <1>8, <1>9, <2>1 DEF Plain
  <2>2. CASE v # u
    BY <1>1, <1>5, <2>2 DEF CardInv, OpensToDealtCard, Plain
  <2> QED BY <2>1, <2>2
<1> QED BY <1>6, <1>7, <1>10 DEF CardInv

-----------------------------------------------------------------------------
(* What the table remembers of the last Rao-Sandelius shuffle.             *)

\* The circuit's layer over an allocated scalar is the native one when the
\* scalar is an element of its field; when it is not, nothing is added to the
\* first point.
LEMMA LayersAgree ==
    ASSUME NEW ct \in CiphertextType, NEW r \in Point, NEW k \in Int
    PROVE  RerandomizeCiphertext(ct, ScalarToBaseField(r), k) = AddEncryptionLayer(ct, r, k)
             <=> r < P
<1>1. PICK a \in Point, b \in Point : a = ct.c1 /\ b = ct.c2
  BY DEF CiphertextType
<1>2. /\ a \in Int /\ b \in Int /\ r \in Int /\ r % Q = r /\ a % Q = a
      /\ r >= 0 /\ r < Q /\ a >= 0 /\ a < Q
  BY <1>1, OrderIs, ResidueOfPoint DEF Point
<1>3. PICK kr \in Int : kr = k * r
  BY <1>2
<1>4. CASE r < P
  <2>1. ScalarToBaseField(r) = r
    BY <1>4 DEF ScalarToBaseField
  <2>2. (b + (kr % Q)) % Q = (b + kr) % Q
    BY <1>2, <1>3, AddResidue
  <2>3. RerandomizeCiphertext(ct, r, k) = AddEncryptionLayer(ct, r, k)
    BY <1>1, <1>2, <1>3, <2>2 DEF RerandomizeCiphertext, AddEncryptionLayer
  <2> QED BY <1>4, <2>1, <2>3
<1>5. CASE ~(r < P)
  <2>1. ScalarToBaseField(r) = 0
    BY <1>5 DEF ScalarToBaseField
  <2>2. 0 % Q = 0 /\ a + 0 = a
    BY <1>2, OrderIs
  <2>3. RerandomizeCiphertext(ct, 0, k).c1 = a
    BY <1>1, <1>2, <2>2 DEF RerandomizeCiphertext, Ciphertext
  <2>4. AddEncryptionLayer(ct, r, k).c1 = (a + r) % Q
    BY <1>1 DEF AddEncryptionLayer, Ciphertext
  <2>5. (a + r) % Q # a
    <3>1. SUFFICES ASSUME (a + r) % Q = a % Q PROVE FALSE
      BY <1>2
    <3>2. PICK d \in Int : a + r = a + d * Q
      BY <1>2, <3>1, Difference
    <3>3. PICK dq \in Int : dq = d * Q
      BY OrderIs
    <3>4. r = dq /\ r > 0
      BY <1>2, <1>5, <3>2, <3>3, SizesAre
    <3>5. d > 0
      BY <3>3, <3>4, OrderIs
    <3>6. dq >= Q
      BY <3>3, <3>5, OrderIs
    <3> QED BY <1>2, <3>4, <3>6, OrderIs
  <2> QED BY <1>5, <2>1, <2>3, <2>4, <2>5
<1> QED BY <1>4, <1>5

\* What RsShuffleDeck records is what the lemmas above are about.
LEMMA ProofRightAccepted ==
    ASSUME CardInv, ProofRight
    PROVE  RsProofAccepted
<1> SUFFICES ASSUME proof.kind = "rs"
             PROVE  LET levels == PrepareWitnessDataCircuit(proof.seed, proof.witness, proof.samples)
                        idx == [p \in Positions |-> levels[LEVELS].sorted[p].idx]
                    IN /\ \A c \in GrandProductChallenges :
                            RsShuffleSatisfied(proof.init, proof.after, levels, c[1], c[2])
                       /\ \A p \in Positions :
                            RerandomizeCiphertext(proof.after[p], ScalarToBaseField(game.rs[p]), pk)
                              = proof.final[p]
                            <=> game.rs[p] < P
                       /\ idx = StablePartition(proof.witness.bits_mat)
  BY Zenon DEF RsProofAccepted
<1> DEFINE seed == proof.seed
           witness == PrepareWitnessData(seed)
           levels == PrepareWitnessDataCircuit(seed, witness, NumSamples)
<1>1. /\ proof.witness = witness /\ proof.samples = NumSamples
      /\ proof.init \in [Positions -> CiphertextType]
      /\ proof.after = ApplyPermutation(witness, proof.init)
      /\ proof.final = Reencrypt(proof.after, game.rs, pk)
  BY DEF ProofRight
<1>2. ASSUME NEW c \in GrandProductChallenges
      PROVE  RsShuffleSatisfied(proof.init, proof.after, levels, c[1], c[2])
  <2>1. c[1] \in Int /\ c[2] \in Int
    BY TableAssumption, SizesAre DEF Fe
  <2> QED BY <1>1, <2>1, ShuffleAccepted
<1>3. [p \in Positions |-> levels[LEVELS].sorted[p].idx] = StablePartition(witness.bits_mat)
  BY OrderAccepted
<1>4. PrepareWitnessDataCircuit(proof.seed, proof.witness, proof.samples) = levels
  BY <1>1
<1> HIDE DEF seed, witness, levels
<1>5. ASSUME NEW p \in Positions
      PROVE  RerandomizeCiphertext(proof.after[p], ScalarToBaseField(game.rs[p]), pk)
               = proof.final[p]
             <=> game.rs[p] < P
  <2>1. /\ pk = JointKey(secret) /\ secret \in [MemberIndices -> Int]
        /\ game.rs \in [Positions -> Point]
    BY FromCardInv, GameIs DEF CardInv, KeyRight, ProofRight
  <2>2. pk \in Int
    BY <2>1, JointKeyIs, OrderIs DEF Point
  <2>3. proof.after \in [Positions -> CiphertextType]
    BY <1>1, RsShuffleRearranges, RearrangedDeck DEF witness, seed
  <2>4. proof.final[p] = AddEncryptionLayer(proof.after[p], game.rs[p], pk)
    BY <1>1, <2>3, ReencryptedCard
  <2> QED BY <2>1, <2>2, <2>3, <2>4, LayersAgree
<1> QED BY <1>1, <1>2, <1>3, <1>4, <1>5

\* The actions that shuffle nothing leave the record alone; the joint key is
\* made once, before the first shuffle.
LEMMA ProofRightStays ==
    ASSUME ProofRight, UNCHANGED <<game, proof>>, pk # NoKey => UNCHANGED pk
    PROVE  ProofRight'
  BY DEF ProofRight

LEMMA SortShuffleKeepsProof ==
    ASSUME ProofRight, NEW j \in MemberIndices, SortShuffle(j)
    PROVE  ProofRight'
<1>1. UNCHANGED <<game, pk>>
  BY DEF SortShuffle
<1>2. UNCHANGED proof \/ proof' = [kind |-> "sort"]
  BY DEF SortShuffle
<1>3. CASE UNCHANGED proof
  BY <1>1, <1>3, ProofRightStays
<1>4. CASE proof' = [kind |-> "sort"]
  BY <1>4 DEF ProofRight
<1> QED BY <1>2, <1>3, <1>4

LEMMA RsShuffleKeepsProof ==
    ASSUME CardTypes, NEW j \in MemberIndices, RsShuffleDeck(j)
    PROVE  ProofRight'
<1>1. PICK seed \in game.rsSeeds :
        proof' = [kind |-> "rs", seed |-> seed, init |-> deck,
                  after |-> ApplyPermutation(PrepareWitnessData(seed), deck),
                  final |-> Reencrypt(ApplyPermutation(PrepareWitnessData(seed), deck), game.rs, pk),
                  witness |-> PrepareWitnessData(seed), samples |-> NumSamples]
  BY Zenon DEF RsShuffleDeck
<1>2. pk # NoKey /\ UNCHANGED <<game, pk>> /\ deck \in [Positions -> CiphertextType]
  BY DEF RsShuffleDeck, CardTypes
<1> DEFINE witness == PrepareWitnessData(seed)
           after == ApplyPermutation(witness, deck)
           final == Reencrypt(after, game.rs, pk)
<1>3. /\ proof'.seed = seed /\ proof'.init = deck /\ proof'.after = after
      /\ proof'.final = final /\ proof'.witness = witness /\ proof'.samples = NumSamples
  <2>1. proof' = [kind |-> "rs", seed |-> seed, init |-> deck, after |-> after,
                  final |-> final, witness |-> witness, samples |-> NumSamples]
    BY <1>1
  <2> HIDE DEF witness, after, final
  <2> QED BY <2>1
<1> QED BY <1>2, <1>3 DEF ProofRight

-----------------------------------------------------------------------------
(* The theorems.                                                           *)

\* The invariant of the card table, whatever the table's seeds, randomness and
\* seats, the order of the shuffles and the shares that arrive.
THEOREM CardInvariant == Spec => []CardInv
<1>1. ASSUME CardInv, [Next]_vars PROVE CardInv'
  <2>1. ASSUME NEW j \in MemberIndices, DrawKey(j) PROVE CardInv'
    BY <1>1, <2>1, DrawKeyKeeps
  <2>2. ASSUME NEW j \in MemberIndices, SortShuffle(j) PROVE CardInv'
    BY <1>1, <2>2, SortShuffleKeeps
  <2>3. ASSUME NEW j \in MemberIndices, RsShuffleDeck(j) PROVE CardInv'
    BY <1>1, <2>3, RsShuffleKeeps
  <2>4. CASE MakeGlobalKey
    BY <1>1, <2>4, MakeGlobalKeyKeeps
  <2>5. ASSUME NEW u \in Players, Deal(u) PROVE CardInv'
    BY <1>1, <2>5, DealKeeps
  <2>6. ASSUME NEW u \in Players, Open(u) PROVE CardInv'
    BY <1>1, <2>6, OpenKeeps
  <2>7. CASE UNCHANGED vars
    BY <1>1, <2>7
       DEF vars, CardInv, CardTypes, KeyRight, Drawn, DeckRight, DeckKeepsCards,
           CardRight, HandRight, OpensToDealtCard, Plain
  <2> QED BY <1>1, <2>1, <2>2, <2>3, <2>4, <2>5, <2>6, <2>7 DEF Next
<1> QED BY <1>1, InitCardInv, PTL DEF Spec

\* However many members have shuffled, by prove_as_subprotocol or by
\* apply_rs_shuffle_permutation with reencrypt_cards_with_new_randomization,
\* the committee together decrypts the deck to every card exactly once.
THEOREM DeckStaysWhole == Spec => []DeckKeepsCards
<1>1. CardInv => DeckKeepsCards
  BY FromCardInv
<1> QED BY <1>1, CardInvariant, PTL

\* decrypt_card with one decryption share of every member shows the card that
\* aggregate_player_encryptions blinded, and fails when a member's share is
\* missing or comes twice.
THEOREM OpensToTheDealtCard == Spec => []OpensToDealtCard
<1>1. CardInv => OpensToDealtCard
  BY DEF CardInv
<1> QED BY <1>1, CardInvariant, PTL

\* Whichever members shuffle by apply_rs_shuffle_permutation and whatever they
\* draw, the witness of prepare_witness_data satisfies rs_shuffle for every
\* pair of challenges: the counters of build_level are those that
\* verify_row_constraints expects, both grand products of
\* verify_shuffle_level agree, and so does the product over the decks.  The
\* order proved is the stable partition of the deck by the bits, and the deck
\* is that one, encrypted again.
THEOREM RsProofsAreAccepted == Spec => []RsProofAccepted
<1>1. Init => ProofRight
  BY DEF Init, NoProof, ProofRight
<1>2. ASSUME CardInv, ProofRight, [Next]_vars PROVE ProofRight'
  <2>1. ASSUME NEW j \in MemberIndices, DrawKey(j) PROVE ProofRight'
    BY <1>2, <2>1, ProofRightStays DEF DrawKey
  <2>2. ASSUME NEW j \in MemberIndices, SortShuffle(j) PROVE ProofRight'
    BY <1>2, <2>2, SortShuffleKeepsProof
  <2>3. ASSUME NEW j \in MemberIndices, RsShuffleDeck(j) PROVE ProofRight'
    BY <1>2, <2>3, RsShuffleKeepsProof DEF CardInv
  <2>4. CASE MakeGlobalKey
    BY <1>2, <2>4, ProofRightStays DEF MakeGlobalKey
  <2>5. ASSUME NEW u \in Players, Deal(u) PROVE ProofRight'
    BY <1>2, <2>5, ProofRightStays DEF Deal
  <2>6. ASSUME NEW u \in Players, Open(u) PROVE ProofRight'
    BY <1>2, <2>6, ProofRightStays DEF Open
  <2>7. CASE UNCHANGED vars
    BY <1>2, <2>7, ProofRightStays DEF vars
  <2> QED BY <1>2, <2>1, <2>2, <2>3, <2>4, <2>5, <2>6, <2>7 DEF Next
<1>3. CardInv /\ ProofRight => RsProofAccepted
  BY ProofRightAccepted
<1> QED BY <1>1, <1>2, <1>3, CardInvariant, PTL DEF Spec
=============================================================================
