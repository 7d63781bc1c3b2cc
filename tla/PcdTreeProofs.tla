---------------------------- MODULE PcdTreeProofs ---------------------------
(***************************************************************************)
(* What build_binary_pcd_tree computes, for every number of steps, every    *)
(* step circuit and every closure.                                          *)
(***************************************************************************)
EXTENDS PcdTree, NatLemmas, SequenceTheorems

-----------------------------------------------------------------------------
(* The computation the tree proves.                                         *)

\* One step of the circuit or of the caller's closure, and f, the states before
\* steps 0 .. k of such a run.
StepOf(circuit, k, z) == IF circuit THEN StepCircuit(k, z) ELSE ComputeStep(z)

RunOf(circuit, f, k) ==
    /\ f = [x \in 0 .. k |-> f[x]]
    /\ f[0] = InitialInput
    /\ \A x \in 0 .. k - 1 : f[x + 1] = StepOf(circuit, x, f[x])

LEMMA RunsExist == \A c \in BOOLEAN : \A k \in Nat : \E f : RunOf(c, f, k)
<1> TAKE c \in BOOLEAN
<1> DEFINE S == {k \in Nat : \E f : RunOf(c, f, k)}
<1>1. 0 \in S
  <2> DEFINE f == [x \in 0 .. 0 |-> InitialInput]
  <2>1. RunOf(c, f, 0)
    BY DEF RunOf
  <2> QED BY <2>1
<1>2. ASSUME NEW k \in Nat, k \in S PROVE k + 1 \in S
  <2>1. PICK f : RunOf(c, f, k)
    BY <1>2
  <2> DEFINE g == [x \in 0 .. k + 1 |-> IF x = k + 1 THEN StepOf(c, k, f[k]) ELSE f[x]]
  <2>2. ASSUME NEW x \in 0 .. (k + 1) - 1 PROVE g[x + 1] = StepOf(c, x, g[x])
    <3>1. CASE x = k
      BY <3>1
    <3>2. CASE x # k
      <4>1. x \in 0 .. k - 1 /\ x + 1 \in 0 .. k + 1 /\ x + 1 # k + 1
        BY <3>2
      <4>2. g[x + 1] = f[x + 1] /\ g[x] = f[x]
        BY <4>1
      <4> QED BY <2>1, <4>1, <4>2 DEF RunOf
    <3> QED BY <3>1, <3>2
  <2>3. g = [x \in 0 .. k + 1 |-> g[x]] /\ g[0] = InitialInput
    BY <2>1 DEF RunOf
  <2>4. RunOf(c, g, k + 1)
    BY <2>2, <2>3 DEF RunOf
  <2> QED BY <2>4
<1> HIDE DEF S
<1>3. \A k \in Nat : k \in S
  BY <1>1, <1>2, SetInduction
<1> QED BY <1>3 DEF S

LEMMA RunsAgree ==
    ASSUME NEW c, NEW f, NEW g, NEW k \in Nat, NEW l \in Nat, k <= l,
           RunOf(c, f, k), RunOf(c, g, l)
    PROVE  f[k] = g[k]
<1> DEFINE S == {x \in Nat : x <= k => f[x] = g[x]}
<1>1. 0 \in S
  BY DEF RunOf
<1>2. ASSUME NEW x \in Nat, x \in S PROVE x + 1 \in S
  <2>1. CASE x + 1 <= k
    <3>1. x \in 0 .. k - 1 /\ x \in 0 .. l - 1 /\ f[x] = g[x]
      BY <1>2, <2>1
    <3>2. f[x + 1] = StepOf(c, x, f[x]) /\ g[x + 1] = StepOf(c, x, g[x])
      BY <3>1 DEF RunOf
    <3> QED BY <3>1, <3>2
  <2>2. CASE ~(x + 1 <= k)
    BY <2>2
  <2> QED BY <2>1, <2>2
<1> HIDE DEF S
<1>3. \A x \in Nat : x \in S
  BY <1>1, <1>2, SetInduction
<1> QED BY <1>3 DEF S

LEMMA EndlessRun ==
    ASSUME NEW c \in BOOLEAN
    PROVE  \E A : /\ A = [k \in Nat |-> IF k = 0 THEN InitialInput
                                        ELSE StepOf(c, k - 1, A[k - 1])]
<1> DEFINE run(k) == CHOOSE f : RunOf(c, f, k)
           A == [k \in Nat |-> run(k)[k]]
<1>1. \A k \in Nat : RunOf(c, run(k), k)
  BY RunsExist
<1>2. A[0] = InitialInput
  BY <1>1 DEF RunOf
<1>3. ASSUME NEW k \in Nat PROVE A[k + 1] = StepOf(c, k, A[k])
  <2>1. PICK f, g : f = run(k) /\ g = run(k + 1)
    OBVIOUS
  <2>2. RunOf(c, f, k) /\ RunOf(c, g, k + 1)
    BY <1>1, <2>1
  <2>3. g[k] = f[k]
    BY <2>2, RunsAgree
  <2>4. g[k + 1] = StepOf(c, k, g[k])
    <3>1. k \in 0 .. (k + 1) - 1
      OBVIOUS
    <3> QED BY <2>2, <3>1 DEF RunOf
  <2>5. A[k] = f[k] /\ A[k + 1] = g[k + 1]
    BY <2>1
  <2> QED BY <2>3, <2>4, <2>5
<1>4. A = [k \in Nat |-> A[k]]
  OBVIOUS
<1> HIDE DEF A
<1>5. ASSUME NEW k \in Nat
      PROVE  A[k] = IF k = 0 THEN InitialInput ELSE StepOf(c, k - 1, A[k - 1])
  <2>1. CASE k = 0
    BY <1>2, <2>1
  <2>2. CASE k # 0
    <3>1. k - 1 \in Nat /\ (k - 1) + 1 = k
      BY <2>2
    <3> QED BY <1>3, <2>2, <3>1
  <2> QED BY <2>1, <2>2
<1> QED BY <1>4, <1>5

\* The recursions of After and Proved are ones that functions satisfy.
LEMMA AfterDef ==
    /\ After[0] = InitialInput
    /\ \A k \in Nat : After[k + 1] = ComputeStep(After[k])
<1>1. \E A : A = [k \in Nat |-> IF k = 0 THEN InitialInput ELSE ComputeStep(A[k - 1])]
  <2>1. FALSE \in BOOLEAN
    OBVIOUS
  <2> QED BY <2>1, EndlessRun DEF StepOf
<1>2. After = [k \in Nat |-> IF k = 0 THEN InitialInput ELSE ComputeStep(After[k - 1])]
  BY <1>1 DEF After
<1>3. \A k \in Nat : After[k] = IF k = 0 THEN InitialInput ELSE ComputeStep(After[k - 1])
  BY <1>2
<1>4. ASSUME NEW k \in Nat PROVE After[k + 1] = ComputeStep(After[k])
  BY <1>3
<1> QED BY <1>3, <1>4

LEMMA ProvedDef ==
    /\ Proved[0] = InitialInput
    /\ \A k \in Nat : Proved[k + 1] = StepCircuit(k, Proved[k])
<1>1. \E A : A = [k \in Nat |-> IF k = 0 THEN InitialInput ELSE StepCircuit(k - 1, A[k - 1])]
  <2>1. TRUE \in BOOLEAN
    OBVIOUS
  <2> QED BY <2>1, EndlessRun DEF StepOf
<1>2. Proved = [k \in Nat |-> IF k = 0 THEN InitialInput ELSE StepCircuit(k - 1, Proved[k - 1])]
  BY <1>1 DEF Proved
<1>3. \A k \in Nat : Proved[k] = IF k = 0 THEN InitialInput ELSE StepCircuit(k - 1, Proved[k - 1])
  BY <1>2
<1>4. ASSUME NEW k \in Nat PROVE Proved[k + 1] = StepCircuit(k, Proved[k])
  BY <1>3
<1> QED BY <1>3, <1>4

-----------------------------------------------------------------------------
(* The numbers.                                                             *)

\* padded_n is at least n, so that the n steps all fit among 2 * padded_n - 1.
LEMMA Padding ==
    ASSUME n \in StepCounts
    PROVE  /\ n \in Nat \ {0} /\ PaddedN \in Nat \ {0} /\ n <= PaddedN
           /\ Min({n, 2 * PaddedN - 1}) = n
<1>1. n \in Nat \ {0}
  BY StepCountsAssumption
<1>2. PaddedN \in Nat \ {0} /\ n <= PaddedN
  BY <1>1, NextPowerOfTwoIs DEF PaddedN
<1>3. n <= 2 * PaddedN - 1
  BY <1>1, <1>2
<1>4. Min({n, 2 * PaddedN - 1}) = n
  BY <1>1, <1>2, <1>3 DEF Min
<1> QED BY <1>1, <1>2, <1>4

\* prove_leaf and prove_parent make the nodes for their steps.
LEMMA LeafProves ==
    ASSUME NEW m \in StepCounts, NEW k \in Nat
    PROVE  ProveLeaf(k, StateOf(m, k)) = Claim(m, k, k + 1)
<1>1. LinksWithin(m, k, k + 1)
  BY DEF LinksWithin
<1>2. (k + 1) - 1 = k
  OBVIOUS
<1> QED BY <1>1, <1>2 DEF ProveLeaf, Claim

\* The links of a parent are its children's and the one between them.
LEMMA LinksSplit ==
    ASSUME NEW m \in StepCounts, NEW a \in Nat, NEW x \in 0 .. NextPowerOfTwo(m) - 2,
           NEW b, b = 2 * x + 1, NEW c \in Nat, a < b, b + 1 < c
    PROVE  LinksWithin(m, a, c) <=>
             LinksWithin(m, a, b) /\ LinksWithin(m, b + 1, c) /\ LinkFollows(m, x)
<1>1. ASSUME NEW y \in 0 .. NextPowerOfTwo(m) - 2
      PROVE  a <= 2 * y /\ 2 * y + 2 < c <=>
               \/ a <= 2 * y /\ 2 * y + 2 < b
               \/ b + 1 <= 2 * y /\ 2 * y + 2 < c
               \/ y = x
  OBVIOUS
<1> QED BY <1>1 DEF LinksWithin

LEMMA ParentProves ==
    ASSUME NEW m \in StepCounts, NEW a \in Nat, NEW b \in Nat, NEW c \in Nat,
           a < b, b + 1 < c, c <= 2 * NextPowerOfTwo(m) - 1, b % 2 = 1,
           NextPowerOfTwo(m) \in Nat
    PROVE  ProveParent(Claim(m, a, b), Claim(m, b + 1, c)) = Claim(m, a, c)
<1>1. PICK x \in 0 .. NextPowerOfTwo(m) - 2 : b = 2 * x + 1
  <2>1. b \div 2 \in 0 .. NextPowerOfTwo(m) - 2 /\ b = 2 * (b \div 2) + 1
    OBVIOUS
  <2> QED BY <2>1
<1>2. Links(Claim(m, a, b), Claim(m, b + 1, c)) <=> LinkFollows(m, x)
  <2>1. b - 1 = 2 * x /\ b + 1 = 2 * x + 2
    BY <1>1
  <2> QED BY <1>1, <2>1 DEF Links, Claim, LinkFollows
<1>3. LinksWithin(m, a, c) <=>
        LinksWithin(m, a, b) /\ LinksWithin(m, b + 1, c)
          /\ Links(Claim(m, a, b), Claim(m, b + 1, c))
  BY <1>1, <1>2, LinksSplit
<1>4. /\ Claim(m, a, b).sat = LinksWithin(m, a, b)
      /\ Claim(m, b + 1, c).sat = LinksWithin(m, b + 1, c)
  BY DEF Claim
<1>5. (Claim(m, a, b).sat /\ Claim(m, b + 1, c).sat /\ Links(Claim(m, a, b), Claim(m, b + 1, c)))
        = LinksWithin(m, a, c)
  <2>1. LinksWithin(m, a, c) \in BOOLEAN
    BY DEF LinksWithin
  <2>2. (LinksWithin(m, a, b) /\ LinksWithin(m, b + 1, c)
           /\ Links(Claim(m, a, b), Claim(m, b + 1, c))) = LinksWithin(m, a, c)
    BY <1>3, <2>1, Zenon
  <2> QED BY <1>4, <2>2, Zenon
<1>6. /\ Claim(m, a, b).i = a /\ Claim(m, a, b).zi = StateOf(m, a)
      /\ Claim(m, b + 1, c).j = c
      /\ Claim(m, b + 1, c).zj = StepCircuit(c - 1, StateOf(m, c - 1))
  BY DEF Claim
<1>7. Claim(m, a, c) = [i |-> a, j |-> c, zi |-> StateOf(m, a),
                        zj |-> StepCircuit(c - 1, StateOf(m, c - 1)), sat |-> LinksWithin(m, a, c)]
  BY DEF Claim
<1> HIDE DEF Claim
<1> QED BY <1>5, <1>6, <1>7 DEF ProveParent

-----------------------------------------------------------------------------
(* The loops.                                                               *)

LEMMA TreeInit == Init => TreeInv
<1> SUFFICES ASSUME Init PROVE TreeInv
  OBVIOUS
<1>1. n \in StepCounts /\ phase = "compute" /\ level = <<>> /\ next = <<>>
  BY DEF Init
<1>2. n \in Nat \ {0} /\ PaddedN \in Nat \ {0}
  BY <1>1, Padding
<1>3. StatesRight
  <2>1. InitialInput \in {After[k] : k \in 0 .. n}
    <3>1. After[0] = InitialInput /\ 0 \in 0 .. n
      BY <1>2, AfterDef
    <3> QED BY <3>1
  <2>2. states = <<InitialInput>> /\ Len(states) = 1 /\ states[1] = InitialInput
    BY DEF Init
  <2>3. states \in Seq({After[k] : k \in 0 .. n})
    BY <2>1, <2>2
  <2>4. StateOf(n, 0) = InitialInput
    BY <1>2, AfterDef DEF StateOf
  <2> QED BY <1>1, <1>2, <2>2, <2>3, <2>4 DEF StatesRight
<1> QED BY <1>1, <1>3 DEF TreeInv, LeavesRight, LevelRight, IndicesApart, NextRight

\* The vector of states grows by the state that comes next.
LEMMA StatesGrow ==
    ASSUME StatesRight, n \in StepCounts, Len(states) < 2 * PaddedN, UNCHANGED n, NEW s,
           s = StateOf(n, Len(states)), states' = Append(states, s)
    PROVE  /\ states' \in Seq({After[k] : k \in 0 .. n})
           /\ Len(states') = Len(states) + 1
           /\ \A k \in 1 .. Len(states') : states'[k] = StateOf(n, k - 1)
<1> DEFINE V == {After[k] : k \in 0 .. n}
<1>1. n \in Nat /\ Len(states) \in Nat /\ states \in Seq(V)
  BY Padding DEF StatesRight
<1>2. s \in V
  <2>1. PICK k \in 0 .. n : s = After[k]
    BY <1>1 DEF StateOf
  <2> QED BY <2>1
<1>3. /\ states' \in Seq(V) /\ Len(states') = Len(states) + 1
      /\ states'[Len(states) + 1] = s
      /\ \A k \in 1 .. Len(states) : states'[k] = states[k]
  BY <1>1, <1>2, AppendProperties
<1>4. ASSUME NEW k \in 1 .. Len(states') PROVE states'[k] = StateOf(n, k - 1)
  <2>1. CASE k = Len(states) + 1
    BY <1>1, <1>3, <2>1
  <2>2. CASE k # Len(states) + 1
    <3>1. k \in 1 .. Len(states)
      BY <1>1, <1>3, <2>2
    <3> QED BY <1>3, <3>1 DEF StatesRight
  <2> QED BY <2>1, <2>2
<1> QED BY <1>3, <1>4

LEMMA LastState ==
    ASSUME StatesRight, n \in StepCounts
    PROVE  Len(states) \in Nat \ {0} /\ Last(states) = StateOf(n, Len(states) - 1)
<1>1. Len(states) \in 1 .. 2 * PaddedN /\ PaddedN \in Nat
  BY Padding DEF StatesRight
<1>2. Last(states) = states[Len(states)]
  BY DEF Last
<1> QED BY <1>1, <1>2 DEF StatesRight

LEMMA ComputeKeeps == TreeInv /\ ComputeState => TreeInv'
<1> SUFFICES ASSUME TreeInv, ComputeState PROVE TreeInv'
  OBVIOUS
<1>1. /\ n \in StepCounts /\ phase = "compute" /\ level = <<>> /\ next = <<>> /\ StatesRight
      /\ UNCHANGED <<n, nodes, level, next>>
  BY DEF TreeInv, ComputeState, ComputeUpTo, LeavesRight, NextRight
<1>2. n \in Nat \ {0} /\ PaddedN \in Nat \ {0} /\ n <= PaddedN /\ Min({n, 2 * PaddedN - 1}) = n
  BY <1>1, Padding
<1>3. /\ Len(states) \in Nat \ {0} /\ Len(states) <= n + 1
      /\ Last(states) = StateOf(n, Len(states) - 1)
  BY <1>1, LastState DEF StatesRight
<1>4. PaddedN' = PaddedN
  BY <1>1 DEF PaddedN
<1>5. CASE Len(states) <= n
  <2>1. /\ states' = Append(states, ComputeStep(Last(states)))
        /\ phase' = phase
    BY <1>2, <1>5 DEF ComputeState, ComputeUpTo
  <2>2. ComputeStep(Last(states)) = StateOf(n, Len(states))
    <3>1. Len(states) - 1 \in Nat /\ (Len(states) - 1) + 1 = Len(states)
      BY <1>3
    <3>2. Last(states) = After[Len(states) - 1] /\ StateOf(n, Len(states)) = After[Len(states)]
      BY <1>2, <1>3, <1>5 DEF StateOf
    <3> QED BY <3>1, <3>2, AfterDef
  <2>3. Len(states) < 2 * PaddedN
    BY <1>2, <1>3, <1>5
  <2>4. StatesRight'
    <3>1. /\ states' \in Seq({After[k] : k \in 0 .. n})
          /\ Len(states') = Len(states) + 1
          /\ \A k \in 1 .. Len(states') : states'[k] = StateOf(n, k - 1)
      BY <1>1, <2>1, <2>2, <2>3, StatesGrow
    <3> QED BY <1>1, <1>2, <1>3, <1>4, <1>5, <2>1, <3>1 DEF StatesRight
  <2> QED BY <1>1, <2>1, <2>4 DEF TreeInv, LeavesRight, LevelRight, IndicesApart, NextRight
<1>6. CASE ~(Len(states) <= n)
  <2>1. states' = states /\ phase' = "pad"
    BY <1>2, <1>6 DEF ComputeState, ComputeUpTo
  <2>2. StatesRight'
    BY <1>1, <1>2, <1>3, <1>4, <1>6, <2>1 DEF StatesRight
  <2> QED BY <1>1, <2>1, <2>2 DEF TreeInv, LeavesRight, LevelRight, IndicesApart, NextRight
<1> QED BY <1>5, <1>6

LEMMA PadKeeps == TreeInv /\ PadState => TreeInv'
<1> SUFFICES ASSUME TreeInv, PadState PROVE TreeInv'
  OBVIOUS
<1>1. /\ n \in StepCounts /\ phase = "pad" /\ level = <<>> /\ next = <<>> /\ StatesRight
      /\ UNCHANGED <<n, nodes, level, next>>
  BY DEF TreeInv, PadState, LeavesRight, NextRight
<1>2. n \in Nat \ {0} /\ PaddedN \in Nat \ {0}
  BY <1>1, Padding
<1>3. /\ Len(states) \in Nat \ {0} /\ Len(states) >= n + 1 /\ Len(states) <= 2 * PaddedN
      /\ Last(states) = StateOf(n, Len(states) - 1)
  BY <1>1, LastState DEF StatesRight
<1>4. PaddedN' = PaddedN
  BY <1>1 DEF PaddedN
<1>5. CASE Len(states) < 2 * PaddedN
  <2>1. states' = Append(states, Last(states)) /\ phase' = phase
    BY <1>5 DEF PadState
  <2>2. Last(states) = StateOf(n, Len(states))
    BY <1>2, <1>3 DEF StateOf
  <2>3. StatesRight'
    <3>1. /\ states' \in Seq({After[k] : k \in 0 .. n})
          /\ Len(states') = Len(states) + 1
          /\ \A k \in 1 .. Len(states') : states'[k] = StateOf(n, k - 1)
      BY <1>1, <1>5, <2>1, <2>2, StatesGrow
    <3>2. Len(states') \in 1 .. 2 * PaddedN' /\ Len(states') >= n' + 1
      BY <1>1, <1>2, <1>3, <1>4, <1>5, <3>1
    <3>3. phase' = "pad" /\ n' = n
      BY <1>1, <2>1
    <3> QED BY <3>1, <3>2, <3>3 DEF StatesRight
  <2> QED BY <1>1, <2>1, <2>3 DEF TreeInv, LeavesRight, LevelRight, IndicesApart, NextRight
<1>6. CASE ~(Len(states) < 2 * PaddedN)
  <2>1. states' = states /\ phase' = "leaves"
    BY <1>6 DEF PadState
  <2>2. StatesRight'
    BY <1>1, <1>2, <1>3, <1>4, <1>6, <2>1 DEF StatesRight
  <2> QED BY <1>1, <1>2, <1>4, <2>1, <2>2 DEF TreeInv, LeavesRight, LevelRight, IndicesApart, NextRight
<1> QED BY <1>5, <1>6

LEMMA LeafKeeps == TreeInv /\ CreateLeaf => TreeInv'
<1> SUFFICES ASSUME TreeInv, CreateLeaf PROVE TreeInv'
  OBVIOUS
<1> DEFINE k == 2 * Len(level)
<1>1. /\ n \in StepCounts /\ phase = "leaves" /\ level \in Seq(Nat) /\ next = <<>> /\ StatesRight
      /\ UNCHANGED <<n, states, next>>
      /\ Len(level) < PaddedN
      /\ \A x \in 1 .. Len(level) : level[x] = 2 * x - 2 /\ Proves(2 * x - 2, 2 * x - 2, 2 * x - 1)
  BY DEF TreeInv, CreateLeaf, LeafFor, LeavesRight, NextRight
<1>2. n \in Nat \ {0} /\ PaddedN \in Nat \ {0} /\ Len(level) \in Nat
  BY <1>1, Padding
<1>3. PaddedN' = PaddedN
  BY <1>1 DEF PaddedN
<1>4. /\ nodes' = [x \in DOMAIN nodes \cup {k} |->
                       IF x = k THEN ProveLeaf(k, states[k + 1]) ELSE nodes[x]]
      /\ level' = Append(level, k)
      /\ phase' = IF Len(level') = PaddedN THEN "inner" ELSE "leaves"
  BY DEF CreateLeaf, LeafFor
<1>5. k \in 0 .. 2 * PaddedN - 2 /\ k \in Nat
  BY <1>1, <1>2
<1>6. ProveLeaf(k, states[k + 1]) = Claim(n, k, k + 1)
  <2>1. states[k + 1] = StateOf(n, k)
    <3>1. Len(states) = 2 * PaddedN
      BY <1>1 DEF StatesRight
    <3>2. k + 1 \in 1 .. Len(states) /\ (k + 1) - 1 = k
      BY <1>2, <1>5, <3>1
    <3> HIDE DEF k
    <3> QED BY <1>1, <3>2 DEF StatesRight
  <2> HIDE DEF k
  <2> QED BY <1>1, <1>5, <2>1, LeafProves DEF PaddedN
<1>7. /\ level' \in Seq(Nat) /\ Len(level') = Len(level) + 1
      /\ \A x \in 1 .. Len(level) : level'[x] = level[x]
      /\ level'[Len(level) + 1] = k
  BY <1>1, <1>4, <1>5, AppendProperties
<1>8. ASSUME NEW x \in 1 .. Len(level')
      PROVE  level'[x] = 2 * x - 2 /\ 2 * x - 2 \in DOMAIN nodes'
             /\ nodes'[2 * x - 2] = Claim(n, 2 * x - 2, 2 * x - 1)
  <2>1. CASE x = Len(level) + 1
    <3>1. level'[x] = k /\ 2 * x - 2 = k /\ 2 * x - 1 = k + 1
      BY <1>2, <1>7, <2>1
    <3> QED BY <1>4, <1>6, <3>1
  <2>2. CASE x # Len(level) + 1
    <3>1. x \in 1 .. Len(level)
      BY <1>2, <1>7, <2>2
    <3>2. Proves(2 * x - 2, 2 * x - 2, 2 * x - 1) /\ level'[x] = 2 * x - 2
      BY <1>1, <1>7, <3>1
    <3>3. 2 * x - 2 # k
      BY <1>2, <3>1
    <3> QED BY <1>4, <3>2, <3>3 DEF Proves
  <2> QED BY <2>1, <2>2
<1>9. StatesRight'
  BY <1>1, <1>3, <1>4 DEF StatesRight
<1>10. CASE Len(level') = PaddedN
  <2>1. phase' = "inner"
    BY <1>4, <1>10
  <2>2. ASSUME NEW x \in 1 .. Len(level')
        PROVE  /\ level'[x] = 2 * x - 2 /\ level'[x] \in DOMAIN nodes'
               /\ nodes'[level'[x]] = Claim(n, 2 * x - 2, 2 * x - 1)
               /\ nodes'[level'[x]].i = 2 * x - 2 /\ nodes'[level'[x]].j = 2 * x - 1
    <3>1. /\ Claim(n, 2 * x - 2, 2 * x - 1).i = 2 * x - 2
          /\ Claim(n, 2 * x - 2, 2 * x - 1).j = 2 * x - 1
      BY DEF Claim
    <3> QED BY <1>8, <3>1
  <2>3. LevelRight'
    <3>1. Len(level') >= 1 /\ Len(level') \in Nat
      BY <1>2, <1>10
    <3>2. ASSUME NEW x \in 1 .. Len(level')
          PROVE  /\ level'[x] \in DOMAIN nodes'
                 /\ nodes'[level'[x]].i \in Nat /\ nodes'[level'[x]].j \in Nat
                 /\ nodes'[level'[x]] = Claim(n, nodes'[level'[x]].i, nodes'[level'[x]].j)
                 /\ nodes'[level'[x]].i < nodes'[level'[x]].j
                 /\ nodes'[level'[x]].j <= 2 * PaddedN - 1
                 /\ nodes'[level'[x]].j % 2 = 1
      <4>1. (2 * x - 1) % 2 = 1
        OBVIOUS
      <4> QED BY <1>2, <1>10, <2>2, <4>1
    <3>3. ASSUME NEW x \in 1 .. Len(level') - 1
          PROVE  nodes'[level'[x + 1]].i = nodes'[level'[x]].j + 1
      <4>1. x \in 1 .. Len(level') /\ x + 1 \in 1 .. Len(level')
        BY <3>1
      <4> QED BY <2>2, <4>1
    <3>4. nodes'[level'[1]].i = 0 /\ nodes'[level'[Len(level')]].j = 2 * PaddedN - 1
      BY <1>2, <1>10, <2>2
    <3> QED BY <1>1, <1>3, <3>1, <3>2, <3>3, <3>4 DEF LevelRight
  <2>4. IndicesApart'
    <3>1. Len(level') \in Nat
      BY <1>2, <1>10
    <3> QED BY <2>2, <3>1 DEF IndicesApart
  <2>5. LeavesRight' /\ NextRight'
    BY <1>1, <1>2, <1>10, <2>1 DEF LeavesRight, NextRight
  <2> QED BY <1>1, <1>7, <1>9, <2>1, <2>3, <2>4, <2>5 DEF TreeInv
<1>11. CASE Len(level') # PaddedN
  <2>1. phase' = "leaves"
    BY <1>4, <1>11
  <2>2. Len(level') < PaddedN
    BY <1>1, <1>2, <1>7, <1>11
  <2>3. LeavesRight'
    BY <1>1, <1>3, <1>8, <2>1, <2>2 DEF LeavesRight, Proves
  <2>4. LevelRight' /\ IndicesApart' /\ NextRight'
    BY <1>1, <1>2, <1>7, <2>1 DEF LevelRight, IndicesApart, NextRight
  <2> QED BY <1>1, <1>7, <1>9, <2>1, <2>3, <2>4 DEF TreeInv
<1> QED BY <1>10, <1>11

LEMMA ParentKeeps == TreeInv /\ CreateParent => TreeInv'
<1> SUFFICES ASSUME TreeInv, CreateParent PROVE TreeInv'
  OBVIOUS
<1>1. /\ n \in StepCounts /\ phase = "inner" /\ level \in Seq(Nat) /\ next \in Seq(Nat)
      /\ StatesRight /\ LevelRight /\ IndicesApart /\ NextRight
      /\ UNCHANGED <<n, states, level, phase>>
      /\ Len(next) < Len(level) \div 2
  BY DEF TreeInv, CreateParent
<1>2. PICK q, xl, xr, l, r, p :
         /\ q = Len(next) /\ xl = 2 * q + 1 /\ xr = 2 * q + 2
         /\ l = level[xl] /\ r = level[xr] /\ p = (l + r) \div 2
         /\ nodes' = [x \in DOMAIN nodes \cup {p} |->
                          IF x = p THEN ProveParent(nodes[l], nodes[r]) ELSE nodes[x]]
         /\ next' = Append(next, p)
  BY DEF CreateParent
<1>3. n \in Nat \ {0} /\ PaddedN \in Nat \ {0} /\ PaddedN' = PaddedN
  BY <1>1, Padding DEF PaddedN
<1>4. q \in Nat /\ Len(level) \in Nat /\ 2 * q + 2 <= Len(level)
  <2>1. q \in Nat /\ Len(level) \in Nat /\ q < Len(level) \div 2
    BY <1>1, <1>2, LenProperties
  <2>2. \A a, b \in Nat : a < b \div 2 => 2 * a + 2 <= b
    OBVIOUS
  <2> QED BY <2>1, <2>2
<1>5. xl \in 1 .. Len(level) - 1 /\ xl \in 1 .. Len(level) /\ xr \in 1 .. Len(level)
      /\ xl + 1 = xr /\ xl < xr
  BY <1>2, <1>4
<1>6. /\ \A x \in 1 .. Len(level) : level[x] \in Nat
      /\ \A x, y \in 1 .. Len(level) : x < y => level[x] + 2 <= level[y]
  BY <1>1 DEF IndicesApart
<1>7. l \in Nat /\ r \in Nat /\ l + 2 <= r /\ p \in Nat /\ l < p /\ p < r
  <2>1. l \in Nat /\ r \in Nat
    BY <1>2, <1>5, <1>6
  <2>2. level[xl] + 2 <= level[xr]
    BY <1>5, <1>6
  <2>3. l + 2 <= r
    BY <1>2, <2>2
  <2>4. p = (l + r) \div 2
    BY <1>2
  <2> QED BY <2>1, <2>3, <2>4
<1>8. \A x \in 1 .. Len(level) : level[x] # p
  <2> SUFFICES ASSUME NEW x \in 1 .. Len(level) PROVE level[x] # p
    OBVIOUS
  <2>1. level[x] \in Nat
    BY <1>1
  <2>2. CASE x <= xl
    <3>1. level[x] <= l
      <4>1. CASE x = xl
        BY <1>2, <1>7, <4>1
      <4>2. CASE x # xl
        <5>1. x < xl
          BY <1>5, <2>2, <4>2
        <5>2. level[x] + 2 <= level[xl]
          BY <1>5, <1>6, <5>1
        <5> QED BY <1>2, <1>7, <2>1, <5>2
      <4> QED BY <4>1, <4>2
    <3> QED BY <1>7, <2>1, <3>1
  <2>3. CASE x >= xr
    <3>1. r <= level[x]
      <4>1. CASE x = xr
        BY <1>2, <1>7, <4>1
      <4>2. CASE x # xr
        <5>1. xr < x
          BY <1>5, <2>3, <4>2
        <5>2. level[xr] + 2 <= level[x] /\ level[xr] = r
          BY <1>2, <1>5, <1>6, <5>1
        <5> QED BY <1>7, <2>1, <5>2
      <4> QED BY <4>1, <4>2
    <3> QED BY <1>7, <2>1, <3>1
  <2> QED BY <1>5, <2>2, <2>3
<1>9. \A y \in 1 .. Len(next) : next[y] # p
  <2> SUFFICES ASSUME NEW y \in 1 .. Len(next) PROVE next[y] # p
    OBVIOUS
  <2>1. PICK yl, yr : yl = 2 * y - 1 /\ yr = 2 * y
    OBVIOUS
  <2>2. yl \in 1 .. Len(level) /\ yr \in 1 .. Len(level) /\ yl < xl /\ yr < xl
    BY <1>2, <1>4, <2>1
  <2>3. PICK u \in Nat, v \in Nat : u = level[yl] /\ v = level[yr] /\ u + 2 <= l /\ v + 2 <= l
    BY <1>2, <1>5, <1>6, <2>2
  <2>4. next[y] = (u + v) \div 2
    BY <1>1, <2>1, <2>3 DEF NextRight
  <2>5. (u + v) \div 2 < l
    BY <1>7, <2>3
  <2>6. (u + v) \div 2 \in Int
    BY <2>3
  <2> QED BY <1>7, <2>4, <2>5, <2>6
<1>10. \A x \in DOMAIN nodes : x # p => x \in DOMAIN nodes' /\ nodes'[x] = nodes[x]
  BY <1>2
<1>11. PICK a \in Nat, b \in Nat, c \in Nat :
          /\ l \in DOMAIN nodes /\ nodes[l] = Claim(n, a, b) /\ nodes[l].i = a /\ nodes[l].j = b
          /\ r \in DOMAIN nodes /\ nodes[r] = Claim(n, b + 1, c)
          /\ nodes[r].i = b + 1 /\ nodes[r].j = c
          /\ a < b /\ b + 1 < c /\ c <= 2 * PaddedN - 1 /\ b % 2 = 1
  <2>1. PICK a, b, c : a = nodes[l].i /\ b = nodes[l].j /\ c = nodes[r].j
    OBVIOUS
  <2>2. /\ a \in Nat /\ b \in Nat /\ c \in Nat /\ nodes[r].i = b + 1
        /\ l \in DOMAIN nodes /\ r \in DOMAIN nodes
        /\ nodes[l] = Claim(n, a, b) /\ nodes[r] = Claim(n, nodes[r].i, c)
        /\ a < b /\ nodes[r].i < c /\ c <= 2 * PaddedN - 1 /\ b % 2 = 1
    BY <1>1, <1>2, <1>5, <2>1 DEF LevelRight
  <2> QED BY <2>1, <2>2
<1>12. ProveParent(nodes[l], nodes[r]) = Claim(n, a, c)
  BY <1>1, <1>3, <1>11, ParentProves DEF PaddedN
<1>13. p \in DOMAIN nodes' /\ nodes'[p] = Claim(n, a, c)
  BY <1>2, <1>12
<1>14. \A x \in 1 .. Len(level) : level[x] \in DOMAIN nodes' /\ nodes'[level[x]] = nodes[level[x]]
  BY <1>1, <1>8, <1>10 DEF LevelRight
<1>15. LevelRight'
  <2>1. Len(level) >= 1 /\ 1 \in 1 .. Len(level) /\ Len(level) \in 1 .. Len(level)
    BY <1>4
  <2>2. ASSUME NEW x \in 1 .. Len(level)
        PROVE  /\ level[x] \in DOMAIN nodes'
               /\ nodes'[level[x]].i \in Nat /\ nodes'[level[x]].j \in Nat
               /\ nodes'[level[x]] = Claim(n, nodes'[level[x]].i, nodes'[level[x]].j)
               /\ nodes'[level[x]].i < nodes'[level[x]].j
               /\ nodes'[level[x]].j <= 2 * PaddedN - 1
               /\ nodes'[level[x]].j % 2 = 1
    BY <1>1, <1>14 DEF LevelRight
  <2>3. ASSUME NEW x \in 1 .. Len(level) - 1
        PROVE  nodes'[level[x + 1]].i = nodes'[level[x]].j + 1
    <3>1. x \in 1 .. Len(level) /\ x + 1 \in 1 .. Len(level)
      BY <1>4
    <3> QED BY <1>1, <1>14, <3>1 DEF LevelRight
  <2>4. nodes'[level[1]].i = 0 /\ nodes'[level[Len(level)]].j = 2 * PaddedN - 1
    BY <1>1, <1>14, <2>1 DEF LevelRight
  <2> QED BY <1>1, <1>3, <2>1, <2>2, <2>3, <2>4 DEF LevelRight
<1>16. /\ next' \in Seq(Nat) /\ Len(next') = q + 1 /\ next'[q + 1] = p
       /\ \A y \in 1 .. q : next'[y] = next[y]
  BY <1>1, <1>2, <1>7, AppendProperties
<1>17. NextRight'
  <2>1. 2 * Len(next') <= Len(level)
    BY <1>4, <1>16
  <2>2. ASSUME NEW y \in 1 .. Len(next')
        PROVE  /\ next'[y] = (level[2 * y - 1] + level[2 * y]) \div 2
               /\ next'[y] \in DOMAIN nodes'
               /\ nodes'[next'[y]] = Claim(n, nodes'[level[2 * y - 1]].i, nodes'[level[2 * y]].j)
    <3>1. CASE y = q + 1
      <4>1. 2 * y - 1 = xl /\ 2 * y = xr
        BY <1>2, <1>4, <3>1
      <4>2. level[2 * y - 1] = l /\ level[2 * y] = r
        BY <1>2, <4>1
      <4>3. nodes'[l].i = a /\ nodes'[r].j = c
        BY <1>2, <1>5, <1>11, <1>14
      <4> QED BY <1>2, <1>13, <1>16, <3>1, <4>2, <4>3
    <3>2. CASE y # q + 1
      <4>1. y \in 1 .. Len(next) /\ next'[y] = next[y]
        BY <1>2, <1>4, <1>16, <3>2
      <4>2. /\ next[y] = (level[2 * y - 1] + level[2 * y]) \div 2
            /\ next[y] \in DOMAIN nodes
            /\ nodes[next[y]] = Claim(n, nodes[level[2 * y - 1]].i, nodes[level[2 * y]].j)
        BY <1>1, <4>1 DEF NextRight, Proves
      <4>3. nodes'[next[y]] = nodes[next[y]] /\ next[y] \in DOMAIN nodes'
        BY <1>9, <1>10, <4>1, <4>2
      <4>4. 2 * y - 1 \in 1 .. Len(level) /\ 2 * y \in 1 .. Len(level)
        BY <1>2, <1>4, <4>1
      <4>5. /\ nodes'[level[2 * y - 1]] = nodes[level[2 * y - 1]]
            /\ nodes'[level[2 * y]] = nodes[level[2 * y]]
        BY <1>14, <4>4
      <4> QED BY <4>1, <4>2, <4>3, <4>5
    <3> QED BY <3>1, <3>2
  <2> QED BY <1>1, <2>1, <2>2 DEF NextRight, Proves
<1>18. StatesRight' /\ LeavesRight' /\ IndicesApart'
  BY <1>1, <1>3 DEF StatesRight, LeavesRight, IndicesApart
<1> QED BY <1>1, <1>15, <1>16, <1>17, <1>18 DEF TreeInv

LEMMA NextLevelKeeps == TreeInv /\ NextLevel => TreeInv'
<1> SUFFICES ASSUME TreeInv, NextLevel PROVE TreeInv'
  OBVIOUS
<1>1. /\ n \in StepCounts /\ phase = "inner" /\ level \in Seq(Nat) /\ next \in Seq(Nat)
      /\ StatesRight /\ LevelRight /\ IndicesApart /\ NextRight
      /\ UNCHANGED <<n, states, nodes, phase>> /\ next' = <<>>
      /\ Len(level) > 1 /\ Len(next) = Len(level) \div 2
      /\ level' = IF Len(level) % 2 = 1 THEN Append(next, Last(level)) ELSE next
  BY DEF TreeInv, NextLevel, MoveTo
<1>2. PaddedN' = PaddedN
  BY <1>1 DEF PaddedN
<1>3. PICK L \in Nat, N \in Nat : L = Len(level) /\ N = Len(next) /\ L > 1 /\ N = L \div 2
  BY <1>1
<1>4. N >= 1 /\ L \in {2 * N, 2 * N + 1} /\ (L % 2 = 1 <=> L = 2 * N + 1)
  BY <1>3
<1>5. \A x \in 1 .. L : /\ level[x] \in Nat /\ level[x] \in DOMAIN nodes
                        /\ nodes[level[x]].i \in Nat /\ nodes[level[x]].j \in Nat
                        /\ nodes[level[x]] = Claim(n, nodes[level[x]].i, nodes[level[x]].j)
                        /\ nodes[level[x]].i < nodes[level[x]].j
                        /\ nodes[level[x]].j <= 2 * PaddedN - 1
                        /\ nodes[level[x]].j % 2 = 1
  <2>1. \A x \in 1 .. L : level[x] \in Nat
    BY <1>1, <1>3
  <2>2. LevelRight /\ phase = "inner" /\ L = Len(level)
    BY <1>1, <1>3
  <2> QED BY <2>1, <2>2 DEF LevelRight
<1>6. \A x, y \in 1 .. L : x < y => level[x] + 2 <= level[y]
  BY <1>1, <1>3 DEF IndicesApart
<1>7. \A x \in 1 .. L - 1 : nodes[level[x + 1]].i = nodes[level[x]].j + 1
  BY <1>1, <1>3 DEF LevelRight
\* The part of the level that a node of the next one stands for.
<1> DEFINE lo(z) == 2 * z - 1
           hi(z) == IF z <= N THEN 2 * z ELSE 2 * z - 1
           M == IF L = 2 * N THEN N ELSE N + 1
<1>8. ASSUME NEW z \in 1 .. M
      PROVE  lo(z) \in 1 .. L /\ hi(z) \in 1 .. L /\ lo(z) <= hi(z)
  BY <1>4
<1>9. /\ level' \in Seq(Nat) /\ Len(level') = M
      /\ \A z \in 1 .. N : level'[z] = next[z]
      /\ L = 2 * N + 1 => level'[N + 1] = level[L]
  <2>1. CASE L = 2 * N
    <3>1. L # 2 * N + 1 /\ M = N
      BY <2>1
    <3>2. level' = next
      BY <1>1, <1>3, <1>4, <3>1
    <3> QED BY <1>1, <1>3, <3>1, <3>2
  <2>2. CASE L = 2 * N + 1
    <3>1. L # 2 * N /\ M = N + 1 /\ L \in 1 .. L
      BY <1>3, <2>2
    <3>2. level' = Append(next, level[L])
      BY <1>1, <1>3, <1>4, <2>2 DEF Last
    <3>3. level[L] \in Nat
      BY <1>5, <3>1
    <3> QED BY <1>1, <1>3, <2>2, <3>1, <3>2, <3>3, AppendProperties
  <2> QED BY <1>4, <2>1, <2>2
<1>10. ASSUME NEW z \in 1 .. M
       PROVE  /\ level'[z] \in DOMAIN nodes /\ level'[z] \in Nat
              /\ nodes[level'[z]] = Claim(n, nodes[level[lo(z)]].i, nodes[level[hi(z)]].j)
              /\ level[lo(z)] <= level'[z] /\ level'[z] <= level[hi(z)]
              /\ nodes[level[lo(z)]].i < nodes[level[hi(z)]].j
  <2>1. level'[z] \in Nat
    BY <1>9
  <2>2. CASE z <= N
    <3>1. PICK u, v : u = lo(z) /\ v = hi(z)
      OBVIOUS
    <3>2. u = 2 * z - 1 /\ v = 2 * z /\ u \in 1 .. L /\ v \in 1 .. L /\ u < v /\ v = u + 1 /\ u \in 1 .. L - 1
      BY <1>4, <2>2, <3>1
    <3>3. /\ level'[z] = (level[u] + level[v]) \div 2
          /\ level'[z] \in DOMAIN nodes
          /\ nodes[level'[z]] = Claim(n, nodes[level[u]].i, nodes[level[v]].j)
      <4>1. z \in 1 .. Len(next) /\ level'[z] = next[z]
        BY <1>3, <1>9, <2>2
      <4>2. /\ next[z] = (level[2 * z - 1] + level[2 * z]) \div 2
            /\ next[z] \in DOMAIN nodes
            /\ nodes[next[z]] = Claim(n, nodes[level[2 * z - 1]].i, nodes[level[2 * z]].j)
        BY <1>1, <4>1 DEF NextRight, Proves
      <4> QED BY <3>2, <4>1, <4>2
    <3>4. level[u] \in Nat /\ level[v] \in Nat /\ level[u] + 2 <= level[v]
      BY <1>5, <1>6, <3>2
    <3>5. level[u] <= level'[z] /\ level'[z] <= level[v]
      BY <3>3, <3>4
    <3>6. nodes[level[u]].i < nodes[level[v]].j
      BY <1>5, <1>7, <3>2
    <3> QED BY <2>1, <3>1, <3>3, <3>5, <3>6
  <2>3. CASE ~(z <= N)
    <3>1. L = 2 * N + 1 /\ z = N + 1 /\ lo(z) = L /\ hi(z) = L
      BY <1>4, <2>3
    <3>2. level'[z] = level[L] /\ L \in 1 .. L
      BY <1>3, <1>9, <3>1
    <3> QED BY <1>5, <2>1, <3>1, <3>2
  <2> QED BY <2>2, <2>3
<1>11. ASSUME NEW z \in 1 .. M, NEW w \in 1 .. M, z < w
       PROVE  hi(z) < lo(w)
  BY <1>4, <1>11
<1>12. ASSUME NEW z \in 1 .. M - 1
       PROVE  z \in 1 .. M /\ z + 1 \in 1 .. M /\ lo(z + 1) = hi(z) + 1 /\ hi(z) \in 1 .. L - 1
  BY <1>4
<1>13. lo(1) = 1 /\ hi(M) = L /\ 1 \in 1 .. M /\ M \in 1 .. M
  BY <1>4
<1>14. M \in Nat /\ M >= 1
  BY <1>4
<1> HIDE DEF lo, hi, M
<1>15. IndicesApart'
  <2> SUFFICES ASSUME NEW z \in 1 .. M, NEW w \in 1 .. M, z < w
               PROVE  level'[z] + 2 <= level'[w]
    BY <1>9 DEF IndicesApart
  <2>1. level'[z] <= level[hi(z)] /\ level[lo(w)] <= level'[w]
    BY <1>10
  <2>2. hi(z) \in 1 .. L /\ lo(w) \in 1 .. L /\ hi(z) < lo(w)
    BY <1>8, <1>11
  <2>3. level[hi(z)] + 2 <= level[lo(w)] /\ level[hi(z)] \in Nat /\ level[lo(w)] \in Nat
    BY <1>5, <1>6, <2>2
  <2>4. level'[z] \in Nat /\ level'[w] \in Nat
    BY <1>10
  <2> QED BY <2>1, <2>3, <2>4
<1>16. ASSUME NEW z \in 1 .. M
       PROVE  /\ level'[z] \in DOMAIN nodes
              /\ nodes[level'[z]].i = nodes[level[lo(z)]].i
              /\ nodes[level'[z]].j = nodes[level[hi(z)]].j
              /\ nodes[level'[z]].i \in Nat /\ nodes[level'[z]].j \in Nat
              /\ nodes[level'[z]] = Claim(n, nodes[level'[z]].i, nodes[level'[z]].j)
              /\ nodes[level'[z]].i < nodes[level'[z]].j
              /\ nodes[level'[z]].j <= 2 * PaddedN - 1
              /\ nodes[level'[z]].j % 2 = 1
  <2>1. nodes[level'[z]] = Claim(n, nodes[level[lo(z)]].i, nodes[level[hi(z)]].j)
    BY <1>10
  <2>2. /\ nodes[level'[z]].i = nodes[level[lo(z)]].i
        /\ nodes[level'[z]].j = nodes[level[hi(z)]].j
    BY <2>1 DEF Claim
  <2>3. lo(z) \in 1 .. L /\ hi(z) \in 1 .. L
    BY <1>8
  <2>4. /\ nodes[level[lo(z)]].i \in Nat
        /\ nodes[level[hi(z)]].j \in Nat /\ nodes[level[hi(z)]].j <= 2 * PaddedN - 1
        /\ nodes[level[hi(z)]].j % 2 = 1
    BY <1>5, <2>3
  <2>5. level'[z] \in DOMAIN nodes /\ nodes[level[lo(z)]].i < nodes[level[hi(z)]].j
    BY <1>10
  <2> QED BY <2>1, <2>2, <2>4, <2>5
<1>17. LevelRight'
  <2>1. ASSUME NEW z \in 1 .. M - 1
        PROVE  nodes[level'[z + 1]].i = nodes[level'[z]].j + 1
    <3>1. z \in 1 .. M /\ z + 1 \in 1 .. M /\ lo(z + 1) = hi(z) + 1 /\ hi(z) \in 1 .. L - 1
      BY <1>12
    <3>2. /\ nodes[level'[z + 1]].i = nodes[level[lo(z + 1)]].i
          /\ nodes[level'[z]].j = nodes[level[hi(z)]].j
      BY <1>16, <3>1
    <3>3. nodes[level[hi(z) + 1]].i = nodes[level[hi(z)]].j + 1
      BY <1>7, <3>1
    <3> QED BY <3>1, <3>2, <3>3
  <2>2. nodes[level'[1]].i = 0 /\ nodes[level'[M]].j = 2 * PaddedN - 1
    <3>1. nodes[level'[1]].i = nodes[level[1]].i /\ nodes[level'[M]].j = nodes[level[L]].j
      BY <1>13, <1>16
    <3> QED BY <1>1, <1>3, <3>1 DEF LevelRight
  <2>3. nodes' = nodes /\ n' = n
    BY <1>1
  <2> QED BY <1>2, <1>9, <1>14, <1>16, <2>1, <2>2, <2>3 DEF LevelRight
<1>18. NextRight' /\ StatesRight' /\ LeavesRight'
  <2>1. Len(next') = 0 /\ phase' = "inner"
    BY <1>1
  <2>2. NextRight'
    BY <1>9, <1>14, <2>1 DEF NextRight
  <2> QED BY <1>1, <1>2, <2>2 DEF StatesRight, LeavesRight
<1> QED BY <1>1, <1>9, <1>15, <1>17, <1>18 DEF TreeInv

LEMMA ReturnKeeps == TreeInv /\ Return => TreeInv'
<1> SUFFICES ASSUME TreeInv, Return PROVE TreeInv'
  OBVIOUS
<1>1. /\ phase = "inner" /\ Len(level) = 1 /\ phase' = "done" /\ UNCHANGED <<n, states, nodes, level, next>>
  BY DEF Return
<1>2. PaddedN' = PaddedN
  BY <1>1 DEF PaddedN
<1>3. next = <<>>
  <2>1. next \in Seq(Nat) /\ 2 * Len(next) <= 1
    BY <1>1 DEF TreeInv, NextRight
  <2>2. Len(next) \in Nat /\ Len(next) = 0
    BY <2>1
  <2> QED BY <2>1, <2>2
<1>4. NextRight'
  BY <1>1, <1>3 DEF TreeInv, NextRight
<1>5. StatesRight' /\ LeavesRight' /\ LevelRight' /\ IndicesApart'
  BY <1>1, <1>2 DEF TreeInv, StatesRight, LeavesRight, LevelRight, IndicesApart
<1> QED BY <1>1, <1>4, <1>5 DEF TreeInv

LEMMA TreeStutters == TreeInv /\ UNCHANGED vars => TreeInv'
BY DEF TreeInv, vars, StatesRight, LeavesRight, LevelRight, IndicesApart, NextRight, PaddedN, Proves

-----------------------------------------------------------------------------
(* The root.                                                                *)

LEMMA TreeInvGivesRoot == TreeInv /\ Returned => Root = Claim(n, 0, 2 * PaddedN - 1)
<1> SUFFICES ASSUME TreeInv, Returned PROVE Root = Claim(n, 0, 2 * PaddedN - 1)
  OBVIOUS
<1>1. phase = "done" /\ Len(level) = 1
  BY DEF Returned, TreeInv, NextRight
<1>2. /\ Root.i = 0 /\ Root.j = 2 * PaddedN - 1
      /\ Root = Claim(n, Root.i, Root.j)
  BY <1>1 DEF TreeInv, LevelRight, Root
<1> QED BY <1>2

\* Where every link holds, the even states of the vector are the circuit's own.
LEMMA EvenStatesProved ==
    ASSUME NEW m \in StepCounts, NextPowerOfTwo(m) \in Nat, PaddingFollows(m)
    PROVE  \A x \in Nat : x <= NextPowerOfTwo(m) - 1 => StateOf(m, 2 * x) = Proved[2 * x]
<1> DEFINE S == {x \in Nat : x <= NextPowerOfTwo(m) - 1 => StateOf(m, 2 * x) = Proved[2 * x]}
<1>1. 0 \in S
  <2>1. m \in Nat
    BY StepCountsAssumption
  <2>2. StateOf(m, 2 * 0) = After[0]
    BY <2>1 DEF StateOf
  <2>3. Proved[2 * 0] = Proved[0]
    OBVIOUS
  <2> QED BY <2>2, <2>3, AfterDef, ProvedDef
<1>2. ASSUME NEW x \in Nat, x \in S PROVE x + 1 \in S
  <2> SUFFICES ASSUME x + 1 <= NextPowerOfTwo(m) - 1
               PROVE  StateOf(m, 2 * (x + 1)) = Proved[2 * (x + 1)]
    OBVIOUS
  <2>1. StateOf(m, 2 * x) = Proved[2 * x] /\ x \in 0 .. NextPowerOfTwo(m) - 2
    BY <1>2
  <2>2. StateOf(m, 2 * x + 2) = StepCircuit(2 * x + 1, StepCircuit(2 * x, StateOf(m, 2 * x)))
    BY <2>1 DEF PaddingFollows, LinkFollows
  <2>3. Proved[2 * x + 2] = StepCircuit(2 * x + 1, StepCircuit(2 * x, Proved[2 * x]))
    <3>1. PICK k \in Nat : k = 2 * x
      OBVIOUS
    <3>2. Proved[k + 1] = StepCircuit(k, Proved[k])
      BY ProvedDef
    <3>3. Proved[(k + 1) + 1] = StepCircuit(k + 1, Proved[k + 1])
      BY ProvedDef
    <3>4. (k + 1) + 1 = 2 * x + 2
      BY <3>1
    <3> QED BY <3>1, <3>2, <3>3, <3>4
  <2>4. 2 * (x + 1) = 2 * x + 2
    OBVIOUS
  <2> QED BY <2>1, <2>2, <2>3, <2>4
<1> HIDE DEF S
<1>3. \A x \in Nat : x \in S
  BY <1>1, <1>2, SetInduction
<1> QED BY <1>3 DEF S

LEMMA LinksOfRoot ==
    ASSUME NEW m, NextPowerOfTwo(m) \in Nat
    PROVE  LinksWithin(m, 0, 2 * NextPowerOfTwo(m) - 1) <=> PaddingFollows(m)
<1>1. \A x \in 0 .. NextPowerOfTwo(m) - 2 :
        0 <= 2 * x /\ 2 * x + 2 < 2 * NextPowerOfTwo(m) - 1
  OBVIOUS
<1> QED BY <1>1 DEF LinksWithin, PaddingFollows

LEMMA RootVerifies == TreeInv /\ Returned => (Verify(Root) <=> PaddingFollows(n))
<1> SUFFICES ASSUME TreeInv, Returned PROVE Verify(Root) <=> PaddingFollows(n)
  OBVIOUS
<1>1. PaddedN \in Nat
  BY Padding DEF TreeInv
<1>2. Root = Claim(n, 0, 2 * PaddedN - 1)
  BY TreeInvGivesRoot
<1>3. Root.sat = LinksWithin(n, 0, 2 * PaddedN - 1)
  BY <1>2 DEF Claim
<1> QED BY <1>1, <1>3, LinksOfRoot DEF Verify, PaddedN

LEMMA RootIsRight == TreeInv => RootProvesItsSteps
<1> SUFFICES ASSUME TreeInv, Returned
             PROVE  /\ Root.i = 0 /\ Root.j = 2 * PaddedN - 1
                    /\ Root.zi = InitialInput
                    /\ Root.zj = StepCircuit(2 * PaddedN - 2, StateOf(n, 2 * PaddedN - 2))
                    /\ Verify(Root) => Root.zj = Proved[2 * PaddedN - 1]
  BY DEF RootProvesItsSteps
<1>1. n \in StepCounts /\ n \in Nat \ {0} /\ PaddedN \in Nat \ {0}
  BY Padding DEF TreeInv
<1>2. Root = Claim(n, 0, 2 * PaddedN - 1)
  BY TreeInvGivesRoot
<1>3. (2 * PaddedN - 1) - 1 = 2 * PaddedN - 2
  BY <1>1
<1>4. /\ Root.i = 0 /\ Root.j = 2 * PaddedN - 1 /\ Root.zi = StateOf(n, 0)
      /\ Root.zj = StepCircuit(2 * PaddedN - 2, StateOf(n, 2 * PaddedN - 2))
  BY <1>2, <1>3 DEF Claim
<1>5. StateOf(n, 0) = InitialInput
  BY <1>1, AfterDef DEF StateOf
<1>6. ASSUME Verify(Root) PROVE Root.zj = Proved[2 * PaddedN - 1]
  <2>1. PaddingFollows(n)
    BY <1>6, RootVerifies
  <2>2. PICK k \in Nat : k = 2 * PaddedN - 2 /\ k = 2 * (PaddedN - 1) /\ k + 1 = 2 * PaddedN - 1
    BY <1>1
  <2>3. StateOf(n, k) = Proved[k]
    <3>1. PaddedN - 1 \in Nat /\ PaddedN - 1 <= PaddedN - 1
      BY <1>1
    <3> QED BY <1>1, <2>1, <2>2, <3>1, EvenStatesProved DEF PaddedN
  <2>4. Proved[k + 1] = StepCircuit(k, Proved[k])
    BY ProvedDef
  <2> QED BY <1>4, <2>2, <2>3, <2>4
<1> QED BY <1>4, <1>5, <1>6

LEMMA TreeNext == TreeInv /\ [Next]_vars => TreeInv'
<1> SUFFICES ASSUME TreeInv, [Next]_vars PROVE TreeInv'
  OBVIOUS
<1>1. CASE ComputeState
  BY <1>1, ComputeKeeps
<1>2. CASE PadState
  BY <1>2, PadKeeps
<1>3. CASE CreateLeaf
  BY <1>3, LeafKeeps
<1>4. CASE CreateParent
  BY <1>4, ParentKeeps
<1>5. CASE NextLevel
  BY <1>5, NextLevelKeeps
<1>6. CASE Return
  BY <1>6, ReturnKeeps
<1>7. CASE UNCHANGED vars
  BY <1>7, TreeStutters
<1> QED BY <1>1, <1>2, <1>3, <1>4, <1>5, <1>6, <1>7 DEF Next

\* For every number of steps, every step circuit and every closure: the root
\* build_binary_pcd_tree returns runs from the initial input over all
\* 2 * n.next_power_of_two() - 1 steps, and if PCDNode::verify accepts it, it
\* ends where the circuit is after that many steps.
THEOREM RootProvesItsStepsHolds == Spec => []RootProvesItsSteps
<1> QED BY TreeInit, TreeNext, RootIsRight, PTL DEF Spec

\* PCDNode::verify accepts that root exactly when every link of the padded
\* vector of states is two steps of the circuit.
THEOREM RootVerdictHolds == Spec => [](Returned => (Verify(Root) <=> PaddingFollows(n)))
<1>1. TreeInv => (Returned => (Verify(Root) <=> PaddingFollows(n)))
  BY RootVerifies
<1> QED BY <1>1, TreeInit, TreeNext, PTL DEF Spec

=============================================================================
