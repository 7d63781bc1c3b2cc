--------------------------- MODULE ProveParProofs ---------------------------
(***************************************************************************)
(* Proof that the parallel provers never panic, return a proof of the whole *)
(* trace and nothing else, and label every step rightly, for every length   *)
(* of the program: ProveInv is inductive.                                   *)
(***************************************************************************)
EXTENDS ProvePar, NatLemmas, SequenceTheorems

-----------------------------------------------------------------------------
(* The length of a trace.                                                   *)

\* 2^p - 1 blocks are a length at which trace stops, unless p is 1.
LEMMA StopsAtPower ==
  ASSUME NEW p \in Nat, p >= 2
  PROVE  TwoTo[p] - 1 \in Nat \ {0, 1} /\ StopsAt(TwoTo[p] - 1)
<1>1. PICK d \in Nat : p = d + 1 /\ d # 0
  <2>1. p - 1 \in Nat /\ p = (p - 1) + 1 /\ p - 1 # 0
    OBVIOUS
  <2> QED BY <2>1
<1>2. PICK w \in Nat : w = TwoTo[d] /\ TwoTo[p] = 2 * w /\ w >= 2
  <2>1. TwoTo[d] \in Nat /\ TwoTo[d + 1] = 2 * TwoTo[d] /\ d < TwoTo[d]
    BY TwoToDef, TwoToPositive
  <2> QED BY <1>1, <2>1
<1>3. PICK c \in Nat : c = 2 * w - 1 /\ c > 1 /\ c - 1 \in Nat \ {0}
  BY <1>2
<1>4. Ilog2(c - 1) = d
  <2>1. TwoTo[d] <= c - 1 /\ c - 1 < TwoTo[d + 1]
    BY <1>1, <1>2, <1>3
  <2> QED BY <1>3, <2>1, Ilog2Unique
<1>5. NextPowerOfTwo(c) = c + 1
  BY <1>1, <1>2, <1>3, <1>4 DEF NextPowerOfTwo
<1> QED BY <1>2, <1>3, <1>5 DEF StopsAt

\* Whatever a program runs for, trace stops, and the number of its blocks is one less than a
\* power of two.
LEMMA TraceBlocksIs ==
  ASSUME NEW run \in Nat \ {0}
  PROVE  /\ TraceBlocks(run) \in Nat \ {0, 1} /\ run <= TraceBlocks(run)
         /\ \E m \in Nat \ {0} : TraceBlocks(run) + 1 = TwoTo[m]
<1> DEFINE T == {c \in run .. 4 * run : StopsAt(c)}
<1>1. T # {}
  <2>1. CASE run = 1
    <3>1. TwoTo[0 + 1] = 2 /\ TwoTo[1 + 1] = 4
      BY TwoToDef
    <3>2. TwoTo[2] = 4
      BY <3>1
    <3>3. StopsAt(3)
      <4>1. TwoTo[2] - 1 = 3
        BY <3>2
      <4> QED BY <4>1, StopsAtPower
    <3> QED BY <2>1, <3>3
  <2>2. CASE run # 1
    <3>1. PICK e \in Nat : TwoTo[e] <= run /\ run < TwoTo[e + 1]
      BY Ilog2Is
    <3>2. TwoTo[e] \in Nat /\ TwoTo[e + 1] = 2 * TwoTo[e] /\ TwoTo[0] = 1
      BY TwoToDef
    <3>3. e # 0
      BY <2>2, <3>1, <3>2
    <3>4. StopsAt(TwoTo[e + 1] - 1)
      BY <3>3, StopsAtPower
    <3>5. TwoTo[e + 1] - 1 \in run .. 4 * run
      BY <3>1, <3>2
    <3> QED BY <3>4, <3>5
  <2> QED BY <2>1, <2>2
<1>2. PICK c \in T : \A d \in T : c <= d
  <2>1. T \in SUBSET Nat
    OBVIOUS
  <2> QED BY <1>1, <2>1, LeastNat
<1>3. c \in run .. 4 * run /\ StopsAt(c) /\ \A d \in run .. c - 1 : ~StopsAt(d)
  <2>1. ASSUME NEW d \in run .. c - 1, StopsAt(d) PROVE FALSE
    <3>1. d \in T /\ ~(c <= d)
      BY <2>1
    <3> QED BY <1>2, <3>1
  <2> QED BY <1>2, <2>1
<1>4. TraceBlocks(run) \in run .. 4 * run /\ StopsAt(TraceBlocks(run))
  BY <1>3 DEF TraceBlocks
<1>5. PICK b \in Nat : b = TraceBlocks(run) /\ b >= run /\ NextPowerOfTwo(b) = b + 1
  BY <1>4 DEF StopsAt
<1>6. b > 1
  BY <1>5 DEF NextPowerOfTwo
<1>7. b + 1 = TwoTo[Ilog2(b - 1) + 1]
  BY <1>5, <1>6 DEF NextPowerOfTwo
<1>8. Ilog2(b - 1) \in Nat
  BY <1>6, Ilog2Is
<1> QED BY <1>5, <1>6, <1>7, <1>8

-----------------------------------------------------------------------------
(* The label of a step.                                                     *)

\* The step that is q steps into level a gets the number of the block that it proves, and
\* the name of what it is.
LEMMA LabelIs ==
  ASSUME NEW m \in Nat, numSteps \in Nat, numSteps + 1 = TwoTo[m],
         NEW a \in Nat, a < m, NEW q \in Nat, 2 * q < TwoTo[m - a],
         NEW i, i = TwoTo[m] - TwoTo[m - a] + q
  PROVE  /\ StepLabel(i) = (2 * q + 1) * TwoTo[a] - 1
         /\ StepType(i) = IF a = 0 THEN "leaf" ELSE IF TwoTo[m - a] = 2 THEN "root" ELSE "node"
<1>1. PICK d \in Nat : d = m - a - 1 /\ m - a = d + 1 /\ m = a + (d + 1) /\ m - 1 - d = a
  <2>1. m - a - 1 \in Nat
    OBVIOUS
  <2> QED BY <2>1
<1>2. PICK A \in Nat \ {0}, W \in Nat \ {0} :
          /\ A = TwoTo[a] /\ TwoTo[a + 1] = 2 * A
          /\ W = TwoTo[d] /\ TwoTo[m - a] = 2 * W
  <2>1. TwoTo[a] \in Nat \ {0} /\ TwoTo[d] \in Nat \ {0}
    BY TwoToPositive
  <2>2. TwoTo[a + 1] = 2 * TwoTo[a] /\ TwoTo[d + 1] = 2 * TwoTo[d]
    BY TwoToDef
  <2> QED BY <1>1, <2>1, <2>2
<1>3. PICK p \in Nat : p = A * W /\ TwoTo[m] = 2 * p /\ p >= W
  <2>1. PICK B \in Nat : A = B + 1
    <3>1. A - 1 \in Nat /\ A = (A - 1) + 1
      BY <1>2
    <3> QED BY <3>1
  <2>2. (B + 1) * W = B * W + W /\ B * W \in Nat
    BY <1>2
  <2>3. A * (2 * W) = 2 * (A * W) /\ A * W \in Nat
    BY <1>2
  <2>4. TwoTo[m] = TwoTo[a] * TwoTo[d + 1]
    BY <1>1, TwoToSum
  <2>5. A * W >= W
    BY <1>2, <2>1, <2>2
  <2>6. TwoTo[m] = A * (2 * W)
    BY <1>1, <1>2, <2>4
  <2> QED BY <2>3, <2>5, <2>6
<1>4. q < W /\ i = 2 * p - 2 * W + q /\ i \in Nat /\ numSteps = 2 * p - 1
  <2>1. TwoTo[m] = 2 * p /\ p >= W /\ TwoTo[m - a] = 2 * W
    BY <1>2, <1>3
  <2> QED BY <2>1
<1>5. numSteps - i \in Nat \ {0} /\ W <= numSteps - i /\ numSteps - i < 2 * W
  BY <1>2, <1>4
<1>6. Ilog2(numSteps - i) = d
  <2>1. TwoTo[d] <= numSteps - i /\ numSteps - i < TwoTo[d + 1]
    BY <1>1, <1>2, <1>5
  <2> QED BY <1>5, <2>1, Ilog2Unique
<1>7. Ilog2(numSteps + 1) = m
  BY Ilog2Power
<1>8. StepLabel(i) = TwoTo[a + 1] * i - (TwoTo[a] - 1) * (TwoTo[m + 1] - 1)
  <2>1. m - 1 - d = a
    BY <1>1
  <2> QED BY <1>6, <1>7, <2>1 DEF StepLabel
<1>9. StepLabel(i) = (2 * A) * (2 * p - 2 * W + q) - (A - 1) * (4 * p - 1)
  <2>1. TwoTo[m + 1] = 4 * p
    BY <1>3, TwoToDef
  <2> QED BY <1>2, <1>4, <1>8, <2>1
<1>10. (2 * A) * (2 * p - 2 * W + q) - (A - 1) * (4 * p - 1) = (2 * q + 1) * A - 1
  BY <1>2, <1>3
<1>11. StepLabel(i) = (2 * q + 1) * TwoTo[a] - 1
  BY <1>2, <1>9, <1>10
<1>12. CASE a = 0
  <2>1. A = 1 /\ p = W
    BY <1>2, <1>3, <1>12, TwoToDef
  <2>2. numSteps \div 2 = p - 1
    BY <1>3, <1>4
  <2>3. i <= numSteps \div 2
    BY <1>4, <2>1, <2>2
  <2> QED BY <1>11, <1>12, <2>3 DEF StepType
<1>13. CASE a # 0
  <2>1. p >= 2 * W
    <3>1. A >= 2
      BY <1>2, <1>13, TwoToPositive
    <3>2. A * W >= 2 * W
      BY <1>2, <3>1
    <3> QED BY <1>3, <3>2
  <2>2. numSteps \div 2 = p - 1
    BY <1>3, <1>4
  <2>3. ~(i <= numSteps \div 2)
    BY <1>2, <1>3, <1>4, <2>1, <2>2
  <2>4. i = numSteps - 1 <=> W = 1
    BY <1>4
  <2>5. TwoTo[m - a] = 2 <=> W = 1
    <3>1. W \in Nat => (2 * W = 2 <=> W = 1)
      OBVIOUS
    <3> QED BY <1>2, <3>1
  <2> QED BY <1>11, <1>13, <2>3, <2>4, <2>5 DEF StepType
<1> QED BY <1>12, <1>13

-----------------------------------------------------------------------------
(* The levels.                                                              *)

\* A tree of m levels, level a of which is being folded.
LEMMA LevelIs ==
  ASSUME ProveInv
  PROVE  \E m \in Nat \ {0}, a \in Nat : /\ m = Ilog2(numSteps + 1) /\ a <= m /\ AtLevel(m, a)
                                         /\ TwoTo[m] \in Nat \ {0} /\ TwoTo[m - a] \in Nat \ {0}
<1>1. PICK m \in Int : m = Ilog2(numSteps + 1) /\ m \in Nat \ {0} /\ \E a \in 0 .. m : AtLevel(m, a)
  <2>1. numSteps + 1 \in Nat \ {0}
    BY DEF ProveInv
  <2>2. Ilog2(numSteps + 1) \in Nat
    BY <2>1, Ilog2Is
  <2> QED BY <2>2 DEF ProveInv
<1>2. PICK a \in 0 .. m : AtLevel(m, a)
  BY <1>1
<1>3. m - a \in Nat
  BY <1>1
<1> QED BY <1>1, <1>2, <1>3, TwoToPositive

\* The first state: trace has stopped at 2^m - 1 blocks, so that the assertion holds.
LEMMA ProveInit == Init => ProveInv
<1> SUFFICES ASSUME Init PROVE ProveInv
  OBVIOUS
<1>1. PICK run \in Nat \ {0} : numSteps = TraceBlocks(run)
  BY RunLengthsAssumption DEF Init
<1>2. PICK m \in Nat \ {0} : numSteps \in Nat /\ numSteps + 1 = TwoTo[m]
  BY <1>1, TraceBlocksIs
<1>3. Ilog2(numSteps + 1) = m
  BY <1>2, Ilog2Power
<1>4. phase = "leaves"
  BY <1>2, PowerOfTwoIs DEF Init
<1>5. vs = <<>> /\ done = <<>> /\ iter = 0 /\ shown = proved
  BY DEF Init
<1>6. AtLevel(m, 0)
  <2>1. NodesOfLevel(vs, 0) /\ NodesOfLevel(done, 0 + 1) /\ Len(done) = 0
    BY <1>5 DEF NodesOfLevel
  <2>2. TwoTo[m] \in Nat /\ m - 0 = m
    BY TwoToPositive
  <2> QED BY <1>2, <1>4, <1>5, <2>1, <2>2 DEF AtLevel
<1>7. 0 \in 0 .. m
  OBVIOUS
<1> QED BY <1>2, <1>3, <1>4, <1>5, <1>6, <1>7 DEF ProveInv, LabelNamesStep

\* A node that is appended to the nodes of a level.
LEMMA AppendNode ==
  ASSUME NEW s \in Seq(Node), NEW b \in Nat, NodesOfLevel(s, b), NEW n,
         n = Claim(Len(s) * TwoTo[b], (Len(s) + 1) * TwoTo[b] - 1)
  PROVE  /\ Append(s, n) \in Seq(Node) /\ Len(Append(s, n)) = Len(s) + 1
         /\ NodesOfLevel(Append(s, n), b)
<1>1. n \in Node
  <2>1. PICK q, w \in Nat : q = Len(s) /\ w = TwoTo[b] /\ w >= 1
    BY TwoToPositive
  <2>2. \A x, y \in Nat : x * y \in Nat /\ (x + 1) * y = x * y + y
    OBVIOUS
  <2>3. q * w \in Nat /\ (q + 1) * w - 1 \in Nat
    <3>1. PICK z \in Nat : z = q * w /\ (q + 1) * w = z + w
      BY <2>2
    <3>2. z + w - 1 \in Nat
      BY <2>1
    <3> QED BY <3>1, <3>2
  <2> QED BY <2>1, <2>3 DEF Claim, Node
<1>2. /\ Append(s, n) \in Seq(Node) /\ Len(Append(s, n)) = Len(s) + 1
      /\ \A k \in 1 .. Len(s) : Append(s, n)[k] = s[k]
      /\ Append(s, n)[Len(s) + 1] = n /\ Len(s) \in Nat
  BY <1>1, AppendProperties
<1>3. ASSUME NEW k \in 1 .. Len(Append(s, n))
      PROVE  Append(s, n)[k] = Claim((k - 1) * TwoTo[b], k * TwoTo[b] - 1)
  <2>1. CASE k \in 1 .. Len(s)
    BY <1>2, <2>1 DEF NodesOfLevel
  <2>2. CASE k = Len(s) + 1
    <3>1. k - 1 = Len(s)
      BY <1>2, <2>2
    <3> QED BY <1>2, <2>2, <3>1
  <2> QED BY <1>2, <2>1, <2>2
<1> QED BY <1>2, <1>3 DEF NodesOfLevel

\* Every second block is proved by a leaf.
LEMMA LeafStepKeeps == ASSUME ProveInv, LeafStep PROVE ProveInv'
<1>1. PICK m \in Nat \ {0}, a \in Nat : /\ m = Ilog2(numSteps + 1) /\ a <= m /\ AtLevel(m, a)
                                        /\ TwoTo[m] \in Nat \ {0}
  BY LevelIs
<1>2. a = 0 /\ phase = "leaves" /\ m - a = m /\ numSteps \in Nat /\ done \in Seq(Node) /\ vs = <<>>
  BY <1>1 DEF LeafStep, AtLevel, ProveInv
<1>3. PICK q \in Nat : /\ q = Len(done) /\ iter = TwoTo[m] - TwoTo[m - a] + q
                       /\ 2 * q < numSteps /\ numSteps + 1 = TwoTo[m]
  BY <1>1, <1>2, LenProperties DEF AtLevel, LeafStep
<1>4. PICK w \in Nat : TwoTo[m] = 2 * w
  <2>1. m - 1 \in Nat /\ m = (m - 1) + 1
    OBVIOUS
  <2> QED BY <2>1, TwoToDef
<1>5. 2 * q < TwoTo[m - a] /\ 2 * (q + 1) <= TwoTo[m] /\ iter = q
  BY <1>1, <1>2, <1>3, <1>4
<1>6. StepLabel(iter) = 2 * q /\ StepType(iter) = "leaf"
  <2>1. StepLabel(iter) = (2 * q + 1) * TwoTo[0] - 1 /\ StepType(iter) = "leaf"
    <3>1. /\ 0 \in Nat /\ 0 < m /\ 2 * q < TwoTo[m - 0] /\ numSteps \in Nat
          /\ iter = TwoTo[m] - TwoTo[m - 0] + q /\ numSteps + 1 = TwoTo[m]
      BY <1>2, <1>3, <1>5
    <3> QED BY <3>1, LabelIs
  <2>2. (2 * q + 1) * 1 - 1 = 2 * q
    OBVIOUS
  <2> QED BY <2>1, <2>2, TwoToDef
<1>7. /\ done' = Append(done, PCD!ProveLeaf(2 * q, 2 * q)) /\ proved' = <<"leaf", 2 * q>>
      /\ shown' = <<"leaf", 2 * q>> /\ iter' = iter + 1 /\ UNCHANGED <<numSteps, vs, phase>>
  BY <1>3, <1>6 DEF LeafStep, Display
<1>8. PCD!ProveLeaf(2 * q, 2 * q) = Claim(q * TwoTo[0 + 1], (q + 1) * TwoTo[0 + 1] - 1)
  <2>1. TwoTo[0 + 1] = 2
    BY TwoToDef
  <2>2. q * 2 = 2 * q /\ (q + 1) * 2 - 1 = 2 * q + 1
    OBVIOUS
  <2> QED BY <2>1, <2>2 DEF PCD!ProveLeaf, StepOfBlock, Claim
<1>9. done' \in Seq(Node) /\ Len(done') = q + 1 /\ NodesOfLevel(done', 0 + 1)
  <2>1. NodesOfLevel(done, 0 + 1)
    BY <1>1, <1>2 DEF AtLevel
  <2> QED BY <1>2, <1>3, <1>7, <1>8, <2>1, AppendNode
<1>10. AtLevel(m, 0)'
  <2>1. NodesOfLevel(vs, 0)'
    BY <1>1, <1>2, <1>7 DEF AtLevel
  <2>2. iter' = TwoTo[m] - TwoTo[m - 0] + (q + 1)
    BY <1>2, <1>3, <1>7
  <2> QED BY <1>2, <1>3, <1>5, <1>7, <1>9, <2>1, <2>2 DEF AtLevel
<1>11. 0 \in 0 .. m
  OBVIOUS
<1> QED BY <1>1, <1>2, <1>7, <1>9, <1>10, <1>11 DEF ProveInv, LabelNamesStep

\* What makes a state of the folding one of level a.
LEMMA FoldAt ==
  ASSUME NEW m \in Nat, NEW a \in Nat, a # 0, NEW x, x = TwoTo[m - a], NEW y, y = TwoTo[m], NEW q,
         numSteps' + 1 = y, phase' = "fold", Len(vs') = x, Len(done') = q, 2 * q <= x,
         iter' = y - x + q, NodesOfLevel(vs, a)', NodesOfLevel(done, a + 1)'
  PROVE  AtLevel(m, a)'
BY DEF AtLevel

\* No node yet is no node of any level.
LEMMA NoNodes == <<>> \in Seq(Node) /\ Len(<<>>) = 0 /\ \A b : NodesOfLevel(<<>>, b)
BY EmptySeq DEF NodesOfLevel

\* The leaves are the nodes of the first level.
LEMMA LeavesDoneKeeps == ASSUME ProveInv, LeavesDone PROVE ProveInv'
<1>1. PICK m \in Nat \ {0}, a \in Nat : m = Ilog2(numSteps + 1) /\ a <= m /\ AtLevel(m, a)
  BY LevelIs
<1>2. a = 0 /\ phase = "leaves" /\ m - a = m /\ numSteps \in Nat /\ done \in Seq(Node)
  BY <1>1 DEF LeavesDone, AtLevel, ProveInv
<1>3. PICK q \in Nat : /\ q = Len(done) /\ iter = TwoTo[m] - TwoTo[m] + q
                       /\ 2 * q >= numSteps /\ 2 * q <= TwoTo[m] /\ numSteps + 1 = TwoTo[m]
  BY <1>1, <1>2, LenProperties DEF AtLevel, LeavesDone
<1>4. PICK w \in Nat : w = TwoTo[m - 1] /\ TwoTo[m] = 2 * w
  <2>1. m - 1 \in Nat /\ m = (m - 1) + 1
    OBVIOUS
  <2> QED BY <2>1, TwoToDef
<1>5. q = w /\ iter = w
  <2>1. PICK y \in Nat : y = TwoTo[m] /\ y = 2 * w
    BY <1>4
  <2>2. iter = y - y + q /\ 2 * q >= numSteps /\ 2 * q <= y /\ numSteps + 1 = y
    BY <1>3, <2>1
  <2> QED BY <1>2, <2>1, <2>2
<1>6. vs' = done /\ done' = <<>> /\ phase' = "fold" /\ UNCHANGED <<numSteps, iter, shown, proved>>
  BY DEF LeavesDone
<1>7. AtLevel(m, 1)'
  <2>1. NodesOfLevel(vs, 1)' /\ NodesOfLevel(done, 1 + 1)' /\ Len(done') = 0
    <3>1. NodesOfLevel(done, 0 + 1)
      BY <1>1, <1>2 DEF AtLevel
    <3> QED BY <1>6, <3>1 DEF NodesOfLevel
  <2>2. numSteps' + 1 = 2 * w /\ Len(vs') = w /\ 2 * 0 <= w /\ iter' = 2 * w - w + 0
    <3>1. 2 * w - w + 0 = w /\ 2 * 0 <= w
      OBVIOUS
    <3>2. numSteps + 1 = 2 * w /\ Len(done) = w
      BY <1>3, <1>4, <1>5
    <3> QED BY <1>5, <1>6, <3>1, <3>2
  <2>3. 1 \in Nat /\ 1 # 0 /\ m \in Nat
    OBVIOUS
  <2> QED BY <1>4, <1>6, <2>1, <2>2, <2>3, FoldAt
<1>8. 1 \in 0 .. m
  OBVIOUS
<1>9. <<>> \in Seq(Node)
  BY EmptySeq
<1> QED BY <1>1, <1>2, <1>6, <1>7, <1>8, <1>9 DEF ProveInv, LabelNamesStep

\* While there is more than one node, their number is even.
LEMMA FoldingLevel ==
  ASSUME ProveInv, phase = "fold", Len(vs) # 1
  PROVE  \E m \in Nat \ {0}, a \in Nat, q, w \in Nat :
           /\ m = Ilog2(numSteps + 1) /\ a # 0 /\ a < m /\ AtLevel(m, a)
           /\ numSteps \in Nat /\ vs \in Seq(Node) /\ done \in Seq(Node)
           /\ w = TwoTo[m - (a + 1)] /\ TwoTo[m - a] = 2 * w
           /\ Len(vs) = 2 * w /\ q = Len(done) /\ q <= w
<1>1. PICK m \in Nat \ {0}, a \in Nat : m = Ilog2(numSteps + 1) /\ a <= m /\ AtLevel(m, a)
  BY LevelIs
<1>2. /\ a # 0 /\ Len(vs) = TwoTo[m - a] /\ 2 * Len(done) <= TwoTo[m - a]
      /\ numSteps \in Nat /\ vs \in Seq(Node) /\ done \in Seq(Node) /\ Len(done) \in Nat
  BY <1>1, LenProperties DEF AtLevel, ProveInv
<1>3. a # m
  <2>1. m - m = 0
    OBVIOUS
  <2> QED BY <1>2, <2>1, TwoToDef
<1>4. m - (a + 1) \in Nat /\ m - a = (m - (a + 1)) + 1 /\ a < m
  BY <1>1, <1>3
<1>5. PICK w \in Nat : w = TwoTo[m - (a + 1)] /\ TwoTo[m - a] = 2 * w
  BY <1>4, TwoToDef
<1>6. Len(done) <= w
  BY <1>2, <1>5
<1> QED BY <1>1, <1>2, <1>4, <1>5, <1>6

\* Two neighbours and the block between them.
LEMMA FoldTwo ==
  ASSUME NEW from, NEW mid \in Nat, NEW to, NEW l, NEW r,
         l = Claim(from, mid - 1), r = Claim(mid, to)
  PROVE  PCD!ProveParent(l, r) = Claim(from, to) /\ l.j = mid - 1
<1>1. /\ l.j = mid - 1 /\ l.zj = mid - 1 /\ r.i = mid /\ r.zi = mid
      /\ l.i = from /\ l.zi = from /\ r.j = to /\ r.zj = to /\ l.sat /\ r.sat
  BY DEF Claim
<1>2. mid = (mid - 1) + 1
  OBVIOUS
<1>3. PCD!Links(l, r)
  BY <1>1, <1>2 DEF PCD!Links, StepOfBlock
<1> QED BY <1>1, <1>3 DEF PCD!ProveParent, Claim

\* Two nodes of a level become one of the next, and the label names the block between them.
LEMMA ParentStepKeeps == ASSUME ProveInv, ParentStep PROVE ProveInv'
<1>1. PICK m \in Nat \ {0}, a \in Nat, q, w \in Nat :
           /\ m = Ilog2(numSteps + 1) /\ a # 0 /\ a < m /\ AtLevel(m, a)
           /\ numSteps \in Nat /\ vs \in Seq(Node) /\ done \in Seq(Node)
           /\ w = TwoTo[m - (a + 1)] /\ TwoTo[m - a] = 2 * w
           /\ Len(vs) = 2 * w /\ q = Len(done) /\ q <= w
  BY FoldingLevel DEF ParentStep, ParentStepOf
<1>2. phase = "fold" /\ q < w /\ 2 * q + 1 # Len(vs)
  <2>1. phase = "fold" /\ 2 * q < 2 * w
    BY <1>1 DEF ParentStep, ParentStepOf
  <2>2. q \in Nat /\ w \in Nat => (2 * q < 2 * w => q < w /\ 2 * q + 1 # 2 * w)
    OBVIOUS
  <2> QED BY <1>1, <2>1, <2>2
<1>3. PICK l, r : l = vs[2 * q + 1] /\ r = vs[2 * q + 2]
  OBVIOUS
<1>4. /\ done' = Append(done, PCD!ProveParent(l, r))
      /\ proved' = <<IF Len(vs) = 2 THEN "root" ELSE "node", l.j>>
      /\ shown' = <<StepType(iter), StepLabel(iter)>> /\ iter' = iter + 1
      /\ UNCHANGED <<numSteps, vs, phase>>
  BY <1>1, <1>2, <1>3 DEF ParentStep, ParentStepOf, Display
<1>5. PICK A \in Nat : A = TwoTo[a] /\ TwoTo[a + 1] = 2 * A
  BY TwoToDef
<1>6. /\ l = Claim((2 * q) * A, (2 * q + 1) * A - 1)
      /\ r = Claim((2 * q + 1) * A, (2 * q + 2) * A - 1)
  <2>1. \A k \in 1 .. Len(vs) : vs[k] = Claim((k - 1) * A, k * A - 1)
    BY <1>1, <1>5 DEF AtLevel, NodesOfLevel
  <2>2. /\ 2 * q + 1 \in 1 .. Len(vs) /\ (2 * q + 1) - 1 = 2 * q
        /\ 2 * q + 2 \in 1 .. Len(vs) /\ (2 * q + 2) - 1 = 2 * q + 1
    <3>1. q < w => 2 * q + 1 \in 1 .. 2 * w /\ 2 * q + 2 \in 1 .. 2 * w
      OBVIOUS
    <3>2. (2 * q + 1) - 1 = 2 * q /\ (2 * q + 2) - 1 = 2 * q + 1
      OBVIOUS
    <3> QED BY <1>1, <1>2, <3>1, <3>2
  <2>3. PICK k1, k2 \in 1 .. Len(vs) :
            k1 = 2 * q + 1 /\ k2 = 2 * q + 2 /\ k1 - 1 = 2 * q /\ k2 - 1 = 2 * q + 1
    BY <2>2
  <2>4. l = vs[k1] /\ r = vs[k2]
    BY <1>3, <2>3
  <2>5. l = Claim((k1 - 1) * A, k1 * A - 1) /\ r = Claim((k2 - 1) * A, k2 * A - 1)
    BY <2>1, <2>4
  <2> QED BY <2>3, <2>5
<1>7. /\ PCD!ProveParent(l, r) = Claim(q * TwoTo[a + 1], (q + 1) * TwoTo[a + 1] - 1)
      /\ l.j = (2 * q + 1) * TwoTo[a] - 1
  <2>1. PICK from, mid, to \in Nat : from = (2 * q) * A /\ mid = (2 * q + 1) * A /\ to = (2 * q + 2) * A
    <3>1. \A x, y \in Nat : (2 * x) * y \in Nat /\ (2 * x + 1) * y \in Nat /\ (2 * x + 2) * y \in Nat
      OBVIOUS
    <3>2. q \in Nat /\ A \in Nat
      BY <1>5
    <3> QED BY <3>1, <3>2
  <2>2. l = Claim(from, mid - 1) /\ r = Claim(mid, to - 1)
    BY <1>6, <2>1
  <2>3. PCD!ProveParent(l, r) = Claim(from, to - 1) /\ l.j = mid - 1
    BY <2>2, FoldTwo
  <2>4. PICK B : B = TwoTo[a + 1] /\ B = 2 * A
    BY <1>5
  <2>5. q * B = from /\ (q + 1) * B = to
    <3>1. \A x, y \in Nat : x * (2 * y) = (2 * x) * y /\ (x + 1) * (2 * y) = (2 * x + 2) * y
      OBVIOUS
    <3>2. q \in Nat /\ A \in Nat
      BY <1>5
    <3> QED BY <2>1, <2>4, <3>1, <3>2
  <2>6. mid - 1 = (2 * q + 1) * TwoTo[a] - 1
    BY <1>5, <2>1
  <2> QED BY <2>3, <2>4, <2>5, <2>6
<1>8. done' \in Seq(Node) /\ Len(done') = q + 1 /\ NodesOfLevel(done', a + 1)
  <2>1. NodesOfLevel(done, a + 1) /\ a + 1 \in Nat
    BY <1>1 DEF AtLevel
  <2>2. PICK n : n = PCD!ProveParent(l, r) /\ done' = Append(done, n)
    BY <1>4
  <2>3. n = Claim(Len(done) * TwoTo[a + 1], (Len(done) + 1) * TwoTo[a + 1] - 1)
    BY <1>1, <1>7, <2>2
  <2>4. /\ Append(done, n) \in Seq(Node) /\ Len(Append(done, n)) = Len(done) + 1
        /\ NodesOfLevel(Append(done, n), a + 1)
    BY <1>1, <2>1, <2>3, AppendNode
  <2> QED BY <1>1, <2>2, <2>4
<1>9. shown' = proved'
  <2>1. /\ numSteps + 1 = TwoTo[m] /\ iter = TwoTo[m] - TwoTo[m - a] + q /\ 2 * q < TwoTo[m - a]
    <3>1. numSteps + 1 = TwoTo[m] /\ iter = TwoTo[m] - TwoTo[m - a] + q
      BY <1>1 DEF AtLevel
    <3>2. q < w => 2 * q < 2 * w
      OBVIOUS
    <3> QED BY <1>1, <1>2, <3>1, <3>2
  <2>2. /\ StepLabel(iter) = (2 * q + 1) * TwoTo[a] - 1
        /\ StepType(iter) = IF a = 0 THEN "leaf" ELSE IF TwoTo[m - a] = 2 THEN "root" ELSE "node"
    <3>1. m \in Nat /\ numSteps \in Nat /\ a \in Nat /\ a < m /\ q \in Nat
      BY <1>1
    <3> QED BY <2>1, <3>1, LabelIs
  <2>3. StepType(iter) = (IF Len(vs) = 2 THEN "root" ELSE "node") /\ StepLabel(iter) = l.j
    BY <1>1, <1>7, <2>2
  <2> QED BY <1>4, <2>3
<1>10. AtLevel(m, a)'
  <2>1. NodesOfLevel(vs, a)'
    BY <1>1, <1>4 DEF AtLevel
  <2>2. PICK y \in Nat : y = TwoTo[m] /\ numSteps + 1 = y /\ iter = y - 2 * w + q
    BY <1>1, TwoToPositive DEF AtLevel
  <2>3. iter' = y - 2 * w + (q + 1) /\ 2 * (q + 1) <= 2 * w
    <3>1. iter' = iter + 1
      BY <1>4
    <3> QED BY <1>2, <2>2, <3>1
  <2>4. numSteps' + 1 = y /\ phase' = "fold" /\ Len(vs') = 2 * w
    BY <1>1, <1>2, <1>4, <2>2
  <2>5. NodesOfLevel(done, a + 1)'
    BY <1>8
  <2> QED BY <1>1, <1>8, <2>1, <2>2, <2>3, <2>4, <2>5, FoldAt
<1>11. a \in 0 .. m
  BY <1>1
<1> QED BY <1>1, <1>2, <1>4, <1>8, <1>9, <1>10, <1>11 DEF ProveInv, LabelNamesStep

\* A level that is folded completely is half as long.
LEMMA NextLevelKeeps == ASSUME ProveInv, NextLevel PROVE ProveInv'
<1>1. PICK m \in Nat \ {0}, a \in Nat, q, w \in Nat :
           /\ m = Ilog2(numSteps + 1) /\ a # 0 /\ a < m /\ AtLevel(m, a)
           /\ numSteps \in Nat /\ vs \in Seq(Node) /\ done \in Seq(Node)
           /\ w = TwoTo[m - (a + 1)] /\ TwoTo[m - a] = 2 * w
           /\ Len(vs) = 2 * w /\ q = Len(done) /\ q <= w
  BY FoldingLevel DEF NextLevel, LevelEnds
<1>2. /\ phase = "fold" /\ q = w /\ vs' = done /\ done' = <<>>
      /\ UNCHANGED <<numSteps, iter, shown, proved, phase>>
  BY <1>1 DEF NextLevel, LevelEnds
<1>3. AtLevel(m, a + 1)'
  <2>1. NodesOfLevel(vs, a + 1)' /\ NodesOfLevel(done, (a + 1) + 1)' /\ Len(done') = 0
    <3>1. NodesOfLevel(done, a + 1)
      BY <1>1 DEF AtLevel
    <3> QED BY <1>2, <3>1 DEF NodesOfLevel
  <2>2. PICK y \in Nat : y = TwoTo[m] /\ numSteps + 1 = y /\ iter = y - 2 * w + q
    BY <1>1, TwoToPositive DEF AtLevel
  <2>3. iter' = y - w + 0 /\ 2 * 0 <= w
    <3>1. iter' = iter /\ q = w
      BY <1>2
    <3> QED BY <2>2, <3>1
  <2>4. numSteps' + 1 = y /\ phase' = "fold" /\ Len(vs') = w
    BY <1>1, <1>2, <2>2
  <2>5. m \in Nat /\ a + 1 \in Nat /\ a + 1 # 0 /\ w = TwoTo[m - (a + 1)]
    BY <1>1
  <2> QED BY <2>1, <2>2, <2>3, <2>4, <2>5, FoldAt
<1>4. a + 1 \in 0 .. m
  BY <1>1
<1>5. <<>> \in Seq(Node)
  BY EmptySeq
<1> QED BY <1>1, <1>2, <1>3, <1>4, <1>5 DEF ProveInv, LabelNamesStep

\* The level of one node is the last.
LEMMA OneNode ==
  ASSUME ProveInv, phase \in {"fold", "done"}, phase = "fold" => Len(vs) = 1
  PROVE  \E m \in Nat \ {0} : m = Ilog2(numSteps + 1) /\ AtLevel(m, m) /\ Len(vs) = 1 /\ Len(done) = 0
<1>1. PICK m \in Nat \ {0}, a \in Nat : m = Ilog2(numSteps + 1) /\ a <= m /\ AtLevel(m, a)
  BY LevelIs
<1>2. a # 0 /\ Len(vs) = TwoTo[m - a] /\ 2 * Len(done) <= TwoTo[m - a] /\ Len(done) \in Nat
  BY <1>1, LenProperties DEF AtLevel, ProveInv
<1>3. a = m
  <2>1. CASE phase = "done"
    BY <1>1, <2>1 DEF AtLevel
  <2>2. CASE phase = "fold"
    <3>1. m - a \in Nat /\ m - a < 1
      BY <1>1, <1>2, <2>2, TwoToPositive
    <3> QED BY <1>1, <3>1
  <2> QED BY <2>1, <2>2
<1>4. TwoTo[m - m] = 1
  <2>1. m - m = 0
    OBVIOUS
  <2> QED BY <2>1, TwoToDef
<1> QED BY <1>1, <1>2, <1>3, <1>4

\* prove_par returns when there is one node.
LEMMA ReturnKeeps == ASSUME ProveInv, Return PROVE ProveInv'
<1>1. PICK m \in Nat \ {0} : m = Ilog2(numSteps + 1) /\ AtLevel(m, m)
  BY OneNode DEF Return
<1>2. phase' = "done" /\ UNCHANGED <<numSteps, vs, done, iter, shown, proved>>
  BY DEF Return
<1>3. AtLevel(m, m)'
  BY <1>1, <1>2 DEF AtLevel, NodesOfLevel
<1>4. m \in 0 .. m
  OBVIOUS
<1> QED BY <1>1, <1>2, <1>3, <1>4 DEF ProveInv, LabelNamesStep

\* Every step of the parallel provers keeps the invariant.
LEMMA ProveNext == ProveInv /\ [Next]_vars => ProveInv'
<1> SUFFICES ASSUME ProveInv, [Next]_vars PROVE ProveInv'
  OBVIOUS
<1>1. CASE UNCHANGED vars
  BY <1>1 DEF vars, ProveInv, LabelNamesStep, AtLevel, NodesOfLevel
<1> QED BY <1>1, LeafStepKeeps, LeavesDoneKeeps, ParentStepKeeps, NextLevelKeeps, ReturnKeeps DEF Next

LEMMA ProveInvariant == Spec => []ProveInv
BY ProveInit, ProveNext, PTL DEF Spec

-----------------------------------------------------------------------------

\* The type invariant of the parallel provers.
LEMMA ProveTypes == ProveInv => TypeOK
<1> SUFFICES ASSUME ProveInv PROVE TypeOK
  OBVIOUS
<1>1. PICK m \in Nat \ {0}, a \in Nat : /\ m = Ilog2(numSteps + 1) /\ a <= m /\ AtLevel(m, a)
                                        /\ TwoTo[m] \in Nat \ {0} /\ TwoTo[m - a] \in Nat \ {0}
  BY LevelIs
<1>2. numSteps \in Nat /\ vs \in Seq(Node) /\ done \in Seq(Node) /\ phase \in {"leaves", "fold", "done"}
  BY DEF ProveInv
<1>3. PICK q, x, y \in Nat : /\ q = Len(done) /\ x = TwoTo[m] /\ y = TwoTo[m - a] /\ y >= 1
                             /\ 2 * q <= y /\ iter = x - y + q /\ numSteps + 1 = x
  <2>1. Len(done) \in Nat
    BY <1>2, LenProperties
  <2>2. PICK x, y \in Nat : x = TwoTo[m] /\ y = TwoTo[m - a] /\ y >= 1
    BY <1>1
  <2>3. /\ numSteps + 1 = TwoTo[m] /\ 2 * Len(done) <= TwoTo[m - a]
        /\ iter = TwoTo[m] - TwoTo[m - a] + Len(done)
    BY <1>1 DEF AtLevel
  <2> QED BY <2>1, <2>2, <2>3
<1>4. y <= x
  <2>1. m - a \in Nat /\ (m - a < m \/ m - a = m)
    BY <1>1
  <2>2. m - a < m => 2 * TwoTo[m - a] <= TwoTo[m]
    BY <2>1, TwoToMonotone
  <2> QED BY <1>3, <2>1, <2>2
<1>5. iter \in 0 .. numSteps
  <2>1. \A i, n \in Int : i = x - y + q /\ n + 1 = x => i \in 0 .. n
    BY <1>3, <1>4
  <2> QED BY <1>2, <1>3, <2>1
<1>6. q <= IF vs = <<>> THEN (numSteps + 1) \div 2 ELSE Len(vs) \div 2
  <2>1. CASE a = 0
    <3>1. vs = <<>> /\ y = x
      <4>1. m - 0 = m
        OBVIOUS
      <4> QED BY <1>1, <1>3, <2>1, <4>1 DEF AtLevel
    <3>2. q <= (numSteps + 1) \div 2
      BY <1>3, <3>1
    <3> QED BY <3>1, <3>2
  <2>2. CASE a # 0
    <3>1. Len(vs) = y
      BY <1>1, <1>3, <2>2 DEF AtLevel
    <3>2. vs # <<>>
      BY <1>3, <3>1
    <3> QED BY <1>3, <3>1, <3>2
  <2> QED BY <2>1, <2>2
<1> QED BY <1>2, <1>3, <1>5, <1>6 DEF TypeOK

\* The vectors hold nodes, no level is longer than it may be, and the iterations counted
\* never pass the number the progress bar was told.
THEOREM ProveParTypes == Spec => []TypeOK
BY ProveInvariant, ProveTypes, PTL

\* The progress label names the step that is being proved, at every step and for every
\* length of the trace.
THEOREM LabelsAreRight == Spec => []LabelNamesStep
<1>1. ProveInv => LabelNamesStep
  BY DEF ProveInv
<1> QED BY <1>1, ProveInvariant, PTL

\* The assertion on the number of steps holds for whatever trace returns, no level has a
\* node without a neighbour, and what is returned verifies and spans the whole trace.
THEOREM ProveParReturnsTheTrace == Spec => []ReturnsOnlyTheTrace
<1>1. ASSUME ProveInv PROVE ReturnsOnlyTheTrace
  <2>1. phase # "panicked"
    BY <1>1 DEF ProveInv
  <2>2. ASSUME phase = "done" PROVE ReturnsTheTrace
    <3>1. PICK m \in Nat \ {0} : AtLevel(m, m) /\ Len(vs) = 1 /\ Len(done) = 0
      BY <1>1, <2>2, OneNode
    <3>2. PICK x \in Nat : x = TwoTo[m] /\ numSteps + 1 = x /\ x >= 1
      BY <3>1, TwoToPositive DEF AtLevel
    <3>3. vs[1] = Claim((1 - 1) * x, 1 * x - 1)
      <4>1. 1 \in 1 .. Len(vs)
        BY <3>1
      <4> QED BY <3>1, <3>2, <4>1 DEF AtLevel, NodesOfLevel
    <3>4. iter = x - 1 + 0
      <4>1. m - m = 0
        OBVIOUS
      <4> QED BY <3>1, <3>2, <4>1, TwoToDef DEF AtLevel
    <3>5. numSteps \in Nat
      BY <1>1 DEF ProveInv
    <3>6. (1 - 1) * x = 0 /\ 1 * x - 1 = numSteps /\ iter = numSteps
      BY <3>2, <3>4, <3>5
    <3> QED BY <3>3, <3>6 DEF ReturnsTheTrace, Claim, PCD!Verify
  <2> QED BY <2>1, <2>2 DEF ReturnsOnlyTheTrace
<1> QED BY <1>1, ProveInvariant, PTL

=============================================================================
