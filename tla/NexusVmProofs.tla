---------------------------- MODULE NexusVmProofs ---------------------------
(***************************************************************************)
(* Proofs about the virtual machine and its tracer, for every width of a    *)
(* byte and a cache line and every set of images: type correctness, the     *)
(* paths of the Merkle trie, the witnesses rebuilt from a block, the cycle  *)
(* profile, and the step circuit, which accepts every step of the machine.  *)
(***************************************************************************)
EXTENDS NexusVm, NatLemmas, SequenceTheorems, FiniteSetTheorems

-----------------------------------------------------------------------------
(* Widths.                                                                  *)

\* The sizes of a word, a byte and a line are the powers of two they are
\* said to be, and a path of the trie has fewer turns than an address bits.
LEMMA Widths ==
    /\ WordBits \in Nat /\ Words \in Nat \ {0} /\ Words = TwoTo[WordBits] /\ Words >= 16
    /\ BytesBase \in Nat \ {0} /\ BytesBase = TwoTo[ByteBits]
    /\ \A n \in Nat : ByteValues(n) \in Nat \ {0}
    /\ \A i \in 0 .. WordBits : Powers[i] = TwoTo[i] /\ Powers[i] \in Nat \ {0}
    /\ CACHE_LOG \in 0 .. WordBits - 3
    /\ LineBytes = TwoTo[CACHE_BITS] /\ CACHE_BITS \in Nat
<1>1. WordBits \in Nat /\ ByteBits \in Nat /\ WordBits >= 4
  BY WidthAssumption DEF WordBits
<1>2. Words = TwoTo[WordBits] /\ Words \in Nat \ {0}
  BY <1>1, TwoToPositive DEF Words
<1>3. BytesBase = TwoTo[ByteBits] /\ BytesBase \in Nat \ {0}
  <2>1. 1 * ByteBits = ByteBits
    BY <1>1
  <2> QED BY <1>1, <2>1, TwoToPositive DEF BytesBase, ByteValues
<1>4. ASSUME NEW n \in Nat PROVE ByteValues(n) \in Nat \ {0}
  <2>1. n * ByteBits \in Nat
    BY <1>1
  <2> QED BY <2>1, TwoToPositive DEF ByteValues
<1>5. ASSUME NEW i \in 0 .. WordBits PROVE Powers[i] = TwoTo[i] /\ Powers[i] \in Nat \ {0}
  BY <1>1, TwoToPositive DEF Powers
<1>6. PICK c \in Nat : LineBytes = TwoTo[c]
  BY WidthAssumption, PowerOfTwoIs
<1>7. CACHE_BITS = c
  BY <1>6, Ilog2Power DEF CACHE_BITS
<1>8. TwoTo[0] = 1 /\ TwoTo[1] = 2 /\ TwoTo[2] = 4 /\ TwoTo[3] = 8 /\ TwoTo[4] = 16
  <2>1. TwoTo[0 + 1] = 2 * TwoTo[0] /\ TwoTo[1 + 1] = 2 * TwoTo[1]
        /\ TwoTo[2 + 1] = 2 * TwoTo[2] /\ TwoTo[3 + 1] = 2 * TwoTo[3]
    BY TwoToDef
  <2> QED BY <2>1, TwoToDef
<1>9. c >= 3
  <2>1. SUFFICES ASSUME c < 3 PROVE FALSE
    BY <1>6
  <2>2. c = 0 \/ c = 1 \/ c = 2
    BY <1>6, <2>1
  <2> QED BY <1>6, <1>8, <2>2, WidthAssumption
<1>10. c <= WordBits
  <2>1. SUFFICES ASSUME WordBits < c PROVE FALSE
    BY <1>1, <1>6
  <2>2. PICK t \in Nat \ {0} : t = TwoTo[WordBits]
    BY <1>2
  <2>3. 2 * t <= LineBytes /\ LineBytes <= t
    BY <1>1, <1>6, <2>1, <2>2, TwoToMonotone, WidthAssumption DEF WordBits
  <2> QED BY <2>2, <2>3, WidthAssumption
<1>11. Words >= 16
  <2>1. CASE WordBits = 4
    BY <1>2, <1>8, <2>1
  <2>2. CASE WordBits > 4
    BY <1>1, <1>2, <1>8, <2>2, TwoToMonotone
  <2> QED BY <1>1, <2>1, <2>2
<1>12. CACHE_LOG \in 0 .. WordBits - 3
  BY <1>1, <1>6, <1>7, <1>9, <1>10 DEF CACHE_LOG
<1> QED BY <1>1, <1>2, <1>3, <1>4, <1>5, <1>6, <1>7, <1>11, <1>12

-----------------------------------------------------------------------------
(* Digests from a level of the trie upwards.                                *)

\* h[n] is a, and at each level above it h is the hash of its value one level
\* below with itself or with a sibling: on the left at the levels L, on the
\* right at the levels R.
Above(h, v, s, L, R) ==
    Compress(IF v \in L THEN h[v] ELSE s[v], IF v \in R THEN h[v] ELSE s[v])
Climbs(h, from, n, a, s, L, R) ==
    /\ h = [level \in from .. n |-> h[level]]
    /\ h[n] = a
    /\ \A level \in from .. n - 1 : h[level] = Above(h, level + 1, s, L, R)

LEMMA ClimbExists ==
    ASSUME NEW n \in Nat, NEW a, NEW s, NEW L, NEW R
    PROVE  \E h : Climbs(h, 0, n, a, s, L, R)
<1> DEFINE S == {k \in Nat : k <= n => \E h : Climbs(h, n - k, n, a, s, L, R)}
<1>1. 0 \in S
  <2> DEFINE h == [level \in n .. n |-> a]
  <2>1. h = [level \in n .. n |-> h[level]] /\ h[n] = a /\ n - 0 = n /\ n .. n - 1 = {}
    OBVIOUS
  <2> HIDE DEF h
  <2>2. Climbs(h, n - 0, n, a, s, L, R)
    BY <2>1 DEF Climbs
  <2> QED BY <2>2
<1>2. ASSUME NEW k \in Nat, k \in S PROVE k + 1 \in S
  <2>1. SUFFICES ASSUME k + 1 <= n PROVE \E h : Climbs(h, n - (k + 1), n, a, s, L, R)
    OBVIOUS
  <2>2. PICK h : Climbs(h, n - k, n, a, s, L, R)
    BY <1>2, <2>1
  <2>3. PICK l \in Nat : l = n - (k + 1) /\ l + 1 = n - k /\ l < n
    BY <2>1
  <2> DEFINE g == [level \in l .. n |-> IF level = l THEN Above(h, l + 1, s, L, R) ELSE h[level]]
  <2>4. g = [level \in l .. n |-> g[level]]
    OBVIOUS
  <2>5. \A level \in l + 1 .. n : g[level] = h[level]
    BY <2>3
  <2>6. g[l] = Above(h, l + 1, s, L, R)
    BY <2>3
  <2> HIDE DEF g
  <2>7. g[n] = a
    BY <2>2, <2>3, <2>5, SMTT(30) DEF Climbs
  <2>8. ASSUME NEW level \in l .. n - 1 PROVE g[level] = Above(g, level + 1, s, L, R)
    <3>1. level + 1 \in l + 1 .. n /\ g[level + 1] = h[level + 1]
      BY <2>3, <2>5
    <3>2. Above(g, level + 1, s, L, R) = Above(h, level + 1, s, L, R)
      BY <3>1 DEF Above
    <3>3. CASE level = l
      BY <2>6, <3>2, <3>3
    <3>4. CASE level # l
      <4>1. level \in l + 1 .. n - 1 /\ level \in l + 1 .. n
        BY <2>3, <3>4
      <4>2. h[level] = Above(h, level + 1, s, L, R)
        BY <2>2, <2>3, <4>1 DEF Climbs
      <4> QED BY <2>5, <3>2, <4>1, <4>2
    <3> QED BY <3>3, <3>4
  <2>9. Climbs(g, l, n, a, s, L, R)
    BY <2>4, <2>7, <2>8 DEF Climbs
  <2> QED BY <2>3, <2>9
<1> HIDE DEF S
<1>3. n \in S
  BY <1>1, <1>2, SetInduction
<1>4. n - n = 0 /\ n <= n
  OBVIOUS
<1> QED BY <1>3, <1>4 DEF S

\* compute_zeros: each default digest is the hash of two of the level below.
LEMMA ZerosDef ==
    /\ Zeros[CACHE_LOG] = HashMemory(ZeroLine)
    /\ \A level \in 0 .. CACHE_LOG - 1 :
          Zeros[level] = Compress(Zeros[level + 1], Zeros[level + 1])
<1>1. CACHE_LOG \in Nat
  BY Widths
<1> DEFINE Rec(h) == [level \in 0 .. CACHE_LOG |->
                          IF level = CACHE_LOG THEN HashMemory(ZeroLine)
                          ELSE LET d == h[level + 1] IN Compress(d, d)]
           Solves(h) == h = Rec(h)
<1>2. \E h : Solves(h)
  <2>1. PICK h : Climbs(h, 0, CACHE_LOG, HashMemory(ZeroLine), <<>>, 1 .. CACHE_LOG, 1 .. CACHE_LOG)
    BY <1>1, ClimbExists
  <2>2. h = [level \in 0 .. CACHE_LOG |-> h[level]] /\ h[CACHE_LOG] = HashMemory(ZeroLine)
    BY <2>1 DEF Climbs
  <2>3. ASSUME NEW level \in 0 .. CACHE_LOG, level # CACHE_LOG
        PROVE  h[level] = Compress(h[level + 1], h[level + 1])
    <3>1. level \in 0 .. CACHE_LOG - 1 /\ level + 1 \in 1 .. CACHE_LOG
      BY <1>1, <2>3
    <3> QED BY <2>1, <3>1 DEF Climbs, Above
  <2>4. \A level \in 0 .. CACHE_LOG : h[level] = Rec(h)[level]
    BY <2>2, <2>3
  <2>5. h = Rec(h)
    BY <2>2, <2>4
  <2> QED BY <2>5
<1>3. Zeros = CHOOSE h : Solves(h)
  BY DEF Zeros
<1>4. Solves(Zeros)
  <2> HIDE DEF Solves
  <2> QED BY <1>2, <1>3
<1>5. \A level \in 0 .. CACHE_LOG : Zeros[level] = Rec(Zeros)[level]
  BY <1>4, Zenon
<1>6. CACHE_LOG \in 0 .. CACHE_LOG /\ \A level \in 0 .. CACHE_LOG - 1 : level \in 0 .. CACHE_LOG /\ level # CACHE_LOG
  BY <1>1
<1> QED BY <1>5, <1>6

-----------------------------------------------------------------------------
(* Paths.                                                                   *)

LEMMA BitType == ASSUME NEW x \in Int, NEW i \in 0 .. WordBits PROVE Bit(x, i) \in {0, 1}
<1>1. PICK d \in Nat \ {0} : d = Powers[i]
  BY Widths
<1>2. PICK q \in Int : q = x \div d
  BY <1>1
<1> QED BY <1>1, <1>2 DEF Bit

\* The address bits choose a leaf.
LEMMA LeafOfIs == ASSUME NEW a \in Int PROVE LeafOf(a) \in Leaves
<1>1. ASSUME NEW k \in 1 .. CACHE_LOG PROVE Bit(a, WordBits - 1 - k) \in {0, 1}
  <2>1. WordBits - 1 - k \in 0 .. WordBits
    BY Widths
  <2> QED BY <2>1, BitType
<1> QED BY <1>1 DEF LeafOf, Leaves

\* The first l turns to a leaf, and the turn after them.
LEMMA UpIs ==
    ASSUME NEW leaf \in Leaves, NEW l \in 0 .. CACHE_LOG
    PROVE  /\ Up(leaf, l) = [k \in 1 .. l |-> leaf[k]]
           /\ Up(leaf, l) \in [1 .. l -> {0, 1}] /\ Up(leaf, l) \in Seq({0, 1})
           /\ Len(Up(leaf, l)) = l
<1>1. CACHE_LOG \in Nat /\ l \in Nat /\ 1 .. l \subseteq 1 .. CACHE_LOG
  BY Widths
<1>2. leaf \in Seq({0, 1}) /\ Len(leaf) = CACHE_LOG
  BY <1>1 DEF Leaves
<1>3. Up(leaf, l) = [k \in 1 .. l |-> leaf[k]]
  <2>1. SubSeq(leaf, 1, l) = [k \in 1 .. (l - 1 + 1) |-> leaf[k + 1 - 1]]
    BY <1>1, <1>2
  <2>2. l - 1 + 1 = l /\ \A k \in 1 .. l : k + 1 - 1 = k
    BY <1>1
  <2> QED BY <2>1, <2>2 DEF Up
<1>4. Up(leaf, l) \in [1 .. l -> {0, 1}]
  BY <1>1, <1>3 DEF Leaves
<1>5. Up(leaf, l) \in Seq({0, 1}) /\ Len(Up(leaf, l)) = l
  BY <1>1, <1>4
<1> QED BY <1>3, <1>4, <1>5

LEMMA TurnIs ==
    ASSUME NEW leaf \in Leaves, NEW l \in 0 .. CACHE_LOG - 1
    PROVE  /\ leaf[l + 1] \in {0, 1}
           /\ IsLeft(Up(leaf, l + 1)) <=> leaf[l + 1] = 0
           /\ Up(leaf, l + 1) = Append(Up(leaf, l), leaf[l + 1])
           /\ Sibling(Up(leaf, l + 1)) = Append(Up(leaf, l), 1 - leaf[l + 1])
<1>1. CACHE_LOG \in Nat /\ l \in Nat /\ l \in 0 .. CACHE_LOG /\ l + 1 \in 1 .. CACHE_LOG
      /\ l + 1 \in 0 .. CACHE_LOG
  BY Widths
<1>2. PICK b \in {0, 1} : b = leaf[l + 1] /\ 1 - b \in {0, 1}
  BY <1>1 DEF Leaves
<1>3. PICK p \in Seq({0, 1}), q \in Seq({0, 1}) :
        /\ p = Up(leaf, l) /\ Len(p) = l /\ p = [k \in 1 .. l |-> leaf[k]]
        /\ q = Up(leaf, l + 1) /\ Len(q) = l + 1 /\ q = [k \in 1 .. l + 1 |-> leaf[k]]
  BY <1>1, UpIs
<1>4. q[Len(q)] = b
  BY <1>1, <1>2, <1>3
<1>5. q = Append(p, b)
  <2>1. Append(p, b) = [k \in 1 .. l + 1 |-> IF k <= l THEN p[k] ELSE b]
    BY <1>1, <1>2, <1>3
  <2>2. \A k \in 1 .. l + 1 : q[k] = IF k <= l THEN p[k] ELSE b
    BY <1>1, <1>2, <1>3
  <2> QED BY <1>3, <2>1, <2>2
<1>6. [q EXCEPT ![Len(q)] = 1 - @] = Append(p, 1 - b)
  <2>1. Append(p, 1 - b) = [k \in 1 .. l + 1 |-> IF k <= l THEN p[k] ELSE 1 - b]
    BY <1>1, <1>2, <1>3
  <2>2. [q EXCEPT ![Len(q)] = 1 - @] = [k \in 1 .. l + 1 |-> IF k = l + 1 THEN 1 - b ELSE q[k]]
    BY <1>3, <1>4
  <2>3. \A k \in 1 .. l + 1 :
          (IF k = l + 1 THEN 1 - b ELSE q[k]) = IF k <= l THEN p[k] ELSE 1 - b
    BY <1>1, <1>2, <1>3
  <2> QED BY <2>1, <2>2, <2>3
<1>7. Sibling(q) = Append(p, 1 - b) /\ (IsLeft(q) <=> b = 0)
  BY <1>4, <1>6 DEF Sibling, IsLeft
<1> QED BY <1>2, <1>3, <1>5, <1>7

\* The hash of a node on the path to a leaf, from its value one level below
\* and the digest of the sibling there.
OfTwo(leaf, l, d, sibling) ==
    IF IsLeft(Up(leaf, l + 1)) THEN Compress(d, sibling) ELSE Compress(sibling, d)

LEMMA DigestOnPath ==
    ASSUME NEW trie, Hashed(trie), NEW leaf \in Leaves, NEW l \in 0 .. CACHE_LOG - 1
    PROVE  Digest(trie, Up(leaf, l)) =
             OfTwo(leaf, l, Digest(trie, Up(leaf, l + 1)), Digest(trie, Sibling(Up(leaf, l + 1))))
<1>1. CACHE_LOG \in Nat /\ l \in 0 .. CACHE_LOG
  BY Widths
<1>2. Up(leaf, l) \in Inner
  BY <1>1, UpIs DEF Inner
<1>3. Digest(trie, Up(leaf, l)) =
        Compress(Digest(trie, Append(Up(leaf, l), 0)), Digest(trie, Append(Up(leaf, l), 1)))
  BY <1>2 DEF Hashed
<1>4. CASE leaf[l + 1] = 0
  <2>1. 1 - leaf[l + 1] = 1
    BY <1>4
  <2> QED BY <1>3, <1>4, <2>1, TurnIs DEF OfTwo
<1>5. CASE leaf[l + 1] = 1
  <2>1. 1 - leaf[l + 1] = 0 /\ leaf[l + 1] # 0
    BY <1>5
  <2> QED BY <1>3, <1>5, <2>1, TurnIs DEF OfTwo
<1> QED BY <1>4, <1>5, TurnIs

\* Path::verify of what query returns: the chain of hashes passes through the
\* digest of every node from the leaf to the root.
LEMMA QueryVerifies ==
    ASSUME NEW trie, Hashed(trie), NEW a, LeafOf(a) \in Leaves
    PROVE  Verify(QueryPath(trie, a), Root(trie), LineAt(trie, a))
<1> DEFINE leaf == LeafOf(a)
           path == QueryPath(trie, a)
           n == CACHE_LOG
           Rec(h) == [k \in 0 .. n |->
                        IF k = 0 THEN HashMemory(LineAt(trie, a))
                        ELSE LET node == path.auth[k]
                             IN  IF node.isLeft THEN Compress(h[k - 1], node.digest)
                                 ELSE Compress(node.digest, h[k - 1])]
           Solves(h) == h = Rec(h)
           up == [k \in 0 .. n |-> Digest(trie, Up(leaf, n - k))]
<1>1. n \in Nat /\ leaf \in Leaves
  BY Widths
<1>2. path.auth = [k \in 1 .. n |->
                     [isLeft |-> IsLeft(Up(leaf, n + 1 - k)),
                      digest |-> Digest(trie, Sibling(Up(leaf, n + 1 - k)))]]
  BY DEF QueryPath, PathOf
<1>3. path.auth \in Seq({path.auth[k] : k \in 1 .. n}) /\ Len(path.auth) = n
  <2>1. path.auth \in [1 .. n -> {path.auth[k] : k \in 1 .. n}]
    <3> HIDE DEF path
    <3> QED BY <1>2
  <2>2. PICK auth, S : auth = path.auth /\ S = {path.auth[k] : k \in 1 .. n}
    OBVIOUS
  <2>3. auth \in [1 .. n -> S]
    BY <2>1, <2>2
  <2>4. auth \in Seq(S) /\ Len(auth) = n
    BY <1>1, <2>3
  <2> QED BY <2>2, <2>4
<1>4. up[0] = HashMemory(LineAt(trie, a))
  <2>1. n - 0 = n /\ 0 \in 0 .. n /\ n \in 0 .. n
    BY <1>1
  <2>2. Up(leaf, n) = leaf
    <3>1. Up(leaf, n) = [k \in 1 .. n |-> leaf[k]]
      BY <1>1, <2>1, UpIs
    <3> QED BY <1>1, <3>1 DEF Leaves
  <2>3. Digest(trie, leaf) = HashMemory(LineOf(trie, leaf))
    BY <1>1 DEF Hashed
  <2> QED BY <2>1, <2>2, <2>3 DEF LineAt
<1>5. ASSUME NEW k \in 1 .. n
      PROVE  up[k] = IF path.auth[k].isLeft THEN Compress(up[k - 1], path.auth[k].digest)
                     ELSE Compress(path.auth[k].digest, up[k - 1])
  <2>1. PICK l \in 0 .. n - 1 : l = n - k /\ l + 1 = n - (k - 1) /\ l + 1 = n + 1 - k
    BY <1>1
  <2>2. k - 1 \in 0 .. n /\ k \in 0 .. n
    BY <1>1
  <2>3. up[k] = Digest(trie, Up(leaf, l)) /\ up[k - 1] = Digest(trie, Up(leaf, l + 1))
    BY <2>1, <2>2
  <2>4. path.auth[k].isLeft = IsLeft(Up(leaf, l + 1))
        /\ path.auth[k].digest = Digest(trie, Sibling(Up(leaf, l + 1)))
    <3> HIDE DEF path
    <3> QED BY <1>2, <2>1
  <2> HIDE DEF up, path
  <2> QED BY <1>1, <2>3, <2>4, DigestOnPath DEF OfTwo
<1>6. \E h : Solves(h)
  <2> HIDE DEF path
  <2>1. ASSUME NEW k \in 0 .. n PROVE up[k] = Rec(up)[k]
    <3>1. k = 0 \/ k \in 1 .. n
      BY <1>1
    <3>2. up = [j \in 0 .. n |-> up[j]]
      OBVIOUS
    <3> HIDE DEF up
    <3> QED BY <1>4, <1>5, <3>1, Zenon
  <2>2. up = [j \in 0 .. n |-> up[j]]
    OBVIOUS
  <2>3. up = Rec(up)
    <3> HIDE DEF up
    <3> QED BY <2>1, <2>2
  <2> QED BY <2>3
<1>7. PICK hash : hash = CHOOSE h : Solves(h)
  OBVIOUS
<1>8. Solves(hash)
  <2> HIDE DEF Solves
  <2> QED BY <1>6, <1>7
<1>9. \A k \in 0 .. n : hash[k] = up[k]
  <2> DEFINE S == {k \in Nat : k <= n => hash[k] = up[k]}
  <2>1. \A k \in 0 .. n : hash[k] = Rec(hash)[k]
    BY <1>8, Zenon
  <2> HIDE DEF up, path
  <2>2. 0 \in S
    BY <1>1, <1>4, <2>1
  <2>3. ASSUME NEW k \in Nat, k \in S PROVE k + 1 \in S
    <3>1. SUFFICES ASSUME k + 1 <= n PROVE hash[k + 1] = up[k + 1]
      OBVIOUS
    <3>2. k + 1 \in 1 .. n /\ k + 1 \in 0 .. n /\ (k + 1) - 1 = k /\ k + 1 # 0 /\ k <= n
      BY <1>1, <3>1
    <3>3. hash[k + 1] = IF path.auth[k + 1].isLeft THEN Compress(hash[k], path.auth[k + 1].digest)
                        ELSE Compress(path.auth[k + 1].digest, hash[k])
      BY <2>1, <3>2
    <3>4. up[k + 1] = IF path.auth[k + 1].isLeft THEN Compress(up[k], path.auth[k + 1].digest)
                      ELSE Compress(path.auth[k + 1].digest, up[k])
      BY <1>5, <3>2
    <3> QED BY <2>3, <3>2, <3>3, <3>4
  <2> HIDE DEF S
  <2>4. \A k \in Nat : k \in S
    BY <2>2, <2>3, SetInduction
  <2> QED BY <1>1, <2>4 DEF S
<1>10. hash[n] = Root(trie)
  <2>1. Up(leaf, 0) = <<>>
    <3>1. 0 \in 0 .. CACHE_LOG
      BY <1>1
    <3>2. Up(leaf, 0) \in Seq({0, 1}) /\ Len(Up(leaf, 0)) = 0
      BY <1>1, <3>1, UpIs
    <3> QED BY <3>2
  <2>2. n \in 0 .. n /\ n - n = 0
    BY <1>1
  <2> QED BY <1>9, <2>1, <2>2 DEF Root
<1>11. Verify(path, Root(trie), LineAt(trie, a)) <=> (CHOOSE h : Solves(h))[n] = Root(trie)
  <2> HIDE DEF path
  <2> QED BY <1>3 DEF Verify
<1> QED BY <1>7, <1>10, <1>11

\* The nodes on the way to a leaf are told apart by their level, and the
\* sibling of none of them is on the way.
LEMMA OnPath ==
    ASSUME NEW leaf \in Leaves
    PROVE  /\ Up(leaf, CACHE_LOG) = leaf
           /\ leaf \notin Ancestors(leaf)
           /\ \A l \in 0 .. CACHE_LOG - 1 :
                 /\ Up(leaf, l) \in Ancestors(leaf) /\ Up(leaf, l) # leaf
                 /\ Sibling(Up(leaf, l + 1)) \notin Ancestors(leaf) \cup {leaf}
           /\ \A p \in Inner : \A b \in {0, 1} :
                 Append(p, b) \in Ancestors(leaf) \cup {leaf} => p \in Ancestors(leaf)
<1>1. CACHE_LOG \in Nat /\ CACHE_LOG \in 0 .. CACHE_LOG
  BY Widths
<1>2. Up(leaf, CACHE_LOG) = leaf
  <2>1. Up(leaf, CACHE_LOG) = [k \in 1 .. CACHE_LOG |-> leaf[k]]
    BY <1>1, UpIs
  <2> QED BY <2>1 DEF Leaves
<1>3. Len(leaf) = CACHE_LOG
  BY <1>1, <1>2, UpIs
<1>4. ASSUME NEW l \in 0 .. CACHE_LOG - 1
      PROVE  /\ l \in 0 .. CACHE_LOG /\ Len(Up(leaf, l)) = l
             /\ Up(leaf, l) \in Ancestors(leaf) /\ Up(leaf, l) # leaf
  <2>1. l \in 0 .. CACHE_LOG /\ l # CACHE_LOG
    BY <1>1
  <2> QED BY <1>3, <2>1, UpIs DEF Ancestors
<1>5. leaf \notin Ancestors(leaf)
  BY <1>4 DEF Ancestors
<1>6. \A q \in Ancestors(leaf) \cup {leaf} : \E m \in 0 .. CACHE_LOG : q = Up(leaf, m) /\ Len(q) = m
  BY <1>1, <1>2, <1>3, <1>4 DEF Ancestors
<1>7. ASSUME NEW p \in Seq({0, 1}), NEW b \in {0, 1}, Append(p, b) \in Ancestors(leaf) \cup {leaf}
      PROVE  \E l \in 0 .. CACHE_LOG - 1 : p = Up(leaf, l) /\ b = leaf[l + 1]
  <2>1. PICK m \in 0 .. CACHE_LOG : Append(p, b) = Up(leaf, m) /\ Len(Append(p, b)) = m
    BY <1>6, <1>7
  <2>2. PICK l \in 0 .. CACHE_LOG - 1 : m = l + 1 /\ l = Len(p)
    <3>1. Len(p) \in Nat /\ m = Len(p) + 1
      BY <2>1
    <3>2. Len(p) \in 0 .. CACHE_LOG - 1
      BY <1>1, <3>1
    <3> QED BY <3>1, <3>2
  <2>3. PICK u \in Seq({0, 1}), c \in {0, 1} : u = Up(leaf, l) /\ c = leaf[l + 1]
    BY <1>4, UpIs, TurnIs
  <2>4. Append(p, b) = Append(u, c)
    BY <2>1, <2>2, <2>3, TurnIs
  <2>5. p = u /\ b = c
    BY <2>4, AppendInjective
  <2> QED BY <2>3, <2>5
<1>8. ASSUME NEW l \in 0 .. CACHE_LOG - 1
      PROVE  Sibling(Up(leaf, l + 1)) \notin Ancestors(leaf) \cup {leaf}
  <2>1. SUFFICES ASSUME Sibling(Up(leaf, l + 1)) \in Ancestors(leaf) \cup {leaf} PROVE FALSE
    OBVIOUS
  <2>2. PICK p \in Seq({0, 1}), c \in {0, 1}, d \in {0, 1} :
          p = Up(leaf, l) /\ c = leaf[l + 1] /\ d = 1 - c /\ Len(p) = l
    BY <1>4, UpIs, TurnIs
  <2>3. Append(p, d) \in Ancestors(leaf) \cup {leaf}
    BY <2>1, <2>2, TurnIs
  <2>4. PICK m \in 0 .. CACHE_LOG - 1 : p = Up(leaf, m) /\ d = leaf[m + 1]
    BY <1>7, <2>3
  <2>5. m = l
    BY <1>4, <2>2, <2>4
  <2> QED BY <2>2, <2>4, <2>5
<1>9. ASSUME NEW p \in Inner, NEW b \in {0, 1}, Append(p, b) \in Ancestors(leaf) \cup {leaf}
      PROVE  p \in Ancestors(leaf)
  <2>1. PICK n \in 0 .. CACHE_LOG - 1 : p \in [1 .. n -> {0, 1}]
    BY DEF Inner
  <2>2. p \in Seq({0, 1})
    BY <1>1, <2>1
  <2> QED BY <1>4, <1>7, <1>9, <2>2
<1> QED BY <1>2, <1>4, <1>5, <1>8, <1>9

\* MerkleTrie::update: the digests off the path stay, those on the path are
\* hashed anew from the leaf upwards.
LEMMA UpdateDigests ==
    ASSUME NEW trie, NEW a, NEW line, LeafOf(a) \in Leaves
    PROVE  LET leaf == LeafOf(a)
               new == UpdateTrie(trie, a, line)
           IN  /\ \A p : p \notin Ancestors(leaf) \cup {leaf} =>
                     Digest(new, p) = Digest(trie, p) /\ LineOf(new, p) = LineOf(trie, p)
               /\ Digest(new, leaf) = HashMemory(line) /\ LineOf(new, leaf) = line
               /\ \A l \in 0 .. CACHE_LOG - 1 :
                     Digest(new, Up(leaf, l)) =
                       OfTwo(leaf, l, Digest(new, Up(leaf, l + 1)), Digest(trie, Sibling(Up(leaf, l + 1))))
<1> DEFINE leaf == LeafOf(a)
           new == UpdateTrie(trie, a, line)
           n == CACHE_LOG
           Rec(h) == [level \in 0 .. CACHE_LOG |->
                        IF level = CACHE_LOG THEN HashMemory(line)
                        ELSE LET p == Up(leaf, level + 1)
                             IN  IF IsLeft(p) THEN Compress(h[level + 1], Digest(trie, Sibling(p)))
                                 ELSE Compress(Digest(trie, Sibling(p)), h[level + 1])]
           Solves(h) == h = Rec(h)
<1>1. leaf \in Leaves
  OBVIOUS
<1>2. n \in Nat
  BY Widths
<1>3. \E h : Solves(h)
  <2> DEFINE s == [level \in 1 .. n |-> Digest(trie, Sibling(Up(leaf, level)))]
             L == {level \in 1 .. n : IsLeft(Up(leaf, level))}
             R == (1 .. n) \ L
  <2>1. PICK h : Climbs(h, 0, n, HashMemory(line), s, L, R)
    <3> HIDE DEF s, L, R
    <3> QED BY <1>2, ClimbExists
  <2>2. h = [level \in 0 .. n |-> h[level]] /\ h[n] = HashMemory(line)
    BY <2>1 DEF Climbs
  <2>3. ASSUME NEW level \in 0 .. n, level # n
        PROVE  h[level] = OfTwo(leaf, level, h[level + 1], Digest(trie, Sibling(Up(leaf, level + 1))))
    <3>1. level \in 0 .. n - 1 /\ level + 1 \in 1 .. n
      BY <1>2, <2>3
    <3>2. h[level] = Above(h, level + 1, s, L, R)
      <4> HIDE DEF s, L, R
      <4> QED BY <2>1, <3>1 DEF Climbs
    <3>3. s[level + 1] = Digest(trie, Sibling(Up(leaf, level + 1)))
      BY <3>1
    <3>4. (level + 1 \in L <=> IsLeft(Up(leaf, level + 1)))
          /\ (level + 1 \in R <=> ~IsLeft(Up(leaf, level + 1)))
      BY <3>1
    <3> HIDE DEF s, L, R
    <3> QED BY <3>2, <3>3, <3>4, Zenon DEF Above, OfTwo
  <2>4. \A level \in 0 .. n : h[level] = Rec(h)[level]
    BY <2>2, <2>3, Zenon DEF OfTwo
  <2>5. h = Rec(h)
    BY <2>2, <2>4
  <2> QED BY <2>5
<1>4. PICK digest : digest = CHOOSE h : Solves(h)
  OBVIOUS
<1>5. Solves(digest)
  <2> HIDE DEF Solves
  <2> QED BY <1>3, <1>4
<1>6. \A level \in 0 .. n : digest[level] = Rec(digest)[level]
  BY <1>5, Zenon
<1>7. digest[n] = HashMemory(line)
      /\ \A l \in 0 .. n - 1 :
           digest[l] = OfTwo(leaf, l, digest[l + 1], Digest(trie, Sibling(Up(leaf, l + 1))))
  <2>1. n \in 0 .. n /\ \A l \in 0 .. n - 1 : l \in 0 .. n /\ l # n
    BY <1>2
  <2> QED BY <1>6, <2>1, Zenon DEF OfTwo
<1> DEFINE New(d) == [p \in DOMAIN trie \cup Ancestors(leaf) \cup {leaf} |->
                        CASE p = leaf -> [digest |-> d[CACHE_LOG], val |-> line]
                          [] p \in Ancestors(leaf) -> [digest |-> d[Len(p)]]
                          [] OTHER -> trie[p]]
<1>8. new = New(digest)
  <2>1. new = New(CHOOSE h : Solves(h))
    BY Zenon DEF UpdateTrie
  <2> HIDE DEF Solves, New, new
  <2> QED BY <1>4, <2>1
<1> HIDE DEF Solves, Rec, new, leaf
<1>9. ASSUME NEW p, p \notin Ancestors(leaf) \cup {leaf}
      PROVE  Digest(new, p) = Digest(trie, p) /\ LineOf(new, p) = LineOf(trie, p)
  <2>1. p \in DOMAIN new <=> p \in DOMAIN trie
    BY <1>8, <1>9
  <2>2. p \in DOMAIN trie => new[p] = trie[p]
    BY <1>8, <1>9
  <2> QED BY <2>1, <2>2 DEF Digest, LineOf
<1>10. leaf \in DOMAIN new /\ new[leaf] = [digest |-> digest[n], val |-> line]
  <2>1. leaf \notin Ancestors(leaf)
    BY <1>1, OnPath
  <2>2. leaf \in DOMAIN new
    BY <1>8
  <2>3. new[leaf] = [digest |-> digest[CACHE_LOG], val |-> line]
    BY <1>8, <2>1
  <2> QED BY <2>2, <2>3
<1>11. ASSUME NEW l \in 0 .. n PROVE Digest(new, Up(leaf, l)) = digest[l]
  <2>1. CASE l = n
    BY <1>1, <1>2, <1>10, <2>1, OnPath DEF Digest
  <2>2. CASE l # n
    <3>1. l \in 0 .. n - 1
      BY <1>2, <2>2
    <3>2. Up(leaf, l) \in Ancestors(leaf) /\ Up(leaf, l) # leaf /\ Len(Up(leaf, l)) = l
      <4>1. l \in 0 .. CACHE_LOG
        BY <1>2, <3>1
      <4> QED BY <1>1, <3>1, <4>1, OnPath, UpIs
    <3>3. Up(leaf, l) \in DOMAIN new /\ new[Up(leaf, l)] = [digest |-> digest[l]]
      BY <1>8, <3>2
    <3> QED BY <3>3 DEF Digest
  <2> QED BY <2>1, <2>2
<1>12. Digest(new, leaf) = HashMemory(line) /\ LineOf(new, leaf) = line
  BY <1>7, <1>10 DEF Digest, LineOf
<1>13. ASSUME NEW l \in 0 .. n - 1
       PROVE  Digest(new, Up(leaf, l)) =
                OfTwo(leaf, l, Digest(new, Up(leaf, l + 1)), Digest(trie, Sibling(Up(leaf, l + 1))))
  <2>1. l \in 0 .. n /\ l + 1 \in 0 .. n
    BY <1>2
  <2> QED BY <1>7, <1>11, <2>1
<1> QED BY <1>9, <1>12, <1>13, Zenon DEF new, leaf

\* A trie stays hashed.
LEMMA UpdateHashed ==
    ASSUME NEW trie, Hashed(trie), NEW a, LeafOf(a) \in Leaves, NEW line \in Line
    PROVE  Hashed(UpdateTrie(trie, a, line))
<1>1. PICK leaf, new : leaf = LeafOf(a) /\ new = UpdateTrie(trie, a, line)
  OBVIOUS
<1>2. leaf \in Leaves /\ CACHE_LOG \in Nat
  BY <1>1, Widths
<1>3. /\ \A p : p \notin Ancestors(leaf) \cup {leaf} =>
            Digest(new, p) = Digest(trie, p) /\ LineOf(new, p) = LineOf(trie, p)
      /\ Digest(new, leaf) = HashMemory(line) /\ LineOf(new, leaf) = line
      /\ \A l \in 0 .. CACHE_LOG - 1 :
            Digest(new, Up(leaf, l)) =
              OfTwo(leaf, l, Digest(new, Up(leaf, l + 1)), Digest(trie, Sibling(Up(leaf, l + 1))))
  BY <1>1, UpdateDigests
<1>4. ASSUME NEW p \in Leaves
      PROVE  LineOf(new, p) \in Line /\ Digest(new, p) = HashMemory(LineOf(new, p))
  <2>1. CASE p = leaf
    BY <1>3, <2>1
  <2>2. CASE p # leaf
    <3>1. p \notin Ancestors(leaf)
      <4>1. Len(p) = CACHE_LOG
        BY <1>2 DEF Leaves
      <4>2. \A l \in 0 .. CACHE_LOG - 1 : Len(Up(leaf, l)) = l /\ l # CACHE_LOG
        <5>1. \A l \in 0 .. CACHE_LOG - 1 : l \in 0 .. CACHE_LOG /\ l # CACHE_LOG
          BY <1>2
        <5> QED BY <1>2, <5>1, UpIs
      <4> QED BY <4>1, <4>2 DEF Ancestors
    <3> QED BY <1>3, <2>2, <3>1 DEF Hashed
  <2> QED BY <2>1, <2>2
<1>5. ASSUME NEW p \in Inner
      PROVE  Digest(new, p) = Compress(Digest(new, Append(p, 0)), Digest(new, Append(p, 1)))
  <2>1. CASE p \in Ancestors(leaf)
    <3>1. PICK l \in 0 .. CACHE_LOG - 1 : p = Up(leaf, l)
      BY <2>1 DEF Ancestors
    <3>2. Digest(new, Sibling(Up(leaf, l + 1))) = Digest(trie, Sibling(Up(leaf, l + 1)))
      BY <1>2, <1>3, OnPath
    <3>3. Digest(new, p) =
            OfTwo(leaf, l, Digest(new, Up(leaf, l + 1)), Digest(new, Sibling(Up(leaf, l + 1))))
      BY <1>3, <3>1, <3>2
    <3>4. CASE leaf[l + 1] = 0
      <4>1. 1 - leaf[l + 1] = 1
        BY <3>4
      <4> QED BY <1>2, <3>1, <3>3, <3>4, <4>1, TurnIs DEF OfTwo
    <3>5. CASE leaf[l + 1] = 1
      <4>1. 1 - leaf[l + 1] = 0 /\ leaf[l + 1] # 0
        BY <3>5
      <4> QED BY <1>2, <3>1, <3>3, <3>5, <4>1, TurnIs DEF OfTwo
    <3> QED BY <1>2, <3>4, <3>5, TurnIs
  <2>2. CASE p \notin Ancestors(leaf)
    <3>1. p # leaf
      <4>1. PICK n \in 0 .. CACHE_LOG - 1 : p \in [1 .. n -> {0, 1}]
        BY DEF Inner
      <4>2. Len(p) = n /\ n # CACHE_LOG
        BY <1>2, <4>1
      <4>3. Len(leaf) = CACHE_LOG
        BY <1>2 DEF Leaves
      <4> QED BY <4>2, <4>3
    <3>2. Append(p, 0) \notin Ancestors(leaf) \cup {leaf} /\ Append(p, 1) \notin Ancestors(leaf) \cup {leaf}
      BY <1>2, <2>2, OnPath
    <3>3. Digest(trie, p) = Compress(Digest(trie, Append(p, 0)), Digest(trie, Append(p, 1)))
      BY DEF Hashed
    <3> QED BY <1>3, <2>2, <3>1, <3>2, <3>3
  <2> QED BY <2>1, <2>2
<1>6. Hashed(new)
  BY <1>4, <1>5 DEF Hashed
<1> QED BY <1>1, <1>6

-----------------------------------------------------------------------------
(* Words.                                                                   *)

LEMMA WordIs == (\A w \in Word : w \in Int) /\ 0 \in Word /\ 5 \in Word /\ Words - 1 \in Word
BY Widths DEF Word

LEMMA AddType == \A a, b \in Int : Add32(a, b) \in Word /\ Sub32(a, b) \in Word
<1> SUFFICES ASSUME NEW a \in Int, NEW b \in Int PROVE Add32(a, b) \in Word /\ Sub32(a, b) \in Word
  OBVIOUS
<1>1. PICK m \in Nat \ {0} : m = Words
  BY Widths
<1>2. a + b \in Int /\ a - b \in Int /\ \A c \in Int : c % m \in 0 .. m - 1
  BY <1>1
<1> QED BY <1>1, <1>2 DEF Add32, Sub32, Word

LEMMA SignedType == \A a \in Int : AsI32(a) \in Int
BY Widths DEF AsI32

LEMMA DivType ==
    ASSUME NEW x \in Nat, NEW d \in Nat \ {0}
    PROVE  x \div d \in 0 .. x
<1>1. PICK q \in Int : q = x \div d
  OBVIOUS
<1>2. PICK r \in Int : r = x % d
  OBVIOUS
<1>3. x = d * q + r /\ r \in 0 .. d - 1
  BY <1>1, <1>2
<1>4. q >= 0
  <2>1. SUFFICES ASSUME q <= -1 PROVE FALSE
    OBVIOUS
  <2>2. d * q <= d * (-1)
    BY <2>1
  <2> QED BY <1>3, <2>2
<1>5. q <= d * q
  BY <1>4
<1> QED BY <1>1, <1>3, <1>4, <1>5

\* The partial sums of bits, each below its power of two.
LEMMA BitSumIs ==
    ASSUME NEW bit \in [AllBits -> {0, 1}]
    PROVE  \E z : /\ z[0] = 0
                  /\ \A n \in AllBits : z[n + 1] = z[n] + TwoTo[n] * bit[n]
                  /\ \A n \in 0 .. WordBits : z[n] \in Nat /\ z[n] < TwoTo[n]
                  /\ BitSum(bit) = z[WordBits]
<1> DEFINE Rec(z) == [n \in 0 .. WordBits |->
                        IF n = 0 THEN 0 ELSE z[n - 1] + Powers[n - 1] * bit[n - 1]]
           Solves(z) == z = Rec(z)
           all == [n \in Nat |-> IF n \in AllBits THEN bit[n] ELSE 0]
           G == [n \in Nat |-> [v \in Int |-> v + TwoTo[n] * all[n]]]
<1>1. WordBits \in Nat
  BY Widths
<1>2. \A n \in AllBits : n \in Nat /\ n \in 0 .. WordBits /\ n + 1 \in 0 .. WordBits /\ n + 1 # 0
                         /\ (n + 1) - 1 = n /\ Powers[n] = TwoTo[n]
  <2>1. \A n \in AllBits : n \in Nat /\ n \in 0 .. WordBits /\ n + 1 \in 0 .. WordBits /\ n + 1 # 0
                           /\ (n + 1) - 1 = n
    BY <1>1 DEF AllBits
  <2> QED BY <2>1, Widths
<1>3. all \in [Nat -> {0, 1}] /\ \A n \in AllBits : all[n] = bit[n]
  BY <1>2
<1> HIDE DEF all
<1>4. G \in [Nat -> [Int -> Int]]
  BY <1>3, TwoToDef
<1>5. PICK h \in [0 .. WordBits -> Int] : Begins(h, 0, G, WordBits)
  <2> HIDE DEF G
  <2>1. PICK V, a, g, m : V = Int /\ a = 0 /\ g = G /\ m = WordBits
    OBVIOUS
  <2>2. a \in V /\ g \in [Nat -> [V -> V]] /\ m \in Nat
    BY <1>1, <1>4, <2>1
  <2>3. \E h \in [0 .. m -> V] : Begins(h, a, g, m)
    BY <2>2, BeginningsExist
  <2> QED BY <2>1, <2>3
<1>6. \E z : Solves(z)
  <2>1. ASSUME NEW n \in 0 .. WordBits, n # 0
        PROVE  h[n] = h[n - 1] + Powers[n - 1] * bit[n - 1]
    <3>1. PICK m \in AllBits : n = m + 1 /\ m = n - 1 /\ m \in 0 .. WordBits - 1
      BY <1>1, <2>1 DEF AllBits
    <3>2. h[m + 1] = G[m][h[m]] /\ h[m] \in Int
      BY <1>2, <1>5, <3>1 DEF Begins
    <3>3. h[m + 1] = h[m] + TwoTo[m] * all[m]
      BY <1>2, <3>1, <3>2
    <3> QED BY <1>2, <1>3, <3>1, <3>3
  <2>2. h[0] = 0
    BY <1>5 DEF Begins
  <2>3. h = Rec(h)
    BY <2>1, <2>2
  <2> QED BY <2>3
<1>7. PICK z : z = CHOOSE u : Solves(u)
  OBVIOUS
<1>8. Solves(z)
  <2> HIDE DEF Solves
  <2> QED BY <1>6, <1>7
<1>9. \A n \in 0 .. WordBits : z[n] = Rec(z)[n]
  BY <1>8, Zenon
<1>10. z[0] = 0
  <2>1. 0 \in 0 .. WordBits
    BY <1>1
  <2> QED BY <1>9, <2>1
<1>11. \A n \in AllBits : z[n + 1] = z[n] + TwoTo[n] * bit[n]
  BY <1>2, <1>9
<1> DEFINE S == {n \in Nat : n <= WordBits => z[n] \in Nat /\ z[n] < TwoTo[n]}
<1>12. 0 \in S
  <2>1. TwoTo[0] = 1
    BY TwoToDef
  <2> QED BY <1>10, <2>1
<1>13. ASSUME NEW n \in Nat, n \in S PROVE n + 1 \in S
  <2>1. SUFFICES ASSUME n + 1 <= WordBits PROVE z[n + 1] \in Nat /\ z[n + 1] < TwoTo[n + 1]
    OBVIOUS
  <2>2. n \in AllBits
    BY <1>1, <2>1 DEF AllBits
  <2>3. PICK b \in {0, 1} : b = bit[n]
    BY <2>2
  <2>4. PICK p \in Nat, v \in Nat : p = TwoTo[n] /\ v = z[n] /\ v < p
    <3>1. TwoTo[n] \in Nat
      BY TwoToDef
    <3>2. z[n] \in Nat /\ z[n] < TwoTo[n]
      BY <1>1, <1>13, <2>1
    <3> QED BY <3>1, <3>2
  <2>5. PICK e \in {0, p} : z[n + 1] = v + e
    <3>1. p * b = 0 \/ p * b = p
      BY <2>3, <2>4
    <3>2. z[n + 1] = z[n] + TwoTo[n] * bit[n]
      BY <1>11, <2>2
    <3> QED BY <2>3, <2>4, <3>1, <3>2
  <2>6. TwoTo[n + 1] = 2 * p
    BY <2>4, TwoToDef
  <2>7. v + e \in Nat /\ v + e < 2 * p
    BY <2>4, <2>5
  <2> QED BY <2>5, <2>6, <2>7
<1> HIDE DEF S
<1>14. \A n \in Nat : n \in S
  BY <1>12, <1>13, SetInduction
<1>15. \A n \in 0 .. WordBits : z[n] \in Nat /\ z[n] < TwoTo[n]
  BY <1>1, <1>14 DEF S
<1>16. BitSum(bit) = (CHOOSE u : Solves(u))[WordBits]
  BY DEF BitSum
<1> QED BY <1>7, <1>10, <1>11, <1>15, <1>16

LEMMA BitSumType == ASSUME NEW bit \in [AllBits -> {0, 1}] PROVE BitSum(bit) \in Word
<1>1. PICK z : /\ \A n \in 0 .. WordBits : z[n] \in Nat /\ z[n] < TwoTo[n]
               /\ BitSum(bit) = z[WordBits]
  BY BitSumIs
<1>2. PICK m \in Nat \ {0} : m = Words /\ m = TwoTo[WordBits] /\ WordBits \in 0 .. WordBits
  BY Widths
<1> QED BY <1>1, <1>2 DEF Word

\* The bitwise operators make words of words.
LEMMA BitWiseType ==
    ASSUME NEW F \in [{0, 1} -> [{0, 1} -> {0, 1}]], NEW x \in Int, NEW y \in Int
    PROVE  BitWise(F, x, y) \in Word
<1>1. \A b \in AllBits : Bit(x, b) \in {0, 1} /\ Bit(y, b) \in {0, 1}
  BY Widths, BitType DEF AllBits
<1>2. [b \in AllBits |-> F[Bit(x, b)][Bit(y, b)]] \in [AllBits -> {0, 1}]
  BY <1>1
<1> QED BY <1>2, BitSumType DEF BitWise

LEMMA AluType ==
    ASSUME NEW aop \in Aops, NEW x \in Word, NEW y \in Word
    PROVE  AluOp(aop, x, y) \in Word
<1>1. x \in Nat /\ y \in Nat /\ x \in Int /\ y \in Int
  BY Widths DEF Word
<1>2. PICK s \in 0 .. WordBits - 1 : s = y % WordBits
  <2>1. PICK m \in Nat \ {0} : m = WordBits
    BY Widths, WidthAssumption DEF WordBits
  <2> QED BY <1>1, <2>1
<1>3. PICK d \in Nat \ {0} : d = Powers[s]
  BY Widths
<1>4. x * d \in Int /\ (x \div d) \in 0 .. x /\ \A c \in Int : c \div d \in Int
  <2>1. x * d \in Int /\ \A c \in Int : c \div d \in Int
    BY <1>1
  <2>2. x \div d \in 0 .. x
    BY <1>1, DivType
  <2> QED BY <2>1, <2>2
<1>5. \A c \in Int : c % Words \in Word
  <2>1. PICK m \in Nat \ {0} : m = Words
    BY Widths
  <2> QED BY <2>1 DEF Word
<1>6. And \in [{0, 1} -> [{0, 1} -> {0, 1}]] /\ Or \in [{0, 1} -> [{0, 1} -> {0, 1}]]
      /\ Xor \in [{0, 1} -> [{0, 1} -> {0, 1}]]
  BY DEF And, Or, Xor
<1>7. BitWise(And, x, y) \in Word /\ BitWise(Or, x, y) \in Word /\ BitWise(Xor, x, y) \in Word
  BY <1>1, <1>6, BitWiseType
<1>8. BoolToWord(AsI32(x) < AsI32(y)) \in Word /\ BoolToWord(x < y) \in Word
  BY Widths DEF BoolToWord, Word
<1>9. CASE aop \in {"ADD", "SUB", "SLT", "SLTU"}
  <2>1. CASE aop = "ADD"
    BY <1>1, <2>1, AddType DEF AluOp
  <2>2. CASE aop = "SUB"
    BY <1>1, <2>2, AddType DEF AluOp
  <2>3. CASE aop = "SLT"
    BY <1>1, <1>8, <2>3 DEF AluOp
  <2>4. CASE aop = "SLTU"
    BY <1>1, <1>8, <2>4 DEF AluOp
  <2> QED BY <1>9, <2>1, <2>2, <2>3, <2>4
<1>10. CASE aop = "SLL"
  <2>1. AluOp(aop, x, y) = (x * d) % Words
    BY <1>2, <1>3, <1>10 DEF AluOp
  <2> QED BY <1>4, <1>5, <2>1
<1>11. CASE aop = "SRL"
  <2>1. AluOp(aop, x, y) = x \div d
    BY <1>2, <1>3, <1>11 DEF AluOp
  <2>2. PICK q \in 0 .. x : q = x \div d
    BY <1>4
  <2> QED BY <1>1, <2>1, <2>2, Widths DEF Word
<1>12. CASE aop = "SRA"
  <2>1. PICK u \in Int : u = AsI32(x)
    BY <1>1, SignedType
  <2>2. AluOp(aop, x, y) = (u \div d) % Words
    BY <1>2, <1>3, <1>12, <2>1 DEF AluOp
  <2>3. PICK q \in Int : q = u \div d
    BY <1>4
  <2> QED BY <1>5, <2>2, <2>3
<1>13. CASE aop \in {"AND", "OR", "XOR"}
  BY <1>7, <1>13 DEF AluOp
<1> QED BY <1>9, <1>10, <1>11, <1>12, <1>13 DEF Aops

-----------------------------------------------------------------------------
(* Lines.                                                                   *)

LEMMA ByteCounts ==
    /\ ByteValues(1) = BytesBase /\ ByteValues(2) = BytesBase * BytesBase
    /\ ByteValues(4) = Words
    /\ ByteValues(4) = BytesBase * (BytesBase * (BytesBase * BytesBase))
<1>1. ByteBits \in Nat /\ 1 * ByteBits = ByteBits /\ 2 * ByteBits = ByteBits + ByteBits
      /\ 4 * ByteBits = (ByteBits + ByteBits) + (ByteBits + ByteBits)
      /\ ByteBits + ByteBits \in Nat
  BY WidthAssumption
<1>2. PICK b \in Nat : b = TwoTo[ByteBits] /\ b = BytesBase /\ b = ByteValues(1)
  BY <1>1, Widths DEF BytesBase
<1>3. ByteValues(2) = b * b
  BY <1>1, <1>2, TwoToSum DEF ByteValues
<1>4. TwoTo[ByteBits + ByteBits] = b * b
  BY <1>1, <1>2, TwoToSum
<1>5. ByteValues(4) = (b * b) * (b * b)
  BY <1>1, <1>4, TwoToSum DEF ByteValues
<1>6. (b * b) * (b * b) = b * (b * (b * b))
  BY <1>2
<1>7. ByteValues(4) = Words
  BY DEF ByteValues, Words, WordBits
<1> QED BY <1>2, <1>3, <1>5, <1>6, <1>7

\* A byte below a number of so many bytes.
LEMMA WithByte ==
    ASSUME NEW base \in Nat \ {0}, NEW m \in Nat \ {0}, NEW b \in 0 .. base - 1, NEW t \in 0 .. m - 1
    PROVE  b + base * t \in 0 .. base * m - 1
<1>1. base * t <= base * (m - 1)
  OBVIOUS
<1>2. base * (m - 1) = base * m - base
  OBVIOUS
<1>3. base * t >= 0 /\ base * t \in Int /\ base * m \in Int
  OBVIOUS
<1> QED BY <1>1, <1>2, <1>3

\* An aligned access stays within a line.
LEMMA WithinLine ==
    ASSUME NEW a \in Int, NEW size \in {1, 2, 4}, a % size = 0
    PROVE  /\ a % LineBytes \in 0 .. LineBytes - 1
           /\ \A k \in 0 .. size - 1 : (a % LineBytes) + k \in 0 .. LineBytes - 1
<1>1. PICK m \in Nat : LineBytes = 4 * m /\ m > 0
  <2>1. PICK c \in Nat : LineBytes = TwoTo[c] /\ LineBytes >= 8
    BY Widths, WidthAssumption
  <2>2. TwoTo[0] = 1 /\ TwoTo[1] = 2
    <3>1. TwoTo[0 + 1] = 2 * TwoTo[0]
      BY TwoToDef
    <3> QED BY <3>1, TwoToDef
  <2>3. c >= 2
    BY <2>1, <2>2
  <2>4. PICK d \in Nat : c = (d + 1) + 1
    <3>1. c - 2 \in Nat /\ c = ((c - 2) + 1) + 1
      BY <2>3
    <3> QED BY <3>1
  <2>5. TwoTo[c] = 2 * (2 * TwoTo[d]) /\ TwoTo[d] \in Nat \ {0}
    BY <2>4, TwoToDef, TwoToPositive
  <2>6. LineBytes = 4 * TwoTo[d] /\ TwoTo[d] \in Nat /\ TwoTo[d] > 0
    BY <2>1, <2>5
  <2> QED BY <2>6
<1>2. PICK q \in Int, o \in 0 .. 4 * m - 1 : a = (4 * m) * q + o /\ o = a % (4 * m)
  <2>1. PICK l \in Nat \ {0} : l = 4 * m
    BY <1>1
  <2>2. PICK q \in Int, o \in 0 .. l - 1 : q = a \div l /\ o = a % l /\ a = l * q + o
    BY <2>1
  <2> QED BY <2>1, <2>2
<1>3. PICK p \in Int : p = m * q
  BY <1>1, <1>2
<1>4. (4 * m) * q = 4 * p
  BY <1>1, <1>2, <1>3
<1>5. a = 4 * p + o
  BY <1>2, <1>4
<1>6. o % size = 0
  BY <1>2, <1>5
<1>7. \A k \in 0 .. size - 1 : o + k \in 0 .. 4 * m - 1
  BY <1>1, <1>2, <1>6
<1> QED BY <1>1, <1>2, <1>7

\* lbu, lhu and lw yield numbers of as many bytes as they read.
LEMMA UnsignedType ==
    ASSUME NEW line \in Line, NEW a \in Int, NEW size \in {1, 2, 4}, a % size = 0
    PROVE  Unsigned(line, a, size) \in 0 .. ByteValues(size) - 1
<1>1. PICK base \in Nat \ {0} : base = BytesBase
  BY Widths
<1>2. PICK o \in Int : o = a % LineBytes /\ \A k \in 0 .. size - 1 : o + k \in 0 .. LineBytes - 1
  <2>1. PICK o : o = a % LineBytes
    OBVIOUS
  <2>2. a % LineBytes \in Int
    BY WidthAssumption
  <2> QED BY <2>1, <2>2, WithinLine
<1>3. \A k \in 0 .. size - 1 : line[o + k] \in 0 .. base - 1
  BY <1>1, <1>2 DEF Line, Byte
<1>4. line[o] \in 0 .. base - 1
  <2>1. 0 \in 0 .. size - 1 /\ o + 0 = o
    BY <1>2
  <2> QED BY <1>3, <2>1
<1>5. CASE size = 1
  BY <1>1, <1>2, <1>4, <1>5, ByteCounts DEF Unsigned, LittleEndian
<1>6. CASE size = 2
  <2>1. PICK b0 \in 0 .. base - 1, b1 \in 0 .. base - 1 : b0 = line[o] /\ b1 = line[o + 1]
    BY <1>3, <1>4, <1>6
  <2>2. b0 + base * b1 \in 0 .. base * base - 1
    BY <1>1, WithByte
  <2>3. Unsigned(line, a, size) = b0 + base * b1
    BY <1>1, <1>2, <1>6, <2>1 DEF Unsigned, LittleEndian
  <2> QED BY <1>1, <1>6, <2>2, <2>3, ByteCounts
<1>7. CASE size = 4
  <2>1. PICK b0 \in 0 .. base - 1, b1 \in 0 .. base - 1, b2 \in 0 .. base - 1, b3 \in 0 .. base - 1 :
          b0 = line[o] /\ b1 = line[o + 1] /\ b2 = line[o + 2] /\ b3 = line[o + 3]
    BY <1>3, <1>4, <1>7
  <2>2. PICK m2 \in Nat \ {0}, m3 \in Nat \ {0} : m2 = base * base /\ m3 = base * m2
    <3>1. base * base \in Nat \ {0}
      BY <1>1
    <3>2. PICK m2 \in Nat \ {0} : m2 = base * base
      BY <3>1
    <3>3. base * m2 \in Nat \ {0}
      BY <1>1, <3>2
    <3> QED BY <3>2, <3>3
  <2>3. PICK t2 \in 0 .. m2 - 1 : t2 = b2 + base * b3
    BY <1>1, <2>2, WithByte
  <2>4. PICK t1 \in 0 .. m3 - 1 : t1 = b1 + base * t2
    BY <1>1, <2>2, WithByte
  <2>5. b0 + base * t1 \in 0 .. base * m3 - 1
    BY <1>1, <2>2, WithByte
  <2>6. Unsigned(line, a, size) = b0 + base * t1
    BY <1>1, <1>2, <1>7, <2>1, <2>3, <2>4 DEF Unsigned, LittleEndian
  <2>7. ByteValues(size) = base * m3
    BY <1>1, <1>7, <2>2, ByteCounts
  <2> QED BY <2>5, <2>6, <2>7
<1> QED BY <1>5, <1>6, <1>7

\* CacheLine::load yields a word.
LEMMA LoadType ==
    ASSUME NEW line \in Line, NEW a \in Int, NEW lop \in Lops, Aligned(lop, a)
    PROVE  LineLoad(line, lop, a) \in Word
<1>1. PICK size \in {1, 2, 4} : size = SizeOf(lop) /\ a % size = 0
  BY DEF Lops, SizeOf, Aligned
<1>2. PICK top \in Nat \ {0} : top = ByteValues(size)
  BY Widths
<1>3. PICK words \in Nat \ {0} : words = Words
  BY Widths
<1>4. top <= words
  <2>1. PICK base \in Nat \ {0} : base = BytesBase
    BY Widths
  <2>2. base * base \in Nat /\ base <= base * base /\ base * base <= base * (base * (base * base))
    <3>1. base >= 1
      BY <2>1
    <3>2. base <= base * base
      BY <3>1
    <3>3. PICK s \in Nat \ {0} : s = base * base /\ base <= s
      BY <3>1, <3>2
    <3>4. PICK c \in Nat \ {0} : c = base * s /\ s <= c
      BY <3>1, <3>3
    <3>5. c <= base * c
      BY <3>1, <3>4
    <3> QED BY <3>2, <3>3, <3>4, <3>5
  <2>3. size = 1 => top <= words
    BY <1>2, <1>3, <2>1, <2>2, ByteCounts
  <2>4. size = 2 => top <= words
    BY <1>2, <1>3, <2>1, <2>2, ByteCounts
  <2>5. size = 4 => top <= words
    BY <1>2, <1>3, ByteCounts
  <2> QED BY <2>3, <2>4, <2>5
<1>5. PICK val \in 0 .. top - 1 : val = Unsigned(line, a, size)
  BY <1>1, <1>2, UnsignedType
<1>6. LineLoad(line, lop, a) \in {val, words - top + val}
  BY <1>1, <1>2, <1>3, <1>5 DEF LineLoad
<1>7. val \in 0 .. words - 1 /\ words - top + val \in 0 .. words - 1
  BY <1>3, <1>4
<1> QED BY <1>3, <1>6, <1>7 DEF Word

\* CacheLine::store leaves a line.
LEMMA StoreType ==
    ASSUME NEW line \in Line, NEW a \in Int, NEW sop \in Sops, NEW val \in Int
    PROVE  LineStore(line, sop, a, val) \in Line
<1>1. PICK base \in Nat \ {0} : base = BytesBase
  BY Widths
<1>2. PICK size \in {1, 2, 4} : size = SizeOf(sop)
  BY DEF Sops, SizeOf
<1>3. PICK o \in Int : o = a % LineBytes
  BY WidthAssumption
<1>4. ASSUME NEW p \in 0 .. LineBytes - 1, p \in o .. o + size - 1
      PROVE  (val \div ByteValues(p - o)) % base \in 0 .. base - 1
  <2>1. p - o \in Nat
    BY <1>3, <1>4, WidthAssumption
  <2>2. PICK d \in Nat \ {0} : d = ByteValues(p - o)
    BY <2>1, Widths
  <2>3. PICK q \in Int : q = val \div d
    BY <2>2
  <2> QED BY <1>1, <2>2, <2>3
<1>5. LineStore(line, sop, a, val) =
        [p \in 0 .. LineBytes - 1 |-> IF p \in o .. o + size - 1
                                      THEN (val \div ByteValues(p - o)) % base ELSE line[p]]
  BY <1>1, <1>2, <1>3 DEF LineStore, Line
<1>6. \A p \in 0 .. LineBytes - 1 : line[p] \in 0 .. base - 1
  BY <1>1 DEF Line, Byte
<1> QED BY <1>1, <1>4, <1>5, <1>6 DEF Line, Byte

-----------------------------------------------------------------------------
(* Type correctness of the machine.                                         *)

\* The registers hold words and are the ones the code names, the tape holds
\* bytes, and the memory is a trie that updates made.
MachineOK ==
    /\ regs.pc \in Word
    /\ regs.x \in [DOMAIN regs.x -> Word]
    /\ regs.x[0] = 0
    /\ {0, 10, 11, 12, 18} \subseteq DOMAIN regs.x
    /\ \A a \in DOMAIN code : /\ Parsed(code[a])
                              /\ {code[a].rd, code[a].rs1, code[a].rs2} \subseteq DOMAIN regs.x
    /\ input \in Seq(Byte)
    /\ Hashed(mem)

IsSeq(s) == Len(s) \in Nat /\ s = [k \in 1 .. Len(s) |-> s[k]]

\* A block is a sequence of at most K steps.
BlockOK ==
    /\ block = [regs |-> block.regs, root |-> block.root, steps |-> block.steps]
    /\ IsSeq(block.steps)
    /\ Len(block.steps) <= K
    /\ traceLen \in 0 .. MaxTraceLen
    /\ status \in {"running", "error", "done"}

Appends(t, s, e) == t = Append(s, e)

\* Append keeps a sequence one, whatever is appended.
LEMMA AppendStep ==
    ASSUME NEW s, IsSeq(s), NEW e, NEW t, Appends(t, s, e)
    PROVE  /\ IsSeq(t) /\ Len(s) \in Nat /\ Len(t) = Len(s) + 1
           /\ t[Len(s) + 1] = e /\ \A k \in 1 .. Len(s) : t[k] = s[k]
<1>1. PICK n \in Nat : n = Len(s) /\ s = [k \in 1 .. n |-> s[k]]
  BY DEF IsSeq
<1>2. PICK S : S = {s[k] : k \in 1 .. n} \cup {e}
  OBVIOUS
<1>3. s \in [1 .. n -> S] /\ e \in S
  BY <1>1, <1>2
<1>4. s \in Seq(S)
  BY <1>3
<1>5. t \in Seq(S) /\ Len(t) = n + 1 /\ t[n + 1] = e /\ (\A k \in 1 .. n : t[k] = s[k])
  BY <1>1, <1>3, <1>4 DEF Appends
<1>6. IsSeq(t)
  <2>1. PICK m \in Nat : m = n + 1
    OBVIOUS
  <2>2. t \in Seq(S) /\ Len(t) = m
    BY <1>5, <2>1
  <2>3. t \in [1 .. m -> S]
    BY <2>2, LenProperties
  <2> QED BY <2>2, <2>3 DEF IsSeq
<1> QED BY <1>1, <1>5, <1>6

-----------------------------------------------------------------------------
(* Memory as init_memory leaves it.                                         *)

LEMMA EmptyHashed == Hashed(EmptyTrie)
<1>1. DOMAIN EmptyTrie = {}
  BY DEF EmptyTrie
<1>2. \A p : Digest(EmptyTrie, p) = Zeros[Len(p)] /\ LineOf(EmptyTrie, p) = ZeroLine
  BY <1>1 DEF Digest, LineOf
<1>3. CACHE_LOG \in Nat
  BY Widths
<1>4. ZeroLine \in Line
  <2>1. PICK base \in Nat \ {0} : base = BytesBase
    BY Widths
  <2> QED BY <2>1 DEF ZeroLine, Line, Byte
<1>5. ASSUME NEW p \in Leaves
      PROVE  LineOf(EmptyTrie, p) \in Line /\ Digest(EmptyTrie, p) = HashMemory(LineOf(EmptyTrie, p))
  <2>1. Len(p) = CACHE_LOG
    BY <1>3 DEF Leaves
  <2> QED BY <1>2, <1>4, <2>1, ZerosDef
<1>6. ASSUME NEW p \in Inner
      PROVE  Digest(EmptyTrie, p)
               = Compress(Digest(EmptyTrie, Append(p, 0)), Digest(EmptyTrie, Append(p, 1)))
  <2>1. PICK n \in 0 .. CACHE_LOG - 1 : p \in [1 .. n -> {0, 1}]
    BY DEF Inner
  <2>2. n \in Nat /\ p \in Seq({0, 1}) /\ Len(p) = n
    BY <1>3, <2>1
  <2>3. Len(Append(p, 0)) = n + 1 /\ Len(Append(p, 1)) = n + 1
    BY <2>2
  <2>4. Zeros[n] = Compress(Zeros[n + 1], Zeros[n + 1])
    BY <2>1, ZerosDef
  <2> QED BY <1>2, <2>2, <2>3, <2>4
<1> QED BY <1>5, <1>6 DEF Hashed

LEMMA StoreByteHashed ==
    ASSUME NEW trie, Hashed(trie), NEW a \in Word, NEW byte \in Byte
    PROVE  Hashed(StoreByte(trie, a, byte))
<1>1. a \in Int /\ byte \in Int
  <2>1. PICK base \in Nat : base = BytesBase
    BY Widths
  <2> QED BY <2>1, WordIs DEF Byte
<1>2. LeafOf(a) \in Leaves
  BY <1>1, LeafOfIs
<1>3. LineAt(trie, a) \in Line
  BY <1>2 DEF LineAt, Hashed
<1>4. LineStore(LineAt(trie, a), "SB", a, byte) \in Line
  BY <1>1, <1>3, StoreType DEF Sops
<1> QED BY <1>2, <1>4, UpdateHashed DEF StoreByte

\* The memory after each of the first n bytes.
Stores(m, data, n) ==
    /\ m = [k \in 0 .. n |-> IF k = 0 THEN EmptyTrie
                             ELSE StoreByte(m[k - 1], data[k].at, data[k].byte)]
    /\ \A k \in 0 .. n : Hashed(m[k])

\* The elements of a sequence are of the set it is over.
LEMMA ElementInSet ==
    ASSUME NEW S, NEW s \in Seq(S), NEW i \in 1 .. Len(s)
    PROVE  s[i] \in S
OBVIOUS

LEMMA StoresExist ==
    ASSUME NEW data \in Seq([at : Word, byte : Byte])
    PROVE  \E m : Stores(m, data, Len(data))
<1> DEFINE S == {n \in Nat : n <= Len(data) => \E m : Stores(m, data, n)}
<1>1. 0 \in S
  <2>1. PICK m : m = [k \in 0 .. 0 |-> EmptyTrie]
    OBVIOUS
  <2>2. m = [k \in 0 .. 0 |-> IF k = 0 THEN EmptyTrie
                              ELSE StoreByte(m[k - 1], data[k].at, data[k].byte)]
    BY <2>1
  <2>3. \A k \in 0 .. 0 : Hashed(m[k])
    BY <2>1, EmptyHashed
  <2> QED BY <2>2, <2>3 DEF Stores
<1>2. ASSUME NEW n \in Nat, n \in S PROVE n + 1 \in S
  <2>1. PICK l \in Nat : l = n + 1
    OBVIOUS
  <2>2. SUFFICES ASSUME l <= Len(data) PROVE \E m : Stores(m, data, l)
    BY <2>1
  <2>3. PICK f : Stores(f, data, n)
    BY <1>2, <2>1, <2>2
  <2>4. PICK a \in Word, byte \in Byte : a = data[l].at /\ byte = data[l].byte
    <3>1. l \in 1 .. Len(data)
      BY <2>1, <2>2
    <3>2. data[l] \in [at : Word, byte : Byte]
      BY <3>1, ElementInSet
    <3> QED BY <3>2
  <2>5. PICK e : e = StoreByte(f[n], a, byte) /\ Hashed(e)
    BY <2>3, StoreByteHashed DEF Stores
  <2>6. PICK g : g = [k \in 0 .. l |-> IF k = l THEN e ELSE f[k]]
    OBVIOUS
  <2>7. ASSUME NEW k \in 0 .. l
        PROVE  /\ g[k] = IF k = 0 THEN EmptyTrie ELSE StoreByte(g[k - 1], data[k].at, data[k].byte)
               /\ Hashed(g[k])
    <3>1. CASE k = l
      <4>1. k # 0 /\ k - 1 = n /\ n # l /\ n \in 0 .. l
        BY <2>1, <3>1
      <4>2. g[k] = e /\ g[k - 1] = f[n]
        BY <2>6, <3>1, <4>1
      <4> QED BY <2>4, <2>5, <3>1, <4>1, <4>2
    <3>2. CASE k # l
      <4>1. k \in 0 .. n
        BY <2>1, <3>2
      <4>2. g[k] = f[k] /\ (k # 0 => g[k - 1] = f[k - 1])
        <5>1. k # 0 => k - 1 \in 0 .. l /\ k - 1 # l
          BY <2>1, <4>1
        <5> QED BY <2>6, <3>2, <5>1
      <4>3. f[k] = IF k = 0 THEN EmptyTrie ELSE StoreByte(f[k - 1], data[k].at, data[k].byte)
        BY <2>3, <4>1 DEF Stores
      <4>4. Hashed(f[k])
        BY <2>3, <4>1 DEF Stores
      <4> QED BY <4>2, <4>3, <4>4
    <3> QED BY <3>1, <3>2
  <2>8. Stores(g, data, l)
    <3>1. \A k \in 0 .. l : g[k] = IF k = 0 THEN EmptyTrie
                                   ELSE StoreByte(g[k - 1], data[k].at, data[k].byte)
      BY <2>7
    <3>2. g = [k \in 0 .. l |-> g[k]]
      BY <2>6
    <3>3. g = [k \in 0 .. l |-> IF k = 0 THEN EmptyTrie
                                ELSE StoreByte(g[k - 1], data[k].at, data[k].byte)]
      BY <3>1, <3>2
    <3> QED BY <2>7, <3>3 DEF Stores
  <2> QED BY <2>8
<1> HIDE DEF S
<1>3. \A n \in Nat : n \in S
  BY <1>1, <1>2, SetInduction
<1>4. Len(data) \in Nat
  OBVIOUS
<1> QED BY <1>3, <1>4 DEF S

\* Whatever the segments of a program, memory begins as a trie of hashes.
LEMMA InitMemoryHashed ==
    ASSUME NEW data \in Seq([at : Word, byte : Byte])
    PROVE  Hashed(InitMemory(data))
<1> DEFINE Rec(h) == [k \in 0 .. Len(data) |->
                         IF k = 0 THEN EmptyTrie
                         ELSE StoreByte(h[k - 1], data[k].at, data[k].byte)]
           Solves(h) == h = Rec(h)
<1>1. PICK f : Stores(f, data, Len(data))
  BY StoresExist
<1>2. PICK m : m = CHOOSE h : Solves(h)
  OBVIOUS
<1>3. Solves(m)
  <2>1. \E h : Solves(h)
    BY <1>1 DEF Stores
  <2> HIDE DEF Solves
  <2> QED BY <1>2, <2>1
<1>4. InitMemory(data) = m[Len(data)]
  BY <1>2, Zenon DEF InitMemory
<1> DEFINE S == {k \in Nat : k <= Len(data) => m[k] = f[k]}
<1>5. 0 \in S
  BY <1>1, <1>3 DEF Stores
<1>6. ASSUME NEW k \in Nat, k \in S PROVE k + 1 \in S
  <2>1. SUFFICES ASSUME k + 1 <= Len(data) PROVE m[k + 1] = f[k + 1]
    OBVIOUS
  <2>2. k + 1 \in 0 .. Len(data) /\ k + 1 # 0 /\ (k + 1) - 1 = k /\ k <= Len(data)
    BY <2>1
  <2>3. m[k + 1] = StoreByte(m[k], data[k + 1].at, data[k + 1].byte)
    BY <1>3, <2>2
  <2>4. f[k + 1] = StoreByte(f[k], data[k + 1].at, data[k + 1].byte)
    BY <1>1, <2>2 DEF Stores
  <2> QED BY <1>6, <2>2, <2>3, <2>4
<1> HIDE DEF S
<1>7. \A k \in Nat : k \in S
  BY <1>5, <1>6, SetInduction
<1>8. Len(data) \in Nat /\ Len(data) \in 0 .. Len(data)
  OBVIOUS
<1>9. m[Len(data)] = f[Len(data)]
  BY <1>7, <1>8 DEF S
<1> QED BY <1>1, <1>4, <1>8, <1>9 DEF Stores

LEMMA EmptyIsSeq == IsSeq(<<>>) /\ Len(<<>>) = 0
BY DEF IsSeq

LEMMA MachineHasType ==
    ASSUME MachineOK, BlockOK
    PROVE  TypeOK
<1>1. ASSUME NEW a \in Word PROVE Query(a) \in Line
  <2>1. a \in Int
    BY Widths DEF Word
  <2> QED BY <2>1, LeafOfIs DEF MachineOK, Hashed, Query, LineAt
<1>2. traceLen <= MaxTraceLen
  BY TraceAssumption DEF BlockOK
<1> QED BY <1>1, <1>2 DEF MachineOK, BlockOK, TypeOK

LEMMA MachineInit ==
    ASSUME Init
    PROVE  MachineOK /\ BlockOK
<1>1. PICK image \in Images :
        /\ code = image.code
        /\ \E x \in image.xs : regs = [pc |-> image.pc, x |-> x]
        /\ \E data \in image.datas : mem = InitMemory(data)
        /\ input = image.input
  BY DEF Init
<1>2. PICK x \in image.xs : regs = [pc |-> image.pc, x |-> x]
  BY <1>1
<1>3. regs.pc = image.pc /\ regs.x = x
  BY <1>2
<1>4. MachineOK
  <2>1. Hashed(mem)
    BY <1>1, ImageAssumption, InitMemoryHashed
  <2> QED BY <1>1, <1>3, <2>1, ImageAssumption DEF MachineOK
<1>5. block.steps = <<>> /\ traceLen = 0 /\ status = "running"
  BY DEF Init, NewBlock
<1>6. block = [regs |-> regs, root |-> Root(mem), steps |-> <<>>]
  BY DEF Init, NewBlock
<1>7. BlockOK
  BY <1>5, <1>6, EmptyIsSeq, TraceAssumption DEF BlockOK
<1> QED BY <1>4, <1>7

\* The instruction to run has been parsed, and it names registers there are.
LEMMA CurrentIs ==
    ASSUME MachineOK, Fetches
    PROVE  /\ Parsed(Current)
           /\ Current.op = code[regs.pc].op
           /\ {Current.rd, Current.rs1, Current.rs2} \subseteq DOMAIN regs.x
<1>1. PICK w : w = code[regs.pc] /\ Parsed(w) /\ {w.rd, w.rs1, w.rs2} \subseteq DOMAIN regs.x
  BY DEF MachineOK, Fetches
<1>2. PICK Imms : Imms = Word
  OBVIOUS
<1>3. w \in [op : Opcodes, f : Aops \cup Bops \cup Lops \cup Sops \cup {"-"},
             rd : Nat, rs1 : Nat, rs2 : Nat, imm : Imms]
  BY <1>1, <1>2 DEF Parsed
<1>4. PICK i : i = Translate(w) /\ i = Current
  BY <1>1 DEF Current
<1>5. CASE w.op \in {"ECALL", "EBREAK"} /\ w.rd = 0
  <2>1. i = [w EXCEPT !.rd = 10]
    BY <1>4, <1>5 DEF Translate
  <2>2. i \in [op : Opcodes, f : Aops \cup Bops \cup Lops \cup Sops \cup {"-"},
               rd : Nat, rs1 : Nat, rs2 : Nat, imm : Imms]
    BY <1>3, <2>1
  <2>3. i.op = w.op /\ i.f = w.f /\ i.rd = 10 /\ i.rs1 = w.rs1 /\ i.rs2 = w.rs2 /\ i.imm = w.imm
    BY <1>3, <2>1
  <2>4. Parsed(i)
    BY <1>1, <1>2, <1>5, <2>2, <2>3 DEF Parsed
  <2> QED BY <1>1, <1>4, <2>3, <2>4 DEF MachineOK
<1>6. CASE ~(w.op \in {"ECALL", "EBREAK"} /\ w.rd = 0)
  BY <1>1, <1>4, <1>6 DEF Translate
<1> QED BY <1>5, <1>6

LEMMA OperandTypes ==
    ASSUME MachineOK, Fetches
    PROVE  /\ X(Current) \in Word /\ Y(Current) \in Word
           /\ Current.imm \in Word /\ Address(Current) \in Word
<1>1. GetReg(Current.rs1) \in Word /\ GetReg(Current.rs2) \in Word
  BY CurrentIs, Widths, ZenonT(60) DEF MachineOK, GetReg, Word
<1>2. Current.imm \in Word
  BY CurrentIs DEF Parsed
<1>3. X(Current) + Current.imm \in Int /\ X(Current) \in Int /\ Current.imm \in Int
  BY <1>1, <1>2, Widths DEF X, Word
<1> QED BY <1>1, <1>2, <1>3, AddType DEF X, Y, Address

\* What eval_inst writes to a register is a word.
LEMMA ResultType ==
    ASSUME MachineOK, Fetches, ~Fails(Current)
    PROVE  ResultZ(Current) \in Word
<1>1. PICK i : i = Current
  OBVIOUS
<1>2. Parsed(i) /\ X(i) \in Word /\ Y(i) \in Word /\ i.imm \in Word /\ Address(i) \in Word
  BY <1>1, CurrentIs, OperandTypes
<1>3. i.op \in Opcodes /\ 0 \in Word /\ 5 \in Word /\ Words - 1 \in Word /\ 4 \in Int
      /\ regs.pc \in Int /\ i.imm \in Int
  <2>1. i.op \in Opcodes
    BY <1>2 DEF Parsed
  <2>2. regs.pc \in Word
    BY DEF MachineOK
  <2> QED BY <1>2, <2>1, <2>2, WordIs
<1>4. CASE i.op = "LUI"
  BY <1>1, <1>2, <1>4 DEF ResultZ
<1>5. CASE i.op \in {"AUIPC", "JAL", "JALR"}
  BY <1>1, <1>3, <1>5, AddType DEF ResultZ
<1>6. CASE i.op = "LOAD"
  <2>1. i.f \in Lops /\ Aligned(i.f, Address(i))
    BY <1>1, <1>2, <1>6 DEF Parsed, Fails
  <2>2. Address(i) \in Int
    BY <1>2, Widths DEF Word
  <2>3. Query(Address(i)) \in Line
    BY <2>2, LeafOfIs DEF MachineOK, Hashed, Query, LineAt
  <2> QED BY <1>1, <1>6, <2>1, <2>2, <2>3, LoadType DEF ResultZ
<1>7. CASE i.op \in {"ALUI", "ALU"}
  <2>1. i.f \in Aops
    BY <1>2, <1>7 DEF Parsed
  <2> QED BY <1>1, <1>2, <1>7, <2>1, AluType DEF ResultZ
<1>8. CASE i.op = "ECALL"
  <2>1. SyscallCode \in {1, 2, 3, 5}
    BY <1>1, <1>8 DEF Fails
  <2>2. input # <<>> => Head(input) \in Word
    <3>1. input # <<>> => Head(input) \in Byte
      BY DEF MachineOK
    <3>2. PICK base \in Nat, words \in Nat : base = BytesBase /\ words = Words /\ base <= words
      <4>1. PICK base \in Nat \ {0}, words \in Nat : base = BytesBase /\ words = Words
        BY Widths
      <4>2. base * (base * (base * base)) >= base
        <5>1. PICK s \in Nat : s = base * base /\ s >= 1
          BY <4>1
        <5>2. PICK c \in Nat : c = base * s /\ c >= 1
          BY <4>1, <5>1
        <5>3. base * c >= base
          BY <4>1, <5>2
        <5> QED BY <5>1, <5>2, <5>3
      <4> QED BY <4>1, <4>2, ByteCounts
    <3> QED BY <3>1, <3>2 DEF Byte, Word
  <2> QED BY <1>1, <1>3, <1>8, <2>1, <2>2 DEF ResultZ, SyscallZ
<1>9. CASE i.op \in {"BR", "STORE", "FENCE", "EBREAK", "UNIMP"}
  BY <1>1, <1>3, <1>9 DEF ResultZ
<1> QED BY <1>1, <1>3, <1>4, <1>5, <1>6, <1>7, <1>8, <1>9 DEF Opcodes

LEMMA NextPCType ==
    ASSUME MachineOK, Fetches
    PROVE  NextPC(Current) \in Word
<1>1. PICK i : i = Current
  OBVIOUS
<1>2. regs.pc \in Int /\ 4 \in Int /\ i.imm \in Int /\ X(i) \in Int /\ 0 \in Word
  <2>1. regs.pc \in Word
    BY DEF MachineOK
  <2> QED BY <1>1, <2>1, OperandTypes, WordIs
<1>3. Add32(regs.pc, 4) \in Word /\ Add32(regs.pc, i.imm) \in Word /\ Add32(X(i), i.imm) \in Word
  BY <1>2, AddType
<1>4. TargetPC(i) \in {Add32(regs.pc, i.imm), Add32(X(i), i.imm), regs.pc, 0}
  BY DEF TargetPC
<1>5. TargetPC(i) \in Word
  BY <1>2, <1>3, <1>4 DEF MachineOK
<1> QED BY <1>1, <1>3, <1>5 DEF NextPC

LEMMA EvalMachine ==
    ASSUME MachineOK, EvalInst
    PROVE  MachineOK'
<1>1. Fetches /\ ~Fails(Current)
  BY DEF EvalInst
<1>2. PICK i : i = Current
  OBVIOUS
<1>3. ResultZ(i) \in Word /\ NextPC(i) \in Word /\ Parsed(i) /\ i.rd \in DOMAIN regs.x
  BY <1>1, <1>2, ResultType, NextPCType, CurrentIs
<1>4. /\ regs' = [pc |-> NextPC(i), x |-> SetReg(RD(i), ResultZ(i))]
      /\ mem' = Write(i)
      /\ input' \in {input, Tail(input)} /\ (input' = Tail(input) => input # <<>> \/ input' = input)
      /\ code' = code
  <2>1. /\ regs' = [pc |-> NextPC(i), x |-> SetReg(RD(i), ResultZ(i))]
        /\ mem' = Write(i)
        /\ code' = code
    BY <1>2 DEF EvalInst
  <2>2. input' = input \/ (input' = Tail(input) /\ input # <<>>)
    BY DEF EvalInst
  <2> QED BY <2>1, <2>2
<1>5. PICK x, z : x = regs.x /\ z = ResultZ(i)
  OBVIOUS
<1>6. x \in [DOMAIN x -> Word] /\ x[0] = 0 /\ z \in Word
  BY <1>3, <1>5 DEF MachineOK
<1>7. RD(i) \in {0, i.rd} /\ (RD(i) # 0 => RD(i) \in DOMAIN x)
  BY <1>3, <1>5 DEF RD
<1>8. PICK y : y = regs'.x /\ y = SetReg(RD(i), z)
  BY <1>4, <1>5
<1>9. y = x \/ (RD(i) # 0 /\ y = [x EXCEPT ![RD(i)] = z])
  BY <1>5, <1>8 DEF SetReg
<1>10. y \in [DOMAIN x -> Word] /\ DOMAIN y = DOMAIN x /\ y[0] = 0
  <2>1. PICK r : r = RD(i)
    OBVIOUS
  <2>2. CASE y = x
    BY <1>6, <2>2
  <2>3. CASE r # 0 /\ y = [x EXCEPT ![r] = z]
    BY <1>6, <1>7, <2>1, <2>3
  <2> QED BY <1>9, <2>1, <2>2, <2>3
<1>11. regs'.pc \in Word
  BY <1>3, <1>4
<1>12. Hashed(mem')
  <2>1. CASE i.op = "STORE"
    <3>1. PICK a : a = Address(i) /\ a \in Int /\ LeafOf(a) \in Leaves
      BY <1>1, <1>2, OperandTypes, WordIs, LeafOfIs
    <3>2. Query(a) \in Line /\ Y(i) \in Int /\ i.f \in Sops
      <4>1. Query(a) \in Line
        BY <3>1 DEF MachineOK, Hashed, Query, LineAt
      <4>2. Y(i) \in Int
        BY <1>1, <1>2, OperandTypes, WordIs
      <4>3. i.f \in Sops
        BY <1>3, <2>1 DEF Parsed
      <4> QED BY <4>1, <4>2, <4>3
    <3>3. PICK line \in Line : line = LineStore(Query(a), i.f, a, Y(i))
      BY <3>1, <3>2, StoreType
    <3>4. Hashed(mem)
      BY DEF MachineOK
    <3>5. mem' = UpdateTrie(mem, a, line)
      BY <1>4, <2>1, <3>1, <3>3 DEF Write
    <3> QED BY <3>1, <3>4, <3>5, UpdateHashed
  <2>2. CASE i.op # "STORE"
    BY <1>4, <2>2 DEF Write, MachineOK
  <2> QED BY <2>1, <2>2
<1>13. input' \in Seq(Byte)
  <2>1. input \in Seq(Byte)
    BY DEF MachineOK
  <2> QED BY <1>4, <2>1
<1>14. {0, 10, 11, 12, 18} \subseteq DOMAIN x
       /\ \A a \in DOMAIN code : Parsed(code[a])
                                 /\ {code[a].rd, code[a].rs1, code[a].rs2} \subseteq DOMAIN x
  BY <1>5 DEF MachineOK
<1> QED BY <1>4, <1>8, <1>10, <1>11, <1>12, <1>13, <1>14 DEF MachineOK

LEMMA EvalBlock ==
    ASSUME BlockOK, EvalInst
    PROVE  /\ BlockOK'
           /\ block'.regs = block.regs
           /\ block'.steps = Append(block.steps, TraceStep(Current, mem'))
<1>1. PICK b, e : b = block /\ e = TraceStep(Current, mem')
  OBVIOUS
<1>2. block' = [b EXCEPT !.steps = Append(@, e)]
  BY <1>1 DEF EvalInst
<1>3. b = [regs |-> b.regs, root |-> b.root, steps |-> b.steps]
  BY <1>1 DEF BlockOK
<1>4. PICK t : t = Append(b.steps, e)
  OBVIOUS
<1>5. block' = [regs |-> b.regs, root |-> b.root, steps |-> t]
  BY <1>2, <1>3, <1>4
<1>6. block'.regs = b.regs /\ block'.root = b.root /\ block'.steps = t
  BY <1>5
<1>7. IsSeq(t) /\ Len(t) = Len(b.steps) + 1 /\ Len(b.steps) \in Nat
  <2>1. PICK s : s = b.steps /\ IsSeq(s) /\ Appends(t, s, e)
    BY <1>1, <1>4 DEF BlockOK, Appends
  <2> QED BY <2>1, AppendStep
<1>8. Len(t) <= K
  <2>1. Len(b.steps) <= K /\ Len(b.steps) # K
    BY <1>1 DEF BlockOK, EvalInst, BlockFull
  <2> QED BY <1>7, <2>1, TraceAssumption
<1>9. traceLen' \in 0 .. MaxTraceLen
  BY TraceAssumption DEF BlockOK, EvalInst, LimitReached
<1>10. status' \in {"running", "error", "done"}
  BY DEF BlockOK, EvalInst
<1>11. BlockOK'
  BY <1>5, <1>6, <1>7, <1>8, <1>9, <1>10 DEF BlockOK
<1> QED BY <1>1, <1>4, <1>6, <1>11

LEMMA OthersKeepTypes ==
    ASSUME MachineOK, BlockOK, EvalFails \/ EndBlock \/ UNCHANGED vars
    PROVE  MachineOK' /\ BlockOK'
<1>1. UNCHANGED <<code, regs, mem, input, traceLen>>
  BY DEF EvalFails, EndBlock, vars
<1>2. MachineOK'
  BY <1>1 DEF MachineOK
<1>3. status' \in {"running", "error", "done"}
  BY DEF EvalFails, EndBlock, vars, BlockOK
<1>4. block' = block \/ block' = [regs |-> regs, root |-> Root(mem), steps |-> <<>>]
  BY DEF EvalFails, EndBlock, vars, NewBlock
<1>5. CASE block' = block
  BY <1>1, <1>2, <1>3, <1>5 DEF BlockOK, IsSeq
<1>6. CASE block' = [regs |-> regs, root |-> Root(mem), steps |-> <<>>]
  <2>1. block'.regs = regs /\ block'.root = Root(mem) /\ block'.steps = <<>>
    BY <1>6
  <2>2. Len(block'.steps) <= K /\ IsSeq(block'.steps)
    <3>1. PICK s : s = block'.steps /\ s = <<>>
      BY <2>1
    <3>2. IsSeq(s) /\ Len(s) <= K
      BY <3>1, EmptyIsSeq, TraceAssumption
    <3> QED BY <3>1, <3>2
  <2>3. BlockOK'
    BY <1>1, <1>3, <1>6, <2>1, <2>2 DEF BlockOK
  <2> QED BY <1>2, <2>3
<1> QED BY <1>2, <1>4, <1>5, <1>6

\* eval_inst, k_step and trace keep the machine's registers and memory words
\* and bytes, and a block within its size.
THEOREM VmTypes == Spec => [](MachineOK /\ BlockOK)
<1>1. Init => MachineOK /\ BlockOK
  BY MachineInit
<1>2. MachineOK /\ BlockOK /\ [Next]_vars => (MachineOK /\ BlockOK)'
  <2>1. SUFFICES ASSUME MachineOK, BlockOK, [Next]_vars PROVE MachineOK' /\ BlockOK'
    OBVIOUS
  <2>2. CASE EvalInst
    BY <2>1, <2>2, EvalMachine, EvalBlock
  <2>3. CASE EvalFails \/ EndBlock \/ UNCHANGED vars
    BY <2>1, <2>3, OthersKeepTypes
  <2> QED BY <2>1, <2>2, <2>3 DEF Next
<1> QED BY <1>1, <1>2, PTL DEF Spec

\* The machine never leaves the range of its types, whatever the program:
\* eval_inst computes words from words.
THEOREM VmTypeCorrect == Spec => []TypeOK
<1>1. MachineOK /\ BlockOK => TypeOK
  BY MachineHasType
<1> QED BY <1>1, VmTypes, PTL

\* MerkleTrie::query: in every reachable state, the path of any line verifies
\* against the root.
THEOREM PathsCorrect == Spec => []PathsVerify
<1>1. MachineOK => PathsVerify
  <2>1. SUFFICES ASSUME MachineOK, NEW a \in OnePerLeaf
                 PROVE  Verify(QueryPath(mem, a), Root(mem), LineAt(mem, a))
    BY DEF PathsVerify
  <2>2. a \in Int
    <3>1. PICK n \in 0 .. TwoTo[CACHE_LOG] - 1 : a = n * (LineBytes \div 2)
      BY DEF OnePerLeaf
    <3>2. n \in Int /\ LineBytes \div 2 \in Int
      BY WidthAssumption
    <3> QED BY <3>1, <3>2
  <2>3. LeafOf(a) \in Leaves
    BY <2>2, LeafOfIs
  <2>4. Hashed(mem)
    BY <2>1 DEF MachineOK
  <2> QED BY <2>3, <2>4, QueryVerifies
<1> QED BY <1>1, VmTypes, PTL

-----------------------------------------------------------------------------
(* The block iterator follows the machine.                                  *)

\* f is what the iterator reaches, step after step, from the registers r.
Follows(f, r, steps) ==
    /\ f[0] = r
    /\ \A k \in Nat : f[k + 1] = AfterWitness(Witness(f[k], steps[k + 1]))

\* The first n + 1 of these registers.
FollowsTo(f, r, steps, n) ==
    /\ f = [k \in 0 .. n |-> f[k]]
    /\ f[0] = r
    /\ \A k \in 0 .. n - 1 : f[k + 1] = AfterWitness(Witness(f[k], steps[k + 1]))

LEMMA FollowsToAgree ==
    ASSUME NEW r, NEW s, NEW t, NEW n \in Nat, NEW m \in Nat, NEW f, NEW g,
           FollowsTo(f, r, s, n), FollowsTo(g, r, t, m), n <= m,
           \A k \in 1 .. n : s[k] = t[k]
    PROVE  \A k \in 0 .. n : f[k] = g[k]
<1> DEFINE S == {k \in Nat : k <= n => f[k] = g[k]}
<1>1. 0 \in S
  BY DEF FollowsTo
<1>2. ASSUME NEW k \in Nat, k \in S PROVE k + 1 \in S
  <2>1. SUFFICES ASSUME k + 1 <= n PROVE f[k + 1] = g[k + 1]
    OBVIOUS
  <2>2. k \in 0 .. n - 1 /\ k \in 0 .. m - 1 /\ k + 1 \in 1 .. n /\ k <= n
    BY <2>1
  <2>3. f[k] = g[k] /\ s[k + 1] = t[k + 1]
    BY <1>2, <2>2
  <2> QED BY <2>2, <2>3 DEF FollowsTo
<1> HIDE DEF S
<1>3. \A k \in Nat : k \in S
  BY <1>1, <1>2, SetInduction
<1> QED BY <1>3 DEF S

LEMMA FollowsToExists ==
    ASSUME NEW r, NEW steps, NEW n \in Nat
    PROVE  \E f : FollowsTo(f, r, steps, n)
<1> DEFINE S == {k \in Nat : \E f : FollowsTo(f, r, steps, k)}
<1>1. 0 \in S
  <2> DEFINE f == [k \in 0 .. 0 |-> r]
  <2>1. FollowsTo(f, r, steps, 0)
    BY DEF FollowsTo
  <2> QED BY <2>1
<1>2. ASSUME NEW k \in Nat, k \in S PROVE k + 1 \in S
  <2>1. PICK f : FollowsTo(f, r, steps, k)
    BY <1>2
  <2>2. PICK e : e = AfterWitness(Witness(f[k], steps[k + 1]))
    OBVIOUS
  <2>3. PICK m \in Nat : m = k + 1
    OBVIOUS
  <2>4. PICK g : g = [j \in 0 .. m |-> IF j = m THEN e ELSE f[j]]
    OBVIOUS
  <2>5. g = [j \in 0 .. m |-> g[j]] /\ g[0] = r
    BY <2>1, <2>3, <2>4 DEF FollowsTo
  <2>6. ASSUME NEW j \in 0 .. m - 1
        PROVE  g[j + 1] = AfterWitness(Witness(g[j], steps[j + 1]))
    <3>1. g[j] = f[j]
      BY <2>3, <2>4
    <3>2. CASE j = k
      BY <2>2, <2>3, <2>4, <3>1, <3>2
    <3>3. CASE j # k
      <4>1. j \in 0 .. k - 1 /\ j + 1 # m /\ j + 1 \in 0 .. m
        BY <2>3, <3>3
      <4>2. g[j + 1] = f[j + 1]
        BY <2>4, <4>1
      <4> QED BY <2>1, <3>1, <4>1, <4>2 DEF FollowsTo
    <3> QED BY <3>2, <3>3
  <2>7. FollowsTo(g, r, steps, m)
    BY <2>5, <2>6 DEF FollowsTo
  <2> QED BY <2>3, <2>7
<1> HIDE DEF S
<1>3. \A k \in Nat : k \in S
  BY <1>1, <1>2, SetInduction
<1> QED BY <1>3 DEF S

LEMMA FollowsExists ==
    ASSUME NEW r, NEW steps
    PROVE  \E f : f = [k \in Nat |-> f[k]] /\ Follows(f, r, steps)
<1> DEFINE Run(f, k) == FollowsTo(f, r, steps, k)
           run == [k \in Nat |-> CHOOSE f : Run(f, k)]
<1>1. ASSUME NEW k \in Nat PROVE FollowsTo(run[k], r, steps, k)
  <2>1. \E f : Run(f, k)
    BY FollowsToExists
  <2>2. run[k] = CHOOSE f : Run(f, k)
    OBVIOUS
  <2>3. Run(run[k], k)
    <3> HIDE DEF Run, run
    <3> QED BY <2>1, <2>2
  <2> QED BY <2>3
<1> HIDE DEF run
<1>2. PICK F : F = [k \in Nat |-> run[k][k]]
  OBVIOUS
<1>3. F[0] = r
  BY <1>1, <1>2 DEF FollowsTo
<1>4. ASSUME NEW k \in Nat PROVE F[k + 1] = AfterWitness(Witness(F[k], steps[k + 1]))
  <2> PICK m \in Nat : m = k + 1
    OBVIOUS
  <2>1. PICK f, g : f = run[k] /\ g = run[m] /\ m = k + 1
    OBVIOUS
  <2>2. FollowsTo(f, r, steps, k) /\ FollowsTo(g, r, steps, m) /\ k <= m
    BY <1>1, <2>1
  <2>3. f[k] = g[k]
    <3>1. \A j \in 0 .. k : f[j] = g[j]
      BY <2>2, FollowsToAgree
    <3> QED BY <3>1
  <2>4. g[k + 1] = AfterWitness(Witness(g[k], steps[k + 1]))
    <3>1. k + 1 \in 0 .. m /\ k \in 0 .. m - 1
      BY <2>1
    <3> HIDE <2>1
    <3> QED BY <2>2, <3>1 DEF FollowsTo
  <2>5. F[k] = f[k] /\ F[k + 1] = g[k + 1]
    BY <1>2, <2>1
  <2> QED BY <2>3, <2>4, <2>5
<1>5. F = [k \in Nat |-> F[k]]
  BY <1>2
<1> QED BY <1>3, <1>4, <1>5 DEF Follows

\* The recursion of Replayed has a solution.
LEMMA ReplayedIs == Follows(Replayed, block.regs, block.steps)
<1> DEFINE Rec(h) == [n \in Nat |-> IF n = 0 THEN block.regs
                                    ELSE AfterWitness(Witness(h[n - 1], block.steps[n]))]
           Solves(h) == h = Rec(h)
<1>1. PICK f : f = [k \in Nat |-> f[k]] /\ Follows(f, block.regs, block.steps)
  BY FollowsExists
<1>2. f = Rec(f)
  <2>1. ASSUME NEW n \in Nat
        PROVE  f[n] = IF n = 0 THEN block.regs
                      ELSE AfterWitness(Witness(f[n - 1], block.steps[n]))
    <3>1. CASE n = 0
      BY <1>1, <3>1 DEF Follows
    <3>2. CASE n # 0
      <4>1. n - 1 \in Nat /\ (n - 1) + 1 = n
        BY <3>2
      <4>2. f[(n - 1) + 1] = AfterWitness(Witness(f[n - 1], block.steps[(n - 1) + 1]))
        BY <1>1, <4>1 DEF Follows
      <4> QED BY <3>2, <4>1, <4>2
    <3> QED BY <3>1, <3>2
  <2> QED BY <1>1, <2>1
<1>3. Replayed = CHOOSE h : Solves(h)
  BY DEF Replayed
<1>4. Solves(Replayed)
  <2>1. \E h : Solves(h)
    BY <1>2
  <2> HIDE DEF Solves
  <2> QED BY <1>3, <2>1
<1>5. PICK g : g = Replayed
  OBVIOUS
<1>6. g = [n \in Nat |-> IF n = 0 THEN block.regs
                         ELSE AfterWitness(Witness(g[n - 1], block.steps[n]))]
  BY <1>4, <1>5
<1>7. g[0] = block.regs
  BY <1>6
<1>8. ASSUME NEW k \in Nat PROVE g[k + 1] = AfterWitness(Witness(g[k], block.steps[k + 1]))
  <2>1. k + 1 \in Nat /\ k + 1 # 0 /\ (k + 1) - 1 = k
    OBVIOUS
  <2> QED BY <1>6, <2>1
<1> QED BY <1>5, <1>7, <1>8 DEF Follows

Alike(s, t, n) == \A k \in 1 .. n : s[k] = t[k]

\* Witnesses that begin alike go on alike, for as long as the steps are the same.
LEMMA FollowsAgree ==
    ASSUME NEW r, NEW s, NEW t, NEW n \in Nat, NEW f, NEW g,
           Follows(f, r, s), Follows(g, r, t), Alike(s, t, n)
    PROVE  f[n] = g[n]
<1> DEFINE S == {k \in Nat : k <= n => f[k] = g[k]}
<1>1. 0 \in S
  BY DEF Follows
<1>2. ASSUME NEW k \in Nat, k \in S PROVE k + 1 \in S
  <2>1. SUFFICES ASSUME k + 1 <= n PROVE f[k + 1] = g[k + 1]
    OBVIOUS
  <2>2. k + 1 \in 1 .. n /\ k <= n
    BY <2>1
  <2>3. f[k] = g[k] /\ s[k + 1] = t[k + 1]
    BY <1>2, <2>2 DEF Alike
  <2> QED BY <2>3 DEF Follows
<1> HIDE DEF S
<1>3. \A k \in Nat : k \in S
  BY <1>1, <1>2, SetInduction
<1> QED BY <1>3 DEF S

\* The witness writes the register that eval_inst writes, or a zero over a zero.
RegisterWritten(i) ==
    /\ i.op \in Opcodes
    /\ WitnessRd(i) \in Nat
    /\ WitnessRd(i) # RD(i) =>
          RD(i) = 0 /\ ResultZ(i) = 0 /\ regs.x[WitnessRd(i)] = 0

LEMMA WrittenIs ==
    ASSUME MachineOK, Fetches, BreaksPlain, NEW i, i = Current
    PROVE  RegisterWritten(i)
<1>1. i.op \in Opcodes /\ i.rd \in Nat
  BY CurrentIs DEF Parsed
<1>2. i.op \in {"EBREAK", "UNIMP"} => regs.x[i.rd] = 0
  BY DEF BreaksPlain, GetReg, MachineOK
<1>3. CASE i.op \in {"EBREAK", "UNIMP"}
  BY <1>1, <1>2, <1>3 DEF RegisterWritten, WitnessRd, RD, ResultZ
<1>4. CASE i.op \notin {"EBREAK", "UNIMP"}
  <2>1. WitnessRd(i) = RD(i) /\ WitnessRd(i) \in Nat
    BY <1>1, <1>4 DEF Opcodes, WitnessRd, RD
  <2> QED BY <1>1, <2>1 DEF RegisterWritten
<1> QED BY <1>3, <1>4

\* The witness of a step, made from the registers of the machine, leads to the
\* registers that eval_inst goes on with.
LEMMA WitnessFollows ==
    ASSUME MachineOK, Fetches, BreaksPlain, NEW after
    PROVE  AfterWitness(Witness(regs, TraceStep(Current, after)))
             = [pc |-> NextPC(Current), x |-> SetReg(RD(Current), ResultZ(Current))]
<1>1. PICK i, z, next, x : i = Current /\ z = ResultZ(i) /\ next = NextPC(i) /\ x = regs.x
  OBVIOUS
<1>2. PICK s : s = TraceStep(i, after)
  OBVIOUS
<1>3. /\ s.inst = i /\ s.Z = z
      /\ s.PC = IF next = Add32(regs.pc, 4) THEN <<>> ELSE <<next>>
  BY <1>1, <1>2 DEF TraceStep
<1>4. PICK w : w = Witness(regs, s)
  OBVIOUS
<1>5. w.regs = regs /\ w.rd = WitnessRd(i) /\ w.Z = z /\ w.PC = next
  <2>1. w.regs = regs /\ w.rd = WitnessRd(i) /\ w.Z = z
        /\ w.PC = IF s.PC = <<>> THEN Add32(regs.pc, 4) ELSE s.PC[1]
    BY <1>3, <1>4 DEF Witness
  <2>2. CASE next = Add32(regs.pc, 4)
    BY <1>3, <2>1, <2>2
  <2>3. CASE next # Add32(regs.pc, 4)
    <3>1. s.PC = <<next>>
      BY <1>3, <2>3
    <3>2. s.PC # <<>> /\ s.PC[1] = next
      BY <3>1
    <3> QED BY <2>1, <3>2
  <2> QED BY <2>1, <2>2, <2>3
<1>6. RegisterWritten(i)
  BY <1>1, WrittenIs
<1>7. AfterWitness(w) = [pc |-> next, x |-> SetReg(RD(i), z)]
  <2>1. AfterWitness(w) = [pc |-> w.PC, x |-> IF w.rd > 0 THEN [w.regs.x EXCEPT ![w.rd] = w.Z]
                                              ELSE w.regs.x]
    BY DEF AfterWitness
  <2>2. CASE WitnessRd(i) = RD(i) /\ RD(i) = 0
    BY <1>5, <2>1, <2>2 DEF SetReg
  <2>3. CASE WitnessRd(i) = RD(i) /\ RD(i) # 0
    <3>1. w.rd > 0
      BY <1>5, <1>6, <2>3 DEF RegisterWritten
    <3>2. AfterWitness(w) = [pc |-> w.PC, x |-> [w.regs.x EXCEPT ![w.rd] = w.Z]]
      BY <2>1, <3>1
    <3>3. SetReg(RD(i), z) = [regs.x EXCEPT ![RD(i)] = z]
      BY <2>3 DEF SetReg
    <3> QED BY <1>5, <2>3, <3>2, <3>3
  <2>4. CASE WitnessRd(i) # RD(i)
    <3>1. RD(i) = 0 /\ z = 0 /\ x[w.rd] = 0
      BY <1>1, <1>5, <1>6, <2>4 DEF RegisterWritten
    <3>2. [x EXCEPT ![w.rd] = 0] = x
      BY <1>1, <3>1 DEF MachineOK
    <3>3. AfterWitness(w) = [pc |-> next, x |-> x]
      BY <1>1, <1>5, <2>1, <3>1, <3>2
    <3>4. SetReg(RD(i), z) = x
      BY <1>1, <3>1 DEF SetReg
    <3> QED BY <3>3, <3>4
  <2> QED BY <2>2, <2>3, <2>4
<1> QED BY <1>1, <1>2, <1>4, <1>7

LEMMA EvalReplay ==
    ASSUME MachineOK, BlockOK, ReplayFollowsVm, EvalInst, BreaksPlain
    PROVE  ReplayFollowsVm'
<1>1. Fetches
  BY DEF EvalInst
<1>2. PICK e : e = TraceStep(Current, mem')
  OBVIOUS
<1>3. regs' = AfterWitness(Witness(regs, e))
  <2>1. regs' = [pc |-> NextPC(Current), x |-> SetReg(RD(Current), ResultZ(Current))]
    BY DEF EvalInst
  <2> QED BY <1>1, <1>2, <2>1, WitnessFollows
<1> PICK n \in Nat : n = Len(block.steps)
  BY DEF BlockOK, IsSeq
<1>4. PICK s, t, r :
        /\ s = block.steps /\ t = block'.steps /\ n = Len(s) /\ r = block.regs /\ r = block'.regs
        /\ Len(t) = n + 1 /\ t[n + 1] = e /\ \A k \in 1 .. n : s[k] = t[k]
  <2>1. PICK s, t : s = block.steps /\ t = block'.steps /\ IsSeq(s) /\ Appends(t, s, e)
    BY <1>2, EvalBlock DEF BlockOK, Appends
  <2>2. /\ Len(s) \in Nat /\ Len(t) = Len(s) + 1
        /\ t[Len(s) + 1] = e /\ \A k \in 1 .. Len(s) : t[k] = s[k]
    BY <2>1, AppendStep
  <2>3. block'.regs = block.regs
    BY EvalBlock
  <2> QED BY <2>1, <2>2, <2>3
<1>5. PICK f, g : f = Replayed /\ g = Replayed' /\ Follows(f, r, s) /\ Follows(g, r, t)
  <2>1. Follows(Replayed, block.regs, block.steps)'
    BY ReplayedIs, PTL
  <2> QED BY <1>4, <2>1, ReplayedIs
<1>6. f[n] = regs
  BY <1>4, <1>5 DEF ReplayFollowsVm
<1>7. f[n] = g[n]
  <2>1. Alike(s, t, n)
    BY <1>4 DEF Alike
  <2> QED BY <1>5, <2>1, FollowsAgree
<1>8. g[n + 1] = AfterWitness(Witness(g[n], t[n + 1]))
  BY <1>5 DEF Follows
<1>9. g[Len(t)] = regs'
  BY <1>3, <1>4, <1>6, <1>7, <1>8
<1> QED BY <1>4, <1>5, <1>9 DEF ReplayFollowsVm

\* A block that begins has the registers of the machine.
LEMMA FreshReplay ==
    ASSUME block = NewBlock
    PROVE  ReplayFollowsVm
<1>1. block.regs = regs /\ block.steps = <<>>
  BY DEF NewBlock
<1>2. Len(block.steps) = 0
  BY <1>1
<1>3. Replayed[0] = block.regs
  BY ReplayedIs DEF Follows
<1> QED BY <1>1, <1>2, <1>3 DEF ReplayFollowsVm

\* The registers that the iterator reconstructs from a block are the machine's,
\* in every execution and whatever the program, as long as no ebreak and no
\* unimp names a register that is not zero.
THEOREM ReplayCorrect == Spec /\ []BreaksPlain => []ReplayFollowsVm
<1>1. Init => ReplayFollowsVm
  BY FreshReplay DEF Init
<1>2. MachineOK /\ BlockOK /\ ReplayFollowsVm /\ BreaksPlain /\ [Next]_vars => ReplayFollowsVm'
  <2>1. SUFFICES ASSUME MachineOK, BlockOK, ReplayFollowsVm, BreaksPlain, [Next]_vars
                 PROVE  ReplayFollowsVm'
    OBVIOUS
  <2>2. CASE EvalInst
    BY <2>1, <2>2, EvalReplay
  <2>3. CASE EvalFails \/ UNCHANGED vars \/ (EndBlock /\ block' = block)
    <3>1. block' = block /\ regs' = regs
      BY <2>3 DEF EvalFails, EndBlock, vars
    <3> QED BY <2>1, <3>1 DEF ReplayFollowsVm, Replayed
  <2>4. CASE EndBlock /\ block' # block
    <3>1. block' = NewBlock /\ regs' = regs /\ mem' = mem
      BY <2>4 DEF EndBlock
    <3>2. (block = NewBlock)'
      BY <3>1 DEF NewBlock
    <3>3. (block = NewBlock)' => ReplayFollowsVm'
      BY FreshReplay, PTL
    <3> QED BY <3>2, <3>3
  <2> QED BY <2>1, <2>2, <2>3, <2>4 DEF Next
<1> QED BY <1>1, <1>2, VmTypes, PTL DEF Spec

-----------------------------------------------------------------------------
(* The profile of a function that was called once.                          *)

Marked(cs, n, mark) == {k \in 1 .. n : cs[k].mark = mark}

LEMMA MarkedIs ==
    ASSUME NEW cs, NEW n \in Nat, NEW mark
    PROVE  IsFiniteSet(Marked(cs, n, mark)) /\ Cardinality(Marked(cs, n, mark)) \in 0 .. n
<1>1. IsFiniteSet(1 .. n) /\ Cardinality(1 .. n) = n
  BY FS_Interval
<1>2. Marked(cs, n, mark) \subseteq 1 .. n
  BY DEF Marked
<1>3. /\ IsFiniteSet(Marked(cs, n, mark))
      /\ Cardinality(Marked(cs, n, mark)) <= Cardinality(1 .. n)
  BY <1>1, <1>2, FS_Subset
<1>4. Cardinality(Marked(cs, n, mark)) \in Nat
  BY <1>3, FS_CardinalityType
<1> QED BY <1>1, <1>3, <1>4

LEMMA MarkedNext ==
    ASSUME NEW cs, NEW n \in Nat, NEW mark
    PROVE  Cardinality(Marked(cs, n + 1, mark))
             = Cardinality(Marked(cs, n, mark)) + (IF cs[n + 1].mark = mark THEN 1 ELSE 0)
<1>1. PICK m \in Nat : m = n + 1
  OBVIOUS
<1>2. 1 .. m = 1 .. n \cup {m} /\ m \notin 1 .. n
  BY <1>1
<1>3. CASE cs[m].mark = mark
  <2>1. Marked(cs, m, mark) = Marked(cs, n, mark) \cup {m} /\ m \notin Marked(cs, n, mark)
    BY <1>2, <1>3 DEF Marked
  <2>2. Cardinality(Marked(cs, n, mark) \cup {m}) = Cardinality(Marked(cs, n, mark)) + 1
    BY <2>1, MarkedIs, FS_AddElement
  <2> QED BY <1>1, <1>3, <2>1, <2>2
<1>4. CASE cs[m].mark # mark
  <2>1. Marked(cs, m, mark) = Marked(cs, n, mark)
    BY <1>2, <1>4 DEF Marked
  <2>2. Cardinality(Marked(cs, n, mark)) \in Nat
    BY MarkedIs
  <2> QED BY <1>1, <1>4, <2>1, <2>2
<1> QED BY <1>3, <1>4

LEMMA DepthIs ==
    ASSUME NEW cs, NEW n \in Nat
    PROVE  /\ Depth(cs, n) \in -n .. n
           /\ cs[n + 1].mark = "^" => Depth(cs, n + 1) = Depth(cs, n) + 1
           /\ cs[n + 1].mark = "$" => Depth(cs, n + 1) = Depth(cs, n) - 1
<1>1. \A m : Depth(cs, m) = Cardinality(Marked(cs, m, "^")) - Cardinality(Marked(cs, m, "$"))
  BY DEF Depth, Marked
<1>2. PICK a \in 0 .. n, b \in 0 .. n :
        a = Cardinality(Marked(cs, n, "^")) /\ b = Cardinality(Marked(cs, n, "$"))
  BY MarkedIs
<1>3. Cardinality(Marked(cs, n + 1, "^")) = a + (IF cs[n + 1].mark = "^" THEN 1 ELSE 0)
  BY <1>2, MarkedNext
<1>4. Cardinality(Marked(cs, n + 1, "$")) = b + (IF cs[n + 1].mark = "$" THEN 1 ELSE 0)
  BY <1>2, MarkedNext
<1>5. Depth(cs, n) = a - b
  BY <1>1, <1>2
<1> QED BY <1>1, <1>2, <1>3, <1>4, <1>5

LEMMA DepthSame ==
    ASSUME NEW s, NEW t, NEW n \in Nat, Alike(s, t, n)
    PROVE  \A m \in 0 .. n : Depth(s, m) = Depth(t, m)
<1> SUFFICES ASSUME NEW m \in 0 .. n PROVE Depth(s, m) = Depth(t, m)
  OBVIOUS
<1>1. \A k \in 1 .. m : s[k] = t[k]
  BY DEF Alike
<1>2. \A mark : Marked(s, m, mark) = Marked(t, m, mark)
  BY <1>1 DEF Marked
<1>3. /\ Depth(s, m) = Cardinality(Marked(s, m, "^")) - Cardinality(Marked(s, m, "$"))
      /\ Depth(t, m) = Cardinality(Marked(t, m, "^")) - Cardinality(Marked(t, m, "$"))
  BY DEF Depth, Marked
<1> QED BY <1>2, <1>3

LEMMA DepthZero == \A cs : Depth(cs, 0) = 0
<1>1. ASSUME NEW cs PROVE Depth(cs, 0) = 0
  <2>1. Depth(cs, 0) \in -0 .. 0
    BY DepthIs
  <2> QED BY <2>1
<1> QED BY <1>1

\* The calls of a function and its entry t in the tracker, now: no call and no
\* clock is ahead of now, and while the function was called once, the counter
\* is its depth and the clock that of its start, or the time between start and
\* end.
CallsOK(cs, t, now, len) ==
    /\ IsSeq(cs) /\ Len(cs) \in 1 .. len
    /\ \A k \in 1 .. Len(cs) : cs[k].mark \in {"^", "$"} /\ cs[k].at \in 0 .. now
    /\ cs[1].mark = "^"
    /\ t = [clk |-> t.clk, counter |-> t.counter]
    /\ t.clk \in 0 .. now
    /\ OneCall(cs) =>
         /\ t.counter = Depth(cs, Len(cs))
         /\ t.counter \in 0 .. Len(cs)
         /\ t.clk = IF t.counter = 0 THEN cs[Len(cs)].at - cs[1].at ELSE cs[1].at

LEMMA CallsKeep ==
    ASSUME NEW cs, NEW t, NEW now \in Nat, NEW len \in Nat, CallsOK(cs, t, now, len),
           NEW then \in Nat, now <= then, NEW size \in Nat, len <= size
    PROVE  CallsOK(cs, t, then, size)
BY DEF CallsOK

LEMMA FirstCall ==
    ASSUME NEW now \in Nat
    PROVE  CallsOK(Append(<<>>, [at |-> now, mark |-> "^"]), [clk |-> now, counter |-> 1], now, 1)
<1>1. PICK s, c, cs : s = <<>> /\ c = [at |-> now, mark |-> "^"] /\ cs = Append(s, c)
  OBVIOUS
<1>2. IsSeq(s) /\ Len(s) = 0
  BY <1>1, EmptyIsSeq
<1>3. IsSeq(cs) /\ Len(cs) = 1 /\ cs[1] = c
  <2>1. Appends(cs, s, c) /\ IsSeq(s)
    BY <1>1, <1>2 DEF Appends
  <2>2. /\ IsSeq(cs) /\ Len(s) \in Nat /\ Len(cs) = Len(s) + 1
        /\ cs[Len(s) + 1] = c /\ \A k \in 1 .. Len(s) : cs[k] = s[k]
    BY <2>1, AppendStep
  <2>3. 0 + 1 = 1
    OBVIOUS
  <2> QED BY <1>2, <2>2, <2>3
<1>4. c.at = now /\ c.mark = "^"
  BY <1>1
<1>5. Depth(cs, 1) = 1
  <2>1. Depth(cs, 0 + 1) = Depth(cs, 0) + 1
    BY <1>3, <1>4, DepthIs
  <2> QED BY <2>1, DepthZero
<1>6. PICK t : t = [clk |-> now, counter |-> 1]
  OBVIOUS
<1>7. t.clk = now /\ t.counter = 1
  BY <1>6
<1>8. CallsOK(cs, t, now, 1)
  BY <1>3, <1>4, <1>5, <1>6, <1>7 DEF CallsOK
<1> QED BY <1>1, <1>6, <1>8

LEMMA NextCall ==
    ASSUME NEW cs, NEW t, NEW now \in Nat, NEW len \in Nat, CallsOK(cs, t, now, len),
           len + 1 < Words, NEW mark \in {"^", "$"}, NEW u,
           mark = "^" => u = [clk |-> t.clk, counter |-> (t.counter + 1) % Words],
           mark = "$" => \E counter :
               /\ counter = (t.counter - 1) % Words
               /\ u = [clk |-> IF counter = 0 THEN now - t.clk ELSE t.clk, counter |-> counter]
    PROVE  CallsOK(Append(cs, [at |-> now, mark |-> mark]), u, now, len + 1)
<1>1. PICK c, ds : c = [at |-> now, mark |-> mark] /\ ds = Append(cs, c)
  OBVIOUS
<1>2. PICK n \in Nat : n = Len(cs) /\ n \in 1 .. len /\ IsSeq(cs)
  BY DEF CallsOK
<1>3. /\ IsSeq(ds) /\ Len(ds) = n + 1
      /\ ds[n + 1] = c /\ \A k \in 1 .. n : ds[k] = cs[k]
  <2>1. Appends(ds, cs, c) /\ IsSeq(cs)
    BY <1>1, <1>2 DEF Appends
  <2>2. IsSeq(ds) /\ Len(ds) = Len(cs) + 1
        /\ ds[Len(cs) + 1] = c /\ \A k \in 1 .. Len(cs) : ds[k] = cs[k]
    BY <2>1, AppendStep
  <2> QED BY <1>2, <2>2
<1>4. c.at = now /\ c.mark = mark
  BY <1>1
<1>5. \A k \in 1 .. Len(ds) : ds[k].mark \in {"^", "$"} /\ ds[k].at \in 0 .. now
  BY <1>2, <1>3, <1>4 DEF CallsOK
<1>6. ds[1] = cs[1] /\ cs[1].mark = "^" /\ cs[1].at \in 0 .. now
  BY <1>2, <1>3 DEF CallsOK
<1>7. PICK clk \in 0 .. now : clk = t.clk
  BY DEF CallsOK
<1>8. u = [clk |-> u.clk, counter |-> u.counter] /\ u.clk \in 0 .. now
  BY <1>7
<1>9. ASSUME OneCall(ds)
      PROVE  /\ u.counter = Depth(ds, n + 1)
             /\ u.counter \in 0 .. n + 1
             /\ u.clk = IF u.counter = 0 THEN now - cs[1].at ELSE cs[1].at
  <2>1. \A m \in 0 .. n : Depth(ds, m) = Depth(cs, m)
    BY <1>3, DepthSame DEF Alike
  <2>2. \A m \in 1 .. n : Depth(cs, m) > 0
    <3>1. \A m \in 1 .. n : Depth(ds, m) > 0
      BY <1>3, <1>9 DEF OneCall
    <3> QED BY <2>1, <3>1
  <2>3. OneCall(cs)
    BY <1>2, <2>2 DEF OneCall
  <2>4. PICK depth \in 0 .. n : depth = Depth(cs, n) /\ depth > 0 /\ t.counter = depth
    BY <1>2, <2>2, <2>3 DEF CallsOK
  <2>5. clk = cs[1].at
    BY <1>2, <1>7, <2>3, <2>4 DEF CallsOK
  <2>6. PICK words \in Nat : words = Words /\ depth + 1 < words
    <3>1. PICK words \in Nat : words = Words
      BY Widths
    <3>2. len + 1 < words
      BY <3>1
    <3> QED BY <1>2, <3>1, <3>2
  <2>7. CASE mark = "^"
    <3>1. (depth + 1) % words = depth + 1
      BY <2>6
    <3>2. u.clk = clk /\ u.counter = depth + 1
      BY <1>7, <2>4, <2>6, <2>7, <3>1
    <3>3. Depth(ds, n + 1) = depth + 1
      BY <1>3, <1>4, <2>1, <2>4, <2>7, DepthIs
    <3> QED BY <2>5, <3>2, <3>3
  <2>8. CASE mark = "$"
    <3>1. (depth - 1) % words = depth - 1
      BY <2>4, <2>6
    <3>2. u.counter = depth - 1 /\ u.clk = IF depth - 1 = 0 THEN now - clk ELSE clk
      BY <1>7, <2>4, <2>6, <2>8, <3>1
    <3>3. Depth(ds, n + 1) = depth - 1
      <4>1. Depth(ds, n) = depth /\ ds[n + 1].mark = "$"
        BY <1>3, <1>4, <2>1, <2>4, <2>8
      <4> QED BY <4>1, DepthIs
    <3> QED BY <2>4, <2>5, <3>2, <3>3
  <2> QED BY <2>7, <2>8
<1>10. CallsOK(ds, u, now, len + 1)
  BY <1>2, <1>3, <1>4, <1>5, <1>6, <1>8, <1>9 DEF CallsOK
<1> QED BY <1>1, <1>10

\* Every function that the tracker knows has calls that explain its entry.
ProfileOK ==
    /\ cycleCount \in Nat
    /\ DOMAIN calls = DOMAIN cycleTracker
    /\ \A f \in DOMAIN calls : CallsOK(calls[f], cycleTracker[f], cycleCount, traceLen)

LEMMA ProfileIs ==
    ASSUME ProfileOK
    PROVE  ProfileIsElapsed
<1>1. SUFFICES ASSUME NEW f \in DOMAIN cycleTracker, NEW cs, NEW t,
                      cs = calls[f], t = cycleTracker[f]
               PROVE  /\ t.clk <= cycleCount
                      /\ OneCall(cs) =>
                           t = [clk |-> IF Depth(cs, Len(cs)) = 0 THEN Last(cs).at - cs[1].at
                                        ELSE cs[1].at,
                                counter |-> Depth(cs, Len(cs))]
  BY DEF ProfileIsElapsed
<1>2. CallsOK(cs, t, cycleCount, traceLen) /\ cycleCount \in Nat
  BY <1>1 DEF ProfileOK
<1>3. t.clk <= cycleCount
  BY <1>2 DEF CallsOK
<1>4. ASSUME OneCall(cs)
      PROVE  t = [clk |-> IF Depth(cs, Len(cs)) = 0 THEN Last(cs).at - cs[1].at ELSE cs[1].at,
                  counter |-> Depth(cs, Len(cs))]
  <2>1. PICK depth, last, clk : /\ depth = Depth(cs, Len(cs)) /\ last = Last(cs)
                                /\ clk = t.clk
    OBVIOUS
  <2>2. last = cs[Len(cs)]
    BY <2>1 DEF Last
  <2>3. t.counter = depth /\ clk = IF depth = 0 THEN last.at - cs[1].at ELSE cs[1].at
    BY <1>2, <1>4, <2>1, <2>2 DEF CallsOK
  <2>4. t = [clk |-> t.clk, counter |-> t.counter]
    BY <1>2 DEF CallsOK
  <2> QED BY <2>1, <2>3, <2>4
<1> QED BY <1>3, <1>4

\* What a profiling call of f at now does to the tracker, to the entry of f and
\* to those of the others.
Profiles(new, tracker, f, mark, now) ==
    /\ DOMAIN new = DOMAIN tracker \cup {f}
    /\ \A g \in DOMAIN tracker \ {f} : new[g] = tracker[g]
    /\ f \notin DOMAIN tracker =>
         /\ mark = "^"
         /\ new[f] = [clk |-> now, counter |-> 1]
    /\ f \in DOMAIN tracker =>
         /\ mark = "^" => new[f] = [clk |-> tracker[f].clk,
                                    counter |-> (tracker[f].counter + 1) % Words]
         /\ mark = "$" => \E counter :
              /\ counter = (tracker[f].counter - 1) % Words
              /\ new[f] = [clk |-> IF counter = 0 THEN now - tracker[f].clk ELSE tracker[f].clk,
                           counter |-> counter]

LEMMA ProfileEntry ==
    ASSUME ProfileOK, CanProfile, Label.mark \in {"^", "$"}
    PROVE  Profiles(Profile, cycleTracker, Label.fn, Label.mark, cycleCount)
<1> DEFINE new == Profile
           tracker == cycleTracker
           f == Label.fn
<1>1. Label.mark = "$" => f \in DOMAIN tracker
  BY DEF CanProfile
<1>2. CASE Label.mark = "^"
  <2>1. PICK entry : entry = IF f \in DOMAIN tracker THEN tracker[f]
                             ELSE [clk |-> cycleCount, counter |-> 0]
    OBVIOUS
  <2>2. new = [g \in DOMAIN tracker \cup {f} |->
                  IF g = f THEN [entry EXCEPT !.counter = (@ + 1) % Words] ELSE tracker[g]]
    BY <1>2, <2>1 DEF Profile, StartProfile
  <2>3. new[f] = [entry EXCEPT !.counter = (@ + 1) % Words]
    BY <2>2
  <2>4. CASE f \in DOMAIN tracker
    <3>1. entry = [clk |-> entry.clk, counter |-> entry.counter] /\ entry = tracker[f]
      BY <2>1, <2>4 DEF ProfileOK, CallsOK
    <3>2. new[f] = [clk |-> entry.clk, counter |-> (entry.counter + 1) % Words]
      BY <2>3, <3>1
    <3> QED BY <1>2, <2>2, <2>4, <3>1, <3>2 DEF Profiles
  <2>5. CASE f \notin DOMAIN tracker
    <3>1. entry = [clk |-> cycleCount, counter |-> 0]
      BY <2>1, <2>5
    <3>2. 1 % Words = 1
      <4>1. PICK words \in Nat : words = Words /\ 1 < words
        BY Widths
      <4> QED BY <4>1
    <3>3. new[f] = [clk |-> cycleCount, counter |-> 1]
      BY <2>3, <3>1, <3>2
    <3> QED BY <1>2, <2>2, <2>5, <3>3 DEF Profiles
  <2> QED BY <2>4, <2>5
<1>3. CASE Label.mark = "$"
  <2>1. PICK counter, entry : counter = (tracker[f].counter - 1) % Words /\ entry = tracker[f]
    OBVIOUS
  <2>2. new = [tracker EXCEPT ![f] =
                  [clk |-> IF counter = 0 THEN cycleCount - @.clk ELSE @.clk, counter |-> counter]]
    BY <1>3, <2>1 DEF Profile, EndProfile
  <2>3. f \in DOMAIN tracker
    BY <1>1, <1>3
  <2>4. new[f] = [clk |-> IF counter = 0 THEN cycleCount - entry.clk ELSE entry.clk,
                  counter |-> counter]
    BY <2>1, <2>2, <2>3
  <2>5. DOMAIN new = DOMAIN tracker /\ \A g \in DOMAIN tracker \ {f} : new[g] = tracker[g]
    BY <2>2
  <2> QED BY <1>3, <2>1, <2>3, <2>4, <2>5 DEF Profiles
<1> QED BY <1>2, <1>3

LEMMA CyclesType == \A i : Cycles(i) \in Nat
BY DEF Cycles

\* And to the history.
Logs(new, log, f, mark, now) ==
    /\ DOMAIN new = DOMAIN log \cup {f}
    /\ \A g \in DOMAIN log \ {f} : new[g] = log[g]
    /\ new[f] = Append(IF f \in DOMAIN log THEN log[f] ELSE <<>>, [at |-> now, mark |-> mark])

LEMMA LogCallIs == Logs(LogCall, calls, Label.fn, Label.mark, cycleCount)
<1>1. PICK call, f, log : /\ call = [at |-> cycleCount, mark |-> Label.mark]
                          /\ f = Label.fn
                          /\ log = calls
  OBVIOUS
<1>2. PICK new : new = LogCall
  OBVIOUS
<1>3. new = [g \in DOMAIN log \cup {f} |->
                LET before == IF g \in DOMAIN log THEN log[g] ELSE <<>>
                IN  IF g = f THEN Append(before, call) ELSE before]
  BY <1>1, <1>2 DEF LogCall
<1>4. new[f] = Append(IF f \in DOMAIN log THEN log[f] ELSE <<>>, call)
  BY <1>3
<1>5. \A g \in DOMAIN log \ {f} : new[g] = log[g]
  BY <1>3
<1>6. DOMAIN new = DOMAIN log \cup {f}
  BY <1>3
<1> QED BY <1>1, <1>2, <1>4, <1>5, <1>6 DEF Logs

LEMMA EvalProfile ==
    ASSUME MachineOK, BlockOK, ProfileOK, EvalInst, MaxTraceLen < Words
    PROVE  ProfileOK'
<1>1. PICK now \in Nat, len \in Nat, next \in Nat :
        /\ now = cycleCount /\ len = traceLen /\ next = cycleCount'
        /\ now <= next /\ traceLen' = len + 1 /\ len + 1 < Words
  <2>1. PICK words \in Nat : words = Words
    BY Widths
  <2>2. traceLen \in Nat /\ traceLen < MaxTraceLen /\ MaxTraceLen \in Nat
    BY TraceAssumption DEF BlockOK, EvalInst, LimitReached
  <2>3. PICK d \in Nat : d = Cycles(Current)
    BY CyclesType
  <2>4. cycleCount' = cycleCount + d /\ traceLen' = traceLen + 1
    BY <2>3 DEF EvalInst
  <2>5. cycleCount \in Nat
    BY DEF ProfileOK
  <2> QED BY <2>1, <2>2, <2>4, <2>5
<1>2. PICK log, new : log = calls /\ new = calls'
  OBVIOUS
<1>3. PICK t, u : t = cycleTracker /\ u = cycleTracker'
  OBVIOUS
<1>4. DOMAIN log = DOMAIN t /\ \A f \in DOMAIN log : CallsOK(log[f], t[f], now, len)
  BY <1>1, <1>2, <1>3 DEF ProfileOK
<1>5. \A f \in DOMAIN log : CallsOK(log[f], t[f], next, len + 1)
  BY <1>1, <1>4, CallsKeep
<1>6. CASE ~(Current.op = "ECALL" /\ SyscallCode = 5)
  <2>1. new = log /\ u = t
    BY <1>2, <1>3, <1>6 DEF EvalInst
  <2> QED BY <1>1, <1>2, <1>3, <1>4, <1>5, <2>1 DEF ProfileOK
<1>7. CASE Current.op = "ECALL" /\ SyscallCode = 5
  <2>1. CanProfile /\ new = LogCall /\ u = Profile
    BY <1>2, <1>3, <1>7 DEF EvalInst, Fails
  <2>2. PICK f, mark : f = Label.fn /\ mark = Label.mark /\ mark \in {"^", "$"}
    BY <2>1, LabelAssumption DEF CanProfile, Label
  <2>3. PICK call : call = [at |-> now, mark |-> mark]
    OBVIOUS
  <2>4. /\ DOMAIN new = DOMAIN log \cup {f}
        /\ \A g \in DOMAIN log \ {f} : new[g] = log[g]
        /\ new[f] = Append(IF f \in DOMAIN log THEN log[f] ELSE <<>>, call)
    <3>1. Logs(new, log, f, mark, now)
      BY <1>1, <1>2, <2>1, <2>2, LogCallIs
    <3> QED BY <2>3, <3>1 DEF Logs
  <2>5. Profiles(u, t, f, mark, now)
    <3>1. Profiles(Profile, cycleTracker, Label.fn, Label.mark, cycleCount)
      BY <2>1, <2>2, ProfileEntry
    <3> QED BY <1>1, <1>3, <2>1, <2>2, <3>1
  <2>6. CallsOK(new[f], u[f], next, len + 1)
    <3>1. CASE f \in DOMAIN t
      <4>1. PICK cs, e, v : cs = log[f] /\ e = t[f] /\ v = u[f] /\ CallsOK(cs, e, now, len)
        BY <1>4, <3>1
      <4>2. new[f] = Append(cs, call)
        BY <1>4, <2>4, <3>1, <4>1
      <4>3. /\ mark = "^" => v = [clk |-> e.clk, counter |-> (e.counter + 1) % Words]
            /\ mark = "$" => \E counter :
                 /\ counter = (e.counter - 1) % Words
                 /\ v = [clk |-> IF counter = 0 THEN now - e.clk ELSE e.clk,
                         counter |-> counter]
        BY <2>5, <3>1, <4>1 DEF Profiles
      <4>4. CallsOK(Append(cs, [at |-> now, mark |-> mark]), v, now, len + 1)
        BY <1>1, <2>2, <4>1, <4>3, NextCall, ZenonT(60)
      <4>5. CallsOK(new[f], u[f], now, len + 1)
        BY <2>3, <4>1, <4>2, <4>4
      <4> QED BY <1>1, <4>5, CallsKeep
    <3>2. CASE f \notin DOMAIN t
      <4>1. mark = "^" /\ u[f] = [clk |-> now, counter |-> 1]
        BY <2>5, <3>2 DEF Profiles
      <4>2. new[f] = Append(<<>>, [at |-> now, mark |-> "^"])
        BY <1>4, <2>3, <2>4, <3>2, <4>1
      <4>3. CallsOK(new[f], u[f], now, 1)
        BY <4>1, <4>2, FirstCall
      <4> QED BY <1>1, <4>3, CallsKeep
    <3> QED BY <3>1, <3>2
  <2>7. ASSUME NEW g \in DOMAIN new PROVE CallsOK(new[g], u[g], next, len + 1)
    BY <1>4, <1>5, <2>4, <2>5, <2>6 DEF Profiles
  <2> QED BY <1>1, <1>2, <1>3, <1>4, <2>4, <2>5, <2>7 DEF ProfileOK, Profiles
<1> QED BY <1>6, <1>7

\* As long as the counter of a function cannot wrap, the profile of a function
\* that was called once shows the cycles from its start to its end.
THEOREM ProfileCorrect ==
    ASSUME MaxTraceLen < Words
    PROVE  Spec => []ProfileIsElapsed
<1>1. Init => ProfileOK
  <2>1. SUFFICES ASSUME Init PROVE ProfileOK
    OBVIOUS
  <2>2. cycleCount = 0 /\ calls = cycleTracker /\ calls = <<>>
    BY <2>1 DEF Init
  <2>3. DOMAIN calls = {}
    BY <2>2
  <2> QED BY <2>2, <2>3 DEF ProfileOK
<1>2. MachineOK /\ BlockOK /\ ProfileOK /\ [Next]_vars => ProfileOK'
  <2>1. SUFFICES ASSUME MachineOK, BlockOK, ProfileOK, [Next]_vars
                 PROVE  ProfileOK'
    OBVIOUS
  <2>2. CASE EvalInst
    BY <2>1, <2>2, EvalProfile
  <2>3. CASE EvalFails \/ EndBlock \/ UNCHANGED vars
    <3>1. UNCHANGED <<calls, cycleTracker, cycleCount, traceLen>>
      BY <2>3 DEF EvalFails, EndBlock, vars
    <3> QED BY <2>1, <3>1 DEF ProfileOK
  <2> QED BY <2>1, <2>2, <2>3 DEF Next
<1>3. ProfileOK => ProfileIsElapsed
  BY ProfileIs
<1> QED BY <1>1, <1>2, <1>3, VmTypes, PTL DEF Spec

-----------------------------------------------------------------------------
(* Numbers and their bits.                                                  *)

\* What is written as a multiple and a remainder is divided so.
LEMMA DivisionIs ==
    ASSUME NEW m \in Int, NEW d \in Nat \ {0}, NEW q \in Int, NEW r \in 0 .. d - 1, m = d * q + r
    PROVE  m \div d = q /\ m % d = r
<1>1. PICK p \in Int : p = m \div d
  OBVIOUS
<1>2. PICK s \in 0 .. d - 1 : s = m % d
  OBVIOUS
<1>3. m = d * p + s
  BY <1>1, <1>2
<1>4. p = q
  <2>1. ASSUME NEW a \in Int, NEW b \in Int, NEW t \in 0 .. d - 1, NEW u \in 0 .. d - 1,
               d * a + t = d * b + u, a > b
        PROVE  FALSE
    <3>1. d * (b + 1) <= d * a
      BY <2>1
    <3>2. d * (b + 1) = d * b + d
      OBVIOUS
    <3>3. d * a \in Int /\ d * b \in Int
      OBVIOUS
    <3> QED BY <2>1, <3>1, <3>2, <3>3
  <2>2. ~(p > q)
    BY <1>3, <2>1
  <2>3. ~(q > p)
    BY <1>3, <2>1
  <2> QED BY <2>2, <2>3
<1>5. s = r
  BY <1>3, <1>4
<1> QED BY <1>1, <1>2, <1>4, <1>5

\* Every integer is a multiple and a remainder.
LEMMA DivisionOf ==
    ASSUME NEW m \in Int, NEW d \in Nat \ {0}
    PROVE  \E q \in Int, r \in 0 .. d - 1 : m = d * q + r /\ q = m \div d /\ r = m % d
<1>1. PICK p \in Int : p = m \div d
  OBVIOUS
<1>2. PICK s \in 0 .. d - 1 : s = m % d
  OBVIOUS
<1>3. m = d * p + s
  BY <1>1, <1>2
<1> QED BY <1>1, <1>2, <1>3

\* A product, and a number divided at once and in two steps.
IsProduct(e, c, d) == e = c * d
ByBoth(m, e, c, d) ==
    /\ m \div e = (m \div c) \div d
    /\ m % e = (m % c) + c * ((m \div c) % d)

\* Dividing twice is dividing by the product.
LEMMA DivTwice ==
    ASSUME NEW m \in Int, NEW c \in Nat \ {0}, NEW d \in Nat \ {0}, NEW e \in Nat \ {0},
           IsProduct(e, c, d)
    PROVE  ByBoth(m, e, c, d)
<1>1. PICK q \in Int, r \in 0 .. c - 1 : m = c * q + r /\ q = m \div c /\ r = m % c
  BY DivisionOf
<1>2. PICK p \in Int, s \in 0 .. d - 1 : q = d * p + s /\ p = q \div d /\ s = q % d
  BY DivisionOf
<1>3. m = e * p + (r + c * s)
  <2>1. PICK u \in Int, v \in Int : u = d * p /\ v = c * s
    BY <1>2
  <2>2. c * (u + s) = c * u + v
    BY <2>1
  <2>3. c * q = c * u + v
    BY <1>2, <2>1, <2>2
  <2>4. c * u = e * p
    <3>1. c * (d * p) = (c * d) * p
      <4>1. p \in Int
        BY <1>2
      <4> QED BY <4>1
    <3>2. e = c * d
      BY DEF IsProduct
    <3> QED BY <2>1, <3>1, <3>2, Zenon
  <2>5. PICK a \in Int, b \in Int, k \in Int : a = e * p /\ b = c * s /\ k = r
    <3>1. p \in Int /\ s \in Int /\ r \in Int
      BY <1>1, <1>2
    <3> QED BY <3>1
  <2>6. c * q = a + b
    BY <2>1, <2>3, <2>4, <2>5, Zenon
  <2>7. m = (a + b) + k
    BY <1>1, <2>5, <2>6, Zenon
  <2>8. m = a + (k + b)
    BY <2>7
  <2> QED BY <2>5, <2>8, Zenon
<1>4. r + c * s \in 0 .. e - 1
  <2>1. e = c * d
    BY DEF IsProduct
  <2>2. r + c * s \in 0 .. c * d - 1
    BY <1>1, <1>2, WithByte
  <2> QED BY <2>1, <2>2
<1>5. PICK t \in 0 .. e - 1 : t = r + c * s /\ m = e * p + t
  BY <1>3, <1>4
<1>6. m = e * p + t /\ p \in Int
  BY <1>2, <1>5
<1>7. m \div e = p /\ m % e = t
  BY <1>6, DivisionIs
<1> QED BY <1>1, <1>2, <1>5, <1>7, Zenon DEF ByBoth

\* The lowest bits of a number, one more at a time.
LEMMA NextBit ==
    ASSUME NEW m \in Int, NEW n \in Nat
    PROVE  /\ TwoTo[n] \in Nat \ {0} /\ (m \div TwoTo[n]) % 2 \in {0, 1}
           /\ m % TwoTo[n + 1] = (m % TwoTo[n]) + TwoTo[n] * ((m \div TwoTo[n]) % 2)
<1>1. PICK c \in Nat \ {0}, e \in Nat \ {0}, two \in Nat \ {0} :
        c = TwoTo[n] /\ e = TwoTo[n + 1] /\ two = 2 /\ e = c * two
  <2>1. TwoTo[n + 1] = 2 * TwoTo[n] /\ TwoTo[n] \in Nat \ {0}
    BY TwoToDef, TwoToPositive
  <2> QED BY <2>1
<1>2. IsProduct(e, c, two)
  BY <1>1 DEF IsProduct
<1>3. m % e = (m % c) + c * ((m \div c) % two)
  <2>1. ByBoth(m, e, c, two)
    BY <1>2, DivTwice
  <2> QED BY <2>1 DEF ByBoth
<1>4. (m \div c) % 2 \in {0, 1}
  <2>1. PICK q \in Int : q = m \div c
    OBVIOUS
  <2> QED BY <2>1
<1> QED BY <1>1, <1>3, <1>4

\* A bit sum over the bits of a number is the number, modulo the words.
LEMMA BitsOf ==
    ASSUME NEW m \in Int, NEW bit \in [AllBits -> {0, 1}],
           \A b \in AllBits : bit[b] = (m \div TwoTo[b]) % 2
    PROVE  BitSum(bit) = m % Words
<1>1. PICK z : /\ z[0] = 0
               /\ \A n \in AllBits : z[n + 1] = z[n] + TwoTo[n] * bit[n]
               /\ BitSum(bit) = z[WordBits]
  BY BitSumIs
<1>2. WordBits \in Nat /\ Words = TwoTo[WordBits]
  BY Widths
<1> DEFINE S == {n \in Nat : n <= WordBits => z[n] = m % TwoTo[n]}
<1>3. 0 \in S
  <2>1. TwoTo[0] = 1 /\ m % 1 = 0
    BY TwoToDef
  <2> QED BY <1>1, <2>1
<1>4. ASSUME NEW n \in Nat, n \in S PROVE n + 1 \in S
  <2>1. SUFFICES ASSUME n + 1 <= WordBits PROVE z[n + 1] = m % TwoTo[n + 1]
    OBVIOUS
  <2>2. n \in AllBits /\ n <= WordBits
    BY <1>2, <2>1 DEF AllBits
  <2>3. z[n + 1] = z[n] + TwoTo[n] * ((m \div TwoTo[n]) % 2)
    BY <1>1, <2>2
  <2>4. z[n] = m % TwoTo[n]
    BY <1>4, <2>2
  <2> QED BY <2>3, <2>4, NextBit
<1> HIDE DEF S
<1>5. \A n \in Nat : n \in S
  BY <1>3, <1>4, SetInduction
<1> QED BY <1>1, <1>2, <1>5 DEF S

\* The bits of Rust's shifts and masks, by the powers of two.
LEMMA BitIs == \A x, b : b \in AllBits => Bit(x, b) = (x \div TwoTo[b]) % 2
BY Widths DEF Bit, AllBits

\* The halves of the range of a word, and the bit that tells them apart.
LEMMA TopBit ==
    ASSUME NEW x \in Word
    PROVE  /\ WordBits - 1 \in AllBits /\ WordBits - 1 \in Nat
           /\ TwoTo[WordBits - 1] \in Nat \ {0}
           /\ Words = 2 * TwoTo[WordBits - 1] /\ Words \div 2 = TwoTo[WordBits - 1]
           /\ Bit(x, WordBits - 1) = IF x >= TwoTo[WordBits - 1] THEN 1 ELSE 0
<1>1. WordBits - 1 \in AllBits /\ WordBits - 1 \in Nat /\ (WordBits - 1) + 1 = WordBits
  BY Widths DEF AllBits
<1>2. PICK h \in Nat \ {0} : h = TwoTo[WordBits - 1]
  BY <1>1, TwoToPositive
<1>3. Words = 2 * h
  <2>1. TwoTo[(WordBits - 1) + 1] = 2 * TwoTo[WordBits - 1]
    BY <1>1, TwoToDef
  <2> QED BY <1>1, <1>2, <2>1, Widths
<1>4. Words \div 2 = h
  BY <1>2, <1>3
<1>5. x \in 0 .. 2 * h - 1
  BY <1>2, <1>3 DEF Word
<1>6. Bit(x, WordBits - 1) = (x \div h) % 2
  BY <1>1, <1>2, BitIs
<1>7. CASE x >= h
  <2>1. x = h * 1 + (x - h) /\ x - h \in 0 .. h - 1 /\ x \in Int /\ 1 \in Int
    BY <1>2, <1>5, <1>7
  <2>2. x \div h = 1
    BY <1>2, <2>1, DivisionIs
  <2> QED BY <1>1, <1>2, <1>3, <1>4, <1>6, <1>7, <2>2
<1>8. CASE x < h
  <2>1. x = h * 0 + x /\ x \in 0 .. h - 1 /\ x \in Int /\ 0 \in Int
    BY <1>2, <1>5, <1>8
  <2>2. x \div h = 0
    BY <1>2, <2>1, DivisionIs
  <2> QED BY <1>1, <1>2, <1>3, <1>4, <1>5, <1>6, <1>8, <2>2
<1> QED BY <1>5, <1>7, <1>8

\* Powers of two, the larger a multiple of the smaller.
LEMMA PowerMultiple ==
    ASSUME NEW a \in Nat, NEW b \in Nat, a <= b
    PROVE  b - a \in Nat /\ TwoTo[b] = TwoTo[a] * TwoTo[b - a]
<1>1. PICK d \in Nat : d = b - a
  OBVIOUS
<1>2. TwoTo[a + d] = TwoTo[a] * TwoTo[d] /\ a + d = b
  BY <1>1, TwoToSum
<1> QED BY <1>1, <1>2

\* A shift to the left is a bit sum of the shifted bits, the rest zero.
LEMMA ShiftLeftIs ==
    ASSUME NEW x \in Int, NEW amt \in AllBits
    PROVE  ShiftLeft(x, amt) = (x * Powers[amt]) % Words
<1> DEFINE bit == [b \in AllBits |-> IF b >= amt THEN Bit(x, b - amt) ELSE 0]
<1>1. amt \in Nat /\ \A b \in AllBits : b \in Nat /\ (b >= amt => b - amt \in AllBits /\ b - amt \in Nat)
  BY Widths DEF AllBits
<1>2. PICK p \in Nat \ {0} : p = TwoTo[amt] /\ p = Powers[amt]
  BY <1>1, TwoToPositive, Widths DEF AllBits
<1>3. PICK m \in Int : m = x * p
  OBVIOUS
<1>4. bit \in [AllBits -> {0, 1}]
  <2>1. \A b \in AllBits : b >= amt => Bit(x, b - amt) \in {0, 1}
    BY <1>1, NextBit, BitIs
  <2> QED BY <2>1
<1>5. ASSUME NEW b \in AllBits PROVE bit[b] = (m \div TwoTo[b]) % 2
  <2>1. CASE b >= amt
    <3>1. PICK c \in Nat : c = b - amt /\ c \in AllBits
      BY <1>1, <2>1
    <3>2. PICK d \in Nat \ {0} : d = TwoTo[c]
      BY <3>1, TwoToPositive
    <3>3. PICK e \in Nat \ {0} : e = TwoTo[b] /\ e = p * d
      <4>1. TwoTo[b] = p * d /\ TwoTo[b] \in Nat \ {0}
        BY <1>1, <1>2, <2>1, <3>1, <3>2, PowerMultiple, TwoToPositive
      <4> QED BY <4>1
    <3>4. m \div e = (m \div p) \div d
      <4>1. IsProduct(e, p, d)
        BY <3>3 DEF IsProduct
      <4>2. ByBoth(m, e, p, d)
        BY <4>1, DivTwice
      <4> QED BY <4>2 DEF ByBoth
    <3>5. m \div p = x
      <4>1. m = p * x + 0 /\ 0 \in 0 .. p - 1
        BY <1>3
      <4> QED BY <4>1, DivisionIs
    <3>6. bit[b] = (x \div d) % 2
      BY <2>1, <3>1, <3>2, BitIs
    <3> QED BY <3>3, <3>4, <3>5, <3>6
  <2>2. CASE b < amt
    <3>1. PICK c \in Nat : c = amt - b - 1
      BY <1>1, <2>2
    <3>2. PICK d \in Nat \ {0}, e \in Nat \ {0} : d = TwoTo[c] /\ e = TwoTo[b]
      BY <1>1, <3>1, TwoToPositive
    <3>3. p = e * (2 * d)
      <4>1. b <= amt /\ amt - b = c + 1
        BY <1>1, <2>2, <3>1
      <4>2. TwoTo[amt] = TwoTo[b] * TwoTo[c + 1]
        BY <1>1, <4>1, PowerMultiple
      <4>3. TwoTo[c + 1] = 2 * TwoTo[c]
        BY <3>1, TwoToDef
      <4> QED BY <1>2, <3>2, <4>2, <4>3
    <3>4. PICK t \in Int : t = d * x
      OBVIOUS
    <3>5. m = e * (2 * t) + 0 /\ 0 \in 0 .. e - 1 /\ 2 * t \in Int
      <4>1. x * (e * (2 * d)) = e * (2 * (d * x))
        OBVIOUS
      <4> QED BY <1>3, <3>2, <3>3, <3>4, <4>1
    <3>6. m \div e = 2 * t
      BY <3>5, DivisionIs
    <3>7. (2 * t) % 2 = 0
      OBVIOUS
    <3>8. bit[b] = 0
      BY <1>1, <2>2
    <3> QED BY <3>2, <3>6, <3>7, <3>8
  <2> QED BY <1>1, <2>1, <2>2
<1> HIDE DEF bit
<1>6. BitSum(bit) = m % Words
  BY <1>4, <1>5, BitsOf
<1> QED BY <1>2, <1>3, <1>6 DEF ShiftLeft, bit

\* A shift to the right of a number that has the bits of x, and the sign above.
LEMMA ShiftRightOf ==
    ASSUME NEW x, NEW amt \in AllBits, NEW sign \in {0, 1}, NEW u \in Int,
           \A b \in AllBits : Bit(x, b) = (u \div TwoTo[b]) % 2,
           \A k \in Nat : k >= WordBits => (u \div TwoTo[k]) % 2 = sign
    PROVE  ShiftRight(x, amt, sign) = (u \div TwoTo[amt]) % Words
<1> DEFINE bit == [b \in AllBits |-> IF b + amt < WordBits THEN Bit(x, b + amt) ELSE sign]
<1>1. amt \in Nat /\ WordBits \in Nat
      /\ \A b \in AllBits : b \in Nat /\ b + amt \in Nat
                            /\ (b + amt < WordBits => b + amt \in AllBits)
  BY Widths DEF AllBits
<1>2. PICK p \in Nat \ {0} : p = TwoTo[amt]
  BY <1>1, TwoToPositive
<1>3. PICK m \in Int : m = u \div p
  OBVIOUS
<1>4. ASSUME NEW b \in AllBits PROVE bit[b] = (m \div TwoTo[b]) % 2
  <2>1. PICK d \in Nat \ {0} : d = TwoTo[b]
    BY <1>1, TwoToPositive
  <2>2. PICK e \in Nat \ {0} : e = TwoTo[b + amt] /\ e = p * d
    <3>1. TwoTo[b + amt] = TwoTo[b] * TwoTo[amt] /\ TwoTo[b + amt] \in Nat \ {0}
      BY <1>1, TwoToSum, TwoToPositive
    <3> QED BY <1>2, <2>1, <3>1
  <2>3. u \div e = m \div d
    <3>1. IsProduct(e, p, d)
      BY <2>2 DEF IsProduct
    <3>2. u \div e = (u \div p) \div d
      <4>1. ByBoth(u, e, p, d)
        BY <3>1, DivTwice
      <4> QED BY <4>1 DEF ByBoth
    <3> QED BY <1>3, <3>2
  <2>4. CASE b + amt < WordBits
    <3>1. bit[b] = (u \div TwoTo[b + amt]) % 2
      BY <1>1, <2>4
    <3> QED BY <2>1, <2>2, <2>3, <3>1, Zenon
  <2>5. CASE ~(b + amt < WordBits)
    <3>1. (u \div TwoTo[b + amt]) % 2 = sign
      BY <1>1, <2>5
    <3>2. bit[b] = sign
      BY <2>5
    <3> QED BY <2>1, <2>2, <2>3, <3>1, <3>2, Zenon
  <2> QED BY <2>4, <2>5
<1>5. bit \in [AllBits -> {0, 1}]
  <2>1. \A b \in AllBits : bit[b] \in {0, 1}
    <3> HIDE DEF bit
    <3> QED BY <1>1, <1>4, NextBit
  <2> QED BY <2>1
<1> HIDE DEF bit
<1>6. BitSum(bit) = m % Words
  BY <1>4, <1>5, BitsOf
<1> QED BY <1>2, <1>3, <1>6 DEF ShiftRight, bit

\* The shifts to the right, with zeros and with the sign.
LEMMA ShiftRightIs ==
    ASSUME NEW x \in Word, NEW amt \in AllBits
    PROVE  /\ ShiftRight(x, amt, 0) = x \div Powers[amt]
           /\ ShiftRight(x, amt, Bit(x, WordBits - 1)) = (AsI32(x) \div Powers[amt]) % Words
<1>1. amt \in Nat /\ WordBits \in Nat /\ Powers[amt] = TwoTo[amt] /\ TwoTo[amt] \in Nat \ {0}
  BY Widths, TwoToPositive DEF AllBits
<1>2. PICK w \in Nat \ {0} : w = Words /\ w = TwoTo[WordBits]
  BY Widths
<1>3. x \in 0 .. w - 1 /\ x \in Int
  BY <1>2 DEF Word
<1>4. ASSUME NEW k \in Nat, k >= WordBits
      PROVE  \E t \in Nat \ {0} : t = TwoTo[k] /\ w <= t
  <2>1. PICK t \in Nat \ {0} : t = TwoTo[k]
    BY TwoToPositive
  <2>2. CASE k = WordBits
    BY <1>2, <2>1, <2>2
  <2>3. CASE k > WordBits
    <3>1. 2 * TwoTo[WordBits] <= TwoTo[k]
      BY <1>1, <2>3, TwoToMonotone
    <3> QED BY <1>2, <2>1, <3>1
  <2> QED BY <1>1, <1>4, <2>2, <2>3
<1>5. ASSUME NEW k \in Nat, k >= WordBits PROVE (x \div TwoTo[k]) % 2 = 0
  <2>1. PICK t \in Nat \ {0} : t = TwoTo[k] /\ w <= t
    BY <1>4, <1>5
  <2>2. x = t * 0 + x /\ x \in 0 .. t - 1 /\ 0 \in Int
    BY <1>3, <2>1
  <2>3. x \div t = 0
    BY <1>3, <2>2, DivisionIs
  <2> QED BY <2>1, <2>3
<1>6. ShiftRight(x, amt, 0) = (x \div TwoTo[amt]) % Words
  BY <1>3, <1>5, BitIs, ShiftRightOf
<1>7. ShiftRight(x, amt, 0) = x \div TwoTo[amt]
  <2>1. PICK d \in Nat \ {0} : d = TwoTo[amt]
    BY <1>1
  <2>2. PICK q \in 0 .. x : q = x \div d
    BY <1>3, DivType
  <2>3. q = w * 0 + q /\ q \in 0 .. w - 1 /\ q \in Int /\ 0 \in Int
    BY <1>3
  <2>4. q % w = q
    BY <2>3, DivisionIs
  <2> QED BY <1>2, <1>6, <2>1, <2>2, <2>4
<1>8. ShiftRight(x, amt, Bit(x, WordBits - 1)) = (AsI32(x) \div TwoTo[amt]) % Words
  <2>1. PICK h \in Nat \ {0} : h = TwoTo[WordBits - 1] /\ w = 2 * h /\ Words \div 2 = h
    BY <1>2, TopBit
  <2>2. CASE x < h
    <3>1. Bit(x, WordBits - 1) = 0 /\ AsI32(x) = x
      BY <1>3, <2>1, <2>2, TopBit DEF AsI32
    <3> QED BY <1>6, <3>1
  <2>3. CASE x >= h
    <3>1. Bit(x, WordBits - 1) = 1 /\ AsI32(x) = x - w
      BY <1>2, <2>1, <2>3, TopBit DEF AsI32
    <3>2. PICK u \in Int : u = x - w
      BY <1>3
    <3>3. ASSUME NEW k \in Nat, k >= WordBits PROVE (u \div TwoTo[k]) % 2 = 1
      <4>1. PICK t \in Nat \ {0} : t = TwoTo[k] /\ w <= t
        BY <1>4, <3>3
      <4>2. PICK r \in 0 .. t - 1 : r = u + t
        BY <1>3, <3>2, <4>1
      <4>3. u = t * (-1) + r /\ -1 \in Int
        BY <4>2
      <4>4. u \div t = -1
        BY <4>3, DivisionIs
      <4> QED BY <4>1, <4>4
    <3>4. ASSUME NEW b \in AllBits PROVE Bit(x, b) = (u \div TwoTo[b]) % 2
      <4>1. b \in Nat /\ b <= WordBits /\ WordBits - 1 - b \in Nat /\ WordBits - b = (WordBits - 1 - b) + 1
        BY Widths DEF AllBits
      <4>2. PICK d \in Nat \ {0}, e \in Nat \ {0} : d = TwoTo[b] /\ e = TwoTo[WordBits - 1 - b]
        BY <4>1, TwoToPositive
      <4>3. w = d * (2 * e)
        <5>1. TwoTo[WordBits] = TwoTo[b] * TwoTo[WordBits - b]
          BY <1>1, <4>1, PowerMultiple
        <5>2. TwoTo[WordBits - b] = 2 * TwoTo[WordBits - 1 - b]
          BY <4>1, TwoToDef
        <5> QED BY <1>2, <4>2, <5>1, <5>2
      <4>4. PICK q \in Int, r \in 0 .. d - 1 : x = d * q + r /\ q = x \div d
        BY <1>3, DivisionOf
      <4>5. u = d * (q - 2 * e) + r /\ q - 2 * e \in Int
        <5>1. d * (q - 2 * e) = d * q - d * (2 * e)
          BY <4>4
        <5>2. d * q \in Int /\ d * (2 * e) \in Int
          BY <4>4
        <5>3. x = d * q + r
          BY <4>4
        <5> QED BY <3>2, <4>3, <5>1, <5>2, <5>3
      <4>6. u \div d = q - 2 * e
        BY <4>5, DivisionIs
      <4>7. (q - 2 * e) % 2 = q % 2
        BY <4>4
      <4>8. Bit(x, b) = q % 2
        BY <4>2, <4>4, BitIs
      <4> QED BY <4>2, <4>6, <4>7, <4>8
    <3>5. ShiftRight(x, amt, 1) = (u \div TwoTo[amt]) % Words
      BY <3>3, <3>4, ShiftRightOf
    <3> QED BY <3>1, <3>2, <3>5
  <2> QED BY <1>3, <2>1, <2>2, <2>3
<1> QED BY <1>1, <1>7, <1>8

\* The bitwise gadgets, each a bit sum over the truth table of its operator.
LEMMA BitOpsAre ==
    ASSUME NEW x \in Int, NEW y \in Int
    PROVE  /\ BitSum([b \in AllBits |-> Bit(x, b) * Bit(y, b)]) = BitWise(And, x, y)
           /\ BitOp(x, y, -1) = BitWise(Or, x, y)
           /\ BitOp(x, y, -2) = BitWise(Xor, x, y)
<1>1. \A b \in AllBits : Bit(x, b) \in {0, 1} /\ Bit(y, b) \in {0, 1}
  BY Widths, BitType DEF AllBits
<1>2. \A v, u \in {0, 1} : /\ v * u = And[v][u]
                           /\ v + u + (-1) * v * u = Or[v][u]
                           /\ v + u + (-2) * v * u = Xor[v][u]
  BY DEF And, Or, Xor
<1>3. /\ [b \in AllBits |-> Bit(x, b) * Bit(y, b)] = [b \in AllBits |-> And[Bit(x, b)][Bit(y, b)]]
      /\ [b \in AllBits |-> Bit(x, b) + Bit(y, b) + (-1) * Bit(x, b) * Bit(y, b)]
           = [b \in AllBits |-> Or[Bit(x, b)][Bit(y, b)]]
      /\ [b \in AllBits |-> Bit(x, b) + Bit(y, b) + (-2) * Bit(x, b) * Bit(y, b)]
           = [b \in AllBits |-> Xor[Bit(x, b)][Bit(y, b)]]
  BY <1>1, <1>2, Zenon
<1> QED BY <1>3, Zenon DEF BitOp, BitWise

\* Addition with the overflow taken off.
LEMMA AddCirIs == ASSUME NEW x \in Word, NEW y \in Word PROVE AddCir(x, y) = Add32(x, y)
<1>1. PICK w \in Nat \ {0} : w = Words
  BY Widths
<1>2. x \in 0 .. w - 1 /\ y \in 0 .. w - 1
  BY <1>1 DEF Word
<1>3. CASE x + y >= w
  <2>1. x + y = w * 1 + (x + y - w) /\ x + y - w \in 0 .. w - 1 /\ x + y \in Int /\ 1 \in Int
    BY <1>2, <1>3
  <2>2. (x + y) % w = x + y - w
    BY <2>1, DivisionIs
  <2>3. AddCir(x, y) = x + y + (-w)
    BY <1>1, <1>3 DEF AddCir
  <2> QED BY <1>1, <1>2, <2>2, <2>3 DEF Add32
<1>4. CASE x + y < w
  <2>1. x + y = w * 0 + (x + y) /\ x + y \in 0 .. w - 1 /\ x + y \in Int /\ 0 \in Int
    BY <1>2, <1>4
  <2>2. (x + y) % w = x + y
    BY <2>1, DivisionIs
  <2>3. AddCir(x, y) = x + y + 0
    BY <1>1, <1>2, <1>4 DEF AddCir
  <2> QED BY <1>1, <1>2, <2>2, <2>3 DEF Add32
<1> QED BY <1>2, <1>3, <1>4

\* The difference and its flags.
LEMMA SubCirIs ==
    ASSUME NEW x \in Word, NEW y \in Word
    PROVE  LET s == SubCir(x, y)
           IN  /\ s.Z = Sub32(x, y)
               /\ s.LT = (IF x < y THEN 1 ELSE 0) /\ s.GE = (IF x >= y THEN 1 ELSE 0)
               /\ s.SLT = (IF AsI32(x) < AsI32(y) THEN 1 ELSE 0)
               /\ s.SGE = (IF AsI32(x) >= AsI32(y) THEN 1 ELSE 0)
               /\ s.EQ = (IF x = y THEN 1 ELSE 0) /\ s.NE = (IF x # y THEN 1 ELSE 0)
<1>1. PICK h \in Nat \ {0}, w \in Nat \ {0} : h = TwoTo[WordBits - 1] /\ w = Words /\ w = 2 * h
  BY TopBit, Widths
<1>2. x \in 0 .. w - 1 /\ y \in 0 .. w - 1
  BY <1>1 DEF Word
<1>3. PICK v \in {0, 1}, u \in {0, 1} :
        /\ v = Bit(x, WordBits - 1) /\ u = Bit(y, WordBits - 1)
        /\ v = (IF x >= h THEN 1 ELSE 0) /\ u = (IF y >= h THEN 1 ELSE 0)
  BY <1>1, TopBit
<1>4. AsI32(x) = (IF x >= h THEN x - w ELSE x) /\ AsI32(y) = (IF y >= h THEN y - w ELSE y)
  <2>1. Words \div 2 = h
    BY <1>1, TopBit
  <2> QED BY <1>1, <2>1 DEF AsI32
<1>5. PICK lt \in {0, 1} : lt = (IF x < y THEN 1 ELSE 0)
  OBVIOUS
<1>6. PICK ds \in {0, 1} : ds = v + u - 2 * v * u
  OBVIOUS
<1>7. PICK slt \in {0, 1} : slt = ds * (1 - lt) + (1 - ds) * lt
  OBVIOUS
<1>8. PICK z \in Int : z = x - y + w * lt /\ z = (IF x < y THEN x - y + w ELSE x - y)
  BY <1>1, <1>2, <1>5
<1>9. SubCir(x, y) = [Z |-> z, LT |-> lt, GE |-> 1 - lt, SLT |-> slt, SGE |-> 1 - slt,
                      EQ |-> IF z = 0 THEN 1 ELSE 0, NE |-> IF z = 0 THEN 0 ELSE 1]
  <2>1. z = x - y + Words * lt /\ ds = Bit(x, WordBits - 1) + Bit(y, WordBits - 1)
                                        - 2 * Bit(x, WordBits - 1) * Bit(y, WordBits - 1)
    BY <1>1, <1>3, <1>6, <1>8, Zenon
  <2> QED BY <1>5, <1>7, <2>1, Zenon DEF SubCir
<1>10. z = Sub32(x, y)
  <2>1. (x - y) % w = z
    <3>1. CASE x < y
      <4>1. x - y = w * (-1) + z /\ z \in 0 .. w - 1 /\ x - y \in Int /\ -1 \in Int
        BY <1>2, <1>8, <3>1
      <4> QED BY <4>1, DivisionIs
    <3>2. CASE x >= y
      <4>1. x - y = w * 0 + z /\ z \in 0 .. w - 1 /\ x - y \in Int /\ 0 \in Int
        BY <1>2, <1>8, <3>2
      <4> QED BY <4>1, DivisionIs
    <3> QED BY <1>2, <3>1, <3>2
  <2> QED BY <1>1, <2>1 DEF Sub32
<1>11. z = 0 <=> x = y
  <2>1. x \in Int /\ y \in Int /\ x < w /\ 0 <= x /\ y < w /\ 0 <= y
    BY <1>2
  <2>2. CASE x < y
    BY <1>8, <2>1, <2>2
  <2>3. CASE x >= y
    BY <1>8, <2>1, <2>3
  <2> QED BY <2>1, <2>2, <2>3
<1>12. slt = 1 <=> AsI32(x) < AsI32(y)
  <2>1. x \in Int /\ y \in Int /\ x < w /\ 0 <= x /\ y < w /\ 0 <= y /\ w = 2 * h
    BY <1>1, <1>2
  <2>2. slt = IF v = u THEN lt ELSE 1 - lt
    BY <1>6, <1>7
  <2>3. CASE x >= h /\ y >= h
    BY <1>3, <1>4, <1>5, <2>1, <2>2, <2>3
  <2>4. CASE x >= h /\ y < h
    BY <1>3, <1>4, <1>5, <2>1, <2>2, <2>4
  <2>5. CASE x < h /\ y >= h
    BY <1>3, <1>4, <1>5, <2>1, <2>2, <2>5
  <2>6. CASE x < h /\ y < h
    BY <1>3, <1>4, <1>5, <2>1, <2>2, <2>6
  <2> QED BY <2>1, <2>3, <2>4, <2>5, <2>6
<1>13. AsI32(x) \in Int /\ AsI32(y) \in Int
  BY <1>2, SignedType
<1>14. 1 - lt = (IF x >= y THEN 1 ELSE 0) /\ slt = (IF AsI32(x) < AsI32(y) THEN 1 ELSE 0)
       /\ 1 - slt = (IF AsI32(x) >= AsI32(y) THEN 1 ELSE 0)
  BY <1>2, <1>5, <1>12, <1>13
<1>15. (IF z = 0 THEN 1 ELSE 0) = (IF x = y THEN 1 ELSE 0)
       /\ (IF z = 0 THEN 0 ELSE 1) = (IF x # y THEN 1 ELSE 0)
  BY <1>11
<1> HIDE <1>1
<1> QED BY <1>5, <1>9, <1>10, <1>14, <1>15

\* Every result of the arithmetic unit.
LEMMA AluCircuitIs ==
    ASSUME NEW aop \in Aops, NEW x \in Word, NEW y \in Word
    PROVE  AluCircuit(aop, x, y, y % WordBits) = AluOp(aop, x, y)
<1>1. PICK s \in AllBits : s = y % WordBits
  <2>1. PICK m \in Nat \ {0} : m = WordBits
    BY Widths, WidthAssumption DEF WordBits
  <2>2. y \in Int
    BY WordIs
  <2> QED BY <2>1, <2>2 DEF AllBits
<1>2. x \in Int /\ y \in Int
  BY WordIs
<1>3. CASE aop = "ADD"
  BY <1>3, AddCirIs DEF AluCircuit, AluOp
<1>4. CASE aop \in {"SUB", "SLT", "SLTU"}
  BY <1>4, SubCirIs DEF AluCircuit, AluOp, BoolToWord
<1>5. CASE aop = "SLL"
  <2>1. AluCircuit(aop, x, y, s) = ShiftLeft(x, s) /\ AluOp(aop, x, y) = (x * Powers[s]) % Words
    BY <1>1, <1>5 DEF AluCircuit, AluOp
  <2> QED BY <1>1, <1>2, <2>1, ShiftLeftIs
<1>6. CASE aop = "SRL"
  <2>1. AluCircuit(aop, x, y, s) = ShiftRight(x, s, 0) /\ AluOp(aop, x, y) = x \div Powers[s]
    BY <1>1, <1>6 DEF AluCircuit, AluOp
  <2> QED BY <1>1, <2>1, ShiftRightIs
<1>7. CASE aop = "SRA"
  <2>1. AluCircuit(aop, x, y, s) = ShiftRight(x, s, Bit(x, WordBits - 1))
        /\ AluOp(aop, x, y) = (AsI32(x) \div Powers[s]) % Words
    BY <1>1, <1>7 DEF AluCircuit, AluOp
  <2> QED BY <1>1, <2>1, ShiftRightIs
<1>8. CASE aop = "AND"
  BY <1>2, <1>8, BitOpsAre DEF AluCircuit, AluOp
<1>9. CASE aop = "OR"
  BY <1>2, <1>9, BitOpsAre DEF AluCircuit, AluOp
<1>10. CASE aop = "XOR"
  BY <1>2, <1>10, BitOpsAre DEF AluCircuit, AluOp
<1> QED BY <1>3, <1>4, <1>5, <1>6, <1>7, <1>8, <1>9, <1>10 DEF Aops

\* Every branch condition.
LEMMA BranchIs ==
    ASSUME NEW bop \in Bops, NEW x \in Word, NEW y \in Word
    PROVE  BranchFlag(bop, x, y) = IF BrOp(bop, x, y) THEN 1 ELSE 0
<1>1. PICK s : s = SubCir(x, y)
  OBVIOUS
<1>2. /\ s.LT = (IF x < y THEN 1 ELSE 0) /\ s.GE = (IF x >= y THEN 1 ELSE 0)
      /\ s.SLT = (IF AsI32(x) < AsI32(y) THEN 1 ELSE 0)
      /\ s.SGE = (IF AsI32(x) >= AsI32(y) THEN 1 ELSE 0)
      /\ s.EQ = (IF x = y THEN 1 ELSE 0) /\ s.NE = (IF x # y THEN 1 ELSE 0)
  BY <1>1, SubCirIs
<1>3. CASE bop \in {"BEQ", "BNE"}
  BY <1>1, <1>2, <1>3 DEF BranchFlag, BrOp
<1>4. CASE bop = "BLT"
  BY <1>1, <1>2, <1>4 DEF BranchFlag, BrOp
<1>5. CASE bop = "BGE"
  BY <1>1, <1>2, <1>5 DEF BranchFlag, BrOp
<1>6. CASE bop \in {"BLTU", "BGEU"}
  BY <1>1, <1>2, <1>6 DEF BranchFlag, BrOp
<1> QED BY <1>3, <1>4, <1>5, <1>6 DEF Bops

\* A line is cut into two halves of aligned elements.
LEMMA HalfLine ==
    \E m \in Nat \ {0} : LineBytes = 8 * m /\ LineBytes \div 2 = 4 * m
<1>1. PICK c \in Nat : LineBytes = TwoTo[c] /\ LineBytes >= 8
  BY Widths, WidthAssumption
<1>2. TwoTo[0] = 1 /\ TwoTo[1] = 2 /\ TwoTo[2] = 4
  <2>1. TwoTo[0 + 1] = 2 * TwoTo[0] /\ TwoTo[1 + 1] = 2 * TwoTo[1]
    BY TwoToDef
  <2> QED BY <2>1, TwoToDef
<1>3. c >= 3
  BY <1>1, <1>2
<1>4. PICK d \in Nat : c = ((d + 1) + 1) + 1
  <2>1. c - 3 \in Nat /\ c = (((c - 3) + 1) + 1) + 1
    BY <1>3
  <2> QED BY <2>1
<1>5. TwoTo[c] = 2 * (2 * (2 * TwoTo[d]))
  <2>1. TwoTo[d + 1] = 2 * TwoTo[d] /\ TwoTo[(d + 1) + 1] = 2 * TwoTo[d + 1]
        /\ TwoTo[((d + 1) + 1) + 1] = 2 * TwoTo[(d + 1) + 1]
    <3>1. d + 1 \in Nat /\ (d + 1) + 1 \in Nat
      BY <1>4
    <3> QED BY <1>4, <3>1, TwoToDef
  <2> QED BY <1>4, <2>1
<1>6. PICK m \in Nat \ {0} : m = TwoTo[d]
  BY <1>4, TwoToPositive
<1>7. LineBytes = 8 * m
  BY <1>1, <1>5, <1>6
<1> QED BY <1>6, <1>7

\* The element that load_select chooses is the one at the address.
LEMMA LoadSelectIs ==
    ASSUME NEW line, NEW a \in Int, NEW size \in {1, 2, 4}, a % size = 0
    PROVE  LoadSelect(line, a, size) = Unsigned(line, a, size)
<1>1. PICK h \in Nat \ {0}, e \in Nat \ {0}, two \in Nat \ {0} :
        /\ h = LineBytes \div 2 /\ e = LineBytes /\ two = 2 /\ e = h * two
        /\ h % 4 = 0
  <2>1. PICK m \in Nat \ {0} : LineBytes = 8 * m /\ LineBytes \div 2 = 4 * m
    BY HalfLine
  <2>2. (4 * m) % 4 = 0 /\ 4 * m \in Nat \ {0} /\ 8 * m = (4 * m) * 2
        /\ 8 * m \in Nat \ {0}
    BY <2>1
  <2> QED BY <2>1, <2>2
<1>2. ByBoth(a, e, h, two)
  <2>1. IsProduct(e, h, two)
    BY <1>1 DEF IsProduct
  <2> QED BY <2>1, DivTwice
<1>3. a % e = (a % h) + h * ((a \div h) % two)
  BY <1>2 DEF ByBoth
<1>4. PICK q \in Int, r \in 0 .. h - 1 : a = h * q + r /\ q = a \div h /\ r = a % h
  BY DivisionOf
<1>5. size * (r \div size) = r
  <2>1. a = h * q + r /\ r \in Int /\ q \in Int /\ h \in Int
    BY <1>4
  <2>2. PICK t \in Int : h = 4 * t
    BY <1>1
  <2>3. PICK v \in Int : v = t * q
    BY <2>1
  <2>4. h * q = 4 * v
    <3>1. (4 * t) * q = 4 * (t * q)
      BY <2>1
    <3> QED BY <2>2, <2>3, <3>1, Zenon
  <2>5. a = 4 * v + r
    BY <2>1, <2>4
  <2>6. CASE size = 1
    BY <2>1, <2>6
  <2>7. CASE size = 2
    <3>1. r % 2 = 0
      BY <2>1, <2>5, <2>7
    <3> QED BY <2>1, <2>7, <3>1
  <2>8. CASE size = 4
    <3>1. r % 4 = 0
      BY <2>1, <2>5, <2>8
    <3> QED BY <2>1, <2>8, <3>1
  <2> QED BY <2>6, <2>7, <2>8
<1>6. q % 2 \in {0, 1}
  BY <1>4
<1>7. a % e = (IF q % 2 = 1 THEN h ELSE 0) + size * (r \div size)
  <2>1. h * (q % 2) = IF q % 2 = 1 THEN h ELSE 0
    <3>1. PICK b \in {0, 1} : b = q % 2
      BY <1>6
    <3>2. h * b = IF b = 1 THEN h ELSE 0
      OBVIOUS
    <3> QED BY <3>1, <3>2
  <2>2. PICK k : k = h * (q % 2)
    OBVIOUS
  <2>3. k \in {0, h} /\ r \in Int
    BY <1>6, <2>1, <2>2
  <2>4. a % e = r + k
    BY <1>1, <1>3, <1>4, <2>2, Zenon
  <2>5. r + k = k + r
    BY <2>3
  <2> QED BY <1>5, <2>1, <2>2, <2>4, <2>5, Zenon
<1>8. LoadSelect(line, a, size)
        = LittleEndian(line, (IF q % 2 = 1 THEN h ELSE 0) + size * (r \div size), size)
  BY <1>1, <1>4, Zenon DEF LoadSelect
<1> QED BY <1>1, <1>7, <1>8, Zenon DEF Unsigned

\* A byte or a half word has an even number of values, all of them words.
LEMMA HalfValues ==
    ASSUME NEW size \in {1, 2}
    PROVE  \E t \in Nat \ {0} : ByteValues(size) = 2 * t
<1>1. PICK n \in Nat : size * ByteBits = n + 1
  <2>1. size * ByteBits >= 1 /\ size * ByteBits \in Nat
    BY WidthAssumption
  <2>2. size * ByteBits - 1 \in Nat /\ (size * ByteBits - 1) + 1 = size * ByteBits
    BY <2>1
  <2> QED BY <2>2
<1>2. TwoTo[n + 1] = 2 * TwoTo[n] /\ TwoTo[n] \in Nat \ {0}
  BY TwoToDef, TwoToPositive
<1> QED BY <1>1, <1>2 DEF ByteValues

\* sx8 and sx16 extend the sign as CacheLine::load does.
LEMMA SignExtendIs ==
    ASSUME NEW size \in {1, 2}, NEW val \in 0 .. ByteValues(size) - 1
    PROVE  SignExtend(val, size) = IF val >= ByteValues(size) \div 2
                                   THEN Words - ByteValues(size) + val ELSE val
<1>1. PICK t \in Nat \ {0}, top \in Nat \ {0}, w \in Nat :
        top = 2 * t /\ top = ByteValues(size) /\ w = Words
  <2>1. PICK t \in Nat \ {0} : ByteValues(size) = 2 * t
    BY HalfValues
  <2> QED BY <2>1, Widths
<1>2. top \div 2 = t
  BY <1>1
<1>3. val \in 0 .. top - 1
  BY <1>1
<1>4. CASE val >= t
  <2>1. val = t * 1 + (val - t) /\ val - t \in 0 .. t - 1 /\ val \in Int /\ 1 \in Int
    BY <1>1, <1>3, <1>4
  <2>2. val % t = val - t
    BY <2>1, DivisionIs
  <2>3. SignExtend(val, size) = (val - t) + 1 * (w - t)
    BY <1>1, <1>2, <1>4, <2>2 DEF SignExtend
  <2>4. (val - t) + 1 * (w - t) = w - top + val
    BY <1>1, <1>3
  <2> QED BY <1>1, <1>2, <1>4, <2>3, <2>4
<1>5. CASE val < t
  <2>1. val = t * 0 + val /\ val \in 0 .. t - 1 /\ val \in Int /\ 0 \in Int
    BY <1>1, <1>3, <1>5
  <2>2. val % t = val
    BY <2>1, DivisionIs
  <2>3. ~(val >= t)
    BY <1>3, <1>5
  <2>4. SignExtend(val, size) = val + 0 * (w - t)
    BY <1>1, <1>2, <2>2, <2>3 DEF SignExtend
  <2>5. val + 0 * (w - t) = val
    BY <1>1, <1>3
  <2> QED BY <1>1, <1>2, <2>3, <2>4, <2>5
<1> QED BY <1>3, <1>4, <1>5

\* What the circuit reads from a line is what CacheLine::load returns.
LEMMA LoadCircuitIs ==
    ASSUME NEW line \in Line, NEW a \in Int, NEW lop \in Lops, Aligned(lop, a)
    PROVE  LET read == LoadSelect(line, a, SizeOf(lop))
           IN  (IF lop \in {"LB", "LH"} THEN SignExtend(read, SizeOf(lop)) ELSE read)
                 = LineLoad(line, lop, a)
<1>1. PICK size \in {1, 2, 4} : size = SizeOf(lop) /\ a % size = 0
                                /\ (lop \in {"LB", "LH"} => size \in {1, 2})
  BY DEF Lops, SizeOf, Aligned
<1>2. PICK read : read = LoadSelect(line, a, size) /\ read = Unsigned(line, a, size)
  BY <1>1, LoadSelectIs
<1>3. read \in 0 .. ByteValues(size) - 1
  BY <1>1, <1>2, UnsignedType
<1>4. CASE lop \in {"LB", "LH"}
  <2>1. SignExtend(read, size) = IF read >= ByteValues(size) \div 2
                                 THEN Words - ByteValues(size) + read ELSE read
    BY <1>1, <1>3, <1>4, SignExtendIs
  <2> QED BY <1>1, <1>2, <1>4, <2>1, Zenon DEF LineLoad
<1>5. CASE lop \notin {"LB", "LH"}
  BY <1>1, <1>2, <1>5, Zenon DEF LineLoad
<1> QED BY <1>4, <1>5

\* The bytes of a number are what is left of it below so many bytes.
LEMMA BytesOf ==
    ASSUME NEW val \in Int
    PROVE  LET byte(k) == (val \div ByteValues(k)) % BytesBase
           IN  /\ byte(0) = val % ByteValues(1)
               /\ byte(0) + BytesBase * byte(1) = val % ByteValues(2)
               /\ byte(0) + BytesBase * (byte(1) + BytesBase * (byte(2) + BytesBase * byte(3)))
                    = val % ByteValues(4)
<1> DEFINE byte(k) == (val \div ByteValues(k)) % BytesBase
<1>1. ByteBits \in Nat /\ 0 * ByteBits = 0 /\ 1 * ByteBits = ByteBits
      /\ 2 * ByteBits = ByteBits + ByteBits /\ 3 * ByteBits = 2 * ByteBits + ByteBits
      /\ 4 * ByteBits = 3 * ByteBits + ByteBits /\ 2 * ByteBits \in Nat /\ 3 * ByteBits \in Nat
  BY WidthAssumption
<1>2. PICK b \in Nat \ {0} : b = BytesBase /\ b = TwoTo[ByteBits] /\ b = ByteValues(1)
  BY <1>1, Widths DEF ByteValues
<1>3. PICK b2 \in Nat \ {0}, b3 \in Nat \ {0}, b4 \in Nat \ {0} :
        b2 = ByteValues(2) /\ b3 = ByteValues(3) /\ b4 = ByteValues(4)
  BY Widths
<1>4. IsProduct(b2, b, b) /\ IsProduct(b3, b2, b) /\ IsProduct(b4, b3, b)
  <2>1. TwoTo[ByteBits + ByteBits] = TwoTo[ByteBits] * TwoTo[ByteBits]
    BY <1>1, TwoToSum
  <2>2. TwoTo[2 * ByteBits + ByteBits] = TwoTo[2 * ByteBits] * TwoTo[ByteBits]
    BY <1>1, TwoToSum
  <2>3. TwoTo[3 * ByteBits + ByteBits] = TwoTo[3 * ByteBits] * TwoTo[ByteBits]
    BY <1>1, TwoToSum
  <2> QED BY <1>1, <1>2, <1>3, <2>1, <2>2, <2>3 DEF ByteValues, IsProduct
<1>5. byte(0) = val % b /\ byte(1) = (val \div b) % b /\ byte(2) = (val \div b2) % b
      /\ byte(3) = (val \div b3) % b
  <2>1. ByteValues(0) = 1 /\ val \div 1 = val
    BY <1>1, TwoToDef DEF ByteValues
  <2> QED BY <1>2, <1>3, <2>1
<1> HIDE DEF byte
<1>6. ByBoth(val, b2, b, b) /\ ByBoth(val, b3, b2, b) /\ ByBoth(val, b4, b3, b)
  BY <1>4, DivTwice
<1>7. byte(0) + b * byte(1) = val % b2
  BY <1>5, <1>6, Zenon DEF ByBoth
<1>8. val % b4 = ((val % b2) + b2 * byte(2)) + b3 * byte(3)
  BY <1>5, <1>6, Zenon DEF ByBoth
<1>9. PICK d0 \in Int, d1 \in Int, d2 \in Int, d3 \in Int :
        d0 = byte(0) /\ d1 = byte(1) /\ d2 = byte(2) /\ d3 = byte(3)
  <2>1. \A c \in Nat \ {0} : (val \div c) % b \in Int
    <3>1. \A q \in Int : q % b \in Int
      OBVIOUS
    <3>2. \A c \in Nat \ {0} : val \div c \in Int
      OBVIOUS
    <3> QED BY <3>1, <3>2
  <2>2. val % b \in Int
    OBVIOUS
  <2> QED BY <1>5, <2>1, <2>2
<1>10. d0 + b * (d1 + b * (d2 + b * d3)) = ((d0 + b * d1) + b2 * d2) + b3 * d3
  <2>1. b2 = b * b /\ b3 = b2 * b
    BY <1>4 DEF IsProduct
  <2>2. d0 + b * (d1 + b * (d2 + b * d3)) = ((d0 + b * d1) + (b * b) * d2) + ((b * b) * b) * d3
    OBVIOUS
  <2> QED BY <2>1, <2>2, Zenon
<1>11. byte(0) + b * (byte(1) + b * (byte(2) + b * byte(3))) = val % b4
  BY <1>7, <1>8, <1>9, <1>10, Zenon
<1> QED BY <1>2, <1>3, <1>5, <1>7, <1>11, Zenon DEF byte

\* What the circuit reads back from the line written is the low bytes.
LEMMA StoreCircuitIs ==
    ASSUME NEW line \in Line, NEW a \in Int, NEW sop \in Sops, NEW val \in Int, Aligned(sop, a)
    PROVE  LoadSelect(LineStore(line, sop, a, val), a, SizeOf(sop)) = val % ByteValues(SizeOf(sop))
<1> DEFINE byte(k) == (val \div ByteValues(k)) % BytesBase
<1>1. PICK size \in {1, 2, 4} : size = SizeOf(sop) /\ a % size = 0
  BY DEF Sops, SizeOf, Aligned
<1>2. PICK o \in Int : o = a % LineBytes /\ \A k \in 0 .. size - 1 : o + k \in 0 .. LineBytes - 1
  <2>1. PICK o : o = a % LineBytes
    OBVIOUS
  <2>2. a % LineBytes \in Int
    BY WidthAssumption
  <2> QED BY <1>1, <2>1, <2>2, WithinLine
<1>3. PICK new : new = LineStore(line, sop, a, val)
  OBVIOUS
<1>4. ASSUME NEW k \in 0 .. size - 1 PROVE new[o + k] = byte(k)
  <2>1. PICK p : p = o + k
    OBVIOUS
  <2>2. p \in 0 .. LineBytes - 1 /\ p \in o .. o + size - 1 /\ p - o = k
    BY <1>1, <1>2, <2>1
  <2>3. new = [q \in 0 .. LineBytes - 1 |-> IF q \in o .. o + size - 1
                                            THEN (val \div ByteValues(q - o)) % BytesBase
                                            ELSE line[q]]
    BY <1>1, <1>2, <1>3, Zenon DEF LineStore, Line
  <2>4. new[p] = (val \div ByteValues(p - o)) % BytesBase
    BY <2>2, <2>3
  <2> QED BY <2>1, <2>2, <2>4
<1>5. LoadSelect(new, a, size) = LittleEndian(new, o, size)
  BY <1>1, <1>2, LoadSelectIs DEF Unsigned
<1> HIDE DEF byte
<1>6. 0 \in 0 .. size - 1 /\ o + 0 = o
  BY <1>1, <1>2
<1>7. new[o] = byte(0)
  BY <1>4, <1>6
<1>8. CASE size = 1
  <2>1. LittleEndian(new, o, size) = byte(0)
    BY <1>7, <1>8 DEF LittleEndian
  <2> QED BY <1>1, <1>3, <1>5, <1>8, <2>1, BytesOf DEF byte
<1>9. CASE size = 2
  <2>1. new[o + 1] = byte(1)
    BY <1>4, <1>9
  <2>2. LittleEndian(new, o, size) = byte(0) + BytesBase * byte(1)
    BY <1>7, <1>9, <2>1 DEF LittleEndian
  <2> QED BY <1>1, <1>3, <1>5, <1>9, <2>2, BytesOf DEF byte
<1>10. CASE size = 4
  <2>1. new[o + 1] = byte(1) /\ new[o + 2] = byte(2) /\ new[o + 3] = byte(3)
    BY <1>4, <1>10
  <2>2. LittleEndian(new, o, size)
          = byte(0) + BytesBase * (byte(1) + BytesBase * (byte(2) + BytesBase * byte(3)))
    BY <1>7, <1>10, <2>1 DEF LittleEndian
  <2> QED BY <1>1, <1>3, <1>5, <1>10, <2>2, BytesOf DEF byte
<1> QED BY <1>8, <1>9, <1>10

-----------------------------------------------------------------------------
(* A step of the machine satisfies the step circuit.                        *)

\* The witness of a step that the machine takes, field by field.
WitnessOf(w, i, after) ==
    /\ w.regs = regs /\ w.inst = i
    /\ w.rd = WitnessRd(i) /\ w.rs1 = WitnessRs1(i) /\ w.rs2 = WitnessRs2(i)
    /\ w.I = IF HasImm(i.op) THEN i.imm ELSE 0
    /\ w.X = regs.x[WitnessRs1(i)]
    /\ w.Y = regs.x[WitnessRs2(i)]
    /\ w.Z = ResultZ(i)
    /\ w.shamt = CASE i.op = "ALUI" -> w.I % WordBits [] i.op = "ALU" -> w.Y % WordBits [] OTHER -> 0
    /\ w.PC = NextPC(i)
    /\ w.pcProof = QueryPath(mem, regs.pc)
    /\ w.readProof = IF i.op \in {"LOAD", "STORE"} THEN QueryPath(mem, Address(i))
                     ELSE QueryPath(mem, regs.pc)
    /\ w.writeProof = IF i.op = "STORE" THEN QueryPath(after, Address(i)) ELSE w.readProof

\* What parse_alt and BlockIter::next make of the step that step() recorded.
LEMMA WitnessIs ==
    ASSUME NEW i, NEW after
    PROVE  WitnessOf(Witness(regs, TraceStep(i, after)), i, after)
<1>1. PICK z, next, pcPath, readPath, writePath :
        /\ z = ResultZ(i) /\ next = NextPC(i)
        /\ pcPath = QueryPath(mem, regs.pc)
        /\ readPath = QueryPath(mem, Address(i))
        /\ writePath = QueryPath(after, Address(i))
  OBVIOUS
<1>2. PICK s : s = TraceStep(i, after)
  OBVIOUS
<1>3. /\ s.inst = i /\ s.Z = z
      /\ s.PC = IF next = Add32(regs.pc, 4) THEN <<>> ELSE <<next>>
      /\ s.pcProof = pcPath
      /\ s.readProof = IF i.op \in {"LOAD", "STORE"} THEN <<readPath>> ELSE <<>>
      /\ s.writeProof = IF i.op = "STORE" THEN <<writePath>> ELSE <<>>
  BY <1>1, <1>2 DEF TraceStep
<1>4. (IF s.PC = <<>> THEN Add32(regs.pc, 4) ELSE s.PC[1]) = next
  <2>1. CASE next = Add32(regs.pc, 4)
    BY <1>3, <2>1
  <2>2. CASE next # Add32(regs.pc, 4)
    <3>1. s.PC = <<next>>
      BY <1>3, <2>2
    <3>2. s.PC # <<>> /\ s.PC[1] = next
      BY <3>1
    <3> QED BY <3>2
  <2> QED BY <2>1, <2>2
<1> DEFINE read == IF s.readProof = <<>> THEN s.pcProof ELSE s.readProof[1]
           write == IF s.writeProof = <<>> THEN read ELSE s.writeProof[1]
<1>5. read = IF i.op \in {"LOAD", "STORE"} THEN readPath ELSE pcPath
  <2>1. CASE i.op \in {"LOAD", "STORE"}
    <3>1. s.readProof = <<readPath>>
      BY <1>3, <2>1
    <3>2. s.readProof # <<>> /\ s.readProof[1] = readPath
      BY <3>1
    <3> QED BY <2>1, <3>2
  <2>2. CASE i.op \notin {"LOAD", "STORE"}
    BY <1>3, <2>2
  <2> QED BY <2>1, <2>2
<1>6. write = IF i.op = "STORE" THEN writePath ELSE read
  <2>1. CASE i.op = "STORE"
    <3>1. s.writeProof = <<writePath>>
      BY <1>3, <2>1
    <3>2. s.writeProof # <<>> /\ s.writeProof[1] = writePath
      BY <3>1
    <3> QED BY <2>1, <3>2
  <2>2. CASE i.op # "STORE"
    BY <1>3, <2>2
  <2> QED BY <2>1, <2>2
<1>7. PICK w : w = Witness(regs, s)
  OBVIOUS
<1>8. /\ w.regs = regs /\ w.inst = s.inst
      /\ w.rd = WitnessRd(s.inst) /\ w.rs1 = WitnessRs1(s.inst) /\ w.rs2 = WitnessRs2(s.inst)
      /\ w.I = (IF HasImm(s.inst.op) THEN s.inst.imm ELSE 0)
      /\ w.X = regs.x[WitnessRs1(s.inst)]
      /\ w.Y = regs.x[WitnessRs2(s.inst)]
      /\ w.Z = s.Z
      /\ w.shamt = (CASE s.inst.op = "ALUI" -> w.I % WordBits [] s.inst.op = "ALU" -> w.Y % WordBits
                      [] OTHER -> 0)
      /\ w.PC = (IF s.PC = <<>> THEN Add32(regs.pc, 4) ELSE s.PC[1])
      /\ w.pcProof = s.pcProof
      /\ w.readProof = read
      /\ w.writeProof = write
  BY <1>7 DEF Witness
<1> HIDE DEF read, write
<1> QED BY <1>1, <1>2, <1>3, <1>4, <1>5, <1>6, <1>7, <1>8, Zenon DEF WitnessOf

\* An instruction as the machine meets it: parsed, its operands words and its
\* registers there.
Operands(i) ==
    /\ Parsed(i)
    /\ X(i) \in Word /\ Y(i) \in Word /\ Address(i) \in Word
    /\ {i.rd, i.rs1, i.rs2} \subseteq DOMAIN regs.x

\* The witness names registers and an immediate only where the instruction
\* has them, and there they are the operands of the machine.
LEMMA WitnessOperands ==
    ASSUME MachineOK, NEW i, Operands(i), NEW after, NEW w, WitnessOf(w, i, after)
    PROVE  /\ i.op \in {"JALR", "BR", "LOAD", "STORE", "ALUI", "ALU"} => w.X = X(i)
           /\ i.op \in {"BR", "STORE", "ALU"} => w.Y = Y(i)
           /\ HasImm(i.op) => w.I = i.imm
           /\ i.imm \in Word /\ regs.pc \in Word /\ 4 \in Word
           /\ i.op \in Opcodes
<1>1. \A r : regs.x[r] = GetReg(r)
  BY DEF MachineOK, GetReg
<1>2. i.imm \in Word /\ i.op \in Opcodes
  BY DEF Operands, Parsed
<1>3. 4 \in Word
  BY Widths DEF Word
<1>4. i.op \in {"JALR", "BR", "LOAD", "STORE", "ALUI", "ALU"} => w.X = X(i)
  BY <1>1 DEF WitnessOf, WitnessRs1, X
<1>5. i.op \in {"BR", "STORE", "ALU"} => w.Y = Y(i)
  BY <1>1 DEF WitnessOf, WitnessRs2, Y
<1>6. HasImm(i.op) => w.I = i.imm
  BY DEF WitnessOf
<1> QED BY <1>2, <1>3, <1>4, <1>5, <1>6 DEF MachineOK

\* Every line that a load or a store finds is a line.
LEMMA QueryType ==
    ASSUME MachineOK, NEW a \in Word
    PROVE  LeafOf(a) \in Leaves /\ Query(a) \in Line
<1>1. LeafOf(a) \in Leaves
  BY WordIs, LeafOfIs
<1> QED BY <1>1 DEF MachineOK, Hashed, Query, LineAt

\* The leaf and the root that a path made by query carries.
LEMMA PathIs ==
    ASSUME NEW trie, NEW a
    PROVE  QueryPath(trie, a).leaf = LineAt(trie, a) /\ QueryPath(trie, a).root = Root(trie)
BY DEF QueryPath, PathOf

\* Z[J] is what eval_inst computes.
LEMMA CircuitZIs ==
    ASSUME MachineOK, NEW i, Operands(i), ~Fails(i), NEW after, NEW w, WitnessOf(w, i, after)
    PROVE  CircuitZ(w) = ResultZ(i)
<1>1. /\ i.op \in {"JALR", "BR", "LOAD", "STORE", "ALUI", "ALU"} => w.X = X(i)
      /\ i.op \in {"BR", "STORE", "ALU"} => w.Y = Y(i)
      /\ HasImm(i.op) => w.I = i.imm
      /\ i.imm \in Word /\ regs.pc \in Word /\ 4 \in Word
      /\ i.op \in Opcodes
  BY WitnessOperands
<1>2. w.inst = i /\ w.regs = regs /\ w.Z = ResultZ(i)
  BY DEF WitnessOf
<1>3. CASE i.op = "LUI"
  BY <1>1, <1>2, <1>3 DEF CircuitZ, ResultZ, HasImm
<1>4. CASE i.op = "AUIPC"
  <2>1. w.I = i.imm /\ AddCir(regs.pc, i.imm) = Add32(regs.pc, i.imm)
    BY <1>1, <1>4, AddCirIs DEF HasImm
  <2> QED BY <1>2, <1>4, <2>1 DEF CircuitZ, ResultZ
<1>5. CASE i.op \in {"JAL", "JALR"}
  <2>1. AddCir(regs.pc, 4) = Add32(regs.pc, 4)
    BY <1>1, AddCirIs
  <2> QED BY <1>2, <1>5, <2>1 DEF CircuitZ, ResultZ
<1>6. CASE i.op = "LOAD"
  <2>1. PICK a \in Word : a = Address(i) /\ AddCir(w.X, w.I) = a
    <3>1. w.X = X(i) /\ w.I = i.imm /\ X(i) \in Word /\ i.imm \in Word
      BY <1>1, <1>6 DEF HasImm, Operands
    <3> QED BY <3>1, AddCirIs DEF Address, Operands
  <2>2. PICK line \in Line : line = Query(a) /\ w.readProof.leaf = line
    <3>1. w.readProof = QueryPath(mem, a)
      BY <1>6, <2>1 DEF WitnessOf
    <3> QED BY <2>1, <3>1, QueryType, PathIs DEF Query
  <2>3. i.f \in Lops /\ Aligned(i.f, a)
    BY <1>6, <2>1 DEF Operands, Parsed, Fails
  <2>4. (IF i.f \in {"LB", "LH"} THEN SignExtend(LoadSelect(line, a, SizeOf(i.f)), SizeOf(i.f))
         ELSE LoadSelect(line, a, SizeOf(i.f))) = LineLoad(line, i.f, a)
    BY <2>3, WordIs, LoadCircuitIs
  <2>5. ResultZ(i) = LineLoad(line, i.f, a)
    BY <1>6, <2>1, <2>2 DEF ResultZ
  <2>6. CircuitZ(w) = IF i.f \in {"LB", "LH"}
                      THEN SignExtend(LoadSelect(line, a, SizeOf(i.f)), SizeOf(i.f))
                      ELSE LoadSelect(line, a, SizeOf(i.f))
    BY <1>2, <1>6, <2>1, <2>2 DEF CircuitZ
  <2> QED BY <2>4, <2>5, <2>6
<1>7. CASE i.op = "ALUI"
  <2>1. w.X = X(i) /\ w.I = i.imm /\ w.shamt = i.imm % WordBits
    BY <1>1, <1>7 DEF HasImm, WitnessOf
  <2>2. AluCircuit(i.f, X(i), i.imm, i.imm % WordBits) = AluOp(i.f, X(i), i.imm)
    BY <1>1, <1>7, AluCircuitIs DEF Operands, Parsed
  <2> QED BY <1>2, <1>7, <2>1, <2>2 DEF CircuitZ, ResultZ
<1>8. CASE i.op = "ALU"
  <2>1. w.X = X(i) /\ w.Y = Y(i) /\ w.shamt = Y(i) % WordBits
    BY <1>1, <1>8 DEF WitnessOf
  <2>2. AluCircuit(i.f, X(i), Y(i), Y(i) % WordBits) = AluOp(i.f, X(i), Y(i))
    BY <1>1, <1>8, AluCircuitIs DEF Operands, Parsed
  <2> QED BY <1>2, <1>8, <2>1, <2>2 DEF CircuitZ, ResultZ
<1>9. CASE i.op = "ECALL"
  BY <1>2, <1>9 DEF CircuitZ
<1>10. CASE i.op \in {"BR", "STORE", "FENCE", "EBREAK", "UNIMP"}
  BY <1>2, <1>10 DEF CircuitZ, ResultZ
<1> QED BY <1>1, <1>3, <1>4, <1>5, <1>6, <1>7, <1>8, <1>9, <1>10 DEF Opcodes

\* PC[J] is the program counter that the machine goes on with.
LEMMA CircuitPCIs ==
    ASSUME MachineOK, NEW i, Operands(i), Jumps(i) => TargetPC(i) # 0,
           NEW after, NEW w, WitnessOf(w, i, after)
    PROVE  CircuitPC(w) = NextPC(i)
<1>1. /\ i.op \in {"JALR", "BR", "LOAD", "STORE", "ALUI", "ALU"} => w.X = X(i)
      /\ i.op \in {"BR", "STORE", "ALU"} => w.Y = Y(i)
      /\ HasImm(i.op) => w.I = i.imm
      /\ i.imm \in Word /\ regs.pc \in Word /\ 4 \in Word
      /\ i.op \in Opcodes
  BY WitnessOperands
<1>2. w.inst = i /\ w.regs = regs
  BY DEF WitnessOf
<1>3. PICK next \in Word : next = Add32(regs.pc, 4) /\ AddCir(regs.pc, 4) = next
  <2>1. AddCir(regs.pc, 4) = Add32(regs.pc, 4)
    BY <1>1, AddCirIs
  <2> QED BY <1>1, <2>1, WordIs, AddType
<1>4. PICK there \in Word : there = Add32(regs.pc, i.imm) /\ AddCir(regs.pc, i.imm) = there
  <2>1. AddCir(regs.pc, i.imm) = Add32(regs.pc, i.imm)
    BY <1>1, AddCirIs
  <2> QED BY <1>1, <2>1, WordIs, AddType
<1>5. CASE i.op = "JAL"
  <2>1. TargetPC(i) = there /\ there # 0
    BY <1>4, <1>5 DEF TargetPC, Jumps
  <2>2. CircuitPC(w) = there
    BY <1>1, <1>2, <1>4, <1>5 DEF CircuitPC, HasImm
  <2> QED BY <2>1, <2>2 DEF NextPC
<1>6. CASE i.op = "JALR"
  <2>1. w.X = X(i) /\ w.I = i.imm /\ AddCir(X(i), i.imm) = Add32(X(i), i.imm)
    <3>1. w.X = X(i) /\ w.I = i.imm /\ X(i) \in Word /\ i.imm \in Word
      BY <1>1, <1>6 DEF HasImm, Operands
    <3> QED BY <3>1, AddCirIs
  <2>2. TargetPC(i) = Add32(X(i), i.imm) /\ TargetPC(i) # 0
    BY <1>6 DEF TargetPC, Jumps
  <2>3. CircuitPC(w) = Add32(X(i), i.imm)
    BY <1>2, <1>6, <2>1 DEF CircuitPC
  <2> QED BY <2>2, <2>3 DEF NextPC
<1>7. CASE i.op = "BR"
  <2>1. w.X = X(i) /\ w.Y = Y(i) /\ w.I = i.imm /\ i.f \in Bops
    BY <1>1, <1>7 DEF HasImm, Operands, Parsed
  <2>2. BranchFlag(i.f, X(i), Y(i)) = IF BrOp(i.f, X(i), Y(i)) THEN 1 ELSE 0
    BY <2>1, BranchIs DEF Operands
  <2>3. PICK c \in {0, 1} : /\ c = BranchFlag(i.f, X(i), Y(i))
                            /\ c = 1 <=> BrOp(i.f, X(i), Y(i))
    BY <2>2
  <2>4. CircuitPC(w) = c * there + (1 - c) * next
    BY <1>2, <1>3, <1>4, <1>7, <2>1, <2>3 DEF CircuitPC
  <2>5. there \in Int /\ next \in Int
    BY <1>3, <1>4, WordIs
  <2>6. CASE c = 1
    <3>1. TargetPC(i) = there /\ there # 0
      BY <1>4, <1>7, <2>3, <2>6 DEF TargetPC, Jumps
    <3>2. c * there + (1 - c) * next = there
      BY <2>5, <2>6
    <3> QED BY <2>4, <3>1, <3>2 DEF NextPC
  <2>7. CASE c = 0
    <3>1. TargetPC(i) = 0
      BY <1>7, <2>3, <2>7 DEF TargetPC
    <3>2. c * there + (1 - c) * next = next
      BY <2>5, <2>7
    <3> QED BY <1>3, <2>4, <3>1, <3>2 DEF NextPC
  <2> QED BY <2>3, <2>6, <2>7
<1>8. CASE i.op = "UNIMP"
  <2>1. TargetPC(i) = regs.pc /\ regs.pc # 0
    BY <1>8 DEF TargetPC, Jumps
  <2> QED BY <1>2, <1>8, <2>1 DEF NextPC, CircuitPC
<1>9. CASE i.op \notin {"JAL", "JALR", "BR", "UNIMP"}
  <2>1. TargetPC(i) = 0
    BY <1>9 DEF TargetPC
  <2>2. CircuitPC(w) = next
    BY <1>2, <1>3, <1>9 DEF CircuitPC
  <2> QED BY <1>3, <2>1, <2>2 DEF NextPC
<1> QED BY <1>5, <1>6, <1>7, <1>8, <1>9

\* The line that a store leaves behind holds the low bytes of Y.
LEMMA StoreHoldsOf ==
    ASSUME MachineOK, NEW i, Operands(i), ~Fails(i), NEW w, WitnessOf(w, i, Write(i))
    PROVE  StoreHolds(w)
<1>1. SUFFICES ASSUME i.op = "STORE"
               PROVE  LoadSelect(w.writeProof.leaf, AddCir(w.X, w.I), SizeOf(i.f))
                        = w.Y % ByteValues(SizeOf(i.f))
  BY DEF StoreHolds, WitnessOf
<1>2. PICK a \in Word : a = Address(i) /\ AddCir(w.X, w.I) = a
  <2>1. w.X = X(i) /\ w.I = i.imm /\ X(i) \in Word /\ i.imm \in Word
    BY <1>1, WitnessOperands DEF HasImm, Operands
  <2> QED BY <2>1, AddCirIs DEF Address, Operands
<1>3. PICK y \in Word : y = Y(i) /\ w.Y = y
  BY <1>1, WitnessOperands DEF Operands
<1>4. PICK line \in Line : line = Query(a) /\ LeafOf(a) \in Leaves
  BY QueryType
<1>5. PICK stored : stored = LineStore(line, i.f, a, y)
  OBVIOUS
<1>6. PICK new : new = UpdateTrie(mem, a, stored)
  OBVIOUS
<1>7. Write(i) = new
  BY <1>1, <1>2, <1>3, <1>4, <1>5, <1>6 DEF Write
<1>8. LineAt(new, a) = stored
  BY <1>4, <1>6, UpdateDigests DEF LineAt
<1>9. w.writeProof.leaf = stored
  <2>1. w.writeProof = QueryPath(new, a)
    BY <1>1, <1>2, <1>7 DEF WitnessOf
  <2> QED BY <1>8, <2>1, PathIs
<1>10. i.f \in Sops /\ Aligned(i.f, a)
  BY <1>1, <1>2 DEF Operands, Parsed, Fails
<1>11. LoadSelect(LineStore(line, i.f, a, y), a, SizeOf(i.f)) = y % ByteValues(SizeOf(i.f))
  BY <1>10, WordIs, StoreCircuitIs
<1> QED BY <1>2, <1>3, <1>5, <1>9, <1>11

\* A path that query makes, checked against the root of the memory it is of.
LEMMA PathHolds ==
    ASSUME NEW trie, Hashed(trie), NEW a \in Word
    PROVE  LET path == QueryPath(trie, a) IN Verify(path, Root(trie), path.leaf)
<1>1. LeafOf(a) \in Leaves
  BY WordIs, LeafOfIs
<1> QED BY <1>1, QueryVerifies, PathIs

\* The three paths of a step prove the instruction, what it reads and what it
\* leaves, and the last of them carries the root of the memory after it.
LEMMA MemoryProofsOf ==
    ASSUME MachineOK, NEW i, Operands(i), NEW after, Hashed(after),
           i.op = "STORE" \/ after = mem, NEW w, WitnessOf(w, i, after)
    PROVE  MemoryProofsHold(w) /\ w.writeProof.root = Root(after)
<1>1. PICK a \in Word, pc \in Word : a = Address(i) /\ pc = regs.pc
  BY DEF MachineOK, Operands
<1>2. Hashed(mem)
  BY DEF MachineOK
<1>3. PICK root : root = Root(mem)
  OBVIOUS
<1>4. w.pcProof = QueryPath(mem, pc) /\ w.pcProof.root = root
  BY <1>1, <1>3, PathIs DEF WitnessOf
<1>5. Verify(w.pcProof, root, w.pcProof.leaf)
  BY <1>1, <1>2, <1>3, <1>4, PathHolds
<1>6. \E b \in Word : w.readProof = QueryPath(mem, b)
  BY <1>1 DEF WitnessOf
<1>7. Verify(w.readProof, root, w.readProof.leaf) /\ w.readProof.root = root
  BY <1>2, <1>3, <1>6, PathHolds, PathIs
<1>8. Verify(w.writeProof, w.writeProof.root, w.writeProof.leaf) /\ w.writeProof.root = Root(after)
  <2>1. CASE i.op = "STORE"
    <3>1. w.writeProof = QueryPath(after, a)
      BY <1>1, <2>1 DEF WitnessOf
    <3>2. w.writeProof.root = Root(after)
      BY <3>1, PathIs
    <3>3. Verify(w.writeProof, Root(after), w.writeProof.leaf)
      BY <3>1, PathHolds
    <3> QED BY <3>2, <3>3
  <2>2. CASE i.op # "STORE"
    <3>1. w.writeProof = w.readProof /\ after = mem
      BY <2>2 DEF WitnessOf
    <3> QED BY <1>3, <1>7, <3>1
  <2> QED BY <2>1, <2>2
<1> QED BY <1>4, <1>5, <1>7, <1>8 DEF MemoryProofsHold

\* The step circuit accepts what the machine does in a step, and its output is
\* the machine after it.
LEMMA StepAccepted ==
    ASSUME MachineOK, Fetches, ~Fails(Current), BreaksPlain, FencesPlain, JumpsElsewhere,
           NEW after, Hashed(after), after = Write(Current),
           NEW w, WitnessOf(w, Current, after)
    PROVE  /\ Satisfies(w)
           /\ CircuitOutput(w) = [pc |-> NextPC(Current),
                                  x |-> SetReg(RD(Current), ResultZ(Current)),
                                  root |-> Root(after)]
<1>1. PICK i : i = Current
  OBVIOUS
<1>2. Operands(i)
  BY <1>1, CurrentIs, OperandTypes DEF Operands
<1>3. WitnessOf(w, i, after) /\ ~Fails(i) /\ after = Write(i)
  BY <1>1
<1>4. Jumps(i) => TargetPC(i) # 0
  BY <1>1 DEF JumpsElsewhere
<1>5. (i.op = "FENCE" => i.rd = 0 /\ i.rs1 = 0) /\ RegisterWritten(i)
  BY <1>1, WrittenIs DEF FencesPlain
<1>6. w.inst = i /\ w.regs = regs /\ w.Z = ResultZ(i) /\ w.PC = NextPC(i)
      /\ w.rd = WitnessRd(i) /\ w.rs1 = WitnessRs1(i) /\ w.rs2 = WitnessRs2(i)
  BY <1>3 DEF WitnessOf
<1>7. i.op \in Opcodes
  BY <1>2 DEF Operands, Parsed
<1>8. w.rd = CircuitRd(i) /\ w.rs1 = CircuitRs1(i) /\ w.rs2 = CircuitRs2(i)
  BY <1>5, <1>6, <1>7
     DEF Opcodes, WitnessRd, WitnessRs1, WitnessRs2, CircuitRd, CircuitRs1, CircuitRs2
<1>9. w.shamt = CircuitShamt(w)
  <2>1. i.op = "ALUI" => w.I = i.imm
    BY <1>2, <1>3, WitnessOperands DEF HasImm
  <2>2. CASE i.op = "ALUI"
    BY <1>3, <1>6, <2>1, <2>2 DEF WitnessOf, CircuitShamt
  <2>3. CASE i.op = "ALU"
    BY <1>3, <1>6, <2>3 DEF WitnessOf, CircuitShamt
  <2>4. CASE i.op \notin {"ALUI", "ALU"}
    BY <1>3, <1>6, <2>4 DEF WitnessOf, CircuitShamt
  <2> QED BY <2>2, <2>3, <2>4
<1>10. w.Z = CircuitZ(w)
  BY <1>2, <1>3, <1>6, CircuitZIs
<1>11. w.PC = CircuitPC(w)
  BY <1>2, <1>3, <1>4, <1>6, CircuitPCIs
<1>12. StoreHolds(w)
  BY <1>2, <1>3, StoreHoldsOf
<1>13. MemoryProofsHold(w) /\ w.writeProof.root = Root(after)
  <2>1. i.op = "STORE" \/ after = mem
    BY <1>3 DEF Write
  <2> QED BY <1>2, <1>3, <2>1, MemoryProofsOf
<1>14. Satisfies(w)
  BY <1>6, <1>8, <1>9, <1>10, <1>11, <1>12, <1>13 DEF Satisfies
<1>15. PICK r, z, x, rd : r = RD(i) /\ z = ResultZ(i) /\ x = regs.x /\ rd = WitnessRd(i)
  OBVIOUS
<1>16. [s \in DOMAIN x |-> IF s # 0 /\ s = rd THEN z ELSE x[s]] = SetReg(r, z)
  <2>1. x = [s \in DOMAIN x |-> x[s]]
    BY <1>15 DEF MachineOK
  <2>2. CASE rd # r
    <3>1. r = 0 /\ z = 0 /\ x[rd] = 0
      BY <1>5, <1>15, <2>2 DEF RegisterWritten
    <3>2. SetReg(r, z) = x
      BY <1>15, <3>1 DEF SetReg
    <3>3. \A s \in DOMAIN x : (IF s # 0 /\ s = rd THEN z ELSE x[s]) = x[s]
      BY <3>1
    <3> QED BY <2>1, <3>2, <3>3
  <2>3. CASE rd = r /\ r = 0
    BY <1>15, <2>1, <2>3 DEF SetReg
  <2>4. CASE rd = r /\ r # 0
    <3>1. SetReg(r, z) = [x EXCEPT ![r] = z]
      BY <1>15, <2>4 DEF SetReg
    <3> QED BY <2>1, <2>4, <3>1
  <2> QED BY <2>2, <2>3, <2>4
<1>17. CircuitOutput(w) = [pc |-> NextPC(i), x |-> SetReg(r, z), root |-> Root(after)]
  BY <1>6, <1>13, <1>15, <1>16 DEF CircuitOutput
<1> QED BY <1>1, <1>14, <1>15, <1>17

\* The last witness of the block that a step leaves is the one of that step.
LEMMA EvalAccepted ==
    ASSUME MachineOK, MachineOK', BlockOK, ReplayFollowsVm, EvalInst,
           BreaksPlain, FencesPlain, JumpsElsewhere
    PROVE  CircuitAccepts'
<1>1. /\ Fetches /\ ~Fails(Current)
      /\ mem' = Write(Current) /\ Hashed(mem')
      /\ regs' = [pc |-> NextPC(Current), x |-> SetReg(RD(Current), ResultZ(Current))]
  BY DEF EvalInst, MachineOK
<1>2. PICK e : e = TraceStep(Current, mem')
  OBVIOUS
<1> PICK n \in Nat : n = Len(block.steps)
  BY DEF BlockOK, IsSeq
<1>3. PICK s, t, r :
        /\ s = block.steps /\ t = block'.steps /\ n = Len(s) /\ r = block.regs /\ r = block'.regs
        /\ Len(t) = n + 1 /\ t[n + 1] = e /\ \A k \in 1 .. n : s[k] = t[k]
  <2>1. PICK s, t : s = block.steps /\ t = block'.steps /\ IsSeq(s) /\ Appends(t, s, e)
    BY <1>2, EvalBlock DEF BlockOK, Appends
  <2>2. /\ Len(s) \in Nat /\ Len(t) = Len(s) + 1
        /\ t[Len(s) + 1] = e /\ \A k \in 1 .. Len(s) : t[k] = s[k]
    BY <2>1, AppendStep
  <2>3. block'.regs = block.regs
    BY EvalBlock
  <2> QED BY <2>1, <2>2, <2>3
<1>4. PICK f, g : f = Replayed /\ g = Replayed' /\ Follows(f, r, s) /\ Follows(g, r, t)
  <2>1. Follows(Replayed, block.regs, block.steps)'
    BY ReplayedIs, PTL
  <2> QED BY <1>3, <2>1, ReplayedIs
<1>5. g[n] = regs
  <2>1. f[n] = regs
    BY <1>3, <1>4 DEF ReplayFollowsVm
  <2>2. Alike(s, t, n)
    BY <1>3 DEF Alike
  <2> QED BY <1>4, <2>1, <2>2, FollowsAgree
<1>6. PICK w : w = Witness(regs, e) /\ WitnessOf(w, Current, mem')
  BY <1>2, WitnessIs
<1>7. WitnessAt(Len(block.steps))' = w
  <2>1. Witness(g[(n + 1) - 1], t[n + 1]) = w
    BY <1>3, <1>5, <1>6
  <2>2. WitnessAt(Len(block.steps))' = Witness(g[Len(t) - 1], t[Len(t)])
    BY <1>3, <1>4 DEF WitnessAt
  <2> QED BY <1>3, <2>1, <2>2
<1>8. /\ Satisfies(w)
      /\ CircuitOutput(w) = [pc |-> NextPC(Current),
                             x |-> SetReg(RD(Current), ResultZ(Current)), root |-> Root(mem')]
  BY <1>1, <1>6, StepAccepted
<1>9. CircuitOutput(w) = [pc |-> regs'.pc, x |-> regs'.x, root |-> Root(mem')]
  BY <1>1, <1>8
<1> QED BY <1>7, <1>8, <1>9 DEF CircuitAccepts

\* Every step that the machine takes satisfies the step circuit, for every
\* program, width, input and length of a block, and the circuit's output is the
\* machine after the step, memory commitment included: as long as the breaks
\* and the fences are plain and nothing jumps to zero.
THEOREM CircuitCorrect ==
    Spec /\ []BreaksPlain /\ []FencesPlain /\ []JumpsElsewhere => []CircuitAccepts
<1>1. Len(block.steps) = 0 => CircuitAccepts
  BY DEF CircuitAccepts
<1>2. Init => CircuitAccepts
  BY <1>1, EmptyIsSeq DEF Init, NewBlock
<1>3. MachineOK /\ MachineOK' /\ BlockOK /\ ReplayFollowsVm /\ CircuitAccepts /\ BreaksPlain
        /\ FencesPlain /\ JumpsElsewhere /\ [Next]_vars => CircuitAccepts'
  <2>1. SUFFICES ASSUME MachineOK, MachineOK', BlockOK, ReplayFollowsVm, CircuitAccepts,
                        BreaksPlain, FencesPlain, JumpsElsewhere, [Next]_vars
                 PROVE  CircuitAccepts'
    OBVIOUS
  <2>2. CASE EvalInst
    BY <2>1, <2>2, EvalAccepted
  <2>3. CASE EvalFails \/ UNCHANGED vars \/ (EndBlock /\ block' = block)
    <3>1. block' = block /\ regs' = regs /\ mem' = mem
      BY <2>3 DEF EvalFails, EndBlock, vars
    <3> QED BY <2>1, <3>1 DEF CircuitAccepts, WitnessAt, Replayed
  <2>4. CASE EndBlock /\ block' # block
    <3>1. block'.steps = <<>>
      BY <2>4 DEF EndBlock, NewBlock
    <3>2. Len(block.steps)' = 0
      BY <3>1, EmptyIsSeq
    <3>3. (Len(block.steps) = 0)' => CircuitAccepts'
      BY <1>1, PTL
    <3> QED BY <3>2, <3>3
  <2> QED BY <2>1, <2>2, <2>3, <2>4 DEF Next
<1> QED BY <1>2, <1>3, VmTypes, ReplayCorrect, PTL DEF Spec

=============================================================================
