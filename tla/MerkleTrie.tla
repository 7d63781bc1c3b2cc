----------------------------- MODULE MerkleTrie -----------------------------
(***************************************************************************)
(* The sparse Merkle trie of cache lines, vm/src/memory/trie.rs, and the    *)
(* paths that prove a line of it, vm/src/memory/path.rs.                    *)
(*                                                                         *)
(* A trie is a function from its populated nodes to their contents.  A node *)
(* is named by the turns that lead to it from the root <<>>, 0 to the left; *)
(* an inner node holds its digest, a leaf its digest and its line.          *)
(*                                                                         *)
(* The hash is ideal, two digests are equal only when what was hashed is: a *)
(* digest is the line or the pair of digests it was made from, <<>> for the *)
(* default line.                                                            *)
(***************************************************************************)
EXTENDS Rv32, Sequences

CACHE_BITS == Ilog2(LineBytes)
CACHE_LOG == WordBits - CACHE_BITS

HashMemory(line) == IF line = ZeroLine THEN <<>> ELSE line
Compress(l, r) == <<l, r>>

\* compute_zeros: the digest of an empty subtree, by level.
Zeros[level \in 0 .. CACHE_LOG] ==
    IF level = CACHE_LOG THEN HashMemory(ZeroLine)
    ELSE LET d == Zeros[level + 1] IN Compress(d, d)

EmptyTrie == [p \in {} |-> ZeroLine]

\* The leaf of an address.  The address is reversed, and each level shifts it
\* before it looks at the lowest bit: the first turn is taken by the second
\* bit from the top and the last one by the top bit of the offset in a line.
LeafOf(a) == [k \in 1 .. CACHE_LOG |-> Bit(a, WordBits - 1 - k)]

Up(p, level) == SubSeq(p, 1, level)
IsLeft(p) == p[Len(p)] = 0
Sibling(p) == [p EXCEPT ![Len(p)] = 1 - @]
Digest(trie, p) == IF p \in DOMAIN trie THEN trie[p].digest ELSE Zeros[Len(p)]
Root(trie) == Digest(trie, <<>>)

\* Path::new, with the siblings from the leaf to the root.
PathOf(trie, a, line) ==
    LET leaf == LeafOf(a)
    IN  [root |-> Root(trie),
         leaf |-> line,
         auth |-> [k \in 1 .. CACHE_LOG |->
                      LET p == Up(leaf, CACHE_LOG + 1 - k)
                      IN  [isLeft |-> IsLeft(p), digest |-> Digest(trie, Sibling(p))]]]

\* A trie as updates make it: the digest of a node is the hash of what is
\* below it, and a leaf holds a line.
Leaves == [1 .. CACHE_LOG -> {0, 1}]
Inner == UNION {[1 .. n -> {0, 1}] : n \in 0 .. CACHE_LOG - 1}
LineOf(trie, leaf) == IF leaf \in DOMAIN trie THEN trie[leaf].val ELSE ZeroLine
Hashed(trie) ==
    /\ \A p \in Leaves : LineOf(trie, p) \in Line /\ Digest(trie, p) = HashMemory(LineOf(trie, p))
    /\ \A p \in Inner :
          Digest(trie, p) = Compress(Digest(trie, Append(p, 0)), Digest(trie, Append(p, 1)))

LineAt(trie, a) == LineOf(trie, LeafOf(a))
QueryPath(trie, a) == PathOf(trie, a, LineAt(trie, a))

Ancestors(leaf) == {Up(leaf, level) : level \in 0 .. CACHE_LOG - 1}

UpdateLeafOnly(trie, a, line) ==
    LET leaf == LeafOf(a)
    IN  [p \in DOMAIN trie \cup Ancestors(leaf) \cup {leaf} |->
            IF p = leaf THEN [digest |-> HashMemory(line), val |-> line]
            ELSE IF p \in DOMAIN trie THEN trie[p] ELSE [digest |-> Zeros[Len(p)]]]

\* update_inner: the nodes down to the leaf are allocated, the line is
\* replaced, and on the way back every digest is computed from the two below.
UpdateTrie(trie, a, line) ==
    LET leaf == LeafOf(a)
        digest[level \in 0 .. CACHE_LOG] ==
            IF level = CACHE_LOG THEN HashMemory(line)
            ELSE LET p == Up(leaf, level + 1)
                 IN  IF IsLeft(p) THEN Compress(digest[level + 1], Digest(trie, Sibling(p)))
                     ELSE Compress(Digest(trie, Sibling(p)), digest[level + 1])
    IN  [p \in DOMAIN trie \cup Ancestors(leaf) \cup {leaf} |->
            CASE p = leaf -> [digest |-> digest[CACHE_LOG], val |-> line]
              [] p \in Ancestors(leaf) -> [digest |-> digest[Len(p)]]
              [] OTHER -> trie[p]]

\* Path::verify and verify_circuit: the hashes from the leaf upwards.
Verify(path, root, line) ==
    LET n == Len(path.auth)
        hash[k \in 0 .. n] ==
            IF k = 0 THEN HashMemory(line)
            ELSE LET node == path.auth[k]
                 IN  IF node.isLeft THEN Compress(hash[k - 1], node.digest)
                     ELSE Compress(node.digest, hash[k - 1])
    IN  hash[n] = root

=============================================================================
