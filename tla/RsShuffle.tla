----------------------------- MODULE RsShuffle -----------------------------
(***************************************************************************)
(* The Rao-Sandelius shuffle (nova/src/shuffling/rs_shuffle): split bits   *)
(* drawn from a sponge, one stable partition of every bucket per level,    *)
(* and the circuit that checks the rows of every level.                    *)
(*                                                                         *)
(* A level is a sequence of N rows.  Indices and positions count from 0,   *)
(* as in the code, while TLA+ sequences start at 1: the row at position    *)
(* p is entry p + 1.  An element of the circuit's field is in Fe.          *)
(***************************************************************************)
EXTENDS Field

CONSTANTS N, LEVELS          \* the size of the deck, the number of levels

ASSUME ShuffleAssumption == N \in 1..(P - 1) /\ LEVELS \in Nat \ {0}

Positions == 1..N

----------------------------------------------------------------------------
(* Split bits. *)

MODULUS_BIT_SIZE == CHOOSE k \in 1..P : 2^(k - 1) <= P /\ P < 2^k

\* The k-th answer of a Poseidon sponge that absorbed seed.
Squeezed(seed, k) == Challenges(seed, k, 1)[1]

GenerateRandomValues(seed, count) == Vec([k \in 1..count |-> Squeezed(seed, k)])

\* Field elements needed for all the bits, two bits of each being trimmed.
NumSamples ==
  LET usable == MODULUS_BIT_SIZE - 2
  IN (N * LEVELS + usable - 1) \div usable

\* The bits of the values, least significant first, without the first and
\* the last of each, cut into LEVELS rows of N; FALSE where they run out.
BitMatrix(values) ==
  LET stream ==
        Vec([b \in 1..(Len(values) * (MODULUS_BIT_SIZE - 2)) |->
               LET v == values[1 + (b - 1) \div (MODULUS_BIT_SIZE - 2)]
                   i == 1 + ((b - 1) % (MODULUS_BIT_SIZE - 2))
               IN (v \div 2^i) % 2 = 1])
  IN Vec([l \in 1..LEVELS |->
        Vec([i \in Positions |->
               LET b == (l - 1) * N + i
               IN b <= Len(stream) /\ stream[b]])])

DeriveSplitBits(seed) == BitMatrix(GenerateRandomValues(seed, NumSamples))

\* The circuit squeezes its samples in one request and takes the number the
\* prover reports.
DeriveSplitBitsCircuit(seed, samples) ==
  BitMatrix(Vec([k \in 1..samples |-> Squeezed(seed, k)]))

----------------------------------------------------------------------------
(* Witness preparation. *)

SortedRow(idx, length, bucket) ==
  [idx |-> idx, length |-> length, bucket |-> bucket]

InitialRows == Vec([i \in Positions |-> SortedRow(i - 1, N, 0)])

Count(S) == Cardinality(S)

\* RunStart without the reset of the counters at a new bucket.
RunStartNoReset(rows, i) == 1

\* The first position of the run of rows with one bucket that i is in, where
\* the running counters start from zero.
RunStart(rows, i) ==
  CHOOSE k \in 1..i :
    /\ \A j \in k..i : rows[j].bucket = rows[i].bucket
    /\ k > 1 => rows[k - 1].bucket # rows[i].bucket

\* One row of a level: counters before it in its bucket, totals of the
\* bucket, and where it goes.
UnsortedRow(rows, bits, i) ==
  LET inBucket == {k \in Positions : rows[k].bucket = rows[i].bucket}
      before == RunStart(rows, i)..(i - 1)
      start == (CHOOSE k \in inBucket : \A j \in inBucket : k <= j) - 1
      numZeros == Count({k \in before : ~bits[k]})
      numOnes == Count({k \in before : bits[k]})
      zeros == Count({k \in inBucket : ~bits[k]})
  IN [bit |-> bits[i], num_zeros |-> numZeros, num_ones |-> numOnes,
      total_zeros |-> zeros, bucket_length |-> Count(inBucket),
      idx |-> rows[i].idx, bucket_id |-> rows[i].bucket,
      next_pos |-> start + (IF bits[i] THEN zeros + numOnes ELSE numZeros)]

\* A stable sort: which position comes to p, the keys in ascending order.
Before(key, a) == {b \in Positions : key[b] < key[a] \/ (key[b] = key[a] /\ b < a)}
SortOrder(key) ==
  [p \in Positions |-> CHOOSE a \in Positions : Cardinality(Before(key, a)) = p - 1]

\* The rows in the order of next_pos, each in the bucket its bit sends it to.
NextRows(uns) ==
  LET order == SortOrder([a \in Positions |-> uns[a].next_pos])
  IN Vec([p \in Positions |->
        LET u == uns[order[p]]
        IN SortedRow(u.idx,
             IF u.bit THEN u.bucket_length - u.total_zeros ELSE u.total_zeros,
             2 * u.bucket_id + (IF u.bit THEN 1 ELSE 0))])

BuildLevel(rows, bits) ==
  LET uns == Vec([i \in Positions |-> UnsortedRow(rows, bits, i)])
  IN [uns |-> uns, next |-> NextRows(uns)]

\* Level after level, each from the sorted rows of the one before.
PrepareWitnessData(seed) ==
  LET bits == DeriveSplitBits(seed)
      level[l \in 0..LEVELS] ==
        IF l = 0 THEN [uns |-> <<>>, next |-> InitialRows]
                 ELSE BuildLevel(level[l - 1].next, bits[l])
  IN [bits_mat |-> bits, levels |-> Vec([l \in 1..LEVELS |-> level[l]])]

ApplyPermutation(witness, input) ==
  Vec([p \in Positions |-> input[witness.levels[LEVELS].next[p].idx + 1]])

----------------------------------------------------------------------------
(* The circuit. *)

\* Advice for the circuit: the rows of the prover, with the bits the circuit
\* derives itself.
PrepareWitnessDataCircuit(seed, witness, samples) ==
  LET bits == DeriveSplitBitsCircuit(seed, samples)
  IN Vec([l \in 1..LEVELS |->
        [uns |-> Vec([i \in Positions |->
                   [witness.levels[l].uns[i] EXCEPT !.bit = bits[l][i]]]),
         sorted |-> witness.levels[l].next]])

\* What verify_row_constraints demands of the row at position i - 1: the
\* counters advance inside a bucket, end at its totals, and next_pos is the
\* target they give.
RowConstraints(uns, i) ==
  LET u == uns[i]
      bit == IF u.bit THEN 1 ELSE 0
      last == i = N \/ uns[i + 1].bucket_id # u.bucket_id
      base == (i - 1) - (u.num_zeros + u.num_ones)
      offset == u.num_zeros + bit * (u.total_zeros - u.num_zeros + u.num_ones)
  IN /\ ~last => LET next == uns[i + 1]
                 IN /\ next.num_zeros = (u.num_zeros + 1 - bit) % P
                    /\ next.num_ones = (u.num_ones + bit) % P
                    /\ next.total_zeros = u.total_zeros
                    /\ next.bucket_length = u.bucket_length
     /\ last => /\ u.num_zeros = Minus(u.total_zeros, 1 - bit)
                /\ u.num_ones = Minus(u.bucket_length, u.total_zeros + bit)
     /\ u.next_pos = (base + offset) % P

\* Equality of two products of random combinations of the items.
CheckGrandProduct(left, right, challenges) ==
  LET compress(items) == [k \in 1..Len(items) |-> Dot(challenges, items[k])]
  IN Product(compress(left)) = Product(compress(right))

VerifyShuffleLevel(level, alpha, beta) ==
  /\ \A i \in Positions : RowConstraints(level.uns, i)
  /\ CheckGrandProduct(
       [i \in Positions |-> <<level.uns[i].idx, level.uns[i].next_pos>>],
       [j \in Positions |-> <<level.sorted[j].idx, j - 1>>],
       <<alpha, beta>>)

\* The circuit of a shuffle of init into after; a ciphertext enters the last
\* product by the coordinates of its two points.
RsShuffleSatisfied(init, after, levels, alpha, beta) ==
  LET indexed(rows, cts) ==
        [i \in Positions |-> <<rows[i].idx, cts[i].c1, cts[i].c2>>]
  IN /\ \A l \in 1..LEVELS : VerifyShuffleLevel(levels[l], alpha, beta)
     /\ CheckGrandProduct(indexed(levels[1].uns, init),
                          indexed(levels[LEVELS].sorted, after),
                          <<alpha, beta, Times(beta, beta)>>)

----------------------------------------------------------------------------
(* Reference: what the shuffle is for.  A level is a stable sort of the     *)
(* deck by bucket and, in a bucket, by bit; the bits of a level go to the   *)
(* positions of the deck in order.                                          *)

SplitDeck(rows, bits) ==
  LET side == [p \in Positions |-> 2 * rows[p].bucket + (IF bits[p] THEN 1 ELSE 0)]
      order == SortOrder(side)
  IN Vec([p \in Positions |->
        [idx |-> rows[order[p]].idx, bucket |-> side[order[p]]]])

StablePartition(bits) ==
  LET split[l \in 0..LEVELS] ==
        IF l = 0 THEN Vec([i \in Positions |-> [idx |-> i - 1, bucket |-> 0]])
                 ELSE SplitDeck(split[l - 1], bits[l])
  IN [p \in Positions |-> split[LEVELS][p].idx]
=============================================================================
