------------------------------ MODULE Mangrove ------------------------------
(***************************************************************************)
(* A long hash chain cut into leaves (tree_folding/mangrove).  A leaf      *)
(* declares its first and its last state; that the last state of a leaf is *)
(* the first of the next is shown by a permutation argument: every cell    *)
(* has an index and the index of the cell it must equal, and each leaf     *)
(* multiplies alpha*index + beta + value into a numerator and the same     *)
(* with the other index into a denominator.                                *)
(***************************************************************************)
EXTENDS Field

CONSTANT Width              \* bytes of a state (32)

\* SHA-256 stands for a function nobody inverts; any function will do here.
Digest(v) == Vec([i \in 1..Width |-> (3 * v[i] + 2 * v[1 + (i % Width)] + i) % P])

\* generate_sha256_chain: every state after the first.
HashChain(input, n) ==
  LET c[i \in 0..n] == IF i = 0 THEN <<input>> ELSE Append(c[i - 1], Digest(c[i - 1][i]))
  IN Tail(c[n])

BuilderOk(chain_length, num_leafs) ==
  chain_length > 0 /\ num_leafs > 0 /\ chain_length % num_leafs = 0

\* generate_requests: where each leaf starts.
GenerateRequests(input, chain_length, num_leafs) ==
  LET leaf_size == chain_length \div num_leafs
      r[k \in 1..num_leafs] ==
        IF k = 1 THEN input ELSE HashChain(r[k - 1], leaf_size)[leaf_size]
  IN Vec([k \in 1..num_leafs |-> [input |-> r[k], num_iterations |-> leaf_size]])

\* As a bug would have it: an input is tied to the inputs of the leaf before.
InputNextToInputs(leaf, i) ==
  IF leaf = 0 THEN i ELSE (leaf - 1) * 2 * Width + i

\* The first leaf's input and the last leaf's output are tied to themselves.
InputNext(leaf, i) ==
  IF leaf = 0 THEN i ELSE (leaf - 1) * 2 * Width + Width + i
OutputNext(leaf, num_leafs, i) ==
  IF leaf < num_leafs - 1 THEN (leaf + 1) * 2 * Width + i
  ELSE leaf * 2 * Width + Width + i

\* compute_mangrove_constraints, for one request.
MangroveComputation(leaf, num_leafs, request) ==
  LET hashes == HashChain(request.input, request.num_iterations)
      base == leaf * 2 * Width
  IN [input |-> request.input, output |-> hashes[Len(hashes)], hashes |-> hashes,
      num_iterations |-> request.num_iterations,
      iidx |-> Vec([i \in 1..Width |-> base + i - 1]),
      inext |-> Vec([i \in 1..Width |-> InputNext(leaf, i - 1)]),
      oidx |-> Vec([i \in 1..Width |-> base + Width + i - 1]),
      onext |-> Vec([i \in 1..Width |-> OutputNext(leaf, num_leafs, i - 1)])]

\* SHA256ChainMangroveComputation::verify.
ComputationVerify(c) ==
  /\ Len(c.hashes) = c.num_iterations
  /\ \A i \in 1..Len(c.hashes) :
       c.hashes[i] = Digest(IF i = 1 THEN c.input ELSE c.hashes[i - 1])
  /\ c.hashes[Len(c.hashes)] = c.output

PartialProducts(values, indices, next_indices, alpha, beta) ==
  <<Product([i \in 1..Len(values) |-> alpha * indices[i] + beta + values[i]]),
    Product([i \in 1..Len(values) |-> alpha * next_indices[i] + beta + values[i]])>>

\* MangroveLeafCircuit: the base circuit hashes the input; of its output
\* only the length is compared with the declared one.
LeafCircuit(c, alpha, beta) ==
  LET computed == HashChain(c.input, c.num_iterations)[c.num_iterations]
      in == PartialProducts(c.input, c.iidx, c.inext, alpha, beta)
      out == PartialProducts(c.output, c.oidx, c.onext, alpha, beta)
  IN [ok |-> Len(computed) = Len(c.output),
      num |-> Times(in[1], out[1]), den |-> Times(in[2], out[2])]
=============================================================================
