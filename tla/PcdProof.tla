------------------------------ MODULE PcdProof ------------------------------
(***************************************************************************)
(* Proof-carrying data with the instances it carries: prove_leaf,          *)
(* prove_parent and verify of nova/src/circuits/nova/pcd/mod.rs, the       *)
(* augmented circuit of pcd/augmented.rs, and the compressed proof of      *)
(* pcd/compression.  PcdNode says in one bit what these promise.           *)
(*                                                                         *)
(* A node holds a relaxed instance, a secondary accumulator and a fresh    *)
(* instance of its own augmented circuit.  A parent folds each child's     *)
(* fresh instance into the child's relaxed one, and the two results into   *)
(* one; it verifies nothing.                                               *)
(***************************************************************************)
EXTENDS Ivc

VARIABLES nodes,            \* the nodes made, in order
          compressed        \* a compressed proof, once there is one

pvars == <<job, params, proof, saved, reloaded, fold, nodes, compressed>>

Spartan == INSTANCE SpartanInstance

(* Nodes.  `of` names the two a node was made of. *)

NodeHash(i, j, z_i, z_j, flat) == StepHash(<<i, j>>, z_i, z_j, flat)

\* prove_leaf: the base case, with the zero accumulators.
Leaf(i, z) ==
  [i |-> i, j |-> i + 1, z_i |-> z, z_j |-> StepResult(z), of |-> <<>>,
   acc |-> RelaxedDefault(Shape(1)), sec |-> RelaxedDefault(SecShape),
   u |-> Assign(1, z, 0, NodeHash(i, i + 1, z, StepResult(z),
                                  FlatNovaVar(U_base, U_secondary_base)))]

\* As a bug would have it: the right child starts where the left one ends.
AugmentedFoldedNoStep(l, r, ml, mr, m) ==
  LET failed == Failed(<<
        NodeHash(l.i, l.j, l.z_i, l.z_j, FlatNovaVar(l.acc.U, l.sec.U)) = l.u.U.X[2],
        NodeHash(l.j, r.j, l.z_j, r.z_j, FlatNovaVar(r.acc.U, r.sec.U)) = r.u.U.X[2],
        ml.ok, mr.ok, m.ok>>)
  IN [left |-> ml, right |-> mr, whole |-> m,
      u |-> Assign(1, l.z_j, failed,
              NodeHash(l.i, r.j, l.z_i, r.z_j, FlatNovaVar(m.U, m.U2)))]
\* The augmented circuit of a parent.  A child spans a step at least, so i
\* and j differ and it is not the base case: everything is enforced.
AugmentedFolded(l, r, ml, mr, m) ==
  LET z_next == StepResult(l.z_j)
      failed == Failed(<<
        NodeHash(l.i, l.j, l.z_i, l.z_j, FlatNovaVar(l.acc.U, l.sec.U)) = l.u.U.X[2],
        NodeHash(l.j + 1, r.j, z_next, r.z_j, FlatNovaVar(r.acc.U, r.sec.U)) = r.u.U.X[2],
        ml.ok, mr.ok, m.ok>>)
  IN [left |-> ml, right |-> mr, whole |-> m,
      u |-> Assign(1, l.z_j, failed,
              NodeHash(l.i, r.j, l.z_i, r.z_j, FlatNovaVar(m.U, m.U2)))]
AugmentedMerged(l, r, ml, mr, pf) ==
  AugmentedFolded(l, r, ml, mr, MultifoldRelaxed(Digest, ml.U, ml.U2, mr.U, mr.U2, pf))
AugmentedPcd(l, r, pl, pr, pf) ==
  AugmentedMerged(l, r, Multifold(Digest, l.acc.U, l.sec.U, AllocFresh(l.u.U), pl),
                  Multifold(Digest, r.acc.U, r.sec.U, AllocFresh(r.u.U), pr), pf)

NodeVerify(n) ==
  /\ n.u.U.X[2] = NodeHash(n.i, n.j, n.z_i, n.z_j, FlatNova(n.acc.U, n.sec.U))
  /\ RelaxedSat(Shape(1), n.acc.U, n.acc.W)
  /\ RelaxedSat(SecShape, n.sec.U, n.sec.W)
  /\ R1csSat(Shape(1), n.u.U, n.u.W)

(* Compression: the fresh instance is folded in, the secondary witness is  *)
(* sent and the primary one proved with Spartan.                           *)

\* Spartan's assignment is witness, u, inputs instead of u, inputs, witness.
Rearrange(s, M) ==
  ConcatAll([i \in 1..Len(M) |-> [k \in 1..Len(M[i]) |->
    <<i - 1, IF M[i][k][2] >= s.io THEN M[i][k][2] - s.io ELSE M[i][k][2] + s.vars,
      M[i][k][1]>>]])
Crr1csShape(s) ==
  Spartan!InstanceNew(s.cons, s.vars, s.io - 1, [m \in 1..3 |-> Rearrange(s, s.Ms[m])])

\* What a Spartan proof made with the witness W shows of an instance U.
SpartanAccepts(s, U, W) ==
  /\ U.comm = CommitVec(s, W.W) /\ U.commE = CommitVec(s, W.E)
  /\ Crr1csShape(s).ok
  /\ Spartan!IsSat(Crr1csShape(s), W.W, U.X[1], W.E, Tail(U.X))

CompressedOf(n, f) ==
  [i |-> n.i, j |-> n.j, z_i |-> n.z_i, z_j |-> n.z_j, U |-> n.acc.U, V |-> n.sec.U,
   u |-> n.u.U, W_secondary |-> f.sec.W, spartan |-> f.acc.W, folding |-> f.proof]
CompressNode(n) == CompressedOf(n, NimfsNova(Shape(1), Digest, n.acc, n.sec, n.u))

CompressedVerify(c) ==
  /\ c.u.X[2] = NodeHash(c.i, c.j, c.z_i, c.z_j, FlatNova(c.U, c.V))
  /\ \E v \in {NimfsNovaVerify(Digest, c.U, c.V, c.u, c.folding)} :
       /\ v.ok
       /\ RelaxedSat(SecShape, v.U2, c.W_secondary)
       /\ SpartanAccepts(Shape(1), v.U, c.spartan)

(* Behaviour.  A caller proves the even steps as leaves, from the states   *)
(* it believes in, then makes parents of nodes that have none yet.         *)

PcdProveLeaf ==
  /\ job.scheme = "pcd" /\ Len(nodes) < job.leaves
  /\ \E z \in {After(job.z_0, 2 * Len(nodes))} \cup job.believed :
       nodes' = Append(nodes, Leaf(2 * Len(nodes), z))
  /\ UNCHANGED <<job, params, proof, saved, reloaded, fold, compressed>>

Roots == {k \in 1..Len(nodes) : \A n \in 1..Len(nodes) :
            \A c \in 1..Len(nodes[n].of) : nodes[n].of[c] # k}

FoldedAll(fs) ==
  [made |-> TRUE, asserts |-> \A k \in 1..Len(fs) : fs[k].asserts,
   verifies |-> \A k \in 1..Len(fs) : fs[k].verifies,
   enforced |-> \A k \in 1..Len(fs) : fs[k].enforced,
   prover |-> [k \in 1..Len(fs) |-> fs[k].prover],
   verifier |-> [k \in 1..Len(fs) |-> fs[k].verifier],
   circuit |-> [k \in 1..Len(fs) |-> fs[k].circuit]]

PcdProveParent ==
  /\ job.scheme = "pcd" /\ Len(nodes) >= job.leaves
  /\ \E kl, kr \in Roots :
     \E l \in {nodes[kl]}, r \in {nodes[kr]} :
     \E nl \in {NimfsNova(Shape(1), Digest, l.acc, l.sec, l.u)},
        nr \in {NimfsNova(Shape(1), Digest, r.acc, r.sec, r.u)} :
     \E n \in {NimfsRelaxed(Shape(1), Digest, nl.acc, nl.sec, nr.acc, nr.sec)} :
     \E a \in {AugmentedPcd(l, r, nl.proof, nr.proof, n.proof)} :
       /\ kl # kr
       /\ nodes' = Append(nodes, [i |-> l.i, j |-> r.j, z_i |-> l.z_i, z_j |-> r.z_j,
                                  of |-> <<kl, kr>>, acc |-> n.acc, sec |-> n.sec, u |-> a.u])
       /\ fold' = FoldedAll(<<
            Folded(nl, NimfsNovaVerify(Digest, l.acc.U, l.sec.U, l.u.U, nl.proof), a.left),
            Folded(nr, NimfsNovaVerify(Digest, r.acc.U, r.sec.U, r.u.U, nr.proof), a.right),
            Folded(n, NimfsRelaxedVerify(Digest, nl.acc.U, nl.sec.U, nr.acc.U, nr.sec.U,
                                         n.proof), a.whole)>>)
  /\ UNCHANGED <<job, params, proof, saved, reloaded, compressed>>

PcdCompress ==
  /\ job.scheme = "pcd" /\ compressed = None
  /\ \E k \in Roots : compressed' = [node |-> k, proof |-> CompressNode(nodes[k])]
  /\ UNCHANGED <<job, params, proof, saved, reloaded, fold, nodes>>

PcdInit == Init /\ nodes = <<>> /\ compressed = None
PcdNext ==
  \/ Next /\ UNCHANGED <<nodes, compressed>>
  \/ PcdProveLeaf \/ PcdProveParent \/ PcdCompress

PcdSpec == PcdInit /\ [][PcdNext]_pvars

(***************************************************************************)
(* Properties.                                                             *)
(***************************************************************************)
PcdStep(j, z) == StepResult(z)
Promise == INSTANCE PcdNode WITH StepCircuit <- PcdStep

\* What PcdNode makes of the same leaves and parents.
Promised(k) ==
  LET p[n \in 1..Len(nodes)] ==
        IF nodes[n].of = <<>> THEN Promise!ProveLeaf(nodes[n].i, nodes[n].z_i)
        ELSE Promise!ProveParent(p[nodes[n].of[1]], p[nodes[n].of[2]])
  IN p[k]

\* A node verifies exactly when every parent below it joins nodes that fit
\* (Links of PcdNode: the right one starts one step after the left one, from
\* that step's result), and claims what PcdNode claims: no fold above hides
\* a misfit below.  So does its compressed proof.
NodeKeepsPromise ==
  /\ \A k \in 1..Len(nodes) :
       LET n == nodes[k]
           p == Promised(k)
       IN /\ <<n.i, n.j, n.z_i, n.z_j>> = <<p.i, p.j, p.zi, p.zj>>
          /\ NodeVerify(n) <=> Promise!Verify(p)
  /\ IsSome(compressed)
       => (CompressedVerify(compressed.proof) <=> Promise!Verify(Promised(compressed.node)))
=============================================================================
