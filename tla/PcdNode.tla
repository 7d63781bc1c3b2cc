------------------------------ MODULE PcdNode -------------------------------
(***************************************************************************)
(* Proof-carrying-data nodes: nova/src/circuits/nova/pcd/mod.rs and the     *)
(* augmented circuit of pcd/augmented.rs.                                   *)
(*                                                                         *)
(* A node claims that running the step circuit on steps i .. j - 1 takes    *)
(* z_i to z_j.  The instances, witnesses and folding proofs it carries are  *)
(* abstracted to one bit, "sat": whether every augmented circuit folded     *)
(* into the node is satisfied.  That is what PCDNode::verify finds out, the *)
(* commitment scheme and the random oracle being ideal.                     *)
(***************************************************************************)
EXTENDS Integers

CONSTANT StepCircuit(_, _)   \* StepCircuit(j, z): the output of step j on input z

\* prove_leaf_with_commit_fn: the base case of the augmented circuit.
ProveLeaf(i, z) ==
    [i |-> i, j |-> i + 1, zi |-> z, zj |-> StepCircuit(i, z), sat |-> TRUE]

\* As a bug would have it: the step numbers are tied, the states are not.
LinksByIndex(l, r) == r.i = l.j + 1

\* The equalities the augmented circuit enforces when it is not in the base
\* case: the hash of the right child is recomputed from the step after the
\* left child's last one and from the output of the step in between.
Links(l, r) ==
    /\ r.i = l.j + 1
    /\ r.zi = StepCircuit(l.j, l.zj)

\* prove_parent_with_commit_fn.  Witness generation never fails on a circuit
\* that is not satisfied; only verify notices.
ProveParent(l, r) ==
    [i |-> l.i, j |-> r.j, zi |-> l.zi, zj |-> r.zj,
     sat |-> l.sat /\ r.sat /\ Links(l, r)]

Verify(n) == n.sat

=============================================================================
