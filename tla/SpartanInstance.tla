-------------------------- MODULE SpartanInstance --------------------------
(***************************************************************************)
(* The R1CS instances Spartan proves: how Instance::new pads one, when an  *)
(* assignment satisfies it, relaxed or not, and its commitment             *)
(* (spartan/src/lib.rs, r1csinstance.rs, crr1cs.rs).                       *)
(***************************************************************************)
EXTENDS SparsePoly

(* Instances (Instance::new). *)

NumVarsPadded(n, inputs) == NextPow2(Max2(n, inputs + 1))

\* The two statements of the source in order: at least two, then the power
\* of two of the number asked for.
NumConsPadded(num_cons) ==
  LET atLeastTwo == IF num_cons \in {0, 1} THEN 2 ELSE num_cons
  IN IF NextPow2(num_cons) # num_cons THEN NextPow2(num_cons) ELSE atLeastTwo

\* Columns past the variables move behind the padding; a one-row matrix gets
\* zero entries up to the padded number of rows.
PadMatrix(M, num_cons, num_vars, cons_padded, vars_padded) ==
  [i \in 1..Len(M) |-> IF M[i][2] >= num_vars
                       THEN <<M[i][1], M[i][2] + vars_padded - num_vars, M[i][3]>>
                       ELSE M[i]]
  \o (IF num_cons \in {0, 1}
      THEN [i \in 1..(IF Len(M) < cons_padded THEN cons_padded - Len(M) ELSE 0) |->
              <<Len(M) + i - 1, num_vars, 0>>]
      ELSE <<>>)

ValidIndex(e, num_cons, num_vars, num_inputs) ==
  e[1] < num_cons /\ e[2] < num_vars + 1 + num_inputs

InstanceNew(num_cons, num_vars, num_inputs, mats) ==
  LET nv == NumVarsPadded(num_vars, num_inputs)
      nc == NumConsPadded(num_cons)
  IN [ok |-> \A m \in 1..3 : \A i \in 1..Len(mats[m]) :
               ValidIndex(mats[m][i], num_cons, num_vars, num_inputs),
      cons |-> nc, nv |-> nv, inputs |-> num_inputs,
      mats |-> [m \in 1..3 |-> PadMatrix(mats[m], num_cons, num_vars, nc, nv)]]

VarsX(s) == Log2(s.cons)
VarsY(s) == Log2(2 * s.nv)

\* z of the proofs: variables, constant, inputs, zeros.
ZVec(s, w, u, input) ==
  LET padded == Resize(w, s.nv)
  IN Resize(padded \o <<u>> \o input, 2 * s.nv)

Products(s, z) == [m \in 1..3 |-> MultiplyVec(s.mats[m], s.cons, z)]

\* R1CSInstance::is_sat is the case u = 1, E = 0 of relaxed_r1cs_is_sat.
IsSat(s, w, u, E, input) ==
  LET p == Products(s, ZVec(s, w, u, input))
      e == Resize(E, s.cons)
  IN \A i \in 1..s.cons : (p[1][i] * p[2][i]) % P = (u * p[3][i] + e[i]) % P

\* produce_synthetic_r1cs for the values Z: row i multiplies two entries of
\* Z and C is scaled to match, through the constant when its entry is zero.
Synthetic(num_cons, num_vars, num_inputs, Z) ==
  LET size == num_vars + num_inputs + 1
      at(k) == Z[(k % size) + 1]
      C(i) == IF at(i + 3) = 0 THEN <<i, num_vars, Times(at(i), at(i + 2))>>
              ELSE <<i, (i + 3) % size, Times(Times(at(i), at(i + 2)), Inv(at(i + 3)))>>
  IN [ok |-> TRUE, cons |-> num_cons, nv |-> num_vars, inputs |-> num_inputs,
      mats |-> << [i \in 1..num_cons |-> <<i - 1, (i - 1) % size, 1>>],
                  [i \in 1..num_cons |-> <<i - 1, (i + 1) % size, 1>>],
                  [i \in 1..num_cons |-> C(i - 1)] >>]

\* The error vector that relaxes an instance to any u.
SyntheticError(s, w, u, input) ==
  LET p == Products(s, ZVec(s, w, u, input))
  IN [i \in 1..s.cons |-> (p[1][i] * p[2][i] - u * p[3][i]) % P]

Comm(s) == [cons |-> s.cons, nv |-> s.nv, inputs |-> s.inputs,
            comm |-> MultiCommit(s.mats, VarsX(s), VarsY(s))]
=============================================================================
