-------------------------------- MODULE Ccs --------------------------------
(***************************************************************************)
(* The constraint systems of nova: R1CS, relaxed R1CS, CCS and its two     *)
(* linear forms, their instances and witnesses, and how each is folded     *)
(* (nova/src/r1cs, nova/src/ccs/mod.rs, nova/src/sparse.rs).  A vector of  *)
(* inputs starts with the scalar u; z is the inputs followed by the        *)
(* witness.                                                                *)
(***************************************************************************)
EXTENDS MlPoly

(* Sizes. *)

\* safe_loglike!: the bits that index x things, and one bit for one thing.
SafeLog(x) ==
  IF x < 1 THEN 0 ELSE IF x <= 2 THEN 1
  ELSE CHOOSE k \in 1..x : 2^(k - 1) < x /\ x <= 2^k

(* Sparse matrices: a row is a sequence of <<value, column>>. *)

\* SparseMatrix::new keeps a row per constraint and insists that the columns
\* of a row increase.
SparseNew(rows, n) ==
  LET M == Vec([i \in 1..n |-> IF i <= Len(rows) THEN rows[i] ELSE <<>>])
  IN [ok |-> \A i \in 1..n : \A k \in 1..(Len(M[i]) - 1) : M[i][k][2] < M[i][k + 1][2],
      rows |-> M]

MulVec(M, z) ==
  Vec([i \in 1..Len(M) |->
     Sum([k \in 1..Len(M[i]) |-> M[i][k][1] * z[M[i][k][2] + 1]])])

\* R1CSShape::validate, for one matrix.
ValidRows(num_constraints, num_vars, num_io, M) ==
  \A i \in 1..Len(M) : \A k \in 1..Len(M[i]) :
     i <= num_constraints /\ M[i][k][2] < num_io + num_vars

R1csShape(num_constraints, num_vars, num_io, A, B, C) ==
  [ok |-> /\ num_io # 0
          /\ \A M \in {A, B, C} : ValidRows(num_constraints, num_vars, num_io, M),
   cons |-> num_constraints, vars |-> num_vars, io |-> num_io,
   Ms |-> <<SparseNew(A, num_constraints).rows, SparseNew(B, num_constraints).rows,
            SparseNew(C, num_constraints).rows>>,
   cSs |-> <<>>]

\* From<R1CSShape> for CCSShape: A z * B z - C z.
CcsShape(s) == [s EXCEPT !.cSs = <<[c |-> 1, S |-> <<1, 2>>], [c |-> P - 1, S |-> <<3>>]>>]

\* C::commit: coordinates over the key, whose length is a power of two.
CommitW(w) == Resize(w, NextPow2(Len(w)))
CommitVec(s, v) == Resize(v, IF s.cons > s.vars THEN s.cons ELSE s.vars)

ZOfInst(U, W) == U.X \o W.W

(* R1CS. *)

AzBzCz(s, z) == Vec([m \in 1..3 |-> MulVec(s.Ms[m], z)])

R1csSat(s, U, W) ==
  LET p == AzBzCz(s, ZOfInst(U, W))
  IN /\ \A i \in 1..s.cons : (p[1][i] * p[2][i]) % P = p[3][i]
     /\ U.comm = CommitVec(s, W.W)

\* What relaxed R1CS asks of each row, as a difference.
Residue(s, U, W) ==
  LET p == AzBzCz(s, ZOfInst(U, W))
  IN Vec([i \in 1..s.cons |-> (p[1][i] * p[2][i] - U.X[1] * p[3][i] - W.E[i]) % P])

RelaxedSat(s, U, W) ==
  /\ Residue(s, U, W) = Zeros(s.cons)
  /\ U.comm = CommitVec(s, W.W)
  /\ U.commE = CommitVec(s, W.E)

R1csInst(s, w, X) == [U |-> [comm |-> CommitVec(s, w), X |-> X], W |-> [W |-> w]]

\* RelaxedR1CSInstance::new and RelaxedR1CSWitness::zero.
RelaxedDefault(s) ==
  [U |-> [comm |-> CommitVec(s, <<>>), commE |-> CommitVec(s, <<>>), X |-> Zeros(s.io)],
   W |-> [W |-> Zeros(s.vars), E |-> Zeros(s.cons)]]

\* The cross term; an R1CS instance's u is one.
CommitT(s, U1, W1, U2, W2) ==
  LET p == AzBzCz(s, ZOfInst(U1, W1))
      q == AzBzCz(s, ZOfInst(U2, W2))
  IN Vec([i \in 1..s.cons |->
       (p[1][i] * q[2][i] + q[1][i] * p[2][i] - U1.X[1] * q[3][i] - p[3][i]) % P])
CommitTRelaxed(s, U1, W1, U2, W2) ==
  LET p == AzBzCz(s, ZOfInst(U1, W1))
      q == AzBzCz(s, ZOfInst(U2, W2))
  IN Vec([i \in 1..s.cons |->
       (p[1][i] * q[2][i] + q[1][i] * p[2][i] - U1.X[1] * q[3][i] - U2.X[1] * p[3][i]) % P])

Line(a, r, b) == VAdd(a, VScale(r, b))

FoldInstance(U1, U2, comm_T, r) ==
  [comm |-> Line(U1.comm, r, U2.comm), commE |-> Line(U1.commE, r, comm_T),
   X |-> Line(U1.X, r, U2.X)]
FoldWitness(W1, W2, T, r) ==
  [W |-> Line(W1.W, r, W2.W), E |-> Line(W1.E, r, T)]

FoldInstanceRelaxed(U1, U2, comm_T, r) ==
  [comm |-> Line(U1.comm, r, U2.comm),
   commE |-> Line(Line(U1.commE, r, comm_T), r * r, U2.commE),
   X |-> Line(U1.X, r, U2.X)]
FoldWitnessRelaxed(W1, W2, T, r) ==
  [W |-> Line(W1.W, r, W2.W), E |-> Line(Line(W1.E, r, T), r * r, W2.E)]

(* CCS. *)

\* The sum over the multisets of c times the product of the values v.
MultisetSum(s, v) ==
  Sum([i \in 1..Len(s.cSs) |->
     s.cSs[i].c * Product([k \in 1..Len(s.cSs[i].S) |-> v[s.cSs[i].S[k]]])])

CcsResidue(s, z) ==
  LET p == Vec([m \in 1..Len(s.Ms) |-> MulVec(s.Ms[m], z)])
  IN Vec([i \in 1..s.cons |-> MultisetSum(s, [m \in 1..Len(s.Ms) |-> p[m][i]])])

CcsSat(s, U, W) ==
  /\ CcsResidue(s, ZOfInst(U, W)) = Zeros(s.cons)
  /\ U.comm = CommitW(W.W)

CcsInst(s, w, X) == [U |-> [comm |-> CommitW(w), X |-> X], W |-> [W |-> w]]

\* vec_to_mle and DenseMultilinearExtension::evaluate of every M z at r;
\* compute_sigmas and compute_theta_values.
Thetas(s, z, r) ==
  Vec([m \in 1..Len(s.Ms) |->
     Evaluate(Resize(MulVec(s.Ms[m], z), NextPow2(s.cons)), r)])

LinearizedSat(s, U, W) ==
  /\ Thetas(s, ZOfInst(U, W), U.rs) = U.vs
  /\ U.comm = CommitW(W.W)

LccsOk(s, X, rs, vs) ==
  X # <<>> /\ s.io = Len(X) /\ Len(rs) = SafeLog(s.cons) /\ Len(vs) = Len(s.Ms)

\* The weights of the folds of linearized instances: rho and rho squared.
Weigh(rho, a, b) == VAdd(VScale(rho, a), VScale(rho * rho, b))

\* As a bug would have it: the commitments are folded as the other folds do.
LccsFoldOne(U1, U2, rho, rs, sigmas, thetas) ==
  [comm |-> Line(U1.comm, rho, U2.comm), X |-> Weigh(rho, U1.X, U2.X), rs |-> rs,
   vs |-> Weigh(rho, sigmas, thetas)]
LccsFold(U1, U2, rho, rs, sigmas, thetas) ==
  [comm |-> Weigh(rho, U1.comm, U2.comm), X |-> Weigh(rho, U1.X, U2.X), rs |-> rs,
   vs |-> Weigh(rho, sigmas, thetas)]
CcsFoldWitness(W1, W2, rho) == [W |-> Weigh(rho, W1.W, W2.W)]

\* fold_lccs and fold give an error on lengths that differ.
FoldLengthsOk(U1, U2, rs, a, b) ==
  Len(U1.rs) = Len(rs) /\ Len(a) = Len(b) /\ Len(U1.X) = Len(U2.X)

(* Atomic CCS: values at a point of the rows and one of the columns. *)

AccsNew(comm, v0, io, r_x, r_y, vs, v_z) ==
  [comm |-> comm, v0 |-> v0, X |-> io, r_x |-> r_x, r_y |-> r_y, vs |-> vs, v_z |-> v_z]
AccsFold(U1, U2, rho) ==
  [U1 EXCEPT !.comm = Line(@, rho, U2.comm), !.v0 = (@ + rho * U2.v0) % P,
             !.X = Line(@, rho, U2.X), !.vs = Line(@, rho, U2.vs),
             !.v_z = (@ + rho * U2.v_z) % P]
=============================================================================
