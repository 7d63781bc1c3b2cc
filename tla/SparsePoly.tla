----------------------------- MODULE SparsePoly -----------------------------
(***************************************************************************)
(* Spark: what lets a verifier check the value of a committed sparse       *)
(* matrix polynomial without reading the matrix (spartan/src/              *)
(* product_tree.rs and sparse_mlpoly.rs).  A matrix is its sequence of     *)
(* entries <<row, col, val>> with rows and columns from 0.  Looking up     *)
(* eq(rx, row) and eq(ry, col) for every entry is a sequence of reads of a *)
(* memory; hashing the tuples (address, value, timestamp) and multiplying  *)
(* them shows that the multiset of what was written is the multiset of     *)
(* what was read.                                                          *)
(***************************************************************************)
EXTENDS Sumcheck

Max2(a, b) == IF a > b THEN a ELSE b

(* Grand-product circuits: layers <<left, right>>, the inputs first. *)

ComputeLayer(left, right) ==
  LET p == Hadamard(left, right) IN Split(p, Len(p) \div 2)

ProductCircuit(poly) ==
  LET c[i \in 1..NumVars(poly)] ==
        IF i = 1 THEN Split(poly, Len(poly) \div 2)
        ELSE ComputeLayer(c[i - 1][1], c[i - 1][2])
  IN Vec([i \in 1..NumVars(poly) |-> c[i]])

CircuitEvaluate(c) == Times(c[Len(c)][1][1], c[Len(c)][2][1])

\* A dot-product circuit <<left, right, weight>>.
DotpEvaluate(d) == Dot(Hadamard(d[1], d[2]), d[3])
DotpSplit(d) ==
  LET h(k) == Vec([j \in 1..3 |-> Split(d[j], Len(d[j]) \div 2)[k]])
  IN <<h(1), h(2)>>

\* The transcript's answers for layer j (from the output): the coefficients
\* of the batch, the rounds' challenges and r_layer.
LayerChallenges(seed, j, n) ==
  [coeffs |-> Challenges(seed, 3 * j, n), r |-> Challenges(seed, 3 * j + 1, j - 1),
   r_layer |-> Challenges(seed, 3 * j + 2, 1)[1]]

\* The point (1 - r)*a + r*b between two claims.
Between(a, b, r) == (a + r * (b - a)) % P

(* The batched form: several circuits of one size, and at the input layer  *)
(* the dot-product circuits too.                                           *)

\* What a layer's sum-check sc leaves for the next one.
LayerProved(s, sc, ch) ==
  [claims |-> [i \in 1..Len(sc.left) |-> Between(sc.left[i], sc.right[i], ch.r_layer)],
   rand |-> <<ch.r_layer>> \o ch.r,
   proof |-> Append(s.proof, [polys |-> sc.polys, left |-> sc.left, right |-> sc.right]),
   dotp |-> sc.dotp,
   calls |-> s.calls \o Asked("rand_coeffs_next_layer", Len(ch.coeffs)) \o sc.calls
     \o Each(Len(sc.left), LAMBDA i : <<<<"claim_prod_left", sc.left[i]>>,
                                        <<"claim_prod_right", sc.right[i]>>>>)
     \o Each(Len(sc.dotp), LAMBDA i : <<<<"claim_dotp_left", sc.dotp[i][1]>>,
                                        <<"claim_dotp_right", sc.dotp[i][2]>>,
                                        <<"claim_dotp_weight", sc.dotp[i][3]>>>>)
     \o Asked("challenge_r_layer", 1)]
BatchedProof(last) ==
  [layers |-> last.proof, claims_dotp |-> last.dotp, rand |-> last.rand, calls |-> last.calls]

BatchedProve(prods, dotps, seed) ==
  LET n == Len(prods[1])
      st[j \in 0..n] ==
        IF j = 0 THEN [claims |-> [i \in 1..Len(prods) |-> CircuitEvaluate(prods[i])],
                       rand |-> <<>>, proof |-> <<>>, dotp |-> <<>>, calls |-> <<>>]
        ELSE LET s == st[j - 1]
                 seqs == IF j = n THEN dotps ELSE <<>>
                 claims == s.claims \o [i \in 1..Len(seqs) |-> DotpEvaluate(seqs[i])]
                 ch == LayerChallenges(seed, j, Len(claims))
             IN LayerProved(s, ProveCubicBatched(
                                 Vec([i \in 1..Len(prods) |-> prods[i][n - j + 1]]),
                                 EqEvals(s.rand), seqs, ch.coeffs,
                                 Dot(claims, ch.coeffs), ch.r), ch)
  IN BatchedProof(st[n])

\* claims_to_verify, and per pair of dot-product circuits the three values
\* at r_layer between its halves.
BatchedVerify(pf, claims_prod, claims_dotp, len, seed) ==
  LET n == Log2(len)
      dp == pf.claims_dotp
      st[j \in 0..n] ==
        IF j = 0 THEN [ok |-> Len(pf.layers) = n, claims |-> claims_prod,
                       rand |-> <<>>, dotp |-> <<>>, calls |-> <<>>]
        ELSE LET s == st[j - 1]
                 last == j = n
                 claims == IF last THEN s.claims \o claims_dotp ELSE s.claims
                 ch == LayerChallenges(seed, j, Len(claims))
                 v == VerifyRounds(pf.layers[j].polys, Dot(claims, ch.coeffs),
                                   j - 1, 3, ch.r)
                 left == pf.layers[j].left
                 right == pf.layers[j].right
                 eq == EqEvaluate(s.rand, ch.r)
                 expected ==
                   Sum([i \in 1..Len(claims) |->
                     ch.coeffs[i] *
                       (IF i <= Len(claims_prod) THEN (left[i] * right[i] * eq) % P
                        ELSE Product(dp[i - Len(claims_prod)]))])
             IN [ok |-> /\ s.ok /\ v.ok /\ expected = v.e
                        /\ Len(left) = Len(claims_prod) /\ Len(right) = Len(claims_prod),
                 claims |-> [i \in 1..Len(left) |-> Between(left[i], right[i], ch.r_layer)],
                 rand |-> <<ch.r_layer>> \o ch.r,
                 dotp |-> IF last
                          THEN [i \in 1..(Len(claims_dotp) \div 2) |->
                                  [k \in 1..3 |-> Between(dp[2 * i - 1][k], dp[2 * i][k],
                                                          ch.r_layer)]]
                          ELSE <<>>,
                 calls |-> s.calls \o Asked("rand_coeffs_next_layer", Len(claims)) \o v.calls
                   \o Each(Len(claims_prod), LAMBDA i : <<<<"claim_prod_left", left[i]>>,
                                                          <<"claim_prod_right", right[i]>>>>)
                   \o (IF last
                       THEN Each(Len(dp), LAMBDA i : <<<<"claim_dotp_left", dp[i][1]>>,
                                                       <<"claim_dotp_right", dp[i][2]>>,
                                                       <<"claim_dotp_weight", dp[i][3]>>>>)
                       ELSE <<>>)
                   \o <<<<"challenge_r_layer">>>>]
  IN st[n]

(* Sparse matrices. *)

NumNz(M) == NextPow2(Len(M))

DenseVecs(M, N) ==
  LET at(k) == Vec([i \in 1..N |-> IF i <= Len(M) THEN M[i][k] ELSE 0])
  IN [row |-> at(1), col |-> at(2), val |-> at(3)]

\* Reading address a gives its timestamp and advances it; the three
\* matrices share one memory.
AddrTimestamps(cells, addrs) ==
  LET N == Len(addrs[1])
      Before(m, i) ==
        Cardinality({q \in (1..m) \X (1..N) :
                       /\ q[1] < m \/ q[2] < i
                       /\ addrs[q[1]][q[2]] = addrs[m][i]})
  IN [addr |-> addrs,
      ops_addr |-> Vec([m \in 1..Len(addrs) |-> FromUsize(addrs[m])]),
      read_ts |-> Vec([m \in 1..Len(addrs) |-> FromUsize([i \in 1..N |-> Before(m, i)])]),
      audit_ts |-> FromUsize([a \in 1..cells |->
                     Cardinality({q \in (1..Len(addrs)) \X (1..N) :
                                    addrs[q[1]][q[2]] = a - 1})])]

Deref(at, mem) ==
  Vec([m \in 1..Len(at.addr) |-> [i \in 1..Len(at.addr[m]) |-> mem[at.addr[m][i] + 1]]])

Dense(Ms, nx, ny) ==
  LET N == NumNz(CHOOSE M \in {Ms[m] : m \in 1..Len(Ms)} :
                   \A m \in 1..Len(Ms) : NumNz(Ms[m]) <= NumNz(M))
      d == Vec([m \in 1..Len(Ms) |-> DenseVecs(Ms[m], N)])
      cells == 2^Max2(nx, ny)
      row == AddrTimestamps(cells, Vec([m \in 1..Len(Ms) |-> d[m].row]))
      col == AddrTimestamps(cells, Vec([m \in 1..Len(Ms) |-> d[m].col]))
      val == Vec([m \in 1..Len(Ms) |-> d[m].val])
  IN [row |-> row, col |-> col, val |-> val,
      comb_ops |-> Merge(row.ops_addr \o row.read_ts \o col.ops_addr \o col.read_ts \o val),
      comb_mem |-> row.audit_ts \o col.audit_ts]

\* As a bug would have it: the entry's value forgotten.
EvaluateUnweighted(M, tx, ty) ==
  Sum([i \in 1..Len(M) |-> Times(tx[M[i][1] + 1], ty[M[i][2] + 1])])
EvaluateWithTables(M, tx, ty) ==
  Sum([i \in 1..Len(M) |-> Times(tx[M[i][1] + 1], ty[M[i][2] + 1]) * M[i][3]])
MultiEvaluate(Ms, rx, ry) ==
  LET tx == EqEvals(rx)
      ty == EqEvals(ry)
  IN [m \in 1..Len(Ms) |-> EvaluateWithTables(Ms[m], tx, ty)]
MultiplyVec(M, rows, z) ==
  [r \in 1..rows |-> Sum([i \in 1..Len(M) |->
                            IF M[i][1] = r - 1 THEN M[i][3] * z[M[i][2] + 1] ELSE 0])]
EvalTableSparse(M, tx, cols) ==
  [c \in 1..cols |-> Sum([i \in 1..Len(M) |->
                            IF M[i][2] = c - 1 THEN tx[M[i][1] + 1] * M[i][3] ELSE 0])]
MultiCommit(Ms, nx, ny) ==
  LET d == Dense(Ms, nx, ny)
  IN [batch_size |-> Len(Ms), num_ops |-> Len(d.val[1]),
      num_mem_cells |-> Len(d.row.audit_ts),
      ops |-> HyraxCommit(d.comb_ops), mem |-> HyraxCommit(d.comb_mem)]

Derefs(row, col) == [row |-> row, col |-> col, comb |-> Merge(row \o col)]

(* The hash layer and the products over it. *)

HashFunc(rm, addr, val, ts) ==
  (ts * rm[1] * rm[1] + val * rm[1] + addr - rm[2]) % P

HashLayer(table, at, vals, rm) ==
  LET Cells(ts) == Vec([i \in 1..Len(table) |-> HashFunc(rm, i - 1, table[i], ts[i])])
      Ops(d) == Vec([m \in 1..Len(vals) |->
                   [i \in 1..Len(vals[m]) |->
                      HashFunc(rm, at.ops_addr[m][i], vals[m][i], at.read_ts[m][i] + d)]])
  IN [init |-> Cells(Zeros(Len(table))), read |-> Ops(0), write |-> Ops(1),
      audit |-> Cells(at.audit_ts)]

Layers(table, at, vals, rm) ==
  LET h == HashLayer(table, at, vals, rm)
      All(ps) == Vec([m \in 1..Len(ps) |-> ProductCircuit(ps[m])])
  IN [init |-> ProductCircuit(h.init), read |-> All(h.read), write |-> All(h.write),
      audit |-> ProductCircuit(h.audit)]

LayerEvals(l) ==
  LET All(cs) == Vec([m \in 1..Len(cs) |-> CircuitEvaluate(cs[m])])
  IN [init |-> CircuitEvaluate(l.init), read |-> All(l.read), write |-> All(l.write),
      audit |-> CircuitEvaluate(l.audit)]

\* What was written is what was read: initial cells and writes against
\* reads and the final audit.
MultisetsAgree(e) ==
  Times(e.init, Product(e.write)) = Times(Product(e.read), e.audit)

\* What the product layer appends before its two batches of circuits.
ProductLayerProverCalls(er, ec, eval_val) ==
  <<ProtocolName("Sparse polynomial product layer proof"),
    <<"claim_row_eval_init", er.init>>, <<"claim_row_eval_read", er.read>>,
    <<"claim_row_eval_write", er.write>>, <<"claim_row_eval_audit", er.audit>>,
    <<"claim_col_eval_init", ec.init>>, <<"claim_col_eval_read", ec.read>>,
    <<"claim_col_eval_write", ec.write>>, <<"claim_col_eval_audit", ec.audit>>>>
  \o Each(Len(eval_val), LAMBDA m : <<<<"claim_eval_dotp_left", eval_val[m][1]>>,
                                      <<"claim_eval_dotp_right", eval_val[m][2]>>>>)
ProductLayerVerifierCalls(pf, n) ==
  <<ProtocolName("Sparse polynomial product layer proof"),
    <<"claim_row_eval_init", pf.eval_row.init>>, <<"claim_row_eval_read", pf.eval_row.read>>,
    <<"claim_row_eval_write", pf.eval_row.write>>,
    <<"claim_row_eval_audit", pf.eval_row.audit>>,
    <<"claim_col_eval_init", pf.eval_col.init>>, <<"claim_col_eval_read", pf.eval_col.read>>,
    <<"claim_col_eval_write", pf.eval_col.write>>,
    <<"claim_col_eval_audit", pf.eval_col.audit>>>>
  \o Each(n, LAMBDA m : <<<<"claim_eval_dotp_left", pf.eval_val[m][1]>>,
                          <<"claim_eval_dotp_right", pf.eval_val[m][2]>>>>)

ProductLayerProve(row, col, dense, derefs, evals, seed_ops, seed_mem) ==
  LET er == LayerEvals(row)
      ec == LayerEvals(col)
      n == Len(evals)
      parts == Vec([m \in 1..n |-> DotpSplit(<<derefs.row[m], derefs.col[m], dense.val[m]>>)])
      dotps == Vec([i \in 1..2 * n |-> parts[(i + 1) \div 2][IF i % 2 = 1 THEN 1 ELSE 2]])
      val == [m \in 1..n |-> [k \in 1..2 |-> DotpEvaluate(parts[m][k])]]
      ops == BatchedProve(row.read \o row.write \o col.read \o col.write, dotps, seed_ops)
      mem == BatchedProve(<<row.init, row.audit, col.init, col.audit>>, <<>>, seed_mem)
  IN [eval_row |-> er, eval_col |-> ec, eval_val |-> val,
      ok |-> MultisetsAgree(er) /\ MultisetsAgree(ec), ops |-> ops, mem |-> mem,
      calls |-> ProductLayerProverCalls(er, ec, val) \o ops.calls \o mem.calls]

ProductLayerVerify(pf, num_ops, cells, evals, seed_ops, seed_mem) ==
  LET n == Len(evals)
      er == pf.eval_row
      ec == pf.eval_col
      o == BatchedVerify(pf.ops, er.read \o er.write \o ec.read \o ec.write,
             [i \in 1..2 * n |-> pf.eval_val[(i + 1) \div 2][IF i % 2 = 1 THEN 1 ELSE 2]],
             num_ops, seed_ops)
      m == BatchedVerify(pf.mem, <<er.init, er.audit, ec.init, ec.audit>>, <<>>,
                         cells, seed_mem)
  IN [ok |-> /\ MultisetsAgree(er) /\ MultisetsAgree(ec)
             /\ \A i \in 1..n : (pf.eval_val[i][1] + pf.eval_val[i][2]) % P = evals[i]
             /\ o.ok /\ m.ok,
      claims_ops |-> o.claims, claims_dotp |-> o.dotp, claims_mem |-> m.claims,
      rand_ops |-> o.rand, rand_mem |-> m.rand,
      calls |-> ProductLayerVerifierCalls(pf, n) \o o.calls \o m.calls]

(* Opening many polynomials that were merged into one, at one point. *)

JointOpening(evals, r, seed, k) ==
  LET padded == Resize(evals, NextPow2(Len(evals)))
      c == Challenges(seed, k, Log2(Len(padded)))
  IN [r |-> c \o r, eval |-> CombineToOne(padded, c)]
OpenTape == <<1, 2, 3, 4, 1>>
OpenUnits(n, seed) == Units(seed, 1, FactoredLens(n)[2])
JointProve(Z, evals, r, seed, k) ==
  LET j == JointOpening(evals, r, seed, k)
  IN HyraxProve(Z, j.r, j.eval, OpenTape, OpenUnits(Len(j.r), seed), Units(seed, 2, 1)[1])
JointVerify(comm, pf, evals, r, seed, k) ==
  LET j == JointOpening(evals, r, seed, k)
  IN HyraxVerify(comm, pf, j.r, j.eval, OpenUnits(Len(j.r), seed), Units(seed, 2, 1)[1])


\* The claimed evaluations, padded, the challenges that combine them, the
\* combined claim, the opening; `labels` are the three of this opening.
JointProverCalls(labels, Z, evals, r, seed, k, pf) ==
  LET padded == Resize(evals, NextPow2(Len(evals)))
      c == Challenges(seed, k, Log2(Len(padded)))
      joint == CombineToOne(padded, c)
  IN <<<<labels[1], padded>>>> \o Asked(labels[2], Len(c)) \o <<<<labels[3], joint>>>>
     \o HyraxProverCalls(Z, c \o r, joint, pf)
JointVerifierCalls(labels, comm, pf, evals, r, seed, k) ==
  LET padded == Resize(evals, NextPow2(Len(evals)))
      j == JointOpening(evals, r, seed, k)
  IN <<<<labels[1], padded>>>> \o Asked(labels[2], Log2(Len(padded)))
     \o <<<<labels[3], j.eval>>>> \o HyraxVerifierCalls(comm, pf, j.r, j.eval)

DerefsLabels == <<"evals_ops_val", "challenge_combine_n_to_one", "joint_claim_eval">>
OpsLabels == <<"claim_evals_ops", "challenge_combine_n_to_one", "joint_claim_eval_ops">>
MemLabels == <<"claim_evals_mem", "challenge_combine_two_to_one", "joint_claim_eval_mem">>

HashLayerEvals(at, rand_mem, rand_ops) ==
  LET All(ps) == Vec([m \in 1..Len(ps) |-> Evaluate(ps[m], rand_ops)])
  IN [addr |-> All(at.ops_addr), read_ts |-> All(at.read_ts),
      audit_ts |-> Evaluate(at.audit_ts, rand_mem)]

OpsEvals(row, col, val) == row.addr \o row.read_ts \o col.addr \o col.read_ts \o val

HashLayerProve(rand_mem, rand_ops, dense, derefs, seed) ==
  LET All(ps) == Vec([m \in 1..Len(ps) |-> Evaluate(ps[m], rand_ops)])
      row == HashLayerEvals(dense.row, rand_mem, rand_ops)
      col == HashLayerEvals(dense.col, rand_mem, rand_ops)
      val == All(dense.val)
      dr == All(derefs.row)
      dc == All(derefs.col)
      ops == OpsEvals(row, col, val)
      mem == <<row.audit_ts, col.audit_ts>>
      pd == JointProve(derefs.comb, dr \o dc, rand_ops, seed, 3)
      po == JointProve(dense.comb_ops, ops, rand_ops, seed, 4)
      pm == JointProve(dense.comb_mem, mem, rand_mem, seed, 5)
  IN [row |-> row, col |-> col, val |-> val, derefs_row |-> dr, derefs_col |-> dc,
      proof_derefs |-> pd, proof_ops |-> po, proof_mem |-> pm,
      calls |->
        <<ProtocolName("Sparse polynomial hash layer proof"),
          ProtocolName("Derefs evaluation proof")>>
        \o JointProverCalls(DerefsLabels, derefs.comb, dr \o dc, rand_ops, seed, 3, pd)
        \o JointProverCalls(OpsLabels, dense.comb_ops, ops, rand_ops, seed, 4, po)
        \o JointProverCalls(MemLabels, dense.comb_mem, mem, rand_mem, seed, 5, pm)]

\* What the four product claims must be at the random points, from the
\* opened evaluations (verify_helper).
HashClaimsHold(rand_mem, claims, vals, e, r, rm) ==
  LET a == IdentityEvaluate(rand_mem)
      v == EqEvaluate(r, rand_mem)
  IN /\ claims.init = HashFunc(rm, a, v, 0)
     /\ \A m \in 1..Len(vals) :
          /\ claims.read[m] = HashFunc(rm, e.addr[m], vals[m], e.read_ts[m])
          /\ claims.write[m] = HashFunc(rm, e.addr[m], vals[m], e.read_ts[m] + 1)
     /\ claims.audit = HashFunc(rm, a, v, e.audit_ts)

HashLayerVerify(pf, pl, comm, comm_derefs, rx, ry, rm, seed) ==
  LET n == Len(pf.val)
      Claims(k) == [init |-> pl.claims_mem[2 * k + 1], audit |-> pl.claims_mem[2 * k + 2],
                    read |-> SubSeq(pl.claims_ops, 2 * k * n + 1, (2 * k + 1) * n),
                    write |-> SubSeq(pl.claims_ops, (2 * k + 1) * n + 1, (2 * k + 2) * n)]
  IN /\ JointVerify(comm_derefs, pf.proof_derefs, pf.derefs_row \o pf.derefs_col,
                    pl.rand_ops, seed, 3)
     /\ \A m \in 1..n : pl.claims_dotp[m] = <<pf.derefs_row[m], pf.derefs_col[m], pf.val[m]>>
     /\ JointVerify(comm.ops, pf.proof_ops, OpsEvals(pf.row, pf.col, pf.val),
                    pl.rand_ops, seed, 4)
     /\ JointVerify(comm.mem, pf.proof_mem, <<pf.row.audit_ts, pf.col.audit_ts>>,
                    pl.rand_mem, seed, 5)
     /\ HashClaimsHold(pl.rand_mem, Claims(0), pf.derefs_row, pf.row, rx, rm)
     /\ HashClaimsHold(pl.rand_mem, Claims(1), pf.derefs_col, pf.col, ry, rm)

HashLayerVerifierCalls(pf, pl, comm, comm_derefs, seed) ==
  <<ProtocolName("Sparse polynomial hash layer proof"),
    ProtocolName("Derefs evaluation proof")>>
  \o JointVerifierCalls(DerefsLabels, comm_derefs, pf.proof_derefs,
                        pf.derefs_row \o pf.derefs_col, pl.rand_ops, seed, 3)
  \o JointVerifierCalls(OpsLabels, comm.ops, pf.proof_ops,
                        OpsEvals(pf.row, pf.col, pf.val), pl.rand_ops, seed, 4)
  \o JointVerifierCalls(MemLabels, comm.mem, pf.proof_mem,
                        <<pf.row.audit_ts, pf.col.audit_ts>>, pl.rand_mem, seed, 5)

\* As a bug would have it: the zeros at the end.
EqualizeBack(rx, ry) ==
  LET n == Max2(Len(rx), Len(ry))
  IN <<rx \o Zeros(n - Len(rx)), ry \o Zeros(n - Len(ry))>>
\* The shorter point gets leading zeros: its table is the front of the other's.
Equalize(rx, ry) ==
  LET n == Max2(Len(rx), Len(ry))
  IN <<Zeros(n - Len(rx)) \o rx, Zeros(n - Len(ry)) \o ry>>
=============================================================================
