------------------------------ MODULE CcsFold ------------------------------
(***************************************************************************)
(* The proofs that fold CCS instances: the sum-check over products of      *)
(* multilinear polynomials (folding/hypernova/ml_sumcheck), linearization  *)
(* and the three folds (ccs/linearization.rs, ccs/ccs_fold.rs,             *)
(* ccs/lccs_fold.rs, folding/hypernova/nimfs.rs), the atomic form          *)
(* (folding/hypernova/accs_folding.rs) and the checks of these proofs in a *)
(* circuit (tree_folding/circuit/sumcheck.rs and                           *)
(* linearization_augmented_circuit.rs).                                    *)
(*                                                                         *)
(* `seed` is what the sponge answers with; the requests of one proof are   *)
(* numbered in order.                                                      *)
(***************************************************************************)
EXTENDS Ccs

Gamma(seed) == Challenges(seed, 1, 1)[1]
Beta(seed, s) == Challenges(seed, 2, SafeLog(s.cons))
Rounds(seed, n) == Challenges(seed, 4, n)
Rho(seed) == Challenges(seed, 6, 1)[1]

(* Multilinear extensions of arkworks: the first variable is the lowest bit *)
(* of an index, so the table is read in reversed order of bits.             *)

ArkMle(z) ==
  LET n == Len(z)
      s == SafeLog(n)
      at(i) == LET b == Bits(i, s)
                   rev[k \in 0..s] == IF k = 0 THEN 0 ELSE rev[k - 1] + b[k] * 2^(k - 1)
               IN rev[s]
  IN Vec([i \in 1..NextPow2(n) |-> IF at(i - 1) < n THEN z[at(i - 1) + 1] ELSE 0])

ArkEvaluate(T, r) ==
  LET t[k \in 0..Len(r)] == IF k = 0 THEN T ELSE BoundBot(t[k - 1], r[k])
  IN t[Len(r)][1]

EqMle(r) == ArkMle(EqEvals(r))
MzMle(s, m, z) == ArkMle(MulVec(s.Ms[m], z))

(* ListOfProductsOfPolynomials: terms with a coefficient and multiplicands. *)

Term(c, tables) == [c |-> c % P, ts |-> tables]
Info(nv, terms) ==
  [degree |-> CHOOSE d \in {Len(terms[i].ts) : i \in 1..Len(terms)} :
                \A i \in 1..Len(terms) : Len(terms[i].ts) <= d,
   nv |-> nv, num |-> Len(terms)]

\* One round: the sum over the lower half at 0, 1, ..., degree.
ProveRound(terms, degree) ==
  LET half == Len(terms[1].ts[1]) \div 2
      At(T, b, t) == T[2 * b - 1] + t * (T[2 * b] - T[2 * b - 1])
  IN Vec([t \in 1..(degree + 1) |->
       Sum([b \in 1..half |->
         Sum([i \in 1..Len(terms) |->
           terms[i].c * Product([k \in 1..Len(terms[i].ts) |->
                                   At(terms[i].ts[k], b, t - 1) % P])])])])

FixVariable(terms, r) ==
  Vec([i \in 1..Len(terms) |->
     [terms[i] EXCEPT !.ts = Vec([k \in 1..Len(@) |-> BoundBot(@[k], r)])]])

SumcheckProve(nv, terms, rs) ==
  LET d == Info(nv, terms).degree
      st[j \in 0..nv] ==
        IF j = 0 THEN [terms |-> terms, msgs |-> <<>>]
        ELSE LET s == st[j - 1]
             IN [terms |-> FixVariable(s.terms, rs[j]),
                 msgs |-> Append(s.msgs, ProveRound(s.terms, d))]
  IN st[nv].msgs

\* The value at x of the polynomial with these values at 0, 1, ...
Interpolate(e, x) ==
  Sum([i \in 1..Len(e) |->
     e[i] * Product([j \in 1..Len(e) |->
              IF j = i THEN 1 ELSE Times((x - (j - 1)) % P, Inv((i - j) % P))])])

\* check_and_generate_subclaim; a missing round or value panics.
SumcheckVerify(info, claim, msgs, rs) ==
  LET st[j \in 0..info.nv] ==
        IF j = 0 THEN [ok |-> TRUE, e |-> claim % P]
        ELSE [ok |-> st[j - 1].ok /\ (msgs[j][1] + msgs[j][2]) % P = st[j - 1].e,
              e |-> Interpolate(msgs[j], rs[j])]
  IN IF Len(msgs) < info.nv \/ \E j \in 1..info.nv : Len(msgs[j]) # info.degree + 1
     THEN [ok |-> FALSE, e |-> 0] ELSE st[info.nv]

GammaPowers(g, from, n) ==
  LET p[i \in 0..(from + n)] == IF i = 0 THEN 1 ELSE (p[i - 1] * g) % P
  IN [j \in 1..n |-> p[from + j - 1]]

(* The terms eq(r, x) * M_j z for every matrix, and those of a multiset sum. *)

LinearTerms(s, z, r, weights) ==
  [m \in 1..Len(s.Ms) |-> Term(weights[m], <<MzMle(s, m, z), EqMle(r)>>)]
MultisetTerms(s, z, beta, weight) ==
  [i \in 1..Len(s.cSs) |->
     Term(s.cSs[i].c * weight,
          [k \in 1..Len(s.cSs[i].S) |-> MzMle(s, s.cSs[i].S[k], z)] \o <<EqMle(beta)>>)]

(***************************************************************************)
(* Linearization of one satisfied instance.                                *)
(***************************************************************************)
LinearizeTerms(s, z, seed) == MultisetTerms(s, z, Beta(seed, s), Gamma(seed))

Linearize(s, i, seed) ==
  LET nv == SafeLog(s.cons)
      z == ZOfInst(i.U, i.W)
      terms == LinearizeTerms(s, z, seed)
      rs == Rounds(seed, nv)
      U == [comm |-> i.U.comm, X |-> [i.U.X EXCEPT ![1] = 1], rs |-> rs,
            vs |-> Thetas(s, z, rs)]
  IN [ok |-> /\ CcsSat(s, i.U, i.W)
             /\ LccsOk(s, U.X, U.rs, U.vs) /\ LinearizedSat(s, U, i.W),
      U |-> U, W |-> i.W,
      proof |-> [msgs |-> SumcheckProve(nv, terms, rs), gamma |-> Gamma(seed),
                 beta |-> Beta(seed, s), rounds |-> nv, info |-> Info(nv, terms)]]

\* verify_linearization: the last claim has to be zero, and the values the
\* ones of the witness.
VerifyLinearization(s, u, w, out, seed) ==
  LET nv == SafeLog(s.cons)
      z == ZOfInst(u, w)
      pf == out.proof
      v == SumcheckVerify(Info(nv, LinearizeTerms(s, z, seed)), 0, pf.msgs, Rounds(seed, nv))
  IN /\ Len(pf.msgs) = pf.rounds /\ pf.rounds = nv
     /\ pf.gamma = Gamma(seed) /\ pf.beta = Beta(seed, s)
     /\ v.ok /\ out.U.rs = Rounds(seed, nv)
     /\ v.e = 0
     /\ out.U.vs = Thetas(s, z, out.U.rs)

(***************************************************************************)
(* NIMFS: a linearized instance and a fresh one.                           *)
(***************************************************************************)
\* As a bug would have it: the fresh instance shares the weight of the last
\* matrix.
NimfsTermsShared(s, U1, z1, z2, seed) ==
  LET t == Len(s.Ms)
      g == GammaPowers(Gamma(seed), 1, t + 1)
  IN LinearTerms(s, z1, U1.rs, g) \o MultisetTerms(s, z2, Beta(seed, s), g[t])
NimfsTerms(s, U1, z1, z2, seed) ==
  LET t == Len(s.Ms)
      g == GammaPowers(Gamma(seed), 1, t + 1)
  IN LinearTerms(s, z1, U1.rs, g) \o MultisetTerms(s, z2, Beta(seed, s), g[t + 1])

NimfsProve(s, i1, i2, seed) ==
  LET nv == SafeLog(s.cons)
      z1 == ZOfInst(i1.U, i1.W)
      z2 == ZOfInst(i2.U, i2.W)
      terms == NimfsTerms(s, i1.U, z1, z2, seed)
      rs == Rounds(seed, nv)
      sigmas == Vec([m \in 1..Len(s.Ms) |-> ArkEvaluate(MzMle(s, m, z1), rs)])
      thetas == Vec([m \in 1..Len(s.Ms) |-> ArkEvaluate(MzMle(s, m, z2), rs)])
  IN [ok |-> FoldLengthsOk(i1.U, i2.U, rs, sigmas, thetas),
      U |-> LccsFold(i1.U, i2.U, Rho(seed), rs, sigmas, thetas),
      W |-> CcsFoldWitness(i1.W, i2.W, Rho(seed)),
      proof |-> [msgs |-> SumcheckProve(nv, terms, rs), info |-> Info(nv, terms),
                 sigmas |-> sigmas, thetas |-> thetas]]

NimfsVerify(s, U1, U2, pf, seed) ==
  LET t == Len(s.Ms)
      g == GammaPowers(Gamma(seed), 1, t + 1)
      claim == Dot(SubSeq(g, 1, t), U1.vs)
      rs == Rounds(seed, SafeLog(s.cons))
      v == SumcheckVerify(pf.info, claim, pf.msgs, rs)
      cl == Dot(SubSeq(g, 1, t), pf.sigmas) * ArkEvaluate(EqMle(U1.rs), rs)
      cr == Times(MultisetSum(s, pf.thetas), g[t + 1])
              * ArkEvaluate(EqMle(Beta(seed, s)), rs)
  IN [ok |-> v.ok /\ v.e = (cl + cr) % P,
      U |-> LccsFold(U1, U2, Rho(seed), rs, pf.sigmas, pf.thetas)]

(***************************************************************************)
(* Two linearized instances.  The verifier takes rho and the values from   *)
(* the proof.                                                              *)
(***************************************************************************)
LccsTerms(s, U1, U2, z1, z2, seed) ==
  LET t == Len(s.Ms)
      g == GammaPowers(Gamma(seed), 0, 2 * t)
  IN LinearTerms(s, z1, U1.rs, g) \o LinearTerms(s, z2, U2.rs, SubSeq(g, t + 1, 2 * t))

ProveFolding(s, i1, i2, seed) ==
  LET nv == Len(i1.U.rs)
      z1 == ZOfInst(i1.U, i1.W)
      z2 == ZOfInst(i2.U, i2.W)
      terms == LccsTerms(s, i1.U, i2.U, z1, z2, seed)
      rs == Rounds(seed, nv)
      sigmas1 == Thetas(s, z1, rs)
      sigmas2 == Thetas(s, z2, rs)
  IN [ok |-> FoldLengthsOk(i1.U, i2.U, rs, sigmas1, sigmas2),
      U |-> LccsFold(i1.U, i2.U, Rho(seed), rs, sigmas1, sigmas2),
      W |-> CcsFoldWitness(i1.W, i2.W, Rho(seed)),
      proof |-> [msgs |-> SumcheckProve(nv, terms, rs), info |-> Info(nv, terms),
                 sigmas1 |-> sigmas1, sigmas2 |-> sigmas2, merged_rs |-> rs,
                 rho |-> Rho(seed)]]

VerifyFolding(s, U1, U2, pf, seed) ==
  LET t == Len(s.Ms)
      g == GammaPowers(Gamma(seed), 0, 2 * t)
      rs == Rounds(seed, pf.info.nv)
      v == SumcheckVerify(pf.info, Dot(g, U1.vs \o U2.vs), pf.msgs, rs)
  IN [ok |-> v.ok /\ rs = pf.merged_rs
             /\ FoldLengthsOk(U1, U2, pf.merged_rs, pf.sigmas1, pf.sigmas2),
      U |-> LccsFold(U1, U2, pf.rho, pf.merged_rs, pf.sigmas1, pf.sigmas2)]

\* verify_folded_instance: the fold recomputed from both sides.
VerifyFoldedInstance(s, out, i1, i2) ==
  LET r == out.proof.rho
  IN /\ out.U.comm = Weigh(r, i1.U.comm, i2.U.comm)
     /\ out.U.X = Weigh(r, i1.U.X, i2.U.X)
     /\ Len(out.U.rs) = Len(i1.U.rs)
     /\ out.W = CcsFoldWitness(i1.W, i2.W, r)
     /\ Len(out.proof.sigmas1) = Len(s.Ms) /\ Len(out.proof.sigmas2) = Len(s.Ms)
     /\ LinearizedSat(s, out.U, out.W)

\* HypernovaFoldReducer::strict_to_acc: a step's instance with an all-zero
\* point and all-zero values.
StrictToAcc(s, i) ==
  [U |-> [comm |-> CommitW(i.W.W), X |-> i.U.X, rs |-> Zeros(SafeLog(s.cons)),
          vs |-> Zeros(Len(s.Ms))],
   W |-> i.W]

(***************************************************************************)
(* Two fresh instances, folded and linearized; weights one and rho.        *)
(***************************************************************************)
MultiTerms(s, z1, z2, seed) ==
  LET g == Gamma(seed)
      a == MultisetTerms(s, z1, Beta(seed, s), g)
      b == MultisetTerms(s, z2, Beta(seed, s), g * g)
  IN [i \in 1..2 * Len(a) |-> IF i % 2 = 1 THEN a[(i + 1) \div 2] ELSE b[i \div 2]]

\* As a bug would have it: the witness is folded with the weights of
\* linearized instances.
FoldAndLinearizeWeighed(i1, i2, thetas1, thetas2, rs, rho) ==
  [U |-> [comm |-> Line(i1.U.comm, rho, i2.U.comm), X |-> Line(i1.U.X, rho, i2.U.X),
          rs |-> rs, vs |-> Line(thetas1, rho, thetas2)],
   W |-> CcsFoldWitness(i1.W, i2.W, rho)]
FoldAndLinearize(i1, i2, thetas1, thetas2, rs, rho) ==
  [U |-> [comm |-> Line(i1.U.comm, rho, i2.U.comm), X |-> Line(i1.U.X, rho, i2.U.X),
          rs |-> rs, vs |-> Line(thetas1, rho, thetas2)],
   W |-> [W |-> Line(i1.W.W, rho, i2.W.W)]]

MultiProve(s, i1, i2, seed) ==
  LET nv == SafeLog(s.cons)
      z1 == ZOfInst(i1.U, i1.W)
      z2 == ZOfInst(i2.U, i2.W)
      rs == Rounds(seed, nv)
      thetas1 == Thetas(s, z1, rs)
      thetas2 == Thetas(s, z2, rs)
      f == FoldAndLinearize(i1, i2, thetas1, thetas2, rs, Rho(seed))
      terms == MultiTerms(s, z1, z2, seed)
  IN [ok |-> LccsOk(s, f.U.X, rs, f.U.vs) /\ Len(i1.U.X) = Len(i2.U.X)
             /\ Len(i1.W.W) = Len(i2.W.W),
      U |-> f.U, W |-> f.W,
      proof |-> [msgs |-> SumcheckProve(nv, terms, rs), info |-> Info(nv, terms),
                 gamma |-> Gamma(seed), beta |-> Beta(seed, s), r_x |-> rs,
                 thetas1 |-> thetas1, thetas2 |-> thetas2]]

\* verify_ccs_folding_consistency.
MultiConsistent(u1, u2, uf, pf, rs, rho) ==
  /\ uf.comm = Line(u1.comm, rho, u2.comm)
  /\ uf.X = Line(u1.X, rho, u2.X)
  /\ uf.vs = Line(pf.thetas1, rho, pf.thetas2)
  /\ uf.rs = rs

\* The shape of the polynomial is rebuilt from all-zero witnesses.
MultiVerify(s, u1, u2, uf, pf, seed) ==
  LET zeros == Zeros(s.io + s.vars)
      rs == Rounds(seed, SafeLog(s.cons))
      info == Info(SafeLog(s.cons), MultiTerms(s, zeros, zeros, seed))
  IN /\ Gamma(seed) = pf.gamma /\ Beta(seed, s) = pf.beta
     /\ SumcheckVerify(info, 0, pf.msgs, rs).ok
     /\ rs = pf.r_x
     /\ MultiConsistent(u1, u2, uf, pf, pf.r_x, Rho(seed))

(***************************************************************************)
(* The checks as circuits: the rounds by Lagrange's formula, and the value *)
(* the last claim is compared with.  A circuit that does not hold is an    *)
(* unsatisfied constraint.                                                 *)
(***************************************************************************)
CircuitRounds(info, claim, msgs, rs) ==
  LET st[j \in 0..info.nv] ==
        IF j = 0 THEN [ok |-> TRUE, e |-> claim]
        ELSE [ok |-> st[j - 1].ok /\ st[j - 1].e = (msgs[j][1] + msgs[j][2]) % P,
              e |-> Interpolate(msgs[j], rs[j])]
  IN st[info.nv]

\* As a bug would have it: one weight for both instances.
CircuitTargetCcsOneWeight(s, gamma, e2, thetas1, thetas2) ==
  (Times(gamma, e2) * (MultisetSum(s, thetas1) + MultisetSum(s, thetas2))) % P
\* verify_target_sumcheck_for_ccs_folding.
CircuitTargetCcs(s, gamma, e2, thetas1, thetas2) ==
  (Times(gamma, e2) * MultisetSum(s, thetas1)
     + Times(Times(gamma, gamma), e2) * MultisetSum(s, thetas2)) % P

\* verify_target_sumcheck_for_lccs_folding: one eq value for both sides.
CircuitTargetLccs(gamma, e1, sigmas1, sigmas2) ==
  Times(e1, Dot(GammaPowers(gamma, 0, Len(sigmas1) + Len(sigmas2)), sigmas1 \o sigmas2))

CircuitMulti(s, pf, seed) ==
  LET v == CircuitRounds(pf.info, 0, pf.msgs, Rounds(seed, pf.info.nv))
  IN v.ok /\ v.e = CircuitTargetCcs(s, Gamma(seed),
                     EqEvaluate(Beta(seed, s), Rounds(seed, pf.info.nv)),
                     pf.thetas1, pf.thetas2)

CircuitLccs(U1, U2, pf, seed) ==
  LET t == Len(U1.vs)
      rs == Rounds(seed, pf.info.nv)
      v == CircuitRounds(pf.info, Dot(GammaPowers(Gamma(seed), 0, 2 * t), U1.vs \o U2.vs),
                         pf.msgs, rs)
  IN v.ok /\ v.e = CircuitTargetLccs(Gamma(seed), EqEvaluate(U1.rs, rs),
                                     pf.sigmas1, pf.sigmas2)

\* verify_linearization_in_circuit: the sum over the multisets is weighted
\* with the fourth power of gamma.
CircuitLinearization(s, out, seed) ==
  LET pf == out.proof
      rs == Rounds(seed, pf.info.nv)
      v == CircuitRounds(pf.info, 0, pf.msgs, rs)
      g4 == GammaPowers(Gamma(seed), 4, 1)[1]
  IN /\ pf.gamma = Gamma(seed) /\ pf.beta = Beta(seed, s)
     /\ v.ok
     /\ v.e = Times(Times(MultisetSum(s, out.U.vs), g4), EqEvaluate(Beta(seed, s), rs))

(***************************************************************************)
(* Atomic CCS: an atomic instance and a fresh one.  The claims of both     *)
(* sum-checks are the sums of the proof's own first rounds.                *)
(***************************************************************************)
AccsProve(s, i1, i2, seed) ==
  LET g == GammaPowers(Gamma(seed), 1, Len(s.Ms))
      nx == Len(i1.U.r_x)
      ny == Len(i1.U.r_y)
      z1 == <<i1.U.v0>> \o Tail(i1.U.X) \o i1.W.W
      rx == Challenges(seed, 2, nx)
      ry == Rounds(seed, nx)
      delta == Challenges(seed, 7, 1)[1]
      eta == Rho(seed)
      f == LinearTerms(s, z1, i1.U.r_x, g)
      gs == <<Term(1, <<ArkMle(i1.W.W), EqMle(i1.U.r_y)>>),
              Term(delta, <<ArkMle(i2.W.W), EqMle(i1.U.r_y)>>)>>
      sigmas == Vec([m \in 1..Len(s.Ms) |-> ArkEvaluate(MzMle(s, m, z1), rx)])
      epsilon_prime == ArkEvaluate(ArkMle(i2.W.W), ry)
      temp == AccsNew(i2.U.comm, 1, i2.U.X, i1.U.r_x, i1.U.r_y, sigmas, epsilon_prime)
  IN [ok |-> TRUE, U |-> AccsFold(i1.U, temp, eta),
      W |-> CcsFoldWitness(i1.W, i2.W, eta),
      proof |-> [f |-> SumcheckProve(nx, f, ry), finfo |-> Info(nx, f),
                 g |-> SumcheckProve(ny, gs, Challenges(seed, 8, ny)),
                 ginfo |-> Info(ny, gs), sigmas |-> sigmas, r_y |-> ry,
                 epsilon_prime |-> epsilon_prime]]

AccsVerify(U1, U2, pf, seed) ==
  LET nx == Len(U1.r_x)
      ry == Rounds(seed, nx)
      first(msgs) == (msgs[1][1] + msgs[1][2]) % P
      temp == AccsNew(U2.comm, 1, U2.X, U1.r_x, U1.r_y, pf.sigmas, pf.epsilon_prime)
  IN [ok |-> /\ SumcheckVerify(pf.finfo, first(pf.f), pf.f, ry).ok
             /\ ry = pf.r_y
             /\ SumcheckVerify(pf.ginfo, first(pf.g), pf.g,
                               Challenges(seed, 8, Len(U1.r_y))).ok,
      U |-> AccsFold(U1, temp, Rho(seed))]
=============================================================================
