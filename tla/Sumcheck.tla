------------------------------ MODULE Sumcheck ------------------------------
(***************************************************************************)
(* The sum-check provers and verifiers of Spartan (spartan/src/sumcheck.rs *)
(* and the two of crr1csproof.rs).  A round sends the polynomial           *)
(* interpolated from its values at 0, 2 and 3 and from "claim minus the    *)
(* value at 0", binds the top variable of every table at the challenge and *)
(* goes on with the value there as the claim.  `r` is the sequence of the  *)
(* rounds' challenges; the j-th message depends on the first j - 1 only.   *)
(* `calls` are those of the side's own transcript, and are not sent.       *)
(***************************************************************************)
EXTENDS Nizk

\* comb_func of each caller; v holds the tables' values at one point.
Comb(kind, u, v) ==
  CASE kind = "cubic" -> v[1] * v[2] * v[3]
    [] kind = "additive" -> v[1] * (v[2] * v[3] - v[4])
    [] kind = "quad" -> v[1] * v[2]
    [] kind = "relaxed" -> (v[2] * v[3] - u * v[4] - v[5]) * v[1]

Degree(kind) == IF kind = "quad" THEN 2 ELSE 3

\* The round polynomial's value at x, half a table of terms.
RoundSum(kind, u, ps, x) ==
  LET len == Len(ps[1]) \div 2
  IN Sum([i \in 1..len |->
            Comb(kind, u, [k \in 1..Len(ps) |->
                   (ps[k][i] + x * (ps[k][len + i] - ps[k][i])) % P]) % P])

RoundPoly(kind, u, ps, claim) ==
  LET e0 == RoundSum(kind, u, ps, 0)
      e2 == RoundSum(kind, u, ps, 2)
  IN UniFromEvals(IF Degree(kind) = 2
                  THEN <<e0, (claim - e0) % P, e2>>
                  ELSE <<e0, (claim - e0) % P, e2, RoundSum(kind, u, ps, 3)>>)

BoundAll(ps, r) == Vec([k \in 1..Len(ps) |-> BoundTop(ps[k], r)])

\* The loop all the plain provers share.
Rounds(kind, u, ps, claim, r) ==
  LET st[j \in 0..Len(r)] ==
        IF j = 0 THEN [ps |-> ps, e |-> claim, polys |-> <<>>, calls |-> <<>>]
        ELSE LET s == st[j - 1]
                 f == RoundPoly(kind, u, s.ps, s.e)
             IN [ps |-> BoundAll(s.ps, r[j]), e |-> UniEvaluate(f, r[j]),
                 polys |-> Append(s.polys, Compress(f)),
                 calls |-> s.calls \o <<<<"poly", f>>, <<"challenge_nextround">>>>]
      f == st[Len(r)]
  IN [polys |-> f.polys, claims |-> [k \in 1..Len(ps) |-> f.ps[k][1]], calls |-> f.calls]

ProveQuad(A, B, claim, r) == Rounds("quad", 0, <<A, B>>, claim, r)
ProveCubicFiveTerms(A, B, C, D, E, u, claim, r) ==
  Rounds("relaxed", u, <<A, B, C, D, E>>, claim, r)

\* Instances <<A, B>> that share the table C, and instances <<A, B, C>>; one
\* round polynomial for all of them, weighted with coeffs.
ProveCubicBatched(par, C, seqs, coeffs, claim, r) ==
  LET Insts(s) == [i \in 1..Len(par) |-> <<s.par[i][1], s.par[i][2], s.C>>]
                    \o s.seqs
      At(s, x) == Sum([i \in 1..Len(Insts(s)) |->
                         coeffs[i] * RoundSum("cubic", 0, Insts(s)[i], x)])
      st[j \in 0..Len(r)] ==
        IF j = 0 THEN [par |-> par, C |-> C, seqs |-> seqs, e |-> claim, polys |-> <<>>,
                       calls |-> <<>>]
        ELSE LET s == st[j - 1]
                 e0 == At(s, 0)
                 f == UniFromEvals(<<e0, (s.e - e0) % P, At(s, 2), At(s, 3)>>)
             IN [par |-> Vec([i \in 1..Len(par) |-> BoundAll(s.par[i], r[j])]),
                 C |-> BoundTop(s.C, r[j]),
                 seqs |-> Vec([i \in 1..Len(seqs) |-> BoundAll(s.seqs[i], r[j])]),
                 e |-> UniEvaluate(f, r[j]), polys |-> Append(s.polys, Compress(f)),
                 calls |-> s.calls \o <<<<"poly", f>>, <<"challenge_nextround">>>>]
      f == st[Len(r)]
  IN [polys |-> f.polys, calls |-> f.calls,
      left |-> [i \in 1..Len(par) |-> f.par[i][1][1]],
      right |-> [i \in 1..Len(par) |-> f.par[i][2][1]],
      dotp |-> [i \in 1..Len(seqs) |-> [k \in 1..3 |-> f.seqs[i][k][1]]]]

\* SumcheckInstanceProof::verify: the final claim, and whether every round
\* had its degree and summed to the claim before it.
VerifyRounds(polys, claim, n, degree, r) ==
  LET st[j \in 0..Len(polys)] ==
        IF j = 0 THEN [ok |-> Len(polys) = n, e |-> claim, calls |-> <<>>]
        ELSE LET s == st[j - 1]
                 f == Decompress(polys[j], s.e)
             IN [ok |-> /\ s.ok
                        /\ Len(f) - 1 = degree
                        /\ (EvalAtZero(f) + EvalAtOne(f)) % P = s.e,
                 e |-> UniEvaluate(f, r[j]),
                 calls |-> s.calls \o <<<<"poly", f>>, <<"challenge_nextround">>>>]
  IN st[Len(polys)]

(***************************************************************************)
(* The zero-knowledge form: the round polynomial and its value are         *)
(* committed to, and a proof of one inner product shows both "the values   *)
(* at 0 and 1 sum to the claim" and "the value at r is the next claim",    *)
(* combined by the weights w.                                              *)
(***************************************************************************)
TargetVector(degree, r, w) ==
  LET p == Powers(r, degree + 1)
  IN Vec([i \in 1..(degree + 1) |-> ((IF i = 1 THEN 2 * w[1] ELSE w[1]) + w[2] * p[i]) % P])

ZkRounds(kind, ps, claim, blind_claim, r, seed, tape) ==
  LET n == Len(r)
      blinds_poly == Challenges(tape, 1, n)
      blinds_evals == Challenges(tape, 2, n)
      BlindBefore(j) == IF j = 1 THEN blind_claim ELSE blinds_evals[j - 1]
      st[j \in 0..n] ==
        IF j = 0 THEN [ps |-> ps, e |-> claim, comm |-> CommitScalar(claim, blind_claim),
                       comm_polys |-> <<>>, comm_evals |-> <<>>, proofs |-> <<>>, calls |-> <<>>]
        ELSE LET s == st[j - 1]
                 f == RoundPoly(kind, 0, s.ps, s.e)
                 eval == UniEvaluate(f, r[j])
                 w == Challenges(seed, j, 2)
                 a == TargetVector(Degree(kind), r[j], w)
                 blind_y == (w[1] * BlindBefore(j) + w[2] * blinds_evals[j]) % P
                 comm_poly == Commit(f, blinds_poly[j])
                 comm_eval == CommitScalar(eval, blinds_evals[j])
                 pf == DotProductProve(f, blinds_poly[j], a, blind_y,
                                       Challenges(tape, 3 + j, Degree(kind) + 1),
                                       Challenges(tape, j, 2), Units(seed, j, 1)[1])
             IN [ps |-> BoundAll(s.ps, r[j]), e |-> eval, comm |-> comm_eval,
                 comm_polys |-> Append(s.comm_polys, comm_poly),
                 comm_evals |-> Append(s.comm_evals, comm_eval),
                 proofs |-> Append(s.proofs, pf),
                 calls |-> s.calls
                   \o <<<<"comm_poly", comm_poly>>, <<"challenge_nextround">>,
                        <<"comm_claim_per_round", s.comm>>, <<"comm_eval", comm_eval>>>>
                   \o Asked("combine_two_claims_to_one", 2)
                   \o DotProductProverCalls(f, blinds_poly[j], a, (w[1] * s.e + w[2] * eval) % P,
                                            blind_y, pf)]
      f == st[n]
  IN [comm_polys |-> f.comm_polys, comm_evals |-> f.comm_evals, proofs |-> f.proofs,
      claims |-> [k \in 1..Len(ps) |-> f.ps[k][1]], blind |-> blinds_evals[n],
      calls |-> f.calls]

ProveQuadZk(A, B, claim, blind_claim, r, seed, tape) ==
  ZkRounds("quad", <<A, B>>, claim, blind_claim, r, seed, tape)
ProveCubicWithAdditiveTerm(A, B, C, D, claim, blind_claim, r, seed, tape) ==
  ZkRounds("additive", <<A, B, C, D>>, claim, blind_claim, r, seed, tape)

ZkVerify(pf, comm_claim, n, degree, r, seed) ==
  LET Before(j) == IF j = 1 THEN comm_claim ELSE pf.comm_evals[j - 1]
      Weights(j) == Challenges(seed, j, 2)
      A(j) == TargetVector(degree, r[j], Weights(j))
      Target(j) == Combine(Weights(j), <<Before(j), pf.comm_evals[j]>>)
      Round(j) == DotProductVerify(pf.proofs[j], A(j), pf.comm_polys[j], Target(j),
                                   Units(seed, j, 1)[1])
  IN [ok |-> /\ Len(pf.comm_polys) = n /\ Len(pf.comm_evals) = n
             /\ \A j \in 1..n : Round(j),
      comm |-> pf.comm_evals[n],
      calls |-> Each(n, LAMBDA j :
        <<<<"comm_poly", pf.comm_polys[j]>>, <<"challenge_nextround">>,
          <<"comm_claim_per_round", Before(j)>>, <<"comm_eval", pf.comm_evals[j]>>>>
        \o Asked("combine_two_claims_to_one", 2)
        \o DotProductVerifierCalls(pf.proofs[j], A(j), pf.comm_polys[j], Target(j)))]
=============================================================================
