---------------------------- MODULE FoldSession ----------------------------
(***************************************************************************)
(* Sessions that fold.  A session starts from leaf instances of one CCS    *)
(* shape and makes accumulators out of them with any of the folds of       *)
(* CcsFold, one after the other; every proof is then verified as the code  *)
(* verifies it, natively and, where there is one, in the circuit.  A tree  *)
(* session is FoldDriver over HypernovaFoldReducer (tree_folding), a       *)
(* Mangrove session runs the leaf circuits of a chain.                     *)
(*                                                                         *)
(* A sponge answers prover and verifier alike when both absorbed the same: *)
(* here both fold the same instances, so a proof keeps its seed.           *)
(***************************************************************************)
EXTENDS CcsFold, Mangrove

CONSTANTS Seeds,            \* what the sponge may answer with
          Jobs,             \* mode, shape and leaf instances of a session
          Chains,           \* the declared leaves of Mangrove sessions
          MaxFolds          \* how many proofs a session makes

K == 2                      \* FoldReducer's arity

VARIABLES job,              \* this session's mode, shape and leaves
          accs,             \* the accumulators made so far
          proof, verdict,   \* the last proof and what its verifier said
          folds,            \* proofs made
          chain, leaf, grand \* Mangrove: declared leaves, next one, products

vars == <<job, accs, proof, verdict, folds, chain, leaf, grand>>
chainVars == <<chain, leaf, grand>>

NoProof == [op |-> "none"]
NoVerdict == [native |-> TRUE, circuit |-> TRUE, agrees |-> TRUE, done |-> FALSE]

Init ==
  /\ accs = <<>> /\ proof = NoProof /\ verdict = NoVerdict /\ folds = 0
  /\ \/ job \in Jobs /\ chain = <<>> /\ leaf = 0 /\ grand = <<>>
     \/ /\ job = [mode |-> "mangrove"]
        /\ chain \in Chains /\ leaf = 0 /\ grand = [c \in Fe \X Fe |-> <<1, 1>>]

(***************************************************************************)
(* Folding in any order.                                                   *)
(***************************************************************************)
S == job.shape
Folding(m) ==
  /\ job.mode = m
  /\ folds < MaxFolds
  /\ proof.op = "none" \/ verdict.done

\* A prover's step: a proof about i1 and i2, and a new accumulator.
Made(op, i1, i2, out, seed) ==
  /\ out.ok
  /\ accs' = Append(accs, [U |-> out.U, W |-> out.W])
  /\ proof' = [op |-> op, i1 |-> i1, i2 |-> i2, out |-> out, seed |-> seed]
  /\ verdict' = NoVerdict /\ folds' = folds + 1
  /\ UNCHANGED <<job, chainVars>>

\* synthesize_and_linearize_step; a leaf that is not satisfied is an error.
LinearizeLeaf ==
  /\ Folding("accumulate")
  /\ \E i \in 1..Len(job.leaves), seed \in Seeds :
       LET l == job.leaves[i]
       IN Made("linearize", l, l, Linearize(S, l, seed), seed)

FoldFresh ==
  /\ Folding("accumulate")
  /\ \E i, j \in 1..Len(job.leaves), seed \in Seeds :
       LET l == job.leaves[i]
           m == job.leaves[j]
       IN i < j /\ Made("fresh", l, m, MultiProve(S, l, m, seed), seed)

FoldIntoAccumulator ==
  /\ Folding("accumulate")
  /\ \E i \in 1..Len(accs), j \in 1..Len(job.leaves), seed \in Seeds :
       LET l == job.leaves[j]
       IN Made("into", accs[i], l, NimfsProve(S, accs[i], l, seed), seed)

FoldAccumulators ==
  /\ Folding("accumulate")
  /\ \E i, j \in 1..Len(accs), seed \in Seeds :
       /\ i < j
       /\ Made("accs", accs[i], accs[j], ProveFolding(S, accs[i], accs[j], seed), seed)

(***************************************************************************)
(* Atomic instances: started as the tests of the module start one, then    *)
(* folded with fresh ones.                                                 *)
(***************************************************************************)
AtomicOf(s, i, seed) ==
  LET r_x == Challenges(seed, 9, SafeLog(s.cons))
      r_y == Challenges(seed, 11, SafeLog(s.vars))
      z == ZOfInst(i.U, i.W)
  IN [U |-> AccsNew(i.U.comm, 1, i.U.X, r_x, r_y,
                    Vec([m \in 1..Len(s.Ms) |-> ArkEvaluate(MzMle(s, m, z), r_x)]),
                    ArkEvaluate(ArkMle(i.W.W), r_y)),
      W |-> i.W]

AtomicStart ==
  /\ Folding("atomic") /\ accs = <<>>
  /\ \E seed \in Seeds : accs' = <<AtomicOf(S, job.leaves[1], seed)>>
  /\ UNCHANGED <<job, proof, verdict, folds, chainVars>>

AtomicFold ==
  /\ Folding("atomic") /\ accs # <<>>
  /\ \E j \in 1..Len(job.leaves), seed \in Seeds :
       LET a == accs[Len(accs)]
           l == job.leaves[j]
       IN Made("atomic", a, l, AccsProve(S, a, l, seed), seed)

(***************************************************************************)
(* The verifier of the last proof.                                         *)
(***************************************************************************)
Said(native, circuit, agrees) ==
  [native |-> native, circuit |-> circuit, agrees |-> agrees, done |-> TRUE]

Verify ==
  /\ proof.op # "none" /\ ~verdict.done
  /\ LET p == proof
         pf == p.out.proof
     IN verdict' =
          CASE p.op = "linearize" ->
                 Said(VerifyLinearization(S, p.i1.U, p.i1.W, p.out, p.seed),
                      CircuitLinearization(S, p.out, p.seed), TRUE)
            [] p.op = "fresh" ->
                 Said(MultiVerify(S, p.i1.U, p.i2.U, p.out.U, pf, p.seed),
                      CircuitMulti(S, pf, p.seed), TRUE)
            [] p.op = "into" ->
                 LET v == NimfsVerify(S, p.i1.U, p.i2.U, pf, p.seed)
                 IN Said(v.ok, v.ok, v.U = p.out.U)
            [] p.op = "accs" ->
                 LET v == VerifyFolding(S, p.i1.U, p.i2.U, pf, p.seed)
                 IN Said(v.ok, CircuitLccs(p.i1.U, p.i2.U, pf, p.seed),
                         v.U = p.out.U /\ VerifyFoldedInstance(S, p.out, p.i1, p.i2))
            [] p.op = "atomic" ->
                 LET v == AccsVerify(p.i1.U, p.i2.U, pf, p.seed)
                 IN Said(v.ok, v.ok, v.U = p.out.U)
  /\ UNCHANGED <<job, accs, proof, folds, chainVars>>

(***************************************************************************)
(* FoldDriver::fold_root: all leaves to accumulators, then level by level. *)
(***************************************************************************)
LenIsPowerOfK(n) == n > 0 /\ \E j \in 0..n : K^j = n

StrictToAccLevel ==
  /\ job.mode = "tree" /\ accs = <<>> /\ LenIsPowerOfK(Len(job.leaves))
  /\ accs' = [i \in 1..Len(job.leaves) |-> StrictToAcc(S, job.leaves[i])]
  /\ UNCHANGED <<job, proof, verdict, folds, chainVars>>

FoldNextLevel ==
  /\ job.mode = "tree" /\ Len(accs) > 1
  /\ \E seeds \in [1..(Len(accs) \div K) -> Seeds] :
       LET f == [k \in 1..(Len(accs) \div K) |->
                   ProveFolding(S, accs[2 * k - 1], accs[2 * k], seeds[k])]
       IN /\ \A k \in DOMAIN f : f[k].ok
          /\ accs' = [k \in 1..(Len(accs) \div K) |-> [U |-> f[k].U, W |-> f[k].W]]
  /\ folds' = folds + 1
  /\ UNCHANGED <<job, proof, verdict, chainVars>>

(***************************************************************************)
(* Mangrove: the circuit of the next leaf, for every pair of challenges.   *)
(***************************************************************************)
LeafStep ==
  /\ job.mode = "mangrove" /\ leaf < Len(chain)
  /\ LET c == chain[leaf + 1]
     IN /\ LeafCircuit(c, 0, 0).ok
        /\ grand' = [ab \in Fe \X Fe |->
                       LET r == LeafCircuit(c, ab[1], ab[2])
                       IN <<Times(grand[ab][1], r.num), Times(grand[ab][2], r.den)>>]
  /\ leaf' = leaf + 1
  /\ UNCHANGED <<job, accs, proof, verdict, folds, chain>>

Next ==
  \/ LinearizeLeaf \/ FoldFresh \/ FoldIntoAccumulator \/ FoldAccumulators
  \/ AtomicStart \/ AtomicFold \/ Verify
  \/ StrictToAccLevel \/ FoldNextLevel \/ LeafStep

Spec == Init /\ [][Next]_vars

(***************************************************************************)
(* Properties.                                                             *)
(***************************************************************************)

\* What a proof claims to be zero, computed from the witnesses: how far the
\* linear values are from the declared ones, and the residue of the fresh
\* instances at beta.
FreshGap(i, seed) ==
  Evaluate(Resize(CcsResidue(S, ZOfInst(i.U, i.W)), NextPow2(S.cons)), Beta(seed, S))
LinearGap(i, weights) ==
  Dot(weights, VSub(Thetas(S, ZOfInst(i.U, i.W), i.U.rs), i.U.vs))

Gap(p) ==
  LET g == Gamma(p.seed)
      t == Len(S.Ms)
      w == GammaPowers(g, 0, 2 * t + 1)
  IN CASE p.op = "fresh" ->
            (g * FreshGap(p.i1, p.seed) + Times(g, g) * FreshGap(p.i2, p.seed)) % P
       [] p.op = "into" ->
            (LinearGap(p.i1, SubSeq(w, 2, t + 1))
               + Times(w[t + 1], g) * FreshGap(p.i2, p.seed)) % P
       [] p.op = "accs" ->
            (LinearGap(p.i1, SubSeq(w, 1, t)) + LinearGap(p.i2, SubSeq(w, t + 1, 2 * t))) % P
       [] OTHER -> 0

\* A verifier accepts a fold exactly when the weighted distance of the folded
\* statements from the truth is zero: a fold of satisfied instances is always
\* accepted, and one of an unsatisfied instance only when the challenges hit a
\* root.  About the sum-check's claims, the order of bits of the two kinds of
\* tables and the powers of gamma on both sides.
AcceptsExactlyZeroGap ==
  verdict.done /\ proof.op \notin {"linearize", "none"}
    => (verdict.native <=> Gap(proof) = 0)

\* The accumulator a verifier computes for itself is the prover's.
VerifierComputesSame == verdict.done => verdict.agrees

\* Every accumulator a proof made is satisfied by the witness it carries,
\* commitment included, however long the sequence of folds and whatever the
\* leaves: folding may not lose the witness of its own result.  The leaves of
\* a tree get all-zero points and values first; one fold later they too are
\* satisfied.
FoldedSatisfied ==
  \/ job.mode \in {"atomic", "mangrove"}
  \/ job.mode = "tree" /\ folds = 0
  \/ \A i \in 1..Len(accs) : LinearizedSat(S, accs[i].U, accs[i].W)

\* The circuit that checks a fold of fresh instances accepts what the native
\* verifier accepts.
CircuitAgreesOnFresh ==
  verdict.done /\ proof.op = "fresh" => (verdict.circuit <=> verdict.native)

\* A whole chain's products are equal under every challenge exactly when each
\* leaf starts where the one before ended.
ProductsTieLeaves ==
  job.mode = "mangrove" /\ leaf = Len(chain)
    => ((\A ab \in Fe \X Fe : grand[ab][1] = grand[ab][2])
         <=> \A k \in 1..(Len(chain) - 1) : chain[k].output = chain[k + 1].input)

\* What verify_linearization and its test say: the proof of a satisfied step
\* is accepted.
HonestLinearizationAccepted ==
  verdict.done /\ proof.op = "linearize" => verdict.native
=============================================================================
