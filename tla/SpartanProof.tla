---------------------------- MODULE SpartanProof ----------------------------
(***************************************************************************)
(* A Spartan session: a prover makes a proof stage by stage, a verifier    *)
(* replays it stage by stage (spartan/src/lib.rs, r1csinstance.rs,         *)
(* r1csproof.rs, crr1cs.rs, crr1csproof.rs, committed_relaxed_snark.rs).   *)
(*                                                                         *)
(* Three kinds share the machine: "nizk" and "snark" hide the claims in    *)
(* commitments, "relaxed" proves a committed relaxed instance in the clear;*)
(* "snark" and "relaxed" also prove the values of the committed matrices.  *)
(* A fourth, "zeromorph", is one opening of the other commitment scheme.   *)
(*                                                                         *)
(* Both sides keep a transcript, the calls they made on it stage by stage; *)
(* each side's calls are translated from its own code.  A stage draws its  *)
(* challenges from the transcript so far: `oracle` remembers what was      *)
(* answered to each transcript, so a verifier whose transcript equals the  *)
(* prover's gets the prover's challenges, and any others otherwise.  The   *)
(* challenges of one stage come from one seed.  A message's `calls` are    *)
(* the prover's own and are not sent.                                      *)
(***************************************************************************)
EXTENDS SpartanInstance, Zeromorph

CONSTANTS Seeds,            \* what the transcript may answer with
          Jobs,             \* what may be asked: kind, shape, witness, input
          Tape              \* the prover's random tape

VARIABLES job,              \* the job of this session
          proof,            \* the messages sent so far, by stage
          pstage, ptr, pch, \* the prover: next stage, transcript by stages, seeds drawn
          vstage, vtr, vch, \* the verifier
          verdict,          \* "none", "accept", "error" or "panic"
          oracle            \* transcript -> seed

vars == <<job, proof, pstage, ptr, pch, vstage, vtr, vch, verdict, oracle>>

(* Stages. *)

StagesOf(kind) ==
  IF kind = "zeromorph" THEN <<"commit", "quotients", "shift", "pi">>
  ELSE <<"commit", "phase1", "phase2", "open">>
         \o (IF kind = "nizk" THEN <<>> ELSE <<"evals", "product", "hash">>)
NextStage(kind, st) ==
  LET s == StagesOf(kind)
      i == CHOOSE k \in 1..Len(s) : s[k] = st
  IN IF i = Len(s) THEN "done" ELSE s[i + 1]

\* What the stages ask the transcript for.
TauOf(n, ch) == Challenges(ch["phase1"], 1, n)
RxOf(n, ch) == Challenges(ch["phase1"], 2, n)
RabcOf(ch) == Challenges(ch["phase2"], 1, 3)
RyOf(n, ch) == Challenges(ch["phase2"], 2, n)
RMemOf(ch) == Challenges(ch["product"], 1, 2)
OpsSeed(ch) == ch["product"]
MemSeed(ch) == <<ch["product"][2], ch["product"][1]>>
YOf(ch) == Challenges(ch["shift"], 1, 1)[1]
XOf(ch) == Challenges(ch["pi"], 1, 2)[1]
ZOf(ch) == Challenges(ch["pi"], 1, 2)[2]

(* What the prover knows once it has drawn ch. *)

WBlinds == Challenges(Tape, 1, 2^FactoredLens(NumVars(Resize(job.w, job.shape.nv)))[1])
W == Resize(job.w, job.shape.nv)
E == Resize(job.E, job.shape.cons)
Z == ZVec(job.shape, job.w, job.u, job.input)
Hidden == job.kind # "relaxed"

EvalsABC(ch) ==
  LET tx == EqEvals(RxOf(VarsX(job.shape), ch))
      r == RabcOf(ch)
      t == [m \in 1..3 |-> EvalTableSparse(job.shape.mats[m], tx, 2 * job.shape.nv)]
  IN [i \in 1..2 * job.shape.nv |-> (r[1] * t[1][i] + r[2] * t[2][i] + r[3] * t[3][i]) % P]

\* Phase one: tau(x) * (Az*Bz - u*Cz - E)(x) sums to zero.  After the rounds
\* of the hiding sum-check, the claims are committed and proved consistent.
ClaimsPhaseOne(sc, pp, kp, b, c) ==
  LET cl == sc.claims
      blind == Times(cl[1], (b[4] - b[3]) % P)
      claim == Times(cl[2] * cl[3] - cl[4], cl[1])
      eq == EqualityProve(blind, sc.blind, SubSeq(b, 7, 7), c)
  IN [sc |-> sc, Az |-> pp.X, Bz |-> pp.Y, Cz |-> kp.C, AzBz |-> pp.Z, pok |-> kp,
      prod |-> pp, eq |-> eq, blind |-> sc.blind,
      calls |-> Asked("challenge_tau", VarsX(job.shape)) \o sc.calls
        \o KnowledgeProverCalls(kp) \o ProductProverCalls(pp)
        \o <<<<"comm_Az_claim", pp.X>>, <<"comm_Bz_claim", pp.Y>>, <<"comm_Cz_claim", kp.C>>,
             <<"comm_prod_Az_Bz_claims", pp.Z>>>>
        \o EqualityProverCalls(claim, blind, claim, sc.blind, eq)]
HiddenPhaseOne(sc, b, c) ==
  LET cl == sc.claims
  IN ClaimsPhaseOne(sc, ProductProve(cl[2], b[1], cl[3], b[2], Times(cl[2], cl[3]), b[4],
                                     SubSeq(b, 5, 9), c),
                    KnowledgeProve(cl[4], b[3], SubSeq(b, 5, 6), c), b, c)
ClearPhaseOne(sc) ==
  [polys |-> sc.polys, Az |-> sc.claims[2], Bz |-> sc.claims[3], Cz |-> sc.claims[4],
   E |-> sc.claims[5],
   calls |-> Asked("challenge_tau", VarsX(job.shape)) \o sc.calls
     \o <<<<"Az_claim", sc.claims[2]>>, <<"Bz_claim", sc.claims[3]>>,
          <<"Cz_claim", sc.claims[4]>>, <<"E_claim", sc.claims[5]>>>>]
PhaseOne(ch) ==
  LET n == VarsX(job.shape)
      tau == EqEvals(TauOf(n, ch))
      p == Products(job.shape, Z)
      rx == RxOf(n, ch)
  IN IF Hidden
     THEN HiddenPhaseOne(ProveCubicWithAdditiveTerm(tau, p[1], p[2], p[3], 0, 0, rx,
                                                    ch["phase1"], Tape),
                         Challenges(Tape, 2, 9), Units(ch["phase1"], 4, 1)[1])
     ELSE ClearPhaseOne(ProveCubicFiveTerms(tau, p[1], p[2], p[3], E, job.u, 0, rx))

\* Phase two: z(y) times the random combination of the matrices at rx.
AfterRabc(sc) ==
  [sc EXCEPT !.calls = <<<<"challenege_Az">>, <<"challenege_Bz">>, <<"challenege_Cz">>>> \o @]
PhaseTwo(ch) ==
  LET r == RabcOf(ch)
      one == proof["phase1"]
      ry == RyOf(VarsY(job.shape), ch)
      b == Challenges(Tape, 2, 9)
      p == Products(job.shape, Z)
      at(m) == Evaluate(p[m], RxOf(VarsX(job.shape), ch))
  IN IF Hidden
     THEN AfterRabc(ProveQuadZk(Z, EvalsABC(ch),
                                (r[1] * at(1) + r[2] * at(2) + r[3] * at(3)) % P,
                                (r[1] * b[1] + r[2] * b[2] + r[3] * b[3]) % P, ry,
                                ch["phase2"], <<Tape[2], Tape[1]>>))
     ELSE AfterRabc(ProveQuad(Z, EvalsABC(ch),
                              (r[1] * one.Az + r[2] * one.Bz + r[3] * one.Cz) % P, ry))

Opening(ch) ==
  LET ny == VarsY(job.shape)
      ry == RyOf(ny, ch)
      eval == Evaluate(W, Tail(ry))
      c == Units(ch["open"], 3, 1)[1]
      blind == Tape[1]
      two == proof["phase2"]
  IN IF Hidden
     THEN LET pe == PolyEvalProve(W, WBlinds, Tail(ry), eval, blind, OpenTape,
                                  OpenUnits(ny - 1, ch["open"]), c)
              blindZ == Times(two.claims[2], Times((1 - ry[1]) % P, blind))
              claim == Times(two.claims[1], two.claims[2])
              eq == EqualityProve(blindZ, two.blind, <<Tape[2]>>, c)
          IN [proof |-> pe.proof, C_Zr |-> pe.C_Zr, eq |-> eq,
              calls |-> PolyEvalProverCalls(W, WBlinds, Tail(ry), eval, blind, pe.proof)
                        \o EqualityProverCalls(claim, blindZ, claim, two.blind, eq)]
     ELSE LET rx == RxOf(VarsX(job.shape), ch)
              pfW == HyraxProve(W, Tail(ry), eval, OpenTape, OpenUnits(ny - 1, ch["open"]), c)
              pfE == HyraxProve(E, rx, proof["phase1"].E, OpenTape,
                                OpenUnits(VarsX(job.shape), ch["open"]), c)
          IN [eval |-> eval, vars |-> pfW, err |-> pfE,
              calls |-> HyraxProverCalls(W, Tail(ry), eval, pfW)
                        \o HyraxProverCalls(E, rx, proof["phase1"].E, pfE)]

(* The values of the matrices at (rx, ry), and their proof. *)

PointOf(s, ch) == Equalize(RxOf(VarsX(s), ch), RyOf(VarsY(s), ch))
DerefsOf(ch) ==
  LET d == Dense(job.shape.mats, VarsX(job.shape), VarsY(job.shape))
      pt == PointOf(job.shape, ch)
  IN Derefs(Deref(d.row, EqEvals(pt[1])), Deref(d.col, EqEvals(pt[2])))

DerefsCommitmentCalls(comm) ==
  <<<<"derefs_commitment", "begin">>>>
  \o CommitmentCalls("hyrax_commitment", "comm_poly_row_col_ops_val", comm)
  \o <<<<"derefs_commitment", "end">>>>
InstEvals(ch) ==
  LET e == MultiEvaluate(job.shape.mats, RxOf(VarsX(job.shape), ch),
                         RyOf(VarsY(job.shape), ch))
      comm == HyraxCommit(DerefsOf(ch).comb)
  IN [evals |-> e, derefs |-> comm,
      calls |-> <<<<"Ar_claim", e[1]>>, <<"Ar_claim", e[2]>>, <<"Ar_claim", e[3]>>,
                  ProtocolName("Sparse polynomial evaluation proof")>>
                \o DerefsCommitmentCalls(comm)]

ProductsOver(d, df, ch) ==
  LET pt == PointOf(job.shape, ch)
      rm == RMemOf(ch)
  IN ProductLayerProve(Layers(EqEvals(pt[1]), d.row, df.row, rm),
                       Layers(EqEvals(pt[2]), d.col, df.col, rm),
                       d, df, proof["evals"].evals, OpsSeed(ch), MemSeed(ch))
AfterRHash(pl) ==
  [pl EXCEPT !.calls = Asked("challenge_r_hash", 2)
                       \o <<ProtocolName("Sparse polynomial evaluation proof")>> \o @]
ProductStage(ch) ==
  AfterRHash(ProductsOver(Dense(job.shape.mats, VarsX(job.shape), VarsY(job.shape)),
                          DerefsOf(ch), ch))

HashStage(ch) ==
  HashLayerProve(proof["product"].mem.rand, proof["product"].ops.rand,
                 Dense(job.shape.mats, VarsX(job.shape), VarsY(job.shape)),
                 DerefsOf(ch), ch["hash"])

\* The opening of a Zeromorph commitment: job.Z at job.point claims job.eval.
ZmMessage(st, ch) ==
  CASE st = "commit" -> ZmCommit(job.Z)
    [] st = "quotients" -> ZmQuotients(job.Z, job.point)
    [] st = "shift" -> ZmShifted(proof["quotients"], YOf(ch))
    [] st = "pi" -> ZmPi(job.Z, job.point, job.eval, proof["quotients"], proof["shift"],
                         XOf(ch), YOf(ch), ZOf(ch), job.max)

Message(st, ch) ==
  CASE job.kind = "zeromorph" -> ZmMessage(st, ch)
    [] st = "commit" -> IF Hidden THEN [comm |-> CommitPoly(W, WBlinds)]
                        ELSE [comm |-> HyraxCommit(W), commE |-> HyraxCommit(E)]
    [] st = "phase1" -> PhaseOne(ch)
    [] st = "phase2" -> PhaseTwo(ch)
    [] st = "open" -> Opening(ch)
    [] st = "evals" -> InstEvals(ch)
    [] st = "product" -> ProductStage(ch)
    [] st = "hash" -> HashStage(ch)

(* What the prover appends and asks in each stage. *)

ComputationCalls(c) ==
  <<<<"num_cons", c.cons>>, <<"num_vars", c.nv>>, <<"num_inputs", c.inputs>>,
    <<"batch_size", c.comm.batch_size>>, <<"num_ops", c.comm.num_ops>>,
    <<"num_mem_cells", c.comm.num_mem_cells>>>>
  \o CommitmentCalls("hyrax_commitment", "comm_comb_ops", c.comm.ops)
  \o CommitmentCalls("hyrax_commitment", "comm_comb_mem", c.comm.mem)

CommitProverCalls(msg) ==
  (IF job.kind = "nizk"
   THEN <<ProtocolName("Spartan NIZK proof"), <<"R1CSInstance", job.shape>>>>
   ELSE <<ProtocolName("Spartan SNARK proof")>> \o ComputationCalls(Comm(job.shape)))
  \o (IF Hidden
      THEN <<ProtocolName("R1CS proof"), <<"input", job.input>>>>
           \o CommitmentCalls("poly_commitment", "poly_commitment", msg.comm)
      ELSE <<ProtocolName("CRR1CS proof"), <<"input", job.input>>, <<"u", job.u>>>>
           \o CommitmentCalls("hyrax_commitment", "comm_W", msg.comm)
           \o CommitmentCalls("hyrax_commitment", "comm_E", msg.commE))

ZmProverCalls(st, msg) ==
  CASE st = "commit" -> <<ProtocolName("Zeromorph_eval_proof"), <<"eval_claim", job.eval>>,
                          <<"eval_point", job.point>>, <<"commitment", msg>>>>
    [] st = "quotients" -> Each(Len(msg), LAMBDA k : <<<<"quotients", msg[k]>>>>)
    [] st = "shift" -> <<<<"y">>, <<"C_q_hat", msg>>>>
    [] st = "pi" -> <<<<"x">>, <<"z">>>>

ProverCalls(st, msg) ==
  CASE job.kind = "zeromorph" -> ZmProverCalls(st, msg)
    [] st = "commit" -> CommitProverCalls(msg)
    [] OTHER -> msg.calls

(* The verifier's stages.  `ok` with the error it gives otherwise. *)

\* As a bug would have it: the rounds hold, and their last claim is not
\* compared with the values claimed at rx.
PhaseOneUnbound(ch) ==
  LET n == VarsX(job.shape)
      m == proof["phase1"]
  IN IF Hidden THEN (IF ZkVerify(m.sc, CommitScalar(0, 0), n, 3, RxOf(n, ch), ch["phase1"]).ok
                     THEN "ok" ELSE "error")
     ELSE (IF VerifyRounds(m.polys, 0, n, 3, RxOf(n, ch)).ok THEN "ok" ELSE "panic")
VerifyPhaseOne(ch) ==
  LET n == VarsX(job.shape)
      m == proof["phase1"]
      rx == RxOf(n, ch)
      bound == EqEvaluate(rx, TauOf(n, ch))
      c == Units(ch["phase1"], 4, 1)[1]
  IN IF Hidden
     THEN LET v == ZkVerify(m.sc, CommitScalar(0, 0), n, 3, rx, ch["phase1"])
          IN IF /\ v.ok
                /\ KnowledgeVerify(m.pok, m.Cz, c)
                /\ ProductVerify(m.prod, m.Az, m.Bz, m.AzBz, c)
                /\ EqualityVerify(m.eq, VScale(bound, VSub(m.AzBz, m.Cz)), v.comm, c)
             THEN "ok" ELSE "error"
     ELSE LET v == VerifyRounds(m.polys, 0, n, 3, rx)
          IN IF v.ok /\ ((m.Az * m.Bz - job.u * m.Cz - m.E) * bound) % P = v.e
             THEN "ok" ELSE "panic"

\* The claim after phase two, or its commitment.
PostPhaseTwo(ch) ==
  LET one == proof["phase1"]
      r == RabcOf(ch)
      ry == RyOf(VarsY(job.shape), ch)
  IN IF Hidden
     THEN ZkVerify(proof["phase2"], Combine(r, <<one.Az, one.Bz, one.Cz>>),
                   VarsY(job.shape), 2, ry, ch["phase2"])
     ELSE VerifyRounds(proof["phase2"].polys,
                       (r[1] * one.Az + r[2] * one.Bz + r[3] * one.Cz) % P,
                       VarsY(job.shape), 2, ry)

\* The inputs as a sparse polynomial: the constant at 0, then the inputs.
PolyInputEval(ry) ==
  SparseEvaluate(Log2(job.shape.nv),
                 <<<<0, job.u>>>> \o [i \in 1..Len(job.input) |-> <<i, job.input[i]>>],
                 Tail(ry))

\* The values of the matrices: recomputed by a NIZK's verifier, the
\* prover's claims otherwise.
EvalsSeen(ch) ==
  IF job.kind = "nizk"
  THEN MultiEvaluate(job.shape.mats, RxOf(VarsX(job.shape), ch), RyOf(VarsY(job.shape), ch))
  ELSE proof["evals"].evals

VerifyOpen(ch) ==
  LET ry == RyOf(VarsY(job.shape), ch)
      ny == VarsY(job.shape)
      m == proof["open"]
      c == Units(ch["open"], 3, 1)[1]
      post == PostPhaseTwo(ch)
      abc == Dot(RabcOf(ch), EvalsSeen(ch))
      inputs == PolyInputEval(ry)
  IN IF Hidden
     THEN LET comm_Z == Combine(<<(1 - ry[1]) % P, ry[1]>>,
                                <<m.C_Zr, CommitScalar(inputs, 0)>>)
          IN IF /\ PolyEvalVerify(m.proof, Tail(ry), m.C_Zr, proof["commit"].comm,
                                  OpenUnits(ny - 1, ch["open"]), c)
                /\ EqualityVerify(m.eq, VScale(abc, comm_Z), post.comm, c)
             THEN "ok" ELSE "error"
     ELSE IF ~ /\ HyraxVerify(proof["commit"].comm, m.vars, Tail(ry), m.eval,
                              OpenUnits(ny - 1, ch["open"]), c)
               /\ HyraxVerify(proof["commit"].commE, m.err, RxOf(VarsX(job.shape), ch),
                              proof["phase1"].E, OpenUnits(VarsX(job.shape), ch["open"]), c)
          THEN "error"
          ELSE IF Times(((1 - ry[1]) * m.eval + ry[1] * inputs) % P, abc) = post.e
               THEN "ok" ELSE "panic"

VerifyProduct(ch) ==
  LET comm == Comm(job.shape).comm
  IN ProductLayerVerify(proof["product"], comm.num_ops, comm.num_mem_cells,
                        proof["evals"].evals, OpsSeed(ch), MemSeed(ch))

VerifyHash(ch) ==
  LET comm == Comm(job.shape).comm
      pt == PointOf(job.shape, ch)
  IN HashLayerVerify(proof["hash"], VerifyProduct(ch), comm, proof["evals"].derefs,
                     pt[1], pt[2], RMemOf(ch), ch["hash"])

VerifyPi(ch) ==
  ZmVerify(proof["commit"], proof["quotients"], proof["shift"], proof["pi"], job.point,
           job.eval, XOf(ch), YOf(ch), ZOf(ch), job.max)

(* What the verifier appends and asks in each stage: what it was handed, *)
(* read from the proof, or computed.                                     *)

CommitVerifierCalls ==
  LET c == proof["commit"]
      statement == CASE job.kind = "nizk" ->
                          <<ProtocolName("Spartan NIZK proof"), <<"R1CSInstance", job.shape>>>>
                     [] OTHER ->
                          <<ProtocolName("Spartan SNARK proof")>>
                          \o ComputationCalls(Comm(job.shape))
  IN statement
     \o (IF Hidden
         THEN <<ProtocolName("R1CS proof"), <<"input", job.input>>>>
              \o CommitmentCalls("poly_commitment", "poly_commitment", c.comm)
         ELSE <<ProtocolName("CRR1CS proof"), <<"input", job.input>>, <<"u", job.u>>>>
              \o CommitmentCalls("hyrax_commitment", "comm_W", c.comm)
              \o CommitmentCalls("hyrax_commitment", "comm_E", c.commE))

PhaseOneVerifierCalls(ch) ==
  LET n == VarsX(job.shape)
      m == proof["phase1"]
      rx == RxOf(n, ch)
  IN Asked("challenge_tau", n) \o
     (IF Hidden
      THEN LET v == ZkVerify(m.sc, CommitScalar(0, 0), n, 3, rx, ch["phase1"])
           IN v.calls \o KnowledgeVerifierCalls(m.pok, m.Cz)
              \o ProductVerifierCalls(m.prod, m.Az, m.Bz, m.AzBz)
              \o <<<<"comm_Az_claim", m.Az>>, <<"comm_Bz_claim", m.Bz>>,
                   <<"comm_Cz_claim", m.Cz>>, <<"comm_prod_Az_Bz_claims", m.AzBz>>>>
              \o EqualityVerifierCalls(m.eq, VScale(EqEvaluate(rx, TauOf(n, ch)),
                                                    VSub(m.AzBz, m.Cz)), v.comm)
      ELSE VerifyRounds(m.polys, 0, n, 3, rx).calls
           \o <<<<"Az_claim", m.Az>>, <<"Bz_claim", m.Bz>>, <<"Cz_claim", m.Cz>>,
                <<"E_claim", m.E>>>>)

OpenVerifierCalls(ch) ==
  LET ry == RyOf(VarsY(job.shape), ch)
      m == proof["open"]
      comm_Z == Combine(<<(1 - ry[1]) % P, ry[1]>>,
                        <<m.C_Zr, CommitScalar(PolyInputEval(ry), 0)>>)
  IN IF Hidden
     THEN PolyEvalVerifierCalls(m.proof, Tail(ry), m.C_Zr, proof["commit"].comm)
          \o EqualityVerifierCalls(m.eq, VScale(Dot(RabcOf(ch), EvalsSeen(ch)), comm_Z),
                                   PostPhaseTwo(ch).comm)
     ELSE HyraxVerifierCalls(proof["commit"].comm, m.vars, Tail(ry), m.eval)
          \o HyraxVerifierCalls(proof["commit"].commE, m.err, RxOf(VarsX(job.shape), ch),
                                proof["phase1"].E)

\* As a bug would have it: without the commitment to the looked-up values.
EvalsCallsNoDerefs ==
  [i \in 1..3 |-> <<"Ar_claim", proof["evals"].evals[i]>>]
  \o <<ProtocolName("Sparse polynomial evaluation proof")>>
EvalsVerifierCalls ==
  [i \in 1..3 |-> <<"Ar_claim", proof["evals"].evals[i]>>]
  \o <<ProtocolName("Sparse polynomial evaluation proof")>>
  \o DerefsCommitmentCalls(proof["evals"].derefs)

ZmVerifierCalls(st) ==
  CASE st = "commit" -> <<ProtocolName("Zeromorph_eval_proof"), <<"eval_claim", job.eval>>,
                          <<"eval_point", job.point>>, <<"commitment", proof["commit"]>>>>
    [] st = "quotients" -> LET q == proof["quotients"]
                           IN Each(Len(q), LAMBDA k : <<<<"quotients", q[k]>>>>)
    [] st = "shift" -> <<<<"y">>, <<"C_q_hat", proof["shift"]>>>>
    [] st = "pi" -> <<<<"x">>, <<"z">>>>

VerifierCalls(st, ch) ==
  CASE job.kind = "zeromorph" -> ZmVerifierCalls(st)
    [] st = "commit" -> CommitVerifierCalls
    [] st = "phase1" -> PhaseOneVerifierCalls(ch)
    [] st = "phase2" -> <<<<"challenege_Az">>, <<"challenege_Bz">>, <<"challenege_Cz">>>>
                        \o PostPhaseTwo(ch).calls
    [] st = "open" -> OpenVerifierCalls(ch)
    [] st = "evals" -> EvalsVerifierCalls
    [] st = "product" -> Asked("challenge_r_hash", 2)
                         \o <<ProtocolName("Sparse polynomial evaluation proof")>>
                         \o VerifyProduct(ch).calls
    [] st = "hash" -> HashLayerVerifierCalls(proof["hash"], VerifyProduct(ch),
                                             Comm(job.shape).comm, proof["evals"].derefs,
                                             ch["hash"])

Check(st, ch) ==
  CASE st = "pi" -> IF VerifyPi(ch) THEN "ok" ELSE "error"
    [] st = "phase1" -> VerifyPhaseOne(ch)
    [] st = "phase2" -> IF PostPhaseTwo(ch).ok THEN "ok" ELSE "error"
    [] st = "open" -> VerifyOpen(ch)
    [] st = "product" -> IF VerifyProduct(ch).ok THEN "ok" ELSE "panic"
    [] st = "hash" -> IF VerifyHash(ch) THEN "ok" ELSE "panic"
    [] OTHER -> "ok"

(* Behaviour. *)

Init ==
  /\ job \in Jobs
  /\ proof = <<>> /\ oracle = <<>>
  /\ pstage = "commit" /\ ptr = <<>> /\ pch = <<>>
  /\ vstage = "commit" /\ vtr = <<>> /\ vch = <<>>
  /\ verdict = "none"

\* The transcript's answer: the old one if it was asked this before.
Draws(st) == st \notin {"commit", "evals", "quotients"}
Answer(tr, seed) ==
  IF tr \in DOMAIN oracle
  THEN seed = oracle[tr] /\ UNCHANGED oracle
  ELSE oracle' = [t \in DOMAIN oracle \cup {tr} |-> IF t = tr THEN seed ELSE oracle[t]]

With(f, k, v) == [x \in DOMAIN f \cup {k} |-> IF x = k THEN v ELSE f[x]]

\* What stops a prover: the assertions of the product layer (the multisets
\* and the split evaluations), a division by zero in the cyclotomic
\* polynomials, and the loop that draws x again.
Outcome(st, ch, msg) ==
  CASE st = "product" -> IF /\ msg.ok
                            /\ \A i \in 1..3 : Sum(msg.eval_val[i]) = proof["evals"].evals[i]
                         THEN "ok" ELSE "panic"
    [] st = "pi" -> IF XOf(ch) = 0 THEN "redraw"
                    ELSE IF Divisible(Len(job.point), XOf(ch)) THEN "ok" ELSE "panic"
    [] OTHER -> "ok"

\* One stage of prove.
ProveStage ==
  /\ pstage \notin {"done", "panic", "redraw"}
  /\ \E seed \in IF Draws(pstage) THEN Seeds ELSE {<<0, 0>>} :
       /\ IF Draws(pstage) THEN Answer(ptr, seed) ELSE UNCHANGED oracle
       /\ pch' = With(pch, pstage, seed)
       /\ \E msg \in {IF pstage = "pi" /\ XOf(pch') = 0 THEN <<>> ELSE Message(pstage, pch')} :
          \E out \in {Outcome(pstage, pch', msg)} :
            /\ proof' = IF out = "ok" THEN With(proof, pstage, msg) ELSE proof
            /\ ptr' = Append(ptr, ProverCalls(pstage, msg))
            /\ pstage' = IF out = "ok" THEN NextStage(job.kind, pstage) ELSE out
  /\ UNCHANGED <<job, vstage, vtr, vch, verdict>>

\* The loop for a zero x tests x and assigns x0.  It leads nowhere: what it
\* asks is left out of the transcript.
RedrawX ==
  /\ pstage = "redraw"
  /\ XOf(pch) = 0
  /\ \E seed \in Seeds : pch' = With(pch, "x0", seed)
  /\ UNCHANGED <<job, proof, pstage, ptr, vstage, vtr, vch, verdict, oracle>>

VerifyStage ==
  /\ pstage = "done" /\ verdict = "none"
  /\ \E seed \in IF Draws(vstage) THEN Seeds ELSE {<<0, 0>>} :
       /\ IF Draws(vstage) THEN Answer(vtr, seed) ELSE UNCHANGED oracle
       /\ vch' = With(vch, vstage, seed)
       /\ \E res \in {Check(vstage, vch')}, next \in {NextStage(job.kind, vstage)} :
            /\ verdict' = IF res # "ok" THEN res
                          ELSE IF next = "done" THEN "accept" ELSE "none"
            /\ vtr' = IF res = "ok" THEN Append(vtr, VerifierCalls(vstage, vch')) ELSE vtr
            /\ vstage' = IF res = "ok" THEN next ELSE vstage
  /\ UNCHANGED <<job, proof, pstage, ptr, pch>>

\* A session that has its verdict, or whose prover panicked, is over.
Finished == (verdict # "none" \/ pstage = "panic") /\ UNCHANGED vars

Next == ProveStage \/ RedrawX \/ VerifyStage \/ Finished
Spec == Init /\ [][Next]_vars
\* The loop runs on: nothing but its own condition stops it.
FairSpec == Spec /\ WF_vars(RedrawX)

(***************************************************************************)
(* Properties.                                                             *)
(***************************************************************************)

\* What phase one sums: the error polynomial weighted with eq(tau, .).
SumAt(tau) ==
  LET p == Products(job.shape, Z)
  IN Dot(EqEvals(tau), [i \in 1..job.shape.cons |->
                          (p[1][i] * p[2][i] - job.u * p[3][i] - E[i]) % P])

Satisfied ==
  IF job.kind = "zeromorph" THEN job.eval = Evaluate(job.Z, job.point)
  ELSE IsSat(job.shape, job.w, job.u, E, job.input)

\* Types of the session: stages of its kind, answers of the transcript.
TypeOK ==
  /\ job \in Jobs
  /\ pstage \in {"done", "panic", "redraw"}
                 \cup {StagesOf(job.kind)[i] : i \in 1..Len(StagesOf(job.kind))}
  /\ verdict \in {"none", "accept", "error", "panic"}
  /\ \A t \in DOMAIN oracle : oracle[t] \in Seeds

\* Through every stage a verifier has passed, verify has made the calls prove
\* made: the same labels in the same order, and the commitments, claims and
\* round polynomials the verifier recomputes are those the prover appended
\* from its witness.  So it has drawn the prover's challenges, in the stage it
\* fails too (append_* and challenge_* in both directions of nizk/mod.rs,
\* bullet.rs, dense_mlpoly.rs, sumcheck.rs, product_tree.rs, r1csproof.rs,
\* crr1csproof.rs, sparse_mlpoly.rs, lib.rs and zeromorph/mod.rs).
TranscriptsAgree ==
  /\ \A i \in 1..Len(vtr) : vtr[i] = ptr[i]
  /\ \A st \in DOMAIN vch : vch[st] = pch[st]

\* A witness that satisfies the instance is proved and accepted whatever the
\* challenges are, through every padding Instance::new and the sparse
\* polynomials do.
SatisfyingAccepted ==
  Satisfied => verdict \in {"none", "accept"} /\ pstage # "panic"

\* A witness that does not is accepted exactly when the challenges hide it:
\* tau is a root of the error polynomial, or a round challenge is one of the
\* points 0, 2, 3 at which the prover's round polynomial is the true one; a
\* wrong evaluation of a Zeromorph commitment, only when z is zero.
AcceptedOnlyByChance ==
  verdict # "none" =>
    (verdict = "accept" <=>
       IF job.kind = "zeromorph" THEN Satisfied \/ ZOf(pch) = 0
       ELSE LET n == VarsX(job.shape)
                rx == RxOf(n, pch)
            IN SumAt(TauOf(n, pch)) = 0 \/ \E j \in 1..n : rx[j] \in {0, 2, 3})

\* The matrix values a proof carries are those of the dense matrices at
\* (rx, ry), and the two multisets of the memory check agree: padding, the
\* shared timestamps and the looked-up tables leave no entry out.
MatrixValuesRight ==
  "evals" \in DOMAIN proof =>
    LET s == job.shape
        at(r, k) == EqEvaluate(r, Bits(k, Len(r)))
        rx == RxOf(VarsX(s), pch)
        ry == RyOf(VarsY(s), pch)
        full(m) == Sum([i \in 1..Len(s.mats[m]) |->
                          Times(at(rx, s.mats[m][i][1]), at(ry, s.mats[m][i][2]))
                            * s.mats[m][i][3]])
    IN /\ \A m \in 1..3 : proof["evals"].evals[m] = full(m)
       /\ "product" \in DOMAIN proof =>
            /\ MultisetsAgree(proof["product"].eval_row)
            /\ MultisetsAgree(proof["product"].eval_col)

\* The loop for a zero x ends: "as we need x to be nonzero for correctness,
\* we include this check for completeness" (zeromorph/mod.rs:129).
RedrawEnds == pstage = "redraw" ~> pstage # "redraw"
=============================================================================
