----------------------------- MODULE CycleFold -----------------------------
(***************************************************************************)
(* Folding on a cycle of curves (nova/src/folding/nova/cyclefold,          *)
(* folding/hypernova/cyclefold, folding/cyclefold/secondary and their      *)
(* gadgets in gadgets/cyclefold).  A fold of primary instances multiplies  *)
(* points; every such multiplication is proved by a small R1CS instance on *)
(* the other curve, the trace, and the traces are folded into a secondary  *)
(* accumulator.  The folds are made by the prover, checked by a verifier,  *)
(* and checked again inside the augmented circuit.                         *)
(*                                                                         *)
(* One field stands for the scalars of both curves; the casts between      *)
(* them, the emulated arithmetic of the gadgets and the bits of r are left *)
(* out.  A point is its K coordinates over the generators.                 *)
(***************************************************************************)
EXTENDS CcsFold

CONSTANT K                  \* the coordinates of a primary commitment

\* Cubing is a permutation of the field, as the sponge's S-box has to be.
ASSUME SpongeAssumption == K \in Nat \ {0} /\ P % 3 = 2

(* A sponge of one element. *)

Mix(h, x) == LET s == (h + x + 1) % P IN Times(Times(s, s), s)
\* One element after the other; written by halves, which keeps TLC's
\* recursion shallow.
Absorb(h, v) ==
  LET a[g \in Fe, lo, hi \in 0..Len(v)] ==
        IF hi <= lo THEN g
        ELSE IF hi = lo + 1 THEN Mix(g, v[hi])
        ELSE LET mid == (lo + hi) \div 2 IN a[a[g, lo, mid], mid, hi]
  IN a[h, 0, Len(v)]
Squeeze(h) == Mix(h, 2)

\* What is absorbed of an instance, of the primary curve and of the
\* secondary one; the leading one of a fresh instance is not.
Absorbed(u) == u.comm \o Tail(u.X)
AbsorbedRelaxed(U) == U.comm \o U.commE \o U.X
AbsorbedEmulated(u) == u.comm \o Tail(u.X)
AbsorbedRelaxedEmulated(U) == U.comm \o U.commE \o U.X

\* The same inside a circuit, where an instance is variables: the one of a
\* fresh instance is a constant, whatever it was.
AllocFresh(u) == [comm |-> u.comm, X |-> <<1>> \o Tail(u.X)]
AbsorbedVar(U) == U.comm \o U.commE \o U.X

\* As a bug would have it: the constant one is absorbed too.
AbsorbedSecondaryVarAll(u) == u.comm \o u.X
AbsorbedSecondaryVar(u) == u.comm \o Tail(u.X)
AbsorbedRelaxedSecondaryVar(U) == U.comm \o U.commE \o U.X

(***************************************************************************)
(* The secondary circuit: g_out = g1 + r * g2, with all four as inputs.    *)
(***************************************************************************)
SecIo == 3 * K + 2          \* one, three points and r
G1At(k) == k                \* columns, from zero
G2At(k) == K + k
GOutAt(k) == 2 * K + k
RAt == 3 * K + 1

SecShape ==
  LET one == <<<<1, 0>>>>
  IN R1csShape(2 * K, K, SecIo,
       Vec([k \in 1..(2 * K) |->
          IF k <= K THEN <<<<1, RAt>>>>
          ELSE <<<<1, G1At(k - K)>>, <<1, SecIo + k - K - 1>>>>]),
       Vec([k \in 1..(2 * K) |-> IF k <= K THEN <<<<1, G2At(k)>>>> ELSE one]),
       Vec([k \in 1..(2 * K) |->
          IF k <= K THEN <<<<1, SecIo + k - 1>>>> ELSE <<<<1, GOutAt(k - K)>>>>]))

\* synthesize: the witness is the product, whatever g_out is claimed.
Synthesize(g1, g2, g_out, r) ==
  R1csInst(SecShape, VScale(r, g2), <<1>> \o g1 \o g2 \o g_out \o <<r>>)

ParseSecondaryIo(U) ==
  [g1 |-> SubSeq(U.X, 2, K + 1), g2 |-> SubSeq(U.X, K + 2, 2 * K + 1),
   g_out |-> SubSeq(U.X, 2 * K + 2, 3 * K + 1), r |-> U.X[SecIo]]

TraceOk(t) == R1csSat(SecShape, t.U, t.W)

(***************************************************************************)
(* Traces folded one after the other.  Each absorbs its instance, the      *)
(* commitment to its cross term and the challenge before.                  *)
(***************************************************************************)
FoldTraces(ro, sec, r_0, traces) ==
  LET st[k \in 0..Len(traces)] ==
        IF k = 0 THEN [h |-> ro, U |-> sec.U, W |-> sec.W, r |-> r_0, proofs |-> <<>>]
        ELSE LET s == st[k - 1]
                 t == traces[k]
                 T == CommitT(SecShape, s.U, s.W, t.U, t.W)
                 comm_T == CommitVec(SecShape, T)
                 r == Squeeze(Absorb(s.h, AbsorbedEmulated(t.U) \o comm_T \o <<s.r>>))
             IN [h |-> r, U |-> FoldInstance(s.U, t.U, comm_T, r),
                 W |-> FoldWitness(s.W, t.W, T, r), r |-> r,
                 proofs |-> Append(s.proofs, [U |-> t.U, T |-> comm_T])]
  IN st[Len(traces)]

\* The verifier's side.
FoldProofs(ro, U, r_0, proofs) ==
  LET st[k \in 0..Len(proofs)] ==
        IF k = 0 THEN [h |-> ro, U |-> U, r |-> r_0]
        ELSE LET s == st[k - 1]
                 p == proofs[k]
                 r == Squeeze(Absorb(s.h, AbsorbedEmulated(p.U) \o p.T \o <<s.r>>))
             IN [h |-> r, U |-> FoldInstance(s.U, p.U, p.T, r), r |-> r]
  IN st[Len(proofs)]

\* The circuit's: RelaxedR1CSInstanceVar::fold.
FoldVars(ro, U, r_0, proofs) ==
  LET st[k \in 0..Len(proofs)] ==
        IF k = 0 THEN [h |-> ro, U |-> U, r |-> r_0]
        ELSE LET s == st[k - 1]
                 p == proofs[k]
                 r == Squeeze(Absorb(s.h, AbsorbedSecondaryVar(p.U) \o p.T \o <<s.r>>))
             IN [h |-> r, U |-> FoldInstance(s.U, p.U, p.T, r), r |-> r]
  IN st[Len(proofs)]

(***************************************************************************)
(* A fresh instance folded into a relaxed one.                             *)
(***************************************************************************)
StartFold(vk, U, u, U2, comm_T) ==
  Absorb(vk, AbsorbedRelaxed(U) \o Absorbed(u) \o AbsorbedRelaxedEmulated(U2) \o comm_T)
StartFoldVar(vk, U, u, U2, comm_T) ==
  Absorb(vk, AbsorbedVar(U) \o u.comm \o Tail(u.X) \o AbsorbedRelaxedSecondaryVar(U2) \o comm_T)

NimfsNova(s, vk, acc, sec, fresh) ==
  LET T == CommitT(s, acc.U, acc.W, fresh.U, fresh.W)
      comm_T == CommitVec(s, T)
      ro == Squeeze(StartFold(vk, acc.U, fresh.U, sec.U, comm_T))
      U == FoldInstance(acc.U, fresh.U, comm_T, ro)
      traces == <<Synthesize(acc.U.commE, comm_T, U.commE, ro),
                  Synthesize(acc.U.comm, fresh.U.comm, U.comm, ro)>>
      f == FoldTraces(ro, sec, ro, traces)
  IN [proof |-> [T |-> comm_T, traces |-> f.proofs],
      acc |-> [U |-> U, W |-> FoldWitness(acc.W, fresh.W, T, ro)],
      sec |-> [U |-> f.U, W |-> f.W],
      asserts |-> \A k \in 1..2 : TraceOk(traces[k])]

NimfsNovaVerify(vk, U, U2, u, proof) ==
  LET ro == Squeeze(StartFold(vk, U, u, U2, proof.T))
      e == ParseSecondaryIo(proof.traces[1].U)
      w == ParseSecondaryIo(proof.traces[2].U)
  IN [ok |-> /\ e.r = ro /\ e.g1 = U.commE /\ e.g2 = proof.T
             /\ w.r = ro /\ w.g1 = U.comm /\ w.g2 = u.comm,
      U |-> [comm |-> w.g_out, commE |-> e.g_out, X |-> Line(U.X, ro, u.X)],
      U2 |-> FoldProofs(ro, U2, ro, proof.traces).U]

\* from_allocated_input: g_out and r as allocated, one, g1 and g2 from the
\* primary instances.
FromAllocatedInput(p, g1, g2) ==
  [p EXCEPT !.U.X = <<1>> \o g1 \o g2 \o SubSeq(@, 2 * K + 2, SecIo)]

\* multifold, in the augmented circuit; ok is what it enforces.
Multifold(vk, U, U2, u, proof) ==
  LET ro == Squeeze(StartFoldVar(vk, U, u, U2, proof.T))
      e == FromAllocatedInput(proof.traces[1], U.commE, proof.T)
      w == FromAllocatedInput(proof.traces[2], U.comm, u.comm)
  IN [ok |-> ParseSecondaryIo(e.U).r = ro /\ ParseSecondaryIo(w.U).r = ro,
      U |-> [comm |-> ParseSecondaryIo(w.U).g_out, commE |-> ParseSecondaryIo(e.U).g_out,
             X |-> Line(U.X, ro, u.X)],
      U2 |-> FoldVars(ro, U2, ro, <<e, w>>).U]

(***************************************************************************)
(* Two relaxed instances: the error needs two traces, and the secondary    *)
(* accumulators are folded with each other at the end.                     *)
(***************************************************************************)
StartRelaxed(vk, U1, U2, V1, comm_T) ==
  Absorb(vk, AbsorbedRelaxed(U1) \o AbsorbedRelaxed(U2) \o AbsorbedRelaxedEmulated(V1) \o comm_T)

\* NIFSProof::prove_with_relaxed and its verifier's challenge.
NifsChallenge(h, r, V1, V2, comm_T) ==
  Squeeze(Absorb(h, <<r>> \o AbsorbedRelaxedEmulated(V1) \o AbsorbedRelaxedEmulated(V2) \o comm_T))
NifsProve(f, sec) ==
  LET T == CommitTRelaxed(SecShape, f.U, f.W, sec.U, sec.W)
      comm_T == CommitVec(SecShape, T)
      r == NifsChallenge(f.h, f.r, f.U, sec.U, comm_T)
  IN [T |-> comm_T, sec |-> [U |-> FoldInstanceRelaxed(f.U, sec.U, comm_T, r),
                             W |-> FoldWitnessRelaxed(f.W, sec.W, T, r)]]
NifsVerify(f, V2, comm_T) ==
  FoldInstanceRelaxed(f.U, V2, comm_T, NifsChallenge(f.h, f.r, f.U, V2, comm_T))

NimfsRelaxed(s, vk, acc1, sec1, acc2, sec2) ==
  LET T == CommitTRelaxed(s, acc1.U, acc1.W, acc2.U, acc2.W)
      comm_T == CommitVec(s, T)
      ro == Squeeze(StartRelaxed(vk, acc1.U, acc2.U, sec1.U, comm_T))
      U == FoldInstanceRelaxed(acc1.U, acc2.U, comm_T, ro)
      g_out == Line(acc1.U.commE, ro, comm_T)
      traces == <<Synthesize(acc1.U.commE, comm_T, g_out, ro),
                  Synthesize(g_out, acc2.U.commE, U.commE, Times(ro, ro)),
                  Synthesize(acc1.U.comm, acc2.U.comm, U.comm, ro)>>
      f == FoldTraces(ro, sec1, ro, traces)
      n == NifsProve(f, sec2)
  IN [proof |-> [T |-> comm_T, traces |-> f.proofs, secondary |-> n.T],
      acc |-> [U |-> U, W |-> FoldWitnessRelaxed(acc1.W, acc2.W, T, ro)],
      sec |-> n.sec,
      asserts |-> \A k \in 1..3 : TraceOk(traces[k])]

NimfsRelaxedVerify(vk, U1, V1, U2, V2, proof) ==
  LET ro == Squeeze(StartRelaxed(vk, U1, U2, V1, proof.T))
      io == [k \in 1..3 |-> ParseSecondaryIo(proof.traces[k].U)]
  IN [ok |-> /\ io[1].r = ro /\ io[1].g1 = U1.commE /\ io[1].g2 = proof.T
             /\ io[2].r = Times(ro, ro) /\ io[2].g1 = io[1].g_out /\ io[2].g2 = U2.commE
             /\ io[3].r = ro /\ io[3].g1 = U1.comm /\ io[3].g2 = U2.comm,
      U |-> [comm |-> io[3].g_out, commE |-> io[2].g_out, X |-> Line(U1.X, ro, U2.X)],
      U2 |-> NifsVerify(FoldProofs(ro, V1, ro, proof.traces), V2, proof.secondary)]

MultifoldRelaxed(vk, U1, V1, U2, V2, proof) ==
  LET ro == Squeeze(StartRelaxed(vk, U1, U2, V1, proof.T))
      e0 == FromAllocatedInput(proof.traces[1], U1.commE, proof.T)
      e1 == FromAllocatedInput(proof.traces[2], ParseSecondaryIo(e0.U).g_out, U2.commE)
      w == FromAllocatedInput(proof.traces[3], U1.comm, U2.comm)
  IN [ok |-> /\ ParseSecondaryIo(e0.U).r = ro
             /\ ParseSecondaryIo(e1.U).r = Times(ro, ro)
             /\ ParseSecondaryIo(w.U).r = ro,
      U |-> [comm |-> ParseSecondaryIo(w.U).g_out, commE |-> ParseSecondaryIo(e1.U).g_out,
             X |-> Line(U1.X, ro, U2.X)],
      U2 |-> NifsVerify(FoldVars(ro, V1, ro, <<e0, e1, w>>), V2, proof.secondary)]

(***************************************************************************)
(* HyperNova: a fresh instance folded into a linearized one.  One trace,   *)
(* for the commitment to the witness, says g_out = g1 + rho * g2.          *)
(***************************************************************************)
AbsorbedLccs(U) == U.comm \o U.X \o U.rs \o U.vs
AbsorbedLccsVar(U) == U.comm \o U.X \o U.rs \o U.vs
StartHyper(vk, U, u, V) ==
  Absorb(0, AbsorbedRelaxedEmulated(V) \o <<vk>> \o AbsorbedLccs(U) \o Absorbed(u))
StartHyperVar(vk, U, u, V) ==
  Absorb(0, AbsorbedRelaxedSecondaryVar(V) \o <<vk>> \o AbsorbedLccsVar(U) \o u.comm \o Tail(u.X))
HyperSeed(h) == <<Squeeze(h), Squeeze(Squeeze(h))>>
AfterHyper(h, proof) ==
  LET n == Len(proof.msgs)
      a[j \in 0..n] == IF j = 0 THEN Squeeze(h) ELSE Squeeze(Absorb(a[j - 1], proof.msgs[j]))
  IN a[n]

NimfsHyper(s, vk, acc, sec, fresh) ==
  LET h == StartHyper(vk, acc.U, fresh.U, sec.U)
      n == NimfsProve(s, acc, fresh, HyperSeed(h))
      rho == Rho(HyperSeed(h))
      trace == Synthesize(acc.U.comm, fresh.U.comm, n.U.comm, rho)
      f == FoldTraces(AfterHyper(h, n.proof), sec, rho, <<trace>>)
  IN [proof |-> [hypernova |-> n.proof, traces |-> f.proofs],
      acc |-> [U |-> n.U, W |-> n.W], sec |-> [U |-> f.U, W |-> f.W],
      asserts |-> TraceOk(trace)]

NimfsHyperVerify(s, vk, U, V, u, proof) ==
  LET h == StartHyper(vk, U, u, V)
      n == NimfsVerify(s, U, u, proof.hypernova, HyperSeed(h))
      rho == Rho(HyperSeed(h))
      io == ParseSecondaryIo(proof.traces[1].U)
  IN [ok |-> n.ok /\ io.r = rho /\ io.g1 = U.comm /\ io.g2 = u.comm,
      U |-> n.U,
      U2 |-> FoldProofs(AfterHyper(h, proof.hypernova), V, rho, proof.traces).U]

\* The gadget takes the commitment from the trace and folds the rest with
\* the weights one and rho.
MultifoldHyper(s, vk, U, V, u, proof) ==
  LET h == StartHyperVar(vk, U, u, V)
      seed == HyperSeed(h)
      pf == proof.hypernova
      rs == Rounds(seed, Len(U.rs))
      rho == Rho(seed)
      g == GammaPowers(Gamma(seed), 1, 4)
      v == CircuitRounds(pf.info, Dot(SubSeq(g, 1, 3), U.vs), pf.msgs, rs)
      cl == Dot(SubSeq(g, 1, 3), pf.sigmas) * EqEvaluate(U.rs, rs)
      cr == Times(MultisetSum(s, pf.thetas), g[4]) * EqEvaluate(Beta(seed, s), rs)
      w == FromAllocatedInput(proof.traces[1], U.comm, u.comm)
      io == ParseSecondaryIo(w.U)
  IN [ok |-> v.ok /\ v.e = (cl + cr) % P /\ io.r = rho,
      U |-> [comm |-> io.g_out, X |-> Line(U.X, rho, u.X), rs |-> rs,
             vs |-> Line(pf.sigmas, rho, pf.thetas)],
      U2 |-> FoldVars(AfterHyper(h, pf), V, rho, <<w>>).U]
=============================================================================
