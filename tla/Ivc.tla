-------------------------------- MODULE Ivc --------------------------------
(***************************************************************************)
(* Incrementally verifiable computation: the sequential Nova, SuperNova    *)
(* and HyperNova provers and verifiers (nova/src/circuits).  A proof of i  *)
(* steps holds running instances (one per circuit in SuperNova), a         *)
(* secondary accumulator for each, and a fresh instance of the augmented   *)
(* circuit of the last step, whose public input is a hash of all of it.    *)
(* prove_step folds the fresh instance into its running one and makes the  *)
(* next; it verifies nothing.                                              *)
(*                                                                         *)
(* A program is a sequence of circuits, each with its own coefficient, and *)
(* the selector of the next; z is the selector and a value.  The augmented *)
(* circuit keeps the row of the step, the row of the output hash and one   *)
(* row that holds when no equality the circuit enforces fails.             *)
(***************************************************************************)
EXTENDS CycleFold

CONSTANT Jobs               \* scheme, program, start, another start, steps to make

VARIABLES job,
          params,           \* shapes and digest, from setup
          proof,            \* NIVCProof / IVCProof
          saved,            \* the proofs so far, as a caller may store them
          reloaded,         \* the session went on from parts of stored proofs
          fold              \* the last fold, by prover, verifier and circuit

vars == <<job, params, proof, saved, reloaded, fold>>

None == <<>>
IsSome(x) == x # None
NumCircuits == Len(job.circuits)

\* setup: the shape of every circuit, and the digest of it all.
CircuitShape(a) ==
  R1csShape(3, 4, 2,
    <<<<<<1, 2>>>>, <<<<1, 4>>>>, <<<<1, 5>>>>>>,
    <<<<<<a, 2>>>>, <<<<1, 0>>>>, <<<<1, 0>>>>>>,
    <<<<<<1, 3>>>>, <<>>, <<<<1, 1>>>>>>)
Setup(circuits) ==
  [shapes |-> Vec([c \in 1..Len(circuits) |-> CircuitShape(circuits[c])]),
   digest |-> Absorb(7, circuits \o <<Len(circuits)>>)]
Shape(c) == params.shapes[c]
Digest == params.digest

(* The step: its circuit and what it computes. *)

Selector(z) == z[1]
StepResult(z) ==
  <<job.next[Selector(z) + 1],
    (Times(Times(job.circuits[Selector(z) + 1], z[2]), z[2]) + 1) % P>>

\* The augmented circuit's assignment.
Assign(c, z, failed, hash) ==
  R1csInst(Shape(c), <<z[2], Times(Times(job.circuits[c], z[2]), z[2]), failed, hash>>,
           <<1, hash>>)

Failed(s) == Cardinality({k \in 1..Len(s) : ~s[k]})

ConcatAll(s) ==
  LET c[k \in 0..Len(s)] == IF k = 0 THEN <<>> ELSE c[k - 1] \o s[k]
  IN c[Len(s)]

\* The hash of a step: who, how far, from where, to where, and the
\* accumulators.
StepHash(i, z_0, z, flat) == Squeeze(Absorb(Digest, i \o z_0 \o z \o flat))

ZeroRelaxed(n, io) == [comm |-> Zeros(n), commE |-> Zeros(n), X |-> Zeros(io)]
U_base == ZeroRelaxed(4, 2)
U_secondary_base == ZeroRelaxed(2 * K, SecIo)
NoFold == [made |-> FALSE]

NewProof(z_0) == [z_0 |-> z_0, i |-> 0, pc |-> 0, z |-> z_0, U |-> <<>>, V |-> <<>>,
                  u |-> None]

(***************************************************************************)
(* Nova.                                                                   *)
(***************************************************************************)
FlatNova(U, V) == AbsorbedRelaxed(U) \o AbsorbedRelaxedEmulated(V)
FlatNovaVar(U, V) == AbsorbedVar(U) \o AbsorbedRelaxedSecondaryVar(V)

\* As a bug would have it: the hash of the step before is not compared.
AugmentedNovaNoHash(p, nimfs) ==
  LET m == Multifold(Digest, p.U[1].U, p.V[1].U, AllocFresh(p.u.U), nimfs)
      z == StepResult(p.z)
  IN [fold |-> m, z |-> z,
      u |-> Assign(1, p.z, Failed(<<m.ok>>),
              StepHash(<<p.i + 1>>, p.z_0, z, FlatNovaVar(m.U, m.U2)))]
\* NovaAugmentedCircuit::generate_constraints for a step after the first.
AugmentedNova(p, nimfs) ==
  LET m == Multifold(Digest, p.U[1].U, p.V[1].U, AllocFresh(p.u.U), nimfs)
      hash == StepHash(<<p.i>>, p.z_0, p.z, FlatNovaVar(p.U[1].U, p.V[1].U))
      z == StepResult(p.z)
      failed == Failed(<<p.i = 0 => p.z_0 = p.z, hash = p.u.U.X[2], m.ok>>)
  IN [fold |-> m, z |-> z,
      u |-> Assign(1, p.z, failed,
              StepHash(<<p.i + 1>>, p.z_0, z, FlatNovaVar(m.U, m.U2)))]
\* The first step: the accumulators are the zero ones.
AugmentedNovaBase(p) ==
  LET z == StepResult(p.z_0)
  IN [z |-> z, u |-> Assign(1, p.z_0, 0,
                       StepHash(<<1>>, p.z_0, z, FlatNovaVar(U_base, U_secondary_base)))]

Folded(n, v, m) ==
  [made |-> TRUE, asserts |-> n.asserts, verifies |-> v.ok, enforced |-> m.ok,
   prover |-> <<n.acc.U, n.sec.U>>, verifier |-> <<v.U, v.U2>>, circuit |-> <<m.U, m.U2>>]

Stored(p) == proof' = p /\ saved' = IF reloaded THEN saved ELSE Append(saved, p)
CanStep(scheme) == job.scheme = scheme /\ proof.i < job.steps

NovaBaseStep ==
  /\ CanStep("nova") /\ proof.u = None
  /\ LET a == AugmentedNovaBase(proof)
     IN Stored([proof EXCEPT !.i = 1, !.z = a.z, !.u = a.u,
                             !.U = <<RelaxedDefault(Shape(1))>>,
                             !.V = <<RelaxedDefault(SecShape)>>])
  /\ UNCHANGED <<job, params, reloaded, fold>>

NovaProveStep ==
  /\ CanStep("nova") /\ IsSome(proof.u)
  /\ \E n \in {NimfsNova(Shape(1), Digest, proof.U[1], proof.V[1], proof.u)} :
     \E a \in {AugmentedNova(proof, n.proof)} :
        /\ Stored([proof EXCEPT !.i = @ + 1, !.z = a.z, !.u = a.u,
                                !.U = <<n.acc>>, !.V = <<n.sec>>])
        /\ fold' = Folded(n, NimfsNovaVerify(Digest, proof.U[1].U, proof.V[1].U,
                                             proof.u.U, n.proof), a.fold)
  /\ UNCHANGED <<job, params, reloaded>>

NovaVerify(p, num_steps) ==
  /\ IsSome(p.u) /\ num_steps = p.i
  /\ p.u.U.X[2] = StepHash(<<p.i>>, p.z_0, p.z, FlatNova(p.U[1].U, p.V[1].U))
  /\ RelaxedSat(Shape(1), p.U[1].U, p.U[1].W)
  /\ RelaxedSat(SecShape, p.V[1].U, p.V[1].W)
  /\ R1csSat(Shape(1), p.u.U, p.u.W)

(***************************************************************************)
(* SuperNova: a slot per circuit, empty until its circuit is first folded. *)
(***************************************************************************)
OrBase(slots, base) == [k \in 1..Len(slots) |-> IF IsSome(slots[k]) THEN slots[k].U ELSE base]
FlatSlots(Us, Vs) ==
  ConcatAll([k \in 1..Len(Us) |-> AbsorbedRelaxed(Us[k])])
    \o ConcatAll([k \in 1..Len(Vs) |-> AbsorbedRelaxedEmulated(Vs[k])])
FlatSlotsVar(Us, Vs) ==
  ConcatAll([k \in 1..Len(Us) |-> AbsorbedVar(Us[k])])
    \o ConcatAll([k \in 1..Len(Vs) |-> AbsorbedRelaxedSecondaryVar(Vs[k])])

\* SelectorBits: one bit per circuit, one of them set.
SelectorOk(pc) == \E k \in 1..NumCircuits : pc = k - 1
InsertAt(vals, pc, v) == [k \in 1..Len(vals) |-> IF k - 1 = pc THEN v ELSE vals[k]]

AugmentedSuper(p, nimfs) ==
  LET Us == OrBase(p.U, U_base)
      Vs == OrBase(p.V, U_secondary_base)
      m == Multifold(Digest, Us[p.pc + 1], Vs[p.pc + 1], AllocFresh(p.u.U), nimfs)
      pc_next == Selector(p.z)
      hash == StepHash(<<p.i, p.pc>>, p.z_0, p.z, FlatSlotsVar(Us, Vs))
      z == StepResult(p.z)
      failed == Failed(<<p.i = 0 => p.z_0 = p.z, hash = p.u.U.X[2], SelectorOk(p.pc), m.ok>>)
  IN [fold |-> m, z |-> z, pc |-> pc_next,
      u |-> Assign(pc_next + 1, p.z, failed,
              StepHash(<<p.i + 1, pc_next>>, p.z_0, z,
                FlatSlotsVar(InsertAt(Us, p.pc, m.U), InsertAt(Vs, p.pc, m.U2))))]
AugmentedSuperBase(p) ==
  LET z == StepResult(p.z_0)
      pc_next == Selector(p.z_0)
      n == NumCircuits
  IN [z |-> z, pc |-> pc_next,
      u |-> Assign(pc_next + 1, p.z_0, 0,
              StepHash(<<1, pc_next>>, p.z_0, z,
                FlatSlotsVar([k \in 1..n |-> U_base], [k \in 1..n |-> U_secondary_base])))]

\* A selector out of range panics.
SuperBaseStep ==
  /\ CanStep("supernova") /\ proof.u = None /\ Selector(proof.z_0) < NumCircuits
  /\ LET a == AugmentedSuperBase(proof)
     IN Stored([proof EXCEPT !.i = 1, !.pc = a.pc, !.z = a.z, !.u = a.u,
                             !.U = [k \in 1..NumCircuits |-> None],
                             !.V = [k \in 1..NumCircuits |-> None]])
  /\ UNCHANGED <<job, params, reloaded, fold>>

\* As a bug would have it: the accumulator of the next circuit is replaced.
FoldedSlotNext(p) == Selector(p.z) + 1
FoldedSlot(p) == p.pc + 1

SuperProveStep ==
  /\ CanStep("supernova") /\ IsSome(proof.u) /\ Selector(proof.z) < NumCircuits
  /\ LET idx == FoldedSlot(proof)
         U_i == IF IsSome(proof.U[idx]) THEN proof.U[idx] ELSE RelaxedDefault(Shape(idx))
         V_i == IF IsSome(proof.V[idx]) THEN proof.V[idx] ELSE RelaxedDefault(SecShape)
     IN \E n \in {NimfsNova(Shape(idx), Digest, U_i, V_i, proof.u)} :
        \E a \in {AugmentedSuper([proof EXCEPT !.U[idx] = U_i, !.V[idx] = V_i], n.proof)} :
        /\ Stored([proof EXCEPT !.i = @ + 1, !.pc = a.pc, !.z = a.z, !.u = a.u,
                                !.U[idx] = n.acc, !.V[idx] = n.sec])
        /\ fold' = Folded(n, NimfsNovaVerify(Digest, U_i.U, V_i.U, proof.u.U, n.proof),
                          a.fold)
  /\ UNCHANGED <<job, params, reloaded>>

\* The shapes are numbered along the filled slots only.
FilledSlots(U) == SelectSeq([k \in 1..Len(U) |-> U[k]], IsSome)

SuperVerify(p, num_steps) ==
  /\ IsSome(p.u) /\ num_steps = p.i
  /\ p.u.U.X[2] = StepHash(<<p.i, p.pc>>, p.z_0, p.z,
                    FlatSlots(OrBase(p.U, U_base), OrBase(p.V, U_secondary_base)))
  /\ \A k \in 1..Len(FilledSlots(p.U)) :
       RelaxedSat(Shape(k), FilledSlots(p.U)[k].U, FilledSlots(p.U)[k].W)
  /\ \A k \in 1..NumCircuits : IsSome(p.V[k]) => RelaxedSat(SecShape, p.V[k].U, p.V[k].W)
  /\ R1csSat(Shape(p.pc + 1), p.u.U, p.u.W)

(***************************************************************************)
(* HyperNova: the running instance is linearized.                          *)
(***************************************************************************)
HyperShape == CcsShape(Shape(1))
LccsBase == [comm |-> Zeros(4), X |-> Zeros(2), rs |-> Zeros(SafeLog(3)), vs |-> Zeros(3)]
FlatHyper(U, V) == AbsorbedLccs(U) \o AbsorbedRelaxedEmulated(V)
FlatHyperVar(U, V) == AbsorbedLccsVar(U) \o AbsorbedRelaxedSecondaryVar(V)

AugmentedHyper(p, nimfs) ==
  LET m == MultifoldHyper(HyperShape, Digest, p.U[1].U, p.V[1].U, AllocFresh(p.u.U), nimfs)
      hash == StepHash(<<p.i>>, p.z_0, p.z, FlatHyperVar(p.U[1].U, p.V[1].U))
      z == StepResult(p.z)
      failed == Failed(<<p.i = 0 => p.z_0 = p.z, hash = p.u.U.X[2], m.ok>>)
  IN [fold |-> m, z |-> z,
      u |-> Assign(1, p.z, failed,
              StepHash(<<p.i + 1>>, p.z_0, z, FlatHyperVar(m.U, m.U2)))]
AugmentedHyperBase(p) ==
  LET z == StepResult(p.z_0)
  IN [z |-> z, u |-> Assign(1, p.z_0, 0,
                       StepHash(<<1>>, p.z_0, z, FlatHyperVar(LccsBase, U_secondary_base)))]

HyperBaseStep ==
  /\ CanStep("hypernova") /\ proof.u = None
  /\ LET a == AugmentedHyperBase(proof)
     IN Stored([proof EXCEPT !.i = 1, !.z = a.z, !.u = a.u,
                             !.U = <<[U |-> LccsBase, W |-> [W |-> Zeros(4)]]>>,
                             !.V = <<RelaxedDefault(SecShape)>>])
  /\ UNCHANGED <<job, params, reloaded, fold>>

\* The prover's debug assertion is recorded; a build without it goes on.
HyperProveStep ==
  /\ CanStep("hypernova") /\ IsSome(proof.u)
  /\ \E n \in {NimfsHyper(HyperShape, Digest, proof.U[1], proof.V[1], proof.u)} :
     \E a \in {AugmentedHyper(proof, n.proof)} :
        /\ Stored([proof EXCEPT !.i = @ + 1, !.z = a.z, !.u = a.u,
                                !.U = <<n.acc>>, !.V = <<n.sec>>])
        /\ fold' = Folded(n, NimfsHyperVerify(HyperShape, Digest, proof.U[1].U,
                               proof.V[1].U, proof.u.U, n.proof), a.fold)
  /\ UNCHANGED <<job, params, reloaded>>

HyperVerify(p, num_steps) ==
  /\ IsSome(p.u) /\ num_steps = p.i
  /\ p.u.U.X[2] = StepHash(<<p.i>>, p.z_0, p.z, FlatHyper(p.U[1].U, p.V[1].U))
  /\ LinearizedSat(HyperShape, p.U[1].U, p.U[1].W)
  /\ RelaxedSat(SecShape, p.V[1].U, p.V[1].W)
  /\ CcsSat(HyperShape, p.u.U, p.u.W)

(***************************************************************************)
(* A caller stores proofs and goes on from a stored one; a part of it may  *)
(* be of another step or of another start.                                 *)
(***************************************************************************)
Mixed(p, q, part) ==
  CASE part = "z_0" -> [p EXCEPT !.z_0 = job.other]
    [] part = "i" -> [p EXCEPT !.i = q.i]
    [] part = "z" -> [p EXCEPT !.z = q.z]
    [] part = "pc" -> [p EXCEPT !.pc = q.pc]
    [] part = "U" -> [p EXCEPT !.U = q.U]
    [] part = "V" -> [p EXCEPT !.V = q.V]
    [] part = "u" -> [p EXCEPT !.u = q.u]

Reload ==
  /\ ~reloaded /\ reloaded' = TRUE
  /\ \E a, b \in 1..Len(saved), part \in {"z_0", "i", "z", "pc", "U", "V", "u"} :
       /\ proof' = Mixed(saved[a], saved[b], part)
       /\ \A c \in 1..Len(saved) : proof' # saved[c]
  /\ fold' = NoFold
  /\ UNCHANGED <<job, params, saved>>

Init ==
  /\ job \in Jobs /\ params = Setup(job.circuits)
  /\ proof = NewProof(job.z_0) /\ saved = <<>> /\ reloaded = FALSE
  /\ fold = NoFold

Next ==
  \/ NovaBaseStep \/ NovaProveStep \/ SuperBaseStep \/ SuperProveStep
  \/ HyperBaseStep \/ HyperProveStep \/ Reload

Spec == Init /\ [][Next]_vars

(***************************************************************************)
(* Properties.                                                             *)
(***************************************************************************)
Verifies(p, n) ==
  CASE job.scheme = "nova" -> NovaVerify(p, n)
    [] job.scheme = "supernova" -> SuperVerify(p, n)
    [] job.scheme = "hypernova" -> HyperVerify(p, n)

\* Where n steps lead.
After(z_0, n) ==
  LET t[k \in 0..n] == IF k = 0 THEN z_0 ELSE StepResult(t[k - 1])
  IN t[n]

\* A proof that verifies is of the computation it names: its value is what
\* its number of steps make of its start.  Also when the session went on,
\* for any number of steps, from a stored proof with a part that is not its
\* own: no step after it may repair what the hash has not tied.
VerifiedIsComputed ==
  proof.i > 0 /\ Verifies(proof, proof.i) => proof.z = After(proof.z_0, proof.i)

\* A session that steps verifies after every step, for the number of steps
\* it made and no other.  Of SuperNova this holds while the circuits come
\* into use in the order of their numbers, of HyperNova for the first step.
HonestVerifies ==
  LET filled == {k \in 1..Len(proof.U) : IsSome(proof.U[k])}
      usual == CASE job.scheme = "nova" -> TRUE
                 [] job.scheme = "supernova" -> filled = 1..Cardinality(filled)
                 [] job.scheme = "hypernova" -> proof.i <= 1
  IN ~reloaded /\ proof.i > 0 /\ usual
       => \A n \in 0..(job.steps + 1) : Verifies(proof, n) <=> n = proof.i

\* Prover, verifier and augmented circuit fold to the same two instances,
\* and what each of them checks of the traces holds: also for a fold of
\* parts that do not belong together.
CircuitFoldsAsProver ==
  fold.made /\ job.scheme # "hypernova"
    => /\ fold.asserts /\ fold.verifies /\ fold.enforced
       /\ fold.verifier = fold.prover /\ fold.circuit = fold.prover

\* What the tests of supernova say: a proof of num_steps steps verifies.
NivcVerifies ==
  job.scheme = "supernova" /\ ~reloaded /\ proof.i > 0 => SuperVerify(proof, proof.i)

\* What the debug assertion of HyperNova's fold and its test say: the trace
\* of the folded commitment satisfies the secondary circuit.
HyperTraceSatisfied == fold.made /\ job.scheme = "hypernova" => fold.asserts
=============================================================================
