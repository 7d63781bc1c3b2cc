--------------------------- MODULE MCFoldSession ---------------------------
(* The shape of the tests of nova/src/r1cs (x^3 + x + 5 = y in four rows)  *)
(* and one of three rows, padded to four; right and wrong witnesses.       *)
EXTENDS FoldSession

MCSeeds == {<<1, 1>>, <<3, 3>>}

Cubic ==
  CcsShape(R1csShape(4, 4, 2,
    <<<<<<1, 2>>>>, <<<<1, 3>>>>, <<<<1, 2>>, <<1, 4>>>>, <<<<5, 0>>, <<1, 5>>>>>>,
    <<<<<<1, 2>>>>, <<<<1, 2>>>>, <<<<1, 0>>>>, <<<<1, 0>>>>>>,
    <<<<<<1, 3>>>>, <<<<1, 4>>>>, <<<<1, 5>>>>, <<<<1, 1>>>>>>))
ThreeRows ==
  CcsShape(R1csShape(3, 3, 2,
    <<<<<<1, 2>>>>, <<<<1, 3>>>>, <<<<5, 0>>, <<1, 2>>, <<1, 4>>>>>>,
    <<<<<<1, 2>>>>, <<<<1, 2>>>>, <<<<1, 0>>>>>>,
    <<<<<<1, 3>>>>, <<<<1, 4>>>>, <<<<1, 1>>>>>>))

Mod(v) == [i \in 1..Len(v) |-> v[i] % P]
CubicLeaf(x, y) ==
  CcsInst(Cubic, Mod(<<x, x * x, x * x * x, x * x * x + x>>), Mod(<<1, y>>))
ThreeLeaf(x, y) ==
  CcsInst(ThreeRows, Mod(<<x, x * x, x * x * x>>), Mod(<<1, y>>))
Right(x) == x * x * x + x + 5

MCJobs ==
  {[mode |-> m, shape |-> Cubic, leaves |-> l] :
     m \in {"accumulate", "atomic"},
     l \in {<<CubicLeaf(3, Right(3)), CubicLeaf(5, Right(5))>>,
            <<CubicLeaf(2, Right(2)), CubicLeaf(1, 3)>>}}
  \union
  {[mode |-> "accumulate", shape |-> ThreeRows,
    leaves |-> <<ThreeLeaf(4, Right(4)), ThreeLeaf(2, Right(2) + 1)>>],
   [mode |-> "tree", shape |-> ThreeRows,
    leaves |-> [i \in 1..4 |-> ThreeLeaf(i, Right(i))]]}

\* Three leaves of one byte: an honest chain, and all declarations of the
\* middle states from a small set.
Declared(reqs) ==
  Vec([k \in 1..Len(reqs) |-> MangroveComputation(k - 1, Len(reqs), reqs[k])])
Honest == Declared(GenerateRequests(<<2>>, 6, 3))
MCChains ==
  {Vec([k \in 1..3 |-> [Honest[k] EXCEPT !.input = <<d[k]>>, !.output = <<e[k]>>]]) :
     d \in [1..3 -> {0, 1, 4}], e \in [1..3 -> {0, 1, 4}]} \union {Honest}

ASSUME ChainBuilt == BuilderOk(6, 3) /\ \A k \in 1..3 : ComputationVerify(Honest[k])
=============================================================================
