------------------------------ MODULE PcdTree -------------------------------
(***************************************************************************)
(* build_binary_pcd_tree of nova/src/circuits/nova/pcd/tree.rs, one action  *)
(* per turn of one of its loops.                                            *)
(***************************************************************************)
EXTENDS PcdNode, PowersOfTwo, Sequences, SequencesExt

CONSTANTS StepCounts,     \* the values of n to try, positive
          InitialInput,   \* initial_input
          ComputeStep(_)  \* compute_step, the caller's closure

ASSUME StepCountsAssumption == StepCounts \subseteq Nat \ {0}

VARIABLES n,        \* the number of steps asked for
          states,   \* the vector of states, states[k + 1] the one before step k
          nodes,    \* the HashMap from tree index to node
          level,    \* level_indices
          next,     \* next_level_indices
          phase     \* the loop the function is in

vars == <<n, states, nodes, level, next, phase>>

PaddedN == NextPowerOfTwo(n)

Init ==
    /\ n \in StepCounts
    /\ states = <<InitialInput>>
    /\ nodes = <<>>
    /\ level = <<>>
    /\ next = <<>>
    /\ phase = "compute"

\* compute_step runs min(n, 2 * padded_n - 1) times.  Nothing ties it to the
\* step circuit.
ComputeUpTo(steps) ==
    /\ phase = "compute"
    /\ IF Len(states) <= steps
       THEN /\ states' = Append(states, ComputeStep(Last(states)))
            /\ UNCHANGED phase
       ELSE /\ phase' = "pad"
            /\ UNCHANGED states
    /\ UNCHANGED <<n, nodes, level, next>>

ComputeOneLess == ComputeUpTo(Min({n, 2 * PaddedN - 1}) - 1)
ComputeState == ComputeUpTo(Min({n, 2 * PaddedN - 1}))

\* The last state is cloned until there are 2 * padded_n of them.
PadState ==
    /\ phase = "pad"
    /\ IF Len(states) < 2 * PaddedN
       THEN /\ states' = Append(states, Last(states))
            /\ UNCHANGED phase
       ELSE /\ phase' = "leaves"
            /\ UNCHANGED states
    /\ UNCHANGED <<n, nodes, level, next>>

\* The leaf for a step, stored at the tree index k = 2 * i.
LeafFor(k, step) ==
    /\ phase = "leaves"
    /\ nodes' = [x \in DOMAIN nodes \cup {k} |->
                     IF x = k THEN ProveLeaf(step, states[step + 1]) ELSE nodes[x]]
    /\ level' = Append(level, k)
    /\ phase' = IF Len(level') = PaddedN THEN "inner" ELSE "leaves"
    /\ UNCHANGED <<n, states, next>>

CreateLeaf == LeafFor(2 * Len(level), 2 * Len(level))

\* One pair of the level; the parent's index is the average of its children's.
CreateParent ==
    /\ phase = "inner"
    /\ Len(level) > 1
    /\ Len(next) < Len(level) \div 2
    /\ LET l == level[2 * Len(next) + 1]
           r == level[2 * Len(next) + 2]
           p == (l + r) \div 2
       IN  /\ nodes' = [x \in DOMAIN nodes \cup {p} |->
                            IF x = p THEN ProveParent(nodes[l], nodes[r]) ELSE nodes[x]]
           /\ next' = Append(next, p)
    /\ UNCHANGED <<n, states, level, phase>>

\* The end of a level: an odd node out is promoted, and the next level
\* becomes the current one.
MoveTo(indices) ==
    /\ phase = "inner"
    /\ Len(level) > 1
    /\ Len(next) = Len(level) \div 2
    /\ level' = indices
    /\ next' = <<>>
    /\ UNCHANGED <<n, states, nodes, phase>>

NextLevel == MoveTo(IF Len(level) % 2 = 1 THEN Append(next, Last(level)) ELSE next)

Return ==
    /\ phase = "inner"
    /\ Len(level) = 1
    /\ phase' = "done"
    /\ UNCHANGED <<n, states, nodes, level, next>>

Next == ComputeState \/ PadState \/ CreateLeaf \/ CreateParent \/ NextLevel \/ Return

Spec == Init /\ [][Next]_vars /\ WF_vars(Next)

Root == nodes[level[1]]
Returned == phase = "done"

-----------------------------------------------------------------------------
(* What build_binary_pcd_tree promises of the node it returns.              *)

\* The states the caller's closure goes through, and those the step circuit
\* goes through.
After[k \in Nat] == IF k = 0 THEN InitialInput ELSE ComputeStep(After[k - 1])
Proved[k \in Nat] == IF k = 0 THEN InitialInput ELSE StepCircuit(k - 1, Proved[k - 1])

\* State k of the vector of a computation of m steps: the closure's own, then
\* clones of the last one.
StateOf(m, k) == After[IF k <= m THEN k ELSE m]

\* The x-th link between leaves: two steps of the circuit take the state the
\* x-th leaf starts from to the one the next leaf starts from.
LinkFollows(m, x) ==
    StateOf(m, 2 * x + 2) = StepCircuit(2 * x + 1, StepCircuit(2 * x, StateOf(m, 2 * x)))

\* Every link holds, the ones between cloned states too.
PaddingFollows(m) == \A x \in 0 .. NextPowerOfTwo(m) - 2 : LinkFollows(m, x)

\* The loops of build_binary_pcd_tree end, and PCDNode::verify accepts the
\* root exactly when the circuit goes on as the padded vector of states does.
\* A machine that has stopped does; one that takes a new state in every step
\* does for n = 1 and 2 alone, where no link starts from or leads to a second
\* clone (test_binary_pcd_tree has n = 7).
RootVerdict == <>(Returned /\ (Verify(Root) <=> PaddingFollows(n)))

\* The root runs from the initial input over all 2 * padded_n - 1 steps; it
\* ends one step of the circuit after the state of the last leaf, and if it
\* verifies it ends where the circuit is after that many steps.  So no clone
\* and no closure that differs from the circuit makes it a proof of anything
\* else (prove_leaf, prove_parent, build_binary_pcd_tree).
RootProvesItsSteps ==
    Returned =>
        /\ Root.i = 0 /\ Root.j = 2 * PaddedN - 1
        /\ Root.zi = InitialInput
        /\ Root.zj = StepCircuit(2 * PaddedN - 2, StateOf(n, 2 * PaddedN - 2))
        /\ Verify(Root) => Root.zj = Proved[2 * PaddedN - 1]

\* What the test of build_binary_pcd_tree asserts of n = 7: the root verifies
\* and ends where the closure is after n steps.  For n > 1 only a computation
\* that has stopped does, and one that takes a new state in every step does not.
RootIsAfterNSteps == Returned => Verify(Root) /\ Root.zj = After[n]

-----------------------------------------------------------------------------
(* Why the root is right: the inductive invariant.                          *)

StatesRight ==
    /\ states \in Seq({After[k] : k \in 0 .. n})
    /\ Len(states) \in 1 .. 2 * PaddedN
    /\ \A k \in 1 .. Len(states) : states[k] = StateOf(n, k - 1)
    /\ IF phase = "compute" THEN Len(states) <= n + 1 ELSE Len(states) >= n + 1
    /\ phase \in {"leaves", "inner", "done"} => Len(states) = 2 * PaddedN

\* The links between leaves among the steps a .. b - 1.
LinksWithin(m, a, b) ==
    \A x \in 0 .. NextPowerOfTwo(m) - 2 : a <= 2 * x /\ 2 * x + 2 < b => LinkFollows(m, x)

\* The node for the steps a .. b - 1 of a computation of m steps.
Claim(m, a, b) ==
    [i |-> a, j |-> b, zi |-> StateOf(m, a), zj |-> StepCircuit(b - 1, StateOf(m, b - 1)),
     sat |-> LinksWithin(m, a, b)]

Proves(k, a, b) == k \in DOMAIN nodes /\ nodes[k] = Claim(n, a, b)

\* The leaves take every second step; parents prove the ones in between.
LeavesRight ==
    /\ phase \in {"compute", "pad"} => level = <<>>
    /\ phase = "leaves" => /\ Len(level) < PaddedN
                           /\ \A x \in 1 .. Len(level) :
                                  /\ level[x] = 2 * x - 2
                                  /\ Proves(2 * x - 2, 2 * x - 2, 2 * x - 1)

\* A level covers all steps but the ones its nodes' parents will prove: its
\* first node begins at step 0, its last one ends at the last step, and
\* between two neighbours exactly one step, an odd one, is left out.
LevelRight ==
    phase \in {"inner", "done"} =>
        /\ Len(level) >= 1
        /\ \A x \in 1 .. Len(level) :
              /\ level[x] \in DOMAIN nodes
              /\ nodes[level[x]].i \in Nat /\ nodes[level[x]].j \in Nat
              /\ nodes[level[x]] = Claim(n, nodes[level[x]].i, nodes[level[x]].j)
        /\ \A x \in 1 .. Len(level) - 1 :
              nodes[level[x + 1]].i = nodes[level[x]].j + 1
        /\ \A x \in 1 .. Len(level) :
              /\ nodes[level[x]].i < nodes[level[x]].j /\ nodes[level[x]].j <= 2 * PaddedN - 1
              /\ nodes[level[x]].j % 2 = 1
        /\ nodes[level[1]].i = 0
        /\ nodes[level[Len(level)]].j = 2 * PaddedN - 1

\* Two indices of a level differ by at least two, so that a parent's index,
\* the average of its children's, is not yet taken.
IndicesApart ==
    phase \in {"inner", "done"} =>
        \A x, y \in 1 .. Len(level) : x < y => level[x] + 2 <= level[y]

\* The parents made so far.
NextRight ==
    /\ phase # "inner" => next = <<>>
    /\ phase = "done" => Len(level) = 1
    /\ 2 * Len(next) <= Len(level)
    /\ \A y \in 1 .. Len(next) :
          /\ next[y] = (level[2 * y - 1] + level[2 * y]) \div 2
          /\ Proves(next[y], nodes[level[2 * y - 1]].i, nodes[level[2 * y]].j)

TreeInv ==
    /\ n \in StepCounts
    /\ phase \in {"compute", "pad", "leaves", "inner", "done"}
    /\ level \in Seq(Nat) /\ next \in Seq(Nat)
    /\ StatesRight /\ LeavesRight /\ LevelRight /\ IndicesApart /\ NextRight

=============================================================================
