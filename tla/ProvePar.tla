------------------------------ MODULE ProvePar ------------------------------
(***************************************************************************)
(* The parallel provers: prove_par and prove_par_com of                     *)
(* core/src/prover/nova/mod.rs, and the loop of cli/src/command/prove.rs    *)
(* that runs the same steps under a progress display.  The trace they prove *)
(* comes from trace(vm, k, true) of vm/src/trace.rs.                        *)
(*                                                                         *)
(* The state before block b of the trace is abstracted to b, and the step   *)
(* circuit of block b takes b to b + 1.                                     *)
(***************************************************************************)
EXTENDS PowersOfTwo, Sequences

CONSTANT RunLengths   \* how many blocks the programs run for, UNIMP included

ASSUME RunLengthsAssumption == RunLengths \subseteq Nat \ {0}

StepOfBlock(b, z) == IF z = b THEN b + 1 ELSE -1

PCD == INSTANCE PcdNode WITH StepCircuit <- StepOfBlock

VARIABLES numSteps,  \* tr.steps()
          vs,        \* the vector of nodes of the level being folded
          done,      \* the nodes of the next level so far
          iter,      \* how many times display_step was called
          shown,     \* the step on_step printed last, and what it called it
          proved,    \* the step whose circuit the last prove call ran
          phase

vars == <<numSteps, vs, done, iter, shown, proved, phase>>

-----------------------------------------------------------------------------

\* trace(vm, k, true): blocks are added, UNIMP repeating at the end of the
\* program, until their number is one less than its own next power of two.
\* One block does not qualify: its next power of two is one.
StopsAt(count) == NextPowerOfTwo(count) = count + 1
TraceBlocks(run) == CHOOSE c \in run .. 4 * run :
                        StopsAt(c) /\ \A d \in run .. c - 1 : ~StopsAt(d)

\* on_step of local_prove.
StepLabelNoPad(i) == 2 * i
StepLabel(i) ==
    LET b == Ilog2(numSteps + 1)
        a == b - 1 - Ilog2(numSteps - i)
    IN  TwoTo[a + 1] * i - (TwoTo[a] - 1) * (TwoTo[b + 1] - 1)

StepType(i) == IF i <= numSteps \div 2 THEN "leaf"
               ELSE IF i = numSteps - 1 THEN "root" ELSE "node"

Display ==
    /\ shown' = <<StepType(iter), StepLabel(iter)>>
    /\ iter' = iter + 1

-----------------------------------------------------------------------------

\* The assertion on the number of steps comes before any work.
Init ==
    /\ \E run \in RunLengths : numSteps = TraceBlocks(run)
    /\ vs = <<>>
    /\ done = <<>>
    /\ iter = 0
    /\ shown = <<"none", 0>>
    /\ proved = <<"none", 0>>
    /\ phase = IF IsPowerOfTwo(numSteps + 1) THEN "leaves" ELSE "panicked"

\* prove_par_leaf_step on every second step; the vector is collected before
\* the folding starts.
LeafStep ==
    /\ phase = "leaves"
    /\ LET i == 2 * Len(done)
       IN  /\ i < numSteps
           /\ Display
           /\ done' = Append(done, PCD!ProveLeaf(i, i))
           /\ proved' = <<"leaf", i>>
    /\ UNCHANGED <<numSteps, vs, phase>>

LeavesDone ==
    /\ phase = "leaves"
    /\ 2 * Len(done) >= numSteps
    /\ vs' = done
    /\ done' = <<>>
    /\ phase' = "fold"
    /\ UNCHANGED <<numSteps, iter, shown, proved>>

\* One element of vs.chunks(2).  A chunk of one would panic at ab[1].
ParentStepOf(x, y) ==
    /\ phase = "fold"
    /\ Len(vs) # 1
    /\ 2 * Len(done) < Len(vs)
    /\ Display
    /\ IF 2 * Len(done) + 1 = Len(vs)
       THEN /\ phase' = "panicked"
            /\ UNCHANGED <<done, proved>>
       ELSE /\ LET l == vs[2 * Len(done) + x]
                   r == vs[2 * Len(done) + y]
               IN  /\ done' = Append(done, PCD!ProveParent(l, r))
                   /\ proved' = <<IF Len(vs) = 2 THEN "root" ELSE "node", l.j>>
            /\ UNCHANGED phase
    /\ UNCHANGED <<numSteps, vs>>

ParentStepSwapped == ParentStepOf(2, 1)
ParentStep == ParentStepOf(1, 2)

LevelEnds(rest) ==
    /\ phase = "fold"
    /\ Len(vs) # 1
    /\ 2 * Len(done) >= Len(vs)
    /\ vs' = done
    /\ done' = rest
    /\ UNCHANGED <<numSteps, iter, shown, proved, phase>>

NextLevel == LevelEnds(<<>>)

Return ==
    /\ phase = "fold"
    /\ Len(vs) = 1
    /\ phase' = "done"
    /\ UNCHANGED <<numSteps, vs, done, iter, shown, proved>>

Next == LeafStep \/ LeavesDone \/ ParentStep \/ NextLevel \/ Return

Spec == Init /\ [][Next]_vars /\ WF_vars(Next)

-----------------------------------------------------------------------------

Node == [i : Nat, j : Nat, zi : Int, zj : Int, sat : BOOLEAN]

\* The type invariant: the vectors hold nodes, and no level is longer than the
\* one below it was cut to.
TypeOK ==
    /\ numSteps \in Nat
    /\ vs \in Seq(Node) /\ done \in Seq(Node)
    /\ Len(done) <= IF vs = <<>> THEN (numSteps + 1) \div 2 ELSE Len(vs) \div 2
    /\ iter \in 0 .. numSteps
    /\ phase \in {"leaves", "fold", "done", "panicked"}

\* What prove_par returns is a node that PCDNode::verify accepts and that
\* proves the whole trace, from the input of its first block to the state
\* after its last; the progress bar has then seen exactly the num_steps steps
\* it was told of.
ReturnsTheTrace ==
    /\ PCD!Verify(vs[1])
    /\ vs[1].i = 0 /\ vs[1].j = numSteps
    /\ vs[1].zi = 0 /\ vs[1].zj = numSteps
    /\ iter = numSteps

\* prove_par returns, and it returns a proof of the trace.
RootProvesTrace == <>(phase = "done" /\ ReturnsTheTrace)

\* Neither the assertion on the number of steps nor ab[1] ever panics, and
\* whenever prove_par returns it returns a proof of the trace.
ReturnsOnlyTheTrace == phase # "panicked" /\ (phase = "done" => ReturnsTheTrace)

\* The label on_step computes from the iteration number alone names the step
\* that the prove call under it runs, for leaves, inner nodes and the root.
LabelNamesStep == shown = proved

-----------------------------------------------------------------------------
(* Why: the inductive invariant of the levels.                              *)

\* The node for the blocks from..to - 1.
Claim(from, to) == [i |-> from, j |-> to, zi |-> from, zj |-> to, sat |-> TRUE]

\* s holds the first nodes of level a: each spans 2^a blocks but for the one
\* that is left to its parent, or to the parent of a parent.
NodesOfLevel(s, a) ==
    \A k \in 1 .. Len(s) : s[k] = Claim((k - 1) * TwoTo[a], k * TwoTo[a] - 1)

\* 2^m - 1 steps, and level a being folded: the levels below it took
\* 2^m - 2^(m - a) steps.  Level 0 stands for the trace itself.
AtLevel(m, a) ==
    /\ numSteps + 1 = TwoTo[m]
    /\ phase = "leaves" <=> a = 0
    /\ IF a = 0 THEN vs = <<>> ELSE Len(vs) = TwoTo[m - a]
    /\ 2 * Len(done) <= TwoTo[m - a]
    /\ iter = TwoTo[m] - TwoTo[m - a] + Len(done)
    /\ NodesOfLevel(vs, a) /\ NodesOfLevel(done, a + 1)
    /\ phase = "done" => a = m

ProveInv ==
    /\ LabelNamesStep
    /\ numSteps \in Nat /\ vs \in Seq(Node) /\ done \in Seq(Node)
    /\ phase \in {"leaves", "fold", "done"}
    /\ LET m == Ilog2(numSteps + 1) IN m # 0 /\ \E a \in 0 .. m : AtLevel(m, a)

=============================================================================
