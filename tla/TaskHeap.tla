------------------------------ MODULE TaskHeap ------------------------------
(***************************************************************************)
(* The shape of the task heap of nova/src/parallel_tree/task.rs: a complete *)
(* binary tree laid out in an array, inner nodes first, leaves last.        *)
(*                                                                         *)
(* NumLeaves is the length of the vector given to ParallelTreeFolder::run. *)
(* TaskHeap::new(k) builds 1 << k leaves; run only reaches it when          *)
(* NumLeaves is a power of two, with k = log2(NumLeaves), so the heap it    *)
(* builds has exactly NumLeaves leaves.                                     *)
(***************************************************************************)
EXTENDS Integers

CONSTANT NumLeaves

ASSUME NumLeavesAssumption == NumLeaves \in Nat

\* usize::is_power_of_two
IsPowerOfTwo(n) == \E k \in 0 .. n : n = 2^k

Size == 2 * NumLeaves - 1
LeafStart == Size - NumLeaves

Tasks == 0 .. Size - 1
Leaves == LeafStart .. Size - 1
Nodes == 0 .. LeafStart - 1

IsLeaf(i) == i >= LeafStart

\* TaskHeap::parent is None at the root; HasParent is the Some case.
HasParent(i) == i # 0
Parent(i) == (i - 1) \div 2
Left(i) == 2 * i + 1
Right(i) == 2 * i + 2

Children(i) == {Left(i), Right(i)}

=============================================================================
