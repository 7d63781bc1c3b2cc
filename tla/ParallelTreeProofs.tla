------------------------- MODULE ParallelTreeProofs -------------------------
(***************************************************************************)
(* Proofs about the parallel tree folder, for every number of leaves,       *)
(* workers and blocks, in three parts, each on the one before: type         *)
(* correctness, the control layer and the buffer layer.                     *)
(***************************************************************************)
EXTENDS ParallelTreeProps, FiniteSetTheorems, SequenceTheorems, WellFoundedInduction, TLAPS

USE DEF heapVars, poolVars, producerVars, mainVars, workVars, Goto

-----------------------------------------------------------------------------
(***************************************************************************)
(* Type correctness of the parallel tree folder, for every number of       *)
(* leaves, workers and blocks: TypeOK holds of every reachable state.      *)
(* TypeOK alone is not inductive (a worker indexes the pool and the heap   *)
(* with its locals), so the proof carries Shape along: what the control    *)
(* state of a worker says about its locals.                                 *)
(***************************************************************************)

-----------------------------------------------------------------------------
(* The shape of the heap.                                                   *)

\* The children of an inner task of TaskHeap are tasks, and tasks below the root.
LEMMA HeapNodes ==
    ASSUME NEW n \in Nodes
    PROVE  /\ n \in Tasks
           /\ Left(n) \in Tasks \ {0} /\ Right(n) \in Tasks \ {0}
           /\ Left(n) # Right(n) /\ Left(n) # n /\ Right(n) # n
           /\ Parent(Left(n)) = n /\ Parent(Right(n)) = n
BY NumLeavesAssumption DEF Nodes, Tasks, Left, Right, Parent, LeafStart, Size

\* TaskHeap::parent of a task other than the root is an inner task.
LEMMA HeapParent ==
    ASSUME NEW t \in Tasks \ {0}
    PROVE  Parent(t) \in Nodes /\ t \in Children(Parent(t))
BY NumLeavesAssumption DEF Nodes, Tasks, Left, Right, Parent, Children, LeafStart, Size

\* The leaves of TaskHeap are the tasks from leaf_start on, one for each input.
LEMMA HeapLeaves ==
    /\ Tasks = Nodes \cup Leaves
    /\ Nodes \cap Leaves = {}
    /\ \A k \in 0 .. NumLeaves - 1 : LeafStart + k \in Leaves
    /\ \A t \in Leaves : t - LeafStart \in 0 .. NumLeaves - 1
BY NumLeavesAssumption DEF Nodes, Leaves, Tasks, LeafStart, Size

-----------------------------------------------------------------------------
(* Initial states.                                                          *)

\* What Scheduler::with_workers sets up satisfies the type invariant.
LEMMA TypeInit == Init => TypeInv
<1> SUFFICES ASSUME Init PROVE TypeInv
    OBVIOUS
<1>1. free \in Seq(Blocks)
  <2>1. free \in [1 .. NumBlocks -> Blocks]
    BY ConstantsAssumption DEF Init, Blocks
  <2> QED
    BY <2>1, ConstantsAssumption, SeqDef
<1>2. nextLeaf \in LeafStart .. LeafStart + NumLeaves
  BY NumLeavesAssumption DEF Init, LeafStart, Size
<1>3. TypeOK
  BY <1>1, <1>2 DEF Init, TypeOK, TypeHeap, TypePool, TypeQueues, TypeThreads,
                    TypeLocals, NodeStates, LeafStates, PCs, NoBuf, NoVal, NoTask
<1>4. Shape
  BY DEF Init, Shape, ShapeOf, HoldsLeft, HoldsRight, MainHolds, LeafPCs, NodePCs,
         NotifyPCs, ChildPCs, ClaimPCs, LeafHoldPCs, BothHoldPCs, ResultHoldPCs
<1> QED
  BY <1>3, <1>4 DEF TypeInv

-----------------------------------------------------------------------------
(* Steps of a worker.                                                       *)

\* BlockPool::free keeps the types of the blocks and of the free list.
LEMMA ReleaseTypes ==
    ASSUME TypePool, NEW b \in Blocks, Release(b)
    PROVE  TypePool'
BY DEF TypePool, Release

\* Going back to the worker loop keeps the types of a worker's local variables.
LEMMA ReturnTypes ==
    ASSUME TypeLocals, NEW w \in Workers, Return(w)
    PROVE  TypeLocals'
BY DEF TypeLocals, Return

SameLocals(v) ==
    /\ pc'[v] = pc[v] /\ cur'[v] = cur[v] /\ leaf'[v] = leaf[v]
    /\ child'[v] = child[v] /\ lbuf'[v] = lbuf[v] /\ rbuf'[v] = rbuf[v]

\* A worker's step that moves only its own local variables leaves the shape of the other workers' alone.
LEMMA ShapeFrame ==
    ASSUME NEW v \in Workers, ShapeOf(v), SameLocals(v)
    PROVE  ShapeOf(v)'
BY DEF ShapeOf, SameLocals, HoldsLeft, HoldsRight, AtLeft

\* What the shape of a worker says about its buffers and tasks.
LEMMA ShapeFacts ==
    ASSUME TypeInv, NEW w \in Workers
    PROVE  /\ pc[w] \in LeafHoldPCs \cup BothHoldPCs \cup ResultHoldPCs => lbuf[w] \in Blocks
           /\ pc[w] \in ClaimPCs /\ ~AtLeft(w) => lbuf[w] \in Blocks
           /\ pc[w] \in BothHoldPCs \cup {"f_release_r"} => rbuf[w] \in Blocks
           /\ pc[w] \in NodePCs => /\ cur[w] \in Nodes
                                   /\ Left(cur[w]) \in Tasks /\ Right(cur[w]) \in Tasks
           /\ pc[w] \in ChildPCs => child[w] \in Tasks
           /\ pc[w] \in NotifyPCs => cur[w] \in Tasks /\ Parent(cur[w]) \in Nodes
<1>1. ShapeOf(w)
  BY DEF TypeInv, Shape
<1>2. pc[w] \in NodePCs => /\ cur[w] \in Nodes
                           /\ Left(cur[w]) \in Tasks /\ Right(cur[w]) \in Tasks
  BY <1>1, HeapNodes DEF ShapeOf
<1>3. pc[w] \in ChildPCs => child[w] \in Tasks
  BY <1>1, <1>2 DEF ShapeOf, ChildPCs, NodePCs, BothHoldPCs, ClaimPCs, Children
<1>4. pc[w] \in NotifyPCs => cur[w] \in Tasks /\ Parent(cur[w]) \in Nodes
  BY <1>1, HeapParent DEF ShapeOf
<1> QED
  BY <1>1, <1>2, <1>3, <1>4 DEF ShapeOf, HoldsLeft, HoldsRight

\* What a worker takes from its leaf queue is a leaf of its chunk.
LEMMA PopLeafTypes ==
    ASSUME TypeInv, NEW w \in Workers, leafQ[w] # <<>>
    PROVE  /\ Head(leafQ[w])[1] \in 0 .. NumLeaves - 1
           /\ Head(leafQ[w])[2] \in Leaves
           /\ Tail(leafQ[w]) \in Seq((0 .. NumLeaves - 1) \X Leaves)
<1>1. leafQ[w] \in Seq((0 .. NumLeaves - 1) \X Leaves)
  BY DEF TypeInv, TypeOK, TypeQueues
<1>2. Head(leafQ[w]) \in (0 .. NumLeaves - 1) \X Leaves
  BY <1>1
<1> QED
  BY <1>1, <1>2

\* Reading stop at the head of the worker loop keeps the type invariant.
LEMMA TypeCheckStop ==
    ASSUME TypeInv, NEW w \in Workers, CheckStop(w)
    PROVE  TypeInv'
<1>1. TypeThreads'
  BY DEF TypeInv, TypeOK, TypeThreads, CheckStop, PCs
<1>2. TypeHeap' /\ TypePool' /\ TypeQueues' /\ TypeLocals'
  BY DEF TypeInv, TypeOK, TypeHeap, TypePool, TypeQueues, TypeLocals, CheckStop
<1>3. ShapeOf(w)'
  BY DEF TypeInv, TypeOK, TypeThreads, TypeLocals, Shape, CheckStop, ShapeOf, LeafPCs,
     NodePCs, NotifyPCs, ChildPCs, ClaimPCs, LeafHoldPCs, BothHoldPCs, ResultHoldPCs,
     HoldsLeft, HoldsRight, AtLeft
<1>4. ASSUME NEW v \in Workers, v # w PROVE ShapeOf(v)'
  <2>1. SameLocals(v)
    BY <1>4 DEF TypeInv, TypeOK, TypeThreads, TypeLocals, CheckStop, SameLocals
  <2> QED
    BY <1>4, <2>1, ShapeFrame DEF TypeInv, Shape
<1> QED
  BY <1>1, <1>2, <1>3, <1>4 DEF TypeInv, TypeOK, Shape, MainHolds, CheckStop

\* Taking a node from the ready queue keeps the type invariant.
LEMMA TypePopReady ==
    ASSUME TypeInv, NEW w \in Workers, PopReady(w)
    PROVE  TypeInv'
<1>1. TypeQueues'
  BY DEF TypeInv, TypeOK, TypeQueues, PopReady
<1>2. TypeThreads'
  BY DEF TypeInv, TypeOK, TypeThreads, PopReady, PCs
<1>3. TypeLocals'
  BY HeapLeaves DEF TypeInv, TypeOK, TypeLocals, PopReady, TypeQueues
<1>4. TypeHeap' /\ TypePool'
  BY DEF TypeInv, TypeOK, TypeHeap, TypePool, PopReady
<1>5. ShapeOf(w)'
  BY DEF TypeInv, TypeOK, TypeThreads, TypeLocals, Shape, PopReady, ShapeOf, LeafPCs,
     NodePCs, NotifyPCs, ChildPCs, ClaimPCs, LeafHoldPCs, BothHoldPCs, ResultHoldPCs,
     HoldsLeft, HoldsRight, AtLeft, TypeQueues
<1>6. ASSUME NEW v \in Workers, v # w PROVE ShapeOf(v)'
  <2>1. SameLocals(v)
    BY <1>6 DEF TypeInv, TypeOK, TypeThreads, TypeLocals, PopReady, SameLocals
  <2> QED
    BY <1>6, <2>1, ShapeFrame DEF TypeInv, Shape
<1> QED
  BY <1>1, <1>2, <1>3, <1>4, <1>5, <1>6 DEF TypeInv, TypeOK, Shape, MainHolds, PopReady

\* Taking a leaf from the leaf queue keeps the type invariant.
LEMMA TypePopLeaf ==
    ASSUME TypeInv, NEW w \in Workers, PopLeaf(w)
    PROVE  TypeInv'
<1>1. TypeQueues'
  BY PopLeafTypes DEF TypeInv, TypeOK, TypeQueues, PopLeaf
<1>2. TypeThreads'
  BY DEF TypeInv, TypeOK, TypeThreads, PopLeaf, PCs
<1>3. TypeLocals'
  BY PopLeafTypes, HeapLeaves DEF TypeInv, TypeOK, TypeLocals, PopLeaf
<1>4. TypeHeap' /\ TypePool'
  BY DEF TypeInv, TypeOK, TypeHeap, TypePool, PopLeaf
<1>5. ShapeOf(w)'
  BY PopLeafTypes DEF TypeInv, TypeOK, TypeThreads, TypeLocals, Shape, PopLeaf, ShapeOf,
     LeafPCs, NodePCs, NotifyPCs, ChildPCs, ClaimPCs, LeafHoldPCs, BothHoldPCs,
     ResultHoldPCs, HoldsLeft, HoldsRight, AtLeft
<1>6. ASSUME NEW v \in Workers, v # w PROVE ShapeOf(v)'
  <2>1. SameLocals(v)
    BY <1>6 DEF TypeInv, TypeOK, TypeThreads, TypeLocals, PopLeaf, SameLocals
  <2> QED
    BY <1>6, <2>1, ShapeFrame DEF TypeInv, Shape
<1> QED
  BY <1>1, <1>2, <1>3, <1>4, <1>5, <1>6 DEF TypeInv, TypeOK, Shape, MainHolds, PopLeaf

\* Yielding when both queues are empty keeps the type invariant.
LEMMA TypeYield ==
    ASSUME TypeInv, NEW w \in Workers, Yield(w)
    PROVE  TypeInv'
<1>1. TypeThreads'
  BY DEF TypeInv, TypeOK, TypeThreads, Yield, PCs
<1>2. TypeHeap' /\ TypePool' /\ TypeQueues' /\ TypeLocals'
  BY DEF TypeInv, TypeOK, TypeHeap, TypePool, TypeQueues, TypeLocals, Yield
<1>3. ShapeOf(w)'
  BY DEF TypeInv, TypeOK, TypeThreads, TypeLocals, Shape, Yield, ShapeOf, LeafPCs,
     NodePCs, NotifyPCs, ChildPCs, ClaimPCs, LeafHoldPCs, BothHoldPCs, ResultHoldPCs,
     HoldsLeft, HoldsRight, AtLeft
<1>4. ASSUME NEW v \in Workers, v # w PROVE ShapeOf(v)'
  <2>1. SameLocals(v)
    BY <1>4 DEF TypeInv, TypeOK, TypeThreads, TypeLocals, Yield, SameLocals
  <2> QED
    BY <1>4, <2>1, ShapeFrame DEF TypeInv, Shape
<1> QED
  BY <1>1, <1>2, <1>3, <1>4 DEF TypeInv, TypeOK, Shape, MainHolds, Yield

\* Allocating a block, or spinning for one, keeps the type invariant.
LEMMA TypeAlloc ==
    ASSUME TypeInv, NEW w \in Workers, Alloc(w)
    PROVE  TypeInv'
<1>1. TypePool'
  BY DEF TypeInv, TypeOK, TypePool, Alloc
<1>2. TypeThreads'
  BY DEF TypeInv, TypeOK, TypeThreads, Alloc, PCs
<1>3. TypeLocals'
  BY DEF TypeInv, TypeOK, TypeLocals, Alloc, TypePool
<1>4. TypeHeap' /\ TypeQueues'
  BY DEF TypeInv, TypeOK, TypeHeap, TypeQueues, Alloc
<1>5. ShapeOf(w)'
  BY DEF TypeInv, TypeOK, TypeThreads, TypeLocals, Shape, Alloc, ShapeOf, LeafPCs,
     NodePCs, NotifyPCs, ChildPCs, ClaimPCs, LeafHoldPCs, BothHoldPCs, ResultHoldPCs,
     HoldsLeft, HoldsRight, AtLeft, TypePool
<1>6. ASSUME NEW v \in Workers, v # w PROVE ShapeOf(v)'
  <2>1. SameLocals(v)
    BY <1>6 DEF TypeInv, TypeOK, TypeThreads, TypeLocals, Alloc, SameLocals
  <2> QED
    BY <1>6, <2>1, ShapeFrame DEF TypeInv, Shape
<1> QED
  BY <1>1, <1>2, <1>3, <1>4, <1>5, <1>6 DEF TypeInv, TypeOK, Shape, MainHolds, Alloc

\* The first store of LeafTask::try_start_processing keeps the type invariant.
LEMMA TypeStoreBufferId ==
    ASSUME TypeInv, NEW w \in Workers, StoreBufferId(w)
    PROVE  TypeInv'
<1>1. TypeHeap'
  BY DEF TypeInv, TypeOK, TypeHeap, TypeLocals, StoreBufferId, NodeStates, LeafStates
<1>2. TypeThreads'
  BY DEF TypeInv, TypeOK, TypeThreads, StoreBufferId, PCs
<1>3. TypePool' /\ TypeQueues' /\ TypeLocals'
  BY DEF TypeInv, TypeOK, TypePool, TypeQueues, TypeLocals, StoreBufferId
<1>4. ShapeOf(w)'
  BY DEF TypeInv, TypeOK, TypeThreads, TypeLocals, Shape, StoreBufferId, ShapeOf, LeafPCs,
     NodePCs, NotifyPCs, ChildPCs, ClaimPCs, LeafHoldPCs, BothHoldPCs, ResultHoldPCs,
     HoldsLeft, HoldsRight, AtLeft
<1>5. ASSUME NEW v \in Workers, v # w PROVE ShapeOf(v)'
  <2>1. SameLocals(v)
    BY <1>5 DEF TypeInv, TypeOK, TypeThreads, TypeLocals, StoreBufferId, SameLocals
  <2> QED
    BY <1>5, <2>1, ShapeFrame DEF TypeInv, Shape
<1> QED
  BY <1>1, <1>2, <1>3, <1>4, <1>5 DEF TypeInv, TypeOK, Shape, MainHolds, StoreBufferId

\* The compare-exchange of LeafTask::try_start_processing keeps the type invariant.
LEMMA TypeLeafStartProcessing ==
    ASSUME TypeInv, NEW w \in Workers, LeafStartProcessing(w)
    PROVE  TypeInv'
<1>1. TypeHeap'
  BY DEF TypeInv, TypeOK, TypeHeap, TypeLocals, LeafStartProcessing, NodeStates,
     LeafStates
<1>2. TypePool'
  BY ReleaseTypes, ShapeFacts DEF TypeInv, TypeOK, TypePool, LeafStartProcessing,
     LeafHoldPCs, BothHoldPCs, ResultHoldPCs, ClaimPCs
<1>3. TypeThreads'
  BY ZenonT(60) DEF TypeInv, TypeOK, TypeThreads, LeafStartProcessing, PCs, Fail, Return, Errors
<1>4. TypeLocals'
  BY ReturnTypes DEF TypeInv, TypeOK, TypeLocals, LeafStartProcessing, Fail
<1>5. TypeQueues'
  BY DEF TypeInv, TypeOK, TypeQueues, LeafStartProcessing
<1>6. ShapeOf(w)'
  BY DEF TypeInv, TypeOK, TypeThreads, TypeLocals, Shape, LeafStartProcessing, ShapeOf,
     LeafPCs, NodePCs, NotifyPCs, ChildPCs, ClaimPCs, LeafHoldPCs, BothHoldPCs,
     ResultHoldPCs, HoldsLeft, HoldsRight, AtLeft, Fail, Return
<1>7. ASSUME NEW v \in Workers, v # w PROVE ShapeOf(v)'
  <2>1. SameLocals(v)
    BY <1>7 DEF TypeInv, TypeOK, TypeThreads, TypeLocals, LeafStartProcessing, SameLocals,
       Fail, Return
  <2> QED
    BY <1>7, <2>1, ShapeFrame DEF TypeInv, Shape
<1> QED
  BY <1>1, <1>2, <1>3, <1>4, <1>5, <1>6, <1>7 DEF TypeInv, TypeOK, Shape, MainHolds,
     LeafStartProcessing

\* A leaf conversion that succeeds keeps the type invariant.
LEMMA TypeConvert ==
    ASSUME TypeInv, NEW w \in Workers, Convert(w)
    PROVE  TypeInv'
<1>1. TypeThreads'
  BY DEF TypeInv, TypeOK, TypeThreads, Convert, PCs
<1>2. TypeLocals'
  BY HeapLeaves DEF TypeInv, TypeOK, TypeLocals, Convert, StrictToAcc, Terms, Shape,
     ShapeOf, LeafPCs, LeafHoldPCs
<1>3. TypeHeap' /\ TypePool' /\ TypeQueues'
  BY DEF TypeInv, TypeOK, TypeHeap, TypePool, TypeQueues, Convert
<1>4. ShapeOf(w)'
  BY DEF TypeInv, TypeOK, TypeThreads, TypeLocals, Shape, Convert, ShapeOf, LeafPCs,
     NodePCs, NotifyPCs, ChildPCs, ClaimPCs, LeafHoldPCs, BothHoldPCs, ResultHoldPCs,
     HoldsLeft, HoldsRight, AtLeft
<1>5. ASSUME NEW v \in Workers, v # w PROVE ShapeOf(v)'
  <2>1. SameLocals(v)
    BY <1>5 DEF TypeInv, TypeOK, TypeThreads, TypeLocals, Convert, SameLocals
  <2> QED
    BY <1>5, <2>1, ShapeFrame DEF TypeInv, Shape
<1> QED
  BY <1>1, <1>2, <1>3, <1>4, <1>5 DEF TypeInv, TypeOK, Shape, MainHolds, Convert

\* A leaf conversion that fails keeps the type invariant.
LEMMA TypeConvertFails ==
    ASSUME TypeInv, NEW w \in Workers, ConvertFails(w)
    PROVE  TypeInv'
<1>1. TypeThreads'
  BY DEF TypeInv, TypeOK, TypeThreads, ConvertFails, PCs
<1>2. TypeHeap' /\ TypePool' /\ TypeQueues' /\ TypeLocals'
  BY DEF TypeInv, TypeOK, TypeHeap, TypePool, TypeQueues, TypeLocals, ConvertFails
<1>3. ShapeOf(w)'
  BY DEF TypeInv, TypeOK, TypeThreads, TypeLocals, Shape, ConvertFails, ShapeOf, LeafPCs,
     NodePCs, NotifyPCs, ChildPCs, ClaimPCs, LeafHoldPCs, BothHoldPCs, ResultHoldPCs,
     HoldsLeft, HoldsRight, AtLeft
<1>4. ASSUME NEW v \in Workers, v # w PROVE ShapeOf(v)'
  <2>1. SameLocals(v)
    BY <1>4 DEF TypeInv, TypeOK, TypeThreads, TypeLocals, ConvertFails, SameLocals
  <2> QED
    BY <1>4, <2>1, ShapeFrame DEF TypeInv, Shape
<1> QED
  BY <1>1, <1>2, <1>3, <1>4 DEF TypeInv, TypeOK, Shape, MainHolds, ConvertFails

\* The error path of a leaf, resetting its state, keeps the type invariant.
LEMMA TypeLeafResetState ==
    ASSUME TypeInv, NEW w \in Workers, LeafResetState(w)
    PROVE  TypeInv'
<1>1. TypeHeap'
  BY DEF TypeInv, TypeOK, TypeHeap, TypeLocals, LeafResetState, NodeStates, LeafStates
<1>2. TypeThreads'
  BY DEF TypeInv, TypeOK, TypeThreads, LeafResetState, PCs
<1>3. TypePool' /\ TypeQueues' /\ TypeLocals'
  BY DEF TypeInv, TypeOK, TypePool, TypeQueues, TypeLocals, LeafResetState
<1>4. ShapeOf(w)'
  BY DEF TypeInv, TypeOK, TypeThreads, TypeLocals, Shape, LeafResetState, ShapeOf,
     LeafPCs, NodePCs, NotifyPCs, ChildPCs, ClaimPCs, LeafHoldPCs, BothHoldPCs,
     ResultHoldPCs, HoldsLeft, HoldsRight, AtLeft
<1>5. ASSUME NEW v \in Workers, v # w PROVE ShapeOf(v)'
  <2>1. SameLocals(v)
    BY <1>5 DEF TypeInv, TypeOK, TypeThreads, TypeLocals, LeafResetState, SameLocals
  <2> QED
    BY <1>5, <2>1, ShapeFrame DEF TypeInv, Shape
<1> QED
  BY <1>1, <1>2, <1>3, <1>4, <1>5 DEF TypeInv, TypeOK, Shape, MainHolds, LeafResetState

\* The error path of a leaf, resetting its id, keeps the type invariant.
LEMMA TypeLeafResetBufferId ==
    ASSUME TypeInv, NEW w \in Workers, LeafResetBufferId(w)
    PROVE  TypeInv'
<1>1. TypeHeap'
  BY DEF TypeInv, TypeOK, TypeHeap, TypeLocals, LeafResetBufferId, NodeStates, LeafStates
<1>2. TypeThreads'
  BY DEF TypeInv, TypeOK, TypeThreads, LeafResetBufferId, PCs
<1>3. TypePool' /\ TypeQueues' /\ TypeLocals'
  BY DEF TypeInv, TypeOK, TypePool, TypeQueues, TypeLocals, LeafResetBufferId
<1>4. ShapeOf(w)'
  BY DEF TypeInv, TypeOK, TypeThreads, TypeLocals, Shape, LeafResetBufferId, ShapeOf,
     LeafPCs, NodePCs, NotifyPCs, ChildPCs, ClaimPCs, LeafHoldPCs, BothHoldPCs,
     ResultHoldPCs, HoldsLeft, HoldsRight, AtLeft
<1>5. ASSUME NEW v \in Workers, v # w PROVE ShapeOf(v)'
  <2>1. SameLocals(v)
    BY <1>5 DEF TypeInv, TypeOK, TypeThreads, TypeLocals, LeafResetBufferId, SameLocals
  <2> QED
    BY <1>5, <2>1, ShapeFrame DEF TypeInv, Shape
<1> QED
  BY <1>1, <1>2, <1>3, <1>4, <1>5 DEF TypeInv, TypeOK, Shape, MainHolds, LeafResetBufferId

\* The error path of a leaf, freeing its block, keeps the type invariant.
LEMMA TypeLeafReleaseBuffer ==
    ASSUME TypeInv, NEW w \in Workers, LeafReleaseBuffer(w)
    PROVE  TypeInv'
<1>1. TypePool'
  BY ReleaseTypes, ShapeFacts DEF TypeInv, TypeOK, TypePool, LeafReleaseBuffer,
     LeafHoldPCs, BothHoldPCs, ResultHoldPCs, ClaimPCs
<1>2. TypeThreads'
  BY DEF TypeInv, TypeOK, TypeThreads, LeafReleaseBuffer, PCs, Fail, Return, Errors
<1>3. TypeLocals'
  BY ReturnTypes DEF TypeInv, TypeOK, TypeLocals, LeafReleaseBuffer, Fail
<1>4. TypeHeap' /\ TypeQueues'
  BY DEF TypeInv, TypeOK, TypeHeap, TypeQueues, LeafReleaseBuffer
<1>5. ShapeOf(w)'
  BY DEF TypeInv, TypeOK, TypeThreads, TypeLocals, Shape, LeafReleaseBuffer, ShapeOf,
     LeafPCs, NodePCs, NotifyPCs, ChildPCs, ClaimPCs, LeafHoldPCs, BothHoldPCs,
     ResultHoldPCs, HoldsLeft, HoldsRight, AtLeft, Fail, Return
<1>6. ASSUME NEW v \in Workers, v # w PROVE ShapeOf(v)'
  <2>1. SameLocals(v)
    BY <1>6 DEF TypeInv, TypeOK, TypeThreads, TypeLocals, LeafReleaseBuffer, SameLocals,
       Fail, Return
  <2> QED
    BY <1>6, <2>1, ShapeFrame DEF TypeInv, Shape
<1> QED
  BY <1>1, <1>2, <1>3, <1>4, <1>5, <1>6 DEF TypeInv, TypeOK, Shape, MainHolds,
     LeafReleaseBuffer

\* BufHandle::write keeps the type invariant.
LEMMA TypeWriteResult ==
    ASSUME TypeInv, NEW w \in Workers, WriteResult(w)
    PROVE  TypeInv'
<1>1. TypePool'
  BY DEF TypeInv, TypeOK, TypePool, WriteResult, TypeLocals
<1>2. TypeThreads'
  BY DEF TypeInv, TypeOK, TypeThreads, WriteResult, PCs
<1>3. TypeHeap' /\ TypeQueues' /\ TypeLocals'
  BY DEF TypeInv, TypeOK, TypeHeap, TypeQueues, TypeLocals, WriteResult
<1>4. ShapeOf(w)'
  BY DEF TypeInv, TypeOK, TypeThreads, TypeLocals, Shape, WriteResult, ShapeOf, LeafPCs,
     NodePCs, NotifyPCs, ChildPCs, ClaimPCs, LeafHoldPCs, BothHoldPCs, ResultHoldPCs,
     HoldsLeft, HoldsRight, AtLeft
<1>5. ASSUME NEW v \in Workers, v # w PROVE ShapeOf(v)'
  <2>1. SameLocals(v)
    BY <1>5 DEF TypeInv, TypeOK, TypeThreads, TypeLocals, WriteResult, SameLocals
  <2> QED
    BY <1>5, <2>1, ShapeFrame DEF TypeInv, Shape
<1> QED
  BY <1>1, <1>2, <1>3, <1>4, <1>5 DEF TypeInv, TypeOK, Shape, MainHolds, WriteResult

\* Publishing a leaf keeps the type invariant.
LEMMA TypeLeafSetReady ==
    ASSUME TypeInv, NEW w \in Workers, LeafSetReady(w)
    PROVE  TypeInv'
<1>1. TypeHeap'
  BY DEF TypeInv, TypeOK, TypeHeap, TypeLocals, LeafSetReady, NodeStates, LeafStates
<1>2. TypePool'
  BY ReleaseTypes, ShapeFacts DEF TypeInv, TypeOK, TypePool, LeafSetReady, LeafHoldPCs,
     BothHoldPCs, ResultHoldPCs, ClaimPCs
<1>3. TypeThreads'
  BY ZenonT(60) DEF TypeInv, TypeOK, TypeThreads, LeafSetReady, PCs, Fail, Return, Errors
<1>4. TypeLocals'
  BY ReturnTypes DEF TypeInv, TypeOK, TypeLocals, LeafSetReady, Fail
<1>5. TypeQueues'
  BY DEF TypeInv, TypeOK, TypeQueues, LeafSetReady
<1>6. ShapeOf(w)'
  BY HeapLeaves, HeapNodes DEF TypeInv, TypeOK, TypeThreads, TypeLocals, Shape,
     LeafSetReady, ShapeOf, LeafPCs, NodePCs, NotifyPCs, ChildPCs, ClaimPCs,
     LeafHoldPCs, BothHoldPCs, ResultHoldPCs, HoldsLeft, HoldsRight, AtLeft, Fail,
     HasParent, Return
<1>7. ASSUME NEW v \in Workers, v # w PROVE ShapeOf(v)'
  <2>1. SameLocals(v)
    BY <1>7 DEF TypeInv, TypeOK, TypeThreads, TypeLocals, LeafSetReady, SameLocals, Fail,
       Return
  <2> QED
    BY <1>7, <2>1, ShapeFrame DEF TypeInv, Shape
<1> QED
  BY <1>1, <1>2, <1>3, <1>4, <1>5, <1>6, <1>7 DEF TypeInv, TypeOK, Shape, MainHolds,
     LeafSetReady

\* The first compare-exchange of notify_child_ready keeps the type invariant.
LEMMA TypeGotFirstChild ==
    ASSUME TypeInv, NEW w \in Workers, GotFirstChild(w)
    PROVE  TypeInv'
<1>1. TypeHeap'
  BY DEF TypeInv, TypeOK, TypeHeap, TypeLocals, GotFirstChild, NodeStates, LeafStates
<1>2. TypeThreads'
  BY DEF TypeInv, TypeOK, TypeThreads, GotFirstChild, PCs, Return
<1>3. TypeLocals'
  BY ReturnTypes DEF TypeInv, TypeOK, TypeLocals, GotFirstChild
<1>4. TypePool' /\ TypeQueues'
  BY DEF TypeInv, TypeOK, TypePool, TypeQueues, GotFirstChild
<1>5. ShapeOf(w)'
  BY DEF TypeInv, TypeOK, TypeThreads, TypeLocals, Shape, GotFirstChild, ShapeOf, LeafPCs,
     NodePCs, NotifyPCs, ChildPCs, ClaimPCs, LeafHoldPCs, BothHoldPCs, ResultHoldPCs,
     HoldsLeft, HoldsRight, AtLeft, Return
<1>6. ASSUME NEW v \in Workers, v # w PROVE ShapeOf(v)'
  <2>1. SameLocals(v)
    BY <1>6 DEF TypeInv, TypeOK, TypeThreads, TypeLocals, GotFirstChild, SameLocals, Return
  <2> QED
    BY <1>6, <2>1, ShapeFrame DEF TypeInv, Shape
<1> QED
  BY <1>1, <1>2, <1>3, <1>4, <1>5, <1>6 DEF TypeInv, TypeOK, Shape, MainHolds,
     GotFirstChild

\* The second compare-exchange of notify_child_ready, and the push of the node, keep the type invariant.
LEMMA TypeGotSecondChild ==
    ASSUME TypeInv, NEW w \in Workers, GotSecondChild(w)
    PROVE  TypeInv'
<1>1. TypeHeap'
  BY DEF TypeInv, TypeOK, TypeHeap, TypeLocals, GotSecondChild, NodeStates, LeafStates
<1>2. TypeQueues'
  <2>1. Parent(cur[w]) \in Nodes
    BY ShapeFacts DEF GotSecondChild, NotifyPCs
  <2>2. readyQ[w] \in Seq(Nodes)
    BY DEF TypeInv, TypeOK, TypeQueues
  <2>3. Append(readyQ[w], Parent(cur[w])) \in Seq(Nodes)
    BY <2>1, <2>2
  <2> QED
    BY <2>3 DEF TypeInv, TypeOK, TypeQueues, GotSecondChild, PushReady
<1>3. TypeThreads'
  BY DEF TypeInv, TypeOK, TypeThreads, GotSecondChild, PCs, Return
<1>4. TypeLocals'
  BY ReturnTypes DEF TypeInv, TypeOK, TypeLocals, GotSecondChild
<1>5. TypePool'
  BY DEF TypeInv, TypeOK, TypePool, GotSecondChild
<1>6. ShapeOf(w)'
  BY DEF TypeInv, TypeOK, TypeThreads, TypeLocals, Shape, GotSecondChild, ShapeOf,
     LeafPCs, NodePCs, NotifyPCs, ChildPCs, ClaimPCs, LeafHoldPCs, BothHoldPCs,
     ResultHoldPCs, HoldsLeft, HoldsRight, AtLeft, Return
<1>7. ASSUME NEW v \in Workers, v # w PROVE ShapeOf(v)'
  <2>1. SameLocals(v)
    BY <1>7 DEF TypeInv, TypeOK, TypeThreads, TypeLocals, GotSecondChild, SameLocals, Return
  <2> QED
    BY <1>7, <2>1, ShapeFrame DEF TypeInv, Shape
<1> QED
  BY <1>1, <1>2, <1>3, <1>4, <1>5, <1>6, <1>7 DEF TypeInv, TypeOK, Shape, MainHolds,
     GotSecondChild

\* The state check at the head of process_ready_inner_node keeps the type invariant.
LEMMA TypeNodeCheckState ==
    ASSUME TypeInv, NEW w \in Workers, NodeCheckState(w)
    PROVE  TypeInv'
<1>1. TypeThreads'
  BY ZenonT(60) DEF TypeInv, TypeOK, TypeThreads, NodeCheckState, PCs, Fail, Return, Errors
<1>2. TypeLocals'
  BY ReturnTypes, ShapeFacts DEF TypeInv, TypeOK, TypeLocals, NodeCheckState, NodePCs,
     ClaimPCs, BothHoldPCs, ChildPCs, Fail
<1>3. TypeHeap' /\ TypePool' /\ TypeQueues'
  BY DEF TypeInv, TypeOK, TypeHeap, TypePool, TypeQueues, NodeCheckState
<1>4. ShapeOf(w)'
  BY DEF TypeInv, TypeOK, TypeThreads, TypeLocals, Shape, NodeCheckState, ShapeOf,
     LeafPCs, NodePCs, NotifyPCs, ChildPCs, ClaimPCs, LeafHoldPCs, BothHoldPCs,
     ResultHoldPCs, HoldsLeft, HoldsRight, AtLeft, Fail, Return, Children
<1>5. ASSUME NEW v \in Workers, v # w PROVE ShapeOf(v)'
  <2>1. SameLocals(v)
    BY <1>5 DEF TypeInv, TypeOK, TypeThreads, TypeLocals, NodeCheckState, SameLocals, Fail,
       Return
  <2> QED
    BY <1>5, <2>1, ShapeFrame DEF TypeInv, Shape
<1> QED
  BY <1>1, <1>2, <1>3, <1>4, <1>5 DEF TypeInv, TypeOK, Shape, MainHolds, NodeCheckState

\* The state load of get_buf_id_if_ready keeps the type invariant.
LEMMA TypeConsumeIsReady ==
    ASSUME TypeInv, NEW w \in Workers, ConsumeIsReady(w)
    PROVE  TypeInv'
<1>1. TypePool'
  BY ReleaseTypes, ShapeFacts DEF TypeInv, TypeOK, TypePool, ConsumeIsReady, LeafHoldPCs,
     BothHoldPCs, ResultHoldPCs, ClaimPCs, ClaimFails
<1>2. TypeThreads'
  BY ZenonT(60) DEF TypeInv, TypeOK, TypeThreads, ConsumeIsReady, PCs, ClaimFails, Fail, Return,
     Errors
<1>3. TypeLocals'
  BY ReturnTypes DEF TypeInv, TypeOK, TypeLocals, ConsumeIsReady, ClaimFails, Fail
<1>4. TypeHeap' /\ TypeQueues'
  BY DEF TypeInv, TypeOK, TypeHeap, TypeQueues, ConsumeIsReady
<1>5. ShapeOf(w)'
  BY DEF TypeInv, TypeOK, TypeThreads, TypeLocals, Shape, ConsumeIsReady, ShapeOf,
     LeafPCs, NodePCs, NotifyPCs, ChildPCs, ClaimPCs, LeafHoldPCs, BothHoldPCs,
     ResultHoldPCs, HoldsLeft, HoldsRight, AtLeft, ClaimFails, Fail, Return
<1>6. ASSUME NEW v \in Workers, v # w PROVE ShapeOf(v)'
  <2>1. SameLocals(v)
    BY <1>6 DEF TypeInv, TypeOK, TypeThreads, TypeLocals, ConsumeIsReady, SameLocals,
       ClaimFails, Fail, Return
  <2> QED
    BY <1>6, <2>1, ShapeFrame DEF TypeInv, Shape
<1> QED
  BY <1>1, <1>2, <1>3, <1>4, <1>5, <1>6 DEF TypeInv, TypeOK, Shape, MainHolds,
     ConsumeIsReady

\* The id load of get_buf_id_if_ready keeps the type invariant.
LEMMA TypeConsumeLoadId ==
    ASSUME TypeInv, NEW w \in Workers, ConsumeLoadId(w)
    PROVE  TypeInv'
<1>1. TypePool'
  BY ReleaseTypes, ShapeFacts DEF TypeInv, TypeOK, TypePool, ConsumeLoadId, LeafHoldPCs,
     BothHoldPCs, ResultHoldPCs, ClaimPCs, ClaimFails
<1>2. TypeThreads'
  BY ZenonT(60) DEF TypeInv, TypeOK, TypeThreads, ConsumeLoadId, PCs, ClaimFails, Fail, Return,
     Errors
<1>3. TypeLocals'
  BY ReturnTypes, ShapeFacts, ConstantsAssumption DEF TypeInv, TypeOK, TypeLocals,
     ConsumeLoadId, NodePCs, ClaimPCs, BothHoldPCs, ChildPCs, TypeHeap, NoBuf,
     ClaimFails, Fail
<1>4. TypeHeap' /\ TypeQueues'
  BY DEF TypeInv, TypeOK, TypeHeap, TypeQueues, ConsumeLoadId
<1>5. ShapeOf(w)'
  BY ShapeFacts DEF TypeInv, TypeOK, TypeThreads, TypeLocals, Shape, ConsumeLoadId,
     ShapeOf, LeafPCs, NodePCs, NotifyPCs, ChildPCs, ClaimPCs, LeafHoldPCs, BothHoldPCs,
     ResultHoldPCs, HoldsLeft, HoldsRight, AtLeft, ClaimFails, Fail, Return, Children,
     TypeHeap, NoBuf
<1>6. ASSUME NEW v \in Workers, v # w PROVE ShapeOf(v)'
  <2>1. SameLocals(v)
    BY <1>6 DEF TypeInv, TypeOK, TypeThreads, TypeLocals, ConsumeLoadId, SameLocals,
       ClaimFails, Fail, Return
  <2> QED
    BY <1>6, <2>1, ShapeFrame DEF TypeInv, Shape
<1> QED
  BY <1>1, <1>2, <1>3, <1>4, <1>5, <1>6 DEF TypeInv, TypeOK, Shape, MainHolds,
     ConsumeLoadId

\* Claiming a child for consumption keeps the type invariant.
LEMMA TypeStartConsuming ==
    ASSUME TypeInv, NEW w \in Workers, StartConsuming(w)
    PROVE  TypeInv'
<1>1. TypeHeap'
  BY DEF TypeInv, TypeOK, TypeHeap, TypeLocals, StartConsuming, NodeStates, LeafStates
<1>2. TypePool'
  BY ReleaseTypes, ShapeFacts DEF TypeInv, TypeOK, TypePool, StartConsuming, LeafHoldPCs,
     BothHoldPCs, ResultHoldPCs, ClaimPCs, ClaimFails
<1>3. TypeThreads'
  BY ZenonT(60) DEF TypeInv, TypeOK, TypeThreads, StartConsuming, PCs, ClaimFails, Fail, Return,
     Errors
<1>4. TypeLocals'
  BY ReturnTypes, ShapeFacts DEF TypeInv, TypeOK, TypeLocals, StartConsuming, NodePCs,
     ClaimPCs, BothHoldPCs, ChildPCs, ClaimFails, Fail
<1>5. TypeQueues'
  BY DEF TypeInv, TypeOK, TypeQueues, StartConsuming
<1>6. ShapeOf(w)'
  BY HeapNodes DEF TypeInv, TypeOK, TypeThreads, TypeLocals, Shape, StartConsuming,
     ShapeOf, LeafPCs, NodePCs, NotifyPCs, ChildPCs, ClaimPCs, LeafHoldPCs, BothHoldPCs,
     ResultHoldPCs, HoldsLeft, HoldsRight, AtLeft, ClaimFails, Fail, Return, Children
<1>7. ASSUME NEW v \in Workers, v # w PROVE ShapeOf(v)'
  <2>1. SameLocals(v)
    BY <1>7 DEF TypeInv, TypeOK, TypeThreads, TypeLocals, StartConsuming, SameLocals,
       ClaimFails, Fail, Return
  <2> QED
    BY <1>7, <2>1, ShapeFrame DEF TypeInv, Shape
<1> QED
  BY <1>1, <1>2, <1>3, <1>4, <1>5, <1>6, <1>7 DEF TypeInv, TypeOK, Shape, MainHolds,
     StartConsuming

\* BufHandle::read of a child keeps the type invariant.
LEMMA TypeReadChild ==
    ASSUME TypeInv, NEW w \in Workers, ReadChild(w)
    PROVE  TypeInv'
<1>1. TypePool'
  BY DEF TypeInv, TypeOK, TypePool, ReadChild, TypeLocals
<1>2. TypeThreads'
  BY DEF TypeInv, TypeOK, TypeThreads, ReadChild, PCs
<1>3. TypeLocals'
  BY ShapeFacts DEF TypeInv, TypeOK, TypeLocals, ReadChild, NodePCs, ClaimPCs,
     BothHoldPCs, ChildPCs, TypePool
<1>4. TypeHeap' /\ TypeQueues'
  BY DEF TypeInv, TypeOK, TypeHeap, TypeQueues, ReadChild
<1>5. ShapeOf(w)'
  BY DEF TypeInv, TypeOK, TypeThreads, TypeLocals, Shape, ReadChild, ShapeOf, LeafPCs,
     NodePCs, NotifyPCs, ChildPCs, ClaimPCs, LeafHoldPCs, BothHoldPCs, ResultHoldPCs,
     HoldsLeft, HoldsRight, AtLeft, Children
<1>6. ASSUME NEW v \in Workers, v # w PROVE ShapeOf(v)'
  <2>1. SameLocals(v)
    BY <1>6 DEF TypeInv, TypeOK, TypeThreads, TypeLocals, ReadChild, SameLocals
  <2> QED
    BY <1>6, <2>1, ShapeFrame DEF TypeInv, Shape
<1> QED
  BY <1>1, <1>2, <1>3, <1>4, <1>5, <1>6 DEF TypeInv, TypeOK, Shape, MainHolds, ReadChild

\* A fold that succeeds keeps the type invariant.
LEMMA TypeFoldAccAcc ==
    ASSUME TypeInv, NEW w \in Workers, FoldAccAcc(w)
    PROVE  TypeInv'
<1>1. TypeThreads'
  BY DEF TypeInv, TypeOK, TypeThreads, FoldAccAcc, PCs
<1>2. TypeLocals'
  BY ShapeFacts, HeapNodes DEF TypeInv, TypeOK, TypeLocals, FoldAccAcc, NodePCs, ClaimPCs,
     BothHoldPCs, ChildPCs, Fold, Terms
<1>3. TypeHeap' /\ TypePool' /\ TypeQueues'
  BY DEF TypeInv, TypeOK, TypeHeap, TypePool, TypeQueues, FoldAccAcc
<1>4. ShapeOf(w)'
  BY DEF TypeInv, TypeOK, TypeThreads, TypeLocals, Shape, FoldAccAcc, ShapeOf, LeafPCs,
     NodePCs, NotifyPCs, ChildPCs, ClaimPCs, LeafHoldPCs, BothHoldPCs, ResultHoldPCs,
     HoldsLeft, HoldsRight, AtLeft, Children
<1>5. ASSUME NEW v \in Workers, v # w PROVE ShapeOf(v)'
  <2>1. SameLocals(v)
    BY <1>5 DEF TypeInv, TypeOK, TypeThreads, TypeLocals, FoldAccAcc, SameLocals
  <2> QED
    BY <1>5, <2>1, ShapeFrame DEF TypeInv, Shape
<1> QED
  BY <1>1, <1>2, <1>3, <1>4, <1>5 DEF TypeInv, TypeOK, Shape, MainHolds, FoldAccAcc

\* A fold that fails keeps the type invariant.
LEMMA TypeFoldFails ==
    ASSUME TypeInv, NEW w \in Workers, FoldFails(w)
    PROVE  TypeInv'
<1>1. TypeThreads'
  BY DEF TypeInv, TypeOK, TypeThreads, FoldFails, PCs
<1>2. TypeHeap' /\ TypePool' /\ TypeQueues' /\ TypeLocals'
  BY DEF TypeInv, TypeOK, TypeHeap, TypePool, TypeQueues, TypeLocals, FoldFails
<1>3. ShapeOf(w)'
  BY DEF TypeInv, TypeOK, TypeThreads, TypeLocals, Shape, FoldFails, ShapeOf, LeafPCs,
     NodePCs, NotifyPCs, ChildPCs, ClaimPCs, LeafHoldPCs, BothHoldPCs, ResultHoldPCs,
     HoldsLeft, HoldsRight, AtLeft
<1>4. ASSUME NEW v \in Workers, v # w PROVE ShapeOf(v)'
  <2>1. SameLocals(v)
    BY <1>4 DEF TypeInv, TypeOK, TypeThreads, TypeLocals, FoldFails, SameLocals
  <2> QED
    BY <1>4, <2>1, ShapeFrame DEF TypeInv, Shape
<1> QED
  BY <1>1, <1>2, <1>3, <1>4 DEF TypeInv, TypeOK, Shape, MainHolds, FoldFails

\* Freeing the left child's block after a failed fold keeps the type invariant.
LEMMA TypeFoldFailsReleaseLeft ==
    ASSUME TypeInv, NEW w \in Workers, FoldFailsReleaseLeft(w)
    PROVE  TypeInv'
<1>1. TypePool'
  BY ReleaseTypes, ShapeFacts DEF TypeInv, TypeOK, TypePool, FoldFailsReleaseLeft,
     LeafHoldPCs, BothHoldPCs, ResultHoldPCs, ClaimPCs
<1>2. TypeThreads'
  BY DEF TypeInv, TypeOK, TypeThreads, FoldFailsReleaseLeft, PCs
<1>3. TypeHeap' /\ TypeQueues' /\ TypeLocals'
  BY DEF TypeInv, TypeOK, TypeHeap, TypeQueues, TypeLocals, FoldFailsReleaseLeft
<1>4. ShapeOf(w)'
  BY DEF TypeInv, TypeOK, TypeThreads, TypeLocals, Shape, FoldFailsReleaseLeft, ShapeOf,
     LeafPCs, NodePCs, NotifyPCs, ChildPCs, ClaimPCs, LeafHoldPCs, BothHoldPCs,
     ResultHoldPCs, HoldsLeft, HoldsRight, AtLeft
<1>5. ASSUME NEW v \in Workers, v # w PROVE ShapeOf(v)'
  <2>1. SameLocals(v)
    BY <1>5 DEF TypeInv, TypeOK, TypeThreads, TypeLocals, FoldFailsReleaseLeft, SameLocals
  <2> QED
    BY <1>5, <2>1, ShapeFrame DEF TypeInv, Shape
<1> QED
  BY <1>1, <1>2, <1>3, <1>4, <1>5 DEF TypeInv, TypeOK, Shape, MainHolds,
     FoldFailsReleaseLeft

\* Freeing the right child's block after a failed fold keeps the type invariant.
LEMMA TypeFoldFailsReleaseRight ==
    ASSUME TypeInv, NEW w \in Workers, FoldFailsReleaseRight(w)
    PROVE  TypeInv'
<1>1. TypePool'
  BY ReleaseTypes, ShapeFacts DEF TypeInv, TypeOK, TypePool, FoldFailsReleaseRight,
     LeafHoldPCs, BothHoldPCs, ResultHoldPCs, ClaimPCs
<1>2. TypeThreads'
  BY DEF TypeInv, TypeOK, TypeThreads, FoldFailsReleaseRight, PCs, Fail, Return, Errors
<1>3. TypeLocals'
  BY ReturnTypes DEF TypeInv, TypeOK, TypeLocals, FoldFailsReleaseRight, Fail
<1>4. TypeHeap' /\ TypeQueues'
  BY DEF TypeInv, TypeOK, TypeHeap, TypeQueues, FoldFailsReleaseRight
<1>5. ShapeOf(w)'
  BY DEF TypeInv, TypeOK, TypeThreads, TypeLocals, Shape, FoldFailsReleaseRight, ShapeOf,
     LeafPCs, NodePCs, NotifyPCs, ChildPCs, ClaimPCs, LeafHoldPCs, BothHoldPCs,
     ResultHoldPCs, HoldsLeft, HoldsRight, AtLeft, Fail, Return
<1>6. ASSUME NEW v \in Workers, v # w PROVE ShapeOf(v)'
  <2>1. SameLocals(v)
    BY <1>6 DEF TypeInv, TypeOK, TypeThreads, TypeLocals, FoldFailsReleaseRight, SameLocals,
       Fail, Return
  <2> QED
    BY <1>6, <2>1, ShapeFrame DEF TypeInv, Shape
<1> QED
  BY <1>1, <1>2, <1>3, <1>4, <1>5, <1>6 DEF TypeInv, TypeOK, Shape, MainHolds,
     FoldFailsReleaseRight

\* set_consumed_task keeps the type invariant.
LEMMA TypeSetConsumed ==
    ASSUME TypeInv, NEW w \in Workers, SetConsumed(w)
    PROVE  TypeInv'
<1>1. TypeHeap'
  BY ShapeFacts DEF TypeInv, TypeOK, TypeHeap, TypeLocals, SetConsumed, NodeStates,
     LeafStates, Consumed
<1>2. TypeThreads'
  BY DEF TypeInv, TypeOK, TypeThreads, SetConsumed, PCs, NextChild
<1>3. TypeLocals'
  BY ShapeFacts DEF TypeInv, TypeOK, TypeLocals, SetConsumed, NodePCs, ClaimPCs,
     BothHoldPCs, ChildPCs, NextChild
<1>4. TypePool' /\ TypeQueues'
  BY DEF TypeInv, TypeOK, TypePool, TypeQueues, SetConsumed
<1>5. ShapeOf(w)'
  BY HeapNodes DEF TypeInv, TypeOK, TypeThreads, TypeLocals, Shape, SetConsumed, ShapeOf,
     LeafPCs, NodePCs, NotifyPCs, ChildPCs, ClaimPCs, LeafHoldPCs, BothHoldPCs,
     ResultHoldPCs, HoldsLeft, HoldsRight, AtLeft, NextChild, Children
<1>6. ASSUME NEW v \in Workers, v # w PROVE ShapeOf(v)'
  <2>1. SameLocals(v)
    BY <1>6 DEF TypeInv, TypeOK, TypeThreads, TypeLocals, SetConsumed, SameLocals, NextChild
  <2> QED
    BY <1>6, <2>1, ShapeFrame DEF TypeInv, Shape
<1> QED
  BY <1>1, <1>2, <1>3, <1>4, <1>5, <1>6 DEF TypeInv, TypeOK, Shape, MainHolds, SetConsumed

\* TaskHeap::clear_buffer_id keeps the type invariant.
LEMMA TypeClearBufferId ==
    ASSUME TypeInv, NEW w \in Workers, ClearBufferId(w)
    PROVE  TypeInv'
<1>1. TypeHeap'
  BY DEF TypeInv, TypeOK, TypeHeap, TypeLocals, ClearBufferId, NodeStates, LeafStates
<1>2. TypeThreads'
  BY DEF TypeInv, TypeOK, TypeThreads, ClearBufferId, PCs, NextChild
<1>3. TypeLocals'
  BY ShapeFacts DEF TypeInv, TypeOK, TypeLocals, ClearBufferId, NodePCs, ClaimPCs,
     BothHoldPCs, ChildPCs, NextChild
<1>4. TypePool' /\ TypeQueues'
  BY DEF TypeInv, TypeOK, TypePool, TypeQueues, ClearBufferId
<1>5. ShapeOf(w)'
  BY HeapNodes DEF TypeInv, TypeOK, TypeThreads, TypeLocals, Shape, ClearBufferId,
     ShapeOf, LeafPCs, NodePCs, NotifyPCs, ChildPCs, ClaimPCs, LeafHoldPCs, BothHoldPCs,
     ResultHoldPCs, HoldsLeft, HoldsRight, AtLeft, NextChild, Children
<1>6. ASSUME NEW v \in Workers, v # w PROVE ShapeOf(v)'
  <2>1. SameLocals(v)
    BY <1>6 DEF TypeInv, TypeOK, TypeThreads, TypeLocals, ClearBufferId, SameLocals,
       NextChild
  <2> QED
    BY <1>6, <2>1, ShapeFrame DEF TypeInv, Shape
<1> QED
  BY <1>1, <1>2, <1>3, <1>4, <1>5, <1>6 DEF TypeInv, TypeOK, Shape, MainHolds,
     ClearBufferId

\* Freeing the right child's block keeps the type invariant.
LEMMA TypeReleaseRight ==
    ASSUME TypeInv, NEW w \in Workers, ReleaseRight(w)
    PROVE  TypeInv'
<1>1. TypePool'
  BY ReleaseTypes, ShapeFacts DEF TypeInv, TypeOK, TypePool, ReleaseRight, LeafHoldPCs,
     BothHoldPCs, ResultHoldPCs, ClaimPCs
<1>2. TypeThreads'
  BY DEF TypeInv, TypeOK, TypeThreads, ReleaseRight, PCs
<1>3. TypeLocals'
  BY DEF TypeInv, TypeOK, TypeLocals, ReleaseRight
<1>4. TypeHeap' /\ TypeQueues'
  BY DEF TypeInv, TypeOK, TypeHeap, TypeQueues, ReleaseRight
<1>5. ShapeOf(w)'
  BY DEF TypeInv, TypeOK, TypeThreads, TypeLocals, Shape, ReleaseRight, ShapeOf, LeafPCs,
     NodePCs, NotifyPCs, ChildPCs, ClaimPCs, LeafHoldPCs, BothHoldPCs, ResultHoldPCs,
     HoldsLeft, HoldsRight, AtLeft
<1>6. ASSUME NEW v \in Workers, v # w PROVE ShapeOf(v)'
  <2>1. SameLocals(v)
    BY <1>6 DEF TypeInv, TypeOK, TypeThreads, TypeLocals, ReleaseRight, SameLocals
  <2> QED
    BY <1>6, <2>1, ShapeFrame DEF TypeInv, Shape
<1> QED
  BY <1>1, <1>2, <1>3, <1>4, <1>5, <1>6 DEF TypeInv, TypeOK, Shape, MainHolds,
     ReleaseRight

\* NodeTask::try_start_processing keeps the type invariant.
LEMMA TypeNodeStartProcessing ==
    ASSUME TypeInv, NEW w \in Workers, NodeStartProcessing(w)
    PROVE  TypeInv'
<1>1. TypeHeap'
  BY DEF TypeInv, TypeOK, TypeHeap, TypeLocals, NodeStartProcessing, NodeStates,
     LeafStates
<1>2. TypePool'
  BY ReleaseTypes, ShapeFacts DEF TypeInv, TypeOK, TypePool, NodeStartProcessing,
     LeafHoldPCs, BothHoldPCs, ResultHoldPCs, ClaimPCs
<1>3. TypeThreads'
  BY ZenonT(60) DEF TypeInv, TypeOK, TypeThreads, NodeStartProcessing, PCs, Fail, Return, Errors
<1>4. TypeLocals'
  BY ReturnTypes DEF TypeInv, TypeOK, TypeLocals, NodeStartProcessing, Fail
<1>5. TypeQueues'
  BY DEF TypeInv, TypeOK, TypeQueues, NodeStartProcessing
<1>6. ShapeOf(w)'
  BY DEF TypeInv, TypeOK, TypeThreads, TypeLocals, Shape, NodeStartProcessing, ShapeOf,
     LeafPCs, NodePCs, NotifyPCs, ChildPCs, ClaimPCs, LeafHoldPCs, BothHoldPCs,
     ResultHoldPCs, HoldsLeft, HoldsRight, AtLeft, Fail, Return
<1>7. ASSUME NEW v \in Workers, v # w PROVE ShapeOf(v)'
  <2>1. SameLocals(v)
    BY <1>7 DEF TypeInv, TypeOK, TypeThreads, TypeLocals, NodeStartProcessing, SameLocals,
       Fail, Return
  <2> QED
    BY <1>7, <2>1, ShapeFrame DEF TypeInv, Shape
<1> QED
  BY <1>1, <1>2, <1>3, <1>4, <1>5, <1>6, <1>7 DEF TypeInv, TypeOK, Shape, MainHolds,
     NodeStartProcessing

\* Publishing a node keeps the type invariant.
LEMMA TypeNodeSetReady ==
    ASSUME TypeInv, NEW w \in Workers, NodeSetReady(w)
    PROVE  TypeInv'
<1>1. TypeHeap'
  BY DEF TypeInv, TypeOK, TypeHeap, TypeLocals, NodeSetReady, NodeStates, LeafStates
<1>2. TypePool'
  BY ReleaseTypes, ShapeFacts DEF TypeInv, TypeOK, TypePool, NodeSetReady, LeafHoldPCs,
     BothHoldPCs, ResultHoldPCs, ClaimPCs
<1>3. TypeThreads'
  BY ZenonT(60) DEF TypeInv, TypeOK, TypeThreads, NodeSetReady, PCs, Fail, Return, Errors
<1>4. TypeLocals'
  BY ReturnTypes DEF TypeInv, TypeOK, TypeLocals, NodeSetReady, Fail
<1>5. TypeQueues'
  BY DEF TypeInv, TypeOK, TypeQueues, NodeSetReady
<1>6. ShapeOf(w)'
  BY HeapLeaves, HeapNodes DEF TypeInv, TypeOK, TypeThreads, TypeLocals, Shape,
     NodeSetReady, ShapeOf, LeafPCs, NodePCs, NotifyPCs, ChildPCs, ClaimPCs,
     LeafHoldPCs, BothHoldPCs, ResultHoldPCs, HoldsLeft, HoldsRight, AtLeft, Fail,
     HasParent, Return
<1>7. ASSUME NEW v \in Workers, v # w PROVE ShapeOf(v)'
  <2>1. SameLocals(v)
    BY <1>7 DEF TypeInv, TypeOK, TypeThreads, TypeLocals, NodeSetReady, SameLocals, Fail,
       Return
  <2> QED
    BY <1>7, <2>1, ShapeFrame DEF TypeInv, Shape
<1> QED
  BY <1>1, <1>2, <1>3, <1>4, <1>5, <1>6, <1>7 DEF TypeInv, TypeOK, Shape, MainHolds,
     NodeSetReady

\* check_and_signal_completion keeps the type invariant.
LEMMA TypeSignalCompletion ==
    ASSUME TypeInv, NEW w \in Workers, SignalCompletion(w)
    PROVE  TypeInv'
<1>1. TypeHeap'
  BY DEF TypeInv, TypeOK, TypeHeap, TypeLocals, SignalCompletion, NodeStates, LeafStates,
     Consumed
<1>2. TypeThreads'
  BY DEF TypeInv, TypeOK, TypeThreads, SignalCompletion, PCs
<1>3. TypePool' /\ TypeQueues' /\ TypeLocals'
  BY DEF TypeInv, TypeOK, TypePool, TypeQueues, TypeLocals, SignalCompletion
<1>4. ShapeOf(w)'
  BY DEF TypeInv, TypeOK, TypeThreads, TypeLocals, Shape, SignalCompletion, ShapeOf,
     LeafPCs, NodePCs, NotifyPCs, ChildPCs, ClaimPCs, LeafHoldPCs, BothHoldPCs,
     ResultHoldPCs, HoldsLeft, HoldsRight, AtLeft
<1>5. ASSUME NEW v \in Workers, v # w PROVE ShapeOf(v)'
  <2>1. SameLocals(v)
    BY <1>5 DEF TypeInv, TypeOK, TypeThreads, TypeLocals, SignalCompletion, SameLocals
  <2> QED
    BY <1>5, <2>1, ShapeFrame DEF TypeInv, Shape
<1> QED
  BY <1>1, <1>2, <1>3, <1>4, <1>5 DEF TypeInv, TypeOK, Shape, MainHolds, SignalCompletion

\* Every step of WorkerLocal::run keeps the type invariant.
LEMMA TypeWorkerStep ==
    ASSUME TypeInv, NEW w \in Workers, WorkerStep(w)
    PROVE  TypeInv'
BY TypeCheckStop, TypePopReady, TypePopLeaf, TypeYield, TypeAlloc, TypeStoreBufferId,
    TypeLeafStartProcessing, TypeConvert, TypeConvertFails, TypeLeafResetState,
    TypeLeafResetBufferId, TypeLeafReleaseBuffer, TypeWriteResult, TypeLeafSetReady,
    TypeGotFirstChild, TypeGotSecondChild, TypeNodeCheckState, TypeConsumeIsReady,
    TypeConsumeLoadId, TypeStartConsuming, TypeReadChild, TypeFoldAccAcc, TypeFoldFails,
    TypeFoldFailsReleaseLeft, TypeFoldFailsReleaseRight, TypeSetConsumed,
    TypeClearBufferId, TypeReleaseRight, TypeNodeStartProcessing, TypeNodeSetReady,
    TypeSignalCompletion DEF WorkerStep, LeafStep, NodeStep

-----------------------------------------------------------------------------
(* Steps of the producer and of the thread that called run.                 *)

\* No worker moves: the shape of every worker is kept.
LEMMA ShapeKept ==
    ASSUME TypeInv, UNCHANGED <<pc, workVars>>
    PROVE  \A v \in Workers : ShapeOf(v)'
<1> SUFFICES ASSUME NEW v \in Workers PROVE ShapeOf(v)'
  OBVIOUS
<1>1. SameLocals(v)
  BY DEF SameLocals
<1> QED
  BY <1>1, ShapeFrame DEF TypeInv, Shape

\* LeafProducer hands every leaf to one of the workers.
LEMMA WorkerOfRange ==
    ASSUME NEW r \in 0 .. NumLeaves - 1
    PROVE  WorkerOf(r) \in Workers
<1>1. NumLeaves \in Nat /\ NumLeaves > 0 /\ r \in Nat
  BY NumLeavesAssumption
<1>2. r * NumWorkers \in Nat
  BY <1>1, ConstantsAssumption
<1>3. (r * NumWorkers) \div NumLeaves \in Nat
  BY <1>1, <1>2, Z3
<1> QED
  BY <1>3, ConstantsAssumption DEF WorkerOf, Workers

\* Pushing a leaf to a worker's queue keeps the type invariant.
LEMMA TypeProduce ==
    ASSUME TypeInv, Produce
    PROVE  TypeInv'
<1> DEFINE rel == nextLeaf - LeafStart
<1>1. rel \in 0 .. NumLeaves - 1 /\ nextLeaf \in Leaves
  BY NumLeavesAssumption DEF TypeInv, TypeOK, TypeThreads, Produce, Leaves, LeafStart, Size
<1>2. TypeQueues'
  <2>1. WorkerOf(rel) \in Workers
    BY <1>1, WorkerOfRange
  <2>2. leafQ[WorkerOf(rel)] \in Seq((0 .. NumLeaves - 1) \X Leaves)
    BY <2>1 DEF TypeInv, TypeOK, TypeQueues
  <2>3. Append(leafQ[WorkerOf(rel)], <<rel, nextLeaf>>) \in Seq((0 .. NumLeaves - 1) \X Leaves)
    BY <1>1, <2>2
  <2> QED
    BY <2>3 DEF TypeInv, TypeOK, TypeQueues, Produce
<1>3. TypeThreads'
  BY NumLeavesAssumption DEF TypeInv, TypeOK, TypeThreads, Produce, LeafStart, Size
<1>4. TypeHeap' /\ TypePool' /\ TypeLocals'
  BY DEF TypeInv, TypeOK, TypeHeap, TypePool, TypeLocals, Produce
<1>5. Shape'
  BY ShapeKept DEF TypeInv, Shape, MainHolds, Produce
<1> QED
  BY <1>2, <1>3, <1>4, <1>5 DEF TypeInv, TypeOK

\* The end of LeafProducer keeps the type invariant.
LEMMA TypeProducerDone ==
    ASSUME TypeInv, ProducerDone
    PROVE  TypeInv'
<1>1. TypeOK'
  BY DEF TypeInv, TypeOK, TypeHeap, TypePool, TypeQueues, TypeThreads, TypeLocals, ProducerDone
<1>2. Shape'
  BY ShapeKept DEF TypeInv, Shape, MainHolds, ProducerDone
<1> QED
  BY <1>1, <1>2 DEF TypeInv

\* The checks at the head of ParallelTreeFolder::run keep the type invariant.
LEMMA TypeStart ==
    ASSUME TypeInv, Start
    PROVE  TypeInv'
<1>1. TypeHeap' /\ TypePool' /\ TypeQueues' /\ TypeLocals'
  BY DEF TypeInv, TypeOK, TypeHeap, TypePool, TypeQueues, TypeLocals, Start
<1>2. TypeThreads'
  BY DEF TypeInv, TypeOK, TypeThreads, Start, PCs
<1>3. CASE ValidLeaves
  BY <1>3, <1>1, <1>2 DEF TypeInv, TypeOK, Shape, ShapeOf, Start, HoldsLeft, HoldsRight,
     MainHolds, LeafPCs, NodePCs, NotifyPCs, ChildPCs, ClaimPCs, LeafHoldPCs, BothHoldPCs,
     ResultHoldPCs
<1>4. CASE ~ValidLeaves
  BY <1>4, <1>1, <1>2, ShapeKept DEF TypeInv, TypeOK, Shape, Start, MainHolds
<1> QED
  BY <1>3, <1>4

\* The steps of run after the workers are started leave them alone.
LEMMA TypeRun ==
    ASSUME TypeInv, WaitCompletion \/ LoadRoot \/ ReadRoot \/ DropRoot \/ JoinWorkers
    PROVE  TypeInv'
<1>1. TypeHeap' /\ TypeQueues' /\ TypeLocals'
  BY DEF TypeInv, TypeOK, TypeHeap, TypeQueues, TypeLocals,
         WaitCompletion, LoadRoot, ReadRoot, DropRoot, JoinWorkers
<1>2. UNCHANGED <<pc, workVars>>
  BY DEF WaitCompletion, LoadRoot, ReadRoot, DropRoot, JoinWorkers
<1>3. main = "load_root" /\ 0 \in Nodes /\ bufferId[0] >= 0 => bufferId[0] \in Blocks
  BY HeapNodes DEF TypeInv, TypeOK, TypeHeap, NoBuf
<1>4. MainHolds => mainBuf \in Blocks
  BY DEF TypeInv, Shape
<1>5. TypeThreads'
  BY <1>2, <1>3, <1>4 DEF TypeInv, TypeOK, TypeThreads, TypePool, MainHolds,
         WaitCompletion, LoadRoot, ReadRoot, DropRoot, JoinWorkers
<1>6. TypePool'
  BY <1>4, ReleaseTypes DEF TypeInv, TypeOK, TypePool, MainHolds,
         WaitCompletion, LoadRoot, ReadRoot, DropRoot, JoinWorkers
<1>7. main \notin {"start", "InvalidInput"} /\ main' \notin {"start", "InvalidInput"}
  BY DEF WaitCompletion, LoadRoot, ReadRoot, DropRoot, JoinWorkers
<1>8. MainHolds' => mainBuf' \in Blocks
  BY <1>3, <1>4 DEF MainHolds, WaitCompletion, LoadRoot, ReadRoot, DropRoot, JoinWorkers
<1>9. Shape'
  BY <1>2, <1>7, <1>8, ShapeKept DEF TypeInv, Shape
<1> QED
  BY <1>1, <1>5, <1>6, <1>9 DEF TypeInv, TypeOK

\* A step that changes nothing keeps the type invariant.
LEMMA TypeStutter ==
    ASSUME TypeInv, UNCHANGED vars
    PROVE  TypeInv'
<1>1. TypeOK'
  BY DEF vars, TypeInv, TypeOK, TypeHeap, TypePool, TypeQueues, TypeThreads, TypeLocals
<1>2. Shape'
  BY ShapeKept DEF vars, TypeInv, Shape, MainHolds
<1> QED
  BY <1>1, <1>2 DEF TypeInv

\* TypeInv is inductive: every step of every thread preserves it.
LEMMA TypeNext == TypeInv /\ [Next]_vars => TypeInv'
BY TypeWorkerStep, TypeProduce, TypeProducerDone, TypeStart, TypeRun, TypeStutter
   DEF Next, ProducerStep, MainStep, Terminated

\* In every reachable state of the folder each shared word, queue, block and
\* local variable has its type, and a worker's local variables fit the point of
\* the code it is at: a task it handles is in the heap, a child it consumes is a
\* child of that task, a block it holds is a block of the pool.
THEOREM TypeInvariant == Spec => []TypeInv
BY TypeInit, TypeNext, PTL DEF Spec

\* Every word, queue, block and local variable keeps its type in every
\* reachable state, for any number of leaves, workers and blocks.
THEOREM TypeCorrect == Spec => []TypeOK
<1>1. TypeInv => TypeOK
  BY DEF TypeInv
<1> QED
  BY <1>1, TypeInvariant, PTL

-----------------------------------------------------------------------------
(***************************************************************************)
(* The control layer of the parallel tree folder, for every number of      *)
(* leaves, workers and blocks: no two workers ever hold the same task, the  *)
(* state of a task agrees with the control states of the workers and with  *)
(* the queues, no compare-exchange and no claim ever fails, and a node that *)
(* both children have reported is always in one worker's hands.             *)
(*                                                                         *)
(* A step of a worker touches the state of at most one task, and that task  *)
(* is private to it (Private): no other worker and no queue relies on it.   *)
(* The frame lemmas turn this into what the step leaves alone; the lemma of *)
(* an action then only has to look at the worker that takes the step.       *)
(***************************************************************************)

-----------------------------------------------------------------------------
(* The frame of a worker's step.                                            *)

OthersSame(w) == \A v \in Workers \ {w} : SameLocals(v)

\* The worker goes on with its task, or lets go of it.
KeepsTask(w) == pc'[w] \in BusyPCs => pc[w] \in BusyPCs /\ cur'[w] = cur[w]

\* The step is one of a busy worker, or one of the loop.
StaysInTurn(w) == pc[w] \in BusyPCs \/ pc'[w] \in {"check", "pop", "exited"}

\* No other worker, and no queue, relies on the state of task x.
Private(w, x) ==
    /\ \A v \in Workers \ {w} : pc[v] \in BusyPCs => cur[v] # x
    /\ \A v \in Workers \ {w} : pc[v] \in NodePCs => x \notin Children(cur[v])
    /\ \A v \in Workers : \A i \in 1 .. Len(leafQ[v]) : leafQ[v][i][2] # x
    /\ x \in Leaves => x < nextLeaf
    /\ \A v \in Workers : readyQ[v] # <<>> =>
           x # readyQ[v][1] /\ x \notin Children(readyQ[v][1])

\* The step changes only the states of tasks that are private to w.
ChangesPrivate(w) == \A t \in Tasks : Private(w, t) \/ state'[t] = state[t]

NodesNeverRestart ==
    \A n \in Nodes : state'[n] = "NOT_STARTED" => state[n] = "NOT_STARTED"

\* The children of two inner tasks of TaskHeap are different tasks.
LEMMA HeapSiblings ==
    ASSUME NEW m \in Nodes, NEW n \in Nodes, NEW c \in Children(m), c \in Children(n)
    PROVE  m = n
BY NumLeavesAssumption DEF Nodes, Children, Left, Right

\* An inner task of TaskHeap is a task, and so are its children, none of which is the root.
LEMMA HeapChildren ==
    ASSUME NEW n \in Nodes
    PROVE  n \in Tasks /\ Children(n) \subseteq Tasks \ {0}
BY HeapNodes DEF Children

\* The head and the rest of a queue that is not empty.
LEMMA QueueTake ==
    ASSUME NEW S, NEW q \in Seq(S), q # <<>>
    PROVE  /\ Len(q) \in Nat /\ Len(q) >= 1 /\ Head(q) = q[1] /\ q[1] \in S
           /\ Tail(q) \in Seq(S) /\ Len(Tail(q)) = Len(q) - 1
           /\ \A i \in 1 .. Len(Tail(q)) : Tail(q)[i] = q[i + 1]
           /\ Len(q) = 1 => Tail(q) = <<>>
<1>1. Len(q) \in Nat \ {0}
  BY EmptySeq
<1>2. Tail(q) \in Seq(S) /\ Len(Tail(q)) = Len(q) - 1
      /\ \A i \in 1 .. Len(Tail(q)) : Tail(q)[i] = q[i + 1]
  BY HeadTailProperties
<1>3. Len(q) = 1 => Tail(q) = <<>>
  <2>1. Tail(q) # <<>> => Len(Tail(q)) \in Nat \ {0}
    BY <1>2, EmptySeq
  <2> QED
    BY <1>2, <2>1
<1>4. Head(q) = q[1] /\ q[1] \in S
  BY <1>1, ElementOfSeq
<1> QED
  BY <1>1, <1>2, <1>3, <1>4

\* A queue after a push.
LEMMA QueueAdd ==
    ASSUME NEW S, NEW q \in Seq(S), NEW e \in S
    PROVE  /\ Append(q, e) \in Seq(S) /\ Len(Append(q, e)) = Len(q) + 1
           /\ Append(q, e)[Len(q) + 1] = e
           /\ \A i \in 1 .. Len(q) : Append(q, e)[i] = q[i]
OBVIOUS

\* The control states that make a worker busy, spelled out.
LEMMA BusyKinds ==
    /\ LeafPCs \cup NodePCs \cup NotifyPCs \cup {"signal"} = BusyPCs
    /\ LeafPCs \cap NodePCs = {} /\ LeafPCs \cap NotifyPCs = {} /\ NodePCs \cap NotifyPCs = {}
    /\ "signal" \notin LeafPCs \cup NodePCs \cup NotifyPCs
    /\ ChildPCs \subseteq NodePCs
    /\ BusyPCs \cap {"check", "pop", "exited", "unborn", "panicked"} = {}
BY DEF BusyPCs, LeafPCs, NodePCs, NotifyPCs, ChildPCs, LeafHoldPCs, ClaimPCs, BothHoldPCs,
       ResultHoldPCs

\* The task of a busy worker.
LEMMA BusyTask ==
    ASSUME TypeInv, NEW w \in Workers
    PROVE  /\ pc[w] \in BusyPCs => cur[w] \in Tasks
           /\ pc[w] \in LeafPCs => cur[w] \in Leaves /\ cur[w] \in Tasks
           /\ pc[w] \in NodePCs => /\ cur[w] \in Nodes /\ cur[w] \in Tasks
                                   /\ Children(cur[w]) \subseteq Tasks \ {0}
                                   /\ Left(cur[w]) # Right(cur[w])
           /\ pc[w] \in NotifyPCs => cur[w] \in Tasks \ {0} /\ Parent(cur[w]) \in Nodes
           /\ pc[w] = "signal" => cur[w] = 0 /\ 0 \in Nodes
           /\ pc[w] \in ChildPCs => child[w] \in Children(cur[w])
<1>1. ShapeOf(w)
  BY DEF TypeInv, Shape
<1> QED
  BY <1>1, HeapLeaves, HeapNodes, HeapParent, BusyKinds DEF ShapeOf, Children

\* The states of the children of a node that is being folded.
LEMMA ChildStates ==
    ASSUME Control, NEW w \in Workers, pc[w] \in NodePCs, NEW c \in Children(cur[w])
    PROVE  /\ state[c] \in {"READY", "BEING_CONSUMED", "CONSUMED"}
           /\ state[cur[w]] \in {"WAITING_BOTH_CHILDREN", "PROCESSING"}
BY DEF Control, NodeWork, NodeWorkOf, ChildWork, NodePCs, BothHoldPCs

\* The task a worker processes is private to it until the worker has published it.
LEMMA PrivateCur ==
    ASSUME TypeInv, Control, NEW w \in Workers, pc[w] \in LeafPCs \cup NodePCs
    PROVE  Private(w, cur[w])
<1>1. state[cur[w]] \notin {"READY", "BEING_CONSUMED", "CONSUMED"}
  BY BusyKinds DEF Control, LeafWork, LeafWorkOf, NodeWork, NodeWorkOf
<1>2. \A v \in Workers \ {w} : pc[v] \in BusyPCs => cur[v] # cur[w]
  BY BusyKinds DEF Control, OneWorkerPerTask
<1>3. \A v \in Workers \ {w} : pc[v] \in NodePCs => cur[w] \notin Children(cur[v])
  BY <1>1, ChildStates
<1>4. \A v \in Workers : \A i \in 1 .. Len(leafQ[v]) : leafQ[v][i][2] # cur[w]
  BY BusyKinds DEF Control, LeafQueues, Idle
<1>5. cur[w] \in Leaves => cur[w] < nextLeaf
  BY BusyTask, HeapLeaves, BusyKinds DEF Control, LeafWork, LeafWorkOf
<1>6. \A v \in Workers : readyQ[v] # <<>> =>
           cur[w] # readyQ[v][1] /\ cur[w] \notin Children(readyQ[v][1])
  BY <1>1, BusyKinds DEF Control, ReadyQueues, ReadyQueueOf, Idle
<1> QED
  BY <1>2, <1>3, <1>4, <1>5, <1>6 DEF Private

\* The parent that a worker reports to is private until both children have reported.
LEMMA PrivateParent ==
    ASSUME TypeInv, Control, NEW w \in Workers, pc[w] \in NotifyPCs,
           state[Parent(cur[w])] \in {"NOT_STARTED", "WAITING_ONE_CHILD"}
    PROVE  Private(w, Parent(cur[w]))
<1> DEFINE p == Parent(cur[w])
<1>1. p \in Nodes /\ p \notin Leaves
  BY BusyTask, HeapLeaves
<1>2. \A v \in Workers \ {w} : pc[v] \in BusyPCs => cur[v] # p
  BY <1>1, BusyKinds, BusyTask DEF Control, LeafWork, LeafWorkOf, NodeWork, NodeWorkOf,
     NotifyWork, NotifyWorkOf
<1>3. \A v \in Workers \ {w} : pc[v] \in NodePCs => p \notin Children(cur[v])
  BY ChildStates
<1>4. \A v \in Workers : \A i \in 1 .. Len(leafQ[v]) : leafQ[v][i][2] # p
  BY <1>1 DEF TypeInv, TypeOK, TypeQueues
<1>5. \A v \in Workers : readyQ[v] # <<>> =>
           p # readyQ[v][1] /\ p \notin Children(readyQ[v][1])
  BY DEF Control, ReadyQueues, ReadyQueueOf
<1> QED
  BY <1>1, <1>2, <1>3, <1>4, <1>5 DEF Private

\* The children of a node that is being folded are private to the worker that folds it.
LEMMA PrivateChild ==
    ASSUME TypeInv, Control, NEW w \in Workers, pc[w] \in NodePCs, NEW c \in Children(cur[w])
    PROVE  Private(w, c)
<1>1. cur[w] \in Nodes /\ c \in Tasks \ {0}
  BY BusyTask
<1>2. state[c] \in {"READY", "BEING_CONSUMED", "CONSUMED"}
  BY ChildStates
<1>3. state[cur[w]] \in {"WAITING_BOTH_CHILDREN", "PROCESSING"}
  BY ChildStates
<1>4. \A v \in Workers : pc[v] \in NotifyPCs => cur[v] # c
  BY <1>1, <1>3 DEF Control, ParentCounts, ParentCount, Notified
<1>5. \A v \in Workers \ {w} : pc[v] \in BusyPCs => cur[v] # c
  BY <1>1, <1>2, <1>4, BusyKinds, BusyTask DEF Control, LeafWork, LeafWorkOf, NodeWork, NodeWorkOf
<1>6. \A v \in Workers \ {w} : pc[v] \in NodePCs => c \notin Children(cur[v])
  <2> SUFFICES ASSUME NEW v \in Workers \ {w}, pc[v] \in NodePCs, c \in Children(cur[v])
               PROVE  FALSE
    OBVIOUS
  <2>1. cur[v] = cur[w]
    BY <1>1, BusyTask, HeapSiblings
  <2> QED
    BY <2>1, BusyKinds DEF Control, OneWorkerPerTask
<1>7. \A v \in Workers : \A i \in 1 .. Len(leafQ[v]) : leafQ[v][i][2] # c
  BY <1>2 DEF Control, LeafQueues
<1>8. c \in Leaves => c < nextLeaf
  BY <1>2, NumLeavesAssumption DEF Control, FutureLeaves, TypeInv, TypeOK, TypeThreads, Leaves, LeafStart, Size
<1>9. ASSUME NEW v \in Workers, readyQ[v] # <<>>
      PROVE  c # readyQ[v][1] /\ c \notin Children(readyQ[v][1])
  <2>1. readyQ[v][1] \in Nodes
    BY <1>9 DEF TypeInv, TypeOK, TypeQueues
  <2>2. c # readyQ[v][1]
    BY <1>2, <1>9 DEF Control, ReadyQueues, ReadyQueueOf
  <2>3. cur[w] # readyQ[v][1]
    BY <1>9, BusyKinds DEF Control, ReadyQueues, ReadyQueueOf, Idle
  <2> QED
    BY <1>1, <2>1, <2>2, <2>3, HeapSiblings
<1> QED
  BY <1>5, <1>6, <1>7, <1>8, <1>9 DEF Private

\* Distinct workers still hold distinct tasks when w keeps its own.
LEMMA FrameTasks ==
    ASSUME Control, NEW w \in Workers, OthersSame(w), KeepsTask(w)
    PROVE  OneWorkerPerTask'
BY DEF Control, OneWorkerPerTask, OthersSame, SameLocals, KeepsTask

\* A task nobody holds stays idle when no worker takes a task.
LEMMA FrameIdle ==
    ASSUME NEW w \in Workers, OthersSame(w), KeepsTask(w), NEW t, Idle(t)
    PROVE  Idle(t)'
BY DEF Idle, OthersSame, SameLocals, KeepsTask

\* The leaf queues are as they were.
LEMMA FrameLeafQueues ==
    ASSUME TypeInv, Control, NEW w \in Workers, OthersSame(w), KeepsTask(w),
           ChangesPrivate(w), UNCHANGED <<leafQ, nextLeaf>>
    PROVE  LeafQueues' /\ FutureLeaves'
<1>1. ASSUME NEW v \in Workers, NEW i \in 1 .. Len(leafQ[v])
      PROVE  /\ state'[leafQ[v][i][2]] = state[leafQ[v][i][2]]
             /\ Idle(leafQ[v][i][2])'
  <2>1. leafQ[v][i][2] \in Tasks
    BY HeapLeaves DEF TypeInv, TypeOK, TypeQueues
  <2>2. Idle(leafQ[v][i][2])
    BY DEF Control, LeafQueues
  <2> QED
    BY <2>1, <2>2, FrameIdle DEF ChangesPrivate, Private
<1>2. LeafQueues'
  BY <1>1 DEF Control, LeafQueues
<1>3. FutureLeaves'
  <2> SUFFICES ASSUME NEW t \in Leaves, t >= nextLeaf PROVE state'[t] = "NOT_STARTED"
    BY DEF FutureLeaves
  <2>1. t \in Tasks /\ ~(t < nextLeaf)
    BY HeapLeaves, NumLeavesAssumption DEF TypeInv, TypeOK, TypeThreads, Leaves, LeafStart, Size
  <2> QED
    BY <2>1 DEF Control, FutureLeaves, ChangesPrivate, Private
<1> QED
  BY <1>2, <1>3

\* The ready queues are as they were.
LEMMA FrameReadyQueues ==
    ASSUME TypeInv, Control, NEW w \in Workers, OthersSame(w), KeepsTask(w), StaysInTurn(w),
           ChangesPrivate(w), UNCHANGED readyQ
    PROVE  ReadyQueues'
<1>1. ASSUME NEW v \in Workers, readyQ[v] # <<>>
      PROVE  /\ state'[readyQ[v][1]] = state[readyQ[v][1]]
             /\ \A c \in Children(readyQ[v][1]) : state'[c] = state[c]
             /\ Idle(readyQ[v][1])'
             /\ pc'[v] \in {"check", "pop", "exited"}
  <2>1. readyQ[v][1] \in Nodes
    BY <1>1 DEF TypeInv, TypeOK, TypeQueues
  <2>2. readyQ[v][1] \in Tasks /\ Children(readyQ[v][1]) \subseteq Tasks
    BY <2>1, HeapNodes DEF Children
  <2>3. Idle(readyQ[v][1])'
    BY <1>1, FrameIdle DEF Control, ReadyQueues, ReadyQueueOf
  <2>4. pc'[v] \in {"check", "pop", "exited"}
    BY <1>1, BusyKinds DEF Control, ReadyQueues, ReadyQueueOf, StaysInTurn, OthersSame, SameLocals
  <2> QED
    BY <1>1, <2>2, <2>3, <2>4 DEF ChangesPrivate, Private
<1> QED
  BY <1>1 DEF Control, ReadyQueues, ReadyQueueOf

\* What the other workers rely on is as it was.
LEMMA FrameWork ==
    ASSUME TypeInv, Control, NEW w \in Workers, OthersSame(w), ChangesPrivate(w),
           NodesNeverRestart, nextLeaf' = nextLeaf, NEW v \in Workers, v # w
    PROVE  LeafWorkOf(v)' /\ NodeWorkOf(v)' /\ NotifyWorkOf(v)'
<1>1. SameLocals(v)
  BY DEF OthersSame
<1>2. pc[v] \in BusyPCs => state'[cur[v]] = state[cur[v]]
  BY BusyTask, BusyKinds DEF ChangesPrivate, Private
<1>3. ASSUME pc[v] \in NodePCs, NEW c \in Children(cur[v]) PROVE state'[c] = state[c]
  BY <1>3, BusyTask DEF ChangesPrivate, Private
<1>4. LeafWorkOf(v)'
  BY <1>1, <1>2, BusyKinds DEF Control, LeafWork, LeafWorkOf, SameLocals
<1>5. NodeWorkOf(v)'
  <2>1. ASSUME pc[v] \in NodePCs, NEW c \in Children(cur[v]) PROVE ChildWork(v, c)'
    BY <1>1, <1>3, <2>1 DEF Control, NodeWork, NodeWorkOf, ChildWork, Passed, AtLeft, SameLocals
  <2> QED
    BY <1>1, <1>2, <2>1, BusyKinds DEF Control, NodeWork, NodeWorkOf, SameLocals
<1>6. NotifyWorkOf(v)'
  <2>1. pc[v] \in NotifyPCs => Parent(cur[v]) \in Nodes
    BY BusyTask
  <2>2. pc[v] = "signal" => cur[v] = 0
    BY BusyTask
  <2> QED
    BY <1>1, <1>2, <2>1, <2>2, BusyKinds DEF Control, NotifyWork, NotifyWorkOf, SameLocals,
       NodesNeverRestart, NotifyPCs
<1> QED
  BY <1>4, <1>5, <1>6

\* The counts of reported children are as they were.
LEMMA FrameParentCounts ==
    ASSUME TypeInv, Control, NEW w \in Workers, OthersSame(w),
           pc'[w] \in NotifyPCs <=> pc[w] \in NotifyPCs,
           pc'[w] \in NotifyPCs => cur'[w] = cur[w],
           \A n \in Nodes : \/ state'[n] = state[n]
                            \/ {state[n], state'[n]} \cap {"NOT_STARTED", "WAITING_ONE_CHILD"} = {},
           \A n \in Nodes : state[n] = "WAITING_ONE_CHILD" =>
               \A c \in Children(n) : state[c] = "READY" => state'[c] = "READY",
           \A t \in Tasks : Done(t)' <=> Done(t)
    PROVE  ParentCounts'
<1>1. ASSUME NEW c \in Tasks PROVE Notified(c)' <=> Notified(c)
  BY <1>1, BusyKinds DEF Notified, OthersSame, SameLocals
<1> SUFFICES ASSUME NEW n \in Nodes PROVE ParentCount(n)'
  BY DEF ParentCounts
<1>2. Children(n) \subseteq Tasks /\ ParentCount(n)
  BY HeapNodes DEF Control, ParentCounts, Children
<1>3. CASE state'[n] = state[n]
  BY <1>1, <1>2, <1>3 DEF ParentCount
<1>4. CASE {state[n], state'[n]} \cap {"NOT_STARTED", "WAITING_ONE_CHILD"} = {}
  BY <1>1, <1>2, <1>4 DEF ParentCount
<1> QED
  BY <1>3, <1>4

\* Publishing a task leaves the counts of reported children as they were: the worker
\* that publishes it has still to report it.
LEMMA FramePublish ==
    ASSUME TypeInv, Control, NEW w \in Workers, OthersSame(w), NEW x \in Tasks,
           state[x] = "PROCESSING", state'[x] = "READY",
           \A t \in Tasks : t # x => state'[t] = state[t],
           pc[w] \notin NotifyPCs, pc'[w] \in NotifyPCs => cur'[w] = x,
           x = 0 \/ pc'[w] \in NotifyPCs
    PROVE  ParentCounts'
<1>1. \A c \in Tasks \ {0} : Notified(c)' <=> Notified(c)
  BY DEF Notified, OthersSame, SameLocals, Done
<1>2. ~Notified(x)
  BY DEF Notified, Done
<1> SUFFICES ASSUME NEW n \in Nodes PROVE ParentCount(n)'
  BY DEF ParentCounts
<1>3. n \in Tasks /\ Children(n) \subseteq Tasks \ {0} /\ ParentCount(n)
  BY HeapChildren DEF Control, ParentCounts
<1>4. state'[n] \in {"NOT_STARTED", "WAITING_ONE_CHILD"} => state'[n] = state[n]
  BY <1>3
<1>5. state'[n] \notin {"NOT_STARTED", "WAITING_ONE_CHILD"} =>
          state[n] \notin {"NOT_STARTED", "WAITING_ONE_CHILD"}
  BY <1>3
<1> QED
  BY <1>1, <1>3, <1>4, <1>5 DEF ParentCount

\* A worker that has reported its task to the parent: the task counts as reported from
\* then on, and nothing else changes for any other node.
LEMMA FrameReport ==
    ASSUME TypeInv, Control, NEW w \in Workers, OthersSame(w),
           pc[w] \in NotifyPCs, pc'[w] \notin NotifyPCs,
           NEW x, x = cur[w], NEW p, p = Parent(x),
           \A t \in Tasks : t # p => state'[t] = state[t],
           state[p] \in {"NOT_STARTED", "WAITING_ONE_CHILD"},
           state'[p] \in {"WAITING_ONE_CHILD", "WAITING_BOTH_CHILDREN"}
    PROVE  /\ x \in Children(p)
           /\ Notified(x)' /\ ~Notified(x) /\ state'[x] = "READY"
           /\ \A c \in Tasks \ {x} : Notified(c)' <=> Notified(c)
           /\ \A n \in Nodes \ {p} : ParentCount(n)'
<1>1. x \in Tasks \ {0} /\ p \in Nodes /\ p \in Tasks /\ x \in Children(p)
  BY BusyTask, HeapParent, HeapChildren
<1>2. state[x] = "READY" /\ x # p /\ state'[x] = "READY"
  BY <1>1 DEF Control, NotifyWork, NotifyWorkOf
<1>3. ~Notified(x)
  BY DEF Notified
<1>4. Notified(x)'
  BY <1>2, BusyKinds DEF Notified, Done, OthersSame, SameLocals, Control, OneWorkerPerTask
<1>5. \A c \in Tasks \ {x} : Notified(c)' <=> Notified(c)
  BY <1>1 DEF Notified, Done, OthersSame, SameLocals
<1>6. ASSUME NEW n \in Nodes \ {p} PROVE ParentCount(n)'
  <2>1. n \in Tasks /\ Children(n) \subseteq Tasks \ {x} /\ ParentCount(n)
    BY <1>1, HeapChildren, HeapSiblings DEF Control, ParentCounts
  <2>2. \A c \in Children(n) : state[c] = "READY" => state'[c] = "READY"
    BY <2>1
  <2> QED
    BY <1>5, <2>1, <2>2 DEF ParentCount
<1> QED
  BY <1>1, <1>2, <1>3, <1>4, <1>5, <1>6

\* A node past its fold keeps its children consumed.
LEMMA FrameChildrenConsumed ==
    ASSUME TypeInv, Control,
           \A t \in Tasks : state[t] = "CONSUMED" => state'[t] = "CONSUMED",
           \A n \in Nodes :
               state'[n] \in {"PROCESSING", "READY", "BEING_CONSUMED", "CONSUMED"} =>
                   \/ state[n] \in {"PROCESSING", "READY", "BEING_CONSUMED", "CONSUMED"}
                   \/ \A c \in Children(n) : state[c] = "CONSUMED"
    PROVE  ChildrenConsumed'
<1>1. \A n \in Nodes : Children(n) \subseteq Tasks
  BY HeapNodes DEF Children
<1> QED
  BY <1>1 DEF Control, ChildrenConsumed

\* The buffer ids that the other workers rely on are as they were.
LEMMA FrameBufferIds ==
    ASSUME TypeInv, Control, NEW w \in Workers, OthersSame(w),
           \A t \in Tasks : Private(w, t) \/ bufferId'[t] = bufferId[t],
           NEW v \in Workers, v # w
    PROVE  BufferIdOf(v)'
<1>1. SameLocals(v)
  BY DEF OthersSame
<1>2. pc[v] \in BusyPCs => bufferId'[cur[v]] = bufferId[cur[v]]
  BY BusyTask, BusyKinds DEF Private
<1>3. ASSUME pc[v] \in NodePCs, NEW c \in Children(cur[v]) PROVE bufferId'[c] = bufferId[c]
  BY <1>3, BusyTask DEF Private
<1>4. pc[v] \in {"l_start", "convert", "l_reset", "l_write", "l_ready", "n_start", "n_ready"}
          => pc[v] \in BusyPCs
  BY DEF BusyPCs, LeafPCs, NodePCs, LeafHoldPCs, ResultHoldPCs
<1>5. pc[v] \in {"consume", "clear_id"} => pc[v] \in NodePCs /\ pc[v] \in ChildPCs
  BY DEF NodePCs, ClaimPCs, BothHoldPCs, ChildPCs
<1>6. pc[v] = "consume" => bufferId'[child[v]] = bufferId[child[v]]
  BY <1>3, <1>5, BusyTask
<1>7. pc[v] = "clear_id" => bufferId'[Left(cur[v])] = bufferId[Left(cur[v])]
  BY <1>3, <1>5 DEF Children
<1> QED
  BY <1>1, <1>2, <1>4, <1>6, <1>7 DEF Control, BufferIds, BufferIdOf, AtLeft, SameLocals

\* A consumed task is still waiting for its buffer id to be cleared, or it is cleared.
LEMMA FrameClearedIds ==
    ASSUME TypeInv, Control, NEW w \in Workers, OthersSame(w),
           \A t \in Tasks : state'[t] = "CONSUMED" =>
               state[t] = "CONSUMED" /\ bufferId'[t] = bufferId[t],
           pc[w] \in {"set_consumed", "clear_id"} =>
               pc'[w] \in {"set_consumed", "clear_id"} /\ cur'[w] = cur[w]
    PROVE  \A t \in Tasks : ClearedId(t)'
BY DEF Control, BufferIds, ClearedId, OthersSame, SameLocals

\* Waiting nodes are still held.
LEMMA FrameNodesHeld ==
    ASSUME TypeInv, Control, NEW w \in Workers, OthersSame(w), UNCHANGED readyQ,
           errors \subseteq errors',
           \A n \in Nodes : state'[n] \in {"WAITING_BOTH_CHILDREN", "PROCESSING"} =>
               state[n] \in {"WAITING_BOTH_CHILDREN", "PROCESSING"},
           pc[w] # "panicked",
           pc[w] \in NodePCs => \/ pc'[w] \in NodePCs /\ cur'[w] = cur[w]
                                \/ pc'[w] = "panicked"
                                \/ state'[cur[w]] = "READY"
                                \/ "FoldOperationFailed" \in errors'
    PROVE  NodesHeld'
<1> SUFFICES ASSUME NEW n \in Nodes,
                    state'[n] \in {"WAITING_BOTH_CHILDREN", "PROCESSING"},
                    "FoldOperationFailed" \notin errors',
                    \A v \in Workers : pc'[v] # "panicked"
             PROVE  FoldersOf(n)' # {}
  BY DEF NodesHeld
<1>1. PICK v \in Workers : v \in FoldersOf(n)
  BY DEF Control, NodesHeld, FoldersOf, OthersSame, SameLocals
<1>2. \/ \E i \in 1 .. Len(readyQ[v]) : readyQ[v][i] = n
      \/ pc[v] \in NodePCs /\ cur[v] = n
  BY <1>1 DEF FoldersOf, NodePCs
<1>3. v \in FoldersOf(n)'
  BY <1>2 DEF FoldersOf, NodePCs, OthersSame, SameLocals
<1> QED
  BY <1>3

-----------------------------------------------------------------------------
(* Steps of a worker.                                                       *)

\* What is left to show of a step that leaves the queues alone.
LEMMA ControlStep ==
    ASSUME TypeInv, Control, NEW w \in Workers, OthersSame(w), KeepsTask(w), StaysInTurn(w),
           pc[w] \notin {"exited", "panicked"},
           UNCHANGED <<readyQ, leafQ, nextLeaf, main>>,
           stop' # stop => stop' = 1 /\ 0 \in Nodes /\ state'[0] = "READY",
           ChangesPrivate(w), NodesNeverRestart,
           0 \in Nodes /\ state[0] = "READY" => state'[0] = "READY",
           \A t \in Tasks : Private(w, t) \/ bufferId'[t] = bufferId[t],
           \A t \in Tasks : state'[t] = "READY" => bufferId'[t] \in Blocks,
           \A t \in Tasks : ClearedId(t)',
           LeafWorkOf(w)', NodeWorkOf(w)', NotifyWorkOf(w)', BufferIdOf(w)',
           ParentCounts', ChildrenConsumed', NodesHeld', ErrorPaths', OnlyReducerErrors'
    PROVE  Control'
<1>1. OneWorkerPerTask' /\ LeafQueues' /\ FutureLeaves' /\ ReadyQueues'
  BY FrameTasks, FrameLeafQueues, FrameReadyQueues
<1>2. LeafWork' /\ NodeWork' /\ NotifyWork'
  BY FrameWork DEF LeafWork, NodeWork, NotifyWork
<1>3. RootReady'
  BY DEF Control, RootReady
<1>4. MainWaits'
  BY DEF Control, MainWaits
<1>5. BufferIds'
  BY FrameBufferIds DEF BufferIds
<1> QED
  BY <1>1, <1>2, <1>3, <1>4, <1>5 DEF Control

\* What is left to show of a step that leaves the heap alone too.
LEMMA ControlQuietStep ==
    ASSUME TypeInv, Control, NEW w \in Workers, OthersSame(w), KeepsTask(w), StaysInTurn(w),
           pc[w] \notin {"exited", "panicked", "set_consumed", "clear_id"},
           pc'[w] \in NotifyPCs <=> pc[w] \in NotifyPCs,
           UNCHANGED <<state, bufferId, readyQ, leafQ, nextLeaf, main>>,
           stop' # stop => stop' = 1 /\ 0 \in Nodes /\ state[0] = "READY",
           LeafWorkOf(w)', NodeWorkOf(w)', NotifyWorkOf(w)', BufferIdOf(w)',
           pc[w] \in NodePCs => \/ pc'[w] \in NodePCs /\ cur'[w] = cur[w]
                                \/ pc'[w] = "panicked"
                                \/ "FoldOperationFailed" \in errors',
           errors \subseteq errors', ErrorPaths', OnlyReducerErrors'
    PROVE  Control'
<1>1. ChangesPrivate(w) /\ NodesNeverRestart
  BY DEF ChangesPrivate, NodesNeverRestart
<1>2. \A t \in Tasks : state'[t] = "READY" => bufferId'[t] \in Blocks
  BY DEF Control, BufferIds
<1>3. \A t \in Tasks : ClearedId(t)'
  BY FrameClearedIds
<1>4. ParentCounts'
  <2>1. \A t \in Tasks : Done(t)' <=> Done(t)
    BY DEF Done
  <2>2. \A n \in Nodes : \A c \in Children(n) : state[c] = "READY" => state'[c] = "READY"
    OBVIOUS
  <2>3. pc'[w] \in NotifyPCs => cur'[w] = cur[w]
    BY BusyKinds DEF KeepsTask
  <2> QED
    BY <2>1, <2>2, <2>3, FrameParentCounts
<1>5. ChildrenConsumed'
  BY DEF Control, ChildrenConsumed
<1>6. NodesHeld'
  BY FrameNodesHeld
<1> QED
  BY <1>1, <1>2, <1>3, <1>4, <1>5, <1>6, ControlStep

\* A child that is about to be claimed is published, with its buffer.
LEMMA ClaimedChild ==
    ASSUME TypeInv, Control, NEW w \in Workers, pc[w] \in ClaimPCs
    PROVE  state[child[w]] = "READY" /\ bufferId[child[w]] \in Blocks
<1>1. pc[w] \in NodePCs /\ pc[w] \in ChildPCs
  BY DEF NodePCs, ChildPCs
<1>2. cur[w] \in Nodes /\ child[w] \in Children(cur[w]) /\ child[w] \in Tasks
  BY <1>1, BusyTask
<1>3. ChildWork(w, child[w]) /\ ~Passed(w, child[w])
  BY <1>1, <1>2 DEF Control, NodeWork, NodeWorkOf, Passed, AtLeft
<1>4. state[child[w]] = "READY"
  BY <1>3 DEF ChildWork
<1> QED
  BY <1>2, <1>4 DEF Control, BufferIds

\* Reading stop at the head of the worker loop keeps the control invariant.
LEMMA ControlCheckStop ==
    ASSUME TypeInv, Control, NEW w \in Workers, CheckStop(w)
    PROVE  Control'
<1>1. /\ OthersSame(w) /\ KeepsTask(w) /\ StaysInTurn(w)
      /\ pc[w] \notin {"exited", "panicked", "set_consumed", "clear_id"}
      /\ pc'[w] \in NotifyPCs <=> pc[w] \in NotifyPCs
      /\ pc[w] \in NodePCs => \/ pc'[w] \in NodePCs /\ cur'[w] = cur[w]
                           \/ "FoldOperationFailed" \in errors'
  BY DEF TypeInv, TypeOK, TypeThreads, TypeLocals, CheckStop, OthersSame, SameLocals,
     KeepsTask, StaysInTurn, BusyPCs, LeafPCs, NodePCs, NotifyPCs, LeafHoldPCs,
     ClaimPCs, BothHoldPCs, ResultHoldPCs
<1>2. LeafWorkOf(w)' /\ NodeWorkOf(w)' /\ NotifyWorkOf(w)' /\ BufferIdOf(w)'
  BY BusyTask DEF TypeInv, TypeOK, TypeThreads, TypeLocals, Control, LeafWork,
     NodeWork, NotifyWork, BufferIds, CheckStop, LeafWorkOf, NodeWorkOf, NotifyWorkOf,
     BufferIdOf, ChildWork, Passed, AtLeft, BusyPCs, LeafPCs, NodePCs, NotifyPCs,
     LeafHoldPCs, ClaimPCs, BothHoldPCs, ResultHoldPCs
<1>3. errors \subseteq errors' /\ ErrorPaths' /\ OnlyReducerErrors'
  BY DEF TypeInv, TypeOK, TypeThreads, Control, ErrorPaths, OnlyReducerErrors,
     CheckStop
<1> QED
  BY <1>1, <1>2, <1>3, ControlQuietStep DEF CheckStop

\* Yielding with both queues empty keeps the control invariant.
LEMMA ControlYield ==
    ASSUME TypeInv, Control, NEW w \in Workers, Yield(w)
    PROVE  Control'
<1>1. /\ OthersSame(w) /\ KeepsTask(w) /\ StaysInTurn(w)
      /\ pc[w] \notin {"exited", "panicked", "set_consumed", "clear_id"}
      /\ pc'[w] \in NotifyPCs <=> pc[w] \in NotifyPCs
      /\ pc[w] \in NodePCs => \/ pc'[w] \in NodePCs /\ cur'[w] = cur[w]
                           \/ "FoldOperationFailed" \in errors'
  BY DEF TypeInv, TypeOK, TypeThreads, TypeLocals, Yield, OthersSame, SameLocals,
     KeepsTask, StaysInTurn, BusyPCs, LeafPCs, NodePCs, NotifyPCs, LeafHoldPCs,
     ClaimPCs, BothHoldPCs, ResultHoldPCs
<1>2. LeafWorkOf(w)' /\ NodeWorkOf(w)' /\ NotifyWorkOf(w)' /\ BufferIdOf(w)'
  BY BusyTask DEF TypeInv, TypeOK, TypeThreads, TypeLocals, Control, LeafWork,
     NodeWork, NotifyWork, BufferIds, Yield, LeafWorkOf, NodeWorkOf, NotifyWorkOf,
     BufferIdOf, ChildWork, Passed, AtLeft, BusyPCs, LeafPCs, NodePCs, NotifyPCs,
     LeafHoldPCs, ClaimPCs, BothHoldPCs, ResultHoldPCs
<1>3. errors \subseteq errors' /\ ErrorPaths' /\ OnlyReducerErrors'
  BY DEF TypeInv, TypeOK, TypeThreads, Control, ErrorPaths, OnlyReducerErrors, Yield
<1> QED
  BY <1>1, <1>2, <1>3, ControlQuietStep DEF Yield

\* Taking a block from the pool keeps the control invariant.
LEMMA ControlAlloc ==
    ASSUME TypeInv, Control, NEW w \in Workers, Alloc(w)
    PROVE  Control'
<1>1. /\ OthersSame(w) /\ KeepsTask(w) /\ StaysInTurn(w)
      /\ pc[w] \notin {"exited", "panicked", "set_consumed", "clear_id"}
      /\ pc'[w] \in NotifyPCs <=> pc[w] \in NotifyPCs
      /\ pc[w] \in NodePCs => \/ pc'[w] \in NodePCs /\ cur'[w] = cur[w]
                           \/ "FoldOperationFailed" \in errors'
  BY DEF TypeInv, TypeOK, TypeThreads, TypeLocals, Alloc, OthersSame, SameLocals,
     KeepsTask, StaysInTurn, BusyPCs, LeafPCs, NodePCs, NotifyPCs, LeafHoldPCs,
     ClaimPCs, BothHoldPCs, ResultHoldPCs
<1>2. LeafWorkOf(w)' /\ NodeWorkOf(w)' /\ NotifyWorkOf(w)' /\ BufferIdOf(w)'
  BY BusyTask DEF TypeInv, TypeOK, TypeThreads, TypeLocals, Control, LeafWork,
     NodeWork, NotifyWork, BufferIds, Alloc, LeafWorkOf, NodeWorkOf, NotifyWorkOf,
     BufferIdOf, ChildWork, Passed, AtLeft, BusyPCs, LeafPCs, NodePCs, NotifyPCs,
     LeafHoldPCs, ClaimPCs, BothHoldPCs, ResultHoldPCs
<1>3. errors \subseteq errors' /\ ErrorPaths' /\ OnlyReducerErrors'
  BY DEF TypeInv, TypeOK, TypeThreads, Control, ErrorPaths, OnlyReducerErrors, Alloc
<1> QED
  BY <1>1, <1>2, <1>3, ControlQuietStep DEF Alloc

\* A leaf conversion that succeeds keeps the control invariant.
LEMMA ControlConvert ==
    ASSUME TypeInv, Control, NEW w \in Workers, Convert(w)
    PROVE  Control'
<1>1. /\ OthersSame(w) /\ KeepsTask(w) /\ StaysInTurn(w)
      /\ pc[w] \notin {"exited", "panicked", "set_consumed", "clear_id"}
      /\ pc'[w] \in NotifyPCs <=> pc[w] \in NotifyPCs
      /\ pc[w] \in NodePCs => \/ pc'[w] \in NodePCs /\ cur'[w] = cur[w]
                           \/ "FoldOperationFailed" \in errors'
  BY DEF TypeInv, TypeOK, TypeThreads, TypeLocals, Convert, OthersSame, SameLocals,
     KeepsTask, StaysInTurn, BusyPCs, LeafPCs, NodePCs, NotifyPCs, LeafHoldPCs,
     ClaimPCs, BothHoldPCs, ResultHoldPCs
<1>2. LeafWorkOf(w)' /\ NodeWorkOf(w)' /\ NotifyWorkOf(w)' /\ BufferIdOf(w)'
  BY BusyTask DEF TypeInv, TypeOK, TypeThreads, TypeLocals, Control, LeafWork,
     NodeWork, NotifyWork, BufferIds, Convert, LeafWorkOf, NodeWorkOf, NotifyWorkOf,
     BufferIdOf, ChildWork, Passed, AtLeft, BusyPCs, LeafPCs, NodePCs, NotifyPCs,
     LeafHoldPCs, ClaimPCs, BothHoldPCs, ResultHoldPCs
<1>3. errors \subseteq errors' /\ ErrorPaths' /\ OnlyReducerErrors'
  BY DEF TypeInv, TypeOK, TypeThreads, Control, ErrorPaths, OnlyReducerErrors,
     Convert
<1> QED
  BY <1>1, <1>2, <1>3, ControlQuietStep DEF Convert

\* A leaf conversion that fails keeps the control invariant.
LEMMA ControlConvertFails ==
    ASSUME TypeInv, Control, NEW w \in Workers, ConvertFails(w)
    PROVE  Control'
<1>1. /\ OthersSame(w) /\ KeepsTask(w) /\ StaysInTurn(w)
      /\ pc[w] \notin {"exited", "panicked", "set_consumed", "clear_id"}
      /\ pc'[w] \in NotifyPCs <=> pc[w] \in NotifyPCs
      /\ pc[w] \in NodePCs => \/ pc'[w] \in NodePCs /\ cur'[w] = cur[w]
                           \/ "FoldOperationFailed" \in errors'
  BY DEF TypeInv, TypeOK, TypeThreads, TypeLocals, ConvertFails, OthersSame,
     SameLocals, KeepsTask, StaysInTurn, BusyPCs, LeafPCs, NodePCs, NotifyPCs,
     LeafHoldPCs, ClaimPCs, BothHoldPCs, ResultHoldPCs
<1>2. LeafWorkOf(w)' /\ NodeWorkOf(w)' /\ NotifyWorkOf(w)' /\ BufferIdOf(w)'
  BY BusyTask DEF TypeInv, TypeOK, TypeThreads, TypeLocals, Control, LeafWork,
     NodeWork, NotifyWork, BufferIds, ConvertFails, LeafWorkOf, NodeWorkOf,
     NotifyWorkOf, BufferIdOf, ChildWork, Passed, AtLeft, BusyPCs, LeafPCs, NodePCs,
     NotifyPCs, LeafHoldPCs, ClaimPCs, BothHoldPCs, ResultHoldPCs
<1>3. errors \subseteq errors' /\ ErrorPaths' /\ OnlyReducerErrors'
  BY DEF TypeInv, TypeOK, TypeThreads, Control, ErrorPaths, OnlyReducerErrors,
     ConvertFails
<1> QED
  BY <1>1, <1>2, <1>3, ControlQuietStep DEF ConvertFails

\* The release of a failed leaf's buffer keeps the control invariant.
LEMMA ControlLeafReleaseBuffer ==
    ASSUME TypeInv, Control, NEW w \in Workers, LeafReleaseBuffer(w)
    PROVE  Control'
<1>1. /\ OthersSame(w) /\ KeepsTask(w) /\ StaysInTurn(w)
      /\ pc[w] \notin {"exited", "panicked", "set_consumed", "clear_id"}
      /\ pc'[w] \in NotifyPCs <=> pc[w] \in NotifyPCs
      /\ pc[w] \in NodePCs => \/ pc'[w] \in NodePCs /\ cur'[w] = cur[w]
                           \/ "FoldOperationFailed" \in errors'
  BY DEF TypeInv, TypeOK, TypeThreads, TypeLocals, LeafReleaseBuffer, Fail, Return,
     OthersSame, SameLocals, KeepsTask, StaysInTurn, BusyPCs, LeafPCs, NodePCs,
     NotifyPCs, LeafHoldPCs, ClaimPCs, BothHoldPCs, ResultHoldPCs
<1>2. LeafWorkOf(w)' /\ NodeWorkOf(w)' /\ NotifyWorkOf(w)' /\ BufferIdOf(w)'
  BY BusyTask DEF TypeInv, TypeOK, TypeThreads, TypeLocals, Control, LeafWork,
     NodeWork, NotifyWork, BufferIds, LeafReleaseBuffer, Fail, Return, LeafWorkOf,
     NodeWorkOf, NotifyWorkOf, BufferIdOf, ChildWork, Passed, AtLeft, BusyPCs, LeafPCs,
     NodePCs, NotifyPCs, LeafHoldPCs, ClaimPCs, BothHoldPCs, ResultHoldPCs
<1>3. errors \subseteq errors' /\ ErrorPaths' /\ OnlyReducerErrors'
  BY DEF TypeInv, TypeOK, TypeThreads, Control, ErrorPaths, OnlyReducerErrors,
     LeafReleaseBuffer, Fail, Return
<1> QED
  BY <1>1, <1>2, <1>3, ControlQuietStep DEF LeafReleaseBuffer

\* BufHandle::write keeps the control invariant.
LEMMA ControlWriteResult ==
    ASSUME TypeInv, Control, NEW w \in Workers, WriteResult(w)
    PROVE  Control'
<1>1. /\ OthersSame(w) /\ KeepsTask(w) /\ StaysInTurn(w)
      /\ pc[w] \notin {"exited", "panicked", "set_consumed", "clear_id"}
      /\ pc'[w] \in NotifyPCs <=> pc[w] \in NotifyPCs
      /\ pc[w] \in NodePCs => \/ pc'[w] \in NodePCs /\ cur'[w] = cur[w]
                           \/ "FoldOperationFailed" \in errors'
  BY DEF TypeInv, TypeOK, TypeThreads, TypeLocals, WriteResult, OthersSame,
     SameLocals, KeepsTask, StaysInTurn, BusyPCs, LeafPCs, NodePCs, NotifyPCs,
     LeafHoldPCs, ClaimPCs, BothHoldPCs, ResultHoldPCs
<1>2. LeafWorkOf(w)' /\ NodeWorkOf(w)' /\ NotifyWorkOf(w)' /\ BufferIdOf(w)'
  BY BusyTask DEF TypeInv, TypeOK, TypeThreads, TypeLocals, Control, LeafWork,
     NodeWork, NotifyWork, BufferIds, WriteResult, LeafWorkOf, NodeWorkOf, NotifyWorkOf,
     BufferIdOf, ChildWork, Passed, AtLeft, BusyPCs, LeafPCs, NodePCs, NotifyPCs,
     LeafHoldPCs, ClaimPCs, BothHoldPCs, ResultHoldPCs
<1>3. errors \subseteq errors' /\ ErrorPaths' /\ OnlyReducerErrors'
  BY DEF TypeInv, TypeOK, TypeThreads, Control, ErrorPaths, OnlyReducerErrors,
     WriteResult
<1> QED
  BY <1>1, <1>2, <1>3, ControlQuietStep DEF WriteResult

\* The check of a node's state at the start of process_ready_inner_node always
\* succeeds, and keeps the control invariant.
LEMMA ControlNodeCheckState ==
    ASSUME TypeInv, Control, NEW w \in Workers, NodeCheckState(w)
    PROVE  Control'
<1>1. state[cur[w]] = "WAITING_BOTH_CHILDREN"
  BY DEF Control, NodeWork, NodeWorkOf, NodeCheckState, NodePCs
<1>2. /\ OthersSame(w) /\ KeepsTask(w) /\ StaysInTurn(w)
      /\ pc[w] \notin {"exited", "panicked", "set_consumed", "clear_id"}
      /\ pc'[w] \in NotifyPCs <=> pc[w] \in NotifyPCs
      /\ pc[w] \in NodePCs => \/ pc'[w] \in NodePCs /\ cur'[w] = cur[w]
                           \/ "FoldOperationFailed" \in errors'
  BY <1>1 DEF TypeInv, TypeOK, TypeThreads, TypeLocals, NodeCheckState, OthersSame,
     SameLocals, KeepsTask, StaysInTurn, BusyPCs, LeafPCs, NodePCs, NotifyPCs,
     LeafHoldPCs, ClaimPCs, BothHoldPCs, ResultHoldPCs
<1>3. LeafWorkOf(w)' /\ NodeWorkOf(w)' /\ NotifyWorkOf(w)' /\ BufferIdOf(w)'
  BY <1>1, BusyTask DEF TypeInv, TypeOK, TypeThreads, TypeLocals, Control, LeafWork,
     NodeWork, NotifyWork, BufferIds, NodeCheckState, LeafWorkOf, NodeWorkOf,
     NotifyWorkOf, BufferIdOf, ChildWork, Passed, AtLeft, BusyPCs, LeafPCs, NodePCs,
     NotifyPCs, LeafHoldPCs, ClaimPCs, BothHoldPCs, ResultHoldPCs
<1>4. errors \subseteq errors' /\ ErrorPaths' /\ OnlyReducerErrors'
  BY <1>1 DEF TypeInv, TypeOK, TypeThreads, Control, ErrorPaths, OnlyReducerErrors,
     NodeCheckState
<1> QED
  BY <1>1, <1>2, <1>3, <1>4, ControlQuietStep DEF NodeCheckState

\* The first load of get_buf_id_if_ready finds the child ready, and keeps the
\* control invariant.
LEMMA ControlConsumeIsReady ==
    ASSUME TypeInv, Control, NEW w \in Workers, ConsumeIsReady(w)
    PROVE  Control'
<1>1. state[child[w]] = "READY"
  BY BusyTask, ClaimedChild DEF ConsumeIsReady, ClaimPCs
<1>2. /\ OthersSame(w) /\ KeepsTask(w) /\ StaysInTurn(w)
      /\ pc[w] \notin {"exited", "panicked", "set_consumed", "clear_id"}
      /\ pc'[w] \in NotifyPCs <=> pc[w] \in NotifyPCs
      /\ pc[w] \in NodePCs => \/ pc'[w] \in NodePCs /\ cur'[w] = cur[w]
                           \/ "FoldOperationFailed" \in errors'
  BY <1>1 DEF TypeInv, TypeOK, TypeThreads, TypeLocals, ConsumeIsReady, OthersSame,
     SameLocals, KeepsTask, StaysInTurn, BusyPCs, LeafPCs, NodePCs, NotifyPCs,
     LeafHoldPCs, ClaimPCs, BothHoldPCs, ResultHoldPCs
<1>3. LeafWorkOf(w)' /\ NodeWorkOf(w)' /\ NotifyWorkOf(w)' /\ BufferIdOf(w)'
  BY <1>1, BusyTask DEF TypeInv, TypeOK, TypeThreads, TypeLocals, Control, LeafWork,
     NodeWork, NotifyWork, BufferIds, ConsumeIsReady, LeafWorkOf, NodeWorkOf,
     NotifyWorkOf, BufferIdOf, ChildWork, Passed, AtLeft, BusyPCs, LeafPCs, NodePCs,
     NotifyPCs, LeafHoldPCs, ClaimPCs, BothHoldPCs, ResultHoldPCs
<1>4. errors \subseteq errors' /\ ErrorPaths' /\ OnlyReducerErrors'
  BY <1>1 DEF TypeInv, TypeOK, TypeThreads, Control, ErrorPaths, OnlyReducerErrors,
     ConsumeIsReady
<1> QED
  BY <1>1, <1>2, <1>3, <1>4, ControlQuietStep DEF ConsumeIsReady

\* The second load of get_buf_id_if_ready finds a buffer id, and keeps the control
\* invariant.
LEMMA ControlConsumeLoadId ==
    ASSUME TypeInv, Control, NEW w \in Workers, ConsumeLoadId(w)
    PROVE  Control'
<1>1. bufferId[child[w]] >= 0
  BY BusyTask, ClaimedChild DEF ConsumeLoadId, ClaimPCs, Blocks
<1>2. /\ OthersSame(w) /\ KeepsTask(w) /\ StaysInTurn(w)
      /\ pc[w] \notin {"exited", "panicked", "set_consumed", "clear_id"}
      /\ pc'[w] \in NotifyPCs <=> pc[w] \in NotifyPCs
      /\ pc[w] \in NodePCs => \/ pc'[w] \in NodePCs /\ cur'[w] = cur[w]
                           \/ "FoldOperationFailed" \in errors'
  BY <1>1 DEF TypeInv, TypeOK, TypeThreads, TypeLocals, ConsumeLoadId, OthersSame,
     SameLocals, KeepsTask, StaysInTurn, BusyPCs, LeafPCs, NodePCs, NotifyPCs,
     LeafHoldPCs, ClaimPCs, BothHoldPCs, ResultHoldPCs
<1>3. LeafWorkOf(w)' /\ NodeWorkOf(w)' /\ NotifyWorkOf(w)' /\ BufferIdOf(w)'
  BY <1>1, BusyTask DEF TypeInv, TypeOK, TypeThreads, TypeLocals, Control, LeafWork,
     NodeWork, NotifyWork, BufferIds, ConsumeLoadId, LeafWorkOf, NodeWorkOf,
     NotifyWorkOf, BufferIdOf, ChildWork, Passed, AtLeft, BusyPCs, LeafPCs, NodePCs,
     NotifyPCs, LeafHoldPCs, ClaimPCs, BothHoldPCs, ResultHoldPCs
<1>4. errors \subseteq errors' /\ ErrorPaths' /\ OnlyReducerErrors'
  BY <1>1 DEF TypeInv, TypeOK, TypeThreads, Control, ErrorPaths, OnlyReducerErrors,
     ConsumeLoadId
<1> QED
  BY <1>1, <1>2, <1>3, <1>4, ControlQuietStep DEF ConsumeLoadId

\* BufHandle::read of a child's accumulator keeps the control invariant.
LEMMA ControlReadChild ==
    ASSUME TypeInv, Control, NEW w \in Workers, ReadChild(w)
    PROVE  Control'
<1>1. /\ OthersSame(w) /\ KeepsTask(w) /\ StaysInTurn(w)
      /\ pc[w] \notin {"exited", "panicked", "set_consumed", "clear_id"}
      /\ pc'[w] \in NotifyPCs <=> pc[w] \in NotifyPCs
      /\ pc[w] \in NodePCs => \/ pc'[w] \in NodePCs /\ cur'[w] = cur[w]
                           \/ pc'[w] = "panicked"
                           \/ "FoldOperationFailed" \in errors'
  BY DEF TypeInv, TypeOK, TypeThreads, TypeLocals, ReadChild, OthersSame, SameLocals,
     KeepsTask, StaysInTurn, BusyPCs, LeafPCs, NodePCs, NotifyPCs, LeafHoldPCs,
     ClaimPCs, BothHoldPCs, ResultHoldPCs
<1>2. LeafWorkOf(w)' /\ NodeWorkOf(w)' /\ NotifyWorkOf(w)' /\ BufferIdOf(w)'
  BY BusyTask DEF TypeInv, TypeOK, TypeThreads, TypeLocals, Control, LeafWork,
     NodeWork, NotifyWork, BufferIds, ReadChild, LeafWorkOf, NodeWorkOf, NotifyWorkOf,
     BufferIdOf, ChildWork, Passed, AtLeft, BusyPCs, LeafPCs, NodePCs, NotifyPCs,
     LeafHoldPCs, ClaimPCs, BothHoldPCs, ResultHoldPCs
<1>3. errors \subseteq errors' /\ ErrorPaths' /\ OnlyReducerErrors'
  BY DEF TypeInv, TypeOK, TypeThreads, Control, ErrorPaths, OnlyReducerErrors,
     ReadChild
<1> QED
  BY <1>1, <1>2, <1>3, ControlQuietStep DEF ReadChild

\* A fold that succeeds keeps the control invariant.
LEMMA ControlFoldAccAcc ==
    ASSUME TypeInv, Control, NEW w \in Workers, FoldAccAcc(w)
    PROVE  Control'
<1>1. /\ OthersSame(w) /\ KeepsTask(w) /\ StaysInTurn(w)
      /\ pc[w] \notin {"exited", "panicked", "set_consumed", "clear_id"}
      /\ pc'[w] \in NotifyPCs <=> pc[w] \in NotifyPCs
      /\ pc[w] \in NodePCs => \/ pc'[w] \in NodePCs /\ cur'[w] = cur[w]
                           \/ "FoldOperationFailed" \in errors'
  BY DEF TypeInv, TypeOK, TypeThreads, TypeLocals, FoldAccAcc, OthersSame,
     SameLocals, KeepsTask, StaysInTurn, BusyPCs, LeafPCs, NodePCs, NotifyPCs,
     LeafHoldPCs, ClaimPCs, BothHoldPCs, ResultHoldPCs
<1>2. LeafWorkOf(w)' /\ NodeWorkOf(w)' /\ NotifyWorkOf(w)' /\ BufferIdOf(w)'
  BY BusyTask DEF TypeInv, TypeOK, TypeThreads, TypeLocals, Control, LeafWork,
     NodeWork, NotifyWork, BufferIds, FoldAccAcc, LeafWorkOf, NodeWorkOf, NotifyWorkOf,
     BufferIdOf, ChildWork, Passed, AtLeft, BusyPCs, LeafPCs, NodePCs, NotifyPCs,
     LeafHoldPCs, ClaimPCs, BothHoldPCs, ResultHoldPCs
<1>3. errors \subseteq errors' /\ ErrorPaths' /\ OnlyReducerErrors'
  BY DEF TypeInv, TypeOK, TypeThreads, Control, ErrorPaths, OnlyReducerErrors,
     FoldAccAcc
<1> QED
  BY <1>1, <1>2, <1>3, ControlQuietStep DEF FoldAccAcc

\* A fold that fails keeps the control invariant.
LEMMA ControlFoldFails ==
    ASSUME TypeInv, Control, NEW w \in Workers, FoldFails(w)
    PROVE  Control'
<1>1. /\ OthersSame(w) /\ KeepsTask(w) /\ StaysInTurn(w)
      /\ pc[w] \notin {"exited", "panicked", "set_consumed", "clear_id"}
      /\ pc'[w] \in NotifyPCs <=> pc[w] \in NotifyPCs
      /\ pc[w] \in NodePCs => \/ pc'[w] \in NodePCs /\ cur'[w] = cur[w]
                           \/ "FoldOperationFailed" \in errors'
  BY DEF TypeInv, TypeOK, TypeThreads, TypeLocals, FoldFails, OthersSame, SameLocals,
     KeepsTask, StaysInTurn, BusyPCs, LeafPCs, NodePCs, NotifyPCs, LeafHoldPCs,
     ClaimPCs, BothHoldPCs, ResultHoldPCs
<1>2. LeafWorkOf(w)' /\ NodeWorkOf(w)' /\ NotifyWorkOf(w)' /\ BufferIdOf(w)'
  BY BusyTask DEF TypeInv, TypeOK, TypeThreads, TypeLocals, Control, LeafWork,
     NodeWork, NotifyWork, BufferIds, FoldFails, LeafWorkOf, NodeWorkOf, NotifyWorkOf,
     BufferIdOf, ChildWork, Passed, AtLeft, BusyPCs, LeafPCs, NodePCs, NotifyPCs,
     LeafHoldPCs, ClaimPCs, BothHoldPCs, ResultHoldPCs
<1>3. errors \subseteq errors' /\ ErrorPaths' /\ OnlyReducerErrors'
  BY DEF TypeInv, TypeOK, TypeThreads, Control, ErrorPaths, OnlyReducerErrors,
     FoldFails
<1> QED
  BY <1>1, <1>2, <1>3, ControlQuietStep DEF FoldFails

\* The first release after a failed fold keeps the control invariant.
LEMMA ControlFoldFailsReleaseLeft ==
    ASSUME TypeInv, Control, NEW w \in Workers, FoldFailsReleaseLeft(w)
    PROVE  Control'
<1>1. /\ OthersSame(w) /\ KeepsTask(w) /\ StaysInTurn(w)
      /\ pc[w] \notin {"exited", "panicked", "set_consumed", "clear_id"}
      /\ pc'[w] \in NotifyPCs <=> pc[w] \in NotifyPCs
      /\ pc[w] \in NodePCs => \/ pc'[w] \in NodePCs /\ cur'[w] = cur[w]
                           \/ "FoldOperationFailed" \in errors'
  BY DEF TypeInv, TypeOK, TypeThreads, TypeLocals, FoldFailsReleaseLeft, OthersSame,
     SameLocals, KeepsTask, StaysInTurn, BusyPCs, LeafPCs, NodePCs, NotifyPCs,
     LeafHoldPCs, ClaimPCs, BothHoldPCs, ResultHoldPCs
<1>2. LeafWorkOf(w)' /\ NodeWorkOf(w)' /\ NotifyWorkOf(w)' /\ BufferIdOf(w)'
  BY BusyTask DEF TypeInv, TypeOK, TypeThreads, TypeLocals, Control, LeafWork,
     NodeWork, NotifyWork, BufferIds, FoldFailsReleaseLeft, LeafWorkOf, NodeWorkOf,
     NotifyWorkOf, BufferIdOf, ChildWork, Passed, AtLeft, BusyPCs, LeafPCs, NodePCs,
     NotifyPCs, LeafHoldPCs, ClaimPCs, BothHoldPCs, ResultHoldPCs
<1>3. errors \subseteq errors' /\ ErrorPaths' /\ OnlyReducerErrors'
  BY DEF TypeInv, TypeOK, TypeThreads, Control, ErrorPaths, OnlyReducerErrors,
     FoldFailsReleaseLeft
<1> QED
  BY <1>1, <1>2, <1>3, ControlQuietStep DEF FoldFailsReleaseLeft

\* The second release after a failed fold keeps the control invariant: it is the
\* only way a node that waits leaves a worker's hands unpublished.
LEMMA ControlFoldFailsReleaseRight ==
    ASSUME TypeInv, Control, NEW w \in Workers, FoldFailsReleaseRight(w)
    PROVE  Control'
<1>1. /\ OthersSame(w) /\ KeepsTask(w) /\ StaysInTurn(w)
      /\ pc[w] \notin {"exited", "panicked", "set_consumed", "clear_id"}
      /\ pc'[w] \in NotifyPCs <=> pc[w] \in NotifyPCs
      /\ pc[w] \in NodePCs => \/ pc'[w] \in NodePCs /\ cur'[w] = cur[w]
                           \/ "FoldOperationFailed" \in errors'
  BY DEF TypeInv, TypeOK, TypeThreads, TypeLocals, FoldFailsReleaseRight, Fail,
     Return, OthersSame, SameLocals, KeepsTask, StaysInTurn, BusyPCs, LeafPCs, NodePCs,
     NotifyPCs, LeafHoldPCs, ClaimPCs, BothHoldPCs, ResultHoldPCs
<1>2. LeafWorkOf(w)' /\ NodeWorkOf(w)' /\ NotifyWorkOf(w)' /\ BufferIdOf(w)'
  BY BusyTask DEF TypeInv, TypeOK, TypeThreads, TypeLocals, Control, LeafWork,
     NodeWork, NotifyWork, BufferIds, FoldFailsReleaseRight, Fail, Return, LeafWorkOf,
     NodeWorkOf, NotifyWorkOf, BufferIdOf, ChildWork, Passed, AtLeft, BusyPCs, LeafPCs,
     NodePCs, NotifyPCs, LeafHoldPCs, ClaimPCs, BothHoldPCs, ResultHoldPCs
<1>3. errors \subseteq errors' /\ ErrorPaths' /\ OnlyReducerErrors'
  BY DEF TypeInv, TypeOK, TypeThreads, Control, ErrorPaths, OnlyReducerErrors,
     FoldFailsReleaseRight, Fail, Return
<1> QED
  BY <1>1, <1>2, <1>3, ControlQuietStep DEF FoldFailsReleaseRight

\* The release of the right child's buffer keeps the control invariant.
LEMMA ControlReleaseRight ==
    ASSUME TypeInv, Control, NEW w \in Workers, ReleaseRight(w)
    PROVE  Control'
<1>1. /\ OthersSame(w) /\ KeepsTask(w) /\ StaysInTurn(w)
      /\ pc[w] \notin {"exited", "panicked", "set_consumed", "clear_id"}
      /\ pc'[w] \in NotifyPCs <=> pc[w] \in NotifyPCs
      /\ pc[w] \in NodePCs => \/ pc'[w] \in NodePCs /\ cur'[w] = cur[w]
                           \/ "FoldOperationFailed" \in errors'
  BY DEF TypeInv, TypeOK, TypeThreads, TypeLocals, ReleaseRight, OthersSame,
     SameLocals, KeepsTask, StaysInTurn, BusyPCs, LeafPCs, NodePCs, NotifyPCs,
     LeafHoldPCs, ClaimPCs, BothHoldPCs, ResultHoldPCs
<1>2. LeafWorkOf(w)' /\ NodeWorkOf(w)' /\ NotifyWorkOf(w)' /\ BufferIdOf(w)'
  BY BusyTask DEF TypeInv, TypeOK, TypeThreads, TypeLocals, Control, LeafWork,
     NodeWork, NotifyWork, BufferIds, ReleaseRight, LeafWorkOf, NodeWorkOf,
     NotifyWorkOf, BufferIdOf, ChildWork, Passed, AtLeft, BusyPCs, LeafPCs, NodePCs,
     NotifyPCs, LeafHoldPCs, ClaimPCs, BothHoldPCs, ResultHoldPCs
<1>3. errors \subseteq errors' /\ ErrorPaths' /\ OnlyReducerErrors'
  BY DEF TypeInv, TypeOK, TypeThreads, Control, ErrorPaths, OnlyReducerErrors,
     ReleaseRight
<1> QED
  BY <1>1, <1>2, <1>3, ControlQuietStep DEF ReleaseRight

\* The parent of a child that a worker claims, reads or consumes is past both reports.
LEMMA ParentIsWaiting ==
    ASSUME TypeInv, Control, NEW w \in Workers, pc[w] \in NodePCs,
           NEW c \in Children(cur[w]), NEW n \in Nodes, c \in Children(n)
    PROVE  n = cur[w] /\ state[n] \in {"WAITING_BOTH_CHILDREN", "PROCESSING"}
BY BusyTask, HeapSiblings, ChildStates

\* The store of buffer_id that precedes a compare-exchange keeps the control invariant.
LEMMA ControlStoreBufferId ==
    ASSUME TypeInv, TypeInv', Control, NEW w \in Workers, StoreBufferId(w)
    PROVE  Control'
<1>1. /\ OthersSame(w) /\ KeepsTask(w) /\ StaysInTurn(w)
      /\ pc[w] \notin {"exited", "panicked"}
  BY DEF TypeInv, TypeOK, TypeThreads, TypeLocals, StoreBufferId, OthersSame,
     SameLocals, KeepsTask, StaysInTurn, BusyPCs, LeafPCs, NodePCs, NotifyPCs,
     LeafHoldPCs, ClaimPCs, BothHoldPCs, ResultHoldPCs
<1>2. Private(w, cur[w]) /\ cur[w] \in Tasks
  BY PrivateCur, BusyTask DEF StoreBufferId, LeafPCs, NodePCs, LeafHoldPCs,
     ResultHoldPCs
<1>3. pc[w] \in LeafPCs \cup NodePCs
  BY BusyTask DEF StoreBufferId, BusyPCs, LeafPCs, NodePCs, NotifyPCs, LeafHoldPCs,
     ClaimPCs, BothHoldPCs, ResultHoldPCs
<1>4. state' = state /\ bufferId'[cur[w]] = lbuf[w]
      /\ \A t \in Tasks : t # cur[w] => bufferId'[t] = bufferId[t]
  BY <1>2 DEF TypeInv, TypeOK, TypeHeap, TypeThreads, TypeLocals, StoreBufferId
<1>5. ChangesPrivate(w) /\ \A t \in Tasks : Private(w, t) \/ bufferId'[t] = bufferId[t]
  BY <1>2, <1>4 DEF ChangesPrivate
<1>6. NodesNeverRestart /\ (0 \in Nodes /\ state[0] = "READY" => state'[0] = "READY")
  BY <1>2, <1>4, <1>3, BusyTask, HeapChildren, HeapLeaves DEF NodesNeverRestart,
     Control, LeafWork, LeafWorkOf, NodeWork, NodeWorkOf
<1>7. \A t \in Tasks : state'[t] = "READY" => bufferId'[t] \in Blocks
  BY <1>2, <1>4, BusyTask, ShapeFacts DEF Control, BufferIds, BufferIdOf, NodeWork,
     NodeWorkOf, ChildWork, LeafWork, LeafWorkOf, StoreBufferId, BusyPCs, LeafPCs,
     NodePCs, NotifyPCs, LeafHoldPCs, ClaimPCs, BothHoldPCs, ResultHoldPCs, ChildPCs
<1>8. \A t \in Tasks : ClearedId(t)'
  BY <1>1, <1>4, FrameClearedIds, BusyTask DEF StoreBufferId, Control, LeafWork,
     LeafWorkOf, NodeWork, NodeWorkOf, BusyPCs, LeafPCs, NodePCs, NotifyPCs,
     LeafHoldPCs, ClaimPCs, BothHoldPCs, ResultHoldPCs
<1>9. LeafWorkOf(w)' /\ NodeWorkOf(w)' /\ NotifyWorkOf(w)' /\ BufferIdOf(w)'
  BY BusyTask DEF TypeInv, TypeOK, TypeHeap, TypeThreads, TypeLocals, Control,
     LeafWork, NodeWork, NotifyWork, BufferIds, StoreBufferId, LeafWorkOf, NodeWorkOf,
     NotifyWorkOf, BufferIdOf, ChildWork, Passed, AtLeft, Children, BusyPCs, LeafPCs,
     NodePCs, NotifyPCs, LeafHoldPCs, ClaimPCs, BothHoldPCs, ResultHoldPCs, ChildPCs
<1>10. /\ pc'[w] \in NotifyPCs <=> pc[w] \in NotifyPCs
       /\ pc'[w] \in NotifyPCs => cur'[w] = cur[w]
  BY DEF TypeInv, TypeOK, TypeHeap, TypeThreads, TypeLocals, StoreBufferId,
     NotifyPCs, Fail, Return
<1>11. ParentCounts'
  BY <1>1, <1>10, <1>2, <1>4, <1>3, FrameParentCounts, BusyTask, HeapLeaves,
     HeapChildren DEF Done, Control, LeafWork, LeafWorkOf, NodeWork, NodeWorkOf
<1>12. ChildrenConsumed'
  BY <1>2, <1>4, FrameChildrenConsumed, BusyTask, HeapLeaves DEF Control, LeafWork,
     LeafWorkOf, NodeWork, NodeWorkOf, ChildWork, StoreBufferId, BusyPCs, LeafPCs,
     NodePCs, NotifyPCs, LeafHoldPCs, ClaimPCs, BothHoldPCs, ResultHoldPCs
<1>13. NodesHeld'
  BY <1>1, <1>2, <1>4, FrameNodesHeld, BusyTask, HeapLeaves DEF TypeInv, TypeOK,
     TypeHeap, TypeThreads, TypeLocals, Control, LeafWork, LeafWorkOf, NodeWork,
     NodeWorkOf, StoreBufferId, BusyPCs, LeafPCs, NodePCs, NotifyPCs, LeafHoldPCs,
     ClaimPCs, BothHoldPCs, ResultHoldPCs
<1>14. ErrorPaths' /\ OnlyReducerErrors'
  BY DEF TypeInv, TypeOK, TypeThreads, Control, ErrorPaths, OnlyReducerErrors,
     StoreBufferId
<1> QED
  BY <1>1, <1>2, <1>5, <1>6, <1>7, <1>8, <1>9, <1>11, <1>12, <1>13, <1>14,
     ControlStep DEF StoreBufferId

\* The compare-exchange of LeafTask::try_start_processing succeeds, and keeps the
\* control invariant.
LEMMA ControlLeafStartProcessing ==
    ASSUME TypeInv, TypeInv', Control, NEW w \in Workers, LeafStartProcessing(w)
    PROVE  Control'
<1>1. state[cur[w]] = "NOT_STARTED"
  BY DEF Control, LeafWork, LeafWorkOf, LeafStartProcessing, LeafPCs, LeafHoldPCs
<1>2. /\ OthersSame(w) /\ KeepsTask(w) /\ StaysInTurn(w)
      /\ pc[w] \notin {"exited", "panicked"}
  BY <1>1 DEF TypeInv, TypeOK, TypeThreads, TypeLocals, LeafStartProcessing,
     OthersSame, SameLocals, KeepsTask, StaysInTurn, BusyPCs, LeafPCs, NodePCs,
     NotifyPCs, LeafHoldPCs, ClaimPCs, BothHoldPCs, ResultHoldPCs
<1>3. Private(w, cur[w]) /\ cur[w] \in Tasks
  BY PrivateCur, BusyTask DEF LeafStartProcessing, LeafPCs, LeafHoldPCs
<1>4. pc[w] \in LeafPCs
  BY BusyTask DEF LeafStartProcessing, BusyPCs, LeafPCs, NodePCs, NotifyPCs,
     LeafHoldPCs, ClaimPCs, BothHoldPCs, ResultHoldPCs
<1>5. state'[cur[w]] = "PROCESSING" /\ bufferId' = bufferId
      /\ \A t \in Tasks : t # cur[w] => state'[t] = state[t]
  BY <1>1, <1>3 DEF TypeInv, TypeOK, TypeHeap, TypeThreads, TypeLocals,
     LeafStartProcessing
<1>6. ChangesPrivate(w) /\ \A t \in Tasks : Private(w, t) \/ bufferId'[t] = bufferId[t]
  BY <1>3, <1>5 DEF ChangesPrivate
<1>7. NodesNeverRestart /\ (0 \in Nodes /\ state[0] = "READY" => state'[0] = "READY")
  BY <1>1, <1>3, <1>5, <1>4, BusyTask, HeapChildren, HeapLeaves DEF
     NodesNeverRestart, Control, LeafWork, LeafWorkOf, NodeWork, NodeWorkOf
<1>8. \A t \in Tasks : state'[t] = "READY" => bufferId'[t] \in Blocks
  BY <1>1, <1>3, <1>5, BusyTask, ShapeFacts DEF Control, BufferIds, BufferIdOf,
     NodeWork, NodeWorkOf, ChildWork, LeafWork, LeafWorkOf, LeafStartProcessing,
     BusyPCs, LeafPCs, NodePCs, NotifyPCs, LeafHoldPCs, ClaimPCs, BothHoldPCs,
     ResultHoldPCs, ChildPCs
<1>9. \A t \in Tasks : ClearedId(t)'
  BY <1>2, <1>5, FrameClearedIds DEF LeafStartProcessing
<1>10. LeafWorkOf(w)' /\ NodeWorkOf(w)' /\ NotifyWorkOf(w)' /\ BufferIdOf(w)'
  BY <1>1, BusyTask DEF TypeInv, TypeOK, TypeHeap, TypeThreads, TypeLocals, Control,
     LeafWork, NodeWork, NotifyWork, BufferIds, LeafStartProcessing, LeafWorkOf,
     NodeWorkOf, NotifyWorkOf, BufferIdOf, ChildWork, Passed, AtLeft, Children, BusyPCs,
     LeafPCs, NodePCs, NotifyPCs, LeafHoldPCs, ClaimPCs, BothHoldPCs, ResultHoldPCs,
     ChildPCs
<1>11. /\ pc'[w] \in NotifyPCs <=> pc[w] \in NotifyPCs
       /\ pc'[w] \in NotifyPCs => cur'[w] = cur[w]
  BY <1>1 DEF TypeInv, TypeOK, TypeHeap, TypeThreads, TypeLocals,
     LeafStartProcessing, NotifyPCs, Fail, Return
<1>12. ParentCounts'
  BY <1>1, <1>2, <1>11, <1>3, <1>5, <1>4, FrameParentCounts, BusyTask, HeapLeaves,
     HeapChildren DEF Done, Control, LeafWork, LeafWorkOf, NodeWork, NodeWorkOf
<1>13. ChildrenConsumed'
  BY <1>1, <1>3, <1>5, FrameChildrenConsumed, BusyTask, HeapLeaves DEF Control,
     LeafWork, LeafWorkOf, NodeWork, NodeWorkOf, ChildWork, LeafStartProcessing,
     BusyPCs, LeafPCs, NodePCs, NotifyPCs, LeafHoldPCs, ClaimPCs, BothHoldPCs,
     ResultHoldPCs
<1>14. NodesHeld'
  BY <1>1, <1>2, <1>3, <1>5, FrameNodesHeld, BusyTask, HeapLeaves DEF TypeInv,
     TypeOK, TypeHeap, TypeThreads, TypeLocals, Control, LeafWork, LeafWorkOf, NodeWork,
     NodeWorkOf, LeafStartProcessing, BusyPCs, LeafPCs, NodePCs, NotifyPCs, LeafHoldPCs,
     ClaimPCs, BothHoldPCs, ResultHoldPCs
<1>15. ErrorPaths' /\ OnlyReducerErrors'
  BY <1>1 DEF TypeInv, TypeOK, TypeThreads, Control, ErrorPaths, OnlyReducerErrors,
     LeafStartProcessing
<1> QED
  BY <1>2, <1>3, <1>6, <1>7, <1>8, <1>9, <1>10, <1>12, <1>13, <1>14, <1>15,
     ControlStep DEF LeafStartProcessing

\* Resetting the state of a failed leaf keeps the control invariant.
LEMMA ControlLeafResetState ==
    ASSUME TypeInv, TypeInv', Control, NEW w \in Workers, LeafResetState(w)
    PROVE  Control'
<1>1. /\ OthersSame(w) /\ KeepsTask(w) /\ StaysInTurn(w)
      /\ pc[w] \notin {"exited", "panicked"}
  BY DEF TypeInv, TypeOK, TypeThreads, TypeLocals, LeafResetState, OthersSame,
     SameLocals, KeepsTask, StaysInTurn, BusyPCs, LeafPCs, NodePCs, NotifyPCs,
     LeafHoldPCs, ClaimPCs, BothHoldPCs, ResultHoldPCs
<1>2. Private(w, cur[w]) /\ cur[w] \in Tasks
  BY PrivateCur, BusyTask DEF LeafResetState, LeafPCs, LeafHoldPCs
<1>3. pc[w] \in LeafPCs
  BY BusyTask DEF LeafResetState, BusyPCs, LeafPCs, NodePCs, NotifyPCs, LeafHoldPCs,
     ClaimPCs, BothHoldPCs, ResultHoldPCs
<1>4. state'[cur[w]] = "NOT_STARTED" /\ bufferId' = bufferId
      /\ \A t \in Tasks : t # cur[w] => state'[t] = state[t]
  BY <1>2 DEF TypeInv, TypeOK, TypeHeap, TypeThreads, TypeLocals, LeafResetState
<1>5. ChangesPrivate(w) /\ \A t \in Tasks : Private(w, t) \/ bufferId'[t] = bufferId[t]
  BY <1>2, <1>4 DEF ChangesPrivate
<1>6. NodesNeverRestart /\ (0 \in Nodes /\ state[0] = "READY" => state'[0] = "READY")
  BY <1>2, <1>4, <1>3, BusyTask, HeapChildren, HeapLeaves DEF NodesNeverRestart,
     Control, LeafWork, LeafWorkOf, NodeWork, NodeWorkOf
<1>7. \A t \in Tasks : state'[t] = "READY" => bufferId'[t] \in Blocks
  BY <1>2, <1>4, BusyTask, ShapeFacts DEF Control, BufferIds, BufferIdOf, NodeWork,
     NodeWorkOf, ChildWork, LeafWork, LeafWorkOf, LeafResetState, BusyPCs, LeafPCs,
     NodePCs, NotifyPCs, LeafHoldPCs, ClaimPCs, BothHoldPCs, ResultHoldPCs, ChildPCs
<1>8. \A t \in Tasks : ClearedId(t)'
  BY <1>1, <1>4, FrameClearedIds DEF LeafResetState
<1>9. LeafWorkOf(w)' /\ NodeWorkOf(w)' /\ NotifyWorkOf(w)' /\ BufferIdOf(w)'
  BY BusyTask DEF TypeInv, TypeOK, TypeHeap, TypeThreads, TypeLocals, Control,
     LeafWork, NodeWork, NotifyWork, BufferIds, LeafResetState, LeafWorkOf, NodeWorkOf,
     NotifyWorkOf, BufferIdOf, ChildWork, Passed, AtLeft, Children, BusyPCs, LeafPCs,
     NodePCs, NotifyPCs, LeafHoldPCs, ClaimPCs, BothHoldPCs, ResultHoldPCs, ChildPCs
<1>10. /\ pc'[w] \in NotifyPCs <=> pc[w] \in NotifyPCs
       /\ pc'[w] \in NotifyPCs => cur'[w] = cur[w]
  BY DEF TypeInv, TypeOK, TypeHeap, TypeThreads, TypeLocals, LeafResetState,
     NotifyPCs, Fail, Return
<1>11. ParentCounts'
  BY <1>1, <1>10, <1>2, <1>4, <1>3, FrameParentCounts, BusyTask, HeapLeaves,
     HeapChildren DEF Done, Control, LeafWork, LeafWorkOf, NodeWork, NodeWorkOf
<1>12. ChildrenConsumed'
  BY <1>2, <1>4, FrameChildrenConsumed, BusyTask, HeapLeaves DEF Control, LeafWork,
     LeafWorkOf, NodeWork, NodeWorkOf, ChildWork, LeafResetState, BusyPCs, LeafPCs,
     NodePCs, NotifyPCs, LeafHoldPCs, ClaimPCs, BothHoldPCs, ResultHoldPCs
<1>13. NodesHeld'
  BY <1>1, <1>2, <1>4, FrameNodesHeld, BusyTask, HeapLeaves DEF TypeInv, TypeOK,
     TypeHeap, TypeThreads, TypeLocals, Control, LeafWork, LeafWorkOf, NodeWork,
     NodeWorkOf, LeafResetState, BusyPCs, LeafPCs, NodePCs, NotifyPCs, LeafHoldPCs,
     ClaimPCs, BothHoldPCs, ResultHoldPCs
<1>14. ErrorPaths' /\ OnlyReducerErrors'
  BY DEF TypeInv, TypeOK, TypeThreads, Control, ErrorPaths, OnlyReducerErrors,
     LeafResetState
<1> QED
  BY <1>1, <1>2, <1>5, <1>6, <1>7, <1>8, <1>9, <1>11, <1>12, <1>13, <1>14,
     ControlStep DEF LeafResetState

\* Resetting the buffer id of a failed leaf keeps the control invariant.
LEMMA ControlLeafResetBufferId ==
    ASSUME TypeInv, TypeInv', Control, NEW w \in Workers, LeafResetBufferId(w)
    PROVE  Control'
<1>1. /\ OthersSame(w) /\ KeepsTask(w) /\ StaysInTurn(w)
      /\ pc[w] \notin {"exited", "panicked"}
  BY DEF TypeInv, TypeOK, TypeThreads, TypeLocals, LeafResetBufferId, OthersSame,
     SameLocals, KeepsTask, StaysInTurn, BusyPCs, LeafPCs, NodePCs, NotifyPCs,
     LeafHoldPCs, ClaimPCs, BothHoldPCs, ResultHoldPCs
<1>2. Private(w, cur[w]) /\ cur[w] \in Tasks
  BY PrivateCur, BusyTask DEF LeafResetBufferId, LeafPCs, LeafHoldPCs
<1>3. pc[w] \in LeafPCs
  BY BusyTask DEF LeafResetBufferId, BusyPCs, LeafPCs, NodePCs, NotifyPCs,
     LeafHoldPCs, ClaimPCs, BothHoldPCs, ResultHoldPCs
<1>4. state' = state /\ bufferId'[cur[w]] = NoBuf
      /\ \A t \in Tasks : t # cur[w] => bufferId'[t] = bufferId[t]
  BY <1>2 DEF TypeInv, TypeOK, TypeHeap, TypeThreads, TypeLocals, LeafResetBufferId
<1>5. ChangesPrivate(w) /\ \A t \in Tasks : Private(w, t) \/ bufferId'[t] = bufferId[t]
  BY <1>2, <1>4 DEF ChangesPrivate
<1>6. NodesNeverRestart /\ (0 \in Nodes /\ state[0] = "READY" => state'[0] = "READY")
  BY <1>2, <1>4, <1>3, BusyTask, HeapChildren, HeapLeaves DEF NodesNeverRestart,
     Control, LeafWork, LeafWorkOf, NodeWork, NodeWorkOf
<1>7. \A t \in Tasks : state'[t] = "READY" => bufferId'[t] \in Blocks
  BY <1>2, <1>4, BusyTask, ShapeFacts DEF Control, BufferIds, BufferIdOf, NodeWork,
     NodeWorkOf, ChildWork, LeafWork, LeafWorkOf, LeafResetBufferId, BusyPCs, LeafPCs,
     NodePCs, NotifyPCs, LeafHoldPCs, ClaimPCs, BothHoldPCs, ResultHoldPCs, ChildPCs
<1>8. \A t \in Tasks : ClearedId(t)'
  BY <1>1, <1>4, FrameClearedIds, BusyTask DEF LeafResetBufferId, Control, LeafWork,
     LeafWorkOf, NodeWork, NodeWorkOf, BusyPCs, LeafPCs, NodePCs, NotifyPCs,
     LeafHoldPCs, ClaimPCs, BothHoldPCs, ResultHoldPCs
<1>9. LeafWorkOf(w)' /\ NodeWorkOf(w)' /\ NotifyWorkOf(w)' /\ BufferIdOf(w)'
  BY BusyTask DEF TypeInv, TypeOK, TypeHeap, TypeThreads, TypeLocals, Control,
     LeafWork, NodeWork, NotifyWork, BufferIds, LeafResetBufferId, LeafWorkOf,
     NodeWorkOf, NotifyWorkOf, BufferIdOf, ChildWork, Passed, AtLeft, Children, BusyPCs,
     LeafPCs, NodePCs, NotifyPCs, LeafHoldPCs, ClaimPCs, BothHoldPCs, ResultHoldPCs,
     ChildPCs
<1>10. /\ pc'[w] \in NotifyPCs <=> pc[w] \in NotifyPCs
       /\ pc'[w] \in NotifyPCs => cur'[w] = cur[w]
  BY DEF TypeInv, TypeOK, TypeHeap, TypeThreads, TypeLocals, LeafResetBufferId,
     NotifyPCs, Fail, Return
<1>11. ParentCounts'
  BY <1>1, <1>10, <1>2, <1>4, <1>3, FrameParentCounts, BusyTask, HeapLeaves,
     HeapChildren DEF Done, Control, LeafWork, LeafWorkOf, NodeWork, NodeWorkOf
<1>12. ChildrenConsumed'
  BY <1>2, <1>4, FrameChildrenConsumed, BusyTask, HeapLeaves DEF Control, LeafWork,
     LeafWorkOf, NodeWork, NodeWorkOf, ChildWork, LeafResetBufferId, BusyPCs, LeafPCs,
     NodePCs, NotifyPCs, LeafHoldPCs, ClaimPCs, BothHoldPCs, ResultHoldPCs
<1>13. NodesHeld'
  BY <1>1, <1>2, <1>4, FrameNodesHeld, BusyTask, HeapLeaves DEF TypeInv, TypeOK,
     TypeHeap, TypeThreads, TypeLocals, Control, LeafWork, LeafWorkOf, NodeWork,
     NodeWorkOf, LeafResetBufferId, BusyPCs, LeafPCs, NodePCs, NotifyPCs, LeafHoldPCs,
     ClaimPCs, BothHoldPCs, ResultHoldPCs
<1>14. ErrorPaths' /\ OnlyReducerErrors'
  BY DEF TypeInv, TypeOK, TypeThreads, Control, ErrorPaths, OnlyReducerErrors,
     LeafResetBufferId
<1> QED
  BY <1>1, <1>2, <1>5, <1>6, <1>7, <1>8, <1>9, <1>11, <1>12, <1>13, <1>14,
     ControlStep DEF LeafResetBufferId

\* The compare-exchange of NodeTask::try_start_processing succeeds, and keeps the
\* control invariant.
LEMMA ControlNodeStartProcessing ==
    ASSUME TypeInv, TypeInv', Control, NEW w \in Workers, NodeStartProcessing(w)
    PROVE  Control'
<1>1. state[cur[w]] = "WAITING_BOTH_CHILDREN"
  BY DEF Control, NodeWork, NodeWorkOf, NodeStartProcessing, NodePCs, ResultHoldPCs
<1>2. /\ OthersSame(w) /\ KeepsTask(w) /\ StaysInTurn(w)
      /\ pc[w] \notin {"exited", "panicked"}
  BY <1>1 DEF TypeInv, TypeOK, TypeThreads, TypeLocals, NodeStartProcessing,
     OthersSame, SameLocals, KeepsTask, StaysInTurn, BusyPCs, LeafPCs, NodePCs,
     NotifyPCs, LeafHoldPCs, ClaimPCs, BothHoldPCs, ResultHoldPCs
<1>3. Private(w, cur[w]) /\ cur[w] \in Tasks
  BY PrivateCur, BusyTask DEF NodeStartProcessing, NodePCs, ResultHoldPCs
<1>4. pc[w] \in NodePCs
  BY BusyTask DEF NodeStartProcessing, BusyPCs, LeafPCs, NodePCs, NotifyPCs,
     LeafHoldPCs, ClaimPCs, BothHoldPCs, ResultHoldPCs
<1>5. state'[cur[w]] = "PROCESSING" /\ bufferId' = bufferId
      /\ \A t \in Tasks : t # cur[w] => state'[t] = state[t]
  BY <1>1, <1>3 DEF TypeInv, TypeOK, TypeHeap, TypeThreads, TypeLocals,
     NodeStartProcessing
<1>6. ChangesPrivate(w) /\ \A t \in Tasks : Private(w, t) \/ bufferId'[t] = bufferId[t]
  BY <1>3, <1>5 DEF ChangesPrivate
<1>7. NodesNeverRestart /\ (0 \in Nodes /\ state[0] = "READY" => state'[0] = "READY")
  BY <1>1, <1>3, <1>5, <1>4, BusyTask, HeapChildren, HeapLeaves DEF
     NodesNeverRestart, Control, LeafWork, LeafWorkOf, NodeWork, NodeWorkOf
<1>8. \A t \in Tasks : state'[t] = "READY" => bufferId'[t] \in Blocks
  BY <1>1, <1>3, <1>5, BusyTask, ShapeFacts DEF Control, BufferIds, BufferIdOf,
     NodeWork, NodeWorkOf, ChildWork, LeafWork, LeafWorkOf, NodeStartProcessing,
     BusyPCs, LeafPCs, NodePCs, NotifyPCs, LeafHoldPCs, ClaimPCs, BothHoldPCs,
     ResultHoldPCs, ChildPCs
<1>9. \A t \in Tasks : ClearedId(t)'
  BY <1>2, <1>5, FrameClearedIds DEF NodeStartProcessing
<1>10. LeafWorkOf(w)' /\ NodeWorkOf(w)' /\ NotifyWorkOf(w)' /\ BufferIdOf(w)'
  BY <1>1, BusyTask DEF TypeInv, TypeOK, TypeHeap, TypeThreads, TypeLocals, Control,
     LeafWork, NodeWork, NotifyWork, BufferIds, NodeStartProcessing, LeafWorkOf,
     NodeWorkOf, NotifyWorkOf, BufferIdOf, ChildWork, Passed, AtLeft, Children, BusyPCs,
     LeafPCs, NodePCs, NotifyPCs, LeafHoldPCs, ClaimPCs, BothHoldPCs, ResultHoldPCs,
     ChildPCs
<1>11. /\ pc'[w] \in NotifyPCs <=> pc[w] \in NotifyPCs
       /\ pc'[w] \in NotifyPCs => cur'[w] = cur[w]
  BY <1>1 DEF TypeInv, TypeOK, TypeHeap, TypeThreads, TypeLocals,
     NodeStartProcessing, NotifyPCs, Fail, Return
<1>12. ParentCounts'
  BY <1>1, <1>2, <1>11, <1>3, <1>5, <1>4, FrameParentCounts, BusyTask, HeapLeaves,
     HeapChildren DEF Done, Control, LeafWork, LeafWorkOf, NodeWork, NodeWorkOf
<1>13. ChildrenConsumed'
  BY <1>1, <1>3, <1>5, FrameChildrenConsumed, BusyTask, HeapLeaves DEF Control,
     LeafWork, LeafWorkOf, NodeWork, NodeWorkOf, ChildWork, NodeStartProcessing,
     BusyPCs, LeafPCs, NodePCs, NotifyPCs, LeafHoldPCs, ClaimPCs, BothHoldPCs,
     ResultHoldPCs
<1>14. NodesHeld'
  BY <1>1, <1>2, <1>3, <1>5, FrameNodesHeld, BusyTask, HeapLeaves DEF TypeInv,
     TypeOK, TypeHeap, TypeThreads, TypeLocals, Control, LeafWork, LeafWorkOf, NodeWork,
     NodeWorkOf, NodeStartProcessing, BusyPCs, LeafPCs, NodePCs, NotifyPCs, LeafHoldPCs,
     ClaimPCs, BothHoldPCs, ResultHoldPCs
<1>15. ErrorPaths' /\ OnlyReducerErrors'
  BY <1>1 DEF TypeInv, TypeOK, TypeThreads, Control, ErrorPaths, OnlyReducerErrors,
     NodeStartProcessing
<1> QED
  BY <1>2, <1>3, <1>6, <1>7, <1>8, <1>9, <1>10, <1>12, <1>13, <1>14, <1>15,
     ControlStep DEF NodeStartProcessing

\* The compare-exchange of try_start_consuming succeeds, and keeps the control
\* invariant.
LEMMA ControlStartConsuming ==
    ASSUME TypeInv, TypeInv', Control, NEW w \in Workers, StartConsuming(w)
    PROVE  Control'
<1>1. state[child[w]] = "READY"
  BY ClaimedChild DEF StartConsuming, ClaimPCs
<1>2. /\ OthersSame(w) /\ KeepsTask(w) /\ StaysInTurn(w)
      /\ pc[w] \notin {"exited", "panicked"}
  BY <1>1 DEF TypeInv, TypeOK, TypeThreads, TypeLocals, StartConsuming, OthersSame,
     SameLocals, KeepsTask, StaysInTurn, BusyPCs, LeafPCs, NodePCs, NotifyPCs,
     LeafHoldPCs, ClaimPCs, BothHoldPCs, ResultHoldPCs
<1>3. Private(w, child[w]) /\ child[w] \in Tasks
  BY PrivateChild, BusyTask DEF StartConsuming, NodePCs, ChildPCs, ClaimPCs
<1>4. pc[w] \in NodePCs /\ child[w] \in Children(cur[w])
  BY BusyTask DEF StartConsuming, BusyPCs, LeafPCs, NodePCs, NotifyPCs, LeafHoldPCs,
     ClaimPCs, BothHoldPCs, ResultHoldPCs, ChildPCs
<1>5. state'[child[w]] = "BEING_CONSUMED" /\ bufferId' = bufferId
      /\ \A t \in Tasks : t # child[w] => state'[t] = state[t]
  BY <1>1, <1>3 DEF TypeInv, TypeOK, TypeHeap, TypeThreads, TypeLocals,
     StartConsuming
<1>6. ChangesPrivate(w) /\ \A t \in Tasks : Private(w, t) \/ bufferId'[t] = bufferId[t]
  BY <1>3, <1>5 DEF ChangesPrivate
<1>7. NodesNeverRestart /\ (0 \in Nodes /\ state[0] = "READY" => state'[0] = "READY")
  BY <1>1, <1>3, <1>5, <1>4, BusyTask, HeapChildren, HeapLeaves DEF
     NodesNeverRestart, Control, LeafWork, LeafWorkOf, NodeWork, NodeWorkOf
<1>8. \A t \in Tasks : state'[t] = "READY" => bufferId'[t] \in Blocks
  BY <1>1, <1>3, <1>5, BusyTask, ShapeFacts DEF Control, BufferIds, BufferIdOf,
     NodeWork, NodeWorkOf, ChildWork, LeafWork, LeafWorkOf, StartConsuming, BusyPCs,
     LeafPCs, NodePCs, NotifyPCs, LeafHoldPCs, ClaimPCs, BothHoldPCs, ResultHoldPCs,
     ChildPCs
<1>9. \A t \in Tasks : ClearedId(t)'
  BY <1>2, <1>5, FrameClearedIds DEF StartConsuming
<1>10. LeafWorkOf(w)' /\ NodeWorkOf(w)' /\ NotifyWorkOf(w)' /\ BufferIdOf(w)'
  BY <1>1, BusyTask DEF TypeInv, TypeOK, TypeHeap, TypeThreads, TypeLocals, Control,
     LeafWork, NodeWork, NotifyWork, BufferIds, StartConsuming, LeafWorkOf, NodeWorkOf,
     NotifyWorkOf, BufferIdOf, ChildWork, Passed, AtLeft, Children, BusyPCs, LeafPCs,
     NodePCs, NotifyPCs, LeafHoldPCs, ClaimPCs, BothHoldPCs, ResultHoldPCs, ChildPCs
<1>11. /\ pc'[w] \in NotifyPCs <=> pc[w] \in NotifyPCs
       /\ pc'[w] \in NotifyPCs => cur'[w] = cur[w]
  BY <1>1 DEF TypeInv, TypeOK, TypeHeap, TypeThreads, TypeLocals, StartConsuming,
     NotifyPCs, Fail, Return
<1>12. ParentCounts'
  BY <1>1, <1>2, <1>11, <1>3, <1>5, <1>4, FrameParentCounts, BusyTask,
     ParentIsWaiting, HeapChildren DEF Done
<1>13. ChildrenConsumed'
  BY <1>1, <1>3, <1>5, FrameChildrenConsumed, BusyTask, HeapLeaves DEF Control,
     LeafWork, LeafWorkOf, NodeWork, NodeWorkOf, ChildWork, StartConsuming, BusyPCs,
     LeafPCs, NodePCs, NotifyPCs, LeafHoldPCs, ClaimPCs, BothHoldPCs, ResultHoldPCs
<1>14. NodesHeld'
  BY <1>1, <1>2, <1>3, <1>5, FrameNodesHeld, BusyTask, HeapLeaves DEF TypeInv,
     TypeOK, TypeHeap, TypeThreads, TypeLocals, Control, LeafWork, LeafWorkOf, NodeWork,
     NodeWorkOf, StartConsuming, BusyPCs, LeafPCs, NodePCs, NotifyPCs, LeafHoldPCs,
     ClaimPCs, BothHoldPCs, ResultHoldPCs
<1>15. ErrorPaths' /\ OnlyReducerErrors'
  BY <1>1 DEF TypeInv, TypeOK, TypeThreads, Control, ErrorPaths, OnlyReducerErrors,
     StartConsuming
<1> QED
  BY <1>2, <1>3, <1>6, <1>7, <1>8, <1>9, <1>10, <1>12, <1>13, <1>14, <1>15,
     ControlStep DEF StartConsuming

\* try_set_consumed marks the child consumed, and keeps the control invariant.
LEMMA ControlSetConsumed ==
    ASSUME TypeInv, TypeInv', Control, NEW w \in Workers, SetConsumed(w)
    PROVE  Control'
<1>1. state[child[w]] = "BEING_CONSUMED"
  BY BusyTask DEF SetConsumed, NodePCs, BothHoldPCs, ChildPCs, Control, NodeWork,
     NodeWorkOf, ChildWork, Passed, AtLeft
<1>2. /\ OthersSame(w) /\ KeepsTask(w) /\ StaysInTurn(w)
      /\ pc[w] \notin {"exited", "panicked"}
  BY <1>1 DEF TypeInv, TypeOK, TypeThreads, TypeLocals, SetConsumed, Consumed,
     NextChild, OthersSame, SameLocals, KeepsTask, StaysInTurn, BusyPCs, LeafPCs,
     NodePCs, NotifyPCs, LeafHoldPCs, ClaimPCs, BothHoldPCs, ResultHoldPCs
<1>3. Private(w, child[w]) /\ child[w] \in Tasks
  BY PrivateChild, BusyTask DEF SetConsumed, NodePCs, ChildPCs, BothHoldPCs
<1>4. pc[w] \in NodePCs /\ child[w] \in Children(cur[w])
  BY BusyTask DEF SetConsumed, BusyPCs, LeafPCs, NodePCs, NotifyPCs, LeafHoldPCs,
     ClaimPCs, BothHoldPCs, ResultHoldPCs, ChildPCs
<1>5. state'[child[w]] = "CONSUMED" /\ bufferId' = bufferId
      /\ \A t \in Tasks : t # child[w] => state'[t] = state[t]
  BY <1>1, <1>3 DEF TypeInv, TypeOK, TypeHeap, TypeThreads, TypeLocals, SetConsumed,
     Consumed, NextChild
<1>6. ChangesPrivate(w) /\ \A t \in Tasks : Private(w, t) \/ bufferId'[t] = bufferId[t]
  BY <1>3, <1>5 DEF ChangesPrivate
<1>7. NodesNeverRestart /\ (0 \in Nodes /\ state[0] = "READY" => state'[0] = "READY")
  BY <1>1, <1>3, <1>5, <1>4, BusyTask, HeapChildren, HeapLeaves DEF
     NodesNeverRestart, Control, LeafWork, LeafWorkOf, NodeWork, NodeWorkOf
<1>8. \A t \in Tasks : state'[t] = "READY" => bufferId'[t] \in Blocks
  BY <1>1, <1>3, <1>5, BusyTask, ShapeFacts DEF Control, BufferIds, BufferIdOf,
     NodeWork, NodeWorkOf, ChildWork, LeafWork, LeafWorkOf, SetConsumed, BusyPCs,
     LeafPCs, NodePCs, NotifyPCs, LeafHoldPCs, ClaimPCs, BothHoldPCs, ResultHoldPCs,
     ChildPCs
<1>9. \A t \in Tasks : ClearedId(t)'
  BY <1>2, <1>5, BusyTask DEF TypeInv, TypeOK, TypeThreads, Control, BufferIds,
     ClearedId, OthersSame, SameLocals, SetConsumed, NextChild, ChildPCs
<1>10. LeafWorkOf(w)' /\ NodeWorkOf(w)' /\ NotifyWorkOf(w)' /\ BufferIdOf(w)'
  BY <1>1, BusyTask DEF TypeInv, TypeOK, TypeHeap, TypeThreads, TypeLocals, Control,
     LeafWork, NodeWork, NotifyWork, BufferIds, SetConsumed, Consumed, NextChild,
     LeafWorkOf, NodeWorkOf, NotifyWorkOf, BufferIdOf, ChildWork, Passed, AtLeft,
     Children, BusyPCs, LeafPCs, NodePCs, NotifyPCs, LeafHoldPCs, ClaimPCs, BothHoldPCs,
     ResultHoldPCs, ChildPCs
<1>11. /\ pc'[w] \in NotifyPCs <=> pc[w] \in NotifyPCs
       /\ pc'[w] \in NotifyPCs => cur'[w] = cur[w]
  BY <1>1 DEF TypeInv, TypeOK, TypeHeap, TypeThreads, TypeLocals, SetConsumed,
     Consumed, NextChild, NotifyPCs, Fail, Return
<1>12. ParentCounts'
  BY <1>1, <1>2, <1>11, <1>3, <1>5, <1>4, FrameParentCounts, BusyTask,
     ParentIsWaiting, HeapChildren DEF Done
<1>13. ChildrenConsumed'
  BY <1>1, <1>3, <1>5, FrameChildrenConsumed, BusyTask, HeapLeaves DEF Control,
     LeafWork, LeafWorkOf, NodeWork, NodeWorkOf, ChildWork, SetConsumed, BusyPCs,
     LeafPCs, NodePCs, NotifyPCs, LeafHoldPCs, ClaimPCs, BothHoldPCs, ResultHoldPCs
<1>14. NodesHeld'
  BY <1>1, <1>2, <1>3, <1>5, FrameNodesHeld, BusyTask, HeapLeaves DEF TypeInv,
     TypeOK, TypeHeap, TypeThreads, TypeLocals, Control, LeafWork, LeafWorkOf, NodeWork,
     NodeWorkOf, SetConsumed, Consumed, NextChild, BusyPCs, LeafPCs, NodePCs, NotifyPCs,
     LeafHoldPCs, ClaimPCs, BothHoldPCs, ResultHoldPCs
<1>15. ErrorPaths' /\ OnlyReducerErrors'
  BY <1>1 DEF TypeInv, TypeOK, TypeThreads, Control, ErrorPaths, OnlyReducerErrors,
     SetConsumed, Consumed, NextChild
<1> QED
  BY <1>2, <1>3, <1>6, <1>7, <1>8, <1>9, <1>10, <1>12, <1>13, <1>14, <1>15,
     ControlStep DEF SetConsumed

\* Clearing the buffer id of a consumed child keeps the control invariant.
LEMMA ControlClearBufferId ==
    ASSUME TypeInv, TypeInv', Control, NEW w \in Workers, ClearBufferId(w)
    PROVE  Control'
<1>1. /\ OthersSame(w) /\ KeepsTask(w) /\ StaysInTurn(w)
      /\ pc[w] \notin {"exited", "panicked"}
  BY DEF TypeInv, TypeOK, TypeThreads, TypeLocals, ClearBufferId, NextChild,
     OthersSame, SameLocals, KeepsTask, StaysInTurn, BusyPCs, LeafPCs, NodePCs,
     NotifyPCs, LeafHoldPCs, ClaimPCs, BothHoldPCs, ResultHoldPCs
<1>2. Private(w, child[w]) /\ child[w] \in Tasks
  BY PrivateChild, BusyTask DEF ClearBufferId, NodePCs, ChildPCs, BothHoldPCs
<1>3. pc[w] \in NodePCs /\ child[w] \in Children(cur[w])
  BY BusyTask DEF ClearBufferId, BusyPCs, LeafPCs, NodePCs, NotifyPCs, LeafHoldPCs,
     ClaimPCs, BothHoldPCs, ResultHoldPCs, ChildPCs
<1>4. state' = state /\ bufferId'[child[w]] = NoBuf
      /\ \A t \in Tasks : t # child[w] => bufferId'[t] = bufferId[t]
  BY <1>2 DEF TypeInv, TypeOK, TypeHeap, TypeThreads, TypeLocals, ClearBufferId,
     NextChild
<1>5. ChangesPrivate(w) /\ \A t \in Tasks : Private(w, t) \/ bufferId'[t] = bufferId[t]
  BY <1>2, <1>4 DEF ChangesPrivate
<1>6. NodesNeverRestart /\ (0 \in Nodes /\ state[0] = "READY" => state'[0] = "READY")
  BY <1>2, <1>4, <1>3, BusyTask, HeapChildren, HeapLeaves DEF NodesNeverRestart,
     Control, LeafWork, LeafWorkOf, NodeWork, NodeWorkOf
<1>7. \A t \in Tasks : state'[t] = "READY" => bufferId'[t] \in Blocks
  BY <1>2, <1>4, BusyTask DEF Control, BufferIds, NodeWork, NodeWorkOf, ChildWork,
     ClearBufferId, NodePCs, BothHoldPCs, ChildPCs
<1>8. \A t \in Tasks : ClearedId(t)'
  BY <1>1, <1>4, BusyTask DEF TypeInv, TypeOK, TypeThreads, Control, BufferIds,
     BufferIdOf, ClearedId, OthersSame, SameLocals, ClearBufferId, NextChild, ChildPCs,
     AtLeft, Children
<1>9. LeafWorkOf(w)' /\ NodeWorkOf(w)' /\ NotifyWorkOf(w)' /\ BufferIdOf(w)'
  BY BusyTask DEF TypeInv, TypeOK, TypeHeap, TypeThreads, TypeLocals, Control,
     LeafWork, NodeWork, NotifyWork, BufferIds, ClearBufferId, NextChild, LeafWorkOf,
     NodeWorkOf, NotifyWorkOf, BufferIdOf, ChildWork, Passed, AtLeft, Children, BusyPCs,
     LeafPCs, NodePCs, NotifyPCs, LeafHoldPCs, ClaimPCs, BothHoldPCs, ResultHoldPCs,
     ChildPCs
<1>10. /\ pc'[w] \in NotifyPCs <=> pc[w] \in NotifyPCs
       /\ pc'[w] \in NotifyPCs => cur'[w] = cur[w]
  BY DEF TypeInv, TypeOK, TypeHeap, TypeThreads, TypeLocals, ClearBufferId,
     NextChild, NotifyPCs, Fail, Return
<1>11. ParentCounts'
  BY <1>1, <1>10, <1>2, <1>4, <1>3, FrameParentCounts, BusyTask, HeapLeaves,
     HeapChildren DEF Done, Control, LeafWork, LeafWorkOf, NodeWork, NodeWorkOf
<1>12. ChildrenConsumed'
  BY <1>2, <1>4, FrameChildrenConsumed, BusyTask, HeapLeaves DEF Control, LeafWork,
     LeafWorkOf, NodeWork, NodeWorkOf, ChildWork, ClearBufferId, BusyPCs, LeafPCs,
     NodePCs, NotifyPCs, LeafHoldPCs, ClaimPCs, BothHoldPCs, ResultHoldPCs
<1>13. NodesHeld'
  BY <1>1, <1>2, <1>4, FrameNodesHeld, BusyTask, HeapLeaves DEF TypeInv, TypeOK,
     TypeHeap, TypeThreads, TypeLocals, Control, LeafWork, LeafWorkOf, NodeWork,
     NodeWorkOf, ClearBufferId, NextChild, BusyPCs, LeafPCs, NodePCs, NotifyPCs,
     LeafHoldPCs, ClaimPCs, BothHoldPCs, ResultHoldPCs
<1>14. ErrorPaths' /\ OnlyReducerErrors'
  BY DEF TypeInv, TypeOK, TypeThreads, Control, ErrorPaths, OnlyReducerErrors,
     ClearBufferId, NextChild
<1> QED
  BY <1>1, <1>2, <1>5, <1>6, <1>7, <1>8, <1>9, <1>11, <1>12, <1>13, <1>14,
     ControlStep DEF ClearBufferId

\* LeafTask::try_set_ready finds the leaf in processing, and publishing it keeps the
\* control invariant.
LEMMA ControlLeafSetReady ==
    ASSUME TypeInv, TypeInv', Control, NEW w \in Workers, LeafSetReady(w)
    PROVE  Control'
<1>1. state[cur[w]] = "PROCESSING"
  BY DEF Control, LeafWork, LeafWorkOf, LeafSetReady, LeafPCs, LeafHoldPCs
<1>2. /\ OthersSame(w) /\ KeepsTask(w) /\ StaysInTurn(w)
      /\ pc[w] \notin {"exited", "panicked"}
  BY <1>1 DEF TypeInv, TypeOK, TypeThreads, TypeLocals, LeafSetReady, Fail, Return,
     OthersSame, SameLocals, KeepsTask, StaysInTurn, BusyPCs, LeafPCs, NodePCs,
     NotifyPCs, LeafHoldPCs, ClaimPCs, BothHoldPCs, ResultHoldPCs
<1>3. Private(w, cur[w]) /\ cur[w] \in Tasks
  BY PrivateCur, BusyTask DEF LeafSetReady, LeafPCs, LeafHoldPCs
<1>4. pc[w] \in LeafPCs
  BY BusyTask DEF LeafSetReady, BusyPCs, LeafPCs, NodePCs, NotifyPCs, LeafHoldPCs,
     ClaimPCs, BothHoldPCs, ResultHoldPCs
<1>5. state'[cur[w]] = "READY" /\ bufferId' = bufferId
      /\ \A t \in Tasks : t # cur[w] => state'[t] = state[t]
  BY <1>1, <1>3 DEF TypeInv, TypeOK, TypeHeap, TypeThreads, TypeLocals, LeafSetReady,
     Fail, Return
<1>6. ChangesPrivate(w) /\ \A t \in Tasks : Private(w, t) \/ bufferId'[t] = bufferId[t]
  BY <1>3, <1>5 DEF ChangesPrivate
<1>7. NodesNeverRestart /\ (0 \in Nodes /\ state[0] = "READY" => state'[0] = "READY")
  BY <1>1, <1>3, <1>5, <1>4, BusyTask, HeapChildren, HeapLeaves DEF
     NodesNeverRestart, Control, LeafWork, LeafWorkOf, NodeWork, NodeWorkOf
<1>8. \A t \in Tasks : state'[t] = "READY" => bufferId'[t] \in Blocks
  BY <1>1, <1>3, <1>5, BusyTask, ShapeFacts DEF Control, BufferIds, BufferIdOf,
     NodeWork, NodeWorkOf, ChildWork, LeafWork, LeafWorkOf, LeafSetReady, BusyPCs,
     LeafPCs, NodePCs, NotifyPCs, LeafHoldPCs, ClaimPCs, BothHoldPCs, ResultHoldPCs,
     ChildPCs
<1>9. \A t \in Tasks : ClearedId(t)'
  BY <1>2, <1>5, FrameClearedIds DEF LeafSetReady, Fail, Return
<1>10. LeafWorkOf(w)' /\ NodeWorkOf(w)' /\ NotifyWorkOf(w)' /\ BufferIdOf(w)'
  BY <1>1, BusyTask DEF TypeInv, TypeOK, TypeHeap, TypeThreads, TypeLocals, Control,
     LeafWork, NodeWork, NotifyWork, BufferIds, LeafSetReady, Fail, Return, LeafWorkOf,
     NodeWorkOf, NotifyWorkOf, BufferIdOf, ChildWork, Passed, AtLeft, Children, BusyPCs,
     LeafPCs, NodePCs, NotifyPCs, LeafHoldPCs, ClaimPCs, BothHoldPCs, ResultHoldPCs,
     ChildPCs
<1>11. ParentCounts'
  BY <1>1, <1>2, <1>3, <1>5, FramePublish DEF TypeInv, TypeOK, TypeHeap, TypeThreads,
     TypeLocals, LeafSetReady, Return, HasParent, NotifyPCs
<1>12. ChildrenConsumed'
  BY <1>1, <1>3, <1>5, FrameChildrenConsumed, BusyTask, HeapLeaves DEF Control,
     LeafWork, LeafWorkOf, NodeWork, NodeWorkOf, ChildWork, LeafSetReady, BusyPCs,
     LeafPCs, NodePCs, NotifyPCs, LeafHoldPCs, ClaimPCs, BothHoldPCs, ResultHoldPCs
<1>13. NodesHeld'
  BY <1>1, <1>2, <1>3, <1>5, FrameNodesHeld, BusyTask, HeapLeaves DEF TypeInv,
     TypeOK, TypeHeap, TypeThreads, TypeLocals, Control, LeafWork, LeafWorkOf, NodeWork,
     NodeWorkOf, LeafSetReady, Fail, Return, BusyPCs, LeafPCs, NodePCs, NotifyPCs,
     LeafHoldPCs, ClaimPCs, BothHoldPCs, ResultHoldPCs
<1>14. ErrorPaths' /\ OnlyReducerErrors'
  BY <1>1 DEF TypeInv, TypeOK, TypeThreads, Control, ErrorPaths, OnlyReducerErrors,
     LeafSetReady, Fail, Return
<1> QED
  BY <1>2, <1>3, <1>6, <1>7, <1>8, <1>9, <1>10, <1>11, <1>12, <1>13, <1>14,
     ControlStep DEF LeafSetReady

\* NodeTask::try_set_ready finds the node in processing, and publishing it keeps the
\* control invariant.
LEMMA ControlNodeSetReady ==
    ASSUME TypeInv, TypeInv', Control, NEW w \in Workers, NodeSetReady(w)
    PROVE  Control'
<1>1. state[cur[w]] = "PROCESSING"
  BY DEF Control, NodeWork, NodeWorkOf, NodeSetReady, NodePCs, ResultHoldPCs
<1>2. /\ OthersSame(w) /\ KeepsTask(w) /\ StaysInTurn(w)
      /\ pc[w] \notin {"exited", "panicked"}
  BY <1>1 DEF TypeInv, TypeOK, TypeThreads, TypeLocals, NodeSetReady, Fail, Return,
     HasParent, OthersSame, SameLocals, KeepsTask, StaysInTurn, BusyPCs, LeafPCs,
     NodePCs, NotifyPCs, LeafHoldPCs, ClaimPCs, BothHoldPCs, ResultHoldPCs
<1>3. Private(w, cur[w]) /\ cur[w] \in Tasks
  BY PrivateCur, BusyTask DEF NodeSetReady, NodePCs, ResultHoldPCs
<1>4. pc[w] \in NodePCs
  BY BusyTask DEF NodeSetReady, BusyPCs, LeafPCs, NodePCs, NotifyPCs, LeafHoldPCs,
     ClaimPCs, BothHoldPCs, ResultHoldPCs
<1>5. state'[cur[w]] = "READY" /\ bufferId' = bufferId
      /\ \A t \in Tasks : t # cur[w] => state'[t] = state[t]
  BY <1>1, <1>3 DEF TypeInv, TypeOK, TypeHeap, TypeThreads, TypeLocals, NodeSetReady,
     Fail, Return, HasParent
<1>6. ChangesPrivate(w) /\ \A t \in Tasks : Private(w, t) \/ bufferId'[t] = bufferId[t]
  BY <1>3, <1>5 DEF ChangesPrivate
<1>7. NodesNeverRestart /\ (0 \in Nodes /\ state[0] = "READY" => state'[0] = "READY")
  BY <1>1, <1>3, <1>5, <1>4, BusyTask, HeapChildren, HeapLeaves DEF
     NodesNeverRestart, Control, LeafWork, LeafWorkOf, NodeWork, NodeWorkOf
<1>8. \A t \in Tasks : state'[t] = "READY" => bufferId'[t] \in Blocks
  BY <1>1, <1>3, <1>5, BusyTask, ShapeFacts DEF Control, BufferIds, BufferIdOf,
     NodeWork, NodeWorkOf, ChildWork, LeafWork, LeafWorkOf, NodeSetReady, BusyPCs,
     LeafPCs, NodePCs, NotifyPCs, LeafHoldPCs, ClaimPCs, BothHoldPCs, ResultHoldPCs,
     ChildPCs
<1>9. \A t \in Tasks : ClearedId(t)'
  BY <1>2, <1>5, FrameClearedIds DEF NodeSetReady, Fail, Return, HasParent
<1>10. LeafWorkOf(w)' /\ NodeWorkOf(w)' /\ NotifyWorkOf(w)' /\ BufferIdOf(w)'
  BY <1>1, BusyTask DEF TypeInv, TypeOK, TypeHeap, TypeThreads, TypeLocals, Control,
     LeafWork, NodeWork, NotifyWork, BufferIds, NodeSetReady, Fail, Return, HasParent,
     LeafWorkOf, NodeWorkOf, NotifyWorkOf, BufferIdOf, ChildWork, Passed, AtLeft,
     Children, BusyPCs, LeafPCs, NodePCs, NotifyPCs, LeafHoldPCs, ClaimPCs, BothHoldPCs,
     ResultHoldPCs, ChildPCs
<1>11. ParentCounts'
  BY <1>1, <1>2, <1>3, <1>5, FramePublish DEF TypeInv, TypeOK, TypeHeap, TypeThreads,
     TypeLocals, NodeSetReady, HasParent, NotifyPCs
<1>12. ChildrenConsumed'
  BY <1>1, <1>3, <1>5, FrameChildrenConsumed, BusyTask, HeapLeaves DEF Control,
     LeafWork, LeafWorkOf, NodeWork, NodeWorkOf, ChildWork, NodeSetReady, BusyPCs,
     LeafPCs, NodePCs, NotifyPCs, LeafHoldPCs, ClaimPCs, BothHoldPCs, ResultHoldPCs
<1>13. NodesHeld'
  BY <1>1, <1>2, <1>3, <1>5, FrameNodesHeld, BusyTask, HeapLeaves DEF TypeInv,
     TypeOK, TypeHeap, TypeThreads, TypeLocals, Control, LeafWork, LeafWorkOf, NodeWork,
     NodeWorkOf, NodeSetReady, Fail, Return, HasParent, BusyPCs, LeafPCs, NodePCs,
     NotifyPCs, LeafHoldPCs, ClaimPCs, BothHoldPCs, ResultHoldPCs
<1>14. ErrorPaths' /\ OnlyReducerErrors'
  BY <1>1 DEF TypeInv, TypeOK, TypeThreads, Control, ErrorPaths, OnlyReducerErrors,
     NodeSetReady, Fail, Return, HasParent
<1> QED
  BY <1>2, <1>3, <1>6, <1>7, <1>8, <1>9, <1>10, <1>11, <1>12, <1>13, <1>14,
     ControlStep DEF NodeSetReady

\* The first compare-exchange of notify_child_ready keeps the control invariant: the first
\* child to report leaves the parent waiting for the other one.
LEMMA ControlGotFirstChild ==
    ASSUME TypeInv, TypeInv', Control, NEW w \in Workers, GotFirstChild(w)
    PROVE  Control'
<1>1. /\ pc[w] = "notify1" /\ pc[w] \in NotifyPCs /\ pc[w] \in BusyPCs
      /\ pc[w] \notin NodePCs /\ pc[w] \notin LeafPCs
  BY BusyKinds DEF GotFirstChild, NotifyPCs
<1>2. PICK x \in Tasks \ {0} : x = cur[w]
  BY <1>1, BusyTask
<1>3. PICK p \in Nodes : p = Parent(x)
  BY <1>1, <1>2, BusyTask
<1>4. p \in Tasks /\ p = Parent(cur[w])
  BY <1>2, <1>3, HeapChildren
<1>5. CASE state[p] = "NOT_STARTED"
  <2>1. /\ state'[p] = "WAITING_ONE_CHILD" /\ bufferId' = bufferId
        /\ \A t \in Tasks : t # p => state'[t] = state[t]
    BY <1>4, <1>5 DEF GotFirstChild, TypeInv, TypeOK, TypeHeap
  <2>2. /\ OthersSame(w) /\ pc'[w] = "check" /\ errors' = errors
        /\ UNCHANGED <<readyQ, leafQ, nextLeaf, stop, main>>
    BY <1>4, <1>5 DEF GotFirstChild, Return, OthersSame, SameLocals, TypeInv, TypeOK, TypeThreads, TypeLocals
  <2>3. pc'[w] \notin BusyPCs /\ KeepsTask(w) /\ StaysInTurn(w)
    BY <2>2, BusyKinds DEF KeepsTask, StaysInTurn
  <2>4. Private(w, p)
    BY <1>1, <1>4, <1>5, PrivateParent
  <2>5. ChangesPrivate(w) /\ NodesNeverRestart
    BY <2>1, <2>4, HeapChildren DEF ChangesPrivate, NodesNeverRestart
  <2>6. 0 \in Nodes /\ state[0] = "READY" => state'[0] = "READY"
    BY <1>5, <2>1, HeapChildren
  <2>7. \A t \in Tasks : state'[t] = "READY" => bufferId'[t] \in Blocks
    BY <2>1 DEF Control, BufferIds
  <2>8. \A t \in Tasks : ClearedId(t)'
    BY <1>1, <2>1, <2>2, FrameClearedIds
  <2>9. LeafWorkOf(w)' /\ NodeWorkOf(w)' /\ NotifyWorkOf(w)' /\ BufferIdOf(w)'
    BY <2>2, <2>3, BusyKinds DEF LeafWorkOf, NodeWorkOf, NotifyWorkOf, BufferIdOf, NotifyPCs
  <2>10. ParentCounts'
    <3>1. /\ x \in Children(p) /\ Notified(x)' /\ state'[x] = "READY"
          /\ \A c \in Tasks \ {x} : Notified(c)' <=> Notified(c)
          /\ \A n \in Nodes \ {p} : ParentCount(n)'
      BY <1>1, <1>2, <1>3, <1>5, <2>1, <2>2, <2>3, BusyKinds, FrameReport
    <3>2. \A d \in Children(p) \ {x} : ~Notified(d)'
      BY <1>4, <1>5, <3>1, HeapChildren DEF Control, ParentCounts, ParentCount
    <3>3. ParentCount(p)'
      BY <2>1, <3>1, <3>2 DEF ParentCount
    <3> QED
      BY <3>1, <3>3 DEF ParentCounts
  <2>11. ChildrenConsumed'
    BY <1>4, <1>5, <2>1, FrameChildrenConsumed, HeapChildren
  <2>12. NodesHeld'
    BY <1>1, <2>1, <2>2, FrameNodesHeld, HeapChildren
  <2>13. ErrorPaths' /\ OnlyReducerErrors'
    BY <2>2 DEF Control, ErrorPaths, OnlyReducerErrors, OthersSame, SameLocals
  <2> QED
    BY <1>1, <2>1, <2>2, <2>3, <2>5, <2>6, <2>7, <2>8, <2>9, <2>10, <2>11, <2>12, <2>13, ControlStep
<1>6. CASE state[p] # "NOT_STARTED"
  <2>1. /\ OthersSame(w) /\ pc'[w] = "notify2" /\ cur'[w] = cur[w]
        /\ UNCHANGED <<state, bufferId, readyQ, leafQ, nextLeaf, stop, main, errors>>
    BY <1>4, <1>6 DEF GotFirstChild, OthersSame, SameLocals, TypeInv, TypeOK, TypeThreads, TypeLocals
  <2>2. pc'[w] \in NotifyPCs /\ pc'[w] \in BusyPCs /\ KeepsTask(w) /\ StaysInTurn(w)
    BY <1>1, <2>1, BusyKinds DEF KeepsTask, StaysInTurn, NotifyPCs
  <2>3. LeafWorkOf(w)' /\ NodeWorkOf(w)' /\ NotifyWorkOf(w)' /\ BufferIdOf(w)'
    BY <1>1, <1>4, <1>6, <2>1, <2>2, BusyKinds DEF LeafWorkOf, NodeWorkOf, NotifyWorkOf, BufferIdOf,
       Control, NotifyWork
  <2>4. ErrorPaths' /\ OnlyReducerErrors'
    BY <2>1 DEF Control, ErrorPaths, OnlyReducerErrors, OthersSame, SameLocals
  <2> QED
    BY <1>1, <2>1, <2>2, <2>3, <2>4, ControlQuietStep
<1> QED
  BY <1>5, <1>6

\* The second compare-exchange of notify_child_ready always succeeds, and keeps the control
\* invariant: the second child to report queues the parent, and the push never finds the
\* ready queue full.
LEMMA ControlGotSecondChild ==
    ASSUME TypeInv, TypeInv', Control, NEW w \in Workers, GotSecondChild(w)
    PROVE  Control'
<1>1. /\ pc[w] = "notify2" /\ pc[w] \in NotifyPCs /\ pc[w] \in BusyPCs
      /\ pc[w] \notin NodePCs /\ pc[w] \notin LeafPCs
  BY BusyKinds DEF GotSecondChild, NotifyPCs
<1>2. PICK x \in Tasks \ {0} : x = cur[w]
  BY <1>1, BusyTask
<1>3. PICK p \in Nodes : p = Parent(x)
  BY <1>1, <1>2, BusyTask
<1>4. p \in Tasks /\ p = Parent(cur[w]) /\ x \in Children(p)
  BY <1>2, <1>3, HeapChildren, HeapParent
<1>5. ~Notified(x) /\ state[x] = "READY"
  BY <1>1, <1>2 DEF Notified, Control, NotifyWork, NotifyWorkOf
<1>6. state[p] = "WAITING_ONE_CHILD"
  BY <1>1, <1>4, <1>5 DEF Control, ParentCounts, ParentCount, NotifyWork, NotifyWorkOf
<1>7. /\ state'[p] = "WAITING_BOTH_CHILDREN" /\ bufferId' = bufferId
      /\ \A t \in Tasks : t # p => state'[t] = state[t]
  BY <1>4, <1>6 DEF GotSecondChild, TypeInv, TypeOK, TypeHeap
<1>8. /\ OthersSame(w) /\ pc'[w] = "check" /\ errors' = errors
      /\ UNCHANGED <<leafQ, nextLeaf, stop, main>>
  BY DEF GotSecondChild, Return, OthersSame, SameLocals, TypeInv, TypeOK, TypeThreads, TypeLocals
<1>9. pc'[w] \notin BusyPCs /\ KeepsTask(w) /\ StaysInTurn(w)
  BY <1>8, BusyKinds DEF KeepsTask, StaysInTurn
<1>10. readyQ[w] = <<>> /\ readyQ[w] \in Seq(Nodes)
  BY <1>1 DEF Control, ReadyQueues, ReadyQueueOf, TypeInv, TypeOK, TypeQueues
<1>11. /\ readyQ'[w] = <<p>>
       /\ \A v \in Workers : v # w => readyQ'[v] = readyQ[v]
  <2>1. readyQ' = [readyQ EXCEPT ![w] = Append(readyQ[w], p)]
    BY <1>4, <1>6, <1>10, ConstantsAssumption DEF GotSecondChild, PushReady
  <2> QED
    BY <1>10, <2>1 DEF TypeInv, TypeOK, TypeQueues
<1>12. Private(w, p)
  BY <1>1, <1>4, <1>6, PrivateParent
<1>13. ChangesPrivate(w) /\ NodesNeverRestart
  BY <1>7, <1>12, HeapChildren DEF ChangesPrivate, NodesNeverRestart
<1>14. OneWorkerPerTask' /\ LeafQueues' /\ FutureLeaves'
  BY <1>8, <1>9, <1>13, FrameTasks, FrameLeafQueues
<1>15. LeafWork' /\ NodeWork' /\ NotifyWork'
  <2>1. LeafWorkOf(w)' /\ NodeWorkOf(w)' /\ NotifyWorkOf(w)'
    BY <1>8, <1>9, BusyKinds DEF LeafWorkOf, NodeWorkOf, NotifyWorkOf, NotifyPCs
  <2> QED
    BY <1>8, <1>13, <2>1, FrameWork DEF LeafWork, NodeWork, NotifyWork
<1>16. /\ Notified(x)' /\ state'[x] = "READY"
       /\ \A c \in Tasks \ {x} : Notified(c)' <=> Notified(c)
       /\ \A n \in Nodes \ {p} : ParentCount(n)'
  BY <1>1, <1>2, <1>3, <1>6, <1>7, <1>8, <1>9, BusyKinds, FrameReport
<1>17. PICK c \in Children(p) : /\ Notified(c) /\ state[c] = "READY"
                                /\ Children(p) = {x, c} /\ c # x
  BY <1>4, <1>5, <1>6 DEF Control, ParentCounts, ParentCount, Children
<1>18. c \in Tasks /\ c # p /\ state'[c] = "READY"
  BY <1>4, <1>6, <1>7, <1>17, HeapChildren
<1>19. ParentCounts'
  <2>1. Notified(c)'
    BY <1>16, <1>17, <1>18
  <2>2. \A d \in Children(p) : Notified(d)'
    BY <1>16, <1>17, <2>1
  <2>3. ParentCount(p)'
    BY <1>7, <2>2 DEF ParentCount
  <2> QED
    BY <1>16, <2>3 DEF ParentCounts
<1>20. \A v \in Workers : pc'[v] \in BusyPCs => cur'[v] # p
  <2>1. \A v \in Workers \ {w} : pc'[v] = pc[v] /\ cur'[v] = cur[v]
    BY <1>8 DEF OthersSame, SameLocals
  <2> QED
    BY <1>9, <1>12, <2>1 DEF Private
<1>21. ReadyQueues'
  <2>1. ReadyQueueOf(w)'
    <3>1. Len(readyQ'[w]) = 1 /\ readyQ'[w][1] = p
      BY <1>11
    <3>2. \A v \in Workers : readyQ'[v] # <<>> /\ readyQ'[v][1] = p => v = w
      BY <1>11, <1>12 DEF Private
    <3>3. \A d \in Children(p) : state'[d] = "READY"
      BY <1>16, <1>17, <1>18
    <3> QED
      BY <1>7, <1>8, <1>20, <3>1, <3>2, <3>3 DEF ReadyQueueOf, Idle
  <2>2. ASSUME NEW v \in Workers, v # w PROVE ReadyQueueOf(v)'
    <3>1. readyQ'[v] = readyQ[v] /\ pc'[v] = pc[v]
      BY <1>8, <1>11, <2>2 DEF OthersSame, SameLocals
    <3>2. CASE readyQ[v] = <<>>
      BY <3>1, <3>2 DEF ReadyQueueOf
    <3>3. CASE readyQ[v] # <<>>
      <4> DEFINE n == readyQ[v][1]
      <4>1. ReadyQueueOf(v) /\ n \in Nodes /\ n # p
        BY <1>12, <3>3 DEF Control, ReadyQueues, Private, TypeInv, TypeOK, TypeQueues
      <4>2. state'[n] = "WAITING_BOTH_CHILDREN" /\ \A d \in Children(n) : state'[d] = "READY"
        BY <1>7, <1>12, <3>3, <4>1, HeapChildren DEF ReadyQueueOf, Private
      <4>3. \A u \in Workers : readyQ'[u] # <<>> /\ readyQ'[u][1] = n => u = v
        BY <1>11, <3>3, <4>1 DEF ReadyQueueOf
      <4>4. \A u \in Workers : pc'[u] \in BusyPCs => cur'[u] # n
        BY <1>8, <1>9, <3>3, <4>1 DEF ReadyQueueOf, Idle, OthersSame, SameLocals
      <4> QED
        BY <3>1, <3>3, <4>1, <4>2, <4>3, <4>4 DEF ReadyQueueOf, Idle
    <3> QED
      BY <3>2, <3>3
  <2> QED
    BY <2>1, <2>2 DEF ReadyQueues
<1>22. ChildrenConsumed'
  BY <1>4, <1>6, <1>7, FrameChildrenConsumed, HeapChildren
<1>23. RootReady' /\ MainWaits'
  <2>1. 0 \in Nodes /\ state[0] = "READY" => state'[0] = "READY"
    BY <1>6, <1>7, HeapChildren
  <2> QED
    BY <1>1, <1>8, <2>1 DEF Control, RootReady, MainWaits, OthersSame, SameLocals
<1>24. BufferIds'
  <2>1. BufferIdOf(w)'
    BY <1>8 DEF BufferIdOf
  <2>2. \A v \in Workers : v # w => BufferIdOf(v)'
    BY <1>7, <1>8, FrameBufferIds
  <2>3. \A t \in Tasks : ClearedId(t)'
    BY <1>1, <1>7, <1>8, FrameClearedIds
  <2> QED
    BY <1>7, <2>1, <2>2, <2>3 DEF Control, BufferIds
<1>25. NodesHeld'
  <2> SUFFICES ASSUME NEW n \in Nodes,
                      state'[n] \in {"WAITING_BOTH_CHILDREN", "PROCESSING"},
                      "FoldOperationFailed" \notin errors',
                      \A v \in Workers : pc'[v] # "panicked"
               PROVE  FoldersOf(n)' # {}
    BY DEF NodesHeld
  <2>1. CASE n = p
    <3>1. 1 \in 1 .. Len(readyQ'[w]) /\ readyQ'[w][1] = n
      BY <1>11, <2>1
    <3> QED
      BY <3>1 DEF FoldersOf
  <2>2. CASE n # p
    <3>1. state[n] \in {"WAITING_BOTH_CHILDREN", "PROCESSING"}
      BY <1>7, <2>2, HeapChildren
    <3>2. PICK v \in Workers : v \in FoldersOf(n)
      BY <1>1, <1>8, <3>1 DEF Control, NodesHeld, FoldersOf, OthersSame, SameLocals
    <3>3. v # w
      BY <1>1, <1>10, <3>2 DEF FoldersOf, NodePCs
    <3>4. v \in FoldersOf(n)'
      BY <1>8, <1>11, <3>2, <3>3 DEF FoldersOf, OthersSame, SameLocals
    <3> QED
      BY <3>4
  <2> QED
    BY <2>1, <2>2
<1>26. ErrorPaths' /\ OnlyReducerErrors'
  BY <1>8 DEF Control, ErrorPaths, OnlyReducerErrors, OthersSame, SameLocals
<1> QED
  BY <1>14, <1>15, <1>19, <1>21, <1>22, <1>23, <1>24, <1>25, <1>26 DEF Control

\* Once the root is published its children are consumed, so setting stop changes no task,
\* and keeps the control invariant.
LEMMA ControlSignalCompletion ==
    ASSUME TypeInv, TypeInv', Control, NEW w \in Workers, SignalCompletion(w)
    PROVE  Control'
<1>1. /\ pc[w] = "signal" /\ pc[w] \in BusyPCs
      /\ pc[w] \notin LeafPCs \cup NodePCs \cup NotifyPCs
  BY BusyKinds DEF SignalCompletion
<1>2. cur[w] = 0 /\ 0 \in Nodes /\ state[0] = "READY"
  BY <1>1, BusyTask DEF Control, NotifyWork, NotifyWorkOf
<1>3. state' = state
  <2>1. \A c \in Children(0) : state[c] = "CONSUMED"
    BY <1>2 DEF Control, ChildrenConsumed
  <2>2. \A t \in Tasks : state'[t] = state[t]
    BY <1>2, <2>1 DEF SignalCompletion, Consumed
  <2> QED
    BY <2>2 DEF TypeInv, TypeOK, TypeHeap, SignalCompletion
<1>4. /\ OthersSame(w) /\ pc'[w] = "exited" /\ stop' = 1
      /\ UNCHANGED <<bufferId, readyQ, leafQ, nextLeaf, main, errors>>
  BY DEF SignalCompletion, OthersSame, SameLocals, TypeInv, TypeOK, TypeThreads
<1>5. KeepsTask(w) /\ StaysInTurn(w) /\ pc'[w] \notin NotifyPCs
  BY <1>4, BusyKinds DEF KeepsTask, StaysInTurn
<1>6. LeafWorkOf(w)' /\ NodeWorkOf(w)' /\ NotifyWorkOf(w)' /\ BufferIdOf(w)'
  BY <1>4, <1>5, BusyKinds DEF LeafWorkOf, NodeWorkOf, NotifyWorkOf, BufferIdOf
<1>7. ErrorPaths' /\ OnlyReducerErrors'
  BY <1>4 DEF Control, ErrorPaths, OnlyReducerErrors, OthersSame, SameLocals
<1> QED
  BY <1>1, <1>2, <1>3, <1>4, <1>5, <1>6, <1>7, ControlQuietStep

\* Taking a node from the ready queue keeps the control invariant: nobody else has it.
LEMMA ControlPopReady ==
    ASSUME TypeInv, TypeInv', Control, NEW w \in Workers, PopReady(w)
    PROVE  Control'
<1>1. PICK n \in Nodes : n = readyQ[w][1]
  BY DEF PopReady, TypeInv, TypeOK, TypeQueues
<1>2. /\ readyQ[w] # <<>> /\ ReadyQueueOf(w) /\ pc[w] = "pop"
      /\ Head(readyQ[w]) = readyQ[w][1] /\ Tail(readyQ[w]) = <<>> /\ Len(readyQ[w]) = 1
  <2>1. readyQ[w] # <<>> /\ ReadyQueueOf(w) /\ pc[w] = "pop" /\ readyQ[w] \in Seq(Nodes)
    BY DEF PopReady, Control, ReadyQueues, TypeInv, TypeOK, TypeQueues
  <2>2. Len(readyQ[w]) \in Nat /\ Len(readyQ[w]) >= 1
    BY <2>1, QueueTake
  <2>3. Len(readyQ[w]) <= 1
    BY <2>1 DEF ReadyQueueOf
  <2>4. Len(readyQ[w]) = 1
    <3>1. \A k \in Nat : k >= 1 /\ k <= 1 => k = 1
      OBVIOUS
    <3> QED
      BY <2>2, <2>3, <3>1, Zenon
  <2>5. Head(readyQ[w]) = readyQ[w][1] /\ Tail(readyQ[w]) = <<>>
    BY <2>1, <2>4, QueueTake
  <2> QED
    BY <2>1, <2>4, <2>5
<1>3. /\ OthersSame(w) /\ pc'[w] = "n_check" /\ cur'[w] = n
      /\ readyQ'[w] = <<>> /\ \A v \in Workers : v # w => readyQ'[v] = readyQ[v]
      /\ UNCHANGED <<state, bufferId, leafQ, nextLeaf, stop, main, errors>>
  <2>1. pc'[w] = "n_check" /\ cur'[w] = n /\ OthersSame(w)
    BY <1>1, <1>2 DEF PopReady, OthersSame, SameLocals, TypeInv, TypeOK, TypeThreads, TypeLocals
  <2>2. readyQ'[w] = <<>> /\ \A v \in Workers : v # w => readyQ'[v] = readyQ[v]
    BY <1>2 DEF PopReady, TypeInv, TypeOK, TypeQueues
  <2> QED
    BY <2>1, <2>2 DEF PopReady
<1>4. /\ pc'[w] \in NodePCs /\ pc'[w] \in BusyPCs /\ pc'[w] \notin NotifyPCs
      /\ pc'[w] \notin LeafPCs /\ pc[w] \notin BusyPCs
  BY <1>2, <1>3, BusyKinds DEF NodePCs
<1>5. /\ n \notin Leaves /\ Idle(n)
      /\ \A v \in Workers : v # w /\ readyQ[v] # <<>> => readyQ[v][1] # n
  BY <1>1, <1>2, HeapLeaves DEF ReadyQueueOf
<1>6. OneWorkerPerTask'
  BY <1>3, <1>5 DEF Control, OneWorkerPerTask, Idle, OthersSame, SameLocals
<1>7. \A t \in Tasks : t # n /\ Idle(t) => Idle(t)'
  BY <1>3 DEF Idle, OthersSame, SameLocals
<1>8. LeafQueues' /\ FutureLeaves'
  <2>1. ASSUME NEW v \in Workers, NEW i \in 1 .. Len(leafQ[v])
        PROVE  /\ leafQ[v][i][2] \in Tasks \ {n}
               /\ \A u \in Workers : pc'[u] \in BusyPCs => cur'[u] # leafQ[v][i][2]
    <3>1. leafQ[v][i][2] \in Leaves
      BY DEF TypeInv, TypeOK, TypeQueues
    <3>2. Idle(leafQ[v][i][2])
      BY DEF Control, LeafQueues
    <3>3. leafQ[v][i][2] \in Tasks \ {n}
      BY <1>5, <3>1, HeapLeaves
    <3> QED
      BY <1>3, <3>2, <3>3 DEF Idle, OthersSame, SameLocals
  <2> QED
    BY <1>3, <2>1 DEF Control, LeafQueues, FutureLeaves, Idle
<1>9. ChangesPrivate(w) /\ NodesNeverRestart
  BY <1>3 DEF ChangesPrivate, NodesNeverRestart
<1>10. LeafWork' /\ NodeWork' /\ NotifyWork'
  <2>1. LeafWorkOf(w)' /\ NotifyWorkOf(w)'
    BY <1>3, <1>4 DEF LeafWorkOf, NotifyWorkOf
  <2>2. NodeWorkOf(w)'
    BY <1>1, <1>2, <1>3 DEF ReadyQueueOf, NodeWorkOf, ChildWork, ClaimPCs, ResultHoldPCs
  <2> QED
    BY <1>3, <1>9, <2>1, <2>2, FrameWork DEF LeafWork, NodeWork, NotifyWork
<1>11. ReadyQueues'
  <2>1. ReadyQueueOf(w)'
    BY <1>3 DEF ReadyQueueOf
  <2>2. ASSUME NEW v \in Workers, v # w PROVE ReadyQueueOf(v)'
    <3>1. ReadyQueueOf(v) /\ readyQ'[v] = readyQ[v] /\ pc'[v] = pc[v]
      BY <1>3, <2>2 DEF Control, ReadyQueues, OthersSame, SameLocals
    <3>2. readyQ[v] # <<>> => readyQ[v][1] \in Tasks \ {n}
      BY <1>5, <2>2, HeapChildren DEF TypeInv, TypeOK, TypeQueues
    <3>3. readyQ[v] # <<>> => \A u \in Workers : pc'[u] \in BusyPCs => cur'[u] # readyQ[v][1]
      BY <1>7, <3>1, <3>2 DEF ReadyQueueOf, Idle
    <3> QED
      BY <1>3, <3>1, <3>3 DEF ReadyQueueOf, Idle
  <2> QED
    BY <2>1, <2>2 DEF ReadyQueues
<1>12. ParentCounts'
  <2>1. \A t \in Tasks : Done(t)' <=> Done(t)
    BY <1>3 DEF Done
  <2>2. pc[w] \notin NotifyPCs
    BY <1>4, BusyKinds
  <2> QED
    BY <1>3, <1>4, <2>1, <2>2, FrameParentCounts
<1>13. ChildrenConsumed' /\ RootReady'
  BY <1>3 DEF Control, ChildrenConsumed, RootReady
<1>14. MainWaits'
  BY <1>2, <1>3 DEF Control, MainWaits, OthersSame, SameLocals
<1>15. BufferIds'
  <2>1. BufferIdOf(w)'
    BY <1>3 DEF BufferIdOf
  <2>2. \A v \in Workers : v # w => BufferIdOf(v)'
    BY <1>3, FrameBufferIds
  <2>3. \A t \in Tasks : ClearedId(t)'
    BY <1>2, <1>3, FrameClearedIds
  <2> QED
    BY <1>3, <2>1, <2>2, <2>3 DEF Control, BufferIds
<1>16. NodesHeld'
  <2> SUFFICES ASSUME NEW m \in Nodes,
                      state[m] \in {"WAITING_BOTH_CHILDREN", "PROCESSING"},
                      "FoldOperationFailed" \notin errors,
                      \A v \in Workers : pc[v] # "panicked"
               PROVE  FoldersOf(m)' # {}
    BY <1>2, <1>3 DEF NodesHeld, OthersSame, SameLocals
  <2>1. PICK v \in Workers : v \in FoldersOf(m)
    BY DEF Control, NodesHeld, FoldersOf
  <2>2. CASE v = w
    <3>1. m = n
      BY <1>1, <1>2, <2>1, <2>2 DEF FoldersOf, ClaimPCs, BothHoldPCs, ResultHoldPCs
    <3> QED
      BY <1>3, <3>1 DEF FoldersOf
  <2>3. CASE v # w
    <3>1. v \in FoldersOf(m)'
      BY <1>3, <2>1, <2>3 DEF FoldersOf, OthersSame, SameLocals
    <3> QED
      BY <3>1
  <2> QED
    BY <2>2, <2>3
<1>17. ErrorPaths' /\ OnlyReducerErrors'
  BY <1>3 DEF Control, ErrorPaths, OnlyReducerErrors, OthersSame, SameLocals
<1> QED
  BY <1>6, <1>8, <1>10, <1>11, <1>12, <1>13, <1>14, <1>15, <1>16, <1>17 DEF Control

\* Taking a leaf from the leaf queue keeps the control invariant: nobody else has it.
LEMMA ControlPopLeaf ==
    ASSUME TypeInv, TypeInv', Control, NEW w \in Workers, PopLeaf(w)
    PROVE  Control'
<1>1. pc[w] = "pop" /\ readyQ[w] = <<>> /\ leafQ[w] # <<>>
  BY DEF PopLeaf
<1>2. /\ \A v \in Workers : leafQ[v] \in Seq((0 .. NumLeaves - 1) \X Leaves)
      /\ Len(leafQ[w]) \in Nat /\ Len(leafQ[w]) >= 1
  BY <1>1, QueueTake DEF TypeInv, TypeOK, TypeQueues
<1>3. PICK t \in Leaves : t = leafQ[w][1][2]
  BY <1>2
<1>4. 1 \in 1 .. Len(leafQ[w])
  BY <1>2
<1>5. /\ t \in Tasks /\ t \notin Nodes /\ t < nextLeaf /\ leafQ[w][1][1] = t - LeafStart
      /\ state[t] = "NOT_STARTED" /\ Idle(t)
      /\ \A v \in Workers : \A j \in 1 .. Len(leafQ[v]) :
             leafQ[v][j][2] = t => v = w /\ j = 1
  BY <1>3, <1>4, HeapLeaves DEF Control, LeafQueues
<1>6. /\ OthersSame(w) /\ pc'[w] = "alloc" /\ cur'[w] = t /\ leaf'[w] = t - LeafStart
      /\ UNCHANGED <<state, bufferId, readyQ, nextLeaf, stop, main, errors>>
  <2>1. Head(leafQ[w]) = leafQ[w][1]
    BY <1>1, <1>2, QueueTake
  <2> QED
    BY <1>3, <1>5, <2>1 DEF PopLeaf, OthersSame, SameLocals, TypeInv, TypeOK, TypeThreads, TypeLocals
<1>7. ASSUME NEW v \in Workers, NEW i \in 1 .. Len(leafQ'[v])
      PROVE  \E j \in 1 .. Len(leafQ[v]) : /\ leafQ'[v][i] = leafQ[v][j]
                                           /\ v = w => j = i + 1
                                           /\ v # w => j = i
  <2>1. CASE v = w
    <3>1. leafQ'[w] = Tail(leafQ[w])
      BY DEF PopLeaf, TypeInv, TypeOK, TypeQueues
    <3>2. /\ Len(Tail(leafQ[w])) = Len(leafQ[w]) - 1
          /\ \A k \in 1 .. Len(Tail(leafQ[w])) : Tail(leafQ[w])[k] = leafQ[w][k + 1]
      BY <1>1, <1>2, QueueTake
    <3>3. i \in 1 .. Len(leafQ[w]) - 1
      BY <2>1, <3>1, <3>2
    <3>4. i + 1 \in 1 .. Len(leafQ[w])
      BY <1>2, <3>3
    <3> QED
      BY <2>1, <3>1, <3>2, <3>4
  <2>2. CASE v # w
    BY <2>2 DEF PopLeaf, TypeInv, TypeOK, TypeQueues
  <2> QED
    BY <2>1, <2>2
<1>8. pc'[w] \in LeafPCs /\ pc'[w] \in BusyPCs /\ pc'[w] \notin NodePCs \cup NotifyPCs
      /\ pc[w] \notin BusyPCs
  BY <1>1, <1>6, BusyKinds DEF LeafPCs
<1>9. OneWorkerPerTask'
  BY <1>5, <1>6 DEF Control, OneWorkerPerTask, Idle, OthersSame, SameLocals
<1>10. \A u : u # t /\ Idle(u) => \A v \in Workers : pc'[v] \in BusyPCs => cur'[v] # u
  BY <1>6 DEF Idle, OthersSame, SameLocals
<1>11. LeafQueues'
  <2>1. ASSUME NEW v \in Workers, NEW i \in 1 .. Len(leafQ'[v])
        PROVE  /\ leafQ'[v][i][1] = leafQ'[v][i][2] - LeafStart
               /\ leafQ'[v][i][2] < nextLeaf
               /\ state[leafQ'[v][i][2]] = "NOT_STARTED"
               /\ \A x \in Workers : pc'[x] \in BusyPCs => cur'[x] # leafQ'[v][i][2]
    <3>1. PICK j \in 1 .. Len(leafQ[v]) : /\ leafQ'[v][i] = leafQ[v][j]
                                          /\ v = w => j = i + 1
      BY <1>7
    <3>2. leafQ[v][j][2] # t
      BY <1>2, <1>5, <3>1
    <3>3. Idle(leafQ[v][j][2])
      BY DEF Control, LeafQueues
    <3> QED
      BY <1>10, <3>1, <3>2, <3>3 DEF Control, LeafQueues
  <2>2. ASSUME NEW v \in Workers, NEW i \in 1 .. Len(leafQ'[v]),
               NEW u \in Workers, NEW k \in 1 .. Len(leafQ'[u]),
               leafQ'[u][k][2] = leafQ'[v][i][2]
        PROVE  u = v /\ k = i
    <3>1. PICK j \in 1 .. Len(leafQ[v]) : /\ leafQ'[v][i] = leafQ[v][j]
                                          /\ v = w => j = i + 1
                                          /\ v # w => j = i
      BY <1>7
    <3>2. PICK l \in 1 .. Len(leafQ[u]) : /\ leafQ'[u][k] = leafQ[u][l]
                                          /\ u = w => l = k + 1
                                          /\ u # w => l = k
      BY <1>7
    <3>3. u = v /\ l = j
      BY <2>2, <3>1, <3>2 DEF Control, LeafQueues
    <3> QED
      BY <3>1, <3>2, <3>3
  <2> QED
    BY <1>6, <2>1, <2>2 DEF LeafQueues, Idle
<1>12. FutureLeaves'
  BY <1>6 DEF Control, FutureLeaves
<1>13. ChangesPrivate(w) /\ NodesNeverRestart
  BY <1>6 DEF ChangesPrivate, NodesNeverRestart
<1>14. LeafWork' /\ NodeWork' /\ NotifyWork'
  <2>1. LeafWorkOf(w)' /\ NodeWorkOf(w)' /\ NotifyWorkOf(w)'
    BY <1>5, <1>6, <1>8 DEF LeafWorkOf, NodeWorkOf, NotifyWorkOf, NotifyPCs
  <2> QED
    BY <1>6, <1>13, <2>1, FrameWork DEF LeafWork, NodeWork, NotifyWork
<1>15. ReadyQueues'
  <2> SUFFICES ASSUME NEW v \in Workers PROVE ReadyQueueOf(v)'
    BY DEF ReadyQueues
  <2>1. ReadyQueueOf(v) /\ (readyQ[v] # <<>> => readyQ[v][1] \in Nodes /\ v # w)
    BY <1>1 DEF Control, ReadyQueues, TypeInv, TypeOK, TypeQueues
  <2>2. readyQ[v] # <<>> => \A u \in Workers : pc'[u] \in BusyPCs => cur'[u] # readyQ[v][1]
    BY <1>5, <1>10, <2>1 DEF ReadyQueueOf
  <2> QED
    BY <1>6, <2>1, <2>2 DEF ReadyQueueOf, Idle, OthersSame, SameLocals
<1>16. ParentCounts'
  <2>1. \A u \in Tasks : Done(u)' <=> Done(u)
    BY <1>6 DEF Done
  <2>2. pc[w] \notin NotifyPCs
    BY <1>8, BusyKinds
  <2> QED
    BY <1>6, <1>8, <2>1, <2>2, FrameParentCounts
<1>17. ChildrenConsumed' /\ RootReady'
  BY <1>6 DEF Control, ChildrenConsumed, RootReady
<1>18. MainWaits'
  BY <1>1, <1>6 DEF Control, MainWaits, OthersSame, SameLocals
<1>19. BufferIds'
  <2>1. BufferIdOf(w)'
    BY <1>6 DEF BufferIdOf
  <2>2. \A v \in Workers : v # w => BufferIdOf(v)'
    BY <1>6, FrameBufferIds
  <2>3. \A u \in Tasks : ClearedId(u)'
    BY <1>1, <1>6, FrameClearedIds
  <2> QED
    BY <1>6, <2>1, <2>2, <2>3 DEF Control, BufferIds
<1>20. NodesHeld'
  BY <1>1, <1>6, <1>8, FrameNodesHeld, BusyKinds
<1>21. ErrorPaths' /\ OnlyReducerErrors'
  BY <1>6 DEF Control, ErrorPaths, OnlyReducerErrors, OthersSame, SameLocals
<1> QED
  BY <1>9, <1>11, <1>12, <1>14, <1>15, <1>16, <1>17, <1>18, <1>19, <1>20, <1>21 DEF Control

\* Every step of a worker keeps the control invariant.
LEMMA ControlWorkerStep ==
    ASSUME TypeInv, TypeInv', Control, NEW w \in Workers, WorkerStep(w)
    PROVE  Control'
<1>1. CASE LeafStep(w)
  BY <1>1, ControlAlloc, ControlLeafStartProcessing, ControlConvert, ControlConvertFails,
     ControlLeafResetState, ControlLeafResetBufferId, ControlLeafReleaseBuffer,
     ControlLeafSetReady DEF LeafStep
<1>2. CASE NodeStep(w)
  BY <1>2, ControlNodeCheckState, ControlConsumeIsReady, ControlConsumeLoadId,
     ControlStartConsuming, ControlReadChild, ControlFoldAccAcc, ControlFoldFails,
     ControlFoldFailsReleaseLeft, ControlFoldFailsReleaseRight, ControlSetConsumed,
     ControlClearBufferId, ControlReleaseRight, ControlNodeStartProcessing,
     ControlNodeSetReady, ControlSignalCompletion DEF NodeStep
<1> QED
  BY <1>1, <1>2, ControlCheckStop, ControlPopReady, ControlPopLeaf, ControlYield,
     ControlStoreBufferId, ControlWriteResult, ControlGotFirstChild, ControlGotSecondChild
     DEF WorkerStep

-----------------------------------------------------------------------------
(* Steps of the producer and of the caller of run.                          *)

\* What is left to show of a step that no worker takes.
LEMMA ControlOutside ==
    ASSUME Control, UNCHANGED <<state, bufferId, readyQ, pc, workVars, errors>>,
           LeafQueues', FutureLeaves', LeafWork', RootReady', MainWaits'
    PROVE  Control'
<1>1. OneWorkerPerTask' /\ ErrorPaths' /\ OnlyReducerErrors'
  BY DEF Control, OneWorkerPerTask, ErrorPaths, OnlyReducerErrors
<1>2. NodeWork' /\ NotifyWork'
  BY DEF Control, NodeWork, NodeWorkOf, ChildWork, Passed, AtLeft, NotifyWork, NotifyWorkOf
<1>3. ReadyQueues'
  BY DEF Control, ReadyQueues, ReadyQueueOf, Idle
<1>4. ParentCounts' /\ ChildrenConsumed'
  BY DEF Control, ParentCounts, ParentCount, Notified, Done, ChildrenConsumed
<1>5. BufferIds'
  BY DEF Control, BufferIds, BufferIdOf, ClearedId, AtLeft
<1>6. NodesHeld'
  <2>1. \A n \in Nodes : FoldersOf(n)' = FoldersOf(n)
    BY DEF FoldersOf
  <2> QED
    BY <2>1 DEF Control, NodesHeld
<1> QED
  BY <1>1, <1>2, <1>3, <1>4, <1>5, <1>6 DEF Control

\* Queueing a leaf keeps the control invariant: it is a fresh one.
LEMMA ControlProduce ==
    ASSUME TypeInv, TypeInv', Control, Produce
    PROVE  Control'
<1>1. PICK r \in 0 .. NumLeaves - 1 : r = nextLeaf - LeafStart
  BY NumLeavesAssumption DEF TypeInv, TypeOK, TypeThreads, Produce, LeafStart, Size
<1>2. PICK x \in Workers : x = WorkerOf(r)
  BY WorkerOfRange
<1>3. /\ nextLeaf \in Leaves /\ nextLeaf \in Tasks /\ nextLeaf \notin Nodes /\ nextLeaf \in Int
      /\ state[nextLeaf] = "NOT_STARTED"
  <2>1. nextLeaf \in Leaves /\ nextLeaf \in Int
    BY NumLeavesAssumption DEF TypeInv, TypeOK, TypeThreads, Produce, Leaves, LeafStart, Size
  <2> QED
    BY <2>1, HeapLeaves DEF Control, FutureLeaves
<1>4. UNCHANGED <<state, bufferId, readyQ, pc, workVars, errors, stop, main>>
  BY DEF Produce
<1>5. RootReady' /\ MainWaits'
  BY <1>4 DEF Control, RootReady, MainWaits
<1>6. CASE Len(leafQ[x]) < ReadyQCap
  <2> DEFINE item == <<r, nextLeaf>>
  <2>1. /\ leafQ' = [leafQ EXCEPT ![x] = Append(leafQ[x], item)]
        /\ nextLeaf' = nextLeaf + 1
    BY <1>1, <1>2, <1>6 DEF Produce
  <2>2. /\ leafQ[x] \in Seq((0 .. NumLeaves - 1) \X Leaves)
        /\ item \in (0 .. NumLeaves - 1) \X Leaves
        /\ leafQ'[x] = Append(leafQ[x], item)
        /\ \A v \in Workers : v # x => leafQ'[v] = leafQ[v]
    BY <1>3, <2>1 DEF TypeInv, TypeOK, TypeQueues
  <2>3. /\ Len(leafQ[x]) \in Nat /\ Len(leafQ'[x]) = Len(leafQ[x]) + 1
        /\ leafQ'[x][Len(leafQ[x]) + 1] = item
        /\ \A i \in 1 .. Len(leafQ[x]) : leafQ'[x][i] = leafQ[x][i]
    BY <2>2, QueueAdd
  <2>4. ASSUME NEW v \in Workers, NEW i \in 1 .. Len(leafQ'[v])
        PROVE  \/ i \in 1 .. Len(leafQ[v]) /\ leafQ'[v][i] = leafQ[v][i]
               \/ v = x /\ i = Len(leafQ[x]) + 1 /\ leafQ'[v][i] = item
    <3>1. CASE v = x
      <4>1. i \in 1 .. Len(leafQ[x]) + 1
        BY <2>3, <3>1
      <4>2. i \in 1 .. Len(leafQ[x]) \/ i = Len(leafQ[x]) + 1
        BY <2>3, <4>1
      <4> QED
        BY <2>3, <3>1, <4>2
    <3>2. CASE v # x
      BY <2>2, <3>2
    <3> QED
      BY <3>1, <3>2
  <2>5. \A v \in Workers : \A i \in 1 .. Len(leafQ[v]) :
            leafQ[v][i][2] < nextLeaf /\ leafQ[v][i][2] \in Int /\ leafQ[v][i][2] # nextLeaf
    <3>1. ASSUME NEW v \in Workers, NEW i \in 1 .. Len(leafQ[v])
          PROVE  leafQ[v][i][2] < nextLeaf /\ leafQ[v][i][2] \in Int
      <4>1. leafQ[v][i][2] \in Leaves
        BY DEF TypeInv, TypeOK, TypeQueues
      <4>2. leafQ[v][i][2] \in Int
        BY <4>1, NumLeavesAssumption DEF Leaves, LeafStart, Size
      <4> QED
        BY <4>2 DEF Control, LeafQueues
    <3> QED
      BY <1>3, <3>1
  <2>6. Idle(nextLeaf)
    <3> SUFFICES ASSUME NEW v \in Workers, pc[v] \in BusyPCs, cur[v] = nextLeaf PROVE FALSE
      BY DEF Idle
    <3>1. pc[v] \in LeafPCs
      BY <1>3, BusyKinds, BusyTask DEF Control, NotifyWork, NotifyWorkOf
    <3> QED
      BY <1>3, <3>1 DEF Control, LeafWork, LeafWorkOf
  <2>7. LeafQueues'
    <3>1. ASSUME NEW v \in Workers, NEW i \in 1 .. Len(leafQ'[v])
          PROVE  /\ leafQ'[v][i][1] = leafQ'[v][i][2] - LeafStart
                 /\ leafQ'[v][i][2] < nextLeaf'
                 /\ state[leafQ'[v][i][2]] = "NOT_STARTED"
                 /\ Idle(leafQ'[v][i][2])
      <4>1. CASE i \in 1 .. Len(leafQ[v]) /\ leafQ'[v][i] = leafQ[v][i]
        <5>1. leafQ[v][i][2] < nextLeaf + 1
          BY <1>3, <2>5, <4>1
        <5> QED
          BY <2>1, <4>1, <5>1 DEF Control, LeafQueues
      <4>2. CASE leafQ'[v][i] = item
        BY <1>1, <1>3, <2>1, <2>6, <4>2
      <4> QED
        BY <2>4, <4>1, <4>2
    <3>2. ASSUME NEW v \in Workers, NEW i \in 1 .. Len(leafQ'[v]),
                 NEW u \in Workers, NEW k \in 1 .. Len(leafQ'[u]),
                 leafQ'[u][k][2] = leafQ'[v][i][2]
          PROVE  u = v /\ k = i
      <4>1. CASE leafQ'[v][i] = item
        <5>1. v = x /\ i = Len(leafQ[x]) + 1
          <6>1. leafQ'[v][i][2] = nextLeaf
            BY <4>1
          <6>2. ~(i \in 1 .. Len(leafQ[v]) /\ leafQ'[v][i] = leafQ[v][i])
            BY <2>5, <6>1
          <6> QED
            BY <2>4, <6>2
        <5>2. u = x /\ k = Len(leafQ[x]) + 1
          <6>1. leafQ'[u][k][2] = nextLeaf
            BY <3>2, <4>1
          <6>2. ~(k \in 1 .. Len(leafQ[u]) /\ leafQ'[u][k] = leafQ[u][k])
            BY <2>5, <6>1
          <6> QED
            BY <2>4, <6>2
        <5> QED
          BY <5>1, <5>2
      <4>2. CASE i \in 1 .. Len(leafQ[v]) /\ leafQ'[v][i] = leafQ[v][i]
        <5>1. k \in 1 .. Len(leafQ[u]) /\ leafQ'[u][k] = leafQ[u][k]
          BY <2>4, <2>5, <3>2, <4>2
        <5> QED
          BY <3>2, <4>2, <5>1 DEF Control, LeafQueues
      <4> QED
        BY <2>4, <4>1, <4>2
    <3> QED
      BY <1>4, <3>1, <3>2 DEF LeafQueues, Idle
  <2>8. FutureLeaves'
    <3> SUFFICES ASSUME NEW t \in Leaves, t >= nextLeaf + 1 PROVE state[t] = "NOT_STARTED"
      BY <1>4, <2>1 DEF FutureLeaves
    <3>1. t >= nextLeaf
      BY <1>3, NumLeavesAssumption DEF Leaves, LeafStart, Size
    <3> QED
      BY <3>1 DEF Control, FutureLeaves
  <2>9. LeafWork'
    <3> SUFFICES ASSUME NEW v \in Workers, pc[v] \in LeafPCs, cur[v] < nextLeaf
                 PROVE  cur[v] < nextLeaf + 1
      BY <1>4, <2>1 DEF Control, LeafWork, LeafWorkOf
    <3>1. cur[v] \in Int
      BY BusyTask, NumLeavesAssumption DEF Leaves, LeafStart, Size
    <3> QED
      BY <1>3, <3>1
  <2> QED
    BY <1>4, <1>5, <2>7, <2>8, <2>9, ControlOutside
<1>7. CASE ~(Len(leafQ[x]) < ReadyQCap)
  <2>1. UNCHANGED <<leafQ, nextLeaf>>
    BY <1>1, <1>2, <1>7 DEF Produce
  <2>2. LeafQueues' /\ FutureLeaves' /\ LeafWork'
    BY <1>4, <2>1 DEF Control, LeafQueues, FutureLeaves, LeafWork, LeafWorkOf, Idle
  <2> QED
    BY <1>4, <1>5, <2>2, ControlOutside
<1> QED
  BY <1>6, <1>7

\* The end of the producer and the steps of run after the workers have been started keep
\* the control invariant.
LEMMA ControlRun ==
    ASSUME TypeInv, Control,
           ProducerDone \/ WaitCompletion \/ LoadRoot \/ ReadRoot \/ DropRoot \/ JoinWorkers
    PROVE  Control'
<1>1. UNCHANGED <<state, bufferId, readyQ, leafQ, nextLeaf, pc, workVars, errors>>
  BY DEF ProducerDone, WaitCompletion, LoadRoot, ReadRoot, DropRoot, JoinWorkers
<1>2. LeafQueues' /\ FutureLeaves' /\ LeafWork'
  BY <1>1 DEF Control, LeafQueues, FutureLeaves, LeafWork, LeafWorkOf, Idle
<1>3. stop' = stop
  BY DEF ProducerDone, WaitCompletion, LoadRoot, ReadRoot, DropRoot, JoinWorkers, Control,
     MainWaits
<1>4. RootReady'
  BY <1>1, <1>3 DEF Control, RootReady
<1>5. MainWaits'
  BY <1>1, <1>3 DEF Control, MainWaits, ProducerDone, WaitCompletion, LoadRoot, ReadRoot,
     DropRoot, JoinWorkers
<1> QED
  BY <1>1, <1>2, <1>4, <1>5, ControlOutside

\* Before run has started the workers nothing has happened, and starting them keeps the
\* control invariant.
LEMMA ControlStart ==
    ASSUME TypeInv, Control, Start
    PROVE  Control'
<1>1. /\ UNCHANGED <<state, bufferId, readyQ, leafQ, nextLeaf, stop, workVars, errors>>
      /\ main' \in {"wait", "InvalidInput"}
  BY DEF Start
<1>2. \A w \in Workers : pc[w] = "unborn"
  BY DEF TypeInv, Shape, Start
<1>3. \A w \in Workers : pc'[w] \in {"unborn", "check"}
  BY <1>2 DEF Start
<1>4. \A w \in Workers : pc[w] \notin BusyPCs /\ pc'[w] \notin BusyPCs
  BY <1>2, <1>3, BusyKinds
<1>5. \A w \in Workers : /\ pc[w] \notin LeafPCs \cup NodePCs \cup NotifyPCs
                         /\ pc'[w] \notin LeafPCs \cup NodePCs \cup NotifyPCs
  BY <1>4, BusyKinds
<1>6. OneWorkerPerTask' /\ LeafWork' /\ NodeWork' /\ NotifyWork'
  BY <1>3, <1>4, <1>5 DEF OneWorkerPerTask, LeafWork, LeafWorkOf, NodeWork, NodeWorkOf,
     NotifyWork, NotifyWorkOf, NotifyPCs
<1>7. LeafQueues' /\ FutureLeaves'
  BY <1>1, <1>4 DEF Control, LeafQueues, FutureLeaves, Idle
<1>8. ReadyQueues'
  BY <1>1, <1>2 DEF Control, ReadyQueues, ReadyQueueOf
<1>9. ParentCounts' /\ ChildrenConsumed' /\ RootReady'
  BY <1>1, <1>5 DEF Control, ParentCounts, ParentCount, Notified, Done, ChildrenConsumed, RootReady
<1>10. MainWaits'
  BY <1>1 DEF MainWaits
<1>11. BufferIds'
  BY <1>1, <1>2, <1>3 DEF Control, BufferIds, BufferIdOf, ClearedId
<1>12. NodesHeld'
  <2>1. \A n \in Nodes : FoldersOf(n) \subseteq FoldersOf(n)'
    BY <1>1, <1>2 DEF FoldersOf, ClaimPCs, BothHoldPCs, ResultHoldPCs
  <2> QED
    BY <1>1, <1>2, <2>1 DEF Control, NodesHeld
<1>13. ErrorPaths' /\ OnlyReducerErrors'
  BY <1>1, <1>3 DEF Control, ErrorPaths, OnlyReducerErrors
<1> QED
  BY <1>6, <1>7, <1>8, <1>9, <1>10, <1>11, <1>12, <1>13 DEF Control

\* A step that changes nothing keeps the control invariant.
LEMMA ControlStutter ==
    ASSUME Control, UNCHANGED vars
    PROVE  Control'
<1>1. LeafQueues' /\ FutureLeaves' /\ LeafWork'
  BY DEF vars, Control, LeafQueues, FutureLeaves, LeafWork, LeafWorkOf, Idle
<1>2. RootReady' /\ MainWaits'
  BY DEF vars, Control, RootReady, MainWaits
<1> QED
  BY <1>1, <1>2, ControlOutside DEF vars

-----------------------------------------------------------------------------
(* The theorems.                                                            *)

\* The control invariant holds before run has been called.
LEMMA ControlInit == Init => Control
<1> SUFFICES ASSUME Init PROVE Control
  OBVIOUS
<1>1. \A w \in Workers : pc[w] = "unborn" /\ readyQ[w] = <<>> /\ leafQ[w] = <<>>
  BY DEF Init
<1>2. \A t \in Tasks : state[t] = "NOT_STARTED"
  BY DEF Init
<1>3. \A w \in Workers : pc[w] \notin BusyPCs /\ pc[w] \notin LeafPCs \cup NodePCs \cup NotifyPCs
  BY <1>1, BusyKinds
<1>4. OneWorkerPerTask /\ LeafWork /\ NodeWork /\ NotifyWork
  BY <1>1, <1>3 DEF OneWorkerPerTask, LeafWork, LeafWorkOf, NodeWork, NodeWorkOf, NotifyWork,
     NotifyWorkOf, NotifyPCs
<1>5. LeafQueues
  <2>1. \A w \in Workers : 1 .. Len(leafQ[w]) = {}
    BY <1>1
  <2> QED
    BY <2>1 DEF LeafQueues
<1>6. FutureLeaves
  BY <1>2, HeapLeaves DEF FutureLeaves
<1>7. ReadyQueues
  BY <1>1 DEF ReadyQueues, ReadyQueueOf
<1>8. ParentCounts /\ ChildrenConsumed
  BY <1>2, HeapChildren DEF ParentCounts, ParentCount, Notified, Done, ChildrenConsumed
<1>9. RootReady /\ MainWaits
  BY DEF Init, RootReady, MainWaits
<1>10. BufferIds
  BY <1>1, <1>2 DEF BufferIds, BufferIdOf, ClearedId
<1>11. NodesHeld
  BY <1>2, HeapChildren DEF NodesHeld
<1>12. ErrorPaths /\ OnlyReducerErrors
  BY <1>1 DEF Init, ErrorPaths, OnlyReducerErrors
<1> QED
  BY <1>4, <1>5, <1>6, <1>7, <1>8, <1>9, <1>10, <1>11, <1>12 DEF Control

\* The control invariant is inductive relative to the type invariant.
LEMMA ControlNext == TypeInv /\ TypeInv' /\ Control /\ [Next]_vars => Control'
BY ControlWorkerStep, ControlProduce, ControlRun, ControlStart, ControlStutter
   DEF Next, ProducerStep, MainStep, Terminated

\* In every reachable state of the folder, whatever the interleaving of its threads: a
\* task is in the hands of one worker at most, a worker finds every task it handles in
\* the state its code expects, a node is queued once and only when both its children are
\* published, its state counts the children that have reported, nodes past their fold have
\* consumed their children, and stop is set only when the root is published.
THEOREM ControlInvariant == Spec => []Control
BY ControlInit, ControlNext, TypeInvariant, PTL DEF Spec

\* No compare-exchange of a task state and no claim of a child ever fails: the only
\* WorkerErrors logged by the loop of WorkerLocal::run come from the reducer.
THEOREM ErrorsComeFromReducer == Spec => []OnlyReducerErrors
<1>1. Control => OnlyReducerErrors
  BY DEF Control
<1> QED
  BY <1>1, ControlInvariant, PTL

-----------------------------------------------------------------------------
(***************************************************************************)
(* The buffer layer of the parallel tree folder, for every number of       *)
(* leaves, workers and blocks: every block of the pool has exactly one      *)
(* owner, a published result is the fold of its own subtree, and no handle  *)
(* reads an empty slot.                                                     *)
(*                                                                         *)
(* A step of a worker moves at most one block between owners and writes to  *)
(* a block only while the worker owns it; OwnedOnce then protects every     *)
(* other handle and every published result.  The lemma of an action says    *)
(* which block moves, and what the worker knows about its own handles       *)
(* afterwards.                                                              *)
(***************************************************************************)

-----------------------------------------------------------------------------
(* The frame of a step.                                                     *)

\* The other workers keep the accumulators they have read or computed.
OthersKeepValues(w) == \A v \in Workers \ {w} : lval'[v] = lval[v] /\ rval'[v] = rval[v]

SameOwners(b) ==
    /\ InFree(b)' <=> InFree(b)
    /\ \A w \in Workers : /\ HasLeft(w, b)' <=> HasLeft(w, b)
                          /\ HasRight(w, b)' <=> HasRight(w, b)
    /\ \A t \in Tasks : TaskHas(t, b)' <=> TaskHas(t, b)
    /\ MainHas(b)' <=> MainHas(b)

\* A result that was published and still is has its buffer, and the buffer its contents.
PublishedKept ==
    \A t \in Tasks : TaskHolds(t) /\ TaskHolds(t)' =>
        /\ bufferId'[t] = bufferId[t]
        /\ slot'[bufferId[t]] = slot[bufferId[t]]

\* A block whose owners stay the same keeps its one owner.
LEMMA OwnersKept ==
    ASSUME NEW b \in Blocks, Owned(b), OwnedOnce(b), SameOwners(b)
    PROVE  Owned(b)' /\ OwnedOnce(b)'
BY DEF Owned, OwnedOnce, SameOwners

\* The handles of the workers that do not move.
LEMMA FrameHolders ==
    ASSUME NEW w \in Workers, OthersSame(w), NEW v \in Workers, v # w, NEW b
    PROVE  (HasLeft(v, b)' <=> HasLeft(v, b)) /\ (HasRight(v, b)' <=> HasRight(v, b))
BY DEF OthersSame, SameLocals, HasLeft, HasRight, HoldsLeft, HoldsRight, AtLeft

\* The published results, when no task becomes or stops being published.
LEMMA FramePublished ==
    ASSUME main' = main,
           \A t \in Tasks : state'[t] = "READY" <=> state[t] = "READY",
           \A t \in Tasks : state[t] = "READY" => bufferId'[t] = bufferId[t],
           NEW t \in Tasks
    PROVE  /\ TaskHolds(t)' <=> TaskHolds(t)
           /\ TaskHolds(t) => bufferId'[t] = bufferId[t]
           /\ \A b : TaskHas(t, b)' <=> TaskHas(t, b)
BY DEF TaskHas, TaskHolds, RootTaken

\* What a worker that does not move knows about its handles.
LEMMA FrameValues ==
    ASSUME NEW v \in Workers, ValuesOf(v), SameLocals(v), lval'[v] = lval[v], rval'[v] = rval[v],
           HoldsLeft(v) => slot'[lbuf[v]] = slot[lbuf[v]],
           HoldsRight(v) => slot'[rbuf[v]] = slot[rbuf[v]]
    PROVE  ValuesOf(v)'
BY DEF ValuesOf, SameLocals, HoldsLeft, HoldsRight, AtLeft, LeafHoldPCs, BothHoldPCs,
   ResultHoldPCs, ClaimPCs

\* A published task has a block of the pool.
LEMMA PublishedBlock ==
    ASSUME Control, NEW t \in Tasks, TaskHolds(t)
    PROVE  bufferId[t] \in Blocks /\ TaskHas(t, bufferId[t])
BY DEF Control, BufferIds, TaskHolds, TaskHas

\* A handle is on a block of the pool.
LEMMA HandleBlock ==
    ASSUME TypeInv, NEW w \in Workers
    PROVE  /\ HoldsLeft(w) => lbuf[w] \in Blocks /\ HasLeft(w, lbuf[w])
           /\ HoldsRight(w) => rbuf[w] \in Blocks /\ HasRight(w, rbuf[w])
BY DEF TypeInv, Shape, ShapeOf, HasLeft, HasRight

\* What is left to show of a worker's step.
LEMMA BufferStep ==
    ASSUME TypeInv, Control, Buffers, NEW w \in Workers, OthersSame(w), OthersKeepValues(w),
           UNCHANGED <<main, mainBuf, result>>,
           FreeDistinct',
           \A b \in Blocks : SameOwners(b) \/ (Owned(b)' /\ OwnedOnce(b)'),
           \A b \in Blocks : slot'[b] = slot[b] \/ HasLeft(w, b) \/ HasRight(w, b),
           \A t \in Tasks : TaskHolds(t)' => IF TaskHolds(t) THEN bufferId'[t] = bufferId[t]
                                                            ELSE slot'[bufferId'[t]] = t,
           ValuesOf(w)', pc'[w] # "panicked"
    PROVE  Buffers' /\ PublishedKept
<1>1. \A b \in Blocks : Owned(b) /\ OwnedOnce(b)
  BY DEF Buffers, BlocksOwned
<1>2. BlocksOwned'
  BY <1>1, OwnersKept DEF BlocksOwned
<1>3. ASSUME NEW t \in Tasks, TaskHolds(t)
      PROVE  slot'[bufferId[t]] = slot[bufferId[t]] /\ slot[bufferId[t]] = t
  <2>1. bufferId[t] \in Blocks /\ TaskHas(t, bufferId[t])
    BY <1>3, PublishedBlock
  <2>2. ~HasLeft(w, bufferId[t]) /\ ~HasRight(w, bufferId[t])
    BY <1>1, <2>1 DEF OwnedOnce
  <2> QED
    BY <1>3, <2>1, <2>2 DEF Buffers, PublishedCorrect
<1>4. ASSUME NEW v \in Workers, v # w PROVE ValuesOf(v)'
  <2>1. HoldsLeft(v) => slot'[lbuf[v]] = slot[lbuf[v]]
    BY <1>1, <1>4, HandleBlock DEF OwnedOnce
  <2>2. HoldsRight(v) => slot'[rbuf[v]] = slot[rbuf[v]]
    BY <1>1, <1>4, HandleBlock DEF OwnedOnce
  <2> QED
    BY <1>4, <2>1, <2>2, FrameValues DEF Buffers, WorkerValues, OthersSame, OthersKeepValues
<1>5. WorkerValues'
  BY <1>4 DEF WorkerValues
<1>6. MainValue'
  <2>1. MainHolds => mainBuf \in Blocks /\ MainHas(mainBuf)
    BY DEF TypeInv, Shape, MainHas
  <2>2. MainHolds => slot'[mainBuf] = slot[mainBuf]
    BY <1>1, <2>1 DEF OwnedOnce
  <2> QED
    BY <2>2 DEF Buffers, MainValue, MainHolds
<1>7. NoPanic'
  BY DEF Buffers, NoPanic, OthersSame, SameLocals
<1>8. PublishedCorrect' /\ PublishedKept
  BY <1>3 DEF PublishedCorrect, PublishedKept
<1> QED
  BY <1>2, <1>5, <1>6, <1>7, <1>8 DEF Buffers

\* What is left to show of a worker's step that moves no block.
LEMMA BufferQuietStep ==
    ASSUME TypeInv, Control, Buffers, NEW w \in Workers, OthersSame(w), OthersKeepValues(w),
           UNCHANGED <<free, main, mainBuf, result>>,
           HoldsLeft(w)' <=> HoldsLeft(w), HoldsLeft(w) => lbuf'[w] = lbuf[w],
           HoldsRight(w)' <=> HoldsRight(w), HoldsRight(w) => rbuf'[w] = rbuf[w],
           \A t \in Tasks : state'[t] = "READY" <=> state[t] = "READY",
           \A t \in Tasks : state[t] = "READY" => bufferId'[t] = bufferId[t],
           \A b \in Blocks : slot'[b] = slot[b] \/ HasLeft(w, b) \/ HasRight(w, b),
           ValuesOf(w)', pc'[w] # "panicked"
    PROVE  Buffers' /\ PublishedKept
<1>1. FreeDistinct'
  BY DEF Buffers, FreeDistinct
<1>2. ASSUME NEW b \in Blocks PROVE SameOwners(b)
  <2>1. InFree(b)' <=> InFree(b)
    BY DEF InFree
  <2>2. MainHas(b)' <=> MainHas(b)
    BY DEF MainHas, MainHolds
  <2>3. \A t \in Tasks : TaskHas(t, b)' <=> TaskHas(t, b)
    BY FramePublished
  <2>4. \A v \in Workers : /\ HasLeft(v, b)' <=> HasLeft(v, b)
                           /\ HasRight(v, b)' <=> HasRight(v, b)
    BY FrameHolders DEF HasLeft, HasRight
  <2> QED
    BY <2>1, <2>2, <2>3, <2>4 DEF SameOwners
<1>3. \A t \in Tasks : TaskHolds(t)' => TaskHolds(t) /\ bufferId'[t] = bufferId[t]
  BY FramePublished
<1> QED
  BY <1>1, <1>2, <1>3, BufferStep

-----------------------------------------------------------------------------
(* Steps of a worker that move no block.                                    *)

\* Reading stop at the head of the worker loop moves no block.
LEMMA BufferCheckStop ==
    ASSUME TypeInv, Control, Buffers, NEW w \in Workers, CheckStop(w)
    PROVE  Buffers' /\ PublishedKept
<1>1. OthersSame(w) /\ OthersKeepValues(w) /\ pc'[w] # "panicked"
  BY DEF TypeInv, TypeOK, TypeThreads, TypeLocals, CheckStop, OthersSame, SameLocals,
     OthersKeepValues
<1>2. /\ HoldsLeft(w)' <=> HoldsLeft(w)
      /\ HoldsLeft(w) => lbuf'[w] = lbuf[w]
      /\ HoldsRight(w)' <=> HoldsRight(w)
      /\ HoldsRight(w) => rbuf'[w] = rbuf[w]
  BY DEF TypeInv, TypeOK, TypeThreads, TypeLocals, CheckStop, HoldsLeft, HoldsRight,
     AtLeft, LeafHoldPCs, BothHoldPCs, ResultHoldPCs, ClaimPCs
<1>3. \A t \in Tasks : /\ state'[t] = "READY" <=> state[t] = "READY"
                       /\ state[t] = "READY" => bufferId'[t] = bufferId[t]
  BY DEF TypeInv, TypeOK, TypeHeap, CheckStop
<1>4. UNCHANGED slot
  BY DEF CheckStop
<1>5. ValuesOf(w)'
  BY <1>4, BusyTask DEF TypeInv, TypeOK, TypeHeap, TypePool, TypeThreads, TypeLocals,
     CheckStop, Buffers, WorkerValues, ValuesOf, AtLeft, NodePCs, ChildPCs, LeafHoldPCs,
     BothHoldPCs, ResultHoldPCs, ClaimPCs
<1> QED
  BY <1>1, <1>2, <1>3, <1>4, <1>5, BufferQuietStep DEF CheckStop

\* Taking a node from the ready queue moves no block.
LEMMA BufferPopReady ==
    ASSUME TypeInv, Control, Buffers, NEW w \in Workers, PopReady(w)
    PROVE  Buffers' /\ PublishedKept
<1>1. OthersSame(w) /\ OthersKeepValues(w) /\ pc'[w] # "panicked"
  BY DEF TypeInv, TypeOK, TypeThreads, TypeLocals, PopReady, OthersSame, SameLocals,
     OthersKeepValues
<1>2. /\ HoldsLeft(w)' <=> HoldsLeft(w)
      /\ HoldsLeft(w) => lbuf'[w] = lbuf[w]
      /\ HoldsRight(w)' <=> HoldsRight(w)
      /\ HoldsRight(w) => rbuf'[w] = rbuf[w]
  BY DEF TypeInv, TypeOK, TypeThreads, TypeLocals, PopReady, HoldsLeft, HoldsRight,
     AtLeft, LeafHoldPCs, BothHoldPCs, ResultHoldPCs, ClaimPCs
<1>3. \A t \in Tasks : /\ state'[t] = "READY" <=> state[t] = "READY"
                       /\ state[t] = "READY" => bufferId'[t] = bufferId[t]
  BY DEF TypeInv, TypeOK, TypeHeap, PopReady
<1>4. UNCHANGED slot
  BY DEF PopReady
<1>5. ValuesOf(w)'
  BY <1>4, BusyTask DEF TypeInv, TypeOK, TypeHeap, TypePool, TypeThreads, TypeLocals,
     PopReady, Buffers, WorkerValues, ValuesOf, AtLeft, NodePCs, ChildPCs, LeafHoldPCs,
     BothHoldPCs, ResultHoldPCs, ClaimPCs
<1> QED
  BY <1>1, <1>2, <1>3, <1>4, <1>5, BufferQuietStep DEF PopReady

\* Taking a leaf from the leaf queue moves no block.
LEMMA BufferPopLeaf ==
    ASSUME TypeInv, Control, Buffers, NEW w \in Workers, PopLeaf(w)
    PROVE  Buffers' /\ PublishedKept
<1>1. OthersSame(w) /\ OthersKeepValues(w) /\ pc'[w] # "panicked"
  BY DEF TypeInv, TypeOK, TypeThreads, TypeLocals, PopLeaf, OthersSame, SameLocals,
     OthersKeepValues
<1>2. /\ HoldsLeft(w)' <=> HoldsLeft(w)
      /\ HoldsLeft(w) => lbuf'[w] = lbuf[w]
      /\ HoldsRight(w)' <=> HoldsRight(w)
      /\ HoldsRight(w) => rbuf'[w] = rbuf[w]
  BY DEF TypeInv, TypeOK, TypeThreads, TypeLocals, PopLeaf, HoldsLeft, HoldsRight,
     AtLeft, LeafHoldPCs, BothHoldPCs, ResultHoldPCs, ClaimPCs
<1>3. \A t \in Tasks : /\ state'[t] = "READY" <=> state[t] = "READY"
                       /\ state[t] = "READY" => bufferId'[t] = bufferId[t]
  BY DEF TypeInv, TypeOK, TypeHeap, PopLeaf
<1>4. UNCHANGED slot
  BY DEF PopLeaf
<1>5. ValuesOf(w)'
  BY <1>4, BusyTask DEF TypeInv, TypeOK, TypeHeap, TypePool, TypeThreads, TypeLocals,
     PopLeaf, Buffers, WorkerValues, ValuesOf, AtLeft, NodePCs, ChildPCs, LeafHoldPCs,
     BothHoldPCs, ResultHoldPCs, ClaimPCs
<1> QED
  BY <1>1, <1>2, <1>3, <1>4, <1>5, BufferQuietStep DEF PopLeaf

\* Yielding with both queues empty moves no block.
LEMMA BufferYield ==
    ASSUME TypeInv, Control, Buffers, NEW w \in Workers, Yield(w)
    PROVE  Buffers' /\ PublishedKept
<1>1. OthersSame(w) /\ OthersKeepValues(w) /\ pc'[w] # "panicked"
  BY DEF TypeInv, TypeOK, TypeThreads, TypeLocals, Yield, OthersSame, SameLocals,
     OthersKeepValues
<1>2. /\ HoldsLeft(w)' <=> HoldsLeft(w)
      /\ HoldsLeft(w) => lbuf'[w] = lbuf[w]
      /\ HoldsRight(w)' <=> HoldsRight(w)
      /\ HoldsRight(w) => rbuf'[w] = rbuf[w]
  BY DEF TypeInv, TypeOK, TypeThreads, TypeLocals, Yield, HoldsLeft, HoldsRight, AtLeft,
     LeafHoldPCs, BothHoldPCs, ResultHoldPCs, ClaimPCs
<1>3. \A t \in Tasks : /\ state'[t] = "READY" <=> state[t] = "READY"
                       /\ state[t] = "READY" => bufferId'[t] = bufferId[t]
  BY DEF TypeInv, TypeOK, TypeHeap, Yield
<1>4. UNCHANGED slot
  BY DEF Yield
<1>5. ValuesOf(w)'
  BY <1>4, BusyTask DEF TypeInv, TypeOK, TypeHeap, TypePool, TypeThreads, TypeLocals,
     Yield, Buffers, WorkerValues, ValuesOf, AtLeft, NodePCs, ChildPCs, LeafHoldPCs,
     BothHoldPCs, ResultHoldPCs, ClaimPCs
<1> QED
  BY <1>1, <1>2, <1>3, <1>4, <1>5, BufferQuietStep DEF Yield

\* The store of buffer_id in try_start_processing is on a task that is not published, and
\* moves no block.
LEMMA BufferStoreBufferId ==
    ASSUME TypeInv, Control, Buffers, NEW w \in Workers, StoreBufferId(w)
    PROVE  Buffers' /\ PublishedKept
<1>1. state[cur[w]] # "READY" /\ cur[w] \in Tasks
  BY BusyTask DEF StoreBufferId, Control, LeafWork, LeafWorkOf, NodeWork, NodeWorkOf,
     LeafPCs, NodePCs, LeafHoldPCs, ResultHoldPCs
<1>2. OthersSame(w) /\ OthersKeepValues(w) /\ pc'[w] # "panicked"
  BY <1>1 DEF TypeInv, TypeOK, TypeThreads, TypeLocals, StoreBufferId, OthersSame,
     SameLocals, OthersKeepValues
<1>3. /\ HoldsLeft(w)' <=> HoldsLeft(w)
      /\ HoldsLeft(w) => lbuf'[w] = lbuf[w]
      /\ HoldsRight(w)' <=> HoldsRight(w)
      /\ HoldsRight(w) => rbuf'[w] = rbuf[w]
  BY <1>1 DEF TypeInv, TypeOK, TypeThreads, TypeLocals, StoreBufferId, HoldsLeft,
     HoldsRight, AtLeft, LeafHoldPCs, BothHoldPCs, ResultHoldPCs, ClaimPCs
<1>4. \A t \in Tasks : /\ state'[t] = "READY" <=> state[t] = "READY"
                       /\ state[t] = "READY" => bufferId'[t] = bufferId[t]
  BY <1>1 DEF TypeInv, TypeOK, TypeHeap, StoreBufferId
<1>5. UNCHANGED slot
  BY <1>1 DEF StoreBufferId
<1>6. ValuesOf(w)'
  BY <1>1, <1>5, BusyTask DEF TypeInv, TypeOK, TypeHeap, TypePool, TypeThreads,
     TypeLocals, StoreBufferId, Buffers, WorkerValues, ValuesOf, AtLeft, NodePCs,
     ChildPCs, LeafHoldPCs, BothHoldPCs, ResultHoldPCs, ClaimPCs
<1> QED
  BY <1>1, <1>2, <1>3, <1>4, <1>5, <1>6, BufferQuietStep DEF StoreBufferId

\* LeafTask::try_start_processing moves no block.
LEMMA BufferLeafStartProcessing ==
    ASSUME TypeInv, Control, Buffers, NEW w \in Workers, LeafStartProcessing(w)
    PROVE  Buffers' /\ PublishedKept
<1>1. state[cur[w]] = "NOT_STARTED" /\ cur[w] \in Tasks
  BY BusyTask DEF LeafStartProcessing, Control, LeafWork, LeafWorkOf, LeafPCs, LeafHoldPCs
<1>2. OthersSame(w) /\ OthersKeepValues(w) /\ pc'[w] # "panicked"
  BY <1>1 DEF TypeInv, TypeOK, TypeThreads, TypeLocals, LeafStartProcessing, OthersSame,
     SameLocals, OthersKeepValues
<1>3. /\ HoldsLeft(w)' <=> HoldsLeft(w)
      /\ HoldsLeft(w) => lbuf'[w] = lbuf[w]
      /\ HoldsRight(w)' <=> HoldsRight(w)
      /\ HoldsRight(w) => rbuf'[w] = rbuf[w]
  BY <1>1 DEF TypeInv, TypeOK, TypeThreads, TypeLocals, LeafStartProcessing, HoldsLeft,
     HoldsRight, AtLeft, LeafHoldPCs, BothHoldPCs, ResultHoldPCs, ClaimPCs
<1>4. \A t \in Tasks : /\ state'[t] = "READY" <=> state[t] = "READY"
                       /\ state[t] = "READY" => bufferId'[t] = bufferId[t]
  BY <1>1 DEF TypeInv, TypeOK, TypeHeap, LeafStartProcessing
<1>5. UNCHANGED slot
  BY <1>1 DEF LeafStartProcessing
<1>6. ValuesOf(w)'
  BY <1>1, <1>5, BusyTask DEF TypeInv, TypeOK, TypeHeap, TypePool, TypeThreads,
     TypeLocals, LeafStartProcessing, Buffers, WorkerValues, ValuesOf, AtLeft, NodePCs,
     ChildPCs, LeafHoldPCs, BothHoldPCs, ResultHoldPCs, ClaimPCs
<1> QED
  BY <1>1, <1>2, <1>3, <1>4, <1>5, <1>6, BufferQuietStep DEF LeafStartProcessing

\* A leaf conversion that succeeds moves no block, and its result is the leaf's accumulator.
LEMMA BufferConvert ==
    ASSUME TypeInv, Control, Buffers, NEW w \in Workers, Convert(w)
    PROVE  Buffers' /\ PublishedKept
<1>1. StrictToAcc(leaf[w]) = cur[w]
  <2>1. cur[w] \in Leaves /\ leaf[w] = cur[w] - LeafStart
    BY BusyTask DEF Convert, Control, LeafWork, LeafWorkOf, LeafPCs, LeafHoldPCs
  <2> QED
    BY <2>1, NumLeavesAssumption DEF StrictToAcc, Leaves, LeafStart, Size
<1>2. OthersSame(w) /\ OthersKeepValues(w) /\ pc'[w] # "panicked"
  BY <1>1 DEF TypeInv, TypeOK, TypeThreads, TypeLocals, Convert, OthersSame, SameLocals,
     OthersKeepValues
<1>3. /\ HoldsLeft(w)' <=> HoldsLeft(w)
      /\ HoldsLeft(w) => lbuf'[w] = lbuf[w]
      /\ HoldsRight(w)' <=> HoldsRight(w)
      /\ HoldsRight(w) => rbuf'[w] = rbuf[w]
  BY <1>1 DEF TypeInv, TypeOK, TypeThreads, TypeLocals, Convert, HoldsLeft, HoldsRight,
     AtLeft, LeafHoldPCs, BothHoldPCs, ResultHoldPCs, ClaimPCs
<1>4. \A t \in Tasks : /\ state'[t] = "READY" <=> state[t] = "READY"
                       /\ state[t] = "READY" => bufferId'[t] = bufferId[t]
  BY <1>1 DEF TypeInv, TypeOK, TypeHeap, Convert
<1>5. UNCHANGED slot
  BY <1>1 DEF Convert
<1>6. ValuesOf(w)'
  BY <1>1, <1>5, BusyTask DEF TypeInv, TypeOK, TypeHeap, TypePool, TypeThreads,
     TypeLocals, Convert, Buffers, WorkerValues, ValuesOf, AtLeft, NodePCs, ChildPCs,
     LeafHoldPCs, BothHoldPCs, ResultHoldPCs, ClaimPCs
<1> QED
  BY <1>1, <1>2, <1>3, <1>4, <1>5, <1>6, BufferQuietStep DEF Convert

\* A leaf conversion that fails moves no block.
LEMMA BufferConvertFails ==
    ASSUME TypeInv, Control, Buffers, NEW w \in Workers, ConvertFails(w)
    PROVE  Buffers' /\ PublishedKept
<1>1. OthersSame(w) /\ OthersKeepValues(w) /\ pc'[w] # "panicked"
  BY DEF TypeInv, TypeOK, TypeThreads, TypeLocals, ConvertFails, OthersSame, SameLocals,
     OthersKeepValues
<1>2. /\ HoldsLeft(w)' <=> HoldsLeft(w)
      /\ HoldsLeft(w) => lbuf'[w] = lbuf[w]
      /\ HoldsRight(w)' <=> HoldsRight(w)
      /\ HoldsRight(w) => rbuf'[w] = rbuf[w]
  BY DEF TypeInv, TypeOK, TypeThreads, TypeLocals, ConvertFails, HoldsLeft, HoldsRight,
     AtLeft, LeafHoldPCs, BothHoldPCs, ResultHoldPCs, ClaimPCs
<1>3. \A t \in Tasks : /\ state'[t] = "READY" <=> state[t] = "READY"
                       /\ state[t] = "READY" => bufferId'[t] = bufferId[t]
  BY DEF TypeInv, TypeOK, TypeHeap, ConvertFails
<1>4. UNCHANGED slot
  BY DEF ConvertFails
<1>5. ValuesOf(w)'
  BY <1>4, BusyTask DEF TypeInv, TypeOK, TypeHeap, TypePool, TypeThreads, TypeLocals,
     ConvertFails, Buffers, WorkerValues, ValuesOf, AtLeft, NodePCs, ChildPCs,
     LeafHoldPCs, BothHoldPCs, ResultHoldPCs, ClaimPCs
<1> QED
  BY <1>1, <1>2, <1>3, <1>4, <1>5, BufferQuietStep DEF ConvertFails

\* The reset of a failed leaf's state moves no block.
LEMMA BufferLeafResetState ==
    ASSUME TypeInv, Control, Buffers, NEW w \in Workers, LeafResetState(w)
    PROVE  Buffers' /\ PublishedKept
<1>1. state[cur[w]] = "PROCESSING" /\ cur[w] \in Tasks
  BY BusyTask DEF LeafResetState, Control, LeafWork, LeafWorkOf, LeafPCs, LeafHoldPCs
<1>2. OthersSame(w) /\ OthersKeepValues(w) /\ pc'[w] # "panicked"
  BY <1>1 DEF TypeInv, TypeOK, TypeThreads, TypeLocals, LeafResetState, OthersSame,
     SameLocals, OthersKeepValues
<1>3. /\ HoldsLeft(w)' <=> HoldsLeft(w)
      /\ HoldsLeft(w) => lbuf'[w] = lbuf[w]
      /\ HoldsRight(w)' <=> HoldsRight(w)
      /\ HoldsRight(w) => rbuf'[w] = rbuf[w]
  BY <1>1 DEF TypeInv, TypeOK, TypeThreads, TypeLocals, LeafResetState, HoldsLeft,
     HoldsRight, AtLeft, LeafHoldPCs, BothHoldPCs, ResultHoldPCs, ClaimPCs
<1>4. \A t \in Tasks : /\ state'[t] = "READY" <=> state[t] = "READY"
                       /\ state[t] = "READY" => bufferId'[t] = bufferId[t]
  BY <1>1 DEF TypeInv, TypeOK, TypeHeap, LeafResetState
<1>5. UNCHANGED slot
  BY <1>1 DEF LeafResetState
<1>6. ValuesOf(w)'
  BY <1>1, <1>5, BusyTask DEF TypeInv, TypeOK, TypeHeap, TypePool, TypeThreads,
     TypeLocals, LeafResetState, Buffers, WorkerValues, ValuesOf, AtLeft, NodePCs,
     ChildPCs, LeafHoldPCs, BothHoldPCs, ResultHoldPCs, ClaimPCs
<1> QED
  BY <1>1, <1>2, <1>3, <1>4, <1>5, <1>6, BufferQuietStep DEF LeafResetState

\* The reset of a failed leaf's buffer_id moves no block.
LEMMA BufferLeafResetBufferId ==
    ASSUME TypeInv, Control, Buffers, NEW w \in Workers, LeafResetBufferId(w)
    PROVE  Buffers' /\ PublishedKept
<1>1. state[cur[w]] = "NOT_STARTED" /\ cur[w] \in Tasks
  BY BusyTask DEF LeafResetBufferId, Control, LeafWork, LeafWorkOf, LeafPCs, LeafHoldPCs
<1>2. OthersSame(w) /\ OthersKeepValues(w) /\ pc'[w] # "panicked"
  BY <1>1 DEF TypeInv, TypeOK, TypeThreads, TypeLocals, LeafResetBufferId, OthersSame,
     SameLocals, OthersKeepValues
<1>3. /\ HoldsLeft(w)' <=> HoldsLeft(w)
      /\ HoldsLeft(w) => lbuf'[w] = lbuf[w]
      /\ HoldsRight(w)' <=> HoldsRight(w)
      /\ HoldsRight(w) => rbuf'[w] = rbuf[w]
  BY <1>1 DEF TypeInv, TypeOK, TypeThreads, TypeLocals, LeafResetBufferId, HoldsLeft,
     HoldsRight, AtLeft, LeafHoldPCs, BothHoldPCs, ResultHoldPCs, ClaimPCs
<1>4. \A t \in Tasks : /\ state'[t] = "READY" <=> state[t] = "READY"
                       /\ state[t] = "READY" => bufferId'[t] = bufferId[t]
  BY <1>1 DEF TypeInv, TypeOK, TypeHeap, LeafResetBufferId
<1>5. UNCHANGED slot
  BY <1>1 DEF LeafResetBufferId
<1>6. ValuesOf(w)'
  BY <1>1, <1>5, BusyTask DEF TypeInv, TypeOK, TypeHeap, TypePool, TypeThreads,
     TypeLocals, LeafResetBufferId, Buffers, WorkerValues, ValuesOf, AtLeft, NodePCs,
     ChildPCs, LeafHoldPCs, BothHoldPCs, ResultHoldPCs, ClaimPCs
<1> QED
  BY <1>1, <1>2, <1>3, <1>4, <1>5, <1>6, BufferQuietStep DEF LeafResetBufferId

\* The first compare-exchange of notify_child_ready moves no block.
LEMMA BufferGotFirstChild ==
    ASSUME TypeInv, Control, Buffers, NEW w \in Workers, GotFirstChild(w)
    PROVE  Buffers' /\ PublishedKept
<1>1. Parent(cur[w]) \in Tasks
  BY BusyTask, HeapChildren DEF GotFirstChild, NotifyPCs
<1>2. OthersSame(w) /\ OthersKeepValues(w) /\ pc'[w] # "panicked"
  BY <1>1 DEF TypeInv, TypeOK, TypeThreads, TypeLocals, GotFirstChild, Return,
     OthersSame, SameLocals, OthersKeepValues
<1>3. /\ HoldsLeft(w)' <=> HoldsLeft(w)
      /\ HoldsLeft(w) => lbuf'[w] = lbuf[w]
      /\ HoldsRight(w)' <=> HoldsRight(w)
      /\ HoldsRight(w) => rbuf'[w] = rbuf[w]
  BY <1>1 DEF TypeInv, TypeOK, TypeThreads, TypeLocals, GotFirstChild, Return,
     HoldsLeft, HoldsRight, AtLeft, LeafHoldPCs, BothHoldPCs, ResultHoldPCs, ClaimPCs
<1>4. \A t \in Tasks : /\ state'[t] = "READY" <=> state[t] = "READY"
                       /\ state[t] = "READY" => bufferId'[t] = bufferId[t]
  BY <1>1 DEF TypeInv, TypeOK, TypeHeap, GotFirstChild, Return
<1>5. UNCHANGED slot
  BY <1>1 DEF GotFirstChild, Return
<1>6. ValuesOf(w)'
  BY <1>1, <1>5, BusyTask DEF TypeInv, TypeOK, TypeHeap, TypePool, TypeThreads,
     TypeLocals, GotFirstChild, Return, Buffers, WorkerValues, ValuesOf, AtLeft,
     NodePCs, ChildPCs, LeafHoldPCs, BothHoldPCs, ResultHoldPCs, ClaimPCs
<1> QED
  BY <1>1, <1>2, <1>3, <1>4, <1>5, <1>6, BufferQuietStep DEF GotFirstChild, Return

\* The second compare-exchange of notify_child_ready moves no block.
LEMMA BufferGotSecondChild ==
    ASSUME TypeInv, Control, Buffers, NEW w \in Workers, GotSecondChild(w)
    PROVE  Buffers' /\ PublishedKept
<1>1. Parent(cur[w]) \in Tasks
  BY BusyTask, HeapChildren DEF GotSecondChild, NotifyPCs
<1>2. OthersSame(w) /\ OthersKeepValues(w) /\ pc'[w] # "panicked"
  BY <1>1 DEF TypeInv, TypeOK, TypeThreads, TypeLocals, GotSecondChild, Return,
     OthersSame, SameLocals, OthersKeepValues
<1>3. /\ HoldsLeft(w)' <=> HoldsLeft(w)
      /\ HoldsLeft(w) => lbuf'[w] = lbuf[w]
      /\ HoldsRight(w)' <=> HoldsRight(w)
      /\ HoldsRight(w) => rbuf'[w] = rbuf[w]
  BY <1>1 DEF TypeInv, TypeOK, TypeThreads, TypeLocals, GotSecondChild, Return,
     HoldsLeft, HoldsRight, AtLeft, LeafHoldPCs, BothHoldPCs, ResultHoldPCs, ClaimPCs
<1>4. \A t \in Tasks : /\ state'[t] = "READY" <=> state[t] = "READY"
                       /\ state[t] = "READY" => bufferId'[t] = bufferId[t]
  BY <1>1 DEF TypeInv, TypeOK, TypeHeap, GotSecondChild, Return
<1>5. UNCHANGED slot
  BY <1>1 DEF GotSecondChild, Return
<1>6. ValuesOf(w)'
  BY <1>1, <1>5, BusyTask DEF TypeInv, TypeOK, TypeHeap, TypePool, TypeThreads,
     TypeLocals, GotSecondChild, Return, Buffers, WorkerValues, ValuesOf, AtLeft,
     NodePCs, ChildPCs, LeafHoldPCs, BothHoldPCs, ResultHoldPCs, ClaimPCs
<1> QED
  BY <1>1, <1>2, <1>3, <1>4, <1>5, <1>6, BufferQuietStep DEF GotSecondChild, Return

\* The check of a node's state at the start of process_ready_inner_node moves no block.
LEMMA BufferNodeCheckState ==
    ASSUME TypeInv, Control, Buffers, NEW w \in Workers, NodeCheckState(w)
    PROVE  Buffers' /\ PublishedKept
<1>1. state[cur[w]] = "WAITING_BOTH_CHILDREN"
  BY DEF Control, NodeWork, NodeWorkOf, NodeCheckState, NodePCs
<1>2. OthersSame(w) /\ OthersKeepValues(w) /\ pc'[w] # "panicked"
  BY <1>1 DEF TypeInv, TypeOK, TypeThreads, TypeLocals, NodeCheckState, OthersSame,
     SameLocals, OthersKeepValues
<1>3. /\ HoldsLeft(w)' <=> HoldsLeft(w)
      /\ HoldsLeft(w) => lbuf'[w] = lbuf[w]
      /\ HoldsRight(w)' <=> HoldsRight(w)
      /\ HoldsRight(w) => rbuf'[w] = rbuf[w]
  BY <1>1 DEF TypeInv, TypeOK, TypeThreads, TypeLocals, NodeCheckState, HoldsLeft,
     HoldsRight, AtLeft, LeafHoldPCs, BothHoldPCs, ResultHoldPCs, ClaimPCs
<1>4. \A t \in Tasks : /\ state'[t] = "READY" <=> state[t] = "READY"
                       /\ state[t] = "READY" => bufferId'[t] = bufferId[t]
  BY <1>1 DEF TypeInv, TypeOK, TypeHeap, NodeCheckState
<1>5. UNCHANGED slot
  BY <1>1 DEF NodeCheckState
<1>6. ValuesOf(w)'
  BY <1>1, <1>5, BusyTask DEF TypeInv, TypeOK, TypeHeap, TypePool, TypeThreads,
     TypeLocals, NodeCheckState, Buffers, WorkerValues, ValuesOf, AtLeft, NodePCs,
     ChildPCs, LeafHoldPCs, BothHoldPCs, ResultHoldPCs, ClaimPCs
<1> QED
  BY <1>1, <1>2, <1>3, <1>4, <1>5, <1>6, BufferQuietStep DEF NodeCheckState

\* The first load of get_buf_id_if_ready moves no block.
LEMMA BufferConsumeIsReady ==
    ASSUME TypeInv, Control, Buffers, NEW w \in Workers, ConsumeIsReady(w)
    PROVE  Buffers' /\ PublishedKept
<1>1. state[child[w]] = "READY"
  BY ClaimedChild DEF ConsumeIsReady, ClaimPCs
<1>2. OthersSame(w) /\ OthersKeepValues(w) /\ pc'[w] # "panicked"
  BY <1>1 DEF TypeInv, TypeOK, TypeThreads, TypeLocals, ConsumeIsReady, OthersSame,
     SameLocals, OthersKeepValues
<1>3. /\ HoldsLeft(w)' <=> HoldsLeft(w)
      /\ HoldsLeft(w) => lbuf'[w] = lbuf[w]
      /\ HoldsRight(w)' <=> HoldsRight(w)
      /\ HoldsRight(w) => rbuf'[w] = rbuf[w]
  BY <1>1 DEF TypeInv, TypeOK, TypeThreads, TypeLocals, ConsumeIsReady, HoldsLeft,
     HoldsRight, AtLeft, LeafHoldPCs, BothHoldPCs, ResultHoldPCs, ClaimPCs
<1>4. \A t \in Tasks : /\ state'[t] = "READY" <=> state[t] = "READY"
                       /\ state[t] = "READY" => bufferId'[t] = bufferId[t]
  BY <1>1 DEF TypeInv, TypeOK, TypeHeap, ConsumeIsReady
<1>5. UNCHANGED slot
  BY <1>1 DEF ConsumeIsReady
<1>6. ValuesOf(w)'
  BY <1>1, <1>5, BusyTask DEF TypeInv, TypeOK, TypeHeap, TypePool, TypeThreads,
     TypeLocals, ConsumeIsReady, Buffers, WorkerValues, ValuesOf, AtLeft, NodePCs,
     ChildPCs, LeafHoldPCs, BothHoldPCs, ResultHoldPCs, ClaimPCs
<1> QED
  BY <1>1, <1>2, <1>3, <1>4, <1>5, <1>6, BufferQuietStep DEF ConsumeIsReady

\* The second load of get_buf_id_if_ready moves no block: the worker does not own the
\* child's block yet.
LEMMA BufferConsumeLoadId ==
    ASSUME TypeInv, Control, Buffers, NEW w \in Workers, ConsumeLoadId(w)
    PROVE  Buffers' /\ PublishedKept
<1>1. bufferId[child[w]] >= 0
  BY ClaimedChild DEF ConsumeLoadId, ClaimPCs, Blocks
<1>2. OthersSame(w) /\ OthersKeepValues(w) /\ pc'[w] # "panicked"
  BY <1>1 DEF TypeInv, TypeOK, TypeThreads, TypeLocals, ConsumeLoadId, OthersSame,
     SameLocals, OthersKeepValues
<1>3. /\ HoldsLeft(w)' <=> HoldsLeft(w)
      /\ HoldsLeft(w) => lbuf'[w] = lbuf[w]
      /\ HoldsRight(w)' <=> HoldsRight(w)
      /\ HoldsRight(w) => rbuf'[w] = rbuf[w]
  BY <1>1 DEF TypeInv, TypeOK, TypeThreads, TypeLocals, ConsumeLoadId, HoldsLeft,
     HoldsRight, AtLeft, LeafHoldPCs, BothHoldPCs, ResultHoldPCs, ClaimPCs
<1>4. \A t \in Tasks : /\ state'[t] = "READY" <=> state[t] = "READY"
                       /\ state[t] = "READY" => bufferId'[t] = bufferId[t]
  BY <1>1 DEF TypeInv, TypeOK, TypeHeap, ConsumeLoadId
<1>5. UNCHANGED slot
  BY <1>1 DEF ConsumeLoadId
<1>6. ValuesOf(w)'
  BY <1>1, <1>5, BusyTask DEF TypeInv, TypeOK, TypeHeap, TypePool, TypeThreads,
     TypeLocals, ConsumeLoadId, Buffers, WorkerValues, ValuesOf, AtLeft, NodePCs,
     ChildPCs, LeafHoldPCs, BothHoldPCs, ResultHoldPCs, ClaimPCs
<1> QED
  BY <1>1, <1>2, <1>3, <1>4, <1>5, <1>6, BufferQuietStep DEF ConsumeLoadId

\* A fold that succeeds moves no block, and its result is the node's accumulator.
LEMMA BufferFoldAccAcc ==
    ASSUME TypeInv, Control, Buffers, NEW w \in Workers, FoldAccAcc(w)
    PROVE  Buffers' /\ PublishedKept
<1>1. Fold(Left(cur[w]), Right(cur[w])) = cur[w]
  BY BusyTask, HeapNodes DEF FoldAccAcc, Fold, NodePCs, BothHoldPCs
<1>2. OthersSame(w) /\ OthersKeepValues(w) /\ pc'[w] # "panicked"
  BY <1>1 DEF TypeInv, TypeOK, TypeThreads, TypeLocals, FoldAccAcc, OthersSame,
     SameLocals, OthersKeepValues
<1>3. /\ HoldsLeft(w)' <=> HoldsLeft(w)
      /\ HoldsLeft(w) => lbuf'[w] = lbuf[w]
      /\ HoldsRight(w)' <=> HoldsRight(w)
      /\ HoldsRight(w) => rbuf'[w] = rbuf[w]
  BY <1>1 DEF TypeInv, TypeOK, TypeThreads, TypeLocals, FoldAccAcc, HoldsLeft,
     HoldsRight, AtLeft, LeafHoldPCs, BothHoldPCs, ResultHoldPCs, ClaimPCs
<1>4. \A t \in Tasks : /\ state'[t] = "READY" <=> state[t] = "READY"
                       /\ state[t] = "READY" => bufferId'[t] = bufferId[t]
  BY <1>1 DEF TypeInv, TypeOK, TypeHeap, FoldAccAcc
<1>5. UNCHANGED slot
  BY <1>1 DEF FoldAccAcc
<1>6. ValuesOf(w)'
  BY <1>1, <1>5, BusyTask DEF TypeInv, TypeOK, TypeHeap, TypePool, TypeThreads,
     TypeLocals, FoldAccAcc, Buffers, WorkerValues, ValuesOf, AtLeft, NodePCs, ChildPCs,
     LeafHoldPCs, BothHoldPCs, ResultHoldPCs, ClaimPCs
<1> QED
  BY <1>1, <1>2, <1>3, <1>4, <1>5, <1>6, BufferQuietStep DEF FoldAccAcc

\* A fold that fails moves no block.
LEMMA BufferFoldFails ==
    ASSUME TypeInv, Control, Buffers, NEW w \in Workers, FoldFails(w)
    PROVE  Buffers' /\ PublishedKept
<1>1. OthersSame(w) /\ OthersKeepValues(w) /\ pc'[w] # "panicked"
  BY DEF TypeInv, TypeOK, TypeThreads, TypeLocals, FoldFails, OthersSame, SameLocals,
     OthersKeepValues
<1>2. /\ HoldsLeft(w)' <=> HoldsLeft(w)
      /\ HoldsLeft(w) => lbuf'[w] = lbuf[w]
      /\ HoldsRight(w)' <=> HoldsRight(w)
      /\ HoldsRight(w) => rbuf'[w] = rbuf[w]
  BY DEF TypeInv, TypeOK, TypeThreads, TypeLocals, FoldFails, HoldsLeft, HoldsRight,
     AtLeft, LeafHoldPCs, BothHoldPCs, ResultHoldPCs, ClaimPCs
<1>3. \A t \in Tasks : /\ state'[t] = "READY" <=> state[t] = "READY"
                       /\ state[t] = "READY" => bufferId'[t] = bufferId[t]
  BY DEF TypeInv, TypeOK, TypeHeap, FoldFails
<1>4. UNCHANGED slot
  BY DEF FoldFails
<1>5. ValuesOf(w)'
  BY <1>4, BusyTask DEF TypeInv, TypeOK, TypeHeap, TypePool, TypeThreads, TypeLocals,
     FoldFails, Buffers, WorkerValues, ValuesOf, AtLeft, NodePCs, ChildPCs, LeafHoldPCs,
     BothHoldPCs, ResultHoldPCs, ClaimPCs
<1> QED
  BY <1>1, <1>2, <1>3, <1>4, <1>5, BufferQuietStep DEF FoldFails

\* try_set_consumed is on a child that is no longer published, and moves no block.
LEMMA BufferSetConsumed ==
    ASSUME TypeInv, Control, Buffers, NEW w \in Workers, SetConsumed(w)
    PROVE  Buffers' /\ PublishedKept
<1>1. child[w] \in Tasks /\ state[child[w]] # "READY"
  <2>1. pc[w] \in NodePCs /\ pc[w] \in ChildPCs
    BY DEF SetConsumed, NodePCs, BothHoldPCs, ChildPCs
  <2>2. child[w] \in Children(cur[w]) /\ child[w] \in Tasks
    BY <2>1, BusyTask
  <2> QED
    BY <2>1, <2>2 DEF SetConsumed, Control, NodeWork, NodeWorkOf, ChildWork
<1>2. OthersSame(w) /\ OthersKeepValues(w) /\ pc'[w] # "panicked"
  BY <1>1 DEF TypeInv, TypeOK, TypeThreads, TypeLocals, SetConsumed, NextChild,
     Consumed, OthersSame, SameLocals, OthersKeepValues
<1>3. /\ HoldsLeft(w)' <=> HoldsLeft(w)
      /\ HoldsLeft(w) => lbuf'[w] = lbuf[w]
      /\ HoldsRight(w)' <=> HoldsRight(w)
      /\ HoldsRight(w) => rbuf'[w] = rbuf[w]
  BY <1>1 DEF TypeInv, TypeOK, TypeThreads, TypeLocals, SetConsumed, NextChild,
     Consumed, HoldsLeft, HoldsRight, AtLeft, LeafHoldPCs, BothHoldPCs, ResultHoldPCs,
     ClaimPCs
<1>4. \A t \in Tasks : /\ state'[t] = "READY" <=> state[t] = "READY"
                       /\ state[t] = "READY" => bufferId'[t] = bufferId[t]
  BY <1>1 DEF TypeInv, TypeOK, TypeHeap, SetConsumed, NextChild, Consumed
<1>5. UNCHANGED slot
  BY <1>1 DEF SetConsumed, NextChild, Consumed
<1>6. ValuesOf(w)'
  BY <1>1, <1>5, BusyTask DEF TypeInv, TypeOK, TypeHeap, TypePool, TypeThreads,
     TypeLocals, SetConsumed, NextChild, Consumed, Buffers, WorkerValues, ValuesOf,
     AtLeft, NodePCs, ChildPCs, LeafHoldPCs, BothHoldPCs, ResultHoldPCs, ClaimPCs
<1> QED
  BY <1>1, <1>2, <1>3, <1>4, <1>5, <1>6, BufferQuietStep DEF SetConsumed, NextChild,
     Consumed

\* The reset of a consumed child's buffer_id moves no block.
LEMMA BufferClearBufferId ==
    ASSUME TypeInv, Control, Buffers, NEW w \in Workers, ClearBufferId(w)
    PROVE  Buffers' /\ PublishedKept
<1>1. child[w] \in Tasks /\ state[child[w]] # "READY"
  <2>1. pc[w] \in NodePCs /\ pc[w] \in ChildPCs
    BY DEF ClearBufferId, NodePCs, BothHoldPCs, ChildPCs
  <2>2. child[w] \in Children(cur[w]) /\ child[w] \in Tasks
    BY <2>1, BusyTask
  <2> QED
    BY <2>1, <2>2 DEF ClearBufferId, Control, NodeWork, NodeWorkOf, ChildWork
<1>2. OthersSame(w) /\ OthersKeepValues(w) /\ pc'[w] # "panicked"
  BY <1>1 DEF TypeInv, TypeOK, TypeThreads, TypeLocals, ClearBufferId, NextChild,
     OthersSame, SameLocals, OthersKeepValues
<1>3. /\ HoldsLeft(w)' <=> HoldsLeft(w)
      /\ HoldsLeft(w) => lbuf'[w] = lbuf[w]
      /\ HoldsRight(w)' <=> HoldsRight(w)
      /\ HoldsRight(w) => rbuf'[w] = rbuf[w]
  BY <1>1 DEF TypeInv, TypeOK, TypeThreads, TypeLocals, ClearBufferId, NextChild,
     HoldsLeft, HoldsRight, AtLeft, LeafHoldPCs, BothHoldPCs, ResultHoldPCs, ClaimPCs
<1>4. \A t \in Tasks : /\ state'[t] = "READY" <=> state[t] = "READY"
                       /\ state[t] = "READY" => bufferId'[t] = bufferId[t]
  BY <1>1 DEF TypeInv, TypeOK, TypeHeap, ClearBufferId, NextChild
<1>5. UNCHANGED slot
  BY <1>1 DEF ClearBufferId, NextChild
<1>6. ValuesOf(w)'
  BY <1>1, <1>5, BusyTask DEF TypeInv, TypeOK, TypeHeap, TypePool, TypeThreads,
     TypeLocals, ClearBufferId, NextChild, Buffers, WorkerValues, ValuesOf, AtLeft,
     NodePCs, ChildPCs, LeafHoldPCs, BothHoldPCs, ResultHoldPCs, ClaimPCs
<1> QED
  BY <1>1, <1>2, <1>3, <1>4, <1>5, <1>6, BufferQuietStep DEF ClearBufferId, NextChild

\* NodeTask::try_start_processing moves no block.
LEMMA BufferNodeStartProcessing ==
    ASSUME TypeInv, Control, Buffers, NEW w \in Workers, NodeStartProcessing(w)
    PROVE  Buffers' /\ PublishedKept
<1>1. state[cur[w]] = "WAITING_BOTH_CHILDREN" /\ cur[w] \in Tasks
  BY BusyTask DEF NodeStartProcessing, Control, NodeWork, NodeWorkOf, NodePCs, ResultHoldPCs
<1>2. OthersSame(w) /\ OthersKeepValues(w) /\ pc'[w] # "panicked"
  BY <1>1 DEF TypeInv, TypeOK, TypeThreads, TypeLocals, NodeStartProcessing, OthersSame,
     SameLocals, OthersKeepValues
<1>3. /\ HoldsLeft(w)' <=> HoldsLeft(w)
      /\ HoldsLeft(w) => lbuf'[w] = lbuf[w]
      /\ HoldsRight(w)' <=> HoldsRight(w)
      /\ HoldsRight(w) => rbuf'[w] = rbuf[w]
  BY <1>1 DEF TypeInv, TypeOK, TypeThreads, TypeLocals, NodeStartProcessing, HoldsLeft,
     HoldsRight, AtLeft, LeafHoldPCs, BothHoldPCs, ResultHoldPCs, ClaimPCs
<1>4. \A t \in Tasks : /\ state'[t] = "READY" <=> state[t] = "READY"
                       /\ state[t] = "READY" => bufferId'[t] = bufferId[t]
  BY <1>1 DEF TypeInv, TypeOK, TypeHeap, NodeStartProcessing
<1>5. UNCHANGED slot
  BY <1>1 DEF NodeStartProcessing
<1>6. ValuesOf(w)'
  BY <1>1, <1>5, BusyTask DEF TypeInv, TypeOK, TypeHeap, TypePool, TypeThreads,
     TypeLocals, NodeStartProcessing, Buffers, WorkerValues, ValuesOf, AtLeft, NodePCs,
     ChildPCs, LeafHoldPCs, BothHoldPCs, ResultHoldPCs, ClaimPCs
<1> QED
  BY <1>1, <1>2, <1>3, <1>4, <1>5, <1>6, BufferQuietStep DEF NodeStartProcessing

\* Setting stop moves no block.
LEMMA BufferSignalCompletion ==
    ASSUME TypeInv, Control, Buffers, NEW w \in Workers, SignalCompletion(w)
    PROVE  Buffers' /\ PublishedKept
<1>1. \A c \in Children(cur[w]) : state[c] = "CONSUMED"
  BY BusyTask DEF SignalCompletion, Control, NotifyWork, NotifyWorkOf, ChildrenConsumed
<1>2. OthersSame(w) /\ OthersKeepValues(w) /\ pc'[w] # "panicked"
  BY <1>1 DEF TypeInv, TypeOK, TypeThreads, TypeLocals, SignalCompletion, Consumed,
     OthersSame, SameLocals, OthersKeepValues
<1>3. /\ HoldsLeft(w)' <=> HoldsLeft(w)
      /\ HoldsLeft(w) => lbuf'[w] = lbuf[w]
      /\ HoldsRight(w)' <=> HoldsRight(w)
      /\ HoldsRight(w) => rbuf'[w] = rbuf[w]
  BY <1>1 DEF TypeInv, TypeOK, TypeThreads, TypeLocals, SignalCompletion, Consumed,
     HoldsLeft, HoldsRight, AtLeft, LeafHoldPCs, BothHoldPCs, ResultHoldPCs, ClaimPCs
<1>4. \A t \in Tasks : /\ state'[t] = "READY" <=> state[t] = "READY"
                       /\ state[t] = "READY" => bufferId'[t] = bufferId[t]
  BY <1>1 DEF TypeInv, TypeOK, TypeHeap, SignalCompletion, Consumed
<1>5. UNCHANGED slot
  BY <1>1 DEF SignalCompletion, Consumed
<1>6. ValuesOf(w)'
  BY <1>1, <1>5, BusyTask DEF TypeInv, TypeOK, TypeHeap, TypePool, TypeThreads,
     TypeLocals, SignalCompletion, Consumed, Buffers, WorkerValues, ValuesOf, AtLeft,
     NodePCs, ChildPCs, LeafHoldPCs, BothHoldPCs, ResultHoldPCs, ClaimPCs
<1> QED
  BY <1>1, <1>2, <1>3, <1>4, <1>5, <1>6, BufferQuietStep DEF SignalCompletion, Consumed

\* BufHandle::write moves no block, and stores the accumulator of the task.
LEMMA BufferWriteResult ==
    ASSUME TypeInv, Control, Buffers, NEW w \in Workers, WriteResult(w)
    PROVE  Buffers' /\ PublishedKept
<1>1. OthersSame(w) /\ OthersKeepValues(w) /\ pc'[w] # "panicked"
  BY DEF TypeInv, TypeOK, TypeThreads, TypeLocals, WriteResult, OthersSame, SameLocals,
     OthersKeepValues
<1>2. /\ HoldsLeft(w)' <=> HoldsLeft(w)
      /\ HoldsLeft(w) => lbuf'[w] = lbuf[w]
      /\ HoldsRight(w)' <=> HoldsRight(w)
      /\ HoldsRight(w) => rbuf'[w] = rbuf[w]
  BY DEF TypeInv, TypeOK, TypeThreads, TypeLocals, WriteResult, HoldsLeft, HoldsRight,
     AtLeft, LeafHoldPCs, BothHoldPCs, ResultHoldPCs, ClaimPCs
<1>3. \A t \in Tasks : /\ state'[t] = "READY" <=> state[t] = "READY"
                       /\ state[t] = "READY" => bufferId'[t] = bufferId[t]
  BY DEF TypeInv, TypeOK, TypeHeap, WriteResult
<1>4. \A b \in Blocks : slot'[b] = slot[b] \/ HasLeft(w, b) \/ HasRight(w, b)
  BY DEF TypeInv, TypeOK, TypePool, WriteResult, HasLeft, HasRight, HoldsLeft,
     HoldsRight, LeafHoldPCs, BothHoldPCs, ResultHoldPCs, ClaimPCs
<1>5. ValuesOf(w)'
  BY <1>4, BusyTask, ShapeFacts DEF TypeInv, TypeOK, TypeHeap, TypePool, TypeThreads,
     TypeLocals, WriteResult, Buffers, WorkerValues, ValuesOf, AtLeft, NodePCs,
     ChildPCs, LeafHoldPCs, BothHoldPCs, ResultHoldPCs, ClaimPCs
<1> QED
  BY <1>1, <1>2, <1>3, <1>4, <1>5, BufferQuietStep DEF WriteResult

\* BufHandle::read moves no block, and finds the child's accumulator in the slot.
LEMMA BufferReadChild ==
    ASSUME TypeInv, Control, Buffers, NEW w \in Workers, ReadChild(w)
    PROVE  Buffers' /\ PublishedKept
<1>1. slot[IF AtLeft(w) THEN lbuf[w] ELSE rbuf[w]] # NoVal
  <2>1. ValuesOf(w) /\ Left(cur[w]) \in Tasks /\ Right(cur[w]) \in Tasks
    BY ShapeFacts DEF Buffers, WorkerValues, ReadChild, NodePCs, BothHoldPCs
  <2>2. Left(cur[w]) # NoVal /\ Right(cur[w]) # NoVal
    BY <2>1, NumLeavesAssumption DEF Tasks, Size, NoVal
  <2> QED
    BY <2>1, <2>2 DEF ValuesOf, ReadChild
<1>2. OthersSame(w) /\ OthersKeepValues(w) /\ pc'[w] # "panicked"
  BY <1>1 DEF TypeInv, TypeOK, TypeThreads, TypeLocals, ReadChild, OthersSame,
     SameLocals, OthersKeepValues
<1>3. /\ HoldsLeft(w)' <=> HoldsLeft(w)
      /\ HoldsLeft(w) => lbuf'[w] = lbuf[w]
      /\ HoldsRight(w)' <=> HoldsRight(w)
      /\ HoldsRight(w) => rbuf'[w] = rbuf[w]
  BY <1>1 DEF TypeInv, TypeOK, TypeThreads, TypeLocals, ReadChild, HoldsLeft,
     HoldsRight, AtLeft, LeafHoldPCs, BothHoldPCs, ResultHoldPCs, ClaimPCs
<1>4. \A t \in Tasks : /\ state'[t] = "READY" <=> state[t] = "READY"
                       /\ state[t] = "READY" => bufferId'[t] = bufferId[t]
  BY <1>1 DEF TypeInv, TypeOK, TypeHeap, ReadChild
<1>5. \A b \in Blocks : slot'[b] = slot[b] \/ HasLeft(w, b) \/ HasRight(w, b)
  BY <1>1 DEF TypeInv, TypeOK, TypePool, ReadChild, HasLeft, HasRight, HoldsLeft,
     HoldsRight, LeafHoldPCs, BothHoldPCs, ResultHoldPCs, ClaimPCs
<1>6. ValuesOf(w)'
  BY <1>1, <1>5, BusyTask, ShapeFacts DEF TypeInv, TypeOK, TypeHeap, TypePool,
     TypeThreads, TypeLocals, ReadChild, Buffers, WorkerValues, ValuesOf, AtLeft,
     NodePCs, ChildPCs, LeafHoldPCs, BothHoldPCs, ResultHoldPCs, ClaimPCs
<1> QED
  BY <1>1, <1>2, <1>3, <1>4, <1>5, <1>6, BufferQuietStep DEF ReadChild

-----------------------------------------------------------------------------
(* Steps of a worker that move a block.                                     *)

\* The free list after its head has been taken.
LEMMA FreeTake ==
    ASSUME TypeInv, FreeDistinct, free # <<>>, free' = Tail(free)
    PROVE  /\ Head(free) \in Blocks /\ InFree(Head(free)) /\ FreeDistinct'
           /\ ~ \E i \in 1 .. Len(free') : free'[i] = Head(free)
           /\ \A b : b # Head(free) => (InFree(b)' <=> InFree(b))
<1>1. free \in Seq(Blocks)
  BY DEF TypeInv, TypeOK, TypePool
<1>2. /\ Len(free) \in Nat /\ Len(free) >= 1 /\ Head(free) = free[1] /\ free[1] \in Blocks
      /\ Len(free') = Len(free) - 1
      /\ \A i \in 1 .. Len(free') : free'[i] = free[i + 1]
  BY <1>1, QueueTake
<1>3. \A i \in 1 .. Len(free') : i + 1 \in 1 .. Len(free) /\ i + 1 # 1
  BY <1>2
<1>4. \A i \in 1 .. Len(free) : i = 1 \/ i - 1 \in 1 .. Len(free')
  BY <1>2
<1>5. \A i \in 1 .. Len(free) : i # 1 => free'[i - 1] = free[i]
  BY <1>2, <1>4
<1>6. 1 \in 1 .. Len(free)
  BY <1>2
<1>7. FreeDistinct'
  BY <1>2, <1>3 DEF FreeDistinct
<1>8. ~ \E i \in 1 .. Len(free') : free'[i] = Head(free)
  BY <1>2, <1>3, <1>6 DEF FreeDistinct
<1>9. InFree(Head(free))
  BY <1>2, <1>6 DEF InFree
<1>10. ASSUME NEW b, b # Head(free) PROVE InFree(b)' <=> InFree(b)
  BY <1>2, <1>3, <1>4, <1>5, <1>10 DEF InFree
<1> QED
  BY <1>2, <1>7, <1>8, <1>9, <1>10

\* The pool after a block has been released.
LEMMA FreeAdd ==
    ASSUME TypeInv, FreeDistinct, NEW x \in Blocks, ~InFree(x), Release(x)
    PROVE  /\ InFree(x)' /\ FreeDistinct'
           /\ \A b : b # x => (InFree(b)' <=> InFree(b))
           /\ \A b \in Blocks : b # x => slot'[b] = slot[b]
<1>1. free \in Seq(Blocks) /\ slot \in [Blocks -> Terms \cup {NoVal}]
  BY DEF TypeInv, TypeOK, TypePool
<1>2. /\ Len(free) \in Nat /\ Len(free') = Len(free) + 1 /\ free'[Len(free) + 1] = x
      /\ \A i \in 1 .. Len(free) : free'[i] = free[i]
  BY <1>1, QueueAdd DEF Release
<1>3. \A i \in 1 .. Len(free') : i \in 1 .. Len(free) \/ i = Len(free) + 1
  BY <1>2
<1>4. \A i \in 1 .. Len(free) : i \in 1 .. Len(free') /\ i # Len(free) + 1
  BY <1>2
<1>5. Len(free) + 1 \in 1 .. Len(free')
  BY <1>2
<1>6. FreeDistinct'
  <2> SUFFICES ASSUME NEW i \in 1 .. Len(free'), NEW j \in 1 .. Len(free'), free'[i] = free'[j]
               PROVE  i = j
    BY DEF FreeDistinct
  <2>1. CASE i \in 1 .. Len(free) /\ j \in 1 .. Len(free)
    BY <1>2, <2>1 DEF FreeDistinct
  <2>2. CASE i = Len(free) + 1
    BY <1>2, <1>3, <2>2 DEF InFree
  <2>3. CASE j = Len(free) + 1
    BY <1>2, <1>3, <2>3 DEF InFree
  <2> QED
    BY <1>3, <2>1, <2>2, <2>3
<1>7. InFree(x)'
  BY <1>2, <1>5 DEF InFree
<1>8. ASSUME NEW b, b # x PROVE InFree(b)' <=> InFree(b)
  BY <1>2, <1>3, <1>4, <1>8 DEF InFree
<1>9. \A b \in Blocks : b # x => slot'[b] = slot[b]
  BY <1>1 DEF Release
<1> QED
  BY <1>6, <1>7, <1>8, <1>9

\* What is left to show of a step in which a worker gives its block x back to the pool.
LEMMA BufferReleaseStep ==
    ASSUME TypeInv, Control, Buffers, NEW w \in Workers, OthersSame(w), OthersKeepValues(w),
           UNCHANGED <<state, bufferId, main, mainBuf, result>>,
           NEW x \in Blocks, Release(x), HasLeft(w, x) \/ HasRight(w, x),
           \A b \in Blocks : HasLeft(w, b)' <=> HasLeft(w, b) /\ b # x,
           \A b \in Blocks : HasRight(w, b)' <=> HasRight(w, b) /\ b # x,
           ValuesOf(w)', pc'[w] # "panicked"
    PROVE  Buffers' /\ PublishedKept
<1>1. OwnedOnce(x) /\ FreeDistinct
  BY DEF Buffers, BlocksOwned
<1>2. /\ ~InFree(x) /\ ~MainHas(x) /\ \A t \in Tasks : ~TaskHas(t, x)
      /\ \A v \in Workers : v # w => ~HasLeft(v, x) /\ ~HasRight(v, x)
  BY <1>1 DEF OwnedOnce
<1>3. /\ InFree(x)' /\ FreeDistinct'
      /\ \A b \in Blocks : b # x => (InFree(b)' <=> InFree(b)) /\ slot'[b] = slot[b]
  BY <1>1, <1>2, FreeAdd
<1>4. \A b : MainHas(b)' <=> MainHas(b)
  BY DEF MainHas, MainHolds
<1>5. \A t \in Tasks : /\ TaskHolds(t)' => TaskHolds(t) /\ bufferId'[t] = bufferId[t]
                       /\ \A b : TaskHas(t, b)' <=> TaskHas(t, b)
  BY FramePublished
<1>6. \A v \in Workers : v # w => \A b : /\ HasLeft(v, b)' <=> HasLeft(v, b)
                                         /\ HasRight(v, b)' <=> HasRight(v, b)
  BY FrameHolders
<1>7. \A b \in Blocks : b # x => SameOwners(b)
  BY <1>3, <1>4, <1>5, <1>6 DEF SameOwners
<1>8. /\ ~MainHas(x)' /\ \A t \in Tasks : ~TaskHas(t, x)'
      /\ \A v \in Workers : ~HasLeft(v, x)' /\ ~HasRight(v, x)'
  BY <1>2, <1>4, <1>5, <1>6
<1>9. Owned(x)' /\ OwnedOnce(x)'
  BY <1>3, <1>8 DEF Owned, OwnedOnce
<1>10. \A b \in Blocks : slot'[b] = slot[b] \/ HasLeft(w, b) \/ HasRight(w, b)
  BY <1>3
<1> QED
  BY <1>3, <1>5, <1>7, <1>9, <1>10, BufferStep

\* What is left to show of a step in which a worker publishes task x: the worker's block
\* becomes the block of the task.
LEMMA BufferPublishStep ==
    ASSUME TypeInv, Control, Buffers, NEW w \in Workers, OthersSame(w), OthersKeepValues(w),
           UNCHANGED <<bufferId, slot, free, main, mainBuf, result>>,
           NEW x \in Tasks, state[x] # "READY", state'[x] = "READY",
           \A t \in Tasks : t # x => state'[t] = state[t],
           HoldsLeft(w), ~HoldsLeft(w)', ~HoldsRight(w), ~HoldsRight(w)',
           bufferId[x] = lbuf[w], slot[lbuf[w]] = x,
           ValuesOf(w)', pc'[w] # "panicked"
    PROVE  Buffers' /\ PublishedKept
<1>1. PICK y \in Blocks : y = lbuf[w]
  BY HandleBlock
<1>2. HasLeft(w, y) /\ OwnedOnce(y)
  BY <1>1, HandleBlock DEF Buffers, BlocksOwned
<1>3. /\ ~InFree(y) /\ ~MainHas(y) /\ \A t \in Tasks : ~TaskHas(t, y)
      /\ \A v \in Workers : v # w => ~HasLeft(v, y) /\ ~HasRight(v, y)
  BY <1>2 DEF OwnedOnce
<1>4. /\ \A b : (MainHas(b)' <=> MainHas(b)) /\ (InFree(b)' <=> InFree(b))
      /\ FreeDistinct'
  BY DEF MainHas, MainHolds, InFree, Buffers, FreeDistinct
<1>5. x # 0 \/ ~RootTaken
  BY DEF Control, RootReady, MainWaits, RootTaken, Buffers, NoPanic
<1>6. TaskHolds(x)' /\ ~TaskHolds(x)
  BY <1>5 DEF TaskHolds, RootTaken
<1>7. \A t \in Tasks : t # x => (TaskHolds(t)' <=> TaskHolds(t))
  BY DEF TaskHolds, RootTaken
<1>8. \A b : /\ TaskHas(x, b)' <=> b = y
             /\ ~TaskHas(x, b)
             /\ \A t \in Tasks : t # x => (TaskHas(t, b)' <=> TaskHas(t, b))
  BY <1>1, <1>6, <1>7 DEF TaskHas
<1>9. \A b : /\ HasLeft(w, b) <=> b = y
             /\ ~HasLeft(w, b)' /\ ~HasRight(w, b) /\ ~HasRight(w, b)'
  BY <1>1 DEF HasLeft, HasRight
<1>10. \A v \in Workers : v # w => \A b : /\ HasLeft(v, b)' <=> HasLeft(v, b)
                                          /\ HasRight(v, b)' <=> HasRight(v, b)
  BY FrameHolders
<1>11. \A b \in Blocks : b # y => SameOwners(b)
  BY <1>4, <1>8, <1>9, <1>10 DEF SameOwners
<1>12. Owned(y)'
  BY <1>8 DEF Owned
<1>13. OwnedOnce(y)'
  BY <1>3, <1>4, <1>8, <1>9, <1>10 DEF OwnedOnce
<1>14. \A t \in Tasks : TaskHolds(t)' => IF TaskHolds(t) THEN bufferId'[t] = bufferId[t]
                                                        ELSE slot'[bufferId'[t]] = t
  BY <1>7
<1> QED
  BY <1>4, <1>11, <1>12, <1>13, <1>14, BufferStep

\* BlockPool::alloc moves the head of the free list to the worker.
LEMMA BufferAlloc ==
    ASSUME TypeInv, Control, Buffers, NEW w \in Workers, Alloc(w)
    PROVE  Buffers' /\ PublishedKept
<1>1. OthersSame(w) /\ OthersKeepValues(w) /\ pc'[w] = "l_store" /\ lbuf'[w] = Head(free)
  BY DEF TypeInv, TypeOK, TypeThreads, TypeLocals, Alloc, OthersSame, SameLocals, OthersKeepValues
<1>2. UNCHANGED <<state, bufferId, slot, main, mainBuf, result>> /\ FreeDistinct
  BY DEF Alloc, Buffers
<1>3. PICK x \in Blocks : x = Head(free)
  BY <1>2, FreeTake DEF Alloc
<1>4. /\ InFree(x) /\ FreeDistinct'
      /\ ~InFree(x)'
      /\ \A b : b # x => (InFree(b)' <=> InFree(b))
  BY <1>2, <1>3, FreeTake DEF Alloc, InFree
<1>5. OwnedOnce(x)
  BY DEF Buffers, BlocksOwned
<1>6. /\ ~MainHas(x) /\ \A t \in Tasks : ~TaskHas(t, x)
      /\ \A v \in Workers : ~HasLeft(v, x) /\ ~HasRight(v, x)
  BY <1>4, <1>5 DEF OwnedOnce
<1>7. \A b : MainHas(b)' <=> MainHas(b)
  BY <1>2 DEF MainHas, MainHolds
<1>8. \A t \in Tasks : /\ TaskHolds(t)' => TaskHolds(t) /\ bufferId'[t] = bufferId[t]
                       /\ \A b : TaskHas(t, b)' <=> TaskHas(t, b)
  BY <1>2, FramePublished
<1>9. \A b : /\ HasLeft(w, b)' <=> b = x
             /\ ~HasLeft(w, b) /\ ~HasRight(w, b) /\ ~HasRight(w, b)'
  BY <1>1, <1>3 DEF Alloc, HasLeft, HasRight, HoldsLeft, HoldsRight, LeafHoldPCs, BothHoldPCs,
     ResultHoldPCs, ClaimPCs
<1>10. \A v \in Workers : v # w => \A b : /\ HasLeft(v, b)' <=> HasLeft(v, b)
                                          /\ HasRight(v, b)' <=> HasRight(v, b)
  BY <1>1, FrameHolders
<1>11. \A b \in Blocks : b # x => SameOwners(b)
  BY <1>4, <1>7, <1>8, <1>9, <1>10 DEF SameOwners
<1>12. Owned(x)'
  BY <1>9 DEF Owned
<1>13. OwnedOnce(x)'
  BY <1>4, <1>6, <1>7, <1>8, <1>9, <1>10 DEF OwnedOnce
<1>14. ValuesOf(w)'
  BY <1>1 DEF ValuesOf, ClaimPCs
<1> QED
  BY <1>1, <1>2, <1>4, <1>8, <1>11, <1>12, <1>13, <1>14, BufferStep

\* The release of a failed leaf's buffer moves the worker's block to the free list.
LEMMA BufferLeafReleaseBuffer ==
    ASSUME TypeInv, Control, Buffers, NEW w \in Workers, LeafReleaseBuffer(w)
    PROVE  Buffers' /\ PublishedKept
<1>1. PICK x \in Blocks : x = lbuf[w]
  BY ShapeFacts DEF LeafReleaseBuffer, LeafHoldPCs
<1>2. OthersSame(w) /\ OthersKeepValues(w) /\ pc'[w] = "check"
  BY DEF TypeInv, TypeOK, TypeThreads, TypeLocals, LeafReleaseBuffer, Fail, Return, OthersSame,
     SameLocals, OthersKeepValues
<1>3. /\ HasLeft(w, x)
      /\ \A b : /\ HasLeft(w, b)' <=> HasLeft(w, b) /\ b # x
                /\ HasRight(w, b)' <=> HasRight(w, b) /\ b # x
  BY <1>1, <1>2 DEF LeafReleaseBuffer, HasLeft, HasRight, HoldsLeft, HoldsRight, LeafHoldPCs,
     BothHoldPCs, ResultHoldPCs, ClaimPCs
<1>4. ValuesOf(w)'
  BY <1>2 DEF ValuesOf, ClaimPCs
<1> QED
  BY <1>1, <1>2, <1>3, <1>4, BufferReleaseStep DEF LeafReleaseBuffer

\* The first release after a failed fold moves the left child's block to the free list.
LEMMA BufferFoldFailsReleaseLeft ==
    ASSUME TypeInv, Control, Buffers, NEW w \in Workers, FoldFailsReleaseLeft(w)
    PROVE  Buffers' /\ PublishedKept
<1>1. PICK x \in Blocks : x = lbuf[w]
  BY ShapeFacts DEF FoldFailsReleaseLeft, BothHoldPCs
<1>2. /\ OthersSame(w) /\ OthersKeepValues(w) /\ pc'[w] = "f_release_r" /\ rbuf'[w] = rbuf[w]
  BY DEF TypeInv, TypeOK, TypeThreads, TypeLocals, FoldFailsReleaseLeft, OthersSame,
     SameLocals, OthersKeepValues
<1>3. /\ HoldsLeft(w) /\ HoldsRight(w) /\ ~HoldsLeft(w)' /\ HoldsRight(w)'
  BY <1>2 DEF FoldFailsReleaseLeft, HoldsLeft, HoldsRight, LeafHoldPCs,
     BothHoldPCs, ResultHoldPCs, ClaimPCs
<1>4. HasLeft(w, x) /\ OwnedOnce(x)
  BY <1>1, <1>3 DEF HasLeft, Buffers, BlocksOwned
<1>5. ~HasRight(w, x)
  BY <1>4 DEF OwnedOnce
<1>6. \A b : /\ HasLeft(w, b)' <=> HasLeft(w, b) /\ b # x
             /\ HasRight(w, b)' <=> HasRight(w, b) /\ b # x
  BY <1>1, <1>2, <1>3, <1>5 DEF HasLeft, HasRight
<1>7. ValuesOf(w)'
  BY <1>2 DEF ValuesOf, ClaimPCs
<1> QED
  BY <1>1, <1>2, <1>4, <1>6, <1>7, BufferReleaseStep DEF FoldFailsReleaseLeft

\* The second release after a failed fold moves the right child's block to the free list.
LEMMA BufferFoldFailsReleaseRight ==
    ASSUME TypeInv, Control, Buffers, NEW w \in Workers, FoldFailsReleaseRight(w)
    PROVE  Buffers' /\ PublishedKept
<1>1. PICK x \in Blocks : x = rbuf[w]
  BY ShapeFacts DEF FoldFailsReleaseRight
<1>2. OthersSame(w) /\ OthersKeepValues(w) /\ pc'[w] = "check"
  BY DEF TypeInv, TypeOK, TypeThreads, TypeLocals, FoldFailsReleaseRight, Fail, Return, OthersSame,
     SameLocals, OthersKeepValues
<1>3. /\ HasRight(w, x)
      /\ \A b : /\ HasLeft(w, b)' <=> HasLeft(w, b) /\ b # x
                /\ HasRight(w, b)' <=> HasRight(w, b) /\ b # x
  BY <1>1, <1>2 DEF FoldFailsReleaseRight, HasLeft, HasRight, HoldsLeft, HoldsRight, LeafHoldPCs,
     BothHoldPCs, ResultHoldPCs, ClaimPCs
<1>4. ValuesOf(w)'
  BY <1>2 DEF ValuesOf, ClaimPCs
<1> QED
  BY <1>1, <1>2, <1>3, <1>4, BufferReleaseStep DEF FoldFailsReleaseRight

\* After a fold the right child's block moves to the free list, and the left one is kept.
LEMMA BufferReleaseRight ==
    ASSUME TypeInv, Control, Buffers, NEW w \in Workers, ReleaseRight(w)
    PROVE  Buffers' /\ PublishedKept
<1>1. PICK x \in Blocks : x = rbuf[w]
  BY ShapeFacts DEF ReleaseRight, BothHoldPCs
<1>2. /\ OthersSame(w) /\ OthersKeepValues(w) /\ pc'[w] = "write" /\ lbuf'[w] = lbuf[w]
      /\ lval'[w] = lval[w] /\ cur'[w] = cur[w]
  BY DEF TypeInv, TypeOK, TypeThreads, TypeLocals, ReleaseRight, OthersSame,
     SameLocals, OthersKeepValues
<1>3. /\ HoldsLeft(w) /\ HoldsRight(w) /\ HoldsLeft(w)' /\ ~HoldsRight(w)'
  BY <1>2 DEF ReleaseRight, HoldsLeft, HoldsRight, LeafHoldPCs,
     BothHoldPCs, ResultHoldPCs, ClaimPCs
<1>4. HasRight(w, x) /\ OwnedOnce(x)
  BY <1>1, <1>3 DEF HasRight, Buffers, BlocksOwned
<1>5. ~HasLeft(w, x)
  BY <1>4 DEF OwnedOnce
<1>6. \A b : /\ HasLeft(w, b)' <=> HasLeft(w, b) /\ b # x
             /\ HasRight(w, b)' <=> HasRight(w, b) /\ b # x
  BY <1>1, <1>2, <1>3, <1>5 DEF HasLeft, HasRight
<1>7. ValuesOf(w)'
  BY <1>2 DEF ReleaseRight, Buffers, WorkerValues, ValuesOf, ClaimPCs
<1> QED
  BY <1>1, <1>2, <1>4, <1>6, <1>7, BufferReleaseStep DEF ReleaseRight

\* LeafTask::try_set_ready moves the worker's block to the task, with its accumulator in it.
LEMMA BufferLeafSetReady ==
    ASSUME TypeInv, Control, Buffers, NEW w \in Workers, LeafSetReady(w)
    PROVE  Buffers' /\ PublishedKept
<1>1. PICK x \in Tasks : x = cur[w]
  BY BusyTask DEF LeafSetReady, LeafPCs, LeafHoldPCs
<1>2. state[x] = "PROCESSING"
  BY <1>1 DEF Control, LeafWork, LeafWorkOf, LeafSetReady, LeafPCs, LeafHoldPCs
<1>3. /\ OthersSame(w) /\ OthersKeepValues(w) /\ pc'[w] \in {"notify1", "check"}
      /\ UNCHANGED <<bufferId, slot, free, main, mainBuf, result>>
  BY <1>1, <1>2 DEF TypeInv, TypeOK, TypeThreads, TypeLocals, LeafSetReady, Return, OthersSame,
     SameLocals, OthersKeepValues
<1>4. state'[x] = "READY" /\ \A t \in Tasks : t # x => state'[t] = state[t]
  BY <1>1, <1>2 DEF TypeInv, TypeOK, TypeHeap, LeafSetReady
<1>5. HoldsLeft(w) /\ ~HoldsLeft(w)' /\ ~HoldsRight(w) /\ ~HoldsRight(w)'
  BY <1>3 DEF LeafSetReady, HoldsLeft, HoldsRight, LeafHoldPCs, BothHoldPCs, ResultHoldPCs,
     ClaimPCs
<1>6. bufferId[x] = lbuf[w] /\ slot[lbuf[w]] = x
  BY <1>1 DEF LeafSetReady, Control, BufferIds, BufferIdOf, Buffers, WorkerValues, ValuesOf
<1>7. ValuesOf(w)'
  BY <1>3 DEF ValuesOf, ClaimPCs
<1> QED
  BY <1>2, <1>3, <1>4, <1>5, <1>6, <1>7, BufferPublishStep

\* NodeTask::try_set_ready moves the worker's block to the task, with its accumulator in it.
LEMMA BufferNodeSetReady ==
    ASSUME TypeInv, Control, Buffers, NEW w \in Workers, NodeSetReady(w)
    PROVE  Buffers' /\ PublishedKept
<1>1. PICK x \in Tasks : x = cur[w]
  BY BusyTask DEF NodeSetReady, NodePCs, ResultHoldPCs
<1>2. state[x] = "PROCESSING"
  BY <1>1 DEF Control, NodeWork, NodeWorkOf, NodeSetReady, NodePCs, ResultHoldPCs
<1>3. /\ OthersSame(w) /\ OthersKeepValues(w) /\ pc'[w] \in {"notify1", "signal"}
      /\ UNCHANGED <<bufferId, slot, free, main, mainBuf, result>>
  BY <1>1, <1>2 DEF TypeInv, TypeOK, TypeThreads, TypeLocals, NodeSetReady, OthersSame,
     SameLocals, OthersKeepValues
<1>4. state'[x] = "READY" /\ \A t \in Tasks : t # x => state'[t] = state[t]
  BY <1>1, <1>2 DEF TypeInv, TypeOK, TypeHeap, NodeSetReady
<1>5. HoldsLeft(w) /\ ~HoldsLeft(w)' /\ ~HoldsRight(w) /\ ~HoldsRight(w)'
  BY <1>3 DEF NodeSetReady, HoldsLeft, HoldsRight, LeafHoldPCs, BothHoldPCs, ResultHoldPCs,
     ClaimPCs
<1>6. bufferId[x] = lbuf[w] /\ slot[lbuf[w]] = x
  BY <1>1 DEF NodeSetReady, Control, BufferIds, BufferIdOf, Buffers, WorkerValues, ValuesOf
<1>7. ValuesOf(w)'
  BY <1>3 DEF ValuesOf, ClaimPCs
<1> QED
  BY <1>2, <1>3, <1>4, <1>5, <1>6, <1>7, BufferPublishStep

\* try_start_consuming moves the child's block, with its accumulator in it, to the worker.
LEMMA BufferStartConsuming ==
    ASSUME TypeInv, Control, Buffers, NEW w \in Workers, StartConsuming(w)
    PROVE  Buffers' /\ PublishedKept
<1>1. pc[w] = "consume" /\ pc[w] \in ClaimPCs /\ pc[w] \in NodePCs /\ pc[w] \in ChildPCs
  BY DEF StartConsuming, ClaimPCs, NodePCs, ChildPCs
<1>2. /\ cur[w] \in Nodes /\ child[w] \in Children(cur[w]) /\ child[w] \in Tasks \ {0}
      /\ Left(cur[w]) # Right(cur[w])
  BY <1>1, BusyTask
<1>3. PICK c \in Tasks \ {0} : c = child[w]
  BY <1>2
<1>4. PICK x \in Blocks : x = bufferId[c]
  BY <1>1, <1>3, ClaimedChild
<1>5. state[c] = "READY" /\ TaskHolds(c) /\ slot[x] = c
  BY <1>1, <1>3, <1>4, ClaimedChild DEF TaskHolds, Buffers, PublishedCorrect
<1>6. /\ OthersSame(w) /\ OthersKeepValues(w)
      /\ cur'[w] = cur[w] /\ lbuf'[w] = lbuf[w] /\ rbuf'[w] = rbuf[w]
      /\ UNCHANGED <<bufferId, slot, free, main, mainBuf, result>>
  BY <1>3, <1>5 DEF TypeInv, TypeOK, TypeThreads, TypeLocals, StartConsuming, OthersSame,
     SameLocals, OthersKeepValues
<1>7. state'[c] = "BEING_CONSUMED" /\ \A t \in Tasks : t # c => state'[t] = state[t]
  BY <1>3, <1>5 DEF TypeInv, TypeOK, TypeHeap, StartConsuming
<1>8. /\ ~TaskHolds(c)' /\ \A b : TaskHas(c, b) <=> b = x
      /\ \A t \in Tasks : t # c => (TaskHolds(t)' <=> TaskHolds(t))
  BY <1>4, <1>5, <1>6, <1>7 DEF TaskHas, TaskHolds, RootTaken
<1>9. \A b : /\ ~TaskHas(c, b)'
             /\ \A t \in Tasks : t # c => (TaskHas(t, b)' <=> TaskHas(t, b))
  BY <1>6, <1>8 DEF TaskHas
<1>10. /\ \A b : (MainHas(b)' <=> MainHas(b)) /\ (InFree(b)' <=> InFree(b))
       /\ FreeDistinct'
  BY <1>6 DEF MainHas, MainHolds, InFree, Buffers, FreeDistinct
<1>11. \A v \in Workers : v # w => \A b : /\ HasLeft(v, b)' <=> HasLeft(v, b)
                                          /\ HasRight(v, b)' <=> HasRight(v, b)
  BY <1>6, FrameHolders
<1>12. OwnedOnce(x) /\ TaskHas(c, x)
  BY <1>8 DEF Buffers, BlocksOwned
<1>13. /\ ~InFree(x) /\ ~MainHas(x) /\ \A t \in Tasks : t # c => ~TaskHas(t, x)
       /\ \A v \in Workers : ~HasLeft(v, x) /\ ~HasRight(v, x)
  BY <1>12 DEF OwnedOnce
<1>14. \A t \in Tasks : TaskHolds(t)' => TaskHolds(t) /\ bufferId'[t] = bufferId[t]
  BY <1>6, <1>8
<1>15. \A b \in Blocks : b # x =>
           /\ InFree(b)' <=> InFree(b)
           /\ MainHas(b)' <=> MainHas(b)
           /\ \A t \in Tasks : TaskHas(t, b)' <=> TaskHas(t, b)
  BY <1>8, <1>9, <1>10
<1>16. /\ ~InFree(x)' /\ ~MainHas(x)' /\ \A t \in Tasks : ~TaskHas(t, x)'
       /\ \A v \in Workers : v # w => ~HasLeft(v, x)' /\ ~HasRight(v, x)'
  BY <1>9, <1>10, <1>11, <1>13
<1>17. CASE AtLeft(w)
  <2>1. /\ pc'[w] = "is_ready" /\ child'[w] = Right(cur[w]) /\ lbuf[w] = x /\ c = Left(cur[w])
    BY <1>1, <1>3, <1>4, <1>5, <1>17 DEF TypeInv, TypeOK, TypeThreads, TypeLocals, StartConsuming,
       AtLeft, Control, BufferIds, BufferIdOf
  <2>2. HoldsLeft(w)' /\ ~HoldsLeft(w) /\ ~HoldsRight(w) /\ ~HoldsRight(w)'
    BY <1>1, <1>2, <1>6, <1>17, <2>1 DEF HoldsLeft, HoldsRight, AtLeft, LeafHoldPCs, BothHoldPCs,
       ResultHoldPCs, ClaimPCs
  <2>3. \A b : /\ HasLeft(w, b)' <=> b = x
               /\ ~HasLeft(w, b) /\ ~HasRight(w, b) /\ ~HasRight(w, b)'
    BY <1>6, <2>1, <2>2 DEF HasLeft, HasRight
  <2>4. \A b \in Blocks : b # x => SameOwners(b)
    BY <1>11, <1>15, <2>3 DEF SameOwners
  <2>5. Owned(x)' /\ OwnedOnce(x)'
    BY <1>16, <2>3 DEF Owned, OwnedOnce
  <2>6. ValuesOf(w)'
    BY <1>5, <1>6, <2>1 DEF ValuesOf, ClaimPCs
  <2> QED
    BY <1>6, <1>10, <1>14, <2>1, <2>4, <2>5, <2>6, BufferStep
<1>18. CASE ~AtLeft(w)
  <2>1. /\ pc'[w] = "read" /\ child'[w] = Left(cur[w]) /\ rbuf[w] = x /\ c = Right(cur[w])
    BY <1>1, <1>2, <1>3, <1>4, <1>5, <1>18 DEF TypeInv, TypeOK, TypeThreads, TypeLocals, StartConsuming,
       AtLeft, Control, BufferIds, BufferIdOf, Children
  <2>2. HoldsLeft(w)' /\ HoldsLeft(w) /\ ~HoldsRight(w) /\ HoldsRight(w)'
    BY <1>1, <1>18, <2>1 DEF HoldsLeft, HoldsRight, LeafHoldPCs, BothHoldPCs,
       ResultHoldPCs, ClaimPCs
  <2>3. \A b : /\ HasRight(w, b)' <=> b = x
               /\ ~HasRight(w, b) /\ (HasLeft(w, b)' <=> HasLeft(w, b))
    BY <1>6, <2>1, <2>2 DEF HasLeft, HasRight
  <2>4. \A b \in Blocks : b # x => SameOwners(b)
    BY <1>11, <1>15, <2>3 DEF SameOwners
  <2>5. ~HasLeft(w, x)'
    BY <1>13, <2>3
  <2>6. Owned(x)' /\ OwnedOnce(x)'
    BY <1>16, <2>3, <2>5 DEF Owned, OwnedOnce
  <2>7. slot[lbuf[w]] = Left(cur[w])
    BY <1>1, <1>18 DEF Buffers, WorkerValues, ValuesOf
  <2>8. ValuesOf(w)'
    BY <1>5, <1>6, <2>1, <2>7 DEF ValuesOf, ClaimPCs, AtLeft
  <2> QED
    BY <1>6, <1>10, <1>14, <2>1, <2>4, <2>6, <2>8, BufferStep
<1> QED
  BY <1>17, <1>18

\* Every step of a worker keeps the buffer invariant.
LEMMA BufferWorkerStep ==
    ASSUME TypeInv, Control, Buffers, NEW w \in Workers, WorkerStep(w)
    PROVE  Buffers' /\ PublishedKept
<1>1. CASE LeafStep(w)
  BY <1>1, BufferAlloc, BufferLeafStartProcessing, BufferConvert, BufferConvertFails,
     BufferLeafResetState, BufferLeafResetBufferId, BufferLeafReleaseBuffer,
     BufferLeafSetReady DEF LeafStep
<1>2. CASE NodeStep(w)
  BY <1>2, BufferNodeCheckState, BufferConsumeIsReady, BufferConsumeLoadId,
     BufferStartConsuming, BufferReadChild, BufferFoldAccAcc, BufferFoldFails,
     BufferFoldFailsReleaseLeft, BufferFoldFailsReleaseRight, BufferSetConsumed,
     BufferClearBufferId, BufferReleaseRight, BufferNodeStartProcessing,
     BufferNodeSetReady, BufferSignalCompletion DEF NodeStep
<1> QED
  BY <1>1, <1>2, BufferCheckStop, BufferPopReady, BufferPopLeaf, BufferYield,
     BufferStoreBufferId, BufferWriteResult, BufferGotFirstChild, BufferGotSecondChild
     DEF WorkerStep

-----------------------------------------------------------------------------
(* Steps of the producer and of the caller of run.                          *)

\* What is left to show of a step that no worker takes.
LEMMA BufferOutside ==
    ASSUME TypeInv, Control, Buffers, UNCHANGED <<state, bufferId, pc, workVars>>,
           FreeDistinct',
           \A b \in Blocks : SameOwners(b) \/ (Owned(b)' /\ OwnedOnce(b)'),
           \A b \in Blocks : slot'[b] = slot[b] \/ MainHas(b),
           \A t \in Tasks : TaskHolds(t)' => TaskHolds(t),
           MainValue', main' # "panicked"
    PROVE  Buffers' /\ PublishedKept
<1>1. \A b \in Blocks : Owned(b) /\ OwnedOnce(b)
  BY DEF Buffers, BlocksOwned
<1>2. BlocksOwned'
  BY <1>1, OwnersKept DEF BlocksOwned
<1>3. ASSUME NEW t \in Tasks, TaskHolds(t)
      PROVE  slot'[bufferId[t]] = slot[bufferId[t]] /\ slot[bufferId[t]] = t
  <2>1. bufferId[t] \in Blocks /\ TaskHas(t, bufferId[t])
    BY <1>3, PublishedBlock
  <2>2. ~MainHas(bufferId[t])
    BY <1>1, <2>1 DEF OwnedOnce
  <2> QED
    BY <1>3, <2>1, <2>2 DEF Buffers, PublishedCorrect
<1>4. ASSUME NEW v \in Workers PROVE ValuesOf(v)'
  <2>1. HoldsLeft(v) => slot'[lbuf[v]] = slot[lbuf[v]]
    BY <1>1, HandleBlock DEF OwnedOnce
  <2>2. HoldsRight(v) => slot'[rbuf[v]] = slot[rbuf[v]]
    BY <1>1, HandleBlock DEF OwnedOnce
  <2> QED
    BY <2>1, <2>2, FrameValues DEF Buffers, WorkerValues, SameLocals
<1>5. WorkerValues' /\ NoPanic'
  BY <1>4 DEF WorkerValues, Buffers, NoPanic
<1>6. PublishedCorrect' /\ PublishedKept
  BY <1>3 DEF PublishedCorrect, PublishedKept
<1> QED
  BY <1>2, <1>5, <1>6 DEF Buffers

\* The handles of the workers, when no worker moves.
LEMMA FrameAllHolders ==
    ASSUME UNCHANGED <<pc, workVars>>, NEW v \in Workers, NEW b
    PROVE  (HasLeft(v, b)' <=> HasLeft(v, b)) /\ (HasRight(v, b)' <=> HasRight(v, b))
BY DEF HasLeft, HasRight, HoldsLeft, HoldsRight, AtLeft

\* The producer, and the steps of run that do not touch the root's buffer, move no block.
LEMMA BufferQuietOutside ==
    ASSUME TypeInv, Control, Buffers,
           Produce \/ ProducerDone \/ WaitCompletion \/ ReadRoot \/ JoinWorkers
    PROVE  Buffers' /\ PublishedKept
<1>1. /\ UNCHANGED <<state, bufferId, free, mainBuf, pc, workVars>>
      /\ \/ UNCHANGED <<slot, result>> /\ main' = main
         \/ UNCHANGED <<slot, result>> /\ main = "wait" /\ main' = "load_root"
         \/ UNCHANGED <<slot, result>> /\ main = "join" /\ main' = "Ok"
         \/ ReadRoot
  BY DEF Produce, ProducerDone, WaitCompletion, ReadRoot, JoinWorkers
<1>2. /\ MainHolds => mainBuf \in Blocks
      /\ main = "read_root" => slot[mainBuf] = 0 /\ slot[mainBuf] # NoVal
  BY DEF TypeInv, Shape, Buffers, MainValue, NoVal
<1>3. ReadRoot => main = "read_root" /\ main' = "drop_root" /\ result' = 0
  BY <1>2 DEF ReadRoot
<1>4. FreeDistinct' /\ \A b : InFree(b)' <=> InFree(b)
  BY <1>1 DEF Buffers, FreeDistinct, InFree
<1>5. (MainHolds' <=> MainHolds) /\ \A b : MainHas(b)' <=> MainHas(b)
  BY <1>1, <1>3 DEF MainHolds, MainHas
<1>6. \A t \in Tasks : (TaskHolds(t)' <=> TaskHolds(t)) /\ \A b : TaskHas(t, b)' <=> TaskHas(t, b)
  BY <1>1, <1>3 DEF TaskHolds, TaskHas, RootTaken
<1>7. \A b \in Blocks : SameOwners(b)
  BY <1>1, <1>4, <1>5, <1>6, FrameAllHolders DEF SameOwners
<1>8. \A b \in Blocks : slot'[b] = slot[b] \/ MainHas(b)
  BY <1>1, <1>2 DEF ReadRoot, MainHas, MainHolds, TypeInv, TypeOK, TypePool
<1>9. MainValue' /\ main' # "panicked"
  BY <1>1, <1>3 DEF Buffers, MainValue, NoPanic
<1> QED
  BY <1>1, <1>4, <1>6, <1>7, <1>8, <1>9, BufferOutside

\* get_root_result finds the root's buffer, and its claim moves the block to the caller.
LEMMA BufferLoadRoot ==
    ASSUME TypeInv, Control, Buffers, LoadRoot
    PROVE  Buffers' /\ PublishedKept
<1>1. 0 \in Nodes /\ 0 \in Tasks /\ state[0] = "READY" /\ bufferId[0] \in Blocks
  BY HeapChildren DEF LoadRoot, Control, MainWaits, RootReady, BufferIds
<1>2. PICK x \in Blocks : x = bufferId[0]
  BY <1>1
<1>3. /\ main = "load_root" /\ main' = "read_root" /\ mainBuf' = x
      /\ UNCHANGED <<state, bufferId, slot, free, pc, workVars>>
  BY <1>1, <1>2 DEF LoadRoot, Blocks
<1>4. TaskHolds(0) /\ slot[x] = 0
  BY <1>1, <1>2, <1>3 DEF TaskHolds, RootTaken, Buffers, PublishedCorrect
<1>5. /\ ~TaskHolds(0)' /\ \A t \in Tasks : t # 0 => (TaskHolds(t)' <=> TaskHolds(t))
  BY <1>3 DEF TaskHolds, RootTaken
<1>6. \A b : /\ TaskHas(0, b) <=> b = x
             /\ ~TaskHas(0, b)'
             /\ \A t \in Tasks : t # 0 => (TaskHas(t, b)' <=> TaskHas(t, b))
  BY <1>2, <1>3, <1>4, <1>5 DEF TaskHas
<1>7. OwnedOnce(x)
  BY DEF Buffers, BlocksOwned
<1>8. /\ ~InFree(x) /\ \A t \in Tasks : t # 0 => ~TaskHas(t, x)
      /\ \A v \in Workers : ~HasLeft(v, x) /\ ~HasRight(v, x)
  BY <1>1, <1>6, <1>7 DEF OwnedOnce
<1>9. \A b : /\ ~MainHas(b)
             /\ MainHas(b)' <=> b = x
             /\ InFree(b)' <=> InFree(b)
  BY <1>3 DEF MainHas, MainHolds, InFree
<1>10. \A v \in Workers : \A b : /\ HasLeft(v, b)' <=> HasLeft(v, b)
                                 /\ HasRight(v, b)' <=> HasRight(v, b)
  BY <1>3, FrameAllHolders
<1>11. \A b \in Blocks : b # x => SameOwners(b)
  BY <1>6, <1>9, <1>10 DEF SameOwners
<1>12. Owned(x)'
  BY <1>9 DEF Owned
<1>13. OwnedOnce(x)'
  BY <1>6, <1>8, <1>9, <1>10 DEF OwnedOnce
<1>14. MainValue' /\ main' # "panicked" /\ FreeDistinct'
  BY <1>3, <1>4 DEF MainValue, Buffers, FreeDistinct
<1> QED
  BY <1>3, <1>5, <1>11, <1>12, <1>13, <1>14, BufferOutside

\* The drop of the root's handle moves its block from the caller to the free list.
LEMMA BufferDropRoot ==
    ASSUME TypeInv, Control, Buffers, DropRoot
    PROVE  Buffers' /\ PublishedKept
<1>1. PICK x \in Blocks : x = mainBuf
  BY DEF DropRoot, TypeInv, Shape, MainHolds
<1>2. /\ main = "drop_root" /\ main' = "join" /\ Release(x)
      /\ UNCHANGED <<state, bufferId, pc, workVars, result>>
  BY <1>1 DEF DropRoot
<1>3. OwnedOnce(x) /\ FreeDistinct /\ MainHas(x)
  BY <1>1, <1>2 DEF Buffers, BlocksOwned, MainHas, MainHolds
<1>4. /\ ~InFree(x) /\ \A t \in Tasks : ~TaskHas(t, x)
      /\ \A v \in Workers : ~HasLeft(v, x) /\ ~HasRight(v, x)
  BY <1>3 DEF OwnedOnce
<1>5. /\ InFree(x)' /\ FreeDistinct'
      /\ \A b \in Blocks : b # x => (InFree(b)' <=> InFree(b)) /\ slot'[b] = slot[b]
  BY <1>2, <1>3, <1>4, FreeAdd
<1>6. \A b : /\ MainHas(b) <=> b = x
             /\ ~MainHas(b)'
  BY <1>1, <1>2 DEF MainHas, MainHolds
<1>7. \A t \in Tasks : (TaskHolds(t)' <=> TaskHolds(t)) /\ \A b : TaskHas(t, b)' <=> TaskHas(t, b)
  BY <1>2 DEF TaskHolds, TaskHas, RootTaken
<1>8. \A v \in Workers : \A b : /\ HasLeft(v, b)' <=> HasLeft(v, b)
                                /\ HasRight(v, b)' <=> HasRight(v, b)
  BY <1>2, FrameAllHolders
<1>9. \A b \in Blocks : b # x => SameOwners(b)
  BY <1>5, <1>6, <1>7, <1>8 DEF SameOwners
<1>10. Owned(x)'
  BY <1>5 DEF Owned
<1>11. OwnedOnce(x)'
  BY <1>4, <1>6, <1>7, <1>8 DEF OwnedOnce
<1>12. MainValue' /\ main' # "panicked"
  BY <1>2 DEF MainValue, Buffers
<1>13. \A b \in Blocks : slot'[b] = slot[b] \/ MainHas(b)
  BY <1>5, <1>6
<1> QED
  BY <1>2, <1>5, <1>7, <1>9, <1>10, <1>11, <1>12, <1>13, BufferOutside

\* Creating the pool, the workers and the producer keeps the buffer invariant.
LEMMA BufferStart ==
    ASSUME TypeInv, Control, Buffers, Start
    PROVE  Buffers' /\ PublishedKept
<1>1. /\ UNCHANGED <<state, bufferId, slot, free, mainBuf, result, workVars>>
      /\ main = "start" /\ main' \in {"wait", "InvalidInput"}
  BY DEF Start
<1>2. \A w \in Workers : pc[w] = "unborn" /\ pc'[w] \in {"unborn", "check"}
  BY DEF Start, TypeInv, Shape
<1>3. \A w \in Workers : \A b : /\ ~HasLeft(w, b) /\ ~HasLeft(w, b)'
                                /\ ~HasRight(w, b) /\ ~HasRight(w, b)'
  BY <1>2 DEF HasLeft, HasRight, HoldsLeft, HoldsRight, LeafHoldPCs, BothHoldPCs,
     ResultHoldPCs, ClaimPCs
<1>4. \A t \in Tasks : (TaskHolds(t)' <=> TaskHolds(t)) /\ \A b : TaskHas(t, b)' <=> TaskHas(t, b)
  BY <1>1 DEF TaskHolds, TaskHas, RootTaken
<1>5. \A b : /\ MainHas(b)' <=> MainHas(b)
             /\ InFree(b)' <=> InFree(b)
  BY <1>1 DEF MainHas, MainHolds, InFree
<1>6. BlocksOwned'
  <2>1. \A b \in Blocks : SameOwners(b)
    BY <1>3, <1>4, <1>5 DEF SameOwners
  <2> QED
    BY <2>1, OwnersKept DEF Buffers, BlocksOwned
<1>7. FreeDistinct' /\ PublishedCorrect' /\ MainValue'
  BY <1>1, <1>4 DEF Buffers, FreeDistinct, PublishedCorrect, MainValue
<1>8. WorkerValues' /\ NoPanic'
  BY <1>1, <1>2 DEF WorkerValues, ValuesOf, NoPanic, ClaimPCs
<1>9. PublishedKept
  BY <1>1 DEF PublishedKept
<1> QED
  BY <1>6, <1>7, <1>8, <1>9 DEF Buffers

\* A step that changes nothing keeps the buffer invariant.
LEMMA BufferStutter ==
    ASSUME TypeInv, Control, Buffers, UNCHANGED vars
    PROVE  Buffers' /\ PublishedKept
<1>1. \A t \in Tasks : (TaskHolds(t)' <=> TaskHolds(t)) /\ \A b : TaskHas(t, b)' <=> TaskHas(t, b)
  BY DEF vars, TaskHolds, TaskHas, RootTaken
<1>2. \A b : /\ MainHas(b)' <=> MainHas(b)
             /\ InFree(b)' <=> InFree(b)
  BY DEF vars, MainHas, MainHolds, InFree
<1>3. \A b \in Blocks : SameOwners(b)
  BY <1>1, <1>2, FrameAllHolders DEF vars, SameOwners
<1>4. FreeDistinct' /\ MainValue' /\ main' # "panicked"
  BY DEF vars, Buffers, FreeDistinct, MainValue, NoPanic
<1> QED
  BY <1>1, <1>3, <1>4, BufferOutside DEF vars

-----------------------------------------------------------------------------
(* The buffer invariant.                                                    *)

\* In the initial pool every block is free, once.
LEMMA BufferInit == Init => Buffers
<1> SUFFICES ASSUME Init PROVE Buffers
  OBVIOUS
<1>1. /\ free = [i \in 1 .. NumBlocks |-> NumBlocks - i] /\ NumBlocks \in Nat
      /\ free \in Seq(Blocks)
  BY TypeInit, ConstantsAssumption DEF Init, TypeInv, TypeOK, TypePool
<1>2. Len(free) = NumBlocks
  <2>1. Len(free) \in Nat /\ DOMAIN free = 1 .. Len(free)
    BY <1>1, LenProperties
  <2>2. 1 .. Len(free) = 1 .. NumBlocks
    BY <1>1, <2>1
  <2>3. \A m, n \in Nat : 1 .. m = 1 .. n => m = n
    OBVIOUS
  <2> QED
    BY <1>1, <2>1, <2>2, <2>3, Zenon
<1>3. FreeDistinct
  BY <1>1, <1>2 DEF FreeDistinct
<1>4. \A b \in Blocks : InFree(b)
  <2> SUFFICES ASSUME NEW b \in Blocks PROVE InFree(b)
    OBVIOUS
  <2>1. NumBlocks - b \in 1 .. NumBlocks /\ NumBlocks - (NumBlocks - b) = b
    BY <1>1 DEF Blocks
  <2>2. free[NumBlocks - b] = b
    BY <1>1, <2>1
  <2> QED
    BY <1>2, <2>1, <2>2 DEF InFree
<1>5. \A w \in Workers : pc[w] = "unborn" /\ \A b : ~HasLeft(w, b) /\ ~HasRight(w, b)
  BY DEF Init, HasLeft, HasRight, HoldsLeft, HoldsRight, LeafHoldPCs, BothHoldPCs,
     ResultHoldPCs, ClaimPCs
<1>6. \A t \in Tasks : ~TaskHolds(t) /\ \A b : ~TaskHas(t, b)
  BY DEF Init, TaskHolds, TaskHas
<1>7. \A b : ~MainHas(b)
  BY DEF Init, MainHas, MainHolds
<1>8. BlocksOwned
  BY <1>4, <1>5, <1>6, <1>7 DEF BlocksOwned, Owned, OwnedOnce
<1>9. PublishedCorrect /\ MainValue
  BY <1>6 DEF Init, PublishedCorrect, MainValue
<1>10. WorkerValues /\ NoPanic
  BY <1>5 DEF Init, WorkerValues, ValuesOf, NoPanic, ClaimPCs
<1> QED
  BY <1>3, <1>8, <1>9, <1>10 DEF Buffers

\* The buffer invariant is inductive relative to the control invariant.
LEMMA BufferNext == TypeInv /\ Control /\ Buffers /\ [Next]_vars => Buffers' /\ PublishedKept
BY BufferWorkerStep, BufferQuietOutside, BufferLoadRoot, BufferDropRoot, BufferStart, BufferStutter
   DEF Next, ProducerStep, MainStep, Terminated

\* In every reachable state of the folder, whatever the interleaving of its threads: every
\* block of the pool has exactly one owner, a published result is the fold of its own
\* subtree, what a worker has read or computed is what its task calls for, and no handle
\* is read while its slot is empty.
THEOREM BufferInvariant == Spec => []Buffers
BY BufferInit, BufferNext, TypeInvariant, ControlInvariant, PTL DEF Spec

-----------------------------------------------------------------------------
(* One owner per block.                                                     *)

\* Who the owners of a block are, in terms of the invariant.
LEMMA OwnerKinds ==
    ASSUME NEW b, NEW o
    PROVE  o \in Owners(b) <=>
               \/ \E i \in 1 .. Len(free) : free[i] = b /\ o = <<"free", i>>
               \/ \E w \in Workers : HasLeft(w, b) /\ o = <<"left", w>>
               \/ \E w \in Workers : HasRight(w, b) /\ o = <<"right", w>>
               \/ \E t \in Tasks : TaskHas(t, b) /\ o = <<"task", t>>
               \/ MainHas(b) /\ o = <<"main", 0>>
BY DEF Owners, HasLeft, HasRight, TaskHas, MainHas

\* A block with an owner and no second one has a singleton of owners.
LEMMA OneOwner ==
    ASSUME FreeDistinct, NEW b \in Blocks, Owned(b), OwnedOnce(b)
    PROVE  \E o : Owners(b) = {o}
<1>1. CASE InFree(b)
  <2>1. PICK i \in 1 .. Len(free) : free[i] = b
    BY <1>1 DEF InFree
  <2>2. /\ \A w \in Workers : ~HasLeft(w, b) /\ ~HasRight(w, b)
        /\ \A t \in Tasks : ~TaskHas(t, b)
        /\ ~MainHas(b)
    BY <1>1 DEF OwnedOnce
  <2>3. \A j \in 1 .. Len(free) : free[j] = b => j = i
    BY <2>1 DEF FreeDistinct
  <2>4. \A o : o \in Owners(b) <=> o = <<"free", i>>
    BY <2>1, <2>2, <2>3, OwnerKinds
  <2>5. Owners(b) = {<<"free", i>>}
    BY <2>4
  <2> QED
    BY <2>5
<1>2. CASE \E w \in Workers : HasLeft(w, b)
  <2>1. PICK w \in Workers : HasLeft(w, b)
    BY <1>2
  <2>2. /\ \A v \in Workers : (HasLeft(v, b) => v = w) /\ ~HasRight(v, b)
        /\ \A t \in Tasks : ~TaskHas(t, b)
        /\ ~MainHas(b) /\ ~InFree(b)
    BY <2>1 DEF OwnedOnce
  <2>3. \A o : o \in Owners(b) <=> o = <<"left", w>>
    BY <2>1, <2>2, OwnerKinds DEF InFree
  <2>4. Owners(b) = {<<"left", w>>}
    BY <2>3
  <2> QED
    BY <2>4
<1>3. CASE \E w \in Workers : HasRight(w, b)
  <2>1. PICK w \in Workers : HasRight(w, b)
    BY <1>3
  <2>2. /\ \A v \in Workers : (HasRight(v, b) => v = w) /\ ~HasLeft(v, b)
        /\ \A t \in Tasks : ~TaskHas(t, b)
        /\ ~MainHas(b) /\ ~InFree(b)
    BY <2>1 DEF OwnedOnce
  <2>3. \A o : o \in Owners(b) <=> o = <<"right", w>>
    BY <2>1, <2>2, OwnerKinds DEF InFree
  <2>4. Owners(b) = {<<"right", w>>}
    BY <2>3
  <2> QED
    BY <2>4
<1>4. CASE \E t \in Tasks : TaskHas(t, b)
  <2>1. PICK t \in Tasks : TaskHas(t, b)
    BY <1>4
  <2>2. /\ \A w \in Workers : ~HasLeft(w, b) /\ ~HasRight(w, b)
        /\ \A u \in Tasks : TaskHas(u, b) => u = t
        /\ ~MainHas(b) /\ ~InFree(b)
    BY <2>1 DEF OwnedOnce
  <2>3. \A o : o \in Owners(b) <=> o = <<"task", t>>
    BY <2>1, <2>2, OwnerKinds DEF InFree
  <2>4. Owners(b) = {<<"task", t>>}
    BY <2>3
  <2> QED
    BY <2>4
<1>5. CASE MainHas(b)
  <2>1. /\ \A w \in Workers : ~HasLeft(w, b) /\ ~HasRight(w, b)
        /\ \A t \in Tasks : ~TaskHas(t, b)
        /\ ~InFree(b)
    BY <1>5 DEF OwnedOnce
  <2>2. \A o : o \in Owners(b) <=> o = <<"main", 0>>
    BY <1>5, <2>1, OwnerKinds DEF InFree
  <2>3. Owners(b) = {<<"main", 0>>}
    BY <2>2
  <2> QED
    BY <2>3
<1> QED
  BY <1>1, <1>2, <1>3, <1>4, <1>5 DEF Owned

\* Every block of the pool always has exactly one owner: the free list (once), one handle of
\* one worker, one published task, or the caller reading the root.  BlockPool::claim checks
\* no ownership; the protocol around it does, for every number of workers and leaves.
THEOREM OneOwnerPerBlock == Spec => []BlockOwnership
<1>1. Buffers => BlockOwnership
  BY OneOwner, FS_Singleton DEF Buffers, BlocksOwned, BlockOwnership
<1> QED
  BY <1>1, BufferInvariant, PTL

-----------------------------------------------------------------------------
(* One folder per waiting node.                                             *)

\* A worker that folds node n, seen from the control layer.
LEMMA FolderKinds ==
    ASSUME TypeInv, Control, NEW n, NEW w \in FoldersOf(n)
    PROVE  /\ w \in Workers
           /\ \/ readyQ[w] # <<>> /\ readyQ[w][1] = n
              \/ pc[w] \in NodePCs /\ cur[w] = n
<1>1. CASE \E i \in 1 .. Len(readyQ[w]) : readyQ[w][i] = n
  <2>1. PICK i \in 1 .. Len(readyQ[w]) : readyQ[w][i] = n
    BY <1>1
  <2>2. w \in Workers /\ readyQ[w] \in Seq(Nodes)
    BY DEF FoldersOf, TypeInv, TypeOK, TypeQueues
  <2>3. Len(readyQ[w]) <= 1 /\ Len(readyQ[w]) \in Nat
    BY <2>2 DEF Control, ReadyQueues, ReadyQueueOf
  <2>4. i = 1 /\ readyQ[w] # <<>>
    BY <2>3
  <2> QED
    BY <2>1, <2>2, <2>4
<1> QED
  BY <1>1 DEF FoldersOf, NodePCs

\* No node has two folders: not twice at hand, not twice queued, and not queued while it is
\* at hand.
LEMMA OneFolder ==
    ASSUME TypeInv, Control, NEW n, NEW v \in FoldersOf(n), NEW w \in FoldersOf(n)
    PROVE  v = w
<1>1. v \in Workers /\ w \in Workers
  BY FolderKinds
<1>2. CASE readyQ[v] # <<>> /\ readyQ[v][1] = n
  <2>1. Idle(n) /\ \A u \in Workers : readyQ[u] # <<>> /\ readyQ[u][1] = n => u = v
    BY <1>1, <1>2 DEF Control, ReadyQueues, ReadyQueueOf
  <2> QED
    BY <1>1, <2>1, FolderKinds, BusyKinds DEF Idle
<1>3. CASE pc[v] \in NodePCs /\ cur[v] = n
  <2>1. ~(readyQ[w] # <<>> /\ readyQ[w][1] = n)
    BY <1>1, <1>3, BusyKinds DEF Control, ReadyQueues, ReadyQueueOf, Idle
  <2>2. pc[w] \in NodePCs /\ cur[w] = n
    BY <2>1, FolderKinds
  <2> QED
    BY <1>1, <1>3, <2>2, BusyKinds DEF Control, OneWorkerPerTask
<1> QED
  BY <1>2, <1>3, FolderKinds

\* A node whose two children have reported is always in the hands of exactly one worker
\* until it is published, or its fold has failed: the push onto the ready queue, whose
\* failure the worker ignores, never meets a full queue.
THEOREM NoNodeIsLost == Spec => []NoNodeLost
<1>1. ASSUME TypeInv, Control, Buffers PROVE NoNodeLost
  <2> SUFFICES ASSUME NEW n \in Nodes, state[n] \in {"WAITING_BOTH_CHILDREN", "PROCESSING"}
               PROVE  \/ Cardinality(FoldersOf(n)) = 1
                      \/ FoldersOf(n) = {} /\ "FoldOperationFailed" \in errors
    BY DEF NoNodeLost
  <2>1. FoldersOf(n) # {} \/ "FoldOperationFailed" \in errors
    BY <1>1 DEF Control, NodesHeld, Buffers, NoPanic
  <2>2. ASSUME NEW w \in FoldersOf(n) PROVE Cardinality(FoldersOf(n)) = 1
    <3>1. \A v : v \in FoldersOf(n) => v = w
      BY <1>1, <2>2, OneFolder
    <3>2. FoldersOf(n) = {w}
      BY <2>2, <3>1
    <3> QED
      BY <3>2, FS_Singleton
  <2> QED
    BY <2>1, <2>2
<1> QED
  BY <1>1, TypeInvariant, ControlInvariant, BufferInvariant, PTL

-----------------------------------------------------------------------------
(* The result of run, and what it leaves behind.                            *)

\* Every path of the heap ends at the root: once stop is set, every other task has been
\* consumed.  A first task that is not would have a parent that is.
LEMMA AllConsumed ==
    ASSUME TypeInv, Control, stop = 1
    PROVE  \A t \in Tasks \ {0} : state[t] = "CONSUMED"
<1> DEFINE Late == {t \in Tasks \ {0} : state[t] # "CONSUMED"}
<1>1. ASSUME NEW x \in Late PROVE \E y \in Late : y < x
  <2>1. x \in Tasks \ {0} /\ state[x] # "CONSUMED"
    BY <1>1
  <2>2. PICK p \in Nodes : p = Parent(x) /\ x \in Children(p)
    BY <2>1, HeapParent DEF Children
  <2>3. p \in Tasks /\ p < x
    BY <2>2, HeapChildren, NumLeavesAssumption DEF Nodes, Children, Left, Right
  <2>4. state[p] # "CONSUMED" /\ state[p] # "READY"
    BY <2>1, <2>2 DEF Control, ChildrenConsumed
  <2>5. p # 0
    BY <2>4 DEF Control, RootReady
  <2> QED
    BY <2>3, <2>4, <2>5
<1>2. Late = {}
  <2> SUFFICES ASSUME Late # {} PROVE FALSE
    OBVIOUS
  <2>1. Late \subseteq Nat
    BY NumLeavesAssumption DEF Tasks, Size
  <2>2. PICK x \in Late : \A y \in Late : ~(<<y, x>> \in OpToRel(<, Nat))
    BY <2>1, WFMin, NatLessThanWellFounded, Zenon
  <2>3. PICK y \in Late : y < x
    BY <1>1
  <2>4. <<y, x>> \in OpToRel(<, Nat)
    BY <2>1, <2>3 DEF OpToRel
  <2> QED
    BY <2>2, <2>4
<1> QED
  BY <1>2

\* When run returns Ok, its value is the fold of the whole tree, in order and each leaf
\* once; every block is back in the free list and no task but the root names a buffer.
THEOREM OkReturnsWholeFold == Spec => []OkIsWholeFold
<1>1. ASSUME TypeInv, Control, Buffers PROVE OkIsWholeFold
  <2> SUFFICES ASSUME main = "Ok"
               PROVE  /\ result = 0
                      /\ {free[i] : i \in 1 .. Len(free)} = Blocks
                      /\ \A t \in Tasks \ {0} : bufferId[t] = NoBuf
    BY DEF OkIsWholeFold
  <2>1. stop = 1 /\ \A w \in Workers : pc[w] \in {"exited", "panicked"}
    BY <1>1 DEF Control, MainWaits
  <2>2. \A t \in Tasks \ {0} : state[t] = "CONSUMED"
    BY <1>1, <2>1, AllConsumed
  <2>3. result = 0
    BY <1>1 DEF Buffers, MainValue
  <2>4. \A t \in Tasks \ {0} : bufferId[t] = NoBuf
    BY <1>1, <2>1, <2>2 DEF Control, BufferIds, ClearedId
  <2>5. ASSUME NEW b \in Blocks PROVE InFree(b)
    <3>1. Owned(b)
      BY <1>1 DEF Buffers, BlocksOwned
    <3>2. \A w \in Workers : ~HasLeft(w, b) /\ ~HasRight(w, b)
      BY <2>1 DEF HasLeft, HasRight, HoldsLeft, HoldsRight, LeafHoldPCs, BothHoldPCs,
         ResultHoldPCs, ClaimPCs
    <3>3. \A t \in Tasks : ~TaskHas(t, b)
      BY <2>2 DEF TaskHas, TaskHolds, RootTaken
    <3>4. ~MainHas(b)
      BY DEF MainHas, MainHolds
    <3> QED
      BY <3>1, <3>2, <3>3, <3>4 DEF Owned
  <2>6. \A i \in 1 .. Len(free) : free[i] \in Blocks
    BY <1>1 DEF TypeInv, TypeOK, TypePool
  <2>7. {free[i] : i \in 1 .. Len(free)} = Blocks
    BY <2>5, <2>6 DEF InFree
  <2> QED
    BY <2>3, <2>4, <2>7
<1> QED
  BY <1>1, TypeInvariant, ControlInvariant, BufferInvariant, PTL

\* No step of any thread moves or overwrites a published result: as long as it is
\* published, its task names the same buffer, and the buffer holds the same accumulator.
THEOREM PublishedStays == Spec => PublishedStable
<1>1. TypeInv /\ Control /\ Buffers /\ [Next]_vars => [PublishedKept]_vars
  BY BufferNext
<1>2. Spec => [][PublishedKept]_vars
  BY <1>1, TypeInvariant, ControlInvariant, BufferInvariant, PTL DEF Spec
<1> QED
  BY <1>2 DEF PublishedStable, PublishedKept

-----------------------------------------------------------------------------
(* The folder implements FoldTree.                                          *)

\* Exactly task x becomes done: a leaf, or a node with both children done.
BecomesDone(x) ==
    /\ ~Done(x) /\ Done(x)'
    /\ \A t \in Tasks : t # x => (Done(t)' <=> Done(t))
    /\ x \in Leaves \/ (x \in Nodes /\ \A c \in Children(x) : Done(c))

SameDone == \A t \in Tasks : Done(t)' <=> Done(t)

\* A worker that takes a step is running.
LEMMA WorkerRuns ==
    ASSUME NEW w \in Workers, WorkerStep(w)
    PROVE  pc[w] \notin {"unborn", "exited", "panicked"} /\ UNCHANGED mainVars
<1>1. CASE LeafStep(w)
  BY <1>1 DEF LeafStep, Alloc, LeafStartProcessing, Convert, ConvertFails, LeafResetState,
     LeafResetBufferId, LeafReleaseBuffer, LeafSetReady
<1>2. CASE NodeStep(w)
  BY <1>2 DEF NodeStep, NodeCheckState, ConsumeIsReady, ConsumeLoadId, StartConsuming, ReadChild,
     FoldAccAcc, FoldFails, FoldFailsReleaseLeft, FoldFailsReleaseRight, SetConsumed,
     ClearBufferId, ReleaseRight, NodeStartProcessing, NodeSetReady, SignalCompletion
<1>3. CASE \/ CheckStop(w) \/ PopReady(w) \/ PopLeaf(w) \/ Yield(w) \/ StoreBufferId(w)
           \/ WriteResult(w) \/ GotFirstChild(w) \/ GotSecondChild(w)
  BY <1>3 DEF CheckStop, PopReady, PopLeaf, Yield, StoreBufferId, WriteResult, GotFirstChild,
     GotSecondChild
<1> QED
  BY <1>1, <1>2, <1>3 DEF WorkerStep

\* The steps of process_leaf_input: only the store of READY makes a task done.
LEMMA LeafStepDone ==
    ASSUME TypeInv, Control, NEW w \in Workers, LeafStep(w)
    PROVE  SameDone \/ \E x \in Tasks : BecomesDone(x)
<1>1. CASE Alloc(w) \/ Convert(w) \/ ConvertFails(w) \/ LeafResetBufferId(w) \/ LeafReleaseBuffer(w)
  BY <1>1 DEF Alloc, Convert, ConvertFails, LeafResetBufferId, LeafReleaseBuffer, SameDone, Done
<1>2. state \in [Tasks -> NodeStates]
  BY DEF TypeInv, TypeOK, TypeHeap
<1>3. CASE LeafStartProcessing(w)
  BY <1>2, <1>3 DEF LeafStartProcessing, SameDone, Done
<1>4. CASE LeafResetState(w)
  <2>1. pc[w] = "l_reset" /\ pc[w] \in LeafPCs
    BY <1>4 DEF LeafResetState, LeafPCs, LeafHoldPCs
  <2>2. state[cur[w]] = "PROCESSING"
    BY <2>1 DEF Control, LeafWork, LeafWorkOf
  <2> QED
    BY <1>2, <1>4, <2>2 DEF LeafResetState, SameDone, Done
<1>5. CASE LeafSetReady(w)
  <2>1. pc[w] = "l_ready" /\ pc[w] \in LeafPCs
    BY <1>5 DEF LeafSetReady, LeafPCs, LeafHoldPCs
  <2>2. state[cur[w]] = "PROCESSING"
    BY <2>1 DEF Control, LeafWork, LeafWorkOf
  <2>3. cur[w] \in Leaves /\ cur[w] \in Tasks
    BY <2>1, BusyTask
  <2>4. state' = [state EXCEPT ![cur[w]] = "READY"]
    BY <1>5, <2>2 DEF LeafSetReady
  <2>5. PICK x \in Tasks : x = cur[w]
    BY <2>3
  <2>6. BecomesDone(x)
    BY <1>2, <2>2, <2>3, <2>4, <2>5 DEF BecomesDone, Done
  <2> QED
    BY <2>6
<1> QED
  BY <1>1, <1>3, <1>4, <1>5 DEF LeafStep

\* The steps of process_ready_inner_node: likewise, and by then both children are consumed.
LEMMA NodeStepDone ==
    ASSUME TypeInv, Control, NEW w \in Workers, NodeStep(w)
    PROVE  SameDone \/ \E x \in Tasks : BecomesDone(x)
<1>1. CASE \/ NodeCheckState(w) \/ ConsumeIsReady(w) \/ ConsumeLoadId(w) \/ ReadChild(w)
           \/ FoldAccAcc(w) \/ FoldFails(w) \/ FoldFailsReleaseLeft(w)
           \/ FoldFailsReleaseRight(w) \/ ClearBufferId(w) \/ ReleaseRight(w)
  BY <1>1 DEF NodeCheckState, ConsumeIsReady, ConsumeLoadId, ReadChild, FoldAccAcc, FoldFails,
     FoldFailsReleaseLeft, FoldFailsReleaseRight, ClearBufferId, ReleaseRight, SameDone, Done
<1>2. state \in [Tasks -> NodeStates]
  BY DEF TypeInv, TypeOK, TypeHeap
<1>3. CASE StartConsuming(w)
  BY <1>2, <1>3 DEF StartConsuming, SameDone, Done
<1>4. CASE SetConsumed(w)
  BY <1>2, <1>4 DEF SetConsumed, Consumed, SameDone, Done
<1>5. CASE SignalCompletion(w)
  BY <1>2, <1>5 DEF SignalCompletion, Consumed, SameDone, Done
<1>6. CASE NodeStartProcessing(w)
  <2>1. pc[w] = "n_start" /\ pc[w] \in NodePCs
    BY <1>6 DEF NodeStartProcessing, NodePCs, ResultHoldPCs
  <2>2. state[cur[w]] = "WAITING_BOTH_CHILDREN"
    BY <2>1 DEF Control, NodeWork, NodeWorkOf
  <2> QED
    BY <1>2, <1>6, <2>2 DEF NodeStartProcessing, SameDone, Done
<1>7. CASE NodeSetReady(w)
  <2>1. pc[w] = "n_ready" /\ pc[w] \in NodePCs
    BY <1>7 DEF NodeSetReady, NodePCs, ResultHoldPCs
  <2>2. state[cur[w]] = "PROCESSING"
    BY <2>1 DEF Control, NodeWork, NodeWorkOf
  <2>3. cur[w] \in Nodes /\ cur[w] \in Tasks
    BY <2>1, BusyTask
  <2>4. state' = [state EXCEPT ![cur[w]] = "READY"]
    BY <1>7, <2>2 DEF NodeSetReady
  <2>5. \A c \in Children(cur[w]) : Done(c)
    BY <2>2, <2>3 DEF Control, ChildrenConsumed, Done
  <2>6. PICK x \in Tasks : x = cur[w]
    BY <2>3
  <2>7. BecomesDone(x)
    BY <1>2, <2>2, <2>3, <2>4, <2>5, <2>6 DEF BecomesDone, Done
  <2> QED
    BY <2>7
<1> QED
  BY <1>1, <1>3, <1>4, <1>5, <1>6, <1>7 DEF NodeStep

\* Every step of a worker makes at most one task done, in the order FoldTree asks for.
LEMMA WorkerStepDone ==
    ASSUME TypeInv, Control, NEW w \in Workers, WorkerStep(w)
    PROVE  SameDone \/ \E x \in Tasks : BecomesDone(x)
<1>1. CASE \/ CheckStop(w) \/ PopReady(w) \/ PopLeaf(w) \/ Yield(w) \/ StoreBufferId(w)
           \/ WriteResult(w)
  BY <1>1 DEF CheckStop, PopReady, PopLeaf, Yield, StoreBufferId, WriteResult, SameDone, Done
<1>2. state \in [Tasks -> NodeStates]
  BY DEF TypeInv, TypeOK, TypeHeap
<1>3. CASE GotFirstChild(w)
  BY <1>2, <1>3 DEF GotFirstChild, SameDone, Done
<1>4. CASE GotSecondChild(w)
  BY <1>2, <1>4 DEF GotSecondChild, SameDone, Done
<1> QED
  BY <1>1, <1>3, <1>4, LeafStepDone, NodeStepDone DEF WorkerStep

\* Before run has validated its input, no task has been touched.
NothingStarted == main = "start" => \A t \in Tasks : state[t] = "NOT_STARTED"

\* The only step that leaves "start" behind is the one that starts the threads.
LEMMA NothingStartedNext == TypeInv /\ NothingStarted /\ [Next]_vars => NothingStarted'
<1> SUFFICES ASSUME TypeInv, NothingStarted, [Next]_vars, main' = "start"
             PROVE  \A t \in Tasks : state'[t] = "NOT_STARTED"
  BY DEF NothingStarted
<1>1. main = "start" /\ ~MainStep
  BY WorkerRuns DEF Next, ProducerStep, Produce, ProducerDone, MainStep, Start, WaitCompletion,
     LoadRoot, ReadRoot, DropRoot, JoinWorkers, Terminated, Returned, vars
<1>2. producer = "unborn" /\ \A w \in Workers : pc[w] = "unborn"
  BY <1>1 DEF TypeInv, Shape
<1>3. ~ProducerStep /\ \A w \in Workers : ~WorkerStep(w)
  BY <1>2, WorkerRuns DEF ProducerStep, Produce, ProducerDone
<1>4. UNCHANGED state
  BY <1>1, <1>3 DEF Next, Terminated, vars
<1> QED
  BY <1>1, <1>4 DEF NothingStarted

\* The heap of the abstract specification is the heap of the folder.
LEMMA SameHeap ==
    /\ Abstract!Tasks = Tasks /\ Abstract!Leaves = Leaves /\ Abstract!Nodes = Nodes
    /\ \A n : Abstract!Children(n) = Children(n)
    /\ (NumLeaves # 0 /\ Abstract!IsPowerOfTwo(NumLeaves)) <=> ValidLeaves
BY DEF Abstract!Tasks, Abstract!Leaves, Abstract!Nodes, Abstract!Size, Abstract!LeafStart,
   Abstract!Children, Abstract!Left, Abstract!Right, Abstract!IsPowerOfTwo, Tasks, Leaves, Nodes,
   Size, LeafStart, Children, Left, Right, IsPowerOfTwo, ValidLeaves

\* The state of the abstract specification that the folder is in.
DoneTasks == {t \in Tasks : Done(t)}
OutcomeOfRun == IF main \in {"Ok", "InvalidInput", "NoRootResult", "panicked"} THEN main ELSE "running"
OutputOfRun == IF main = "Ok" THEN result ELSE NoVal

\* A step of a worker that publishes task x folds or converts x.
LEMMA WorkerRefines ==
    ASSUME TypeInv, Control, Buffers, NEW w \in Workers, WorkerStep(w)
    PROVE  [Abstract!Next]_(Abstract!vars)
<1>1. pc[w] \notin {"unborn", "exited", "panicked"} /\ UNCHANGED <<main, result>>
  BY WorkerRuns
<1>2. main \notin {"Ok", "InvalidInput", "NoRootResult", "panicked"}
  BY <1>1 DEF TypeInv, Shape, Control, MainWaits, Buffers, MainValue, NoPanic
<1>3. /\ OutcomeOfRun = "running" /\ OutcomeOfRun' = "running"
      /\ OutputOfRun' = OutputOfRun
  BY <1>1, <1>2 DEF OutcomeOfRun, OutputOfRun
<1>4. CASE SameDone
  <2>1. DoneTasks' = DoneTasks
    BY <1>4 DEF SameDone, DoneTasks
  <2> QED
    BY <1>3, <2>1 DEF Abstract!vars, DoneTasks, OutcomeOfRun, OutputOfRun
<1>5. ASSUME NEW x \in Tasks, BecomesDone(x)
      PROVE  Abstract!Next
  <2>1. x \notin DoneTasks /\ DoneTasks' = DoneTasks \cup {x}
    BY <1>5 DEF BecomesDone, DoneTasks
  <2>2. CASE x \in Leaves
    <3>1. Abstract!ConvertLeaf(x)
      BY <1>3, <2>1, <2>2, SameHeap
         DEF Abstract!ConvertLeaf, DoneTasks, OutcomeOfRun, OutputOfRun
    <3> QED
      BY <3>1, SameHeap DEF Abstract!Next
  <2>3. CASE x \in Nodes /\ \A c \in Children(x) : Done(c)
    <3>1. Children(x) \subseteq DoneTasks
      BY <2>3, HeapChildren DEF DoneTasks
    <3>2. Abstract!FoldNode(x)
      BY <1>3, <2>1, <2>3, <3>1, SameHeap
         DEF Abstract!FoldNode, DoneTasks, OutcomeOfRun, OutputOfRun
    <3> QED
      BY <3>2, SameHeap DEF Abstract!Next
  <2> QED
    BY <1>5, <2>2, <2>3 DEF BecomesDone
<1> QED
  BY <1>4, <1>5, WorkerStepDone

\* A step of the producer or of the caller of run rejects the input, returns the root's
\* accumulator, or does nothing the caller can see.
LEMMA OutsideRefines ==
    ASSUME TypeInv, Control, Buffers, Buffers', NothingStarted,
           ProducerStep \/ MainStep \/ Terminated \/ UNCHANGED vars
    PROVE  [Abstract!Next]_(Abstract!vars)
<1>1. UNCHANGED state
  BY DEF ProducerStep, Produce, ProducerDone, MainStep, Start, WaitCompletion, LoadRoot, ReadRoot,
     DropRoot, JoinWorkers, Terminated, vars
<1>2. DoneTasks' = DoneTasks
  BY <1>1 DEF DoneTasks, Done
<1>3. CASE Start /\ ~ValidLeaves
  <2>1. DoneTasks = {}
    BY <1>3 DEF Start, NothingStarted, DoneTasks, Done
  <2>2. /\ OutcomeOfRun = "running" /\ OutcomeOfRun' = "InvalidInput"
        /\ OutputOfRun' = OutputOfRun
    BY <1>3 DEF Start, OutcomeOfRun, OutputOfRun
  <2>3. Abstract!Reject
    BY <1>2, <1>3, <2>1, <2>2, SameHeap
       DEF Abstract!Reject, DoneTasks, OutcomeOfRun, OutputOfRun
  <2> QED
    BY <2>3 DEF Abstract!Next
<1>4. CASE JoinWorkers
  <2>1. result = 0 /\ result' = 0
    BY <1>4 DEF JoinWorkers, Buffers, MainValue
  <2>2. 0 \in DoneTasks
    BY <1>4, HeapChildren DEF JoinWorkers, Control, MainWaits, RootReady, DoneTasks, Done
  <2>3. /\ OutcomeOfRun = "running" /\ OutcomeOfRun' = "Ok"
        /\ OutputOfRun' = 0
    BY <1>4, <2>1 DEF JoinWorkers, OutcomeOfRun, OutputOfRun
  <2>4. Abstract!Finish
    BY <1>2, <2>2, <2>3 DEF Abstract!Finish, DoneTasks, OutcomeOfRun, OutputOfRun
  <2> QED
    BY <2>4 DEF Abstract!Next
<1>5. CASE \/ ProducerStep \/ (Start /\ ValidLeaves) \/ WaitCompletion \/ LoadRoot \/ ReadRoot
           \/ DropRoot \/ Terminated \/ UNCHANGED vars
  <2>1. UNCHANGED <<OutcomeOfRun, OutputOfRun>>
    BY <1>5 DEF ProducerStep, Produce, ProducerDone, Start, WaitCompletion, LoadRoot, ReadRoot,
       DropRoot, Terminated, vars, OutcomeOfRun, OutputOfRun, Buffers, MainValue, NoPanic
  <2> QED
    BY <1>2, <2>1 DEF Abstract!vars, DoneTasks, OutcomeOfRun, OutputOfRun
<1> QED
  BY <1>3, <1>4, <1>5 DEF MainStep

\* The threads, queues and buffers of the folder implement FoldTree: no leaf is converted and
\* no node folded twice, a node is folded only after both its children, and run returns
\* InvalidInput for a leaf count that is not a power of two before it folds anything, or
\* the fold of the root, for every number of leaves and workers and every interleaving.
THEOREM FolderImplementsFoldTree == Spec => ImplementsFoldTreeSafely
<1>1. Init => Abstract!Init /\ NothingStarted
  <2>1. Init => DoneTasks = {} /\ OutcomeOfRun = "running" /\ OutputOfRun = -1
    BY DEF Init, DoneTasks, Done, OutcomeOfRun, OutputOfRun, NoVal
  <2> QED
    BY <2>1 DEF Abstract!Init, DoneTasks, OutcomeOfRun, OutputOfRun, Init, NothingStarted
<1>2. Spec => []NothingStarted
  BY <1>1, NothingStartedNext, TypeInvariant, PTL DEF Spec
<1>3. /\ TypeInv /\ Control /\ Buffers /\ Buffers' /\ NothingStarted
      /\ [Next]_vars
      => [Abstract!Next]_(Abstract!vars)
  BY WorkerRefines, OutsideRefines DEF Next
<1> QED
  BY <1>1, <1>2, <1>3, TypeInvariant, ControlInvariant, BufferInvariant, PTL
     DEF Spec, ImplementsFoldTreeSafely, Abstract!SafeSpec

=============================================================================
