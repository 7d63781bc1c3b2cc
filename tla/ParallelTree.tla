---------------------------- MODULE ParallelTree ----------------------------
(***************************************************************************)
(* The parallel tree folder of nova/src/parallel_tree: a leaf producer     *)
(* thread, NumWorkers worker threads and the thread that called             *)
(* ParallelTreeFolder::run share a heap of atomic task states, a pool of    *)
(* buffers with a FIFO free list, and one bounded ready queue and one       *)
(* bounded leaf queue per worker.  Every atomic access to shared memory is  *)
(* an action of its own; local computation is merged with the access that   *)
(* follows it.                                                              *)
(*                                                                         *)
(* Accumulators are symbolic: the value t stands for "the fold of the       *)
(* subtree rooted at task t", so the term of a leaf is its heap index and   *)
(* Fold(l, r) is p when l and r are the terms of p's left and right child,  *)
(* in that order, and Garbage otherwise.                                    *)
(***************************************************************************)
EXTENDS TaskHeap, Sequences, FiniteSets

CONSTANTS NumWorkers,  \* num_workers of ParallelTreeFolder::with_workers
          NumBlocks,   \* blocks in the BlockPool
          ReadyQCap,   \* READY_Q_CAP, the capacity of both queues of a worker
          CanFail      \* whether the FoldReducer may return Err

ASSUME ConstantsAssumption ==
    /\ NumWorkers \in Nat \ {0}
    /\ NumBlocks \in Nat
    /\ ReadyQCap \in Nat \ {0}
    /\ CanFail \in BOOLEAN

Workers == 0 .. NumWorkers - 1
Blocks == 0 .. NumBlocks - 1

\* run asks for num_workers * 4 buffers and BlockPool::new doubles that.
PoolBlocks(numWorkers) == (numWorkers * 4) * 2

NoBuf == -1       \* buffer_id of a task without a buffer
NoTask == -1
NoVal == -1       \* an empty slot (None)
Garbage == -2     \* the fold of two accumulators that are not siblings

Terms == Tasks \cup {Garbage}

\* Mutant: the stream position is off by one.
StrictToAccOffByOne(k) == LeafStart + k + 1

\* FoldReducer::strict_to_acc on the k-th item of the leaf stream.
StrictToAcc(k) == LeafStart + k

\* FoldReducer::fold_acc_acc.
Fold(l, r) == IF Parent(l) \in Nodes /\ l = Left(Parent(l)) /\ r = Right(Parent(l))
              THEN Parent(l) ELSE Garbage

(***************************************************************************)
(* Task states.  Leaf states 0, 1, 2, 3, 4 are NOT_STARTED, PROCESSING,     *)
(* READY, BEING_CONSUMED, CONSUMED (3 is called                             *)
(* PROCESSED_WAITING_FOR_CONSUMPTION in leaf_state, and "Being Consumed" in *)
(* LeafTask); node states 0 .. 6 add WAITING_ONE_CHILD and                  *)
(* WAITING_BOTH_CHILDREN, and READY is PROCESSED_WAITING_FOR_CONSUMPTION.   *)
(***************************************************************************)
LeafStates == {"NOT_STARTED", "PROCESSING", "READY", "BEING_CONSUMED", "CONSUMED"}
NodeStates == LeafStates \cup {"WAITING_ONE_CHILD", "WAITING_BOTH_CHILDREN"}

VARIABLES
    state,     \* state[t]: the AtomicU32 of task t
    bufferId,  \* bufferId[t]: the AtomicI64 of task t
    slot,      \* slot[b]: the value stored in block b of the pool
    free,      \* the free list of the pool
    readyQ,    \* readyQ[w]: indices of inner nodes worker w has to fold
    leafQ,     \* leafQ[w]: <<position in the stream, heap index>> pairs
    stop,      \* the stop flag
    nextLeaf,  \* next_leaf_idx of the producer
    producer,  \* control state of the producer thread
    main,      \* control state of the thread in ParallelTreeFolder::run
    mainBuf,   \* the handle held by get_root_result
    result,    \* what run returned
    pc,        \* pc[w]: control state of worker w
    cur,       \* cur[w]: the task worker w is processing
    leaf,      \* leaf[w]: the leaf_data worker w is processing
    child,     \* child[w]: the child of cur[w] that is being consumed
    lbuf,      \* lbuf[w]: the leaf's buffer, or the left child's (and the result's)
    rbuf,      \* rbuf[w]: the right child's buffer
    lval,      \* lval[w]: the accumulator computed, or read from the left child
    rval,      \* rval[w]: the accumulator read from the right child
    errors     \* kinds of WorkerError logged so far

heapVars == <<state, bufferId>>
poolVars == <<slot, free>>
producerVars == <<nextLeaf, producer>>
mainVars == <<main, mainBuf, result>>
workVars == <<cur, leaf, child, lbuf, rbuf, lval, rval>>
vars == <<heapVars, poolVars, readyQ, leafQ, stop, producerVars, mainVars,
          pc, workVars, errors>>

PCs == {"unborn", "check", "pop", "exited", "panicked",
        "alloc", "l_store", "l_start", "convert", "l_reset", "l_unset", "l_release",
        "l_write", "l_ready", "notify1", "notify2",
        "n_check", "is_ready", "load_id", "consume", "read", "fold",
        "f_release_l", "f_release_r", "set_consumed", "clear_id", "release_r",
        "write", "n_store", "n_start", "n_ready", "signal"}

Errors == {"ProcessingFailed", "StrictToAccFailed", "StateTransitionFailed",
           "BufferClaimFailed", "FoldOperationFailed"}

-----------------------------------------------------------------------------
Init ==
    /\ state = [t \in Tasks |-> "NOT_STARTED"]
    /\ bufferId = [t \in Tasks |-> NoBuf]
    /\ slot = [b \in Blocks |-> NoVal]
    /\ free = [i \in 1 .. NumBlocks |-> NumBlocks - i]
    /\ readyQ = [w \in Workers |-> <<>>]
    /\ leafQ = [w \in Workers |-> <<>>]
    /\ stop = 0
    /\ nextLeaf = LeafStart
    /\ producer = "unborn"
    /\ main = "start"
    /\ mainBuf = NoBuf
    /\ result = NoVal
    /\ pc = [w \in Workers |-> "unborn"]
    /\ cur = [w \in Workers |-> NoTask]
    /\ leaf = [w \in Workers |-> NoVal]
    /\ child = [w \in Workers |-> NoTask]
    /\ lbuf = [w \in Workers |-> NoBuf]
    /\ rbuf = [w \in Workers |-> NoBuf]
    /\ lval = [w \in Workers |-> NoVal]
    /\ rval = [w \in Workers |-> NoVal]
    /\ errors = {}

-----------------------------------------------------------------------------
(* Helpers: control flow of a worker, and the operations of the pool.       *)

Goto(w, l) == pc' = [pc EXCEPT ![w] = l]

\* Back to the top of the loop of WorkerLocal::run; the locals go out of scope.
Return(w) ==
    /\ Goto(w, "check")
    /\ cur' = [cur EXCEPT ![w] = NoTask]
    /\ leaf' = [leaf EXCEPT ![w] = NoVal]
    /\ child' = [child EXCEPT ![w] = NoTask]
    /\ lbuf' = [lbuf EXCEPT ![w] = NoBuf]
    /\ rbuf' = [rbuf EXCEPT ![w] = NoBuf]
    /\ lval' = [lval EXCEPT ![w] = NoVal]
    /\ rval' = [rval EXCEPT ![w] = NoVal]

\* An Err reaches the loop, which logs it and goes on.
Fail(w, e) == Return(w) /\ errors' = errors \cup {e}

\* BlockPool::free, BufHandle::release and the Drop of a live BufHandle.
Release(b) == /\ slot' = [slot EXCEPT ![b] = NoVal]
              /\ free' = Append(free, b)

-----------------------------------------------------------------------------
(* The loop of WorkerLocal::run.                                            *)

CheckStop(w) ==
    /\ pc[w] = "check"
    /\ Goto(w, IF stop = 0 THEN "pop" ELSE "exited")
    /\ UNCHANGED <<heapVars, poolVars, readyQ, leafQ, stop, producerVars, mainVars,
                   workVars, errors>>

PopReady(w) ==
    /\ pc[w] = "pop"
    /\ readyQ[w] # <<>>
    /\ cur' = [cur EXCEPT ![w] = Head(readyQ[w])]
    /\ readyQ' = [readyQ EXCEPT ![w] = Tail(@)]
    /\ Goto(w, "n_check")
    /\ UNCHANGED <<heapVars, poolVars, leafQ, stop, producerVars, mainVars,
                   leaf, child, lbuf, rbuf, lval, rval, errors>>

PopLeaf(w) ==
    /\ pc[w] = "pop"
    /\ readyQ[w] = <<>>
    /\ leafQ[w] # <<>>
    /\ leaf' = [leaf EXCEPT ![w] = Head(leafQ[w])[1]]
    /\ cur' = [cur EXCEPT ![w] = Head(leafQ[w])[2]]
    /\ leafQ' = [leafQ EXCEPT ![w] = Tail(@)]
    /\ Goto(w, "alloc")
    /\ UNCHANGED <<heapVars, poolVars, readyQ, stop, producerVars, mainVars,
                   child, lbuf, rbuf, lval, rval, errors>>

Yield(w) ==
    /\ pc[w] = "pop"
    /\ readyQ[w] = <<>>
    /\ leafQ[w] = <<>>
    /\ Goto(w, "check")
    /\ UNCHANGED <<heapVars, poolVars, readyQ, leafQ, stop, producerVars, mainVars,
                   workVars, errors>>

-----------------------------------------------------------------------------
(* process_leaf_input.                                                      *)

\* Mutant: alloc looks at the head of the free list without removing it.
AllocPeek(w) ==
    /\ pc[w] = "alloc"
    /\ free # <<>>
    /\ lbuf' = [lbuf EXCEPT ![w] = Head(free)]
    /\ Goto(w, "l_store")
    /\ UNCHANGED <<heapVars, poolVars, readyQ, leafQ, stop, producerVars, mainVars,
                   cur, leaf, child, rbuf, lval, rval, errors>>

\* The back-pressure loop around BlockPool::alloc; it never looks at stop.
Alloc(w) ==
    /\ pc[w] = "alloc"
    /\ free # <<>>
    /\ lbuf' = [lbuf EXCEPT ![w] = Head(free)]
    /\ free' = Tail(free)
    /\ Goto(w, "l_store")
    /\ UNCHANGED <<heapVars, slot, readyQ, leafQ, stop, producerVars, mainVars,
                   cur, leaf, child, rbuf, lval, rval, errors>>

\* LeafTask::try_start_processing, NodeTask::try_start_processing: the store
\* of buffer_id that precedes the compare-exchange.
StoreBufferId(w) ==
    /\ pc[w] \in {"l_store", "n_store"}
    /\ bufferId' = [bufferId EXCEPT ![cur[w]] = lbuf[w]]
    /\ Goto(w, IF pc[w] = "l_store" THEN "l_start" ELSE "n_start")
    /\ UNCHANGED <<state, poolVars, readyQ, leafQ, stop, producerVars, mainVars,
                   workVars, errors>>

LeafStartProcessing(w) ==
    /\ pc[w] = "l_start"
    /\ IF state[cur[w]] = "NOT_STARTED"
       THEN /\ state' = [state EXCEPT ![cur[w]] = "PROCESSING"]
            /\ Goto(w, "convert")
            /\ UNCHANGED <<bufferId, poolVars, workVars, errors>>
       ELSE /\ bufferId' = [bufferId EXCEPT ![cur[w]] = NoBuf]
            /\ Release(lbuf[w])
            /\ Fail(w, "ProcessingFailed")
            /\ UNCHANGED state
    /\ UNCHANGED <<readyQ, leafQ, stop, producerVars, mainVars>>

Convert(w) ==
    /\ pc[w] = "convert"
    /\ lval' = [lval EXCEPT ![w] = StrictToAcc(leaf[w])]
    /\ Goto(w, "l_write")
    /\ UNCHANGED <<heapVars, poolVars, readyQ, leafQ, stop, producerVars, mainVars,
                   cur, leaf, child, lbuf, rbuf, rval, errors>>

\* strict_to_acc returned Err: state, buffer_id and buffer are put back.
ConvertFails(w) ==
    /\ CanFail
    /\ pc[w] = "convert"
    /\ Goto(w, "l_reset")
    /\ UNCHANGED <<heapVars, poolVars, readyQ, leafQ, stop, producerVars, mainVars,
                   workVars, errors>>

LeafResetState(w) ==
    /\ pc[w] = "l_reset"
    /\ state' = [state EXCEPT ![cur[w]] = "NOT_STARTED"]
    /\ Goto(w, "l_unset")
    /\ UNCHANGED <<bufferId, poolVars, readyQ, leafQ, stop, producerVars, mainVars,
                   workVars, errors>>

LeafResetBufferId(w) ==
    /\ pc[w] = "l_unset"
    /\ bufferId' = [bufferId EXCEPT ![cur[w]] = NoBuf]
    /\ Goto(w, "l_release")
    /\ UNCHANGED <<state, poolVars, readyQ, leafQ, stop, producerVars, mainVars,
                   workVars, errors>>

LeafReleaseBuffer(w) ==
    /\ pc[w] = "l_release"
    /\ Release(lbuf[w])
    /\ Fail(w, "StrictToAccFailed")
    /\ UNCHANGED <<heapVars, readyQ, leafQ, stop, producerVars, mainVars>>

\* BufHandle::write, of a leaf's accumulator and of a node's.
WriteResult(w) ==
    /\ pc[w] \in {"l_write", "write"}
    /\ slot' = [slot EXCEPT ![lbuf[w]] = lval[w]]
    /\ Goto(w, IF pc[w] = "l_write" THEN "l_ready" ELSE "n_store")
    /\ UNCHANGED <<heapVars, free, readyQ, leafQ, stop, producerVars, mainVars,
                   workVars, errors>>

LeafSetReady(w) ==
    /\ pc[w] = "l_ready"
    /\ IF state[cur[w]] = "PROCESSING"
       THEN /\ state' = [state EXCEPT ![cur[w]] = "READY"]
            /\ IF HasParent(cur[w])
               THEN Goto(w, "notify1") /\ UNCHANGED workVars
               ELSE Return(w)
            /\ UNCHANGED <<poolVars, errors>>
       ELSE /\ Release(lbuf[w])
            /\ Fail(w, "StateTransitionFailed")
            /\ UNCHANGED state
    /\ UNCHANGED <<bufferId, readyQ, leafQ, stop, producerVars, mainVars>>

-----------------------------------------------------------------------------
(* NodeTask::notify_child_ready on the parent of cur[w], called at the end  *)
(* of process_leaf_input and of process_ready_inner_node.                   *)

\* Mutant: one child is enough to queue the parent.
GotFirstChildEager(w) ==
    LET p == Parent(cur[w]) IN
    /\ pc[w] = "notify1"
    /\ IF state[p] = "NOT_STARTED"
       THEN /\ state' = [state EXCEPT ![p] = "WAITING_ONE_CHILD"]
            /\ readyQ' = [readyQ EXCEPT ![w] = Append(@, p)]
            /\ Return(w)
       ELSE Goto(w, "notify2") /\ UNCHANGED <<state, readyQ, workVars>>
    /\ UNCHANGED <<bufferId, poolVars, leafQ, stop, producerVars, mainVars, errors>>

GotFirstChild(w) ==
    LET p == Parent(cur[w]) IN
    /\ pc[w] = "notify1"
    /\ IF state[p] = "NOT_STARTED"
       THEN state' = [state EXCEPT ![p] = "WAITING_ONE_CHILD"] /\ Return(w)
       ELSE Goto(w, "notify2") /\ UNCHANGED <<state, workVars>>
    /\ UNCHANGED <<bufferId, poolVars, readyQ, leafQ, stop, producerVars, mainVars, errors>>

\* Mutant: the ready queue keeps one slot unused, as a ring buffer would.
PushReadyOneLess(w, p) ==
    readyQ' = IF Len(readyQ[w]) + 1 < ReadyQCap
              THEN [readyQ EXCEPT ![w] = Append(@, p)] ELSE readyQ

\* The push onto the worker's own ready queue; a push onto a full queue is
\* ignored (let _ = ...).
PushReady(w, p) ==
    readyQ' = IF Len(readyQ[w]) < ReadyQCap
              THEN [readyQ EXCEPT ![w] = Append(@, p)] ELSE readyQ

GotSecondChild(w) ==
    LET p == Parent(cur[w]) IN
    /\ pc[w] = "notify2"
    /\ IF state[p] = "WAITING_ONE_CHILD"
       THEN state' = [state EXCEPT ![p] = "WAITING_BOTH_CHILDREN"] /\ PushReady(w, p)
       ELSE UNCHANGED <<state, readyQ>>
    /\ Return(w)
    /\ UNCHANGED <<bufferId, poolVars, leafQ, stop, producerVars, mainVars, errors>>
-----------------------------------------------------------------------------
(* process_ready_inner_node.                                                *)

NodeCheckState(w) ==
    /\ pc[w] = "n_check"
    /\ IF state[cur[w]] = "WAITING_BOTH_CHILDREN"
       THEN /\ child' = [child EXCEPT ![w] = Left(cur[w])]
            /\ Goto(w, "is_ready")
            /\ UNCHANGED <<cur, leaf, lbuf, rbuf, lval, rval, errors>>
       ELSE Fail(w, "StateTransitionFailed")
    /\ UNCHANGED <<heapVars, poolVars, readyQ, leafQ, stop, producerVars, mainVars>>

AtLeft(w) == child[w] = Left(cur[w])

\* start_consuming_task_and_get_buf_handle returned None: the function
\* returns Err, and a left handle that was already obtained is dropped.
ClaimFails(w) ==
    /\ IF AtLeft(w) THEN UNCHANGED poolVars ELSE Release(lbuf[w])
    /\ Fail(w, "BufferClaimFailed")

\* get_buf_id_if_ready: the load of state ...
ConsumeIsReady(w) ==
    /\ pc[w] = "is_ready"
    /\ IF state[child[w]] = "READY"
       THEN Goto(w, "load_id") /\ UNCHANGED <<poolVars, workVars, errors>>
       ELSE ClaimFails(w)
    /\ UNCHANGED <<heapVars, readyQ, leafQ, stop, producerVars, mainVars>>

\* ... and the load of buffer_id.
ConsumeLoadId(w) ==
    LET id == bufferId[child[w]] IN
    /\ pc[w] = "load_id"
    /\ IF id >= 0
       THEN /\ IF AtLeft(w)
               THEN lbuf' = [lbuf EXCEPT ![w] = id] /\ UNCHANGED rbuf
               ELSE rbuf' = [rbuf EXCEPT ![w] = id] /\ UNCHANGED lbuf
            /\ Goto(w, "consume")
            /\ UNCHANGED <<poolVars, cur, leaf, child, lval, rval, errors>>
       ELSE ClaimFails(w)
    /\ UNCHANGED <<heapVars, readyQ, leafQ, stop, producerVars, mainVars>>

\* try_start_consuming; BlockPool::claim is a bounds check and succeeds.
StartConsuming(w) ==
    /\ pc[w] = "consume"
    /\ IF state[child[w]] = "READY"
       THEN /\ state' = [state EXCEPT ![child[w]] = "BEING_CONSUMED"]
            /\ IF AtLeft(w)
               THEN child' = [child EXCEPT ![w] = Right(cur[w])] /\ Goto(w, "is_ready")
               ELSE child' = [child EXCEPT ![w] = Left(cur[w])] /\ Goto(w, "read")
            /\ UNCHANGED <<poolVars, cur, leaf, lbuf, rbuf, lval, rval, errors>>
       ELSE ClaimFails(w) /\ UNCHANGED state
    /\ UNCHANGED <<bufferId, readyQ, leafQ, stop, producerVars, mainVars>>

\* BufHandle::read takes the value out of the slot and panics on an empty one.
ReadChild(w) ==
    LET b == IF AtLeft(w) THEN lbuf[w] ELSE rbuf[w] IN
    /\ pc[w] = "read"
    /\ slot' = [slot EXCEPT ![b] = NoVal]
    /\ IF slot[b] = NoVal
       THEN Goto(w, "panicked") /\ UNCHANGED <<child, lval, rval>>
       ELSE IF AtLeft(w)
            THEN /\ lval' = [lval EXCEPT ![w] = slot[b]]
                 /\ child' = [child EXCEPT ![w] = Right(cur[w])]
                 /\ UNCHANGED <<pc, rval>>
            ELSE /\ rval' = [rval EXCEPT ![w] = slot[b]]
                 /\ Goto(w, "fold")
                 /\ UNCHANGED <<child, lval>>
    /\ UNCHANGED <<heapVars, free, readyQ, leafQ, stop, producerVars, mainVars,
                   cur, leaf, lbuf, rbuf, errors>>

FoldAccAcc(w) ==
    /\ pc[w] = "fold"
    /\ lval' = [lval EXCEPT ![w] = Fold(lval[w], rval[w])]
    /\ rval' = [rval EXCEPT ![w] = NoVal]
    /\ child' = [child EXCEPT ![w] = Left(cur[w])]
    /\ Goto(w, "set_consumed")
    /\ UNCHANGED <<heapVars, poolVars, readyQ, leafQ, stop, producerVars, mainVars,
                   cur, leaf, lbuf, rbuf, errors>>

\* fold_acc_acc returned Err: both buffers are released, nothing is reset.
FoldFails(w) ==
    /\ CanFail
    /\ pc[w] = "fold"
    /\ Goto(w, "f_release_l")
    /\ UNCHANGED <<heapVars, poolVars, readyQ, leafQ, stop, producerVars, mainVars,
                   workVars, errors>>

\* Mutant: a failed fold leaks the left buffer.
FoldFailsKeepLeft(w) ==
    /\ pc[w] = "f_release_l"
    /\ Goto(w, "f_release_r")
    /\ UNCHANGED <<heapVars, poolVars, readyQ, leafQ, stop, producerVars, mainVars,
                   workVars, errors>>

FoldFailsReleaseLeft(w) ==
    /\ pc[w] = "f_release_l"
    /\ Release(lbuf[w])
    /\ Goto(w, "f_release_r")
    /\ UNCHANGED <<heapVars, readyQ, leafQ, stop, producerVars, mainVars,
                   workVars, errors>>

\* Mutant: a failed fold resets its children, although their leaves are gone.
FoldFailsResetChildren(w) ==
    /\ pc[w] = "f_release_r"
    /\ Release(rbuf[w])
    /\ Fail(w, "FoldOperationFailed")
    /\ state' = [t \in Tasks |-> IF t \in Children(cur[w]) THEN "NOT_STARTED" ELSE state[t]]
    /\ UNCHANGED <<bufferId, readyQ, leafQ, stop, producerVars, mainVars>>

FoldFailsReleaseRight(w) ==
    /\ pc[w] = "f_release_r"
    /\ Release(rbuf[w])
    /\ Fail(w, "FoldOperationFailed")
    /\ UNCHANGED <<heapVars, readyQ, leafQ, stop, producerVars, mainVars>>

\* A step on the left child is followed by the same step on the right child,
\* and that one by the step labelled l.
NextChild(w, l) ==
    IF AtLeft(w)
    THEN child' = [child EXCEPT ![w] = Right(cur[w])] /\ UNCHANGED pc
    ELSE child' = [child EXCEPT ![w] = Left(cur[w])] /\ Goto(w, l)

\* try_set_consumed ignores a failed compare-exchange.
Consumed(s) == IF s = "BEING_CONSUMED" THEN "CONSUMED" ELSE s

SetConsumed(w) ==
    /\ pc[w] = "set_consumed"
    /\ state' = [state EXCEPT ![child[w]] = Consumed(@)]
    /\ NextChild(w, "clear_id")
    /\ UNCHANGED <<bufferId, poolVars, readyQ, leafQ, stop, producerVars, mainVars,
                   cur, leaf, lbuf, rbuf, lval, rval, errors>>

\* Mutant: only the right child's buffer_id is cleared.
ClearBufferIdRightOnly(w) ==
    /\ pc[w] = "clear_id"
    /\ bufferId' = IF AtLeft(w) THEN bufferId ELSE [bufferId EXCEPT ![child[w]] = NoBuf]
    /\ NextChild(w, "release_r")
    /\ UNCHANGED <<state, poolVars, readyQ, leafQ, stop, producerVars, mainVars,
                   cur, leaf, lbuf, rbuf, lval, rval, errors>>

ClearBufferId(w) ==
    /\ pc[w] = "clear_id"
    /\ bufferId' = [bufferId EXCEPT ![child[w]] = NoBuf]
    /\ NextChild(w, "release_r")
    /\ UNCHANGED <<state, poolVars, readyQ, leafQ, stop, producerVars, mainVars,
                   cur, leaf, lbuf, rbuf, lval, rval, errors>>

\* The left buffer is reused for the result, the right one goes back.
ReleaseRight(w) ==
    /\ pc[w] = "release_r"
    /\ Release(rbuf[w])
    /\ rbuf' = [rbuf EXCEPT ![w] = NoBuf]
    /\ Goto(w, "write")
    /\ UNCHANGED <<heapVars, readyQ, leafQ, stop, producerVars, mainVars,
                   cur, leaf, child, lbuf, lval, rval, errors>>

NodeStartProcessing(w) ==
    /\ pc[w] = "n_start"
    /\ IF state[cur[w]] = "WAITING_BOTH_CHILDREN"
       THEN /\ state' = [state EXCEPT ![cur[w]] = "PROCESSING"]
            /\ Goto(w, "n_ready")
            /\ UNCHANGED <<bufferId, poolVars, workVars, errors>>
       ELSE /\ state' = [state EXCEPT ![cur[w]] = "WAITING_BOTH_CHILDREN"]
            /\ bufferId' = [bufferId EXCEPT ![cur[w]] = NoBuf]
            /\ Release(lbuf[w])
            /\ Fail(w, "StateTransitionFailed")
    /\ UNCHANGED <<readyQ, leafQ, stop, producerVars, mainVars>>

NodeSetReady(w) ==
    /\ pc[w] = "n_ready"
    /\ IF state[cur[w]] = "PROCESSING"
       THEN /\ state' = [state EXCEPT ![cur[w]] = "READY"]
            /\ Goto(w, IF HasParent(cur[w]) THEN "notify1" ELSE "signal")
            /\ UNCHANGED <<bufferId, poolVars, workVars, errors>>
       ELSE /\ state' = [state EXCEPT ![cur[w]] = "WAITING_BOTH_CHILDREN"]
            /\ bufferId' = [bufferId EXCEPT ![cur[w]] = NoBuf]
            /\ Release(lbuf[w])
            /\ Fail(w, "StateTransitionFailed")
    /\ UNCHANGED <<readyQ, leafQ, stop, producerVars, mainVars>>

\* Mutant: the worker that finished the root leaves without setting stop.
SignalCompletionForgotten(w) ==
    /\ pc[w] = "signal"
    /\ Goto(w, "exited")
    /\ UNCHANGED <<heapVars, poolVars, readyQ, leafQ, stop, producerVars, mainVars,
                   workVars, errors>>

\* The root is done: its children are marked consumed once more, then
\* check_and_signal_completion sets stop and the worker leaves its loop.
SignalCompletion(w) ==
    /\ pc[w] = "signal"
    /\ state' = [t \in Tasks |-> IF t \in Children(cur[w])
                                 THEN Consumed(state[t]) ELSE state[t]]
    /\ stop' = 1
    /\ Goto(w, "exited")
    /\ UNCHANGED <<bufferId, poolVars, readyQ, leafQ, producerVars, mainVars,
                   workVars, errors>>

-----------------------------------------------------------------------------
(* LeafProducer::spawn.                                                     *)

\* Leaves are dealt to the workers in contiguous chunks.
WorkerOf(rel) ==
    LET w == (rel * NumWorkers) \div NumLeaves
    IN  IF w < NumWorkers - 1 THEN w ELSE NumWorkers - 1

Produce ==
    LET rel == nextLeaf - LeafStart
        w   == WorkerOf(rel)
    IN
    /\ producer = "run"
    /\ nextLeaf < LeafStart + NumLeaves
    /\ IF Len(leafQ[w]) < ReadyQCap
       THEN /\ leafQ' = [leafQ EXCEPT ![w] = Append(@, <<rel, nextLeaf>>)]
            /\ nextLeaf' = nextLeaf + 1
            /\ UNCHANGED producer
       ELSE /\ stop = 1
            /\ producer' = "done"
            /\ UNCHANGED <<leafQ, nextLeaf>>
    /\ UNCHANGED <<heapVars, poolVars, readyQ, stop, mainVars, pc, workVars, errors>>

ProducerDone ==
    /\ producer = "run"
    /\ nextLeaf = LeafStart + NumLeaves
    /\ producer' = "done"
    /\ UNCHANGED <<heapVars, poolVars, readyQ, leafQ, stop, nextLeaf, mainVars,
                   pc, workVars, errors>>

-----------------------------------------------------------------------------
(* ParallelTreeFolder::run, Scheduler::get_root_result, Scheduler::stop.    *)

ValidLeaves == NumLeaves # 0 /\ IsPowerOfTwo(NumLeaves)

\* Validation, then the pool, the workers and the producer are created.
Start ==
    /\ main = "start"
    /\ IF ValidLeaves
       THEN /\ main' = "wait"
            /\ pc' = [w \in Workers |-> "check"]
            /\ producer' = "run"
       ELSE /\ main' = "InvalidInput"
            /\ UNCHANGED <<pc, producer>>
    /\ UNCHANGED <<heapVars, poolVars, readyQ, leafQ, stop, nextLeaf, mainBuf, result,
                   workVars, errors>>

\* The sleep loop on is_computation_complete ends when stop is set.
WaitCompletion ==
    /\ main = "wait"
    /\ stop = 1
    /\ main' = "load_root"
    /\ UNCHANGED <<heapVars, poolVars, readyQ, leafQ, stop, producerVars, mainBuf, result,
                   pc, workVars, errors>>

LoadRoot ==
    /\ main = "load_root"
    /\ IF 0 \in Nodes /\ state[0] = "READY" /\ bufferId[0] >= 0
       THEN mainBuf' = bufferId[0] /\ main' = "read_root"
       ELSE UNCHANGED mainBuf /\ main' = "NoRootResult"
    /\ UNCHANGED <<heapVars, poolVars, readyQ, leafQ, stop, producerVars, result,
                   pc, workVars, errors>>

ReadRoot ==
    /\ main = "read_root"
    /\ slot' = [slot EXCEPT ![mainBuf] = NoVal]
    /\ IF slot[mainBuf] = NoVal
       THEN main' = "panicked" /\ UNCHANGED result
       ELSE main' = "drop_root" /\ result' = slot[mainBuf]
    /\ UNCHANGED <<heapVars, free, readyQ, leafQ, stop, producerVars, mainBuf,
                   pc, workVars, errors>>

\* The handle of get_root_result is dropped: the root's buffer is freed.
DropRoot ==
    /\ main = "drop_root"
    /\ Release(mainBuf)
    /\ mainBuf' = NoBuf
    /\ main' = "join"
    /\ stop' = 1
    /\ UNCHANGED <<heapVars, readyQ, leafQ, producerVars, result, pc, workVars, errors>>

JoinWorkers ==
    /\ main = "join"
    /\ \A w \in Workers : pc[w] \in {"exited", "panicked"}
    /\ main' = "Ok"
    /\ UNCHANGED <<heapVars, poolVars, readyQ, leafQ, stop, producerVars, mainBuf, result,
                   pc, workVars, errors>>

Returned == main \in {"Ok", "InvalidInput", "NoRootResult", "panicked"}

Terminated == Returned /\ UNCHANGED vars

-----------------------------------------------------------------------------
LeafStep(w) ==
    \/ Alloc(w) \/ LeafStartProcessing(w) \/ Convert(w) \/ ConvertFails(w)
    \/ LeafResetState(w) \/ LeafResetBufferId(w) \/ LeafReleaseBuffer(w)
    \/ LeafSetReady(w)

NodeStep(w) ==
    \/ NodeCheckState(w) \/ ConsumeIsReady(w) \/ ConsumeLoadId(w) \/ StartConsuming(w)
    \/ ReadChild(w) \/ FoldAccAcc(w) \/ FoldFails(w) \/ FoldFailsReleaseLeft(w)
    \/ FoldFailsReleaseRight(w) \/ SetConsumed(w) \/ ClearBufferId(w) \/ ReleaseRight(w)
    \/ NodeStartProcessing(w) \/ NodeSetReady(w) \/ SignalCompletion(w)

WorkerStep(w) ==
    \/ CheckStop(w) \/ PopReady(w) \/ PopLeaf(w) \/ Yield(w)
    \/ StoreBufferId(w) \/ WriteResult(w) \/ GotFirstChild(w) \/ GotSecondChild(w)
    \/ LeafStep(w) \/ NodeStep(w)

ProducerStep == Produce \/ ProducerDone

MainStep == Start \/ WaitCompletion \/ LoadRoot \/ ReadRoot \/ DropRoot \/ JoinWorkers

Next == (\E w \in Workers : WorkerStep(w)) \/ ProducerStep \/ MainStep \/ Terminated

Spec == Init /\ [][Next]_vars

\* Every thread is an OS thread that keeps being scheduled.
Fairness ==
    /\ \A w \in Workers : WF_vars(WorkerStep(w))
    /\ WF_vars(ProducerStep)
    /\ WF_vars(MainStep)

FairSpec == Spec /\ Fairness

=============================================================================
