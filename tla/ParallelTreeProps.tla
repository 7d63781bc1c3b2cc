-------------------------- MODULE ParallelTreeProps -------------------------
(***************************************************************************)
(* What has to be true of the parallel tree folder.  Safety first, then    *)
(* liveness, then the refinement of FoldTree.                               *)
(***************************************************************************)
EXTENDS ParallelTree

TypeHeap ==
    /\ state \in [Tasks -> NodeStates]
    /\ bufferId \in [Tasks -> Blocks \cup {NoBuf}]

TypePool ==
    /\ slot \in [Blocks -> Terms \cup {NoVal}]
    /\ free \in Seq(Blocks)

TypeQueues ==
    /\ readyQ \in [Workers -> Seq(Nodes)]
    /\ leafQ \in [Workers -> Seq((0 .. NumLeaves - 1) \X Leaves)]

TypeThreads ==
    /\ stop \in {0, 1}
    /\ nextLeaf \in LeafStart .. LeafStart + NumLeaves
    /\ producer \in {"unborn", "run", "done"}
    /\ main \in {"start", "wait", "load_root", "read_root", "drop_root", "join",
                 "Ok", "InvalidInput", "NoRootResult", "panicked"}
    /\ mainBuf \in Blocks \cup {NoBuf}
    /\ result \in Terms \cup {NoVal}
    /\ pc \in [Workers -> PCs]
    /\ errors \subseteq Errors

TypeLocals ==
    /\ cur \in [Workers -> Tasks \cup {NoTask}]
    /\ leaf \in [Workers -> (0 .. NumLeaves - 1) \cup {NoVal}]
    /\ child \in [Workers -> Tasks \cup {NoTask}]
    /\ lbuf \in [Workers -> Blocks \cup {NoBuf}]
    /\ rbuf \in [Workers -> Blocks \cup {NoBuf}]
    /\ lval \in [Workers -> Terms \cup {NoVal}]
    /\ rval \in [Workers -> Terms \cup {NoVal}]

\* The type invariant: every shared word, queue, buffer and local variable of
\* task.rs, block_pool.rs, worker.rs and scheduler.rs stays in its range.
TypeOK == TypeHeap /\ TypePool /\ TypeQueues /\ TypeThreads /\ TypeLocals

-----------------------------------------------------------------------------
(* Who owns a block of the pool.                                            *)

LeafHoldPCs == {"l_store", "l_start", "convert", "l_reset", "l_unset", "l_release",
                "l_write", "l_ready"}
BothHoldPCs == {"read", "fold", "f_release_l", "set_consumed", "clear_id", "release_r"}
ResultHoldPCs == {"write", "n_store", "n_start", "n_ready"}
ClaimPCs == {"is_ready", "load_id", "consume"}

\* Worker w has a live handle, or an id taken out of one, for lbuf[w] ...
HoldsLeft(w) ==
    \/ pc[w] \in LeafHoldPCs \cup BothHoldPCs \cup ResultHoldPCs
    \/ pc[w] \in ClaimPCs /\ ~AtLeft(w)

\* ... and for rbuf[w].
HoldsRight(w) == pc[w] \in BothHoldPCs \cup {"f_release_r"}

\* The caller of run has taken the root's result.
RootTaken == main \in {"read_root", "drop_root", "join", "Ok", "panicked"}

\* The buffer of a published result belongs to its task until it is consumed.
TaskHolds(t) == state[t] = "READY" /\ ~(t = 0 /\ RootTaken)

MainHolds == main \in {"read_root", "drop_root"}

Owners(b) ==
    {<<"free", i>> : i \in {j \in 1 .. Len(free) : free[j] = b}}
    \cup {<<"left", w>> : w \in {v \in Workers : HoldsLeft(v) /\ lbuf[v] = b}}
    \cup {<<"right", w>> : w \in {v \in Workers : HoldsRight(v) /\ rbuf[v] = b}}
    \cup {<<"task", t>> : t \in {u \in Tasks : TaskHolds(u) /\ bufferId[u] = b}}
    \cup {<<"main", i>> : i \in {j \in {0} : MainHolds /\ mainBuf = b}}

\* Every block of the pool has exactly one owner at every moment: the free
\* list (once), one handle of one worker, one published task, or the caller
\* reading the root.  claim checks no ownership, so a double free, a block
\* handed to two workers, or a block lost on an error path would show here.
BlockOwnership == \A b \in Blocks : Cardinality(Owners(b)) = 1

\* A result that has been published (READY) keeps its buffer, and the buffer
\* keeps the result, until the parent starts consuming it; in particular no
\* other worker's alloc, write, read or release touches it.
PublishedStable ==
    [][\A t \in Tasks : TaskHolds(t) /\ TaskHolds(t)' =>
           /\ bufferId'[t] = bufferId[t]
           /\ slot'[bufferId[t]] = slot[bufferId[t]]]_vars

\* The published result of a task is the fold of exactly its own subtree, in
\* order: nothing is folded twice, skipped, swapped or overwritten.
PublishedCorrect == \A t \in Tasks : TaskHolds(t) => slot[bufferId[t]] = t

\* BufHandle::read never meets an empty slot ("attempted to read from an
\* uninitialised buffer"), in a worker or in get_root_result.
NoPanic == main # "panicked" /\ \A w \in Workers : pc[w] # "panicked"

\* The only WorkerErrors ever raised come from the reducer: no
\* compare-exchange of a task state fails and no claim of a child fails,
\* whatever the interleaving of the workers.
OnlyReducerErrors ==
    errors \subseteq (IF CanFail THEN {"StrictToAccFailed", "FoldOperationFailed"} ELSE {})

\* Workers that have node n to fold, in their ready queue or at hand.
FoldersOf(n) ==
    {w \in Workers : \/ \E i \in 1 .. Len(readyQ[w]) : readyQ[w][i] = n
                     \/ pc[w] \in {"n_check"} \cup ClaimPCs \cup BothHoldPCs
                                 \cup ResultHoldPCs \cup {"f_release_r"} /\ cur[w] = n}

\* A node both of whose children have reported is in the hands of exactly one
\* worker until it is published (of none once its fold has failed): the
\* ignored push onto a full ready queue never loses a node, and the race
\* between the two children never queues it twice.
NoNodeLost ==
    \A n \in Nodes : state[n] \in {"WAITING_BOTH_CHILDREN", "PROCESSING"} =>
        \/ Cardinality(FoldersOf(n)) = 1
        \/ FoldersOf(n) = {} /\ "FoldOperationFailed" \in errors

\* When run returns Ok, the value is the fold of the whole tree, every block
\* is back in the pool and no task but the root still names a buffer.
OkIsWholeFold ==
    main = "Ok" => /\ result = 0
                   /\ {free[i] : i \in 1 .. Len(free)} = Blocks
                   /\ \A t \in Tasks \ {0} : bufferId[t] = NoBuf

\* "Ensure enough buffers": when every worker waits in the back-pressure loop
\* of process_leaf_input, there is a block to give to one of them.
EnoughBuffers == (\A w \in Workers : pc[w] = "alloc") => free # <<>>

-----------------------------------------------------------------------------
\* run always returns, with a result or with an error ("Err(error) - If the
\* computation failed or timed out").
RunReturns == <>Returned

Done(t) == state[t] \in {"READY", "BEING_CONSUMED", "CONSUMED"}

Abstract == INSTANCE FoldTree
    WITH done <- {t \in Tasks : Done(t)},
         outcome <- IF main \in {"Ok", "InvalidInput", "NoRootResult", "panicked"}
                    THEN main ELSE "running",
         output <- IF main = "Ok" THEN result ELSE NoVal

\* The threads implement the abstract fold of a tree, step by step ...
ImplementsFoldTreeSafely == Abstract!SafeSpec

\* ... and, when the reducer does not fail, they finish it.
ImplementsFoldTree == Abstract!Spec

-----------------------------------------------------------------------------
(***************************************************************************)
(* The inductive invariant behind these properties, in three layers: Shape *)
(* (what each control state says about the locals of a worker), Control    *)
(* (which worker owns which task, and how task states, queues and control   *)
(* states hang together) and Buffers (which block holds which accumulator,  *)
(* and who owns it).                                                        *)
(***************************************************************************)

LeafPCs == {"alloc"} \cup LeafHoldPCs
NodePCs == {"n_check"} \cup ClaimPCs \cup BothHoldPCs \cup {"f_release_r"} \cup ResultHoldPCs
NotifyPCs == {"notify1", "notify2"}
BusyPCs == LeafPCs \cup NodePCs \cup NotifyPCs \cup {"signal"}
ChildPCs == ClaimPCs \cup {"read", "set_consumed", "clear_id"}

-----------------------------------------------------------------------------
(* Shape: purely local to a worker.                                         *)

ShapeOf(w) ==
    /\ pc[w] \in LeafPCs => cur[w] \in Leaves /\ leaf[w] \in 0 .. NumLeaves - 1
    /\ pc[w] \in NodePCs \cup {"signal"} => cur[w] \in Nodes
    /\ pc[w] \in NotifyPCs => cur[w] \in Tasks \ {0}
    /\ pc[w] \in ChildPCs => child[w] \in Children(cur[w])
    /\ HoldsLeft(w) => lbuf[w] \in Blocks
    /\ HoldsRight(w) => rbuf[w] \in Blocks
    /\ pc[w] = "consume" => (IF AtLeft(w) THEN lbuf[w] ELSE rbuf[w]) \in Blocks
    /\ pc[w] = "signal" => cur[w] = 0

Shape == /\ \A w \in Workers : ShapeOf(w)
         /\ main # "start" /\ main # "InvalidInput" => ValidLeaves
         /\ main \in {"start", "InvalidInput"} =>
                producer = "unborn" /\ \A w \in Workers : pc[w] = "unborn"
         /\ MainHolds => mainBuf \in Blocks

\* The type invariant together with the shape of every worker is inductive.
TypeInv == TypeOK /\ Shape

-----------------------------------------------------------------------------
(* Control: ownership of tasks.                                             *)

\* A task is in the hands of at most one worker.
OneWorkerPerTask ==
    \A v, w \in Workers :
        pc[v] \in BusyPCs /\ pc[w] \in BusyPCs /\ cur[v] = cur[w] => v = w

Idle(t) == \A w \in Workers : pc[w] \in BusyPCs => cur[w] # t

\* A queued leaf has not been started, is nobody's current task, carries its
\* own stream position and is queued once.
LeafQueues ==
    \A w \in Workers : \A i \in 1 .. Len(leafQ[w]) :
        LET t == leafQ[w][i][2] IN
        /\ leafQ[w][i][1] = t - LeafStart
        /\ t < nextLeaf
        /\ state[t] = "NOT_STARTED"
        /\ Idle(t)
        /\ \A v \in Workers : \A j \in 1 .. Len(leafQ[v]) :
               leafQ[v][j][2] = t => v = w /\ j = i

FutureLeaves == \A t \in Leaves : t >= nextLeaf => state[t] = "NOT_STARTED"

\* A worker that processes a leaf has its stream position, and its state.
LeafWorkOf(w) ==
    pc[w] \in LeafPCs =>
        /\ cur[w] < nextLeaf
        /\ leaf[w] = cur[w] - LeafStart
        /\ state[cur[w]] = IF pc[w] \in {"convert", "l_reset", "l_write", "l_ready"}
                           THEN "PROCESSING" ELSE "NOT_STARTED"

LeafWork == \A w \in Workers : LeafWorkOf(w)

\* Worker w goes over the children of cur[w], left then right, and has done c.
Passed(w, c) == c = Left(cur[w]) /\ ~AtLeft(w)

\* What a worker that folds cur[w] may assume about a child c of cur[w] ...
ChildWork(w, c) ==
    /\ pc[w] = "n_check" => state[c] = "READY"
    /\ pc[w] \in ClaimPCs =>
         state[c] = IF Passed(w, c) THEN "BEING_CONSUMED" ELSE "READY"
    /\ pc[w] \in {"read", "fold", "f_release_l", "f_release_r"} => state[c] = "BEING_CONSUMED"
    /\ pc[w] = "set_consumed" =>
         state[c] = IF Passed(w, c) THEN "CONSUMED" ELSE "BEING_CONSUMED"
    /\ pc[w] \in {"clear_id", "release_r"} \cup ResultHoldPCs => state[c] = "CONSUMED"

\* ... and about cur[w] itself.
NodeWorkOf(w) ==
    pc[w] \in NodePCs =>
        /\ state[cur[w]] = IF pc[w] = "n_ready" THEN "PROCESSING"
                                                ELSE "WAITING_BOTH_CHILDREN"
        /\ \A c \in Children(cur[w]) : ChildWork(w, c)

NodeWork == \A w \in Workers : NodeWorkOf(w)

\* A worker that reports a task has published it.
NotifyWorkOf(w) ==
    /\ pc[w] \in NotifyPCs => state[cur[w]] = "READY"
    /\ pc[w] = "notify2" => state[Parent(cur[w])] # "NOT_STARTED"
    /\ pc[w] = "signal" => state[0] = "READY"

NotifyWork == \A w \in Workers : NotifyWorkOf(w)

\* A ready queue holds at most one node, and only between two iterations of
\* the loop of its worker; that node is waiting, with both children published.
ReadyQueueOf(w) ==
    /\ Len(readyQ[w]) <= 1
    /\ readyQ[w] # <<>> =>
         /\ pc[w] \in {"check", "pop", "exited"}
         /\ state[readyQ[w][1]] = "WAITING_BOTH_CHILDREN"
         /\ \A c \in Children(readyQ[w][1]) : state[c] = "READY"
         /\ Idle(readyQ[w][1])
         /\ \A v \in Workers : readyQ[v] # <<>> /\ readyQ[v][1] = readyQ[w][1] => v = w

ReadyQueues == \A w \in Workers : ReadyQueueOf(w)

\* A child has reported to its parent.
Notified(c) == Done(c) /\ \A w \in Workers : pc[w] \in NotifyPCs => cur[w] # c

\* The state of a waiting node counts the children that have reported.
ParentCount(p) ==
    /\ state[p] = "NOT_STARTED" => \A c \in Children(p) : ~Notified(c)
    /\ state[p] = "WAITING_ONE_CHILD" =>
         \E c \in Children(p) : /\ Notified(c) /\ state[c] = "READY"
                                /\ \A d \in Children(p) : Notified(d) => d = c
    /\ state[p] \notin {"NOT_STARTED", "WAITING_ONE_CHILD"} => \A c \in Children(p) : Notified(c)

ParentCounts == \A p \in Nodes : ParentCount(p)

\* A node that is past its fold has consumed both children.
ChildrenConsumed ==
    \A p \in Nodes : state[p] \in {"PROCESSING", "READY", "BEING_CONSUMED", "CONSUMED"} =>
        \A c \in Children(p) : state[c] = "CONSUMED"

RootReady == stop = 1 => 0 \in Nodes /\ state[0] = "READY"

\* run leaves its wait only when stop is set, and returns only when every
\* worker has been joined.
MainWaits ==
    /\ main \in {"load_root", "read_root", "drop_root", "join", "Ok"} => stop = 1
    /\ main = "Ok" => \A w \in Workers : pc[w] \in {"exited", "panicked"}

\* buffer_id is set whenever a task is being processed or is published ...
BufferIdOf(w) ==
    /\ pc[w] \in {"l_start", "convert", "l_reset", "l_write", "l_ready", "n_start", "n_ready"}
         => bufferId[cur[w]] = lbuf[w]
    /\ pc[w] = "consume" => bufferId[child[w]] = IF AtLeft(w) THEN lbuf[w] ELSE rbuf[w]
    /\ pc[w] = "clear_id" /\ ~AtLeft(w) => bufferId[Left(cur[w])] = NoBuf

\* ... and is cleared by the worker that consumes the task.
ClearedId(t) ==
    state[t] = "CONSUMED" =>
        \/ bufferId[t] = NoBuf
        \/ \E w \in Workers : pc[w] \in {"set_consumed", "clear_id"} /\ t \in Children(cur[w])

BufferIds ==
    /\ \A t \in Tasks : state[t] = "READY" => bufferId[t] \in Blocks
    /\ \A w \in Workers : BufferIdOf(w)
    /\ \A t \in Tasks : ClearedId(t)

\* A node that waits for its fold is in a worker's hands, unless a fold failed
\* or (the buffer layer rules it out) a worker has panicked.
NodesHeld ==
    \A n \in Nodes : state[n] \in {"WAITING_BOTH_CHILDREN", "PROCESSING"} =>
        \/ FoldersOf(n) # {}
        \/ "FoldOperationFailed" \in errors
        \/ \E w \in Workers : pc[w] = "panicked"

\* The error paths of the reducer are entered only when it may fail.
ErrorPaths ==
    \A w \in Workers :
        pc[w] \in {"l_reset", "l_unset", "l_release", "f_release_l", "f_release_r"} => CanFail

\* The control layer.  From it follow OnlyReducerErrors and, because every
\* path of the tree ends at the root, that stop means every other node consumed.
Control ==
    /\ OneWorkerPerTask /\ LeafQueues /\ FutureLeaves /\ LeafWork /\ NodeWork
    /\ NotifyWork /\ ReadyQueues /\ ParentCounts /\ ChildrenConsumed /\ RootReady
    /\ MainWaits /\ BufferIds /\ NodesHeld /\ ErrorPaths /\ OnlyReducerErrors

-----------------------------------------------------------------------------
(* Buffers: one owner per block, and what the blocks hold.                  *)

FreeDistinct == \A i, j \in 1 .. Len(free) : free[i] = free[j] => i = j

\* The ways to own block b.
InFree(b) == \E i \in 1 .. Len(free) : free[i] = b
HasLeft(w, b) == HoldsLeft(w) /\ lbuf[w] = b
HasRight(w, b) == HoldsRight(w) /\ rbuf[w] = b
TaskHas(t, b) == TaskHolds(t) /\ bufferId[t] = b
MainHas(b) == MainHolds /\ mainBuf = b

\* No block is lost ...
Owned(b) ==
    \/ InFree(b)
    \/ \E w \in Workers : HasLeft(w, b) \/ HasRight(w, b)
    \/ \E t \in Tasks : TaskHas(t, b)
    \/ MainHas(b)

\* ... and none has two owners.
OwnedOnce(b) ==
    /\ \A v, w \in Workers :
          /\ HasLeft(v, b) /\ HasLeft(w, b) => v = w
          /\ HasRight(v, b) /\ HasRight(w, b) => v = w
          /\ ~(HasLeft(v, b) /\ HasRight(w, b))
    /\ \A t, u \in Tasks : TaskHas(t, b) /\ TaskHas(u, b) => t = u
    /\ \A w \in Workers : HasLeft(w, b) \/ HasRight(w, b) =>
          ~InFree(b) /\ ~MainHas(b) /\ \A t \in Tasks : ~TaskHas(t, b)
    /\ \A t \in Tasks : TaskHas(t, b) => ~InFree(b) /\ ~MainHas(b)
    /\ ~(InFree(b) /\ MainHas(b))

BlocksOwned == \A b \in Blocks : Owned(b) /\ OwnedOnce(b)

\* What the handles of a worker see, and what it has computed.
ValuesOf(w) ==
    /\ pc[w] = "l_write" => lval[w] = cur[w]
    /\ pc[w] \in {"l_ready", "n_store", "n_start", "n_ready"} => slot[lbuf[w]] = cur[w]
    /\ pc[w] \in ClaimPCs /\ ~AtLeft(w) => slot[lbuf[w]] = Left(cur[w])
    /\ pc[w] = "read" =>
         /\ IF AtLeft(w) THEN slot[lbuf[w]] = Left(cur[w]) ELSE lval[w] = Left(cur[w])
         /\ slot[rbuf[w]] = Right(cur[w])
    /\ pc[w] = "fold" => lval[w] = Left(cur[w]) /\ rval[w] = Right(cur[w])
    /\ pc[w] \in {"set_consumed", "clear_id", "release_r", "write"} => lval[w] = cur[w]

WorkerValues == \A w \in Workers : ValuesOf(w)

MainValue ==
    /\ main = "read_root" => slot[mainBuf] = 0
    /\ main \in {"drop_root", "join", "Ok"} => result = 0
    /\ main # "NoRootResult"

\* The buffer layer.
Buffers ==
    /\ FreeDistinct /\ BlocksOwned /\ PublishedCorrect /\ WorkerValues /\ MainValue /\ NoPanic

=============================================================================
