---------------------------- MODULE ProofNetwork ----------------------------
(***************************************************************************)
(* The proving network of network/src: a coordinator (pcdnode -w) that cuts *)
(* a program's trace into leaf proofs and folds them pairwise, and the      *)
(* workers that compute them, the coordinator's own two threads and the PCD *)
(* and MSM nodes connected to it.                                           *)
(*                                                                         *)
(* Every piece of work carries the sending half of a oneshot channel.  A    *)
(* tokio task waits on the receiving half; when the sender is dropped       *)
(* unused the task panics (request_work(..).await.unwrap()), and so does    *)
(* every task that awaits it.                                               *)
(*                                                                         *)
(* The state before block b of a trace is abstracted to b.  A connected     *)
(* node runs the same code as the coordinator, one request at a time, and   *)
(* is abstracted to "answers or goes away".                                 *)
(***************************************************************************)
EXTENDS PowersOfTwo, Sequences, FiniteSets

CONSTANTS Jobs,        \* the Program requests of the clients
          Hashes,      \* SHA-256 digests of their ELF files
          HashOf,      \* the digest of each request's ELF
          PathOf,      \* the path each request is posted to
          NumBlocks,   \* the number of blocks trace() gives for each ELF, 0 an Err
          PcdPeers,    \* the PCD nodes that may connect
          MsmPeers,    \* the MSM nodes that may connect
          MaxFaults    \* bound: how many connections and proofs may fail

ASSUME NetworkAssumption ==
    /\ HashOf \in [Jobs -> Hashes]
    /\ PathOf \in [Jobs -> {"/core", "/api"}]
    /\ NumBlocks \in [Hashes -> Nat]
    /\ PcdPeers \cap MsmPeers = {}
    /\ MaxFaults \in Nat

StepOfBlock(b, z) == IF z = b THEN b + 1 ELSE -1

PCD == INSTANCE PcdNode WITH StepCircuit <- StepOfBlock

Peers == PcdPeers \cup MsmPeers

-----------------------------------------------------------------------------
(* The tasks of a job: level 0 proves the leaves, a task of level n + 1     *)
(* folds two neighbours of level n, as manage_proof pairs its deque.        *)

\* trace.split_by(2): chunks of two blocks, the last one maybe shorter.
Chunks(j) == (NumBlocks[HashOf[j]] + 1) \div 2

Width(j, lev) == Chunks(j) \div TwoTo[lev]

Levels(j) == {lev \in 0 .. Chunks(j) : TwoTo[lev] <= Chunks(j)}

TasksOf(j) == {t \in {j} \X Levels(j) \X (0 .. Chunks(j)) : t[3] < Width(j, t[2])}

Tasks == UNION {TasksOf(j) : j \in Jobs}

\* The number of chunks is a power of two, so that every level pairs up
\* completely.  trace stops padding only when one more block would make a
\* power of two, and not at one block: it gives 3, 7, 15, ... blocks.
ASSUME PairingAssumption ==
    \A j \in Jobs : /\ NumBlocks[HashOf[j]] # 1
                    /\ Chunks(j) # 0 => IsPowerOfTwo(Chunks(j))

Job(t) == t[1]
IsLeaf(t) == t[2] = 0
LeftOf(t) == <<t[1], t[2] - 1, 2 * t[3]>>
RightOf(t) == <<t[1], t[2] - 1, 2 * t[3] + 1>>

\* The task whose handle is alone in the deque when the loop ends.
FrontOfDeque(j) == <<j, 0, 0>>
RootOf(j) == CHOOSE t \in TasksOf(j) : Width(j, t[2]) = 1

\* The first block of the chunk a leaf request carries.
StartOf(t) == 2 * t[3]

\* Trace::get: is there a block of this index?
HasBlock(j, b) == b < NumBlocks[HashOf[j]]

-----------------------------------------------------------------------------

NoProof == [i |-> 0, j |-> 0, zi |-> 0, zj |-> 0, sat |-> FALSE]
NoTask == <<>>

VARIABLES
    reply,     \* what the client of a request got back
    db,        \* DBase::proofs; an entry that is not there has total 0
    task,      \* where each tokio task is
    node,      \* the PCDNode a finished task returned
    final,     \* where the last task of manage_proof is, per job
    pcdQ,      \* the unbounded channel of PCD work: the tasks that sent it
    msmQ,      \* the unbounded channel of MSM work: how many requests it holds
    local,     \* where the thread local_pcd is
    localWork, \* the work local_pcd holds
    msm,       \* where the thread local_msm is
    link,      \* whether the connection of a peer is up
    proxy,     \* where chan_to_net of a peer's connection is
    held,      \* the work a PCD proxy holds
    faults

vars == <<reply, db, task, node, final, pcdQ, msmQ, local, localWork, msm, link,
          proxy, held, faults>>

jobVars == <<reply, final>>
queueVars == <<pcdQ, msmQ>>
localVars == <<local, localWork, msm>>
peerVars == <<link, proxy, held>>

Init ==
    /\ reply = [j \in Jobs |-> "none"]
    /\ db = [h \in Hashes |-> [known |-> FALSE, total |-> 0, complete |-> 0, proof |-> NoProof]]
    /\ task = [t \in Tasks |-> "unborn"]
    /\ node = [t \in Tasks |-> NoProof]
    /\ final = [j \in Jobs |-> "unborn"]
    /\ pcdQ = <<>>
    /\ msmQ = 0
    /\ local = "recv"
    /\ localWork = NoTask
    /\ msm = "recv"
    /\ link = [p \in Peers |-> "closed"]
    /\ proxy = [p \in Peers |-> "unborn"]
    /\ held = [p \in Peers |-> NoTask]
    /\ faults = 0

-----------------------------------------------------------------------------
(* The database.                                                            *)

\* DB::new_proof: an entry that is already there keeps its count and proof.
NewProofReset(h, total) ==
    db' = [db EXCEPT ![h] = [known |-> TRUE, total |-> total, complete |-> 0, proof |-> NoProof]]
NewProof(h, total) == db' = [db EXCEPT ![h].known = TRUE, ![h].total = total]

\* DB::update_complete
UpdateCompleteByOne(h, n) == db' = [db EXCEPT ![h].complete = @ + 1]
UpdateComplete(h, n) == db' = [db EXCEPT ![h].complete = @ + n]

\* DB::update_proof
UpdateProof(h, proof) == db' = [db EXCEPT ![h].proof = proof]

-----------------------------------------------------------------------------
(* manage_proof and the tasks it spawns.                                    *)

\* router: the one path a POST is served on is /core.
Routed(j) == PathOf[j] = "/core"

NotFound(j) ==
    /\ reply[j] = "none"
    /\ ~Routed(j)
    /\ reply' = [reply EXCEPT ![j] = "not_found"]
    /\ UNCHANGED <<db, task, node, final, queueVars, localVars, peerVars, faults>>

\* The handler of a Program request whose ELF does not parse or whose
\* execution fails: nothing is stored and nothing is spawned.
RejectProgram(j) ==
    /\ reply[j] = "none"
    /\ Routed(j)
    /\ NumBlocks[HashOf[j]] = 0
    /\ reply' = [reply EXCEPT ![j] = "error"]
    /\ UNCHANGED <<db, task, node, final, queueVars, localVars, peerVars, faults>>

\* The handler of a Program request: the entry is made, the tasks are
\* spawned, and the client is answered at once.
SubmitProgram(j) ==
    /\ reply[j] = "none"
    /\ Routed(j)
    /\ NumBlocks[HashOf[j]] # 0
    /\ reply' = [reply EXCEPT ![j] = "accepted"]
    /\ NewProof(HashOf[j], NumBlocks[HashOf[j]] - 1)
    /\ task' = [t \in Tasks |-> IF Job(t) # j THEN task[t]
                                ELSE IF IsLeaf(t) THEN "send" ELSE "await_l"]
    /\ final' = [final EXCEPT ![j] = "await"]
    /\ UNCHANGED <<node, queueVars, localVars, peerVars, faults>>

\* request_work: the work is sent and the task waits for its oneshot.
SendWork(t) ==
    /\ task[t] = "send"
    /\ pcdQ' = Append(pcdQ, t)
    /\ task' = [task EXCEPT ![t] = "waiting"]
    /\ UNCHANGED <<jobVars, db, node, msmQ, localVars, peerVars, faults>>

\* l.await.unwrap(): a panic of the left child is passed on.
AwaitLeft(t) ==
    /\ task[t] = "await_l"
    /\ task[LeftOf(t)] \in {"done", "panicked"}
    /\ task' = [task EXCEPT ![t] = IF task[LeftOf(t)] = "done" THEN "await_r" ELSE "panicked"]
    /\ UNCHANGED <<jobVars, db, node, queueVars, localVars, peerVars, faults>>

AwaitRightPanics(t) ==
    /\ task[t] = "await_r"
    /\ task[RightOf(t)] = "panicked"
    /\ task' = [task EXCEPT ![t] = "panicked"]
    /\ UNCHANGED <<jobVars, db, node, queueVars, localVars, peerVars, faults>>

\* Both children are there: they are counted, and the blocks after each of
\* them are looked up in the trace before the request is sent.
AwaitRight(t) ==
    /\ task[t] = "await_r"
    /\ task[RightOf(t)] = "done"
    /\ UpdateComplete(HashOf[Job(t)], 2)
    /\ task' = [task EXCEPT ![t] =
                    IF /\ HasBlock(Job(t), node[LeftOf(t)].j)
                       /\ HasBlock(Job(t), node[RightOf(t)].j)
                    THEN "send" ELSE "panicked"]
    /\ UNCHANGED <<jobVars, node, queueVars, localVars, peerVars, faults>>

\* The last task of manage_proof: the root is counted ...
AwaitRoot(j) ==
    /\ final[j] = "await"
    /\ task[RootOf(j)] = "done"
    /\ UpdateComplete(HashOf[j], 1)
    /\ final' = [final EXCEPT ![j] = "verify"]
    /\ UNCHANGED <<reply, task, node, queueVars, localVars, peerVars, faults>>

AwaitRootPanics(j) ==
    /\ final[j] = "await"
    /\ task[RootOf(j)] = "panicked"
    /\ final' = [final EXCEPT ![j] = "panicked"]
    /\ UNCHANGED <<reply, db, task, node, queueVars, localVars, peerVars, faults>>

\* ... verified, and stored.
StoreProof(j) ==
    /\ final[j] = "verify"
    /\ IF PCD!Verify(node[RootOf(j)])
       THEN /\ UpdateProof(HashOf[j], node[RootOf(j)])
            /\ final' = [final EXCEPT ![j] = "done"]
       ELSE /\ final' = [final EXCEPT ![j] = "panicked"]
            /\ UNCHANGED db
    /\ UNCHANGED <<reply, task, node, queueVars, localVars, peerVars, faults>>

-----------------------------------------------------------------------------
(* The work itself.                                                         *)

\* prove_leaf and prove_node, on the coordinator or on a peer.  The right
\* child is popped first from the request, then the left one.
Prove(t) ==
    IF IsLeaf(t) THEN PCD!ProveLeaf(StartOf(t), StartOf(t))
    ELSE PCD!ProveParent(node[LeftOf(t)], node[RightOf(t)])

\* send_response: the waiting task gets its node and ends.
Respond(t) ==
    /\ node' = [node EXCEPT ![t] = Prove(t)]
    /\ task' = [task EXCEPT ![t] = "done"]

\* The oneshot of a piece of work is dropped.
DropUnnoticed(t) == UNCHANGED task
Drop(t) == task' = [task EXCEPT ![t] = "panicked"]

-----------------------------------------------------------------------------
(* The coordinator's own threads.                                           *)

LocalRecv ==
    /\ local = "recv"
    /\ pcdQ # <<>>
    /\ localWork' = Head(pcdQ)
    /\ pcdQ' = Tail(pcdQ)
    /\ local' = "prove"
    /\ UNCHANGED <<jobVars, db, task, node, msmQ, msm, peerVars, faults>>

\* request_msm: the thread blocks until the commitment comes back.
LocalRequestMsm ==
    /\ local = "prove"
    /\ msmQ' = msmQ + 1
    /\ local' = "msm"
    /\ UNCHANGED <<jobVars, db, task, node, pcdQ, localWork, msm, peerVars, faults>>

\* An Err of prove_leaf or prove_node ends the thread.
LocalProveFails ==
    /\ local = "prove"
    /\ faults < MaxFaults
    /\ faults' = faults + 1
    /\ local' = "ended"
    /\ localWork' = NoTask
    /\ Drop(localWork)
    /\ UNCHANGED <<jobVars, db, node, queueVars, msm, peerVars>>

LocalReply ==
    /\ local = "reply"
    /\ Respond(localWork)
    /\ local' = "recv"
    /\ localWork' = NoTask
    /\ UNCHANGED <<jobVars, db, queueVars, msm, peerVars, faults>>

\* panic!("bad result"): the oneshot of the MSM request was dropped.
LocalPanics ==
    /\ local = "msm_lost"
    /\ Drop(localWork)
    /\ local' = "ended"
    /\ localWork' = NoTask
    /\ UNCHANGED <<jobVars, db, node, queueVars, msm, peerVars, faults>>

MsmRecv ==
    /\ msm = "recv"
    /\ msmQ > 0
    /\ msmQ' = msmQ - 1
    /\ msm' = "commit"
    /\ UNCHANGED <<jobVars, db, task, node, pcdQ, local, localWork, peerVars, faults>>

MsmReply ==
    /\ msm = "commit"
    /\ msm' = "recv"
    /\ local' = "reply"
    /\ UNCHANGED <<jobVars, db, task, node, queueVars, localWork, peerVars, faults>>

-----------------------------------------------------------------------------
(* The connected nodes.                                                     *)

\* bin::client and bin::upgrade.  A node whose connection ends exits; it is
\* another node that connects next.
Connect(p) ==
    /\ proxy[p] = "unborn"
    /\ link' = [link EXCEPT ![p] = "up"]
    /\ proxy' = [proxy EXCEPT ![p] = "recv"]
    /\ UNCHANGED <<jobVars, db, task, node, queueVars, localVars, held, faults>>

\* The connection breaks, the peer dies, or a message exceeds MAX_SIZE.  A
\* proxy that waits for work does not read from its connection and does not
\* notice.
Disconnect(p) ==
    /\ link[p] = "up"
    /\ faults < MaxFaults
    /\ faults' = faults + 1
    /\ link' = [link EXCEPT ![p] = "closed"]
    /\ UNCHANGED <<jobVars, db, task, node, queueVars, localVars, proxy, held>>

\* chan_to_net: recv, then write_msg, whether the connection is up or not.
PcdProxyPeek(p) ==
    /\ p \in PcdPeers
    /\ proxy[p] = "recv"
    /\ pcdQ # <<>>
    /\ held' = [held EXCEPT ![p] = Head(pcdQ)]
    /\ proxy' = [proxy EXCEPT ![p] = "busy"]
    /\ UNCHANGED <<jobVars, db, task, node, queueVars, localVars, link, faults>>
PcdProxyRecv(p) ==
    /\ p \in PcdPeers
    /\ proxy[p] = "recv"
    /\ pcdQ # <<>>
    /\ held' = [held EXCEPT ![p] = Head(pcdQ)]
    /\ pcdQ' = Tail(pcdQ)
    /\ proxy' = [proxy EXCEPT ![p] = "busy"]
    /\ UNCHANGED <<jobVars, db, task, node, msmQ, localVars, link, faults>>

\* The peer's net_to_chan answered, read_msg returned.
PcdProxyReply(p) ==
    /\ p \in PcdPeers
    /\ proxy[p] = "busy"
    /\ link[p] = "up"
    /\ Respond(held[p])
    /\ held' = [held EXCEPT ![p] = NoTask]
    /\ proxy' = [proxy EXCEPT ![p] = "recv"]
    /\ UNCHANGED <<jobVars, db, queueVars, localVars, link, faults>>

\* write_msg or read_msg failed: the proxy ends and the work is gone.
PcdProxyFails(p) ==
    /\ p \in PcdPeers
    /\ proxy[p] = "busy"
    /\ link[p] = "closed"
    /\ Drop(held[p])
    /\ held' = [held EXCEPT ![p] = NoTask]
    /\ proxy' = [proxy EXCEPT ![p] = "ended"]
    /\ UNCHANGED <<jobVars, db, node, queueVars, localVars, link, faults>>

MsmProxyRecv(p) ==
    /\ p \in MsmPeers
    /\ proxy[p] = "recv"
    /\ msmQ > 0
    /\ msmQ' = msmQ - 1
    /\ proxy' = [proxy EXCEPT ![p] = "busy"]
    /\ UNCHANGED <<jobVars, db, task, node, pcdQ, localVars, link, held, faults>>

MsmProxyReply(p) ==
    /\ p \in MsmPeers
    /\ proxy[p] = "busy"
    /\ link[p] = "up"
    /\ local' = "reply"
    /\ proxy' = [proxy EXCEPT ![p] = "recv"]
    /\ UNCHANGED <<jobVars, db, task, node, queueVars, localWork, msm, link, held, faults>>

MsmProxyFails(p) ==
    /\ p \in MsmPeers
    /\ proxy[p] = "busy"
    /\ link[p] = "closed"
    /\ local' = "msm_lost"
    /\ proxy' = [proxy EXCEPT ![p] = "ended"]
    /\ UNCHANGED <<jobVars, db, task, node, queueVars, localWork, msm, link, held, faults>>

-----------------------------------------------------------------------------

TaskStep(t) == SendWork(t) \/ AwaitLeft(t) \/ AwaitRight(t) \/ AwaitRightPanics(t)
FinalStep(j) == AwaitRoot(j) \/ AwaitRootPanics(j) \/ StoreProof(j)
LocalStep == LocalRecv \/ LocalRequestMsm \/ LocalReply \/ LocalPanics
MsmStep == MsmRecv \/ MsmReply
ProxyStep(p) == \/ PcdProxyRecv(p) \/ PcdProxyReply(p) \/ PcdProxyFails(p)
                \/ MsmProxyRecv(p) \/ MsmProxyReply(p) \/ MsmProxyFails(p)

Next ==
    \/ \E j \in Jobs : SubmitProgram(j) \/ RejectProgram(j) \/ NotFound(j) \/ FinalStep(j)
    \/ \E t \in Tasks : TaskStep(t)
    \/ LocalStep \/ LocalProveFails
    \/ MsmStep
    \/ \E p \in Peers : Connect(p) \/ Disconnect(p) \/ ProxyStep(p)

Spec == Init /\ [][Next]_vars

\* The tokio runtime polls every task that can go on, the operating system
\* runs both threads, and a request written to a connection is answered or
\* the connection is found broken (tcp_keepalive).
FairSpec ==
    /\ Spec
    /\ \A t \in Tasks : WF_vars(TaskStep(t))
    /\ \A j \in Jobs : WF_vars(FinalStep(j))
    /\ WF_vars(LocalStep)
    /\ WF_vars(MsmStep)
    /\ \A p \in Peers : WF_vars(ProxyStep(p))

-----------------------------------------------------------------------------
(* What has to be true of the network. *)

NodeType == [i : Nat, j : Nat, zi : Int, zj : Int, sat : BOOLEAN]

\* The states of the requests, tasks, channels, threads and connections.
ControlType ==
    /\ reply \in [Jobs -> {"none", "accepted", "error", "not_found"}]
    /\ task \in [Tasks -> {"unborn", "send", "await_l", "await_r", "waiting", "done", "panicked"}]
    /\ pcdQ \in Seq(Tasks)
    /\ msmQ \in Nat
    /\ local \in {"recv", "prove", "msm", "msm_lost", "reply", "ended"}
    /\ localWork \in Tasks \cup {NoTask}
    /\ msm \in {"recv", "commit"}
    /\ proxy \in [Peers -> {"unborn", "recv", "busy", "ended"}]
    /\ held \in [Peers -> Tasks \cup {NoTask}]

\* The type invariant: the database, the tasks, the channels, the threads and
\* the connections of the coordinator stay in their ranges.
TypeOK ==
    /\ ControlType
    /\ db \in [Hashes -> [known : BOOLEAN, total : Nat, complete : Nat, proof : NodeType]]
    /\ node \in [Tasks -> NodeType]
    /\ final \in [Jobs -> {"unborn", "await", "verify", "done", "panicked"}]
    /\ link \in [Peers -> {"up", "closed"}]
    /\ faults \in 0 .. MaxFaults

-----------------------------------------------------------------------------
(* Where the sending half of a task's oneshot is.                           *)

InQueue(t) == \E k \in 1 .. Len(pcdQ) : pcdQ[k] = t
WithLocal(t) == localWork = t
WithProxy(t) == \E p \in PcdPeers : held[p] = t

MsmBusy(p) == p \in MsmPeers /\ proxy[p] = "busy"

\* The PCD work: a task waits for an answer exactly when its work is in the
\* channel, with local_pcd or with a proxy ...
WaitingHasWork ==
    \A t \in Tasks : task[t] = "waiting" <=> InQueue(t) \/ WithLocal(t) \/ WithProxy(t)

\* ... and it is never in two of these places, or twice in one.
NoWorkTwice ==
    /\ \A t \in Tasks : /\ InQueue(t) => ~WithLocal(t) /\ ~WithProxy(t)
                        /\ WithLocal(t) => ~WithProxy(t)
    /\ \A k, l \in 1 .. Len(pcdQ) : pcdQ[k] = pcdQ[l] => k = l
    /\ \A p, q \in PcdPeers : held[p] # NoTask /\ held[p] = held[q] => p = q

\* The MSM work: local_pcd blocks exactly as long as its one request is in the
\* channel, with local_msm or with one proxy.
OneMsmRequest ==
    /\ msmQ <= 1
    /\ \A p, q \in Peers : MsmBusy(p) /\ MsmBusy(q) => p = q
    /\ local = "msm" <=> msmQ = 1 \/ msm = "commit" \/ \E p \in Peers : MsmBusy(p)
    /\ msmQ = 1 => msm # "commit" /\ \A p \in Peers : ~MsmBusy(p)
    /\ msm = "commit" => \A p \in Peers : ~MsmBusy(p)

\* Every task that waits for an answer has its work in exactly one place, in
\* the channel, with local_pcd or with one proxy; no work is in a place
\* without a task waiting for it, so send_response never fails; and local_pcd
\* blocks on exactly one MSM request.
WorkInOnePlace == WaitingHasWork /\ NoWorkTwice /\ OneMsmRequest

\* local_pcd and the proxies hold a piece of work exactly while they are at
\* the lines that use it.
HoldersBusy ==
    /\ localWork # NoTask <=> local \in {"prove", "msm", "msm_lost", "reply"}
    /\ \A p \in PcdPeers : held[p] # NoTask <=> proxy[p] = "busy"

\* A job's tasks are spawned by its one submission.
NothingBeforeSubmit == \A t \in Tasks : reply[Job(t)] = "none" => task[t] = "unborn"

\* The inductive invariant of the work in flight.
WorkInv == ControlType /\ NothingBeforeSubmit /\ HoldersBusy /\ WorkInOnePlace

Stored(h) == db[h].proof # NoProof

\* A proof in the database verifies and goes from the first state of the
\* program through every chunk of its trace, whatever the order in which
\* workers and peers answered.
ProofIsWhole ==
    \A j \in Jobs : LET p == db[HashOf[j]].proof
                    IN  Stored(HashOf[j]) => /\ PCD!Verify(p)
                                             /\ p.i = 0 /\ p.zi = 0
                                             /\ p.j = 2 * Chunks(j) - 1 /\ p.zj = p.j

-----------------------------------------------------------------------------
(* Why a stored proof is whole: the inductive invariant of the folding.     *)

\* An honest node for the blocks a .. b - 1.
Claim(a, b) == [i |-> a, j |-> b, zi |-> a, zj |-> b, sat |-> TRUE]

WholeProof(j) == Claim(0, 2 * Chunks(j) - 1)

\* A task asks for its fold only when both children have answered.
ChildrenDone ==
    \A t \in Tasks : ~IsLeaf(t) =>
        /\ task[t] \in {"await_r", "send", "waiting", "done"} => task[LeftOf(t)] = "done"
        /\ task[t] \in {"send", "waiting", "done"} => task[RightOf(t)] = "done"

\* The node of a finished task is honest and spans its chunk or its children;
\* the first task of a level begins at block 0, and the last one ends where
\* the last chunk does.
NodeRight(t) ==
    /\ node[t] = Claim(node[t].i, node[t].j)
    /\ IF IsLeaf(t) THEN node[t].i = StartOf(t) /\ node[t].j = StartOf(t) + 1
       ELSE node[t].i = node[LeftOf(t)].i /\ node[t].j = node[RightOf(t)].j
    /\ t[3] = 0 => node[t].i = 0
    /\ t[3] + 1 = Width(Job(t), t[2]) => node[t].j = 2 * Chunks(Job(t)) - 1

NodesRight == \A t \in Tasks : task[t] = "done" => NodeRight(t)

NextTo(t) == <<t[1], t[2], t[3] + 1>>

\* Between two neighbours of a level there is exactly the one block that
\* their parent proves.
NeighboursMeet ==
    \A t \in Tasks : NextTo(t) \in Tasks /\ task[t] = "done" /\ task[NextTo(t)] = "done" =>
        node[NextTo(t)].i = node[t].j + 1

\* The last task of manage_proof has waited for the root.
FinalRight ==
    \A j \in Jobs :
        /\ final[j] # "unborn" => NumBlocks[HashOf[j]] # 0 /\ reply[j] # "none"
        /\ final[j] \in {"verify", "done"} => task[RootOf(j)] = "done"

DbType == db \in [Hashes -> [known : BOOLEAN, total : Nat, complete : Nat, proof : NodeType]]

DbRight == \A j \in Jobs : db[HashOf[j]].proof \in {NoProof, WholeProof(j)}

\* The invariant of the folding; it rests on WorkInv, by which only a task
\* that waits is ever answered or dropped.
FoldInv == /\ ChildrenDone /\ NodesRight /\ NeighboursMeet
           /\ FinalRight /\ final \in [Jobs -> {"unborn", "await", "verify", "done", "panicked"}]
           /\ node \in [Tasks -> NodeType]
           /\ DbType /\ DbRight

-----------------------------------------------------------------------------

Submissions(h) == Cardinality({j \in Jobs : HashOf[j] = h /\ reply[j] = "accepted"})

\* The counters a client polls: complete_nodes never passes total_nodes for
\* each time the program was submitted, and a stored proof means that the
\* count had reached the total.
CountersAgree ==
    \A h \in Hashes : /\ db[h].complete <= db[h].total * Submissions(h)
                      /\ Stored(h) => db[h].complete >= db[h].total

-----------------------------------------------------------------------------
(* Why the counters agree: the inductive invariant of the counting.         *)

Inner(j) == {t \in TasksOf(j) : ~IsLeaf(t)}

Accepted(h) == {j \in Jobs : HashOf[j] = h /\ reply[j] = "accepted"}

\* The tasks that have counted their children, and those that may have: a
\* task can panic before or after it counts them.
Counting(j) == {t \in Inner(j) : task[t] \in {"send", "waiting", "done"}}
MayHaveCounted(h) ==
    {t \in Tasks : HashOf[Job(t)] = h /\ ~IsLeaf(t)
                    /\ task[t] \in {"send", "waiting", "done", "panicked"}}

\* The last tasks of manage_proof that have counted their root.
RootCounted(j) == final[j] \notin {"unborn", "await"} /\ task[RootOf(j)] = "done"
RootsCounted(h) == {j \in Jobs : HashOf[j] = h /\ RootCounted(j)}

\* A job is accepted once, its entry has the length of its trace, and an
\* entry without an accepted job counts nothing.
OnlyAccepted ==
    /\ \A h \in Hashes : IsFiniteSet(Accepted(h))
    /\ \A t \in Tasks : task[t] # "unborn" => reply[Job(t)] = "accepted"
    /\ \A j \in Jobs : final[j] # "unborn" => reply[j] = "accepted"
    /\ \A j \in Jobs : reply[j] = "accepted" =>
          NumBlocks[HashOf[j]] # 0 /\ db[HashOf[j]].total = NumBlocks[HashOf[j]] - 1
    /\ \A h \in Hashes : Accepted(h) = {} => db[h].total = 0

\* A leaf asks for its proof at once.
LeavesDoNotAwait == \A t \in Tasks : IsLeaf(t) => task[t] \notin {"await_l", "await_r"}

\* The root, unless it is a leaf, looks up the block after the last chunk
\* before it asks for its fold.
RootInTrace ==
    \A j \in Jobs :
        /\ NumBlocks[HashOf[j]] # 0
        /\ ~IsLeaf(RootOf(j)) /\ task[RootOf(j)] \in {"send", "waiting", "done"}
        => HasBlock(j, 2 * Chunks(j) - 1)

\* Every submission has counted what it has folded, and no more than all
\* submissions together have folded is counted.
CountedAtLeast ==
    \A j \in Jobs : db[HashOf[j]].complete >=
        2 * Cardinality(Counting(j)) + (IF final[j] \in {"verify", "done"} THEN 1 ELSE 0)
CountedAtMost ==
    \A h \in Hashes : db[h].complete <=
        2 * Cardinality(MayHaveCounted(h)) + Cardinality(RootsCounted(h))

\* A stored proof was counted to the end by the job that stored it.
StoredWhenCounted == \A h \in Hashes : Stored(h) => db[h].complete >= NumBlocks[h] - 1

\* The invariant of the counting; it rests on WorkInv and FoldInv.
CountInv == /\ OnlyAccepted /\ LeavesDoNotAwait /\ RootInTrace
            /\ CountedAtLeast /\ CountedAtMost /\ StoredWhenCounted

-----------------------------------------------------------------------------

\* A proof that a client could fetch stays there, and the count never falls,
\* also when the same program is submitted again.
ProofKept ==
    [][\A h \in Hashes : /\ Stored(h) => db'[h].proof = db[h].proof
                         /\ db'[h].complete >= db[h].complete]_vars

-----------------------------------------------------------------------------
(* Liveness.                                                                *)

\* The proof of a program that has an entry, an accepted one, is stored in
\* the end.
ProofServed == \A h \in Hashes : db[h].known ~> Stored(h)

\* Nobody is left to take work from the PCD channel.
NoConsumer == /\ local = "ended"
              /\ \A p \in PcdPeers : proxy[p] \notin {"recv", "busy"}

Settled(j) == reply[j] = "accepted" => final[j] \in {"done", "panicked"} \/ NoConsumer

\* Every accepted job comes to an end, the second submission of a program
\* too: its last task stores the proof or panics.  As long as no connection
\* and no proof fails, the proof is stored; only when the last consumer of
\* the PCD channel is gone are tasks left waiting.
JobsSettle ==
    (\E h \in Hashes : db[h].known) ~>
        /\ \A j \in Jobs : Settled(j)
        /\ faults = 0 => \A h \in Hashes : db[h].known => Stored(h)

=============================================================================
