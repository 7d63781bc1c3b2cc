------------------------- MODULE ProofNetworkProofs -------------------------
(***************************************************************************)
(* Proofs about the proving network, for every number of jobs, blocks, PCD  *)
(* nodes, MSM nodes and faults.  WorkInv is inductive: no work is lost or    *)
(* done twice.  FoldInv on top of it: every proof on its way is whole, and   *)
(* so is the one that is stored, which then stays.  CountInv on top of both: *)
(* the counters agree, by the number of tasks of a job.                      *)
(***************************************************************************)
EXTENDS ProofNetwork, NatLemmas, FiniteSetTheorems, SequenceTheorems

USE DEF jobVars, queueVars, localVars, peerVars

\* A task is a triple, the empty work of an idle thread is not.
LEMMA NoTaskIsNoTask == NoTask \notin Tasks
  BY DEF NoTask, Tasks, TasksOf

\* A task belongs to one of the jobs.
LEMMA JobOfTask == \A t \in Tasks : Job(t) \in Jobs
  BY DEF Tasks, TasksOf, Job

\* What PcdProxyRecv and LocalRecv take from the channel: the head is one of
\* the tasks, and the rest holds every other task once.
LEMMA TakeHead ==
  ASSUME NEW q \in Seq(Tasks), q # <<>>,
         \A k, l \in 1 .. Len(q) : q[k] = q[l] => k = l
  PROVE  /\ Head(q) \in Tasks
         /\ Tail(q) \in Seq(Tasks)
         /\ \A t : (\E k \in 1 .. Len(Tail(q)) : Tail(q)[k] = t)
                      <=> (\E k \in 1 .. Len(q) : q[k] = t) /\ t # Head(q)
         /\ \E k \in 1 .. Len(q) : q[k] = Head(q)
         /\ \A k, l \in 1 .. Len(Tail(q)) : Tail(q)[k] = Tail(q)[l] => k = l
<1>1. /\ Len(q) \in Nat /\ Len(q) >= 1 /\ Head(q) = q[1] /\ Head(q) \in Tasks
      /\ Tail(q) \in Seq(Tasks) /\ Len(Tail(q)) = Len(q) - 1
      /\ \A k \in 1 .. Len(q) - 1 : Tail(q)[k] = q[k + 1]
  BY EmptySeq, HeadTailProperties
<1>2. ASSUME NEW t
      PROVE (\E k \in 1 .. Len(Tail(q)) : Tail(q)[k] = t)
                      <=> (\E k \in 1 .. Len(q) : q[k] = t) /\ t # Head(q)
  <2>1. ASSUME NEW k \in 1 .. Len(Tail(q)), Tail(q)[k] = t
        PROVE  (\E m \in 1 .. Len(q) : q[m] = t) /\ t # Head(q)
    <3>1. k + 1 \in 1 .. Len(q) /\ q[k + 1] = t /\ k + 1 # 1 /\ 1 \in 1 .. Len(q)
      BY <1>1, <2>1
    <3> QED BY <1>1, <3>1
  <2>2. ASSUME NEW k \in 1 .. Len(q), q[k] = t, t # Head(q)
        PROVE  \E m \in 1 .. Len(Tail(q)) : Tail(q)[m] = t
    <3>1. k - 1 \in 1 .. Len(Tail(q)) /\ Tail(q)[k - 1] = q[(k - 1) + 1] /\ (k - 1) + 1 = k
      BY <1>1, <2>2
    <3> QED BY <2>2, <3>1
  <2> QED BY <2>1, <2>2
<1>3. ASSUME NEW k \in 1 .. Len(Tail(q)), NEW l \in 1 .. Len(Tail(q)), Tail(q)[k] = Tail(q)[l]
      PROVE  k = l
  <2>1. k + 1 \in 1 .. Len(q) /\ l + 1 \in 1 .. Len(q) /\ q[k + 1] = q[l + 1]
    BY <1>1, <1>3
  <2>2. k + 1 = l + 1
    BY <2>1
  <2> QED BY <2>2, <1>1
<1>4. \E k \in 1 .. Len(q) : q[k] = Head(q)
  BY <1>1
<1> QED BY <1>1, <1>2, <1>3, <1>4

\* What SendWork does to the channel: work that was not in it is in it once.
LEMMA AppendOnce ==
  ASSUME NEW q \in Seq(Tasks), NEW w \in Tasks,
         \A k, l \in 1 .. Len(q) : q[k] = q[l] => k = l,
         ~\E k \in 1 .. Len(q) : q[k] = w
  PROVE  /\ Append(q, w) \in Seq(Tasks)
         /\ \A t : (\E k \in 1 .. Len(Append(q, w)) : Append(q, w)[k] = t)
                      <=> (\E k \in 1 .. Len(q) : q[k] = t) \/ t = w
         /\ \A k, l \in 1 .. Len(Append(q, w)) : Append(q, w)[k] = Append(q, w)[l] => k = l
<1>1. /\ Append(q, w) \in Seq(Tasks) /\ Len(q) \in Nat
      /\ Len(Append(q, w)) = Len(q) + 1
      /\ \A k \in 1 .. Len(q) : Append(q, w)[k] = q[k]
      /\ Append(q, w)[Len(q) + 1] = w
  BY AppendProperties, LenProperties
<1> QED BY <1>1

-----------------------------------------------------------------------------

\* The variables WorkInv speaks of.
workVars == <<reply, task, pcdQ, msmQ, local, localWork, msm, proxy, held>>

\* Steps of the database and of the connections leave the work alone.
LEMMA WorkFrame == ASSUME WorkInv, UNCHANGED workVars PROVE WorkInv'
  BY DEF WorkInv, workVars, ControlType, NothingBeforeSubmit, HoldersBusy, WorkInOnePlace,
         WaitingHasWork, NoWorkTwice, OneMsmRequest, InQueue, WithLocal, WithProxy, MsmBusy

\* When the coordinator starts there is no work.
LEMMA WorkInit == Init => WorkInv
<1> SUFFICES ASSUME Init PROVE WorkInv
  OBVIOUS
<1>1. ControlType /\ HoldersBusy /\ NothingBeforeSubmit
  <2>1. pcdQ \in Seq(Tasks)
    BY DEF Init
  <2> QED BY <2>1 DEF Init, ControlType, HoldersBusy, NothingBeforeSubmit, Peers, Job, Tasks, TasksOf
<1>2. Len(pcdQ) = 0
  BY DEF Init
<1>3. WaitingHasWork
  BY <1>2, NoTaskIsNoTask DEF Init, WaitingHasWork, InQueue, WithLocal, WithProxy, Peers
<1>4. NoWorkTwice
  BY <1>2, NoTaskIsNoTask DEF Init, NoWorkTwice, InQueue, WithLocal, WithProxy, Peers
<1>5. OneMsmRequest
  BY DEF Init, OneMsmRequest, MsmBusy
<1> QED BY <1>1, <1>3, <1>4, <1>5 DEF WorkInv, WorkInOnePlace

\* A step that leaves every piece of work where it is, and wakes or spawns
\* tasks that wait for no answer before and after it, keeps WorkInv.
LEMMA TaskMoves ==
  ASSUME WorkInv, ControlType', NothingBeforeSubmit',
         UNCHANGED <<pcdQ, msmQ, local, localWork, msm, proxy, held>>,
         \A t \in Tasks : task'[t] = "waiting" <=> task[t] = "waiting"
  PROVE  WorkInv'
  BY DEF WorkInv, HoldersBusy, WorkInOnePlace,
         WaitingHasWork, NoWorkTwice, OneMsmRequest, InQueue, WithLocal, WithProxy, MsmBusy

\* A request is answered: its tasks are spawned, none of which waits yet.
LEMMA SubmitWork == ASSUME WorkInv, NEW j \in Jobs, SubmitProgram(j) PROVE WorkInv'
<1>1. \A t \in Tasks : task'[t] = IF Job(t) # j THEN task[t]
                                 ELSE IF IsLeaf(t) THEN "send" ELSE "await_l"
  BY DEF SubmitProgram
<1>2. ControlType'
  BY DEF SubmitProgram, WorkInv, ControlType
<1>3. NothingBeforeSubmit'
  BY <1>1 DEF SubmitProgram, WorkInv, ControlType, NothingBeforeSubmit
<1>4. \A t \in Tasks : task'[t] = "waiting" <=> task[t] = "waiting"
  BY <1>1 DEF SubmitProgram, WorkInv, NothingBeforeSubmit
<1> QED BY <1>2, <1>3, <1>4, TaskMoves DEF SubmitProgram

\* A request that is refused spawns nothing.
LEMMA RefuseWork ==
  ASSUME WorkInv, NEW j \in Jobs, RejectProgram(j) \/ NotFound(j) PROVE WorkInv'
<1>1. ControlType'
  BY DEF RejectProgram, NotFound, WorkInv, ControlType
<1>2. NothingBeforeSubmit'
  BY JobOfTask DEF RejectProgram, NotFound, WorkInv, ControlType, NothingBeforeSubmit
<1> QED BY <1>1, <1>2, TaskMoves DEF RejectProgram, NotFound

\* A task that has waited for its children goes on, or panics with them.
LEMMA AwaitWork ==
  ASSUME WorkInv, NEW t \in Tasks, AwaitLeft(t) \/ AwaitRight(t) \/ AwaitRightPanics(t)
  PROVE  WorkInv'
<1>1. PICK s \in {"await_r", "send", "panicked"} : task' = [task EXCEPT ![t] = s]
  BY DEF AwaitLeft, AwaitRight, AwaitRightPanics
<1>2. task[t] \in {"await_l", "await_r"} /\ reply' = reply
  BY DEF AwaitLeft, AwaitRight, AwaitRightPanics
<1>3. UNCHANGED <<pcdQ, msmQ, local, localWork, msm, proxy, held>>
  BY DEF AwaitLeft, AwaitRight, AwaitRightPanics
<1>4. ControlType'
  BY <1>1, <1>2, <1>3 DEF WorkInv, ControlType
<1>5. NothingBeforeSubmit'
  BY <1>1, <1>2 DEF WorkInv, ControlType, NothingBeforeSubmit
<1>6. \A u \in Tasks : task'[u] = "waiting" <=> task[u] = "waiting"
  BY <1>1, <1>2 DEF WorkInv, ControlType
<1> QED BY <1>3, <1>4, <1>5, <1>6, TaskMoves

\* request_work puts the work of a task that did not wait into the channel.
LEMMA SendWorkKeeps == ASSUME WorkInv, NEW t \in Tasks, SendWork(t) PROVE WorkInv'
<1> USE DEF SendWork, WorkInv, ControlType
<1>1. ~InQueue(t) /\ ~WithLocal(t) /\ ~WithProxy(t)
  BY DEF WorkInOnePlace, WaitingHasWork
<1>2. /\ pcdQ' \in Seq(Tasks)
      /\ \A u : InQueue(u)' <=> InQueue(u) \/ u = t
      /\ \A k, l \in 1 .. Len(pcdQ') : pcdQ'[k] = pcdQ'[l] => k = l
  BY <1>1, AppendOnce DEF WorkInOnePlace, NoWorkTwice, InQueue
<1>3. ControlType' /\ NothingBeforeSubmit' /\ HoldersBusy'
  BY <1>2 DEF NothingBeforeSubmit, HoldersBusy
<1>4. \A u \in Tasks : /\ task'[u] = "waiting" <=> task[u] = "waiting" \/ u = t
                       /\ WithLocal(u)' <=> WithLocal(u)
                       /\ WithProxy(u)' <=> WithProxy(u)
  BY DEF WithLocal, WithProxy
<1>5. WaitingHasWork'
  BY <1>2, <1>4 DEF WaitingHasWork, WorkInOnePlace
<1>6. NoWorkTwice'
  BY <1>1, <1>2, <1>4 DEF NoWorkTwice, WorkInOnePlace
<1>7. OneMsmRequest'
  BY DEF OneMsmRequest, WorkInOnePlace, MsmBusy
<1> QED BY <1>3, <1>5, <1>6, <1>7 DEF WorkInOnePlace

\* The same for the channel of PCD work.
LEMMA TakeWork ==
  ASSUME WorkInv, pcdQ # <<>>, pcdQ' = Tail(pcdQ)
  PROVE  /\ Head(pcdQ) \in Tasks
         /\ pcdQ' \in Seq(Tasks)
         /\ \A u : InQueue(u)' <=> InQueue(u) /\ u # Head(pcdQ)
         /\ InQueue(Head(pcdQ))
         /\ \A k, l \in 1 .. Len(pcdQ') : pcdQ'[k] = pcdQ'[l] => k = l
<1>1. /\ pcdQ \in Seq(Tasks)
      /\ \A k, l \in 1 .. Len(pcdQ) : pcdQ[k] = pcdQ[l] => k = l
  BY DEF WorkInv, ControlType, WorkInOnePlace, NoWorkTwice
<1>2. /\ Head(pcdQ) \in Tasks
      /\ Tail(pcdQ) \in Seq(Tasks)
      /\ \A t : (\E k \in 1 .. Len(Tail(pcdQ)) : Tail(pcdQ)[k] = t)
                   <=> (\E k \in 1 .. Len(pcdQ) : pcdQ[k] = t) /\ t # Head(pcdQ)
      /\ \E k \in 1 .. Len(pcdQ) : pcdQ[k] = Head(pcdQ)
      /\ \A k, l \in 1 .. Len(Tail(pcdQ)) : Tail(pcdQ)[k] = Tail(pcdQ)[l] => k = l
    BY <1>1, TakeHead
<1> QED BY <1>2 DEF InQueue

-----------------------------------------------------------------------------
(* local_pcd.                                                               *)

\* The work leaves the channel and is with local_pcd.
LEMMA LocalRecvKeeps == ASSUME WorkInv, LocalRecv PROVE WorkInv'
<1> USE DEF LocalRecv, WorkInv, ControlType
<1>1. /\ localWork' \in Tasks
      /\ pcdQ' \in Seq(Tasks)
      /\ \A u : InQueue(u)' <=> InQueue(u) /\ u # localWork'
      /\ InQueue(localWork')
      /\ \A k, l \in 1 .. Len(pcdQ') : pcdQ'[k] = pcdQ'[l] => k = l
  BY TakeWork
<1>2. ControlType' /\ NothingBeforeSubmit' /\ HoldersBusy'
  BY <1>1, NoTaskIsNoTask DEF NothingBeforeSubmit, HoldersBusy
<1>3. \A u \in Tasks : /\ ~WithLocal(u)
                       /\ WithLocal(u)' <=> u = localWork'
                       /\ WithProxy(u)' <=> WithProxy(u)
  BY NoTaskIsNoTask DEF WithLocal, WithProxy, HoldersBusy
<1>4. WaitingHasWork'
  BY <1>1, <1>3 DEF WaitingHasWork, WorkInOnePlace
<1>5. NoWorkTwice'
  BY <1>1, <1>3 DEF NoWorkTwice, WorkInOnePlace
<1>6. OneMsmRequest'
  BY DEF OneMsmRequest, WorkInOnePlace, MsmBusy
<1> QED BY <1>2, <1>4, <1>5, <1>6 DEF WorkInOnePlace

\* local_pcd lets go of its work, answered or dropped: the task no longer
\* waits.
LEMMA LocalReleases ==
  ASSUME WorkInv, NEW s \in {"done", "panicked"}, NEW at \in {"recv", "ended"},
         local \in {"prove", "reply", "msm_lost"}, local' = at, localWork' = NoTask,
         task' = [task EXCEPT ![localWork] = s],
         UNCHANGED <<reply, pcdQ, msmQ, msm, proxy, held>>
  PROVE  WorkInv'
<1> USE DEF WorkInv, ControlType
<1>1. localWork \in Tasks
  BY DEF HoldersBusy
<1>2. ControlType' /\ HoldersBusy'
  BY <1>1 DEF HoldersBusy
<1>3. task[localWork] = "waiting"
  BY <1>1 DEF WorkInOnePlace, WaitingHasWork, WithLocal
<1>4. NothingBeforeSubmit'
  BY <1>1, <1>3 DEF NothingBeforeSubmit
<1>5. \A u \in Tasks : /\ task'[u] = "waiting" <=> task[u] = "waiting" /\ u # localWork
                       /\ InQueue(u)' <=> InQueue(u)
                       /\ ~WithLocal(u)' /\ (WithLocal(u) <=> u = localWork)
                       /\ WithProxy(u)' <=> WithProxy(u)
  BY <1>1, NoTaskIsNoTask DEF InQueue, WithLocal, WithProxy
<1>6. WaitingHasWork'
  BY <1>5 DEF WaitingHasWork, NoWorkTwice, WorkInOnePlace
<1>7. NoWorkTwice'
  BY <1>5 DEF NoWorkTwice, WorkInOnePlace
<1>8. OneMsmRequest'
  BY DEF OneMsmRequest, WorkInOnePlace, MsmBusy
<1> QED BY <1>2, <1>4, <1>6, <1>7, <1>8 DEF WorkInOnePlace

\* The MSM request moves, local_pcd keeping its work: only the MSM part has to
\* be looked at.
LEMMA MsmMoves ==
  ASSUME WorkInv, ControlType', HoldersBusy', OneMsmRequest',
         UNCHANGED <<reply, task, pcdQ, localWork, held>>
  PROVE  WorkInv'
  BY DEF WorkInv, NothingBeforeSubmit, WorkInOnePlace, WaitingHasWork, NoWorkTwice,
         InQueue, WithLocal, WithProxy

\* Every step of local_pcd and of local_msm.
LEMMA ThreadsKeep ==
  ASSUME WorkInv, LocalStep \/ LocalProveFails \/ MsmStep PROVE WorkInv'
<1>1. CASE LocalRecv
  BY <1>1, LocalRecvKeeps
<1>2. CASE LocalRequestMsm
  <2>1. ControlType' /\ HoldersBusy'
    BY <1>2 DEF LocalRequestMsm, WorkInv, ControlType, HoldersBusy
  <2>2. msmQ = 0 /\ msm # "commit" /\ \A p \in Peers : ~MsmBusy(p)
    BY <1>2 DEF LocalRequestMsm, WorkInv, ControlType, WorkInOnePlace, OneMsmRequest
  <2>3. OneMsmRequest'
    BY <1>2, <2>2 DEF LocalRequestMsm, OneMsmRequest, MsmBusy
  <2> QED BY <1>2, <2>1, <2>3, MsmMoves DEF LocalRequestMsm
<1>3. CASE LocalReply
  BY <1>3, LocalReleases DEF LocalReply, Respond
<1>4. CASE LocalPanics
  BY <1>4, LocalReleases DEF LocalPanics, Drop
<1>5. CASE LocalProveFails
  BY <1>5, LocalReleases DEF LocalProveFails, Drop
<1>6. CASE MsmRecv
  <2>1. ControlType' /\ HoldersBusy'
    BY <1>6 DEF MsmRecv, WorkInv, ControlType, HoldersBusy
  <2>2. OneMsmRequest'
    BY <1>6 DEF MsmRecv, WorkInv, ControlType, WorkInOnePlace, OneMsmRequest, MsmBusy
  <2> QED BY <1>6, <2>1, <2>2, MsmMoves DEF MsmRecv
<1>7. CASE MsmReply
  <2>1. local = "msm"
    BY <1>7 DEF MsmReply, WorkInv, WorkInOnePlace, OneMsmRequest
  <2>2. ControlType' /\ HoldersBusy'
    BY <1>7, <2>1 DEF MsmReply, WorkInv, ControlType, HoldersBusy
  <2>3. OneMsmRequest'
    BY <1>7 DEF MsmReply, WorkInv, ControlType, WorkInOnePlace, OneMsmRequest, MsmBusy
  <2> QED BY <1>7, <2>2, <2>3, MsmMoves DEF MsmReply
<1> QED BY <1>1, <1>2, <1>3, <1>4, <1>5, <1>6, <1>7 DEF LocalStep, MsmStep

-----------------------------------------------------------------------------
(* The connected nodes.                                                     *)

\* The work leaves the channel and is with one proxy.
LEMMA PcdProxyRecvKeeps == ASSUME WorkInv, NEW p \in Peers, PcdProxyRecv(p) PROVE WorkInv'
<1> USE DEF PcdProxyRecv, WorkInv, ControlType
<1> DEFINE w == Head(pcdQ)
<1>1. /\ w \in Tasks
      /\ pcdQ' \in Seq(Tasks)
      /\ \A u : InQueue(u)' <=> InQueue(u) /\ u # w
      /\ InQueue(w)
      /\ \A k, l \in 1 .. Len(pcdQ') : pcdQ'[k] = pcdQ'[l] => k = l
  BY TakeWork
<1> HIDE DEF w
<1>2. held[p] = NoTask /\ held' = [held EXCEPT ![p] = w] /\ p \in PcdPeers
  BY DEF HoldersBusy, w
<1>3. ControlType' /\ NothingBeforeSubmit' /\ HoldersBusy'
  BY <1>1, <1>2, NoTaskIsNoTask DEF NothingBeforeSubmit, HoldersBusy, Peers
<1>4. \A u \in Tasks : /\ WithLocal(u)' <=> WithLocal(u)
                       /\ WithProxy(u)' <=> WithProxy(u) \/ u = w
  BY <1>1, <1>2, NoTaskIsNoTask DEF WithLocal, WithProxy, Peers
<1>5. WaitingHasWork'
  BY <1>1, <1>4 DEF WaitingHasWork, WorkInOnePlace
<1>6. NoWorkTwice'
  <2>1. \A q \in PcdPeers : held[q] # w
    BY <1>1 DEF NoWorkTwice, WorkInOnePlace, WithProxy
  <2>2. \A q, r \in PcdPeers : held'[q] # NoTask /\ held'[q] = held'[r] => q = r
    BY <1>2, <2>1 DEF NoWorkTwice, WorkInOnePlace, Peers
  <2> QED BY <1>1, <1>4, <2>2 DEF NoWorkTwice, WorkInOnePlace
<1>7. OneMsmRequest'
  <2>1. \A q \in Peers : MsmBusy(q)' <=> MsmBusy(q)
    BY <1>2, NetworkAssumption DEF MsmBusy
  <2> QED BY <2>1 DEF OneMsmRequest, WorkInOnePlace
<1> QED BY <1>3, <1>5, <1>6, <1>7 DEF WorkInOnePlace

\* A proxy lets go of its work, answered or dropped.
LEMMA PcdProxyReleases ==
  ASSUME WorkInv, NEW p \in Peers, PcdProxyReply(p) \/ PcdProxyFails(p) PROVE WorkInv'
<1> USE DEF WorkInv, ControlType
<1> DEFINE w == held[p]
<1>1. /\ p \in PcdPeers /\ proxy[p] = "busy"
      /\ held' = [held EXCEPT ![p] = NoTask]
      /\ UNCHANGED <<reply, pcdQ, msmQ, local, localWork, msm>>
  BY DEF PcdProxyReply, PcdProxyFails
<1>2. PICK s \in {"done", "panicked"} : task' = [task EXCEPT ![w] = s]
  BY DEF PcdProxyReply, PcdProxyFails, Respond, Drop
<1>3. PICK x \in {"recv", "ended"} : proxy' = [proxy EXCEPT ![p] = x]
  BY DEF PcdProxyReply, PcdProxyFails
<1>4. w \in Tasks
  BY <1>1 DEF HoldersBusy
<1>5. task[w] = "waiting"
  BY <1>1, <1>4 DEF WorkInOnePlace, WaitingHasWork, WithProxy
<1>6. ControlType' /\ NothingBeforeSubmit' /\ HoldersBusy'
  BY <1>1, <1>2, <1>3, <1>4, <1>5 DEF NothingBeforeSubmit, HoldersBusy, Peers
<1>7. \A u \in Tasks : /\ task'[u] = "waiting" <=> task[u] = "waiting" /\ u # w
                       /\ InQueue(u)' <=> InQueue(u)
                       /\ WithLocal(u)' <=> WithLocal(u)
  BY <1>1, <1>2, <1>4 DEF InQueue, WithLocal
<1>8. \A u \in Tasks : WithProxy(u)' <=> WithProxy(u) /\ u # w
  <2>1. \A q \in PcdPeers : q # p => held[q] # w
    BY <1>1, <1>4, NoTaskIsNoTask DEF WorkInOnePlace, NoWorkTwice
  <2>2. \A q \in PcdPeers : held'[q] = IF q = p THEN NoTask ELSE held[q]
    BY <1>1 DEF Peers
  <2> QED BY <2>1, <2>2, <1>1, NoTaskIsNoTask DEF WithProxy
<1>9. WithProxy(w)
  BY <1>1 DEF WithProxy
<1>10. WaitingHasWork'
  BY <1>4, <1>7, <1>8, <1>9 DEF WaitingHasWork, NoWorkTwice, WorkInOnePlace
<1>11. NoWorkTwice'
  <2>1. \A q, r \in PcdPeers : held'[q] # NoTask /\ held'[q] = held'[r] => q = r
    BY <1>1 DEF NoWorkTwice, WorkInOnePlace, Peers
  <2> QED BY <1>1, <1>7, <1>8, <2>1 DEF NoWorkTwice, WorkInOnePlace
<1>12. OneMsmRequest'
  <2>1. \A q \in Peers : MsmBusy(q)' <=> MsmBusy(q)
    BY <1>1, <1>3, NetworkAssumption DEF MsmBusy
  <2> QED BY <1>1, <2>1 DEF OneMsmRequest, WorkInOnePlace
<1> QED BY <1>6, <1>10, <1>11, <1>12 DEF WorkInOnePlace

\* A proxy takes, answers or loses the MSM request.
LEMMA MsmProxyKeeps ==
  ASSUME WorkInv, NEW p \in Peers, MsmProxyRecv(p) \/ MsmProxyReply(p) \/ MsmProxyFails(p)
  PROVE  WorkInv'
<1>1. /\ p \in MsmPeers /\ p \notin PcdPeers
      /\ UNCHANGED <<reply, task, pcdQ, localWork, msm, held>>
  BY NetworkAssumption DEF MsmProxyRecv, MsmProxyReply, MsmProxyFails
<1>2. CASE MsmProxyRecv(p)
  <2>1. ControlType' /\ HoldersBusy'
    BY <1>1, <1>2 DEF MsmProxyRecv, WorkInv, ControlType, HoldersBusy, Peers
  <2>2. msmQ = 1 /\ msmQ' = 0 /\ local' = local
    BY <1>2 DEF MsmProxyRecv, WorkInv, ControlType, WorkInOnePlace, OneMsmRequest
  <2>3. \A q \in Peers : MsmBusy(q)' <=> q = p
    BY <1>1, <1>2, <2>2 DEF MsmProxyRecv, WorkInv, ControlType, WorkInOnePlace, OneMsmRequest, MsmBusy
  <2>4. OneMsmRequest'
    BY <1>1, <2>2, <2>3 DEF WorkInv, WorkInOnePlace, OneMsmRequest
  <2> QED BY <1>1, <2>1, <2>4, MsmMoves
<1>3. CASE MsmProxyReply(p) \/ MsmProxyFails(p)
  <2>1. MsmBusy(p) /\ msmQ' = msmQ /\ local' \in {"reply", "msm_lost"}
    BY <1>1, <1>3 DEF MsmProxyReply, MsmProxyFails, MsmBusy
  <2>2. local = "msm" /\ msm # "commit" /\ msmQ = 0
    BY <2>1 DEF WorkInv, ControlType, WorkInOnePlace, OneMsmRequest
  <2>3. PICK x \in {"recv", "ended"} : proxy' = [proxy EXCEPT ![p] = x]
    BY <1>3 DEF MsmProxyReply, MsmProxyFails
  <2>4. ControlType' /\ HoldersBusy'
    BY <1>1, <2>1, <2>2, <2>3 DEF WorkInv, ControlType, HoldersBusy, Peers
  <2>5. \A q \in Peers : ~MsmBusy(q)'
    BY <2>1, <2>3 DEF WorkInv, ControlType, WorkInOnePlace, OneMsmRequest, MsmBusy
  <2>6. OneMsmRequest'
    BY <1>1, <2>1, <2>2, <2>5 DEF OneMsmRequest
  <2> QED BY <1>1, <2>4, <2>6, MsmMoves
<1> QED BY <1>2, <1>3

\* A node connects: its proxy starts idle.
LEMMA ConnectKeeps == ASSUME WorkInv, NEW p \in Peers, Connect(p) PROVE WorkInv'
<1>1. ControlType' /\ HoldersBusy'
  BY DEF Connect, WorkInv, ControlType, HoldersBusy, Peers
<1>2. \A q \in Peers : MsmBusy(q)' <=> MsmBusy(q)
  BY DEF Connect, WorkInv, ControlType, MsmBusy
<1>3. OneMsmRequest'
  BY <1>2 DEF Connect, WorkInv, WorkInOnePlace, OneMsmRequest
<1> QED BY <1>1, <1>3, MsmMoves DEF Connect

-----------------------------------------------------------------------------

\* Every step of the coordinator, its tasks, its threads and its connections
\* keeps the invariant.
LEMMA WorkNext == WorkInv /\ [Next]_vars => WorkInv'
<1> SUFFICES ASSUME WorkInv, [Next]_vars PROVE WorkInv'
  OBVIOUS
<1>1. CASE UNCHANGED vars
  BY <1>1, WorkFrame DEF vars, workVars
<1>2. ASSUME NEW j \in Jobs, SubmitProgram(j) PROVE WorkInv'
  BY <1>2, SubmitWork
<1>3. ASSUME NEW j \in Jobs, RejectProgram(j) \/ NotFound(j) PROVE WorkInv'
  BY <1>3, RefuseWork
<1>4. ASSUME NEW j \in Jobs, FinalStep(j) PROVE WorkInv'
  BY <1>4, WorkFrame DEF FinalStep, AwaitRoot, AwaitRootPanics, StoreProof, workVars
<1>5. ASSUME NEW t \in Tasks, TaskStep(t) PROVE WorkInv'
  BY <1>5, SendWorkKeeps, AwaitWork DEF TaskStep
<1>6. CASE LocalStep \/ LocalProveFails \/ MsmStep
  BY <1>6, ThreadsKeep
<1>7. ASSUME NEW p \in Peers, Connect(p) PROVE WorkInv'
  BY <1>7, ConnectKeeps
<1>8. ASSUME NEW p \in Peers, Disconnect(p) PROVE WorkInv'
  BY <1>8, WorkFrame DEF Disconnect, workVars
<1>9. ASSUME NEW p \in Peers, ProxyStep(p) PROVE WorkInv'
  BY <1>9, PcdProxyRecvKeeps, PcdProxyReleases, MsmProxyKeeps DEF ProxyStep
<1> QED BY <1>1, <1>2, <1>3, <1>4, <1>5, <1>6, <1>7, <1>8, <1>9 DEF Next

\* Work in flight is never lost and never answered twice: in every reachable
\* state a task that awaits its oneshot has its work in exactly one place, the
\* channel, local_pcd or one proxy of bin::upgrade, and local_pcd blocks on
\* exactly one MSM request.
THEOREM WorkInOnePlaceHolds == Spec => []WorkInOnePlace
<1>1. WorkInv => WorkInOnePlace
  BY DEF WorkInv
<1> QED BY <1>1, WorkInit, WorkNext, PTL DEF Spec

-----------------------------------------------------------------------------
(* The tree of tasks of a job.                                              *)

\* split_by(2) on a trace that is not empty gives at least one chunk.
LEMMA ChunksPositive ==
  ASSUME NEW j \in Jobs
  PROVE  /\ Chunks(j) \in Nat
         /\ NumBlocks[HashOf[j]] # 0 <=> Chunks(j) # 0
<1>1. NumBlocks[HashOf[j]] \in Nat
  BY NetworkAssumption
<1> QED BY <1>1 DEF Chunks

\* The number of chunks of a trace is a power of two: the levels are the exponents up to it,
\* and the widths the powers of two below it.
LEMMA LevelsAre ==
  ASSUME NEW j \in Jobs, Chunks(j) # 0
  PROVE  \E e \in Nat : /\ Chunks(j) = TwoTo[e]
                         /\ \A lev \in Nat : /\ lev \in Levels(j) <=> lev <= e
                                             /\ lev <= e => Width(j, lev) = TwoTo[e - lev]
<1>1. Chunks(j) \in Nat /\ IsPowerOfTwo(Chunks(j))
  BY ChunksPositive, PairingAssumption
<1>2. PICK e \in Nat : Chunks(j) = TwoTo[e]
  BY <1>1, PowerOfTwoIs
<1>3. ASSUME NEW lev \in Nat
      PROVE  lev \in Levels(j) <=> lev <= e
  <2>1. TwoTo[lev] \in Nat \ {0} /\ lev < TwoTo[lev] /\ TwoTo[e] \in Nat \ {0}
    BY TwoToPositive
  <2>2. lev < e => 2 * TwoTo[lev] <= TwoTo[e]
    BY TwoToMonotone
  <2>3. e < lev => 2 * TwoTo[e] <= TwoTo[lev]
    BY TwoToMonotone
  <2>4. lev <= e <=> TwoTo[lev] <= TwoTo[e]
    <3>1. lev < e \/ lev = e \/ e < lev
      OBVIOUS
    <3> QED BY <2>1, <2>2, <2>3, <3>1
  <2> QED BY <1>1, <1>2, <2>1, <2>4 DEF Levels
<1>4. ASSUME NEW lev \in Nat, lev <= e
      PROVE  Width(j, lev) = TwoTo[e - lev]
  BY <1>2, <1>4, TwoToDiv DEF Width
<1> QED BY <1>2, <1>3, <1>4

\* Each level has twice the width of the next, and the last one has one task.
LEMMA LevelsPair ==
  ASSUME NEW j \in Jobs, Chunks(j) # 0
  PROVE  /\ \A lev \in Levels(j) :
                /\ Width(j, lev) \in 1 .. Chunks(j)
                /\ lev # 0 => lev - 1 \in Levels(j) /\ Width(j, lev - 1) = 2 * Width(j, lev)
         /\ \E lev \in Levels(j) : Width(j, lev) = 1
<1>1. PICK e \in Nat : /\ Chunks(j) = TwoTo[e]
                       /\ \A lev \in Nat : /\ lev \in Levels(j) <=> lev <= e
                                           /\ lev <= e => Width(j, lev) = TwoTo[e - lev]
  BY LevelsAre
<1>2. ASSUME NEW lev \in Levels(j)
      PROVE  /\ Width(j, lev) \in 1 .. Chunks(j)
             /\ lev # 0 => lev - 1 \in Levels(j) /\ Width(j, lev - 1) = 2 * Width(j, lev)
  <2>1. lev \in Nat /\ lev <= e /\ e - lev \in Nat
    BY <1>1, ChunksPositive DEF Levels
  <2>2. Width(j, lev) = TwoTo[e - lev] /\ TwoTo[e - lev] \in Nat \ {0} /\ TwoTo[e] \in Nat
    BY <1>1, <2>1, TwoToPositive
  <2>3. e - lev < e => 2 * TwoTo[e - lev] <= TwoTo[e]
    BY <2>1, TwoToMonotone
  <2>4. Width(j, lev) \in 1 .. Chunks(j)
    <3>1. e - lev < e \/ e - lev = e
      BY <2>1
    <3> QED BY <1>1, <2>2, <2>3, <3>1
  <2>5. ASSUME lev # 0
        PROVE  lev - 1 \in Levels(j) /\ Width(j, lev - 1) = 2 * Width(j, lev)
    <3>1. lev - 1 \in Nat /\ lev - 1 <= e /\ e - (lev - 1) = (e - lev) + 1
      BY <2>1, <2>5
    <3>2. TwoTo[(e - lev) + 1] = 2 * TwoTo[e - lev]
      BY <2>1, TwoToDef
    <3> QED BY <1>1, <2>2, <3>1, <3>2
  <2> QED BY <2>4, <2>5
<1>3. e \in Levels(j) /\ Width(j, e) = 1
  <2>1. e - e = 0 /\ e <= e
    OBVIOUS
  <2> QED BY <1>1, <2>1, TwoToDef
<1> QED BY <1>2, <1>3

\* A task is a job, a level and a position in it.
LEMMA TaskParts ==
  ASSUME NEW t \in Tasks
  PROVE  /\ t = <<t[1], t[2], t[3]>> /\ t[1] \in Jobs /\ Job(t) = t[1]
         /\ Chunks(t[1]) \in Nat \ {0} /\ t[2] \in Levels(t[1]) /\ t[2] \in Nat
         /\ t[3] \in Nat /\ t[3] < Width(t[1], t[2]) /\ Width(t[1], t[2]) \in 1 .. Chunks(t[1])
<1>1. PICK j \in Jobs : t \in {j} \X Levels(j) \X (0 .. Chunks(j)) /\ t[3] < Width(j, t[2])
  BY DEF Tasks, TasksOf
<1>2. t = <<t[1], t[2], t[3]>> /\ t[1] = j /\ t[2] \in Levels(j) /\ t[3] \in 0 .. Chunks(j)
  BY <1>1
<1>3. Chunks(j) \in Nat /\ t[2] \in 0 .. Chunks(j) /\ TwoTo[t[2]] <= Chunks(j)
  BY <1>2, ChunksPositive DEF Levels
<1>4. Chunks(j) # 0
  <2> SUFFICES ASSUME Chunks(j) = 0 PROVE FALSE
    OBVIOUS
  <2>1. t[2] = 0
    BY <1>3
  <2>2. TwoTo[0] <= 0
    BY <1>3, <2>1
  <2> QED BY <2>2, TwoToDef
<1> QED BY <1>1, <1>2, <1>3, <1>4, LevelsPair DEF Job

\* Conversely, every position of a level is a task.
LEMMA TaskAt ==
  ASSUME NEW j \in Jobs, NEW lev \in Levels(j), NEW k \in Nat, Chunks(j) # 0, k < Width(j, lev)
  PROVE  <<j, lev, k>> \in Tasks
<1>1. Width(j, lev) \in 1 .. Chunks(j) /\ Chunks(j) \in Nat
  BY LevelsPair, ChunksPositive
<1>2. k \in 0 .. Chunks(j)
  BY <1>1
<1>3. <<j, lev, k>> \in TasksOf(j)
  BY <1>2 DEF TasksOf
<1> QED BY <1>3 DEF Tasks

\* The two handles a task of manage_proof awaits belong to tasks of the level below.
LEMMA TaskChildren ==
  ASSUME NEW t \in Tasks, ~IsLeaf(t)
  PROVE  /\ LeftOf(t) \in Tasks /\ RightOf(t) \in Tasks
         /\ Width(t[1], t[2] - 1) = 2 * Width(t[1], t[2])
<1>1. /\ t[1] \in Jobs /\ Chunks(t[1]) \in Nat \ {0} /\ t[2] \in Levels(t[1]) \ {0} /\ t[3] \in Nat
      /\ t[3] < Width(t[1], t[2]) /\ Width(t[1], t[2]) \in 1 .. Chunks(t[1])
  BY TaskParts DEF IsLeaf
<1>2. t[2] - 1 \in Levels(t[1]) /\ Width(t[1], t[2] - 1) = 2 * Width(t[1], t[2])
  BY <1>1, LevelsPair
<1>3. /\ 2 * t[3] \in Nat /\ 2 * t[3] < Width(t[1], t[2] - 1)
      /\ 2 * t[3] + 1 \in Nat /\ 2 * t[3] + 1 < Width(t[1], t[2] - 1)
  BY <1>1, <1>2
<1> QED BY <1>1, <1>2, <1>3, TaskAt DEF LeftOf, RightOf

\* The children of a task are neighbours, and so are the right child of a task and the left
\* child of its neighbour.
LEMMA TaskNeighbours ==
  ASSUME NEW t \in Tasks
  PROVE  /\ RightOf(t) = NextTo(LeftOf(t))
         /\ LeftOf(NextTo(t)) = NextTo(RightOf(t))
         /\ IsLeaf(NextTo(t)) <=> IsLeaf(t)
<1>1. t[3] \in Nat
  BY TaskParts
<1>2. 2 * (t[3] + 1) = (2 * t[3] + 1) + 1
  BY <1>1
<1> QED BY <1>2 DEF LeftOf, RightOf, NextTo, IsLeaf

\* The leaves are the chunks.
LEMMA LeafWidth == \A j \in Jobs : Width(j, 0) = Chunks(j)
<1> SUFFICES ASSUME NEW j \in Jobs PROVE Width(j, 0) = Chunks(j)
  OBVIOUS
<1>1. Chunks(j) \in Nat /\ TwoTo[0] = 1
  BY ChunksPositive, TwoToDef
<1> QED BY <1>1 DEF Width

\* The handle that is left when the loop of manage_proof ends.
LEMMA TaskRoot ==
  ASSUME NEW j \in Jobs, NumBlocks[HashOf[j]] # 0
  PROVE  /\ RootOf(j) \in Tasks /\ Job(RootOf(j)) = j
         /\ RootOf(j)[3] = 0 /\ Width(j, RootOf(j)[2]) = 1
<1>1. PICK lev \in Levels(j) : Width(j, lev) = 1
  BY ChunksPositive, LevelsPair
<1>2. <<j, lev, 0>> \in TasksOf(j)
  BY <1>1, ChunksPositive DEF TasksOf
<1>3. RootOf(j) \in TasksOf(j) /\ Width(j, RootOf(j)[2]) = 1
  <2>1. \E t \in TasksOf(j) : Width(j, t[2]) = 1
    BY <1>1, <1>2
  <2> QED BY <2>1 DEF RootOf
<1>4. RootOf(j)[3] \in 0 .. Chunks(j) /\ RootOf(j)[3] < 1 /\ RootOf(j)[1] = j
  BY <1>3 DEF TasksOf
<1> QED BY <1>3, <1>4, ChunksPositive DEF Tasks, Job

-----------------------------------------------------------------------------
(* The folding.                                                             *)

\* A step that finishes no task and changes no node leaves the tree of nodes as it was.
LEMMA TreeKept ==
  ASSUME FoldInv, node' = node,
         \A t \in Tasks : task'[t] = "done" <=> task[t] = "done",
         \A t \in Tasks : ~IsLeaf(t) =>
             /\ task'[t] \in {"await_r", "send", "waiting", "done"} => task[LeftOf(t)] = "done"
             /\ task'[t] \in {"send", "waiting", "done"} => task[RightOf(t)] = "done"
  PROVE  ChildrenDone' /\ NodesRight' /\ NeighboursMeet' /\ (node \in [Tasks -> NodeType])'
<1>1. ChildrenDone'
  BY TaskChildren DEF ChildrenDone
<1>2. NodesRight' /\ NeighboursMeet'
  BY DEF FoldInv, NodesRight, NodeRight, NeighboursMeet
<1> QED BY <1>1, <1>2 DEF FoldInv

\* The last tasks of manage_proof, when no task that was done is undone.
LEMMA FinalKept ==
  ASSUME FoldInv, UNCHANGED <<reply, final>>,
         \A t \in Tasks : task[t] = "done" => task'[t] = "done"
  PROVE  FinalRight' /\ (final \in [Jobs -> {"unborn", "await", "verify", "done", "panicked"}])'
BY TaskRoot DEF FoldInv, FinalRight

\* The database, when it is not written.
LEMMA DbKept == ASSUME FoldInv, db' = db PROVE DbType' /\ DbRight'
BY DEF FoldInv, DbType, DbRight

\* update_complete leaves the stored proofs alone, and no count falls.
LEMMA CountKept ==
  ASSUME FoldInv, NEW h \in Hashes, NEW n \in Nat, UpdateComplete(h, n)
  PROVE  /\ DbType' /\ DbRight'
         /\ \A g \in Hashes : db'[g].proof = db[g].proof /\ db'[g].complete >= db[g].complete
<1>1. /\ db \in [Hashes -> [known : BOOLEAN, total : Nat, complete : Nat, proof : NodeType]]
      /\ db' = [db EXCEPT ![h].complete = @ + n]
  BY DEF FoldInv, DbType, UpdateComplete
<1>2. DbType'
  BY <1>1 DEF DbType
<1>3. \A g \in Hashes : db'[g].proof = db[g].proof /\ db'[g].complete >= db[g].complete
  BY <1>1
<1>4. DbRight'
  BY <1>3, NetworkAssumption DEF FoldInv, DbRight
<1> QED BY <1>2, <1>3, <1>4

\* So does new_proof, also when the entry is already there.
LEMMA EntryKept ==
  ASSUME FoldInv, NEW h \in Hashes, NEW n \in Nat, NewProof(h, n)
  PROVE  /\ DbType' /\ DbRight'
         /\ \A g \in Hashes : db'[g].proof = db[g].proof /\ db'[g].complete >= db[g].complete
<1>1. /\ db \in [Hashes -> [known : BOOLEAN, total : Nat, complete : Nat, proof : NodeType]]
      /\ db' = [db EXCEPT ![h].known = TRUE, ![h].total = n]
  BY DEF FoldInv, DbType, NewProof
<1>2. DbType'
  BY <1>1 DEF DbType
<1>3. \A g \in Hashes : db'[g].proof = db[g].proof /\ db'[g].complete >= db[g].complete
  BY <1>1
<1>4. DbRight'
  BY <1>3, NetworkAssumption DEF FoldInv, DbRight
<1> QED BY <1>2, <1>3, <1>4

\* A task that waits is answered: a leaf gets the node of its chunk, any other task the
\* fold of its children's nodes, between which exactly one block is missing.
LEMMA ProveRight ==
  ASSUME FoldInv, NEW t \in Tasks, task[t] = "waiting"
  PROVE  \E a, b \in Nat :
            /\ Prove(t) = Claim(a, b)
            /\ IF IsLeaf(t) THEN a = StartOf(t) /\ b = StartOf(t) + 1
               ELSE a = node[LeftOf(t)].i /\ b = node[RightOf(t)].j
            /\ t[3] = 0 => a = 0
            /\ t[3] + 1 = Width(Job(t), t[2]) => b = 2 * Chunks(Job(t)) - 1
<1>1. t[1] \in Jobs /\ Job(t) = t[1] /\ t[3] \in Nat /\ Chunks(t[1]) \in Nat
  BY TaskParts
<1>2. CASE IsLeaf(t)
  <2>1. StartOf(t) \in Nat /\ StartOf(t) = 2 * t[3]
    BY <1>1 DEF StartOf
  <2>2. Prove(t) = Claim(StartOf(t), StartOf(t) + 1)
    BY <1>2, <2>1 DEF Prove, PCD!ProveLeaf, StepOfBlock, Claim
  <2>3. t[3] + 1 = Width(Job(t), t[2]) => StartOf(t) + 1 = 2 * Chunks(Job(t)) - 1
    BY <1>1, <1>2, <2>1, LeafWidth DEF IsLeaf
  <2> QED BY <1>1, <1>2, <2>1, <2>2, <2>3
<1>3. CASE ~IsLeaf(t)
  <2>1. /\ LeftOf(t) \in Tasks /\ RightOf(t) \in Tasks
        /\ Width(t[1], t[2] - 1) = 2 * Width(t[1], t[2])
    BY <1>3, TaskChildren
  <2>2. task[LeftOf(t)] = "done" /\ task[RightOf(t)] = "done"
    BY <1>3 DEF FoldInv, ChildrenDone
  <2>3. NodeRight(LeftOf(t)) /\ NodeRight(RightOf(t))
    BY <2>1, <2>2 DEF FoldInv, NodesRight
  <2>4. PICK l, r : l = node[LeftOf(t)] /\ r = node[RightOf(t)]
    OBVIOUS
  <2>5. l.i \in Nat /\ l.j \in Nat /\ r.i \in Nat /\ r.j \in Nat
    BY <2>1, <2>4 DEF FoldInv, NodeType
  <2>6. l = Claim(l.i, l.j) /\ r = Claim(r.i, r.j)
    BY <2>3, <2>4 DEF NodeRight
  <2>7. r.i = l.j + 1
    BY <2>1, <2>2, <2>4, TaskNeighbours DEF FoldInv, NeighboursMeet
  <2>8. l.zi = l.i /\ l.zj = l.j /\ r.zi = r.i /\ r.zj = r.j /\ l.sat = TRUE /\ r.sat = TRUE
    BY <2>6 DEF Claim
  <2>9. PCD!Links(l, r)
    BY <2>5, <2>7, <2>8 DEF PCD!Links, StepOfBlock
  <2>10. Prove(t) = Claim(l.i, r.j)
    BY <1>3, <2>4, <2>8, <2>9 DEF Prove, PCD!ProveParent, Claim
  <2>11. t[3] = 0 => l.i = 0
    BY <2>3, <2>4 DEF NodeRight, LeftOf
  <2>12. t[3] + 1 = Width(Job(t), t[2]) => r.j = 2 * Chunks(Job(t)) - 1
    <3>1. RightOf(t)[1] = t[1] /\ RightOf(t)[2] = t[2] - 1 /\ RightOf(t)[3] = 2 * t[3] + 1
      BY DEF RightOf
    <3>2. t[3] + 1 = Width(t[1], t[2]) => RightOf(t)[3] + 1 = Width(t[1], t[2] - 1)
      BY <1>1, <2>1, <3>1
    <3> QED BY <1>1, <2>3, <2>4, <3>1, <3>2 DEF NodeRight, Job
  <2> QED BY <1>3, <2>4, <2>5, <2>10, <2>11, <2>12
<1> QED BY <1>2, <1>3

\* send_response extends the tree of nodes by one.
LEMMA RespondRight ==
  ASSUME ControlType, FoldInv, NEW t \in Tasks, task[t] = "waiting", Respond(t),
         UNCHANGED <<reply, final, db>>
  PROVE  FoldInv'
<1>1. PICK a, b \in Nat :
            /\ Prove(t) = Claim(a, b)
            /\ IF IsLeaf(t) THEN a = StartOf(t) /\ b = StartOf(t) + 1
               ELSE a = node[LeftOf(t)].i /\ b = node[RightOf(t)].j
            /\ t[3] = 0 => a = 0
            /\ t[3] + 1 = Width(Job(t), t[2]) => b = 2 * Chunks(Job(t)) - 1
  BY ProveRight
<1>2. /\ node' = [node EXCEPT ![t] = Claim(a, b)] /\ node \in [Tasks -> NodeType]
      /\ task' = [task EXCEPT ![t] = "done"] /\ DOMAIN task = Tasks
  BY <1>1 DEF Respond, FoldInv, ControlType
<1>3. Claim(a, b) \in NodeType /\ Claim(a, b).i = a /\ Claim(a, b).j = b
  BY DEF Claim, NodeType
<1>4. (node \in [Tasks -> NodeType])'
  BY <1>2, <1>3
<1>5. /\ \A u \in Tasks : u # t => task'[u] = task[u] /\ node'[u] = node[u]
      /\ task'[t] = "done" /\ node'[t] = Claim(a, b)
  BY <1>2
<1>6. ASSUME NEW u \in Tasks, ~IsLeaf(u), task'[u] = "done"
      PROVE  /\ LeftOf(u) \in Tasks /\ task[LeftOf(u)] = "done" /\ node'[LeftOf(u)] = node[LeftOf(u)]
             /\ RightOf(u) \in Tasks /\ task[RightOf(u)] = "done" /\ node'[RightOf(u)] = node[RightOf(u)]
  <2>1. task[u] \in {"waiting", "done"}
    BY <1>5, <1>6
  <2> QED BY <1>5, <1>6, <2>1, TaskChildren DEF FoldInv, ChildrenDone
<1>7. ChildrenDone'
  <2> SUFFICES ASSUME NEW u \in Tasks, ~IsLeaf(u)
               PROVE  /\ task'[u] \in {"await_r", "send", "waiting", "done"} => task'[LeftOf(u)] = "done"
                      /\ task'[u] \in {"send", "waiting", "done"} => task'[RightOf(u)] = "done"
    BY DEF ChildrenDone
  <2>1. LeftOf(u) \in Tasks /\ RightOf(u) \in Tasks
    BY TaskChildren
  <2> QED BY <1>5, <2>1 DEF FoldInv, ChildrenDone
<1>8. ASSUME NEW u \in Tasks, task'[u] = "done" PROVE NodeRight(u)'
  <2>1. CASE u = t
    <3>1. node'[u] = Claim(node'[u].i, node'[u].j) /\ node'[u].i = a /\ node'[u].j = b
      BY <1>3, <1>5, <2>1
    <3>2. IF IsLeaf(u) THEN a = StartOf(u) /\ b = StartOf(u) + 1
          ELSE a = node'[LeftOf(u)].i /\ b = node'[RightOf(u)].j
      BY <1>1, <1>6, <1>8, <2>1
    <3> QED BY <1>1, <2>1, <3>1, <3>2 DEF NodeRight
  <2>2. CASE u # t
    <3>1. task[u] = "done" /\ node'[u] = node[u]
      BY <1>5, <1>8, <2>2
    <3>2. NodeRight(u)
      BY <3>1 DEF FoldInv, NodesRight
    <3> QED BY <1>6, <1>8, <3>1, <3>2 DEF NodeRight
  <2> QED BY <2>1, <2>2
<1>9. ASSUME NEW u \in Tasks, NextTo(u) \in Tasks, task'[u] = "done", task'[NextTo(u)] = "done"
      PROVE  node'[NextTo(u)].i = node'[u].j + 1
  <2>1. PICK v \in Tasks : v = NextTo(u)
    BY <1>9
  <2>2. NodeRight(u)' /\ NodeRight(v)'
    BY <1>8, <1>9, <2>1
  <2>3. CASE IsLeaf(u)
    <3>1. node'[u].j = StartOf(u) + 1 /\ node'[v].i = StartOf(v)
      BY <2>1, <2>2, <2>3, TaskNeighbours DEF NodeRight
    <3>2. v[3] = u[3] + 1 /\ u[3] \in Nat
      BY <2>1, TaskParts DEF NextTo
    <3> QED BY <2>1, <3>1, <3>2 DEF StartOf
  <2>4. CASE ~IsLeaf(u)
    <3>1. ~IsLeaf(v) /\ LeftOf(v) = NextTo(RightOf(u))
      BY <2>1, <2>4, TaskNeighbours
    <3>2. node'[u].j = node[RightOf(u)].j /\ RightOf(u) \in Tasks /\ task[RightOf(u)] = "done"
      BY <1>6, <1>9, <2>2, <2>4 DEF NodeRight
    <3>3. node'[v].i = node[LeftOf(v)].i /\ LeftOf(v) \in Tasks /\ task[LeftOf(v)] = "done"
      BY <1>6, <1>9, <2>1, <2>2, <3>1 DEF NodeRight
    <3>4. node[LeftOf(v)].i = node[RightOf(u)].j + 1
      BY <3>1, <3>2, <3>3 DEF FoldInv, NeighboursMeet
    <3> QED BY <2>1, <3>2, <3>3, <3>4
  <2> QED BY <2>3, <2>4
<1>10. NodesRight' /\ NeighboursMeet'
  BY <1>8, <1>9 DEF NodesRight, NeighboursMeet, NextTo
<1>11. FinalRight' /\ (final \in [Jobs -> {"unborn", "await", "verify", "done", "panicked"}])'
  BY <1>5, FinalKept
<1>12. DbType' /\ DbRight'
  BY DbKept
<1> QED BY <1>4, <1>7, <1>10, <1>11, <1>12 DEF FoldInv

\* A task that waits loses its answer: it panics, and no node changes.
LEMMA DropRight ==
  ASSUME ControlType, FoldInv, NEW t \in Tasks, task[t] = "waiting", Drop(t),
         UNCHANGED <<reply, final, db, node>>
  PROVE  FoldInv'
<1>1. /\ \A u \in Tasks : u # t => task'[u] = task[u]
      /\ task'[t] = "panicked"
  BY DEF Drop, ControlType
<1>2. \A u \in Tasks : task'[u] = "done" <=> task[u] = "done"
  BY <1>1
<1>3. \A u \in Tasks : ~IsLeaf(u) =>
         /\ task'[u] \in {"await_r", "send", "waiting", "done"} => task[LeftOf(u)] = "done"
         /\ task'[u] \in {"send", "waiting", "done"} => task[RightOf(u)] = "done"
  BY <1>1 DEF FoldInv, ChildrenDone
<1> QED BY <1>2, <1>3, TreeKept, FinalKept, DbKept DEF FoldInv

\* Steps that touch neither the tasks nor the database.
LEMMA FoldFrame == ASSUME FoldInv, UNCHANGED <<reply, final, db, node, task>> PROVE FoldInv'
<1>1. \A u \in Tasks : ~IsLeaf(u) =>
         /\ task'[u] \in {"await_r", "send", "waiting", "done"} => task[LeftOf(u)] = "done"
         /\ task'[u] \in {"send", "waiting", "done"} => task[RightOf(u)] = "done"
  BY DEF FoldInv, ChildrenDone
<1> QED BY <1>1, TreeKept, FinalKept, DbKept DEF FoldInv

\* A request is answered: the tasks of a new job start, and the entry keeps its proof.
LEMMA SubmitRight ==
  ASSUME WorkInv, FoldInv, NEW j \in Jobs, SubmitProgram(j)
  PROVE  FoldInv' /\ \A h \in Hashes : db'[h].proof = db[h].proof /\ db'[h].complete >= db[h].complete
<1>1. \A t \in Tasks : task'[t] = IF Job(t) # j THEN task[t]
                                  ELSE IF IsLeaf(t) THEN "send" ELSE "await_l"
  BY DEF SubmitProgram
<1>2. \A t \in Tasks : Job(t) = j => task[t] = "unborn"
  BY DEF SubmitProgram, WorkInv, NothingBeforeSubmit
<1>3. \A t \in Tasks : task'[t] = "done" <=> task[t] = "done"
  BY <1>1, <1>2
<1>4. \A t \in Tasks : ~IsLeaf(t) =>
         /\ task'[t] \in {"await_r", "send", "waiting", "done"} => task[LeftOf(t)] = "done"
         /\ task'[t] \in {"send", "waiting", "done"} => task[RightOf(t)] = "done"
  BY <1>1 DEF FoldInv, ChildrenDone
<1>5. ChildrenDone' /\ NodesRight' /\ NeighboursMeet' /\ (node \in [Tasks -> NodeType])'
  BY <1>3, <1>4, TreeKept DEF SubmitProgram
<1>6. /\ HashOf[j] \in Hashes /\ NumBlocks[HashOf[j]] - 1 \in Nat
      /\ NewProof(HashOf[j], NumBlocks[HashOf[j]] - 1)
  BY NetworkAssumption DEF SubmitProgram
<1>7. /\ DbType' /\ DbRight'
      /\ \A h \in Hashes : db'[h].proof = db[h].proof /\ db'[h].complete >= db[h].complete
  BY <1>6, EntryKept
<1>8. (final \in [Jobs -> {"unborn", "await", "verify", "done", "panicked"}])'
  BY DEF SubmitProgram, FoldInv
<1>9. FinalRight'
  <2> SUFFICES ASSUME NEW i \in Jobs
               PROVE  /\ final'[i] # "unborn" => NumBlocks[HashOf[i]] # 0 /\ reply'[i] # "none"
                      /\ final'[i] \in {"verify", "done"} => task'[RootOf(i)] = "done"
    BY DEF FinalRight
  <2>1. CASE i = j
    BY <2>1 DEF SubmitProgram, FoldInv, WorkInv, ControlType
  <2>2. CASE i # j
    <3>1. final'[i] = final[i] /\ reply'[i] = reply[i]
      BY <2>2 DEF SubmitProgram, FoldInv, WorkInv, ControlType
    <3> QED BY <1>3, <3>1, TaskRoot DEF FoldInv, FinalRight
  <2> QED BY <2>1, <2>2
<1> QED BY <1>5, <1>7, <1>8, <1>9 DEF FoldInv

\* A request that is refused changes nothing but its own reply.
LEMMA RefuseRight ==
  ASSUME WorkInv, FoldInv, NEW j \in Jobs, RejectProgram(j) \/ NotFound(j)
  PROVE  FoldInv' /\ db' = db
<1>1. UNCHANGED <<db, task, node, final>>
  BY DEF RejectProgram, NotFound
<1>2. \A i \in Jobs : reply[i] # "none" => reply'[i] # "none"
  BY DEF RejectProgram, NotFound, WorkInv, ControlType
<1>3. FinalRight' /\ (final \in [Jobs -> {"unborn", "await", "verify", "done", "panicked"}])'
  BY <1>1, <1>2 DEF FoldInv, FinalRight
<1>4. \A u \in Tasks : ~IsLeaf(u) =>
         /\ task'[u] \in {"await_r", "send", "waiting", "done"} => task[LeftOf(u)] = "done"
         /\ task'[u] \in {"send", "waiting", "done"} => task[RightOf(u)] = "done"
  BY <1>1 DEF FoldInv, ChildrenDone
<1> QED BY <1>1, <1>3, <1>4, TreeKept, DbKept DEF FoldInv

\* A task goes on, and a task that asks for its fold has both children's nodes.
LEMMA TaskRight ==
  ASSUME WorkInv, FoldInv, NEW t \in Tasks, TaskStep(t)
  PROVE  FoldInv' /\ \A h \in Hashes : db'[h].proof = db[h].proof /\ db'[h].complete >= db[h].complete
<1>1. PICK s \in {"await_r", "send", "waiting", "panicked"} :
          /\ task' = [task EXCEPT ![t] = s] /\ task[t] \in {"await_l", "await_r", "send"}
          /\ s = "await_r" => task[LeftOf(t)] = "done"
          /\ s = "send" => task[t] = "await_r" /\ task[RightOf(t)] = "done"
          /\ s = "waiting" => task[t] = "send"
  BY DEF TaskStep, SendWork, AwaitLeft, AwaitRight, AwaitRightPanics
<1>2. UNCHANGED <<reply, final, node>>
  BY DEF TaskStep, SendWork, AwaitLeft, AwaitRight, AwaitRightPanics
<1>3. \A u \in Tasks : task'[u] = IF u = t THEN s ELSE task[u]
  BY <1>1 DEF WorkInv, ControlType
<1>4. \A u \in Tasks : task'[u] = "done" <=> task[u] = "done"
  BY <1>1, <1>3
<1>5. \A u \in Tasks : ~IsLeaf(u) =>
         /\ task'[u] \in {"await_r", "send", "waiting", "done"} => task[LeftOf(u)] = "done"
         /\ task'[u] \in {"send", "waiting", "done"} => task[RightOf(u)] = "done"
  BY <1>1, <1>3 DEF FoldInv, ChildrenDone
<1>6. db' = db \/ (Job(t) \in Jobs /\ HashOf[Job(t)] \in Hashes /\ UpdateComplete(HashOf[Job(t)], 2))
  BY JobOfTask, NetworkAssumption DEF TaskStep, SendWork, AwaitLeft, AwaitRight, AwaitRightPanics
<1>7. /\ DbType' /\ DbRight'
      /\ \A h \in Hashes : db'[h].proof = db[h].proof /\ db'[h].complete >= db[h].complete
  <2>1. CASE db' = db
    <3>1. \A h \in Hashes : db[h].complete \in Nat
      BY DEF FoldInv, DbType
    <3> QED BY <2>1, <3>1, DbKept
  <2>2. CASE Job(t) \in Jobs /\ HashOf[Job(t)] \in Hashes /\ UpdateComplete(HashOf[Job(t)], 2)
    BY <2>2, CountKept
  <2> QED BY <1>6, <2>1, <2>2
<1> QED BY <1>2, <1>4, <1>5, <1>7, TreeKept, FinalKept DEF FoldInv

\* The node at the root goes from the first state of the program to the end of its trace.
LEMMA RootIsWhole ==
  ASSUME FoldInv, NEW j \in Jobs, final[j] \in {"verify", "done"}
  PROVE  /\ NumBlocks[HashOf[j]] # 0 /\ node[RootOf(j)] = WholeProof(j)
         /\ WholeProof(j) \in NodeType
<1>1. NumBlocks[HashOf[j]] # 0 /\ task[RootOf(j)] = "done"
  BY DEF FoldInv, FinalRight
<1>2. /\ RootOf(j) \in Tasks /\ Job(RootOf(j)) = j
      /\ RootOf(j)[3] = 0 /\ Width(j, RootOf(j)[2]) = 1
  BY <1>1, TaskRoot
<1>3. NodeRight(RootOf(j))
  BY <1>1, <1>2 DEF FoldInv, NodesRight
<1>4. node[RootOf(j)].i = 0 /\ node[RootOf(j)].j = 2 * Chunks(j) - 1
  BY <1>2, <1>3 DEF NodeRight
<1>5. node[RootOf(j)] = WholeProof(j)
  BY <1>3, <1>4 DEF NodeRight, WholeProof
<1> QED BY <1>1, <1>2, <1>5 DEF FoldInv

\* Only an honest node of the whole trace is stored, so that a second submission of the
\* same program stores what is already there.
LEMMA FinalRightKept ==
  ASSUME WorkInv, FoldInv, NEW j \in Jobs, FinalStep(j)
  PROVE  FoldInv' /\ \A h \in Hashes : /\ Stored(h) => db'[h].proof = db[h].proof
                                       /\ db'[h].complete >= db[h].complete
<1>1. UNCHANGED <<reply, task, node>> /\ HashOf[j] \in Hashes
  BY NetworkAssumption DEF FinalStep, AwaitRoot, AwaitRootPanics, StoreProof
<1>2. ChildrenDone' /\ NodesRight' /\ NeighboursMeet' /\ (node \in [Tasks -> NodeType])'
  <2>1. \A u \in Tasks : ~IsLeaf(u) =>
           /\ task'[u] \in {"await_r", "send", "waiting", "done"} => task[LeftOf(u)] = "done"
           /\ task'[u] \in {"send", "waiting", "done"} => task[RightOf(u)] = "done"
    BY <1>1 DEF FoldInv, ChildrenDone
  <2> QED BY <1>1, <2>1, TreeKept
<1>3. FinalRight' /\ (final \in [Jobs -> {"unborn", "await", "verify", "done", "panicked"}])'
  BY <1>1 DEF FinalStep, AwaitRoot, AwaitRootPanics, StoreProof, FoldInv, FinalRight
<1>4. CASE AwaitRoot(j)
  <2>1. UpdateComplete(HashOf[j], 1)
    BY <1>4 DEF AwaitRoot
  <2> QED BY <1>1, <1>2, <1>3, <2>1, CountKept DEF FoldInv
<1>5. CASE db' = db
  <2>1. \A h \in Hashes : db[h].complete \in Nat
    BY DEF FoldInv, DbType
  <2> QED BY <1>2, <1>3, <1>5, <2>1, DbKept DEF FoldInv
<1>6. CASE StoreProof(j) /\ db' # db
  <2>1. UpdateProof(HashOf[j], node[RootOf(j)]) /\ final[j] = "verify"
    BY <1>6 DEF StoreProof
  <2>2. node[RootOf(j)] = WholeProof(j) /\ WholeProof(j) \in NodeType
    BY <2>1, RootIsWhole
  <2>3. /\ db \in [Hashes -> [known : BOOLEAN, total : Nat, complete : Nat, proof : NodeType]]
        /\ db' = [db EXCEPT ![HashOf[j]].proof = WholeProof(j)]
    BY <2>1, <2>2 DEF FoldInv, DbType, UpdateProof
  <2>4. DbType'
    BY <1>1, <2>2, <2>3 DEF DbType
  <2>5. \A h \in Hashes : /\ db'[h].complete = db[h].complete /\ db[h].complete \in Nat
                          /\ db'[h].proof = IF h = HashOf[j] THEN WholeProof(j) ELSE db[h].proof
    BY <1>1, <2>3
  <2>6. \A i \in Jobs : HashOf[i] \in Hashes /\ (HashOf[i] = HashOf[j] => WholeProof(i) = WholeProof(j))
    BY NetworkAssumption DEF WholeProof, Chunks
  <2>7. DbRight'
    BY <2>5, <2>6 DEF FoldInv, DbRight
  <2>8. \A h \in Hashes : Stored(h) => db'[h].proof = db[h].proof
    BY <2>5 DEF FoldInv, DbRight, Stored
  <2>9. \A h \in Hashes : db'[h].complete >= db[h].complete
    BY <2>5
  <2> QED BY <1>2, <1>3, <2>4, <2>7, <2>8, <2>9 DEF FoldInv
<1> QED BY <1>4, <1>5, <1>6 DEF FinalStep, AwaitRootPanics

\* The threads and the connections answer or drop the work they hold, and only that.
LEMMA HolderRight ==
  ASSUME WorkInv, FoldInv,
         \/ LocalStep \/ LocalProveFails \/ MsmStep
         \/ \E p \in Peers : Connect(p) \/ Disconnect(p) \/ ProxyStep(p)
  PROVE  FoldInv' /\ db' = db
<1>1. UNCHANGED <<reply, final, db>>
  BY DEF LocalStep, LocalProveFails, MsmStep, Connect, Disconnect, ProxyStep, LocalRecv,
     LocalRequestMsm, LocalReply, LocalPanics, MsmRecv, MsmReply, PcdProxyRecv, PcdProxyReply,
     PcdProxyFails, MsmProxyRecv, MsmProxyReply, MsmProxyFails
<1>2. CASE UNCHANGED <<node, task>>
  BY <1>1, <1>2, FoldFrame
<1>3. ControlType
  BY DEF WorkInv
<1>4. CASE LocalReply \/ LocalPanics \/ LocalProveFails
  <2>1. localWork \in Tasks /\ task[localWork] = "waiting"
    BY <1>4 DEF LocalReply, LocalPanics, LocalProveFails, WorkInv, ControlType, HoldersBusy,
       WorkInOnePlace, WaitingHasWork, WithLocal
  <2>2. Respond(localWork) \/ (Drop(localWork) /\ node' = node)
    BY <1>4 DEF LocalReply, LocalPanics, LocalProveFails
  <2> QED BY <1>1, <1>3, <2>1, <2>2, RespondRight, DropRight
<1>5. ASSUME NEW p \in Peers, PcdProxyReply(p) \/ PcdProxyFails(p) PROVE FoldInv'
  <2>1. p \in PcdPeers /\ proxy[p] = "busy"
    BY <1>5 DEF PcdProxyReply, PcdProxyFails
  <2>2. held[p] \in Tasks
    BY <2>1 DEF WorkInv, ControlType, HoldersBusy
  <2>3. task[held[p]] = "waiting"
    BY <2>1, <2>2 DEF WorkInv, WorkInOnePlace, WaitingHasWork, WithProxy
  <2>4. Respond(held[p]) \/ (Drop(held[p]) /\ node' = node)
    BY <1>5 DEF PcdProxyReply, PcdProxyFails
  <2> QED BY <1>1, <1>3, <2>2, <2>3, <2>4, RespondRight, DropRight
<1>6. \/ UNCHANGED <<node, task>> \/ LocalReply \/ LocalPanics \/ LocalProveFails
      \/ \E p \in Peers : PcdProxyReply(p) \/ PcdProxyFails(p)
  BY DEF LocalStep, MsmStep, Connect, Disconnect, ProxyStep, LocalRecv,
     LocalRequestMsm, MsmRecv, MsmReply, PcdProxyRecv, MsmProxyRecv, MsmProxyReply, MsmProxyFails
<1> QED BY <1>1, <1>2, <1>4, <1>5, <1>6

-----------------------------------------------------------------------------
(* What a client finds in the database.                                     *)

\* No proof and no node is there at first.
LEMMA FoldInit == Init => FoldInv
<1> SUFFICES ASSUME Init PROVE FoldInv
  OBVIOUS
<1>1. NoProof \in NodeType
  BY DEF NoProof, NodeType
<1>2. DbType /\ DbRight /\ node \in [Tasks -> NodeType]
  BY <1>1, NetworkAssumption DEF Init, DbType, DbRight
<1>3. ChildrenDone /\ NodesRight /\ NeighboursMeet
  BY DEF Init, ChildrenDone, NodesRight, NeighboursMeet
<1>4. FinalRight /\ final \in [Jobs -> {"unborn", "await", "verify", "done", "panicked"}]
  BY DEF Init, FinalRight
<1> QED BY <1>2, <1>3, <1>4 DEF FoldInv

\* A stored proof stays, and no count falls.
Kept == \A h \in Hashes : /\ Stored(h) => db'[h].proof = db[h].proof
                          /\ db'[h].complete >= db[h].complete

\* Every step of the network keeps the tree of nodes, and what is stored.
LEMMA FoldNext == WorkInv /\ FoldInv /\ [Next]_vars => FoldInv' /\ Kept
<1> SUFFICES ASSUME WorkInv, FoldInv, [Next]_vars PROVE FoldInv' /\ Kept
  OBVIOUS
<1>1. db' = db => Kept
  BY DEF FoldInv, DbType, Kept
<1>2. CASE UNCHANGED vars
  BY <1>1, <1>2, FoldFrame DEF vars
<1>3. ASSUME NEW j \in Jobs, SubmitProgram(j) PROVE FoldInv' /\ Kept
  BY <1>3, SubmitRight DEF Kept
<1>4. ASSUME NEW j \in Jobs, RejectProgram(j) \/ NotFound(j) PROVE FoldInv' /\ Kept
  BY <1>1, <1>4, RefuseRight
<1>5. ASSUME NEW j \in Jobs, FinalStep(j) PROVE FoldInv' /\ Kept
  BY <1>5, FinalRightKept DEF Kept
<1>6. ASSUME NEW t \in Tasks, TaskStep(t) PROVE FoldInv' /\ Kept
  BY <1>6, TaskRight DEF Kept
<1>7. CASE \/ LocalStep \/ LocalProveFails \/ MsmStep
           \/ \E p \in Peers : Connect(p) \/ Disconnect(p) \/ ProxyStep(p)
  BY <1>1, <1>7, HolderRight
<1> QED BY <1>2, <1>3, <1>4, <1>5, <1>6, <1>7 DEF Next

\* The work in flight and the nodes already folded, together.
LEMMA NetworkInvariant == Spec => [](WorkInv /\ FoldInv)
BY WorkInit, WorkNext, FoldInit, FoldNext, PTL DEF Spec

\* A stored proof is the whole one.
LEMMA StoredIsWhole ==
  ASSUME FoldInv, NEW j \in Jobs, Stored(HashOf[j])
  PROVE  db[HashOf[j]].proof = WholeProof(j)
BY DEF FoldInv, DbRight, Stored

\* A proof a client can fetch verifies and goes from the first state of the program through
\* every chunk of its trace, in whatever order local_pcd and the PCD nodes answered, for
\* every number of jobs, of chunks, of nodes and of faults.
THEOREM StoredProofIsWhole == Spec => []ProofIsWhole
<1>1. ASSUME FoldInv PROVE ProofIsWhole
  <2> SUFFICES ASSUME NEW j \in Jobs, Stored(HashOf[j]), NEW p, p = db[HashOf[j]].proof
               PROVE  PCD!Verify(p) /\ p.i = 0 /\ p.zi = 0 /\ p.j = 2 * Chunks(j) - 1 /\ p.zj = p.j
    BY DEF ProofIsWhole
  <2>1. p = Claim(0, 2 * Chunks(j) - 1)
    BY <1>1, StoredIsWhole DEF WholeProof
  <2> QED BY <2>1 DEF Claim, PCD!Verify
<1> QED BY <1>1, NetworkInvariant, PTL

\* A stored proof is never replaced by another and the count of finished nodes never falls,
\* also when the same program is submitted again while or after it is proved.
THEOREM StoredProofStays == Spec => ProofKept
<1>1. WorkInv /\ FoldInv /\ [Next]_vars => [Kept]_vars
  BY FoldNext
<1>2. Spec => [][Kept]_vars
  BY <1>1, NetworkInvariant, PTL DEF Spec
<1> QED BY <1>2 DEF ProofKept, Kept

\* The connections and the bound on faults, which no other part of the state depends on.
LinkType == link \in [Peers -> {"up", "closed"}] /\ faults \in 0 .. MaxFaults

\* Connect, Disconnect and a failing proof keep the connections and the faults in range.
LEMMA LinkNext == LinkType /\ [Next]_vars => LinkType'
<1> SUFFICES ASSUME LinkType, [Next]_vars PROVE LinkType'
  OBVIOUS
<1>1. ASSUME NEW p \in Peers, Connect(p) \/ Disconnect(p) PROVE LinkType'
  BY <1>1, NetworkAssumption DEF Connect, Disconnect, LinkType
<1>2. CASE LocalProveFails
  BY <1>2, NetworkAssumption DEF LocalProveFails, LinkType
<1>3. CASE UNCHANGED <<link, faults>>
  BY <1>3 DEF LinkType
<1>4. \/ \E p \in Peers : Connect(p) \/ Disconnect(p)
      \/ LocalProveFails \/ UNCHANGED <<link, faults>>
  BY DEF Next, vars, SubmitProgram, RejectProgram, NotFound, FinalStep, AwaitRoot, AwaitRootPanics,
     StoreProof, TaskStep, SendWork, AwaitLeft, AwaitRight, AwaitRightPanics, LocalStep, MsmStep,
     ProxyStep, LocalRecv, LocalRequestMsm, LocalReply, LocalPanics, MsmRecv, MsmReply,
     PcdProxyRecv, PcdProxyReply, PcdProxyFails, MsmProxyRecv, MsmProxyReply, MsmProxyFails
<1> QED BY <1>1, <1>2, <1>3, <1>4

\* The database, the tasks, the channels, the threads and the connections of the coordinator
\* stay in their ranges.
THEOREM NetworkTypes == Spec => []TypeOK
<1>1. Init => LinkType
  BY NetworkAssumption DEF Init, LinkType
<1>2. Spec => []LinkType
  BY <1>1, LinkNext, PTL DEF Spec
<1>3. WorkInv /\ FoldInv /\ LinkType => TypeOK
  BY DEF WorkInv, FoldInv, DbType, LinkType, TypeOK
<1> QED BY <1>2, <1>3, NetworkInvariant, PTL

-----------------------------------------------------------------------------
(* The number of tasks of a job.                                            *)

\* A task of the tree, numbered as in a heap: the root is 1, the children of n are 2n and
\* 2n + 1, and the leaves follow the inner tasks.
HeapIndex(t) == Width(t[1], t[2]) + t[3]

\* An inner task has a number below the number of chunks, whose power of two is its width.
LEMMA HeapIndexIs ==
  ASSUME NEW j \in Jobs, NEW e \in Nat, Chunks(j) = TwoTo[e],
         \A lev \in Nat : /\ lev \in Levels(j) <=> lev <= e
                          /\ lev <= e => Width(j, lev) = TwoTo[e - lev],
         NEW t \in Inner(j)
  PROVE  /\ HeapIndex(t) \in 1 .. Chunks(j) - 1
         /\ Ilog2(HeapIndex(t)) = e - t[2]
         /\ t = <<j, t[2], t[3]>> /\ t[2] \in Nat /\ t[3] = HeapIndex(t) - TwoTo[e - t[2]]
<1>1. /\ t = <<j, t[2], t[3]>> /\ t[2] \in Levels(j) /\ t[3] \in 0 .. Chunks(j)
      /\ t[3] < Width(j, t[2]) /\ t[2] # 0
  BY DEF Inner, TasksOf, IsLeaf
<1>2. Chunks(j) \in Nat /\ t[2] \in Nat /\ t[2] <= e
  BY <1>1, ChunksPositive DEF Levels
<1>3. PICK d \in Nat : d = e - t[2] /\ d < e
  BY <1>1, <1>2
<1>4. PICK w \in Nat \ {0} : w = TwoTo[d] /\ TwoTo[d + 1] = 2 * w /\ Width(j, t[2]) = w
  BY <1>2, <1>3, TwoToDef, TwoToPositive
<1>5. 2 * w <= Chunks(j)
  BY <1>3, <1>4, TwoToMonotone
<1>6. PICK k \in Nat : k = t[3] /\ k < w
  BY <1>1, <1>2, <1>4
<1>7. HeapIndex(t) = w + k
  BY <1>1, <1>4, <1>6 DEF HeapIndex
<1>8. w + k \in Nat \ {0} /\ w <= w + k /\ w + k < 2 * w
  BY <1>6
<1>9. Ilog2(w + k) = d
  BY <1>4, <1>8, Ilog2Unique
<1>10. w + k \in 1 .. Chunks(j) - 1
  BY <1>2, <1>5, <1>8
<1>11. t[3] = (w + k) - w
  BY <1>6
<1> QED BY <1>1, <1>2, <1>3, <1>4, <1>7, <1>9, <1>10, <1>11

\* Conversely, every number below the number of chunks is the number of an inner task.
LEMMA HeapIndexTaken ==
  ASSUME NEW j \in Jobs, NEW e \in Nat, Chunks(j) = TwoTo[e],
         \A lev \in Nat : /\ lev \in Levels(j) <=> lev <= e
                          /\ lev <= e => Width(j, lev) = TwoTo[e - lev],
         NEW n \in 1 .. Chunks(j) - 1
  PROVE  <<j, e - Ilog2(n), n - TwoTo[Ilog2(n)]>> \in Inner(j)
<1>1. Chunks(j) \in Nat /\ n \in Nat \ {0} /\ n < TwoTo[e]
  BY ChunksPositive
<1>2. PICK l \in Nat : l = Ilog2(n) /\ TwoTo[l] <= n /\ n < TwoTo[l + 1]
  BY <1>1, Ilog2Is
<1>3. PICK w \in Nat \ {0} : w = TwoTo[l] /\ TwoTo[l + 1] = 2 * w
  BY TwoToDef, TwoToPositive
<1>4. l < e
  <2>1. TwoTo[e] \in Nat \ {0} /\ e # l
    BY <1>1, <1>2, <1>3, TwoToPositive
  <2>2. e < l => 2 * TwoTo[e] <= w
    BY <1>3, TwoToMonotone
  <2> QED BY <1>1, <1>2, <1>3, <2>1, <2>2
<1>5. e - l \in Nat \ {0} /\ e - l <= e /\ e - (e - l) = l
  BY <1>4
<1>6. e - l \in Levels(j) /\ Width(j, e - l) = w
  BY <1>3, <1>5
<1>7. n - w \in 0 .. Chunks(j) /\ n - w < w
  BY <1>1, <1>2, <1>3
<1>8. <<j, e - l, n - w>> \in TasksOf(j)
  BY <1>6, <1>7 DEF TasksOf
<1>9. ~IsLeaf(<<j, e - l, n - w>>)
  BY <1>5 DEF IsLeaf
<1> QED BY <1>2, <1>3, <1>8, <1>9 DEF Inner

\* A job has one inner task fewer than it has chunks.
LEMMA InnerCount ==
  ASSUME NEW j \in Jobs, Chunks(j) # 0
  PROVE  IsFiniteSet(Inner(j)) /\ Cardinality(Inner(j)) = Chunks(j) - 1
<1>1. PICK e \in Nat : /\ Chunks(j) = TwoTo[e]
                       /\ \A lev \in Nat : /\ lev \in Levels(j) <=> lev <= e
                                           /\ lev <= e => Width(j, lev) = TwoTo[e - lev]
  BY LevelsAre
<1>2. Chunks(j) \in Nat \ {0}
  BY ChunksPositive
<1> DEFINE N == 1 .. Chunks(j) - 1
           at == [n \in N |-> <<j, e - Ilog2(n), n - TwoTo[Ilog2(n)]>>]
<1>3. at \in [N -> Inner(j)]
  BY <1>1, HeapIndexTaken
<1>4. ASSUME NEW m \in N, NEW n \in N, at[m] = at[n] PROVE m = n
  <2>1. PICK k, l \in Nat : k = Ilog2(m) /\ l = Ilog2(n)
    <3>1. m \in Nat \ {0} /\ n \in Nat \ {0}
      BY <1>2
    <3>2. Ilog2(m) \in 0 .. m /\ Ilog2(n) \in 0 .. n
      BY <3>1, Ilog2Is
    <3> QED BY <3>1, <3>2
  <2>2. e - k = e - l /\ m - TwoTo[k] = n - TwoTo[l]
    BY <1>4, <2>1
  <2>3. k = l /\ TwoTo[k] \in Nat
    BY <2>1, <2>2, TwoToPositive
  <2> QED BY <1>2, <2>2, <2>3
<1>5. ASSUME NEW t \in Inner(j) PROVE \E n \in N : at[n] = t
  <2>1. /\ HeapIndex(t) \in N
        /\ Ilog2(HeapIndex(t)) = e - t[2]
        /\ t = <<j, t[2], t[3]>> /\ t[2] \in Nat /\ t[3] = HeapIndex(t) - TwoTo[e - t[2]]
    BY <1>1, HeapIndexIs
  <2>2. at[HeapIndex(t)] = <<j, e - (e - t[2]), HeapIndex(t) - TwoTo[e - t[2]]>>
    BY <2>1
  <2>3. e - (e - t[2]) = t[2]
    BY <2>1
  <2> QED BY <2>1, <2>2, <2>3
<1>6. at \in Bijection(N, Inner(j))
  BY <1>3, <1>4, <1>5 DEF Bijection, Injection, Surjection, IsInjective
<1>7. IsFiniteSet(N) /\ Cardinality(N) = Chunks(j) - 1
  <2>1. 1 \in Int /\ Chunks(j) - 1 \in Int
    BY <1>2
  <2>2. /\ IsFiniteSet(N)
        /\ Cardinality(N) = IF 1 > Chunks(j) - 1 THEN 0 ELSE (Chunks(j) - 1) - 1 + 1
    BY <2>1, FS_Interval
  <2> QED BY <1>2, <2>2
<1> QED BY <1>6, <1>7, FS_Bijection DEF ExistsBijection

\* Jobs of the same program have the same chunks.
LEMMA SameChunks ==
  ASSUME NEW i \in Jobs, NEW j \in Jobs, HashOf[i] = HashOf[j]
  PROVE  /\ Chunks(i) = Chunks(j) /\ Levels(i) = Levels(j)
         /\ \A lev : Width(i, lev) = Width(j, lev)
<1>1. Chunks(i) = Chunks(j)
  BY DEF Chunks
<1> QED BY <1>1 DEF Levels, Width

\* A program with blocks has chunks, and two blocks in each but perhaps the last.
LEMMA ChunksAre ==
  ASSUME NEW j \in Jobs, NumBlocks[HashOf[j]] # 0
  PROVE  /\ Chunks(j) \in Nat \ {0} /\ NumBlocks[HashOf[j]] \in Nat \ {0, 1}
         /\ NumBlocks[HashOf[j]] \in {2 * Chunks(j) - 1, 2 * Chunks(j)}
<1>1. NumBlocks[HashOf[j]] \in Nat \ {0, 1}
  BY NetworkAssumption, PairingAssumption
<1> QED BY <1>1 DEF Chunks

\* Every inner task that counts belongs to an accepted job: of each of them no more than
\* their inner tasks.
LEMMA MayHaveCountedBound ==
  ASSUME OnlyAccepted, NEW h \in Hashes
  PROVE  /\ Accepted(h) = {} => MayHaveCounted(h) = {}
         /\ \A j \in Accepted(h) :
               /\ IsFiniteSet(MayHaveCounted(h))
               /\ Cardinality(MayHaveCounted(h)) <= Cardinality(Accepted(h)) * (Chunks(j) - 1)
<1>1. ASSUME NEW t \in MayHaveCounted(h)
      PROVE  t[1] \in Accepted(h) /\ t \in Inner(t[1])
  <2>1. /\ t \in Tasks /\ HashOf[Job(t)] = h /\ ~IsLeaf(t) /\ task[t] # "unborn"
    BY DEF MayHaveCounted
  <2>2. t[1] \in Jobs /\ Job(t) = t[1] /\ t \in TasksOf(t[1])
    BY <2>1 DEF Tasks, TasksOf, Job
  <2> QED BY <2>1, <2>2 DEF OnlyAccepted, Accepted, Inner
<1>2. ASSUME NEW j \in Accepted(h)
      PROVE  /\ IsFiniteSet(MayHaveCounted(h))
             /\ Cardinality(MayHaveCounted(h)) <= Cardinality(Accepted(h)) * (Chunks(j) - 1)
  <2>1. /\ j \in Jobs /\ HashOf[j] = h /\ NumBlocks[HashOf[j]] # 0
        /\ Chunks(j) \in Nat \ {0} /\ IsFiniteSet(Accepted(h))
    BY ChunksAre DEF OnlyAccepted, Accepted
  <2>2. PICK e \in Nat : /\ Chunks(j) = TwoTo[e]
                         /\ \A lev \in Nat : /\ lev \in Levels(j) <=> lev <= e
                                             /\ lev <= e => Width(j, lev) = TwoTo[e - lev]
    BY <2>1, LevelsAre
  <2> DEFINE N == 1 .. Chunks(j) - 1
             at == [t \in MayHaveCounted(h) |-> <<t[1], HeapIndex(t)>>]
  <2>3. ASSUME NEW t \in MayHaveCounted(h)
        PROVE  /\ t[1] \in Accepted(h) /\ HeapIndex(t) \in N
               /\ t = <<t[1], e - Ilog2(HeapIndex(t)), HeapIndex(t) - TwoTo[Ilog2(HeapIndex(t))]>>
    <3>1. t[1] \in Accepted(h) /\ t \in Inner(t[1]) /\ t[1] \in Jobs /\ HashOf[t[1]] = h
      BY <1>1 DEF Accepted
    <3>2. PICK i \in Jobs : i = t[1] /\ HashOf[i] = HashOf[j] /\ t \in Inner(i)
      BY <2>1, <3>1
    <3>3. /\ Chunks(i) = TwoTo[e] /\ Chunks(i) = Chunks(j)
          /\ \A lev \in Nat : /\ lev \in Levels(i) <=> lev <= e
                              /\ lev <= e => Width(i, lev) = TwoTo[e - lev]
      BY <2>1, <2>2, <3>2, SameChunks
    <3>4. /\ HeapIndex(t) \in N /\ Ilog2(HeapIndex(t)) = e - t[2] /\ t[2] \in Nat
          /\ t = <<i, t[2], t[3]>> /\ t[3] = HeapIndex(t) - TwoTo[e - t[2]]
      BY <3>2, <3>3, HeapIndexIs
    <3>5. e - (e - t[2]) = t[2]
      BY <3>4
    <3> QED BY <3>1, <3>2, <3>4, <3>5
  <2>4. at \in [MayHaveCounted(h) -> Accepted(h) \X N]
    BY <2>3
  <2>5. ASSUME NEW t \in MayHaveCounted(h), NEW u \in MayHaveCounted(h), at[t] = at[u]
        PROVE  t = u
    <3>1. t[1] = u[1] /\ HeapIndex(t) = HeapIndex(u)
      BY <2>5
    <3> QED BY <2>3, <3>1
  <2>6. at \in Injection(MayHaveCounted(h), Accepted(h) \X N)
    BY <2>4, <2>5 DEF Injection, IsInjective
  <2>7. IsFiniteSet(N) /\ Cardinality(N) = Chunks(j) - 1
    <3>1. 1 \in Int /\ Chunks(j) - 1 \in Int
      BY <2>1
    <3>2. /\ IsFiniteSet(N)
          /\ Cardinality(N) = IF 1 > Chunks(j) - 1 THEN 0 ELSE (Chunks(j) - 1) - 1 + 1
      BY <3>1, FS_Interval
    <3> QED BY <2>1, <3>2
  <2>8. /\ IsFiniteSet(Accepted(h) \X N)
        /\ Cardinality(Accepted(h) \X N) = Cardinality(Accepted(h)) * (Chunks(j) - 1)
    BY <2>1, <2>7, FS_Product
  <2>9. /\ IsFiniteSet(MayHaveCounted(h))
        /\ Cardinality(MayHaveCounted(h)) <= Cardinality(Accepted(h) \X N)
    BY <2>6, <2>8, FS_Injection
  <2> QED BY <2>8, <2>9
<1>3. Accepted(h) = {} => MayHaveCounted(h) = {}
  BY <1>1
<1> QED BY <1>2, <1>3

\* When the root of a job is folded, so is every task of the job.
LEMMA RootIsLast ==
  ASSUME ChildrenDone, NEW j \in Jobs, NumBlocks[HashOf[j]] # 0, task[RootOf(j)] = "done"
  PROVE  \A t \in TasksOf(j) : task[t] = "done"
<1>1. Chunks(j) \in Nat \ {0}
  BY ChunksAre
<1>2. PICK e \in Nat : /\ Chunks(j) = TwoTo[e]
                       /\ \A lev \in Nat : /\ lev \in Levels(j) <=> lev <= e
                                           /\ lev <= e => Width(j, lev) = TwoTo[e - lev]
  BY <1>1, LevelsAre
<1>3. ASSUME NEW t \in TasksOf(j)
      PROVE  /\ t = <<j, t[2], t[3]>> /\ t \in Tasks
             /\ t[2] \in 0 .. e /\ t[3] \in Nat /\ t[3] < Width(j, t[2])
             /\ Width(j, t[2]) = TwoTo[e - t[2]]
  <2>1. /\ t = <<j, t[2], t[3]>> /\ t[2] \in Levels(j) /\ t[2] \in Nat /\ t[3] \in Nat
        /\ t[3] < Width(j, t[2]) /\ t \in Tasks
    BY <1>1 DEF TasksOf, Levels, Tasks
  <2> QED BY <1>2, <2>1
<1>4. RootOf(j) = <<j, e, 0>>
  <2>1. RootOf(j) \in TasksOf(j) /\ Width(j, RootOf(j)[2]) = 1 /\ RootOf(j)[3] = 0
    <3>1. RootOf(j) \in Tasks /\ Job(RootOf(j)) = j /\ RootOf(j)[3] = 0 /\ Width(j, RootOf(j)[2]) = 1
      BY TaskRoot
    <3> QED BY <3>1 DEF Tasks, TasksOf, Job
  <2>2. PICK l \in 0 .. e : l = RootOf(j)[2] /\ TwoTo[e - l] = 1
    BY <1>3, <2>1
  <2>3. e - l \in Nat /\ e - l < 1
    BY <2>2, TwoToPositive
  <2>4. l = e
    BY <2>2, <2>3
  <2> QED BY <1>3, <2>1, <2>2, <2>4
<1> DEFINE S == {d \in Nat : \A t \in TasksOf(j) : t[2] = e - d => task[t] = "done"}
<1>5. 0 \in S
  <2> SUFFICES ASSUME NEW t \in TasksOf(j), t[2] = e - 0 PROVE task[t] = "done"
    OBVIOUS
  <2>1. t[2] = e /\ t[3] \in Nat /\ t[3] < TwoTo[e - e] /\ t = <<j, t[2], t[3]>>
    BY <1>3
  <2>2. e - e = 0 /\ TwoTo[0] = 1
    BY TwoToDef
  <2>3. t[3] = 0
    BY <2>1, <2>2
  <2> QED BY <1>4, <2>1, <2>3
<1>6. ASSUME NEW d \in Nat, d \in S PROVE d + 1 \in S
  <2> SUFFICES ASSUME NEW t \in TasksOf(j), t[2] = e - (d + 1) PROVE task[t] = "done"
    OBVIOUS
  <2>1. PICK l, k \in Nat : l = t[2] /\ k = t[3] /\ t = <<j, l, k>> /\ l \in 0 .. e /\ k < TwoTo[e - l]
    BY <1>3
  <2>2. l + 1 = e - d /\ l + 1 <= e /\ e - l = d + 1 /\ e - (l + 1) = d
    BY <2>1
  <2>3. PICK w \in Nat : w = TwoTo[d] /\ TwoTo[d + 1] = 2 * w
    BY TwoToDef
  <2>4. l + 1 \in Levels(j) /\ Width(j, l + 1) = w
    BY <1>2, <2>2, <2>3
  <2>5. PICK m \in Nat : (k = 2 * m \/ k = 2 * m + 1) /\ m < w
    <3>1. k < 2 * w
      BY <2>1, <2>2, <2>3
    <3>2. k \div 2 \in Nat /\ (k = 2 * (k \div 2) \/ k = 2 * (k \div 2) + 1)
      OBVIOUS
    <3>3. k \div 2 < w
      BY <3>1, <3>2
    <3> QED BY <3>2, <3>3
  <2> DEFINE p == <<j, l + 1, m>>
  <2>6. p \in Tasks /\ p \in TasksOf(j)
    <3>1. p \in Tasks
      BY <1>1, <2>4, <2>5, TaskAt
    <3> QED BY <3>1 DEF Tasks, TasksOf
  <2>7. task[p] = "done" /\ ~IsLeaf(p)
    BY <1>6, <2>2, <2>6 DEF IsLeaf
  <2>8. task[LeftOf(p)] = "done" /\ task[RightOf(p)] = "done"
    BY <2>6, <2>7 DEF ChildrenDone
  <2>9. LeftOf(p) = <<j, l, 2 * m>> /\ RightOf(p) = <<j, l, 2 * m + 1>>
    BY DEF LeftOf, RightOf
  <2> QED BY <2>1, <2>5, <2>8, <2>9
<1> HIDE DEF S
<1>7. \A d \in Nat : d \in S
  BY <1>5, <1>6, SetInduction
<1>8. ASSUME NEW t \in TasksOf(j) PROVE task[t] = "done"
  <2>1. PICK d \in Nat : d = e - t[2] /\ t[2] = e - d
    BY <1>3
  <2> QED BY <1>7, <2>1 DEF S
<1> QED BY <1>8

-----------------------------------------------------------------------------
(* The counting.                                                            *)

\* The tasks that count are inner tasks, the roots that count belong to accepted jobs.
LEMMA CountingFinite ==
  ASSUME OnlyAccepted
  PROVE  /\ \A j \in Jobs : IsFiniteSet(Counting(j))
         /\ \A h \in Hashes : /\ IsFiniteSet(MayHaveCounted(h))
                              /\ IsFiniteSet(RootsCounted(h))
                              /\ RootsCounted(h) \subseteq Accepted(h)
<1>1. ASSUME NEW j \in Jobs PROVE IsFiniteSet(Counting(j))
  <2>1. CASE Chunks(j) # 0
    <3>1. Counting(j) \in SUBSET Inner(j) /\ IsFiniteSet(Inner(j))
      BY <2>1, InnerCount DEF Counting
    <3> QED BY <3>1, FS_Subset
  <2>2. CASE Chunks(j) = 0
    <3>1. ASSUME NEW t \in Counting(j) PROVE FALSE
      <4>1. t[2] = 0
        BY <2>2 DEF Counting, Inner, TasksOf, Levels
      <4> QED BY <4>1 DEF Counting, Inner, IsLeaf
    <3>2. Counting(j) = {}
      BY <3>1
    <3> QED BY <3>2, FS_EmptySet
  <2> QED BY <2>1, <2>2
<1>2. ASSUME NEW h \in Hashes
      PROVE  /\ IsFiniteSet(MayHaveCounted(h))
             /\ IsFiniteSet(RootsCounted(h)) /\ RootsCounted(h) \subseteq Accepted(h)
  <2>1. IsFiniteSet(MayHaveCounted(h))
    <3>1. CASE Accepted(h) = {}
      BY <3>1, MayHaveCountedBound, FS_EmptySet
    <3>2. CASE Accepted(h) # {}
      BY <3>2, MayHaveCountedBound
    <3> QED BY <3>1, <3>2
  <2>2. RootsCounted(h) \in SUBSET Accepted(h) /\ IsFiniteSet(Accepted(h))
    BY DEF RootsCounted, RootCounted, OnlyAccepted, Accepted
  <2> QED BY <2>1, <2>2, FS_Subset
<1> QED BY <1>1, <1>2

\* If a root that is counted is the root of a trace with an odd number of blocks, it would
\* have looked up a block that is not there.
LEMMA CountedRootIsEven ==
  ASSUME RootInTrace, NEW j \in Jobs, NumBlocks[HashOf[j]] # 0, task[RootOf(j)] = "done"
  PROVE  NumBlocks[HashOf[j]] = 2 * Chunks(j)
<1>1. /\ Chunks(j) \in Nat \ {0} /\ NumBlocks[HashOf[j]] \in Nat \ {0, 1}
      /\ NumBlocks[HashOf[j]] \in {2 * Chunks(j) - 1, 2 * Chunks(j)}
  BY ChunksAre
<1>2. CASE IsLeaf(RootOf(j))
  <2>1. Width(j, 0) = 1
    BY <1>2, TaskRoot DEF IsLeaf
  <2> QED BY <1>1, <2>1, LeafWidth
<1>3. CASE ~IsLeaf(RootOf(j))
  <2>1. 2 * Chunks(j) - 1 < NumBlocks[HashOf[j]]
    BY <1>3 DEF RootInTrace, HasBlock
  <2> QED BY <1>1, <2>1
<1> QED BY <1>2, <1>3

\* What the clients see, from the invariant of the counting.
LEMMA CountInvAgrees == FoldInv /\ CountInv => CountersAgree
<1> SUFFICES ASSUME FoldInv, CountInv, NEW h \in Hashes
             PROVE  /\ db[h].complete <= db[h].total * Submissions(h)
                    /\ Stored(h) => db[h].complete >= db[h].total
  BY DEF CountersAgree
<1>1. db[h].complete \in Nat /\ db[h].total \in Nat
  BY DEF FoldInv, DbType
<1>2. OnlyAccepted /\ IsFiniteSet(Accepted(h)) /\ Submissions(h) = Cardinality(Accepted(h))
  BY DEF CountInv, OnlyAccepted, Submissions, Accepted
<1>3. PICK s \in Nat : s = Cardinality(Accepted(h))
  BY <1>2, FS_CardinalityType
<1>4. /\ IsFiniteSet(MayHaveCounted(h)) /\ IsFiniteSet(RootsCounted(h))
      /\ RootsCounted(h) \in SUBSET Accepted(h)
  BY <1>2, CountingFinite
<1>5. PICK m \in Nat, r \in Nat : m = Cardinality(MayHaveCounted(h)) /\ r = Cardinality(RootsCounted(h))
  BY <1>4, FS_CardinalityType
<1>6. db[h].complete <= 2 * m + r /\ r <= s
  BY <1>2, <1>3, <1>4, <1>5, FS_Subset DEF CountInv, CountedAtMost
<1>7. CASE Accepted(h) = {}
  <2>1. m = 0 /\ s = 0 /\ r = 0
    BY <1>2, <1>3, <1>5, <1>6, <1>7, MayHaveCountedBound, FS_EmptySet
  <2>2. db[h].total = 0
    BY <1>2, <1>7 DEF OnlyAccepted
  <2> QED BY <1>1, <1>2, <1>3, <1>6, <2>1, <2>2
<1>8. ASSUME NEW j \in Accepted(h)
      PROVE  /\ db[h].complete <= db[h].total * s
             /\ Stored(h) => db[h].complete >= db[h].total
  <2>1. /\ j \in Jobs /\ HashOf[j] = h /\ NumBlocks[h] # 0 /\ db[h].total = NumBlocks[h] - 1
    BY <1>2 DEF OnlyAccepted, Accepted
  <2>2. PICK c \in Nat \ {0} : /\ c = Chunks(j) /\ NumBlocks[h] \in {2 * c - 1, 2 * c}
    BY <2>1, ChunksAre
  <2>3. m <= s * (c - 1)
    BY <1>2, <1>3, <1>5, <2>2, MayHaveCountedBound
  <2>4. Stored(h) => db[h].complete >= db[h].total
    BY <2>1 DEF CountInv, StoredWhenCounted
  <2>5. CASE r = 0
    <3>1. db[h].complete <= 2 * (s * (c - 1))
      BY <1>1, <1>6, <2>3, <2>5
    <3>2. db[h].total = 2 * (c - 1) \/ db[h].total = 2 * (c - 1) + 1
      BY <2>1, <2>2
    <3>3. s * (2 * (c - 1)) = 2 * (s * (c - 1)) /\ s * (2 * (c - 1) + 1) = 2 * (s * (c - 1)) + s
      OBVIOUS
    <3>4. db[h].total * s = s * db[h].total
      BY <1>1
    <3> QED BY <1>1, <2>4, <3>1, <3>2, <3>3, <3>4
  <2>6. CASE r # 0
    <3>1. PICK i \in RootsCounted(h) : TRUE
      BY <1>4, <1>5, <2>6, FS_EmptySet
    <3>2. i \in Jobs /\ HashOf[i] = h /\ task[RootOf(i)] = "done"
      BY <3>1 DEF RootsCounted, RootCounted
    <3>3. NumBlocks[h] = 2 * c
      BY <2>1, <2>2, <3>2, CountedRootIsEven, SameChunks DEF CountInv
    <3>4. db[h].total = 2 * (c - 1) + 1
      BY <2>1, <2>2, <3>3
    <3>5. db[h].complete <= 2 * (s * (c - 1)) + s
      BY <1>1, <1>6, <2>3
    <3>6. (2 * (c - 1) + 1) * s = 2 * (s * (c - 1)) + s
      OBVIOUS
    <3> QED BY <2>4, <3>4, <3>5, <3>6
  <2> QED BY <2>5, <2>6
<1> QED BY <1>2, <1>3, <1>7, <1>8

-----------------------------------------------------------------------------
(* The invariant of the counting is inductive.                              *)

\* No job is accepted and nothing is counted at first.
LEMMA CountInit == Init => CountInv
<1> SUFFICES ASSUME Init PROVE CountInv
  OBVIOUS
<1>1. /\ \A t \in Tasks : task[t] = "unborn"
      /\ \A j \in Jobs : reply[j] = "none" /\ final[j] = "unborn" /\ HashOf[j] \in Hashes
      /\ \A h \in Hashes : db[h].complete = 0 /\ db[h].total = 0 /\ db[h].proof = NoProof
  BY NetworkAssumption DEF Init
<1>2. \A h \in Hashes : /\ Accepted(h) = {} /\ MayHaveCounted(h) = {} /\ RootsCounted(h) = {}
  BY <1>1 DEF Accepted, MayHaveCounted, RootsCounted, RootCounted
<1>3. \A j \in Jobs : Counting(j) = {}
  BY <1>1 DEF Counting, Inner, Tasks
<1>4. IsFiniteSet({}) /\ Cardinality({}) = 0
  BY FS_EmptySet
<1>5. OnlyAccepted
  <2>1. \A h \in Hashes : IsFiniteSet(Accepted(h))
    BY <1>2, <1>4
  <2>2. \A j \in Jobs : reply[j] # "accepted"
    BY <1>1
  <2> QED BY <1>1, <2>1, <2>2 DEF OnlyAccepted
<1>6. RootInTrace
  BY <1>1, TaskRoot DEF RootInTrace
<1>7. CountedAtLeast
  <2> SUFFICES ASSUME NEW j \in Jobs
               PROVE  db[HashOf[j]].complete >=
                        2 * Cardinality(Counting(j)) + (IF final[j] \in {"verify", "done"} THEN 1 ELSE 0)
    BY DEF CountedAtLeast
  <2>1. Cardinality(Counting(j)) = 0
    BY <1>3, <1>4
  <2> QED BY <1>1, <2>1
<1>8. CountedAtMost
  <2> SUFFICES ASSUME NEW h \in Hashes
               PROVE  db[h].complete <=
                        2 * Cardinality(MayHaveCounted(h)) + Cardinality(RootsCounted(h))
    BY DEF CountedAtMost
  <2>1. Cardinality(MayHaveCounted(h)) = 0 /\ Cardinality(RootsCounted(h)) = 0
    BY <1>2, <1>4
  <2> QED BY <1>1, <2>1
<1>9. StoredWhenCounted /\ LeavesDoNotAwait
  BY <1>1 DEF StoredWhenCounted, Stored, LeavesDoNotAwait
<1> QED BY <1>5, <1>6, <1>7, <1>8, <1>9 DEF CountInv

\* A step that changes no request, task or entry.
LEMMA CountFrame == ASSUME CountInv, UNCHANGED <<reply, final, db, task>> PROVE CountInv'
<1>1. \A h : /\ Accepted(h)' = Accepted(h) /\ MayHaveCounted(h)' = MayHaveCounted(h)
             /\ RootsCounted(h)' = RootsCounted(h) /\ Stored(h)' = Stored(h)
  BY DEF Accepted, MayHaveCounted, RootsCounted, RootCounted, Stored
<1>2. \A j : Counting(j)' = Counting(j)
  BY DEF Counting
<1>3. OnlyAccepted' /\ LeavesDoNotAwait' /\ RootInTrace'
  BY <1>1 DEF CountInv, OnlyAccepted, LeavesDoNotAwait, RootInTrace
<1>4. CountedAtLeast' /\ CountedAtMost' /\ StoredWhenCounted'
  BY <1>1, <1>2 DEF CountInv, CountedAtLeast, CountedAtMost, StoredWhenCounted
<1> QED BY <1>3, <1>4 DEF CountInv

\* An accepted request: its entry has the length of its trace, and its tasks count nothing
\* yet.
LEMMA SubmitCounts ==
  ASSUME WorkInv, FoldInv, CountInv, NEW j \in Jobs, SubmitProgram(j)
  PROVE  CountInv'
<1>1. /\ reply[j] = "none" /\ NumBlocks[HashOf[j]] # 0 /\ HashOf[j] \in Hashes
      /\ final[j] = "unborn" /\ \A t \in Tasks : Job(t) = j => task[t] = "unborn"
  BY NetworkAssumption DEF SubmitProgram, CountInv, OnlyAccepted
<1>2. /\ \A i \in Jobs : /\ reply'[i] = IF i = j THEN "accepted" ELSE reply[i]
                         /\ final'[i] = IF i = j THEN "await" ELSE final[i]
      /\ \A t \in Tasks : task'[t] = IF Job(t) # j THEN task[t]
                                     ELSE IF IsLeaf(t) THEN "send" ELSE "await_l"
  BY DEF SubmitProgram, WorkInv, ControlType, FoldInv
<1>3. \A h \in Hashes : /\ db'[h].complete = db[h].complete /\ db'[h].proof = db[h].proof
                        /\ db'[h].total = IF h = HashOf[j] THEN NumBlocks[h] - 1 ELSE db[h].total
  BY <1>1 DEF SubmitProgram, NewProof, FoldInv, DbType
<1>4. ASSUME NEW h \in Hashes
      PROVE  /\ Accepted(h)' = IF h = HashOf[j] THEN Accepted(h) \cup {j} ELSE Accepted(h)
             /\ MayHaveCounted(h)' = MayHaveCounted(h)
             /\ RootsCounted(h)' = RootsCounted(h)
  <2>1. Accepted(h)' = IF h = HashOf[j] THEN Accepted(h) \cup {j} ELSE Accepted(h)
    BY <1>2 DEF Accepted
  <2>2. MayHaveCounted(h)' = MayHaveCounted(h)
    BY <1>1, <1>2 DEF MayHaveCounted
  <2>3. \A i \in Jobs : RootCounted(i)' = RootCounted(i)
    <3> SUFFICES ASSUME NEW i \in Jobs PROVE RootCounted(i)' = RootCounted(i)
      OBVIOUS
    <3>1. CASE i = j
      BY <1>1, <1>2, <3>1 DEF RootCounted
    <3>2. CASE i # j /\ final[i] # "unborn"
      <4>1. RootOf(i) \in Tasks /\ Job(RootOf(i)) = i
        BY <3>2, TaskRoot DEF FoldInv, FinalRight
      <4> QED BY <1>2, <3>2, <4>1 DEF RootCounted
    <3>3. CASE i # j /\ final[i] = "unborn"
      BY <1>2, <3>3 DEF RootCounted
    <3> QED BY <3>1, <3>2, <3>3
  <2> QED BY <2>1, <2>2, <2>3 DEF RootsCounted
<1>5. \A i \in Jobs : Counting(i)' = Counting(i)
  <2> SUFFICES ASSUME NEW i \in Jobs, NEW t \in Inner(i)
               PROVE  task'[t] \in {"send", "waiting", "done"} <=> task[t] \in {"send", "waiting", "done"}
    BY DEF Counting
  <2>1. t \in Tasks /\ ~IsLeaf(t)
    BY DEF Inner, Tasks
  <2> QED BY <1>1, <1>2, <2>1
<1>6. OnlyAccepted'
  <2>1. ASSUME NEW h \in Hashes PROVE IsFiniteSet(Accepted(h)')
    <3>1. IsFiniteSet(Accepted(h))
      BY DEF CountInv, OnlyAccepted
    <3>2. IsFiniteSet(Accepted(h) \cup {j})
      BY <3>1, FS_AddElement
    <3> QED BY <1>4, <3>1, <3>2
  <2>2. \A t \in Tasks : task'[t] # "unborn" => reply'[Job(t)] = "accepted"
    BY <1>2, JobOfTask DEF CountInv, OnlyAccepted
  <2>3. \A i \in Jobs : final'[i] # "unborn" => reply'[i] = "accepted"
    BY <1>2 DEF CountInv, OnlyAccepted
  <2>4. \A i \in Jobs : reply'[i] = "accepted" =>
          NumBlocks[HashOf[i]] # 0 /\ db'[HashOf[i]].total = NumBlocks[HashOf[i]] - 1
    BY <1>1, <1>2, <1>3, NetworkAssumption DEF CountInv, OnlyAccepted
  <2>5. \A h \in Hashes : Accepted(h)' = {} => db'[h].total = 0
    BY <1>3, <1>4 DEF CountInv, OnlyAccepted
  <2> QED BY <2>1, <2>2, <2>3, <2>4, <2>5 DEF OnlyAccepted
<1>7. RootInTrace'
  <2> SUFFICES ASSUME NEW i \in Jobs, NumBlocks[HashOf[i]] # 0, ~IsLeaf(RootOf(i)),
                      task'[RootOf(i)] \in {"send", "waiting", "done"}
               PROVE  HasBlock(i, 2 * Chunks(i) - 1)
    BY DEF RootInTrace
  <2>1. RootOf(i) \in Tasks
    BY TaskRoot
  <2>2. task[RootOf(i)] \in {"send", "waiting", "done"}
    BY <1>2, <2>1
  <2> QED BY <2>2 DEF CountInv, RootInTrace
<1>8. CountedAtLeast'
  <2> SUFFICES ASSUME NEW i \in Jobs
               PROVE  db'[HashOf[i]].complete >=
                        2 * Cardinality(Counting(i)') + (IF final'[i] \in {"verify", "done"} THEN 1 ELSE 0)
    BY DEF CountedAtLeast
  <2>1. HashOf[i] \in Hashes
    BY NetworkAssumption
  <2>2. final'[i] \in {"verify", "done"} <=> final[i] \in {"verify", "done"}
    BY <1>1, <1>2
  <2> QED BY <1>3, <1>5, <2>1, <2>2 DEF CountInv, CountedAtLeast
<1>9. CountedAtMost' /\ StoredWhenCounted' /\ LeavesDoNotAwait'
  <2>1. CountedAtMost'
    BY <1>3, <1>4 DEF CountInv, CountedAtMost
  <2>2. StoredWhenCounted'
    BY <1>3 DEF CountInv, StoredWhenCounted, Stored
  <2>3. LeavesDoNotAwait'
    BY <1>2 DEF CountInv, LeavesDoNotAwait
  <2> QED BY <2>1, <2>2, <2>3
<1> QED BY <1>6, <1>7, <1>8, <1>9 DEF CountInv

\* A refused request is not an accepted one.
LEMMA RefuseCounts ==
  ASSUME WorkInv, CountInv, NEW j \in Jobs, RejectProgram(j) \/ NotFound(j)
  PROVE  CountInv'
<1>1. /\ UNCHANGED <<db, task, final>>
      /\ \A i \in Jobs : reply'[i] = "accepted" <=> reply[i] = "accepted"
  BY DEF RejectProgram, NotFound, WorkInv, ControlType
<1>2. \A h : /\ Accepted(h)' = Accepted(h) /\ MayHaveCounted(h)' = MayHaveCounted(h)
             /\ RootsCounted(h)' = RootsCounted(h) /\ Stored(h)' = Stored(h)
  BY <1>1 DEF Accepted, MayHaveCounted, RootsCounted, RootCounted, Stored
<1>3. \A i : Counting(i)' = Counting(i)
  BY <1>1 DEF Counting
<1>4. OnlyAccepted' /\ LeavesDoNotAwait' /\ RootInTrace'
  <2>1. \A t \in Tasks : Job(t) \in Jobs
    BY JobOfTask
  <2>2. OnlyAccepted'
    BY <1>1, <1>2, <2>1 DEF CountInv, OnlyAccepted
  <2> QED BY <1>1, <2>2 DEF CountInv, LeavesDoNotAwait, RootInTrace
<1>5. CountedAtLeast' /\ CountedAtMost' /\ StoredWhenCounted'
  BY <1>1, <1>2, <1>3 DEF CountInv, CountedAtLeast, CountedAtMost, StoredWhenCounted
<1> QED BY <1>4, <1>5 DEF CountInv

\* A step that adds c to the count of the program of task t, and changes no other entry.
Adds(t, c) ==
    \A h \in Hashes : /\ db'[h].complete = db[h].complete + (IF h = HashOf[Job(t)] THEN c ELSE 0)
                      /\ db'[h].total = db[h].total /\ db'[h].proof = db[h].proof

\* When task t goes to s it counts its children exactly if it leaves the state in which it
\* awaits the right one, other than by the panic of that child; and the root asks for its
\* fold only if the block after its right child is in the trace.
MayCount(t, s, c) ==
    /\ task[t] \notin {"unborn", "done", "panicked"}
    /\ c = 0 => (s \in {"send", "waiting", "done"} => task[t] \in {"send", "waiting"})
    /\ c = 0 => (s = "await_r" => task[t] = "await_l")
    /\ c = 2 => task[t] = "await_r" /\ s \in {"send", "panicked"} /\ ~IsLeaf(t)
    /\ c = 2 /\ s = "send" /\ t = RootOf(Job(t)) => HasBlock(Job(t), 2 * Chunks(Job(t)) - 1)

\* A task goes on: when it asks for its fold, or panics instead, it counts its two children,
\* and the root asks only for a block of the trace.
LEMMA MoveCounts ==
  ASSUME ControlType, DbType, CountInv, UNCHANGED <<reply, final>>,
         NEW t \in Tasks, NEW s \in {"await_r", "send", "waiting", "done", "panicked"}, NEW c \in {0, 2},
         task' = [task EXCEPT ![t] = s], Adds(t, c),
         MayCount(t, s, c)
  PROVE  CountInv'
<1> USE DEF MayCount
<1>1. /\ \A u \in Tasks : task'[u] = IF u = t THEN s ELSE task[u]
      /\ OnlyAccepted /\ Job(t) \in Jobs
  BY JobOfTask DEF ControlType, CountInv
<1>2. \A h \in Hashes : /\ Accepted(h)' = Accepted(h) /\ IsFiniteSet(Accepted(h))
                        /\ db[h].complete \in Nat /\ Stored(h)' = Stored(h)
                        /\ db'[h].complete = db[h].complete + (IF h = HashOf[Job(t)] THEN c ELSE 0)
                        /\ db'[h].total = db[h].total /\ db'[h].proof = db[h].proof
  BY <1>1 DEF Accepted, OnlyAccepted, DbType, Stored, Adds
<1>3. ASSUME NEW h \in Hashes
      PROVE  db'[h].complete <=
                  2 * Cardinality(MayHaveCounted(h)') + Cardinality(RootsCounted(h)')
  <2>1. IsFiniteSet(MayHaveCounted(h)) /\ IsFiniteSet(RootsCounted(h))
    BY <1>1, CountingFinite
  <2>2. MayHaveCounted(h)' \in SUBSET (MayHaveCounted(h) \cup {t})
    BY <1>1 DEF MayHaveCounted
  <2>3. MayHaveCounted(h) \subseteq MayHaveCounted(h)'
    BY <1>1 DEF MayHaveCounted
  <2>4. c = 2 /\ h = HashOf[Job(t)] => t \notin MayHaveCounted(h) /\ t \in MayHaveCounted(h)'
    BY <1>1 DEF MayHaveCounted
  <2>5. RootsCounted(h)' \in SUBSET Accepted(h)
    BY <1>1 DEF RootsCounted, RootCounted, Accepted, OnlyAccepted
  <2>6. RootsCounted(h) \subseteq RootsCounted(h)'
    <3> SUFFICES ASSUME NEW i \in RootsCounted(h) PROVE i \in RootsCounted(h)'
      OBVIOUS
    <3>1. i \in Jobs /\ HashOf[i] = h /\ final[i] \notin {"unborn", "await"} /\ task[RootOf(i)] = "done"
      BY DEF RootsCounted, RootCounted
    <3>2. NumBlocks[HashOf[i]] # 0
      BY <1>1, <3>1 DEF OnlyAccepted
    <3>3. RootOf(i) \in Tasks
      BY <3>1, <3>2, TaskRoot
    <3>4. task'[RootOf(i)] = "done"
      BY <1>1, <3>1, <3>3
    <3> QED BY <3>1, <3>4 DEF RootsCounted, RootCounted
  <2>7. IsFiniteSet(MayHaveCounted(h) \cup {t})
    BY <2>1, FS_AddElement
  <2>8. IsFiniteSet(MayHaveCounted(h)') /\ IsFiniteSet(RootsCounted(h)')
    BY <1>2, <2>2, <2>5, <2>7, FS_Subset
  <2>9. PICK m, n, r, q \in Nat : /\ m = Cardinality(MayHaveCounted(h)) /\ n = Cardinality(MayHaveCounted(h)')
                                  /\ r = Cardinality(RootsCounted(h)) /\ q = Cardinality(RootsCounted(h)')
    BY <2>1, <2>8, FS_CardinalityType
  <2>10. m <= n /\ r <= q
    BY <2>3, <2>6, <2>8, <2>9, FS_Subset
  <2>11. c = 2 /\ h = HashOf[Job(t)] => m + 1 <= n
    <3> SUFFICES ASSUME c = 2, h = HashOf[Job(t)] PROVE m + 1 <= n
      OBVIOUS
    <3>1. MayHaveCounted(h) \cup {t} \in SUBSET (MayHaveCounted(h)')
      BY <2>3, <2>4
    <3>2. Cardinality(MayHaveCounted(h) \cup {t}) = m + 1
      BY <2>1, <2>4, <2>9, FS_AddElement
    <3> QED BY <2>8, <2>9, <3>1, <3>2, FS_Subset
  <2>12. db[h].complete <= 2 * m + r
    BY <2>9 DEF CountInv, CountedAtMost
  <2> QED BY <1>2, <2>9, <2>10, <2>11, <2>12
<1>4. ASSUME NEW i \in Jobs
      PROVE  db'[HashOf[i]].complete >=
                        2 * Cardinality(Counting(i)') + (IF final'[i] \in {"verify", "done"} THEN 1 ELSE 0)
  <2>1. HashOf[i] \in Hashes
    BY NetworkAssumption
  <2>2. IsFiniteSet(Counting(i)) /\ IsFiniteSet(Counting(i) \cup {t})
    BY <1>1, CountingFinite, FS_AddElement
  <2>3. \A u \in Inner(i) : u \in Tasks /\ Job(u) = i
    BY DEF Inner, Tasks, TasksOf, Job
  <2>4. Counting(i)' \in SUBSET (Counting(i) \cup {t})
    BY <1>1, <2>3 DEF Counting
  <2>5. c = 0 \/ i # Job(t) => Counting(i)' \in SUBSET Counting(i)
    BY <1>1, <2>3 DEF Counting
  <2>6. IsFiniteSet(Counting(i)')
    BY <2>2, <2>4, FS_Subset
  <2>7. PICK m, n, l \in Nat : /\ m = Cardinality(Counting(i)) /\ n = Cardinality(Counting(i)')
                               /\ l = Cardinality(Counting(i) \cup {t})
    BY <2>2, <2>6, FS_CardinalityType
  <2>8. n <= l /\ l <= m + 1
    BY <2>2, <2>4, <2>7, FS_Subset, FS_AddElement
  <2>9. c = 0 \/ i # Job(t) => n <= m
    BY <2>2, <2>5, <2>7, FS_Subset
  <2>10. db[HashOf[i]].complete >= 2 * m + (IF final[i] \in {"verify", "done"} THEN 1 ELSE 0)
    BY <2>7 DEF CountInv, CountedAtLeast
  <2>11. CASE c = 2 /\ i = Job(t)
    <3>1. db'[HashOf[i]].complete = db[HashOf[i]].complete + 2
      BY <1>2, <2>1, <2>11
    <3> QED BY <1>2, <2>1, <2>7, <2>8, <2>10, <3>1
  <2>12. CASE c = 0 \/ i # Job(t)
    <3>1. db'[HashOf[i]].complete >= db[HashOf[i]].complete
      BY <1>2, <2>1
    <3> QED BY <1>2, <2>1, <2>7, <2>9, <2>10, <2>12, <3>1
  <2> QED BY <2>11, <2>12
<1>5. OnlyAccepted'
  <2>1. \A u \in Tasks : task'[u] # "unborn" => reply[Job(u)] = "accepted"
    BY <1>1 DEF OnlyAccepted
  <2>2. \A i \in Jobs : HashOf[i] \in Hashes
    BY NetworkAssumption
  <2> QED BY <1>1, <1>2, <2>1, <2>2 DEF OnlyAccepted
<1>6. RootInTrace'
  <2> SUFFICES ASSUME NEW i \in Jobs, NumBlocks[HashOf[i]] # 0, ~IsLeaf(RootOf(i)),
                      task'[RootOf(i)] \in {"send", "waiting", "done"}
               PROVE  HasBlock(i, 2 * Chunks(i) - 1)
    BY DEF RootInTrace
  <2>1. RootOf(i) \in Tasks /\ Job(RootOf(i)) = i
    BY TaskRoot
  <2>2. CASE task[RootOf(i)] \in {"send", "waiting", "done"}
    BY <2>2 DEF CountInv, RootInTrace
  <2>3. CASE task[RootOf(i)] \notin {"send", "waiting", "done"}
    <3>1. RootOf(i) = t /\ s \in {"send", "waiting", "done"} /\ task[t] \notin {"send", "waiting"}
      BY <1>1, <2>1, <2>3
    <3> QED BY <2>1, <3>1
  <2> QED BY <2>2, <2>3
<1>7. StoredWhenCounted'
  <2> SUFFICES ASSUME NEW h \in Hashes, Stored(h)' PROVE db'[h].complete >= NumBlocks[h] - 1
    BY DEF StoredWhenCounted
  <2>1. db[h].complete >= NumBlocks[h] - 1 /\ NumBlocks[h] \in Nat
    BY <1>2, NetworkAssumption DEF CountInv, StoredWhenCounted
  <2> QED BY <1>2, <2>1
<1>8. LeavesDoNotAwait'
  BY <1>1 DEF CountInv, LeavesDoNotAwait
<1> QED BY <1>3, <1>4, <1>5, <1>6, <1>7, <1>8 DEF CountInv, CountedAtLeast, CountedAtMost

\* A task of manage_proof counts its children when both are there, and only then.
LEMMA TaskCounts ==
  ASSUME WorkInv, FoldInv, CountInv, NEW t \in Tasks, TaskStep(t)
  PROVE  CountInv'
<1>1. ControlType /\ DbType /\ UNCHANGED <<reply, final>>
  <2>1. UNCHANGED <<reply, final>>
    BY DEF TaskStep, SendWork, AwaitLeft, AwaitRight, AwaitRightPanics
  <2> QED BY <2>1 DEF WorkInv, FoldInv
<1>2. \A h \in Hashes : db[h].complete \in Nat
  BY <1>1 DEF DbType
<1>3. CASE SendWork(t) \/ AwaitLeft(t) \/ AwaitRightPanics(t)
  <2>1. PICK s \in {"await_r", "waiting", "panicked"} :
           /\ task' = [task EXCEPT ![t] = s] /\ task[t] \in {"await_l", "await_r", "send"}
           /\ s = "await_r" => task[t] = "await_l"
           /\ s = "waiting" => task[t] = "send"
    BY <1>3 DEF SendWork, AwaitLeft, AwaitRightPanics
  <2>2. db' = db
    BY <1>3 DEF SendWork, AwaitLeft, AwaitRightPanics
  <2>3. Adds(t, 0)
    BY <1>2, <2>2 DEF Adds
  <2>4. MayCount(t, s, 0) /\ s \in {"await_r", "send", "waiting", "done", "panicked"}
    BY <2>1 DEF MayCount
  <2> QED BY <1>1, <2>1, <2>3, <2>4, MoveCounts
<1>4. CASE AwaitRight(t)
  <2>1. PICK s \in {"send", "panicked"} :
           /\ task' = [task EXCEPT ![t] = s] /\ task[t] = "await_r" /\ task[RightOf(t)] = "done"
           /\ s = "send" => HasBlock(Job(t), node[RightOf(t)].j)
    BY <1>4 DEF AwaitRight
  <2>2. ~IsLeaf(t)
    BY <2>1 DEF CountInv, LeavesDoNotAwait
  <2>3. Adds(t, 2)
    <3>1. db' = [db EXCEPT ![HashOf[Job(t)]].complete = @ + 2]
      BY <1>4 DEF AwaitRight, UpdateComplete
    <3> QED BY <1>1, <1>2, <3>1 DEF DbType, Adds
  <2>4. ASSUME s = "send", t = RootOf(Job(t))
        PROVE  HasBlock(Job(t), 2 * Chunks(Job(t)) - 1)
    <3>1. PICK j \in Jobs : j = Job(t) /\ t[1] = j /\ NumBlocks[HashOf[j]] # 0
      BY TaskParts, ChunksPositive
    <3>2. t[3] = 0 /\ Width(j, t[2]) = 1
      BY <2>4, <3>1, TaskRoot
    <3>3. /\ RightOf(t) \in Tasks /\ Width(j, t[2] - 1) = 2
          /\ RightOf(t) = <<j, t[2] - 1, 1>>
      BY <2>2, <3>1, <3>2, TaskChildren DEF RightOf
    <3>4. NodeRight(RightOf(t))
      BY <2>1, <3>3 DEF FoldInv, NodesRight
    <3>5. RightOf(t)[3] + 1 = Width(Job(RightOf(t)), RightOf(t)[2]) /\ Job(RightOf(t)) = j
      BY <3>3 DEF Job
    <3>6. node[RightOf(t)].j = 2 * Chunks(j) - 1
      BY <3>4, <3>5 DEF NodeRight
    <3> QED BY <2>1, <2>4, <3>1, <3>6
  <2>5. MayCount(t, s, 2) /\ s \in {"await_r", "send", "waiting", "done", "panicked"}
    BY <2>1, <2>2, <2>4 DEF MayCount
  <2> QED BY <1>1, <2>1, <2>3, <2>5, MoveCounts
<1> QED BY <1>3, <1>4 DEF TaskStep

\* Whoever holds the work of a task answers it or drops it, and counts nothing.
LEMMA HolderCounts ==
  ASSUME WorkInv, FoldInv, CountInv,
         \/ LocalStep \/ LocalProveFails \/ MsmStep
         \/ \E p \in Peers : Connect(p) \/ Disconnect(p) \/ ProxyStep(p)
  PROVE  CountInv'
<1>1. ControlType /\ DbType
  BY DEF WorkInv, FoldInv
<1>2. UNCHANGED <<reply, final, db>>
  BY DEF LocalStep, LocalProveFails, MsmStep, Connect, Disconnect, ProxyStep,
     LocalRecv, LocalRequestMsm, LocalReply, LocalPanics, MsmRecv, MsmReply, PcdProxyRecv,
     PcdProxyReply, PcdProxyFails, MsmProxyRecv, MsmProxyReply, MsmProxyFails
<1>3. CASE UNCHANGED task
  BY <1>2, <1>3, CountFrame
<1>4. ASSUME NEW t \in Tasks, task[t] = "waiting", Respond(t) \/ Drop(t) PROVE CountInv'
  <2>1. PICK s \in {"done", "panicked"} : task' = [task EXCEPT ![t] = s]
    BY <1>4 DEF Respond, Drop
  <2>2. Adds(t, 0)
    BY <1>1, <1>2 DEF DbType, Adds
  <2>3. MayCount(t, s, 0) /\ s \in {"await_r", "send", "waiting", "done", "panicked"}
    BY <1>4, <2>1 DEF MayCount
  <2> QED BY <1>1, <1>2, <1>4, <2>1, <2>2, <2>3, MoveCounts
<1>5. CASE LocalReply \/ LocalPanics \/ LocalProveFails
  <2>1. localWork \in Tasks /\ task[localWork] = "waiting"
    BY <1>5 DEF LocalReply, LocalPanics, LocalProveFails, WorkInv, ControlType, HoldersBusy,
       WorkInOnePlace, WaitingHasWork, WithLocal
  <2> QED BY <1>4, <1>5, <2>1 DEF LocalReply, LocalPanics, LocalProveFails
<1>6. ASSUME NEW p \in Peers, PcdProxyReply(p) \/ PcdProxyFails(p) PROVE CountInv'
  <2>1. p \in PcdPeers /\ proxy[p] = "busy"
    BY <1>6 DEF PcdProxyReply, PcdProxyFails
  <2>2. held[p] \in Tasks
    BY <2>1 DEF WorkInv, ControlType, HoldersBusy
  <2>3. task[held[p]] = "waiting"
    BY <2>1, <2>2 DEF WorkInv, WorkInOnePlace, WaitingHasWork, WithProxy
  <2> QED BY <1>4, <1>6, <2>2, <2>3 DEF PcdProxyReply, PcdProxyFails
<1>7. \/ UNCHANGED task \/ LocalReply \/ LocalPanics \/ LocalProveFails
      \/ \E p \in Peers : PcdProxyReply(p) \/ PcdProxyFails(p)
  BY DEF LocalStep, MsmStep, Connect, Disconnect, ProxyStep, LocalRecv,
     LocalRequestMsm, MsmRecv, MsmReply, PcdProxyRecv, MsmProxyRecv, MsmProxyReply, MsmProxyFails
<1> QED BY <1>3, <1>5, <1>6, <1>7

\* The last task of manage_proof goes to a and counts c: it panics when the root did, or
\* counts the root, or stores it.
FinalMove(j, a, c) ==
    /\ final' = [final EXCEPT ![j] = a] /\ UNCHANGED <<reply, task>>
    /\ \/ a = "panicked" /\ c = 0 /\ db' = db
          /\ (final[j] = "await" => task[RootOf(j)] # "done") /\ final[j] \in {"await", "verify"}
       \/ a = "verify" /\ c = 1 /\ UpdateComplete(HashOf[j], 1)
          /\ final[j] = "await" /\ task[RootOf(j)] = "done"
       \/ a = "done" /\ c = 0 /\ UpdateProof(HashOf[j], node[RootOf(j)]) /\ final[j] = "verify"

\* The last task of manage_proof counts the root once, and stores it when every task of the
\* job has counted.
LEMMA FinalCounts ==
  ASSUME WorkInv, FoldInv, CountInv, NEW j \in Jobs, FinalStep(j)
  PROVE  CountInv'
<1>0. \E a \in {"verify", "done", "panicked"}, c \in {0, 1} : FinalMove(j, a, c)
  <2>1. CASE AwaitRoot(j)
    <3>1. FinalMove(j, "verify", 1)
      BY <2>1 DEF AwaitRoot, FinalMove
    <3> QED BY <3>1
  <2>2. CASE AwaitRootPanics(j)
    <3>1. FinalMove(j, "panicked", 0)
      BY <2>2 DEF AwaitRootPanics, FinalMove
    <3> QED BY <3>1
  <2>3. CASE StoreProof(j)
    <3>1. FinalMove(j, "panicked", 0) \/ FinalMove(j, "done", 0)
      BY <2>3 DEF StoreProof, FinalMove
    <3> QED BY <3>1
  <2> QED BY <2>1, <2>2, <2>3 DEF FinalStep
<1>1. PICK a \in {"verify", "done", "panicked"}, c \in {0, 1} : FinalMove(j, a, c)
  BY <1>0
<1> USE DEF FinalMove
<1>2. /\ OnlyAccepted /\ HashOf[j] \in Hashes /\ final[j] \in {"await", "verify"}
      /\ \A i \in Jobs : final'[i] = IF i = j THEN a ELSE final[i]
      /\ NumBlocks[HashOf[j]] # 0 /\ reply[j] = "accepted"
      /\ final[j] = "verify" => task[RootOf(j)] = "done"
  BY <1>1, NetworkAssumption DEF CountInv, OnlyAccepted, FoldInv, FinalRight
<1>3. \A h \in Hashes : /\ db[h].complete \in Nat
                        /\ db'[h].complete = db[h].complete + (IF h = HashOf[j] THEN c ELSE 0)
                        /\ db'[h].total = db[h].total
                        /\ a = "done" \/ db'[h].proof = db[h].proof
                        /\ h = HashOf[j] \/ db'[h].proof = db[h].proof
  BY <1>1, <1>2 DEF FoldInv, DbType, UpdateComplete, UpdateProof
<1>4. \A h \in Hashes : /\ Accepted(h)' = Accepted(h) /\ MayHaveCounted(h)' = MayHaveCounted(h)
  BY <1>1 DEF Accepted, MayHaveCounted
<1>5. \A i \in Jobs : Counting(i)' = Counting(i)
  BY <1>1 DEF Counting
<1>6. OnlyAccepted' /\ RootInTrace' /\ LeavesDoNotAwait'
  <2>1. OnlyAccepted'
    BY <1>1, <1>2, <1>3, <1>4, NetworkAssumption DEF OnlyAccepted
  <2> QED BY <1>1, <2>1 DEF CountInv, RootInTrace, LeavesDoNotAwait
<1>7. CountedAtLeast'
  <2> SUFFICES ASSUME NEW i \in Jobs
               PROVE  db'[HashOf[i]].complete >=
                        2 * Cardinality(Counting(i)) + (IF final'[i] \in {"verify", "done"} THEN 1 ELSE 0)
    BY <1>5 DEF CountedAtLeast
  <2>1. HashOf[i] \in Hashes
    BY NetworkAssumption
  <2>2. PICK n \in Nat : n = Cardinality(Counting(i))
    BY <1>2, CountingFinite, FS_CardinalityType
  <2>3. db[HashOf[i]].complete >= 2 * n + (IF final[i] \in {"verify", "done"} THEN 1 ELSE 0)
    BY <2>2 DEF CountInv, CountedAtLeast
  <2>4. final'[i] \in {"verify", "done"} => final[i] \in {"verify", "done"} \/ (i = j /\ c = 1)
    BY <1>1, <1>2
  <2>5. db'[HashOf[i]].complete >= db[HashOf[i]].complete + (IF i = j THEN c ELSE 0)
    BY <1>1, <1>3, <2>1
  <2> QED BY <1>1, <1>3, <2>1, <2>2, <2>3, <2>4, <2>5
<1>8. CountedAtMost'
  <2> SUFFICES ASSUME NEW h \in Hashes
               PROVE  db'[h].complete <=
                        2 * Cardinality(MayHaveCounted(h)) + Cardinality(RootsCounted(h)')
    BY <1>4 DEF CountedAtMost
  <2>1. IsFiniteSet(MayHaveCounted(h)) /\ IsFiniteSet(RootsCounted(h))
    BY <1>2, CountingFinite
  <2>2. PICK m, r \in Nat : m = Cardinality(MayHaveCounted(h)) /\ r = Cardinality(RootsCounted(h))
    BY <2>1, FS_CardinalityType
  <2>3. db[h].complete <= 2 * m + r
    BY <2>2 DEF CountInv, CountedAtMost
  <2>4. CASE c = 1 /\ h = HashOf[j]
    <3>1. j \notin RootsCounted(h) /\ RootsCounted(h)' = RootsCounted(h) \cup {j}
      BY <1>1, <1>2, <2>4 DEF RootsCounted, RootCounted
    <3>2. Cardinality(RootsCounted(h)') = r + 1
      BY <2>1, <2>2, <3>1, FS_AddElement
    <3> QED BY <1>3, <2>2, <2>3, <2>4, <3>2
  <2>5. CASE c = 0 \/ h # HashOf[j]
    <3>1. RootsCounted(h)' = RootsCounted(h)
      BY <1>1, <1>2, <2>5 DEF RootsCounted, RootCounted
    <3>2. db'[h].complete = db[h].complete
      BY <1>3, <2>5
    <3> QED BY <2>2, <2>3, <3>1, <3>2
  <2> QED BY <1>1, <2>4, <2>5
<1>9. StoredWhenCounted'
  <2> SUFFICES ASSUME NEW h \in Hashes, Stored(h)' PROVE db'[h].complete >= NumBlocks[h] - 1
    BY DEF StoredWhenCounted
  <2>1. PICK x, y, z \in Nat : /\ x = NumBlocks[h] /\ y = db[h].complete /\ z = db'[h].complete
                               /\ y <= z
    BY <1>1, <1>3, NetworkAssumption
  <2>2. CASE Stored(h)
    <3>1. y >= x - 1
      BY <2>1, <2>2 DEF CountInv, StoredWhenCounted
    <3> QED BY <2>1, <3>1
  <2>3. CASE ~Stored(h)
    <3>1. a = "done" /\ h = HashOf[j] /\ final[j] = "verify" /\ c = 0
      BY <1>1, <1>3, <2>3 DEF Stored
    <3>2. PICK n \in Nat \ {0} : n = Chunks(j) /\ NumBlocks[h] \in {2 * n - 1, 2 * n}
      BY <1>2, <3>1, ChunksAre
    <3>3. Counting(j) = Inner(j)
      BY <1>2, <3>1, RootIsLast DEF Counting, Inner, FoldInv
    <3>4. Cardinality(Counting(j)) = n - 1
      BY <3>2, <3>3, InnerCount
    <3>5. y >= 2 * (n - 1) + 1
      BY <2>1, <3>1, <3>4 DEF CountInv, CountedAtLeast
    <3> QED BY <2>1, <3>2, <3>5
  <2> QED BY <2>2, <2>3
<1> QED BY <1>6, <1>7, <1>8, <1>9 DEF CountInv

\* Every step of the network keeps the invariant of the counting.
LEMMA CountNext == WorkInv /\ FoldInv /\ CountInv /\ [Next]_vars => CountInv'
<1> SUFFICES ASSUME WorkInv, FoldInv, CountInv, [Next]_vars PROVE CountInv'
  OBVIOUS
<1>1. CASE UNCHANGED vars
  BY <1>1, CountFrame DEF vars
<1>2. ASSUME NEW j \in Jobs, SubmitProgram(j) PROVE CountInv'
  BY <1>2, SubmitCounts
<1>3. ASSUME NEW j \in Jobs, RejectProgram(j) \/ NotFound(j) PROVE CountInv'
  BY <1>3, RefuseCounts
<1>4. ASSUME NEW j \in Jobs, FinalStep(j) PROVE CountInv'
  BY <1>4, FinalCounts
<1>5. ASSUME NEW t \in Tasks, TaskStep(t) PROVE CountInv'
  BY <1>5, TaskCounts
<1>6. CASE \/ LocalStep \/ LocalProveFails \/ MsmStep
           \/ \E p \in Peers : Connect(p) \/ Disconnect(p) \/ ProxyStep(p)
  BY <1>6, HolderCounts
<1> QED BY <1>1, <1>2, <1>3, <1>4, <1>5, <1>6 DEF Next

\* The count of finished nodes a client polls never passes the total for each time the
\* program was submitted, and has reached it when there is a proof to fetch: for every
\* number of requests of one program, of chunks, of nodes and of faults.
THEOREM CountersAgreeAlways == Spec => []CountersAgree
<1>1. Spec => []CountInv
  BY CountInit, CountNext, NetworkInvariant, PTL DEF Spec
<1> QED BY <1>1, CountInvAgrees, NetworkInvariant, PTL

=============================================================================
