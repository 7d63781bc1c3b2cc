------------------------------ MODULE FoldTree ------------------------------
(***************************************************************************)
(* What ParallelTreeFolder::run promises its caller, without threads,      *)
(* buffers or queues: every leaf is converted at most once, an inner node  *)
(* is folded at most once and only after both its children, and the call    *)
(* returns the fold of the root, or an error.                               *)
(***************************************************************************)
EXTENDS TaskHeap

CONSTANT CanFail    \* whether the reducer may fail

VARIABLES done,     \* tasks whose accumulator has been computed
          outcome,  \* "running", "Ok", or the error returned
          output    \* the accumulator returned, named by its task; -1 before

vars == <<done, outcome, output>>

Init == done = {} /\ outcome = "running" /\ output = -1

Reject ==
    /\ outcome = "running" /\ done = {}
    /\ ~(NumLeaves # 0 /\ IsPowerOfTwo(NumLeaves))
    /\ outcome' = "InvalidInput"
    /\ UNCHANGED <<done, output>>

ConvertLeaf(t) ==
    /\ outcome = "running"
    /\ t \in Leaves \ done
    /\ done' = done \cup {t}
    /\ UNCHANGED <<outcome, output>>

FoldNode(n) ==
    /\ outcome = "running"
    /\ n \in Nodes \ done
    /\ Children(n) \subseteq done
    /\ done' = done \cup {n}
    /\ UNCHANGED <<outcome, output>>

Finish ==
    /\ outcome = "running"
    /\ 0 \in done
    /\ outcome' = "Ok"
    /\ output' = 0
    /\ UNCHANGED done

Abort ==
    /\ CanFail
    /\ outcome = "running"
    /\ outcome' = "NoRootResult"
    /\ UNCHANGED <<done, output>>

Next == Reject \/ Abort \/ Finish \/ \E t \in Tasks : ConvertLeaf(t) \/ FoldNode(t)

SafeSpec == Init /\ [][Next]_vars

Spec == SafeSpec /\ WF_vars(Next)

=============================================================================
