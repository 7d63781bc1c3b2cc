----------------------------- MODULE MCPcdTree ------------------------------
(* Instances of build_binary_pcd_tree for TLC.                              *)
EXTENDS PcdTree

CONSTANT HaltsAfter   \* the step after which the computation stands still

\* A machine that counts its steps and stops, as the NexusVM does at UNIMP.
Counter(z) == IF z < HaltsAfter THEN z + 1 ELSE z
CounterCircuit(j, z) == Counter(z)

=============================================================================
