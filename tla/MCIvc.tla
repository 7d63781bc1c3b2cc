------------------------------- MODULE MCIvc -------------------------------
(* Nova and HyperNova with one circuit, SuperNova with two or three whose  *)
(* circuits come into use in and out of order.                             *)
EXTENDS PcdProof

OneCircuit(scheme, steps) ==
  [scheme |-> scheme, steps |-> steps, circuits |-> <<3>>, next |-> <<0>>, z_0 |-> <<0, 2>>, 
   other |-> <<0, 5>>]

\* Leaves for the even steps, from the true states or a wrong one.
Tree(leaves, believed) ==
  [scheme |-> "pcd", leaves |-> leaves, believed |-> believed, circuits |-> <<3>>,
   next |-> <<0>>, z_0 |-> <<0, 2>>]

MCJobs ==
  {OneCircuit("nova", 4), OneCircuit("hypernova", 2),
   Tree(4, {}), Tree(3, {<<0, 5>>}),
   [scheme |-> "supernova", steps |-> 3, circuits |-> <<2, 3>>, next |-> <<1, 0>>,
    z_0 |-> <<0, 2>>, other |-> <<0, 4>>],
   [scheme |-> "supernova", steps |-> 3, circuits |-> <<2, 3, 5>>, next |-> <<1, 2, 7>>,
    z_0 |-> <<0, 3>>, other |-> <<0, 4>>],
   [scheme |-> "supernova", steps |-> 3, circuits |-> <<2, 3>>, next |-> <<0, 1>>,
    z_0 |-> <<1, 2>>, other |-> <<1, 4>>]}
=============================================================================
