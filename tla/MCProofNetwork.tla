--------------------------- MODULE MCProofNetwork ---------------------------
(* Instances of the proving network for TLC.                                *)
EXTENDS ProofNetwork, TLC

\* Program h1 is submitted once or twice, h2 does not run.
OneJob == "a" :> "h1"
FourRequests == "a" :> "h1" @@ "b" :> "h1" @@ "bad" :> "h2" @@ "lost" :> "h2"

AllToCore == [j \in Jobs |-> "/core"]
LostToApi == [j \in Jobs |-> IF j = "lost" THEN "/api" ELSE "/core"]

\* The lengths of a trace: a power of two, as the comment on trace() has it,
\* and one less, as it returns it.
FourBlocks == [h \in Hashes |-> IF h = "h2" THEN 0 ELSE 4]
ThreeBlocks == [h \in Hashes |-> IF h = "h2" THEN 0 ELSE 3]

=============================================================================
