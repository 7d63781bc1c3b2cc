--------------------------- MODULE MCParallelTree ---------------------------
(* Instances of the parallel tree folder for TLC; the cfg files give the    *)
(* constants.  DefaultBlocks and DefaultCap are the values the code uses.   *)
EXTENDS ParallelTreeProps

DefaultBlocks == PoolBlocks(NumWorkers)
DefaultCap == 512

=============================================================================
