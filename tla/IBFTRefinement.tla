--------------------------- MODULE IBFTRefinement ---------------------------
(***************************************************************************)
(* IBFT as an implementation of Consensus.  The blocks the nodes finalized *)
(* are the abstract state; rounds, tasks and messages are hidden.  The     *)
(* code keeps the promise as long as every commit is recorded in the round *)
(* change its sender times out with: no timer expires between a commit and *)
(* the update of the run state, and no task that a timeout aborted commits *)
(* after it (the run "window" shows what happens otherwise).               *)
(***************************************************************************)
EXTENDS IBFTInvariant

Abstract == INSTANCE Consensus WITH Values <- ValidBlocks, recorded <- Recorded

\* run() keeps the promise of one height: while every commit is recorded, a step of the
\* nodes is a step of Consensus or changes no finalized block.
ImplementsConsensus == Abstract!Spec
=============================================================================
