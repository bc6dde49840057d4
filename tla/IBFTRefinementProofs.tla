------------------------ MODULE IBFTRefinementProofs ------------------------
(***************************************************************************)
(* IBFT implements Consensus, for every number of validators and rounds.   *)
(* The inductive invariant of IBFTProofs gives the agreement and validity  *)
(* of the block that a step finalizes.                                     *)
(***************************************************************************)
EXTENDS IBFTRefinement, IBFTProofs

\* In the initial state no node has finalized a block or sent a commit.
LEMMA InitRefines ==
    ASSUME Init
    PROVE  Abstract!Init
  BY DEF Init, Abstract!Init, Recorded

\* Only FinishHeight, the round_finished branch of run(), changes a finalized block.
LEMMA OnlyFinishHeight ==
    ASSUME Inv, [Next]_vars, finalized' # finalized
    PROVE  \E i \in Nodes : FinishHeight(i)
<1>1. Step
  BY NextIsStep DEF Inv
<1> QED
  BY <1>1 DEF Step, ProposeStep, FailStep, JumpStep, BroadcastProposal, FailTask, AcceptProposal,
     BroadcastCommit, EnterCommit, FinishRound, Timeout, Cancel, StartRound, nodeVars, vars

\* The block that FinishHeight returns is valid, and it is the block of every node that
\* has finalized already.
LEMMA FinishRefines ==
    ASSUME Inv, Inv', Recorded, Recorded', NEW i \in Nodes, FinishHeight(i)
    PROVE  Abstract!Next
<1>1. PICK p \in proposals : finalized' = [finalized EXCEPT ![i] = p.block]
  BY DEF FinishHeight
<1> DEFINE b == p.block
<1>2. finalized \in [Nodes -> Blocks \cup {NoBlock}] /\ b \in Blocks
  BY DEF Inv, TypeOK, Proposals
<1>3. b # NoBlock /\ finalized'[i] = b
  BY <1>1, <1>2, ConstantsAssumption
<1> HIDE DEF b
<1>4. finalized[i] = NoBlock
  BY DEF Inv, FinalizedStopped, FinishHeight
<1>5. b \in ValidBlocks
  <2>1. FinalizedValid'
    BY Valid, PTL
  <2> QED
    BY <1>3, <2>1 DEF FinalizedValid
<1>6. ASSUME NEW j \in Nodes
      PROVE  finalized[j] \in {NoBlock, b}
  <2>1. Agreement'
    BY Agreed, PTL DEF AgreementIfRecorded
  <2>2. j # i => finalized'[j] = finalized[j]
    BY <1>1, <1>2
  <2> QED
    BY <1>3, <1>4, <2>1, <2>2 DEF Agreement
<1>7. Abstract!Finalize(i, b)
  BY <1>1, <1>4, <1>6 DEF Abstract!Finalize, b
<1> QED
  BY <1>5, <1>7 DEF Abstract!Next

\* A step that changes what Consensus sees finalizes a block while every commit is
\* recorded, or leaves a commit that is not.
LEMMA StepRefines ==
    ASSUME Inv, Inv', [Next]_vars
    PROVE  [Abstract!Next]_<<finalized, Recorded>>
<1>1. Step
  BY NextIsStep DEF Inv
<1>2. CASE ~Recorded'
  <2>1. Recorded' = FALSE
    BY <1>2 DEF Recorded
  <2> QED
    BY <2>1 DEF Abstract!Next, Abstract!Void
<1>3. CASE Recorded'
  <2>1. Recorded
    BY <1>1, <1>3, MessagesGrow, RecordedBefore DEF Inv
  <2>2. Recorded' = Recorded
    BY <1>3, <2>1 DEF Recorded
  <2>3. CASE finalized' = finalized
    BY <2>2, <2>3
  <2>4. CASE finalized' # finalized
    BY <1>3, <2>1, <2>4, OnlyFinishHeight, FinishRefines
  <2> QED
    BY <2>3, <2>4
<1> QED
  BY <1>2, <1>3

\* run() of every node keeps the promise of the height: as long as every commit is
\* recorded in its sender's next round change, IBFT implements Consensus.
THEOREM RefinementTheorem == Spec => ImplementsConsensus
<1>1. Init => Abstract!Init
  BY InitRefines
<1>2. Inv /\ Inv' /\ [Next]_vars => [Abstract!Next]_<<finalized, Recorded>>
  BY StepRefines
<1> QED
  BY <1>1, <1>2, Invariance, PTL DEF Spec, ImplementsConsensus, Abstract!Spec
=============================================================================
