----------------------------- MODULE IBFTProofs -----------------------------
(***************************************************************************)
(* Proofs that the safety properties of IBFT hold for every set of nodes,  *)
(* every quorum above two thirds of it and every MAX_ROUND.                *)
(***************************************************************************)
EXTENDS IBFTInvariant, FiniteSetTheorems, WellFoundedInduction, TLAPS

-----------------------------------------------------------------------------
(* Quorums, minima *)

\* Sets of nodes are finite, and counting them is monotone.
LEMMA NodeSets ==
    ASSUME NEW T \in SUBSET Nodes, NEW S \in SUBSET T
    PROVE  /\ IsFiniteSet(S) /\ IsFiniteSet(T)
           /\ Cardinality(S) \in Nat
           /\ Cardinality(T) \in Nat
           /\ Cardinality(S) <= Cardinality(T)
           /\ Cardinality(T) <= Cardinality(Nodes)
<1>1. IsFiniteSet(T) /\ Cardinality(T) <= Cardinality(Nodes)
  BY NodesAssumption, FS_Subset
<1>2. IsFiniteSet(S) /\ Cardinality(S) <= Cardinality(T)
  BY <1>1, FS_Subset
<1> QED
  BY <1>1, <1>2, FS_CardinalityType

\* A set of nodes that is counted above zero has a member.
LEMMA NonEmpty ==
    ASSUME NEW S \in SUBSET Nodes, Cardinality(S) >= 1
    PROVE  \E j \in Nodes : j \in S
<1>1. IsFiniteSet(S)
  BY NodeSets
<1>2. S # {}
  BY <1>1, FS_EmptySet
<1> QED
  BY <1>2

\* Any three quorums have a node in common.
LEMMA ThreeQuorums ==
    ASSUME NEW P \in SUBSET Nodes, NEW Q \in SUBSET Nodes, NEW R \in SUBSET Nodes,
           Cardinality(P) >= Quorum, Cardinality(Q) >= Quorum, Cardinality(R) >= Quorum
    PROVE  \E j \in Nodes : j \in P /\ j \in Q /\ j \in R
<1> DEFINE n == Cardinality(Nodes)
           PQ == P \cap Q
<1>1. /\ IsFiniteSet(P) /\ IsFiniteSet(Q) /\ IsFiniteSet(R) /\ IsFiniteSet(PQ)
      /\ Cardinality(P) \in Nat /\ Cardinality(Q) \in Nat /\ Cardinality(R) \in Nat
      /\ Cardinality(PQ) \in Nat /\ n \in Nat
  <2>1. PQ \in SUBSET Nodes
    OBVIOUS
  <2> QED
    BY <2>1, NodeSets
<1>2. Cardinality(P \cup Q) = Cardinality(P) + Cardinality(Q) - Cardinality(PQ)
  BY <1>1, FS_Union
<1>3. Cardinality(PQ \cup R) = Cardinality(PQ) + Cardinality(R) - Cardinality(PQ \cap R)
  BY <1>1, FS_Union
<1>4. /\ Cardinality(P \cup Q) \in Nat /\ Cardinality(P \cup Q) <= n
      /\ Cardinality(PQ \cup R) \in Nat /\ Cardinality(PQ \cup R) <= n
      /\ Cardinality(PQ \cap R) \in Nat
  <2>1. P \cup Q \in SUBSET Nodes /\ PQ \cup R \in SUBSET Nodes /\ PQ \cap R \in SUBSET Nodes
    OBVIOUS
  <2> HIDE DEF PQ
  <2> QED
    BY <2>1, NodeSets
<1>5. Cardinality(PQ \cap R) >= 1
  <2> HIDE DEF PQ, n
  <2> QED
    BY <1>1, <1>2, <1>3, <1>4, QuorumAssumption DEF n
<1> QED
  BY <1>5, NonEmpty

\* A set of rounds that is not empty has a least element: the least of the intervals
\* from 0 to its elements, which are finite sets.
LEMMA LeastRound ==
    ASSUME NEW T \in SUBSET Nat, T # {}
    PROVE  \E x \in T : \A y \in T : x <= y
<1> DEFINE U == {0 .. x : x \in T}
           R == StrictSubsetOrdering(Nat)
<1>1. U \subseteq FiniteSubsetsOf(Nat)
  <2> SUFFICES ASSUME NEW x \in T
               PROVE  0 .. x \in FiniteSubsetsOf(Nat)
    OBVIOUS
  <2>1. IsFiniteSet(0 .. x)
    BY FS_Interval
  <2>2. 0 .. x \in SUBSET Nat
    OBVIOUS
  <2> QED
    BY <2>1, <2>2 DEF FiniteSubsetsOf
<1>2. \E s \in U : \A t \in U : ~(<<t, s>> \in R)
  <2>1. IsWellFoundedOn(R, FiniteSubsetsOf(Nat))
    BY FS_StrictSubsetOrderingWellFounded
  <2>2. U # {}
    OBVIOUS
  <2> HIDE DEF U, R
  <2> QED
    BY <1>1, <2>1, <2>2, WFMin
<1>3. PICK x \in T : \A t \in U : ~(<<t, 0 .. x>> \in R)
  BY <1>2
<1>4. ASSUME NEW y \in T, ~(x <= y)
      PROVE  FALSE
  <2>1. 0 .. y \in U
    OBVIOUS
  <2>2. 0 .. y \subseteq 0 .. x /\ 0 .. x \subseteq Nat /\ 0 .. y # 0 .. x
    <3>1. x \in 0 .. x /\ x \notin 0 .. y
      BY <1>4
    <3> QED
      BY <1>4, <3>1
  <2>3. <<0 .. y, 0 .. x>> \in R
    BY <2>2 DEF StrictSubsetOrdering
  <2> QED
    BY <1>3, <2>1, <2>3
<1> QED
  BY <1>4

-----------------------------------------------------------------------------
(* The messages only accumulate, and what was backed stays backed *)

\* The senders of messages are nodes.
LEMMA SendersType ==
    ASSUME NEW msgs, \A m \in msgs : m.from \in Nodes
    PROVE  Senders(msgs) \in SUBSET Nodes
  BY DEF Senders

\* The voters for a block are nodes, finitely many.
LEMMA VotersType ==
    ASSUME NEW votes \in SUBSET Votes, NEW r, NEW b
    PROVE  Voters(votes, r, b) \in SUBSET Nodes /\ Cardinality(Voters(votes, r, b)) \in Nat
<1>1. Voters(votes, r, b) \in SUBSET Nodes
  BY DEF Voters, Senders, Votes
<1> QED
  BY <1>1, NodeSets

\* The votes for a block are never fewer after more votes were sent.
LEMMA VotersGrow ==
    ASSUME NEW more \in SUBSET Votes, NEW votes \in SUBSET more, NEW r, NEW b, NEW n \in Int,
           Cardinality(Voters(votes, r, b)) >= n
    PROVE  Cardinality(Voters(more, r, b)) >= n
<1>1. Voters(more, r, b) \in SUBSET Nodes
  BY VotersType
<1>2. Voters(votes, r, b) \in SUBSET Voters(more, r, b)
  BY DEF Voters, Senders
<1> QED
  BY <1>1, <1>2, NodeSets

\* A counted vote was sent.
LEMMA VoteExists ==
    ASSUME NEW votes \in SUBSET Votes, NEW r, NEW b, Cardinality(Voters(votes, r, b)) >= 1
    PROVE  \E v \in votes : v.round = r /\ v.block = b
<1>1. \E j \in Nodes : j \in Voters(votes, r, b)
  BY VotersType, NonEmpty
<1> QED
  BY <1>1 DEF Voters, Senders

-----------------------------------------------------------------------------
(* The forms a step takes *)

\* The proposer of round r broadcasts block b with the certificate rcc.
ProposeStep(i, r, b, rcc) ==
    /\ i = Proposer[r]
    /\ task[i][r] = "proposal"
    /\ PCs(rcc) # {} => \E pc \in PCs(rcc) : b = pc.block
    /\ BroadcastProposal(i, r, b, rcc)

\* A task ends with an error.
FailStep(i, r) == task[i][r] = "proposal" /\ FailTask(i, r)

\* A node goes to a later round that a quorum asked for.
JumpStep(i, r) ==
    /\ Selecting(i)
    /\ r > round[i]
    /\ QuorumLeft(r)
    /\ StartRound(i, r)
    /\ UNCHANGED <<latest_self_round_change, finalized, digest, msgVars>>

Step ==
    \/ \E i \in Nodes, r \in Rounds, b \in Blocks, rcc \in SUBSET roundChanges :
          ProposeStep(i, r, b, rcc)
    \/ \E i \in Nodes, r \in Rounds : FailStep(i, r)
    \/ \E i \in Nodes, r \in Rounds : AcceptProposal(i, r)
    \/ \E i \in Nodes, r \in Rounds : BroadcastCommit(i, r)
    \/ \E i \in Nodes, r \in Rounds : EnterCommit(i, r)
    \/ \E i \in Nodes, r \in Rounds : FinishRound(i, r)
    \/ \E i \in Nodes : FinishHeight(i)
    \/ \E i \in Nodes, r \in Rounds : JumpStep(i, r)
    \/ \E i \in Nodes : Timeout(i)
    \/ \E i \in Nodes : Cancel(i)
    \/ UNCHANGED vars

\* A set of round changes of round r from a quorum shows that the quorum left.
LEMMA QuorumOf ==
    ASSUME TypeOK, NEW r, NEW S \in SUBSET roundChanges,
           \A m \in S : m.round = r, Cardinality(Senders(S)) >= Quorum
    PROVE  QuorumLeft(r)
<1> DEFINE T == {m \in roundChanges : m.round = r}
<1>1. Senders(T) \in SUBSET Nodes
  BY DEF TypeOK, RoundChanges, Senders
<1>2. Senders(S) \in SUBSET Senders(T)
  BY DEF Senders
<1>3. Cardinality(Senders(S)) <= Cardinality(Senders(T))
      /\ Cardinality(Senders(S)) \in Nat /\ Cardinality(Senders(T)) \in Nat
  BY <1>1, <1>2, NodeSets
<1> QED
  BY <1>3, QuorumAssumption DEF QuorumLeft

\* Every step of the specification takes one of these forms.
LEMMA NextIsStep ==
    ASSUME Inv, [Next]_vars
    PROVE  Step
<1> USE DEF Inv
<1>1. ASSUME NEW i \in Nodes, NEW r \in Rounds, Propose0(i, r)
      PROVE  Step
  <2>1. PICK b \in Built[r] :
          IF b = NoBlock THEN FailTask(i, r) ELSE BroadcastProposal(i, r, b, {})
    BY <1>1 DEF Propose0
  <2>2. i = Proposer[r] /\ task[i][r] = "proposal"
    BY <1>1 DEF Propose0, At
  <2>3. CASE b = NoBlock
    BY <2>1, <2>2, <2>3 DEF Step, FailStep
  <2>4. CASE b # NoBlock
    <3>1. b \in Blocks
      BY <2>4, ConstantsAssumption
    <3>2. PCs({}) = {}
      BY DEF PCs
    <3>3. {} \in SUBSET roundChanges
      OBVIOUS
    <3> QED
      BY <2>1, <2>2, <2>4, <3>1, <3>2, <3>3 DEF Step, ProposeStep
  <2> QED
    BY <2>3, <2>4
<1>2. ASSUME NEW i \in Nodes, NEW r \in Rounds, Propose1(i, r)
      PROVE  Step
  <2>1. PICK rcc \in RoundChangeCertificates(r) :
          \/ \E pc \in PCs(rcc) : BroadcastProposal(i, r, pc.block, rcc)
          \/ /\ PCs(rcc) = {}
             /\ \E b \in Built[r] :
                   IF b = NoBlock THEN FailTask(i, r) ELSE BroadcastProposal(i, r, b, rcc)
    BY <1>2 DEF Propose1
  <2>2. i = Proposer[r] /\ task[i][r] = "proposal"
    BY <1>2 DEF Propose1, At
  <2>3. rcc \in SUBSET roundChanges
    BY <2>1 DEF RoundChangeCertificates
  <2>4. ASSUME NEW pc \in PCs(rcc), BroadcastProposal(i, r, pc.block, rcc)
        PROVE  Step
    <3>1. pc.block \in Blocks
      BY <2>3, <2>4 DEF PCs, TypeOK, RoundChanges, PreparedCertificates
    <3> QED
      BY <2>2, <2>3, <2>4, <3>1 DEF Step, ProposeStep
  <2>5. ASSUME PCs(rcc) = {}, NEW b \in Built[r],
               IF b = NoBlock THEN FailTask(i, r) ELSE BroadcastProposal(i, r, b, rcc)
        PROVE  Step
    <3>1. CASE b = NoBlock
      BY <2>2, <2>5, <3>1 DEF Step, FailStep
    <3>2. CASE b # NoBlock
      <4>1. b \in Blocks
        BY <3>2, ConstantsAssumption
      <4> QED
        BY <2>2, <2>3, <2>5, <3>2, <4>1 DEF Step, ProposeStep
    <3> QED
      BY <3>1, <3>2
  <2> QED
    BY <2>1, <2>4, <2>5
<1>3. ASSUME NEW i \in Nodes, NEW r \in Rounds, RejectProposal(i, r)
      PROVE  Step
  BY <1>3 DEF RejectProposal, At, FailStep, Step
<1>4. ASSUME NEW i \in Nodes, NEW r \in Rounds, TaskStep(i, r)
      PROVE  Step
  BY <1>1, <1>2, <1>3, <1>4 DEF TaskStep, Step
<1>5. ASSUME NEW i \in Nodes, NEW r \in Rounds, FutureProposal(i, r)
      PROVE  Step
  <2>1. PICK p \in proposals : p.round = r /\ proposal_1_verify_fn(p)
    BY <1>5 DEF FutureProposal
  <2>2. p.rcc \in SUBSET roundChanges
    BY DEF ProposalsBacked
  <2>3. QuorumLeft(r)
    BY <2>1, <2>2, QuorumOf DEF proposal_1_verify_fn
  <2> QED
    BY <1>5, <2>3 DEF FutureProposal, JumpStep, Step
<1>6. ASSUME NEW i \in Nodes, NEW r \in Rounds, FutureRcc(i, r)
      PROVE  Step
  <2>1. PICK S \in RoundChangeCertificates(r) : TRUE
    BY <1>6 DEF FutureRcc
  <2>2. /\ S \in SUBSET roundChanges
        /\ \A m \in S : m.round = r
        /\ Cardinality(Senders(S)) >= Quorum
    BY <2>1 DEF RoundChangeCertificates
  <2>3. QuorumLeft(r)
    BY <2>2, QuorumOf
  <2> QED
    BY <1>6, <2>3 DEF FutureRcc, JumpStep, Step
<1> QED
  BY <1>4, <1>5, <1>6 DEF Next, Terminating, Step

\* Every step keeps the types.
LEMMA TypeStep ==
    ASSUME Inv, Step
    PROVE  TypeOK'
<1> USE DEF Inv
<1>1. ASSUME NEW i \in Nodes, NEW r \in Rounds, NEW b \in Blocks,
             NEW rcc \in SUBSET roundChanges, ProposeStep(i, r, b, rcc)
      PROVE  TypeOK'
  <2>1. [round |-> r, block |-> b, rcc |-> rcc] \in Proposals
    BY DEF Proposals, TypeOK
  <2> QED
    BY <1>1, <2>1 DEF ProposeStep, BroadcastProposal, Goto, TypeOK, nodeVars, TaskStates
<1>2. ASSUME NEW i \in Nodes, NEW r \in Rounds, FailStep(i, r)
      PROVE  TypeOK'
  BY <1>2 DEF FailStep, FailTask, Goto, TypeOK, nodeVars, msgVars, TaskStates
<1>3. ASSUME NEW i \in Nodes, NEW r \in Rounds, AcceptProposal(i, r)
      PROVE  TypeOK'
  <2>1. PICK p \in proposals :
          /\ digest' = [digest EXCEPT ![i][r] = p.block]
          /\ prepares' = prepares \cup {[from |-> i, round |-> r, block |-> p.block]}
    BY <1>3 DEF AcceptProposal
  <2>2. p.block \in Blocks
    BY DEF TypeOK, Proposals
  <2>3. [from |-> i, round |-> r, block |-> p.block] \in Votes
    BY <2>2 DEF Votes
  <2> QED
    BY <1>3, <2>1, <2>2, <2>3 DEF AcceptProposal, Goto, TypeOK, nodeVars, TaskStates
<1>4. ASSUME NEW i \in Nodes, NEW r \in Rounds, task[i][r] \in Holding
      PROVE  digest[i][r] \in Blocks
  BY <1>4 DEF TasksBacked, TaskBacked, TypeOK, Proposals
<1>5. ASSUME NEW i \in Nodes, NEW r \in Rounds, BroadcastCommit(i, r)
      PROVE  TypeOK'
  <2>1. digest[i][r] \in Blocks
    BY <1>4, <1>5 DEF BroadcastCommit, At, Holding
  <2>2. [from |-> i, round |-> r, block |-> digest[i][r]] \in Votes
    BY <2>1 DEF Votes
  <2> QED
    BY <1>5, <2>2 DEF BroadcastCommit, Goto, TypeOK, nodeVars, TaskStates
<1>6. ASSUME NEW i \in Nodes, NEW r \in Rounds, EnterCommit(i, r) \/ FinishRound(i, r)
      PROVE  TypeOK'
  <2>1. PICK s \in TaskStates : task' = [task EXCEPT ![i][r] = s]
    BY <1>6 DEF EnterCommit, FinishRound, Goto, TaskStates
  <2> QED
    BY <1>6, <2>1 DEF EnterCommit, FinishRound, TypeOK, nodeVars, msgVars
<1>7. ASSUME NEW i \in Nodes, FinishHeight(i)
      PROVE  TypeOK'
  <2>1. PICK p \in proposals : finalized' = [finalized EXCEPT ![i] = p.block]
    BY <1>7 DEF FinishHeight
  <2>2. p.block \in Blocks
    BY DEF TypeOK, Proposals
  <2> QED
    BY <1>7, <2>1, <2>2 DEF FinishHeight, TypeOK, taskVars, msgVars, Statuses
<1>8. ASSUME NEW i \in Nodes, NEW r \in 0 .. MaxRound + 1, StartRound(i, r)
      PROVE  /\ round' \in [Nodes -> 0 .. MaxRound + 1]
             /\ status' \in [Nodes -> Statuses]
             /\ task' \in [Nodes -> [Rounds -> TaskStates]]
  BY <1>8 DEF StartRound, TypeOK, Statuses, TaskStates
<1>9. ASSUME NEW i \in Nodes, NEW r \in Rounds, JumpStep(i, r)
      PROVE  TypeOK'
  <2>1. r \in 0 .. MaxRound + 1
    BY ConstantsAssumption DEF Rounds
  <2> QED
    BY <1>8, <1>9, <2>1 DEF JumpStep, TypeOK, msgVars
<1>10. ASSUME NEW i \in Nodes, Timeout(i)
       PROVE  TypeOK'
  <2> DEFINE rc == [from |-> i, round |-> round[i] + 1, pc |-> TimeoutCertificate(i)]
  <2>1. round[i] \in Rounds /\ round[i] + 1 \in 1 .. MaxRound + 1
    <3>1. round[i] \in ExpiringRounds[i]
      BY <1>10 DEF Timeout
    <3>2. round[i] \in Rounds /\ MaxRound \in Nat
      BY <3>1, ConstantsAssumption
    <3> QED
      BY <3>2 DEF Rounds
  <2>2. TimeoutCertificate(i) \in PreparedCertificates \cup {NoPC}
    <3>1. CASE task[i][round[i]] \in {"commit", "finished"}
      <4>1. digest[i][round[i]] \in Blocks
        BY <1>4, <2>1, <3>1 DEF Holding
      <4> QED
        BY <2>1, <3>1, <4>1 DEF TimeoutCertificate, PreparedCertificates
    <3>2. CASE task[i][round[i]] \notin {"commit", "finished"}
      BY <3>2 DEF TimeoutCertificate, TypeOK, RoundChanges
    <3> QED
      BY <3>1, <3>2
  <2>3. rc \in RoundChanges
    BY <2>1, <2>2 DEF RoundChanges
  <2>4. /\ latest_self_round_change' = [latest_self_round_change EXCEPT ![i] = rc]
        /\ roundChanges' = roundChanges \cup {rc}
        /\ StartRound(i, round[i] + 1)
        /\ UNCHANGED <<finalized, digest, proposals, prepares, commits>>
    BY <1>10 DEF Timeout
  <2>5. round[i] + 1 \in 0 .. MaxRound + 1
    BY <2>1
  <2> HIDE DEF rc
  <2> QED
    BY <1>8, <2>3, <2>4, <2>5 DEF TypeOK
<1>11. ASSUME NEW i \in Nodes, Cancel(i)
       PROVE  TypeOK'
  BY <1>11 DEF Cancel, TypeOK, taskVars, msgVars, Statuses
<1>12. CASE UNCHANGED vars
  BY <1>12 DEF vars, nodeVars, taskVars, msgVars, TypeOK
<1> QED
  BY <1>1, <1>2, <1>3, <1>5, <1>6, <1>7, <1>9, <1>10, <1>11, <1>12 DEF Step

\* No step takes back a message.
Growing ==
    /\ proposals \subseteq proposals'
    /\ prepares \subseteq prepares'
    /\ commits \subseteq commits'
    /\ roundChanges \subseteq roundChanges'

\* Every step keeps the messages that were broadcast.
LEMMA MessagesGrow ==
    ASSUME Step
    PROVE  Growing
<1> USE DEF Growing, msgVars
<1>1. ASSUME NEW i \in Nodes, NEW r \in Rounds, NEW b \in Blocks,
             NEW rcc \in SUBSET roundChanges, ProposeStep(i, r, b, rcc)
      PROVE  Growing
  BY <1>1 DEF ProposeStep, BroadcastProposal
<1>2. ASSUME NEW i \in Nodes, NEW r \in Rounds,
             FailStep(i, r) \/ AcceptProposal(i, r) \/ BroadcastCommit(i, r)
               \/ EnterCommit(i, r) \/ FinishRound(i, r)
      PROVE  Growing
  BY <1>2 DEF FailStep, FailTask, AcceptProposal, BroadcastCommit, EnterCommit, FinishRound
<1>3. ASSUME NEW i \in Nodes, FinishHeight(i) \/ Cancel(i) \/ Timeout(i)
      PROVE  Growing
  BY <1>3 DEF FinishHeight, Cancel, Timeout
<1>4. ASSUME NEW i \in Nodes, NEW r \in Rounds, JumpStep(i, r)
      PROVE  Growing
  BY <1>4 DEF JumpStep
<1>5. CASE UNCHANGED vars
  BY <1>5 DEF vars
<1> QED
  BY <1>1, <1>2, <1>3, <1>4, <1>5 DEF Step

\* A valid certificate stays valid.
LEMMA CertificateStaysValid ==
    ASSUME TypeOK, TypeOK', Growing, NEW pc \in PreparedCertificates, NEW limit,
           verify_prepared_certificate(pc, limit)
    PROVE  verify_prepared_certificate(pc, limit)'
<1> DEFINE V == Voters(prepares, pc.round, pc.block) \ {Proposer[pc.round]}
           W == Voters(prepares', pc.round, pc.block) \ {Proposer[pc.round]}
<1>1. W \in SUBSET Nodes /\ V \in SUBSET W
  BY DEF Voters, Senders, Votes, TypeOK, Growing
<1>2. Cardinality(V) \in Nat /\ Cardinality(W) \in Nat /\ Cardinality(V) <= Cardinality(W)
  <2> HIDE DEF V, W
  <2> QED
    BY <1>1, NodeSets
<1>3. Cardinality(V) >= Quorum - 1
  BY DEF verify_prepared_certificate
<1>4. Cardinality(W) >= Quorum - 1
  <2> HIDE DEF V, W
  <2> QED
    BY <1>2, <1>3, QuorumAssumption
<1>5. \E p \in proposals' : p.round = pc.round /\ p.block = pc.block
  BY DEF verify_prepared_certificate, Growing
<1> QED
  BY <1>4, <1>5 DEF verify_prepared_certificate, Voters

\* A proposal found valid stays valid.
LEMMA ProposalStaysValid ==
    ASSUME TypeOK, TypeOK', Growing, NEW p \in Proposals, proposal_verify_fn(p)
    PROVE  proposal_verify_fn(p)'
<1>1. ASSUME NEW pc \in HighestPCs(p.rcc)
      PROVE  pc \in PreparedCertificates
  BY DEF HighestPCs, PCs, Proposals, RoundChanges
<1>2. CASE p.round = 0
  BY <1>2 DEF proposal_verify_fn, proposal_0_verify_fn
<1>3. CASE p.round # 0
  <2>1. proposal_1_verify_fn(p)
    BY <1>3 DEF proposal_verify_fn
  <2>2. CASE HighestPCs(p.rcc) = {}
    BY <1>3, <2>1, <2>2 DEF proposal_verify_fn, proposal_1_verify_fn
  <2>3. CASE HighestPCs(p.rcc) # {}
    <3>1. PICK pc \in HighestPCs(p.rcc) :
            p.block = pc.block /\ verify_prepared_certificate(pc, p.round)
      BY <2>1, <2>3 DEF proposal_1_verify_fn
    <3>2. verify_prepared_certificate(pc, p.round)'
      BY <1>1, <3>1, CertificateStaysValid
    <3> QED
      BY <1>3, <2>1, <2>3, <3>1, <3>2 DEF proposal_verify_fn, proposal_1_verify_fn
  <2> QED
    BY <2>2, <2>3
<1> QED
  BY <1>2, <1>3

\* A round a quorum has left stays left.
LEMMA QuorumStaysLeft ==
    ASSUME TypeOK, TypeOK', Growing, NEW r, QuorumLeft(r)
    PROVE  QuorumLeft(r)'
<1> DEFINE S == {m \in roundChanges : m.round = r}
           T == {m \in roundChanges' : m.round = r}
<1>1. Senders(T) \in SUBSET Nodes /\ Senders(S) \in SUBSET Senders(T)
  BY DEF Senders, TypeOK, RoundChanges, Growing
<1>2. /\ Cardinality(Senders(S)) \in Nat /\ Cardinality(Senders(T)) \in Nat
      /\ Cardinality(Senders(S)) <= Cardinality(Senders(T))
  <2> HIDE DEF S, T
  <2> QED
    BY <1>1, NodeSets
<1>3. Cardinality(Senders(S)) >= Quorum
  BY DEF QuorumLeft
<1>4. Cardinality(Senders(T)) >= Quorum
  <2> HIDE DEF S, T
  <2> QED
    BY <1>2, <1>3, QuorumAssumption
<1> QED
  BY <1>4 DEF QuorumLeft, Senders

-----------------------------------------------------------------------------
(* The conjuncts of the invariant, one lemma each *)

\* What a step does to the control points: one task moves on, or a node starts a
\* later round.
LEMMA ControlStep ==
    ASSUME Inv, Step
    PROVE  \/ /\ \E i \in Nodes, r \in Rounds, s \in TaskStates \ {"idle", "proposal"} :
                    task[i][r] # "idle" /\ Goto(i, r, s)
              /\ round' = round
           \/ \E i \in Nodes, r \in 1 .. MaxRound + 1 : r > round[i] /\ StartRound(i, r)
           \/ task' = task /\ round' = round
<1> USE DEF nodeVars, taskVars, TaskStates
<1>1. ASSUME NEW i \in Nodes, NEW r \in Rounds, NEW b \in Blocks,
             NEW rcc \in SUBSET roundChanges, ProposeStep(i, r, b, rcc)
      PROVE  task[i][r] # "idle" /\ Goto(i, r, "prepare") /\ round' = round
  BY <1>1 DEF ProposeStep, BroadcastProposal
<1>2. ASSUME NEW i \in Nodes, NEW r \in Rounds, FailStep(i, r)
      PROVE  task[i][r] # "idle" /\ Goto(i, r, "failed") /\ round' = round
  BY <1>2 DEF FailStep, FailTask
<1>3. ASSUME NEW i \in Nodes, NEW r \in Rounds, AcceptProposal(i, r)
      PROVE  task[i][r] # "idle" /\ Goto(i, r, "prepare") /\ round' = round
  BY <1>3 DEF AcceptProposal, At
<1>4. ASSUME NEW i \in Nodes, NEW r \in Rounds, BroadcastCommit(i, r)
      PROVE  task[i][r] # "idle" /\ Goto(i, r, "committing") /\ round' = round
  BY <1>4 DEF BroadcastCommit, At
<1>5. ASSUME NEW i \in Nodes, NEW r \in Rounds, EnterCommit(i, r)
      PROVE  task[i][r] # "idle" /\ Goto(i, r, "commit") /\ round' = round
  BY <1>5 DEF EnterCommit, At
<1>6. ASSUME NEW i \in Nodes, NEW r \in Rounds, FinishRound(i, r)
      PROVE  task[i][r] # "idle" /\ Goto(i, r, "finished") /\ round' = round
  BY <1>6 DEF FinishRound, At
<1>7. ASSUME NEW i \in Nodes, FinishHeight(i) \/ Cancel(i)
      PROVE  task' = task /\ round' = round
  BY <1>7 DEF FinishHeight, Cancel
<1>8. ASSUME NEW i \in Nodes, NEW r \in Rounds, JumpStep(i, r)
      PROVE  r \in 1 .. MaxRound + 1 /\ r > round[i] /\ StartRound(i, r)
  <2>1. r > round[i] /\ StartRound(i, r)
    BY <1>8 DEF JumpStep
  <2>2. round[i] \in 0 .. MaxRound + 1 /\ MaxRound \in Nat
    BY ConstantsAssumption DEF Inv, TypeOK
  <2> QED
    BY <2>1, <2>2 DEF Rounds
<1>9. ASSUME NEW i \in Nodes, Timeout(i)
      PROVE  round[i] + 1 \in 1 .. MaxRound + 1 /\ round[i] + 1 > round[i]
             /\ StartRound(i, round[i] + 1)
  <2>1. round[i] \in ExpiringRounds[i] /\ StartRound(i, round[i] + 1)
    BY <1>9 DEF Timeout
  <2>2. round[i] \in Rounds /\ MaxRound \in Nat
    BY <2>1, ConstantsAssumption
  <2> QED
    BY <2>1, <2>2 DEF Rounds
<1>10. CASE UNCHANGED vars
  BY <1>10 DEF vars
<1> QED
  BY <1>1, <1>2, <1>3, <1>4, <1>5, <1>6, <1>7, <1>8, <1>9, <1>10 DEF Step

\* No step starts the task of a round its node has not reached.
LEMMA TasksStartedStep ==
    ASSUME Inv, Step
    PROVE  TasksStarted'
<1> USE DEF Inv
<1>1. ASSUME NEW i \in Nodes, NEW r \in Rounds, NEW s \in TaskStates \ {"idle", "proposal"},
             task[i][r] # "idle", Goto(i, r, s), round' = round
      PROVE  TasksStarted'
  BY <1>1 DEF TasksStarted, Goto, TypeOK
<1>2. ASSUME NEW i \in Nodes, NEW r \in 1 .. MaxRound + 1, r > round[i], StartRound(i, r)
      PROVE  TasksStarted'
  <2> SUFFICES ASSUME NEW j \in Nodes, NEW k \in Rounds, k > round'[j]
               PROVE  task'[j][k] = "idle"
    BY DEF TasksStarted
  <2>0. round[i] \in Int /\ k \in Int /\ r \in Int /\ MaxRound \in Nat
    BY ConstantsAssumption DEF TypeOK, Rounds
  <2>1. CASE j = i
    <3>1. round'[i] = r
      BY <1>2 DEF StartRound, TypeOK
    <3>2. k > r /\ k # round[i] /\ k > round[i]
      BY <1>2, <2>0, <2>1, <3>1
    <3>3. task'[i][k] = task[i][k]
      BY <1>2, <2>0, <3>2 DEF StartRound, TypeOK
    <3> QED
      BY <2>1, <3>2, <3>3 DEF TasksStarted
  <2>2. CASE j # i
    BY <1>2, <2>2 DEF StartRound, TypeOK, TasksStarted
  <2> QED
    BY <2>1, <2>2
<1>3. CASE task' = task /\ round' = round
  BY <1>3 DEF TasksStarted
<1> QED
  BY <1>1, <1>2, <1>3, ControlStep

\* The proposals after a step: the same, or one more, in a round that had none.
LEMMA ProposalStep ==
    ASSUME Inv, Step
    PROVE  \/ proposals' = proposals
           \/ \E i \in Nodes, r \in Rounds, b \in Blocks, rcc \in SUBSET roundChanges :
                 ProposeStep(i, r, b, rcc)
  BY DEF Step, FailStep, FailTask, AcceptProposal, BroadcastCommit, EnterCommit, FinishRound,
         FinishHeight, JumpStep, Timeout, Cancel, vars, msgVars

\* A proposer that has proposed is past "proposal" and does not propose again.
LEMMA OneProposalStep ==
    ASSUME Inv, Step, TypeOK'
    PROVE  OneProposal'
<1> USE DEF Inv
<1>1. ASSUME NEW p \in proposals
      PROVE  task'[Proposer[p.round]][p.round] \notin {"idle", "proposal"}
  <2> DEFINE j == Proposer[p.round]
             k == p.round
  <2>0. k \in Rounds /\ j \in Nodes /\ task[j][k] \notin {"idle", "proposal"}
    BY ConstantsAssumption DEF OneProposal, TypeOK, Proposals
  <2> HIDE DEF j, k
  <2>1. ASSUME NEW i \in Nodes, NEW r \in Rounds, NEW s \in TaskStates \ {"idle", "proposal"},
               Goto(i, r, s)
        PROVE  task'[j][k] \notin {"idle", "proposal"}
    BY <2>0, <2>1 DEF Goto, TypeOK
  <2>2. ASSUME NEW i \in Nodes, NEW r \in 1 .. MaxRound + 1, r > round[i], StartRound(i, r)
        PROVE  task'[j][k] \notin {"idle", "proposal"}
    <3>1. CASE i = j /\ k = r
      BY <2>0, <2>2, <3>1 DEF TasksStarted
    <3>2. CASE ~(i = j /\ k = r)
      BY <2>0, <2>2, <3>2 DEF StartRound, TypeOK
    <3> QED
      BY <3>1, <3>2
  <2>3. task'[j][k] \notin {"idle", "proposal"}
    BY <2>0, <2>1, <2>2, ControlStep
  <2> QED
    BY <2>3 DEF j, k
<1>2. CASE proposals' = proposals
  BY <1>1, <1>2 DEF OneProposal
<1>3. ASSUME NEW i \in Nodes, NEW r \in Rounds, NEW b \in Blocks,
             NEW rcc \in SUBSET roundChanges, ProposeStep(i, r, b, rcc)
      PROVE  OneProposal'
  <2> DEFINE q == [round |-> r, block |-> b, rcc |-> rcc]
  <2>1. proposals' = proposals \cup {q}
    BY <1>3 DEF ProposeStep, BroadcastProposal
  <2>2. i = Proposer[r] /\ task[i][r] = "proposal"
    BY <1>3 DEF ProposeStep
  <2>3. \A p \in proposals : p.round # r
    BY <2>2 DEF OneProposal
  <2>4. task'[Proposer[q.round]][q.round] = "prepare"
    BY <1>3, <2>2 DEF ProposeStep, BroadcastProposal, Goto, TypeOK
  <2>5. q.round = r
    OBVIOUS
  <2> HIDE DEF q
  <2> QED
    BY <1>1, <2>1, <2>3, <2>4, <2>5 DEF OneProposal
<1> QED
  BY <1>2, <1>3, ProposalStep

\* A new proposal is backed by the certificate it was made from.
LEMMA ProposalsBackedStep ==
    ASSUME Inv, Step, Growing
    PROVE  ProposalsBacked'
<1> USE DEF Inv
<1>1. ASSUME NEW p \in proposals
      PROVE  /\ p.rcc \subseteq roundChanges'
             /\ PCs(p.rcc) # {} => \E pc \in PCs(p.rcc) : p.block = pc.block
  BY DEF ProposalsBacked, Growing
<1>2. CASE proposals' = proposals
  BY <1>1, <1>2 DEF ProposalsBacked
<1>3. ASSUME NEW i \in Nodes, NEW r \in Rounds, NEW b \in Blocks,
             NEW rcc \in SUBSET roundChanges, ProposeStep(i, r, b, rcc)
      PROVE  ProposalsBacked'
  <2>1. proposals' = proposals \cup {[round |-> r, block |-> b, rcc |-> rcc]}
    BY <1>3 DEF ProposeStep, BroadcastProposal
  <2>2. PCs(rcc) # {} => \E pc \in PCs(rcc) : b = pc.block
    BY <1>3 DEF ProposeStep
  <2> QED
    BY <1>1, <2>1, <2>2 DEF ProposalsBacked, Growing
<1> QED
  BY <1>2, <1>3, ProposalStep

\* A task that a step leaves alone stays backed.
LEMMA TaskStaysBacked ==
    ASSUME TypeOK, TypeOK', Growing, NEW i \in Nodes, NEW r \in Rounds, TaskBacked(i, r),
           task'[i][r] = task[i][r], digest'[i][r] = digest[i][r]
    PROVE  TaskBacked(i, r)'
<1> SUFFICES ASSUME task[i][r] \in Holding
             PROVE  TaskBacked(i, r)'
  BY DEF TaskBacked
<1>0. prepares' \in SUBSET Votes /\ prepares \in SUBSET prepares'
      /\ commits' \in SUBSET Votes /\ commits \in SUBSET commits'
      /\ Quorum \in Int /\ Quorum - 1 \in Int
  BY QuorumAssumption DEF TypeOK, Growing
<1>1. \E p \in proposals' : p.round = r /\ p.block = digest[i][r]
  BY DEF TaskBacked, Growing
<1>2. task[i][r] # "prepare" => Cardinality(Voters(prepares', r, digest[i][r])) >= Quorum - 1
  BY <1>0, VotersGrow DEF TaskBacked
<1>3. task[i][r] = "finished" => Cardinality(Voters(commits', r, digest[i][r])) >= Quorum
  BY <1>0, VotersGrow DEF TaskBacked
<1> QED
  BY <1>1, <1>2, <1>3 DEF TaskBacked, Voters, Senders

\* A task gets to a control point only with what backs it.
LEMMA TasksBackedStep ==
    ASSUME Inv, Step, TypeOK', Growing
    PROVE  TasksBacked'
<1> USE DEF Inv
<1> SUFFICES ASSUME NEW j \in Nodes, NEW k \in Rounds
             PROVE  TaskBacked(j, k)'
  BY DEF TasksBacked
<1>0. TaskBacked(j, k)
  BY DEF TasksBacked
<1>1. CASE task'[j][k] = task[j][k] /\ digest'[j][k] = digest[j][k]
  BY <1>0, <1>1, TaskStaysBacked
<1>2. ASSUME task'[j][k] \notin Holding
      PROVE  TaskBacked(j, k)'
  BY <1>2 DEF TaskBacked
<1>3. ASSUME NEW i \in Nodes, NEW r \in Rounds, NEW b \in Blocks,
             NEW rcc \in SUBSET roundChanges, ProposeStep(i, r, b, rcc)
      PROVE  TaskBacked(j, k)'
  <2>1. /\ proposals' = proposals \cup {[round |-> r, block |-> b, rcc |-> rcc]}
        /\ digest' = [digest EXCEPT ![i][r] = b]
        /\ task' = [task EXCEPT ![i][r] = "prepare"]
    BY <1>3 DEF ProposeStep, BroadcastProposal, Goto
  <2>2. CASE i = j /\ r = k
    <3>1. task'[j][k] = "prepare" /\ digest'[j][k] = b
      BY <2>1, <2>2 DEF TypeOK
    <3>2. \E p \in proposals' : p.round = k /\ p.block = digest'[j][k]
      <4> DEFINE q == [round |-> r, block |-> b, rcc |-> rcc]
      <4>1. q \in proposals' /\ q.round = r /\ q.block = b
        BY <2>1
      <4> HIDE DEF q
      <4> QED
        BY <2>2, <3>1, <4>1
    <3> QED
      BY <3>1, <3>2 DEF TaskBacked
  <2>3. CASE ~(i = j /\ r = k)
    BY <1>1, <2>1, <2>3 DEF TypeOK
  <2> QED
    BY <2>2, <2>3
<1>4. ASSUME NEW i \in Nodes, NEW r \in Rounds, AcceptProposal(i, r)
      PROVE  TaskBacked(j, k)'
  <2>1. PICK p \in proposals : p.round = r /\ digest' = [digest EXCEPT ![i][r] = p.block]
    BY <1>4 DEF AcceptProposal
  <2>2. task' = [task EXCEPT ![i][r] = "prepare"] /\ proposals' = proposals
    BY <1>4 DEF AcceptProposal, Goto
  <2>3. CASE i = j /\ r = k
    <3>1. task'[j][k] = "prepare" /\ digest'[j][k] = p.block
      BY <2>1, <2>2, <2>3 DEF TypeOK
    <3> QED
      BY <2>1, <2>2, <2>3, <3>1 DEF TaskBacked
  <2>4. CASE ~(i = j /\ r = k)
    BY <1>1, <2>1, <2>2, <2>4 DEF TypeOK
  <2> QED
    BY <2>3, <2>4
<1>5. ASSUME NEW i \in Nodes, NEW r \in Rounds,
             FailStep(i, r) \/ BroadcastCommit(i, r) \/ EnterCommit(i, r) \/ FinishRound(i, r)
      PROVE  TaskBacked(j, k)'
  <2>1. PICK s \in {"failed", "committing", "commit", "finished"} :
          task' = [task EXCEPT ![i][r] = s] /\ digest' = digest
    BY <1>5 DEF FailStep, FailTask, BroadcastCommit, EnterCommit, FinishRound, Goto
  <2>2. CASE ~(i = j /\ r = k)
    BY <1>1, <2>1, <2>2 DEF TypeOK
  <2>3. CASE i = j /\ r = k
    <3>1. task'[j][k] = s /\ digest'[j][k] = digest[j][k]
      BY <2>1, <2>3 DEF TypeOK
    <3>2. CASE FailStep(i, r)
      <4>1. task'[j][k] = "failed"
        BY <2>3, <3>2 DEF FailStep, FailTask, Goto, TypeOK
      <4> QED
        BY <1>2, <4>1 DEF Holding
    <3>3. CASE BroadcastCommit(i, r)
      <4>1. /\ task'[j][k] = "committing" /\ task[j][k] = "prepare"
            /\ prepares' = prepares /\ proposals' = proposals
            /\ Cardinality(Voters(prepares, k, digest[j][k])) >= Quorum - 1
        BY <2>3, <3>3 DEF BroadcastCommit, At, Goto, TypeOK
      <4> QED
        BY <1>0, <3>1, <4>1 DEF TaskBacked, Holding, Voters, Senders
    <3>4. CASE EnterCommit(i, r)
      <4>1. /\ task'[j][k] = "commit" /\ task[j][k] = "committing"
            /\ prepares' = prepares /\ proposals' = proposals
        BY <2>3, <3>4 DEF EnterCommit, At, Goto, TypeOK, msgVars
      <4> QED
        BY <1>0, <3>1, <4>1 DEF TaskBacked, Holding, Voters, Senders
    <3>5. CASE FinishRound(i, r)
      <4>1. /\ task'[j][k] = "finished" /\ task[j][k] = "commit"
            /\ prepares' = prepares /\ proposals' = proposals /\ commits' = commits
            /\ Cardinality(Voters(commits, k, digest[j][k])) >= Quorum
        BY <2>3, <3>5 DEF FinishRound, At, Goto, TypeOK, msgVars
      <4> QED
        BY <1>0, <3>1, <4>1 DEF TaskBacked, Holding, Voters, Senders
    <3> QED
      BY <1>5, <3>2, <3>3, <3>4, <3>5
  <2> QED
    BY <2>2, <2>3
<1>6. ASSUME NEW i \in Nodes, NEW r, StartRound(i, r), digest' = digest
      PROVE  TaskBacked(j, k)'
  <2>1. \/ task'[j][k] = task[j][k]
        \/ task'[j][k] = "proposal"
        \/ task'[j][k] = "aborted"
    BY <1>6 DEF StartRound, TypeOK
  <2> QED
    BY <1>1, <1>2, <1>6, <2>1 DEF Holding
<1>7. ASSUME NEW i \in Nodes, FinishHeight(i) \/ Cancel(i) \/ Timeout(i)
      PROVE  TaskBacked(j, k)'
  BY <1>1, <1>6, <1>7 DEF FinishHeight, Cancel, Timeout, taskVars
<1>8. ASSUME NEW i \in Nodes, NEW r \in Rounds, JumpStep(i, r)
      PROVE  TaskBacked(j, k)'
  BY <1>6, <1>8 DEF JumpStep
<1>9. CASE UNCHANGED vars
  BY <1>1, <1>9 DEF vars, taskVars
<1> QED
  BY <1>3, <1>4, <1>5, <1>7, <1>8, <1>9 DEF Step

\* The block of a proposal that was found valid is a valid block: a fresh one was
\* verified, a certified one has been prepared.
LEMMA ValidProposalBlock ==
    ASSUME Inv, NEW p \in proposals, proposal_verify_fn(p)
    PROVE  p.block \in ValidBlocks
<1> USE DEF Inv
<1>1. CASE p.round = 0
  BY <1>1 DEF proposal_verify_fn, proposal_0_verify_fn
<1>2. CASE p.round # 0 /\ HighestPCs(p.rcc) = {}
  BY <1>2 DEF proposal_verify_fn, proposal_1_verify_fn
<1>3. CASE p.round # 0 /\ HighestPCs(p.rcc) # {}
  <2>1. PICK pc \in HighestPCs(p.rcc) :
          p.block = pc.block /\ verify_prepared_certificate(pc, p.round)
    BY <1>3 DEF proposal_verify_fn, proposal_1_verify_fn
  <2>2. \E v \in prepares : v.round = pc.round /\ v.block = pc.block
    <3> DEFINE V == Voters(prepares, pc.round, pc.block)
    <3>1. V \in SUBSET Nodes /\ V \ {Proposer[pc.round]} \in SUBSET Nodes
      BY VotersType DEF TypeOK
    <3>2. Cardinality(V \ {Proposer[pc.round]}) >= 1
      <4>1. Cardinality(V \ {Proposer[pc.round]}) >= Quorum - 1
        BY <2>1 DEF verify_prepared_certificate
      <4>2. Cardinality(V \ {Proposer[pc.round]}) \in Nat
        BY <3>1, NodeSets
      <4> HIDE DEF V
      <4> QED
        BY <4>1, <4>2, QuorumAssumption
    <3>3. \E j \in Nodes : j \in V \ {Proposer[pc.round]}
      BY <3>1, <3>2, NonEmpty
    <3> QED
      BY <3>3 DEF Voters, Senders
  <2> QED
    BY <2>1, <2>2 DEF PreparesBacked
<1> QED
  BY <1>1, <1>2, <1>3

\* A new prepare answers a proposal its sender verified.
LEMMA PreparesBackedStep ==
    ASSUME Inv, Step, TypeOK', Growing
    PROVE  PreparesBacked'
<1> USE DEF Inv
<1> DEFINE Ok(v) == /\ v.from # Proposer[v.round]
                    /\ v.block \in ValidBlocks
                    /\ \E p \in proposals' : /\ p.round = v.round /\ p.block = v.block
                                             /\ proposal_verify_fn(p)'
<1>1. ASSUME NEW p \in proposals, proposal_verify_fn(p)
      PROVE  proposal_verify_fn(p)' /\ p \in proposals'
  <2>1. p \in Proposals
    BY DEF TypeOK
  <2> QED
    BY <1>1, <2>1, ProposalStaysValid DEF Growing
<1>2. ASSUME NEW v \in prepares
      PROVE  Ok(v)
  BY <1>1 DEF PreparesBacked
<1>3. CASE prepares' = prepares
  BY <1>2, <1>3 DEF PreparesBacked
<1>4. ASSUME NEW i \in Nodes, NEW r \in Rounds, AcceptProposal(i, r)
      PROVE  PreparesBacked'
  <2>1. PICK p \in proposals :
          /\ p.round = r /\ proposal_verify_fn(p)
          /\ prepares' = prepares \cup {[from |-> i, round |-> r, block |-> p.block]}
    BY <1>4 DEF AcceptProposal
  <2>2. i # Proposer[r]
    BY <1>4 DEF AcceptProposal
  <2>3. p.block \in ValidBlocks
    BY <2>1, ValidProposalBlock
  <2>4. Ok([from |-> i, round |-> r, block |-> p.block])
    BY <1>1, <2>1, <2>2, <2>3
  <2> HIDE DEF Ok
  <2>5. \A v \in prepares' : Ok(v)
    BY <1>2, <2>1, <2>4
  <2> QED
    BY <2>5 DEF PreparesBacked, Ok
<1>5. prepares' = prepares \/ \E i \in Nodes, r \in Rounds : AcceptProposal(i, r)
  BY DEF Step, ProposeStep, BroadcastProposal, FailStep, FailTask, BroadcastCommit, EnterCommit,
         FinishRound, FinishHeight, JumpStep, Timeout, Cancel, vars, msgVars
<1> QED
  BY <1>3, <1>4, <1>5

\* A new commit comes from a task with quorum - 1 prepares.
LEMMA CommitsBackedStep ==
    ASSUME Inv, Step, TypeOK', Growing
    PROVE  CommitsBacked'
<1> USE DEF Inv
<1> DEFINE Ok(c) == /\ \E p \in proposals' : p.round = c.round /\ p.block = c.block
                    /\ Cardinality(Voters(prepares', c.round, c.block)) >= Quorum - 1
<1>0. prepares' \in SUBSET Votes /\ prepares \in SUBSET prepares' /\ Quorum - 1 \in Int
  BY QuorumAssumption DEF TypeOK, Growing
<1>1. ASSUME NEW c \in commits
      PROVE  Ok(c)
  <2>1. Cardinality(Voters(prepares, c.round, c.block)) >= Quorum - 1
    BY DEF CommitsBacked
  <2>2. Cardinality(Voters(prepares', c.round, c.block)) >= Quorum - 1
    BY <1>0, <2>1, VotersGrow
  <2> QED
    BY <2>2 DEF CommitsBacked, Growing
<1>2. ASSUME NEW i \in Nodes, NEW r \in Rounds, BroadcastCommit(i, r), NEW c \in commits'
      PROVE  Ok(c)
  <2>1. /\ commits' = commits \cup {[from |-> i, round |-> r, block |-> digest[i][r]]}
        /\ Cardinality(Voters(prepares, r, digest[i][r])) >= Quorum - 1
        /\ task[i][r] = "prepare"
        /\ prepares' = prepares /\ proposals' = proposals
    BY <1>2 DEF BroadcastCommit, At
  <2>2. \E p \in proposals : p.round = r /\ p.block = digest[i][r]
    BY <2>1 DEF TasksBacked, TaskBacked, Holding
  <2>3. CASE c \in commits
    BY <1>1, <2>3
  <2>4. CASE c = [from |-> i, round |-> r, block |-> digest[i][r]]
    BY <2>1, <2>2, <2>4
  <2> QED
    BY <1>2, <2>1, <2>3, <2>4
<1>3. commits' = commits \/ \E i \in Nodes, r \in Rounds : BroadcastCommit(i, r)
  BY DEF Step, ProposeStep, BroadcastProposal, FailStep, FailTask, AcceptProposal, EnterCommit,
         FinishRound, FinishHeight, JumpStep, Timeout, Cancel, vars, msgVars
<1>4. \A c \in commits' : Ok(c)
  <2> HIDE DEF Ok
  <2> QED
    BY <1>1, <1>2, <1>3
<1> QED
  BY <1>4 DEF CommitsBacked, Voters, Senders

\* The round change a node broadcasts when its timer expires.
TimeoutMessage(i) == [from |-> i, round |-> round[i] + 1, pc |-> TimeoutCertificate(i)]

\* Only a timeout sends a round change.
LEMMA RoundChangeStep ==
    ASSUME Step
    PROVE  \/ /\ roundChanges' = roundChanges
              /\ latest_self_round_change' = latest_self_round_change
           \/ \E i \in Nodes : Timeout(i)
  BY DEF Step, ProposeStep, BroadcastProposal, FailStep, FailTask, AcceptProposal,
         BroadcastCommit, EnterCommit, FinishRound, FinishHeight, JumpStep, Cancel, vars,
         nodeVars, msgVars

\* What a timeout sends and stores.
LEMMA TimeoutFacts ==
    ASSUME Inv, TypeOK', NEW i \in Nodes, Timeout(i)
    PROVE  /\ roundChanges' = roundChanges \cup {TimeoutMessage(i)}
           /\ latest_self_round_change'
                = [latest_self_round_change EXCEPT ![i] = TimeoutMessage(i)]
           /\ TimeoutMessage(i) \in RoundChanges
           /\ TimeoutMessage(i).from = i
           /\ TimeoutMessage(i).round = round[i] + 1
           /\ TimeoutMessage(i).pc = TimeoutCertificate(i)
           /\ round[i] \in Rounds
           /\ round' = [round EXCEPT ![i] = round[i] + 1]
           /\ commits' = commits
           /\ \A m \in roundChanges : m.from = i => m.round <= round[i]
<1>1. /\ roundChanges' = roundChanges \cup {TimeoutMessage(i)}
      /\ latest_self_round_change'
           = [latest_self_round_change EXCEPT ![i] = TimeoutMessage(i)]
      /\ commits' = commits
      /\ round[i] \in ExpiringRounds[i]
      /\ round' = [round EXCEPT ![i] = round[i] + 1]
  BY DEF Timeout, TimeoutMessage, StartRound
<1>2. TimeoutMessage(i) \in RoundChanges
  BY <1>1 DEF TypeOK
<1>3. /\ TimeoutMessage(i).from = i
      /\ TimeoutMessage(i).round = round[i] + 1
      /\ TimeoutMessage(i).pc = TimeoutCertificate(i)
  BY DEF TimeoutMessage
<1>4. round[i] \in Rounds
  BY <1>1, ConstantsAssumption
<1>5. \A m \in roundChanges : m.from = i => m.round <= round[i]
  BY DEF Inv, RoundChangesOrdered
<1> QED
  BY <1>1, <1>2, <1>3, <1>4, <1>5

\* Rounds never go back.
LEMMA RoundsGrow ==
    ASSUME Inv, Step, NEW i \in Nodes
    PROVE  round'[i] >= round[i]
<1> USE DEF Inv
<1>0. round[i] \in Int
  BY DEF TypeOK
<1>1. ASSUME NEW j \in Nodes, NEW r \in 1 .. MaxRound + 1, r > round[j], StartRound(j, r)
      PROVE  round'[i] >= round[i]
  <2>1. round' = [round EXCEPT ![j] = r]
    BY <1>1 DEF StartRound
  <2>2. CASE j = i
    <3>1. round'[i] = r
      BY <2>1, <2>2 DEF TypeOK
    <3> QED
      BY <1>0, <1>1, <2>2, <3>1
  <2>3. CASE j # i
    <3>1. round'[i] = round[i]
      BY <2>1, <2>3 DEF TypeOK
    <3> QED
      BY <1>0, <3>1
  <2> QED
    BY <2>2, <2>3
<1>2. CASE round' = round
  BY <1>0, <1>2
<1> QED
  BY <1>1, <1>2, ControlStep

\* A timeout's round change is the first of its sender for its round, and the latest.
LEMMA RoundChangesOrderedStep ==
    ASSUME Inv, Step, TypeOK'
    PROVE  RoundChangesOrdered'
<1> USE DEF Inv
<1>0. \A m \in roundChanges : m.from \in Nodes /\ m.round \in Int
  BY DEF TypeOK, RoundChanges
<1>1. \A m \in roundChanges : m.round <= round'[m.from]
  <2> SUFFICES ASSUME NEW m \in roundChanges
               PROVE  m.round <= round'[m.from]
    OBVIOUS
  <2>1. m.round <= round[m.from]
    BY DEF RoundChangesOrdered
  <2>2. round'[m.from] >= round[m.from]
    BY <1>0, RoundsGrow
  <2>3. round[m.from] \in Int /\ round'[m.from] \in Int
    BY <1>0 DEF TypeOK
  <2> QED
    BY <1>0, <2>1, <2>2, <2>3
<1>2. CASE /\ roundChanges' = roundChanges
           /\ latest_self_round_change' = latest_self_round_change
  BY <1>1, <1>2 DEF RoundChangesOrdered
<1>3. ASSUME NEW i \in Nodes, Timeout(i)
      PROVE  RoundChangesOrdered'
  <2> DEFINE rc == TimeoutMessage(i)
  <2>1. /\ roundChanges' = roundChanges \cup {rc}
        /\ latest_self_round_change' = [latest_self_round_change EXCEPT ![i] = rc]
        /\ rc.from = i /\ rc.round = round[i] + 1
        /\ \A m \in roundChanges : m.from = i => m.round <= round[i]
        /\ round' = [round EXCEPT ![i] = round[i] + 1]
        /\ round[i] \in Int
    BY <1>3, TimeoutFacts DEF TypeOK
  <2>2. \A m \in roundChanges' : m.round <= round'[m.from]
    <3>1. rc.round <= round'[rc.from]
      BY <2>1 DEF TypeOK
    <3> QED
      BY <1>1, <2>1, <3>1
  <2> HIDE DEF rc
  <2>3. \A m, n \in roundChanges' : m.from = n.from /\ m.round = n.round => m = n
    BY <1>0, <2>1 DEF RoundChangesOrdered
  <2>4. \A m \in roundChanges' : /\ latest_self_round_change'[m.from] \in roundChanges'
                                 /\ latest_self_round_change'[m.from].round >= m.round
    <3> SUFFICES ASSUME NEW m \in roundChanges'
                 PROVE  /\ latest_self_round_change'[m.from] \in roundChanges'
                        /\ latest_self_round_change'[m.from].round >= m.round
      OBVIOUS
    <3>1. CASE m.from = i
      <4>1. latest_self_round_change'[m.from] = rc
        BY <2>1, <3>1 DEF TypeOK
      <4>2. m.round <= rc.round
        BY <1>0, <2>1, <3>1
      <4>3. m.round \in Int /\ rc.round \in Int
        BY <1>0, <2>1
      <4> QED
        BY <2>1, <4>1, <4>2, <4>3
    <3>2. CASE m.from # i
      <4>1. m \in roundChanges
        BY <2>1, <3>2
      <4>2. latest_self_round_change'[m.from] = latest_self_round_change[m.from]
        BY <1>0, <2>1, <3>2, <4>1 DEF TypeOK
      <4> QED
        BY <2>1, <4>1, <4>2 DEF RoundChangesOrdered
    <3> QED
      BY <3>1, <3>2
  <2>5. \A j \in Nodes : latest_self_round_change'[j] # NoRoundChange
          => /\ latest_self_round_change'[j] \in roundChanges'
             /\ latest_self_round_change'[j].from = j
    BY <2>1 DEF RoundChangesOrdered, TypeOK
  <2> QED
    BY <2>2, <2>3, <2>4, <2>5 DEF RoundChangesOrdered
<1> QED
  BY <1>2, <1>3, RoundChangeStep

\* The voters of a certificate do not include the round's proposer.
LEMMA ProposerDoesNotPrepare ==
    ASSUME Inv, NEW r, NEW b
    PROVE  Voters(prepares, r, b) \ {Proposer[r]} = Voters(prepares, r, b)
  BY DEF Inv, PreparesBacked, Voters, Senders

\* handle_timeout sends a valid certificate, at least as recent as the last one sent.
LEMMA TimeoutCertificateValid ==
    ASSUME Inv, NEW i \in Nodes, round[i] \in Rounds
    PROVE  /\ TimeoutCertificate(i) # NoPC
                => verify_prepared_certificate(TimeoutCertificate(i), round[i] + 1)
           /\ \A m \in roundChanges : m.from = i /\ m.pc # NoPC
                => TimeoutCertificate(i) # NoPC /\ TimeoutCertificate(i).round >= m.pc.round
<1> USE DEF Inv
<1> DEFINE latest == latest_self_round_change[i]
<1>0. /\ round[i] \in Int
      /\ \A m \in roundChanges : m \in RoundChanges
      /\ \A m \in RoundChanges :
            m.round \in Int /\ (m.pc # NoPC => m.pc \in PreparedCertificates)
      /\ \A pc \in PreparedCertificates : pc.round \in Int
  BY DEF TypeOK, RoundChanges, PreparedCertificates, Rounds
<1>1. CASE task[i][round[i]] \in {"commit", "finished"}
  <2> DEFINE pc == [round |-> round[i], block |-> digest[i][round[i]]]
  <2>1. TimeoutCertificate(i) = pc /\ pc.round = round[i] /\ pc.block = digest[i][round[i]]
    BY <1>1 DEF TimeoutCertificate
  <2>2. /\ \E p \in proposals : p.round = round[i] /\ p.block = digest[i][round[i]]
        /\ Cardinality(Voters(prepares, round[i], digest[i][round[i]])) >= Quorum - 1
    BY <1>1 DEF TasksBacked, TaskBacked, Holding
  <2>3. verify_prepared_certificate(pc, round[i] + 1)
    <3>1. Voters(prepares, pc.round, pc.block) \ {Proposer[pc.round]}
            = Voters(prepares, round[i], digest[i][round[i]])
      BY <2>1, ProposerDoesNotPrepare
    <3>2. pc.round < round[i] + 1
      BY <1>0, <2>1
    <3> HIDE DEF pc
    <3> QED
      BY <2>1, <2>2, <3>1, <3>2 DEF verify_prepared_certificate
  <2>4. pc # NoPC
    <3>1. digest[i][round[i]] \in Blocks
      BY <2>2 DEF TypeOK, Proposals
    <3> QED
      BY <3>1, ConstantsAssumption DEF PreparedCertificates
  <2>5. ASSUME NEW m \in roundChanges, m.from = i, m.pc # NoPC
        PROVE  pc.round >= m.pc.round
    <3>1. m.pc.round < m.round
      BY <2>5 DEF RoundChangesValid, round_change_verify_fn, verify_prepared_certificate
    <3>2. m.round <= round[i]
      BY <2>5 DEF RoundChangesOrdered
    <3> QED
      BY <1>0, <2>1, <2>5, <3>1, <3>2
  <2> HIDE DEF pc
  <2> QED
    BY <2>1, <2>3, <2>4, <2>5
<1>2. CASE task[i][round[i]] \notin {"commit", "finished"} /\ latest = NoRoundChange
  <2>1. TimeoutCertificate(i) = NoPC
    BY <1>2 DEF TimeoutCertificate
  <2>2. \A m \in roundChanges : m.from # i
    BY <1>0, <1>2, ConstantsAssumption DEF RoundChangesOrdered
  <2> QED
    BY <2>1, <2>2
<1>3. CASE task[i][round[i]] \notin {"commit", "finished"} /\ latest # NoRoundChange
  <2>1. TimeoutCertificate(i) = latest.pc
    BY <1>3 DEF TimeoutCertificate
  <2>2. latest \in roundChanges /\ latest.from = i /\ latest.round <= round[i]
    BY <1>3 DEF RoundChangesOrdered
  <2>3. latest.pc # NoPC => verify_prepared_certificate(latest.pc, latest.round)
    BY <2>2 DEF RoundChangesValid, round_change_verify_fn
  <2>4. latest.pc # NoPC => verify_prepared_certificate(latest.pc, round[i] + 1)
    BY <1>0, <2>2, <2>3 DEF verify_prepared_certificate
  <2>5. ASSUME NEW m \in roundChanges, m.from = i, m.pc # NoPC
        PROVE  latest.pc # NoPC /\ latest.pc.round >= m.pc.round
    <3>1. latest.round >= m.round
      BY <2>5 DEF RoundChangesOrdered
    <3>2. CASE latest.round = m.round
      <4>1. latest = m
        BY <2>2, <2>5, <3>2 DEF RoundChangesOrdered
      <4> QED
        BY <1>0, <2>5, <4>1
    <3>3. CASE latest.round > m.round
      BY <2>2, <2>5, <3>3 DEF CertificatesNeverRegress
    <3> QED
      BY <1>0, <2>2, <2>5, <3>1, <3>2, <3>3
  <2> QED
    BY <2>1, <2>4, <2>5
<1> QED
  BY <1>1, <1>2, <1>3

\* A new round change is valid, and the old ones stay valid.
LEMMA RoundChangesValidStep ==
    ASSUME Inv, Step, TypeOK', Growing
    PROVE  RoundChangesValid'
<1> USE DEF Inv
<1>1. ASSUME NEW pc, NEW limit, pc # NoPC, pc \in PreparedCertificates \cup {NoPC},
             verify_prepared_certificate(pc, limit)
      PROVE  verify_prepared_certificate(pc, limit)'
  BY <1>1, CertificateStaysValid
<1>2. ASSUME NEW m \in roundChanges
      PROVE  round_change_verify_fn(m)'
  <2>1. m.pc \in PreparedCertificates \cup {NoPC}
    BY DEF TypeOK, RoundChanges
  <2> QED
    BY <1>1, <2>1 DEF RoundChangesValid, round_change_verify_fn
<1>3. CASE roundChanges' = roundChanges
  BY <1>2, <1>3 DEF RoundChangesValid
<1>4. ASSUME NEW i \in Nodes, Timeout(i)
      PROVE  RoundChangesValid'
  <2>1. /\ roundChanges' = roundChanges \cup {TimeoutMessage(i)}
        /\ TimeoutMessage(i) \in RoundChanges
        /\ TimeoutMessage(i).round = round[i] + 1
        /\ TimeoutMessage(i).pc = TimeoutCertificate(i)
        /\ round[i] \in Rounds
    BY <1>4, TimeoutFacts
  <2>2. TimeoutCertificate(i) \in PreparedCertificates \cup {NoPC}
    BY <2>1 DEF RoundChanges
  <2>3. TimeoutCertificate(i) # NoPC
          => verify_prepared_certificate(TimeoutCertificate(i), round[i] + 1)
    BY <2>1, TimeoutCertificateValid
  <2>4. PICK m : m = TimeoutMessage(i)
    OBVIOUS
  <2>5. /\ m.pc # NoPC => verify_prepared_certificate(m.pc, m.round)
        /\ m.pc \in PreparedCertificates \cup {NoPC}
    BY <2>1, <2>2, <2>3, <2>4
  <2>6. round_change_verify_fn(m)'
    BY <1>1, <2>5 DEF round_change_verify_fn
  <2> QED
    BY <1>2, <2>1, <2>4, <2>6 DEF RoundChangesValid
<1> QED
  BY <1>3, <1>4, RoundChangeStep

\* A new round change carries a certificate as recent as any its sender sent.
LEMMA CertificatesNeverRegressStep ==
    ASSUME Inv, Step, TypeOK'
    PROVE  CertificatesNeverRegress'
<1> USE DEF Inv
<1>1. CASE roundChanges' = roundChanges
  BY <1>1 DEF CertificatesNeverRegress
<1>2. ASSUME NEW i \in Nodes, Timeout(i)
      PROVE  CertificatesNeverRegress'
  <2> DEFINE rc == TimeoutMessage(i)
  <2>1. /\ roundChanges' = roundChanges \cup {rc}
        /\ rc.from = i /\ rc.round = round[i] + 1 /\ rc.pc = TimeoutCertificate(i)
        /\ round[i] \in Rounds /\ round[i] \in Int
        /\ \A m \in roundChanges : m.from = i => m.round <= round[i]
    BY <1>2, TimeoutFacts DEF TypeOK
  <2>2. \A m \in roundChanges : m.from = i /\ m.pc # NoPC
          => rc.pc # NoPC /\ rc.pc.round >= m.pc.round
    BY <2>1, TimeoutCertificateValid
  <2>3. \A m \in roundChanges : m.round \in Int
    BY DEF TypeOK, RoundChanges
  <2> HIDE DEF rc
  <2> SUFFICES ASSUME NEW m \in roundChanges', NEW n \in roundChanges',
                      m.from = n.from, m.round < n.round, m.pc # NoPC
               PROVE  n.pc # NoPC /\ n.pc.round >= m.pc.round
    BY DEF CertificatesNeverRegress
  <2>4. CASE n \in roundChanges
    <3>1. m # rc
      BY <2>1, <2>3, <2>4
    <3> QED
      BY <2>1, <2>4, <3>1 DEF CertificatesNeverRegress
  <2>5. CASE n = rc
    <3>1. m # rc
      BY <2>1, <2>5
    <3> QED
      BY <2>1, <2>2, <2>5, <3>1
  <2> QED
    BY <2>1, <2>4, <2>5
<1> QED
  BY <1>1, <1>2, RoundChangeStep

\* A step keeps a node's round, or starts a round with a reason.
LEMMA RoundStep ==
    ASSUME Step
    PROVE  \/ round' = round
           \/ \E i \in Nodes, r \in Rounds : JumpStep(i, r)
           \/ \E i \in Nodes : Timeout(i)
  BY DEF Step, ProposeStep, BroadcastProposal, FailStep, FailTask, AcceptProposal,
         BroadcastCommit, EnterCommit, FinishRound, FinishHeight, Cancel, vars, nodeVars

\* A node changes its round by a timeout of its own or after a quorum.
LEMMA RoundsJustifiedStep ==
    ASSUME Inv, Step, TypeOK', Growing
    PROVE  RoundsJustified'
<1> USE DEF Inv
<1> DEFINE Left(r) == Cardinality(Senders({m \in roundChanges' : m.round = r})) >= Quorum
<1> DEFINE Ok(j) == round'[j] > 0 =>
                      \/ \E m \in roundChanges' : m.from = j /\ m.round = round'[j]
                      \/ Left(round'[j])
<1>0. ASSUME NEW r, QuorumLeft(r)
      PROVE  Left(r)
  BY <1>0, QuorumStaysLeft DEF QuorumLeft
<1>1. ASSUME NEW j \in Nodes, round'[j] = round[j]
      PROVE  Ok(j)
  <2> HIDE DEF Left
  <2> SUFFICES ASSUME round[j] > 0
               PROVE  \/ \E m \in roundChanges' : m.from = j /\ m.round = round[j]
                      \/ Left(round[j])
    BY <1>1
  <2>1. CASE \E m \in roundChanges : m.from = j /\ m.round = round[j]
    BY <2>1 DEF Growing
  <2>2. CASE QuorumLeft(round[j])
    BY <1>0, <2>2
  <2> QED
    BY <2>1, <2>2 DEF RoundsJustified
<1>2. ASSUME NEW i \in Nodes, NEW r \in Rounds, JumpStep(i, r), NEW j \in Nodes
      PROVE  Ok(j)
  <2>1. round' = [round EXCEPT ![i] = r] /\ QuorumLeft(r) /\ roundChanges' = roundChanges
    BY <1>2 DEF JumpStep, StartRound, msgVars
  <2>2. CASE j = i
    <3>1. round'[j] = r
      BY <2>1, <2>2 DEF TypeOK
    <3> QED
      BY <1>0, <2>1, <3>1
  <2>3. CASE j # i
    BY <1>1, <2>1, <2>3 DEF TypeOK
  <2> QED
    BY <2>2, <2>3
<1>3. ASSUME NEW i \in Nodes, Timeout(i), NEW j \in Nodes
      PROVE  Ok(j)
  <2>1. /\ roundChanges' = roundChanges \cup {TimeoutMessage(i)}
        /\ TimeoutMessage(i).from = i /\ TimeoutMessage(i).round = round[i] + 1
        /\ round' = [round EXCEPT ![i] = round[i] + 1]
    BY <1>3, TimeoutFacts
  <2>2. CASE j = i
    BY <2>1, <2>2 DEF TypeOK
  <2>3. CASE j # i
    BY <1>1, <2>1, <2>3 DEF TypeOK
  <2> QED
    BY <2>2, <2>3
<1>4. \A j \in Nodes : Ok(j)
  <2> HIDE DEF Ok
  <2> QED
    BY <1>1, <1>2, <1>3, RoundStep
<1> QED
  BY <1>4 DEF RoundsJustified, QuorumLeft

\* A node that times out without a round change for an earlier round had jumped over it.
LEMMA SkipsJustifiedStep ==
    ASSUME Inv, Step, TypeOK', Growing
    PROVE  SkipsJustified'
<1> USE DEF Inv
<1> DEFINE Ok(m, x) == \/ \E n \in roundChanges' : n.from = m.from /\ n.round = x
                       \/ \E y \in Rounds : x <= y /\ y < m.round /\ QuorumLeft(y)'
<1>0. Rounds \subseteq Int
  BY DEF Rounds
<1>1. ASSUME NEW m \in roundChanges, NEW x \in Rounds, 0 < x, x < m.round
      PROVE  Ok(m, x)
  BY <1>1, QuorumStaysLeft DEF SkipsJustified, Growing
<1>2. ASSUME NEW i \in Nodes, Timeout(i), NEW x \in Rounds, 0 < x, x < round[i] + 1
      PROVE  Ok(TimeoutMessage(i), x)
  <2>1. /\ TimeoutMessage(i).from = i
        /\ TimeoutMessage(i).round = round[i] + 1
        /\ round[i] \in Rounds /\ round[i] \in Int
        /\ roundChanges \subseteq roundChanges'
    BY <1>2, TimeoutFacts DEF TypeOK, Growing
  <2>2. PICK k \in Rounds : k = round[i]
    BY <2>1
  <2>3. x <= k /\ k < k + 1 /\ k > 0
    BY <1>0, <1>2, <2>2
  <2>4. CASE QuorumLeft(k)
    <3>1. QuorumLeft(k)'
      BY <2>4, QuorumStaysLeft
    <3> QED
      BY <2>1, <2>2, <2>3, <3>1
  <2>5. ASSUME NEW n \in roundChanges, n.from = i, n.round = k
        PROVE  Ok(TimeoutMessage(i), x)
    <3>1. CASE x = k
      BY <2>1, <2>5, <3>1
    <3>2. CASE x < k
      <4>1. Ok(n, x)
        BY <1>1, <1>2, <2>5, <3>2
      <4>2. ASSUME NEW y \in Rounds, y < n.round
            PROVE  y < TimeoutMessage(i).round
        <5>1. y \in Int /\ k \in Int /\ y < k
          BY <1>0, <2>5, <4>2
        <5>2. y < k + 1
          BY <5>1
        <5> QED
          BY <2>1, <2>2, <5>2
      <4> QED
        BY <2>1, <2>5, <4>1, <4>2
    <3> QED
      BY <1>0, <2>3, <3>1, <3>2
  <2> QED
    BY <2>2, <2>3, <2>4, <2>5 DEF RoundsJustified
<1>3. ASSUME NEW m \in roundChanges', NEW x \in Rounds, 0 < x, x < m.round
      PROVE  Ok(m, x)
  <2>1. CASE m \in roundChanges
    BY <1>1, <1>3, <2>1
  <2>2. ASSUME NEW i \in Nodes, Timeout(i), m = TimeoutMessage(i)
        PROVE  Ok(m, x)
    <3>1. x < round[i] + 1
      BY <1>3, <2>2, TimeoutFacts
    <3> HIDE DEF Ok
    <3> QED
      BY <1>2, <1>3, <2>2, <3>1
  <2>3. m \in roundChanges \/ \E i \in Nodes : Timeout(i) /\ m = TimeoutMessage(i)
    <3>1. CASE roundChanges' = roundChanges
      BY <3>1
    <3>2. ASSUME NEW i \in Nodes, Timeout(i)
          PROVE  m \in roundChanges \/ m = TimeoutMessage(i)
      BY <3>2, TimeoutFacts
    <3> QED
      BY <3>1, <3>2, RoundChangeStep
  <2> HIDE DEF Ok
  <2> QED
    BY <2>1, <2>2, <2>3
<1> QED
  BY <1>3 DEF SkipsJustified, QuorumLeft, Senders

\* Once a commit is unrecorded it remains so.
LEMMA RecordedBefore ==
    ASSUME Growing, Recorded'
    PROVE  Recorded
  BY DEF Growing, Recorded

\* A new round change remembers its sender's commits, if every commit is recorded.
LEMMA CommitsRememberedStep ==
    ASSUME Inv, Step, TypeOK', Growing
    PROVE  CommitsRemembered'
<1> USE DEF Inv
<1> DEFINE Left(x) == Cardinality(Senders({m \in roundChanges' : m.round = x})) >= Quorum
           Ok(c, m) == \/ m.pc # NoPC /\ m.pc.round >= c.round
                       \/ \E x \in Rounds : c.round < x /\ x < m.round /\ Left(x)
<1> SUFFICES ASSUME Recorded', NEW c \in commits', NEW m \in roundChanges',
                    m.from = c.from, c.round < m.round
             PROVE  Ok(c, m)
  BY DEF CommitsRemembered, QuorumLeft
<1>0. /\ \A v \in commits' : v.round \in Rounds /\ v.round \in Int
      /\ \A n \in roundChanges' :
            n.round \in Int /\ (n.pc # NoPC => n.pc \in PreparedCertificates)
      /\ \A pc \in PreparedCertificates : pc.round \in Int
      /\ Rounds \subseteq Int
      /\ \A j \in Nodes : round[j] \in Int
  BY DEF TypeOK, Votes, RoundChanges, PreparedCertificates, Rounds
<1>1. ASSUME NEW x, QuorumLeft(x)
      PROVE  Left(x)
  BY <1>1, QuorumStaysLeft DEF QuorumLeft
<1> HIDE DEF Left
<1>2. ASSUME NEW b \in commits, NEW n \in roundChanges, n.from = b.from, b.round < n.round
      PROVE  Ok(b, n)
  BY <1>1, <1>2, RecordedBefore DEF CommitsRemembered
<1>3. ASSUME NEW n \in roundChanges', n.from = c.from, n.round = c.round + 1
      PROVE  n.pc # NoPC /\ n.pc.round = c.round
  <2>1. n.pc = [round |-> c.round, block |-> c.block]
    BY <1>3 DEF Recorded
  <2>2. n.pc.round = c.round
    BY <2>1
  <2>3. n.pc \in PreparedCertificates
    <3>1. c.round \in Rounds /\ c.block \in Blocks
      BY DEF TypeOK, Votes
    <3> QED
      BY <2>1, <3>1 DEF PreparedCertificates
  <2> QED
    BY <2>2, <2>3, ConstantsAssumption
<1>4. CASE m.round = c.round + 1
  BY <1>0, <1>3, <1>4
<1>5. CASE m.round # c.round + 1 /\ m \in roundChanges /\ c \in commits
  BY <1>2, <1>5
\* A lingering task commits in a round its node has left.
<1>6. CASE m.round # c.round + 1 /\ m \in roundChanges /\ c \notin commits
  <2>1. PICK x : x = c.round + 1
    OBVIOUS
  <2>2. c.round < x /\ 0 < x /\ x < m.round /\ x \in Rounds
    <3>1. c.round \in Rounds /\ c.round \in Int /\ m.round \in Int /\ m.round <= MaxRound + 1
      BY <1>0 DEF TypeOK, RoundChanges
    <3>2. MaxRound \in Nat
      BY ConstantsAssumption
    <3> QED
      BY <1>6, <2>1, <3>1, <3>2 DEF Rounds
  <2>3. CASE \E n \in roundChanges : n.from = m.from /\ n.round = x
    <3>1. PICK n \in roundChanges : n.from = m.from /\ n.round = x
      BY <2>3
    <3>2. n.pc # NoPC /\ n.pc.round = c.round
      BY <1>3, <2>1, <3>1 DEF Growing
    <3>3. n.round < m.round
      BY <2>2, <3>1
    <3>4. m.pc # NoPC /\ m.pc.round >= n.pc.round
      BY <1>6, <3>1, <3>2, <3>3 DEF CertificatesNeverRegress
    <3> QED
      BY <3>2, <3>4
  <2>4. CASE \E y \in Rounds : x <= y /\ y < m.round /\ QuorumLeft(y)
    <3>1. PICK y \in Rounds : x <= y /\ y < m.round /\ QuorumLeft(y)
      BY <2>4
    <3>2. c.round < y
      BY <1>0, <2>1, <2>2, <3>1
    <3> QED
      BY <1>1, <3>1, <3>2
  <2> QED
    BY <1>6, <2>2, <2>3, <2>4 DEF SkipsJustified
\* A node times out of a later round than the one it committed in.
<1>7. CASE m.round # c.round + 1 /\ m \notin roundChanges
  <2>1. PICK i \in Nodes : Timeout(i)
    BY <1>7, RoundChangeStep
  <2>2. /\ m = TimeoutMessage(i) /\ m.from = i /\ m.round = round[i] + 1
        /\ m.pc = TimeoutCertificate(i)
        /\ round[i] \in Rounds /\ commits' = commits
    BY <1>7, <2>1, TimeoutFacts
  <2>3. PICK k \in Rounds : k = round[i]
    BY <2>2
  <2>4. c.round < k /\ k < m.round /\ k > 0
    <3>1. c.round \in Int /\ k \in Int /\ c.round >= 0 /\ c.round < k + 1 /\ k + 1 # c.round + 1
      BY <1>0, <1>7, <2>2, <2>3 DEF Rounds
    <3>2. c.round < k /\ k < k + 1 /\ k > 0
      BY <3>1
    <3> QED
      BY <2>2, <2>3, <3>2
  <2>5. CASE QuorumLeft(k)
    BY <1>1, <2>4, <2>5
  <2>6. ASSUME NEW n \in roundChanges, n.from = i, n.round = k
        PROVE  Ok(c, m)
    <3>1. Ok(c, n)
      BY <1>2, <2>2, <2>4, <2>6
    <3>2. CASE n.pc # NoPC /\ n.pc.round >= c.round
      <4>1. m.pc # NoPC /\ m.pc.round >= n.pc.round
        BY <2>2, <2>6, <3>2, TimeoutCertificateValid
      <4>2. m.pc.round \in Int /\ n.pc.round \in Int /\ c.round \in Int
        <5>1. n \in roundChanges'
          BY <2>6 DEF Growing
        <5> QED
          BY <1>0, <3>2, <4>1, <5>1
      <4> QED
        BY <3>2, <4>1, <4>2
    <3>3. CASE \E x \in Rounds : c.round < x /\ x < n.round /\ Left(x)
      <4>1. PICK x \in Rounds : c.round < x /\ x < n.round /\ Left(x)
        BY <3>3
      <4>2. x < m.round
        <5>1. x \in Int /\ k \in Int /\ x < k
          BY <1>0, <2>6, <4>1
        <5>2. x < k + 1
          BY <5>1
        <5> QED
          BY <2>2, <2>3, <5>2
      <4> QED
        BY <4>1, <4>2
    <3> QED
      BY <3>1, <3>2, <3>3
  <2> QED
    BY <2>2, <2>3, <2>4, <2>5, <2>6 DEF RoundsJustified
<1> QED
  BY <1>4, <1>5, <1>6, <1>7

\* A node finalizes the proposal of a round with a quorum of commits.
LEMMA FinalizedBackedStep ==
    ASSUME Inv, Step, TypeOK', Growing
    PROVE  FinalizedBacked'
<1> USE DEF Inv
<1>0. commits' \in SUBSET Votes /\ commits \in SUBSET commits' /\ Quorum \in Int
  BY QuorumAssumption DEF TypeOK, Growing
<1> SUFFICES ASSUME NEW j \in Nodes, finalized'[j] # NoBlock
             PROVE  \E r \in Rounds : Cardinality(Voters(commits', r, finalized'[j])) >= Quorum
  BY DEF FinalizedBacked, Voters, Senders
<1>1. CASE finalized'[j] = finalized[j]
  <2>1. PICK r \in Rounds : Cardinality(Voters(commits, r, finalized[j])) >= Quorum
    BY <1>1 DEF FinalizedBacked
  <2>2. Cardinality(Voters(commits', r, finalized[j])) >= Quorum
    BY <1>0, <2>1, VotersGrow
  <2> QED
    BY <1>1, <2>2
<1>2. ASSUME NEW i \in Nodes, FinishHeight(i)
      PROVE  \E r \in Rounds : Cardinality(Voters(commits', r, finalized'[j])) >= Quorum
  <2>1. PICK p \in proposals :
          p.round = round[i] /\ finalized' = [finalized EXCEPT ![i] = p.block]
    BY <1>2 DEF FinishHeight
  <2>2. CASE j # i
    BY <1>1, <2>1, <2>2 DEF TypeOK
  <2>3. CASE j = i
    <3>1. finalized'[j] = p.block
      BY <2>1, <2>3 DEF TypeOK
    <3>2. round[i] \in Rounds
      BY <2>1 DEF TypeOK, Proposals
    <3>3. task[i][round[i]] = "finished" /\ commits' = commits
      BY <1>2 DEF FinishHeight, msgVars
    <3>4. /\ Cardinality(Voters(commits, round[i], digest[i][round[i]])) >= Quorum
          /\ \E q \in proposals : q.round = round[i] /\ q.block = digest[i][round[i]]
      BY <3>2, <3>3 DEF TasksBacked, TaskBacked, Holding
    <3>5. p.block = digest[i][round[i]]
      BY <2>1, <3>4 DEF OneProposal
    <3> QED
      BY <3>1, <3>2, <3>3, <3>4, <3>5
  <2> QED
    BY <2>2, <2>3
<1>3. finalized' = finalized \/ \E i \in Nodes : FinishHeight(i)
  BY DEF Step, ProposeStep, BroadcastProposal, FailStep, FailTask, AcceptProposal,
         BroadcastCommit, EnterCommit, FinishRound, JumpStep, Timeout, Cancel, vars, nodeVars
<1> QED
  BY <1>1, <1>2, <1>3
\* Only a node that is in its loop finalizes a block or changes its status.
LEMMA FinalizedStoppedStep ==
    ASSUME Inv, Step
    PROVE  /\ FinalizedStopped'
           /\ \A i \in Nodes : finalized[i] # NoBlock => finalized'[i] = finalized[i]
<1> USE DEF Inv, FinalizedStopped
<1>1. CASE status' = status /\ finalized' = finalized
  BY <1>1
<1>2. ASSUME NEW i \in Nodes, FinishHeight(i)
      PROVE  /\ FinalizedStopped'
             /\ \A j \in Nodes : finalized[j] # NoBlock => finalized'[j] = finalized[j]
  <2>1. status[i] = "running" /\ status' = [status EXCEPT ![i] = "finalized"]
    BY <1>2 DEF FinishHeight
  <2>2. PICK b : finalized' = [finalized EXCEPT ![i] = b]
    BY <1>2 DEF FinishHeight
  <2>3. finalized[i] = NoBlock
    BY <2>1
  <2> QED
    BY <2>1, <2>2, <2>3 DEF TypeOK
<1>3. ASSUME NEW i \in Nodes, status[i] = "running", finalized' = finalized,
             \E s : status' = [status EXCEPT ![i] = s]
      PROVE  /\ FinalizedStopped'
             /\ \A j \in Nodes : finalized[j] # NoBlock => finalized'[j] = finalized[j]
  <2>1. PICK s : status' = [status EXCEPT ![i] = s]
    BY <1>3
  <2>2. finalized[i] = NoBlock
    BY <1>3
  <2> QED
    BY <1>3, <2>1, <2>2 DEF TypeOK
<1>4. ASSUME NEW i \in Nodes, Cancel(i) \/ Timeout(i) \/ \E r \in Rounds : JumpStep(i, r)
      PROVE  /\ status[i] = "running" /\ finalized' = finalized
             /\ \E s : status' = [status EXCEPT ![i] = s]
  BY <1>4 DEF Cancel, Timeout, JumpStep, Selecting, StartRound
<1> HIDE DEF FinalizedStopped
<1> QED
  BY <1>1, <1>2, <1>3, <1>4
  DEF Step, ProposeStep, BroadcastProposal, FailStep, FailTask, AcceptProposal,
      BroadcastCommit, EnterCommit, FinishRound, vars, nodeVars

-----------------------------------------------------------------------------
(* The invariant is inductive *)

\* The conjuncts hold when every node enters the height.
LEMMA InvInit ==
    ASSUME Init
    PROVE  Inv
<1> USE DEF Init
<1>1. TypeOK
  BY ConstantsAssumption DEF TypeOK, Statuses, TaskStates, Rounds
<1>2. TasksStarted /\ TasksBacked
  BY DEF TasksStarted, TasksBacked, TaskBacked, Holding
<1>3. OneProposal /\ ProposalsBacked /\ PreparesBacked /\ CommitsBacked
  BY DEF OneProposal, ProposalsBacked, PreparesBacked, CommitsBacked
<1>4. RoundChangesOrdered /\ RoundChangesValid /\ CertificatesNeverRegress
  BY DEF RoundChangesOrdered, RoundChangesValid, CertificatesNeverRegress
<1>5. RoundsJustified /\ SkipsJustified /\ CommitsRemembered /\ FinalizedBacked
  BY DEF RoundsJustified, SkipsJustified, CommitsRemembered, FinalizedBacked
<1>6. FinalizedStopped
  BY DEF FinalizedStopped
<1> QED
  BY <1>1, <1>2, <1>3, <1>4, <1>5, <1>6 DEF Inv

\* Every step preserves every conjunct.
LEMMA InvNext ==
    ASSUME Inv, [Next]_vars
    PROVE  Inv'
<1>1. Step
  BY NextIsStep
<1>2. TypeOK' /\ Growing
  BY <1>1, TypeStep, MessagesGrow
<1>3. TasksStarted' /\ OneProposal' /\ ProposalsBacked' /\ TasksBacked'
  BY <1>1, <1>2, TasksStartedStep, OneProposalStep, ProposalsBackedStep, TasksBackedStep
<1>4. PreparesBacked' /\ CommitsBacked' /\ FinalizedBacked' /\ FinalizedStopped'
  BY <1>1, <1>2, PreparesBackedStep, CommitsBackedStep, FinalizedBackedStep,
     FinalizedStoppedStep
<1>5. RoundChangesOrdered' /\ RoundChangesValid' /\ CertificatesNeverRegress'
  BY <1>1, <1>2, RoundChangesOrderedStep, RoundChangesValidStep, CertificatesNeverRegressStep
<1>6. RoundsJustified' /\ SkipsJustified' /\ CommitsRemembered'
  BY <1>1, <1>2, RoundsJustifiedStep, SkipsJustifiedStep, CommitsRememberedStep
<1> QED
  BY <1>2, <1>3, <1>4, <1>5, <1>6 DEF Inv

\* The inductive invariant: the round tasks, the main loops and the messages of ibft.rs
\* stay consistent with each other in every execution.
THEOREM Invariance == Spec => []Inv
<1>1. Init => Inv
  BY InvInit
<1>2. Inv /\ [Next]_vars => Inv'
  BY InvNext
<1> QED
  BY <1>1, <1>2, PTL DEF Spec

-----------------------------------------------------------------------------
(* Agreement *)

\* A round has one proposal, and every vote of the round is for its block.
LEMMA OneBlock ==
    ASSUME Inv
    PROVE  NoEquivocation
<1> USE DEF Inv
<1>1. ASSUME NEW v \in prepares \cup commits
      PROVE  \E p \in proposals : p.round = v.round /\ p.block = v.block
  BY DEF PreparesBacked, CommitsBacked
<1>2. \A p, q \in proposals : p.round = q.round => p = q
  BY DEF OneProposal
<1>3. ASSUME NEW v \in prepares \cup commits, NEW w \in prepares \cup commits,
             v.round = w.round
      PROVE  v.block = w.block
  <2>1. PICK p \in proposals : p.round = v.round /\ p.block = v.block
    BY <1>1
  <2>2. PICK q \in proposals : q.round = w.round /\ q.block = w.block
    BY <1>1
  <2> QED
    BY <1>2, <1>3, <2>1, <2>2
<1> QED
  BY <1>2, <1>3 DEF NoEquivocation

\* A quorum of commits has a commit.
LEMMA CommitExists ==
    ASSUME Inv, NEW r, NEW b, Cardinality(Voters(commits, r, b)) >= Quorum
    PROVE  \E c \in commits : c.round = r /\ c.block = b
<1>1. commits \in SUBSET Votes
  BY DEF Inv, TypeOK
<1>2. Cardinality(Voters(commits, r, b)) \in Nat
  BY <1>1, VotersType
<1>3. Cardinality(Voters(commits, r, b)) >= 1
  BY <1>2, QuorumAssumption
<1> QED
  BY <1>1, <1>3, VoteExists

\* The certificate of a round change that was sent is of an earlier round, in which
\* its block was prepared.
LEMMA CertificatePrepared ==
    ASSUME Inv, NEW m \in roundChanges, m.pc # NoPC
    PROVE  /\ m.pc \in PreparedCertificates
           /\ m.pc.round < m.round
           /\ \E v \in prepares : v.round = m.pc.round /\ v.block = m.pc.block
<1> USE DEF Inv
<1> DEFINE S == Voters(prepares, m.pc.round, m.pc.block) \ {Proposer[m.pc.round]}
<1>1. m.pc \in PreparedCertificates
  BY DEF TypeOK, RoundChanges
<1>2. m.pc.round < m.round /\ Cardinality(S) >= Quorum - 1
  BY DEF RoundChangesValid, round_change_verify_fn, verify_prepared_certificate
<1>3. S \in SUBSET Nodes
  BY VotersType DEF TypeOK
<1>4. Cardinality(S) >= 1
  <2> HIDE DEF S
  <2>1. Cardinality(S) \in Nat
    BY <1>3, NodeSets
  <2> QED
    BY <1>2, <2>1, QuorumAssumption
<1>5. PICK j \in Nodes : j \in S
  BY <1>3, <1>4, NonEmpty
<1>6. \E v \in prepares : v.round = m.pc.round /\ v.block = m.pc.block
  BY <1>5 DEF Voters, Senders
<1> QED
  BY <1>1, <1>2, <1>6

\* If some certificate is of a round above 0, there is one of the highest round.
LEMMA HighestExists ==
    ASSUME NEW rcc \in SUBSET RoundChanges, NEW top \in PCs(rcc), top.round > 0
    PROVE  HighestPCs(rcc) # {}
<1> DEFINE T == {MaxRound - pc.round : pc \in PCs(rcc)}
<1>1. \A pc \in PCs(rcc) : pc.round \in Rounds
  BY DEF PCs, RoundChanges, PreparedCertificates
<1>2. T \in SUBSET Nat /\ T # {}
  BY <1>1, ConstantsAssumption DEF Rounds
<1>3. PICK x \in T : \A y \in T : x <= y
  <2> HIDE DEF T
  <2> QED
    BY <1>2, LeastRound
<1>4. PICK pc \in PCs(rcc) : x = MaxRound - pc.round
  BY <1>3
<1>5. ASSUME NEW other \in PCs(rcc)
      PROVE  other.round <= pc.round
  <2>1. MaxRound - other.round \in T
    OBVIOUS
  <2>2. MaxRound - pc.round <= MaxRound - other.round
    BY <1>3, <1>4, <2>1
  <2> QED
    BY <1>1, <2>2, ConstantsAssumption DEF Rounds
<1>6. pc.round > 0
  BY <1>1, <1>5 DEF Rounds
<1> QED
  BY <1>5, <1>6 DEF HighestPCs

\* After a quorum of commits in round r, every quorum of round changes for a later
\* round has a certificate of round r or later.  The first round after r that a
\* quorum asked for is where the committers' certificates cannot have been lost.
LEMMA QuorumRemembers ==
    ASSUME Inv, Recorded, NEW r \in Rounds, NEW b \in Blocks,
           Cardinality(Voters(commits, r, b)) >= Quorum,
           NEW k \in Rounds, k > r, NEW S \in SUBSET roundChanges,
           \A m \in S : m.round = k, Cardinality(Senders(S)) >= Quorum
    PROVE  \E m \in S : m.pc # NoPC /\ m.pc.round >= r
<1> USE DEF Inv
<1> DEFINE T == {x \in Rounds : x > r /\ QuorumLeft(x)}
<1>1. k \in T
  BY QuorumOf
<1>2. PICK x \in T : \A y \in T : x <= y
  <2>1. T \in SUBSET Nat /\ T # {}
    BY <1>1 DEF Rounds
  <2> HIDE DEF T
  <2> QED
    BY <2>1, LeastRound
<1> DEFINE L == {m \in roundChanges : m.round = x}
<1>3. /\ Voters(commits, r, b) \in SUBSET Nodes
      /\ Senders(L) \in SUBSET Nodes
      /\ Senders(S) \in SUBSET Nodes
  BY VotersType DEF TypeOK, RoundChanges, Senders
<1>4. Cardinality(Senders(L)) >= Quorum
  BY <1>2 DEF QuorumLeft
<1>5. PICK j \in Nodes : j \in Voters(commits, r, b) /\ j \in Senders(L) /\ j \in Senders(S)
  <2> HIDE DEF L
  <2> QED
    BY <1>3, <1>4, ThreeQuorums
<1>6. PICK c \in commits : c.from = j /\ c.round = r
  BY <1>5 DEF Voters, Senders
<1>7. PICK n \in roundChanges : n.from = j /\ n.round = x
  BY <1>5 DEF Senders
<1>8. PICK m \in S : m.from = j /\ m.round = k
  BY <1>5 DEF Senders
<1>9. n.pc # NoPC /\ n.pc.round >= r
  <2>1. ~ \E y \in Rounds : c.round < y /\ y < n.round /\ QuorumLeft(y)
    <3> SUFFICES ASSUME NEW y \in Rounds, r < y, y < x, QuorumLeft(y)
                 PROVE  FALSE
      BY <1>6, <1>7
    <3>1. y \in T
      OBVIOUS
    <3>2. x <= y /\ x \in Int /\ y \in Int
      BY <1>2, <3>1 DEF Rounds
    <3> QED
      BY <3>2
  <2>2. c.round < n.round
    BY <1>2, <1>6, <1>7
  <2> QED
    BY <1>6, <1>7, <2>1, <2>2 DEF CommitsRemembered
<1>10. x <= k /\ x \in Nat /\ k \in Nat /\ r \in Nat
  BY <1>1, <1>2 DEF Rounds
<1>11. CASE x = k
  <2>1. m = n
    BY <1>7, <1>8, <1>11 DEF RoundChangesOrdered
  <2> QED
    BY <1>9, <2>1
<1>12. CASE x < k
  <2>1. m.pc # NoPC /\ m.pc.round >= n.pc.round
    BY <1>7, <1>8, <1>9, <1>12 DEF CertificatesNeverRegress
  <2>2. m.pc.round \in Nat /\ n.pc.round \in Nat
    BY <1>9, <2>1, CertificatePrepared DEF PreparedCertificates, Rounds
  <2> QED
    BY <1>9, <1>10, <2>1, <2>2
<1> QED
  BY <1>10, <1>11, <1>12

\* A block with a quorum of commits is locked: take the first later round in which
\* another block was prepared; its valid proposal comes with a certificate of the
\* committed round or of a round between the two, whose block can only be the locked one.
LEMMA Locked ==
    ASSUME Inv
    PROVE  LockedIfRecorded
<1> USE DEF Inv
<1> SUFFICES ASSUME Recorded, NEW r \in Rounds, NEW b \in Blocks,
                    Cardinality(Voters(commits, r, b)) >= Quorum,
                    NEW v0 \in prepares, v0.round > r, v0.block # b
             PROVE  FALSE
  BY DEF LockedIfRecorded
<1> DEFINE T == {x \in Rounds : x > r /\ \E v \in prepares : v.round = x /\ v.block # b}
<1>1. PICK k \in T : \A y \in T : k <= y
  <2>1. v0.round \in T
    BY DEF TypeOK, Votes
  <2>2. T \in SUBSET Nat /\ T # {}
    BY <2>1 DEF Rounds
  <2> HIDE DEF T
  <2> QED
    BY <2>2, LeastRound
<1>2. k \in Rounds /\ r \in Nat /\ k \in Nat /\ k > r
  BY <1>1 DEF Rounds
<1>3. PICK p \in proposals : p.round = k /\ p.block # b /\ proposal_1_verify_fn(p)
  <2>1. PICK v \in prepares : v.round = k /\ v.block # b
    BY <1>1
  <2>2. PICK p \in proposals : p.round = k /\ p.block = v.block /\ proposal_verify_fn(p)
    BY <2>1 DEF PreparesBacked
  <2>3. p.round # 0
    BY <1>2, <2>2
  <2> QED
    BY <2>1, <2>2, <2>3 DEF proposal_verify_fn
<1>4. p.rcc \in SUBSET roundChanges /\ p.rcc \in SUBSET RoundChanges
  BY DEF ProposalsBacked, TypeOK
<1>5. PICK m \in p.rcc : m.pc # NoPC /\ m.pc.round >= r
  <2>1. (\A m \in p.rcc : m.round = k) /\ Cardinality(Senders(p.rcc)) >= Quorum
    BY <1>3 DEF proposal_1_verify_fn
  <2> QED
    BY <1>2, <1>4, <2>1, QuorumRemembers
<1>6. ASSUME NEW pc \in PCs(p.rcc)
      PROVE  pc.round \in Nat /\ (pc.round >= r => pc.block = b)
  <2>1. PICK n \in p.rcc : n.pc = pc /\ pc # NoPC /\ n \in roundChanges /\ n.round = k
    BY <1>3, <1>4 DEF PCs, proposal_1_verify_fn
  <2>2. pc \in PreparedCertificates /\ pc.round < k
    BY <2>1, CertificatePrepared
  <2>3. PICK w \in prepares : w.round = pc.round /\ w.block = pc.block
    BY <2>1, CertificatePrepared
  <2>4. pc.round \in Rounds /\ pc.round \in Nat
    BY <2>2 DEF PreparedCertificates, Rounds
  <2>5. CASE pc.round = r
    <3>1. PICK c \in commits : c.round = r /\ c.block = b
      BY CommitExists
    <3> QED
      BY <2>3, <2>4, <2>5, <3>1, OneBlock DEF NoEquivocation
  <2>6. CASE pc.round > r
    <3>1. pc.round \notin T
      BY <1>1, <1>2, <2>2, <2>4
    <3> QED
      BY <2>3, <2>4, <2>6, <3>1
  <2> QED
    BY <1>2, <2>4, <2>5, <2>6
<1>7. m.pc \in PCs(p.rcc)
  BY <1>5 DEF PCs
<1>8. CASE HighestPCs(p.rcc) # {}
  <2>1. PICK pc \in HighestPCs(p.rcc) : p.block = pc.block
    BY <1>3, <1>8 DEF proposal_1_verify_fn
  <2>2. pc \in PCs(p.rcc) /\ m.pc.round <= pc.round
    BY <1>7, <2>1 DEF HighestPCs
  <2>3. pc.round >= r
    BY <1>2, <1>5, <1>6, <1>7, <2>2
  <2> QED
    BY <1>3, <1>6, <2>1, <2>2, <2>3
<1>9. CASE HighestPCs(p.rcc) = {}
  <2>1. ASSUME NEW pc \in PCs(p.rcc)
        PROVE  pc.round = 0
    BY <1>4, <1>6, <1>9, HighestExists
  <2>2. r = 0
    BY <1>2, <1>5, <1>7, <2>1
  <2>3. PICK pc \in PCs(p.rcc) : p.block = pc.block
    BY <1>7 DEF ProposalsBacked
  <2> QED
    BY <1>3, <1>6, <2>1, <2>2, <2>3
<1> QED
  BY <1>8, <1>9

\* Two commit quorums are for the same block: in one round because it has one proposal,
\* in two rounds because the earlier one locks its block.
LEMMA OneCommittedBlock ==
    ASSUME Inv, Recorded, NEW r \in Rounds, NEW s \in Rounds, NEW b \in Blocks, NEW d \in Blocks,
           Cardinality(Voters(commits, r, b)) >= Quorum,
           Cardinality(Voters(commits, s, d)) >= Quorum,
           r <= s
    PROVE  b = d
<1> USE DEF Inv
<1>1. PICK c \in commits : c.round = r /\ c.block = b
  BY CommitExists
<1>2. PICK e \in commits : e.round = s /\ e.block = d
  BY CommitExists
<1>3. CASE r = s
  BY <1>1, <1>2, <1>3, OneBlock DEF NoEquivocation
<1>4. CASE r < s
  <2>1. Cardinality(Voters(prepares, s, d)) >= Quorum - 1
    BY <1>2 DEF CommitsBacked
  <2>2. prepares \in SUBSET Votes /\ Cardinality(Voters(prepares, s, d)) \in Nat
    BY VotersType DEF TypeOK
  <2>3. Cardinality(Voters(prepares, s, d)) >= 1
    BY <2>1, <2>2, QuorumAssumption
  <2>4. PICK v \in prepares : v.round = s /\ v.block = d
    BY <2>2, <2>3, VoteExists
  <2> QED
    BY <1>4, <2>4, Locked DEF LockedIfRecorded
<1> QED
  BY <1>3, <1>4 DEF Rounds

\* Finalized blocks have commit quorums, and commit quorums agree.
LEMMA Agreed ==
    ASSUME Inv
    PROVE  AgreementIfRecorded
<1> USE DEF Inv
<1> SUFFICES ASSUME Recorded, NEW i \in Nodes, NEW j \in Nodes,
                    finalized[i] # NoBlock, finalized[j] # NoBlock
             PROVE  finalized[i] = finalized[j]
  BY DEF AgreementIfRecorded, Agreement
<1>1. finalized[i] \in Blocks /\ finalized[j] \in Blocks
  BY DEF TypeOK
<1>2. PICK r \in Rounds : Cardinality(Voters(commits, r, finalized[i])) >= Quorum
  BY DEF FinalizedBacked
<1>3. PICK s \in Rounds : Cardinality(Voters(commits, s, finalized[j])) >= Quorum
  BY DEF FinalizedBacked
<1>4. r <= s \/ s <= r
  BY DEF Rounds
<1>5. CASE r <= s
  BY <1>1, <1>2, <1>3, <1>5, OneCommittedBlock
<1>6. CASE s <= r
  BY <1>1, <1>2, <1>3, <1>6, OneCommittedBlock
<1> QED
  BY <1>4, <1>5, <1>6

\* A committed block was prepared by a node that is not its proposer, and that node's
\* verification vouches for the block.
LEMMA Valid ==
    ASSUME Inv
    PROVE  FinalizedValid
<1> USE DEF Inv
<1> SUFFICES ASSUME NEW i \in Nodes, finalized[i] # NoBlock
             PROVE  finalized[i] \in ValidBlocks
  BY DEF FinalizedValid
<1> DEFINE b == finalized[i]
<1>1. PICK r \in Rounds : Cardinality(Voters(commits, r, b)) >= Quorum
  BY DEF FinalizedBacked
<1> HIDE DEF b
<1>2. PICK c \in commits : c.round = r /\ c.block = b
  BY <1>1, CommitExists
<1>3. Cardinality(Voters(prepares, r, b)) >= Quorum - 1
  BY <1>2 DEF CommitsBacked
<1>4. prepares \in SUBSET Votes /\ Cardinality(Voters(prepares, r, b)) \in Nat
  BY VotersType DEF TypeOK
<1>5. Cardinality(Voters(prepares, r, b)) >= 1
  BY <1>3, <1>4, QuorumAssumption
<1>6. PICK v \in prepares : v.round = r /\ v.block = b
  BY <1>4, <1>5, VoteExists
<1> QED
  BY <1>6 DEF PreparesBacked, b

-----------------------------------------------------------------------------
(* The theorems *)

\* The variables of every node and every message keep their types.
THEOREM TypeCorrect == Spec => []TypeOK
<1>1. Inv => TypeOK
  BY DEF Inv
<1> QED
  BY <1>1, Invariance, PTL

\* Nodes that finalize the height finalize the same block, provided that no commit was
\* broadcast by a node whose next round change lacks the certificate: the one window
\* that run_prepare leaves open.
THEOREM AgreementTheorem == Spec => []AgreementIfRecorded
<1>1. Inv => AgreementIfRecorded
  BY Agreed
<1> QED
  BY <1>1, Invariance, PTL

\* Under the same condition a block with a quorum of commits is the only one that
\* nodes prepare in later rounds.
THEOREM LockTheorem == Spec => []LockedIfRecorded
<1>1. Inv => LockedIfRecorded
  BY Locked
<1> QED
  BY <1>1, Invariance, PTL

\* Only blocks that verify_block accepts are finalized.
THEOREM ValidityTheorem == Spec => []FinalizedValid
<1>1. Inv => FinalizedValid
  BY Valid
<1> QED
  BY <1>1, Invariance, PTL

\* A round has one proposal and all its votes are for the block of that proposal.
THEOREM NoEquivocationTheorem == Spec => []NoEquivocation
<1>1. Inv => NoEquivocation
  BY OneBlock
<1> QED
  BY <1>1, Invariance, PTL

\* The round changes of handle_timeout are valid for every receiver, now and later.
THEOREM RoundChangeTheorem == Spec => []RoundChangesValid
<1>1. Inv => RoundChangesValid
  BY DEF Inv
<1> QED
  BY <1>1, Invariance, PTL

\* handle_timeout never sends an older certificate than it sent before.
THEOREM CertificateTheorem == Spec => []CertificatesNeverRegress
<1>1. Inv => CertificatesNeverRegress
  BY DEF Inv
<1> QED
  BY <1>1, Invariance, PTL

\* run() changes rounds only with a timeout of its own or a quorum of round changes.
THEOREM RoundTheorem == Spec => []RoundsJustified
<1>1. Inv => RoundsJustified
  BY DEF Inv
<1> QED
  BY <1>1, Invariance, PTL

\* A jump drops the certificate of the round that is left, and that is safe: a node's
\* round change lacks the certificate of a round the node committed in only if a quorum
\* left a round in between.
THEOREM RememberTheorem == Spec => []CommitsRemembered
<1>1. Inv => CommitsRemembered
  BY DEF Inv
<1> QED
  BY <1>1, Invariance, PTL
=============================================================================
