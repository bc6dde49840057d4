---------------------------- MODULE IBFTInvariant ----------------------------
(***************************************************************************)
(* The inductive invariant behind the safety properties of IBFT: what the  *)
(* control points of the tasks and the broadcast messages say about each   *)
(* other.  The runs check it on small instances, IBFTProofs proves it.     *)
(***************************************************************************)
EXTENDS IBFT

\* The control points at which the task holds a proposed_block_digest.
Holding == {"prepare", "committing", "commit", "finished"}

\* The task of a round the node has not reached does not exist.
TasksStarted ==
    \A i \in Nodes : \A r \in Rounds : r > round[i] => task[i][r] = "idle"

\* A round's proposer proposes when it leaves the control point "proposal", once.
OneProposal ==
    /\ \A p \in proposals : task[Proposer[p.round]][p.round] \notin {"idle", "proposal"}
    /\ \A p, q \in proposals : p.round = q.round => p = q

\* A proposal above round 0 comes with messages that were sent, and with the block of
\* one of their certificates if they have one.
ProposalsBacked ==
    \A p \in proposals :
        /\ p.rcc \subseteq roundChanges
        /\ PCs(p.rcc) # {} => \E pc \in PCs(p.rcc) : p.block = pc.block

\* A task works on the round's proposal, past "prepare" with its prepares, and at
\* "finished" with its commits.
TaskBacked(i, r) ==
    task[i][r] \in Holding =>
        /\ \E p \in proposals : p.round = r /\ p.block = digest[i][r]
        /\ task[i][r] # "prepare"
              => Cardinality(Voters(prepares, r, digest[i][r])) >= Quorum - 1
        /\ task[i][r] = "finished"
              => Cardinality(Voters(commits, r, digest[i][r])) >= Quorum

TasksBacked == \A i \in Nodes : \A r \in Rounds : TaskBacked(i, r)

\* A prepare answers a proposal that its sender, not the proposer, found valid.
PreparesBacked ==
    \A v \in prepares :
        /\ v.from # Proposer[v.round]
        /\ v.block \in ValidBlocks
        /\ \E p \in proposals : p.round = v.round /\ p.block = v.block /\ proposal_verify_fn(p)

\* A commit follows quorum - 1 prepares.
CommitsBacked ==
    \A c \in commits :
        /\ \E p \in proposals : p.round = c.round /\ p.block = c.block
        /\ Cardinality(Voters(prepares, c.round, c.block)) >= Quorum - 1

\* A node sends one round change per round, up to the round it is in; the latest is
\* latest_self_round_change.
RoundChangesOrdered ==
    /\ \A m \in roundChanges : m.round <= round[m.from]
    /\ \A m, n \in roundChanges : m.from = n.from /\ m.round = n.round => m = n
    /\ \A m \in roundChanges :
          /\ latest_self_round_change[m.from] \in roundChanges
          /\ latest_self_round_change[m.from].round >= m.round
    /\ \A i \in Nodes : latest_self_round_change[i] # NoRoundChange
          => latest_self_round_change[i] \in roundChanges /\ latest_self_round_change[i].from = i

\* A round a node passed through without a round change of its own was skipped: a
\* quorum left it, or a round between it and the node's next round change.
SkipsJustified ==
    \A m \in roundChanges : \A x \in Rounds : 0 < x /\ x < m.round =>
        \/ \E n \in roundChanges : n.from = m.from /\ n.round = x
        \/ \E y \in Rounds : x <= y /\ y < m.round /\ QuorumLeft(y)

\* The branches of run() that follow a future proposal or a future round change
\* certificate compose no prepared certificate, so a node may lose the certificate of a
\* round it committed in.  What makes that safe: a round change carries the certificate of
\* a round its sender committed in, or of a later one, unless the sender jumped, and
\* then a quorum left a round in between.
CommitsRemembered ==
    Recorded =>
        \A c \in commits, m \in roundChanges :
            m.from = c.from /\ c.round < m.round =>
                \/ m.pc # NoPC /\ m.pc.round >= c.round
                \/ \E x \in Rounds : c.round < x /\ x < m.round /\ QuorumLeft(x)

\* A finalized block has a quorum of commits in some round.
FinalizedBacked ==
    \A i \in Nodes : finalized[i] # NoBlock =>
        \E r \in Rounds : Cardinality(Voters(commits, r, finalized[i])) >= Quorum

\* A node that finalized a block has left its loop.
FinalizedStopped == \A i \in Nodes : finalized[i] # NoBlock => status[i] = "finalized"

Inv ==
    /\ TypeOK
    /\ TasksStarted
    /\ OneProposal
    /\ ProposalsBacked
    /\ TasksBacked
    /\ PreparesBacked
    /\ CommitsBacked
    /\ RoundChangesOrdered
    /\ RoundChangesValid
    /\ CertificatesNeverRegress
    /\ RoundsJustified
    /\ SkipsJustified
    /\ CommitsRemembered
    /\ FinalizedBacked
    /\ FinalizedStopped
=============================================================================
