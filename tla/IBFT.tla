-------------------------------- MODULE IBFT --------------------------------
(***************************************************************************)
(* One height of the IBFT consensus in crates/consensus/poa/src/ibft.rs,   *)
(* run by every validator: the main loop IBFT::run of each node, the round *)
(* task it spawns for each round, and the messages the nodes broadcast.    *)
(*                                                                         *)
(* The four message variables are the messages that were EVER broadcast at *)
(* this height.  A node's ConsensusMessages store holds an arbitrary part  *)
(* of them, so a step that needs a quorum needs it among the sent messages *)
(* and a step that uses a set of messages may use any subset: loss, delay, *)
(* duplication and reordering are all such choices.                        *)
(*                                                                         *)
(* A block digest is digest_block(raw_block, round), so a proposal, a vote *)
(* and a certificate name the pair of a round and a block.                 *)
(***************************************************************************)
EXTENDS Integers, FiniteSets

CONSTANTS
    Nodes,          \* the validators of the height
    Quorum,         \* ValidatorManager::quorum(height)
    MaxRound,       \* MAX_ROUND, 21 in lib.rs
    Proposer,       \* Proposer[r]: the node with is_proposer(node, View(height, r))
    Blocks,         \* raw blocks
    ValidBlocks,    \* the raw blocks BlockService::verify_block accepts
    Built,          \* Built[r]: what build_block may return to the proposer of round r
    NoBlock,        \* not a block: an error of build_block, a block not known yet
    NoPC,           \* latest_prepared_proposed = None
    NoRoundChange,  \* latest_self_round_change = None
    ExpiringRounds, \* ExpiringRounds[i]: the rounds whose timer may expire at node i
    Cancellable,    \* the nodes whose caller may use the cancel channel
    Lingering       \* the nodes whose aborted round task may be caught in mid-poll:
                    \* JoinHandle::abort only takes effect at its next pending await

Rounds == 0 .. MaxRound

PreparedCertificates == [round : Rounds, block : Blocks]
RoundChanges == [from : Nodes, round : 1 .. MaxRound + 1,
                 pc : PreparedCertificates \cup {NoPC}]
Votes == [from : Nodes, round : Rounds, block : Blocks]
Proposals == [round : Rounds, block : Blocks, rcc : SUBSET RoundChanges]

ASSUME NodesAssumption == IsFiniteSet(Nodes)

\* What the mock's quorum, 2 * n / 3 + 1, guarantees for two validators or more.  Any
\* three quorums then have a node in common.
ASSUME QuorumAssumption ==
    /\ Quorum \in Nat \ {0, 1}
    /\ Quorum <= Cardinality(Nodes)
    /\ 3 * Quorum > 2 * Cardinality(Nodes)

ASSUME ConstantsAssumption ==
    /\ MaxRound \in Nat
    /\ Proposer \in [Rounds -> Nodes]
    /\ ValidBlocks \subseteq Blocks
    /\ NoBlock \notin Blocks
    /\ Built \in [Rounds -> SUBSET (Blocks \cup {NoBlock})]
    /\ NoPC \notin PreparedCertificates
    /\ NoRoundChange \notin RoundChanges
    /\ ExpiringRounds \in [Nodes -> SUBSET Rounds]
    /\ Cancellable \subseteq Nodes
    /\ Lingering \subseteq Nodes

VARIABLES
    round,          \* round[i]: the local variable of run()
    status,         \* status[i]: where run() is: in its loop, or how it ended
    latest_self_round_change,  \* latest_self_round_change[i]: the local variable of run()
    task,           \* task[i][r]: the control point of the round task of round r
    digest,         \* digest[i][r]: the block of that task's proposed_block_digest
    finalized,      \* finalized[i]: the raw block of the FinalizedBlock run() returned
    proposals,      \* the broadcast messages
    prepares,
    commits,
    roundChanges

nodeVars == <<round, status, latest_self_round_change, finalized>>
taskVars == <<task, digest>>
msgVars == <<proposals, prepares, commits, roundChanges>>
vars == <<nodeVars, taskVars, msgVars>>

(***************************************************************************)
(* The control points of a round task.  SharedRunState is Proposal at      *)
(* "proposal", Commit from "commit" on and Prepare in between: a task      *)
(* broadcasts its commit at "prepare" and is then at "committing", where   *)
(* its run state still reads Prepare.                                      *)
(***************************************************************************)
TaskStates == {"idle", "proposal", "prepare", "committing", "commit",
               "finished", "failed", "aborted"}

\* run() is in its loop, returned Some or None, or panicked past MAX_ROUND.
Statuses == {"running", "finalized", "cancelled", "dead"}

TypeOK ==
    /\ round \in [Nodes -> 0 .. MaxRound + 1]
    /\ status \in [Nodes -> Statuses]
    /\ latest_self_round_change \in [Nodes -> RoundChanges \cup {NoRoundChange}]
    /\ task \in [Nodes -> [Rounds -> TaskStates]]
    /\ digest \in [Nodes -> [Rounds -> Blocks \cup {NoBlock}]]
    /\ finalized \in [Nodes -> Blocks \cup {NoBlock}]
    /\ proposals \subseteq Proposals
    /\ prepares \subseteq Votes
    /\ commits \subseteq Votes
    /\ roundChanges \subseteq RoundChanges

Init ==
    /\ round = [i \in Nodes |-> 0]
    /\ status = [i \in Nodes |-> "running"]
    /\ latest_self_round_change = [i \in Nodes |-> NoRoundChange]
    /\ task = [i \in Nodes |-> [r \in Rounds |-> IF r = 0 THEN "proposal" ELSE "idle"]]
    /\ digest = [i \in Nodes |-> [r \in Rounds |-> NoBlock]]
    /\ finalized = [i \in Nodes |-> NoBlock]
    /\ proposals = {}
    /\ prepares = {}
    /\ commits = {}
    /\ roundChanges = {}

-----------------------------------------------------------------------------
(* Certificates *)

Senders(msgs) == {m.from : m \in msgs}

\* The nodes that voted for block b in round r.
Voters(votes, r, b) == Senders({v \in votes : v.round = r /\ v.block = b})

\* verify_prepared_certificate.  Signatures cannot be forged, so the proposal
\* and the prepares of a certificate are messages that were sent.
verify_prepared_certificate(pc, limit) ==
    /\ pc.round < limit
    /\ \E p \in proposals : p.round = pc.round /\ p.block = pc.block
    /\ Cardinality(Voters(prepares, pc.round, pc.block) \ {Proposer[pc.round]}) >= Quorum - 1

round_change_verify_fn(m) ==
    m.pc # NoPC => verify_prepared_certificate(m.pc, m.round)

\* Mutant: the metadata of a round change drops its certificate.
PCs_Dropped(rcc) == {m.pc : m \in {n \in rcc : n.pc = NoPC}} \ {NoPC}

PCs(rcc) == {m.pc : m \in rcc} \ {NoPC}

\* The certificates of the highest round; the search starts from highest_round = 0
\* with a strict comparison, so a certificate of round 0 is never among them.
HighestPCs(rcc) ==
    {pc \in PCs(rcc) : pc.round > 0 /\ \A other \in PCs(rcc) : other.round <= pc.round}

\* Mutant: the block is not verified.
proposal_0_verify_fn_Unverified(p) == p.block \in Blocks

proposal_0_verify_fn(p) == p.block \in ValidBlocks

proposal_1_verify_fn(p) ==
    /\ Cardinality(Senders(p.rcc)) >= Quorum
    /\ \A m \in p.rcc : m.round = p.round
    /\ \A m, n \in p.rcc : m.from = n.from => m = n
    /\ IF HighestPCs(p.rcc) # {}
       THEN \E pc \in HighestPCs(p.rcc) :
               p.block = pc.block /\ verify_prepared_certificate(pc, p.round)
       ELSE p.block \in ValidBlocks

proposal_verify_fn(p) ==
    IF p.round = 0 THEN proposal_0_verify_fn(p) ELSE proposal_1_verify_fn(p)

\* Mutant: one round change short of the quorum.
RoundChangeCertificates_OneShort(r) ==
    {S \in SUBSET {m \in roundChanges : m.round = r /\ round_change_verify_fn(m)} :
        Cardinality(Senders(S)) >= Quorum - 1}

\* The sets of round change messages a node may have received for round r
\* that reach the quorum.
RoundChangeCertificates(r) ==
    {S \in SUBSET {m \in roundChanges : m.round = r /\ round_change_verify_fn(m)} :
        Cardinality(Senders(S)) >= Quorum}

-----------------------------------------------------------------------------
(* The round task: run_ibft_round_0 and run_ibft_round_1 *)

\* The task of round r at control point s can take a step: the main loop is
\* still in round r, or it aborted the task while it was being polled.
At(i, r, s) ==
    /\ task[i][r] = s
    /\ (r = round[i] /\ status[i] = "running") \/ i \in Lingering

Goto(i, r, s) == task' = [task EXCEPT ![i][r] = s]

\* Mutant: the task does not leave the proposal state.
BroadcastProposal_Again(i, r, b, rcc) ==
    /\ proposals' = proposals \cup {[round |-> r, block |-> b, rcc |-> rcc]}
    /\ digest' = [digest EXCEPT ![i][r] = b]
    /\ UNCHANGED <<nodeVars, task, prepares, commits, roundChanges>>

\* The proposer broadcasts block b and goes to run_prepare, without a prepare
\* message of its own and without verifying its block.
BroadcastProposal(i, r, b, rcc) ==
    /\ proposals' = proposals \cup {[round |-> r, block |-> b, rcc |-> rcc]}
    /\ digest' = [digest EXCEPT ![i][r] = b]
    /\ Goto(i, r, "prepare")
    /\ UNCHANGED <<nodeVars, prepares, commits, roundChanges>>

\* An error of build_block ends the task; the main loop waits for its timer.
FailTask(i, r) ==
    /\ Goto(i, r, "failed")
    /\ UNCHANGED <<nodeVars, digest, msgVars>>

\* run_proposal_0, the proposer's branch.
Propose0(i, r) ==
    /\ r = 0
    /\ i = Proposer[r]
    /\ At(i, r, "proposal")
    /\ \E b \in Built[r] :
          IF b = NoBlock THEN FailTask(i, r) ELSE BroadcastProposal(i, r, b, {})

\* Mutant: the proposer builds a new block whatever the certificate holds.
Propose1_FreshBlock(i, r) ==
    /\ r > 0
    /\ i = Proposer[r]
    /\ At(i, r, "proposal")
    /\ \E rcc \in RoundChangeCertificates(r), b \in Built[r] :
          IF b = NoBlock THEN FailTask(i, r) ELSE BroadcastProposal(i, r, b, rcc)

\* run_proposal_1, the proposer's branch: wait_rcc, then the block of the first
\* prepared certificate it finds (the order is that of a hash map) or a new one.
Propose1(i, r) ==
    /\ r > 0
    /\ i = Proposer[r]
    /\ At(i, r, "proposal")
    /\ \E rcc \in RoundChangeCertificates(r) :
          \/ \E pc \in PCs(rcc) : BroadcastProposal(i, r, pc.block, rcc)
          \/ /\ PCs(rcc) = {}
             /\ \E b \in Built[r] :
                   IF b = NoBlock THEN FailTask(i, r) ELSE BroadcastProposal(i, r, b, rcc)

\* run_proposal_0 and run_proposal_1, the other nodes: a valid proposal is
\* answered by a prepare.
AcceptProposal(i, r) ==
    /\ i # Proposer[r]
    /\ At(i, r, "proposal")
    /\ \E p \in proposals :
          /\ p.round = r
          /\ proposal_verify_fn(p)
          /\ digest' = [digest EXCEPT ![i][r] = p.block]
          /\ prepares' = prepares \cup {[from |-> i, round |-> r, block |-> p.block]}
    /\ Goto(i, r, "prepare")
    /\ UNCHANGED <<nodeVars, proposals, commits, roundChanges>>

\* An invalid proposal ends the task with an error.
RejectProposal(i, r) ==
    /\ i # Proposer[r]
    /\ At(i, r, "proposal")
    /\ \E p \in proposals : p.round = r /\ ~proposal_verify_fn(p)
    /\ FailTask(i, r)

\* Mutant: a quorum of prepares, as if the proposer sent one too.
BroadcastCommit_OneMore(i, r) ==
    /\ At(i, r, "prepare")
    /\ Cardinality(Voters(prepares, r, digest[i][r])) >= Quorum
    /\ commits' = commits \cup {[from |-> i, round |-> r, block |-> digest[i][r]]}
    /\ Goto(i, r, "committing")
    /\ UNCHANGED <<nodeVars, digest, proposals, prepares, roundChanges>>

\* Mutant: one prepare short.
BroadcastCommit_OneShort(i, r) ==
    /\ At(i, r, "prepare")
    /\ Cardinality(Voters(prepares, r, digest[i][r])) >= Quorum - 2
    /\ commits' = commits \cup {[from |-> i, round |-> r, block |-> digest[i][r]]}
    /\ Goto(i, r, "committing")
    /\ UNCHANGED <<nodeVars, digest, proposals, prepares, roundChanges>>

\* run_prepare: on quorum - 1 prepares the commit is broadcast.
BroadcastCommit(i, r) ==
    /\ At(i, r, "prepare")
    /\ Cardinality(Voters(prepares, r, digest[i][r])) >= Quorum - 1
    /\ commits' = commits \cup {[from |-> i, round |-> r, block |-> digest[i][r]]}
    /\ Goto(i, r, "committing")
    /\ UNCHANGED <<nodeVars, digest, proposals, prepares, roundChanges>>

\* state.update(RunState::Commit), after run_prepare has returned.
EnterCommit(i, r) ==
    /\ At(i, r, "committing")
    /\ Goto(i, r, "commit")
    /\ UNCHANGED <<nodeVars, digest, msgVars>>

\* run_commit: on a quorum of commits the seals go to the main loop.
FinishRound(i, r) ==
    /\ At(i, r, "commit")
    /\ Cardinality(Voters(commits, r, digest[i][r])) >= Quorum
    /\ Goto(i, r, "finished")
    /\ UNCHANGED <<nodeVars, digest, msgVars>>

-----------------------------------------------------------------------------
(* The main loop: run *)

\* run() is at its select!, where any branch that is ready may be taken: the bias is the
\* order of polling, and a branch below round_finished is taken too when the round
\* finishes after that branch's turn.
Selecting(i) == status[i] = "running"

\* abort(), then the next iteration of the loop with round = r.
StartRound(i, r) ==
    /\ round' = [round EXCEPT ![i] = r]
    /\ status' = [status EXCEPT ![i] = IF r > MaxRound THEN "dead" ELSE "running"]
    /\ task' = [task EXCEPT ![i] =
                  [k \in Rounds |->
                     IF k = r THEN "proposal"
                     ELSE IF k = round[i] /\ i \notin Lingering THEN "aborted"
                     ELSE task[i][k]]]

\* The round_finished branch: handle_round_finish takes the round's proposal.
FinishHeight(i) ==
    /\ status[i] = "running"
    /\ task[i][round[i]] = "finished"
    /\ \E p \in proposals :
          /\ p.round = round[i]
          /\ finalized' = [finalized EXCEPT ![i] = p.block]
    /\ status' = [status EXCEPT ![i] = "finalized"]
    /\ UNCHANGED <<round, latest_self_round_change, taskVars, msgVars>>

\* The future_proposal_rx branch: wait_future_proposal found a valid proposal.
FutureProposal(i, r) ==
    /\ Selecting(i)
    /\ r > round[i]
    /\ \E p \in proposals : p.round = r /\ proposal_1_verify_fn(p)
    /\ StartRound(i, r)
    /\ UNCHANGED <<latest_self_round_change, finalized, digest, msgVars>>

\* Mutant: one round change for a later round is enough.
FutureRcc_One(i, r) ==
    /\ Selecting(i)
    /\ r > round[i]
    /\ \E m \in roundChanges : m.round = r /\ round_change_verify_fn(m)
    /\ StartRound(i, r)
    /\ UNCHANGED <<latest_self_round_change, finalized, digest, msgVars>>

\* The future_rcc_rx branch: wait_future_rcc found a quorum of round changes.
FutureRcc(i, r) ==
    /\ Selecting(i)
    /\ r > round[i]
    /\ RoundChangeCertificates(r) # {}
    /\ StartRound(i, r)
    /\ UNCHANGED <<latest_self_round_change, finalized, digest, msgVars>>

\* Mutant: a certificate is made in every run state.
TimeoutCertificate_AnyState(i) == [round |-> round[i], block |-> digest[i][round[i]]]

\* Mutant: a certificate is made in the Prepare state too.
TimeoutCertificate_Unprepared(i) ==
    IF digest[i][round[i]] # NoBlock
    THEN TimeoutCertificate_AnyState(i)
    ELSE NoPC

\* Mutant: the certificate of the previous round change is not reused.
TimeoutCertificate_Forgotten(i) ==
    IF task[i][round[i]] \in {"commit", "finished"}
    THEN TimeoutCertificate_AnyState(i) ELSE NoPC

\* The round change handle_timeout broadcasts: with a new certificate when the run
\* state reads Commit, else with the one of the previous round change, if any.
TimeoutCertificate(i) ==
    IF task[i][round[i]] \in {"commit", "finished"}
    THEN [round |-> round[i], block |-> digest[i][round[i]]]
    ELSE IF latest_self_round_change[i] = NoRoundChange
         THEN NoPC
         ELSE latest_self_round_change[i].pc

\* The timeout branch: handle_timeout, then round += 1.
Timeout(i) ==
    /\ Selecting(i)
    /\ round[i] \in ExpiringRounds[i]
    /\ LET rc == [from |-> i, round |-> round[i] + 1, pc |-> TimeoutCertificate(i)]
       IN  /\ latest_self_round_change' = [latest_self_round_change EXCEPT ![i] = rc]
           /\ roundChanges' = roundChanges \cup {rc}
    /\ StartRound(i, round[i] + 1)
    /\ UNCHANGED <<finalized, digest, proposals, prepares, commits>>

\* The cancel branch, the first of the select!: run returns None.
Cancel(i) ==
    /\ i \in Cancellable
    /\ status[i] = "running"
    /\ status' = [status EXCEPT ![i] = "cancelled"]
    /\ UNCHANGED <<round, latest_self_round_change, finalized, taskVars, msgVars>>

-----------------------------------------------------------------------------
\* A step of the round task of round r.
TaskStep(i, r) ==
    \/ Propose0(i, r)
    \/ Propose1(i, r)
    \/ AcceptProposal(i, r)
    \/ RejectProposal(i, r)
    \/ BroadcastCommit(i, r)
    \/ EnterCommit(i, r)
    \/ FinishRound(i, r)

\* Every run() has returned or panicked.
Terminating ==
    /\ \A i \in Nodes : status[i] # "running"
    /\ UNCHANGED vars

Next ==
    \/ \E i \in Nodes :
          \/ FinishHeight(i)
          \/ Timeout(i)
          \/ Cancel(i)
          \/ \E r \in Rounds :
                \/ TaskStep(i, r)
                \/ FutureProposal(i, r)
                \/ FutureRcc(i, r)
    \/ Terminating

Spec == Init /\ [][Next]_vars

\* The runtime polls every task that is ready, the timer of an expiring round fires,
\* and a message that was broadcast reaches every node that still waits for it.
Fairness ==
    \A i \in Nodes :
        /\ WF_vars(\E r \in Rounds : r = round[i] /\ TaskStep(i, r))
        /\ WF_vars(FinishHeight(i))
        /\ WF_vars(\E r \in Rounds : FutureProposal(i, r) \/ FutureRcc(i, r))
        /\ WF_vars(Timeout(i))

FairSpec == Spec /\ Fairness
-----------------------------------------------------------------------------
(* Properties *)

\* No node that broadcast its commit for a round timed out of that round with a round
\* change that lacks the round's prepared certificate.  The code does not guarantee it,
\* for two reasons: the timer may expire while the task is at "committing", and a task
\* that was aborted by the timeout in mid-poll may still broadcast its commit.
Recorded ==
    \A c \in commits, m \in roundChanges :
        m.from = c.from /\ m.round = c.round + 1
            => m.pc = [round |-> c.round, block |-> c.block]

\* Nodes that finalize the height finalize the same block.
Agreement ==
    \A i, j \in Nodes :
        finalized[i] # NoBlock /\ finalized[j] # NoBlock => finalized[i] = finalized[j]

\* As long as every commit is recorded in the round change that follows it, the
\* nodes agree: across rounds, whatever the order of messages, timeouts and jumps.
AgreementIfRecorded == Recorded => Agreement

\* The block of a commit quorum is locked: no node prepares another block in a
\* later round (what wait_rcc and proposal_1_verify_fn are there to ensure).
LockedIfRecorded ==
    Recorded =>
        \A r \in Rounds, b \in Blocks :
            Cardinality(Voters(commits, r, b)) >= Quorum
                => \A v \in prepares : v.round > r => v.block = b

\* A block the block service rejects is never finalized, although the proposer does
\* not verify its block and a certified block is not verified again.
FinalizedValid ==
    \A i \in Nodes : finalized[i] # NoBlock => finalized[i] \in ValidBlocks

\* Every round change is accepted by every receiver's round_change_verify_fn, when it
\* is sent and ever after.
RoundChangesValid == \A m \in roundChanges : round_change_verify_fn(m)

\* A node's successive round changes never lose a certificate they carried, and never
\* go back to an older one.
CertificatesNeverRegress ==
    \A m, n \in roundChanges :
        m.from = n.from /\ m.round < n.round /\ m.pc # NoPC
            => n.pc # NoPC /\ n.pc.round >= m.pc.round

\* A quorum of nodes timed out of round r - 1.
QuorumLeft(r) == Cardinality(Senders({m \in roundChanges : m.round = r})) >= Quorum

\* A node is in a round above 0 only because it timed out of the previous round, or a
\* quorum of nodes did.
RoundsJustified ==
    \A i \in Nodes : round[i] > 0 =>
        \/ \E m \in roundChanges : m.from = i /\ m.round = round[i]
        \/ QuorumLeft(round[i])

\* A node votes at most once per round, and a round has one proposal.
NoEquivocation ==
    /\ \A p, q \in proposals : p.round = q.round => p = q
    /\ \A v, w \in prepares \cup commits : v.round = w.round => v.block = w.block

\* What the comment in proposal_1_verify_fn says of a proposal: its block is that of
\* the certificates of the highest round in its round change certificate.
HighestCertificateProposed ==
    \A p \in proposals : \A pc \in PCs(p.rcc) :
        (\A other \in PCs(p.rcc) : other.round <= pc.round) => p.block = pc.block

\* Every node that is not cancelled finalizes the height.
EveryNodeFinalizes == <>(\A i \in Nodes \ Cancellable : finalized[i] # NoBlock)
=============================================================================
