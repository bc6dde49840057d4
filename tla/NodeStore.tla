------------------------------ MODULE NodeStore ------------------------------
(***************************************************************************)
(* One node and its ConsensusMessages store during one height: the round   *)
(* task, the two monitors and the main loop of ibft.rs take their steps on *)
(* the store one lock at a time, while the message handler adds whatever   *)
(* the peers send.  IBFT leaves the store out; here the peers are left out *)
(* and may send anything that passes the handler's checks, several         *)
(* different messages for a view included.  Only handle_timeout, which     *)
(* runs when the tasks of the round are aborted, takes its two locks and   *)
(* broadcasts in one action.                                               *)
(*                                                                         *)
(* The task is told of new messages over a broadcast channel of its kind,  *)
(* of which the numbers of unread announcements are kept, for its view and *)
(* for others, and not their order.                                        *)
(*                                                                         *)
(* A proposal or a certificate is named by its block; the members of       *)
(* ValidBlocks stand for the ones that pass verification.  A monitor may   *)
(* look at a future round at any time; QuorumWait has its exact counting.  *)
(***************************************************************************)
EXTENDS Integers, FiniteSets

CONSTANTS
    Nodes,        \* the validators of the height
    Self,         \* this node
    Quorum,       \* ValidatorManager::quorum(height)
    MaxRound,     \* MAX_ROUND
    Proposer,     \* Proposer[r]: the node with is_proposer(node, View(height, r))
    Blocks,       \* the blocks of proposals, votes and certificates
    ValidBlocks,  \* those that pass verification
    Built,        \* what build_block may return, NoBlock for an error
    NoBlock,      \* no block, no prepared certificate
    None,         \* no entry, no value
    ChannelSize,  \* CHANNEL_SIZE of the subscriber channels
    MaxRuns,      \* bound: how often the height is run
    MaxReceived   \* bound: the messages that peers send

Rounds == 0 .. MaxRound
Peers == Nodes \ {Self}

\* An entry of the proposal maps with its cached verification result, which the map of
\* round 0 does not have.
Verdicts == {"unverified", "ok", "err"}
Proposals == [block : Blocks, verdict : Verdicts]
Votes == [from : Nodes, block : Blocks]
RoundChanges == [from : Nodes, pc : Blocks \cup {NoBlock}, verified : BOOLEAN]

ASSUME StoreAssumption ==
    /\ IsFiniteSet(Nodes) /\ Self \in Nodes
    /\ Quorum \in Nat \ {0, 1}
    /\ MaxRound \in Nat
    /\ Proposer \in [Rounds -> Nodes]
    /\ ValidBlocks \subseteq Blocks
    /\ NoBlock \notin Blocks
    /\ Built \subseteq Blocks \cup {NoBlock}
    /\ None \notin Proposals
    /\ ChannelSize \in Nat \ {0}
    /\ MaxRuns \in Nat /\ MaxReceived \in Nat

VARIABLES
    runs,          \* how often run() was called for the height
    status,        \* where run() is
    round,         \* its round
    latest,        \* latest_self_round_change: its round and certificate, or None
    proposal,      \* the store: proposal[r] is the entry of round r, or None
    prepares,      \*   the prepares, commits and round changes by round
    commits,
    roundChanges,
    phase,         \* the round task: the function it is in
    point,         \*   where it is in that function's waiting loop
    digest,        \*   the block of proposed_block_digest
    count,         \*   the counter of the loop
    pending,       \*   the announcements for its view it has not received yet
    other,         \*   and those for other views on the same channel
    futureRound,   \* the round that a monitor sent to the main loop, or None
    finalized,     \* the block and the block of the commit seals that run() returned
    sent,          \* the proposals and votes this node broadcast
    received       \* how many messages peers have sent

storeVars == <<proposal, prepares, commits, roundChanges>>
taskVars == <<phase, point, digest, count, pending, other>>
loopVars == <<runs, status, round, latest, futureRound, finalized>>
vars == <<storeVars, taskVars, loopVars, sent, received>>

Statuses == {"running", "cancelled", "finalized", "dead", "panicked"}
Phases == {"build", "proposal", "round_change", "prepare", "committing", "commit",
           "finished", "failed"}
Points == {"subscribe", "count", "wait", "recount", "panicked"}

TypeOK ==
    /\ runs \in Nat
    /\ status \in Statuses
    /\ round \in 0 .. MaxRound + 1
    /\ latest \in [round : 1 .. MaxRound + 1, pc : Blocks \cup {NoBlock}] \cup {None}
    /\ proposal \in [Rounds -> Proposals \cup {None}]
    /\ prepares \in [Rounds -> SUBSET Votes]
    /\ commits \in [Rounds -> SUBSET Votes]
    /\ roundChanges \in [Rounds -> SUBSET RoundChanges]
    /\ phase \in Phases
    /\ point \in Points
    /\ digest \in Blocks \cup {NoBlock}
    /\ count \in Nat
    /\ pending \in Nat
    /\ other \in Nat
    /\ futureRound \in Rounds \cup {None}
    /\ finalized \in [block : Blocks, sealed : Blocks] \cup {None}
    /\ sent \subseteq [kind : {"proposal", "prepare", "commit"}, round : Rounds, block : Blocks]
    /\ received \in Nat

\* The function with which the round task of round r begins.
FirstPhase(r) ==
    IF Proposer[r] # Self THEN "proposal" ELSE IF r = 0 THEN "build" ELSE "round_change"

Init ==
    /\ runs = 1 /\ status = "running" /\ round = 0 /\ latest = None
    /\ proposal = [r \in Rounds |-> None]
    /\ prepares = [r \in Rounds |-> {}]
    /\ commits = [r \in Rounds |-> {}]
    /\ roundChanges = [r \in Rounds |-> {}]
    /\ phase = FirstPhase(0) /\ point = "subscribe" /\ digest = NoBlock
    /\ count = 0 /\ pending = 0 /\ other = 0
    /\ futureRound = None /\ finalized = None
    /\ sent = {} /\ received = 0

-----------------------------------------------------------------------------
(* The message handler *)

\* The height is not over, and the bound on messages is not reached.
Listening ==
    /\ status \in {"running", "cancelled"}
    /\ received < MaxReceived
    /\ received' = received + 1

\* The task holds a receiver of the channel for messages of this kind.
Subscribed(kind) == phase = kind /\ point \in {"count", "wait", "recount"}

\* An announcement to the subscribers of a kind, for the view of the task or another.
Announce(kind, ours) ==
    /\ pending' = IF Subscribed(kind) /\ ours THEN pending + 1 ELSE pending
    /\ other' = IF Subscribed(kind) /\ ~ours THEN other + 1 ELSE other
    /\ UNCHANGED <<phase, point, digest, count>>

\* Mutant: a later proposal replaces the first one.
ReceiveProposal_Replaced(r, b) ==
    /\ Listening
    /\ Proposer[r] \in Peers
    /\ proposal' = [proposal EXCEPT ![r] = [block |-> b, verdict |-> "unverified"]]
    /\ Announce("proposal", r = round)
    /\ UNCHANGED <<prepares, commits, roundChanges, loopVars, sent>>

\* Mutant: a later proposal replaces the first one under its cached result.
ReceiveProposal_StaleVerdict(r, b) ==
    /\ Listening
    /\ Proposer[r] \in Peers
    /\ proposal' = [proposal EXCEPT ![r] =
                      [block |-> b,
                       verdict |-> IF proposal[r] = None THEN "unverified"
                                   ELSE proposal[r].verdict]]
    /\ Announce("proposal", r = round)
    /\ UNCHANGED <<prepares, commits, roundChanges, loopVars, sent>>

\* Mutant: a proposal of a round above 0 is not announced.
ReceiveProposal_Silent(r, b) ==
    /\ Listening
    /\ Proposer[r] \in Peers
    /\ proposal[r] = None
    /\ proposal' = [proposal EXCEPT ![r] = [block |-> b, verdict |-> "unverified"]]
    /\ IF r = 0 THEN Announce("proposal", r = round) ELSE UNCHANGED taskVars
    /\ UNCHANGED <<prepares, commits, roundChanges, loopVars, sent>>

\* add_proposal_message.  Another proposal for an occupied entry is discarded, here
\* and for the votes below.
ReceiveProposal(r, b) ==
    /\ Listening
    /\ Proposer[r] \in Peers
    /\ proposal[r] = None
    /\ proposal' = [proposal EXCEPT ![r] = [block |-> b, verdict |-> "unverified"]]
    /\ Announce("proposal", r = round)
    /\ UNCHANGED <<prepares, commits, roundChanges, loopVars, sent>>

Senders(msgs) == {m.from : m \in msgs}

\* add_prepare_message; the handler lets no prepare of the proposer through.
ReceivePrepare(r, i, b) ==
    /\ Listening
    /\ i # Proposer[r]
    /\ i \notin Senders(prepares[r])
    /\ prepares' = [prepares EXCEPT ![r] = @ \cup {[from |-> i, block |-> b]}]
    /\ Announce("prepare", r = round)
    /\ UNCHANGED <<proposal, commits, roundChanges, loopVars, sent>>

\* add_commit_message.
ReceiveCommit(r, i, b) ==
    /\ Listening
    /\ i \notin Senders(commits[r])
    /\ commits' = [commits EXCEPT ![r] = @ \cup {[from |-> i, block |-> b]}]
    /\ Announce("commit", r = round)
    /\ UNCHANGED <<proposal, prepares, roundChanges, loopVars, sent>>

\* add_round_change_message.
ReceiveRoundChange(r, i, pc) ==
    /\ Listening
    /\ r # 0
    /\ i \notin Senders(roundChanges[r])
    /\ roundChanges' = [roundChanges EXCEPT ![r] =
                          @ \cup {[from |-> i, pc |-> pc, verified |-> FALSE]}]
    /\ Announce("round_change", r = round)
    /\ UNCHANGED <<proposal, prepares, commits, loopVars, sent>>

\* A message for a later height, of the kind the task waits for: its entry is none of
\* this height's, but it is announced on the same channel.
ReceiveLater ==
    /\ Listening
    /\ phase \in {"proposal", "round_change", "prepare", "commit"}
    /\ Announce(phase, FALSE)
    /\ UNCHANGED <<storeVars, loopVars, sent>>

-----------------------------------------------------------------------------
(* The round task *)

\* The task takes steps while the main loop is in its round.
Polled == status = "running"

Enter(f) == phase' = f /\ point' = "subscribe" /\ count' = 0 /\ pending' = 0 /\ other' = 0

Await(n) == point' = "wait" /\ count' = n /\ UNCHANGED <<phase, digest, pending, other>>

\* The task returns an error.
Fail == phase' = "failed" /\ UNCHANGED <<point, digest, count, pending, other>>

\* An expect of the task fails.  Its SharedRunState stays what it was.
TaskPanic == point' = "panicked" /\ UNCHANGED <<phase, digest, count, pending, other>>

\* The head of every waiting loop: subscribe first, then look at the store.
Subscribe ==
    /\ Polled
    /\ phase \in {"proposal", "round_change", "prepare", "commit"}
    /\ point = "subscribe"
    /\ point' = "count"
    /\ pending' = 0 /\ other' = 0
    /\ UNCHANGED <<phase, digest, count, storeVars, loopVars, sent, received>>

\* The proposer broadcasts block b and adds its proposal to the store, as valid, if the
\* entry is vacant; run_prepare follows.
Propose(b) ==
    /\ sent' = sent \cup {[kind |-> "proposal", round |-> round, block |-> b]}
    /\ proposal' = [proposal EXCEPT ![round] =
                      IF @ = None THEN [block |-> b, verdict |-> "ok"] ELSE @]
    /\ digest' = b
    /\ Enter("prepare")

\* Mutant: an error of build_block is not noticed.
BuildProposal_Unchecked ==
    /\ Polled
    /\ phase = "build"
    /\ \E b \in Built : Propose(b)
    /\ UNCHANGED <<prepares, commits, roundChanges, loopVars, received>>

\* run_proposal_0, the proposer's branch.
BuildProposal ==
    /\ Polled
    /\ phase = "build"
    /\ \E b \in Built :
          IF b = NoBlock
          THEN Fail /\ UNCHANGED <<sent, proposal>>
          ELSE Propose(b)
    /\ UNCHANGED <<prepares, commits, roundChanges, loopVars, received>>

\* get_valid_proposal_digest: the cached result, or a verification, which is cached
\* above round 0.
Verdict(r) ==
    IF r > 0 /\ proposal[r].verdict # "unverified"
    THEN proposal[r].verdict
    ELSE IF proposal[r].block \in ValidBlocks THEN "ok" ELSE "err"

CacheVerdict(r) ==
    proposal' = IF r = 0 THEN proposal ELSE [proposal EXCEPT ![r].verdict = Verdict(r)]

\* The node's vote in the current round goes to the peers and, if the entry is vacant,
\* into the store.
AddOwn(votes, b) ==
    IF Self \in Senders(votes[round]) THEN votes
    ELSE [votes EXCEPT ![round] = @ \cup {[from |-> Self, block |-> b]}]

\* run_proposal_0 and run_proposal_1 of the other nodes: the first query of the proposal
\* and the one after its announcement, which expects to find it.
GetProposal ==
    /\ Polled
    /\ phase = "proposal"
    /\ point \in {"count", "recount"}
    /\ IF proposal[round] = None
       THEN /\ IF point = "count" THEN Await(0) ELSE TaskPanic
            /\ UNCHANGED <<proposal, prepares, sent>>
       ELSE /\ CacheVerdict(round)
            /\ IF Verdict(round) = "ok"
               THEN /\ digest' = proposal[round].block
                    /\ sent' = sent \cup {[kind |-> "prepare", round |-> round,
                                           block |-> proposal[round].block]}
                    /\ prepares' = AddOwn(prepares, proposal[round].block)
                    /\ Enter("prepare")
               ELSE Fail /\ UNCHANGED <<prepares, sent>>
    /\ UNCHANGED <<commits, roundChanges, loopVars, received>>

\* The votes for which a loop waits.
Need == IF phase = "prepare" THEN Quorum - 1 ELSE Quorum

\* The channel overwrote an announcement that the task had not received.
Lagged == pending + other > ChannelSize

\* recv() for the task's view: the proposal is queried again, the votes once the
\* counter reaches what is needed.
Receive ==
    /\ Polled
    /\ point = "wait"
    /\ pending > 0 /\ ~Lagged
    /\ pending' = pending - 1
    /\ count' = count + 1
    /\ point' = IF phase = "proposal" \/ count + 1 = Need THEN "recount" ELSE "wait"
    /\ UNCHANGED <<phase, digest, other, storeVars, loopVars, sent, received>>

\* recv() for another view: the loop goes on.
ReceiveOther ==
    /\ Polled
    /\ point = "wait"
    /\ other > 0 /\ ~Lagged
    /\ other' = other - 1
    /\ UNCHANGED <<phase, point, digest, count, pending, storeVars, loopVars, sent, received>>

\* recv() returns Lagged, which is no value for its expect.
ReceiveLagged ==
    /\ Polled
    /\ point = "wait"
    /\ Lagged
    /\ TaskPanic
    /\ UNCHANGED <<storeVars, loopVars, sent, received>>

Counting(f) == Polled /\ phase = f /\ point \in {"count", "recount"}

\* Mutant: the votes for other blocks are kept and counted.
ForDigest_Any(votes) == {v \in votes : v.block \in Blocks}

\* The retain of get_valid_prepare_count and take_valid_commit_seals.
ForDigest(votes) == {v \in votes : v.block = digest}

\* run_prepare: quorum - 1 prepares are answered by a commit.
CountPrepares ==
    /\ Counting("prepare")
    /\ LET valid == ForDigest(prepares[round])
       IN  /\ prepares' = [prepares EXCEPT ![round] = valid]
           /\ IF Cardinality(valid) >= Quorum - 1
              THEN /\ sent' = sent \cup {[kind |-> "commit", round |-> round,
                                          block |-> digest]}
                   /\ commits' = AddOwn(commits, digest)
                   /\ Enter("committing")
                   /\ digest' = digest
              ELSE Await(Cardinality(valid)) /\ UNCHANGED <<sent, commits>>
    /\ UNCHANGED <<proposal, roundChanges, loopVars, received>>

\* state.update(RunState::Commit), after run_prepare has returned.
EnterCommit ==
    /\ Polled
    /\ phase = "committing"
    /\ Enter("commit")
    /\ UNCHANGED <<digest, storeVars, loopVars, sent, received>>

\* run_commit: a quorum of commits is taken and its seals go to the main loop.
CountCommits ==
    /\ Counting("commit")
    /\ LET valid == ForDigest(commits[round])
       IN  IF Cardinality(valid) >= Quorum
           THEN /\ commits' = [commits EXCEPT ![round] = {}]
                /\ Enter("finished")
                /\ digest' = digest
           ELSE /\ commits' = [commits EXCEPT ![round] = valid]
                /\ Await(Cardinality(valid))
    /\ UNCHANGED <<proposal, prepares, roundChanges, loopVars, sent, received>>

\* The retain of get_valid_round_change_count and take_valid_round_change_messages: a
\* message that was verified before is not verified again.
Verified(r) ==
    {[m EXCEPT !.verified = TRUE] :
        m \in {n \in roundChanges[r] : n.verified \/ n.pc \in ValidBlocks \cup {NoBlock}}}

\* wait_rcc: a quorum of round changes is taken, and the block of any certificate in it
\* is proposed, or a new one.
CountRoundChanges ==
    /\ Counting("round_change")
    /\ LET valid == Verified(round)
           certified == {m.pc : m \in valid} \ {NoBlock}
       IN  IF Cardinality(valid) >= Quorum
           THEN /\ roundChanges' = [roundChanges EXCEPT ![round] = {}]
                /\ \E b \in IF certified # {} THEN certified ELSE Built :
                      IF b = NoBlock
                      THEN Fail /\ UNCHANGED <<sent, proposal>>
                      ELSE Propose(b)
           ELSE /\ roundChanges' = [roundChanges EXCEPT ![round] = valid]
                /\ Await(Cardinality(valid))
                /\ UNCHANGED <<sent, proposal>>
    /\ UNCHANGED <<prepares, commits, loopVars, received>>

TaskStep ==
    \/ Subscribe
    \/ BuildProposal
    \/ GetProposal
    \/ Receive
    \/ ReceiveOther
    \/ ReceiveLagged
    \/ CountPrepares
    \/ EnterCommit
    \/ CountCommits
    \/ CountRoundChanges

-----------------------------------------------------------------------------
(* The monitors and the main loop *)

\* wait_future_proposal verifies the proposal of a later round.
MonitorProposal(r) ==
    /\ Polled
    /\ futureRound = None
    /\ r > round
    /\ proposal[r] # None
    /\ CacheVerdict(r)
    /\ futureRound' = IF Verdict(r) = "ok" THEN r ELSE None
    /\ UNCHANGED <<prepares, commits, roundChanges, taskVars, runs, status, round, latest,
                   finalized, sent, received>>

\* wait_future_rcc verifies the round changes of a later round.
MonitorRoundChanges(r) ==
    /\ Polled
    /\ futureRound = None
    /\ r > round
    /\ roundChanges[r] # {}
    /\ roundChanges' = [roundChanges EXCEPT ![r] = Verified(r)]
    /\ futureRound' = IF Cardinality(Verified(r)) >= Quorum THEN r ELSE None
    /\ UNCHANGED <<proposal, prepares, commits, taskVars, runs, status, round, latest,
                   finalized, sent, received>>

\* Another iteration of the loop, in round r, whose task start_ibft_round spawns after
\* it has added the node's own round change for that round.
StartRound(r, own) ==
    /\ round' = r
    /\ futureRound' = None
    /\ digest' = NoBlock
    /\ IF r > MaxRound
       THEN /\ status' = "dead"
            /\ Enter("failed")
            /\ UNCHANGED roundChanges
       ELSE /\ status' = "running"
            /\ Enter(FirstPhase(r))
            /\ roundChanges' =
                  IF /\ own # None
                     /\ own.round = r
                     /\ Proposer[r] = Self
                     /\ Self \notin Senders(roundChanges[r])
                  THEN [roundChanges EXCEPT ![r] =
                          @ \cup {[from |-> Self, pc |-> own.pc, verified |-> TRUE]}]
                  ELSE roundChanges

\* The branches future_proposal_rx and future_rcc_rx.
Jump ==
    /\ status = "running"
    /\ futureRound # None
    /\ StartRound(futureRound, latest)
    /\ UNCHANGED <<proposal, prepares, commits, runs, latest, finalized, sent, received>>

Panic == status' = "panicked" /\ UNCHANGED <<round, latest, futureRound, taskVars, storeVars>>

\* Mutant: the round is not incremented.
ChangeRound_Same(pc) ==
    LET own == [round |-> round + 1, pc |-> pc]
    IN  latest' = own /\ StartRound(round, own)

\* The node's next round change, with certificate pc, starts the next round.
ChangeRound(pc) ==
    LET own == [round |-> round + 1, pc |-> pc]
    IN  latest' = own /\ StartRound(round + 1, own)

\* Mutant: the certificate is composed from the Prepare state on.
Timeout_Early ==
    /\ status = "running"
    /\ IF phase \in {"prepare", "committing", "commit", "finished"}
       THEN LET valid == IF proposal[round] = None THEN {}
                         ELSE {v \in prepares[round] : v.block = proposal[round].block}
            IN  IF Cardinality(valid) >= Quorum - 1
                THEN /\ proposal' = [proposal EXCEPT ![round] = None]
                     /\ prepares' = [prepares EXCEPT ![round] = {}]
                     /\ UNCHANGED commits
                     /\ ChangeRound(proposal[round].block)
                ELSE Panic
       ELSE /\ UNCHANGED <<proposal, prepares, commits>>
            /\ ChangeRound(IF latest = None THEN NoBlock ELSE latest.pc)
    /\ UNCHANGED <<runs, finalized, sent, received>>

\* The timeout branch: handle_timeout.  In the Commit state it takes the proposal and
\* the prepares for it, and asserts that they are enough.  It may be selected when
\* round_finished or a monitor becomes ready after select! has polled it.
Timeout ==
    /\ status = "running"
    /\ IF phase \in {"commit", "finished"}
       THEN IF proposal[round] = None
            THEN Panic
            ELSE LET valid == {v \in prepares[round] : v.block = proposal[round].block}
                 IN  IF Cardinality(valid) >= Quorum - 1
                     THEN /\ proposal' = [proposal EXCEPT ![round] = None]
                          /\ prepares' = [prepares EXCEPT ![round] = {}]
                          /\ UNCHANGED commits
                          /\ ChangeRound(proposal[round].block)
                     ELSE Panic
       ELSE /\ UNCHANGED <<proposal, prepares, commits>>
            /\ ChangeRound(IF latest = None THEN NoBlock ELSE latest.pc)
    /\ UNCHANGED <<runs, finalized, sent, received>>

\* The round_finished branch: handle_round_finish takes the round's proposal.
FinishHeight ==
    /\ status = "running"
    /\ phase = "finished"
    /\ IF proposal[round] = None
       THEN Panic /\ UNCHANGED finalized
       ELSE /\ finalized' = [block |-> proposal[round].block, sealed |-> digest]
            /\ proposal' = [proposal EXCEPT ![round] = None]
            /\ status' = "finalized"
            /\ UNCHANGED <<round, latest, futureRound, taskVars, prepares, commits,
                           roundChanges>>
    /\ UNCHANGED <<runs, sent, received>>

\* The cancel branch: run() returns None and the store stays as it is.
Cancel ==
    /\ status = "running"
    /\ runs < MaxRuns
    /\ status' = "cancelled"
    /\ UNCHANGED <<runs, round, latest, futureRound, finalized, taskVars, storeVars, sent,
                   received>>

\* run_height is called again for the height that was cancelled.
RunAgain ==
    /\ status = "cancelled"
    /\ runs' = runs + 1
    /\ latest' = None
    /\ StartRound(0, None)
    /\ UNCHANGED <<proposal, prepares, commits, finalized, sent, received>>

-----------------------------------------------------------------------------
HandlerStep ==
    \/ \E r \in Rounds :
          \/ \E b \in Blocks : ReceiveProposal(r, b)
          \/ \E i \in Peers, b \in Blocks : ReceivePrepare(r, i, b) \/ ReceiveCommit(r, i, b)
          \/ \E i \in Peers, pc \in Blocks \cup {NoBlock} : ReceiveRoundChange(r, i, pc)
    \/ ReceiveLater

LoopStep ==
    \/ \E r \in Rounds : MonitorProposal(r) \/ MonitorRoundChanges(r)
    \/ Jump
    \/ Timeout
    \/ FinishHeight
    \/ Cancel
    \/ RunAgain

\* run() has returned a block or panicked.
Terminating == status \in {"finalized", "dead", "panicked"} /\ UNCHANGED vars

Next == HandlerStep \/ TaskStep \/ LoopStep \/ Terminating

Spec == Init /\ [][Next]_vars

-----------------------------------------------------------------------------
(* Properties *)

\* The node broadcast two different proposals for the round, in two runs of the height.
\* The store keeps the first one, and the task has the digest of the other.
Reproposed ==
    \E m, n \in sent :
        /\ m.kind = "proposal" /\ n.kind = "proposal"
        /\ m.round = round /\ n.round = round
        /\ m.block # n.block

\* The only expect of the round task that fails is that of a recv() on a channel that has
\* lagged; the second query of a proposal finds it.
LagOnly == point = "panicked" => Lagged

\* Whatever the peers send and whenever the timer expires, the round task finds what it
\* expects, unless its channel lags; and handle_timeout and handle_round_finish find the
\* proposal and its prepares, in the middle of whatever the task does and after its
\* panic, unless the node itself had proposed another block in an earlier run.
NeverPanics == LagOnly /\ (status = "panicked" => Reproposed)

\* The block that run() returns is the one that the commit seals in its proof are for,
\* although the task knows only its digest and the block is fetched again at the end;
\* with the same exception.
SealsMatchBlock ==
    finalized # None => finalized.block = finalized.sealed \/ Reproposed

\* In one run of the height the node broadcasts at most one proposal, one prepare and one
\* commit per round, although the handler, the monitors and the timeout change the store
\* between its queries.
VotesOnce ==
    runs = 1 =>
        \A m, n \in sent : m.kind = n.kind /\ m.round = n.round => m = n

\* In one run of the height the certificate in the node's latest round change is for a
\* block to which the node has committed in an earlier round: handle_timeout composes it
\* from the store, where peers put what they like, long after the commit was sent, and
\* later timeouts carry it on.
CertificatesEarned ==
    runs = 1 /\ latest # None /\ latest.pc # NoBlock =>
        \E m \in sent : m.kind = "commit" /\ m.block = latest.pc /\ m.round < latest.round

\* A cached result is the result of verifying the message it is stored with, or the
\* message is the node's own; so every prepare the node sends is for a valid proposal.
VerdictsTrue ==
    /\ \A r \in Rounds : proposal[r] # None /\ Proposer[r] # Self =>
          /\ proposal[r].verdict = "ok" => proposal[r].block \in ValidBlocks
          /\ proposal[r].verdict = "err" => proposal[r].block \notin ValidBlocks
    /\ \A r \in Rounds : \A m \in roundChanges[r] :
          m.verified /\ m.from # Self => m.pc \in ValidBlocks \cup {NoBlock}
    /\ \A m \in sent : m.kind = "prepare" => m.block \in ValidBlocks

\* A node that waits for the proposal of its round while the proposal is in the store
\* was sent an announcement that wakes it, as itself or as the error of a channel that has
\* lagged: none is lost between subscription, query and wait.
ProposalNoticed ==
    status = "running" /\ phase = "proposal" /\ point = "wait" /\ proposal[round] # None
        => pending > 0
=============================================================================
