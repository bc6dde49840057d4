# A TLA+ model of tonic's consensus

tonic is a blockchain node in Rust.  Its core is a proof-of-authority consensus,
an implementation of IBFT 2.0 in `crates/consensus/poa`; the other crates of the
workspace are a database layer, a libp2p wrapper, primitives and stubs.  This
directory models the consensus (the protocol of one height, the verification of its
messages, one node with its message store, the way its tasks wait for messages, and
the message handler and engine around it over many heights), the database layer and
the p2p service.

* TLC checks each module on small instances (`MC*.tla` with the `.cfg` files).
* TLAPS proves the main safety properties for every set of validators, quorum,
  number of rounds and choice of the other constants (`*Proofs.tla`).
* Four runs show places where the code does not do what its own comments or tests
  say.

To check: `tlc -config MCIBFT_rounds.cfg MCIBFT`, `tlapm IBFTProofs.tla`.

## 1. Inventory

Paths are relative to `src/crates/`.

| Component | State | Operations | Interacts through |
|---|---|---|---|
| IBFT (`consensus/poa/src/ibft.rs`) | per `run`: `round`, `latest_self_round_change`; per round: a timer, two monitor tasks, a round task with its `SharedRunState` and digest | the five branches of `run`'s `select!`; the states Proposal, Prepare, Commit of the round task | broadcasts messages, reads and consumes the store, oneshot channels between tasks, `abort()` |
| Message types (`types.rs`) | - | proposals, prepares, commits, round changes, prepared and round change certificates | signed and verified by primitives |
| Store (`messages.rs`, `ConsensusMessages`) | five maps, each behind its own async mutex; four broadcast channels of 128 views; cached verification results | `add_*`, `get_valid_*`, `take_*`, `*_by_round`, `subscribe_*`, `prune` | shared by the handler task and all tasks of IBFT |
| Handler (`messages.rs`, `MessageHandler`) | the finalized height, an atomic | `handle_consensus_message`, `update_height`, `prune` | fed by the network, fills the store |
| Engine (`engine.rs`) | - | `run_height` | runs IBFT, then moves the handler's height and prunes |
| Backends (`backend.rs`) | - | `quorum`, `is_validator`, `is_proposer`, `build_block`, `verify_block`, `broadcast_*` | traits; the only implementation is the simulation's mock |
| Simulation tests (`sim_tests/`) | - | run 4 or 8 engines for 500 heights, with a lossy network in one of them | assert agreement and that every engine finalizes |
| Database (`database/`) | a shared RocksDB; in-memory changes per transaction; a snapshot and read options per handle | get, multi_get, exists, iterator, put, delete, write_batch; transaction, commit, into_changes; snapshot, drop | RocksDB; not used by another crate yet |
| P2P (`p2p/`) | a service loop over gossipsub, a request channel and one channel per topic, all bounded | broadcast, publish, receive, relay | implements the engine's `Broadcast`; its consensus channel feeds the handler |
| Primitives, codec | - | keys, signatures, addresses, encodings | pure |
| Transaction pool | pool of transactions | mostly `todo!()` | commented out of the workspace, does not build |
| Rpc, tracing, binary | - | - | stubs |

What is hard in this code:

* *Interleaving.*  For each round a node runs a main loop, a round task and two
  monitors.  `JoinHandle::abort` takes effect only when the task next awaits
  something pending, so a task of an abandoned round may still vote.
* *State read across an await.*  The run state that `handle_timeout` reads is set by
  the round task after it has broadcast its commit; the handler reads the finalized
  height and then waits for a lock; a waiting loop subscribes, counts, and then
  counts announcements.
* *Loss, delay, reordering.*  Nothing is sent again within a round.
* *Timeouts and jumps.*  A node leaves a round by its timer, a proposal of a later
  round or a quorum of round changes for one, and a block that some node may have
  finalized has to survive every such path.
* *Foreign input.*  Certificates are vectors that a sender filled; peers may send
  several different messages for one view.
* *Shared resources.*  Transactions commit under each other's reads; a snapshot's
  lifetime is transmuted to `'static` and has to end before the database closes; the
  p2p service both drains the channel that broadcasters fill and fills the channels
  that others should drain.
* *Limits.*  Rounds are `u8` up to 21 and then `run` panics; a receiver that lags by
  more than 128 announcements panics too.

`PROJECT.json` lists these as hazards, each at its line, with the properties that
would catch it.

What makes each component correct:

* IBFT: nodes that finalize agree; a block with a commit quorum is locked; only valid
  blocks are finalized; round changes stay verifiable and forget a certificate only
  where a quorum has left a later round; without bad luck everyone finalizes.
* Waiting loops: no wake-up is lost, the loop, whose condition looks at an estimate,
  ends with a verified quorum, and it does end when there is one.
* Handler and engine: messages of finished heights do not pile up, messages of later
  heights are not lost.
* Verification: what is accepted is supported by a quorum, what honest nodes make is
  accepted.
* One node and its store: no `expect` or `assert` fails but for a channel that lagged
  and a height that is run again, the seals are for the block that is returned, cached
  verification results stay true.
* Database: a transaction sees its own writes, commits are whole, snapshots are fixed
  and released in time.
* P2P: data is relayed once, to the right channel and not back to its sender; nobody
  blocks for ever, also when the service has panicked.

## 2. The modules

### `IBFT`: one height, all validators

The state of node `i` is its main loop (`round`, `status`,
`latest_self_round_change`, `finalized`) and, for each round, the control point
`task[i][r]` of the round task and the block of its digest.  The main loop keeps one
task per round so that a task that outlives its round can still be described.

| Definition | Code |
|---|---|
| `Propose0`, `Propose1` | the proposer's branch of `run_proposal_0`, of `run_proposal_1` with `wait_rcc` |
| `AcceptProposal`, `RejectProposal` | the other nodes' branch, with `proposal_0_verify_fn` (the closure in `run_proposal_0`) or `proposal_1_verify_fn` |
| `BroadcastCommit`, `EnterCommit` | `run_prepare`, and the `state.update(Commit)` after it |
| `FinishRound` | `run_commit` and the send of the seals |
| `FinishHeight`, `FutureProposal`, `FutureRcc`, `Timeout`, `Cancel` | the branches of the `select!` in `run`, each with its handler, any of which may be taken while the node is `Selecting` |
| `StartRound` | `abort()` and the next iteration, with the panic past `MAX_ROUND` |
| `TimeoutCertificate` | the three cases of `handle_timeout` |
| `verify_prepared_certificate`, `round_change_verify_fn`, `proposal_1_verify_fn` | the functions of those names |

How the data is abstracted:

* *Messages.*  The model keeps the messages that were ever broadcast.  A node's
  store holds some part of them, so a step that waits for a quorum is enabled when
  the quorum was sent, and where the messages matter (the round change certificate)
  the step takes any subset that reaches the quorum.  A message that is lost is one
  that no step uses.  This is sound for safety: any real step is a step of the
  model.
* *Digests.*  `digest_block(raw_block, round)` is the pair of both.
* *Signatures* cannot be forged, so the proposal and prepares of a certificate are
  sent messages, and verifying a certificate looks them up.
* *Nodes follow the code.*  They may be slow, cancelled, silent from some point on,
  and their block service may return an error or an invalid block.  They do not
  equivocate or forge.  The quorum is therefore a parameter with `3 * Quorum > 2 *
  |Nodes|`, what the mock's `2 * n / 3 + 1` gives.
* *The `select!`* is biased, but a branch that becomes ready after it was polled loses to
  a later one that is ready by then, so every ready branch may be taken: a node whose
  round has finished may still time out or jump.
* *Timers.*  A timer may expire at any time in the rounds of `ExpiringRounds[i]`.
* *A task at "committing"* has broadcast its commit while its run state still reads
  Prepare.  This is the only place where the task's broadcast and its run state are
  separate steps, because nothing reads the state in the others.
* *Aborted tasks.*  For a node in `Lingering` an aborted task may go on to its end.
  The code allows less (until its next pending await), so this only adds behaviours.

### `QuorumWait`: waiting for messages

The loops of `run_prepare`, `run_commit`, `wait_rcc` and `wait_future_rcc` have one
shape: subscribe, count under the lock, then count announcements and recount when the
estimate reaches the target.  The loop itself ends on the estimate (`while count <
target`, `Test`), and an `expect` on what the last count returned follows.  `loop` is the
variant the task is in; `Add` is the store's `add_*`; `VerifiedCount` is
`get_valid_*_count` and `take_valid_*` with the removal of invalid messages; the
receiver holds at most `ChannelSize` announcements, of this and of other views, and a
lagging one panics.  IBFT treats such a wait as a guard; this module is why it may:
`QuorumGuard` is that guard as a specification of its own (the first message of each
sender is stored, messages that are not valid are discarded, and the wait ends in one
step that finds enough valid ones), and `ImplementsGuard` says that the loops implement
it, with `ended` for a count that returned messages.

### `MessageHandler`: one node over many heights

The handler's check (`Check`) and its store under the lock (`Store`) are two steps;
`prune` (`PruneMap`) goes through the five maps one lock at a time.  IBFT appears by
what it does to the maps: it adds its own messages, takes the messages of a view,
drops invalid ones, finishes or is cancelled.  `StartHeight` is the caller of
`run_height`.

### `Consensus` and `IBFTRefinement`: the promise of a height

`Consensus` has the block that each node's `run` returned, `finalized`, and a condition,
`recorded`.  While the condition holds a node finalizes a valid block, the same as all
others, once (`Finalize`); once it has failed nothing is promised (`Void`).
`IBFTRefinement` instantiates it with IBFT's `finalized` and the state predicate
`Recorded`: every node that committed in a round and timed out of it did so with the
round's certificate.  `Recorded` fails in two ways: the timer expires inside the window of
section 4, or a task that the timeout aborted in mid-poll sends its commit afterwards.

### `ProposalVerifier`: the verification loops

`proposal_1_verify_fn`, `round_change_verify_fn` and `verify_prepared_certificate` as
a program counter over one message: the loop over the round changes with
`seen_validators` and `highest_round_pc` (`VerifyRoundChangeMetadata`, `Visit`), the
branch on the proposed block (`VerifyProposedBlock`), the loop over the prepares of
the one certificate that is checked (`VerifyPrepare`), every early return included.
Unlike in IBFT the message may be anything: `Inputs` holds repeated, forged, foreign
and mismatched parts.  `Justified` says declaratively what accepting should mean according
to the comments in the code, `Supported` what it does mean, and `WellFormed` which messages
must be accepted.

### `NodeStore`: one node and its store

IBFT leaves the store out; this module leaves the peers out, who may send anything
that passes the handler.  One action per lock, except that `Timeout` takes the two of
`handle_timeout`, when the tasks of the round are aborted: `ReceiveProposal`,
`ReceivePrepare`, `ReceiveCommit`, `ReceiveRoundChange` and `ReceiveLater` are the handler
with `add_*`; `BuildProposal`, `GetProposal`, `CountPrepares`, `EnterCommit`,
`CountCommits` and `CountRoundChanges` are the round task; `MonitorProposal` and
`MonitorRoundChanges` the monitors, which verify and cache results of future rounds;
`Jump`, `Timeout`, `FinishHeight`, `Cancel` the main loop; `RunAgain` the engine's
caller, who runs a cancelled height again on the same store.  The task's broadcast
channel holds `ChannelSize` announcements, for its view (`pending`) or another (`other`);
`Receive`, `ReceiveOther` and `ReceiveLagged` are the outcomes of `recv().expect(..)`, the
last one a panic of the task (`TaskPanic`), after which its run state stays what it was and
the timer finds it so.  The entries of the
proposal maps of round 1 and later and of the round change map carry their cached
verification result.

### `Database`

`versions` is the sequence of states of RocksDB.  A transaction is its `changes` with the
schemas that have an entry in them (`entries`; a `write_batch` with an empty map, which the
caller makes in `EmptyChanges`, leaves an entry without operations), and the running
`multi_get`, which is one batched read when the schema has no entry and a loop of reads
otherwise (`MultiGet`, `MultiGetNext`).  `Store` is `raw_write_batch`: it fails before
anything is written if the schema of an entry is not registered, or the write fails.  A
handle has a snapshot and its read options; dropping a handle is two steps, `Drop` (the
code of `drop`, which clears the snapshot and leaves the read options) and `DropInner` (the
drop of the `Arc`, which closes the database when it is the last).  `view` and `wrote` are
history variables: the transaction's calls executed one by one.  Transactions borrow
their handle, so it outlives them (`Unborrowed`).

### `P2P`

`Broadcast` and `Send` are a caller of the proxy, which waits for a place in the
request channel; `HandleRequest` and `HandleMessage` are the two branches of the
service's `select!`, with `Publish` and `Relay` (`relay_message_by_tag`: a full channel
drops the message, a closed one panics).  There are three panics: of the caller when a
message is too large, of the service on a closed channel or on empty data, and of a caller
whose service is gone.  What a node's tasks broadcast is `Made`, which topics' receivers it
keeps is `Kept`.  gossipsub is external: it shows a node no id
twice, and `MessageId` is the code's `message_id_fn`.

### The other modules

`IBFTInvariant` and `NodeStoreInvariant` state the inductive invariants of IBFT and
NodeStore.  `IBFTProofs`, `IBFTRefinementProofs`, `NodeStoreProofs`,
`ProposalVerifierProofs`, `QuorumWaitProofs`, `MessageHandlerProofs`, `DatabaseProofs` and
`P2PProofs` hold the theorems.  The `MC*` modules define the constants of the runs.

## 3. The runs

| Run | Instance | Shows |
|---|---|---|
| `rounds` | 4 validators, quorum 3, rounds 0-1; an invalid block in round 0; three nodes may time out of round 0 and one of them of round 1, the fourth jumps, may time out then, and its aborted tasks linger | `TypeOK`, `Inv` (the invariant of the proofs), `AgreementIfRecorded`, `LockedIfRecorded`, `NoEquivocation`, `RoundChangesValid`, `CertificatesNeverRegress`, `CommitsRemembered`, `RoundsJustified`, `FinalizedValid`, `ImplementsConsensus` |
| `liveness` | 4 validators, no block or an invalid one in round 0, a node that may be cancelled | `EveryNodeFinalizes` |
| `verdict` | 3 validators, quorum 2; proposals of round 2 with up to 3 round changes, 13 certificates of which 10 are defective | `AcceptedIsSupported`, `WellFormedIsAccepted` |
| `node` | this node and one peer, quorum 2, rounds 0-2, a valid choice of two blocks and an invalid one, 3 messages from the peer, 2 runs of the height, a channel of 1 | `Inv` (the invariant of the proofs, the type invariant included), `NeverPanics`, `SealsMatchBlock`, `VotesOnce`, `CertificatesEarned`, `VerdictsTrue`, `ProposalNoticed`; no deadlock |
| `wait` | each of the three loops; 4 senders, target 3, channel of 6 | `NoLostWakeup`, `EndsWithQuorum`, `ImplementsGuard`, `QuorumEndsWait` |
| `handler` | 2 validators and a stranger, 3 heights, 2 rounds, 3 stored messages | `TypeOK`, `StaleAtMostOne`, `FutureKept` |
| `database` | 2 transactions, 2 snapshot handles, 2 keys in a registered and in an unregistered schema, empty entries, 3 writes | `TypeOK`, `ReadsOwnWrites`, `MultiGetOfOneState`, `ReleasedBeforeClose`, `CommitsWhole`, `SnapshotsFixed` |
| `p2p` | a validator with two broadcasting tasks, and another node with dropped receivers, as in the test `p2p_initialize`; a consensus message and two blocks, channels of 1, foreign peers | `TypeOK`, `RelayedOnce`, `NoEcho`, `BroadcastReturns`; no deadlock |
| `window`, `highest`, `stranded` | 4 validators, 2 or 3 rounds | violated, see section 4 |
| `round_zero` | the messages of `verdict` | violated, see section 4 |

*Why the bounds are enough to be interesting.*  Four validators with quorum 3 is the
smallest instance in which a quorum leaves somebody out, so that a node can be late,
jump or be left behind.  Two rounds are enough for a block to be committed in one round
and contested in the next, for a node to reach round 1 without a round change of its own
and lose its certificate on the way, for a second round change that carries an old
certificate, and for the panic past the last round; `highest` has a third round, in which
certificates of two different rounds meet.  The constants
`ExpiringRounds`, `Cancellable` and `Lingering` restrict where these events happen;
between them the runs cover each of them.  `BuiltPerRound` gives each round's
proposer its own block, so that disagreement would be visible.  In `QuorumWait` a
channel of 6 for 4 senders is reached only by senders whose invalid messages were
dropped, so both lagging and not lagging happen.  `MaxStored` in `MessageHandler`
stops additions, never removals, at three messages: one stale, one of the running
height and one of a later height.  In `verdict` the certificates differ from a good
one in one respect each, and three round changes with quorum 2 leave room for one bad
entry beside a quorum, in every position.  In `node` the node proposes in rounds 0
and 2 and its peer in round 1, so it is proposer with and without round changes and
verifier; three messages of the peer make a quorum in one round and something
unexpected in another, and its channel of one announcement lags at the second.
In `database` three writes are two commits under a third
party's `multi_get` or snapshot.  In `p2p` channels of one place are full at once,
two tasks of the validator compete for the place in the request channel, and the block that
reaches the other node ends its service.

*Deadlock* is checked in `verdict`, `node` and `p2p`, where what has ended
stutters or something can always happen.  In the other runs timers, messages or writes
are bounded, so the system may wait for ever.

*Fairness.*  `IBFT!FairSpec` assumes weak fairness of the current round's task, of
the finishing of a height, of the jumps and of the timer: the runtime polls ready
tasks, timers fire, and a message that was broadcast reaches the nodes that wait for
it.  The last one is an assumption on the network which the simulation's lossy mock
does not meet, so it makes the counterexample of `stranded` the stronger.  There is
no fairness for aborted tasks or for `Cancel`.  `QuorumWait!FairSpec` assumes weak
fairness of the waiting task and none of the senders.  `P2P!FairSpec` assumes weak
fairness of the service's request branch, since `select!` polls its branches in random
order and no branch waits for anything else, and strong fairness of a waiting `send`:
tokio's channel serves waiting senders in the order they came.  It assumes nothing of
the network or of the readers of the channels.

## 4. Where the code and its documentation disagree

* **`window`.**  `run_prepare` broadcasts the commit, then returns, and only then
  does the run state become Commit (`ibft.rs:204-206`).  If the timer expires in
  between, `handle_timeout` sends a round change without the prepared certificate.
  When the commit completes a quorum at another node, that node finalizes, the next
  proposer sees no certificate, proposes a new block, and the others finalize that:
  the assertion of `sim_tests/mod.rs:47` fails.  The window contains the awaits of the
  broadcast and of the store's lock.
* **`highest`.**  `wait_rcc` re-proposes the block of the first round change that has
  a certificate, while `proposal_1_verify_fn` demands the one of the highest round;
  the round is lost when they differ.  A committed block is still safe.
* **`stranded`.**  A node whose timer expires just before the commit quorum reaches
  it waits in the next round, alone: the nodes that finalized answer no round change,
  and no one hands the broadcast `FinalizedBlock` to a running height.  In the
  instance it stays in round 1, whose timer does not expire; in the code it goes on
  to round 21 and panics.

* **`round_zero`.**  `highest_round` starts at 0 and is compared with `>`
  (`ibft.rs:788`), so the branch whose comment says that there are no prepared certificates
  (`ibft.rs:835`) is also taken when all of them are of round 0: the certificate is neither
  compared with the proposed block (what `ibft.rs:823-824` asks for) nor verified.
  `AcceptedIsSupported` is what remains: certificates above round 0 bind the proposer.
  Among nodes that follow the code the proposer honours the certificate by itself.

Two more observations, which no run reports as a violation:

* *The jump.*  A node that has prepared a block and then follows a future proposal or
  future round change certificate (`ibft.rs:114`) does not compose the certificate, so
  its next round change lacks it although the comment on `latest_self_round_change`
  says that it tracks the latest.  The proof below shows that this does not break
  agreement: such a jump needs a quorum of round changes, which remembers the block
  (`CommitsRemembered`).
* *A height that is run again.*  `run` leaves the store as it is when it is cancelled.
  In a second run the proposer builds and broadcasts a new proposal, which the store
  discards for the old one; it collects prepares for the new block, and `handle_timeout`
  then fails its assertion on the number of prepares (`ibft.rs:719`), or
  `handle_round_finish` returns the old block with seals for the new one.  This is the
  exception `Reproposed` of `NeverPanics` and `SealsMatchBlock`: the node has broadcast two
  different proposals for the round.  Without it the run `node` finds both.

## 5. What is proved

All theorems are for arbitrary constants under the assumptions named in the modules:
for IBFT, finitely many nodes, a quorum of at least two and at most all of them with
`3 * Quorum > 2 * |Nodes|`, any proposer function, blocks, block service, set of
expiring rounds, cancellable and lingering nodes.

**`IBFTProofs`.**

* `Invariance`: `Spec => []Inv`.  None of the safety properties is inductive.  `Inv`
  adds what ties the pieces together: tasks of rounds not reached are idle; a round
  has one proposal, made when its proposer leaves "proposal", and its certificate
  consists of sent messages; each control point, vote and finalized block has the
  quorum behind it; a node sends one round change per round, the last of which is
  `latest_self_round_change`; a round above 0 was entered by an own round change or
  after a quorum left the one before.
* `TypeCorrect`, `NoEquivocationTheorem`, `RoundChangeTheorem`, `CertificateTheorem`,
  `RoundTheorem`, `ValidityTheorem` follow from it.
* `LockTheorem` and `AgreementTheorem`, under the condition `Recorded` that no node
  that commits in a round times out of it without the round's certificate, be it inside the
  window of section 4 or because an aborted task commits late.  The argument: suppose a commit
  quorum for block `b` in round `r`, and take the least later round in which another
  block is prepared.  Its proposal carries a quorum of round changes; so there is a
  first round after `r` that a quorum left, and every round between is justified by
  it.  This quorum, the commit quorum and the quorum of the proposal's certificate
  have a node in common (three quorums intersect).  By `CommitsRemembered` and
  `CertificatesNeverRegress` that node's round change carries a certificate of round
  `r` or later.  The proposer, which takes a block from a certificate whenever there
  is one, and the verifier, which compares with the highest one, then leave only
  blocks of rounds in which `b` was prepared.  This is where the code's choice of
  *any* certificate, and the verifier's blindness for certificates of round 0
  (`highest_round` starts at 0 and the comparison is strict), have to be argued
  about: both are harmless among nodes that follow the code.
* `RememberTheorem`: `CommitsRemembered` is what makes the jump of section 4 harmless: a
  node that committed and then sent a round change without the certificate can only
  have skipped because a quorum left a round in between.

**`QuorumWaitProofs`.** `NoLostWakeupTheorem` and `EndsWithQuorumTheorem` for any number
of validators, target and channel size.  The invariant says that the estimate plus the
unread announcements is never less than the number of stored messages, unless the
receiver lagged, and that an estimate that has reached the target at the loop's
condition is a verified count; so the `expect` after the loop holds.  `GuardTheorem`: the
loops implement `QuorumGuard`.  A verified count is `Pass` or `Discard` of the abstract
specification, an `add_*` is its `Add`, and the subscription, the estimate and the
announcements change nothing it knows of.

**`MessageHandlerProofs`.**  `StaleTheorem` and `FutureTheorem`.  The invariant says
that outside the maps still to be pruned at most one message of a finalized height is
left, in the store or in the handler's hands.

**`IBFTRefinementProofs`.**  `RefinementTheorem`: `Spec` implements `Consensus`.  A step
after which `Recorded` is false is `Void`, and `Recorded` never comes back.  Otherwise, under
`Inv`, agreement in the next state and validity, a step that changes `finalized` is
`FinishHeight`, which is `Finalize` of the abstract specification; all others stutter.

**`ProposalVerifierProofs`.**  `SupportedTheorem` and `WellFormedTheorem`, for vectors
of any length.  The loop invariants say of the part of a vector that was passed that its
senders are distinct validators, that `highest` is the position of its highest
certificate of a round above 0, and that every early return so far was right.

**`MessageHandlerProofs`** also has the type invariant, `TypeCorrect`.

**`NodeStoreProofs`.** `Invariance`, and from it `TypeCorrect`, `PanicTheorem`,
`SealsTheorem`, `VotesTheorem`, `CertificatesTheorem`, `VerdictsTheorem` and
`NoticedTheorem`, for any number of validators, rounds, messages of peers and runs of
the height, and any quorum of at least two.  The round task remembers only a digest, so
none of the properties is inductive:  `NeverPanics` at a timeout depends on what
`run_prepare` left in the store many steps earlier.  `Inv` therefore says for each
control point what is still there: past the proposal the entry of the round holds the
block of the digest (`TaskBacked`), past `run_prepare` so do quorum - 1 prepares and the
sent commit (`CommitSent`), also when the task has panicked; an announcement means that
the proposal is stored (`Announced`), so the second query finds it and a lagging channel
is the only thing that panics the task; an own proposal in the store was broadcast
(`OwnSent`), and in the first run nothing was sent for what lies ahead of the control
point (`SentInOrder`).  The proof needs only that the handler, the monitors and the
counting steps let the store grow, except for votes for other blocks (`StoreGrowsInv`),
that a step which sends leaves what the next control point relies on (`SendInv`), and
that whatever a round takes from the store is taken when another one starts
(`StartRoundInv`).  The exception `Reproposed` enters at one place, `ProposeInv`: when
the proposer's entry holds another block, that one was broadcast too.

**`DatabaseProofs`.** `TypeCorrect`, `OwnWritesTheorem`, `CommitTheorem`,
`SnapshotTheorem`, `ReleaseTheorem` and `MultiGetTheorem`, for any number of
transactions, handles, schemas and keys.  The invariant says that a transaction's changes
replay its calls and that every operation in them belongs to an entry, that the read
options of a live snapshot handle pin the same version as its snapshot, and that the
database is closed only after all handles are gone.  For `multi_get` it says that every
value read so far is that of some version since the call began, and that without an
entry for the schema, or without a commit since then, it is one version for all of them
(`ReadsKept`); versions are only ever appended (`VersionsGrow`), so a value once read
stays explained.

**`P2PProofs`.** `TypeCorrect`, `OnceTheorem` and `EchoTheorem`.  The invariant says that
what was relayed or published has been seen.

*Only model-checked:* the liveness properties `EveryNodeFinalizes`, `QuorumEndsWait` and
`BroadcastReturns` (the prover has no liveness under fairness), and the violated
properties.

## 6. Not modelled, and simplifications

* Validators that do not follow the code: not in IBFT, whose agreement is among nodes
  that do.  What their messages can do to one node is `ProposalVerifier` and `NodeStore`.
* In `NodeStore` broadcasting an own message and adding it to the store is one step, and
  a proposal or certificate is named by its block, valid or not; `ProposalVerifier` says
  what valid means.
* In `NodeStore` a task that was aborted takes no further step.  In the code one in mid-poll
  may still take a lock and add a vote of its old round; in IBFT it does (`Lingering`).
* In `NodeStore` the announcements in a channel have no order: a task may receive those for
  its view before or after the others.
* The finalized height is an atomic with relaxed ordering; the model reads its current
  value.  A stale read would let in one more message of a finished height.
* In `MessageHandler`, a task that was aborted in mid-poll adds nothing to the store
  once the height has ended.
* Signatures, digests, encodings, block contents, round timeout lengths.
* Of the database: encodings, the options of `open`, and RocksDB itself.  The iterator
  of a transaction is `unimplemented!()` in the code.
* Of p2p: listening and bootstrap addresses, kademlia, identify, and the expiry of
  gossipsub's duplicate cache, after which data might be relayed again.
* The transaction pool is commented out of the workspace, uses types that the primitives
  no longer have, and the operations of its parked pools are `todo!()`: there is no
  behaviour to model yet.
* Primitives, codec, rpc, tracing and the binary: pure functions of bytes, or stubs.

## 7. Plan

Done: the protocol with its proofs; the waiting loops; handler and engine; the
verification of certificates; one node with its store; the abstract specifications and
the refinements; database; p2p; proofs of every safety property that holds.  Left:

1. IBFT with validators that do not follow the code, using what `ProposalVerifier`
   establishes as the guard of accepting a message.
2. A node as a composition: P2P's consensus channel feeding `MessageHandler`.
