------------------------- MODULE NodeStoreInvariant -------------------------
(***************************************************************************)
(* The inductive invariant of NodeStore.  Its properties are about what    *)
(* one part of the node finds in the store after the others had it, so the *)
(* invariant says what each control point of the round task still finds    *)
(* there, and what the entries of rounds the task has not reached may be.  *)
(***************************************************************************)
EXTENDS NodeStore

\* Every map of the store has finitely many messages of a round.
StoreFinite ==
    \A r \in Rounds : /\ IsFiniteSet(prepares[r])
                      /\ IsFiniteSet(commits[r])
                      /\ IsFiniteSet(roundChanges[r])

\* The main loop is in a round up to MAX_ROUND until it panics past it, the monitors
\* name later rounds, and only a finished run() has returned a block.
LoopOrdered ==
    /\ runs >= 1
    /\ status # "dead" => round \in Rounds
    /\ futureRound # None => futureRound > round
    /\ finalized # None => status = "finalized"

\* The round task is in the branch of the node's role, and past the proposal it has a
\* digest.
TaskInRole ==
    /\ status = "running" /\ phase = "proposal" => Proposer[round] # Self
    /\ status = "running" /\ phase \in {"build", "round_change"} => Proposer[round] = Self
    /\ phase \in {"prepare", "committing", "commit", "finished"} => digest \in Blocks

\* The store has no proposal of the node but one it has broadcast, in this run or before.
OwnSent ==
    \A r \in Rounds : Proposer[r] = Self /\ proposal[r] # None =>
        [kind |-> "proposal", round |-> r, block |-> proposal[r].block] \in sent

\* An announcement of the round's proposal means that the proposal is in the store.
Announced ==
    status = "running" /\ phase = "proposal" /\ (pending > 0 \/ point = "recount")
        => proposal[round] # None

\* The prepares in the store for the task's digest.
Held == {v \in prepares[round] : v.block = digest}

\* Past the proposal the entry of the round holds the block of the task's digest, and
\* past run_prepare the store still holds the quorum - 1 prepares for it.
TaskBacked ==
    status = "running" /\ ~Reproposed =>
        /\ phase \in {"prepare", "committing", "commit", "finished"} =>
              proposal[round] # None /\ proposal[round].block = digest
        /\ phase \in {"committing", "commit", "finished"} => Cardinality(Held) >= Quorum - 1

\* In the first run nothing was sent for a round that is ahead, and for the current one
\* only what the task's control point is past.
SentInOrder ==
    runs = 1 =>
        \A m \in sent :
            \/ m.round < round
            \/ /\ m.round = round
               /\ phase \notin {"build", "round_change", "proposal"}
               /\ m.kind = "commit" => phase \in {"committing", "commit", "finished"}

\* Past run_prepare the node's commit for the digest has been sent.
CommitSent ==
    status = "running" /\ phase \in {"committing", "commit", "finished"} =>
        [kind |-> "commit", round |-> round, block |-> digest] \in sent

Inv ==
    /\ TypeOK
    /\ StoreFinite
    /\ LoopOrdered
    /\ TaskInRole
    /\ OwnSent
    /\ Announced
    /\ TaskBacked
    /\ SentInOrder
    /\ CommitSent
    /\ NeverPanics
    /\ SealsMatchBlock
    /\ VotesOnce
    /\ CertificatesEarned
    /\ VerdictsTrue
    /\ ProposalNoticed
=============================================================================
