--------------------------- MODULE NodeStoreProofs ---------------------------
(***************************************************************************)
(* The properties of NodeStore for every number of validators, rounds,     *)
(* messages and runs of the height.  They follow from the invariant of     *)
(* NodeStoreInvariant: no step of the handler, of the monitors or of the   *)
(* main loop takes from the store what the round task relies on, short of  *)
(* starting another round.                                                 *)
(***************************************************************************)
EXTENDS NodeStoreInvariant, FiniteSetTheorems, TLAPS

-----------------------------------------------------------------------------
(* Operators *)

\* The messages that pass a retain are round changes, finitely many, and the result of
\* their verification is true or they are the node's own.
LEMMA VerifiedType ==
    ASSUME TypeOK, StoreFinite, VerdictsTrue, NEW r \in Rounds
    PROVE  /\ Verified(r) \in SUBSET RoundChanges
           /\ IsFiniteSet(Verified(r))
           /\ Cardinality(Verified(r)) \in Nat
           /\ \A m \in Verified(r) : m.from # Self => m.pc \in ValidBlocks \cup {NoBlock}
<1> DEFINE S == {n \in roundChanges[r] : n.verified \/ n.pc \in ValidBlocks \cup {NoBlock}}
           f == [m \in S |-> [m EXCEPT !.verified = TRUE]]
<1>1. roundChanges[r] \in SUBSET RoundChanges
  BY DEF TypeOK
<1>2. IsFiniteSet(S)
  BY FS_Subset DEF StoreFinite
<1>3. \A m \in S : f[m] \in Verified(r)
  BY DEF Verified
<1>4. \A y \in Verified(r) : \E m \in S : f[m] = y
  BY DEF Verified
<1>5. f \in Surjection(S, Verified(r))
  BY <1>3, <1>4 DEF Surjection
<1>6. IsFiniteSet(Verified(r))
  BY <1>2, <1>5, FS_Surjection
<1>7. ASSUME NEW m \in Verified(r)
      PROVE  m \in RoundChanges /\ (m.from # Self => m.pc \in ValidBlocks \cup {NoBlock})
  <2>1. PICK n \in S : m = [n EXCEPT !.verified = TRUE]
    BY DEF Verified
  <2>2. n \in RoundChanges /\ n \in roundChanges[r]
    BY <1>1
  <2>3. m \in RoundChanges /\ m.from = n.from /\ m.pc = n.pc
    BY <2>1, <2>2 DEF RoundChanges
  <2> QED
    BY <2>2, <2>3 DEF VerdictsTrue
<1> QED
  BY <1>6, <1>7, FS_CardinalityType

\* The votes for the task's digest are finitely many of the store's.
LEMMA ForDigestType ==
    ASSUME NEW S \in SUBSET Votes, IsFiniteSet(S)
    PROVE  /\ ForDigest(S) \in SUBSET S
           /\ IsFiniteSet(ForDigest(S))
           /\ Cardinality(ForDigest(S)) \in Nat
<1>1. ForDigest(S) \in SUBSET S
  BY DEF ForDigest
<1> QED
  BY <1>1, FS_Subset, FS_CardinalityType

\* The votes with the node's own are votes, and no less than before.
LEMMA AddOwnType ==
    ASSUME NEW S \in [Rounds -> SUBSET Votes], \A r \in Rounds : IsFiniteSet(S[r]),
           round \in Rounds, NEW b \in Blocks
    PROVE  /\ AddOwn(S, b) \in [Rounds -> SUBSET Votes]
           /\ \A r \in Rounds : IsFiniteSet(AddOwn(S, b)[r])
<1>1. [from |-> Self, block |-> b] \in Votes
  BY StoreAssumption DEF Votes
<1>2. IsFiniteSet(S[round] \cup {[from |-> Self, block |-> b]})
  BY FS_AddElement
<1> QED
  BY <1>1, <1>2 DEF AddOwn

VotesFor(S, d) == {v \in S : v.block = d}

\* More prepares in the store keep a quorum for the digest.
LEMMA HeldGrows ==
    ASSUME NEW S, NEW T, IsFiniteSet(T), S \subseteq T, NEW d
    PROVE  /\ Cardinality(VotesFor(S, d)) \in Nat
           /\ Cardinality(VotesFor(T, d)) \in Nat
           /\ Cardinality(VotesFor(S, d)) <= Cardinality(VotesFor(T, d))
<1>1. IsFiniteSet(VotesFor(T, d)) /\ VotesFor(S, d) \in SUBSET VotesFor(T, d)
  BY FS_Subset DEF VotesFor
<1>2. /\ IsFiniteSet(VotesFor(S, d))
      /\ Cardinality(VotesFor(S, d)) <= Cardinality(VotesFor(T, d))
  BY <1>1, FS_Subset
<1> QED
  BY <1>1, <1>2, FS_CardinalityType

\* What was proposed twice stays so while the round lasts.
LEMMA ReproposedStays ==
    ASSUME round' = round, sent \subseteq sent', Reproposed
    PROVE  Reproposed'
  BY DEF Reproposed

\* In the first run no round has two proposals of the node.
LEMMA ProposedOnce ==
    ASSUME VotesOnce, runs = 1
    PROVE  ~Reproposed
  BY DEF VotesOnce, Reproposed

-----------------------------------------------------------------------------
(* The initial state *)

\* The invariant holds when run() is called for the first time.
LEMMA InitInv == Init => Inv
<1> SUFFICES ASSUME Init PROVE Inv
  OBVIOUS
<1> USE StoreAssumption
<1>1. 0 \in Rounds /\ FirstPhase(0) \in {"build", "proposal"}
  BY DEF Rounds, FirstPhase
<1>2. TypeOK
  BY <1>1 DEF Init, TypeOK, Statuses, Phases, Points, Rounds
<1>3. StoreFinite
  BY FS_EmptySet DEF Init, StoreFinite
<1>4. LoopOrdered /\ TaskInRole /\ OwnSent /\ Announced /\ TaskBacked
  BY <1>1 DEF Init, LoopOrdered, TaskInRole, OwnSent, Announced, TaskBacked, FirstPhase
<1>5. SentInOrder /\ CommitSent /\ NeverPanics /\ SealsMatchBlock /\ VotesOnce
      /\ CertificatesEarned /\ VerdictsTrue /\ ProposalNoticed
  BY <1>1 DEF Init, SentInOrder, CommitSent, NeverPanics, LagOnly, SealsMatchBlock,
              VotesOnce, CertificatesEarned, VerdictsTrue, ProposalNoticed
<1> QED
  BY <1>2, <1>3, <1>4, <1>5 DEF Inv

-----------------------------------------------------------------------------
(* Starting a round *)

\* What another iteration of the main loop does to the task and to the round changes.
LEMMA StartRoundFacts ==
    ASSUME TypeOK, StoreFinite, NEW r \in 0 .. MaxRound + 1,
           NEW own \in [round : 1 .. MaxRound + 1, pc : Blocks \cup {NoBlock}] \cup {None},
           StartRound(r, own)
    PROVE  /\ round' = r /\ futureRound' = None /\ digest' = NoBlock
           /\ point' = "subscribe" /\ count' = 0 /\ pending' = 0 /\ other' = 0
           /\ status' = (IF r \in Rounds THEN "running" ELSE "dead")
           /\ phase' = (IF r \in Rounds THEN FirstPhase(r) ELSE "failed")
           /\ roundChanges' \in [Rounds -> SUBSET RoundChanges]
           /\ \A q \in Rounds : IsFiniteSet(roundChanges'[q])
           /\ \A q \in Rounds : \A m \in roundChanges'[q] :
                 m \in roundChanges[q] \/ m.from = Self
<1>1. MaxRound \in Nat /\ Self \in Nodes
  BY StoreAssumption
<1>2. /\ roundChanges \in [Rounds -> SUBSET RoundChanges]
      /\ \A q \in Rounds : IsFiniteSet(roundChanges[q])
  BY DEF TypeOK, StoreFinite
<1>3. CASE r > MaxRound
  BY <1>1, <1>2, <1>3 DEF StartRound, Enter, Rounds
<1>4. CASE ~(r > MaxRound)
  <2>1. r \in Rounds
    BY <1>1, <1>4 DEF Rounds
  <2>2. /\ round' = r /\ futureRound' = None /\ digest' = NoBlock /\ status' = "running"
        /\ phase' = FirstPhase(r) /\ point' = "subscribe" /\ count' = 0 /\ pending' = 0 /\ other' = 0
    BY <1>4 DEF StartRound, Enter
  <2>3. CASE UNCHANGED roundChanges
    BY <1>2, <2>1, <2>2, <2>3
  <2>4. CASE own # None /\ roundChanges' = [roundChanges EXCEPT ![r] =
                          @ \cup {[from |-> Self, pc |-> own.pc, verified |-> TRUE]}]
    <3> DEFINE m == [from |-> Self, pc |-> own.pc, verified |-> TRUE]
    <3>1. m \in RoundChanges /\ m.from = Self
      BY <1>1, <2>4 DEF RoundChanges
    <3>2. roundChanges' = [roundChanges EXCEPT ![r] = @ \cup {m}]
      BY <2>4
    <3> HIDE DEF m
    <3>3. roundChanges'[r] = roundChanges[r] \cup {m}
      BY <1>2, <2>1, <3>2
    <3>4. \A q \in Rounds \ {r} : roundChanges'[q] = roundChanges[q]
      BY <1>2, <2>1, <3>2
    <3>5. roundChanges' \in [Rounds -> SUBSET RoundChanges]
      BY <1>2, <2>1, <3>1, <3>2
    <3>6. \A q \in Rounds : IsFiniteSet(roundChanges'[q])
      <4>1. IsFiniteSet(roundChanges[r] \cup {m})
        BY <1>2, <2>1, FS_AddElement
      <4> QED
        BY <1>2, <3>3, <3>4, <4>1
    <3>7. \A q \in Rounds : \A n \in roundChanges'[q] :
             n \in roundChanges[q] \/ n.from = Self
      BY <2>1, <3>1, <3>3, <3>4
    <3> QED
      BY <2>1, <2>2, <3>5, <3>6, <3>7
  <2> QED
    BY <1>4, <2>3, <2>4 DEF StartRound
<1> QED
  BY <1>3, <1>4

\* A later round, or another run, starts with the invariant, whatever the entries that
\* were taken from the store.
LEMMA StartRoundInv ==
    ASSUME Inv, NEW r \in 0 .. MaxRound + 1,
           NEW own \in [round : 1 .. MaxRound + 1, pc : Blocks \cup {NoBlock}] \cup {None},
           StartRound(r, own),
           status \in {"running", "cancelled"},
           runs' \in Nat, runs' >= 1,
           runs' = 1 => runs = 1 /\ r > round,
           latest' \in [round : 1 .. MaxRound + 1, pc : Blocks \cup {NoBlock}] \cup {None},
           proposal' \in [Rounds -> Proposals \cup {None}],
           \A q \in Rounds : proposal'[q] \in {proposal[q], None},
           prepares' \in [Rounds -> SUBSET Votes],
           \A q \in Rounds : prepares'[q] \in {prepares[q], {}},
           UNCHANGED <<commits, finalized, sent, received>>,
           CertificatesEarned'
    PROVE  Inv'
<1> USE StoreAssumption
<1>1. /\ round' = r /\ futureRound' = None /\ digest' = NoBlock
      /\ point' = "subscribe" /\ count' = 0 /\ pending' = 0 /\ other' = 0
      /\ status' = (IF r \in Rounds THEN "running" ELSE "dead")
      /\ phase' = (IF r \in Rounds THEN FirstPhase(r) ELSE "failed")
      /\ roundChanges' \in [Rounds -> SUBSET RoundChanges]
      /\ \A q \in Rounds : IsFiniteSet(roundChanges'[q])
      /\ \A q \in Rounds : \A m \in roundChanges'[q] : m \in roundChanges[q] \/ m.from = Self
  BY StartRoundFacts DEF Inv
<1>2. /\ FirstPhase(r) \in {"build", "proposal", "round_change"}
      /\ FirstPhase(r) = "proposal" <=> Proposer[r] # Self
  BY DEF FirstPhase
<1>3. finalized = None
  BY DEF Inv, LoopOrdered
<1>4. TypeOK'
  BY <1>1, <1>2 DEF Inv, TypeOK, Statuses, Phases, Points
<1>5. StoreFinite'
  <2>1. \A q \in Rounds : IsFiniteSet(prepares'[q])
    BY FS_EmptySet DEF Inv, StoreFinite
  <2> QED
    BY <1>1, <2>1 DEF Inv, StoreFinite
<1>6. LoopOrdered'
  BY <1>1, <1>3 DEF LoopOrdered
<1>7. TaskInRole'
  BY <1>1, <1>2 DEF TaskInRole
<1>8. OwnSent'
  BY DEF Inv, OwnSent
<1>9. Announced' /\ ProposalNoticed'
  BY <1>1 DEF Announced, ProposalNoticed
<1>10. TaskBacked'
  BY <1>1, <1>2 DEF TaskBacked
<1>11. SentInOrder'
  <2> SUFFICES ASSUME runs' = 1, NEW m \in sent
               PROVE  m.round < r
    BY <1>1 DEF SentInOrder
  <2>1. runs = 1 /\ r > round
    OBVIOUS
  <2>2. m.round <= round /\ round \in Nat /\ m.round \in Nat
    BY <2>1 DEF Inv, SentInOrder, TypeOK, Rounds
  <2> QED
    BY <2>1, <2>2
<1>12. NeverPanics'
  BY <1>1, <1>2 DEF NeverPanics, LagOnly
<1>13. SealsMatchBlock'
  BY <1>3 DEF SealsMatchBlock
<1>14. VotesOnce' /\ CommitSent'
  BY <1>1, <1>2 DEF Inv, VotesOnce, CommitSent
<1>15. VerdictsTrue'
  <2>1. ASSUME NEW q \in Rounds, proposal'[q] # None, Proposer[q] # Self
        PROVE  /\ proposal'[q].verdict = "ok" => proposal'[q].block \in ValidBlocks
               /\ proposal'[q].verdict = "err" => proposal'[q].block \notin ValidBlocks
    BY <2>1 DEF Inv, VerdictsTrue
  <2>2. ASSUME NEW q \in Rounds, NEW m \in roundChanges'[q], m.verified, m.from # Self
        PROVE  m.pc \in ValidBlocks \cup {NoBlock}
    BY <1>1, <2>2 DEF Inv, VerdictsTrue
  <2> QED
    BY <2>1, <2>2 DEF Inv, VerdictsTrue
<1> QED
  BY <1>4, <1>5, <1>6, <1>7, <1>8, <1>9, <1>10, <1>11, <1>12, <1>13, <1>14, <1>15 DEF Inv

-----------------------------------------------------------------------------
(* The main loop *)

\* Following a monitor keeps the invariant.
LEMMA JumpInv ==
    ASSUME Inv, Jump
    PROVE  Inv'
<1>1. /\ futureRound \in 0 .. MaxRound + 1 /\ futureRound > round
      /\ latest \in [round : 1 .. MaxRound + 1, pc : Blocks \cup {NoBlock}] \cup {None}
      /\ StartRound(futureRound, latest)
  BY StoreAssumption DEF Jump, Inv, TypeOK, LoopOrdered, Rounds
<1>2. /\ status = "running" /\ runs' = runs /\ runs \in Nat /\ runs >= 1 /\ latest' = latest
      /\ UNCHANGED <<proposal, prepares, commits, finalized, sent, received>>
  BY DEF Jump, Inv, TypeOK, LoopOrdered
<1>3. /\ proposal \in [Rounds -> Proposals \cup {None}]
      /\ prepares \in [Rounds -> SUBSET Votes]
  BY DEF Inv, TypeOK
<1>4. CertificatesEarned'
  BY <1>2 DEF Inv, CertificatesEarned
<1> QED
  BY <1>1, <1>2, <1>3, <1>4, StartRoundInv

\* The next run of a cancelled height starts with the invariant, although the store is
\* the one of the earlier run.
LEMMA RunAgainInv ==
    ASSUME Inv, RunAgain
    PROVE  Inv'
<1>1. StartRound(0, None) /\ 0 \in 0 .. MaxRound + 1
  BY StoreAssumption DEF RunAgain
<1>2. /\ status = "cancelled" /\ latest' = None
      /\ UNCHANGED <<proposal, prepares, commits, finalized, sent, received>>
  BY DEF RunAgain
<1>3. /\ proposal \in [Rounds -> Proposals \cup {None}]
      /\ prepares \in [Rounds -> SUBSET Votes]
  BY DEF Inv, TypeOK
<1>4. runs' \in Nat /\ runs' >= 1 /\ runs' # 1
  BY DEF RunAgain, Inv, TypeOK, LoopOrdered
<1>5. CertificatesEarned'
  BY <1>4 DEF CertificatesEarned
<1> QED
  BY <1>1, <1>2, <1>3, <1>4, <1>5, StartRoundInv

\* run() returns or panics with the invariant.
LEMMA StopInv ==
    ASSUME Inv, status = "running", status' \in {"cancelled", "finalized", "panicked"},
           status' = "panicked" => Reproposed,
           finalized' \in [block : Blocks, sealed : Blocks] \cup {None},
           finalized' # None =>
               status' = "finalized"
               /\ (finalized'.block = finalized'.sealed \/ Reproposed),
           proposal' \in [Rounds -> Proposals \cup {None}],
           \A q \in Rounds : proposal'[q] \in {proposal[q], None},
           UNCHANGED <<runs, round, latest, futureRound, taskVars, prepares, commits,
                       roundChanges, sent, received>>
    PROVE  Inv'
<1>1. UNCHANGED <<phase, point, digest, count, pending, other>>
  BY DEF taskVars
<1>2. TypeOK' /\ StoreFinite'
  BY <1>1 DEF Inv, TypeOK, StoreFinite, Statuses
<1>3. LoopOrdered' /\ TaskInRole'
  BY <1>1 DEF Inv, LoopOrdered, TaskInRole
<1>4. OwnSent' /\ SentInOrder' /\ VotesOnce' /\ CertificatesEarned'
  BY <1>1 DEF Inv, OwnSent, SentInOrder, VotesOnce, CertificatesEarned
<1>5. Announced' /\ TaskBacked' /\ ProposalNoticed' /\ CommitSent'
  BY DEF Announced, TaskBacked, ProposalNoticed, CommitSent
<1>6. NeverPanics' /\ SealsMatchBlock'
  BY <1>1 DEF Inv, NeverPanics, LagOnly, Lagged, SealsMatchBlock, Reproposed
<1>7. VerdictsTrue'
  <2>1. \A q \in Rounds : proposal'[q] # None => proposal'[q] = proposal[q]
    OBVIOUS
  <2> QED
    BY <2>1 DEF Inv, VerdictsTrue
<1> QED
  BY <1>2, <1>3, <1>4, <1>5, <1>6, <1>7 DEF Inv

\* Cancelling leaves everything in place.
LEMMA CancelInv ==
    ASSUME Inv, Cancel
    PROVE  Inv'
<1>1. /\ status = "running" /\ status' = "cancelled"
      /\ UNCHANGED <<runs, round, latest, futureRound, taskVars, proposal, prepares, commits,
                     roundChanges, finalized, sent, received>>
  BY DEF Cancel, storeVars
<1>2. finalized = None /\ proposal \in [Rounds -> Proposals \cup {None}]
  BY <1>1 DEF Inv, LoopOrdered, TypeOK
<1> QED
  BY <1>1, <1>2, StopInv

\* handle_round_finish finds the proposal that the seals are for, with the exception of
\* a proposer that had proposed before.
LEMMA FinishHeightInv ==
    ASSUME Inv, FinishHeight
    PROVE  Inv'
<1>1. /\ status = "running" /\ phase = "finished" /\ round \in Rounds
      /\ UNCHANGED <<runs, sent, received>>
      /\ finalized = None /\ proposal \in [Rounds -> Proposals \cup {None}]
  BY DEF FinishHeight, Inv, LoopOrdered, TypeOK
<1>2. ~Reproposed => proposal[round] # None /\ proposal[round].block = digest
  BY <1>1 DEF Inv, TaskBacked
<1>3. CASE proposal[round] = None
  <2>1. /\ status' = "panicked"
        /\ UNCHANGED <<round, latest, futureRound, taskVars, proposal, prepares, commits,
                       roundChanges, finalized>>
    BY <1>3 DEF FinishHeight, Panic, storeVars
  <2> QED
    BY <1>1, <1>2, <1>3, <2>1, StopInv
<1>4. CASE proposal[round] # None
  <2>1. /\ status' = "finalized"
        /\ finalized' = [block |-> proposal[round].block, sealed |-> digest]
        /\ proposal' = [proposal EXCEPT ![round] = None]
        /\ UNCHANGED <<round, latest, futureRound, taskVars, prepares, commits, roundChanges>>
    BY <1>4 DEF FinishHeight
  <2>2. proposal[round].block \in Blocks /\ digest \in Blocks
    BY <1>1, <1>4 DEF Inv, TaskInRole, TypeOK, Proposals
  <2>3. /\ proposal' \in [Rounds -> Proposals \cup {None}]
        /\ \A q \in Rounds : proposal'[q] \in {proposal[q], None}
    BY <1>1, <2>1
  <2>4. finalized' \in [block : Blocks, sealed : Blocks]
    BY <2>1, <2>2
  <2>5. finalized'.block = finalized'.sealed \/ Reproposed
    BY <1>2, <2>1
  <2> QED
    BY <1>1, <2>1, <2>3, <2>4, <2>5, StopInv
<1> QED
  BY <1>3, <1>4

\* handle_timeout finds the proposal and the prepares of the task, with the same
\* exception, and the next round starts with the invariant.
LEMMA TimeoutInv ==
    ASSUME Inv, Timeout
    PROVE  Inv'
<1>1. /\ status = "running" /\ round \in Rounds /\ MaxRound \in Nat
      /\ UNCHANGED <<runs, finalized, sent, received>>
      /\ finalized = None /\ runs \in Nat /\ runs >= 1
      /\ proposal \in [Rounds -> Proposals \cup {None}]
      /\ prepares \in [Rounds -> SUBSET Votes]
  BY StoreAssumption DEF Timeout, Inv, LoopOrdered, TypeOK
<1>2. round + 1 \in 1 .. MaxRound + 1 /\ round + 1 \in 0 .. MaxRound + 1 /\ round + 1 > round
  BY <1>1 DEF Rounds
<1>3. ASSUME NEW pc \in Blocks \cup {NoBlock}, ChangeRound(pc),
             runs = 1 /\ pc # NoBlock =>
                \E m \in sent : m.kind = "commit" /\ m.block = pc,
             proposal' \in [Rounds -> Proposals \cup {None}],
             \A q \in Rounds : proposal'[q] \in {proposal[q], None},
             prepares' \in [Rounds -> SUBSET Votes],
             \A q \in Rounds : prepares'[q] \in {prepares[q], {}},
             UNCHANGED commits
      PROVE  Inv'
  <2> DEFINE own == [round |-> round + 1, pc |-> pc]
  <2>1. own \in [round : 1 .. MaxRound + 1, pc : Blocks \cup {NoBlock}] \cup {None}
    BY <1>2
  <2>2. latest' = own /\ StartRound(round + 1, own)
    BY <1>3 DEF ChangeRound
  <2>3. own.round = round + 1 /\ own.pc = pc
    OBVIOUS
  <2> HIDE DEF own
  <2>4. CertificatesEarned'
    <3> SUFFICES ASSUME runs = 1, pc # NoBlock
                 PROVE  \E m \in sent :
                           m.kind = "commit" /\ m.block = pc /\ m.round < round + 1
      BY <1>1, <2>2, <2>3 DEF CertificatesEarned
    <3>1. PICK m \in sent : m.kind = "commit" /\ m.block = pc
      BY <1>3
    <3>2. m.round \in Rounds /\ (m.round < round \/ m.round = round)
      BY DEF Inv, TypeOK, SentInOrder
    <3> QED
      BY <1>1, <3>1, <3>2 DEF Rounds
  <2> QED
    BY <1>1, <1>2, <1>3, <2>1, <2>2, <2>4, StartRoundInv
<1>4. ASSUME Panic, Reproposed
      PROVE  Inv'
  <2>1. /\ status' = "panicked"
        /\ UNCHANGED <<round, latest, futureRound, taskVars, proposal, prepares, commits,
                       roundChanges>>
    BY <1>4 DEF Panic, storeVars
  <2> QED
    BY <1>1, <1>4, <2>1, StopInv
<1>5. CASE phase \in {"commit", "finished"}
  <2> DEFINE valid == {v \in prepares[round] : v.block = proposal[round].block}
  <2>1. ~Reproposed => proposal[round] # None /\ Cardinality(valid) >= Quorum - 1
    BY <1>1, <1>5 DEF Inv, TaskBacked, Held
  <2>2. CASE proposal[round] = None
    BY <1>4, <1>5, <2>1, <2>2 DEF Timeout
  <2>3. CASE proposal[round] # None /\ Cardinality(valid) >= Quorum - 1
    <3>1. /\ proposal' = [proposal EXCEPT ![round] = None]
          /\ prepares' = [prepares EXCEPT ![round] = {}]
          /\ UNCHANGED commits
          /\ ChangeRound(proposal[round].block)
      BY <1>5, <2>3 DEF Timeout
    <3>2. proposal[round].block \in Blocks
      BY <1>1, <2>3 DEF Proposals
    <3>3. /\ proposal' \in [Rounds -> Proposals \cup {None}]
          /\ \A q \in Rounds : proposal'[q] \in {proposal[q], None}
          /\ prepares' \in [Rounds -> SUBSET Votes]
          /\ \A q \in Rounds : prepares'[q] \in {prepares[q], {}}
      BY <1>1, <3>1
    <3>4. runs = 1 => \E m \in sent : m.kind = "commit" /\ m.block = proposal[round].block
      <4> DEFINE m == [kind |-> "commit", round |-> round, block |-> digest]
      <4>1. m \in sent /\ m.kind = "commit" /\ m.block = digest
        BY <1>1, <1>5 DEF Inv, CommitSent
      <4>2. runs = 1 => proposal[round].block = digest
        BY <1>1, <1>5, ProposedOnce DEF Inv, TaskBacked
      <4> QED
        BY <4>1, <4>2
    <3> QED
      BY <1>3, <3>1, <3>2, <3>3, <3>4
  <2>4. CASE proposal[round] # None /\ ~(Cardinality(valid) >= Quorum - 1)
    BY <1>4, <1>5, <2>1, <2>4 DEF Timeout
  <2> QED
    BY <2>2, <2>3, <2>4
<1>6. CASE phase \notin {"commit", "finished"}
  <2>1. /\ UNCHANGED <<proposal, prepares, commits>>
        /\ ChangeRound(IF latest = None THEN NoBlock ELSE latest.pc)
    BY <1>6 DEF Timeout
  <2> DEFINE pc == IF latest = None THEN NoBlock ELSE latest.pc
  <2>2. pc \in Blocks \cup {NoBlock}
    BY DEF Inv, TypeOK
  <2>3. runs = 1 /\ pc # NoBlock => \E m \in sent : m.kind = "commit" /\ m.block = pc
    BY DEF Inv, CertificatesEarned
  <2> HIDE DEF pc
  <2> QED
    BY <1>1, <1>3, <2>1, <2>2, <2>3 DEF pc
<1> QED
  BY <1>5, <1>6

-----------------------------------------------------------------------------
(* Steps between two control points *)

\* While the main loop and the round task stay where they are, the store may gain
\* entries of other nodes, messages and verdicts: what the task relies on stays.
LEMMA StoreGrowsInv ==
    ASSUME Inv,
           TypeOK', StoreFinite', LoopOrdered', Announced', VerdictsTrue', ProposalNoticed',
           LagOnly',
           UNCHANGED <<runs, status, round, latest, finalized, phase, digest, sent>>,
           \A q \in Rounds : proposal[q] # None =>
               proposal'[q] # None /\ proposal'[q].block = proposal[q].block,
           \A q \in Rounds : proposal[q] = None /\ Proposer[q] = Self => proposal'[q] = None,
           phase \in {"committing", "commit", "finished"} =>
               \A q \in Rounds : prepares[q] \subseteq prepares'[q]
    PROVE  Inv'
<1>1. TaskInRole' /\ SentInOrder' /\ CommitSent' /\ NeverPanics' /\ SealsMatchBlock'
      /\ VotesOnce' /\ CertificatesEarned'
  BY DEF Inv, TaskInRole, SentInOrder, CommitSent, NeverPanics, SealsMatchBlock,
         VotesOnce, CertificatesEarned, Reproposed
<1>2. OwnSent'
  BY DEF Inv, OwnSent
<1>3. TaskBacked'
  <2> SUFFICES ASSUME status = "running", ~Reproposed
               PROVE  /\ phase \in {"prepare", "committing", "commit", "finished"} =>
                            proposal'[round] # None /\ proposal'[round].block = digest
                      /\ phase \in {"committing", "commit", "finished"} =>
                            Cardinality(Held') >= Quorum - 1
    BY DEF TaskBacked, Reproposed
  <2>1. round \in Rounds
    BY DEF Inv, LoopOrdered
  <2>2. phase \in {"prepare", "committing", "commit", "finished"} =>
           proposal'[round] # None /\ proposal'[round].block = digest
    BY <2>1 DEF Inv, TaskBacked
  <2>3. ASSUME phase \in {"committing", "commit", "finished"}
        PROVE  Cardinality(Held') >= Quorum - 1
    <3>1. Cardinality(VotesFor(prepares[round], digest)) >= Quorum - 1
      BY <2>3 DEF Inv, TaskBacked, Held, VotesFor
    <3>2. IsFiniteSet(prepares'[round]) /\ prepares[round] \subseteq prepares'[round]
      BY <2>1, <2>3 DEF StoreFinite
    <3>3. Quorum - 1 \in Nat
      BY StoreAssumption
    <3>4. Cardinality(VotesFor(prepares'[round], digest)) >= Quorum - 1
      <4>1. /\ Cardinality(VotesFor(prepares[round], digest)) \in Nat
            /\ Cardinality(VotesFor(prepares'[round], digest)) \in Nat
            /\ Cardinality(VotesFor(prepares[round], digest))
                  <= Cardinality(VotesFor(prepares'[round], digest))
        BY <3>2, HeldGrows
      <4> QED
        BY <3>1, <3>3, <4>1
    <3> QED
      BY <3>4 DEF Held, VotesFor
  <2> QED
    BY <2>2, <2>3
<1> QED
  BY <1>1, <1>2, <1>3 DEF Inv

-----------------------------------------------------------------------------
(* The message handler *)

\* What every handler step leaves alone, and when an announcement reaches the task.
LEMMA ReceiveFacts ==
    ASSUME Inv, Listening, NEW kind, NEW ours, Announce(kind, ours),
           UNCHANGED <<loopVars, sent>>
    PROVE  /\ UNCHANGED <<runs, status, round, latest, futureRound, finalized, sent, phase,
                          point, digest, count>>
           /\ received' \in Nat /\ pending' \in Nat /\ other' \in Nat /\ pending' >= pending
           /\ pending' # pending => phase = kind /\ ours
           /\ phase = kind /\ ours /\ point = "wait" => pending' > 0
           /\ LoopOrdered' /\ LagOnly'
<1>1. UNCHANGED <<runs, status, round, latest, futureRound, finalized, sent, phase, point,
                  digest, count>>
  BY DEF Announce, loopVars
<1>2. received' \in Nat /\ pending \in Nat /\ other \in Nat
  BY DEF Listening, Inv, TypeOK
<1>3. /\ pending' \in Nat /\ other' \in Nat /\ pending' >= pending
      /\ pending' # pending => phase = kind /\ ours
      /\ phase = kind /\ ours /\ point = "wait" => pending' > 0
      /\ point = "panicked" => pending' = pending /\ other' = other
  BY <1>2 DEF Announce, Subscribed
<1>4. LoopOrdered' /\ LagOnly'
  BY <1>1, <1>3 DEF Inv, LoopOrdered, NeverPanics, LagOnly, Lagged
<1> QED
  BY <1>1, <1>2, <1>3, <1>4

\* A proposal is added unverified to a vacant entry of another node, and announced.
LEMMA ReceiveProposalInv ==
    ASSUME Inv, NEW r \in Rounds, NEW b \in Blocks, ReceiveProposal(r, b)
    PROVE  Inv'
<1> DEFINE p == [block |-> b, verdict |-> "unverified"]
<1>1. /\ Listening /\ Announce("proposal", r = round) /\ UNCHANGED <<loopVars, sent>>
      /\ UNCHANGED <<prepares, commits, roundChanges>>
      /\ Proposer[r] # Self /\ proposal[r] = None
      /\ proposal' = [proposal EXCEPT ![r] = p]
  BY DEF ReceiveProposal, Peers
<1>2. /\ UNCHANGED <<runs, status, round, latest, futureRound, finalized, sent, phase, point,
                     digest, count>>
      /\ received' \in Nat /\ pending' \in Nat /\ other' \in Nat /\ pending' >= pending
      /\ pending' # pending => phase = "proposal" /\ round = r
      /\ phase = "proposal" /\ round = r /\ point = "wait" => pending' > 0
      /\ LoopOrdered' /\ LagOnly'
  BY <1>1, ReceiveFacts
<1>3. p \in Proposals /\ p # None /\ p.verdict = "unverified" /\ p.block = b
  BY StoreAssumption DEF Proposals, Verdicts
<1> HIDE DEF p
<1>4. proposal \in [Rounds -> Proposals \cup {None}] /\ pending \in Nat
  BY DEF Inv, TypeOK
<1>5. proposal'[r] = p /\ \A q \in Rounds \ {r} : proposal'[q] = proposal[q]
  BY <1>1, <1>4
<1>6. proposal' \in [Rounds -> Proposals \cup {None}]
  BY <1>1, <1>3, <1>4
<1>7. TypeOK'
  BY <1>1, <1>2, <1>6 DEF Inv, TypeOK
<1>8. StoreFinite'
  BY <1>1 DEF Inv, StoreFinite
<1>9. Announced'
  <2> SUFFICES ASSUME status = "running", phase = "proposal", pending' > 0 \/ point = "recount"
               PROVE  proposal'[round] # None
    BY <1>2 DEF Announced
  <2>1. round \in Rounds
    BY DEF Inv, LoopOrdered
  <2>2. CASE pending' = pending
    BY <1>3, <1>5, <2>1, <2>2 DEF Inv, Announced
  <2>3. CASE pending' # pending
    BY <1>2, <1>3, <1>5, <2>3
  <2> QED
    BY <2>2, <2>3
<1>10. ProposalNoticed'
  <2> SUFFICES ASSUME status = "running", phase = "proposal", point = "wait",
                      proposal'[round] # None
               PROVE  pending' > 0
    BY <1>2 DEF ProposalNoticed
  <2>1. round \in Rounds
    BY DEF Inv, LoopOrdered
  <2>2. CASE round = r
    BY <1>2, <2>2
  <2>3. CASE round # r
    <3>1. pending > 0
      BY <1>5, <2>1, <2>3 DEF Inv, ProposalNoticed
    <3> QED
      BY <1>2, <1>4, <3>1
  <2> QED
    BY <2>2, <2>3
<1>11. VerdictsTrue'
  <2>1. ASSUME NEW q \in Rounds, proposal'[q] # None, Proposer[q] # Self
        PROVE  /\ proposal'[q].verdict = "ok" => proposal'[q].block \in ValidBlocks
               /\ proposal'[q].verdict = "err" => proposal'[q].block \notin ValidBlocks
    <3>1. CASE q = r
      BY <1>3, <1>5, <3>1
    <3>2. CASE q # r
      BY <1>5, <2>1, <3>2 DEF Inv, VerdictsTrue
    <3> QED
      BY <3>1, <3>2
  <2> QED
    BY <1>1, <1>2, <2>1 DEF Inv, VerdictsTrue
<1>12. /\ \A q \in Rounds : proposal[q] # None =>
             proposal'[q] # None /\ proposal'[q].block = proposal[q].block
       /\ \A q \in Rounds : proposal[q] = None /\ Proposer[q] = Self => proposal'[q] = None
  BY <1>1, <1>5
<1>13. \A q \in Rounds : prepares[q] \subseteq prepares'[q]
  BY <1>1
<1> QED
  BY <1>2, <1>7, <1>8, <1>9, <1>10, <1>11, <1>12, <1>13, StoreGrowsInv

\* A vote that is added to a round leaves votes, finitely many and no fewer.
LEMMA VoteAdded ==
    ASSUME NEW S \in [Rounds -> SUBSET Votes], \A q \in Rounds : IsFiniteSet(S[q]),
           NEW r \in Rounds, NEW i \in Nodes, NEW b \in Blocks,
           NEW T, T = [S EXCEPT ![r] = @ \cup {[from |-> i, block |-> b]}]
    PROVE  /\ T \in [Rounds -> SUBSET Votes]
           /\ \A q \in Rounds : IsFiniteSet(T[q])
           /\ \A q \in Rounds : S[q] \subseteq T[q]
<1> DEFINE v == [from |-> i, block |-> b]
<1>1. v \in Votes
  BY DEF Votes
<1>2. T = [S EXCEPT ![r] = @ \cup {v}]
  OBVIOUS
<1> HIDE DEF v
<1>3. T[r] = S[r] \cup {v} /\ \A q \in Rounds \ {r} : T[q] = S[q]
  BY <1>2
<1>4. IsFiniteSet(S[r] \cup {v})
  BY FS_AddElement
<1>5. T \in [Rounds -> SUBSET Votes]
  BY <1>1, <1>2
<1> QED
  BY <1>3, <1>4, <1>5

\* A handler step that adds a vote or a round change leaves the proposals alone; the
\* announcement is not one the proposal's loop waits for.
LEMMA ReceiveVoteInv ==
    ASSUME Inv, Listening, NEW kind, NEW ours, Announce(kind, ours),
           kind # "proposal" \/ ~ours,
           UNCHANGED <<loopVars, sent, proposal>>,
           prepares' \in [Rounds -> SUBSET Votes],
           commits' \in [Rounds -> SUBSET Votes],
           roundChanges' \in [Rounds -> SUBSET RoundChanges],
           StoreFinite',
           \A q \in Rounds : prepares[q] \subseteq prepares'[q],
           \A q \in Rounds : \A m \in roundChanges'[q] : m \in roundChanges[q] \/ ~m.verified
    PROVE  Inv'
<1>1. /\ UNCHANGED <<runs, status, round, latest, futureRound, finalized, sent, phase, point,
                     digest, count>>
      /\ received' \in Nat /\ pending' \in Nat /\ other' \in Nat
      /\ pending' # pending => phase = kind /\ ours
      /\ LoopOrdered' /\ LagOnly'
  BY ReceiveFacts
<1>2. TypeOK'
  BY <1>1 DEF Inv, TypeOK
<1>3. Announced' /\ ProposalNoticed'
  BY <1>1 DEF Inv, Announced, ProposalNoticed
<1>4. VerdictsTrue'
  BY <1>1 DEF Inv, VerdictsTrue
<1> QED
  BY <1>1, <1>2, <1>3, <1>4, StoreGrowsInv

\* A prepare of a peer is added.
LEMMA ReceivePrepareInv ==
    ASSUME Inv, NEW r \in Rounds, NEW i \in Peers, NEW b \in Blocks, ReceivePrepare(r, i, b)
    PROVE  Inv'
<1>1. /\ Listening /\ Announce("prepare", r = round)
      /\ UNCHANGED <<proposal, commits, roundChanges, loopVars, sent>>
      /\ prepares' = [prepares EXCEPT ![r] = @ \cup {[from |-> i, block |-> b]}]
  BY DEF ReceivePrepare
<1>2. /\ prepares \in [Rounds -> SUBSET Votes] /\ commits \in [Rounds -> SUBSET Votes]
      /\ roundChanges \in [Rounds -> SUBSET RoundChanges]
      /\ \A q \in Rounds : IsFiniteSet(prepares[q])
      /\ i \in Nodes
  BY DEF Inv, TypeOK, StoreFinite, Peers
<1>3. /\ prepares' \in [Rounds -> SUBSET Votes]
      /\ \A q \in Rounds : IsFiniteSet(prepares'[q])
      /\ \A q \in Rounds : prepares[q] \subseteq prepares'[q]
  BY <1>1, <1>2, VoteAdded
<1>4. StoreFinite'
  BY <1>1, <1>3 DEF Inv, StoreFinite
<1>5. commits' = commits /\ roundChanges' = roundChanges /\ "prepare" # "proposal"
  BY <1>1
<1> QED
  BY <1>1, <1>2, <1>3, <1>4, <1>5, ReceiveVoteInv

\* A commit of a peer is added.
LEMMA ReceiveCommitInv ==
    ASSUME Inv, NEW r \in Rounds, NEW i \in Peers, NEW b \in Blocks, ReceiveCommit(r, i, b)
    PROVE  Inv'
<1>1. /\ Listening /\ Announce("commit", r = round)
      /\ UNCHANGED <<proposal, prepares, roundChanges, loopVars, sent>>
      /\ commits' = [commits EXCEPT ![r] = @ \cup {[from |-> i, block |-> b]}]
  BY DEF ReceiveCommit
<1>2. /\ prepares \in [Rounds -> SUBSET Votes] /\ commits \in [Rounds -> SUBSET Votes]
      /\ roundChanges \in [Rounds -> SUBSET RoundChanges]
      /\ \A q \in Rounds : IsFiniteSet(commits[q])
      /\ i \in Nodes
  BY DEF Inv, TypeOK, StoreFinite, Peers
<1>3. /\ commits' \in [Rounds -> SUBSET Votes]
      /\ \A q \in Rounds : IsFiniteSet(commits'[q])
  BY <1>1, <1>2, VoteAdded
<1>4. StoreFinite'
  BY <1>1, <1>3 DEF Inv, StoreFinite
<1>5. prepares' = prepares /\ roundChanges' = roundChanges /\ "commit" # "proposal"
  BY <1>1
<1> QED
  BY <1>1, <1>2, <1>3, <1>4, <1>5, ReceiveVoteInv

\* A round change of a peer is added, unverified.
LEMMA ReceiveRoundChangeInv ==
    ASSUME Inv, NEW r \in Rounds, NEW i \in Peers, NEW pc \in Blocks \cup {NoBlock},
           ReceiveRoundChange(r, i, pc)
    PROVE  Inv'
<1> DEFINE m == [from |-> i, pc |-> pc, verified |-> FALSE]
<1>1. /\ Listening /\ Announce("round_change", r = round)
      /\ UNCHANGED <<proposal, prepares, commits, loopVars, sent>>
      /\ roundChanges' = [roundChanges EXCEPT ![r] = @ \cup {m}]
  BY DEF ReceiveRoundChange
<1>2. m \in RoundChanges /\ ~m.verified
  BY DEF RoundChanges, Peers
<1> HIDE DEF m
<1>3. /\ prepares \in [Rounds -> SUBSET Votes] /\ commits \in [Rounds -> SUBSET Votes]
      /\ roundChanges \in [Rounds -> SUBSET RoundChanges]
      /\ \A q \in Rounds : IsFiniteSet(roundChanges[q])
  BY DEF Inv, TypeOK, StoreFinite
<1>4. /\ roundChanges'[r] = roundChanges[r] \cup {m}
      /\ \A q \in Rounds \ {r} : roundChanges'[q] = roundChanges[q]
  BY <1>1, <1>3
<1>5. roundChanges' \in [Rounds -> SUBSET RoundChanges]
  BY <1>1, <1>2, <1>3
<1>6. IsFiniteSet(roundChanges[r] \cup {m})
  BY <1>3, FS_AddElement
<1>7. StoreFinite'
  BY <1>1, <1>4, <1>6 DEF Inv, StoreFinite
<1>8. \A q \in Rounds : \A n \in roundChanges'[q] : n \in roundChanges[q] \/ ~n.verified
  BY <1>2, <1>4
<1>9. prepares' = prepares /\ commits' = commits /\ "round_change" # "proposal"
  BY <1>1
<1> QED
  BY <1>1, <1>3, <1>5, <1>7, <1>8, <1>9, ReceiveVoteInv

\* A message for a later height is announced and no more.
LEMMA ReceiveLaterInv ==
    ASSUME Inv, ReceiveLater
    PROVE  Inv'
<1>1. /\ Listening /\ Announce(phase, FALSE)
      /\ UNCHANGED <<loopVars, sent, proposal, prepares, commits, roundChanges>>
  BY DEF ReceiveLater, storeVars
<1>2. /\ prepares' \in [Rounds -> SUBSET Votes] /\ commits' \in [Rounds -> SUBSET Votes]
      /\ roundChanges' \in [Rounds -> SUBSET RoundChanges]
      /\ StoreFinite'
      /\ \A q \in Rounds : prepares[q] \subseteq prepares'[q]
      /\ \A q \in Rounds : \A m \in roundChanges'[q] : m \in roundChanges[q] \/ ~m.verified
  BY <1>1 DEF Inv, TypeOK, StoreFinite
<1> QED
  BY <1>1, <1>2, ReceiveVoteInv

-----------------------------------------------------------------------------
(* The monitors *)

\* A result of a verification is true of the block of the entry, which keeps its place.
LEMMA CacheVerdictFacts ==
    ASSUME Inv, NEW r \in Rounds, proposal[r] # None, CacheVerdict(r)
    PROVE  /\ Verdict(r) \in {"ok", "err"}
           /\ Proposer[r] # Self /\ Verdict(r) = "ok" => proposal[r].block \in ValidBlocks
           /\ proposal' \in [Rounds -> Proposals \cup {None}]
           /\ \A q \in Rounds : proposal[q] # None =>
                 proposal'[q] # None /\ proposal'[q].block = proposal[q].block
           /\ \A q \in Rounds : proposal[q] = None => proposal'[q] = None
           /\ \A q \in Rounds : proposal'[q] # None /\ Proposer[q] # Self =>
                 /\ proposal'[q].verdict = "ok" => proposal'[q].block \in ValidBlocks
                 /\ proposal'[q].verdict = "err" => proposal'[q].block \notin ValidBlocks
<1> DEFINE p == [proposal[r] EXCEPT !.verdict = Verdict(r)]
<1>1. /\ proposal \in [Rounds -> Proposals \cup {None}] /\ proposal[r] \in Proposals
      /\ None \notin Proposals
  BY StoreAssumption DEF Inv, TypeOK
<1>2. proposal[r].block \in Blocks /\ proposal[r].verdict \in {"unverified", "ok", "err"}
  BY <1>1 DEF Proposals, Verdicts
<1>3. Verdict(r) \in {"ok", "err"}
  BY <1>2 DEF Verdict
<1>4. Proposer[r] # Self => (Verdict(r) = "ok" <=> proposal[r].block \in ValidBlocks)
  BY <1>2 DEF Verdict, Inv, VerdictsTrue
<1>5. \A q \in Rounds : proposal[q] # None /\ Proposer[q] # Self =>
         /\ proposal[q].verdict = "ok" => proposal[q].block \in ValidBlocks
         /\ proposal[q].verdict = "err" => proposal[q].block \notin ValidBlocks
  BY DEF Inv, VerdictsTrue
<1>6. CASE r = 0
  <2>1. proposal' = proposal
    BY <1>6 DEF CacheVerdict
  <2> QED
    BY <1>1, <1>3, <1>4, <1>5, <2>1
<1>7. CASE r # 0
  <2>1. proposal' = [proposal EXCEPT ![r] = p]
    BY <1>7 DEF CacheVerdict
  <2>2. /\ p \in Proposals /\ p.block = proposal[r].block /\ p.verdict = Verdict(r)
    BY <1>1, <1>3 DEF Proposals, Verdicts
  <2> HIDE DEF p
  <2>3. proposal'[r] = p /\ \A q \in Rounds \ {r} : proposal'[q] = proposal[q]
    BY <1>1, <2>1
  <2>4. proposal' \in [Rounds -> Proposals \cup {None}]
    BY <1>1, <2>1, <2>2
  <2>5. p # None
    BY <1>1, <2>2
  <2>6. ASSUME NEW q \in Rounds, proposal'[q] # None, Proposer[q] # Self
        PROVE  /\ proposal'[q].verdict = "ok" => proposal'[q].block \in ValidBlocks
               /\ proposal'[q].verdict = "err" => proposal'[q].block \notin ValidBlocks
    <3>1. CASE q = r
      BY <1>3, <1>4, <2>2, <2>3, <2>6, <3>1
    <3>2. CASE q # r
      BY <1>5, <2>3, <2>6, <3>2
    <3> QED
      BY <3>1, <3>2
  <2> QED
    BY <1>3, <1>4, <2>2, <2>3, <2>4, <2>5, <2>6
<1> QED
  BY <1>6, <1>7

\* Verifying the proposal of a later round changes nothing the round task relies on.
LEMMA MonitorProposalInv ==
    ASSUME Inv, NEW r \in Rounds, MonitorProposal(r)
    PROVE  Inv'
<1>1. /\ r > round /\ proposal[r] # None /\ CacheVerdict(r)
      /\ futureRound' \in {r, None}
      /\ UNCHANGED <<prepares, commits, roundChanges, taskVars, runs, status, round, latest,
                     finalized, sent, received>>
  BY DEF MonitorProposal
<1>2. UNCHANGED <<phase, point, digest, count, pending, other>>
  BY <1>1 DEF taskVars
<1>3. /\ proposal' \in [Rounds -> Proposals \cup {None}]
      /\ \A q \in Rounds : proposal[q] # None =>
            proposal'[q] # None /\ proposal'[q].block = proposal[q].block
      /\ \A q \in Rounds : proposal[q] = None => proposal'[q] = None
      /\ \A q \in Rounds : proposal'[q] # None /\ Proposer[q] # Self =>
            /\ proposal'[q].verdict = "ok" => proposal'[q].block \in ValidBlocks
            /\ proposal'[q].verdict = "err" => proposal'[q].block \notin ValidBlocks
  BY <1>1, CacheVerdictFacts
<1>4. TypeOK' /\ StoreFinite'
  BY <1>1, <1>2, <1>3 DEF Inv, TypeOK, StoreFinite
<1>5. LoopOrdered'
  BY <1>1 DEF Inv, LoopOrdered
<1>6. Announced' /\ ProposalNoticed' /\ LagOnly'
  BY <1>1, <1>2, <1>3 DEF Inv, LoopOrdered, Announced, ProposalNoticed, NeverPanics, LagOnly,
                          Lagged
<1>7. VerdictsTrue'
  BY <1>1, <1>3 DEF Inv, VerdictsTrue
<1>8. \A q \in Rounds : prepares[q] \subseteq prepares'[q]
  BY <1>1
<1> QED
  BY <1>1, <1>2, <1>3, <1>4, <1>5, <1>6, <1>7, <1>8, StoreGrowsInv

\* A retain of the round changes of round r keeps the invariant of the store.
LEMMA RetainFacts ==
    ASSUME Inv, NEW r \in Rounds, NEW S \in {Verified(r), {}},
           roundChanges' = [roundChanges EXCEPT ![r] = S]
    PROVE  /\ roundChanges' \in [Rounds -> SUBSET RoundChanges]
           /\ \A q \in Rounds : IsFiniteSet(roundChanges'[q])
           /\ \A q \in Rounds : \A m \in roundChanges'[q] :
                 m.verified /\ m.from # Self => m.pc \in ValidBlocks \cup {NoBlock}
<1>1. /\ Verified(r) \in SUBSET RoundChanges
      /\ IsFiniteSet(Verified(r))
      /\ \A m \in Verified(r) : m.from # Self => m.pc \in ValidBlocks \cup {NoBlock}
  BY VerifiedType DEF Inv
<1>2. /\ S \in SUBSET RoundChanges /\ IsFiniteSet(S)
      /\ \A m \in S : m.from # Self => m.pc \in ValidBlocks \cup {NoBlock}
  BY <1>1, FS_EmptySet
<1>3. /\ roundChanges \in [Rounds -> SUBSET RoundChanges]
      /\ \A q \in Rounds : IsFiniteSet(roundChanges[q])
      /\ \A q \in Rounds : \A m \in roundChanges[q] :
            m.verified /\ m.from # Self => m.pc \in ValidBlocks \cup {NoBlock}
  BY DEF Inv, TypeOK, StoreFinite, VerdictsTrue
<1>4. roundChanges'[r] = S /\ \A q \in Rounds \ {r} : roundChanges'[q] = roundChanges[q]
  BY <1>3
<1>5. roundChanges' \in [Rounds -> SUBSET RoundChanges]
  BY <1>2, <1>3
<1> QED
  BY <1>2, <1>3, <1>4, <1>5

\* Nor does verifying its round changes.
LEMMA MonitorRoundChangesInv ==
    ASSUME Inv, NEW r \in Rounds, MonitorRoundChanges(r)
    PROVE  Inv'
<1>1. /\ r > round /\ roundChanges' = [roundChanges EXCEPT ![r] = Verified(r)]
      /\ futureRound' \in {r, None}
      /\ UNCHANGED <<proposal, prepares, commits, taskVars, runs, status, round, latest,
                     finalized, sent, received>>
  BY DEF MonitorRoundChanges
<1>2. UNCHANGED <<phase, point, digest, count, pending, other>>
  BY <1>1 DEF taskVars
<1>3. /\ roundChanges' \in [Rounds -> SUBSET RoundChanges]
      /\ \A q \in Rounds : IsFiniteSet(roundChanges'[q])
      /\ \A q \in Rounds : \A m \in roundChanges'[q] :
            m.verified /\ m.from # Self => m.pc \in ValidBlocks \cup {NoBlock}
  BY <1>1, RetainFacts
<1>4. TypeOK' /\ StoreFinite'
  BY <1>1, <1>2, <1>3 DEF Inv, TypeOK, StoreFinite
<1>5. LoopOrdered' /\ Announced' /\ ProposalNoticed' /\ LagOnly'
  BY <1>1, <1>2 DEF Inv, LoopOrdered, Announced, ProposalNoticed, NeverPanics, LagOnly,
                    Lagged
<1>6. VerdictsTrue'
  BY <1>1, <1>3 DEF Inv, VerdictsTrue
<1>7. \A q \in Rounds : prepares[q] \subseteq prepares'[q]
  BY <1>1
<1> QED
  BY <1>1, <1>2, <1>4, <1>5, <1>6, <1>7, StoreGrowsInv

-----------------------------------------------------------------------------
(* The round task *)

\* A subscription starts with no announcement, before the store is looked at.
LEMMA SubscribeInv ==
    ASSUME Inv, Subscribe
    PROVE  Inv'
<1>1. /\ point' = "count" /\ pending' = 0 /\ other' = 0
      /\ UNCHANGED <<phase, digest, count, proposal, prepares, commits, roundChanges, runs,
                     status, round, latest, futureRound, finalized, sent, received>>
  BY DEF Subscribe, storeVars, loopVars
<1>2. TypeOK' /\ StoreFinite'
  BY <1>1 DEF Inv, TypeOK, StoreFinite, Points
<1>3. LoopOrdered' /\ Announced' /\ ProposalNoticed' /\ VerdictsTrue' /\ LagOnly'
  BY <1>1 DEF Inv, LoopOrdered, Announced, ProposalNoticed, VerdictsTrue, LagOnly
<1> QED
  BY <1>1, <1>2, <1>3, StoreGrowsInv

\* An announcement of the proposal is received with the proposal in the store.
LEMMA ReceiveInv ==
    ASSUME Inv, Receive
    PROVE  Inv'
<1>1. /\ status = "running" /\ point = "wait" /\ pending > 0 /\ pending' = pending - 1
      /\ count' = count + 1
      /\ point' \in {"recount", "wait"} /\ (phase = "proposal" => point' = "recount")
      /\ UNCHANGED <<phase, digest, other, proposal, prepares, commits, roundChanges, runs, status,
                     round, latest, futureRound, finalized, sent, received>>
  BY DEF Receive, Polled, storeVars, loopVars
<1>2. pending' \in Nat /\ count' \in Nat
  BY <1>1 DEF Inv, TypeOK
<1>3. TypeOK' /\ StoreFinite'
  BY <1>1, <1>2 DEF Inv, TypeOK, StoreFinite, Points
<1>4. LoopOrdered' /\ Announced' /\ ProposalNoticed' /\ VerdictsTrue' /\ LagOnly'
  BY <1>1 DEF Inv, LoopOrdered, Announced, ProposalNoticed, VerdictsTrue, LagOnly
<1> QED
  BY <1>1, <1>3, <1>4, StoreGrowsInv

\* An announcement for another view leaves the task waiting.
LEMMA ReceiveOtherInv ==
    ASSUME Inv, ReceiveOther
    PROVE  Inv'
<1>1. /\ point = "wait" /\ other > 0 /\ other' = other - 1
      /\ UNCHANGED <<phase, point, digest, count, pending, proposal, prepares, commits,
                     roundChanges, runs, status, round, latest, futureRound, finalized, sent,
                     received>>
  BY DEF ReceiveOther, storeVars, loopVars
<1>2. other' \in Nat
  BY <1>1 DEF Inv, TypeOK
<1>3. TypeOK' /\ StoreFinite'
  BY <1>1, <1>2 DEF Inv, TypeOK, StoreFinite
<1>4. LoopOrdered' /\ Announced' /\ ProposalNoticed' /\ VerdictsTrue' /\ LagOnly'
  BY <1>1 DEF Inv, LoopOrdered, Announced, ProposalNoticed, VerdictsTrue, LagOnly
<1> QED
  BY <1>1, <1>3, <1>4, StoreGrowsInv

\* The task panics on a channel that has lagged.
LEMMA ReceiveLaggedInv ==
    ASSUME Inv, ReceiveLagged
    PROVE  Inv'
<1>1. /\ point = "wait" /\ Lagged /\ point' = "panicked"
      /\ UNCHANGED <<phase, digest, count, pending, other, proposal, prepares, commits,
                     roundChanges, runs, status, round, latest, futureRound, finalized, sent,
                     received>>
  BY DEF ReceiveLagged, TaskPanic, storeVars, loopVars
<1>2. TypeOK' /\ StoreFinite'
  BY <1>1 DEF Inv, TypeOK, StoreFinite, Points
<1>3. LoopOrdered' /\ Announced' /\ ProposalNoticed' /\ VerdictsTrue' /\ LagOnly'
  BY <1>1 DEF Inv, LoopOrdered, Announced, ProposalNoticed, VerdictsTrue, LagOnly, Lagged
<1> QED
  BY <1>1, <1>2, <1>3, StoreGrowsInv

\* A step to a control point that relies on nothing more: the task fails, enters
\* run_commit or has finished.
LEMMA LeaveInv ==
    ASSUME Inv, status = "running",
           \/ phase \in {"build", "round_change", "proposal"} /\ phase' = "failed"
           \/ phase \in {"committing", "commit"} /\ phase' \in {"commit", "finished"},
           point' \in Points, count' \in Nat, pending' \in Nat,
           TypeOK', StoreFinite', VerdictsTrue', LagOnly',
           UNCHANGED <<digest, prepares, runs, status, round, latest, futureRound, finalized,
                       sent, received>>,
           \A q \in Rounds : proposal[q] # None =>
               proposal'[q] # None /\ proposal'[q].block = proposal[q].block,
           \A q \in Rounds : proposal[q] = None => proposal'[q] = None
    PROVE  Inv'
<1>1. round \in Rounds
  BY DEF Inv, LoopOrdered
<1>2. LoopOrdered' /\ TaskInRole' /\ Announced' /\ ProposalNoticed'
  BY DEF Inv, LoopOrdered, TaskInRole, Announced, ProposalNoticed
<1>3. OwnSent'
  BY DEF Inv, OwnSent
<1>4. TaskBacked'
  BY <1>1 DEF Inv, TaskBacked, Reproposed, Held
<1>5. NeverPanics' /\ SealsMatchBlock' /\ VotesOnce' /\ CommitSent' /\ CertificatesEarned'
  BY DEF Inv, NeverPanics, SealsMatchBlock, VotesOnce, CommitSent, CertificatesEarned,
         Reproposed
<1>6. SentInOrder'
  <2>1. CASE phase' = "failed"
    BY <2>1 DEF Inv, SentInOrder
  <2>2. CASE phase' # "failed"
    BY <2>2 DEF Inv, SentInOrder
  <2> QED
    BY <2>1, <2>2
<1> QED
  BY <1>2, <1>3, <1>4, <1>5, <1>6 DEF Inv

\* A step that broadcasts a proposal or a vote keeps the invariant if it leaves the
\* proposal, and after run_prepare the prepares, that the next control point relies on.
LEMMA SendInv ==
    ASSUME Inv, status = "running",
           NEW m \in [kind : {"proposal", "prepare", "commit"}, round : Rounds, block : Blocks],
           m.round = round, sent' = sent \cup {m},
           \/ /\ phase \in {"build", "round_change", "proposal"} /\ phase' = "prepare"
              /\ m.kind \in {"proposal", "prepare"}
           \/ phase = "prepare" /\ phase' = "committing" /\ m.kind = "commit",
           digest' = m.block, point' = "subscribe",
           TypeOK', StoreFinite', VerdictsTrue', OwnSent',
           UNCHANGED <<runs, status, round, latest, futureRound, finalized, received>>,
           ~Reproposed' => proposal'[round] # None /\ proposal'[round].block = digest',
           phase' = "committing" => Cardinality(Held') >= Quorum - 1
    PROVE  Inv'
<1>1. round \in Rounds
  BY DEF Inv, LoopOrdered
<1>2. LoopOrdered' /\ TaskInRole' /\ Announced' /\ ProposalNoticed'
  BY DEF Inv, LoopOrdered, TaskInRole, Announced, ProposalNoticed
<1>4. TaskBacked'
  BY DEF TaskBacked
<1>5. NeverPanics' /\ SealsMatchBlock' /\ CertificatesEarned'
  BY DEF Inv, LoopOrdered, NeverPanics, LagOnly, SealsMatchBlock, CertificatesEarned
<1>6. ASSUME runs = 1, NEW n \in sent
      PROVE  n.round < round \/ (n.round = round /\ phase = "prepare" /\ n.kind # "commit")
  BY <1>6 DEF Inv, SentInOrder
<1>7. SentInOrder'
  <2> SUFFICES ASSUME runs = 1, NEW n \in sent \cup {m}
               PROVE  \/ n.round < round
                      \/ n.round = round /\ (n.kind = "commit" => phase' = "committing")
    BY DEF SentInOrder
  <2>1. CASE n = m
    BY <2>1
  <2>2. CASE n \in sent
    BY <1>6, <2>2
  <2> QED
    BY <2>1, <2>2
<1>8. VotesOnce'
  <2> SUFFICES ASSUME runs = 1, NEW n \in sent \cup {m}, NEW k \in sent \cup {m},
                      n.kind = k.kind, n.round = k.round
               PROVE  n = k
    BY DEF VotesOnce
  <2>1. ASSUME NEW x \in sent, x.round = m.round, x.kind = m.kind
        PROVE  FALSE
    <3>1. round \in Nat
      BY <1>1 DEF Rounds
    <3> QED
      BY <1>6, <2>1, <3>1
  <2>2. CASE n \in sent /\ k \in sent
    BY <2>2 DEF Inv, VotesOnce
  <2> QED
    BY <2>1, <2>2
<1>9. CommitSent'
  <2>1. m.kind = "commit" => m = [kind |-> "commit", round |-> round, block |-> digest']
    OBVIOUS
  <2> QED
    BY <2>1 DEF CommitSent
<1> QED
  BY <1>2, <1>4, <1>5, <1>7, <1>8, <1>9 DEF Inv

\* The proposer's entry holds what is broadcast, or another block that was broadcast in an
\* earlier run.
LEMMA ProposeInv ==
    ASSUME Inv, status = "running", phase \in {"build", "round_change"},
           NEW b \in Blocks, Propose(b),
           roundChanges' \in [Rounds -> SUBSET RoundChanges],
           \A q \in Rounds : IsFiniteSet(roundChanges'[q]),
           \A q \in Rounds : \A m \in roundChanges'[q] :
              m.verified /\ m.from # Self => m.pc \in ValidBlocks \cup {NoBlock},
           UNCHANGED <<prepares, commits, loopVars, received>>
    PROVE  Inv'
<1> DEFINE m == [kind |-> "proposal", round |-> round, block |-> b]
           p == [block |-> b, verdict |-> "ok"]
<1>1. /\ round \in Rounds /\ Proposer[round] = Self
      /\ proposal \in [Rounds -> Proposals \cup {None}]
      /\ None \notin Proposals
  BY StoreAssumption DEF Inv, LoopOrdered, TaskInRole, TypeOK
<1>2. /\ m \in [kind : {"proposal", "prepare", "commit"}, round : Rounds, block : Blocks]
      /\ m.round = round /\ m.kind = "proposal" /\ m.block = b
  BY <1>1
<1>3. p \in Proposals /\ p.block = b /\ p # None
  BY <1>1 DEF Proposals, Verdicts
<1>4. sent' = sent \cup {m}
  BY DEF Propose
<1>5. proposal' = [proposal EXCEPT ![round] = IF @ = None THEN p ELSE @]
  BY DEF Propose
<1>6. /\ digest' = b /\ phase' = "prepare" /\ point' = "subscribe" /\ count' = 0 /\ pending' = 0 /\ other' = 0
      /\ UNCHANGED <<runs, status, round, latest, futureRound, finalized, received>>
  BY DEF Propose, Enter, loopVars
<1> HIDE DEF m, p
<1>7. /\ proposal' \in [Rounds -> Proposals \cup {None}]
      /\ \A q \in Rounds \ {round} : proposal'[q] = proposal[q]
      /\ proposal[round] = None => proposal'[round] = p
  BY <1>1, <1>3, <1>5
<1>8. ~Reproposed' => proposal'[round] # None /\ proposal'[round].block = b
  <2>1. CASE proposal[round] = None
    BY <1>3, <1>7, <2>1
  <2>2. CASE proposal[round] # None
    <3> DEFINE n == [kind |-> "proposal", round |-> round, block |-> proposal[round].block]
    <3>1. n \in sent
      BY <1>1, <2>2 DEF Inv, OwnSent
    <3>2. n.kind = "proposal" /\ n.round = round /\ n.block = proposal[round].block
      OBVIOUS
    <3> HIDE DEF n
    <3>3. proposal'[round] = proposal[round]
      BY <1>1, <1>5, <2>2
    <3>4. ~Reproposed' => n.block = m.block
      BY <1>2, <1>4, <1>6, <3>1, <3>2 DEF Reproposed
    <3> QED
      BY <1>2, <2>2, <3>2, <3>3, <3>4
  <2> QED
    BY <2>1, <2>2
<1>9. TypeOK'
  <2>1. sent' \subseteq
           [kind : {"proposal", "prepare", "commit"}, round : Rounds, block : Blocks]
    BY <1>2, <1>4 DEF Inv, TypeOK
  <2> QED
    BY <1>6, <1>7, <2>1 DEF Inv, TypeOK, Phases, Points
<1>10. StoreFinite'
  BY DEF Inv, StoreFinite
<1>11. VerdictsTrue'
  <2>1. \A q \in Rounds : Proposer[q] # Self => proposal'[q] = proposal[q]
    BY <1>1, <1>7
  <2>2. \A n \in sent' : n.kind = "prepare" => n.block \in ValidBlocks
    BY <1>2, <1>4 DEF Inv, VerdictsTrue
  <2> QED
    BY <2>1, <2>2 DEF Inv, VerdictsTrue
<1>12. OwnSent'
  <2> SUFFICES ASSUME NEW q \in Rounds, Proposer[q] = Self, proposal'[q] # None
               PROVE  [kind |-> "proposal", round |-> q, block |-> proposal'[q].block] \in sent'
    BY DEF OwnSent
  <2>1. CASE q = round /\ proposal[round] = None
    BY <1>3, <1>4, <1>7, <2>1 DEF m
  <2>2. CASE ~(q = round /\ proposal[round] = None)
    <3>1. proposal'[q] = proposal[q]
      BY <1>1, <1>5, <1>7, <2>2
    <3> QED
      BY <1>4, <3>1 DEF Inv, OwnSent
  <2> QED
    BY <2>1, <2>2
<1> QED
  BY <1>2, <1>4, <1>6, <1>8, <1>9, <1>10, <1>11, <1>12, SendInv

\* run_proposal_0 of the proposer.
LEMMA BuildProposalInv ==
    ASSUME Inv, BuildProposal
    PROVE  Inv'
<1>1. /\ status = "running" /\ phase = "build"
      /\ UNCHANGED <<prepares, commits, roundChanges, loopVars, received>>
  BY DEF BuildProposal, Polled
<1>2. PICK b \in Built : IF b = NoBlock
                         THEN Fail /\ UNCHANGED <<sent, proposal>>
                         ELSE Propose(b)
  BY DEF BuildProposal
<1>3. /\ roundChanges \in [Rounds -> SUBSET RoundChanges]
      /\ \A q \in Rounds : IsFiniteSet(roundChanges[q])
      /\ \A q \in Rounds : \A m \in roundChanges[q] :
            m.verified /\ m.from # Self => m.pc \in ValidBlocks \cup {NoBlock}
  BY DEF Inv, TypeOK, StoreFinite, VerdictsTrue
<1>4. CASE b = NoBlock
  <2>1. /\ phase' = "failed"
        /\ UNCHANGED <<point, digest, count, pending, other, sent, proposal, prepares, commits,
                       roundChanges, runs, status, round, latest, futureRound, finalized,
                       received>>
    BY <1>1, <1>2, <1>4 DEF Fail, loopVars
  <2>2. TypeOK' /\ StoreFinite' /\ VerdictsTrue' /\ LagOnly'
    BY <2>1 DEF Inv, TypeOK, StoreFinite, VerdictsTrue, Phases, NeverPanics, LagOnly, Lagged
  <2>3. point' \in Points /\ count' \in Nat /\ pending' \in Nat
    BY <2>2 DEF TypeOK
  <2> QED
    BY <1>1, <2>1, <2>2, <2>3, LeaveInv
<1>5. CASE b # NoBlock
  <2>1. b \in Blocks /\ Propose(b)
    BY <1>2, <1>5, StoreAssumption
  <2>2. roundChanges' = roundChanges
    BY <1>1
  <2> QED
    BY <1>1, <1>3, <2>1, <2>2, ProposeInv
<1> QED
  BY <1>4, <1>5

\* A loop that has counted too few waits, with the store as its retain left it.
LEMMA AwaitInv ==
    ASSUME Inv, status = "running", NEW n \in Nat, Await(n), phase # "proposal",
           phase \notin {"committing", "commit", "finished"} \/ UNCHANGED prepares,
           prepares' \in [Rounds -> SUBSET Votes],
           commits' \in [Rounds -> SUBSET Votes],
           roundChanges' \in [Rounds -> SUBSET RoundChanges],
           StoreFinite',
           \A q \in Rounds : \A m \in roundChanges'[q] :
              m.verified /\ m.from # Self => m.pc \in ValidBlocks \cup {NoBlock},
           UNCHANGED <<proposal, loopVars, sent, received>>
    PROVE  Inv'
<1>1. /\ point' = "wait" /\ count' = n
      /\ UNCHANGED <<phase, digest, pending, other, runs, status, round, latest, futureRound,
                     finalized>>
  BY DEF Await, loopVars
<1>2. TypeOK'
  BY <1>1 DEF Inv, TypeOK, Points
<1>3. LoopOrdered' /\ Announced' /\ ProposalNoticed' /\ VerdictsTrue' /\ LagOnly'
  BY <1>1 DEF Inv, LoopOrdered, Announced, ProposalNoticed, VerdictsTrue, LagOnly
<1>4. phase \in {"committing", "commit", "finished"} =>
         \A q \in Rounds : prepares[q] \subseteq prepares'[q]
  OBVIOUS
<1> QED
  BY <1>1, <1>2, <1>3, <1>4, StoreGrowsInv

\* run_proposal_0 and run_proposal_1 of the other nodes: the second query finds the
\* announced proposal, and a prepare is sent only for a valid one.
LEMMA GetProposalInv ==
    ASSUME Inv, GetProposal
    PROVE  Inv'
<1>1. /\ status = "running" /\ phase = "proposal" /\ point \in {"count", "recount"}
      /\ UNCHANGED <<commits, roundChanges, runs, status, round, latest, futureRound,
                     finalized, received>>
  BY DEF GetProposal, Polled, loopVars
<1>2. round \in Rounds /\ Proposer[round] # Self
  BY <1>1 DEF Inv, LoopOrdered, TaskInRole
<1>3. CASE proposal[round] = None
  <2>1. point = "count"
    BY <1>1, <1>3 DEF Inv, Announced
  <2>2. /\ point' = "wait" /\ count' = 0
        /\ UNCHANGED <<phase, digest, pending, other, proposal, prepares, sent>>
    BY <1>3, <2>1 DEF GetProposal, Await
  <2>3. TypeOK' /\ StoreFinite'
    BY <1>1, <2>2 DEF Inv, TypeOK, StoreFinite, Points
  <2>4. LoopOrdered' /\ Announced' /\ ProposalNoticed' /\ VerdictsTrue' /\ LagOnly'
    BY <1>1, <1>3, <2>2 DEF Inv, LoopOrdered, Announced, ProposalNoticed, VerdictsTrue,
                            LagOnly
  <2>5. \A q \in Rounds : prepares[q] \subseteq prepares'[q]
    BY <2>2
  <2> QED
    BY <1>1, <2>2, <2>3, <2>4, <2>5, StoreGrowsInv
<1>4. CASE proposal[round] # None
  <2>1. CacheVerdict(round)
    BY <1>4 DEF GetProposal
  <2>2. /\ Verdict(round) = "ok" => proposal[round].block \in ValidBlocks
        /\ proposal' \in [Rounds -> Proposals \cup {None}]
        /\ \A q \in Rounds : proposal[q] # None =>
              proposal'[q] # None /\ proposal'[q].block = proposal[q].block
        /\ \A q \in Rounds : proposal[q] = None => proposal'[q] = None
        /\ \A q \in Rounds : proposal'[q] # None /\ Proposer[q] # Self =>
              /\ proposal'[q].verdict = "ok" => proposal'[q].block \in ValidBlocks
              /\ proposal'[q].verdict = "err" => proposal'[q].block \notin ValidBlocks
    BY <1>2, <1>4, <2>1, CacheVerdictFacts
  <2>3. CASE Verdict(round) = "ok"
    <3> DEFINE b == proposal[round].block
               m == [kind |-> "prepare", round |-> round, block |-> b]
    <3>1. /\ digest' = b /\ sent' = sent \cup {m} /\ prepares' = AddOwn(prepares, b)
          /\ phase' = "prepare" /\ point' = "subscribe" /\ count' = 0 /\ pending' = 0 /\ other' = 0
      BY <1>4, <2>3 DEF GetProposal, Enter
    <3>2. b \in ValidBlocks /\ b \in Blocks
      BY <2>2, <2>3, StoreAssumption
    <3>3. proposal'[round] # None /\ proposal'[round].block = b
      BY <1>2, <1>4, <2>2
    <3>4. /\ m \in [kind : {"proposal", "prepare", "commit"}, round : Rounds, block : Blocks]
          /\ m.round = round /\ m.kind = "prepare" /\ m.block = b
      BY <1>2, <3>2
    <3> HIDE DEF b, m
    <3>5. /\ prepares \in [Rounds -> SUBSET Votes]
          /\ \A q \in Rounds : IsFiniteSet(prepares[q])
      BY DEF Inv, TypeOK, StoreFinite
    <3>6. /\ prepares' \in [Rounds -> SUBSET Votes]
          /\ \A q \in Rounds : IsFiniteSet(prepares'[q])
      BY <1>2, <3>1, <3>2, <3>5, AddOwnType
    <3>7. TypeOK'
      <4>1. sent' \subseteq
               [kind : {"proposal", "prepare", "commit"}, round : Rounds, block : Blocks]
        BY <3>1, <3>4 DEF Inv, TypeOK
      <4> QED
        BY <1>1, <2>2, <3>1, <3>2, <3>6, <4>1 DEF Inv, TypeOK, Phases, Points
    <3>8. StoreFinite'
      BY <1>1, <3>6 DEF Inv, StoreFinite
    <3>9. VerdictsTrue'
      <4>1. \A n \in sent' : n.kind = "prepare" => n.block \in ValidBlocks
        BY <3>1, <3>2, <3>4 DEF Inv, VerdictsTrue
      <4> QED
        BY <1>1, <2>2, <4>1 DEF Inv, VerdictsTrue
    <3>10. OwnSent'
      BY <2>2, <3>1 DEF Inv, OwnSent
    <3> QED
      BY <1>1, <2>2, <3>1, <3>3, <3>4, <3>7, <3>8, <3>9, <3>10, SendInv
  <2>4. CASE Verdict(round) # "ok"
    <3>1. phase' = "failed" /\ UNCHANGED <<point, digest, count, pending, other, prepares, sent>>
      BY <1>4, <2>4 DEF GetProposal, Fail
    <3>2. TypeOK' /\ StoreFinite'
      BY <1>1, <2>2, <3>1 DEF Inv, TypeOK, StoreFinite, Phases
    <3>3. VerdictsTrue' /\ LagOnly'
      BY <1>1, <2>2, <3>1 DEF Inv, VerdictsTrue, NeverPanics, LagOnly, Lagged
    <3>4. point' \in Points /\ count' \in Nat /\ pending' \in Nat
      BY <3>2 DEF TypeOK
    <3> QED
      BY <1>1, <2>2, <3>1, <3>2, <3>3, <3>4, LeaveInv
  <2> QED
    BY <2>3, <2>4
<1> QED
  BY <1>3, <1>4

\* run_prepare keeps the prepares it has counted, so a commit is backed by them.
LEMMA CountPreparesInv ==
    ASSUME Inv, CountPrepares
    PROVE  Inv'
<1> DEFINE valid == ForDigest(prepares[round])
<1>1. /\ status = "running" /\ phase = "prepare"
      /\ prepares' = [prepares EXCEPT ![round] = valid]
      /\ UNCHANGED <<proposal, roundChanges, loopVars, received>>
      /\ UNCHANGED <<runs, status, round, latest, futureRound, finalized>>
  BY DEF CountPrepares, Counting, Polled, loopVars
<1>2. /\ round \in Rounds /\ digest \in Blocks
      /\ prepares \in [Rounds -> SUBSET Votes] /\ commits \in [Rounds -> SUBSET Votes]
      /\ roundChanges \in [Rounds -> SUBSET RoundChanges]
      /\ \A q \in Rounds : IsFiniteSet(prepares[q]) /\ IsFiniteSet(commits[q])
  BY <1>1 DEF Inv, LoopOrdered, TaskInRole, TypeOK, StoreFinite
<1>3. valid \in SUBSET prepares[round] /\ IsFiniteSet(valid) /\ Cardinality(valid) \in Nat
  BY <1>2, ForDigestType
<1>4. \A v \in valid : v.block = digest
  BY DEF ForDigest
<1>5. CASE Cardinality(valid) >= Quorum - 1
  <2> DEFINE m == [kind |-> "commit", round |-> round, block |-> digest]
  <2>1. /\ sent' = sent \cup {m} /\ commits' = AddOwn(commits, digest) /\ digest' = digest
        /\ phase' = "committing" /\ point' = "subscribe" /\ count' = 0 /\ pending' = 0 /\ other' = 0
    BY <1>5 DEF CountPrepares, Enter
  <2>2. /\ m \in [kind : {"proposal", "prepare", "commit"}, round : Rounds, block : Blocks]
        /\ m.round = round /\ m.kind = "commit" /\ m.block = digest
    BY <1>2
  <2> HIDE DEF m, valid
  <2>3. /\ commits' \in [Rounds -> SUBSET Votes]
        /\ \A q \in Rounds : IsFiniteSet(commits'[q])
    BY <1>2, <2>1, AddOwnType
  <2>4. /\ prepares' \in [Rounds -> SUBSET Votes] /\ prepares'[round] = valid
        /\ \A q \in Rounds : IsFiniteSet(prepares'[q])
    BY <1>1, <1>2, <1>3
  <2>5. TypeOK'
    <3>1. sent' \subseteq
             [kind : {"proposal", "prepare", "commit"}, round : Rounds, block : Blocks]
      BY <2>1, <2>2 DEF Inv, TypeOK
    <3> QED
      BY <1>1, <1>2, <2>1, <2>3, <2>4, <3>1 DEF Inv, TypeOK, Phases, Points
  <2>6. StoreFinite'
    BY <1>1, <2>3, <2>4 DEF Inv, StoreFinite
  <2>7. VerdictsTrue'
    <3>1. \A n \in sent' : n.kind = "prepare" => n.block \in ValidBlocks
      BY <2>1, <2>2 DEF Inv, VerdictsTrue
    <3> QED
      BY <1>1, <3>1 DEF Inv, VerdictsTrue
  <2>8. Cardinality(Held') >= Quorum - 1
    <3>1. Held' = valid
      BY <1>1, <1>4, <2>1, <2>4 DEF Held
    <3> QED
      BY <1>5, <3>1
  <2>9. ~Reproposed' => proposal'[round] # None /\ proposal'[round].block = digest'
    BY <1>1, <2>1, ReproposedStays DEF Inv, TaskBacked
  <2>10. OwnSent'
    BY <1>1, <2>1 DEF Inv, OwnSent
  <2> QED
    BY <1>1, <2>1, <2>2, <2>5, <2>6, <2>7, <2>8, <2>9, <2>10, SendInv
<1>6. CASE ~(Cardinality(valid) >= Quorum - 1)
  <2>1. Await(Cardinality(valid)) /\ UNCHANGED <<sent, commits>>
    BY <1>6 DEF CountPrepares
  <2> HIDE DEF valid
  <2>2. /\ prepares' \in [Rounds -> SUBSET Votes]
        /\ \A q \in Rounds : IsFiniteSet(prepares'[q])
    BY <1>1, <1>2, <1>3
  <2>3. StoreFinite' /\ roundChanges' = roundChanges /\ commits' = commits
    BY <1>1, <2>1, <2>2 DEF Inv, StoreFinite
  <2>4. \A q \in Rounds : \A m \in roundChanges[q] :
           m.verified /\ m.from # Self => m.pc \in ValidBlocks \cup {NoBlock}
    BY DEF Inv, VerdictsTrue
  <2> QED
    BY <1>1, <1>2, <1>3, <2>1, <2>2, <2>3, <2>4, AwaitInv
<1> QED
  BY <1>5, <1>6

\* The task enters run_commit.
LEMMA EnterCommitInv ==
    ASSUME Inv, EnterCommit
    PROVE  Inv'
<1>1. /\ status = "running" /\ phase = "committing" /\ phase' = "commit"
      /\ point' = "subscribe" /\ count' = 0 /\ pending' = 0 /\ other' = 0
      /\ UNCHANGED <<digest, proposal, prepares, commits, roundChanges, runs, status, round,
                     latest, futureRound, finalized, sent, received>>
  BY DEF EnterCommit, Polled, Enter, storeVars, loopVars
<1>2. TypeOK' /\ StoreFinite' /\ VerdictsTrue' /\ LagOnly'
  BY <1>1 DEF Inv, TypeOK, StoreFinite, VerdictsTrue, LagOnly, Phases, Points
<1>3. point' \in Points /\ count' \in Nat /\ pending' \in Nat
  BY <1>2 DEF TypeOK
<1> QED
  BY <1>1, <1>2, <1>3, LeaveInv

\* run_commit takes the commits of its round and nothing else.
LEMMA CountCommitsInv ==
    ASSUME Inv, CountCommits
    PROVE  Inv'
<1> DEFINE valid == ForDigest(commits[round])
<1>1. /\ status = "running" /\ phase = "commit"
      /\ UNCHANGED <<proposal, prepares, roundChanges, loopVars, sent, received>>
      /\ UNCHANGED <<runs, status, round, latest, futureRound, finalized>>
  BY DEF CountCommits, Counting, Polled, loopVars
<1>2. /\ round \in Rounds
      /\ prepares \in [Rounds -> SUBSET Votes] /\ commits \in [Rounds -> SUBSET Votes]
      /\ roundChanges \in [Rounds -> SUBSET RoundChanges]
      /\ \A q \in Rounds : IsFiniteSet(commits[q])
  BY <1>1 DEF Inv, LoopOrdered, TypeOK, StoreFinite
<1>3. valid \in SUBSET commits[round] /\ IsFiniteSet(valid) /\ Cardinality(valid) \in Nat
  BY <1>2, ForDigestType
<1>4. ASSUME NEW S \in {valid, {}}, commits' = [commits EXCEPT ![round] = S]
      PROVE  commits' \in [Rounds -> SUBSET Votes] /\ StoreFinite'
  <2>1. S \in SUBSET Votes /\ IsFiniteSet(S)
    BY <1>2, <1>3, FS_EmptySet
  <2> HIDE DEF valid
  <2>2. /\ commits' \in [Rounds -> SUBSET Votes]
        /\ \A q \in Rounds : IsFiniteSet(commits'[q])
    BY <1>2, <1>4, <2>1
  <2> QED
    BY <1>1, <2>2 DEF Inv, StoreFinite
<1>5. CASE Cardinality(valid) >= Quorum
  <2>1. /\ commits' = [commits EXCEPT ![round] = {}] /\ digest' = digest
        /\ phase' = "finished" /\ point' = "subscribe" /\ count' = 0 /\ pending' = 0 /\ other' = 0
    BY <1>5 DEF CountCommits, Enter
  <2>2. commits' \in [Rounds -> SUBSET Votes] /\ StoreFinite'
    BY <1>4, <2>1
  <2>3. TypeOK' /\ VerdictsTrue' /\ LagOnly'
    BY <1>1, <2>1, <2>2 DEF Inv, TypeOK, VerdictsTrue, LagOnly, Phases, Points
  <2>4. point' \in Points /\ count' \in Nat /\ pending' \in Nat
    BY <2>3 DEF TypeOK
  <2> QED
    BY <1>1, <2>1, <2>2, <2>3, <2>4, LeaveInv
<1>6. CASE ~(Cardinality(valid) >= Quorum)
  <2>1. commits' = [commits EXCEPT ![round] = valid] /\ Await(Cardinality(valid))
    BY <1>6 DEF CountCommits
  <2>2. commits' \in [Rounds -> SUBSET Votes] /\ StoreFinite'
    BY <1>4, <2>1
  <2>3. \A q \in Rounds : \A m \in roundChanges[q] :
           m.verified /\ m.from # Self => m.pc \in ValidBlocks \cup {NoBlock}
    BY DEF Inv, VerdictsTrue
  <2>4. prepares' = prepares /\ roundChanges' = roundChanges
    BY <1>1
  <2> HIDE DEF valid
  <2> QED
    BY <1>1, <1>2, <1>3, <2>1, <2>2, <2>3, <2>4, AwaitInv
<1> QED
  BY <1>5, <1>6

\* wait_rcc waits, fails, or proposes a block.
LEMMA CountRoundChangesInv ==
    ASSUME Inv, CountRoundChanges
    PROVE  Inv'
<1> DEFINE valid == Verified(round)
           certified == {m.pc : m \in valid} \ {NoBlock}
<1>1. /\ status = "running" /\ phase = "round_change"
      /\ UNCHANGED <<prepares, commits, loopVars, received>>
      /\ UNCHANGED <<runs, status, round, latest, futureRound, finalized>>
  BY DEF CountRoundChanges, Counting, Polled, loopVars
<1>2. /\ round \in Rounds
      /\ prepares \in [Rounds -> SUBSET Votes] /\ commits \in [Rounds -> SUBSET Votes]
  BY <1>1 DEF Inv, LoopOrdered, TypeOK
<1>3. valid \in SUBSET RoundChanges /\ Cardinality(valid) \in Nat
  BY <1>2, VerifiedType DEF Inv
<1>4. ASSUME NEW S \in {valid, {}}, roundChanges' = [roundChanges EXCEPT ![round] = S]
      PROVE  /\ roundChanges' \in [Rounds -> SUBSET RoundChanges]
             /\ \A q \in Rounds : IsFiniteSet(roundChanges'[q])
             /\ \A q \in Rounds : \A m \in roundChanges'[q] :
                   m.verified /\ m.from # Self => m.pc \in ValidBlocks \cup {NoBlock}
             /\ StoreFinite'
  <2>1. /\ roundChanges' \in [Rounds -> SUBSET RoundChanges]
        /\ \A q \in Rounds : IsFiniteSet(roundChanges'[q])
        /\ \A q \in Rounds : \A m \in roundChanges'[q] :
              m.verified /\ m.from # Self => m.pc \in ValidBlocks \cup {NoBlock}
    BY <1>2, <1>4, RetainFacts
  <2> QED
    BY <1>1, <2>1 DEF Inv, StoreFinite
<1>5. CASE Cardinality(valid) >= Quorum
  <2>1. roundChanges' = [roundChanges EXCEPT ![round] = {}]
    BY <1>5 DEF CountRoundChanges
  <2>2. /\ roundChanges' \in [Rounds -> SUBSET RoundChanges]
        /\ \A q \in Rounds : IsFiniteSet(roundChanges'[q])
        /\ \A q \in Rounds : \A m \in roundChanges'[q] :
              m.verified /\ m.from # Self => m.pc \in ValidBlocks \cup {NoBlock}
        /\ StoreFinite'
    BY <1>4, <2>1
  <2>3. PICK b \in IF certified # {} THEN certified ELSE Built :
           IF b = NoBlock THEN Fail /\ UNCHANGED <<sent, proposal>> ELSE Propose(b)
    BY <1>5 DEF CountRoundChanges
  <2>4. b \in Blocks \cup {NoBlock}
    <3>1. certified \subseteq Blocks \cup {NoBlock}
      BY <1>3 DEF RoundChanges
    <3> QED
      BY <2>3, <3>1, StoreAssumption
  <2>5. CASE b = NoBlock
    <3>1. /\ phase' = "failed"
          /\ UNCHANGED <<point, digest, count, pending, other, sent, proposal>>
      BY <2>3, <2>5 DEF Fail
    <3>2. TypeOK' /\ VerdictsTrue' /\ LagOnly'
      BY <1>1, <2>2, <3>1 DEF Inv, TypeOK, VerdictsTrue, Phases, NeverPanics, LagOnly, Lagged
    <3>3. point' \in Points /\ count' \in Nat /\ pending' \in Nat
      BY <3>2 DEF TypeOK
    <3> QED
      BY <1>1, <2>2, <3>1, <3>2, <3>3, LeaveInv
  <2>6. CASE b # NoBlock
    <3>1. b \in Blocks /\ Propose(b)
      BY <2>3, <2>4, <2>6
    <3> QED
      BY <1>1, <2>2, <3>1, ProposeInv
  <2> QED
    BY <2>5, <2>6
<1>6. CASE ~(Cardinality(valid) >= Quorum)
  <2>1. /\ roundChanges' = [roundChanges EXCEPT ![round] = valid]
        /\ Await(Cardinality(valid)) /\ UNCHANGED <<sent, proposal>>
    BY <1>6 DEF CountRoundChanges
  <2>2. /\ roundChanges' \in [Rounds -> SUBSET RoundChanges]
        /\ \A q \in Rounds : \A m \in roundChanges'[q] :
              m.verified /\ m.from # Self => m.pc \in ValidBlocks \cup {NoBlock}
        /\ StoreFinite'
    BY <1>4, <2>1
  <2>3. prepares' = prepares /\ commits' = commits
    BY <1>1
  <2> HIDE DEF valid
  <2> QED
    BY <1>1, <1>2, <1>3, <2>1, <2>2, <2>3, AwaitInv
<1> QED
  BY <1>5, <1>6

-----------------------------------------------------------------------------
(* The results *)

\* The invariant does not speak of anything but the variables.
LEMMA StutterInv ==
    ASSUME Inv, UNCHANGED vars
    PROVE  Inv'
<1>1. UNCHANGED <<proposal, prepares, commits, roundChanges, phase, point, digest, count,
                  pending, other, runs, status, round, latest, futureRound, finalized, sent,
                  received>>
  BY DEF vars, storeVars, taskVars, loopVars
<1>2. TypeOK' /\ StoreFinite' /\ LoopOrdered' /\ VerdictsTrue' /\ Announced'
      /\ ProposalNoticed' /\ LagOnly'
  BY <1>1 DEF Inv, TypeOK, StoreFinite, LoopOrdered, VerdictsTrue, Announced,
              ProposalNoticed, NeverPanics, LagOnly, Lagged
<1> QED
  BY <1>1, <1>2, StoreGrowsInv

\* The inductive invariant: every step of the handler, of the round task, of the monitors
\* and of the main loop of ibft.rs leaves in the store what the task's next query expects.
THEOREM Invariance == Spec => []Inv
<1>1. ASSUME Inv, [Next]_vars
      PROVE  Inv'
  <2>1. CASE HandlerStep
    <3>1. CASE ReceiveLater
      BY <1>1, <3>1, ReceiveLaterInv
    <3>2. ASSUME NEW r \in Rounds,
             \/ \E b \in Blocks : ReceiveProposal(r, b)
             \/ \E i \in Peers, b \in Blocks :
                   ReceivePrepare(r, i, b) \/ ReceiveCommit(r, i, b)
             \/ \E i \in Peers, pc \in Blocks \cup {NoBlock} : ReceiveRoundChange(r, i, pc)
          PROVE  Inv'
      BY <1>1, <3>2, ReceiveProposalInv, ReceivePrepareInv, ReceiveCommitInv,
         ReceiveRoundChangeInv
    <3> QED
      BY <2>1, <3>1, <3>2 DEF HandlerStep
  <2>2. CASE TaskStep
    BY <1>1, <2>2, SubscribeInv, BuildProposalInv, GetProposalInv, ReceiveInv,
       ReceiveOtherInv, ReceiveLaggedInv,
       CountPreparesInv, EnterCommitInv, CountCommitsInv, CountRoundChangesInv DEF TaskStep
  <2>3. CASE LoopStep
    BY <1>1, <2>3, MonitorProposalInv, MonitorRoundChangesInv, JumpInv, TimeoutInv,
       FinishHeightInv, CancelInv, RunAgainInv DEF LoopStep
  <2>4. CASE UNCHANGED vars
    BY <1>1, <2>4, StutterInv
  <2> QED
    BY <1>1, <2>1, <2>2, <2>3, <2>4 DEF Next, Terminating
<1> QED
  BY <1>1, InitInv, PTL DEF Spec

\* The store, the task and the main loop keep their types.
THEOREM TypeCorrect == Spec => []TypeOK
<1>1. Inv => TypeOK
  BY DEF Inv
<1> QED
  BY <1>1, Invariance, PTL

\* With any number of peers that send anything and whenever the timer expires: the round
\* task's expects fail only on a channel that has lagged, and those of handle_timeout and
\* handle_round_finish only in a round for which the node broadcast two proposals.
THEOREM PanicTheorem == Spec => []NeverPanics
<1>1. Inv => NeverPanics
  BY DEF Inv
<1> QED
  BY <1>1, Invariance, PTL

\* The block that handle_round_finish fetches from the store is the one whose digest the
\* commit seals are for, with the same exception.
THEOREM SealsTheorem == Spec => []SealsMatchBlock
<1>1. Inv => SealsMatchBlock
  BY DEF Inv
<1> QED
  BY <1>1, Invariance, PTL

\* In one run of the height, run_proposal_0, run_proposal_1 and run_prepare broadcast at
\* most one proposal, one prepare and one commit per round.
THEOREM VotesTheorem == Spec => []VotesOnce
<1>1. Inv => VotesOnce
  BY DEF Inv
<1> QED
  BY <1>1, Invariance, PTL

\* In one run of the height, the certificate of the node's latest round change is for a
\* block to which run_prepare has committed in an earlier round.
THEOREM CertificatesTheorem == Spec => []CertificatesEarned
<1>1. Inv => CertificatesEarned
  BY DEF Inv
<1> QED
  BY <1>1, Invariance, PTL

\* The results that the monitors and the round task cache in the store are those of the
\* messages they are stored with, and every prepare sent is for a valid proposal.
THEOREM VerdictsTheorem == Spec => []VerdictsTrue
<1>1. Inv => VerdictsTrue
  BY DEF Inv
<1> QED
  BY <1>1, Invariance, PTL

\* The waiting loop of run_proposal_0 and run_proposal_1 loses no announcement between its
\* subscription, its query and its recv().
THEOREM NoticedTheorem == Spec => []ProposalNoticed
<1>1. Inv => ProposalNoticed
  BY DEF Inv
<1> QED
  BY <1>1, Invariance, PTL
=============================================================================
