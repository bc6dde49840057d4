-------------------------- MODULE ProposalVerifier --------------------------
(***************************************************************************)
(* The verification of one message by proposal_1_verify_fn or by           *)
(* round_change_verify_fn in crates/consensus/poa/src/ibft.rs, both of     *)
(* which end in verify_prepared_certificate: two loops with early returns  *)
(* over vectors that the sender of the message filled.                     *)
(*                                                                         *)
(* A signature is the node it recovers to, or Nobody when it recovers to   *)
(* no validator of the height.  A block digest is the pair that            *)
(* digest_block hashes.                                                    *)
(***************************************************************************)
EXTENDS Integers, Sequences, FiniteSets

CONSTANTS
    Nodes,        \* the validators of the height
    Nobody,       \* a signature of no validator
    Quorum,       \* ValidatorManager::quorum(height)
    Views,        \* the views that messages may name
    Proposer,     \* Proposer[v]: the node with is_proposer(node, v)
    Blocks,       \* raw blocks
    ValidBlocks,  \* the raw blocks BlockService::verify_block accepts
    NoPC,         \* latest_prepared_certificate = None
    NoRCC,        \* round_change_certificate = None
    Inputs        \* the messages that may have to be verified

Digests == [block : Blocks, round : Nat]
Signers == Nodes \cup {Nobody}
Prepares == [view : Views, digest : Digests, from : Signers]
PreparedCertificates ==
    [view : Views, digest : Digests, from : Signers, prepares : Seq(Prepares)]
RoundChangeMetadata ==
    [view : Views, from : Signers, pc : PreparedCertificates \cup {NoPC}]
Proposals ==
    [kind : {"proposal"}, view : Views, proposed_block : Digests, digest : Digests,
     rcc : Seq(RoundChangeMetadata) \cup {NoRCC}]
RoundChanges ==
    [kind : {"round_change"}, view : Views, proposed_block : Digests,
     pc : PreparedCertificates \cup {NoPC}]

ASSUME VerifierAssumption ==
    /\ IsFiniteSet(Nodes) /\ Nobody \notin Nodes
    /\ Quorum \in Nat \ {0}
    /\ Views \subseteq [height : Nat, round : Nat]
    /\ Proposer \in [Views -> Nodes]
    /\ NoPC \notin PreparedCertificates
    /\ NoRCC \notin Seq(RoundChangeMetadata)
    /\ Inputs \subseteq Proposals \cup RoundChanges

VARIABLES
    input,    \* the message under verification
    at,       \* the control point
    k,        \* the position of the running loop
    highest,  \* the position of highest_round_pc in the round changes, 0 for None
    seen,     \* seen_validators of the running loop
    verdict   \* what the function returned

vars == <<input, at, k, highest, seen, verdict>>

TypeOK ==
    /\ input \in Inputs
    /\ at \in {"start", "round_changes", "certificate", "prepares", "done"}
    /\ k \in Nat \ {0}
    /\ highest \in Nat
    /\ seen \in SUBSET Nodes
    /\ verdict \in {"none", "accepted", "rejected"}

Init ==
    /\ input \in Inputs
    /\ at = "start"
    /\ k = 1
    /\ highest = 0
    /\ seen = {}
    /\ verdict = "none"

Return(v) ==
    /\ at' = "done"
    /\ verdict' = v
    /\ UNCHANGED <<input, k, highest, seen>>

Goto(point) ==
    /\ at' = point
    /\ k' = 1
    /\ seen' = {}
    /\ UNCHANGED <<input, highest, verdict>>

-----------------------------------------------------------------------------
(* proposal_1_verify_fn *)

\* verify_block_digest, then the number of round changes.
VerifyProposal ==
    /\ at = "start" /\ input.kind = "proposal"
    /\ IF /\ input.proposed_block = input.digest
          /\ input.rcc # NoRCC
          /\ Len(input.rcc) >= Quorum
       THEN Goto("round_changes")
       ELSE Return("rejected")

\* The local variable highest_round.
HighestRound == IF highest = 0 THEN 0 ELSE input.rcc[highest].pc.view.round

\* Mutant: the last certificate is taken, whatever its round.
Visit_Last(rc) ==
    /\ seen' = seen \cup {rc.from}
    /\ highest' = IF rc.pc # NoPC THEN k ELSE highest
    /\ k' = k + 1
    /\ UNCHANGED <<input, at, verdict>>

\* One round change is counted and its certificate compared: the body of the loop
\* behind the checks.
Visit(rc) ==
    /\ seen' = seen \cup {rc.from}
    /\ highest' = IF rc.pc # NoPC /\ rc.pc.view.round > HighestRound THEN k ELSE highest
    /\ k' = k + 1
    /\ UNCHANGED <<input, at, verdict>>

VerifyRoundChangeMetadata ==
    /\ at = "round_changes"
    /\ k <= Len(input.rcc)
    /\ LET rc == input.rcc[k]
       IN  IF rc.view # input.view \/ rc.from \notin Nodes \/ rc.from \in seen
           THEN Return("rejected")
           ELSE Visit(rc)

\* The certificate of the highest round against the proposed block, or the new block
\* against the block service.
VerifyProposedBlock ==
    /\ at = "round_changes"
    /\ k > Len(input.rcc)
    /\ IF highest # 0
       THEN IF input.rcc[highest].pc.digest
               = [block |-> input.proposed_block.block, round |-> HighestRound]
            THEN Goto("certificate")
            ELSE Return("rejected")
       ELSE IF input.proposed_block.block \in ValidBlocks
            THEN Return("accepted")
            ELSE Return("rejected")

-----------------------------------------------------------------------------
(* round_change_verify_fn and verify_prepared_certificate *)

VerifyRoundChange ==
    /\ at = "start" /\ input.kind = "round_change"
    /\ IF input.pc = NoPC
       THEN Return("accepted")
       ELSE IF input.pc.digest = input.proposed_block
            THEN Goto("certificate")
            ELSE Return("rejected")

\* The certificate that verify_prepared_certificate is called with.
Certificate == IF input.kind = "proposal" THEN input.rcc[highest].pc ELSE input.pc

\* Mutant: as many prepares as if the proposer sent one too.
VerifyCertificate_OneMore ==
    /\ at = "certificate"
    /\ LET pc == Certificate
       IN  IF \/ pc.view.height # input.view.height
              \/ pc.view.round >= input.view.round
              \/ pc.from # Proposer[pc.view]
              \/ Len(pc.prepares) < Quorum
           THEN Return("rejected")
           ELSE Goto("prepares")

\* verify_prepared_certificate, up to its loop.
VerifyCertificate ==
    /\ at = "certificate"
    /\ LET pc == Certificate
       IN  IF \/ pc.view.height # input.view.height
              \/ pc.view.round >= input.view.round
              \/ pc.from # Proposer[pc.view]
              \/ Len(pc.prepares) < Quorum - 1
           THEN Return("rejected")
           ELSE Goto("prepares")

\* The early returns of the loop over the prepares.
PrepareRejected(pc, prepare) ==
    \/ prepare.view # pc.view
    \/ prepare.digest # pc.digest
    \/ prepare.from = pc.from
    \/ prepare.from \notin Nodes
    \/ prepare.from \in seen

VerifyPrepare ==
    /\ at = "prepares"
    /\ k <= Len(Certificate.prepares)
    /\ LET prepare == Certificate.prepares[k]
       IN  IF PrepareRejected(Certificate, prepare)
           THEN Return("rejected")
           ELSE /\ seen' = seen \cup {prepare.from}
                /\ k' = k + 1
                /\ UNCHANGED <<input, at, highest, verdict>>

EndPrepares ==
    /\ at = "prepares"
    /\ k > Len(Certificate.prepares)
    /\ Return("accepted")

-----------------------------------------------------------------------------
Terminating == at = "done" /\ UNCHANGED vars

Next ==
    \/ VerifyProposal
    \/ VerifyRoundChangeMetadata
    \/ VerifyProposedBlock
    \/ VerifyRoundChange
    \/ VerifyCertificate
    \/ VerifyPrepare
    \/ EndPrepares
    \/ Terminating

Spec == Init /\ [][Next]_vars

-----------------------------------------------------------------------------
(* Properties *)

\* Quorum - 1 validators other than the proposer prepared the certificate's digest in
\* the certificate's view, which is before view v.
Backed(pc, v) ==
    /\ pc.view.height = v.height /\ pc.view.round < v.round
    /\ pc.from = Proposer[pc.view]
    /\ Cardinality({i \in Nodes \ {pc.from} : \E x \in DOMAIN pc.prepares :
                       pc.prepares[x] = [view |-> pc.view, digest |-> pc.digest, from |-> i]})
          >= Quorum - 1

\* The positions of the round changes that carry a certificate.
Certified(p) == {x \in DOMAIN p.rcc : p.rcc[x].pc # NoPC}

IsHighest(p, x) ==
    /\ x \in Certified(p)
    /\ \A y \in Certified(p) : p.rcc[y].pc.view.round <= p.rcc[x].pc.view.round

\* The proposed block is the one of certificate pc.
Proposes(p, pc) == pc.digest = [block |-> p.proposed_block.block, round |-> pc.view.round]

\* A proposal with its own digest and round changes for its view from a quorum.
FromQuorum(p) ==
    /\ p.proposed_block = p.digest
    /\ \A x \in DOMAIN p.rcc : p.rcc[x].view = p.view
    /\ Cardinality({p.rcc[x].from : x \in DOMAIN p.rcc} \cap Nodes) >= Quorum

\* The proposed block is that of a backed certificate of the highest round.
CarriesHighest(p) ==
    \E x \in DOMAIN p.rcc :
        /\ IsHighest(p, x)
        /\ Proposes(p, p.rcc[x].pc)
        /\ Backed(p.rcc[x].pc, p.view)

\* A round change with no certificate, or with a backed one for its block.
CertificateFits(m) == m.pc # NoPC => m.pc.digest = m.proposed_block /\ Backed(m.pc, m.view)

\* What the comments in proposal_1_verify_fn say: the block is that of the certificate of
\* the highest round; a new block is verified when there are no certificates.
Justified(m) ==
    IF m.kind = "proposal"
    THEN /\ FromQuorum(m)
         /\ IF Certified(m) = {}
            THEN m.proposed_block.block \in ValidBlocks
            ELSE CarriesHighest(m)
    ELSE CertificateFits(m)

\* proposal_1_verify_fn accepts what its comments describe.  It does not: the search for
\* the highest certificate starts from highest_round = 0 and compares with >, so that a
\* proposal whose certificates are all of round 0 may have any valid block.
AcceptedIsJustified == verdict = "accepted" => Justified(input)

OnlyRoundZero(p) == \A x \in Certified(p) : p.rcc[x].pc.view.round = 0

\* What is left of it: with a certificate above round 0 the block is that of the highest.
Supported(m) ==
    IF m.kind = "proposal"
    THEN /\ FromQuorum(m)
         /\ \/ CarriesHighest(m)
            \/ OnlyRoundZero(m) /\ m.proposed_block.block \in ValidBlocks
    ELSE CertificateFits(m)

\* Whatever vectors a message holds, with repeated, forged or foreign entries in any order,
\* the loops of proposal_1_verify_fn and verify_prepared_certificate accept it only
\* with a quorum of different validators and the block of a backed certificate of the
\* highest round behind it; only certificates of round 0 bind nobody.
AcceptedIsSupported == verdict = "accepted" => Supported(input)

\* A certificate as handle_timeout makes it: distinct prepares for its digest.
Assembled(pc, v) ==
    /\ Backed(pc, v)
    /\ Len(pc.prepares) >= Quorum - 1
    /\ \A x \in DOMAIN pc.prepares :
          /\ pc.prepares[x].view = pc.view
          /\ pc.prepares[x].digest = pc.digest
          /\ pc.prepares[x].from \in Nodes \ {pc.from}
    /\ \A x, y \in DOMAIN pc.prepares : pc.prepares[x].from = pc.prepares[y].from => x = y

\* A message as run_proposal_1 and handle_timeout make it: the round changes of distinct
\* validators with certificates that are assembled, and the block of the highest ones.
WellFormed(m) ==
    IF m.kind = "proposal"
    THEN /\ m.proposed_block = m.digest
         /\ m.rcc # NoRCC
         /\ Len(m.rcc) >= Quorum
         /\ \A x \in DOMAIN m.rcc : m.rcc[x].view = m.view /\ m.rcc[x].from \in Nodes
         /\ \A x, y \in DOMAIN m.rcc : m.rcc[x].from = m.rcc[y].from => x = y
         /\ \A x \in DOMAIN m.rcc : IsHighest(m, x) =>
               Proposes(m, m.rcc[x].pc) /\ Assembled(m.rcc[x].pc, m.view)
         /\ OnlyRoundZero(m) => m.proposed_block.block \in ValidBlocks
    ELSE m.pc # NoPC => m.pc.digest = m.proposed_block /\ Assembled(m.pc, m.view)

\* No message that a node following the code makes is rejected, as long as its block is
\* that of the highest certificates.
WellFormedIsAccepted == verdict = "rejected" => ~WellFormed(input)
=============================================================================
