----------------------- MODULE ProposalVerifierProofs -----------------------
(***************************************************************************)
(* The verdict of ProposalVerifier is right for every message, whatever    *)
(* the number of round changes and prepares in it.  The argument is the    *)
(* invariant of each loop: the validators seen so far are the signers of   *)
(* the entries visited, all different, and highest is the position of a    *)
(* certificate of the highest round among them.                            *)
(***************************************************************************)
EXTENDS ProposalVerifier, FiniteSetTheorems, TLAPS

\* The checks before the loop over the round changes.
ProposalChecked ==
    /\ input.kind = "proposal"
    /\ input.proposed_block = input.digest
    /\ input.rcc # NoRCC
    /\ Len(input.rcc) >= Quorum

\* The first n entries of a vector have different signers, the validators seen.
Seen(s, n) ==
    /\ seen = {s[x].from : x \in 1 .. n}
    /\ Cardinality(seen) = n

\* The first n round changes are for the proposal's view, and highest is the position
\* of a certificate of the highest round above 0 among them.
Visited(n) ==
    /\ \A x \in 1 .. n : input.rcc[x].view = input.view
    /\ IF highest = 0
       THEN \A x \in 1 .. n : input.rcc[x].pc # NoPC => ~(input.rcc[x].pc.view.round > 0)
       ELSE /\ highest \in 1 .. n
            /\ input.rcc[highest].pc # NoPC
            /\ input.rcc[highest].pc.view.round > 0
            /\ \A x \in 1 .. n : input.rcc[x].pc # NoPC
                  => input.rcc[x].pc.view.round <= input.rcc[highest].pc.view.round

InRoundChanges ==
    at = "round_changes" =>
        /\ ProposalChecked
        /\ k \in 1 .. Len(input.rcc) + 1
        /\ Seen(input.rcc, k - 1)
        /\ Visited(k - 1)

\* Past the loop: a certificate is left to verify.
Pending ==
    IF input.kind = "proposal"
    THEN /\ ProposalChecked
         /\ \A x \in DOMAIN input.rcc : input.rcc[x].view = input.view
         /\ Cardinality({input.rcc[x].from : x \in DOMAIN input.rcc} \cap Nodes) >= Quorum
         /\ IsHighest(input, highest)
         /\ Proposes(input, input.rcc[highest].pc)
    ELSE input.pc # NoPC /\ input.pc.digest = input.proposed_block

InCertificate == at \in {"certificate", "prepares"} => Pending

InPrepares ==
    at = "prepares" =>
        /\ Certificate.view.height = input.view.height
        /\ Certificate.view.round < input.view.round
        /\ Certificate.from = Proposer[Certificate.view]
        /\ Len(Certificate.prepares) >= Quorum - 1
        /\ k \in 1 .. Len(Certificate.prepares) + 1
        /\ Seen(Certificate.prepares, k - 1)
        /\ \A x \in 1 .. k - 1 :
              /\ Certificate.prepares[x].view = Certificate.view
              /\ Certificate.prepares[x].digest = Certificate.digest
              /\ Certificate.prepares[x].from \in Nodes \ {Certificate.from}

Inv ==
    /\ TypeOK
    /\ at # "done" => verdict = "none"
    /\ at = "start" => highest = 0
    /\ InRoundChanges
    /\ InCertificate
    /\ InPrepares
    /\ AcceptedIsSupported
    /\ WellFormedIsAccepted

-----------------------------------------------------------------------------
(* Types of the parts of a message *)

\* The parts of a prepared certificate.
LEMMA CertificateParts ==
    ASSUME NEW pc \in PreparedCertificates
    PROVE  /\ pc.view \in Views /\ pc.view.round \in Nat
           /\ Len(pc.prepares) \in Nat
           /\ DOMAIN pc.prepares = 1 .. Len(pc.prepares)
           /\ \A x \in 1 .. Len(pc.prepares) : pc.prepares[x] \in Prepares
  BY VerifierAssumption DEF PreparedCertificates

\* The parts of a round change certificate.
LEMMA RoundChangeParts ==
    ASSUME TypeOK, input.kind = "proposal", input.rcc # NoRCC
    PROVE  /\ input.rcc \in Seq(RoundChangeMetadata)
           /\ Len(input.rcc) \in Nat
           /\ DOMAIN input.rcc = 1 .. Len(input.rcc)
           /\ \A x \in 1 .. Len(input.rcc) :
                 /\ input.rcc[x].from \in Signers
                 /\ input.rcc[x].pc # NoPC =>
                       /\ input.rcc[x].pc \in PreparedCertificates
                       /\ input.rcc[x].pc.view.round \in Nat
<1>1. input \in Proposals
  BY VerifierAssumption DEF TypeOK, RoundChanges, Proposals
<1>2. input.rcc \in Seq(RoundChangeMetadata)
  BY <1>1 DEF Proposals
<1>3. /\ Len(input.rcc) \in Nat
      /\ DOMAIN input.rcc = 1 .. Len(input.rcc)
      /\ \A x \in 1 .. Len(input.rcc) : input.rcc[x] \in RoundChangeMetadata
  BY <1>2
<1>4. ASSUME NEW rc \in RoundChangeMetadata
      PROVE  rc.from \in Signers /\ rc.pc \in PreparedCertificates \cup {NoPC}
  BY DEF RoundChangeMetadata
<1> QED
  BY <1>2, <1>3, <1>4, CertificateParts

\* One more signer, not seen before.
LEMMA SeenOneMore ==
    ASSUME NEW s, NEW n \in Nat, Seen(s, n), NEW S, S = seen \cup {s[n + 1].from},
           s[n + 1].from \notin seen, IsFiniteSet(seen)
    PROVE  S = {s[x].from : x \in 1 .. n + 1} /\ Cardinality(S) = n + 1
<1>1. 1 .. n + 1 = (1 .. n) \cup {n + 1}
  OBVIOUS
<1>2. S = {s[x].from : x \in 1 .. n + 1}
  BY <1>1 DEF Seen
<1>3. Cardinality(S) = Cardinality(seen) + 1
  BY FS_AddElement
<1> QED
  BY <1>2, <1>3 DEF Seen

-----------------------------------------------------------------------------
(* The ways a step ends *)

\* A step that rejects a message that is not well formed.
LEMMA RejectStep ==
    ASSUME Inv, Return("rejected"), ~WellFormed(input)
    PROVE  Inv'
  BY DEF Inv, Return, TypeOK, InRoundChanges, InCertificate, InPrepares,
         AcceptedIsSupported, WellFormedIsAccepted

\* A step that accepts a message that is supported.
LEMMA AcceptStep ==
    ASSUME Inv, Return("accepted"), Supported(input)
    PROVE  Inv'
  BY DEF Inv, Return, TypeOK, InRoundChanges, InCertificate, InPrepares,
         AcceptedIsSupported, WellFormedIsAccepted

\* At the head of a loop nothing has been seen.
LEMMA SeenNothing ==
    ASSUME NEW s
    PROVE  {} = {s[x].from : x \in 1 .. 0} /\ Cardinality({}) = 0
  BY FS_EmptySet

-----------------------------------------------------------------------------
(* The steps *)

\* The checks before the loop lead to its head, or reject.
LEMMA VerifyProposalStep ==
    ASSUME Inv, VerifyProposal
    PROVE  Inv'
<1>1. CASE Return("rejected")
  <2>1. ~WellFormed(input)
    BY <1>1 DEF VerifyProposal, Return, Goto, WellFormed
  <2> QED
    BY <1>1, <2>1, RejectStep
<1>2. CASE Goto("round_changes") /\ ProposalChecked
  <2>1. TypeOK' /\ at' = "round_changes" /\ verdict' = "none" /\ k' = 1 /\ seen' = {}
    BY <1>2 DEF Inv, TypeOK, Goto, VerifyProposal
  <2>2. input' = input /\ highest' = 0
    BY <1>2 DEF Inv, Goto, VerifyProposal
  <2>3. ProposalChecked' /\ Len(input.rcc) \in Nat
    BY <1>2, <2>2, RoundChangeParts DEF ProposalChecked, Inv
  <2>4. Seen(input.rcc, 0)'
    BY <2>1, <2>2, SeenNothing DEF Seen
  <2>5. Visited(0)'
    BY <2>2 DEF Visited
  <2>6. InRoundChanges'
    BY <2>1, <2>2, <2>3, <2>4, <2>5 DEF InRoundChanges
  <2> QED
    BY <2>1, <2>6 DEF Inv, InCertificate, InPrepares, AcceptedIsSupported, WellFormedIsAccepted
<1> QED
  BY <1>1, <1>2 DEF VerifyProposal, ProposalChecked

\* One round change: the search for the highest certificate keeps its invariant.
LEMMA VerifyRoundChangeMetadataStep ==
    ASSUME Inv, VerifyRoundChangeMetadata
    PROVE  Inv'
<1> DEFINE rc == input.rcc[k]
<1>1. /\ ProposalChecked /\ k \in 1 .. Len(input.rcc)
      /\ Seen(input.rcc, k - 1) /\ Visited(k - 1)
  BY RoundChangeParts DEF Inv, InRoundChanges, VerifyRoundChangeMetadata, ProposalChecked
<1>2. /\ Len(input.rcc) \in Nat
      /\ DOMAIN input.rcc = 1 .. Len(input.rcc)
      /\ \A x \in 1 .. Len(input.rcc) : input.rcc[x].pc # NoPC
            => input.rcc[x].pc.view.round \in Nat
  BY <1>1, RoundChangeParts DEF Inv, ProposalChecked
<1>3. CASE Return("rejected") /\ (rc.view # input.view \/ rc.from \notin Nodes)
  <2>1. ~WellFormed(input)
    BY <1>1, <1>2, <1>3 DEF WellFormed, ProposalChecked
  <2> QED
    BY <1>3, <2>1, RejectStep
<1>4. CASE Return("rejected") /\ rc.from \in seen
  <2>1. PICK x \in 1 .. k - 1 : rc.from = input.rcc[x].from
    BY <1>1, <1>4 DEF Seen
  <2>2. x # k /\ x \in DOMAIN input.rcc /\ k \in DOMAIN input.rcc
    BY <1>1, <1>2
  <2>3. ~WellFormed(input)
    BY <1>1, <2>1, <2>2 DEF WellFormed, ProposalChecked
  <2> QED
    BY <1>4, <2>3, RejectStep
<1>5. CASE /\ Visit(rc)
           /\ rc.view = input.view /\ rc.from \in Nodes /\ rc.from \notin seen
  <2>1. /\ input' = input /\ at' = "round_changes" /\ verdict' = "none"
        /\ k' = k + 1 /\ seen' = seen \cup {rc.from}
    BY <1>5 DEF Visit, Inv, VerifyRoundChangeMetadata
  <2>2. highest \in Nat /\ IsFiniteSet(seen)
    BY VerifierAssumption, FS_Subset DEF Inv, TypeOK
  <2>3. TypeOK'
    BY <1>1, <1>5, <2>1, <2>2 DEF Inv, TypeOK, Visit
  <2>4. Seen(input.rcc, k - 1)'
    <3>1. k - 1 \in Nat /\ (k - 1) + 1 = k /\ (k' - 1) = k
      BY <1>1, <2>1
    <3>2. /\ Seen(input.rcc, k - 1)
          /\ seen' = seen \cup {input.rcc[(k - 1) + 1].from}
          /\ input.rcc[(k - 1) + 1].from \notin seen
      BY <1>1, <1>5, <2>1, <3>1
    <3>3. /\ seen' = {input.rcc[x].from : x \in 1 .. (k - 1) + 1}
          /\ Cardinality(seen') = (k - 1) + 1
      BY <2>2, <3>1, <3>2, SeenOneMore
    <3> QED
      BY <2>1, <3>1, <3>3 DEF Seen
  <2>5. Visited(k - 1)'
    <3>1. highest' = IF rc.pc # NoPC /\ rc.pc.view.round > HighestRound THEN k ELSE highest
      BY <1>5 DEF Visit
    <3>2. \A x \in 1 .. k : x \in 1 .. k - 1 \/ x = k
      BY <1>1
    <3>3. 1 .. k \subseteq 1 .. Len(input.rcc) /\ k # 0 /\ k \in 1 .. k /\ k' - 1 = k
      BY <1>1, <1>2, <2>1
    <3>4. \A x \in 1 .. k' - 1 : input.rcc[x].view = input.view
      BY <1>1, <1>5, <2>1, <3>2, <3>3 DEF Visited
    <3>5. CASE rc.pc # NoPC /\ rc.pc.view.round > HighestRound
      <4>1. highest' = k
        BY <3>1, <3>5
      <4>2. \A x \in 1 .. k - 1 : input.rcc[x].pc # NoPC
               => input.rcc[x].pc.view.round <= rc.pc.view.round
        <5>0. /\ rc.pc.view.round \in Nat
              /\ \A x \in 1 .. k - 1 : x \in 1 .. Len(input.rcc)
          BY <1>1, <1>2, <3>5
        <5>1. CASE highest = 0
          BY <1>1, <1>2, <3>5, <5>0, <5>1 DEF Visited, HighestRound
        <5>2. CASE highest # 0
          BY <1>1, <1>2, <3>5, <5>0, <5>2 DEF Visited, HighestRound
        <5> QED
          BY <5>1, <5>2
      <4>3. rc.pc.view.round > 0
        BY <1>1, <1>2, <3>3, <3>5 DEF Visited, HighestRound
      <4>4. \A x \in 1 .. k : input.rcc[x].pc # NoPC
               => input.rcc[x].pc.view.round <= rc.pc.view.round
        <5>1. rc.pc.view.round \in Nat
          BY <1>1, <1>2, <3>5
        <5> QED
          BY <3>2, <4>2, <5>1
      <4> HIDE DEF rc
      <4>5. rc = input.rcc[k]
        BY DEF rc
      <4> QED
        BY <2>1, <3>3, <3>4, <3>5, <4>1, <4>3, <4>4, <4>5 DEF Visited
    <3>6. CASE ~(rc.pc # NoPC /\ rc.pc.view.round > HighestRound)
      <4>1. highest' = highest
        BY <3>1, <3>6
      <4>2. rc.pc # NoPC => ~(rc.pc.view.round > HighestRound)
        BY <3>6
      <4>3. CASE highest = 0
        BY <1>1, <1>5, <2>1, <3>2, <3>3, <4>1, <4>2, <4>3 DEF Visited, HighestRound
      <4>4. CASE highest # 0
        <5>1. \A x \in 1 .. k : input.rcc[x].pc # NoPC
                 => input.rcc[x].pc.view.round <= input.rcc[highest].pc.view.round
          BY <1>1, <1>2, <3>2, <3>3, <4>2, <4>4 DEF Visited, HighestRound
        <5>2. /\ highest \in 1 .. k
              /\ input.rcc[highest].pc # NoPC /\ input.rcc[highest].pc.view.round > 0
          BY <1>1, <4>4 DEF Visited
        <5> QED
          BY <2>1, <3>3, <3>4, <4>1, <4>4, <5>1, <5>2 DEF Visited
      <4> QED
        BY <4>3, <4>4
    <3> QED
      BY <3>5, <3>6
  <2>6. InRoundChanges'
    BY <1>1, <1>2, <2>1, <2>4, <2>5 DEF InRoundChanges, ProposalChecked
  <2> QED
    BY <2>1, <2>3, <2>6 DEF Inv, InCertificate, InPrepares, AcceptedIsSupported, WellFormedIsAccepted
<1> QED
  BY <1>3, <1>4, <1>5 DEF VerifyRoundChangeMetadata

\* The end of the loop: all round changes were visited.
LEMMA VerifyProposedBlockStep ==
    ASSUME Inv, VerifyProposedBlock
    PROVE  Inv'
<1> DEFINE n == Len(input.rcc)
<1>1. /\ ProposalChecked /\ n \in Nat /\ k - 1 = n
      /\ DOMAIN input.rcc = 1 .. n
      /\ \A x \in 1 .. n : input.rcc[x].pc # NoPC => input.rcc[x].pc.view.round \in Nat
  <2>1. TypeOK /\ ProposalChecked /\ k \in 1 .. n + 1 /\ k > n
    BY DEF Inv, InRoundChanges, VerifyProposedBlock
  <2>2. /\ n \in Nat /\ DOMAIN input.rcc = 1 .. n
        /\ \A x \in 1 .. n : input.rcc[x].pc # NoPC => input.rcc[x].pc.view.round \in Nat
    BY <2>1, RoundChangeParts DEF ProposalChecked
  <2> QED
    BY <2>1, <2>2
<1>2. Seen(input.rcc, n) /\ Visited(n) /\ seen \in SUBSET Nodes
  BY <1>1 DEF Inv, InRoundChanges, VerifyProposedBlock, TypeOK
<1>3. Cardinality({input.rcc[x].from : x \in DOMAIN input.rcc} \cap Nodes) >= Quorum
  <2>1. {input.rcc[x].from : x \in DOMAIN input.rcc} \cap Nodes = seen
    BY <1>1, <1>2 DEF Seen
  <2> QED
    BY <1>1, <1>2, <2>1 DEF Seen, ProposalChecked
<1>4. \A x \in DOMAIN input.rcc : input.rcc[x].view = input.view
  BY <1>1, <1>2 DEF Visited
<1>5. highest = 0 => OnlyRoundZero(input)
  <2>1. highest = 0 => \A x \in 1 .. n :
           input.rcc[x].pc # NoPC => input.rcc[x].pc.view.round = 0
    BY <1>1, <1>2 DEF Visited
  <2> QED
    BY <1>1, <2>1 DEF Certified, OnlyRoundZero
<1>6. highest # 0 => IsHighest(input, highest)
  <2> SUFFICES ASSUME highest # 0
               PROVE  IsHighest(input, highest)
    OBVIOUS
  <2>1. highest \in Certified(input)
    BY <1>1, <1>2 DEF Visited, Certified
  <2>2. \A y \in Certified(input) :
           input.rcc[y].pc.view.round <= input.rcc[highest].pc.view.round
    BY <1>1, <1>2 DEF Visited, Certified
  <2> QED
    BY <2>1, <2>2 DEF IsHighest
<1>7. CASE highest # 0
  <2> DEFINE pc == input.rcc[highest].pc
  <2>0. HighestRound = pc.view.round /\ highest \in DOMAIN input.rcc
    BY <1>6, <1>7 DEF HighestRound, IsHighest, Certified
  <2>1. CASE pc.digest = [block |-> input.proposed_block.block, round |-> HighestRound]
    <3>1. Proposes(input, pc)
      BY <2>0, <2>1 DEF Proposes
    <3>2. Goto("certificate")
      BY <1>7, <2>1 DEF VerifyProposedBlock
    <3>3. /\ input' = input /\ highest' = highest /\ at' = "certificate"
          /\ verdict' = "none" /\ TypeOK'
      BY <3>2 DEF Goto, Inv, TypeOK, VerifyProposedBlock
    <3>4. Pending
      BY <1>1, <1>3, <1>4, <1>6, <1>7, <3>1 DEF Pending, ProposalChecked
    <3>5. Pending'
      BY <3>3, <3>4 DEF Pending, ProposalChecked, IsHighest, Certified, Proposes
    <3> QED
      BY <3>3, <3>5 DEF Inv, InRoundChanges, InCertificate, InPrepares, AcceptedIsSupported,
                        WellFormedIsAccepted
  <2>2. CASE pc.digest # [block |-> input.proposed_block.block, round |-> HighestRound]
    <3>1. ~Proposes(input, pc)
      BY <2>0, <2>2 DEF Proposes
    <3>2. ~WellFormed(input)
      BY <1>1, <1>6, <1>7, <2>0, <3>1 DEF WellFormed, ProposalChecked
    <3>3. Return("rejected")
      BY <1>7, <2>2 DEF VerifyProposedBlock
    <3> QED
      BY <3>2, <3>3, RejectStep
  <2> QED
    BY <2>1, <2>2
<1>8. CASE highest = 0 /\ input.proposed_block.block \in ValidBlocks
  <2>1. Supported(input)
    BY <1>1, <1>3, <1>4, <1>5, <1>8 DEF Supported, FromQuorum, ProposalChecked
  <2> QED
    BY <1>8, <2>1, AcceptStep DEF VerifyProposedBlock
<1>9. CASE highest = 0 /\ input.proposed_block.block \notin ValidBlocks
  <2>1. ~WellFormed(input)
    BY <1>1, <1>5, <1>9 DEF WellFormed, ProposalChecked
  <2> QED
    BY <1>9, <2>1, RejectStep DEF VerifyProposedBlock
<1> QED
  BY <1>7, <1>8, <1>9

\* round_change_verify_fn, up to its certificate.
LEMMA VerifyRoundChangeStep ==
    ASSUME Inv, VerifyRoundChange
    PROVE  Inv'
<1>0. input.kind # "proposal"
  BY DEF VerifyRoundChange
<1>1. CASE input.pc = NoPC
  <2>1. Supported(input)
    BY <1>0, <1>1 DEF Supported, CertificateFits
  <2> QED
    BY <1>1, <2>1, AcceptStep DEF VerifyRoundChange
<1>2. CASE input.pc # NoPC /\ input.pc.digest = input.proposed_block
  <2>1. Goto("certificate")
    BY <1>2 DEF VerifyRoundChange
  <2>2. /\ input' = input /\ at' = "certificate" /\ verdict' = "none" /\ TypeOK'
    BY <2>1 DEF Goto, Inv, TypeOK, VerifyRoundChange
  <2>3. Pending'
    BY <1>0, <1>2, <2>2 DEF Pending
  <2> QED
    BY <2>2, <2>3 DEF Inv, InRoundChanges, InCertificate, InPrepares, AcceptedIsSupported,
                      WellFormedIsAccepted
<1>3. CASE input.pc # NoPC /\ input.pc.digest # input.proposed_block
  <2>1. ~WellFormed(input)
    BY <1>0, <1>3 DEF WellFormed
  <2> QED
    BY <1>3, <2>1, RejectStep DEF VerifyRoundChange
<1> QED
  BY <1>1, <1>2, <1>3

-----------------------------------------------------------------------------
(* The certificate *)

\* The certificate under verification, and what the message is worth without it.
LEMMA PendingCertificate ==
    ASSUME TypeOK, Pending
    PROVE  /\ Certificate \in PreparedCertificates
           /\ WellFormed(input) => Assembled(Certificate, input.view)
           /\ Backed(Certificate, input.view) => Supported(input)
<1>1. CASE input.kind = "proposal"
  <2>1. /\ ProposalChecked /\ IsHighest(input, highest) /\ highest \in DOMAIN input.rcc
        /\ input.rcc[highest].pc # NoPC
    BY <1>1 DEF Pending, IsHighest, Certified
  <2>2. Certificate = input.rcc[highest].pc
    BY <1>1 DEF Certificate
  <2>3. Certificate \in PreparedCertificates
    BY <1>1, <2>1, <2>2, RoundChangeParts DEF ProposalChecked
  <2>4. WellFormed(input) => Assembled(Certificate, input.view)
    BY <1>1, <2>1, <2>2 DEF WellFormed
  <2>5. Backed(Certificate, input.view) => Supported(input)
    BY <1>1, <2>1, <2>2 DEF Supported, FromQuorum, CarriesHighest, Pending, ProposalChecked
  <2> QED
    BY <2>3, <2>4, <2>5
<1>2. CASE input.kind # "proposal"
  <2>1. Certificate = input.pc /\ input.pc # NoPC /\ input.pc.digest = input.proposed_block
    BY <1>2 DEF Certificate, Pending
  <2>2. input \in RoundChanges
    BY <1>2, VerifierAssumption DEF TypeOK, Proposals
  <2>3. Certificate \in PreparedCertificates
    BY <2>1, <2>2 DEF RoundChanges
  <2> QED
    BY <1>2, <2>1, <2>3 DEF WellFormed, Supported, CertificateFits
<1> QED
  BY <1>1, <1>2

\* The checks before the loop over the prepares.
LEMMA VerifyCertificateStep ==
    ASSUME Inv, VerifyCertificate
    PROVE  Inv'
<1>1. TypeOK /\ Pending
  BY DEF Inv, InCertificate, VerifyCertificate
<1>2. Certificate \in PreparedCertificates
  BY <1>1, PendingCertificate
<1>3. CASE Return("rejected") /\ ~Assembled(Certificate, input.view)
  BY <1>1, <1>3, PendingCertificate, RejectStep
<1>4. CASE /\ Goto("prepares")
           /\ Certificate.view.height = input.view.height
           /\ ~(Certificate.view.round >= input.view.round)
           /\ Certificate.from = Proposer[Certificate.view]
           /\ ~(Len(Certificate.prepares) < Quorum - 1)
  <2>1. /\ input' = input /\ highest' = highest /\ at' = "prepares" /\ verdict' = "none"
        /\ k' = 1 /\ seen' = {} /\ TypeOK'
    BY <1>4 DEF Goto, Inv, TypeOK, VerifyCertificate
  <2>2. Certificate' = Certificate
    BY <2>1 DEF Certificate
  <2>3. Pending'
    BY <1>1, <2>1 DEF Pending, ProposalChecked, IsHighest, Certified, Proposes
  <2>4. input.view.round \in Nat
    BY VerifierAssumption DEF Inv, TypeOK, Proposals, RoundChanges
  <2>5. /\ Certificate.view.round < input.view.round
        /\ Len(Certificate.prepares) \in Nat
        /\ Len(Certificate.prepares) >= Quorum - 1
    BY <1>2, <1>4, <2>4, CertificateParts, VerifierAssumption
  <2>6. Seen(Certificate.prepares, k - 1)'
    BY <2>1, <2>2, SeenNothing DEF Seen
  <2>7. InPrepares'
    BY <1>4, <2>1, <2>2, <2>5, <2>6 DEF InPrepares
  <2> QED
    BY <2>1, <2>3, <2>7 DEF Inv, InRoundChanges, InCertificate, AcceptedIsSupported,
                            WellFormedIsAccepted
<1>5. ASSUME Assembled(Certificate, input.view)
      PROVE  /\ Certificate.view.height = input.view.height
             /\ ~(Certificate.view.round >= input.view.round)
             /\ Certificate.from = Proposer[Certificate.view]
             /\ ~(Len(Certificate.prepares) < Quorum - 1)
  <2>1. input.view.round \in Nat
    BY VerifierAssumption DEF Inv, TypeOK, Proposals, RoundChanges
  <2> QED
    BY <1>2, <1>5, <2>1, CertificateParts, VerifierAssumption DEF Assembled, Backed
<1> QED
  BY <1>3, <1>4, <1>5 DEF VerifyCertificate

\* One prepare.
LEMMA VerifyPrepareStep ==
    ASSUME Inv, VerifyPrepare
    PROVE  Inv'
<1> DEFINE pc == Certificate
           prepare == pc.prepares[k]
<1>1. TypeOK /\ Pending
  BY DEF Inv, InCertificate, VerifyPrepare
<1>2. pc \in PreparedCertificates
  BY <1>1, PendingCertificate
<1>3. /\ Len(pc.prepares) \in Nat /\ DOMAIN pc.prepares = 1 .. Len(pc.prepares)
      /\ k \in 1 .. Len(pc.prepares) /\ Seen(pc.prepares, k - 1)
  BY <1>2, CertificateParts DEF Inv, InPrepares, VerifyPrepare
<1>4. CASE Return("rejected") /\ PrepareRejected(pc, prepare)
  <2>1. CASE prepare.from \notin seen
    <3>1. ~Assembled(pc, input.view)
      BY <1>3, <1>4, <2>1 DEF Assembled, PrepareRejected
    <3> QED
      BY <1>1, <1>4, <3>1, PendingCertificate, RejectStep
  <2>2. CASE prepare.from \in seen
    <3>1. PICK x \in 1 .. k - 1 : prepare.from = pc.prepares[x].from
      BY <1>3, <2>2 DEF Seen
    <3>2. x # k /\ x \in DOMAIN pc.prepares /\ k \in DOMAIN pc.prepares
      BY <1>3
    <3>3. ~Assembled(pc, input.view)
      BY <3>1, <3>2 DEF Assembled
    <3> QED
      BY <1>1, <1>4, <3>3, PendingCertificate, RejectStep
  <2> QED
    BY <2>1, <2>2
<1>5. CASE /\ ~PrepareRejected(pc, prepare)
           /\ seen' = seen \cup {prepare.from}
           /\ k' = k + 1
           /\ UNCHANGED <<input, at, highest, verdict>>
  <2>1. /\ input' = input /\ highest' = highest /\ at' = "prepares" /\ verdict' = "none"
        /\ pc' = pc
    BY <1>5 DEF Inv, VerifyPrepare, Certificate
  <2>2. /\ prepare.view = pc.view /\ prepare.digest = pc.digest
        /\ prepare.from \in Nodes \ {pc.from} /\ prepare.from \notin seen
    BY <1>5 DEF PrepareRejected
  <2>3. TypeOK' /\ IsFiniteSet(seen)
    BY <1>3, <1>5, <2>2, VerifierAssumption, FS_Subset DEF Inv, TypeOK
  <2>4. k - 1 \in Nat /\ (k - 1) + 1 = k /\ k' - 1 = k
    BY <1>3, <1>5
  <2>5. Pending'
    BY <1>1, <2>1 DEF Pending, ProposalChecked, IsHighest, Certified, Proposes
  <2>6. Seen(pc.prepares, k - 1)'
    <3>1. /\ Seen(pc.prepares, k - 1)
          /\ seen' = seen \cup {pc.prepares[(k - 1) + 1].from}
          /\ pc.prepares[(k - 1) + 1].from \notin seen
      BY <1>3, <1>5, <2>2, <2>4
    <3> HIDE DEF pc
    <3>2. /\ seen' = {pc.prepares[x].from : x \in 1 .. (k - 1) + 1}
          /\ Cardinality(seen') = (k - 1) + 1
      BY <2>3, <2>4, <3>1, SeenOneMore
    <3> QED
      BY <2>1, <2>4, <3>2 DEF Seen
  <2>7. \A x \in 1 .. k :
           /\ pc.prepares[x].view = pc.view
           /\ pc.prepares[x].digest = pc.digest
           /\ pc.prepares[x].from \in Nodes \ {pc.from}
    <3>1. \A x \in 1 .. k : x \in 1 .. k - 1 \/ x = k
      BY <1>3
    <3> QED
      BY <2>2, <3>1 DEF Inv, InPrepares, VerifyPrepare
  <2>8. InPrepares'
    <3>1. /\ pc.view.height = input.view.height
          /\ pc.view.round < input.view.round
          /\ pc.from = Proposer[pc.view]
          /\ Len(pc.prepares) >= Quorum - 1
      BY DEF Inv, InPrepares, VerifyPrepare
    <3>2. k' \in 1 .. Len(pc.prepares) + 1
      BY <1>3, <1>5
    <3> QED
      BY <2>1, <2>4, <2>6, <2>7, <3>1, <3>2 DEF InPrepares
  <2> QED
    BY <2>1, <2>3, <2>5, <2>8 DEF Inv, InRoundChanges, InCertificate, AcceptedIsSupported,
                                  WellFormedIsAccepted
<1> QED
  BY <1>4, <1>5 DEF VerifyPrepare

\* The end of the second loop: the signers seen back the certificate.
LEMMA EndPreparesStep ==
    ASSUME Inv, EndPrepares
    PROVE  Inv'
<1> DEFINE pc == Certificate
           T == {i \in Nodes \ {pc.from} : \E x \in DOMAIN pc.prepares :
                    pc.prepares[x] = [view |-> pc.view, digest |-> pc.digest, from |-> i]}
<1>1. TypeOK /\ Pending
  BY DEF Inv, InCertificate, EndPrepares
<1>2. pc \in PreparedCertificates
  BY <1>1, PendingCertificate
<1>3. /\ Len(pc.prepares) \in Nat /\ DOMAIN pc.prepares = 1 .. Len(pc.prepares)
      /\ k - 1 = Len(pc.prepares) /\ Seen(pc.prepares, Len(pc.prepares))
      /\ \A x \in 1 .. Len(pc.prepares) : pc.prepares[x] \in Prepares
  BY <1>2, CertificateParts DEF Inv, InPrepares, EndPrepares
<1>4. \A x \in 1 .. Len(pc.prepares) :
         /\ pc.prepares[x].view = pc.view
         /\ pc.prepares[x].digest = pc.digest
         /\ pc.prepares[x].from \in Nodes \ {pc.from}
  BY <1>3 DEF Inv, InPrepares, EndPrepares
<1>5. \A x \in 1 .. Len(pc.prepares) :
         pc.prepares[x]
            = [view |-> pc.view, digest |-> pc.digest, from |-> pc.prepares[x].from]
  BY <1>3, <1>4 DEF Prepares
<1>6. seen \in SUBSET T
  BY <1>3, <1>4, <1>5 DEF Seen
<1>7. IsFiniteSet(T)
  BY VerifierAssumption, FS_Subset
<1>8. Cardinality(T) \in Nat /\ Cardinality(seen) <= Cardinality(T)
  BY <1>6, <1>7, FS_Subset, FS_CardinalityType
<1>9. Len(pc.prepares) >= Quorum - 1
  BY DEF Inv, InPrepares, EndPrepares
<1>10. Cardinality(T) >= Quorum - 1
  BY <1>3, <1>8, <1>9, VerifierAssumption DEF Seen
<1>11. Backed(pc, input.view)
  BY <1>10 DEF Backed, Inv, InPrepares, EndPrepares
<1> QED
  BY <1>1, <1>11, PendingCertificate, AcceptStep DEF EndPrepares

-----------------------------------------------------------------------------
(* The theorems *)

\* The loop invariants hold throughout, for every message and every validator set.
THEOREM Invariance == Spec => []Inv
<1>1. Init => Inv
  BY DEF Init, Inv, TypeOK, InRoundChanges, InCertificate, InPrepares, AcceptedIsSupported,
         WellFormedIsAccepted
<1>2. Inv /\ [Next]_vars => Inv'
  <2>1. ASSUME Inv, UNCHANGED vars
        PROVE  Inv'
    <3>1. /\ input' = input /\ at' = at /\ k' = k /\ highest' = highest
          /\ seen' = seen /\ verdict' = verdict
      BY <2>1 DEF vars
    <3>2. InRoundChanges'
      BY <2>1, <3>1 DEF Inv, InRoundChanges, ProposalChecked, Seen, Visited
    <3>3. InCertificate'
      BY <2>1, <3>1 DEF Inv, InCertificate, Pending, ProposalChecked, IsHighest, Certified,
                        Proposes
    <3>4. InPrepares'
      <4>1. Certificate' = Certificate
        BY <3>1 DEF Certificate
      <4> QED
        BY <2>1, <3>1, <4>1 DEF Inv, InPrepares, Seen
    <3> QED
      BY <2>1, <3>1, <3>2, <3>3, <3>4
         DEF Inv, TypeOK, AcceptedIsSupported, WellFormedIsAccepted
  <2> QED
    BY <2>1, VerifyProposalStep, VerifyRoundChangeMetadataStep, VerifyProposedBlockStep,
       VerifyRoundChangeStep, VerifyCertificateStep, VerifyPrepareStep, EndPreparesStep
       DEF Next, Terminating
<1> QED
  BY <1>1, <1>2, PTL DEF Spec

\* Every proposal or round change that the verification accepts has its quorum and its
\* backed certificate of the highest round behind it, round 0 apart.
THEOREM SupportedTheorem == Spec => []AcceptedIsSupported
<1>1. Inv => AcceptedIsSupported
  BY DEF Inv
<1> QED
  BY <1>1, Invariance, PTL

\* Every message that is well formed is accepted.
THEOREM WellFormedTheorem == Spec => []WellFormedIsAccepted
<1>1. Inv => WellFormedIsAccepted
  BY DEF Inv
<1> QED
  BY <1>1, Invariance, PTL
=============================================================================
