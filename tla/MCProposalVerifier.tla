------------------------- MODULE MCProposalVerifier -------------------------
(***************************************************************************)
(* Messages of view (1, 2) of three validators with quorum 2, so that a    *)
(* certificate has one prepare and may be too short, just long enough or   *)
(* padded.  A round change certificate has up to three messages.           *)
(***************************************************************************)
EXTENDS ProposalVerifier

CONSTANTS n1, n2, n3, A, B, X

V(r) == [height |-> 1, round |-> r]
OldView == [height |-> 0, round |-> 1]
SomeViews == {V(r) : r \in 0 .. 2} \cup {OldView}

\* is_proposer: the validators in turn.
RoundRobin == [v \in SomeViews |-> <<n1, n2, n3>>[v.round + 1]]

D(b, r) == [block |-> b, round |-> r]
Prepare(i, v, d) == [view |-> v, digest |-> d, from |-> i]
PC(v, d, i, s) == [view |-> v, digest |-> d, from |-> i, prepares |-> s]

\* A certificate for block b in view v, with prepares from the given signers.
By(v, b, signers) ==
    PC(v, D(b, v.round), RoundRobin[v],
       [x \in DOMAIN signers |-> Prepare(signers[x], v, D(b, v.round))])

GoodPCs == {By(V(0), A, <<n2>>), By(V(1), A, <<n1>>), By(V(1), B, <<n3, n1>>)}

\* Too short, a duplicate, the proposer's own prepare, an unknown signer, another digest,
\* another view, another proposer, a round that is not earlier, another height.
BadPCs ==
    {By(V(1), A, <<>>), By(V(1), A, <<n1, n1>>), By(V(1), A, <<n2>>),
     By(V(1), A, <<n2, n1>>), By(V(1), A, <<Nobody>>),
     PC(V(1), D(A, 1), n2, <<Prepare(n1, V(1), D(B, 1))>>),
     PC(V(1), D(A, 1), n2, <<Prepare(n1, V(0), D(A, 1))>>),
     PC(V(1), D(A, 1), n3, <<Prepare(n1, V(1), D(A, 1))>>),
     By(V(2), A, <<n1>>), By(OldView, A, <<n1>>)}

PCs == GoodPCs \cup BadPCs

Metadata ==
    [view : {V(2)}, from : {n1, n2, n3}, pc : PCs \cup {NoPC}]
        \cup [view : {V(2)}, from : {Nobody}, pc : {NoPC}]
        \cup [view : {V(1)}, from : {n3}, pc : {NoPC}]

ProposalInputs ==
    [kind : {"proposal"}, view : {V(2)}, proposed_block : {D(A, 2), D(B, 2), D(X, 2)},
     digest : {D(A, 2), D(B, 2), D(X, 2)},
     rcc : UNION {[1 .. n -> Metadata] : n \in 0 .. 2} \cup {NoRCC}]
        \cup [kind : {"proposal"}, view : {V(2)}, proposed_block : {D(A, 2)},
              digest : {D(A, 2)}, rcc : [1 .. 3 -> Metadata]]

RoundChangeInputs ==
    [kind : {"round_change"}, view : {V(2)}, proposed_block : {D(A, 0), D(A, 1), D(B, 1)},
     pc : PCs \cup {NoPC}]

SomeInputs == ProposalInputs \cup RoundChangeInputs
=============================================================================
