------------------------------- MODULE MCIBFT -------------------------------
(***************************************************************************)
(* The instances of IBFT.  Four validators are the smallest number whose   *)
(* quorum, 3, is not everyone: somebody can be late, jump or be left       *)
(* behind.                                                                 *)
(***************************************************************************)
EXTENDS IBFTRefinement

CONSTANTS n1, n2, n3, n4, A, B, X

Four == {n1, n2, n3, n4}

\* is_proposer: the validators in turn.
RoundRobin == [r \in Rounds |-> <<n1, n2, n3, n4>>[(r % Cardinality(Nodes)) + 1]]

\* Successive proposers build different blocks.
BuiltPerRound == [r \in Rounds |-> IF r % 2 = 0 THEN {A} ELSE {B}]

\* In round 0 build_block may also return a block that verify_block rejects.
BuiltInvalid == [r \in Rounds |-> IF r = 0 THEN {A, X} ELSE {B}]

\* No usable block in round 0, a valid one afterwards.
BuiltLate == [r \in Rounds |-> IF r = 0 THEN {X, NoBlock} ELSE {B}]

\* The timer of round 0 may expire at every node.
FirstExpires == [i \in Nodes |-> {0}]

\* The timer of round 1 may expire as well, at a quorum.
QuorumExpiresTwice == [i \in Nodes |-> IF i = n1 THEN {0} ELSE {0, 1}]

\* Three nodes may time out of round 0, and one of them of round 1 as well.  The fourth
\* leaves round 0 only by a jump and may then time out of round 1.
LastJumps == [i \in Nodes |-> IF i = n4 THEN {1} ELSE IF i = n3 THEN {0, 1} ELSE {0}]
=============================================================================
