----------------------------- MODULE MCNodeStore -----------------------------
(***************************************************************************)
(* Two validators, whose quorum is both of them, and three rounds: this    *)
(* node proposes in the first and, with round changes, in the last one.    *)
(* A and B are valid blocks, X is not.                                     *)
(***************************************************************************)
EXTENDS NodeStoreInvariant

CONSTANTS me, peer, A, B, X

Alternate == [r \in Rounds |-> IF r = 1 THEN peer ELSE me]
=============================================================================
