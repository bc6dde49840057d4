----------------------------- MODULE MCQuorumWait -----------------------------
(***************************************************************************)
(* The instance of QuorumWait: four validators, of which any may send a    *)
(* message that is not valid first.                                        *)
(***************************************************************************)
EXTENDS QuorumWait

CONSTANTS v1, v2, v3, v4

Four == {v1, v2, v3, v4}
=============================================================================
