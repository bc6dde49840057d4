-------------------------------- MODULE MCP2P -------------------------------
(***************************************************************************)
(* A validator with two tasks that broadcast, and a node that is none and, *)
(* like the nodes of the test p2p_initialize, has dropped its receivers:   *)
(* a block that reaches it ends its service.  Nobody reads the block       *)
(* channel of the validator.  A peer that publishes a block under the      *)
(* consensus topic sends bytes that do not deserialize.                    *)
(***************************************************************************)
EXTENDS P2P

CONSTANTS validator, other, c1, c2, vote, block, block2

KindOf == [d \in Data |-> IF d = vote THEN "consensus" ELSE "block"]
SizeOf == [d \in Data |-> 1]
ConsensusRead == [n \in Nodes |-> IF n = validator THEN {"consensus"} ELSE {}]

RoleMade == [n \in Nodes |-> IF n = validator THEN {vote} ELSE {block}]

\* Another block under the wrong topic and under its own, and a copy of the vote.
StrangeData ==
    {[topic |-> p, data |-> block2] : p \in Topics} \cup {[topic |-> "consensus", data |-> vote]}
RoleKept == [n \in Nodes |-> IF n = validator THEN Topics ELSE {}]
=============================================================================
