------------------------------ MODULE Consensus ------------------------------
(***************************************************************************)
(* What one height of the consensus promises its callers: every run() that *)
(* returns a FinalizedBlock returns the same valid block, once.  How the   *)
(* nodes get there, in which round and with which messages, is left out.   *)
(* The promise has a condition, recorded: once it has failed, anything may *)
(* be finalized.                                                           *)
(***************************************************************************)
CONSTANTS
    Nodes,      \* the validators of the height
    Values,     \* the blocks that BlockService::verify_block accepts
    NoBlock     \* run() has not returned a block; not a member of Values

VARIABLES
    finalized,  \* finalized[i]: the block that run() of node i returned
    recorded    \* the promise is in force

Init ==
    /\ finalized = [i \in Nodes |-> NoBlock]
    /\ recorded = TRUE

\* Node i finalizes block b, the block of every node that has finalized already.
Finalize(i, b) ==
    /\ finalized[i] = NoBlock
    /\ \A j \in Nodes : finalized[j] \in {NoBlock, b}
    /\ finalized' = [finalized EXCEPT ![i] = b]
    /\ UNCHANGED recorded

\* The condition fails or has failed: nothing is said of finalized any more.
Void == recorded' = FALSE

Next ==
    \/ \E i \in Nodes, b \in Values : Finalize(i, b)
    \/ Void

\* Nothing restores the condition.
Spec == Init /\ [][Next]_<<finalized, recorded>>
=============================================================================
