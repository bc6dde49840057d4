----------------------------- MODULE QuorumGuard -----------------------------
(***************************************************************************)
(* What the waiting loops of ibft.rs promise the round task: a wait for a  *)
(* number of valid messages of a view is a guard.  It is passed in one     *)
(* step, in which the messages are in the store; the store gives the first *)
(* message of every sender, and until then it loses none that is valid.    *)
(* Subscriptions, announcements and estimates are left out.                *)
(***************************************************************************)
CONSTANTS
    Validators,   \* the senders of messages
    Quorums       \* the sets of senders that are enough

VARIABLES
    messages,     \* messages[v]: the entry of sender v in the map of the view
    result,       \* the senders whose messages the wait ended with
    ended         \* the wait has ended

vars == <<messages, result, ended>>

Init ==
    /\ messages = [v \in Validators |-> "vacant"]
    /\ result = {}
    /\ ended = FALSE

Valid == {v \in Validators : messages[v] = "valid"}

\* The map without the entries of senders outside S.
Keep(S) == [v \in Validators |-> IF v \in S THEN messages[v] ELSE "vacant"]

\* The first message of a sender is stored.
Add(v, m) ==
    /\ messages[v] = "vacant"
    /\ messages' = [messages EXCEPT ![v] = m]
    /\ UNCHANGED <<result, ended>>

\* Messages that are not valid are discarded.
Discard ==
    /\ ~ended
    /\ messages' = Keep(Valid)
    /\ UNCHANGED <<result, ended>>

\* The guard is passed with the valid messages, which stay in the map or are taken.
Pass ==
    /\ ~ended
    /\ Valid \in Quorums
    /\ ended' = TRUE
    /\ result' = Valid
    /\ messages' \in {Keep(Valid), Keep({})}

Next ==
    \/ \E v \in Validators, m \in {"valid", "invalid"} : Add(v, m)
    \/ Discard
    \/ Pass

Spec == Init /\ [][Next]_vars
=============================================================================
