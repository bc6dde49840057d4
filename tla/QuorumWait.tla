----------------------------- MODULE QuorumWait -----------------------------
(***************************************************************************)
(* How a task of IBFT waits for a number of valid messages of one view:    *)
(* the loops of run_prepare, run_commit, wait_rcc and wait_future_rcc over *)
(* the map of ConsensusMessages for that view and the broadcast channel    *)
(* that announces its new messages.                                        *)
(*                                                                         *)
(* The task subscribes, counts the stored messages under the map's lock,   *)
(* and from then on counts announcements; when that estimate reaches the   *)
(* target it locks the map and counts again.  The loop itself ends on the  *)
(* estimate: while count < target.  Messages arrive between any two of     *)
(* these steps, and a message that arrives between the subscription and    *)
(* the count is counted twice.                                             *)
(***************************************************************************)
EXTENDS Integers, FiniteSets

CONSTANTS
    Validators,    \* the senders of messages
    Target,        \* quorum, or quorum - 1 for prepares
    ChannelSize,   \* CHANNEL_SIZE, 128 in messages.rs
    MaxOther       \* bound: announcements of other views

ASSUME ValidatorsAssumption == IsFiniteSet(Validators)

ASSUME WaitAssumption ==
    /\ Target \in Nat \ {0}
    /\ ChannelSize \in Nat \ {0}
    /\ MaxOther \in Nat

VARIABLES
    loop,          \* which of the loops the task is in
    messages,      \* messages[v]: the entry of sender v in the map of the view
    unread,        \* announcements of the view in the task's receiver
    other,         \* announcements of other views in it
    others,        \* how many of these were sent
    count,         \* the task's estimate
    result,        \* the senders of the messages the last count returned, {} for None
    pc             \* the task's control point

vars == <<loop, messages, unread, other, others, count, result, pc>>

\* "prepare" is the loop of run_prepare, "take" the ones of run_commit and wait_rcc, which
\* consume the messages, and "future" the one of wait_future_rcc, whose first count does
\* not verify them.
Loops == {"prepare", "take", "future"}
Verify == loop # "future"
Take == loop = "take"

Entries == {"vacant", "valid", "invalid"}

\* "test" is the condition of the while.  "panicked": recv returned Err(Lagged), or the
\* loop ended without messages to return; the code expects neither.
ControlPoints == {"subscribe", "count", "test", "wait", "recount", "done", "panicked"}

TypeOK ==
    /\ loop \in Loops
    /\ messages \in [Validators -> Entries]
    /\ unread \in Nat
    /\ other \in Nat
    /\ others \in 0 .. MaxOther
    /\ count \in Nat
    /\ result \in SUBSET Validators
    /\ pc \in ControlPoints

Init ==
    /\ loop \in Loops
    /\ messages = [v \in Validators |-> "vacant"]
    /\ unread = 0
    /\ other = 0
    /\ others = 0
    /\ count = 0
    /\ result = {}
    /\ pc = "subscribe"

Stored == {v \in Validators : messages[v] # "vacant"}
Valid == {v \in Validators : messages[v] = "valid"}

\* Mutant: the receiver is created after the first count.
Subscribed_Late == pc \in {"wait", "recount"}

\* The task has a receiver.
Subscribed == pc \in {"count", "test", "wait", "recount"}

\* The receiver has missed announcements: its next recv fails.
Lagged == unread + other > ChannelSize

-----------------------------------------------------------------------------
(* The store *)

\* add_prepare_message, add_commit_message, add_round_change_message: the first
\* message of a sender is stored and announced, the next ones are dropped.
Add(v, m) ==
    /\ messages[v] = "vacant"
    /\ messages' = [messages EXCEPT ![v] = m]
    /\ unread' = IF Subscribed /\ ~Lagged THEN unread + 1 ELSE unread
    /\ UNCHANGED <<loop, other, others, count, result, pc>>

\* A message of another view is announced on the same channel.
AddOther ==
    /\ others < MaxOther
    /\ others' = others + 1
    /\ other' = IF Subscribed /\ ~Lagged THEN other + 1 ELSE other
    /\ UNCHANGED <<loop, messages, unread, count, result, pc>>

-----------------------------------------------------------------------------
(* The waiting task *)

Subscribe ==
    /\ pc = "subscribe"
    /\ pc' = "count"
    /\ UNCHANGED <<loop, messages, unread, other, others, count, result>>

\* Another iteration: the loop of wait_future_rcc has no condition.
Again == IF Verify THEN "test" ELSE "wait"

\* Mutant: after a count that falls short the estimate starts again from zero.
VerifiedCount_FromZero ==
    LET enough == Cardinality(Valid) >= Target
    IN  /\ count' = IF enough THEN Cardinality(Valid) ELSE 0
        /\ result' = IF enough THEN Valid ELSE {}
        /\ messages' = [v \in Validators |->
                          IF v \in Valid /\ ~(enough /\ Take) THEN "valid" ELSE "vacant"]
        /\ pc' = IF enough /\ ~Verify THEN "done" ELSE Again
        /\ UNCHANGED <<loop, unread, other, others>>

\* Mutant: the map of the view is taken before its messages are counted.
VerifiedCount_TakenFirst ==
    LET enough == Cardinality(Valid) >= Target
    IN  /\ count' = Cardinality(Valid)
        /\ result' = IF enough THEN Valid ELSE {}
        /\ messages' = [v \in Validators |-> IF v \in Valid /\ ~Take THEN "valid" ELSE "vacant"]
        /\ pc' = IF enough /\ ~Verify THEN "done" ELSE Again
        /\ UNCHANGED <<loop, unread, other, others>>

\* get_valid_prepare_count, get_valid_round_change_count, take_valid_commit_seals,
\* take_valid_round_change_messages: under the lock, drop the invalid messages and
\* count the rest; with a quorum, the taking ones empty the map and return its messages.
\* wait_future_rcc returns on a quorum at once, the others go on to their condition.
VerifiedCount ==
    LET enough == Cardinality(Valid) >= Target
    IN  /\ count' = Cardinality(Valid)
        /\ result' = IF enough THEN Valid ELSE {}
        /\ messages' = [v \in Validators |->
                          IF v \in Valid /\ ~(enough /\ Take) THEN "valid" ELSE "vacant"]
        /\ pc' = IF enough /\ ~Verify THEN "done" ELSE Again
        /\ UNCHANGED <<loop, unread, other, others>>

\* round_change_count_by_round: the number of messages, valid or not.
RawCount ==
    /\ count' = Cardinality(Stored)
    /\ pc' = IF count' >= Target THEN "recount" ELSE "wait"
    /\ UNCHANGED <<loop, messages, unread, other, others, result>>

Count ==
    /\ pc = "count"
    /\ IF Verify THEN VerifiedCount ELSE RawCount

\* while count < target; the expect after the loop fails without messages.
Test ==
    /\ pc = "test"
    /\ pc' = IF count < Target THEN "wait"
             ELSE IF Take /\ result = {} THEN "panicked" ELSE "done"
    /\ UNCHANGED <<loop, messages, unread, other, others, count, result>>

\* Mutant: the recount comes one announcement late.
Reached_Late(n) == n > Target

\* The estimate calls for a recount: == in the loops, >= in wait_future_rcc.
Reached(n) == IF Verify THEN n = Target ELSE n >= Target

\* recv returned the awaited view.
Receive ==
    /\ pc = "wait"
    /\ ~Lagged
    /\ unread > 0
    /\ unread' = unread - 1
    /\ count' = count + 1
    /\ pc' = IF Reached(count') THEN "recount" ELSE Again
    /\ UNCHANGED <<loop, messages, other, others, result>>

\* recv returned another view.
ReceiveOther ==
    /\ pc = "wait"
    /\ ~Lagged
    /\ other > 0
    /\ other' = other - 1
    /\ pc' = Again
    /\ UNCHANGED <<loop, messages, unread, others, count, result>>

\* recv returned Err(Lagged): the expect panics.
ReceiveLagged ==
    /\ pc = "wait"
    /\ Lagged
    /\ pc' = "panicked"
    /\ UNCHANGED <<loop, messages, unread, other, others, count, result>>

Recount ==
    /\ pc = "recount"
    /\ VerifiedCount

TaskStep ==
    Subscribe \/ Count \/ Test \/ Receive \/ ReceiveOther \/ ReceiveLagged \/ Recount

Next ==
    \/ \E v \in Validators, m \in {"valid", "invalid"} : Add(v, m)
    \/ AddOther
    \/ TaskStep

Spec == Init /\ [][Next]_vars

\* The runtime polls a task that is ready.
FairSpec == Spec /\ WF_vars(TaskStep)

-----------------------------------------------------------------------------
(* Properties *)

\* No wake-up is lost: a task that waits for the view's messages while the map holds
\* the target has an announcement to read (or is about to learn that it lagged).
\* Subscribing before counting is what makes it true.
NoLostWakeup ==
    pc = "wait" /\ Cardinality(Valid) >= Target => unread > 0 \/ Lagged

\* The condition of the while looks at the estimate, which may be too high, and still the
\* loop ends only with the target of valid messages of different senders: the expects on
\* the seals and on the round changes hold, and nothing but a lagging receiver panics.
EndsWithQuorum ==
    /\ pc = "done" => Cardinality(result) >= Target
    /\ pc = "panicked" => Lagged

\* The sets of senders that are enough for the loop.
Quorums == {S \in SUBSET Validators : Cardinality(S) >= Target}

Guard == INSTANCE QuorumGuard WITH ended <- result # {}

\* The loops are the guards as which the round task of IBFT has them: whatever the
\* estimate says, a wait is over with one count that finds the target of valid messages
\* in the map, and no count before that, nor one that falls short, loses a valid message.
ImplementsGuard == Guard!Spec

\* A stored quorum ends the loop, as long as the receiver does not lag.
QuorumEndsWait == Cardinality(Valid) >= Target ~> pc \in {"done", "panicked"}
=============================================================================
