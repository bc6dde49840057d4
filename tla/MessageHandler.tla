--------------------------- MODULE MessageHandler ---------------------------
(***************************************************************************)
(* The messages of one node over successive heights: the MessageHandler    *)
(* task that checks and stores what peers send, the ConsensusMessages maps *)
(* it shares with the running IBFT, and ConsensusEngine::run_height, which *)
(* moves the finalized height and prunes the maps when a height ends.      *)
(*                                                                         *)
(* The handler checks a message against the finalized height and then      *)
(* waits for the lock of its map; the engine prunes the maps one lock at a *)
(* time.  What a message says beyond its kind, view and sender matters     *)
(* to IBFT, not here.                                                      *)
(***************************************************************************)
EXTENDS Integers, FiniteSets

CONSTANTS
    Self,          \* the address of the node
    Validators,    \* is_validator
    Addresses,     \* those who may sign a message
    MaxRound,      \* MAX_ROUND
    MaxHeight,     \* bound: the last height
    MaxStored,     \* bound: no message is added beyond this number
    Proposer,      \* Proposer[h][r]: is_proposer
    None

Heights == 1 .. MaxHeight
Rounds == 0 .. MaxRound
Kinds == {"proposal", "prepare", "commit", "round_change"}

Messages == [kind : Kinds, height : Nat, round : Nat, from : Addresses]

ASSUME HandlerAssumption ==
    /\ MaxRound \in Nat
    /\ MaxHeight \in Nat
    /\ MaxStored \in Nat
    /\ Validators \subseteq Addresses
    /\ Self \in Validators
    /\ Proposer \in [Heights -> [Rounds -> Validators]]
    /\ None \notin Messages

VARIABLES
    height,        \* the finalized height, shared by the handler and the engine
    store,         \* the messages in the five maps
    handling,      \* the message the handler has checked and not yet stored
    engine,        \* where run_height is
    running,       \* the height it runs
    pruned         \* how many of the five maps prune has done

vars == <<height, store, handling, engine, running, pruned>>

EngineStates == {"idle", "running", "finished", "pruning"}

TypeOK ==
    /\ height \in 0 .. MaxHeight
    /\ store \subseteq Messages
    /\ handling \in Messages \cup {None}
    /\ engine \in EngineStates
    /\ running \in 0 .. MaxHeight
    /\ pruned \in 0 .. 4

Init ==
    /\ height = 0
    /\ store = {}
    /\ handling = None
    /\ engine = "idle"
    /\ running = 0
    /\ pruned = 0

\* The maps in the order in which prune goes through them: proposals of round 0,
\* proposals of later rounds, prepares, commits, round changes.
MapOf(m) ==
    CASE m.kind = "proposal" /\ m.round = 0 -> 0
      [] m.kind = "proposal" /\ m.round # 0 -> 1
      [] m.kind = "prepare" -> 2
      [] m.kind = "commit" -> 3
      [] m.kind = "round_change" -> 4

-----------------------------------------------------------------------------
(* The message handler *)

\* The check of the sender, by kind of message.
SenderAllowed(m) ==
    /\ m.from \in Validators \ {Self}
    /\ m.kind = "proposal" => m.from = Proposer[m.height][m.round]
    /\ m.kind = "prepare" => m.from # Proposer[m.height][m.round]

\* Mutant: the finalized height is not checked.
Check_AnyHeight(m) ==
    /\ handling = None
    /\ Cardinality(store) < MaxStored
    /\ m.round <= MaxRound
    /\ m.kind = "round_change" => m.round # 0
    /\ SenderAllowed(m)
    /\ handling' = m
    /\ UNCHANGED <<height, store, engine, running, pruned>>

\* handle_consensus_message, up to the lock of the map.  A message that fails a check
\* is dropped; a commit seal of another signer than the message's is one of them.
Check(m) ==
    /\ handling = None
    /\ Cardinality(store) < MaxStored
    /\ m.height > height
    /\ m.round <= MaxRound
    /\ m.kind = "round_change" => m.round # 0
    /\ SenderAllowed(m)
    /\ handling' = m
    /\ UNCHANGED <<height, store, engine, running, pruned>>

\* add_proposal_message, add_prepare_message, add_commit_message and
\* add_round_change_message: the entry is filled if it is vacant.
Store ==
    /\ handling # None
    /\ store' = store \cup {handling}
    /\ handling' = None
    /\ UNCHANGED <<height, engine, running, pruned>>

-----------------------------------------------------------------------------
(* IBFT at the running height *)

\* The node stores a message of its own.
AddOwn(m) ==
    /\ engine = "running"
    /\ Cardinality(store) < MaxStored
    /\ m.from = Self
    /\ m.height = running
    /\ m.round <= MaxRound
    /\ m.kind \in {"proposal", "round_change"} => m.from = Proposer[m.height][m.round]
    /\ m.kind = "round_change" => m.round # 0
    /\ m.kind = "prepare" => m.from # Proposer[m.height][m.round]
    /\ store' = store \cup {m}
    /\ UNCHANGED <<height, handling, engine, running, pruned>>

\* The messages of one kind of a view are consumed: take_proposal_message,
\* take_valid_prepare_messages, take_valid_commit_seals,
\* take_valid_round_change_messages.
TakeView(kind, r) ==
    /\ engine = "running"
    /\ store' = {m \in store : ~(m.kind = kind /\ m.height = running /\ m.round = r)}
    /\ store' # store
    /\ UNCHANGED <<height, handling, engine, running, pruned>>

\* The retain of the counting operations drops a message that is not valid.
DropInvalid(m) ==
    /\ engine = "running"
    /\ m \in store
    /\ m.kind # "proposal"
    /\ m.height = running
    /\ store' = store \ {m}
    /\ UNCHANGED <<height, handling, engine, running, pruned>>

\* handle_round_finish takes the proposal, and IBFT::run returns Some.
Finish(r) ==
    /\ engine = "running"
    /\ \E p \in store :
          /\ p.kind = "proposal"
          /\ p.height = running
          /\ p.round = r
          /\ store' = store \ {p}
    /\ engine' = "finished"
    /\ UNCHANGED <<height, handling, running, pruned>>

\* IBFT::run returns None.
Cancel ==
    /\ engine = "running"
    /\ engine' = "idle"
    /\ UNCHANGED <<height, store, handling, running, pruned>>

-----------------------------------------------------------------------------
(* ConsensusEngine::run_height *)

\* The caller runs the next height, or a cancelled one again.
StartHeight(h) ==
    /\ engine = "idle"
    /\ h > height
    /\ h \in {running, running + 1}
    /\ engine' = "running"
    /\ running' = h
    /\ UNCHANGED <<height, store, handling, pruned>>

\* Mutant: the height to run next, not the finalized one.
UpdateHeight_Next ==
    /\ engine = "finished"
    /\ height' = running + 1
    /\ engine' = "pruning"
    /\ pruned' = 0
    /\ UNCHANGED <<store, handling, running>>

\* update_height.
UpdateHeight ==
    /\ engine = "finished"
    /\ height' = running
    /\ engine' = "pruning"
    /\ pruned' = 0
    /\ UNCHANGED <<store, handling, running>>

\* Mutant: one height too many.
PruneMap_NextToo ==
    /\ engine = "pruning"
    /\ store' = {m \in store : ~(MapOf(m) = pruned /\ m.height < height + 2)}
    /\ pruned' = IF pruned = 4 THEN 0 ELSE pruned + 1
    /\ engine' = IF pruned = 4 THEN "idle" ELSE "pruning"
    /\ UNCHANGED <<height, handling, running>>

\* prune: one map under its lock.
PruneMap ==
    /\ engine = "pruning"
    /\ store' = {m \in store : ~(MapOf(m) = pruned /\ m.height < height + 1)}
    /\ pruned' = IF pruned = 4 THEN 0 ELSE pruned + 1
    /\ engine' = IF pruned = 4 THEN "idle" ELSE "pruning"
    /\ UNCHANGED <<height, handling, running>>

-----------------------------------------------------------------------------
\* Peers send messages of any height and round up to one past the bounds.
Sent == [kind : Kinds, height : Heights, round : 0 .. MaxRound + 1, from : Addresses]

Next ==
    \/ \E m \in Sent : Check(m) \/ AddOwn(m)
    \/ Store
    \/ \E r \in Rounds : Finish(r) \/ \E kind \in Kinds : TakeView(kind, r)
    \/ \E m \in store : DropInvalid(m)
    \/ Cancel
    \/ \E h \in Heights : StartHeight(h)
    \/ UpdateHeight
    \/ PruneMap

Spec == Init /\ [][Next]_vars

-----------------------------------------------------------------------------
(* Properties *)

Stale(m) == m.height <= height

\* Once prune has returned, at most one message of a finalized height is left: the one
\* the handler had checked when the height moved.  The maps cannot grow with messages
\* of finished heights, however the handler and the engine interleave.
StaleAtMostOne ==
    engine # "pruning" => \A m, n \in store : Stale(m) /\ Stale(n) => m = n

\* A message of a height that is not run yet stays in the store: peers may be ahead, and
\* what they send must be there when the node gets to that height.
FutureKept == [][\A m \in store : m.height > running => m \in store']_vars
=============================================================================
