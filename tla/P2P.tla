-------------------------------- MODULE P2P ---------------------------------
(***************************************************************************)
(* The p2p crate: the proxies through which each node broadcasts, the      *)
(* P2PService loop that publishes and relays, and the bounded channels     *)
(* between them and the rest of the node.                                  *)
(*                                                                         *)
(* libp2p is external.  A published message may reach every other node     *)
(* that subscribed to its topic, in any order, or be lost; gossipsub shows *)
(* a node no message whose id it has seen (within its duplicate cache),    *)
(* and refuses to publish one.  Bytes are named by a member of Data; Kind  *)
(* says as what they deserialize and Size how many there are.              *)
(***************************************************************************)
EXTENDS Integers, Sequences, FiniteSets

CONSTANTS
    Nodes,
    Validators,      \* the nodes with Config.is_validator
    Callers,         \* the tasks of a node that broadcast
    Data,
    Kind,            \* Kind[d]: the topic whose type d deserializes to, or another value
    Size,            \* Size[d]: the number of bytes
    MaxMessageSize,  \* MAX_MESSAGE_SIZE
    MaxTransmitSize, \* gossipsub's max_transmit_size, which the code leaves at its default
    ChannelSize,     \* CHANNEL_SIZE
    Read,            \* Read[n]: the topics whose channel node n reads
    Kept,            \* Kept[n]: the topics whose receiver node n keeps
    Made,            \* Made[n]: what the tasks of node n broadcast
    Strange,         \* what peers that do not run this code publish
    None,            \* no data
    Panicked         \* what a caller that panicked is doing

\* GossipTopicTag, and the topics of the node's network with the same names.
Topics == {"consensus", "block"}

\* P2PRequest::Broadcast.
Requests == [topic : Topics, data : Data]

ASSUME P2PAssumption ==
    /\ Validators \subseteq Nodes
    /\ MaxMessageSize \in Nat /\ MaxTransmitSize \in Nat
    /\ Size \in [Data -> Nat]
    /\ ChannelSize \in Nat \ {0}
    /\ None \notin Data \cup Nodes
    /\ {None, Panicked} \cap Requests = {} /\ None # Panicked
    /\ Read \in [Nodes -> SUBSET Topics] /\ Kept \in [Nodes -> SUBSET Topics]
    /\ \A n \in Nodes : Read[n] \subseteq Kept[n]
    /\ Made \in [Nodes -> SUBSET {d \in Data : Kind[d] \in Topics}]
    /\ Strange \subseteq Requests

VARIABLES
    call,       \* the data a caller is sending, None when idle, or Panicked
    requests,   \* the request channel of a node
    inbox,      \* its consensus and its block channel
    service,    \* whether its P2PService runs
    seen,       \* the message ids gossipsub has seen
    gossip,     \* the messages published in the network
    published,  \* history: the data a node has published
    relayed     \* history: the data its service has put into each channel

vars == <<call, requests, inbox, service, seen, gossip, published, relayed>>

\* What is published, None standing for a peer that does not run this code.
Messages == [topic : Topics, data : Data, from : Nodes \cup {None}]

TypeOK ==
    /\ call \in [Nodes -> [Callers -> Requests \cup {None, Panicked}]]
    /\ requests \in [Nodes -> Seq(Requests)]
    /\ inbox \in [Nodes -> [Topics -> Seq(Data)]]
    /\ service \in [Nodes -> {"running", "panicked"}]
    /\ seen \in [Nodes -> SUBSET Data]
    /\ gossip \subseteq Messages
    /\ published \in [Nodes -> SUBSET Data]
    /\ relayed \in [Nodes -> [Topics -> Seq(Data)]]

Init ==
    /\ call = [n \in Nodes |-> [c \in Callers |-> None]]
    /\ requests = [n \in Nodes |-> <<>>]
    /\ inbox = [n \in Nodes |-> [p \in Topics |-> <<>>]]
    /\ service = [n \in Nodes |-> "running"]
    /\ seen = [n \in Nodes |-> {}]
    /\ gossip = {}
    /\ published = [n \in Nodes |-> {}]
    /\ relayed = inbox

\* build_gossipsub_behaviour.
Subscribed(n) == IF n \in Validators THEN Topics ELSE {"block"}

-----------------------------------------------------------------------------
(* The proxy *)

\* broadcast_message and broadcast_block: serialize fails above the maximum size, and
\* the caller expects that it does not.
Broadcast(n, c, d) ==
    /\ call[n][c] = None
    /\ d \in Made[n]
    /\ call' = [call EXCEPT ![n][c] =
                  IF Size[d] > MaxMessageSize THEN Panicked
                  ELSE [topic |-> Kind[d], data |-> d]]
    /\ UNCHANGED <<requests, inbox, service, seen, gossip, published, relayed>>

\* broadcast_network: the caller waits for room in the request channel.  When the service
\* has panicked the receiver is gone and the caller panics too.
Send(n, c) ==
    /\ call[n][c] \notin {None, Panicked}
    /\ IF service[n] = "panicked"
       THEN /\ call' = [call EXCEPT ![n][c] = Panicked]
            /\ UNCHANGED requests
       ELSE /\ Len(requests[n]) < ChannelSize
            /\ requests' = [requests EXCEPT ![n] = Append(@, call[n][c])]
            /\ call' = [call EXCEPT ![n][c] = None]
    /\ UNCHANGED <<inbox, service, seen, gossip, published, relayed>>

-----------------------------------------------------------------------------
(* The service *)

\* Mutant: gossipsub's default id, made of the sender and its sequence number.
MessageId_Default(m) == <<m.from, m.data>>

\* message_id_fn: the hash of the data.
MessageId(m) == m.data

\* publish_message: no data at all fails an assertion; otherwise gossipsub publishes the
\* message or returns an error, which it may also do because there is no peer.
Publish(n, m) ==
    \/ /\ Size[m.data] = 0
       /\ service' = [service EXCEPT ![n] = "panicked"]
       /\ UNCHANGED <<gossip, seen, published>>
    \/ /\ Size[m.data] # 0
       /\ MessageId(m) \notin seen[n]
       /\ Size[m.data] <= MaxTransmitSize
       /\ gossip' = gossip \cup {m}
       /\ seen' = [seen EXCEPT ![n] = @ \cup {MessageId(m)}]
       /\ published' = [published EXCEPT ![n] = @ \cup {m.data}]
       /\ UNCHANGED service
    \/ Size[m.data] # 0 /\ UNCHANGED <<gossip, seen, published, service>>

\* The request branch; an error is logged.
HandleRequest(n) ==
    /\ service[n] = "running"
    /\ requests[n] # <<>>
    /\ requests' = [requests EXCEPT ![n] = Tail(@)]
    /\ Publish(n, [topic |-> Head(requests[n]).topic, data |-> Head(requests[n]).data,
                   from |-> n])
    /\ UNCHANGED <<call, inbox, relayed>>

\* GossipCodec::deserialize.
Deserializes(p, d) == Size[d] <= MaxMessageSize /\ Kind[d] = p

\* Mutant: the service waits for room in a full channel.
Relay_Wait(n, p, d) ==
    CASE ~Deserializes(p, d) -> UNCHANGED <<inbox, service, relayed>>
      [] p \notin Kept[n] ->
            service' = [service EXCEPT ![n] = "panicked"] /\ UNCHANGED <<inbox, relayed>>
      [] Len(inbox[n][p]) >= ChannelSize ->
            service' = [service EXCEPT ![n] = "blocked"] /\ UNCHANGED <<inbox, relayed>>
      [] OTHER ->
            /\ inbox' = [inbox EXCEPT ![n][p] = Append(@, d)]
            /\ relayed' = [relayed EXCEPT ![n][p] = Append(@, d)]
            /\ UNCHANGED service

\* Mutant: what does not deserialize is passed on.
Relay_Undecoded(n, p, d) ==
    IF Len(inbox[n][p]) >= ChannelSize
    THEN UNCHANGED <<inbox, service, relayed>>
    ELSE /\ inbox' = [inbox EXCEPT ![n][p] = Append(@, d)]
         /\ relayed' = [relayed EXCEPT ![n][p] = Append(@, d)]
         /\ UNCHANGED service

\* relay_message: a message that is too large or does not deserialize is an error that
\* is logged; try_send panics if the receiver is gone and drops the message if the
\* channel is full.
Relay(n, p, d) ==
    CASE ~Deserializes(p, d) -> UNCHANGED <<inbox, service, relayed>>
      [] p \notin Kept[n] ->
            service' = [service EXCEPT ![n] = "panicked"] /\ UNCHANGED <<inbox, relayed>>
      [] Len(inbox[n][p]) >= ChannelSize -> UNCHANGED <<inbox, service, relayed>>
      [] OTHER ->
            /\ inbox' = [inbox EXCEPT ![n][p] = Append(@, d)]
            /\ relayed' = [relayed EXCEPT ![n][p] = Append(@, d)]
            /\ UNCHANGED service

\* The event branch: handle_gossipsub_event for a message of a topic the node has
\* subscribed to.
HandleMessage(n, m) ==
    /\ service[n] = "running"
    /\ m \in gossip
    /\ m.topic \in Subscribed(n)
    /\ MessageId(m) \notin seen[n]
    /\ seen' = [seen EXCEPT ![n] = @ \cup {MessageId(m)}]
    /\ Relay(n, m.topic, m.data)
    /\ UNCHANGED <<call, requests, gossip, published>>

-----------------------------------------------------------------------------
(* The rest of the node, and other peers *)

\* The receiver of a channel takes a message.
Consume(n, p) ==
    /\ p \in Read[n]
    /\ inbox[n][p] # <<>>
    /\ inbox' = [inbox EXCEPT ![n][p] = Tail(@)]
    /\ UNCHANGED <<call, requests, service, seen, gossip, published, relayed>>

\* Another peer publishes bytes that may be of another type than the topic's, and again
\* and again if it likes.
Foreign(q) ==
    /\ Size[q.data] <= MaxTransmitSize
    /\ gossip' = gossip \cup {[topic |-> q.topic, data |-> q.data, from |-> None]}
    /\ UNCHANGED <<call, requests, inbox, service, seen, published, relayed>>

Next ==
    \/ \E n \in Nodes, c \in Callers : Send(n, c) \/ \E d \in Data : Broadcast(n, c, d)
    \/ \E n \in Nodes : HandleRequest(n) \/ \E m \in gossip : HandleMessage(n, m)
    \/ \E n \in Nodes, p \in Topics : Consume(n, p)
    \/ \E q \in Strange : Foreign(q)

Spec == Init /\ [][Next]_vars

\* select! polls its branches in random order, so a request is not passed over for ever,
\* and waiting senders get room in the order in which they came.
FairSpec ==
    /\ Spec
    /\ \A n \in Nodes : WF_vars(HandleRequest(n))
    /\ \A n \in Nodes, c \in Callers : SF_vars(Send(n, c))

-----------------------------------------------------------------------------
(* Properties *)

\* A channel gets data of its own type only, and each at most once although several
\* peers publish it.
RelayedOnce ==
    \A n \in Nodes, p \in Topics : LET q == relayed[n][p] IN
        \A i \in 1 .. Len(q) :
            /\ Kind[q[i]] = p
            /\ \A j \in 1 .. Len(q) : q[i] = q[j] => i = j

\* A node does not get back what it published before.
NoEcho ==
    [][\A n \in Nodes, p \in Topics : relayed'[n][p] # relayed[n][p] =>
          relayed'[n][p][Len(relayed'[n][p])] \notin published[n]]_vars

\* Every broadcast ends, although a channel that nobody reads is full, other callers want
\* the same room and a peer goes on publishing; where the service has panicked, it ends in
\* a panic of the caller and leaves no one waiting.
BroadcastReturns ==
    \A n \in Nodes, c \in Callers : call[n][c] # None ~> call[n][c] \in {None, Panicked}
=============================================================================
