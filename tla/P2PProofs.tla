------------------------------ MODULE P2PProofs ------------------------------
(***************************************************************************)
(* The safety properties of P2P for any number of nodes, callers and       *)
(* messages and any channel size.                                          *)
(***************************************************************************)
EXTENDS P2P, TLAPS

\* gossipsub has seen whatever was relayed to a channel or published.
SeenFirst ==
    \A n \in Nodes :
        /\ published[n] \subseteq seen[n]
        /\ \A p \in Topics : \A i \in 1 .. Len(relayed[n][p]) : relayed[n][p][i] \in seen[n]

Inv == TypeOK /\ SeenFirst /\ RelayedOnce

\* What a relay does to the history and to the service: data of the topic's type is
\* appended, or nothing.
LEMMA RelayCases ==
    ASSUME TypeOK, NEW n \in Nodes, NEW p \in Topics, NEW d \in Data, Relay(n, p, d)
    PROVE  \/ UNCHANGED <<inbox, service, relayed>>
           \/ /\ p \notin Kept[n]
              /\ service' = [service EXCEPT ![n] = "panicked"]
              /\ UNCHANGED <<inbox, relayed>>
           \/ /\ Kind[d] = p
              /\ inbox' = [inbox EXCEPT ![n][p] = Append(@, d)]
              /\ relayed' = [relayed EXCEPT ![n][p] = Append(@, d)]
              /\ UNCHANGED service
BY DEF Relay, Deserializes

\* Appending data that gossipsub has not seen before keeps the history duplicate-free.
LEMMA AppendOnce ==
    ASSUME Inv, NEW n \in Nodes, NEW p \in Topics, NEW d \in Data, d \notin seen[n],
           Kind[d] = p, relayed' = [relayed EXCEPT ![n][p] = Append(@, d)]
    PROVE  /\ RelayedOnce'
           /\ \A m \in Nodes, q \in Topics : \A i \in 1 .. Len(relayed'[m][q]) :
                 relayed'[m][q][i] \in seen[m] \cup (IF m = n THEN {d} ELSE {})
           /\ relayed' \in [Nodes -> [Topics -> Seq(Data)]]
<1> USE DEF Inv, TypeOK
<1>1. /\ relayed' \in [Nodes -> [Topics -> Seq(Data)]]
      /\ relayed'[n][p] = Append(relayed[n][p], d)
      /\ \A m \in Nodes, q \in Topics : m # n \/ q # p => relayed'[m][q] = relayed[m][q]
  <2>1. Append(relayed[n][p], d) \in Seq(Data)
    OBVIOUS
  <2> QED
    BY <2>1
<1>2. /\ Len(relayed'[n][p]) = Len(relayed[n][p]) + 1
      /\ relayed'[n][p][Len(relayed[n][p]) + 1] = d
      /\ \A i \in 1 .. Len(relayed[n][p]) : relayed'[n][p][i] = relayed[n][p][i]
  BY <1>1
<1>3. ASSUME NEW m \in Nodes, NEW q \in Topics, NEW i \in 1 .. Len(relayed'[m][q])
      PROVE  /\ relayed'[m][q][i] \in seen[m] \cup (IF m = n THEN {d} ELSE {})
             /\ Kind[relayed'[m][q][i]] = q
             /\ \A j \in 1 .. Len(relayed'[m][q]) :
                   relayed'[m][q][i] = relayed'[m][q][j] => i = j
  <2>0. Len(relayed[m][q]) \in Nat
    OBVIOUS
  <2>1. CASE m # n \/ q # p
    BY <1>1, <2>1 DEF SeenFirst, RelayedOnce
  <2>2. CASE m = n /\ q = p
    BY <1>2, <2>0, <2>2 DEF SeenFirst, RelayedOnce
  <2> QED
    BY <2>1, <2>2
<1> QED
  BY <1>1, <1>3 DEF RelayedOnce

\* It holds initially.
LEMMA InitInv == Init => Inv
<1> SUFFICES ASSUME Init PROVE Inv
  OBVIOUS
<1>1. TypeOK
  BY P2PAssumption DEF Init, TypeOK
<1>2. \A n \in Nodes, p \in Topics : relayed[n][p] = <<>>
  BY DEF Init
<1> QED
  BY <1>1, <1>2 DEF Init, Inv, SeenFirst, RelayedOnce

\* Every step keeps the invariant.
LEMMA NextInv ==
    ASSUME Inv, [Next]_vars
    PROVE  Inv'
<1> USE P2PAssumption DEF Inv
<1>1. ASSUME NEW n \in Nodes, NEW c \in Callers, NEW d \in Data, Broadcast(n, c, d)
      PROVE  Inv'
  <2> DEFINE v == IF Size[d] > MaxMessageSize THEN Panicked
                  ELSE [topic |-> Kind[d], data |-> d]
  <2>1. v \in Requests \cup {None, Panicked}
    <3>1. Kind[d] \in Topics
      BY <1>1 DEF Broadcast
    <3> QED
      BY <3>1 DEF Requests
  <2>2. call' = [call EXCEPT ![n][c] = v]
    BY <1>1 DEF Broadcast
  <2> HIDE DEF v
  <2>3. call' \in [Nodes -> [Callers -> Requests \cup {None, Panicked}]]
    BY <2>1, <2>2 DEF TypeOK
  <2>4. TypeOK'
    BY <1>1, <2>3 DEF Broadcast, TypeOK
  <2> QED
    BY <1>1, <2>4 DEF Broadcast, SeenFirst, RelayedOnce
<1>2. ASSUME NEW n \in Nodes, NEW c \in Callers, Send(n, c)
      PROVE  Inv'
  <2>1. call[n][c] \in Requests
    BY <1>2 DEF Send, TypeOK
  <2>2. TypeOK'
    <3>1. call' \in [Nodes -> [Callers -> Requests \cup {None, Panicked}]]
      <4>1. \/ call' = [call EXCEPT ![n][c] = Panicked]
            \/ call' = [call EXCEPT ![n][c] = None]
        BY <1>2 DEF Send
      <4>2. CASE call' = [call EXCEPT ![n][c] = Panicked]
        BY <4>2 DEF TypeOK
      <4>3. CASE call' = [call EXCEPT ![n][c] = None]
        BY <4>3 DEF TypeOK
      <4> QED
        BY <4>1, <4>2, <4>3
    <3>2. Append(requests[n], call[n][c]) \in Seq(Requests)
      BY <2>1 DEF TypeOK
    <3>3. requests' \in [Nodes -> Seq(Requests)]
      <4>1. \/ UNCHANGED requests
            \/ requests' = [requests EXCEPT ![n] = Append(requests[n], call[n][c])]
        BY <1>2 DEF Send
      <4>2. CASE UNCHANGED requests
        BY <4>2 DEF TypeOK
      <4>3. CASE requests' = [requests EXCEPT ![n] = Append(requests[n], call[n][c])]
        BY <3>2, <4>3 DEF TypeOK
      <4> QED
        BY <4>1, <4>2, <4>3
    <3>4. UNCHANGED <<service, inbox, relayed, gossip, seen, published>>
      BY <1>2 DEF Send
    <3> QED
      BY <3>1, <3>3, <3>4 DEF TypeOK
  <2> QED
    BY <1>2, <2>2 DEF Send, SeenFirst, RelayedOnce
<1>3. ASSUME NEW n \in Nodes, HandleRequest(n)
      PROVE  Inv'
  <2> DEFINE m == [topic |-> Head(requests[n]).topic, data |-> Head(requests[n]).data,
                   from |-> n]
  <2>1. Head(requests[n]) \in Requests /\ Tail(requests[n]) \in Seq(Requests)
    <3>1. requests[n] \in Seq(Requests) /\ requests[n] # <<>>
      BY <1>3 DEF HandleRequest, TypeOK
    <3> QED
      BY <3>1
  <2>2. m \in Messages /\ m.data \in Data
    BY <2>1 DEF Messages, Requests
  <2>3. \/ UNCHANGED <<gossip, seen, published>>
        \/ /\ gossip' = gossip \cup {m}
           /\ seen' = [seen EXCEPT ![n] = @ \cup {m.data}]
           /\ published' = [published EXCEPT ![n] = @ \cup {m.data}]
    BY <1>3 DEF HandleRequest, Publish, MessageId
  <2>4. /\ requests' = [requests EXCEPT ![n] = Tail(@)] /\ UNCHANGED <<call, inbox, relayed>>
        /\ service' \in {service, [service EXCEPT ![n] = "panicked"]}
    BY <1>3 DEF HandleRequest, Publish
  <2> HIDE DEF m
  <2>5. TypeOK'
    <3>1. requests' \in [Nodes -> Seq(Requests)]
      BY <2>1, <2>4 DEF TypeOK
    <3>2. gossip' \subseteq Messages /\ seen' \in [Nodes -> SUBSET Data]
            /\ published' \in [Nodes -> SUBSET Data]
      <4>1. CASE UNCHANGED <<gossip, seen, published>>
        BY <4>1 DEF TypeOK
      <4>2. CASE /\ gossip' = gossip \cup {m}
                 /\ seen' = [seen EXCEPT ![n] = @ \cup {m.data}]
                 /\ published' = [published EXCEPT ![n] = @ \cup {m.data}]
        <5>1. seen[n] \cup {m.data} \in SUBSET Data /\ published[n] \cup {m.data} \in SUBSET Data
          BY <2>2 DEF TypeOK
        <5>2. gossip' \subseteq Messages
          BY <2>2, <4>2 DEF TypeOK
        <5>3. seen' \in [Nodes -> SUBSET Data]
          BY <4>2, <5>1 DEF TypeOK
        <5>4. published' \in [Nodes -> SUBSET Data]
          BY <4>2, <5>1 DEF TypeOK
        <5> QED
          BY <5>2, <5>3, <5>4
      <4> QED
        BY <2>3, <4>1, <4>2
    <3>3. service' \in [Nodes -> {"running", "panicked"}]
      BY <2>4 DEF TypeOK
    <3> QED
      BY <2>4, <3>1, <3>2, <3>3 DEF TypeOK
  <2>6. SeenFirst'
    <3>1. \A k \in Nodes : seen[k] \subseteq seen'[k] /\ published'[k] \subseteq seen'[k]
      BY <2>3 DEF SeenFirst, TypeOK
    <3> QED
      BY <2>4, <3>1 DEF SeenFirst
  <2> QED
    BY <2>4, <2>5, <2>6 DEF RelayedOnce
<1>4. ASSUME NEW n \in Nodes, NEW m \in gossip, HandleMessage(n, m)
      PROVE  Inv'
  <2>1. m.data \in Data /\ m.topic \in Topics /\ m.data \notin seen[n]
    BY <1>4 DEF HandleMessage, TypeOK, Messages, MessageId
  <2>2. /\ seen' = [seen EXCEPT ![n] = @ \cup {m.data}]
        /\ UNCHANGED <<call, requests, gossip, published>>
    BY <1>4 DEF HandleMessage, MessageId
  <2>3. Relay(n, m.topic, m.data)
    BY <1>4 DEF HandleMessage
  <2>4. CASE UNCHANGED <<inbox, relayed>> /\ service' \in {service, [service EXCEPT ![n] = "panicked"]}
    <3>1. TypeOK'
      BY <2>1, <2>2, <2>4 DEF TypeOK
    <3>2. \A k \in Nodes : seen[k] \subseteq seen'[k]
      BY <2>2 DEF TypeOK
    <3>3. SeenFirst'
      BY <2>2, <2>4, <3>2 DEF SeenFirst
    <3>4. RelayedOnce'
      BY <2>4 DEF RelayedOnce
    <3> QED
      BY <3>1, <3>3, <3>4
  <2>5. CASE /\ Kind[m.data] = m.topic
             /\ inbox' = [inbox EXCEPT ![n][m.topic] = Append(@, m.data)]
             /\ relayed' = [relayed EXCEPT ![n][m.topic] = Append(@, m.data)]
             /\ UNCHANGED service
    <3>1. /\ RelayedOnce'
          /\ \A k \in Nodes, q \in Topics : \A i \in 1 .. Len(relayed'[k][q]) :
                relayed'[k][q][i] \in seen[k] \cup (IF k = n THEN {m.data} ELSE {})
          /\ relayed' \in [Nodes -> [Topics -> Seq(Data)]]
      BY <2>1, <2>5, AppendOnce
    <3>2. inbox' \in [Nodes -> [Topics -> Seq(Data)]]
      <4>1. Append(inbox[n][m.topic], m.data) \in Seq(Data)
        BY <2>1 DEF TypeOK
      <4> QED
        BY <2>5, <4>1 DEF TypeOK
    <3>3. TypeOK'
      <4>1. seen' \in [Nodes -> SUBSET Data]
        BY <2>1, <2>2 DEF TypeOK
      <4> QED
        BY <2>2, <2>5, <3>1, <3>2, <4>1 DEF TypeOK
    <3>4. SeenFirst'
      BY <2>2, <3>1 DEF SeenFirst, TypeOK
    <3> QED
      BY <3>1, <3>3, <3>4
  <2> QED
    BY <2>1, <2>3, <2>4, <2>5, RelayCases
<1>5. ASSUME NEW n \in Nodes, NEW p \in Topics, Consume(n, p)
      PROVE  Inv'
  <2>1. Tail(inbox[n][p]) \in Seq(Data)
    BY <1>5 DEF Consume, TypeOK
  <2>2. TypeOK'
    BY <1>5, <2>1 DEF Consume, TypeOK
  <2> QED
    BY <1>5, <2>2 DEF Consume, SeenFirst, RelayedOnce
<1>6. ASSUME NEW q \in Strange, Foreign(q)
      PROVE  Inv'
  <2>1. [topic |-> q.topic, data |-> q.data, from |-> None] \in Messages
    BY DEF Messages, Requests
  <2>2. gossip' \subseteq Messages
    BY <1>6, <2>1 DEF Foreign, TypeOK
  <2>3. TypeOK'
    BY <1>6, <2>2 DEF Foreign, TypeOK
  <2> QED
    BY <1>6, <2>3 DEF Foreign, SeenFirst, RelayedOnce
<1>7. CASE UNCHANGED vars
  BY <1>7 DEF vars, TypeOK, SeenFirst, RelayedOnce
<1> QED
  BY <1>1, <1>2, <1>3, <1>4, <1>5, <1>6, <1>7 DEF Next

\* What gossipsub has seen bounds what is relayed.
THEOREM Invariance == Spec => []Inv
<1>1. Inv /\ [Next]_vars => Inv'
  BY NextInv
<1> QED
  BY <1>1, InitInv, PTL DEF Spec

\* Every variable keeps its type.
THEOREM TypeCorrect == Spec => []TypeOK
BY Invariance, PTL DEF Inv

\* No channel gets data of another type, or the same data twice.
THEOREM OnceTheorem == Spec => []RelayedOnce
BY Invariance, PTL DEF Inv

\* What a node has published never comes back to it.
THEOREM EchoTheorem == Spec => NoEcho
<1>1. Inv /\ [Next]_vars =>
        [\A n \in Nodes, p \in Topics : relayed'[n][p] # relayed[n][p] =>
            relayed'[n][p][Len(relayed'[n][p])] \notin published[n]]_vars
  <2> SUFFICES ASSUME Inv, Next, NEW n \in Nodes, NEW p \in Topics,
                      relayed'[n][p] # relayed[n][p]
               PROVE  relayed'[n][p][Len(relayed'[n][p])] \notin published[n]
    OBVIOUS
  <2>1. PICK k \in Nodes, m \in gossip : HandleMessage(k, m)
    BY DEF Next, Broadcast, Send, HandleRequest, Consume, Foreign
  <2>2. m.data \in Data /\ m.topic \in Topics /\ m.data \notin seen[k]
    BY <2>1 DEF HandleMessage, Inv, TypeOK, Messages, MessageId
  <2>3. relayed' = [relayed EXCEPT ![k][m.topic] = Append(@, m.data)]
    BY <2>1, <2>2, RelayCases DEF HandleMessage, Inv
  <2>4. k = n /\ m.topic = p
    BY <2>2, <2>3 DEF Inv, TypeOK
  <2>5. relayed'[n][p] = Append(relayed[n][p], m.data) /\ relayed[n][p] \in Seq(Data)
    BY <2>2, <2>3, <2>4 DEF Inv, TypeOK
  <2>6. relayed'[n][p][Len(relayed'[n][p])] = m.data
    BY <2>2, <2>5
  <2> QED
    BY <2>2, <2>4, <2>6 DEF Inv, SeenFirst
<1> QED
  BY <1>1, Invariance, PTL DEF Spec, NoEcho
=============================================================================
