------------------------ MODULE MessageHandlerProofs ------------------------
(***************************************************************************)
(* Proofs that the message store keeps what is ahead and at most one       *)
(* message of what is past, for any validators, heights and rounds.        *)
(***************************************************************************)
EXTENDS MessageHandler, TLAPS

\* The run of prune that is under way, if any, has done m's map.
Done(m) == engine # "pruning" \/ MapOf(m) < pruned

\* A stale message left behind in a map that is done was the one being handled when the
\* height moved: there is one, and the handler now handles another.
Leftover ==
    \A m \in store : Stale(m) /\ Done(m) =>
        /\ handling # None => ~Stale(handling)
        /\ \A n \in store : Stale(n) /\ Done(n) => n = m

\* The height that is run is not finalized yet.
HeightAhead ==
    /\ height <= running
    /\ engine \in {"running", "finished"} => height < running

Inv == TypeOK /\ Leftover /\ HeightAhead

\* Every message has one of the five maps.
LEMMA MapType ==
    ASSUME NEW m \in Messages
    PROVE  MapOf(m) \in 0 .. 4
  BY DEF Messages, Kinds, MapOf

\* A step that moves neither the height nor prune, and adds no stale message, leaves
\* no more behind.
LEMMA LeftoverKept ==
    ASSUME Leftover, UNCHANGED <<height, pruned>>,
           engine # "pruning", engine' # "pruning",
           \A m \in store' : m \in store \/ ~Stale(m),
           handling' = handling
    PROVE  Leftover'
<1> SUFFICES ASSUME NEW m \in store', Stale(m)'
             PROVE  /\ handling' # None => ~Stale(handling)'
                    /\ \A n \in store' : Stale(n)' => n = m
  BY DEF Leftover
<1>1. ASSUME NEW n \in store', Stale(n)'
      PROVE  n \in store /\ Stale(n) /\ Done(n)
  <2>1. Stale(n)
    BY <1>1 DEF Stale
  <2> QED
    BY <1>1, <2>1 DEF Done
<1>2. m \in store /\ Stale(m) /\ Done(m)
  BY <1>1
<1> QED
  BY <1>1, <1>2 DEF Leftover, Stale

\* Every action preserves the invariant.
LEMMA InvNext ==
    ASSUME Inv, [Next]_vars
    PROVE  Inv'
<1> USE DEF Inv
<1>1. ASSUME NEW m \in Sent, Check(m)
      PROVE  Inv'
  <2>1. m \in Messages /\ handling' = m /\ m.height > height
    BY <1>1 DEF Check, Sent, Messages, Heights
  <2>2. UNCHANGED <<height, store, engine, running, pruned>>
    BY <1>1 DEF Check
  <2>3. ~(m.height <= height)
    BY <2>1 DEF TypeOK, Messages
  <2> QED
    BY <2>1, <2>2, <2>3 DEF TypeOK, Leftover, HeightAhead, Stale, Done
<1>2. ASSUME NEW m \in Sent, AddOwn(m)
      PROVE  Inv'
  <2>1. m \in Messages /\ m.height = running /\ engine = "running" /\ store' = store \cup {m}
    BY <1>2 DEF AddOwn, Sent, Messages, Heights
  <2>2. UNCHANGED <<height, handling, engine, running, pruned>>
    BY <1>2 DEF AddOwn
  <2>3. ~Stale(m)
    BY <2>1 DEF HeightAhead, TypeOK, Stale
  <2>4. Leftover'
    BY <2>1, <2>2, <2>3, LeftoverKept
  <2> QED
    BY <2>1, <2>2, <2>4 DEF TypeOK, HeightAhead
<1>3. CASE Store
  <2>1. handling \in store' /\ store' = store \cup {handling} /\ handling' = None
    BY <1>3 DEF Store
  <2>2. UNCHANGED <<height, engine, running, pruned>>
    BY <1>3 DEF Store
  <2>3. TypeOK' /\ HeightAhead'
    BY <1>3, <2>1, <2>2 DEF Store, TypeOK, HeightAhead
  <2>4. ASSUME NEW m \in store', Stale(m), Done(m), NEW n \in store', Stale(n), Done(n)
        PROVE  n = m
    BY <1>3, <2>1, <2>4 DEF Leftover, Store
  <2>5. \A m : Stale(m)' = Stale(m) /\ Done(m)' = Done(m)
    BY <2>2 DEF Stale, Done
  <2> QED
    BY <2>1, <2>3, <2>4, <2>5 DEF Leftover
<1>4. ASSUME NEW S \in SUBSET store, store' = S, engine = "running",
             engine' \in {"running", "finished"},
             UNCHANGED <<height, handling, running, pruned>>
      PROVE  Inv'
  <2>1. Leftover'
    BY <1>4, LeftoverKept
  <2> QED
    BY <1>4, <2>1 DEF TypeOK, HeightAhead, EngineStates
<1>5. ASSUME NEW r \in Rounds, NEW kind \in Kinds, TakeView(kind, r)
      PROVE  Inv'
  <2>1. store' \in SUBSET store
    BY <1>5 DEF TakeView
  <2> QED
    BY <1>4, <1>5, <2>1 DEF TakeView
<1>6. ASSUME NEW m \in store, DropInvalid(m)
      PROVE  Inv'
  <2>1. store' \in SUBSET store
    BY <1>6 DEF DropInvalid
  <2> QED
    BY <1>4, <1>6, <2>1 DEF DropInvalid
<1>7. ASSUME NEW r \in Rounds, Finish(r)
      PROVE  Inv'
  <2>1. store' \in SUBSET store
    BY <1>7 DEF Finish
  <2> QED
    BY <1>4, <1>7, <2>1 DEF Finish
<1>8. CASE Cancel
  <2>1. Leftover'
    BY <1>8, LeftoverKept DEF Cancel
  <2> QED
    BY <1>8, <2>1 DEF Cancel, TypeOK, HeightAhead, EngineStates
<1>9. ASSUME NEW h \in Heights, StartHeight(h)
      PROVE  Inv'
  <2>1. Leftover'
    BY <1>9, LeftoverKept DEF StartHeight
  <2>2. HeightAhead'
    BY <1>9 DEF StartHeight, HeightAhead, Heights, TypeOK
  <2> QED
    BY <1>9, <2>1, <2>2, HandlerAssumption DEF StartHeight, TypeOK, EngineStates, Heights
<1>10. CASE UpdateHeight
  <2>1. \A m \in store' : ~Done(m)'
    <3> SUFFICES ASSUME NEW m \in store
                 PROVE  ~(MapOf(m) < 0)
      BY <1>10 DEF UpdateHeight, Done
    <3> QED
      BY MapType DEF TypeOK
  <2> QED
    BY <1>10, <2>1, HandlerAssumption
    DEF UpdateHeight, TypeOK, EngineStates, Leftover, HeightAhead
<1>11. CASE PruneMap
  <2>1. UNCHANGED <<height, handling, running>> /\ engine = "pruning"
    BY <1>11 DEF PruneMap
  <2>2. TypeOK' /\ HeightAhead'
    <3>1. pruned' \in 0 .. 4
      BY <1>11 DEF PruneMap, TypeOK
    <3> QED
      BY <1>11, <3>1 DEF PruneMap, TypeOK, EngineStates, HeightAhead
  <2>3. ASSUME NEW m \in store', Stale(m)', Done(m)'
        PROVE  m \in store /\ Stale(m) /\ Done(m)
    <3>1. m \in store /\ ~(MapOf(m) = pruned /\ m.height < height + 1)
      BY <1>11 DEF PruneMap
    <3>2. Stale(m) /\ m.height < height + 1
      BY <2>1, <2>3, <3>1 DEF Stale, TypeOK, Messages
    <3>3. MapOf(m) # pruned /\ MapOf(m) \in 0 .. 4 /\ pruned \in 0 .. 4
      BY <3>1, <3>2, MapType DEF TypeOK
    <3>4. MapOf(m) < pruned
      <4>1. CASE pruned = 4
        BY <3>3, <4>1
      <4>2. CASE pruned # 4
        <5>1. engine' = "pruning" /\ pruned' = pruned + 1
          BY <1>11, <4>2 DEF PruneMap
        <5>2. MapOf(m) < pruned + 1
          BY <2>3, <5>1 DEF Done, MapOf
        <5> QED
          BY <3>3, <5>2
      <4> QED
        BY <4>1, <4>2
    <3> QED
      BY <3>1, <3>2, <3>4 DEF Done
  <2>4. Leftover'
    <3> SUFFICES ASSUME NEW m \in store', Stale(m)', Done(m)'
                 PROVE  /\ handling' # None => ~Stale(handling)'
                        /\ \A n \in store' : Stale(n)' /\ Done(n)' => n = m
      BY DEF Leftover
    <3> QED
      BY <2>1, <2>3 DEF Leftover, Stale
  <2> QED
    BY <2>2, <2>4
<1>12. CASE UNCHANGED vars
  BY <1>12 DEF vars, TypeOK, Leftover, HeightAhead, Stale, Done
<1> QED
  BY <1>1, <1>2, <1>3, <1>5, <1>6, <1>7, <1>8, <1>9, <1>10, <1>11, <1>12 DEF Next

\* The handler and the engine keep the store in step with the finalized height.
THEOREM Invariance == Spec => []Inv
<1>1. Init => Inv
  BY HandlerAssumption
  DEF Init, Inv, TypeOK, EngineStates, Leftover, HeightAhead
<1>2. Inv /\ [Next]_vars => Inv'
  BY InvNext
<1> QED
  BY <1>1, <1>2, PTL DEF Spec

\* Every variable keeps its type: the engine counts through its maps, and the handler
\* holds a message or none.
THEOREM TypeCorrect == Spec => []TypeOK
BY Invariance, PTL DEF Inv

\* However check, store, update and prune interleave, at most one message of a finalized
\* height outlives the prune.
THEOREM StaleTheorem == Spec => []StaleAtMostOne
<1>1. Inv => StaleAtMostOne
  BY DEF Inv, Leftover, StaleAtMostOne, Done
<1> QED
  BY <1>1, Invariance, PTL

\* No message of a height ahead is pruned or taken.
THEOREM FutureTheorem == Spec => FutureKept
<1> DEFINE Kept == \A m \in store : m.height > running => m \in store'
<1>1. Inv /\ [Next]_vars => [Kept]_vars
  <2> SUFFICES ASSUME Inv, Next, NEW m \in store, m.height > running
               PROVE  m \in store'
    OBVIOUS
  <2>1. m.height # running /\ ~(m.height < height + 1)
    BY DEF Inv, TypeOK, HeightAhead, Messages
  <2> QED
    BY <2>1 DEF Next, Check, AddOwn, Store, TakeView, DropInvalid, Finish, Cancel,
                StartHeight, UpdateHeight, PruneMap
<1> QED
  BY <1>1, Invariance, PTL DEF Spec, FutureKept
=============================================================================
