-------------------------- MODULE QuorumWaitProofs --------------------------
(***************************************************************************)
(* Proofs that the waiting loops lose no wake-up and end only with a       *)
(* quorum, for any number of validators, any target and any channel size.  *)
(***************************************************************************)
EXTENDS QuorumWait, FiniteSetTheorems, TLAPS

\* From a count on, the estimate and the announcements not read yet are together at least
\* the number of stored messages, and a task that waits has an estimate below the target.
WaitCounted ==
    /\ pc \in {"test", "wait"} => Lagged \/ Cardinality(Stored) <= count + unread
    /\ pc = "wait" => count < Target

\* The last count returned messages only if it found the target, and then the estimate is
\* that count and the loop goes on to its end.
ResultBacked ==
    /\ result # {} => Cardinality(result) >= Target /\ pc \in {"test", "done"}
    /\ pc = "test" => (count >= Target <=> result # {})

Inv == TypeOK /\ WaitCounted /\ ResultBacked /\ EndsWithQuorum

\* Sets of validators are finite, and counting them is monotone.
LEMMA Counting ==
    ASSUME NEW T \in SUBSET Validators, NEW S \in SUBSET T
    PROVE  /\ IsFiniteSet(T)
           /\ Cardinality(S) \in Nat
           /\ Cardinality(T) \in Nat
           /\ Cardinality(S) <= Cardinality(T)
<1>1. IsFiniteSet(T)
  BY ValidatorsAssumption, FS_Subset
<1>2. IsFiniteSet(S) /\ Cardinality(S) <= Cardinality(T)
  BY <1>1, FS_Subset
<1> QED
  BY <1>1, <1>2, FS_CardinalityType

\* The valid messages are stored.
LEMMA ValidStored ==
    /\ Valid \in SUBSET Validators /\ Stored \in SUBSET Validators
    /\ Cardinality(Valid) \in Nat /\ Cardinality(Stored) \in Nat
    /\ Cardinality(Valid) <= Cardinality(Stored)
<1>1. Stored \in SUBSET Validators /\ Valid \in SUBSET Stored
  BY DEF Stored, Valid
<1> QED
  BY <1>1, Counting

\* A verified count leaves only the valid messages in the map, or ends the loop.
LEMMA VerifiedCountStep ==
    ASSUME Inv, pc \in {"count", "recount"}, VerifiedCount
    PROVE  Inv'
<1> USE DEF Inv
<1>1. /\ count' = Cardinality(Valid) /\ count' \in Nat
      /\ UNCHANGED <<loop, unread, other, others>>
  BY ValidStored DEF VerifiedCount
<1>2. messages' \in [Validators -> Entries] /\ Stored' \in SUBSET Valid
  BY DEF VerifiedCount, Entries, Stored, Valid
<1>3. Cardinality(Stored') <= count' + unread'
  <2>1. Cardinality(Stored') <= Cardinality(Valid) /\ Cardinality(Stored') \in Nat
    BY <1>2, ValidStored, Counting
  <2> QED
    BY <1>1, <2>1 DEF TypeOK
<1>4. pc' \in {"test", "wait", "done"} /\ result' \in SUBSET Validators
  BY ValidStored DEF VerifiedCount, Again
<1>5. TypeOK'
  BY <1>1, <1>2, <1>4 DEF TypeOK, ControlPoints
<1>6. CASE Cardinality(Valid) >= Target
  <2>1. result' = Valid /\ pc' \in {"test", "done"}
    BY <1>6 DEF VerifiedCount, Again
  <2>2. Valid # {}
    BY <1>6, FS_EmptySet, WaitAssumption
  <2> QED
    BY <1>1, <1>3, <1>5, <1>6, <2>1, <2>2 DEF WaitCounted, ResultBacked, EndsWithQuorum
<1>7. CASE ~(Cardinality(Valid) >= Target)
  <2>1. result' = {} /\ pc' \in {"test", "wait"}
    BY <1>7 DEF VerifiedCount, Again
  <2>2. count' < Target
    BY <1>1, <1>7, WaitAssumption
  <2> QED
    BY <1>1, <1>3, <1>5, <2>1, <2>2, WaitAssumption DEF WaitCounted, ResultBacked, EndsWithQuorum
<1> QED
  BY <1>6, <1>7

\* A new message adds one to the stored ones and one to the announcements.
LEMMA AddStep ==
    ASSUME Inv, NEW v \in Validators, NEW m \in {"valid", "invalid"}, Add(v, m)
    PROVE  Inv'
<1> USE DEF Inv
<1>1. TypeOK'
  BY DEF Add, TypeOK, Entries
<1>2. ResultBacked' /\ EndsWithQuorum'
  BY DEF Add, ResultBacked, EndsWithQuorum, Lagged, Subscribed
<1>3. ASSUME pc \in {"test", "wait"}
      PROVE  Lagged' \/ Cardinality(Stored') <= count' + unread'
  <2>1. CASE Lagged
    BY <2>1 DEF Add, Lagged
  <2>2. CASE ~Lagged
    <3>1. Stored' = Stored \cup {v} /\ v \notin Stored
      BY DEF Add, Stored, TypeOK
    <3>2. Cardinality(Stored') = Cardinality(Stored) + 1
      <4>1. IsFiniteSet(Stored)
        BY ValidStored, Counting
      <4> QED
        BY <3>1, <4>1, FS_AddElement
    <3>3. unread' = unread + 1 /\ count' = count
      BY <1>3, <2>2 DEF Add, Subscribed
    <3>4. Cardinality(Stored) <= count + unread
      BY <1>3, <2>2 DEF WaitCounted
    <3>5. Cardinality(Stored) \in Nat /\ count \in Nat /\ unread \in Nat
      BY ValidStored DEF TypeOK
    <3> QED
      BY <3>2, <3>3, <3>4, <3>5
  <2> QED
    BY <2>1, <2>2
<1> QED
  BY <1>1, <1>2, <1>3 DEF WaitCounted, Add

\* The invariant is inductive.
LEMMA InvNext ==
    ASSUME Inv, [Next]_vars
    PROVE  Inv'
<1> USE DEF Inv
<1>1. ASSUME NEW v \in Validators, NEW m \in {"valid", "invalid"}, Add(v, m)
      PROVE  Inv'
  BY <1>1, AddStep
<1>2. CASE AddOther
  <2>1. TypeOK' /\ ResultBacked' /\ EndsWithQuorum'
    BY <1>2, WaitAssumption DEF AddOther, TypeOK, ResultBacked, EndsWithQuorum, Lagged, Subscribed
  <2>2. Stored' = Stored
    BY <1>2 DEF AddOther, Stored
  <2>3. Lagged => Lagged'
    BY <1>2 DEF AddOther, Lagged
  <2> QED
    BY <1>2, <2>1, <2>2, <2>3 DEF AddOther, WaitCounted
<1>3. CASE Subscribe
  BY <1>3 DEF Subscribe, TypeOK, ControlPoints, WaitCounted, ResultBacked, EndsWithQuorum
<1>4. CASE Count
  <2>1. CASE Verify
    BY <1>4, <2>1, VerifiedCountStep DEF Count
  <2>2. CASE ~Verify
    <3>1. RawCount /\ pc = "count"
      BY <1>4, <2>2 DEF Count
    <3>2. count' = Cardinality(Stored) /\ count' \in Nat /\ Stored' = Stored
      BY <3>1, ValidStored DEF RawCount, Stored
    <3>3. TypeOK'
      BY <3>1, <3>2 DEF RawCount, TypeOK, ControlPoints
    <3>4. pc' = "wait" => count' < Target
      BY <3>1, <3>2, WaitAssumption DEF RawCount
    <3>5. Cardinality(Stored') <= count' + unread'
      BY <3>1, <3>2 DEF RawCount, TypeOK
    <3>6. pc' \in {"wait", "recount"} /\ result' = {}
      BY <3>1 DEF RawCount, ResultBacked
    <3> QED
      BY <3>3, <3>4, <3>5, <3>6 DEF WaitCounted, ResultBacked, EndsWithQuorum
  <2> QED
    BY <2>1, <2>2
<1>5. CASE Receive
  <2>1. TypeOK'
    BY <1>5 DEF Receive, Again, TypeOK, ControlPoints
  <2>2. /\ pc = "wait" /\ ~Lagged /\ unread' = unread - 1 /\ count' = count + 1
        /\ pc' = IF Reached(count') THEN "recount" ELSE Again
    BY <1>5 DEF Receive
  <2>3. count < Target /\ Cardinality(Stored) <= count + unread /\ count \in Nat /\ unread \in Nat
    BY <2>2 DEF WaitCounted, TypeOK
  <2>4. Stored' = Stored /\ result' = {}
    BY <1>5 DEF Receive, Stored, ResultBacked
  <2>5. Cardinality(Stored') <= count' + unread'
    BY <2>2, <2>3, <2>4, ValidStored
  <2>6. pc' \in {"wait", "test"} => count' < Target
    BY <2>2, <2>3, WaitAssumption DEF Reached, Again
  <2>7. pc' \in {"wait", "test", "recount"}
    BY <2>2 DEF Again
  <2>8. count' \in Nat /\ Target \in Nat
    BY <2>2, <2>3, WaitAssumption
  <2> QED
    BY <2>1, <2>4, <2>5, <2>6, <2>7, <2>8 DEF WaitCounted, ResultBacked, EndsWithQuorum
<1>6. CASE ReceiveOther
  <2>1. pc = "wait" /\ ~Lagged /\ pc' \in {"wait", "test"}
    BY <1>6 DEF ReceiveOther, Again
  <2>2. TypeOK' /\ EndsWithQuorum'
    BY <1>6, <2>1 DEF ReceiveOther, TypeOK, ControlPoints, EndsWithQuorum
  <2>3. Stored' = Stored /\ UNCHANGED <<count, unread, result>>
    BY <1>6 DEF ReceiveOther, Stored
  <2>4. count < Target /\ count \in Nat /\ Target \in Nat /\ result = {}
    BY <2>1, WaitAssumption DEF WaitCounted, ResultBacked, TypeOK
  <2> QED
    BY <2>1, <2>2, <2>3, <2>4 DEF WaitCounted, ResultBacked
<1>7. CASE ReceiveLagged
  BY <1>7 DEF ReceiveLagged, TypeOK, ControlPoints, WaitCounted, ResultBacked, EndsWithQuorum, Lagged
<1>8. CASE Recount
  BY <1>8, VerifiedCountStep DEF Recount
<1>9. CASE Test
  <2>1. /\ pc = "test" /\ count \in Nat /\ Target \in Nat
        /\ UNCHANGED <<loop, messages, unread, other, others, count, result>>
    BY <1>9, WaitAssumption DEF Test, TypeOK
  <2>2. Stored' = Stored /\ (Lagged <=> Lagged')
    BY <2>1 DEF Stored, Lagged
  <2>3. CASE count < Target
    <3>1. pc' = "wait" /\ result = {}
      BY <1>9, <2>1, <2>3 DEF Test, ResultBacked
    <3> QED
      BY <2>1, <2>2, <2>3, <3>1
         DEF TypeOK, ControlPoints, WaitCounted, ResultBacked, EndsWithQuorum
  <2>4. CASE ~(count < Target)
    <3>1. result # {} /\ Cardinality(result) >= Target
      BY <2>1, <2>4 DEF ResultBacked
    <3>2. pc' = "done"
      BY <1>9, <2>4, <3>1 DEF Test
    <3> QED
      BY <2>1, <3>1, <3>2 DEF TypeOK, ControlPoints, WaitCounted, ResultBacked, EndsWithQuorum
  <2> QED
    BY <2>3, <2>4
<1>10. CASE UNCHANGED vars
  BY <1>10 DEF vars, TypeOK, WaitCounted, ResultBacked, EndsWithQuorum, Lagged, Stored
<1> QED
  BY <1>1, <1>2, <1>3, <1>4, <1>5, <1>6, <1>7, <1>8, <1>9, <1>10 DEF Next, TaskStep

\* The estimate of the waiting loops is never too low, in any execution.
THEOREM Invariance == Spec => []Inv
<1>1. Init => Inv
  BY WaitAssumption DEF Init, Inv, TypeOK, Entries, ControlPoints, WaitCounted,
     ResultBacked, EndsWithQuorum
<1>2. Inv /\ [Next]_vars => Inv'
  BY InvNext
<1> QED
  BY <1>1, <1>2, PTL DEF Spec

\* A waiting task that could go on has an announcement to read.
THEOREM NoLostWakeupTheorem == Spec => []NoLostWakeup
<1>1. Inv => NoLostWakeup
  <2> SUFFICES ASSUME Inv, pc = "wait", Cardinality(Valid) >= Target, ~Lagged
               PROVE  unread > 0
    BY DEF NoLostWakeup
  <2>1. Cardinality(Stored) <= count + unread /\ count < Target
    BY DEF Inv, WaitCounted
  <2>2. count \in Nat /\ unread \in Nat
    BY DEF Inv, TypeOK
  <2> QED
    BY <2>1, <2>2, ValidStored, WaitAssumption
<1> QED
  BY <1>1, Invariance, PTL

\* The expects of run_commit and wait_rcc on their quorum never fail, although their
\* loops end on an estimate: it reaches the target only through a recount.
THEOREM EndsWithQuorumTheorem == Spec => []EndsWithQuorum
<1>1. Inv => EndsWithQuorum
  BY DEF Inv
<1> QED
  BY <1>1, Invariance, PTL

-----------------------------------------------------------------------------
(* The loops are guards *)

\* A verified count passes the guard or discards what is not valid.
LEMMA VerifiedCountRefines ==
    ASSUME TypeOK, result = {}, VerifiedCount
    PROVE  Guard!Next
<1>1. /\ messages \in [Validators -> Entries]
      /\ Guard!Valid = Valid /\ (\A v \in Valid : messages[v] = "valid")
  BY DEF TypeOK, Valid, Guard!Valid
<1>2. CASE Cardinality(Valid) >= Target
  <2>1. /\ result' = Valid
        /\ messages' = [v \in Validators |->
                          IF v \in Valid /\ ~Take THEN "valid" ELSE "vacant"]
    BY <1>2 DEF VerifiedCount
  <2>2. Valid # {}
    BY <1>2, FS_EmptySet, WaitAssumption
  <2>3. messages' \in {Guard!Keep(Valid), Guard!Keep({})}
    <3>1. CASE Take
      BY <2>1, <3>1 DEF Guard!Keep
    <3>2. CASE ~Take
      BY <1>1, <2>1, <3>2 DEF Guard!Keep
    <3> QED
      BY <3>1, <3>2
  <2> QED
    BY <1>1, <1>2, <2>1, <2>2, <2>3, ValidStored DEF Guard!Next, Guard!Pass, Quorums
<1>3. CASE ~(Cardinality(Valid) >= Target)
  <2>1. /\ result' = result
        /\ messages' = [v \in Validators |-> IF v \in Valid THEN "valid" ELSE "vacant"]
    BY <1>3 DEF VerifiedCount
  <2>2. messages' = Guard!Keep(Valid)
    BY <1>1, <2>1 DEF Guard!Keep
  <2> QED
    BY <1>1, <2>1, <2>2 DEF Guard!Next, Guard!Discard
<1> QED
  BY <1>2, <1>3

\* Every step of the store and of the loop is a step of the guard or leaves it alone.
LEMMA StepRefines ==
    ASSUME Inv, [Next]_vars
    PROVE  [Guard!Next]_(Guard!vars)
<1>1. ASSUME NEW v \in Validators, NEW m \in {"valid", "invalid"}, Add(v, m)
      PROVE  Guard!Next
  BY <1>1 DEF Add, Guard!Next, Guard!Add
<1>2. CASE Count
  <2>1. CASE Verify
    BY <1>2, <2>1, VerifiedCountRefines DEF Count, Inv, ResultBacked
  <2>2. CASE ~Verify
    BY <1>2, <2>2 DEF Count, RawCount, Guard!vars
  <2> QED
    BY <2>1, <2>2
<1>3. CASE Recount
  BY <1>3, VerifiedCountRefines DEF Recount, Inv, ResultBacked
<1>4. CASE \/ AddOther \/ Subscribe \/ Test \/ Receive \/ ReceiveOther \/ ReceiveLagged
           \/ UNCHANGED vars
  BY <1>4 DEF AddOther, Subscribe, Test, Receive, ReceiveOther, ReceiveLagged, vars, Guard!vars
<1> QED
  BY <1>1, <1>2, <1>3, <1>4 DEF Next, TaskStep

\* run_prepare, run_commit, wait_rcc and wait_future_rcc implement the guard on the store
\* that the round task is written against, for every number of validators, target and
\* channel size.
THEOREM GuardTheorem == Spec => ImplementsGuard
<1>1. Init => Guard!Init
  BY DEF Init, Guard!Init
<1>2. Inv /\ [Next]_vars => [Guard!Next]_(Guard!vars)
  BY StepRefines
<1> QED
  BY <1>1, <1>2, Invariance, PTL DEF Spec, ImplementsGuard, Guard!Spec
=============================================================================
