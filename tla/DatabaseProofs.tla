--------------------------- MODULE DatabaseProofs ---------------------------
(***************************************************************************)
(* The properties of Database for any schemas, keys, values, transactions  *)
(* and snapshots.  The changes of a transaction must determine what its    *)
(* calls would have done one by one; a snapshot that is not released must  *)
(* belong to a handle that still holds the database open.                  *)
(***************************************************************************)
EXTENDS Database, TLAPS

\* The changes hold exactly the slots that the calls wrote, with their last value, and
\* none before the transaction has begun.
ChangesReplay ==
    \A t \in Txs :
        /\ tx[t] = "new" => wrote[t] = {}
        /\ wrote[t] = Touched(changes[t])
        /\ \A x \in wrote[t] :
              view[t][x] = IF changes[t][x] = Deleted THEN Absent ELSE changes[t][x]

\* A handle has a snapshot while it is live, and reads at it.
SnapshotsPinned ==
    \A h \in Snaps :
        /\ handle[h] = "live" => snapshot[h] \in 1 .. Len(versions) /\ readOpts[h] = snapshot[h]
        /\ handle[h] # "live" => snapshot[h] = None

\* A closed database has no handle left.
NoHandleLeft ==
    /\ handle[Main] # "new"
    /\ closed => handle[Main] = "gone" /\ \A h \in Snaps : handle[h] \in {"new", "gone"}

\* An operation is in the map of an entry.
EntriesHold ==
    /\ \A t \in Txs : \A x \in Touched(changes[t]) : x[1] \in entries[t]
    /\ batch # None => \A x \in Touched(batch.ops) : x[1] \in batch.entries

Inv == TypeOK /\ ChangesReplay /\ EntriesHold /\ SnapshotsPinned /\ NoHandleLeft

-----------------------------------------------------------------------------
(* Operators *)

\* Applying operations to contents gives contents.
LEMMA ApplyType ==
    ASSUME NEW c \in Changes, NEW d \in Contents
    PROVE  Apply(c, d) \in Contents
BY DEF Apply, Changes, Contents, Operations

\* One operation on one slot is a batch of changes.
LEMMA SingleType ==
    ASSUME NEW x \in Slots, NEW op \in Operations
    PROVE  [NoChanges EXCEPT ![x] = op] \in Changes
BY DEF NoChanges, Changes

\* Its operation is in the map of the slot's schema.
LEMMA SingleHeld ==
    ASSUME NEW x \in Slots, NEW op \in Operations
    PROVE  /\ {x[1]} \in SUBSET Schemas
           /\ \A y \in Touched([NoChanges EXCEPT ![x] = op]) : y[1] \in {x[1]}
BY DEF Slots, NoChanges, Touched

\* Merging changes gives changes.
LEMMA MergeType ==
    ASSUME NEW c \in Changes, NEW d \in Changes
    PROVE  Merge(c, d) \in Changes
BY DEF Merge, Changes

\* The current contents are contents.
LEMMA CurrentType ==
    ASSUME TypeOK
    PROVE  Current \in Contents /\ Len(versions) \in Nat \ {0}
BY DEF TypeOK, Current

\* A write leaves the old versions and adds contents.
LEMMA StoreType ==
    ASSUME TypeOK, NEW c \in Changes, NEW e, Store(c, e)
    PROVE  /\ versions' \in Seq(Contents) /\ versions' # <<>>
           /\ Len(versions') >= Len(versions)
           /\ \A i \in 1 .. Len(versions) : versions'[i] = versions[i]
<1>1. CASE UNCHANGED versions
  BY <1>1 DEF TypeOK
<1>2. CASE versions' = Append(versions, Apply(c, Current))
  <2>1. Apply(c, Current) \in Contents /\ versions \in Seq(Contents)
    BY CurrentType, ApplyType DEF TypeOK
  <2> QED
    BY <1>2, <2>1
<1> QED
  BY <1>1, <1>2 DEF Store

-----------------------------------------------------------------------------
(* The invariant *)

\* It holds initially.
LEMMA InitInv == Init => Inv
<1> SUFFICES ASSUME Init PROVE Inv
  OBVIOUS
<1> USE DatabaseAssumption
<1>1. [x \in Slots |-> Absent] \in Contents /\ NoChanges \in Changes
  BY DEF Contents, Changes, NoChanges
<1>2. TypeOK
  <2>1. versions \in Seq(Contents) /\ versions # <<>> /\ versions[1] \in Contents
    BY <1>1 DEF Init
  <2>2. view \in [Txs -> Contents]
    BY <2>1 DEF Init
  <2> QED
    BY <1>1, <2>1, <2>2 DEF Init, TypeOK, Handles
<1>3. ChangesReplay
  BY DEF Init, ChangesReplay, Touched, NoChanges
<1>6. EntriesHold
  BY DEF Init, EntriesHold, Touched, NoChanges
<1>4. SnapshotsPinned
  BY DEF Init, SnapshotsPinned, Handles
<1>5. NoHandleLeft
  BY DEF Init, NoHandleLeft, Handles
<1> QED
  BY <1>2, <1>3, <1>4, <1>5, <1>6 DEF Inv

\* What the invariant says of versions survives a write, when the handles stay.
LEMMA StoreSnapshots ==
    ASSUME Inv, NEW c \in Changes, NEW e, Store(c, e), UNCHANGED handleVars
    PROVE  SnapshotsPinned' /\ NoHandleLeft'
BY StoreType, CurrentType DEF Inv, SnapshotsPinned, NoHandleLeft, handleVars

\* The changes of a transaction still replay its calls after operations c.
LEMMA RecordStep ==
    ASSUME Inv, NEW t \in Txs, NEW c \in Changes, NEW e \in SUBSET Schemas, Record(t, c, e),
           \A x \in Touched(c) : x[1] \in e, batch' \in {batch, None}
    PROVE  Inv'
<1> USE DatabaseAssumption DEF Inv
<1>1. Merge(changes[t], c) \in Changes /\ Apply(c, view[t]) \in Contents
  BY MergeType, ApplyType DEF TypeOK
<1>2. Touched(c) \in SUBSET Slots
  BY DEF Touched
<1>3. TypeOK'
  BY <1>1, <1>2 DEF TypeOK, Record, Write, handleVars
<1>4. ChangesReplay'
  <2> SUFFICES ASSUME NEW u \in Txs
               PROVE  /\ tx'[u] = "new" => wrote'[u] = {}
                      /\ wrote'[u] = Touched(changes'[u])
                      /\ \A x \in wrote'[u] : view'[u][x] =
                            IF changes'[u][x] = Deleted THEN Absent ELSE changes'[u][x]
    BY DEF ChangesReplay
  <2>1. CASE u # t
    BY <2>1 DEF Record, ChangesReplay, TypeOK
  <2>2. CASE u = t
    <3>1. /\ changes'[u] = Merge(changes[u], c)
          /\ view'[u] = Apply(c, view[u])
          /\ wrote'[u] = wrote[u] \cup Touched(c)
      BY <2>2 DEF Record, TypeOK
    <3>2. wrote'[u] = Touched(changes'[u])
      BY <3>1, <2>2 DEF Touched, Merge, ChangesReplay, TypeOK, Changes
    <3>3. ASSUME NEW x \in wrote'[u]
          PROVE  view'[u][x] = IF changes'[u][x] = Deleted THEN Absent ELSE changes'[u][x]
      <4>0. x \in Slots
        BY <3>2, <3>3 DEF Touched
      <4>1. CASE c[x] = Untouched
        <5>1. x \in wrote[u]
          BY <3>1, <3>3, <4>1 DEF Touched
        <5>2. changes'[u][x] = changes[u][x] /\ view'[u][x] = view[u][x]
          BY <3>1, <4>0, <4>1 DEF Merge, Apply, Operations
        <5> QED
          BY <5>1, <5>2 DEF ChangesReplay
      <4>2. CASE c[x] # Untouched
        BY <3>1, <4>0, <4>2 DEF Touched, Merge, Apply, TypeOK, ChangesReplay
      <4> QED
        BY <4>1, <4>2
    <3>4. tx'[u] = "open"
      BY <2>2 DEF Record, Exclusive
    <3> QED
      BY <3>2, <3>3, <3>4
  <2> QED
    BY <2>1, <2>2
<1>5. SnapshotsPinned' /\ NoHandleLeft'
  BY DEF Record, SnapshotsPinned, NoHandleLeft, handleVars
<1>6. EntriesHold'
  <2>1. ASSUME NEW u \in Txs, NEW x \in Touched(changes'[u])
        PROVE  x[1] \in entries'[u]
    <3>1. CASE u # t
      BY <2>1, <3>1 DEF Record, EntriesHold, TypeOK
    <3>2. CASE u = t
      <4>1. changes'[u] = Merge(changes[u], c) /\ entries'[u] = entries[u] \cup e
        BY <3>2 DEF Record, TypeOK
      <4>2. x \in Touched(changes[u]) \/ x \in Touched(c)
        BY <2>1, <4>1 DEF Touched, Merge
      <4> QED
        BY <4>1, <4>2 DEF EntriesHold
    <3> QED
      BY <3>1, <3>2
  <2> QED
    BY <2>1 DEF EntriesHold
<1> QED
  BY <1>3, <1>4, <1>5, <1>6

\* Every step of a transaction keeps the invariant.
LEMMA TxStepInv ==
    ASSUME Inv, NEW t \in Txs, TxStep(t)
    PROVE  Inv'
<1> USE DatabaseAssumption DEF Inv
<1>1. CASE Begin(t)
  <2>1. TypeOK'
    BY <1>1, CurrentType DEF Begin, TypeOK, handleVars
  <2>2. ChangesReplay'
    BY <1>1 DEF Begin, ChangesReplay, TypeOK
  <2> QED
    BY <1>1, <2>1, <2>2 DEF Begin, EntriesHold, SnapshotsPinned, NoHandleLeft, handleVars
<1>2. ASSUME NEW x \in Slots, NEW op \in Operations, TxWrite(t, x, op)
      PROVE  Inv'
  <2> DEFINE c == [NoChanges EXCEPT ![x] = op]
  <2>1. c \in Changes /\ {x[1]} \in SUBSET Schemas
    BY SingleType, SingleHeld
  <2>2. \A y \in Touched(c) : y[1] \in {x[1]}
    BY SingleHeld
  <2>3. Record(t, c, {x[1]}) /\ batch' \in {batch, None}
    BY <1>2 DEF TxWrite
  <2> HIDE DEF c
  <2> QED
    BY <2>1, <2>2, <2>3, RecordStep
<1>3. CASE TxWriteBatch(t)
  <2>1. batch.ops \in Changes /\ batch.entries \in SUBSET Schemas
    BY <1>3 DEF TxWriteBatch, TypeOK, Batches
  <2> QED
    BY <1>3, <2>1, RecordStep DEF TxWriteBatch, EntriesHold
<1>4. ASSUME NEW s \in Schemas, MultiGet(t, s)
      PROVE  Inv'
  <2> DEFINE loop == s \in entries[t]
             got == [k \in Keys |-> IF loop THEN None ELSE Current[<<s, k>>]]
  <2>1. \A k \in Keys : Current[<<s, k>>] \in Values \cup {Absent}
    BY CurrentType DEF Contents, Slots
  <2>2. got \in [Keys -> Values \cup {Absent, None}]
    BY <2>1
  <2>3. read' = [read EXCEPT ![t] = [schema |-> s, since |-> Len(versions), got |-> got]]
    BY <1>4 DEF MultiGet
  <2> HIDE DEF got
  <2>4. TypeOK'
    BY <1>4, <2>2, <2>3, CurrentType DEF MultiGet, TypeOK, handleVars
  <2> QED
    BY <1>4, <2>4 DEF MultiGet, ChangesReplay, EntriesHold, SnapshotsPinned,
       NoHandleLeft, handleVars
<1>5. ASSUME NEW k \in Keys, MultiGetNext(t, k)
      PROVE  Inv'
  <2>1. read[t] \in [schema : Schemas, since : Nat,
                     got : [Keys -> Values \cup {Absent, None}]]
    BY <1>5 DEF MultiGetNext, TypeOK
  <2>2. <<read[t].schema, k>> \in Slots
    BY <2>1 DEF Slots
  <2>3. Lookup(t, <<read[t].schema, k>>) \in Values \cup {Absent}
    BY <2>2, CurrentType DEF Lookup, TypeOK, Changes, Operations, Contents
  <2>4. read' \in [Txs -> [schema : Schemas, since : Nat,
                           got : [Keys -> Values \cup {Absent, None}]] \cup {None}]
    BY <1>5, <2>1, <2>3 DEF MultiGetNext, TypeOK
  <2>5. TypeOK'
    BY <1>5, <2>4 DEF MultiGetNext, TypeOK, handleVars
  <2> QED
    BY <1>5, <2>5 DEF MultiGetNext, ChangesReplay, EntriesHold, SnapshotsPinned,
       NoHandleLeft, handleVars
<1>6. CASE Commit(t)
  <2>1. changes[t] \in Changes
    BY DEF TypeOK
  <2>2. TypeOK'
    BY <1>6, <2>1, StoreType DEF Commit, End, Write, TypeOK, handleVars
  <2>3. ChangesReplay'
    BY <1>6 DEF Commit, End, ChangesReplay, TypeOK
  <2> QED
    BY <1>6, <2>1, <2>2, <2>3, StoreSnapshots DEF Commit, EntriesHold
<1>7. CASE IntoChanges(t)
  <2>1. batch' \in Batches
    BY <1>7 DEF IntoChanges, TypeOK, Batches
  <2>2. TypeOK'
    BY <1>7, <2>1 DEF IntoChanges, End, TypeOK, handleVars
  <2>3. EntriesHold'
    BY <1>7 DEF IntoChanges, EntriesHold
  <2>4. ChangesReplay'
    BY <1>7 DEF IntoChanges, End, TypeOK, ChangesReplay
  <2> QED
    BY <1>7, <2>2, <2>3, <2>4 DEF IntoChanges, SnapshotsPinned, NoHandleLeft, handleVars
<1>8. CASE DropTx(t)
  <2>1. TypeOK'
    BY <1>8 DEF DropTx, End, TypeOK, handleVars
  <2> QED
    BY <1>8, <2>1 DEF DropTx, End, TypeOK, ChangesReplay, EntriesHold, SnapshotsPinned,
       NoHandleLeft, handleVars
<1> QED
  BY <1>1, <1>2, <1>3, <1>4, <1>5, <1>6, <1>7, <1>8 DEF TxStep

\* Every step outside the transactions keeps it.
LEMMA HandleStepInv ==
    ASSUME Inv
    PROVE  /\ \A x \in Slots, op \in Operations : WriteDirect(x, op) => Inv'
           /\ WriteBatch => Inv'
           /\ \A s \in Schemas : EmptyChanges(s) => Inv'
           /\ \A h \in Snaps : TakeSnapshot(h) => Inv'
           /\ \A h \in Handles : Drop(h) \/ DropInner(h) => Inv'
<1> USE DatabaseAssumption DEF Inv
<1>1. ASSUME NEW x \in Slots, NEW op \in Operations, WriteDirect(x, op)
      PROVE  Inv'
  <2>1. [NoChanges EXCEPT ![x] = op] \in Changes
    BY SingleType
  <2>2. TypeOK'
    BY <1>1, <2>1, StoreType DEF WriteDirect, Write, TypeOK, txVars, handleVars
  <2>3. ChangesReplay'
    BY <1>1 DEF WriteDirect, ChangesReplay, EntriesHold, txVars
  <2> QED
    BY <1>1, <2>1, <2>2, <2>3, StoreSnapshots DEF WriteDirect, EntriesHold, txVars
<1>2. ASSUME WriteBatch
      PROVE  Inv'
  <2>1. batch.ops \in Changes
    BY <1>2 DEF WriteBatch, TypeOK, Batches
  <2>2. TypeOK'
    BY <1>2, <2>1, StoreType DEF WriteBatch, Write, TypeOK, txVars, handleVars
  <2>3. ChangesReplay'
    BY <1>2 DEF WriteBatch, ChangesReplay, EntriesHold, txVars
  <2> QED
    BY <1>2, <2>1, <2>2, <2>3, StoreSnapshots DEF WriteBatch, EntriesHold, txVars
<1>3. ASSUME NEW h \in Snaps, TakeSnapshot(h)
      PROVE  Inv'
  <2>1. TypeOK'
    BY <1>3, CurrentType DEF TakeSnapshot, TypeOK, Handles, txVars
  <2>2. SnapshotsPinned'
    BY <1>3, CurrentType DEF TakeSnapshot, SnapshotsPinned, TypeOK, Handles
  <2>3. NoHandleLeft'
    BY <1>3 DEF TakeSnapshot, NoHandleLeft
  <2> QED
    BY <1>3, <2>1, <2>2, <2>3 DEF TakeSnapshot, ChangesReplay, EntriesHold, txVars
<1>4. ASSUME NEW h \in Handles, Drop(h)
      PROVE  Inv'
  <2>1. TypeOK'
    BY <1>4 DEF Drop, TypeOK, txVars
  <2>2. SnapshotsPinned'
    BY <1>4 DEF Drop, SnapshotsPinned, TypeOK, Handles
  <2>3. NoHandleLeft'
    BY <1>4 DEF Drop, NoHandleLeft, TypeOK, Handles
  <2> QED
    BY <1>4, <2>1, <2>2, <2>3 DEF Drop, ChangesReplay, EntriesHold, txVars
<1>5. ASSUME NEW h \in Handles, DropInner(h)
      PROVE  Inv'
  <2>1. TypeOK'
    BY <1>5 DEF DropInner, TypeOK, txVars
  <2>2. SnapshotsPinned'
    BY <1>5 DEF DropInner, SnapshotsPinned, TypeOK, Handles
  <2>3. handle[Main] \in {"live", "dropping", "gone"}
    BY DEF TypeOK, NoHandleLeft, Handles
  <2>4. NoHandleLeft'
    BY <1>5, <2>3 DEF DropInner, NoHandleLeft, TypeOK, Handles
  <2> QED
    BY <1>5, <2>1, <2>2, <2>4 DEF DropInner, ChangesReplay, EntriesHold, txVars
<1>6. ASSUME NEW s \in Schemas, EmptyChanges(s)
      PROVE  Inv'
  <2>1. batch' \in Batches /\ batch'.ops = NoChanges
    BY <1>6 DEF EmptyChanges, Batches, Changes, NoChanges
  <2>2. TypeOK'
    BY <1>6, <2>1 DEF EmptyChanges, TypeOK, txVars, handleVars
  <2>3. EntriesHold'
    BY <1>6, <2>1 DEF EmptyChanges, EntriesHold, txVars, Touched, NoChanges
  <2> QED
    BY <1>6, <2>2, <2>3 DEF EmptyChanges, ChangesReplay, SnapshotsPinned, NoHandleLeft,
                            txVars, handleVars
<1> QED
  BY <1>1, <1>2, <1>3, <1>4, <1>5, <1>6

\* The invariant is inductive, and implies that the writes are whole and the snapshots
\* fixed.
THEOREM Invariance == Spec => []Inv
<1>1. Inv /\ [Next]_vars => Inv'
  <2> SUFFICES ASSUME Inv, [Next]_vars PROVE Inv'
    OBVIOUS
  <2>1. CASE Next
    BY <2>1, TxStepInv, HandleStepInv DEF Next
  <2>2. CASE UNCHANGED vars
    BY <2>2 DEF vars, txVars, handleVars, Inv, TypeOK, ChangesReplay, EntriesHold,
                SnapshotsPinned, NoHandleLeft
  <2> QED
    BY <2>1, <2>2
<1> QED
  BY <1>1, InitInv, PTL DEF Spec

\* No step changes a version that is there.
LEMMA VersionsGrow ==
    ASSUME Inv, Next
    PROVE  /\ Len(versions) \in Nat /\ Len(versions') \in Nat
           /\ Len(versions') >= Len(versions)
           /\ \A i \in 1 .. Len(versions) : versions'[i] = versions[i]
<1>1. UNCHANGED versions \/ \E c \in Changes, e \in SUBSET Schemas : Store(c, e)
  <2>1. ASSUME NEW y \in Slots, NEW op \in Operations, WriteDirect(y, op)
        PROVE  \E c \in Changes, e \in SUBSET Schemas : Store(c, e)
    BY <2>1, SingleType, SingleHeld DEF WriteDirect
  <2>2. WriteBatch => \E c \in Changes, e \in SUBSET Schemas : Store(c, e)
    BY DEF WriteBatch, Inv, TypeOK, Batches
  <2>3. ASSUME NEW t \in Txs, TxStep(t)
        PROVE  UNCHANGED versions \/ \E c \in Changes, e \in SUBSET Schemas : Store(c, e)
    <3>1. Commit(t) => /\ Store(changes[t], entries[t])
                      /\ changes[t] \in Changes /\ entries[t] \in SUBSET Schemas
      BY DEF Commit, Inv, TypeOK
    <3> QED
      BY <2>3, <3>1 DEF TxStep, Begin, TxWrite, TxWriteBatch, Record, MultiGet,
                        MultiGetNext, IntoChanges, DropTx
  <2> QED
    BY <2>1, <2>2, <2>3 DEF Next, EmptyChanges, TakeSnapshot, Drop, DropInner
<1>2. CASE UNCHANGED versions
  BY <1>2, CurrentType DEF Inv
<1>3. ASSUME NEW c \in Changes, NEW e \in SUBSET Schemas, Store(c, e)
      PROVE  /\ versions' \in Seq(Contents)
             /\ Len(versions') >= Len(versions)
             /\ \A i \in 1 .. Len(versions) : versions'[i] = versions[i]
  BY <1>3, StoreType DEF Inv
<1> QED
  BY <1>1, <1>2, <1>3, CurrentType DEF Inv

\* Every variable keeps its type.
THEOREM TypeCorrect == Spec => []TypeOK
BY Invariance, PTL DEF Inv

\* The overlay that get, exists and multi_get read equals the calls of the transaction
\* executed one by one over what is committed.
THEOREM OwnWritesTheorem == Spec => []ReadsOwnWrites
<1>1. Inv => ReadsOwnWrites
  <2> SUFFICES ASSUME Inv, NEW t \in Txs, NEW x \in Slots
               PROVE  Lookup(t, x) = Expected(t)[x]
    BY DEF ReadsOwnWrites
  <2>1. x \in wrote[t] <=> changes[t][x] # Untouched
    BY DEF Inv, ChangesReplay, Touched
  <2> QED
    BY <2>1 DEF Inv, ChangesReplay, Lookup, Expected
<1> QED
  BY <1>1, Invariance, PTL

\* A commit is all or nothing and overwrites nothing that its transaction did not write,
\* with any number of transactions at once.
THEOREM CommitTheorem == Spec => CommitsWhole
<1>1. Inv /\ [Next]_vars => [\A t \in Txs : tx[t] = "open" /\ tx'[t] = "over" =>
                                Current' \in {Current, Expected(t)}]_vars
  <2> SUFFICES ASSUME Inv, Next, NEW t \in Txs, tx[t] = "open", tx'[t] = "over"
               PROVE  Current' \in {Current, Expected(t)}
    OBVIOUS
  <2>1. CASE UNCHANGED versions
    BY <2>1 DEF Current
  <2>2. CASE Commit(t)
    <3>1. CASE versions' = Append(versions, Apply(changes[t], Current))
      <4>1. versions \in Seq(Contents) /\ Apply(changes[t], Current) \in Contents
        BY CurrentType, ApplyType DEF Inv, TypeOK
      <4>2. Current' = Apply(changes[t], Current)
        BY <3>1, <4>1 DEF Current
      <4>3. ASSUME NEW x \in Slots
            PROVE  Apply(changes[t], Current)[x] = Expected(t)[x]
        <5>1. x \in wrote[t] <=> changes[t][x] # Untouched
          BY DEF Inv, ChangesReplay, Touched
        <5> QED
          BY <5>1, DatabaseAssumption DEF Inv, ChangesReplay, Apply, Expected, Operations
      <4> QED
        BY <4>2, <4>3 DEF Apply, Expected
    <3> QED
      BY <2>1, <2>2, <3>1 DEF Commit, Store
  <2>3. ASSUME NEW u \in Txs, TxStep(u), ~UNCHANGED versions
        PROVE  Commit(u) /\ u = t
    <3>1. Commit(u)
      BY <2>3 DEF TxStep, Begin, TxWrite, TxWriteBatch, Record, MultiGet, MultiGetNext,
                  IntoChanges, DropTx
    <3> QED
      BY <3>1 DEF Commit, End, Inv, TypeOK
  <2>4. (\E u \in Txs : TxStep(u)) \/ UNCHANGED versions
    BY DEF Next, WriteDirect, WriteBatch, EmptyChanges, TakeSnapshot, Drop, DropInner, txVars
  <2> QED
    BY <2>1, <2>2, <2>3, <2>4
<1> QED
  BY <1>1, Invariance, PTL DEF Spec, CommitsWhole

\* Reads at a snapshot are repeatable through either set of read options.
THEOREM SnapshotTheorem == Spec => SnapshotsFixed
<1>1. Inv /\ Inv' /\ [Next]_vars =>
        [\A h \in Snaps, x \in Slots : handle[h] = "live" /\ handle'[h] = "live" =>
            Iterated(h, x)' = Get(h, x) /\ Get(h, x)' = Iterated(h, x)]_vars
  <2> SUFFICES ASSUME Inv, Inv', Next, NEW h \in Snaps, NEW x \in Slots,
                      handle[h] = "live", handle'[h] = "live"
               PROVE  Iterated(h, x)' = Get(h, x) /\ Get(h, x)' = Iterated(h, x)
    OBVIOUS
  <2>2. \A i \in 1 .. Len(versions) : versions'[i] = versions[i]
    BY VersionsGrow
  <2>3. /\ snapshot'[h] = snapshot[h] /\ snapshot[h] \in 1 .. Len(versions)
        /\ readOpts[h] = snapshot[h] /\ readOpts'[h] = snapshot'[h]
    <3>1. UNCHANGED snapshot \/ \E g \in Handles : TakeSnapshot(g) \/ Drop(g)
      BY DEF Next, TxStep, Begin, TxWrite, TxWriteBatch, Record, MultiGet, MultiGetNext,
             Commit, IntoChanges, DropTx, WriteDirect, WriteBatch, EmptyChanges, DropInner,
             handleVars, Handles
    <3>2. snapshot'[h] = snapshot[h]
      BY <3>1 DEF TakeSnapshot, Drop, Inv, TypeOK, Handles
    <3> QED
      BY <3>2 DEF Inv, SnapshotsPinned
  <2> QED
    BY <2>2, <2>3, CurrentType, DatabaseAssumption DEF Get, Iterated, ReadAt, Inv
<1> QED
  BY <1>1, Invariance, PTL DEF Spec, SnapshotsFixed

\* No order of dropping the handles closes the database under a snapshot.
THEOREM ReleaseTheorem == Spec => []ReleasedBeforeClose
<1>1. Inv => ReleasedBeforeClose
  BY DEF Inv, NoHandleLeft, SnapshotsPinned, ReleasedBeforeClose
<1> QED
  BY <1>1, Invariance, PTL

-----------------------------------------------------------------------------
(* multi_get *)

\* The value that the running multi_get of t has for key k is the one of version v.
OfVersion(t, k, v) ==
    read[t].got[k] = Apply(changes[t], versions[v])[<<read[t].schema, k>>]

\* What a multi_get has read so far: each value is of a version since the call began;
\* without an entry for the schema all of them are of the first one, and as long as
\* nobody has written since, all that are there are of that one.
ReadsKept ==
    \A t \in Txs : read[t] # None =>
        /\ tx[t] = "open"
        /\ read[t].since \in 1 .. Len(versions)
        /\ \A k \in Keys : read[t].got[k] # None =>
              \E v \in read[t].since .. Len(versions) : OfVersion(t, k, v)
        /\ read[t].schema \notin entries[t] =>
              \A k \in Keys : read[t].got[k] # None /\ OfVersion(t, k, read[t].since)
        /\ read[t].since = Len(versions) =>
              \A k \in Keys : read[t].got[k] # None => OfVersion(t, k, read[t].since)

\* A lookup is a read of the contents with the transaction's changes applied.
LEMMA LookupApplies ==
    ASSUME TypeOK, NEW t \in Txs, NEW x \in Slots
    PROVE  Lookup(t, x) = Apply(changes[t], Current)[x]
BY DatabaseAssumption DEF TypeOK, Lookup, Apply, Operations, Changes

\* A call that no step touches keeps what it has, whatever is written meanwhile.
LEMMA ReadUntouched ==
    ASSUME Inv, ReadsKept, Next, NEW t \in Txs, read'[t] # None,
           read'[t] = read[t], changes'[t] = changes[t],
           entries'[t] = entries[t], tx'[t] = tx[t]
    PROVE  /\ tx'[t] = "open"
           /\ read'[t].since \in 1 .. Len(versions')
           /\ \A k \in Keys : read'[t].got[k] # None =>
                 \E v \in read'[t].since .. Len(versions') : OfVersion(t, k, v)'
           /\ read'[t].schema \notin entries'[t] =>
                 \A k \in Keys : read'[t].got[k] # None /\ OfVersion(t, k, read[t].since)'
           /\ read'[t].since = Len(versions') =>
                 \A k \in Keys : read'[t].got[k] # None => OfVersion(t, k, read[t].since)'
<1>1. /\ read[t].since \in 1 .. Len(versions) /\ tx[t] = "open"
      /\ Len(versions) \in Nat /\ Len(versions') \in Nat /\ Len(versions') >= Len(versions)
  BY VersionsGrow DEF ReadsKept
<1>2. \A k \in Keys : \A v \in 1 .. Len(versions) : OfVersion(t, k, v)' <=> OfVersion(t, k, v)
  BY VersionsGrow DEF OfVersion, Apply
<1>3. ASSUME NEW k \in Keys, read[t].got[k] # None
      PROVE  \E v \in read'[t].since .. Len(versions') : OfVersion(t, k, v)'
  <2>1. PICK v \in read[t].since .. Len(versions) : OfVersion(t, k, v)
    BY <1>3 DEF ReadsKept
  <2> QED
    BY <1>1, <1>2, <2>1
<1>4. read[t].since = Len(versions') => read[t].since = Len(versions)
  BY <1>1
<1> QED
  BY <1>1, <1>2, <1>3, <1>4 DEF ReadsKept

\* The start of a call.
LEMMA MultiGetStart ==
    ASSUME Inv, NEW t \in Txs, NEW s \in Schemas, MultiGet(t, s), ReadsKept
    PROVE  ReadsKept'
<1> DEFINE loop == s \in entries[t]
           got == [k \in Keys |-> IF loop THEN None ELSE Current[<<s, k>>]]
<1>1. \A u \in Txs \ {t} : read'[u] = read[u]
  BY DEF MultiGet, Inv, TypeOK
<1>2. read'[t] = [schema |-> s, since |-> Len(versions), got |-> got]
  BY DEF MultiGet, Inv, TypeOK
<1>3. UNCHANGED <<versions, tx, changes, entries>> /\ tx[t] = "open"
  BY DEF MultiGet, Exclusive
<1>4. \A k \in Keys : <<s, k>> \in Slots
  BY DEF Slots
<1>5. ASSUME NEW k \in Keys, ~loop
      PROVE  /\ read'[t].got[k] # None
             /\ OfVersion(t, k, Len(versions))'
  <2>1. <<s, k>> \notin Touched(changes[t])
    BY <1>5 DEF Inv, EntriesHold
  <2>2. changes[t][<<s, k>>] = Untouched
    BY <1>4, <2>1 DEF Touched
  <2>3. Apply(changes[t], Current)[<<s, k>>] = Current[<<s, k>>]
    BY <1>4, <2>2, DatabaseAssumption DEF Apply, Operations
  <2>4. Current[<<s, k>>] \in Values \cup {Absent}
    BY <1>4, CurrentType DEF Inv, Contents
  <2>5. read'[t].got[k] = Current[<<s, k>>] /\ read'[t].schema = s
    BY <1>2, <1>5
  <2> QED
    BY <1>3, <2>3, <2>4, <2>5, DatabaseAssumption DEF OfVersion, Current
<1>6. loop => \A k \in Keys : read'[t].got[k] = None
  BY <1>2
<1>7. read'[t].since = Len(versions) /\ read'[t].schema = s
  BY <1>2
<1>8. Len(versions) \in Nat \ {0}
  BY CurrentType DEF Inv
<1> HIDE DEF got
<1> SUFFICES ASSUME NEW u \in Txs, read'[u] # None
             PROVE  /\ tx'[u] = "open"
                    /\ read'[u].since \in 1 .. Len(versions')
                    /\ \A k \in Keys : read'[u].got[k] # None =>
                          \E v \in read'[u].since .. Len(versions') : OfVersion(u, k, v)'
                    /\ read'[u].schema \notin entries'[u] =>
                          \A k \in Keys : read'[u].got[k] # None
                                          /\ OfVersion(u, k, read[u].since)'
                    /\ read'[u].since = Len(versions') =>
                          \A k \in Keys : read'[u].got[k] # None =>
                                          OfVersion(u, k, read[u].since)'
  BY DEF ReadsKept
<1>9. CASE u # t
  BY <1>1, <1>3, <1>9 DEF ReadsKept, OfVersion
<1>10. CASE u = t
  BY <1>3, <1>5, <1>6, <1>7, <1>8, <1>10
<1> QED
  BY <1>9, <1>10

\* One iteration of the loop.
LEMMA MultiGetIteration ==
    ASSUME Inv, NEW t \in Txs, NEW k \in Keys, MultiGetNext(t, k), ReadsKept
    PROVE  ReadsKept'
<1> DEFINE slot == <<read[t].schema, k>>
<1>1. read[t] \in [schema : Schemas, since : Nat, got : [Keys -> Values \cup {Absent, None}]]
  BY DEF MultiGetNext, Inv, TypeOK
<1>2. slot \in Slots
  BY <1>1 DEF Slots
<1>3. \A u \in Txs \ {t} : read'[u] = read[u]
  BY DEF MultiGetNext, Inv, TypeOK
<1>4. /\ read'[t].schema = read[t].schema /\ read'[t].since = read[t].since
      /\ read'[t].got = [read[t].got EXCEPT ![k] = Lookup(t, slot)]
  BY <1>1 DEF MultiGetNext, Inv, TypeOK
<1>5. UNCHANGED <<versions, tx, changes, entries>> /\ read[t] # None /\ read[t].got[k] = None
  BY DEF MultiGetNext
<1>6. OfVersion(t, k, Len(versions))'
  <2>1. read'[t].got[k] = Lookup(t, slot)
    BY <1>1, <1>4
  <2>2. Lookup(t, slot) = Apply(changes[t], Current)[slot]
    BY <1>2, LookupApplies DEF Inv
  <2> QED
    BY <1>4, <1>5, <2>1, <2>2 DEF OfVersion, Current
<1>7. \A j \in Keys \ {k} : /\ read'[t].got[j] = read[t].got[j]
                            /\ \A v : OfVersion(t, j, v) => OfVersion(t, j, v)'
  BY <1>1, <1>4, <1>5 DEF OfVersion
<1>8. Len(versions) \in Nat \ {0} /\ read[t].since \in 1 .. Len(versions)
  BY <1>5, CurrentType DEF Inv, ReadsKept
<1>9. read[t].schema \in entries[t]
  BY <1>5 DEF ReadsKept
<1> HIDE DEF slot
<1> SUFFICES ASSUME NEW u \in Txs, read'[u] # None
             PROVE  /\ tx'[u] = "open"
                    /\ read'[u].since \in 1 .. Len(versions')
                    /\ \A j \in Keys : read'[u].got[j] # None =>
                          \E v \in read'[u].since .. Len(versions') : OfVersion(u, j, v)'
                    /\ read'[u].schema \notin entries'[u] =>
                          \A j \in Keys : read'[u].got[j] # None
                                          /\ OfVersion(u, j, read[u].since)'
                    /\ read'[u].since = Len(versions') =>
                          \A j \in Keys : read'[u].got[j] # None =>
                                          OfVersion(u, j, read[u].since)'
  BY DEF ReadsKept
<1>10. CASE u # t
  BY <1>3, <1>5, <1>10 DEF ReadsKept, OfVersion
<1>11. CASE u = t
  <2>1. tx'[u] = "open" /\ read'[u].since \in 1 .. Len(versions')
    BY <1>4, <1>5, <1>8, <1>11 DEF ReadsKept
  <2>2. ASSUME NEW j \in Keys, read'[u].got[j] # None
        PROVE  \E v \in read'[u].since .. Len(versions') : OfVersion(u, j, v)'
    <3>1. CASE j = k
      BY <1>4, <1>5, <1>6, <1>8, <1>11, <3>1
    <3>2. CASE j # k
      <4>1. PICK v \in read[t].since .. Len(versions) : OfVersion(t, j, v)
        BY <1>5, <1>7, <1>11, <2>2, <3>2 DEF ReadsKept
      <4> QED
        BY <1>4, <1>5, <1>7, <1>11, <3>2, <4>1
    <3> QED
      BY <3>1, <3>2
  <2>3. ASSUME read'[u].since = Len(versions'), NEW j \in Keys, read'[u].got[j] # None
        PROVE  OfVersion(u, j, read[u].since)'
    <3>1. read[t].since = Len(versions)
      BY <1>4, <1>5, <1>11, <2>3
    <3>2. CASE j = k
      BY <1>4, <1>5, <1>6, <1>11, <3>1, <3>2
    <3>3. CASE j # k
      <4>1. OfVersion(t, j, read[t].since)
        BY <1>5, <1>7, <1>11, <2>3, <3>1, <3>3 DEF ReadsKept
      <4> QED
        BY <1>4, <1>7, <1>11, <3>3, <4>1
    <3> QED
      BY <3>2, <3>3
  <2> QED
    BY <1>4, <1>5, <1>9, <1>11, <2>1, <2>2, <2>3
<1> QED
  BY <1>10, <1>11

\* Every step keeps what the running calls have read.
LEMMA ReadsKeptStep ==
    ASSUME Inv, ReadsKept, [Next]_vars
    PROVE  ReadsKept'
<1>1. ASSUME NEW t \in Txs, NEW s \in Schemas, MultiGet(t, s)
      PROVE  ReadsKept'
  BY <1>1, MultiGetStart
<1>2. ASSUME NEW t \in Txs, NEW k \in Keys, MultiGetNext(t, k)
      PROVE  ReadsKept'
  BY <1>2, MultiGetIteration
<1>3. ASSUME Next,
             \A t \in Txs : \/ read'[t] = None
                            \/ /\ read'[t] = read[t] /\ changes'[t] = changes[t]
                               /\ entries'[t] = entries[t] /\ tx'[t] = tx[t]
      PROVE  ReadsKept'
  BY <1>3, ReadUntouched DEF ReadsKept
<1>4. ASSUME NEW t \in Txs, Begin(t)
      PROVE  \A u \in Txs : \/ read'[u] = None
                            \/ /\ read'[u] = read[u] /\ changes'[u] = changes[u]
                               /\ entries'[u] = entries[u] /\ tx'[u] = tx[u]
  BY <1>4 DEF Begin, Inv, TypeOK, ReadsKept
<1>5. ASSUME NEW t \in Txs,
             \/ \E x \in Slots, op \in Operations : TxWrite(t, x, op)
             \/ TxWriteBatch(t) \/ Commit(t) \/ IntoChanges(t) \/ DropTx(t)
      PROVE  \A u \in Txs : \/ read'[u] = None
                            \/ /\ read'[u] = read[u] /\ changes'[u] = changes[u]
                               /\ entries'[u] = entries[u] /\ tx'[u] = tx[u]
  BY <1>5 DEF TxWrite, TxWriteBatch, Record, Commit, IntoChanges, DropTx, End, Inv, TypeOK
<1>6. ASSUME \/ \E x \in Slots, op \in Operations : WriteDirect(x, op)
             \/ WriteBatch
             \/ \E s \in Schemas : EmptyChanges(s)
             \/ \E h \in Snaps : TakeSnapshot(h)
             \/ \E h \in Handles : Drop(h) \/ DropInner(h)
      PROVE  UNCHANGED txVars
  BY <1>6 DEF WriteDirect, WriteBatch, EmptyChanges, TakeSnapshot, Drop, DropInner
<1>7. CASE Next
  BY <1>1, <1>2, <1>3, <1>4, <1>5, <1>6, <1>7 DEF Next, TxStep, txVars
<1>8. CASE UNCHANGED vars
  BY <1>8 DEF vars, txVars, ReadsKept, OfVersion
<1> QED
  BY <1>7, <1>8

\* Each value of a multi_get is one that a get during the call could have returned, and
\* they are of one state unless the transaction has an entry for the schema and somebody
\* commits during the call; with any number of transactions and of commits.
THEOREM MultiGetTheorem == Spec => []MultiGetOfOneState
<1>1. Init => ReadsKept
  BY DEF Init, ReadsKept
<1>2. Inv /\ ReadsKept /\ [Next]_vars => ReadsKept'
  BY ReadsKeptStep
<1>3. Inv /\ ReadsKept => MultiGetOfOneState
  <2> SUFFICES ASSUME Inv, ReadsKept, NEW t \in Txs, tx[t] = "open", read[t] # None
               PROVE  LET keys == {k \in Keys : read[t].got[k] # None}
                          since == read[t].since .. Len(versions)
                      IN  /\ \A k \in keys : \E v \in since : OfVersion(t, k, v)
                          /\ \/ read[t].schema \notin entries[t]
                             \/ read[t].since = Len(versions)
                             => \E v \in since : \A k \in keys : OfVersion(t, k, v)
    BY DEF MultiGetOfOneState, OfVersion
  <2>1. read[t].since \in read[t].since .. Len(versions)
    BY CurrentType DEF Inv, ReadsKept
  <2> QED
    BY <2>1 DEF ReadsKept
<1> QED
  BY <1>1, <1>2, <1>3, Invariance, PTL DEF Spec
=============================================================================
