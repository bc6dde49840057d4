------------------------------ MODULE Database ------------------------------
(***************************************************************************)
(* The database crate: a RocksDB handle, in-memory transactions that share *)
(* it from several threads, and snapshot handles.                          *)
(*                                                                         *)
(* RocksDB itself is external: it applies a write batch atomically, reads  *)
(* several keys of one column family from one state, and keeps the state   *)
(* of a snapshot until the snapshot is released.  Its states are kept in   *)
(* versions, so that a read at a snapshot is a read of an earlier version. *)
(* Keys and values are not encoded: the codec only has to be injective.    *)
(***************************************************************************)
EXTENDS Integers, Sequences, FiniteSets

CONSTANTS
    Schemas,     \* schema names
    Registered,  \* the schemas that were passed to open
    Keys,        \* the keys of a schema
    Values,
    Absent,      \* no value: None of get
    Deleted,     \* WriteOperation::Delete
    Untouched,   \* no operation in the changes
    Txs,         \* in-memory transactions
    Snaps,       \* snapshot handles
    Main,        \* the handle that open returned
    None,        \* no snapshot, no call, no batch
    MaxWrites    \* bound: the calls that write

Slots == Schemas \X Keys
Contents == [Slots -> Values \cup {Absent}]

\* The operations of a value of type Changes.
Operations == Values \cup {Deleted}
Changes == [Slots -> Operations \cup {Untouched}]
NoChanges == [x \in Slots |-> Untouched]

\* Such a value with the schemas that have an entry in it: the map of an entry may be
\* empty, and the entry still counts.
Batches == [ops : Changes, entries : SUBSET Schemas]

Handles == Snaps \cup {Main}

ASSUME DatabaseAssumption ==
    /\ Registered \subseteq Schemas
    /\ Absent \notin Values
    /\ Deleted \notin Values /\ Untouched \notin Operations
    /\ Main \notin Snaps
    /\ None \notin Nat /\ None \notin Batches /\ None \notin Values \cup {Absent}
    /\ MaxWrites \in Nat

VARIABLES
    versions,    \* the states of the database so far
    tx,          \* whether a transaction is new, open or over
    changes,     \* InMemoryTransaction.changes: the operations
    entries,     \* InMemoryTransaction.changes: the schemas that have an entry
    read,        \* its multi_get call: the schema, the version at the start and the values
    batch,       \* a value of type Changes that the caller holds, or None
    handle,      \* whether a handle is new, live, being dropped or gone
    snapshot,    \* RocksDB.snapshot: the version it pins, or None
    readOpts,    \* RocksDB.read_opts: the version it reads at, or None for the latest
    closed,      \* the last Arc<DB> was dropped
    writes,      \* the number of writes so far
    view,        \* history: the contents when the transaction began, with its calls applied
    wrote        \* history: the slots that its calls wrote

txVars == <<tx, changes, entries, read, view, wrote>>
handleVars == <<handle, snapshot, readOpts, closed>>
vars == <<versions, txVars, batch, handleVars, writes>>

Current == versions[Len(versions)]

TypeOK ==
    /\ versions \in Seq(Contents) /\ versions # <<>>
    /\ tx \in [Txs -> {"new", "open", "over"}]
    /\ changes \in [Txs -> Changes]
    /\ read \in [Txs -> [schema : Schemas, since : Nat,
                         got : [Keys -> Values \cup {Absent, None}]] \cup {None}]
    /\ entries \in [Txs -> SUBSET Schemas]
    /\ batch \in Batches \cup {None}
    /\ handle \in [Handles -> {"new", "live", "dropping", "gone"}]
    /\ snapshot \in [Handles -> Nat \cup {None}]
    /\ readOpts \in [Handles -> Nat \cup {None}]
    /\ closed \in BOOLEAN
    /\ writes \in Nat
    /\ view \in [Txs -> Contents]
    /\ wrote \in [Txs -> SUBSET Slots]

Init ==
    /\ versions = <<[x \in Slots |-> Absent]>>
    /\ tx = [t \in Txs |-> "new"]
    /\ changes = [t \in Txs |-> NoChanges]
    /\ entries = [t \in Txs |-> {}]
    /\ read = [t \in Txs |-> None]
    /\ batch = None
    /\ handle = [h \in Handles |-> IF h = Main THEN "live" ELSE "new"]
    /\ snapshot = [h \in Handles |-> None]
    /\ readOpts = [h \in Handles |-> None]
    /\ closed = FALSE
    /\ writes = 0
    /\ view = [t \in Txs |-> versions[1]]
    /\ wrote = [t \in Txs |-> {}]

Write == writes < MaxWrites /\ writes' = writes + 1

-----------------------------------------------------------------------------
(* Reading and writing *)

Touched(c) == {x \in Slots : c[x] # Untouched}

\* What remains of contents d after the operations c.
Apply(c, d) ==
    [x \in Slots |-> CASE c[x] = Untouched -> d[x]
                       [] c[x] = Deleted -> Absent
                       [] OTHER -> c[x]]

\* Mutant: the schemas before an unregistered one are written.
Store_Partly(c, e) ==
    LET known == [x \in Slots |-> IF x[1] \in Registered THEN c[x] ELSE Untouched]
    IN  versions' = Append(versions, Apply(known, Current))

\* raw_write_batch: cf_handle panics on an entry whose schema is not registered, even an
\* empty one, before anything is written; the write itself may fail.
Store(c, e) ==
    \/ /\ e \subseteq Registered
       /\ versions' = Append(versions, Apply(c, Current))
    \/ UNCHANGED versions

\* No transaction borrows the handle, which &mut self and drop require.
Unborrowed == handle[Main] = "live" /\ \A t \in Txs : tx[t] # "open"

\* RocksDB::put and delete.
WriteDirect(x, op) ==
    /\ Write
    /\ Unborrowed
    /\ x[1] \in Registered
    /\ Store([NoChanges EXCEPT ![x] = op], {x[1]})
    /\ UNCHANGED <<txVars, batch, handleVars>>

\* RocksDB::write_batch.
WriteBatch ==
    /\ Write
    /\ Unborrowed
    /\ batch # None
    /\ Store(batch.ops, batch.entries)
    /\ batch' = None
    /\ UNCHANGED <<txVars, handleVars>>

\* The caller makes Changes of its own: a map without operations for a schema.
EmptyChanges(s) ==
    /\ batch = None
    /\ batch' = [ops |-> NoChanges, entries |-> {s}]
    /\ UNCHANGED <<versions, txVars, handleVars, writes>>

-----------------------------------------------------------------------------
(* Transactions *)

\* RocksDB::transaction.
Begin(t) ==
    /\ handle[Main] = "live"
    /\ tx[t] = "new"
    /\ tx' = [tx EXCEPT ![t] = "open"]
    /\ view' = [view EXCEPT ![t] = Current]
    /\ UNCHANGED <<versions, changes, entries, read, wrote, batch, handleVars, writes>>

\* A call that needs &mut self; multi_get holds &self while it runs.
Exclusive(t) ==
    /\ tx[t] = "open"
    /\ read[t] # None => \A k \in Keys : read[t].got[k] # None

\* The transaction's operations after the operations c.
Merge(old, c) == [x \in Slots |-> IF c[x] = Untouched THEN old[x] ELSE c[x]]

\* The operations c and the entries e are taken into the changes; entry(..).or_default()
\* comes before the inserts.
Record(t, c, e) ==
    /\ Write
    /\ Exclusive(t)
    /\ changes' = [changes EXCEPT ![t] = Merge(@, c)]
    /\ entries' = [entries EXCEPT ![t] = @ \cup e]
    /\ read' = [read EXCEPT ![t] = None]
    /\ view' = [view EXCEPT ![t] = Apply(c, @)]
    /\ wrote' = [wrote EXCEPT ![t] = @ \cup Touched(c)]
    /\ UNCHANGED <<versions, tx, handleVars>>

\* Mutant: a delete only forgets the transaction's own put.
TxWrite_Forget(t, x, op) ==
    /\ Write
    /\ Exclusive(t)
    /\ changes' = [changes EXCEPT ![t][x] = IF op = Deleted THEN Untouched ELSE op]
    /\ entries' = [entries EXCEPT ![t] = @ \cup {x[1]}]
    /\ read' = [read EXCEPT ![t] = None]
    /\ view' = [view EXCEPT ![t] = Apply([NoChanges EXCEPT ![x] = op], @)]
    /\ wrote' = [wrote EXCEPT ![t] = @ \cup {x}]
    /\ UNCHANGED <<versions, tx, batch, handleVars>>

\* InMemoryTransaction::put and delete.
TxWrite(t, x, op) ==
    /\ Record(t, [NoChanges EXCEPT ![x] = op], {x[1]})
    /\ UNCHANGED batch

\* InMemoryTransaction::write_batch.
TxWriteBatch(t) ==
    /\ batch # None
    /\ Record(t, batch.ops, batch.entries)
    /\ batch' = None

\* Mutant: the operation Delete is returned as if it were a value.
Lookup_Raw(t, x) == IF changes[t][x] # Untouched THEN changes[t][x] ELSE Current[x]

\* InMemoryTransaction::get and exists, and an element of multi_get: the changes first,
\* then raw_get.
Lookup(t, x) ==
    IF changes[t][x] # Untouched
    THEN IF changes[t][x] = Deleted THEN Absent ELSE changes[t][x]
    ELSE Current[x]

\* Mutant: the batched read is used whatever the changes are.
MultiGet_Batched(t, s) ==
    /\ Exclusive(t)
    /\ s \in Registered
    /\ read' = [read EXCEPT ![t] = [schema |-> s, since |-> Len(versions),
                                    got |-> [k \in Keys |-> Current[<<s, k>>]]]]
    /\ UNCHANGED <<versions, tx, changes, entries, view, wrote, batch, handleVars, writes>>

\* InMemoryTransaction::multi_get of all keys of a schema: one batched read if the
\* transaction's changes have no entry for the schema, else a loop over the keys.  A read from a
\* schema that is not registered panics and changes nothing.
MultiGet(t, s) ==
    /\ Exclusive(t)
    /\ s \in Registered
    /\ LET got == [k \in Keys |-> IF s \in entries[t] THEN None ELSE Current[<<s, k>>]]
       IN  read' = [read EXCEPT ![t] = [schema |-> s, since |-> Len(versions), got |-> got]]
    /\ UNCHANGED <<versions, tx, changes, entries, view, wrote, batch, handleVars, writes>>

\* An iteration of that loop.
MultiGetNext(t, k) ==
    /\ tx[t] = "open"
    /\ read[t] # None
    /\ read[t].got[k] = None
    /\ read' = [read EXCEPT ![t].got[k] = Lookup(t, <<read[t].schema, k>>)]
    /\ UNCHANGED <<versions, tx, changes, entries, view, wrote, batch, handleVars, writes>>

\* The transaction is consumed.
End(t) ==
    /\ Exclusive(t)
    /\ tx' = [tx EXCEPT ![t] = "over"]
    /\ read' = [read EXCEPT ![t] = None]

\* commit: the changes are written as one batch.
Commit(t) ==
    /\ Write
    /\ End(t)
    /\ Store(changes[t], entries[t])
    /\ UNCHANGED <<changes, entries, view, wrote, batch, handleVars>>

\* into_changes; the caller holds one value of type Changes at a time.
IntoChanges(t) ==
    /\ End(t)
    /\ batch = None
    /\ batch' = [ops |-> changes[t], entries |-> entries[t]]
    /\ UNCHANGED <<versions, changes, entries, view, wrote, handleVars, writes>>

\* The transaction is dropped.
DropTx(t) ==
    /\ End(t)
    /\ UNCHANGED <<versions, changes, entries, view, wrote, batch, handleVars, writes>>

-----------------------------------------------------------------------------
(* Snapshots *)

\* Mutant: read_opts are the ones of a handle without a snapshot.
TakeSnapshot_Latest(h) ==
    /\ handle[Main] = "live"
    /\ handle[h] = "new"
    /\ handle' = [handle EXCEPT ![h] = "live"]
    /\ snapshot' = [snapshot EXCEPT ![h] = Len(versions)]
    /\ UNCHANGED <<versions, txVars, batch, readOpts, closed, writes>>

\* RocksDB::snapshot: the new handle shares the Arc and reads at the snapshot.
TakeSnapshot(h) ==
    /\ handle[Main] = "live"
    /\ handle[h] = "new"
    /\ handle' = [handle EXCEPT ![h] = "live"]
    /\ snapshot' = [snapshot EXCEPT ![h] = Len(versions)]
    /\ readOpts' = [readOpts EXCEPT ![h] = Len(versions)]
    /\ UNCHANGED <<versions, txVars, batch, closed, writes>>

\* A read with options that generate_read_opts made for snapshot v.
ReadAt(v, x) == IF v = None THEN Current[x] ELSE versions[v][x]

\* get, multi_get and exists of a handle read with read_opts.
Get(h, x) == ReadAt(readOpts[h], x)

\* iterator makes its own options from the snapshot.
Iterated(h, x) == ReadAt(snapshot[h], x)

\* Mutant: there is no Drop, so the fields are dropped in the order of their declaration.
Drop_Implicit(h) ==
    /\ handle[h] = "live"
    /\ h = Main => Unborrowed
    /\ handle' = [handle EXCEPT ![h] = "dropping"]
    /\ UNCHANGED <<versions, txVars, batch, snapshot, readOpts, closed, writes>>

\* Drop::drop releases the snapshot; read_opts stays as it is.
Drop(h) ==
    /\ handle[h] = "live"
    /\ h = Main => Unborrowed
    /\ handle' = [handle EXCEPT ![h] = "dropping"]
    /\ snapshot' = [snapshot EXCEPT ![h] = None]
    /\ UNCHANGED <<versions, txVars, batch, readOpts, closed, writes>>

\* Then the fields are dropped, inner first; the last Arc closes the database.
DropInner(h) ==
    /\ handle[h] = "dropping"
    /\ handle' = [handle EXCEPT ![h] = "gone"]
    /\ closed' = \A g \in Handles \ {h} : handle[g] \in {"new", "gone"}
    /\ UNCHANGED <<versions, txVars, batch, snapshot, readOpts, writes>>

-----------------------------------------------------------------------------
TxStep(t) ==
    \/ Begin(t)
    \/ \E x \in Slots, op \in Operations : TxWrite(t, x, op)
    \/ TxWriteBatch(t)
    \/ \E s \in Schemas : MultiGet(t, s)
    \/ \E k \in Keys : MultiGetNext(t, k)
    \/ Commit(t)
    \/ IntoChanges(t)
    \/ DropTx(t)

Next ==
    \/ \E t \in Txs : TxStep(t)
    \/ \E x \in Slots, op \in Operations : WriteDirect(x, op)
    \/ WriteBatch
    \/ \E s \in Schemas : EmptyChanges(s)
    \/ \E h \in Snaps : TakeSnapshot(h)
    \/ \E h \in Handles : Drop(h) \/ DropInner(h)

Spec == Init /\ [][Next]_vars

-----------------------------------------------------------------------------
(* Properties *)

\* The contents as the transaction should see them: its own writes as if each call had
\* been executed at once, over what the others have committed.
Expected(t) == [x \in Slots |-> IF x \in wrote[t] THEN view[t][x] ELSE Current[x]]

\* A transaction reads its own writes, the deletes included, and for every other slot
\* what is committed; after any sequence of put, delete and write_batch calls.
ReadsOwnWrites ==
    \A t \in Txs, x \in Slots : tx[t] = "open" => Lookup(t, x) = Expected(t)[x]

\* A commit leaves either nothing or all of the transaction's writes, and no slot that
\* the transaction did not write: what another transaction committed there since this
\* one began is kept.
CommitsWhole ==
    [][\A t \in Txs : tx[t] = "open" /\ tx'[t] = "over" =>
          Current' \in {Current, Expected(t)}]_vars

\* Each value of a multi_get is one that a get during the call could have returned.  All
\* of them together are the values of one state if the transaction has no entry for the
\* schema, or if nobody committed during the call; an empty entry is enough to lose that.
MultiGetOfOneState ==
    \A t \in Txs : tx[t] = "open" /\ read[t] # None =>
        LET keys == {k \in Keys : read[t].got[k] # None}
            since == read[t].since .. Len(versions)
            Agrees(k, v) == read[t].got[k] = Apply(changes[t], versions[v])[<<read[t].schema, k>>]
        IN  /\ \A k \in keys : \E v \in since : Agrees(k, v)
            /\ \/ read[t].schema \notin entries[t]
               \/ read[t].since = Len(versions)
               => \E v \in since : \A k \in keys : Agrees(k, v)

\* Whatever is written meanwhile, an iterator of a snapshot shows later what a get showed
\* before, and the other way round, although each makes its own read options.
SnapshotsFixed ==
    [][\A h \in Snaps, x \in Slots : handle[h] = "live" /\ handle'[h] = "live" =>
          Iterated(h, x)' = Get(h, x) /\ Get(h, x)' = Iterated(h, x)]_vars

\* The database is not closed before the last snapshot is released, in whatever order
\* the handles are dropped: the snapshot's reference is transmuted to 'static.
ReleasedBeforeClose == closed => \A h \in Snaps : snapshot[h] = None
=============================================================================
