----------------------------- MODULE FlushStore -----------------------------
(***************************************************************************)
(* PersistenceManager.saveAtomic() over a storage adapter, with crashes:   *)
(* a transaction commits by handing one batch to adapter.writeAll(), the   *)
(* batch ends with _meta, which carries a flush sentinel, and loadAll()    *)
(* reports a sentinel that it finds open.  Single saves (_saveOne) go to   *)
(* the adapter beside the batch.                                           *)
(*                                                                         *)
(* The contents of a collection are the version of its last mutation, and  *)
(* every mutation makes a new version.  Transactions are serialised, so    *)
(* one of them is in the state at a time; its locks and its timeout are in *)
(* Transaction, the queue of the single saves is in SaveQueue.             *)
(***************************************************************************)
EXTENDS Integers, Sequences, SequencesExt, FiniteSets

CONSTANTS Coll,         \* names of the collections with data
          Meta,         \* the name "_meta"
          Setups,       \* adapters and callers, see Setup
          MaxWrites,    \* bound on the number of mutations
          MaxCrashes    \* bound on the number of crashes

Name == Coll \union {Meta}

\* What the database is used with.  chunk: entries of a batch that the adapter
\* stores in one step; answersLost: it may fail after it stored everything;
\* inTx: names a transaction may write; saved: names saved one at a time, with
\* saveData(name); atOnce: bound on the mutations between change and mark.
Setup == [chunk : Nat \ {0}, answersLost : BOOLEAN,
          inTx : SUBSET Name, saved : SUBSET Name, atOnce : Nat]

ASSUME FlushStoreAssumption ==
  /\ IsFiniteSet(Coll) /\ Meta \notin Coll
  /\ Setups \subseteq Setup
  /\ MaxWrites \in Nat
  /\ MaxCrashes \in Nat

VARIABLES
  setup,     \* the adapter and the callers, which never change
  up,        \* the process runs and connect() has loaded the database
  writes,    \* mutations so far, which number the versions
  crashes,   \* crashes so far
  mem,       \* contents of each collection
  dirty,     \* collections with _dirty
  unmarked,  \* <<n, v>>: the mutation that made version v of n is yet to mark it
  overtaken, \* history: collections whose mark may be lost, because a snapshot
             \* was taken between a change and its mark, or because a batch
             \* returned after a newer change; until a batch stores them
  tx,        \* how far the transaction is
  touched,   \* ctx.touchedCollections, in the order of a JavaScript Set
  snap,      \* ctx.snapshots
  snapDirty, \* the touched collections whose snapshot has _dirty
  batch,     \* the names of the last saveAtomic()
  image,     \* what each name of that batch, and then _meta, was serialised to
  todo,      \* entries of the batch that writeAll() has not stored yet
  saving,    \* what the single save in flight of each name was serialised to
  disk,      \* what the adapter holds
  reported,  \* the last load warned of an incomplete flush
  cutShort,  \* history: a flush failed or was cut off, and none ended since
  durable    \* history: the version a caller was last told is saved

process == <<up, writes, crashes>>
memory == <<mem, dirty, unmarked, overtaken>>
context == <<tx, touched, snap, snapDirty>>
flush == <<batch, image, todo>>
history == <<reported, cutShort, durable>>
vars == <<setup, process, memory, context, flush, saving, disk, history>>

\* The text of a collection: its version and, in _meta, its flush sentinel.
Flush == {"none", "open", "closed"}
Contents == [version : Nat, flush : Flush]
Empty == [version |-> 0, flush |-> "none"]
NoImage == [version |-> -1, flush |-> "none"]
TxState == {"none", "running", "writing", "clearing", "failing"}

Touched == ToSet(touched)
NoFlight == [n \in Name |-> NoImage]

Init ==
  /\ setup \in Setups
  /\ up = TRUE
  /\ writes = 0
  /\ crashes = 0
  /\ mem = [n \in Name |-> Empty]
  /\ dirty = {}
  /\ unmarked = {}
  /\ overtaken = {}
  /\ tx = "none"
  /\ touched = <<>>
  /\ snap = [n \in Name |-> Empty]
  /\ snapDirty = {}
  /\ batch = {}
  /\ image = [n \in Name |-> Empty]
  /\ todo = <<>>
  /\ saving = NoFlight
  /\ disk = [n \in Name |-> Empty]
  /\ reported = FALSE
  /\ cutShort = FALSE
  /\ durable = [n \in Name |-> 0]

-----------------------------------------------------------------------------
(* Mutations. *)

\* The change: the collection gets a new version.
Mutated(n) ==
  /\ writes < MaxWrites
  /\ Cardinality(unmarked) < setup.atOnce
  /\ writes' = writes + 1
  /\ mem' = [mem EXCEPT ![n].version = writes']
  /\ unmarked' = unmarked \union {<<n, writes'>>}
  /\ UNCHANGED dirty

\* markDirty(), a turn after the change.
MarkDirty(n) ==
  /\ up
  /\ \E m \in unmarked : m[1] = n /\ unmarked' = unmarked \ {m}
  /\ dirty' = dirty \union {n}
  /\ UNCHANGED <<process, mem, overtaken, context, flush, saving, disk, history>>

\* The change of a mutation that is not awaited by fn(), on a collection of the
\* transaction too: it passed the lock check before the transaction touched the
\* collection and awaited its hooks, or after a timeout that came when fn() had
\* returned and that ended the lock, or fn() left it behind.
Write(n) ==
  /\ up
  /\ n \in Coll
  /\ Mutated(n)
  /\ UNCHANGED <<up, crashes, overtaken, context, flush, saving, disk, history>>

Begin ==
  /\ up
  /\ tx = "none"
  /\ tx' = "running"
  /\ UNCHANGED <<process, memory, touched, snap, snapDirty, flush, saving, disk,
                 history>>

\* Collections with a change that has not marked them.
Unmarked == {m[1] : m \in unmarked}

\* snapshotIfNeeded(): the first touch copies the data and the dirty flag.
Touch(n) ==
  IF n \in Touched
    THEN UNCHANGED <<touched, snap, snapDirty, overtaken>>
    ELSE /\ touched' = Append(touched, n)
         /\ snap' = [snap EXCEPT ![n] = mem[n]]
         /\ snapDirty' = IF n \in dirty THEN snapDirty \union {n} ELSE snapDirty
         /\ overtaken' = IF n \in Unmarked \ dirty THEN overtaken \union {n} ELSE overtaken

\* A mutation made by fn(); what it writes to _meta, it writes last: the list
\* of applied versions that run() of the migrations records after up().
TxWrite(n) ==
  /\ up
  /\ tx = "running"
  /\ n \in setup.inTx
  /\ n # Meta => Meta \notin Touched
  /\ Touch(n)
  /\ Mutated(n)
  /\ UNCHANGED <<up, crashes, tx, flush, saving, disk, history>>

-----------------------------------------------------------------------------
(* Commit: saveAtomic(). *)

\* The transaction is over.
Closed ==
  /\ tx' = "none"
  /\ touched' = <<>>
  /\ snapDirty' = {}
  /\ UNCHANGED snap

\* fn() returned and nothing was touched: there is no batch.
CommitNothing ==
  /\ up
  /\ tx = "running"
  /\ touched = <<>>
  /\ Closed
  /\ UNCHANGED <<process, memory, flush, saving, disk, history>>

\* The names of the batch in order: a Set, to which _meta is added last.
Entries == IF Meta \in Touched THEN touched ELSE Append(touched, Meta)

\* _writeFlushSentinel(): the sentinel is part of _meta, in memory.
OpenSentinel == [mem EXCEPT ![Meta].flush = "open"]

\* Open the sentinel and serialise the batch, in one turn.
Serialise ==
  /\ up
  /\ tx = "running"
  /\ touched # <<>>
  /\ tx' = "writing"
  /\ mem' = OpenSentinel
  /\ batch' = Touched
  /\ image' = mem'
  /\ todo' = Entries
  /\ UNCHANGED <<process, dirty, unmarked, overtaken, touched, snap, snapDirty,
                 saving, disk, history>>

\* How many entries the next step of writeAll() stores: one for the renames of
\* FsAdapter, batchSize for D1Adapter, all of them for the SQL databases.
StepSize == IF Len(todo) < setup.chunk THEN Len(todo) ELSE setup.chunk

\* Mutant: what does not fit the first step is dropped.
StoreDropsRest ==
  LET stored == ToSet(SubSeq(todo, 1, StepSize))
  IN  /\ disk' = [n \in Name |-> IF n \in stored THEN image[n] ELSE disk[n]]
      /\ todo' = <<>>

\* Mutant: the step stores one entry, whatever the adapter promises.
StoreOne ==
  /\ disk' = [disk EXCEPT ![Head(todo)] = image[Head(todo)]]
  /\ todo' = Tail(todo)

\* Store the next entries in one indivisible step.
StoreStep ==
  LET stored == ToSet(SubSeq(todo, 1, StepSize))
  IN  /\ disk' = [n \in Name |-> IF n \in stored THEN image[n] ELSE disk[n]]
      /\ todo' = SubSeq(todo, StepSize + 1, Len(todo))

Store ==
  /\ up
  /\ tx = "writing"
  /\ todo # <<>>
  /\ StoreStep
  /\ UNCHANGED <<process, memory, context, batch, image, saving, history>>

\* writeAll() throws, and with it saveAtomic().
BatchFails ==
  /\ up
  /\ tx = "writing"
  /\ todo # <<>> \/ setup.answersLost
  /\ tx' = "failing"
  /\ todo' = <<>>
  /\ cutShort' = TRUE
  /\ UNCHANGED <<process, memory, touched, snap, snapDirty, batch, image, saving,
                 disk, reported, durable>>

\* Mutant: the text of the final write is made before the sentinel is closed.
CloseSentinelLate ==
  /\ mem' = [mem EXCEPT ![Meta].flush = "closed"]
  /\ image' = [image EXCEPT ![Meta] = mem[Meta]]

\* Close the sentinel in memory and serialise _meta for the final write.
CloseSentinel ==
  /\ mem' = [mem EXCEPT ![Meta].flush = "closed"]
  /\ image' = [image EXCEPT ![Meta] = mem'[Meta]]

\* writeAll() returned: the batch is marked clean, whatever it has changed since,
\* and _meta is written once more.
BatchReturns ==
  /\ up
  /\ tx = "writing"
  /\ todo = <<>>
  /\ tx' = "clearing"
  /\ dirty' = dirty \ Touched
  /\ overtaken' = (overtaken \ Touched)
                   \union {n \in Touched \ Unmarked : mem[n].version # image[n].version}
  /\ CloseSentinel
  /\ UNCHANGED <<process, unmarked, touched, snap, snapDirty, batch, todo, saving, disk,
                 history>>

\* transaction() resolves.
Commit ==
  /\ durable' = [n \in Name |-> IF n \in Touched THEN image[n].version
                                                 ELSE durable[n]]
  /\ Closed

ClearLands ==
  /\ up
  /\ tx = "clearing"
  /\ disk' = [disk EXCEPT ![Meta] = image[Meta]]
  /\ cutShort' = FALSE
  /\ Commit
  /\ UNCHANGED <<process, memory, flush, saving, reported>>

\* The final write fails: that is only logged.
ClearFails ==
  /\ up
  /\ tx = "clearing"
  /\ cutShort' = TRUE
  /\ Commit
  /\ UNCHANGED <<process, memory, flush, saving, disk, reported>>

FnThrows ==
  /\ up
  /\ tx = "running"
  /\ tx' = "failing"
  /\ UNCHANGED <<process, memory, touched, snap, snapDirty, flush, saving, disk,
                 history>>

\* Mutant: the dirty flags of the transaction outlive it, clean.
RestoreClean ==
  /\ mem' = [n \in Name |-> IF n \in Touched THEN snap[n] ELSE mem[n]]
  /\ dirty' = dirty \ Touched

\* The data and the dirty flags that the snapshots hold come back.
Restore ==
  /\ mem' = [n \in Name |-> IF n \in Touched THEN snap[n] ELSE mem[n]]
  /\ dirty' = (dirty \ Touched) \union snapDirty

Rollback ==
  /\ up
  /\ tx = "failing"
  /\ Restore
  /\ Closed
  /\ UNCHANGED <<process, unmarked, overtaken, flush, saving, disk, history>>

-----------------------------------------------------------------------------
(* Single saves, which _saveOne() keeps from overlapping on one name. *)

Save(n) ==
  /\ up
  /\ n \in setup.saved
  /\ saving[n] = NoImage
  /\ saving' = [saving EXCEPT ![n] = mem[n]]
  /\ UNCHANGED <<process, memory, context, flush, disk, history>>

Larger(v, w) == IF v < w THEN w ELSE v

\* The text is stored and the save resolves; a save queued behind it is a Save
\* that follows at once.
SaveLands(n) ==
  /\ up
  /\ saving[n] # NoImage
  /\ disk' = [disk EXCEPT ![n] = saving[n]]
  /\ durable' = [durable EXCEPT ![n] = Larger(@, saving[n].version)]
  /\ dirty' = dirty \ {n}
  /\ saving' = [saving EXCEPT ![n] = NoImage]
  /\ UNCHANGED <<process, mem, unmarked, overtaken, context, flush, reported, cutShort>>

SaveFails(n) ==
  /\ up
  /\ saving[n] # NoImage
  /\ saving' = [saving EXCEPT ![n] = NoImage]
  /\ UNCHANGED <<process, memory, context, flush, disk, history>>

-----------------------------------------------------------------------------
(* Crash and restart. *)

\* The process stops.  A write in flight has landed before or never will.
Crash ==
  /\ up
  /\ crashes < MaxCrashes
  /\ crashes' = crashes + 1
  /\ up' = FALSE
  /\ cutShort' = (cutShort \/ tx \in {"writing", "clearing"})
  /\ tx' = "none"
  /\ touched' = <<>>
  /\ snapDirty' = {}
  /\ todo' = <<>>
  /\ saving' = NoFlight
  /\ mem' = [n \in Name |-> Empty]
  /\ dirty' = {}
  /\ unmarked' = {}
  /\ overtaken' = {}
  /\ UNCHANGED <<writes, snap, batch, image, disk, reported, durable>>

\* loadAll(): the collections are what the adapter holds, and an open sentinel
\* is reported.
LoadAll ==
  /\ mem' = disk
  /\ dirty' = {}
  /\ reported' = (disk[Meta].flush = "open")

Restart ==
  /\ ~up
  /\ up' = TRUE
  /\ LoadAll
  /\ UNCHANGED <<writes, crashes, unmarked, overtaken, context, flush, saving, disk,
                 cutShort, durable>>

-----------------------------------------------------------------------------

TxStep ==
  \/ Begin
  \/ CommitNothing
  \/ Serialise
  \/ Store
  \/ BatchFails
  \/ BatchReturns
  \/ ClearLands
  \/ ClearFails
  \/ FnThrows
  \/ Rollback

Next ==
  /\ UNCHANGED setup
  /\ \/ \E n \in Name : \/ Write(n)
                        \/ MarkDirty(n)
                        \/ TxWrite(n)
                        \/ Save(n)
                        \/ SaveLands(n)
                        \/ SaveFails(n)
     \/ TxStep
     \/ Crash
     \/ Restart

Spec == Init /\ [][Next]_vars

-----------------------------------------------------------------------------
(* Properties. *)

\* Types; only _meta carries a sentinel, and nothing holds a version not made.
TypeOK ==
  /\ setup \in Setups
  /\ up \in BOOLEAN
  /\ writes \in 0 .. MaxWrites
  /\ crashes \in 0 .. MaxCrashes
  /\ {mem, snap, image, disk} \subseteq [Name -> Contents]
  /\ {dirty, snapDirty, batch, overtaken} \subseteq SUBSET Name
  /\ unmarked \subseteq Name \X (1 .. writes)
  /\ tx \in TxState
  /\ {touched, todo} \subseteq Seq(Name)
  /\ saving \in [Name -> Contents \union {NoImage}]
  /\ {reported, cutShort} \subseteq BOOLEAN
  /\ durable \in [Name -> Nat]
  /\ \A n \in Name : mem[n].version <= writes /\ disk[n].version <= writes
  /\ \A n \in Coll : mem[n].flush = "none" /\ disk[n].flush = "none"

\* No collection is saved singly that a transaction writes: a single save takes
\* no part in _saveLock, and stores what memory holds meanwhile.
Apart == setup.saved \intersect setup.inTx = {}

\* What a transaction() or a saveData() that resolved stored is there after
\* any later step, crash and reload included, or something newer is, unless
\* single saves and transactions write the same collections: such a save may
\* land after a commit that it is older than.
CommitIsDurable == Apart => \A n \in Name : durable[n] <= disk[n].version

\* The entry of the last batch for n, or something newer, is in storage.
Stored(n) == image[n].version <= disk[n].version

Partial == ~(\A m, n \in batch : Stored(m) <=> Stored(n))

\* The adapter stores a batch in one step.
Atomic == setup.chunk > Cardinality(Coll)

\* The writes of a transaction to several collections, and with them the
\* applied versions of a migration, are in storage together or not at all
\* whenever the process stops, if the adapter stores a batch in one step and no
\* single save stores a part of it.
AllOrNothing == Atomic /\ Apart /\ ~up => ~Partial

\* A commit of which only a part reached storage is reported by the next load.
PartialIsReported == [][~up /\ up' /\ Partial => reported']_vars

\* A load reports an incomplete flush only if one really failed or was cut
\* off, and none completed since, unless _meta is saved beside transactions
\* too: such a save may bring the sentinel back after it was cleared.
AlarmIsReal ==
  [][~up /\ up' /\ reported' /\ Meta \notin setup.saved => cutShort]_vars

\* With no transaction under way, a collection that is not marked dirty is in
\* storage as it is in memory: saveDirty() skips it and loses nothing, whatever
\* failed before, if a batch that fails has stored nothing; but for a collection
\* that a mutation is about to mark, and one whose mark was overtaken.  Not so
\* for one that is saved singly: such a save clears the mark of what was written
\* meanwhile.
CleanMeansStored ==
  Atomic /\ ~setup.answersLost /\ up /\ tx = "none"
    => \A n \in Coll \ (dirty \union Unmarked \union overtaken \union setup.saved) :
         mem[n] = disk[n]

-----------------------------------------------------------------------------
(* Sentences of the documentation that the code does not keep, see README.   *)

\* Nothing a transaction wrote reaches storage before its fn() is done.
SuppressedUntilCommit ==
  tx = "running" => \A n \in Touched : disk[n].version <= snap[n].version

\* saveDirty() writes the collections that need it ("Persist only collections
\* marked dirty", persistence.js:199): nothing that no mutation is about to mark
\* is left out.
MarksAreKept ==
  Atomic /\ ~setup.answersLost /\ up /\ tx = "none"
    => \A n \in Coll \ (dirty \union Unmarked \union setup.saved) : mem[n] = disk[n]

=============================================================================
