---------------------------- MODULE Transaction -----------------------------
(***************************************************************************)
(* TransactionManager.run() and MutationPipeline.execute() of one          *)
(* connected database: transactions, mutations inside and outside them,    *)
(* lazy snapshots, collection locks, deferred effects, timeout, rollback.  *)
(*                                                                         *)
(* JavaScript runs to completion between two awaits, so an action is what  *)
(* one turn of the event loop does.  The contents of a collection are the  *)
(* set of the mutations applied to it.  Mutations are not asked to save:   *)
(* storage is written by commits alone.  A batch that the adapter rejects  *)
(* may have been stored in part or whole (SaveQueue and FlushStore model   *)
(* the rest of persistence).                                               *)
(***************************************************************************)
EXTENDS Naturals, Sequences

CONSTANTS Tx,            \* calls of db.transaction()
          Coll,          \* collection names
          Loaded,        \* the collections loaded by connect()
          Write,         \* calls of insertOne(), updateMany(), ...
          Owner,         \* the transaction whose fn() makes each, or NoTx
          Target,        \* the collection each is made on
          Reads,         \* <<t, c>>: fn() of t also takes a handle of c to read
          NoTx,          \* not a transaction: null in the code
          Window,        \* abortedIdWindow
          AwaitsWrites,  \* fn() awaits each of its mutations
          FreshHandles   \* fn() calls tx.useCollection() for each mutation

ASSUME TransactionAssumption ==
  /\ NoTx \notin Tx
  /\ Loaded \subseteq Coll
  /\ Owner \in [Write -> Tx \union {NoTx}]
  /\ Target \in [Write -> Coll]
  /\ Reads \subseteq Tx \X Coll
  /\ Window \in Nat \ {0}
  /\ AwaitsWrites \in BOOLEAN
  /\ FreshHandles \in BOOLEAN

VARIABLES
  \* TransactionManager
  txState,      \* how far each call of transaction() got
  txQueue,      \* calls chained on _txLock, not yet started
  idCounter,    \* _idCounter
  txId,         \* ctx.id of each transaction that started
  abortedIds,   \* _abortedIds, as transactions
  settled,      \* transactions whose fn() returned or threw
  \* _ctx
  ctx,          \* the transaction whose context is _ctx, or NoTx
  aborted,      \* ctx.aborted
  preExisting,  \* ctx.preExisting
  touched,      \* ctx.touchedCollections, and the keys of ctx.snapshots
  snap,         \* ctx.snapshots: contents of each touched collection
  snapDirty,    \* the touched collections whose snapshot has _dirty
  deferred,     \* mutations with effects in ctx.deferredEffects
  batch,        \* the names commit hands to saveAtomic()
  image,        \* the contents saveAtomic() serialised for each
  \* the database
  exists,       \* names in db.collections
  instances,    \* names in db._collectionInstances
  createdIn,    \* _createdInTxId of each instance
  mem,          \* contents of each collection
  dirty,        \* collections with _dirty
  disk,         \* contents of each collection in storage
  left,         \* history: <<t, c>>: storage holds what the batch of t has of
                \* c, although the adapter rejected that batch
  emitted,      \* mutations whose effects ran
  \* handles and calls
  held,         \* <<t, c>>: t took a handle with tx.useCollection(c)
  lost,         \* handles whose collection a rollback deleted
  stage,        \* how far each mutation got
  affinity,     \* entryTxId and collTxId of each mutation
  orphanOf      \* the transaction whose rollback deleted its collection

manager == <<txState, txQueue, idCounter, txId, abortedIds, settled>>
footprint == <<touched, snap, snapDirty>>
commit == <<batch, image>>
context == <<ctx, aborted, preExisting, footprint, deferred, commit>>
registry == <<exists, instances, createdIn>>
storage == <<disk, left>>
contents == <<mem, dirty, storage, emitted>>
calls == <<held, lost, stage, affinity, orphanOf>>
vars == <<manager, context, registry, contents, calls>>

\* "saving": saveAtomic() waits for _saveLock; "writing": its batch is with the
\* adapter; "failing": on the way to the catch block that rolls back.
InTransaction == {"running", "saving", "writing", "flushing", "failing"}
Ended == {"refused", "committed", "rolledback"}
TxState == {"idle", "queued"} \union InTransaction \union Ended

\* "called": before the first await of execute(); "entered": past the lock
\* check, inside mutate(); "applied": the change is in memory; "marked":
\* markDirty() ran.
InFlight == {"called", "entered", "applied", "marked"}
Stage == {"idle", "done", "failed"} \union InFlight

Init ==
  /\ txState = [t \in Tx |-> "idle"]
  /\ txQueue = <<>>
  /\ idCounter = 0
  /\ txId = [t \in Tx |-> 0]
  /\ abortedIds = {}
  /\ settled = {}
  /\ ctx = NoTx
  /\ aborted = FALSE
  /\ preExisting = {}
  /\ touched = {}
  /\ snap = [c \in Coll |-> {}]
  /\ snapDirty = {}
  /\ deferred = {}
  /\ batch = {}
  /\ image = [c \in Coll |-> {}]
  /\ exists = Loaded
  /\ instances = {}
  /\ createdIn = [c \in Coll |-> NoTx]
  /\ mem = [c \in Coll |-> {}]
  /\ dirty = {}
  /\ disk = [c \in Coll |-> {}]
  /\ left = {}
  /\ emitted = {}
  /\ held = {}
  /\ lost = {}
  /\ stage = [w \in Write |-> "idle"]
  /\ affinity = [w \in Write |-> {}]
  /\ orphanOf = [w \in Write |-> NoTx]

\* txManager.active
Active == ctx # NoTx /\ ~aborted

\* isCollectionLocked(c)
Locked(c) == Active /\ c \in touched

\* _activeTxId === context.id: the running transaction took a handle of the
\* collection instance that w is called on.
Stamped(w) == orphanOf[w] = NoTx /\ <<ctx, Target[w]>> \in held

\* _txProxyCallDepth: mutations in flight, through the handle of a
\* transaction, on the collection instance that w is called on.
ProxiedCalls(w) ==
  {v \in Write : /\ Owner[v] # NoTx
                 /\ stage[v] \in InFlight
                 /\ Target[v] = Target[w]
                 /\ orphanOf[v] = orphanOf[w]}

\* _createdInTxId of that instance: a deleted one was made by the transaction
\* whose rollback deleted it, and keeps the mark.
CollTx(w) == IF orphanOf[w] # NoTx THEN orphanOf[w] ELSE createdIn[Target[w]]

OwnInFlight(t) == {w \in Write : Owner[w] = t /\ stage[w] \in InFlight}

-----------------------------------------------------------------------------
(* Starting a transaction. *)

\* transaction() while a transaction is active, whoever calls it.
TxRefused(t) ==
  /\ Active
  /\ txState' = [txState EXCEPT ![t] = "refused"]
  /\ UNCHANGED txQueue

\* transaction() otherwise: chained on _txLock.
TxQueued(t) ==
  /\ ~Active
  /\ txState' = [txState EXCEPT ![t] = "queued"]
  /\ txQueue' = Append(txQueue, t)

TxCall(t) ==
  /\ txState[t] = "idle"
  /\ TxRefused(t) \/ TxQueued(t)
  /\ UNCHANGED <<idCounter, txId, abortedIds, settled, context, registry, contents, calls>>

\* Mutant: what the transaction wrote to is not forgotten.
ContextKept ==
  /\ aborted' = FALSE
  /\ deferred' = {}
  /\ UNCHANGED footprint

\* A context is made empty, and what it held goes when it is dropped.
EmptyContext ==
  /\ aborted' = FALSE
  /\ touched' = {}
  /\ snap' = [c \in Coll |-> {}]
  /\ snapDirty' = {}
  /\ deferred' = {}

\* execute() up to the call of fn().  _txLock resolves when the context of the
\* transaction before has been cleared.
Begin(t) ==
  /\ txQueue # <<>>
  /\ t = Head(txQueue)
  /\ txState[t] = "queued"
  /\ ctx = NoTx
  /\ txQueue' = Tail(txQueue)
  /\ txState' = [txState EXCEPT ![t] = "running"]
  /\ idCounter' = idCounter + 1
  /\ txId' = [txId EXCEPT ![t] = idCounter']
  /\ ctx' = t
  /\ preExisting' = exists
  /\ EmptyContext
  /\ UNCHANGED <<abortedIds, settled, commit, registry, contents, calls>>

-----------------------------------------------------------------------------
(* Calling a mutation. *)

\* useCollection(c): the store and the instance are made when missing.
UseCollection(c) ==
  /\ exists' = exists \union {c}
  /\ instances' = instances \union {c}
  /\ createdIn' = IF c \in instances THEN createdIn ELSE [createdIn EXCEPT ![c] = ctx]

Call(w) ==
  /\ stage[w] = "idle"
  /\ stage' = [stage EXCEPT ![w] = "called"]

\* fn() runs: until it settles, or on after that when it leaves work behind.
FnRuns(t) == txState[t] # "idle" /\ (AwaitsWrites => t \notin settled)

\* A mutation that no transaction makes.
CallOutside(w) ==
  /\ Owner[w] = NoTx
  /\ Call(w)
  /\ UseCollection(Target[w])
  /\ UNCHANGED <<manager, context, contents, held, lost, affinity, orphanOf>>

\* tx.useCollection(c) inside fn(), to read.
TakeHandle(t, c) ==
  /\ <<t, c>> \in Reads
  /\ ctx = t
  /\ FnRuns(t)
  /\ held' = held \union {<<t, c>>}
  /\ UseCollection(c)
  /\ UNCHANGED <<manager, context, contents, lost, stage, affinity, orphanOf>>

\* tx.useCollection(c).insertOne() inside fn(): the proxy is usable while ctx
\* is the context.
CallInside(t, w) ==
  /\ ctx = t
  /\ FnRuns(t)
  /\ Owner[w] = t
  /\ Call(w)
  /\ held' = held \union {<<t, Target[w]>>}
  /\ UseCollection(Target[w])
  /\ UNCHANGED <<manager, context, contents, lost, affinity, orphanOf>>

\* fn() runs on after its transaction ended, with a handle it took before: a
\* collection handle, unlike the proxy, does not check the context.
CallStale(t, w) ==
  /\ ~FreshHandles
  /\ ctx # t
  /\ FnRuns(t)
  /\ Owner[w] = t
  /\ <<t, Target[w]>> \in held
  /\ Call(w)
  /\ orphanOf' = [orphanOf EXCEPT ![w] = IF <<t, Target[w]>> \in lost THEN t ELSE NoTx]
  /\ UNCHANGED <<manager, context, registry, contents, held, lost, affinity>>

-----------------------------------------------------------------------------
(* execute() after ensureConnected(), up to mutate(). *)

Blocked(w) == ProxiedCalls(w) = {} /\ Locked(Target[w])

\* Mutant: whoever writes while a transaction runs takes part in it.
ParticipatesAlways(w) == Active

\* isTxWrite.
Participates(w) == Active /\ Stamped(w)

\* ERR_SKALEX_TX_COLLECTION_LOCKED.
EnterBlocked(w) ==
  /\ Blocked(w)
  /\ stage' = [stage EXCEPT ![w] = "failed"]
  /\ UNCHANGED <<footprint, affinity>>

\* snapshotIfNeeded(): copy the contents at the first mutation.
Snapshot(c) ==
  /\ touched' = touched \union {c}
  /\ IF c \in touched
     THEN UNCHANGED <<snap, snapDirty>>
     ELSE /\ snap' = [snap EXCEPT ![c] = mem[c]]
          /\ snapDirty' = IF c \in dirty THEN snapDirty \union {c} ELSE snapDirty

\* The transaction the mutation belongs to and the one its collection does.
Affinity(w) ==
  ({CollTx(w)} \union IF Participates(w) THEN {ctx} ELSE {}) \ {NoTx}

\* assertTxAlive() throws before the work starts.
EnterDead(w) ==
  /\ ~Blocked(w)
  /\ ~Participates(w)
  /\ Affinity(w) \intersect abortedIds # {}
  /\ stage' = [stage EXCEPT ![w] = "failed"]
  /\ UNCHANGED <<footprint, affinity>>

EnterAlive(w) ==
  /\ ~Blocked(w)
  /\ IF Participates(w) THEN Snapshot(Target[w]) ELSE UNCHANGED footprint
  /\ Affinity(w) \intersect abortedIds = {}
  /\ affinity' = [affinity EXCEPT ![w] = Affinity(w)]
  /\ stage' = [stage EXCEPT ![w] = "entered"]

Enter(w) ==
  /\ stage[w] = "called"
  /\ EnterBlocked(w) \/ EnterDead(w) \/ EnterAlive(w)
  /\ UNCHANGED <<manager, ctx, aborted, preExisting, deferred, commit, registry,
                 contents, held, lost, orphanOf>>

-----------------------------------------------------------------------------
(* mutate() and the rest of execute(). *)

\* Mutant: the change is made without assertTxAlive().
ApplyUnchecked(w) ==
  /\ stage[w] = "entered"
  /\ mem' = IF orphanOf[w] # NoTx THEN mem
            ELSE [mem EXCEPT ![Target[w]] = @ \union {w}]
  /\ stage' = [stage EXCEPT ![w] = "applied"]
  /\ UNCHANGED <<manager, context, registry, dirty, storage, emitted, held, lost,
                 affinity, orphanOf>>

\* assertTxAlive() lets the change through.  A deleted collection takes it too,
\* where nobody reads it.
Apply(w) ==
  /\ stage[w] = "entered"
  /\ affinity[w] \intersect abortedIds = {}
  /\ mem' = IF orphanOf[w] # NoTx THEN mem
            ELSE [mem EXCEPT ![Target[w]] = @ \union {w}]
  /\ stage' = [stage EXCEPT ![w] = "applied"]
  /\ UNCHANGED <<manager, context, registry, dirty, storage, emitted, held, lost,
                 affinity, orphanOf>>

\* assertTxAlive() throws, or the mutation fails by itself.
Refuse(w) ==
  /\ stage[w] = "entered"
  /\ stage' = [stage EXCEPT ![w] = "failed"]
  /\ UNCHANGED <<manager, context, registry, contents, held, lost, affinity, orphanOf>>

\* markDirty() finds the collection by its name.
MarkDirty(w) ==
  /\ stage[w] = "applied"
  /\ dirty' = dirty \union ({Target[w]} \intersect exists)
  /\ stage' = [stage EXCEPT ![w] = "marked"]
  /\ UNCHANGED <<manager, context, registry, mem, storage, emitted, held, lost,
                 affinity, orphanOf>>

\* Mutant: effects of a mutation always run at once.
EffectsAtOnce(w) ==
  /\ emitted' = emitted \union {w}
  /\ UNCHANGED deferred

\* defer() keeps the event, after hook and changelog entry of any mutation
\* while there is a context, whoever made it; else they run now.
Effects(w) ==
  IF ctx # NoTx
  THEN deferred' = deferred \union {w} /\ UNCHANGED emitted
  ELSE emitted' = emitted \union {w} /\ UNCHANGED deferred

Finish(w) ==
  /\ stage[w] = "marked"
  /\ Effects(w)
  /\ stage' = [stage EXCEPT ![w] = "done"]
  /\ UNCHANGED <<manager, ctx, aborted, preExisting, footprint, commit, registry,
                 mem, dirty, storage, held, lost, affinity, orphanOf>>

-----------------------------------------------------------------------------
(* How a transaction ends. *)

\* fn() can settle: when it awaits its mutations, none is in flight.
FnDone(t) ==
  /\ t \notin settled
  /\ AwaitsWrites => OwnInFlight(t) = {}
  /\ settled' = settled \union {t}

\* fn() resolves.  A transaction that wrote nothing has nothing to save.
FnResolves(t) ==
  /\ txState[t] = "running"
  /\ FnDone(t)
  /\ batch' = touched
  /\ txState' = [txState EXCEPT ![t] = IF touched = {} THEN "flushing" ELSE "saving"]
  /\ UNCHANGED <<txQueue, idCounter, txId, abortedIds, ctx, aborted, preExisting,
                 footprint, deferred, image, registry, contents, calls>>

FnThrows(t) ==
  /\ txState[t] = "running"
  /\ FnDone(t)
  /\ txState' = [txState EXCEPT ![t] = "failing"]
  /\ UNCHANGED <<txQueue, idCounter, txId, abortedIds, context, registry, contents, calls>>

\* fn() settles when its transaction has timed out.
FnEndsLate(t) ==
  /\ txState[t] = "rolledback"
  /\ FnDone(t)
  /\ UNCHANGED <<txState, txQueue, idCounter, txId, abortedIds, context, registry,
                 contents, calls>>

\* saveAtomic() holds the save lock: serialise the batch, call writeAll().
CommitWrite(t) ==
  /\ txState[t] = "saving"
  /\ image' = [c \in Coll |-> IF c \in batch THEN mem[c] ELSE {}]
  /\ txState' = [txState EXCEPT ![t] = "writing"]
  /\ UNCHANGED <<txQueue, idCounter, txId, abortedIds, settled, ctx, aborted,
                 preExisting, footprint, deferred, batch, registry, contents, calls>>

\* The adapter stores the entries of these collections, over what an earlier
\* batch left there; the batch of these transactions it rejects.
Store(stored, rejected) ==
  /\ disk' = [c \in Coll |-> IF c \in stored THEN image[c] ELSE disk[c]]
  /\ left' = {x \in left : x[2] \notin stored} \union (rejected \X stored)

\* Mutant: the batch has only the first touched collection.
CommitLandsPartly(t) ==
  /\ txState[t] = "writing"
  /\ \E b \in batch : Store({b}, {})
  /\ dirty' = dirty \ batch
  /\ txState' = [txState EXCEPT ![t] = "flushing"]
  /\ UNCHANGED <<txQueue, idCounter, txId, abortedIds, settled, context, registry,
                 mem, emitted, calls>>

\* writeAll() resolves and the dirty flags of the batch are cleared.
CommitLands(t) ==
  /\ txState[t] = "writing"
  /\ Store(batch, {})
  /\ dirty' = dirty \ batch
  /\ txState' = [txState EXCEPT ![t] = "flushing"]
  /\ UNCHANGED <<txQueue, idCounter, txId, abortedIds, settled, context, registry,
                 mem, emitted, calls>>

\* writeAll() rejects: with nothing stored, with the entries before the one that
\* failed, or with all of them when only the answer was lost.
CommitFails(t) ==
  /\ txState[t] = "writing"
  /\ \E stored \in SUBSET batch : Store(stored, {t})
  /\ txState' = [txState EXCEPT ![t] = "failing"]
  /\ UNCHANGED <<txQueue, idCounter, txId, abortedIds, settled, context, registry,
                 mem, dirty, emitted, calls>>

\* One turn of the loop over deferredEffects, which sees what is added to it.
RunEffect(t, w) ==
  /\ txState[t] = "flushing"
  /\ w \in deferred
  /\ deferred' = deferred \ {w}
  /\ emitted' = emitted \union {w}
  /\ UNCHANGED <<manager, ctx, aborted, preExisting, footprint, commit, registry,
                 mem, dirty, storage, calls>>

\* _pruneAbortedIds().
Kept(ids) == {u \in ids : txId[u] + Window > idCounter}

\* Mutant: the context of an aborted transaction stays.
EndContextLate(outcome, timedOut) ==
  /\ abortedIds' = Kept(IF timedOut THEN abortedIds \union {ctx} ELSE abortedIds)
  /\ txState' = [txState EXCEPT ![ctx] = outcome]
  /\ ctx' = IF timedOut THEN ctx ELSE NoTx
  /\ preExisting' = {}
  /\ EmptyContext
  /\ batch' = {}
  /\ image' = [c \in Coll |-> {}]
  /\ UNCHANGED <<txQueue, idCounter, txId>>

\* The finally block of execute(): an aborted transaction is remembered.
EndContext(outcome, timedOut) ==
  /\ abortedIds' = Kept(IF timedOut THEN abortedIds \union {ctx} ELSE abortedIds)
  /\ txState' = [txState EXCEPT ![ctx] = outcome]
  /\ ctx' = NoTx
  /\ preExisting' = {}
  /\ EmptyContext
  /\ batch' = {}
  /\ image' = [c \in Coll |-> {}]
  /\ UNCHANGED <<txQueue, idCounter, txId>>

\* Clear the stamps of the transaction on the collection instances.
Unstamp(live) ==
  createdIn' = [c \in Coll |-> IF c \in live /\ createdIn[c] # ctx THEN createdIn[c] ELSE NoTx]

Commit(t) ==
  /\ txState[t] = "flushing"
  /\ deferred = {}
  /\ EndContext("committed", aborted)
  /\ Unstamp(instances)
  /\ UNCHANGED <<settled, exists, instances, contents, calls>>

\* Restore the snapshots of the collections there were before, and delete all
\* others: handles and mutations in flight on those go on with nothing behind.
Restore ==
  /\ mem' = [c \in Coll |-> IF c \notin preExisting THEN {}
                            ELSE IF c \in touched THEN snap[c] ELSE mem[c]]
  /\ dirty' = ((dirty \ touched) \union snapDirty) \intersect preExisting
  /\ exists' = exists \intersect preExisting
  /\ instances' = instances \intersect preExisting
  /\ Unstamp(instances')
  /\ lost' = lost \union {h \in held : h[2] \notin preExisting}
  /\ orphanOf' = [w \in Write |->
                   IF /\ stage[w] \in InFlight
                      /\ Target[w] \notin preExisting
                      /\ orphanOf[w] = NoTx
                   THEN ctx ELSE orphanOf[w]]

\* fn() threw or the commit failed: the catch and finally blocks.
Rollback(t) ==
  /\ txState[t] = "failing"
  /\ Restore
  /\ EndContext("rolledback", aborted)
  /\ UNCHANGED <<settled, storage, emitted, held, stage, affinity>>

\* A timer fires when no promise continuation is ready: no mutation is at an
\* await that only waits for its turn.
Quiet == \A w \in Write : stage[w] \notin {"called", "applied", "marked"}

\* The timeout wins the race with fn(): its rejection leads to the catch and
\* finally blocks with no other code in between.
TimeoutRollsBack(t) ==
  /\ txState[t] = "running"
  /\ Quiet
  /\ Restore
  /\ EndContext("rolledback", TRUE)
  /\ UNCHANGED <<settled, storage, emitted, held, stage, affinity>>

\* fn() has resolved, so nobody hears the timeout; ctx.aborted is set.
TimeoutLate(t) ==
  /\ txState[t] \in {"writing", "flushing"}
  /\ Quiet
  /\ ~aborted
  /\ aborted' = TRUE
  /\ UNCHANGED <<manager, ctx, preExisting, footprint, deferred, commit, registry,
                 contents, calls>>

-----------------------------------------------------------------------------

FnSettles(t) == FnResolves(t) \/ FnThrows(t) \/ FnEndsLate(t)

\* What the event loop does for a transaction without being asked.
TxProgress(t) ==
  \/ Begin(t)
  \/ CommitWrite(t)
  \/ CommitLands(t)
  \/ CommitFails(t)
  \/ \E w \in Write : RunEffect(t, w)
  \/ Commit(t)
  \/ Rollback(t)

\* And for a mutation.
WriteProgress(w) == Enter(w) \/ Apply(w) \/ Refuse(w) \/ MarkDirty(w) \/ Finish(w)

Next ==
  \/ \E t \in Tx : \/ TxCall(t)
                   \/ \E c \in Coll : TakeHandle(t, c)
                   \/ \E w \in Write : CallInside(t, w) \/ CallStale(t, w)
                   \/ FnSettles(t)
                   \/ TimeoutRollsBack(t)
                   \/ TimeoutLate(t)
                   \/ TxProgress(t)
  \/ \E w \in Write : CallOutside(w) \/ WriteProgress(w)

Spec == Init /\ [][Next]_vars

\* Ready continuations run, promises of the adapter settle, and fn() comes to
\* an end once its own mutations have.
FairSpec ==
  /\ Spec
  /\ \A t \in Tx : WF_vars(TxProgress(t)) /\ WF_vars(FnSettles(t))
  /\ \A w \in Write : WF_vars(WriteProgress(w))

-----------------------------------------------------------------------------
(* Properties. *)

\* Types, and what belongs together: a context has its transaction under way,
\* what the transaction wrote to is there to be saved, and handles and mutations
\* in flight have their collection unless a rollback deleted it.
TypeOK ==
  /\ txState \in [Tx -> TxState]
  /\ txQueue \in Seq(Tx)
  /\ idCounter \in Nat
  /\ txId \in [Tx -> 0 .. idCounter]
  /\ abortedIds \subseteq Tx
  /\ settled \subseteq Tx
  /\ ctx \in Tx \union {NoTx}
  /\ \A t \in Tx : txState[t] \in InTransaction <=> ctx = t
  /\ aborted \in BOOLEAN
  /\ preExisting \subseteq exists
  /\ touched \subseteq exists
  /\ ctx = NoTx => touched = {}
  /\ batch \subseteq touched
  /\ snapDirty \subseteq touched
  /\ snap \in [Coll -> SUBSET Write]
  /\ image \in [Coll -> SUBSET Write]
  /\ deferred \subseteq Write
  /\ exists \subseteq Coll
  /\ instances \subseteq exists
  /\ createdIn \in [Coll -> {ctx, NoTx}]
  /\ mem \in [Coll -> SUBSET Write]
  /\ dirty \subseteq exists
  /\ disk \in [Coll -> SUBSET Write]
  /\ left \subseteq Tx \X Coll
  /\ emitted \subseteq Write
  /\ held \subseteq Tx \X Coll
  /\ lost \subseteq held
  /\ stage \in [Write -> Stage]
  /\ affinity \in [Write -> SUBSET Tx]
  /\ orphanOf \in [Write -> Tx \union {NoTx}]
  /\ \A h \in held \ lost : h[2] \in exists
  /\ \A w \in Write : stage[w] \in InFlight /\ orphanOf[w] = NoTx => Target[w] \in exists

By(t, w) == Owner[w] = t /\ t # NoTx

\* Rollback is complete and final: no mutation of a transaction that rolled
\* back is in any collection, were it in flight at the timeout, made by a
\* continuation that outlives the transaction, or absorbed into the snapshot or
\* the batch of a later one.  In storage it is only where the adapter stored a
\* batch that it rejected, and until the collection is stored once more.
RolledBackLeavesNoTrace ==
  \A w \in Write, t \in Tx :
    By(t, w) /\ txState[t] = "rolledback" =>
      \A c \in Coll : w \notin mem[c] /\ (w \in disk[c] => <<t, c>> \in left)

\* Commit is complete: a mutation that returned to a transaction that committed
\* is in its collection and in storage, and its effects ran, whatever later
\* transactions do to the same collection.
CommitIsComplete ==
  \A w \in Write, t \in Tx :
    By(t, w) /\ txState[t] = "committed" /\ stage[w] = "done" =>
      w \in mem[Target[w]] /\ w \in disk[Target[w]] /\ w \in emitted

\* No watcher, after hook or changelog learns of a mutation before the batch
\* of its transaction is stored.
EffectsFollowCommit ==
  \A w \in emitted, t \in Tx :
    By(t, w) => txState[t] \in {"flushing", "committed"} /\ w \in disk[Target[w]]

\* A mutation that no transaction makes is not undone by the end of one.
OutsiderSurvives ==
  \A w \in Write : Owner[w] = NoTx /\ stage[w] = "done" => w \in mem[Target[w]]

\* Every transaction that is queued comes to its end, so the lock is passed on
\* after a commit, an error and a timeout alike.
EveryTransactionEnds ==
  \A t \in Tx : txState[t] = "queued" ~> txState[t] \in Ended

-----------------------------------------------------------------------------
(* Sentences of the documentation that the code does not keep; the README    *)
(* says with which constants TLC refutes each of them.                       *)

\* A mutation that no transaction makes does not enter a locked collection.
OutsiderBlocked ==
  [][\A w \in Write :
       /\ Owner[w] = NoTx
       /\ stage[w] = "called"
       /\ Locked(Target[w])
       => stage'[w] # "entered"]_vars

\* Every mutation that returned has been heard of, or will be when the running
\* transaction commits: its effects ran or are deferred.
WatchersSeeEveryWrite ==
  \A w \in Write : Owner[w] = NoTx /\ stage[w] = "done" => w \in emitted \union deferred

\* A call of transaction() is not refused because an unrelated one is running.
NeverRefused == \A t \in Tx : txState[t] # "refused"

=============================================================================
