----------------------------- MODULE Lifecycle ------------------------------
(***************************************************************************)
(* connect(), auto-connect, migrations and disconnect() of a database.     *)
(*                                                                         *)
(* An operation on a database that is not connected starts connect() and   *)
(* awaits it.  connect() loads the collections, then runs the migrations   *)
(* that storage does not know of, each in a transaction; transactions pass *)
(* one lock on to each other.  What a call writes is abstracted to a mark, *)
(* in a collection of its own.                                             *)
(***************************************************************************)
EXTENDS Naturals, Sequences, SequencesExt, FiniteSetsExt

CONSTANTS Writer,        \* calls of insertOne() and its like
          TxClient,      \* calls of db.transaction()
          Connector,     \* calls of connect()
          Closer,        \* calls of disconnect()
          Boot,          \* connect() itself, as a user of transactions
          NoTx,          \* not a transaction: null in the code
          LastVersion    \* the migrations registered are 1 .. LastVersion

Client == Writer \union TxClient \union Connector \union Closer
Version == 1 .. LastVersion

ASSUME LifecycleAssumption ==
  /\ Boot \notin Client
  /\ NoTx \notin Client \union {Boot}
  /\ Version \intersect Client = {}
  /\ Writer \intersect (TxClient \union Connector \union Closer) = {}
  /\ TxClient \intersect (Connector \union Closer) = {}
  /\ Connector \intersect Closer = {}
  /\ Boot \notin Version /\ NoTx \notin Version
  /\ LastVersion \in Nat

VARIABLES
  connectFirst, \* transaction() is called when connected only: never changes
  isConnected,  \* isConnected
  boot,         \* how far _doConnect() is
  taken,        \* versions run() of the migrations has behind it
  lock,         \* the transactions chained on _txLock, its holder first
  ctx,          \* the transaction whose context is active, or NoTx
  call,         \* how far the call of each client is
  stale,        \* writers whose collection object disconnect() cut loose
  mem,          \* marks in db.collections
  applied,      \* appliedVersions of _meta in memory
  disk,         \* marks in storage
  diskApplied,  \* appliedVersions of _meta in storage
  image,        \* marks that the saveData() of disconnect() serialised
  runs          \* history: how often each migration was committed

connection == <<isConnected, boot, taken>>
txs == <<lock, ctx>>
clients == <<call, stale>>
memory == <<mem, applied>>
storage == <<disk, diskApplied>>
vars == <<connectFirst, connection, txs, clients, memory, storage, image, runs>>

BootState == {"off", "loading", "migrating", "queued", "inTx", "saving"}
Ended == {"done", "failed"}

\* "awaiting" connect(); "ready" to go on after it; "queued" on _txLock;
\* "open": in a transaction; "closing": disconnect() awaits saveData().
CallState == {"idle", "awaiting", "ready", "queued", "open", "closing"} \union Ended

Init ==
  /\ connectFirst \in BOOLEAN
  /\ isConnected = FALSE
  /\ boot = "off"
  /\ taken = {}
  /\ lock = <<>>
  /\ ctx = NoTx
  /\ call = [c \in Client |-> "idle"]
  /\ stale = {}
  /\ mem = {}
  /\ applied = {}
  /\ disk = {}
  /\ diskApplied = {}
  /\ image = {}
  /\ runs = [v \in Version |-> 0]

-----------------------------------------------------------------------------
(* _ensureConnected(). *)

\* Set from the end of loadData() to the end of _doConnect().
Bootstrapping == boot \in BootState \ {"off", "loading"}

Ensured == isConnected \/ Bootstrapping

\* connect(): join the call in progress, or start one.
Join(c) ==
  /\ call' = [call EXCEPT ![c] = "awaiting"]
  /\ boot' = IF boot = "off" THEN "loading" ELSE boot

\* _ensureConnected() returns at once, or the caller awaits connect().
EnsureConnected(c) ==
  \/ /\ Ensured
     /\ call' = [call EXCEPT ![c] = "ready"]
     /\ UNCHANGED boot
  \/ /\ ~Ensured
     /\ Join(c)

-----------------------------------------------------------------------------
(* Clients. *)

\* connect() resolves at once when it resolved before.
Connect(c) ==
  /\ c \in Connector
  /\ call[c] = "idle"
  /\ IF isConnected THEN call' = [call EXCEPT ![c] = "done"] /\ UNCHANGED boot
                    ELSE Join(c)
  /\ UNCHANGED <<isConnected, taken, txs, stale, memory, storage, image, runs>>

\* execute() of a mutation up to its first await.
WriteCall(w) ==
  /\ w \in Writer
  /\ call[w] = "idle"
  /\ EnsureConnected(w)
  /\ UNCHANGED <<isConnected, taken, txs, stale, memory, storage, image, runs>>

\* The mutation is made, in the collection object its handle has.
Write(w) ==
  /\ w \in Writer
  /\ call[w] = "ready"
  /\ call' = [call EXCEPT ![w] = "done"]
  /\ mem' = IF w \in stale THEN mem ELSE mem \union {w}
  /\ UNCHANGED <<connection, txs, stale, applied, storage, image, runs>>

\* A disconnect() is under way: clients start no transaction and no other
\* disconnect() next to it.
Closing == \E d \in Closer : call[d] = "closing"

\* transaction(): refused while one is active, else chained on _txLock.
TxCall(c) ==
  /\ c \in TxClient
  /\ call[c] = "idle"
  /\ connectFirst => isConnected
  /\ ~Closing
  /\ IF ctx # NoTx
     THEN call' = [call EXCEPT ![c] = "failed"] /\ UNCHANGED lock
     ELSE call' = [call EXCEPT ![c] = "queued"] /\ lock' = Append(lock, c)
  /\ UNCHANGED <<connection, ctx, stale, memory, storage, image, runs>>

Holds(c) == lock # <<>> /\ Head(lock) = c

\* execute() has the lock, and ensures the connection while it holds it.
TxEnsure(c) ==
  /\ c \in TxClient
  /\ Holds(c)
  /\ call[c] = "queued"
  /\ EnsureConnected(c)
  /\ UNCHANGED <<isConnected, taken, txs, stale, memory, storage, image, runs>>

TxOpen(c) ==
  /\ c \in TxClient
  /\ call[c] = "ready"
  /\ ctx' = c
  /\ call' = [call EXCEPT ![c] = "open"]
  /\ UNCHANGED <<connection, lock, stale, memory, storage, image, runs>>

\* Mutant: the context is cleared, the lock stays.
ReleaseContextOnly == ctx' = NoTx /\ lock' = lock

\* The context is cleared and the lock passed on.
Release == ctx' = NoTx /\ lock' = Tail(lock)

TxCommits(c) ==
  /\ c \in TxClient
  /\ call[c] = "open"
  /\ mem' = mem \union {c}
  /\ disk' = disk \union {c}
  /\ call' = [call EXCEPT ![c] = "done"]
  /\ Release
  /\ UNCHANGED <<connection, stale, applied, diskApplied, image, runs>>

TxAborts(c) ==
  /\ c \in TxClient
  /\ call[c] = "open"
  /\ call' = [call EXCEPT ![c] = "failed"]
  /\ Release
  /\ UNCHANGED <<connection, stale, memory, storage, image, runs>>

\* disconnect(), called when connected and outside any transaction: its
\* saveData() serialises every collection in the same turn.
DisconnectCall(c) ==
  /\ c \in Closer
  /\ call[c] = "idle"
  /\ isConnected
  /\ lock = <<>>
  /\ ~Closing
  /\ call' = [call EXCEPT ![c] = "closing"]
  /\ image' = mem
  /\ UNCHANGED <<connection, txs, stale, memory, storage, runs>>

\* What saveData() serialised is in storage.
Saved ==
  /\ disk' = image
  /\ diskApplied' = applied

\* registry.clear(): writers under way keep the collection object they have.
Clear ==
  /\ mem' = {}
  /\ applied' = {}
  /\ stale' = stale \union {w \in Writer : call[w] = "ready"}
  /\ isConnected' = FALSE

DisconnectLands(c) ==
  /\ call[c] = "closing"
  /\ Saved
  /\ Clear
  /\ call' = [call EXCEPT ![c] = "done"]
  /\ UNCHANGED <<boot, taken, txs, image, runs>>

DisconnectFails(c) ==
  /\ call[c] = "closing"
  /\ call' = [call EXCEPT ![c] = "failed"]
  /\ UNCHANGED <<connection, txs, stale, memory, storage, image, runs>>

-----------------------------------------------------------------------------
(* _doConnect(). *)

\* The promise of connect() settles: who awaited it goes on or fails, and a
\* transaction that fails passes the lock on.
AnswerAwaiting(connected) ==
  call' = [c \in Client |->
            IF call[c] # "awaiting" THEN call[c]
            ELSE IF ~connected THEN "failed"
            ELSE IF c \in Connector THEN "done" ELSE "ready"]

Awaiting(t) == t \in TxClient /\ call[t] = "awaiting"

\* connect() rejects, and is forgotten so that it can be called again.
ConnectFails ==
  /\ boot' = "off"
  /\ AnswerAwaiting(FALSE)

\* runInTx() of the next migration: its transaction is chained on _txLock.
RunInTx(behind) ==
  /\ Version \ behind # {}
  /\ ctx = NoTx
  /\ lock' = Append(lock, Boot)
  /\ boot' = "queued"
  /\ UNCHANGED <<isConnected, call>>

\* runInTx() is refused like any transaction() while one is active.
RunInTxRefused(behind) ==
  /\ Version \ behind # {}
  /\ ctx # NoTx
  /\ ConnectFails
  /\ UNCHANGED <<isConnected, lock>>

Connected(behind) ==
  /\ Version \ behind = {}
  /\ boot' = "off"
  /\ isConnected' = TRUE
  /\ AnswerAwaiting(TRUE)
  /\ UNCHANGED lock

\* The loop of run(), with the versions behind it, up to its next await.
RunNext(behind) == RunInTx(behind) \/ RunInTxRefused(behind) \/ Connected(behind)

\* loadAll() replaces the collections that storage has and keeps the others;
\* nothing comes between it and the first migration.
LoadLands ==
  /\ boot = "loading"
  /\ mem' = mem \union disk
  /\ applied' = diskApplied
  /\ taken' = diskApplied
  /\ RunNext(diskApplied)
  /\ UNCHANGED <<ctx, stale, storage, image, runs>>

LoadFails ==
  /\ boot = "loading"
  /\ ConnectFails
  /\ lock' = IF lock # <<>> /\ Awaiting(Head(lock)) THEN Tail(lock) ELSE lock
  /\ UNCHANGED <<isConnected, taken, ctx, stale, memory, storage, image, runs>>

\* run() hears some turns later that the transaction before has ended.
RunResumes ==
  /\ boot = "migrating"
  /\ RunNext(taken)
  /\ UNCHANGED <<taken, ctx, stale, memory, storage, image, runs>>

Pending == Version \ taken

MigrationBegins ==
  /\ boot = "queued"
  /\ Holds(Boot)
  /\ ctx' = Boot
  /\ boot' = "inTx"
  /\ UNCHANGED <<isConnected, taken, lock, clients, memory, storage, image, runs>>

\* Mutant: the version is recorded when all migrations are through.
RecordLate(v) == applied' = IF Pending = {v} THEN Version ELSE applied

\* recordApplied(): the versions behind run() and this one.
RecordApplied(v) == applied' = taken \union {v}

\* up() returns, its version is recorded, and both go to saveAtomic().
Up ==
  LET v == Min(Pending)
  IN  /\ boot = "inTx"
      /\ mem' = mem \union {v}
      /\ RecordApplied(v)
      /\ boot' = "saving"
      /\ UNCHANGED <<isConnected, taken, txs, clients, storage, image, runs>>

\* Mutant: the batch leaves _meta out.
CommitVersionLate(v) ==
  /\ disk' = disk \union {v}
  /\ UNCHANGED diskApplied

\* The batch of the migration: its collection and _meta.
CommitVersion(v) ==
  /\ disk' = disk \union {v}
  /\ diskApplied' = applied

MigrationCommits ==
  LET v == Min(Pending)
  IN  /\ boot = "saving"
      /\ CommitVersion(v)
      /\ runs' = [runs EXCEPT ![v] = @ + 1]
      /\ taken' = taken \union {v}
      /\ boot' = "migrating"
      /\ Release
      /\ UNCHANGED <<isConnected, clients, memory, image>>

\* up() or the batch fails: roll back, and connect() fails.  (Transaction has
\* what a rollback does to the writes of others.)
MigrationFails ==
  /\ boot \in {"inTx", "saving"}
  /\ mem' = mem \ Pending
  /\ applied' = taken
  /\ Release
  /\ ConnectFails
  /\ UNCHANGED <<isConnected, taken, stale, storage, image, runs>>

-----------------------------------------------------------------------------

BootStep ==
  /\ UNCHANGED connectFirst
  /\ \/ LoadLands
     \/ LoadFails
     \/ RunResumes
     \/ MigrationBegins
     \/ Up
     \/ MigrationCommits
     \/ MigrationFails

\* A client makes its call.
Call(c) ==
  /\ UNCHANGED connectFirst
  /\ \/ Connect(c)
     \/ WriteCall(c)
     \/ TxCall(c)
     \/ DisconnectCall(c)

\* What a call does once it is made.
ClientStep(c) ==
  /\ UNCHANGED connectFirst
  /\ \/ Write(c)
     \/ TxEnsure(c)
     \/ TxOpen(c)
     \/ TxCommits(c)
     \/ TxAborts(c)
     \/ DisconnectLands(c)
     \/ DisconnectFails(c)

Next == BootStep \/ \E c \in Client : Call(c) \/ ClientStep(c)

Spec == Init /\ [][Next]_vars

\* Ready continuations run and promises of the adapter settle; fn() and up()
\* come to an end.
FairSpec ==
  /\ Spec
  /\ WF_vars(BootStep)
  /\ \A c \in Client : WF_vars(ClientStep(c))

-----------------------------------------------------------------------------
(* Properties. *)

\* Types, and the lock is held by whoever is in a transaction.
TypeOK ==
  /\ connectFirst \in BOOLEAN
  /\ isConnected \in BOOLEAN
  /\ boot \in BootState
  /\ isConnected => boot = "off"
  /\ taken \subseteq Version
  /\ lock \in Seq(TxClient \union {Boot})
  /\ ctx \in TxClient \union {Boot, NoTx}
  /\ ctx # NoTx => Holds(ctx)
  /\ call \in [Client -> CallState]
  /\ stale \subseteq Writer
  /\ {mem, disk, image} \subseteq SUBSET (Client \union Version)
  /\ {applied, diskApplied} \subseteq SUBSET Version
  /\ runs \in [Version -> Nat]

\* Migrations run in version order, once, and never again, over any number of
\* failed and repeated connect() calls, and storage has the effects of exactly
\* the migrations it lists.
MigratedOnce ==
  /\ \A v \in Version : runs[v] <= 1
  /\ \A v \in diskApplied : 1 .. v \subseteq diskApplied
  /\ disk \intersect Version = diskApplied

\* A database that is connected has every migration behind it, in storage.
ConnectedMeansMigrated == isConnected => diskApplied = Version

Ends(c) == call[c] # "idle" ~> call[c] \in Ended

\* Every call comes to its end, and with it every connect() and every
\* transaction that others wait for, whether the database is connected or not.
EveryCallEnds == \A c \in Client : Ends(c)

\* It does when transactions are started on a connected database only,
\* migrations, retried connects and disconnects notwithstanding.
ConnectedCallsEnd == connectFirst => EveryCallEnds

-----------------------------------------------------------------------------
(* Sentences of the documentation that the code does not keep, see README.   *)

\* A call made before connect() has resolved awaits it like all others.
WritesAwaitConnect ==
  [][\A w \in Writer : call[w] = "ready" /\ call'[w] = "done" => boot = "off"]_vars

\* Between two migrations, connect() is not refused a transaction because a
\* client that is no part of it has one.
MigrationNotRefused == [][boot = "migrating" /\ boot' = "off" => isConnected']_vars

\* Every write that returned before disconnect() resolves is in storage.
DisconnectFlushes ==
  [][\A c \in Closer, w \in Writer :
       call[c] = "closing" /\ call'[c] = "done" /\ call[w] = "done" /\ w \in mem
         => w \in disk']_vars

=============================================================================
