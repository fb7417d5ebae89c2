# A TLA+ model of skalex

skalex is a document database that lives in one JavaScript process: collections
are arrays of documents with indexes over them, mutations go through a
pipeline, transactions snapshot collections lazily and roll back in memory, and
storage adapters persist whole collections.  This directory has TLA+ models of
its state machines, TLC runs that check them on small instances, and TLAPS
proofs of the properties that matter most.

JavaScript runs to completion between two awaits.  So everywhere in the models
an action is what the code does in one turn of the event loop, and what
interleaves are turns: of `fn()`s, of calls nobody awaited, of timers, and of
promises that an adapter settles.

## The system

| component | state | operations | talks to |
|---|---|---|---|
| collection (`engine/collection.js`, `datastore.js`) | documents, `_id` index, options, `_activeTxId`, `_createdInTxId` | insert, update, upsert, delete, restore, find, watch | mutation pipeline, index engine |
| mutation pipeline (`engine/pipeline.js`) | depth counter per collection, entry and collection transaction ids per call | `execute()`, `executeBatch()` | transaction manager, persistence, hooks, events |
| transaction manager (`engine/transaction.js`) | `_ctx`, `_abortedIds`, `_txLock` | `run()`, `snapshotIfNeeded()`, `isCollectionLocked()`, `assertNotAborted()`, `defer()` | registry, persistence |
| registry (`engine/registry.js`) | stores and cached collection instances | get, create, rename, clear, stats | collections |
| persistence (`engine/persistence.js`) | `_dirty`, `isSaving`, `_pendingSave`, `_saveWaiters` of each store, `_saveLock`, flush sentinel in `_meta` | load, save, saveDirty, saveAtomic | storage adapter |
| storage adapters (`connectors/storage/*`) | one file, row or key per collection | read, write, writeAll, delete, list | the outside |
| lifecycle and migrations (`index.js`, `engine/migrations.js`) | `isConnected`, `_connectPromise`, `_bootstrapping`, `appliedVersions` | connect, auto-connect, run migrations, disconnect | transactions, persistence |
| index engine (`engine/indexes.js`) | field, compound and unique maps | add, remove, update, lookup, uniqueness checks | collection |
| query planner and matcher (`engine/query-planner.js`, `query.js`) | none | candidates of a filter, match | index engine |
| TTL (`engine/ttl.js`) | a timer and the map of collections it was given | sweep | collections, persistence |
| change log (`features/changelog.js`) | its own collection | log, query, restore | collections |
| event bus (`features/events.js`), `watch()` | listeners, the buffer of an iterator | emit, on, next, return | pipeline |
| agent memory (`features/memory.js`) | a collection of its own | remember, compress, forget | collections, connectors |
| `ask()` and its cache (`features/ask.js`) | cached filters, a copy in `_meta` | lookup, generate, restore | connectors, collections |
| LLM and embedding connectors (`connectors/llm`, `embedding`, `shared/fetch.js`) | attempts of a request | generate, summarize, embed | the outside |
| MCP server (`connectors/mcp/*`) | scopes, streams, the transport | listen, close, tools/list, tools/call | collections |
| plugins, session statistics, query log, import, export | listeners, counters | hooks, reports | collections |

What is hard, and what makes each component correct:

* **Transactions.**  A timeout rolls back while `fn()` goes on; a call nobody
  awaited outlives its transaction; collection instances are shared between
  the transaction and everybody else.  After a rollback nothing of the
  transaction may be left; after a commit everything must be there, in memory
  and in storage; outside writes may be refused but never lost; the lock must
  always be passed on.
* **Save queue.**  Mutations go on while a write is in flight.  A save that
  resolved must be durable; writes of one collection must not overlap; each
  caller must get an answer.
* **Atomic flush.**  A crash or a failure in the middle of a batch, and single
  saves that write the same files.  A commit must be atomic and durable, or
  reported by the next load.
* **Lifecycle.**  `connect()` runs migrations in transactions while other calls
  wait for it, or do not.  Each migration must take effect once, in order;
  every call must end.
* **Collections, indexes, TTL.**  Operations that fail half-way and documents
  that change between being found and being written.  Indexes must agree with
  the documents, and every way to look for documents must find the same.
* **Registry.**  Renames, reloads and seeds replace stores that handles, timers
  and saves in flight hold on to.  What was acknowledged must stay in a file.
* **Change log and events.**  Both come after awaits, and through transactions
  of somebody else.  The log must be good enough to restore from; a watcher
  must end with what the collection has.
* **AI.**  A language model answers late or never.  Nothing remembered may get
  lost to a summary, and no cached filter may be used for another question or
  schema.
* **MCP server.**  Calls end in any order, clients come and go.  Each request
  gets its own answer, and no agent may write where its scopes forbid it, by
  whatever name it calls the collection.
* **Storage adapters.**  A call may fail, be overtaken or be cut off.  A file has
  the contents of one write, whole, or none.

## Modules

| module | what it is |
|---|---|
| `SaveContract` | what saving a collection promises: an abstract specification |
| `SaveQueue` | `save()`, `saveDirty()` and `_saveOne()` of one collection |
| `SaveQueueProofs` | its theorems; `SaveQueue` implements `SaveContract` |
| `Transaction` | transaction manager, pipeline and registry of a connected database |
| `TransactionProofs` | its theorems |
| `FlushStore` | `saveAtomic()` over a storage adapter, single saves, crash, reload |
| `FlushStoreProofs` | its theorems, and that `Storage` implements `StorageContract` |
| `Lifecycle` | connect, auto-connect, migrations, the transaction lock, disconnect |
| `LifecycleProofs` | its theorems |
| `Documents` | the operations of one collection over its documents and indexes, TTL sweeps |
| `DocumentsProofs` | its theorems |
| `StorageContract` | what the engine may expect of an adapter: an abstract specification |
| `Storage` | the adapters: temporary files and renames, SQL, encryption, crashes |
| `Registry` | names, stores, instances, files: rename, seed, load, disconnect, statistics |
| `RegistryProofs` | its theorems |
| `Watch` | the iterator of `watch()`, as operators on a record |
| `ChangeLog` | log, events, `watch()` and `db.restore()` of one collection |
| `ChangeLogProofs` | its theorems, and those of `Watch` |
| `Query` | matcher, planner, sort and pages, `find()` with populate, `search()` |
| `Provider` | a request to a provider of models, as operators on a record |
| `Memory`, `Ask` | the memory of an agent; `ask()` and its cache |
| `Agent` | both of them with one provider |
| `McpTools` | scopes, filters and tools, as operators |
| `McpServer` | the MCP server with its transports and clients |
| `ConnectorsProofs` | the theorems about `Agent` and about `McpServer` |
| `MC...` | instances for TLC |

`Watch`, `Provider` and `McpTools` have no variables: they are extended by the
modules that use them, `Agent` composes `Memory` and `Ask`, and `MCFlushStore`
puts `Storage` beside `FlushStore`, a behaviour being of one or of the other.
Otherwise the modules share no variables.  Each takes the others' part of the
system at the grain it needs: `Transaction` knows documents as marks and a
batch as one write, `FlushStore` takes a batch apart into what `StorageContract`
allows and knows a transaction as *running* or *saving*, `Documents` is what
`mutate()` does between the turns that `Transaction` gives it, `ChangeLog` takes
apart what `Transaction` calls effects, `Query` has the writes of `Documents` as
single turns, `Registry` has the save queue of `SaveQueue` for several names,
and `Lifecycle` has the lock of `Transaction` and migrations as its
transactions.

### SaveContract and SaveQueue

The contents of the collection are a version number.  `queue` is the
`isSaving`, `_pendingSave` and `_saveWaiters` of the store, `writing` the text
that the write in flight was serialised to, and each caller has its place in
`_saveOne()`.  `StartWrite` serialises and hands over in one turn, so a
mutation comes before it or misses it.  A write lands and returns in two steps:
between them other callers change the collection and queue.  `SaveContract`
knows only the version in memory, the version in storage and what each caller
asked for and heard; `SaveQueue` maps to it with the identity on `data` and
`disk` and a projection of its callers.

### Transaction

Contents are sets of mutations: `mem`, `disk`, and the snapshots and images of
a transaction are `SUBSET Write`, so "rolled back", "committed" and "survives"
are membership.  Each mutation goes through the turns of `execute()`: *called*
(before its first await), *entered* (lock check, snapshot, inside `mutate()`),
*applied*, *marked* (dirty) and *done*.  Each transaction goes from *queued* on
`_txLock` to *running*, *saving*, *writing*, *flushing* (deferred effects) or
*failing*, and its end.  `held` says which instances carry `_activeTxId` of the
transaction, `createdIn` is `_createdInTxId`, `affinity` the two ids a mutation
captures when it enters.  Names of the mutants aside, every action is one turn
of the function that the map names.

Two constants say what the callers do.  `AwaitsWrites`: `fn()` awaits its
mutations before it settles.  `FreshHandles`: it calls `tx.useCollection()` for
each of them rather than keeping a handle.  The docs ask for both; the runs
check the code with and without them.

Storage is written by commits alone here.  A batch that the adapter rejects may
have been stored nevertheless, some of its entries (fs.js:90-99, d1.js:122-131)
or all of them when only the answer was lost: `CommitFails` stores any part of
it.  `left` remembers which collections have in storage what a rejected batch
put there; the next batch that has the collection overwrites it.  A rollback
does not take it out of storage, and `RolledBackLeavesNoTrace` says exactly
that: nothing in memory, and in storage nothing but such leftovers.  The order
of the entries of a batch, and what a load makes of half of it, is the subject
of `FlushStore`.

### FlushStore

A collection is its version, and `_meta` has a flush sentinel besides.  A
behaviour has a `setup`, one of the constant `Setups`: `chunk` is the number of
entries that the adapter stores in one step (1 for `FsAdapter`, one rename after
the other; the batch size for D1; all of them for the other SQL adapters),
`answersLost` lets `writeAll()` fail after it stored everything, `inTx` are the
names that transactions write and `saved` those that somebody saves one at a
time beside them, `atOnce` how many mutations may be between their change and
their mark.  The properties say which of these they need: `Atomic`, that a
batch is one step, and `Apart`, that nobody saves singly what transactions
write.  `Crash` may come between any two steps; a write in flight has landed or
never will.

A mutation is two turns, the change (`Write`, `TxWrite`) and `MarkDirty`, since
`await mutate()` lies between them.  `Write` is open to every collection at any
time, those of a batch on its way included: a mutation that passed the lock check
may still await its hooks (pipeline.js:65-108), a timeout that comes when `fn()`
has returned sets `ctx.aborted`, which opens the lock (transaction.js:124,
transaction.js:335), and `fn()` may have left mutations behind.  A batch that
returns clears the marks of all that happened meanwhile (`BatchReturns`), and a
rollback brings back the mark of a snapshot that was taken between a change and
its mark (`Touch`).  `overtaken` remembers the collections to which this happened,
until a batch stores them.

What the model makes plain about the sentinel: it is written into the `_meta`
entry of the very batch it guards.  With an adapter that stores entries one by
one, `_meta` last, the sentinel reaches storage only when the batch is complete.
It never reports a partial flush and always reports a complete one whose clear
was cut off.

### Lifecycle

A write is a mark in a collection of its own; what is checked is when calls go
on.  `boot` is how far `_doConnect()` is, `lock` the chain `_txLock` with its
holder first, `ctx` the active context, `call` the place of every client.  A
migration is a transaction of `Boot` that writes its mark and `appliedVersions`
in one batch.  A failed `connect()` may be tried again, as `connect()` forgets
its promise when it rejects.  The batch is atomic here (see `FlushStore`).  A
`disconnect()` is called while nobody has the lock, and neither another one nor
a transaction starts before it ends (`Closing`); writes do.

### Documents

Documents are objects in a heap, and `_data`, the `_id` index, the field, unique
and compound indexes hold addresses, since the code compares objects by
identity: a call finds an object, awaits its hooks, and then looks for that very
object.  `Find` is the turn that finds, `UpdateLands`, `SoftDelete` and
`RestoreDoc` the turn that writes; hard deletes find and write in one turn;
`InsertChecks` is the check of one item of a batch and `InsertLands` the turn
that inserts all; `UpsertManyStep` writes one document of the batch and finds
the next.  `Sweep` may come between any two.  Every object knows the call that
inserted its document (`from`) and the calls that wrote it (`by`), by which an
update that was lost is seen.

An index refuses a document whose compound field is an object only after it
changed the field and unique indexes (`Refused`, `IndexDocs`), and `replaceAt()`
comes before `IndexEngine.update()`: both orders are the code's.  Loops are
functions of the number of turns (`Only`, `CommitAll`), or say what they leave
where that is plain (`IndexDocs`, `SetInIndex`: of several objects with one
value, the last).

### StorageContract and Storage

In `StorageContract` a file has the contents of one write or none, and a call
takes effect between its beginning and its answer: entry by entry, or at once
where `whole` says that a batch is one step.  A call that fails, or that a
crash cuts off, may have stored the first of its entries.

`Storage` has the calls of `adapter`: `staged` is `FsAdapter`, where a write
begins a temporary file (`StageBegins`), completes it (`StageEnds`) and renames
it (`Rename`); `writeAll()` stages all its entries before the first rename, and
removes what it staged when one fails (`Unstage`).  `FindOrphans` and
`RemoveOrphan` are `cleanOrphans()`, which takes the temporary files of writes in
flight too.  `StoreEntries` stores the next `chunk` entries of a database or of
LocalStorage, and its answer may be lost.  `sealed` is the `EncryptedAdapter`
around any of them: what was stored without the key cannot be read.
`KeepsStorage` maps it to the contract.  A crash is one of the process: what
`fsync` would have to secure is outside the model.

### Registry

A document is its size.  `byName` and `instances` are the maps of the registry,
`stores` and `handles` the objects they refer to, identified because the code
keeps references to them: a save in flight (`jobs`) writes the file whose name
it was given, from the store it was given.  `disk` has for each file what was
serialised, with the name inside it (`label`), since the load goes by that name
(`Load`).  A write is three turns: `Change`, then, after `await mutate()`, `Mark`,
which finds the collection by the name of its handle, marks it and saves it, and
`Resolve`; `seed()` saves everything in a turn of its own (`SaveSeed`).  `Relabel`
and `Rename` are the two halves of `renameCollection()`
before its await, `Remove` what comes after it.  `Clear` is the part of
`disconnect()` that replaces the map, and `timer` remembers which map the TTL
timer sweeps.  `acked` is for each document the size that somebody was promised.
A setup with `alone` is a program that does not use a collection while it is
renamed, nor the database while it disconnects; without it, see `RenameRace`.

### Watch and ChangeLog

An iterator is a record: `Hear` is the listener, `Ask` `next()`, `Leave`
`return()`.  It counts what was published, delivered and dropped.

In `ChangeLog` a mutation changes the collection in one turn, then awaits its
save, writes one entry after the other (`LogChange` stamps it, `Logged` stores
it) and publishes its events (`Emit`).  While a transaction elsewhere is open,
entries and events go to `deferred`, and with it when it fails (`Abort`) or
through `FlushEvent`, `FlushEntry`, `FlushLogged`.  `mirror` is a watcher that
applies each event to a copy.  `ReadLog` is the query of `db.restore()`,
`Replay` the Map it builds, `RestoreAll` and `RestoreOne` what `_rehydrateAll()`
and `_rehydrateOne()` do with it.  `past` remembers what queries found at the
end of each tick of the clock, against which a restore is compared.

### Query

`MatchesFilter` is the matcher, `PresortFilter` the order in which `find()`
evaluates a filter, `FindRaw`, `FindAllRaw` and `Find` are three different plans
for the same question.  Arrays and Sets are numbered, because `find()` with
populate (`StartFind`, `Populated`) awaits inside a loop over one of them while
`Insert`, `Replace`, `RemoveOne` and `RemoveMany` change it in place or abandon
it; `search()` (`StartSearch`, `Embedded`) holds on to its candidates while it
awaits the embedding.  The reference definition is `Scan`: all of `_data`,
compared with the filter as it was written.

### Provider, Memory, Ask and Agent

A request goes from *sent* to *body* to its end, and through *waiting* to the
next attempt (`fetchWithRetry()`): `Arrivals` is what network and provider do,
`Timers` what timers do.

A text is the set of what it tells, so a summary is a union.  `remember()` is
`Remember`, `Store`, `Count`; `compress()` is `Measure`, `List`, `Summarized`,
`DeleteOld`, `StoreSummary`, with awaits in between in which others remember,
compress and forget.

`Ask` numbers the schemas a collection has had.  `Lookup` takes the answer of the
cache or sends a request, `Generated` puts it into the cache and its copy in
`_meta`, `SaveMeta` stores that, `Restart` reads it back.  A cached filter
remembers the question and the schema the model was asked for.  `Key` is the
32-bit hash of both, which a setup gives as a function: with collisions (`Alike`)
or without (`Apart`).  `_djb2()` has simple ones: "Ab" and "BA" at one place of
the question give the same key, and one question the filter of the other.

### McpTools and McpServer

A message is handled on its own.  `Malformed` and `Simple` answer at once,
`ToolCall` checks name, scope and filter and starts the operation, which changes
the collection in one turn (`Change`) and ends in another (`Finish`), well or
not.  An answer goes to whatever transport is there then: over stdio to the one
client, over HTTP to every open stream.  `Close`, `Closed` and `Listen` may come
in between.  `effects` remembers which message changed which document of which
collection.

Names are what agents send, with blanks around them or without.  The router looks
up the scope of the name as it was sent (`HasScope`), the tool trims it
(`CollectionOf`), so that a name with blanks works on a collection by the entry
of another name.  `ScopesHold` says by which entry a change was let through: that
of the collection, or that of the name as it was sent.

## Runs

| run | result | shows |
|---|---|---|
| `SaveQueue` | pass | a resolved save is durable; one write at a time; storage never goes back; every caller is answered; `SaveQueue` implements `SaveContract` |
| `TxContended` | pass | rollback is complete but for what a rejected batch left in storage, commit is complete, effects follow the commit, for callers that keep to the discipline |
| `TxSloppy` | pass | without any discipline, outside writes on other collections survive and every transaction ends |
| `Flush` | pass | files and SQL, alone or beside single saves of other collections: commits are durable, atomic where a batch is one step; clean collections are stored, but for changes about to be marked and marks that a batch or a snapshot overtook; alarms are real; and the adapters keep `StorageContract` |
| `Lifecycle` | pass | each migration takes effect once and in order; connected means migrated; every call ends if transactions start on a connected database |
| `Documents` | pass | documents are distinct, all indexes agree with them, no update is lost, inserts and single updates that fail leave nothing |
| `ChangeLog` | pass | a watcher's copy agrees with the collection when nothing is on its way; whoever hears an event finds its entry; an iterator loses nothing; a restore brings back what was there |
| `Query` | pass | all plans find what a scan finds, pages are whole; a `find()` or `search()` that writes overtake misses nothing that nobody touched |
| `Agent` | pass | nothing remembered is lost to overlapping compressions, memory stays compact, cached filters were made for what has the hash of question and schema, requests with a timeout end |
| `Mcp` | pass | answers match requests and every request is answered; writes happen only by the entry of the collection, or of its name as it was sent, and to matching documents |
| `Registry` | pass | for orderly programs: what was acknowledged is in a file, the maps of the registry agree, cached statistics are current, but for the turns between a change and its mark |
| `RenameRace` | violation | `renameCollection()` during a save of the collection: both names lose it |

`RenameRace` is a bug of the code: the save that the rename asks for joins the
save in flight, which goes on under the old name, and then the old file is
removed.  The finding in `PROJECT.json` has the steps.

A definition marked *Mutant* is a plausible bug in the definition after it.  For
every property of a passing run, `PROJECT.json` names one that makes TLC refute
it: the property would notice.

### Known divergences without a run

The modules say more of the code than these runs ask.  Each line is a sentence
of the documentation, the definition that states it and what to give TLC to
have it refuted (the other constants as in the passing run of the module).

| sentence | definition | refuted with |
|---|---|---|
| no mutation is silently lost, the dirty flag being cleared after a write (ARCHITECTURE.md:440; persistence.js:359 clears that of a mutation made during the write) | `CleanMeansDurable` | as in `SaveQueue` |
| the id of a transaction aborted by an error is remembered (ARCHITECTURE.md:647; transaction.js:264 does so after timeouts only) | `RolledBackLeavesNoTrace` | `AwaitsWrites = FALSE` |
| any later mutation of a stamped handle throws (ARCHITECTURE.md:647; transaction.js:273 clears the stamps of cached instances) | `RolledBackLeavesNoTrace` | `FreshHandles = FALSE` |
| pruned ids "can no longer produce stale continuations" (transaction.js:366) | `RolledBackLeavesNoTrace` | `Window = 1`, `Write = {x1}`, `Reads <- ReadNone` |
| outside writes to untouched collections are not rolled back (CHANGELOG.md:434; the stamp is on the shared instance, pipeline.js:73) | `OutsiderSurvives` | `Target <- Contended`, `Loaded = {a, b}`, `Write = {x1, o1}` |
| a rollback deletes collections "created inside `fn`" (documentation.md:283; it deletes all new ones, transaction.js:246) | `OutsiderSurvives` | `Target <- Disjoint`, `Loaded = {a}`, `Write = {x1, o1}` |
| any outside write to a locked collection throws (documentation.md:312; not while a call of the transaction is in its pipeline, pipeline.js:65) | `OutsiderBlocked` | `Target <- Contended`, `Write = {x1, o1}` |
| `watch()` hears of every mutation (index.js:572; outside events are deferred into the running transaction, index.js:603) | `WatchersSeeEveryWrite` | `Target <- Disjoint`, `Loaded = {a, b}` |
| "concurrent transactions serialised" (docs/index.md:75; refused as nested, index.js:716) | `NeverRefused` | any |
| a crash in the middle of a batch leaves the sentinel on disk, and the next load reports it (ARCHITECTURE.md:678, CHANGELOG.md:377; the sentinel is in the batch, persistence.js:234) | `PartialIsReported` | as in `Flush` |
| data and version of a migration land together (migrations.js:71; not with files, fs.js:90) | `AllOrNothing` without `Atomic` | setup `Fs` |
| data is consistent after concurrent save and transaction (persistence-coherence.test.js:299; a save takes no part in `_saveLock`, persistence.js:319) | `CommitIsDurable` without its premise | `Fs` with `saved = Name` |
| writes are suppressed from disk until `fn()` resolves (README.md:97; not from `saveData()`, index.js:494) | `SuppressedUntilCommit` | `Fs` with `saved = Name` |
| a sentinel on disk means an interrupted flush (ARCHITECTURE.md:452) | `AlarmIsReal` without its premise | `Fs` with `saved = Name` |
| `saveDirty()` persists the "collections marked dirty" (persistence.js:199; persistence.js:255 clears the mark of what changed while the batch was written, and transaction.js:246 brings back one that a snapshot took between a change and its mark) | `MarksAreKept` | as in `Flush` |
| `connect()` is idempotent and runs by itself (ARCHITECTURE.md:165; a transaction before it holds the lock that migrations wait for, transaction.js:102) | `EveryCallEnds` | as in `Lifecycle` |
| concurrent callers before `connect()` resolves await it (ARCHITECTURE.md:704; not while migrations run, index.js:416) | `WritesAwaitConnect` | as in `Lifecycle` |
| `ERR_SKALEX_TX_NESTED` is for calls inside a transaction (index.js:708; a client's transaction makes `connect()` fail with it) | `MigrationNotRefused` | as in `Lifecycle` |
| `disconnect()` flushes all unsaved data (index.js:389; a write that ends meanwhile is dropped, index.js:396) | `DisconnectFlushes` | as in `Lifecycle` |
| no duplicates of a unique field (documentation.md:1044, collection.js:419; `updateMany()` with `$inc` throws half-way, collection.js:483) | `Distinct` | `Setups <- ShiftSetups` |
| a soft delete sets `_deletedAt` (documentation.md:777; on an object that was replaced meanwhile, collection.js:1027) | `DeletesKept` | `Setups <- SoftSetups` |
| strict delivery order per collection (pipeline.js:40; events come after an awaited save, pipeline.js:115) | `WatchersFollow` | `Setups <- OverlapSetups` |
| an entry has the document after the operation (changelog.js:30; a deferred one refers to an object that a soft delete marks) | `LogHasWhatWasWritten` | as in `ChangeLog` |
| watchers observe evictions "alongside the corresponding inserts" (collection.js:274; a batch beyond `maxDocs` publishes the deletes of its own documents first, and a watcher keeps them) | `EvictionsAreSeen` | `Setups <- OverfullSetups` |
| every `next()` is answered (collection.js:763 overwrites the promise that waits) | `NextIsAlwaysAnswered` | `Iterated` with `eager = TRUE` |
| `find()` finds all matching documents (collection.js:846; not with populate when one is spliced out meanwhile) | `FindsAll` | as in `Query` |
| operators work on every field, for all of the reads (query-planner.js:29 looks up an operator on `_id` as a value) | `IdIsAField` | as in `Query` |
| soft-deleted documents are hidden (documentation.md:194; not from `search()` without a filter, collection.js:933) | `SearchFindsVisible` | as in `Query` |
| old memories are replaced by a single entry (documentation.md:1464; by one for each overlapping `compress()`) | `OneSummary` | as in `Agent` |
| `forget()` deletes a memory (memory.js:106; a summary under way brings it back) | `ForgottenForGood` | as in `Agent` |
| the cache serves "the same question on the same schema" (ask.js:27; ask.js:40 takes a hash of 32 bits for them, in which "Ab" and "BA" are one) | `AnswersAreOwn` | as in `Agent` |
| the rule of a collection "takes precedence over wildcard" (mcp/index.js:207; it is looked up by the name as it was sent, which tools.js:62 trims afterwards: a name with a blank before it is left to the wildcard) | `ScopesAreOfCollections` | as in `Mcp` |
| statistics are cached while the collection "has not been mutated" (registry.js:222; an update has changed documents some turns before it marks them, pipeline.js:110) | `CachedUntilMutated` | as in `Registry` |
| several clients at a time are supported (http.js:8; answers go to all of them, by ids that each client numbers from one) | `ClientsAreApart` | as in `Mcp` |
| tools whose scope is granted on no collection are not listed (mcp/index.js:182; `skalex_collections` is) | `ListedIsCallable` | as in `Mcp` |

Some more the modules show without a definition of their own.

* `Documents`, outside the operations the passing run calls: two batches with one
  explicit `_id` may both insert it (collection.js:262 is followed by awaits for
  the rest of the batch), and a document that a compound index refuses leaves
  its unique value taken (indexes.js:340).
* `ChangeLog`: a full restore passes over the undoing of soft deletes, and wipes
  documents that were there before the log; the restore of a single document
  that came after the timestamp does nothing; evicted and swept documents have
  no entry; a transaction that fails drops entries and events of others; `restore()`
  publishes events although documentation.md:1501 says it does not; the third
  argument of `watch()` at documentation.md:963 is ignored.
* `Query`: sorting by a field that `select` leaves out, or by one that some
  documents lack, does not sort; an index has no documents whose field is
  undefined.
* `Ask`: a filter that was refused stays cached, and is refused again;
  `fromJSON()` does not keep `maxSize`.  `Memory`: `compress()` deletes before
  it inserts, so a failed insert loses what it summarised.  A summary has no
  embedding.  `Provider`: the body of a response has no timeout.
* `McpServer`: the JSON `null` is never answered; the end of the input ends the
  process with calls in flight; `close()` drops answers.  Taking an unregistered
  `$fn` out of a filter makes it match more.
* `Storage`: `supportsBatch` is used nowhere, and `EncryptedAdapter` does not
  forward it; a single write that fails leaves its temporary file; two first
  calls at once on `BunSQLiteAdapter(":memory:")` may open two databases.
* `Registry`, for programs that are not `alone`: `renameCollection()` before
  `connect()` saves an empty store and removes the old file; a name reused after
  a rename whose save failed overwrites the only file; a handle taken before
  `connect()` and a `seed()` with reset leave it on a store nobody saves; a
  handle kept across `disconnect()` writes to such a store too, and is told it
  was saved; `createCollection()` of an existing name replaces its store; a
  crash between the save and the removal of a rename leaves both files; after
  a reload, statistics may be those of other contents; a failed `disconnect()`
  leaves the TTL timer stopped.  For all programs: a collection that is renamed
  and gets its name back may be served the statistics of before, since
  `renameCollection()` leaves those of the old name cached (index.js:548), and
  asking under the new name clears `_statsDirty`.  `StatsAreCurrent` is refuted
  with `MaxRenames = 2`, `MaxCalls` and `StoreIds` enough for it.

### Bounds

* Three callers and versions up to 2 in `SaveQueue`: one writes, one has joined
  it, one comes after, with a different image for every write.
* Two transactions, two collections and four mutations in `TxContended`: one
  transaction makes two mutations on two collections, the other contends for
  one of them, and somebody outside writes too.  `Window` (1000 in the code) is 2,
  enough that no mutation sleeps through it.  `TxSloppy` has one mutation
  inside and one outside, and two transactions, of which one may be empty.
* Two data collections and `_meta`, three mutations and two crashes in
  `FlushStore`: a batch has a middle, one mutation comes while it is on its way
  and another after it, and a second load sees what the first one left.  At most
  one mutation is between its change and its mark at a time, two with SQL, where
  one may be of the transaction and one not.
* Two migrations, two writers, two transactions, two `connect()`s and one
  `disconnect()` in `Lifecycle`.
* Three calls on two loaded documents in `Documents`, with three collections:
  `Hard` is capped at the documents loaded, so that every insert evicts, and has
  one document that may expire; `Batches` inserts several documents at once and
  moves unique values; `Soft` deletes softly and restores.  A call that found a
  document, one that changes it and one that takes its `_id` or value is the
  longest chain that the code distinguishes.  `MaxKey` bounds `$inc` only.

* Three calls over two files in `Storage`: a batch of both, a write or a delete
  of one of them, and a third that reads, lists or cleans up, over a directory,
  an SQL database that stores a batch at once and one that stores it entry by
  entry, with and without encryption, and a crash at any point.
* Two callers, two names, one document that may expire, four calls and one
  rename in `Registry`: a rename beside a write, a load after a crash or a
  disconnect, and statistics asked before and after.  Each setup has the kinds
  of calls that can disturb one another.  `StatsAreCurrent` holds up to one rename,
  see the divergences.
* Up to four calls on two documents and two ticks in `ChangeLog`: insert, change
  and remove within one tick or over two, and a restore to either; an iterator
  with a buffer of two and three calls of `next()`, so that it overflows.
* Three documents, three writes, one read and 22 filters in `Query`: each
  operator, value and logical operator alone and with an indexed field, over no
  index, one, two, and a compound one.  Three writes suffice to empty a Set,
  abandon it and fill its successor while a loop holds on to it.
* Three callers and three texts in `Memory`, three askers, two questions, two
  schemas and three days in `Ask`, caches of one and two, one or two attempts; a
  hash that tells all apart, and one in which the two questions collide.
* Two clients with up to three messages in `Mcp`, among them every kind of
  message, scopes that list a collection, the wildcard, or both, names with a
  blank before them, and scopes that list such a name.

Deadlock is checked where the system can always do something; in `Transaction`,
`Lifecycle` and `Documents` each call is made once, so the system stops when all
have ended, and so do `ChangeLog`, `Query`, `Agent`, `McpServer` and `Registry`,
where the number of calls is bounded.

### Fairness

Weak fairness on what the event loop and the adapter do: a continuation that is
ready runs, and a promise of the adapter settles, one way or the other.  `fn()`
and `up()` are assumed to end once what they await has.  Nothing forces a call
to be made, a timer to fire or a write to succeed.

In `Agent` the timers of a request go off, and that is all: network and provider
may be silent for ever, which is why `RequestsEnd` speaks of adapters with a
timeout, and not of the body of a response, which has none.  In `McpServer` a
message that is on its way is handled and an operation of the database ends;
clients may leave and the server may be closed at any time.  The other modules
state no fairness: their properties are about what may never happen.

## Proofs

`SaveQueueProofs`, for any set of callers and any bound:

* `TypeCorrect`, `SingleWriter`: by the invariant that somebody is in the
  writing section exactly while `isSaving` holds.
* `SavedDurable`: a waiter is safe because the write after it joined carries
  its version.  The invariant says so for a writer, for who waits on the write
  in flight and for who waits on the next one, which is why `_pendingSave`
  must be set when they join.
* `DiskMonotone` as an action property from the same invariant.
* `QueueKeepsContract`: initial states and steps map to those of
  `SaveContract`.  That its fairness holds too is left to TLC.

`TransactionProofs`, for any transactions, collections and mutations:

* `TypeCorrect`.
* `RollbackIsComplete`: if `fn()` awaits its mutations and takes fresh handles,
  and as long as no mutation sleeps through `Window` later transactions,
  `RolledBackLeavesNoTrace` holds.  The property alone is not inductive: a
  mutation in flight could still apply, and a later transaction could restore a
  snapshot or store an image that has it.  So the invariant follows a mutation
  of an unfinished transaction: called inside it (`CalledInside`), entered only
  with a snapshot or refused by id (`EnteredCovered`), in memory only where a
  snapshot will undo it (`MemCovered`), never in a snapshot (`SnapClean`), in an
  image only while its transaction commits (`ImageCovered`), and in storage only
  then or as what the adapter stored of a batch that it rejected (`DiskCovered`).
  Nothing in the code takes that back, so the theorem says that nothing is left in
  memory, and in storage no more than that (`left`), until the collection is
  stored once more.
* `CommitsAreComplete`, `EffectsWaitForCommit`: under the same conditions.  The
  invariant follows a mutation the other way: in memory and in a touched
  collection while its transaction runs (`OwnKept`), then in the batch, in the
  image and in storage (`OwnSaved`), its effects deferred until then
  (`EffectsKept`); and once committed, in every snapshot and image through which
  a later transaction could take it away (`CommittedKept`).
* `OutsidersSurvive`: what an outsider wrote stays, without any discipline, if
  its collection is loaded and no transaction reads or writes it (`Apart`).  Both
  halves of `Apart` are needed, see the divergences.

Of `Agent`, in `ConnectorsProofs`, for any callers, texts, askers and
configurations, provided that the setups are of the type that `Agent` assumes:

* `NothingIsLost`: `MemoriesKept` alone is not inductive, since `compress()`
  deletes by `_id` what it listed earlier.  The invariant adds that ids are
  unique and of the past, that two calls never build the same one, and that an
  entry of which a call knows has not changed since: what it deletes is what it
  is about to store in its summary.
* `AnswersAreFitting`: every entry of the cache, of its copy in `_meta` and of
  that in storage has a filter made for a question and a schema with the hash it
  is found under, and not in the future; this survives eviction (`SetInKeeps`),
  expiry (`RemoveAtKeeps`), and a restart.  The hash is any function that the setup
  gives: where two questions share one, the theorem says no more than that, and
  `AnswersAreOwn` is refuted, see the divergences.
* `MemoryStaysCompact` (`MemoryIsCompact`): when calls do not overlap
  (`OneAtATime`), an entry tells only texts that were stored before
  (`TextsApart`), so neither a new entry nor a summary repeats one
  (`EntriesApart`), and how many entries there are follows from how far the one
  call has come (`Counted`).  That `compress()` leaves at most `keepRecent`
  entries alone is the pigeonhole principle: each of the newest has its own number
  of newer ones (`RecentAreFew`).

`FlushStoreProofs`, for any collections, callers, and sizes of a step, from the
assumptions that there are finitely many collections and that `_meta` is none of
them:

* `TypeCorrect`.
* `CommitsAreDurable`: what a caller was promised (`durable`) stays below
  storage only if it is below every place from which the next entry of that
  collection may come: memory, the text of a single save in flight, a snapshot
  that a rollback may bring back, the image of a batch.  `Promised` says so;
  `Flow` says which of these places are in use, and that memory holds what a batch
  serialised, or something newer, as long as the batch is on its way.
  `Apart` is needed: a single save of a collection that a transaction writes may
  land after the commit.
* `CommitsAreWhole` (`AllOrNothing`): before the only step of its batch, memory
  is newer than storage for every touched collection, so nothing of the batch
  counts as stored; after it everything does.  That one step suffices is a
  matter of counting: the batch has at most one entry for each name
  (`EntriesFit`, `StepStoresAll`).
* `AlarmsAreReal`: an open sentinel in storage has its cause in a flush that
  runs, failed or was cut off, and the text of the final write is always closed
  (`Alarm`).
* `CleanIsStored` (`CleanMeansStored`): a collection is stored, or dirty, or about
  to be marked, or `overtaken` (`Pending` names the last three).  A snapshot taken
  of a clean collection is what storage has, and stays so while its transaction
  runs, so a rollback that takes the dirty mark back takes back what was marked
  (`Clean`); a batch that fails in one step has stored nothing; one that returns
  stored what it serialised, which memory may have left behind.  So a mark is lost
  in two ways only: a batch returns after a mutation marked what it does not have,
  or a rollback brings back a snapshot taken between a change and its mark.  The
  theorem says that there is no third; that these two happen is shown by
  `MarksAreKept`, see the divergences.  Not so for collections that are saved
  singly, since such a save clears the mark of what was written while it was on
  its way: the property excludes them, and `CleanMeansDurable` of `SaveQueue` is
  the sentence they break.

`LifecycleProofs`, for any clients and any number of migrations, from the
assumption that no client makes calls of two kinds:

* `TypeCorrect`: whoever awaits `connect()` in a transaction or has a context
  holds the lock (`LockHeld`).
* `MigrationsRunOnce`, `ConnectMigrates`: storage has a first part of the
  migrations, each committed once (`StoredInOrder`), and the loop of `run()` goes
  on from there, with memory ahead by the one that is being saved
  (`BootFollowsStorage`).  What a `disconnect()` serialised has the same
  migrations (`ClosingSaves`), or its write could take one back.

Of `McpServer`, in `ConnectorsProofs` too, for any clients, scopes, documents and
messages, from the assumption that setups are what `McpAssumption` says, among
others that `distinct` means that no two requests of all clients have one id,
and that names are what `NameAssumption` says (trimmed, the name of a collection
stays as it is):

* `AnswersAreMatched`: a message is to be sent, on its way, running or done
  with (`HandledOnce`), and an answer carries the id of the message it is for
  (`AnswersCarryIds`), wherever it is broadcast.
* `ScopesAreKept`: a call that runs has passed every test of the router, with the
  name as it was sent (`CallsAreChecked`), so what it changed was granted to that
  name and is in the collection that the trimmed name says (`EffectsAreGranted`),
  and taking out what is no registered `$fn` leaves the filter that the property
  compares with.  That the entry of the collection itself granted it does not
  follow, since a name with blanks around it has no entry of its own:
  `ScopesAreOfCollections` is refuted, see the divergences.

Of `Storage`, in `FlushStoreProofs` too, for any adapters, calls and files, from
the assumptions that steps of `FsAdapter` are renames of one file and a read has a name:

* `AdaptersKeepContract`: `KeepsStorage`, by the mapping that forgets temporary
  files: a file has the text that its readers get (`Texts`), and a call has yet to
  store what it has not renamed or inserted (`ToStore`).  Each action is a step
  of the contract or leaves the mapped state alone.  The invariant says that a
  call renames complete files only, although `cleanOrphans()` may take them away
  meanwhile (`TempsOK`), and that what is left of a call is the tail of its
  entries (`CallsOK`).
* `StorageTypeCorrect`: no file is ever torn.

`DocumentsProofs`, for any number of calls, documents, `_id`s and values, from
the assumptions that loaded documents are distinct and that what is inserted
is given (`Proper`):

* `TypeCorrect`, for every collection and all calls.
* `DocumentsStayDistinct`, `IndexesStayExact`, `NoUpdateIsLost` and
  `FailuresLeaveNothing` (`Distinct`, `IndexesAgree`, `UpdatesKept`,
  `FailedLeavesNothing`), under two conditions without which the code breaks
  them, see the divergences.  `Regular` is about what is called: no compound
  index is given an object, and `updateMany()` does not `$inc` a unique field.
  `BatchesKeepIds` is about a moment: no `insertMany()` is about to insert an
  `_id` that was taken after it was checked; the instances that TLC checks have
  both.  `SingleInsertsAreSafe` needs only the first, for collections where
  each insert is of one document: then check and insert are one turn.

  The invariant (`Facts`) has two halves.  `Sound` says how `_data`, `_index` and
  the indexes of fields agree, and every operator on a store keeps it: removal
  (`WithoutSound`), insertion of fresh objects (`AddSound`), a new object in the
  place of one (`ReplaceSound`), any number of them until one throws
  (`CommitAllSound`).  The other half remembers who did what: an object that c
  wrote is a document only if c may have written (`Clean`), what others know of
  an insert is known only after it (`InsertsSeen`), what a batch has built is its
  own (`BuiltFit`), and what a call settled is in the document still
  (`SettledKept`).  All of it follows from what a step of c can do at most, `Acts`:
  new objects are versions of old ones with c added to those who wrote, or c's
  own inserts.  So each action is shown to be a good step (`...Good`) once, and
  that good steps keep the facts of all other calls is shown once (`GoodKeeps`).

  The loops, which TLC evaluates for short sequences, are reasoned about for all
  lengths: a property of the first n turns that holds for none and of one more
  holds for all, since the numbers that break it would have a least one
  (`NatInductionSet`, from the library's `WFMin`).

`ChangeLogProofs`, for any collection, callers, batches, buffers and transactions:

* `TypeCorrect`: the parts of the state fit together (`TInv`).  A document is in
  the collection once (`Apart`), and what calls, the log, deferred effects and
  watchers have refers to objects that were made, and to ticks that have been.
* `NothingIsLost` (`IteratorLosesNothing`): `Hear`, `Ask` and `Leave` keep the
  account of an iterator (`IterOk`), where an empty buffer and somebody waiting
  go together.  What one event keeps, `emit()` of any number keeps
  (`Iteration`).
* `EntriesComeFirst` (`EventsAreLogged`): that a watcher knows nothing the log
  does not know is not inductive.  The invariant (`LInv`) follows the knowledge
  to where events come from: what a call has yet to publish is in the log or
  among the deferred effects (`CallKnown`), and what a deferred event tells is in
  the log or deferred before it (`EffectsKnown`), so that flushing in order keeps
  entries ahead of events.
  Since a deferred entry refers to an object and is read when it is flushed, the
  invariant needs that no step changes the id or the contents of an object
  (`HeapStep`).
* `WatchersAgree` (`MirrorAgrees`): the property speaks of quiet moments, so the
  invariant (`MInv`) says of each document, at any moment, that a call has yet to
  publish what it did to it (`WaitsOn`), or that the last deferred event of it, or
  else the mirror, has what is in the collection (`Settled`).  A call must then find
  the collection as it left it until it publishes (`Made`): no other call has its
  documents in its hands (`Separate`), which is where callers that await one
  another are needed; with `maxDocs` any insert may evict any document, and calls
  claim them all (`Area`).  A step changes some documents and leaves the others
  alone, which is shown once (`Moves`), for calls that start (`StartsWaiting`), end
  (`EndsSettled`) and go on (`StaysSettled`).  `db.restore()` publishes what it
  brings back as inserts and updates, so what it read must not be of documents
  that were soft-deleted: `VInv` says of the log, of what is deferred into it and of
  what was read from it that an entry other than a delete has no mark (`Live`).

`RegistryProofs`, for any callers, names, documents and numbers of calls and
renames, for programs that are `alone`.  `RoomAssumption` says that there are
finitely many names and enough numbers for the objects; it restricts the model
and not the program, which makes new objects as it likes.  That a free one is
always found, for the load of all files at once too, is proved from it
(`StoreIsFree`, `HandleIsFree`, `StoresAreFree`).  `DocsAssumption` says that a
collection holds finitely many documents, so that a count of none means none:

* `MapsAgree` (`RegistryAgrees`), `TypeCorrect`: the maps agree while the
  database is disconnected too, the file of a name has that name in it, and a
  write in flight is one of the store that the name of its file still has
  (`MapsFit`); whoever makes a call has the instance that is cached (`CallsFit`).
* `AcknowledgedStays` (`AckedIsStored`): a file that has what was promised is
  not enough, it must also survive the writes to come.  `Placed` says that for each
  document some file has it which nobody will overwrite with less: memory and
  the writes in flight have no less, or the name was renamed and the save of the
  rename carries as much (`Secure`).  A call that joined a save is promised
  something by a write that another caller began: until it ends, the store is
  marked for one more round or the text on its way has it (`WillBe`).  A rename
  may remove the old file since its save has just put as much under the new
  name (`StepRemove`), and `disconnect()` may forget everything since it awaits
  every write there is (`LeavesLast`).  Between its change and its save a call is
  promised nothing, and what it is about to save must be in memory still when it
  does: `UnsavedIsHeld`, which needs that only a call that saves has a write in
  flight or waits for one (`WritersSave`), and that other calls leave it as it is
  (`CallsGoOn`).  Without `alone` the property is false,
  see `RenameRace`.
* `StatisticsAgree`: `StatsAreCurrent` for orderly programs, in states with at most
  one rename behind them, whatever `MaxRenames` is.  What is cached for a name was
  counted in some contents (`Fits`): those its store has still, unless the store is
  marked, was emptied by a seed, or was loaded since, when what is cached is that
  of an empty collection (`EmptyAtFirst`) and the counts differ.  The rename finds
  nothing cached for the new name, since no name without a store has anything
  cached before (`NamedOnly`); the second rename may, and the property is then false
  (see the known divergences).  The property speaks of the moments when no mark is
  on its way, so `Fits` lets what is cached be old while one is (`Changed`), and no
  step may lose one but by the mark itself (`MarksRemain`).

Checked by TLC only:

* liveness, and the fairness part of `KeepsContract`: the prover has no rules
  for it;
* `Query`: the matcher is recursive, about which the prover cannot reason;
* `RestoreIsExact` of `ChangeLog`: it relates what the replay of a sorted part of
  the log computes to what the collection was a while ago.

Each module has a type invariant; those of `SaveQueue`, `Transaction`,
`FlushStore`, `Lifecycle`, `Documents`, `ChangeLog`, `Storage` and `Registry` are
proved, and the others can be given to TLC like any invariant.

## Not modelled

* Schema validation and inference (`validator.js`): functions of one document.
* Aggregations fold what `FindAllRaw` of `Query` finds; `select`, filters with
  dotted paths or functions, and the errors of malformed operators.
* Session statistics and the query log, which have no effect on the data; how
  plugins are registered (their hooks are awaits and deferred effects).
* Prompts, payloads and the choice of adapters from the environment; numeric
  similarity of vectors (a vector is its rank).
* Import and export: once the file is read, `import()` is an `insertMany()` with
  a save; `export()` formats one read.
* Ciphers, compression and SQL, which are functions of a text; the loss of
  power, as opposed to that of the process.
* Files that cannot be parsed, `lenientLoad`, and `namespace()`, which opens a
  second database.
* `docs/lib/skalex.browser.js` is generated from `src/`, and `examples/` uses it.

## Plan

1. `SaveContract`, `SaveQueue`, `Transaction`, `FlushStore`, `Lifecycle`,
   `Documents`, and what is told apart above: done.
2. `Watch`, `ChangeLog`, `Query`, `Provider`, `Memory`, `Ask`, `Agent`,
   `McpTools`, `McpServer`, `Registry`, `Storage` with `StorageContract`: done.
3. Proofs of the core and of what surrounds it: done, as above.  To come:
   `RestoreIsExact`; an abstract transaction that `Transaction` implements.
4. Corrupt files and `lenientLoad` in the load of `FlushStore`.
