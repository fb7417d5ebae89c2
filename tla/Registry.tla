------------------------------- MODULE Registry -------------------------------
(***************************************************************************)
(* Names, and what they stand for: the stores of the collections, the      *)
(* Collection instances the registry hands out and caches, the files of    *)
(* the storage adapter, the cached statistics and the map that the TTL     *)
(* timer sweeps.  renameCollection(), seed(), import(), disconnect(), the  *)
(* load of a later connect() and a crash change some of them now and some  *)
(* a few turns later.                                                      *)
(*                                                                         *)
(* The database runs on one thread: an action is what the code does        *)
(* between two awaits.  A document is the size it has in a collection, 0   *)
(* when it is not there; a write makes it one larger.                      *)
(***************************************************************************)
EXTENDS Naturals, FiniteSets, FiniteSetsExt, Functions

CONSTANTS Callers, Names, Docs,
          Mortal,     \* the documents that have a TTL
          MaxSize,    \* bound on the size of a document
          MaxCalls, MaxRenames,  \* bounds on the calls made and the renames
          StoreIds, HandleIds,   \* the objects that may exist at one time
          NoFile, NoCall,
          Setups      \* the environments: [ops, fails, alone]

Ops == {"write", "remove", "put", "seed", "rename", "disconnect", "create",
        "stats", "sweep", "crash"}

ASSUME RegistryAssumption ==
    /\ Mortal \subseteq Docs /\ MaxSize \in Nat \ {0}
    /\ StoreIds \subseteq Nat \ {0} /\ HandleIds \subseteq Nat \ {0}
    /\ NoCall \notin Callers
    /\ NoFile \notin [label : Names \union {NoCall}, docs : [Docs -> Nat]]
    /\ Setups \subseteq [ops : SUBSET Ops, fails : BOOLEAN, alone : BOOLEAN]

\* There are enough objects: those that nobody refers to are used again, and
\* an orderly program refers to one store and one instance of a name.
ASSUME RoomAssumption ==
    /\ IsFiniteSet(Names) /\ IsFiniteSet(StoreIds) /\ IsFiniteSet(HandleIds)
    /\ Cardinality(StoreIds) >= 2 * Cardinality(Names)
    /\ Cardinality(HandleIds) > Cardinality(Names)

\* A collection holds finitely many documents.
ASSUME DocsAssumption == IsFiniteSet(Docs)

VARIABLES
    setup,       \* ops: what happens; fails: writes may fail; alone: nobody
                 \* uses a name while it is renamed or its old file is there,
                 \* nor the database while it is disconnected
    stores,      \* the store objects
    handles,     \* the Collection instances: a store and a name
    byName,      \* collections: the store of a name, 0 for none
    instances,   \* _collectionInstances: the cached handle of a name, or 0
    disk,        \* the file of a name: what was serialised, with its label
    jobs,        \* writes in flight: [call, file, store, payload]
    waiting,     \* _saveWaiters: [call, store]
    call,        \* what each caller is in the middle of
    cache,       \* _statsCache, count 0 and size 0 included; NoFile for none
    connection,  \* "off", "loading" or "on"
    timer,       \* what the TTL timer sweeps: "none", "current" or "old" map
    used,        \* how many calls and renames there were, and whether a crash
    acked        \* the size of a document that a resolved call has promised

memory == <<stores, handles, byName, instances>>
vars == <<setup, memory, disk, jobs, waiting, call, cache, connection, timer,
          used, acked>>

Empty == [d \in Docs |-> 0]
NewStore(name) == [label |-> name, docs |-> Empty,
                   statsDirty |-> FALSE, saving |-> FALSE, pending |-> FALSE]
NoHandle == [store |-> 0, name |-> NoCall]
Idle == [op |-> "none", name |-> NoCall, to |-> NoCall, doc |-> NoCall,
         handle |-> 0, step |-> "idle", size |-> 0]

Count(docs) == Cardinality({d \in Docs : docs[d] > 0})
Size(docs) == MapThenSumSet(LAMBDA d : docs[d], Docs)
Payload(store) == [label |-> store.label, docs |-> store.docs]

\* An object lives as long as somebody refers to it.
Held == {call[c].handle : c \in Callers} \union Range(instances)
LiveStores == Range(byName) \union {handles[h].store : h \in Held \ {0}}
              \union {j.store : j \in jobs} \union {w.store : w \in waiting}
FreeStore == Min(StoreIds \ LiveStores)
FreeHandle == Min(HandleIds \ Held)

Init ==
    /\ setup \in Setups
    /\ stores = [s \in StoreIds |-> NewStore(NoCall)]
    /\ handles = [h \in HandleIds |-> NoHandle]
    /\ byName = [n \in Names |-> 0]
    /\ instances = [n \in Names |-> 0]
    /\ disk = [n \in Names |-> NoFile]
    /\ jobs = {} /\ waiting = {}
    /\ call = [c \in Callers |-> Idle]
    /\ cache = [n \in Names |-> NoFile]
    /\ connection = "off" /\ timer = "none"
    /\ used = [calls |-> 0, renames |-> 0, crashed |-> FALSE]
    /\ acked = Empty

\* The first half of get(): the store of a name, made if there is none.
StoreOf(name) == IF byName[name] # 0 THEN byName[name] ELSE FreeStore

\* get(): the cached instance of the name, or a new one over its store.
Get(name) ==
    IF instances[name] # 0 THEN UNCHANGED memory
    ELSE LET s == StoreOf(name)
             h == FreeHandle
         IN  /\ stores' = IF byName[name] # 0 THEN stores
                          ELSE [stores EXCEPT ![s] = NewStore(name)]
             /\ byName' = [byName EXCEPT ![name] = s]
             /\ handles' = [handles EXCEPT ![h] = [store |-> s, name |-> name]]
             /\ instances' = [instances EXCEPT ![name] = h]

\* Programs that keep to themselves: a name being renamed is used by nobody.
Busy(name) ==
    \/ \E c \in Callers : \/ call[c].op = "rename" /\ call[c].name = name
                          \/ call[c].handle # 0 /\ handles[call[c].handle].name = name
    \/ \E j \in jobs : j.store = byName[name]
Leaving == \E c \in Callers : call[c].op = "disconnect"
MayUse(name) == setup.alone =>
    /\ ~ Leaving
    /\ ~ \E c \in Callers : call[c].op = "rename" /\ call[c].name = name
    /\ connection = "on" /\ byName[name] = 0 => disk[name] = NoFile

\* Whether a call goes on at once or has connect() to wait for.
Entered == IF connection = "on" THEN "ready" ELSE "asked"

\* Documents that are removed are promised to nobody, calls in flight included.
Release(ds) == acked' = [d \in Docs |-> IF d \in ds THEN 0 ELSE acked[d]]
Released(ds) == [c \in Callers |->
    IF call[c].doc \in ds THEN [call[c] EXCEPT !.size = 0] ELSE call[c]]

\* A caller makes a call; MaxCalls bounds how many.
Calls(c, kind) ==
    /\ call[c].op = "none" /\ kind \in setup.ops /\ used.calls < MaxCalls
    /\ used' = [used EXCEPT !.calls = @ + 1, !.renames = @ + IF kind = "rename" THEN 1 ELSE 0]

\* A call on a collection, with the handle that useCollection() gives it; the
\* first one connects the database.  import() is such a call once it has read
\* its file: it inserts, with save.
Ask(c, op, name, d) ==
    /\ Calls(c, op) /\ MayUse(name)
    /\ Get(name)
    /\ call' = [call EXCEPT ![c] = [Idle EXCEPT !.op = op, !.name = name,
           !.doc = d, !.handle = instances'[name], !.step = Entered]]
    /\ connection' = IF connection = "off" THEN "loading" ELSE connection
    /\ UNCHANGED <<setup, disk, jobs, waiting, cache, timer, acked>>

\* createCollection(): a new store and a new instance, whatever the name had.
Create(name) ==
    /\ "create" \in setup.ops /\ connection = "off" /\ MayUse(name)
    /\ setup.alone => ~ Busy(name)
    /\ LET s == FreeStore
           h == FreeHandle
       IN  /\ stores' = [stores EXCEPT ![s] = NewStore(name)]
           /\ byName' = [byName EXCEPT ![name] = s]
           /\ handles' = [handles EXCEPT ![h] = [store |-> s, name |-> name]]
           /\ instances' = [instances EXCEPT ![name] = h]
    /\ UNCHANGED <<setup, disk, jobs, waiting, call, cache, connection, timer, used, acked>>

-------------------------------------------------------------------------------
(* Saving. *)

\* Mutant: the statistics are not marked.
MarkDirtyOnly(ss, name) == ss

\* markDirty() finds the collection by the name of the handle.  (The dirty flag
\* itself decides nothing here: see SaveQueue.)
MarkDirty(ss, name) ==
    IF byName[name] = 0 THEN ss
    ELSE [ss EXCEPT ![byName[name]].statsDirty = TRUE]

\* _saveOne() of some names: a collection that is being written takes a waiter.
\* ss are the stores after what the turn has changed before.
Save(c, names, ss) ==
    LET known == {n \in names : byName'[n] # 0}
        free  == {n \in known : ~ ss[byName'[n]].saving}
    IN  /\ stores' = [s \in StoreIds |->
              IF \E n \in free : byName'[n] = s
              THEN [ss[s] EXCEPT !.saving = TRUE, !.pending = FALSE]
              ELSE IF \E n \in known : byName'[n] = s
              THEN [ss[s] EXCEPT !.pending = TRUE]
              ELSE ss[s]]
        /\ jobs' = jobs \union {[call |-> c, file |-> n, store |-> byName'[n],
                                 payload |-> Payload(ss[byName'[n]])] : n \in free}
        /\ waiting' = waiting \union {[call |-> c, store |-> byName'[n]] : n \in known \ free}

\* The write of a job is in storage, and the writer goes on: with what the
\* store holds by now if somebody waits, or it answers everybody.
WriteLands(j) ==
    /\ j \in jobs
    /\ disk' = [disk EXCEPT ![j.file] = j.payload]
    /\ IF stores[j.store].pending
       THEN /\ jobs' = (jobs \ {j}) \union {[j EXCEPT !.payload = Payload(stores[j.store])]}
            /\ stores' = [stores EXCEPT ![j.store].pending = FALSE]
            /\ UNCHANGED waiting
       ELSE /\ jobs' = jobs \ {j}
            /\ waiting' = {w \in waiting : w.store # j.store}
            /\ stores' = [stores EXCEPT ![j.store].saving = FALSE]
    /\ UNCHANGED <<setup, handles, byName, instances, call, cache, connection, timer, used, acked>>

\* The write fails: its caller and those that wait are told, and go no further.
\* The other saves of a save of everything go on without a caller.
WriteFails(j) ==
    /\ j \in jobs /\ setup.fails
    /\ LET told == {j.call} \union {w.call : w \in {v \in waiting : v.store = j.store}}
       IN  /\ jobs' = {[i EXCEPT !.call = IF @ \in told THEN NoCall ELSE @] : i \in jobs \ {j}}
           /\ waiting' = {w \in waiting : w.store # j.store /\ w.call \notin told}
           /\ call' = [c \in Callers |-> IF c \in told THEN Idle ELSE call[c]]
    /\ stores' = [stores EXCEPT ![j.store].saving = FALSE]
    /\ UNCHANGED <<setup, handles, byName, instances, disk, cache, connection, timer, used, acked>>

Saved(c) == /\ call[c].step = "saving"
            /\ \A j \in jobs \union waiting : j.call # c

-------------------------------------------------------------------------------
(* Calls on a collection. *)

\* The turn that changes the collection, or finds nothing to change.
Change(c) ==
    LET k == call[c]
        s == handles[k.handle].store
        old == stores[s].docs[k.doc]
        new == IF k.op = "remove" THEN 0 ELSE old + 1
        removed == {d \in {k.doc} : new = 0}
    IN  /\ k.step = "ready" \/ (k.step = "asked" /\ connection = "on")
        /\ IF new = old \/ new > MaxSize
           THEN call' = [call EXCEPT ![c] = Idle] /\ UNCHANGED <<stores, acked>>
           ELSE /\ stores' = [stores EXCEPT ![s].docs[k.doc] = new]
                /\ call' = [Released(removed) EXCEPT ![c] = [k EXCEPT !.step = "changed", !.size = new]]
                /\ Release(removed)
        /\ UNCHANGED <<setup, handles, byName, instances, disk, jobs, waiting, cache,
                       connection, timer, used>>

\* A later turn, after "await mutate()", finds the collection by the name of the
\* handle to mark it, and saves it; not for "put" (save: false), nor for "seed",
\* which saves when all its documents are in.
Mark(c) ==
    LET k == call[c]
        name == handles[k.handle].name
        ss == MarkDirty(stores, name)
    IN  /\ k.step = "changed"
        /\ UNCHANGED <<setup, handles, byName, instances, disk, cache, connection, timer, used, acked>>
        /\ IF k.op \in {"put", "seed"}
           THEN /\ stores' = ss
                /\ call' = [call EXCEPT ![c] = IF k.op = "put" THEN Idle ELSE [k EXCEPT !.step = "marked"]]
                /\ UNCHANGED <<jobs, waiting>>
           ELSE /\ Save(c, {name}, ss)
                /\ call' = [call EXCEPT ![c].step = "saving"]

\* seed() ends with saveData(), which saves everything.
SaveSeed(c) ==
    /\ call[c].step = "marked"
    /\ UNCHANGED <<setup, handles, byName, instances, disk, cache, connection, timer, used, acked>>
    /\ Save(c, Names, stores)
    /\ call' = [call EXCEPT ![c].step = "saving"]

\* The call resolves: what it wrote is promised.
Resolve(c) ==
    /\ Saved(c) /\ call[c].op \in {"write", "remove", "seed"}
    /\ acked' = [acked EXCEPT ![call[c].doc] =
           Max({@, call[c].size})]
    /\ call' = [call EXCEPT ![c] = Idle]
    /\ UNCHANGED <<setup, memory, disk, jobs, waiting, cache, connection, timer, used>>

\* seed() with reset: the collection is emptied in memory and its instance
\* forgotten; the documents come in the next turn, as those of a call.
Seed(c, name, d) ==
    /\ Calls(c, "seed") /\ MayUse(name) /\ byName[name] # 0
    /\ setup.alone => ~ Busy(name)
    /\ LET s == byName[name]
           h == FreeHandle
           gone == {e \in Docs : stores[s].docs[e] > 0}
       IN  /\ stores' = [stores EXCEPT ![s].docs = Empty]
           /\ handles' = [handles EXCEPT ![h] = [store |-> s, name |-> name]]
           /\ instances' = [instances EXCEPT ![name] = h]
           /\ Release(gone)
           /\ call' = [Released(gone) EXCEPT ![c] = [Idle EXCEPT !.op = "seed", !.name = name,
                  !.doc = d, !.handle = h, !.step = Entered]]
    /\ connection' = IF connection = "off" THEN "loading" ELSE connection
    /\ UNCHANGED <<setup, byName, disk, jobs, waiting, cache, timer>>

-------------------------------------------------------------------------------
(* Renaming. *)

\* Mutant: the instance keeps its name.
RelabelStore(from, to) ==
    /\ byName' = [byName EXCEPT ![to] = byName[from], ![from] = 0]
    /\ UNCHANGED <<handles, instances>>

\* rename() of the registry: the store and the cached instance move.
Relabel(from, to) ==
    LET s == byName[from]
        h == instances[from]
    IN  /\ byName' = [byName EXCEPT ![to] = s, ![from] = 0]
        /\ instances' = IF h = 0 THEN instances
                        ELSE [instances EXCEPT ![to] = h, ![from] = 0]
        /\ handles' = IF h = 0 THEN handles ELSE [handles EXCEPT ![h].name = to]

\* renameCollection(): in memory at once, then a save under the new name.
Rename(c, from, to) ==
    /\ Calls(c, "rename") /\ used.renames < MaxRenames
    /\ byName[from] # 0 /\ byName[to] = 0
    /\ setup.alone => /\ connection = "on" /\ MayUse(to)
                      /\ MayUse(from) /\ ~ Busy(from) /\ ~ Busy(to)
    /\ Relabel(from, to)
    /\ Save(c, {to}, [stores EXCEPT ![byName[from]].label = to])
    /\ call' = [call EXCEPT ![c] = [Idle EXCEPT !.op = "rename", !.name = from,
                                    !.to = to, !.step = "saving"]]
    /\ UNCHANGED <<setup, disk, cache, connection, timer, acked>>

\* Mutant: the old file is removed without waiting for the save.
DeleteEarly(c) == call[c].step = "saving"
MayDelete(c) == Saved(c)

\* The old file is removed, or stays if that fails.
Remove(c) ==
    /\ call[c].op = "rename" /\ MayDelete(c)
    /\ \/ disk' = [disk EXCEPT ![call[c].name] = NoFile]
       \/ setup.fails /\ UNCHANGED disk
    /\ call' = [call EXCEPT ![c] = Idle]
    /\ jobs' = {[j EXCEPT !.call = IF @ = c THEN NoCall ELSE @] : j \in jobs}
    /\ waiting' = {w \in waiting : w.call # c}
    /\ UNCHANGED <<setup, memory, cache, connection, timer, used, acked>>

-------------------------------------------------------------------------------
(* Disconnecting, loading, crashing. *)

\* disconnect() stops the timer and saves everything.
Disconnect(c) ==
    /\ Calls(c, "disconnect") /\ connection = "on" /\ ~ Leaving
    /\ setup.alone => \A b \in Callers : call[b].op = "none"
    /\ UNCHANGED <<setup, handles, byName, instances, disk, cache, connection, acked>>
    /\ Save(c, Names, stores)
    /\ call' = [call EXCEPT ![c] = [Idle EXCEPT !.op = "disconnect", !.step = "saving"]]
    /\ timer' = "none"

Cleared ==
    /\ byName' = [n \in Names |-> 0]
    /\ instances' = [n \in Names |-> 0]
    /\ cache' = [n \in Names |-> NoFile]
    /\ connection' = "off"

\* What memory holds of a document, in the collections that have a name.
Kept(d) == Max({stores[byName[n]].docs[d] : n \in {m \in Names : byName[m] # 0}} \union {0})

\* When all is saved the map of the collections is replaced; what was in
\* memory is promised.
Clear(c) ==
    /\ call[c].op = "disconnect" /\ Saved(c)
    /\ Cleared
    /\ acked' = [d \in Docs |-> Max({acked[d], Kept(d)})]
    /\ call' = [call EXCEPT ![c] = Idle]
    /\ timer' = IF timer = "none" THEN "none" ELSE "old"
    /\ stores' = [s \in StoreIds |->
           IF s \in Range(byName) /\ ~ stores[s].saving THEN NewStore(NoCall) ELSE stores[s]]
    /\ UNCHANGED <<setup, handles, disk, jobs, waiting, used>>

\* Mutant: cached instances stay with the stores they had.
NotSynced == handles

\* loadData() makes cached instances point to the stores that it made.
Synced == [h \in HandleIds |->
    IF \E n \in Names : instances[n] = h /\ byName'[n] # 0
    THEN [handles[h] EXCEPT !.store =
            byName'[CHOOSE n \in Names : instances[n] = h /\ byName'[n] # 0]]
    ELSE handles[h]]

\* connect(): each file becomes the store of the name in it, the last one read
\* if two have the same; the timer starts.
Load ==
    /\ connection = "loading"
    /\ LET labels == {disk[n].label : n \in {m \in Names : disk[m] # NoFile}}
           spare == StoreIds \ LiveStores
           new == CHOOSE f \in [labels -> spare] : IsInjective(f)
       IN  \E file \in [labels -> Names] :
             /\ \A l \in labels : disk[file[l]] # NoFile /\ disk[file[l]].label = l
             /\ byName' = [n \in Names |-> IF n \in labels THEN new[n] ELSE byName[n]]
             /\ stores' = [s \in StoreIds |->
                    IF s \in Range(new)
                    THEN LET l == CHOOSE l \in labels : new[l] = s
                         IN  [NewStore(l) EXCEPT !.docs = disk[file[l]].docs]
                    ELSE stores[s]]
    /\ handles' = Synced
    /\ connection' = "on"
    /\ timer' = IF timer = "none" THEN "current" ELSE timer
    /\ UNCHANGED <<setup, instances, disk, jobs, waiting, call, cache, used, acked>>

\* The process dies, with all it had in memory.
Crash ==
    /\ connection # "off" /\ "crash" \in setup.ops /\ ~ used.crashed
    /\ used' = [used EXCEPT !.crashed = TRUE]
    /\ Cleared
    /\ call' = [c \in Callers |-> Idle]
    /\ jobs' = {} /\ waiting' = {} /\ timer' = "none"
    /\ stores' = [s \in StoreIds |-> NewStore(NoCall)]
    /\ handles' = [h \in HandleIds |-> NoHandle]
    /\ UNCHANGED <<setup, disk, acked>>

-------------------------------------------------------------------------------
(* Sweeps and statistics. *)

\* The timer removes documents that have expired, and marks their collections;
\* a timer of the old map sees none of them.
Sweep(expired) ==
    LET swept == {s \in Range(byName) \ {0} : \E d \in expired : stores[s].docs[d] > 0}
    IN  /\ "sweep" \in setup.ops /\ timer = "current" /\ connection = "on" /\ swept # {}
        /\ stores' = [s \in StoreIds |->
               IF s \notin swept THEN stores[s]
               ELSE [stores[s] EXCEPT !.statsDirty = TRUE,
                       !.docs = [d \in Docs |-> IF d \in expired THEN 0 ELSE @[d]]]]
        /\ Release(expired)
        /\ call' = Released(expired)
        /\ UNCHANGED <<setup, handles, byName, instances, disk, jobs, waiting,
                       cache, connection, timer, used>>

\* stats() answers from its cache if the count is the same and nothing was
\* marked since.
Served(n) ==
    /\ byName[n] # 0 /\ cache[n] # NoFile
    /\ cache[n].count = Count(stores[byName[n]].docs)
    /\ ~ stores[byName[n]].statsDirty

Stats(n) ==
    /\ "stats" \in setup.ops /\ byName[n] # 0 /\ ~ Served(n)
    /\ LET docs == stores[byName[n]].docs
       IN  cache' = [cache EXCEPT ![n] = [count |-> Count(docs), size |-> Size(docs)]]
    /\ stores' = [stores EXCEPT ![byName[n]].statsDirty = FALSE]
    /\ UNCHANGED <<setup, handles, byName, instances, disk, jobs, waiting, call,
                   connection, timer, used, acked>>

Next ==
    \/ \E c \in Callers, n \in Names, d \in Docs :
          \/ \E op \in {"write", "remove", "put"} : Ask(c, op, n, d)
          \/ Seed(c, n, d)
    \/ \E c \in Callers : \/ Change(c) \/ Mark(c) \/ SaveSeed(c) \/ Resolve(c)
                         \/ Remove(c) \/ Disconnect(c) \/ Clear(c)
    \/ \E c \in Callers, from, to \in Names : Rename(c, from, to)
    \/ \E j \in jobs : WriteLands(j) \/ WriteFails(j)
    \/ \E n \in Names : Create(n) \/ Stats(n)
    \/ \E expired \in SUBSET Mortal : Sweep(expired)
    \/ Load \/ Crash

Spec == Init /\ [][Next]_vars

-------------------------------------------------------------------------------
(* Properties. *)

Numbers == [Docs -> 0..MaxSize]

TypeOK ==
    /\ \A s \in StoreIds : stores[s].docs \in Numbers
    /\ \A j \in jobs : j.file \in Names /\ j.store \in StoreIds /\ stores[j.store].saving
    /\ \A w \in waiting : \E j \in jobs : j.store = w.store
    /\ \A n \in Names : byName[n] \in StoreIds \union {0} /\ instances[n] \in HandleIds \union {0}
    /\ acked \in Numbers

\* What a call that resolved has written, and what disconnect() flushed, is in a
\* file: through renames, seeds, failed writes and crashes (index.js 448
\* "Updates in-memory state and persists the new name", 389 "flush all unsaved
\* data").
AckedIsStored ==
    \A d \in Docs : acked[d] > 0 =>
        \E n \in Names : disk[n] # NoFile /\ disk[n].docs[d] >= acked[d]

\* The registry's maps agree: a store carries the name it is found under, the
\* cached instance of a name works on the store of that name and marks and
\* saves under it (registry.js 128, index.js 473), and the timer sweeps the
\* collections of today.
RegistryAgrees ==
    connection = "on" =>
      /\ \A n \in Names : byName[n] # 0 => stores[byName[n]].label = n
      /\ \A n \in Names : instances[n] # 0 =>
             handles[instances[n]] = [store |-> byName[n], name |-> n]
      /\ timer # "old"

\* A call has changed the store, and not marked it yet.
Unmarked(s) == \E c \in Callers : call[c].step = "changed" /\ handles[call[c].handle].store = s

\* stats() never answers from its cache with the size of other contents, but for
\* the turns between a change and its mark (registry.js 228, pipeline.js 110).
StatsAreCurrent ==
    \A n \in Names : Served(n) /\ ~ Unmarked(byName[n]) =>
        cache[n].size = Size(stores[byName[n]].docs)

-------------------------------------------------------------------------------
(* A sentence of the code that it does not keep.                             *)

\* registry.js 222 "Return cached stats if the collection has not been mutated
\* since the last computation": an update that leaves the number of documents
\* as it is has changed them some turns before it marks their collection.
CachedUntilMutated ==
    \A n \in Names : Served(n) => cache[n].size = Size(stores[byName[n]].docs)
===============================================================================
