----------------------------- MODULE ChangeLog ------------------------------
(***************************************************************************)
(* Those who follow a collection: the change log, from which a collection  *)
(* is restored to a point in time, and watchers.  A mutation is one turn   *)
(* here (Documents has what comes before it); then the pipeline awaits the *)
(* save, writes one entry after the other to the log, awaiting each, and   *)
(* publishes the events.  While a transaction is active, entries and events*)
(* are deferred into it, whoever made the mutation; the transaction writes *)
(* other collections.  What Transaction calls "effects" is taken apart.    *)
(*                                                                         *)
(* Documents are objects, as in Documents: a soft delete marks the object  *)
(* that the entries in the making refer to.  Time goes in ticks, within    *)
(* which several things may happen.                                        *)
(***************************************************************************)
EXTENDS Watch, SequencesExt, FiniteSets

CONSTANTS Call,      \* calls of insertOne(), updateMany(), db.restore(), ...
          Doc,       \* values of _id
          MaxAsked,  \* bound on the calls of next()
          Setups     \* collections, their callers and watchers, see Setup

Gone == 0            \* no object
Forgotten == {}      \* a time of which nothing is said
Op == {"insert", "update", "delete", "restore"}

\* Documents by their _id, each once: a batch with one twice is refused.
Batch == {docs \in Seq(Doc) : IsInjective(docs)}

\* What is called: an operation on documents, or db.restore() ("rewind") of a
\* document or, with no document, of the collection.
Request == [op : Op \union {"rewind"}, docs : Batch]

\* softDelete and maxDocs (0: not capped) of the collection; loaded: documents
\* that are there without a log; serial: callers await one another's calls on a
\* document; fails: saves may fail; tx: how transactions on other collections
\* may end; expire: documents with a TTL; buffer: maxBufferSize of an iterator
\* (0: nobody iterates); eager: its consumer does not await next(); time and calls:
\* the bounds on the clock and on the calls.
Setup == [soft : BOOLEAN, cap : Nat, loaded : Batch, serial : BOOLEAN,
          fails : BOOLEAN, tx : SUBSET {"commit", "abort"}, expire : SUBSET Doc,
          buffer : Nat, eager : BOOLEAN, time : Nat \ {0}, calls : Nat,
          requests : SUBSET Request]

ASSUME ChangeLogAssumption ==
  /\ MaxAsked \in Nat
  /\ Setups \subseteq Setup

VARIABLES
  setup,     \* which never changes
  heap,      \* every object: its _id, its contents (a number), _deletedAt
  data,      \* _data: addresses, in order
  now,       \* the clock
  log,       \* _changelog: entries in the order they were inserted
  call,      \* how far each call is
  deferred,  \* ctx.deferredEffects
  tx,        \* the transaction: "none", "open", "flushing"
  mirror,    \* what a watcher that keeps a copy has: contents by _id
  iter,      \* an iterator of watch()
  past       \* what the collection was at the end of each tick, where known

vars == <<setup, heap, data, now, log, call, deferred, tx, mirror, iter, past>>

\* "applied": the entries up to `at` are logged; "logging": the entry after
\* these is stamped and on its way; "reading", "read": db.restore() before and
\* after its query of the log.
Stage == {"idle", "applied", "logging", "reading", "read", "done", "failed"}

NoCall == [stage |-> "idle", op |-> "insert", docs |-> <<>>, objs |-> <<>>, at |-> 0,
           until |-> 0, entries |-> <<>>]

Init ==
  /\ setup \in Setups
  /\ heap = [i \in 1 .. Len(setup.loaded) |->
               [id |-> setup.loaded[i], val |-> i, deleted |-> FALSE]]
  /\ data = [i \in 1 .. Len(setup.loaded) |-> i]
  /\ now = 1
  /\ log = <<>>
  /\ call = [c \in Call |-> NoCall]
  /\ deferred = <<>>
  /\ tx = "none"
  /\ mirror = [d \in Doc |-> IF \E i \in DOMAIN setup.loaded : setup.loaded[i] = d
                             THEN CHOOSE i \in DOMAIN setup.loaded : setup.loaded[i] = d
                             ELSE Gone]
  /\ iter = Idle
  /\ past = <<>>

-----------------------------------------------------------------------------
(* What is in the collection. *)

\* The elements of s that are in keep, in order.
Only(s, keep) ==
  LET kept[i \in 0 .. Len(s)] ==
        IF i = 0 THEN <<>>
        ELSE IF s[i] \in keep THEN Append(kept[i - 1], s[i]) ELSE kept[i - 1]
  IN  kept[Len(s)]

Holds(d) == \E i \in DOMAIN data : heap[data[i]].id = d

Address(d) == data[CHOOSE i \in DOMAIN data : heap[data[i]].id = d]

\* The documents that a query without includeDeleted finds.
Visible(d) ==
  IF Holds(d) /\ ~heap[Address(d)].deleted THEN heap[Address(d)].val ELSE Gone

\* Objects get their addresses one after the other, and a write its contents.
Fresh(d, i) == [id |-> d, val |-> Len(heap) + i, deleted |-> FALSE]

Addresses(s) == [i \in DOMAIN s |-> Len(heap) + i]

-----------------------------------------------------------------------------
(* The event bus. *)

Event(op, o) == [op |-> op, id |-> heap'[o].id, val |-> heap'[o].val]

\* A watcher that keeps a copy, on the channel of the collection or on "*".
Follow(copy, e) == [copy EXCEPT ![e.id] = IF e.op = "delete" THEN Gone ELSE e.val]

Listen(it, e) == IF setup.buffer = 0 THEN it ELSE Hear(it, e, setup.buffer)

\* emit() of one event after the other.
Publish(events) ==
  LET heard[i \in 0 .. Len(events)] ==
        IF i = 0 THEN [copy |-> mirror, it |-> iter]
        ELSE [copy |-> Follow(heard[i - 1].copy, events[i]),
              it   |-> Listen(heard[i - 1].it, events[i])]
  IN  /\ mirror' = heard[Len(events)].copy
      /\ iter' = heard[Len(events)].it

\* Mutant: an event in a transaction is not deferred.
PublishAtOnce(events) == Publish(events) /\ UNCHANGED deferred

\* _emitEvent() for each of the events.
EmitEvents(events) ==
  IF tx = "none"
  THEN Publish(events) /\ UNCHANGED deferred
  ELSE /\ deferred' = deferred \o [i \in DOMAIN events |-> [kind |-> "event", event |-> events[i]]]
       /\ UNCHANGED <<mirror, iter>>

-----------------------------------------------------------------------------
(* Mutations: the turn in which the collection changes. *)

InFlight(c) == call[c].stage \notin {"idle", "done", "failed"}

\* What a call on these documents needs for itself among serial callers.
Touched(docs) == IF docs = <<>> \/ setup.cap > 0 THEN Doc ELSE ToSet(docs)

MayStart(c, op, docs) ==
  /\ call[c].stage = "idle"
  /\ Cardinality({b \in Call : call[b].stage # "idle"}) < setup.calls
  /\ [op |-> op, docs |-> docs] \in setup.requests
  /\ setup.serial => \A b \in Call : InFlight(b) => Touched(call[b].docs) \cap Touched(docs) = {}

Ended(c, stage) ==
  call' = [call EXCEPT ![c] = [NoCall EXCEPT !.stage = stage, !.until = call[c].until]]

Started(c, stage, op, docs, objs) ==
  call' = [call EXCEPT ![c] = [NoCall EXCEPT !.stage = stage, !.op = op, !.docs = docs, !.objs = objs]]

Found(docs) == Only(docs, {d \in Doc : Visible(d) # Gone})

\* insertMany(); what is evicted is published at once, and not logged.
Insert(c, docs) ==
  LET all  == data \o Addresses(docs)
      over == IF setup.cap > 0 /\ Len(all) > setup.cap THEN Len(all) - setup.cap ELSE 0
  IN  /\ MayStart(c, "insert", docs)
      /\ \A d \in ToSet(docs) : ~Holds(d)
      /\ heap' = heap \o [i \in DOMAIN docs |-> Fresh(docs[i], i)]
      /\ data' = SubSeq(all, over + 1, Len(all))
      /\ EmitEvents([i \in 1 .. over |-> Event("delete", all[i])])
      /\ Started(c, "applied", "insert", docs, Addresses(docs))
      /\ UNCHANGED <<setup, now, log, tx, past>>

\* updateMany(): new objects in the places of the old ones.
Update(c, docs) ==
  LET found == Found(docs)
      new   == Addresses(found)
  IN  /\ MayStart(c, "update", docs)
      /\ found # <<>>
      /\ heap' = heap \o [i \in DOMAIN found |-> Fresh(found[i], i)]
      /\ data' = [i \in DOMAIN data |->
                   IF heap[data[i]].id \in ToSet(found)
                   THEN new[CHOOSE j \in DOMAIN found : found[j] = heap[data[i]].id]
                   ELSE data[i]]
      /\ Started(c, "applied", "update", docs, new)
      /\ UNCHANGED <<setup, now, log, deferred, tx, mirror, iter, past>>

\* deleteMany(): the objects are marked, or taken out.
Delete(c, docs) ==
  LET found == Found(docs)
      objs  == [i \in DOMAIN found |-> Address(found[i])]
  IN  /\ MayStart(c, "delete", docs)
      /\ found # <<>>
      /\ IF setup.soft
         THEN /\ heap' = [a \in DOMAIN heap |-> [heap[a] EXCEPT !.deleted = @ \/ a \in ToSet(objs)]]
              /\ UNCHANGED data
         ELSE /\ data' = Only(data, DOMAIN heap \ ToSet(objs))
              /\ UNCHANGED heap
      /\ Started(c, "applied", "delete", docs, objs)
      /\ UNCHANGED <<setup, now, log, deferred, tx, mirror, iter, past>>

\* restore() of the collection: the mark is taken off.
Undelete(c, docs) ==
  LET d == docs[1]
  IN  /\ MayStart(c, "restore", docs)
      /\ setup.soft /\ Holds(d) /\ heap[Address(d)].deleted
      /\ heap' = [heap EXCEPT ![Address(d)].deleted = FALSE]
      /\ Started(c, "applied", "restore", docs, <<Address(d)>>)
      /\ UNCHANGED <<setup, data, now, log, deferred, tx, mirror, iter, past>>

\* The TTL sweep: no entry and no event.
Sweep(d) ==
  /\ d \in setup.expire /\ Holds(d)
  /\ data' = Only(data, {a \in DOMAIN heap : heap[a].id # d})
  /\ UNCHANGED <<setup, heap, now, log, call, deferred, tx, mirror, iter, past>>

-----------------------------------------------------------------------------
(* What the pipeline does after a mutation. *)

\* The save rejects; so does the call, and its change stays.
SaveFails(c) ==
  /\ setup.fails /\ call[c].stage = "applied" /\ call[c].at = 0
  /\ Ended(c, "failed")
  /\ UNCHANGED <<setup, heap, data, now, log, deferred, tx, mirror, iter, past>>

\* ChangeLog.log(): a copy of the document as it is now, and the time.
Entry(op, o) == [op |-> op, id |-> heap[o].id, val |-> heap[o].val,
                 deleted |-> heap[o].deleted, ts |-> now]

\* _logChange() of the next document: it is inserted into _changelog, or
\* deferred, and then it is stamped and copied when the transaction is over.
LogChange(c) ==
  LET o == call[c].objs[call[c].at + 1]
  IN  /\ call[c].stage = "applied" /\ call[c].at < Len(call[c].objs)
      /\ IF tx = "none"
         THEN /\ call' = [call EXCEPT ![c].stage = "logging", ![c].entries = <<Entry(call[c].op, o)>>]
              /\ UNCHANGED deferred
         ELSE /\ call' = [call EXCEPT ![c].at = @ + 1]
              /\ deferred' = Append(deferred, [kind |-> "entry", op |-> call[c].op, obj |-> o])
      /\ UNCHANGED <<setup, heap, data, now, log, tx, mirror, iter, past>>

\* The entry is in _changelog, whose save may fail.
Logged(c) ==
  /\ call[c].stage = "logging"
  /\ log' = log \o call[c].entries
  /\ \/ call' = [call EXCEPT ![c].stage = "applied", ![c].at = @ + 1, ![c].entries = <<>>]
     \/ setup.fails /\ Ended(c, "failed")
  /\ UNCHANGED <<setup, heap, data, now, deferred, tx, mirror, iter, past>>

\* Mutant: of several documents, only the first is published.
EmitFirst(c) ==
  /\ call[c].stage = "applied" /\ call[c].at = Len(call[c].objs)
  /\ UNCHANGED <<setup, heap, data, now, log, tx, past>>
  /\ EmitEvents(<<Event(call[c].op, call[c].objs[1])>>)
  /\ Ended(c, "done")

\* All entries are written: the events of all documents, in one turn.
Emit(c) ==
  /\ call[c].stage = "applied" /\ call[c].at = Len(call[c].objs)
  /\ UNCHANGED <<setup, heap, data, now, log, tx, past>>
  /\ EmitEvents([i \in DOMAIN call[c].objs |-> Event(call[c].op, call[c].objs[i])])
  /\ Ended(c, "done")

-----------------------------------------------------------------------------
(* A transaction on other collections. *)

Begin ==
  /\ tx = "none" /\ setup.tx # {}
  /\ tx' = "open"
  /\ UNCHANGED <<setup, heap, data, now, log, call, deferred, mirror, iter, past>>

\* saveAtomic() succeeded.
Commit ==
  /\ tx = "open" /\ "commit" \in setup.tx
  /\ tx' = "flushing"
  /\ UNCHANGED <<setup, heap, data, now, log, call, deferred, mirror, iter, past>>

\* What was deferred goes with the transaction.
Abort ==
  /\ tx = "open" /\ "abort" \in setup.tx
  /\ tx' = "none"
  /\ deferred' = <<>>
  /\ UNCHANGED <<setup, heap, data, now, log, call, mirror, iter, past>>

\* The loop over the effects, which awaits each of them, and takes in those that
\* are deferred meanwhile.
FlushEvent ==
  /\ tx = "flushing" /\ deferred # <<>>
  /\ Head(deferred).kind = "event"
  /\ Publish(<<Head(deferred).event>>)
  /\ deferred' = Tail(deferred)
  /\ UNCHANGED <<setup, heap, data, now, log, call, tx, past>>

FlushEntry ==
  /\ tx = "flushing" /\ deferred # <<>>
  /\ Head(deferred).kind = "entry"
  /\ deferred' = [deferred EXCEPT ![1] =
                    [kind |-> "stamped", entry |-> Entry(Head(deferred).op, Head(deferred).obj)]]
  /\ UNCHANGED <<setup, heap, data, now, log, call, tx, mirror, iter, past>>

FlushLogged ==
  /\ tx = "flushing" /\ deferred # <<>>
  /\ Head(deferred).kind = "stamped"
  /\ log' = Append(log, Head(deferred).entry)
  /\ deferred' = Tail(deferred)
  /\ UNCHANGED <<setup, heap, data, now, call, tx, mirror, iter, past>>

FlushEnds ==
  /\ tx = "flushing" /\ deferred = <<>>
  /\ tx' = "none"
  /\ UNCHANGED <<setup, heap, data, now, log, call, deferred, mirror, iter, past>>

-----------------------------------------------------------------------------
(* db.restore(), which writes no entry. *)

Rewind(c, docs) ==
  /\ MayStart(c, "rewind", docs)
  /\ \E t \in 1 .. now :
       call' = [call EXCEPT ![c] = [NoCall EXCEPT !.stage = "reading", !.docs = docs, !.until = t]]
  /\ UNCHANGED <<setup, heap, data, now, log, deferred, tx, mirror, iter, past>>

\* query(), sorted by timestamp and then by insertion; no later than t.
UpTo(t) ==
  LET sorted[i \in 0 .. t] ==
        IF i = 0 THEN <<>>
        ELSE sorted[i - 1] \o Only(log, {e \in ToSet(log) : e.ts = i})
  IN  sorted[t]

ReadLog(c) ==
  /\ call[c].stage = "reading"
  /\ call' = [call EXCEPT ![c].stage = "read", ![c].entries = UpTo(call[c].until)]
  /\ UNCHANGED <<setup, heap, data, now, log, deferred, tx, mirror, iter, past>>

\* Mutant: a delete does not take the document out of the Map.
PutKeeps(state, e) ==
  IF \E i \in DOMAIN state : state[i].id = e.id
  THEN [i \in DOMAIN state |-> IF state[i].id = e.id /\ e.op # "delete" THEN e ELSE state[i]]
  ELSE Append(state, e)

\* The Map of the replay gets an entry: in the place of the one of its document.
Put(state, e) ==
  IF \E i \in DOMAIN state : state[i].id = e.id
  THEN [i \in DOMAIN state |-> IF state[i].id = e.id THEN e ELSE state[i]]
  ELSE Append(state, e)

\* The last entry of each document, in the order of the first ones; an entry of
\* restore() says nothing here.
Replay(entries) ==
  LET replayed[i \in 0 .. Len(entries)] ==
        IF i = 0 THEN <<>>
        ELSE IF entries[i].op = "restore" THEN replayed[i - 1]
        ELSE Put(replayed[i - 1], entries[i])
  IN  Only(replayed[Len(entries)], {e \in ToSet(entries) : e.op # "delete"})

Clone(e) == [id |-> e.id, val |-> e.val, deleted |-> e.deleted]

\* _rehydrateAll(): the collection is what was replayed, whatever it was.
RestoreAll(c) ==
  LET docs == Replay(call[c].entries)
      new  == Addresses(docs)
  IN  /\ call[c].stage = "read" /\ call[c].docs = <<>>
      /\ heap' = heap \o [i \in DOMAIN docs |-> Clone(docs[i])]
      /\ data' = new
      /\ EmitEvents([i \in DOMAIN data |-> Event("delete", data[i])]
                    \o [i \in DOMAIN new |-> Event("insert", new[i])])
      /\ Ended(c, "done")
      /\ UNCHANGED <<setup, now, log, tx, past>>

\* _rehydrateOne(): what the last entry of the document has, if there is one.
RestoreOne(c) ==
  LET d  == call[c].docs[1]
      es == Only(call[c].entries, {e \in ToSet(call[c].entries) : e.id = d})
      a  == Len(heap) + 1
  IN  /\ call[c].stage = "read" /\ call[c].docs # <<>>
      /\ CASE es = <<>> \/ (Last(es).op = "delete" /\ ~Holds(d)) ->
                UNCHANGED <<heap, data, deferred, mirror, iter>>
           [] es # <<>> /\ Last(es).op = "delete" /\ Holds(d) ->
                /\ UNCHANGED heap
                /\ data' = Only(data, {b \in DOMAIN heap : heap[b].id # d})
                /\ EmitEvents(<<Event("delete", Address(d))>>)
           [] es # <<>> /\ Last(es).op # "delete" ->
                /\ heap' = Append(heap, Clone(Last(es)))
                /\ data' = IF Holds(d)
                           THEN [i \in DOMAIN data |-> IF data[i] = Address(d) THEN a ELSE data[i]]
                           ELSE Append(data, a)
                /\ EmitEvents(<<Event(IF Holds(d) THEN "update" ELSE "insert", a)>>)
      /\ Ended(c, "done")
      /\ UNCHANGED <<setup, now, log, tx, past>>

-----------------------------------------------------------------------------
(* Time, and the consumer of the iterator. *)

\* Nobody is about to write an entry or to publish an event.
Quiet == /\ \A c \in Call : ~InFlight(c)
         /\ deferred = <<>>
         /\ tx # "flushing"

\* What queries find, as pairs of _id and contents.
Seen == {<<d, Visible(d)>> : d \in {e \in Doc : Visible(e) # Gone}}

Rewound == \E c \in Call : call[c].stage = "done" /\ call[c].until > 0

Tick ==
  /\ now < setup.time
  /\ now' = now + 1
  /\ past' = Append(past, IF Quiet /\ ~Rewound THEN {Seen} ELSE Forgotten)
  /\ UNCHANGED <<setup, heap, data, log, call, deferred, tx, mirror, iter>>

\* next(); a consumer that is not eager awaits one call before the next.
Pull ==
  /\ setup.buffer > 0 /\ iter.asked < MaxAsked
  /\ setup.eager \/ Waiting(iter) = {}
  /\ iter' = Ask(iter)
  /\ UNCHANGED <<setup, heap, data, now, log, call, deferred, tx, mirror, past>>

\* return(), which a for-await loop calls when it is left, and anybody may.
Return ==
  /\ setup.buffer > 0 /\ ~iter.done
  /\ iter' = Leave(iter)
  /\ UNCHANGED <<setup, heap, data, now, log, call, deferred, tx, mirror, past>>

Mutate(c) ==
  \E docs \in {r.docs : r \in setup.requests} :
    Insert(c, docs) \/ Update(c, docs) \/ Delete(c, docs) \/ Undelete(c, docs)

Follows(c) == LogChange(c) \/ Logged(c) \/ Emit(c)

Restores(c) == ReadLog(c) \/ RestoreAll(c) \/ RestoreOne(c)

Effects == FlushEvent \/ FlushEntry \/ FlushLogged \/ FlushEnds

Next ==
  \/ \E c \in Call : Mutate(c) \/ SaveFails(c) \/ Follows(c) \/ Restores(c)
  \/ \E c \in Call : \E docs \in {r.docs : r \in setup.requests} : Rewind(c, docs)
  \/ \E d \in Doc : Sweep(d)
  \/ Begin \/ Commit \/ Abort \/ Effects
  \/ Tick \/ Pull \/ Return

Spec == Init /\ [][Next]_vars

-----------------------------------------------------------------------------
(* Properties. *)

\* Every variable has its type: addresses point into the heap and name a
\* document once, entries and times are of the past, the buffer keeps its bound.
TypeOK ==
  /\ setup \in Setups
  /\ now \in 1 .. setup.time /\ Len(past) = now - 1
  /\ \A a \in DOMAIN heap : heap[a] \in [id : Doc, val : DOMAIN heap, deleted : BOOLEAN]
  /\ ToSet(data) \subseteq DOMAIN heap
  /\ \A i, j \in DOMAIN data : heap[data[i]].id = heap[data[j]].id => i = j
  /\ \A i \in DOMAIN log :
       /\ [log[i] EXCEPT !.ts = 1] \in [op : Op, id : Doc, val : DOMAIN heap, deleted : BOOLEAN, ts : {1}]
       /\ log[i].ts \in 1 .. now
  /\ \A c \in Call : call[c].stage \in Stage /\ call[c].at \in 0 .. Len(call[c].objs)
  /\ tx \in {"none", "open", "flushing"}
  /\ deferred # <<>> => tx # "none"
  /\ setup.buffer > 0 => Len(iter.queue) <= setup.buffer

\* An entry that waits for a transaction refers to the object, which a soft
\* delete marks before it is copied (LogHasWhatWasWritten).
EntriesAreCopies == setup.soft => setup.tx = {}

\* Where the log has all there is to know.
LogIsWhole == /\ setup.serial /\ ~setup.fails /\ setup.cap = 0 /\ setup.loaded = <<>>
           /\ setup.expire = {} /\ "abort" \notin setup.tx
           /\ EntriesAreCopies

\* db.restore(collection, t) brings back the documents that were there at t, and
\* db.restore(collection, t, { _id }) the document, if t was a moment at which
\* no call and no transaction had entries left to write: whatever was inserted,
\* replaced and deleted before and since, directly or while a transaction was
\* active (changelog.js: "Restore a collection (or a single document) to its
\* state at `timestamp`").  Not said of restore() of soft-deleted documents,
\* which the replay of a collection passes over, nor of one document that has
\* no entry by t.
RestoreIsExact ==
  [][\A c \in Call :
       (/\ LogIsWhole
        /\ call[c].stage = "read" /\ call[c]'.stage = "done"
        /\ call[c].until \in DOMAIN past /\ past[call[c].until] # Forgotten)
       => IF call[c].docs = <<>>
          THEN (\A r \in setup.requests : r.op # "restore") => Seen' \in past[call[c].until]
          ELSE (\E i \in DOMAIN call[c].entries : call[c].entries[i].id = call[c].docs[1])
               => \A was \in past[call[c].until] :
                    {p \in Seen' : p[1] = call[c].docs[1]} = {p \in was : p[1] = call[c].docs[1]}
    ]_vars

\* No batch is larger than a capped collection.
BatchesFit ==
  setup.cap > 0 => \A r \in setup.requests : r.op = "insert" => Len(r.docs) <= setup.cap

\* A watcher that applies each event to a copy has the collection, whenever no
\* event is on its way: through updates of several documents, evictions, soft
\* deletes, restores of the collection, and transactions that hold events back.
\* Not said where calls on a document overlap (WatchersFollow), where a batch
\* evicts documents of its own (EvictionsAreSeen), and where events are lost:
\* with the transaction that fails, the save that fails, the sweep.
MirrorAgrees ==
  (/\ setup.serial /\ ~setup.fails /\ setup.expire = {} /\ "abort" \notin setup.tx
   /\ BatchesFit
   /\ EntriesAreCopies \/ (\A r \in setup.requests : r.op # "rewind")
   /\ Quiet)
  => \A d \in Doc : mirror[d] = Visible(d)

\* Whoever acts upon an event finds what it tells in the log: entries are
\* written first, by the call or by the transaction that holds both back, also
\* when saves fail half way.  Not where a transaction may fail: it takes with it
\* the entries of calls outside it, which publish their events afterwards.
EventsAreLogged ==
  "abort" \notin setup.tx =>
    \A d \in Doc :
      \/ mirror[d] \in 0 .. Len(setup.loaded)
      \/ \E i \in DOMAIN log : log[i].id = d /\ log[i].val = mirror[d]

\* Every event published to the iterator is delivered, buffered, or counted in
\* `dropped`; and no wake-up is lost: when a consumer that awaits each call of
\* next() waits, there is no event in the buffer, return() was not called, and
\* the listener holds the promise that is waited for.
IteratorLosesNothing ==
  setup.buffer > 0 =>
    /\ iter.published = iter.got + iter.dropped + Len(iter.queue)
    /\ ~setup.eager /\ Waiting(iter) # {} =>
         iter.queue = <<>> /\ ~iter.done /\ Waiting(iter) = {iter.resolve}

-----------------------------------------------------------------------------
(* Sentences of the documentation that the code does not keep.             *)

\* pipeline.js:40 "preserves strict per-collection delivery order": a watcher of
\* concurrent calls on a document ends with what the collection has.
WatchersFollow ==
  (/\ ~setup.fails /\ setup.expire = {} /\ "abort" \notin setup.tx /\ Quiet)
  => \A d \in Doc : mirror[d] = Visible(d)

\* collection.js:274 "so watch listeners observe their disappearance alongside the
\* corresponding inserts": a watcher does not keep what was evicted (the deletes
\* of a batch are published before its inserts, those of its own documents too).
EvictionsAreSeen ==
  (setup.serial /\ ~setup.fails /\ setup.expire = {} /\ setup.tx = {} /\ Quiet)
  => \A d \in Doc : mirror[d] # Gone => Holds(d)

\* changelog.js:30 "Document after the operation": the entry of an insert or of
\* an update has a document that is not deleted.
LogHasWhatWasWritten ==
  \A i \in DOMAIN log : log[i].op \in {"insert", "update"} => ~log[i].deleted

\* The promise of every next() that is not the last one is settled (two calls of
\* next() that wait: collection.js overwrites resolve).
NextIsAlwaysAnswered == iter.done => Waiting(iter) = {}
=============================================================================
